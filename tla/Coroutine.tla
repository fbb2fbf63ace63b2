----------------------------- MODULE Coroutine -----------------------------
(***************************************************************************)
(* The switch between a runner thread's kernel stack and the stack of its  *)
(* engine (coroutine.h, and code_runner which uses it).  The assembly is   *)
(* kept instruction by instruction and executed by a small machine; of the *)
(* C functions, the calls and what they assign.                            *)
(*                                                                         *)
(* A stack is a sequence of 8-byte words, its top last; rsp is the stack   *)
(* the thread is on.  Both stacks start 16-byte aligned.  What C code      *)
(* keeps in the callee-saved registers when it calls co_switch is any      *)
(* value, another one in each register.                                    *)
(***************************************************************************)
EXTENDS Integers, Sequences

CONSTANTS Values   \* contents of registers

VARIABLES
  ip,           \* a C label, or a routine and the index of an instruction
  regs,         \* the callee-saved registers
  rax,
  rsp,          \* the stack the thread is on
  stack,        \* the contents of both
  co_stack,     \* co->stack
  terminated,   \* co->terminated
  kept,         \* ledger: the registers of each side when it last switched
  entered       \* ledger: how often co->entry was called

vars == <<ip, regs, rax, rsp, stack, co_stack, terminated, kept, entered>>

Stacks == {"kernel", "engine"}

Callee == {"rbx", "rbp", "r12", "r13", "r14", "r15"}

File(v) == [r \in Callee |-> <<v, r>>]

\* %rdi is &co->stack, the argument of co_switch, throughout.
co_switch_StoresFirst ==
  << <<"push", "rbx">>, <<"push", "rbp">>, <<"push", "r12">>,
     <<"push", "r13">>, <<"push", "r14">>, <<"push", "r15">>,
     <<"mov", "rsp", "(rdi)">>, <<"mov", "(rdi)", "rax">>, <<"mov", "rax", "rsp">>,
     <<"pop", "r15">>, <<"pop", "r14">>, <<"pop", "r13">>,
     <<"pop", "r12">>, <<"pop", "rbp">>, <<"pop", "rbx">>, <<"ret">> >>

co_switch_PushOrder ==
  << <<"push", "rbx">>, <<"push", "rbp">>, <<"push", "r12">>,
     <<"push", "r13">>, <<"push", "r14">>, <<"push", "r15">>,
     <<"mov", "(rdi)", "rax">>, <<"mov", "rsp", "(rdi)">>, <<"mov", "rax", "rsp">>,
     <<"pop", "rbx">>, <<"pop", "rbp">>, <<"pop", "r12">>,
     <<"pop", "r13">>, <<"pop", "r14">>, <<"pop", "r15">>, <<"ret">> >>

co_switch_ShortPop ==
  << <<"push", "rbx">>, <<"push", "rbp">>, <<"push", "r12">>,
     <<"push", "r13">>, <<"push", "r14">>, <<"push", "r15">>,
     <<"mov", "(rdi)", "rax">>, <<"mov", "rsp", "(rdi)">>, <<"mov", "rax", "rsp">>,
     <<"pop", "r15">>, <<"pop", "r14">>, <<"pop", "r13">>,
     <<"pop", "r12">>, <<"pop", "rbp">>, <<"ret">> >>

co_switch ==
  << <<"push", "rbx">>, <<"push", "rbp">>, <<"push", "r12">>,
     <<"push", "r13">>, <<"push", "r14">>, <<"push", "r15">>,
     <<"mov", "(rdi)", "rax">>, <<"mov", "rsp", "(rdi)">>, <<"mov", "rax", "rsp">>,
     <<"pop", "r15">>, <<"pop", "r14">>, <<"pop", "r13">>,
     <<"pop", "r12">>, <<"pop", "rbp">>, <<"pop", "rbx">>, <<"ret">> >>

pre_call_entry == << <<"pop", "rax">>, <<"pop", "rdi">>, <<"call", "rax">>, <<"ud2">> >>

Routines == [co_switch |-> co_switch, pre_call_entry |-> pre_call_entry]

At(routine, i) == <<routine, i>>

\* ip stands before an instruction with this opcode.
Opcode(op) == ip[1] \in DOMAIN Routines /\ Routines[ip[1]][ip[2]][1] = op

Operand(i) == Routines[ip[1]][ip[2]][i + 1]

C(label) == <<label, 0>>

\* Where code_runner starts; the engine's stack is empty.
Init ==
  /\ ip = C("start_coroutine")
  /\ regs \in {File(v) : v \in Values}
  /\ rax = <<"any", 0>>
  /\ rsp = "kernel"
  /\ stack = [s \in Stacks |-> <<>>]
  /\ co_stack = "engine"
  /\ terminated = FALSE
  /\ kept = [s \in Stacks |-> regs]
  /\ entered = 0

-----------------------------------------------------------------------------
(* Instructions. *)

\* The word a pop or a ret takes, and the stack it leaves.
Top(s) == s[Len(s)]

Rest(s) == SubSeq(s, 1, Len(s) - 1)

Advance == ip' = At(ip[1], ip[2] + 1)

Push ==
  /\ Opcode("push")
  /\ stack' = [stack EXCEPT ![rsp] = Append(@, regs[Operand(1)])]
  /\ Advance
  /\ UNCHANGED <<regs, rax, rsp, co_stack, terminated, kept, entered>>

\* %rdi is not followed: it is the same co at every switch.
Pop ==
  /\ Opcode("pop")
  /\ stack' = [stack EXCEPT ![rsp] = Rest(@)]
  /\ regs' = IF Operand(1) \in Callee
             THEN [regs EXCEPT ![Operand(1)] = Top(stack[rsp])] ELSE regs
  /\ rax' = IF Operand(1) = "rax" THEN Top(stack[rsp]) ELSE rax
  /\ Advance
  /\ UNCHANGED <<rsp, co_stack, terminated, kept, entered>>

Mov ==
  /\ Opcode("mov")
  /\ rax' = IF Operand(2) = "rax" THEN C(co_stack) ELSE rax
  /\ co_stack' = IF Operand(2) = "(rdi)" THEN rsp ELSE co_stack
  /\ rsp' = IF Operand(2) = "rsp" THEN rax[1] ELSE rsp
  /\ Advance
  /\ UNCHANGED <<regs, stack, terminated, kept, entered>>

Ret ==
  /\ Opcode("ret")
  /\ ip' = Top(stack[rsp])
  /\ stack' = [stack EXCEPT ![rsp] = Rest(@)]
  /\ UNCHANGED <<regs, rax, rsp, co_stack, terminated, kept, entered>>

Call ==
  /\ Opcode("call")
  /\ ip' = rax
  /\ stack' = [stack EXCEPT ![rsp] = Append(@, At(ip[1], ip[2] + 1))]
  /\ UNCHANGED <<regs, rax, rsp, co_stack, terminated, kept, entered>>

Instruction == Push \/ Pop \/ Mov \/ Ret \/ Call

-----------------------------------------------------------------------------
(* C code. *)

\* A call of co_switch(&co->stack) that returns to a label, with the words
\* that are on the stacks before the call.
Switch(return, words) ==
  /\ \E v \in Values :
       /\ regs' = File(v)
       /\ kept' = [kept EXCEPT ![rsp] = File(v)]
  /\ stack' = [words EXCEPT ![rsp] = Append(@, C(return))]
  /\ ip' = At("co_switch", 1)

Prepared_Padded ==
  << <<"pad", 0>>, <<"co", 0>>, C("call_entry"), At("pre_call_entry", 1) >>
    \o [i \in 1 .. 6 |-> <<"zero", 0>>]

\* What start_coroutine puts on the engine's stack.
Prepared ==
  << <<"co", 0>>, C("call_entry"), At("pre_call_entry", 1) >>
    \o [i \in 1 .. 6 |-> <<"zero", 0>>]

StartCoroutine ==
  /\ ip = C("start_coroutine")
  /\ Switch("code_runner", [stack EXCEPT !["engine"] = @ \o Prepared])
  /\ UNCHANGED <<rax, rsp, co_stack, terminated, entered>>

\* The loop of code_runner.
CodeRunner ==
  /\ ip = C("code_runner")
  /\ IF terminated
     THEN ip' = C("returned") /\ UNCHANGED <<regs, stack, kept>>
     ELSE Switch("code_runner", stack)
  /\ UNCHANGED <<rax, rsp, co_stack, terminated, entered>>

\* call_entry: back to start_coroutine, and when code_runner switches again ...
CallEntry ==
  /\ ip = C("call_entry")
  /\ Switch("entry", stack)
  /\ UNCHANGED <<rax, rsp, co_stack, terminated, entered>>

\* ... co->entry, which is code_runner_inner.
Entry ==
  /\ ip = C("entry")
  /\ ip' = C("body")
  /\ entered' = entered + 1
  /\ UNCHANGED <<regs, rax, rsp, stack, co_stack, terminated, kept>>

\* proc_exit, a fault and SIGKILL end the thread in it.
DoExit ==
  /\ ip = C("body")
  /\ ip' = C("exited")
  /\ UNCHANGED <<regs, rax, rsp, stack, co_stack, terminated, kept, entered>>

Terminate_Forgets ==
  /\ ip = C("body")
  /\ Switch("resumed", stack)
  /\ UNCHANGED <<rax, rsp, co_stack, terminated, entered>>

\* It has returned: co->terminated, and the last switch.
Terminate ==
  /\ ip = C("body")
  /\ terminated' = TRUE
  /\ Switch("resumed", stack)
  /\ UNCHANGED <<rax, rsp, co_stack, entered>>

-----------------------------------------------------------------------------
\* The thread runs on while it is not in guest code.
Thread == Instruction \/ StartCoroutine \/ CodeRunner \/ CallEntry \/ Entry

Over == ip \in {C("returned"), C("exited")} /\ UNCHANGED vars

Next == Thread \/ DoExit \/ Terminate \/ Over

Spec == Init /\ [][Next]_vars /\ WF_vars(Thread)

-----------------------------------------------------------------------------
(* Properties. *)

Labels ==
  {"start_coroutine", "code_runner", "call_entry", "entry", "body", "resumed",
   "returned", "exited"}

\* ip is always the address of code: no ret takes a saved register or a word
\* that start_coroutine put there for something else.
TypeOK ==
  /\ ip \in {C(l) : l \in Labels} \cup {At("co_switch", i) : i \in 1 .. Len(co_switch)}
           \cup {At("pre_call_entry", i) : i \in 1 .. Len(pre_call_entry)}
  /\ DOMAIN regs = Callee
  /\ rsp \in Stacks /\ co_stack \in Stacks
  /\ terminated \in BOOLEAN
  /\ entered \in Nat

\* co_switch returns to each side with the registers that side had when it
\* called it, whatever the other side has done since.
CalleeSaved ==
  /\ ip \in {C("code_runner"), C("returned")} => regs = kept["kernel"]
  /\ ip \in {C("entry"), C("body")} => regs = kept["engine"]

\* The ABI's alignment of the stack at the call that enters the coroutine ("//
\* 16-byte aligned" in start_coroutine), and nothing is left on the kernel
\* stack when code_runner goes on.
Aligned ==
  /\ Opcode("call") => rsp = "engine" /\ Len(stack[rsp]) % 2 = 0
  /\ ip \in {C("code_runner"), C("returned")} => rsp = "kernel" /\ stack[rsp] = <<>>

\* co->entry is called once; after its last switch the coroutine is never
\* resumed, and ud2 is never reached; code_runner returns only when it is over.
RunsOnce ==
  /\ entered <= 1
  /\ ip # C("resumed") /\ ~Opcode("ud2")
  /\ ip = C("returned") => terminated /\ entered = 1

\* The coroutine is entered, and once its entry has returned the loop of
\* code_runner ends.
EntersAndReturns ==
  <>(entered = 1) /\ (terminated ~> ip = C("returned"))
=============================================================================
