---------------------------- MODULE KernelProofs ----------------------------
(***************************************************************************)
(* The two components whose state is the kernel's: the switch between the  *)
(* stacks of a runner thread (Coroutine), for any contents of registers,   *)
(* and the loading and unloading of the modules (Lifecycle), for any       *)
(* extension modules and any number of descriptors.                        *)
(*                                                                         *)
(* The invariant of the switch gives the words of both stacks at every     *)
(* instruction.  It is stated with the words W and registers F of the two  *)
(* sides as parameters, so that one lemma for each instruction of          *)
(* co_switch serves both directions.                                       *)
(***************************************************************************)
EXTENDS Coroutine, Lifecycle, SequenceTheorems, TLAPS

-----------------------------------------------------------------------------
(* The inductive invariant. *)

\* The order in which co_switch pushes the registers.
Order == <<"rbx", "rbp", "r12", "r13", "r14", "r15">>

Word ==
  {<<v, r>> : v \in Values \cup Labels \cup {"co", "zero", "pre_call_entry"},
              r \in Callee \cup 0 .. 4}

\* What start_coroutine puts where a side that has switched has its registers.
Zero == [r \in Callee |-> <<"zero", 0>>]

Other(s) == IF s = "kernel" THEN "engine" ELSE "kernel"

\* The stack of a side that is not running: words w, the last of which is where
\* it goes on, and above them the first m registers of f.
Context(s, m, w, f) ==
  /\ Len(s) = Len(w) + m
  /\ \A j \in 1 .. Len(w) : s[j] = w[j]
  /\ \A i \in 1 .. m : s[Len(w) + i] = f[Order[i]]

\* The words below the registers on each stack, and the registers, by what the
\* stacks hold, co->terminated and the ledger.
Below(st, t) ==
  [s \in Stacks |->
     IF s = "kernel" THEN <<C("code_runner")>>
     ELSE IF st["engine"][1] = <<"co", 0>>
       THEN << <<"co", 0>>, C("call_entry"), At("pre_call_entry", 1) >>
       ELSE << At("pre_call_entry", 4), C(IF t THEN "resumed" ELSE "entry") >>]

Saved(st, k) ==
  [s \in Stacks |-> IF s = "engine" /\ st["engine"][1] = <<"co", 0>> THEN Zero ELSE k[s]]

\* co_switch before instruction i, with words W and registers F for the sides:
\* on the way out up to the ninth, then on the way in.
Switching(i, W, F) ==
  /\ ip = At("co_switch", i)
  /\ Context(stack[Other(rsp)], 6, W[Other(rsp)], F[Other(rsp)])
  /\ i <= 9 =>
       /\ Context(stack[rsp], IF i <= 6 THEN i - 1 ELSE 6, W[rsp], F[rsp])
       /\ regs = F[rsp]
       /\ co_stack = IF i <= 8 THEN Other(rsp) ELSE rsp
       /\ i >= 8 => rax = C(Other(rsp))
  /\ i > 9 =>
       /\ Context(stack[rsp], 16 - i, W[rsp], F[rsp])
       /\ \A j \in 17 - i .. 6 : regs[Order[j]] = F[rsp][Order[j]]
       /\ co_stack = Other(rsp)

\* The switch before instruction i is one to the engine.
ToEngine(i) == rsp = IF i <= 9 THEN "kernel" ELSE "engine"

InSwitch ==
  \E i \in 1 .. 16 :
    /\ Switching(i, Below(stack, terminated), Saved(stack, kept))
    /\ IF ToEngine(i) THEN ~terminated /\ entered = 0
       ELSE stack["engine"][1] = At("pre_call_entry", 4) /\ entered = IF terminated THEN 1 ELSE 0

\* The kernel stack while the engine runs.
KernelAway ==
  /\ co_stack = "kernel" /\ rsp = "engine"
  /\ Context(stack["kernel"], 6, <<C("code_runner")>>, kept["kernel"])

\* The engine's while code_runner does: in call_entry, at the first switch or
\* at the last one.
EngineAway ==
  /\ co_stack = "engine" /\ rsp = "kernel"
  /\ Context(stack["engine"], 6,
             << At("pre_call_entry", 4), C(IF terminated THEN "resumed" ELSE "entry") >>,
             kept["engine"])
  /\ entered = IF terminated THEN 1 ELSE 0

InPreCall ==
  \E i \in 1 .. 3 :
    /\ ip = At("pre_call_entry", i)
    /\ Len(stack["engine"]) = 3 - i
    /\ i = 1 => stack["engine"][2] = C("call_entry")
    /\ i > 1 => rax = C("call_entry")
    /\ KernelAway /\ ~terminated /\ entered = 0

InEngine ==
  /\ ip \in {C("call_entry"), C("entry"), C("body")}
  /\ stack["engine"] = <<At("pre_call_entry", 4)>>
  /\ ip # C("call_entry") => regs = kept["engine"]
  /\ KernelAway /\ ~terminated /\ entered = IF ip = C("body") THEN 1 ELSE 0

InKernel ==
  /\ ip \in {C("code_runner"), C("returned")}
  /\ stack["kernel"] = <<>> /\ regs = kept["kernel"]
  /\ EngineAway
  /\ ip = C("returned") => terminated

Starting ==
  /\ ip = C("start_coroutine")
  /\ stack["kernel"] = <<>> /\ stack["engine"] = <<>>
  /\ rsp = "kernel" /\ co_stack = "engine" /\ ~terminated /\ entered = 0

Typed ==
  /\ regs \in [Callee -> Word]
  /\ rsp \in Stacks /\ co_stack \in Stacks
  /\ stack \in [Stacks -> Seq(Word)]
  /\ terminated \in BOOLEAN
  /\ kept \in [Stacks -> [Callee -> Word]]
  /\ entered \in {0, 1}

Inv ==
  /\ Typed
  /\ Starting \/ InSwitch \/ InPreCall \/ InEngine \/ InKernel \/ ip = C("exited")

\* Which code ip is in tells the parts of the invariant apart.
LEMMA Places ==
  /\ Starting => ip[1] = "start_coroutine"
  /\ InSwitch => ip[1] = "co_switch"
  /\ InPreCall => ip[1] = "pre_call_entry"
  /\ InEngine => ip[1] \in {"call_entry", "entry", "body"}
  /\ InKernel => ip[1] \in {"code_runner", "returned"}
  /\ \A l : ip = C(l) => ip[1] = l
<1>1. (Starting => ip[1] = "start_coroutine") /\ \A l : ip = C(l) => ip[1] = l
  BY DEF Starting, C
<1>2. InSwitch => ip[1] = "co_switch"
  <2>1. ASSUME NEW i \in 1 .. 16, ip = At("co_switch", i) PROVE ip[1] = "co_switch"
    BY <2>1 DEF At
  <2>2. QED
    BY <2>1 DEF InSwitch, Switching
<1>3. InPreCall => ip[1] = "pre_call_entry"
  <2>1. ASSUME NEW i \in 1 .. 3, ip = At("pre_call_entry", i) PROVE ip[1] = "pre_call_entry"
    BY <2>1 DEF At
  <2>2. QED
    BY <2>1 DEF InPreCall
<1>4. InEngine => ip[1] \in {"call_entry", "entry", "body"}
  <2>1. ip \in {C("call_entry"), C("entry"), C("body")} =>
          ip[1] \in {"call_entry", "entry", "body"}
    BY DEF C
  <2>2. QED
    BY <2>1 DEF InEngine
<1>5. InKernel => ip[1] \in {"code_runner", "returned"}
  <2>1. ip \in {C("code_runner"), C("returned")} => ip[1] \in {"code_runner", "returned"}
    BY DEF C
  <2>2. QED
    BY <2>1 DEF InKernel
<1>6. QED
  BY <1>1, <1>2, <1>3, <1>4, <1>5

-----------------------------------------------------------------------------
(* Stacks. *)

LEMMA OrderFacts ==
  /\ Len(Order) = 6
  /\ \A i \in 1 .. 6 : Order[i] \in Callee
  /\ \A r \in Callee : \E i \in 1 .. 6 : r = Order[i]
BY DEF Order, Callee

LEMMA Pushed ==
  ASSUME NEW s \in Seq(Word), NEW e \in Word
  PROVE  /\ Append(s, e) \in Seq(Word) /\ Len(Append(s, e)) = Len(s) + 1
         /\ \A j \in 1 .. Len(s) : Append(s, e)[j] = s[j]
         /\ Append(s, e)[Len(s) + 1] = e
OBVIOUS

LEMMA Popped ==
  ASSUME NEW s \in Seq(Word), Len(s) > 0
  PROVE  /\ Rest(s) \in Seq(Word) /\ Len(Rest(s)) = Len(s) - 1
         /\ \A j \in 1 .. Len(s) - 1 : Rest(s)[j] = s[j]
         /\ Top(s) = s[Len(s)] /\ Top(s) \in Word
<1>1. PICK n : n = Len(s) - 1
  OBVIOUS
<1>2. n \in 0 .. Len(s) /\ Rest(s) = SubSeq(s, 1, n)
  BY <1>1 DEF Rest
<1>3. SubSeq(s, 1, n) \in Seq(Word) /\ Len(SubSeq(s, 1, n)) = n
  BY <1>2
<1>4. \A j \in 1 .. n : SubSeq(s, 1, n)[j] = s[j]
  BY <1>2
<1>5. Top(s) = s[Len(s)] /\ Top(s) \in Word
  BY DEF Top
<1>6. QED
  BY <1>1, <1>2, <1>3, <1>4, <1>5

\* One register more is saved, one is taken back.
LEMMA ContextPush ==
  ASSUME NEW s \in Seq(Word), NEW w, Len(w) \in Nat, NEW f \in [Callee -> Word],
         NEW m \in 0 .. 5, Context(s, m, w, f)
  PROVE  /\ Append(s, f[Order[m + 1]]) \in Seq(Word)
         /\ Context(Append(s, f[Order[m + 1]]), m + 1, w, f)
<1>1. f[Order[m + 1]] \in Word
  BY OrderFacts
<1>2. PICK t : t = Append(s, f[Order[m + 1]])
  BY Zenon
<1>3. /\ t \in Seq(Word) /\ Len(t) = Len(s) + 1
      /\ \A j \in 1 .. Len(s) : t[j] = s[j]
      /\ t[Len(s) + 1] = f[Order[m + 1]]
  BY <1>1, <1>2, Pushed
<1>4. Context(t, m + 1, w, f)
  <2>1. Len(s) = Len(w) + m
    BY DEF Context
  <2>2. \A j \in 1 .. Len(w) : t[j] = w[j]
    BY <1>3, <2>1 DEF Context
  <2>3. ASSUME NEW i \in 1 .. m + 1 PROVE t[Len(w) + i] = f[Order[i]]
    <3>1. CASE i = m + 1
      BY <1>3, <2>1, <3>1
    <3>2. CASE i \in 1 .. m
      <4>1. s[Len(w) + i] = f[Order[i]]
        BY <3>2 DEF Context
      <4>2. Len(w) + i \in 1 .. Len(s)
        BY <2>1, <3>2
      <4>3. QED
        BY <1>3, <4>1, <4>2
    <3>3. QED
      BY <3>1, <3>2
  <2>4. QED
    BY <1>3, <2>1, <2>2, <2>3 DEF Context
<1>5. QED
  BY <1>2, <1>3, <1>4

LEMMA ContextPop ==
  ASSUME NEW s \in Seq(Word), NEW w, Len(w) \in Nat, NEW f,
         NEW m \in 1 .. 6, Context(s, m, w, f)
  PROVE  /\ Rest(s) \in Seq(Word)
         /\ Context(Rest(s), m - 1, w, f)
         /\ Top(s) = f[Order[m]] /\ Top(s) \in Word
<1>1. Len(s) > 0 /\ Len(s) = Len(w) + m
  BY DEF Context
<1>2. PICK t : t = Rest(s)
  OBVIOUS
<1>3. /\ t \in Seq(Word) /\ Len(t) = Len(s) - 1
      /\ \A j \in 1 .. Len(s) - 1 : t[j] = s[j]
      /\ Top(s) = s[Len(s)] /\ Top(s) \in Word
  BY <1>1, <1>2, Popped
<1>4. Context(t, m - 1, w, f)
  BY <1>1, <1>3, SMTT(30) DEF Context
<1>5. s[Len(w) + m] = f[Order[m]]
  BY DEF Context
<1>6. QED
  BY <1>1, <1>2, <1>3, <1>4, <1>5

-----------------------------------------------------------------------------
(* The program. *)

LEMMA CoSwitch ==
  /\ Len(co_switch) = 16
  /\ \A i \in 1 .. 6 : co_switch[i][1] = "push" /\ co_switch[i][2] = Order[i]
  /\ co_switch[7] = <<"mov", "(rdi)", "rax">>
  /\ co_switch[8] = <<"mov", "rsp", "(rdi)">>
  /\ co_switch[9] = <<"mov", "rax", "rsp">>
  /\ \A i \in 10 .. 15 : co_switch[i][1] = "pop" /\ co_switch[i][2] = Order[16 - i]
  /\ co_switch[16] = <<"ret">>
BY DEF co_switch, Order

LEMMA PreCallEntry ==
  /\ Len(pre_call_entry) = 4
  /\ pre_call_entry[1] = <<"pop", "rax">>
  /\ pre_call_entry[2] = <<"pop", "rdi">>
  /\ pre_call_entry[3] = <<"call", "rax">>
BY DEF pre_call_entry

\* The instruction at ip.
LEMMA Fetch ==
  ASSUME NEW i, ip = At("co_switch", i), NEW op
  PROVE  /\ Opcode(op) <=> co_switch[i][1] = op
         /\ Operand(1) = co_switch[i][2] /\ Operand(2) = co_switch[i][3]
         /\ At(ip[1], ip[2] + 1) = At("co_switch", i + 1)
BY DEF At, Opcode, Operand, Routines

LEMMA FetchPreCall ==
  ASSUME NEW i, ip = At("pre_call_entry", i), NEW op
  PROVE  /\ Opcode(op) <=> pre_call_entry[i][1] = op
         /\ Operand(1) = pre_call_entry[i][2]
         /\ At(ip[1], ip[2] + 1) = At("pre_call_entry", i + 1)
BY DEF At, Opcode, Operand, Routines

LEMMA FetchLabel ==
  ASSUME NEW l \in Labels, ip = C(l), NEW op
  PROVE  ~Opcode(op)
BY DEF C, Opcode, Routines, Labels

-----------------------------------------------------------------------------
(* The instructions of co_switch, for any words and registers of the sides. *)

Frames(W, F) ==
  /\ \A s \in Stacks : Len(W[s]) \in 1 .. 3
  /\ F \in [Stacks -> [Callee -> Word]]

LEMMA OtherFacts ==
  ASSUME NEW s \in Stacks
  PROVE  Other(s) \in Stacks /\ Other(s) # s /\ Other(Other(s)) = s
BY DEF Stacks, Other

LEMMA OpcodesDiffer ==
  ASSUME NEW i \in 1 .. 16, ip = At("co_switch", i), Instruction
  PROVE  /\ i \in 1 .. 6 => Push
         /\ i \in 7 .. 9 => Mov
         /\ i \in 10 .. 15 => Pop
         /\ i = 16 => Ret
<1>1. /\ i \in 1 .. 6 => co_switch[i][1] = "push"
      /\ i \in 7 .. 9 => co_switch[i][1] = "mov"
      /\ i \in 10 .. 15 => co_switch[i][1] = "pop"
      /\ i = 16 => co_switch[i][1] = "ret"
  BY CoSwitch
<1>2. \A op \in {"push", "pop", "mov", "ret", "call"} : Opcode(op) <=> co_switch[i][1] = op
  BY Fetch
<1>3. QED
  BY <1>1, <1>2 DEF Instruction, Push, Pop, Mov, Ret, Call

LEMMA SwitchPush ==
  ASSUME Typed, NEW W, NEW F, Frames(W, F), NEW i \in 1 .. 6, Switching(i, W, F), Push
  PROVE  Typed' /\ Switching(i + 1, W, F)' /\ rsp' = rsp
<1>1. ip' = At("co_switch", i + 1) /\ Operand(1) = Order[i]
  BY Fetch, CoSwitch DEF Switching, Push, Advance
<1>2. UNCHANGED <<regs, rax, rsp, co_stack, terminated, kept, entered>>
  BY DEF Push
<1>3. rsp \in Stacks /\ Other(rsp) \in Stacks /\ Other(rsp) # rsp /\ stack[rsp] \in Seq(Word)
  BY OtherFacts DEF Typed
<1>4. regs = F[rsp] /\ Context(stack[rsp], i - 1, W[rsp], F[rsp]) /\ co_stack = Other(rsp)
  BY DEF Switching
<1>5. stack' = [stack EXCEPT ![rsp] = Append(stack[rsp], F[rsp][Order[i]])]
  BY <1>1, <1>4, Zenon DEF Push
<1>6. PICK t : t = Append(stack[rsp], F[rsp][Order[i]])
  BY Zenon
<1>7. t \in Seq(Word) /\ Context(t, i, W[rsp], F[rsp])
  <2>1. i - 1 \in 0 .. 5 /\ (i - 1) + 1 = i
    OBVIOUS
  <2>2. Len(W[rsp]) \in Nat /\ F[rsp] \in [Callee -> Word]
    BY <1>3 DEF Frames
  <2>3. QED
    BY <1>3, <1>4, <1>6, <2>1, <2>2, ContextPush, SMTT(30)
<1>8. stack'[rsp] = t /\ stack'[Other(rsp)] = stack[Other(rsp)] /\ stack' \in [Stacks -> Seq(Word)]
  BY <1>3, <1>5, <1>6, <1>7 DEF Typed
<1>9. Typed'
  BY <1>2, <1>8 DEF Typed
<1>10. Context(stack[Other(rsp)], 6, W[Other(rsp)], F[Other(rsp)])
  BY DEF Switching
<1>11. QED
  BY <1>1, <1>2, <1>4, <1>7, <1>8, <1>9, <1>10 DEF Switching

LEMMA SwitchMov ==
  ASSUME Typed, NEW W, NEW F, Frames(W, F), NEW i \in 7 .. 9, Switching(i, W, F), Mov
  PROVE  /\ Typed' /\ Switching(i + 1, W, F)'
         /\ rsp' = IF i = 9 THEN Other(rsp) ELSE rsp
<1>1. ip' = At("co_switch", i + 1)
  BY Fetch DEF Switching, Mov, Advance
<1>2. UNCHANGED <<regs, stack, terminated, kept, entered>>
  BY DEF Mov
<1>3. rsp \in Stacks /\ Other(rsp) \in Stacks /\ Other(rsp) # rsp /\ Other(Other(rsp)) = rsp
  BY OtherFacts DEF Typed
<1>4. /\ Context(stack[Other(rsp)], 6, W[Other(rsp)], F[Other(rsp)])
      /\ Context(stack[rsp], 6, W[rsp], F[rsp])
      /\ regs = F[rsp]
      /\ co_stack = IF i <= 8 THEN Other(rsp) ELSE rsp
      /\ i >= 8 => rax = C(Other(rsp))
  BY DEF Switching
<1>5. CASE i = 7
  <2>1. Operand(2) = "rax"
    BY <1>5, Fetch, CoSwitch DEF Switching
  <2>2. rax' = C(Other(rsp)) /\ co_stack' = co_stack /\ rsp' = rsp
    BY <1>4, <1>5, <2>1 DEF Mov
  <2>3. QED
    BY <1>1, <1>2, <1>4, <1>5, <2>2 DEF Switching, Typed
<1>6. CASE i = 8
  <2>1. Operand(2) = "(rdi)"
    BY <1>6, Fetch, CoSwitch DEF Switching
  <2>2. rax' = rax /\ co_stack' = rsp /\ rsp' = rsp
    BY <2>1 DEF Mov
  <2>3. QED
    BY <1>1, <1>2, <1>4, <1>6, <2>2 DEF Switching, Typed
<1>7. CASE i = 9
  <2>1. Operand(2) = "rsp"
    BY <1>7, Fetch, CoSwitch DEF Switching
  <2>2. rax = C(Other(rsp)) /\ rax[1] = Other(rsp)
    BY <1>4, <1>7 DEF C
  <2>3. rax' = rax /\ co_stack' = co_stack /\ rsp' = Other(rsp)
    BY <2>1, <2>2 DEF Mov
  <2>4. Typed'
    BY <1>2, <1>3, <2>3 DEF Typed
  <2>5. QED
    BY <1>1, <1>2, <1>3, <1>4, <1>7, <2>3, <2>4 DEF Switching
<1>8. QED
  BY <1>5, <1>6, <1>7

LEMMA SwitchPop ==
  ASSUME Typed, NEW W, NEW F, Frames(W, F), NEW i \in 10 .. 15, Switching(i, W, F), Pop
  PROVE  Typed' /\ Switching(i + 1, W, F)' /\ rsp' = rsp
<1>1. ip' = At("co_switch", i + 1) /\ Operand(1) = Order[16 - i]
  BY Fetch, CoSwitch DEF Switching, Pop, Advance
<1>2. UNCHANGED <<rsp, co_stack, terminated, kept, entered>>
  BY DEF Pop
<1>3. rsp \in Stacks /\ Other(rsp) \in Stacks /\ Other(rsp) # rsp /\ stack[rsp] \in Seq(Word)
  BY OtherFacts DEF Typed
<1>4. PICK m \in 1 .. 6 : m = 16 - i
  OBVIOUS
<1>5. /\ Context(stack[rsp], m, W[rsp], F[rsp]) /\ co_stack = Other(rsp)
      /\ \A j \in m + 1 .. 6 : regs[Order[j]] = F[rsp][Order[j]]
  BY <1>4 DEF Switching
<1>6. /\ Rest(stack[rsp]) \in Seq(Word) /\ Context(Rest(stack[rsp]), m - 1, W[rsp], F[rsp])
      /\ Top(stack[rsp]) = F[rsp][Order[m]] /\ Top(stack[rsp]) \in Word
  <2>1. Len(W[rsp]) \in Nat
    BY <1>3 DEF Frames
  <2>2. QED
    BY <1>3, <1>5, <2>1, ContextPop
<1>7. Order[m] \in Callee
  BY OrderFacts
<1>8. regs' = [regs EXCEPT ![Order[m]] = Top(stack[rsp])] /\ stack' = [stack EXCEPT ![rsp] = Rest(stack[rsp])]
  BY <1>1, <1>4, <1>7, Zenon DEF Pop
<1>9. /\ stack'[rsp] = Rest(stack[rsp]) /\ stack'[Other(rsp)] = stack[Other(rsp)]
      /\ stack' \in [Stacks -> Seq(Word)]
  BY <1>3, <1>6, <1>8 DEF Typed
<1>10. \A j \in m .. 6 : regs'[Order[j]] = F[rsp][Order[j]]
  <2>1. regs \in [Callee -> Word] /\ \A j \in m .. 6 : Order[j] \in Callee
    BY OrderFacts DEF Typed
  <2>2. \A r \in Callee : regs'[r] = IF r = Order[m] THEN F[rsp][Order[m]] ELSE regs[r]
    BY <1>6, <1>8, <2>1
  <2>3. QED
    BY <1>5, <2>1, <2>2
<1>11. Typed'
  BY <1>2, <1>6, <1>7, <1>8, <1>9 DEF Typed
<1>12. Context(stack[Other(rsp)], 6, W[Other(rsp)], F[Other(rsp)])
  BY DEF Switching
<1>13. i + 1 > 9 /\ 16 - (i + 1) = m - 1 /\ 17 - (i + 1) = m
  BY <1>4
<1>14. QED
  BY <1>1, <1>2, <1>5, <1>6, <1>9, <1>10, <1>11, <1>12, <1>13 DEF Switching

-----------------------------------------------------------------------------
(* The steps of the thread. *)

LEMMA WordFacts ==
  /\ \A l \in Labels : C(l) \in Word
  /\ \A i \in 0 .. 4 : At("pre_call_entry", i) \in Word
  /\ <<"co", 0>> \in Word /\ <<"zero", 0>> \in Word
  /\ \A v \in Values : File(v) \in [Callee -> Word]
  /\ Zero \in [Callee -> Word]
BY DEF Word, C, At, File, Zero

\* A stack with one word.
LEMMA Single ==
  ASSUME NEW s \in Seq(Word), NEW e, Len(s) = 1, s[1] = e
  PROVE  s = <<e>>
OBVIOUS

LEMMA BelowFacts ==
  ASSUME NEW st, NEW t, NEW k \in [Stacks -> [Callee -> Word]]
  PROVE  /\ Frames(Below(st, t), Saved(st, k))
         /\ Below(st, t)["kernel"] = <<C("code_runner")>> /\ Saved(st, k)["kernel"] = k["kernel"]
         /\ st["engine"][1] = <<"co", 0>> =>
              /\ Below(st, t)["engine"] = << <<"co", 0>>, C("call_entry"), At("pre_call_entry", 1) >>
              /\ Saved(st, k)["engine"] = Zero
         /\ st["engine"][1] # <<"co", 0>> =>
              /\ Below(st, t)["engine"]
                   = << At("pre_call_entry", 4), C(IF t THEN "resumed" ELSE "entry") >>
              /\ Saved(st, k)["engine"] = k["engine"]
<1>1. "kernel" \in Stacks /\ "engine" \in Stacks /\ "kernel" # "engine"
  BY DEF Stacks
<1>2. /\ Below(st, t)["kernel"] = <<C("code_runner")>> /\ Saved(st, k)["kernel"] = k["kernel"]
      /\ st["engine"][1] = <<"co", 0>> =>
           /\ Below(st, t)["engine"] = << <<"co", 0>>, C("call_entry"), At("pre_call_entry", 1) >>
           /\ Saved(st, k)["engine"] = Zero
      /\ st["engine"][1] # <<"co", 0>> =>
           /\ Below(st, t)["engine"]
                = << At("pre_call_entry", 4), C(IF t THEN "resumed" ELSE "entry") >>
           /\ Saved(st, k)["engine"] = k["engine"]
  BY <1>1 DEF Below, Saved
<1>3. Saved(st, k) \in [Stacks -> [Callee -> Word]]
  BY WordFacts DEF Saved
<1>4. \A s \in Stacks : s = "kernel" \/ s = "engine"
  BY DEF Stacks
<1>5. \A s \in Stacks : Len(Below(st, t)[s]) \in 1 .. 3
  <2>1. Len(Below(st, t)["kernel"]) = 1
    BY <1>2
  <2>2. Len(Below(st, t)["engine"]) \in 2 .. 3
    <3>1. CASE st["engine"][1] = <<"co", 0>>
      <4>1. Len(<< <<"co", 0>>, C("call_entry"), At("pre_call_entry", 1) >>) = 3
        OBVIOUS
      <4>2. Len(Below(st, t)["engine"]) = 3
        BY <1>2, <3>1, <4>1, Zenon
      <4>3. QED
        BY <4>2
    <3>2. CASE st["engine"][1] # <<"co", 0>>
      <4>1. Len(<< At("pre_call_entry", 4), C(IF t THEN "resumed" ELSE "entry") >>) = 2
        OBVIOUS
      <4>2. Len(Below(st, t)["engine"]) = 2
        BY <1>2, <3>2, <4>1, Zenon
      <4>3. QED
        BY <4>2
    <3>3. QED
      BY <3>1, <3>2
  <2>3. QED
    BY <1>4, <2>1, <2>2
<1>6. QED
  BY <1>2, <1>3, <1>5 DEF Frames

\* Both stacks keep their lowest word throughout co_switch.
LEMMA Lowest ==
  ASSUME NEW s, NEW w, NEW f, NEW m, Len(w) \in 1 .. 3, Context(s, m, w, f)
  PROVE  s[1] = w[1]
BY DEF Context

LEMMA SwitchInside ==
  ASSUME Typed, NEW i \in 1 .. 15, Instruction,
         Switching(i, Below(stack, terminated), Saved(stack, kept)),
         IF ToEngine(i) THEN ~terminated /\ entered = 0
         ELSE stack["engine"][1] = At("pre_call_entry", 4) /\ entered = IF terminated THEN 1 ELSE 0
  PROVE  Typed' /\ InSwitch'
<1>1. PICK W, F : W = Below(stack, terminated) /\ F = Saved(stack, kept)
  BY Zenon
<1>2. Frames(W, F) /\ Switching(i, W, F)
  BY <1>1, BelowFacts DEF Typed
<1>3. ip = At("co_switch", i) /\ i \in 1 .. 16
  BY DEF Switching
<1>4. /\ Typed' /\ Switching(i + 1, W, F)'
      /\ rsp' = IF i = 9 THEN Other(rsp) ELSE rsp
      /\ UNCHANGED <<terminated, kept, entered>>
  <2>1. CASE i \in 1 .. 6
    <3>1. Push
      BY <1>3, <2>1, OpcodesDiffer
    <3>2. QED
      BY <1>2, <2>1, <3>1, SwitchPush DEF Push
  <2>2. CASE i \in 7 .. 9
    <3>1. Mov
      BY <1>3, <2>2, OpcodesDiffer
    <3>2. QED
      BY <1>2, <2>2, <3>1, SwitchMov DEF Mov
  <2>3. CASE i \in 10 .. 15
    <3>1. Pop
      BY <1>3, <2>3, OpcodesDiffer
    <3>2. QED
      BY <1>2, <2>3, <3>1, SwitchPop DEF Pop
  <2>4. QED
    BY <2>1, <2>2, <2>3
<1>5. stack'["engine"][1] = stack["engine"][1]
  <2>1. Len(W["engine"]) \in 1 .. 3
    BY <1>2 DEF Frames, Stacks
  <2>2. \E m : Context(stack["engine"], m, W["engine"], F["engine"])
    <3>1. CASE rsp = "engine"
      BY <1>2, <3>1 DEF Switching
    <3>2. CASE Other(rsp) = "engine"
      BY <1>2, <3>2 DEF Switching
    <3>3. QED
      BY <3>1, <3>2 DEF Typed, Stacks, Other
  <2>3. \E m : Context(stack'["engine"], m, W["engine"], F["engine"])
    <3>1. CASE rsp' = "engine"
      <4>1. CASE i + 1 <= 9
        BY <1>4, <3>1, <4>1 DEF Switching
      <4>2. CASE i + 1 > 9
        BY <1>4, <3>1, <4>2 DEF Switching
      <4>3. QED
        BY <4>1, <4>2
    <3>2. CASE Other(rsp') = "engine"
      BY <1>4, <3>2 DEF Switching
    <3>3. QED
      BY <1>4, <3>1, <3>2 DEF Typed, Stacks, Other
  <2>4. stack["engine"][1] = W["engine"][1] /\ stack'["engine"][1] = W["engine"][1]
    BY <2>1, <2>2, <2>3, Lowest
  <2>5. QED
    BY <2>4
<1>6. Below(stack', terminated') = W /\ Saved(stack', kept') = F
  BY <1>1, <1>4, <1>5 DEF Below, Saved
<1>7. ToEngine(i + 1)' <=> ToEngine(i)
  BY <1>4 DEF ToEngine, Other, Typed, Stacks
<1>8. QED
  BY <1>4, <1>5, <1>6, <1>7 DEF InSwitch

\* The registers of a side that has all of them back.
LEMMA Restored ==
  ASSUME NEW f \in [Callee -> Word], NEW g \in [Callee -> Word],
         \A j \in 1 .. 6 : f[Order[j]] = g[Order[j]]
  PROVE  f = g
<1>1. \A r \in Callee : f[r] = g[r]
  BY OrderFacts
<1>2. QED
  BY <1>1

LEMMA SwitchReturns ==
  ASSUME Typed, Instruction,
         Switching(16, Below(stack, terminated), Saved(stack, kept)),
         IF ToEngine(16) THEN ~terminated /\ entered = 0
         ELSE stack["engine"][1] = At("pre_call_entry", 4) /\ entered = IF terminated THEN 1 ELSE 0
  PROVE  Inv'
<1>1. PICK W, F : W = Below(stack, terminated) /\ F = Saved(stack, kept)
  BY Zenon
<1>2. Frames(W, F) /\ Switching(16, W, F)
  BY <1>1, BelowFacts DEF Typed
<1>3. Ret
  BY <1>2, OpcodesDiffer DEF Switching
<1>4. /\ ip' = Top(stack[rsp]) /\ stack' = [stack EXCEPT ![rsp] = Rest(stack[rsp])]
      /\ UNCHANGED <<regs, rax, rsp, co_stack, terminated, kept, entered>>
  BY <1>3 DEF Ret
<1>5. rsp \in Stacks /\ Other(rsp) \in Stacks /\ Other(rsp) # rsp /\ stack[rsp] \in Seq(Word)
  BY OtherFacts, SMTT(30) DEF Typed
<1>6. /\ Context(stack[Other(rsp)], 6, W[Other(rsp)], F[Other(rsp)]) /\ co_stack = Other(rsp)
      /\ Context(stack[rsp], 0, W[rsp], F[rsp])
      /\ \A j \in 1 .. 6 : regs[Order[j]] = F[rsp][Order[j]]
  BY <1>2 DEF Switching
<1>7. /\ Len(stack[rsp]) = Len(W[rsp]) /\ Len(stack[rsp]) \in 1 .. 3
      /\ \A j \in 1 .. Len(stack[rsp]) : stack[rsp][j] = W[rsp][j]
  BY <1>2, <1>5, <1>6 DEF Context, Frames
<1>8. regs = F[rsp]
  BY <1>2, <1>5, <1>6, Restored, Zenon DEF Frames, Typed
<1>9. /\ Rest(stack[rsp]) \in Seq(Word) /\ Len(Rest(stack[rsp])) = Len(stack[rsp]) - 1
      /\ \A j \in 1 .. Len(stack[rsp]) - 1 : Rest(stack[rsp])[j] = stack[rsp][j]
      /\ Top(stack[rsp]) = stack[rsp][Len(stack[rsp])]
  <2>1. Len(stack[rsp]) \in 1 .. 3
    BY <1>7, Zenon
  <2>2. Len(stack[rsp]) > 0
    BY <2>1, SMTT(30)
  <2>3. QED
    BY <1>5, <2>2, Popped, Zenon
<1>10. /\ stack'[rsp] = Rest(stack[rsp]) /\ stack'[Other(rsp)] = stack[Other(rsp)]
       /\ stack' \in [Stacks -> Seq(Word)]
  BY <1>4, <1>5, <1>9 DEF Typed
<1>11. Typed'
  BY <1>4, <1>10 DEF Typed
<1>12. CASE rsp = "kernel"
  <2>1. stack["engine"][1] = At("pre_call_entry", 4) /\ entered = IF terminated THEN 1 ELSE 0
    BY <1>12 DEF ToEngine
  <2>2. At("pre_call_entry", 4) # <<"co", 0>>
    BY DEF At
  <2>3. /\ W["kernel"] = <<C("code_runner")>> /\ F["kernel"] = kept["kernel"]
        /\ W["engine"] = << At("pre_call_entry", 4), C(IF terminated THEN "resumed" ELSE "entry") >>
        /\ F["engine"] = kept["engine"]
    BY <1>1, <2>1, <2>2, BelowFacts, ZenonT(60) DEF Typed
  <2>4. Len(stack["kernel"]) = 1 /\ stack["kernel"][1] = C("code_runner")
    BY <1>7, <1>12, <2>3
  <2>5. ip' = C("code_runner") /\ stack'["kernel"] = <<>>
    BY <1>4, <1>9, <1>10, <1>12, <2>4
  <2>6. Other(rsp) = "engine"
    BY <1>12 DEF Other
  <2>7. EngineAway'
    BY <1>4, <1>6, <1>10, <1>12, <2>1, <2>3, <2>6, Zenon DEF EngineAway
  <2>8. C("code_runner") # C("returned")
    BY DEF C
  <2>9. InKernel'
    BY <1>4, <1>8, <1>12, <2>3, <2>5, <2>7, <2>8 DEF InKernel
  <2>10. QED
    BY <1>11, <2>9 DEF Inv
<1>13. CASE rsp = "engine"
  <2>1. ~terminated /\ entered = 0
    BY <1>13 DEF ToEngine
  <2>2. W["kernel"] = <<C("code_runner")>> /\ F["kernel"] = kept["kernel"]
    BY <1>1, BelowFacts DEF Typed
  <2>3. Other(rsp) = "kernel"
    BY <1>13 DEF Other
  <2>4. KernelAway'
    BY <1>4, <1>6, <1>10, <1>13, <2>2, <2>3, Zenon DEF KernelAway
  <2>5. CASE stack["engine"][1] = <<"co", 0>>
    <3>1. W["engine"] = << <<"co", 0>>, C("call_entry"), At("pre_call_entry", 1) >>
      BY <1>1, <2>5, BelowFacts DEF Typed
    <3>2. /\ Len(stack["engine"]) = 3 /\ stack["engine"][2] = C("call_entry")
          /\ stack["engine"][3] = At("pre_call_entry", 1)
      BY <1>7, <1>13, <3>1
    <3>3. /\ ip' = At("pre_call_entry", 1) /\ Len(stack'["engine"]) = 2
          /\ stack'["engine"][2] = C("call_entry")
      BY <1>4, <1>9, <1>10, <1>13, <3>2
    <3>4. InPreCall'
      BY <1>4, <2>1, <2>4, <3>3 DEF InPreCall
    <3>5. QED
      BY <1>11, <3>4 DEF Inv
  <2>6. CASE stack["engine"][1] # <<"co", 0>>
    <3>1. W["engine"] = << At("pre_call_entry", 4), C("entry") >> /\ F["engine"] = kept["engine"]
      BY <1>1, <2>1, <2>6, BelowFacts DEF Typed
    <3>2. /\ Len(stack["engine"]) = 2 /\ stack["engine"][1] = At("pre_call_entry", 4)
          /\ stack["engine"][2] = C("entry")
      BY <1>7, <1>13, <3>1
    <3>3. /\ ip' = C("entry") /\ Len(stack'["engine"]) = 1
          /\ stack'["engine"][1] = At("pre_call_entry", 4)
      BY <1>4, <1>9, <1>10, <1>13, <3>2
    <3>4. stack'["engine"] = <<At("pre_call_entry", 4)>>
      BY <1>10, <3>3, Single DEF Stacks
    <3>5. C("entry") # C("call_entry") /\ C("entry") # C("body")
      BY DEF C
    <3>6. InEngine'
      BY <1>4, <1>8, <1>13, <2>1, <2>4, <3>1, <3>3, <3>4, <3>5 DEF InEngine
    <3>7. QED
      BY <1>11, <3>6 DEF Inv
  <2>7. QED
    BY <2>5, <2>6
<1>14. QED
  BY <1>5, <1>12, <1>13 DEF Stacks

LEMMA SwitchInv == ASSUME Typed, InSwitch, Instruction PROVE Inv'
<1>1. PICK i \in 1 .. 16 :
        /\ Switching(i, Below(stack, terminated), Saved(stack, kept))
        /\ IF ToEngine(i) THEN ~terminated /\ entered = 0
           ELSE stack["engine"][1] = At("pre_call_entry", 4) /\ entered = IF terminated THEN 1 ELSE 0
  BY DEF InSwitch
<1>2. CASE i \in 1 .. 15
  BY <1>1, <1>2, SwitchInside, Zenon DEF Inv
<1>3. CASE i = 16
  BY <1>1, <1>3, SwitchReturns, Zenon
<1>4. QED
  BY <1>2, <1>3

\* pre_call_entry takes call_entry and its argument and leaves the stack empty.
LEMMA PreCallInv == ASSUME Typed, InPreCall, Instruction PROVE Inv'
<1>1. PICK i \in 1 .. 3 :
        /\ ip = At("pre_call_entry", i)
        /\ Len(stack["engine"]) = 3 - i
        /\ i = 1 => stack["engine"][2] = C("call_entry")
        /\ i > 1 => rax = C("call_entry")
        /\ KernelAway /\ ~terminated /\ entered = 0
  BY DEF InPreCall
<1>2. /\ rsp = "engine" /\ "engine" \in Stacks /\ "kernel" \in Stacks
      /\ stack["engine"] \in Seq(Word)
  BY <1>1 DEF KernelAway, Typed, Stacks
<1>3. \A op \in {"push", "pop", "mov", "ret", "call"} : Opcode(op) <=> pre_call_entry[i][1] = op
  BY <1>1, FetchPreCall
<1>4. Operand(1) = pre_call_entry[i][2] /\ At(ip[1], ip[2] + 1) = At("pre_call_entry", i + 1)
  BY <1>1, FetchPreCall, Zenon
<1>5. CASE i \in 1 .. 2
  <2>1. Pop
    BY <1>3, <1>5, PreCallEntry DEF Instruction, Push, Pop, Mov, Ret, Call
  <2>2. Operand(1) = (IF i = 1 THEN "rax" ELSE "rdi") /\ Operand(1) \notin Callee
    BY <1>4, <1>5, PreCallEntry DEF Callee
  <2>3. /\ stack' = [stack EXCEPT !["engine"] = Rest(stack["engine"])]
        /\ rax' = IF i = 1 THEN Top(stack["engine"]) ELSE rax
        /\ ip' = At("pre_call_entry", i + 1)
        /\ UNCHANGED <<regs, rsp, co_stack, terminated, kept, entered>>
    BY <1>2, <1>4, <2>1, <2>2 DEF Pop, Advance
  <2>4. Len(stack["engine"]) > 0
    BY <1>1, <1>5
  <2>5. /\ Rest(stack["engine"]) \in Seq(Word)
        /\ Len(Rest(stack["engine"])) = Len(stack["engine"]) - 1
        /\ Top(stack["engine"]) = stack["engine"][Len(stack["engine"])]
    BY <1>2, <2>4, Popped, Zenon
  <2>6. /\ stack'["engine"] = Rest(stack["engine"]) /\ stack'["kernel"] = stack["kernel"]
        /\ stack' \in [Stacks -> Seq(Word)]
    BY <1>2, <2>3, <2>5 DEF Typed
  <2>7. rax' = C("call_entry") /\ Len(stack'["engine"]) = 3 - (i + 1)
    BY <1>1, <1>5, <2>3, <2>5, <2>6
  <2>8. KernelAway'
    BY <1>1, <2>3, <2>6 DEF KernelAway
  <2>9. InPreCall'
    BY <1>1, <1>5, <2>3, <2>7, <2>8 DEF InPreCall
  <2>10. QED
    BY <2>3, <2>6, <2>9 DEF Inv, Typed
<1>6. CASE i = 3
  <2>1. Call
    BY <1>3, <1>6, PreCallEntry, SMTT(30) DEF Instruction, Push, Pop, Mov, Ret, Call
  <2>2. /\ stack' = [stack EXCEPT !["engine"] = Append(stack["engine"], At("pre_call_entry", 4))]
        /\ ip' = C("call_entry")
        /\ UNCHANGED <<regs, rax, rsp, co_stack, terminated, kept, entered>>
    <3>1. At(ip[1], ip[2] + 1) = At("pre_call_entry", 4) /\ rax = C("call_entry")
      BY <1>1, <1>4, <1>6
    <3>2. QED
      BY <1>2, <2>1, <3>1, Zenon DEF Call
  <2>3. At("pre_call_entry", 4) \in Word
    BY WordFacts
  <2>4. PICK t : t = Append(stack["engine"], At("pre_call_entry", 4))
    BY Zenon
  <2>5. t \in Seq(Word) /\ Len(t) = 1 /\ t[1] = At("pre_call_entry", 4)
    BY <1>1, <1>2, <1>6, <2>3, <2>4, Pushed
  <2>6. t = <<At("pre_call_entry", 4)>>
    BY <2>5, Single
  <2>7. /\ stack'["engine"] = t /\ stack'["kernel"] = stack["kernel"]
        /\ stack' \in [Stacks -> Seq(Word)]
    BY <1>2, <2>2, <2>4, <2>5 DEF Typed
  <2>8. KernelAway'
    BY <1>1, <2>2, <2>7 DEF KernelAway
  <2>9. C("call_entry") # C("body")
    BY DEF C
  <2>10. InEngine'
    BY <1>1, <2>2, <2>6, <2>7, <2>8, <2>9 DEF InEngine
  <2>11. QED
    BY <2>2, <2>7, <2>10 DEF Inv, Typed
<1>7. QED
  BY <1>5, <1>6

\* No instruction is executed at a label of the C code.
LEMMA NoInstruction ==
  ASSUME NEW l \in Labels, ip = C(l), Instruction
  PROVE  FALSE
BY FetchLabel DEF Instruction, Push, Pop, Mov, Ret, Call

LEMMA InstructionInv == ASSUME Inv, Instruction PROVE Inv'
<1>1. CASE InSwitch
  BY <1>1, SwitchInv DEF Inv
<1>2. CASE InPreCall
  BY <1>2, PreCallInv DEF Inv
<1>3. CASE Starting \/ InEngine \/ InKernel \/ ip = C("exited")
  <2>1. \E l \in Labels : ip = C(l)
    BY <1>3 DEF Starting, InEngine, InKernel, Labels
  <2>2. QED
    BY <2>1, NoInstruction
<1>4. QED
  BY <1>1, <1>2, <1>3 DEF Inv

-----------------------------------------------------------------------------
(* The steps of the C code. *)

\* What a call of co_switch starts with.
LEMMA SwitchFacts ==
  ASSUME Typed, NEW words \in [Stacks -> Seq(Word)], NEW return \in Labels, Switch(return, words),
         UNCHANGED <<rsp, co_stack, entered>>, terminated' \in BOOLEAN
  PROVE  /\ Typed'
         /\ ip' = At("co_switch", 1)
         /\ regs' = kept'[rsp] /\ kept'[Other(rsp)] = kept[Other(rsp)]
         /\ stack'[rsp] = Append(words[rsp], C(return)) /\ stack'[Other(rsp)] = words[Other(rsp)]
<1>1. rsp \in Stacks /\ Other(rsp) \in Stacks /\ Other(rsp) # rsp
  BY OtherFacts DEF Typed
<1>2. PICK v \in Values : regs' = File(v) /\ kept' = [kept EXCEPT ![rsp] = File(v)]
  BY Zenon DEF Switch
<1>3. stack' = [words EXCEPT ![rsp] = Append(words[rsp], C(return))] /\ ip' = At("co_switch", 1)
  BY DEF Switch
<1>4. regs' \in [Callee -> Word] /\ kept' \in [Stacks -> [Callee -> Word]]
  BY <1>2, WordFacts DEF Typed
<1>5. regs' = kept'[rsp] /\ kept'[Other(rsp)] = kept[Other(rsp)]
  BY <1>1, <1>2 DEF Typed
<1>6. Append(words[rsp], C(return)) \in Seq(Word)
  BY <1>1, WordFacts, Pushed
<1>7. QED
  BY <1>1, <1>3, <1>4, <1>5, <1>6, Zenon DEF Typed

LEMMA PreparedFacts ==
  /\ Prepared \in Seq(Word)
  /\ Context(Prepared, 6, << <<"co", 0>>, C("call_entry"), At("pre_call_entry", 1) >>, Zero)
  /\ Prepared[1] = <<"co", 0>>
<1>1. PICK a : a = << <<"co", 0>>, C("call_entry"), At("pre_call_entry", 1) >>
  BY Zenon
<1>2. PICK z : z = [i \in 1 .. 6 |-> <<"zero", 0>>]
  BY Zenon
<1>3. a \in Seq(Word) /\ Len(a) = 3 /\ a[1] = <<"co", 0>>
  BY <1>1, WordFacts DEF Labels
<1>4. z \in Seq(Word) /\ Len(z) = 6 /\ \A i \in 1 .. 6 : z[i] = <<"zero", 0>>
  BY <1>2, WordFacts
<1>5. /\ a \o z \in Seq(Word) /\ Len(a \o z) = 9
      /\ \A j \in 1 .. 3 : (a \o z)[j] = a[j]
      /\ \A i \in 1 .. 6 : (a \o z)[3 + i] = z[i]
  <2>1. PICK s : s = a \o z
    BY Zenon
  <2>2. /\ s \in Seq(Word) /\ Len(s) = Len(a) + Len(z)
        /\ \A i \in 1 .. Len(a) + Len(z) : s[i] = IF i <= Len(a) THEN a[i] ELSE z[i - Len(a)]
    BY <1>3, <1>4, <2>1, ConcatProperties, Zenon
  <2>3. /\ Len(s) = 9
        /\ \A i \in 1 .. 9 : s[i] = IF i <= 3 THEN a[i] ELSE z[i - 3]
    BY <1>3, <1>4, <2>2
  <2>4. (\A j \in 1 .. 3 : s[j] = a[j]) /\ \A i \in 1 .. 6 : s[3 + i] = z[i]
    BY <2>3
  <2>5. QED
    BY <2>1, <2>2, <2>3, <2>4, Zenon
<1>6. Prepared = a \o z
  BY <1>1, <1>2 DEF Prepared
<1>7. \A i \in 1 .. 6 : Zero[Order[i]] = <<"zero", 0>>
  BY OrderFacts DEF Zero
<1>8. Context(a \o z, 6, a, Zero)
  <2>1. PICK s : s = a \o z
    BY Zenon
  <2>2. Len(s) = 9 /\ (\A j \in 1 .. 3 : s[j] = a[j]) /\ \A i \in 1 .. 6 : s[3 + i] = Zero[Order[i]]
    BY <1>4, <1>5, <1>7, <2>1, Zenon
  <2>3. Context(s, 6, a, Zero)
    BY <1>3, <2>2 DEF Context
  <2>4. QED
    BY <2>1, <2>3
<1>9. QED
  BY <1>1, <1>3, <1>5, <1>6, <1>8

LEMMA StartInv == ASSUME Inv, StartCoroutine PROVE Inv'
<1>1. Typed /\ Starting
  BY Places DEF Inv, StartCoroutine
<1>2. PICK words : words = [stack EXCEPT !["engine"] = stack["engine"] \o Prepared]
  BY Zenon
<1>3. Switch("code_runner", words) /\ UNCHANGED <<rax, rsp, co_stack, terminated, entered>>
  BY <1>2 DEF StartCoroutine
<1>4. stack["engine"] \o Prepared = Prepared
  BY <1>1, PreparedFacts DEF Starting
<1>5. words \in [Stacks -> Seq(Word)] /\ words["engine"] = Prepared /\ words["kernel"] = <<>>
  BY <1>1, <1>2, <1>4, PreparedFacts DEF Typed, Starting, Stacks
<1>6. rsp = "kernel" /\ Other(rsp) = "engine" /\ co_stack = "engine" /\ ~terminated /\ entered = 0
  BY <1>1 DEF Starting, Other
<1>7. /\ Typed' /\ ip' = At("co_switch", 1) /\ regs' = kept'["kernel"]
      /\ stack'["kernel"] = Append(<<>>, C("code_runner")) /\ stack'["engine"] = Prepared
  BY <1>1, <1>3, <1>5, <1>6, SwitchFacts DEF Labels, Typed
<1>8. PICK W, F : W = Below(stack', terminated') /\ F = Saved(stack', kept')
  BY SMTT(30)
<1>9. /\ W["kernel"] = <<C("code_runner")>> /\ F["kernel"] = kept'["kernel"]
      /\ W["engine"] = << <<"co", 0>>, C("call_entry"), At("pre_call_entry", 1) >>
      /\ F["engine"] = Zero
  BY <1>7, <1>8, PreparedFacts, BelowFacts DEF Typed
<1>10. Context(stack'["engine"], 6, W["engine"], F["engine"])
  BY <1>7, <1>9, PreparedFacts
<1>11. Context(stack'["kernel"], 0, W["kernel"], F["kernel"])
  BY <1>7, <1>9 DEF Context
<1>12. rsp' = "kernel" /\ Other(rsp') = "engine" /\ co_stack' = "engine" /\ ~terminated' /\ entered' = 0
  BY <1>3, <1>6
<1>13. Switching(1, W, F)'
  BY <1>7, <1>9, <1>10, <1>11, <1>12 DEF Switching
<1>14. InSwitch'
  BY <1>8, <1>12, <1>13 DEF InSwitch, ToEngine
<1>15. QED
  BY <1>7, <1>14 DEF Inv

\* A side that calls co_switch: the other one is away.
LEMMA CallSwitch ==
  ASSUME Typed', ip' = At("co_switch", 1), regs' = kept'[rsp'], co_stack' = Other(rsp'),
         NEW W, NEW F, W = Below(stack', terminated'), F = Saved(stack', kept'),
         stack'["engine"][1] = At("pre_call_entry", 4),
         Context(stack'[Other(rsp')], 6, W[Other(rsp')], F[Other(rsp')]),
         Context(stack'[rsp'], 0, W[rsp'], F[rsp']),
         IF rsp' = "kernel" THEN ~terminated' /\ entered' = 0
         ELSE entered' = IF terminated' THEN 1 ELSE 0
  PROVE  Inv'
<1>1. At("pre_call_entry", 4) # <<"co", 0>>
  BY SMTT(30) DEF At
<1>2. F["kernel"] = kept'["kernel"] /\ F["engine"] = kept'["engine"]
  BY <1>1, BelowFacts, Zenon DEF Typed
<1>3. F[rsp'] = kept'[rsp']
  BY <1>2 DEF Typed, Stacks
<1>4. Switching(1, W, F)'
  BY <1>3 DEF Switching
<1>5. InSwitch'
  BY <1>4 DEF InSwitch, ToEngine
<1>6. QED
  BY <1>5 DEF Inv

LEMMA CodeRunnerInv == ASSUME Inv, CodeRunner PROVE Inv'
<1>1. ip = C("code_runner")
  BY SMTT(30) DEF CodeRunner
<1>2. Typed /\ InKernel
  BY <1>1, Places DEF Inv
<1>3. UNCHANGED <<rax, rsp, co_stack, terminated, entered>>
  BY DEF CodeRunner
<1>4. CASE terminated
  <2>1. ip' = C("returned") /\ UNCHANGED <<regs, stack, kept>>
    BY <1>4 DEF CodeRunner
  <2>2. Typed' /\ InKernel'
    BY <1>2, <1>3, <1>4, <2>1, SMTT(30) DEF Typed, InKernel, EngineAway
  <2>3. QED
    BY <2>2 DEF Inv
<1>5. CASE ~terminated
  <2>1. Switch("code_runner", stack)
    BY <1>5 DEF CodeRunner
  <2>2. /\ rsp = "kernel" /\ Other(rsp) = "engine" /\ co_stack = "engine" /\ entered = 0
        /\ stack["kernel"] = <<>>
        /\ Context(stack["engine"], 6, << At("pre_call_entry", 4), C("entry") >>, kept["engine"])
    BY <1>2, <1>5 DEF InKernel, EngineAway, Other
  <2>3. /\ Typed' /\ ip' = At("co_switch", 1) /\ regs' = kept'["kernel"]
        /\ kept'["engine"] = kept["engine"]
        /\ stack'["kernel"] = Append(<<>>, C("code_runner")) /\ stack'["engine"] = stack["engine"]
    BY <1>2, <1>3, <2>1, <2>2, SwitchFacts DEF Labels, Typed
  <2>4. stack["engine"][1] = At("pre_call_entry", 4)
    BY <2>2 DEF Context
  <2>5. PICK W, F : W = Below(stack', terminated') /\ F = Saved(stack', kept')
    BY Zenon
  <2>6. At("pre_call_entry", 4) # <<"co", 0>>
    BY DEF At
  <2>7. /\ W["kernel"] = <<C("code_runner")>>
        /\ W["engine"] = << At("pre_call_entry", 4), C("entry") >> /\ F["engine"] = kept["engine"]
    <3>1. C(IF terminated' THEN "resumed" ELSE "entry") = C("entry")
      BY <1>3, <1>5
    <3>2. kept' \in [Stacks -> [Callee -> Word]] /\ stack'["engine"][1] # <<"co", 0>>
      BY <2>3, <2>4, <2>6 DEF Typed
    <3>3. QED
      BY <2>3, <2>5, <3>1, <3>2, BelowFacts, ZenonT(60)
  <2>8. Context(stack'["kernel"], 0, W["kernel"], F["kernel"])
    BY <2>3, <2>7 DEF Context
  <2>9. Context(stack'["engine"], 6, W["engine"], F["engine"])
    BY <2>2, <2>3, <2>7
  <2>10. QED
    BY <1>3, <1>5, <2>2, <2>3, <2>4, <2>5, <2>8, <2>9, CallSwitch
<1>6. QED
  BY <1>4, <1>5

\* call_entry calls co_switch, before and after co->entry.
LEMMA EngineSwitch ==
  ASSUME Typed, InEngine, NEW return \in {"entry", "resumed"}, Switch(return, stack),
         UNCHANGED <<rsp, co_stack, entered>>, terminated' \in BOOLEAN,
         return = IF terminated' THEN "resumed" ELSE "entry",
         entered = IF terminated' THEN 1 ELSE 0
  PROVE  Inv'
<1>1. /\ rsp = "engine" /\ Other(rsp) = "kernel" /\ co_stack = "kernel"
      /\ stack["engine"] = <<At("pre_call_entry", 4)>>
      /\ Context(stack["kernel"], 6, <<C("code_runner")>>, kept["kernel"])
  BY DEF InEngine, KernelAway, Other
<1>2. /\ Typed' /\ ip' = At("co_switch", 1) /\ regs' = kept'["engine"]
      /\ kept'["kernel"] = kept["kernel"]
      /\ stack'["engine"] = Append(<<At("pre_call_entry", 4)>>, C(return))
      /\ stack'["kernel"] = stack["kernel"]
  BY <1>1, SwitchFacts, Zenon DEF Labels, Typed
<1>3. /\ Len(stack'["engine"]) = 2 /\ stack'["engine"][1] = At("pre_call_entry", 4)
      /\ stack'["engine"][2] = C(return)
  BY <1>2
<1>4. PICK W, F : W = Below(stack', terminated') /\ F = Saved(stack', kept')
  BY Zenon
<1>5. At("pre_call_entry", 4) # <<"co", 0>>
  BY DEF At
<1>6. /\ W["kernel"] = <<C("code_runner")>> /\ F["kernel"] = kept["kernel"]
      /\ W["engine"] = << At("pre_call_entry", 4), C(return) >>
  BY <1>2, <1>3, <1>4, <1>5, BelowFacts, ZenonT(60) DEF Typed
<1>7. Context(stack'["engine"], 0, W["engine"], F["engine"])
  BY <1>3, <1>6 DEF Context
<1>8. Context(stack'["kernel"], 6, W["kernel"], F["kernel"])
  BY <1>1, <1>2, <1>6
<1>9. QED
  BY <1>1, <1>2, <1>3, <1>4, <1>7, <1>8, CallSwitch

LEMMA InEngineAt ==
  ASSUME Inv, ip \in {C("call_entry"), C("entry"), C("body")}
  PROVE  Typed /\ InEngine
<1>1. ip[1] \in {"call_entry", "entry", "body"}
  BY Places
<1>2. QED
  BY <1>1, Places DEF Inv

LEMMA CInv ==
  ASSUME Inv, CallEntry \/ Entry \/ DoExit \/ Terminate
  PROVE  Inv'
<1>1. Typed /\ InEngine
  BY InEngineAt DEF CallEntry, Entry, DoExit, Terminate
<1>2. CASE CallEntry
  <2>1. ip # C("body") /\ ~terminated /\ entered = 0
    BY <1>1, <1>2 DEF CallEntry, InEngine, C
  <2>2. QED
    BY <1>1, <1>2, <2>1, EngineSwitch DEF CallEntry, Typed
<1>3. CASE Entry
  <2>1. ip = C("entry") /\ ip' = C("body") /\ entered' = entered + 1
    BY <1>3 DEF Entry
  <2>2. entered = 0 /\ regs = kept["engine"] /\ ip # C("body")
    BY <1>1, <2>1 DEF InEngine, C
  <2>3. QED
    BY <1>1, <1>3, <2>1, <2>2 DEF Entry, Inv, Typed, InEngine, KernelAway
<1>4. CASE DoExit
  BY <1>1, <1>4 DEF DoExit, Inv, Typed
<1>5. CASE Terminate
  <2>1. ip = C("body") /\ entered = 1
    BY <1>1, <1>5 DEF Terminate, InEngine
  <2>2. QED
    BY <1>1, <1>5, <2>1, EngineSwitch DEF Terminate, Typed
<1>6. QED
  BY <1>2, <1>3, <1>4, <1>5

-----------------------------------------------------------------------------
(* Theorems. *)

LEMMA InitInv == Init => Inv
<1> SUFFICES ASSUME Init PROVE Inv
  OBVIOUS
<1>1. regs \in [Callee -> Word]
  BY WordFacts DEF Init
<1>2. stack \in [Stacks -> Seq(Word)] /\ stack["kernel"] = <<>> /\ stack["engine"] = <<>>
  BY DEF Init, Stacks
<1>3. kept \in [Stacks -> [Callee -> Word]]
  BY <1>1 DEF Init
<1>4. QED
  BY <1>1, <1>2, <1>3, Zenon DEF Init, Inv, Typed, Starting, Stacks

LEMMA NextInv == Inv /\ [Next]_vars => Inv'
<1> SUFFICES ASSUME Inv, [Next]_vars PROVE Inv'
  OBVIOUS
<1>1. CASE UNCHANGED vars
  BY <1>1, Zenon DEF vars, Inv, Typed, Starting, InSwitch, Switching, ToEngine, InPreCall, InEngine, InKernel,
              KernelAway, EngineAway
<1>2. CASE Thread
  BY <1>2, InstructionInv, StartInv, CodeRunnerInv, CInv DEF Thread
<1>3. QED
  BY <1>1, <1>2, CInv DEF Next, Over

LEMMA Invariance == Spec => []Inv
BY InitInv, NextInv, PTL DEF Spec

\* For any contents of the registers, the thread only ever executes code: every
\* ret of co_switch takes a return address and every call an entry.
THEOREM ReturnsToCode == Spec => []TypeOK
<1>1. ASSUME Inv PROVE TypeOK
  <2>1. ip \in {C(l) : l \in Labels} \cup {At("co_switch", i) : i \in 1 .. Len(co_switch)}
             \cup {At("pre_call_entry", i) : i \in 1 .. Len(pre_call_entry)}
    BY <1>1, CoSwitch, PreCallEntry, SMTT(30)
    DEF Inv, Starting, InSwitch, Switching, InPreCall, InEngine, InKernel, Labels
  <2>2. QED
    BY <1>1, <2>1 DEF Inv, Typed, TypeOK
<1>2. QED
  BY <1>1, Invariance, PTL

\* code_runner and call_entry find in rbx, rbp and r12 to r15 what they had there
\* when they called co_switch.
THEOREM RegistersSurvive == Spec => []CalleeSaved
<1>1. ASSUME Inv PROVE CalleeSaved
  <2>1. ip \in {C("code_runner"), C("returned")} => InKernel
    BY <1>1, Places DEF Inv
  <2>2. ip \in {C("entry"), C("body")} => InEngine /\ ip # C("call_entry")
    BY <1>1, Places DEF Inv
  <2>3. QED
    BY <2>1, <2>2 DEF CalleeSaved, InKernel, InEngine
<1>2. QED
  BY <1>1, Invariance, PTL

\* The stack is 16-byte aligned at the call of call_entry, and each round of
\* code_runner leaves the kernel stack as it found it.
THEOREM StacksAreAligned == Spec => []Aligned
<1>1. ASSUME Inv PROVE Aligned
  <2>1. CASE InSwitch
    <3>1. PICK i \in 1 .. 16 : ip = At("co_switch", i)
      BY <2>1, Zenon DEF InSwitch, Switching
    <3>2. co_switch[i][1] # "call"
      BY CoSwitch
    <3>3. QED
      BY <3>1, <3>2, Fetch, Zenon DEF Aligned, At, C
  <2>2. CASE InPreCall
    <3>1. PICK i \in 1 .. 3 :
            ip = At("pre_call_entry", i) /\ Len(stack["engine"]) = 3 - i /\ rsp = "engine"
      BY <2>2 DEF InPreCall, KernelAway
    <3>2. Opcode("call") => i = 3
      BY <3>1, FetchPreCall, PreCallEntry
    <3>3. Opcode("call") => rsp = "engine" /\ Len(stack[rsp]) = 0
      BY <3>1, <3>2
    <3>4. 0 % 2 = 0
      OBVIOUS
    <3>5. ip \notin {C("code_runner"), C("returned")}
      BY <3>1 DEF At, C
    <3>6. QED
      BY <3>3, <3>4, <3>5, Zenon DEF Aligned
  <2>3. CASE Starting \/ InEngine \/ InKernel \/ ip = C("exited")
    <3>1. PICK l \in Labels : ip = C(l)
      BY <2>3 DEF Starting, InEngine, InKernel, Labels
    <3>2. ~Opcode("call")
      BY <3>1, FetchLabel
    <3>3. ip \in {C("code_runner"), C("returned")} => InKernel
      BY <2>3 DEF Starting, InEngine, C
    <3>4. QED
      BY <3>2, <3>3, Zenon DEF Aligned, InKernel, EngineAway
  <2>4. QED
    BY <1>1, <2>1, <2>2, <2>3 DEF Inv
<1>2. QED
  BY <1>1, Invariance, PTL

\* co->entry is called once, the coroutine is not resumed after its last switch,
\* and code_runner returns only then.
THEOREM EntryRunsOnce == Spec => []RunsOnce
<1>1. ASSUME Inv PROVE RunsOnce
  <2>1. entered <= 1
    BY <1>1 DEF Inv, Typed
  <2>2. ip = C("returned") => terminated /\ entered = 1
    <3>1. ip = C("returned") => InKernel
      BY <1>1, Places DEF Inv
    <3>2. QED
      BY <3>1 DEF InKernel, EngineAway
  <2>3. ip # C("resumed")
    BY <1>1, Places DEF Inv
  <2>4. ~Opcode("ud2")
    <3>1. CASE InSwitch
      <4>1. PICK i \in 1 .. 16 : ip = At("co_switch", i)
        BY <3>1 DEF InSwitch, Switching
      <4>2. co_switch[i][1] # "ud2"
        BY CoSwitch
      <4>3. QED
        BY <4>1, <4>2, Fetch, SMTT(30)
    <3>2. CASE InPreCall
      <4>1. PICK i \in 1 .. 3 : ip = At("pre_call_entry", i)
        BY <3>2 DEF InPreCall
      <4>2. pre_call_entry[i][1] # "ud2"
        BY PreCallEntry
      <4>3. QED
        BY <4>1, <4>2, FetchPreCall
    <3>3. CASE Starting \/ InEngine \/ InKernel \/ ip = C("exited")
      <4>1. \E l \in Labels : ip = C(l)
        BY <3>3 DEF Starting, InEngine, InKernel, Labels
      <4>2. QED
        BY <4>1, FetchLabel
    <3>4. QED
      BY <1>1, <3>1, <3>2, <3>3 DEF Inv
  <2>5. QED
    BY <2>1, <2>2, <2>3, <2>4 DEF RunsOnce
<1>2. QED
  BY <1>1, Invariance, PTL

-----------------------------------------------------------------------------
(* The modules.  The inductive invariant says how much of init_module has    *)
(* been done at each of its steps, and that no extension module is in memory *)
(* unless kernel-wasm is live.                                               *)

\* What uapi_init has registered, and what the later parts have set up, when
\* kernel-wasm is at each step.
Progress ==
  /\ main \in {"absent", "chrdev"} => kernel = {}
  /\ main = "class" => kernel \subseteq {"chrdev"}
  /\ main = "device" => kernel \subseteq {"chrdev", "class"}
  /\ main \in {"registry", "vm", "live", "destroy", "uapi"} => uapi_initialized
  /\ main \in {"vm", "live"} => registry = "ready"
  /\ main = "live" => vm_symbols
  /\ main # "live" => \A m \in Extensions : ext[m] = "absent"

LifeInv ==
  /\ LTypeOK
  /\ Progress
  /\ entries = {m \in Extensions : ext[m] = "live"}
  /\ SafeOnceLive

LEMMA LifeInit == LInit => LifeInv
BY Zenon DEF LInit, LifeInv, LTypeOK, MainPCs, Progress, SafeOnceLive

\* The steps of kernel-wasm: extension modules and the ledger are left alone.
LEMMA LifeMain == LifeInv /\ MainStep => LifeInv'
<1> SUFFICES ASSUME LifeInv, MainStep PROVE LifeInv'
  OBVIOUS
<1> USE DEF LifeInv, LTypeOK, MainPCs, Progress, SafeOnceLive, users
<1>1. CASE Insmod
  BY <1>1, Zenon DEF Insmod
<1>2. CASE RegisterChrdev
  BY <1>2, Zenon DEF RegisterChrdev
<1>3. CASE ClassCreate
  BY <1>3, Zenon DEF ClassCreate, Unmapped
<1>4. CASE DeviceCreate
  BY <1>4, Zenon DEF DeviceCreate, Unmapped
<1>5. CASE InitGlobalRegistry
  BY <1>5 DEF InitGlobalRegistry
<1>6. CASE VmInit
  <2>1. CASE main' = "live" /\ vm_symbols' = TRUE
    BY <1>6, <2>1 DEF VmInit
  <2>2. CASE main' = "destroy" /\ UNCHANGED vm_symbols
    BY <1>6, <2>2 DEF VmInit
  <2>3. QED
    BY <1>6, <2>1, <2>2, Zenon DEF VmInit
<1>7. CASE Rmmod
  BY <1>7 DEF Rmmod
<1>8. CASE DestroyGlobalRegistry
  BY <1>8 DEF DestroyGlobalRegistry
<1>9. CASE UapiCleanup
  <2>1. CASE main' = "absent"
    BY <1>9, <2>1 DEF UapiCleanup, Unmapped
  <2>2. CASE main' = "stuck"
    BY <1>9, <2>2 DEF UapiCleanup
  <2>3. QED
    BY <1>9, <2>1, <2>2, Zenon DEF UapiCleanup
<1>10. QED
  BY <1>1, <1>2, <1>3, <1>4, <1>5, <1>6, <1>7, <1>8, <1>9 DEF MainStep

\* The steps of an extension module, which all happen while kernel-wasm is
\* live.
LEMMA LifeExt == ASSUME LifeInv, NEW m \in Extensions, ExtStep(m) PROVE LifeInv'
<1> USE DEF LifeInv, LTypeOK, MainPCs, Progress, SafeOnceLive, ExtGoto, uapi, users
<1>1. CASE ExtInsmod(m)
  BY <1>1 DEF ExtInsmod
<1>2. CASE ExtLookup(m)
  BY <1>2 DEF ExtLookup
<1>3. CASE ExtRegister(m)
  BY <1>3 DEF ExtRegister
<1>4. CASE ExtCleanup(m)
  BY <1>4, SMTT(30) DEF ExtCleanup
<1>5. QED
  BY <1>1, <1>2, <1>3, <1>4 DEF ExtStep

\* A load that dies in a kernel-wasm that is live does so for an instance.
LEMMA LifeDies ==
  ASSUME LifeInv, NEW s \in Sessions, NEW why \in {"list", "entry", "symbols", "instance"},
         main = "live" => why = "instance", LoadDies(s, why),
         UNCHANGED <<main, uapi, registry, entries, vm_symbols, ext>>
  PROVE  LifeInv'
<1>1. /\ UNCHANGED <<main, kernel, uapi_initialized, registry, entries, vm_symbols, ext, held>>
      /\ handle' = [handle EXCEPT ![s] = "dead"]
      /\ oops' = oops \cup {[why |-> why, main |-> main]}
  BY DEF LoadDies, uapi
<1>2. LTypeOK'
  BY <1>1 DEF LifeInv, LTypeOK, MainPCs
<1>3. SafeOnceLive'
  BY <1>1, SMTT(30) DEF LifeInv, SafeOnceLive
<1>4. QED
  BY <1>1, <1>2, <1>3 DEF LifeInv, Progress

\* The steps of a user process.  In a kernel-wasm that is live a walk is safe,
\* and what the rest of a load calls has been found.
LEMMA LifeHandle == ASSUME LifeInv, NEW s \in Sessions, HandleStep(s) PROVE LifeInv'
<1>1. main = "live" => WalkIsSafe /\ vm_symbols
  BY DEF WalkIsSafe, LifeInv, Progress
<1>2. CASE WdOpen(s)
  BY <1>2 DEF WdOpen, LifeInv, LTypeOK, Progress, SafeOnceLive, uapi
<1>3. CASE LoadWalk(s)
  <2>1. UNCHANGED <<main, uapi, registry, entries, vm_symbols, ext>>
    BY <1>3 DEF LoadWalk
  <2>2. ASSUME ~WalkIsSafe, LoadDies(s, IF registry = "zero" THEN "list" ELSE "entry")
        PROVE  LifeInv'
    <3>1. PICK why : /\ why = IF registry = "zero" THEN "list" ELSE "entry"
                     /\ why \in {"list", "entry", "symbols", "instance"}
      BY Zenon
    <3>2. QED
      BY <1>1, <2>1, <2>2, <3>1, LifeDies, Zenon
  <2>3. ASSUME handle' = [handle EXCEPT ![s] = "loading"],
               held' = [held EXCEPT ![s] = entries], UNCHANGED oops
        PROVE  LifeInv'
    BY <2>1, <2>3 DEF LifeInv, LTypeOK, Progress, SafeOnceLive, uapi
  <2>4. QED
    BY <1>3, <2>2, <2>3, Zenon DEF LoadWalk
<1>4. CASE LoadCode(s)
  <2>1. UNCHANGED <<main, uapi, registry, entries, vm_symbols, ext>>
    BY <1>4 DEF LoadCode
  <2>2. ASSUME LoadDies(s, "instance") PROVE LifeInv'
    BY <2>1, <2>2, LifeDies, Zenon
  <2>3. ASSUME ~vm_symbols, LoadDies(s, "symbols") PROVE LifeInv'
    BY <1>1, <2>1, <2>3, LifeDies, Zenon
  <2>4. ASSUME NEW to \in {"loaded", "open"}, handle' = [handle EXCEPT ![s] = to],
               UNCHANGED <<held, oops>>
        PROVE  LifeInv'
    BY <2>1, <2>4 DEF LifeInv, LTypeOK, Progress, SafeOnceLive, uapi
  <2>5. QED
    BY <1>4, <2>2, <2>3, <2>4, Zenon DEF LoadCode
<1>5. CASE WdRelease(s)
  BY <1>5 DEF WdRelease, LifeInv, LTypeOK, Progress, SafeOnceLive, uapi
<1>6. QED
  BY <1>2, <1>3, <1>4, <1>5 DEF HandleStep

LEMMA LifeNext == LifeInv /\ [LNext]_lvars => LifeInv'
<1>1. LifeInv /\ UNCHANGED lvars => LifeInv'
  BY DEF LifeInv, LTypeOK, Progress, SafeOnceLive, lvars
<1>2. QED
  BY <1>1, LifeMain, LifeExt, LifeHandle DEF LNext, Stuck

LEMMA LifeInvariance == LSpec => []LifeInv
BY LifeInit, LifeNext, PTL DEF LSpec

\* For any set of extension modules: when kernel-wasm is not in memory nothing
\* points into it, through every failure of uapi_init and vm_init.
THEOREM NothingLeft == LSpec => []TornDown
<1>1. LifeInv => TornDown
  BY DEF LifeInv, Progress, TornDown
<1>2. QED
  BY <1>1, LifeInvariance, PTL

\* The registry lists the modules that are live and no other, and it is empty
\* when destroy_global_registry runs.
THEOREM EntriesAreOwned == LSpec => []EntriesOwned
<1>1. LifeInv => EntriesOwned
  BY DEF LifeInv, Progress, EntriesOwned
<1>2. QED
  BY <1>1, LifeInvariance, PTL

\* A load dies in a kernel-wasm that is live only over an instance of a module that
\* was unloaded since the load walked the registry: nothing it needs of kernel-wasm
\* is uninitialised, and the registry names no module that is gone.
THEOREM LiveIsSafe == LSpec => []SafeOnceLive
<1>1. LifeInv => SafeOnceLive
  BY DEF LifeInv
<1>2. QED
  BY <1>1, LifeInvariance, PTL
=============================================================================
