------------------------------ MODULE RunCode ------------------------------
(***************************************************************************)
(* WASM_RUN_CODE (uapi.c).  One run involves three threads that share a    *)
(* struct code_runner_task on the stack of the first:                      *)
(*   - the handler, the user thread inside handle_wasm_run_code;           *)
(*   - the finalizer, a kthread that waits for the runner's end;           *)
(*   - the runner, a kthread that executes guest code on the engine's      *)
(*     stack.                                                              *)
(* They synchronise with three semaphores.  A signal to the handler's      *)
(* thread ends the run by force: the code pages lose their execute         *)
(* permission and the runner gets SIGKILL.                                 *)
(*                                                                         *)
(* All runs are runs of one session: they share its execution engine.      *)
(* Counting (preempt_in_count, preempt_out_count) and logging are left     *)
(* out.                                                                    *)
(***************************************************************************)
EXTENDS Integers, FiniteSets

CONSTANTS
  Runs,           \* invocations of WASM_RUN_CODE on the session
  Threads,        \* user threads that share the session's descriptor
  ThreadOf,       \* the thread that performs each run
  Failures,       \* kernel services that may fail
  StdioSets,      \* the sets of standard descriptors a caller may have open
  OtherNotifiers  \* users of preempt notifiers outside this session

Services == {"copy_from_user", "copy_to_user", "kthread_run",
             "kthread_create", "unshare_files", "get_unused_fd"}

Stdio == {"stdin", "stdout", "stderr"}

ASSUME RunCodeAssumption ==
  /\ ThreadOf \in [Runs -> Threads]
  /\ Failures \subseteq Services
  /\ StdioSets \subseteq SUBSET Stdio
  /\ OtherNotifiers \in Nat

VARIABLES
  sess,    \* privileged_session: is it there, can its code be executed
  key,     \* users of preempt notifiers (the scheduler's static key)
  call,    \* the handler of each run: program counter and local variables
  task,    \* struct code_runner_task of each run, on the handler's stack
  fpc,     \* the finalizer of each run: program counter
  runner,  \* the runner of each run: program counter and task_struct
  refs,    \* references that each run holds on the caller's standard files
  late     \* history: a notifier callback has run on a freed engine

vars == <<sess, key, call, task, fpc, runner, refs, late>>

HandlerPCs   == {"idle", "finalizer", "runner", "bail", "wake", "start",
                 "wait", "kill", "collect", "restore", "return", "done", "oops"}
FinalizerPCs == {"none", "wait", "check", "stop", "join", "up", "done", "stray"}
RunnerPCs    == {"none", "created", "woken", "unshare", "stdin", "stdout",
                 "stderr", "fpu", "call", "wasm", "host",
                 "exited", "closed", "dead", "stuck"}
Exits        == {"running", "eintr", "return", "fault", "clobbered", "exit0",
                 "exit1"}
Results      == {"none", "EFAULT", "EINVAL", "fail", "ok0", "ok1"}

\* The value of kthread_stop for each way to end: 0, -EINTR, the status of
\* the fault, or the argument of proc_exit.
ExitCode == [running |-> 0, eintr |-> -4, return |-> 0, fault |-> 9,
             clobbered |-> 9, exit0 |-> 0, exit1 |-> 1]

Session == [state : {"fresh", "ready", "freed"}, code_nx : BOOLEAN]

Call == [pc : HandlerPCs, made_nx : BOOLEAN, result : Results,
         sigpending : BOOLEAN]             \* of the thread

Task == [exec_start : Nat, finalizer_start : Nat, finalizer_end : Nat,
         ret : {0, 1}, finalize_ret : Int, finalizer_should_not_run : BOOLEAN,
         param_count : {0, 1},             \* of the request
         file : [Stdio -> {"unset", "file", "null"}]]

Runner == [pc : RunnerPCs,
           usage : Nat,                    \* get_task_struct
           should_stop : BOOLEAN,          \* KTHREAD_SHOULD_STOP
           exit : Exits,                   \* how the runner ended
           allowed : BOOLEAN,              \* allow_signal(SIGKILL)
           killed : BOOLEAN,               \* SIGKILL is pending
           fpu : BOOLEAN,                  \* inside kernel_fpu_begin and _end
           notifier : BOOLEAN,             \* ee->preempt_notifier is registered
           fdt : SUBSET Stdio]             \* installed in its own file table

Init ==
  /\ sess = [state |-> "fresh", code_nx |-> FALSE]
  /\ key = OtherNotifiers
  /\ call = [r \in Runs |-> [pc |-> "idle", made_nx |-> FALSE, result |-> "none",
                             sigpending |-> FALSE]]
  /\ task = [r \in Runs |->
               [exec_start |-> 0, finalizer_start |-> 0, finalizer_end |-> 0,
                ret |-> 0, finalize_ret |-> 0, finalizer_should_not_run |-> FALSE,
                param_count |-> 0, file |-> [s \in Stdio |-> "unset"]]]
  /\ fpc = [r \in Runs |-> "none"]
  /\ runner = [r \in Runs |->
                 [pc |-> "none", usage |-> 0, should_stop |-> FALSE,
                  exit |-> "running", allowed |-> FALSE, killed |-> FALSE,
                  fpu |-> FALSE, notifier |-> FALSE, fdt |-> {}]]
  /\ refs = [r \in Runs |-> [s \in Stdio |-> 0]]
  /\ late = FALSE

-----------------------------------------------------------------------------
\* The handler of run r is inside the ioctl, so its task structure exists.
Active(r) == call[r].pc \notin {"idle", "done", "oops"}

\* The runner has gone through the part of do_exit that wakes kthread_stop.
Ended(r) == runner[r].pc \in {"exited", "closed", "dead", "stuck"}

\* The runner is inside its coroutine.
InCoroutine(r) == runner[r].pc \in {"unshare", "stdin", "stdout", "stderr",
                                    "fpu", "call", "wasm", "host"}

\* It executes on the engine's stack: in the coroutine, or in do_exit when
\* proc_exit called it there.
OnEngineStack(r) ==
  \/ InCoroutine(r)
  \/ runner[r].pc \in {"exited", "closed"} /\ runner[r].exit \in {"exit0", "exit1"}

\* fput(NULL) is a NULL dereference, fatal to the thread that calls it.  The
\* order is always stderr, stdout, stdin: of the files of S, those whose
\* reference is dropped before such a fault.
FputFaults(r, S) == \E s \in S : task[r].file[s] = "null"

FputOrder == [stderr |-> 1, stdout |-> 2, stdin |-> 3]

FputReaches_NotStdin(r, S) == {s \in S \ {"stdin"} : task[r].file[s] = "file"}

FputReaches(r, S) ==
  {s \in S : /\ task[r].file[s] = "file"
             /\ \A t \in S : FputOrder[t] < FputOrder[s] => task[r].file[t] # "null"}

DropRefs(r, S) ==
  refs' = [refs EXCEPT ![r] = [s \in Stdio |-> @[s] - (IF s \in S THEN 1 ELSE 0)]]

Fput(r, S) == DropRefs(r, FputReaches(r, S))

\* The runner enters do_exit: the exit status is set, the completion that
\* kthread_stop waits for is signalled.
RunnerExit(r, how) ==
  runner' = [runner EXCEPT ![r].pc = "exited", ![r].exit = how]

-----------------------------------------------------------------------------
(* The session. *)

\* WASM_LOAD_CODE, seen from a run: the engine is there at once or not at all.
LoadCode ==
  /\ sess.state = "fresh"
  /\ sess' = [sess EXCEPT !.state = "ready"]
  /\ UNCHANGED <<key, call, task, fpc, runner, refs, late>>

\* wd_release: called when the last reference to the open file goes away, so
\* never while an ioctl is in progress.
Release ==
  /\ sess.state # "freed"
  /\ \A r \in Runs : ~Active(r)
  /\ sess' = [sess EXCEPT !.state = "freed"]
  /\ UNCHANGED <<key, call, task, fpc, runner, refs, late>>

-----------------------------------------------------------------------------
(* The handler. *)

HandlerAt(r, pc) == call[r].pc = pc

HandlerGoto(r, from, to) ==
  HandlerAt(r, from) /\ call' = [call EXCEPT ![r].pc = to]

\* A thread is in one system call at a time; the descriptor is not closed yet.
MayEnter(r) ==
  /\ HandlerAt(r, "idle")
  /\ sess.state # "freed"
  /\ \A q \in Runs : ThreadOf[q] = ThreadOf[r] => call[q].pc \in {"idle", "done"}

RejectRequest(r) ==
  /\ MayEnter(r)
  /\ \/ /\ "copy_from_user" \in Failures
        /\ call' = [call EXCEPT ![r].pc = "done", ![r].result = "EFAULT"]
     \/ /\ sess.state = "fresh"
        /\ call' = [call EXCEPT ![r].pc = "done", ![r].result = "EINVAL"]
  /\ UNCHANGED <<sess, key, task, fpc, runner, refs, late>>

\* The request is accepted and the three standard files are looked up.
\* fget_raw returns NULL for a closed descriptor, never an ERR_PTR: the
\* IS_ERR branches are dead and a NULL goes into the task structure.
BeginRun(r) ==
  /\ MayEnter(r)
  /\ sess.state = "ready"
  /\ call' = [call EXCEPT ![r].pc = "finalizer"]
  /\ \E open \in StdioSets, n \in {0, 1} :
       /\ task' = [task EXCEPT
                     ![r].param_count = n,
                     ![r].file = [s \in Stdio |-> IF s \in open THEN "file"
                                                  ELSE "null"]]
       /\ refs' = [refs EXCEPT ![r] = [s \in Stdio |-> IF s \in open THEN 1 ELSE 0]]
  /\ UNCHANGED <<sess, key, fpc, runner, late>>

\* The handler gives up before a runner exists: -EINVAL, or death in fput.
GiveUp(r) ==
  /\ Fput(r, Stdio)
  /\ call' = [call EXCEPT
                ![r].pc = IF FputFaults(r, Stdio) THEN "oops" ELSE "done",
                ![r].result = IF FputFaults(r, Stdio) THEN "none" ELSE "EINVAL"]
  /\ UNCHANGED <<sess, key, task, fpc, runner, late>>

StartFinalizer(r) ==
  /\ HandlerGoto(r, "finalizer", "runner")
  /\ fpc' = [fpc EXCEPT ![r] = "wait"]
  /\ UNCHANGED <<sess, key, task, runner, refs, late>>

StartFinalizerFails(r) ==
  /\ "kthread_run" \in Failures
  /\ HandlerAt(r, "finalizer")
  /\ GiveUp(r)

CreateRunner_NoRef(r) ==
  /\ HandlerGoto(r, "runner", "wake")
  /\ runner' = [runner EXCEPT ![r].pc = "created"]
  /\ UNCHANGED <<sess, key, task, fpc, refs, late>>

\* kthread_create, get_task_struct.
CreateRunner(r) ==
  /\ HandlerGoto(r, "runner", "wake")
  /\ runner' = [runner EXCEPT ![r].pc = "created",
                             ![r].usage = runner[r].usage + 1]
  /\ UNCHANGED <<sess, key, task, fpc, refs, late>>

CreateRunnerFails(r) ==
  /\ "kthread_create" \in Failures
  /\ HandlerGoto(r, "runner", "bail")
  /\ task' = [task EXCEPT
                ![r].finalizer_should_not_run = TRUE,
                ![r].finalizer_start = task[r].finalizer_start + 1]
  /\ UNCHANGED <<sess, key, fpc, runner, refs, late>>

\* The handler returns without waiting for the finalizer it has released.
Bail(r) == HandlerAt(r, "bail") /\ GiveUp(r)

\* preempt_notifier_inc, wake_up_process.
WakeRunner(r) ==
  /\ HandlerGoto(r, "wake", "start")
  /\ key' = key + 1
  /\ runner' = [runner EXCEPT ![r].pc = "woken"]
  /\ UNCHANGED <<sess, task, fpc, refs, late>>

AwaitStart_NoWait(r) ==
  /\ HandlerGoto(r, "start", "wait")
  /\ task' = [task EXCEPT ![r].finalizer_start = @ + 1]
  /\ UNCHANGED <<sess, key, fpc, runner, refs, late>>

\* Wait for execution start, then let the finalizer go.
AwaitStart(r) ==
  /\ HandlerGoto(r, "start", "wait")
  /\ task[r].exec_start > 0
  /\ task' = [task EXCEPT
                ![r].exec_start = task[r].exec_start - 1,
                ![r].finalizer_start = task[r].finalizer_start + 1]
  /\ UNCHANGED <<sess, key, fpc, runner, refs, late>>

\* down_interruptible returns 0.
AwaitEnd(r) ==
  /\ HandlerGoto(r, "wait", "collect")
  /\ task[r].finalizer_end > 0
  /\ task' = [task EXCEPT ![r].finalizer_end = @ - 1]
  /\ UNCHANGED <<sess, key, fpc, runner, refs, late>>

Interrupted_NoFlag(r) ==
  /\ HandlerGoto(r, "wait", "kill")
  /\ task[r].finalizer_end = 0 /\ call[r].sigpending
  /\ sess' = [sess EXCEPT !.code_nx = TRUE]
  /\ UNCHANGED <<key, task, fpc, runner, refs, late>>

Interrupted_OnlyKill(r) ==
  /\ HandlerGoto(r, "wait", "kill")
  /\ task[r].finalizer_end = 0 /\ call[r].sigpending
  /\ UNCHANGED <<sess, key, task, fpc, runner, refs, late>>

\* down_interruptible returns -EINTR.  The signal stays pending until the
\* thread leaves the kernel, so the loop comes here again and again.
Interrupted(r) ==
  /\ HandlerAt(r, "wait")
  /\ task[r].finalizer_end = 0 /\ call[r].sigpending
  /\ sess' = [sess EXCEPT !.code_nx = TRUE]
  /\ call' = [call EXCEPT ![r].pc = "kill", ![r].made_nx = TRUE]
  /\ UNCHANGED <<key, task, fpc, runner, refs, late>>

KillRunner_Once(r) ==
  /\ HandlerGoto(r, "kill", "collect")
  /\ UNCHANGED <<sess, key, task, fpc, runner, refs, late>>

KillRunner_Restore(r) ==
  /\ HandlerGoto(r, "kill", "wait")
  /\ sess' = [sess EXCEPT !.code_nx = FALSE]
  /\ UNCHANGED <<key, task, fpc, runner, refs, late>>

\* kill_pid: a kthread that has not allowed SIGKILL ignores it.
KillRunner(r) ==
  /\ HandlerGoto(r, "kill", "wait")
  /\ runner' = [runner EXCEPT ![r].killed = @ \/ (runner[r].allowed /\ ~Ended(r))]
  /\ UNCHANGED <<sess, key, task, fpc, refs, late>>

\* The value for req.result; put_task_struct.
Collect(r) ==
  /\ HandlerAt(r, "collect")
  /\ call' = [call EXCEPT
                ![r].pc = "restore",
                ![r].result = IF task[r].finalize_ret # 0 THEN "fail"
                              ELSE IF task[r].ret = 0 THEN "ok0" ELSE "ok1"]
  /\ runner' = [runner EXCEPT ![r].usage = @ - 1]
  /\ UNCHANGED <<sess, key, task, fpc, refs, late>>

RestoreCode(r) ==
  /\ HandlerGoto(r, "restore", "return")
  /\ sess' = [sess EXCEPT !.code_nx = @ /\ ~call[r].made_nx]
  /\ UNCHANGED <<key, task, fpc, runner, refs, late>>

ReturnResult_NoDec(r) ==
  /\ HandlerGoto(r, "return", "done")
  /\ UNCHANGED <<sess, key, task, fpc, runner, refs, late>>

\* preempt_notifier_dec, copy_to_user.
ReturnResult(r) ==
  /\ HandlerAt(r, "return")
  /\ key' = key - 1
  /\ \/ call' = [call EXCEPT ![r].pc = "done"]
     \/ /\ "copy_to_user" \in Failures
        /\ call' = [call EXCEPT ![r].pc = "done", ![r].result = "EFAULT"]
  /\ UNCHANGED <<sess, task, fpc, runner, refs, late>>

HandlerStep(r) ==
  \/ StartFinalizer(r) \/ StartFinalizerFails(r)
  \/ CreateRunner(r) \/ CreateRunnerFails(r) \/ Bail(r)
  \/ WakeRunner(r) \/ AwaitStart(r)
  \/ AwaitEnd(r) \/ Interrupted(r) \/ KillRunner(r)
  \/ Collect(r) \/ RestoreCode(r) \/ ReturnResult(r)

-----------------------------------------------------------------------------
(* The finalizer. *)

FinalizerGoto(r, from, to) == fpc[r] = from /\ fpc' = [fpc EXCEPT ![r] = to]

FinalizerDown(r) ==
  /\ Active(r)
  /\ FinalizerGoto(r, "wait", "check")
  /\ task[r].finalizer_start > 0
  /\ task' = [task EXCEPT ![r].finalizer_start = @ - 1]
  /\ UNCHANGED <<sess, key, call, runner, refs, late>>

FinalizerCheck(r) ==
  /\ Active(r)
  /\ FinalizerGoto(r, "check", IF task[r].finalizer_should_not_run THEN "done"
                               ELSE "stop")
  /\ UNCHANGED <<sess, key, call, task, runner, refs, late>>

\* The task structure is gone (the handler gave up and returned): what the
\* finalizer reads there is undefined.  It ends, or it waits on or stops
\* whatever the stack holds now.
FinalizerStale(r) ==
  /\ ~Active(r)
  /\ fpc[r] \in {"wait", "check"}
  /\ \E pc \in {"done", "stray"} : fpc' = [fpc EXCEPT ![r] = pc]
  /\ UNCHANGED <<sess, key, call, task, runner, refs, late>>

\* kthread_stop, up to the wait for the completion.
KthreadStop(r) ==
  /\ FinalizerGoto(r, "stop", "join")
  /\ runner' = [runner EXCEPT ![r].should_stop = TRUE]
  /\ UNCHANGED <<sess, key, call, task, refs, late>>

KthreadJoin_NoStatus(r) ==
  /\ FinalizerGoto(r, "join", "up")
  /\ Ended(r)
  /\ UNCHANGED <<sess, key, call, task, runner, refs, late>>

KthreadJoin(r) ==
  /\ FinalizerGoto(r, "join", "up")
  /\ Ended(r)
  /\ task' = [task EXCEPT ![r].finalize_ret = ExitCode[runner[r].exit]]
  /\ UNCHANGED <<sess, key, call, runner, refs, late>>

FinalizerUp_WrongSem(r) ==
  /\ FinalizerGoto(r, "up", "done")
  /\ task' = [task EXCEPT ![r].finalizer_start = @ + 1]
  /\ UNCHANGED <<sess, key, call, runner, refs, late>>

FinalizerUp(r) ==
  /\ FinalizerGoto(r, "up", "done")
  /\ task' = [task EXCEPT ![r].finalizer_end = @ + 1]
  /\ UNCHANGED <<sess, key, call, runner, refs, late>>

FinalizerStep(r) ==
  \/ FinalizerDown(r) \/ FinalizerCheck(r) \/ FinalizerStale(r)
  \/ KthreadStop(r) \/ KthreadJoin(r) \/ FinalizerUp(r)

-----------------------------------------------------------------------------
(* The runner. *)

RunnerAt(r, pc) == runner[r].pc = pc

RunnerGoto(r, from, to) ==
  RunnerAt(r, from) /\ runner' = [runner EXCEPT ![r].pc = to]

\* The first thing a kthread does is to look at KTHREAD_SHOULD_STOP: when it
\* is set the thread function is never called.  Otherwise code_runner switches
\* to the engine's stack and code_runner_inner begins.
RunnerStarts(r) ==
  /\ RunnerAt(r, "woken")
  /\ IF runner[r].should_stop
     THEN RunnerExit(r, "eintr") /\ UNCHANGED task
     ELSE /\ runner' = [runner EXCEPT ![r].pc = "unshare"]
          /\ task' = [task EXCEPT ![r].exec_start = @ + 1]
  /\ UNCHANGED <<sess, key, call, fpc, refs, late>>

\* The runner gives up before it calls the guest and drops the references it
\* still owns; code_runner then returns 0, unless fput faults.
RunnerGivesUp(r, S) ==
  /\ Fput(r, S)
  /\ RunnerExit(r, IF FputFaults(r, S) THEN "fault" ELSE "return")
  /\ UNCHANGED <<sess, key, call, task, fpc, late>>

UnshareFiles(r) ==
  /\ RunnerGoto(r, "unshare", "stdin")
  /\ UNCHANGED <<sess, key, call, task, fpc, refs, late>>

UnshareFilesFails(r) ==
  /\ "unshare_files" \in Failures
  /\ RunnerAt(r, "unshare")
  /\ RunnerGivesUp(r, Stdio)

\* The files are installed one by one, stdin, stdout, stderr: the step after
\* each, and the references that the frame still owns when one fails.
InstallNext == [stdin |-> "stdout", stdout |-> "stderr", stderr |-> "fpu"]

StillOwned_All == [s \in Stdio |-> Stdio]

StillOwned == [stdin |-> Stdio, stdout |-> {"stdout", "stderr"},
               stderr |-> {"stderr"}]

InstallFile(r, s) ==
  /\ RunnerAt(r, s)
  /\ runner' = [runner EXCEPT ![r].pc = InstallNext[s],
                             ![r].fdt = runner[r].fdt \cup {s}]
  /\ UNCHANGED <<sess, key, call, task, fpc, refs, late>>

InstallFileFails(r, s) ==
  /\ "get_unused_fd" \in Failures
  /\ RunnerAt(r, s)
  /\ RunnerGivesUp(r, StillOwned[s])

\* kernel_fpu_begin, preempt_notifier_init and _register, preempt_enable.
BeginFpu(r) ==
  /\ RunnerAt(r, "fpu")
  /\ runner' = [runner EXCEPT ![r].pc = "call", ![r].fpu = TRUE, ![r].notifier = TRUE]
  /\ UNCHANGED <<sess, key, call, task, fpc, refs, late>>

InvalidParamCount(r) ==
  /\ RunnerAt(r, "call")
  /\ task[r].param_count # 0
  /\ RunnerExit(r, "return")
  /\ UNCHANGED <<sess, key, call, task, fpc, refs, late>>

\* allow_signal(SIGKILL), ee_call0.
CallGuest(r) ==
  /\ RunnerAt(r, "call")
  /\ task[r].param_count = 0
  /\ runner' = [runner EXCEPT ![r].pc = "wasm", ![r].allowed = TRUE]
  /\ UNCHANGED <<sess, key, call, task, fpc, refs, late>>

\* The guest returns a value, here 1, to tell it from the 0 of the memset.
GuestReturns(r) ==
  /\ RunnerAt(r, "wasm")
  /\ ~sess.code_nx
  /\ task' = [task EXCEPT ![r].ret = 1]
  /\ RunnerExit(r, "return")
  /\ UNCHANGED <<sess, key, call, fpc, refs, late>>

\* The guest traps, or its next instruction is on a page without execute
\* permission: a fault in kernel mode, which ends the thread.
GuestFaults(r) ==
  /\ RunnerAt(r, "wasm")
  /\ RunnerExit(r, "fault")
  /\ UNCHANGED <<sess, key, call, task, fpc, refs, late>>

HostCall(r) ==
  /\ RunnerGoto(r, "wasm", "host")
  /\ ~sess.code_nx
  /\ UNCHANGED <<sess, key, call, task, fpc, refs, late>>

HostReturns(r) ==
  /\ RunnerGoto(r, "host", "wasm")
  /\ UNCHANGED <<sess, key, call, task, fpc, refs, late>>

\* __wasi_proc_exit: do_exit, on the engine's stack.
ProcExit(r) ==
  /\ RunnerAt(r, "host")
  /\ \E how \in {"exit0", "exit1"} : RunnerExit(r, how)
  /\ UNCHANGED <<sess, key, call, task, fpc, refs, late>>

\* Nothing keeps a second runner off the engine's stack.  Two runners that
\* overwrite each other's frames do anything; what the kernel contains is
\* modelled: one in the coroutine dies of a fault, one that already is in
\* do_exit dies of a recursive fault and is left hanging there.
StackClobbered(r) ==
  /\ OnEngineStack(r)
  /\ \E q \in Runs \ {r} : OnEngineStack(q)
  /\ \/ InCoroutine(r) /\ RunnerExit(r, "clobbered")
     \/ Ended(r) /\ runner' = [runner EXCEPT ![r].pc = "stuck"]
  /\ UNCHANGED <<sess, key, call, task, fpc, refs, late>>

\* do_exit goes on: the files of the thread's own table are closed.
ExitFiles(r) ==
  /\ RunnerAt(r, "exited")
  /\ DropRefs(r, {s \in runner[r].fdt : task[r].file[s] = "file"})
  /\ runner' = [runner EXCEPT ![r].pc = "closed", ![r].fdt = {}]
  /\ UNCHANGED <<sess, key, call, task, fpc, late>>

\* The last context switch away from the runner calls code_runner_sched_out
\* when the notifier is still registered and notifiers are in use.
LastSwitch(r) ==
  /\ RunnerGoto(r, "closed", "dead")
  /\ late' = (late \/ (runner[r].notifier /\ key > 0 /\ sess.state = "freed"))
  /\ UNCHANGED <<sess, key, call, task, fpc, refs>>

RunnerStep(r) ==
  \/ RunnerStarts(r) \/ UnshareFiles(r) \/ UnshareFilesFails(r)
  \/ \E s \in Stdio : InstallFile(r, s) \/ InstallFileFails(r, s)
  \/ BeginFpu(r) \/ InvalidParamCount(r) \/ CallGuest(r)
  \/ ExitFiles(r) \/ LastSwitch(r)

GuestStep(r) ==
  \/ GuestReturns(r) \/ GuestFaults(r)
  \/ HostCall(r) \/ HostReturns(r) \/ ProcExit(r)
  \/ StackClobbered(r)

-----------------------------------------------------------------------------
SignalArrives(r) ==
  /\ Active(r)
  /\ ~call[r].sigpending
  /\ call' = [call EXCEPT ![r].sigpending = TRUE]
  /\ UNCHANGED <<sess, key, task, fpc, runner, refs, late>>

RunStep(r) ==
  \/ RejectRequest(r) \/ BeginRun(r) \/ SignalArrives(r)
  \/ HandlerStep(r) \/ FinalizerStep(r) \/ RunnerStep(r) \/ GuestStep(r)

\* The session is closed and every thread has ended, or hangs for good.
Terminated ==
  /\ sess.state = "freed"
  /\ \A r \in Runs : /\ runner[r].pc \in {"none", "dead", "stuck"}
                     /\ fpc[r] \in {"none", "done", "stray"}
  /\ UNCHANGED vars

Next == LoadCode \/ Release \/ Terminated \/ \E r \in Runs : RunStep(r)

Spec == Init /\ [][Next]_vars

\* Every thread that can take a step takes one.  Of the guest it is only
\* assumed that it cannot run on pages that are not executable, and of a host
\* function that it does not sleep with SIGKILL pending.
Fairness ==
  \A r \in Runs : /\ WF_vars(HandlerStep(r))
                  /\ WF_vars(FinalizerStep(r))
                  /\ WF_vars(RunnerStep(r))
                  /\ WF_vars(sess.code_nx /\ GuestFaults(r))
                  /\ WF_vars(runner[r].killed /\ HostReturns(r))

FairSpec == Spec /\ Fairness

-----------------------------------------------------------------------------
(* Properties. *)

\* Every variable has its type; semaphores and use counts of task_structs never
\* go below zero.  (What key is, NotifierEnabled says.)
TypeOK ==
  /\ sess \in Session
  /\ key \in Int
  /\ call \in [Runs -> Call]
  /\ task \in [Runs -> Task]
  /\ fpc \in [Runs -> FinalizerPCs]
  /\ runner \in [Runs -> Runner]
  /\ refs \in [Runs -> [Stdio -> Int]]
  /\ late \in BOOLEAN

\* The threads of run r other than the handler that will still read or write
\* the task structure.
UsesFrame(r) ==
  \/ runner[r].pc \in {"created", "woken"}
  \/ InCoroutine(r)
  \/ fpc[r] \in {"wait", "check", "stop", "join", "up"}

\* struct code_runner_task lives on the handler's stack: while the runner or
\* the finalizer uses it the handler has not returned.  The one exception is
\* the finalizer of a run whose kthread_create failed.
FrameSafe ==
  \A r \in Runs :
    UsesFrame(r) => Active(r) \/ (task[r].finalizer_should_not_run /\ runner[r].pc = "none")

\* The finalizer's kthread_stop never arrives before the runner has started:
\* a runner whose creation succeeded always enters code_runner, so the files
\* it was given are always handed over and the handler never waits in vain.
RunnerNeverCancelled == \A r \in Runs : runner[r].exit # "eintr"

\* The runner's task_struct is still allocated whenever kthread_stop,
\* kill_pid or put_task_struct is about to be called on it, although a kthread
\* that ends is freed without anybody waiting for it.
TaskPinned ==
  \A r \in Runs :
    fpc[r] = "stop" \/ call[r].pc \in {"wake", "start", "kill", "collect"}
      => runner[r].pc # "none" /\ (runner[r].pc # "dead" \/ runner[r].usage > 0)

\* What the user is told is what happened: success exactly when the runner
\* ended with status 0, a value exactly when the guest returned it.
ResultTrue ==
  \A r \in Runs :
    /\ call[r].result \in {"ok0", "ok1", "fail"} => Ended(r)
    /\ call[r].result = "fail" => runner[r].exit \in {"fault", "clobbered", "exit1"}
    /\ call[r].result = "ok0" => runner[r].exit \in {"return", "exit0"} /\ task[r].ret = 0
    /\ call[r].result = "ok1" => runner[r].exit = "return" /\ task[r].ret = 1

\* The code pages lack their execute permission only while some run that took
\* it away has not come to its set_memory_x: no later run finds an engine it
\* cannot execute.
NxOwned ==
  sess.code_nx => \E r \in Runs : /\ call[r].made_nx
                                /\ call[r].pc \in {"wait", "kill", "collect", "restore"}

\* Until the runner of a run that is being terminated has ended, only the end
\* of another run that had made the pages non-executable gives the permission
\* back: between two signals the guest cannot slip through, and runs that
\* follow one another never undo each other's forced termination.
NxHeld ==
  [][\A r \in Runs :
       call[r].made_nx /\ ~Ended(r) /\ sess.code_nx /\ ~sess'.code_nx =>
         \E q \in Runs \ {r} :
           /\ ThreadOf[q] # ThreadOf[r]
           /\ call[q].made_nx /\ call[q].pc = "restore"]_vars

\* Every reference that fget_raw took is dropped once: never more often, and
\* when the run is over, with all three descriptors open, no reference is
\* left, whichever step failed (short of a damaged stack).
RunOver(r) == ~Active(r) /\ runner[r].pc \in {"none", "closed", "dead"}

RefsBalanced ==
  \A r \in Runs, s \in Stdio :
    /\ refs[r][s] >= 0
    /\ RunOver(r) /\ ~FputFaults(r, Stdio) /\ runner[r].exit # "clobbered"
         => refs[r][s] = 0

\* Preempt notifiers are enabled for as long as a run that has registered one
\* executes, and the handlers leave the count as they found it.  The notifier
\* inside the engine is never unregistered; that count is all that keeps its
\* callback from running on a freed engine, which happens only when somebody
\* else has notifiers enabled.
NotifierEnabled ==
  /\ key = OtherNotifiers +
            Cardinality({r \in Runs : call[r].pc \in {"start", "wait", "kill",
                                        "collect", "restore", "return"}})
  /\ \A r \in Runs : runner[r].notifier /\ ~Ended(r) => key > 0
  /\ late => OtherNotifiers > 0

\* A signal ends the run: the handler does not wait for ever for a guest that
\* does not return.
ForcedTermination ==
  \A r \in Runs : (call[r].pc = "wait" /\ call[r].sigpending) ~> call[r].pc = "done"

\* When the runner has ended, by itself or not, the handler returns.
EndNoticed == \A r \in Runs : Ended(r) ~> call[r].pc = "done"

\* When the handler has returned the caller's files are eventually closed.
FilesClosed ==
  \A r \in Runs :
    (call[r].pc = "done" /\ ~FputFaults(r, Stdio)) ~> \A s \in Stdio : refs[r][s] = 0

\* Who may be where: for each place of the handler, the places of the other two
\* threads and the semaphores.
Phase(r) ==
  LET c == call[r].pc
      f == fpc[r]
      t == task[r]
      k == runner[r]
      quiet == t.exec_start = 0 /\ t.finalizer_start = 0 /\ t.finalizer_end = 0
  IN /\ c \in {"idle", "finalizer"} =>
          f = "none" /\ k.pc = "none" /\ quiet /\ ~t.finalizer_should_not_run
     /\ c = "runner" =>
          f = "wait" /\ k.pc = "none" /\ quiet /\ ~t.finalizer_should_not_run
     /\ c = "bail" =>
          f \in {"wait", "check", "done"} /\ k.pc = "none" /\ t.finalizer_should_not_run
     /\ c = "wake" =>
          f = "wait" /\ k.pc = "created" /\ quiet /\ ~t.finalizer_should_not_run
     /\ c = "start" =>
          /\ f = "wait" /\ k.pc \notin {"none", "created"}
          /\ t.exec_start = (IF k.pc = "woken" THEN 0 ELSE 1)
          /\ t.finalizer_start = 0 /\ t.finalizer_end = 0
          /\ ~t.finalizer_should_not_run
     /\ c \in {"wait", "kill"} =>
          /\ k.pc \notin {"none", "created", "woken"}
          /\ t.exec_start = 0 /\ ~t.finalizer_should_not_run
          /\ \/ f = "wait" /\ t.finalizer_start = 1 /\ t.finalizer_end = 0
             \/ f \in {"check", "stop", "join"} /\ t.finalizer_start = 0 /\ t.finalizer_end = 0
             \/ f = "up" /\ Ended(r) /\ t.finalizer_start = 0 /\ t.finalizer_end = 0
             \/ f = "done" /\ Ended(r) /\ t.finalizer_start = 0 /\ t.finalizer_end = 1
     /\ c \in {"collect", "restore", "return"} =>
          f = "done" /\ Ended(r) /\ ~t.finalizer_should_not_run
     /\ c \in {"done", "oops"} =>
          \/ f \in {"none", "done"} /\ (k.pc = "none" \/ Ended(r))
          \/ f \in {"wait", "check", "stray"} /\ k.pc = "none"
               /\ t.finalizer_should_not_run
     /\ k.should_stop => f \in {"join", "up", "done"}
     /\ k.usage = (IF c \in {"wake", "start", "wait", "kill", "collect"} THEN 1 ELSE 0)

\* How a run ends, from the runner's exit to the handler's result: the status
\* that kthread_stop hands over, and the value the guest has left behind.
Outcome(r) ==
  LET t == task[r]
      k == runner[r]
  IN /\ ~Ended(r) => k.exit = "running" /\ t.ret = 0
     /\ Ended(r) => k.exit \notin {"running", "eintr"}
     /\ t.ret = 1 => k.exit = "return"
     /\ Ended(r) /\ fpc[r] \in {"up", "done"} => t.finalize_ret = ExitCode[k.exit]
     /\ call[r].result \in {"fail", "ok0", "ok1"} =>
          /\ Ended(r)
          /\ call[r].result = "fail" <=> ExitCode[k.exit] # 0
          /\ call[r].result = "ok1" <=> t.ret = 1

\* The three threads of every run stay in step, from the first semaphore to the
\* result: the inductive invariant from which the other properties of a run
\* follow.
Protocol == \A r \in Runs : Phase(r) /\ Outcome(r)

\* The assumption of vm.h: no two threads use the session's engine at once.
EngineExclusive ==
  \A q, r \in Runs : OnEngineStack(q) /\ OnEngineStack(r) => q = r

\* The claim of README.md: the floating point state is saved and restored, so
\* no runner ends inside the region that kernel_fpu_begin opened.
FpuRestored == \A r \in Runs : runner[r].pc = "dead" => ~runner[r].fpu
=============================================================================
