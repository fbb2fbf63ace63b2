----------------------------- MODULE RunEffects -----------------------------
(***************************************************************************)
(* What a run does to those around it, for any number of runs, threads and *)
(* failures.                                                               *)
(*                                                                         *)
(* To its caller: RunCode implements RunService.  A caller's view of a run *)
(* is the triple of RunCodeService; each step of RunCode leaves the view   *)
(* of every run alone, or takes one run through one of the four steps of   *)
(* the abstract specification.                                             *)
(*                                                                         *)
(* To the kernel and the other runs: Resources is inductive on top of Inv. *)
(* It keeps the account of the references on the caller's files, of the    *)
(* notifier count and of the execute permission of the code pages.         *)
(***************************************************************************)
EXTENDS RunCodeProofs, RunCodeService, FiniteSetTheorems

-----------------------------------------------------------------------------
(* The answer to the caller. *)

\* Between put_task_struct and the return the handler has a verdict at hand.
Collected ==
  \A r \in Runs : call[r].pc \in {"restore", "return"} => call[r].result \in {"fail", "ok0", "ok1"}

SameView(r) ==
  /\ GuestStatus(r)' = GuestStatus(r)
  /\ Verdict(r)' = Verdict(r)
  /\ Answered(r)' = Answered(r)

\* The four steps of RunService, for the view of one run.
RefuseView(r) ==
  /\ GuestStatus(r) = "before" /\ GuestStatus(r)' = "refused"
  /\ Verdict(r)' = Verdict(r)
  /\ Answered(r)' \in {"EFAULT", "EINVAL", "none"}

StartView(r) ==
  /\ GuestStatus(r) = "before" /\ GuestStatus(r)' = "guest"
  /\ Verdict(r)' = Verdict(r)
  /\ Answered(r)' = Answered(r)

EndView(r) ==
  /\ GuestStatus(r) = "guest" /\ GuestStatus(r)' = "over"
  /\ Verdict(r)' \in {"fail", "ok0", "ok1"}
  /\ Answered(r)' = Answered(r)

AnswerView(r) ==
  /\ GuestStatus(r) = "over" /\ GuestStatus(r)' = "over"
  /\ Verdict(r)' = Verdict(r)
  /\ Answered(r) = "none" /\ Answered(r)' \in {Verdict(r), "EFAULT"}

ViewStep(r) ==
  SameView(r) \/ RefuseView(r) \/ StartView(r) \/ EndView(r) \/ AnswerView(r)

-----------------------------------------------------------------------------
\* A step that neither starts nor ends the runner, and with which the handler
\* does not return, cannot be seen.
LEMMA Unseen ==
  ASSUME NEW r \in Runs,
         Ended(r)' <=> Ended(r), Waiting(r)' <=> Waiting(r),
         runner'[r].exit = runner[r].exit, task'[r].ret = task[r].ret,
         \/ call[r].pc \notin {"done", "oops"} /\ call'[r].pc \notin {"done", "oops"}
         \/ /\ call'[r].pc = call[r].pc /\ call'[r].result = call[r].result
            /\ runner'[r].pc = "none" <=> runner[r].pc = "none"
  PROVE  SameView(r)
BY DEF SameView, GuestStatus, Verdict, Answered

\* The steps of handle_wasm_run_code.
LEMMA HandlerView ==
  ASSUME TypeOK, NEW r \in Runs, Phase(r), Outcome(r), Collected,
         RejectRequest(r) \/ BeginRun(r) \/ SignalArrives(r) \/ HandlerStep(r)
  PROVE  ViewStep(r)
<1>1. CASE RejectRequest(r)
  <2>1. /\ call[r].pc = "idle" /\ call'[r].pc = "done"
        /\ call'[r].result \in {"EFAULT", "EINVAL"}
        /\ UNCHANGED <<task, runner>>
    BY <1>1 DEF RejectRequest, MayEnter, HandlerAt, TypeOK, Call
  <2>2. runner[r].pc = "none"
    BY <2>1 DEF Phase
  <2>3. RefuseView(r)
    BY <2>1, <2>2 DEF RefuseView, GuestStatus, Verdict, Answered, Ended, Waiting
  <2>4. QED
    BY <2>3 DEF ViewStep
<1>2. CASE StartFinalizerFails(r) \/ Bail(r)
  <2>1. call[r].pc \in {"finalizer", "bail"} /\ GiveUp(r)
    BY <1>2 DEF StartFinalizerFails, Bail, HandlerAt
  <2>2. /\ call'[r].pc \in {"done", "oops"}
        /\ call'[r].result \in {"none", "EINVAL"}
        /\ UNCHANGED <<task, runner>>
    BY <2>1 DEF GiveUp, TypeOK, Call
  <2>3. runner[r].pc = "none"
    BY <2>1 DEF Phase
  <2>4. RefuseView(r)
    BY <2>1, <2>2, <2>3 DEF RefuseView, GuestStatus, Verdict, Answered, Ended, Waiting
  <2>5. QED
    BY <2>4 DEF ViewStep
<1>3. CASE ReturnResult(r)
  <2>1. /\ call[r].pc = "return" /\ call'[r].pc = "done"
        /\ call'[r].result \in {call[r].result, "EFAULT"}
        /\ UNCHANGED <<task, runner>>
    BY <1>3 DEF ReturnResult, HandlerAt, TypeOK, Call
  <2>2. Ended(r) /\ call[r].result \in {"fail", "ok0", "ok1"} /\ task[r].ret \in {0, 1}
    BY <2>1 DEF Phase, Collected, TypeOK, Task
  <2>3. call[r].result = Verdict(r)
    BY <2>2 DEF Outcome, Verdict
  <2>4. Ended(r)'
    BY <2>1, <2>2 DEF Ended
  <2>5. AnswerView(r)
    BY <2>1, <2>2, <2>3, <2>4 DEF AnswerView, GuestStatus, Verdict, Answered
  <2>6. QED
    BY <2>5 DEF ViewStep
<1>4. CASE BeginRun(r)
  <2>0. /\ call[r].pc = "idle" /\ call' = [call EXCEPT ![r].pc = "finalizer"]
        /\ UNCHANGED runner
    BY <1>4, Zenon DEF BeginRun, MayEnter, HandlerAt
  <2>1. call'[r].pc = "finalizer"
    BY <2>0 DEF TypeOK, Call
  <2>2. PICK f, n : task' = [task EXCEPT ![r].param_count = n, ![r].file = f]
    BY <1>4, Zenon DEF BeginRun
  <2>3. task'[r].ret = task[r].ret
    BY <2>2 DEF TypeOK, Task
  <2>4. QED
    BY <2>0, <2>1, <2>3, Unseen DEF ViewStep, Ended, Waiting
<1>5. CASE SignalArrives(r)
  <2>1. /\ call'[r].pc = call[r].pc /\ call'[r].result = call[r].result
        /\ UNCHANGED <<task, runner>>
    BY <1>5 DEF SignalArrives, TypeOK, Call
  <2>2. QED
    BY <2>1, Unseen DEF ViewStep, Ended, Waiting
<1>6. CASE CreateRunner(r) \/ WakeRunner(r)
  <2>1. /\ call[r].pc \in {"runner", "wake"} /\ call'[r].pc \in {"wake", "start"}
        /\ runner'[r].pc \in {"created", "woken"}
        /\ runner'[r].exit = runner[r].exit
        /\ UNCHANGED task
    BY <1>6 DEF CreateRunner, WakeRunner, HandlerGoto, HandlerAt, TypeOK, Call, Runner
  <2>2. runner[r].pc \in {"none", "created"}
    BY <2>1 DEF Phase
  <2>3. QED
    BY <2>1, <2>2, Unseen DEF ViewStep, Ended, Waiting
<1>7. CASE KillRunner(r) \/ Collect(r)
  <2>1. /\ call[r].pc \in {"kill", "collect"} /\ call'[r].pc \in {"wait", "restore"}
        /\ UNCHANGED task
    BY <1>7 DEF KillRunner, Collect, HandlerGoto, HandlerAt, TypeOK, Call
  <2>2. runner'[r].pc = runner[r].pc /\ runner'[r].exit = runner[r].exit
    BY <1>7 DEF KillRunner, Collect, TypeOK, Runner
  <2>3. QED
    BY <2>1, <2>2, Unseen DEF ViewStep, Ended, Waiting
<1>8. CASE \/ StartFinalizer(r) \/ CreateRunnerFails(r) \/ AwaitStart(r)
           \/ AwaitEnd(r) \/ Interrupted(r) \/ RestoreCode(r)
  <2>1. /\ call[r].pc \in {"finalizer", "runner", "start", "wait", "restore"}
        /\ call'[r].pc \in {"runner", "bail", "wait", "collect", "kill", "return"}
        /\ UNCHANGED runner
    BY <1>8 DEF StartFinalizer, CreateRunnerFails, AwaitStart, AwaitEnd, Interrupted,
                RestoreCode, HandlerGoto, HandlerAt, TypeOK, Call
  <2>2. task'[r].ret = task[r].ret
    BY <1>8 DEF StartFinalizer, CreateRunnerFails, AwaitStart, AwaitEnd, Interrupted,
                RestoreCode, TypeOK, Task
  <2>3. QED
    BY <2>1, <2>2, Unseen DEF ViewStep, Ended, Waiting
<1>9. QED
  BY <1>1, <1>2, <1>3, <1>4, <1>5, <1>6, <1>7, <1>8 DEF HandlerStep

\* The steps of task_finalizer.
LEMMA FinalizerView ==
  ASSUME TypeOK, NEW r \in Runs, FinalizerStep(r)
  PROVE  ViewStep(r)
<1>1. UNCHANGED call
  BY DEF FinalizerStep, FinalizerDown, FinalizerCheck, FinalizerStale, KthreadStop,
         KthreadJoin, FinalizerUp
<1>2. runner'[r].pc = runner[r].pc /\ runner'[r].exit = runner[r].exit
  BY DEF FinalizerStep, FinalizerDown, FinalizerCheck, FinalizerStale, KthreadStop,
         KthreadJoin, FinalizerUp, TypeOK, Runner
<1>3. task'[r].ret = task[r].ret
  BY DEF FinalizerStep, FinalizerDown, FinalizerCheck, FinalizerStale, KthreadStop,
         KthreadJoin, FinalizerUp, TypeOK, Task
<1>4. QED
  BY <1>1, <1>2, <1>3, Unseen DEF ViewStep, Ended, Waiting

\* The end of a runner, wherever it is in the coroutine.
LEMMA EndSeen ==
  ASSUME TypeOK, NEW r \in Runs, NEW how, InCoroutine(r), RunnerExit(r, how),
         UNCHANGED call
  PROVE  ViewStep(r)
<1>1. runner'[r].pc = "exited"
  BY DEF RunnerExit, TypeOK, Runner
<1>2. ~Ended(r) /\ ~Waiting(r) /\ Ended(r)'
  BY <1>1 DEF InCoroutine, Ended, Waiting
<1>3. EndView(r)
  BY <1>2 DEF EndView, GuestStatus, Verdict, Answered
<1>4. QED
  BY <1>3 DEF ViewStep

\* The steps of code_runner and of the guest.
LEMMA RunnerView ==
  ASSUME TypeOK, NEW r \in Runs, Phase(r), Outcome(r), RunnerStep(r) \/ GuestStep(r)
  PROVE  ViewStep(r)
<1>1. UNCHANGED call
  BY Zenon DEF RunnerStep, RunnerStarts, UnshareFiles, UnshareFilesFails, InstallFile,
         InstallFileFails, RunnerGivesUp, BeginFpu, InvalidParamCount, CallGuest,
         ExitFiles, LastSwitch, GuestStep, GuestReturns, GuestFaults, HostCall,
         HostReturns, ProcExit, StackClobbered
<1>2. CASE RunnerStarts(r)
  <2>1. runner[r].pc = "woken" /\ call[r].pc \in HandlerPCs
    BY <1>2 DEF RunnerStarts, RunnerAt, TypeOK, Call
  <2>2. call[r].pc = "start" /\ ~runner[r].should_stop
    BY <2>1 DEF Phase, Ended, HandlerPCs
  <2>3. runner'[r].pc = "unshare"
    BY <1>2, <2>2 DEF RunnerStarts, TypeOK, Runner
  <2>4. StartView(r)
    BY <1>1, <2>1, <2>2, <2>3 DEF StartView, GuestStatus, Verdict, Answered, Ended, Waiting
  <2>5. QED
    BY <2>4 DEF ViewStep
<1>3. CASE \/ UnshareFilesFails(r) \/ (\E s \in Stdio : InstallFileFails(r, s))
           \/ InvalidParamCount(r) \/ GuestReturns(r) \/ GuestFaults(r) \/ ProcExit(r)
           \/ StackClobbered(r) /\ InCoroutine(r)
  <2>1. InCoroutine(r)
    BY <1>3 DEF UnshareFilesFails, InstallFileFails, InvalidParamCount, GuestReturns,
                GuestFaults, ProcExit, RunnerAt, InCoroutine, Stdio
  <2>2. PICK how : RunnerExit(r, how)
    BY <1>3 DEF UnshareFilesFails, InstallFileFails, RunnerGivesUp, InvalidParamCount,
                GuestReturns, GuestFaults, ProcExit, StackClobbered, Ended, InCoroutine
  <2>3. QED
    BY <1>1, <2>1, <2>2, EndSeen
<1>4. CASE \/ UnshareFiles(r) \/ (\E s \in Stdio : InstallFile(r, s)) \/ BeginFpu(r)
           \/ CallGuest(r) \/ HostCall(r) \/ HostReturns(r)
  <2>1. InCoroutine(r) /\ InCoroutine(r)'
    BY <1>4 DEF UnshareFiles, InstallFile, BeginFpu, CallGuest, HostCall, HostReturns,
                RunnerGoto, RunnerAt, InCoroutine, InstallNext, Stdio, TypeOK, Runner
  <2>2. UNCHANGED task
    BY <1>4, Zenon DEF UnshareFiles, InstallFile, BeginFpu, CallGuest, HostCall, HostReturns
  <2>3. runner'[r].exit = runner[r].exit
    <3>1. CASE \E s \in Stdio : InstallFile(r, s)
      <4>1. PICK s \in Stdio : runner' = [runner EXCEPT ![r].pc = InstallNext[s],
                                                      ![r].fdt = runner[r].fdt \cup {s}]
        BY <3>1, Zenon DEF InstallFile
      <4>2. QED
        BY <4>1 DEF TypeOK, Runner
    <3>2. CASE UnshareFiles(r) \/ BeginFpu(r) \/ CallGuest(r) \/ HostCall(r) \/ HostReturns(r)
      BY <3>2 DEF UnshareFiles, BeginFpu, CallGuest, HostCall, HostReturns, RunnerGoto,
                  TypeOK, Runner
    <3>3. QED
      BY <1>4, <3>1, <3>2
  <2>4. QED
    BY <1>1, <2>1, <2>2, <2>3, Unseen DEF ViewStep, InCoroutine, Ended, Waiting
<1>5. CASE ExitFiles(r) \/ LastSwitch(r) \/ (StackClobbered(r) /\ ~InCoroutine(r))
  <2>1. Ended(r) /\ Ended(r)'
    BY <1>5 DEF ExitFiles, LastSwitch, StackClobbered, RunnerGoto, RunnerAt, Ended,
                TypeOK, Runner
  <2>2. runner'[r].exit = runner[r].exit /\ UNCHANGED task
    BY <1>5 DEF ExitFiles, LastSwitch, StackClobbered, RunnerGoto, TypeOK, Runner
  <2>3. QED
    BY <1>1, <2>1, <2>2, Unseen DEF ViewStep, Ended, Waiting
<1>6. QED
  BY <1>2, <1>3, <1>4, <1>5, SMTT(30) DEF RunnerStep, GuestStep

-----------------------------------------------------------------------------
\* Collect writes a verdict and RestoreCode keeps it.
LEMMA CollectedStep ==
  ASSUME TypeOK, Collected, NEW r \in Runs, RunStep(r)
  PROVE  Collected'
<1>1. \A q \in Runs \ {r} : call'[q] = call[q]
  BY OtherRuns
<1>2. call'[r].pc \in {"restore", "return"} => call'[r].result \in {"fail", "ok0", "ok1"}
  <2>1. CASE UNCHANGED call
    BY <2>1 DEF Collected
  <2>2. CASE SignalArrives(r) \/ RestoreCode(r)
    BY <2>2 DEF SignalArrives, RestoreCode, HandlerGoto, HandlerAt, Collected, TypeOK, Call
  <2>3. CASE Collect(r)
    BY <2>3 DEF Collect, TypeOK, Call
  <2>4. CASE \/ RejectRequest(r) \/ BeginRun(r)
             \/ HandlerStep(r) /\ ~RestoreCode(r) /\ ~Collect(r)
    <3>1. call'[r].pc \notin {"restore", "return"}
      BY <2>4 DEF RejectRequest, BeginRun, HandlerStep, StartFinalizer, StartFinalizerFails,
                  CreateRunner, CreateRunnerFails, Bail, GiveUp, WakeRunner, AwaitStart,
                  AwaitEnd, Interrupted, KillRunner, ReturnResult, HandlerGoto, TypeOK, Call
    <3>2. QED
      BY <3>1, SMTT(30)
  <2>5. CASE FinalizerStep(r) \/ RunnerStep(r) \/ GuestStep(r)
    <3>1. UNCHANGED call
      BY <2>5, Zenon DEF FinalizerStep, FinalizerDown, FinalizerCheck, FinalizerStale,
                  KthreadStop, KthreadJoin, FinalizerUp, RunnerStep, RunnerStarts,
                  UnshareFiles, UnshareFilesFails, InstallFile, InstallFileFails,
                  RunnerGivesUp, BeginFpu, InvalidParamCount, CallGuest, ExitFiles,
                  LastSwitch, GuestStep, GuestReturns, GuestFaults, HostCall,
                  HostReturns, ProcExit, StackClobbered
    <3>2. QED
      BY <2>1, <3>1, SMTT(30)
  <2>6. QED
    BY <2>2, <2>3, <2>4, <2>5 DEF RunStep
<1>3. QED
  BY <1>1, <1>2 DEF Collected

\* A step seen in the view of one run is a step of RunService.
LEMMA ViewStepServes ==
  ASSUME NEW r \in Runs, ViewStep(r), \A q \in Runs \ {r} : SameView(q)
  PROVE  [Service!Next]_(Service!vars)
<1> DEFINE S == [q \in Runs |-> GuestStatus(q)]
           V == [q \in Runs |-> Verdict(q)]
           A == [q \in Runs |-> Answered(q)]
<1>1. \A q \in Runs \ {r} : S'[q] = S[q] /\ V'[q] = V[q] /\ A'[q] = A[q]
  BY DEF SameView
<1>2. CASE SameView(r)
  <2>1. S' = S /\ V' = V /\ A' = A
    BY <1>1, <1>2 DEF SameView
  <2>2. QED
    BY <2>1 DEF Service!vars
<1>3. CASE RefuseView(r)
  <2>1. /\ S[r] = "before" /\ S' = [S EXCEPT ![r] = "refused"] /\ V' = V
        /\ A' = [A EXCEPT ![r] = Answered(r)']
    BY <1>1, <1>3, Zenon DEF RefuseView
  <2>2. Service!Refuse(r)
    BY <1>3, <2>1, Zenon DEF Service!Refuse, RefuseView
  <2>3. QED
    BY <2>2 DEF Service!Next
<1>4. CASE StartView(r)
  <2>1. S[r] = "before" /\ S' = [S EXCEPT ![r] = "guest"] /\ V' = V /\ A' = A
    BY <1>1, <1>4, Zenon DEF StartView
  <2>2. Service!Start(r)
    BY <2>1 DEF Service!Start
  <2>3. QED
    BY <2>2 DEF Service!Next
<1>5. CASE EndView(r)
  <2>1. /\ S[r] = "guest" /\ S' = [S EXCEPT ![r] = "over"] /\ A' = A
        /\ V' = [V EXCEPT ![r] = Verdict(r)']
    BY <1>1, <1>5, Zenon DEF EndView
  <2>2. Service!End(r)
    BY <1>5, <2>1, Zenon DEF Service!End, Service!Verdicts, EndView
  <2>3. QED
    BY <2>2 DEF Service!Next
<1>6. CASE AnswerView(r)
  <2>1. /\ S[r] = "over" /\ A[r] = "none" /\ S' = S /\ V' = V
        /\ A' = [A EXCEPT ![r] = Answered(r)'] /\ Answered(r)' \in {V[r], "EFAULT"}
    BY <1>1, <1>6, Zenon DEF AnswerView
  <2>2. Service!Answer(r)
    BY <2>1, Zenon DEF Service!Answer
  <2>3. QED
    BY <2>2 DEF Service!Next
<1>7. QED
  BY <1>2, <1>3, <1>4, <1>5, <1>6 DEF ViewStep

-----------------------------------------------------------------------------
\* For the callers of any number of runs, handle_wasm_run_code with its three
\* threads behaves like RunService: one answer per run, after the end of its
\* guest, with the guest's own verdict.
THEOREM RunCodeServesRuns == Spec => ServesRuns
<1>1. Init => Collected /\ Service!Init
  BY DEF Init, Collected, Service!Init, GuestStatus, Verdict, Answered, Ended, Waiting
<1>2. ASSUME Inv, Collected, [Next]_vars
      PROVE  Collected' /\ [Service!Next]_(Service!vars)
  <2>1. TypeOK /\ Protocol
    BY <1>2 DEF Inv
  <2>2. ASSUME NEW r \in Runs, RunStep(r)
        PROVE  Collected' /\ [Service!Next]_(Service!vars)
    <3>1. Phase(r) /\ Outcome(r)
      BY <2>1 DEF Protocol
    <3>2. ViewStep(r)
      BY <1>2, <2>1, <2>2, <3>1, HandlerView, FinalizerView, RunnerView DEF RunStep
    <3>3. ASSUME NEW q \in Runs \ {r}
          PROVE  SameView(q)
      <4>1. call'[q] = call[q] /\ task'[q] = task[q] /\ runner'[q] = runner[q]
        BY <2>1, <2>2, OtherRuns
      <4>2. QED
        BY <4>1 DEF SameView, GuestStatus, Verdict, Answered, Ended, Waiting
    <3>4. QED
      BY <1>2, <2>1, <2>2, <3>2, <3>3, CollectedStep, ViewStepServes
  <2>3. CASE LoadCode \/ Release \/ UNCHANGED vars
    <3>1. UNCHANGED <<call, task, runner>>
      BY <2>3 DEF LoadCode, Release, vars
    <3>2. \A r \in Runs : SameView(r)
      BY <3>1 DEF SameView, GuestStatus, Verdict, Answered, Ended, Waiting
    <3>3. UNCHANGED Service!vars
      BY <3>2 DEF Service!vars, SameView
    <3>4. Collected'
      BY <1>2, <3>1 DEF Collected
    <3>5. QED
      BY <3>3, <3>4
  <2>4. QED
    BY <1>2, <2>2, <2>3 DEF Next, Terminated
<1>3. QED
  BY <1>1, <1>2, Invariance, PTL DEF Spec, ServesRuns, Service!Spec

-----------------------------------------------------------------------------
(* What a run takes from the kernel and from the other runs of the session: *)
(* the thread it runs in, the execute permission, the notifier count.      *)

\* A thread is in one run at a time.
Turns ==
  \A q, r \in Runs : q # r /\ ThreadOf[q] = ThreadOf[r] => ~Active(q) \/ ~Active(r)

\* Nobody is inside the ioctl of a descriptor that has been closed.
ClosedQuiet == sess.state = "freed" => \A r \in Runs : ~Active(r)

\* Only the handler of a run that has a runner has taken the execute permission.
NxMarked(r) ==
  call[r].made_nx => /\ call[r].pc \in {"wait", "kill", "collect", "restore", "return", "done"}
                     /\ runner[r].pc # "none"

\* A notifier is registered just before the guest is called.
NotifierPlaced(r) ==
  runner[r].notifier => runner[r].pc \in {"call", "wasm", "host"} \/ Ended(r)

\* A run becomes active only by entering, from a descriptor that is open.
LEMMA ActiveStep ==
  ASSUME TypeOK, NEW r \in Runs, RunStep(r)
  PROVE  Active(r)' => Active(r) \/ MayEnter(r)
<1>1. CASE RejectRequest(r) \/ BeginRun(r) \/ SignalArrives(r)
  BY <1>1 DEF RejectRequest, BeginRun, SignalArrives
<1>2. CASE HandlerStep(r)
  BY <1>2 DEF HandlerStep, StartFinalizer, StartFinalizerFails, CreateRunner,
              CreateRunnerFails, Bail, WakeRunner, AwaitStart, AwaitEnd,
              Interrupted, KillRunner, Collect, RestoreCode, ReturnResult,
              HandlerGoto, HandlerAt, Active
<1>3. CASE FinalizerStep(r)
  BY <1>3 DEF FinalizerStep, FinalizerDown, FinalizerCheck, FinalizerStale,
              KthreadStop, KthreadJoin, FinalizerUp, Active
<1>4. CASE RunnerStep(r)
  BY <1>4, Zenon DEF RunnerStep, RunnerStarts, UnshareFiles, UnshareFilesFails, InstallFile,
              InstallFileFails, RunnerGivesUp, BeginFpu, InvalidParamCount,
              CallGuest, ExitFiles, LastSwitch, Active
<1>5. CASE GuestStep(r)
  BY <1>5 DEF GuestStep, GuestReturns, GuestFaults, HostCall, HostReturns, ProcExit,
              StackClobbered, Active
<1>6. QED
  BY <1>1, <1>2, <1>3, <1>4, <1>5 DEF RunStep

\* A step of a run changes nothing of the session but the execute permission.
LEMMA SessionStep ==
  ASSUME TypeOK, NEW r \in Runs, RunStep(r)
  PROVE  /\ sess'.state = sess.state
         /\ sess.code_nx /\ ~sess'.code_nx => call[r].made_nx /\ call[r].pc = "restore"
<1>1. CASE RejectRequest(r) \/ BeginRun(r) \/ SignalArrives(r)
  BY <1>1 DEF RejectRequest, BeginRun, SignalArrives
<1>2. CASE Interrupted(r)
  BY <1>2 DEF Interrupted, TypeOK, Session
<1>3. CASE RestoreCode(r)
  BY <1>3 DEF RestoreCode, HandlerGoto, HandlerAt, TypeOK, Session, Call
<1>4. CASE HandlerStep(r) /\ ~Interrupted(r) /\ ~RestoreCode(r)
  BY <1>4 DEF HandlerStep, StartFinalizer, StartFinalizerFails, CreateRunner,
              CreateRunnerFails, Bail, GiveUp, WakeRunner, AwaitStart, AwaitEnd,
              KillRunner, Collect, ReturnResult
<1>5. CASE FinalizerStep(r)
  BY <1>5 DEF FinalizerStep, FinalizerDown, FinalizerCheck, FinalizerStale,
              KthreadStop, KthreadJoin, FinalizerUp
<1>6. CASE RunnerStep(r)
  BY <1>6, Zenon DEF RunnerStep, RunnerStarts, UnshareFiles, UnshareFilesFails, InstallFile,
              InstallFileFails, RunnerGivesUp, BeginFpu, InvalidParamCount,
              CallGuest, ExitFiles, LastSwitch
<1>7. CASE GuestStep(r)
  BY <1>7 DEF GuestStep, GuestReturns, GuestFaults, HostCall, HostReturns, ProcExit,
              StackClobbered
<1>8. QED
  BY <1>1, <1>2, <1>3, <1>4, <1>5, <1>6, <1>7 DEF RunStep

\* Runs of one thread follow one another, and none begins after the close.
LEMMA TurnsStep ==
  ASSUME TypeOK, Turns, ClosedQuiet, NEW r \in Runs, RunStep(r)
  PROVE  Turns' /\ ClosedQuiet'
<1>1. Active(r)' => Active(r) \/ MayEnter(r)
  BY ActiveStep
<1>2. \A q \in Runs \ {r} : Active(q)' <=> Active(q)
  BY OtherRuns DEF Active
<1>3. MayEnter(r) => \A q \in Runs : ThreadOf[q] = ThreadOf[r] => ~Active(q)
  BY DEF MayEnter, Active
<1>4. MayEnter(r) => sess.state # "freed"
  BY DEF MayEnter
<1>5. sess'.state = sess.state
  BY SessionStep
<1>6. ClosedQuiet'
  BY <1>1, <1>2, <1>4, <1>5 DEF ClosedQuiet
<1>7. ASSUME NEW p \in Runs, NEW q \in Runs, p # q, ThreadOf[p] = ThreadOf[q]
      PROVE  ~Active(p)' \/ ~Active(q)'
  BY <1>1, <1>2, <1>3, <1>7 DEF Turns
<1>8. QED
  BY <1>6, <1>7 DEF Turns

\* The places of a runner before and after each step of its handler and its
\* finalizer, and the notifier's registration.
LEMMA RunnerKept ==
  ASSUME TypeOK, NEW r \in Runs,
         \/ RejectRequest(r) \/ BeginRun(r) \/ SignalArrives(r)
         \/ HandlerStep(r) /\ ~CreateRunner(r) /\ ~WakeRunner(r)
         \/ FinalizerStep(r)
  PROVE  runner'[r].pc = runner[r].pc /\ runner'[r].notifier = runner[r].notifier
<1>1. CASE RejectRequest(r) \/ BeginRun(r) \/ SignalArrives(r)
  BY <1>1 DEF RejectRequest, BeginRun, SignalArrives
<1>2. CASE KillRunner(r) \/ Collect(r) \/ KthreadStop(r)
  BY <1>2, SMTT(30) DEF KillRunner, Collect, KthreadStop, TypeOK, Runner
<1>3. CASE /\ HandlerStep(r) /\ ~CreateRunner(r) /\ ~WakeRunner(r)
           /\ ~KillRunner(r) /\ ~Collect(r)
  BY <1>3 DEF HandlerStep, StartFinalizer, StartFinalizerFails, CreateRunnerFails,
              Bail, GiveUp, AwaitStart, AwaitEnd, Interrupted, RestoreCode, ReturnResult
<1>4. CASE FinalizerStep(r) /\ ~KthreadStop(r)
  BY <1>4 DEF FinalizerStep, FinalizerDown, FinalizerCheck, FinalizerStale,
              KthreadJoin, FinalizerUp
<1>5. QED
  BY <1>1, <1>2, <1>3, <1>4

\* A runner that exists never becomes one that does not.
LEMMA RunnerStays ==
  ASSUME TypeOK, NEW r \in Runs, RunnerStep(r) \/ GuestStep(r)
  PROVE  runner[r].pc # "none" /\ runner'[r].pc # "none"
<1>1. CASE RunnerStarts(r) \/ UnshareFiles(r) \/ UnshareFilesFails(r)
  BY <1>1 DEF RunnerStarts, UnshareFiles, UnshareFilesFails, RunnerGivesUp, RunnerExit,
              RunnerAt, RunnerGoto, TypeOK, Runner
<1>2. ASSUME NEW s \in Stdio, InstallFile(r, s) \/ InstallFileFails(r, s)
      PROVE  runner[r].pc # "none" /\ runner'[r].pc # "none"
  BY <1>2 DEF InstallFile, InstallFileFails, RunnerGivesUp, RunnerExit, RunnerAt,
              InstallNext, Stdio, TypeOK, Runner
<1>3. CASE \/ BeginFpu(r) \/ InvalidParamCount(r) \/ CallGuest(r)
           \/ ExitFiles(r) \/ LastSwitch(r)
  BY <1>3 DEF BeginFpu, InvalidParamCount, CallGuest, ExitFiles, LastSwitch, RunnerExit,
              RunnerAt, RunnerGoto, TypeOK, Runner
<1>4. CASE GuestStep(r)
  BY <1>4 DEF GuestStep, GuestReturns, GuestFaults, HostCall, HostReturns, ProcExit,
              StackClobbered, OnEngineStack, InCoroutine, RunnerExit, RunnerAt,
              RunnerGoto, TypeOK, Runner
<1>5. QED
  BY <1>1, <1>2, <1>3, <1>4 DEF RunnerStep

\* Interrupted sets made_nx, after the runner has been created.
LEMMA NxMarkedStep ==
  ASSUME TypeOK, NEW r \in Runs, Phase(r), NxMarked(r), RunStep(r)
  PROVE  NxMarked(r)'
<1>1. CASE RejectRequest(r) \/ BeginRun(r)
  BY <1>1 DEF RejectRequest, BeginRun, MayEnter, HandlerAt, NxMarked, TypeOK, Call
<1>2. CASE SignalArrives(r)
  BY <1>2 DEF SignalArrives, NxMarked, TypeOK, Call
<1>3. CASE \/ StartFinalizer(r) \/ StartFinalizerFails(r) \/ CreateRunner(r)
           \/ CreateRunnerFails(r) \/ Bail(r) \/ WakeRunner(r) \/ AwaitStart(r)
  <2>1. call[r].pc \notin {"wait", "kill", "collect", "restore", "return", "done"}
    BY <1>3 DEF StartFinalizer, StartFinalizerFails, CreateRunner, CreateRunnerFails,
                Bail, WakeRunner, AwaitStart, HandlerGoto, HandlerAt
  <2>2. call'[r].made_nx = call[r].made_nx
    BY <1>3 DEF StartFinalizer, StartFinalizerFails, CreateRunner, CreateRunnerFails,
                Bail, GiveUp, WakeRunner, AwaitStart, HandlerGoto, TypeOK, Call
  <2>3. QED
    BY <2>1, <2>2 DEF NxMarked
<1>4. CASE AwaitEnd(r) \/ KillRunner(r) \/ Collect(r) \/ RestoreCode(r) \/ ReturnResult(r)
  <2>1. /\ call'[r].pc \in {"wait", "collect", "restore", "return", "done"}
        /\ call'[r].made_nx = call[r].made_nx
    BY <1>4 DEF AwaitEnd, KillRunner, Collect, RestoreCode, ReturnResult, HandlerGoto,
                TypeOK, Call
  <2>2. runner'[r].pc = runner[r].pc
    BY <1>4 DEF AwaitEnd, KillRunner, Collect, RestoreCode, ReturnResult, TypeOK, Runner
  <2>3. QED
    BY <2>1, <2>2 DEF NxMarked
<1>5. CASE Interrupted(r)
  <2>1. call'[r].pc = "kill" /\ call[r].pc = "wait" /\ runner' = runner
    BY <1>5 DEF Interrupted, HandlerAt, TypeOK, Call
  <2>2. QED
    BY <2>1 DEF NxMarked, Phase
<1>6. CASE FinalizerStep(r)
  <2>1. call' = call
    BY <1>6 DEF FinalizerStep, FinalizerDown, FinalizerCheck, FinalizerStale,
                KthreadStop, KthreadJoin, FinalizerUp
  <2>2. QED
    BY <1>6, <2>1, RunnerKept DEF NxMarked
<1>7. CASE RunnerStep(r)
  <2>1. call' = call
    BY <1>7, Zenon DEF RunnerStep, RunnerStarts, UnshareFiles, UnshareFilesFails, InstallFile,
                InstallFileFails, RunnerGivesUp, BeginFpu, InvalidParamCount,
                CallGuest, ExitFiles, LastSwitch
  <2>2. QED
    BY <1>7, <2>1, RunnerStays DEF NxMarked
<1>8. CASE GuestStep(r)
  <2>1. call' = call
    BY <1>8 DEF GuestStep, GuestReturns, GuestFaults, HostCall, HostReturns, ProcExit,
                StackClobbered
  <2>2. QED
    BY <1>8, <2>1, RunnerStays DEF NxMarked
<1>9. QED
  BY <1>1, <1>2, <1>3, <1>4, <1>5, <1>6, <1>7, <1>8, SMTT(30) DEF RunStep, HandlerStep

\* BeginFpu registers the notifier; nothing is before it.
LEMMA NotifierPlacedStep ==
  ASSUME TypeOK, NEW r \in Runs, Phase(r), NotifierPlaced(r), RunStep(r)
  PROVE  NotifierPlaced(r)'
<1>1. CASE \/ RejectRequest(r) \/ BeginRun(r) \/ SignalArrives(r)
           \/ HandlerStep(r) /\ ~CreateRunner(r) /\ ~WakeRunner(r)
           \/ FinalizerStep(r)
  <2>1. runner'[r].pc = runner[r].pc /\ runner'[r].notifier = runner[r].notifier
    BY <1>1, RunnerKept
  <2>2. QED
    BY <2>1 DEF NotifierPlaced, Ended
<1>2. CASE CreateRunner(r) \/ WakeRunner(r)
  <2>1. runner[r].pc \in {"none", "created"}
    BY <1>2 DEF CreateRunner, WakeRunner, HandlerGoto, HandlerAt, Phase
  <2>2. runner'[r].notifier = runner[r].notifier
    BY <1>2 DEF CreateRunner, WakeRunner, TypeOK, Runner
  <2>3. QED
    BY <2>1, <2>2 DEF NotifierPlaced, Ended
<1>3. CASE RunnerStarts(r) \/ UnshareFiles(r) \/ UnshareFilesFails(r)
  <2>1. runner[r].pc \in {"woken", "unshare"} /\ runner'[r].notifier = runner[r].notifier
    BY <1>3 DEF RunnerStarts, UnshareFiles, UnshareFilesFails, RunnerGivesUp, RunnerExit,
                RunnerAt, RunnerGoto, TypeOK, Runner
  <2>2. QED
    BY <2>1 DEF NotifierPlaced, Ended
<1>4. ASSUME NEW s \in Stdio, InstallFile(r, s) \/ InstallFileFails(r, s)
      PROVE  NotifierPlaced(r)'
  <2>1. runner[r].pc \in Stdio /\ runner'[r].notifier = runner[r].notifier
    BY <1>4 DEF InstallFile, InstallFileFails, RunnerGivesUp, RunnerExit, RunnerAt,
                TypeOK, Runner
  <2>2. QED
    BY <2>1 DEF NotifierPlaced, Ended, Stdio
<1>5. CASE \/ BeginFpu(r) \/ InvalidParamCount(r) \/ CallGuest(r)
           \/ ExitFiles(r) \/ LastSwitch(r)
  BY <1>5 DEF BeginFpu, InvalidParamCount, CallGuest, ExitFiles, LastSwitch, RunnerExit,
              RunnerAt, RunnerGoto, TypeOK, Runner, NotifierPlaced, Ended
<1>6. CASE GuestStep(r)
  BY <1>6 DEF GuestStep, GuestReturns, GuestFaults, HostCall, HostReturns, ProcExit,
              StackClobbered, RunnerExit, RunnerAt, RunnerGoto, TypeOK, Runner,
              NotifierPlaced, Ended
<1>7. QED
  BY <1>1, <1>2, <1>3, <1>4, <1>5, <1>6 DEF RunStep, RunnerStep

\* The runs that have enabled preempt notifiers: finitely many, of however many.
Enabling ==
  {r \in Runs : call[r].pc \in {"start", "wait", "kill", "collect", "restore", "return"}}

KeyExact ==
  /\ IsFiniteSet(Enabling)
  /\ key = OtherNotifiers + Cardinality(Enabling)
  /\ late => OtherNotifiers > 0

\* A step that moves no handler into or out of the counted places.
LEMMA KeyKept ==
  ASSUME KeyExact, NEW r \in Runs, key' = key, late' => OtherNotifiers > 0,
         \A q \in Runs \ {r} : call'[q] = call[q],
         r \in Enabling' <=> r \in Enabling
  PROVE  KeyExact'
<1>1. Enabling' = Enabling
  BY DEF Enabling
<1>2. QED
  BY <1>1 DEF KeyExact

\* preempt_notifier_inc and _dec come in pairs.  A callback on a freed engine
\* finds no run that has enabled notifiers.
LEMMA KeyStep ==
  ASSUME TypeOK, KeyExact, ClosedQuiet, NEW r \in Runs, RunStep(r)
  PROVE  KeyExact'
<1>1. \A q \in Runs \ {r} : call'[q] = call[q]
  BY OtherRuns
<1>2. CASE WakeRunner(r)
  <2>1. call[r].pc = "wake" /\ call'[r].pc = "start" /\ key' = key + 1 /\ late' = late
    BY <1>2 DEF WakeRunner, HandlerGoto, HandlerAt, TypeOK, Call
  <2>2. r \notin Enabling /\ Enabling' = Enabling \cup {r}
    BY <1>1, <2>1 DEF Enabling
  <2>3. IsFiniteSet(Enabling') /\ Cardinality(Enabling') = Cardinality(Enabling) + 1
    BY <2>2, FS_AddElement DEF KeyExact
  <2>4. Cardinality(Enabling) \in Nat /\ OtherNotifiers \in Nat
    BY FS_CardinalityType, RunCodeAssumption DEF KeyExact
  <2>5. QED
    BY <2>1, <2>3, <2>4 DEF KeyExact
<1>3. CASE ReturnResult(r)
  <2>1. call[r].pc = "return" /\ call'[r].pc = "done" /\ key' = key - 1 /\ late' = late
    BY <1>3 DEF ReturnResult, HandlerAt, TypeOK, Call
  <2>2. r \in Enabling /\ Enabling' = Enabling \ {r}
    BY <1>1, <2>1 DEF Enabling
  <2>3. IsFiniteSet(Enabling') /\ Cardinality(Enabling') = Cardinality(Enabling) - 1
    BY <2>2, FS_RemoveElement DEF KeyExact
  <2>4. Cardinality(Enabling) \in Nat /\ OtherNotifiers \in Nat
    BY FS_CardinalityType, RunCodeAssumption DEF KeyExact
  <2>5. QED
    BY <2>1, <2>3, <2>4 DEF KeyExact
<1>4. CASE LastSwitch(r)
  <2>1. key' = key /\ call' = call
    BY <1>4 DEF LastSwitch
  <2>2. late' => late \/ (key > 0 /\ sess.state = "freed")
    BY <1>4 DEF LastSwitch, TypeOK
  <2>3. sess.state = "freed" => key = OtherNotifiers
    <3> SUFFICES ASSUME sess.state = "freed" PROVE key = OtherNotifiers
      OBVIOUS
    <3>1. Enabling = {}
      BY DEF ClosedQuiet, Enabling, Active
    <3>2. Cardinality(Enabling) = 0 /\ OtherNotifiers \in Nat
      BY <3>1, FS_EmptySet, RunCodeAssumption
    <3>3. QED
      BY <3>2 DEF KeyExact
  <2>4. late' => OtherNotifiers > 0
    BY <2>2, <2>3 DEF KeyExact
  <2>5. QED
    BY <1>1, <2>1, <2>4, KeyKept DEF Enabling
<1>5. CASE RejectRequest(r) \/ BeginRun(r) \/ SignalArrives(r)
  <2>1. key' = key /\ late' = late
    BY <1>5 DEF RejectRequest, BeginRun, SignalArrives
  <2>2. r \in Enabling' <=> r \in Enabling
    BY <1>5 DEF RejectRequest, BeginRun, SignalArrives, MayEnter, HandlerAt, Enabling,
                TypeOK, Call
  <2>3. QED
    BY <1>1, <2>1, <2>2, KeyKept DEF KeyExact
<1>6. CASE HandlerStep(r) /\ ~WakeRunner(r) /\ ~ReturnResult(r)
  <2>1. key' = key /\ late' = late
    BY <1>6 DEF HandlerStep, StartFinalizer, StartFinalizerFails, CreateRunner,
                CreateRunnerFails, Bail, GiveUp, AwaitStart, AwaitEnd, Interrupted,
                KillRunner, Collect, RestoreCode
  <2>2. r \in Enabling' <=> r \in Enabling
    BY <1>6 DEF HandlerStep, StartFinalizer, StartFinalizerFails, CreateRunner,
                CreateRunnerFails, Bail, GiveUp, AwaitStart, AwaitEnd, Interrupted,
                KillRunner, Collect, RestoreCode, HandlerGoto, HandlerAt, Enabling,
                TypeOK, Call
  <2>3. QED
    BY <1>1, <2>1, <2>2, KeyKept DEF KeyExact
<1>7. CASE FinalizerStep(r)
  <2>1. UNCHANGED <<key, call, late>>
    BY <1>7 DEF FinalizerStep, FinalizerDown, FinalizerCheck, FinalizerStale,
                KthreadStop, KthreadJoin, FinalizerUp
  <2>2. QED
    BY <1>1, <2>1, KeyKept DEF KeyExact, Enabling
<1>8. CASE RunnerStep(r) /\ ~LastSwitch(r)
  <2>1. UNCHANGED <<key, call, late>>
    BY <1>8, Zenon DEF RunnerStep, RunnerStarts, UnshareFiles, UnshareFilesFails, InstallFile,
                InstallFileFails, RunnerGivesUp, BeginFpu, InvalidParamCount,
                CallGuest, ExitFiles
  <2>2. QED
    BY <1>1, <2>1, KeyKept DEF KeyExact, Enabling
<1>9. CASE GuestStep(r)
  <2>1. UNCHANGED <<key, call, late>>
    BY <1>9 DEF GuestStep, GuestReturns, GuestFaults, HostCall, HostReturns, ProcExit,
                StackClobbered
  <2>2. QED
    BY <1>1, <2>1, KeyKept DEF KeyExact, Enabling
<1>10. QED
  BY <1>2, <1>3, <1>4, <1>5, <1>6, <1>7, <1>8, <1>9, ZenonT(30) DEF RunStep

-----------------------------------------------------------------------------
(* The references on the caller's standard files. *)

\* What fget_raw has taken for run r: a reference on each descriptor open.
Taken(r, s) == IF task[r].file[s] = "file" THEN 1 ELSE 0

\* Nothing stands in the way of dropping every reference of run r.
Clean(r) == ~FputFaults(r, Stdio) /\ runner[r].exit # "clobbered"

\* Nobody has begun to drop them: they belong to the handler, then to the
\* runner, whose table has got those that are installed.
FilesOut(r) ==
  \/ runner[r].pc = "none" /\ Active(r)
  \/ runner[r].pc \in {"created", "woken"}
  \/ InCoroutine(r)

\* The table of the runner at each of its places.
TableKnown(r) ==
  LET k == runner[r]
  IN /\ k.pc \in {"none", "created", "woken", "unshare", "stdin", "closed", "dead"} =>
          k.fdt = {}
     /\ k.pc = "stdout" => k.fdt = {"stdin"}
     /\ k.pc = "stderr" => k.fdt = {"stdin", "stdout"}
     /\ k.pc \in {"fpu", "call", "wasm", "host"} => k.fdt = Stdio

\* Where each reference is: still held, in the table of a runner in do_exit, or
\* dropped.
RefHeld(r, s) ==
  /\ refs[r][s] \in {0, Taken(r, s)}
  /\ FilesOut(r) => refs[r][s] = Taken(r, s)
  /\ call[r].pc = "idle" => refs[r][s] = 0
  /\ runner[r].pc = "exited" /\ s \in runner[r].fdt => refs[r][s] = Taken(r, s)
  /\ runner[r].pc = "exited" /\ s \notin runner[r].fdt /\ Clean(r) => refs[r][s] = 0
  /\ runner[r].pc \in {"closed", "dead"} /\ Clean(r) => refs[r][s] = 0
  /\ runner[r].pc = "none" /\ ~Active(r) /\ Clean(r) => refs[r][s] = 0

FilesKnown(r) == TableKnown(r) /\ \A s \in Stdio : RefHeld(r, s)

\* Steps of one run do not touch the references of another.
LEMMA OtherRefs ==
  ASSUME TypeOK, NEW r \in Runs, RunStep(r)
  PROVE  \A q \in Runs \ {r} : refs'[q] = refs[q]
<1>1. CASE RejectRequest(r) \/ BeginRun(r) \/ SignalArrives(r)
  BY <1>1 DEF RejectRequest, BeginRun, SignalArrives, TypeOK
<1>2. CASE HandlerStep(r)
  BY <1>2 DEF HandlerStep, StartFinalizer, StartFinalizerFails, CreateRunner,
              CreateRunnerFails, Bail, GiveUp, WakeRunner, AwaitStart, AwaitEnd,
              Interrupted, KillRunner, Collect, RestoreCode, ReturnResult,
              Fput, DropRefs, TypeOK
<1>3. CASE FinalizerStep(r)
  BY <1>3 DEF FinalizerStep, FinalizerDown, FinalizerCheck, FinalizerStale,
              KthreadStop, KthreadJoin, FinalizerUp, TypeOK
<1>4. CASE RunnerStep(r)
  BY <1>4, Zenon DEF RunnerStep, RunnerStarts, UnshareFiles, UnshareFilesFails, InstallFile,
              InstallFileFails, RunnerGivesUp, BeginFpu, InvalidParamCount,
              CallGuest, ExitFiles, LastSwitch, Fput, DropRefs, TypeOK
<1>5. CASE GuestStep(r)
  BY <1>5 DEF GuestStep, GuestReturns, GuestFaults, HostCall, HostReturns, ProcExit,
              StackClobbered, TypeOK
<1>6. QED
  BY <1>1, <1>2, <1>3, <1>4, <1>5 DEF RunStep

\* What fput does to each reference of the files of S.
LEMMA FputDrops ==
  ASSUME TypeOK, NEW r \in Runs, NEW S \in SUBSET Stdio, Fput(r, S),
         \A s \in S : refs[r][s] = Taken(r, s)
  PROVE  \A s \in Stdio : /\ refs'[r][s] \in {0, refs[r][s]}
                          /\ s \notin S => refs'[r][s] = refs[r][s]
                          /\ s \in S /\ ~FputFaults(r, S) => refs'[r][s] = 0
<1> SUFFICES ASSUME NEW s \in Stdio
             PROVE  /\ refs'[r][s] \in {0, refs[r][s]}
                    /\ s \notin S => refs'[r][s] = refs[r][s]
                    /\ s \in S /\ ~FputFaults(r, S) => refs'[r][s] = 0
  OBVIOUS
<1>1. refs[r][s] \in Int
  BY DEF TypeOK
<1>2. refs'[r][s] = refs[r][s] - (IF s \in FputReaches(r, S) THEN 1 ELSE 0)
  BY DEF Fput, DropRefs, TypeOK
<1>3. s \in FputReaches(r, S) => s \in S /\ task[r].file[s] = "file"
  BY DEF FputReaches
<1>4. s \in FputReaches(r, S) => refs[r][s] = 1
  BY <1>3 DEF Taken
<1>5. s \in S /\ ~FputFaults(r, S) /\ task[r].file[s] = "file" => s \in FputReaches(r, S)
  BY DEF FputFaults, FputReaches
<1>6. QED
  BY <1>1, <1>2, <1>3, <1>4, <1>5 DEF Taken

\* Steps that leave the files, the runner's place and its table alone.
LEMMA FilesFrame ==
  ASSUME NEW r \in Runs, FilesKnown(r), refs'[r] = refs[r],
         task'[r].file = task[r].file, runner'[r].pc = runner[r].pc,
         runner'[r].fdt = runner[r].fdt, runner'[r].exit = runner[r].exit,
         call'[r].pc = "idle" => call[r].pc = "idle",
         runner[r].pc = "none" => (Active(r)' <=> Active(r))
  PROVE  FilesKnown(r)'
<1>1. TableKnown(r)'
  BY DEF FilesKnown, TableKnown
<1>2. FilesOut(r)' <=> FilesOut(r)
  BY DEF FilesOut, InCoroutine
<1>3. Clean(r)' <=> Clean(r)
  BY SMTT(30) DEF Clean, FputFaults
<1>4. ASSUME NEW s \in Stdio
      PROVE  RefHeld(r, s)'
  <2>1. RefHeld(r, s) /\ Taken(r, s)' = Taken(r, s)
    BY DEF FilesKnown, Taken
  <2>2. QED
    BY <1>2, <1>3, <2>1, SMTT(30) DEF RefHeld
<1>5. QED
  BY <1>1, <1>4 DEF FilesKnown

\* Steps after which all the references are still held.
LEMMA FilesGoOn ==
  ASSUME NEW r \in Runs, FilesOut(r)', TableKnown(r)', call'[r].pc # "idle",
         \A s \in Stdio : refs'[r][s] = Taken(r, s)'
  PROVE  FilesKnown(r)'
<1>1. FilesOut(r)' =>
        /\ runner'[r].pc \notin {"exited", "closed", "dead"}
        /\ runner'[r].pc = "none" => Active(r)'
  BY DEF FilesOut, InCoroutine
<1>2. QED
  BY <1>1 DEF FilesKnown, RefHeld

\* The runner enters do_exit: what its table does not have it has dropped.
LEMMA FilesAtExit ==
  ASSUME NEW r \in Runs, runner'[r].pc = "exited", call'[r].pc # "idle",
         \A s \in Stdio : /\ refs'[r][s] \in {0, Taken(r, s)'}
                          /\ s \in runner'[r].fdt => refs'[r][s] = Taken(r, s)'
                          /\ s \notin runner'[r].fdt /\ Clean(r)' => refs'[r][s] = 0
  PROVE  FilesKnown(r)'
<1>1. TableKnown(r)' /\ ~FilesOut(r)'
  BY DEF TableKnown, FilesOut, InCoroutine
<1>2. QED
  BY <1>1 DEF FilesKnown, RefHeld

\* The handler looks the files up, and gives them up before a runner exists.
LEMMA EnterFiles ==
  ASSUME TypeOK, NEW r \in Runs, Phase(r), FilesKnown(r),
         RejectRequest(r) \/ BeginRun(r) \/ SignalArrives(r)
  PROVE  FilesKnown(r)'
<1>1. CASE RejectRequest(r)
  <2>1. call[r].pc = "idle" /\ call'[r].pc = "done" /\ UNCHANGED <<task, runner, refs>>
    BY <1>1, SMTT(30) DEF RejectRequest, MayEnter, HandlerAt, TypeOK, Call
  <2>2. runner[r].pc = "none" /\ TableKnown(r)'
    BY <2>1, ZenonT(30) DEF Phase, FilesKnown, TableKnown
  <2>3. ~FilesOut(r)'
    BY <2>1, <2>2, SMTT(30) DEF FilesOut, InCoroutine, Active
  <2>4. \A s \in Stdio : refs'[r][s] = 0
    BY <2>1, SMTT(30) DEF FilesKnown, RefHeld
  <2>5. QED
    BY <2>1, <2>2, <2>3, <2>4 DEF FilesKnown, RefHeld
<1>2. CASE BeginRun(r)
  <2>1. call[r].pc = "idle" /\ call'[r].pc = "finalizer" /\ runner' = runner
    <3>1. call[r].pc = "idle" /\ runner' = runner
      BY <1>2 DEF BeginRun, MayEnter, HandlerAt
    <3>2. call' = [call EXCEPT ![r].pc = "finalizer"]
      BY <1>2, SMTT(30) DEF BeginRun
    <3>3. QED
      BY <3>1, <3>2, SMTT(30) DEF TypeOK, Call
  <2>2. runner[r].pc = "none" /\ TableKnown(r)'
    BY <2>1 DEF Phase, FilesKnown, TableKnown
  <2>3. PICK open \in StdioSets, n \in {0, 1} :
          /\ task' = [task EXCEPT
                        ![r].param_count = n,
                        ![r].file = [s \in Stdio |-> IF s \in open THEN "file" ELSE "null"]]
          /\ refs' = [refs EXCEPT ![r] = [s \in Stdio |-> IF s \in open THEN 1 ELSE 0]]
    BY <1>2 DEF BeginRun
  <2>4. task'[r].file = [s \in Stdio |-> IF s \in open THEN "file" ELSE "null"]
    BY <2>3 DEF TypeOK, Task
  <2>5. \A s \in Stdio : refs'[r][s] = Taken(r, s)'
    BY <2>3, <2>4 DEF TypeOK, Taken
  <2>6. FilesOut(r)'
    BY <2>1, <2>2, SMTT(30) DEF FilesOut, Active
  <2>7. QED
    BY <2>1, <2>2, <2>5, <2>6, FilesGoOn
<1>3. CASE SignalArrives(r)
  <2>1. call'[r].pc = call[r].pc /\ UNCHANGED <<task, runner, refs>>
    BY <1>3 DEF SignalArrives, TypeOK, Call
  <2>2. QED
    BY <2>1, FilesFrame DEF Active
<1>4. QED
  BY <1>1, <1>2, <1>3, ZenonT(30)

\* handle_wasm_run_code hands the references over or drops them itself.
LEMMA HandlerFiles ==
  ASSUME TypeOK, NEW r \in Runs, Phase(r), FilesKnown(r), HandlerStep(r)
  PROVE  FilesKnown(r)'
<1>1. CASE StartFinalizerFails(r) \/ Bail(r)
  <2>1. /\ call[r].pc \in {"finalizer", "bail"} /\ GiveUp(r)
        /\ task' = task /\ runner' = runner
    BY <1>1 DEF StartFinalizerFails, Bail, HandlerAt, GiveUp
  <2>2. call'[r].pc \in {"done", "oops"}
    BY <2>1, ZenonT(30) DEF GiveUp, TypeOK, Call
  <2>3. runner[r].pc = "none" /\ FilesOut(r)
    BY <2>1, SMTT(30) DEF Phase, FilesOut, Active
  <2>4. \A s \in Stdio : refs[r][s] = Taken(r, s)
    BY <2>3 DEF FilesKnown, RefHeld
  <2>5. \A s \in Stdio : /\ refs'[r][s] \in {0, Taken(r, s)}
                         /\ ~FputFaults(r, Stdio) => refs'[r][s] = 0
    BY <2>1, <2>4, FputDrops, SMTT(30) DEF GiveUp
  <2>6. TableKnown(r)' /\ ~FilesOut(r)' /\ (Clean(r)' => ~FputFaults(r, Stdio))
    BY <2>1, <2>2, <2>3 DEF FilesKnown, TableKnown, FilesOut, InCoroutine, Active,
                            Clean, FputFaults
  <2>7. \A s \in Stdio : Taken(r, s)' = Taken(r, s)
    BY <2>1 DEF Taken
  <2>8. QED
    BY <2>1, <2>2, <2>3, <2>5, <2>6, <2>7, SMTT(30) DEF FilesKnown, RefHeld
<1>2. CASE CreateRunner(r) \/ WakeRunner(r)
  <2>1. /\ call'[r].pc \in {"wake", "start"} /\ UNCHANGED <<task, refs>>
        /\ runner'[r].pc \in {"created", "woken"} /\ runner'[r].fdt = runner[r].fdt
    BY <1>2 DEF CreateRunner, WakeRunner, HandlerGoto, TypeOK, Call, Runner
  <2>2. runner[r].pc \in {"none", "created"} /\ FilesOut(r)
    BY <1>2, ZenonT(30) DEF CreateRunner, WakeRunner, HandlerGoto, HandlerAt, Phase, FilesOut, Active
  <2>3. FilesOut(r)' /\ TableKnown(r)'
    BY <2>1, <2>2, ZenonT(30) DEF FilesOut, FilesKnown, TableKnown
  <2>4. \A s \in Stdio : refs'[r][s] = Taken(r, s)'
    BY <2>1, <2>2 DEF FilesKnown, RefHeld, Taken
  <2>5. QED
    BY <2>1, <2>3, <2>4, FilesGoOn
<1>3. CASE StartFinalizer(r) \/ CreateRunnerFails(r) \/ AwaitStart(r) \/ AwaitEnd(r)
  <2>1. /\ UNCHANGED <<runner, refs>> /\ task'[r].file = task[r].file
        /\ Active(r) /\ Active(r)'
    BY <1>3 DEF StartFinalizer, CreateRunnerFails, AwaitStart, AwaitEnd, HandlerGoto,
                HandlerAt, Active, TypeOK, Call, Task
  <2>2. QED
    BY <2>1, FilesFrame DEF Active
<1>4. CASE Interrupted(r) \/ RestoreCode(r)
  <2>1. UNCHANGED <<runner, refs, task>> /\ Active(r) /\ Active(r)'
    BY <1>4 DEF Interrupted, RestoreCode, HandlerGoto, HandlerAt, Active, TypeOK, Call
  <2>2. QED
    BY <2>1, FilesFrame DEF Active
<1>5. CASE KillRunner(r) \/ Collect(r)
  <2>1. /\ UNCHANGED <<refs, task>> /\ Active(r) /\ Active(r)'
        /\ runner'[r].pc = runner[r].pc /\ runner'[r].fdt = runner[r].fdt
        /\ runner'[r].exit = runner[r].exit
    BY <1>5 DEF KillRunner, Collect, HandlerGoto, HandlerAt, Active, TypeOK, Call, Runner
  <2>2. QED
    BY <2>1, FilesFrame DEF Active
<1>6. CASE ReturnResult(r)
  <2>1. UNCHANGED <<runner, refs, task>> /\ call[r].pc = "return" /\ call'[r].pc = "done"
    BY <1>6, ZenonT(30) DEF ReturnResult, HandlerAt, TypeOK, Call
  <2>2. runner[r].pc # "none"
    BY <2>1, SMTT(30) DEF Phase, Ended
  <2>3. QED
    BY <2>1, <2>2, FilesFrame
<1>7. QED
  BY <1>1, <1>2, <1>3, <1>4, <1>5, <1>6, ZenonT(30) DEF HandlerStep

\* The finalizer does not touch them.
LEMMA FinalizerFiles ==
  ASSUME TypeOK, NEW r \in Runs, FilesKnown(r), FinalizerStep(r)
  PROVE  FilesKnown(r)'
<1>1. UNCHANGED <<call, refs>>
  BY DEF FinalizerStep, FinalizerDown, FinalizerCheck, FinalizerStale,
         KthreadStop, KthreadJoin, FinalizerUp
<1>2. task'[r].file = task[r].file
  BY DEF FinalizerStep, FinalizerDown, FinalizerCheck, FinalizerStale,
         KthreadStop, KthreadJoin, FinalizerUp, TypeOK, Task
<1>3. /\ runner'[r].pc = runner[r].pc /\ runner'[r].fdt = runner[r].fdt
      /\ runner'[r].exit = runner[r].exit
  BY DEF FinalizerStep, FinalizerDown, FinalizerCheck, FinalizerStale,
         KthreadStop, KthreadJoin, FinalizerUp, TypeOK, Runner
<1>4. QED
  BY <1>1, <1>2, <1>3, FilesFrame DEF Active

\* A runner that goes on inside its coroutine installs the files one by one.
LEMMA RunnerGoesOnFiles ==
  ASSUME TypeOK, NEW r \in Runs, Phase(r), FilesKnown(r),
         \/ RunnerStarts(r) \/ UnshareFiles(r) \/ \E s \in Stdio : InstallFile(r, s)
         \/ BeginFpu(r) \/ CallGuest(r) \/ HostCall(r) \/ HostReturns(r)
  PROVE  FilesKnown(r)'
<1>1. /\ runner[r].pc \in {"woken", "unshare", "stdin", "stdout", "stderr",
                           "fpu", "call", "wasm", "host"}
      /\ call' = call /\ refs' = refs
  BY ZenonT(30) DEF RunnerStarts, UnshareFiles, InstallFile, BeginFpu, CallGuest, HostCall,
         HostReturns, RunnerAt, RunnerGoto, Stdio
<1>2. call'[r].pc # "idle" /\ FilesOut(r)
  BY <1>1 DEF Phase, FilesOut, InCoroutine
<1>3. TableKnown(r)
  BY ZenonT(30) DEF FilesKnown
<1>4. CASE RunnerStarts(r)
  <2>1. runner[r].pc = "woken" /\ ~runner[r].should_stop
    BY <1>4 DEF RunnerStarts, RunnerAt, Phase, TypeOK, Call, HandlerPCs, Ended
  <2>2. /\ runner'[r].pc = "unshare" /\ runner'[r].fdt = runner[r].fdt
        /\ task'[r].file = task[r].file
    BY <1>4, <2>1, SMTT(30) DEF RunnerStarts, TypeOK, Runner, Task
  <2>3. FilesOut(r)' /\ TableKnown(r)'
    BY <1>3, <2>1, <2>2, ZenonT(30) DEF FilesOut, InCoroutine, TableKnown
  <2>4. \A s \in Stdio : refs'[r][s] = Taken(r, s)'
    BY <1>1, <1>2, <2>2, SMTT(30) DEF FilesKnown, RefHeld, Taken
  <2>5. QED
    BY <1>2, <2>3, <2>4, FilesGoOn, SMTT(30)
<1>5. CASE \/ UnshareFiles(r) \/ \E s \in Stdio : InstallFile(r, s)
           \/ BeginFpu(r) \/ CallGuest(r) \/ HostCall(r) \/ HostReturns(r)
  <2>1. task' = task
    BY <1>5, Zenon DEF UnshareFiles, InstallFile, BeginFpu, CallGuest, HostCall, HostReturns
  <2>2. ASSUME UnshareFiles(r) \/ BeginFpu(r) \/ CallGuest(r) \/ HostCall(r) \/ HostReturns(r)
        PROVE  FilesOut(r)' /\ TableKnown(r)'
    <3>1. \/ runner[r].pc = "unshare" /\ runner'[r].pc = "stdin"
          \/ /\ runner[r].pc \in {"fpu", "call", "wasm", "host"}
             /\ runner'[r].pc \in {"fpu", "call", "wasm", "host"}
      BY <2>2 DEF UnshareFiles, BeginFpu, CallGuest, HostCall, HostReturns, RunnerAt,
                  RunnerGoto, TypeOK, Runner
    <3>2. runner'[r].fdt = runner[r].fdt
      BY <2>2, SMTT(30) DEF UnshareFiles, BeginFpu, CallGuest, HostCall, HostReturns,
                  RunnerGoto, TypeOK, Runner
    <3>3. QED
      BY <1>3, <3>1, <3>2 DEF FilesOut, InCoroutine, TableKnown
  <2>3. ASSUME NEW s \in Stdio, InstallFile(r, s)
        PROVE  FilesOut(r)' /\ TableKnown(r)'
    <3>1. /\ runner[r].pc = s /\ runner'[r].pc = InstallNext[s]
          /\ runner'[r].fdt = runner[r].fdt \cup {s}
      BY <2>3, Zenon DEF InstallFile, RunnerAt, TypeOK, Runner
    <3>2. QED
      BY <1>3, <3>1, SMTT(30) DEF FilesOut, InCoroutine, TableKnown, InstallNext, Stdio
  <2>4. FilesOut(r)' /\ TableKnown(r)'
    BY <1>5, <2>2, <2>3, ZenonT(30)
  <2>5. \A s \in Stdio : refs'[r][s] = Taken(r, s)'
    BY <1>1, <1>2, <2>1, SMTT(30) DEF FilesKnown, RefHeld, Taken
  <2>6. QED
    BY <1>2, <2>4, <2>5, FilesGoOn
<1>6. QED
  BY <1>4, <1>5

\* A runner that gives up drops what its table does not have.
LEMMA RunnerGivesUpFiles ==
  ASSUME TypeOK, NEW r \in Runs, Phase(r), FilesKnown(r), InCoroutine(r),
         NEW S \in SUBSET Stdio, RunnerGivesUp(r, S), S = Stdio \ runner[r].fdt
  PROVE  FilesKnown(r)'
<1>1. /\ runner'[r].pc = "exited" /\ runner'[r].fdt = runner[r].fdt
      /\ call' = call /\ task' = task /\ Fput(r, S)
  BY ZenonT(30) DEF RunnerGivesUp, RunnerExit, TypeOK, Runner
<1>2. call[r].pc # "idle" /\ FilesOut(r)
  BY DEF Phase, InCoroutine, FilesOut
<1>3. \A s \in Stdio : refs[r][s] = Taken(r, s)
  BY <1>2, ZenonT(30) DEF FilesKnown, RefHeld
<1>4. \A s \in Stdio : /\ refs'[r][s] \in {0, refs[r][s]}
                       /\ s \notin S => refs'[r][s] = refs[r][s]
                       /\ s \in S /\ ~FputFaults(r, S) => refs'[r][s] = 0
  BY <1>1, <1>3, FputDrops, ZenonT(30)
<1>5. Clean(r)' => ~FputFaults(r, S)
  BY <1>1 DEF Clean, FputFaults
<1>6. \A s \in Stdio : Taken(r, s)' = Taken(r, s)
  BY <1>1, SMTT(30) DEF Taken
<1>7. QED
  BY <1>1, <1>2, <1>3, <1>4, <1>5, <1>6, FilesAtExit, ZenonT(30)

\* A runner whose files are installed, or whose stack is destroyed, enters
\* do_exit with its references.
LEMMA RunnerDiesFiles ==
  ASSUME TypeOK, NEW r \in Runs, Phase(r), FilesKnown(r), InCoroutine(r),
         runner[r].fdt = Stdio \/ runner'[r].exit = "clobbered",
         runner'[r].pc = "exited", runner'[r].fdt = runner[r].fdt,
         task'[r].file = task[r].file, UNCHANGED <<call, refs>>
  PROVE  FilesKnown(r)'
<1>1. call[r].pc # "idle" /\ FilesOut(r)
  BY ZenonT(30) DEF Phase, InCoroutine, FilesOut
<1>2. \A s \in Stdio : refs'[r][s] = Taken(r, s)'
  BY <1>1, SMTT(30) DEF FilesKnown, RefHeld, Taken
<1>3. runner[r].fdt = Stdio \/ ~Clean(r)'
  BY DEF Clean
<1>4. QED
  BY <1>1, <1>2, <1>3, FilesAtExit, SMTT(30)

\* The runner's steps: every way into do_exit, and exit_files there.
LEMMA RunnerFiles ==
  ASSUME TypeOK, NEW r \in Runs, Phase(r), FilesKnown(r), RunnerStep(r)
  PROVE  FilesKnown(r)'
<1>1. TableKnown(r)
  BY DEF FilesKnown
<1>2. CASE UnshareFilesFails(r)
  <2>1. runner[r].pc = "unshare" /\ RunnerGivesUp(r, Stdio)
    BY <1>2 DEF UnshareFilesFails, RunnerAt
  <2>2. InCoroutine(r) /\ Stdio = Stdio \ runner[r].fdt
    BY <1>1, <2>1 DEF InCoroutine, TableKnown
  <2>3. QED
    BY <2>1, <2>2, RunnerGivesUpFiles
<1>3. ASSUME NEW s \in Stdio, InstallFileFails(r, s)
      PROVE  FilesKnown(r)'
  <2>1. runner[r].pc = s /\ RunnerGivesUp(r, StillOwned[s])
    BY <1>3 DEF InstallFileFails, RunnerAt
  <2>2. InCoroutine(r) /\ StillOwned[s] = Stdio \ runner[r].fdt
    BY <1>1, <2>1 DEF InCoroutine, TableKnown, StillOwned, Stdio
  <2>3. StillOwned[s] \in SUBSET Stdio
    BY <2>2, SMTT(30)
  <2>4. QED
    BY <2>1, <2>2, <2>3, RunnerGivesUpFiles
<1>4. CASE InvalidParamCount(r)
  <2>1. /\ runner[r].pc = "call" /\ runner'[r].pc = "exited"
        /\ runner'[r].fdt = runner[r].fdt /\ UNCHANGED <<call, task, refs>>
    BY <1>4 DEF InvalidParamCount, RunnerAt, RunnerExit, TypeOK, Runner
  <2>2. InCoroutine(r) /\ runner[r].fdt = Stdio
    BY <1>1, <2>1 DEF InCoroutine, TableKnown
  <2>3. QED
    BY <2>1, <2>2, RunnerDiesFiles
<1>5. CASE ExitFiles(r)
  <2>1. /\ runner[r].pc = "exited" /\ runner'[r].pc = "closed" /\ runner'[r].fdt = {}
        /\ runner'[r].exit = runner[r].exit /\ UNCHANGED <<call, task>>
    BY <1>5, ZenonT(30) DEF ExitFiles, RunnerAt, TypeOK, Runner
  <2>2. call[r].pc # "idle"
    BY <2>1, ZenonT(30) DEF Phase
  <2>3. TableKnown(r)' /\ ~FilesOut(r)' /\ (Clean(r)' <=> Clean(r))
    BY <2>1, ZenonT(30) DEF TableKnown, FilesOut, InCoroutine, Clean, FputFaults
  <2>4. ASSUME NEW s \in Stdio
        PROVE  RefHeld(r, s)'
    <3>1. Taken(r, s)' = Taken(r, s) /\ RefHeld(r, s) /\ refs[r][s] \in Int
      BY <2>1, ZenonT(30) DEF Taken, FilesKnown, TypeOK
    <3>2. s \in runner[r].fdt => refs[r][s] = Taken(r, s)
      BY <2>1, <3>1 DEF RefHeld
    <3>3. refs'[r][s] = refs[r][s] - (IF s \in runner[r].fdt /\ task[r].file[s] = "file"
                                      THEN 1 ELSE 0)
      BY <1>5 DEF ExitFiles, DropRefs, TypeOK
    <3>4. s \in runner[r].fdt => refs'[r][s] = 0
      BY <3>2, <3>3 DEF Taken
    <3>5. s \notin runner[r].fdt => refs'[r][s] = refs[r][s]
      BY <3>1, <3>3, SMTT(30)
    <3>6. refs'[r][s] \in {0, Taken(r, s)'} /\ (Clean(r)' => refs'[r][s] = 0)
      BY <2>1, <2>3, <3>1, <3>4, <3>5, ZenonT(30) DEF RefHeld
    <3>7. QED
      BY <2>1, <2>2, <2>3, <3>6, ZenonT(30) DEF RefHeld
  <2>5. QED
    BY <2>3, <2>4 DEF FilesKnown
<1>6. CASE LastSwitch(r)
  <2>1. /\ runner[r].pc = "closed" /\ runner'[r].pc = "dead"
        /\ runner'[r].fdt = runner[r].fdt /\ runner'[r].exit = runner[r].exit
        /\ UNCHANGED <<call, task, refs>>
    BY <1>6, ZenonT(30) DEF LastSwitch, RunnerGoto, RunnerAt, TypeOK, Runner
  <2>2. call[r].pc # "idle"
    BY <2>1, ZenonT(30) DEF Phase
  <2>3. TableKnown(r)' /\ ~FilesOut(r)' /\ (Clean(r)' <=> Clean(r))
    BY <1>1, <2>1 DEF TableKnown, FilesOut, InCoroutine, Clean, FputFaults
  <2>4. \A s \in Stdio : Taken(r, s)' = Taken(r, s)
    BY <2>1 DEF Taken
  <2>5. QED
    BY <2>1, <2>2, <2>3, <2>4 DEF FilesKnown, RefHeld
<1>7. QED
  BY <1>2, <1>3, <1>4, <1>5, <1>6, RunnerGoesOnFiles DEF RunnerStep

\* The guest's steps: however it ends, its files are in its table.
LEMMA GuestFiles ==
  ASSUME TypeOK, NEW r \in Runs, Phase(r), FilesKnown(r), GuestStep(r)
  PROVE  FilesKnown(r)'
<1>1. TableKnown(r)
  BY DEF FilesKnown
<1>2. CASE GuestReturns(r) \/ GuestFaults(r) \/ ProcExit(r)
  <2>1. /\ runner[r].pc \in {"wasm", "host"} /\ runner'[r].pc = "exited"
        /\ runner'[r].fdt = runner[r].fdt /\ UNCHANGED <<call, refs>>
    BY <1>2 DEF GuestReturns, GuestFaults, ProcExit, RunnerAt, RunnerExit, TypeOK, Runner
  <2>2. task'[r].file = task[r].file
    BY <1>2 DEF GuestReturns, GuestFaults, ProcExit, TypeOK, Task
  <2>3. InCoroutine(r) /\ runner[r].fdt = Stdio
    BY <1>1, <2>1, ZenonT(30) DEF InCoroutine, TableKnown
  <2>4. QED
    BY <2>1, <2>2, <2>3, RunnerDiesFiles
<1>3. CASE StackClobbered(r) /\ InCoroutine(r)
  <2>1. /\ runner'[r].pc = "exited" /\ runner'[r].exit = "clobbered"
        /\ runner'[r].fdt = runner[r].fdt /\ UNCHANGED <<call, refs, task>>
    BY <1>3, SMTT(30) DEF StackClobbered, RunnerExit, InCoroutine, Ended, TypeOK, Runner
  <2>2. QED
    BY <1>3, <2>1, RunnerDiesFiles
<1>4. CASE StackClobbered(r) /\ ~InCoroutine(r)
  <2>1. /\ runner[r].pc \in {"exited", "closed", "dead", "stuck"}
        /\ runner'[r].pc = "stuck" /\ UNCHANGED <<call, refs, task>>
    BY <1>4, ZenonT(30) DEF StackClobbered, Ended, TypeOK, Runner
  <2>2. call[r].pc # "idle"
    BY <2>1, ZenonT(30) DEF Phase
  <2>3. TableKnown(r)' /\ ~FilesOut(r)'
    BY <2>1, SMTT(30) DEF TableKnown, FilesOut, InCoroutine
  <2>4. \A s \in Stdio : Taken(r, s)' = Taken(r, s)
    BY <2>1 DEF Taken
  <2>5. QED
    BY <2>1, <2>2, <2>3, <2>4 DEF FilesKnown, RefHeld
<1>5. QED
  BY <1>2, <1>3, <1>4, RunnerGoesOnFiles, ZenonT(30) DEF GuestStep

\* Every step of a run keeps the account of its references.
LEMMA FilesStep ==
  ASSUME TypeOK, NEW r \in Runs, Phase(r), FilesKnown(r), RunStep(r)
  PROVE  FilesKnown(r)'
BY EnterFiles, HandlerFiles, FinalizerFiles, RunnerFiles, GuestFiles, SMTT(30) DEF RunStep

-----------------------------------------------------------------------------
(* The invariant of the resources, and what follows from it. *)

OwnsOnly(r) == NxMarked(r) /\ NotifierPlaced(r) /\ FilesKnown(r)

Resources ==
  /\ Turns
  /\ ClosedQuiet
  /\ KeyExact
  /\ \A r \in Runs : OwnsOnly(r)

\* A step that is not one of run r leaves what it owns alone.
LEMMA OwnsFrame ==
  ASSUME NEW r \in Runs, OwnsOnly(r), call'[r] = call[r], task'[r] = task[r],
         runner'[r] = runner[r], refs'[r] = refs[r]
  PROVE  OwnsOnly(r)'
<1>1. NxMarked(r)' /\ NotifierPlaced(r)'
  BY DEF OwnsOnly, NxMarked, NotifierPlaced, Ended
<1>2. FilesKnown(r)'
  BY FilesFrame DEF OwnsOnly, Active
<1>3. QED
  BY <1>1, <1>2, ZenonT(30) DEF OwnsOnly

\* No run has begun: no reference, no notifier, no permission taken.
LEMMA InitResources == Init => Resources
<1> SUFFICES ASSUME Init PROVE Resources
  BY SMTT(30)
<1>1. Turns /\ ClosedQuiet
  BY SMTT(30) DEF Init, Turns, ClosedQuiet, Active
<1>2. KeyExact
  <2>1. Enabling = {}
    BY SMTT(30) DEF Init, Enabling
  <2>2. QED
    BY <2>1, FS_EmptySet, RunCodeAssumption, SMTT(30) DEF Init, KeyExact
<1>3. ASSUME NEW r \in Runs PROVE OwnsOnly(r)
  <2>1. /\ ~call[r].made_nx /\ call[r].pc = "idle" /\ ~runner[r].notifier
        /\ runner[r].pc = "none" /\ runner[r].fdt = {}
        /\ \A s \in Stdio : refs[r][s] = 0
    BY DEF Init
  <2>2. ~FilesOut(r) /\ TableKnown(r)
    BY <2>1 DEF FilesOut, Active, InCoroutine, TableKnown
  <2>3. QED
    BY <2>1, <2>2, SMTT(30) DEF OwnsOnly, NxMarked, NotifierPlaced, FilesKnown, RefHeld
<1>4. QED
  BY <1>1, <1>2, <1>3 DEF Resources

\* Every step keeps the account.
LEMMA NextResources == Inv /\ Resources /\ [Next]_vars => Resources'
<1> SUFFICES ASSUME Inv, Resources, [Next]_vars PROVE Resources'
  OBVIOUS
<1>1. /\ TypeOK /\ Protocol
      /\ Turns /\ ClosedQuiet /\ KeyExact /\ \A r \in Runs : OwnsOnly(r)
  BY DEF Inv, Resources
<1>2. CASE LoadCode \/ Release \/ UNCHANGED vars
  <2>1. UNCHANGED <<key, call, task, runner, refs, late>>
    BY <1>2 DEF LoadCode, Release, vars
  <2>2. Turns' /\ KeyExact'
    <3>1. Turns'
      BY <1>1, <2>1 DEF Turns, Active
    <3>2. Enabling' = Enabling
      BY <2>1 DEF Enabling
    <3>3. QED
      BY <1>1, <2>1, <3>1, <3>2, SMTT(30) DEF KeyExact
  <2>3. ClosedQuiet'
    BY <1>1, <1>2, <2>1, SMTT(30) DEF LoadCode, Release, vars, ClosedQuiet, Active, TypeOK, Session
  <2>4. \A r \in Runs : OwnsOnly(r)'
    BY <1>1, <2>1, OwnsFrame
  <2>5. QED
    BY <2>2, <2>3, <2>4 DEF Resources
<1>3. ASSUME NEW r \in Runs, RunStep(r)
      PROVE  Resources'
  <2>1. Phase(r) /\ NxMarked(r) /\ NotifierPlaced(r) /\ FilesKnown(r)
    BY <1>1 DEF Protocol, OwnsOnly
  <2>2. OwnsOnly(r)'
    BY <1>1, <1>3, <2>1, NxMarkedStep, NotifierPlacedStep, FilesStep, ZenonT(30) DEF OwnsOnly
  <2>3. ASSUME NEW q \in Runs \ {r}
        PROVE  OwnsOnly(q)'
    <3>1. /\ call'[q] = call[q] /\ task'[q] = task[q]
          /\ runner'[q] = runner[q] /\ refs'[q] = refs[q]
      BY <1>1, <1>3, OtherRuns, OtherRefs
    <3>2. QED
      BY <1>1, <3>1, OwnsFrame
  <2>4. Turns' /\ ClosedQuiet' /\ KeyExact'
    BY <1>1, <1>3, TurnsStep, KeyStep
  <2>5. QED
    BY <2>2, <2>3, <2>4 DEF Resources
<1>4. QED
  BY <1>2, <1>3 DEF Next, Terminated

\* The account of the resources is right in every reachable state.
LEMMA ResourcesKept == Spec => []Resources
BY InitResources, NextResources, Invariance, PTL DEF Spec

\* Every reference that fget_raw took is dropped once, by the handler, by the
\* runner or by exit_files, whichever step fails and however the runs
\* interleave.
THEOREM RefsAreBalanced == Spec => []RefsBalanced
<1>1. ASSUME Inv, Resources PROVE RefsBalanced
  <2> SUFFICES ASSUME NEW r \in Runs, NEW s \in Stdio
               PROVE  /\ refs[r][s] >= 0
                      /\ RunOver(r) /\ ~FputFaults(r, Stdio) /\ runner[r].exit # "clobbered"
                           => refs[r][s] = 0
    BY DEF RefsBalanced
  <2>1. RefHeld(r, s)
    BY <1>1, SMTT(30) DEF Resources, OwnsOnly, FilesKnown
  <2>2. refs[r][s] >= 0
    BY <2>1, SMTT(30) DEF RefHeld, Taken
  <2>3. QED
    BY <2>1, <2>2 DEF RefHeld, RunOver, Clean
<1>2. QED
  BY <1>1, Invariance, ResourcesKept, PTL

\* The notifier count of the scheduler is exact, it is positive while a runner
\* with a registered notifier executes, and the callback on a freed engine
\* needs somebody else's notifiers.
THEOREM NotifierIsEnabled == Spec => []NotifierEnabled
<1>1. ASSUME Inv, Resources PROVE NotifierEnabled
  <2>1. /\ IsFiniteSet(Enabling) /\ key = OtherNotifiers + Cardinality(Enabling)
        /\ late => OtherNotifiers > 0
    BY <1>1 DEF Resources, KeyExact
  <2>2. ASSUME NEW r \in Runs, runner[r].notifier, ~Ended(r)
        PROVE  key > 0
    <3>1. runner[r].pc \in {"call", "wasm", "host"} /\ Phase(r) /\ call[r].pc \in HandlerPCs
      BY <1>1, <2>2, ZenonT(30) DEF Inv, Protocol, TypeOK, Call, Resources, OwnsOnly, NotifierPlaced
    <3>2. r \in Enabling
      BY <2>2, <3>1, SMTT(30) DEF Phase, HandlerPCs, Enabling, Ended
    <3>3. Cardinality(Enabling) \in Nat /\ Cardinality(Enabling) # 0
      BY <2>1, <3>2, FS_CardinalityType, FS_EmptySet
    <3>4. QED
      BY <2>1, <3>3, RunCodeAssumption
  <2>3. QED
    BY <2>1, <2>2 DEF NotifierEnabled, Enabling
<1>2. QED
  BY <1>1, Invariance, ResourcesKept, PTL

\* Until the runner of an interrupted run has ended, its pages become executable
\* again only at the end of a run of another thread that had also taken the
\* permission away.
THEOREM NxIsHeld == Spec => NxHeld
<1>1. ASSUME Inv, Resources, [Next]_vars
      PROVE  [\A r \in Runs :
                call[r].made_nx /\ ~Ended(r) /\ sess.code_nx /\ ~sess'.code_nx =>
                  \E q \in Runs \ {r} :
                    /\ ThreadOf[q] # ThreadOf[r]
                    /\ call[q].made_nx /\ call[q].pc = "restore"]_vars
  <2> SUFFICES ASSUME NEW r \in Runs, call[r].made_nx, ~Ended(r),
                      sess.code_nx, ~sess'.code_nx
               PROVE  \E q \in Runs \ {r} :
                        /\ ThreadOf[q] # ThreadOf[r]
                        /\ call[q].made_nx /\ call[q].pc = "restore"
    OBVIOUS
  <2>1. TypeOK /\ Protocol /\ Turns /\ NxMarked(r)
    BY <1>1 DEF Inv, Resources, OwnsOnly
  <2>2. PICK q \in Runs : RunStep(q)
    BY <1>1, <2>1 DEF Next, Terminated, LoadCode, Release, vars, TypeOK, Session
  <2>3. call[q].made_nx /\ call[q].pc = "restore"
    BY <2>1, <2>2, SessionStep, ZenonT(30)
  <2>4. Ended(q) /\ Active(q)
    BY <2>1, <2>3, ZenonT(30) DEF Protocol, Phase, Active
  <2>5. Active(r)
    BY <2>1 DEF Protocol, Phase, NxMarked, Active
  <2>6. QED
    BY <2>1, <2>3, <2>4, <2>5 DEF Turns
<1>2. QED
  BY <1>1, Invariance, ResourcesKept, PTL DEF Spec, NxHeld
=============================================================================
