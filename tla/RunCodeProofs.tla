--------------------------- MODULE RunCodeProofs ---------------------------
(***************************************************************************)
(* The safety of a run, for any number of runs, threads and failures: Inv  *)
(* is inductive.  Its core is Protocol, which for each place of the        *)
(* handler says where the finalizer and the runner can be and what the     *)
(* semaphores hold (Phase), and how the exit status travels to the result  *)
(* (Outcome).  Both concern one run; a step of another run does not        *)
(* disturb them (OtherRuns).                                               *)
(***************************************************************************)
EXTENDS RunCode, TLAPS

-----------------------------------------------------------------------------
(* Every step keeps the types of the variables, given that the threads of  *)
(* the run are in step (Phase): that is where put_task_struct finds a      *)
(* reference to drop.  The sets of program counters stay opaque in the     *)
(* leaves; the first three lemmas say once what an update of a record      *)
(* preserves.                                                              *)

\* The updates of a handler's state keep its type.
LEMMA CallUpdate ==
  ASSUME call \in [Runs -> Call], NEW r \in Runs
  PROVE  /\ \A p \in HandlerPCs : [call EXCEPT ![r].pc = p] \in [Runs -> Call]
         /\ \A p \in HandlerPCs, x \in Results : [call EXCEPT ![r].pc = p, ![r].result = x] \in [Runs -> Call]
         /\ \A p \in HandlerPCs, b \in BOOLEAN : [call EXCEPT ![r].pc = p, ![r].made_nx = b] \in [Runs -> Call]
         /\ \A b \in BOOLEAN : [call EXCEPT ![r].sigpending = b] \in [Runs -> Call]
<1>1. call[r] \in Call
  OBVIOUS
<1>2. \A p \in HandlerPCs : [call EXCEPT ![r].pc = p] \in [Runs -> Call]
  <2>1. \A p \in HandlerPCs : [call[r] EXCEPT !.pc = p] \in Call
    BY <1>1 DEF Call
  <2>2. QED
    BY <2>1
<1>3. \A p \in HandlerPCs, x \in Results : [call EXCEPT ![r].pc = p, ![r].result = x] \in [Runs -> Call]
  <2>1. \A p \in HandlerPCs, x \in Results : [call[r] EXCEPT !.pc = p, !.result = x] \in Call
    BY <1>1, Zenon DEF Call
  <2>2. QED
    BY <2>1, Zenon
<1>4. \A p \in HandlerPCs, b \in BOOLEAN : [call EXCEPT ![r].pc = p, ![r].made_nx = b] \in [Runs -> Call]
  <2>1. \A p \in HandlerPCs, b \in BOOLEAN : [call[r] EXCEPT !.pc = p, !.made_nx = b] \in Call
    BY <1>1, Zenon DEF Call
  <2>2. QED
    BY <2>1, Zenon
<1>5. \A b \in BOOLEAN : [call EXCEPT ![r].sigpending = b] \in [Runs -> Call]
  <2>1. \A b \in BOOLEAN : [call[r] EXCEPT !.sigpending = b] \in Call
    BY <1>1 DEF Call
  <2>2. QED
    BY <2>1
<1>6. QED
  BY <1>2, <1>3, <1>4, <1>5, Zenon

\* The updates of a task structure keep its type.
LEMMA TaskUpdate ==
  ASSUME task \in [Runs -> Task], NEW r \in Runs
  PROVE  /\ \A n \in Nat : [task EXCEPT ![r].exec_start = n] \in [Runs -> Task]
         /\ \A n \in Nat : [task EXCEPT ![r].finalizer_start = n] \in [Runs -> Task]
         /\ \A n \in Nat : [task EXCEPT ![r].finalizer_end = n] \in [Runs -> Task]
         /\ \A i \in Int : [task EXCEPT ![r].finalize_ret = i] \in [Runs -> Task]
         /\ \A d \in {0, 1} : [task EXCEPT ![r].ret = d] \in [Runs -> Task]
         /\ \A n \in Nat, m \in Nat : [task EXCEPT ![r].exec_start = n, ![r].finalizer_start = m] \in [Runs -> Task]
         /\ \A b \in BOOLEAN, n \in Nat : [task EXCEPT ![r].finalizer_should_not_run = b, ![r].finalizer_start = n] \in [Runs -> Task]
         /\ \A d \in {0, 1}, f \in [Stdio -> {"unset", "file", "null"}] : [task EXCEPT ![r].param_count = d, ![r].file = f] \in [Runs -> Task]
<1>1. task[r] \in Task
  OBVIOUS
<1>2. \A n \in Nat : [task EXCEPT ![r].exec_start = n] \in [Runs -> Task]
  <2>1. \A n \in Nat : [task[r] EXCEPT !.exec_start = n] \in Task
    BY <1>1 DEF Task
  <2>2. QED
    BY <2>1
<1>3. \A n \in Nat : [task EXCEPT ![r].finalizer_start = n] \in [Runs -> Task]
  <2>1. \A n \in Nat : [task[r] EXCEPT !.finalizer_start = n] \in Task
    BY <1>1 DEF Task
  <2>2. QED
    BY <2>1
<1>4. \A n \in Nat : [task EXCEPT ![r].finalizer_end = n] \in [Runs -> Task]
  <2>1. \A n \in Nat : [task[r] EXCEPT !.finalizer_end = n] \in Task
    BY <1>1 DEF Task
  <2>2. QED
    BY <2>1
<1>5. \A i \in Int : [task EXCEPT ![r].finalize_ret = i] \in [Runs -> Task]
  <2>1. \A i \in Int : [task[r] EXCEPT !.finalize_ret = i] \in Task
    BY <1>1 DEF Task
  <2>2. QED
    BY <2>1
<1>6. \A d \in {0, 1} : [task EXCEPT ![r].ret = d] \in [Runs -> Task]
  <2>1. \A d \in {0, 1} : [task[r] EXCEPT !.ret = d] \in Task
    BY <1>1 DEF Task
  <2>2. QED
    BY <2>1
<1>7. \A n \in Nat, m \in Nat : [task EXCEPT ![r].exec_start = n, ![r].finalizer_start = m] \in [Runs -> Task]
  <2>1. \A n \in Nat, m \in Nat : [task[r] EXCEPT !.exec_start = n, !.finalizer_start = m] \in Task
    BY <1>1, Zenon DEF Task
  <2>2. QED
    BY <2>1, Zenon
<1>8. \A b \in BOOLEAN, n \in Nat : [task EXCEPT ![r].finalizer_should_not_run = b, ![r].finalizer_start = n] \in [Runs -> Task]
  <2>1. \A b \in BOOLEAN, n \in Nat : [task[r] EXCEPT !.finalizer_should_not_run = b, !.finalizer_start = n] \in Task
    BY <1>1, Zenon DEF Task
  <2>2. QED
    BY <2>1, Zenon
<1>9. \A d \in {0, 1}, f \in [Stdio -> {"unset", "file", "null"}] : [task EXCEPT ![r].param_count = d, ![r].file = f] \in [Runs -> Task]
  <2>1. \A d \in {0, 1}, f \in [Stdio -> {"unset", "file", "null"}] : [task[r] EXCEPT !.param_count = d, !.file = f] \in Task
    BY <1>1, Zenon DEF Task
  <2>2. QED
    BY <2>1, Zenon
<1>10. QED
  BY <1>2, <1>3, <1>4, <1>5, <1>6, <1>7, <1>8, <1>9, Zenon

\* The updates of a runner's state keep its type.
LEMMA RunnerUpdate ==
  ASSUME runner \in [Runs -> Runner], NEW r \in Runs
  PROVE  /\ \A p \in RunnerPCs : [runner EXCEPT ![r].pc = p] \in [Runs -> Runner]
         /\ \A n \in Nat : [runner EXCEPT ![r].usage = n] \in [Runs -> Runner]
         /\ \A b \in BOOLEAN : [runner EXCEPT ![r].killed = b] \in [Runs -> Runner]
         /\ \A b \in BOOLEAN : [runner EXCEPT ![r].should_stop = b] \in [Runs -> Runner]
         /\ \A p \in RunnerPCs, x \in Exits : [runner EXCEPT ![r].pc = p, ![r].exit = x] \in [Runs -> Runner]
         /\ \A p \in RunnerPCs, n \in Nat : [runner EXCEPT ![r].pc = p, ![r].usage = n] \in [Runs -> Runner]
         /\ \A p \in RunnerPCs, S \in SUBSET Stdio : [runner EXCEPT ![r].pc = p, ![r].fdt = S] \in [Runs -> Runner]
         /\ \A p \in RunnerPCs, b \in BOOLEAN : [runner EXCEPT ![r].pc = p, ![r].allowed = b] \in [Runs -> Runner]
         /\ \A p \in RunnerPCs, b \in BOOLEAN, c \in BOOLEAN :
              [runner EXCEPT ![r].pc = p, ![r].fpu = b, ![r].notifier = c] \in [Runs -> Runner]
<1>1. runner[r] \in Runner
  OBVIOUS
<1>2. \A p \in RunnerPCs : [runner EXCEPT ![r].pc = p] \in [Runs -> Runner]
  <2>1. \A p \in RunnerPCs : [runner[r] EXCEPT !.pc = p] \in Runner
    BY <1>1 DEF Runner
  <2>2. QED
    BY <2>1
<1>3. \A n \in Nat : [runner EXCEPT ![r].usage = n] \in [Runs -> Runner]
  <2>1. \A n \in Nat : [runner[r] EXCEPT !.usage = n] \in Runner
    BY <1>1 DEF Runner
  <2>2. QED
    BY <2>1
<1>4. \A b \in BOOLEAN : [runner EXCEPT ![r].killed = b] \in [Runs -> Runner]
  <2>1. \A b \in BOOLEAN : [runner[r] EXCEPT !.killed = b] \in Runner
    BY <1>1 DEF Runner
  <2>2. QED
    BY <2>1
<1>5. \A b \in BOOLEAN : [runner EXCEPT ![r].should_stop = b] \in [Runs -> Runner]
  <2>1. \A b \in BOOLEAN : [runner[r] EXCEPT !.should_stop = b] \in Runner
    BY <1>1 DEF Runner
  <2>2. QED
    BY <2>1
<1>6. \A p \in RunnerPCs, x \in Exits : [runner EXCEPT ![r].pc = p, ![r].exit = x] \in [Runs -> Runner]
  <2>1. \A p \in RunnerPCs, x \in Exits : [runner[r] EXCEPT !.pc = p, !.exit = x] \in Runner
    BY <1>1, Zenon DEF Runner
  <2>2. QED
    BY <2>1, Zenon
<1>7. \A p \in RunnerPCs, n \in Nat : [runner EXCEPT ![r].pc = p, ![r].usage = n] \in [Runs -> Runner]
  <2>1. \A p \in RunnerPCs, n \in Nat : [runner[r] EXCEPT !.pc = p, !.usage = n] \in Runner
    BY <1>1, Zenon DEF Runner
  <2>2. QED
    BY <2>1, Zenon
<1>8. \A p \in RunnerPCs, S \in SUBSET Stdio : [runner EXCEPT ![r].pc = p, ![r].fdt = S] \in [Runs -> Runner]
  <2>1. \A p \in RunnerPCs, S \in SUBSET Stdio : [runner[r] EXCEPT !.pc = p, !.fdt = S] \in Runner
    BY <1>1, Zenon DEF Runner
  <2>2. QED
    BY <2>1, Zenon
<1>9. \A p \in RunnerPCs, b \in BOOLEAN : [runner EXCEPT ![r].pc = p, ![r].allowed = b] \in [Runs -> Runner]
  <2>1. \A p \in RunnerPCs, b \in BOOLEAN : [runner[r] EXCEPT !.pc = p, !.allowed = b] \in Runner
    BY <1>1, Zenon DEF Runner
  <2>2. QED
    BY <2>1, Zenon
<1>10. \A p \in RunnerPCs, b \in BOOLEAN, c \in BOOLEAN :
              [runner EXCEPT ![r].pc = p, ![r].fpu = b, ![r].notifier = c] \in [Runs -> Runner]
  <2>1. \A p \in RunnerPCs, b \in BOOLEAN, c \in BOOLEAN : [runner[r] EXCEPT !.pc = p, !.fpu = b, !.notifier = c] \in Runner
    BY <1>1, Zenon DEF Runner
  <2>2. QED
    BY <2>1, Zenon
<1>11. QED
  BY <1>2, <1>3, <1>4, <1>5, <1>6, <1>7, <1>8, <1>9, <1>10, Zenon
\* Entering the ioctl, or a signal, keeps the types.
LEMMA EnterTypes ==
  ASSUME TypeOK, NEW r \in Runs, RejectRequest(r) \/ BeginRun(r) \/ SignalArrives(r)
  PROVE  TypeOK'
<1>1. CASE RejectRequest(r)
  <2>1. "done" \in HandlerPCs /\ "EFAULT" \in Results /\ "EINVAL" \in Results
    BY DEF HandlerPCs, Results
  <2>2. /\ [call EXCEPT ![r].pc = "done", ![r].result = "EFAULT"] \in [Runs -> Call]
        /\ [call EXCEPT ![r].pc = "done", ![r].result = "EINVAL"] \in [Runs -> Call]
    BY <2>1, CallUpdate, Zenon DEF TypeOK
  <2>3. QED
    BY <1>1, <2>2, Zenon DEF RejectRequest, TypeOK
<1>2. CASE BeginRun(r)
  <2>1. "finalizer" \in HandlerPCs
    BY DEF HandlerPCs
  <2>2. call' \in [Runs -> Call]
    BY <1>2, <2>1, CallUpdate, Zenon DEF BeginRun, TypeOK
  <2>3. PICK open \in StdioSets, n \in {0, 1} :
          /\ task' = [task EXCEPT
                        ![r].param_count = n,
                        ![r].file = [s \in Stdio |-> IF s \in open THEN "file"
                                                     ELSE "null"]]
          /\ refs' = [refs EXCEPT ![r] = [s \in Stdio |-> IF s \in open THEN 1 ELSE 0]]
    BY <1>2 DEF BeginRun
  <2>4. [s \in Stdio |-> IF s \in open THEN "file" ELSE "null"]
          \in [Stdio -> {"unset", "file", "null"}]
    OBVIOUS
  <2>5. task' \in [Runs -> Task]
    BY <2>3, <2>4, TaskUpdate, Zenon DEF TypeOK
  <2>6. refs' \in [Runs -> [Stdio -> Int]]
    BY <2>3 DEF TypeOK
  <2>7. QED
    BY <1>2, <2>2, <2>5, <2>6, Zenon DEF BeginRun, TypeOK
<1>3. CASE SignalArrives(r)
  <2>1. call' \in [Runs -> Call]
    BY <1>3, CallUpdate, Zenon DEF SignalArrives, TypeOK
  <2>2. QED
    BY <1>3, <2>1 DEF SignalArrives, TypeOK
<1>4. QED
  BY <1>1, <1>2, <1>3

\* fput keeps the type of the reference counts.
LEMMA DropRefsTypes ==
  ASSUME TypeOK, NEW r \in Runs, NEW S, DropRefs(r, S)
  PROVE  refs' \in [Runs -> [Stdio -> Int]]
<1>1. [s \in Stdio |-> refs[r][s] - (IF s \in S THEN 1 ELSE 0)] \in [Stdio -> Int]
  BY DEF TypeOK
<1>2. QED
  BY <1>1 DEF TypeOK, DropRefs

\* The handler's error paths keep the types.
LEMMA GiveUpTypes ==
  ASSUME TypeOK, NEW r \in Runs, GiveUp(r)
  PROVE  TypeOK'
<1>1. /\ (IF FputFaults(r, Stdio) THEN "oops" ELSE "done") \in HandlerPCs
      /\ (IF FputFaults(r, Stdio) THEN "none" ELSE "EINVAL") \in Results
  BY DEF HandlerPCs, Results
<1>2. call' \in [Runs -> Call]
  BY <1>1, CallUpdate, Zenon DEF GiveUp, TypeOK
<1>3. refs' \in [Runs -> [Stdio -> Int]]
  BY DropRefsTypes DEF GiveUp, Fput
<1>4. QED
  BY <1>2, <1>3 DEF GiveUp, TypeOK

\* Every step of handle_wasm_run_code keeps the types: a semaphore that is taken
\* is positive, and put_task_struct drops the reference of get_task_struct.
LEMMA HandlerTypes ==
  ASSUME TypeOK, NEW r \in Runs, Phase(r), HandlerStep(r)
  PROVE  TypeOK'
<1>1. CASE StartFinalizer(r)
  <2>1. "runner" \in HandlerPCs /\ "wait" \in FinalizerPCs
    BY DEF HandlerPCs, FinalizerPCs
  <2>2. call' \in [Runs -> Call]
    BY <1>1, <2>1, CallUpdate, Zenon DEF StartFinalizer, HandlerGoto, TypeOK
  <2>3. QED
    BY <1>1, <2>1, <2>2, Zenon DEF StartFinalizer, TypeOK
<1>2. CASE StartFinalizerFails(r) \/ Bail(r)
  BY <1>2, GiveUpTypes DEF StartFinalizerFails, Bail
<1>3. CASE CreateRunner(r)
  <2>1. "wake" \in HandlerPCs /\ "created" \in RunnerPCs
    BY DEF HandlerPCs, RunnerPCs
  <2>2. call' \in [Runs -> Call]
    BY <1>3, <2>1, CallUpdate, Zenon DEF CreateRunner, HandlerGoto, TypeOK
  <2>3. runner[r].usage + 1 \in Nat
    BY DEF TypeOK, Runner
  <2>4. runner' \in [Runs -> Runner]
    BY <1>3, <2>1, <2>3, RunnerUpdate, Zenon DEF CreateRunner, TypeOK
  <2>5. QED
    BY <1>3, <2>2, <2>4 DEF CreateRunner, TypeOK
<1>4. CASE CreateRunnerFails(r)
  <2>1. "bail" \in HandlerPCs
    BY DEF HandlerPCs
  <2>2. call' \in [Runs -> Call]
    BY <1>4, <2>1, CallUpdate, Zenon DEF CreateRunnerFails, HandlerGoto, TypeOK
  <2>3. task[r].finalizer_start + 1 \in Nat
    BY DEF TypeOK, Task
  <2>4. task' \in [Runs -> Task]
    BY <1>4, <2>3, TaskUpdate, Zenon DEF CreateRunnerFails, TypeOK
  <2>5. QED
    BY <1>4, <2>2, <2>4 DEF CreateRunnerFails, TypeOK
<1>5. CASE WakeRunner(r)
  <2>1. "start" \in HandlerPCs /\ "woken" \in RunnerPCs
    BY DEF HandlerPCs, RunnerPCs
  <2>2. call' \in [Runs -> Call]
    BY <1>5, <2>1, CallUpdate, Zenon DEF WakeRunner, HandlerGoto, TypeOK
  <2>3. runner' \in [Runs -> Runner]
    BY <1>5, <2>1, RunnerUpdate, Zenon DEF WakeRunner, TypeOK
  <2>4. QED
    BY <1>5, <2>2, <2>3 DEF WakeRunner, TypeOK
<1>6. CASE AwaitStart(r)
  <2>1. "wait" \in HandlerPCs
    BY DEF HandlerPCs
  <2>2. call' \in [Runs -> Call]
    BY <1>6, <2>1, CallUpdate, Zenon DEF AwaitStart, HandlerGoto, TypeOK
  <2>3. task[r].exec_start - 1 \in Nat /\ task[r].finalizer_start + 1 \in Nat
    BY <1>6 DEF AwaitStart, TypeOK, Task
  <2>4. task' \in [Runs -> Task]
    BY <1>6, <2>3, TaskUpdate, Zenon DEF AwaitStart, TypeOK
  <2>5. QED
    BY <1>6, <2>2, <2>4 DEF AwaitStart, TypeOK
<1>7. CASE AwaitEnd(r)
  <2>1. "collect" \in HandlerPCs
    BY DEF HandlerPCs
  <2>2. call' \in [Runs -> Call]
    BY <1>7, <2>1, CallUpdate, Zenon DEF AwaitEnd, HandlerGoto, TypeOK
  <2>3. task[r].finalizer_end - 1 \in Nat
    BY <1>7 DEF AwaitEnd, TypeOK, Task
  <2>4. task' \in [Runs -> Task]
    BY <1>7, <2>3, TaskUpdate, Zenon DEF AwaitEnd, TypeOK
  <2>5. QED
    BY <1>7, <2>2, <2>4 DEF AwaitEnd, TypeOK
<1>8. CASE Interrupted(r)
  <2>1. "kill" \in HandlerPCs
    BY DEF HandlerPCs
  <2>2. call' \in [Runs -> Call]
    BY <1>8, <2>1, CallUpdate, Zenon DEF Interrupted, TypeOK
  <2>3. sess' \in Session
    BY <1>8, Zenon DEF Interrupted, TypeOK, Session
  <2>4. QED
    BY <1>8, <2>2, <2>3 DEF Interrupted, TypeOK
<1>9. CASE KillRunner(r)
  <2>1. "wait" \in HandlerPCs
    BY DEF HandlerPCs
  <2>2. call' \in [Runs -> Call]
    BY <1>9, <2>1, CallUpdate, Zenon DEF KillRunner, HandlerGoto, TypeOK
  <2>3. (runner[r].killed \/ (runner[r].allowed /\ ~Ended(r))) \in BOOLEAN
    OBVIOUS
  <2>4. runner' \in [Runs -> Runner]
    BY <1>9, <2>3, RunnerUpdate, Zenon DEF KillRunner, TypeOK
  <2>5. QED
    BY <1>9, <2>2, <2>4 DEF KillRunner, TypeOK
<1>10. CASE Collect(r)
  <2>1. "restore" \in HandlerPCs
    BY DEF HandlerPCs
  <2>2. (IF task[r].finalize_ret # 0 THEN "fail"
         ELSE IF task[r].ret = 0 THEN "ok0" ELSE "ok1") \in Results
    BY DEF Results
  <2>3. call' \in [Runs -> Call]
    BY <1>10, <2>1, <2>2, CallUpdate, Zenon DEF Collect, TypeOK
  <2>4. runner[r].usage - 1 \in Nat
    BY <1>10 DEF Collect, HandlerAt, Phase
  <2>5. runner' \in [Runs -> Runner]
    BY <1>10, <2>4, RunnerUpdate, Zenon DEF Collect, TypeOK
  <2>6. QED
    BY <1>10, <2>3, <2>5 DEF Collect, TypeOK
<1>11. CASE RestoreCode(r)
  <2>1. "return" \in HandlerPCs
    BY DEF HandlerPCs
  <2>2. call' \in [Runs -> Call]
    BY <1>11, <2>1, CallUpdate, Zenon DEF RestoreCode, HandlerGoto, TypeOK
  <2>3. sess' \in Session
    BY <1>11, Zenon DEF RestoreCode, TypeOK, Session
  <2>4. QED
    BY <1>11, <2>2, <2>3 DEF RestoreCode, TypeOK
<1>12. CASE ReturnResult(r)
  <2>1. "done" \in HandlerPCs /\ "EFAULT" \in Results
    BY DEF HandlerPCs, Results
  <2>2. /\ [call EXCEPT ![r].pc = "done"] \in [Runs -> Call]
        /\ [call EXCEPT ![r].pc = "done", ![r].result = "EFAULT"] \in [Runs -> Call]
    BY <2>1, CallUpdate, Zenon DEF TypeOK
  <2>3. call' \in [Runs -> Call]
    BY <1>12, <2>2 DEF ReturnResult
  <2>4. key' \in Int
    BY <1>12 DEF ReturnResult, TypeOK
  <2>5. QED
    BY <1>12, <2>3, <2>4 DEF ReturnResult, TypeOK
<1>13. QED
  BY <1>1, <1>2, <1>3, <1>4, <1>5, <1>6, <1>7, <1>8, <1>9, <1>10, <1>11, <1>12
     DEF HandlerStep

\* Every step of task_finalizer keeps the types.
LEMMA FinalizerTypes ==
  ASSUME TypeOK, NEW r \in Runs, FinalizerStep(r)
  PROVE  TypeOK'
<1>1. fpc' \in [Runs -> FinalizerPCs]
  BY DEF FinalizerStep, FinalizerDown, FinalizerCheck, FinalizerStale, KthreadStop,
         KthreadJoin, FinalizerUp, FinalizerGoto, TypeOK, FinalizerPCs
<1>2. CASE FinalizerDown(r)
  <2>1. task[r].finalizer_start - 1 \in Nat
    BY <1>2 DEF FinalizerDown, TypeOK, Task
  <2>2. task' \in [Runs -> Task]
    BY <1>2, <2>1, TaskUpdate, Zenon DEF FinalizerDown, TypeOK
  <2>3. QED
    BY <1>1, <1>2, <2>2 DEF FinalizerDown, TypeOK
<1>3. CASE FinalizerCheck(r)
  BY <1>1, <1>3 DEF FinalizerCheck, TypeOK
<1>4. CASE FinalizerStale(r)
  BY <1>1, <1>4 DEF FinalizerStale, TypeOK
<1>5. CASE KthreadStop(r)
  <2>1. runner' \in [Runs -> Runner]
    BY <1>5, RunnerUpdate, Zenon DEF KthreadStop, TypeOK
  <2>2. QED
    BY <1>1, <1>5, <2>1 DEF KthreadStop, TypeOK
<1>6. CASE KthreadJoin(r)
  <2>1. runner[r].exit \in Exits
    BY DEF TypeOK, Runner
  <2>2. ExitCode[runner[r].exit] \in Int
    BY <2>1 DEF Exits, ExitCode
  <2>3. task' \in [Runs -> Task]
    BY <1>6, <2>2, TaskUpdate, Zenon DEF KthreadJoin, TypeOK
  <2>4. QED
    BY <1>1, <1>6, <2>3 DEF KthreadJoin, TypeOK
<1>7. CASE FinalizerUp(r)
  <2>1. task[r].finalizer_end + 1 \in Nat
    BY DEF TypeOK, Task
  <2>2. task' \in [Runs -> Task]
    BY <1>7, <2>1, TaskUpdate, Zenon DEF FinalizerUp, TypeOK
  <2>3. QED
    BY <1>1, <1>7, <2>2 DEF FinalizerUp, TypeOK
<1>8. QED
  BY <1>2, <1>3, <1>4, <1>5, <1>6, <1>7 DEF FinalizerStep

\* The end of the runner keeps the type of its state.
LEMMA RunnerExitTypes ==
  ASSUME TypeOK, NEW r \in Runs, NEW how \in Exits, RunnerExit(r, how)
  PROVE  runner' \in [Runs -> Runner]
<1>1. "exited" \in RunnerPCs
  BY DEF RunnerPCs
<1>2. QED
  BY <1>1, RunnerUpdate, Zenon DEF RunnerExit, TypeOK

\* The error paths of code_runner_inner keep the types.
LEMMA RunnerGivesUpTypes ==
  ASSUME TypeOK, NEW r \in Runs, NEW S, RunnerGivesUp(r, S)
  PROVE  TypeOK'
<1>1. (IF FputFaults(r, S) THEN "fault" ELSE "return") \in Exits
  BY DEF Exits
<1>2. runner' \in [Runs -> Runner]
  BY <1>1, RunnerExitTypes DEF RunnerGivesUp
<1>3. refs' \in [Runs -> [Stdio -> Int]]
  BY DropRefsTypes DEF RunnerGivesUp, Fput
<1>4. QED
  BY <1>2, <1>3 DEF RunnerGivesUp, TypeOK

\* Every step of code_runner outside the guest keeps the types.
LEMMA RunnerTypes ==
  ASSUME TypeOK, NEW r \in Runs, RunnerStep(r)
  PROVE  TypeOK'
<1>1. CASE RunnerStarts(r)
  <2>1. CASE runner[r].should_stop
    <3>1. "eintr" \in Exits
      BY DEF Exits
    <3>2. runner' \in [Runs -> Runner]
      BY <1>1, <2>1, <3>1, RunnerExitTypes DEF RunnerStarts
    <3>3. QED
      BY <1>1, <2>1, <3>2 DEF RunnerStarts, TypeOK
  <2>2. CASE ~runner[r].should_stop
    <3>1. "unshare" \in RunnerPCs /\ task[r].exec_start + 1 \in Nat
      BY DEF RunnerPCs, TypeOK, Task
    <3>2. /\ runner' = [runner EXCEPT ![r].pc = "unshare"]
          /\ task' = [task EXCEPT ![r].exec_start = task[r].exec_start + 1]
      BY <1>1, <2>2 DEF RunnerStarts
    <3>3. runner' \in [Runs -> Runner]
      BY <3>1, <3>2, RunnerUpdate, Zenon DEF TypeOK
    <3>4. task' \in [Runs -> Task]
      BY <3>1, <3>2, TaskUpdate, Zenon DEF TypeOK
    <3>5. QED
      BY <1>1, <3>3, <3>4 DEF RunnerStarts, TypeOK
  <2>3. QED
    BY <2>1, <2>2
<1>2. CASE UnshareFiles(r)
  <2>1. "stdin" \in RunnerPCs
    BY DEF RunnerPCs
  <2>2. runner' \in [Runs -> Runner]
    BY <1>2, <2>1, RunnerUpdate, Zenon DEF UnshareFiles, RunnerGoto, TypeOK
  <2>3. QED
    BY <1>2, <2>2 DEF UnshareFiles, TypeOK
<1>3. CASE UnshareFilesFails(r)
  BY <1>3, RunnerGivesUpTypes DEF UnshareFilesFails
<1>4. ASSUME NEW s \in Stdio, InstallFile(r, s)
      PROVE  TypeOK'
  <2>1. InstallNext[s] \in RunnerPCs
    BY DEF InstallNext, RunnerPCs, Stdio
  <2>2. runner[r].fdt \cup {s} \in SUBSET Stdio
    BY DEF TypeOK, Runner
  <2>3. runner' \in [Runs -> Runner]
    BY <1>4, <2>1, <2>2, RunnerUpdate, Zenon DEF InstallFile, TypeOK
  <2>4. QED
    BY <1>4, <2>3 DEF InstallFile, TypeOK
<1>5. ASSUME NEW s \in Stdio, InstallFileFails(r, s)
      PROVE  TypeOK'
  BY <1>5, RunnerGivesUpTypes DEF InstallFileFails
<1>6. CASE BeginFpu(r)
  <2>1. "call" \in RunnerPCs
    BY DEF RunnerPCs
  <2>2. runner' \in [Runs -> Runner]
    BY <1>6, <2>1, RunnerUpdate, Zenon DEF BeginFpu, TypeOK
  <2>3. QED
    BY <1>6, <2>2 DEF BeginFpu, TypeOK
<1>7. CASE InvalidParamCount(r)
  <2>1. "return" \in Exits
    BY DEF Exits
  <2>2. runner' \in [Runs -> Runner]
    BY <1>7, <2>1, RunnerExitTypes DEF InvalidParamCount
  <2>3. QED
    BY <1>7, <2>2 DEF InvalidParamCount, TypeOK
<1>8. CASE CallGuest(r)
  <2>1. "wasm" \in RunnerPCs
    BY DEF RunnerPCs
  <2>2. runner' \in [Runs -> Runner]
    BY <1>8, <2>1, RunnerUpdate, Zenon DEF CallGuest, TypeOK
  <2>3. QED
    BY <1>8, <2>2 DEF CallGuest, TypeOK
<1>9. CASE ExitFiles(r)
  <2>1. "closed" \in RunnerPCs
    BY DEF RunnerPCs
  <2>2. runner' \in [Runs -> Runner]
    BY <1>9, <2>1, RunnerUpdate, Zenon DEF ExitFiles, TypeOK
  <2>3. refs' \in [Runs -> [Stdio -> Int]]
    BY <1>9, DropRefsTypes DEF ExitFiles
  <2>4. QED
    BY <1>9, <2>2, <2>3 DEF ExitFiles, TypeOK
<1>10. CASE LastSwitch(r)
  <2>1. "dead" \in RunnerPCs
    BY DEF RunnerPCs
  <2>2. runner' \in [Runs -> Runner]
    BY <1>10, <2>1, RunnerUpdate, Zenon DEF LastSwitch, RunnerGoto, TypeOK
  <2>3. QED
    BY <1>10, <2>2 DEF LastSwitch, TypeOK
<1>11. QED
  BY <1>1, <1>2, <1>3, <1>4, <1>5, <1>6, <1>7, <1>8, <1>9, <1>10 DEF RunnerStep

\* Every step of the guest keeps the types.
LEMMA GuestTypes ==
  ASSUME TypeOK, NEW r \in Runs, GuestStep(r)
  PROVE  TypeOK'
<1>1. /\ {"return", "fault", "exit0", "exit1", "clobbered"} \subseteq Exits
      /\ {"wasm", "host", "stuck"} \subseteq RunnerPCs
  BY DEF Exits, RunnerPCs
<1>2. CASE GuestReturns(r)
  <2>1. runner' \in [Runs -> Runner]
    BY <1>1, <1>2, RunnerExitTypes DEF GuestReturns
  <2>2. task' \in [Runs -> Task]
    BY <1>2, TaskUpdate, Zenon DEF GuestReturns, TypeOK
  <2>3. QED
    BY <1>2, <2>1, <2>2 DEF GuestReturns, TypeOK
<1>3. CASE GuestFaults(r)
  <2>1. runner' \in [Runs -> Runner]
    BY <1>1, <1>3, RunnerExitTypes DEF GuestFaults
  <2>2. QED
    BY <1>3, <2>1 DEF GuestFaults, TypeOK
<1>4. CASE HostCall(r) \/ HostReturns(r)
  <2>1. /\ [runner EXCEPT ![r].pc = "host"] \in [Runs -> Runner]
        /\ [runner EXCEPT ![r].pc = "wasm"] \in [Runs -> Runner]
    BY <1>1, RunnerUpdate, Zenon DEF TypeOK
  <2>2. QED
    BY <1>4, <2>1, Zenon DEF HostCall, HostReturns, RunnerGoto, TypeOK
<1>5. CASE ProcExit(r)
  <2>1. PICK how \in {"exit0", "exit1"} : RunnerExit(r, how)
    BY <1>5 DEF ProcExit
  <2>2. runner' \in [Runs -> Runner]
    BY <1>1, <2>1, RunnerExitTypes
  <2>3. QED
    BY <1>5, <2>2 DEF ProcExit, TypeOK
<1>6. CASE StackClobbered(r)
  <2>1. CASE RunnerExit(r, "clobbered")
    <3>1. runner' \in [Runs -> Runner]
      BY <1>1, <2>1, RunnerExitTypes
    <3>2. QED
      BY <1>6, <3>1 DEF StackClobbered, TypeOK
  <2>2. CASE runner' = [runner EXCEPT ![r].pc = "stuck"]
    <3>1. runner' \in [Runs -> Runner]
      BY <1>1, <2>2, RunnerUpdate, Zenon DEF TypeOK
    <3>2. QED
      BY <1>6, <3>1 DEF StackClobbered, TypeOK
  <2>3. QED
    BY <1>6, <2>1, <2>2 DEF StackClobbered
<1>7. QED
  BY <1>2, <1>3, <1>4, <1>5, <1>6 DEF GuestStep

-----------------------------------------------------------------------------
(* The threads of a run stay in step. *)

\* Entering the ioctl, or a signal, keeps the run in step.
LEMMA EnterPhase ==
  ASSUME TypeOK, NEW r \in Runs, Phase(r), Outcome(r),
         RejectRequest(r) \/ BeginRun(r) \/ SignalArrives(r)
  PROVE  Phase(r)' /\ Outcome(r)'
<1>1. CASE RejectRequest(r)
  <2>1. /\ call[r].pc = "idle" /\ call'[r].pc = "done"
        /\ call'[r].result \in {"EFAULT", "EINVAL"}
    BY <1>1 DEF RejectRequest, MayEnter, HandlerAt, TypeOK, Call
  <2>2. UNCHANGED <<task, fpc, runner>>
    BY <1>1 DEF RejectRequest
  <2>3. QED
    BY <2>1, <2>2 DEF Phase, Outcome, Ended
<1>2. CASE BeginRun(r)
  <2>1. /\ call[r].pc = "idle"
        /\ call' = [call EXCEPT ![r].pc = "finalizer"]
        /\ UNCHANGED <<fpc, runner>>
    BY <1>2 DEF BeginRun, MayEnter, HandlerAt
  <2>2. call'[r].pc = "finalizer" /\ call'[r].result = call[r].result
    BY <2>1 DEF TypeOK, Call
  <2>3. PICK f, n : task' = [task EXCEPT ![r].param_count = n, ![r].file = f]
    BY <1>2, Zenon DEF BeginRun
  <2>4. /\ task'[r].exec_start = task[r].exec_start
        /\ task'[r].finalizer_start = task[r].finalizer_start
        /\ task'[r].finalizer_end = task[r].finalizer_end
        /\ task'[r].finalizer_should_not_run = task[r].finalizer_should_not_run
        /\ task'[r].ret = task[r].ret
        /\ task'[r].finalize_ret = task[r].finalize_ret
    BY <2>3, SMTT(30) DEF TypeOK, Task
  <2>5. QED
    BY <2>1, <2>2, <2>4 DEF Phase, Outcome, Ended
<1>3. CASE SignalArrives(r)
  <2>1. call'[r].pc = call[r].pc /\ call'[r].result = call[r].result
    BY <1>3 DEF SignalArrives, TypeOK, Call
  <2>2. UNCHANGED <<task, fpc, runner>>
    BY <1>3 DEF SignalArrives
  <2>3. QED
    BY <2>1, <2>2 DEF Phase, Outcome, Ended
<1>4. QED
  BY <1>1, <1>2, <1>3, SMTT(30)

\* Every step of handle_wasm_run_code keeps the run in step.
LEMMA HandlerPhase ==
  ASSUME TypeOK, NEW r \in Runs, Phase(r), Outcome(r), HandlerStep(r)
  PROVE  Phase(r)' /\ Outcome(r)'
<1>1. CASE StartFinalizer(r)
  <2>1. /\ call[r].pc = "finalizer" /\ call'[r].pc = "runner"
        /\ call'[r].result = call[r].result
        /\ fpc'[r] = "wait"
    BY <1>1 DEF StartFinalizer, HandlerGoto, HandlerAt, TypeOK, Call
  <2>2. UNCHANGED <<task, runner>>
    BY <1>1, SMTT(30) DEF StartFinalizer
  <2>3. QED
    BY <2>1, <2>2 DEF Phase, Outcome, Ended
<1>2. CASE StartFinalizerFails(r) \/ Bail(r)
  <2>1. call[r].pc \in {"finalizer", "bail"} /\ GiveUp(r)
    BY <1>2 DEF StartFinalizerFails, Bail, HandlerAt
  <2>2. /\ call'[r].pc \in {"done", "oops"}
        /\ call'[r].result \in {"none", "EINVAL"}
    BY <2>1 DEF GiveUp, TypeOK, Call
  <2>3. UNCHANGED <<task, fpc, runner>>
    BY <2>1, ZenonT(30) DEF GiveUp
  <2>4. QED
    BY <2>1, <2>2, <2>3 DEF Phase, Outcome, Ended
<1>3. CASE CreateRunner(r)
  <2>1. /\ call[r].pc = "runner" /\ call'[r].pc = "wake"
        /\ call'[r].result = call[r].result
    BY <1>3 DEF CreateRunner, HandlerGoto, HandlerAt, TypeOK, Call
  <2>2. /\ runner'[r].pc = "created" /\ runner'[r].usage = runner[r].usage + 1
        /\ runner'[r].should_stop = runner[r].should_stop
        /\ runner'[r].exit = runner[r].exit
    BY <1>3 DEF CreateRunner, TypeOK, Runner
  <2>3. UNCHANGED <<task, fpc>>
    BY <1>3, SMTT(30) DEF CreateRunner
  <2>4. QED
    BY <2>1, <2>2, <2>3 DEF Phase, Outcome, Ended
<1>4. CASE CreateRunnerFails(r)
  <2>1. /\ call[r].pc = "runner" /\ call'[r].pc = "bail"
        /\ call'[r].result = call[r].result
    BY <1>4 DEF CreateRunnerFails, HandlerGoto, HandlerAt, TypeOK, Call
  <2>2. /\ task'[r].finalizer_should_not_run = TRUE
        /\ task'[r].ret = task[r].ret
        /\ task'[r].finalize_ret = task[r].finalize_ret
    BY <1>4 DEF CreateRunnerFails, TypeOK, Task
  <2>3. UNCHANGED <<fpc, runner>>
    BY <1>4 DEF CreateRunnerFails
  <2>4. QED
    BY <2>1, <2>2, <2>3 DEF Phase, Outcome, Ended
<1>5. CASE WakeRunner(r)
  <2>1. /\ call[r].pc = "wake" /\ call'[r].pc = "start"
        /\ call'[r].result = call[r].result
    BY <1>5 DEF WakeRunner, HandlerGoto, HandlerAt, TypeOK, Call
  <2>2. /\ runner'[r].pc = "woken" /\ runner'[r].usage = runner[r].usage
        /\ runner'[r].should_stop = runner[r].should_stop
        /\ runner'[r].exit = runner[r].exit
    BY <1>5 DEF WakeRunner, TypeOK, Runner
  <2>3. UNCHANGED <<task, fpc>>
    BY <1>5 DEF WakeRunner
  <2>4. QED
    BY <2>1, <2>2, <2>3 DEF Phase, Outcome, Ended
<1>6. CASE AwaitStart(r)
  <2>1. /\ call[r].pc = "start" /\ call'[r].pc = "wait"
        /\ call'[r].result = call[r].result
    BY <1>6 DEF AwaitStart, HandlerGoto, HandlerAt, TypeOK, Call
  <2>2. /\ task[r].exec_start > 0
        /\ task'[r].exec_start = task[r].exec_start - 1
        /\ task'[r].finalizer_start = task[r].finalizer_start + 1
        /\ task'[r].finalizer_end = task[r].finalizer_end
        /\ task'[r].finalizer_should_not_run = task[r].finalizer_should_not_run
        /\ task'[r].ret = task[r].ret
        /\ task'[r].finalize_ret = task[r].finalize_ret
    BY <1>6 DEF AwaitStart, TypeOK, Task
  <2>3. UNCHANGED <<fpc, runner>>
    BY <1>6 DEF AwaitStart
  <2>4. QED
    BY <2>1, <2>2, <2>3 DEF Phase, Outcome, Ended
<1>7. CASE AwaitEnd(r)
  <2>1. /\ call[r].pc = "wait" /\ call'[r].pc = "collect"
        /\ call'[r].result = call[r].result
    BY <1>7 DEF AwaitEnd, HandlerGoto, HandlerAt, TypeOK, Call
  <2>2. /\ task[r].finalizer_end > 0
        /\ task'[r].finalizer_should_not_run = task[r].finalizer_should_not_run
        /\ task'[r].ret = task[r].ret
        /\ task'[r].finalize_ret = task[r].finalize_ret
    BY <1>7 DEF AwaitEnd, TypeOK, Task
  <2>3. UNCHANGED <<fpc, runner>>
    BY <1>7 DEF AwaitEnd
  <2>4. QED
    BY <2>1, <2>2, <2>3 DEF Phase, Outcome, Ended
<1>8. CASE Interrupted(r)
  <2>1. /\ call[r].pc = "wait" /\ call'[r].pc = "kill"
        /\ call'[r].result = call[r].result
    BY <1>8 DEF Interrupted, HandlerAt, TypeOK, Call
  <2>2. UNCHANGED <<task, fpc, runner>>
    BY <1>8, SMTT(30) DEF Interrupted
  <2>3. QED
    BY <2>1, <2>2 DEF Phase, Outcome, Ended
<1>9. CASE KillRunner(r)
  <2>1. /\ call[r].pc = "kill" /\ call'[r].pc = "wait"
        /\ call'[r].result = call[r].result
    BY <1>9 DEF KillRunner, HandlerGoto, HandlerAt, TypeOK, Call
  <2>2. /\ runner'[r].pc = runner[r].pc /\ runner'[r].usage = runner[r].usage
        /\ runner'[r].should_stop = runner[r].should_stop
        /\ runner'[r].exit = runner[r].exit
    BY <1>9 DEF KillRunner, TypeOK, Runner
  <2>3. UNCHANGED <<task, fpc>>
    BY <1>9 DEF KillRunner
  <2>4. QED
    BY <2>1, <2>2, <2>3 DEF Phase, Outcome, Ended
<1>10. CASE Collect(r)
  <2>1. /\ call[r].pc = "collect" /\ call'[r].pc = "restore"
        /\ call'[r].result = IF task[r].finalize_ret # 0 THEN "fail"
                             ELSE IF task[r].ret = 0 THEN "ok0" ELSE "ok1"
    BY <1>10 DEF Collect, HandlerAt, TypeOK, Call
  <2>2. /\ runner'[r].pc = runner[r].pc /\ runner'[r].usage = runner[r].usage - 1
        /\ runner'[r].should_stop = runner[r].should_stop
        /\ runner'[r].exit = runner[r].exit
    BY <1>10 DEF Collect, TypeOK, Runner
  <2>3. UNCHANGED <<task, fpc>>
    BY <1>10, SMTT(30) DEF Collect
  <2>4. Phase(r)'
    BY <2>1, <2>2, <2>3, SMTT(30) DEF Phase, Ended
  <2>5. /\ task[r].ret \in {0, 1} /\ task[r].finalize_ret = ExitCode[runner[r].exit]
        /\ task[r].ret = 1 => ExitCode[runner[r].exit] = 0
    BY <2>1 DEF Phase, Outcome, TypeOK, Task, ExitCode
  <2>6. Outcome(r)'
    BY <2>1, <2>2, <2>3, <2>5, SMTT(30) DEF Phase, Outcome, Ended
  <2>7. QED
    BY <2>4, <2>6
<1>11. CASE RestoreCode(r)
  <2>1. /\ call[r].pc = "restore" /\ call'[r].pc = "return"
        /\ call'[r].result = call[r].result
    BY <1>11 DEF RestoreCode, HandlerGoto, HandlerAt, TypeOK, Call
  <2>2. UNCHANGED <<task, fpc, runner>>
    BY <1>11 DEF RestoreCode
  <2>3. QED
    BY <2>1, <2>2 DEF Phase, Outcome, Ended
<1>12. CASE ReturnResult(r)
  <2>1. /\ call[r].pc = "return" /\ call'[r].pc = "done"
        /\ call'[r].result \in {call[r].result, "EFAULT"}
    BY <1>12 DEF ReturnResult, HandlerAt, TypeOK, Call
  <2>2. UNCHANGED <<task, fpc, runner>>
    BY <1>12 DEF ReturnResult
  <2>3. QED
    BY <2>1, <2>2 DEF Phase, Outcome, Ended
<1>13. QED
  BY <1>1, <1>2, <1>3, <1>4, <1>5, <1>6, <1>7, <1>8, <1>9, <1>10, <1>11, <1>12, SMTT(30)
     DEF HandlerStep

\* Every step of task_finalizer keeps the run in step.
LEMMA FinalizerPhase ==
  ASSUME TypeOK, NEW r \in Runs, Phase(r), Outcome(r), FinalizerStep(r)
  PROVE  Phase(r)' /\ Outcome(r)'
<1>1. call[r].pc \in HandlerPCs
  BY DEF TypeOK, Call
<1>2. CASE FinalizerDown(r)
  <2>1. /\ call[r].pc \notin {"idle", "done", "oops"}
        /\ fpc[r] = "wait" /\ fpc'[r] = "check"
    BY <1>2 DEF FinalizerDown, Active, FinalizerGoto, TypeOK
  <2>2. /\ task[r].finalizer_start > 0
        /\ task'[r].finalizer_start = task[r].finalizer_start - 1
        /\ task'[r].exec_start = task[r].exec_start
        /\ task'[r].finalizer_end = task[r].finalizer_end
        /\ task'[r].finalizer_should_not_run = task[r].finalizer_should_not_run
        /\ task'[r].ret = task[r].ret
        /\ task'[r].finalize_ret = task[r].finalize_ret
    BY <1>2 DEF FinalizerDown, TypeOK, Task
  <2>3. UNCHANGED <<call, runner>>
    BY <1>2, SMTT(30) DEF FinalizerDown
  <2>4. QED
    BY <1>1, <2>1, <2>2, <2>3 DEF Phase, Outcome, Ended, HandlerPCs
<1>3. CASE FinalizerCheck(r)
  <2>1. /\ call[r].pc \notin {"idle", "done", "oops"}
        /\ fpc[r] = "check"
        /\ fpc'[r] = IF task[r].finalizer_should_not_run THEN "done" ELSE "stop"
    BY <1>3 DEF FinalizerCheck, Active, FinalizerGoto, TypeOK
  <2>2. UNCHANGED <<call, task, runner>>
    BY <1>3, SMTT(30) DEF FinalizerCheck
  <2>3. QED
    BY <1>1, <2>1, <2>2 DEF Phase, Outcome, Ended, HandlerPCs
<1>4. CASE FinalizerStale(r)
  <2>1. /\ call[r].pc \in {"idle", "done", "oops"}
        /\ fpc[r] \in {"wait", "check"} /\ fpc'[r] \in {"done", "stray"}
    BY <1>4 DEF FinalizerStale, Active, TypeOK
  <2>2. UNCHANGED <<call, task, runner>>
    BY <1>4, ZenonT(30) DEF FinalizerStale
  <2>3. QED
    BY <2>1, <2>2 DEF Phase, Outcome, Ended
<1>5. CASE KthreadStop(r)
  <2>1. fpc[r] = "stop" /\ fpc'[r] = "join"
    BY <1>5 DEF KthreadStop, FinalizerGoto, TypeOK
  <2>2. /\ runner'[r].pc = runner[r].pc /\ runner'[r].usage = runner[r].usage
        /\ runner'[r].exit = runner[r].exit
    BY <1>5 DEF KthreadStop, TypeOK, Runner
  <2>3. UNCHANGED <<call, task>>
    BY <1>5, SMTT(30) DEF KthreadStop
  <2>4. QED
    BY <1>1, <2>1, <2>2, <2>3 DEF Phase, Outcome, Ended, HandlerPCs
<1>6. CASE KthreadJoin(r)
  <2>1. Ended(r) /\ fpc[r] = "join" /\ fpc'[r] = "up"
    BY <1>6 DEF KthreadJoin, FinalizerGoto, TypeOK
  <2>2. /\ task'[r].finalize_ret = ExitCode[runner[r].exit]
        /\ task'[r].exec_start = task[r].exec_start
        /\ task'[r].finalizer_start = task[r].finalizer_start
        /\ task'[r].finalizer_end = task[r].finalizer_end
        /\ task'[r].finalizer_should_not_run = task[r].finalizer_should_not_run
        /\ task'[r].ret = task[r].ret
    BY <1>6 DEF KthreadJoin, TypeOK, Task
  <2>3. UNCHANGED <<call, runner>>
    BY <1>6, SMTT(30) DEF KthreadJoin
  <2>4. QED
    BY <1>1, <2>1, <2>2, <2>3 DEF Phase, Outcome, Ended, HandlerPCs
<1>7. CASE FinalizerUp(r)
  <2>1. fpc[r] = "up" /\ fpc'[r] = "done"
    BY <1>7 DEF FinalizerUp, FinalizerGoto, TypeOK
  <2>2. /\ task'[r].finalizer_end = task[r].finalizer_end + 1
        /\ task'[r].exec_start = task[r].exec_start
        /\ task'[r].finalizer_start = task[r].finalizer_start
        /\ task'[r].finalizer_should_not_run = task[r].finalizer_should_not_run
        /\ task'[r].ret = task[r].ret
        /\ task'[r].finalize_ret = task[r].finalize_ret
    BY <1>7 DEF FinalizerUp, TypeOK, Task
  <2>3. UNCHANGED <<call, runner>>
    BY <1>7 DEF FinalizerUp
  <2>4. QED
    BY <1>1, <2>1, <2>2, <2>3 DEF Phase, Outcome, Ended, HandlerPCs
<1>8. QED
  BY <1>2, <1>3, <1>4, <1>5, <1>6, <1>7 DEF FinalizerStep

\* A runner that is past its start and goes on without ending leaves the
\* protocol as it is.
LEMMA RunnerGoesOn ==
  ASSUME TypeOK, NEW r \in Runs, Phase(r), Outcome(r),
         UNCHANGED <<call, task, fpc>>,
         \/ InCoroutine(r) /\ InCoroutine(r)'
         \/ Ended(r) /\ Ended(r)',
         runner'[r].usage = runner[r].usage,
         runner'[r].should_stop = runner[r].should_stop,
         runner'[r].exit = runner[r].exit
  PROVE  Phase(r)' /\ Outcome(r)'
<1>1. Phase(r)'
  BY SMTT(30) DEF Phase, Ended, InCoroutine
<1>2. Outcome(r)'
  BY DEF Outcome, Ended, InCoroutine
<1>3. QED
  BY <1>1, <1>2, SMTT(30)

\* A runner may end wherever it is in the coroutine.
LEMMA RunnerEnds ==
  ASSUME TypeOK, NEW r \in Runs, Phase(r), Outcome(r),
         NEW how \in Exits \ {"running", "eintr"},
         InCoroutine(r), RunnerExit(r, how), UNCHANGED <<call, fpc>>,
         \/ UNCHANGED task
         \/ how = "return" /\ task' = [task EXCEPT ![r].ret = 1]
  PROVE  Phase(r)' /\ Outcome(r)'
<1>1. call[r].pc \in HandlerPCs /\ fpc[r] \in FinalizerPCs
  BY DEF TypeOK, Call
<1>2. /\ runner'[r].pc = "exited" /\ runner'[r].exit = how
      /\ runner'[r].usage = runner[r].usage
      /\ runner'[r].should_stop = runner[r].should_stop
  BY DEF RunnerExit, TypeOK, Runner
<1>3. /\ task'[r].exec_start = task[r].exec_start
      /\ task'[r].finalizer_start = task[r].finalizer_start
      /\ task'[r].finalizer_end = task[r].finalizer_end
      /\ task'[r].finalizer_should_not_run = task[r].finalizer_should_not_run
      /\ task'[r].finalize_ret = task[r].finalize_ret
      /\ task'[r].ret = 1 => how = "return"
  BY DEF Outcome, InCoroutine, Ended, TypeOK, Task
<1>4. Phase(r)'
  BY <1>1, <1>2, <1>3 DEF Phase, Ended, InCoroutine, HandlerPCs
<1>5. call[r].pc \in {"start", "wait", "kill"} /\ fpc[r] \in {"wait", "check", "stop", "join"}
  BY <1>1 DEF Phase, Ended, InCoroutine, HandlerPCs
<1>6. Outcome(r)'
  BY <1>2, <1>3, <1>5 DEF Outcome, Ended, InCoroutine
<1>7. QED
  BY <1>4, <1>6

\* Every step of code_runner outside the guest keeps the run in step.
LEMMA RunnerPhase ==
  ASSUME TypeOK, NEW r \in Runs, Phase(r), Outcome(r), RunnerStep(r)
  PROVE  Phase(r)' /\ Outcome(r)'
<1>1. CASE RunnerStarts(r)
  <2>1. runner[r].pc = "woken" /\ call[r].pc \in HandlerPCs
    BY <1>1 DEF RunnerStarts, RunnerAt, TypeOK, Call
  <2>2. call[r].pc = "start" /\ fpc[r] = "wait" /\ ~runner[r].should_stop
    BY <2>1 DEF Phase, Ended, HandlerPCs
  <2>3. /\ runner' = [runner EXCEPT ![r].pc = "unshare"]
        /\ task' = [task EXCEPT ![r].exec_start = task[r].exec_start + 1]
        /\ UNCHANGED <<call, fpc>>
    BY <1>1, <2>2 DEF RunnerStarts
  <2>4. /\ runner'[r].pc = "unshare" /\ runner'[r].usage = runner[r].usage
        /\ runner'[r].should_stop = runner[r].should_stop
        /\ runner'[r].exit = runner[r].exit
    BY <2>3 DEF TypeOK, Runner
  <2>5. /\ task'[r].exec_start = task[r].exec_start + 1
        /\ task'[r].finalizer_start = task[r].finalizer_start
        /\ task'[r].finalizer_end = task[r].finalizer_end
        /\ task'[r].finalizer_should_not_run = task[r].finalizer_should_not_run
        /\ task'[r].ret = task[r].ret
        /\ task'[r].finalize_ret = task[r].finalize_ret
    BY <2>3 DEF TypeOK, Task
  <2>6. QED
    BY <2>1, <2>2, <2>3, <2>4, <2>5 DEF Phase, Outcome, Ended
<1>2. CASE UnshareFiles(r)
  <2>1. /\ InCoroutine(r) /\ InCoroutine(r)'
        /\ runner'[r].usage = runner[r].usage
        /\ runner'[r].should_stop = runner[r].should_stop
        /\ runner'[r].exit = runner[r].exit
    BY <1>2 DEF UnshareFiles, RunnerGoto, RunnerAt, InCoroutine, TypeOK, Runner
  <2>2. QED
    BY <1>2, <2>1, RunnerGoesOn DEF UnshareFiles
<1>3. ASSUME NEW S, RunnerGivesUp(r, S), InCoroutine(r)
      PROVE  Phase(r)' /\ Outcome(r)'
  <2>1. (IF FputFaults(r, S) THEN "fault" ELSE "return") \in Exits \ {"running", "eintr"}
    BY DEF Exits
  <2>2. QED
    BY <1>3, <2>1, RunnerEnds DEF RunnerGivesUp
<1>4. CASE UnshareFilesFails(r)
  BY <1>3, <1>4 DEF UnshareFilesFails, RunnerAt, InCoroutine
<1>5. ASSUME NEW s \in Stdio, InstallFile(r, s)
      PROVE  Phase(r)' /\ Outcome(r)'
  <2>1. /\ InCoroutine(r)
        /\ InstallNext[s] \in {"stdout", "stderr", "fpu"}
    BY <1>5 DEF InstallFile, RunnerAt, InCoroutine, InstallNext, Stdio
  <2>2. /\ runner'[r].pc = InstallNext[s]
        /\ runner'[r].usage = runner[r].usage
        /\ runner'[r].should_stop = runner[r].should_stop
        /\ runner'[r].exit = runner[r].exit
    BY <1>5 DEF InstallFile, TypeOK, Runner
  <2>3. QED
    BY <1>5, <2>1, <2>2, RunnerGoesOn, Zenon DEF InstallFile, InCoroutine
<1>6. ASSUME NEW s \in Stdio, InstallFileFails(r, s)
      PROVE  Phase(r)' /\ Outcome(r)'
  BY <1>3, <1>6 DEF InstallFileFails, RunnerAt, InCoroutine, Stdio
<1>7. CASE BeginFpu(r)
  <2>1. /\ InCoroutine(r) /\ InCoroutine(r)'
        /\ runner'[r].usage = runner[r].usage
        /\ runner'[r].should_stop = runner[r].should_stop
        /\ runner'[r].exit = runner[r].exit
    BY <1>7 DEF BeginFpu, RunnerAt, InCoroutine, TypeOK, Runner
  <2>2. QED
    BY <1>7, <2>1, RunnerGoesOn, Zenon DEF BeginFpu
<1>8. CASE InvalidParamCount(r)
  <2>1. "return" \in Exits \ {"running", "eintr"} /\ InCoroutine(r)
    BY <1>8 DEF Exits, InvalidParamCount, RunnerAt, InCoroutine
  <2>2. QED
    BY <1>8, <2>1, RunnerEnds DEF InvalidParamCount
<1>9. CASE CallGuest(r)
  <2>1. /\ InCoroutine(r) /\ InCoroutine(r)'
        /\ runner'[r].usage = runner[r].usage
        /\ runner'[r].should_stop = runner[r].should_stop
        /\ runner'[r].exit = runner[r].exit
    BY <1>9 DEF CallGuest, RunnerAt, InCoroutine, TypeOK, Runner
  <2>2. QED
    BY <1>9, <2>1, RunnerGoesOn, Zenon DEF CallGuest
<1>10. CASE ExitFiles(r)
  <2>1. /\ Ended(r) /\ Ended(r)'
        /\ runner'[r].usage = runner[r].usage
        /\ runner'[r].should_stop = runner[r].should_stop
        /\ runner'[r].exit = runner[r].exit
    BY <1>10 DEF ExitFiles, RunnerAt, Ended, TypeOK, Runner
  <2>2. QED
    BY <1>10, <2>1, RunnerGoesOn, Zenon DEF ExitFiles
<1>11. CASE LastSwitch(r)
  <2>1. /\ Ended(r) /\ Ended(r)'
        /\ runner'[r].usage = runner[r].usage
        /\ runner'[r].should_stop = runner[r].should_stop
        /\ runner'[r].exit = runner[r].exit
    BY <1>11 DEF LastSwitch, RunnerGoto, RunnerAt, Ended, TypeOK, Runner
  <2>2. QED
    BY <1>11, <2>1, RunnerGoesOn DEF LastSwitch
<1>12. QED
  BY <1>1, <1>2, <1>4, <1>5, <1>6, <1>7, <1>8, <1>9, <1>10, <1>11 DEF RunnerStep

\* Every step of the guest keeps the run in step.
LEMMA GuestPhase ==
  ASSUME TypeOK, NEW r \in Runs, Phase(r), Outcome(r), GuestStep(r)
  PROVE  Phase(r)' /\ Outcome(r)'
<1>1. {"return", "fault", "exit0", "exit1", "clobbered"} \subseteq Exits \ {"running", "eintr"}
  BY DEF Exits
<1>2. CASE GuestReturns(r)
  BY <1>1, <1>2, RunnerEnds, Zenon DEF GuestReturns, RunnerAt, InCoroutine
<1>3. CASE GuestFaults(r)
  BY <1>1, <1>3, RunnerEnds DEF GuestFaults, RunnerAt, InCoroutine
<1>4. CASE HostCall(r) \/ HostReturns(r)
  <2>1. /\ InCoroutine(r) /\ InCoroutine(r)'
        /\ runner'[r].usage = runner[r].usage
        /\ runner'[r].should_stop = runner[r].should_stop
        /\ runner'[r].exit = runner[r].exit
    BY <1>4 DEF HostCall, HostReturns, RunnerGoto, RunnerAt, InCoroutine, TypeOK, Runner
  <2>2. QED
    BY <1>4, <2>1, RunnerGoesOn DEF HostCall, HostReturns
<1>5. CASE ProcExit(r)
  <2>1. PICK how \in {"exit0", "exit1"} : RunnerExit(r, how)
    BY <1>5 DEF ProcExit
  <2>2. QED
    BY <1>1, <1>5, <2>1, RunnerEnds DEF ProcExit, RunnerAt, InCoroutine
<1>6. CASE StackClobbered(r)
  <2>1. CASE InCoroutine(r) /\ RunnerExit(r, "clobbered")
    BY <1>1, <1>6, <2>1, RunnerEnds DEF StackClobbered
  <2>2. CASE Ended(r) /\ runner' = [runner EXCEPT ![r].pc = "stuck"]
    <3>1. /\ Ended(r)'
          /\ runner'[r].usage = runner[r].usage
          /\ runner'[r].should_stop = runner[r].should_stop
          /\ runner'[r].exit = runner[r].exit
      BY <2>2 DEF Ended, TypeOK, Runner
    <3>2. QED
      BY <1>6, <2>2, <3>1, RunnerGoesOn DEF StackClobbered
  <2>3. QED
    BY <1>6, <2>1, <2>2 DEF StackClobbered
<1>7. QED
  BY <1>2, <1>3, <1>4, <1>5, <1>6 DEF GuestStep

\* A step of one run leaves the threads of every other run where they are.
LEMMA OtherRuns ==
  ASSUME TypeOK, NEW r \in Runs, RunStep(r), NEW q \in Runs \ {r}
  PROVE  /\ call'[q] = call[q] /\ task'[q] = task[q]
         /\ fpc'[q] = fpc[q] /\ runner'[q] = runner[q]
<1>1. CASE RejectRequest(r) \/ BeginRun(r) \/ SignalArrives(r)
  BY <1>1 DEF RejectRequest, BeginRun, SignalArrives, TypeOK
<1>2. CASE HandlerStep(r)
  BY <1>2 DEF HandlerStep, StartFinalizer, StartFinalizerFails, CreateRunner,
              CreateRunnerFails, Bail, GiveUp, WakeRunner, AwaitStart, AwaitEnd,
              Interrupted, KillRunner, Collect, RestoreCode, ReturnResult,
              HandlerGoto, TypeOK
<1>3. CASE FinalizerStep(r)
  BY <1>3 DEF FinalizerStep, FinalizerDown, FinalizerCheck, FinalizerStale,
              KthreadStop, KthreadJoin, FinalizerUp, FinalizerGoto, TypeOK
<1>4. CASE RunnerStep(r)
  BY <1>4, Zenon DEF RunnerStep, RunnerStarts, UnshareFiles, UnshareFilesFails, InstallFile,
              InstallFileFails, RunnerGivesUp, BeginFpu, InvalidParamCount,
              CallGuest, ExitFiles, LastSwitch, RunnerGoto, RunnerExit, TypeOK
<1>5. CASE GuestStep(r)
  BY <1>5 DEF GuestStep, GuestReturns, GuestFaults, HostCall, HostReturns, ProcExit,
              StackClobbered, RunnerGoto, RunnerExit, TypeOK
<1>6. QED
  BY <1>1, <1>2, <1>3, <1>4, <1>5 DEF RunStep

-----------------------------------------------------------------------------
(* The execute permission of the code pages. *)

\* Steps that neither change the permission nor move a handler.
LEMMA NxFrame ==
  ASSUME NxOwned, UNCHANGED <<sess, call>>
  PROVE  NxOwned'
BY DEF NxOwned

\* A step of the handler that leaves the permission alone keeps its owner.
LEMMA NxKept ==
  ASSUME NxOwned, TypeOK, NEW r \in Runs, sess'.code_nx => sess.code_nx,
         \A q \in Runs \ {r} : call'[q] = call[q],
         \/ call[r].pc \notin {"wait", "kill", "collect", "restore"}
         \/ /\ call'[r].pc \in {"wait", "kill", "collect", "restore"}
            /\ call'[r].made_nx = call[r].made_nx
  PROVE  NxOwned'
BY DEF NxOwned

\* The handler takes the permission away in its own name, and gives it back.
LEMMA NxHandler ==
  ASSUME NxOwned, TypeOK, NEW r \in Runs, HandlerStep(r)
  PROVE  NxOwned'
<1>1. \A q \in Runs \ {r} : call'[q] = call[q]
  BY OtherRuns DEF RunStep
<1>2. CASE \/ StartFinalizer(r) \/ CreateRunner(r) \/ CreateRunnerFails(r)
           \/ WakeRunner(r) \/ AwaitStart(r)
  <2>1. call[r].pc \in {"finalizer", "runner", "wake", "start"} /\ sess' = sess
    BY <1>2 DEF StartFinalizer, CreateRunner, CreateRunnerFails, WakeRunner,
                AwaitStart, HandlerGoto, HandlerAt
  <2>2. QED
    BY <1>1, <2>1, NxKept
<1>3. CASE StartFinalizerFails(r) \/ Bail(r) \/ ReturnResult(r)
  <2>1. call[r].pc \in {"finalizer", "bail", "return"} /\ sess' = sess
    BY <1>3 DEF StartFinalizerFails, Bail, ReturnResult, GiveUp, HandlerAt
  <2>2. QED
    BY <1>1, <2>1, NxKept
<1>4. CASE AwaitEnd(r) \/ KillRunner(r) \/ Collect(r)
  <2>1. /\ call'[r].pc \in {"wait", "collect", "restore"}
        /\ call'[r].made_nx = call[r].made_nx
        /\ sess' = sess
    BY <1>4 DEF AwaitEnd, KillRunner, Collect, HandlerGoto, TypeOK, Call
  <2>2. QED
    BY <1>1, <2>1, NxKept
<1>5. CASE Interrupted(r)
  <2>1. call'[r].pc = "kill" /\ call'[r].made_nx = TRUE
    BY <1>5 DEF Interrupted, TypeOK, Call
  <2>2. QED
    BY <2>1 DEF NxOwned
<1>6. CASE RestoreCode(r)
  <2>1. sess'.code_nx => sess.code_nx /\ ~call[r].made_nx
    BY <1>6, Zenon DEF RestoreCode, TypeOK, Session
  <2>2. QED
    BY <1>1, <2>1 DEF NxOwned
<1>7. QED
  BY <1>2, <1>3, <1>4, <1>5, <1>6 DEF HandlerStep

\* Every step of a run keeps the owner of the missing permission.
LEMMA NxStep ==
  ASSUME NxOwned, TypeOK, NEW r \in Runs, RunStep(r)
  PROVE  NxOwned'
<1>1. \A q \in Runs \ {r} : call'[q] = call[q]
  BY OtherRuns
<1>2. CASE RejectRequest(r) \/ BeginRun(r)
  <2>1. call[r].pc = "idle" /\ sess' = sess
    BY <1>2 DEF RejectRequest, BeginRun, MayEnter, HandlerAt
  <2>2. QED
    BY <1>1, <2>1, NxKept
<1>3. CASE SignalArrives(r)
  <2>1. call'[r].pc = call[r].pc /\ call'[r].made_nx = call[r].made_nx /\ sess' = sess
    BY <1>3 DEF SignalArrives, TypeOK, Call
  <2>2. QED
    BY <1>1, <2>1, NxKept
<1>4. CASE HandlerStep(r)
  BY <1>4, NxHandler
<1>5. CASE FinalizerStep(r)
  BY <1>5, NxFrame DEF FinalizerStep, FinalizerDown, FinalizerCheck, FinalizerStale,
                       KthreadStop, KthreadJoin, FinalizerUp
<1>6. CASE RunnerStep(r)
  BY <1>6, NxFrame, Zenon DEF RunnerStep, RunnerStarts, UnshareFiles, UnshareFilesFails,
                       InstallFile, InstallFileFails, RunnerGivesUp, BeginFpu,
                       InvalidParamCount, CallGuest, ExitFiles, LastSwitch
<1>7. CASE GuestStep(r)
  BY <1>7, NxFrame DEF GuestStep, GuestReturns, GuestFaults, HostCall, HostReturns,
                       ProcExit, StackClobbered
<1>8. QED
  BY <1>2, <1>3, <1>4, <1>5, <1>6, <1>7 DEF RunStep

-----------------------------------------------------------------------------
(* The inductive invariant. *)

Inv == TypeOK /\ Protocol /\ NxOwned

\* The initial state satisfies the invariant.
LEMMA InitInv == Init => Inv
<1> SUFFICES ASSUME Init PROVE Inv
  OBVIOUS
<1>1. /\ "idle" \in HandlerPCs /\ "none" \in Results /\ "none" \in FinalizerPCs
      /\ "none" \in RunnerPCs /\ "running" \in Exits
  BY DEF HandlerPCs, Results, FinalizerPCs, RunnerPCs, Exits
<1>2. sess \in Session /\ key \in Int /\ late \in BOOLEAN
  <2>1. OtherNotifiers \in Int
    BY RunCodeAssumption
  <2>2. sess \in Session
    BY DEF Init, Session
  <2>3. QED
    BY <2>1, <2>2, Zenon DEF Init
<1>3. call \in [Runs -> Call]
  BY <1>1 DEF Init, Call
<1>4. task \in [Runs -> Task]
  BY DEF Init, Task
<1>5. runner \in [Runs -> Runner]
  BY <1>1 DEF Init, Runner
<1>6. fpc \in [Runs -> FinalizerPCs] /\ refs \in [Runs -> [Stdio -> Int]]
  BY <1>1 DEF Init
<1>7. TypeOK
  BY <1>2, <1>3, <1>4, <1>5, <1>6 DEF TypeOK
<1>8. Protocol
  BY DEF Init, Protocol, Phase, Outcome, Ended
<1>9. NxOwned
  BY DEF Init, NxOwned
<1>10. QED
  BY <1>7, <1>8, <1>9 DEF Inv

\* Every step preserves the invariant.
LEMMA NextInv == Inv /\ [Next]_vars => Inv'
<1> SUFFICES ASSUME Inv, [Next]_vars PROVE Inv'
  OBVIOUS
<1>1. TypeOK /\ Protocol /\ NxOwned
  BY DEF Inv
<1>2. CASE LoadCode \/ Release
  <2>1. /\ sess' \in Session /\ sess'.code_nx = sess.code_nx
        /\ UNCHANGED <<key, call, task, fpc, runner, refs, late>>
    BY <1>1, <1>2 DEF LoadCode, Release, TypeOK, Session
  <2>2. TypeOK'
    BY <1>1, <2>1, SMTT(30) DEF TypeOK
  <2>3. Protocol'
    BY <1>1, <2>1 DEF Protocol, Phase, Outcome, Ended
  <2>4. NxOwned'
    BY <1>1, <2>1 DEF NxOwned
  <2>5. QED
    BY <2>2, <2>3, <2>4 DEF Inv
<1>3. CASE UNCHANGED vars
  <2>1. UNCHANGED <<sess, key, call, task, fpc, runner, refs, late>>
    BY <1>3 DEF vars
  <2>2. TypeOK'
    BY <1>1, <2>1, SMTT(30) DEF TypeOK
  <2>3. Protocol'
    BY <1>1, <2>1 DEF Protocol, Phase, Outcome, Ended
  <2>4. QED
    BY <1>1, <2>1, <2>2, <2>3, NxFrame DEF Inv
<1>4. ASSUME NEW r \in Runs, RunStep(r)
      PROVE  Inv'
  <2>1. Phase(r) /\ Outcome(r)
    BY <1>1 DEF Protocol
  <2>2. TypeOK'
    BY <1>1, <1>4, <2>1, EnterTypes, HandlerTypes, FinalizerTypes, RunnerTypes, GuestTypes
       DEF RunStep
  <2>3. Phase(r)' /\ Outcome(r)'
    BY <1>1, <1>4, <2>1, EnterPhase, HandlerPhase, FinalizerPhase, RunnerPhase, GuestPhase, ZenonT(30)
       DEF RunStep
  <2>4. ASSUME NEW q \in Runs \ {r}
        PROVE  Phase(q)' /\ Outcome(q)'
    <3>1. Phase(q) /\ Outcome(q)
      BY <1>1, ZenonT(30) DEF Protocol
    <3>2. /\ call'[q] = call[q] /\ task'[q] = task[q]
          /\ fpc'[q] = fpc[q] /\ runner'[q] = runner[q]
      BY <1>1, <1>4, OtherRuns
    <3>3. QED
      BY <3>1, <3>2 DEF Phase, Outcome, Ended
  <2>5. Protocol'
    BY <2>3, <2>4 DEF Protocol
  <2>6. NxOwned'
    BY <1>1, <1>4, NxStep
  <2>7. QED
    BY <2>2, <2>5, <2>6 DEF Inv
<1>5. QED
  BY <1>2, <1>3, <1>4 DEF Next, Terminated

-----------------------------------------------------------------------------
(* The theorems. *)

\* The invariant holds in every reachable state.
LEMMA Invariance == Spec => []Inv
<1>1. Init => Inv
  BY InitInv
<1>2. Inv /\ [Next]_vars => Inv'
  BY NextInv
<1>3. QED
  BY <1>1, <1>2, PTL DEF Spec

\* Type correctness: in particular no semaphore and no use count of a
\* task_struct goes below zero, however the threads of however many runs
\* interleave.
THEOREM TypeCorrect == Spec => []TypeOK
<1>1. Inv => TypeOK
  BY DEF Inv
<1>2. QED
  BY <1>1, Invariance, PTL

\* The hand-over protocol of handle_wasm_run_code, code_runner and
\* task_finalizer.
THEOREM ProtocolHolds == Spec => []Protocol
<1>1. Inv => Protocol
  BY DEF Inv
<1>2. QED
  BY <1>1, Invariance, PTL

\* No thread uses the task structure after handle_wasm_run_code has returned,
\* except the finalizer of a run whose kthread_create failed.
THEOREM FrameIsSafe == Spec => []FrameSafe
<1>1. Inv => FrameSafe
  <2> SUFFICES ASSUME TypeOK, Protocol, NEW r \in Runs, UsesFrame(r)
               PROVE  Active(r) \/ (task[r].finalizer_should_not_run /\ runner[r].pc = "none")
    BY DEF Inv, FrameSafe
  <2>1. Phase(r) /\ call[r].pc \in HandlerPCs
    BY DEF Protocol, TypeOK, Call
  <2>2. QED
    BY <2>1 DEF Phase, Ended, UsesFrame, InCoroutine, Active, HandlerPCs
<1>2. QED
  BY <1>1, Invariance, PTL

\* kthread_stop never cancels a runner before it has started.
THEOREM NeverCancelled == Spec => []RunnerNeverCancelled
<1>1. Inv => RunnerNeverCancelled
  BY SMTT(30) DEF Inv, Protocol, Outcome, RunnerNeverCancelled
<1>2. QED
  BY <1>1, Invariance, PTL

\* The runner's task_struct outlives every call on it, by get_task_struct.
THEOREM TaskIsPinned == Spec => []TaskPinned
<1>1. Inv => TaskPinned
  <2> SUFFICES ASSUME TypeOK, Protocol, NEW r \in Runs,
                      fpc[r] = "stop" \/ call[r].pc \in {"wake", "start", "kill", "collect"}
               PROVE  runner[r].pc # "none" /\ (runner[r].pc # "dead" \/ runner[r].usage > 0)
    BY DEF Inv, TaskPinned
  <2>1. Phase(r) /\ call[r].pc \in HandlerPCs
    BY DEF Protocol, TypeOK, Call
  <2>2. QED
    BY <2>1 DEF Phase, Ended, HandlerPCs
<1>2. QED
  BY <1>1, Invariance, PTL

\* The result that the user reads is the one the runner ended with.
THEOREM ResultIsTrue == Spec => []ResultTrue
<1>1. Inv => ResultTrue
  <2> SUFFICES ASSUME TypeOK, NEW r \in Runs, Outcome(r),
                      call[r].result \in {"fail", "ok0", "ok1"}
               PROVE  /\ Ended(r)
                      /\ call[r].result = "fail" =>
                           runner[r].exit \in {"fault", "clobbered", "exit1"}
                      /\ call[r].result = "ok0" =>
                           runner[r].exit \in {"return", "exit0"} /\ task[r].ret = 0
                      /\ call[r].result = "ok1" =>
                           runner[r].exit = "return" /\ task[r].ret = 1
    BY DEF Inv, Protocol, ResultTrue
  <2>1. runner[r].exit \in Exits /\ task[r].ret \in {0, 1}
    BY DEF TypeOK, Runner, Task
  <2>2. QED
    BY <2>1 DEF Outcome, Exits, ExitCode
<1>2. QED
  BY <1>1, Invariance, PTL

\* A run that makes the code pages non-executable makes them executable again
\* before it ends, and no other run is left with the damage.
THEOREM NxIsOwned == Spec => []NxOwned
<1>1. Inv => NxOwned
  BY DEF Inv
<1>2. QED
  BY <1>1, Invariance, PTL
=============================================================================
