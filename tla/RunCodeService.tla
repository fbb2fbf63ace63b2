--------------------------- MODULE RunCodeService ---------------------------
(* RunCode implements RunService. *)
EXTENDS RunCode

\* The runner has not come to code_runner_inner yet.
Waiting(r) == runner[r].pc \in {"none", "created", "woken"}

GuestStatus(r) ==
  IF Ended(r) THEN "over"
  ELSE IF ~Waiting(r) THEN "guest"
  ELSE IF runner[r].pc = "none" /\ call[r].pc \in {"done", "oops"} THEN "refused"
  ELSE "before"

\* How the runner ended: with a status other than 0, or with 0 and the value
\* that the guest left in the task structure.
Verdict(r) ==
  IF ~Ended(r) THEN "none"
  ELSE IF ExitCode[runner[r].exit] # 0 THEN "fail"
  ELSE IF task[r].ret = 0 THEN "ok0" ELSE "ok1"

Answered(r) == IF call[r].pc = "done" THEN call[r].result ELSE "none"

Service == INSTANCE RunService WITH
             status  <- [r \in Runs |-> GuestStatus(r)],
             verdict <- [r \in Runs |-> Verdict(r)],
             answer  <- [r \in Runs |-> Answered(r)]

\* Three threads, three semaphores and forced termination behave, for the
\* caller, like one procedure call on the guest: handle_wasm_run_code answers
\* once, after the runner's end, and with the runner's own verdict.
ServesRuns == Service!Spec
=============================================================================
