----------------------------- MODULE RunService -----------------------------
(***************************************************************************)
(* What WASM_RUN_CODE promises its callers, without threads, semaphores or *)
(* task structures: a run is refused, or its guest is started once, ends   *)
(* once with a verdict, and only then is the caller answered, once, with   *)
(* that verdict or with the news that it could not be delivered.           *)
(***************************************************************************)
CONSTANT Runs

VARIABLES
  status,   \* of each run: "before", "refused", "guest" or "over"
  verdict,  \* how its guest ended
  answer    \* what its caller has been told

vars == <<status, verdict, answer>>

Verdicts == {"fail", "ok0", "ok1"}

Init ==
  /\ status = [r \in Runs |-> "before"]
  /\ verdict = [r \in Runs |-> "none"]
  /\ answer = [r \in Runs |-> "none"]

\* A caller that dies on the way is never answered.
Refuse(r) ==
  /\ status[r] = "before"
  /\ status' = [status EXCEPT ![r] = "refused"]
  /\ \E error \in {"EFAULT", "EINVAL", "none"} : answer' = [answer EXCEPT ![r] = error]
  /\ UNCHANGED verdict

Start(r) ==
  /\ status[r] = "before"
  /\ status' = [status EXCEPT ![r] = "guest"]
  /\ UNCHANGED <<verdict, answer>>

End(r) ==
  /\ status[r] = "guest"
  /\ status' = [status EXCEPT ![r] = "over"]
  /\ \E v \in Verdicts : verdict' = [verdict EXCEPT ![r] = v]
  /\ UNCHANGED answer

Answer(r) ==
  /\ status[r] = "over"
  /\ answer[r] = "none"
  /\ \E a \in {verdict[r], "EFAULT"} : answer' = [answer EXCEPT ![r] = a]
  /\ UNCHANGED <<status, verdict>>

Next == \E r \in Runs : Refuse(r) \/ Start(r) \/ End(r) \/ Answer(r)

Spec == Init /\ [][Next]_vars
=============================================================================
