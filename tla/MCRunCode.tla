----------------------------- MODULE MCRunCode -----------------------------
(* Instances of RunCode for TLC. *)
EXTENDS RunCodeService, TLC

CONSTANTS r1, r2, t1, t2

\* One thread that runs once or twice, or one run on each of two threads.
OneRun   == [r \in {r1} |-> t1]
InTurn   == [r \in {r1, r2} |-> t1]
Parallel == [r \in {r1, r2} |-> IF r = r1 THEN t1 ELSE t2]

NoFailures  == {}
AllFailures == Services

AllOpen == {Stdio}
AnyOpen == SUBSET Stdio

\* The two runs of Parallel can be exchanged: a run only asks whether another
\* is on the same thread.
RunSymmetry == Permutations({r1, r2})
=============================================================================
