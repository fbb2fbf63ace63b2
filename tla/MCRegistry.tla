----------------------------- MODULE MCRegistry -----------------------------
(* Instances of Registry for TLC. *)
EXTENDS Registry, TLC

CONSTANTS wasi, networking, other, e1, e2

\* Imports that one module has, that two have with the same parameter count,
\* and that two have with different ones.
MCNames == {"one", "same", "differs"}

MCProvides ==
  (wasi       :> [one |-> 1, same |-> 2, differs |-> 1]) @@
  (networking :> [same |-> 2, differs |-> 2]) @@
  (other      :> [differs |-> 0])

EngineSymmetry == Permutations(Engines)
=============================================================================
