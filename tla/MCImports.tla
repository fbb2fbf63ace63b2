----------------------------- MODULE MCImports -----------------------------
(* An instance of Imports for TLC: the two modules of the repository. *)
EXTENDS Imports, TLC

CONSTANTS wasi, networking, e1

MCProvides == (wasi :> Wasi) @@ (networking :> Networking)

MCNames == DOMAIN Wasi \cup DOMAIN Networking
=============================================================================
