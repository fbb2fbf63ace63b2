---------------------------- MODULE MCCoroutine ----------------------------
(* An instance of Coroutine for TLC. *)
EXTENDS Coroutine, TLC

\* Contents of registers, told apart from those of the other side.
MCValues == {"v1", "v2", "v3"}
=============================================================================
