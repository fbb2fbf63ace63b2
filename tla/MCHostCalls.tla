---------------------------- MODULE MCHostCalls ----------------------------
(* An instance of HostCalls for TLC. *)
EXTENDS HostCalls, TLC

\* Offsets, lengths and counts for a memory of 16 bytes and an empty one.  2^32
\* is 88 here.  An address of 15 bytes at 1 ends at the bound, and bind goes one
\* byte behind it; the second iovec at 0 + 8 ends there too, the one at 1 + 8
\* does not fit.  One event fits; the size of 15 events, 180, wraps to 4.
MCWords == {0, 1, 15}

Symmetry == Permutations(Callers) \cup Permutations(Pool)
=============================================================================
