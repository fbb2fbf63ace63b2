---------------------------- MODULE EngineMemory ----------------------------
(* Engine implements LinearMemory. *)
EXTENDS Engine

\* The bytes that a user of the session can reach: below the bound, and on a
\* page that is mapped and is still the engine's.
Reachable ==
  {byte \in 0 .. ee.memory_bound - 1 :
     Usable /\ mapping[byte \div PAGE_SIZE] \in allocated \ lost}

Memory == INSTANCE LinearMemory WITH memory <- Reachable, using <- slice

\* Seen through its bound and its page table the engine's memory is the
\* one that LinearMemory describes: memory.grow takes effect in a single step
\* although it allocates, maps and counts page by page and may fail at each,
\* a failed load shows nothing, and nothing vanishes under a copy.
GrowsAtomically == Memory!Spec
=============================================================================
