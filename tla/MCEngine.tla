------------------------------ MODULE MCEngine ------------------------------
(* Instances of Engine for TLC.  An OS page has two bytes, a WebAssembly page  *)
(* two OS pages: the smallest sizes at which a length can be off by a byte and *)
(* a memory off by an OS page.                                                 *)
EXTENDS EngineMemory, TLC

Globals == {"globals_ptr", "globals"}

\* Every length from none to the maximum, with every combination of the other
\* parts.
AnyRequest ==
  {[memory_len |-> n, parts |-> p] :
     n \in 0 .. MAX_MEMORY_SIZE,
     p \in {q \in SUBSET Parts : q \cap Globals \in {{}, Globals}}}

\* A request for two pages of memory and no other part.
OnlyMemory == {[memory_len |-> 2 * PAGE_SIZE, parts |-> {}]}

=============================================================================
