---------------------------- MODULE LinearMemory ----------------------------
(***************************************************************************)
(* What a session promises of the guest's linear memory, whatever page     *)
(* tables, page arrays and failures are behind it: it appears at once, it  *)
(* grows by whole WebAssembly pages, at once or not at all, it never       *)
(* shrinks, and it goes away when nobody is using it.                      *)
(***************************************************************************)
EXTENDS Integers

CONSTANTS Copiers, WASM_PAGE_SIZE, STATIC_MEMORY_AVAILABLE

VARIABLES
  memory,   \* the bytes that can be read and written
  using     \* the bytes each copier is reading or writing

vars == <<memory, using>>

Bytes(n) == 0 .. n - 1

Init ==
  /\ memory = {}
  /\ using = [c \in Copiers |-> {}]

\* A load succeeds.
Appear(n) ==
  /\ memory = {}
  /\ memory' = Bytes(n)
  /\ UNCHANGED using

\* memory.grow succeeds.
Grow(n, d) ==
  /\ memory = Bytes(n)
  /\ memory' = Bytes(n + d * WASM_PAGE_SIZE)
  /\ UNCHANGED using

Use(c, bytes) ==
  /\ using[c] = {}
  /\ bytes \subseteq memory
  /\ using' = [using EXCEPT ![c] = bytes]
  /\ UNCHANGED memory

Leave(c) ==
  /\ using' = [using EXCEPT ![c] = {}]
  /\ UNCHANGED memory

\* The session is closed.
Vanish ==
  /\ \A c \in Copiers : using[c] = {}
  /\ memory' = {}
  /\ UNCHANGED using

Next ==
  \/ \E n \in 1 .. STATIC_MEMORY_AVAILABLE :
       \/ Appear(n)
       \/ \E d \in 1 .. STATIC_MEMORY_AVAILABLE - n : Grow(n, d)
  \/ \E c \in Copiers :
       \/ Leave(c)
       \/ \E n, m \in 0 .. STATIC_MEMORY_AVAILABLE : Use(c, n .. m)
  \/ Vanish

Spec == Init /\ [][Next]_vars
=============================================================================
