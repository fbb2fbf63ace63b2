------------------------------- MODULE Engine -------------------------------
(***************************************************************************)
(* The execution engine of one session (vm.c) and its linear memory:       *)
(* WASM_LOAD_CODE builds it in stages, each of which can fail; the guest   *)
(* grows its memory (memory.grow) while other threads copy from and to it  *)
(* (WASM_READ_MEMORY, WASM_WRITE_MEMORY, the slices of host functions);    *)
(* wd_release destroys it.  Nothing in the code keeps two threads from      *)
(* loading one session, or two runs from growing its memory, at once.      *)
(*                                                                         *)
(* Sizes are in bytes of a scaled-down machine: only their order and       *)
(* divisibility matter.  The contents of code, globals, tables and memory  *)
(* are left out.                                                           *)
(***************************************************************************)
EXTENDS Integers, FiniteSets

CONSTANTS
  PAGE_SIZE,                \* an OS page
  WASM_PAGE_SIZE,           \* 65536: the unit of memory.grow
  MAX_MEMORY_SIZE,
  STATIC_MEMORY_AVAILABLE,
  Loaders,                  \* threads that may load the session
  Requests,                 \* the load_code_requests a user may send
  Guests,                   \* runs that may call memory.grow
  GrowPages,                \* the arguments of memory.grow
  Copiers,                  \* threads that copy from or to the memory
  Pages                     \* physical pages of the machine

\* What hangs off the execution engine.  The resolver, the code and the stack
\* are always there; the rest depends on the request.
Parts   == {"globals_ptr", "globals", "imported_funcs", "dynamic_sigindices",
            "table"}
Buffers == {"resolver", "code", "static_memory_vm", "memory_pages", "stack"}
             \cup Parts

Request == [memory_len : Nat, parts : SUBSET Parts]

ASSUME EngineAssumption ==
  /\ PAGE_SIZE \in Nat \ {0}
  /\ WASM_PAGE_SIZE \in Nat \ {0} /\ WASM_PAGE_SIZE % PAGE_SIZE = 0
  /\ MAX_MEMORY_SIZE \in Nat
  /\ STATIC_MEMORY_AVAILABLE \in Nat /\ STATIC_MEMORY_AVAILABLE % PAGE_SIZE = 0
  /\ MAX_MEMORY_SIZE < STATIC_MEMORY_AVAILABLE
  /\ Requests \subseteq Request
  /\ GrowPages \subseteq Nat
  /\ Pages \subseteq Nat

VARIABLES
  sess,       \* the descriptor, and sess->ready
  load,       \* each WASM_LOAD_CODE: the stage it has reached, its variables
  ee,         \* struct execution_engine
  guard_ro,   \* the guard pages of the stack are read-only
  heap,       \* ledger: live allocations of each kind of buffer
  allocated,  \* ledger: physical pages handed out and not freed
  mapping,    \* the page table of the static memory area, by page number
  grow,       \* the memory.grow of each run
  slice,      \* the bytes each copier has been granted and is using
  lost        \* history: pages forgotten by a memory.grow that failed

vars == <<sess, load, ee, guard_ro, heap, allocated, mapping, grow, slice, lost>>

NULL    == -1
Slots   == 0 .. (STATIC_MEMORY_AVAILABLE \div PAGE_SIZE) - 1
NoPages == [i \in Slots |-> NULL]

\* The engine after memset; ptr is the set of its pointers that are not NULL.
Zeroed == [ptr |-> {}, memory_pages |-> NoPages, memory_page_count |-> 0,
           memory_base |-> FALSE, memory_bound |-> 0]

NoLoad == [pc |-> "idle", memory_len |-> 0, parts |-> {}, i |-> 0,
           pages_allocated_without_mapping |-> FALSE]

NoGrow == [pc |-> "idle", old_size |-> 0, delta |-> 0, i |-> 0]

Init ==
  /\ sess = [pc |-> "open", ready |-> FALSE]
  /\ load = [l \in Loaders |-> NoLoad]
  /\ ee = Zeroed
  /\ guard_ro = FALSE
  /\ heap = [b \in Buffers |-> 0]
  /\ allocated = {}
  /\ mapping = NoPages
  /\ grow = [g \in Guests |-> NoGrow]
  /\ slice = [c \in Copiers |-> {}]
  /\ lost = {}

-----------------------------------------------------------------------------
(* The kernel's allocators. *)

\* Which of the free pages alloc_page returns does not matter.
FreePages == Pages \ allocated
AllocPage == CHOOSE p \in FreePages : TRUE

\* The page table when map_kernel_range_noflush has mapped k pages of the
\* array, from index i on, at page number first and after.
Mapped(first, i, k) ==
  [s \in Slots |-> IF s \in first .. first + k - 1
                   THEN ee.memory_pages[i + s - first] ELSE mapping[s]]

\* It stops at a page number that is mapped already and at a NULL page.
CanMap(first, i, k) ==
  \A j \in 0 .. k - 1 : mapping[first + j] = NULL /\ ee.memory_pages[i + j] # NULL

-----------------------------------------------------------------------------
(* WASM_LOAD_CODE. *)

LoadAt(l, at) == load[l].pc = at

Goto(l, at) == load' = [load EXCEPT ![l].pc = at]

\* The limits at the start of init_execution_engine, of which the memory's
\* matters here.
WithinLimits(r) == r.memory_len <= MAX_MEMORY_SIZE

\* sess->ready is read, the request copied and checked; a request that is
\* refused changes nothing.
LoadCheck(l, r) ==
  /\ LoadAt(l, "idle")
  /\ sess.pc = "open" /\ ~sess.ready
  /\ WithinLimits(r)
  /\ load' = [load EXCEPT ![l] = [NoLoad EXCEPT !.pc = "init", !.parts = r.parts,
                                               !.memory_len = r.memory_len]]
  /\ UNCHANGED <<sess, ee, guard_ro, heap, allocated, mapping, grow, slice, lost>>

LoadBegin_NoMemset(l) ==
  /\ LoadAt(l, "init")
  /\ Goto(l, "code")
  /\ ee' = [ee EXCEPT !.ptr = @ \cup {"resolver"}]
  /\ heap' = [heap EXCEPT !["resolver"] = @ + 1]
  /\ UNCHANGED <<sess, guard_ro, allocated, mapping, grow, slice, lost>>

\* memset, get_module_resolver.
LoadBegin(l) ==
  /\ LoadAt(l, "init")
  /\ \/ /\ Goto(l, "code")
        /\ ee' = [Zeroed EXCEPT !.ptr = {"resolver"}]
        /\ heap' = [heap EXCEPT !["resolver"] = @ + 1]
     \/ /\ load' = [load EXCEPT ![l] = NoLoad]
        /\ ee' = Zeroed
        /\ UNCHANGED heap
  /\ UNCHANGED <<sess, guard_ro, allocated, mapping, grow, slice, lost>>

\* One allocation and the copy of the user's data into it: the next stage when
\* both succeed, "fail" when either does not.
Allocate(l, b, next) ==
  \/ /\ Goto(l, "fail")
     /\ UNCHANGED <<ee, heap>>
  \/ /\ \E at \in {next, "fail"} : Goto(l, at)
     /\ ee' = [ee EXCEPT !.ptr = @ \cup {b}]
     /\ heap' = [heap EXCEPT ![b] = @ + 1]

\* The buffers without a life of their own, in the order of their stages.
NextStage == [code |-> "static_memory_vm", globals_ptr |-> "globals",
              globals |-> "imported_funcs",
              imported_funcs |-> "dynamic_sigindices",
              dynamic_sigindices |-> "table", table |-> "stack"]

LoadPart(l, b) ==
  /\ LoadAt(l, b)
  /\ IF b \in load[l].parts \cup {"code"}
     THEN Allocate(l, b, NextStage[b])
     ELSE Goto(l, NextStage[b]) /\ UNCHANGED <<ee, heap>>
  /\ UNCHANGED <<sess, guard_ro, allocated, mapping, grow, slice, lost>>

LoadVmArea(l) ==
  /\ LoadAt(l, "static_memory_vm")
  /\ IF load[l].memory_len = 0
     THEN Goto(l, "globals_ptr") /\ UNCHANGED <<ee, heap, mapping>>
     ELSE /\ Allocate(l, "static_memory_vm", "memory_pages")
          /\ mapping' = IF heap' = heap THEN mapping ELSE NoPages
  /\ UNCHANGED <<sess, guard_ro, allocated, grow, slice, lost>>

LoadPageArray(l) ==
  /\ LoadAt(l, "memory_pages")
  /\ LET counted == [ee EXCEPT !.memory_page_count = load[l].memory_len \div PAGE_SIZE]
     IN \/ /\ Goto(l, "fail")
           /\ ee' = counted
           /\ UNCHANGED heap
        \/ /\ Goto(l, "alloc")
           /\ ee' = [counted EXCEPT !.ptr = @ \cup {"memory_pages"},
                                 !.memory_pages = NoPages]
           /\ heap' = [heap EXCEPT !["memory_pages"] = @ + 1]
  /\ UNCHANGED <<sess, guard_ro, allocated, mapping, grow, slice, lost>>

\* One turn of the loop that allocates the pages.
LoadPage(l) ==
  LET i == load[l].i
  IN /\ LoadAt(l, "alloc")
     /\ i < ee.memory_page_count
     /\ \/ /\ FreePages # {}
           /\ ee' = [ee EXCEPT !.memory_pages[i] = AllocPage]
           /\ allocated' = allocated \cup {AllocPage}
           /\ load' = [load EXCEPT ![l].i = i + 1]
        \/ /\ ee' = [ee EXCEPT !.memory_pages[i] = NULL, !.memory_page_count = i]
           /\ load' = [load EXCEPT ![l].pc = "fail",
                                   ![l].pages_allocated_without_mapping = TRUE]
           /\ UNCHANGED allocated
     /\ UNCHANGED <<sess, guard_ro, heap, mapping, grow, slice, lost>>

\* The map, the assignment of memory_base, the copy, the assignment of
\* memory_bound.  A length that is not a multiple of the page size has no end
\* that the loop in the kernel would meet: it runs into the NULL after the
\* last page and fails.
LoadMap(l) ==
  LET len == load[l].memory_len
  IN /\ LoadAt(l, "alloc")
     /\ load[l].i >= ee.memory_page_count
     /\ \E k \in 0 .. len \div PAGE_SIZE :
          LET all == k * PAGE_SIZE = len /\ k = ee.memory_page_count
          IN
          /\ CanMap(0, 0, k)
          /\ mapping' = Mapped(0, 0, k)
          /\ \/ /\ ~all
                /\ Goto(l, "fail")
                /\ UNCHANGED ee
             \/ /\ all
                /\ \/ /\ Goto(l, "fail")
                      /\ ee' = [ee EXCEPT !.memory_base = TRUE]
                   \/ /\ Goto(l, "globals_ptr")
                      /\ ee' = [ee EXCEPT !.memory_base = TRUE, !.memory_bound = len]
     /\ UNCHANGED <<sess, guard_ro, heap, allocated, grow, slice, lost>>

\* The stack and its guard (set_memory_ro may fail, nobody asks).
LoadStack(l) ==
  /\ LoadAt(l, "stack")
  /\ \/ /\ Goto(l, "fail")
        /\ UNCHANGED <<ee, heap, guard_ro>>
     \/ /\ Goto(l, "done")
        /\ ee' = [ee EXCEPT !.ptr = @ \cup {"stack"}]
        /\ heap' = [heap EXCEPT !["stack"] = @ + 1]
        /\ guard_ro' \in BOOLEAN
  /\ UNCHANGED <<sess, allocated, mapping, grow, slice, lost>>

\* Back in handle_wasm_load_code.
LoadReady(l) ==
  /\ LoadAt(l, "done")
  /\ load' = [load EXCEPT ![l] = NoLoad]
  /\ sess' = [sess EXCEPT !.ready = TRUE]
  /\ UNCHANGED <<ee, guard_ro, heap, allocated, mapping, grow, slice, lost>>

-----------------------------------------------------------------------------
(* The two ways to take the engine down. *)

\* Unmap the first memory_page_count pages, free them.
ReleasePages(unmap) ==
  LET range == IF "memory_pages" \in ee.ptr THEN 0 .. ee.memory_page_count - 1 ELSE {}
  IN /\ allocated' = allocated \ {ee.memory_pages[i] : i \in range}
     /\ mapping' = [s \in Slots |-> IF unmap /\ s \in range THEN NULL ELSE mapping[s]]

\* To unmap an empty range is an assertion failure in the kernel: the thread
\* dies where it is.
UnmapsNothing(unmap) ==
  unmap /\ "memory_pages" \in ee.ptr /\ ee.memory_page_count = 0

MustUnmap_Never(l) == FALSE

MustUnmap_Always(l) == TRUE

MustUnmap(l) == ~load[l].pages_allocated_without_mapping

\* The label fail: of init_execution_engine.
LoadFail(l) ==
  /\ LoadAt(l, "fail")
  /\ IF UnmapsNothing(MustUnmap(l))
     THEN Goto(l, "bug") /\ UNCHANGED <<allocated, mapping>>
     ELSE Goto(l, "free") /\ ReleasePages(MustUnmap(l))
  /\ UNCHANGED <<sess, ee, guard_ro, heap, grow, slice, lost>>

VfreeAll_NotSigindices == ee.ptr \ {"dynamic_sigindices"}

\* vfree(NULL) is allowed: every buffer that was allocated, and no other.
VfreeAll == ee.ptr

\* The rest of both: free_vm_area, which removes any mapping that is left, the
\* vfree calls and release_module_resolver.
FreeBuffers ==
  /\ heap' = [b \in Buffers |-> heap[b] - (IF b \in VfreeAll THEN 1 ELSE 0)]
  /\ mapping' = IF "static_memory_vm" \in VfreeAll THEN NoPages ELSE mapping
  /\ UNCHANGED <<ee, guard_ro, allocated, grow, slice, lost>>

LoadFree(l) ==
  /\ LoadAt(l, "free")
  /\ load' = [load EXCEPT ![l] = NoLoad]
  /\ FreeBuffers
  /\ UNCHANGED sess

\* wd_release comes when no ioctl is in progress: no load, no guest, no copy.
Unused ==
  /\ sess.pc = "open"
  /\ \A l \in Loaders : LoadAt(l, "idle")
  /\ \A g \in Guests : grow[g].pc = "idle"
  /\ \A c \in Copiers : slice[c] = {}

DestroyEngine ==
  /\ Unused /\ sess.ready
  /\ guard_ro' = FALSE
  /\ IF UnmapsNothing(TRUE)
     THEN sess' = [sess EXCEPT !.pc = "bug"] /\ UNCHANGED <<allocated, mapping>>
     ELSE sess' = [sess EXCEPT !.pc = "destroy"] /\ ReleasePages(TRUE)
  /\ UNCHANGED <<load, ee, heap, grow, slice, lost>>

DestroyFree ==
  /\ sess.pc = "destroy"
  /\ sess' = [sess EXCEPT !.pc = "closed"]
  /\ FreeBuffers
  /\ UNCHANGED load

\* wd_release of a session that is not ready.
Close ==
  /\ Unused /\ ~sess.ready
  /\ sess' = [sess EXCEPT !.pc = "closed"]
  /\ UNCHANGED <<load, ee, guard_ro, heap, allocated, mapping, grow, slice, lost>>

-----------------------------------------------------------------------------
(* memory.grow, called by the guest of a run. *)

Usable == sess.pc = "open" /\ sess.ready

\* A call with no memory, with no pages, or past the limit changes nothing.
GrowBegin(g, n) ==
  /\ Usable
  /\ grow[g].pc = "idle"
  /\ ee.memory_base /\ n # 0
  /\ ee.memory_bound + n * WASM_PAGE_SIZE <= STATIC_MEMORY_AVAILABLE
  /\ grow' = [grow EXCEPT ![g] = [pc |-> "alloc", old_size |-> ee.memory_bound,
                                  delta |-> n * WASM_PAGE_SIZE,
                                  i |-> ee.memory_page_count]]
  /\ UNCHANGED <<sess, load, ee, guard_ro, heap, allocated, mapping, slice, lost>>

NewPageCount(g) == (grow[g].old_size + grow[g].delta) \div PAGE_SIZE

\* One turn of the loop; when a page is not to be had, those of this call are
\* given back.
GrowPage(g) ==
  LET i    == grow[g].i
      mine == ee.memory_page_count .. i - 1
  IN /\ grow[g].pc = "alloc"
     /\ i < NewPageCount(g)
     /\ \/ /\ FreePages # {}
           /\ ee' = [ee EXCEPT !.memory_pages[i] = AllocPage]
           /\ allocated' = allocated \cup {AllocPage}
           /\ grow' = [grow EXCEPT ![g].i = i + 1]
        \/ /\ allocated' = allocated \ {ee.memory_pages[j] : j \in mine}
           /\ ee' = [ee EXCEPT !.memory_pages =
                       [j \in Slots |-> IF j \in mine \cup {i} THEN NULL ELSE @[j]]]
           /\ grow' = [grow EXCEPT ![g] = NoGrow]
     /\ UNCHANGED <<sess, load, guard_ro, heap, mapping, slice, lost>>

GrowMap_NoMap(g) ==
  /\ grow[g].pc = "alloc"
  /\ grow[g].i >= NewPageCount(g)
  /\ grow' = [grow EXCEPT ![g].pc = "count"]
  /\ UNCHANGED <<sess, load, ee, guard_ro, heap, allocated, mapping, slice, lost>>

\* When the map fails the pages of this call stay allocated, and those mapped
\* stay mapped, outside the bound (the FIXME).
GrowMap(g) ==
  LET first == grow[g].old_size \div PAGE_SIZE
      n     == grow[g].delta \div PAGE_SIZE
      i     == ee.memory_page_count
  IN /\ grow[g].pc = "alloc"
     /\ grow[g].i >= NewPageCount(g)
     /\ \E k \in 0 .. n :
          /\ CanMap(first, i, k)
          /\ mapping' = Mapped(first, i, k)
          /\ \/ /\ k = n
                /\ grow' = [grow EXCEPT ![g].pc = "count"]
                /\ UNCHANGED lost
             \/ /\ k < n
                /\ grow' = [grow EXCEPT ![g] = NoGrow]
                /\ lost' = lost \cup {ee.memory_pages[j] : j \in i .. NewPageCount(g) - 1}
     /\ UNCHANGED <<sess, load, ee, guard_ro, heap, allocated, slice>>

GrowCount_Forgets(g) ==
  /\ grow[g].pc = "count"
  /\ grow' = [grow EXCEPT ![g].pc = "bound"]
  /\ UNCHANGED <<sess, load, ee, guard_ro, heap, allocated, mapping, slice, lost>>

GrowCount(g) ==
  /\ grow[g].pc = "count"
  /\ ee' = [ee EXCEPT !.memory_page_count = NewPageCount(g)]
  /\ grow' = [grow EXCEPT ![g].pc = "bound"]
  /\ UNCHANGED <<sess, load, guard_ro, heap, allocated, mapping, slice, lost>>

GrowBound_Rounded(g) ==
  /\ grow[g].pc = "bound"
  /\ ee' = [ee EXCEPT !.memory_bound = (@ \div WASM_PAGE_SIZE) * WASM_PAGE_SIZE
                                         + grow[g].delta]
  /\ grow' = [grow EXCEPT ![g] = NoGrow]
  /\ UNCHANGED <<sess, load, guard_ro, heap, allocated, mapping, slice, lost>>

GrowBound(g) ==
  /\ grow[g].pc = "bound"
  /\ ee' = [ee EXCEPT !.memory_bound = @ + grow[g].delta]
  /\ grow' = [grow EXCEPT ![g] = NoGrow]
  /\ UNCHANGED <<sess, load, guard_ro, heap, allocated, mapping, slice, lost>>

-----------------------------------------------------------------------------
(* Copies, by WASM_READ_MEMORY, WASM_WRITE_MEMORY or a host function. *)

\* The static memory area is at some address that is not 0; no sum overflows.
Address == 1

VmctxGetMemorySlice(offset, len) ==
  LET base     == IF ee.memory_base THEN Address ELSE 0
      begin    == base + offset
      end      == begin + len
      real_end == base + ee.memory_bound
  IN ~(end < begin \/ begin < base \/ begin >= real_end \/ end > real_end)

\* The copy happens some time after the check.  (An empty slice copies nothing.)
CopyBegin(c, offset, len) ==
  /\ Usable
  /\ slice[c] = {}
  /\ VmctxGetMemorySlice(offset, len)
  /\ len # 0
  /\ slice' = [slice EXCEPT ![c] = offset .. offset + len - 1]
  /\ UNCHANGED <<sess, load, ee, guard_ro, heap, allocated, mapping, grow, lost>>

\* handle_wasm_read_memory copies out of the memory,
ReadMemory(c, offset, len) == CopyBegin(c, offset, len)

\* handle_wasm_write_memory into it, after the same checks.
WriteMemory(c, offset, len) == CopyBegin(c, offset, len)

\* The copy is over; what it returns makes no difference here.
CopyEnd(c) ==
  /\ slice[c] # {}
  /\ slice' = [slice EXCEPT ![c] = {}]
  /\ UNCHANGED <<sess, load, ee, guard_ro, heap, allocated, mapping, grow, lost>>

-----------------------------------------------------------------------------
Terminated ==
  /\ sess.pc \in {"closed", "bug"} \/ \E l \in Loaders : LoadAt(l, "bug")
  /\ UNCHANGED vars

LoadStep(l) ==
  \/ \E r \in Requests : LoadCheck(l, r)
  \/ \E b \in Parts \cup {"code"} : LoadPart(l, b)
  \/ LoadBegin(l) \/ LoadVmArea(l) \/ LoadPageArray(l) \/ LoadPage(l)
  \/ LoadMap(l) \/ LoadStack(l) \/ LoadReady(l) \/ LoadFail(l) \/ LoadFree(l)

GrowStep(g) ==
  \/ \E n \in GrowPages : GrowBegin(g, n)
  \/ GrowPage(g) \/ GrowMap(g) \/ GrowCount(g) \/ GrowBound(g)

CopyStep(c) ==
  \/ CopyEnd(c)
  \/ \E offset, len \in 0 .. STATIC_MEMORY_AVAILABLE :
       ReadMemory(c, offset, len) \/ WriteMemory(c, offset, len)

Next ==
  \/ \E l \in Loaders : LoadStep(l)
  \/ \E g \in Guests : GrowStep(g)
  \/ \E c \in Copiers : CopyStep(c)
  \/ DestroyEngine \/ DestroyFree \/ Close
  \/ Terminated

Spec == Init /\ [][Next]_vars

-----------------------------------------------------------------------------
(* Properties. *)

LoadPCs == {"idle", "init", "code", "static_memory_vm", "memory_pages", "alloc",
            "stack", "done", "fail", "free", "bug"} \cup Parts

LoadState == [pc : LoadPCs, memory_len : Nat, parts : SUBSET Parts, i : Nat,
              pages_allocated_without_mapping : BOOLEAN]

EngineState == [ptr : SUBSET Buffers, memory_pages : [Slots -> Pages \cup {NULL}],
                memory_page_count : Nat, memory_base : BOOLEAN, memory_bound : Nat]

GrowState == [pc : {"idle", "alloc", "count", "bound"}, old_size : Nat,
              delta : Nat, i : Nat]

\* Every variable has its type; no buffer is freed more often than allocated.
TypeOK ==
  /\ sess \in [pc : {"open", "destroy", "closed", "bug"}, ready : BOOLEAN]
  /\ load \in [Loaders -> LoadState]
  /\ ee \in EngineState
  /\ guard_ro \in BOOLEAN
  /\ heap \in [Buffers -> Nat]
  /\ allocated \subseteq Pages
  /\ mapping \in [Slots -> Pages \cup {NULL}]
  /\ grow \in [Guests -> GrowState]
  /\ slice \in [Copiers -> SUBSET Nat]
  /\ lost \subseteq Pages

\* The bound that guest code and host functions are checked against is never
\* ahead of the page table: while the engine can be used, every byte below
\* memory_bound is on a page that is mapped, is allocated and is the one the
\* engine will free.  It holds between the steps of memory.grow too.
BoundMapped ==
  Usable =>
    \A byte \in 0 .. ee.memory_bound - 1 :
      LET i == byte \div PAGE_SIZE
      IN /\ mapping[i] \in allocated \ lost
         /\ mapping[i] = ee.memory_pages[i]

\* No page is given back while the page table still leads to it: not in the
\* failure path after a partial map, not when memory.grow gives up, not when the
\* engine is destroyed.  Nor is the stack given back while its guard is
\* read-only.  vm.h assumes that nobody else uses the session: with two guests
\* that grow the memory at once it is false.
MappedLive ==
  /\ \A i \in Slots : mapping[i] # NULL => mapping[i] \in allocated
  /\ guard_ro => heap["stack"] > 0

\* When a load has failed, and when the session is closed, nothing of the
\* engine is left behind, except pages that a failed memory.grow forgot.  vm.h
\* assumes that nobody else uses the session: with two threads that load it at
\* once it is false.
Reclaimed ==
  sess.pc = "closed" \/ (Unused /\ ~sess.ready) =>
    /\ \A b \in Buffers : heap[b] = 0
    /\ allocated = lost

\* A load dies in the failure path, on the empty range it unmaps, only when the
\* request had a memory shorter than a page: never because of a page that
\* could not be allocated.  wd_release never does.
UnmapNotEmpty ==
  /\ \A l \in Loaders : LoadAt(l, "bug") => load[l].memory_len \in 1 .. PAGE_SIZE - 1
  /\ sess.pc # "bug"

\* The engine's two measures of its memory agree, and stay in the array.
BoundMatchesPages ==
  Usable /\ (\A g \in Guests : grow[g].pc # "bound") =>
    /\ ee.memory_bound = ee.memory_page_count * PAGE_SIZE
    /\ ee.memory_bound <= STATIC_MEMORY_AVAILABLE
=============================================================================
