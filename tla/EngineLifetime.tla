--------------------------- MODULE EngineLifetime ---------------------------
(***************************************************************************)
(* What stays true of the execution engine of a session that one thread    *)
(* loads and one guest grows (the inductive invariant Inv), and that       *)
(* loading it, a load that fails, and destroying it keep it so.            *)
(***************************************************************************)
EXTENDS Engine, TLAPS

\* "We are assuming that no concurrent access to a session would ever happen"
\* (vm.h:97), as far as it matters here: one thread loads it, one guest
\* calls memory.grow.
SingleUser ==
  /\ \A l, m \in Loaders : l = m
  /\ \A g, h \in Guests : g = h

-----------------------------------------------------------------------------
(* The inductive invariant. *)

\* The number of entries of the page array.
SlotCount == STATIC_MEMORY_AVAILABLE \div PAGE_SIZE

\* The engine's pointers are to live buffers: from the memset of a load to the
\* end of its failure path, or to the end of wd_release.
Owned ==
  /\ sess.pc # "closed"
  /\ sess.ready \/ \E l \in Loaders : load[l].pc \notin {"idle", "init"}

\* Its pages have not been given back.
HasArray ==
  /\ Owned /\ "memory_pages" \in ee.ptr
  /\ sess.pc # "destroy"
  /\ \A l \in Loaders : load[l].pc # "free"

\* Entry i of the array is a page that the engine, or the memory.grow under
\* way, will free.
Held(i) ==
  /\ HasArray
  /\ \/ /\ i < ee.memory_page_count
        /\ \A l \in Loaders : load[l].pc = "alloc" => i < load[l].i
     \/ \E g \in Guests : grow[g].pc \in {"alloc", "count"} /\ i < grow[g].i

\* The memory is built.
Complete ==
  \/ Usable
  \/ \E l \in Loaders : load[l].pc \in Parts \cup {"stack", "done"}

\* Who may be at work when.
Exclusive ==
  /\ sess.pc # "bug"
  /\ sess.pc = "destroy" => sess.ready
  /\ \A l \in Loaders : load[l].pc # "idle" => sess.pc = "open" /\ ~sess.ready
  /\ \A g \in Guests : grow[g].pc # "idle" => Usable
  /\ \A c \in Copiers : slice[c] # {} => Usable
  /\ guard_ro => /\ "stack" \in ee.ptr
                 /\ Usable \/ \E l \in Loaders : load[l].pc = "done"

\* Each pointer leads to one live buffer, and each live buffer has a pointer.
HeapExact ==
  \A b \in Buffers : heap[b] = IF Owned /\ b \in ee.ptr THEN 1 ELSE 0

\* The pointers that can be set when a load comes to a stage.
Before == [code |-> {"resolver"},
           static_memory_vm |-> {"resolver", "code"},
           memory_pages |-> {"resolver", "code", "static_memory_vm"},
           alloc |-> {"resolver", "code", "static_memory_vm", "memory_pages"},
           globals_ptr |-> Buffers \ (Parts \cup {"stack"}),
           globals |-> Buffers \ {"globals", "imported_funcs", "dynamic_sigindices",
                                  "table", "stack"},
           imported_funcs |-> Buffers \ {"imported_funcs", "dynamic_sigindices",
                                         "table", "stack"},
           dynamic_sigindices |-> Buffers \ {"dynamic_sigindices", "table", "stack"},
           table |-> Buffers \ {"table", "stack"},
           stack |-> Buffers \ {"stack"}]

\* What a load has done when it comes to a stage.
LoadStages ==
  \A l \in Loaders :
    LET pc  == load[l].pc
        len == load[l].memory_len
    IN /\ len <= MAX_MEMORY_SIZE
       /\ pc \in DOMAIN Before => ee.ptr \subseteq Before[pc]
       /\ load[l].pages_allocated_without_mapping => pc \in {"fail", "free"}
       /\ pc \in {"init", "code", "static_memory_vm", "memory_pages"} => load[l].i = 0
       /\ pc \in {"code", "static_memory_vm", "memory_pages", "alloc"} =>
            ~ee.memory_base /\ ee.memory_bound = 0
       /\ pc \in {"code", "static_memory_vm"} => ee.memory_page_count = 0
       /\ pc \in {"memory_pages", "alloc"} => len # 0 /\ "static_memory_vm" \in ee.ptr
       /\ pc = "alloc" => /\ "memory_pages" \in ee.ptr
                          /\ ee.memory_page_count = len \div PAGE_SIZE
                          /\ load[l].i <= ee.memory_page_count
       /\ pc = "fail" /\ UnmapsNothing(MustUnmap(l)) => len \in 1 .. PAGE_SIZE - 1
       /\ pc = "bug" => len \in 1 .. PAGE_SIZE - 1

\* The pages handed out are those that the engine holds, each once, and those
\* that a failed memory.grow forgot.
PagesExact ==
  /\ HasArray => ee.memory_page_count <= SlotCount
  /\ \A i \in Slots : Held(i) => ee.memory_pages[i] \in allocated \ lost
  /\ \A i, j \in Slots :
       Held(i) /\ Held(j) /\ ee.memory_pages[i] = ee.memory_pages[j] => i = j
  /\ \A p \in allocated : p \in lost \/ \E i \in Slots : Held(i) /\ ee.memory_pages[i] = p
  /\ lost \subseteq allocated
  /\ ~sess.ready => lost = {}

\* A page table entry is a page of the engine's in its place, or a lost one.
MappedHeld ==
  /\ \A i \in Slots :
       mapping[i] # NULL =>
         \/ mapping[i] \in lost
         \/ /\ Held(i) /\ mapping[i] = ee.memory_pages[i]
            /\ i < ee.memory_page_count \/ \E g \in Guests : grow[g].pc = "count"
  /\ \A l \in Loaders :
       load[l].pc = "alloc" \/ load[l].pages_allocated_without_mapping =>
         \A i \in Slots : mapping[i] = NULL

\* A memory that is built is mapped as far as it is counted.
MemoryBuilt ==
  Complete =>
    /\ "memory_pages" \notin ee.ptr =>
         ~ee.memory_base /\ ee.memory_bound = 0 /\ ee.memory_page_count = 0
    /\ "memory_pages" \in ee.ptr =>
         /\ ee.memory_base
         /\ "static_memory_vm" \in ee.ptr
         /\ ee.memory_page_count > 0
         /\ \A i \in Slots : i < ee.memory_page_count => mapping[i] = ee.memory_pages[i]
         /\ (\A g \in Guests : grow[g].pc # "bound") =>
              ee.memory_bound = ee.memory_page_count * PAGE_SIZE

\* What a memory.grow has done when it comes to a stage.
GrowStages ==
  \A g \in Guests : grow[g].pc # "idle" =>
    /\ ee.memory_base
    /\ grow[g].old_size = ee.memory_bound /\ grow[g].old_size > 0
    /\ \E n \in Nat \ {0} : grow[g].delta = n * WASM_PAGE_SIZE
    /\ grow[g].old_size + grow[g].delta = NewPageCount(g) * PAGE_SIZE
    /\ NewPageCount(g) <= SlotCount
    /\ grow[g].pc = "alloc" => grow[g].i \in ee.memory_page_count .. NewPageCount(g)
    /\ grow[g].pc = "count" =>
         /\ ee.memory_page_count < NewPageCount(g)
         /\ grow[g].i = NewPageCount(g)
         /\ \A j \in Slots : j < grow[g].i => mapping[j] = ee.memory_pages[j]
    /\ grow[g].pc = "bound" => ee.memory_page_count = NewPageCount(g)

Inv ==
  /\ TypeOK /\ Exclusive /\ HeapExact /\ LoadStages
  /\ PagesExact /\ MappedHeld /\ MemoryBuilt /\ GrowStages

-----------------------------------------------------------------------------
(* Bytes and pages. *)

\* What \div means.
LEMMA Quotient ==
  ASSUME NEW b \in Nat
  PROVE  /\ b \div PAGE_SIZE \in Nat
         /\ (b \div PAGE_SIZE) * PAGE_SIZE <= b
         /\ b < (b \div PAGE_SIZE + 1) * PAGE_SIZE
         /\ b = (b \div PAGE_SIZE) * PAGE_SIZE + (b % PAGE_SIZE)
         /\ b % PAGE_SIZE \in 0 .. PAGE_SIZE - 1
<1> DEFINE q == b \div PAGE_SIZE
           r == b % PAGE_SIZE
<1>1. q \in Int /\ r \in 0 .. PAGE_SIZE - 1
  BY EngineAssumption
<1>2. b = PAGE_SIZE * q + r
  BY EngineAssumption
<1>3. PAGE_SIZE * q = q * PAGE_SIZE /\ (q + 1) * PAGE_SIZE = q * PAGE_SIZE + PAGE_SIZE
  BY <1>1, EngineAssumption
<1>4. q \in Nat
  BY EngineAssumption
<1>5. q * PAGE_SIZE \in Int
  BY <1>1, EngineAssumption
<1> HIDE DEF q, r
<1>6. q * PAGE_SIZE <= b /\ b < (q + 1) * PAGE_SIZE /\ b = q * PAGE_SIZE + r
  BY <1>1, <1>2, <1>3, <1>5, EngineAssumption
<1> QED
  BY <1>1, <1>4, <1>6 DEF q, r

\* Multiplication by the page size keeps and reflects the order.
LEMMA TimesOrder ==
  ASSUME NEW m \in Nat, NEW n \in Nat
  PROVE  /\ m * PAGE_SIZE \in Nat
         /\ m < n => (m + 1) * PAGE_SIZE <= n * PAGE_SIZE
         /\ m * PAGE_SIZE < (m + 1) * PAGE_SIZE
         /\ m * PAGE_SIZE < n * PAGE_SIZE => m < n
BY EngineAssumption

\* n whole pages are n pages.
LEMMA PagesOf ==
  ASSUME NEW n \in Nat
  PROVE  (n * PAGE_SIZE) \div PAGE_SIZE = n
<1> DEFINE q == (n * PAGE_SIZE) \div PAGE_SIZE
<1>1. q \in Nat /\ q * PAGE_SIZE <= n * PAGE_SIZE /\ n * PAGE_SIZE < (q + 1) * PAGE_SIZE
  BY Quotient, TimesOrder
<1>2. ~(q < n)
  BY <1>1, TimesOrder
<1>3. ~(n < q)
  BY <1>1, TimesOrder
<1> QED
  BY <1>1, <1>2, <1>3

\* A byte below n pages is on one of them.
LEMMA PageOfByte ==
  ASSUME NEW n \in Nat, NEW b \in Nat, b < n * PAGE_SIZE
  PROVE  b \div PAGE_SIZE \in 0 .. n - 1
<1>1. b \div PAGE_SIZE \in Nat /\ (b \div PAGE_SIZE) * PAGE_SIZE <= b
  BY Quotient
<1> QED
  BY <1>1, TimesOrder

LEMMA SlotFacts ==
  /\ SlotCount \in Nat
  /\ STATIC_MEMORY_AVAILABLE = SlotCount * PAGE_SIZE
  /\ Slots = 0 .. SlotCount - 1
BY Quotient, EngineAssumption DEF SlotCount, Slots

\* What fits into the area fits into the array.
LEMMA FitsArray ==
  ASSUME NEW b \in Nat, b <= STATIC_MEMORY_AVAILABLE
  PROVE  b \div PAGE_SIZE <= SlotCount
<1>1. b \div PAGE_SIZE \in Nat /\ (b \div PAGE_SIZE) * PAGE_SIZE <= b
  BY Quotient
<1>2. ASSUME SlotCount < b \div PAGE_SIZE PROVE FALSE
  <2>1. (SlotCount + 1) * PAGE_SIZE <= (b \div PAGE_SIZE) * PAGE_SIZE
    BY <1>1, <1>2, SlotFacts, TimesOrder
  <2>2. SlotCount * PAGE_SIZE < (SlotCount + 1) * PAGE_SIZE
    BY SlotFacts, TimesOrder
  <2>3. /\ SlotCount * PAGE_SIZE \in Nat /\ (b \div PAGE_SIZE) * PAGE_SIZE \in Nat
        /\ (SlotCount + 1) * PAGE_SIZE \in Nat
    BY <1>1, SlotFacts, TimesOrder
  <2> QED
    BY <1>1, <2>1, <2>2, <2>3, SlotFacts
<1> QED
  BY <1>1, <1>2, SlotFacts

\* WebAssembly pages are whole pages.
LEMMA WasmPages ==
  ASSUME NEW n \in Nat \ {0}
  PROVE  \E m \in Nat \ {0} : n * WASM_PAGE_SIZE = m * PAGE_SIZE
<1> DEFINE w == WASM_PAGE_SIZE \div PAGE_SIZE
<1>1. w \in Nat /\ WASM_PAGE_SIZE = w * PAGE_SIZE
  BY Quotient, EngineAssumption
<1>2. w # 0
  BY <1>1, EngineAssumption
<1>3. n * w \in Nat \ {0}
  BY <1>1, <1>2
<1>4. n * (w * PAGE_SIZE) = (n * w) * PAGE_SIZE
  BY <1>1, EngineAssumption
<1> QED
  BY <1>1, <1>3, <1>4

\* Whole pages add up.
LEMMA PagesAdd ==
  ASSUME NEW m \in Nat, NEW n \in Nat
  PROVE  m * PAGE_SIZE + n * PAGE_SIZE = (m + n) * PAGE_SIZE
BY EngineAssumption

-----------------------------------------------------------------------------
(* Loading. *)

\* The load that is under way is alone with the engine.
LEMMA LoadAlone ==
  ASSUME SingleUser, Inv, NEW l \in Loaders, load[l].pc # "idle"
  PROVE  /\ sess.pc = "open" /\ ~sess.ready /\ ~Usable
         /\ \A m \in Loaders : m = l
         /\ \A g \in Guests : grow[g].pc = "idle"
         /\ \A c \in Copiers : slice[c] = {}
         /\ lost = {}
         /\ guard_ro => load[l].pc = "done"
BY DEF SingleUser, Inv, Exclusive, PagesExact, Usable

LEMMA GotoFacts ==
  ASSUME TypeOK, NEW l \in Loaders, NEW at \in LoadPCs, Goto(l, at)
  PROVE  /\ load' \in [Loaders -> LoadState]
         /\ load'[l].pc = at
         /\ load'[l].i = load[l].i
         /\ load'[l].memory_len = load[l].memory_len
         /\ load'[l].pages_allocated_without_mapping
              = load[l].pages_allocated_without_mapping
BY DEF TypeOK, LoadState, Goto

\* The stages at which Before says something.
LEMMA StageNames ==
  DOMAIN Before = {"code", "static_memory_vm", "memory_pages", "alloc", "globals_ptr",
                   "globals", "imported_funcs", "dynamic_sigindices", "table", "stack"}
BY DEF Before

\* The stage after that of a buffer allows what its stage allows, and the buffer.
LEMMA StageOrder ==
  ASSUME NEW b \in Parts \cup {"code"}
  PROVE  /\ b \in DOMAIN Before
         /\ Before[b] \cup {b} \subseteq Before[NextStage[b]]
<1>1. b \in {"code", "globals_ptr", "globals", "imported_funcs", "dynamic_sigindices", "table"}
  BY DEF Parts
<1> QED
  BY <1>1 DEF Before, NextStage, Parts, Buffers

\* A loader that does nothing is at no stage.
LEMMA IdleStages ==
  ASSUME LoadStages, load' = load, \A l \in Loaders : load[l].pc = "idle"
  PROVE  LoadStages'
BY StageNames DEF LoadStages

LEMMA NoLoadStages ==
  ASSUME \A l \in Loaders : /\ load'[l].pc = "idle" /\ load'[l].memory_len = 0
                            /\ ~load'[l].pages_allocated_without_mapping
  PROVE  LoadStages'
BY StageNames, EngineAssumption DEF LoadStages

\* The engine's pages and their mapping are out of a step's reach.
LEMMA PagesFrame ==
  ASSUME PagesExact, MappedHeld,
         \A i \in Slots : Held(i)' <=> Held(i),
         HasArray' => HasArray,
         sess.ready => sess.ready',
         ee'.memory_page_count = ee.memory_page_count,
         ee'.memory_pages = ee.memory_pages,
         \A l \in Loaders :
           load'[l].pc = "alloc" \/ load'[l].pages_allocated_without_mapping =>
             load[l].pc = "alloc" \/ load[l].pages_allocated_without_mapping,
         (\E g \in Guests : grow[g].pc = "count") =>
           \E g \in Guests : grow'[g].pc = "count",
         UNCHANGED <<allocated, mapping, lost>>
  PROVE  PagesExact' /\ MappedHeld'
<1> HIDE DEF Held, HasArray
<1>1. PagesExact'
  BY DEF PagesExact
<1>2. MappedHeld'
  BY DEF MappedHeld
<1> QED
  BY <1>1, <1>2

LEMMA LoadCheckInv ==
  ASSUME SingleUser, Inv, NEW l \in Loaders, NEW r \in Requests, LoadCheck(l, r)
  PROVE  Inv'
<1> USE DEF LoadCheck, LoadAt
<1>0. /\ r.memory_len \in Nat /\ r.parts \in SUBSET Parts
      /\ r.memory_len <= MAX_MEMORY_SIZE
  BY EngineAssumption DEF Request, WithinLimits
<1>1. /\ load' \in [Loaders -> LoadState]
      /\ load'[l].pc = "init" /\ load'[l].i = 0
      /\ load'[l].memory_len = r.memory_len
      /\ ~load'[l].pages_allocated_without_mapping
  BY <1>0, Zenon DEF Inv, TypeOK, LoadState, NoLoad, LoadPCs
<1>2. \A m \in Loaders : m = l
  BY DEF SingleUser
<1>3. /\ ~Owned /\ ~Owned' /\ ~HasArray /\ ~HasArray'
      /\ ~Complete /\ ~Complete' /\ ~Usable /\ ~Usable'
  BY <1>1, <1>2 DEF Owned, HasArray, Complete, Usable, Parts
<1>4. TypeOK'
  BY <1>1 DEF Inv, TypeOK
<1>5. Exclusive'
  BY <1>1, <1>2, <1>3 DEF Inv, Exclusive, Usable
<1>6. HeapExact'
  BY <1>3 DEF Inv, HeapExact
<1>7. LoadStages'
  BY <1>0, <1>1, <1>2, StageNames DEF Inv, LoadStages
<1>8. PagesExact' /\ MappedHeld'
  BY <1>1, <1>2, <1>3, PagesFrame DEF Inv, Held
<1>9. MemoryBuilt'
  BY <1>3 DEF MemoryBuilt
<1>10. GrowStages'
  BY DEF Inv, GrowStages, NewPageCount
<1> QED
  BY <1>4, <1>5, <1>6, <1>7, <1>8, <1>9, <1>10 DEF Inv

\* The same when the engine has no pages before a step nor after it.
LEMMA NoPagesFrame ==
  ASSUME PagesExact, MappedHeld, ~HasArray, ~HasArray',
         sess.ready => sess.ready',
         lost = {},
         \A i \in Slots : mapping'[i] = mapping[i] \/ mapping'[i] = NULL,
         UNCHANGED <<allocated, lost>>
  PROVE  PagesExact' /\ MappedHeld'
<1> \A i \in Slots : ~Held(i) /\ ~Held(i)'
  BY DEF Held
<1> HIDE DEF Held, HasArray
<1>1. PagesExact'
  BY DEF PagesExact
<1>2. \A i \in Slots : mapping[i] = NULL
  BY DEF MappedHeld
<1>3. MappedHeld'
  BY <1>2 DEF MappedHeld
<1> QED
  BY <1>1, <1>3

LEMMA LoadBeginInv ==
  ASSUME SingleUser, Inv, NEW l \in Loaders, LoadBegin(l)
  PROVE  Inv'
<1> USE DEF LoadBegin, LoadAt
<1>a. PICK at \in {"code", "idle"} :
        /\ load' \in [Loaders -> LoadState]
        /\ load'[l].pc = at /\ load'[l].i = 0
        /\ load'[l].memory_len <= MAX_MEMORY_SIZE
        /\ ~load'[l].pages_allocated_without_mapping
        /\ ee' \in EngineState
        /\ ee'.ptr = IF at = "code" THEN {"resolver"} ELSE {}
        /\ ~ee'.memory_base /\ ee'.memory_bound = 0 /\ ee'.memory_page_count = 0
        /\ heap' = IF at = "code" THEN [heap EXCEPT !["resolver"] = @ + 1] ELSE heap
  <2>1. CASE /\ Goto(l, "code")
             /\ ee' = [Zeroed EXCEPT !.ptr = {"resolver"}]
             /\ heap' = [heap EXCEPT !["resolver"] = @ + 1]
    <3>1. "code" \in LoadPCs
      BY DEF LoadPCs
    <3>2. /\ load[l].i = 0 /\ ~load[l].pages_allocated_without_mapping
          /\ load[l].memory_len <= MAX_MEMORY_SIZE
      BY DEF Inv, LoadStages
    <3>3. /\ ee' \in EngineState
          /\ ee'.ptr = {"resolver"} /\ ~ee'.memory_base /\ ee'.memory_bound = 0 /\ ee'.memory_page_count = 0
      BY <2>1, Zenon DEF Zeroed, NoPages, Buffers, EngineState
    <3> QED
      BY <2>1, <3>1, <3>2, <3>3, GotoFacts DEF Inv
  <2>2. CASE /\ load' = [load EXCEPT ![l] = NoLoad]
             /\ ee' = Zeroed
             /\ UNCHANGED heap
    <3>1. /\ ee' \in EngineState
          /\ ee'.ptr = {} /\ ~ee'.memory_base /\ ee'.memory_bound = 0 /\ ee'.memory_page_count = 0
      BY <2>2 DEF Zeroed, NoPages, EngineState
    <3>2. /\ load' \in [Loaders -> LoadState]
          /\ load'[l].pc = "idle" /\ load'[l].i = 0
          /\ load'[l].memory_len <= MAX_MEMORY_SIZE
          /\ ~load'[l].pages_allocated_without_mapping
      BY <2>2, EngineAssumption DEF Inv, TypeOK, LoadState, NoLoad, LoadPCs
    <3> QED
      BY <2>2, <3>1, <3>2
  <2> QED
    BY <2>1, <2>2
<1>1. /\ sess.pc = "open" /\ ~sess.ready /\ ~Usable /\ lost = {} /\ ~guard_ro
      /\ \A m \in Loaders : m = l
      /\ \A g \in Guests : grow[g].pc = "idle"
  BY LoadAlone
<1> /\ load[l].pc = "init"
    /\ UNCHANGED <<sess, guard_ro, allocated, mapping, grow, slice, lost>>
  OBVIOUS
<1> HIDE DEF LoadBegin, LoadAt
<1>2. /\ ~Owned /\ (Owned' <=> at = "code")
      /\ ~HasArray /\ ~HasArray' /\ ~Complete' /\ ~Usable'
  BY <1>a, <1>1 DEF Owned, HasArray, Complete, Usable, Parts
<1>3. TypeOK'
  <2>1. heap' \in [Buffers -> Nat]
    BY <1>a DEF Inv, TypeOK, Buffers
  <2> QED
    BY <1>a, <2>1 DEF Inv, TypeOK
<1>4. Exclusive'
  BY <1>a, <1>1, <1>2 DEF Inv, Exclusive, Usable
<1>5. HeapExact'
  BY <1>a, <1>2 DEF Inv, TypeOK, HeapExact, Buffers
<1>6. LoadStages'
  <2>1. load'[l].pc \in DOMAIN Before => ee'.ptr \subseteq Before[load'[l].pc]
    BY <1>a, StageNames DEF Before
  <2> QED
    BY <1>a, <1>1, <2>1 DEF LoadStages
<1>7. PagesExact' /\ MappedHeld'
  BY <1>1, <1>2, NoPagesFrame DEF Inv
<1>8. MemoryBuilt'
  BY <1>2 DEF MemoryBuilt
<1>9. GrowStages'
  BY <1>1 DEF Inv, Exclusive, GrowStages
<1> QED
  BY <1>3, <1>4, <1>5, <1>6, <1>7, <1>8, <1>9 DEF Inv

\* One allocation, or none, by a load that is past the memset.
LEMMA AllocateFacts ==
  ASSUME Inv, NEW l \in Loaders, NEW b \in Buffers, NEW next \in LoadPCs,
         load[l].pc = b, \A m \in Loaders : m = l, sess.pc = "open",
         Allocate(l, b, next) \/ (Goto(l, next) /\ UNCHANGED <<ee, heap>>),
         b \notin ee.ptr, next \notin {"idle", "init"}
  PROVE  /\ load' \in [Loaders -> LoadState]
         /\ load'[l].pc \in {next, "fail"}
         /\ load'[l].i = load[l].i
         /\ load'[l].memory_len = load[l].memory_len
         /\ load'[l].pages_allocated_without_mapping
              = load[l].pages_allocated_without_mapping
         /\ \E q \in {{}, {b}} :
              /\ ee' = [ee EXCEPT !.ptr = @ \cup q]
              /\ ee'.ptr = ee.ptr \cup q
              /\ heap' = heap <=> q = {}
         /\ heap' \in [Buffers -> Nat]
         /\ sess' = sess => HeapExact'
<1> USE DEF Allocate
<1>1. "fail" \in LoadPCs
  BY DEF LoadPCs
<1>2. PICK at \in {next, "fail"} : Goto(l, at)
  OBVIOUS
<1>3. /\ load' \in [Loaders -> LoadState]
      /\ load'[l].pc = at
      /\ load'[l].i = load[l].i
      /\ load'[l].memory_len = load[l].memory_len
      /\ load'[l].pages_allocated_without_mapping
           = load[l].pages_allocated_without_mapping
  BY <1>1, <1>2, GotoFacts DEF Inv
<1>4. Owned /\ (sess' = sess => Owned')
  BY <1>3 DEF Owned, Buffers, Parts
<1>5. CASE UNCHANGED <<ee, heap>>
  <2>1. ee' = [ee EXCEPT !.ptr = @ \cup {}] /\ ee'.ptr = ee.ptr \cup {}
    BY <1>5 DEF Inv, TypeOK, EngineState
  <2>2. heap' \in [Buffers -> Nat]
    BY <1>5 DEF Inv, TypeOK
  <2>3. sess' = sess => HeapExact'
    BY <1>4, <1>5 DEF Inv, HeapExact
  <2> QED
    BY <1>3, <1>5, <2>1, <2>2, <2>3, Zenon
<1>6. CASE /\ ee' = [ee EXCEPT !.ptr = @ \cup {b}]
           /\ heap' = [heap EXCEPT ![b] = @ + 1]
  <2>1. ee'.ptr = ee.ptr \cup {b}
    BY <1>6 DEF Inv, TypeOK, EngineState
  <2>2. heap' \in [Buffers -> Nat] /\ heap' # heap
    BY <1>6 DEF Inv, TypeOK
  <2>3. sess' = sess => HeapExact'
    BY <1>4, <1>6, <2>1 DEF Inv, TypeOK, HeapExact
  <2> QED
    BY <1>3, <1>6, <2>1, <2>2, <2>3
<1> QED
  BY <1>5, <1>6

LEMMA LoadPartInv ==
  ASSUME SingleUser, Inv, NEW l \in Loaders, NEW b \in Parts \cup {"code"}, LoadPart(l, b)
  PROVE  Inv'
<1> USE DEF LoadPart, LoadAt
<1>1. /\ NextStage[b] \in LoadPCs \ {"idle", "init", "alloc", "free", "bug", "fail"}
      /\ b \in Buffers \ {"memory_pages", "static_memory_vm"} /\ b # "idle" /\ b # "alloc"
      /\ b # "free" /\ b # "done" /\ b # "init" /\ b # "fail" /\ b # "stack"
      /\ b = "code" => NextStage[b] = "static_memory_vm"
      /\ b # "code" => NextStage[b] \in (Parts \ {b}) \cup {"stack"}
  BY DEF NextStage, LoadPCs, Parts, Buffers
<1>2. /\ sess.pc = "open" /\ ~sess.ready /\ ~Usable /\ lost = {} /\ ~guard_ro
      /\ \A m \in Loaders : m = l
      /\ \A g \in Guests : grow[g].pc = "idle"
  BY <1>1, LoadAlone
<1>3. b \notin ee.ptr
  BY DEF Inv, LoadStages, Before, Parts
<1>4. /\ load' \in [Loaders -> LoadState]
      /\ load'[l].pc \in {NextStage[b], "fail"}
      /\ load'[l].i = load[l].i
      /\ load'[l].memory_len = load[l].memory_len
      /\ load'[l].pages_allocated_without_mapping
           = load[l].pages_allocated_without_mapping
      /\ heap' \in [Buffers -> Nat]
      /\ HeapExact'
  BY <1>1, <1>2, <1>3, AllocateFacts
<1>5. PICK q \in {{}, {b}} : ee' = [ee EXCEPT !.ptr = @ \cup q]
  BY <1>1, <1>2, <1>3, AllocateFacts
<1> /\ load[l].pc = b
    /\ UNCHANGED <<sess, guard_ro, allocated, mapping, grow, slice, lost>>
  OBVIOUS
<1> HIDE DEF LoadPart, LoadAt
<1>6. /\ ee' \in EngineState
      /\ ee'.ptr = ee.ptr \cup q
      /\ ee'.memory_pages = ee.memory_pages
      /\ ee'.memory_page_count = ee.memory_page_count
      /\ ee'.memory_base = ee.memory_base
      /\ ee'.memory_bound = ee.memory_bound
  BY <1>1, <1>5 DEF Inv, TypeOK, EngineState
<1>7. /\ Owned /\ Owned' /\ ~Usable'
      /\ HasArray' <=> HasArray
      /\ Complete' => Complete
      /\ b # "code" => Complete
  BY <1>1, <1>2, <1>4, <1>6 DEF Owned, HasArray, Complete, Usable, Parts
<1>8. \A i \in Slots : Held(i)' <=> Held(i)
  BY <1>1, <1>2, <1>4, <1>6, <1>7 DEF Held
<1>9. TypeOK'
  BY <1>4, <1>6 DEF Inv, TypeOK
<1>10. Exclusive'
  BY <1>1, <1>2, <1>4, <1>6, <1>7 DEF Inv, Exclusive, Usable
<1>11. LoadStages'
  <2>1. load'[l].pc \in DOMAIN Before => ee'.ptr \subseteq Before[load'[l].pc]
    <3>1. ee.ptr \subseteq Before[b] /\ q \subseteq {b}
      BY StageOrder DEF Inv, LoadStages
    <3> QED
      BY <1>4, <1>6, <3>1, StageOrder, StageNames
  <2>2. ~UnmapsNothing(MustUnmap(l))'
    <3>1. CASE b = "code"
      BY <1>6, <3>1 DEF Inv, LoadStages, Before, UnmapsNothing
    <3>2. CASE b # "code"
      BY <1>1, <1>6, <1>7, <3>2 DEF Inv, MemoryBuilt, UnmapsNothing
    <3> QED
      BY <3>1, <3>2
  <2>3. load'[l].pc = "static_memory_vm" => b = "code"
    BY <1>1, <1>4 DEF NextStage, Parts
  <2> QED
    <3>1. /\ load[l].memory_len <= MAX_MEMORY_SIZE
          /\ ~load[l].pages_allocated_without_mapping
          /\ b = "code" => /\ ~ee.memory_base /\ ee.memory_bound = 0
                           /\ ee.memory_page_count = 0 /\ load[l].i = 0
      BY <1>1 DEF Inv, LoadStages
    <3>2. load'[l].pc \notin {"init", "code", "memory_pages", "alloc", "bug"}
      BY <1>1, <1>4 DEF Parts
    <3> QED
      BY <1>2, <1>4, <1>6, <2>1, <2>2, <2>3, <3>1, <3>2 DEF LoadStages
<1>12. PagesExact' /\ MappedHeld'
  BY <1>1, <1>2, <1>4, <1>6, <1>7, <1>8, PagesFrame DEF Inv
<1>13. MemoryBuilt'
  BY <1>1, <1>2, <1>6, <1>7 DEF Inv, MemoryBuilt
<1>14. GrowStages'
  BY <1>2 DEF GrowStages
<1> QED
  BY <1>4, <1>9, <1>10, <1>11, <1>12, <1>13, <1>14 DEF Inv

LEMMA LoadVmAreaInv ==
  ASSUME SingleUser, Inv, NEW l \in Loaders, LoadVmArea(l)
  PROVE  Inv'
<1> USE DEF LoadVmArea, LoadAt
<1> DEFINE next == IF load[l].memory_len = 0 THEN "globals_ptr" ELSE "memory_pages"
           b    == "static_memory_vm"
<1>1. next \in LoadPCs \ {"idle", "init", "alloc", "free", "bug", "fail"} /\ b \in Buffers
  BY DEF LoadPCs, Parts, Buffers
<1>2. /\ sess.pc = "open" /\ ~sess.ready /\ ~Usable /\ lost = {} /\ ~guard_ro
      /\ \A m \in Loaders : m = l
      /\ \A g \in Guests : grow[g].pc = "idle"
  BY LoadAlone
<1>3. ee.ptr \subseteq {"resolver", "code"}
  BY DEF Inv, LoadStages, Before
<1>4. /\ load' \in [Loaders -> LoadState]
      /\ load'[l].pc \in {next, "fail"}
      /\ load'[l].i = load[l].i
      /\ load'[l].memory_len = load[l].memory_len
      /\ load'[l].pages_allocated_without_mapping
           = load[l].pages_allocated_without_mapping
      /\ heap' \in [Buffers -> Nat]
      /\ HeapExact'
  BY <1>1, <1>2, <1>3, AllocateFacts
<1>5. PICK q \in {{}, {b}} : ee' = [ee EXCEPT !.ptr = @ \cup q]
  BY <1>1, <1>2, <1>3, AllocateFacts
<1>6. /\ ee' \in EngineState
      /\ ee'.ptr = ee.ptr \cup q
      /\ ee'.memory_base = ee.memory_base
      /\ ee'.memory_bound = ee.memory_bound
      /\ ee'.memory_page_count = ee.memory_page_count
  BY <1>1, <1>5 DEF Inv, TypeOK, EngineState
<1>7. load'[l].pc = "memory_pages" => q = {b}
  <2>1. SUFFICES ASSUME load'[l].pc = "memory_pages", q = {} PROVE FALSE
    OBVIOUS
  <2>2. ee'.ptr = ee.ptr
    BY <1>6, <2>1
  <2>3. "fail" \in LoadPCs /\ Goto(l, "fail") => load'[l].pc = "fail"
    BY GotoFacts DEF Inv, LoadPCs
  <2>4. load[l].memory_len # 0
    BY <1>4, <2>1
  <2>5. ee' = [ee EXCEPT !.ptr = @ \cup {b}] => b \in ee'.ptr
    BY DEF Inv, TypeOK, EngineState
  <2> QED
    BY <1>3, <2>1, <2>2, <2>3, <2>4, <2>5 DEF Allocate, LoadPCs
<1>8. /\ ~HasArray /\ ~HasArray' /\ ~Usable'
  BY <1>1, <1>2, <1>3, <1>6 DEF HasArray, Usable
<1>9. /\ mapping' \in [Slots -> Pages \cup {NULL}]
      /\ \A i \in Slots : mapping'[i] = mapping[i] \/ mapping'[i] = NULL
  BY DEF Inv, TypeOK, NoPages
<1> /\ load[l].pc = "static_memory_vm"
    /\ UNCHANGED <<sess, guard_ro, allocated, grow, slice, lost>>
  OBVIOUS
<1> HIDE DEF LoadVmArea, LoadAt
<1>10. TypeOK'
  BY <1>4, <1>6, <1>9 DEF Inv, TypeOK
<1>11. Exclusive'
  BY <1>1, <1>2, <1>4, <1>6, <1>8, ZenonT(30) DEF Inv, Exclusive, Usable
<1>12. LoadStages'
  <2>1. load'[l].pc \in DOMAIN Before => ee'.ptr \subseteq Before[load'[l].pc]
    BY <1>1, <1>3, <1>4, <1>6 DEF Before, Buffers, Parts
  <2>2. ~UnmapsNothing(MustUnmap(l))'
    BY <1>3, <1>6 DEF UnmapsNothing
  <2>3. load'[l].pc = "memory_pages" => load[l].memory_len # 0
    BY <1>4
  <2> QED
    <3>1. /\ load[l].memory_len <= MAX_MEMORY_SIZE /\ load[l].i = 0
          /\ ~load[l].pages_allocated_without_mapping
          /\ ~ee.memory_base /\ ee.memory_bound = 0 /\ ee.memory_page_count = 0
      BY DEF Inv, LoadStages
    <3> QED
      BY <1>2, <1>4, <1>6, <1>7, <2>1, <2>2, <2>3, <3>1 DEF LoadStages
<1>13. PagesExact' /\ MappedHeld'
  BY <1>2, <1>8, <1>9, NoPagesFrame DEF Inv
<1>14. MemoryBuilt'
  BY <1>3, <1>6 DEF Inv, MemoryBuilt, LoadStages
<1>15. GrowStages'
  BY <1>2 DEF GrowStages
<1> QED
  BY <1>4, <1>10, <1>11, <1>12, <1>13, <1>14, <1>15 DEF Inv

LEMMA LoadPageArrayInv ==
  ASSUME SingleUser, Inv, NEW l \in Loaders, LoadPageArray(l)
  PROVE  Inv'
<1> USE DEF LoadPageArray, LoadAt
<1>1. /\ sess.pc = "open" /\ ~sess.ready /\ ~Usable /\ lost = {} /\ ~guard_ro
      /\ \A m \in Loaders : m = l
      /\ \A g \in Guests : grow[g].pc = "idle"
  BY LoadAlone
<1>2. /\ ee.ptr \subseteq {"resolver", "code", "static_memory_vm"}
      /\ "static_memory_vm" \in ee.ptr /\ ~ee.memory_base /\ ee.memory_bound = 0
      /\ load[l].i = 0 /\ load[l].memory_len # 0
      /\ load[l].memory_len <= MAX_MEMORY_SIZE
      /\ ~load[l].pages_allocated_without_mapping
      /\ load[l].pc = "memory_pages"
  BY DEF Inv, LoadStages, Before
<1>3. load[l].memory_len \in Nat
  BY DEF Inv, TypeOK, LoadState
<1>4. load[l].memory_len \div PAGE_SIZE \in Nat /\ load[l].memory_len \div PAGE_SIZE <= SlotCount
  <2> HIDE DEF LoadPageArray
  <2>1. load[l].memory_len <= STATIC_MEMORY_AVAILABLE
    BY <1>2, <1>3, EngineAssumption
  <2> QED
    BY <1>3, <2>1, Quotient, FitsArray
<1> DEFINE counted == [ee EXCEPT !.memory_page_count = load[l].memory_len \div PAGE_SIZE]
<1>5. PICK at \in {"fail", "alloc"} :
        /\ Goto(l, at)
        /\ at = "fail" => ee' = counted /\ heap' = heap
        /\ at = "alloc" => /\ ee' = [counted EXCEPT !.ptr = @ \cup {"memory_pages"},
                                                    !.memory_pages = NoPages]
                           /\ heap' = [heap EXCEPT !["memory_pages"] = @ + 1]
  OBVIOUS
<1> HIDE DEF LoadPageArray
<1>6. /\ load' \in [Loaders -> LoadState]
      /\ load'[l].pc = at
      /\ load'[l].i = 0
      /\ load'[l].memory_len = load[l].memory_len
      /\ ~load'[l].pages_allocated_without_mapping
  BY <1>2, <1>5, GotoFacts DEF Inv, LoadPCs
<1>7. /\ ee' \in EngineState
      /\ ee'.ptr = IF at = "alloc" THEN ee.ptr \cup {"memory_pages"} ELSE ee.ptr
      /\ ee'.memory_page_count = load[l].memory_len \div PAGE_SIZE
      /\ ~ee'.memory_base /\ ee'.memory_bound = 0
      /\ at = "alloc" => ee'.memory_pages = NoPages
  <2>1. NoPages \in [Slots -> Pages \cup {NULL}] /\ "memory_pages" \in Buffers
    BY DEF NoPages, Buffers
  <2>2. ee \in EngineState
    BY DEF Inv, TypeOK
  <2>3. /\ counted \in EngineState
        /\ counted.ptr = ee.ptr
        /\ counted.memory_page_count = load[l].memory_len \div PAGE_SIZE
        /\ ~counted.memory_base /\ counted.memory_bound = 0
    BY <1>2, <1>4, <2>2 DEF EngineState
  <2> HIDE DEF counted
  <2>4. CASE at = "fail"
    BY <1>5, <2>3, <2>4
  <2>5. CASE at = "alloc"
    BY <1>5, <2>1, <2>3, <2>5, Zenon DEF EngineState
  <2> QED
    BY <2>4, <2>5
<1>u. UNCHANGED <<sess, guard_ro, allocated, mapping, grow, slice, lost>>
  BY DEF LoadPageArray
<1>8. /\ Owned /\ Owned' /\ ~HasArray /\ ~Usable'
      /\ ~Complete'
  BY <1>u, <1>1, <1>2, <1>6 DEF HasArray, Usable, Owned, Complete, Parts
<1>9. \A i \in Slots : ~Held(i) /\ ~Held(i)'
  BY <1>u, <1>1, <1>2, <1>6, <1>7, <1>8, SlotFacts DEF Held, HasArray
<1>10. heap' \in [Buffers -> Nat] /\ HeapExact'
  <2>1. CASE at = "fail"
    BY <1>5, <1>7, <1>8, <2>1 DEF Inv, TypeOK, HeapExact
  <2>2. CASE at = "alloc"
    BY <1>2, <1>5, <1>7, <1>8, <2>2 DEF Inv, TypeOK, HeapExact, Buffers
  <2> QED
    BY <2>1, <2>2
<1>11. TypeOK'
  BY <1>u, <1>6, <1>7, <1>10 DEF Inv, TypeOK
<1>12. Exclusive'
  BY <1>u, <1>1, <1>6, <1>8 DEF Inv, Exclusive, Usable
<1>13. LoadStages'
  <2>1. load'[l].pc \in DOMAIN Before => ee'.ptr \subseteq Before[load'[l].pc]
    BY <1>2, <1>6, <1>7 DEF Before
  <2>2. load'[l].pc = "fail" => ~UnmapsNothing(MustUnmap(l))'
    BY <1>2, <1>6, <1>7 DEF UnmapsNothing
  <2> QED
    BY <1>1, <1>2, <1>4, <1>6, <1>7, <2>1, <2>2 DEF LoadStages
<1>14. PagesExact'
  BY <1>u, <1>4, <1>7, <1>9, <1>1 DEF Inv, PagesExact
<1>15. MappedHeld'
  BY <1>u, <1>1, <1>9 DEF Inv, MappedHeld
<1>16. MemoryBuilt'
  BY <1>u, <1>8 DEF MemoryBuilt
<1>17. GrowStages'
  BY <1>u, <1>1 DEF GrowStages
<1> QED
  BY <1>10, <1>11, <1>12, <1>13, <1>14, <1>15, <1>16, <1>17 DEF Inv

LEMMA AllocPageFree ==
  ASSUME FreePages # {}
  PROVE  AllocPage \in Pages /\ AllocPage \notin allocated
BY DEF AllocPage, FreePages

\* The array and the load's place in it while its pages are allocated.
LEMMA AllocStage ==
  ASSUME SingleUser, Inv, NEW l \in Loaders, load[l].pc = "alloc"
  PROVE  /\ HasArray /\ Owned /\ ~Complete
         /\ ee.memory_page_count \in Nat /\ load[l].i \in Nat
         /\ load[l].i <= ee.memory_page_count /\ ee.memory_page_count <= SlotCount
         /\ ee.memory_page_count = load[l].memory_len \div PAGE_SIZE
         /\ load[l].memory_len \in Nat \ {0}
         /\ \A j \in Slots : Held(j) <=> j < load[l].i
         /\ \A j \in Slots : mapping[j] = NULL
<1>1. /\ sess.pc = "open" /\ ~sess.ready /\ ~Usable
      /\ \A m \in Loaders : m = l
      /\ \A g \in Guests : grow[g].pc = "idle"
  BY LoadAlone
<1>2. /\ "memory_pages" \in ee.ptr /\ load[l].i <= ee.memory_page_count
      /\ ee.memory_page_count = load[l].memory_len \div PAGE_SIZE
      /\ load[l].memory_len # 0
  BY DEF Inv, LoadStages
<1>3. HasArray /\ Owned /\ ~Complete
  BY <1>1, <1>2 DEF HasArray, Owned, Complete, Parts
<1>4. ee.memory_page_count \in Nat /\ load[l].i \in Nat /\ load[l].memory_len \in Nat
  BY DEF Inv, TypeOK, LoadState, EngineState
<1>5. \A j \in Slots : Held(j) <=> j < load[l].i
  BY <1>1, <1>2, <1>3, <1>4, SlotFacts DEF Held
<1> QED
  BY <1>2, <1>3, <1>4, <1>5 DEF Inv, PagesExact, MappedHeld

\* A page that was free becomes entry i of the array.
LEMMA TakePage ==
  ASSUME PagesExact, NEW i \in Slots, NEW p, p \notin allocated,
         ~Held(i), \A j \in Slots : Held(j)' <=> Held(j) \/ j = i,
         HasArray' => HasArray, sess' = sess,
         ee'.memory_page_count = ee.memory_page_count,
         ee'.memory_pages[i] = p,
         \A j \in Slots : j # i => ee'.memory_pages[j] = ee.memory_pages[j],
         allocated' = allocated \cup {p}, lost' = lost
  PROVE  PagesExact'
<1> HIDE DEF Held, HasArray
<1>1. Held(i)' /\ \A j \in Slots : Held(j)' /\ j # i => Held(j)
  OBVIOUS
<1>2. \A j \in Slots : Held(j)' => ee'.memory_pages[j] \in allocated' \ lost'
  BY <1>1 DEF PagesExact
<1>3. \A j, k \in Slots :
        Held(j)' /\ Held(k)' /\ ee'.memory_pages[j] = ee'.memory_pages[k] => j = k
  BY <1>1 DEF PagesExact
<1>4. \A q \in allocated' : q \in lost' \/ \E j \in Slots : Held(j)' /\ ee'.memory_pages[j] = q
  BY <1>1 DEF PagesExact
<1> QED
  BY <1>2, <1>3, <1>4 DEF PagesExact

LEMMA LoadPageInv ==
  ASSUME SingleUser, Inv, NEW l \in Loaders, LoadPage(l)
  PROVE  Inv'
<1>0. PICK i : i = load[l].i
  OBVIOUS
<1>1. /\ load[l].pc = "alloc" /\ i < ee.memory_page_count
      /\ UNCHANGED <<sess, guard_ro, heap, mapping, grow, slice, lost>>
  BY <1>0 DEF LoadPage, LoadAt
<1>2. /\ sess.pc = "open" /\ ~sess.ready /\ ~Usable /\ lost = {} /\ ~guard_ro
      /\ \A m \in Loaders : m = l
      /\ \A g \in Guests : grow[g].pc = "idle"
  BY <1>1, LoadAlone
<1>3. /\ HasArray /\ Owned /\ ~Complete
      /\ ee.memory_page_count \in Nat /\ i \in Nat
      /\ i <= ee.memory_page_count /\ ee.memory_page_count <= SlotCount
      /\ \A j \in Slots : Held(j) <=> j < i
      /\ \A j \in Slots : mapping[j] = NULL
      /\ i \in Slots
  BY <1>0, <1>1, AllocStage, SlotFacts
<1>4. /\ load \in [Loaders -> LoadState] /\ ee \in EngineState
      /\ allocated \subseteq Pages
  BY DEF Inv, TypeOK
<1>5. CASE /\ FreePages # {}
           /\ ee' = [ee EXCEPT !.memory_pages[i] = AllocPage]
           /\ allocated' = allocated \cup {AllocPage}
           /\ load' = [load EXCEPT ![l].i = i + 1]
  <2>1. /\ load' \in [Loaders -> LoadState]
        /\ load'[l].pc = "alloc" /\ load'[l].i = i + 1
        /\ load'[l].memory_len = load[l].memory_len
        /\ load'[l].pages_allocated_without_mapping
             = load[l].pages_allocated_without_mapping
    BY <1>0, <1>1, <1>3, <1>4, <1>5 DEF LoadState
  <2>2. AllocPage \in Pages /\ AllocPage \notin allocated
    BY <1>5, AllocPageFree
  <2>3. /\ ee' \in EngineState /\ ee'.ptr = ee.ptr
        /\ ee'.memory_page_count = ee.memory_page_count
        /\ ee'.memory_base = ee.memory_base /\ ee'.memory_bound = ee.memory_bound
        /\ ee'.memory_pages = [ee.memory_pages EXCEPT ![i] = AllocPage]
        /\ ee'.memory_pages[i] = AllocPage
        /\ \A j \in Slots : j # i => ee'.memory_pages[j] = ee.memory_pages[j]
    BY <1>3, <1>4, <1>5, <2>2 DEF EngineState
  <2>4. HasArray' /\ Owned' /\ ~Complete' /\ ~Usable'
    BY <1>1, <1>2, <1>3, <2>1, <2>3 DEF HasArray, Owned, Complete, Usable, Parts
  <2>5. \A j \in Slots : Held(j)' <=> j < i + 1
    <3>1. \A j \in Slots : Held(j)' <=> j < ee.memory_page_count /\ j < i + 1
      BY <1>1, <1>2, <2>1, <2>3, <2>4 DEF Held
    <3>2. i < ee.memory_page_count /\ Slots \subseteq Int
      BY <1>1, <1>3, SlotFacts
    <3>3. \A j \in Slots : j < i + 1 => j < ee.memory_page_count
      BY <1>3, <3>2
    <3>4. QED
      BY <3>1, <3>3
  <2>6. TypeOK'
    BY <1>1, <1>5, <2>1, <2>2, <2>3 DEF Inv, TypeOK
  <2>7. Exclusive'
    BY <1>1, <1>2, <2>1, <2>3, <2>4 DEF Inv, Exclusive, Usable
  <2>8. HeapExact'
    BY <1>1, <1>3, <2>3, <2>4 DEF Inv, HeapExact
  <2>9. LoadStages'
    <3>1. /\ load[l].memory_len <= MAX_MEMORY_SIZE /\ load[l].memory_len # 0
          /\ ee.ptr \subseteq Before["alloc"]
          /\ {"static_memory_vm", "memory_pages"} \subseteq ee.ptr
          /\ ~load[l].pages_allocated_without_mapping
          /\ ~ee.memory_base /\ ee.memory_bound = 0
          /\ ee.memory_page_count = load[l].memory_len \div PAGE_SIZE
      BY <1>1, StageNames DEF Inv, LoadStages
    <3> QED
      BY <1>1, <1>2, <1>3, <2>1, <2>3, <3>1 DEF LoadStages
  <2>10. PagesExact'
    <3>1. ~Held(i) /\ \A j \in Slots : Held(j)' <=> Held(j) \/ j = i
      BY <1>3, <2>5, SlotFacts
    <3> QED
      BY <1>1, <1>3, <1>5, <2>2, <2>3, <3>1, TakePage DEF Inv
  <2>11. MappedHeld'
    BY <1>1, <1>3 DEF MappedHeld
  <2>12. MemoryBuilt'
    BY <2>4 DEF MemoryBuilt
  <2>13. GrowStages'
    BY <1>1, <1>2 DEF GrowStages
  <2> QED
    BY <2>6, <2>7, <2>8, <2>9, <2>10, <2>11, <2>12, <2>13 DEF Inv
<1>6. CASE /\ ee' = [ee EXCEPT !.memory_pages[i] = NULL, !.memory_page_count = i]
           /\ load' = [load EXCEPT ![l].pc = "fail",
                                   ![l].pages_allocated_without_mapping = TRUE]
           /\ UNCHANGED allocated
  <2>1. /\ load' \in [Loaders -> LoadState]
        /\ load'[l].pc = "fail" /\ load'[l].i = i
        /\ load'[l].memory_len = load[l].memory_len
        /\ load'[l].pages_allocated_without_mapping
    BY <1>0, <1>1, <1>3, <1>4, <1>6, Zenon DEF LoadState, LoadPCs
  <2>2. /\ ee' \in EngineState /\ ee'.ptr = ee.ptr
        /\ ee'.memory_page_count = i
        /\ ee'.memory_base = ee.memory_base /\ ee'.memory_bound = ee.memory_bound
        /\ \A j \in Slots : j # i => ee'.memory_pages[j] = ee.memory_pages[j]
    BY <1>3, <1>4, <1>6, Zenon DEF EngineState
  <2>3. HasArray' /\ Owned' /\ ~Complete' /\ ~Usable'
    BY <1>1, <1>2, <1>3, <2>1, <2>2 DEF HasArray, Owned, Complete, Usable, Parts
  <2>4. \A j \in Slots : Held(j)' <=> j < i
    BY <1>1, <1>2, <1>3, <2>1, <2>2, <2>3, SlotFacts DEF Held
  <2>5. TypeOK'
    BY <1>1, <1>6, <2>1, <2>2 DEF Inv, TypeOK
  <2>6. Exclusive'
    BY <1>1, <1>2, <2>1, <2>2, <2>3 DEF Inv, Exclusive, Usable
  <2>7. HeapExact'
    BY <1>1, <1>3, <2>2, <2>3 DEF Inv, HeapExact
  <2>8. LoadStages'
    <3>1. load[l].memory_len <= MAX_MEMORY_SIZE
      BY DEF Inv, LoadStages
    <3> QED
      BY <1>2, <2>1, <3>1, StageNames DEF LoadStages, UnmapsNothing, MustUnmap
  <2>9. PagesExact'
    <3>1. \A j \in Slots : (Held(j)' <=> Held(j)) /\ (Held(j) => j # i)
      BY <1>3, <2>4, SlotFacts
    <3>2. PagesExact
      BY DEF Inv
    <3> HIDE DEF Held, HasArray
    <3> QED
      BY <1>1, <1>2, <1>3, <1>6, <2>2, <3>1, <3>2, SlotFacts DEF PagesExact
  <2>10. MappedHeld'
    BY <1>1, <1>3 DEF MappedHeld
  <2>11. MemoryBuilt'
    BY <2>3 DEF MemoryBuilt
  <2>12. GrowStages'
    BY <1>1, <1>2 DEF GrowStages
  <2> QED
    BY <2>5, <2>6, <2>7, <2>8, <2>9, <2>10, <2>11, <2>12 DEF Inv
<1> QED
  BY <1>0, <1>5, <1>6 DEF LoadPage

LEMMA LoadMapInv ==
  ASSUME SingleUser, Inv, NEW l \in Loaders, LoadMap(l)
  PROVE  Inv'
<1>0. PICK count : count = ee.memory_page_count
  OBVIOUS
<1>1. /\ load[l].pc = "alloc" /\ load[l].i >= count
      /\ UNCHANGED <<sess, guard_ro, heap, allocated, grow, slice, lost>>
  BY <1>0 DEF LoadMap, LoadAt
<1>2. /\ sess.pc = "open" /\ ~sess.ready /\ ~Usable /\ lost = {} /\ ~guard_ro
      /\ \A m \in Loaders : m = l
      /\ \A g \in Guests : grow[g].pc = "idle"
  BY <1>1, LoadAlone
<1>3. /\ HasArray /\ Owned /\ ~Complete
      /\ count \in Nat /\ load[l].i = count /\ count <= SlotCount
      /\ count = load[l].memory_len \div PAGE_SIZE
      /\ load[l].memory_len \in Nat \ {0}
      /\ \A j \in Slots : Held(j) <=> j < count
      /\ \A j \in Slots : mapping[j] = NULL
  BY <1>0, <1>1, AllocStage
<1>4. /\ load \in [Loaders -> LoadState] /\ ee \in EngineState
  BY DEF Inv, TypeOK
<1>5. PICK k \in 0 .. count :
        /\ mapping' = Mapped(0, 0, k)
        /\ \/ /\ Goto(l, "fail")
              /\ UNCHANGED ee
           \/ /\ k * PAGE_SIZE = load[l].memory_len /\ k = count
              /\ \/ /\ Goto(l, "fail")
                    /\ ee' = [ee EXCEPT !.memory_base = TRUE]
                 \/ /\ Goto(l, "globals_ptr")
                    /\ ee' = [ee EXCEPT !.memory_base = TRUE,
                                        !.memory_bound = load[l].memory_len]
  BY <1>0, <1>3 DEF LoadMap
<1>6. /\ ee' \in EngineState /\ ee'.ptr = ee.ptr
      /\ ee'.memory_page_count = count
      /\ ee'.memory_pages = ee.memory_pages
  <2>1. TRUE \in BOOLEAN /\ load[l].memory_len \in Nat
    BY <1>3
  <2> QED
    BY <1>0, <1>4, <1>5, <2>1, Zenon DEF EngineState
<1>7. PICK at \in {"fail", "globals_ptr"} :
        /\ Goto(l, at)
        /\ at = "globals_ptr" => /\ count * PAGE_SIZE = load[l].memory_len /\ k = count
                                 /\ ee'.memory_base
                                 /\ ee'.memory_bound = load[l].memory_len
  <2>1. CASE Goto(l, "fail")
    BY <2>1
  <2>2. CASE /\ k * PAGE_SIZE = load[l].memory_len /\ k = count
             /\ Goto(l, "globals_ptr")
             /\ ee' = [ee EXCEPT !.memory_base = TRUE,
                                 !.memory_bound = load[l].memory_len]
    BY <1>4, <2>2 DEF EngineState
  <2> QED
    BY <1>5, <2>1, <2>2
<1>8. /\ load' \in [Loaders -> LoadState]
      /\ load'[l].pc = at
      /\ load'[l].memory_len = load[l].memory_len
      /\ ~load'[l].pages_allocated_without_mapping
  <2>1. at \in LoadPCs
    BY DEF LoadPCs, Parts
  <2>2. ~load[l].pages_allocated_without_mapping
    BY <1>1, ZenonT(30) DEF Inv, LoadStages
  <2> QED
    BY <1>7, <2>1, <2>2, GotoFacts DEF Inv
<1>9. HasArray' /\ Owned' /\ ~Usable'
  BY <1>1, <1>2, <1>3, <1>6, <1>8 DEF HasArray, Owned, Usable
<1>10. \A j \in Slots : Held(j)' <=> j < count
  BY <1>1, <1>2, <1>3, <1>6, <1>8, <1>9, SlotFacts DEF Held
<1>11. /\ mapping' \in [Slots -> Pages \cup {NULL}]
       /\ \A j \in Slots : mapping'[j] = IF j < k THEN ee.memory_pages[j] ELSE NULL
  <2>1. k \in Nat
    BY <1>3, <1>5
  <2>2. \A j \in Slots : /\ j \in 0 .. 0 + k - 1 <=> j < k
                         /\ 0 + j - 0 = j
    BY <2>1, SlotFacts
  <2> QED
    BY <1>3, <1>4, <1>5, <2>2 DEF Mapped, EngineState
<1>12. TypeOK'
  BY <1>1, <1>6, <1>8, <1>11 DEF Inv, TypeOK
<1>13. Exclusive'
  BY <1>1, <1>2, <1>6, <1>8, <1>9 DEF Inv, Exclusive, Usable
<1>14. HeapExact'
  BY <1>1, <1>3, <1>6, <1>9, ZenonT(30) DEF Inv, HeapExact
<1>15. LoadStages'
  <2>1. load'[l].pc \in DOMAIN Before => ee'.ptr \subseteq Before[load'[l].pc]
    <3>1. ee.ptr \subseteq Before["alloc"]
      BY <1>1, StageNames DEF Inv, LoadStages
    <3> QED
      BY <1>6, <1>8, <3>1 DEF Before, Buffers, Parts
  <2>2. count = 0 => load[l].memory_len \in 1 .. PAGE_SIZE - 1
    <3>1. load[l].memory_len < (count + 1) * PAGE_SIZE
      BY <1>3, Quotient
    <3> QED
      BY <1>3, <3>1, EngineAssumption
  <2>3. UnmapsNothing(MustUnmap(l))' => count = 0
    BY <1>6 DEF UnmapsNothing
  <2> QED
    <3>1. load[l].memory_len <= MAX_MEMORY_SIZE
      BY DEF Inv, LoadStages
    <3> QED
      BY <1>2, <1>6, <1>8, <2>1, <2>2, <2>3, <3>1 DEF LoadStages
<1>16. PagesExact'
  <2>1. PagesExact
    BY DEF Inv
  <2>2. \A j \in Slots : Held(j)' <=> Held(j)
    BY <1>3, <1>10
  <2> HIDE DEF Held, HasArray
  <2> QED
    BY <1>1, <1>3, <1>6, <2>1, <2>2 DEF PagesExact
<1>17. MappedHeld'
  <2>1. \A j \in Slots : j < k => j < count
    BY <1>3, <1>5, SlotFacts
  <2>2. \A j \in Slots :
          mapping'[j] # NULL => /\ Held(j)' /\ mapping'[j] = ee'.memory_pages[j]
                                /\ j < ee'.memory_page_count
    BY <1>6, <1>10, <1>11, <2>1
  <2> QED
    BY <1>2, <1>8, <2>2 DEF MappedHeld
<1>18. MemoryBuilt'
  <2>1. CASE at = "fail"
    BY <1>2, <1>8, <1>9, <2>1 DEF MemoryBuilt, Complete, Parts
  <2>2. CASE at = "globals_ptr"
    <3>1. "static_memory_vm" \in ee'.ptr /\ "memory_pages" \in ee'.ptr
      BY <1>1, <1>6 DEF Inv, LoadStages
    <3>2. count > 0
      BY <1>3, <1>7, <2>2, EngineAssumption
    <3> QED
      BY <1>6, <1>7, <1>11, <2>2, <3>1, <3>2 DEF MemoryBuilt
  <2> QED
    BY <2>1, <2>2, ZenonT(30)
<1>19. GrowStages'
  BY <1>1, <1>2 DEF GrowStages
<1> QED
  BY <1>12, <1>13, <1>14, <1>15, <1>16, <1>17, <1>18, <1>19 DEF Inv

LEMMA LoadStackInv ==
  ASSUME SingleUser, Inv, NEW l \in Loaders, LoadStack(l)
  PROVE  Inv'
<1>1. /\ load[l].pc = "stack"
      /\ UNCHANGED <<sess, allocated, mapping, grow, slice, lost>>
  BY DEF LoadStack, LoadAt
<1>2. /\ sess.pc = "open" /\ ~sess.ready /\ ~Usable /\ lost = {} /\ ~guard_ro
      /\ \A m \in Loaders : m = l
      /\ \A g \in Guests : grow[g].pc = "idle"
  BY <1>1, LoadAlone
<1>3. PICK at \in {"fail", "done"} :
        /\ Goto(l, at)
        /\ at = "fail" => UNCHANGED <<ee, heap, guard_ro>>
        /\ at = "done" => /\ ee' = [ee EXCEPT !.ptr = @ \cup {"stack"}]
                          /\ heap' = [heap EXCEPT !["stack"] = @ + 1]
                          /\ guard_ro' \in BOOLEAN
  BY DEF LoadStack
<1>4. /\ load' \in [Loaders -> LoadState]
      /\ load'[l].pc = at
      /\ load'[l].memory_len = load[l].memory_len
      /\ load'[l].pages_allocated_without_mapping
           = load[l].pages_allocated_without_mapping
  BY <1>3, GotoFacts, ZenonT(30) DEF Inv, LoadPCs
<1>5. "stack" \notin ee.ptr /\ "stack" \in Buffers
  BY <1>1 DEF Inv, LoadStages, Before, Buffers
<1>6. /\ ee' \in EngineState
      /\ ee'.ptr = IF at = "done" THEN ee.ptr \cup {"stack"} ELSE ee.ptr
      /\ ee'.memory_pages = ee.memory_pages
      /\ ee'.memory_page_count = ee.memory_page_count
      /\ ee'.memory_base = ee.memory_base
      /\ ee'.memory_bound = ee.memory_bound
  <2>1. ee \in EngineState
    BY DEF Inv, TypeOK
  <2>2. CASE at = "fail"
    BY <1>3, <2>1, <2>2
  <2>3. CASE at = "done"
    BY <1>3, <1>5, <2>1, <2>3 DEF EngineState
  <2> QED
    BY <2>2, <2>3
<1>7. /\ Owned /\ Owned' /\ ~Usable' /\ Complete
      /\ HasArray' <=> HasArray
  <2>1. \A m \in Loaders : load[m].pc = "stack" /\ load'[m].pc \in {"fail", "done"}
    BY <1>1, <1>2, <1>4
  <2>2. Owned /\ Owned' /\ ~Usable' /\ Complete
    BY <1>1, <1>2, <2>1 DEF Owned, Complete, Usable
  <2>3. "memory_pages" \in ee'.ptr <=> "memory_pages" \in ee.ptr
    BY <1>6
  <2> QED
    BY <1>1, <2>1, <2>2, <2>3 DEF HasArray
<1>8. \A i \in Slots : Held(i)' <=> Held(i)
  BY <1>1, <1>2, <1>4, <1>6, <1>7, Zenon DEF Held
<1>9. heap' \in [Buffers -> Nat] /\ guard_ro' \in BOOLEAN
  BY <1>3, <1>5 DEF Inv, TypeOK
<1>10. TypeOK'
  BY <1>1, <1>4, <1>6, <1>9 DEF Inv, TypeOK
<1>11. Exclusive'
  BY <1>1, <1>2, <1>3, <1>4, <1>6, <1>7 DEF Inv, Exclusive, Usable
<1>12. HeapExact'
  BY <1>3, <1>5, <1>6, <1>7 DEF Inv, TypeOK, HeapExact
<1>13. LoadStages'
  <2>1. ~UnmapsNothing(MustUnmap(l))'
    <3>1. "memory_pages" \in ee.ptr => ee.memory_page_count > 0
      BY <1>7, Zenon DEF Inv, MemoryBuilt
    <3>2. "memory_pages" \in ee'.ptr => "memory_pages" \in ee.ptr
      BY <1>6
    <3>3. ee.memory_page_count > 0 => ee.memory_page_count # 0
      OBVIOUS
    <3> QED
      BY <1>6, <3>1, <3>2, <3>3, Zenon DEF UnmapsNothing
  <2> QED
    <3>1. /\ load[l].memory_len <= MAX_MEMORY_SIZE
          /\ ~load[l].pages_allocated_without_mapping
      BY <1>1, ZenonT(30) DEF Inv, LoadStages
    <3> QED
      BY <1>2, <1>4, <2>1, <3>1, StageNames, Zenon DEF LoadStages
<1>14. PagesExact' /\ MappedHeld'
  BY <1>1, <1>2, <1>4, <1>6, <1>7, <1>8, PagesFrame, Zenon DEF Inv
<1>15. MemoryBuilt'
  <2>1. MemoryBuilt
    BY DEF Inv
  <2>2. "memory_pages" \in ee'.ptr <=> "memory_pages" \in ee.ptr
    BY <1>6
  <2>3. "static_memory_vm" \in ee.ptr => "static_memory_vm" \in ee'.ptr
    BY <1>6
  <2>4. QED
    BY <1>1, <1>6, <1>7, <2>1, <2>2, <2>3 DEF MemoryBuilt
<1>16. GrowStages'
  BY <1>1, <1>2 DEF GrowStages
<1> QED
  BY <1>10, <1>11, <1>12, <1>13, <1>14, <1>15, <1>16 DEF Inv

LEMMA LoadReadyInv ==
  ASSUME SingleUser, Inv, NEW l \in Loaders, LoadReady(l)
  PROVE  Inv'
<1>1. /\ load[l].pc = "done"
      /\ load' = [load EXCEPT ![l] = NoLoad]
      /\ sess' = [sess EXCEPT !.ready = TRUE]
      /\ UNCHANGED <<ee, guard_ro, heap, allocated, mapping, grow, slice, lost>>
  BY DEF LoadReady, LoadAt
<1>2. /\ sess.pc = "open" /\ ~sess.ready /\ ~Usable
      /\ \A m \in Loaders : m = l
      /\ \A g \in Guests : grow[g].pc = "idle"
  BY <1>1, LoadAlone
<1>3. /\ load' \in [Loaders -> LoadState]
      /\ load'[l].pc = "idle" /\ load'[l].memory_len = 0
      /\ ~load'[l].pages_allocated_without_mapping
  BY <1>1 DEF Inv, TypeOK, NoLoad, LoadState, LoadPCs
<1>4. /\ sess' \in [pc : {"open", "destroy", "closed", "bug"}, ready : BOOLEAN]
      /\ sess'.pc = "open" /\ sess'.ready
  BY <1>1, <1>2, Zenon DEF Inv, TypeOK
<1>5. /\ Owned /\ Owned' /\ Usable' /\ Complete
      /\ HasArray' <=> HasArray
  BY <1>1, <1>2, <1>3, <1>4 DEF Owned, HasArray, Complete, Usable
<1>6. \A i \in Slots : Held(i)' <=> Held(i)
  BY <1>1, <1>2, <1>3, <1>5 DEF Held
<1>7. TypeOK'
  BY <1>1, <1>3, <1>4 DEF Inv, TypeOK
<1>8. Exclusive'
  BY <1>1, <1>2, <1>3, <1>4, <1>5 DEF Inv, Exclusive
<1>9. HeapExact'
  BY <1>1, <1>5 DEF Inv, HeapExact
<1>10. LoadStages'
  BY <1>2, <1>3, NoLoadStages
<1>11. PagesExact' /\ MappedHeld'
  BY <1>1, <1>2, <1>3, <1>4, <1>5, <1>6, PagesFrame DEF Inv
<1>12. MemoryBuilt'
  BY <1>1, <1>5 DEF Inv, MemoryBuilt
<1>13. GrowStages'
  BY <1>1, <1>2 DEF GrowStages
<1> QED
  BY <1>7, <1>8, <1>9, <1>10, <1>11, <1>12, <1>13 DEF Inv

-----------------------------------------------------------------------------
(* Taking the engine down. *)

\* When the pages are released, and unmapped unless none was mapped, none is
\* left but the lost ones.
LEMMA ReleasePagesFacts ==
  ASSUME Inv, NEW unmap \in BOOLEAN, ReleasePages(unmap),
         HasArray <=> "memory_pages" \in ee.ptr,
         \A i \in Slots : Held(i) <=> HasArray /\ i < ee.memory_page_count,
         unmap \/ \A i \in Slots : mapping[i] = NULL
  PROVE  /\ allocated' = lost
         /\ mapping' \in [Slots -> Pages \cup {NULL}]
         /\ \A i \in Slots : mapping'[i] # NULL => mapping'[i] \in lost
<1> DEFINE range == IF "memory_pages" \in ee.ptr THEN 0 .. ee.memory_page_count - 1 ELSE {}
<1>1. /\ allocated' = allocated \ {ee.memory_pages[i] : i \in range}
      /\ mapping' = [s \in Slots |-> IF unmap /\ s \in range THEN NULL ELSE mapping[s]]
  BY DEF ReleasePages
<1>2. /\ ee.memory_page_count \in Nat
      /\ mapping \in [Slots -> Pages \cup {NULL}]
  BY DEF Inv, TypeOK, EngineState
<1>3. HasArray => ee.memory_page_count <= SlotCount
  BY DEF Inv, PagesExact
<1>4. range \subseteq Slots /\ \A i \in Slots : i \in range <=> Held(i)
  BY <1>2, <1>3, SlotFacts
<1>5. PagesExact /\ MappedHeld
  BY DEF Inv
<1> HIDE DEF range, Held, HasArray
<1>6. allocated' = lost
  BY <1>1, <1>4, <1>5 DEF PagesExact
<1>7. \A i \in Slots : mapping'[i] # NULL => mapping'[i] \in lost
  BY <1>1, <1>4, <1>5 DEF MappedHeld
<1>8. mapping' \in [Slots -> Pages \cup {NULL}]
  BY <1>1, <1>2
<1> QED
  BY <1>6, <1>7, <1>8

\* An engine without pages.
LEMMA NoPagesLeft ==
  ASSUME ~HasArray', allocated' = lost', lost' = lost, sess.ready => sess'.ready, PagesExact,
         \A i \in Slots : mapping'[i] # NULL => mapping'[i] \in lost,
         \A l \in Loaders :
           load'[l].pc = "alloc" \/ load'[l].pages_allocated_without_mapping => lost = {}
  PROVE  PagesExact' /\ MappedHeld'
<1>1. \A i \in Slots : ~Held(i)'
  BY DEF Held
<1>2. ~sess'.ready => lost' = {}
  BY DEF PagesExact
<1> HIDE DEF Held, HasArray
<1>3. PagesExact'
  BY <1>1, <1>2 DEF PagesExact
<1>4. QED
  BY <1>1, <1>3 DEF MappedHeld

LEMMA LoadFailInv ==
  ASSUME SingleUser, Inv, NEW l \in Loaders, LoadFail(l)
  PROVE  Inv'
<1>1. /\ load[l].pc = "fail"
      /\ UNCHANGED <<sess, ee, guard_ro, heap, grow, slice, lost>>
  BY DEF LoadFail, LoadAt
<1>2. /\ sess.pc = "open" /\ ~sess.ready /\ ~Usable /\ lost = {} /\ ~guard_ro
      /\ \A m \in Loaders : m = l
      /\ \A g \in Guests : grow[g].pc = "idle"
  BY <1>1, LoadAlone
<1>3. PICK at \in {"bug", "free"} :
        /\ Goto(l, at)
        /\ at = "bug" => UnmapsNothing(MustUnmap(l)) /\ UNCHANGED <<allocated, mapping>>
        /\ at = "free" => ReleasePages(MustUnmap(l))
  BY DEF LoadFail
<1>4. /\ load' \in [Loaders -> LoadState]
      /\ load'[l].pc = at
      /\ load'[l].memory_len = load[l].memory_len
      /\ load'[l].pages_allocated_without_mapping
           = load[l].pages_allocated_without_mapping
  BY <1>3, GotoFacts DEF Inv, LoadPCs
<1>5. /\ Owned /\ Owned' /\ ~Complete' /\ ~Usable'
      /\ HasArray <=> "memory_pages" \in ee.ptr
      /\ at = "free" => ~HasArray'
      /\ at = "bug" => (HasArray' <=> HasArray)
  BY <1>1, <1>2, <1>4 DEF Owned, HasArray, Complete, Usable, Parts
<1>6. \A i \in Slots : Held(i) <=> HasArray /\ i < ee.memory_page_count
  BY <1>1, <1>2 DEF Held
<1>7. at = "bug" => \A i \in Slots : Held(i)' <=> Held(i)
  BY <1>1, <1>2, <1>4, <1>5 DEF Held
<1>8. at = "free" => /\ allocated' = lost
                     /\ mapping' \in [Slots -> Pages \cup {NULL}]
                     /\ \A i \in Slots : mapping'[i] # NULL => mapping'[i] \in lost
  <2>1. MustUnmap(l) \in BOOLEAN
    BY DEF MustUnmap
  <2>2. MustUnmap(l) \/ \A i \in Slots : mapping[i] = NULL
    BY DEF MustUnmap, Inv, MappedHeld
  <2> QED
    BY <1>3, <1>5, <1>6, <2>1, <2>2, ReleasePagesFacts
<1>9. TypeOK'
  BY <1>1, <1>3, <1>4, <1>8, ZenonT(30) DEF Inv, TypeOK
<1>10. Exclusive'
  BY <1>1, <1>2, <1>4, <1>5, ZenonT(30) DEF Inv, Exclusive, Usable
<1>11. HeapExact'
  BY <1>1, <1>5, ZenonT(30) DEF Inv, HeapExact
<1>12. LoadStages'
  <2>1. at = "bug" => /\ ~load[l].pages_allocated_without_mapping
                      /\ load[l].memory_len \in 1 .. PAGE_SIZE - 1
    BY <1>1, <1>3 DEF Inv, LoadStages, UnmapsNothing, MustUnmap
  <2> QED
    <3>1. load[l].memory_len <= MAX_MEMORY_SIZE
      BY ZenonT(30) DEF Inv, LoadStages
    <3> QED
      BY <1>2, <1>4, <2>1, <3>1, StageNames, ZenonT(30) DEF LoadStages
<1>13. PagesExact' /\ MappedHeld'
  <2>1. CASE at = "bug"
    BY <1>1, <1>2, <1>3, <1>4, <1>5, <1>7, <2>1, PagesFrame, Zenon DEF Inv
  <2>2. CASE at = "free"
    BY <1>1, <1>2, <1>5, <1>8, <2>2, NoPagesLeft, Zenon DEF Inv
  <2> QED
    BY <2>1, <2>2, ZenonT(30)
<1>14. MemoryBuilt'
  BY <1>5 DEF MemoryBuilt
<1>15. GrowStages'
  BY <1>1, <1>2 DEF GrowStages
<1> QED
  BY <1>9, <1>10, <1>11, <1>12, <1>13, <1>14, <1>15 DEF Inv

\* free_vm_area and the vfree calls leave no buffer.
LEMMA FreeBuffersFacts ==
  ASSUME Inv, Owned, ~HasArray, FreeBuffers
  PROVE  /\ heap' = [b \in Buffers |-> 0]
         /\ allocated' = lost
         /\ mapping' \in [Slots -> Pages \cup {NULL}]
         /\ \A i \in Slots : mapping'[i] # NULL => mapping'[i] \in lost
         /\ UNCHANGED <<ee, guard_ro, allocated, grow, slice, lost>>
<1>1. \A b \in Buffers : heap[b] - (IF b \in ee.ptr THEN 1 ELSE 0) = 0
  BY DEF Inv, HeapExact
<1>2. heap' = [b \in Buffers |-> 0]
  BY <1>1 DEF FreeBuffers, VfreeAll
<1>3. \A i \in Slots : ~Held(i)
  BY DEF Held
<1>4. allocated = lost /\ \A i \in Slots : mapping[i] # NULL => mapping[i] \in lost
  BY <1>3, Zenon DEF Inv, PagesExact, MappedHeld
<1>5. mapping' \in [Slots -> Pages \cup {NULL}]
  BY DEF FreeBuffers, Inv, TypeOK, NoPages
<1>6. \A i \in Slots : mapping'[i] # NULL => mapping'[i] \in lost
  BY <1>4 DEF FreeBuffers, NoPages
<1> QED
  BY <1>2, <1>4, <1>5, <1>6 DEF FreeBuffers

LEMMA LoadFreeInv ==
  ASSUME SingleUser, Inv, NEW l \in Loaders, LoadFree(l)
  PROVE  Inv'
<1>1. /\ load[l].pc = "free"
      /\ load' = [load EXCEPT ![l] = NoLoad]
      /\ FreeBuffers
      /\ UNCHANGED sess
  BY DEF LoadFree, LoadAt
<1>2. /\ sess.pc = "open" /\ ~sess.ready /\ ~Usable /\ ~guard_ro
      /\ \A m \in Loaders : m = l
      /\ \A g \in Guests : grow[g].pc = "idle"
  BY <1>1, LoadAlone
<1>3. /\ load' \in [Loaders -> LoadState]
      /\ load'[l].pc = "idle" /\ load'[l].memory_len = 0
      /\ ~load'[l].pages_allocated_without_mapping
  BY <1>1, ZenonT(30) DEF Inv, TypeOK, NoLoad, LoadState, LoadPCs
<1>4. Owned /\ ~HasArray /\ ~Owned' /\ ~HasArray' /\ ~Complete' /\ ~Usable'
  BY <1>1, <1>2, <1>3 DEF Owned, HasArray, Complete, Usable, Parts
<1>5. /\ heap' = [b \in Buffers |-> 0]
      /\ allocated' = lost
      /\ mapping' \in [Slots -> Pages \cup {NULL}]
      /\ \A i \in Slots : mapping'[i] # NULL => mapping'[i] \in lost
      /\ UNCHANGED <<ee, guard_ro, allocated, grow, slice, lost>>
  BY <1>1, <1>4, FreeBuffersFacts, Zenon
<1>6. TypeOK'
  BY <1>1, <1>3, <1>5, Zenon DEF Inv, TypeOK
<1>7. Exclusive'
  BY <1>1, <1>2, <1>3, <1>4, <1>5, Zenon DEF Inv, Exclusive, Usable
<1>8. HeapExact'
  BY <1>4, <1>5 DEF HeapExact
<1>9. LoadStages'
  BY <1>2, <1>3, NoLoadStages
<1>10. PagesExact' /\ MappedHeld'
  BY <1>1, <1>2, <1>3, <1>4, <1>5, NoPagesLeft, Zenon DEF Inv
<1>11. MemoryBuilt'
  BY <1>4 DEF MemoryBuilt
<1>12. GrowStages'
  BY <1>2, <1>5 DEF GrowStages
<1> QED
  BY <1>6, <1>7, <1>8, <1>9, <1>10, <1>11, <1>12 DEF Inv

LEMMA DestroyEngineInv ==
  ASSUME SingleUser, Inv, DestroyEngine
  PROVE  Inv'
<1>1. /\ sess.pc = "open" /\ sess.ready
      /\ \A l \in Loaders : load[l].pc = "idle"
      /\ \A g \in Guests : grow[g].pc = "idle"
      /\ \A c \in Copiers : slice[c] = {}
      /\ guard_ro' = FALSE
      /\ UNCHANGED <<load, ee, heap, grow, slice, lost>>
  BY DEF DestroyEngine, Unused, LoadAt
<1>2. Owned /\ Complete /\ (HasArray <=> "memory_pages" \in ee.ptr)
  BY <1>1 DEF Owned, Complete, Usable, HasArray
<1>3. ~UnmapsNothing(TRUE)
  BY <1>2 DEF Inv, MemoryBuilt, UnmapsNothing
<1>4. sess' = [sess EXCEPT !.pc = "destroy"] /\ ReleasePages(TRUE)
  BY <1>3, Zenon DEF DestroyEngine
<1>5. /\ sess' \in [pc : {"open", "destroy", "closed", "bug"}, ready : BOOLEAN]
      /\ sess'.pc = "destroy" /\ sess'.ready
  BY <1>1, <1>4 DEF Inv, TypeOK
<1>6. \A i \in Slots : Held(i) <=> HasArray /\ i < ee.memory_page_count
  BY <1>1 DEF Held
<1>7. /\ allocated' = lost
      /\ mapping' \in [Slots -> Pages \cup {NULL}]
      /\ \A i \in Slots : mapping'[i] # NULL => mapping'[i] \in lost
  BY <1>2, <1>4, <1>6, ReleasePagesFacts, Zenon
<1>8. Owned' /\ ~HasArray' /\ ~Complete' /\ ~Usable'
  BY <1>1, <1>5 DEF Owned, HasArray, Complete, Usable, Parts
<1>9. \A l \in Loaders : ~load[l].pages_allocated_without_mapping
  BY <1>1 DEF Inv, LoadStages
<1>10. TypeOK'
  BY <1>1, <1>5, <1>7, Zenon DEF Inv, TypeOK
<1>11. Exclusive'
  BY <1>1, <1>5, Zenon DEF Inv, Exclusive
<1>12. HeapExact'
  BY <1>1, <1>2, <1>8 DEF Inv, HeapExact
<1>13. LoadStages'
  BY <1>1, IdleStages DEF Inv
<1>14. PagesExact' /\ MappedHeld'
  BY <1>1, <1>5, <1>7, <1>8, <1>9, NoPagesLeft DEF Inv
<1>15. MemoryBuilt'
  BY <1>8 DEF MemoryBuilt
<1>16. GrowStages'
  BY <1>1 DEF GrowStages
<1> QED
  BY <1>10, <1>11, <1>12, <1>13, <1>14, <1>15, <1>16 DEF Inv

LEMMA DestroyFreeInv ==
  ASSUME SingleUser, Inv, DestroyFree
  PROVE  Inv'
<1>1. /\ sess.pc = "destroy"
      /\ sess' = [sess EXCEPT !.pc = "closed"]
      /\ FreeBuffers
      /\ UNCHANGED load
  BY DEF DestroyFree
<1>2. /\ sess.ready
      /\ \A l \in Loaders : load[l].pc = "idle"
      /\ \A g \in Guests : grow[g].pc = "idle"
      /\ \A c \in Copiers : slice[c] = {}
      /\ ~guard_ro
  BY <1>1 DEF Inv, Exclusive, Usable
<1>3. /\ sess' \in [pc : {"open", "destroy", "closed", "bug"}, ready : BOOLEAN]
      /\ sess'.pc = "closed" /\ sess'.ready
  BY <1>1, <1>2 DEF Inv, TypeOK
<1>4. Owned /\ ~HasArray /\ ~Owned' /\ ~HasArray' /\ ~Complete' /\ ~Usable'
  BY <1>1, <1>2, <1>3 DEF Owned, HasArray, Complete, Usable, Parts
<1>5. /\ heap' = [b \in Buffers |-> 0]
      /\ allocated' = lost
      /\ mapping' \in [Slots -> Pages \cup {NULL}]
      /\ \A i \in Slots : mapping'[i] # NULL => mapping'[i] \in lost
      /\ UNCHANGED <<ee, guard_ro, allocated, grow, slice, lost>>
  BY <1>1, <1>4, FreeBuffersFacts, Zenon
<1>6. \A l \in Loaders : ~load[l].pages_allocated_without_mapping
  BY <1>2 DEF Inv, LoadStages
<1>7. TypeOK'
  BY <1>1, <1>3, <1>5, Zenon DEF Inv, TypeOK
<1>8. Exclusive'
  BY <1>1, <1>2, <1>3, <1>5 DEF Inv, Exclusive
<1>9. HeapExact'
  BY <1>4, <1>5 DEF HeapExact
<1>10. LoadStages'
  BY <1>1, <1>2, IdleStages DEF Inv
<1>11. PagesExact' /\ MappedHeld'
  BY <1>1, <1>2, <1>3, <1>4, <1>5, <1>6, NoPagesLeft, Zenon DEF Inv
<1>12. MemoryBuilt'
  BY <1>4 DEF MemoryBuilt
<1>13. GrowStages'
  BY <1>2, <1>5 DEF GrowStages
<1> QED
  BY <1>7, <1>8, <1>9, <1>10, <1>11, <1>12, <1>13 DEF Inv

LEMMA CloseInv ==
  ASSUME SingleUser, Inv, Close
  PROVE  Inv'
<1>1. /\ sess.pc = "open" /\ ~sess.ready
      /\ \A l \in Loaders : load[l].pc = "idle"
      /\ \A g \in Guests : grow[g].pc = "idle"
      /\ \A c \in Copiers : slice[c] = {}
      /\ sess' = [sess EXCEPT !.pc = "closed"]
      /\ UNCHANGED <<load, ee, guard_ro, heap, allocated, mapping, grow, slice, lost>>
  BY DEF Close, Unused, LoadAt
<1>2. /\ sess' \in [pc : {"open", "destroy", "closed", "bug"}, ready : BOOLEAN]
      /\ sess'.pc = "closed" /\ ~sess'.ready
  BY <1>1 DEF Inv, TypeOK
<1>3. /\ ~Owned /\ ~HasArray /\ ~Owned' /\ ~HasArray' /\ ~Complete' /\ ~Usable'
      /\ ~guard_ro /\ lost = {}
  BY <1>1, <1>2 DEF Owned, HasArray, Complete, Usable, Parts, Inv, Exclusive, PagesExact
<1>4. TypeOK'
  BY <1>1, <1>2 DEF Inv, TypeOK
<1>5. Exclusive'
  BY <1>1, <1>2, <1>3 DEF Exclusive
<1>6. HeapExact'
  BY <1>1, <1>3 DEF Inv, HeapExact
<1>7. LoadStages'
  BY <1>1, IdleStages DEF Inv
<1>8. PagesExact' /\ MappedHeld'
  BY <1>1, <1>3, NoPagesFrame, ZenonT(30) DEF Inv
<1>9. MemoryBuilt'
  BY <1>3 DEF MemoryBuilt
<1>10. GrowStages'
  BY <1>1 DEF GrowStages
<1> QED
  BY <1>4, <1>5, <1>6, <1>7, <1>8, <1>9, <1>10 DEF Inv

=============================================================================
