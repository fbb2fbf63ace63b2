---------------------------- MODULE EngineProofs ----------------------------
(***************************************************************************)
(* The execution engine of a session that one thread loads and one guest   *)
(* grows, for any sizes, any requests, any number of copiers and any       *)
(* failures: its bound never runs ahead of its page table, no page is      *)
(* freed while it is mapped, nothing is left behind, and its memory is the *)
(* one that LinearMemory describes.                                        *)
(***************************************************************************)
EXTENDS EngineLifetime, EngineMemory

-----------------------------------------------------------------------------
(* memory.grow. *)

\* The state in which the one guest grows the memory.
LEMMA GrowAlone ==
  ASSUME SingleUser, Inv, NEW g \in Guests, Usable, ee.memory_base
  PROVE  /\ sess.pc = "open" /\ sess.ready /\ Owned /\ Complete /\ HasArray
         /\ \A h \in Guests : h = g
         /\ \A l \in Loaders : load[l].pc = "idle"
         /\ \A l \in Loaders : ~load[l].pages_allocated_without_mapping
         /\ "memory_pages" \in ee.ptr
         /\ ee.memory_page_count \in Nat /\ ee.memory_bound \in Nat
         /\ ee.memory_page_count <= SlotCount
         /\ grow[g].pc # "bound" => ee.memory_bound = ee.memory_page_count * PAGE_SIZE
         /\ grow[g].old_size \in Nat /\ grow[g].delta \in Nat /\ grow[g].i \in Nat
         /\ NewPageCount(g) \in Nat
<1>1. sess.pc = "open" /\ sess.ready
  BY DEF Usable
<1>2. \A h \in Guests : h = g
  BY DEF SingleUser
<1>3. \A l \in Loaders : load[l].pc = "idle"
  BY <1>1 DEF Inv, Exclusive
<1>4. Owned /\ Complete
  BY <1>1 DEF Owned, Complete
<1>5. /\ "memory_pages" \in ee.ptr
      /\ grow[g].pc # "bound" => ee.memory_bound = ee.memory_page_count * PAGE_SIZE
  BY <1>2, <1>4 DEF Inv, MemoryBuilt
<1>6. HasArray
  BY <1>1, <1>3, <1>4, <1>5 DEF HasArray
<1>7. \A l \in Loaders : ~load[l].pages_allocated_without_mapping
  BY <1>3 DEF Inv, LoadStages
<1>8. /\ ee.memory_page_count \in Nat /\ ee.memory_bound \in Nat
      /\ grow[g].old_size \in Nat /\ grow[g].delta \in Nat /\ grow[g].i \in Nat
  BY DEF Inv, TypeOK, EngineState, GrowState
<1>9. grow[g].old_size + grow[g].delta \in Nat
  BY <1>8
<1>10. NewPageCount(g) \in Nat
  BY <1>9, Quotient DEF NewPageCount
<1> QED
  BY <1>1, <1>2, <1>3, <1>4, <1>5, <1>6, <1>7, <1>8, <1>10 DEF Inv, PagesExact

LEMMA GrowBeginInv ==
  ASSUME SingleUser, Inv, NEW g \in Guests, NEW n \in GrowPages, GrowBegin(g, n)
  PROVE  Inv'
<1>1. /\ Usable /\ grow[g].pc = "idle" /\ ee.memory_base /\ n \in Nat \ {0}
      /\ ee.memory_bound + n * WASM_PAGE_SIZE <= STATIC_MEMORY_AVAILABLE
      /\ grow' = [grow EXCEPT ![g] = [pc |-> "alloc", old_size |-> ee.memory_bound,
                                      delta |-> n * WASM_PAGE_SIZE,
                                      i |-> ee.memory_page_count]]
      /\ UNCHANGED <<sess, load, ee, guard_ro, heap, allocated, mapping, slice, lost>>
  BY EngineAssumption DEF GrowBegin
<1>2. /\ sess.pc = "open" /\ sess.ready /\ Owned /\ Complete /\ HasArray
      /\ \A h \in Guests : h = g
      /\ \A l \in Loaders : load[l].pc = "idle"
      /\ ee.memory_page_count \in Nat /\ ee.memory_bound \in Nat
      /\ ee.memory_bound = ee.memory_page_count * PAGE_SIZE
  BY <1>1, GrowAlone
<1>3. n * WASM_PAGE_SIZE \in Nat
  BY <1>1, EngineAssumption
<1>4. /\ grow' \in [Guests -> GrowState]
      /\ grow'[g].pc = "alloc" /\ grow'[g].old_size = ee.memory_bound
      /\ grow'[g].delta = n * WASM_PAGE_SIZE
      /\ grow'[g].i = ee.memory_page_count
  BY <1>1, <1>2, <1>3 DEF Inv, TypeOK, GrowState
<1>5. PICK m \in Nat \ {0} : n * WASM_PAGE_SIZE = m * PAGE_SIZE
  BY <1>1, WasmPages
<1>6. ee.memory_bound + n * WASM_PAGE_SIZE = (ee.memory_page_count + m) * PAGE_SIZE
  BY <1>2, <1>5, PagesAdd
<1>7. NewPageCount(g)' = ee.memory_page_count + m
  <2>1. ee.memory_page_count + m \in Nat
    BY <1>2
  <2> QED
    BY <1>4, <1>6, <2>1, PagesOf DEF NewPageCount
<1>8. NewPageCount(g)' <= SlotCount
  <2>1. ee.memory_bound + n * WASM_PAGE_SIZE \in Nat
    BY <1>2, <1>3
  <2> QED
    BY <1>1, <1>4, <2>1, FitsArray DEF NewPageCount
<1>9. /\ Owned' = Owned /\ HasArray' = HasArray /\ Complete' = Complete /\ Usable' = Usable
  BY <1>1 DEF Owned, HasArray, Complete, Usable
<1>10. \A i \in Slots : Held(i)' <=> Held(i)
  BY <1>1, <1>2, <1>4, <1>9, SlotFacts DEF Held
<1>11. TypeOK'
  BY <1>1, <1>4 DEF Inv, TypeOK
<1>12. Exclusive'
  BY <1>1, <1>9 DEF Inv, Exclusive
<1>13. HeapExact'
  BY <1>1, <1>9 DEF Inv, HeapExact
<1>14. LoadStages'
  BY <1>1 DEF Inv, LoadStages, UnmapsNothing, MustUnmap
<1>15. PagesExact' /\ MappedHeld'
  BY <1>1, <1>2, <1>4, <1>9, <1>10, PagesFrame DEF Inv
<1>16. MemoryBuilt'
  BY <1>1, <1>2, <1>4, <1>9 DEF Inv, MemoryBuilt
<1>17. GrowStages'
  <2>1. grow'[g].i \in ee'.memory_page_count .. NewPageCount(g)'
    BY <1>1, <1>2, <1>4, <1>7
  <2>2. ee.memory_page_count > 0
    BY <1>1, <1>2 DEF Inv, MemoryBuilt
  <2>3. ee.memory_bound > 0
    BY <1>2, <2>2, EngineAssumption
  <2> QED
    BY <1>1, <1>2, <1>4, <1>6, <1>7, <1>8, <2>1, <2>3 DEF GrowStages
<1> QED
  BY <1>11, <1>12, <1>13, <1>14, <1>15, <1>16, <1>17 DEF Inv

\* The array and the guest's place in it while its pages are allocated.
LEMMA GrowAllocStage ==
  ASSUME SingleUser, Inv, NEW g \in Guests, grow[g].pc = "alloc"
  PROVE  /\ Usable /\ ee.memory_base
         /\ ee.memory_page_count <= grow[g].i /\ grow[g].i <= NewPageCount(g)
         /\ NewPageCount(g) <= SlotCount
         /\ \A j \in Slots : Held(j) <=> j < grow[g].i
         /\ \A j \in Slots : mapping[j] # NULL =>
              mapping[j] \in lost \/ (j < ee.memory_page_count /\ mapping[j] = ee.memory_pages[j])
<1>1. /\ Usable /\ ee.memory_base
      /\ grow[g].i \in ee.memory_page_count .. NewPageCount(g)
      /\ NewPageCount(g) <= SlotCount
  BY DEF Inv, Exclusive, GrowStages
<1>2. /\ HasArray
      /\ \A h \in Guests : h = g
      /\ \A l \in Loaders : load[l].pc = "idle"
      /\ ee.memory_page_count \in Nat /\ grow[g].i \in Nat /\ NewPageCount(g) \in Nat
  BY <1>1, GrowAlone
<1>3. \A j \in Slots : Held(j) <=> j < grow[g].i
  BY <1>1, <1>2, SlotFacts DEF Held
<1>4. \A j \in Slots : mapping[j] # NULL =>
        mapping[j] \in lost \/ (j < ee.memory_page_count /\ mapping[j] = ee.memory_pages[j])
  BY <1>2 DEF Inv, MappedHeld
<1> QED
  BY <1>1, <1>2, <1>3, <1>4

LEMMA GrowPageInv ==
  ASSUME SingleUser, Inv, NEW g \in Guests, GrowPage(g)
  PROVE  Inv'
<1>0. PICK i, count : i = grow[g].i /\ count = ee.memory_page_count
  OBVIOUS
<1>1. /\ grow[g].pc = "alloc" /\ i < NewPageCount(g)
      /\ UNCHANGED <<sess, load, guard_ro, heap, mapping, slice, lost>>
  BY <1>0 DEF GrowPage
<1>2. /\ Usable /\ ee.memory_base
      /\ count <= i /\ NewPageCount(g) <= SlotCount
      /\ \A j \in Slots : Held(j) <=> j < i
      /\ \A j \in Slots : mapping[j] # NULL =>
           mapping[j] \in lost \/ (j < count /\ mapping[j] = ee.memory_pages[j])
  BY <1>0, <1>1, GrowAllocStage
<1>3. /\ sess.pc = "open" /\ sess.ready /\ Owned /\ Complete /\ HasArray
      /\ \A h \in Guests : h = g
      /\ \A l \in Loaders : load[l].pc = "idle"
      /\ \A l \in Loaders : ~load[l].pages_allocated_without_mapping
      /\ count \in Nat /\ i \in Nat /\ NewPageCount(g) \in Nat
      /\ count <= SlotCount
  BY <1>0, <1>2, GrowAlone
<1>4. i \in Slots
  BY <1>1, <1>2, <1>3, SlotFacts
<1>5. grow \in [Guests -> GrowState] /\ ee \in EngineState /\ allocated \subseteq Pages
  BY DEF Inv, TypeOK
<1>6. /\ ee.memory_bound = count * PAGE_SIZE /\ "memory_pages" \in ee.ptr
      /\ "static_memory_vm" \in ee.ptr /\ count > 0
      /\ \A j \in Slots : j < count => mapping[j] = ee.memory_pages[j]
  BY <1>0, <1>1, <1>2, <1>3, GrowAlone DEF Inv, MemoryBuilt
<1>7. CASE /\ FreePages # {}
           /\ ee' = [ee EXCEPT !.memory_pages[i] = AllocPage]
           /\ allocated' = allocated \cup {AllocPage}
           /\ grow' = [grow EXCEPT ![g].i = i + 1]
  <2>1. /\ grow' \in [Guests -> GrowState]
        /\ grow'[g].pc = "alloc" /\ grow'[g].i = i + 1
        /\ grow'[g].old_size = grow[g].old_size /\ grow'[g].delta = grow[g].delta
    BY <1>1, <1>3, <1>5, <1>7 DEF GrowState
  <2>2. AllocPage \in Pages /\ AllocPage \notin allocated
    BY <1>7, AllocPageFree
  <2>3. /\ ee' \in EngineState /\ ee'.ptr = ee.ptr
        /\ ee'.memory_page_count = ee.memory_page_count
        /\ ee'.memory_base = ee.memory_base /\ ee'.memory_bound = ee.memory_bound
        /\ ee'.memory_pages[i] = AllocPage
        /\ \A j \in Slots : j # i => ee'.memory_pages[j] = ee.memory_pages[j]
    BY <1>4, <1>5, <1>7, <2>2 DEF EngineState
  <2>4. HasArray' /\ Owned' /\ Usable'
    BY <1>1, <1>2, <1>3, <1>6, <2>3 DEF HasArray, Owned, Usable
  <2>5. \A j \in Slots : Held(j)' <=> j < i + 1
    BY <1>0, <1>1, <1>2, <1>3, <2>1, <2>3, <2>4, SlotFacts DEF Held
  <2>6. TypeOK'
    BY <1>1, <1>7, <2>1, <2>2, <2>3 DEF Inv, TypeOK
  <2>7. Exclusive'
    BY <1>1, <1>2, <1>3, <2>3, <2>4 DEF Inv, Exclusive
  <2>8. HeapExact'
    BY <1>1, <1>3, <2>3, <2>4 DEF Inv, HeapExact
  <2>9. LoadStages'
    BY <1>1, <1>3, IdleStages DEF Inv
  <2>10. PagesExact'
    <3>1. ~Held(i) /\ \A j \in Slots : Held(j)' <=> Held(j) \/ j = i
      BY <1>2, <1>3, <1>4, <2>5, SlotFacts
    <3> QED
      BY <1>1, <1>3, <1>4, <1>7, <2>2, <2>3, <3>1, TakePage DEF Inv
  <2>11. \A j \in Slots : j < count => j # i /\ Held(j)'
    BY <1>2, <1>3, <2>5, SlotFacts
  <2>12. MappedHeld'
    <3>1. \A j \in Slots : mapping'[j] # NULL =>
            \/ mapping'[j] \in lost'
            \/ Held(j)' /\ mapping'[j] = ee'.memory_pages[j] /\ j < ee'.memory_page_count
      BY <1>0, <1>1, <1>2, <2>3, <2>11
    <3> QED
      BY <1>1, <1>3, <3>1 DEF MappedHeld
  <2>13. MemoryBuilt'
    BY <1>0, <1>1, <1>2, <1>6, <2>1, <2>3, <2>11 DEF MemoryBuilt
  <2>14. GrowStages'
    <3>1. NewPageCount(g)' = NewPageCount(g)
      BY <2>1 DEF NewPageCount
    <3>2. grow'[g].i \in ee'.memory_page_count .. NewPageCount(g)'
      BY <1>0, <1>1, <1>2, <1>3, <2>1, <2>3, <3>1
    <3> QED
      BY <1>1, <1>3, <2>1, <2>3, <3>1, <3>2 DEF Inv, GrowStages
  <2> QED
    BY <2>6, <2>7, <2>8, <2>9, <2>10, <2>12, <2>13, <2>14 DEF Inv
<1>8. CASE /\ allocated' = allocated \ {ee.memory_pages[j] : j \in count .. i - 1}
           /\ ee' = [ee EXCEPT !.memory_pages =
                       [j \in Slots |-> IF j \in (count .. i - 1) \cup {i} THEN NULL ELSE @[j]]]
           /\ grow' = [grow EXCEPT ![g] = NoGrow]
  <2>1. grow' \in [Guests -> GrowState] /\ grow'[g].pc = "idle"
    BY <1>5, <1>8 DEF GrowState, NoGrow
  <2>2. /\ ee' \in EngineState /\ ee'.ptr = ee.ptr
        /\ ee'.memory_page_count = ee.memory_page_count
        /\ ee'.memory_base = ee.memory_base /\ ee'.memory_bound = ee.memory_bound
        /\ ee'.memory_pages = [j \in Slots |-> IF j \in (count .. i - 1) \cup {i}
                                               THEN NULL ELSE ee.memory_pages[j]]
    BY <1>5, <1>8 DEF EngineState
  <2>3. \A j \in Slots : j < count =>
          /\ ee'.memory_pages[j] = ee.memory_pages[j]
          /\ j \notin count .. i - 1 /\ Held(j)
    BY <1>2, <1>3, <2>2, SlotFacts
  <2>4. HasArray' /\ Owned' /\ Usable'
    BY <1>1, <1>2, <1>3, <1>6, <2>2 DEF HasArray, Owned, Usable
  <2>5. \A j \in Slots : Held(j)' <=> j < count
    BY <1>0, <1>1, <1>3, <2>1, <2>2, <2>4, SlotFacts DEF Held
  <2>6. TypeOK'
    BY <1>1, <1>5, <1>8, <2>1, <2>2 DEF Inv, TypeOK
  <2>7. Exclusive'
    BY <1>1, <1>2, <1>3, <2>2, <2>4 DEF Inv, Exclusive
  <2>8. HeapExact'
    BY <1>1, <1>3, <2>2, <2>4 DEF Inv, HeapExact
  <2>9. LoadStages'
    BY <1>1, <1>3, IdleStages DEF Inv
  <2>10. PagesExact'
    <3>1. \A j \in Slots : Held(j) <=> Held(j)' \/ j \in count .. i - 1
      BY <1>2, <1>3, <2>5, SlotFacts
    <3>2. count .. i - 1 \subseteq Slots
      BY <1>3, <1>4, SlotFacts
    <3>3. \A j \in Slots : Held(j)' =>
            ee'.memory_pages[j] = ee.memory_pages[j] /\ Held(j) /\ j \notin count .. i - 1
      BY <2>3, <2>5
    <3>4. PagesExact
      BY DEF Inv
    <3> HIDE DEF Held, HasArray
    <3>5. \A j \in Slots : Held(j)' => ee'.memory_pages[j] \in allocated' \ lost'
      BY <1>1, <1>8, <3>1, <3>2, <3>3, <3>4 DEF PagesExact
    <3>6. \A j, k \in Slots :
            Held(j)' /\ Held(k)' /\ ee'.memory_pages[j] = ee'.memory_pages[k] => j = k
      BY <3>3, <3>4 DEF PagesExact
    <3>7. \A p \in allocated' :
            p \in lost' \/ \E j \in Slots : Held(j)' /\ ee'.memory_pages[j] = p
      BY <1>1, <1>8, <3>1, <3>3, <3>4 DEF PagesExact
    <3>8. lost' \subseteq allocated'
      BY <1>1, <1>8, <3>1, <3>2, <3>4 DEF PagesExact
    <3> QED
      BY <1>0, <1>1, <1>3, <2>2, <3>4, <3>5, <3>6, <3>7, <3>8 DEF PagesExact
  <2>11. MappedHeld'
    <3>1. \A j \in Slots : mapping'[j] # NULL =>
            \/ mapping'[j] \in lost'
            \/ Held(j)' /\ mapping'[j] = ee'.memory_pages[j] /\ j < ee'.memory_page_count
      BY <1>0, <1>1, <1>2, <2>2, <2>3, <2>5
    <3> QED
      BY <1>1, <1>3, <3>1 DEF MappedHeld
  <2>12. MemoryBuilt'
    BY <1>0, <1>1, <1>2, <1>6, <2>2, <2>3 DEF MemoryBuilt
  <2>13. GrowStages'
    BY <1>3, <2>1 DEF GrowStages
  <2> QED
    BY <2>6, <2>7, <2>8, <2>9, <2>10, <2>11, <2>12, <2>13 DEF Inv
<1> QED
  BY <1>0, <1>7, <1>8 DEF GrowPage

\* The sizes of a memory.grow in pages: it maps from the end of what is
\* counted to the end of what it allocated.
LEMMA GrowSizes ==
  ASSUME SingleUser, Inv, NEW g \in Guests, grow[g].pc = "alloc"
  PROVE  /\ grow[g].old_size \div PAGE_SIZE = ee.memory_page_count
         /\ grow[g].delta \div PAGE_SIZE = NewPageCount(g) - ee.memory_page_count
         /\ ee.memory_page_count < NewPageCount(g)
<1>1. /\ Usable /\ ee.memory_base
      /\ grow[g].old_size = ee.memory_bound
      /\ grow[g].old_size + grow[g].delta = NewPageCount(g) * PAGE_SIZE
  BY DEF Inv, Exclusive, GrowStages
<1>2. PICK n \in Nat \ {0} : grow[g].delta = n * WASM_PAGE_SIZE
  BY DEF Inv, GrowStages
<1>3. PICK m \in Nat \ {0} : grow[g].delta = m * PAGE_SIZE
  BY <1>2, WasmPages
<1>4. /\ ee.memory_page_count \in Nat /\ NewPageCount(g) \in Nat
      /\ grow[g].old_size = ee.memory_page_count * PAGE_SIZE
  BY <1>1, GrowAlone
<1>5. grow[g].old_size + grow[g].delta = (ee.memory_page_count + m) * PAGE_SIZE
  BY <1>3, <1>4, PagesAdd
<1>6. ee.memory_page_count + m \in Nat
  BY <1>4
<1>7. NewPageCount(g) = ee.memory_page_count + m
  BY <1>5, <1>6, PagesOf DEF NewPageCount
<1> QED
  BY <1>3, <1>4, <1>7, PagesOf

LEMMA GrowMapInv ==
  ASSUME SingleUser, Inv, NEW g \in Guests, GrowMap(g)
  PROVE  Inv'
<1>0. PICK new, count : new = NewPageCount(g) /\ count = ee.memory_page_count
  OBVIOUS
<1>1. /\ grow[g].pc = "alloc" /\ grow[g].i >= new
      /\ UNCHANGED <<sess, load, ee, guard_ro, heap, allocated, slice>>
  BY <1>0 DEF GrowMap
<1>2. /\ Usable /\ ee.memory_base
      /\ grow[g].i <= new /\ new <= SlotCount
      /\ \A j \in Slots : Held(j) <=> j < grow[g].i
      /\ \A j \in Slots : mapping[j] # NULL =>
           mapping[j] \in lost \/ (j < count /\ mapping[j] = ee.memory_pages[j])
  BY <1>0, <1>1, GrowAllocStage
<1>3. /\ sess.pc = "open" /\ sess.ready /\ Owned /\ Complete /\ HasArray
      /\ \A h \in Guests : h = g
      /\ \A l \in Loaders : load[l].pc = "idle"
      /\ \A l \in Loaders : ~load[l].pages_allocated_without_mapping
      /\ count \in Nat /\ grow[g].i \in Nat /\ new \in Nat
      /\ count <= SlotCount
  BY <1>0, <1>2, GrowAlone
<1>4. grow[g].i = new
  BY <1>1, <1>2, <1>3
<1>5. /\ grow[g].old_size \div PAGE_SIZE = count
      /\ grow[g].delta \div PAGE_SIZE = new - count
      /\ count < new
  BY <1>0, <1>1, GrowSizes
<1>6. PICK k \in 0 .. new - count :
        /\ mapping' = Mapped(count, count, k)
        /\ \/ /\ k = new - count
              /\ grow' = [grow EXCEPT ![g].pc = "count"]
              /\ UNCHANGED lost
           \/ /\ grow' = [grow EXCEPT ![g] = NoGrow]
              /\ lost' = lost \cup {ee.memory_pages[j] : j \in count .. new - 1}
  BY <1>0, <1>5 DEF GrowMap
<1>7. /\ mapping' \in [Slots -> Pages \cup {NULL}]
      /\ \A j \in Slots : mapping'[j] = IF count <= j /\ j < count + k
                                        THEN ee.memory_pages[j] ELSE mapping[j]
  <2>1. \A j \in Slots : /\ j \in count .. count + k - 1 <=> count <= j /\ j < count + k
                         /\ count + j - count = j
    BY <1>3, <1>6, SlotFacts
  <2>2. ee \in EngineState /\ mapping \in [Slots -> Pages \cup {NULL}]
    BY DEF Inv, TypeOK
  <2> QED
    BY <1>6, <2>1, <2>2 DEF Mapped, EngineState
<1>8. /\ Owned' = Owned /\ HasArray' = HasArray /\ Complete' = Complete /\ Usable' = Usable
  BY <1>1 DEF Owned, HasArray, Complete, Usable
<1>9. grow \in [Guests -> GrowState]
  BY DEF Inv, TypeOK
<1>10. /\ ee.memory_bound = count * PAGE_SIZE /\ "memory_pages" \in ee.ptr
       /\ "static_memory_vm" \in ee.ptr /\ count > 0
       /\ \A j \in Slots : j < count => mapping[j] = ee.memory_pages[j]
  BY <1>0, <1>1, <1>2, <1>3, GrowAlone DEF Inv, MemoryBuilt
<1>11. \A j \in Slots : j < count => mapping'[j] = ee.memory_pages[j]
  BY <1>3, <1>7, <1>10, SlotFacts
<1>12. Exclusive' /\ HeapExact' /\ LoadStages'
  <2>1. Exclusive'
    BY <1>1, <1>2, <1>8 DEF Inv, Exclusive
  <2>2. HeapExact'
    BY <1>1, <1>8 DEF Inv, HeapExact
  <2>3. LoadStages'
    BY <1>1, <1>3, IdleStages DEF Inv
  <2> QED
    BY <2>1, <2>2, <2>3
<1>13. CASE /\ k = new - count
            /\ grow' = [grow EXCEPT ![g].pc = "count"]
            /\ UNCHANGED lost
  <2>1. /\ grow' \in [Guests -> GrowState]
        /\ grow'[g].pc = "count" /\ grow'[g].i = grow[g].i
        /\ grow'[g].old_size = grow[g].old_size /\ grow'[g].delta = grow[g].delta
    BY <1>9, <1>13 DEF GrowState
  <2>2. \A j \in Slots : Held(j)' <=> Held(j)
    BY <1>1, <1>3, <1>8, <2>1 DEF Held
  <2>3. \A j \in Slots : j < new => mapping'[j] = ee.memory_pages[j]
    BY <1>3, <1>7, <1>11, <1>13, SlotFacts
  <2>4. TypeOK'
    BY <1>1, <1>7, <1>13, <2>1 DEF Inv, TypeOK
  <2>5. PagesExact'
    <3>1. PagesExact
      BY DEF Inv
    <3> HIDE DEF Held, HasArray
    <3> QED
      BY <1>1, <1>8, <1>13, <2>2, <3>1 DEF PagesExact
  <2>6. MappedHeld'
    <3>1. \A j \in Slots : mapping'[j] # NULL =>
            mapping'[j] \in lost' \/ (Held(j)' /\ mapping'[j] = ee'.memory_pages[j])
      <4>1. TAKE j \in Slots
      <4>2. CASE j < new
        BY <1>1, <1>2, <1>4, <2>2, <2>3, <4>2
      <4>3. CASE ~(j < new)
        BY <1>1, <1>2, <1>3, <1>5, <1>7, <1>13, <4>3, SlotFacts
      <4> QED
        BY <4>2, <4>3
    <3> QED
      BY <1>1, <1>3, <2>1, <3>1 DEF MappedHeld
  <2>7. MemoryBuilt'
    BY <1>0, <1>1, <1>2, <1>10, <1>11 DEF MemoryBuilt
  <2>8. GrowStages'
    <3>1. NewPageCount(g)' = new
      BY <1>0, <2>1 DEF NewPageCount
    <3> QED
      BY <1>0, <1>1, <1>3, <1>4, <1>5, <2>1, <2>3, <3>1 DEF Inv, GrowStages
  <2> QED
    BY <1>12, <2>4, <2>5, <2>6, <2>7, <2>8 DEF Inv
<1>14. CASE /\ grow' = [grow EXCEPT ![g] = NoGrow]
            /\ lost' = lost \cup {ee.memory_pages[j] : j \in count .. new - 1}
  <2>1. grow' \in [Guests -> GrowState] /\ grow'[g].pc = "idle"
    BY <1>9, <1>14 DEF GrowState, NoGrow
  <2>2. \A j \in Slots : Held(j)' <=> j < count
    BY <1>0, <1>1, <1>3, <1>8, <2>1, SlotFacts DEF Held
  <2>3. /\ \A j \in Slots : Held(j) <=> Held(j)' \/ j \in count .. new - 1
        /\ \A j \in Slots : Held(j)' => j \notin count .. new - 1
        /\ count .. new - 1 \subseteq Slots
    <3>1. count .. new - 1 \subseteq Slots
      BY <1>2, <1>3, SlotFacts
    <3>2. \A j \in Slots : /\ j < new <=> j < count \/ j \in count .. new - 1
                           /\ j < count => j \notin count .. new - 1
      BY <1>3, <1>5, SlotFacts
    <3> QED
      BY <1>2, <1>4, <2>2, <3>1, <3>2
  <2>4. PagesExact
    BY DEF Inv
  <2>5. PagesExact' /\ lost' \subseteq allocated
    <3> HIDE DEF Held, HasArray
    <3>1. \A j \in Slots : Held(j)' => ee'.memory_pages[j] \in allocated' \ lost'
      BY <1>1, <1>14, <2>3, <2>4 DEF PagesExact
    <3>2. \A i, j \in Slots :
            Held(i)' /\ Held(j)' /\ ee'.memory_pages[i] = ee'.memory_pages[j] => i = j
      BY <1>1, <2>3, <2>4 DEF PagesExact
    <3>3. \A p \in allocated' :
            p \in lost' \/ \E j \in Slots : Held(j)' /\ ee'.memory_pages[j] = p
      BY <1>1, <1>14, <2>3, <2>4 DEF PagesExact
    <3>4. lost' \subseteq allocated
      BY <1>14, <2>3, <2>4 DEF PagesExact
    <3> QED
      BY <1>0, <1>1, <1>3, <2>4, <3>1, <3>2, <3>3, <3>4 DEF PagesExact
  <2>6. TypeOK'
    BY <1>1, <1>7, <2>1, <2>5 DEF Inv, TypeOK
  <2>7. MappedHeld'
    <3>1. ASSUME NEW j \in Slots, mapping'[j] # NULL
          PROVE  \/ mapping'[j] \in lost'
                 \/ Held(j)' /\ mapping'[j] = ee'.memory_pages[j] /\ j < ee'.memory_page_count
      <4>1. CASE j < count
        BY <1>0, <1>1, <1>11, <2>2, <4>1
      <4>2. CASE count <= j /\ j < count + k
        <5>1. j \in count .. new - 1
          BY <1>3, <1>6, <4>2, SlotFacts
        <5> QED
          BY <1>7, <1>14, <4>2, <5>1
      <4>3. CASE ~(j < count) /\ ~(count <= j /\ j < count + k)
        BY <1>2, <1>7, <1>14, <3>1, <4>3
      <4> QED
        BY <1>3, <4>1, <4>2, <4>3, SlotFacts
    <3> QED
      BY <1>1, <1>3, <3>1 DEF MappedHeld
  <2>8. MemoryBuilt'
    BY <1>0, <1>1, <1>2, <1>10, <1>11 DEF MemoryBuilt
  <2>9. GrowStages'
    BY <1>3, <2>1 DEF GrowStages
  <2> QED
    BY <1>12, <2>5, <2>6, <2>7, <2>8, <2>9 DEF Inv
<1> QED
  BY <1>6, <1>13, <1>14

LEMMA GrowCountInv ==
  ASSUME SingleUser, Inv, NEW g \in Guests, GrowCount(g)
  PROVE  Inv'
<1>0. PICK new : new = NewPageCount(g)
  OBVIOUS
<1>1. /\ grow[g].pc = "count"
      /\ ee' = [ee EXCEPT !.memory_page_count = new]
      /\ grow' = [grow EXCEPT ![g].pc = "bound"]
      /\ UNCHANGED <<sess, load, guard_ro, heap, allocated, mapping, slice, lost>>
  BY <1>0 DEF GrowCount
<1>2. /\ Usable /\ ee.memory_base
      /\ ee.memory_page_count < new /\ new <= SlotCount /\ grow[g].i = new
      /\ \A j \in Slots : j < new => mapping[j] = ee.memory_pages[j]
  BY <1>0, <1>1 DEF Inv, Exclusive, GrowStages
<1>3. /\ sess.pc = "open" /\ sess.ready /\ Owned /\ Complete /\ HasArray
      /\ \A h \in Guests : h = g
      /\ \A l \in Loaders : load[l].pc = "idle"
      /\ \A l \in Loaders : ~load[l].pages_allocated_without_mapping
      /\ ee.memory_page_count \in Nat /\ new \in Nat
  BY <1>0, <1>2, GrowAlone
<1>4. /\ grow' \in [Guests -> GrowState]
      /\ grow'[g].pc = "bound" /\ grow'[g].i = grow[g].i
      /\ grow'[g].old_size = grow[g].old_size /\ grow'[g].delta = grow[g].delta
  BY <1>1 DEF Inv, TypeOK, GrowState
<1>5. /\ ee' \in EngineState /\ ee'.ptr = ee.ptr
      /\ ee'.memory_page_count = new /\ ee'.memory_pages = ee.memory_pages
      /\ ee'.memory_base = ee.memory_base /\ ee'.memory_bound = ee.memory_bound
  BY <1>1, <1>3 DEF Inv, TypeOK, EngineState
<1>6. HasArray' /\ Owned' /\ Usable'
  BY <1>1, <1>2, <1>3, <1>5 DEF HasArray, Owned, Usable
<1>7. \A j \in Slots : (Held(j) <=> j < new) /\ (Held(j)' <=> j < new)
  BY <1>1, <1>2, <1>3, <1>4, <1>5, <1>6, SlotFacts DEF Held
<1>8. TypeOK'
  BY <1>1, <1>4, <1>5 DEF Inv, TypeOK
<1>9. Exclusive'
  BY <1>1, <1>2, <1>5, <1>6 DEF Inv, Exclusive
<1>10. HeapExact'
  BY <1>1, <1>3, <1>5, <1>6 DEF Inv, HeapExact
<1>11. LoadStages'
  BY <1>1, <1>3, IdleStages DEF Inv
<1>12. PagesExact'
  <2>1. PagesExact
    BY DEF Inv
  <2>2. \A j \in Slots : Held(j)' <=> Held(j)
    BY <1>7
  <2> HIDE DEF Held, HasArray
  <2> QED
    BY <1>1, <1>2, <1>5, <2>1, <2>2 DEF PagesExact
<1>13. MappedHeld'
  <2>1. \A j \in Slots : mapping'[j] # NULL =>
          \/ mapping'[j] \in lost'
          \/ Held(j)' /\ mapping'[j] = ee'.memory_pages[j] /\ j < ee'.memory_page_count
    BY <1>1, <1>5, <1>7 DEF Inv, MappedHeld
  <2> QED
    BY <1>1, <1>3, <2>1 DEF MappedHeld
<1>14. MemoryBuilt'
  BY <1>1, <1>2, <1>3, <1>4, <1>5 DEF Inv, MemoryBuilt
<1>15. GrowStages'
  <2>1. NewPageCount(g)' = new
    BY <1>0, <1>4 DEF NewPageCount
  <2> QED
    BY <1>0, <1>1, <1>3, <1>4, <1>5, <2>1 DEF Inv, GrowStages
<1> QED
  BY <1>8, <1>9, <1>10, <1>11, <1>12, <1>13, <1>14, <1>15 DEF Inv

LEMMA GrowBoundInv ==
  ASSUME SingleUser, Inv, NEW g \in Guests, GrowBound(g)
  PROVE  Inv'
<1>1. /\ grow[g].pc = "bound"
      /\ ee' = [ee EXCEPT !.memory_bound = @ + grow[g].delta]
      /\ grow' = [grow EXCEPT ![g] = NoGrow]
      /\ UNCHANGED <<sess, load, guard_ro, heap, allocated, mapping, slice, lost>>
  BY DEF GrowBound
<1>2. /\ Usable /\ ee.memory_base
      /\ ee.memory_bound + grow[g].delta = ee.memory_page_count * PAGE_SIZE
  BY <1>1 DEF Inv, Exclusive, GrowStages
<1>3. /\ sess.pc = "open" /\ sess.ready /\ Owned /\ Complete /\ HasArray
      /\ \A h \in Guests : h = g
      /\ \A l \in Loaders : load[l].pc = "idle"
      /\ ee.memory_page_count \in Nat /\ ee.memory_bound \in Nat /\ grow[g].delta \in Nat
  BY <1>2, GrowAlone
<1>4. grow' \in [Guests -> GrowState] /\ grow'[g].pc = "idle"
  BY <1>1 DEF Inv, TypeOK, GrowState, NoGrow
<1>5. /\ ee' \in EngineState /\ ee'.ptr = ee.ptr
      /\ ee'.memory_page_count = ee.memory_page_count
      /\ ee'.memory_pages = ee.memory_pages
      /\ ee'.memory_base = ee.memory_base
      /\ ee'.memory_bound = ee.memory_bound + grow[g].delta
  <2>1. ee.memory_bound + grow[g].delta \in Nat
    BY <1>3
  <2> QED
    BY <1>1, <2>1 DEF Inv, TypeOK, EngineState
<1>6. HasArray' /\ Owned' /\ Usable'
  BY <1>1, <1>2, <1>3, <1>5 DEF HasArray, Owned, Usable
<1>7. \A j \in Slots : Held(j)' <=> Held(j)
  BY <1>1, <1>3, <1>4, <1>5, <1>6 DEF Held
<1>8. TypeOK'
  BY <1>1, <1>4, <1>5 DEF Inv, TypeOK
<1>9. Exclusive'
  BY <1>1, <1>2, <1>5, <1>6 DEF Inv, Exclusive
<1>10. HeapExact'
  BY <1>1, <1>3, <1>5, <1>6 DEF Inv, HeapExact
<1>11. LoadStages'
  BY <1>1, <1>3, IdleStages DEF Inv
<1>12. PagesExact' /\ MappedHeld'
  BY <1>1, <1>3, <1>5, <1>7, PagesFrame DEF Inv
<1>13. MemoryBuilt'
  BY <1>1, <1>2, <1>3, <1>5 DEF Inv, MemoryBuilt
<1>14. GrowStages'
  BY <1>3, <1>4 DEF GrowStages
<1> QED
  BY <1>8, <1>9, <1>10, <1>11, <1>12, <1>13, <1>14 DEF Inv

-----------------------------------------------------------------------------
(* Copies, stuttering, and the invariant. *)

\* Nothing but the slices changes.
LEMMA CopyInv ==
  ASSUME Inv, slice' \in [Copiers -> SUBSET Nat],
         \A c \in Copiers : slice'[c] # {} => Usable,
         UNCHANGED <<sess, load, ee, guard_ro, heap, allocated, mapping, grow, lost>>
  PROVE  Inv'
<1>1. TypeOK'
  BY DEF Inv, TypeOK
<1>2. Usable' = Usable
  BY DEF Usable
<1>3. Exclusive'
  BY <1>2 DEF Inv, Exclusive
<1>4. Owned' = Owned /\ HasArray' = HasArray /\ Complete' = Complete
  BY DEF Owned, HasArray, Complete, Usable
<1>5. \A i \in Slots : Held(i)' = Held(i)
  BY <1>4 DEF Held
<1>6. HeapExact'
  BY <1>4 DEF Inv, HeapExact
<1>7. LoadStages'
  BY DEF Inv, LoadStages, UnmapsNothing, MustUnmap
<1>8. PagesExact' /\ MappedHeld'
  BY <1>4, <1>5, PagesFrame DEF Inv
<1>9. MemoryBuilt'
  BY <1>4 DEF Inv, MemoryBuilt
<1>10. GrowStages'
  BY DEF Inv, GrowStages, NewPageCount
<1> QED
  BY <1>1, <1>3, <1>6, <1>7, <1>8, <1>9, <1>10 DEF Inv

LEMMA CopyStepInv ==
  ASSUME Inv, NEW c \in Copiers, CopyStep(c)
  PROVE  Inv'
<1>1. CASE CopyEnd(c)
  <2>1. slice' \in [Copiers -> SUBSET Nat]
    BY <1>1 DEF CopyEnd, Inv, TypeOK
  <2>2. \A d \in Copiers : slice'[d] # {} => Usable
    BY <1>1 DEF CopyEnd, Inv, TypeOK, Exclusive
  <2> QED
    BY <1>1, <2>1, <2>2, CopyInv DEF CopyEnd
<1>2. ASSUME NEW offset \in 0 .. STATIC_MEMORY_AVAILABLE,
             NEW len \in 0 .. STATIC_MEMORY_AVAILABLE, CopyBegin(c, offset, len)
      PROVE  Inv'
  <2>1. offset .. offset + len - 1 \in SUBSET Nat
    BY EngineAssumption
  <2>2. slice' \in [Copiers -> SUBSET Nat]
    BY <1>2, <2>1 DEF CopyBegin, Inv, TypeOK
  <2> QED
    BY <1>2, <2>2, CopyInv DEF CopyBegin
<1> QED
  BY <1>1, <1>2 DEF CopyStep, ReadMemory, WriteMemory

LEMMA InitInv == Init => Inv
<1> SUFFICES ASSUME Init PROVE Inv
  OBVIOUS
<1>1. TypeOK
  BY Zenon DEF Init, TypeOK, NoLoad, LoadState, LoadPCs, Zeroed, NoPages, EngineState,
         NoGrow, GrowState
<1>2. \A l \in Loaders : /\ load[l].pc = "idle" /\ load[l].memory_len = 0
                         /\ ~load[l].pages_allocated_without_mapping
  BY DEF Init, NoLoad
<1>3. \A g \in Guests : grow[g].pc = "idle"
  BY DEF Init, NoGrow
<1>4. ~Owned /\ ~HasArray /\ ~Complete /\ \A i \in Slots : ~Held(i)
  BY <1>2, <1>3 DEF Init, Owned, HasArray, Complete, Usable, Held, Parts
<1>5. Exclusive
  BY <1>2, <1>3 DEF Init, Exclusive
<1>6. HeapExact
  BY <1>4 DEF Init, HeapExact
<1>7. LoadStages
  BY <1>2, StageNames, EngineAssumption DEF LoadStages
<1>8. PagesExact /\ MappedHeld
  BY <1>4 DEF Init, PagesExact, MappedHeld, NoPages
<1>9. MemoryBuilt /\ GrowStages
  BY <1>3, <1>4 DEF MemoryBuilt, GrowStages
<1> QED
  BY <1>1, <1>5, <1>6, <1>7, <1>8, <1>9 DEF Inv

LEMMA NextInv ==
  ASSUME SingleUser, Inv, [Next]_vars
  PROVE  Inv'
<1>1. ASSUME NEW l \in Loaders, LoadStep(l) PROVE Inv'
  BY <1>1, LoadCheckInv, LoadBeginInv, LoadPartInv, LoadVmAreaInv, LoadPageArrayInv,
     LoadPageInv, LoadMapInv, LoadStackInv, LoadReadyInv, LoadFailInv, LoadFreeInv
  DEF LoadStep
<1>2. ASSUME NEW g \in Guests, GrowStep(g) PROVE Inv'
  BY <1>2, GrowBeginInv, GrowPageInv, GrowMapInv, GrowCountInv, GrowBoundInv DEF GrowStep
<1>3. CASE UNCHANGED vars
  BY <1>3, CopyInv DEF vars, Inv, TypeOK, Exclusive
<1> QED
  BY <1>1, <1>2, <1>3, CopyStepInv, DestroyEngineInv, DestroyFreeInv, CloseInv
  DEF Next, Terminated

LEMMA Invariance == ASSUME SingleUser PROVE Spec => []Inv
<1>1. Inv /\ [Next]_vars => Inv'
  BY NextInv
<1> QED
  BY <1>1, InitInv, PTL DEF Spec

-----------------------------------------------------------------------------
(* What the invariant says of the engine. *)

\* The variables of vm.c keep their types: the page array is never indexed out
\* of its bounds, and no buffer is freed more often than it was allocated.
THEOREM EngineTypes == ASSUME SingleUser PROVE Spec => []TypeOK
<1>1. Inv => TypeOK
  BY DEF Inv
<1> QED
  BY <1>1, Invariance, PTL

\* The memory of an engine that is in use.
LEMMA UsableMemory ==
  ASSUME Inv, Usable, ee.memory_bound # 0
  PROVE  /\ HasArray /\ ee.memory_base
         /\ \A l \in Loaders : load[l].pc = "idle"
         /\ ee.memory_bound <= ee.memory_page_count * PAGE_SIZE
         /\ ee.memory_page_count * PAGE_SIZE <= STATIC_MEMORY_AVAILABLE
         /\ \A i \in Slots : i < ee.memory_page_count => mapping[i] = ee.memory_pages[i]
<1>1. ee.memory_bound \in Nat /\ ee.memory_page_count \in Nat
  BY DEF Inv, TypeOK, EngineState
<1>2. Complete /\ sess.pc = "open" /\ sess.ready
  BY DEF Complete, Usable
<1>3. \A l \in Loaders : load[l].pc = "idle"
  BY <1>2 DEF Inv, Exclusive
<1>4. /\ "memory_pages" \in ee.ptr /\ ee.memory_base
      /\ \A i \in Slots : i < ee.memory_page_count => mapping[i] = ee.memory_pages[i]
  BY <1>1, <1>2 DEF Inv, MemoryBuilt
<1>5. HasArray
  BY <1>2, <1>3, <1>4 DEF HasArray, Owned
<1>6. /\ ee.memory_page_count * PAGE_SIZE \in Nat /\ SlotCount * PAGE_SIZE \in Nat
      /\ SlotCount * PAGE_SIZE < ee.memory_page_count * PAGE_SIZE
           => SlotCount < ee.memory_page_count
  BY <1>1, SlotFacts, TimesOrder, Zenon
<1>7. ee.memory_page_count * PAGE_SIZE <= STATIC_MEMORY_AVAILABLE
  <2>1. ee.memory_page_count <= SlotCount
    BY <1>5 DEF Inv, PagesExact
  <2> QED
    BY <1>1, <1>6, <2>1, SlotFacts
<1>8. ee.memory_bound <= ee.memory_page_count * PAGE_SIZE
  <2>1. CASE \A g \in Guests : grow[g].pc # "bound"
    BY <1>1, <1>2, <1>4, <1>6, <2>1 DEF Inv, MemoryBuilt
  <2>2. CASE \E g \in Guests : grow[g].pc = "bound"
    <3>1. PICK g \in Guests : grow[g].pc = "bound"
      BY <2>2
    <3>2. ee.memory_bound + grow[g].delta = ee.memory_page_count * PAGE_SIZE
      BY <3>1 DEF Inv, GrowStages
    <3>3. grow[g].delta \in Nat
      BY DEF Inv, TypeOK, GrowState
    <3> QED
      BY <1>1, <1>6, <3>2, <3>3
  <2> QED
    BY <2>1, <2>2
<1> QED
  BY <1>3, <1>4, <1>5, <1>7, <1>8

\* Every byte below the bound is on a page of the engine's in its place.
LEMMA ByteMapped ==
  ASSUME Inv, Usable, NEW byte \in 0 .. ee.memory_bound - 1
  PROVE  /\ mapping[byte \div PAGE_SIZE] \in allocated \ lost
         /\ mapping[byte \div PAGE_SIZE] = ee.memory_pages[byte \div PAGE_SIZE]
<1>1. ee.memory_bound \in Nat /\ ee.memory_page_count \in Nat /\ byte \in Nat
  BY DEF Inv, TypeOK, EngineState
<1>2. /\ HasArray
      /\ \A l \in Loaders : load[l].pc = "idle"
      /\ ee.memory_bound <= ee.memory_page_count * PAGE_SIZE
      /\ \A i \in Slots : i < ee.memory_page_count => mapping[i] = ee.memory_pages[i]
  BY <1>1, UsableMemory
<1>3. byte < ee.memory_page_count * PAGE_SIZE
  <2>1. ee.memory_page_count * PAGE_SIZE \in Nat
    BY <1>1, TimesOrder
  <2> QED
    BY <1>1, <1>2, <2>1
<1>4. PICK i : i = byte \div PAGE_SIZE
  OBVIOUS
<1>5. i \in 0 .. ee.memory_page_count - 1
  BY <1>1, <1>3, <1>4, PageOfByte
<1>6. i \in Slots /\ i < ee.memory_page_count
  BY <1>1, <1>2, <1>5, SlotFacts DEF Inv, PagesExact
<1>7. Held(i)
  BY <1>2, <1>6 DEF Held
<1>8. ee.memory_pages[i] \in allocated \ lost
  BY <1>6, <1>7 DEF Inv, PagesExact
<1> QED
  BY <1>2, <1>4, <1>6, <1>8

\* The bound that guest code and host functions are checked against never runs
\* ahead of the page table, not between the steps of memory.grow either.
THEOREM BoundIsMapped == ASSUME SingleUser PROVE Spec => []BoundMapped
<1>1. Inv => BoundMapped
  BY ByteMapped DEF BoundMapped
<1> QED
  BY <1>1, Invariance, PTL

\* No page is freed while the page table leads to it, and no stack while its
\* guard is read-only: not in the failure path of a load, not when memory.grow
\* gives up, not in wd_release.
THEOREM MappedIsLive == ASSUME SingleUser PROVE Spec => []MappedLive
<1>1. Inv => MappedLive
  <2> SUFFICES ASSUME Inv PROVE MappedLive
    OBVIOUS
  <2>1. \A i \in Slots : mapping[i] # NULL => mapping[i] \in allocated
    BY DEF Inv, MappedHeld, PagesExact
  <2>2. guard_ro => Owned /\ "stack" \in ee.ptr /\ "stack" \in Buffers
    BY DEF Inv, Exclusive, Owned, Usable, Buffers
  <2>3. guard_ro => heap["stack"] = 1
    BY <2>2 DEF Inv, HeapExact
  <2> QED
    BY <2>1, <2>3 DEF MappedLive
<1> QED
  BY <1>1, Invariance, PTL

\* The bound in bytes and the count in pages agree, and stay in the area.
THEOREM BoundIsCounted == ASSUME SingleUser PROVE Spec => []BoundMatchesPages
<1>1. Inv => BoundMatchesPages
  <2> SUFFICES ASSUME Inv, Usable, \A g \in Guests : grow[g].pc # "bound"
               PROVE  /\ ee.memory_bound = ee.memory_page_count * PAGE_SIZE
                      /\ ee.memory_bound <= STATIC_MEMORY_AVAILABLE
    BY DEF BoundMatchesPages
  <2>1. Complete /\ sess.pc = "open" /\ sess.ready /\ ee.memory_page_count \in Nat
    BY DEF Complete, Usable, Inv, TypeOK, EngineState
  <2>2. CASE "memory_pages" \notin ee.ptr
    <3>1. ee.memory_bound = 0 /\ ee.memory_page_count = 0
      BY <2>1, <2>2 DEF Inv, MemoryBuilt
    <3> QED
      BY <3>1, EngineAssumption
  <2>3. CASE "memory_pages" \in ee.ptr
    <3>1. ee.memory_bound = ee.memory_page_count * PAGE_SIZE
      BY <2>1, <2>3 DEF Inv, MemoryBuilt
    <3>2. ee.memory_bound # 0 => ee.memory_bound <= STATIC_MEMORY_AVAILABLE
      BY <3>1, UsableMemory
    <3> QED
      BY <3>1, <3>2, EngineAssumption
  <2> QED
    BY <2>2, <2>3
<1> QED
  BY <1>1, Invariance, PTL

\* A load that failed and a session that was closed leave nothing behind but
\* the pages that a failed memory.grow forgot.
THEOREM EngineReclaimed == ASSUME SingleUser PROVE Spec => []Reclaimed
<1>1. Inv => Reclaimed
  <2> SUFFICES ASSUME Inv, sess.pc = "closed" \/ (Unused /\ ~sess.ready)
               PROVE  (\A b \in Buffers : heap[b] = 0) /\ allocated = lost
    BY DEF Reclaimed
  <2>1. ~Owned
    BY DEF Owned, Unused, LoadAt
  <2>2. \A i \in Slots : ~Held(i)
    BY <2>1 DEF Held, HasArray
  <2> QED
    BY <2>1, <2>2 DEF Inv, HeapExact, PagesExact
<1> QED
  BY <1>1, Invariance, PTL

\* The failure path of a load unmaps an empty range, on which the kernel
\* asserts, only for a memory shorter than a page; wd_release never does.
THEOREM UnmapsPages == ASSUME SingleUser PROVE Spec => []UnmapNotEmpty
<1>1. Inv => UnmapNotEmpty
  BY DEF Inv, LoadStages, Exclusive, UnmapNotEmpty, LoadAt
<1> QED
  BY <1>1, Invariance, PTL

-----------------------------------------------------------------------------
(* The engine implements LinearMemory. *)

\* What is reachable is what is below the bound.
ReachableBelow == Reachable = IF Usable THEN 0 .. ee.memory_bound - 1 ELSE {}

LEMMA ReachableIs == Inv => ReachableBelow
BY ByteMapped DEF Reachable, ReachableBelow

LEMMA ReachableNext == Inv' => ReachableBelow'
BY ReachableIs, PTL

BoundInArea == Usable => ee.memory_bound <= STATIC_MEMORY_AVAILABLE

LEMMA BoundFits == Inv => BoundInArea
<1> SUFFICES ASSUME Inv, Usable PROVE ee.memory_bound <= STATIC_MEMORY_AVAILABLE
  BY DEF BoundInArea
<1>1. ee.memory_bound \in Nat /\ ee.memory_page_count \in Nat
  BY DEF Inv, TypeOK, EngineState
<1>2. ee.memory_bound # 0 =>
        /\ ee.memory_bound <= ee.memory_page_count * PAGE_SIZE
        /\ ee.memory_page_count * PAGE_SIZE <= STATIC_MEMORY_AVAILABLE
  BY UsableMemory
<1>3. ee.memory_page_count * PAGE_SIZE \in Nat
  BY <1>1, TimesOrder
<1> QED
  BY <1>1, <1>2, <1>3, EngineAssumption

LEMMA BoundFitsNext == Inv' => BoundInArea'
BY BoundFits, PTL

\* A step that changes neither the bound nor who may use it is a stutter.
LEMMA MemoryStutters ==
  ASSUME Inv, Inv', Usable' <=> Usable, Usable => ee'.memory_bound = ee.memory_bound,
         slice' = slice
  PROVE  UNCHANGED Memory!vars
BY ReachableIs, ReachableNext, Zenon DEF ReachableBelow, Memory!vars

LEMMA MemoryStep ==
  ASSUME SingleUser, Inv, Inv', [Next]_vars
  PROVE  [Memory!Next]_(Memory!vars)
<1>r. ReachableBelow /\ ReachableBelow'
  BY ReachableIs, ReachableNext
<1>b. ee.memory_bound \in Nat
  BY DEF Inv, TypeOK, EngineState
<1>s. slice \in [Copiers -> SUBSET Nat]
  BY DEF Inv, TypeOK
<1>1. ASSUME NEW l \in Loaders, LoadReady(l)
      PROVE  [Memory!Next]_(Memory!vars)
  <2>1. ~Usable /\ ee' = ee /\ slice' = slice
    BY <1>1, LoadAlone DEF LoadReady, LoadAt
  <2>2. CASE Usable' /\ ee.memory_bound # 0
    <3>1. ee.memory_bound \in 1 .. STATIC_MEMORY_AVAILABLE
      BY <1>b, <2>1, <2>2, BoundFitsNext, EngineAssumption DEF BoundInArea
    <3>2. Memory!Appear(ee.memory_bound)
      BY <1>r, <2>1, <2>2 DEF ReachableBelow, Memory!Appear, Memory!Bytes
    <3> QED
      BY <3>1, <3>2 DEF Memory!Next
  <2>3. CASE ~(Usable' /\ ee.memory_bound # 0)
    BY <1>r, <2>1, <2>3 DEF ReachableBelow, Memory!vars
  <2> QED
    BY <2>2, <2>3
<1>2. ASSUME NEW l \in Loaders, LoadStep(l), ~LoadReady(l)
      PROVE  [Memory!Next]_(Memory!vars)
  <2>1. ~Usable /\ sess' = sess /\ slice' = slice
    BY <1>2, LoadAlone, Zenon DEF LoadStep, LoadCheck, LoadPart, LoadBegin, LoadVmArea,
       LoadPageArray, LoadPage, LoadMap, LoadStack, LoadFail, LoadFree, FreeBuffers,
       LoadAt, Usable, Parts
  <2> QED
    BY <2>1, MemoryStutters DEF Usable
<1>3. ASSUME NEW g \in Guests, GrowBound(g)
      PROVE  [Memory!Next]_(Memory!vars)
  <2>1. /\ Usable /\ Usable' /\ slice' = slice
        /\ ee'.memory_bound = ee.memory_bound + grow[g].delta
    BY <1>3 DEF GrowBound, Inv, Exclusive, Usable, TypeOK, EngineState
  <2>2. PICK n \in Nat \ {0} : grow[g].delta = n * WASM_PAGE_SIZE
    BY <1>3 DEF GrowBound, Inv, GrowStages
  <2>3. /\ ee.memory_bound > 0
        /\ ee.memory_bound + grow[g].delta = ee.memory_page_count * PAGE_SIZE
    BY <1>3 DEF GrowBound, Inv, GrowStages
  <2>4. ee.memory_page_count * PAGE_SIZE <= STATIC_MEMORY_AVAILABLE
    BY <1>b, <2>1, <2>3, UsableMemory
  <2>5. n <= n * WASM_PAGE_SIZE /\ n * WASM_PAGE_SIZE \in Nat
    BY EngineAssumption
  <2>6. /\ ee.memory_bound \in 1 .. STATIC_MEMORY_AVAILABLE
        /\ n \in 1 .. STATIC_MEMORY_AVAILABLE - ee.memory_bound
    BY <1>b, <2>2, <2>3, <2>4, <2>5, EngineAssumption
  <2>7. Memory!Grow(ee.memory_bound, n)
    BY <1>r, <2>1, <2>2 DEF ReachableBelow, Memory!Grow, Memory!Bytes
  <2> QED
    BY <2>6, <2>7 DEF Memory!Next
<1>4. ASSUME NEW g \in Guests, GrowStep(g), ~GrowBound(g)
      PROVE  [Memory!Next]_(Memory!vars)
  <2>1. sess' = sess /\ slice' = slice /\ ee'.memory_bound = ee.memory_bound
    BY <1>4 DEF GrowStep, GrowBegin, GrowPage, GrowMap, GrowCount, Inv, TypeOK, EngineState
  <2> QED
    BY <2>1, MemoryStutters DEF Usable
<1>5. ASSUME NEW c \in Copiers, CopyEnd(c)
      PROVE  [Memory!Next]_(Memory!vars)
  <2>1. Memory!Leave(c)
    BY <1>5 DEF CopyEnd, Memory!Leave, Reachable, Usable
  <2> QED
    BY <2>1 DEF Memory!Next
<1>6. ASSUME NEW c \in Copiers, NEW offset \in 0 .. STATIC_MEMORY_AVAILABLE,
             NEW len \in 0 .. STATIC_MEMORY_AVAILABLE, CopyBegin(c, offset, len)
      PROVE  [Memory!Next]_(Memory!vars)
  <2>1. /\ Usable /\ slice[c] = {} /\ len # 0
        /\ slice' = [slice EXCEPT ![c] = offset .. offset + len - 1]
        /\ Reachable' = Reachable
    BY <1>6 DEF CopyBegin, Reachable, Usable
  <2>2. offset + len <= ee.memory_bound
    BY <1>6, <1>b, EngineAssumption DEF CopyBegin, VmctxGetMemorySlice, Address
  <2>3. ee.memory_bound <= STATIC_MEMORY_AVAILABLE
    BY <2>1, BoundFits DEF BoundInArea
  <2>4. offset + len - 1 \in 0 .. STATIC_MEMORY_AVAILABLE
    BY <1>b, <2>1, <2>2, <2>3, EngineAssumption
  <2>5. offset .. offset + len - 1 \subseteq Reachable
    BY <1>r, <1>b, <2>1, <2>2, EngineAssumption DEF ReachableBelow
  <2>6. Memory!Use(c, offset .. offset + len - 1)
    BY <2>1, <2>5 DEF Memory!Use
  <2> QED
    BY <2>4, <2>6 DEF Memory!Next
<1>7. CASE DestroyEngine
  <2>1. ~Usable' /\ slice' = slice /\ \A c \in Copiers : slice[c] = {}
    BY <1>7, Zenon DEF DestroyEngine, Unused, Usable, Inv, TypeOK
  <2>2. Memory!Vanish
    BY <1>r, <2>1 DEF ReachableBelow, Memory!Vanish
  <2> QED
    BY <2>2 DEF Memory!Next
<1>8. CASE DestroyFree \/ Close
  <2>1. ~Usable /\ ~Usable' /\ slice' = slice
    BY <1>8 DEF DestroyFree, Close, Usable, FreeBuffers, Inv, TypeOK
  <2> QED
    BY <2>1, MemoryStutters
<1>9. CASE UNCHANGED vars
  BY <1>9, MemoryStutters DEF vars, Usable
<1> QED
  BY <1>1, <1>2, <1>3, <1>4, <1>5, <1>6, <1>7, <1>8, <1>9
  DEF Next, CopyStep, ReadMemory, WriteMemory, Terminated

\* memory.grow, which allocates, maps and counts page by page and may fail at
\* each step, takes effect in a single one; a load shows its memory at once; no
\* byte vanishes under a copy: the engine implements LinearMemory.
THEOREM ImplementsLinearMemory == ASSUME SingleUser PROVE Spec => GrowsAtomically
<1>1. Init => Memory!Init
  BY DEF Init, Memory!Init, Reachable, Usable
<1>2. Inv /\ Inv' /\ [Next]_vars => [Memory!Next]_(Memory!vars)
  BY MemoryStep
<1> QED
  BY <1>1, <1>2, Invariance, PTL DEF Spec, GrowsAtomically, Memory!Spec

=============================================================================
