-------------------------- MODULE RegistryProofs --------------------------
(***************************************************************************)
(* The registry of import resolvers, for any number of modules and         *)
(* engines: RInv is inductive.  The mutex tells who is inside which        *)
(* critical section (Locks), so that the list is what the places of the    *)
(* modules say (Listed) and an engine that walks it has copied its front   *)
(* (Walks); the ledgers then follow (Ledgers).                             *)
(*                                                                         *)
(* The lookup of an import is a recursive function; that it returns what   *)
(* the newest resolver that knows the name says is proved from the largest *)
(* position at which it would not.                                         *)
(***************************************************************************)
EXTENDS Imports, FiniteSetTheorems, SequenceTheorems, WellFoundedInduction, TLAPS

ModulePCs == {"unloaded", "add", "inc", "loaded", "dec"}

EnginePCs == {"none", "walk", "ready"}

Resolver == [size : Int, resolvers : Seq(Modules), resolver_count : Int]

Types ==
  /\ mu \in {Free} \cup Modules \cup Engines
  /\ resolvers \in Seq(Modules)
  /\ resolver_count \in Int
  /\ live \in SUBSET Modules
  /\ mpc \in [Modules -> ModulePCs]
  /\ epc \in [Engines -> EnginePCs]
  /\ cursor \in [Engines -> Modules \cup {End}]
  /\ out \in [Engines -> Resolver]
  /\ held \in [Modules -> Int]
  /\ dropped \in [Modules -> Int]

\* Who is inside a critical section holds the mutex.
Locks ==
  /\ \A m \in Modules : mpc[m] \in {"inc", "dec"} <=> mu = m
  /\ \A e \in Engines : epc[e] = "walk" <=> mu = e

\* No entry occurs twice.
Distinct(s) == \A i, j \in 1 .. Len(s) : s[i] = s[j] => i = j

Occurs(m, s) == \E i \in 1 .. Len(s) : s[i] = m

\* The list and its length, in and between the critical sections.
Listed ==
  /\ Distinct(resolvers)
  /\ \A m \in Modules : Occurs(m, resolvers) <=> mpc[m] \in {"inc", "loaded"}
  /\ live = {m \in Modules : mpc[m] \in {"add", "inc", "loaded"}}
  /\ (\A m \in Modules : mpc[m] \notin {"inc", "dec"}) => resolver_count = Len(resolvers)
  /\ \A m \in Modules : mpc[m] = "inc" => resolver_count = Len(resolvers) - 1
  /\ \A m \in Modules : mpc[m] = "dec" => resolver_count = Len(resolvers) + 1

\* What an engine has copied of the list, and where it stands.
Walk(e) ==
  LET r == out[e].resolvers
  IN /\ Distinct(r)
     /\ epc[e] # "walk" => cursor[e] = End
     /\ epc[e] = "none" => out[e] = NoResolver
     /\ epc[e] = "walk" => /\ out[e].size = Len(resolvers)
                           /\ Len(r) <= Len(resolvers)
                           /\ \A i \in 1 .. Len(r) : r[i] = resolvers[i]
                           /\ cursor[e] = EntryAfter(Len(r))
     /\ epc[e] = "ready" => out[e].size = Len(r) /\ out[e].resolver_count = Len(r)

Walks == \A e \in Engines : Walk(e)

\* The engines that have an instance of m.
Holders(m) == {e \in Engines : Occurs(m, out[e].resolvers)}

Ledgers ==
  \A m \in Modules : /\ IsFiniteSet(Holders(m))
                     /\ held[m] = dropped[m] + Cardinality(Holders(m))

RInv == Types /\ Locks /\ Listed /\ Walks /\ Ledgers

-----------------------------------------------------------------------------
(* Lists. *)

\* list_add: the new entry is the first.
LEMMA PushFacts ==
  ASSUME NEW s \in Seq(Modules), NEW m \in Modules
  PROVE  LET t == <<m>> \o s
         IN /\ t \in Seq(Modules) /\ Len(t) = Len(s) + 1
            /\ \A x \in Modules : Occurs(x, t) <=> x = m \/ Occurs(x, s)
            /\ Distinct(s) /\ ~Occurs(m, s) => Distinct(t)
<1> DEFINE t == <<m>> \o s
<1>1. /\ <<m>> \in Seq(Modules) /\ Len(<<m>>) = 1 /\ Len(s) \in Nat
      /\ t \in Seq(Modules) /\ Len(t) = Len(s) + 1
  OBVIOUS
<1>2. t[1] = m /\ \A i \in 1 .. Len(s) : t[i + 1] = s[i]
  OBVIOUS
<1>3. \A i \in 1 .. Len(t) : i = 1 \/ (i - 1 \in 1 .. Len(s) /\ t[i] = s[i - 1])
  BY <1>1, <1>2
<1> HIDE DEF t
<1>4. \A x \in Modules : Occurs(x, t) <=> x = m \/ Occurs(x, s)
  <2>1. ASSUME NEW x \in Modules, Occurs(x, t) PROVE x = m \/ Occurs(x, s)
    BY <1>2, <1>3, <2>1 DEF Occurs
  <2>2. Occurs(m, t)
    BY <1>1, <1>2 DEF Occurs
  <2>3. ASSUME NEW x \in Modules, Occurs(x, s) PROVE Occurs(x, t)
    <3>1. PICK i \in 1 .. Len(s) : s[i] = x
      BY <2>3 DEF Occurs
    <3>2. i + 1 \in 1 .. Len(t) /\ t[i + 1] = x
      BY <1>1, <1>2, <3>1
    <3>3. QED
      BY <3>2 DEF Occurs
  <2>4. QED
    BY <2>1, <2>2, <2>3
<1>5. ASSUME Distinct(s), ~Occurs(m, s) PROVE Distinct(t)
  <2> SUFFICES ASSUME NEW i \in 1 .. Len(t), NEW j \in 1 .. Len(t), t[i] = t[j]
               PROVE  i = j
    BY DEF Distinct
  <2>1. CASE i = 1 \/ j = 1
    BY <1>2, <1>3, <1>5, <2>1 DEF Occurs
  <2>2. CASE i # 1 /\ j # 1
    <3>1. i - 1 \in 1 .. Len(s) /\ j - 1 \in 1 .. Len(s) /\ s[i - 1] = s[j - 1]
      BY <1>3, <2>2
    <3>2. i - 1 = j - 1
      BY <1>5, <3>1 DEF Distinct
    <3>3. QED
      BY <3>2
  <2>3. QED
    BY <2>1, <2>2
<1>6. QED
  BY <1>1, <1>4, <1>5 DEF t

\* A copy of the front of the list grows by one.
LEMMA AppendFacts ==
  ASSUME NEW s \in Seq(Modules), NEW m \in Modules
  PROVE  LET t == Append(s, m)
         IN /\ t \in Seq(Modules) /\ Len(t) = Len(s) + 1
            /\ t[Len(s) + 1] = m /\ \A i \in 1 .. Len(s) : t[i] = s[i]
            /\ \A x \in Modules : Occurs(x, t) <=> x = m \/ Occurs(x, s)
            /\ Distinct(s) /\ ~Occurs(m, s) => Distinct(t)
<1> DEFINE t == Append(s, m)
<1>1. /\ t \in Seq(Modules) /\ Len(t) = Len(s) + 1 /\ Len(s) \in Nat
      /\ t[Len(s) + 1] = m /\ \A i \in 1 .. Len(s) : t[i] = s[i]
  OBVIOUS
<1> HIDE DEF t
<1>2. \A i \in 1 .. Len(t) : i \in 1 .. Len(s) \/ i = Len(s) + 1
  BY <1>1
<1>3. \A x \in Modules : Occurs(x, t) <=> x = m \/ Occurs(x, s)
  <2>1. ASSUME NEW x \in Modules, Occurs(x, t) PROVE x = m \/ Occurs(x, s)
    BY <1>1, <1>2, <2>1 DEF Occurs
  <2>2. Len(s) + 1 \in 1 .. Len(t) /\ \A i \in 1 .. Len(s) : i \in 1 .. Len(t)
    BY <1>1
  <2>3. QED
    BY <1>1, <2>1, <2>2 DEF Occurs
<1>4. Distinct(s) /\ ~Occurs(m, s) => Distinct(t)
  BY <1>1, <1>2 DEF Distinct, Occurs
<1>5. QED
  BY <1>1, <1>3, <1>4 DEF t

\* Where a module's entry is.
LEMMA PositionFacts ==
  ASSUME Distinct(resolvers), NEW i \in 1 .. Len(resolvers)
  PROVE  PositionOf(resolvers[i]) = i
BY DEF PositionOf, Distinct

\* list_del: one entry less, the others in their order.
LEMMA UnlinkedFacts ==
  ASSUME resolvers \in Seq(Modules), Distinct(resolvers), NEW m \in Modules,
         Occurs(m, resolvers)
  PROVE  /\ Unlinked(m) \in Seq(Modules) /\ Len(Unlinked(m)) = Len(resolvers) - 1
         /\ Distinct(Unlinked(m))
         /\ \A x \in Modules : Occurs(x, Unlinked(m)) <=> x # m /\ Occurs(x, resolvers)
<1>1. PICK k \in 1 .. Len(resolvers) : resolvers[k] = m
  BY DEF Occurs
<1> DEFINE a == SubSeq(resolvers, 1, k - 1)
           b == SubSeq(resolvers, k + 1, Len(resolvers))
           t == a \o b
<1>2. PositionOf(m) = k
  BY <1>1, PositionFacts
<1>3. Unlinked(m) = t
  BY <1>2 DEF Unlinked
<1>4. /\ a \in Seq(Modules) /\ Len(a) = k - 1
      /\ \A i \in 1 .. k - 1 : a[i] = resolvers[i]
  OBVIOUS
<1>5. /\ b \in Seq(Modules) /\ Len(b) = Len(resolvers) - k
      /\ \A i \in 1 .. Len(resolvers) - k : b[i] = resolvers[i + k]
  OBVIOUS
<1> HIDE DEF a, b
<1>6. t \in Seq(Modules) /\ Len(t) = Len(resolvers) - 1
  <2>1. t \in Seq(Modules) /\ Len(t) = Len(a) + Len(b)
    BY <1>4, <1>5, ConcatProperties, Zenon
  <2>2. Len(resolvers) \in Nat
    OBVIOUS
  <2>3. QED
    BY <1>4, <1>5, <2>1, <2>2
<1>7. \A i \in 1 .. Len(t) : t[i] = IF i < k THEN resolvers[i] ELSE resolvers[i + 1]
  <2> SUFFICES ASSUME NEW i \in 1 .. Len(t)
               PROVE  t[i] = IF i < k THEN resolvers[i] ELSE resolvers[i + 1]
    OBVIOUS
  <2>1. t[i] = IF i <= Len(a) THEN a[i] ELSE b[i - Len(a)]
    BY <1>4, <1>5, <1>6
  <2>2. CASE i < k
    BY <1>4, <2>1, <2>2
  <2>3. CASE ~(i < k)
    BY <1>4, <1>5, <1>6, <2>1, <2>3
  <2>4. QED
    BY <2>2, <2>3
<1> HIDE DEF t
<1>8. Len(resolvers) \in Nat
  OBVIOUS
<1>9. Distinct(t)
  <2> SUFFICES ASSUME NEW i \in 1 .. Len(t), NEW j \in 1 .. Len(t), t[i] = t[j]
               PROVE  i = j
    BY DEF Distinct
  <2> DEFINE p == IF i < k THEN i ELSE i + 1
             q == IF j < k THEN j ELSE j + 1
  <2>1. p \in 1 .. Len(resolvers) /\ q \in 1 .. Len(resolvers)
    BY <1>6, <1>8
  <2>2. t[i] = resolvers[p] /\ t[j] = resolvers[q]
    BY <1>7
  <2>3. p = q => i = j
    BY <1>6, <1>8
  <2> HIDE DEF p, q
  <2>4. QED
    BY <2>1, <2>2, <2>3, Zenon DEF Distinct
<1>10. \A x \in Modules : Occurs(x, t) <=> x # m /\ Occurs(x, resolvers)
  <2>1. ASSUME NEW x \in Modules, Occurs(x, t) PROVE x # m /\ Occurs(x, resolvers)
    <3>1. PICK i \in 1 .. Len(t) : t[i] = x
      BY <2>1 DEF Occurs
    <3>2. PICK j \in 1 .. Len(resolvers) : j # k /\ resolvers[j] = x
      BY <1>6, <1>7, <1>8, <3>1
    <3>3. QED
      BY <1>1, <3>2 DEF Occurs, Distinct
  <2>2. ASSUME NEW x \in Modules, x # m, Occurs(x, resolvers) PROVE Occurs(x, t)
    <3>1. PICK j \in 1 .. Len(resolvers) : resolvers[j] = x
      BY <2>2 DEF Occurs
    <3>2. CASE j < k
      <4>1. j \in 1 .. Len(t) /\ t[j] = x
        BY <1>6, <1>7, <1>8, <3>1, <3>2
      <4>2. QED
        BY <4>1 DEF Occurs
    <3>3. CASE j > k
      <4>1. j - 1 \in 1 .. Len(t) /\ t[j - 1] = x
        BY <1>6, <1>7, <1>8, <3>1, <3>3
      <4>2. QED
        BY <4>1 DEF Occurs
    <3>4. QED
      BY <1>1, <2>2, <3>1, <3>2, <3>3
  <2>3. QED
    BY <2>1, <2>2
<1>11. QED
  BY <1>3, <1>6, <1>9, <1>10

\* An entry of a list without repetitions is counted once.
LEMMA CountFacts ==
  ASSUME NEW s \in Seq(Modules), Distinct(s), NEW m
  PROVE  Cardinality({i \in 1 .. Len(s) : s[i] = m}) = IF Occurs(m, s) THEN 1 ELSE 0
<1>1. CASE Occurs(m, s)
  <2>1. PICK k \in 1 .. Len(s) : s[k] = m
    BY <1>1 DEF Occurs
  <2>2. {i \in 1 .. Len(s) : s[i] = m} = {k}
    BY <2>1 DEF Distinct
  <2>3. QED
    BY <1>1, <2>2, FS_Singleton, Zenon
<1>2. CASE ~Occurs(m, s)
  <2>1. {i \in 1 .. Len(s) : s[i] = m} = {}
    BY <1>2 DEF Occurs
  <2>2. QED
    BY <1>2, <2>1, FS_EmptySet, Zenon
<1>3. QED
  BY <1>1, <1>2

-----------------------------------------------------------------------------
(* The modules. *)

\* A step that leaves the list and the engines alone.
LEMMA WalksFrame ==
  ASSUME Walks, Ledgers, UNCHANGED <<resolvers, epc, cursor, out, held, dropped>>
  PROVE  Walks' /\ Ledgers'
<1>1. Walks'
  BY DEF Walks, Walk, Distinct, EntryAfter
<1>2. \A m \in Modules : Holders(m)' = Holders(m)
  BY DEF Holders, Occurs
<1>3. QED
  BY <1>1, <1>2 DEF Ledgers

\* A step of a module that changes the list: nobody walks it.
LEMMA NobodyWalks ==
  ASSUME Types, Locks, Walks, Ledgers, mu \notin Engines,
         UNCHANGED <<epc, cursor, out, held, dropped>>
  PROVE  Walks' /\ Ledgers'
<1>1. \A e \in Engines : epc[e] # "walk"
  BY DEF Locks
<1>2. Walks'
  BY <1>1 DEF Walks, Walk, Distinct
<1>3. \A m \in Modules : Holders(m)' = Holders(m)
  BY DEF Holders, Occurs
<1>4. QED
  BY <1>2, <1>3 DEF Ledgers

LEMMA RegisterAllocInv ==
  ASSUME RInv, NEW m \in Modules, RegisterAlloc(m)
  PROVE  RInv'
<1>1. /\ mpc[m] = "unloaded" /\ mpc' = [mpc EXCEPT ![m] = "add"]
      /\ live' = live \cup {m}
      /\ UNCHANGED <<mu, resolvers, resolver_count, epc, cursor, out, held, dropped>>
  BY DEF RegisterAlloc
<1>2. Types /\ Locks /\ Listed /\ Walks /\ Ledgers
  BY DEF RInv
<1>3. /\ mpc' \in [Modules -> ModulePCs] /\ mpc'[m] = "add"
      /\ \A x \in Modules : x # m => mpc'[x] = mpc[x]
  BY <1>1, <1>2 DEF Types, ModulePCs
<1>4. Types'
  BY <1>1, <1>2, <1>3 DEF Types
<1>5. Locks'
  BY <1>1, <1>2, <1>3 DEF Locks
<1>6. Listed'
  <2>1. \A x \in Modules : mpc'[x] \in {"inc", "loaded", "dec"}
                             \/ mpc[x] \in {"inc", "loaded", "dec"} => mpc'[x] = mpc[x]
    BY <1>1, <1>3
  <2>2. live' = {x \in Modules : mpc'[x] \in {"add", "inc", "loaded"}}
    BY <1>1, <1>2, <1>3 DEF Listed
  <2>3. QED
    BY <1>1, <1>2, <2>1, <2>2 DEF Listed, Occurs, Distinct
<1>7. QED
  BY <1>1, <1>2, <1>4, <1>5, <1>6, WalksFrame DEF RInv

LEMMA RegisterAddInv ==
  ASSUME RInv, NEW m \in Modules, RegisterAdd(m)
  PROVE  RInv'
<1>1. /\ mpc[m] = "add" /\ mpc' = [mpc EXCEPT ![m] = "inc"]
      /\ mu = Free /\ mu' = m /\ resolvers' = <<m>> \o resolvers
      /\ UNCHANGED <<resolver_count, live, epc, cursor, out, held, dropped>>
  BY DEF RegisterAdd, Lock
<1>2. Types /\ Locks /\ Listed /\ Walks /\ Ledgers
  BY DEF RInv
<1>3. /\ mpc' \in [Modules -> ModulePCs] /\ mpc'[m] = "inc"
      /\ \A x \in Modules : x # m => mpc'[x] = mpc[x]
  BY <1>1, <1>2 DEF Types, ModulePCs
<1>4. Free \notin Modules \cup Engines /\ m \notin Engines
  BY RegistryAssumption
<1>5. \A x \in Modules : mpc[x] \notin {"inc", "dec"}
  BY <1>1, <1>2, <1>4 DEF Locks
<1>6. /\ resolvers' \in Seq(Modules) /\ Len(resolvers') = Len(resolvers) + 1
      /\ \A x \in Modules : Occurs(x, resolvers') <=> x = m \/ Occurs(x, resolvers)
      /\ Distinct(resolvers')
  <2>1. ~Occurs(m, resolvers)
    BY <1>1, <1>2 DEF Listed
  <2>2. resolvers \in Seq(Modules) /\ Distinct(resolvers)
    BY <1>2 DEF Types, Listed
  <2>3. QED
    BY <1>1, <2>1, <2>2, PushFacts
<1>7. Types'
  BY <1>1, <1>2, <1>3, <1>6 DEF Types
<1>8. Locks'
  BY <1>1, <1>2, <1>3, <1>4, <1>5 DEF Locks
<1>9. Listed'
  <2>1. resolver_count' = Len(resolvers') - 1
    BY <1>1, <1>2, <1>5, <1>6 DEF Listed, Types
  <2>2. live' = {x \in Modules : mpc'[x] \in {"add", "inc", "loaded"}}
    BY <1>1, <1>2, <1>3 DEF Listed
  <2>3. \A x \in Modules : Occurs(x, resolvers') <=> mpc'[x] \in {"inc", "loaded"}
    BY <1>2, <1>3, <1>6 DEF Listed
  <2>4. \A x \in Modules : mpc'[x] # "dec"
    BY <1>3, <1>5
  <2>5. QED
    BY <1>3, <1>6, <2>1, <2>2, <2>3, <2>4 DEF Listed
<1>10. QED
  BY <1>1, <1>2, <1>4, <1>7, <1>8, <1>9, NobodyWalks DEF RInv

LEMMA RegisterCountInv ==
  ASSUME RInv, NEW m \in Modules, RegisterCount(m) \/ DeregisterCount(m)
  PROVE  RInv'
<1>1. /\ mpc[m] \in {"inc", "dec"} /\ mu = m /\ mu' = Free
      /\ mpc' = [mpc EXCEPT ![m] = IF mpc[m] = "inc" THEN "loaded" ELSE "unloaded"]
      /\ resolver_count' = IF mpc[m] = "inc" THEN resolver_count + 1 ELSE resolver_count - 1
      /\ UNCHANGED <<resolvers, live, epc, cursor, out, held, dropped>>
  BY DEF RegisterCount, DeregisterCount, Unlock
<1>2. Types /\ Locks /\ Listed /\ Walks /\ Ledgers
  BY DEF RInv
<1>3. /\ mpc' \in [Modules -> ModulePCs]
      /\ mpc'[m] = IF mpc[m] = "inc" THEN "loaded" ELSE "unloaded"
      /\ \A x \in Modules : x # m => mpc'[x] = mpc[x]
  BY <1>1, <1>2 DEF Types, ModulePCs
<1>4. Free \notin Modules \cup Engines /\ m \notin Engines
  BY RegistryAssumption
<1>5. \A x \in Modules : mpc'[x] \notin {"inc", "dec"}
  BY <1>1, <1>2, <1>3 DEF Locks
<1>6. resolver_count' \in Int /\ resolver_count' = Len(resolvers')
  BY <1>1, <1>2 DEF Types, Listed
<1>7. Types'
  BY <1>1, <1>2, <1>3, <1>6 DEF Types
<1>8. Locks'
  BY <1>1, <1>2, <1>4, <1>5 DEF Locks
<1>9. Listed'
  <2>1. live' = {x \in Modules : mpc'[x] \in {"add", "inc", "loaded"}}
    BY <1>1, <1>2, <1>3 DEF Listed
  <2>2. \A x \in Modules : Occurs(x, resolvers') <=> mpc'[x] \in {"inc", "loaded"}
    BY <1>1, <1>2, <1>3 DEF Listed
  <2>3. QED
    BY <1>1, <1>2, <1>5, <1>6, <2>1, <2>2 DEF Listed
<1>10. QED
  BY <1>1, <1>2, <1>4, <1>7, <1>8, <1>9, NobodyWalks DEF RInv

LEMMA DeregisterDelInv ==
  ASSUME RInv, NEW m \in Modules, DeregisterDel(m)
  PROVE  RInv'
<1>1. /\ mpc[m] = "loaded" /\ mpc' = [mpc EXCEPT ![m] = "dec"]
      /\ mu = Free /\ mu' = m /\ resolvers' = Unlinked(m) /\ live' = live \ {m}
      /\ UNCHANGED <<resolver_count, epc, cursor, out, held, dropped>>
  BY DEF DeregisterDel, Lock
<1>2. Types /\ Locks /\ Listed /\ Walks /\ Ledgers
  BY DEF RInv
<1>3. /\ mpc' \in [Modules -> ModulePCs] /\ mpc'[m] = "dec"
      /\ \A x \in Modules : x # m => mpc'[x] = mpc[x]
  BY <1>1, <1>2 DEF Types, ModulePCs
<1>4. Free \notin Modules \cup Engines /\ m \notin Engines
  BY RegistryAssumption
<1>5. \A x \in Modules : mpc[x] \notin {"inc", "dec"}
  BY <1>1, <1>2, <1>4 DEF Locks
<1>6. /\ resolvers' \in Seq(Modules) /\ Len(resolvers') = Len(resolvers) - 1
      /\ \A x \in Modules : Occurs(x, resolvers') <=> x # m /\ Occurs(x, resolvers)
      /\ Distinct(resolvers')
  <2>1. Occurs(m, resolvers) /\ resolvers \in Seq(Modules) /\ Distinct(resolvers)
    BY <1>1, <1>2 DEF Types, Listed
  <2>2. QED
    BY <1>1, <2>1, UnlinkedFacts
<1>7. Types'
  BY <1>1, <1>2, <1>3, <1>6 DEF Types
<1>8. Locks'
  BY <1>1, <1>2, <1>3, <1>4, <1>5 DEF Locks
<1>9. Listed'
  <2>1. resolver_count' = Len(resolvers') + 1
    BY <1>1, <1>2, <1>5, <1>6 DEF Listed, Types
  <2>2. live' = {x \in Modules : mpc'[x] \in {"add", "inc", "loaded"}}
    BY <1>1, <1>2, <1>3 DEF Listed
  <2>3. \A x \in Modules : Occurs(x, resolvers') <=> mpc'[x] \in {"inc", "loaded"}
    BY <1>2, <1>3, <1>6 DEF Listed
  <2>4. \A x \in Modules : mpc'[x] # "inc"
    BY <1>3, <1>5
  <2>5. QED
    BY <1>3, <1>6, <2>1, <2>2, <2>3, <2>4 DEF Listed
<1>10. QED
  BY <1>1, <1>2, <1>4, <1>7, <1>8, <1>9, NobodyWalks DEF RInv

-----------------------------------------------------------------------------
(* The engines. *)

\* A step of one engine leaves the walks of the others alone.
LEMMA OtherWalks ==
  ASSUME Types, Walks, NEW e \in Engines, resolvers' = resolvers,
         \A d \in Engines \ {e} : /\ epc'[d] = epc[d] /\ cursor'[d] = cursor[d]
                                  /\ out'[d] = out[d],
         Walk(e)'
  PROVE  Walks'
<1>1. ASSUME NEW d \in Engines \ {e} PROVE Walk(d)'
  <2>1. Walk(d)
    BY DEF Walks
  <2>2. QED
    BY <2>1, ZenonT(30) DEF Walk, Distinct, EntryAfter
<1>2. QED
  BY <1>1 DEF Walks

LEMMA GetArrayInv ==
  ASSUME RInv, NEW e \in Engines, GetArray(e)
  PROVE  RInv'
<1>1. /\ epc[e] = "none" /\ epc' = [epc EXCEPT ![e] = "walk"]
      /\ mu = Free /\ mu' = e
      /\ out' = [out EXCEPT ![e].size = resolver_count]
      /\ cursor' = [cursor EXCEPT ![e] = EntryAfter(0)]
      /\ UNCHANGED <<resolvers, resolver_count, live, mpc, held, dropped>>
  BY DEF GetArray, Lock
<1>2. Types /\ Locks /\ Listed /\ Walks /\ Ledgers /\ Walk(e)
  BY DEF RInv, Walks
<1>3. Free \notin Modules \cup Engines /\ e \notin Modules
  BY RegistryAssumption
<1>4. EntryAfter(0) \in Modules \cup {End}
  BY <1>2 DEF EntryAfter, Types
<1>5. /\ epc' \in [Engines -> EnginePCs] /\ epc'[e] = "walk"
      /\ cursor' \in [Engines -> Modules \cup {End}] /\ cursor'[e] = EntryAfter(0)
      /\ \A d \in Engines \ {e} : epc'[d] = epc[d] /\ cursor'[d] = cursor[d]
  BY <1>1, <1>2, <1>4 DEF Types, EnginePCs
<1>6. /\ out' \in [Engines -> Resolver]
      /\ out'[e].size = resolver_count /\ out'[e].resolvers = <<>>
      /\ \A d \in Engines : out'[d].resolvers = out[d].resolvers
      /\ \A d \in Engines \ {e} : out'[d] = out[d]
  <2>1. out[e].resolvers = <<>>
    BY <1>1, <1>2 DEF Walk, NoResolver
  <2>2. QED
    BY <1>1, <1>2, <2>1, Zenon DEF Types, Resolver
<1>7. \A m \in Modules : mpc[m] \notin {"inc", "dec"}
  BY <1>1, <1>2, <1>3 DEF Locks
<1>8. Types'
  BY <1>1, <1>2, <1>5, <1>6 DEF Types
<1>9. Locks'
  BY <1>1, <1>2, <1>3, <1>5, <1>7 DEF Locks
<1>10. Listed'
  BY <1>1, <1>2 DEF Listed
<1>11. Walks'
  <2>1. resolver_count = Len(resolvers) /\ Len(resolvers) \in Nat
    BY <1>2, <1>7 DEF Listed, Types
  <2>2. EntryAfter(0)' = EntryAfter(0)
    BY <1>1 DEF EntryAfter
  <2>3. Walk(e)'
    BY <1>1, <1>5, <1>6, <2>1, <2>2 DEF Walk, Distinct
  <2>4. QED
    BY <1>1, <1>2, <1>5, <1>6, <2>3, OtherWalks
<1>12. Ledgers'
  <2>1. \A m \in Modules : Holders(m)' = Holders(m)
    BY <1>6 DEF Holders, Occurs
  <2>2. QED
    BY <1>1, <1>2, <2>1 DEF Ledgers
<1>13. QED
  BY <1>8, <1>9, <1>10, <1>11, <1>12 DEF RInv

LEMMA GetInstanceInv ==
  ASSUME RInv, NEW e \in Engines, GetInstance(e)
  PROVE  RInv'
<1>0. PICK m : m = cursor[e]
  OBVIOUS
<1>1. /\ epc[e] = "walk" /\ m # End
      /\ out' = [out EXCEPT ![e].resolvers = Append(@, m)]
      /\ held' = [held EXCEPT ![m] = @ + 1]
      /\ cursor' = [cursor EXCEPT ![e] = EntryAfter(PositionOf(m))]
      /\ UNCHANGED <<mu, resolvers, resolver_count, live, mpc, epc, dropped>>
  BY <1>0 DEF GetInstance
<1>2. Types /\ Locks /\ Listed /\ Walks /\ Ledgers /\ Walk(e)
  BY DEF RInv, Walks
<1>3. PICK r : r = out[e].resolvers
  OBVIOUS
<1>4. /\ r \in Seq(Modules) /\ Distinct(r) /\ Len(r) \in Nat /\ Len(resolvers) \in Nat
      /\ out[e].size = Len(resolvers) /\ Len(r) <= Len(resolvers)
      /\ \A i \in 1 .. Len(r) : r[i] = resolvers[i]
      /\ m = EntryAfter(Len(r))
  BY <1>0, <1>1, <1>2, <1>3 DEF Types, Resolver, Walk
<1>5. /\ Len(r) + 1 \in 1 .. Len(resolvers) /\ m = resolvers[Len(r) + 1]
      /\ m \in Modules
  BY <1>1, <1>2, <1>4, SMTT(30) DEF EntryAfter, Types
<1>6. PositionOf(m) = Len(r) + 1 /\ ~Occurs(m, r)
  <2>1. Distinct(resolvers)
    BY <1>2 DEF Listed
  <2>2. PositionOf(m) = Len(r) + 1
    BY <1>5, <2>1, PositionFacts
  <2>3. ASSUME NEW i \in 1 .. Len(r), r[i] = m PROVE FALSE
    <3>1. i \in 1 .. Len(resolvers) /\ resolvers[i] = resolvers[Len(r) + 1]
      BY <1>4, <1>5, <2>3
    <3>2. QED
      BY <1>4, <1>5, <2>1, <3>1 DEF Distinct
  <2>4. QED
    BY <2>2, <2>3 DEF Occurs
<1>7. PICK t : t = Append(r, m)
  BY Zenon
<1>8. /\ t \in Seq(Modules) /\ Len(t) = Len(r) + 1
      /\ t[Len(r) + 1] = m /\ \A i \in 1 .. Len(r) : t[i] = r[i]
      /\ \A x \in Modules : Occurs(x, t) <=> x = m \/ Occurs(x, r)
      /\ Distinct(t)
  BY <1>4, <1>5, <1>6, <1>7, AppendFacts
<1>9. /\ out' \in [Engines -> Resolver]
      /\ out'[e].resolvers = t /\ out'[e].size = out[e].size
      /\ out'[e].resolver_count = out[e].resolver_count
      /\ \A d \in Engines \ {e} : out'[d] = out[d]
  <2>1. out' = [out EXCEPT ![e].resolvers = t]
    BY <1>1, <1>3, <1>7
  <2>2. QED
    BY <1>2, <1>8, <2>1, Zenon DEF Types, Resolver
<1>10. /\ cursor' \in [Engines -> Modules \cup {End}]
       /\ cursor'[e] = EntryAfter(Len(r) + 1)
       /\ \A d \in Engines \ {e} : cursor'[d] = cursor[d]
  <2>1. EntryAfter(Len(r) + 1) \in Modules \cup {End}
    BY <1>2, <1>4 DEF EntryAfter, Types
  <2>2. QED
    BY <1>1, <1>2, <1>6, <2>1 DEF Types
<1>11. /\ held' \in [Modules -> Int] /\ held'[m] = held[m] + 1
       /\ \A x \in Modules : x # m => held'[x] = held[x]
  BY <1>1, <1>2, <1>5 DEF Types
<1>12. Types'
  BY <1>1, <1>2, <1>9, <1>10, <1>11 DEF Types
<1>13. Locks' /\ Listed'
  BY <1>1, <1>2 DEF Locks, Listed
<1>14. Walks'
  <2>1. cursor'[e] = EntryAfter(Len(out[e].resolvers))'
    BY <1>1, <1>8, <1>9, <1>10 DEF EntryAfter
  <2>2. Len(t) <= Len(resolvers') /\ \A i \in 1 .. Len(t) : t[i] = resolvers'[i]
    BY <1>1, <1>4, <1>5, <1>8
  <2>3. epc'[e] = "walk" /\ out'[e].size = Len(resolvers')
    BY <1>1, <1>4, <1>9
  <2>4. Walk(e)'
    BY <1>8, <1>9, <2>1, <2>2, <2>3 DEF Walk
  <2>5. QED
    BY <1>1, <1>2, <1>9, <1>10, <2>4, OtherWalks
<1>15. Ledgers'
  <2>1. e \notin Holders(m) /\ Holders(m)' = Holders(m) \cup {e}
    BY <1>3, <1>5, <1>6, <1>8, <1>9 DEF Holders
  <2>2. \A x \in Modules : x # m => Holders(x)' = Holders(x)
    BY <1>3, <1>8, <1>9 DEF Holders
  <2>3. /\ IsFiniteSet(Holders(m)) /\ held[m] = dropped[m] + Cardinality(Holders(m))
        /\ Cardinality(Holders(m)) \in Nat
    BY <1>2, <1>5, FS_CardinalityType DEF Ledgers
  <2>4. IsFiniteSet(Holders(m)') /\ Cardinality(Holders(m)') = Cardinality(Holders(m)) + 1
    BY <2>1, <2>3, FS_AddElement
  <2>5. held'[m] = dropped'[m] + Cardinality(Holders(m)')
    <3>1. held[m] \in Int /\ dropped[m] \in Int
      BY <1>2, <1>5 DEF Types
    <3>2. held'[m] = held[m] + 1 /\ dropped'[m] = dropped[m]
      BY <1>1, <1>2, <1>5, <1>11 DEF Types
    <3>3. QED
      BY <2>3, <2>4, <3>1, <3>2
  <2>6. QED
    BY <1>1, <1>2, <1>11, <2>2, <2>4, <2>5 DEF Ledgers
<1>16. QED
  BY <1>12, <1>13, <1>14, <1>15 DEF RInv

\* An array that goes away: it has no more than one instance of each module.
LEMMA ArrayGone ==
  ASSUME Types, Walks, Ledgers, NEW e \in Engines, out' = [out EXCEPT ![e] = NoResolver]
  PROVE  /\ out' \in [Engines -> Resolver] /\ out'[e] = NoResolver
         /\ \A d \in Engines \ {e} : out'[d] = out[d]
         /\ \A m \in Modules : /\ InArray(e, m) \in {0, 1}
                               /\ IsFiniteSet(Holders(m)')
                               /\ Cardinality(Holders(m)') \in Nat
                               /\ Cardinality(Holders(m)) = Cardinality(Holders(m)') + InArray(e, m)
<1>1. NoResolver \in Resolver
  BY DEF NoResolver, Resolver
<1>2. /\ out' \in [Engines -> Resolver] /\ out'[e] = NoResolver
      /\ \A d \in Engines \ {e} : out'[d] = out[d]
  BY <1>1 DEF Types
<1>3. ASSUME NEW m \in Modules
      PROVE  /\ InArray(e, m) \in {0, 1}
             /\ IsFiniteSet(Holders(m)')
             /\ Cardinality(Holders(m)') \in Nat
             /\ Cardinality(Holders(m)) = Cardinality(Holders(m)') + InArray(e, m)
  <2>1. out[e].resolvers \in Seq(Modules) /\ Distinct(out[e].resolvers)
    BY DEF Types, Resolver, Walks, Walk
  <2>2. InArray(e, m) = IF e \in Holders(m) THEN 1 ELSE 0
    BY <2>1, CountFacts DEF InArray, Holders
  <2>3. ~Occurs(m, NoResolver.resolvers)
    BY DEF Occurs, NoResolver
  <2>4. Holders(m)' = Holders(m) \ {e}
    BY <1>2, <2>3 DEF Holders
  <2>5. IsFiniteSet(Holders(m)) /\ Cardinality(Holders(m)) \in Nat
    BY FS_CardinalityType DEF Ledgers
  <2>6. /\ IsFiniteSet(Holders(m)')
        /\ Cardinality(Holders(m)') = IF e \in Holders(m) THEN Cardinality(Holders(m)) - 1
                                      ELSE Cardinality(Holders(m))
    BY <2>4, <2>5, FS_RemoveElement
  <2>7. Cardinality(Holders(m)') \in Nat
    BY <2>6, FS_CardinalityType
  <2>8. QED
    BY <2>2, <2>5, <2>6, <2>7
<1>4. QED
  BY <1>2, <1>3

\* get_instance fails: what the array had is lost, and accounted for.
LEMMA GetInstanceFailsInv ==
  ASSUME RInv, NEW e \in Engines, GetInstanceFails(e)
  PROVE  RInv'
<1>1. /\ epc[e] = "walk" /\ epc' = [epc EXCEPT ![e] = "none"]
      /\ mu = e /\ mu' = Free
      /\ dropped' = [m \in Modules |-> dropped[m] + InArray(e, m)]
      /\ out' = [out EXCEPT ![e] = NoResolver]
      /\ cursor' = [cursor EXCEPT ![e] = End]
      /\ UNCHANGED <<resolvers, resolver_count, live, mpc, held>>
  BY DEF GetInstanceFails, Unlock
<1>2. Types /\ Locks /\ Listed /\ Walks /\ Ledgers
  BY DEF RInv
<1>3. Free \notin Modules \cup Engines /\ e \notin Modules
  BY RegistryAssumption
<1>4. /\ epc' \in [Engines -> EnginePCs] /\ epc'[e] = "none"
      /\ cursor' \in [Engines -> Modules \cup {End}] /\ cursor'[e] = End
      /\ \A d \in Engines \ {e} : epc'[d] = epc[d] /\ cursor'[d] = cursor[d]
  BY <1>1, <1>2 DEF Types, EnginePCs
<1>5. /\ out' \in [Engines -> Resolver] /\ out'[e] = NoResolver
      /\ \A d \in Engines \ {e} : out'[d] = out[d]
      /\ \A m \in Modules : /\ InArray(e, m) \in {0, 1}
                            /\ IsFiniteSet(Holders(m)')
                            /\ Cardinality(Holders(m)') \in Nat
                            /\ Cardinality(Holders(m)) = Cardinality(Holders(m)') + InArray(e, m)
  BY <1>1, <1>2, ArrayGone, Zenon
<1>6. dropped' \in [Modules -> Int]
  <2>1. \A m \in Modules : dropped[m] \in Int /\ InArray(e, m) \in {0, 1}
    BY <1>2, <1>5 DEF Types
  <2>2. \A m \in Modules : dropped[m] + InArray(e, m) \in Int
    BY <2>1
  <2>3. QED
    BY <1>1, <2>2
<1>7. Types'
  BY <1>1, <1>2, <1>4, <1>5, <1>6 DEF Types
<1>8. Locks'
  BY <1>1, <1>2, <1>3, <1>4 DEF Locks
<1>9. Listed'
  BY <1>1, <1>2 DEF Listed
<1>10. Walks'
  <2>1. Walk(e)'
    <3>1. out'[e].resolvers = <<>>
      BY <1>5 DEF NoResolver
    <3>2. Distinct(out'[e].resolvers)
      BY <3>1 DEF Distinct
    <3>3. QED
      BY <1>4, <1>5, <3>2 DEF Walk
  <2>2. QED
    BY <1>1, <1>2, <1>4, <1>5, <2>1, OtherWalks, ZenonT(30)
<1>11. Ledgers'
  <2>1. ASSUME NEW m \in Modules
        PROVE  held'[m] = dropped'[m] + Cardinality(Holders(m)')
    <3>1. dropped'[m] = dropped[m] + InArray(e, m) /\ dropped[m] \in Int /\ held' = held
      BY <1>1, <1>2 DEF Types
    <3>2. held[m] = dropped[m] + Cardinality(Holders(m))
      BY <1>2 DEF Ledgers
    <3>3. QED
      BY <1>5, <3>1, <3>2
  <2>2. QED
    BY <1>5, <2>1 DEF Ledgers
<1>12. QED
  BY <1>7, <1>8, <1>9, <1>10, <1>11 DEF RInv

LEMMA GetDoneInv ==
  ASSUME RInv, NEW e \in Engines, GetDone(e)
  PROVE  RInv'
<1>1. /\ epc[e] = "walk" /\ epc' = [epc EXCEPT ![e] = "ready"]
      /\ cursor[e] = End /\ mu = e /\ mu' = Free
      /\ out' = [out EXCEPT ![e].resolver_count = resolver_count]
      /\ UNCHANGED <<resolvers, resolver_count, live, mpc, cursor, held, dropped>>
  BY DEF GetDone, Unlock
<1>2. Types /\ Locks /\ Listed /\ Walks /\ Ledgers /\ Walk(e)
  BY DEF RInv, Walks
<1>3. /\ Free \notin Modules \cup Engines /\ e \notin Modules /\ End \notin Modules
  BY RegistryAssumption
<1>4. /\ epc' \in [Engines -> EnginePCs] /\ epc'[e] = "ready"
      /\ \A d \in Engines \ {e} : epc'[d] = epc[d]
  BY <1>1, <1>2 DEF Types, EnginePCs
<1>5. /\ out' \in [Engines -> Resolver] /\ out'[e].size = out[e].size
      /\ out'[e].resolver_count = resolver_count
      /\ \A d \in Engines : out'[d].resolvers = out[d].resolvers
      /\ \A d \in Engines \ {e} : out'[d] = out[d]
  BY <1>1, <1>2, Zenon DEF Types, Resolver
<1>6. resolver_count = Len(resolvers)
  BY <1>1, <1>2, <1>3 DEF Locks, Listed
<1>7. /\ Len(out[e].resolvers) = Len(resolvers) /\ out[e].size = Len(resolvers)
      /\ Distinct(out[e].resolvers)
  <2>1. out[e].resolvers \in Seq(Modules) /\ resolvers \in Seq(Modules)
    BY <1>2 DEF Types, Resolver
  <2>2. QED
    BY <1>1, <1>2, <1>3, <2>1 DEF Walk, EntryAfter
<1>8. Types'
  BY <1>1, <1>2, <1>4, <1>5 DEF Types
<1>9. Locks'
  BY <1>1, <1>2, <1>3, <1>4 DEF Locks
<1>10. Listed'
  BY <1>1, <1>2 DEF Listed
<1>11. Walks'
  <2>1. Walk(e)'
    BY <1>1, <1>4, <1>5, <1>6, <1>7 DEF Walk, Distinct
  <2>2. QED
    BY <1>1, <1>2, <1>4, <1>5, <2>1, OtherWalks
<1>12. Ledgers'
  <2>1. \A m \in Modules : Holders(m)' = Holders(m)
    BY <1>5 DEF Holders, Occurs
  <2>2. QED
    BY <1>1, <1>2, <2>1 DEF Ledgers
<1>13. QED
  BY <1>8, <1>9, <1>10, <1>11, <1>12 DEF RInv

\* release_module_resolver releases every instance of the array, once.
LEMMA ReleaseResolverInv ==
  ASSUME RInv, NEW e \in Engines, ReleaseResolver(e)
  PROVE  RInv'
<1>1. /\ epc[e] = "ready" /\ epc' = [epc EXCEPT ![e] = "none"]
      /\ held' = [m \in Modules |->
                    held[m] - Cardinality({i \in Released(e) : out[e].resolvers[i] = m})]
      /\ out' = [out EXCEPT ![e] = NoResolver]
      /\ UNCHANGED <<mu, resolvers, resolver_count, live, mpc, cursor, dropped>>
  BY DEF ReleaseResolver
<1>2. Types /\ Locks /\ Listed /\ Walks /\ Ledgers /\ Walk(e)
  BY DEF RInv, Walks
<1>3. /\ epc' \in [Engines -> EnginePCs] /\ epc'[e] = "none" /\ cursor'[e] = End
      /\ \A d \in Engines \ {e} : epc'[d] = epc[d]
  BY <1>1, <1>2 DEF Types, EnginePCs, Walk
<1>4. /\ out' \in [Engines -> Resolver] /\ out'[e] = NoResolver
      /\ \A d \in Engines \ {e} : out'[d] = out[d]
      /\ \A m \in Modules : /\ InArray(e, m) \in {0, 1}
                            /\ IsFiniteSet(Holders(m)')
                            /\ Cardinality(Holders(m)') \in Nat
                            /\ Cardinality(Holders(m)) = Cardinality(Holders(m)') + InArray(e, m)
  BY <1>1, <1>2, ArrayGone, Zenon
<1>5. held' = [m \in Modules |-> held[m] - InArray(e, m)]
  BY <1>1, <1>2 DEF Walk, Released, InArray
<1>6. held' \in [Modules -> Int]
  <2>1. \A m \in Modules : held[m] \in Int /\ InArray(e, m) \in {0, 1}
    BY <1>2, <1>4 DEF Types
  <2>2. \A m \in Modules : held[m] - InArray(e, m) \in Int
    BY <2>1
  <2>3. QED
    BY <1>5, <2>2
<1>7. Types'
  BY <1>1, <1>2, <1>3, <1>4, <1>6, ZenonT(30) DEF Types
<1>8. Locks'
  BY <1>1, <1>2, <1>3 DEF Locks
<1>9. Listed'
  BY <1>1, <1>2 DEF Listed
<1>10. Walks'
  <2>1. Walk(e)'
    BY <1>3, <1>4 DEF Walk, NoResolver, Distinct
  <2>2. QED
    BY <1>1, <1>2, <1>3, <1>4, <2>1, OtherWalks
<1>11. Ledgers'
  <2>1. ASSUME NEW m \in Modules
        PROVE  held'[m] = dropped'[m] + Cardinality(Holders(m)')
    <3>1. held'[m] = held[m] - InArray(e, m) /\ dropped[m] \in Int /\ dropped' = dropped
      BY <1>1, <1>2, <1>5 DEF Types
    <3>2. held[m] = dropped[m] + Cardinality(Holders(m))
      BY <1>2 DEF Ledgers
    <3>3. QED
      BY <1>4, <3>1, <3>2
  <2>2. QED
    BY <1>4, <2>1 DEF Ledgers
<1>12. QED
  BY <1>7, <1>8, <1>9, <1>10, <1>11 DEF RInv

-----------------------------------------------------------------------------
(* The invariant. *)

\* An empty registry.
LEMMA InitRInv == Init => RInv
<1> SUFFICES ASSUME Init PROVE RInv
  OBVIOUS
<1>1. Free \notin Modules \cup Engines
  BY RegistryAssumption
<1>2. resolvers = <<>> /\ Len(resolvers) = 0 /\ resolvers \in Seq(Modules)
  BY DEF Init
<1>3. NoResolver \in Resolver
  BY DEF NoResolver, Resolver
<1>4. Types
  <2>1. mpc \in [Modules -> ModulePCs] /\ epc \in [Engines -> EnginePCs]
    BY DEF Init, ModulePCs, EnginePCs
  <2>2. QED
    BY <1>2, <1>3, <2>1 DEF Init, Types
<1>5. Locks
  BY <1>1 DEF Init, Locks
<1>6. Listed
  BY <1>2 DEF Init, Listed, Distinct, Occurs
<1>7. Walks
  BY DEF Init, Walks, Walk, NoResolver, Distinct
<1>8. Ledgers
  <2>1. \A m \in Modules : Holders(m) = {}
    BY DEF Init, Holders, Occurs, NoResolver
  <2>2. \A m \in Modules : held[m] = 0 /\ dropped[m] = 0
    BY DEF Init
  <2>3. IsFiniteSet({}) /\ Cardinality({}) = 0
    BY FS_EmptySet
  <2>4. QED
    BY <2>1, <2>2, <2>3 DEF Ledgers
<1>9. QED
  BY <1>4, <1>5, <1>6, <1>7, <1>8 DEF RInv

\* Every step of a module or an engine.
LEMMA NextRInv == RInv /\ [Next]_vars => RInv'
<1> SUFFICES ASSUME RInv, [Next]_vars PROVE RInv'
  OBVIOUS
<1>1. CASE UNCHANGED vars
  <2>1. Types' /\ Locks' /\ Listed'
    BY <1>1 DEF RInv, Types, Locks, Listed, vars
  <2>2. Walks' /\ Ledgers'
    BY <1>1, WalksFrame DEF RInv, vars
  <2>3. QED
    BY <2>1, <2>2 DEF RInv
<1>2. ASSUME NEW m \in Modules, ModuleStep(m) PROVE RInv'
  BY <1>2, RegisterAllocInv, RegisterAddInv, RegisterCountInv, DeregisterDelInv
     DEF ModuleStep
<1>3. ASSUME NEW e \in Engines, EngineStep(e) PROVE RInv'
  BY <1>3, GetArrayInv, GetInstanceInv, GetInstanceFailsInv, GetDoneInv, ReleaseResolverInv
     DEF EngineStep
<1>4. QED
  BY <1>1, <1>2, <1>3 DEF Next

LEMMA RegistryInvariance == Spec => []RInv
BY InitRInv, NextRInv, PTL DEF Spec

\* An engine that walks the list stands on an entry that is there, writes
\* inside its array and fills all of it: get_module_resolver under the mutex,
\* against any number of registrations, deregistrations and other loads.
THEOREM WalksAreSafe == Spec => []WalkSafe
<1>1. ASSUME RInv PROVE WalkSafe
  <2> SUFFICES ASSUME NEW e \in Engines
               PROVE  /\ cursor[e] # End =>
                           /\ cursor[e] \in live
                           /\ \E i \in 1 .. Len(resolvers) : resolvers[i] = cursor[e]
                      /\ Len(out[e].resolvers) <= out[e].size
                      /\ epc[e] = "ready" => /\ Len(out[e].resolvers) = out[e].size
                                             /\ out[e].resolver_count = out[e].size
    BY DEF WalkSafe
  <2>1. Types /\ Listed /\ Walk(e)
    BY <1>1 DEF RInv, Walks
  <2>2. /\ epc[e] \in {"none", "walk", "ready"} /\ Len(resolvers) \in Nat
        /\ Len(out[e].resolvers) \in Nat
        /\ cursor[e] # End => cursor[e] \in Modules
    BY <2>1 DEF Types, EnginePCs, Resolver
  <2>3. ASSUME cursor[e] # End
        PROVE  Occurs(cursor[e], resolvers)
    <3>1. PICK n \in Nat : cursor[e] = EntryAfter(n)
      BY <2>1, <2>2, <2>3 DEF Walk
    <3>2. n + 1 \in 1 .. Len(resolvers) /\ resolvers[n + 1] = cursor[e]
      BY <2>2, <2>3, <3>1 DEF EntryAfter
    <3>3. QED
      BY <3>2 DEF Occurs
  <2>4. cursor[e] # End => cursor[e] \in live
    BY <2>1, <2>2, <2>3 DEF Listed
  <2>5. Len(out[e].resolvers) <= out[e].size
    BY <2>1, <2>2 DEF Walk, NoResolver
  <2>6. QED
    BY <2>1, <2>3, <2>4, <2>5 DEF Walk, Occurs
<1>2. QED
  BY <1>1, RegistryInvariance, PTL

\* Whenever the mutex is free, resolver_count is the length of the list, which
\* has the entry of each registered module once.
THEOREM CountIsExact == Spec => []CountMatches
<1>1. ASSUME RInv, mu = Free
      PROVE  /\ resolver_count = Len(resolvers)
             /\ \A m \in Modules :
                  Cardinality({i \in 1 .. Len(resolvers) : resolvers[i] = m})
                    = (IF mpc[m] = "loaded" THEN 1 ELSE 0)
  <2>1. \A m \in Modules : mpc[m] \notin {"inc", "dec"}
    BY <1>1, RegistryAssumption DEF RInv, Locks
  <2>2. resolvers \in Seq(Modules) /\ Distinct(resolvers)
    BY <1>1 DEF RInv, Types, Listed
  <2>3. \A m \in Modules : Occurs(m, resolvers) <=> mpc[m] = "loaded"
    BY <1>1, <2>1 DEF RInv, Listed
  <2>4. resolver_count = Len(resolvers)
    BY <1>1, <2>1 DEF RInv, Listed
  <2>5. QED
    BY <2>2, <2>3, <2>4, CountFacts
<1>2. RInv => CountMatches
  BY <1>1, Zenon DEF CountMatches
<1>3. QED
  BY <1>2, RegistryInvariance, PTL

\* No instance is released twice, and none is lost but by a failing
\* get_instance: every one that is outstanding is in one engine's array, or was
\* in an array that such a failure freed.
THEOREM InstancesAreOwned == Spec => []InstancesOwned
<1>1. ASSUME RInv, NEW m \in Modules
      PROVE  /\ \A e \in Engines : InArray(e, m) <= 1
             /\ held[m] = dropped[m] + Cardinality({e \in Engines : InArray(e, m) = 1})
  <2>1. \A e \in Engines : InArray(e, m) = IF Occurs(m, out[e].resolvers) THEN 1 ELSE 0
    <3> SUFFICES ASSUME NEW e \in Engines
                 PROVE  InArray(e, m) = IF Occurs(m, out[e].resolvers) THEN 1 ELSE 0
      OBVIOUS
    <3>1. out[e].resolvers \in Seq(Modules) /\ Distinct(out[e].resolvers)
      BY <1>1 DEF RInv, Types, Resolver, Walks, Walk
    <3>2. QED
      BY <3>1, CountFacts DEF InArray
  <2>2. {e \in Engines : InArray(e, m) = 1} = Holders(m)
    BY <2>1 DEF Holders
  <2>3. QED
    BY <1>1, <2>1, <2>2 DEF RInv, Ledgers
<1>2. RInv => InstancesOwned
  BY <1>1 DEF InstancesOwned
<1>3. QED
  BY <1>2, RegistryInvariance, PTL

-----------------------------------------------------------------------------
(* The lookup of an import. *)

\* A set of natural numbers has a least element.
LEMMA LeastNat ==
  ASSUME NEW T, T \subseteq Nat, T # {}
  PROVE  \E x \in T : \A y \in T : x <= y
<1>1. PICK R : R = OpToRel(<, Nat)
  BY Zenon
<1>2. IsWellFoundedOn(R, Nat)
  BY <1>1, NatLessThanWellFounded, Zenon
<1>3. PICK x \in T : \A y \in T : ~(<<y, x>> \in R)
  BY <1>2, WFMin, Zenon
<1>4. \A y \in Nat : <<y, x>> \in R <=> y < x
  BY <1>1 DEF OpToRel
<1>5. \A y \in T : ~(y < x)
  BY <1>3, <1>4, Zenon
<1>6. QED
  BY <1>5

\* The resolvers of s, from the i-th on, that know the name.
KnowFrom(s, name, i) == {j \in i .. Len(s) : name \in DOMAIN Provides[s[j]]}

\* What the first of them answers.
Answer(s, name, n, i) ==
  LET know   == KnowFrom(s, name, i)
      newest == CHOOSE j \in know : \A l \in know : j <= l
  IN IF know # {} /\ Provides[s[newest]][name] = n THEN s[newest] ELSE None

\* The answer from the i-th resolver on is its own, or that of the next ones.
LEMMA AnswerStep ==
  ASSUME NEW s \in Seq(Modules), NEW name, NEW n, NEW i \in 1 .. Len(s)
  PROVE  Answer(s, name, n, i) =
           IF name \notin DOMAIN Provides[s[i]] THEN Answer(s, name, n, i + 1)
           ELSE IF Provides[s[i]][name] = n THEN s[i]
           ELSE None
<1>1. CASE name \notin DOMAIN Provides[s[i]]
  <2>1. KnowFrom(s, name, i) = KnowFrom(s, name, i + 1)
    BY <1>1 DEF KnowFrom
  <2>2. QED
    BY <1>1, <2>1 DEF Answer
<1>2. CASE name \in DOMAIN Provides[s[i]]
  <2>1. i \in KnowFrom(s, name, i) /\ \A l \in KnowFrom(s, name, i) : l \in Int /\ i <= l
    BY <1>2 DEF KnowFrom
  <2>2. (CHOOSE j \in KnowFrom(s, name, i) : \A l \in KnowFrom(s, name, i) : j <= l) = i
    BY <2>1
  <2>3. QED
    BY <1>2, <2>1, <2>2 DEF Answer
<1>3. QED
  BY <1>1, <1>2

\* The equation of module_resolver_resolve_import's loop, for a function f of
\* the position.
Scans(f, s, name, n) ==
  f = [i \in 1 .. Len(s) + 1 |->
         IF i > Len(s) THEN None
         ELSE IF name \notin DOMAIN Provides[s[i]] THEN f[i + 1]
         ELSE IF Provides[s[i]][name] = n THEN s[i]
         ELSE None]

\* Past the last resolver there is no answer.
LEMMA AnswerEnd ==
  ASSUME NEW s \in Seq(Modules), NEW name, NEW n
  PROVE  Answer(s, name, n, Len(s) + 1) = None
<1>1. KnowFrom(s, name, Len(s) + 1) = {}
  BY DEF KnowFrom
<1>2. QED
  BY <1>1 DEF Answer

\* The answers solve it ...
LEMMA AnswersScan ==
  ASSUME NEW s \in Seq(Modules), NEW name, NEW n
  PROVE  Scans([i \in 1 .. Len(s) + 1 |-> Answer(s, name, n, i)], s, name, n)
<1> DEFINE g == [i \in 1 .. Len(s) + 1 |-> Answer(s, name, n, i)]
<1>1. Len(s) \in Nat
  OBVIOUS
<1>2. ASSUME NEW i \in 1 .. Len(s) + 1
      PROVE  g[i] = IF i > Len(s) THEN None
                    ELSE IF name \notin DOMAIN Provides[s[i]] THEN g[i + 1]
                    ELSE IF Provides[s[i]][name] = n THEN s[i]
                    ELSE None
  <2>1. CASE i > Len(s)
    <3>1. i = Len(s) + 1
      BY <1>1, <2>1
    <3>2. QED
      BY <2>1, <3>1, AnswerEnd
  <2>2. CASE ~(i > Len(s))
    <3>1. i \in 1 .. Len(s) /\ i + 1 \in 1 .. Len(s) + 1
      BY <1>1, <2>2
    <3>2. g[i] = Answer(s, name, n, i) /\ g[i + 1] = Answer(s, name, n, i + 1)
      BY <3>1
    <3>3. QED
      BY <2>2, <3>1, <3>2, AnswerStep
  <2>3. QED
    BY <2>1, <2>2
<1>3. QED
  BY <1>2 DEF Scans

\* ... and nothing else does: at the last position where a solution differed,
\* the equation would make it agree.
LEMMA ScanUnique ==
  ASSUME NEW s \in Seq(Modules), NEW name, NEW n, NEW f, Scans(f, s, name, n)
  PROVE  f[1] = Answer(s, name, n, 1)
<1> DEFINE bad == {d \in 0 .. Len(s) : f[Len(s) + 1 - d] # Answer(s, name, n, Len(s) + 1 - d)}
<1>1. Len(s) \in Nat
  OBVIOUS
<1>2. SUFFICES ASSUME bad # {} PROVE FALSE
  <2>1. bad = {} => f[Len(s) + 1 - Len(s)] = Answer(s, name, n, Len(s) + 1 - Len(s))
    BY <1>1
  <2>2. Len(s) + 1 - Len(s) = 1
    BY <1>1
  <2>3. QED
    BY <2>1, <2>2
<1>3. bad \subseteq Nat
  OBVIOUS
<1>4. PICK d \in bad : \A x \in bad : d <= x
  BY <1>2, <1>3, LeastNat, Zenon
<1>5. PICK i : i = Len(s) + 1 - d
  OBVIOUS
<1>6. i \in 1 .. Len(s) + 1 /\ f[i] # Answer(s, name, n, i)
  BY <1>1, <1>4, <1>5
<1>7. f[i] = IF i > Len(s) THEN None
             ELSE IF name \notin DOMAIN Provides[s[i]] THEN f[i + 1]
             ELSE IF Provides[s[i]][name] = n THEN s[i]
             ELSE None
  BY <1>6 DEF Scans
<1>8. CASE d = 0
  <2>1. i = Len(s) + 1 /\ i > Len(s)
    BY <1>1, <1>5, <1>8
  <2>2. QED
    BY <1>6, <1>7, <2>1, AnswerEnd
<1>9. CASE d # 0
  <2>1. d - 1 \in 0 .. Len(s) /\ ~(d <= d - 1) /\ Len(s) + 1 - (d - 1) = i + 1
    BY <1>1, <1>4, <1>5, <1>9
  <2>2. d - 1 \notin bad
    BY <1>4, <2>1
  <2>3. f[i + 1] = Answer(s, name, n, i + 1)
    BY <2>1, <2>2
  <2>4. i \in 1 .. Len(s) /\ ~(i > Len(s))
    BY <1>1, <1>4, <1>5, <1>9
  <2>5. QED
    BY <1>6, <1>7, <2>3, <2>4, AnswerStep
<1>10. QED
  BY <1>8, <1>9

\* module_resolver_resolve_import, on the resolvers of an engine that has them
\* all in use, returns the answer of the newest resolver that knows the name.
LEMMA ResolveFacts ==
  ASSUME NEW e, NEW name, NEW n, out[e].resolvers \in Seq(Modules),
         out[e].resolver_count = Len(out[e].resolvers)
  PROVE  ResolveImport(e, name, n) = Answer(out[e].resolvers, name, n, 1)
<1>1. PICK s \in Seq(Modules) : s = out[e].resolvers
  OBVIOUS
<1>2. \E f : Scans(f, s, name, n)
  BY AnswersScan, Zenon
<1>3. Scans(CHOOSE f : Scans(f, s, name, n), s, name, n)
  BY <1>2
<1>4. ResolveImport(e, name, n) = (CHOOSE f : Scans(f, s, name, n))[1]
  BY <1>1 DEF ResolveImport, Scans
<1>5. QED
  BY <1>1, <1>3, <1>4, ScanUnique

\* What the answer is, when there is one.
LEMMA AnswerFacts ==
  ASSUME NEW s \in Seq(Modules), NEW name, NEW n, Answer(s, name, n, 1) # None
  PROVE  \E i \in 1 .. Len(s) : /\ Answer(s, name, n, 1) = s[i]
                                /\ name \in DOMAIN Provides[s[i]]
                                /\ Provides[s[i]][name] = n
<1>1. PICK know : know = KnowFrom(s, name, 1)
  OBVIOUS
<1>2. know # {} /\ know \subseteq Nat
  BY <1>1 DEF Answer, KnowFrom
<1>3. \E i \in know : \A j \in know : i <= j
  BY <1>2, LeastNat, Zenon
<1>4. PICK i : i = CHOOSE l \in know : \A j \in know : l <= j
  OBVIOUS
<1>5. i \in know
  BY <1>3, <1>4
<1>6. i \in 1 .. Len(s) /\ name \in DOMAIN Provides[s[i]]
  BY <1>1, <1>5 DEF KnowFrom
<1>7. Answer(s, name, n, 1) = s[i] /\ Provides[s[i]][name] = n
  BY <1>1, <1>4 DEF Answer
<1>8. QED
  BY <1>6, <1>7

\* An import is taken from the most recently registered module that has the
\* name, and from no other: module_resolver_resolve_import, for any tables.
THEOREM NewestModuleDecides == Spec => []NewestDecides
<1>1. ASSUME RInv PROVE NewestDecides
  <2> SUFFICES ASSUME NEW e \in Engines, NEW name \in Names, NEW n \in 0 .. 2, epc[e] = "ready"
               PROVE  LET r == out[e].resolvers
                          knows == {i \in 1 .. Len(r) : name \in DOMAIN Provides[r[i]]}
                          newest == CHOOSE i \in knows : \A j \in knows : i <= j
                      IN ResolveImport(e, name, n) =
                           IF knows # {} /\ Provides[r[newest]][name] = n
                           THEN r[newest] ELSE None
    BY Zenon DEF NewestDecides
  <2>1. out[e].resolvers \in Seq(Modules) /\ out[e].resolver_count = Len(out[e].resolvers)
    BY <1>1 DEF RInv, Types, Resolver, Walks, Walk
  <2>2. ResolveImport(e, name, n) = Answer(out[e].resolvers, name, n, 1)
    BY <2>1, ResolveFacts
  <2>3. QED
    BY <2>2, Zenon DEF Answer, KnowFrom
<1>2. QED
  BY <1>1, RegistryInvariance, PTL

-----------------------------------------------------------------------------
(* Imports. *)

\* A binding was offered by the module it came from, with that count.
Offered(b) ==
  /\ b.from \in Modules
  /\ b.name \in DOMAIN Provides[b.from]
  /\ b.param_count = Provides[b.from][b.name]

Bindings == [name : Names, param_count : Counts, from : Modules]

Bound ==
  /\ imported_funcs \in [Engines -> Seq(Bindings)]
  /\ \A e \in Engines : \A i \in 1 .. Len(imported_funcs[e]) : Offered(imported_funcs[e][i])

\* do_resolve of wasi gives each function the count of its parameters ...
LEMMA WasiArity ==
  \A name \in DOMAIN Wasi : Wasi[name] = Arity(name)
<1>1. DOMAIN Wasi =
           {"fd_prestat_get", "fd_prestat_dir_name",
            "environ_sizes_get", "environ_get", "args_sizes_get",
            "args_get", "random_get", "fd_write", "fd_read",
            "proc_exit", "fd_fdstat_get", "fd_close", "path_open",
            "fd_seek"}
  BY DEF Wasi
<1>2. DOMAIN WasiParams = DOMAIN Wasi
  BY <1>1 DEF WasiParams
<1>3. \A name \in {"fd_prestat_get", "environ_sizes_get", "environ_get",
                      "args_sizes_get", "args_get", "random_get",
                      "fd_fdstat_get"} :
        Len(WasiParams[name]) = 2 /\ Wasi[name] = 2
  BY DEF Wasi, WasiParams
<1>4. \A name \in {"fd_prestat_dir_name"} :
        Len(WasiParams[name]) = 3 /\ Wasi[name] = 3
  BY DEF Wasi, WasiParams
<1>5. \A name \in {"fd_write", "fd_read", "fd_seek"} :
        Len(WasiParams[name]) = 4 /\ Wasi[name] = 4
  BY DEF Wasi, WasiParams
<1>6. \A name \in {"proc_exit", "fd_close"} :
        Len(WasiParams[name]) = 1 /\ Wasi[name] = 1
  BY DEF Wasi, WasiParams
<1>7. \A name \in {"path_open"} :
        Len(WasiParams[name]) = 9 /\ Wasi[name] = 9
  BY DEF Wasi, WasiParams
<1>8. \A name \in DOMAIN Wasi : Wasi[name] = Len(WasiParams[name])
  BY <1>1, <1>3, <1>4, <1>5, <1>6, <1>7, Zenon
<1>9. QED
  BY <1>2, <1>8 DEF Arity

\* ... and so does that of networking.
LEMMA NetworkingArity ==
  \A name \in DOMAIN Networking : Networking[name] = Arity(name)
<1>1. DOMAIN Networking =
           {"_socket", "_bind", "_listen", "_accept4", "_sendto",
            "_recvfrom", "_eventfd_sem", "_epoll_create",
            "_epoll_ctl", "_epoll_wait", "_fcntl"}
  BY DEF Networking
<1>2. \A name \in DOMAIN Networking : name \notin DOMAIN WasiParams
  BY <1>1 DEF WasiParams
<1>3. \A name \in {"_socket", "_bind", "_fcntl"} :
        Len(NetworkingParams[name]) = 3 /\ Networking[name] = 3
  BY DEF Networking, NetworkingParams
<1>4. \A name \in {"_listen"} :
        Len(NetworkingParams[name]) = 2 /\ Networking[name] = 2
  BY DEF Networking, NetworkingParams
<1>5. \A name \in {"_accept4", "_epoll_ctl", "_epoll_wait"} :
        Len(NetworkingParams[name]) = 4 /\ Networking[name] = 4
  BY DEF Networking, NetworkingParams
<1>6. \A name \in {"_sendto", "_recvfrom"} :
        Len(NetworkingParams[name]) = 6 /\ Networking[name] = 6
  BY DEF Networking, NetworkingParams
<1>7. \A name \in {"_eventfd_sem"} :
        Len(NetworkingParams[name]) = 1 /\ Networking[name] = 1
  BY DEF Networking, NetworkingParams
<1>8. \A name \in {"_epoll_create"} :
        Len(NetworkingParams[name]) = 0 /\ Networking[name] = 0
  BY DEF Networking, NetworkingParams
<1>9. \A name \in DOMAIN Networking : Networking[name] = Len(NetworkingParams[name])
  BY <1>1, <1>3, <1>4, <1>5, <1>6, <1>7, <1>8, Zenon
<1>10. QED
  BY <1>2, <1>9 DEF Arity

\* The tables have no name in common.
LEMMA TablesDisjoint ==
  DOMAIN Wasi \cap DOMAIN Networking = {}
  BY DEF Wasi, Networking

\* A step of a load that is bound to the registry is a step of the registry.
LEMMA INextNext == INext => [Next]_vars
<1>1. RegistryStep => Next
  BY ZenonT(30) DEF RegistryStep, Next, ModuleStep, EngineStep
<1>2. \A m \in Modules : Unload(m) => Next
  BY DEF Unload, Next, ModuleStep
<1>3. \A e \in Engines : BindFails(e) \/ Release(e) => Next
  BY ZenonT(30) DEF BindFails, Release, Next, EngineStep
<1>4. \A e \in Engines : Bind(e) \/ BindStale(e) => UNCHANGED vars
  BY DEF Bind, BindStale
<1>5. QED
  BY <1>1, <1>2, <1>3, <1>4 DEF INext

\* Binding imports, and modules that go while their functions are bound, do
\* nothing to the registry that its own specification does not allow.
THEOREM ImportsUseRegistry == ISpec => Spec
<1>1. IInit => Init
  BY DEF IInit
<1>2. [INext]_ivars => [Next]_vars
  BY INextNext, ZenonT(30) DEF ivars
<1>3. QED
  BY <1>1, <1>2, PTL DEF ISpec, Spec

\* What init_execution_engine's loop binds.
LEMMA BoundInv ==
  ASSUME RInv, Bound, [INext]_ivars
  PROVE  Bound'
<1>1. ASSUME imported_funcs' = imported_funcs PROVE Bound'
  BY <1>1 DEF Bound
<1>2. ASSUME NEW e \in Engines, imported_funcs' = [imported_funcs EXCEPT ![e] = <<>>]
      PROVE  Bound'
  BY <1>2 DEF Bound
<1>3. ASSUME NEW e \in Engines, Bind(e) PROVE Bound'
  <2>1. PICK name \in Names, n \in Counts :
          /\ ResolveImport(e, name, n) # None
          /\ imported_funcs' = [imported_funcs EXCEPT ![e] =
               Append(@, [name |-> name, param_count |-> n, from |-> ResolveImport(e, name, n)])]
    BY <1>3, Zenon DEF Bind
  <2>2. PICK s \in Seq(Modules) : s = out[e].resolvers
    BY DEF RInv, Types, Resolver
  <2>3. out[e].resolver_count = Len(s)
    BY <1>3, <2>2, Zenon DEF RInv, Walks, Walk, Bind, Loading
  <2>4. PICK m : m = ResolveImport(e, name, n)
    OBVIOUS
  <2>5. m = Answer(s, name, n, 1)
    BY <2>2, <2>3, <2>4, ResolveFacts, ZenonT(30)
  <2>6. PICK i \in 1 .. Len(s) : m = s[i] /\ name \in DOMAIN Provides[s[i]] /\ Provides[s[i]][name] = n
    BY <2>1, <2>4, <2>5, AnswerFacts
  <2>7. PICK b : b = [name |-> name, param_count |-> n, from |-> m]
    BY Zenon
  <2>8. b \in Bindings /\ Offered(b)
    BY <2>6, <2>7 DEF Bindings, Offered
  <2>9. PICK q \in Seq(Bindings) : q = imported_funcs[e]
    BY DEF Bound
  <2>10. imported_funcs' = [imported_funcs EXCEPT ![e] = Append(q, b)]
    BY <2>1, <2>4, <2>7, <2>9
  <2>11. Append(q, b) \in Seq(Bindings)
    BY <2>8
  <2>12. \A j \in 1 .. Len(Append(q, b)) : Offered(Append(q, b)[j])
    <3>1. Len(Append(q, b)) = Len(q) + 1 /\ Append(q, b)[Len(q) + 1] = b
      BY <2>8
    <3>2. \A j \in 1 .. Len(q) : Append(q, b)[j] = q[j] /\ Offered(q[j])
      BY <2>8, <2>9 DEF Bound
    <3>3. \A j \in 1 .. Len(q) + 1 : j \in 1 .. Len(q) \/ j = Len(q) + 1
      OBVIOUS
    <3>4. QED
      BY <2>8, <3>1, <3>2, <3>3
  <2>13. imported_funcs' \in [Engines -> Seq(Bindings)]
    BY <2>10, <2>11 DEF Bound
  <2>14. ASSUME NEW f \in Engines, NEW j \in 1 .. Len(imported_funcs'[f])
         PROVE  Offered(imported_funcs'[f][j])
    <3>1. CASE f = e
      BY <2>10, <2>12, <3>1 DEF Bound
    <3>2. CASE f # e
      BY <2>10, <3>2 DEF Bound
    <3>3. QED
      BY <3>1, <3>2
  <2>15. QED
    BY <2>13, <2>14 DEF Bound, Offered
<1>4. QED
  BY <1>1, <1>2, <1>3, Zenon DEF INext, ivars, RegistryStep, Unload, BindFails, BindStale, Release

LEMMA ImportsInvariance == ISpec => [](RInv /\ Bound)
<1>1. IInit => Bound
  BY DEF IInit, Bound
<1>2. ISpec => []RInv
  BY ImportsUseRegistry, RegistryInvariance, PTL
<1>3. QED
  BY <1>1, <1>2, BoundInv, PTL DEF ISpec

\* A guest calls every import with exactly the arguments its function takes.
\* A binding keeps the count that do_resolve of its module declared, also after
\* that module is gone, and each declared count is the arity of the C function.
THEOREM ImportsBoundAsDeclared == ISpec => []BoundAsDeclared
<1>1. ASSUME Bound PROVE BoundAsDeclared
  <2> SUFFICES ASSUME NEW e \in Engines, NEW i \in 1 .. Len(imported_funcs[e])
               PROVE  imported_funcs[e][i].param_count = Arity(imported_funcs[e][i].name)
    BY DEF BoundAsDeclared
  <2>1. PICK b : b = imported_funcs[e][i]
    OBVIOUS
  <2>2. Offered(b)
    BY <1>1, <2>1 DEF Bound
  <2>3. Provides[b.from] = Wasi \/ Provides[b.from] = Networking
    BY <2>2, ImportsAssumption DEF Offered
  <2>4. b.param_count = Arity(b.name)
    BY <2>2, <2>3, WasiArity, NetworkingArity DEF Offered
  <2>5. QED
    BY <2>1, <2>4
<1>2. QED
  BY <1>1, ImportsInvariance, PTL

\* What a module offers is resolved to that module if it was registered when
\* the engine was loaded, no matter in which order, and fails otherwise: the
\* names of wasi and networking are disjoint and no entry is listed twice.
THEOREM ImportsOrderFree == ISpec => []OrderFree
<1>1. ASSUME RInv PROVE OrderFree
  <2> SUFFICES ASSUME NEW e \in Engines, NEW m \in Modules, epc[e] = "ready",
                      NEW name \in DOMAIN Provides[m]
               PROVE  ResolveImport(e, name, Provides[m][name])
                        = IF Occurs(m, out[e].resolvers) THEN m ELSE None
    BY DEF OrderFree, Occurs
  <2>1. PICK s \in Seq(Modules) : s = out[e].resolvers
    BY <1>1 DEF RInv, Types, Resolver
  <2>2. out[e].resolver_count = Len(s) /\ Distinct(s)
    BY <1>1, <2>1 DEF RInv, Walks, Walk
  <2>3. PICK n : n = Provides[m][name]
    OBVIOUS
  <2>4. ResolveImport(e, name, n) = Answer(s, name, n, 1)
    BY <2>1, <2>2, ResolveFacts
  <2>5. \A x \in Modules : name \in DOMAIN Provides[x] => x = m
    BY ImportsAssumption, TablesDisjoint
  <2>6. PICK know : know = KnowFrom(s, name, 1)
    OBVIOUS
  <2>7. \A j : j \in know <=> j \in 1 .. Len(s) /\ s[j] = m
    <3>1. \A j \in 1 .. Len(s) : s[j] \in Modules
      OBVIOUS
    <3>2. QED
      BY <2>5, <2>6, <3>1 DEF KnowFrom
  <2>8. CASE Occurs(m, s)
    <3>1. PICK i \in 1 .. Len(s) : s[i] = m
      BY <2>8 DEF Occurs
    <3>2. know = {i}
      BY <2>2, <2>7, <3>1 DEF Distinct
    <3>3. (CHOOSE j \in know : \A l \in know : j <= l) = i
      BY <3>2
    <3>4. Answer(s, name, n, 1) = m
      BY <2>3, <2>6, <3>1, <3>2, <3>3, ZenonT(30) DEF Answer
    <3>5. QED
      BY <2>1, <2>3, <2>4, <2>8, <3>4
  <2>9. CASE ~Occurs(m, s)
    <3>1. know = {}
      BY <2>7, <2>9 DEF Occurs
    <3>2. Answer(s, name, n, 1) = None
      BY <2>6, <3>1 DEF Answer
    <3>3. QED
      BY <2>1, <2>3, <2>4, <2>9, <3>2
  <2>10. QED
    BY <2>8, <2>9
<1>2. QED
  BY <1>1, ImportsInvariance, PTL

=============================================================================
