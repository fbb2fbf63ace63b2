------------------------------ MODULE Registry ------------------------------
(***************************************************************************)
(* The registry of import resolvers (kapi.c).  Extension modules (wasi,    *)
(* networking) register a resolver when they are loaded and deregister it  *)
(* when they are unloaded; meanwhile engines that are being loaded walk    *)
(* the list and take an instance of every resolver.  One mutex protects    *)
(* the list and its length.                                                *)
(*                                                                         *)
(* A resolver_entry is named after the module that registered it.          *)
(***************************************************************************)
EXTENDS Integers, Sequences, FiniteSets

CONSTANTS
  Modules,    \* extension modules
  Engines,    \* execution engines, one per session
  MayFail,    \* modules whose get_instance may fail
  Provides,   \* for each module and each import it has, the parameter count
  Names,      \* import names
  HeldBound   \* loads are tried while fewer instances are outstanding

Free == "free"
End  == "end"   \* the list head: where list_for_each stops
None == "none"

ASSUME RegistryAssumption ==
  /\ Modules \cap Engines = {}
  /\ Free \notin Modules \cup Engines
  /\ End \notin Modules
  /\ None \notin Modules
  /\ MayFail \subseteq Modules
  /\ HeldBound \in Nat

VARIABLES
  mu,              \* the holder of global_registry.mu
  resolvers,       \* the list, head first
  resolver_count,
  live,            \* entries that are allocated
  mpc,             \* what each module is doing
  epc,             \* what each engine is doing
  cursor,          \* x in list_for_each: the entry each engine has reached
  out,             \* struct module_resolver of each engine
  held,            \* ledger: instances of each module's resolver not released
  dropped          \* ledger: those of them whose array is gone

vars == <<mu, resolvers, resolver_count, live, mpc, epc, cursor, out, held,
          dropped>>

\* An array of size instances, filled so far; resolver_count of them in use.
NoResolver == [size |-> 0, resolvers |-> <<>>, resolver_count |-> 0]

Init ==
  /\ mu = Free
  /\ resolvers = <<>>
  /\ resolver_count = 0
  /\ live = {}
  /\ mpc = [m \in Modules |-> "unloaded"]
  /\ epc = [e \in Engines |-> "none"]
  /\ cursor = [e \in Engines |-> End]
  /\ out = [e \in Engines |-> NoResolver]
  /\ held = [m \in Modules |-> 0]
  /\ dropped = [m \in Modules |-> 0]

Lock(p) == mu = Free /\ mu' = p

Unlock(p) == mu = p /\ mu' = Free

-----------------------------------------------------------------------------
(* Modules. *)

PositionOf(m) == CHOOSE i \in 1 .. Len(resolvers) : resolvers[i] = m

\* list_del: the list without m's entry.
Unlinked(m) ==
  LET i == PositionOf(m)
  IN SubSeq(resolvers, 1, i - 1) \o SubSeq(resolvers, i + 1, Len(resolvers))

\* kwasm_resolver_register: a new entry (a module whose entry cannot be
\* allocated is not loaded) ...
RegisterAlloc(m) ==
  /\ mpc[m] = "unloaded"
  /\ mpc' = [mpc EXCEPT ![m] = "add"]
  /\ live' = live \cup {m}
  /\ UNCHANGED <<mu, resolvers, resolver_count, epc, cursor, out, held, dropped>>

\* ... at the head of the list ...
RegisterAdd(m) ==
  /\ mpc[m] = "add"
  /\ Lock(m)
  /\ mpc' = [mpc EXCEPT ![m] = "inc"]
  /\ resolvers' = <<m>> \o resolvers
  /\ UNCHANGED <<resolver_count, live, epc, cursor, out, held, dropped>>

\* ... and counted.
RegisterCount(m) ==
  /\ mpc[m] = "inc"
  /\ resolver_count' = resolver_count + 1
  /\ Unlock(m)
  /\ mpc' = [mpc EXCEPT ![m] = "loaded"]
  /\ UNCHANGED <<resolvers, live, epc, cursor, out, held, dropped>>

DeregisterDel_NoLock(m) ==
  /\ mpc[m] = "loaded"
  /\ mpc' = [mpc EXCEPT ![m] = "unloaded"]
  /\ resolvers' = Unlinked(m)
  /\ resolver_count' = resolver_count - 1
  /\ live' = live \ {m}
  /\ UNCHANGED <<mu, epc, cursor, out, held, dropped>>

\* kwasm_resolver_deregister: list_del, kfree ...
DeregisterDel(m) ==
  /\ mpc[m] = "loaded"
  /\ Lock(m)
  /\ mpc' = [mpc EXCEPT ![m] = "dec"]
  /\ resolvers' = Unlinked(m)
  /\ live' = live \ {m}
  /\ UNCHANGED <<resolver_count, epc, cursor, out, held, dropped>>

DeregisterCount_Forgets(m) ==
  /\ mpc[m] = "dec"
  /\ Unlock(m)
  /\ mpc' = [mpc EXCEPT ![m] = "unloaded"]
  /\ UNCHANGED <<resolvers, resolver_count, live, epc, cursor, out, held, dropped>>

\* ... and the count.
DeregisterCount(m) ==
  /\ mpc[m] = "dec"
  /\ resolver_count' = resolver_count - 1
  /\ Unlock(m)
  /\ mpc' = [mpc EXCEPT ![m] = "unloaded"]
  /\ UNCHANGED <<resolvers, live, epc, cursor, out, held, dropped>>

-----------------------------------------------------------------------------
(* Engines. *)

\* The entry after position i of the list.
EntryAfter(i) == IF i < Len(resolvers) THEN resolvers[i + 1] ELSE End

\* get_module_resolver: lock, and an array of resolver_count instances.  (When
\* the array cannot be allocated nothing changes.)
GetArray(e) ==
  /\ epc[e] = "none"
  /\ \A m \in Modules : held[m] < HeldBound
  /\ Lock(e)
  /\ epc' = [epc EXCEPT ![e] = "walk"]
  /\ out' = [out EXCEPT ![e].size = resolver_count]
  /\ cursor' = [cursor EXCEPT ![e] = EntryAfter(0)]
  /\ UNCHANGED <<resolvers, resolver_count, live, mpc, held, dropped>>

\* How often e's array has an instance of m.
InArray(e, m) ==
  Cardinality({i \in 1 .. Len(out[e].resolvers) : out[e].resolvers[i] = m})

\* One turn of list_for_each.
GetInstance(e) ==
  LET m == cursor[e]
  IN /\ epc[e] = "walk"
     /\ m # End
     /\ out' = [out EXCEPT ![e].resolvers = Append(@, m)]
     /\ held' = [held EXCEPT ![m] = @ + 1]
     /\ cursor' = [cursor EXCEPT ![e] = EntryAfter(PositionOf(m))]
     /\ UNCHANGED <<mu, resolvers, resolver_count, live, mpc, epc, dropped>>

\* get_instance fails: the array is freed, the instances already in it are not
\* released.
GetInstanceFails(e) ==
  /\ epc[e] = "walk"
  /\ cursor[e] \in MayFail
  /\ Unlock(e)
  /\ epc' = [epc EXCEPT ![e] = "none"]
  /\ dropped' = [m \in Modules |-> dropped[m] + InArray(e, m)]
  /\ out' = [out EXCEPT ![e] = NoResolver]
  /\ cursor' = [cursor EXCEPT ![e] = End]
  /\ UNCHANGED <<resolvers, resolver_count, live, mpc, held>>

GetDone(e) ==
  /\ epc[e] = "walk"
  /\ cursor[e] = End
  /\ out' = [out EXCEPT ![e].resolver_count = resolver_count]
  /\ Unlock(e)
  /\ epc' = [epc EXCEPT ![e] = "ready"]
  /\ UNCHANGED <<resolvers, resolver_count, live, mpc, cursor, held, dropped>>

Released_NotLast(e) == 1 .. out[e].resolver_count - 1

\* The positions of the array whose instance is released.
Released(e) == 1 .. out[e].resolver_count

\* release_module_resolver.
ReleaseResolver(e) ==
  /\ epc[e] = "ready"
  /\ epc' = [epc EXCEPT ![e] = "none"]
  /\ held' = [m \in Modules |->
                held[m] - Cardinality({i \in Released(e) : out[e].resolvers[i] = m})]
  /\ out' = [out EXCEPT ![e] = NoResolver]
  /\ UNCHANGED <<mu, resolvers, resolver_count, live, mpc, cursor, dropped>>

Scan_Continue(e, name, n) ==
  LET r == out[e].resolvers
      hits == {i \in 1 .. out[e].resolver_count :
                 name \in DOMAIN Provides[r[i]] /\ Provides[r[i]][name] = n}
  IN IF hits = {} THEN None ELSE r[CHOOSE i \in hits : TRUE]

\* module_resolver_resolve_import: the module whose function is returned, or
\* None for NULL.  The first resolver that knows the name decides.
ResolveImport(e, name, n) ==
  LET r == out[e]
      scan[i \in 1 .. r.resolver_count + 1] ==
        IF i > r.resolver_count THEN None
        ELSE IF name \notin DOMAIN Provides[r.resolvers[i]] THEN scan[i + 1]
        ELSE IF Provides[r.resolvers[i]][name] = n THEN r.resolvers[i]
        ELSE None
  IN scan[1]

-----------------------------------------------------------------------------
ModuleStep(m) ==
  \/ RegisterAlloc(m) \/ RegisterAdd(m) \/ RegisterCount(m)
  \/ DeregisterDel(m) \/ DeregisterCount(m)

EngineStep(e) ==
  \/ GetArray(e) \/ GetInstance(e) \/ GetInstanceFails(e) \/ GetDone(e)
  \/ ReleaseResolver(e)

Next == (\E m \in Modules : ModuleStep(m)) \/ (\E e \in Engines : EngineStep(e))

Spec == Init /\ [][Next]_vars

-----------------------------------------------------------------------------
(* Properties. *)

\* An engine that walks the list stands on an entry that is allocated and on
\* the list: no module is unregistered under it.  The array it fills was sized
\* before the walk and is never written past its end, and at the end all of it
\* is in use: a load sees a list that does not change.
WalkSafe ==
  \A e \in Engines :
    /\ cursor[e] # End =>
         /\ cursor[e] \in live
         /\ \E i \in 1 .. Len(resolvers) : resolvers[i] = cursor[e]
    /\ Len(out[e].resolvers) <= out[e].size
    /\ epc[e] = "ready" => /\ Len(out[e].resolvers) = out[e].size
                           /\ out[e].resolver_count = out[e].size

\* Outside the critical sections the count is the length of the list, and the
\* list has each loaded module's entry once and no freed entry.
CountMatches ==
  mu = Free =>
    /\ resolver_count = Len(resolvers)
    /\ \A m \in Modules :
         Cardinality({i \in 1 .. Len(resolvers) : resolvers[i] = m})
           = (IF mpc[m] = "loaded" THEN 1 ELSE 0)

\* Every instance that get_instance made and nobody released is in exactly one
\* engine's array, where release_module_resolver will find it, or was in an
\* array that a later failure of get_instance in the same walk freed: no other
\* path loses an instance, and none releases one twice.
InstancesOwned ==
  \A m \in Modules :
    /\ \A e \in Engines : InArray(e, m) <= 1
    /\ held[m] = dropped[m] + Cardinality({e \in Engines : InArray(e, m) = 1})

\* An import is taken from the most recently registered module that has the
\* name, and from no other: a different parameter count there means failure,
\* not a search among older modules.
NewestDecides ==
  \A e \in Engines, name \in Names, n \in 0 .. 2 :
    epc[e] = "ready" =>
      LET r == out[e].resolvers
          knows == {i \in 1 .. Len(r) : name \in DOMAIN Provides[r[i]]}
          newest == CHOOSE i \in knows : \A j \in knows : i <= j
      IN ResolveImport(e, name, n) =
           IF knows # {} /\ Provides[r[newest]][name] = n THEN r[newest] ELSE None
=============================================================================
