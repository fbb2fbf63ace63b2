---------------------------- MODULE HostLedgers ----------------------------
(***************************************************************************)
(* The ledgers of the host functions: references to files, sockets that a  *)
(* call has created, and file positions.  One lemma for each kind of step  *)
(* says that it keeps the invariant HInv (HostCallsProofs); each action is *)
(* then shown to be of one of these kinds on every path it has.            *)
(***************************************************************************)
EXTENDS HostCallsProofs

-----------------------------------------------------------------------------
(* What a step does to the ledgers, by kind of step. *)

\* A call that refers to nothing.
Idle(r) == r.pc \notin Busy \cup Making /\ r.f = None /\ r.sock = None

LEMMA IdleFacts ==
  /\ \A r : Idle(r) => HoldsAt(r) /\ r.pc \notin {"io", "pos", "file"}
  /\ \A r \in Call : HoldsAt(r) /\ r.pc \notin Busy \cup Making => Idle(r)
<1>1. None \notin Objects /\ None \notin Pool
  BY HostAssumption DEF Objects
<1>2. ASSUME NEW r, Idle(r) PROVE HoldsAt(r) /\ r.pc \notin {"io", "pos", "file"}
  BY <1>1, <1>2 DEF Idle, HoldsAt, Busy, Making
<1>3. ASSUME NEW r \in Call, HoldsAt(r), r.pc \notin Busy \cup Making PROVE Idle(r)
  BY <1>3 DEF Idle, HoldsAt, Call
<1>4. QED
  BY <1>2, <1>3

\* RefsExact, from the counts of one object.
LEMMA RefsFrom ==
  (\A o \in Objects \ twice' :
     obj'[o].refs = leaks'[o] + In(o, Files) + Descs(table', o) + Calls(call', o))
    => RefsExact'
BY Zenon DEF RefsExact, Descs, Calls, Slots, Users, In

\* A step of a call that refers to nothing.
LEMMA QuietKeeps ==
  ASSUME Inv, Inv', HInv, NEW c \in Callers, NEW r, NowAt(c, r), Idle(r), Idle(call[c]),
         UNCHANGED <<obj, table, ledgers>>
  PROVE  HInv'
<1>1. /\ UNCHANGED <<leaks, lost, twice, raced>>
      /\ HoldsAt(r) /\ r.pc \notin {"io", "pos", "file"} /\ call[c].pc \notin {"io", "pos", "file"}
      /\ r.sock = call[c].sock /\ r.f = call[c].f
  BY IdleFacts DEF ledgers, Idle
<1>2. Ledgers' /\ Alive'
  BY <1>1 DEF HInv, Ledgers, Alive
<1>3. Holding' /\ Positions' /\ SocketsOwned'
  BY <1>1, HoldingFrame, PositionsFrame, SocketsFrame DEF HInv
<1>4. RefsExact'
  <2>1. \A x \in Callers : call'[x].f = call[x].f
    BY <1>1, NowAtFacts
  <2>2. QED
    BY <1>1, <2>1 DEF HInv, RefsExact
<1>5. QED
  BY <1>2, <1>3, <1>4 DEF HInv

\* fd_prestat_get takes a reference for good.
LEMMA LeakKeeps ==
  ASSUME Inv, Inv', HInv, NEW c \in Callers, NEW r, NowAt(c, r), Idle(r), Idle(call[c]),
         NEW fd \in Fds, NEW f \in Objects, table[c][fd] = f,
         obj' = [obj EXCEPT ![f] = Taken(f)], leaks' = [leaks EXCEPT ![f] = @ + 1],
         UNCHANGED <<table, lost, twice, raced>>
  PROVE  HInv'
<1>1. /\ HoldsAt(r) /\ r.pc \notin {"io", "pos", "file"} /\ call[c].pc \notin {"io", "pos", "file"}
      /\ r.sock = call[c].sock /\ r.f = call[c].f
  BY IdleFacts DEF Idle
<1>2. obj[f].refs \in Int /\ (f \in twice \/ obj[f].refs >= 1)
  BY Referred DEF Inv, HInv, Is, In
<1>3. /\ obj'[f].refs = obj[f].refs + 1 /\ \A x \in Objects \ {f} : obj'[x] = obj[x]
      /\ \A x \in Objects : /\ obj'[x].kind = obj[x].kind
                            /\ obj'[x].pos = obj[x].pos /\ obj'[x].moved = obj[x].moved
      /\ Alive'
  BY <1>2, TakenFacts, Zenon DEF HInv
<1>4. Files \subseteq Objects /\ Pool \subseteq Objects
  BY DEF Objects
<1>5. Holding' /\ Positions' /\ SocketsOwned'
  BY <1>1, <1>3, <1>4, HoldingFrame, PositionsFrame, SocketsFrame DEF HInv
<1>6. \A x \in Objects : leaks[x] \in Nat /\ leaks'[x] = leaks[x] + Is(x, f)
  BY DEF HInv, Ledgers, Is, In
<1>7. Ledgers'
  BY <1>6 DEF HInv, Ledgers, Is, In
<1>8. RefsExact'
  <2>1. \A x \in Callers : call'[x].f = call[x].f
    BY <1>1, NowAtFacts
  <2>2. ASSUME NEW o \in Objects \ twice
        PROVE  obj'[o].refs = leaks'[o] + In(o, Files) + Descs(table', o) + Calls(call', o)
    <3>1. Descs(table', o) = Descs(table, o) /\ Calls(call', o) = Calls(call, o)
      BY <2>1, Zenon DEF Calls, Users
    <3>2. /\ Descs(table, o) \in Nat /\ Calls(call, o) \in Nat
          /\ obj[o].refs = leaks[o] + In(o, Files) + Descs(table, o) + Calls(call, o)
      BY CountTypes, RefsAre DEF HInv
    <3>3. obj'[o].refs = obj[o].refs + Is(o, f)
      BY <1>2, <1>3, <3>2, <1>6 DEF Is, In
    <3>4. In(o, Files) \in Nat /\ Is(o, f) \in Nat
      BY DEF Is, In
    <3>5. QED
      BY <1>6, <3>1, <3>2, <3>3, <3>4
  <2>3. QED
    BY <2>2, RefsFrom
<1>9. QED
  BY <1>3, <1>5, <1>7, <1>8 DEF HInv

\* A call takes a reference to the file of a descriptor.
LEMMA HoldKeeps ==
  ASSUME Inv, Inv', HInv, NEW c \in Callers, NEW r, NowAt(c, r), Idle(call[c]),
         NEW fd \in Fds, NEW f \in Objects, table[c][fd] = f,
         r.f = f, r.pc \in {"iov", "bind", "listen"}, r.sock = None,
         obj' = [obj EXCEPT ![f] = Taken(f)], UNCHANGED <<table, ledgers>>
  PROVE  HInv'
<1>0. UNCHANGED <<leaks, lost, twice, raced>>
  BY DEF ledgers
<1>1. /\ r.pc \notin {"io", "pos", "file"} /\ call[c].pc \notin {"io", "pos", "file"}
      /\ r.sock = call[c].sock
  BY IdleFacts DEF Idle
<1>2. HoldsAt(r)
  BY HostAssumption DEF HoldsAt, Busy, Making, Objects
<1>3. obj[f].refs \in Int /\ (f \in twice \/ obj[f].refs >= 1)
  BY Referred DEF Inv, HInv, Is, In
<1>4. /\ obj'[f].refs = obj[f].refs + 1 /\ \A x \in Objects \ {f} : obj'[x] = obj[x]
      /\ \A x \in Objects : /\ obj'[x].kind = obj[x].kind
                            /\ obj'[x].pos = obj[x].pos /\ obj'[x].moved = obj[x].moved
      /\ Alive'
  BY <1>0, <1>3, TakenFacts, Zenon DEF HInv
<1>5. Files \subseteq Objects /\ Pool \subseteq Objects
  BY DEF Objects
<1>6. Holding' /\ Positions' /\ SocketsOwned'
  BY <1>0, <1>1, <1>2, <1>4, <1>5, HoldingFrame, PositionsFrame, SocketsFrame
     DEF HInv
<1>7. Ledgers'
  BY <1>0 DEF HInv, Ledgers
<1>8. RefsExact'
  <2>1. ASSUME NEW o \in Objects \ twice
        PROVE  obj'[o].refs = leaks'[o] + In(o, Files) + Descs(table', o) + Calls(call', o)
    <3>1. Descs(table', o) = Descs(table, o)
      OBVIOUS
    <3>2. o # call[c].f
      BY HostAssumption DEF Idle
    <3>3. /\ Calls(call, o) \in Nat
          /\ Calls(call', o) = Calls(call, o) + Is(o, r.f) - Is(o, call[c].f)
      BY UsersChange, Zenon DEF NowAt
    <3>4. Calls(call', o) = Calls(call, o) + Is(o, f)
      BY <3>2, <3>3 DEF Is, In
    <3>5. /\ Descs(table, o) \in Nat /\ leaks[o] \in Nat
          /\ obj[o].refs = leaks[o] + In(o, Files) + Descs(table, o) + Calls(call, o)
      BY CountTypes, RefsAre DEF HInv, Ledgers
    <3>6. In(o, Files) \in Nat /\ Is(o, f) \in Nat
      BY DEF Is, In
    <3>7. obj'[o].refs = obj[o].refs + Is(o, f)
      BY <1>3, <1>4, <3>3, <3>5, <3>6 DEF Is, In
    <3>8. leaks'[o] = leaks[o]
      BY <1>0
    <3>9. QED
      BY <3>1, <3>3, <3>4, <3>5, <3>6, <3>7, <3>8, SMTT(30)
  <2>2. QED
    BY <1>0, <2>1, RefsFrom
<1>9. QED
  BY <1>4, <1>6, <1>7, <1>8 DEF HInv

\* A call drops its reference.
LEMMA ReleaseKeeps ==
  ASSUME Inv, Inv', HInv, NEW c \in Callers, NowAt(c, NoCall),
         call[c].pc \in {"iov", "iovec", "io", "bind", "listen"},
         obj' = [obj EXCEPT ![call[c].f] = Dropped(call[c].f)], UNCHANGED <<table, ledgers>>
  PROVE  HInv'
<1>0. UNCHANGED <<leaks, lost, twice, raced>>
  BY DEF ledgers
<1>1. PICK f : f = call[c].f
  OBVIOUS
<1>2. call[c] \in Call /\ HoldsAt(call[c])
  BY DEF HInv, Holding, Inv
<1>3. f \in Objects /\ call[c].sock = None
  BY <1>1, <1>2 DEF HoldsAt, Busy, Making, Call
<1>4. NoCall.f = None /\ NoCall.pc = "guest" /\ NoCall.sock = None
  BY DEF NoCall
<1>5. Idle(NoCall) /\ HoldsAt(NoCall)
  BY <1>4, IdleFacts DEF Idle, Busy, Making
<1>6. obj[f].refs \in Int /\ (f \in twice \/ obj[f].refs >= 1 + In(f, Files))
  BY <1>1, <1>3, Referred DEF Inv, HInv
<1>7. /\ obj'[f].refs = obj[f].refs - 1 /\ \A x \in Objects \ {f} : obj'[x] = obj[x]
      /\ \A x \in Objects \ twice : obj'[x].kind = "bare" <=> obj[x].kind = "bare"
      /\ \A x \in Files : obj'[x].pos = obj[x].pos /\ obj'[x].moved = obj[x].moved
      /\ Alive'
  BY <1>0, <1>1, <1>3, <1>6, DroppedFacts, Zenon DEF HInv
<1>8. Files \subseteq Objects /\ Pool \subseteq Objects
  BY DEF Objects
<1>9. Holding' /\ Positions' /\ SocketsOwned'
  BY <1>0, <1>3, <1>4, <1>5, <1>7, <1>8, HoldingFrame, PositionsFrame, SocketsFrame, ZenonT(30) DEF HInv
<1>10. Ledgers'
  BY <1>0 DEF HInv, Ledgers
<1>11. RefsExact'
  <2>1. ASSUME NEW o \in Objects \ twice
        PROVE  obj'[o].refs = leaks'[o] + In(o, Files) + Descs(table', o) + Calls(call', o)
    <3>1. Descs(table', o) = Descs(table, o)
      OBVIOUS
    <3>2. o # NoCall.f
      BY <1>4, HostAssumption
    <3>3. /\ Calls(call, o) \in Nat
          /\ Calls(call', o) = Calls(call, o) + Is(o, NoCall.f) - Is(o, call[c].f)
      BY UsersChange, Zenon DEF NowAt
    <3>4. Calls(call', o) = Calls(call, o) - Is(o, f)
      BY <1>1, <3>2, <3>3 DEF Is, In
    <3>5. /\ Descs(table, o) \in Nat /\ leaks[o] \in Nat
          /\ obj[o].refs = leaks[o] + In(o, Files) + Descs(table, o) + Calls(call, o)
      BY CountTypes, RefsAre DEF HInv, Ledgers
    <3>6. In(o, Files) \in Nat /\ Is(o, f) \in Nat
      BY DEF Is, In
    <3>7. obj'[o].refs = obj[o].refs - Is(o, f)
      BY <1>6, <1>7, <3>3, <3>5, <3>6 DEF Is, In
    <3>8. QED
      BY <1>0, <3>1, <3>3, <3>4, <3>5, <3>6, <3>7, SMTT(30)
  <2>2. QED
    BY <1>0, <2>1, RefsFrom
<1>12. QED
  BY <1>7, <1>9, <1>10, <1>11, Zenon DEF HInv

\* A descriptor changes hands: the table, when an entry that is not reserved
\* becomes x.
LEMMA TableFacts ==
  ASSUME Ledgers, NEW c \in Callers, NEW d \in Fds, NEW x \in Objects \cup {None, Reserved},
         table' = [table EXCEPT ![c][d] = x]
  PROVE  /\ table' \in [Callers -> [Fds -> Objects \cup {None, Reserved}]]
         /\ \A y \in Callers, e \in Fds :
              table'[y][e] = IF y = c /\ e = d THEN x ELSE table[y][e]
BY DEF Ledgers

\* A step that changes no call record is one to the same record.
LEMMA SameRecord ==
  ASSUME Inv, UNCHANGED call, NEW c \in Callers
  PROVE  NowAt(c, call[c])
BY DEF Inv, NowAt

LEMMA CloseKeeps ==
  ASSUME Inv, Inv', HInv, NEW c \in Callers, UNCHANGED call, Idle(call[c]),
         NEW fd \in Fds, NEW f \in Objects, table[c][fd] = f,
         table' = [table EXCEPT ![c][fd] = None], obj' = [obj EXCEPT ![f] = Dropped(f)],
         UNCHANGED ledgers
  PROVE  HInv'
<1>0. UNCHANGED <<leaks, lost, twice, raced>> /\ NowAt(c, call[c])
  BY SameRecord DEF ledgers
<1>1. HoldsAt(call[c]) /\ call[c].pc \notin {"io", "pos", "file"}
  BY IdleFacts
<1>2. None \notin Objects /\ Reserved \notin Objects /\ None # Reserved
  BY HostAssumption DEF None, Reserved
<1>3. /\ table' \in [Callers -> [Fds -> Objects \cup {None, Reserved}]]
      /\ \A y \in Callers, e \in Fds :
           table'[y][e] = IF y = c /\ e = fd THEN None ELSE table[y][e]
  BY TableFacts, ZenonT(30) DEF HInv
<1>4. \A y \in Callers, e \in Fds : table'[y][e] = Reserved <=> table[y][e] = Reserved
  BY <1>2, <1>3
<1>5. obj[f].refs \in Int /\ (f \in twice \/ obj[f].refs >= 1 + In(f, Files))
  BY Referred DEF Inv, HInv
<1>6. /\ obj'[f].refs = obj[f].refs - 1 /\ \A x \in Objects \ {f} : obj'[x] = obj[x]
      /\ \A x \in Objects \ twice : obj'[x].kind = "bare" <=> obj[x].kind = "bare"
      /\ \A x \in Files : obj'[x].pos = obj[x].pos /\ obj'[x].moved = obj[x].moved
      /\ Alive'
  BY <1>0, <1>5, DroppedFacts, Zenon DEF HInv
<1>7. Files \subseteq Objects /\ Pool \subseteq Objects
  BY DEF Objects
<1>8. Holding' /\ Positions' /\ SocketsOwned'
  BY <1>0, <1>1, <1>4, <1>6, <1>7, HoldingFrame, PositionsFrame, SocketsFrame, SMTT(30)
     DEF HInv
<1>9. Ledgers'
  BY <1>0, <1>3 DEF HInv, Ledgers
<1>10. RefsExact'
  <2>1. ASSUME NEW o \in Objects \ twice
        PROVE  obj'[o].refs = leaks'[o] + In(o, Files) + Descs(table', o) + Calls(call', o)
    <3>1. Calls(call', o) = Calls(call, o)
      OBVIOUS
    <3>2. /\ Descs(table, o) \in Nat
          /\ Descs(table', o) = Descs(table, o) + Is(o, None) - Is(o, table[c][fd])
      BY SlotsChange, Zenon DEF HInv
    <3>3. Descs(table', o) = Descs(table, o) - Is(o, f)
      BY <1>2, <3>2 DEF Is, In
    <3>4. /\ Calls(call, o) \in Nat /\ leaks[o] \in Nat
          /\ obj[o].refs = leaks[o] + In(o, Files) + Descs(table, o) + Calls(call, o)
      BY CountTypes, RefsAre, Zenon DEF HInv, Ledgers
    <3>5. In(o, Files) \in Nat /\ Is(o, f) \in Nat
      BY DEF Is, In
    <3>6. obj'[o].refs = obj[o].refs - Is(o, f)
      BY <1>5, <1>6, <3>2, <3>4, <3>5 DEF Is, In
    <3>7. QED
      BY <1>0, <3>1, <3>2, <3>3, <3>4, <3>5, <3>6, SMTT(30)
  <2>2. QED
    BY <1>0, <2>1, RefsFrom, Zenon
<1>11. QED
  BY <1>6, <1>8, <1>9, <1>10 DEF HInv

\* A system call makes an object and its descriptor.
LEMMA NewKeeps ==
  ASSUME Inv, Inv', HInv, NEW c \in Callers, NEW r, NowAt(c, r), Idle(r), Idle(call[c]),
         NEW o \in FreeObjects, NEW d \in Fds, table[c][d] = None, NEW kind \in {"sock", "anon"},
         obj' = [obj EXCEPT ![o] = NewObj(kind)], table' = [table EXCEPT ![c][d] = o],
         UNCHANGED ledgers
  PROVE  HInv'
<1>0. UNCHANGED <<leaks, lost, twice, raced>>
  BY DEF ledgers
<1>1. /\ HoldsAt(r) /\ r.pc \notin {"io", "pos", "file"}
      /\ call[c].pc \notin {"io", "pos", "file"}
      /\ r.sock = call[c].sock /\ r.f = call[c].f
  BY IdleFacts DEF Idle
<1>2. None \notin Objects /\ Reserved \notin Objects /\ None # Reserved
  BY HostAssumption DEF None, Reserved
<1>3. /\ o \in Pool /\ o \in Objects /\ o \notin Files /\ obj[o].kind = "free"
      /\ o \notin twice => obj[o].refs = 0
  BY HostAssumption DEF FreeObjects, Objects, HInv, Alive
<1>4. /\ table' \in [Callers -> [Fds -> Objects \cup {None, Reserved}]]
      /\ \A y \in Callers, e \in Fds :
           table'[y][e] = IF y = c /\ e = d THEN o ELSE table[y][e]
  BY <1>3 DEF HInv, Ledgers
<1>5. \A y \in Callers, e \in Fds : table'[y][e] = Reserved <=> table[y][e] = Reserved
  BY <1>2, <1>3, <1>4
<1>6. /\ \A x \in Objects : x # o => obj'[x] = obj[x]
      /\ obj'[o].refs = 1 /\ obj'[o].kind = kind
  BY <1>3 DEF Inv, NewObj
<1>7. Files \subseteq Objects /\ Pool \subseteq Objects
  BY DEF Objects
<1>8. Alive'
  BY <1>0, <1>2, <1>3, <1>6 DEF HInv, Alive
<1>9. /\ \A x \in Files : obj'[x].pos = obj[x].pos /\ obj'[x].moved = obj[x].moved
      /\ \A x \in Pool \ twice : obj'[x].kind = "bare" <=> obj[x].kind = "bare"
  BY <1>3, <1>6, <1>7, SMTT(30)
<1>10. Holding' /\ Positions' /\ SocketsOwned'
  BY <1>0, <1>1, <1>5, <1>9, HoldingFrame, PositionsFrame, SocketsFrame, ZenonT(30)
     DEF HInv
<1>11. Ledgers'
  BY <1>0, <1>4 DEF HInv, Ledgers
<1>12. RefsExact'
  <2>1. \A x \in Callers : call'[x].f = call[x].f
    BY <1>1, NowAtFacts
  <2>2. ASSUME NEW x \in Objects \ twice
        PROVE  obj'[x].refs = leaks'[x] + In(x, Files) + Descs(table', x) + Calls(call', x)
    <3>1. Calls(call', x) = Calls(call, x)
      BY <2>1 DEF Calls, Users
    <3>2. /\ Descs(table, x) \in Nat
          /\ Descs(table', x) = Descs(table, x) + Is(x, o) - Is(x, table[c][d])
      BY SlotsChange, Zenon DEF HInv
    <3>3. Descs(table', x) = Descs(table, x) + Is(x, o)
      BY <1>2, <3>2 DEF Is
    <3>4. /\ Calls(call, x) \in Nat /\ leaks[x] \in Nat
          /\ obj[x].refs = leaks[x] + In(x, Files) + Descs(table, x) + Calls(call, x)
      BY CountTypes, RefsAre DEF HInv, Ledgers
    <3>5. In(x, Files) \in Nat /\ Is(x, o) \in Nat
      BY DEF Is, In
    <3>6. obj'[x].refs = obj[x].refs + Is(x, o)
      BY <1>3, <1>6, <3>2, <3>4, <3>5, SMTT(30) DEF Is
    <3>7. QED
      BY <1>0, <3>1, <3>2, <3>3, <3>4, <3>5, <3>6, SMTT(30)
  <2>3. QED
    BY <1>0, <2>2, RefsFrom, Zenon
<1>13. QED
  BY <1>8, <1>10, <1>11, <1>12 DEF HInv

\* SocketsOwned, from the makers of one socket and the descriptors.
LEMMA SocketsFrom ==
  /\ \A o \in Pool \ twice' : Makes(call', o) + In(o, lost') = Is(obj'[o].kind, "bare")
  /\ \A x \in Callers, d \in Fds :
       table'[x][d] = Reserved <=> call'[x].pc = "file" /\ call'[x].fd = d
  => SocketsOwned'
BY DEF SocketsOwned, Makes, Makers, Is, In

\* No reference changes.
LEMMA RefsFrame ==
  ASSUME Inv, HInv, NEW c \in Callers, NEW r, NowAt(c, r), r.f = call[c].f,
         leaks' = leaks, twice' = twice, \A o \in Objects \ twice : obj'[o].refs = obj[o].refs,
         \A x \in Callers, d \in Fds :
           \/ table'[x][d] = table[x][d]
           \/ table'[x][d] \notin Objects /\ table[x][d] \notin Objects
  PROVE  RefsExact'
<1>1. \A x \in Callers : call'[x].f = call[x].f
  BY NowAtFacts
<1>2. ASSUME NEW o \in Objects \ twice
      PROVE  obj'[o].refs = leaks'[o] + In(o, Files) + Descs(table', o) + Calls(call', o)
  <2>1. Slots(table', o) = Slots(table, o) /\ Users(call', o) = Users(call, o)
    BY <1>1 DEF Slots, Users
  <2>2. obj[o].refs = leaks[o] + In(o, Files) + Descs(table, o) + Calls(call, o)
    BY RefsAre DEF HInv
  <2>3. QED
    BY <2>1, <2>2, SMTT(30) DEF Descs, Calls
<1>3. QED
  BY <1>2, RefsFrom

\* __net_socket has a socket.
LEMMA CreateKeeps ==
  ASSUME Inv, Inv', HInv, NEW c \in Callers, NEW r, NowAt(c, r), Idle(call[c]),
         NEW o \in FreeObjects, r.sock = o, r.pc = "fd", r.f = None,
         obj' = [obj EXCEPT ![o].kind = "bare"], UNCHANGED <<table, ledgers>>
  PROVE  HInv'
<1>0. UNCHANGED <<leaks, lost, twice, raced>>
  BY DEF ledgers
<1>1. /\ r.pc \notin {"io", "pos", "file"} /\ call[c].pc \notin {"io", "pos", "file"}
      /\ r.f = call[c].f /\ call[c].sock = None
  BY IdleFacts DEF Idle
<1>2. /\ o \in Pool /\ o \in Objects /\ o \notin Files /\ obj[o].kind = "free"
      /\ Files \subseteq Objects /\ Pool \subseteq Objects /\ None \notin Pool
  BY HostAssumption DEF FreeObjects, Objects
<1>3. HoldsAt(r)
  BY <1>2, HostAssumption DEF HoldsAt, Busy, Making
<1>4. /\ \A x \in Objects : x # o => obj'[x] = obj[x]
      /\ obj'[o].refs = obj[o].refs /\ obj'[o].kind = "bare"
  BY <1>2 DEF Inv
<1>5. Alive'
  BY <1>0, <1>2, <1>4 DEF HInv, Alive
<1>6. \A x \in Files : obj'[x].pos = obj[x].pos /\ obj'[x].moved = obj[x].moved
  BY <1>2, <1>4
<1>7. Holding' /\ Positions'
  BY <1>0, <1>1, <1>3, <1>6, HoldingFrame, PositionsFrame DEF HInv
<1>8. Ledgers'
  BY <1>0 DEF HInv, Ledgers
<1>9. RefsExact'
  <2>1. \A x \in Objects : obj'[x].refs = obj[x].refs
    BY <1>4
  <2>2. QED
    BY <1>0, <1>1, <2>1, RefsFrame
<1>10. SocketsOwned'
  <2>1. ASSUME NEW x \in Pool \ twice PROVE Makes(call', x) + In(x, lost') = Is(obj'[x].kind, "bare")
    <3>1. /\ Makes(call, x) \in Nat
          /\ Makes(call', x) = Makes(call, x) + Is(x, r.sock) - Is(x, call[c].sock)
      BY MakersChange, Zenon DEF NowAt
    <3>2. Makes(call', x) = Makes(call, x) + Is(x, o)
      <4>1. Is(x, call[c].sock) = 0 /\ Is(x, r.sock) = Is(x, o) /\ Is(x, o) \in Nat
        BY <1>1, <1>2, Zenon DEF Is
      <4>2. QED
        BY <3>1, <4>1
    <3>3. Makes(call, x) + In(x, lost) = Is(obj[x].kind, "bare")
      BY SocketsAre DEF HInv
    <3>4. QED
      BY <1>0, <1>2, <1>4, <3>1, <3>2, <3>3 DEF Is, In
  <2>2. \A x \in Callers, d \in Fds :
          table'[x][d] = Reserved <=> call'[x].pc = "file" /\ call'[x].fd = d
    BY <1>1, NowAtFacts, SocketsAre DEF HInv
  <2>3. QED
    BY <1>0, <2>1, <2>2, SocketsFrom
<1>11. QED
  BY <1>5, <1>7, <1>8, <1>9, <1>10 DEF HInv

\* ... a descriptor ...
LEMMA ReserveKeeps ==
  ASSUME Inv, Inv', HInv, NEW c \in Callers, call[c].pc = "fd", NEW d \in Fds,
         table[c][d] = None, table' = [table EXCEPT ![c][d] = Reserved],
         NowAt(c, [call[c] EXCEPT !.pc = "file", !.fd = d]), UNCHANGED <<obj, ledgers>>
  PROVE  HInv'
<1>0. UNCHANGED <<leaks, lost, twice, raced>>
  BY DEF ledgers
<1>1. PICK r : r = [call[c] EXCEPT !.pc = "file", !.fd = d]
  OBVIOUS
<1>2. call[c] \in Call /\ HoldsAt(call[c])
  BY DEF HInv, Holding, Inv
<1>3. /\ r.pc = "file" /\ r.fd = d /\ r.f = call[c].f /\ r.sock = call[c].sock
      /\ NowAt(c, r)
  BY <1>1, <1>2 DEF Call
<1>4. HoldsAt(r)
  BY <1>2, <1>3 DEF HoldsAt, Busy, Making, Transferring
<1>5. None \notin Objects /\ Reserved \notin Objects /\ None # Reserved
  BY HostAssumption DEF None, Reserved
<1>6. /\ table' \in [Callers -> [Fds -> Objects \cup {None, Reserved}]]
      /\ \A y \in Callers, e \in Fds :
           table'[y][e] = IF y = c /\ e = d THEN Reserved ELSE table[y][e]
  BY TableFacts, ZenonT(30) DEF HInv
<1>7. Holding' /\ Positions'
  BY <1>0, <1>3, <1>4, HoldingFrame, PositionsFrame DEF HInv
<1>8. Ledgers' /\ Alive'
  BY <1>0, <1>6 DEF HInv, Ledgers, Alive
<1>9. RefsExact'
  BY <1>0, <1>3, <1>5, <1>6, RefsFrame
<1>10. SocketsOwned'
  <2>1. ASSUME NEW x \in Pool \ twice PROVE Makes(call', x) + In(x, lost') = Is(obj'[x].kind, "bare")
    <3>0. call' = [call EXCEPT ![c] = r]
      BY <1>3, Zenon DEF NowAt
    <3>1. /\ Makes(call, x) \in Nat
          /\ Makes(call', x) = Makes(call, x) + Is(x, r.sock) - Is(x, call[c].sock)
      BY <3>0, MakersChange, Zenon
    <3>2. Is(x, r.sock) = Is(x, call[c].sock) /\ Is(x, r.sock) \in Nat
      BY <1>3 DEF Is
    <3>3. Makes(call', x) = Makes(call, x)
      BY <3>1, <3>2
    <3>4. QED
      BY <1>0, <3>3, SocketsAre DEF HInv
  <2>2. ASSUME NEW x \in Callers, NEW e \in Fds
        PROVE  table'[x][e] = Reserved <=> call'[x].pc = "file" /\ call'[x].fd = e
    <3>1. call'[x] = IF x = c THEN r ELSE call[x]
      BY <1>3, NowAtFacts
    <3>2. table[x][e] = Reserved <=> call[x].pc = "file" /\ call[x].fd = e
      BY SocketsAre DEF HInv
    <3>3. QED
      BY <1>3, <1>5, <1>6, <3>1, <3>2
  <2>3. QED
    BY <1>0, <2>1, <2>2, SocketsFrom
<1>11. QED
  BY <1>7, <1>8, <1>9, <1>10 DEF HInv

\* ... or none, and the socket is lost ...
LEMMA LoseKeeps ==
  ASSUME Inv, Inv', HInv, NEW c \in Callers, call[c].pc = "fd",
         lost' = lost \cup {call[c].sock}, NowAt(c, NoCall),
         UNCHANGED <<obj, table, leaks, twice, raced>>
  PROVE  HInv'
<1>1. PICK o : o = call[c].sock
  OBVIOUS
<1>2. call[c] \in Call /\ HoldsAt(call[c])
  BY DEF HInv, Holding, Inv
<1>3. o \in Pool /\ call[c].f = None
  BY <1>1, <1>2, ZenonT(30) DEF HoldsAt, Busy, Making, Transferring, Call
<1>4. /\ NoCall.f = None /\ NoCall.pc = "guest" /\ NoCall.sock = None
      /\ None \notin Pool
  BY HostAssumption DEF NoCall, Objects
<1>5. HoldsAt(NoCall)
  BY <1>4, IdleFacts DEF Idle, Busy, Making
<1>6. Holding' /\ Positions'
  BY <1>3, <1>4, <1>5, HoldingFrame, PositionsFrame, ZenonT(30) DEF HInv
<1>7. Ledgers' /\ Alive'
  BY <1>1, <1>3, ZenonT(30) DEF HInv, Ledgers, Alive
<1>8. RefsExact'
  BY <1>3, <1>4, RefsFrame
<1>9. SocketsOwned'
  <2>1. ASSUME NEW x \in Pool \ twice PROVE Makes(call', x) + In(x, lost') = Is(obj'[x].kind, "bare")
    <3>1. /\ Makes(call, x) \in Nat /\ Makes(call', x) \in Nat
          /\ Makes(call', x) = Makes(call, x) + Is(x, NoCall.sock) - Is(x, call[c].sock)
      BY MakersChange, Zenon DEF NowAt
    <3>2. Is(x, NoCall.sock) = 0 /\ Is(x, call[c].sock) = Is(x, o)
      BY <1>1, <1>4, SMTT(30) DEF Is
    <3>3. Makes(call', x) = Makes(call, x) - Is(x, o)
      BY <3>1, <3>2 DEF Is
    <3>4. Makes(call, x) + In(x, lost) = Is(obj[x].kind, "bare")
      BY SocketsAre DEF HInv
    <3>5. x = o => x \notin lost
      BY <3>1, <3>3, <3>4 DEF Is, In
    <3>6. In(x, lost') = In(x, lost) + Is(x, o)
      BY <1>1, <3>5 DEF Is, In
    <3>7. In(x, lost) \in Nat /\ Is(x, o) \in Nat
      BY DEF Is, In
    <3>8. QED
      BY <3>1, <3>3, <3>4, <3>6, <3>7
  <2>2. \A x \in Callers, d \in Fds :
          table'[x][d] = Reserved <=> call'[x].pc = "file" /\ call'[x].fd = d
    BY <1>4, NowAtFacts, SocketsAre DEF HInv
  <2>3. QED
    BY <2>1, <2>2, SocketsFrom, ZenonT(30)
<1>10. QED
  BY <1>6, <1>7, <1>8, <1>9 DEF HInv

\* ... and a file, ...
LEMMA FileKeeps ==
  ASSUME Inv, Inv', HInv, NEW c \in Callers, call[c].pc = "file", NowAt(c, NoCall),
         NEW o, NEW d, call[c].sock = o, call[c].fd = d,
         table' = [table EXCEPT ![c][d] = o], obj' = [obj EXCEPT ![o] = NewObj("sock")],
         UNCHANGED ledgers
  PROVE  HInv'
<1>0. UNCHANGED <<leaks, lost, twice, raced>>
  BY DEF ledgers
<1>2. call[c] \in Call /\ HoldsAt(call[c])
  BY DEF HInv, Holding, Inv
<1>3. o \in Pool /\ call[c].f = None /\ d \in Fds
  BY <1>2 DEF HoldsAt, Busy, Making, Call
<1>4. /\ NoCall.f = None /\ NoCall.pc = "guest" /\ NoCall.sock = None
      /\ None \notin Objects /\ Reserved \notin Objects /\ None # Reserved
      /\ Pool \subseteq Objects /\ Files \subseteq Objects /\ Files \cap Pool = {}
  BY HostAssumption DEF NoCall, Objects, None, Reserved
<1>5. HoldsAt(NoCall)
  BY <1>4, IdleFacts DEF Idle, Busy, Making
<1>6. \A y \in Callers, e \in Fds :
        table[y][e] = Reserved <=> call[y].pc = "file" /\ call[y].fd = e
  BY SocketsAre DEF HInv
<1>7. table[c][d] = Reserved
  BY <1>3, <1>6
<1>8. ASSUME o \notin twice
      PROVE  Makes(call, o) = 1 /\ In(o, lost) = 0 /\ obj[o].kind = "bare" /\ obj[o].refs = 0
  <2>1. c \in Makers(call, o)
    BY DEF Makers
  <2>2. /\ Makes(call, o) \in Nat /\ Makes(call, o) # 0
        /\ Makes(call, o) + In(o, lost) = Is(obj[o].kind, "bare")
    BY <1>3, <1>8, <2>1, CountTypes, FS_EmptySet, SocketsAre DEF Makes, HInv
  <2>3. obj[o].kind = "bare" /\ Makes(call, o) = 1 /\ In(o, lost) = 0
    BY <2>2 DEF Is, In
  <2>4. QED
    BY <1>3, <1>4, <1>8, <2>3 DEF HInv, Alive
<1>11. /\ table' \in [Callers -> [Fds -> Objects \cup {None, Reserved}]]
       /\ \A y \in Callers, e \in Fds :
            table'[y][e] = IF y = c /\ e = d THEN o ELSE table[y][e]
  <2>1. o \in Objects \cup {None, Reserved} /\ Ledgers
    BY <1>3, <1>4 DEF HInv
  <2>2. QED
    BY <1>3, <2>1 DEF Ledgers
<1>12. /\ \A y \in Objects : y # o => obj'[y] = obj[y]
       /\ obj'[o].refs = 1 /\ obj'[o].kind = "sock"
  BY <1>3, <1>4 DEF Inv, NewObj
<1>13. Alive'
  BY <1>0, <1>3, <1>4, <1>12 DEF HInv, Alive
<1>14. \A y \in Files : obj'[y].pos = obj[y].pos /\ obj'[y].moved = obj[y].moved
  BY <1>3, <1>4, <1>12
<1>15. Holding' /\ Positions'
  BY <1>0, <1>3, <1>4, <1>5, <1>14, HoldingFrame, PositionsFrame, ZenonT(30) DEF HInv
<1>16. Ledgers'
  BY <1>0, <1>11 DEF HInv, Ledgers
<1>17. RefsExact'
  <2>1. \A y \in Callers : call'[y].f = call[y].f
    BY <1>3, <1>4, NowAtFacts
  <2>2. ASSUME NEW y \in Objects \ twice
        PROVE  obj'[y].refs = leaks'[y] + In(y, Files) + Descs(table', y) + Calls(call', y)
    <3>1. Calls(call', y) = Calls(call, y)
      BY <2>1, Zenon DEF Calls, Users
    <3>2. /\ Descs(table, y) \in Nat
          /\ Descs(table', y) = Descs(table, y) + Is(y, o) - Is(y, table[c][d])
      <4>1. Ledgers
        BY DEF HInv
      <4>2. QED
        BY <1>3, <4>1, SlotsChange, ZenonT(30)
    <3>3. Descs(table', y) = Descs(table, y) + Is(y, o)
      BY <1>4, <1>7, <3>2 DEF Is
    <3>4. /\ Calls(call, y) \in Nat /\ leaks[y] \in Nat
          /\ obj[y].refs = leaks[y] + In(y, Files) + Descs(table, y) + Calls(call, y)
      BY CountTypes, RefsAre DEF HInv, Ledgers
    <3>5. In(y, Files) \in Nat /\ Is(y, o) \in Nat
      BY DEF Is, In
    <3>6. obj'[y].refs = obj[y].refs + Is(y, o)
      <4>1. CASE y = o
        BY <1>8, <1>12, <4>1 DEF Is
      <4>2. CASE y # o
        BY <1>12, <3>2, <3>4, <3>5, <4>2 DEF Is
      <4>3. QED
        BY <4>1, <4>2
    <3>7. QED
      BY <1>0, <3>1, <3>2, <3>3, <3>4, <3>5, <3>6, SMTT(30)
  <2>3. QED
    BY <1>0, <2>2, RefsFrom, Zenon
<1>18. SocketsOwned'
  <2>1. ASSUME NEW y \in Pool \ twice
        PROVE  Makes(call', y) + In(y, lost') = Is(obj'[y].kind, "bare")
    <3>1. /\ Makes(call, y) \in Nat /\ Makes(call', y) \in Nat
          /\ Makes(call', y) = Makes(call, y) + Is(y, NoCall.sock) - Is(y, call[c].sock)
      BY MakersChange, Zenon DEF NowAt
    <3>2. Is(y, NoCall.sock) = 0 /\ Is(y, call[c].sock) = Is(y, o)
      BY <1>4 DEF Is
    <3>3. Makes(call', y) = Makes(call, y) - Is(y, o)
      BY <3>1, <3>2 DEF Is
    <3>4. Makes(call, y) + In(y, lost) = Is(obj[y].kind, "bare")
      BY SocketsAre DEF HInv
    <3>5. CASE y = o
      <4>1. Makes(call', o) = 0 /\ In(o, lost') = 0
        BY <1>0, <1>8, <3>3, <3>5 DEF Is
      <4>2. Is(obj'[o].kind, "bare") = 0
        BY <1>12 DEF Is
      <4>3. QED
        BY <3>5, <4>1, <4>2, SMTT(30)
    <3>6. CASE y # o
      <4>1. obj'[y] = obj[y]
        BY <1>4, <1>12, <3>6
      <4>2. Is(y, o) = 0
        BY <3>6 DEF Is
      <4>3. QED
        BY <1>0, <3>1, <3>3, <3>4, <4>1, <4>2, SMTT(30)
    <3>7. QED
      BY <3>5, <3>6
  <2>2. ASSUME NEW y \in Callers, NEW e \in Fds
        PROVE  table'[y][e] = Reserved <=> call'[y].pc = "file" /\ call'[y].fd = e
    <3>1. call'[y] = IF y = c THEN NoCall ELSE call[y]
      BY NowAtFacts
    <3>2. o # Reserved
      BY <1>3, <1>4
    <3>3. QED
      BY <1>4, <1>6, <1>11, <3>1, <3>2
  <2>3. QED
    BY <1>0, <2>1, <2>2, SocketsFrom
<1>19. QED
  BY <1>13, <1>15, <1>16, <1>17, <1>18, SMTT(30) DEF HInv

\* ... or none: the socket is released and its descriptor is given back.
LEMMA FileFailsKeeps ==
  ASSUME Inv, Inv', HInv, NEW c \in Callers, call[c].pc = "file",
         NEW o, NEW d, call[c].sock = o, call[c].fd = d,
         NowAt(c, [call[c] EXCEPT !.pc = "release"]), table' = [table EXCEPT ![c][d] = None],
         obj' = [obj EXCEPT ![o] = FreeObj], twice' = twice \cup {o},
         UNCHANGED <<leaks, lost, raced>>
  PROVE  HInv'
<1>1. PICK r : r = [call[c] EXCEPT !.pc = "release"]
  OBVIOUS
<1>2. call[c] \in Call /\ HoldsAt(call[c])
  BY DEF HInv, Holding, Inv
<1>3. /\ r.pc = "release" /\ r.fd = d /\ r.f = call[c].f /\ r.sock = o /\ NowAt(c, r)
  BY <1>1, <1>2 DEF Call
<1>4. o \in Pool /\ call[c].f = None /\ d \in Fds
  BY <1>2 DEF HoldsAt, Busy, Making, Call
<1>5. /\ None \notin Objects /\ Reserved \notin Objects /\ None # Reserved
      /\ Pool \subseteq Objects /\ Files \subseteq Objects /\ Files \cap Pool = {}
  BY HostAssumption DEF Objects, None, Reserved
<1>6. \A y \in Callers : call'[y] = IF y = c THEN r ELSE call[y]
  BY <1>3, NowAtFacts
<1>7. \A y \in Callers, e \in Fds :
        table[y][e] = Reserved <=> call[y].pc = "file" /\ call[y].fd = e
  BY SocketsAre DEF HInv
<1>8. /\ table' \in [Callers -> [Fds -> Objects \cup {None, Reserved}]]
      /\ \A y \in Callers, e \in Fds :
           table'[y][e] = IF y = c /\ e = d THEN None ELSE table[y][e]
  BY <1>4, TableFacts, ZenonT(30) DEF HInv
<1>9. \A y \in Objects : y # o => obj'[y] = obj[y]
  BY <1>4, <1>5 DEF Inv
<1>10. Ledgers'
  BY <1>4, <1>8 DEF HInv, Ledgers
<1>11. Alive'
  <2>1. \A y \in Objects \ twice' : obj'[y] = obj[y] /\ y \in Objects \ twice
    BY <1>9
  <2>2. \A y \in Files : obj'[y] = obj[y]
    BY <1>4, <1>5, <1>9
  <2>3. QED
    BY <2>1, <2>2 DEF HInv, Alive
<1>12. Holding'
  <2>1. ASSUME NEW y \in Callers PROVE HoldsAt(call[y])'
    <3>1. CASE y = c
      <4>1. call'[y] = r
        BY <1>6, <3>1
      <4>2. r.f \notin Objects /\ r.sock \in Pool /\ r.sock \in twice'
        BY <1>3, <1>4, <1>5
      <4>3. QED
        BY <1>3, <4>1, <4>2 DEF HoldsAt, Busy, Making
    <3>2. CASE y # c
      <4>1. call'[y] = call[y] /\ HoldsAt(call[y])
        BY <1>6, <3>2 DEF HInv, Holding
      <4>2. QED
        BY <4>1 DEF HoldsAt
    <3>3. QED
      BY <3>1, <3>2
  <2>2. QED
    BY <2>1 DEF Holding
<1>13. Positions'
  <2>1. \A y \in Files : obj'[y].pos = obj[y].pos /\ obj'[y].moved = obj[y].moved
    BY <1>4, <1>5, <1>9
  <2>2. QED
    BY <1>3, <2>1, PositionsFrame, ZenonT(30) DEF HInv
<1>14. RefsExact'
  <2>1. \A x \in Callers : call'[x].f = call[x].f
    BY <1>3, <1>6
  <2>2. ASSUME NEW y \in Objects \ twice'
        PROVE  obj'[y].refs = leaks'[y] + In(y, Files) + Descs(table', y) + Calls(call', y)
    <3>1. y \in Objects /\ y \notin twice /\ y # o /\ y # None /\ y # Reserved
      BY <1>5
    <3>2. \A x \in Callers, e \in Fds : table'[x][e] = y <=> table[x][e] = y
      BY <1>4, <1>7, <1>8, <3>1
    <3>3. Slots(table', y) = Slots(table, y) /\ Users(call', y) = Users(call, y)
      BY <2>1, <3>2 DEF Slots, Users
    <3>4. obj[y].refs = leaks[y] + In(y, Files) + Descs(table, y) + Calls(call, y)
      BY <3>1, RefsAre DEF HInv
    <3>5. QED
      BY <1>9, <3>1, <3>3, <3>4 DEF Descs, Calls
  <2>3. QED
    BY <2>2, RefsFrom, Zenon
<1>15. SocketsOwned'
  <2>1. ASSUME NEW y \in Pool \ twice'
        PROVE  Makes(call', y) + In(y, lost') = Is(obj'[y].kind, "bare")
    <3>1. y \in Pool \ twice /\ obj'[y] = obj[y]
      BY <1>5, <1>9
    <3>2. Makers(call', y) = Makers(call, y)
      BY <1>3, <1>6 DEF Makers
    <3>3. Makes(call, y) + In(y, lost) = Is(obj[y].kind, "bare")
      BY <3>1, SocketsAre DEF HInv
    <3>4. QED
      BY <3>1, <3>2, <3>3 DEF Makes
  <2>2. ASSUME NEW y \in Callers, NEW e \in Fds
        PROVE  table'[y][e] = Reserved <=> call'[y].pc = "file" /\ call'[y].fd = e
    BY <1>3, <1>5, <1>6, <1>7, <1>8
  <2>3. QED
    BY <2>1, <2>2, SocketsFrom
<1>16. QED
  BY <1>10, <1>11, <1>12, <1>13, <1>14, <1>15 DEF HInv

\* The second release of a socket, when the call survives it.
LEMMA SockReleaseKeeps ==
  ASSUME Inv, Inv', HInv, NEW c \in Callers, call[c].pc = "release", NowAt(c, NoCall),
         NEW o, call[c].sock = o, obj' \in {obj, [obj EXCEPT ![o] = FreeObj]},
         UNCHANGED <<table, ledgers>>
  PROVE  HInv'
<1>0. UNCHANGED <<leaks, lost, twice, raced>>
  BY DEF ledgers
<1>1. call[c] \in Call /\ HoldsAt(call[c])
  BY DEF HInv, Holding, Inv
<1>2. o \in Pool /\ o \in twice /\ call[c].f = None
  BY <1>1 DEF HoldsAt, Busy, Making, Call
<1>3. /\ NoCall.f = None /\ NoCall.pc = "guest" /\ NoCall.sock = None /\ None \notin Objects
      /\ Pool \subseteq Objects /\ Files \subseteq Objects /\ Files \cap Pool = {}
  BY HostAssumption DEF NoCall, Objects
<1>4. HoldsAt(NoCall)
  BY <1>3, IdleFacts DEF Idle, Busy, Making
<1>5. \A y \in Objects : y # o => obj'[y] = obj[y]
  BY <1>2, <1>3 DEF Inv
<1>6. /\ \A y \in Objects \ twice : obj'[y] = obj[y]
      /\ \A y \in Files : obj'[y] = obj[y]
  BY <1>2, <1>3, <1>5
<1>7. Ledgers' /\ Alive'
  BY <1>0, <1>6 DEF HInv, Ledgers, Alive
<1>8. Holding' /\ Positions'
  BY <1>0, <1>3, <1>4, <1>6, HoldingFrame, PositionsFrame, ZenonT(30) DEF HInv
<1>9. RefsExact'
  BY <1>0, <1>2, <1>3, <1>6, RefsFrame
<1>10. SocketsOwned'
  <2>1. \A y \in Pool \ twice : /\ NoCall.sock = y <=> call[c].sock = y
                                /\ obj'[y].kind = "bare" <=> obj[y].kind = "bare"
    BY <1>2, <1>3, <1>6
  <2>2. QED
    BY <1>0, <1>3, <2>1, SocketsSame, ZenonT(30) DEF HInv
<1>11. QED
  BY <1>7, <1>8, <1>9, <1>10 DEF HInv

\* The next iovec.
LEMMA IovKeeps ==
  ASSUME Inv, Inv', HInv, NEW c \in Callers, call[c].pc = "iov",
         NEW r, NowAt(c, r), r.pc = "iovec", r.f = call[c].f, r.sock = call[c].sock,
         UNCHANGED <<obj, table, ledgers>>
  PROVE  HInv'
<1>0. UNCHANGED <<leaks, lost, twice, raced>>
  BY DEF ledgers
<1>1. call[c] \in Call /\ HoldsAt(call[c])
  BY DEF HInv, Holding, Inv
<1>2. HoldsAt(r)
  BY <1>1 DEF HoldsAt, Busy, Making
<1>3. Holding' /\ Positions' /\ SocketsOwned'
  BY <1>0, <1>2, HoldingFrame, PositionsFrame, SocketsFrame DEF HInv
<1>4. RefsExact'
  BY <1>0, RefsFrame
<1>5. QED
  BY <1>0, <1>3, <1>4 DEF HInv, Ledgers, Alive

\* Its buffer: the call reads the position of its file.
LEMMA BufKeeps ==
  ASSUME Inv, Inv', HInv, NEW c \in Callers, call[c].pc = "iovec", NEW f, call[c].f = f,
         NEW r, NowAt(c, r), r.pc = "io", r.pos = obj[f].pos, r.f = f,
         r.sock = call[c].sock,
         raced' = IF InUse(c, f) THEN raced \cup {f} ELSE raced,
         UNCHANGED <<obj, table, leaks, lost, twice>>
  PROVE  HInv'
<1>1. call[c] \in Call /\ HoldsAt(call[c])
  BY ZenonT(30) DEF HInv, Holding, Inv
<1>2. HoldsAt(r)
  BY <1>1 DEF HoldsAt, Busy, Making, Transferring
<1>3. Holding' /\ SocketsOwned'
  BY <1>2, HoldingFrame, SocketsFrame, Zenon DEF HInv
<1>4. Ledgers' /\ Alive' /\ RefsExact'
  <2>1. RefsExact'
    BY RefsFrame, Zenon
  <2>2. QED
    BY <2>1 DEF HInv, Ledgers, Alive
<1>5. \A x \in Callers : call'[x] = IF x = c THEN r ELSE call[x]
  BY NowAtFacts, ZenonT(30)
<1>6. Positions'
  <2> SUFFICES ASSUME NEW o \in Files
               PROVE  (/\ obj[o].pos <= obj[o].moved
                       /\ \A x \in Callers : Uses(x, o) => call[x].pos <= obj[o].moved
                       /\ o \notin raced =>
                            /\ \A x, y \in Callers : Uses(x, o) /\ Uses(y, o) => x = y
                            /\ \A x \in Callers : Uses(x, o) => call[x].pos = obj[o].moved
                            /\ (\A x \in Callers : Uses(x, o) => call[x].pc # "pos")
                                 => obj[o].pos = obj[o].moved)'
    BY DEF Positions
  <2>1. \A x \in Callers : x # c => (Uses(x, o)' <=> Uses(x, o)) /\ call'[x] = call[x]
    BY <1>5 DEF Uses
  <2>2. ~Uses(c, o) /\ (Uses(c, o)' <=> o = f) /\ call'[c] = r
    BY <1>5 DEF Uses
  <2>3. obj[o].pos <= obj[o].moved
    BY DEF HInv, Positions
  <2>4. ASSUME o = f, o \notin raced' PROVE \A x \in Callers : ~Uses(x, o)
    <3>1. ~InUse(c, f)
      BY <2>4
    <3>2. QED
      BY <2>2, <2>4, <3>1 DEF InUse, Uses
  <2>5. o \notin raced' => o \notin raced
    BY SMTT(30)
  <2>6. ASSUME NEW x \in Callers, Uses(x, o)' PROVE call'[x].pos <= obj'[o].moved
    BY <2>1, <2>2, <2>3, <2>6, ZenonT(30) DEF HInv, Positions
  <2>7. ASSUME o \notin raced', NEW x \in Callers, NEW y \in Callers, Uses(x, o)', Uses(y, o)'
        PROVE  x = y
    BY <2>1, <2>2, <2>4, <2>5, <2>7, ZenonT(30) DEF HInv, Positions
  <2>8. o \notin raced' /\ o = f => obj[o].pos = obj[o].moved
    BY <2>4, <2>5 DEF HInv, Positions
  <2>9. ASSUME o \notin raced', NEW x \in Callers, Uses(x, o)' PROVE call'[x].pos = obj'[o].moved
    BY <2>1, <2>2, <2>5, <2>8, <2>9, ZenonT(30) DEF HInv, Positions
  <2>10. ASSUME o \notin raced', \A x \in Callers : Uses(x, o)' => call'[x].pc # "pos"
         PROVE  obj'[o].pos = obj'[o].moved
    <3>1. \A x \in Callers : Uses(x, o) => call[x].pc # "pos"
      BY <2>1, <2>2, <2>10, ZenonT(30)
    <3>2. obj[o].pos = obj[o].moved
      BY <2>5, <2>10, <3>1, ZenonT(30) DEF HInv, Positions
    <3>3. QED
      BY <2>1, <2>2, <3>2
  <2>11. QED
    BY <2>3, <2>6, <2>7, <2>9, <2>10, ZenonT(30)
<1>7. QED
  BY <1>3, <1>4, <1>6, Zenon DEF HInv

\* The data moves: the file and the call count it.
LEMMA MoveKeeps ==
  ASSUME Inv, Inv', HInv, NEW c \in Callers, call[c].pc = "io", NEW f, call[c].f = f,
         NEW ret \in Nat, NEW r, NowAt(c, r), r.pc = "pos", r.f = f, r.sock = call[c].sock,
         r.pos = (IF obj[f].kind = "file" THEN call[c].pos + ret ELSE call[c].pos),
         obj' = [obj EXCEPT ![f].moved = @ + ret], UNCHANGED <<table, ledgers>>
  PROVE  HInv'
<1>0. UNCHANGED <<leaks, lost, twice, raced>>
  BY DEF ledgers
<1>1. call[c] \in Call /\ HoldsAt(call[c])
  BY DEF HInv, Holding, Inv
<1>2. HoldsAt(r) /\ f \in Objects
  BY <1>1 DEF HoldsAt, Busy, Making, Transferring
<1>3. Holding'
  BY <1>0, <1>2, HoldingFrame DEF HInv
<1>4. /\ \A x \in Objects : /\ obj'[x].kind = obj[x].kind /\ obj'[x].refs = obj[x].refs
                            /\ obj'[x].pos = obj[x].pos
                            /\ obj[x].moved \in Nat /\ obj[x].pos \in Nat
                            /\ obj'[x].moved = IF x = f THEN obj[x].moved + ret ELSE obj[x].moved
  BY <1>2 DEF Inv
<1>5. Pool \subseteq Objects /\ Files \subseteq Objects
  BY DEF Objects
<1>6. SocketsOwned'
  BY <1>0, <1>4, <1>5, SocketsFrame DEF HInv
<1>7. RefsExact'
  BY <1>0, <1>4, RefsFrame
<1>8. Ledgers' /\ Alive'
  BY <1>0, <1>4, <1>5 DEF HInv, Ledgers, Alive
<1>9. \A x \in Callers : call'[x] = IF x = c THEN r ELSE call[x]
  BY NowAtFacts
<1>10. Positions'
  <2> SUFFICES ASSUME NEW o \in Files
               PROVE  (/\ obj[o].pos <= obj[o].moved
                       /\ \A x \in Callers : Uses(x, o) => call[x].pos <= obj[o].moved
                       /\ o \notin raced =>
                            /\ \A x, y \in Callers : Uses(x, o) /\ Uses(y, o) => x = y
                            /\ \A x \in Callers : Uses(x, o) => call[x].pos = obj[o].moved
                            /\ (\A x \in Callers : Uses(x, o) => call[x].pc # "pos")
                                 => obj[o].pos = obj[o].moved)'
    BY DEF Positions
  <2>0. call[c].pos \in Nat /\ obj[o].kind = "file" /\ \A x \in Callers : call[x].pos \in Nat
    BY <1>5 DEF HInv, Alive, Inv, Call
  <2>1. \A x \in Callers : x # c => (Uses(x, o)' <=> Uses(x, o)) /\ call'[x] = call[x]
    BY <1>9 DEF Uses
  <2>2. /\ Uses(c, o) <=> o = f
        /\ Uses(c, o)' <=> o = f
        /\ call'[c].pc = "pos" /\ call'[c].pos = r.pos
        /\ o = f => call'[c].pos = call[c].pos + ret
    BY <1>9, <2>0 DEF Uses
  <2>3. /\ obj'[o].pos = obj[o].pos /\ obj[o].moved \in Nat /\ obj[o].pos \in Nat
        /\ obj'[o].moved = IF o = f THEN obj[o].moved + ret ELSE obj[o].moved
    BY <1>4, <1>5
  <2>4. obj[o].pos <= obj[o].moved
    BY DEF HInv, Positions
  <2>5. obj'[o].pos <= obj'[o].moved
    BY <2>3, <2>4
  <2>6. ASSUME NEW x \in Callers, Uses(x, o)' PROVE call'[x].pos <= obj'[o].moved
    <3>1. Uses(x, o)
      BY <2>1, <2>2, <2>6
    <3>2. call[x].pos <= obj[o].moved
      BY <3>1 DEF HInv, Positions
    <3>3. QED
      BY <2>0, <2>1, <2>2, <2>3, <2>6, <3>2, SMTT(30)
  <2>7. ASSUME o \notin raced', NEW x \in Callers, NEW y \in Callers, Uses(x, o)', Uses(y, o)'
        PROVE  x = y
    <3>1. Uses(x, o) /\ Uses(y, o)
      BY <2>1, <2>2, <2>7
    <3>2. QED
      BY <1>0, <2>7, <3>1 DEF HInv, Positions
  <2>8. ASSUME o \notin raced', NEW x \in Callers, Uses(x, o)' PROVE call'[x].pos = obj'[o].moved
    <3>1. Uses(x, o)
      BY <2>1, <2>2, <2>8
    <3>2. call[x].pos = obj[o].moved
      BY <1>0, <2>8, <3>1 DEF HInv, Positions
    <3>3. o = f => x = c
      BY <1>0, <2>2, <2>8, <3>1 DEF HInv, Positions
    <3>4. QED
      BY <2>0, <2>1, <2>2, <2>3, <2>8, <3>2, <3>3, ZenonT(30)
  <2>9. ASSUME o \notin raced', \A x \in Callers : Uses(x, o)' => call'[x].pc # "pos"
        PROVE  obj'[o].pos = obj'[o].moved
    <3>1. o # f
      BY <2>2, <2>9
    <3>2. \A x \in Callers : Uses(x, o) => call[x].pc # "pos"
      BY <2>1, <2>2, <2>9, <3>1
    <3>3. obj[o].pos = obj[o].moved
      BY <1>0, <2>9, <3>2 DEF HInv, Positions
    <3>4. QED
      BY <2>3, <3>1, <3>3
  <2>10. QED
    BY <2>5, <2>6, <2>7, <2>8, <2>9, ZenonT(30)
<1>11. QED
  BY <1>3, <1>6, <1>7, <1>8, <1>10 DEF HInv

\* file_pos_write.
LEMMA PosKeeps ==
  ASSUME Inv, Inv', HInv, NEW c \in Callers, call[c].pc = "pos", NEW f, call[c].f = f,
         NEW r, NowAt(c, r), r.pc = "iov", r.f = f, r.sock = call[c].sock,
         obj' = [obj EXCEPT ![f].pos = call[c].pos], UNCHANGED <<table, ledgers>>
  PROVE  HInv'
<1>0. UNCHANGED <<leaks, lost, twice, raced>>
  BY DEF ledgers
<1>1. call[c] \in Call /\ HoldsAt(call[c])
  BY DEF HInv, Holding, Inv
<1>2. HoldsAt(r) /\ f \in Objects
  BY <1>1 DEF HoldsAt, Busy, Making, Transferring
<1>3. /\ \A x \in Objects : /\ obj'[x].kind = obj[x].kind /\ obj'[x].refs = obj[x].refs
                            /\ obj'[x].moved = obj[x].moved
                            /\ obj'[x].pos = IF x = f THEN call[c].pos ELSE obj[x].pos
  BY <1>2 DEF Inv
<1>4. Pool \subseteq Objects /\ Files \subseteq Objects
  BY DEF Objects
<1>5. Holding' /\ SocketsOwned'
  BY <1>0, <1>2, <1>3, <1>4, HoldingFrame, SocketsFrame, ZenonT(30) DEF HInv
<1>6. RefsExact'
  BY <1>0, <1>3, RefsFrame
<1>7. Ledgers' /\ Alive'
  BY <1>0, <1>3 DEF HInv, Ledgers, Alive
<1>8. \A x \in Callers : call'[x] = IF x = c THEN r ELSE call[x]
  BY NowAtFacts
<1>9. Positions'
  <2> SUFFICES ASSUME NEW o \in Files
               PROVE  (/\ obj[o].pos <= obj[o].moved
                       /\ \A x \in Callers : Uses(x, o) => call[x].pos <= obj[o].moved
                       /\ o \notin raced =>
                            /\ \A x, y \in Callers : Uses(x, o) /\ Uses(y, o) => x = y
                            /\ \A x \in Callers : Uses(x, o) => call[x].pos = obj[o].moved
                            /\ (\A x \in Callers : Uses(x, o) => call[x].pc # "pos")
                                 => obj[o].pos = obj[o].moved)'
    BY DEF Positions
  <2>1. \A x \in Callers : x # c => (Uses(x, o)' <=> Uses(x, o)) /\ call'[x] = call[x]
    BY <1>8 DEF Uses
  <2>2. (Uses(c, o) <=> o = f) /\ ~Uses(c, o)'
    BY <1>8 DEF Uses
  <2>3. /\ obj'[o].moved = obj[o].moved
        /\ obj'[o].pos = IF o = f THEN call[c].pos ELSE obj[o].pos
    BY <1>3, <1>4
  <2>4. ASSUME NEW x \in Callers, Uses(x, o)' PROVE x # c /\ Uses(x, o) /\ call'[x] = call[x]
    BY <2>1, <2>2, <2>4
  <2>5. obj'[o].pos <= obj'[o].moved
    BY <2>2, <2>3 DEF HInv, Positions
  <2>6. ASSUME NEW x \in Callers, Uses(x, o)' PROVE call'[x].pos <= obj'[o].moved
    BY <2>3, <2>4, <2>6 DEF HInv, Positions
  <2>7. ASSUME o \notin raced', NEW x \in Callers, NEW y \in Callers, Uses(x, o)', Uses(y, o)'
        PROVE  x = y
    BY <1>0, <2>4, <2>7 DEF HInv, Positions
  <2>8. ASSUME o \notin raced', NEW x \in Callers, Uses(x, o)' PROVE call'[x].pos = obj'[o].moved
    BY <1>0, <2>3, <2>4, <2>8 DEF HInv, Positions
  <2>9. ASSUME o \notin raced', \A x \in Callers : Uses(x, o)' => call'[x].pc # "pos"
        PROVE  obj'[o].pos = obj'[o].moved
    <3>1. ASSUME o # f PROVE \A x \in Callers : Uses(x, o) => call[x].pc # "pos"
      BY <2>1, <2>2, <2>9, <3>1
    <3>2. QED
      BY <1>0, <2>2, <2>3, <2>9, <3>1 DEF HInv, Positions
  <2>10. QED
    BY <2>5, <2>6, <2>7, <2>8, <2>9, SMTT(30)
<1>10. QED
  BY <1>5, <1>6, <1>7, <1>9 DEF HInv

-----------------------------------------------------------------------------
(* The end of a runner, and the beginning. *)

\* The descriptors of c for an object.
Own(c, o) == Cardinality({d \in Fds : table[c][d] = o})

\* Without them the object has the descriptors of the other callers.
LEMMA SlotsClosed ==
  ASSUME Ledgers, NEW c \in Callers, table' = [table EXCEPT ![c] = [d \in Fds |-> None]],
         NEW o \in Objects
  PROVE  /\ Own(c, o) \in Nat /\ Descs(table, o) \in Nat /\ Descs(table', o) \in Nat
         /\ Descs(table', o) = Descs(table, o) - Own(c, o)
<1>1. PICK D, A, P : /\ D = {d \in Fds : table[c][d] = o} /\ A = Slots(table, o)
                     /\ P = {c} \X D
  BY Zenon
<1>2. IsFiniteSet(D) /\ Cardinality(D) \in Nat /\ D \subseteq Fds
  BY <1>1, HostAssumption, FS_Subset, FS_CardinalityType, SMTT(30)
<1>3. Cardinality(P) = Cardinality(D)
  <2>1. IsFiniteSet({c}) /\ Cardinality({c}) = 1
    BY FS_Singleton, Zenon
  <2>2. Cardinality(P) = 1 * Cardinality(D)
    BY <1>1, <1>2, <2>1, FS_Product
  <2>3. QED
    BY <1>2, <2>2
<1>4. IsFiniteSet(A) /\ Cardinality(A) \in Nat
  BY <1>1, CountTypes, FS_CardinalityType
<1>5. A \cap P = P
  <2>1. \A x \in P : x \in A
    BY <1>1, <1>2 DEF Slots
  <2>2. QED
    BY <2>1
<1>6. Slots(table', o) = A \ P
  <2>1. o # None
    BY HostAssumption
  <2>2. \A y \in Callers, e \in Fds : table'[y][e] = IF y = c THEN None ELSE table[y][e]
    BY DEF Ledgers
  <2>3. ASSUME NEW x \in Callers \X Fds PROVE x \in Slots(table', o) <=> x \in A \ P
    <3>1. PICK y \in Callers, e \in Fds : x = <<y, e>>
      OBVIOUS
    <3>2. x \in P <=> y = c /\ table[c][e] = o
      BY <1>1, <3>1
    <3>3. x \in A <=> table[y][e] = o
      BY <1>1, <3>1 DEF Slots
    <3>4. x \in Slots(table', o) <=> table'[y][e] = o
      BY <3>1 DEF Slots
    <3>5. QED
      BY <2>1, <2>2, <3>2, <3>3, <3>4
  <2>4. A \subseteq Callers \X Fds /\ Slots(table', o) \subseteq Callers \X Fds
    BY <1>1 DEF Slots
  <2>5. QED
    BY <2>3, <2>4, Zenon
<1>7. /\ IsFiniteSet(A \ P) /\ Cardinality(A \ P) = Cardinality(A) - Cardinality(A \cap P)
  BY <1>4, FS_Difference, Zenon
<1>8. Cardinality(A \ P) \in Nat
  BY <1>7, FS_CardinalityType
<1>9. QED
  BY <1>1, <1>2, <1>3, <1>4, <1>5, <1>6, <1>7, <1>8, Zenon DEF Descs, Own

\* do_exit closes the table.  A reference of the call it ends is there for good.
LEMMA ExitKeeps ==
  ASSUME Inv, Inv', HInv, NEW c \in Callers, NEW r, NowAt(c, r), Idle(r),
         call[c].pc \notin {"pos", "file"}, call[c].sock = None \/ call[c].sock \in twice,
         table' = [table EXCEPT ![c] = [d \in Fds |-> None]],
         obj' = [o \in Objects |->
                  IF Own(c, o) = 0 THEN obj[o]
                  ELSE IF Own(c, o) = obj[o].refs THEN FreeObj
                  ELSE [obj[o] EXCEPT !.refs = @ - Own(c, o)]],
         leaks' \in [Objects -> Nat],
         \A o \in Objects : leaks'[o] = leaks[o] + Is(o, call[c].f),
         UNCHANGED <<lost, twice, raced>>
  PROVE  HInv'
<1>1. HoldsAt(r) /\ r.pc \notin {"io", "pos", "file"} /\ r.sock = None /\ r.f = None
  BY IdleFacts DEF Idle
<1>2. /\ None # Reserved /\ Files \subseteq Objects /\ Pool \subseteq Objects
      /\ None \notin Objects /\ Files \cap twice = {}
  BY HostAssumption DEF None, Reserved, Objects, HInv, Ledgers
<1>3. /\ table' \in [Callers -> [Fds -> Objects \cup {None, Reserved}]]
      /\ \A y \in Callers, e \in Fds : table'[y][e] = IF y = c THEN None ELSE table[y][e]
  BY DEF HInv, Ledgers
<1>4. \A e \in Fds : table[c][e] # Reserved
  BY SocketsAre DEF HInv
<1>5. \A y \in Callers, e \in Fds : table'[y][e] = Reserved <=> table[y][e] = Reserved
  BY <1>2, <1>3, <1>4, SMTT(30)
<1>6. ASSUME NEW o \in Objects \ twice
      PROVE  /\ obj'[o].refs = leaks'[o] + In(o, Files) + Descs(table', o) + Calls(call', o)
             /\ obj'[o].kind = "bare" <=> obj[o].kind = "bare"
             /\ obj'[o].refs = 0 <=> obj'[o].kind \in {"free", "bare"}
             /\ o \in Files => /\ obj'[o].kind = obj[o].kind
                               /\ obj'[o].pos = obj[o].pos /\ obj'[o].moved = obj[o].moved
  <2>1. /\ Own(c, o) \in Nat /\ Descs(table, o) \in Nat /\ Descs(table', o) \in Nat
        /\ Descs(table', o) = Descs(table, o) - Own(c, o)
    BY SlotsClosed, Zenon DEF HInv
  <2>2. /\ Calls(call, o) \in Nat /\ leaks[o] \in Nat
        /\ obj[o].refs = leaks[o] + In(o, Files) + Descs(table, o) + Calls(call, o)
    BY CountTypes, RefsAre DEF HInv, Ledgers
  <2>3. In(o, Files) \in Nat /\ (o \in Files => In(o, Files) = 1)
    BY DEF In
  <2>4. leaks'[o] + Calls(call', o) = leaks[o] + Calls(call, o) /\ Calls(call', o) \in Nat
    <3>1. /\ Calls(call', o) \in Nat
          /\ Calls(call', o) = Calls(call, o) + Is(o, r.f) - Is(o, call[c].f)
      BY UsersChange, Zenon DEF NowAt
    <3>2. Is(o, r.f) = 0 /\ Is(o, call[c].f) \in Nat
      BY <1>1, <1>2 DEF Is
    <3>3. QED
      BY <2>2, <3>1, <3>2
  <2>5. /\ obj[o] \in [kind : Kinds, refs : Int, pos : Nat, moved : Nat]
        /\ obj[o].refs = 0 <=> obj[o].kind \in {"free", "bare"}
    BY DEF Inv, HInv, Alive
  <2>6. PICK n : n = leaks[o] + Calls(call, o) /\ n \in Nat
    BY <2>2
  <2>7. /\ obj[o].refs = n + In(o, Files) + Descs(table, o)
        /\ leaks'[o] \in Nat /\ leaks'[o] + Calls(call', o) = n
    <3>1. leaks'[o] \in Nat
      OBVIOUS
    <3>2. QED
      BY <2>1, <2>2, <2>3, <2>4, <2>6, <3>1
  <2>8. leaks'[o] + In(o, Files) + Descs(table', o) + Calls(call', o)
          = n + In(o, Files) + Descs(table', o)
    BY <2>1, <2>3, <2>4, <2>7
  <2>9. CASE Own(c, o) = 0
    BY <2>1, <2>5, <2>7, <2>8, <2>9, SMTT(30)
  <2>10. CASE Own(c, o) # 0 /\ Own(c, o) = obj[o].refs
    <3>1. obj'[o].refs = 0 /\ obj'[o].kind = "free" /\ obj[o].kind # "bare"
      BY <2>5, <2>10 DEF FreeObj
    <3>2. o \notin Files /\ n + In(o, Files) + Descs(table', o) = 0
      BY <2>1, <2>3, <2>6, <2>7, <2>10, SMTT(30)
    <3>3. QED
      BY <2>8, <3>1, <3>2, SMTT(30)
  <2>11. CASE Own(c, o) # 0 /\ Own(c, o) # obj[o].refs
    <3>1. /\ obj'[o].refs = obj[o].refs - Own(c, o) /\ obj'[o].kind = obj[o].kind
          /\ obj'[o].pos = obj[o].pos /\ obj'[o].moved = obj[o].moved
      <4>1. obj'[o] = [obj[o] EXCEPT !.refs = @ - Own(c, o)]
        BY <2>11
      <4>2. QED
        BY <2>5, <4>1
    <3>2. obj[o].refs # 0 /\ obj'[o].refs # 0
      <4>1. Own(c, o) <= obj[o].refs /\ obj[o].refs \in Nat
        BY <2>1, <2>3, <2>6, <2>7
      <4>2. QED
        BY <2>1, <2>11, <3>1, <4>1, SMTT(30)
    <3>3. obj'[o].refs = n + In(o, Files) + Descs(table', o)
      BY <2>1, <2>3, <2>6, <2>7, <3>1
    <3>4. QED
      BY <2>5, <2>8, <3>1, <3>2, <3>3, SMTT(30)
  <2>12. QED
    BY <2>9, <2>10, <2>11
<1>7. RefsExact'
  BY <1>6, RefsFrom, Zenon
<1>8. Alive'
  <2>1. \A o \in Files : obj'[o].kind = obj[o].kind
    BY <1>2, <1>6
  <2>2. QED
    BY <1>6, <2>1 DEF HInv, Alive
<1>9. Ledgers'
  BY <1>3 DEF HInv, Ledgers
<1>10. Holding' /\ Positions' /\ SocketsOwned'
  <2>1. /\ \A o \in Files : obj'[o].pos = obj[o].pos /\ obj'[o].moved = obj[o].moved
        /\ \A o \in Pool \ twice : /\ obj'[o].kind = "bare" <=> obj[o].kind = "bare"
                                   /\ r.sock = o <=> call[c].sock = o
    BY <1>1, <1>2, <1>6
  <2>2. Holding'
    BY <1>1, HoldingFrame DEF HInv
  <2>3. Positions'
    BY <1>1, <2>1, PositionsFrame DEF HInv
  <2>4. SocketsOwned'
    BY <1>1, <1>5, <2>1, SocketsSame, ZenonT(30) DEF HInv
  <2>5. QED
    BY <2>2, <2>3, <2>4
<1>11. QED
  BY <1>7, <1>8, <1>9, <1>10 DEF HInv

LEMMA InitHInv == Init => HInv
<1> SUFFICES ASSUME Init PROVE HInv
  OBVIOUS
<1>1. PICK at \in [Files -> 0 .. Cardinality(Files) - 1] :
        /\ \A f, g \in Files : at[f] = at[g] => f = g
        /\ table = [c \in Callers |-> InitTable(at)]
  BY DEF Init
<1>2. /\ None \notin Objects /\ Reserved \notin Objects /\ None # Reserved
      /\ Files \subseteq Objects /\ Pool \subseteq Objects /\ Files \cap Pool = {}
      /\ Objects = Files \cup Pool
  BY HostAssumption DEF None, Reserved, Objects
<1>3. \A f \in Files : at[f] \in Fds
  BY <1>1, HostAssumption
<1>4. \A c \in Callers, d \in Fds : /\ table[c][d] \in Files \cup {None}
                                    /\ \A f \in Files : table[c][d] = f <=> d = at[f]
  <2>1. ASSUME NEW d \in Fds
        PROVE  /\ InitTable(at)[d] \in Files \cup {None}
               /\ \A f \in Files : InitTable(at)[d] = f <=> d = at[f]
    <3>1. CASE \E f \in Files : at[f] = d
      <4>1. PICK g : g = CHOOSE f \in Files : at[f] = d
        OBVIOUS
      <4>2. g \in Files /\ at[g] = d
        BY <3>1, <4>1
      <4>3. InitTable(at)[d] = g
        BY <3>1, <4>1 DEF InitTable
      <4>4. QED
        BY <1>1, <4>2, <4>3
    <3>2. CASE ~\E f \in Files : at[f] = d
      <4>1. InitTable(at)[d] = None
        BY <3>2 DEF InitTable
      <4>2. QED
        BY <1>2, <3>2, <4>1
    <3>3. QED
      BY <3>1, <3>2
  <2>2. \A c \in Callers : table[c] = InitTable(at)
    BY <1>1
  <2>3. QED
    BY <2>1, <2>2
<1>5. /\ \A c \in Callers : call[c] = NoCall
      /\ NoCall.f = None /\ NoCall.pc = "guest" /\ NoCall.sock = None
  BY DEF Init, NoCall
<1>6. /\ \A o \in Files : /\ obj[o].kind = "file" /\ obj[o].pos = 0 /\ obj[o].moved = 0
                          /\ obj[o].refs = 1 + Cardinality(Callers)
      /\ \A o \in Pool : obj[o].kind = "free" /\ obj[o].refs = 0
  BY <1>2 DEF Init, NewObj, FreeObj
<1>7. Cardinality(Callers) \in Nat /\ IsFiniteSet(Callers)
  BY FS_CardinalityType, HostAssumption
<1>8. Ledgers
  <2>1. table \in [Callers -> [Fds -> Objects \cup {None, Reserved}]]
    <3>1. InitTable(at) = [d \in Fds |-> InitTable(at)[d]]
      BY DEF InitTable
    <3>2. \A c \in Callers : table[c] = InitTable(at)
      BY <1>1
    <3>3. \A c \in Callers : table[c] \in [Fds -> Objects \cup {None, Reserved}]
      BY <1>2, <1>4, <3>1, <3>2
    <3>4. QED
      BY <1>1, <3>3
  <2>2. QED
    BY <2>1 DEF Init, Ledgers
<1>9. Holding
  <2>1. HoldsAt(NoCall)
    BY <1>5, IdleFacts DEF Idle, Busy, Making
  <2>2. QED
    BY <1>5, <2>1 DEF Holding
<1>10. Alive
  BY <1>2, <1>6, <1>7, SMTT(30) DEF Alive
<1>11. RefsExact
  <2>1. ASSUME NEW o \in Objects \ twice
        PROVE  obj[o].refs = leaks[o] + In(o, Files) + Descs(table, o) + Calls(call, o)
    <3>1. leaks[o] = 0
      BY DEF Init
    <3>2. Users(call, o) = {}
      BY <1>2, <1>5 DEF Users
    <3>3. Calls(call, o) = 0
      BY <3>2, FS_EmptySet, SMTT(30) DEF Calls
    <3>4. CASE o \in Files
      <4>1. Slots(table, o) = Callers \X {at[o]}
        <5>1. ASSUME NEW x \in Callers \X Fds
              PROVE  x \in Slots(table, o) <=> x \in Callers \X {at[o]}
          <6>1. PICK y \in Callers, e \in Fds : x = <<y, e>>
            OBVIOUS
          <6>2. x \in Slots(table, o) <=> table[y][e] = o
            BY <6>1 DEF Slots
          <6>3. x \in Callers \X {at[o]} <=> e = at[o]
            BY <6>1
          <6>4. QED
            BY <1>4, <3>4, <6>2, <6>3, SMTT(30)
        <5>2. /\ Slots(table, o) \subseteq Callers \X Fds
              /\ Callers \X {at[o]} \subseteq Callers \X Fds
          BY <1>3, <3>4 DEF Slots
        <5>3. QED
          BY <5>1, <5>2, SMTT(30)
      <4>2. IsFiniteSet({at[o]}) /\ Cardinality({at[o]}) = 1
        BY FS_Singleton, Zenon
      <4>3. Descs(table, o) = Cardinality(Callers) * 1
        BY <1>7, <4>1, <4>2, FS_Product, ZenonT(30) DEF Descs
      <4>4. QED
        BY <1>6, <1>7, <3>1, <3>3, <3>4, <4>3, SMTT(30) DEF In
    <3>5. CASE o \notin Files
      <4>1. Slots(table, o) = {}
        <5>1. \A y \in Callers, e \in Fds : table[y][e] # o
          BY <1>2, <1>4, <3>5
        <5>2. \A x \in Callers \X Fds : x[1] \in Callers /\ x[2] \in Fds
          BY ZenonT(30)
        <5>3. QED
          BY <5>1, <5>2 DEF Slots
      <4>2. Descs(table, o) = 0
        BY <4>1, FS_EmptySet, Zenon DEF Descs
      <4>3. QED
        BY <1>2, <1>6, <3>1, <3>3, <3>5, <4>2, SMTT(30) DEF In
    <3>6. QED
      BY <3>4, <3>5
  <2>2. QED
    BY <2>1, RefsAre, SMTT(30)
<1>12. SocketsOwned
  <2>1. ASSUME NEW o \in Pool \ twice PROVE Makes(call, o) + In(o, lost) = Is(obj[o].kind, "bare")
    <3>1. Makers(call, o) = {}
      BY <1>2, <1>5 DEF Makers
    <3>2. Makes(call, o) = 0
      BY <3>1, FS_EmptySet DEF Makes
    <3>3. lost = {}
      BY DEF Init
    <3>4. QED
      BY <1>6, <3>2, <3>3 DEF In, Is
  <2>2. \A c \in Callers, d \in Fds :
          table[c][d] = Reserved <=> call[c].pc = "file" /\ call[c].fd = d
    BY <1>2, <1>4, <1>5, SMTT(30)
  <2>3. QED
    BY <2>1, <2>2, SocketsAre
<1>13. Positions
  <2>1. \A c \in Callers, o \in Files : ~Uses(c, o)
    BY <1>5 DEF Uses
  <2>2. QED
    BY <1>6, <2>1 DEF Positions
<1>14. QED
  BY <1>8, <1>9, <1>10, <1>11, <1>12, <1>13, SMTT(30) DEF HInv

-----------------------------------------------------------------------------
(* The actions. *)

LEMMA AtFacts ==
  /\ Idle(NoCall)
  /\ \A pc, ranges : /\ At(pc, ranges).pc = pc /\ At(pc, ranges).f = None
                     /\ At(pc, ranges).sock = None
                     /\ pc \in {"store", "accept", "sys"} => Idle(At(pc, ranges))
<1>1. Idle(NoCall)
  BY DEF Idle, NoCall, Busy, Making
<1>2. ASSUME NEW pc, NEW ranges
      PROVE  /\ At(pc, ranges).pc = pc /\ At(pc, ranges).f = None
             /\ At(pc, ranges).sock = None
  BY DEF At, NoCall
<1>3. ASSUME NEW pc \in {"store", "accept", "sys"}, NEW ranges PROVE Idle(At(pc, ranges))
  BY <1>2 DEF Idle, Busy, Making
<1>4. QED
  BY <1>1, <1>2, <1>3, ZenonT(30)

\* Where a host call begins and where it only returns, it refers to nothing.
LEMMA IdleAt ==
  ASSUME Inv, HInv, NEW c \in Callers, call[c].pc \in {"guest", "store", "accept", "sys"}
  PROVE  Idle(call[c])
<1>1. call[c] \in Call /\ HoldsAt(call[c])
  BY DEF HInv, Holding, Inv
<1>2. call[c].pc \notin Busy \cup Making
  BY DEF Busy, Making
<1>3. QED
  BY <1>1, <1>2, IdleFacts

LEMMA ProceedIdle ==
  ASSUME NEW c, NEW ok, NEW r, Idle(r), Proceed(c, ok, r)
  PROVE  \E q : Idle(q) /\ NowAt(c, q)
<1>1. CASE ok
  BY <1>1, Zenon DEF Proceed, NowAt
<1>2. CASE ~ok
  BY <1>2, AtFacts, Zenon DEF Proceed, NowAt
<1>3. QED
  BY <1>1, <1>2

LEMMA QuietStep ==
  ASSUME Inv, Inv', HInv, NEW c \in Callers, Idle(call[c]),
         \E q : Idle(q) /\ NowAt(c, q), UNCHANGED <<obj, table, ledgers>>
  PROVE  HInv'
<1>1. PICK q : Idle(q) /\ NowAt(c, q)
  OBVIOUS
<1>2. QED
  BY <1>1, QuietKeeps

\* The functions that only store results or check an address.
LEMMA StoreHInv ==
  ASSUME Inv, Inv', HInv, NEW c \in Callers,
         \/ EnvironSizesGet(c) \/ ArgsGet(c) \/ ArgsSizesGet(c) \/ StoreNext(c)
         \/ FdPrestatDirName(c) \/ FdSeek(c) \/ PathOpen(c)
  PROVE  HInv'
<1>1. Idle(call[c]) /\ UNCHANGED <<obj, table, ledgers>>
  BY IdleAt, ZenonT(30) DEF EnvironSizesGet, ArgsGet, ArgsSizesGet, StoreNext, FdPrestatDirName,
     FdSeek, PathOpen, Enter
<1>2. ASSUME NEW n, NEW m, StoreFirst(c, n, m) PROVE \E q : Idle(q) /\ NowAt(c, q)
  <2>1. PICK p \in Words :
          Proceed(c, Slice(c, p, n), [At("store", {Span(p, n, 0)}) EXCEPT !.next = m])
    BY <1>2, Zenon DEF StoreFirst
  <2>2. PICK spans : spans = {Span(p, n, 0)}
    BY Zenon
  <2>3. PICK r : r = [At("store", spans) EXCEPT !.next = m]
    BY Zenon
  <2>4. r.pc = "store" /\ r.f = None /\ r.sock = None
    BY <2>3 DEF At, NoCall
  <2>5. Idle(r)
    BY <2>4 DEF Idle, Busy, Making
  <2>6. Proceed(c, Slice(c, p, n), r)
    BY <2>1, <2>2, <2>3, Zenon
  <2>7. QED
    BY <2>5, <2>6, ProceedIdle
<1>3. ASSUME StoreNext(c) \/ FdPrestatDirName(c) \/ FdSeek(c) \/ PathOpen(c)
      PROVE  \E q : Idle(q) /\ NowAt(c, q)
  <2>1. PICK ok, ranges : Proceed(c, ok, At("sys", ranges))
    BY <1>3, ZenonT(30) DEF StoreNext, FdPrestatDirName, FdSeek, PathOpen
  <2>2. Idle(At("sys", ranges))
    BY AtFacts
  <2>3. QED
    BY <2>1, <2>2, ProceedIdle
<1>4. \E q : Idle(q) /\ NowAt(c, q)
  BY <1>2, <1>3, ZenonT(30) DEF EnvironSizesGet, ArgsGet, ArgsSizesGet
<1>5. QED
  BY <1>1, <1>4, QuietStep

\* The functions that make a system call, and what returns from them.
LEMMA SysHInv ==
  ASSUME Inv, Inv', HInv, NEW c \in Callers,
         \/ NetAccept4(c) \/ NetRecvfrom(c) \/ NetSendto(c) \/ NetEpollCtl(c)
         \/ NetEpollWait(c) \/ SysReturn(c) \/ NetFcntl(c) \/ NoEffect(c)
  PROVE  HInv'
<1>1. Idle(call[c]) /\ UNCHANGED <<obj, table, ledgers>>
  BY IdleAt, Zenon DEF NetAccept4, NetRecvfrom, NetSendto, NetEpollCtl, NetEpollWait, SysReturn,
     NetFcntl, NoEffect, Enter
<1>2. \E q : Idle(q) /\ NowAt(c, q)
  <2>1. CASE SysReturn(c)
    BY <2>1, AtFacts, Zenon DEF SysReturn, NowAt
  <2>2. CASE NetFcntl(c) \/ NoEffect(c)
    BY <1>1, <2>2, SameRecord, ZenonT(30) DEF NetFcntl, NoEffect
  <2>3. CASE NetAccept4(c)
    <3>1. PICK ok, ranges : Proceed(c, ok, At("accept", ranges))
      BY <2>3, Zenon DEF NetAccept4
    <3>2. Idle(At("accept", ranges))
      BY AtFacts
    <3>3. QED
      BY <3>1, <3>2, ProceedIdle
  <2>4. CASE NetRecvfrom(c) \/ NetSendto(c) \/ NetEpollCtl(c) \/ NetEpollWait(c)
    <3>1. PICK ok, ranges : Proceed(c, ok, At("sys", ranges))
      BY <2>4, ZenonT(30) DEF NetRecvfrom, NetSendto, NetEpollCtl, NetEpollWait
    <3>2. Idle(At("sys", ranges))
      BY AtFacts
    <3>3. QED
      BY <3>1, <3>2, ProceedIdle
  <2>5. QED
    BY <2>1, <2>2, <2>3, <2>4
<1>3. QED
  BY <1>1, <1>2, QuietStep

\* fget: a descriptor that has a file, or none.
LEMMA FgetFacts ==
  ASSUME NEW c, NEW fd, Fget(c, fd) # None
  PROVE  Fget(c, fd) \in Objects /\ table[c][fd] = Fget(c, fd)
BY DEF Fget

LEMMA PrestatHInv ==
  ASSUME Inv, Inv', HInv, NEW c \in Callers, FdPrestatGet(c)
  PROVE  HInv'
<1>1. PICK fd \in Fds, out \in Words :
        LET f == Fget(c, fd)
            ok == Slice(c, out, 8) /\ f # None
        IN /\ Proceed(c, ok, At("sys", {Span(out + 4, 4, 0)}))
           /\ obj' = IF ok THEN [obj EXCEPT ![f] = Taken(f)] ELSE obj
           /\ leaks' = IF ok THEN [leaks EXCEPT ![f] = @ + 1] ELSE leaks
  BY Zenon DEF FdPrestatGet
<1>2. Idle(call[c]) /\ UNCHANGED <<table, lost, twice, raced>>
  BY IdleAt, Zenon DEF FdPrestatGet, Enter
<1>3. PICK f, r : f = Fget(c, fd) /\ r = At("sys", {Span(out + 4, 4, 0)})
  OBVIOUS
<1>4. CASE Slice(c, out, 8) /\ f # None
  <2>1. /\ NowAt(c, r) /\ obj' = [obj EXCEPT ![f] = Taken(f)]
        /\ leaks' = [leaks EXCEPT ![f] = @ + 1]
    BY <1>1, <1>3, <1>4, ZenonT(30) DEF Proceed, NowAt
  <2>2. f \in Objects /\ table[c][fd] = f
    BY <1>3, <1>4, FgetFacts, ZenonT(30)
  <2>3. Idle(r)
    BY <1>3, AtFacts, SMTT(30)
  <2>4. QED
    BY <1>2, <2>1, <2>2, <2>3, LeakKeeps, ZenonT(30)
<1>5. CASE ~(Slice(c, out, 8) /\ f # None)
  <2>1. NowAt(c, NoCall) /\ UNCHANGED <<obj, leaks>>
    BY <1>1, <1>3, <1>5, Zenon DEF Proceed, NowAt
  <2>2. QED
    BY <1>2, <2>1, AtFacts, QuietKeeps, SMTT(30) DEF ledgers
<1>6. QED
  BY <1>4, <1>5

LEMMA CloseHInv ==
  ASSUME Inv, Inv', HInv, NEW c \in Callers, FdClose(c)
  PROVE  HInv'
<1>1. PICK fd \in Fds :
        IF Fget(c, fd) = None THEN UNCHANGED <<table, obj>>
        ELSE /\ table' = [table EXCEPT ![c][fd] = None]
             /\ obj' = [obj EXCEPT ![Fget(c, fd)] = Dropped(Fget(c, fd))]
  BY DEF FdClose
<1>2. Idle(call[c]) /\ UNCHANGED <<call, ledgers>>
  BY IdleAt DEF FdClose, Enter
<1>3. PICK f : f = Fget(c, fd)
  OBVIOUS
<1>4. CASE f = None
  <2>1. NowAt(c, call[c])
    BY <1>2, SameRecord
  <2>2. QED
    BY <1>1, <1>2, <1>3, <1>4, <2>1, QuietKeeps, ZenonT(30)
<1>5. CASE f # None
  <2>1. table' = [table EXCEPT ![c][fd] = None] /\ obj' = [obj EXCEPT ![f] = Dropped(f)]
    BY <1>1, <1>3, <1>5, SMTT(30)
  <2>2. f \in Objects /\ table[c][fd] = f
    BY <1>3, <1>5, FgetFacts, ZenonT(30)
  <2>3. QED
    BY <1>2, <2>1, <2>2, CloseKeeps, ZenonT(30)
<1>6. QED
  BY <1>4, <1>5

\* A call that takes a reference when ok holds, and otherwise goes on or returns
\* without one.
LEMMA BeginHInv ==
  ASSUME Inv, Inv', HInv, NEW c \in Callers, Idle(call[c]), NEW fd \in Fds, NEW f,
         f = Fget(c, fd), NEW ok \in BOOLEAN, ok => f # None, NEW r, NowAt(c, r),
         IF ok THEN r.f = f /\ r.pc \in {"iov", "bind", "listen"} /\ r.sock = None ELSE Idle(r),
         obj' = (IF ok THEN [obj EXCEPT ![f] = Taken(f)] ELSE obj), UNCHANGED <<table, ledgers>>
  PROVE  HInv'
<1>1. CASE ok
  <2>1. obj' = [obj EXCEPT ![f] = Taken(f)]
    BY <1>1
  <2>2. f \in Objects /\ table[c][fd] = f
    BY <1>1, FgetFacts
  <2>3. QED
    BY <1>1, <2>1, <2>2, HoldKeeps, ZenonT(30)
<1>2. CASE ~ok
  <2>1. Idle(r) /\ obj' = obj
    BY <1>2
  <2>2. QED
    BY <2>1, QuietKeeps, ZenonT(30)
<1>3. QED
  BY <1>1, <1>2

LEMMA BeginsHInv ==
  ASSUME Inv, Inv', HInv, NEW c \in Callers, ReadWriteBegin(c) \/ NetBind(c) \/ NetListen(c)
  PROVE  HInv'
<1>1. Idle(call[c]) /\ UNCHANGED <<table, ledgers>>
  BY IdleAt, Zenon DEF ReadWriteBegin, NetBind, NetListen, Enter
<1>2. CASE ReadWriteBegin(c)
  <2>1. PICK fd \in Fds, iovs \in Words, out \in Words, iovs_len \in IovLens :
          LET f == Fget(c, fd)
              found == Slice(c, out, 4) /\ f # None
              loop == [At("iov", {Span(out, 4, 0)}) EXCEPT
                         !.f = f, !.out = out, !.iovs = iovs, !.iovs_len = iovs_len]
          IN /\ Proceed(c, Slice(c, out, 4),
                        IF found THEN loop ELSE At("sys", {Span(out, 4, 0)}))
             /\ obj' = IF found THEN [obj EXCEPT ![f] = Taken(f)] ELSE obj
    BY <1>2, Zenon DEF ReadWriteBegin
  <2>2. PICK f, spans : f = Fget(c, fd) /\ spans = {Span(out, 4, 0)}
    BY Zenon
  <2>3. PICK loop : loop = [At("iov", spans) EXCEPT
                              !.f = f, !.out = out, !.iovs = iovs, !.iovs_len = iovs_len]
    BY Zenon
  <2>4. PICK ok \in BOOLEAN : ok <=> Slice(c, out, 4) /\ f # None
    BY Zenon
  <2>5. PICK r : r = IF ~Slice(c, out, 4) THEN NoCall ELSE IF ok THEN loop ELSE At("sys", spans)
    BY Zenon
  <2>6. /\ Proceed(c, Slice(c, out, 4), IF ok THEN loop ELSE At("sys", spans))
        /\ obj' = IF ok THEN [obj EXCEPT ![f] = Taken(f)] ELSE obj
    BY <2>1, <2>2, <2>3, <2>4, ZenonT(30)
  <2>7. NowAt(c, r)
    BY <2>5, <2>6, ZenonT(30) DEF Proceed, NowAt
  <2>8. loop.f = f /\ loop.pc = "iov" /\ loop.sock = None
    BY <2>3 DEF At, NoCall
  <2>9. /\ ok => r = loop
        /\ ~ok => r = NoCall \/ r = At("sys", spans)
    BY <2>4, <2>5, Zenon
  <2>10. IF ok THEN r.f = f /\ r.pc \in {"iov", "bind", "listen"} /\ r.sock = None ELSE Idle(r)
    BY <2>8, <2>9, AtFacts
  <2>11. QED
    BY <1>1, <2>2, <2>4, <2>6, <2>7, <2>10, BeginHInv, ZenonT(30)
<1>3. ASSUME NEW fd \in Fds, NEW ok \in BOOLEAN, ok => Fget(c, fd) # None,
             NEW pc \in {"bind", "listen"}, NEW spans,
             Proceed(c, ok, [At(pc, spans) EXCEPT !.f = Fget(c, fd)]),
             obj' = IF ok THEN [obj EXCEPT ![Fget(c, fd)] = Taken(Fget(c, fd))] ELSE obj
      PROVE  HInv'
  <2>1. PICK f, a : f = Fget(c, fd) /\ a = [At(pc, spans) EXCEPT !.f = f]
    BY Zenon
  <2>2. PICK r : r = IF ok THEN a ELSE NoCall
    BY Zenon
  <2>3. NowAt(c, r) /\ obj' = IF ok THEN [obj EXCEPT ![f] = Taken(f)] ELSE obj
    BY <1>3, <2>1, <2>2, ZenonT(30) DEF Proceed, NowAt
  <2>4. a.f = f /\ a.pc = pc /\ a.sock = None
    BY <2>1 DEF At, NoCall
  <2>5. IF ok THEN r.f = f /\ r.pc \in {"iov", "bind", "listen"} /\ r.sock = None ELSE Idle(r)
    BY <2>2, <2>4, AtFacts
  <2>6. QED
    BY <1>1, <1>3, <2>1, <2>3, <2>5, BeginHInv, ZenonT(30)
<1>4. CASE NetBind(c)
  <2>1. PICK fd \in Fds, sockaddr \in Words, len \in Words, unix \in BOOLEAN :
          LET f == Fget(c, fd)
              ok == /\ f # None /\ obj[f].kind = "sock"
                    /\ IF sockaddr # 0 THEN Slice(c, sockaddr, len) ELSE len = 0
              span == IF unix THEN Span(sockaddr, Max({len + 1, 2}), 1)
                              ELSE Span(sockaddr, len, 0)
          IN /\ Proceed(c, ok, [At("bind", IF sockaddr # 0 THEN {span} ELSE {}) EXCEPT !.f = f])
             /\ obj' = IF ok THEN [obj EXCEPT ![f] = Taken(f)] ELSE obj
    BY <1>4, Zenon DEF NetBind
  <2>2. PICK ok \in BOOLEAN :
          ok <=> /\ Fget(c, fd) # None /\ obj[Fget(c, fd)].kind = "sock"
                 /\ IF sockaddr # 0 THEN Slice(c, sockaddr, len) ELSE len = 0
    BY Zenon
  <2>3. PICK spans :
          spans = IF sockaddr # 0
                  THEN {IF unix THEN Span(sockaddr, Max({len + 1, 2}), 1)
                                ELSE Span(sockaddr, len, 0)}
                  ELSE {}
    BY Zenon
  <2>4. /\ Proceed(c, ok, [At("bind", spans) EXCEPT !.f = Fget(c, fd)])
        /\ obj' = IF ok THEN [obj EXCEPT ![Fget(c, fd)] = Taken(Fget(c, fd))] ELSE obj
    BY <2>1, <2>2, <2>3, ZenonT(30) DEF Proceed
  <2>5. QED
    BY <1>3, <2>2, <2>4, Zenon
<1>5. CASE NetListen(c)
  <2>1. PICK fd \in Fds :
          LET f == Fget(c, fd)
              ok == f # None /\ obj[f].kind = "sock"
          IN /\ Proceed(c, ok, [At("listen", {}) EXCEPT !.f = f])
             /\ obj' = IF ok THEN [obj EXCEPT ![f] = Taken(f)] ELSE obj
    BY <1>5, Zenon DEF NetListen
  <2>2. PICK ok \in BOOLEAN : ok <=> Fget(c, fd) # None /\ obj[Fget(c, fd)].kind = "sock"
    BY Zenon
  <2>3. /\ Proceed(c, ok, [At("listen", {}) EXCEPT !.f = Fget(c, fd)])
        /\ obj' = IF ok THEN [obj EXCEPT ![Fget(c, fd)] = Taken(Fget(c, fd))] ELSE obj
    BY <2>1, <2>2, Zenon DEF Proceed
  <2>4. QED
    BY <1>3, <2>2, <2>3, Zenon
<1>6. QED
  BY <1>2, <1>4, <1>5

\* The loop of fd_read and fd_write.
LEMMA LoopHInv ==
  ASSUME Inv, Inv', HInv, NEW c \in Callers,
         IovNext(c) \/ BufNext(c) \/ Move(c) \/ FilePosWrite(c)
  PROVE  HInv'
<1>1. call[c] \in Call
  BY DEF Inv
<1>2. PICK f : f = call[c].f
  OBVIOUS
<1>3. CASE IovNext(c)
  <2>1. PICK spans : spans = {Span(IovAddr(c), 8, 0)}
    BY Zenon
  <2>2. PICK r : r = [call[c] EXCEPT !.pc = "iovec", !.ranges = spans]
    OBVIOUS
  <2>3. NowAt(c, r)
    BY <1>3, <2>1, <2>2, Zenon DEF IovNext, NowAt
  <2>4. r.pc = "iovec" /\ r.f = call[c].f /\ r.sock = call[c].sock
    BY <1>1, <2>2 DEF Call
  <2>5. call[c].pc = "iov" /\ UNCHANGED <<obj, table, ledgers>>
    BY <1>3 DEF IovNext
  <2>6. QED
    BY <2>3, <2>4, <2>5, IovKeeps, Zenon
<1>4. CASE BufNext(c)
  <2>1. PICK buf, buf_len, again :
          call' = [call EXCEPT ![c].pc = "io", ![c].pos = obj[call[c].f].pos,
                               ![c].ranges = {Span(buf, again, Reread(buf_len, again, U32))}]
    BY <1>4, Zenon DEF BufNext
  <2>2. PICK spans : spans = {Span(buf, again, Reread(buf_len, again, U32))}
    BY Zenon
  <2>3. PICK r : r = [call[c] EXCEPT !.pc = "io", !.pos = obj[f].pos, !.ranges = spans]
    OBVIOUS
  <2>4. NowAt(c, r)
    BY <1>2, <2>1, <2>2, <2>3, Zenon DEF NowAt
  <2>5. r.pc = "io" /\ r.pos = obj[f].pos /\ r.f = f /\ r.sock = call[c].sock
    BY <1>1, <1>2, <2>3, SMTT(30) DEF Call
  <2>6. /\ call[c].pc = "iovec" /\ raced' = IF InUse(c, f) THEN raced \cup {f} ELSE raced
        /\ UNCHANGED <<obj, table, leaks, lost, twice>>
    BY <1>2, <1>4 DEF BufNext
  <2>7. QED
    BY <1>2, <2>4, <2>5, <2>6, BufKeeps, Zenon
<1>5. CASE Move(c)
  <2>1. PICK ret \in Moves :
          /\ call' = [call EXCEPT
                        ![c].pc = "pos", ![c].ranges = {Span(call[c].out, 4, 0)},
                        ![c].pos = IF obj[call[c].f].kind = "file" THEN @ + ret ELSE @]
          /\ obj' = [obj EXCEPT ![call[c].f].moved = @ + ret]
    BY <1>5, Zenon DEF Move
  <2>2. PICK pos, spans :
          /\ pos = IF obj[f].kind = "file" THEN call[c].pos + ret ELSE call[c].pos
          /\ spans = {Span(call[c].out, 4, 0)}
    BY Zenon
  <2>3. PICK r : r = [call[c] EXCEPT !.pc = "pos", !.ranges = spans, !.pos = pos]
    OBVIOUS
  <2>4. NowAt(c, r)
    BY <1>2, <2>1, <2>2, <2>3, ZenonT(30) DEF NowAt
  <2>5. r.pc = "pos" /\ r.pos = pos /\ r.f = f /\ r.sock = call[c].sock
    BY <1>1, <1>2, <2>3 DEF Call
  <2>6. /\ call[c].pc = "io" /\ UNCHANGED <<table, ledgers>>
        /\ ret \in Nat /\ obj' = [obj EXCEPT ![f].moved = @ + ret]
    BY <1>2, <1>5, <2>1, HostAssumption, ZenonT(30) DEF Move
  <2>7. r.pos = IF obj[f].kind = "file" THEN call[c].pos + ret ELSE call[c].pos
    BY <2>2, <2>5
  <2>8. QED
    BY <1>2, <2>4, <2>5, <2>6, <2>7, MoveKeeps, ZenonT(30)
<1>6. CASE FilePosWrite(c)
  <2>1. PICK r : r = [call[c] EXCEPT !.pc = "iov", !.i = @ + 1, !.ranges = {}]
    OBVIOUS
  <2>2. NowAt(c, r)
    BY <1>6, <2>1, Zenon DEF FilePosWrite, NowAt
  <2>3. r.pc = "iov" /\ r.f = f /\ r.sock = call[c].sock
    BY <1>1, <1>2, <2>1, SMTT(30) DEF Call
  <2>4. /\ call[c].pc = "pos" /\ UNCHANGED <<table, ledgers>>
        /\ obj' = [obj EXCEPT ![f].pos = call[c].pos]
    BY <1>2, <1>6 DEF FilePosWrite
  <2>5. QED
    BY <1>2, <2>2, <2>3, <2>4, PosKeeps, ZenonT(30)
<1>7. QED
  BY <1>3, <1>4, <1>5, <1>6

\* fput at the end of a call.
LEMMA EndHInv ==
  ASSUME Inv, Inv', HInv, NEW c \in Callers,
         IovBad(c) \/ BufBad(c) \/ MoveFails(c) \/ ReadWriteEnd(c) \/ NetDone(c)
  PROVE  HInv'
<1>1. /\ call[c].pc \in {"iov", "iovec", "io", "bind", "listen"} /\ NowAt(c, NoCall)
      /\ obj' = [obj EXCEPT ![call[c].f] = Dropped(call[c].f)]
      /\ UNCHANGED <<table, ledgers>>
  BY ZenonT(30) DEF IovBad, BufBad, MoveFails, ReadWriteEnd, NetDone, ReadWriteReturn, NowAt
<1>2. QED
  BY <1>1, ReleaseKeeps, ZenonT(30)

\* The end of a runner: what Die does.
LEMMA DieFacts ==
  ASSUME NEW c \in Callers, Die(c)
  PROVE  /\ NowAt(c, [NoCall EXCEPT !.pc = "exited"]) /\ Idle([NoCall EXCEPT !.pc = "exited"])
         /\ table' = [table EXCEPT ![c] = [d \in Fds |-> None]]
         /\ obj' = [o \in Objects |->
                     IF Own(c, o) = 0 THEN obj[o]
                     ELSE IF Own(c, o) = obj[o].refs THEN FreeObj
                     ELSE [obj[o] EXCEPT !.refs = @ - Own(c, o)]]
<1>1. Idle([NoCall EXCEPT !.pc = "exited"])
  BY DEF Idle, NoCall, Busy, Making
<1>2. QED
  BY <1>1, Zenon DEF Die, NowAt, Own

\* It ends where the guest runs, or at the second release of a socket.
LEMMA DieHInv ==
  ASSUME Inv, Inv', HInv, NEW c \in Callers, call[c].pc \in {"guest", "release"}, Die(c),
         UNCHANGED ledgers
  PROVE  HInv'
<1>1. UNCHANGED <<leaks, lost, twice, raced>>
  BY DEF ledgers
<1>2. call[c] \in Call /\ HoldsAt(call[c])
  BY DEF HInv, Holding, Inv
<1>3. call[c].f = None /\ (call[c].sock = None \/ call[c].sock \in twice)
  BY <1>2 DEF HoldsAt, Busy, Making, Call
<1>4. leaks' \in [Objects -> Nat] /\ \A o \in Objects : leaks'[o] = leaks[o] + Is(o, call[c].f)
  <2>1. \A o \in Objects : Is(o, call[c].f) = 0 /\ leaks[o] \in Nat
    BY <1>3, HostAssumption DEF Is, HInv, Ledgers
  <2>2. QED
    BY <1>1, <2>1 DEF HInv, Ledgers
<1>5. PICK r : r = [NoCall EXCEPT !.pc = "exited"]
  BY Zenon
<1>6. /\ NowAt(c, r) /\ Idle(r) /\ table' = [table EXCEPT ![c] = [d \in Fds |-> None]]
      /\ obj' = [o \in Objects |->
                  IF Own(c, o) = 0 THEN obj[o]
                  ELSE IF Own(c, o) = obj[o].refs THEN FreeObj
                  ELSE [obj[o] EXCEPT !.refs = @ - Own(c, o)]]
  BY <1>5, DieFacts, Zenon
<1>7. call[c].pc \notin {"pos", "file"}
  OBVIOUS
<1>8. QED
  BY <1>1, <1>3, <1>4, <1>6, <1>7, ExitKeeps, Zenon

\* Or in a call, which leaves its reference behind.
LEMMA FaultHInv ==
  ASSUME Inv, Inv', HInv, NEW c \in Callers, Fault(c)
  PROVE  HInv'
<1>1. PICK f : f = call[c].f
  OBVIOUS
<1>2. /\ call[c].pc \in {"io", "bind"} /\ Die(c) /\ leaks' = [leaks EXCEPT ![f] = @ + 1]
      /\ UNCHANGED <<lost, twice, raced>>
  BY <1>1 DEF Fault
<1>3. call[c] \in Call /\ HoldsAt(call[c])
  BY DEF HInv, Holding, Inv
<1>4. call[c].sock = None /\ call[c].pc \notin {"pos", "file"}
  BY <1>2, <1>3 DEF HoldsAt, Making, Call
<1>5. leaks' \in [Objects -> Nat] /\ \A o \in Objects : leaks'[o] = leaks[o] + Is(o, call[c].f)
  <2>1. leaks \in [Objects -> Nat]
    BY DEF HInv, Ledgers
  <2>2. \A o \in Objects : leaks'[o] = IF o = f THEN leaks[o] + 1 ELSE leaks[o]
    BY <1>2, <2>1
  <2>3. \A o \in Objects : leaks[o] \in Nat
    BY <2>1
  <2>4. leaks' \in [Objects -> Nat]
    <3>1. leaks' = [o \in Objects |-> IF o = f THEN leaks[o] + 1 ELSE leaks[o]]
      BY <1>2, <2>1
    <3>2. \A o \in Objects : (IF o = f THEN leaks[o] + 1 ELSE leaks[o]) \in Nat
      BY <2>3
    <3>3. QED
      BY <3>1, <3>2
  <2>5. QED
    BY <1>1, <2>2, <2>3, <2>4 DEF Is
<1>6. PICK r : r = [NoCall EXCEPT !.pc = "exited"]
  BY Zenon
<1>7. /\ NowAt(c, r) /\ Idle(r) /\ table' = [table EXCEPT ![c] = [d \in Fds |-> None]]
      /\ obj' = [o \in Objects |->
                  IF Own(c, o) = 0 THEN obj[o]
                  ELSE IF Own(c, o) = obj[o].refs THEN FreeObj
                  ELSE [obj[o] EXCEPT !.refs = @ - Own(c, o)]]
  BY <1>2, <1>6, DieFacts, Zenon
<1>8. QED
  BY <1>2, <1>4, <1>5, <1>7, ExitKeeps, Zenon

\* __net_socket.
LEMMA SocketHInv ==
  ASSUME Inv, Inv', HInv, NEW c \in Callers,
         \/ SocketCreate(c) \/ SocketFd(c) \/ SocketFile(c) \/ SocketFileFails(c)
         \/ SocketRelease(c)
  PROVE  HInv'
<1>1. CASE SocketCreate(c)
  <2>1. PICK o \in FreeObjects :
          /\ obj' = [obj EXCEPT ![o].kind = "bare"]
          /\ call' = [call EXCEPT ![c] = [At("fd", {}) EXCEPT !.sock = o]]
    BY <1>1, Zenon DEF SocketCreate
  <2>2. PICK r : r = [At("fd", {}) EXCEPT !.sock = o]
    BY Zenon
  <2>3. NowAt(c, r) /\ Idle(call[c]) /\ UNCHANGED <<table, ledgers>>
    BY <1>1, <2>1, <2>2, IdleAt, Zenon DEF NowAt, SocketCreate, Enter
  <2>4. r.sock = o /\ r.pc = "fd" /\ r.f = None
    BY <2>2 DEF At, NoCall
  <2>5. QED
    BY <2>1, <2>3, <2>4, CreateKeeps, Zenon
<1>2. CASE SocketFd(c)
  <2>1. /\ call[c].pc = "fd" /\ UNCHANGED <<obj, leaks, twice, raced>>
    BY <1>2 DEF SocketFd
  <2>2. ASSUME NEW d \in Fds, LowestFree(c, d), table' = [table EXCEPT ![c][d] = Reserved],
               call' = [call EXCEPT ![c].pc = "file", ![c].fd = d], UNCHANGED lost
        PROVE  HInv'
    <3>1. table[c][d] = None
      BY <2>2 DEF LowestFree
    <3>2. NowAt(c, [call[c] EXCEPT !.pc = "file", !.fd = d])
      BY <2>2, Zenon DEF NowAt
    <3>3. UNCHANGED ledgers
      BY <2>1, <2>2 DEF ledgers
    <3>4. QED
      BY <2>1, <2>2, <3>1, <3>2, <3>3, ReserveKeeps, Zenon
  <2>3. ASSUME lost' = lost \cup {call[c].sock}, call' = [call EXCEPT ![c] = NoCall],
               UNCHANGED table
        PROVE  HInv'
    BY <2>1, <2>3, LoseKeeps, ZenonT(30) DEF NowAt
  <2>4. QED
    BY <1>2, <2>2, <2>3 DEF SocketFd
<1>3. CASE SocketFile(c)
  <2>1. PICK o, d : call[c].sock = o /\ call[c].fd = d
    OBVIOUS
  <2>2. /\ call[c].pc = "file" /\ NowAt(c, NoCall) /\ UNCHANGED ledgers
        /\ obj' = [obj EXCEPT ![o] = NewObj("sock")] /\ table' = [table EXCEPT ![c][d] = o]
    BY <1>3, <2>1, Zenon DEF SocketFile, NowAt
  <2>3. QED
    BY <2>1, <2>2, FileKeeps, Zenon
<1>4. CASE SocketFileFails(c)
  <2>1. PICK o, d : call[c].sock = o /\ call[c].fd = d
    OBVIOUS
  <2>2. /\ call[c].pc = "file" /\ NowAt(c, [call[c] EXCEPT !.pc = "release"])
        /\ obj' = [obj EXCEPT ![o] = FreeObj] /\ table' = [table EXCEPT ![c][d] = None]
        /\ twice' = twice \cup {o} /\ UNCHANGED <<leaks, lost, raced>>
    BY <1>4, <2>1, Zenon DEF SocketFileFails, NowAt
  <2>3. QED
    BY <2>1, <2>2, FileFailsKeeps, Zenon
<1>5. CASE SocketRelease(c)
  <2>1. call[c].pc = "release" /\ UNCHANGED ledgers
    BY <1>5 DEF SocketRelease
  <2>2. PICK o : call[c].sock = o
    OBVIOUS
  <2>3. ASSUME Die(c) PROVE HInv'
    BY <2>1, <2>3, DieHInv
  <2>4. ASSUME obj' \in {obj, [obj EXCEPT ![o] = FreeObj]}, call' = [call EXCEPT ![c] = NoCall],
               UNCHANGED table
        PROVE  HInv'
    BY <2>1, <2>2, <2>4, SockReleaseKeeps, Zenon DEF NowAt
  <2>5. QED
    BY <1>5, <2>2, <2>3, <2>4, Zenon DEF SocketRelease
<1>6. QED
  BY <1>1, <1>2, <1>3, <1>4, <1>5

\* What makes a descriptor at once.
LEMMA NewFdHInv ==
  ASSUME Inv, Inv', HInv, NEW c \in Callers, AcceptReturn(c) \/ NetAnonFd(c)
  PROVE  HInv'
<1>1. Idle(call[c]) /\ UNCHANGED ledgers
  BY IdleAt DEF AcceptReturn, NetAnonFd, Enter
<1>2. PICK r : Idle(r) /\ NowAt(c, r)
  BY <1>1, AtFacts, SameRecord, SMTT(30) DEF AcceptReturn, NetAnonFd, NowAt
<1>3. CASE UNCHANGED <<obj, table>>
  BY <1>1, <1>2, <1>3, QuietKeeps, SMTT(30)
<1>4. CASE \E kind \in {"sock", "anon"} : NewFd(c, kind)
  <2>1. PICK kind \in {"sock", "anon"}, o \in FreeObjects, d \in Fds :
          /\ LowestFree(c, d)
          /\ obj' = [obj EXCEPT ![o] = NewObj(kind)]
          /\ table' = [table EXCEPT ![c][d] = o]
    BY <1>4, Zenon DEF NewFd
  <2>2. table[c][d] = None
    BY <2>1 DEF LowestFree
  <2>3. QED
    BY <1>1, <1>2, <2>1, <2>2, NewKeeps, ZenonT(30)
<1>5. QED
  BY <1>3, <1>4 DEF AcceptReturn, NetAnonFd

LEMMA ExitHInv ==
  ASSUME Inv, Inv', HInv, NEW c \in Callers, Exit(c)
  PROVE  HInv'
BY DieHInv DEF Exit

LEMMA NextHInv == Inv /\ Inv' /\ HInv /\ [Next]_vars => HInv'
<1> SUFFICES ASSUME Inv, Inv', HInv, [Next]_vars PROVE HInv'
  OBVIOUS
<1>1. CASE UNCHANGED vars
  <2>1. UNCHANGED <<obj, table, call, leaks, lost, twice, raced>>
    BY <1>1, ZenonT(30) DEF vars
  <2>2. Ledgers' /\ Alive' /\ RefsExact' /\ SocketsOwned'
    BY <2>1 DEF HInv, Ledgers, Alive, RefsExact, SocketsOwned
  <2>3. Holding'
    BY <2>1, ZenonT(30) DEF HInv, Holding, HoldsAt
  <2>4. Positions'
    BY <2>1, SMTT(30) DEF HInv, Positions, Uses
  <2>5. QED
    BY <2>2, <2>3, <2>4, SMTT(30) DEF HInv
<1>2. ASSUME NEW c \in Callers, WasiCall(c) PROVE HInv'
  BY <1>2, StoreHInv, SysHInv, PrestatHInv, CloseHInv, BeginsHInv, LoopHInv, EndHInv, ZenonT(30)
  DEF WasiCall
<1>3. ASSUME NEW c \in Callers, NetCall(c) PROVE HInv'
  BY <1>3, SysHInv, BeginsHInv, EndHInv, SocketHInv, NewFdHInv, SMTT(30) DEF NetCall
<1>4. QED
  BY <1>1, <1>2, <1>3, ExitHInv, FaultHInv DEF Next, Terminated

LEMMA HostInvariant == Spec => [](Inv /\ HInv)
BY InitInv, InitHInv, NextInv, NextHInv, PTL DEF Spec

\* fget and fput balance on every path of every host function, whatever other
\* callers do with the files they share, and do_exit gives back what is left;
\* what fd_prestat_get and a fault in a call keep is counted, and nothing is said
\* about a socket that was released twice.
THEOREM RefsAreExact == Spec => []RefsExact
<1>1. HInv => RefsExact
  BY DEF HInv
<1>2. QED
  BY <1>1, HostInvariant, PTL

\* A socket that __net_socket has created is in one call's hands until it has a
\* file, is lost for want of a descriptor, or is released twice for want of a
\* file; and a reserved descriptor belongs to one call.
THEOREM SocketsAreOwned == Spec => []SocketsOwned
<1>1. HInv => SocketsOwned
  BY SMTT(30) DEF HInv
<1>2. QED
  BY <1>1, HostInvariant, PTL

\* file_pos_write never sets a position past what was moved, and it sets the
\* exact one unless two calls used the file's position at a time.
THEOREM PositionsFollow == Spec => []PosFollows
<1>1. HInv => PosFollows
  <2> SUFFICES ASSUME HInv, NEW o \in Files
               PROVE  /\ obj[o].pos <= obj[o].moved
                      /\ (o \notin raced /\ ~\E c \in Callers : call[c].f = o /\ call[c].pc = "pos")
                           => obj[o].pos = obj[o].moved
    BY SMTT(30) DEF PosFollows
  <2>1. obj[o].pos <= obj[o].moved
    BY SMTT(30) DEF HInv, Positions
  <2>2. ASSUME o \notin raced, ~\E c \in Callers : call[c].f = o /\ call[c].pc = "pos"
        PROVE  obj[o].pos = obj[o].moved
    <3>1. \A c \in Callers : Uses(c, o) => call[c].pc # "pos"
      BY <2>2 DEF Uses
    <3>2. QED
      BY <2>2, <3>1, SMTT(30) DEF HInv, Positions
  <2>3. QED
    BY <2>1, <2>2
<1>2. QED
  BY <1>1, HostInvariant, PTL

=============================================================================
