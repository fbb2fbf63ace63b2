-------------------------- MODULE HostCallsProofs --------------------------
(***************************************************************************)
(* Host functions, for any number of callers, any contents of guest        *)
(* memory, any changes to it during a call, and for the real sizes of the  *)
(* constants as well as for the small ones that TLC uses.                  *)
(*                                                                         *)
(* First, that none takes an access out of the guest's address space.      *)
(* Then what HostLedgers needs for the references, descriptors, sockets    *)
(* and positions: the inductive invariant HInv, how the cardinalities in   *)
(* it change with one entry, and what a step that touches nothing else     *)
(* preserves.                                                              *)
(***************************************************************************)
EXTENDS HostCalls, FiniteSetTheorems, TLAPS

\* Every span of a set may be accessed for caller c.
Inside(c, spans) ==
  \A s \in spans : s.lo < bound[c] /\ s.hi <= bound[c] + s.slack /\ s.hi <= Area

\* The places in the loop of fd_read and fd_write, where a call has a file and a
\* counter that was checked.
Transferring == {"iov", "iovec", "io", "pos"}

InLoop(c, r) == r.pc \in Transferring => r.f \in Objects /\ Slice(c, r.out, 4)

\* The inductive invariant: records have the shape that their updates rely on,
\* and a call in the loop has its file and its counter.
Inv ==
  /\ bound \in [Callers -> 0 .. Available]
  /\ obj \in [Objects -> [kind : Kinds, refs : Int, pos : Nat, moved : Nat]]
  /\ call \in [Callers -> Call]
  /\ \A c \in Callers : InLoop(c, call[c])
  /\ InsideArea

LEMMA WordIsNat == ASSUME NEW w \in Words PROVE w \in Nat /\ w < U32
BY HostAssumption

\* An access that begins below the bound: the bound is at most Available.
LEMMA AccessInside ==
  ASSUME Inv, NEW c \in Callers, NEW p \in Nat, NEW m \in Nat, NEW slack \in Nat,
         p < bound[c], p + m <= bound[c] + slack, m <= U32
  PROVE  Inside(c, {Span(p, m, slack)})
<1>1. bound[c] \in Nat /\ bound[c] <= Available
  BY DEF Inv
<1>2. p + m <= Area
  BY <1>1, HostAssumption
<1>3. QED
  BY <1>2 DEF Span, Inside

\* A length that has not changed since the check.
LEMMA CheckedInside ==
  ASSUME Inv, NEW c \in Callers, NEW p \in Nat, NEW n \in Nat, Slice(c, p, n)
  PROVE  Inside(c, {Span(p, n, 0)})
<1>1. bound[c] \in Nat /\ bound[c] <= Available /\ p < bound[c] /\ p + n <= bound[c]
  BY DEF Inv, Slice
<1>2. p + n <= bound[c] + 0 /\ p + n <= Area
  BY <1>1, HostAssumption
<1>3. QED
  BY <1>1, <1>2 DEF Span, Inside

\* A length that was read again is a word.
LEMMA RereadInside ==
  ASSUME Inv, NEW c \in Callers, NEW p \in Nat, NEW n \in Nat, Slice(c, p, n),
         NEW m \in Nat, m < U32, NEW slack \in Nat, m <= n \/ m <= slack
  PROVE  Inside(c, {Span(p, m, slack)})
<1>1. bound[c] \in Nat /\ p < bound[c] /\ p + n <= bound[c]
  BY DEF Inv, Slice
<1>2. p + m <= bound[c] + slack /\ m <= U32
  BY <1>1, HostAssumption
<1>3. QED
  BY <1>1, <1>2, AccessInside

\* The address of bind, with the NUL that unix_bind adds.
LEMMA BindInside ==
  ASSUME Inv, NEW c \in Callers, NEW p \in Nat, NEW n \in Nat, n < U32, Slice(c, p, n)
  PROVE  /\ Inside(c, {Span(p, Max({n + 1, 2}), 1)})
         /\ Max({n + 1, 2}) \in Nat
<1>1. bound[c] \in Nat /\ bound[c] <= Available /\ p < bound[c] /\ p + n <= bound[c]
  BY DEF Inv, Slice
<1>2. PICK m : m = Max({n + 1, 2})
  OBVIOUS
<1>3. m \in {n + 1, 2}
  <2>1. \E x \in {n + 1, 2} : \A y \in {n + 1, 2} : x >= y
    OBVIOUS
  <2>2. QED
    BY <1>2, <2>1 DEF Max
<1>4. m \in Nat /\ p + m <= bound[c] + 1
  BY <1>1, <1>3
<1>5. p + m <= Area
  BY <1>1, <1>4, HostAssumption
<1>6. Inside(c, {Span(p, m, 1)})
  BY <1>1, <1>4, <1>5 DEF Span, Inside
<1>7. QED
  BY <1>2, <1>4, <1>6

LEMMA InsideUnion ==
  ASSUME NEW c, NEW S, NEW T, Inside(c, S), Inside(c, T)
  PROVE  Inside(c, S \cup T)
BY DEF Inside

\* The address of a peer, whose length the kernel reads again.
LEMMA PeerInside ==
  ASSUME Inv, NEW c \in Callers, NEW addr \in Words, NEW len_ptr \in Words,
         NEW len \in Words, NEW again \in Words, PeerOk(c, addr, len_ptr, len)
  PROVE  Inside(c, PeerSpans(c, addr, len_ptr, len, again))
<1> DEFINE m == Min({SockaddrMax, again})
<1>1. m \in Nat /\ m < U32 /\ m <= again /\ m <= SockaddrMax
  <2>1. \E x \in {SockaddrMax, again} : \A y \in {SockaddrMax, again} : x <= y
    BY HostAssumption, WordIsNat
  <2>2. m \in {SockaddrMax, again} /\ \A y \in {SockaddrMax, again} : m <= y
    BY <2>1 DEF Min
  <2>3. QED
    BY <2>2, HostAssumption, WordIsNat
<1>2. Inside(c, {Span(addr, m, Reread(len, again, SockaddrMax))})
  <2>1. PICK slack : slack = Reread(len, again, SockaddrMax)
    OBVIOUS
  <2>2. slack \in Nat /\ (m <= len \/ m <= slack)
    BY <1>1, <2>1, HostAssumption, WordIsNat DEF Reread
  <2>3. Slice(c, addr, len) /\ addr \in Nat /\ len \in Nat
    BY WordIsNat DEF PeerOk
  <2> HIDE DEF m
  <2>4. QED
    BY <1>1, <2>1, <2>2, <2>3, RereadInside
<1>3. Inside(c, {Span(len_ptr, 4, 0)})
  BY CheckedInside, WordIsNat, Zenon DEF PeerOk
<1>4. PeerSpans(c, addr, len_ptr, len, again)
        = {Span(len_ptr, 4, 0)} \cup {Span(addr, m, Reread(len, again, SockaddrMax))}
  BY DEF PeerSpans
<1>5. QED
  BY <1>2, <1>3, <1>4, Zenon DEF Inside

\* When the kernel accepts maxevents, the size that was checked in 32 bits is
\* the size of the array.
LEMMA EventsFit ==
  ASSUME NEW n \in 1 .. EpMaxEvents
  PROVE  (12 * n) % U32 = 12 * n
<1>1. U32 \div 2 - 1 < U32 /\ U32 \div 2 - 1 \in Int
  BY HostAssumption
<1>2. \A h \in Int, e \in Int : e \in 1 .. (h \div 12) => 12 * e <= h
  OBVIOUS
<1>3. 12 * n <= U32 \div 2 - 1
  BY <1>1, <1>2 DEF EpMaxEvents
<1>4. 12 * n \in Nat /\ 12 * n < U32
  BY <1>1, <1>3, HostAssumption DEF EpMaxEvents
<1>5. QED
  BY <1>4, HostAssumption

-----------------------------------------------------------------------------
\* The parts of Inv that say what a call record may be.
GoodCall(c, r) ==
  /\ r \in Call
  /\ InLoop(c, r)
  /\ Inside(c, r.ranges)

ObjType == [Objects -> [kind : Kinds, refs : Int, pos : Nat, moved : Nat]]

\* A step that gives one caller a new call record.
LEMMA NewCallInv ==
  ASSUME Inv, UNCHANGED bound, obj' \in ObjType, NEW c \in Callers, NEW r, GoodCall(c, r),
         call' = [call EXCEPT ![c] = r]
  PROVE  Inv'
<1>1. call' \in [Callers -> Call]
  BY DEF Inv, GoodCall
<1>2. \A d \in Callers : call'[d] = IF d = c THEN r ELSE call[d]
  BY DEF Inv
<1>3. InsideArea'
  BY <1>2 DEF Inv, InsideArea, Inside, GoodCall
<1>4. (\A d \in Callers : InLoop(d, call[d]))'
  BY <1>2 DEF Inv, GoodCall, InLoop, Slice
<1>5. QED
  BY <1>1, <1>3, <1>4 DEF Inv, ObjType

LEMMA NoCallOk == NoCall \in Call /\ \A c : GoodCall(c, NoCall)
BY DEF NoCall, Call, CallPCs, Inside, GoodCall, InLoop, Transferring

LEMMA SpanType ==
  ASSUME NEW p \in Nat, NEW n \in Nat, NEW slack \in Nat
  PROVE  {Span(p, n, slack)} \in SUBSET [lo : Nat, hi : Nat, slack : Nat]
BY DEF Span

\* A call record made by At.
LEMMA AtOk ==
  ASSUME NEW c, NEW pc \in CallPCs \ Transferring,
         NEW spans \in SUBSET [lo : Nat, hi : Nat, slack : Nat], Inside(c, spans)
  PROVE  GoodCall(c, At(pc, spans))
<1>1. At(pc, spans) = [NoCall EXCEPT !.pc = pc, !.ranges = spans]
  BY DEF At
<1>2. At(pc, spans) \in Call /\ At(pc, spans).ranges = spans /\ At(pc, spans).pc = pc
  BY <1>1, NoCallOk, Zenon DEF Call
<1>3. QED
  BY <1>2 DEF GoodCall, InLoop

\* A call record made of one span that was checked.
LEMMA SpanOk ==
  ASSUME Inv, NEW c \in Callers, NEW p \in Nat, NEW n \in Nat, Slice(c, p, n),
         NEW pc \in CallPCs \ Transferring
  PROVE  GoodCall(c, At(pc, {Span(p, n, 0)}))
<1> DEFINE spans == {Span(p, n, 0)}
<1>1. spans \in SUBSET [lo : Nat, hi : Nat, slack : Nat]
  BY SpanType, Zenon
<1>2. Inside(c, spans)
  BY CheckedInside, Zenon
<1> HIDE DEF spans
<1>3. GoodCall(c, At(pc, spans))
  BY <1>1, <1>2, AtOk
<1>4. QED
  BY <1>3 DEF spans

LEMMA EmptyOk ==
  ASSUME NEW c, NEW pc \in CallPCs \ Transferring
  PROVE  GoodCall(c, At(pc, {}))
BY AtOk, Zenon DEF Inside

LEMMA ReturnInv ==
  ASSUME Inv, UNCHANGED bound, obj' \in ObjType, NEW c \in Callers,
         call' = [call EXCEPT ![c] = NoCall]
  PROVE  Inv'
BY NewCallInv, NoCallOk, Zenon

LEMMA ProceedInv ==
  ASSUME Inv, UNCHANGED bound, obj' \in ObjType, NEW c \in Callers, NEW ok, NEW r,
         Proceed(c, ok, r), ok => GoodCall(c, r)
  PROVE  Inv'
<1>1. CASE ok
  BY <1>1, NewCallInv, Zenon DEF Proceed
<1>2. CASE ~ok
  BY <1>2, ReturnInv, Zenon DEF Proceed
<1>3. QED
  BY <1>1, <1>2

LEMMA SameCallInv == Inv /\ UNCHANGED <<bound, call>> /\ obj' \in ObjType => Inv'
BY DEF Inv, InsideArea, ObjType, InLoop, Slice

LEMMA SameObj == Inv /\ UNCHANGED obj => obj' \in ObjType
BY DEF Inv, ObjType

\* Objects keep their shape when one of them is taken or dropped.
LEMMA ObjTaken ==
  ASSUME Inv, NEW o
  PROVE  /\ [obj EXCEPT ![o] = Taken(o)] \in ObjType
         /\ [obj EXCEPT ![o] = Dropped(o)] \in ObjType
<1>1. FreeObj \in [kind : Kinds, refs : Int, pos : Nat, moved : Nat]
  BY DEF FreeObj, Kinds
<1>2. CASE o \in Objects
  <2>1. Taken(o) \in [kind : Kinds, refs : Int, pos : Nat, moved : Nat]
    BY <1>2 DEF Inv, Taken
  <2>2. Dropped(o) \in [kind : Kinds, refs : Int, pos : Nat, moved : Nat]
    BY <1>1, <1>2 DEF Inv, Dropped
  <2>3. QED
    BY <2>1, <2>2, Zenon DEF Inv, ObjType
<1>3. CASE o \notin Objects
  <2>1. [obj EXCEPT ![o] = Taken(o)] = obj /\ [obj EXCEPT ![o] = Dropped(o)] = obj
    BY <1>3 DEF Inv
  <2>2. QED
    BY <2>1, Zenon DEF Inv, ObjType
<1>4. QED
  BY <1>2, <1>3

LEMMA NewObjType ==
  ASSUME NEW kind \in Kinds
  PROVE  NewObj(kind) \in [kind : Kinds, refs : Int, pos : Nat, moved : Nat]
BY DEF NewObj

LEMMA ObjSet ==
  ASSUME Inv, NEW o, NEW kind \in Kinds
  PROVE  /\ [obj EXCEPT ![o] = NewObj(kind)] \in ObjType
         /\ [obj EXCEPT ![o] = FreeObj] \in ObjType
<1>1. FreeObj \in [kind : Kinds, refs : Int, pos : Nat, moved : Nat]
  BY DEF FreeObj, Kinds
<1>2. NewObj(kind) \in [kind : Kinds, refs : Int, pos : Nat, moved : Nat]
  BY NewObjType
<1>3. QED
  BY <1>1, <1>2, Zenon DEF Inv, ObjType

-----------------------------------------------------------------------------
(* wasi. *)

LEMMA StoreInv ==
  ASSUME Inv, NEW c \in Callers,
         EnvironSizesGet(c) \/ ArgsGet(c) \/ ArgsSizesGet(c) \/ StoreNext(c)
  PROVE  Inv'
<1>1. UNCHANGED <<bound, obj>>
  BY Zenon DEF EnvironSizesGet, ArgsGet, ArgsSizesGet, StoreNext
<1>2. ASSUME NEW n \in Nat, NEW m \in Nat, StoreFirst(c, n, m) PROVE Inv'
  <2> DEFINE a(p) == At("store", {Span(p, n, 0)})
             r(p) == [a(p) EXCEPT !.next = m]
  <2>1. PICK p \in Words : Proceed(c, Slice(c, p, n), r(p))
    BY <1>2, Zenon DEF StoreFirst
  <2>2. ASSUME Slice(c, p, n) PROVE GoodCall(c, r(p))
    <3>1. GoodCall(c, a(p))
      BY <2>2, SpanOk, WordIsNat, Zenon DEF CallPCs, Transferring
    <3> HIDE DEF a
    <3>2. /\ r(p) \in Call /\ r(p).ranges = a(p).ranges /\ r(p).pc = a(p).pc
          /\ r(p).f = a(p).f /\ r(p).out = a(p).out
      BY <3>1 DEF GoodCall, Call
    <3> HIDE DEF r
    <3>3. QED
      BY <3>1, <3>2 DEF GoodCall, InLoop
  <2> HIDE DEF r
  <2>3. QED
    BY <1>1, <2>1, <2>2, SameObj, ProceedInv
<1>3. CASE StoreNext(c)
  <2> DEFINE size == call[c].next
  <2>1. PICK p \in Words :
          Proceed(c, Slice(c, p, size), At("sys", {Span(p, size, 0)}))
    BY <1>3, Zenon DEF StoreNext
  <2>2. size \in Nat
    BY DEF Inv, Call
  <2> HIDE DEF size
  <2>3. Slice(c, p, size) => GoodCall(c, At("sys", {Span(p, size, 0)}))
    BY <2>2, SpanOk, WordIsNat, Zenon DEF CallPCs, Transferring
  <2>4. QED
    BY <1>1, <2>1, <2>3, SameObj, ProceedInv
<1>4. QED
  <2>1. 4 \in Nat /\ 5 \in Nat
    OBVIOUS
  <2>2. QED
    BY <1>2, <1>3, <2>1, Zenon DEF EnvironSizesGet, ArgsGet, ArgsSizesGet

LEMMA OneSpanInv ==
  ASSUME Inv, NEW c \in Callers, FdPrestatDirName(c) \/ FdSeek(c) \/ PathOpen(c)
  PROVE  Inv'
<1>1. UNCHANGED <<bound, obj>>
  BY Zenon DEF FdPrestatDirName, FdSeek, PathOpen
<1>2. PICK p \in Words, n \in Nat, ok \in BOOLEAN :
        /\ ok => Slice(c, p, n)
        /\ Proceed(c, ok, At("sys", {Span(p, n, 0)}))
  <2>1. CASE FdPrestatDirName(c)
    <3>1. PICK path \in Words, path_len \in Words \cup {4} :
            Proceed(c, path_len = 4 /\ Slice(c, path, path_len),
                    At("sys", {Span(path, path_len, 0)}))
      BY <2>1, Zenon DEF FdPrestatDirName
    <3>2. path_len \in Nat
      BY WordIsNat
    <3>3. QED
      BY <3>1, <3>2, Zenon DEF Slice
  <2>2. CASE FdSeek(c)
    <3>1. PICK newoffset \in Words :
            Proceed(c, Slice(c, newoffset, 8), At("sys", {Span(newoffset, 8, 0)}))
      BY <2>2, Zenon DEF FdSeek
    <3>2. QED
      BY <3>1, Zenon DEF Slice
  <2>3. CASE PathOpen(c)
    <3>1. PICK path \in Words, len \in Words :
            Proceed(c, Slice(c, path, len), At("sys", {Span(path, len, 0)}))
      BY <2>3, Zenon DEF PathOpen
    <3>2. QED
      BY <3>1, WordIsNat, Zenon DEF Slice
  <2>4. QED
    BY <2>1, <2>2, <2>3, Zenon
<1>3. ok => GoodCall(c, At("sys", {Span(p, n, 0)}))
  BY <1>2, SpanOk, WordIsNat, Zenon DEF CallPCs, Transferring
<1>4. QED
  BY <1>1, <1>2, <1>3, SameObj, ProceedInv

LEMMA PrestatInv ==
  ASSUME Inv, NEW c \in Callers, FdPrestatGet(c)
  PROVE  Inv'
<1>1. PICK fd \in Fds, out \in Words :
        LET f == Fget(c, fd)
            ok == Slice(c, out, 8) /\ f # None
        IN /\ Proceed(c, ok, At("sys", {Span(out + 4, 4, 0)}))
           /\ obj' = IF ok THEN [obj EXCEPT ![f] = Taken(f)] ELSE obj
  BY Zenon DEF FdPrestatGet
<1>2. UNCHANGED bound /\ bound[c] \in Nat /\ out \in Nat
  BY WordIsNat DEF FdPrestatGet, Inv
<1>3. Slice(c, out, 8) => Slice(c, out + 4, 4)
  BY <1>2 DEF Slice
<1>4. Slice(c, out, 8) => GoodCall(c, At("sys", {Span(out + 4, 4, 0)}))
  <2>1. \A q \in Nat : Slice(c, q, 4) => GoodCall(c, At("sys", {Span(q, 4, 0)}))
    BY SpanOk, Zenon DEF CallPCs, Transferring
  <2>2. out + 4 \in Nat
    BY <1>2
  <2>3. QED
    BY <1>3, <2>1, <2>2, Zenon
<1>5. obj' \in ObjType
  BY <1>1, ObjTaken, SameObj, Zenon
<1>6. QED
  BY <1>1, <1>2, <1>4, <1>5, ProceedInv, Zenon

LEMMA CloseInv ==
  ASSUME Inv, NEW c \in Callers, FdClose(c)
  PROVE  Inv'
<1>1. PICK fd \in Fds :
        IF Fget(c, fd) = None THEN UNCHANGED obj
        ELSE obj' = [obj EXCEPT ![Fget(c, fd)] = Dropped(Fget(c, fd))]
  BY DEF FdClose
<1>2. QED
  BY <1>1, ObjTaken, SameObj, SameCallInv, Zenon DEF FdClose

\* fd_read and fd_write.
LEMMA ReadWriteInv ==
  ASSUME Inv, NEW c \in Callers,
         \/ ReadWriteBegin(c) \/ IovNext(c) \/ IovBad(c) \/ BufNext(c) \/ BufBad(c)
         \/ Move(c) \/ MoveFails(c) \/ FilePosWrite(c) \/ ReadWriteEnd(c)
  PROVE  Inv'
<1>0. /\ call[c] \in Call
      /\ call[c].pc \in Transferring => call[c].f \in Objects /\ Slice(c, call[c].out, 4)
  BY DEF Inv, InLoop
<1>1. CASE ReadWriteBegin(c)
  <2>1. PICK fd \in Fds, iovs \in Words, out \in Words, iovs_len \in IovLens :
          LET f == Fget(c, fd)
              found == Slice(c, out, 4) /\ f # None
              loop == [At("iov", {Span(out, 4, 0)}) EXCEPT
                         !.f = f, !.out = out, !.iovs = iovs, !.iovs_len = iovs_len]
          IN /\ Proceed(c, Slice(c, out, 4),
                        IF found THEN loop ELSE At("sys", {Span(out, 4, 0)}))
             /\ obj' = IF found THEN [obj EXCEPT ![f] = Taken(f)] ELSE obj
    BY <1>1, Zenon DEF ReadWriteBegin
  <2> DEFINE f == Fget(c, fd)
             found == Slice(c, out, 4) /\ f # None
             spans == {Span(out, 4, 0)}
             loop == [At("iov", spans) EXCEPT
                        !.f = f, !.out = out, !.iovs = iovs, !.iovs_len = iovs_len]
             r == IF found THEN loop ELSE At("sys", spans)
  <2>2. f \in Objects \cup {None} /\ iovs \in Nat /\ iovs_len \in Nat /\ out \in Nat
    BY WordIsNat, HostAssumption DEF Fget
  <2>3. obj' \in ObjType
    BY <2>1, ObjTaken, SameObj, Zenon
  <2>4. Proceed(c, Slice(c, out, 4), r) /\ UNCHANGED bound
    BY <1>1, <2>1, Zenon DEF ReadWriteBegin
  <2>5. spans \in SUBSET [lo : Nat, hi : Nat, slack : Nat]
    BY <2>2, SpanType, Zenon
  <2>6. ASSUME Slice(c, out, 4) PROVE GoodCall(c, r)
    <3>1. Inside(c, spans)
      BY <2>2, <2>6, CheckedInside, Zenon
    <3>2. CASE found
      <4> HIDE DEF f, spans
      <4>1. loop \in Call /\ loop.ranges = spans /\ loop.f = f /\ loop.out = out
        BY <2>2, <2>5 DEF At, NoCall, Call, CallPCs
      <4>2. f \in Objects
        BY <2>2, <3>2
      <4> HIDE DEF loop
      <4>3. GoodCall(c, loop)
        BY <2>6, <3>1, <4>1, <4>2, Zenon DEF GoodCall, InLoop
      <4>4. QED
        BY <3>2, <4>3
    <3>3. CASE ~found
      <4>1. GoodCall(c, At("sys", spans))
        BY <2>2, <2>6, SpanOk, Zenon DEF CallPCs, Transferring
      <4>2. QED
        BY <3>3, <4>1, Zenon
    <3>4. QED
      BY <3>2, <3>3
  <2> HIDE DEF r
  <2>7. QED
    BY <2>3, <2>4, <2>6, ProceedInv, Zenon
<1>2. CASE IovNext(c)
  <2> DEFINE p == IovAddr(c)
             spans == {Span(p, 8, 0)}
             r == [call[c] EXCEPT !.pc = "iovec", !.ranges = spans]
  <2>1. call' = [call EXCEPT ![c] = r] /\ Slice(c, p, 8) /\ UNCHANGED <<bound, obj>>
    BY <1>2, Zenon DEF IovNext
  <2>2. p \in Nat
    <3>1. call[c].iovs \in Nat /\ call[c].i \in Nat
      BY <1>0 DEF Call
    <3>2. QED
      BY <3>1, HostAssumption DEF IovAddr
  <2> HIDE DEF p
  <2>3. Inside(c, spans) /\ spans \in SUBSET [lo : Nat, hi : Nat, slack : Nat]
    BY <2>1, <2>2, CheckedInside, SpanType
  <2> HIDE DEF spans
  <2>4. r \in Call /\ r.ranges = spans /\ r.f = call[c].f /\ r.out = call[c].out
    BY <1>0, <2>3, Zenon DEF Call, CallPCs
  <2>5. call[c].f \in Objects /\ Slice(c, call[c].out, 4)
    BY <1>0, <1>2 DEF IovNext, Transferring
  <2> HIDE DEF r
  <2>6. GoodCall(c, r)
    BY <2>3, <2>4, <2>5, Zenon DEF GoodCall, InLoop
  <2>7. QED
    BY <2>1, <2>6, NewCallInv, SameObj, Zenon
<1>3. CASE BufNext(c)
  <2>1. PICK buf \in Words, buf_len \in Words, again \in Words :
          /\ Slice(c, buf, buf_len)
          /\ call' = [call EXCEPT ![c].pc = "io", ![c].pos = obj[call[c].f].pos,
                                  ![c].ranges = {Span(buf, again, Reread(buf_len, again, U32))}]
    BY <1>3, Zenon DEF BufNext
  <2> DEFINE slack == Reread(buf_len, again, U32)
             spans == {Span(buf, again, slack)}
             r == [call[c] EXCEPT !.pc = "io", !.pos = obj[call[c].f].pos, !.ranges = spans]
  <2>2. /\ buf \in Nat /\ buf_len \in Nat /\ again \in Nat /\ again < U32
        /\ slack \in Nat /\ (again <= buf_len \/ again <= slack)
    BY WordIsNat, HostAssumption DEF Reread
  <2>3. call' = [call EXCEPT ![c] = r]
    BY <2>1, Zenon
  <2> HIDE DEF slack
  <2>4. Inside(c, spans) /\ spans \in SUBSET [lo : Nat, hi : Nat, slack : Nat]
    BY <2>1, <2>2, RereadInside, SpanType
  <2>5. call[c].f \in Objects /\ Slice(c, call[c].out, 4) /\ obj[call[c].f].pos \in Nat
    BY <1>0, <1>3 DEF BufNext, Inv, Transferring
  <2> HIDE DEF spans
  <2>6. r \in Call /\ r.ranges = spans /\ r.f = call[c].f /\ r.out = call[c].out
    BY <1>0, <2>4, <2>5, Zenon DEF Call, CallPCs
  <2> HIDE DEF r
  <2>7. GoodCall(c, r)
    BY <2>4, <2>5, <2>6 DEF GoodCall, InLoop
  <2>8. UNCHANGED <<bound, obj>>
    BY <1>3 DEF BufNext
  <2>9. QED
    BY <2>3, <2>7, <2>8, NewCallInv, SameObj, Zenon
<1>4. CASE IovBad(c) \/ BufBad(c) \/ MoveFails(c) \/ ReadWriteEnd(c)
  BY <1>4, ReturnInv, ObjTaken, Zenon
  DEF IovBad, BufBad, MoveFails, ReadWriteEnd, ReadWriteReturn
<1>5. CASE Move(c)
  <2> DEFINE f == call[c].f
             spans == {Span(call[c].out, 4, 0)}
  <2>1. PICK ret \in Moves :
          /\ call' = [call EXCEPT
                        ![c].pc = "pos", ![c].ranges = spans,
                        ![c].pos = IF obj[f].kind = "file" THEN @ + ret ELSE @]
          /\ obj' = [obj EXCEPT ![f].moved = @ + ret]
    BY <1>5, Zenon DEF Move
  <2> DEFINE pos == IF obj[f].kind = "file" THEN call[c].pos + ret ELSE call[c].pos
             r == [call[c] EXCEPT !.pc = "pos", !.ranges = spans, !.pos = pos]
  <2>2. call' = [call EXCEPT ![c] = r]
    BY <2>1, Zenon
  <2>3. ret \in Nat /\ pos \in Nat /\ call[c].out \in Nat
    BY <1>0, HostAssumption DEF Call
  <2>4. f \in Objects /\ Slice(c, call[c].out, 4) /\ UNCHANGED bound
    BY <1>0, <1>5 DEF Move, Transferring
  <2>5. obj' \in ObjType
    BY <2>1, <2>3, <2>4 DEF Inv, ObjType
  <2> HIDE DEF pos
  <2>6. Inside(c, spans) /\ spans \in SUBSET [lo : Nat, hi : Nat, slack : Nat]
    BY <2>3, <2>4, CheckedInside, SpanType, Zenon
  <2> HIDE DEF spans
  <2>7. r \in Call /\ r.ranges = spans /\ r.f = f /\ r.out = call[c].out
    BY <1>0, <2>3, <2>6, Zenon DEF Call, CallPCs
  <2> HIDE DEF r
  <2>8. GoodCall(c, r)
    BY <2>4, <2>6, <2>7 DEF GoodCall, InLoop
  <2>9. QED
    BY <2>2, <2>4, <2>5, <2>8, NewCallInv, Zenon
<1>6. CASE FilePosWrite(c)
  <2> DEFINE n == call[c].i + 1
             r == [call[c] EXCEPT !.pc = "iov", !.i = n, !.ranges = {}]
  <2>1. call' = [call EXCEPT ![c] = r] /\ UNCHANGED bound
    BY <1>6, Zenon DEF FilePosWrite
  <2>2. /\ call[c].f \in Objects /\ Slice(c, call[c].out, 4)
        /\ call[c].pos \in Nat /\ call[c].i \in Nat
    BY <1>0, <1>6 DEF FilePosWrite, Call, Transferring
  <2>3. obj' \in ObjType
    BY <1>6, <2>2 DEF FilePosWrite, Inv, ObjType
  <2>4. n \in Nat
    BY <2>2
  <2> HIDE DEF n
  <2>5. r \in Call /\ r.ranges = {} /\ r.f = call[c].f /\ r.out = call[c].out
    BY <1>0, <2>4, Zenon DEF Call, CallPCs
  <2> HIDE DEF r
  <2>6. GoodCall(c, r)
    BY <2>2, <2>5 DEF GoodCall, InLoop, Inside
  <2>7. QED
    BY <2>1, <2>3, <2>6, NewCallInv, Zenon
<1>7. QED
  BY <1>1, <1>2, <1>3, <1>4, <1>5, <1>6

-----------------------------------------------------------------------------
(* networking. *)

\* do_exit.
LEMMA DieInv ==
  ASSUME Inv, NEW c \in Callers, Die(c), UNCHANGED bound
  PROVE  Inv'
<1> DEFINE slots(o) == Cardinality({d \in Fds : table[c][d] = o})
           r == [NoCall EXCEPT !.pc = "exited"]
<1>1. /\ call' = [call EXCEPT ![c] = r]
      /\ obj' = [o \in Objects |->
                  IF slots(o) = 0 THEN obj[o]
                  ELSE IF slots(o) = obj[o].refs THEN FreeObj
                  ELSE [obj[o] EXCEPT !.refs = @ - slots(o)]]
  BY Zenon DEF Die
<1>2. r \in Call /\ r.ranges = {} /\ r.pc = "exited"
  BY NoCallOk DEF NoCall, Call, CallPCs
<1> HIDE DEF r, slots
<1>3. GoodCall(c, r)
  BY <1>2 DEF GoodCall, InLoop, Inside, Transferring
<1>4. obj' \in ObjType
  <2>1. FreeObj \in [kind : Kinds, refs : Int, pos : Nat, moved : Nat]
    BY DEF FreeObj, Kinds
  <2>2. ASSUME NEW o \in Objects
        PROVE  [obj[o] EXCEPT !.refs = @ - slots(o)]
                 \in [kind : Kinds, refs : Int, pos : Nat, moved : Nat]
    <3>1. slots(o) \in Nat
      BY HostAssumption, FS_Subset, FS_CardinalityType DEF slots
    <3>2. QED
      BY <3>1 DEF Inv
  <2>3. QED
    BY <1>1, <2>1, <2>2 DEF Inv, ObjType
<1>5. QED
  BY <1>1, <1>3, <1>4, NewCallInv, Zenon

LEMMA SocketInv ==
  ASSUME Inv, NEW c \in Callers,
         \/ SocketCreate(c) \/ SocketFd(c) \/ SocketFile(c) \/ SocketFileFails(c)
         \/ SocketRelease(c)
  PROVE  Inv'
<1>0. call[c] \in Call /\ Inside(c, call[c].ranges) /\ UNCHANGED bound
  BY DEF Inv, InsideArea, Inside, SocketCreate, SocketFd, SocketFile, SocketFileFails,
     SocketRelease
<1>1. CASE SocketCreate(c)
  <2>1. PICK o \in FreeObjects :
          /\ obj' = [obj EXCEPT ![o].kind = "bare"]
          /\ call' = [call EXCEPT ![c] = [At("fd", {}) EXCEPT !.sock = o]]
    BY <1>1, Zenon DEF SocketCreate
  <2> DEFINE a == At("fd", {})
             r == [a EXCEPT !.sock = o]
  <2>2. o \in Pool /\ o \in Objects
    BY DEF FreeObjects, Objects
  <2>3. obj' \in ObjType
    BY <2>1, <2>2 DEF Inv, ObjType, Kinds
  <2>4. GoodCall(c, a)
    BY EmptyOk DEF CallPCs, Transferring
  <2> HIDE DEF a
  <2>5. r \in Call /\ r.ranges = a.ranges /\ r.pc = a.pc /\ r.f = a.f /\ r.out = a.out
    BY <2>2, <2>4 DEF GoodCall, Call
  <2>6. GoodCall(c, r) /\ call' = [call EXCEPT ![c] = r]
    BY <2>1, <2>4, <2>5 DEF GoodCall, InLoop, a
  <2> HIDE DEF r
  <2>7. QED
    BY <1>0, <2>3, <2>6, NewCallInv, Zenon
<1>2. CASE SocketFd(c)
  <2>1. UNCHANGED obj
    BY <1>2 DEF SocketFd
  <2>2. CASE call' = [call EXCEPT ![c] = NoCall]
    BY <1>0, <2>1, <2>2, ReturnInv, SameObj, Zenon
  <2>3. CASE \E d \in Fds : call' = [call EXCEPT ![c].pc = "file", ![c].fd = d]
    <3>1. PICK d \in Fds : call' = [call EXCEPT ![c].pc = "file", ![c].fd = d]
      BY <2>3, Zenon
    <3> DEFINE r == [call[c] EXCEPT !.pc = "file", !.fd = d]
    <3>2. call' = [call EXCEPT ![c] = r]
      BY <3>1, Zenon
    <3>3. r \in Call /\ r.ranges = call[c].ranges /\ r.pc = "file"
      BY <1>0, Zenon DEF Call, CallPCs
    <3>4. GoodCall(c, r)
      BY <1>0, <3>3 DEF GoodCall, InLoop, Transferring
    <3> HIDE DEF r
    <3>5. QED
      BY <1>0, <2>1, <3>2, <3>4, NewCallInv, SameObj, Zenon
  <2>4. QED
    BY <1>2, <2>2, <2>3 DEF SocketFd, LowestFree
<1>3. CASE SocketFile(c)
  <2>1. /\ call' = [call EXCEPT ![c] = NoCall]
        /\ obj' = [obj EXCEPT ![call[c].sock] = NewObj("sock")]
    BY <1>3 DEF SocketFile
  <2>2. obj' \in ObjType
    BY <2>1, ObjSet, Zenon DEF Kinds
  <2>3. QED
    BY <1>0, <2>1, <2>2, ReturnInv, Zenon
<1>4. CASE SocketFileFails(c)
  <2> DEFINE r == [call[c] EXCEPT !.pc = "release"]
  <2>1. call' = [call EXCEPT ![c] = r] /\ obj' = [obj EXCEPT ![call[c].sock] = FreeObj]
    BY <1>4, Zenon DEF SocketFileFails
  <2>2. obj' \in ObjType
    BY <2>1, ObjSet, Zenon DEF Kinds
  <2>3. r \in Call /\ r.ranges = call[c].ranges /\ r.pc = "release"
    BY <1>0, Zenon DEF Call, CallPCs
  <2>4. GoodCall(c, r)
    BY <1>0, <2>3 DEF GoodCall, InLoop, Transferring
  <2> HIDE DEF r
  <2>5. QED
    BY <1>0, <2>1, <2>2, <2>4, NewCallInv, Zenon
<1>5. CASE SocketRelease(c)
  <2>1. CASE Die(c)
    BY <1>0, <2>1, DieInv
  <2>2. CASE /\ obj' \in {obj, [obj EXCEPT ![call[c].sock] = FreeObj]}
             /\ call' = [call EXCEPT ![c] = NoCall]
    <3>1. obj \in ObjType /\ [obj EXCEPT ![call[c].sock] = FreeObj] \in ObjType
      <4>1. "sock" \in Kinds
        BY DEF Kinds
      <4>2. QED
        BY <4>1, ObjSet, Zenon DEF Inv, ObjType
    <3>2. obj' \in ObjType
      BY <2>2, <3>1
    <3>3. QED
      BY <1>0, <2>2, <3>2, ReturnInv, Zenon
  <2>3. QED
    BY <1>5, <2>1, <2>2 DEF SocketRelease
<1>6. QED
  BY <1>1, <1>2, <1>3, <1>4, <1>5

LEMMA BindInv ==
  ASSUME Inv, NEW c \in Callers, NetBind(c) \/ NetListen(c) \/ NetDone(c)
  PROVE  Inv'
<1>0. UNCHANGED bound
  BY Zenon DEF NetBind, NetListen, NetDone
<1>1. ASSUME NEW a, GoodCall(c, a), a.pc \in {"bind", "listen"}, NEW fd \in Fds
      PROVE  GoodCall(c, [a EXCEPT !.f = Fget(c, fd)])
  <2> DEFINE f == Fget(c, fd)
             r == [a EXCEPT !.f = f]
  <2>1. f \in Objects \cup {None}
    BY DEF Fget
  <2> HIDE DEF f
  <2>2. r \in Call /\ r.ranges = a.ranges /\ r.pc = a.pc
    BY <1>1, <2>1 DEF GoodCall, Call
  <2> HIDE DEF r
  <2>3. GoodCall(c, r)
    BY <1>1, <2>2 DEF GoodCall, InLoop, Transferring
  <2>4. QED
    BY <2>3 DEF f, r
<1>2. ASSUME NEW spans \in SUBSET [lo : Nat, hi : Nat, slack : Nat], Inside(c, spans),
             NEW pc \in {"bind", "listen"}
      PROVE  GoodCall(c, At(pc, spans)) /\ At(pc, spans).pc = pc
  <2>1. pc \in CallPCs \ Transferring
    BY DEF CallPCs, Transferring
  <2>2. QED
    BY <1>2, <2>1, AtOk, NoCallOk, Zenon DEF At, Call
<1>3. CASE NetBind(c)
  <2>1. PICK fd \in Fds, sockaddr \in Words, len \in Words, unix \in BOOLEAN :
          LET f == Fget(c, fd)
              ok == /\ f # None /\ obj[f].kind = "sock"
                    /\ IF sockaddr # 0 THEN Slice(c, sockaddr, len) ELSE len = 0
              span == IF unix THEN Span(sockaddr, Max({len + 1, 2}), 1)
                              ELSE Span(sockaddr, len, 0)
          IN /\ Proceed(c, ok, [At("bind", IF sockaddr # 0 THEN {span} ELSE {}) EXCEPT !.f = f])
             /\ obj' = IF ok THEN [obj EXCEPT ![f] = Taken(f)] ELSE obj
    BY <1>3, Zenon DEF NetBind
  <2> DEFINE span == IF unix THEN Span(sockaddr, Max({len + 1, 2}), 1)
                             ELSE Span(sockaddr, len, 0)
             spans == IF sockaddr # 0 THEN {span} ELSE {}
  <2>2. ASSUME sockaddr # 0 => Slice(c, sockaddr, len)
        PROVE  spans \in SUBSET [lo : Nat, hi : Nat, slack : Nat] /\ Inside(c, spans)
    <3>1. sockaddr \in Nat /\ len \in Nat /\ len < U32 /\ 0 \in Nat /\ 1 \in Nat
      BY WordIsNat
    <3>2. CASE sockaddr = 0
      BY <3>2, Zenon DEF Inside
    <3>3. CASE sockaddr # 0
      <4>1. /\ Inside(c, {Span(sockaddr, Max({len + 1, 2}), 1)}) /\ Max({len + 1, 2}) \in Nat
            /\ Inside(c, {Span(sockaddr, len, 0)})
        BY <2>2, <3>1, <3>3, BindInside, CheckedInside, Zenon
      <4>2. /\ {Span(sockaddr, Max({len + 1, 2}), 1)} \in SUBSET [lo : Nat, hi : Nat, slack : Nat]
            /\ {Span(sockaddr, len, 0)} \in SUBSET [lo : Nat, hi : Nat, slack : Nat]
        BY <3>1, <4>1, SpanType, Zenon
      <4>3. QED
        BY <3>3, <4>1, <4>2, Zenon
    <3>4. QED
      BY <3>2, <3>3
  <2>3. obj' \in ObjType
    BY <2>1, ObjTaken, SameObj, Zenon
  <2> HIDE DEF spans
  <2>4. (sockaddr # 0 => Slice(c, sockaddr, len))
          => GoodCall(c, [At("bind", spans) EXCEPT !.f = Fget(c, fd)])
    BY <1>1, <1>2, <2>2
  <2>5. QED
    BY <1>0, <2>1, <2>3, <2>4, ProceedInv, Zenon DEF spans
<1>4. CASE NetListen(c)
  <2>1. PICK fd \in Fds :
          LET f == Fget(c, fd)
              ok == f # None /\ obj[f].kind = "sock"
          IN /\ Proceed(c, ok, [At("listen", {}) EXCEPT !.f = f])
             /\ obj' = IF ok THEN [obj EXCEPT ![f] = Taken(f)] ELSE obj
    BY <1>4, Zenon DEF NetListen
  <2>2. obj' \in ObjType
    BY <2>1, ObjTaken, SameObj, Zenon
  <2>3. GoodCall(c, [At("listen", {}) EXCEPT !.f = Fget(c, fd)])
    BY <1>1, <1>2 DEF Inside
  <2>4. QED
    BY <1>0, <2>1, <2>2, <2>3, ProceedInv
<1>5. CASE NetDone(c)
  BY <1>0, <1>5, ObjTaken, ReturnInv, Zenon DEF NetDone
<1>6. QED
  BY <1>3, <1>4, <1>5

\* Functions that check addresses and make a system call.
LEMMA PeerType ==
  ASSUME NEW c, NEW addr \in Words, NEW len_ptr \in Words, NEW len, NEW again \in Words
  PROVE  PeerSpans(c, addr, len_ptr, len, again)
           \in SUBSET [lo : Nat, hi : Nat, slack : Nat]
<1> DEFINE m == Min({SockaddrMax, again})
<1>1. m \in Nat
  <2>1. \E x \in {SockaddrMax, again} : \A y \in {SockaddrMax, again} : x <= y
    BY HostAssumption, WordIsNat
  <2>2. m \in {SockaddrMax, again}
    BY <2>1 DEF Min
  <2>3. QED
    BY <2>2, HostAssumption, WordIsNat
<1>2. PeerSpans(c, addr, len_ptr, len, again)
        = {Span(len_ptr, 4, 0)} \cup {Span(addr, m, Reread(len, again, SockaddrMax))}
  BY Zenon DEF PeerSpans
<1> HIDE DEF m
<1>3. {Span(addr, m, Reread(len, again, SockaddrMax))}
        \in SUBSET [lo : Nat, hi : Nat, slack : Nat]
  <2>1. Reread(len, again, SockaddrMax) \in Nat
    BY HostAssumption DEF Reread
  <2>2. QED
    BY <1>1, <2>1, WordIsNat, SpanType, Zenon
<1>4. {Span(len_ptr, 4, 0)} \in SUBSET [lo : Nat, hi : Nat, slack : Nat]
  BY WordIsNat, SpanType, Zenon
<1>5. QED
  BY <1>2, <1>3, <1>4, Zenon

LEMMA SysCallInv ==
  ASSUME Inv, NEW c \in Callers, UNCHANGED <<bound, obj>>, NEW ok,
         NEW spans \in SUBSET [lo : Nat, hi : Nat, slack : Nat], ok => Inside(c, spans),
         NEW pc \in {"sys", "accept"}, Proceed(c, ok, At(pc, spans))
  PROVE  Inv'
<1>1. ok => GoodCall(c, At(pc, spans))
  BY AtOk DEF CallPCs, Transferring
<1>2. QED
  BY <1>1, ProceedInv, SameObj

LEMMA AcceptInv ==
  ASSUME Inv, NEW c \in Callers, NetAccept4(c)
  PROVE  Inv'
<1>1. UNCHANGED <<bound, obj>>
  BY DEF NetAccept4
<1>2. PICK addr \in Words, len_ptr \in Words, len \in Words, again \in Words :
        IF addr # 0
        THEN Proceed(c, PeerOk(c, addr, len_ptr, len),
                     At("accept", PeerSpans(c, addr, len_ptr, len, again)))
        ELSE Proceed(c, TRUE, At("accept", {}))
  BY Zenon DEF NetAccept4
<1>3. CASE addr # 0
  BY <1>1, <1>2, <1>3, PeerInside, PeerType, SysCallInv
<1>4. CASE addr = 0
  BY <1>1, <1>2, <1>4, SysCallInv, Zenon DEF Inside
<1>5. QED
  BY <1>3, <1>4

LEMMA RecvfromInv ==
  ASSUME Inv, NEW c \in Callers, NetRecvfrom(c)
  PROVE  Inv'
<1>1. UNCHANGED <<bound, obj>>
  BY DEF NetRecvfrom
<1>2. PICK buf \in Words, size \in Words, addr \in Words, len_ptr \in Words,
           len \in Words, again \in Words :
        LET ok == Slice(c, buf, size) /\ (addr # 0 => PeerOk(c, addr, len_ptr, len))
            peer == IF addr # 0 THEN PeerSpans(c, addr, len_ptr, len, again) ELSE {}
        IN Proceed(c, ok, At("sys", {Span(buf, size, 0)} \cup peer))
  BY Zenon DEF NetRecvfrom
<1> DEFINE ok == Slice(c, buf, size) /\ (addr # 0 => PeerOk(c, addr, len_ptr, len))
           peer == IF addr # 0 THEN PeerSpans(c, addr, len_ptr, len, again) ELSE {}
           data == {Span(buf, size, 0)}
<1>3. Proceed(c, ok, At("sys", data \cup peer))
  BY <1>2
<1>4. /\ peer \in SUBSET [lo : Nat, hi : Nat, slack : Nat]
      /\ data \in SUBSET [lo : Nat, hi : Nat, slack : Nat]
  BY PeerType, SpanType, WordIsNat, Zenon
<1>5. ok => Inside(c, peer)
  BY PeerInside DEF Inside
<1>6. ok => Inside(c, data)
  BY CheckedInside, WordIsNat, Zenon
<1> HIDE DEF ok, peer, data
<1>7. ok => Inside(c, data \cup peer)
  BY <1>5, <1>6, InsideUnion
<1>8. data \cup peer \in SUBSET [lo : Nat, hi : Nat, slack : Nat]
  BY <1>4
<1>9. QED
  BY <1>1, <1>3, <1>7, <1>8, SysCallInv

LEMMA SendtoInv ==
  ASSUME Inv, NEW c \in Callers, NetSendto(c)
  PROVE  Inv'
<1>1. UNCHANGED <<bound, obj>>
  BY DEF NetSendto
<1>2. PICK buf \in Words, size \in Words, addr \in Words, len \in Words :
        LET ok == Slice(c, buf, size) /\ (addr # 0 => Slice(c, addr, len))
            peer == IF addr # 0 /\ len <= SockaddrMax THEN {Span(addr, len, 0)} ELSE {}
        IN Proceed(c, ok, At("sys", {Span(buf, size, 0)} \cup peer))
  BY Zenon DEF NetSendto
<1> DEFINE ok == Slice(c, buf, size) /\ (addr # 0 => Slice(c, addr, len))
           peer == IF addr # 0 /\ len <= SockaddrMax THEN {Span(addr, len, 0)} ELSE {}
           data == {Span(buf, size, 0)}
<1>3. Proceed(c, ok, At("sys", data \cup peer))
  BY <1>2
<1>4. /\ peer \in SUBSET [lo : Nat, hi : Nat, slack : Nat]
      /\ data \in SUBSET [lo : Nat, hi : Nat, slack : Nat]
  BY SpanType, WordIsNat, Zenon
<1>5. ok => Inside(c, peer)
  BY CheckedInside, WordIsNat, Zenon DEF Inside
<1>6. ok => Inside(c, data)
  BY CheckedInside, WordIsNat, Zenon
<1> HIDE DEF ok, peer, data
<1>7. ok => Inside(c, data \cup peer)
  BY <1>5, <1>6, InsideUnion
<1>8. data \cup peer \in SUBSET [lo : Nat, hi : Nat, slack : Nat]
  BY <1>4
<1>9. QED
  BY <1>1, <1>3, <1>7, <1>8, SysCallInv

LEMMA EpollInv ==
  ASSUME Inv, NEW c \in Callers, NetEpollCtl(c) \/ NetEpollWait(c)
  PROVE  Inv'
<1>1. UNCHANGED <<bound, obj>>
  BY Zenon DEF NetEpollCtl, NetEpollWait
<1>2. CASE NetEpollCtl(c)
  <2>1. PICK event \in Words :
          IF event # 0
          THEN Proceed(c, Slice(c, event, 12), At("sys", {Span(event, 12, 0)}))
          ELSE Proceed(c, TRUE, At("sys", {}))
    BY <1>2, Zenon DEF NetEpollCtl
  <2>2. CASE event # 0
    BY <1>1, <2>1, <2>2, SpanType, CheckedInside, WordIsNat, SysCallInv, Zenon
  <2>3. CASE event = 0
    BY <1>1, <2>1, <2>3, SysCallInv, Zenon DEF Inside
  <2>4. QED
    BY <2>2, <2>3
<1>3. CASE NetEpollWait(c)
  <2>1. PICK events \in Words, maxevents \in Words :
          Proceed(c, Slice(c, events, (12 * maxevents) % U32),
                  At("sys", IF maxevents \in 1 .. EpMaxEvents
                            THEN {Span(events, 12 * maxevents, 0)} ELSE {}))
    BY <1>3, Zenon DEF NetEpollWait
  <2> DEFINE n == 12 * maxevents
             ok == Slice(c, events, n % U32)
             spans == IF maxevents \in 1 .. EpMaxEvents THEN {Span(events, n, 0)} ELSE {}
  <2>2. Proceed(c, ok, At("sys", spans))
    BY <2>1
  <2>3. n \in Nat /\ (maxevents \in 1 .. EpMaxEvents => n % U32 = n)
    BY EventsFit, WordIsNat
  <2> HIDE DEF n
  <2>4. spans \in SUBSET [lo : Nat, hi : Nat, slack : Nat]
    BY <2>3, SpanType, WordIsNat, Zenon
  <2>5. ok => Inside(c, spans)
    BY <2>3, CheckedInside, WordIsNat, Zenon DEF Inside
  <2> HIDE DEF ok, spans
  <2>6. QED
    BY <1>1, <2>2, <2>4, <2>5, SysCallInv
<1>4. QED
  BY <1>2, <1>3

\* What creates a descriptor, and what only returns.
LEMMA NewFdObj ==
  ASSUME Inv, NEW c \in Callers, NEW kind \in Kinds, NewFd(c, kind)
  PROVE  obj' \in ObjType
<1>1. PICK o \in FreeObjects : obj' = [obj EXCEPT ![o] = NewObj(kind)]
  BY Zenon DEF NewFd
<1>2. QED
  BY <1>1, ObjSet, Zenon

LEMMA ReturningInv ==
  ASSUME Inv, NEW c \in Callers,
         SysReturn(c) \/ AcceptReturn(c) \/ NetAnonFd(c) \/ NoEffect(c) \/ NetFcntl(c)
  PROVE  Inv'
<1>1. CASE SysReturn(c)
  BY <1>1, SameObj, ReturnInv, Zenon DEF SysReturn
<1>2. CASE AcceptReturn(c)
  BY <1>2, SameObj, NewFdObj, ReturnInv, Zenon DEF AcceptReturn, Kinds
<1>3. CASE NetAnonFd(c)
  BY <1>3, NewFdObj, SameCallInv DEF NetAnonFd, Kinds
<1>4. CASE NoEffect(c) \/ NetFcntl(c)
  BY <1>4, SameObj, SameCallInv DEF NoEffect, NetFcntl
<1>5. QED
  BY <1>1, <1>2, <1>3, <1>4

\* proc_exit and faults.
LEMMA ExitInv ==
  ASSUME Inv, NEW c \in Callers, Exit(c) \/ Fault(c)
  PROVE  Inv'
BY DieInv, Zenon DEF Exit, Fault

-----------------------------------------------------------------------------
LEMMA InitInv == Init => Inv
<1> SUFFICES ASSUME Init PROVE Inv
  OBVIOUS
<1>1. Cardinality(Callers) \in Nat
  BY FS_CardinalityType, HostAssumption
<1>2. bound \in [Callers -> 0 .. Available]
  BY HostAssumption DEF Init
<1>3. call \in [Callers -> Call] /\ \A c \in Callers : call[c] = NoCall
  BY NoCallOk DEF Init
<1>4. obj \in ObjType
  <2>1. FreeObj \in [kind : Kinds, refs : Int, pos : Nat, moved : Nat]
    BY DEF FreeObj, Kinds
  <2>2. NewObj("file") \in [kind : Kinds, refs : Int, pos : Nat, moved : Nat]
    BY NewObjType DEF Kinds
  <2>3. [NewObj("file") EXCEPT !.refs = 1 + Cardinality(Callers)]
          \in [kind : Kinds, refs : Int, pos : Nat, moved : Nat]
    BY <1>1, <2>2
  <2>4. QED
    BY <2>1, <2>3 DEF Init, ObjType
<1>5. QED
  BY <1>2, <1>3, <1>4, NoCallOk DEF Inv, ObjType, InsideArea, GoodCall, Inside

LEMMA NextInv == Inv /\ [Next]_vars => Inv'
<1> SUFFICES ASSUME Inv, [Next]_vars PROVE Inv'
  OBVIOUS
<1>1. CASE UNCHANGED vars
  BY <1>1, SameObj, SameCallInv DEF vars
<1>2. ASSUME NEW c \in Callers, WasiCall(c) PROVE Inv'
  BY <1>2, StoreInv, ReturningInv, OneSpanInv, PrestatInv, CloseInv, ReadWriteInv DEF WasiCall
<1>3. ASSUME NEW c \in Callers, NetCall(c) PROVE Inv'
  BY <1>3, SocketInv, BindInv, AcceptInv, RecvfromInv, SendtoInv, EpollInv, ReturningInv
  DEF NetCall
<1>4. QED
  BY <1>1, <1>2, <1>3, ExitInv DEF Next, Terminated

\* Whatever guests pass and store, and whatever their owners change during a
\* call, what the host functions and the kernel on their behalf access (results,
\* counters, iovecs, buffers, addresses, events) begins below memory_bound and
\* ends in the guest's address space: below memory_bound too, unless a length
\* changed after its check or bind adds its NUL.
THEOREM HostStaysInside == Spec => []InsideArea
<1>1. Inv => InsideArea
  BY DEF Inv
<1>2. QED
  BY <1>1, InitInv, NextInv, PTL DEF Spec

-----------------------------------------------------------------------------
(* The inductive invariant. *)

\* The places where a call holds a reference to a file, and those where it has a
\* socket that it made.
Busy == {"iov", "iovec", "io", "pos", "bind", "listen"}

Making == {"fd", "file", "release"}

Ledgers ==
  /\ table \in [Callers -> [Fds -> Objects \cup {None, Reserved}]]
  /\ leaks \in [Objects -> Nat]
  /\ lost \subseteq Pool /\ twice \subseteq Pool

\* What the place of a call says about its locals.
HoldsAt(r) ==
  /\ r.f \in Objects <=> r.pc \in Busy
  /\ r.sock \in Pool <=> r.pc \in Making
  /\ r.pc = "file" => r.fd \in Fds
  /\ r.pc = "release" => r.sock \in twice

Holding == \A c \in Callers : HoldsAt(call[c])

\* An object exists as long as it has a reference; the standard files always do.
Alive ==
  /\ \A o \in Objects \ twice : obj[o].refs = 0 <=> obj[o].kind \in {"free", "bare"}
  /\ \A o \in Files : obj[o].kind = "file"

\* A call that has read the position of file o and not written it back.
Uses(c, o) == call[c].f = o /\ call[c].pc \in {"io", "pos"}

Positions ==
  \A o \in Files :
    /\ obj[o].pos <= obj[o].moved
    /\ \A c \in Callers : Uses(c, o) => call[c].pos <= obj[o].moved
    /\ o \notin raced =>
         /\ \A c, d \in Callers : Uses(c, o) /\ Uses(d, o) => c = d
         /\ \A c \in Callers : Uses(c, o) => call[c].pos = obj[o].moved
         /\ (\A c \in Callers : Uses(c, o) => call[c].pc # "pos")
              => obj[o].pos = obj[o].moved

HInv ==
  Ledgers /\ Holding /\ Alive /\ RefsExact /\ SocketsOwned /\ Positions

-----------------------------------------------------------------------------
(* Counting. *)

Is(x, y) == IF x = y THEN 1 ELSE 0

In(x, S) == IF x \in S THEN 1 ELSE 0

\* Two sets that differ in x at most.
LEMMA CountOne ==
  ASSUME NEW S, IsFiniteSet(S), NEW A \in SUBSET S, NEW B \in SUBSET S, NEW x \in S,
         \A y \in S \ {x} : y \in A <=> y \in B
  PROVE  /\ Cardinality(A) \in Nat /\ Cardinality(B) \in Nat
         /\ Cardinality(B) = Cardinality(A) + In(x, B) - In(x, A)
<1>1. IsFiniteSet(A) /\ IsFiniteSet(B)
  BY FS_Subset
<1>2. Cardinality(A) \in Nat /\ Cardinality(B) \in Nat
  BY <1>1, FS_CardinalityType
<1>3. A \ {x} = B \ {x}
  OBVIOUS
<1>4. Cardinality(A \ {x}) = Cardinality(A) - In(x, A)
  <2>1. Cardinality(A \ {x}) = IF x \in A THEN Cardinality(A) - 1 ELSE Cardinality(A)
    BY <1>1, FS_RemoveElement, Zenon
  <2>2. QED
    BY <1>2, <2>1 DEF Is, In
<1>5. Cardinality(B \ {x}) = Cardinality(B) - In(x, B)
  <2>1. Cardinality(B \ {x}) = IF x \in B THEN Cardinality(B) - 1 ELSE Cardinality(B)
    BY <1>1, FS_RemoveElement, Zenon
  <2>2. QED
    BY <1>2, <2>1 DEF Is, In
<1>6. Cardinality(A) - In(x, A) = Cardinality(B) - In(x, B)
  BY <1>3, <1>4, <1>5
<1>7. QED
  BY <1>2, <1>6 DEF Is, In

\* What refers to an object, in a state with tables t and calls k.
Slots(t, o) == {x \in Callers \X Fds : t[x[1]][x[2]] = o}

Users(k, o) == {c \in Callers : k[c].f = o}

Makers(k, o) == {c \in Callers : k[c].sock = o}

Descs(t, o) == Cardinality(Slots(t, o))

Calls(k, o) == Cardinality(Users(k, o))

Makes(k, o) == Cardinality(Makers(k, o))

LEMMA CountTypes ==
  ASSUME NEW o
  PROVE  /\ IsFiniteSet(Slots(table, o)) /\ IsFiniteSet(Users(call, o))
         /\ IsFiniteSet(Makers(call, o))
         /\ Descs(table, o) \in Nat /\ Calls(call, o) \in Nat /\ Makes(call, o) \in Nat
<1>1. IsFiniteSet(Callers \X Fds) /\ IsFiniteSet(Callers)
  BY FS_Product, HostAssumption
<1>2. /\ IsFiniteSet(Slots(table, o)) /\ IsFiniteSet(Users(call, o))
      /\ IsFiniteSet(Makers(call, o))
  BY <1>1, FS_Subset DEF Slots, Users, Makers
<1>3. QED
  BY <1>2, FS_CardinalityType DEF Descs, Calls, Makes

\* A descriptor changes.
LEMMA SlotsChange ==
  ASSUME Ledgers, NEW c \in Callers, NEW d \in Fds, NEW x,
         table' = [table EXCEPT ![c][d] = x], NEW o
  PROVE  /\ Descs(table, o) \in Nat /\ Descs(table', o) \in Nat
         /\ Descs(table', o) = Descs(table, o) + Is(o, x) - Is(o, table[c][d])
<1>1. PICK p : p = <<c, d>>
  BY Zenon
<1>2. p \in Callers \X Fds /\ p[1] = c /\ p[2] = d
  BY <1>1
<1>3. \A y \in Callers, e \in Fds :
        table'[y][e] = IF y = c /\ e = d THEN x ELSE table[y][e]
  BY DEF Ledgers
<1>4. \A y \in (Callers \X Fds) \ {p} :
        /\ y[1] \in Callers /\ y[2] \in Fds /\ ~(y[1] = c /\ y[2] = d)
  BY <1>1
<1>5. \A y \in (Callers \X Fds) \ {p} : y \in Slots(table, o) <=> y \in Slots(table', o)
  BY <1>3, <1>4 DEF Slots
<1>6. (p \in Slots(table, o) <=> o = table[c][d]) /\ (p \in Slots(table', o) <=> o = x)
  BY <1>2, <1>3 DEF Slots
<1>7. IsFiniteSet(Callers \X Fds)
  BY FS_Product, HostAssumption
<1>8. /\ Slots(table, o) \in SUBSET (Callers \X Fds)
      /\ Slots(table', o) \in SUBSET (Callers \X Fds)
  BY DEF Slots
<1>9. /\ Descs(table, o) \in Nat /\ Descs(table', o) \in Nat
      /\ Descs(table', o) = Descs(table, o) + In(p, Slots(table', o)) - In(p, Slots(table, o))
  <2>1. PICK U, A, B : U = Callers \X Fds /\ A = Slots(table, o) /\ B = Slots(table', o)
    BY Zenon
  <2>2. /\ IsFiniteSet(U) /\ A \in SUBSET U /\ B \in SUBSET U /\ p \in U
        /\ \A y \in U \ {p} : y \in A <=> y \in B
    BY <1>2, <1>5, <1>7, <1>8, <2>1, Zenon
  <2>3. /\ Cardinality(A) \in Nat /\ Cardinality(B) \in Nat
        /\ Cardinality(B) = Cardinality(A) + In(p, B) - In(p, A)
    BY <2>2, CountOne
  <2>4. QED
    BY <2>1, <2>3 DEF Descs
<1>10. QED
  BY <1>6, <1>9 DEF Is, In

\* A call record changes.
LEMMA UsersChange ==
  ASSUME Inv, NEW c \in Callers, NEW r, call' = [call EXCEPT ![c] = r], NEW o
  PROVE  /\ Calls(call, o) \in Nat /\ Calls(call', o) \in Nat
         /\ Calls(call', o) = Calls(call, o) + Is(o, r.f) - Is(o, call[c].f)
<1>1. \A y \in Callers : call'[y] = IF y = c THEN r ELSE call[y]
  BY DEF Inv
<1>2. \A y \in Callers \ {c} : y \in Users(call, o) <=> y \in Users(call', o)
  BY <1>1 DEF Users
<1>3. (c \in Users(call, o) <=> o = call[c].f) /\ (c \in Users(call', o) <=> o = r.f)
  BY <1>1 DEF Users
<1>4. Users(call, o) \in SUBSET Callers /\ Users(call', o) \in SUBSET Callers
  BY DEF Users
<1>5. /\ Calls(call, o) \in Nat /\ Calls(call', o) \in Nat
      /\ Calls(call', o) = Calls(call, o) + In(c, Users(call', o)) - In(c, Users(call, o))
  <2>1. PICK A, B : A = Users(call, o) /\ B = Users(call', o)
    OBVIOUS
  <2>2. /\ IsFiniteSet(Callers) /\ A \in SUBSET Callers /\ B \in SUBSET Callers
        /\ \A y \in Callers \ {c} : y \in A <=> y \in B
    BY <1>2, <1>4, <2>1, HostAssumption, Zenon
  <2>3. /\ Cardinality(A) \in Nat /\ Cardinality(B) \in Nat
        /\ Cardinality(B) = Cardinality(A) + In(c, B) - In(c, A)
    BY <2>2, CountOne
  <2>4. QED
    BY <2>1, <2>3 DEF Calls
<1>6. QED
  BY <1>3, <1>5 DEF Is, In

LEMMA MakersChange ==
  ASSUME Inv, NEW c \in Callers, NEW r, call' = [call EXCEPT ![c] = r], NEW o
  PROVE  /\ Makes(call, o) \in Nat /\ Makes(call', o) \in Nat
         /\ Makes(call', o)
              = Makes(call, o) + Is(o, r.sock) - Is(o, call[c].sock)
<1>1. \A y \in Callers : call'[y] = IF y = c THEN r ELSE call[y]
  BY DEF Inv
<1>2. \A y \in Callers \ {c} : y \in Makers(call, o) <=> y \in Makers(call', o)
  BY <1>1 DEF Makers
<1>3. (c \in Makers(call, o) <=> o = call[c].sock) /\ (c \in Makers(call', o) <=> o = r.sock)
  BY <1>1 DEF Makers
<1>4. Makers(call, o) \in SUBSET Callers /\ Makers(call', o) \in SUBSET Callers
  BY DEF Makers
<1>5. /\ Makes(call, o) \in Nat /\ Makes(call', o) \in Nat
      /\ Makes(call', o) = Makes(call, o) + In(c, Makers(call', o)) - In(c, Makers(call, o))
  <2>1. PICK A, B : A = Makers(call, o) /\ B = Makers(call', o)
    OBVIOUS
  <2>2. /\ IsFiniteSet(Callers) /\ A \in SUBSET Callers /\ B \in SUBSET Callers
        /\ \A y \in Callers \ {c} : y \in A <=> y \in B
    BY <1>2, <1>4, <2>1, HostAssumption, Zenon
  <2>3. /\ Cardinality(A) \in Nat /\ Cardinality(B) \in Nat
        /\ Cardinality(B) = Cardinality(A) + In(c, B) - In(c, A)
    BY <2>2, CountOne
  <2>4. QED
    BY <2>1, <2>3 DEF Makes
<1>6. QED
  BY <1>3, <1>5 DEF Is, In

\* The reference count of an object, as RefsExact states it.
LEMMA RefsAre ==
  RefsExact <=> \A o \in Objects \ twice :
    obj[o].refs = leaks[o] + In(o, Files) + Descs(table, o) + Calls(call, o)
BY DEF RefsExact, Descs, Calls, Slots, Users, In

LEMMA SocketsAre ==
  SocketsOwned <=>
    /\ \A o \in Pool \ twice : Makes(call, o) + In(o, lost) = Is(obj[o].kind, "bare")
    /\ \A c \in Callers, d \in Fds :
         table[c][d] = Reserved <=> call[c].pc = "file" /\ call[c].fd = d
BY DEF SocketsOwned, Makes, Makers, Is, In

\* An object that a descriptor or a call refers to has the references that they
\* stand for.
LEMMA Referred ==
  ASSUME Ledgers, RefsExact, NEW o \in Objects \ twice
  PROVE  /\ obj[o].refs \in Nat
         /\ \A c \in Callers, d \in Fds :
              table[c][d] = o => obj[o].refs >= 1 + In(o, Files)
         /\ \A c \in Callers : call[c].f = o => obj[o].refs >= 1 + In(o, Files)
<1>1. /\ obj[o].refs = leaks[o] + In(o, Files) + Descs(table, o) + Calls(call, o)
      /\ leaks[o] \in Nat /\ Descs(table, o) \in Nat /\ Calls(call, o) \in Nat
  BY RefsAre, CountTypes DEF Ledgers
<1>2. In(o, Files) \in Nat
  BY DEF Is, In
<1>3. ASSUME NEW c \in Callers, NEW d \in Fds, table[c][d] = o PROVE Descs(table, o) # 0
  <2>1. <<c, d>> \in Slots(table, o)
    BY <1>3 DEF Slots
  <2>2. QED
    BY <2>1, CountTypes, FS_EmptySet DEF Descs
<1>4. ASSUME NEW c \in Callers, call[c].f = o PROVE Calls(call, o) # 0
  <2>1. c \in Users(call, o)
    BY <1>4 DEF Users
  <2>2. QED
    BY <2>1, CountTypes, FS_EmptySet DEF Calls
<1>5. QED
  BY <1>1, <1>2, <1>3, <1>4, SMTT(30)

-----------------------------------------------------------------------------
(* What most steps leave alone. *)

\* The call record of c becomes r.
NowAt(c, r) == call' = [call EXCEPT ![c] = r]

LEMMA NowAtFacts ==
  ASSUME Inv, NEW c \in Callers, NEW r, NowAt(c, r)
  PROVE  /\ call[c] \in Call /\ (r \in Call => call' \in [Callers -> Call])
         /\ \A x \in Callers : call'[x] = IF x = c THEN r ELSE call[x]
BY DEF Inv, NowAt

LEMMA HoldingFrame ==
  ASSUME Inv, Holding, NEW c \in Callers, NEW r, NowAt(c, r), HoldsAt(r), twice' = twice
  PROVE  Holding'
<1>1. \A x \in Callers : call'[x] = IF x = c THEN r ELSE call[x]
  BY NowAtFacts
<1>2. \A x \in Callers : HoldsAt(call'[x])
  BY <1>1, SMTT(30) DEF Holding
<1>3. QED
  BY <1>2 DEF Holding, HoldsAt

\* No position is in use by c before or after, and no file moves.
LEMMA PositionsFrame ==
  ASSUME Inv, Positions, NEW c \in Callers, NEW r, NowAt(c, r),
         r.pc \notin {"io", "pos"}, call[c].pc # "pos", raced' = raced,
         \A o \in Files : obj'[o].pos = obj[o].pos /\ obj'[o].moved = obj[o].moved
  PROVE  Positions'
<1>1. \A x \in Callers : call'[x] = IF x = c THEN r ELSE call[x]
  BY NowAtFacts
<1>2. ASSUME NEW x \in Callers, NEW o \in Files, Uses(x, o)'
      PROVE  x # c /\ Uses(x, o) /\ call'[x] = call[x]
  BY <1>1, <1>2 DEF Uses
<1>3. ASSUME NEW x \in Callers, NEW o \in Files, Uses(x, o), call[x].pc = "pos"
      PROVE  x # c /\ Uses(x, o)' /\ call'[x] = call[x]
  BY <1>1, <1>3, ZenonT(30) DEF Uses
<1> SUFFICES ASSUME NEW o \in Files
             PROVE  (/\ obj[o].pos <= obj[o].moved
                     /\ \A x \in Callers : Uses(x, o) => call[x].pos <= obj[o].moved
                     /\ o \notin raced =>
                          /\ \A x, y \in Callers : Uses(x, o) /\ Uses(y, o) => x = y
                          /\ \A x \in Callers : Uses(x, o) => call[x].pos = obj[o].moved
                          /\ (\A x \in Callers : Uses(x, o) => call[x].pc # "pos")
                               => obj[o].pos = obj[o].moved)'
  BY DEF Positions
<1>4. obj'[o].pos <= obj'[o].moved
  BY SMTT(30) DEF Positions
<1>5. ASSUME NEW x \in Callers, Uses(x, o)' PROVE call'[x].pos <= obj'[o].moved
  BY <1>2, <1>5, SMTT(30) DEF Positions
<1>6. ASSUME o \notin raced', NEW x \in Callers, NEW y \in Callers, Uses(x, o)', Uses(y, o)'
      PROVE  x = y
  BY <1>2, <1>6, SMTT(30) DEF Positions
<1>7. ASSUME o \notin raced', NEW x \in Callers, Uses(x, o)' PROVE call'[x].pos = obj'[o].moved
  BY <1>2, <1>7, SMTT(30) DEF Positions
<1>8. ASSUME o \notin raced', \A x \in Callers : Uses(x, o)' => call'[x].pc # "pos"
      PROVE  obj'[o].pos = obj'[o].moved
  <2>1. \A x \in Callers : Uses(x, o) => call[x].pc # "pos"
    BY <1>3, <1>8
  <2>2. QED
    BY <1>8, <2>1 DEF Positions
<1>9. QED
  BY <1>4, <1>5, <1>6, <1>7, <1>8, SMTT(30)

\* No socket and no reserved descriptor changes hands, but for sockets that were
\* released twice.
LEMMA SocketsSame ==
  ASSUME Inv, SocketsOwned, NEW c \in Callers, NEW r, NowAt(c, r),
         \A o \in Pool \ twice : r.sock = o <=> call[c].sock = o,
         r.pc # "file", call[c].pc # "file", lost' = lost, twice' = twice,
         \A o \in Pool \ twice : obj'[o].kind = "bare" <=> obj[o].kind = "bare",
         \A x \in Callers, d \in Fds : table'[x][d] = Reserved <=> table[x][d] = Reserved
  PROVE  SocketsOwned'
<1>1. \A x \in Callers : call'[x] = IF x = c THEN r ELSE call[x]
  BY NowAtFacts, ZenonT(30)
<1>2. ASSUME NEW o \in Pool \ twice
      PROVE  Makes(call', o) + In(o, lost') = Is(obj'[o].kind, "bare")
  <2>1. Makers(call', o) = Makers(call, o)
    BY <1>1, SMTT(30) DEF Makers
  <2>2. Makes(call, o) + In(o, lost) = Is(obj[o].kind, "bare")
    BY SocketsAre
  <2>3. QED
    BY <2>1, <2>2 DEF Is, Makes
<1>3. \A x \in Callers, d \in Fds :
        table'[x][d] = Reserved <=> call'[x].pc = "file" /\ call'[x].fd = d
  BY <1>1, SocketsAre
<1>4. (\A o \in Pool \ twice : Makes(call, o) + In(o, lost) = Is(obj[o].kind, "bare"))'
  BY <1>2
<1>5. QED
  BY <1>3, <1>4 DEF SocketsOwned, Makes, Makers, Is, In

LEMMA SocketsFrame ==
  ASSUME Inv, SocketsOwned, NEW c \in Callers, NEW r, NowAt(c, r), r.sock = call[c].sock,
         r.pc # "file", call[c].pc # "file", lost' = lost, twice' = twice,
         \A o \in Pool \ twice : obj'[o].kind = "bare" <=> obj[o].kind = "bare",
         \A x \in Callers, d \in Fds : table'[x][d] = Reserved <=> table[x][d] = Reserved
  PROVE  SocketsOwned'
<1>1. \A o \in Pool \ twice : r.sock = o <=> call[c].sock = o
  BY Zenon
<1>2. QED
  BY <1>1, SocketsSame, Zenon

\* fget and fput, on an object that is there or that was released twice.
LEMMA TakenFacts ==
  ASSUME Inv, Alive, NEW o \in Objects, o \in twice \/ obj[o].refs >= 1, twice' = twice,
         obj' = [obj EXCEPT ![o] = Taken(o)]
  PROVE  /\ obj'[o].refs = obj[o].refs + 1 /\ \A x \in Objects \ {o} : obj'[x] = obj[x]
         /\ \A x \in Objects : /\ obj'[x].kind = obj[x].kind
                               /\ obj'[x].pos = obj[x].pos /\ obj'[x].moved = obj[x].moved
         /\ Alive'
<1>1. \A x \in Objects : obj'[x] = IF x = o THEN Taken(o) ELSE obj[x]
  BY DEF Inv
<1>2. /\ obj[o].refs \in Int /\ Taken(o).refs = obj[o].refs + 1 /\ Taken(o).kind = obj[o].kind
      /\ Taken(o).pos = obj[o].pos /\ Taken(o).moved = obj[o].moved
  BY DEF Inv, Taken
<1>3. \A x \in Objects : /\ obj'[x].kind = obj[x].kind
                         /\ obj'[x].pos = obj[x].pos /\ obj'[x].moved = obj[x].moved
  BY <1>1, <1>2
<1>4. obj'[o].refs = obj[o].refs + 1 /\ (o \notin twice => obj[o].refs # 0 /\ obj'[o].refs # 0)
  BY <1>1, <1>2
<1>5. Files \subseteq Objects
  BY DEF Objects
<1>6. Alive'
  BY <1>1, <1>3, <1>4, <1>5 DEF Alive
<1>7. QED
  BY <1>1, <1>3, <1>4, <1>6

LEMMA DroppedFacts ==
  ASSUME Inv, Ledgers, Alive, NEW o \in Objects, twice' = twice,
         o \in twice \/ obj[o].refs >= 1 + In(o, Files), obj' = [obj EXCEPT ![o] = Dropped(o)]
  PROVE  /\ obj'[o].refs = obj[o].refs - 1 /\ \A x \in Objects \ {o} : obj'[x] = obj[x]
         /\ \A x \in Objects \ twice : obj'[x].kind = "bare" <=> obj[x].kind = "bare"
         /\ \A x \in Files : obj'[x].pos = obj[x].pos /\ obj'[x].moved = obj[x].moved
         /\ Alive'
<1>1. \A x \in Objects : obj'[x] = IF x = o THEN Dropped(o) ELSE obj[x]
  BY DEF Inv
<1>2. obj[o] \in [kind : Kinds, refs : Int, pos : Nat, moved : Nat]
  BY DEF Inv
<1>3. Files \subseteq Objects /\ Files \cap twice = {}
  BY HostAssumption DEF Objects, Ledgers
<1>4. CASE obj[o].refs = 1
  <2>1. o \notin Files /\ (o \notin twice => obj[o].kind # "bare")
    BY <1>3, <1>4 DEF Alive, In
  <2>2. Dropped(o).refs = 0 /\ Dropped(o).kind = "free"
    BY <1>4 DEF Dropped, FreeObj
  <2>3. Alive'
    BY <1>1, <1>3, <2>1, <2>2 DEF Alive
  <2>4. QED
    BY <1>1, <1>3, <1>4, <2>1, <2>2, <2>3
<1>5. CASE obj[o].refs # 1
  <2>1. /\ Dropped(o).refs = obj[o].refs - 1 /\ Dropped(o).kind = obj[o].kind
        /\ Dropped(o).pos = obj[o].pos /\ Dropped(o).moved = obj[o].moved
    BY <1>2, <1>5 DEF Dropped
  <2>2. o \notin twice => Dropped(o).refs # 0 /\ obj[o].refs # 0
    BY <1>2, <1>5, <2>1 DEF In
  <2>3. \A x \in Objects : obj'[x].kind = obj[x].kind
    BY <1>1, <2>1
  <2>4. \A x \in Objects \ twice : obj'[x].refs = 0 <=> obj[x].refs = 0
    BY <1>1, <2>2
  <2>5. Alive'
    BY <1>3, <2>3, <2>4 DEF Alive
  <2>6. QED
    BY <1>1, <1>3, <2>1, <2>5
<1>6. QED
  BY <1>4, <1>5

=============================================================================
