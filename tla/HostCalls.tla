----------------------------- MODULE HostCalls -----------------------------
(***************************************************************************)
(* The host functions of the wasi and networking modules, as guests call   *)
(* them from their runner threads.  The two modules meet in the runner's   *)
(* descriptor table: the sockets of networking are read, written and       *)
(* closed with the functions of wasi.                                      *)
(*                                                                         *)
(* Each caller is the runner of one session: it has its own linear memory  *)
(* and, after vm_unshare_executor_files, its own descriptor table, in      *)
(* which the standard files are shared with the process that started it    *)
(* and with other runners of that process.                                 *)
(*                                                                         *)
(* Guest memory is not modelled cell by cell.  The guest's owner may change *)
(* it at any moment with WASM_WRITE_MEMORY, so whatever the host reads     *)
(* there is any word, and a second read of the same field is any word too. *)
(* That holds for the counters *nread and *nwritten too: the host adds to  *)
(* what it finds there, so their values are not kept.  Kept are the ranges *)
(* of guest memory that the host, or the kernel on its behalf, accesses in *)
(* its next step.  Addresses are offsets from memory_base; a word is below *)
(* U32, which stands for 2^32.                                             *)
(***************************************************************************)
EXTENDS Integers, FiniteSets, FiniteSetsExt

CONSTANTS
  Callers,
  Fds,           \* descriptors of a table: 0 .. its limit - 1
  Files,         \* the standard files, installed at 0 .. Cardinality(Files) - 1
  Pool,          \* sockets, eventfds and epoll instances not created yet
  U32,
  Words,         \* the words that guests pass and store
  Available,     \* STATIC_MEMORY_AVAILABLE
  Area,          \* STATIC_MEMORY_SIZE
  Bounds,        \* values of memory_bound
  SockaddrMax,   \* sizeof(struct sockaddr_storage)
  IovLens,       \* values of iovs_len
  Moves,         \* numbers of bytes that one read or write moves
  MaxCalls       \* host calls of all callers

None == "none"
Reserved == "reserved"   \* a descriptor with no file: get_unused_fd_flags

Objects == Files \cup Pool

\* 1 GB that may be mapped, 4 GB of offsets: 6 GB of address space hold both.
\* A table has room for the standard files.
ASSUME HostAssumption ==
  /\ U32 \in Nat \ {0} /\ Available \in Nat /\ Area \in Nat
  /\ Available + U32 <= Area
  /\ Words \subseteq 0 .. U32 - 1
  /\ Bounds \subseteq 0 .. Available
  /\ SockaddrMax \in 0 .. U32 - 1
  /\ IovLens \subseteq Nat /\ Moves \subseteq Nat /\ MaxCalls \in Nat
  /\ Files \cap Pool = {}
  /\ None \notin Objects /\ Reserved \notin Objects
  /\ IsFiniteSet(Callers) /\ IsFiniteSet(Fds) /\ Fds \subseteq Nat
  /\ IsFiniteSet(Files) /\ 0 .. Cardinality(Files) - 1 \subseteq Fds

VARIABLES
  bound,         \* ctx->memory_bound of each caller
  obj,           \* files, and sockets that have no file yet
  table,         \* current->files of each caller
  call,          \* the host call each caller is in
  left,          \* host calls that may still be made
  leaks,         \* ledger: references that were taken for good
  lost,          \* ledger: sockets that were dropped without sock_release
  twice,         \* ledger: sockets that were released and are released again
  raced          \* ledger: files whose f_pos two calls have used at a time

vars == <<bound, obj, table, call, left, leaks, lost, twice, raced>>

ledgers == <<leaks, lost, twice, raced>>

\* kind: "free", "bare" (a socket without a file), "file" (its position
\* counts), "sock" and "anon" (eventfd, epoll).
FreeObj == [kind |-> "free", refs |-> 0, pos |-> 0, moved |-> 0]

NewObj(kind) == [kind |-> kind, refs |-> 1, pos |-> 0, moved |-> 0]

NoCall == [pc |-> "guest", f |-> None, sock |-> None, fd |-> 0, out |-> 0,
           iovs |-> 0, iovs_len |-> 0, i |-> 0, pos |-> 0, next |-> 0, ranges |-> {}]

\* The process that started the runner holds a reference to each standard
\* file; the runner's table holds another.
InitTable(at) == [d \in Fds |-> IF \E f \in Files : at[f] = d
                                THEN CHOOSE f \in Files : at[f] = d ELSE None]

Init ==
  /\ bound \in [Callers -> Bounds]
  /\ obj = [o \in Objects |->
              IF o \in Files THEN [NewObj("file") EXCEPT !.refs = 1 + Cardinality(Callers)]
              ELSE FreeObj]
  /\ \E at \in [Files -> 0 .. Cardinality(Files) - 1] :
       /\ \A f, g \in Files : at[f] = at[g] => f = g
       /\ table = [c \in Callers |-> InitTable(at)]
  /\ call = [c \in Callers |-> NoCall]
  /\ left = MaxCalls
  /\ leaks = [o \in Objects |-> 0]
  /\ lost = {} /\ twice = {} /\ raced = {}

-----------------------------------------------------------------------------
(* What the functions have in common. *)

\* vmctx_get_memory_slice: addresses are 64 bits wide and do not wrap.
Slice(c, offset, len) == offset < bound[c] /\ offset + len <= bound[c]

\* A range of guest memory to access.  It is the range that was checked, but
\* for slack: how far its end may be behind the end of what was checked.
Span(offset, len, slack) == [lo |-> offset, hi |-> offset + len, slack |-> slack]

\* A length is read for the check and once more for the use, when it may be any
\* word up to max.
Reread(len, again, max) == IF again = len THEN 0 ELSE max

Beyond(c, s) == s.hi > bound[c]

\* A guest calls a host function.
Enter(c) ==
  /\ call[c].pc = "guest"
  /\ left > 0
  /\ left' = left - 1

\* A function that goes on only when ok; otherwise it has returned an error.
Proceed(c, ok, next) == call' = [call EXCEPT ![c] = IF ok THEN next ELSE NoCall]

At(pc, ranges) == [NoCall EXCEPT !.pc = pc, !.ranges = ranges]

Taken(o) == [obj[o] EXCEPT !.refs = @ + 1]

Dropped(o) == IF obj[o].refs = 1 THEN FreeObj ELSE [obj[o] EXCEPT !.refs = @ - 1]

\* fget, which only finds descriptors that have a file.
Fget(c, fd) == IF table[c][fd] \in Objects THEN table[c][fd] ELSE None

\* get_unused_fd_flags: the lowest descriptor that is free.
LowestFree(c, d) ==
  d \in Fds /\ table[c][d] = None /\ \A e \in Fds : table[c][e] = None => d <= e

FreeObjects == {o \in Pool : obj[o].kind = "free"}

-----------------------------------------------------------------------------
(* wasi: functions that only store results. *)

\* Two results: the sizes of the first, which is stored here, and of the next.
StoreFirst(c, size, next) ==
  \E p \in Words :
    Proceed(c, Slice(c, p, size),
            [At("store", {Span(p, size, 0)}) EXCEPT !.next = next])

EnvironSizesGet(c) ==
  Enter(c) /\ StoreFirst(c, 4, 4) /\ UNCHANGED <<bound, obj, table, ledgers>>

\* A pointer, and the name "WASM" that it points to.
ArgsGet(c) ==
  Enter(c) /\ StoreFirst(c, 4, 5) /\ UNCHANGED <<bound, obj, table, ledgers>>

ArgsSizesGet(c) ==
  Enter(c) /\ StoreFirst(c, 4, 4) /\ UNCHANGED <<bound, obj, table, ledgers>>

\* The second result; the first has been stored in any case.
StoreNext(c) ==
  LET size == call[c].next
  IN /\ call[c].pc = "store"
     /\ \E p \in Words :
          Proceed(c, Slice(c, p, size), At("sys", {Span(p, size, 0)}))
     /\ UNCHANGED <<bound, obj, table, left, ledgers>>

\* fd_prestat_dir_name knows one name, of 4 bytes.
FdPrestatDirName(c) ==
  /\ Enter(c)
  /\ \E path \in Words, path_len \in Words \cup {4} :
       Proceed(c, path_len = 4 /\ Slice(c, path, path_len),
               At("sys", {Span(path, path_len, 0)}))
  /\ UNCHANGED <<bound, obj, table, ledgers>>

\* fd_seek only sets *newoffset, of 8 bytes, to 0.
FdSeek(c) ==
  /\ Enter(c)
  /\ \E newoffset \in Words :
       Proceed(c, Slice(c, newoffset, 8), At("sys", {Span(newoffset, 8, 0)}))
  /\ UNCHANGED <<bound, obj, table, ledgers>>

\* environ_get, random_get and the polyfill of fd_fdstat_get do nothing.
NoEffect(c) ==
  Enter(c) /\ UNCHANGED <<bound, obj, table, call, ledgers>>

\* path_open prints the path and fails.
PathOpen(c) ==
  /\ Enter(c)
  /\ \E path, len \in Words :
       Proceed(c, Slice(c, path, len), At("sys", {Span(path, len, 0)}))
  /\ UNCHANGED <<bound, obj, table, ledgers>>

-----------------------------------------------------------------------------
(* wasi: functions on descriptors. *)

\* fd_prestat_get stores the second field of its result.  It never gives back
\* the reference that fget took.
FdPrestatGet(c) ==
  /\ Enter(c)
  /\ \E fd \in Fds, out \in Words :
       LET f == Fget(c, fd)
           ok == Slice(c, out, 8) /\ f # None
       IN /\ Proceed(c, ok, At("sys", {Span(out + 4, 4, 0)}))
          /\ obj' = IF ok THEN [obj EXCEPT ![f] = Taken(f)] ELSE obj
          /\ leaks' = IF ok THEN [leaks EXCEPT ![f] = @ + 1] ELSE leaks
  /\ UNCHANGED <<bound, table, lost, twice, raced>>

FdClose(c) ==
  /\ Enter(c)
  /\ \E fd \in Fds :
       LET f == Fget(c, fd)
       IN IF f = None
          THEN UNCHANGED <<table, obj>>
          ELSE /\ table' = [table EXCEPT ![c][fd] = None]
               /\ obj' = [obj EXCEPT ![f] = Dropped(f)]
  /\ UNCHANGED <<bound, call, ledgers>>

\* fd_write and fd_read, up to the loop: the counter, which is set to 0 even
\* when the descriptor is bad, and the file.
ReadWriteBegin(c) ==
  /\ Enter(c)
  /\ \E fd \in Fds, iovs, out \in Words, iovs_len \in IovLens :
       LET f == Fget(c, fd)
           found == Slice(c, out, 4) /\ f # None
           loop == [At("iov", {Span(out, 4, 0)}) EXCEPT
                      !.f = f, !.out = out, !.iovs = iovs, !.iovs_len = iovs_len]
       IN /\ Proceed(c, Slice(c, out, 4),
                     IF found THEN loop ELSE At("sys", {Span(out, 4, 0)}))
          /\ obj' = IF found THEN [obj EXCEPT ![f] = Taken(f)] ELSE obj
  /\ UNCHANGED <<bound, table, ledgers>>

\* The end of fd_write and fd_read on every path: fput.
ReadWriteReturn(c) ==
  /\ obj' = [obj EXCEPT ![call[c].f] = Dropped(call[c].f)]
  /\ call' = [call EXCEPT ![c] = NoCall]
  /\ UNCHANGED <<bound, table, left, ledgers>>

\* Another call has read the position of f and not yet written it back.
InUse(c, f) == \E d \in Callers \ {c} : call[d].f = f /\ call[d].pc \in {"io", "pos"}

\* The address of the next iovec, in 32 bits.
IovAddr(c) == (call[c].iovs + 8 * call[c].i) % U32

\* The iovec is not checked.
IovNext_Unchecked(c) ==
  /\ call[c].pc = "iov"
  /\ call[c].i < call[c].iovs_len
  /\ call' = [call EXCEPT ![c].pc = "iovec", ![c].ranges = {Span(IovAddr(c), 8, 0)}]
  /\ UNCHANGED <<bound, obj, table, left, ledgers>>

\* One turn of the loop: the iovec, ...
IovNext(c) ==
  /\ call[c].pc = "iov"
  /\ call[c].i < call[c].iovs_len
  /\ Slice(c, IovAddr(c), 8)
  /\ call' = [call EXCEPT ![c].pc = "iovec", ![c].ranges = {Span(IovAddr(c), 8, 0)}]
  /\ UNCHANGED <<bound, obj, table, left, ledgers>>

\* ... or the end, when it is out of bounds.
IovBad(c) ==
  /\ call[c].pc = "iov"
  /\ call[c].i < call[c].iovs_len
  /\ ~Slice(c, IovAddr(c), 8)
  /\ ReadWriteReturn(c)

\* The buffer that the iovec names and the file's position.  The length that is
\* passed on is read once more.
BufNext(c) ==
  /\ call[c].pc = "iovec"
  /\ \E buf, buf_len, again \in Words :
       /\ Slice(c, buf, buf_len)
       /\ call' = [call EXCEPT ![c].pc = "io", ![c].pos = obj[call[c].f].pos,
                               ![c].ranges = {Span(buf, again, Reread(buf_len, again, U32))}]
  /\ raced' = IF InUse(c, call[c].f) THEN raced \cup {call[c].f} ELSE raced
  /\ UNCHANGED <<bound, obj, table, left, leaks, lost, twice>>

BufBad_KeepsFile(c) ==
  /\ call[c].pc = "iovec"
  /\ \E buf, buf_len \in Words : ~Slice(c, buf, buf_len)
  /\ call' = [call EXCEPT ![c] = NoCall]
  /\ UNCHANGED <<bound, obj, table, left, ledgers>>

\* The buffer is out of bounds.
BufBad(c) ==
  /\ call[c].pc = "iovec"
  /\ \E buf, buf_len \in Words : ~Slice(c, buf, buf_len)
  /\ ReadWriteReturn(c)

\* kernel_write or kernel_read moves ret bytes, none of them behind the bound,
\* where nothing is mapped, and advances the position it was given, if the file
\* has one.  Next, ret is added to the counter.
Move(c) ==
  LET f == call[c].f
  IN /\ call[c].pc = "io"
     /\ \E ret \in Moves :
          /\ \A s \in call[c].ranges : s.lo + ret <= s.hi /\ s.lo + ret <= bound[c]
          /\ call' = [call EXCEPT
                        ![c].pc = "pos", ![c].ranges = {Span(call[c].out, 4, 0)},
                        ![c].pos = IF obj[f].kind = "file" THEN @ + ret ELSE @]
          /\ obj' = [obj EXCEPT ![f].moved = @ + ret]
     /\ UNCHANGED <<bound, table, left, ledgers>>

MoveFails(c) ==
  /\ call[c].pc = "io"
  /\ ReadWriteReturn(c)

FilePosWrite_Forgets(c) ==
  /\ call[c].pc = "pos"
  /\ call' = [call EXCEPT ![c].pc = "iov", ![c].i = @ + 1, ![c].ranges = {}]
  /\ UNCHANGED <<bound, obj, table, left, ledgers>>

\* file_pos_write.
FilePosWrite(c) ==
  /\ call[c].pc = "pos"
  /\ obj' = [obj EXCEPT ![call[c].f].pos = call[c].pos]
  /\ call' = [call EXCEPT ![c].pc = "iov", ![c].i = @ + 1, ![c].ranges = {}]
  /\ UNCHANGED <<bound, table, left, ledgers>>

ReadWriteEnd(c) ==
  /\ call[c].pc = "iov"
  /\ call[c].i = call[c].iovs_len
  /\ ReadWriteReturn(c)

-----------------------------------------------------------------------------
(* networking: sockets. *)

\* __net_socket: sock_create_kern (when it fails nothing changes) ...
SocketCreate(c) ==
  /\ Enter(c)
  /\ \E o \in FreeObjects :
       /\ obj' = [obj EXCEPT ![o].kind = "bare"]
       /\ call' = [call EXCEPT ![c] = [At("fd", {}) EXCEPT !.sock = o]]
  /\ UNCHANGED <<bound, table, ledgers>>

\* ... a descriptor, without which the function returns and nothing refers to
\* the socket any more ...
SocketFd(c) ==
  /\ call[c].pc = "fd"
  /\ \/ \E d \in Fds : /\ LowestFree(c, d)
                        /\ table' = [table EXCEPT ![c][d] = Reserved]
                        /\ call' = [call EXCEPT ![c].pc = "file", ![c].fd = d]
                        /\ UNCHANGED lost
     \/ /\ lost' = lost \cup {call[c].sock}
        /\ call' = [call EXCEPT ![c] = NoCall]
        /\ UNCHANGED table
  /\ UNCHANGED <<bound, obj, left, leaks, twice, raced>>

\* ... and a file, ...
SocketFile(c) ==
  LET o == call[c].sock
  IN /\ call[c].pc = "file"
     /\ obj' = [obj EXCEPT ![o] = NewObj("sock")]
     /\ table' = [table EXCEPT ![c][call[c].fd] = o]
     /\ call' = [call EXCEPT ![c] = NoCall]
     /\ UNCHANGED <<bound, left, ledgers>>

SocketFileFails_KeepsFd(c) ==
  LET o == call[c].sock
  IN /\ call[c].pc = "file"
     /\ obj' = [obj EXCEPT ![o] = FreeObj]
     /\ call' = [call EXCEPT ![c].pc = "release"]
     /\ twice' = twice \cup {o}
     /\ UNCHANGED <<bound, table, left, leaks, lost, raced>>

\* ... or put_unused_fd and sock_release.  In the kernels that the module is
\* written for, 4.15 and later, sock_alloc_file has released the socket when it
\* fails, so that the sock_release here is the second one.
SocketFileFails(c) ==
  LET o == call[c].sock
  IN /\ call[c].pc = "file"
     /\ obj' = [obj EXCEPT ![o] = FreeObj]
     /\ table' = [table EXCEPT ![c][call[c].fd] = None]
     /\ call' = [call EXCEPT ![c].pc = "release"]
     /\ twice' = twice \cup {o}
     /\ UNCHANGED <<bound, left, leaks, lost, raced>>

\* do_exit closes the table.
Die(c) ==
  LET slots(o) == Cardinality({d \in Fds : table[c][d] = o})
  IN /\ call' = [call EXCEPT ![c] = [NoCall EXCEPT !.pc = "exited"]]
     /\ table' = [table EXCEPT ![c] = [d \in Fds |-> None]]
     /\ obj' = [o \in Objects |->
                  IF slots(o) = 0 THEN obj[o]
                  ELSE IF slots(o) = obj[o].refs THEN FreeObj
                  ELSE [obj[o] EXCEPT !.refs = @ - slots(o)]]

\* The second release: it goes unnoticed, or it tears down what has been created
\* in that place since, or the runner dies of it.
SocketRelease(c) ==
  /\ call[c].pc = "release"
  /\ \/ /\ obj' \in {obj, [obj EXCEPT ![call[c].sock] = FreeObj]}
        /\ call' = [call EXCEPT ![c] = NoCall]
        /\ UNCHANGED table
     \/ Die(c)
  /\ UNCHANGED <<bound, left, ledgers>>

\* __net_bind: the file, and the address when there is one.  What is not a
\* socket, an address out of bounds and a length without an address are
\* refused after fput.  The protocol gets the address itself, not a copy:
\* unix_bind reads the family, of 2 bytes, whatever the length is, and puts a
\* NUL behind the address.
NetBind(c) ==
  /\ Enter(c)
  /\ \E fd \in Fds, sockaddr, len \in Words, unix \in BOOLEAN :
       LET f == Fget(c, fd)
           ok == /\ f # None /\ obj[f].kind = "sock"
                 /\ IF sockaddr # 0 THEN Slice(c, sockaddr, len) ELSE len = 0
           span == IF unix THEN Span(sockaddr, Max({len + 1, 2}), 1)
                           ELSE Span(sockaddr, len, 0)
       IN /\ Proceed(c, ok, [At("bind", IF sockaddr # 0 THEN {span} ELSE {}) EXCEPT !.f = f])
          /\ obj' = IF ok THEN [obj EXCEPT ![f] = Taken(f)] ELSE obj
  /\ UNCHANGED <<bound, table, ledgers>>

NetListen(c) ==
  /\ Enter(c)
  /\ \E fd \in Fds :
       LET f == Fget(c, fd)
           ok == f # None /\ obj[f].kind = "sock"
       IN /\ Proceed(c, ok, [At("listen", {}) EXCEPT !.f = f])
          /\ obj' = IF ok THEN [obj EXCEPT ![f] = Taken(f)] ELSE obj
  /\ UNCHANGED <<bound, table, ledgers>>

\* sock->ops->bind or listen has returned: fput.
NetDone(c) ==
  /\ call[c].pc \in {"bind", "listen"}
  /\ ~\E s \in call[c].ranges : Beyond(c, s)
  /\ obj' = [obj EXCEPT ![call[c].f] = Dropped(call[c].f)]
  /\ call' = [call EXCEPT ![c] = NoCall]
  /\ UNCHANGED <<bound, table, left, ledgers>>

-----------------------------------------------------------------------------
(* networking: functions that check addresses and make a system call.  They *)
(* set the address limit to KERNEL_DS and back, which is what a kernel      *)
(* thread has already.                                                      *)

\* An address that the kernel fills in.  Its length is in guest memory: it is
\* read for the check and, by the kernel, for the copy.
PeerSpans(c, addr, len_ptr, len, again) ==
  {Span(len_ptr, 4, 0),
   Span(addr, Min({SockaddrMax, again}), Reread(len, again, SockaddrMax))}

PeerOk(c, addr, len_ptr, len) == Slice(c, len_ptr, 4) /\ Slice(c, addr, len)

\* __net_accept4.
NetAccept4(c) ==
  /\ Enter(c)
  /\ \E addr, len_ptr, len, again \in Words :
       IF addr # 0
       THEN Proceed(c, PeerOk(c, addr, len_ptr, len),
                    At("accept", PeerSpans(c, addr, len_ptr, len, again)))
       ELSE Proceed(c, TRUE, At("accept", {}))
  /\ UNCHANGED <<bound, obj, table, ledgers>>

\* __net_recvfrom.
NetRecvfrom(c) ==
  /\ Enter(c)
  /\ \E buf, size, addr, len_ptr, len, again \in Words :
       LET ok == Slice(c, buf, size) /\ (addr # 0 => PeerOk(c, addr, len_ptr, len))
           peer == IF addr # 0 THEN PeerSpans(c, addr, len_ptr, len, again) ELSE {}
       IN Proceed(c, ok, At("sys", {Span(buf, size, 0)} \cup peer))
  /\ UNCHANGED <<bound, obj, table, ledgers>>

\* __net_sendto: the kernel refuses an address that is longer than SockaddrMax
\* (a negative length is one when it is read without sign).
NetSendto(c) ==
  /\ Enter(c)
  /\ \E buf, size, addr, len \in Words :
       LET ok == Slice(c, buf, size) /\ (addr # 0 => Slice(c, addr, len))
           peer == IF addr # 0 /\ len <= SockaddrMax THEN {Span(addr, len, 0)} ELSE {}
       IN Proceed(c, ok, At("sys", {Span(buf, size, 0)} \cup peer))
  /\ UNCHANGED <<bound, obj, table, ledgers>>

\* __net_epoll_ctl; sizeof(struct epoll_event) is 12.
NetEpollCtl(c) ==
  /\ Enter(c)
  /\ \E event \in Words :
       IF event # 0
       THEN Proceed(c, Slice(c, event, 12), At("sys", {Span(event, 12, 0)}))
       ELSE Proceed(c, TRUE, At("sys", {}))
  /\ UNCHANGED <<bound, obj, table, ledgers>>

\* EP_MAX_EVENTS: the kernel refuses more, and it refuses 0 and below.
EpMaxEvents == (U32 \div 2 - 1) \div 12

\* __net_epoll_wait: the size of the array reaches vmctx_get_memory_slice in
\* 32 bits.
NetEpollWait(c) ==
  /\ Enter(c)
  /\ \E events, maxevents \in Words :
       Proceed(c, Slice(c, events, (12 * maxevents) % U32),
               At("sys", IF maxevents \in 1 .. EpMaxEvents
                         THEN {Span(events, 12 * maxevents, 0)} ELSE {}))
  /\ UNCHANGED <<bound, obj, table, ledgers>>

SysReturn(c) ==
  /\ call[c].pc = "sys"
  /\ call' = [call EXCEPT ![c] = NoCall]
  /\ UNCHANGED <<bound, obj, table, left, ledgers>>

\* A system call that makes a descriptor: all of it or nothing.
NewFd(c, kind) ==
  \E o \in FreeObjects, d \in Fds :
    /\ LowestFree(c, d)
    /\ obj' = [obj EXCEPT ![o] = NewObj(kind)]
    /\ table' = [table EXCEPT ![c][d] = o]

AcceptReturn(c) ==
  /\ call[c].pc = "accept"
  /\ NewFd(c, "sock") \/ UNCHANGED <<obj, table>>
  /\ call' = [call EXCEPT ![c] = NoCall]
  /\ UNCHANGED <<bound, left, ledgers>>

\* __net_eventfd_sem and __net_epoll_create.
NetAnonFd(c) ==
  /\ Enter(c)
  /\ NewFd(c, "anon")
  /\ UNCHANGED <<bound, call, ledgers>>

\* __net_fcntl: reads or sets the flags of a file, which are not modelled, and
\* refuses every other command, F_DUPFD among them.
NetFcntl(c) ==
  Enter(c) /\ UNCHANGED <<bound, obj, table, call, ledgers>>

-----------------------------------------------------------------------------
\* proc_exit, a return, or a fault of the guest's code.
Exit(c) ==
  /\ call[c].pc = "guest"
  /\ Die(c)
  /\ UNCHANGED <<bound, left, ledgers>>

\* A fault in the kernel, behind the bound or at address 0, while the host holds
\* a reference to a file: the runner dies and nobody gives it back.  (The
\* other system calls copy with the checks for user memory and return -EFAULT.)
Fault(c) ==
  LET f == call[c].f
  IN /\ call[c].pc \in {"io", "bind"}
     /\ call[c].ranges = {} \/ \E s \in call[c].ranges : Beyond(c, s)
     /\ Die(c)
     /\ leaks' = [leaks EXCEPT ![f] = @ + 1]
     /\ UNCHANGED <<bound, left, lost, twice, raced>>

WasiCall(c) ==
  \/ EnvironSizesGet(c) \/ ArgsGet(c) \/ ArgsSizesGet(c) \/ StoreNext(c)
  \/ FdPrestatDirName(c) \/ FdSeek(c) \/ NoEffect(c) \/ PathOpen(c) \/ FdPrestatGet(c)
  \/ FdClose(c) \/ ReadWriteBegin(c) \/ IovNext(c) \/ IovBad(c) \/ BufNext(c) \/ BufBad(c)
  \/ Move(c) \/ MoveFails(c) \/ FilePosWrite(c) \/ ReadWriteEnd(c)

NetCall(c) ==
  \/ SocketCreate(c) \/ SocketFd(c) \/ SocketFile(c) \/ SocketFileFails(c)
  \/ SocketRelease(c) \/ NetBind(c) \/ NetListen(c) \/ NetDone(c) \/ NetAccept4(c)
  \/ NetRecvfrom(c) \/ NetSendto(c) \/ NetEpollCtl(c) \/ NetEpollWait(c)
  \/ SysReturn(c) \/ AcceptReturn(c) \/ NetAnonFd(c) \/ NetFcntl(c)

Terminated == (\A c \in Callers : call[c].pc = "exited") /\ UNCHANGED vars

Next == (\E c \in Callers : WasiCall(c) \/ NetCall(c) \/ Exit(c) \/ Fault(c)) \/ Terminated

Spec == Init /\ [][Next]_vars

-----------------------------------------------------------------------------
(* Properties. *)

Kinds == {"free", "bare", "file", "sock", "anon"}

CallPCs == {"guest", "store", "iov", "iovec", "io", "pos", "fd", "file", "release", "bind",
            "listen", "accept", "sys", "exited"}

Call ==
  [pc : CallPCs, f : Objects \cup {None}, sock : Pool \cup {None}, fd : Fds \cup {0},
   out : Nat, iovs : Nat, iovs_len : Nat, i : Nat, pos : Nat, next : Nat,
   ranges : SUBSET [lo : Nat, hi : Nat, slack : Nat]]

\* What the host and the kernel access for a guest (its results, the counters
\* and iovecs of fd_read and fd_write, buffers, addresses, events) begins below
\* memory_bound and ends there too, with two exceptions: a length that the
\* guest's owner changes between the check and the use, and the address of
\* bind, to which the kernel adds a byte.  Not even these lead out of the 6 GB
\* reserved for the guest ("Memory bound check (implemented with 6GB virtual
\* address space)").
InsideArea ==
  \A c \in Callers : \A s \in call[c].ranges :
    s.lo < bound[c] /\ s.hi <= bound[c] + s.slack /\ s.hi <= Area

\* The reference count of a file is the number of descriptors and of calls in
\* progress that refer to it, and of the process that passed it in; the only
\* references beyond these are the ones that fd_prestat_get keeps and that a
\* call leaves in which the runner dies.  No call on any error path drops a
\* reference too many or too few.  Nothing is said about a socket that was
\* released twice.
RefsExact ==
  \A o \in Objects \ twice :
    obj[o].refs = leaks[o] + (IF o \in Files THEN 1 ELSE 0)
                  + Cardinality({x \in Callers \X Fds : table[x[1]][x[2]] = o})
                  + Cardinality({c \in Callers : call[c].f = o})

\* A socket without a file is in the hands of one __net_socket call, or it was
\* dropped when there was no descriptor for it; the only other way in which
\* __net_socket goes wrong is that it releases a socket twice when there is no
\* file for it.  A reserved descriptor belongs to a call in progress.
SocketsOwned ==
  /\ \A o \in Pool \ twice :
       Cardinality({c \in Callers : call[c].sock = o}) + (IF o \in lost THEN 1 ELSE 0)
         = IF obj[o].kind = "bare" THEN 1 ELSE 0
  /\ \A c \in Callers, d \in Fds :
       table[c][d] = Reserved <=> call[c].pc = "file" /\ call[c].fd = d

\* f_pos never runs ahead of what has been moved through the file, and it is
\* exact unless two calls used the position at a time: fd_read and fd_write
\* read it, move the data and write it back without the file's position lock.
PosFollows ==
  \A o \in Files :
    /\ obj[o].pos <= obj[o].moved
    /\ (o \notin raced /\ ~\E c \in Callers : call[c].f = o /\ call[c].pc = "pos")
         => obj[o].pos = obj[o].moved
=============================================================================
