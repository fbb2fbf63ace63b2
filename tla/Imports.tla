------------------------------ MODULE Imports ------------------------------
(***************************************************************************)
(* How a guest's imports are bound: the do_resolve functions of wasi and   *)
(* networking behind the registry, and the loop of init_execution_engine   *)
(* that resolves one import after the other while modules come and go.     *)
(* An import is called with as many arguments as its request said, so a    *)
(* wrong count reads registers that hold something else.                   *)
(***************************************************************************)
EXTENDS Registry

CONSTANTS
  Counts,      \* parameter counts that guests ask for
  MaxImports   \* imports of one engine

VARIABLES
  imported_funcs,   \* of each engine: what each import was bound to
  stale,            \* resolvers of each engine whose module was unloaded
  dead              \* engines whose load called code that is gone

ivars == <<vars, imported_funcs, stale, dead>>

Wasi_FewerSeek ==
  [fd_prestat_get |-> 2, fd_prestat_dir_name |-> 3, environ_sizes_get |-> 2,
   environ_get |-> 2, args_sizes_get |-> 2, args_get |-> 2, random_get |-> 2,
   fd_write |-> 4, fd_read |-> 4, proc_exit |-> 1, fd_fdstat_get |-> 2,
   fd_close |-> 1, path_open |-> 9, fd_seek |-> 3]

\* do_resolve of wasi: param_count for each "wasi_unstable##..." name.
Wasi ==
  [fd_prestat_get |-> 2, fd_prestat_dir_name |-> 3, environ_sizes_get |-> 2,
   environ_get |-> 2, args_sizes_get |-> 2, args_get |-> 2, random_get |-> 2,
   fd_write |-> 4, fd_read |-> 4, proc_exit |-> 1, fd_fdstat_get |-> 2,
   fd_close |-> 1, path_open |-> 9, fd_seek |-> 4]

Networking_Shadows ==
  [_socket |-> 3, _bind |-> 3, _listen |-> 2, _accept4 |-> 4, _sendto |-> 6,
   _recvfrom |-> 6, _eventfd_sem |-> 1, _epoll_create |-> 0, _epoll_ctl |-> 4,
   _epoll_wait |-> 4, _fcntl |-> 3, fd_close |-> 1]

\* do_resolve of networking, for each "net##..." name.
Networking ==
  [_socket |-> 3, _bind |-> 3, _listen |-> 2, _accept4 |-> 4, _sendto |-> 6,
   _recvfrom |-> 6, _eventfd_sem |-> 1, _epoll_create |-> 0, _epoll_ctl |-> 4,
   _epoll_wait |-> 4, _fcntl |-> 3]

\* The parameters that each function of wasi has after ctx.
WasiParams ==
  [fd_prestat_get |-> <<"fd", "_out">>, fd_prestat_dir_name |-> <<"fd", "path", "path_len">>,
   environ_sizes_get |-> <<"environ_count", "environ_buf_size">>,
   environ_get |-> <<"environ", "environ_buf">>, args_sizes_get |-> <<"argc", "argv_buf_size">>,
   args_get |-> <<"argv", "argv_buf">>, random_get |-> <<"buf", "buf_len">>,
   fd_write |-> <<"fd", "iovs", "iovs_len", "nwritten">>,
   fd_read |-> <<"fd", "iovs", "iovs_len", "nread">>, proc_exit |-> <<"rval">>,
   fd_fdstat_get |-> <<"a", "b">>, fd_close |-> <<"fd">>,
   path_open |-> <<"dirfd", "dirflags", "path", "path_len", "o_flags", "fs_rights_base",
                   "fs_rights_inheriting", "fs_flags", "fd_out">>,
   fd_seek |-> <<"fd", "offset", "whence", "newoffset">>]

NetworkingParams ==
  [_socket |-> <<"family", "type", "proto">>, _bind |-> <<"fd", "sockaddr", "sockaddr_len">>,
   _listen |-> <<"fd", "backlog">>, _accept4 |-> <<"fd", "sockaddr", "sockaddr_len_vptr", "flags">>,
   _sendto |-> <<"fd", "buf", "len", "flags", "addr", "addr_len">>,
   _recvfrom |-> <<"fd", "buf", "len", "flags", "addr", "addr_len_vptr">>,
   _eventfd_sem |-> <<"initial">>, _epoll_create |-> <<>>,
   _epoll_ctl |-> <<"epfd", "op", "fd", "_event">>,
   _epoll_wait |-> <<"epfd", "_events", "maxevents", "timeout">>,
   _fcntl |-> <<"fd", "cmd", "arg">>]

\* How many parameters the function behind a name has.
Arity(name) ==
  Len(IF name \in DOMAIN WasiParams THEN WasiParams[name] ELSE NetworkingParams[name])

\* The extension modules: one with each table, or one of the two alone.
ASSUME ImportsAssumption ==
  /\ \A m \in Modules : Provides[m] \in {Wasi, Networking}
  /\ \A m1, m2 \in Modules : Provides[m1] = Provides[m2] => m1 = m2

IInit ==
  /\ Init
  /\ imported_funcs = [e \in Engines |-> <<>>]
  /\ stale = [e \in Engines |-> {}]
  /\ dead = {}

-----------------------------------------------------------------------------
\* The modules whose resolve function is called for a name: up to the first
\* that knows it.
Asked(e, name) ==
  {out[e].resolvers[i] : i \in {i \in 1 .. out[e].resolver_count :
     \A j \in 1 .. i - 1 : name \notin DOMAIN Provides[out[e].resolvers[j]]}}

Loading(e) == epc[e] = "ready" /\ e \notin dead

\* One turn of the loop, with any request.
Bind(e) ==
  /\ Loading(e)
  /\ Len(imported_funcs[e]) < MaxImports
  /\ \E name \in Names, n \in Counts :
       LET m == ResolveImport(e, name, n)
       IN /\ Asked(e, name) \cap stale[e] = {}
          /\ m # None
          /\ imported_funcs' = [imported_funcs EXCEPT ![e] =
                                  Append(@, [name |-> name, param_count |-> n, from |-> m])]
  /\ UNCHANGED <<vars, stale, dead>>

\* A name that no module has, or a count that differs: the load fails.
BindFails(e) ==
  /\ Loading(e)
  /\ \E name \in Names, n \in Counts :
       Asked(e, name) \cap stale[e] = {} /\ ResolveImport(e, name, n) = None
  /\ ReleaseResolver(e)
  /\ imported_funcs' = [imported_funcs EXCEPT ![e] = <<>>]
  /\ stale' = [stale EXCEPT ![e] = {}]
  /\ UNCHANGED dead

\* A resolve function that was unloaded since the engine took its instance.
BindStale(e) ==
  /\ Loading(e)
  /\ \E name \in Names : Asked(e, name) \cap stale[e] # {}
  /\ dead' = dead \cup {e}
  /\ UNCHANGED <<vars, imported_funcs, stale>>

\* Another step of the load fails, or the engine is destroyed.
Release(e) ==
  /\ Loading(e)
  /\ ReleaseResolver(e)
  /\ imported_funcs' = [imported_funcs EXCEPT ![e] = <<>>]
  /\ stale' = [stale EXCEPT ![e] = {}]
  /\ UNCHANGED dead

\* A module that is unloaded takes its code with it; no engine pins it.
Unload(m) ==
  /\ DeregisterCount(m)
  /\ stale' = [e \in Engines |->
                 IF \E i \in 1 .. Len(out[e].resolvers) : out[e].resolvers[i] = m
                 THEN stale[e] \cup {m} ELSE stale[e]]
  /\ UNCHANGED <<imported_funcs, dead>>

\* get_instance of wasi and of networking cannot fail.
RegistryStep ==
  /\ \/ \E m \in Modules :
          RegisterAlloc(m) \/ RegisterAdd(m) \/ RegisterCount(m) \/ DeregisterDel(m)
     \/ \E e \in Engines : GetArray(e) \/ GetInstance(e) \/ GetDone(e)
  /\ UNCHANGED <<imported_funcs, stale, dead>>

INext ==
  \/ RegistryStep
  \/ \E m \in Modules : Unload(m)
  \/ \E e \in Engines : Bind(e) \/ BindFails(e) \/ BindStale(e) \/ Release(e)

ISpec == IInit /\ [][INext]_ivars

-----------------------------------------------------------------------------
(* Properties. *)

\* A guest calls every import with exactly the arguments its function takes: a
\* binding has the parameter count that was asked for, and that is the arity of
\* the C function, whichever modules were loaded, in whatever order.
BoundAsDeclared ==
  \A e \in Engines : \A i \in 1 .. Len(imported_funcs[e]) :
    imported_funcs[e][i].param_count = Arity(imported_funcs[e][i].name)

\* The two modules do not shadow each other: what a module offers is resolved to
\* that module if it was registered when the engine was loaded, no matter in
\* which order, and fails otherwise.
OrderFree ==
  \A e \in Engines, m \in Modules :
    epc[e] = "ready" =>
      \A name \in DOMAIN Provides[m] :
        ResolveImport(e, name, Provides[m][name])
          = IF \E i \in 1 .. Len(out[e].resolvers) : out[e].resolvers[i] = m THEN m ELSE None
=============================================================================
