# kernel-wasm: a TLA+ verification project

kernel-wasm runs WebAssembly, compiled to native code by Wasmer, in kernel mode.
A user opens `/dev/wasmctl`, loads code with `WASM_LOAD_CODE`, runs it with
`WASM_RUN_CODE`, and copies to and from its memory with `WASM_READ_MEMORY` and
`WASM_WRITE_MEMORY`. Host functions come from extension modules (`wasi`,
`networking`) that register import resolvers.

The modules here are translated from the C code. TLC checks them on small
instances; TLAPS proves for every instance each safety property that holds there, and
both refinements. For the engine it does so on the assumption that a session has one
user. Liveness is only model-checked.

## The parts of the system

| Part | Source | Module | Status |
|---|---|---|---|
| Running guest code | `uapi.c`, `vm.h` | `RunCode`, `RunService` | modelled, safety proved |
| Engine: load, destroy, linear memory | `vm.c`, `vm.h` | `Engine`, `LinearMemory` | modelled, proved for one user |
| Memory ioctls | `uapi.c`, `vm.h` | `Engine` (Copiers) | modelled, proved for one user |
| Registry of import resolvers | `kapi.c`, `kapi.h` | `Registry`, `Imports` | modelled, proved |
| Device, module load and unload | `uapi.c`, `ext.c`, `vm.c`, `kapi.c` | `Lifecycle` | modelled, proved |
| WASI functions | `wasi/ext.c` | `HostCalls`, `Imports` | modelled, proved |
| Networking functions | `networking/ext.c` | `HostCalls`, `Imports` | modelled, proved |
| Coroutine switch | `coroutine.h`, `uapi.c` | `Coroutine` | modelled, safety proved |
| ioctl arguments | `request.h` | `Request` in `Engine` | what decides control |
| WASI constants and layouts | `wasi/def.h` | | no behaviour |

`RunService` and `LinearMemory` are abstract: what a caller of `WASM_RUN_CODE` and a
user of the linear memory are promised. `RunCodeService` and `EngineMemory` hold the
refinement mappings. `MC*` modules give the constants their values; the modules named
`*Proofs`, `RunEffects`, `EngineLifetime` and `HostLedgers` hold theorems. A definition whose name ends in an underscore and a suffix
(`GrowCount_Forgets`) is a variant of the one after it with a plausible mistake:
put in its place it makes a property fail, which shows that the property can.

How they interact: a session (an open file) owns one engine. A load walks the
registry and takes an instance of each resolver. Each run creates two kernel
threads that use the engine and the handler's stack frame; the runner switches to
the engine's stack with the coroutine functions, and its guest calls the host
functions, which work on the engine's memory and the runner's descriptors. Closing
the file destroys the engine.

`src/test` boots a virtual machine and runs one program; it states no property
beyond "it prints".

## RunCode: one run, three threads

`handle_wasm_run_code` (the *handler*) puts a `struct code_runner_task` on its
stack, starts `task_finalizer` (the *finalizer*), creates `code_runner` (the
*runner*), and waits. The runner switches to the engine's stack, takes over the
caller's standard files, and calls the guest. The finalizer calls `kthread_stop`,
which waits for the runner and returns its exit status. When a signal interrupts
the handler it makes the code pages non-executable, sends SIGKILL, and waits again.

State and code:

* `call[r]`: the handler's place and its locals `made_nx` and `result`, and
  whether a signal is pending on its thread.
* `task[r]`: `struct code_runner_task`; semaphores are numbers.
* `fpc[r]`: the finalizer's place.
* `runner[r]`: the runner's place and what the kernel keeps in its task_struct.
* `refs[r]`: the references on stdin, stdout, stderr taken by `fget_raw`.
* `sess`, `key`, `late`: the session, the scheduler's notifier count, and whether
  a notifier callback ever ran on a freed engine.

One action is one stretch of code between two points where another thread can
observe or influence it. Kernel behaviour that the code relies on is modelled
as Linux 4.15 does it and marked external: a kthread that finds
KTHREAD_SHOULD_STOP set never calls its function; `kthread_stop` returns once
`do_exit` has signalled its completion, which is *before* files are closed and
before the last context switch; SIGKILL is ignored until `allow_signal`;
`fget_raw` returns NULL, not an error pointer, for a closed descriptor.

Undefined behaviour is a choice. A finalizer whose frame is gone does anything a
finalizer can do (`FinalizerStale`). Two runners on one stack die of a fault at
any point (`StackClobbered`).

Abstractions: the guest returns 1 (to tell it from the 0 of the memset), traps,
calls a host function, or exits with 0 or 1. Logging and the two preemption
counters are left out. `kill_pid(task_pid(runner_ts))` is one step.

### Properties

* `FrameSafe`: nobody uses the frame after the handler returned. The one
  exception, stated in the property and so described, not excluded, is the finalizer
  of a run whose `kthread_create` failed: the handler posts `finalizer_start` and
  returns without waiting.
* `RunnerNeverCancelled`: `kthread_stop` never precedes the start of the runner.
* `TaskPinned`: the runner's task_struct is there when it is used.
* `ResultTrue`: success, failure and value are those of the runner. It describes
  what the code reports; a runner that could not set up its files, or got
  parameters, simply returns, so the user reads success with value 0.
* `RefsBalanced`, `FilesClosed`: each file reference is dropped exactly once, on
  every failure path, and eventually.
* `NxOwned`: the code pages lack execute permission only while the run that took
  it away has yet to restore it. `NxHeld`: until the runner of a run being
  terminated has ended, the permission comes back only by the `set_memory_x` of an
  overlapping run, on another thread, that was terminated too.
* `NotifierEnabled`: the notifier count is exact, and a callback on a freed engine
  needs another user of notifiers in the machine. The run has none, so there it says
  that no such callback happens; the theorem allows any number.
* `ForcedTermination`, `EndNoticed`: a signal ends the run; the end of the runner
  is noticed.
* `Protocol`: the inductive invariant, below.
* `ServesRuns`: `RunCode` implements `RunService`. For the caller a run is one
  procedure call: it is refused, or its guest starts once and ends once with a
  verdict, and only then is the caller answered, once, with that verdict (or with
  EFAULT when the result cannot be copied out). The mapping reads the status and the
  verdict off the runner's place, its exit status and `task.ret`.

### Runs

| Run | Instance | Question |
|---|---|---|
| `run_one` | one run, all services may fail, any descriptors open, fairness | is every failure path safe, and does everything end? |
| `run_parallel` | two runs, two threads, `kthread_create` and `copy_to_user` may fail | what do overlapping runs do to each other, and what survives one run into the next? |
| `run_stack` | two runs, one thread | violated: see findings |
| `run_fpu` | one run | violated: see findings |

Bounds: a run interacts with another only through the session, the notifier
count and the engine's stack, so two runs show each pairwise effect; the theorems
remove the bound for all but liveness. The two runs of `run_parallel` also
occur one after the other, the second starting while the first runner is still in
`do_exit`; the failures left on are those that end a run in another way, as `run_one` has
them all. They can be exchanged, so that instance uses symmetry; `run_one`, which
checks liveness, does not.

Fairness (`FairSpec`): each thread that can take a step takes one, since the
scheduler runs runnable threads. A guest gets no fairness, with two exceptions:
on non-executable pages it faults, and a host function returns once SIGKILL is
pending, as the system calls behind the host functions sleep interruptibly.
Signals are never forced to arrive.

### Findings

* `run_stack`. `vm.h:97` assumes "that no concurrent access to a session would
  ever happen - is this true?". A caller with a single thread suffices to break
  it: a guest calls `proc_exit`, which runs `do_exit` on the engine's stack; the
  handler returns as soon as the completion is signalled; the next run puts a
  second runner on the same stack.
* `run_fpu`. `README.md:80` lists floating point save/restore with
  `kernel_fpu_{begin,end}`; nothing calls `kernel_fpu_end`, and the notifier
  callbacks only count.

## Engine: load, memory, destruction

`load[l]` is the place of a loading thread in `init_execution_engine` and its locals,
`ee` the engine, `mapping` the page table of the static memory area, `grow[g]` the
memory.grow of a run. `heap`, `allocated` and `lost` are ledgers of what has been
allocated and not freed. One action is one stage of the load, one turn of an
allocation loop, one stage of `wasm_memory_grow`, the check of a copy or its end, or
one half of taking the engine down. Each stage may fail and go to the label `fail`.
`ReadMemory` and `WriteMemory`, the handlers of the memory ioctls, differ in the
direction of the copy, which no property sees. `ReleasePages` unmaps and frees the
pages in one step: the order of `vm.c:300-307` within it is read off the code, not
checked.

Kernel functions, external: `map_kernel_range_noflush` maps page by page, stops at
a page number already mapped or at a NULL page, and fails on a length that is not
a multiple of the page size; `unmap_kernel_range` of an empty range is a BUG;
`free_vm_area` removes mappings that are left.

The run `engine` checks, for one loading thread and one growing guest: the bound
never runs ahead of the page table (`BoundMapped`), no page is freed while mapped and
the stack only after its guard is undone (`MappedLive`), bound and page count agree
(`BoundMatchesPages`), failed loads and closed sessions leave nothing (`Reclaimed`,
except the pages of a grow whose map failed, the FIXME of `vm.c:86`), a load dies on an
empty range only for a memory shorter than a page (`UnmapNotEmpty`), and the engine
implements `LinearMemory` (`GrowsAtomically`): the bytes that can be reached, those
below the bound on a page that is mapped and the engine's own, appear at once, grow by
whole WebAssembly pages in a single step or not at all, are the only ones a copy is
granted, and never vanish under it.

`engine_grows` drops the assumption that a session has one user, which `vm.h:97` makes
and doubts and no lock enforces: with two growing guests `MappedLive` is violated. Both
start at the same page count; one maps entries of the page array that the other wrote,
and the other frees them when it runs out of pages. `Reclaimed` rests on the same
assumption: with two members in `Loaders` both see `sess->ready == 0`, and the second
`memset` forgets what the first allocated.

Bounds: a page of 2 bytes, a WebAssembly page of 2 pages, initial memories of 0 to
5 bytes, at most 12 bytes and 6 physical pages. Lengths off by a byte, memories
off by a page, two grows, growth to the limit and past it, and a shortage of pages
at each turn of the loops all occur. One copier is enough since copies do not
change state that another copy reads. The theorems remove these bounds.

## Registry

The list, its count, the mutex, and the walk of each loading engine, one entry per
step. Entries are named by their module. `registry` runs three modules and two
engines, and `get_instance` of two of the modules may fail, whereupon the instances
that the walk has already taken are dropped without release; the ledger `dropped` counts
them, and `HeldBound` (3) bounds how many pile up. `WalkSafe` and
`CountMatches` say that the mutex protects the walk; `InstancesOwned` that every
instance is in one array or among the dropped ones, so no other path loses one and none
is released twice; `NewestDecides`
compares `module_resolver_resolve_import` with its reference definition: the most
recently registered module that has the name decides, even if the parameter count
differs. All modules and engines can come and go for ever, so there is no deadlock.

## Imports: Registry with the two modules of the repository

`Imports` extends `Registry` with the tables of both `do_resolve` functions, the
parameter lists of the C functions behind them, and the loop of
`init_execution_engine` that binds one import after the other. `BoundAsDeclared`: a
binding has the arity of its function. `OrderFree`: no name of one module hides
one of the other, in whatever order they were registered. The run `imports` has both
modules, all 25 names, every parameter count that occurs, and two imports per engine
(`MaxImports`); bindings do not influence each other, so one engine suffices.
`Unload` is what deregistration means for engines that hold a pointer into the module:
the pointer is stale. `BindStale` calls through one. The code does not guard against
it, and nothing in the repository says that it cannot happen; `SafeOnceLive` of
`Lifecycle` names it as an exception.

## Lifecycle: loading and unloading

`main` is the place of kernel-wasm in `init_module` or `cleanup_module`, `kernel` what
`uapi_init` has registered, `registry`, `entries` and `vm_symbols` what the other two
initialisers set up, `ext[m]` the place of an extension module, `handle[s]` a
descriptor of the device. One action is one registration, lookup or initialiser with
its failure path. Processes can open the device from `register_chrdev` on. A load has
two steps: `LoadWalk` takes an instance from each entry under the registry's mutex
(`held`), `LoadCode` is the rest, which calls the instances with no lock held. An
extension module that is unloaded in between leaves the load `dangling`; `oops` records
why a load died and where `main` was.

`uapi_cleanup` calls `class_unregister` and then `class_destroy`, which unregisters the
freed class once more (`uapi.c:91`). Either this goes unnoticed, or the process dies
there: then `main` is `stuck`, the device number stays registered and the image stays in
memory.

From the kernel, external: an extension module is linked against kernel-wasm and pins
it; `wasm_ops` has no `.owner`, so descriptors pin nothing.

* `TornDown`: when kernel-wasm is not in memory nothing that points into it is
  registered, whichever step of its init failed.
* `EntriesOwned`: the registry lists exactly the live extension modules, and
  `destroy_global_registry` finds it empty.
* `SafeOnceLive`: a load during `init_module` may meet a registry of zeros or missing
  symbols, which is recorded and not excluded; in a kernel-wasm that is live a load dies
  only over an instance whose module was unloaded since its walk.
* `NoOpenHandles`, violated in `lifecycle_handles`: the question of `uapi.c:88`, "Is it
  possible that we still have open handles to the UAPI device at this point?". The
  comment asks; the run answers that it is.

Both runs have the two extension modules of the repository and two descriptors; the
theorems below remove the bound. Modules can be loaded again for ever.

## HostCalls: the functions of wasi and networking

Each caller is a runner with its own linear memory and descriptor table; the standard
files are shared. One action is the part of a function up to a point where the kernel
works on its behalf or another thread's effect can be seen: the checks, the transfer,
the write of the file position, the return. `call[c].ranges` holds the ranges of guest
memory that the host, or the kernel for it, accesses in its next step: results, the
counters `*nread` and `*nwritten`, iovecs, buffers, addresses, events. A range carries
its `slack`: how far it may end behind what was checked.

Guest memory has no contents: the owner of the session can write to it with
`WASM_WRITE_MEMORY` at any time, so each read of a field gives any word, and a second
read of the same field any word again. The counters are guest memory too: `+=` adds to
whatever is there, which the data of a read may itself have overwritten, so nothing is
said of their values. `moved` is what `kernel_read` and `kernel_write` report.

Kernel functions, external: `fget`, `fput`, descriptor tables, and system calls that copy
at most `sizeof(struct sockaddr_storage)` of an address and refuse more events than
EP_MAX_EVENTS. `bind` is called in the protocol, with the address itself: `unix_bind`
reads its family whatever the length, and writes a NUL behind it. `sock_alloc_file`
releases the socket when it fails, as it does from Linux 4.15 on, which
`src/README.md:41` asks for; the `sock_release` of `networking/ext.c:66` is then the second
one, and goes unnoticed, destroys what has taken the socket's place, or kills the runner
(`SocketRelease`). A kernel function that runs into unmapped memory in `kernel_read`,
`kernel_write` or `bind` kills the runner, which keeps its file reference (`Fault`).

* `InsideArea`: an access starts below the bound. It ends there too, with two named
  exceptions, a length that was changed between check and use and the byte that `bind`
  adds; these end inside the 6 GB that are reserved. Also behind 32-bit products that
  wrap (`epoll_wait`, the address of an iovec).
* `RefsExact`: the reference count of each file is what descriptors and calls in
  progress account for. The references that `fd_prestat_get` never drops and those of
  calls in which the runner dies are counted apart (`leaks`): described, not excluded,
  and the property says that there are no others.
* `SocketsOwned`: a socket without file, and a descriptor without file, belong to one
  `__net_socket` in progress. The socket that is dropped when no descriptor is left
  (`lost`) and the one that is released twice (`twice`) are counted apart: the property
  says that there is no third case. It and `RefsExact` say nothing more about a socket
  in `twice`.
* `PosFollows`: `f_pos` is exact, except after two calls used it at once (`raced`), when
  it may lag and never leads.

The run `host` has two callers with three calls between them, one file they share, one
socket, two descriptors and none or two iovecs, each moving 0 or 4 bytes or failing. A
memory has 16 bytes or none, 2^32 is 88, and the words 0, 1 and 15 are offsets, lengths
and counts inside, at and outside of the bound: an address of 15 bytes at 1 ends at the
bound and `bind` goes one behind it; the second of two iovecs fits or ends behind the
bound; one event fits, and the size of 15 wraps to 4. Two descriptors are few enough to
run out. Callers meet only at shared files, hence two; they can be exchanged: symmetry.
The theorems below remove the bounds.

## Coroutine

The instructions of `co_switch` and `pre_call_entry` run on a machine with two stacks,
the callee-saved registers and `rax`; `start_coroutine`, `call_entry` and the loop of
`code_runner` are the C code around them. Registers hold any of three values at each
switch, different in each register, so a mix-up shows. `CalleeSaved`: each side gets
its registers back. `Aligned`: the "16-byte aligned" of `coroutine.h:54`, at the call.
`RunsOnce`: the entry is called once, the coroutine is not resumed after its end, and
`ud2` is not reached. `EntersAndReturns`: the entry is reached, and once it has
returned `code_runner` returns. The theorems hold for any set of values.

Fairness: the thread executes its next instruction while it is in this code, as the
scheduler runs runnable threads. The entry itself (`DoExit`, `Terminate`) gets none,
as guest code may run for ever.

## What is proved

Each theorem is about every value of the constants that satisfies the assumption named
with it. Recursive definitions are handled without an induction rule, by the
least or the largest counterexample in a set of numbers.

### Running guest code: `RunCodeProofs`, `RunEffects`

For any sets of runs and threads, any failures, any descriptors, under
`RunCodeAssumption` (the constants have their types): `Spec => []P` for `TypeOK`,
`Protocol`, `FrameSafe`, `RunnerNeverCancelled`, `TaskPinned`, `ResultTrue`, `NxOwned`,
`RefsBalanced`, `NotifierEnabled`, and `Spec => NxHeld`, `Spec => ServesRuns`.

The invariant is `Inv == TypeOK /\ Protocol /\ NxOwned`. None of the properties is
inductive alone: `FrameSafe` says nothing about how many times `finalizer_end` was
posted, so nothing would stop the handler from leaving early. `Protocol` supplies
what is missing, per run: `Phase` lists, for each place of the handler, where the
finalizer and the runner can be and what the semaphores hold; `Outcome` follows the
exit status from the runner through `finalize_ret` to the result. `TypeOK` needs
`Phase` in return (`put_task_struct` finds a reference to drop).

The argument: each action of a run preserves `Phase` and `Outcome` of that run
(`EnterPhase`, `HandlerPhase`, `FinalizerPhase`, `RunnerPhase`, `GuestPhase`); it
leaves the threads of other runs where they are (`OtherRuns`); `NxStep` follows the
owner of the missing execute permission. The properties follow from the invariant.

`RunEffects` proves what a run does to the rest of the system. The refinement
`ServesRuns` rests on `Inv`: `Outcome` gives the verdict at the moment the handler
answers, and `Phase` excludes that a runner starts after its caller was refused. Every
action of `RunCode` maps to one step of one run of `RunService` or to a stutter.
`Resources`, inductive on top of `Inv`, adds what relates a run to others: a thread is in
one run at a time (`Turns`), nobody is inside a closed descriptor (`ClosedQuiet`), the
notifier count is the number of handlers between its increment and its decrement
(`KeyExact`, a cardinality), and which of the permission, the notifier and the files a
run has at which place (`OwnsOnly`). `RefsBalanced`, `NotifierEnabled` and the action
property `NxHeld` follow.

### Engine: `EngineLifetime`, `EngineProofs`

Under `EngineAssumption` (a WebAssembly page and the static area are multiples of the
page size, the largest initial memory is smaller than the static area) and the hypothesis `SingleUser` (at most one
loading thread and one growing guest): `Spec => []P` for `TypeOK`, `BoundMapped`,
`MappedLive`, `BoundMatchesPages`, `Reclaimed`, `UnmapNotEmpty`, and
`Spec => GrowsAtomically`. `SingleUser` is the assumption of `vm.h:97`; the run
`engine_grows` shows that `MappedLive` fails without it. Copiers are not limited.

The invariant is `Inv == TypeOK /\ Exclusive /\ HeapExact /\ LoadStages /\ PagesExact /\
MappedHeld /\ MemoryBuilt /\ GrowStages`. The properties speak of usable engines and of
freed ones; what connects them is the state in between: who can be at work when
(`Exclusive`), one live buffer for each pointer (`HeapExact`), what a load or a
memory.grow has done at each stage (`LoadStages`, `GrowStages`), that the pages handed
out are those in the page array, each once, or lost (`PagesExact`), and that page table
and array agree (`MappedHeld`, `MemoryBuilt`). `EngineLifetime` has the loading and
destroying actions, `EngineProofs` memory.grow, the copies, the properties and the
refinement.

### Registry and imports: `RegistryProofs`

Under `RegistryAssumption` (the names of modules, engines and list ends differ):
`Spec => []P` for `WalkSafe`, `CountMatches`, `InstancesOwned`, `NewestDecides`. The
invariant `RInv == Types /\ Locks /\ Listed /\ Walks /\ Ledgers` ties the mutex to the
places of its users, the list to the live entries, each walk to the part of the list it
has passed, and the instances to the arrays that hold them. For `NewestDecides` the
recursive scan of `module_resolver_resolve_import` is shown to be unique and equal to the
reference definition.

`ISpec => Spec`: `Imports` with its extra state is still a `Registry`, so those theorems
hold of it. Under `ImportsAssumption` (each module has one of the two tables, no two the
same): `ISpec => []BoundAsDeclared` and `ISpec => []OrderFree`.

### Host functions: `HostCallsProofs`, `HostLedgers`

Under `HostAssumption`: words below U32, bounds at most `Available`,
`Available + U32 <= Area`; finitely many callers, descriptors and standard files, which
are not objects of the pool and have the first descriptors; two values that name no
object.

`Spec => []InsideArea`, for any words: the invariant is the types of `bound`, `obj` and
`call` with `InsideArea`. Each action either clears the ranges of its call or sets ranges
that `Slice` has just granted, give or take the slack, and a stale one is at most a word
longer than its start, which the assumption on `Area` covers.

`Spec => []P` for `RefsExact`, `SocketsOwned` and `PosFollows`, for any
callers and calls. The invariant on top of the first is `HInv == Ledgers /\ Holding /\
Alive /\ RefsExact /\ SocketsOwned /\ Positions`. `Holding` says what a call
has in hand at each place; without it a `fput` could drop a reference that is not the
call's. `Alive`: an object exists while it has references. `Positions`: which calls use a
file position, exact unless raced. The references of all callers are cardinalities of
finite sets; `HostCallsProofs` has the lemmas on how a step of one caller changes them,
`HostLedgers` one lemma per action or group of actions.

### Coroutine and modules: `KernelProofs`

`Spec => []P` of `Coroutine` for `TypeOK`, `CalleeSaved`, `Aligned`, `RunsOnce`, whatever
values the registers hold. `CalleeSaved` says nothing about the stacks, where the
registers are between two switches; the invariant gives the words of both stacks at
every instruction. It takes the words and the registers of the two sides as parameters,
so that one lemma for each instruction of `co_switch` serves both directions.

`LSpec => []P` of `Lifecycle` for `TornDown`, `EntriesOwned`, `SafeOnceLive`, for any
extension modules and descriptors. The invariant adds `Progress`: for each place of
kernel-wasm, what is registered with the kernel, which parts are initialised, and that
extension modules exist only while it is live. Without it `EntriesOwned` would not
survive `InitGlobalRegistry`, nor `TornDown` the failure of `device_create`.

### Only model-checked

Liveness under fairness, which is outside the prover's reach: `ForcedTermination`,
`EndNoticed`, `FilesClosed`, `EntersAndReturns`. The four violated properties
(`EngineExclusive`, `FpuRestored`, `MappedLive` with two guests, `NoOpenHandles`) are
counterexamples of TLC.

## Not modelled

* `wasi/def.h`: constants and layouts, no behaviour.
* Contents: of guest memory, code, globals, tables, files and packets. No property
  depends on them, and where the code branches on guest memory any word is possible.
* `wasm_memory_size`, `wd_read` and `wd_write`: they change nothing.
* The generated code and the Wasmer loader that produces it: not in this repository.
* File flags (`F_SETFL`): with O_APPEND the kernel moves a file position by itself,
  which `PosFollows` would have to exclude.
* The `set_fs` bracket: a kernel thread runs with KERNEL_DS already.
* Growth of memory during a host call (`HostCalls`; the grow itself is in `Engine`): the
  bound only rises, so a range that was inside stays inside.
* The search for a NUL in the path of a unix address, which the kernel bounds by the
  length it was given.
* The use of an imported function whose module was unloaded: `Imports` stops at the
  stale pointer.
