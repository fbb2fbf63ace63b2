----------------------------- MODULE Lifecycle -----------------------------
(***************************************************************************)
(* Loading and unloading of the kernel modules: kernel-wasm itself (ext.c, *)
(* uapi_init, init_global_registry, vm_init and their counterparts) and    *)
(* the extension modules that register a resolver with it (wasi/ext.c,     *)
(* networking/ext.c).  User processes open /dev/wasmctl and load code as   *)
(* soon as the character device exists, which is before init_module has    *)
(* done the rest of its work.                                              *)
(*                                                                         *)
(* From the kernel: an extension module is linked against the exports of   *)
(* kernel-wasm, so it is loaded only while kernel-wasm is live and pins it *)
(* until it is gone.  wasm_ops has no .owner, so an open descriptor pins   *)
(* nothing.                                                                *)
(***************************************************************************)
CONSTANTS
  Extensions,   \* extension modules
  Symbols,      \* those of them whose init looks up kernel symbols first
  Sessions      \* open descriptors of /dev/wasmctl

ASSUME LifecycleAssumption == Symbols \subseteq Extensions

VARIABLES
  main,               \* where kernel-wasm is in init_module or cleanup_module
  kernel,             \* what uapi_init has registered with the kernel
  uapi_initialized,
  registry,           \* global_registry: "zero" or "ready"
  entries,            \* modules with an entry on its list
  vm_symbols,         \* vm_init has found the kernel's functions
  ext,                \* where each extension module is
  handle,             \* what each descriptor is doing
  held,               \* modules whose instances a load has taken
  oops                \* ledger: why a load died, and where main was

lvars ==
  <<main, kernel, uapi_initialized, registry, entries, vm_symbols, ext, handle, held, oops>>

uapi == <<kernel, uapi_initialized>>

users == <<handle, held, oops>>

\* The module's data is as it is in the file whenever it is loaded.
LInit ==
  /\ main = "absent"
  /\ kernel = {}
  /\ uapi_initialized = FALSE
  /\ registry = "zero"
  /\ entries = {}
  /\ vm_symbols = FALSE
  /\ ext = [m \in Extensions |-> "absent"]
  /\ handle = [s \in Sessions |-> "closed"]
  /\ held = [s \in Sessions |-> {}]
  /\ oops = {}

\* A descriptor that outlives the module's image points at code that is gone.
Unmapped ==
  handle' = [s \in Sessions |->
              IF handle[s] \in {"closed", "dead"} THEN handle[s] ELSE "stale"]

-----------------------------------------------------------------------------
(* kernel-wasm. *)

\* insmod: the module's image is mapped, its variables are fresh.
Insmod ==
  /\ main = "absent"
  /\ main' = "chrdev"
  /\ uapi_initialized' = FALSE
  /\ registry' = "zero"
  /\ vm_symbols' = FALSE
  /\ UNCHANGED <<kernel, entries, ext, users>>

\* uapi_init, up to the failure of one of its three registrations.
RegisterChrdev ==
  /\ main = "chrdev"
  /\ \/ main' = "class" /\ kernel' = kernel \cup {"chrdev"}
     \/ main' = "absent" /\ UNCHANGED kernel
  /\ UNCHANGED <<uapi_initialized, registry, entries, vm_symbols, ext, users>>

ClassCreate_KeepsChrdev ==
  /\ main = "class"
  /\ \/ main' = "device" /\ kernel' = kernel \cup {"class"} /\ UNCHANGED handle
     \/ main' = "absent" /\ Unmapped /\ UNCHANGED kernel
  /\ UNCHANGED <<uapi_initialized, registry, entries, vm_symbols, ext, held, oops>>

ClassCreate ==
  /\ main = "class"
  /\ \/ main' = "device" /\ kernel' = kernel \cup {"class"} /\ UNCHANGED handle
     \/ main' = "absent" /\ kernel' = kernel \ {"chrdev"} /\ Unmapped
  /\ UNCHANGED <<uapi_initialized, registry, entries, vm_symbols, ext, held, oops>>

DeviceCreate ==
  /\ main = "device"
  /\ \/ /\ main' = "registry"
        /\ kernel' = kernel \cup {"device"}
        /\ uapi_initialized' = TRUE
        /\ UNCHANGED handle
     \/ /\ main' = "absent"
        /\ kernel' = kernel \ {"class", "chrdev"}
        /\ Unmapped
        /\ UNCHANGED uapi_initialized
  /\ UNCHANGED <<registry, entries, vm_symbols, ext, held, oops>>

\* init_global_registry: it cannot fail.
InitGlobalRegistry ==
  /\ main = "registry"
  /\ main' = "vm"
  /\ registry' = "ready"
  /\ entries' = {}
  /\ UNCHANGED <<kernel, uapi_initialized, vm_symbols, ext, users>>

VmInit_Ignored ==
  /\ main = "vm"
  /\ main' = "live"
  /\ vm_symbols' \in BOOLEAN
  /\ UNCHANGED <<kernel, uapi_initialized, registry, entries, ext, users>>

\* vm_init, and what init_module does with its result.
VmInit ==
  /\ main = "vm"
  /\ \/ main' = "live" /\ vm_symbols' = TRUE
     \/ main' = "destroy" /\ UNCHANGED vm_symbols
  /\ UNCHANGED <<kernel, uapi_initialized, registry, entries, ext, users>>

\* rmmod, and vm_cleanup which is empty.  An extension module in any state but
\* absent holds a reference.
Rmmod ==
  /\ main = "live"
  /\ \A m \in Extensions : ext[m] = "absent"
  /\ main' = "destroy"
  /\ UNCHANGED <<kernel, uapi_initialized, registry, entries, vm_symbols, ext, users>>

\* destroy_global_registry frees the entries and leaves the list head as it is.
DestroyGlobalRegistry ==
  /\ main = "destroy"
  /\ main' = "uapi"
  /\ UNCHANGED <<kernel, uapi_initialized, registry, entries, vm_symbols, ext, users>>

\* uapi_cleanup: device_destroy, class_unregister, class_destroy, which unregisters
\* a class that is already freed, unregister_chrdev; the image is unmapped.  The
\* process may die over the freed class: then the device number stays, and the
\* image with it.
UapiCleanup ==
  /\ main = "uapi"
  /\ \/ /\ main' = "absent"
        /\ kernel' = IF uapi_initialized THEN kernel \ {"device", "class", "chrdev"} ELSE kernel
        /\ Unmapped
     \/ /\ uapi_initialized
        /\ main' = "stuck"
        /\ kernel' = kernel \ {"device", "class"}
        /\ UNCHANGED handle
  /\ UNCHANGED <<uapi_initialized, registry, entries, vm_symbols, ext, held, oops>>

-----------------------------------------------------------------------------
(* Extension modules. *)

ExtGoto(m, from, to) == ext[m] = from /\ ext' = [ext EXCEPT ![m] = to]

\* insmod of an extension module links it against a kernel-wasm that is live.
ExtInsmod(m) ==
  /\ main = "live"
  /\ ExtGoto(m, "absent", "symbols")
  /\ UNCHANGED <<main, uapi, registry, entries, vm_symbols, users>>

\* kallsyms_lookup_name of every system call that networking needs.
ExtLookup(m) ==
  /\ \/ ExtGoto(m, "symbols", "register")
     \/ m \in Symbols /\ ExtGoto(m, "symbols", "absent")
  /\ UNCHANGED <<main, uapi, registry, entries, vm_symbols, users>>

\* init_module's last step: registration, which fails for want of memory.
ExtRegister(m) ==
  /\ \/ ExtGoto(m, "register", "live") /\ entries' = entries \cup {m}
     \/ ExtGoto(m, "register", "absent") /\ UNCHANGED entries
  /\ UNCHANGED <<main, uapi, registry, vm_symbols, users>>

ExtCleanup_Forgets(m) ==
  /\ ExtGoto(m, "live", "absent")
  /\ UNCHANGED <<main, uapi, registry, entries, vm_symbols, users>>

\* cleanup_module, after which the module's code is gone, also for the loads that
\* have an instance of it.
ExtCleanup(m) ==
  /\ ExtGoto(m, "live", "absent")
  /\ entries' = entries \ {m}
  /\ handle' = [s \in Sessions |->
                 IF handle[s] = "loading" /\ m \in held[s] THEN "dangling" ELSE handle[s]]
  /\ UNCHANGED <<main, uapi, registry, vm_symbols, held, oops>>

-----------------------------------------------------------------------------
(* User processes. *)

\* open finds wasm_ops through the character device.
WdOpen(s) ==
  /\ handle[s] = "closed"
  /\ "chrdev" \in kernel
  /\ handle' = [handle EXCEPT ![s] = "open"]
  /\ UNCHANGED <<main, uapi, registry, entries, vm_symbols, ext, held, oops>>

\* A load dereferences a pointer that is not one, and its process ends.
LoadDies(s, why) ==
  /\ handle' = [handle EXCEPT ![s] = "dead"]
  /\ oops' = oops \cup {[why |-> why, main |-> main]}
  /\ UNCHANGED held

\* What a walk of the registry needs: a list, and the code of every module that
\* has an entry.
WalkIsSafe == registry = "ready" /\ \A m \in entries : ext[m] # "absent"

\* init_execution_engine walks the registry under its mutex and takes an
\* instance from each entry.
LoadWalk(s) ==
  /\ handle[s] = "open"
  /\ main # "absent"
  /\ \/ ~WalkIsSafe /\ LoadDies(s, IF registry = "zero" THEN "list" ELSE "entry")
     \/ /\ WalkIsSafe
        /\ handle' = [handle EXCEPT ![s] = "loading"]
        /\ held' = [held EXCEPT ![s] = entries]
        /\ UNCHANGED oops
  /\ UNCHANGED <<main, uapi, registry, entries, vm_symbols, ext>>

\* The rest of it, with no lock held, calls functions that vm_init has found and
\* the resolve function of the instances it has, unless it fails before or asks
\* no import of the one that is gone.
LoadCode(s) ==
  /\ handle[s] \in {"loading", "dangling"}
  /\ main # "absent"
  /\ \/ handle[s] = "dangling" /\ LoadDies(s, "instance")
     \/ ~vm_symbols /\ LoadDies(s, "symbols")
     \/ /\ vm_symbols
        /\ handle' = [handle EXCEPT ![s] = "loaded"]
        /\ UNCHANGED <<held, oops>>
     \/ /\ handle' = [handle EXCEPT ![s] = "open"]
        /\ UNCHANGED <<held, oops>>
  /\ UNCHANGED <<main, uapi, registry, entries, vm_symbols, ext>>

\* wd_release, while its code is there.
WdRelease(s) ==
  /\ handle[s] \in {"open", "loaded"}
  /\ main # "absent"
  /\ handle' = [handle EXCEPT ![s] = "closed"]
  /\ UNCHANGED <<main, uapi, registry, entries, vm_symbols, ext, held, oops>>

-----------------------------------------------------------------------------
MainStep ==
  \/ Insmod \/ RegisterChrdev \/ ClassCreate \/ DeviceCreate \/ InitGlobalRegistry
  \/ VmInit \/ Rmmod \/ DestroyGlobalRegistry \/ UapiCleanup

ExtStep(m) == ExtInsmod(m) \/ ExtLookup(m) \/ ExtRegister(m) \/ ExtCleanup(m)

HandleStep(s) == WdOpen(s) \/ LoadWalk(s) \/ LoadCode(s) \/ WdRelease(s)

\* An image whose cleanup died stays in memory for good.
Stuck == main = "stuck" /\ UNCHANGED lvars

LNext ==
  \/ MainStep
  \/ Stuck
  \/ \E m \in Extensions : ExtStep(m)
  \/ \E s \in Sessions : HandleStep(s)

LSpec == LInit /\ [][LNext]_lvars

-----------------------------------------------------------------------------
(* Properties. *)

MainPCs ==
  {"absent", "chrdev", "class", "device", "registry", "vm", "live", "destroy", "uapi",
   "stuck"}

\* Every variable has its type.
LTypeOK ==
  /\ main \in MainPCs
  /\ kernel \subseteq {"chrdev", "class", "device"}
  /\ uapi_initialized \in BOOLEAN
  /\ registry \in {"zero", "ready"}
  /\ entries \subseteq Extensions
  /\ vm_symbols \in BOOLEAN
  /\ ext \in [Extensions -> {"absent", "symbols", "register", "live"}]
  /\ handle \in [Sessions -> {"closed", "open", "loading", "dangling", "loaded", "dead", "stale"}]
  /\ held \in [Sessions -> SUBSET Extensions]
  /\ oops \subseteq [why : {"list", "entry", "symbols", "instance"}, main : MainPCs]

\* When kernel-wasm is not in memory, however its init failed or its cleanup
\* ended, nothing that points into it is registered with the kernel: no device
\* to open, no class, and no extension module that would call it.
TornDown ==
  main = "absent" => kernel = {} /\ \A m \in Extensions : ext[m] = "absent"

\* The registry lists exactly the extension modules whose init succeeded and
\* whose cleanup has not run: no walk of the list calls into a module that is
\* gone, and destroy_global_registry never frees an entry that some module
\* will deregister again.
EntriesOwned ==
  /\ entries = {m \in Extensions : ext[m] = "live"}
  /\ main \in {"destroy", "uapi", "stuck"} => entries = {}

\* The device is there before the registry and before the functions that vm_init
\* looks up, so a load may come too early.  Once init_module has succeeded no load
\* meets a part that is not initialised, nor an entry of a module that is gone: it
\* dies only over an instance whose module was unloaded since it walked the list.
SafeOnceLive == \A o \in oops : o.main = "live" => o.why = "instance"

\* What uapi_cleanup asks of its callers: no descriptor of the device is open
\* when the device and its code go away.
NoOpenHandles ==
  main = "uapi" => \A s \in Sessions : handle[s] \in {"closed", "dead", "stale"}
=============================================================================
