# TLA+ models of KSDynamicLinker (KSCrashRecordingCore)

These are TLA+ models of `src/Sources/KSCrashRecordingCore/KSDynamicLinker.c`. That file keeps
the process-wide list of loaded Mach-O images. The crash handler reads this list, without locks,
to symbolicate addresses.

## 1. Inventory

### Components and their state

| Component | Code | State | Operations |
|---|---|---|---|
| Image registry | lines 72-80, 153-185, 228-230 | `g_head_dummy` (sentinel), `g_images_tail` (atomic), each node's atomic `next`, each node's `unloaded` flag, `g_self_image` | insert (`add_image`: calloc, parse, `atomic_exchange` on the tail, store into `oldTail->next`), soft remove (`remove_image`: re-parse, then walk the list and set `unloaded` on nodes whose `vmAddress` matches), traverse |
| Registration and bootstrap | 82-151 | `is_image_list_initialized` (atomic), `g_all_image_infos` | `ksdl_binary_images_initialize` (CAS), `register_dyld_images` (task_info, then add dyld), `register_for_changes` (register add, then register remove), `compute_slide` |
| Descriptor parser | 189-226, 308-448 | none (pure, reads the image's memory) | `ksdl_first_cmd_after_header` (magic), `get_path` (dladdr, then the dyld path), `ksdl_getBinaryImageForHeader` (load-command walk: `__TEXT` vmaddr/vmsize, UUID, dylib version; sanity log), `getCrashInfo` and `isValidCrashInfoMessage` |
| Query surface | 232-306 | none | `ksdl_get_images`, `ksdl_imageNamed`, `ksdl_imageUUID`, `ksdl_get_main_image`, `ksdl_get_self_image`, `ksdl_image_at_address` |
| Test support | 450-473 | all of the above | reset (frees all nodes), add/remove forwarders |
| External | dyld, KSMemory, KSLogger | dyld's image list and its callback registrations | dlopen/dlclose run the registered callbacks on the calling thread |

`ksdl_dladdr` is declared in the header but has no implementation here.

### Interactions

- dyld calls `add_image` and `remove_image` on whichever thread loads or unloads an image.
  Registering `add_image` makes dyld replay the add for every image already loaded.
- `ksdl_binary_images_initialize` may be called by any number of threads. Only the CAS winner
  registers anything. Losers return immediately, before the list is populated.
- Readers include the crash handler, which may interrupt any thread at any instruction. They walk
  the list with `atomic_load`. They never lock, never allocate and never free.
- Nodes are never freed outside the test reset. `unloaded` goes from false to true and never back.

### What is hard

- **Concurrent insert.** The two-step publish (exchange, then link) leaves a window. During it,
  the new node and every node inserted after it are invisible from the head.
- **Readers racing writers.** A traversal can run while inserts and removes happen.
- **Removal.** Nodes are matched by link-time vmaddr, not by header. The remove callback is
  registered after the add callback, which leaves a window.
- **Header reads.** `ksdl_get_main_image` and `ksdl_imageUUID` dereference image memory, which
  an unload may already have unmapped.
- **Initialization.** Initialization can be called concurrently.

### Properties that make each component correct

- **Registry:**
  - The list is always a prefix of the insertion (exchange) order.
  - No node is lost and there are no cycles.
  - Every insert eventually becomes visible.
  - A mapped image has a live node.
  - An unmapped image has none.
- **Bootstrap:** initialization runs once, and an image that is never closed has at most one
  descriptor.
- **Queries:**
  - `ksdl_image_at_address` is complete with respect to the nodes that were live when it started.
  - No query dereferences an unmapped header.
  - `ksdl_image_at_address`, `ksdl_imageNamed` and `ksdl_imageUUID` return NULL only when no
    image they accept stayed live from the start of the scan.
- **Parser:**
  - The version split follows bits 31-16, 15-8 and 7-0.
  - The crash-info strings are accepted exactly when they are NUL-terminated within 4096 bytes
    and readable.

## 2. Modules

### `DynamicLinker.tla`: registry, bootstrap, dyld callbacks and lock-free readers

- **Nodes.** A node is an index into `image`, which holds the immutable descriptor fields
  (header, vmaddr). Node 0 is `g_head_dummy`; `Null` is -1.
- **Registry variables.** `next`, `unloaded`, `tail`, `selfImage`, `initialized` and
  `allImageInfos` are the file statics.
- **History variables.**
  - `order` records the sequence of tail exchanges.
  - `allocFailed` records the headers whose `add_image` lost its calloc.
  - `testRemoved` records the images a test unregistered with the remove forwarder since they
    were mapped or the registry was reset.
- **Environment (dyld).**
  - `loaded` is dyld's image list in load order.
  - `addRegistered` and `removeRegistered` record whether each callback is registered.
  - `loaderOwner` is the dyld lock, used when `LoaderLock` is TRUE.
  - `loads` counts dlopen calls and is bounded by `MaxLoads`.
  - `Dlopen`, `Dlclose` and `Unmap` are dyld's behaviour and are not mapped to code lines.
- **Threads.** Each thread has a program counter `pc` and locals `todo`, `cont`, `newNode`,
  `oldTail`, `cur` and `op`. The actions are:
  - `Initialize`: the CAS together with `register_dyld_images`.
  - `RegisterAdd` and `RegisterRemove`.
  - `AddImageParse` / `AddImageParseFail` / `AddImageAllocFail`, `AddImageSwap`,
    `AddImageLink`: the three atomic steps of `add_image`. `AddImageAllocFail` is the calloc
    failure at line 155, enabled when `AllocMayFail` is TRUE. The history variable
    `allocFailed` records the headers that lost their descriptor this way.
  - `RemoveImageParse` / `RemoveImageParseFail` / `RemoveImageNameLost`, `RemoveImageScan`
    (one node per step), `RemoveImageDone`. `RemoveImageNameLost` is the re-parse failing
    because dladdr no longer names an image it named at load. It applies only to headers in
    `UnloadUnnamed`.
- **Reader.** One reader (`rpc` and its locals) runs, one node per step:
  - `ksdl_image_at_address`;
  - `ksdl_imageNamed` (exact, or substring through the `NameContains` relation), split into
    `NameCheckUnloaded` (the `img->unloaded` test) and `NameCompare` (the strcmp/strstr read of
    `img->name`, which lives in the image's dyld record);
  - `ksdl_imageUUID`, whose header walk is the separate step `UUIDReadHeader`;
  - `ksdl_get_main_image`.

  `ksdl_get_self_image` is a single read. `Queries` restricts which of these the reader runs.
- **Descriptor type.** `KSBinaryImage` is the record of the header file's `KSBinaryImage` struct,
  reduced to the two fields the registry reads (`header`, `vmAddress`).
- **Abstractions:**
  - A header is a model value that stands for the image's address range. Addresses, slides and
    UUIDs are not modelled here (MachOParser models them). Names enter only through which images
    a name query accepts.
  - Parsing is reduced to its success condition, `ksdl_getBinaryImageForHeader(h)`.
  - `IsExecute(h)` is `h = Main`.
  - `contains_address` is "not unloaded and the same header", because distinct mapped images do
    not overlap.
- **Mutants.** Each mutated step is written as a parameterised operator (`...With`). The original
  and its seeded-bug variant are both one-line uses of that operator.

`MC_DynamicLinker.tla` instantiates the module with these images:

| Image | Role | Mapped at start? |
|---|---|---|
| `hd` | dyld | yes |
| `hm` | main executable | yes |
| `hs` | KSCrash framework (`Self`) | yes |
| `hx` | plugin | no |
| `hy` | plugin | no |

It runs with two threads `t1` and `t2`, and `MaxLoads = 2`.

Five constants extend this instance:

- `MaxResets` bounds calls of `ksdl_test_support_mach_headers_reset`.
- `OpenAfterInit` restricts the application to dlopen and dlclose only once `remove_image` is
  registered.
- `AllocMayFail` lets `add_image`'s calloc fail.
- `TestHooks` lets tests call the add/remove forwarders.
- `UnloadUnnamed` names the images whose dladdr name may be gone when `remove_image` runs.

dyld's registrations are counts, because dyld never unregisters a callback. dlopen runs
`add_image` once per registration, and dlclose runs `remove_image` once per registration.

`ksdl_test_support_mach_headers_reset` is an action that is enabled only when no thread is in a
call and the reader is idle. That is the test-isolation discipline of spec.md 4.2. The action
frees every node, empties the list, and clears `g_self_image` and `is_image_list_initialized`. It
keeps `g_all_image_infos` and dyld's registrations.

The forwarders `ksdl_test_support_mach_headers_add_image` and `_remove_image` are actions of a
thread that is not in a call. Each forwarder runs one whole `add_image` or `remove_image` on an
image that is mapped. They count against `MaxLoads`.

### `ImageRegistryAbstract.tla`: what the registry promises

This module is the registry without threads or pointers. It has four variables:

- `list`: the descriptors in publication order.
- `visible`: what a traversal from the head sees. It is a prefix of `list` that only grows.
- `desc`: each descriptor's contents, written once.
- `unloaded`: write-once flags, set only on visible descriptors.

Its actions are `Insert`, `Reveal`, `MarkUnloaded` and `Reset`. `Spec` adds weak fairness of
`Reveal`.

`DynamicLinker` instantiates it as `Registry` with this refinement mapping:

| Abstract | Concrete |
|---|---|
| `list` | `order`, the exchange order on `g_images_tail` |
| `visible` | `Chain`, the walk from `g_head_dummy` |
| `desc` | `image` restricted to the exchanged nodes |
| `unloaded` | `unloaded` |

`RegistryRefinesAbstract` (`Registry!SafetySpec`) and `RegistryRefinesAbstractLive`
(`Registry!Spec`) are checked as PROPERTYs.

Under this mapping the concrete steps correspond as follows:

- The exchange is `Insert`.
- A link that makes nodes reachable is `Reveal`. A link behind another thread's unlinked node is
  a stutter.
- A `remove_image` mark is `MarkUnloaded`.
- The test reset is `Reset`.

### `MachOParser.tla`: the descriptor parser as pure operators

The image's memory is a word-level sequence:

- header words: 7 for 32-bit images, 8 for 64-bit;
- then load commands, each a record followed by `cmdsize - 1` payload words. The payload looks
  like a `__TEXT` segment, so a walk that ignores `cmdsize` parses junk.

Each function of the parser is an operator translated from the code:

- `ksdl_first_cmd_after_header`: the magic switch.
- `compute_slide` and `SlideWalk`: the first `__TEXT` segment, including the LC_SEGMENT
  fall-through into the 64-bit case.
- `WalkCmds` and `ApplyCmd`: the load-command walk that fills vmaddr/size, the UUID and the dylib
  version.
- `VersionSplit`: shifts and masks from the Bitwise module.
- `isValidCrashInfoMessage`: reads at most `MaxLen + 1` bytes, as the code does.
- `getCrashInfo`: checks the section size and `version` 4 or 5, and validates the message
  strings.
- `ksdl_getBinaryImageForHeader`: puts these together.

A call harness (`Call`/`Return`) enumerates inputs. Each result is checked against a reference
written independently:

- the first `LC_UUID` or `LC_ID_DYLIB` found by searching the command sequence;
- the version fields as bit ranges `Bits(v, hi, lo)`;
- a string accepted exactly when it is readable and has a NUL within its first `MaxLen` bytes.

`MC_MachOParser.tla` supplies:

- headers with four magics (including a byte-swapped and a corrupt one);
- up to two commands of `cmdsize` 1 or 2 over every command kind;
- dylib versions at the bit boundaries (0, 255, 256, 65535, 65536, 0x010203, 2^31-1);
- crash-info sections with good, too-long and unreadable strings.

`MaxLen = 3` stands for 4096. Versions stop at 2^31-1 because TLC's integers are 32-bit signed.
The split of the top bit is not checked.

## 3. Runs

| Run | cfg | Expect | Checks |
|---|---|---|---|
| concurrent | MC_concurrent.cfg | pass | `TypeOK`, `ChainIsOrderPrefix`, `PreloadedRegisteredOnce`, `LoadedImagesRegistered`, `ReaderComplete`, `SelfImageLinked`, `RegistryRefinesAbstract`. No loader lock; both threads can initialize, dlopen and dlclose; calloc may fail; dladdr may lose `hx`'s name before its `remove_image`; the reader runs `ksdl_image_at_address`. |
| after_init | MC_after_init.cfg | pass | `ReaderComplete`, `NoUnmappedHeaderRead`, `LiveDescriptorUnique`, `NoStaleLive`, `RemovedImageNotFound`, and `RegistryRefinesAbstractLive` under weak fairness of every thread and of the reader. Plugins are loaded only after initialization, and dyld serializes its callbacks (`LoaderLock`). Both plugins can be named. The reader runs every query: `ksdl_imageNamed`/`ksdl_imageUUID` by exact and substring name for images never closed (KSCrash's name is a substring of the main executable's path), and `ksdl_get_self_image`. |
| reset | MC_reset.cfg | pass | `ChainIsOrderPrefix`, `LoadedImagesRegistered`, `RegistryRefinesAbstract`, with one test reset followed by re-initialization, and the test add/remove forwarders called beside dyld's callbacks (`MaxLoads = 1`). |
| parser | MC_parser.cfg | pass | `TypeOK`, `DescriptorMatchesCommands`, `SlideFromFirstTextSegment`, `CrashMessageAccepted`, `CrashInfoFields` over every bounded header. |
| shared_vmaddr | MC_shared_vmaddr.cfg | violation | `LoadedImagesRegistered`: dlclosing `hx` marks `hs` (same vmaddr 0) unloaded. |
| close_during_init | MC_close_during_init.cfg | violation | `NoStaleLive`: `hx` is dlclosed between the two registrations and keeps a live descriptor. |
| unload_unnamed | MC_unload_unnamed.cfg | violation | `RemovedImageNotFound`: dladdr names `hx` at load but not at unload, so `remove_image` returns unmarked and dyld unmaps `hx` with its descriptor still live. |
| main_unnamed | MC_main_unnamed.cfg | violation | `NoUnmappedHeaderRead`: with no descriptor for the main executable, `ksdl_get_main_image` reads a dlclosed image's header. |
| query_close | MC_query_close.cfg | violation | `QueryReadsMappedImage`: `ksdl_imageNamed` finds `hx` not unloaded, then a dlclose marks and unmaps it, and the name compare reads `hx`'s `dli_fname`. The UUID header walk has the same gap. |
| concurrent_close | MC_concurrent_close.cfg | violation | `RemovedImageNotFound`: with no loader lock, `t1`'s dlopen of `hx` has exchanged the tail but not linked; `t2` dlopens `hy`, linking it behind `hx`'s node, then dlcloses `hy`. `remove_image` stops at the unlinked node. When `t1` links, `hy`'s descriptor is live and reachable after unmap. |
| reset_double_register | MC_reset_double_register.cfg | violation | `LiveDescriptorUnique`: after reset and re-initialization `add_image` is registered twice, and one dlopen inserts two live descriptors. |
| crash_message_bound | MC_crash_message_bound.cfg | violation | `CrashMessageWithinMaxBytes`: `isValidCrashInfoMessage` accepts a string whose NUL is byte 4097. |

### What the passing runs show

- **Concurrent inserts are correct.** The exchange-then-link insert keeps the list in exchange
  order with no loss or cycle. This holds with inserts on two threads, and with an insert
  interrupted between its exchange and its link.
- **The registry refines the abstract one.** Every step is an abstract step or a stutter:
  - a descriptor is published once and never changes;
  - the visible chain only grows and stays a prefix of the published list;
  - only visible descriptors get flagged unloaded.

  Under fairness, every published descriptor eventually becomes visible.
- **Initialization runs once** under a concurrent first call.
- **A failed calloc costs only its own image.** A dyld batch goes on with the next image.
  `LoadedImagesRegistered` and `SelfImageLinked` exempt only the headers whose add lost its calloc.
- **The test forwarders keep the list sound.** Called beside dyld's callbacks, they keep the list
  in exchange order, keep every mapped image registered, and refinement still holds.
- **The queries are complete.** When `ksdl_image_at_address` or `ksdl_imageNamed` returns NULL,
  no descriptor it accepts that was live when it started is still live.
- **`g_self_image` points at a published descriptor.** It only ever points to an exchanged
  descriptor of KSCrash's own image. That descriptor may still be unreachable behind another
  thread's unfinished insert. It stays live only while no dlclosed image shares KSCrash's
  `__TEXT` vmaddr: the concurrent run gives every image a distinct vmaddr, and the
  shared_vmaddr run shows a dlclose of a plugin at vmaddr 0 marking KSCrash's descriptor.
- **`ksdl_get_main_image` is safe only because of insertion order.** It reads no unmapped header
  because dyld delivers the main executable before any dlopened image. The mutant that inserts at
  the head of the list breaks this.
- **The test reset is sound** while the caller keeps everything else idle. Re-initialization
  repopulates the registry.
- **Loading plugins only after initialization works around the registration window.** It leaves
  one live descriptor per mapped image, and every `remove_image` has marked its image before dyld
  unmaps it. This run has dyld serialize its callbacks. Without that, a dlclose racing
  another thread's unfinished insert leaves the closed image live (concurrent_close).
- **The parser is correct on every bounded header:**
  - its load-command walk agrees with the reference;
  - the slide comes from the first `__TEXT` segment;
  - the version split is exact;
  - crash info is read only from sections of version 4 or 5.

### The violation runs (see `findings` in PROJECT.json)

1. `remove_image` matches on vmaddr, so it can mark a different, still-mapped image.
2. `register_for_changes` registers the add callback before the remove callback. An unload in
   between is lost.
3. `ksdl_get_main_image` reads the headers of unloaded images. This happens when the main
   executable has no descriptor, because `get_path` failed for it.
4. `ksdl_imageNamed` checks `unloaded` and then reads `img->name`, which lives in dyld's record of
   the image. `ksdl_imageUUID` then dereferences the header. An unload can fall between the check
   and either read.
5. `remove_image` re-parses the header to find what to mark, and that parse needs a name. If
   dladdr no longer names the image at unload, for example because a debugger attached after
   the load, nothing is marked.
6. `remove_image` walks from the head. Another thread's insert, stopped between exchange and
   link, hides every later node, including the one being removed. The spec (5) says the
   tail-swap protocol is safe under genuinely concurrent insertions.
7. The test reset re-arms initialization but dyld keeps its registrations, so every later load is
   doubled.
8. `isValidCrashInfoMessage` reads up to 4097 bytes. The spec bounds the message at 4096.

### Bounds

- **Two threads** are enough for every two-actor race listed in `hazards`:
  - exchange/link against exchange/link;
  - CAS against CAS;
  - registration against dlclose.
  The reader is the third actor.
- **Two plugins and `MaxLoads = 2`** allow:
  - a reload (a second descriptor for the same header);
  - concurrent adds from initialization and from a dlopen;
  - an add and a remove on different threads.
- **Symmetry over threads** is used in the safety-only runs. It is not used in after_init, which
  checks liveness.
- **The reset run uses `MaxLoads = 1`.** Its one load or forwarder call still overlaps
  initialization on the other thread. A second call with the forwarders enabled pushes the run
  past the time budget.
- **`MaxResets = 1`** is enough for "reset, re-initialize, load". Only the reset runs use it.
  With `LoaderLock = FALSE` and a reset, the state space grows past the time budget.
- **The parser bounds** are listed under MachOParser.

The concurrent run reaches about 690k distinct states, after_init about 233k, the reset run about 159k, and the parser
run about 28k.

### Fairness

Weak fairness is assumed for each thread's steps inside a call it has started, and for the
reader's steps. OS threads that are runnable get scheduled, and no step here blocks except on the
dyld lock. A thread waiting for that lock gets it, because calls are bounded by `MaxLoads`, so the
lock is eventually free for good; no fairness of the mutex itself is assumed. Starting a call (initialize, dlopen, dlclose, a
query) is not fair: the application may never do it.

## 4. Not modelled

- Simulator-only `dyld_sim` handling.
- A `get_path` name that differs between load and unload but is still present. Removal matches
  on vmaddr, so the difference changes nothing. A name that is gone at unload is modelled
  (`RemoveImageNameLost`).
- A byte-swapped (CIGAM) header's fields. The parser model reads them unswapped, as the code
  does, and nothing is checked about it.
- `ksdl_dladdr`. It is declared in the header and implemented nowhere in this file.
- Address ranges that overlap across unload and reload.
- Memory ordering weaker than sequential consistency. All atomics in the code use the default
  `seq_cst`.
