--------------------------- MODULE DynamicLinker ---------------------------
(***************************************************************************)
(* The binary-image registry of KSDynamicLinker.c, its bootstrap, the     *)
(* dyld callbacks that feed it and the lock-free readers that query it.    *)
(*                                                                         *)
(* Actors:                                                                 *)
(*  - application threads (Threads): call ksdl_binary_images_initialize,  *)
(*    and dlopen/dlclose images, during which dyld runs the registered    *)
(*    add_image/remove_image callbacks on the calling thread;              *)
(*  - one reader (a crash handler): walks the list without locks, as      *)
(*    ksdl_image_at_address and ksdl_get_main_image do.                    *)
(*                                                                         *)
(* A header is a model value standing for one mapped Mach-O image and its *)
(* address range; addresses, slides, names and UUIDs are abstracted away.  *)
(* Node 0 is g_head_dummy; nodes 1..Len(image) are calloc'd descriptors.   *)
(***************************************************************************)
EXTENDS Integers, Sequences, SequencesExt, FiniteSets

CONSTANTS
  Threads,      \* application threads
  NoThread,     \* model value: nobody holds the loader lock
  Headers,      \* mach headers of images that can be mapped
  Dyld,         \* /usr/lib/dyld, never in the _dyld image list
  Main,         \* the main executable (filetype MH_EXECUTE)
  Self,         \* the image containing KSCrash (&__dso_handle)
  Preloaded,    \* dyld's image list at startup, in load order (no Dyld)
  Closable,     \* images the application may dlopen and dlclose
  VmAddr,       \* [Headers -> _]: vmaddr of each image's __TEXT segment
  DladdrNamed,  \* headers for which dladdr() yields a dli_fname
  ValidMagic,   \* headers whose magic is MH_MAGIC(_64) or MH_CIGAM(_64)
  TaskInfoOK,   \* task_info(TASK_DYLD_INFO) succeeds with an address
  LoaderLock,   \* dyld runs callbacks of different threads one at a time
  MaxLoads,     \* bound on the number of dlopen calls
  MaxResets,    \* bound on ksdl_test_support_mach_headers_reset calls
  OpenAfterInit, \* the application dlopens/dlcloses only once remove_image is registered
  AllocMayFail, \* calloc in add_image may return NULL
  TestHooks,    \* tests call the add/remove forwarders on mapped images
  UnloadUnnamed, \* headers dladdr may no longer name when remove_image runs
  Queries,      \* reader queries checked (see QueryKinds)
  NameTargets,  \* images whose name ksdl_imageNamed/ksdl_imageUUID is given
  NameContains  \* <<a, b>>: the name of image a is a substring of b's name

ASSUME /\ {Dyld, Main, Self} \subseteq Headers
       /\ ToSet(Preloaded) \cup Closable \cup {Dyld} = Headers
       /\ ToSet(Preloaded) \cap Closable = {} /\ Dyld \notin Closable
       /\ Main \in ToSet(Preloaded) /\ Self \notin Closable
       /\ DladdrNamed \cup ValidMagic \subseteq Headers
       /\ TaskInfoOK \in BOOLEAN /\ LoaderLock \in BOOLEAN
       /\ MaxLoads \in Nat /\ MaxResets \in Nat /\ OpenAfterInit \in BOOLEAN
       /\ AllocMayFail \in BOOLEAN /\ TestHooks \in BOOLEAN
       /\ UnloadUnnamed \subseteq DladdrNamed
       /\ Queries \subseteq {"at_address", "main", "named", "uuid", "self"}
       /\ NameTargets \subseteq Headers /\ NameContains \subseteq Headers \X Headers

Dummy == 0          \* g_head_dummy
Null  == -1         \* NULL pointer
NodeBound == Cardinality(Headers) + MaxLoads + 1   \* more than any run allocates

VARIABLES
  \* --- the registry (file-static state of KSDynamicLinker.c) ---
  image,          \* image[n]: the immutable fields of descriptor n
  next,           \* next[n]: the _Atomic next pointer of node n (0 = dummy)
  unloaded,       \* set of descriptors whose unloaded flag is true
  tail,           \* g_images_tail
  selfImage,      \* g_self_image
  initialized,    \* is_image_list_initialized
  allImageInfos,  \* g_all_image_infos /= NULL
  resets,         \* test-support resets made so far
  order,          \* history: descriptors in the order of their tail swap
  \* --- dyld ---
  loaded,         \* dyld's image list, in load order (Dyld excluded)
  addRegistered,  \* registrations of add_image with dyld (never undone)
  removeRegistered, \* registrations of remove_image with dyld
  loaderOwner,    \* thread inside a dyld callback delivery (LoaderLock)
  loads,          \* dlopen and test-support add/remove calls made so far
  allocFailed,    \* history: mapped images whose add_image lost its calloc
  testRemoved,    \* history: images a test unregistered with the remove forwarder
  \* --- per-thread locals ---
  pc, todo, cont, newNode, oldTail, cur, op,
  \* --- the reader ---
  rpc, rq, rmatch, rcur, rstart, rresult, rbad

regVars  == <<image, next, unloaded, tail, selfImage, order>>
initVars == <<initialized, allImageInfos, resets>>
ldrVars  == <<loaded, addRegistered, removeRegistered, loaderOwner, loads, allocFailed, testRemoved>>
thrVars  == <<pc, todo, cont, newNode, oldTail, cur, op>>
rdVars   == <<rpc, rq, rmatch, rcur, rstart, rresult, rbad>>
vars == <<regVars, initVars, ldrVars, thrVars, rdVars>>

Nodes == 1 .. Len(image)
Mapped == ToSet(loaded) \cup {Dyld}

(***************************************************************************)
(* The chain of descriptors a traversal from g_head_dummy.next visits.    *)
(* Fuel bounds the walk so that a cyclic list still yields a value.        *)
(***************************************************************************)
RECURSIVE ChainFrom(_, _)
ChainFrom(n, fuel) ==
  IF n = Null \/ fuel = 0 THEN <<>> ELSE <<n>> \o ChainFrom(next[n], fuel - 1)

Chain == ChainFrom(next[Dummy], Len(image) + 1)
Reachable == ToSet(Chain)
Live == {n \in Reachable : n \notin unloaded}

(***************************************************************************)
(* get_path: dladdr, else the dyld path from g_all_image_infos.           *)
(* (The TARGET_OS_SIMULATOR dyld_sim fallback is not modelled.)            *)
(***************************************************************************)
get_path(h) == h \in DladdrNamed \/ (allImageInfos /\ h = Dyld)

(***************************************************************************)
(* ksdl_getBinaryImageForHeader succeeds: ksdl_first_cmd_after_header     *)
(* recognises the magic and get_path finds a name.  The descriptor keeps  *)
(* the header and the __TEXT vmaddr found by the load-command walk.        *)
(***************************************************************************)
ksdl_first_cmd_after_header(h) == h \in ValidMagic

ksdl_getBinaryImageForHeader(h) == ksdl_first_cmd_after_header(h) /\ get_path(h)
\* struct KSBinaryImage, reduced to the fields the registry reads; next and
\* unloaded are variables of their own, the rest is MachOParser's.
KSBinaryImage == [header : Headers, vmAddress : {VmAddr[h] : h \in Headers}]

Descriptor(h) == [header |-> h, vmAddress |-> VmAddr[h]]

\* contains_address: not unloaded, address inside [header, header + size);
\* the address lies in the image of a header of hs.
contains_address(n, hs) == n \notin unloaded /\ image[n].header \in hs

\* The images ksdl_imageNamed(name of h, exact) accepts: strcmp equal, or
\* with strstr any image whose name contains h's name.
Matches(h, exact) == {h} \cup IF exact THEN {} ELSE {g \in Headers : <<h, g>> \in NameContains}

\* header->filetype == MH_EXECUTE
IsExecute(h) == h = Main

(***************************************************************************)
(* Calls into add_image, one per header of hs, then continue at k.        *)
(***************************************************************************)
CallAddImage(t, hs, k) ==
  /\ todo' = [todo EXCEPT ![t] = hs]
  /\ cont' = [cont EXCEPT ![t] = k]
  /\ pc'   = [pc EXCEPT ![t] = IF hs = <<>> THEN k ELSE "add_parse"]

\* Leaving a dyld callback delivery releases the loader lock.
Release(t) ==
  loaderOwner' = IF loaderOwner = t THEN NoThread ELSE loaderOwner

Acquire(t) ==
  IF LoaderLock THEN loaderOwner' = t ELSE UNCHANGED loaderOwner

LoaderFree == loaderOwner = NoThread

\* add_image returns: the next header of todo, or the continuation.
AddImageReturn(t) ==
  /\ todo' = [todo EXCEPT ![t] = Tail(@)]
  /\ pc'   = [pc EXCEPT ![t] = IF Tail(todo[t]) = <<>> THEN cont[t] ELSE "add_parse"]
  /\ IF Tail(todo[t]) = <<>> THEN Release(t) ELSE UNCHANGED loaderOwner

-----------------------------------------------------------------------------
(***************************************************************************)
(* ksdl_binary_images_initialize: the compare-and-swap on                  *)
(* is_image_list_initialized (won when cas holds), then                    *)
(* register_dyld_images.  A caller that loses the CAS returns without     *)
(* changing anything (a stuttering step).                                  *)
(***************************************************************************)
InitializeWith(t, cas) ==
  /\ pc[t] = "idle"
  /\ cas
  /\ initialized' = TRUE
  /\ allImageInfos' = (allImageInfos \/ TaskInfoOK)
  /\ CallAddImage(t, IF TaskInfoOK THEN <<Dyld>> ELSE <<>>, "reg_add")
  /\ UNCHANGED <<regVars, ldrVars, resets, newNode, oldTail, cur, op, rdVars>>

\* Seeded bug: the flag is set without testing it first.
InitializeUnguarded(t) == InitializeWith(t, TRUE)

Initialize(t) == InitializeWith(t, ~initialized)

(***************************************************************************)
(* register_for_changes, first call: _dyld_register_func_for_add_image.   *)
(* dyld adds the callback to its list (also when it is already there) and *)
(* delivers this registration, on this thread and under its lock, for     *)
(* every image already in its list.                                        *)
(***************************************************************************)
RegisterAdd(t) ==
  /\ pc[t] = "reg_add"
  /\ LoaderFree
  /\ addRegistered' = addRegistered + 1
  /\ IF loaded = <<>> THEN UNCHANGED loaderOwner ELSE Acquire(t)
  /\ CallAddImage(t, loaded, "reg_remove")
  /\ UNCHANGED <<allocFailed, testRemoved, regVars, initVars, loaded, removeRegistered, loads,
                 newNode, oldTail, cur, op, rdVars>>

\* register_for_changes, second call: _dyld_register_func_for_remove_image.
RegisterRemove(t) ==
  /\ pc[t] = "reg_remove"
  /\ LoaderFree
  /\ removeRegistered' = removeRegistered + 1
  /\ pc' = [pc EXCEPT ![t] = "idle"]
  /\ UNCHANGED <<allocFailed, testRemoved, regVars, initVars, loaded, addRegistered, loaderOwner, loads,
                 todo, cont, newNode, oldTail, cur, op, rdVars>>

-----------------------------------------------------------------------------
(***************************************************************************)
(* add_image(header): calloc, then ksdl_getBinaryImageForHeader fills the *)
(* node in private memory; on failure the node is freed and add_image     *)
(* returns.                                                                *)
(***************************************************************************)
AddImageParseWith(t, nxt) ==
  LET h == Head(todo[t]) IN
  /\ pc[t] = "add_parse"
  /\ ksdl_getBinaryImageForHeader(h)
  /\ image' = Append(image, Descriptor(h))
  /\ next' = nxt
  /\ newNode' = [newNode EXCEPT ![t] = Len(image) + 1]
  /\ pc' = [pc EXCEPT ![t] = "add_swap"]
  /\ UNCHANGED <<unloaded, tail, selfImage, order, initVars, ldrVars,
                 todo, cont, oldTail, cur, op, rdVars>>

\* Seeded bug: atomic_store(&buffer->next, NULL) dropped.
AddImageParseNoNext(t) == AddImageParseWith(t, next)

\* ... atomic_store(&buffer->next, NULL)
AddImageParse(t) ==
  AddImageParseWith(t, [i \in 0 .. Len(image) + 1 |->
                          IF i = Len(image) + 1 THEN Null ELSE next[i]])

AddImageParseFail(t) ==
  /\ pc[t] = "add_parse"
  /\ ~ksdl_getBinaryImageForHeader(Head(todo[t]))
  /\ AddImageReturn(t)
  /\ UNCHANGED <<allocFailed, testRemoved, regVars, initVars, loaded, addRegistered, removeRegistered,
                 loads, cont, newNode, oldTail, cur, op, rdVars>>

\* calloc returns NULL: add_image returns before parsing.  The next image
\* of the batch is still delivered.
AddImageAllocFailWith(t, k) ==
  /\ pc[t] = "add_parse" /\ AllocMayFail
  /\ allocFailed' = allocFailed \cup {Head(todo[t])}
  /\ k
  /\ UNCHANGED <<testRemoved, regVars, initVars, loaded, addRegistered, removeRegistered,
                 loads, cont, newNode, oldTail, cur, op, rdVars>>

\* Seeded bug: the failure abandons the rest of the batch.
AddImageAllocFailAbort(t) ==
  AddImageAllocFailWith(t, /\ todo' = [todo EXCEPT ![t] = <<>>]
                           /\ pc' = [pc EXCEPT ![t] = cont[t]]
                           /\ Release(t))

AddImageAllocFail(t) == AddImageAllocFailWith(t, AddImageReturn(t))

\* oldTail = atomic_exchange(&g_images_tail, newImage)
AddImageSwap(t) ==
  /\ pc[t] = "add_swap"
  /\ oldTail' = [oldTail EXCEPT ![t] = tail]
  /\ tail' = newNode[t]
  /\ order' = Append(order, newNode[t])
  /\ pc' = [pc EXCEPT ![t] = "add_link"]
  /\ UNCHANGED <<image, next, unloaded, selfImage, initVars, ldrVars,
                 todo, cont, newNode, cur, op, rdVars>>

\* The link step, with nxt the new value of the next pointers; then
\* g_self_image = newImage when header == &__dso_handle.
AddImageLinkWith(t, nxt) ==
  /\ pc[t] = "add_link"
  /\ next' = nxt
  /\ selfImage' = IF Head(todo[t]) = Self THEN newNode[t] ELSE selfImage
  /\ AddImageReturn(t)
  /\ newNode' = [newNode EXCEPT ![t] = Null]
  /\ oldTail' = [oldTail EXCEPT ![t] = Null]
  /\ UNCHANGED <<allocFailed, testRemoved, image, unloaded, tail, order, initVars, loaded, addRegistered,
                 removeRegistered, loads, cont, cur, op, rdVars>>

\* Seeded bugs: append at the end of the chain a walk finds; store into the
\* node g_images_tail points to now; push at the front of the list.
ChainEnd == IF Chain = <<>> THEN Dummy ELSE Last(Chain)
AddImageLinkAtChainEnd(t) == AddImageLinkWith(t, [next EXCEPT ![ChainEnd] = newNode[t]])
AddImageLinkToTail(t) == AddImageLinkWith(t, [next EXCEPT ![tail] = newNode[t]])
AddImageLinkAtHead(t) ==
  AddImageLinkWith(t, [next EXCEPT ![Dummy] = newNode[t], ![newNode[t]] = next[Dummy]])

\* atomic_store(&oldTail->next, newImage)
AddImageLink(t) == AddImageLinkWith(t, [next EXCEPT ![oldTail[t]] = newNode[t]])

-----------------------------------------------------------------------------
(***************************************************************************)
(* remove_image(header): re-parse the header into a stack buffer, then    *)
(* walk the whole list and set unloaded on every descriptor whose vmaddr   *)
(* equals the parsed one.  One step per node visited.                      *)
(***************************************************************************)
RemoveImageParse(t) ==
  /\ pc[t] = "rm_parse"
  /\ ksdl_getBinaryImageForHeader(op[t])
  /\ cur' = [cur EXCEPT ![t] = next[Dummy]]
  /\ pc' = [pc EXCEPT ![t] = "rm_scan"]
  /\ UNCHANGED <<regVars, initVars, ldrVars, todo, cont, newNode, oldTail, op, rdVars>>

\* remove_image returns: the next registration's call, or the continuation
\* (dyld unmaps, or the test-support caller returns).
RemoveImageReturn(t) ==
  /\ todo' = [todo EXCEPT ![t] = Tail(@)]
  /\ pc' = [pc EXCEPT ![t] = IF Tail(todo[t]) = <<>> THEN cont[t] ELSE "rm_parse"]

RemoveImageParseFail(t) ==
  /\ pc[t] = "rm_parse"
  /\ ~ksdl_getBinaryImageForHeader(op[t])
  /\ RemoveImageReturn(t)
  /\ UNCHANGED <<regVars, initVars, ldrVars, cont, newNode, oldTail, cur, op, rdVars>>

\* get_path at unload: dladdr answers with no dli_fname for an image it
\* named when it was added (the debugger case of the comment at the
\* check), so the re-parse fails and remove_image returns unmarked.
RemoveImageNameLost(t) ==
  /\ pc[t] = "rm_parse"
  /\ op[t] \in UnloadUnnamed /\ ~(allImageInfos /\ op[t] = Dyld)
  /\ ksdl_first_cmd_after_header(op[t])
  /\ RemoveImageReturn(t)
  /\ UNCHANGED <<regVars, initVars, ldrVars, cont, newNode, oldTail, cur, op, rdVars>>

\* One loop iteration: mark cur when match holds, then follow its next.
RemoveImageScanWith(t, match) ==
  /\ pc[t] = "rm_scan"
  /\ cur[t] /= Null
  /\ unloaded' = IF match THEN unloaded \cup {cur[t]} ELSE unloaded
  /\ cur' = [cur EXCEPT ![t] = next[cur[t]]]
  /\ UNCHANGED <<image, next, tail, selfImage, order, initVars, ldrVars, pc,
                 todo, cont, newNode, oldTail, op, rdVars>>

\* Seeded bug: the vmaddr comparison is dropped.
RemoveImageScanAll(t) == RemoveImageScanWith(t, TRUE)

\* if (img->vmAddress == existingImage.vmAddress) img->unloaded = true;
RemoveImageScan(t) ==
  RemoveImageScanWith(t, image[cur[t]].vmAddress = VmAddr[op[t]])

RemoveImageDoneWith(t, stop) ==
  /\ pc[t] = "rm_scan"
  /\ stop
  /\ RemoveImageReturn(t)
  /\ UNCHANGED <<regVars, initVars, ldrVars, cont, newNode, oldTail, cur, op, rdVars>>

\* Seeded bug: the loop stops at the last node instead of after it.
RemoveImageDoneEarly(t) ==
  RemoveImageDoneWith(t, IF cur[t] = Null THEN TRUE ELSE next[cur[t]] = Null)

\* the loop ends when img == NULL
RemoveImageDone(t) == RemoveImageDoneWith(t, cur[t] = Null)

-----------------------------------------------------------------------------
(***************************************************************************)
(* dyld: dlopen maps an image and runs add_image once per registration   *)
(* of it, on the calling thread; dlclose runs remove_image once per      *)
(* registration before unmapping.  An image is not closed while another  *)
(* call is on it.  With OpenAfterInit the application loads plugins only  *)
(* after ksdl_binary_images_initialize has returned once.                  *)
(***************************************************************************)
Busy(h) == \E u \in Threads :
             \/ pc[u] \in {"add_parse", "add_swap", "add_link"} /\ Head(todo[u]) = h
             \/ pc[u] \in {"rm_parse", "rm_scan", "unmap"} /\ op[u] = h

Dlopen(t, h) ==
  /\ pc[t] = "idle" /\ LoaderFree
  /\ h \in Closable \ ToSet(loaded)
  /\ loads < MaxLoads
  /\ OpenAfterInit => removeRegistered > 0
  /\ loaded' = Append(loaded, h)
  /\ loads' = loads + 1
  /\ allocFailed' = allocFailed \ {h}
  /\ testRemoved' = testRemoved \ {h}
  /\ IF addRegistered > 0
     THEN Acquire(t) /\ CallAddImage(t, [i \in 1 .. addRegistered |-> h], "idle")
     ELSE UNCHANGED <<loaderOwner, todo, cont, pc>>
  /\ UNCHANGED <<regVars, initVars, addRegistered, removeRegistered,
                 newNode, oldTail, cur, op, rdVars>>

Dlclose(t, h) ==
  /\ pc[t] = "idle" /\ LoaderFree
  /\ h \in Closable \cap ToSet(loaded)
  /\ ~Busy(h)
  /\ OpenAfterInit => removeRegistered > 0
  /\ IF removeRegistered > 0
     THEN /\ Acquire(t)
          /\ op' = [op EXCEPT ![t] = h]
          /\ todo' = [todo EXCEPT ![t] = [i \in 1 .. removeRegistered |-> h]]
          /\ cont' = [cont EXCEPT ![t] = "unmap"]
          /\ pc' = [pc EXCEPT ![t] = "rm_parse"]
          /\ UNCHANGED loaded
     ELSE loaded' = Remove(loaded, h) /\ UNCHANGED <<loaderOwner, pc, op, todo, cont>>
  /\ UNCHANGED <<allocFailed, testRemoved, regVars, initVars, addRegistered, removeRegistered, loads,
                 newNode, oldTail, cur, rdVars>>

Unmap(t) ==
  /\ pc[t] = "unmap"
  /\ loaded' = Remove(loaded, op[t])
  /\ Release(t)
  /\ pc' = [pc EXCEPT ![t] = "idle"]
  /\ op' = [op EXCEPT ![t] = Dyld]
  /\ UNCHANGED <<allocFailed, testRemoved, regVars, initVars, addRegistered, removeRegistered, loads,
                 todo, cont, newNode, oldTail, cur, rdVars>>

(***************************************************************************)
(* ksdl_test_support_mach_headers_reset: free every node, empty the list, *)
(* clear g_self_image and is_image_list_initialized.  It is only called  *)
(* with nothing else running (spec.md 4.2).  dyld keeps the callbacks     *)
(* registered, and g_all_image_infos keeps its value.                      *)
(***************************************************************************)
\* No thread is inside an initialize, add_image, remove_image or dlclose.
Quiescent == \A t \in Threads : pc[t] = "idle"

ResetWith(head, tl, flag) ==
  /\ resets < MaxResets
  /\ Quiescent /\ rpc = "idle"
  /\ image' = <<>>
  /\ next' = [i \in {Dummy} |-> head]
  /\ unloaded' = {}
  /\ tail' = tl
  /\ selfImage' = Null
  /\ order' = <<>>
  /\ initialized' = flag
  /\ resets' = resets + 1
  /\ allocFailed' = {}
  /\ testRemoved' = {}
  /\ UNCHANGED <<allImageInfos, loaded, addRegistered, removeRegistered, loaderOwner,
                 loads, thrVars, rdVars>>

\* Seeded bugs: g_images_tail or is_image_list_initialized
\* left as they were.
ResetKeepTail == ResetWith(Null, tail, FALSE)
ResetKeepFlag == ResetWith(Null, Dummy, initialized)

ksdl_test_support_mach_headers_reset == ResetWith(Null, Dummy, FALSE)

(***************************************************************************)
(* ksdl_test_support_mach_headers_add_image / _remove_image: a test calls *)
(* add_image or remove_image directly on its own thread, outside dyld and *)
(* its lock, for the header of an image that is mapped.                    *)
(***************************************************************************)
ksdl_test_support_mach_headers_add_image(t, h) ==
  /\ pc[t] = "idle" /\ TestHooks /\ loads < MaxLoads
  /\ h \in Mapped
  /\ loads' = loads + 1
  /\ CallAddImage(t, <<h>>, "idle")
  /\ UNCHANGED <<allocFailed, testRemoved, regVars, initVars, loaded, addRegistered, removeRegistered,
                 loaderOwner, newNode, oldTail, cur, op, rdVars>>

ksdl_test_support_mach_headers_remove_image(t, h) ==
  /\ pc[t] = "idle" /\ TestHooks /\ loads < MaxLoads
  /\ h \in Mapped
  /\ loads' = loads + 1
  /\ op' = [op EXCEPT ![t] = h]
  /\ todo' = [todo EXCEPT ![t] = <<h>>]
  /\ cont' = [cont EXCEPT ![t] = "idle"]
  /\ pc' = [pc EXCEPT ![t] = "rm_parse"]
  /\ testRemoved' = testRemoved \cup {h}
  /\ UNCHANGED <<allocFailed, regVars, initVars, loaded, addRegistered, removeRegistered,
                 loaderOwner, newNode, oldTail, cur, rdVars>>

-----------------------------------------------------------------------------
(***************************************************************************)
(* The reader: ksdl_image_at_address(address in the range of an image),  *)
(* ksdl_imageNamed and ksdl_imageUUID (which starts with ksdl_imageNamed) *)
(* and ksdl_get_main_image, each a loop of atomic_load(&img->next) from   *)
(* ksdl_get_images(), and ksdl_get_self_image.  It takes no lock and may  *)
(* run at any moment.  rmatch holds the headers the query accepts; rstart *)
(* records the live descriptors reachable when the query begins.           *)
(***************************************************************************)
StartImageAtAddress(h) ==
  /\ rpc = "idle" /\ "at_address" \in Queries
  /\ rq' = "at_address" /\ rmatch' = {h}
  /\ rcur' = next[Dummy]
  /\ rstart' = Live
  /\ rpc' = "scan"
  /\ UNCHANGED <<regVars, initVars, ldrVars, thrVars, rresult, rbad>>

\* ksdl_imageNamed(name, exact), alone (q = "named") or inside ksdl_imageUUID.
StartImageNamed(q, h, exact) ==
  /\ rpc = "idle" /\ q \in Queries \cap {"named", "uuid"}
  /\ h \in NameTargets
  /\ rq' = q /\ rmatch' = Matches(h, exact)
  /\ rcur' = next[Dummy]
  /\ rstart' = Live
  /\ rpc' = "scan"
  /\ UNCHANGED <<regVars, initVars, ldrVars, thrVars, rresult, rbad>>

\* ksdl_image_at_address: contains_address holds and img is returned.
ScanHit ==
  /\ rpc = "scan" /\ rq = "at_address" /\ rcur /= Null
  /\ contains_address(rcur, rmatch)
  /\ rresult' = rcur
  /\ rpc' = "done"
  /\ UNCHANGED <<regVars, initVars, ldrVars, thrVars, rq, rmatch, rcur, rstart, rbad>>

ScanNext ==
  /\ rpc = "scan" /\ rq = "at_address" /\ rcur /= Null
  /\ ~contains_address(rcur, rmatch)
  /\ rcur' = next[rcur]
  /\ UNCHANGED <<regVars, initVars, ldrVars, thrVars, rpc, rq, rmatch, rstart, rresult, rbad>>

\* ksdl_imageNamed: an unloaded img is skipped; for a live one the loop goes
\* on to strcmp/strstr on img->name (rpc = "cmp"), a separate read.
NameCheckUnloaded ==
  /\ rpc = "scan" /\ rq \in {"named", "uuid"} /\ rcur /= Null
  /\ IF rcur \in unloaded
     THEN rcur' = next[rcur] /\ UNCHANGED rpc
     ELSE rpc' = "cmp" /\ UNCHANGED rcur
  /\ UNCHANGED <<regVars, initVars, ldrVars, thrVars, rq, rmatch, rstart, rresult, rbad>>

\* The name comparison: img is returned (ksdl_imageUUID goes on to read
\* its header) or the loop moves to img->next.
NameCompare ==
  /\ rpc = "cmp"
  /\ IF image[rcur].header \in rmatch
     THEN /\ rresult' = rcur
          /\ rpc' = IF rq = "uuid" THEN "uuid" ELSE "done"
          /\ UNCHANGED rcur
     ELSE /\ rcur' = next[rcur]
          /\ rpc' = "scan"
          /\ UNCHANGED rresult
  /\ UNCHANGED <<regVars, initVars, ldrVars, thrVars, rq, rmatch, rstart, rbad>>

\* ksdl_imageUUID after ksdl_imageNamed returned img: img->header->magic,
\* ncmds and the load commands are read from the image's memory, which a
\* dlclose since the unloaded check may have unmapped (rbad).  The UUID
\* itself is abstracted: the result stays the descriptor.
UUIDReadHeader ==
  /\ rpc = "uuid"
  /\ rbad' = (image[rresult].header \notin Mapped)
  /\ rpc' = "done"
  /\ UNCHANGED <<regVars, initVars, ldrVars, thrVars, rq, rmatch, rcur, rstart, rresult>>

\* ksdl_get_self_image: one plain read of g_self_image.
GetSelfImage ==
  /\ rpc = "idle" /\ "self" \in Queries
  /\ rq' = "self" /\ rresult' = selfImage
  /\ rpc' = "done"
  /\ UNCHANGED <<regVars, initVars, ldrVars, thrVars, rmatch, rcur, rstart, rbad>>

StartGetMainImage ==
  /\ rpc = "idle" /\ "main" \in Queries
  /\ rq' = "main"
  /\ rcur' = next[Dummy]
  /\ rpc' = "scan"
  /\ UNCHANGED <<regVars, initVars, ldrVars, thrVars, rmatch, rstart, rresult, rbad>>

\* img->header->filetype reads the image's own memory; if the image is no
\* longer mapped the read faults and the crash handler dies (rbad).
GetMainImageStep ==
  /\ rpc = "scan" /\ rq = "main" /\ rcur /= Null
  /\ LET h == image[rcur].header IN
       CASE h \notin Mapped -> rbad' = TRUE /\ rpc' = "done" /\ UNCHANGED <<rcur, rresult>>
         [] IsExecute(h)    -> rresult' = rcur /\ rpc' = "done" /\ UNCHANGED <<rcur, rbad>>
         [] OTHER           -> rcur' = next[rcur] /\ UNCHANGED <<rpc, rresult, rbad>>
  /\ UNCHANGED <<regVars, initVars, ldrVars, thrVars, rq, rmatch, rstart>>

\* The loop ends (atEnd) and the query returns NULL.
ReaderMissWhen(atEnd) ==
  /\ rpc = "scan" /\ atEnd
  /\ rresult' = Null
  /\ rpc' = "done"
  /\ UNCHANGED <<regVars, initVars, ldrVars, thrVars, rq, rmatch, rcur, rstart, rbad>>

\* Seeded bug: the loop runs while img->next != NULL; the last node is never tested.
ReaderMissEarly == ReaderMissWhen(IF rcur = Null THEN TRUE ELSE next[rcur] = Null)

\* Both loops end at NULL and return NULL.
ReaderMiss == ReaderMissWhen(rcur = Null)

\* The query returns; its locals are dead.
ReaderReturn ==
  /\ rpc = "done" /\ ~rbad
  /\ rpc' = "idle" /\ rq' = "main" /\ rmatch' = {}
  /\ rcur' = Null /\ rstart' = {} /\ rresult' = Null
  /\ UNCHANGED <<regVars, initVars, ldrVars, thrVars, rbad>>

-----------------------------------------------------------------------------
Init ==
  /\ image = <<>>
  /\ next = [i \in {Dummy} |-> Null]
  /\ unloaded = {}
  /\ tail = Dummy
  /\ selfImage = Null
  /\ initialized = FALSE
  /\ allImageInfos = FALSE
  /\ resets = 0
  /\ order = <<>>
  /\ loaded = Preloaded
  /\ addRegistered = 0
  /\ removeRegistered = 0
  /\ loaderOwner = NoThread
  /\ loads = 0
  /\ allocFailed = {}
  /\ testRemoved = {}
  /\ pc = [t \in Threads |-> "idle"]
  /\ todo = [t \in Threads |-> <<>>]
  /\ cont = [t \in Threads |-> "idle"]
  /\ newNode = [t \in Threads |-> Null]
  /\ oldTail = [t \in Threads |-> Null]
  /\ cur = [t \in Threads |-> Null]
  /\ op = [t \in Threads |-> Dyld]
  /\ rpc = "idle" /\ rq = "main" /\ rmatch = {} /\ rcur = Null
  /\ rstart = {} /\ rresult = Null /\ rbad = FALSE

\* The steps a thread takes inside a call it has started.
ThreadStep(t) ==
  \/ RegisterAdd(t) \/ RegisterRemove(t)
  \/ AddImageParse(t) \/ AddImageParseFail(t) \/ AddImageAllocFail(t) \/ AddImageSwap(t) \/ AddImageLink(t)
  \/ RemoveImageParse(t) \/ RemoveImageParseFail(t) \/ RemoveImageNameLost(t)
  \/ RemoveImageScan(t)
  \/ RemoveImageDone(t) \/ Unmap(t)

ReaderStep ==
  \/ ScanHit \/ ScanNext \/ NameCheckUnloaded \/ NameCompare \/ UUIDReadHeader \/ GetMainImageStep
  \/ ReaderMiss \/ ReaderReturn

Next ==
  \/ \E t \in Threads : Initialize(t) \/ ThreadStep(t)
  \/ \E t \in Threads, h \in Headers : Dlopen(t, h) \/ Dlclose(t, h)
  \/ \E t \in Threads, h \in Headers : ksdl_test_support_mach_headers_add_image(t, h)
                                      \/ ksdl_test_support_mach_headers_remove_image(t, h)
  \/ \E h \in Headers : StartImageAtAddress(h)
  \/ \E q \in {"named", "uuid"}, h \in Headers, exact \in BOOLEAN : StartImageNamed(q, h, exact)
  \/ StartGetMainImage
  \/ GetSelfImage
  \/ ReaderStep
  \/ ksdl_test_support_mach_headers_reset

(***************************************************************************)
(* Threads and the reader are scheduled by the OS: one that has started a *)
(* call keeps running it.  Starting a call is the application's choice.    *)
(***************************************************************************)
Fairness ==
  /\ \A t \in Threads : WF_vars(ThreadStep(t))
  /\ WF_vars(ReaderStep)

Spec == Init /\ [][Next]_vars /\ Fairness

-----------------------------------------------------------------------------
(***************************************************************************)
(* Properties.                                                             *)
(***************************************************************************)
TypeOK ==
  /\ image \in Seq(KSBinaryImage)
  /\ next \in [0 .. Len(image) -> {Null} \cup (0 .. Len(image))]
  /\ unloaded \subseteq Nodes
  /\ tail \in 0 .. Len(image)
  /\ selfImage \in Nodes \cup {Null}
  /\ initialized \in BOOLEAN /\ allImageInfos \in BOOLEAN
  /\ order \in Seq(Nodes)
  /\ loaded \in Seq(Headers \ {Dyld})
  /\ addRegistered \in 0 .. MaxResets + 1 /\ removeRegistered \in 0 .. MaxResets + 1
  /\ resets \in 0 .. MaxResets
  /\ allocFailed \subseteq Headers
  /\ testRemoved \subseteq Headers
  /\ loaderOwner \in Threads \cup {NoThread}
  /\ loads \in 0 .. MaxLoads
  /\ pc \in [Threads -> {"idle", "reg_add", "reg_remove", "add_parse", "add_swap",
                         "add_link", "rm_parse", "rm_scan", "unmap"}]
  /\ todo \in [Threads -> Seq(Headers)]
  /\ cur \in [Threads -> {Null} \cup Nodes]
  /\ rpc \in {"idle", "scan", "cmp", "uuid", "done"}
  /\ rq \in {"at_address", "main", "named", "uuid", "self"}
  /\ rmatch \subseteq Headers
  /\ rcur \in {Null} \cup Nodes
  /\ rresult \in {Null} \cup Nodes
  /\ rbad \in BOOLEAN

\* Since the last reset, dyld has handed header h to add_image (dyld itself
\* only via task_info).
Delivered(h) == initialized /\ IF h = Dyld THEN allImageInfos ELSE addRegistered > 0

\* ... its add_image did not lose its calloc, and no test has called the
\* remove forwarder on it since it was mapped or the registry was reset.
Registered(h) == Delivered(h) /\ h \notin allocFailed \cup testRemoved

(***************************************************************************)
(* The exchange-then-link insert of add_image keeps the list in the order *)
(* of the exchanges on g_images_tail, loses no descriptor and makes no    *)
(* cycle, even with add_image running on several threads at once: the     *)
(* chain a reader walks is a prefix of that order, and all of it once no  *)
(* thread is between its exchange and its link.                            *)
(***************************************************************************)
ChainIsOrderPrefix ==
  /\ IsPrefix(Chain, order)
  /\ (\A t \in Threads : pc[t] /= "add_link") => Chain = order

(***************************************************************************)
(* The compare-and-swap in ksdl_binary_images_initialize makes            *)
(* register_dyld_images and the initial add_image deliveries run once,    *)
(* however many threads call it concurrently: an image that is never      *)
(* dlclosed has at most one descriptor.                                    *)
(***************************************************************************)
PreloadedRegisteredOnce ==
  \A h \in Headers \ Closable :
    Cardinality({n \in Nodes : image[n].header = h}) <= 1

(***************************************************************************)
(* Every mapped image that dyld has handed to add_image and that parses   *)
(* has a live, reachable descriptor whenever no call is in progress: no   *)
(* load is lost, a failed calloc loses only its own image, and            *)
(* remove_image never marks a still-mapped image unloaded                  *)
(* (ksdl_image_at_address must still find it).                             *)
(***************************************************************************)
LoadedImagesRegistered ==
  Quiescent =>
    \A h \in Mapped :
      ksdl_getBinaryImageForHeader(h) /\ Registered(h) =>
        \E n \in Live : image[n].header = h

(***************************************************************************)
(* Once no call is in progress, no live descriptor belongs to an image    *)
(* dyld has unmapped: every dlclose marked its descriptor unloaded, so    *)
(* ksdl_image_at_address can never attribute an address to a stale image. *)
(***************************************************************************)
NoStaleLive ==
  Quiescent => \A n \in Live : image[n].header \in Mapped

(***************************************************************************)
(* spec.md 8: after an add and then a remove of the same header,          *)
(* imageContaining finds nothing in the image.  When dlclose's            *)
(* remove_image calls have all returned and dyld is about to unmap the    *)
(* image, no live descriptor of it is reachable from g_head_dummy.        *)
(***************************************************************************)
RemovedImageNotFound ==
  \A t \in Threads : pc[t] = "unmap" => \A n \in Live : image[n].header /= op[t]

(***************************************************************************)
(* spec.md 3: one descriptor per header.  Once no call is in progress, no *)
(* image has two live descriptors, so ksdl_imageNamed and                 *)
(* ksdl_image_at_address answer with the image's only live descriptor.    *)
(***************************************************************************)
LiveDescriptorUnique ==
  Quiescent =>
    \A m, n \in Live : image[m].header = image[n].header => m = n

(***************************************************************************)
(* ksdl_image_at_address and ksdl_imageNamed (also inside               *)
(* ksdl_imageUUID), racing any adds and removes, are complete: when they  *)
(* return NULL, no descriptor of an image they accept that was live and   *)
(* reachable when they started is still live.                              *)
(***************************************************************************)
ReaderComplete ==
  rpc = "done" /\ rq \in {"at_address", "named", "uuid"} /\ rresult = Null =>
    ~\E n \in rstart : n \notin unloaded /\ image[n].header \in rmatch

(***************************************************************************)
(* ksdl_get_main_image and ksdl_imageUUID, which may run in the crash    *)
(* handler, only dereference headers of images that are still mapped.     *)
(***************************************************************************)
NoUnmappedHeaderRead == ~rbad

(***************************************************************************)
(* spec.md 1: the crash handler must never dereference memory that might *)
(* be unmapped.  Both queries check img->unloaded and read the image      *)
(* afterwards: ksdl_imageNamed compares img->name, the dli_fname string   *)
(* that lives in the image's dyld bookkeeping, for every live descriptor  *)
(* the loop passes; ksdl_imageUUID then walks the returned image's load   *)
(* commands.  Each read must find the image still mapped.                 *)
(***************************************************************************)
QueryReadsMappedImage ==
  /\ rpc = "cmp" => image[rcur].header \in Mapped
  /\ rpc = "uuid" => image[rresult].header \in Mapped

(***************************************************************************)
(* ksdl_get_self_image returns only a descriptor of KSCrash's own image   *)
(* that add_image has already published by the exchange on               *)
(* g_images_tail, and never one that remove_image has marked unloaded     *)
(* (KSCrash is never closed).  It may not be reachable yet: another       *)
(* thread's insert can sit between its exchange and its link.  Once every *)
(* call has finished after add_image was registered, it is set (when      *)
(* KSCrash's image parses and its calloc did not fail).                    *)
(***************************************************************************)
SelfImageLinked ==
  /\ selfImage /= Null =>
       /\ selfImage \in ToSet(order) /\ selfImage \notin unloaded
       /\ image[selfImage].header = Self
  /\ Quiescent /\ Registered(Self) /\ ksdl_getBinaryImageForHeader(Self) => selfImage /= Null

(***************************************************************************)
(* The registry implements ImageRegistryAbstract: the published list is   *)
(* the exchange order on g_images_tail, the visible list is the chain     *)
(* from g_head_dummy, a descriptor's contents are its calloc'd node.      *)
(***************************************************************************)
Registry == INSTANCE ImageRegistryAbstract WITH
  Ids <- 1 .. NodeBound,
  Descs <- {Descriptor(h) : h \in Headers},
  list <- order,
  visible <- Chain,
  desc <- [n \in ToSet(order) |-> image[n]]

(***************************************************************************)
(* Every step of add_image, remove_image and the bootstrap, on any number *)
(* of threads, is a step of the abstract registry or leaves it unchanged: *)
(* a descriptor is published once and never changes, the chain a          *)
(* traversal sees only grows and stays a prefix of the published list,    *)
(* and remove_image only flags descriptors a traversal can reach.          *)
(***************************************************************************)
RegistryRefinesAbstract == Registry!SafetySpec

(***************************************************************************)
(* With each thread's steps weakly fair, the registry implements the      *)
(* abstract registry including its liveness: every published descriptor  *)
(* eventually becomes visible from g_head_dummy.                           *)
(***************************************************************************)
RegistryRefinesAbstractLive == Registry!Spec

=============================================================================
