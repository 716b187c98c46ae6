-------------------------- MODULE MC_DynamicLinker --------------------------
(***************************************************************************)
(* Model-checking instance of DynamicLinker: dyld (hd), the main          *)
(* executable (hm), the KSCrash framework (hs) and plugins hx, hy that    *)
(* the application dlopens and dlcloses.                                   *)
(***************************************************************************)
EXTENDS DynamicLinker, TLC

CONSTANTS hd, hm, hs, hx, hy, t1, t2

MCThreads == {t1, t2}
MCHeaders == {hd, hm, hs, hx}
MCPreloaded == <<hm, hs>>
MCClosable == {hx}
\* With a plugin hy that dladdr cannot name, so add_image and remove_image skip it.
MCHeadersY == MCHeaders \cup {hy}
MCClosableY == {hx, hy}

\* Link-time __TEXT vmaddr: every image has its own.
DistinctVmAddr == (hd :> 3 @@ hm :> 2 @@ hs :> 1 @@ hx :> 4 @@ hy :> 5)
\* Dylibs and bundles linked with the default base address share vmaddr 0.
SharedVmAddr == (hd :> 3 @@ hm :> 2 @@ hs :> 0 @@ hx :> 0 @@ hy :> 0)

\* dladdr names every image but dyld; the dyld path comes from task_info.
AllButDyldNamed == MCHeaders \ {hd}
\* Both plugins can be named, so two plugin adds can overlap.
AllButDyldNamedY == MCHeadersY \ {hd}
\* dladdr cannot name the main executable (the case the code comments on).
MainUnnamed == MCHeaders \ {hd, hm}
\* dladdr names neither dyld nor the plugin hy.
PluginUnnamed == MCHeadersY \ {hd, hy}

ThreadSymmetry == Permutations(MCThreads)

\* Names passed to ksdl_imageNamed / ksdl_imageUUID.  KSCrash's own name is
\* a substring of the main executable's path (an app bundle named after the
\* framework), so a substring query for it matches two images.
NoHeaders == {}
NoNamePairs == {}
NeverClosedTargets == {hm, hs}
SelfInMainPath == {<<hs, hm>>}
PluginTarget == {hx}
\* A name no descriptor has (dladdr cannot name hy): the loop reads every name.
AbsentTarget == {hy}
====
