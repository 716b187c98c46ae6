\* Plugins are loaded only after ksdl_binary_images_initialize has returned; dyld serializes callbacks; both plugins can be named; the reader runs every query, by name only for images never closed. Threads and the reader are weakly fair.
CONSTANTS
  hd = hd  hm = hm  hs = hs  hx = hx  hy = hy  t1 = t1  t2 = t2
  NoThread = NoThread
  Threads <- MCThreads
  Headers <- MCHeadersY
  Dyld = hd
  Main = hm
  Self = hs
  Preloaded <- MCPreloaded
  Closable <- MCClosableY
  VmAddr <- DistinctVmAddr
  DladdrNamed <- AllButDyldNamedY
  ValidMagic <- MCHeadersY
  TaskInfoOK = TRUE
  LoaderLock = TRUE
  MaxLoads = 2
  MaxResets = 0
  OpenAfterInit = TRUE
  AllocMayFail = FALSE
  TestHooks = FALSE
  UnloadUnnamed <- NoHeaders
  Queries = {"at_address", "main", "named", "uuid", "self"}
  NameTargets <- NeverClosedTargets
  NameContains <- SelfInMainPath
SPECIFICATION Spec
INVARIANT ReaderComplete
INVARIANT NoUnmappedHeaderRead
INVARIANT LiveDescriptorUnique
INVARIANT NoStaleLive
INVARIANT RemovedImageNotFound
PROPERTY RegistryRefinesAbstractLive
