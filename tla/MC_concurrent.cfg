\* Callbacks of different threads interleave freely (no loader lock); calloc in add_image may fail; dladdr may lose plugin hx's name before its remove_image.
CONSTANTS
  hd = hd  hm = hm  hs = hs  hx = hx  hy = hy  t1 = t1  t2 = t2
  NoThread = NoThread
  Threads <- MCThreads
  Headers <- MCHeaders
  Dyld = hd
  Main = hm
  Self = hs
  Preloaded <- MCPreloaded
  Closable <- MCClosable
  VmAddr <- DistinctVmAddr
  DladdrNamed <- AllButDyldNamed
  ValidMagic <- MCHeaders
  TaskInfoOK = TRUE
  LoaderLock = FALSE
  MaxLoads = 2
  MaxResets = 0
  OpenAfterInit = FALSE
  AllocMayFail = TRUE
  TestHooks = FALSE
  UnloadUnnamed <- PluginTarget
  Queries = {"at_address"}
  NameTargets <- NoHeaders
  NameContains <- NoNamePairs
SPECIFICATION Spec
INVARIANT TypeOK
INVARIANT ChainIsOrderPrefix
INVARIANT PreloadedRegisteredOnce
INVARIANT LoadedImagesRegistered
INVARIANT ReaderComplete
INVARIANT SelfImageLinked
SYMMETRY ThreadSymmetry
PROPERTY RegistryRefinesAbstract
