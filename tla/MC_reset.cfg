\* Test isolation: the registry is reset once, with nothing running, and re-initialized; tests may call the add/remove forwarders beside dyld's callbacks; dyld serializes its own callbacks. One dlopen or forwarder call keeps the run within its time budget.
CONSTANTS
  hd = hd  hm = hm  hs = hs  hx = hx  hy = hy  t1 = t1  t2 = t2
  NoThread = NoThread
  Threads <- MCThreads
  Headers <- MCHeaders
  Dyld = hd
  Main = hm
  Self = hs
  Preloaded <- MCPreloaded
  Closable <- MCClosable
  VmAddr <- DistinctVmAddr
  DladdrNamed <- AllButDyldNamed
  ValidMagic <- MCHeaders
  TaskInfoOK = TRUE
  LoaderLock = TRUE
  MaxLoads = 1
  MaxResets = 1
  OpenAfterInit = FALSE
  AllocMayFail = FALSE
  TestHooks = TRUE
  UnloadUnnamed <- NoHeaders
  Queries = {"at_address"}
  NameTargets <- NoHeaders
  NameContains <- NoNamePairs
SPECIFICATION Spec
INVARIANT ChainIsOrderPrefix
INVARIANT LoadedImagesRegistered
SYMMETRY ThreadSymmetry
PROPERTY RegistryRefinesAbstract
