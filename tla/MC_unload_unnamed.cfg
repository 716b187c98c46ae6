\* dyld delivers callbacks under its lock and plugins are loaded only after initialization; when remove_image runs for plugin hx, dladdr may no longer name it (a debugger attached since the load).
CONSTANTS
  hd = hd  hm = hm  hs = hs  hx = hx  hy = hy  t1 = t1  t2 = t2
  NoThread = NoThread
  Threads <- MCThreads
  Headers <- MCHeaders
  Dyld = hd
  Main = hm
  Self = hs
  Preloaded <- MCPreloaded
  Closable <- MCClosable
  VmAddr <- DistinctVmAddr
  DladdrNamed <- AllButDyldNamed
  ValidMagic <- MCHeaders
  TaskInfoOK = TRUE
  LoaderLock = TRUE
  MaxLoads = 2
  MaxResets = 0
  OpenAfterInit = TRUE
  AllocMayFail = FALSE
  TestHooks = FALSE
  UnloadUnnamed <- PluginTarget
  Queries = {"at_address"}
  NameTargets <- NoHeaders
  NameContains <- NoNamePairs
SPECIFICATION Spec
SYMMETRY ThreadSymmetry
INVARIANT RemovedImageNotFound
