\* Plugins are loaded only after initialization, both plugins can be named, and callbacks of different threads interleave freely (no loader lock): a dlclose runs while another thread's dlopen is between its exchange and its link.
CONSTANTS
  hd = hd  hm = hm  hs = hs  hx = hx  hy = hy  t1 = t1  t2 = t2
  NoThread = NoThread
  Threads <- MCThreads
  Headers <- MCHeadersY
  Dyld = hd
  Main = hm
  Self = hs
  Preloaded <- MCPreloaded
  Closable <- MCClosableY
  VmAddr <- DistinctVmAddr
  DladdrNamed <- AllButDyldNamedY
  ValidMagic <- MCHeadersY
  TaskInfoOK = TRUE
  LoaderLock = FALSE
  MaxLoads = 2
  MaxResets = 0
  OpenAfterInit = TRUE
  AllocMayFail = FALSE
  TestHooks = FALSE
  UnloadUnnamed <- NoHeaders
  Queries = {"at_address"}
  NameTargets <- NoHeaders
  NameContains <- NoNamePairs
SPECIFICATION Spec
SYMMETRY ThreadSymmetry
INVARIANT RemovedImageNotFound
