\* An image is dlclosed while ksdl_binary_images_initialize runs.
CONSTANTS
  hd = hd  hm = hm  hs = hs  hx = hx  hy = hy  t1 = t1  t2 = t2
  NoThread = NoThread
  Threads <- MCThreads
  Headers <- MCHeaders
  Dyld = hd
  Main = hm
  Self = hs
  Preloaded <- MCPreloaded
  Closable <- MCClosable
  VmAddr <- DistinctVmAddr
  DladdrNamed <- AllButDyldNamed
  ValidMagic <- MCHeaders
  TaskInfoOK = TRUE
  LoaderLock = TRUE
  MaxLoads = 2
  MaxResets = 0
  OpenAfterInit = FALSE
  AllocMayFail = FALSE
  TestHooks = FALSE
  UnloadUnnamed <- NoHeaders
  Queries = {"at_address"}
  NameTargets <- NoHeaders
  NameContains <- NoNamePairs
SPECIFICATION Spec
INVARIANT NoStaleLive
