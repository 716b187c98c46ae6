\* Test isolation: reset, re-initialize, then dlopen a plugin; plugins are loaded only after initialization, so the registration-window bug cannot show.
CONSTANTS
  hd = hd  hm = hm  hs = hs  hx = hx  hy = hy  t1 = t1  t2 = t2
  NoThread = NoThread
  Threads <- MCThreads
  Headers <- MCHeaders
  Dyld = hd
  Main = hm
  Self = hs
  Preloaded <- MCPreloaded
  Closable <- MCClosable
  VmAddr <- DistinctVmAddr
  DladdrNamed <- AllButDyldNamed
  ValidMagic <- MCHeaders
  TaskInfoOK = TRUE
  LoaderLock = TRUE
  MaxLoads = 2
  MaxResets = 1
  OpenAfterInit = TRUE
  AllocMayFail = FALSE
  TestHooks = FALSE
  UnloadUnnamed <- NoHeaders
  Queries = {"at_address"}
  NameTargets <- NoHeaders
  NameContains <- NoNamePairs
SPECIFICATION Spec
SYMMETRY ThreadSymmetry
INVARIANT LiveDescriptorUnique
