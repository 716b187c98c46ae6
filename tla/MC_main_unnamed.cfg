\* dladdr cannot name the main executable; the crash handler asks for the main image.
CONSTANTS
  hd = hd  hm = hm  hs = hs  hx = hx  hy = hy  t1 = t1  t2 = t2
  NoThread = NoThread
  Threads <- MCThreads
  Headers <- MCHeaders
  Dyld = hd
  Main = hm
  Self = hs
  Preloaded <- MCPreloaded
  Closable <- MCClosable
  VmAddr <- DistinctVmAddr
  DladdrNamed <- MainUnnamed
  ValidMagic <- MCHeaders
  TaskInfoOK = TRUE
  LoaderLock = TRUE
  MaxLoads = 2
  MaxResets = 0
  OpenAfterInit = FALSE
  AllocMayFail = FALSE
  TestHooks = FALSE
  UnloadUnnamed <- NoHeaders
  Queries = {"main"}
  NameTargets <- NoHeaders
  NameContains <- NoNamePairs
SPECIFICATION Spec
INVARIANT NoUnmappedHeaderRead
