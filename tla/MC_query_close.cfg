\* dyld delivers callbacks under its lock; ksdl_imageNamed and ksdl_imageUUID are asked for plugin hx while another thread may dlclose it. Plugins are loaded only after initialization, so the registration-window bug cannot show.
\* A header read that faults (rbad) ends the process, so deadlock is not checked.
CONSTANTS
  hd = hd  hm = hm  hs = hs  hx = hx  hy = hy  t1 = t1  t2 = t2
  NoThread = NoThread
  Threads <- MCThreads
  Headers <- MCHeadersY
  Dyld = hd
  Main = hm
  Self = hs
  Preloaded <- MCPreloaded
  Closable <- MCClosableY
  VmAddr <- DistinctVmAddr
  DladdrNamed <- PluginUnnamed
  ValidMagic <- MCHeadersY
  TaskInfoOK = TRUE
  LoaderLock = TRUE
  MaxLoads = 2
  MaxResets = 0
  OpenAfterInit = TRUE
  AllocMayFail = FALSE
  TestHooks = FALSE
  UnloadUnnamed <- NoHeaders
  Queries = {"named", "uuid"}
  NameTargets <- PluginTarget
  NameContains <- NoNamePairs
SPECIFICATION Spec
INVARIANT QueryReadsMappedImage
CHECK_DEADLOCK FALSE
