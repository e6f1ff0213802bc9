SPECIFICATION CallSpec
CONSTANTS
  PoolSize = 5
  CharDevs = {"null", "uart"}
  FileSystems = {"fs", "disk"}
  Null = "null"
  NoDev = "none"
  StdIn = "uart"
  StdOut = "uart"
  StdErr = "fs"
  Letters = {"a", "b", "d", "f"}
  DevPath <- MCDevPath
  MountPath <- MCMountPath
  Slashed = {"fs"}
  Paths <- MCPaths
  StdPath <- MCStdPath
INVARIANTS
  OneIntruder
  PoolIsHeld
  LockIsGranted
  NamesReachOwner
  StreamsWork
