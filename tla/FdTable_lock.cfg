SPECIFICATION Spec
CONSTANTS
  PoolSize = 6
  CharDevs = {"null", "uart"}
  FileSystems = {"fs"}
  Null = "null"
  NoDev = "none"
  StdIn = "uart"
  StdOut = "uart"
  StdErr = "fs"
PROPERTY Exclusive
