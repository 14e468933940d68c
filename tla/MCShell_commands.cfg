CONSTANTS
  HomeDir <- MCHome
  ArgOne <- Paths
  ArgTwo <- Up
  Older <- Left
  EchoRoom = 6
  Faults = TRUE
  MaxObjects = 3
  MaxLines = 1
SPECIFICATION ShellSpec
INVARIANT DirectoryIsCwd
PROPERTY ParameterAsTyped
