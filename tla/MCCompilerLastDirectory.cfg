CONSTANTS
  PreviousByte = {TRUE, FALSE}
  Text <- MCText
  Name <- MCName
  PathLists <- MCPathLists
  SuffixList <- MCSuffixList
  Environments <- MCEnvironments
  FileSystems <- MCFileSystems
  MaxIncludes = 3
  MaxMessages = 1
SPECIFICATION Spec
INVARIANT EveryDirectorySearched
CHECK_DEADLOCK FALSE
