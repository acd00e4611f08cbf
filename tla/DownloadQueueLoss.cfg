CONSTANTS
  Roots <- MCRoots
  Dirs <- MCDirs
  Files <- MCFiles
  Children <- MCChildren
  Unsummed <- MCUnsummed
  Options <- MCOptions
  Before <- MCBefore
  Unreadable <- MCUnreadable
  Banned = {}
  MaxLoad = 2
  MaxRetry = 1
SPECIFICATION Spec
PROPERTIES RemovedToDownloadAgain
