CONSTANTS
  Roots <- MCRoots
  Dirs <- MCDirs
  Files <- MCFiles
  Children <- MCChildren
  Unsummed <- MCUnsummed
  Options <- MCOptions
  Before <- MCBefore
  Banned <- MCBanned
  Unreadable <- MCUnreadable
  MaxLoad = 2
  MaxRetry = 1
SPECIFICATION FairSpec
INVARIANTS TypeOK OneDownloadPerTask TruthTold
PROPERTIES QueueEnds
