CONSTANTS
  Files <- MCFiles
  Contents <- MCContents
  Length <- MCLength
  Before <- MCBefore
  Parts = {1}
  MaxRetry = 1
  NotRapid = {TRUE, FALSE}
  Events = {"modify", "touch", "crash"}
  MaxEvents = 3
SPECIFICATION FairSpec
INVARIANTS TypeOK UploadedIsLocal
PROPERTIES RunEnds
