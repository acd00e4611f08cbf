CONSTANTS
  P = 2
  Parallel = 2
  Events = {"net", "denied", "create", "expire", "cancel", "crash", "again"}
  MaxEvents = 2
SPECIFICATION FairSpec
INVARIANTS TypeOK NoPartLost OneUploadPerPart SuperFileComplete StoredIsAcked TerminationIsReported
PROPERTIES ImplementsUpload UploadEnds
