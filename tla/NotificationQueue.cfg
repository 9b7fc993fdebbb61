SPECIFICATION FairSpec
CONSTANTS
  MAX_RETRIES = 1
  MaxFault = 3
  Job = {j1, j2}
  Concurrency = 1
  MaxStalled = 1
INVARIANTS TypeOK CountdownFollowsLink MailedOncePerRun
PROPERTIES ServiceComesBack ShutdownEnds JobsEnd
ACTION_CONSTRAINT FaultsOrJobs
CHECK_DEADLOCK FALSE
