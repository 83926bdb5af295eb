SPECIFICATION FairSpec
CONSTANTS
  backfill = backfill
  sync = sync
  Callers = {backfill, sync}
  Backfills = {backfill}
  PerWindow = 2
  Window = 3
  Cushion = 1
  MaxWait <- Waits
  PollCeiling = 2
  TTL = 4
  Pace = 1
  MayFail = TRUE
  MaxAge = 1
  Horizon = 4
  MaxLosses = 1
INVARIANTS
  
  CushionHolds
PROPERTIES
  EveryDrawEnds
