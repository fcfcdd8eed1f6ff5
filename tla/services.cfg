SPECIFICATION ServicesSpec
CONSTANTS
  Providers <- MCProviders
  Audited <- MCAudited
  Workflows <- MCWorkflows
  Replays <- MCReplays
  Resembles <- MCResembles
INVARIANTS AuditMatchesInventory OrderIsSound VerdictIsEarned
CHECK_DEADLOCK FALSE
