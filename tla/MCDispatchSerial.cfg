SPECIFICATION FairSpec
CONSTANTS
  Dealers = {d1, d2}
  Workers = {w1}
  NoOwner = NoOwner
  Ops = {"claim", "complete", "dispatch_status", "sent", "failed"}
  DealerChanges = {"eligible", "unpublished", "no_email"}
  PatchStatuses = {"paused"}
  ClaimLimit = 1
  Failures = FALSE
PROPERTIES
  CompletionBlocked
  CompletionIdempotent
  PendingDrains
  ReservedSettles
