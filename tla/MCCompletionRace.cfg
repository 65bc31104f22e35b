SPECIFICATION Spec
CONSTANTS
  Dealers = {d1}
  Workers = {w1, w2}
  NoOwner = NoOwner
  Ops = {"claim", "complete", "sent", "failed"}
  DealerChanges = {"eligible", "unpublished"}
  PatchStatuses = {"paused"}
  ClaimLimit = 1
  Failures = FALSE
PROPERTIES
  CompletionBlocked
