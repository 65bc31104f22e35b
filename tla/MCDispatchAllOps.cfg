SPECIFICATION Spec
CONSTANTS
  Dealers = {d1}
  Workers = {w1, w2}
  NoOwner = NoOwner
  Ops = {"claim", "complete", "dispatch_status", "sent", "unknown", "reply", "extract", "patch"}
  DealerChanges = {"eligible", "no_email"}
  PatchStatuses = {"paused"}
  ClaimLimit = 1
  Failures = TRUE
SYMMETRY Symmetry
INVARIANTS
  TypeOK
  ReservedAccounted
  RecordedIsSettled
