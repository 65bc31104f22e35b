SPECIFICATION Spec
CONSTANTS
  Dealers = {d1, d2}
  Workers = {w1, w2}
  NoOwner = NoOwner
  Ops = {"claim", "sent", "reply"}
  DealerChanges = {"eligible", "no_email"}
  PatchStatuses = {"paused"}
  ClaimLimit = 1
  Failures = TRUE
SYMMETRY Symmetry
INVARIANTS
  PickedRowsHeld
  OneMailPerDealer
PROPERTIES
  ImplementsOutreach
