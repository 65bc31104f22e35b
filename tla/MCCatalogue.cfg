SPECIFICATION Spec
CONSTANTS
  ka = ka
  kb = kb
  oa = oa
  ob = ob
  Keys = {ka, kb}
  DealerBatches <- MCDealerBatches
  OfferKeys = {oa, ob}
  Prices = {1, 2}
  OfferBatches <- MCOfferBatches
  Links <- MCLinks
  Workers = {w1, w2}
  MaxDealers = 3
  MaxRows = 3
  Mixes = {{"dealers", "offers"}, {"config"}}
  None = None
  Absent = Absent
INVARIANTS
  TypeOK
  AskedIsRequired
PROPERTIES
  CountsAreTrue
  BatchWhole
