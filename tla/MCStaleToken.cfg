SPECIFICATION Spec
CONSTANTS
  Campaigns = {c1, c2}
  Messages = {m1}
  Workers = {w1, w2}
  None = None
  Absent = Absent
SYMMETRY Symmetry
INVARIANTS
  NoCampaignMeansNull
