SPECIFICATION Spec
CONSTANTS
  d1 = d1
  d2 = d2
  Dealers = {d1, d2}
  Messages = {m1, m2}
  Workers = {w1, w2}
  Selected = {d1}
  Mail <- MCMail
  None = None
  Absent = Absent
SYMMETRY Symmetry
INVARIANTS
  TypeOK
  AttributionCoherent
  NoStrangerAttributed
  NothingForgotten
PROPERTIES
  AttributionStands
  ThreadDecides
