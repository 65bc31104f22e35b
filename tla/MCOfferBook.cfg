SPECIFICATION Spec
CONSTANTS
  Mails = {m1, m2}
  Contacts = {k1, k2}
  Manuals = {x1}
  Workers = {w1, w2}
  Texts <- MCTexts
  ManualOffers <- MCManualOffers
  Requirements <- MCRequirements
  MaxRequests = 3
  MaxDeleted = 1
  None = None
  Absent = Absent
SYMMETRY Symmetry
INVARIANTS
  TypeOK
  ResultMatchesOffer
  AnswersMeet
  CheapestExactHeads
  ScoresFollowMatches
PROPERTIES
  SummaryUpToDate
CHECK_DEADLOCK FALSE
