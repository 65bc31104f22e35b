--------------------------- MODULE OfferBookProofs ---------------------------
(***************************************************************************)
(* Proofs about OfferBook and OfferRanking: the scores and the head of a   *)
(* ranking, what the keys of the requirements allow, type correctness of   *)
(* the requests, the price comparisons they answer and the cheapest prices *)
(* they store.  They hold for every list of requirements, every set of     *)
(* texts, mails, dealers and workers.                                      *)
(***************************************************************************)
EXTENDS OfferBook, NumberLemmas, FiniteSetTheorems, TLAPS

MatchStatuses == {"exact", "alternative", "missing", "incompatible"}

-----------------------------------------------------------------------------
(* Arithmetic of the score. *)

LEMMA QuotientTyped ==
  ASSUME NEW x \in Nat, NEW n \in Nat \ {0}
  PROVE  x \div n \in Nat
  OBVIOUS

LEMMA QuotientMonotone ==
  ASSUME NEW x \in Nat, NEW y \in Nat, NEW n \in Nat \ {0}, x <= y
  PROVE  x \div n <= y \div n
  OBVIOUS

(* The numbers of exact and alternative matches. *)
Exact(matches) == Cardinality(With(matches, {"exact"}))
Alternative(matches) == Cardinality(With(matches, {"alternative"}))

LEMMA CountsTyped ==
  ASSUME NEW D, IsFiniteSet(D), NEW a \in [D -> MatchStatuses]
  PROVE  /\ Exact(a) \in Nat /\ Alternative(a) \in Nat
         /\ Cardinality(D) \in Nat
         /\ D # {} => Cardinality(D) # 0
  <1>1. /\ With(a, {"exact"}) \in SUBSET D
        /\ With(a, {"alternative"}) \in SUBSET D
    BY DEF With
  <1>2. /\ IsFiniteSet(With(a, {"exact"}))
        /\ IsFiniteSet(With(a, {"alternative"}))
    BY <1>1, FS_Subset
  <1>3. Exact(a) \in Nat /\ Alternative(a) \in Nat /\ Cardinality(D) \in Nat
    BY <1>2, FS_CardinalityType DEF Exact, Alternative
  <1>4. D # {} => Cardinality(D) # 0
    BY FS_EmptySet
  <1>5. QED
    BY <1>3, <1>4

(* The category of a list of matches, in terms of the matches. *)
LEMMA CategoryIs ==
  ASSUME NEW D, NEW a \in [D -> MatchStatuses]
  PROVE  /\ Category(a) \in Categories
         /\ Category(a) = "exact" <=> \A i \in D : a[i] = "exact"
         /\ Category(a) = "alternative" =>
              /\ D # {}
              /\ \A i \in D : a[i] \in {"exact", "alternative"}
         /\ Category(a) = "incompatible" =>
              /\ D # {}
              /\ \E i \in D : a[i] \in {"missing", "incompatible"}
  BY DEF Category, With, Categories, MatchStatuses

(* The score by category, for a list that is not empty. *)
LEMMA ScoreIs ==
  ASSUME NEW D, IsFiniteSet(D), NEW a \in [D -> MatchStatuses]
  PROVE  /\ Category(a) = "exact" => Score(a) = 100
         /\ Category(a) = "alternative" =>
              Score(a) = AtMost(AtLeast((100 * Exact(a) + 20 * Alternative(a))
                                          \div Cardinality(D), 60), 99)
         /\ Category(a) = "incompatible" =>
              Score(a) = AtMost(AtLeast((59 * Exact(a)) \div Cardinality(D), 0), 59)
  <1>1. DOMAIN a = D
    OBVIOUS
  <1>2. QED
    BY <1>1 DEF Score, Exact, Alternative

(* Each category has its band of scores. *)
LEMMA ScoreBands ==
  ASSUME NEW D, IsFiniteSet(D), NEW a \in [D -> MatchStatuses]
  PROVE  /\ Category(a) = "exact" => Score(a) = 100
         /\ Category(a) = "alternative" => Score(a) \in 60 .. 99
         /\ Category(a) = "incompatible" => Score(a) \in 0 .. 59
  <1> DEFINE n == Cardinality(D)
             p == (100 * Exact(a) + 20 * Alternative(a)) \div n
             q == (59 * Exact(a)) \div n
  <1>1. /\ Category(a) \in {"alternative", "incompatible"} => n \in Nat \ {0}
        /\ Exact(a) \in Nat /\ Alternative(a) \in Nat
    BY CategoryIs, CountsTyped
  <1>2. n \in Nat \ {0} => p \in Nat /\ q \in Nat
    <2>1. 100 * Exact(a) + 20 * Alternative(a) \in Nat /\ 59 * Exact(a) \in Nat
      BY <1>1
    <2>2. QED
      BY <2>1, QuotientTyped
  <1>3. p \in Nat => AtMost(AtLeast(p, 60), 99) \in 60 .. 99
    BY DEF AtMost, AtLeast
  <1>4. q \in Nat => AtMost(AtLeast(q, 0), 59) \in 0 .. 59
    BY DEF AtMost, AtLeast
  <1>5. QED
    BY <1>1, <1>2, <1>3, <1>4, ScoreIs

(* Better matches make the two counts of the score grow together. *)
LEMMA CountsMonotone ==
  ASSUME NEW D, IsFiniteSet(D),
         NEW a \in [D -> MatchStatuses], NEW b \in [D -> MatchStatuses],
         \A i \in D : Quality(b[i]) <= Quality(a[i])
  PROVE  /\ Exact(b) <= Exact(a)
         /\ Exact(b) + Alternative(b) <= Exact(a) + Alternative(a)
  <1> DEFINE Ex(x) == With(x, {"exact"})
             Al(x) == With(x, {"alternative"})
  <1>1. \A i \in D : /\ b[i] = "exact" => a[i] = "exact"
                     /\ b[i] = "alternative" => a[i] \in {"exact", "alternative"}
    BY DEF Quality, MatchStatuses
  <1>2. Ex(b) \subseteq Ex(a) /\ Ex(b) \cup Al(b) \subseteq Ex(a) \cup Al(a)
    BY <1>1 DEF With
  <1>3. \A x \in {a, b} : /\ Ex(x) \in SUBSET D /\ Al(x) \in SUBSET D
                          /\ Ex(x) \cap Al(x) = {}
    BY DEF With
  <1>4. \A x \in {a, b} : IsFiniteSet(Ex(x)) /\ IsFiniteSet(Al(x))
    BY <1>3, FS_Subset
  <1>5. \A x \in {a, b} : /\ IsFiniteSet(Ex(x) \cup Al(x))
                          /\ Cardinality(Ex(x) \cup Al(x)) = Exact(x) + Alternative(x)
    <2> TAKE x \in {a, b}
    <2>1. /\ IsFiniteSet(Ex(x) \cup Al(x))
          /\ Cardinality(Ex(x) \cup Al(x))
               = Cardinality(Ex(x)) + Cardinality(Al(x)) - Cardinality(Ex(x) \cap Al(x))
      BY <1>4, FS_Union
    <2>2. Cardinality(Ex(x) \cap Al(x)) = 0
      BY <1>3, FS_EmptySet
    <2>3. Exact(x) \in Nat /\ Alternative(x) \in Nat
      BY CountsTyped
    <2>4. QED
      BY <2>1, <2>2, <2>3 DEF Exact, Alternative
  <1>6. Exact(b) <= Exact(a)
    BY <1>2, <1>4, FS_Subset DEF Exact
  <1>7. Cardinality(Ex(b) \cup Al(b)) <= Cardinality(Ex(a) \cup Al(a))
    BY <1>2, <1>5, FS_Subset
  <1>8. QED
    BY <1>5, <1>6, <1>7

(* Within a category the score grows with the counts. *)
LEMMA ScoreMonotoneWithin ==
  ASSUME NEW D, IsFiniteSet(D),
         NEW a \in [D -> MatchStatuses], NEW b \in [D -> MatchStatuses],
         Category(a) = Category(b),
         Exact(b) <= Exact(a),
         Exact(b) + Alternative(b) <= Exact(a) + Alternative(a)
  PROVE  Score(b) <= Score(a)
  <1> DEFINE n == Cardinality(D)
             P(x) == 100 * Exact(x) + 20 * Alternative(x)
             Q(x) == 59 * Exact(x)
  <1>1. /\ Exact(a) \in Nat /\ Alternative(a) \in Nat
        /\ Exact(b) \in Nat /\ Alternative(b) \in Nat
        /\ Category(a) # "exact" => n \in Nat \ {0}
    BY CountsTyped, CategoryIs DEF Categories
  <1>2. /\ P(a) \in Nat /\ P(b) \in Nat /\ P(b) <= P(a)
        /\ Q(a) \in Nat /\ Q(b) \in Nat /\ Q(b) <= Q(a)
    BY <1>1
  <1>3. \A x \in {a, b} :
          /\ Category(x) = "exact" => Score(x) = 100
          /\ Category(x) = "alternative" => Score(x) = AtMost(AtLeast(P(x) \div n, 60), 99)
          /\ Category(x) = "incompatible" => Score(x) = AtMost(AtLeast(Q(x) \div n, 0), 59)
    <2> TAKE x \in {a, b}
    <2>1. x \in [D -> MatchStatuses]
      OBVIOUS
    <2>2. QED
      BY <2>1, ScoreIs
  <1>4. CASE Category(a) = "exact"
    <2>1. Score(a) = 100 /\ Score(b) = 100
      BY <1>3, <1>4
    <2>2. QED
      BY <2>1
  <1>5. CASE Category(a) = "alternative"
    <2>1. /\ P(a) \div n \in Nat /\ P(b) \div n \in Nat
          /\ P(b) \div n <= P(a) \div n
      BY <1>1, <1>2, <1>5, QuotientTyped, QuotientMonotone
    <2>2. AtMost(AtLeast(P(b) \div n, 60), 99) <= AtMost(AtLeast(P(a) \div n, 60), 99)
      BY <2>1 DEF AtMost, AtLeast
    <2>3. QED
      BY <1>5, <1>3, <2>2
  <1>6. CASE Category(a) = "incompatible"
    <2>1. /\ Q(a) \div n \in Nat /\ Q(b) \div n \in Nat
          /\ Q(b) \div n <= Q(a) \div n
      BY <1>1, <1>2, <1>6, QuotientTyped, QuotientMonotone
    <2>2. AtMost(AtLeast(Q(b) \div n, 0), 59) <= AtMost(AtLeast(Q(a) \div n, 0), 59)
      BY <2>1 DEF AtMost, AtLeast
    <2>3. QED
      BY <1>6, <1>3, <2>2
  <1>7. QED
    BY <1>4, <1>5, <1>6, CategoryIs DEF Categories

(* An offer that meets every requirement at least as well never scores     *)
(* lower, in whatever categories the two are.                              *)
LEMMA ScoreMonotone ==
  ASSUME NEW D, IsFiniteSet(D),
         NEW a \in [D -> MatchStatuses], NEW b \in [D -> MatchStatuses],
         \A i \in D : Quality(b[i]) <= Quality(a[i])
  PROVE  Score(b) <= Score(a)
  <1>1. \A i \in D : /\ b[i] = "exact" => a[i] = "exact"
                     /\ b[i] \in {"exact", "alternative"}
                          => a[i] \in {"exact", "alternative"}
    BY DEF Quality, MatchStatuses
  <1>2. Category(b) = "exact" => Category(a) = "exact"
    BY <1>1, CategoryIs
  <1>3. Category(b) = "alternative" => Category(a) \in {"exact", "alternative"}
    BY <1>1, CategoryIs DEF Categories
  <1>4. CASE Category(a) = Category(b)
    BY <1>4, CountsMonotone, ScoreMonotoneWithin
  <1>5. CASE Category(a) # Category(b)
    <2>1. \/ Category(a) = "exact" /\ Category(b) \in {"alternative", "incompatible"}
          \/ Category(a) = "alternative" /\ Category(b) = "incompatible"
      BY <1>2, <1>3, <1>5, CategoryIs DEF Categories
    <2>2. QED
      BY <2>1, ScoreBands
  <1>6. QED
    BY <1>4, <1>5

-----------------------------------------------------------------------------
(* The scores of the offers there are. *)

LEMMA MatchesTyped ==
  ASSUME NEW features
  PROVE  Matches(Requirements, features) \in [DOMAIN Requirements -> MatchStatuses]
  BY DEF Matches, MatchStatus, MatchStatuses

LEMMA RequirementsFinite == IsFiniteSet(DOMAIN Requirements)
  <1>1. DOMAIN Requirements = 1 .. Len(Requirements) /\ Len(Requirements) \in Nat
    BY RequirementsAssumption
  <1>2. QED
    BY <1>1, FS_Interval

LEMMA ScoresAlwaysFollow == ScoresFollowMatches
  <1> DEFINE matches == {Matches(Requirements, offer[i].features) : i \in stored}
             score == [a \in matches |-> Score(a)]
  <1>1. \A a \in matches : a \in [DOMAIN Requirements -> MatchStatuses]
    BY MatchesTyped
  <1>2. ASSUME NEW a \in matches, NEW b \in matches, score[a] < score[b]
        PROVE  \E i \in DOMAIN Requirements : Quality(a[i]) < Quality(b[i])
    <2>1. \A i \in DOMAIN Requirements : Quality(a[i]) \in 0 .. 2 /\ Quality(b[i]) \in 0 .. 2
      BY DEF Quality
    <2>2. SUFFICES ASSUME \A i \in DOMAIN Requirements : Quality(b[i]) <= Quality(a[i])
                   PROVE  FALSE
      BY <2>1
    <2>3. Score(b) <= Score(a)
      BY <1>1, <2>2, RequirementsFinite, ScoreMonotone
    <2>4. Score(a) \in 0 .. 100 /\ Score(b) \in 0 .. 100
      BY <1>1, RequirementsFinite, ScoreBands, CategoryIs DEF Categories
    <2>5. QED
      BY <1>2, <2>3, <2>4
  <1>3. ASSUME NEW a \in matches
        PROVE  CASE score[a] = 100 -> Category(a) = "exact"
                 [] score[a] \in 60 .. 99 -> Category(a) = "alternative"
                 [] OTHER -> Category(a) = "incompatible"
    BY <1>1, RequirementsFinite, ScoreBands, CategoryIs DEF Categories
  <1>4. QED
    BY <1>2, <1>3 DEF ScoresFollowMatches

(* Scores follow the matches, in every state and for every list of         *)
(* requirements: meeting more never costs points, and the categories do    *)
(* not overlap in the score.                                               *)
THEOREM ScoresCorrect == Spec => []ScoresFollowMatches
  BY ScoresAlwaysFollow, PTL

-----------------------------------------------------------------------------
(* What the keys of the requirements allow. *)

(* A requirement whose stored key is no requirement's feature key is not   *)
(* among the features of a mail, whatever its text says: it stays missing  *)
(* or, if optional, an alternative, and the offer is never exact.  So it   *)
(* is with imported configurations, whose requirements are stored under    *)
(* the display label and looked up in mails under the feature key.         *)
THEOREM UnmatchableNeverExact ==
  ASSUME NEW reqs, NEW t, NEW i \in DOMAIN reqs,
         \A j \in DOMAIN reqs : reqs[i].key # reqs[j].feature
  PROVE  Category(Matches(reqs, EmailFeatures(reqs, t))) # "exact"
  <1> DEFINE features == EmailFeatures(reqs, t)
  <1>1. reqs[i].key \notin DOMAIN features
    BY DEF EmailFeatures
  <1>2. Matches(reqs, features)[i] \in {"missing", "alternative"}
    BY <1>1 DEF Matches, MatchStatus
  <1>3. i \in DOMAIN Matches(reqs, features)
    BY DEF Matches
  <1>4. QED
    BY <1>2, <1>3 DEF Category, With

-----------------------------------------------------------------------------
(* Types of what an analysis and a comparison return. *)

LEMMA PricesAreNumbers == Prices0 \subseteq Nat \cup {None}
  <1>1. \A t : Analysis(t, TRUE).price \in Nat \cup {None}
    BY DEF Analysis, GrossPrice, OrElse
  <1>2. QED
    BY <1>1, OfferAssumption DEF Prices0

LEMMA AnalysisTyped ==
  ASSUME NEW t \in Texts, NEW b \in BOOLEAN
  PROVE  /\ Analysis(t, b) \in Analyses
         /\ Analysis(t, b).result \in Results
         /\ Analysis(t, b).price \in Prices0
         /\ Analysis(t, b).result = "OFFER_EXTRACTED" => b
  <1>1. Analysis(t, b).result \in Results
    BY DEF Analysis, ProcessingResult, Results
  <1>2. Analysis(t, b) \in Analyses
    BY DEF Analyses
  <1>3. Analysis(t, TRUE).price \in Prices0
    BY DEF Prices0
  <1>4. /\ Analysis(t, FALSE).price \in Prices0
        /\ Analysis(t, FALSE).result = "NEEDS_REVIEW"
    BY DEF Analysis, ProcessingResult, Prices0
  <1>5. CASE b = TRUE
    BY <1>1, <1>2, <1>3, <1>5
  <1>6. CASE b = FALSE
    BY <1>1, <1>2, <1>4, <1>6
  <1>7. QED
    BY <1>5, <1>6

LEMMA TotalPriceTyped ==
  ASSUME NEW p \in Prices0
  PROVE  TotalPrice(p) \in Prices0
  BY DEF TotalPrice, OrElse, Prices0

(* The cheapest prices are prices of offers. *)
LEMMA SummaryTyped ==
  ASSUME NEW offers, \A o \in offers : o.price \in Prices0
  PROVE  Summary(Requirements, offers) \in Summaries
  <1> DEFINE comparisons == {Compare(Requirements, o) : o \in offers}
  <1>1. \A c \in comparisons : c.price \in Prices0
    BY DEF Compare
  <1>2. ASSUME NEW k \in SummaryColumns
        PROVE  CheapestPrice(comparisons, k) \in Prices0
    <2>1. /\ Prices(comparisons, k) \subseteq Prices0
          /\ None \notin Prices(comparisons, k)
      BY <1>1 DEF Prices
    <2>2. Prices(comparisons, k) \in SUBSET Nat
      BY <2>1, PricesAreNumbers
    <2>3. None \in Prices0
      BY DEF Prices0
    <2>4. QED
      BY <2>1, <2>2, <2>3, LeastNatural DEF CheapestPrice
  <1>3. QED
    BY <1>2 DEF Summary, Summaries

-----------------------------------------------------------------------------
(* Type correctness. *)

(* The rows are a function of the ids: what they are is left to TablesOK. *)
RowsInv == TablesOK /\ offer \in [Ids -> {offer[i] : i \in Ids}]
BookInv == RowsInv /\ ViewsOK

RequestsOK == req \in [Workers -> Request] /\ \A w \in Workers : WellFormed(req[w])

LEMMA InitBookInv == Init => BookInv
  <1> SUFFICES ASSUME Init PROVE BookInv
    OBVIOUS
  <1>1. None \in Prices0
    BY DEF Prices0
  <1>2. Idle \in Request /\ WellFormed(Idle)
    BY <1>1 DEF Idle, Request, WellFormed, MailRow, NewMail, ContactStatuses
  <1>3. stored = {}
    BY DEF Init, stored
  <1>4. RequestsOK
    BY <1>2 DEF Init, RequestsOK
  <1>5. /\ sender \in [Mails -> Contacts]
        /\ contact \in [Contacts -> ContactStatuses]
        /\ mail \in [Mails -> MailRow]
        /\ summary \in Summaries
    <2>1. NewMail \in MailRow /\ "REPLIED" \in ContactStatuses
      BY DEF MailRow, NewMail, ContactStatuses
    <2>2. QED
      BY <1>1, <2>1 DEF Init, Summaries
  <1>6. /\ answered \in [Mails -> (SUBSET Mails) \cup {None}]
        /\ overlapped \subseteq Mails /\ overtaken \subseteq Workers
        /\ served \in 0 .. MaxRequests
    BY OfferAssumption DEF Init
  <1>7. offer \in [Ids -> {offer[i] : i \in Ids}]
    BY DEF Init
  <1>8. ViewsOK
    BY DEF Init, ViewsOK
  <1>9. QED
    BY <1>3, <1>4, <1>5, <1>6, <1>7, <1>8 DEF BookInv, RowsInv, TablesOK, RequestsOK

(* One request is set, no offer appears or goes. *)
LEMMA ReplaceRequest ==
  ASSUME BookInv, NEW w \in Workers, stored' = stored,
         \E r \in Request : WellFormed(r) /\ req' = [req EXCEPT ![w] = r]
  PROVE  RequestsOK'
  <1>1. PICK r \in Request : WellFormed(r) /\ req' = [req EXCEPT ![w] = r]
    OBVIOUS
  <1>2. req' \in [Workers -> Request]
    BY <1>1 DEF BookInv, RowsInv, TablesOK
  <1>3. ASSUME NEW v \in Workers PROVE WellFormed(req[v])'
    <2>1. req'[v] = r \/ req'[v] = req[v]
      BY <1>1 DEF BookInv, RowsInv, TablesOK
    <2>2. WellFormed(r) /\ WellFormed(req[v])
      BY <1>1 DEF BookInv, RowsInv, TablesOK
    <2>3. QED
      BY <2>1, <2>2 DEF WellFormed
  <1>4. QED
    BY <1>2, <1>3 DEF RequestsOK

LEMMA IdleTyped == Idle \in Request /\ WellFormed(Idle)
  <1>1. None \in Prices0
    BY DEF Prices0
  <1>2. QED
    BY <1>1 DEF Idle, Request, WellFormed, MailRow, NewMail, ContactStatuses

(* An answer that is being put together. *)
LEMMA AnsweringTyped ==
  ASSUME NEW op \in {"extract", "answer"}, NEW m \in Mails, NEW price \in Prices0
  PROVE  /\ Answering(op, m, price) \in Request
         /\ m \in stored => WellFormed(Answering(op, m, price))
  BY DEF Answering, Idle, Request, WellFormed, MailRow, NewMail, ContactStatuses

(* What the request of a worker holds. *)
LEMMA RequestTyped ==
  ASSUME BookInv, NEW w \in Workers
  PROVE  /\ req[w] \in Request /\ WellFormed(req[w])
         /\ req[w].op = "extract" /\ req[w].step # "respond" =>
              /\ req[w].mail \in Mails /\ req[w].text \in Texts
              /\ Outcome(req[w]) \in Analyses
              /\ Outcome(req[w]).result \in Results
              /\ NewOffer(req[w]).price \in Prices0
  <1>1. req[w] \in Request /\ WellFormed(req[w])
    BY DEF BookInv, RowsInv, TablesOK
  <1>2. QED
    BY <1>1, AnalysisTyped, TotalPriceTyped DEF Request, WellFormed, Outcome, NewOffer

(* The rows a comparison finds have prices. *)
LEMMA VisibleTyped ==
  ASSUME BookInv, NEW w \in Workers,
         req[w].step \in {"load", "list"} \/ req[w].hold = "none"
  PROVE  \A i \in DOMAIN Visible(w) : Visible(w)[i].price \in Prices0
  <1> DEFINE own == IF \/ req[w].hold = "new"
                       \/ req[w].hold \in {"row", "changed"} /\ req[w].mail \in stored
                    THEN {req[w].mail} ELSE {}
  <1>1. own # {} => NewOffer(req[w]).price \in Prices0
    <2>1. SUFFICES ASSUME own # {} PROVE NewOffer(req[w]).price \in Prices0
      OBVIOUS
    <2>2. req[w].step \in {"load", "list"} /\ req[w].hold # "none"
      BY <2>1
    <2>3. req[w].op = "extract"
      BY <2>2, RequestTyped DEF WellFormed
    <2>4. QED
      BY <2>2, <2>3, RequestTyped
  <1>2. \A i \in stored : offer[i].price \in Prices0
    BY DEF BookInv, RowsInv, TablesOK
  <1>3. QED
    BY <1>1, <1>2 DEF Visible

(* A request that has loaded mail m to extract the offer in text t. *)
Loaded(m, t) ==
  [Idle EXCEPT !.op = "extract", !.step = "read", !.mail = m, !.text = t,
               !.matched = contact[sender[m]] # Absent, !.loaded = mail[m],
               !.contact = contact[sender[m]],
               !.hold = IF m \in stored THEN "row" ELSE "none",
               !.price = IF m \in stored THEN offer[m].price ELSE None]

(* A request that has read the offer of its mail. *)
OfferRead(r) ==
  LET hold == IF r.mail \in stored THEN "row" ELSE "none" IN
  [r EXCEPT !.hold = hold,
            !.step = IF Outcome(r).result # "OFFER_EXTRACTED" THEN "finish"
                     ELSE IF hold = "none" THEN "flush" ELSE "load",
            !.price = IF r.hold \in {"row", "changed"} THEN @
                      ELSE IF hold = "row" THEN offer[r.mail].price ELSE None]

LEMMA ReadOfferIs ==
  ASSUME NEW w \in Workers, ReadOffer(w), req \in [Workers -> Request]
  PROVE  req' = [req EXCEPT ![w] = OfferRead(req[w])]
  <1>1. req[w] \in Request
    OBVIOUS
  <1>2. QED
    BY <1>1 DEF ReadOffer, OfferRead, Request

LEMMA BeginRequest ==
  ASSUME BookInv, NEW w \in Workers,
         \/ \E m \in Mails, t \in Texts : BeginExtract(w, m, t)
         \/ \E m \in Mails : BeginAnswer(w, m)
         \/ BeginCompare(w)
  PROVE  \E r \in Request : WellFormed(r) /\ req' = [req EXCEPT ![w] = r]
  <1>1. CASE \E m \in Mails, t \in Texts : BeginExtract(w, m, t)
    <2>1. PICK m \in Mails, t \in Texts : BeginExtract(w, m, t)
      BY <1>1
    <2> DEFINE r == Loaded(m, t)
    <2>2. /\ mail[m] \in MailRow /\ contact[sender[m]] \in ContactStatuses
          /\ m \in stored => offer[m].price \in Prices0
          /\ None \in Prices0
      BY DEF BookInv, RowsInv, TablesOK, Prices0
    <2> DEFINE hold == IF m \in stored THEN "row" ELSE "none"
               price == IF m \in stored THEN offer[m].price ELSE None
    <2>a. hold \in {"none", "row"} /\ price \in Prices0
      BY <2>2
    <2>b. r = [Idle EXCEPT !.op = "extract", !.step = "read", !.mail = m, !.text = t,
                 !.matched = contact[sender[m]] # Absent, !.loaded = mail[m],
                 !.contact = contact[sender[m]], !.hold = hold, !.price = price]
      BY DEF Loaded
    <2> DEFINE matched == contact[sender[m]] # Absent
               begun == [Idle EXCEPT !.op = "extract", !.step = "read", !.mail = m,
                                     !.text = t, !.matched = matched]
    <2>c. begun \in Request
      <3>1. matched \in BOOLEAN
        OBVIOUS
      <3> HIDE DEF matched
      <3>2. QED
        BY <3>1, IdleTyped DEF Request
    <2>d. r = [begun EXCEPT !.loaded = mail[m], !.contact = contact[sender[m]],
                            !.hold = hold, !.price = price]
      BY <2>b
    <2> HIDE DEF r, hold, price, begun
    <2>3. r \in Request
      BY <2>2, <2>a, <2>c, <2>d DEF Request
    <2>4. /\ r.op = "extract" /\ r.step = "read" /\ r.mail = m /\ r.text = t
          /\ r.hold = IF m \in stored THEN "row" ELSE "none"
      BY IdleTyped DEF Request, Loaded, r
    <2>5. WellFormed(r)
      BY <2>4 DEF WellFormed
    <2>6. QED
      BY <2>1, <2>3, <2>5 DEF BeginExtract, Loaded, r
  <1>2. CASE \E m \in Mails : BeginAnswer(w, m)
    <2>1. PICK m \in Mails : BeginAnswer(w, m)
      BY <1>2
    <2>2. m \in stored /\ offer[m].price \in Prices0
      BY <2>1 DEF BeginAnswer, BookInv, RowsInv, TablesOK
    <2>3. QED
      BY <2>1, <2>2, AnsweringTyped DEF BeginAnswer
  <1>3. CASE BeginCompare(w)
    <2> DEFINE r == [Idle EXCEPT !.op = "compare", !.step = "list", !.summary = summary]
    <2>1. summary \in Summaries
      BY DEF BookInv, RowsInv, TablesOK
    <2>2. r \in Request /\ WellFormed(r)
      BY <2>1, IdleTyped DEF Idle, Request, WellFormed
    <2>3. QED
      BY <1>3, <2>2 DEF BeginCompare
  <1>4. QED
    BY <1>1, <1>2, <1>3

(* The steps of a request that neither begin nor publish an offer. *)
InnerStep(w) == ReadOffer(w) \/ FlushOffer(w) \/ LoadCampaign(w) \/ ListOffers(w)

LEMMA InnerRequest ==
  ASSUME BookInv, NEW w \in Workers, InnerStep(w)
  PROVE  \E r \in Request : WellFormed(r) /\ req' = [req EXCEPT ![w] = r]
  <1>1. /\ req[w] \in Request /\ WellFormed(req[w])
        /\ req \in [Workers -> Request]
    BY RequestTyped DEF BookInv, RowsInv, TablesOK
  <1>2. CASE ReadOffer(w)
    <2> DEFINE m == req[w].mail
               r == OfferRead(req[w])
    <2>1. req[w].step = "read" /\ req[w].op = "extract" /\ m \in Mails
          /\ req[w].text \in Texts
      BY <1>1, <1>2 DEF ReadOffer, WellFormed
    <2>2. /\ m \in stored => offer[m].price \in Prices0
          /\ None \in Prices0
      BY <2>1 DEF BookInv, RowsInv, TablesOK, Prices0
    <2> DEFINE hold == IF m \in stored THEN "row" ELSE "none"
               step == IF Outcome(req[w]).result # "OFFER_EXTRACTED" THEN "finish"
                       ELSE IF hold = "none" THEN "flush" ELSE "load"
               price == IF req[w].hold \in {"row", "changed"} THEN req[w].price
                        ELSE IF hold = "row" THEN offer[m].price ELSE None
    <2>a. hold \in {"none", "row"} /\ step \in {"finish", "flush", "load"}
      OBVIOUS
    <2>b. price \in Prices0
      BY <1>1, <2>2 DEF Request
    <2>c. r = [req[w] EXCEPT !.hold = hold, !.step = step, !.price = price]
      BY DEF OfferRead
    <2>3. r \in Request
      <3> HIDE DEF r, hold, step, price
      <3>1. QED
        BY <1>1, <2>a, <2>b, <2>c DEF Request
    <2>4. WellFormed(r)
      BY <1>1, <2>1, <2>2 DEF Request, WellFormed, OfferRead
    <2>5. QED
      BY <1>1, <1>2, <2>3, <2>4, ReadOfferIs
  <1>3. CASE FlushOffer(w)
    <2> DEFINE r == [req[w] EXCEPT !.hold = "new", !.step = "load"]
    <2>1. r \in Request /\ req' = [req EXCEPT ![w] = r]
      BY <1>1, <1>3 DEF FlushOffer, Request
    <2>2. QED
      BY <1>1, <1>3, <2>1 DEF FlushOffer, Request, WellFormed
  <1>4. CASE LoadCampaign(w)
    <2> DEFINE r == [req[w] EXCEPT !.summary = summary, !.step = "list"]
    <2>1. summary \in Summaries
      BY DEF BookInv, RowsInv, TablesOK
    <2>2. r \in Request /\ req' = [req EXCEPT ![w] = r]
      BY <1>1, <1>4, <2>1 DEF LoadCampaign, Request
    <2>3. QED
      BY <1>1, <1>4, <2>1, <2>2 DEF LoadCampaign, Request, WellFormed
  <1>5. CASE ListOffers(w)
    <2> DEFINE listed == SummaryOf(Listed(w))
               r == [req[w] EXCEPT !.listed = listed, !.step = "commit"]
    <2>1. \A i \in DOMAIN Listed(w) : Listed(w)[i].price \in Prices0
      <3>1. \A i \in DOMAIN Visible(w) : Visible(w)[i].price \in Prices0
        BY <1>5, VisibleTyped DEF ListOffers
      <3>2. \A i \in DOMAIN view[w] : view[w][i].price \in Prices0
        BY DEF BookInv, ViewsOK
      <3>3. QED
        BY <3>1, <3>2 DEF Listed
    <2>2. listed \in Summaries
      BY <2>1, SummaryTyped DEF SummaryOf
    <2>3. r \in Request /\ WellFormed(r)
      BY <1>1, <1>5, <2>2 DEF ListOffers, Request, WellFormed
    <2>4. req' = [req EXCEPT ![w] = r]
      BY <1>1, <1>5 DEF ListOffers, Request
    <2>5. QED
      BY <2>3, <2>4
  <1>6. QED
    BY <1>2, <1>3, <1>4, <1>5 DEF InnerStep

(* A request that has committed; rows are the offers there are now. *)
Settled(r, rows) ==
  /\ r.step \in {"idle", "respond"}
  /\ r.step = "idle" <=> r.op = "none"
  /\ r.op \in {"extract", "answer"} => r.mail \in Mails
  /\ r.op \in {"none", "compare"} => r.mail = None /\ r.hold = "none"
  /\ r.hold \in {"row", "changed"} => r.mail \in rows

(* A commit that stores the offer o of the mail of w, or removes it: other *)
(* requests keep the handle they have on a row only if it is there.        *)
LEMMA RepublishTyped ==
  ASSUME BookInv, NEW w \in Workers, NEW o, NEW r \in Request, Republish(w, o, r),
         Settled(r, stored'),
         \A i \in stored : i \in stored' \/ (i = req[w].mail /\ o = NoOffer)
  PROVE  RequestsOK'
  <1>1. \A v \in Workers : req[v] \in Request /\ WellFormed(req[v])
    BY RequestTyped
  <1>2. \A v \in Workers :
          req'[v] = IF v = w THEN r
                    ELSE IF req[v].mail = req[w].mail /\ req[w].mail # None
                         THEN [req[v] EXCEPT !.hold = NewHold(@, o)] ELSE req[v]
    BY DEF Republish
  <1>3. ASSUME NEW v \in Workers, v # w,
               req[v].mail = req[w].mail, req[w].mail # None
        PROVE  req'[v] \in Request /\ WellFormed(req[v])'
    <2>1. req'[v] = [req[v] EXCEPT !.hold = NewHold(req[v].hold, o)]
      BY <1>2, <1>3
    <2>2. /\ NewHold(req[v].hold, o) \in {"none", "row", "changed", "gone", "new"}
          /\ NewHold(req[v].hold, o) \in {"row", "changed"}
               => req[v].hold \in {"row", "changed"} /\ o # NoOffer
          /\ NewHold(req[v].hold, o) = "none" <=> req[v].hold = "none"
      BY <1>1 DEF NewHold, Request
    <2>3. req'[v] \in Request
      BY <1>1, <2>1, <2>2 DEF Request
    <2>4. NewHold(req[v].hold, o) \in {"row", "changed"} => req[v].mail \in stored'
      BY <1>1, <2>2 DEF WellFormed
    <2>5. req[v].op \in {"extract", "answer"}
      BY <1>1, <1>3 DEF WellFormed, Request
    <2>6. QED
      BY <1>1, <2>1, <2>2, <2>3, <2>4, <2>5 DEF Request, WellFormed
  <1>4. ASSUME NEW v \in Workers, v # w,
               ~ (req[v].mail = req[w].mail /\ req[w].mail # None)
        PROVE  req'[v] \in Request /\ WellFormed(req[v])'
    <2>1. req'[v] = req[v]
      BY <1>2, <1>4
    <2>2. req[v].hold \in {"row", "changed"} => req[v].mail \in stored'
      <3>1. SUFFICES ASSUME req[v].hold \in {"row", "changed"} PROVE req[v].mail \in stored'
        OBVIOUS
      <3>2. req[v].mail \in stored /\ req[v].mail \in Mails
        BY <1>1, <3>1 DEF WellFormed, Request
      <3>3. QED
        BY <1>4, <3>2, OfferAssumption
    <2>3. QED
      BY <1>1, <2>1, <2>2 DEF WellFormed
  <1>5. req'[w] \in Request /\ WellFormed(req[w])'
    BY <1>2 DEF Settled, WellFormed
  <1>6. DOMAIN req' = Workers /\ req' = [v \in Workers |-> req'[v]]
    BY DEF Republish
  <1>7. QED
    BY <1>3, <1>4, <1>5, <1>6 DEF RequestsOK

(* The row an extraction commits. *)
LEMMA CommittedRow ==
  ASSUME BookInv, NEW w \in Workers,
         req[w].step = "commit", req[w].op = "extract", req[w].hold # "gone",
         NEW f, NEW o, o = [price |-> PriceAfter(req[w]), features |-> f],
         offer' = [offer EXCEPT ![req[w].mail] = o]
  PROVE  /\ req[w].mail \in Mails /\ o.price \in Prices0 /\ o # NoOffer
         /\ stored' = stored \cup {req[w].mail}
         /\ offer' \in [Ids -> {offer'[i] : i \in Ids}]
         /\ \A i \in stored' : offer'[i].price \in Prices0
  <1>1. /\ req[w] \in Request /\ WellFormed(req[w])
        /\ req[w].mail \in Mails /\ NewOffer(req[w]).price \in Prices0
    BY RequestTyped
  <1>2. req[w].hold # "new" => req[w].mail \in stored
    BY <1>1 DEF WellFormed, Request
  <1>3. \A i \in stored : offer[i].price \in Prices0
    BY DEF BookInv, RowsInv, TablesOK
  <1>4. o.price \in Prices0
    BY <1>1, <1>2, <1>3 DEF PriceAfter, Assign
  <1>5. o # NoOffer
    BY <1>4, PricesAreNumbers, OfferAssumption DEF NoOffer
  <1>6. /\ req[w].mail \in Ids
        /\ \A i \in Ids : offer'[i] = IF i = req[w].mail THEN o ELSE offer[i]
        /\ offer' \in [Ids -> {offer'[i] : i \in Ids}]
    BY <1>1 DEF Ids, BookInv, RowsInv
  <1>7. stored' = stored \cup {req[w].mail}
    BY <1>5, <1>6 DEF stored
  <1>8. QED
    BY <1>1, <1>3, <1>4, <1>5, <1>6, <1>7

(* The mail, contact and summary columns a commit writes. *)
LEMMA ResultTyped ==
  ASSUME BookInv, NEW w \in Workers, ApplyResult(req[w]),
         req[w].op = "extract", req[w].step # "respond"
  PROVE  mail' \in [Mails -> MailRow] /\ contact' \in [Contacts -> ContactStatuses]
  <1> DEFINE m == req[w].mail
             new == [result |-> Assign(req[w].loaded.result, Outcome(req[w]).result,
                                       mail[m].result),
                     analysis |-> Assign(req[w].loaded.analysis, Outcome(req[w]),
                                         mail[m].analysis)]
  <1>1. /\ m \in Mails /\ req[w].loaded \in MailRow
        /\ Outcome(req[w]) \in Analyses /\ Outcome(req[w]).result \in Results
    BY RequestTyped DEF Request
  <1>2. mail \in [Mails -> MailRow] /\ contact \in [Contacts -> ContactStatuses]
    BY DEF BookInv, RowsInv, TablesOK
  <1>3. new \in MailRow
    <2>1. mail[m].result \in Results \cup {"REGISTERED"}
          /\ mail[m].analysis \in Analyses \cup {None}
      BY <1>1, <1>2 DEF MailRow
    <2>2. QED
      BY <1>1, <2>1 DEF MailRow, Assign
  <1>4. mail' = [mail EXCEPT ![m] = new]
    BY <1>1, <1>2 DEF ApplyResult
  <1>5. Outcome(req[w]).result \in ContactStatuses
    BY <1>1 DEF ContactStatuses
  <1>6. QED
    BY <1>2, <1>3, <1>4, <1>5 DEF ApplyResult

LEMMA SummaryColumnsTyped ==
  ASSUME BookInv, NEW w \in Workers, req[w].step = "commit"
  PROVE  SummaryAfter(req[w]) \in Summaries
  <1>1. req[w].summary \in Summaries /\ req[w].listed \in Summaries /\ summary \in Summaries
    BY RequestTyped DEF WellFormed, BookInv, RowsInv, TablesOK
  <1>2. QED
    BY <1>1 DEF SummaryAfter, Assign, Summaries

(* A commit of an extraction with an offer. *)
LEMMA CommitTyped ==
  ASSUME BookInv, NEW w \in Workers, CommitExtraction(w)
  PROVE  RowsInv'
  <1> DEFINE m == req[w].mail
  <1>1. PICK f \in FeaturesAfter(req[w]) :
          LET o == [price |-> PriceAfter(req[w]), features |-> f] IN
            /\ offer' = [offer EXCEPT ![m] = o]
            /\ Republish(w, o, Answering("extract", m, o.price))
    BY DEF CommitExtraction
  <1> DEFINE o == [price |-> PriceAfter(req[w]), features |-> f]
  <1>2. req[w].step = "commit" /\ req[w].op = "extract" /\ req[w].hold # "gone"
    BY DEF CommitExtraction
  <1>3. /\ m \in Mails /\ o.price \in Prices0 /\ o # NoOffer
        /\ stored' = stored \cup {m}
        /\ offer' \in [Ids -> {offer'[i] : i \in Ids}]
        /\ \A i \in stored' : offer'[i].price \in Prices0
    BY <1>1, <1>2, CommittedRow
  <1> DEFINE r == Answering("extract", m, o.price)
  <1>4. r \in Request
    BY <1>3, AnsweringTyped
  <1>5. Settled(r, stored')
    BY <1>3 DEF Settled, Answering, Idle
  <1>6. RequestsOK'
    BY <1>1, <1>3, <1>4, <1>5, RepublishTyped
  <1>7. mail' \in [Mails -> MailRow] /\ contact' \in [Contacts -> ContactStatuses]
    BY <1>2, ResultTyped DEF CommitExtraction
  <1>8. summary' \in Summaries
    BY <1>2, SummaryColumnsTyped DEF CommitExtraction
  <1>9. overtaken' \subseteq Workers
    BY <1>1 DEF Republish, Pending, BookInv, RowsInv, TablesOK
  <1>10. answered' \in [Mails -> (SUBSET Mails) \cup {None}]
    BY DEF CommitExtraction, BookInv, RowsInv, TablesOK
  <1>11. UNCHANGED <<sender, overlapped, served>>
    BY DEF CommitExtraction
  <1>12. QED
    BY <1>3, <1>6, <1>7, <1>8, <1>9, <1>10, <1>11 DEF BookInv, RowsInv, TablesOK, RequestsOK

(* A commit of an extraction that found no offer. *)
LEMMA CommitWithoutTyped ==
  ASSUME BookInv, NEW w \in Workers, CommitWithoutOffer(w)
  PROVE  RowsInv'
  <1> DEFINE m == req[w].mail
  <1>1. /\ req[w] \in Request /\ WellFormed(req[w])
        /\ req[w].op = "extract" /\ req[w].step = "finish" /\ m \in Mails
    BY RequestTyped DEF CommitWithoutOffer, WellFormed
  <1>2. mail' \in [Mails -> MailRow] /\ contact' \in [Contacts -> ContactStatuses]
    BY <1>1, ResultTyped DEF CommitWithoutOffer
  <1>3. UNCHANGED <<sender, summary, overlapped, served>>
    BY DEF CommitWithoutOffer
  <1>4. CASE req[w].hold \in {"row", "changed"}
    <2>1. /\ offer' = [offer EXCEPT ![m] = NoOffer]
          /\ answered' = [answered EXCEPT ![m] = None]
          /\ Republish(w, NoOffer, Idle)
      BY <1>4 DEF CommitWithoutOffer
    <2>2. /\ \A i \in Ids : offer'[i] = IF i = m THEN NoOffer ELSE offer[i]
          /\ offer' \in [Ids -> {offer'[i] : i \in Ids}]
      BY <2>1 DEF BookInv, RowsInv
    <2>3. stored' = stored \ {m}
      BY <2>2 DEF stored
    <2>4. Idle \in Request /\ Settled(Idle, stored')
      BY IdleTyped DEF Settled, Idle
    <2>5. RequestsOK'
      BY <2>1, <2>3, <2>4, RepublishTyped
    <2>6. \A i \in stored' : offer'[i].price \in Prices0
      BY <2>2, <2>3 DEF BookInv, RowsInv, TablesOK, stored
    <2>7. /\ overtaken' \subseteq Workers
          /\ answered' \in [Mails -> (SUBSET Mails) \cup {None}]
      BY <2>1 DEF Republish, Pending, BookInv, RowsInv, TablesOK
    <2>8. QED
      BY <1>2, <1>3, <2>2, <2>5, <2>6, <2>7 DEF BookInv, RowsInv, TablesOK, RequestsOK
  <1>5. CASE req[w].hold \notin {"row", "changed"}
    <2>1. Finish(w) /\ UNCHANGED <<offer, answered, overtaken>>
      BY <1>5 DEF CommitWithoutOffer
    <2>2. RequestsOK'
      BY <2>1, IdleTyped, ReplaceRequest DEF Finish, stored
    <2>3. QED
      BY <1>2, <1>3, <2>1, <2>2 DEF BookInv, RowsInv, TablesOK, RequestsOK, stored
  <1>6. QED
    BY <1>4, <1>5

LEMMA CommitComparisonTyped ==
  ASSUME BookInv, NEW w \in Workers, CommitComparison(w)
  PROVE  RowsInv'
  <1> DEFINE r == [Idle EXCEPT !.op = "compare", !.step = "respond"]
  <1>1. req[w].step = "commit" /\ Republish(w, NoOffer, r)
        /\ summary' = SummaryAfter(req[w])
        /\ UNCHANGED <<sender, contact, mail, offer, answered, overlapped, served>>
    BY DEF CommitComparison
  <1>2. r \in Request /\ Settled(r, stored')
    BY IdleTyped DEF Idle, Request, Settled
  <1>3. RequestsOK'
    BY <1>1, <1>2, RepublishTyped DEF stored
  <1>4. summary' \in Summaries
    BY <1>1, SummaryColumnsTyped
  <1>5. overtaken' \subseteq Workers
    BY <1>1 DEF Republish, Pending, BookInv, RowsInv, TablesOK
  <1>6. QED
    BY <1>1, <1>3, <1>4, <1>5 DEF BookInv, RowsInv, TablesOK, RequestsOK, stored

(* An answer is given: the mails whose offers it counted are remembered. *)
LEMMA RespondTyped ==
  ASSUME BookInv, NEW w \in Workers, Respond(w)
  PROVE  RowsInv'
  <1>1. Finish(w) /\ UNCHANGED <<dbVars, overlapped, overtaken, served>>
    BY DEF Respond
  <1>2. RequestsOK'
    BY <1>1, IdleTyped, ReplaceRequest DEF Finish, stored, dbVars
  <1>3. answered' \in [Mails -> (SUBSET Mails) \cup {None}]
    <2>1. \/ answered' = answered
          \/ answered' = [answered EXCEPT ![req[w].mail] = Counted \cap Mails]
      BY DEF Respond
    <2>2. QED
      BY <2>1 DEF BookInv, RowsInv, TablesOK
  <1>4. QED
    BY <1>1, <1>2, <1>3 DEF BookInv, RowsInv, TablesOK, RequestsOK, stored, dbVars

(* Offers entered by hand, dealers deleted. *)
LEMMA ManualTyped ==
  ASSUME BookInv, NEW i \in Manuals, NEW o \in ManualOffers, AddManualOffer(i, o)
  PROVE  RowsInv' /\ stored' = stored \cup {i} /\ i \notin Mails
  <1>1. o.price \in Prices0 /\ o.price # Absent
    BY OfferAssumption DEF Prices0
  <1>2. o # NoOffer
    BY <1>1 DEF NoOffer
  <1>3. /\ \A j \in Ids : offer'[j] = IF j = i THEN o ELSE offer[j]
        /\ offer' \in [Ids -> {offer'[j] : j \in Ids}]
    BY DEF AddManualOffer, BookInv, RowsInv
  <1>4. stored' = stored \cup {i}
    BY <1>2, <1>3 DEF stored, Ids
  <1>5. RequestsOK'
    <2>1. UNCHANGED req
      BY DEF AddManualOffer
    <2>2. \A v \in Workers : req[v] \in Request /\ WellFormed(req[v])
      BY RequestTyped
    <2>3. \A v \in Workers : WellFormed(req[v])'
      BY <1>4, <2>1, <2>2 DEF WellFormed
    <2>4. QED
      BY <2>1, <2>3 DEF RequestsOK, BookInv, RowsInv, TablesOK
  <1>6. \A j \in stored' : offer'[j].price \in Prices0
    BY <1>1, <1>3, <1>4 DEF BookInv, RowsInv, TablesOK, stored
  <1>7. overtaken' \subseteq Workers
    BY DEF AddManualOffer, Pending
  <1>8. QED
    BY <1>3, <1>4, <1>5, <1>6, <1>7, OfferAssumption
       DEF AddManualOffer, BookInv, RowsInv, TablesOK, RequestsOK

LEMMA DeleteDealerTyped ==
  ASSUME BookInv, NEW c \in Contacts, DeleteDealer(c)
  PROVE  RowsInv'
  <1>1. contact' \in [Contacts -> ContactStatuses]
    BY DEF DeleteDealer, BookInv, RowsInv, TablesOK, ContactStatuses
  <1>2. QED
    BY <1>1 DEF DeleteDealer, BookInv, RowsInv, TablesOK, WellFormed, stored, history

LEMMA RowsStep == BookInv /\ [Next]_vars => RowsInv'
  <1> SUFFICES ASSUME BookInv, [Next]_vars PROVE RowsInv'
    OBVIOUS
  <1>1. ASSUME NEW w \in Workers, Arrive(w) PROVE RowsInv'
    <2>1. UNCHANGED dbVars /\ Admit(w)
      BY <1>1 DEF Arrive, BeginExtract, BeginAnswer, BeginCompare
    <2>2. served' \in 0 .. MaxRequests /\ overtaken' \subseteq Workers
      BY <2>1, OfferAssumption DEF Admit, BookInv, RowsInv, TablesOK
    <2>3. overlapped' \subseteq Mails /\ answered' = answered
      BY <1>1 DEF Arrive, BeginExtract, BeginAnswer, BeginCompare, BookInv, RowsInv, TablesOK
    <2>4. RequestsOK'
      BY <1>1, <2>1, BeginRequest, ReplaceRequest DEF Arrive, dbVars, stored
    <2>5. QED
      BY <2>1, <2>2, <2>3, <2>4 DEF BookInv, RowsInv, TablesOK, RequestsOK, dbVars, stored
  <1>2. ASSUME NEW w \in Workers, InnerStep(w)
        PROVE  RowsInv'
    <2>1. UNCHANGED <<dbVars, history>>
      BY <1>2 DEF InnerStep, ReadOffer, FlushOffer, LoadCampaign, ListOffers
    <2>2. RequestsOK'
      BY <1>2, <2>1, InnerRequest, ReplaceRequest DEF dbVars, stored
    <2>3. QED
      BY <2>1, <2>2 DEF BookInv, RowsInv, TablesOK, RequestsOK, dbVars, history, stored
  <1>3. ASSUME NEW w \in Workers, FlushRefused(w) \/ CommitRefused(w) \/ Abort(w)
        PROVE  RowsInv'
    <2>1. UNCHANGED <<dbVars, history>> /\ Finish(w)
      BY <1>3 DEF FlushRefused, CommitRefused, Abort
    <2>2. RequestsOK'
      BY <2>1, IdleTyped, ReplaceRequest DEF Finish, dbVars, stored
    <2>3. QED
      BY <2>1, <2>2 DEF BookInv, RowsInv, TablesOK, RequestsOK, dbVars, history, stored
  <1>4. CASE UNCHANGED vars
    BY <1>4 DEF vars, BookInv, RowsInv, TablesOK, WellFormed, stored
  <1>5. QED
    BY <1>1, <1>2, <1>3, <1>4, CommitTyped, CommitWithoutTyped, CommitComparisonTyped,
       RespondTyped, ManualTyped, DeleteDealerTyped DEF Next, Proceed, InnerStep

(* A session loads rows that are there, and a row that is deleted goes. *)
LEMMA ViewsStep == BookInv /\ [Next]_vars => ViewsOK'
  <1> SUFFICES ASSUME BookInv, [Next]_vars PROVE ViewsOK'
    OBVIOUS
  <1>1. DOMAIN view = Workers
        /\ \A v \in Workers : \A i \in DOMAIN view[v] : view[v][i].price \in Prices0
    BY DEF BookInv, ViewsOK
  <1>2. CASE UNCHANGED view
    BY <1>1, <1>2 DEF ViewsOK
  <1>3. ASSUME NEW w \in Workers, BeginCompare(w) \/ LoadCampaign(w) PROVE ViewsOK'
    <2>1. view' = [view EXCEPT ![w] = Visible(w)]
      BY <1>3 DEF BeginCompare, LoadCampaign
    <2>2. req[w].step = "idle" => req[w].hold = "none"
      BY RequestTyped DEF WellFormed
    <2>3. \A i \in DOMAIN Visible(w) : Visible(w)[i].price \in Prices0
      BY <1>3, <2>2, VisibleTyped DEF BeginCompare, LoadCampaign, Admit
    <2>4. QED
      BY <1>1, <2>1, <2>3 DEF ViewsOK
  <1>4. ASSUME NEW w \in Workers, ListOffers(w) \/ Abort(w) PROVE ViewsOK'
    <2>1. view' = [view EXCEPT ![w] = <<>>]
      BY <1>4 DEF ListOffers, Abort
    <2>2. QED
      BY <1>1, <2>1 DEF ViewsOK
  <1>5. ASSUME NEW w \in Workers, NEW o, NEW r, Republish(w, o, r) PROVE ViewsOK'
    <2>1. view' = [v \in Workers |->
                     IF o = NoOffer THEN Without(view[v], req[w].mail) ELSE view[v]]
      BY <1>5 DEF Republish
    <2>2. QED
      BY <1>1, <2>1 DEF ViewsOK, Without
  <1>6. ASSUME NEW w \in Workers,
               CommitExtraction(w) \/ CommitWithoutOffer(w) \/ CommitComparison(w)
        PROVE  ViewsOK'
    <2>1. UNCHANGED view \/ \E o, r : Republish(w, o, r)
      BY <1>6 DEF CommitExtraction, CommitWithoutOffer, CommitComparison
    <2>2. QED
      BY <1>2, <1>5, <2>1
  <1>7. ASSUME NEW w \in Workers,
               \/ \E m \in Mails, t \in Texts : BeginExtract(w, m, t)
               \/ \E m \in Mails : BeginAnswer(w, m)
               \/ ReadOffer(w) \/ FlushOffer(w) \/ FlushRefused(w)
               \/ CommitRefused(w) \/ Respond(w)
        PROVE  ViewsOK'
    BY <1>2, <1>7 DEF BeginExtract, BeginAnswer, ReadOffer, FlushOffer, FlushRefused,
                      CommitRefused, Respond
  <1>8. \/ \E i \in Manuals, o \in ManualOffers : AddManualOffer(i, o)
        \/ \E c \in Contacts : DeleteDealer(c)
        \/ UNCHANGED vars
        => ViewsOK'
    BY <1>2 DEF AddManualOffer, DeleteDealer, vars
  <1>9. QED
    BY <1>3, <1>4, <1>6, <1>7, <1>8 DEF Next, Arrive, Proceed

LEMMA BookInvStep == BookInv /\ [Next]_vars => BookInv'
  BY RowsStep, ViewsStep DEF BookInv

\* Type correctness with the domain of the offers, which every other theorem
\* about the handlers of the campaign's offers starts from.
THEOREM BookInvariant == Spec => []BookInv
  BY InitBookInv, BookInvStep, PTL DEF Spec

(* Type correctness of the offers and of the requests on them: what a      *)
(* request knows of an offer that others change or delete stays right.     *)
THEOREM BookTypeOK == Spec => []TypeOK
  <1>1. BookInv => TypeOK
    BY DEF BookInv, RowsInv, TypeOK
  <1>2. QED
    BY <1>1, BookInvariant, PTL

-----------------------------------------------------------------------------
(* Price comparisons. *)

(* Steps that leave the offers of mails and what was answered on them. *)
LEMMA MeetKept ==
  ASSUME AnswersMeet, Counted' \cap Mails \subseteq Counted \cap Mails,
         \A m \in Counted' \cap Mails : answered'[m] # None => answered'[m] = answered[m]
  PROVE  AnswersMeet'
  BY DEF AnswersMeet

(* The offer of m is stored anew or removed: it has not been answered yet. *)
LEMMA MeetReset ==
  ASSUME BookInv, AnswersMeet, NEW m \in Mails, NEW o,
         offer' = [offer EXCEPT ![m] = o], answered' = [answered EXCEPT ![m] = None]
  PROVE  AnswersMeet'
  <1>1. \A i \in Mails \ {m} : /\ i \in Counted' <=> i \in Counted
                               /\ answered'[i] = answered[i]
    BY DEF BookInv, RowsInv, TablesOK, Counted, stored, Ids
  <1>2. answered'[m] = None
    BY DEF BookInv, RowsInv, TablesOK
  <1>3. QED
    BY <1>1, <1>2 DEF AnswersMeet

LEMMA MeetAnswered ==
  ASSUME BookInv, AnswersMeet, NEW w \in Workers, Respond(w)
  PROVE  AnswersMeet'
  <1>1. Counted' = Counted
    BY DEF Respond, dbVars, Counted, stored
  <1>2. CASE req[w].hold \in {"row", "changed"} /\ req[w].price # None
    <2>1. answered' = [answered EXCEPT ![req[w].mail] = Counted \cap Mails]
      BY <1>2 DEF Respond
    <2>2. \A i \in Mails : \/ answered'[i] = answered[i] /\ i # req[w].mail
                           \/ i = req[w].mail /\ answered'[i] = Counted \cap Mails
      BY <2>1 DEF BookInv, RowsInv, TablesOK
    <2>3. QED
      BY <1>1, <2>2 DEF AnswersMeet
  <1>3. CASE ~ (req[w].hold \in {"row", "changed"} /\ req[w].price # None)
    <2>1. answered' = answered
      BY <1>3 DEF Respond
    <2>2. QED
      BY <1>1, <2>1, MeetKept
  <1>4. QED
    BY <1>2, <1>3

LEMMA MeetStep == BookInv /\ AnswersMeet /\ [Next]_vars => AnswersMeet'
  <1> SUFFICES ASSUME BookInv, AnswersMeet, [Next]_vars PROVE AnswersMeet'
    OBVIOUS
  <1>1. ASSUME UNCHANGED <<offer, answered>> PROVE AnswersMeet'
    BY <1>1, MeetKept DEF Counted, stored
  <1>2. ASSUME NEW w \in Workers,
               \/ Arrive(w) \/ ReadOffer(w) \/ FlushOffer(w) \/ FlushRefused(w)
               \/ LoadCampaign(w) \/ ListOffers(w) \/ CommitRefused(w)
               \/ CommitComparison(w) \/ Abort(w)
        PROVE  AnswersMeet'
    <2>1. UNCHANGED <<offer, answered>>
      BY <1>2 DEF Arrive, BeginExtract, BeginAnswer, BeginCompare, ReadOffer, FlushOffer,
                  FlushRefused, LoadCampaign, ListOffers, CommitRefused, CommitComparison,
                  Abort, dbVars, history
    <2>2. QED
      BY <1>1, <2>1
  <1>3. ASSUME NEW w \in Workers, CommitExtraction(w) PROVE AnswersMeet'
    <2>1. req[w].mail \in Mails
      BY <1>3, RequestTyped DEF CommitExtraction
    <2>2. /\ \E o : offer' = [offer EXCEPT ![req[w].mail] = o]
          /\ answered' = [answered EXCEPT ![req[w].mail] = None]
      BY <1>3 DEF CommitExtraction
    <2>3. QED
      BY <2>1, <2>2, MeetReset
  <1>4. ASSUME NEW w \in Workers, CommitWithoutOffer(w) PROVE AnswersMeet'
    <2>1. req[w].mail \in Mails
      BY <1>4, RequestTyped DEF CommitWithoutOffer, WellFormed
    <2>2. \/ /\ offer' = [offer EXCEPT ![req[w].mail] = NoOffer]
             /\ answered' = [answered EXCEPT ![req[w].mail] = None]
          \/ UNCHANGED <<offer, answered>>
      BY <1>4 DEF CommitWithoutOffer
    <2>3. QED
      BY <1>1, <2>1, <2>2, MeetReset
  <1>5. ASSUME NEW i \in Manuals, NEW o \in ManualOffers, AddManualOffer(i, o)
        PROVE  AnswersMeet'
    <2>1. /\ stored' = stored \cup {i} /\ i \notin Mails
          /\ offer' = [offer EXCEPT ![i] = o] /\ answered' = answered
      BY <1>5, ManualTyped DEF AddManualOffer
    <2>2. Counted' \cap Mails = Counted \cap Mails
      BY <2>1 DEF Counted, BookInv, RowsInv, stored, Ids
    <2>3. QED
      BY <2>1, <2>2, MeetKept
  <1>6. ASSUME NEW c \in Contacts, DeleteDealer(c) PROVE AnswersMeet'
    BY <1>1, <1>6 DEF DeleteDealer, history
  <1>7. CASE UNCHANGED vars
    BY <1>1, <1>7 DEF vars
  <1>8. QED
    BY <1>2, <1>3, <1>4, <1>5, <1>6, <1>7, MeetAnswered DEF Next, Proceed

(* Of two offers answered with a price comparison, one comparison has      *)
(* counted the other offer, however the two requests overlap.              *)
THEOREM AnswersAlwaysMeet == Spec => []AnswersMeet
  <1>1. Init => AnswersMeet
    BY DEF Init, AnswersMeet, Counted, stored
  <1>2. QED
    BY <1>1, BookInvariant, MeetStep, PTL DEF Spec

-----------------------------------------------------------------------------
(* The result of a mail and its offer. *)

(* A mail that is extracted by one request at a time: the request has read *)
(* what is stored, and its way follows from what it found.                 *)
SoleExtraction(m) ==
  /\ \A v, w \in Extracting(m) : v = w
  /\ \A w \in Extracting(m) :
       /\ req[w].loaded = mail[m]
       /\ req[w].hold \in {"none", "row", "new"}
       /\ req[w].hold = "row" <=> m \in stored
       /\ req[w].hold = "row" => req[w].price = offer[m].price
       /\ req[w].step # "read" =>
            (req[w].step = "finish" <=> Outcome(req[w]).result # "OFFER_EXTRACTED")

Agrees(m) ==
  /\ m \in stored <=> mail[m].result = "OFFER_EXTRACTED"
  /\ mail[m].analysis # None => mail[m].analysis.result = mail[m].result
  /\ m \in stored => offer[m].price = TotalPrice(mail[m].analysis.price)

MailInv == \A m \in Mails \ overlapped : SoleExtraction(m) /\ Agrees(m)

(* Steps that do not touch m: its rows stay, its extractions stay or end.  *)
ExtractionsKept(m) ==
  \A v \in Workers : (v \in Extracting(m))' => v \in Extracting(m) /\ req'[v] = req[v]

LEMMA MailKept ==
  ASSUME NEW m \in Mails, SoleExtraction(m), Agrees(m), ExtractionsKept(m),
         mail'[m] = mail[m], offer'[m] = offer[m], m \in stored' <=> m \in stored
  PROVE  SoleExtraction(m)' /\ Agrees(m)'
  <1>1. \A v \in Extracting(m)' : v \in Extracting(m) /\ req'[v] = req[v]
    BY DEF ExtractionsKept, Extracting
  <1>2. SoleExtraction(m)'
    BY <1>1 DEF SoleExtraction, Outcome
  <1>3. Agrees(m)'
    BY DEF Agrees
  <1>4. QED
    BY <1>2, <1>3

LEMMA OneRequestKeeps ==
  ASSUME BookInv, NEW w \in Workers, NEW m \in Mails,
         \E r : /\ req' = [req EXCEPT ![w] = r]
                /\ r.op # "extract" \/ r.mail # m \/ r.step = "respond"
  PROVE  ExtractionsKept(m)
  BY DEF ExtractionsKept, Extracting, BookInv, RowsInv, TablesOK

LEMMA FinishKeeps ==
  ASSUME BookInv, NEW w \in Workers, NEW m \in Mails, Finish(w)
  PROVE  ExtractionsKept(m)
  BY OneRequestKeeps DEF Finish, Idle

LEMMA RepublishKeeps ==
  ASSUME BookInv, NEW w \in Workers, NEW m \in Mails, NEW o, NEW r, Republish(w, o, r),
         req[w].mail # m, r.op # "extract" \/ r.mail # m
  PROVE  ExtractionsKept(m)
  <1>1. \A v \in Workers : req[v] \in Request
    BY RequestTyped
  <1>2. \A v \in Workers :
          req'[v] = IF v = w THEN r
                    ELSE IF req[v].mail = req[w].mail /\ req[w].mail # None
                         THEN [req[v] EXCEPT !.hold = NewHold(@, o)] ELSE req[v]
    BY DEF Republish
  <1>3. \A v \in Workers : v # w /\ req'[v] # req[v] => req'[v].mail = req[w].mail
    BY <1>1, <1>2 DEF Request
  <1>4. QED
    BY <1>2, <1>3 DEF ExtractionsKept, Extracting

(* The only extraction of m commits: no other one is left. *)
LEMMA RepublishEnds ==
  ASSUME BookInv, NEW w \in Workers, NEW m \in Mails, NEW o, NEW r, Republish(w, o, r),
         r.op # "extract" \/ r.step = "respond",
         \A v \in Extracting(m) : v = w
  PROVE  Extracting(m)' = {}
  <1>1. \A v \in Workers : req[v] \in Request
    BY RequestTyped
  <1>2. \A v \in Workers :
          req'[v] = IF v = w THEN r
                    ELSE IF req[v].mail = req[w].mail /\ req[w].mail # None
                         THEN [req[v] EXCEPT !.hold = NewHold(@, o)] ELSE req[v]
    BY DEF Republish
  <1>3. \A v \in Workers \ {w} : /\ req'[v].op = req[v].op /\ req'[v].mail = req[v].mail
                                 /\ req'[v].step = req[v].step
    BY ZenonT(20), <1>1, <1>2 DEF Request
  <1>4. \A v \in Workers \ {w} : v \notin Extracting(m)'
    BY <1>3 DEF Extracting
  <1>5. w \notin Extracting(m)'
    BY <1>2 DEF Extracting
  <1>6. Extracting(m)' \subseteq Workers
    BY DEF Extracting
  <1>7. QED
    BY <1>4, <1>5, <1>6

(* What a sole extraction writes is what its analysis says. *)
LEMMA ResultWritten ==
  ASSUME BookInv, NEW w \in Workers, ApplyResult(req[w]),
         req[w].op = "extract", req[w].step # "respond", req[w].loaded = mail[req[w].mail]
  PROVE  /\ mail'[req[w].mail].result = Outcome(req[w]).result
         /\ mail'[req[w].mail].analysis = Outcome(req[w])
         /\ \A m \in Mails : m # req[w].mail => mail'[m] = mail[m]
  <1>1. req[w].mail \in Mails
    BY RequestTyped
  <1> DEFINE m == req[w].mail
             r == req[w]
             new == [result |-> Assign(r.loaded.result, Outcome(r).result, mail[m].result),
                     analysis |-> Assign(r.loaded.analysis, Outcome(r), mail[m].analysis)]
  <1>2. mail' = [mail EXCEPT ![m] = new]
    BY DEF ApplyResult
  <1>3. mail \in [Mails -> MailRow]
    BY DEF BookInv, RowsInv, TablesOK
  <1>4. mail'[m] = new /\ \A n \in Mails : n # m => mail'[n] = mail[n]
    BY <1>1, <1>2, <1>3
  <1>5. new.result = Outcome(r).result /\ new.analysis = Outcome(r)
    BY DEF Assign
  <1>6. QED
    BY <1>4, <1>5

LEMMA InitMailInv == Init => MailInv
  BY DEF Init, MailInv, SoleExtraction, Agrees, Extracting, Idle, stored, NewMail

LEMMA BeginKeepsMail ==
  ASSUME BookInv, MailInv, NEW w \in Workers, Arrive(w)
  PROVE  MailInv'
  <1>1. UNCHANGED dbVars /\ req[w].step = "idle" /\ overlapped \subseteq overlapped'
    BY DEF Arrive, BeginExtract, BeginAnswer, BeginCompare, Admit
  <1>2. CASE (\E m \in Mails : BeginAnswer(w, m)) \/ BeginCompare(w)
    <2>1. ASSUME BeginCompare(w) PROVE \A m \in Mails : ExtractionsKept(m)
      <3> DEFINE r == [Idle EXCEPT !.op = "compare", !.step = "list", !.summary = summary]
      <3>1. req' = [req EXCEPT ![w] = r] /\ r.op # "extract"
        BY <2>1 DEF BeginCompare, Idle
      <3>2. \E x : req' = [req EXCEPT ![w] = x] /\ x.op # "extract"
        BY <3>1
      <3>3. QED
        BY <3>2, OneRequestKeeps
    <2>2. ASSUME NEW n \in Mails, BeginAnswer(w, n)
          PROVE  \A m \in Mails : ExtractionsKept(m)
      <3> DEFINE r == Answering("answer", n, offer[n].price)
      <3>1. req' = [req EXCEPT ![w] = r] /\ r.op # "extract"
        BY <2>2 DEF BeginAnswer, Answering, Idle
      <3>2. \E x : req' = [req EXCEPT ![w] = x] /\ x.op # "extract"
        BY <3>1
      <3>3. QED
        BY <3>2, OneRequestKeeps
    <2>3. \A m \in Mails : ExtractionsKept(m)
      BY <1>2, <2>1, <2>2
    <2>4. QED
      BY <1>1, <2>3, MailKept DEF MailInv, dbVars, stored
  <1>3. ASSUME NEW n \in Mails, NEW t \in Texts, BeginExtract(w, n, t) PROVE MailInv'
    <2> DEFINE r == Loaded(n, t)
    <2>1. /\ req' = [req EXCEPT ![w] = r]
          /\ Extracting(n) # {} => n \in overlapped'
      BY <1>3 DEF BeginExtract, Loaded
    <2>f. /\ r.op = "extract" /\ r.mail = n /\ r.step = "read" /\ r.loaded = mail[n]
          /\ r.hold = IF n \in stored THEN "row" ELSE "none"
          /\ n \in stored => r.price = offer[n].price
      BY IdleTyped DEF Loaded, Request
    <2> HIDE DEF r
    <2>2. ASSUME NEW m \in Mails \ overlapped', m # n
          PROVE  SoleExtraction(m)' /\ Agrees(m)'
      <3>1. ExtractionsKept(m)
        BY <2>1, <2>f, <2>2, OneRequestKeeps
      <3>2. QED
        BY <1>1, <2>2, <3>1, MailKept DEF MailInv, dbVars, stored
    <2>3. ASSUME n \notin overlapped' PROVE SoleExtraction(n)' /\ Agrees(n)'
      <3>1. Extracting(n) = {}
        BY <2>1, <2>3
      <3>2. \A v \in Extracting(n)' : v = w
        BY <2>1, <2>f, <3>1 DEF Extracting, BookInv, RowsInv, TablesOK
      <3>3. req'[w] = r /\ UNCHANGED <<mail, offer>>
        BY <1>1, <2>1 DEF BookInv, RowsInv, TablesOK, dbVars
      <3>4. SoleExtraction(n)'
        BY <2>f, <3>2, <3>3 DEF SoleExtraction, stored
      <3>5. Agrees(n)'
        BY <1>1, <2>3, <3>3 DEF MailInv, Agrees, stored
      <3>6. QED
        BY <3>4, <3>5
    <2>4. QED
      BY <2>2, <2>3 DEF MailInv
  <1>4. QED
    BY <1>2, <1>3 DEF Arrive

(* A sole extraction goes on: the others keep, its own way is as found. *)
LEMMA InnerKeepsMail ==
  ASSUME BookInv, MailInv, NEW w \in Workers, InnerStep(w)
  PROVE  MailInv'
  <1>1. UNCHANGED <<dbVars, history>> /\ req[w] \in Request /\ WellFormed(req[w])
    BY RequestTyped DEF InnerStep, ReadOffer, FlushOffer, LoadCampaign, ListOffers
  <1> DEFINE hold == IF req[w].mail \in stored THEN "row" ELSE "none"
             next == IF Outcome(req[w]).result # "OFFER_EXTRACTED" THEN "finish"
                     ELSE IF hold = "none" THEN "flush" ELSE "load"
             price == IF req[w].hold \in {"row", "changed"} THEN req[w].price
                      ELSE IF hold = "row" THEN offer[req[w].mail].price ELSE None
  <1>2. PICK r : /\ req' = [req EXCEPT ![w] = r]
                 /\ r.op = req[w].op /\ r.mail = req[w].mail
                 /\ r.loaded = req[w].loaded /\ r.text = req[w].text
                 /\ r.matched = req[w].matched
                 /\ \/ /\ ReadOffer(w)
                       /\ r.hold = hold /\ r.price = price /\ r.step = next
                    \/ FlushOffer(w) /\ r.hold = "new" /\ r.step = "load"
                    \/ /\ LoadCampaign(w) /\ r.hold = req[w].hold
                       /\ r.price = req[w].price /\ r.step = "list"
                    \/ /\ ListOffers(w) /\ r.hold = req[w].hold /\ r.price = req[w].price
                       /\ r.step = "commit"
    <2>1. CASE ReadOffer(w)
      <3> DEFINE r == OfferRead(req[w])
      <3>1. req' = [req EXCEPT ![w] = r]
        BY <2>1, ReadOfferIs DEF BookInv, RowsInv, TablesOK
      <3>2. /\ r.op = req[w].op /\ r.mail = req[w].mail /\ r.loaded = req[w].loaded
            /\ r.text = req[w].text /\ r.matched = req[w].matched
            /\ r.hold = hold /\ r.step = next /\ r.price = price
        BY <1>1 DEF Request, OfferRead
      <3> HIDE DEF r, hold, price, next
      <3>3. QED
        BY ZenonT(60), <2>1, <3>1, <3>2
    <2>2. CASE FlushOffer(w)
      <3> DEFINE r == [req[w] EXCEPT !.hold = "new", !.step = "load"]
      <3>1. req' = [req EXCEPT ![w] = r]
        BY <1>1, <2>2 DEF FlushOffer, Request
      <3>2. /\ r.op = req[w].op /\ r.mail = req[w].mail /\ r.loaded = req[w].loaded
            /\ r.text = req[w].text /\ r.matched = req[w].matched
            /\ r.hold = "new" /\ r.step = "load"
        BY <1>1 DEF Request
      <3>3. QED
        BY <2>2, <3>1, <3>2
    <2>3. CASE LoadCampaign(w)
      <3> DEFINE r == [req[w] EXCEPT !.summary = summary, !.step = "list"]
      <3>1. req' = [req EXCEPT ![w] = r]
        BY <1>1, <2>3 DEF LoadCampaign, Request
      <3>2. /\ r.op = req[w].op /\ r.mail = req[w].mail /\ r.loaded = req[w].loaded
            /\ r.text = req[w].text /\ r.matched = req[w].matched
            /\ r.hold = req[w].hold /\ r.price = req[w].price /\ r.step = "list"
        BY <1>1 DEF Request
      <3>3. QED
        BY <2>3, <3>1, <3>2
    <2>4. CASE ListOffers(w)
      <3> DEFINE r == [req[w] EXCEPT !.listed = SummaryOf(Listed(w)), !.step = "commit"]
      <3>1. req' = [req EXCEPT ![w] = r]
        BY <1>1, <2>4 DEF ListOffers, Request
      <3>2. /\ r.op = req[w].op /\ r.mail = req[w].mail /\ r.loaded = req[w].loaded
            /\ r.text = req[w].text /\ r.matched = req[w].matched
            /\ r.hold = req[w].hold /\ r.price = req[w].price /\ r.step = "commit"
        BY <1>1 DEF Request
      <3>3. QED
        BY <2>4, <3>1, <3>2
    <2>5. QED
      BY <2>1, <2>2, <2>3, <2>4 DEF InnerStep
  <1>3. req'[w] = r /\ \A v \in Workers \ {w} : req'[v] = req[v]
    BY <1>2 DEF BookInv, RowsInv, TablesOK
  <1>4. req[w].step \in {"read", "flush", "load", "list"}
        /\ r.step \notin {"read", "respond"}
    BY <1>2 DEF ReadOffer, FlushOffer, LoadCampaign, ListOffers
  <1>5. \A m \in Mails : Extracting(m)' = Extracting(m)
    BY <1>2, <1>3, <1>4 DEF Extracting
  <1>6. Outcome(req[w])' = Outcome(req[w])
    BY <1>2, <1>3 DEF Outcome
  <1>7. ASSUME NEW m \in Mails \ overlapped PROVE SoleExtraction(m)' /\ Agrees(m)'
    <2>1. SoleExtraction(m) /\ Agrees(m)
      BY DEF MailInv
    <2>2. Agrees(m)'
      BY <1>1, <2>1 DEF Agrees, dbVars, stored
    <2>3. CASE w \notin Extracting(m)
      BY <1>1, <1>3, <1>5, <2>1, <2>2, <2>3 DEF SoleExtraction, Extracting, Outcome,
         dbVars, stored
    <2>4. CASE w \in Extracting(m)
      <3>1. req[w].mail = m /\ \A v \in Extracting(m)' : v = w
        BY <1>5, <2>1, <2>4 DEF SoleExtraction, Extracting
      <3>2. /\ r.loaded = mail[m]
            /\ r.hold \in {"none", "row", "new"}
            /\ r.hold = "row" <=> m \in stored
            /\ r.hold = "row" => r.price = offer[m].price
            /\ r.step = "finish" <=> Outcome(req[w]).result # "OFFER_EXTRACTED"
        <4> /\ req[w].loaded = mail[m]
            /\ req[w].hold \in {"none", "row", "new"}
            /\ req[w].hold = "row" <=> m \in stored
            /\ req[w].hold = "row" => req[w].price = offer[m].price
            /\ req[w].step # "read" =>
                 (req[w].step = "finish" <=> Outcome(req[w]).result # "OFFER_EXTRACTED")
          BY <2>1, <2>4 DEF SoleExtraction
        <4>1. CASE ReadOffer(w) /\ r.hold = hold /\ r.price = price /\ r.step = next
          BY <1>2, <3>1, <4>1 DEF ReadOffer
        <4>2. CASE FlushOffer(w) /\ r.hold = "new" /\ r.step = "load"
          BY <1>1, <1>2, <3>1, <4>2 DEF FlushOffer, WellFormed
        <4>3. CASE LoadCampaign(w) /\ r.hold = req[w].hold /\ r.price = req[w].price
                   /\ r.step = "list"
          BY <1>2, <3>1, <4>3 DEF LoadCampaign
        <4>4. CASE ListOffers(w) /\ r.hold = req[w].hold /\ r.price = req[w].price
                   /\ r.step = "commit"
          BY <1>2, <3>1, <4>4 DEF ListOffers
        <4>5. QED
          BY <1>2, <4>1, <4>2, <4>3, <4>4
      <3>3. UNCHANGED <<mail, offer, stored>>
        BY <1>1 DEF dbVars, stored
      <3>4. SoleExtraction(m)'
        BY <1>3, <1>4, <1>6, <3>1, <3>2, <3>3 DEF SoleExtraction
      <3>5. QED
        BY <2>2, <3>4
    <2>5. QED
      BY <2>3, <2>4
  <1>8. QED
    BY <1>1, <1>7 DEF MailInv, history

(* A request that ends without a write. *)
LEMMA EndKeepsMail ==
  ASSUME BookInv, MailInv, NEW w \in Workers, Finish(w),
         UNCHANGED <<mail, offer, overlapped>>
  PROVE  MailInv'
  <1>1. \A m \in Mails : ExtractionsKept(m)
    BY FinishKeeps
  <1>2. QED
    BY <1>1, MailKept DEF MailInv, stored

(* The extraction that has stored an offer answers what it has stored. *)
LEMMA CommitKeepsMail ==
  ASSUME BookInv, MailInv, NEW w \in Workers, CommitExtraction(w)
  PROVE  MailInv'
  <1>n. PICK n \in Mails : n = req[w].mail
    BY RequestTyped DEF CommitExtraction, CommitWithoutOffer, WellFormed
  <1>1. PICK f \in FeaturesAfter(req[w]) :
          LET o == [price |-> PriceAfter(req[w]), features |-> f] IN
            /\ offer' = [offer EXCEPT ![n] = o]
            /\ Republish(w, o, Answering("extract", n, o.price))
    BY <1>n DEF CommitExtraction
  <1> DEFINE o == [price |-> PriceAfter(req[w]), features |-> f]
             r == Answering("extract", n, o.price)
  <1>2. /\ req[w].step = "commit" /\ req[w].op = "extract" /\ req[w].hold # "gone"
        /\ ApplyResult(req[w]) /\ overlapped' = overlapped
    BY DEF CommitExtraction
  <1>3. /\ n \in Mails /\ stored' = stored \cup {n}
        /\ offer'[n] = o /\ \A i \in Ids : i # n => offer'[i] = offer[i]
    BY <1>1, <1>2, <1>n, CommittedRow DEF BookInv, RowsInv, Ids
  <1>4. r.step = "respond" /\ r.mail = n
    BY DEF Answering, Idle
  <1>5. ASSUME NEW m \in Mails \ overlapped, m # n
        PROVE  SoleExtraction(m)' /\ Agrees(m)'
    <2>1. ExtractionsKept(m)
      BY <1>n, <1>1, <1>4, <1>5, RepublishKeeps
    <2>2. mail'[m] = mail[m]
      BY <1>n, <1>2, <1>3, <1>5 DEF ApplyResult, BookInv, RowsInv, TablesOK
    <2>3. offer'[m] = offer[m] /\ (m \in stored' <=> m \in stored)
      BY <1>3, <1>5 DEF Ids
    <2>4. QED
      BY <2>1, <2>2, <2>3, MailKept DEF MailInv
  <1>6. ASSUME n \notin overlapped PROVE SoleExtraction(n)' /\ Agrees(n)'
    <2>1. w \in Extracting(n) /\ SoleExtraction(n)
      BY <1>n, <1>2, <1>3, <1>6 DEF Extracting, MailInv
    <2>2. /\ req[w].loaded = mail[n] /\ Outcome(req[w]).result = "OFFER_EXTRACTED"
          /\ req[w].hold \in {"row", "new"}
          /\ req[w].hold = "row" => req[w].price = offer[n].price
      BY <1>n, <1>2, <2>1, RequestTyped DEF SoleExtraction, WellFormed
    <2>3. o.price = TotalPrice(Outcome(req[w]).price)
      BY <1>n, <2>2 DEF PriceAfter, Assign, NewOffer
    <2>4. /\ mail'[n].result = Outcome(req[w]).result
          /\ mail'[n].analysis = Outcome(req[w])
      BY <1>n, <1>2, <2>2, ResultWritten
    <2>5. Extracting(n)' = {}
      BY <1>n, <1>1, <1>3, <1>4, <2>1, RepublishEnds DEF SoleExtraction
    <2>6. SoleExtraction(n)'
      BY <2>5 DEF SoleExtraction
    <2>7. Agrees(n)'
      BY <1>3, <2>2, <2>3, <2>4 DEF Agrees
    <2>8. QED
      BY <2>6, <2>7
  <1>7. QED
    BY <1>2, <1>5, <1>6 DEF MailInv

(* The extraction that found no offer leaves none. *)
LEMMA WithoutKeepsMail ==
  ASSUME BookInv, MailInv, NEW w \in Workers, CommitWithoutOffer(w)
  PROVE  MailInv'
  <1>n. PICK n \in Mails : n = req[w].mail
    BY RequestTyped DEF CommitExtraction, CommitWithoutOffer, WellFormed
  <1>1. /\ req[w].op = "extract" /\ req[w].step = "finish" /\ n \in Mails
        /\ ApplyResult(req[w]) /\ overlapped' = overlapped
    BY RequestTyped DEF CommitWithoutOffer, WellFormed
  <1>2. \/ /\ req[w].hold \in {"row", "changed"}
           /\ offer' = [offer EXCEPT ![n] = NoOffer] /\ Republish(w, NoOffer, Idle)
        \/ /\ req[w].hold \notin {"row", "changed"}
           /\ offer' = offer /\ Finish(w)
    BY <1>n DEF CommitWithoutOffer
  <1>3. Idle.op # "extract"
    BY DEF Idle
  <1>4. \A i \in Ids : i # n => offer'[i] = offer[i]
    BY <1>2 DEF BookInv, RowsInv
  <1>5. ASSUME NEW m \in Mails \ overlapped, m # n
        PROVE  SoleExtraction(m)' /\ Agrees(m)'
    <2>1. ExtractionsKept(m)
      BY <1>n, <1>2, <1>3, <1>5, RepublishKeeps, FinishKeeps
    <2>2. mail'[m] = mail[m]
      BY <1>n, <1>1, <1>5 DEF ApplyResult, BookInv, RowsInv, TablesOK
    <2>3. offer'[m] = offer[m] /\ (m \in stored' <=> m \in stored)
      BY <1>4, <1>5 DEF Ids, stored
    <2>4. QED
      BY <2>1, <2>2, <2>3, MailKept DEF MailInv
  <1>6. ASSUME n \notin overlapped PROVE SoleExtraction(n)' /\ Agrees(n)'
    <2>1. w \in Extracting(n) /\ SoleExtraction(n)
      BY <1>n, <1>1, <1>6 DEF Extracting, MailInv
    <2>2. /\ req[w].loaded = mail[n] /\ Outcome(req[w]).result # "OFFER_EXTRACTED"
          /\ req[w].hold \in {"none", "row", "new"}
          /\ req[w].hold = "row" <=> n \in stored
      BY <1>n, <1>1, <2>1 DEF SoleExtraction
    <2>3. n \notin stored'
      <3>1. CASE req[w].hold = "row"
        BY <1>1, <1>2, <3>1 DEF stored, BookInv, RowsInv, Ids
      <3>2. CASE req[w].hold # "row"
        BY <1>2, <2>2, <3>2 DEF stored
      <3>3. QED
        BY <3>1, <3>2
    <2>4. /\ mail'[n].result = Outcome(req[w]).result
          /\ mail'[n].analysis = Outcome(req[w])
      BY <1>n, <1>1, <2>2, ResultWritten
    <2>5. Extracting(n)' = {}
      <3>1. \A v \in Extracting(n) : v = w
        BY <2>1 DEF SoleExtraction
      <3>2. CASE Finish(w)
        BY <1>3, <3>1, <3>2 DEF Finish, Extracting, BookInv, RowsInv, TablesOK
      <3>3. CASE Republish(w, NoOffer, Idle)
        BY <1>n, <1>1, <1>3, <3>1, <3>3, RepublishEnds
      <3>4. QED
        BY <1>2, <3>2, <3>3
    <2>6. SoleExtraction(n)'
      BY <2>5 DEF SoleExtraction
    <2>7. Agrees(n)'
      BY <2>2, <2>3, <2>4 DEF Agrees
    <2>8. QED
      BY <2>6, <2>7
  <1>7. QED
    BY <1>1, <1>5, <1>6 DEF MailInv

LEMMA MailInvStep == BookInv /\ MailInv /\ [Next]_vars => MailInv'
  <1> SUFFICES ASSUME BookInv, MailInv, [Next]_vars PROVE MailInv'
    OBVIOUS
  <1>1. ASSUME NEW w \in Workers,
               FlushRefused(w) \/ CommitRefused(w) \/ Respond(w) \/ Abort(w)
        PROVE  MailInv'
    <2>1. Finish(w) /\ UNCHANGED <<mail, offer, overlapped>>
      BY <1>1 DEF FlushRefused, CommitRefused, Respond, Abort, dbVars, history
    <2>2. QED
      BY <2>1, EndKeepsMail
  <1>2. ASSUME NEW w \in Workers, CommitComparison(w) PROVE MailInv'
    <2> DEFINE r == [Idle EXCEPT !.op = "compare", !.step = "respond"]
    <2>1. Republish(w, NoOffer, r) /\ UNCHANGED <<mail, offer, overlapped>>
      BY <1>2 DEF CommitComparison
    <2>2. req[w].mail = None /\ r.op # "extract"
      BY <1>2, RequestTyped DEF CommitComparison, WellFormed, Idle
    <2>3. \A m \in Mails : ExtractionsKept(m)
      BY <2>1, <2>2, RepublishKeeps, OfferAssumption
    <2>4. QED
      BY <2>1, <2>3, MailKept DEF MailInv, stored
  <1>3. ASSUME NEW i \in Manuals, NEW o \in ManualOffers, AddManualOffer(i, o)
        PROVE  MailInv'
    <2>1. stored' = stored \cup {i} /\ i \notin Mails
      BY <1>3, ManualTyped
    <2>2. offer' = [offer EXCEPT ![i] = o] /\ UNCHANGED <<mail, req, overlapped>>
      BY <1>3 DEF AddManualOffer
    <2>3. \A m \in Mails : offer'[m] = offer[m] /\ ExtractionsKept(m)
      BY <2>1, <2>2 DEF BookInv, RowsInv, Ids, ExtractionsKept, Extracting
    <2>4. QED
      BY <2>1, <2>2, <2>3, MailKept DEF MailInv
  <1>4. ASSUME UNCHANGED <<mail, offer, req, overlapped>> PROVE MailInv'
    <2>1. \A m \in Mails : ExtractionsKept(m)
      BY <1>4 DEF ExtractionsKept, Extracting
    <2>2. QED
      BY <1>4, <2>1, MailKept DEF MailInv, stored
  <1>5. ASSUME NEW c \in Contacts, DeleteDealer(c) PROVE MailInv'
    BY <1>4, <1>5 DEF DeleteDealer, history
  <1>6. CASE UNCHANGED vars
    BY <1>4, <1>6 DEF vars
  <1>7. QED
    BY <1>1, <1>2, <1>3, <1>5, <1>6, BeginKeepsMail, InnerKeepsMail, CommitKeepsMail,
       WithoutKeepsMail DEF Next, Proceed, InnerStep

(* A mail that no two extractions ran on at once has an offer exactly if   *)
(* its stored result says so, with the price that repeated requests        *)
(* answer, however extractions of other mails, comparisons, refusals and   *)
(* deaths come between.                                                    *)
THEOREM ResultAlwaysMatches == Spec => []ResultMatchesOffer
  <1>1. MailInv => ResultMatchesOffer
    BY DEF MailInv, Agrees, ResultMatchesOffer
  <1>2. QED
    BY <1>1, BookInvariant, InitMailInv, MailInvStep, PTL DEF Spec

-----------------------------------------------------------------------------
(* The ranking. *)

(* An exact comparison has the full score. *)
LEMMA ExactScore ==
  ASSUME BookInv, NEW i \in stored,
         Compare(Requirements, offer[i]).category = "exact"
  PROVE  Compare(Requirements, offer[i]).score = 100
  <1> DEFINE D == DOMAIN Requirements
             a == Matches(Requirements, offer[i].features)
  <1>1. IsFiniteSet(D)
    <2>1. PICK n \in Nat : D = 1 .. n
      BY RequirementsAssumption
    <2>2. QED
      BY <2>1, FS_Interval
  <1>2. a \in [D -> MatchStatuses]
    BY DEF Matches, MatchStatus, MatchStatuses
  <1>3. Category(a) = "exact"
    BY DEF Compare
  <1> HIDE DEF a, D
  <1>4. Score(a) = 100
    BY <1>1, <1>2, <1>3, ScoreIs
  <1>5. QED
    BY <1>4 DEF Compare, a

(* What costs the least, in money or as the price that stands for none. *)
LEMMA CheapestIsLeast ==
  ASSUME NEW comparisons, NEW k,
         \A c \in comparisons : c.price \in Nat \cup {None},
         CheapestPrice(comparisons, k) \in Nat
  PROVE  \A c \in comparisons :
           k \in {"any", c.category} /\ c.price # None
             => CheapestPrice(comparisons, k) <= c.price
  <1> DEFINE P == Prices(comparisons, k)
  <1>1. P \in SUBSET Nat
    BY DEF Prices
  <1>2. CASE P = {}
    BY <1>2, NoPriceAssumption DEF CheapestPrice
  <1>3. CASE P # {}
    <2>1. CheapestPrice(comparisons, k) = Min(P) /\ \A p \in P : Min(P) <= p
      BY <1>1, <1>3, LeastNatural DEF CheapestPrice
    <2>2. \A c \in comparisons :
            k \in {"any", c.category} /\ c.price # None => c.price \in P
      BY DEF Prices
    <2>3. QED
      BY <2>1, <2>2
  <1>4. QED
    BY <1>2, <1>3

(* If no offer costs more than the price that stands for none, the         *)
(* cheapest exact offer that costs something heads the ranking.            *)
THEOREM CheapestHeads ==
  ASSUME \A p \in Prices0 \ {None} : p <= LastPrice
  PROVE  Spec => []CheapestExactHeads
  <1> DEFINE comparisons == {Compare(Requirements, offer[i]) : i \in stored}
             cheapest == CheapestPrice(comparisons, "exact")
  <1>1. ASSUME BookInv, cheapest \in Nat \ {0},
               NEW c \in comparisons, c.category = "exact", c.price = cheapest,
               NEW d \in comparisons
        PROVE  ~ RanksBefore(d, c)
    <2>1. \A e \in comparisons : e.price \in Prices0 /\ e.price \in Nat \cup {None}
      BY <1>1, PricesAreNumbers DEF BookInv, RowsInv, TablesOK, Compare
    <2>2. \A e \in comparisons : e.category = "exact" => e.score = 100
      BY <1>1, ExactScore
    <2>3. \A e \in comparisons : e.category \in Categories
      BY DEF Compare, Category, Categories
    <2>4. SortKey(c) = <<0, cheapest, - 100>>
      BY <1>1, <2>2 DEF SortKey, CategoryRank, SortPrice
    <2>5. CASE d.category = "exact"
      <3>1. SortKey(d) = <<0, SortPrice(d.price), - 100>>
        BY <2>2, <2>5 DEF SortKey, CategoryRank
      <3>2. cheapest <= LastPrice /\ LastPrice \in Nat
        <4>1. cheapest \in Prices0 \ {None} /\ LastPrice \in Nat
          BY <1>1, <2>1, NoPriceAssumption DEF LastPrice
        <4>2. QED
          BY <4>1
      <3>3. d.price # None => cheapest <= d.price
        <4> HIDE DEF comparisons
        <4>1. QED
          BY <1>1, <2>1, <2>5, CheapestIsLeast
      <3>4. cheapest <= SortPrice(d.price) /\ SortPrice(d.price) \in Nat
        BY <1>1, <2>1, <3>2, <3>3, NoPriceAssumption DEF SortPrice
      <3> HIDE DEF cheapest
      <3>5. QED
        BY <1>1, <2>4, <3>1, <3>4 DEF RanksBefore, Less
    <2>6. CASE d.category # "exact"
      <3>1. SortKey(d)[1] \in {1, 2}
        BY <2>3, <2>6 DEF SortKey, CategoryRank, Categories
      <3> HIDE DEF cheapest
      <3>2. QED
        BY <2>4, <3>1 DEF RanksBefore, Less
    <2>7. QED
      BY <2>5, <2>6
  <1>2. BookInv => CheapestExactHeads
    BY <1>1 DEF CheapestExactHeads
  <1>3. QED
    BY <1>2, BookInvariant, PTL

-----------------------------------------------------------------------------
(* The cheapest prices stored on the campaign. *)

(* A request that no commit has overtaken still has the campaign and the   *)
(* offers as they are, and what it has listed is what there is.            *)
Fresh(w) ==
  /\ req[w].step \in {"read", "flush", "load", "list", "commit"} =>
       /\ req[w].hold \notin {"changed", "gone"}
       /\ req[w].hold = "row" => req[w].price = offer[req[w].mail].price
  /\ req[w].step \in {"list", "commit"} => req[w].summary = summary
  /\ req[w].step = "list" => view[w] = Visible(w)
  /\ req[w].step = "commit" => req[w].listed = SummaryOf(Visible(w))

FreshInv == \A w \in Workers \ overtaken : Fresh(w)

LEMMA FreshKept ==
  ASSUME NEW w \in Workers, Fresh(w), req'[w] = req[w], view'[w] = view[w],
         offer' = offer, summary' = summary
  PROVE  Fresh(w)'
  BY DEF Fresh, Visible, NewOffer, Outcome, SummaryOf, stored

(* Only steps with work still to do are said anything of. *)
LEMMA SettledIsFresh ==
  ASSUME NEW w \in Workers,
         req'[w].step \notin {"read", "flush", "load", "list", "commit"}
  PROVE  Fresh(w)'
  BY DEF Fresh

(* A commit that changes offers or the summary overtakes all who have one  *)
(* still to come.                                                          *)
LEMMA OvertakingKeepsFresh ==
  ASSUME BookInv, NEW w \in Workers, NEW o, NEW r, Republish(w, o, r),
         r.step \in {"idle", "respond"}
  PROVE  FreshInv'
  <1> SUFFICES ASSUME NEW v \in Workers, v \notin overtaken'
               PROVE  Fresh(v)'
    BY DEF FreshInv
  <1>1. CASE v = w
    <2>1. req'[v] = r
      BY <1>1 DEF Republish
    <2>2. QED
      BY <2>1, SettledIsFresh
  <1>2. CASE v # w
    <2>1. req[v].step \in {"idle", "respond"}
      BY <1>2 DEF Republish, Pending
    <2>2. req'[v] = req[v] \/ req'[v] = [req[v] EXCEPT !.hold = NewHold(@, o)]
      BY <1>2 DEF Republish
    <2>3. req[v] \in Request
      BY DEF BookInv, RowsInv, TablesOK
    <2>4. req'[v].step = req[v].step
      BY <2>2, <2>3 DEF Request
    <2>5. QED
      BY <2>1, <2>4, SettledIsFresh
  <1>3. QED
    BY <1>1, <1>2

(* Steps of one request that change no offer and no summary. *)
LEMMA OwnStepKeepsFresh ==
  ASSUME BookInv, FreshInv, NEW w \in Workers,
         \E r : req' = [req EXCEPT ![w] = r],
         \A v \in Workers \ {w} : view'[v] = view[v],
         offer' = offer, summary' = summary, overtaken \subseteq overtaken' \cup {w},
         w \in overtaken' \/ Fresh(w)'
  PROVE  FreshInv'
  <1> SUFFICES ASSUME NEW v \in Workers \ {w}, v \notin overtaken'
               PROVE  Fresh(v)'
    BY DEF FreshInv
  <1>1. Fresh(v) /\ req'[v] = req[v] /\ view'[v] = view[v]
    BY DEF FreshInv, BookInv, RowsInv, TablesOK
  <1>2. QED
    BY <1>1, FreshKept

LEMMA ArriveFresh ==
  ASSUME BookInv, FreshInv, NEW w \in Workers, Arrive(w)
  PROVE  FreshInv'
  <1>1. /\ UNCHANGED dbVars /\ overtaken' = overtaken \ {w}
        /\ \A v \in Workers \ {w} : view'[v] = view[v]
    BY DEF Arrive, BeginExtract, BeginAnswer, BeginCompare, Admit, BookInv, ViewsOK
  <1>2. req \in [Workers -> Request]
    BY DEF BookInv, RowsInv, TablesOK
  <1>3. (\E r : req' = [req EXCEPT ![w] = r]) /\ Fresh(w)'
    <2>1. ASSUME NEW m \in Mails, NEW t \in Texts, BeginExtract(w, m, t)
          PROVE  (\E r : req' = [req EXCEPT ![w] = r]) /\ Fresh(w)'
      <3> DEFINE r == Loaded(m, t)
      <3>1. req' = [req EXCEPT ![w] = r]
        BY <2>1 DEF BeginExtract, Loaded
      <3>2. /\ r.step = "read" /\ r.mail = m
            /\ r.hold = IF m \in stored THEN "row" ELSE "none"
            /\ m \in stored => r.price = offer[m].price
        BY IdleTyped DEF Loaded, Request
      <3>3. req'[w] = r
        BY <1>2, <3>1
      <3> HIDE DEF r
      <3>4. Fresh(w)'
        BY <1>1, <3>2, <3>3 DEF Fresh, dbVars
      <3>5. QED
        BY <3>1, <3>4
    <2>2. ASSUME NEW m \in Mails, BeginAnswer(w, m)
          PROVE  (\E r : req' = [req EXCEPT ![w] = r]) /\ Fresh(w)'
      <3> DEFINE r == Answering("answer", m, offer[m].price)
      <3>1. req' = [req EXCEPT ![w] = r] /\ r.step = "respond"
        BY <2>2 DEF BeginAnswer, Answering, Idle
      <3> HIDE DEF r
      <3>2. req'[w].step = "respond"
        BY <1>2, <3>1
      <3>3. QED
        BY <3>1, <3>2, SettledIsFresh
    <2>3. CASE BeginCompare(w)
      <3> DEFINE r == [Idle EXCEPT !.op = "compare", !.step = "list", !.summary = summary]
      <3>1. req' = [req EXCEPT ![w] = r] /\ view' = [view EXCEPT ![w] = Visible(w)]
        BY <2>3 DEF BeginCompare
      <3>2. r.step = "list" /\ r.summary = summary /\ r.hold = "none"
        BY DEF Idle
      <3>3. req'[w] = r /\ view'[w] = Visible(w)
        BY <1>2, <3>1 DEF BookInv, ViewsOK
      <3> HIDE DEF r
      <3>4. Visible(w) = [i \in stored |-> offer[i]]
        <4>1. req[w].hold = "none"
          BY <2>3, RequestTyped DEF BeginCompare, Admit, WellFormed
        <4>2. QED
          BY <4>1 DEF Visible
      <3>5. Visible(w)' = [i \in stored |-> offer[i]]
        BY <1>1, <3>2, <3>3 DEF Visible, dbVars, stored
      <3>6. QED
        BY <1>1, <3>1, <3>2, <3>3, <3>4, <3>5 DEF Fresh, dbVars
    <2>4. QED
      BY <2>1, <2>2, <2>3 DEF Arrive
  <1>4. QED
    BY <1>1, <1>3, OwnStepKeepsFresh DEF dbVars

LEMMA ReadFresh ==
  ASSUME BookInv, FreshInv, NEW w \in Workers, ReadOffer(w)
  PROVE  FreshInv'
  <1> DEFINE m == req[w].mail
             r == OfferRead(req[w])
  <1>1. /\ req[w] \in Request /\ req \in [Workers -> Request]
        /\ req[w].step = "read"
        /\ UNCHANGED <<dbVars, view, history>>
    BY RequestTyped DEF BookInv, RowsInv, TablesOK, ReadOffer
  <1>2. req' = [req EXCEPT ![w] = r] /\ req'[w] = r
    BY <1>1, ReadOfferIs
  <1>3. /\ r.mail = m /\ r.step \in {"finish", "flush", "load"}
        /\ r.hold = IF m \in stored THEN "row" ELSE "none"
        /\ m \in stored /\ req[w].hold \notin {"row", "changed"}
             => r.price = offer[m].price
        /\ req[w].hold = "row" => r.price = req[w].price
    BY <1>1 DEF Request, OfferRead
  <1> HIDE DEF r
  <1>4. w \in overtaken' \/ Fresh(w)'
    <2>1. SUFFICES ASSUME w \notin overtaken' PROVE Fresh(w)'
      OBVIOUS
    <2>2. Fresh(w)
      BY <1>1, <2>1 DEF FreshInv, history
    <2>3. m \in stored => r.price = offer[m].price
      BY <1>1, <1>3, <2>2 DEF Fresh
    <2>4. QED
      BY <1>1, <1>2, <1>3, <2>3 DEF Fresh, dbVars
  <1>5. QED
    BY <1>1, <1>2, <1>4, OwnStepKeepsFresh DEF dbVars, history

LEMMA FlushFresh ==
  ASSUME BookInv, FreshInv, NEW w \in Workers, FlushOffer(w)
  PROVE  FreshInv'
  <1> DEFINE r == [req[w] EXCEPT !.hold = "new", !.step = "load"]
  <1>1. /\ req[w] \in Request /\ req \in [Workers -> Request]
        /\ UNCHANGED <<dbVars, view, history>>
    BY RequestTyped DEF BookInv, RowsInv, TablesOK, FlushOffer
  <1>2. req' = [req EXCEPT ![w] = r]
    BY <1>1 DEF FlushOffer, Request
  <1>3. r.hold = "new" /\ r.step = "load"
    BY <1>1 DEF Request
  <1>4. req'[w] = r
    BY <1>1, <1>2
  <1> HIDE DEF r
  <1>5. Fresh(w)'
    BY <1>3, <1>4 DEF Fresh
  <1>6. QED
    BY <1>1, <1>2, <1>5, OwnStepKeepsFresh DEF dbVars, history

(* What a request sees does not change while it goes on. *)
LEMMA SameSight ==
  ASSUME NEW w \in Workers, UNCHANGED dbVars,
         NEW r, req'[w] = r, r.hold = req[w].hold, r.mail = req[w].mail,
         r.text = req[w].text, r.matched = req[w].matched
  PROVE  Visible(w)' = Visible(w)
  BY DEF Visible, NewOffer, Outcome, dbVars, stored

LEMMA LoadFresh ==
  ASSUME BookInv, FreshInv, NEW w \in Workers, LoadCampaign(w)
  PROVE  FreshInv'
  <1> DEFINE r == [req[w] EXCEPT !.summary = summary, !.step = "list"]
  <1>1. /\ req[w] \in Request /\ req \in [Workers -> Request]
        /\ req[w].step = "load" /\ view' = [view EXCEPT ![w] = Visible(w)]
        /\ UNCHANGED <<dbVars, history>>
    BY RequestTyped DEF BookInv, RowsInv, TablesOK, LoadCampaign
  <1>2. req' = [req EXCEPT ![w] = r] /\ req'[w] = r
    BY <1>1 DEF LoadCampaign, Request
  <1>3. /\ r.summary = summary /\ r.hold = req[w].hold /\ r.mail = req[w].mail
        /\ r.price = req[w].price /\ r.text = req[w].text /\ r.matched = req[w].matched
        /\ r.step = "list"
    BY <1>1 DEF Request
  <1> HIDE DEF r
  <1>4. Visible(w)' = Visible(w)
    BY <1>1, <1>2, <1>3, SameSight
  <1>5. view'[w] = Visible(w) /\ \A v \in Workers \ {w} : view'[v] = view[v]
    BY <1>1 DEF BookInv, ViewsOK
  <1>6. w \in overtaken' \/ Fresh(w)'
    BY <1>1, <1>2, <1>3, <1>4, <1>5 DEF FreshInv, Fresh, dbVars, history
  <1>7. QED
    BY <1>1, <1>2, <1>5, <1>6, OwnStepKeepsFresh DEF dbVars, history

LEMMA ListFresh ==
  ASSUME BookInv, FreshInv, NEW w \in Workers, ListOffers(w)
  PROVE  FreshInv'
  <1> DEFINE r == [req[w] EXCEPT !.listed = SummaryOf(Listed(w)), !.step = "commit"]
  <1>1. /\ req[w] \in Request /\ req \in [Workers -> Request]
        /\ req[w].step = "list" /\ view' = [view EXCEPT ![w] = <<>>]
        /\ UNCHANGED <<dbVars, history>>
    BY RequestTyped DEF BookInv, RowsInv, TablesOK, ListOffers
  <1>2. req' = [req EXCEPT ![w] = r] /\ req'[w] = r
    BY <1>1 DEF ListOffers, Request
  <1>3. /\ r.summary = req[w].summary /\ r.hold = req[w].hold /\ r.mail = req[w].mail
        /\ r.price = req[w].price /\ r.text = req[w].text /\ r.matched = req[w].matched
        /\ r.step = "commit" /\ r.listed = SummaryOf(Listed(w))
    BY <1>1 DEF Request
  <1> HIDE DEF r
  <1>4. Visible(w)' = Visible(w)
    BY <1>1, <1>2, <1>3, SameSight
  <1>5. \A v \in Workers \ {w} : view'[v] = view[v]
    BY <1>1 DEF BookInv, ViewsOK
  <1>6. w \in overtaken' \/ Fresh(w)'
    <2>1. SUFFICES ASSUME w \notin overtaken' PROVE Fresh(w)'
      OBVIOUS
    <2>2. Fresh(w)
      BY <1>1, <2>1 DEF FreshInv, history
    <2>3. Listed(w) = Visible(w)
      BY <1>1, <2>2 DEF Fresh, Listed, Visible
    <2>4. r.listed = SummaryOf(Visible(w))'
      BY <1>3, <1>4, <2>3 DEF SummaryOf
    <2>5. QED
      BY <1>1, <1>2, <1>3, <2>2, <2>4 DEF Fresh, dbVars
  <1>7. QED
    BY <1>1, <1>2, <1>5, <1>6, OwnStepKeepsFresh DEF dbVars, history

LEMMA FreshStep == BookInv /\ FreshInv /\ [Next]_vars => FreshInv'
  <1> SUFFICES ASSUME BookInv, FreshInv, [Next]_vars PROVE FreshInv'
    OBVIOUS
  <1>1. ASSUME NEW w \in Workers, Finish(w), UNCHANGED <<offer, summary, overtaken>>,
               \A v \in Workers \ {w} : view'[v] = view[v]
        PROVE  FreshInv'
    <2>1. req' = [req EXCEPT ![w] = Idle] /\ req'[w].step = "idle"
      BY <1>1 DEF Finish, Idle, BookInv, RowsInv, TablesOK
    <2>2. QED
      BY <1>1, <2>1, SettledIsFresh, OwnStepKeepsFresh
  <1>2. ASSUME NEW w \in Workers,
               FlushRefused(w) \/ CommitRefused(w) \/ Respond(w) \/ Abort(w)
        PROVE  FreshInv'
    <2>1. /\ Finish(w) /\ UNCHANGED <<offer, summary, overtaken>>
          /\ view' = view \/ view' = [view EXCEPT ![w] = <<>>]
      BY <1>2 DEF FlushRefused, CommitRefused, Respond, Abort, dbVars, history
    <2>2. \A v \in Workers \ {w} : view'[v] = view[v]
      BY <2>1 DEF BookInv, ViewsOK
    <2>3. QED
      BY <1>1, <2>1, <2>2
  <1>3. ASSUME NEW w \in Workers, CommitExtraction(w) PROVE FreshInv'
    <2>1. PICK f \in FeaturesAfter(req[w]) :
            LET o == [price |-> PriceAfter(req[w]), features |-> f] IN
            Republish(w, o, Answering("extract", req[w].mail, o.price))
      BY <1>3 DEF CommitExtraction
    <2> DEFINE o == [price |-> PriceAfter(req[w]), features |-> f]
               r == Answering("extract", req[w].mail, o.price)
    <2>2. Republish(w, o, r) /\ r.step = "respond"
      BY <2>1 DEF Answering, Idle
    <2> HIDE DEF o, r
    <2>3. QED
      BY <2>2, OvertakingKeepsFresh
  <1>4. ASSUME NEW w \in Workers, CommitComparison(w) PROVE FreshInv'
    <2> DEFINE r == [Idle EXCEPT !.op = "compare", !.step = "respond"]
    <2>1. Republish(w, NoOffer, r) /\ r.step = "respond"
      BY <1>4 DEF CommitComparison, Idle
    <2> HIDE DEF r
    <2>2. QED
      BY <2>1, OvertakingKeepsFresh
  <1>5. ASSUME NEW w \in Workers, CommitWithoutOffer(w) PROVE FreshInv'
    <2>1. CASE req[w].hold \in {"row", "changed"}
      <3>1. \E o, r : Republish(w, o, r) /\ r.step = "idle"
        BY <1>5, <2>1 DEF CommitWithoutOffer, Idle
      <3>2. QED
        BY <3>1, OvertakingKeepsFresh
    <2>2. CASE req[w].hold \notin {"row", "changed"}
      BY <1>1, <1>5, <2>2 DEF CommitWithoutOffer
    <2>3. QED
      BY <2>1, <2>2
  <1>6. ASSUME NEW i \in Manuals, NEW o \in ManualOffers, AddManualOffer(i, o)
        PROVE  FreshInv'
    <2>1. \A v \in Workers \ overtaken' : req'[v].step \in {"idle", "respond"}
      BY <1>6 DEF AddManualOffer, Pending
    <2>2. QED
      BY <2>1, SettledIsFresh DEF FreshInv
  <1>7. ASSUME UNCHANGED <<offer, summary, req, view, overtaken>> PROVE FreshInv'
    BY <1>7, FreshKept DEF FreshInv
  <1>8. (\E c \in Contacts : DeleteDealer(c)) \/ UNCHANGED vars => FreshInv'
    BY <1>7 DEF DeleteDealer, history, vars
  <1>9. QED
    BY <1>2, <1>3, <1>4, <1>5, <1>6, <1>8, ArriveFresh, ReadFresh, FlushFresh, LoadFresh,
       ListFresh DEF Next, Proceed

(* What a request that was not overtaken commits is what it has listed. *)
LEMMA CommitsListed ==
  ASSUME BookInv, NEW w \in Workers, Fresh(w), req[w].step = "commit",
         summary' = SummaryAfter(req[w])
  PROVE  summary' = SummaryOf(Visible(w))
  <1>1. /\ req[w].listed = SummaryOf(Visible(w)) /\ req[w].summary = summary
        /\ req[w].listed \in Summaries
    BY RequestTyped DEF Fresh, WellFormed
  <1>2. summary' = req[w].listed
    BY <1>1 DEF SummaryAfter, Assign, Summaries
  <1>3. QED
    BY <1>1, <1>2

LEMMA ExtractionUpToDate ==
  ASSUME BookInv, NEW w \in Workers, Fresh(w), CommitExtraction(w)
  PROVE  summary' = Summary(Requirements, {offer'[i] : i \in stored'})
  <1> DEFINE m == req[w].mail
             rows == Visible(w)
  <1>1. /\ req[w].step = "commit" /\ req[w].op = "extract"
        /\ req[w].hold \in {"row", "new"} /\ WellFormed(req[w])
        /\ summary' = SummaryAfter(req[w])
    BY RequestTyped DEF CommitExtraction, Fresh, WellFormed, Request
  <1>2. PICK f \in FeaturesAfter(req[w]) :
          offer' = [offer EXCEPT ![m] = [price |-> PriceAfter(req[w]), features |-> f]]
    BY DEF CommitExtraction
  <1>3. [price |-> PriceAfter(req[w]), features |-> f] = NewOffer(req[w])
    BY <1>1, <1>2 DEF FeaturesAfter, PriceAfter, Assign, NewOffer, Fresh
  <1>4. m \in Mails /\ stored' = stored \cup {m}
    BY <1>1, <1>2, CommittedRow DEF CommitExtraction
  <1>5. /\ DOMAIN rows = stored'
        /\ \A i \in stored' : rows[i] = IF i = m THEN NewOffer(req[w]) ELSE offer[i]
    BY <1>1, <1>4 DEF Visible, WellFormed
  <1>6. \A i \in stored' : offer'[i] = rows[i]
    BY <1>2, <1>3, <1>4, <1>5 DEF BookInv, RowsInv, stored, Ids
  <1>7. {offer'[i] : i \in stored'} = {rows[i] : i \in DOMAIN rows}
    BY <1>5, <1>6
  <1>8. QED
    BY <1>1, <1>7, CommitsListed DEF SummaryOf

LEMMA ComparisonUpToDate ==
  ASSUME BookInv, NEW w \in Workers, Fresh(w), CommitComparison(w)
  PROVE  summary' = Summary(Requirements, {offer'[i] : i \in stored'})
  <1>1. /\ req[w].step = "commit" /\ req[w].hold = "none"
        /\ summary' = SummaryAfter(req[w]) /\ offer' = offer
    BY RequestTyped DEF CommitComparison, WellFormed
  <1>2. DOMAIN Visible(w) = stored /\ \A i \in stored : Visible(w)[i] = offer[i]
    BY <1>1 DEF Visible
  <1>3. {offer'[i] : i \in stored'} = {Visible(w)[i] : i \in DOMAIN Visible(w)}
    BY <1>1, <1>2 DEF stored
  <1>4. QED
    BY <1>1, <1>3, CommitsListed DEF SummaryOf

(* The cheapest prices a request stores are those of the offers there are  *)
(* after its commit, unless another one has changed offers in between.     *)
THEOREM SummariesUpToDate == Spec => SummaryUpToDate
  <1> DEFINE Goal(w) ==
        req[w].step = "commit" /\ req'[w].step = "respond"
          => summary' = Summary(Requirements, {offer'[i] : i \in stored'})
  <1>1. Init => FreshInv
    BY DEF Init, FreshInv, Fresh, Idle
  <1>2. ASSUME BookInv, FreshInv, Next, NEW w \in Workers \ overtaken
        PROVE  Goal(w)
    <2> SUFFICES ASSUME req[w].step = "commit", req'[w].step = "respond"
                 PROVE  summary' = Summary(Requirements, {offer'[i] : i \in stored'})
      OBVIOUS
    <2>1. Fresh(w) /\ req \in [Workers -> Request] /\ \A v \in Workers : req[v] \in Request
      BY <1>2 DEF FreshInv, BookInv, RowsInv, TablesOK
    <2>2. CASE CommitExtraction(w)
      BY <1>2, <2>1, <2>2, ExtractionUpToDate
    <2>3. CASE CommitComparison(w)
      BY <1>2, <2>1, <2>3, ComparisonUpToDate
    <2>4. ASSUME ~ CommitExtraction(w), ~ CommitComparison(w)
          PROVE  FALSE
      <3>1. ASSUME NEW v \in Workers \ {w}, NEW o, NEW r, Republish(v, o, r)
            PROVE  FALSE
        <4>1. req'[w] = req[w] \/ req'[w] = [req[w] EXCEPT !.hold = NewHold(@, o)]
          BY <3>1 DEF Republish
        <4>2. QED
          BY <2>1, <4>1 DEF Request
      <3>2. ASSUME NEW v \in Workers \ {w}, NEW r, req' = [req EXCEPT ![v] = r]
            PROVE  FALSE
        BY <2>1, <3>2
      <3>3. ASSUME NEW v \in Workers \ {w}, Arrive(v) \/ Proceed(v) \/ Abort(v)
            PROVE  FALSE
        <4>1. (\E r : req' = [req EXCEPT ![v] = r]) \/ \E o, r : Republish(v, o, r)
          BY <3>3, <2>1 DEF Arrive, BeginExtract, BeginAnswer, BeginCompare, Proceed, ReadOffer,
             FlushOffer, FlushRefused, LoadCampaign, ListOffers, CommitExtraction,
             CommitWithoutOffer, CommitRefused, CommitComparison, Respond, Abort, Finish
        <4>2. QED
          BY <3>1, <3>2, <4>1
      <3>4. ASSUME Arrive(w) \/ Proceed(w) \/ Abort(w)
            PROVE  FALSE
        BY <2>1, <2>4, <3>4 DEF Arrive, BeginExtract, BeginAnswer, BeginCompare, Admit, Proceed,
           ReadOffer, FlushOffer, FlushRefused, LoadCampaign, ListOffers,
           CommitWithoutOffer, CommitRefused, Respond, Abort, Finish, Idle
      <3>5. (\E i \in Manuals, o \in ManualOffers : AddManualOffer(i, o))
            \/ (\E c \in Contacts : DeleteDealer(c)) => FALSE
        BY DEF AddManualOffer, DeleteDealer
      <3>6. QED
        BY <1>2, <3>3, <3>4, <3>5 DEF Next
    <2>5. QED
      BY <2>2, <2>3, <2>4
  <1>3. BookInv /\ FreshInv /\ [Next]_vars => [\A w \in Workers \ overtaken : Goal(w)]_vars
    BY <1>2
  <1>4. QED
    BY <1>1, <1>3, BookInvariant, FreshStep, PTL DEF Spec, SummaryUpToDate
=============================================================================
