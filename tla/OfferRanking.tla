----------------------------- MODULE OfferRanking -----------------------------
(***************************************************************************)
(* The comparison of an offer with the campaign's requirements, its score, *)
(* the order of the ranking and the cheapest prices.                       *)
(*                                                                         *)
(* Requirements are a sequence reqs, features a function from normalised   *)
(* keys.  The score is exact for fewer than 59 requirements, above that    *)
(* the code's decimal quotients may round.                                 *)
(***************************************************************************)
EXTENDS OfferAnalysis

Categories == {"exact", "alternative", "incompatible"}

MatchStatus(r, features) ==
  IF r.key \notin DOMAIN features \/ ~ features[r.key].available
  THEN IF r.mandatory THEN "missing" ELSE "alternative"
  ELSE IF r.value = None \/ features[r.key].value = r.value THEN "exact"
  ELSE IF r.mandatory THEN "incompatible" ELSE "alternative"

Matches(reqs, features) == [i \in DOMAIN reqs |-> MatchStatus(reqs[i], features)]

(* The requirements that got one of the statuses. *)
With(matches, S) == {i \in DOMAIN matches : matches[i] \in S}

(* Only mandatory requirements are "missing" or "incompatible", only       *)
(* optional ones "alternative".                                            *)
Category(matches) ==
  IF With(matches, {"exact"}) = DOMAIN matches THEN "exact"
  ELSE IF With(matches, {"missing", "incompatible"}) # {} THEN "incompatible"
  ELSE "alternative"

AtLeast(n, lo) == IF n < lo THEN lo ELSE n
AtMost(n, hi) == IF n > hi THEN hi ELSE n

(* Mutant: no bounds on the score of an alternative. *)
ScoreUnbounded(matches) ==
  LET n == Cardinality(DOMAIN matches)
      exact == Cardinality(With(matches, {"exact"}))
      alternative == Cardinality(With(matches, {"alternative"}))
  IN CASE Category(matches) = "exact" -> 100
       [] Category(matches) = "alternative" -> (100 * exact + 20 * alternative) \div n
       [] OTHER -> (59 * exact) \div n

Score(matches) ==
  LET n == Cardinality(DOMAIN matches)
      exact == Cardinality(With(matches, {"exact"}))
      alternative == Cardinality(With(matches, {"alternative"}))
      category == Category(matches)
  IN CASE category = "exact" -> 100
       [] category = "alternative" ->
            AtMost(AtLeast((100 * exact + 20 * alternative) \div n, 60), 99)
       [] OTHER -> AtMost(AtLeast((59 * exact) \div n, 0), 59)

(* An offer is [price, features]. *)
Compare(reqs, offer) ==
  LET matches == Matches(reqs, offer.features) IN
  [category |-> Category(matches), score |-> Score(matches), price |-> offer.price]

-----------------------------------------------------------------------------
(* The ranking.                                                            *)
CategoryRank(category) ==
  CASE category = "exact" -> 0 [] category = "alternative" -> 1 [] OTHER -> 2

(* Stands for 999999999.99, the price of an offer that has none or 0. *)
LastPrice == 1000000000

(* Mutant: an offer without a price sorts as if it cost nothing. *)
SortPriceZero(price) == IF price \in Nat \ {0} THEN price ELSE 0

SortPrice(price) == IF price \in Nat \ {0} THEN price ELSE LastPrice

SortKey(c) ==
  IF c.category = "exact"
  THEN <<CategoryRank(c.category), SortPrice(c.price), - c.score>>
  ELSE <<CategoryRank(c.category), - c.score, SortPrice(c.price)>>

(* Order of tuples. *)
Less(a, b) ==
  \/ a[1] < b[1]
  \/ a[1] = b[1] /\ a[2] < b[2]
  \/ a[1] = b[1] /\ a[2] = b[2] /\ a[3] < b[3]

(* c is listed before d whatever order they are read in. *)
RanksBefore(c, d) == Less(SortKey(c), SortKey(d))

(* The prices _cheapest chooses from; "any" stands for category None. *)
Prices(comparisons, category) ==
  {c.price : c \in {d \in comparisons : /\ d.price # None
                                        /\ category \in {"any", d.category}}}

CheapestPrice(comparisons, category) ==
  IF Prices(comparisons, category) = {} THEN None
                                        ELSE Min(Prices(comparisons, category))

(* What _persist_summary stores on the campaign. *)
SummaryColumns == {"exact", "alternative", "any"}

Summary(reqs, offers) ==
  LET comparisons == {Compare(reqs, o) : o \in offers}
  IN [k \in SummaryColumns |-> CheapestPrice(comparisons, k)]
=============================================================================
