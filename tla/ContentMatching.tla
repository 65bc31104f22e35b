--------------------------- MODULE ContentMatching ---------------------------
(***************************************************************************)
(* The content match of an inbound mail: how much the text of a mail       *)
(* speaks for a dealer, and when the best candidate is accepted.           *)
(*                                                                         *)
(* What the patterns find in a mail about a dealer is a set of signs.      *)
(***************************************************************************)
EXTENDS Integers, FiniteSetsExt

CONSTANT None

Signs ==
  {"email",        \* one of the dealer's addresses: text, From line, sender
   "quoted_email", \* ... only in the quoted part
   "phone",
   "company", "quoted_company", \* the name, or a weaker match of it
   "postal_city", "street",
   "domain",       \* the dealer's mail domain, not a generic or corporate one
   "homepage",
   "corporate"}    \* an address of bmw.de or mini.de occurs

Strong(S) == {"phone", "postal_city", "street", "domain", "homepage"} \cap S

(* independent_signals *)
Signals(S) ==
  LET company == {"company", "quoted_company"} \cap S # {} IN
  Strong(S)
  \cup (IF "email" \in S THEN {"email"} ELSE {"quoted_email"} \cap S)
  \cup (IF company THEN {"company"} ELSE {})
  \cup (IF company /\ {"postal_city", "street"} \subseteq S
        THEN {"address_cluster"} ELSE {})
  \cup (IF company /\ {"postal_city", "street"} \cap S # {} /\ "corporate" \in S
        THEN {"corporate_signature"} ELSE {})

(* score of _score_candidate_for_dealer *)
MatchScore(S) ==
  LET Worth(signal, points) == IF signal \in Signals(S) THEN points ELSE 0 IN
  Worth("email", 70) + Worth("quoted_email", 55) + Worth("phone", 45)
    + (IF "company" \in S THEN 35 ELSE Worth("company", 20))
    + Worth("postal_city", 25) + Worth("street", 25) + Worth("address_cluster", 20)
    + Worth("domain", 10) + Worth("homepage", 20) + Worth("corporate_signature", 15)

(* _is_content_match_acceptable *)
Acceptable(score, signals, second) ==
  /\ score - second >= 20
  /\ score >= 70 \/ (score >= 60 /\ signals >= 2)

(* signs[d]: what speaks for candidate d.  second_score is 0 for a single  *)
(* candidate; candidates without any score do not count.                   *)
Scoring(signs) == {d \in DOMAIN signs : MatchScore(signs[d]) > 0}

Second(signs, d) ==
  Max({0} \cup {MatchScore(signs[e]) : e \in Scoring(signs) \ {d}})

Accepted(signs) ==
  {d \in Scoring(signs) :
     /\ MatchScore(signs[d]) >= Second(signs, d)
     /\ Acceptable(MatchScore(signs[d]), Cardinality(Signals(signs[d])), Second(signs, d))}

(* The accepted candidate, or none: AMBIGUOUS among several.               *)
ContentMatch(signs) ==
  IF Accepted(signs) # {}
  THEN [dealer |-> CHOOSE d \in Accepted(signs) : TRUE, status |-> "MATCHED"]
  ELSE [dealer |-> None,
        status |-> IF Cardinality(Scoring(signs)) > 1 THEN "AMBIGUOUS" ELSE "UNMATCHED"]
=============================================================================
