-------------------------- MODULE InboundMailProofs --------------------------
(***************************************************************************)
(* Proofs about InboundMail and ContentMatching: whom the content match    *)
(* accepts, type correctness of the registrations, coherence of what they  *)
(* store, and the two promises about attribution.  They hold for every set *)
(* of dealers, mails and workers, and whatever a mail may be like.         *)
(***************************************************************************)
EXTENDS InboundMail, NumberLemmas, FiniteSetTheorems, TLAPS

-----------------------------------------------------------------------------
(* The content match.                                                      *)

LEMMA NoSignsNoScore == MatchScore({}) = 0
  BY DEF MatchScore, Signals, Strong

LEMMA ScoreBounded ==
  ASSUME NEW S
  PROVE  MatchScore(S) \in 0 .. 355
  BY DEF MatchScore

(* The score a candidate has to beat is at least that of every other one,  *)
(* those without any score included.                                       *)
LEMMA SecondIsLargest ==
  ASSUME NEW D, NEW signs \in [D -> SUBSET Signs], NEW d \in D
  PROVE  /\ Second(signs, d) \in Nat
         /\ \A e \in D \ {d} : MatchScore(signs[e]) <= Second(signs, d)
  <1> DEFINE T == {0} \cup {MatchScore(signs[e]) : e \in Scoring(signs) \ {d}}
  <1>1. T \in SUBSET (0 .. 355) /\ T # {}
    BY ScoreBounded
  <1>2. Second(signs, d) = Max(T)
    BY DEF Second
  <1> HIDE DEF T
  <1>3. Max(T) \in T /\ \A y \in T : Max(T) >= y
    BY <1>1, GreatestBounded, 355 \in Nat
  <1>4. Second(signs, d) \in Nat
    <2>1. Max(T) \in 0 .. 355
      BY <1>1, <1>3
    <2>2. QED
      BY <1>2, <2>1
  <1>5. ASSUME NEW e \in D \ {d}
        PROVE  MatchScore(signs[e]) <= Second(signs, d)
    <2>1. CASE e \in Scoring(signs)
      BY <1>2, <1>3, <2>1 DEF T
    <2>2. CASE e \notin Scoring(signs)
      <3>1. ~ (MatchScore(signs[e]) > 0)
        BY <2>2 DEF Scoring
      <3>2. QED
        BY <1>4, <3>1, ScoreBounded
    <2>3. QED
      BY <2>1, <2>2
  <1>6. QED
    BY <1>4, <1>5

(* The content match accepts a dealer only with 60 points and a lead of 20 *)
(* over every other candidate; so it never has to choose between two.      *)
THEOREM ContentMatchLeads ==
  ASSUME NEW D, NEW signs \in [D -> SUBSET Signs], NEW d \in Accepted(signs)
  PROVE  /\ d \in D /\ signs[d] # {}
         /\ MatchScore(signs[d]) >= 60
         /\ \A e \in D \ {d} : MatchScore(signs[d]) >= MatchScore(signs[e]) + 20
         /\ Accepted(signs) = {d}
  <1>1. ASSUME NEW c \in Accepted(signs)
        PROVE  /\ c \in D /\ signs[c] # {}
               /\ MatchScore(signs[c]) >= 60
               /\ \A e \in D \ {c} : MatchScore(signs[c]) >= MatchScore(signs[e]) + 20
    <2>1. c \in D /\ MatchScore(signs[c]) > 0
      BY DEF Accepted, Scoring
    <2>2. Acceptable(MatchScore(signs[c]), Cardinality(Signals(signs[c])), Second(signs, c))
      BY DEF Accepted
    <2>3. /\ MatchScore(signs[c]) - Second(signs, c) >= 20
          /\ MatchScore(signs[c]) >= 70 \/ MatchScore(signs[c]) >= 60
      BY <2>2 DEF Acceptable
    <2>4. MatchScore(signs[c]) \in Nat /\ \A e \in D : MatchScore(signs[e]) \in Nat
      BY ScoreBounded
    <2>5. QED
      BY <2>1, <2>3, <2>4, SecondIsLargest, NoSignsNoScore
  <1>2. ASSUME NEW c \in Accepted(signs), c # d
        PROVE  FALSE
    <2>1. /\ MatchScore(signs[d]) >= MatchScore(signs[c]) + 20
          /\ MatchScore(signs[c]) >= MatchScore(signs[d]) + 20
      BY <1>1, <1>2
    <2>2. MatchScore(signs[c]) \in Nat /\ MatchScore(signs[d]) \in Nat
      BY ScoreBounded
    <2>3. QED
      BY <2>1, <2>2
  <1>3. QED
    BY <1>1, <1>2

(* What the content match returns: a dealer with a sign, or none. *)
LEMMA ContentMatchIs ==
  ASSUME NEW D, NEW signs \in [D -> SUBSET Signs]
  PROVE  LET best == ContentMatch(signs) IN
         /\ best.status \in {"MATCHED", "AMBIGUOUS", "UNMATCHED"}
         /\ best.status = "MATCHED" => best.dealer \in D /\ signs[best.dealer] # {}
  <1>1. CASE Accepted(signs) # {}
    BY <1>1, ContentMatchLeads DEF ContentMatch
  <1>2. CASE Accepted(signs) = {}
    BY <1>2 DEF ContentMatch
  <1>3. QED
    BY <1>1, <1>2

-----------------------------------------------------------------------------
(* Registrations.                                                          *)

(* What ties a registration to its mail: its dealer is one the mail points *)
(* at; the dealers tagged when it began and still there are tagged; and if *)
(* the mail's thread is the request of one of them, it is his once the     *)
(* thread has been looked up.                                              *)
Traced(r) ==
  /\ r.dealer # None => r.dealer \in Evidence(fact[r.message])
  /\ r.step # "idle" => r.known \cap dealers \subseteq tagged
  /\ \A d \in r.known \cap dealers :
       /\ r.step # "idle" /\ (r.step = "technical" => r.stage # 0)
       /\ fact[r.message].thread = {d}
       => r.dealer = d

(* What ties the stored mails and the registrations to what the mails say. *)
EvidenceKept ==
  /\ \A w \in Workers : Traced(req[w])
  /\ \A m \in Messages :
       mail[m] # Absent /\ mail[m].dealer # None => mail[m].dealer \in Evidence(fact[m])

(* The inductive invariant.  A registration stores the contact it has seen *)
(* or created: that it belongs to the mail, and is there, is only known    *)
(* from what each step of the registration has.                            *)
IndInv == TypeOK /\ AttributionCoherent /\ EvidenceKept

LEMMA StagesAre == 0 \in Stages /\ \A i \in 1 .. 5 : i < 5 => i \in Stages
  BY DEF Stages

LEMMA IdleIsSound == TypeOK => WellFormed(Idle) /\ Traced(Idle)
  BY StagesAre DEF Idle, WellFormed, Traced, Registration, InCampaign

LEMMA MailIs ==
  ASSUME TypeOK, NEW m \in Messages
  PROVE  /\ fact[m].thread \in SUBSET Dealers
         /\ fact[m].replyTo \in SUBSET Dealers
         /\ fact[m].references \in SUBSET Dealers
         /\ fact[m].sender \in SUBSET Dealers
         /\ fact[m].token \in BOOLEAN
         /\ fact[m].signs \in [Dealers -> SUBSET Signs]
  <1>1. IsMail(fact[m])
    BY MailAssumption DEF TypeOK
  <1>2. QED
    BY <1>1 DEF IsMail

(* Every step of a registration but its last keeps the invariant, if what  *)
(* it leaves is sound and no other transaction inserts the same contact.   *)
LEMMA RequestStep ==
  ASSUME IndInv, UNCHANGED dbVars, NEW w \in Workers,
         \E r : /\ WellFormed(r) /\ Traced(r)
                /\ r.link = "new" => ~ Inserting(w, r.dealer)
                /\ req' = [req EXCEPT ![w] = r]
  PROVE  IndInv'
  <1>1. PICK r : /\ WellFormed(r) /\ Traced(r)
                 /\ r.link = "new" => ~ Inserting(w, r.dealer)
                 /\ req' = [req EXCEPT ![w] = r]
    OBVIOUS
  <1>2. req \in [Workers -> Registration] /\ r \in Registration
    BY <1>1 DEF IndInv, TypeOK, WellFormed
  <1>3. req' \in [Workers -> Registration]
    BY <1>1, <1>2
  <1>4. req'[w] = r /\ \A v \in Workers \ {w} : req'[v] = req[v]
    BY <1>1, <1>2
  <1>5. \A v \in Workers : WellFormed(req'[v]) /\ Traced(req'[v])
    BY <1>1, <1>4 DEF IndInv, TypeOK, EvidenceKept
  <1>6. OneInserts'
    <2> SUFFICES ASSUME NEW u \in Workers, NEW v \in Workers, u # v,
                        req'[u].link = "new", req'[v].link = "new",
                        req'[u].dealer = req'[v].dealer
                 PROVE  FALSE
      BY DEF OneInserts
    <2>1. CASE u # w /\ v # w
      BY <1>4, <2>1 DEF IndInv, TypeOK, OneInserts
    <2>2. CASE u = w
      BY <1>1, <1>4, <2>2 DEF Inserting
    <2>3. CASE v = w
      BY <1>1, <1>4, <2>3 DEF Inserting
    <2>4. QED
      BY <2>1, <2>2, <2>3
  <1>7. \A v \in Workers : WellFormed(req[v])' /\ Traced(req[v])'
    BY <1>5 DEF dbVars, WellFormed, Traced, InCampaign
  <1>8. TypeOK'
    BY <1>3, <1>6, <1>7 DEF IndInv, TypeOK, dbVars
  <1>9. AttributionCoherent' /\ EvidenceKept'
    BY <1>7 DEF IndInv, AttributionCoherent, EvidenceKept, dbVars
  <1>10. QED
    BY <1>8, <1>9 DEF IndInv

(* The look-ups find contacts that are tagged or open, of dealers the mail *)
(* points at; the first one is that of the thread, the last is always made.*)
LEMMA LookupsAre ==
  ASSUME TypeOK, NEW r, r.message \in Messages
  PROVE  LET f == fact[r.message] IN
         /\ DOMAIN Lookups(r) = 1 .. 5
         /\ Lookups(r)[1].found = f.thread \cap tagged
         /\ Lookups(r)[1].asked <=> f.thread # {}
         /\ Lookups(r)[5].asked
         /\ \A i \in 1 .. 5 :
              /\ Lookups(r)[i].found \subseteq Evidence(f) \cap Dealers
              /\ Lookups(r)[i].as \in MatchingStatuses \ {"AMBIGUOUS", "UNMATCHED"}
  <1> DEFINE f == fact[r.message]
  <1>1. /\ f.thread \in SUBSET Dealers /\ f.replyTo \in SUBSET Dealers
        /\ f.references \in SUBSET Dealers /\ f.sender \in SUBSET Dealers
    BY MailIs
  <1>2. \A S \in {f.thread, f.replyTo, f.references} :
          Named(S) = S \cap tagged /\ Named(S) \subseteq Evidence(f) \cap Dealers
    BY <1>1 DEF Named, Evidence
  <1>3. OpenBySender(f) \subseteq Evidence(f) \cap Dealers
    BY <1>1 DEF OpenBySender, Evidence
  <1>4. {"MATCHED_BY_THREAD", "MATCHED_BY_REFERENCE", "MATCHED_BY_SENDER",
         "MATCHED_BY_CAMPAIGN_TOKEN"} \subseteq MatchingStatuses \ {"AMBIGUOUS", "UNMATCHED"}
    BY DEF MatchingStatuses
  <1>5. /\ Lookups(r)[1].found = Named(f.thread) /\ Lookups(r)[1].as = "MATCHED_BY_THREAD"
        /\ Lookups(r)[2].found = Named(f.replyTo) /\ Lookups(r)[2].as = "MATCHED_BY_REFERENCE"
        /\ Lookups(r)[3].found = Named(f.references)
        /\ Lookups(r)[3].as = "MATCHED_BY_REFERENCE"
        /\ Lookups(r)[4].found = OpenBySender(f)
        /\ Lookups(r)[4].as \in {"MATCHED_BY_SENDER", "MATCHED_BY_CAMPAIGN_TOKEN"}
        /\ Lookups(r)[5].found = OpenBySender(f) /\ Lookups(r)[5].as = "MATCHED_BY_SENDER"
    BY DEF Lookups
  <1>6. /\ DOMAIN Lookups(r) = 1 .. 5
        /\ Lookups(r)[5].asked = TRUE /\ Lookups(r)[1].asked = (f.thread # {})
    BY DEF Lookups
  <1>7. ASSUME NEW i \in 1 .. 5
        PROVE  /\ Lookups(r)[i].found \subseteq Evidence(f) \cap Dealers
               /\ Lookups(r)[i].as \in MatchingStatuses \ {"AMBIGUOUS", "UNMATCHED"}
    <2> HIDE DEF f
    <2>1. CASE i \in {1, 2, 3}
      BY <1>2, <1>4, <1>5, <2>1
    <2>2. CASE i \in {4, 5}
      BY <1>3, <1>4, <1>5, <2>2
    <2>3. QED
      BY <2>1, <2>2
  <1>8. QED
    BY <1>2, <1>5, <1>6, <1>7

(* There is a look-up left, and the next one is after the last. *)
LEMMA NextLookUp ==
  ASSUME TypeOK, NEW r, WellFormed(r), r.step = "technical"
  PROVE  Min(Ahead(r)) \in 1 .. 5 /\ r.stage < Min(Ahead(r))
         /\ \A i \in Ahead(r) : Min(Ahead(r)) <= i
  <1>1. r.message \in Messages /\ r.stage \in 0 .. 4
    BY DEF WellFormed, Registration, Stages
  <1>2. 5 \in Ahead(r) /\ Ahead(r) \in SUBSET Nat
    BY <1>1, LookupsAre DEF Ahead
  <1>3. Min(Ahead(r)) \in Ahead(r) /\ \A i \in Ahead(r) : Min(Ahead(r)) <= i
    BY <1>2, LeastNatural
  <1>4. QED
    BY <1>3 DEF Ahead

(* A match with a dealer the mail points at. *)
LEMMA MatchedIsSound ==
  ASSUME TypeOK, NEW r, WellFormed(r), r.step # "idle",
         r.known \cap dealers \subseteq tagged,
         NEW d \in Dealers, d \in Evidence(fact[r.message]),
         NEW as \in MatchingStatuses \ {"AMBIGUOUS", "UNMATCHED"},
         \A e \in r.known \cap dealers : fact[r.message].thread = {e} => d = e
  PROVE  LET s == Matched(r, d, as) IN
         WellFormed(s) /\ Traced(s) /\ s.link = "existing"
  <1> DEFINE replied == contact[d] = "REPLIED"
             s == [r EXCEPT !.step = "store", !.stage = 0, !.dealer = d,
                            !.link = "existing", !.replied = replied, !.matching = as]
  <1>1. Matched(r, d, as) = s /\ replied \in BOOLEAN
    BY DEF Matched
  <1>2. r \in Registration /\ r.message \in Messages
    BY DEF WellFormed
  <1> HIDE DEF replied
  <1>3. s \in Registration
    BY <1>1, <1>2, StagesAre DEF Registration
  <1>4. /\ s.step = "store" /\ s.stage = 0 /\ s.dealer = d /\ s.link = "existing"
        /\ s.matching = as /\ s.message = r.message /\ s.known = r.known
    BY <1>2 DEF Registration
  <1> HIDE DEF s
  <1>5. WellFormed(s)
    BY <1>2, <1>3, <1>4, DealersAssumption DEF WellFormed
  <1>6. Traced(s)
    BY <1>4 DEF Traced
  <1>7. QED
    BY <1>1, <1>4, <1>5, <1>6

(* No match, for a mail that is in nobody's thread. *)
LEMMA UnresolvedIsSound ==
  ASSUME TypeOK, NEW r, WellFormed(r),
         r.step \in {"technical", "contact", "dealer"},
         r.known \cap dealers \subseteq tagged,
         NEW as \in {"AMBIGUOUS", "UNMATCHED"},
         \A e \in r.known \cap dealers : fact[r.message].thread # {e}
  PROVE  LET s == Unresolved(r, as) IN
         WellFormed(s) /\ Traced(s) /\ s.link = "none"
  <1> DEFINE s == [r EXCEPT !.step = "store", !.stage = 0, !.matching = as]
  <1>1. Unresolved(r, as) = s /\ as \in MatchingStatuses
    BY DEF Unresolved, MatchingStatuses
  <1>2. r \in Registration /\ r.message \in Messages /\ r.dealer = None
        /\ r.link = "none" /\ ~ r.replied
    BY DEF WellFormed
  <1>3. s \in Registration
    BY <1>1, <1>2, StagesAre DEF Registration
  <1>4. /\ s.step = "store" /\ s.stage = 0 /\ s.dealer = None /\ s.link = "none"
        /\ s.matching = as /\ s.message = r.message /\ s.known = r.known
        /\ ~ s.replied
    BY <1>2 DEF Registration
  <1> HIDE DEF s
  <1>5. WellFormed(s)
    BY <1>1, <1>2, <1>3, <1>4 DEF WellFormed
  <1>6. Traced(s)
    BY <1>4 DEF Traced
  <1>7. QED
    BY <1>1, <1>4, <1>5, <1>6

LEMMA BeginRegisterKeeps ==
  ASSUME IndInv, NEW w \in Workers, NEW m \in Messages, BeginRegister(w, m)
  PROVE  IndInv'
  <1> DEFINE r == [Idle EXCEPT !.step = "technical", !.message = m,
                               !.auto = relevant,
                               !.known = fact[m].thread \cap tagged]
  <1> DEFINE known == fact[m].thread \cap tagged
  <1>a. known \in SUBSET Dealers /\ known \subseteq tagged /\ relevant \in BOOLEAN
    BY MailIs DEF IndInv, TypeOK
  <1>b. r = [Idle EXCEPT !.step = "technical", !.message = m, !.auto = relevant,
                         !.known = known]
    OBVIOUS
  <1> HIDE DEF known, r
  <1>1. r \in Registration
    BY <1>a, <1>b, StagesAre DEF Idle, Registration
  <1>2. WellFormed(r) /\ Traced(r) /\ r.link = "none"
    BY <1>a, <1>b, <1>1 DEF Idle, WellFormed, Traced
  <1>3. req' = [req EXCEPT ![w] = r] /\ UNCHANGED dbVars
    BY DEF BeginRegister, r
  <1>4. QED
    BY <1>2, <1>3, RequestStep

(* A mail in the thread of a request whose dealer is known to the          *)
(* registration and still there is matched with him, by the first look-up. *)
LEMMA ThreadFirst ==
  ASSUME TypeOK, NEW r, WellFormed(r), r.step = "technical", r.stage = 0,
         NEW d \in tagged, fact[r.message].thread = {d}
  PROVE  Min(Ahead(r)) = 1 /\ Lookups(r)[1].found = {d}
  <1>1. r.message \in Messages
    BY DEF WellFormed
  <1>2. Lookups(r)[1].found = {d} /\ Lookups(r)[1].asked
    BY <1>1, LookupsAre
  <1>3. 1 \in Ahead(r)
    BY <1>2 DEF Ahead
  <1>4. QED
    BY <1>2, <1>3, NextLookUp

(* After a look-up that finds nothing the next one is made, or the content *)
(* is asked, or the mail stays without a dealer.                           *)
LEMMA NothingFoundIsSound ==
  ASSUME TypeOK, NEW r, WellFormed(r), r.step = "technical",
         r.known \cap dealers \subseteq tagged, NEW i \in 1 .. 5, r.stage < i,
         \A e \in r.known \cap dealers : fact[r.message].thread # {e}
  PROVE  LET s == NothingFound(r, i) IN
         WellFormed(s) /\ Traced(s) /\ s.link = "none"
  <1>1. r \in Registration /\ r.message \in Messages /\ r.dealer = None
        /\ r.link = "none"
    BY DEF WellFormed
  <1>2. CASE i < 5
    <2> DEFINE s == [r EXCEPT !.stage = i]
    <2>1. NothingFound(r, i) = s
      BY <1>2 DEF NothingFound
    <2>2. s \in Registration
      BY <1>1, <1>2, StagesAre DEF Registration
    <2>3. WellFormed(s) /\ s.link = "none"
      BY <1>1, <2>2 DEF WellFormed, Registration, InCampaign
    <2>4. Traced(s)
      BY <1>1, <2>2 DEF Traced, Registration
    <2>5. QED
      BY <2>1, <2>3, <2>4
  <1>3. CASE i = 5 /\ InCampaign(r)
    <2> DEFINE s == [r EXCEPT !.step = "contact", !.stage = 0]
    <2>1. NothingFound(r, i) = s
      BY <1>3 DEF NothingFound
    <2>2. s \in Registration
      BY <1>1, StagesAre DEF Registration
    <2>3. WellFormed(s) /\ s.link = "none"
      BY <1>1, <1>3, <2>2 DEF WellFormed, Registration, InCampaign
    <2>4. Traced(s)
      BY <1>1, <2>2 DEF Traced, Registration
    <2>5. QED
      BY <2>1, <2>3, <2>4
  <1>4. CASE i = 5 /\ ~ InCampaign(r)
    <2>1. NothingFound(r, i) = Unresolved(r, "UNMATCHED")
      BY <1>4 DEF NothingFound
    <2>2. QED
      BY <2>1, UnresolvedIsSound
  <1>5. QED
    BY <1>2, <1>3, <1>4

LEMMA LookUpKeeps ==
  ASSUME IndInv, NEW w \in Workers, LookUp(w)
  PROVE  IndInv'
  <1> DEFINE r == req[w]
             i == Min(Ahead(r))
             hit == Lookups(r)[i]
             d == CHOOSE e \in hit.found : TRUE
  <1>1. TypeOK /\ UNCHANGED dbVars /\ r.step = "technical"
        /\ req \in [Workers -> Registration]
    BY DEF IndInv, LookUp, TypeOK
  <1>2. WellFormed(r) /\ Traced(r) /\ r.message \in Messages
        /\ r.known \cap dealers \subseteq tagged
    BY <1>1 DEF IndInv, TypeOK, EvidenceKept, Traced, WellFormed
  <1>3. i \in 1 .. 5 /\ r.stage < i
    BY <1>1, <1>2, NextLookUp
  <1>4. /\ hit.found \subseteq Evidence(fact[r.message]) \cap Dealers
        /\ hit.as \in MatchingStatuses \ {"AMBIGUOUS", "UNMATCHED"}
    BY <1>1, <1>2, <1>3, LookupsAre
  <1>5. ASSUME NEW e \in r.known \cap dealers, fact[r.message].thread = {e}
        PROVE  hit.found = {e}
    <2>1. r.stage = 0
      <3>1. r.dealer = None /\ e # None
        BY <1>1, <1>2, DealersAssumption DEF WellFormed, TypeOK
      <3>2. QED
        BY <1>1, <1>2, <1>5, <3>1 DEF Traced
    <2>2. QED
      BY <1>1, <1>2, <1>5, <2>1, ThreadFirst
  <1> HIDE DEF i
  <1>6. CASE hit.found = {}
    <2>1. req' = [req EXCEPT ![w] = NothingFound(r, i)]
      BY <1>1, <1>6 DEF LookUp, i
    <2>2. \A e \in r.known \cap dealers : fact[r.message].thread # {e}
      BY <1>5, <1>6
    <2> HIDE DEF r
    <2>3. WellFormed(NothingFound(r, i)) /\ Traced(NothingFound(r, i))
          /\ NothingFound(r, i).link = "none"
      BY <1>1, <1>2, <1>3, <2>2, NothingFoundIsSound
    <2>4. QED
      BY <1>1, <2>1, <2>3, RequestStep
  <1>7. CASE hit.found # {} /\ Cardinality(hit.found) > 1
    <2>1. req' = [req EXCEPT ![w] = Unresolved(r, "AMBIGUOUS")]
      BY <1>1, <1>7 DEF LookUp, i
    <2>2. \A e \in r.known \cap dealers : fact[r.message].thread # {e}
      <3>1. \A e : Cardinality({e}) = 1
        BY FS_Singleton
      <3> DEFINE F == hit.found
      <3>a. Cardinality(F) > 1
        BY <1>7
      <3> HIDE DEF F
      <3>b. \A e : F # {e}
        BY <3>1, <3>a
      <3>2. \A e : hit.found # {e}
        BY <3>b DEF F
      <3>3. QED
        BY <1>5, <3>2
    <2>3. QED
      BY <1>1, <1>2, <2>1, <2>2, UnresolvedIsSound, RequestStep
  <1>8. CASE hit.found # {} /\ ~ (Cardinality(hit.found) > 1)
    <2>1. req' = [req EXCEPT ![w] = Matched(r, d, hit.as)]
      BY <1>1, <1>8 DEF LookUp, i
    <2>2. /\ d \in Dealers /\ d \in Evidence(fact[r.message]) /\ r.step # "idle"
          /\ \A e \in r.known \cap dealers : fact[r.message].thread = {e} => d = e
      BY <1>1, <1>4, <1>5, <1>8
    <2>3. WellFormed(Matched(r, d, hit.as)) /\ Traced(Matched(r, d, hit.as))
          /\ Matched(r, d, hit.as).link = "existing"
      <3> HIDE DEF r, hit, d
      <3>1. QED
        BY <1>1, <1>2, <1>4, <2>2, MatchedIsSound
    <2>4. QED
      BY <1>1, <2>1, <2>3, RequestStep
  <1>9. QED
    BY <1>6, <1>7, <1>8

(* The content match is only asked about mails in nobody's thread, and     *)
(* names a dealer the mail says something about.                           *)
LEMMA AskedByContent ==
  ASSUME IndInv, NEW w \in Workers, req[w].step \in {"contact", "dealer"},
         NEW S \in SUBSET Dealers
  PROVE  LET r == req[w]
             best == ContentMatch(SignsOf(r, S)) IN
         /\ TypeOK /\ WellFormed(r)
         /\ r.known \cap dealers \subseteq tagged
         /\ \A e \in r.known \cap dealers : fact[r.message].thread # {e}
         /\ best.status \in {"MATCHED", "AMBIGUOUS", "UNMATCHED"}
         /\ best.status = "MATCHED" =>
              best.dealer \in S /\ best.dealer \in Evidence(fact[r.message])
  <1> DEFINE r == req[w]
             signs == SignsOf(r, S)
  <1>1. TypeOK /\ WellFormed(r) /\ Traced(r)
    BY DEF IndInv, TypeOK, EvidenceKept
  <1>2. r.message \in Messages /\ r.dealer = None
    BY <1>1 DEF WellFormed
  <1>3. \A e \in r.known \cap dealers : fact[r.message].thread # {e}
    BY <1>1, <1>2, DealersAssumption DEF Traced, TypeOK
  <1>4. signs \in [S -> SUBSET Signs]
        /\ \A d \in S : signs[d] = fact[r.message].signs[d]
    BY <1>1, <1>2, MailIs DEF SignsOf
  <1>5. LET best == ContentMatch(signs) IN
        /\ best.status \in {"MATCHED", "AMBIGUOUS", "UNMATCHED"}
        /\ best.status = "MATCHED" => best.dealer \in S /\ signs[best.dealer] # {}
    <2> HIDE DEF signs
    <2>1. QED
      BY <1>4, ContentMatchIs
  <1>6. ASSUME NEW d \in S, signs[d] # {}
        PROVE  d \in Evidence(fact[r.message])
    BY <1>4, <1>6 DEF Evidence
  <1>7. QED
    BY <1>1, <1>3, <1>5, <1>6 DEF Traced

LEMMA MatchContactKeeps ==
  ASSUME IndInv, NEW w \in Workers, MatchContact(w)
  PROVE  IndInv'
  <1> DEFINE r == req[w]
             best == ContentMatch(SignsOf(r, Open))
  <1>1. UNCHANGED dbVars /\ r.step = "contact" /\ req \in [Workers -> Registration]
    BY DEF MatchContact, IndInv, TypeOK
  <1>2. /\ TypeOK /\ WellFormed(r)
        /\ r.known \cap dealers \subseteq tagged
        /\ \A e \in r.known \cap dealers : fact[r.message].thread # {e}
        /\ best.status \in {"MATCHED", "AMBIGUOUS", "UNMATCHED"}
        /\ best.status = "MATCHED" =>
             best.dealer \in Dealers /\ best.dealer \in Evidence(fact[r.message])
    <2>1. Open \in SUBSET Dealers
      BY DEF Open, IndInv, TypeOK
    <2>2. QED
      BY <1>1, <2>1, AskedByContent
  <1>3. CASE best.status = "MATCHED"
    <2>1. req' = [req EXCEPT ![w] = Matched(r, best.dealer, "MATCHED")]
      BY <1>1, <1>3 DEF MatchContact
    <2>2. WellFormed(Matched(r, best.dealer, "MATCHED"))
          /\ Traced(Matched(r, best.dealer, "MATCHED"))
          /\ Matched(r, best.dealer, "MATCHED").link = "existing"
      <3>1. r.step # "idle"
            /\ "MATCHED" \in MatchingStatuses \ {"AMBIGUOUS", "UNMATCHED"}
        BY <1>1 DEF MatchingStatuses
      <3> HIDE DEF r, best
      <3>2. QED
        BY <1>2, <1>3, <3>1, MatchedIsSound
    <2>3. QED
      BY <1>1, <2>1, <2>2, RequestStep
  <1>4. CASE best.status = "AMBIGUOUS"
    <2>1. req' = [req EXCEPT ![w] = Unresolved(r, "AMBIGUOUS")]
      BY <1>1, <1>4 DEF MatchContact
    <2>2. QED
      BY <1>1, <1>2, <2>1, UnresolvedIsSound, RequestStep
  <1>5. CASE best.status = "UNMATCHED"
    <2> DEFINE s == [r EXCEPT !.step = "dealer"]
    <2>1. req' = [req EXCEPT ![w] = s]
      BY <1>1, <1>5 DEF MatchContact
    <2>2. s \in Registration
      BY <1>2 DEF WellFormed, Registration
    <2>3. WellFormed(s) /\ s.link = "none"
      BY <1>1, <1>2, <2>2 DEF WellFormed, Registration, InCampaign
    <2>4. Traced(s)
      BY <1>1, <1>2, <2>2 DEF WellFormed, Registration, Traced
    <2>5. QED
      BY <1>1, <2>1, <2>3, <2>4, RequestStep
  <1>6. QED
    BY <1>2, <1>3, <1>4, <1>5

LEMMA MatchDealerKeeps ==
  ASSUME IndInv, NEW w \in Workers, MatchDealer(w)
  PROVE  IndInv'
  <1> DEFINE r == req[w]
             best == ContentMatch(SignsOf(r, dealers \ Open))
  <1>1. UNCHANGED dbVars /\ r.step = "dealer" /\ req \in [Workers -> Registration]
    BY DEF MatchDealer, IndInv, TypeOK
  <1>2. /\ TypeOK /\ WellFormed(r)
        /\ r.known \cap dealers \subseteq tagged
        /\ \A e \in r.known \cap dealers : fact[r.message].thread # {e}
        /\ best.status \in {"MATCHED", "AMBIGUOUS", "UNMATCHED"}
        /\ best.status = "MATCHED" =>
             best.dealer \in Dealers /\ best.dealer \in Evidence(fact[r.message])
    <2>1. dealers \ Open \in SUBSET Dealers
      BY DEF IndInv, TypeOK
    <2>2. QED
      BY <1>1, <2>1, AskedByContent
  <1>3. CASE best.status = "MATCHED"
    <2> DEFINE s == [r EXCEPT !.step = "ensure", !.dealer = best.dealer,
                              !.matching = "MATCHED_BY_DEALER_DB"]
    <2>1. req' = [req EXCEPT ![w] = s]
      BY <1>1, <1>3 DEF MatchDealer
    <2>2. s \in Registration /\ s.dealer = best.dealer
      BY <1>2, <1>3 DEF WellFormed, Registration, MatchingStatuses
    <2>3. WellFormed(s) /\ s.link = "none"
      BY <1>1, <1>2, <1>3, <2>2 DEF WellFormed, Registration, InCampaign
    <2>4. Traced(s)
      BY <1>1, <1>2, <1>3, <2>2 DEF WellFormed, Registration, Traced
    <2>5. QED
      BY <1>1, <2>1, <2>3, <2>4, RequestStep
  <1>4. CASE best.status # "MATCHED"
    <2>1. req' = [req EXCEPT ![w] = Unresolved(r, best.status)]
      BY <1>1, <1>4 DEF MatchDealer
    <2>2. best.status \in {"AMBIGUOUS", "UNMATCHED"}
      BY <1>2, <1>4
    <2> HIDE DEF best
    <2>3. QED
      BY <1>1, <1>2, <2>1, <2>2, UnresolvedIsSound, RequestStep
  <1>5. QED
    BY <1>3, <1>4

LEMMA EnsureKeeps ==
  ASSUME IndInv, NEW w \in Workers, Ensure(w)
  PROVE  IndInv'
  <1> DEFINE r == req[w]
  <1>1. /\ UNCHANGED dbVars /\ r.step = "ensure" /\ req \in [Workers -> Registration]
        /\ TypeOK /\ WellFormed(r) /\ Traced(r)
    BY DEF Ensure, IndInv, TypeOK, EvidenceKept
  <1>2. /\ r.link = "none" /\ r.dealer \in Dealers
        /\ r.matching = "MATCHED_BY_DEALER_DB"
    BY <1>1 DEF WellFormed
  <1>3. CASE contact[r.dealer] # Absent
    <2>1. req' = [req EXCEPT ![w] = Matched(r, r.dealer, r.matching)]
      BY <1>1, <1>3 DEF Ensure
    <2>2. WellFormed(Matched(r, r.dealer, r.matching))
          /\ Traced(Matched(r, r.dealer, r.matching))
          /\ Matched(r, r.dealer, r.matching).link = "existing"
      <3>1. /\ r.dealer \in Evidence(fact[r.message])
            /\ r.matching \in MatchingStatuses \ {"AMBIGUOUS", "UNMATCHED"}
            /\ r.known \cap dealers \subseteq tagged /\ r.step # "idle"
            /\ \A e \in r.known \cap dealers : fact[r.message].thread = {e} => r.dealer = e
        BY <1>1, <1>2, DealersAssumption DEF Traced, MatchingStatuses
      <3>2. QED
        BY <1>1, <1>2, <3>1, MatchedIsSound
    <2>3. QED
      BY <1>1, <2>1, <2>2, RequestStep
  <1>4. CASE contact[r.dealer] = Absent
    <2> DEFINE s == [r EXCEPT !.step = "insert"]
    <2>1. req' = [req EXCEPT ![w] = s]
      BY <1>1, <1>4 DEF Ensure
    <2>2. s \in Registration
      BY <1>1 DEF WellFormed, Registration
    <2>3. WellFormed(s) /\ s.link = "none"
      BY <1>1, <1>2, <2>2 DEF WellFormed, Registration, InCampaign
    <2>4. Traced(s)
      BY <1>1, <2>2 DEF WellFormed, Registration, Traced
    <2>5. QED
      BY <1>1, <2>1, <2>3, <2>4, RequestStep
  <1>5. QED
    BY <1>3, <1>4

LEMMA InsertContactKeeps ==
  ASSUME IndInv, NEW w \in Workers, InsertContact(w)
  PROVE  IndInv'
  <1> DEFINE r == req[w]
             s == [r EXCEPT !.step = "store", !.link = "new"]
  <1>1. /\ UNCHANGED dbVars /\ r.step = "insert" /\ req \in [Workers -> Registration]
        /\ TypeOK /\ WellFormed(r) /\ Traced(r)
        /\ ~ Inserting(w, r.dealer)
        /\ r.dealer \in dealers /\ contact[r.dealer] = Absent
    BY DEF InsertContact, IndInv, TypeOK, EvidenceKept
  <1>2. req' = [req EXCEPT ![w] = s]
    BY <1>1 DEF InsertContact
  <1>3. s \in Registration
    BY <1>1 DEF WellFormed, Registration, ContactStatuses, OpenStatuses
  <1>4. WellFormed(s)
    BY <1>1, <1>3, DealersAssumption
      DEF WellFormed, Registration, MatchingStatuses, TypeOK
  <1>5. Traced(s) /\ s.dealer = r.dealer
    BY <1>1, <1>3 DEF WellFormed, Registration, Traced
  <1>6. QED
    BY <1>1, <1>2, <1>4, <1>5, RequestStep

(* A registration that ends without storing anything. *)
LEMMA FinishKeeps ==
  ASSUME IndInv, NEW w \in Workers, Finish(w), UNCHANGED dbVars
  PROVE  IndInv'
  <1>1. WellFormed(Idle) /\ Traced(Idle) /\ Idle.link = "none"
    BY IdleIsSound DEF IndInv, Idle
  <1>2. QED
    BY <1>1, RequestStep DEF Finish

(* The row of a registration that is stored. *)
LEMMA RowIs ==
  ASSUME NEW r, WellFormed(r), r.step = "store"
  PROVE  /\ Row(r) \in MailRow
         /\ Row(r).dealer = r.dealer
         /\ Row(r).contact <=> r.dealer # None
         /\ r.dealer # None => Row(r).campaign
         /\ Row(r).campaign /\ r.dealer = None => InCampaign(r)
         /\ Row(r).processing = "REGISTERED" /\ r.dealer = None =>
              ~ r.auto /\ Row(r).matching = "AMBIGUOUS"
  <1>1. /\ r \in Registration /\ r.matching \in MatchingStatuses
        /\ r.link = "none" <=> r.dealer = None
        /\ r.dealer = None <=> r.matching \in {"AMBIGUOUS", "UNMATCHED"}
    BY DEF WellFormed
  <1>2. (r.link # "none" \/ InCampaign(r)) \in BOOLEAN /\ (r.link # "none") \in BOOLEAN
    BY DEF InCampaign
  <1>3. /\ Statuses(r).matching \in (MatchingStatuses \ {"UNMATCHED"})
                                      \cup {"NEEDS_DEALER_ASSIGNMENT", "NO_CAMPAIGN"}
        /\ Statuses(r).processing \in {"REGISTERED", "NEEDS_REVIEW"}
        /\ Statuses(r).processing = "REGISTERED" /\ r.dealer = None =>
             ~ r.auto /\ Statuses(r).matching = "AMBIGUOUS"
    BY <1>1 DEF Statuses, Registration, MatchingStatuses
  <1>4. r.dealer \in Dealers \cup {None}
    BY <1>1 DEF Registration
  <1>5. Row(r) \in MailRow
    BY <1>2, <1>3, <1>4 DEF Row, MailRow
  <1>6. QED
    BY <1>1, <1>3, <1>5 DEF Row

(* What storing a registration does to the contacts: only that of its      *)
(* dealer changes, and it is there afterwards.                             *)
LEMMA StoredContact ==
  ASSUME TypeOK, NEW w \in Workers, Store(w)
  PROVE  /\ contact' \in [Dealers -> ContactStatuses \cup {Absent}]
         /\ \A d \in Dealers : \/ contact'[d] = contact[d]
                               \/ d = req[w].dealer /\ contact'[d] # Absent
         /\ req[w].dealer # None =>
              /\ req[w].dealer \in dealers
              /\ contact'[req[w].dealer] # Absent
  <1> DEFINE r == req[w]
  <1>1. /\ WellFormed(r) /\ r.step = "store"
        /\ r.link = "existing" => contact[r.dealer] # Absent
        /\ contact' = IF r.link = "none" THEN contact ELSE ContactAfter(r)
    BY DEF Store, TypeOK
  <1>2. /\ r.link = "none" <=> r.dealer = None
        /\ r.link \in {"none", "existing", "new"}
        /\ r.dealer \in Dealers \cup {None}
        /\ r.link = "new" => r.dealer \in dealers
        /\ r.replied => r.link = "existing"
    BY <1>1 DEF WellFormed, Registration
  <1>3. /\ contact \in [Dealers -> ContactStatuses \cup {Absent}]
        /\ \A d \in Dealers \ dealers : contact[d] = Absent
        /\ dealers \subseteq Dealers
        /\ "REPLIED" \in ContactStatuses /\ "REPLIED" # Absent
    BY AbsentAssumption DEF TypeOK, ContactStatuses, OpenStatuses
  <1>4. CASE r.link = "none"
    BY <1>1, <1>2, <1>3, <1>4
  <1>5. CASE r.link # "none"
    <2>1. r.dealer \in dealers /\ r.dealer \in Dealers /\ r.dealer # None
      BY <1>1, <1>2, <1>3, <1>5
    <2>2. contact' = [contact EXCEPT ![r.dealer] =
                        IF r.replied THEN @ ELSE "REPLIED"]
      BY <1>1, <1>5 DEF ContactAfter
    <2>3. contact'[r.dealer] \in ContactStatuses /\ contact'[r.dealer] # Absent
      <3>1. CASE r.replied
        <4>1. contact[r.dealer] # Absent
          BY <1>1, <1>2, <3>1
        <4>2. contact'[r.dealer] = contact[r.dealer]
          BY <1>3, <2>1, <2>2, <3>1
        <4>3. QED
          BY <1>3, <2>1, <4>1, <4>2
      <3>2. CASE ~ r.replied
        BY <1>3, <2>1, <2>2, <3>2
      <3>3. QED
        BY <3>1, <3>2
    <2>4. QED
      BY <1>3, <2>1, <2>2, <2>3
  <1>6. QED
    BY <1>4, <1>5

LEMMA StoreKeeps ==
  ASSUME IndInv, NEW w \in Workers, Store(w)
  PROVE  IndInv'
  <1> DEFINE r == req[w]
             m == r.message
  <1>1. /\ TypeOK /\ WellFormed(r) /\ Traced(r) /\ r.step = "store" /\ m \in Messages
        /\ mail' = [mail EXCEPT ![m] = Row(r)]
        /\ req' = [req EXCEPT ![w] = Idle]
        /\ UNCHANGED <<relevant, dealers, addressed, tagged, fact>>
    BY DEF Store, IndInv, TypeOK, EvidenceKept, WellFormed, Finish
  <1>2. /\ contact' \in [Dealers -> ContactStatuses \cup {Absent}]
        /\ \A d \in Dealers : \/ contact'[d] = contact[d]
                              \/ d = r.dealer /\ contact'[d] # Absent
        /\ r.dealer # None => r.dealer \in dealers /\ contact'[r.dealer] # Absent
    BY <1>1, StoredContact
  <1>3. Row(r) \in MailRow /\ mail' \in [Messages -> MailRow \cup {Absent}]
    BY <1>1, RowIs DEF TypeOK
  <1>4. WellFormed(Idle) /\ Traced(Idle) /\ Idle.link = "none" /\ Idle \in Registration
    BY <1>1, IdleIsSound DEF Idle, WellFormed
  <1>5. req'[w] = Idle /\ \A v \in Workers \ {w} : req'[v] = req[v]
    BY <1>1 DEF TypeOK
  <1>6. ASSUME NEW v \in Workers \ {w}, req[v].link = "new"
        PROVE  req[v].dealer \in dealers' /\ contact'[req[v].dealer] = Absent
    <2>1. /\ req[v].dealer \in dealers /\ req[v].dealer \in Dealers
          /\ contact[req[v].dealer] = Absent
      BY <1>1, <1>6 DEF TypeOK, WellFormed
    <2>2. req[v].dealer # r.dealer
      <3>1. CASE r.link = "new"
        BY <1>1, <1>6, <3>1 DEF TypeOK, OneInserts
      <3>2. CASE r.link = "existing"
        BY <2>1, <3>2 DEF Store
      <3>3. CASE r.link = "none"
        BY <1>1, <2>1, <3>3, DealersAssumption DEF WellFormed
      <3>4. QED
        BY <1>1, <3>1, <3>2, <3>3 DEF WellFormed, Registration
    <2>3. QED
      BY <1>1, <1>2, <2>1, <2>2
  <1>7. \A v \in Workers : WellFormed(req[v])' /\ Traced(req[v])'
    <2> TAKE v \in Workers
    <2>1. CASE v = w
      BY <1>4, <1>5, <2>1 DEF WellFormed, Traced, Idle
    <2>2. CASE v # w
      <3>1. WellFormed(req[v]) /\ Traced(req[v])
        BY <1>1 DEF IndInv, TypeOK, EvidenceKept
      <3>2. QED
        BY <1>1, <1>5, <1>6, <2>2, <3>1 DEF WellFormed, Traced, InCampaign
    <2>3. QED
      BY <2>1, <2>2
  <1>8. TypeOK'
    <2>1. req' \in [Workers -> Registration]
      BY <1>1, <1>4 DEF TypeOK
    <2>2. OneInserts'
      BY <1>1, <1>4, <1>5 DEF TypeOK, OneInserts
    <2>3. \A d \in Dealers \ dealers' : contact'[d] = Absent
      BY <1>1, <1>2, DealersAssumption DEF TypeOK
    <2>4. QED
      BY <1>1, <1>2, <1>3, <1>7, <2>1, <2>2, <2>3 DEF TypeOK
  <1>9. \A n \in Messages : mail'[n] = IF n = m THEN Row(r) ELSE mail[n]
    BY <1>1 DEF TypeOK
  <1>10. AttributionCoherent'
    <2> SUFFICES ASSUME NEW n \in Messages, mail'[n] # Absent
                 PROVE  /\ mail'[n].contact <=> mail'[n].dealer # None
                        /\ mail'[n].dealer # None =>
                             /\ mail'[n].campaign
                             /\ mail'[n].dealer \in dealers'
                             /\ contact'[mail'[n].dealer] # Absent
      BY DEF AttributionCoherent
    <2>1. CASE n = m
      BY <1>1, <1>2, <1>9, <2>1, RowIs
    <2>2. CASE n # m
      <3>1. /\ mail[n].contact <=> mail[n].dealer # None
            /\ mail[n].dealer # None => /\ mail[n].campaign
                                        /\ mail[n].dealer \in dealers
                                        /\ contact[mail[n].dealer] # Absent
        BY <1>9, <2>2 DEF IndInv, AttributionCoherent
      <3>2. QED
        BY <1>1, <1>2, <1>9, <2>2, <3>1 DEF TypeOK
    <2>3. QED
      BY <2>1, <2>2
  <1>11. EvidenceKept'
    <2>1. Row(r).dealer # None => Row(r).dealer \in Evidence(fact[m])
      BY <1>1, RowIs DEF Traced
    <2>2. \A n \in Messages :
            mail'[n] # Absent /\ mail'[n].dealer # None => mail'[n].dealer \in Evidence(fact[n])
      BY <1>9, <2>1 DEF IndInv, EvidenceKept
    <2>3. QED
      BY <1>1, <1>7, <2>2 DEF EvidenceKept
  <1>12. QED
    BY <1>8, <1>10, <1>11 DEF IndInv

-----------------------------------------------------------------------------
(* What else happens to the campaign.                                      *)

(* Contacts get another status and mails another processing status, but    *)
(* none of them comes or goes.                                             *)
LEMMA StatusesKeep ==
  ASSUME IndInv,
         contact' \in [Dealers -> ContactStatuses \cup {Absent}],
         \A d \in Dealers : contact'[d] = Absent <=> contact[d] = Absent,
         mail' \in [Messages -> MailRow \cup {Absent}],
         \A m \in Messages : mail'[m] # Absent =>
           /\ mail[m] # Absent
           /\ mail'[m].dealer = mail[m].dealer /\ mail'[m].contact = mail[m].contact
           /\ mail'[m].campaign = mail[m].campaign,
         relevant' \in BOOLEAN, tagged \subseteq tagged', tagged' \subseteq dealers,
         UNCHANGED <<dealers, addressed, fact, req>>
  PROVE  IndInv'
  <1>1. dealers \subseteq Dealers
    BY DEF IndInv, TypeOK
  <1>2. \A w \in Workers : WellFormed(req[w])' /\ Traced(req[w])'
    <2> TAKE w \in Workers
    <2>1. WellFormed(req[w]) /\ Traced(req[w])
      BY DEF IndInv, TypeOK, EvidenceKept
    <2>2. req[w].link = "new" => req[w].dealer \in Dealers
      BY <1>1, <2>1 DEF WellFormed
    <2>3. QED
      BY <2>1, <2>2 DEF WellFormed, Traced, InCampaign
  <1>3. TypeOK'
    BY <1>1, <1>2 DEF IndInv, TypeOK, OneInserts
  <1>4. AttributionCoherent'
    BY <1>1 DEF IndInv, AttributionCoherent
  <1>5. EvidenceKept'
    BY <1>2 DEF IndInv, EvidenceKept
  <1>6. QED
    BY <1>3, <1>4, <1>5 DEF IndInv

(* Another status for a contact that is there. *)
LEMMA StatusIs ==
  ASSUME TypeOK, NEW d \in Dealers, contact[d] # Absent, NEW status \in ContactStatuses
  PROVE  LET after == [contact EXCEPT ![d] = status] IN
         /\ d \in dealers
         /\ after \in [Dealers -> ContactStatuses \cup {Absent}]
         /\ \A e \in Dealers : after[e] = Absent <=> contact[e] = Absent
  BY AbsentAssumption DEF TypeOK

LEMMA MarkSentKeeps ==
  ASSUME IndInv, NEW d \in Dealers, MarkSent(d)
  PROVE  IndInv'
  <1>1. "open" \in ContactStatuses
    BY DEF ContactStatuses, OpenStatuses
  <1>2. /\ contact' = [contact EXCEPT ![d] = "open"] /\ contact[d] # Absent
        /\ tagged' = tagged \cup {d}
        /\ UNCHANGED <<relevant, dealers, addressed, fact, mail, req>>
    BY DEF MarkSent
  <1>3. /\ d \in dealers
        /\ contact' \in [Dealers -> ContactStatuses \cup {Absent}]
        /\ \A e \in Dealers : contact'[e] = Absent <=> contact[e] = Absent
    BY <1>1, <1>2, StatusIs DEF IndInv
  <1>4. QED
    BY <1>2, <1>3, StatusesKeep DEF IndInv, TypeOK

LEMMA MarkSendFailedKeeps ==
  ASSUME IndInv, NEW d \in Dealers, NEW status \in {"open", "closed"},
         MarkSendFailed(d, status)
  PROVE  IndInv'
  <1>1. status \in ContactStatuses
    BY DEF ContactStatuses, OpenStatuses
  <1>2. /\ contact' = [contact EXCEPT ![d] = status] /\ contact[d] # Absent
        /\ UNCHANGED <<relevant, dealers, addressed, tagged, fact, mail, req>>
    BY DEF MarkSendFailed
  <1>3. /\ contact' \in [Dealers -> ContactStatuses \cup {Absent}]
        /\ \A e \in Dealers : contact'[e] = Absent <=> contact[e] = Absent
    BY <1>1, <1>2, StatusIs DEF IndInv
  <1>4. QED
    BY <1>2, <1>3, StatusesKeep DEF IndInv, TypeOK

(* The result of an extraction is both: the mail's status and, where it    *)
(* has a contact, the contact's.                                           *)
LEMMA ExtractKeeps ==
  ASSUME IndInv, NEW m \in Messages, NEW status \in {"open", "closed"},
         Extract(m, status)
  PROVE  IndInv'
  <1> DEFINE d == mail[m].dealer
             p == IF mail[m].contact THEN "EXTRACTED" ELSE "NEEDS_REVIEW"
             row == [mail[m] EXCEPT !.processing = p]
  <1>1. /\ mail[m] # Absent
        /\ mail' = [mail EXCEPT ![m] = row]
        /\ contact' = IF mail[m].contact THEN [contact EXCEPT ![d] = status] ELSE contact
        /\ UNCHANGED <<relevant, dealers, addressed, tagged, fact, req>>
    BY DEF Extract
  <1>2. /\ mail \in [Messages -> MailRow \cup {Absent}] /\ mail[m] \in MailRow
        /\ dealers \subseteq Dealers /\ tagged \subseteq dealers /\ relevant \in BOOLEAN
        /\ contact \in [Dealers -> ContactStatuses \cup {Absent}]
    BY <1>1 DEF IndInv, TypeOK
  <1>3. /\ row \in MailRow
        /\ row.dealer = mail[m].dealer /\ row.contact = mail[m].contact
        /\ row.campaign = mail[m].campaign
    BY <1>2 DEF MailRow
  <1>4. /\ contact' \in [Dealers -> ContactStatuses \cup {Absent}]
        /\ \A e \in Dealers : contact'[e] = Absent <=> contact[e] = Absent
    <2>1. CASE mail[m].contact
      <3>1. d \in Dealers /\ contact[d] # Absent
        BY <1>1, <1>2, <2>1 DEF IndInv, AttributionCoherent
      <3>2. status \in ContactStatuses
        BY DEF ContactStatuses, OpenStatuses
      <3> HIDE DEF d
      <3>3. QED
        BY <1>1, <2>1, <3>1, <3>2, StatusIs DEF IndInv
    <2>2. CASE ~ mail[m].contact
      BY <1>1, <1>2, <2>2
    <2>3. QED
      BY <2>1, <2>2
  <1> HIDE DEF row
  <1>5. QED
    BY <1>1, <1>2, <1>3, <1>4, StatusesKeep

LEMMA SetStatusKeeps ==
  ASSUME IndInv, SetStatus
  PROVE  IndInv'
  BY StatusesKeep DEF SetStatus, IndInv, TypeOK

LEMMA DeleteDealerKeeps ==
  ASSUME IndInv, NEW d \in Dealers, DeleteDealer(d)
  PROVE  IndInv'
  <1> DEFINE Unlinked(row) == [row EXCEPT !.dealer = None, !.contact = FALSE]
  <1>1. /\ dealers' = dealers \ {d} /\ tagged' = tagged \ {d}
        /\ contact' = [contact EXCEPT ![d] = Absent]
        /\ UNCHANGED <<relevant, addressed, fact, req>>
        /\ \A w \in Workers : ~ (req[w].link = "new" /\ req[w].dealer = d)
        /\ mail' = [m \in Messages |->
             IF mail[m] = Absent THEN Absent
             ELSE IF mail[m].dealer = d THEN Unlinked(mail[m]) ELSE mail[m]]
    BY DEF DeleteDealer
  <1>2. /\ TypeOK /\ mail \in [Messages -> MailRow \cup {Absent}]
        /\ contact \in [Dealers -> ContactStatuses \cup {Absent}]
        /\ dealers \subseteq Dealers /\ tagged \subseteq dealers
        /\ \A e \in Dealers \ dealers : contact[e] = Absent
    BY DEF IndInv, TypeOK
  <1>3. /\ contact' \in [Dealers -> ContactStatuses \cup {Absent}]
        /\ contact'[d] = Absent /\ \A e \in Dealers \ {d} : contact'[e] = contact[e]
    BY <1>1, <1>2
  <1>4. \A row \in MailRow :
          /\ Unlinked(row) \in MailRow
          /\ Unlinked(row).dealer = None /\ Unlinked(row).contact = FALSE
    BY DEF MailRow
  <1>5. mail' \in [Messages -> MailRow \cup {Absent}]
    BY <1>1, <1>2, <1>4
  <1>6. \A m \in Messages : mail'[m] # Absent =>
          /\ mail[m] # Absent
          /\ \/ mail'[m].dealer = None /\ mail'[m].contact = FALSE
             \/ mail'[m] = mail[m] /\ mail[m].dealer # d
    BY <1>1, <1>2, <1>4
  <1>7. \A w \in Workers : WellFormed(req[w])' /\ Traced(req[w])'
    <2> TAKE w \in Workers
    <2>1. WellFormed(req[w]) /\ Traced(req[w])
      BY DEF IndInv, TypeOK, EvidenceKept
    <2>2. req[w].link = "new" => req[w].dealer \in Dealers \ {d}
      BY <1>1, <1>2, <2>1 DEF WellFormed
    <2>3. QED
      BY <1>1, <1>3, <2>1, <2>2 DEF WellFormed, Traced, InCampaign
  <1>8. TypeOK'
    BY <1>1, <1>2, <1>3, <1>5, <1>7 DEF TypeOK, OneInserts
  <1>9. AttributionCoherent'
    <2> SUFFICES ASSUME NEW m \in Messages, mail'[m] # Absent
                 PROVE  /\ mail'[m].contact <=> mail'[m].dealer # None
                        /\ mail'[m].dealer # None =>
                             /\ mail'[m].campaign
                             /\ mail'[m].dealer \in dealers'
                             /\ contact'[mail'[m].dealer] # Absent
      BY DEF AttributionCoherent
    <2>1. CASE mail'[m].dealer = None /\ mail'[m].contact = FALSE
      BY <2>1
    <2>2. CASE mail'[m] = mail[m] /\ mail[m].dealer # d
      <3>1. /\ mail[m].contact <=> mail[m].dealer # None
            /\ mail[m].dealer # None => /\ mail[m].campaign
                                        /\ mail[m].dealer \in dealers
                                        /\ contact[mail[m].dealer] # Absent
        BY <1>6 DEF IndInv, AttributionCoherent
      <3>2. QED
        BY <1>1, <1>2, <1>3, <2>2, <3>1
    <2>3. QED
      BY <1>6, <2>1, <2>2
  <1>10. EvidenceKept'
    BY <1>1, <1>6, <1>7 DEF IndInv, EvidenceKept
  <1>11. QED
    BY <1>8, <1>9, <1>10 DEF IndInv

-----------------------------------------------------------------------------
(* The theorems.                                                           *)

LEMMA InitSound == Init => IndInv
  <1> SUFFICES ASSUME Init PROVE IndInv
    OBVIOUS
  <1>1. TypeOK
    <2>1. Idle \in Registration /\ Idle.step = "idle" /\ Idle.stage = 0
          /\ Idle.link = "none" /\ Idle.dealer = None /\ ~ Idle.replied
      BY StagesAre DEF Idle, Registration
    <2>2. WellFormed(Idle)
      BY <2>1 DEF WellFormed
    <2>3. \A w \in Workers : req[w] = Idle /\ WellFormed(req[w])
      BY <2>1, <2>2 DEF Init
    <2>4. /\ req \in [Workers -> Registration] /\ OneInserts
          /\ mail \in [Messages -> MailRow \cup {Absent}]
      BY <2>1, <2>3 DEF Init, OneInserts
    <2>5. /\ contact \in [Dealers -> ContactStatuses \cup {Absent}]
          /\ addressed \subseteq Dealers /\ dealers = Dealers /\ tagged = {}
      BY DEF Init, ContactStatuses, OpenStatuses
    <2>6. QED
      BY <2>3, <2>4, <2>5 DEF Init, TypeOK
  <1>2. \A w \in Workers : Traced(req[w])
    BY DEF Init, Traced, Idle
  <1>3. QED
    BY <1>1, <1>2 DEF Init, IndInv, AttributionCoherent, EvidenceKept

LEMMA StepSound == IndInv /\ [Next]_vars => IndInv'
  <1> SUFFICES ASSUME IndInv, [Next]_vars PROVE IndInv'
    OBVIOUS
  <1>1. CASE UNCHANGED vars
    BY <1>1 DEF vars, IndInv, TypeOK, AttributionCoherent, EvidenceKept,
                WellFormed, Traced, InCampaign, OneInserts
  <1>2. ASSUME NEW w \in Workers, Register(w)
        PROVE  IndInv'
    <2>1. CASE \E m \in Messages : BeginRegister(w, m)
      BY <2>1, BeginRegisterKeeps
    <2>2. CASE LookUp(w) \/ MatchContact(w) \/ MatchDealer(w)
      BY <2>2, LookUpKeeps, MatchContactKeeps, MatchDealerKeeps
    <2>3. CASE Ensure(w) \/ InsertContact(w)
      BY <2>3, EnsureKeeps, InsertContactKeeps
    <2>4. CASE Store(w)
      BY <2>4, StoreKeeps
    <2>5. CASE InsertRefused(w) \/ StoreRefused(w) \/ Abort(w)
      BY <2>5, FinishKeeps DEF InsertRefused, StoreRefused, Abort
    <2>6. QED
      BY <1>2, <2>1, <2>2, <2>3, <2>4, <2>5 DEF Register
  <1>3. ASSUME NEW d \in Dealers, MarkSent(d) \/ DeleteDealer(d)
        PROVE  IndInv'
    BY <1>3, MarkSentKeeps, DeleteDealerKeeps
  <1>4. ASSUME NEW m \in Messages, NEW status \in {"open", "closed"}, Extract(m, status)
        PROVE  IndInv'
    BY <1>4, ExtractKeeps
  <1>5. ASSUME NEW d \in Dealers, NEW status \in {"open", "closed"},
               MarkSendFailed(d, status)
        PROVE  IndInv'
    BY <1>5, MarkSendFailedKeeps
  <1>6. QED
    BY <1>1, <1>2, <1>3, <1>4, <1>5, SetStatusKeeps DEF Next

(* Every registration is sound at each of its steps, whatever is mailed,   *)
(* extracted, deleted or registered in between.                            *)
THEOREM RegistrationsSound == Spec => []IndInv
  BY InitSound, StepSound, PTL DEF Spec

(* Types, what a registration has at each step, and the keys. *)
THEOREM TypesCorrect == Spec => []TypeOK
  BY RegistrationsSound, PTL DEF IndInv

(* A mail that has a dealer has the campaign and the dealer's contact.     *)
THEOREM AttributionIsCoherent == Spec => []AttributionCoherent
  BY RegistrationsSound, PTL DEF IndInv

(* A mail that points at one dealer only is his or nobody's: the whole     *)
(* invariant is needed, since the dealer is found, stored and lost in      *)
(* three different steps.                                                  *)
THEOREM NoStrangerIsAttributed == Spec => []NoStrangerAttributed
  <1>1. IndInv => NoStrangerAttributed
    BY DEF IndInv, EvidenceKept, NoStrangerAttributed
  <1>2. QED
    BY <1>1, RegistrationsSound, PTL

(* The second delivery of a mail changes nothing of what its first         *)
(* registration decided, however the two overlap.                          *)
THEOREM AttributionsStand == Spec => AttributionStands
  <1> DEFINE Stands(m) ==
        mail[m] # Absent =>
          /\ mail'[m] # Absent
          /\ mail'[m].campaign = mail[m].campaign /\ mail'[m].matching = mail[m].matching
          /\ \/ mail'[m].dealer = mail[m].dealer
             \/ mail'[m].dealer = None /\ mail[m].dealer \notin dealers'
  <1>1. ASSUME TypeOK, Next, NEW m \in Messages
        PROVE  Stands(m)
    <2>1. /\ mail \in [Messages -> MailRow \cup {Absent}]
          /\ \A w \in Workers : WellFormed(req[w])
      BY <1>1 DEF TypeOK
    <2>2. ASSUME NEW w \in Workers, Store(w) PROVE Stands(m)
      <3>1. /\ req[w].message \in Messages /\ mail[req[w].message] = Absent
            /\ mail' = [mail EXCEPT ![req[w].message] = Row(req[w])]
        BY <2>1, <2>2 DEF Store, WellFormed
      <3>2. QED
        BY <2>1, <3>1
    <2>3. ASSUME NEW d \in Dealers, DeleteDealer(d) PROVE Stands(m)
      <3>1. /\ d \notin dealers'
            /\ mail'[m] = IF mail[m] = Absent THEN Absent
                          ELSE IF mail[m].dealer = d
                          THEN [mail[m] EXCEPT !.dealer = None, !.contact = FALSE]
                          ELSE mail[m]
        BY <2>3 DEF DeleteDealer
      <3>2. mail[m] # Absent => mail[m] \in MailRow
        BY <2>1
      <3>3. \A row \in MailRow :
              LET after == [row EXCEPT !.dealer = None, !.contact = FALSE] IN
              /\ after \in MailRow
              /\ after.campaign = row.campaign /\ after.matching = row.matching
              /\ after.dealer = None
        BY DEF MailRow
      <3>4. QED
        BY <3>1, <3>2, <3>3, AbsentAssumption
    <2>4. ASSUME NEW n \in Messages, NEW status \in {"open", "closed"}, Extract(n, status)
          PROVE  Stands(m)
      <3>1. /\ mail[n] # Absent
            /\ \E p \in {"EXTRACTED", "NEEDS_REVIEW"} :
                 mail' = [mail EXCEPT ![n] = [mail[n] EXCEPT !.processing = p]]
        BY <2>4 DEF Extract
      <3>2. mail[n] \in MailRow
        BY <2>1, <3>1
      <3>3. \A p \in {"EXTRACTED", "NEEDS_REVIEW"} :
              LET after == [mail[n] EXCEPT !.processing = p] IN
              /\ after \in MailRow
              /\ after.campaign = mail[n].campaign /\ after.matching = mail[n].matching
              /\ after.dealer = mail[n].dealer
        BY <3>2 DEF MailRow
      <3>4. QED
        BY <2>1, <3>1, <3>3, AbsentAssumption
    <2>5. mail' = mail => Stands(m)
      OBVIOUS
    <2>6. ASSUME NEW w \in Workers, Register(w), ~ Store(w)
          PROVE  mail' = mail
      BY <2>6 DEF Register, BeginRegister, LookUp, MatchContact, MatchDealer,
                  Ensure, InsertContact, InsertRefused, StoreRefused, Abort, dbVars
    <2>7. \/ (\E d \in Dealers : MarkSent(d)) \/ SetStatus
          \/ \E d \in Dealers, status \in {"open", "closed"} : MarkSendFailed(d, status)
          => mail' = mail
      BY DEF MarkSent, MarkSendFailed, SetStatus
    <2> HIDE DEF Stands
    <2>8. QED
      BY <1>1, <2>2, <2>3, <2>4, <2>5, <2>6, <2>7 DEF Next
  <1>2. TypeOK /\ [Next]_vars => [\A m \in Messages : Stands(m)]_vars
    BY <1>1
  <1>3. QED
    BY <1>2, TypesCorrect, PTL DEF Spec, AttributionStands

(* A mail in the thread of a sent request is that dealer's, if the request *)
(* was known when the registration began and the dealer is still there.    *)
THEOREM ThreadsDecide == Spec => ThreadDecides
  <1> DEFINE Decides(w, d) ==
        LET m == req[w].message IN
        /\ req[w].step = "store" /\ req'[w].step = "idle" /\ mail[m] # mail'[m]
        /\ d \in req[w].known \cap dealers /\ fact[m].thread = {d}
        => mail'[m].dealer = d
  <1>1. ASSUME IndInv, Next, NEW w \in Workers, NEW d \in Dealers
        PROVE  Decides(w, d)
    <2> DEFINE r == req[w]
               m == r.message
    <2> SUFFICES ASSUME r.step = "store", req'[w].step = "idle", mail[m] # mail'[m],
                        d \in r.known \cap dealers, fact[m].thread = {d}
                 PROVE  mail'[m].dealer = d
      OBVIOUS
    <2>1. /\ mail \in [Messages -> MailRow \cup {Absent}]
          /\ req \in [Workers -> Registration]
          /\ WellFormed(r) /\ m \in Messages /\ r.dealer = d
      BY <1>1 DEF IndInv, TypeOK, EvidenceKept, Traced, WellFormed
    <2>2. CASE Store(w)
      <3>1. mail'[m] = Row(r)
        BY <2>1, <2>2 DEF Store
      <3>2. QED
        BY <2>1, <3>1, RowIs
    <2>3. ASSUME ~ Store(w) PROVE req'[w] = r \/ mail' = mail
      <3>1. ASSUME NEW v \in Workers, Register(v), mail' # mail
            PROVE  Store(v)
        BY <3>1 DEF Register, BeginRegister, LookUp, MatchContact, MatchDealer,
                    Ensure, InsertContact, InsertRefused, StoreRefused, Abort, dbVars
      <3>2. ASSUME NEW v \in Workers \ {w}, Store(v)
            PROVE  req'[w] = r
        BY <2>1, <3>2 DEF Store, Finish
      <3>3. (\E e \in Dealers : MarkSent(e) \/ DeleteDealer(e)) \/ SetStatus
            \/ (\E n \in Messages, status \in {"open", "closed"} : Extract(n, status))
            \/ (\E e \in Dealers, status \in {"open", "closed"} : MarkSendFailed(e, status))
            => req' = req
        BY DEF MarkSent, MarkSendFailed, DeleteDealer, SetStatus, Extract
      <3>4. QED
        BY <1>1, <2>3, <3>1, <3>2, <3>3 DEF Next
    <2>4. QED
      BY <2>2, <2>3
  <1>2. IndInv /\ [Next]_vars => [\A w \in Workers, d \in Dealers : Decides(w, d)]_vars
    BY <1>1
  <1>3. QED
    BY <1>2, RegistrationsSound, PTL DEF Spec, ThreadDecides

(* A mail that is registered and not waiting for review can be extracted,  *)
(* but for the two exceptions the property names.                          *)
THEOREM NothingIsForgotten == Spec => []NothingForgotten
  <1> DEFINE Kept(row, f) ==
        row.processing = "REGISTERED" =>
          \/ row.campaign /\ row.dealer # None
          \/ dealers # Dealers
          \/ row.matching = "AMBIGUOUS" /\ (row.campaign => f.token)
  <1>1. Init => NothingForgotten
    BY DEF Init, NothingForgotten
  <1>2. ASSUME IndInv, NothingForgotten, [Next]_vars
        PROVE  NothingForgotten'
    <2>1. /\ mail \in [Messages -> MailRow \cup {Absent}] /\ dealers \subseteq Dealers
          /\ \A w \in Workers : WellFormed(req[w])
      BY <1>2 DEF IndInv, TypeOK
    <2>2. ASSUME NEW w \in Workers, Store(w) PROVE NothingForgotten'
      <3> DEFINE r == req[w]
      <3>1. /\ WellFormed(r) /\ r.step = "store" /\ r.message \in Messages
            /\ mail' = [mail EXCEPT ![r.message] = Row(r)]
            /\ UNCHANGED <<dealers, fact>>
        BY <2>1, <2>2 DEF Store, WellFormed
      <3>2. Kept(Row(r), fact[r.message])
        BY <3>1, RowIs DEF InCampaign
      <3>3. QED
        BY <1>2, <2>1, <3>1, <3>2 DEF NothingForgotten
    <2>3. ASSUME NEW m \in Messages, NEW status \in {"open", "closed"}, Extract(m, status)
          PROVE  NothingForgotten'
      <3>1. /\ mail[m] # Absent /\ UNCHANGED <<dealers, fact>>
            /\ \E p \in {"EXTRACTED", "NEEDS_REVIEW"} :
                 mail' = [mail EXCEPT ![m] = [mail[m] EXCEPT !.processing = p]]
        BY <2>3 DEF Extract
      <3>2. mail[m] \in MailRow
        BY <2>1, <3>1
      <3>3. \A p \in {"EXTRACTED", "NEEDS_REVIEW"} :
              [mail[m] EXCEPT !.processing = p].processing = p
        BY <3>2 DEF MailRow
      <3>4. QED
        BY <1>2, <2>1, <3>1, <3>3 DEF NothingForgotten
    <2>4. ASSUME NEW d \in Dealers, DeleteDealer(d) PROVE NothingForgotten'
      <3>1. dealers' # Dealers
        BY <2>4 DEF DeleteDealer
      <3>2. QED
        BY <3>1 DEF NothingForgotten
    <2>5. UNCHANGED <<mail, dealers, fact>> => NothingForgotten'
      BY <1>2 DEF NothingForgotten
    <2>6. ASSUME NEW w \in Workers, Register(w), ~ Store(w)
          PROVE  UNCHANGED <<mail, dealers, fact>>
      BY <2>6 DEF Register, BeginRegister, LookUp, MatchContact, MatchDealer,
                  Ensure, InsertContact, InsertRefused, StoreRefused, Abort, dbVars
    <2>7. \/ (\E d \in Dealers : MarkSent(d)) \/ SetStatus \/ UNCHANGED vars
          \/ \E d \in Dealers, status \in {"open", "closed"} : MarkSendFailed(d, status)
          => UNCHANGED <<mail, dealers, fact>>
      BY DEF MarkSent, MarkSendFailed, SetStatus, vars
    <2>8. QED
      BY <1>2, <2>2, <2>3, <2>4, <2>5, <2>6, <2>7 DEF Next
  <1>3. QED
    BY <1>1, <1>2, RegistrationsSound, PTL DEF Spec
=============================================================================
