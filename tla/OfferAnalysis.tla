---------------------------- MODULE OfferAnalysis ----------------------------
(***************************************************************************)
(* What the analysis of a dealer's mail makes of its text: the message     *)
(* type, the processing result, the price of the offer and the features    *)
(* it is found to state.                                                   *)
(*                                                                         *)
(* A text is abstracted to the answers the regular expressions and phrase  *)
(* lists give on it.  Prices are whole and small; texts are normalised.    *)
(***************************************************************************)
EXTENDS Integers, Sequences, FiniteSetsExt

CONSTANT None
ASSUME NoPriceAssumption == None \notin Nat

(* An amount of money in the text, in the order of _extract_amounts' scan. *)
(* lease: a leasing or monthly rate by the words around it.                *)
Amount == [value : Nat, label : {"final", "list"}, lease : BOOLEAN]

(* Parts of the "BMW i5 xDrive40 Touring (42FB)" line. *)
VehicleParts == {"variant", "body", "code", "model"}

IsText(t) ==
  /\ t.outbound \in BOOLEAN   \* own mailbox or [test]: a copy of an outgoing mail
  /\ t.automatic \in BOOLEAN  \* out of office, acknowledgement
  /\ t.declined \in BOOLEAN
  /\ t.total \in Nat \cup {None}   \* line "Gesamtpreis" before the leasing part
  /\ t.model \in Nat \cup {None}   \* line "Modell" before the leasing part
  /\ t.amounts \in Seq(Amount)
  /\ t.question \in BOOLEAN /\ t.leasing \in BOOLEAN
  /\ DOMAIN t.vehicle = VehicleParts  \* the vehicle line's values or None
  \* t.states: the (normalised) values that occur in the text

-----------------------------------------------------------------------------
(* Which amounts are candidates for the end price: amounts of a purchase   *)
(* that are not list prices, else the list prices.                         *)
Purchases(t) == {i \in DOMAIN t.amounts : ~ t.amounts[i].lease}
Finals(t) == {i \in Purchases(t) : t.amounts[i].label = "final"}
Candidates(t) == IF Finals(t) # {} THEN Finals(t) ELSE Purchases(t)

Lowest(t) == Min({t.amounts[i].value : i \in Candidates(t)})

(* Two prices among the three lowest candidates, or only a list price.     *)
Unclear(t) ==
  LET lowest == {i \in Candidates(t) : t.amounts[i].value = Lowest(t)}
  IN \/ Candidates(t) # lowest /\ Cardinality(lowest) < 3
     \/ Finals(t) = {}

(* The first rule that applies decides. *)
MessageType(t) ==
  CASE t.outbound -> "OUTBOUND_COPY"
    [] ~ t.outbound /\ t.automatic -> "AUTO_REPLY"
    [] ~ (t.outbound \/ t.automatic) /\ t.declined -> "DECLINE"
    [] OTHER ->
         IF t.total # None THEN "OFFER"
         ELSE IF Candidates(t) # {} THEN IF Unclear(t) THEN "UNCLEAR" ELSE "OFFER"
         ELSE IF t.question THEN "QUESTION_FROM_DEALER"
         ELSE IF t.leasing THEN "LEASING_OR_FINANCING_IRRELEVANT"
         ELSE "NO_COMMERCIAL_TERMS"

ProcessingResult(type) ==
  CASE type = "OFFER" -> "OFFER_EXTRACTED"
    [] type = "UNCLEAR" -> "NEEDS_REVIEW"
    [] OTHER -> "NO_OFFER"

Results == {"OFFER_EXTRACTED", "NEEDS_REVIEW", "NO_OFFER"}

(* Python's "p or q" on amounts that may be missing. *)
OrElse(p, q) == IF p \in Nat \ {0} THEN p ELSE q

(* gross_final_price: the total, or else the vehicle's price; both are 0   *)
(* if nothing else is stated.                                              *)
GrossPrice(t) ==
  IF t.total # None THEN OrElse(t.total, OrElse(t.model, 0))
                    ELSE OrElse(Lowest(t), 0)

(* total_price of the offer: 0 gives way to the monthly rate, which an     *)
(* offer for cash does not have.                                           *)
TotalPrice(gross) == OrElse(gross, None)

(* The analysis of the text of a mail; matched: the mail has a campaign    *)
(* and a dealer.                                                           *)
Analysis(t, matched) ==
  LET type == IF matched THEN MessageType(t) ELSE "UNCLEAR" IN
  [type |-> type,
   result |-> ProcessingResult(type),
   price |-> IF type = "OFFER" THEN GrossPrice(t) ELSE None]

-----------------------------------------------------------------------------
(* The features of the offer: for every requirement of the campaign its    *)
(* value if the text states it, else what the vehicle line says.           *)

(* A requirement: feature is its normalised feature_key, key the stored    *)
(* normalized_key, part the part of the vehicle line its name asks for.    *)
IsRequirement(r) ==
  /\ DOMAIN r = {"feature", "key", "value", "part", "mandatory"}
  /\ r.part \in VehicleParts \cup {None}
  /\ r.mandatory \in BOOLEAN

ResolvedValue(r, t) ==
  IF r.value # None /\ r.value \in t.states THEN r.value
  ELSE IF r.part # None THEN t.vehicle[r.part] ELSE None

(* Features are filed under the feature key, the first one of a key wins.  *)
EmailFeatures(reqs, t) ==
  LET stated == {i \in DOMAIN reqs : ResolvedValue(reqs[i], t) # None}
      First(k) == Min({i \in stated : reqs[i].feature = k})
  IN [k \in {reqs[i].feature : i \in stated} |->
        [value |-> ResolvedValue(reqs[First(k)], t), available |-> TRUE]]
=============================================================================
