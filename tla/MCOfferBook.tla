----------------------------- MODULE MCOfferBook -----------------------------
(* Small instances of OfferBook for TLC. *)
EXTENDS OfferBook, TLC

Symmetry == Permutations(Mails) \cup Permutations(Contacts)
              \cup Permutations(Manuals) \cup Permutations(Workers)

(* A text of a mail: nothing, with what the text adds to it. *)
Blank ==
  [outbound |-> FALSE, automatic |-> FALSE, declined |-> FALSE,
   total |-> None, model |-> None, amounts |-> <<>>, question |-> FALSE,
   leasing |-> FALSE, states |-> {},
   vehicle |-> [p \in VehicleParts |-> None]]

Purchase(v) == [value |-> v, label |-> "final", lease |-> FALSE]

MCTexts ==
  { \* an offer that meets everything, for 2
    [Blank EXCEPT !.total = 2, !.states = {"xdrive40", "black", "sport"}],
    \* the wrong drive and no paint, for 1; the leasing rate does not count
    [Blank EXCEPT !.amounts = <<[value |-> 0, label |-> "final", lease |-> TRUE],
                                Purchase(1), [Purchase(3) EXCEPT !.label = "list"]>>,
                  !.leasing = TRUE,
                  !.vehicle = [@ EXCEPT !["variant"] = "edrive40"]],
    \* a question instead of an offer
    [Blank EXCEPT !.question = TRUE] }

MCRequirements ==
  <<[feature |-> "drive", key |-> "drive", value |-> "xdrive40",
     part |-> "variant", mandatory |-> TRUE],
    [feature |-> "paint", key |-> "paint", value |-> "black",
     part |-> None, mandatory |-> FALSE],
    [feature |-> "seats", key |-> "seats", value |-> "sport",
     part |-> None, mandatory |-> FALSE]>>

(* Entered by hand: the right drive for 1, everything without a price.     *)
MCManualOffers ==
  LET Offer(price, values) ==
        [price |-> price,
         features |-> [k \in DOMAIN values |-> [value |-> values[k], available |-> TRUE]]]
  IN {Offer(1, [drive |-> "xdrive40"]),
      Offer(None, [drive |-> "xdrive40", paint |-> "black", seats |-> "sport"])}
=============================================================================
