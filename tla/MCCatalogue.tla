----------------------------- MODULE MCCatalogue -----------------------------
(* Small instances of Catalogue for TLC. *)
EXTENDS Catalogue

CONSTANTS ka, kb, oa, ob

MCDealerBatches == {<<ka>>, <<ka, ka>>, <<kb, ka>>}

MCOfferBatches ==
  { <<[key |-> oa, price |-> 1, dealer |-> None], [key |-> oa, price |-> 2, dealer |-> 1]>>,
    <<[key |-> ob, price |-> 1, dealer |-> None], [key |-> oa, price |-> 2, dealer |-> 1]>> }

Code(letter, id, known) == [letter |-> letter, id |-> id, known |-> known]
Paint == Code("P", "P0A90", TRUE)
Package == Code("S", "S0337", TRUE)
Wheels == Code("S", "S03G9", TRUE)
Unlisted == Code("S", "S09QV", FALSE)

Full ==
  [url |-> "u1", cfg |-> "c1", date |-> "t1", short |-> FALSE,
   model |-> [code |-> "51HH", known |-> TRUE, capitals |-> TRUE],
   codes |-> <<Paint, Package, Unlisted, Package>>]

MCLinks ==
  { Full,
    \* the same configuration with another model
    [Full EXCEPT !.url = "u2", !.model.code = "71HH", !.codes = <<Wheels>>],
    \* its link could not be resolved
    [Full EXCEPT !.url = "u3", !.date = None, !.short = TRUE, !.codes = <<>>],
    \* an unlisted paint, and no configuration id
    [Full EXCEPT !.url = "u2", !.cfg = None,
                 !.codes = <<Code("P", "P0C4P", FALSE), Wheels, Package>>] }
=============================================================================
