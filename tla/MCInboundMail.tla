---------------------------- MODULE MCInboundMail ----------------------------
(* Small instances of InboundMail for TLC. *)
EXTENDS InboundMail, TLC

CONSTANTS d1, d2

(* Nothing in the mail points at anybody. *)
Blank ==
  [thread |-> {}, replyTo |-> {}, references |-> {}, sender |-> {}, token |-> FALSE,
   signs |-> [d \in Dealers |-> {}]]

MCMail ==
  { \* an answer to d1's request in its thread, from an address that d2 has too
    [Blank EXCEPT !.thread = {d1}, !.replyTo = {d1}, !.sender = {d1, d2}],
    \* d2's signature under the campaign's token, sent from a private address
    [Blank EXCEPT !.token = TRUE, !.signs =
       [d \in Dealers |-> IF d = d2 THEN {"company", "postal_city", "street"} ELSE {}]] }

Symmetry == Permutations(Messages) \cup Permutations(Workers)
=============================================================================
