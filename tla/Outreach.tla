------------------------------- MODULE Outreach -------------------------------
(***************************************************************************)
(* What the contact bookkeeping promises to the people who receive the     *)
(* mails, without requests, transactions or a database: a dealer is queued *)
(* for one campaign, handed to the mail workflow at most once, and never   *)
(* queued again; a mail leaves only for a dealer that was handed out.      *)
(***************************************************************************)
EXTENDS Naturals

CONSTANT Dealers

VARIABLES
  phase,     \* where each dealer is: "none", "queued", "claimed", "settled"
  grants,    \* how often the dealer was handed to the mail workflow
  mails      \* how many mails the dealer was sent

vars == <<phase, grants, mails>>

Phases == {"none", "queued", "claimed", "settled"}

Init ==
  /\ phase = [d \in Dealers |-> "none"]
  /\ grants = [d \in Dealers |-> 0]
  /\ mails = [d \in Dealers |-> 0]

(* Dealers found for the campaign are queued together. *)
Queue(S) ==
  /\ \A d \in S : phase[d] = "none"
  /\ phase' = [d \in Dealers |-> IF d \in S THEN "queued" ELSE phase[d]]
  /\ UNCHANGED <<grants, mails>>

(* A batch of queued dealers is handed out; nobody is handed out twice. *)
Claim(S) ==
  /\ \A d \in S : phase[d] = "queued" /\ grants[d] = 0
  /\ phase' = [d \in Dealers |-> IF d \in S THEN "claimed" ELSE phase[d]]
  /\ grants' = [d \in Dealers |-> IF d \in S THEN 1 ELSE grants[d]]
  /\ UNCHANGED mails

(* A send result or an answer takes the dealer out of the queue for good.  *)
Settle(d) ==
  /\ phase' = [phase EXCEPT ![d] = "settled"]
  /\ UNCHANGED <<grants, mails>>

(* One mail per grant. *)
Mail(d) ==
  /\ mails[d] < grants[d]
  /\ mails' = [mails EXCEPT ![d] = @ + 1]
  /\ UNCHANGED <<phase, grants>>

Next ==
  \/ \E S \in SUBSET Dealers : Queue(S) \/ Claim(S)
  \/ \E d \in Dealers : Settle(d) \/ Mail(d)

Spec == Init /\ [][Next]_vars
=============================================================================
