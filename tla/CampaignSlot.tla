----------------------------- MODULE CampaignSlot -----------------------------
(***************************************************************************)
(* What single-campaign mode promises, without requests or transactions:   *)
(* there is one slot for a campaign.  A campaign enters it new and as a    *)
(* draft, moves on, collects inbound mails, and leaves it only because a   *)
(* later campaign takes its place or the slot is cleared; it never comes   *)
(* back, and its mails leave with it and not before.                       *)
(***************************************************************************)
CONSTANTS Campaigns, Messages, None

VARIABLES
  current,   \* the campaign in the slot, or None
  phase,     \* its status, "none" when there is no campaign
  used,      \* campaigns that have been in the slot
  box        \* mails filed under the current campaign

vars == <<current, phase, used, box>>

Init == current = None /\ phase = "none" /\ used = {} /\ box = {}

(* A campaign that was never there replaces the current one, if any. *)
Open(c) ==
  /\ c \in Campaigns \ used
  /\ current' = c
  /\ phase' = "DRAFT"
  /\ used' = used \cup {c}
  /\ box' = {}

Clear ==
  /\ current' = None
  /\ phase' = "none"
  /\ box' = {}
  /\ UNCHANGED used

(* Nothing becomes a draft again. *)
Advance(s) ==
  /\ current # None
  /\ phase' = s
  /\ UNCHANGED <<current, used, box>>

File(m) ==
  /\ current # None
  /\ m \notin box
  /\ box' = box \cup {m}
  /\ UNCHANGED <<current, phase, used>>

Next ==
  \/ \E c \in Campaigns : Open(c)
  \/ Clear
  \/ \E s \in {"STARTED", "COMPLETED", "patched"} : Advance(s)
  \/ \E m \in Messages : File(m)

Spec == Init /\ [][Next]_vars
=============================================================================
