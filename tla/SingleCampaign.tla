---------------------------- MODULE SingleCampaign ----------------------------
(***************************************************************************)
(* The campaign row and the rows that hang on it, while campaigns are      *)
(* created, replaced and reset and other requests are still running on     *)
(* the campaign they loaded.                                               *)
(*                                                                         *)
(* As in CampaignDispatch a step is one statement or one commit of a       *)
(* request.  A row that an open transaction has deleted stays visible to   *)
(* the others and is locked until that transaction ends: such mails are    *)
(* the request's "held" ones.  A request that is refused before it writes  *)
(* anything is not modelled.  Contact statuses and offers belong to other  *)
(* modules; here a campaign has contacts or it has none.                   *)
(***************************************************************************)
CONSTANTS Campaigns, Messages, Workers, None, Absent

(* "patched" stands for the lower-case statuses of CampaignStatusPatch, which
   no handler compares with. *)
Statuses == {"DRAFT", "STARTED", "COMPLETED", "patched"}

ASSUME NoneAssumption == None \notin Campaigns
ASSUME AbsentAssumption == Absent \notin Campaigns \cup Statuses \cup {None}

VARIABLES
  status,     \* campaign.status of c, Absent: no row
  used,       \* ids that were ever inserted (uuid4: none is drawn twice)
  customer,   \* campaigns whose customer columns are filled
  contacts,   \* campaigns with a row in campaign_dealer_contact
  mail,       \* mail[m]: campaign_id of the inbound_email row, Absent: no row
  filed,      \* history: the campaign_id the mail was stored with
  token,      \* token[m]: the campaign id in the subject of the mail
  req         \* req[w]: the request worker w is serving

vars == <<status, used, customer, contacts, mail, filed, token, req>>
dbVars == <<status, used, customer, contacts, mail, filed>>

CampaignOps == {"claim", "complete", "dispatch_status", "patch"}
CreateOps == {"create", "create_for_customer"}

(* The campaigns in the table. *)
live == {c \in Campaigns : status[c] # Absent}

Request ==
  [op : CampaignOps \cup CreateOps \cup {"register", "reset", "none"},
   step : {"idle", "delete", "replace", "customer", "ensure", "write",
           "match", "store", "wipe"},
   campaign : Campaigns \cup {None},  \* the campaign it works on
   read : SUBSET Campaigns,           \* the campaign ids it has selected
   held : SUBSET Messages,            \* mails it has deleted, uncommitted
   status : Statuses,                 \* the status it has loaded
   message : Messages \cup {None},
   link : {"none", "existing", "new"}]

Idle ==
  [op |-> "none", step |-> "idle", campaign |-> None, read |-> {},
   held |-> {}, status |-> "DRAFT", message |-> None, link |-> "none"]

Finish(w) == req' = [req EXCEPT ![w] = Idle]

(* No other open transaction has deleted one of these mails: otherwise a   *)
(* DELETE or the SET NULL of a foreign key waits for it.                   *)
Unlocked(w, S) == \A v \in Workers \ {w} : req[v].held \cap S = {}

MailsOf(S) == {m \in Messages : mail[m] \in S}

(* The rows after a commit that deletes the mails in held and the          *)
(* campaigns in gone.  Contacts go with their campaign (ON DELETE          *)
(* CASCADE), mails that were filed meanwhile lose it (ON DELETE SET NULL). *)
StatusAfter(gone) == [c \in Campaigns |-> IF c \in gone THEN Absent ELSE status[c]]
MailsAfter(held, gone) ==
  [m \in Messages |-> IF m \in held THEN Absent
                      ELSE IF mail[m] \in gone THEN None ELSE mail[m]]

-----------------------------------------------------------------------------
(* Creation: delete_all_campaigns_except(None), then insert and commit.    *)

(* SELECT id FROM campaign *)
BeginCreate(w, op) ==
  /\ req[w].step = "idle"
  /\ op \in CreateOps
  /\ req' = [req EXCEPT ![w] =
       [Idle EXCEPT !.op = op, !.read = live,
                    !.step = IF live = {} THEN "replace" ELSE "delete"]]
  /\ UNCHANGED <<dbVars, token>>

(* Mutant: the deletion of the mails is committed at once. *)
DeleteMailsCommitted(w) ==
  /\ req[w].step = "delete"
  /\ mail' = MailsAfter(MailsOf(req[w].read), {})
  /\ req' = [req EXCEPT ![w].step = "replace"]
  /\ UNCHANGED <<status, used, customer, contacts, filed, token>>

(* DELETE FROM inbound_email WHERE campaign_id IN (the ids) *)
DeleteMails(w) ==
  /\ req[w].step = "delete"
  /\ Unlocked(w, MailsOf(req[w].read))
  /\ req' = [req EXCEPT ![w].step = "replace", ![w].held = MailsOf(req[w].read)]
  /\ UNCHANGED <<dbVars, token>>

AfterReplace(w, c) ==
  req' = [req EXCEPT ![w] =
    IF req[w].op = "create" THEN Idle
    ELSE [Idle EXCEPT !.op = "create_for_customer", !.step = "customer",
                      !.campaign = c]]

(* Mutant: no unique constraint on singleton_key. *)
ReplaceUnchecked(w, c) ==
  /\ req[w].step = "replace"
  /\ c \in Campaigns \ used
  /\ status' = [StatusAfter(req[w].read) EXCEPT ![c] = "DRAFT"]
  /\ used' = used \cup {c}
  /\ customer' = customer \ req[w].read
  /\ contacts' = contacts \ req[w].read
  /\ mail' = MailsAfter(req[w].held, req[w].read)
  /\ AfterReplace(w, c)
  /\ UNCHANGED <<filed, token>>

(* DELETE FROM campaign WHERE id IN (the ids), cascading to the contacts,  *)
(* INSERT, COMMIT.                                                         *)
Replace(w, c) ==
  /\ req[w].step = "replace"
  /\ c \in Campaigns \ used
  /\ live \subseteq req[w].read
  /\ Unlocked(w, MailsOf(live))
  /\ status' = [StatusAfter(req[w].read) EXCEPT ![c] = "DRAFT"]
  /\ used' = used \cup {c}
  /\ customer' = customer \ req[w].read
  /\ contacts' = contacts \ req[w].read
  /\ mail' = MailsAfter(req[w].held, req[w].read)
  /\ AfterReplace(w, c)
  /\ UNCHANGED <<filed, token>>

(* Another campaign was committed since the ids were selected: the unique  *)
(* constraint on singleton_key fails the insert and all is rolled back.    *)
ReplaceConflict(w) ==
  /\ req[w].step = "replace"
  /\ ~ (live \subseteq req[w].read)
  /\ Finish(w)
  /\ UNCHANGED <<dbVars, token>>

(* The second commit of create-and-start, from-public-config and           *)
(* from-config.                                                            *)
StoreCustomer(w) ==
  /\ req[w].step = "customer"
  /\ req[w].campaign \in live
  /\ customer' = customer \cup {req[w].campaign}
  /\ Finish(w)
  /\ UNCHANGED <<status, used, contacts, mail, filed, token>>

-----------------------------------------------------------------------------
(* Requests on one campaign.                                               *)

(* campaign_repository.get *)
BeginOn(w, c, op) ==
  /\ req[w].step = "idle"
  /\ c \in live
  /\ op \in CampaignOps
  /\ req' = [req EXCEPT ![w] =
       [Idle EXCEPT !.op = op, !.campaign = c, !.status = status[c],
                    !.step = IF op = "patch" THEN "write" ELSE "ensure"]]
  /\ UNCHANGED <<dbVars, token>>

(* Does the handler go on to write the campaign row, going by the status   *)
(* it has loaded?                                                          *)
GoesOn(r) ==
  \/ r.op = "claim" /\ r.status = "DRAFT"
  \/ r.op = "complete" /\ r.status # "COMPLETED"

AfterEnsure(w) ==
  req' = [req EXCEPT ![w] = IF GoesOn(req[w]) THEN [req[w] EXCEPT !.step = "write"]
                                              ELSE Idle]

(* No eligible dealer is without a contact. *)
ContactsComplete(w) ==
  /\ req[w].step = "ensure"
  /\ AfterEnsure(w)
  /\ UNCHANGED <<dbVars, token>>

(* The missing contacts are inserted and committed... *)
EnsureContacts(w) ==
  /\ req[w].step = "ensure"
  /\ req[w].campaign \in live
  /\ contacts' = contacts \cup {req[w].campaign}
  /\ AfterEnsure(w)
  /\ UNCHANGED <<status, used, customer, mail, filed, token>>

(* ...or the foreign key to the campaign fails the request. *)
EnsureRefused(w) ==
  /\ req[w].step = "ensure"
  /\ req[w].campaign \notin live
  /\ Finish(w)
  /\ UNCHANGED <<dbVars, token>>

(* Mutant: PATCH writes a status of its own. *)
NewStatusUnmapped(op) ==
  CASE op = "claim" -> "STARTED" [] op = "complete" -> "COMPLETED" [] OTHER -> "PAUSED"

NewStatus(op) ==
  CASE op = "claim" -> "STARTED" [] op = "complete" -> "COMPLETED" [] OTHER -> "patched"

(* A claim that starts the campaign and a completion first delete all      *)
(* other campaigns, in the transaction of the UPDATE.                      *)
Others(r) == IF r.op = "patch" THEN {} ELSE live \ {r.campaign}

WriteStatus(w) ==
  /\ req[w].step = "write"
  /\ req[w].campaign \in live
  /\ LET gone == Others(req[w]) IN
       /\ Unlocked(w, MailsOf(gone))
       /\ status' = [StatusAfter(gone) EXCEPT ![req[w].campaign] = NewStatus(req[w].op)]
       /\ customer' = customer \ gone
       /\ contacts' = contacts \ gone
       /\ mail' = MailsAfter(MailsOf(gone), gone)
  /\ Finish(w)
  /\ UNCHANGED <<used, filed, token>>

(* Mutant: an UPDATE that matches no row is not noticed, the deletions     *)
(* before it are committed.                                                *)
CampaignGoneUnnoticed(w) ==
  /\ req[w].step \in {"write", "customer"}
  /\ req[w].campaign \notin live
  /\ LET gone == IF req[w].step = "write" THEN Others(req[w]) ELSE {} IN
       /\ status' = StatusAfter(gone)
       /\ customer' = customer \ gone
       /\ contacts' = contacts \ gone
       /\ mail' = MailsAfter(MailsOf(gone), gone)
  /\ Finish(w)
  /\ UNCHANGED <<used, filed, token>>

(* The campaign was replaced or reset: the UPDATE matches no row, the      *)
(* session raises and the transaction is rolled back, together with the    *)
(* deletion of the campaign that took its place.                           *)
CampaignGone(w) ==
  /\ req[w].step \in {"write", "customer"}
  /\ req[w].campaign \notin live
  /\ Finish(w)
  /\ UNCHANGED <<dbVars, token>>

(* Contacts that are still sendable block the completion; a PATCH to the   *)
(* status that was loaded writes nothing.                                  *)
NothingToWrite(w) ==
  /\ req[w].step = "write"
  /\ req[w].op = "complete" \/ (req[w].op = "patch" /\ req[w].status = "patched")
  /\ Finish(w)
  /\ UNCHANGED <<dbVars, token>>

-----------------------------------------------------------------------------
(* register_inbound_email                                                  *)

(* Campaigns that take mail on their own, without a contact or a token. *)
Relevant == {c \in live : status[c] \in {"STARTED", "COMPLETED"}}

(* The mail is not stored yet; the campaign is the one of a valid hint or  *)
(* the single one, and both are the campaign in the table.  More than one  *)
(* is refused.                                                             *)
BeginRegister(w, m) ==
  /\ req[w].step = "idle"
  /\ mail[m] = Absent
  /\ token[m] \in used \cup {None}
  /\ \A c, d \in live : c = d
  /\ \E c \in IF Relevant = {} THEN {None} ELSE Relevant :
       req' = [req EXCEPT ![w] =
         [Idle EXCEPT !.op = "register", !.step = "match", !.campaign = c,
                      !.read = live, !.message = m]]
  /\ UNCHANGED <<dbVars, token>>

(* The campaign of a mail that no contact claims. *)
FallbackCampaign(r) == IF r.campaign = None THEN token[r.message] ELSE r.campaign

(* _match_inbound_email ends with a contact (of the resolved campaign, or  *)
(* of any when there is none), with a dealer for whom a contact is         *)
(* created, or with neither.                                               *)
Match(w) ==
  /\ req[w].step = "match"
  /\ \/ \E c \in contacts :
          /\ req[w].campaign \in {None, c}
          /\ req' = [req EXCEPT ![w].step = "store", ![w].campaign = c,
                                ![w].link = "existing"]
     \/ \E link \in {"none", "new"} :
          /\ link = "new" => FallbackCampaign(req[w]) # None
          /\ req' = [req EXCEPT ![w].step = "store", ![w].link = link,
                                ![w].campaign = FallbackCampaign(req[w])]
  /\ UNCHANGED <<dbVars, token>>

(* Mutant: no foreign keys. *)
StoreUnchecked(w) ==
  /\ req[w].step = "store"
  /\ mail[req[w].message] = Absent
  /\ mail' = [mail EXCEPT ![req[w].message] = req[w].campaign]
  /\ filed' = [filed EXCEPT ![req[w].message] = req[w].campaign]
  /\ contacts' = IF req[w].link = "new" THEN contacts \cup {req[w].campaign}
                                        ELSE contacts
  /\ Finish(w)
  /\ UNCHANGED <<status, used, customer, token>>

Store(w) ==
  /\ req[w].step = "store"
  /\ req[w].campaign \in live \cup {None}
  /\ mail[req[w].message] = Absent
  /\ mail' = [mail EXCEPT ![req[w].message] = req[w].campaign]
  /\ filed' = [filed EXCEPT ![req[w].message] = req[w].campaign]
  /\ contacts' = IF req[w].link = "new" THEN contacts \cup {req[w].campaign}
                                        ELSE contacts
  /\ Finish(w)
  /\ UNCHANGED <<status, used, customer, token>>

(* A foreign key to a deleted campaign, or the unique constraint on the    *)
(* provider's message id, fails the insert.                                *)
StoreRefused(w) ==
  /\ req[w].step = "store"
  /\ \/ req[w].campaign \notin live \cup {None}
     \/ mail[req[w].message] # Absent
  /\ Finish(w)
  /\ UNCHANGED <<dbVars, token>>

-----------------------------------------------------------------------------
(* Administrative reset: offers, then mails, are deleted...                *)
BeginReset(w) ==
  /\ req[w].step = "idle"
  /\ LET stored == {m \in Messages : mail[m] # Absent} IN
       /\ Unlocked(w, stored)
       /\ req' = [req EXCEPT ![w] = [Idle EXCEPT !.op = "reset", !.step = "wipe",
                                                 !.held = stored]]
  /\ UNCHANGED <<dbVars, token>>

(* ...then configurations, contacts and campaigns, and all is committed.   *)
Wipe(w) ==
  /\ req[w].step = "wipe"
  /\ Unlocked(w, MailsOf(live))
  /\ status' = StatusAfter(live)
  /\ customer' = {}
  /\ contacts' = {}
  /\ mail' = MailsAfter(req[w].held, live)
  /\ Finish(w)
  /\ UNCHANGED <<used, filed, token>>

(* A request dies, or the database ends it to break a deadlock: its open   *)
(* transaction is rolled back.                                             *)
Abort(w) ==
  /\ req[w].step # "idle"
  /\ Finish(w)
  /\ UNCHANGED <<dbVars, token>>

-----------------------------------------------------------------------------
Init ==
  /\ status = [c \in Campaigns |-> Absent]
  /\ used = {} /\ customer = {} /\ contacts = {}
  /\ mail = [m \in Messages |-> Absent]
  /\ filed = [m \in Messages |-> None]
  /\ token \in [Messages -> Campaigns \cup {None}]
  /\ req = [w \in Workers |-> Idle]

Arrive(w) ==
  \/ \E op \in CreateOps : BeginCreate(w, op)
  \/ \E c \in live, op \in CampaignOps : BeginOn(w, c, op)
  \/ \E m \in Messages : BeginRegister(w, m)
  \/ BeginReset(w)

Proceed(w) ==
  \/ DeleteMails(w)
  \/ \E c \in Campaigns : Replace(w, c)
  \/ ReplaceConflict(w)
  \/ StoreCustomer(w)
  \/ ContactsComplete(w) \/ EnsureContacts(w) \/ EnsureRefused(w)
  \/ WriteStatus(w) \/ CampaignGone(w) \/ NothingToWrite(w)
  \/ Match(w) \/ Store(w) \/ StoreRefused(w)
  \/ Wipe(w)

Next == \E w \in Workers : Arrive(w) \/ Proceed(w) \/ Abort(w)

Spec == Init /\ [][Next]_vars

-----------------------------------------------------------------------------
(* Properties.                                                             *)

(* A request, with the mail and the campaign its step needs. *)
WellFormed(r) ==
  /\ r \in Request
  /\ r.step \in {"match", "store"} => r.message \in Messages
  /\ r.link = "new" => r.campaign # None
  /\ r.op \in CampaignOps => r.step \in {"ensure", "write"}

TypeOK ==
  /\ status \in [Campaigns -> Statuses \cup {Absent}]
  /\ used \subseteq Campaigns /\ live \subseteq used
  /\ customer \subseteq Campaigns /\ contacts \subseteq Campaigns
  /\ mail \in [Messages -> Campaigns \cup {None, Absent}]
  /\ filed \in [Messages -> Campaigns \cup {None}]
  /\ token \in [Messages -> Campaigns \cup {None}]
  /\ req \in [Workers -> Request] /\ \A w \in Workers : WellFormed(req[w])

(* However creations, resets, claims and completions overlap or die, two   *)
(* campaigns are never committed side by side.                             *)
AtMostOneCampaign == \A c, d \in live : c = d

(* No customer data, contact or mail refers to a campaign that is gone,    *)
(* although requests go on working with campaigns they loaded before.      *)
RowsBelongToCampaign ==
  /\ customer \subseteq live /\ contacts \subseteq live
  /\ \A m \in Messages : mail[m] \in live \cup {None, Absent}

(* A claim, completion or PATCH never removes a campaign, in particular    *)
(* not the one that replaced its own while it was running.                 *)
CampaignOpsRemoveNothing ==
  \A w \in Workers :
    req[w].op \in CampaignOps /\ req'[w] # req[w] => live \subseteq live'

OnlyCreateOrResetRemoves == [][CampaignOpsRemoveNothing]_vars

Current == IF live = {} THEN None ELSE CHOOSE c \in live : TRUE
Phase == IF live = {} THEN "none" ELSE status[Current]

Slot == INSTANCE CampaignSlot
          WITH current <- Current, phase <- Phase, used <- used, box <- MailsOf(live)

(* The table behaves as one slot: a campaign that left it never comes      *)
(* back, nothing returns to draft, and a mail stays with its campaign as   *)
(* long as that is there, whichever requests die or roll back.             *)
ImplementsSlot == Slot!Spec

(* The documentation: when a campaign is removed its mails are removed.    *)
MailGoesWithCampaign ==
  \A m \in Messages : mail[m] = None => filed[m] = None

(* The documentation: if no campaign exists, and no contact is found, the  *)
(* mail is stored with campaign_id = null.                                 *)
NoCampaignMeansNull ==
  \A w \in Workers :
    req[w].step = "store" /\ req[w].read = {} /\ req[w].link = "none"
      => req[w].campaign = None
=============================================================================
