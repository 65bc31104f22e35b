--------------------------- MODULE CampaignDispatch ---------------------------
(***************************************************************************)
(* Outbound dispatch of one campaign: the claim, completion,               *)
(* dispatch-status, sent, send-failed and status requests of the API, and  *)
(* the contact half of inbound registration and offer extraction.          *)
(*                                                                         *)
(* Every request runs in a worker thread with its own READ COMMITTED       *)
(* session, so a handler is a sequence of steps: each step is one          *)
(* statement or one commit, and requests interleave between them.  What a  *)
(* session has read stays in its request record and is used later, as the  *)
(* ORM objects are (autoflush and expire_on_commit are off, and an UPDATE  *)
(* writes only the columns that differ from what was loaded).              *)
(*                                                                         *)
(* External: the mail workflow that calls the API (Send and the reports),  *)
(* modelled from the requests the API documents for it.                    *)
(***************************************************************************)
EXTENDS Naturals, FiniteSets

CONSTANTS
  Dealers,        \* dealer rows
  Workers,        \* request threads
  NoOwner,        \* "no request holds this row lock"
  Ops,            \* the kinds of request that arrive
  DealerChanges,  \* what an update may leave a dealer as
  PatchStatuses,  \* the statuses PATCH .../status may write
  ClaimLimit,     \* payload.limit of a claim
  Failures        \* TRUE: requests may die, answers and reports may be lost

DealerStates == {"eligible", "unpublished", "no_email"}

AllOps == {"claim", "complete", "dispatch_status", "sent", "failed",
           "unknown", "reply", "extract", "patch"}

ASSUME OpsAssumption == Ops \subseteq AllOps
ASSUME DealerChangesAssumption == DealerChanges \subseteq DealerStates
ASSUME OwnerAssumption == NoOwner \notin Workers
ASSUME ClaimLimitAssumption == ClaimLimit \in Nat \ {0}
ASSUME FailuresAssumption == Failures \in BOOLEAN

ContactStatuses == {"PENDING", "RESERVED", "SENT", "SEND_FAILED",
                    "SEND_STATE_UNKNOWN", "REPLIED", "OFFER_EXTRACTED",
                    "NO_OFFER", "NEEDS_REVIEW"}

CampaignStatuses == {"DRAFT", "STARTED", "COMPLETED"} \cup PatchStatuses

(* A contact row that does not exist. *)
Absent == "absent"

(* Mutant: a reserved contact does not hold up completion. *)
BlockingUnreserved == {"PENDING", "SEND_FAILED", "SEND_STATE_UNKNOWN"}

BlockingStatuses == {"PENDING", "RESERVED", "SEND_FAILED", "SEND_STATE_UNKNOWN"}

ExtractionResults == {"OFFER_EXTRACTED", "NO_OFFER", "NEEDS_REVIEW"}

ReportKinds == {"sent", "failed", "unknown"}

VARIABLES
  dealer,       \* dealer[d]: is the dealer published, has it an address
  status,       \* campaign.status
  completed,    \* campaign.completed_at is set
  contact,      \* contact[d]: status of the campaign's contact for dealer d
  stored,       \* stored[d]: the contact holds the provider_message_id of its mail
  answered,     \* answered[d]: an inbound mail is linked to the contact
  rowLock,      \* rowLock[d]: the request holding FOR UPDATE on the contact
  req,          \* req[w]: the request worker w is serving
  toSend,       \* contacts the mail workflow was handed and has not mailed
  mails,        \* mails[d]: mails that left for dealer d
  reports,      \* send results the mail workflow has still to deliver
  claims,       \* history: claims[d] counts the commits that reserved d
  lost          \* history: contacts whose claim answer or report was lost

dbVars == <<dealer, status, completed, contact, stored, answered, rowLock>>
clientVars == <<toSend, mails, reports, lost>>
vars == <<dealer, status, completed, contact, stored, answered, rowLock, req,
          toSend, mails, reports, claims, lost>>

Reports == [dealer : Dealers, kind : ReportKinds]

Steps == {"idle", "ensure", "insert", "start", "select", "reserve", "respond",
          "count", "finish", "write"}

(* A request: its kind, the next step, the contacts it works on, and what  *)
(* its session has loaded of the campaign and of the contact.              *)
Request ==
  [op : AllOps \cup {"none"}, step : Steps, rows : SUBSET Dealers,
   status : CampaignStatuses, completed : BOOLEAN,
   contact : ContactStatuses \cup {Absent}, stored : BOOLEAN,
   unaddressed : BOOLEAN]

Idle ==
  [op |-> "none", step |-> "idle", rows |-> {}, status |-> "DRAFT",
   completed |-> FALSE, contact |-> Absent, stored |-> FALSE,
   unaddressed |-> FALSE]

At(w, op, step) == req[w].op = op /\ req[w].step = step

Finish(w) == req' = [req EXCEPT ![w] = Idle]

(* Mutant: row locks do not stop other writers. *)
WritableAlways(d) == TRUE

(* A row another request has locked cannot be written: the UPDATE waits.   *)
Writable(d) == rowLock[d] = NoOwner

-----------------------------------------------------------------------------
(* Contact creation, shared by claim, completion and dispatch-status.      *)

(* The request arrives and campaign_repository.get loads the campaign row. *)
Begin(w, op) ==
  /\ op \in Ops \cap {"claim", "complete", "dispatch_status"}
  /\ req[w].step = "idle"
  /\ req' = [req EXCEPT ![w] = [Idle EXCEPT !.op = op, !.step = "ensure",
                                  !.status = status, !.completed = completed]]
  /\ UNCHANGED <<dbVars, clientVars, claims>>

(* Where a request goes on once every eligible dealer has a contact.  The  *)
(* claim compares the status it loaded at its start.                       *)
AfterEnsure(r) ==
  CASE r.op # "claim"                      -> "count"
    [] r.op = "claim" /\ r.status = "DRAFT" -> "start"
    [] OTHER                               -> "select"

(* The eligible dealers that have no contact yet. *)
MissingContacts == {d \in Dealers : dealer[d] = "eligible" /\ contact[d] = Absent}

EnsureRead(w) ==
  /\ req[w].step = "ensure"
  /\ req' = [req EXCEPT ![w].rows = MissingContacts,
                        ![w].step = IF MissingContacts = {}
                                      THEN AfterEnsure(req[w]) ELSE "insert"]
  /\ UNCHANGED <<dbVars, clientVars, claims>>

(* Mutant: an upsert instead of an insert under the unique constraint. *)
EnsureUpsert(w) ==
  /\ req[w].step = "insert"
  /\ contact' = [d \in Dealers |-> IF d \in req[w].rows THEN "PENDING"
                                                        ELSE contact[d]]
  /\ req' = [req EXCEPT ![w].rows = {}, ![w].step = AfterEnsure(req[w])]
  /\ UNCHANGED <<dealer, status, completed, stored, answered, rowLock,
                 clientVars, claims>>

(* All missing contacts are inserted and committed together... *)
EnsureInsert(w) ==
  /\ req[w].step = "insert"
  /\ \A d \in req[w].rows : contact[d] = Absent
  /\ contact' = [d \in Dealers |-> IF d \in req[w].rows THEN "PENDING"
                                                        ELSE contact[d]]
  /\ req' = [req EXCEPT ![w].rows = {}, ![w].step = AfterEnsure(req[w])]
  /\ UNCHANGED <<dealer, status, completed, stored, answered, rowLock,
                 clientVars, claims>>

(* ...or, when another request inserted one of them first, the unique      *)
(* constraint (campaign_id, dealer_id) fails the whole request.            *)
EnsureConflict(w) ==
  /\ req[w].step = "insert"
  /\ \E d \in req[w].rows : contact[d] # Absent
  /\ Finish(w)
  /\ UNCHANGED <<dbVars, clientVars, claims>>

-----------------------------------------------------------------------------
(* claim_contacts *)

(* The campaign was a draft when it was loaded: start it and commit.       *)
ClaimStart(w) ==
  /\ At(w, "claim", "start")
  /\ status' = "STARTED"
  /\ req' = [req EXCEPT ![w].step = "select"]
  /\ UNCHANGED <<dealer, completed, contact, stored, answered, rowLock,
                 clientVars, claims>>

(* Mutants: the select does not lock; it skips dealers no longer eligible. *)
ClaimableUnlocked == {d \in Dealers : contact[d] = "PENDING"}
ClaimableListed ==
  {d \in Dealers : contact[d] = "PENDING" /\ Writable(d) /\ dealer[d] = "eligible"}

(* PENDING contacts of the campaign whose rows nobody has locked. *)
Claimable == {d \in Dealers : contact[d] = "PENDING" /\ Writable(d)}

(* Up to ClaimLimit of the claimable contacts.  Rows inserted together     *)
(* share created_at, so the ORDER BY does not say which come first.        *)
Batches(S) ==
  {B \in SUBSET S : \/ Cardinality(B) = ClaimLimit
                    \/ B = S /\ Cardinality(S) < ClaimLimit}

(* SELECT ... FOR UPDATE SKIP LOCKED LIMIT n, then the rows and their      *)
(* dealers are loaded.                                                     *)
ClaimSelect(w) ==
  /\ At(w, "claim", "select")
  /\ \E B \in Batches(Claimable) :
       /\ rowLock' = [d \in Dealers |-> IF d \in B THEN w ELSE rowLock[d]]
       /\ req' = [req EXCEPT ![w].rows = B, ![w].step = "reserve",
                    ![w].unaddressed = \E d \in B : dealer[d] = "no_email"]
  /\ UNCHANGED <<dealer, status, completed, contact, stored, answered,
                 clientVars, claims>>

(* Every selected contact becomes RESERVED; the commit releases the locks. *)
ClaimReserve(w) ==
  /\ At(w, "claim", "reserve")
  /\ contact' = [d \in Dealers |-> IF d \in req[w].rows THEN "RESERVED"
                                                        ELSE contact[d]]
  /\ rowLock' = [d \in Dealers |-> IF rowLock[d] = w THEN NoOwner ELSE rowLock[d]]
  /\ claims' = [d \in Dealers |-> IF d \in req[w].rows THEN claims[d] + 1
                                                       ELSE claims[d]]
  /\ req' = [req EXCEPT ![w].step = "respond"]
  /\ UNCHANGED <<dealer, status, completed, stored, answered, clientVars>>

(* Mutant: contacts without an address are left out of the answer. *)
ClaimRespondFiltered(w) ==
  /\ At(w, "claim", "respond")
  /\ toSend' = toSend \cup {d \in req[w].rows : dealer[d] # "no_email"}
  /\ Finish(w)
  /\ UNCHANGED <<dbVars, mails, reports, claims, lost>>

(* The answer is built after the commit: effective_to is an EmailStr, so a *)
(* dealer that lost its address since its contact was created turns the    *)
(* whole answer into an error.                                             *)
ClaimRespond(w) ==
  /\ At(w, "claim", "respond")
  /\ ~req[w].unaddressed
  /\ toSend' = toSend \cup req[w].rows
  /\ Finish(w)
  /\ UNCHANGED <<dbVars, mails, reports, claims, lost>>

ClaimRespondInvalid(w) ==
  /\ At(w, "claim", "respond")
  /\ req[w].unaddressed
  /\ lost' = lost \cup req[w].rows
  /\ Finish(w)
  /\ UNCHANGED <<dbVars, toSend, mails, reports, claims>>

-----------------------------------------------------------------------------
(* get_dispatch_status and complete_campaign *)

(* The counts are only reported. *)
DispatchStatusAnswer(w) ==
  /\ At(w, "dispatch_status", "count")
  /\ Finish(w)
  /\ UNCHANGED <<dbVars, clientVars, claims>>

(* Mutant: completion is not idempotent. *)
NeverCompleted(w) == FALSE

AlreadyCompleted(w) == req[w].status = "COMPLETED" /\ req[w].completed

SendableRemain == \E d \in Dealers : contact[d] \in BlockingStatuses

(* The loaded campaign is already completed: success, nothing is written.  *)
CompleteAgain(w) ==
  /\ At(w, "complete", "count")
  /\ AlreadyCompleted(w)
  /\ Finish(w)
  /\ UNCHANGED <<dbVars, clientVars, claims>>

(* CampaignCompletionBlockedError, answered with 409. *)
CompleteBlocked(w) ==
  /\ At(w, "complete", "count")
  /\ ~AlreadyCompleted(w)
  /\ SendableRemain
  /\ Finish(w)
  /\ UNCHANGED <<dbVars, clientVars, claims>>

(* Nothing blocks: the counts have been read, the writes come later. *)
CompleteCount(w) ==
  /\ At(w, "complete", "count")
  /\ ~AlreadyCompleted(w)
  /\ ~SendableRemain
  /\ req' = [req EXCEPT ![w].step = "finish"]
  /\ UNCHANGED <<dbVars, clientVars, claims>>

(* Assigning the value that was loaded writes nothing. *)
Assign(current, loaded, new) == IF new = loaded THEN current ELSE new

CompleteFinish(w) ==
  /\ At(w, "complete", "finish")
  /\ status' = Assign(status, req[w].status, "COMPLETED")
  /\ completed' = Assign(completed, req[w].completed, TRUE)
  /\ Finish(w)
  /\ UNCHANGED <<dealer, contact, stored, answered, rowLock, clientVars, claims>>

-----------------------------------------------------------------------------
(* mark_sent, mark_send_failed, the inbound handlers and update_status:    *)
(* one read, then one write.                                               *)

Load(w, op, rows) ==
  /\ op \in Ops
  /\ req[w].step = "idle"
  /\ \E d \in rows :
       req' = [req EXCEPT ![w] = [Idle EXCEPT !.op = op, !.step = "write",
                 !.rows = {d}, !.contact = contact[d], !.stored = stored[d]]]
  /\ UNCHANGED <<dbVars, clientVars, claims>>

(* The mail workflow posts the result of one mail.  The report stays until *)
(* it is acknowledged: a retry may overlap the first attempt.              *)
PostReport(w, kind, d) ==
  Load(w, kind, {d} \cap {r.dealer : r \in {x \in reports : x.kind = kind}})

(* list_open_for_campaign and its twin for mails without a campaign. *)
OpenForSender == {"SENT", "REPLIED", "OFFER_EXTRACTED", "NEEDS_REVIEW",
                  "SEND_STATE_UNKNOWN"}

(* An inbound mail can be attributed to any dealer while the campaign takes *)
(* inbound mail, or once a mail (with its ids and the campaign token in its *)
(* subject) is out; otherwise only by the sender of an open contact.        *)
Attributable(d) ==
  \/ status \in {"STARTED", "COMPLETED"}
  \/ \E e \in Dealers : mails[e] > 0
  \/ contact[d] \in OpenForSender

BeginReply(w) == Load(w, "reply", {d \in Dealers : Attributable(d)})

(* Offer extraction of an inbound mail that is linked to a contact. *)
BeginExtract(w) == Load(w, "extract", {d \in Dealers : answered[d]})

BeginPatch(w) ==
  /\ "patch" \in Ops
  /\ req[w].step = "idle"
  /\ req' = [req EXCEPT ![w] = [Idle EXCEPT !.op = "patch", !.step = "write",
                                  !.status = status]]
  /\ UNCHANGED <<dbVars, clientVars, claims>>

SetContact(w, d, new) ==
  contact' = [contact EXCEPT ![d] = Assign(contact[d], req[w].contact, new)]

(* The 2xx reaches the mail workflow, or it does not and the call will be  *)
(* repeated.                                                               *)
Acknowledge(d, kind) ==
  \/ reports' = reports \ {[dealer |-> d, kind |-> kind]}
  \/ Failures /\ UNCHANGED reports

(* mark_sent: a report whose message id the contact already holds changes  *)
(* nothing.                                                                *)
MarkSentAgain(w) ==
  /\ At(w, "sent", "write")
  /\ req[w].stored
  /\ \E d \in req[w].rows : Acknowledge(d, "sent")
  /\ Finish(w)
  /\ UNCHANGED <<dbVars, toSend, mails, claims, lost>>

MarkSent(w) ==
  /\ At(w, "sent", "write")
  /\ ~req[w].stored
  /\ \E d \in req[w].rows :
       /\ Writable(d)
       /\ SetContact(w, d, "SENT")
       /\ stored' = [stored EXCEPT ![d] = TRUE]
       /\ Acknowledge(d, "sent")
  /\ Finish(w)
  /\ UNCHANGED <<dealer, status, completed, answered, rowLock, toSend, mails,
                 claims, lost>>

(* Mutants of the status a failure report leaves: another spelling, a       *)
(* retry that queues the contact again, a reservation that is kept.        *)
FailedStatusLowercase(kind) == "send_failed"
FailedStatusRetry(kind) == "PENDING"
FailedStatusReserved(kind) == IF kind = "unknown" THEN "SEND_STATE_UNKNOWN" ELSE "RESERVED"

FailedStatus(kind) == IF kind = "unknown" THEN "SEND_STATE_UNKNOWN" ELSE "SEND_FAILED"

(* mark_send_failed looks at neither the status nor the stored message id. *)
MarkSendFailed(w) ==
  /\ req[w].op \in {"failed", "unknown"}
  /\ req[w].step = "write"
  /\ \E d \in req[w].rows :
       /\ Writable(d)
       /\ SetContact(w, d, FailedStatus(req[w].op))
       /\ Acknowledge(d, req[w].op)
  /\ Finish(w)
  /\ UNCHANGED <<dealer, status, completed, stored, answered, rowLock, toSend,
                 mails, claims, lost>>

(* register_inbound_email: the contact becomes REPLIED whatever it was; a  *)
(* missing contact is created, unless someone else just did.               *)
RegisterReply(w) ==
  /\ At(w, "reply", "write")
  /\ \E d \in req[w].rows :
       /\ req[w].contact = Absent => contact[d] = Absent
       /\ Writable(d)
       /\ SetContact(w, d, "REPLIED")
       /\ answered' = [answered EXCEPT ![d] = TRUE]
  /\ Finish(w)
  /\ UNCHANGED <<dealer, status, completed, stored, rowLock, clientVars, claims>>

RegisterReplyConflict(w) ==
  /\ At(w, "reply", "write")
  /\ \E d \in req[w].rows : req[w].contact = Absent /\ contact[d] # Absent
  /\ Finish(w)
  /\ UNCHANGED <<dbVars, clientVars, claims>>

(* _apply_extraction_result copies the outcome to the contact. *)
ExtractOffer(w) ==
  /\ At(w, "extract", "write")
  /\ \E d \in req[w].rows, result \in ExtractionResults :
       /\ Writable(d)
       /\ SetContact(w, d, result)
  /\ Finish(w)
  /\ UNCHANGED <<dealer, status, completed, stored, answered, rowLock,
                 clientVars, claims>>

UpdateStatus(w) ==
  /\ At(w, "patch", "write")
  /\ \E s \in PatchStatuses : status' = Assign(status, req[w].status, s)
  /\ Finish(w)
  /\ UNCHANGED <<dealer, completed, contact, stored, answered, rowLock,
                 clientVars, claims>>

-----------------------------------------------------------------------------
(* Failures, the dealer table and the mail workflow *)

(* A request dies: an exception, a dropped connection, a killed process.   *)
(* Its session is closed, which rolls back and releases its locks.  After  *)
(* the claim's commit only the answer is lost.                             *)
Abort(w) ==
  /\ Failures
  /\ req[w].step # "idle"
  /\ rowLock' = [d \in Dealers |-> IF rowLock[d] = w THEN NoOwner ELSE rowLock[d]]
  /\ lost' = IF req[w].step = "respond" THEN lost \cup req[w].rows ELSE lost
  /\ Finish(w)
  /\ UNCHANGED <<dealer, status, completed, contact, stored, answered, toSend,
                 mails, reports, claims>>

(* The dealer import, update and create requests change who is eligible.   *)
ChangeDealer(d) ==
  /\ \E s \in DealerChanges \ {dealer[d]} : dealer' = [dealer EXCEPT ![d] = s]
  /\ UNCHANGED <<status, completed, contact, stored, answered, rowLock, req,
                 clientVars, claims>>

Filed(d, kinds) == {[dealer |-> d, kind |-> k] : k \in kinds}

(* The workflow mails one contact it was handed: the mail leaves, it       *)
(* bounces at once, or the workflow cannot tell.                           *)
Send(d) ==
  /\ d \in toSend
  /\ toSend' = toSend \ {d}
  /\ \/ /\ mails' = [mails EXCEPT ![d] = @ + 1]
        /\ \E kinds \in {{"sent"}, {"unknown"}, {"sent", "unknown"}} \cap SUBSET Ops :
             reports' = reports \cup Filed(d, kinds)
     \/ /\ UNCHANGED mails
        /\ \E kinds \in {{"failed"}, {"unknown"}} \cap SUBSET Ops :
             reports' = reports \cup Filed(d, kinds)
  /\ UNCHANGED <<dbVars, req, claims, lost>>

(* The workflow execution ends with work left. *)
WorkflowDies ==
  /\ Failures
  /\ toSend # {} \/ reports # {}
  /\ lost' = lost \cup toSend \cup {r.dealer : r \in reports}
  /\ toSend' = {}
  /\ reports' = {}
  /\ UNCHANGED <<dbVars, req, mails, claims>>

-----------------------------------------------------------------------------
Init ==
  /\ dealer \in [Dealers -> DealerChanges \cup {"eligible"}]
  /\ status = "DRAFT"
  /\ completed = FALSE
  /\ contact = [d \in Dealers |-> Absent]
  /\ stored = [d \in Dealers |-> FALSE]
  /\ answered = [d \in Dealers |-> FALSE]
  /\ rowLock = [d \in Dealers |-> NoOwner]
  /\ req = [w \in Workers |-> Idle]
  /\ toSend = {}
  /\ mails = [d \in Dealers |-> 0]
  /\ reports = {}
  /\ claims = [d \in Dealers |-> 0]
  /\ lost = {}

Arrive(w) ==
  \/ \E op \in {"claim", "complete", "dispatch_status"} : Begin(w, op)
  \/ \E kind \in ReportKinds, d \in Dealers : PostReport(w, kind, d)
  \/ BeginReply(w)
  \/ BeginExtract(w)
  \/ BeginPatch(w)

(* One step of a request that has arrived. *)
Proceed(w) ==
  \/ EnsureRead(w) \/ EnsureInsert(w) \/ EnsureConflict(w)
  \/ ClaimStart(w) \/ ClaimSelect(w) \/ ClaimReserve(w)
  \/ ClaimRespond(w) \/ ClaimRespondInvalid(w)
  \/ DispatchStatusAnswer(w)
  \/ CompleteAgain(w) \/ CompleteBlocked(w) \/ CompleteCount(w) \/ CompleteFinish(w)
  \/ MarkSentAgain(w) \/ MarkSent(w) \/ MarkSendFailed(w)
  \/ RegisterReply(w) \/ RegisterReplyConflict(w) \/ ExtractOffer(w)
  \/ UpdateStatus(w)

Next ==
  \/ \E w \in Workers : Arrive(w) \/ Proceed(w) \/ Abort(w)
  \/ \E d \in Dealers : ChangeDealer(d) \/ Send(d)
  \/ WorkflowDies

Spec == Init /\ [][Next]_vars

-----------------------------------------------------------------------------
(* The workflow asks for a batch while there is something to claim. *)
SendableClaim(w) ==
  /\ \E d \in Dealers : contact[d] = "PENDING"
  /\ Begin(w, "claim")

(* Fairness.  A thread that serves a request runs to its end.  The request *)
(* queue of the server is FIFO, so a call that is repeated is eventually   *)
(* served; the documented workflow repeats the claim while contacts are    *)
(* pending, mails everything it was handed and posts every result.         *)
Fairness ==
  /\ \A w \in Workers : WF_vars(Proceed(w))
  /\ \A d \in Dealers : WF_vars(Send(d))
  /\ SF_vars(\E w \in Workers : SendableClaim(w))
  /\ \A kind \in ReportKinds, d \in Dealers :
       SF_vars(\E w \in Workers : PostReport(w, kind, d))

FairSpec == Spec /\ Fairness

-----------------------------------------------------------------------------
(* Properties *)

(* Every row, request and message has its shape; a request keeps the       *)
(* contacts it inserts, reserves or writes only while it is being served.  *)
TypeOK ==
  /\ dealer \in [Dealers -> DealerStates]
  /\ status \in CampaignStatuses
  /\ completed \in BOOLEAN
  /\ contact \in [Dealers -> ContactStatuses \cup {Absent}]
  /\ stored \in [Dealers -> BOOLEAN]
  /\ answered \in [Dealers -> BOOLEAN]
  /\ rowLock \in [Dealers -> Workers \cup {NoOwner}]
  /\ req \in [Workers -> Request]
  /\ toSend \in SUBSET Dealers
  /\ mails \in [Dealers -> Nat]
  /\ reports \in SUBSET Reports
  /\ claims \in [Dealers -> Nat]
  /\ lost \in SUBSET Dealers

(* FOR UPDATE SKIP LOCKED: between a claim's select and its commit the     *)
(* rows it picked are its own, and they are still what it selected.        *)
PickedRowsHeld ==
  \A w \in Workers : At(w, "claim", "reserve") =>
    \A d \in req[w].rows : rowLock[d] = w /\ contact[d] = "PENDING"

(* However requests interleave, die or are repeated, a contact is reserved *)
(* at most once and its dealer receives at most one mail, and none without *)
(* a claim.                                                                *)
OneMailPerDealer ==
  \A d \in Dealers : claims[d] <= 1 /\ mails[d] <= claims[d]

(* A contact that stays RESERVED is somebody's business: its answer is on  *)
(* the way, the workflow has to mail it or to post its result, or that     *)
(* answer or result is known to be lost (nothing else releases it).        *)
ReservedAccounted ==
  \A d \in Dealers : contact[d] = "RESERVED" =>
    \/ d \in toSend \cup lost
    \/ \E r \in reports : r.dealer = d
    \/ \E w \in Workers : At(w, "claim", "respond") /\ d \in req[w].rows

(* A contact that holds the message id of its mail is never claimable      *)
(* again, nor counted as waiting for its mail, whatever late failure       *)
(* reports, replies and extractions make of its status.                    *)
RecordedIsSettled ==
  \A d \in Dealers : stored[d] => contact[d] \notin {Absent, "PENDING", "RESERVED"}

(* The contact bookkeeping implements the outreach it stands for.          *)
PhaseOf(s) ==
  CASE s = Absent     -> "none"
    [] s = "PENDING"  -> "queued"
    [] s = "RESERVED" -> "claimed"
    [] OTHER          -> "settled"

Abstract == INSTANCE Outreach WITH
  phase <- [d \in Dealers |-> PhaseOf(contact[d])], grants <- claims

ImplementsOutreach == Abstract!Spec

(* Completion is blocked while a PENDING, RESERVED, SEND_FAILED or         *)
(* SEND_STATE_UNKNOWN contact exists (docs/workflows/campaign_completion).  *)
CompletionBlocked ==
  [][status # "COMPLETED" /\ status' = "COMPLETED" =>
       \A d \in Dealers : contact[d] \notin
         {"PENDING", "RESERVED", "SEND_FAILED", "SEND_STATE_UNKNOWN"}]_vars

(* "Repeating the request for an already completed campaign returns        *)
(* success again": a request that finds completed_at set is not refused.   *)
CompletionIdempotent ==
  [][\A w \in Workers : CompleteBlocked(w) => ~req[w].completed]_vars

(* Every queued contact is eventually claimed or settled otherwise. *)
PendingDrains ==
  \A d \in Dealers : contact[d] = "PENDING" ~> contact[d] # "PENDING"

(* Without failures every reserved contact gets its result, unless the     *)
(* claim that reserved it could not be answered: a dealer of its batch had *)
(* lost its address, and nothing takes the reservation back.               *)
ReservedSettles ==
  \A d \in Dealers :
    contact[d] = "RESERVED" ~> contact[d] # "RESERVED" \/ d \in lost
=============================================================================
