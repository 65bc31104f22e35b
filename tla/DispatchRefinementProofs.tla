------------------------ MODULE DispatchRefinementProofs ------------------------
(***************************************************************************)
(* CampaignDispatch implements Outreach, and reserved and recorded         *)
(* contacts are accounted for: proofs on top of CampaignDispatchProofs.    *)
(***************************************************************************)
EXTENDS CampaignDispatchProofs

(* What a session has loaded of a contact is never ahead of the row. *)
SeenIsOld ==
  \A w \in Workers : req[w].step = "write" => \A d \in req[w].rows :
    /\ req[w].contact \notin Unsettled => contact[d] \notin Unsettled
    /\ req[w].stored => stored[d]

AccountInv ==
  /\ DispatchInv
  /\ SeenIsOld
  /\ RecordedIsSettled
  /\ ReservedAccounted

-----------------------------------------------------------------------------
(* How a step may move contacts. *)

(* The status a row write leaves behind: settled, or what was there when   *)
(* the session had already loaded the status it wanted to write.           *)
LEMMA WriteSettles ==
  ASSUME TypeOK, SeenIsOld, NEW w \in Workers, NEW d \in req[w].rows, d \in Dealers,
         NEW new, new \notin Unsettled, req[w].step = "write", SetContact(w, d, new)
  PROVE  /\ contact'[d] \notin Unsettled
         /\ \A e \in Dealers \ {d} : contact'[e] = contact[e]
  <1>1. contact'[d] = Assign(contact[d], req[w].contact, new)
        /\ \A e \in Dealers \ {d} : contact'[e] = contact[e]
    BY DEF SetContact, TypeOK
  <1>2. CASE new = req[w].contact
    BY <1>1, <1>2 DEF SeenIsOld, Assign
  <1>3. CASE new # req[w].contact
    BY <1>1, <1>3 DEF Assign
  <1>4. QED
    BY <1>1, <1>2, <1>3

(* The three kinds of step that touch contact rows; all others leave them. *)
Inserts(w) == EnsureInsert(w)
Reserves(w) == ClaimReserve(w)
Writes(w, d) ==
  /\ req[w].step = "write"
  /\ d \in req[w].rows
  /\ \E new \in ContactStatuses \ Unsettled : SetContact(w, d, new)
  /\ claims' = claims /\ mails' = mails /\ toSend' = toSend

LEMMA ContactSteps ==
  ASSUME TypeOK, [Next]_vars
  PROVE  \/ contact' = contact
         \/ \E w \in Workers : Inserts(w) \/ Reserves(w)
         \/ \E w \in Workers : \E d \in req[w].rows : Writes(w, d)
  <1> USE DEF dbVars, clientVars
  <1>1. ASSUME NEW w \in Workers, Arrive(w) PROVE contact' = contact
    BY <1>1 DEF Arrive, Begin, PostReport, BeginReply, BeginExtract, BeginPatch, Load
  <1>2. ASSUME NEW w \in Workers, Proceed(w)
        PROVE  \/ contact' = contact \/ Inserts(w) \/ Reserves(w)
               \/ \E d \in req[w].rows : Writes(w, d)
    <2>1. CASE MarkSent(w)
      <3>1. "SENT" \in ContactStatuses \ Unsettled
        BY DEF ContactStatuses, Unsettled, Absent
      <3>2. QED
        BY <2>1, <3>1 DEF MarkSent, Writes, At
    <2>2. CASE MarkSendFailed(w)
      <3>1. FailedStatus(req[w].op) \in ContactStatuses \ Unsettled
        BY DEF FailedStatus, ContactStatuses, Unsettled, Absent
      <3>2. QED
        BY <2>2, <3>1 DEF MarkSendFailed, Writes
    <2>3. CASE RegisterReply(w)
      <3>1. "REPLIED" \in ContactStatuses \ Unsettled
        BY DEF ContactStatuses, Unsettled, Absent
      <3>2. QED
        BY <2>3, <3>1 DEF RegisterReply, Writes, At
    <2>4. CASE ExtractOffer(w)
      <3>1. ExtractionResults \subseteq ContactStatuses \ Unsettled
        BY DEF ExtractionResults, ContactStatuses, Unsettled, Absent
      <3>2. QED
        BY <2>4, <3>1 DEF ExtractOffer, Writes, At
    <2>5. CASE EnsureInsert(w) \/ ClaimReserve(w)
      BY <2>5 DEF Inserts, Reserves
    <2>6. CASE \/ EnsureRead(w) \/ EnsureConflict(w) \/ ClaimStart(w) \/ ClaimSelect(w)
               \/ ClaimRespond(w) \/ ClaimRespondInvalid(w) \/ DispatchStatusAnswer(w)
               \/ CompleteAgain(w) \/ CompleteBlocked(w) \/ CompleteCount(w)
               \/ CompleteFinish(w) \/ MarkSentAgain(w) \/ RegisterReplyConflict(w)
               \/ UpdateStatus(w)
      BY <2>6 DEF EnsureRead, EnsureConflict, ClaimStart, ClaimSelect, ClaimRespond,
         ClaimRespondInvalid, DispatchStatusAnswer, CompleteAgain, CompleteBlocked,
         CompleteCount, CompleteFinish, MarkSentAgain, RegisterReplyConflict, UpdateStatus
    <2>7. QED
      BY <1>2, <2>1, <2>2, <2>3, <2>4, <2>5, <2>6 DEF Proceed
  <1>3. ASSUME NEW w \in Workers, Abort(w) PROVE contact' = contact
    BY <1>3 DEF Abort
  <1>4. ASSUME \/ \E d \in Dealers : ChangeDealer(d) \/ Send(d)
               \/ WorkflowDies
               \/ UNCHANGED vars
        PROVE  contact' = contact
    BY <1>4 DEF ChangeDealer, Send, WorkflowDies, vars
  <1>5. QED
    BY <1>1, <1>2, <1>3, <1>4 DEF Next

(* Only a claim's commit changes the claim counts, and only Send a mail    *)
(* count, each of a dealer that was claimed and not mailed.                *)
LEMMA CountSteps ==
  ASSUME TypeOK, [Next]_vars
  PROVE  \/ claims' = claims /\ mails' = mails
         \/ \E w \in Workers : ClaimReserve(w)
         \/ \E d \in Dealers : Send(d)
  <1> USE DEF dbVars, clientVars
  <1>1. ASSUME NEW w \in Workers, Arrive(w) PROVE claims' = claims /\ mails' = mails
    BY <1>1 DEF Arrive, Begin, PostReport, BeginReply, BeginExtract, BeginPatch, Load
  <1>2. ASSUME NEW w \in Workers, Proceed(w), ~ClaimReserve(w)
        PROVE  claims' = claims /\ mails' = mails
    BY <1>2 DEF Proceed, EnsureRead, EnsureInsert, EnsureConflict, ClaimStart, ClaimSelect,
       ClaimRespond, ClaimRespondInvalid, DispatchStatusAnswer, CompleteAgain,
       CompleteBlocked, CompleteCount, CompleteFinish, MarkSentAgain, MarkSent,
       MarkSendFailed, RegisterReply, RegisterReplyConflict, ExtractOffer, UpdateStatus
  <1>3. ASSUME NEW w \in Workers, Abort(w) PROVE claims' = claims /\ mails' = mails
    BY <1>3 DEF Abort
  <1>4. ASSUME (\E d \in Dealers : ChangeDealer(d)) \/ WorkflowDies \/ UNCHANGED vars
        PROVE  claims' = claims /\ mails' = mails
    BY <1>4 DEF ChangeDealer, WorkflowDies, vars
  <1>5. QED
    BY <1>1, <1>2, <1>3, <1>4 DEF Next

-----------------------------------------------------------------------------
(* Settled contacts stay settled. *)

LEMMA SettledStays ==
  ASSUME DispatchInv, SeenIsOld, [Next]_vars, NEW d \in Dealers, contact[d] \notin Unsettled
  PROVE  contact'[d] \notin Unsettled
  <1>t. TypeOK
    BY DEF DispatchInv
  <1>1. CASE contact' = contact
    BY <1>1
  <1>2. ASSUME NEW w \in Workers, Inserts(w) PROVE contact'[d] \notin Unsettled
    BY <1>2 DEF Inserts, EnsureInsert, Unsettled
  <1>3. ASSUME NEW w \in Workers, Reserves(w) PROVE contact'[d] \notin Unsettled
    BY <1>3 DEF Reserves, ClaimReserve, DispatchInv, PickedRowsHeld, Unsettled
  <1>4. ASSUME NEW w \in Workers, NEW e \in req[w].rows, Writes(w, e)
        PROVE  contact'[d] \notin Unsettled
    <2>1. e \in Dealers
      BY <1>t DEF TypeOK, Request
    <2>2. QED
      BY <1>4, <1>t, <2>1, WriteSettles DEF Writes
  <1>5. QED
    BY <1>1, <1>2, <1>3, <1>4, <1>t, ContactSteps

-----------------------------------------------------------------------------
(* Refinement *)

LEMMA InitRefines == Init => Abstract!Init
  <1> SUFFICES ASSUME Init PROVE Abstract!Init
    OBVIOUS
  <1>1. \A d \in Dealers : PhaseOf(contact[d]) = "none"
    BY DEF Init, PhaseOf, Absent
  <1>2. [d \in Dealers |-> PhaseOf(contact[d])] = [d \in Dealers |-> "none"]
    BY <1>1
  <1>3. claims = [d \in Dealers |-> 0] /\ mails = [d \in Dealers |-> 0]
    BY DEF Init
  <1>4. QED
    BY <1>2, <1>3 DEF Abstract!Init

LEMMA NextRefines ==
  DispatchInv /\ SeenIsOld /\ [Next]_vars => [Abstract!Next]_(Abstract!vars)
  <1> SUFFICES ASSUME DispatchInv, SeenIsOld, [Next]_vars
               PROVE  [Abstract!Next]_(Abstract!vars)
    OBVIOUS
  <1> DEFINE phase == [d \in Dealers |-> PhaseOf(contact[d])]
             phaseN == [d \in Dealers |-> PhaseOf(contact'[d])]
  <1>t. TypeOK
    BY DEF DispatchInv
  <1>r. \A w \in Workers : req[w].rows \in SUBSET Dealers
    BY <1>t DEF TypeOK, Request
  <1>1. ASSUME NEW w \in Workers, Inserts(w) PROVE [Abstract!Next]_(Abstract!vars)
    <2>1. /\ claims' = claims /\ mails' = mails
          /\ \A d \in req[w].rows : contact[d] = Absent
          /\ contact' = [d \in Dealers |-> IF d \in req[w].rows THEN "PENDING" ELSE contact[d]]
      BY <1>1 DEF Inserts, EnsureInsert, clientVars
    <2>2. Abstract!Queue(req[w].rows)
      BY <1>r, <2>1 DEF Abstract!Queue, PhaseOf, Absent
    <2>3. QED
      BY <1>r, <2>2 DEF Abstract!Next
  <1>2. ASSUME NEW w \in Workers, Reserves(w) PROVE [Abstract!Next]_(Abstract!vars)
    <2>1. /\ mails' = mails
          /\ contact' = [d \in Dealers |-> IF d \in req[w].rows THEN "RESERVED" ELSE contact[d]]
          /\ claims' = [d \in Dealers |-> IF d \in req[w].rows THEN claims[d] + 1 ELSE claims[d]]
      BY <1>2 DEF Reserves, ClaimReserve, clientVars
    <2>2. \A d \in req[w].rows : contact[d] = "PENDING" /\ claims[d] = 0
      BY <1>2, <1>r DEF Reserves, ClaimReserve, DispatchInv, PickedRowsHeld, UnclaimedIsFresh
    <2>3. Abstract!Claim(req[w].rows)
      BY <1>r, <2>1, <2>2 DEF Abstract!Claim, PhaseOf, Absent
    <2>4. QED
      BY <1>r, <2>3 DEF Abstract!Next
  <1>3. ASSUME NEW w \in Workers, NEW d \in req[w].rows, Writes(w, d)
        PROVE  [Abstract!Next]_(Abstract!vars)
    <2>1. d \in Dealers
      BY <1>r
    <2>2. contact'[d] \notin Unsettled /\ \A e \in Dealers \ {d} : contact'[e] = contact[e]
      BY <1>3, <1>t, <2>1, WriteSettles DEF Writes
    <2>3. PhaseOf(contact'[d]) = "settled"
      BY <2>2 DEF PhaseOf, Unsettled
    <2>4. phaseN = [phase EXCEPT ![d] = "settled"]
      BY <2>1, <2>2, <2>3
    <2>5. Abstract!Settle(d)
      BY <1>3, <2>4 DEF Writes, Abstract!Settle
    <2>6. QED
      BY <2>1, <2>5 DEF Abstract!Next
  <1>4. ASSUME NEW d \in Dealers, Send(d) PROVE [Abstract!Next]_(Abstract!vars)
    <2>1. contact' = contact /\ claims' = claims /\ d \in toSend
      BY <1>4 DEF Send, dbVars
    <2>2. mails' = mails \/ mails' = [mails EXCEPT ![d] = @ + 1]
      BY <1>4 DEF Send
    <2>3. mails[d] < claims[d]
      BY <2>1 DEF DispatchInv, HandedIsUnmailed
    <2>4. CASE mails' = mails
      BY <2>1, <2>4 DEF Abstract!vars
    <2>5. CASE mails' = [mails EXCEPT ![d] = @ + 1]
      <3>1. Abstract!Mail(d)
        BY <2>1, <2>3, <2>5 DEF Abstract!Mail
      <3>2. QED
        BY <3>1 DEF Abstract!Next
    <2>6. QED
      BY <2>2, <2>4, <2>5
  <1>5. CASE contact' = contact /\ claims' = claims /\ mails' = mails
    BY <1>5 DEF Abstract!vars
  <1>6. QED
    BY <1>1, <1>2, <1>3, <1>4, <1>5, <1>t, ContactSteps, CountSteps
       DEF Inserts, Reserves, Writes

-----------------------------------------------------------------------------
(* What a session has loaded stays older than the row. *)

LEMMA StoredStays ==
  ASSUME TypeOK, [Next]_vars, NEW d \in Dealers, stored[d]
  PROVE  stored'[d]
  <1> USE DEF dbVars
  <1>1. ASSUME NEW w \in Workers, Arrive(w) PROVE stored' = stored
    BY <1>1 DEF Arrive, Begin, PostReport, BeginReply, BeginExtract, BeginPatch, Load
  <1>2. ASSUME NEW w \in Workers, MarkSent(w) PROVE stored'[d]
    BY <1>2 DEF MarkSent, TypeOK
  <1>3. ASSUME NEW w \in Workers, Proceed(w), ~MarkSent(w) PROVE stored' = stored
    BY <1>3 DEF Proceed, EnsureRead, EnsureInsert, EnsureConflict, ClaimStart, ClaimSelect,
       ClaimReserve, ClaimRespond, ClaimRespondInvalid, DispatchStatusAnswer, CompleteAgain,
       CompleteBlocked, CompleteCount, CompleteFinish, MarkSentAgain, MarkSendFailed,
       RegisterReply, RegisterReplyConflict, ExtractOffer, UpdateStatus
  <1>4. ASSUME NEW w \in Workers, Abort(w) PROVE stored' = stored
    BY <1>4 DEF Abort
  <1>5. ASSUME \/ \E e \in Dealers : ChangeDealer(e) \/ Send(e)
               \/ WorkflowDies
               \/ UNCHANGED vars
        PROVE  stored' = stored
    BY <1>5 DEF ChangeDealer, Send, WorkflowDies, vars
  <1>6. QED
    BY <1>1, <1>2, <1>3, <1>4, <1>5 DEF Next

(* A request about to write was about to write before, or has just loaded. *)
LEMMA WriteRecords ==
  ASSUME TypeOK, [Next]_vars, NEW w \in Workers, req'[w].step = "write", req'[w] # req[w]
  PROVE  \A d \in req'[w].rows : req'[w].contact = contact[d] /\ req'[w].stored = stored[d]
  <1>i. Idle.step = "idle"
    BY DEF Idle
  <1>1. ASSUME NEW v \in Workers, NEW op, NEW rows, Load(v, op, rows)
        PROVE  \A d \in req'[w].rows :
                 req'[w].contact = contact[d] /\ req'[w].stored = stored[d]
    BY <1>1 DEF Load, Idle, TypeOK
  <1>2. ASSUME NEW v \in Workers, Arrive(v)
        PROVE  \A d \in req'[w].rows :
                 req'[w].contact = contact[d] /\ req'[w].stored = stored[d]
    <2>1. CASE \E op \in {"claim", "complete", "dispatch_status"} : Begin(v, op)
      BY <2>1 DEF Begin, Idle, TypeOK
    <2>2. CASE BeginPatch(v)
      BY <2>2 DEF BeginPatch, Idle, TypeOK
    <2>3. CASE \/ BeginReply(v) \/ BeginExtract(v)
               \/ \E kind \in ReportKinds, d \in Dealers : PostReport(v, kind, d)
      BY <1>1, <2>3 DEF BeginReply, BeginExtract, PostReport
    <2>4. QED
      BY <1>2, <2>1, <2>2, <2>3 DEF Arrive
  <1>3. ASSUME NEW v \in Workers, Finish(v) PROVE FALSE
    BY <1>3, <1>i DEF Finish, TypeOK
  <1>4. ASSUME NEW v \in Workers, Proceed(v) PROVE FALSE
    <2>1. CASE EnsureRead(v) \/ EnsureInsert(v)
      BY <2>1 DEF EnsureRead, EnsureInsert, AfterEnsure, TypeOK, Request
    <2>2. CASE ClaimStart(v) \/ ClaimSelect(v) \/ ClaimReserve(v) \/ CompleteCount(v)
      <3>1. ASSUME NEW step, step # "write", req' = [req EXCEPT ![v].step = step]
            PROVE  FALSE
        BY <3>1 DEF TypeOK, Request
      <3>2. CASE ClaimSelect(v)
        BY <3>2 DEF ClaimSelect, TypeOK, Request
      <3>3. QED
        BY <2>2, <3>1, <3>2 DEF ClaimStart, ClaimReserve, CompleteCount
    <2>3. CASE Finish(v)
      BY <1>3, <2>3
    <2>4. QED
      BY <1>4, <2>1, <2>2, <2>3 DEF Proceed, EnsureConflict, ClaimRespond,
         ClaimRespondInvalid, DispatchStatusAnswer, CompleteAgain, CompleteBlocked,
         CompleteFinish, MarkSentAgain, MarkSent, MarkSendFailed, RegisterReply,
         RegisterReplyConflict, ExtractOffer, UpdateStatus
  <1>5. ASSUME NEW v \in Workers, Abort(v) PROVE FALSE
    BY <1>3, <1>5 DEF Abort
  <1>6. req' # req
    OBVIOUS
  <1>7. ~(\E d \in Dealers : ChangeDealer(d) \/ Send(d)) /\ ~WorkflowDies /\ ~UNCHANGED vars
    BY <1>6 DEF ChangeDealer, Send, WorkflowDies, vars
  <1>8. QED
    BY <1>2, <1>4, <1>5, <1>7 DEF Next

LEMMA SeenStep ==
  ASSUME DispatchInv, SeenIsOld, [Next]_vars
  PROVE  SeenIsOld'
  <1>t. TypeOK /\ TypeOK'
    BY TypeOKStep DEF DispatchInv
  <1> SUFFICES ASSUME NEW w \in Workers, req'[w].step = "write", NEW d \in req'[w].rows
               PROVE  /\ req'[w].contact \notin Unsettled => contact'[d] \notin Unsettled
                      /\ req'[w].stored => stored'[d]
    BY DEF SeenIsOld
  <1>1. d \in Dealers
    BY <1>t DEF TypeOK, Request
  <1>2. /\ req'[w].contact \notin Unsettled => contact[d] \notin Unsettled
        /\ req'[w].stored => stored[d]
    <2>1. CASE req'[w] = req[w]
      BY <2>1 DEF SeenIsOld
    <2>2. CASE req'[w] # req[w]
      BY <1>t, <2>2, WriteRecords
    <2>3. QED
      BY <2>1, <2>2
  <1>3. QED
    BY <1>1, <1>2, <1>t, SettledStays, StoredStays

-----------------------------------------------------------------------------
(* A contact with a stored message id is settled. *)

LEMMA RecordedStep ==
  ASSUME DispatchInv, SeenIsOld, RecordedIsSettled, [Next]_vars
  PROVE  RecordedIsSettled'
  <1>t. TypeOK
    BY DEF DispatchInv
  <1> SUFFICES ASSUME NEW d \in Dealers, stored'[d] PROVE contact'[d] \notin Unsettled
    BY DEF RecordedIsSettled, Unsettled
  <1>1. CASE stored[d]
    BY <1>1, SettledStays DEF RecordedIsSettled, Unsettled
  <1>2. CASE ~stored[d]
    <2>1. PICK w \in Workers : MarkSent(w)
      BY ZenonT(20), <1>2 DEF Next, Arrive, Begin, PostReport, BeginReply, BeginExtract, BeginPatch,
         Load, Proceed, EnsureRead, EnsureInsert, EnsureConflict, ClaimStart, ClaimSelect,
         ClaimReserve, ClaimRespond, ClaimRespondInvalid, DispatchStatusAnswer,
         CompleteAgain, CompleteBlocked, CompleteCount, CompleteFinish, MarkSentAgain,
         MarkSendFailed, RegisterReply, RegisterReplyConflict, ExtractOffer, UpdateStatus,
         Abort, ChangeDealer, Send, WorkflowDies, vars, dbVars
    <2>2. PICK e \in req[w].rows :
            SetContact(w, e, "SENT") /\ stored' = [stored EXCEPT ![e] = TRUE]
      BY <2>1 DEF MarkSent
    <2>3. e = d
      BY <1>2, <2>2, <1>t DEF TypeOK
    <2>4. "SENT" \notin Unsettled
      BY DEF Unsettled, Absent
    <2>5. req[w].step = "write"
      BY <2>1 DEF MarkSent, At
    <2>6. QED
      BY <1>t, <2>2, <2>3, <2>4, <2>5, WriteSettles
  <1>3. QED
    BY <1>1, <1>2

-----------------------------------------------------------------------------
(* A reserved contact is accounted for. *)

Handled(d) == d \in toSend \cup lost
Reported(d) == \E r \in reports : r.dealer = d
Answered(d) == \E w \in Workers : At(w, "claim", "respond") /\ d \in req[w].rows
Accounted(d) == Handled(d) \/ Reported(d) \/ Answered(d)

(* Only a claim's commit makes a contact RESERVED. *)
LEMMA ReservedBefore ==
  ASSUME TypeOK, SeenIsOld, [Next]_vars, NEW d \in Dealers, contact'[d] = "RESERVED"
  PROVE  \/ contact[d] = "RESERVED"
         \/ \E w \in Workers : ClaimReserve(w) /\ d \in req[w].rows
  <1>1. ASSUME NEW w \in Workers, Inserts(w) PROVE contact[d] = "RESERVED"
    BY <1>1 DEF Inserts, EnsureInsert
  <1>2. ASSUME NEW w \in Workers, Reserves(w), d \notin req[w].rows
        PROVE  contact[d] = "RESERVED"
    BY <1>2 DEF Reserves, ClaimReserve
  <1>3. ASSUME NEW w \in Workers, NEW e \in req[w].rows, Writes(w, e)
        PROVE  contact[d] = "RESERVED"
    <2>1. e \in Dealers
      BY DEF TypeOK, Request
    <2>2. contact'[e] \notin Unsettled /\ \A f \in Dealers \ {e} : contact'[f] = contact[f]
      BY <1>3, <2>1, WriteSettles DEF Writes
    <2>3. QED
      BY <2>2 DEF Unsettled
  <1>4. QED
    BY <1>1, <1>2, <1>3, ContactSteps DEF Reserves

(* A claim that has answered the workflow has handed its batch over, and   *)
(* one that has not has lost it.                                           *)
LEMMA AnsweredStays ==
  ASSUME TypeOK, [Next]_vars, NEW d \in Dealers, Answered(d)
  PROVE  Accounted(d)'
  <1>1. PICK w \in Workers : At(w, "claim", "respond") /\ d \in req[w].rows
    BY DEF Answered
  <1>2. CASE req'[w] = req[w]
    BY <1>1, <1>2 DEF Accounted, Answered, At
  <1>3. CASE ClaimRespond(w) \/ ClaimRespondInvalid(w) \/ Abort(w)
    BY <1>1, <1>3 DEF ClaimRespond, ClaimRespondInvalid, Abort, Accounted, Handled, At
  <1>4. CASE req'[w] # req[w]
    <2> USE <1>1, <1>4 DEF At
    <2>1. ASSUME NEW v \in Workers, Arrive(v) PROVE FALSE
      BY <2>1 DEF Arrive, Begin, PostReport, BeginReply, BeginExtract, BeginPatch, Load,
         TypeOK
    <2>2. ASSUME NEW v \in Workers, Proceed(v)
          PROVE  ClaimRespond(w) \/ ClaimRespondInvalid(w)
      <3>1. v = w
        BY <2>2 DEF Proceed, EnsureRead, EnsureInsert, EnsureConflict, ClaimStart,
           ClaimSelect, ClaimReserve, ClaimRespond, ClaimRespondInvalid,
           DispatchStatusAnswer, CompleteAgain, CompleteBlocked, CompleteCount,
           CompleteFinish, MarkSentAgain, MarkSent, MarkSendFailed, RegisterReply,
           RegisterReplyConflict, ExtractOffer, UpdateStatus, Finish, TypeOK
      <3>2. QED
        BY <2>2, <3>1 DEF Proceed, EnsureRead, EnsureInsert, EnsureConflict, ClaimStart,
           ClaimSelect, ClaimReserve, DispatchStatusAnswer, CompleteAgain,
           CompleteBlocked, CompleteCount, CompleteFinish, MarkSentAgain, MarkSent,
           MarkSendFailed, RegisterReply, RegisterReplyConflict, ExtractOffer, UpdateStatus
    <2>3. ASSUME NEW v \in Workers, Abort(v) PROVE Abort(w)
      BY <2>3 DEF Abort, Finish, TypeOK
    <2>4. ~((\E e \in Dealers : ChangeDealer(e) \/ Send(e)) \/ WorkflowDies \/ UNCHANGED vars)
      BY DEF ChangeDealer, Send, WorkflowDies, vars
    <2>5. QED
      BY <1>3, <2>1, <2>2, <2>3, <2>4 DEF Next
  <1>5. QED
    BY <1>2, <1>4

(* What the workflow was handed it mails and reports, or loses. *)
LEMMA HandledStays ==
  ASSUME TypeOK, [Next]_vars, NEW d \in Dealers, Handled(d)
  PROVE  Accounted(d)'
  <1> USE DEF clientVars
  <1>1. CASE toSend \subseteq toSend' /\ lost \subseteq lost'
    BY <1>1 DEF Accounted, Handled
  <1>2. ASSUME NEW w \in Workers, Arrive(w) \/ Proceed(w) \/ Abort(w)
        PROVE  toSend \subseteq toSend' /\ lost \subseteq lost'
    <2>1. CASE Arrive(w)
      BY <2>1 DEF Arrive, Begin, PostReport, BeginReply, BeginExtract, BeginPatch, Load
    <2>2. CASE Proceed(w)
      BY <2>2 DEF Proceed, EnsureRead, EnsureInsert, EnsureConflict, ClaimStart,
         ClaimSelect, ClaimReserve, ClaimRespond, ClaimRespondInvalid,
         DispatchStatusAnswer, CompleteAgain, CompleteBlocked, CompleteCount,
         CompleteFinish, MarkSentAgain, MarkSent, MarkSendFailed, RegisterReply,
         RegisterReplyConflict, ExtractOffer, UpdateStatus
    <2>3. CASE Abort(w)
      BY <2>3 DEF Abort
    <2>4. QED
      BY <1>2, <2>1, <2>2, <2>3
  <1>3. ASSUME NEW e \in Dealers, Send(e) PROVE Accounted(d)'
    <2>1. lost' = lost /\ toSend' = toSend \ {e}
      BY <1>3 DEF Send
    <2>2. PICK kinds : kinds # {} /\ reports' = reports \cup Filed(e, kinds)
      BY <1>3 DEF Send
    <2>3. \E r \in reports' : r.dealer = e
      <3>1. PICK kind \in kinds : TRUE
        BY <2>2
      <3>2. [dealer |-> e, kind |-> kind] \in reports'
        BY <2>2 DEF Filed
      <3>3. QED
        BY <3>2
    <2>4. QED
      BY <2>1, <2>3 DEF Accounted, Handled, Reported
  <1>4. CASE WorkflowDies
    BY <1>4 DEF WorkflowDies, Accounted, Handled
  <1>5. ASSUME (\E e \in Dealers : ChangeDealer(e)) \/ UNCHANGED vars
        PROVE  toSend \subseteq toSend' /\ lost \subseteq lost'
    BY <1>5 DEF ChangeDealer, vars
  <1>6. QED
    BY <1>1, <1>2, <1>3, <1>4, <1>5 DEF Next

(* A report is acknowledged only when the contact is settled. *)
LEMMA ReportedStays ==
  ASSUME TypeOK, SeenIsOld, RecordedIsSettled, [Next]_vars,
         NEW d \in Dealers, Reported(d), contact'[d] = "RESERVED"
  PROVE  Accounted(d)'
  <1> USE DEF clientVars
  <1>1. CASE reports \subseteq reports'
    BY <1>1 DEF Accounted, Reported
  <1>2. ASSUME NEW w \in Workers, NEW e \in req[w].rows, NEW kind, Acknowledge(e, kind),
               contact'[e] # "RESERVED"
        PROVE  Accounted(d)'
    <2>1. d # e
      BY <1>2
    <2>2. \A r \in reports : r.dealer = d => r \in reports'
      BY <1>2, <2>1 DEF Acknowledge
    <2>3. QED
      BY <2>2 DEF Accounted, Reported
  <1>3. ASSUME NEW w \in Workers, NEW e \in req[w].rows, NEW new, new \notin Unsettled,
               req[w].step = "write", SetContact(w, e, new)
        PROVE  contact'[e] # "RESERVED"
    <2>1. e \in Dealers
      BY DEF TypeOK, Request
    <2>2. QED
      BY <1>3, <2>1, WriteSettles DEF Unsettled
  <1>4. ASSUME NEW w \in Workers, MarkSentAgain(w) PROVE Accounted(d)'
    <2>1. PICK e \in req[w].rows : Acknowledge(e, "sent")
      BY <1>4 DEF MarkSentAgain
    <2>2. e \in Dealers /\ stored[e]
      BY <1>4 DEF MarkSentAgain, At, SeenIsOld, TypeOK, Request
    <2>3. contact' = contact /\ contact[e] # "RESERVED"
      BY <1>4, <2>2 DEF MarkSentAgain, RecordedIsSettled, dbVars
    <2>4. QED
      BY <1>2, <2>1, <2>3
  <1>5. ASSUME NEW w \in Workers, MarkSent(w) PROVE Accounted(d)'
    <2>1. PICK e \in req[w].rows : SetContact(w, e, "SENT") /\ Acknowledge(e, "sent")
      BY <1>5 DEF MarkSent
    <2>2. contact'[e] # "RESERVED"
      BY <1>3, <1>5, <2>1 DEF MarkSent, At, Unsettled, Absent
    <2>3. QED
      BY <1>2, <2>1, <2>2
  <1>6. ASSUME NEW w \in Workers, MarkSendFailed(w) PROVE Accounted(d)'
    <2>1. PICK e \in req[w].rows :
            SetContact(w, e, FailedStatus(req[w].op)) /\ Acknowledge(e, req[w].op)
      BY <1>6 DEF MarkSendFailed
    <2>2. FailedStatus(req[w].op) \notin Unsettled
      BY DEF FailedStatus, Unsettled, Absent
    <2>3. contact'[e] # "RESERVED"
      BY <1>3, <1>6, <2>1, <2>2 DEF MarkSendFailed
    <2>4. QED
      BY <1>2, <2>1, <2>3
  <1>7. ASSUME NEW w \in Workers, Arrive(w) \/ Proceed(w) \/ Abort(w),
               ~MarkSentAgain(w), ~MarkSent(w), ~MarkSendFailed(w)
        PROVE  reports' = reports
    <2>1. CASE Arrive(w)
      BY <2>1 DEF Arrive, Begin, PostReport, BeginReply, BeginExtract, BeginPatch, Load
    <2>2. CASE Proceed(w)
      BY <1>7, <2>2 DEF Proceed, EnsureRead, EnsureInsert, EnsureConflict, ClaimStart,
         ClaimSelect, ClaimReserve, ClaimRespond, ClaimRespondInvalid,
         DispatchStatusAnswer, CompleteAgain, CompleteBlocked, CompleteCount,
         CompleteFinish, RegisterReply, RegisterReplyConflict, ExtractOffer, UpdateStatus
    <2>3. CASE Abort(w)
      BY <2>3 DEF Abort
    <2>4. QED
      BY <1>7, <2>1, <2>2, <2>3
  <1>8. CASE WorkflowDies
    BY <1>8 DEF WorkflowDies, Accounted, Handled, Reported
  <1>9. ASSUME (\E e \in Dealers : ChangeDealer(e) \/ Send(e)) \/ UNCHANGED vars
        PROVE  reports \subseteq reports'
    BY <1>9 DEF ChangeDealer, Send, vars
  <1>10. QED
    BY <1>1, <1>4, <1>5, <1>6, <1>7, <1>8, <1>9 DEF Next

LEMMA AccountedStep ==
  ASSUME DispatchInv, SeenIsOld, RecordedIsSettled, ReservedAccounted, [Next]_vars
  PROVE  ReservedAccounted'
  <1>t. TypeOK
    BY DEF DispatchInv
  <1> SUFFICES ASSUME NEW d \in Dealers, contact'[d] = "RESERVED" PROVE Accounted(d)'
    BY DEF ReservedAccounted, Accounted, Handled, Reported, Answered
  <1>1. CASE contact[d] = "RESERVED"
    <2>1. Accounted(d)
      BY <1>1 DEF ReservedAccounted, Accounted, Handled, Reported, Answered
    <2>2. QED
      BY <1>t, <2>1, HandledStays, ReportedStays, AnsweredStays DEF Accounted
  <1>2. ASSUME NEW w \in Workers, ClaimReserve(w), d \in req[w].rows PROVE Accounted(d)'
    <2>1. At(w, "claim", "respond")' /\ d \in req'[w].rows
      BY <1>2, <1>t DEF ClaimReserve, At, TypeOK, Request
    <2>2. QED
      BY <2>1 DEF Accounted, Answered
  <1>3. QED
    BY <1>1, <1>2, <1>t, ReservedBefore

-----------------------------------------------------------------------------
LEMMA InitAccountInv == Init => AccountInv
  <1>1. Init => SeenIsOld
    BY DEF Init, SeenIsOld, Idle
  <1>2. Init => RecordedIsSettled /\ ReservedAccounted
    BY DEF Init, RecordedIsSettled, ReservedAccounted, Absent
  <1>3. QED
    BY <1>1, <1>2, InitDispatchInv DEF AccountInv

LEMMA AccountInvStep == AccountInv /\ [Next]_vars => AccountInv'
  BY DispatchInvStep, SeenStep, RecordedStep, AccountedStep DEF AccountInv

(* The dispatch invariant together with the bookkeeping of what sessions   *)
(* have loaded and of where reserved contacts are.                         *)
THEOREM AccountInvariant == Spec => []AccountInv
  <1>1. QED
    BY InitAccountInv, AccountInvStep, PTL DEF Spec

(* mark_sent: a contact that holds the message id of its mail is never     *)
(* claimable or waiting again.                                             *)
THEOREM RecordedStaysSettled == Spec => []RecordedIsSettled
  <1>1. AccountInv => RecordedIsSettled
    BY DEF AccountInv
  <1>2. QED
    BY <1>1, AccountInvariant, PTL

(* claim_contacts: a RESERVED contact is on its way to the workflow, in    *)
(* its hands, or known to be lost.                                         *)
THEOREM ReservedNeverForgotten == Spec => []ReservedAccounted
  <1>1. AccountInv => ReservedAccounted
    BY DEF AccountInv
  <1>2. QED
    BY <1>1, AccountInvariant, PTL

(* Every behaviour of the requests, interleaved and failing as they may,   *)
(* is a behaviour of the outreach the contact rows stand for.              *)
THEOREM DispatchImplementsOutreach == Spec => ImplementsOutreach
  <1>1. AccountInv /\ [Next]_vars => [Abstract!Next]_(Abstract!vars)
    BY NextRefines DEF AccountInv
  <1>2. QED
    BY <1>1, InitRefines, AccountInvariant, PTL
       DEF Spec, ImplementsOutreach, Abstract!Spec
=============================================================================
