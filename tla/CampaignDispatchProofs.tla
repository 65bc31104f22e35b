------------------------ MODULE CampaignDispatchProofs ------------------------
(***************************************************************************)
(* Proofs about CampaignDispatch for every set of dealers and of workers,  *)
(* every claim limit, every choice of arriving requests, with and without  *)
(* failures.                                                               *)
(***************************************************************************)
EXTENDS CampaignDispatch, TLAPS

Unsettled == {Absent, "PENDING", "RESERVED"}

(* A contact that was never reserved has no claim to its name. *)
UnclaimedIsFresh ==
  \A d \in Dealers : contact[d] \in {Absent, "PENDING"} => claims[d] = 0

(* A contact the workflow has still to mail was claimed and not mailed. *)
HandedIsUnmailed == \A d \in toSend : claims[d] = 1 /\ mails[d] = 0

(* So was one whose claim answer is on the way, and it is on the way to    *)
(* one client only.                                                        *)
AnswersAreDisjoint ==
  \A w \in Workers : At(w, "claim", "respond") =>
    \A d \in req[w].rows :
      /\ claims[d] = 1 /\ mails[d] = 0 /\ d \notin toSend
      /\ \A v \in Workers \ {w} : At(v, "claim", "respond") => d \notin req[v].rows

DispatchInv ==
  /\ TypeOK
  /\ UnclaimedIsFresh
  /\ PickedRowsHeld
  /\ HandedIsUnmailed
  /\ AnswersAreDisjoint
  /\ OneMailPerDealer

-----------------------------------------------------------------------------
(* Assign writes the new value or leaves the current one. *)
LEMMA AssignOutcome ==
  ASSUME NEW current, NEW loaded, NEW new
  PROVE  Assign(current, loaded, new) \in {current, new}
  BY DEF Assign

LEMMA InitTypeOK == Init => TypeOK
  <1>1. Idle \in Request
    BY DEF Idle, Request, Steps, CampaignStatuses
  <1>2. SUFFICES ASSUME Init PROVE TypeOK
    OBVIOUS
  <1>3. dealer \in [Dealers -> DealerStates]
    BY <1>2, DealerChangesAssumption DEF Init, DealerStates
  <1>4. req \in [Workers -> Request]
    BY <1>1, <1>2 DEF Init
  <1>5. QED
    BY <1>2, <1>3, <1>4 DEF Init, TypeOK, CampaignStatuses

(* Requests that only change the request record keep the types if the new  *)
(* record is a request.                                                    *)
LEMMA TypeOKStep == TypeOK /\ [Next]_vars => TypeOK'
  <1> SUFFICES ASSUME TypeOK, [Next]_vars PROVE TypeOK'
    OBVIOUS
  <1> USE DEF dbVars, clientVars, Finish
  <1>i. Idle \in Request
    BY DEF Idle, Request, Steps, CampaignStatuses
  <1>t. /\ dealer \in [Dealers -> DealerStates]
        /\ status \in CampaignStatuses
        /\ completed \in BOOLEAN
        /\ contact \in [Dealers -> ContactStatuses \cup {Absent}]
        /\ stored \in [Dealers -> BOOLEAN]
        /\ answered \in [Dealers -> BOOLEAN]
        /\ rowLock \in [Dealers -> Workers \cup {NoOwner}]
        /\ req \in [Workers -> Request]
        /\ toSend \in SUBSET Dealers
        /\ mails \in [Dealers -> Nat]
        /\ reports \in SUBSET Reports
        /\ claims \in [Dealers -> Nat]
        /\ lost \in SUBSET Dealers
    BY DEF TypeOK
  <1>1. ASSUME NEW w \in Workers, Arrive(w) PROVE TypeOK'
    <2>1. ASSUME NEW op \in {"claim", "complete", "dispatch_status"}, Begin(w, op)
          PROVE TypeOK'
      <3>1. [Idle EXCEPT !.op = op, !.step = "ensure",
                         !.status = status, !.completed = completed] \in Request
        BY <1>t DEF Idle, Request, Steps, AllOps, CampaignStatuses
      <3>2. QED
        BY <1>t, <2>1, <3>1 DEF Begin, TypeOK
    <2>2. ASSUME NEW op \in AllOps, NEW rows \in SUBSET Dealers, Load(w, op, rows)
          PROVE TypeOK'
      <3>1. ASSUME NEW d \in rows
            PROVE  [Idle EXCEPT !.op = op, !.step = "write", !.rows = {d},
                      !.contact = contact[d], !.stored = stored[d]] \in Request
        BY <1>t DEF Idle, Request, Steps, CampaignStatuses
      <3>2. QED
        BY <1>t, <2>2, <3>1 DEF Load, TypeOK
    <2>3. ASSUME BeginPatch(w) PROVE TypeOK'
      <3>1. [Idle EXCEPT !.op = "patch", !.step = "write", !.status = status]
              \in Request
        BY <1>t DEF Idle, Request, Steps, AllOps, CampaignStatuses
      <3>2. QED
        BY <1>t, <2>3, <3>1 DEF BeginPatch, TypeOK
    <2>4. ASSUME NEW kind \in ReportKinds, NEW d \in Dealers, PostReport(w, kind, d)
          PROVE TypeOK'
      <3>1. /\ kind \in AllOps
            /\ {d} \cap {r.dealer : r \in {x \in reports : x.kind = kind}} \in SUBSET Dealers
        BY DEF ReportKinds, AllOps
      <3>2. QED
        BY <2>2, <2>4, <3>1 DEF PostReport
    <2>5. BeginReply(w) => TypeOK'
      BY <2>2 DEF BeginReply, AllOps
    <2>6. BeginExtract(w) => TypeOK'
      BY <2>2 DEF BeginExtract, AllOps
    <2>7. QED
      BY <1>1, <2>1, <2>3, <2>4, <2>5, <2>6 DEF Arrive
  <1>2. ASSUME NEW w \in Workers, Proceed(w) PROVE TypeOK'
    <2>r. req[w] \in Request
      BY <1>t
    <2>1. CASE EnsureRead(w) \/ EnsureInsert(w)
      <3>1. AfterEnsure(req[w]) \in Steps
        BY DEF AfterEnsure, Steps
      <3>2. MissingContacts \in SUBSET Dealers
        BY DEF MissingContacts
      <3>3. ASSUME NEW rows \in SUBSET Dealers, NEW step \in Steps
            PROVE  [req EXCEPT ![w].rows = rows, ![w].step = step]
                     \in [Workers -> Request]
        <4>1. [req[w] EXCEPT !.rows = rows, !.step = step] \in Request
          BY <2>r DEF Request
        <4>2. [req EXCEPT ![w].rows = rows, ![w].step = step]
                = [req EXCEPT ![w] = [req[w] EXCEPT !.rows = rows, !.step = step]]
          BY <1>t DEF Request
        <4>3. QED
          BY <1>t, <4>1, <4>2
      <3>4. CASE EnsureRead(w)
        BY <1>t, <3>1, <3>2, <3>3, <3>4 DEF EnsureRead, TypeOK, Steps
      <3>5. CASE EnsureInsert(w)
        <4>1. req' \in [Workers -> Request]
          BY <3>1, <3>3, <3>5 DEF EnsureInsert
        <4>2. contact' \in [Dealers -> ContactStatuses \cup {Absent}]
          BY <1>t, <3>5 DEF EnsureInsert, ContactStatuses
        <4>3. QED
          BY <1>t, <3>5, <4>1, <4>2 DEF EnsureInsert, TypeOK
      <3>6. QED
        BY <2>1, <3>4, <3>5
    <2>2. CASE EnsureConflict(w) \/ DispatchStatusAnswer(w) \/ CompleteAgain(w)
               \/ CompleteBlocked(w) \/ RegisterReplyConflict(w)
      BY <1>i, <1>t, <2>2 DEF EnsureConflict, DispatchStatusAnswer, CompleteAgain,
         CompleteBlocked, RegisterReplyConflict, TypeOK
    <2>3. ASSUME NEW step \in Steps
          PROVE  [req EXCEPT ![w].step = step] \in [Workers -> Request]
      BY <1>t DEF Request
    <2>4. CASE ClaimStart(w)
      BY <1>t, <2>3, <2>4 DEF ClaimStart, TypeOK, CampaignStatuses, Steps
    <2>5. CASE ClaimSelect(w)
      <3>1. PICK B \in Batches(Claimable) :
              /\ rowLock' = [d \in Dealers |-> IF d \in B THEN w ELSE rowLock[d]]
              /\ req' = [req EXCEPT ![w].rows = B, ![w].step = "reserve",
                           ![w].unaddressed = \E d \in B : dealer[d] = "no_email"]
        BY <2>5 DEF ClaimSelect
      <3>2. B \in SUBSET Dealers
        BY DEF Batches, Claimable
      <3>3. req' \in [Workers -> Request]
        <4>1. ASSUME NEW step \in Steps, NEW flag \in BOOLEAN
              PROVE  [req[w] EXCEPT !.rows = B, !.step = step, !.unaddressed = flag]
                       \in Request
          BY <2>r, <3>2 DEF Request
        <4>2. req' = [req EXCEPT ![w] =
                        [req[w] EXCEPT !.rows = B, !.step = "reserve",
                           !.unaddressed = \E d \in B : dealer[d] = "no_email"]]
          BY <1>t, <3>1 DEF Request
        <4>3. QED
          BY <1>t, <4>1, <4>2 DEF Steps
      <3>4. rowLock' \in [Dealers -> Workers \cup {NoOwner}]
        BY <1>t, <3>1
      <3>5. QED
        BY <1>t, <2>5, <3>3, <3>4 DEF ClaimSelect, TypeOK
    <2>6. CASE ClaimReserve(w)
      <3>1. req' \in [Workers -> Request]
        BY <2>3, <2>6 DEF ClaimReserve, Steps
      <3>2. contact' \in [Dealers -> ContactStatuses \cup {Absent}]
        BY <1>t, <2>6 DEF ClaimReserve, ContactStatuses
      <3>3. rowLock' \in [Dealers -> Workers \cup {NoOwner}]
        BY <1>t, <2>6 DEF ClaimReserve
      <3>4. claims' \in [Dealers -> Nat]
        BY <1>t, <2>6 DEF ClaimReserve
      <3>5. QED
        BY <1>t, <2>6, <3>1, <3>2, <3>3, <3>4 DEF ClaimReserve, TypeOK
    <2>7. CASE ClaimRespond(w) \/ ClaimRespondInvalid(w)
      <3>1. req[w].rows \in SUBSET Dealers
        BY <2>r DEF Request
      <3>2. QED
        BY <1>i, <1>t, <2>7, <3>1 DEF ClaimRespond, ClaimRespondInvalid, TypeOK
    <2>8. CASE CompleteCount(w)
      BY <1>t, <2>3, <2>8 DEF CompleteCount, TypeOK, Steps
    <2>9. CASE CompleteFinish(w)
      <3>1. status' \in CampaignStatuses
        BY <1>t, <2>9 DEF CompleteFinish, Assign, CampaignStatuses
      <3>2. completed' \in BOOLEAN
        BY <1>t, <2>9 DEF CompleteFinish, Assign
      <3>3. QED
        BY <1>i, <1>t, <2>9, <3>1, <3>2 DEF CompleteFinish, TypeOK
    <2>10. ASSUME NEW d \in Dealers, NEW new \in ContactStatuses, SetContact(w, d, new)
           PROVE  contact' \in [Dealers -> ContactStatuses \cup {Absent}]
      BY <1>t, <2>10 DEF SetContact, Assign
    <2>11. ASSUME NEW d \in Dealers, NEW kind, Acknowledge(d, kind)
           PROVE  reports' \in SUBSET Reports
      BY <1>t, <2>11 DEF Acknowledge
    <2>12. req[w].rows \in SUBSET Dealers
      BY <2>r DEF Request
    <2>13. CASE MarkSentAgain(w)
      BY <1>i, <1>t, <2>11, <2>12, <2>13 DEF MarkSentAgain, TypeOK
    <2>14. CASE MarkSent(w)
      <3>1. PICK d \in req[w].rows : /\ SetContact(w, d, "SENT")
                                     /\ stored' = [stored EXCEPT ![d] = TRUE]
                                     /\ Acknowledge(d, "sent")
        BY <2>14 DEF MarkSent
      <3>2. contact' \in [Dealers -> ContactStatuses \cup {Absent}]
        BY <2>10, <2>12, <3>1 DEF ContactStatuses
      <3>3. reports' \in SUBSET Reports /\ stored' \in [Dealers -> BOOLEAN]
        BY <1>t, <2>11, <2>12, <3>1
      <3>4. QED
        BY <1>i, <1>t, <2>14, <3>2, <3>3 DEF MarkSent, TypeOK
    <2>15. CASE MarkSendFailed(w)
      <3>1. PICK d \in req[w].rows : /\ SetContact(w, d, FailedStatus(req[w].op))
                                     /\ Acknowledge(d, req[w].op)
        BY <2>15 DEF MarkSendFailed
      <3>2. FailedStatus(req[w].op) \in ContactStatuses
        BY DEF FailedStatus, ContactStatuses
      <3>3. contact' \in [Dealers -> ContactStatuses \cup {Absent}]
        BY <2>10, <2>12, <3>1, <3>2
      <3>4. reports' \in SUBSET Reports
        BY <2>11, <2>12, <3>1
      <3>5. QED
        BY <1>i, <1>t, <2>15, <3>3, <3>4 DEF MarkSendFailed, TypeOK
    <2>16. CASE RegisterReply(w)
      <3>1. PICK d \in req[w].rows : /\ SetContact(w, d, "REPLIED")
                                     /\ answered' = [answered EXCEPT ![d] = TRUE]
        BY <2>16 DEF RegisterReply
      <3>2. contact' \in [Dealers -> ContactStatuses \cup {Absent}]
        BY <2>10, <2>12, <3>1 DEF ContactStatuses
      <3>3. answered' \in [Dealers -> BOOLEAN]
        BY <1>t, <2>12, <3>1
      <3>4. QED
        BY <1>i, <1>t, <2>16, <3>2, <3>3 DEF RegisterReply, TypeOK
    <2>17. CASE ExtractOffer(w)
      <3>1. PICK d \in req[w].rows, result \in ExtractionResults : SetContact(w, d, result)
        BY <2>17 DEF ExtractOffer
      <3>2. contact' \in [Dealers -> ContactStatuses \cup {Absent}]
        BY <2>10, <2>12, <3>1 DEF ContactStatuses, ExtractionResults
      <3>3. QED
        BY <1>i, <1>t, <2>17, <3>2 DEF ExtractOffer, TypeOK
    <2>18. CASE UpdateStatus(w)
      <3>1. status' \in CampaignStatuses
        BY <1>t, <2>18 DEF UpdateStatus, Assign, CampaignStatuses
      <3>2. QED
        BY <1>i, <1>t, <2>18, <3>1 DEF UpdateStatus, TypeOK
    <2>19. QED
      BY <1>2, <2>1, <2>2, <2>4, <2>5, <2>6, <2>7, <2>8, <2>9, <2>13, <2>14,
         <2>15, <2>16, <2>17, <2>18 DEF Proceed
  <1>3. ASSUME NEW w \in Workers, Abort(w) PROVE TypeOK'
    <2>1. req[w].rows \in SUBSET Dealers
      BY <1>t DEF Request
    <2>2. QED
      BY <1>i, <1>t, <1>3, <2>1 DEF Abort, TypeOK
  <1>4. ASSUME NEW d \in Dealers, ChangeDealer(d) PROVE TypeOK'
    BY <1>t, <1>4, DealerChangesAssumption DEF ChangeDealer, TypeOK
  <1>5. ASSUME NEW d \in Dealers, Send(d) PROVE TypeOK'
    <2>1. ASSUME NEW kinds \in SUBSET ReportKinds PROVE Filed(d, kinds) \in SUBSET Reports
      BY DEF Filed, Reports
    <2>2. reports' \in SUBSET Reports
      BY <1>t, <1>5, <2>1 DEF Send, ReportKinds
    <2>3. mails' \in [Dealers -> Nat]
      BY <1>t, <1>5 DEF Send
    <2>4. QED
      BY <1>t, <1>5, <2>2, <2>3 DEF Send, TypeOK
  <1>6. ASSUME WorkflowDies PROVE TypeOK'
    <2>1. {r.dealer : r \in reports} \in SUBSET Dealers
      BY <1>t DEF Reports
    <2>2. QED
      BY <1>t, <1>6, <2>1 DEF WorkflowDies, TypeOK
  <1>7. ASSUME UNCHANGED vars PROVE TypeOK'
    BY <1>t, <1>7 DEF vars, TypeOK
  <1>8. QED
    BY <1>1, <1>2, <1>3, <1>4, <1>5, <1>6, <1>7 DEF Next

(* Every reachable state is well formed: rows, requests, messages.         *)
THEOREM DispatchTypeOK == Spec => []TypeOK
  <1>1. QED
    BY InitTypeOK, TypeOKStep, PTL DEF Spec

-----------------------------------------------------------------------------
(* Most steps keep the invariant for the same reason, stated here once.     *)

(* Contacts change only where no row lock is held, and never back to the   *)
(* queue; a contact that is created was never claimed.                     *)
ContactsMoveOn ==
  \A d \in Dealers : \/ contact'[d] = contact[d]
                     \/ contact[d] = Absent
                     \/ rowLock[d] = NoOwner /\ contact'[d] \notin {Absent, "PENDING"}

(* No request enters the window between select and answer, and those in it *)
(* keep their rows and their locks.                                        *)
ClaimsKeep ==
  \A w \in Workers :
    /\ At(w, "claim", "reserve")' =>
         /\ At(w, "claim", "reserve") /\ req'[w].rows = req[w].rows
         /\ \A d \in Dealers : rowLock[d] = w => rowLock'[d] = w
    /\ At(w, "claim", "respond")' =>
         At(w, "claim", "respond") /\ req'[w].rows = req[w].rows

BookkeepingOnly ==
  /\ ContactsMoveOn
  /\ ClaimsKeep
  /\ claims' = claims /\ mails' = mails /\ toSend' \subseteq toSend

LEMMA BookkeepingKeepsInv == DispatchInv /\ BookkeepingOnly /\ TypeOK' => DispatchInv'
  <1> SUFFICES ASSUME DispatchInv, BookkeepingOnly, TypeOK' PROVE DispatchInv'
    OBVIOUS
  <1>r. \A w \in Workers : req[w].rows \in SUBSET Dealers
    BY DEF DispatchInv, TypeOK, Request
  <1>1. UnclaimedIsFresh'
    BY DEF DispatchInv, UnclaimedIsFresh, BookkeepingOnly, ContactsMoveOn
  <1>2. PickedRowsHeld'
    <2> SUFFICES ASSUME NEW w \in Workers, At(w, "claim", "reserve")',
                        NEW d \in req'[w].rows
                 PROVE  rowLock'[d] = w /\ contact'[d] = "PENDING"
      BY DEF PickedRowsHeld
    <2>1. At(w, "claim", "reserve") /\ d \in req[w].rows /\ d \in Dealers
      BY <1>r DEF BookkeepingOnly, ClaimsKeep
    <2>2. rowLock[d] = w /\ contact[d] = "PENDING"
      BY <2>1 DEF DispatchInv, PickedRowsHeld
    <2>3. rowLock[d] # NoOwner
      BY <2>2, OwnerAssumption
    <2>4. QED
      BY <2>1, <2>2, <2>3 DEF BookkeepingOnly, ClaimsKeep, ContactsMoveOn, Absent
  <1>3. HandedIsUnmailed'
    BY DEF DispatchInv, HandedIsUnmailed, BookkeepingOnly
  <1>4. AnswersAreDisjoint'
    <2> SUFFICES ASSUME NEW w \in Workers, At(w, "claim", "respond")',
                        NEW d \in req'[w].rows
                 PROVE  /\ claims'[d] = 1 /\ mails'[d] = 0 /\ d \notin toSend'
                        /\ \A v \in Workers \ {w} :
                             At(v, "claim", "respond")' => d \notin req'[v].rows
      BY DEF AnswersAreDisjoint
    <2>1. At(w, "claim", "respond") /\ d \in req[w].rows
      BY DEF BookkeepingOnly, ClaimsKeep
    <2>2. claims[d] = 1 /\ mails[d] = 0 /\ d \notin toSend
      BY <2>1 DEF DispatchInv, AnswersAreDisjoint
    <2>3. ASSUME NEW v \in Workers \ {w}, At(v, "claim", "respond")'
          PROVE  d \notin req'[v].rows
      BY <2>1, <2>3 DEF BookkeepingOnly, ClaimsKeep, DispatchInv, AnswersAreDisjoint
    <2>4. QED
      BY <2>2, <2>3 DEF BookkeepingOnly
  <1>5. OneMailPerDealer'
    BY DEF DispatchInv, OneMailPerDealer, BookkeepingOnly
  <1>6. QED
    BY <1>1, <1>2, <1>3, <1>4, <1>5 DEF DispatchInv

(* Requests that arrive, end or move to a step outside the claim window.   *)
LEMMA OutsideWindow ==
  ASSUME TypeOK, NEW w \in Workers, NEW r \in Request,
         req' = [req EXCEPT ![w] = r], r.step \notin {"reserve", "respond"},
         \A v \in Workers \ {w}, d \in Dealers : rowLock[d] = v => rowLock'[d] = v
  PROVE  ClaimsKeep
  <1>1. \A v \in Workers : req'[v] = IF v = w THEN r ELSE req[v]
    BY DEF TypeOK
  <1>2. QED
    BY <1>1 DEF ClaimsKeep, At

LEMMA ArriveIsBookkeeping ==
  ASSUME TypeOK, NEW w \in Workers, Arrive(w)
  PROVE  BookkeepingOnly
  <1> USE DEF dbVars, clientVars
  <1>1. ASSUME NEW op, Begin(w, op) PROVE BookkeepingOnly
    <2>1. [Idle EXCEPT !.op = op, !.step = "ensure",
                       !.status = status, !.completed = completed] \in Request
      BY <1>1 DEF TypeOK, Begin, Idle, Request, Steps, AllOps, CampaignStatuses
    <2>2. ClaimsKeep
      BY <1>1, <2>1, OutsideWindow DEF Begin, Idle
    <2>3. QED
      BY <1>1, <2>2 DEF Begin, BookkeepingOnly, ContactsMoveOn
  <1>2. ASSUME NEW op, NEW rows, Load(w, op, rows), rows \subseteq Dealers
        PROVE  BookkeepingOnly
    <2>1. PICK d \in rows :
            req' = [req EXCEPT ![w] = [Idle EXCEPT !.op = op, !.step = "write",
                      !.rows = {d}, !.contact = contact[d], !.stored = stored[d]]]
      BY <1>2 DEF Load
    <2>2. [Idle EXCEPT !.op = op, !.step = "write", !.rows = {d},
             !.contact = contact[d], !.stored = stored[d]] \in Request
      BY <1>2, OpsAssumption DEF TypeOK, Load, Idle, Request, Steps, CampaignStatuses
    <2>3. ClaimsKeep
      BY <1>2, <2>1, <2>2, OutsideWindow DEF Load, Idle
    <2>4. QED
      BY <1>2, <2>3 DEF Load, BookkeepingOnly, ContactsMoveOn
  <1>3. ASSUME BeginPatch(w) PROVE BookkeepingOnly
    <2>1. [Idle EXCEPT !.op = "patch", !.step = "write", !.status = status] \in Request
      BY DEF TypeOK, Idle, Request, Steps, AllOps, CampaignStatuses
    <2>2. ClaimsKeep
      BY <1>3, <2>1, OutsideWindow DEF BeginPatch, Idle
    <2>3. QED
      BY <1>3, <2>2 DEF BeginPatch, BookkeepingOnly, ContactsMoveOn
  <1>4. ASSUME NEW kind, NEW d \in Dealers, PostReport(w, kind, d) PROVE BookkeepingOnly
    BY <1>2, <1>4 DEF PostReport
  <1>5. BeginReply(w) \/ BeginExtract(w) => BookkeepingOnly
    BY <1>2 DEF BeginReply, BeginExtract
  <1>6. QED
    BY <1>1, <1>3, <1>4, <1>5 DEF Arrive

(* A handler that writes a contact row must find it unlocked.              *)
LEMMA WriteIsBookkeeping ==
  ASSUME TypeOK, NEW w \in Workers, NEW d \in Dealers, NEW new,
         new \notin {Absent, "PENDING"}, rowLock[d] = NoOwner, SetContact(w, d, new)
  PROVE  ContactsMoveOn
  <1>1. contact'[d] \in {contact[d], new}
    BY AssignOutcome DEF SetContact, TypeOK
  <1>2. \A e \in Dealers \ {d} : contact'[e] = contact[e]
    BY DEF SetContact, TypeOK
  <1>3. QED
    BY <1>1, <1>2 DEF ContactsMoveOn

LEMMA EndIsOutsideWindow ==
  ASSUME TypeOK, NEW w \in Workers, Finish(w),
         \A v \in Workers \ {w}, d \in Dealers : rowLock[d] = v => rowLock'[d] = v
  PROVE  ClaimsKeep
  <1>1. Idle \in Request /\ Idle.step = "idle"
    BY DEF Idle, Request, Steps, CampaignStatuses
  <1>2. QED
    BY <1>1, OutsideWindow DEF Finish

LEMMA ProceedIsBookkeeping ==
  ASSUME TypeOK, NEW w \in Workers, Proceed(w),
         ~ClaimSelect(w), ~ClaimReserve(w), ~ClaimRespond(w)
  PROVE  BookkeepingOnly
  <1> USE DEF dbVars, clientVars
  <1>r. req[w] \in Request /\ req[w].rows \in SUBSET Dealers
    BY DEF TypeOK, Request
  <1>a. AfterEnsure(req[w]) \in Steps \ {"reserve", "respond"}
    BY DEF AfterEnsure, Steps
  <1>s. ASSUME NEW rows \in SUBSET Dealers, NEW step \in Steps \ {"reserve", "respond"},
               req' = [req EXCEPT ![w] = [req[w] EXCEPT !.rows = rows, !.step = step]],
               rowLock' = rowLock
        PROVE  ClaimsKeep
    <2>1. /\ [req[w] EXCEPT !.rows = rows, !.step = step] \in Request
          /\ [req[w] EXCEPT !.rows = rows, !.step = step].step = step
      BY <1>r DEF Request
    <2>2. QED
      BY <1>s, <2>1, OutsideWindow
  <1>1. CASE EnsureRead(w)
    <2>1. PICK step \in Steps \ {"reserve", "respond"} :
            req' = [req EXCEPT ![w].rows = MissingContacts, ![w].step = step]
      BY <1>1, <1>a DEF EnsureRead, Steps
    <2>2. req' = [req EXCEPT ![w] =
                    [req[w] EXCEPT !.rows = MissingContacts, !.step = step]]
      BY <2>1 DEF TypeOK, Request
    <2>3. ClaimsKeep
      BY <1>1, <2>2, <1>s DEF EnsureRead, MissingContacts
    <2>4. QED
      BY <1>1, <2>3 DEF EnsureRead, BookkeepingOnly, ContactsMoveOn
  <1>2. CASE EnsureInsert(w)
    <2>1. req' = [req EXCEPT ![w] =
                    [req[w] EXCEPT !.rows = {}, !.step = AfterEnsure(req[w])]]
      BY <1>2 DEF EnsureInsert, TypeOK, Request
    <2>2. ClaimsKeep
      BY <1>2, <1>a, <1>s, <2>1 DEF EnsureInsert
    <2>3. ContactsMoveOn
      BY <1>2 DEF EnsureInsert, ContactsMoveOn
    <2>4. QED
      BY <1>2, <2>2, <2>3 DEF EnsureInsert, BookkeepingOnly
  <1>3. CASE \/ EnsureConflict(w) \/ DispatchStatusAnswer(w) \/ CompleteAgain(w)
             \/ CompleteBlocked(w) \/ RegisterReplyConflict(w)
             \/ ClaimRespondInvalid(w) \/ CompleteFinish(w) \/ MarkSentAgain(w)
             \/ UpdateStatus(w)
    <2>1. /\ Finish(w) /\ rowLock' = rowLock /\ contact' = contact
          /\ claims' = claims /\ mails' = mails /\ toSend' = toSend
      BY <1>3 DEF EnsureConflict, DispatchStatusAnswer, CompleteAgain,
         CompleteBlocked, RegisterReplyConflict, ClaimRespondInvalid,
         CompleteFinish, MarkSentAgain, UpdateStatus
    <2>2. ClaimsKeep
      BY <2>1, EndIsOutsideWindow
    <2>3. QED
      BY <2>1, <2>2 DEF BookkeepingOnly, ContactsMoveOn
  <1>4. CASE ClaimStart(w) \/ CompleteCount(w)
    <2>1. PICK step \in Steps \ {"reserve", "respond"} :
            /\ req' = [req EXCEPT ![w].step = step]
            /\ rowLock' = rowLock /\ contact' = contact
            /\ claims' = claims /\ mails' = mails /\ toSend' = toSend
      BY <1>4 DEF ClaimStart, CompleteCount, Steps
    <2>2. req' = [req EXCEPT ![w] =
                    [req[w] EXCEPT !.rows = req[w].rows, !.step = step]]
      BY <2>1 DEF TypeOK, Request
    <2>3. ClaimsKeep
      BY <1>r, <1>s, <2>1, <2>2
    <2>4. QED
      BY <2>1, <2>3 DEF BookkeepingOnly, ContactsMoveOn
  <1>w. ASSUME NEW d \in req[w].rows, NEW new, Writable(d), SetContact(w, d, new),
               new \notin {Absent, "PENDING"}, Finish(w), rowLock' = rowLock,
               claims' = claims, mails' = mails, toSend' = toSend
        PROVE  BookkeepingOnly
    <2>1. ContactsMoveOn
      BY <1>r, <1>w, WriteIsBookkeeping DEF Writable
    <2>2. ClaimsKeep
      BY <1>w, EndIsOutsideWindow
    <2>3. QED
      BY <1>w, <2>1, <2>2 DEF BookkeepingOnly
  <1>5. CASE MarkSent(w)
    BY <1>5, <1>w DEF MarkSent, Absent
  <1>6. CASE MarkSendFailed(w)
    <2>1. FailedStatus(req[w].op) \notin {Absent, "PENDING"}
      BY DEF FailedStatus, Absent
    <2>2. QED
      BY <1>6, <1>w, <2>1 DEF MarkSendFailed
  <1>7. CASE RegisterReply(w)
    BY <1>7, <1>w DEF RegisterReply, Absent
  <1>8. CASE ExtractOffer(w)
    BY <1>8, <1>w DEF ExtractOffer, ExtractionResults, Absent
  <1>9. QED
    BY <1>1, <1>2, <1>3, <1>4, <1>5, <1>6, <1>7, <1>8 DEF Proceed

-----------------------------------------------------------------------------
(* The three steps of a claim that move contacts towards their mail.       *)

LEMMA SelectKeepsInv ==
  ASSUME DispatchInv, TypeOK', NEW w \in Workers, ClaimSelect(w)
  PROVE  DispatchInv'
  <1> USE DEF clientVars
  <1>1. PICK B \in Batches(Claimable) :
          /\ rowLock' = [d \in Dealers |-> IF d \in B THEN w ELSE rowLock[d]]
          /\ req' = [req EXCEPT ![w].rows = B, ![w].step = "reserve",
                       ![w].unaddressed = \E d \in B : dealer[d] = "no_email"]
    BY DEF ClaimSelect
  <1>2. /\ contact' = contact /\ claims' = claims /\ mails' = mails
        /\ toSend' = toSend
    BY DEF ClaimSelect
  <1>3. \A d \in B : d \in Dealers /\ contact[d] = "PENDING" /\ rowLock[d] = NoOwner
    BY DEF Batches, Claimable, Writable
  <1>t. TypeOK
    BY DEF DispatchInv
  <1>4. /\ req'[w].step = "reserve" /\ req'[w].rows = B
        /\ \A v \in Workers \ {w} : req'[v] = req[v]
    BY <1>1, <1>t DEF TypeOK, Request
  <1>5. PickedRowsHeld'
    <2> SUFFICES ASSUME NEW v \in Workers, At(v, "claim", "reserve")',
                        NEW d \in req'[v].rows
                 PROVE  rowLock'[d] = v /\ contact'[d] = "PENDING"
      BY DEF PickedRowsHeld
    <2>1. CASE v = w
      BY <1>1, <1>2, <1>3, <1>4, <2>1
    <2>2. CASE v # w
      <3>1. At(v, "claim", "reserve") /\ d \in req[v].rows /\ d \in Dealers
        BY <1>4, <1>t, <2>2 DEF At, TypeOK, Request
      <3>2. rowLock[d] = v /\ contact[d] = "PENDING"
        BY <3>1 DEF DispatchInv, PickedRowsHeld
      <3>3. d \notin B
        BY <1>3, <3>2, OwnerAssumption
      <3>4. QED
        BY <1>1, <1>2, <3>1, <3>2, <3>3
    <2>3. QED
      BY <2>1, <2>2
  <1>6. AnswersAreDisjoint'
    BY <1>2, <1>4 DEF DispatchInv, AnswersAreDisjoint, At
  <1>7. UnclaimedIsFresh' /\ HandedIsUnmailed' /\ OneMailPerDealer'
    BY <1>2 DEF DispatchInv, UnclaimedIsFresh, HandedIsUnmailed, OneMailPerDealer
  <1>8. QED
    BY <1>5, <1>6, <1>7 DEF DispatchInv

LEMMA ReserveKeepsInv ==
  ASSUME DispatchInv, TypeOK', NEW w \in Workers, ClaimReserve(w)
  PROVE  DispatchInv'
  <1> USE DEF clientVars
  <1>t. TypeOK
    BY DEF DispatchInv
  <1>1. /\ At(w, "claim", "reserve")
        /\ mails' = mails /\ toSend' = toSend
        /\ req[w].rows \in SUBSET Dealers
        /\ req'[w].step = "respond" /\ req'[w].rows = req[w].rows
        /\ \A v \in Workers \ {w} : req'[v] = req[v]
    BY <1>t DEF ClaimReserve, TypeOK, Request
  <1>2. \A d \in Dealers :
          IF d \in req[w].rows
            THEN contact'[d] = "RESERVED" /\ claims'[d] = claims[d] + 1
            ELSE contact'[d] = contact[d] /\ claims'[d] = claims[d]
    BY DEF ClaimReserve
  <1>3. \A d \in req[w].rows : /\ rowLock[d] = w /\ contact[d] = "PENDING"
                               /\ claims[d] = 0 /\ mails[d] = 0
    <2> SUFFICES ASSUME NEW d \in req[w].rows
                 PROVE  /\ rowLock[d] = w /\ contact[d] = "PENDING"
                        /\ claims[d] = 0 /\ mails[d] = 0
      OBVIOUS
    <2>1. rowLock[d] = w /\ contact[d] = "PENDING"
      BY <1>1 DEF DispatchInv, PickedRowsHeld
    <2>2. claims[d] = 0 /\ mails[d] <= claims[d]
      BY <1>1, <2>1 DEF DispatchInv, UnclaimedIsFresh, OneMailPerDealer
    <2>3. mails[d] \in Nat
      BY <1>1, <1>t DEF TypeOK
    <2>4. QED
      BY <2>1, <2>2, <2>3
  <1>4. UnclaimedIsFresh'
    BY <1>2 DEF DispatchInv, UnclaimedIsFresh, Absent
  <1>5. PickedRowsHeld'
    <2> SUFFICES ASSUME NEW v \in Workers, At(v, "claim", "reserve")',
                        NEW d \in req'[v].rows
                 PROVE  rowLock'[d] = v /\ contact'[d] = "PENDING"
      BY DEF PickedRowsHeld
    <2>1. /\ v # w /\ At(v, "claim", "reserve")
          /\ d \in req[v].rows /\ d \in Dealers
      BY <1>1, <1>t DEF At, TypeOK, Request
    <2>2. rowLock[d] = v /\ contact[d] = "PENDING"
      BY <2>1 DEF DispatchInv, PickedRowsHeld
    <2>3. d \notin req[w].rows
      BY <1>3, <2>1, <2>2
    <2>4. rowLock'[d] = rowLock[d]
      BY <2>1, <2>2 DEF ClaimReserve
    <2>5. QED
      BY <1>2, <2>1, <2>2, <2>3, <2>4
  <1>6. \A d \in Dealers : claims[d] = 1 => d \notin req[w].rows /\ claims'[d] = claims[d]
    BY <1>2, <1>3
  <1>7. HandedIsUnmailed'
    BY <1>1, <1>6, <1>t DEF DispatchInv, HandedIsUnmailed, TypeOK
  <1>8. AnswersAreDisjoint'
    <2>1. ASSUME NEW v \in Workers \ {w}, At(v, "claim", "respond")'
          PROVE  /\ At(v, "claim", "respond") /\ req'[v].rows = req[v].rows
                 /\ \A d \in req[v].rows : d \in Dealers /\ claims[d] = 1
      BY <1>1, <1>t, <2>1 DEF At, DispatchInv, AnswersAreDisjoint, TypeOK, Request
    <2>2. ASSUME NEW v \in Workers, At(v, "claim", "respond")', NEW d \in req'[v].rows
          PROVE  claims'[d] = 1 /\ mails'[d] = 0 /\ d \notin toSend'
      <3>1. CASE v = w
        BY <1>1, <1>2, <1>3, <2>2, <3>1 DEF DispatchInv, HandedIsUnmailed
      <3>2. CASE v # w
        BY <1>1, <1>6, <2>1, <2>2, <3>2 DEF DispatchInv, AnswersAreDisjoint
      <3>3. QED
        BY <3>1, <3>2
    <2>3. ASSUME NEW v \in Workers, At(v, "claim", "respond")', NEW d \in req'[v].rows,
                 NEW u \in Workers \ {v}, At(u, "claim", "respond")'
          PROVE  d \notin req'[u].rows
      <3>1. CASE v = w
        BY <1>1, <1>6, <2>1, <2>3, <3>1
      <3>2. CASE u = w
        BY <1>1, <1>6, <2>1, <2>3, <3>2
      <3>3. CASE v # w /\ u # w
        BY <2>1, <2>3, <3>3 DEF DispatchInv, AnswersAreDisjoint
      <3>4. QED
        BY <3>1, <3>2, <3>3
    <2>4. QED
      BY <2>2, <2>3 DEF AnswersAreDisjoint
  <1>9. OneMailPerDealer'
    <2> SUFFICES ASSUME NEW d \in Dealers PROVE claims'[d] <= 1 /\ mails'[d] <= claims'[d]
      BY DEF OneMailPerDealer
    <2>1. CASE d \in req[w].rows
      BY <1>1, <1>2, <1>3, <2>1
    <2>2. CASE d \notin req[w].rows
      BY <1>1, <1>2, <2>2 DEF DispatchInv, OneMailPerDealer
    <2>3. QED
      BY <2>1, <2>2
  <1>10. QED
    BY <1>4, <1>5, <1>7, <1>8, <1>9 DEF DispatchInv

LEMMA RespondKeepsInv ==
  ASSUME DispatchInv, TypeOK', NEW w \in Workers, ClaimRespond(w)
  PROVE  DispatchInv'
  <1> USE DEF dbVars
  <1>t. TypeOK
    BY DEF DispatchInv
  <1>1. /\ At(w, "claim", "respond")
        /\ toSend' = toSend \cup req[w].rows
        /\ contact' = contact /\ rowLock' = rowLock
        /\ claims' = claims /\ mails' = mails
        /\ req'[w] = Idle /\ \A v \in Workers \ {w} : req'[v] = req[v]
    BY <1>t DEF ClaimRespond, Finish, TypeOK
  <1>2. \A v \in Workers, step \in {"reserve", "respond"} :
          At(v, "claim", step)' =>
            v # w /\ At(v, "claim", step) /\ req'[v].rows = req[v].rows
    BY <1>1 DEF At, Idle
  <1>3. PickedRowsHeld'
    BY <1>1, <1>2 DEF DispatchInv, PickedRowsHeld
  <1>4. HandedIsUnmailed'
    BY <1>1 DEF DispatchInv, HandedIsUnmailed, AnswersAreDisjoint
  <1>5. AnswersAreDisjoint'
    BY <1>1, <1>2 DEF DispatchInv, AnswersAreDisjoint
  <1>6. UnclaimedIsFresh' /\ OneMailPerDealer'
    BY <1>1 DEF DispatchInv, UnclaimedIsFresh, OneMailPerDealer
  <1>7. QED
    BY <1>3, <1>4, <1>5, <1>6 DEF DispatchInv

LEMMA SendKeepsInv ==
  ASSUME DispatchInv, TypeOK', NEW d \in Dealers, Send(d)
  PROVE  DispatchInv'
  <1> USE DEF dbVars
  <1>t. TypeOK
    BY DEF DispatchInv
  <1>1. /\ d \in toSend /\ toSend' = toSend \ {d}
        /\ contact' = contact /\ rowLock' = rowLock /\ claims' = claims
        /\ req' = req
    BY DEF Send
  <1>2. claims[d] = 1 /\ mails[d] = 0
    BY <1>1 DEF DispatchInv, HandedIsUnmailed
  <1>3. mails'[d] \in {0, 1} /\ \A e \in Dealers \ {d} : mails'[e] = mails[e]
    BY <1>2, <1>t DEF Send, TypeOK
  <1>4. PickedRowsHeld' /\ UnclaimedIsFresh'
    BY <1>1 DEF DispatchInv, PickedRowsHeld, UnclaimedIsFresh, At
  <1>5. HandedIsUnmailed'
    BY <1>1, <1>3, <1>t DEF DispatchInv, HandedIsUnmailed, TypeOK
  <1>6. AnswersAreDisjoint'
    <2>1. ASSUME NEW w \in Workers, At(w, "claim", "respond"), NEW e \in req[w].rows
          PROVE  mails'[e] = 0 /\ e \notin toSend'
      <3>1. e \notin toSend /\ mails[e] = 0 /\ e \in Dealers
        BY <1>t, <2>1 DEF DispatchInv, AnswersAreDisjoint, TypeOK, Request
      <3>2. QED
        BY <1>1, <1>3, <3>1
    <2>2. QED
      BY <1>1, <2>1 DEF DispatchInv, AnswersAreDisjoint, At
  <1>7. OneMailPerDealer'
    BY <1>1, <1>2, <1>3 DEF DispatchInv, OneMailPerDealer
  <1>8. QED
    BY <1>4, <1>5, <1>6, <1>7 DEF DispatchInv

-----------------------------------------------------------------------------
LEMMA InitDispatchInv == Init => DispatchInv
  <1>1. Init => UnclaimedIsFresh /\ HandedIsUnmailed /\ OneMailPerDealer
    BY DEF Init, UnclaimedIsFresh, HandedIsUnmailed, OneMailPerDealer
  <1>2. Init => PickedRowsHeld /\ AnswersAreDisjoint
    BY DEF Init, PickedRowsHeld, AnswersAreDisjoint, At, Idle
  <1>3. QED
    BY <1>1, <1>2, InitTypeOK DEF DispatchInv

LEMMA DispatchInvStep == DispatchInv /\ [Next]_vars => DispatchInv'
  <1> SUFFICES ASSUME DispatchInv, [Next]_vars PROVE DispatchInv'
    OBVIOUS
  <1>t. TypeOK /\ TypeOK'
    BY TypeOKStep DEF DispatchInv
  <1>1. ASSUME NEW w \in Workers, Arrive(w) PROVE DispatchInv'
    BY <1>1, <1>t, ArriveIsBookkeeping, BookkeepingKeepsInv
  <1>2. ASSUME NEW w \in Workers, Proceed(w) PROVE DispatchInv'
    <2>1. CASE ClaimSelect(w)
      BY <1>t, <2>1, SelectKeepsInv
    <2>2. CASE ClaimReserve(w)
      BY <1>t, <2>2, ReserveKeepsInv
    <2>3. CASE ClaimRespond(w)
      BY <1>t, <2>3, RespondKeepsInv
    <2>4. CASE ~ClaimSelect(w) /\ ~ClaimReserve(w) /\ ~ClaimRespond(w)
      BY <1>2, <1>t, <2>4, ProceedIsBookkeeping, BookkeepingKeepsInv
    <2>5. QED
      BY <2>1, <2>2, <2>3, <2>4
  <1>3. ASSUME NEW w \in Workers, Abort(w) PROVE DispatchInv'
    <2>1. /\ Finish(w) /\ contact' = contact /\ claims' = claims
          /\ mails' = mails /\ toSend' = toSend
          /\ \A v \in Workers \ {w}, d \in Dealers : rowLock[d] = v => rowLock'[d] = v
      BY <1>3 DEF Abort
    <2>2. ClaimsKeep
      BY <1>t, <2>1, EndIsOutsideWindow
    <2>3. BookkeepingOnly
      BY <2>1, <2>2 DEF BookkeepingOnly, ContactsMoveOn
    <2>4. QED
      BY <1>t, <2>3, BookkeepingKeepsInv
  <1>4. ASSUME NEW d \in Dealers, Send(d) PROVE DispatchInv'
    BY <1>4, <1>t, SendKeepsInv
  <1>5. ASSUME \/ \E d \in Dealers : ChangeDealer(d)
               \/ WorkflowDies
               \/ UNCHANGED vars
        PROVE  DispatchInv'
    <2>1. /\ req' = req /\ contact' = contact /\ rowLock' = rowLock
          /\ claims' = claims /\ mails' = mails /\ toSend' \subseteq toSend
      BY <1>5 DEF ChangeDealer, WorkflowDies, vars, dbVars, clientVars
    <2>2. BookkeepingOnly
      BY <2>1 DEF BookkeepingOnly, ContactsMoveOn, ClaimsKeep, At
    <2>3. QED
      BY <1>t, <2>2, BookkeepingKeepsInv
  <1>6. QED
    BY <1>1, <1>2, <1>3, <1>4, <1>5 DEF Next

(* The invariant that makes claiming safe holds in every reachable state.  *)
THEOREM DispatchInvariant == Spec => []DispatchInv
  <1>1. QED
    BY InitDispatchInv, DispatchInvStep, PTL DEF Spec

(* FOR UPDATE SKIP LOCKED gives every claim rows of its own, whatever else *)
(* runs: list_pending_for_update followed by the commit of claim_contacts. *)
THEOREM ClaimsDoNotOverlap == Spec => []PickedRowsHeld
  <1>1. DispatchInv => PickedRowsHeld
    BY DEF DispatchInv
  <1>2. QED
    BY <1>1, DispatchInvariant, PTL

(* No dealer is claimed twice or mailed twice for one campaign.            *)
THEOREM AtMostOneMail == Spec => []OneMailPerDealer
  <1>1. DispatchInv => OneMailPerDealer
    BY DEF DispatchInv
  <1>2. QED
    BY <1>1, DispatchInvariant, PTL
=============================================================================
