--------------------------- MODULE CompletionProofs ---------------------------
(***************************************************************************)
(* Completion when requests are served one at a time and nobody patches    *)
(* the status: for any dealers, claim limit, other requests and failures.  *)
(* With two requests at once both properties fail, and a PATCH may write   *)
(* any status over a completed campaign's.                                 *)
(***************************************************************************)
EXTENDS CampaignDispatchProofs

OneAtATime == (\A v, w \in Workers : v = w) /\ "patch" \notin Ops

(* Between a request's look at the campaign and its own write of it, the   *)
(* campaign is as it was read, and what completion has counted still holds.*)
ReadIsCurrent ==
  \A w \in Workers :
    /\ req[w].op # "patch"
    /\ req[w].op \in {"claim", "complete", "dispatch_status"}
       /\ req[w].step \in {"ensure", "insert", "start", "count", "finish"} =>
         req[w].status = status /\ req[w].completed = completed
    /\ At(w, "claim", "start") => req[w].status = "DRAFT"
    /\ At(w, "complete", "finish") => ~SendableRemain

(* A campaign with completed_at is completed. *)
StampedIsCompleted == completed => status = "COMPLETED"

CompletionInv == TypeOK /\ ReadIsCurrent /\ StampedIsCompleted

-----------------------------------------------------------------------------
LEMMA InitCompletion == Init => CompletionInv
  <1> SUFFICES ASSUME Init PROVE CompletionInv
    OBVIOUS
  <1>1. TypeOK
    BY InitTypeOK
  <1>2. \A w \in Workers : req[w] = Idle
    BY DEF Init
  <1>3. ReadIsCurrent
    BY <1>2 DEF ReadIsCurrent, Idle, At
  <1>4. QED
    BY <1>1, <1>3 DEF CompletionInv, StampedIsCompleted, Init

(* The one request that runs ends. *)
LEMMA EndKeepsRead ==
  ASSUME NEW w \in Workers, OneAtATime, Finish(w), TypeOK
  PROVE  ReadIsCurrent'
  <1>1. \A v \in Workers : req'[v] = Idle
    BY DEF OneAtATime, Finish, TypeOK
  <1>2. QED
    BY <1>1 DEF ReadIsCurrent, Idle, At

(* It goes on, and the campaign is left alone. *)
LEMMA GoesOn ==
  ASSUME NEW w \in Workers, OneAtATime, TypeOK, NEW r, req' = [req EXCEPT ![w] = r],
         r.op # "patch",
         r.op \in {"claim", "complete", "dispatch_status"}
         /\ r.step \in {"ensure", "insert", "start", "count", "finish"} =>
           r.status = status' /\ r.completed = completed',
         r.op = "claim" /\ r.step = "start" => r.status = "DRAFT",
         r.op = "complete" /\ r.step = "finish" => ~SendableRemain'
  PROVE  ReadIsCurrent'
  <1>1. \A v \in Workers : req'[v] = r
    BY DEF OneAtATime, TypeOK
  <1>2. QED
    BY <1>1 DEF ReadIsCurrent, At

LEMMA ArriveKeepsRead ==
  ASSUME NEW w \in Workers, OneAtATime, CompletionInv, Arrive(w)
  PROVE  CompletionInv'
  <1>1. UNCHANGED <<status, completed, contact>>
    BY DEF Arrive, Begin, PostReport, Load, BeginReply, BeginExtract, BeginPatch, dbVars
  <1>2. \E r : /\ req' = [req EXCEPT ![w] = r]
               /\ \/ /\ r.step = "ensure" /\ r.status = status /\ r.completed = completed
                     /\ r.op # "patch"
                  \/ r.step = "write" /\ r.op # "patch"
    <2>1. ASSUME NEW op \in {"claim", "complete", "dispatch_status"}, Begin(w, op)
          PROVE  \E r : /\ req' = [req EXCEPT ![w] = r]
                        /\ r.step = "ensure" /\ r.status = status /\ r.completed = completed
                        /\ r.op # "patch"
      <3> DEFINE r == [Idle EXCEPT !.op = op, !.step = "ensure",
                                   !.status = status, !.completed = completed]
      <3>1. req' = [req EXCEPT ![w] = r]
        BY <2>1 DEF Begin
      <3>2. r.step = "ensure" /\ r.status = status /\ r.completed = completed /\ r.op # "patch"
        BY DEF Idle
      <3>3. QED
        BY <3>1, <3>2
    <2>2. ASSUME NEW op \in AllOps \ {"patch"}, NEW rows, Load(w, op, rows)
          PROVE  \E r : req' = [req EXCEPT ![w] = r] /\ r.step = "write" /\ r.op # "patch"
      <3>1. PICK d \in rows :
               req' = [req EXCEPT ![w] = [Idle EXCEPT !.op = op, !.step = "write",
                         !.rows = {d}, !.contact = contact[d], !.stored = stored[d]]]
        BY <2>2 DEF Load
      <3> DEFINE r == [Idle EXCEPT !.op = op, !.step = "write",
                         !.rows = {d}, !.contact = contact[d], !.stored = stored[d]]
      <3>2. r.step = "write" /\ r.op # "patch"
        BY DEF Idle
      <3>3. QED
        BY <3>1, <3>2
    <2>3. CASE \E kind \in ReportKinds, d \in Dealers : PostReport(w, kind, d)
      BY <2>2, <2>3 DEF PostReport, ReportKinds, AllOps
    <2>4. CASE BeginReply(w) \/ BeginExtract(w)
      BY <2>2, <2>4 DEF BeginReply, BeginExtract, AllOps
    <2>5. ~BeginPatch(w)
      BY DEF BeginPatch, OneAtATime
    <2>6. QED
      BY <2>1, <2>3, <2>4, <2>5 DEF Arrive
  <1>3. PICK r : /\ req' = [req EXCEPT ![w] = r]
                 /\ \/ /\ r.step = "ensure" /\ r.status = status /\ r.completed = completed
                       /\ r.op # "patch"
                    \/ r.step = "write" /\ r.op # "patch"
    BY <1>2
  <1>4. ReadIsCurrent'
    BY <1>1, <1>3, GoesOn DEF CompletionInv
  <1>5. TypeOK'
    BY TypeOKStep DEF CompletionInv, Next
  <1>6. QED
    BY <1>1, <1>4, <1>5 DEF CompletionInv, StampedIsCompleted

(* A request goes on with its next step. *)
LEMMA MovesOn ==
  ASSUME NEW w \in Workers, OneAtATime, CompletionInv, NEW p, req' = [req EXCEPT ![w] = p],
         p.op = req[w].op, p.status = req[w].status, p.completed = req[w].completed,
         \/ p.step \in {"select", "reserve", "respond"}
         \/ /\ p.step \in {"insert", "start", "count"} /\ req[w].step \in {"ensure", "insert"}
            /\ UNCHANGED <<status, completed>>
         \/ /\ p.step = "finish" /\ req[w].step = "count" /\ ~SendableRemain'
            /\ UNCHANGED <<status, completed>>,
         p.op = "claim" /\ p.step = "start" => p.status = "DRAFT"
  PROVE  ReadIsCurrent'
  <1>1. req[w].op # "patch" /\ TypeOK
    BY DEF CompletionInv, ReadIsCurrent
  <1>2. req[w].op \in {"claim", "complete", "dispatch_status"}
        /\ req[w].step \in {"ensure", "insert", "start", "count", "finish"} =>
          req[w].status = status /\ req[w].completed = completed
    BY DEF CompletionInv, ReadIsCurrent
  <1>3. p.op \in {"claim", "complete", "dispatch_status"}
        /\ p.step \in {"ensure", "insert", "start", "count", "finish"} =>
          p.status = status' /\ p.completed = completed'
    BY <1>2
  <1>4. p.op # "patch" /\ (p.op = "complete" /\ p.step = "finish" => ~SendableRemain')
    BY <1>1
  <1>5. QED
    BY <1>1, <1>3, <1>4, GoesOn

LEMMA ProceedKeepsRead ==
  ASSUME NEW w \in Workers, OneAtATime, CompletionInv, Proceed(w)
  PROVE  CompletionInv'
  <1>1. /\ TypeOK /\ req[w] \in Request /\ req[w].op # "patch"
        /\ At(w, "complete", "finish") => req[w].status = status
        /\ At(w, "claim", "start") => req[w].status = status /\ status = "DRAFT"
        /\ completed => status = "COMPLETED"
    BY DEF CompletionInv, ReadIsCurrent, StampedIsCompleted, TypeOK, At
  <1>2. TypeOK'
    BY <1>1, TypeOKStep DEF Next
  <1>3. SUFFICES ReadIsCurrent' /\ StampedIsCompleted'
    BY <1>2 DEF CompletionInv
  <1> DEFINE Same(p) == p.op = req[w].op /\ p.status = req[w].status
                        /\ p.completed = req[w].completed
  <1>4. CASE EnsureRead(w) \/ EnsureInsert(w)
    <2>1. UNCHANGED <<status, completed>> /\ req[w].step \in {"ensure", "insert"}
      BY <1>4 DEF EnsureRead, EnsureInsert, dbVars
    <2>2. AfterEnsure(req[w]) \in {"count", "start", "select"}
          /\ (req[w].op = "claim" /\ AfterEnsure(req[w]) = "start" => req[w].status = "DRAFT")
      BY DEF AfterEnsure
    <2>3. PICK p : /\ req' = [req EXCEPT ![w] = p] /\ Same(p)
                   /\ p.step \in {"insert", AfterEnsure(req[w])}
      <3>1. CASE EnsureRead(w)
        <4>1. PICK step \in {"insert", AfterEnsure(req[w])} :
                req' = [req EXCEPT ![w].rows = MissingContacts, ![w].step = step]
          BY <3>1 DEF EnsureRead
        <4>2. PICK p : p = [req[w] EXCEPT !.rows = MissingContacts, !.step = step]
          OBVIOUS
        <4>3. req' = [req EXCEPT ![w] = p] /\ Same(p) /\ p.step = step
          BY <1>1, <4>1, <4>2 DEF Request
        <4>4. QED
          BY <4>1, <4>3
      <3>2. CASE EnsureInsert(w)
        <4>1. req' = [req EXCEPT ![w].rows = {}, ![w].step = AfterEnsure(req[w])]
          BY <3>2 DEF EnsureInsert
        <4>2. PICK p : p = [req[w] EXCEPT !.rows = {}, !.step = AfterEnsure(req[w])]
          OBVIOUS
        <4>3. req' = [req EXCEPT ![w] = p] /\ Same(p) /\ p.step = AfterEnsure(req[w])
          BY <1>1, <4>1, <4>2 DEF Request
        <4>4. QED
          BY <4>3
      <3>3. QED
        BY <1>4, <3>1, <3>2
    <2>4. ReadIsCurrent'
      BY <2>1, <2>2, <2>3, MovesOn
    <2>5. QED
      BY <1>1, <2>1, <2>4 DEF StampedIsCompleted
  <1>5. CASE ClaimStart(w) \/ ClaimSelect(w) \/ ClaimReserve(w)
    <2>1. PICK p : /\ req' = [req EXCEPT ![w] = p] /\ Same(p)
                   /\ p.step \in {"select", "reserve", "respond"}
      <3>1. CASE ClaimStart(w) \/ ClaimReserve(w)
        <4>1. PICK step \in {"select", "respond"} : req' = [req EXCEPT ![w].step = step]
          BY <3>1 DEF ClaimStart, ClaimReserve
        <4>2. PICK p : p = [req[w] EXCEPT !.step = step]
          OBVIOUS
        <4>3. req' = [req EXCEPT ![w] = p] /\ Same(p) /\ p.step = step
          BY <1>1, <4>1, <4>2 DEF Request
        <4>4. QED
          BY <4>1, <4>3
      <3>2. CASE ClaimSelect(w)
        <4>1. PICK B : req' = [req EXCEPT ![w].rows = B, ![w].step = "reserve",
                                          ![w].unaddressed = \E d \in B : dealer[d] = "no_email"]
          BY <3>2 DEF ClaimSelect
        <4>2. PICK p : p = [req[w] EXCEPT !.rows = B, !.step = "reserve",
                              !.unaddressed = \E d \in B : dealer[d] = "no_email"]
          OBVIOUS
        <4>3. req' = [req EXCEPT ![w] = p] /\ Same(p) /\ p.step = "reserve"
          BY <1>1, <4>1, <4>2 DEF Request
        <4>4. QED
          BY <4>3
      <3>3. QED
        BY <1>5, <3>1, <3>2
    <2>2. ReadIsCurrent'
      <3>1. p.op = "claim" /\ p.step = "start" => p.status = "DRAFT"
        BY <2>1
      <3>2. QED
        BY <2>1, <3>1, MovesOn
    <2>3. UNCHANGED completed /\ (UNCHANGED status \/ ~completed)
      BY <1>1, <1>5 DEF ClaimStart, ClaimSelect, ClaimReserve
    <2>4. QED
      BY <1>1, <2>2, <2>3 DEF StampedIsCompleted
  <1>6. CASE CompleteCount(w)
    <2>1. /\ req[w].step = "count" /\ ~SendableRemain /\ UNCHANGED <<status, completed, contact>>
          /\ req' = [req EXCEPT ![w].step = "finish"]
      BY <1>6 DEF CompleteCount, At, dbVars
    <2>2. ~SendableRemain'
      BY <2>1 DEF SendableRemain
    <2>3. PICK p : p = [req[w] EXCEPT !.step = "finish"]
      OBVIOUS
    <2>4. /\ req' = [req EXCEPT ![w] = p] /\ p.step = "finish" /\ p.op = req[w].op
          /\ p.status = req[w].status /\ p.completed = req[w].completed
      BY <1>1, <2>1, <2>3 DEF Request
    <2>5. ReadIsCurrent'
      BY <2>1, <2>2, <2>4, MovesOn
    <2>6. QED
      BY <1>1, <2>1, <2>5 DEF StampedIsCompleted
  <1>7. CASE CompleteFinish(w)
    <2>1. Finish(w) /\ status' = Assign(status, req[w].status, "COMPLETED")
      BY <1>7 DEF CompleteFinish
    <2>2. status' = "COMPLETED"
      BY <1>1, <1>7, <2>1 DEF CompleteFinish, Assign
    <2>3. QED
      BY <1>1, <2>1, <2>2, EndKeepsRead DEF StampedIsCompleted
  <1>8. CASE \/ EnsureConflict(w) \/ ClaimRespond(w) \/ ClaimRespondInvalid(w)
            \/ DispatchStatusAnswer(w) \/ CompleteAgain(w) \/ CompleteBlocked(w)
            \/ MarkSentAgain(w) \/ MarkSent(w) \/ MarkSendFailed(w)
            \/ RegisterReply(w) \/ RegisterReplyConflict(w) \/ ExtractOffer(w)
    <2>1. Finish(w) /\ UNCHANGED <<status, completed>>
      BY <1>8 DEF EnsureConflict, ClaimRespond, ClaimRespondInvalid, DispatchStatusAnswer,
           CompleteAgain, CompleteBlocked, MarkSentAgain, MarkSent, MarkSendFailed,
           RegisterReply, RegisterReplyConflict, ExtractOffer, dbVars
    <2>2. QED
      BY <1>1, <2>1, EndKeepsRead DEF StampedIsCompleted
  <1>9. CASE UpdateStatus(w)
    BY <1>1, <1>9 DEF UpdateStatus, At
  <1>10. QED
    BY <1>4, <1>5, <1>6, <1>7, <1>8, <1>9 DEF Proceed

LEMMA CompletionStep ==
  ASSUME OneAtATime, CompletionInv, [Next]_vars
  PROVE  CompletionInv'
  <1>1. ASSUME NEW w \in Workers, Abort(w) PROVE CompletionInv'
    <2>1. Finish(w) /\ UNCHANGED <<status, completed>> /\ TypeOK
      BY <1>1 DEF Abort, CompletionInv
    <2>2. TypeOK'
      BY <2>1, TypeOKStep
    <2>3. QED
      BY <2>1, <2>2, EndKeepsRead DEF CompletionInv, StampedIsCompleted
  <1>2. ASSUME \/ \E d \in Dealers : ChangeDealer(d) \/ Send(d)
               \/ WorkflowDies
               \/ UNCHANGED vars
        PROVE  CompletionInv'
    <2>1. UNCHANGED <<status, completed, contact, req>>
      BY <1>2 DEF ChangeDealer, Send, WorkflowDies, vars, dbVars
    <2>2. TypeOK'
      BY TypeOKStep DEF CompletionInv
    <2>3. QED
      BY <2>1, <2>2 DEF CompletionInv, ReadIsCurrent, StampedIsCompleted, At, SendableRemain
  <1>3. QED
    BY <1>1, <1>2, ArriveKeepsRead, ProceedKeepsRead DEF Next

-----------------------------------------------------------------------------
(* complete_campaign completes nothing while a contact is PENDING, RESERVED*)
(* or has failed: what it counted still holds when it writes.              *)
THEOREM CompletionIsBlocked ==
  ASSUME OneAtATime
  PROVE  Spec => CompletionBlocked
  <1>1. CompletionInv /\ [Next]_vars =>
          (status # "COMPLETED" /\ status' = "COMPLETED" =>
             \A d \in Dealers : contact[d] \notin
               {"PENDING", "RESERVED", "SEND_FAILED", "SEND_STATE_UNKNOWN"})
    <2> SUFFICES ASSUME CompletionInv, [Next]_vars,
                        status # "COMPLETED", status' = "COMPLETED"
                 PROVE  \A d \in Dealers : contact[d] \notin
                          {"PENDING", "RESERVED", "SEND_FAILED", "SEND_STATE_UNKNOWN"}
      OBVIOUS
    <2>1. PICK w \in Workers : Proceed(w)
      BY DEF Next, vars, dbVars, Arrive, Begin, PostReport, Load, BeginReply, BeginExtract,
         BeginPatch, Abort, ChangeDealer, Send, WorkflowDies
    <2>2. req[w].op # "patch"
      BY DEF CompletionInv, ReadIsCurrent
    <2>3. CompleteFinish(w)
      BY <2>1, <2>2 DEF Proceed, At, dbVars, EnsureRead, EnsureInsert, EnsureConflict,
         ClaimStart, ClaimSelect, ClaimReserve, ClaimRespond, ClaimRespondInvalid,
         DispatchStatusAnswer, CompleteAgain, CompleteBlocked, CompleteCount, MarkSentAgain,
         MarkSent, MarkSendFailed, RegisterReply, RegisterReplyConflict, ExtractOffer,
         UpdateStatus
    <2>4. QED
      BY <2>3 DEF CompleteFinish, CompletionInv, ReadIsCurrent, SendableRemain, BlockingStatuses
  <1>2. Init => CompletionInv
    BY InitCompletion
  <1>3. CompletionInv /\ [Next]_vars => CompletionInv'
    BY CompletionStep
  <1>4. QED
    BY <1>1, <1>2, <1>3, PTL DEF Spec, CompletionBlocked

(* A request that finds completed_at set finds the campaign completed, and *)
(* so answers success without counting anything.                           *)
THEOREM CompletionIsIdempotent ==
  ASSUME OneAtATime
  PROVE  Spec => CompletionIdempotent
  <1>1. CompletionInv => \A w \in Workers : CompleteBlocked(w) => ~req[w].completed
    BY DEF CompletionInv, ReadIsCurrent, StampedIsCompleted, CompleteBlocked, At,
       AlreadyCompleted
  <1>2. Init => CompletionInv
    BY InitCompletion
  <1>3. CompletionInv /\ [Next]_vars => CompletionInv'
    BY CompletionStep
  <1>4. QED
    BY <1>1, <1>2, <1>3, PTL DEF Spec, CompletionIdempotent
=============================================================================
