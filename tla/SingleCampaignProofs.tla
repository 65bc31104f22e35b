------------------------- MODULE SingleCampaignProofs -------------------------
(***************************************************************************)
(* Proofs about SingleCampaign for every set of campaigns, of mails and of *)
(* request threads.                                                        *)
(***************************************************************************)
EXTENDS SingleCampaign, TLAPS

(* The three invariants together are inductive. *)
SlotInv == TypeOK /\ AtMostOneCampaign /\ RowsBelongToCampaign

-----------------------------------------------------------------------------
(* What the commits do to the set of campaigns. *)

LEMMA UnwrittenLive == UNCHANGED status => live' = live
  BY DEF live

LEMMA ReplaceLive ==
  ASSUME TypeOK, NEW w \in Workers, NEW c \in Campaigns, Replace(w, c)
  PROVE  live' = {c} /\ status'[c] = "DRAFT"
  <1>1. status' = [d \in Campaigns |->
                     IF d = c THEN "DRAFT"
                     ELSE IF d \in req[w].read THEN Absent ELSE status[d]]
    BY DEF Replace, StatusAfter
  <1>2. \A d \in Campaigns : d \in live' <=> d = c
    BY <1>1, AbsentAssumption DEF Replace, live, Statuses
  <1>3. QED
    BY <1>1, <1>2 DEF live

LEMMA WipeLive ==
  ASSUME TypeOK, NEW w \in Workers, Wipe(w)
  PROVE  live' = {}
  BY DEF Wipe, StatusAfter, live

(* A claim or completion that gets to commit deletes nothing: its campaign *)
(* is there, so there is no other.                                         *)
LEMMA WriteLive ==
  ASSUME SlotInv, NEW w \in Workers, WriteStatus(w)
  PROVE  /\ live' = live
         /\ UNCHANGED <<customer, contacts, mail>>
         /\ status' = [status EXCEPT ![req[w].campaign] = NewStatus(req[w].op)]
  <1>1. Others(req[w]) = {} /\ req[w].campaign \in live
    BY DEF WriteStatus, Others, SlotInv, AtMostOneCampaign
  <1>2. StatusAfter({}) = status /\ MailsOf({}) = {} /\ MailsAfter({}, {}) = mail
    BY DEF StatusAfter, MailsOf, MailsAfter, SlotInv, TypeOK
  <1>3. /\ UNCHANGED <<customer, contacts, mail>>
        /\ status' = [status EXCEPT ![req[w].campaign] = NewStatus(req[w].op)]
    BY <1>1, <1>2 DEF WriteStatus
  <1>4. NewStatus(req[w].op) \in Statuses
    BY DEF NewStatus, Statuses
  <1>5. live' = live
    BY <1>1, <1>3, <1>4, AbsentAssumption DEF live, SlotInv, TypeOK
  <1>6. QED
    BY <1>3, <1>5

-----------------------------------------------------------------------------
(* Type correctness. *)

LEMMA IdleIsRequest == Idle \in Request
  BY DEF Idle, Request, Statuses

LEMMA MailsAfterTyped ==
  ASSUME TypeOK, NEW held, NEW gone
  PROVE  MailsAfter(held, gone) \in [Messages -> Campaigns \cup {None, Absent}]
  BY DEF MailsAfter, TypeOK

LEMMA ReplaceRequest ==
  ASSUME TypeOK, NEW w \in Workers, NEW r, WellFormed(r), req' = [req EXCEPT ![w] = r]
  PROVE  req' \in [Workers -> Request] /\ \A v \in Workers : WellFormed(req'[v])
  <1>1. r \in Request
    BY DEF WellFormed
  <1>2. req' \in [Workers -> Request]
    BY <1>1 DEF TypeOK
  <1>3. \A v \in Workers : req'[v] = r \/ req'[v] = req[v]
    BY DEF TypeOK
  <1>4. QED
    BY <1>2, <1>3 DEF TypeOK

LEMMA RequestStep ==
  ASSUME TypeOK, Next
  PROVE  \E w \in Workers : \E r : WellFormed(r) /\ req' = [req EXCEPT ![w] = r]
  <1> PICK w \in Workers : Arrive(w) \/ Proceed(w) \/ Abort(w)
    BY DEF Next
  <1> SUFFICES \E r : WellFormed(r) /\ req' = [req EXCEPT ![w] = r]
    OBVIOUS
  <1>i. WellFormed(Idle)
    BY IdleIsRequest DEF WellFormed, Idle, CampaignOps
  <1>r. WellFormed(req[w]) /\ live \subseteq Campaigns
    BY DEF TypeOK, live, WellFormed
  <1> USE DEF Finish
  <1>1. CASE \E op \in CreateOps : BeginCreate(w, op)
    <2> PICK op \in CreateOps : BeginCreate(w, op)
      BY <1>1
    <2>1. PICK step \in {"replace", "delete"} :
            req' = [req EXCEPT ![w] =
              [Idle EXCEPT !.op = op, !.read = live, !.step = step]]
      BY DEF BeginCreate
    <2> DEFINE r == [Idle EXCEPT !.op = op, !.read = live, !.step = step]
    <2>2. WellFormed(r)
      BY ZenonT(60), <1>i, <1>r DEF WellFormed, Request, Idle, CampaignOps, CreateOps
    <2>3. QED
      BY <2>1, <2>2
  <1>2. CASE \E c \in live, op \in CampaignOps : BeginOn(w, c, op)
    <2> PICK c \in live, op \in CampaignOps : BeginOn(w, c, op)
      BY <1>2
    <2>1. status[c] \in Statuses /\ c \in Campaigns
      BY DEF TypeOK, live
    <2>2. PICK step \in {"write", "ensure"} :
            req' = [req EXCEPT ![w] =
              [Idle EXCEPT !.op = op, !.campaign = c, !.status = status[c], !.step = step]]
      BY DEF BeginOn
    <2> DEFINE r == [Idle EXCEPT !.op = op, !.campaign = c, !.status = status[c],
                                 !.step = step]
    <2>3. WellFormed(r)
      BY <2>1, <1>i DEF WellFormed, Request, Idle, CampaignOps, CreateOps
    <2>4. QED
      BY <2>2, <2>3
  <1>3. CASE \E m \in Messages : BeginRegister(w, m)
    <2> PICK m \in Messages : BeginRegister(w, m)
      BY <1>3
    <2> PICK c \in Campaigns \cup {None} :
          req' = [req EXCEPT ![w] =
            [Idle EXCEPT !.op = "register", !.step = "match", !.campaign = c,
                         !.read = live, !.message = m]]
      BY <1>r DEF BeginRegister, Relevant
    <2> DEFINE r == [Idle EXCEPT !.op = "register", !.step = "match", !.campaign = c,
                                 !.read = live, !.message = m]
    <2>1. WellFormed(r)
      BY ZenonT(60), <1>i, <1>r DEF WellFormed, Request, Idle, CampaignOps, CreateOps
    <2>2. QED
      BY <2>1
  <1>4. CASE BeginReset(w)
    <2> DEFINE stored == {m \in Messages : mail[m] # Absent}
               r == [Idle EXCEPT !.op = "reset", !.step = "wipe", !.held = stored]
    <2>1. WellFormed(r)
      BY ZenonT(20), <1>i, <1>r DEF WellFormed, Request, Idle, CampaignOps, CreateOps
    <2>2. req' = [req EXCEPT ![w] = r]
      BY <1>4 DEF BeginReset
    <2>3. QED
      BY <2>1, <2>2
  <1>5. CASE DeleteMails(w)
    <2> DEFINE r == [req[w] EXCEPT !.step = "replace", !.held = MailsOf(req[w].read)]
    <2>1. WellFormed(r)
      BY <1>5, <1>r DEF WellFormed, Request, MailsOf, DeleteMails
    <2>2. req' = [req EXCEPT ![w] = r]
      BY <1>5 DEF DeleteMails, TypeOK
    <2>3. QED
      BY <2>1, <2>2
  <1>6. CASE \E c \in Campaigns : Replace(w, c)
    <2> PICK c \in Campaigns : Replace(w, c)
      BY <1>6
    <2> DEFINE r == [Idle EXCEPT !.op = "create_for_customer", !.step = "customer",
                                 !.campaign = c]
    <2>1. WellFormed(r)
      BY <1>i DEF WellFormed, Request, Idle, CampaignOps, CreateOps
    <2>2. req' = [req EXCEPT ![w] = IF req[w].op = "create" THEN Idle ELSE r]
      BY DEF Replace, AfterReplace
    <2>3. QED
      BY <1>i, <2>1, <2>2
  <1>7. CASE ReplaceConflict(w) \/ StoreCustomer(w) \/ EnsureRefused(w) \/ WriteStatus(w)
             \/ CampaignGone(w) \/ NothingToWrite(w) \/ Store(w) \/ StoreRefused(w)
             \/ Wipe(w) \/ Abort(w)
    <2>1. req' = [req EXCEPT ![w] = Idle]
      BY <1>7 DEF ReplaceConflict, StoreCustomer, EnsureRefused, WriteStatus, CampaignGone,
                  NothingToWrite, Store, StoreRefused, Wipe, Abort
    <2>2. QED
      BY <2>1, <1>i
  <1>8. CASE ContactsComplete(w) \/ EnsureContacts(w)
    <2> DEFINE r == [req[w] EXCEPT !.step = "write"]
    <2>1. WellFormed(r)
      BY <1>r DEF WellFormed, Request
    <2>2. req' = [req EXCEPT ![w] = IF GoesOn(req[w]) THEN r ELSE Idle]
      BY <1>8 DEF ContactsComplete, EnsureContacts, AfterEnsure
    <2>3. QED
      BY <1>i, <2>1, <2>2
  <1>9. CASE Match(w)
    <2>1. req[w].message \in Messages /\ req[w].campaign \in Campaigns \cup {None}
      BY <1>9, <1>r DEF Match, WellFormed, Request
    <2>2. FallbackCampaign(req[w]) \in Campaigns \cup {None}
      BY <2>1 DEF FallbackCampaign, TypeOK
    <2>3. PICK c \in Campaigns \cup {None}, link \in {"none", "existing", "new"} :
            /\ req' = [req EXCEPT ![w].step = "store", ![w].campaign = c, ![w].link = link]
            /\ link = "new" => c # None
      <3>1. CASE \E c \in contacts :
                   req' = [req EXCEPT ![w].step = "store", ![w].campaign = c,
                                      ![w].link = "existing"]
        BY <3>1 DEF TypeOK
      <3>2. CASE \E link \in {"none", "new"} :
                   /\ link = "new" => FallbackCampaign(req[w]) # None
                   /\ req' = [req EXCEPT ![w].step = "store", ![w].link = link,
                                         ![w].campaign = FallbackCampaign(req[w])]
        <4> PICK link \in {"none", "new"} :
              /\ link = "new" => FallbackCampaign(req[w]) # None
              /\ req' = [req EXCEPT ![w].step = "store", ![w].link = link,
                                    ![w].campaign = FallbackCampaign(req[w])]
          BY <3>2
        <4>1. req' = [req EXCEPT ![w].step = "store",
                                 ![w].campaign = FallbackCampaign(req[w]),
                                 ![w].link = link]
          BY DEF TypeOK
        <4>2. QED
          BY <4>1, <2>2
      <3>3. QED
        BY <1>9, <3>1, <3>2 DEF Match
    <2> DEFINE r == [req[w] EXCEPT !.step = "store", !.campaign = c, !.link = link]
    <2>4. WellFormed(r)
      BY <2>1, <2>3, <1>9, <1>r DEF WellFormed, Request, Match
    <2>5. req' = [req EXCEPT ![w] = r]
      BY <2>3 DEF TypeOK
    <2>6. QED
      BY <2>4, <2>5
  <1>10. QED
    BY <1>1, <1>2, <1>3, <1>4, <1>5, <1>6, <1>7, <1>8, <1>9 DEF Arrive, Proceed

-----------------------------------------------------------------------------
(* The invariants. *)

LEMMA InitSlotInv == Init => SlotInv
  <1> SUFFICES ASSUME Init PROVE SlotInv
    OBVIOUS
  <1>1. live = {}
    BY DEF Init, live
  <1>2. TypeOK
    <2>1. WellFormed(Idle)
      BY IdleIsRequest DEF WellFormed, Idle, CampaignOps
    <2>2. QED
      BY <1>1, <2>1, IdleIsRequest DEF Init, TypeOK
  <1>3. QED
    BY <1>1, <1>2 DEF Init, SlotInv, AtMostOneCampaign, RowsBelongToCampaign

(* Everything but the request records and the subjects of the mails. *)
Rows ==
  /\ status \in [Campaigns -> Statuses \cup {Absent}]
  /\ used \subseteq Campaigns /\ live \subseteq used
  /\ customer \subseteq live /\ contacts \subseteq live
  /\ AtMostOneCampaign
  /\ mail \in [Messages -> live \cup {None, Absent}]
  /\ filed \in [Messages -> Campaigns \cup {None}]

LEMMA RowsInv == SlotInv => Rows
  BY DEF SlotInv, TypeOK, RowsBelongToCampaign, AtMostOneCampaign, Rows

LEMMA ReplaceRows ==
  ASSUME SlotInv, NEW w \in Workers, NEW c \in Campaigns, Replace(w, c)
  PROVE  Rows'
  <1>1. live' = {c}
    BY ReplaceLive DEF SlotInv
  <1>2. customer' = {} /\ contacts' = {}
    BY DEF Replace, SlotInv, RowsBelongToCampaign
  <1>3. mail' \in [Messages -> {None, Absent}]
    BY DEF Replace, MailsAfter, SlotInv, RowsBelongToCampaign, TypeOK
  <1>4. status' \in [Campaigns -> Statuses \cup {Absent}]
    BY DEF Replace, StatusAfter, SlotInv, TypeOK, Statuses
  <1>5. used' \subseteq Campaigns /\ live' \subseteq used'
    BY <1>1 DEF Replace, SlotInv, TypeOK
  <1>6. filed' \in [Messages -> Campaigns \cup {None}]
    BY DEF Replace, SlotInv, TypeOK
  <1>7. QED
    BY <1>1, <1>2, <1>3, <1>4, <1>5, <1>6 DEF Rows, AtMostOneCampaign

LEMMA WipeRows ==
  ASSUME SlotInv, NEW w \in Workers, Wipe(w)
  PROVE  Rows'
  <1>1. live' = {}
    BY WipeLive DEF SlotInv
  <1>2. mail' \in [Messages -> {None, Absent}]
    BY DEF Wipe, MailsAfter, SlotInv, RowsBelongToCampaign, TypeOK
  <1>3. status' \in [Campaigns -> Statuses \cup {Absent}]
    BY DEF Wipe, StatusAfter, SlotInv, TypeOK
  <1>4. QED
    BY <1>1, <1>2, <1>3 DEF Rows, AtMostOneCampaign, Wipe, SlotInv, TypeOK

LEMMA WriteRows ==
  ASSUME SlotInv, NEW w \in Workers, WriteStatus(w)
  PROVE  Rows'
  <1>1. /\ live' = live
        /\ UNCHANGED <<customer, contacts, mail>>
        /\ status' = [status EXCEPT ![req[w].campaign] = NewStatus(req[w].op)]
    BY WriteLive
  <1>2. NewStatus(req[w].op) \in Statuses
    BY DEF NewStatus, Statuses
  <1>3. UNCHANGED <<used, filed>>
    BY DEF WriteStatus
  <1>4. QED
    BY <1>1, <1>2, <1>3, RowsInv DEF Rows, AtMostOneCampaign

LEMMA StoreRows ==
  ASSUME SlotInv, NEW w \in Workers, Store(w)
  PROVE  Rows'
  <1>1. live' = live /\ UNCHANGED <<status, used, customer>>
    BY UnwrittenLive DEF Store
  <1>2. req[w].link = "new" => req[w].campaign \in live
    BY DEF Store, SlotInv, TypeOK, WellFormed
  <1>3. contacts' \subseteq live
    BY <1>2 DEF Store, SlotInv, RowsBelongToCampaign
  <1>4. mail' \in [Messages -> live \cup {None, Absent}]
    BY RowsInv DEF Store, Rows
  <1>5. filed' \in [Messages -> Campaigns \cup {None}]
    BY DEF Store, SlotInv, TypeOK, live
  <1>6. QED
    BY <1>1, <1>3, <1>4, <1>5, RowsInv DEF Rows, AtMostOneCampaign

LEMMA RowsStep ==
  ASSUME SlotInv, [Next]_vars
  PROVE  Rows'
  <1>r. Rows
    BY RowsInv
  <1>u. ASSUME UNCHANGED dbVars PROVE Rows'
    <2>1. live' = live
      BY <1>u, UnwrittenLive DEF dbVars
    <2>2. QED
      BY <1>u, <1>r, <2>1 DEF dbVars, Rows, AtMostOneCampaign
  <1>1. CASE UNCHANGED vars
    BY <1>1, <1>u DEF vars, dbVars
  <1>2. CASE Next
    <2> PICK w \in Workers : Arrive(w) \/ Proceed(w) \/ Abort(w)
      BY <1>2 DEF Next
    <2>1. CASE Arrive(w) \/ Abort(w) \/ DeleteMails(w) \/ ReplaceConflict(w)
               \/ ContactsComplete(w) \/ EnsureRefused(w) \/ CampaignGone(w)
               \/ NothingToWrite(w) \/ Match(w) \/ StoreRefused(w)
      <3>1. UNCHANGED dbVars
        BY <2>1 DEF Arrive, BeginCreate, BeginOn, BeginRegister, BeginReset, Abort,
                    DeleteMails, ReplaceConflict, ContactsComplete, EnsureRefused,
                    CampaignGone, NothingToWrite, Match, StoreRefused
      <3>2. QED
        BY <3>1, <1>u
    <2>2. CASE \E c \in Campaigns : Replace(w, c)
      BY <2>2, ReplaceRows
    <2>3. CASE StoreCustomer(w) \/ EnsureContacts(w)
      <3>1. live' = live
        BY <2>3, UnwrittenLive DEF StoreCustomer, EnsureContacts
      <3>2. customer' \subseteq live /\ contacts' \subseteq live
        BY <2>3, <1>r DEF StoreCustomer, EnsureContacts, Rows
      <3>3. UNCHANGED <<status, used, mail, filed>>
        BY <2>3 DEF StoreCustomer, EnsureContacts
      <3>4. QED
        BY <1>r, <3>1, <3>2, <3>3 DEF Rows, AtMostOneCampaign
    <2>4. CASE WriteStatus(w)
      BY <2>4, WriteRows
    <2>5. CASE Store(w)
      BY <2>5, StoreRows
    <2>6. CASE Wipe(w)
      BY <2>6, WipeRows
    <2>7. QED
      BY <2>1, <2>2, <2>3, <2>4, <2>5, <2>6 DEF Proceed
  <1>3. QED
    BY <1>1, <1>2

LEMMA TokensKept == [Next]_vars => UNCHANGED token
  BY ZenonT(20) DEF Next, vars, Arrive, BeginCreate, BeginOn, BeginRegister, BeginReset, Abort,
         Proceed, DeleteMails, Replace, ReplaceConflict, StoreCustomer,
         ContactsComplete, EnsureContacts, EnsureRefused, WriteStatus, CampaignGone,
         NothingToWrite, Match, Store, StoreRefused, Wipe

LEMMA SlotInvStep == SlotInv /\ [Next]_vars => SlotInv'
  <1> SUFFICES ASSUME SlotInv, [Next]_vars PROVE SlotInv'
    OBVIOUS
  <1>1. Rows'
    BY RowsStep
  <1>2. token' \in [Messages -> Campaigns \cup {None}]
    BY TokensKept DEF SlotInv, TypeOK
  <1>3. req' \in [Workers -> Request] /\ \A w \in Workers : WellFormed(req'[w])
    <2>1. CASE UNCHANGED vars
      BY <2>1 DEF vars, SlotInv, TypeOK
    <2>2. CASE Next
      BY <2>2, RequestStep, ReplaceRequest DEF SlotInv
    <2>3. QED
      BY <2>1, <2>2
  <1>4. TypeOK'
    <2>1. /\ mail' \in [Messages -> Campaigns \cup {None, Absent}]
          /\ customer' \subseteq Campaigns /\ contacts' \subseteq Campaigns
      BY <1>1 DEF Rows
    <2>2. QED
      BY <1>1, <1>2, <1>3, <2>1 DEF Rows, TypeOK, WellFormed
  <1>5. AtMostOneCampaign' /\ RowsBelongToCampaign'
    BY <1>1 DEF Rows, RowsBelongToCampaign
  <1>6. QED
    BY <1>4, <1>5 DEF SlotInv

(* The inductive invariant of campaign creation, replacement and reset. *)
THEOREM SlotInvariant == Spec => []SlotInv
  BY InitSlotInv, SlotInvStep, PTL DEF Spec

(* Type correctness: a request holds what its step needs, whatever is      *)
(* deleted under it.                                                       *)
THEOREM SlotTypeOK == Spec => []TypeOK
  <1>1. SlotInv => TypeOK
    BY DEF SlotInv
  <1>2. QED
    BY <1>1, SlotInvariant, PTL

(* There is never more than one campaign, however many requests create,    *)
(* replace, reset or complete campaigns at once.                           *)
THEOREM NeverTwoCampaigns == Spec => []AtMostOneCampaign
  <1>1. SlotInv => AtMostOneCampaign
    BY DEF SlotInv
  <1>2. QED
    BY <1>1, SlotInvariant, PTL

(* Contacts, customer data and mails never refer to a deleted campaign. *)
THEOREM NoDanglingRows == Spec => []RowsBelongToCampaign
  <1>1. SlotInv => RowsBelongToCampaign
    BY DEF SlotInv
  <1>2. QED
    BY <1>1, SlotInvariant, PTL

-----------------------------------------------------------------------------
(* Refinement: commits map to steps of the slot, everything else stutters. *)

LEMMA InitRefines == Init => Slot!Init
  <1> SUFFICES ASSUME Init PROVE Slot!Init
    OBVIOUS
  <1>1. live = {}
    BY DEF Init, live
  <1>2. QED
    BY <1>1 DEF Init, Slot!Init, Current, Phase, MailsOf

LEMMA CurrentIs ==
  ASSUME AtMostOneCampaign, NEW c \in live
  PROVE  live = {c} /\ Current = c /\ Phase = status[c]
  <1>1. live = {c}
    BY DEF AtMostOneCampaign
  <1>2. QED
    BY <1>1 DEF Current, Phase

(* What the slot shows depends on these rows only. *)
LEMMA SameRowsStutter ==
  UNCHANGED <<status, used, mail>> => UNCHANGED Slot!vars
  BY UnwrittenLive DEF Slot!vars, Current, Phase, MailsOf

LEMMA ReplaceRefines ==
  ASSUME SlotInv, NEW w \in Workers, NEW c \in Campaigns, Replace(w, c)
  PROVE  Slot!Open(c)
  <1>1. live' = {c} /\ status'[c] = "DRAFT"
    BY ReplaceLive DEF SlotInv
  <1>2. Current' = c /\ Phase' = "DRAFT"
    BY <1>1 DEF Current, Phase
  <1>3. mail' \in [Messages -> {None, Absent}]
    BY DEF Replace, MailsAfter, SlotInv, RowsBelongToCampaign, TypeOK
  <1>4. MailsOf(live)' = {}
    BY <1>1, <1>3, NoneAssumption, AbsentAssumption DEF MailsOf
  <1>5. QED
    BY <1>2, <1>4 DEF Slot!Open, Replace

LEMMA WipeRefines ==
  ASSUME SlotInv, NEW w \in Workers, Wipe(w)
  PROVE  Slot!Clear
  <1>1. live' = {}
    BY WipeLive DEF SlotInv
  <1>2. QED
    BY <1>1 DEF Slot!Clear, Current, Phase, MailsOf, Wipe

LEMMA WriteRefines ==
  ASSUME SlotInv, NEW w \in Workers, WriteStatus(w)
  PROVE  \E s \in {"STARTED", "COMPLETED", "patched"} : Slot!Advance(s)
  <1> DEFINE c == req[w].campaign
             s == NewStatus(req[w].op)
  <1>1. c \in live /\ s \in {"STARTED", "COMPLETED", "patched"}
    BY DEF WriteStatus, NewStatus
  <1>2. live' = live /\ UNCHANGED <<mail, used>> /\ status' = [status EXCEPT ![c] = s]
    BY WriteLive DEF WriteStatus
  <1>3. live = {c} /\ Current = c /\ c \in Campaigns
    BY <1>1, CurrentIs DEF SlotInv, live
  <1>4. Current' = c /\ Phase' = status'[c]
    BY <1>2, <1>3 DEF Current, Phase
  <1>5. status'[c] = s
    BY <1>2, <1>3 DEF SlotInv, TypeOK
  <1>6. MailsOf(live)' = MailsOf(live)
    BY <1>2 DEF MailsOf
  <1>7. Current # None
    BY <1>3, NoneAssumption
  <1>8. Slot!Advance(s)
    BY <1>2, <1>3, <1>4, <1>5, <1>6, <1>7 DEF Slot!Advance
  <1>9. QED
    BY <1>1, <1>8

LEMMA StoreRefines ==
  ASSUME SlotInv, NEW w \in Workers, Store(w)
  PROVE  (\E m \in Messages : Slot!File(m)) \/ UNCHANGED Slot!vars
  <1> DEFINE m == req[w].message
             c == req[w].campaign
  <1>1. m \in Messages /\ mail[m] = Absent /\ mail' = [mail EXCEPT ![m] = c]
    BY DEF Store, SlotInv, TypeOK, WellFormed
  <1>2. live' = live /\ UNCHANGED <<status, used>>
    BY UnwrittenLive DEF Store
  <1>3. UNCHANGED <<Current, Phase, used>>
    BY <1>2 DEF Current, Phase
  <1>4. Absent \notin live /\ None \notin live
    BY NoneAssumption, AbsentAssumption DEF live
  <1>5. mail \in [Messages -> Campaigns \cup {None, Absent}]
    BY DEF SlotInv, TypeOK
  <1>6. CASE c = None
    <2>1. MailsOf(live)' = MailsOf(live)
      BY <1>1, <1>2, <1>4, <1>5, <1>6 DEF MailsOf
    <2>2. QED
      BY <1>3, <2>1 DEF Slot!vars
  <1>7. CASE c \in live
    <2>1. MailsOf(live)' = MailsOf(live) \cup {m} /\ m \notin MailsOf(live)
      BY <1>1, <1>2, <1>4, <1>5, <1>7 DEF MailsOf
    <2>2. Current # None
      BY <1>7, <1>4, CurrentIs DEF SlotInv
    <2>3. Slot!File(m)
      BY <1>3, <2>1, <2>2 DEF Slot!File
    <2>4. QED
      BY <1>1, <2>3
  <1>8. QED
    BY <1>6, <1>7 DEF Store

LEMMA StepRefines == SlotInv /\ [Next]_vars => [Slot!Next]_(Slot!vars)
  <1> SUFFICES ASSUME SlotInv, [Next]_vars PROVE [Slot!Next]_(Slot!vars)
    OBVIOUS
  <1>1. CASE UNCHANGED vars
    BY <1>1, SameRowsStutter DEF vars
  <1>2. CASE Next
    <2> PICK w \in Workers : Arrive(w) \/ Proceed(w) \/ Abort(w)
      BY <1>2 DEF Next
    <2>1. CASE Arrive(w) \/ Abort(w) \/ DeleteMails(w) \/ ReplaceConflict(w)
               \/ StoreCustomer(w) \/ ContactsComplete(w) \/ EnsureContacts(w)
               \/ EnsureRefused(w) \/ CampaignGone(w) \/ NothingToWrite(w)
               \/ Match(w) \/ StoreRefused(w)
      <3>1. UNCHANGED <<status, used, mail>>
        BY <2>1 DEF dbVars, Arrive, BeginCreate, BeginOn, BeginRegister, BeginReset,
                    Abort, DeleteMails, ReplaceConflict, StoreCustomer,
                    ContactsComplete, EnsureContacts, EnsureRefused, CampaignGone,
                    NothingToWrite, Match, StoreRefused
      <3>2. QED
        BY <3>1, SameRowsStutter
    <2>2. CASE \E c \in Campaigns : Replace(w, c)
      BY <2>2, ReplaceRefines DEF Slot!Next
    <2>3. CASE WriteStatus(w)
      BY <2>3, WriteRefines DEF Slot!Next
    <2>4. CASE Store(w)
      BY <2>4, StoreRefines DEF Slot!Next
    <2>5. CASE Wipe(w)
      BY <2>5, WipeRefines DEF Slot!Next
    <2>6. QED
      BY <2>1, <2>2, <2>3, <2>4, <2>5 DEF Proceed
  <1>3. QED
    BY <1>1, <1>2

(* Claims, completions and PATCHes leave every campaign in the table. *)
LEMMA CampaignOpsKeep ==
  ASSUME SlotInv, Next, NEW v \in Workers, req[v].op \in CampaignOps, req'[v] # req[v]
  PROVE  live \subseteq live'
  <1> PICK w \in Workers : Arrive(w) \/ Proceed(w) \/ Abort(w)
    BY DEF Next
  <1>1. CASE Arrive(w) \/ Abort(w) \/ DeleteMails(w) \/ ReplaceConflict(w)
             \/ StoreCustomer(w) \/ ContactsComplete(w) \/ EnsureContacts(w)
             \/ EnsureRefused(w) \/ CampaignGone(w) \/ NothingToWrite(w)
             \/ Match(w) \/ Store(w) \/ StoreRefused(w)
    <2>1. UNCHANGED status
      BY <1>1 DEF dbVars, Arrive, BeginCreate, BeginOn, BeginRegister, BeginReset,
                  Abort, DeleteMails, ReplaceConflict, StoreCustomer,
                  ContactsComplete, EnsureContacts, EnsureRefused, CampaignGone,
                  NothingToWrite, Match, Store, StoreRefused
    <2>2. QED
      BY <2>1, UnwrittenLive
  <1>2. CASE WriteStatus(w)
    BY <1>2, WriteLive
  <1>3. CASE (\E c \in Campaigns : Replace(w, c)) \/ Wipe(w)
    <2>1. req[w].step \in {"replace", "wipe"}
      BY <1>3 DEF Replace, Wipe
    <2>2. req[w].op \notin CampaignOps
      BY <2>1 DEF SlotInv, TypeOK, WellFormed
    <2>3. \A u \in Workers \ {w} : req'[u] = req[u]
      BY <1>3 DEF Replace, AfterReplace, Wipe, Finish, SlotInv, TypeOK
    <2>4. QED
      BY <2>2, <2>3
  <1>4. QED
    BY <1>1, <1>2, <1>3 DEF Proceed

(* No claim, completion or PATCH ever removes a campaign, although they    *)
(* delete "all other campaigns" before they find out that their own has    *)
(* been replaced.                                                          *)
THEOREM LateRequestsHarmless == Spec => OnlyCreateOrResetRemoves
  <1>1. SlotInv /\ [Next]_vars => [CampaignOpsRemoveNothing]_vars
    BY CampaignOpsKeep DEF CampaignOpsRemoveNothing
  <1>2. QED
    BY <1>1, SlotInvariant, PTL DEF Spec, OnlyCreateOrResetRemoves

(* Creation, replacement, reset and everything that runs on a campaign     *)
(* meanwhile implement the slot of CampaignSlot.                           *)
THEOREM CampaignsImplementSlot == Spec => ImplementsSlot
  <1>1. Spec => []SlotInv
    BY SlotInvariant
  <1>2. QED
    BY <1>1, InitRefines, StepRefines, PTL DEF Spec, ImplementsSlot, Slot!Spec
=============================================================================
