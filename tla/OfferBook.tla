------------------------------ MODULE OfferBook ------------------------------
(***************************************************************************)
(* The offers of the campaign: extraction from dealers' mails, manual      *)
(* entry, the comparison that stores the cheapest prices on the campaign,  *)
(* and the deletion of a dealer, in several requests at once.              *)
(*                                                                         *)
(* The mails are registered and belong to the one campaign.  A step is one *)
(* statement or one commit of a request (READ COMMITTED, no autoflush, an  *)
(* UPDATE writes the columns that differ from what the session loaded).    *)
(***************************************************************************)
EXTENDS OfferRanking

CONSTANTS
  Mails, Contacts,  \* inbound_email rows and the dealer contacts they are from
  Manuals,          \* ids for offers entered by hand
  Workers,
  Texts,            \* what a mail and the attachments sent along may say
  ManualOffers,     \* offers that may be entered
  Requirements,     \* those of the campaign's configuration
  MaxRequests,      \* bound on the requests of the workers
  MaxDeleted,       \* bound on the dealers that are deleted
  Absent

ASSUME TextsAssumption == \A t \in Texts : IsText(t)
ASSUME RequirementsAssumption ==
  /\ Requirements \in Seq({Requirements[i] : i \in DOMAIN Requirements})
  /\ \A i \in DOMAIN Requirements : IsRequirement(Requirements[i])
ASSUME OfferAssumption == /\ Absent \notin Results \cup {"REPLIED", None}
                          /\ Absent \notin Nat
                          /\ None \notin Mails /\ Mails \cap Manuals = {}
                          /\ MaxRequests \in Nat /\ MaxDeleted \in Nat
                          /\ \A o \in ManualOffers : o.price \in Nat \cup {None}

VARIABLES
  sender,     \* the contact (and dealer) a mail is assigned to; never changes
  contact,    \* status of the contact, Absent once its dealer is deleted
  mail,       \* processing_status and stored analysis of a mail
  offer,      \* the dealer_offer rows, by their mail or their manual id
  summary,    \* the campaign's cheapest_*_price columns
  req,        \* req[w]: the request worker w is serving
  view,       \* view[w]: the offers its session has loaded with the campaign
  answered,   \* history: mails whose offers the last answer on m counted
  overlapped, \* history: mails two extractions ran on at the same time
  overtaken,  \* history: workers before whose commit offers were changed
  served      \* the requests the workers have begun, at most MaxRequests

vars == <<sender, contact, mail, offer, summary, req, view, answered, overlapped,
          overtaken, served>>
dbVars == <<sender, contact, mail, offer, summary>>
history == <<answered, overlapped, overtaken, served>>

Ids == Mails \cup Manuals
NoOffer == [price |-> Absent, features |-> Absent]
stored == {i \in Ids : offer[i] # NoOffer}
NewMail == [result |-> "REGISTERED", analysis |-> None]

(* hold: what has become of the offer row the request has read (row,       *)
(* changed and gone by another one) or inserted (new, not committed).      *)
Idle ==
  [op |-> "none", step |-> "idle", mail |-> None, text |-> None,
   matched |-> FALSE, loaded |-> NewMail, contact |-> Absent,
   hold |-> "none", price |-> None, summary |-> None, listed |-> None]

Finish(w) == req' = [req EXCEPT ![w] = Idle]

(* A worker takes its next request. *)
Admit(w) ==
  /\ req[w].step = "idle"
  /\ served < MaxRequests
  /\ served' = served + 1
  /\ overtaken' = overtaken \ {w}

(* All is committed, the answer is put together. *)
Answering(op, m, price) ==
  [Idle EXCEPT !.op = op, !.step = "respond", !.mail = m, !.hold = "row", !.price = price]

Outcome(r) == Analysis(r.text, r.matched)
NewOffer(r) ==
  [price |-> TotalPrice(Outcome(r).price),
   features |-> EmailFeatures(Requirements, r.text)]

(* A session writes a column only if it differs from what was loaded.      *)
Assign(loaded, new, old) == IF new = loaded THEN old ELSE new

(* The two sets of feature rows of one offer, by key; the later wins.      *)
Over(f, g) ==
  [k \in DOMAIN f \cup DOMAIN g |-> IF k \in DOMAIN f THEN f[k] ELSE g[k]]

-----------------------------------------------------------------------------
(* What the statements of an extraction write.                             *)

WritesContact(r) == r.contact \notin {Absent, Outcome(r).result}

(* No other open transaction has written the mail or the contact. *)
Unlocked(w) ==
  \A v \in Workers \ {w} :
    req[v].hold = "new" /\ req[w].mail # None =>
      /\ req[v].mail # req[w].mail
      /\ sender[req[v].mail] = sender[req[w].mail]
           => ~ (WritesContact(req[v]) /\ WritesContact(req[w]))

(* An UPDATE of a contact that was deleted matches no row and fails. *)
ContactThere(r) == WritesContact(r) => contact[sender[r.mail]] # Absent

(* _apply_extraction_result *)
ApplyResult(r) ==
  /\ mail' = [mail EXCEPT ![r.mail] =
       [result |-> Assign(r.loaded.result, Outcome(r).result, @.result),
        analysis |-> Assign(r.loaded.analysis, Outcome(r), @.analysis)]]
  /\ contact' = [contact EXCEPT ![sender[r.mail]] =
       IF WritesContact(r) THEN Outcome(r).result ELSE @]

(* The workers whose request has still to commit. *)
Pending == {v \in Workers : req[v].step \notin {"idle", "respond"}}

(* A commit of w that turns the offer of its mail into o: the handles      *)
(* other requests have on that row, and the workers it overtakes.  A row   *)
(* that is deleted does not come back: a later one is another row.         *)
Without(rows, i) == [j \in DOMAIN rows \ {i} |-> rows[j]]
NewHold(hold, o) ==
  IF hold \in {"row", "changed"} THEN IF o = NoOffer THEN "gone" ELSE "changed" ELSE hold
Republish(w, o, r) ==
  /\ req' = [v \in Workers |->
       IF v = w THEN r
       ELSE IF req[v].mail = req[w].mail /\ req[w].mail # None
            THEN [req[v] EXCEPT !.hold = NewHold(@, o)] ELSE req[v]]
  /\ overtaken' = Pending \ {w}
  /\ view' = [v \in Workers |->
       IF o = NoOffer THEN Without(view[v], req[w].mail) ELSE view[v]]

-----------------------------------------------------------------------------
(* extract_offer                                                           *)

(* Extractions of m that have not committed. *)
Extracting(m) ==
  {w \in Workers : req[w].op = "extract" /\ req[w].mail = m /\ req[w].step # "respond"}

(* The mail is loaded with its contact and the columns of its offer; its   *)
(* text, with that of the attachments, is t.                               *)
(* Forced, or nothing is stored.                                           *)
BeginExtract(w, m, t) ==
  /\ Admit(w)
  /\ req' = [req EXCEPT ![w] =
       [Idle EXCEPT !.op = "extract", !.step = "read", !.mail = m, !.text = t,
                    !.matched = contact[sender[m]] # Absent, !.loaded = mail[m],
                    !.contact = contact[sender[m]],
                    !.hold = IF m \in stored THEN "row" ELSE "none",
                    !.price = IF m \in stored THEN offer[m].price ELSE None]]
  /\ overlapped' = IF Extracting(m) # {} THEN overlapped \cup {m} ELSE overlapped
  /\ UNCHANGED <<dbVars, view, answered>>

(* Not forced: the stored analysis is answered with the offer there is.    *)
BeginAnswer(w, m) ==
  /\ Admit(w)
  /\ mail[m].analysis # None /\ m \in stored
  /\ req' = [req EXCEPT ![w] = Answering("answer", m, offer[m].price)]
  /\ UNCHANGED <<dbVars, view, answered, overlapped>>

(* get_by_inbound_email.  Columns that were loaded with the mail stay as   *)
(* they were; the features are loaded now.                                 *)
ReadOffer(w) ==
  /\ req[w].step = "read"
  /\ LET m == req[w].mail
         hold == IF m \in stored THEN "row" ELSE "none"
         next == IF Outcome(req[w]).result # "OFFER_EXTRACTED" THEN "finish"
                 ELSE IF hold = "none" THEN "flush" ELSE "load" IN
       req' = [req EXCEPT ![w].hold = hold, ![w].step = next,
                          ![w].price = IF req[w].hold \in {"row", "changed"} THEN @
                                       ELSE IF hold = "row" THEN offer[m].price ELSE None]
  /\ UNCHANGED <<dbVars, view, history>>

(* Mutant: the new offer is added to the session and not flushed. *)
FlushLater(w) ==
  /\ req[w].step = "flush"
  /\ req' = [req EXCEPT ![w].step = "load"]
  /\ UNCHANGED <<dbVars, view, history>>

(* offer_repository.add flushes: UPDATE contact and mail, INSERT offer.    *)
FlushOffer(w) ==
  /\ req[w].step = "flush"
  /\ Unlocked(w)
  /\ req[w].mail \notin stored
  /\ contact[sender[req[w].mail]] # Absent
  /\ req' = [req EXCEPT ![w].hold = "new", ![w].step = "load"]
  /\ UNCHANGED <<dbVars, view, history>>

(* The mail has got an offer (unique inbound_email_id), or the dealer is   *)
(* gone (foreign key): the transaction is rolled back.                     *)
FlushRefused(w) ==
  /\ req[w].step = "flush"
  /\ Unlocked(w)
  /\ req[w].mail \in stored \/ contact[sender[req[w].mail]] = Absent
  /\ Finish(w)
  /\ UNCHANGED <<dbVars, view, history>>

(* Mutant: another offer replaces the request's own in its sight. *)
VisibleWithoutOwn(w) == [i \in stored |-> offer[i]]

(* The committed rows; the request's own row as the session holds it.      *)
Visible(w) ==
  LET r == req[w]
      own == IF r.hold = "new" \/ (r.hold \in {"row", "changed"} /\ r.mail \in stored)
             THEN {r.mail} ELSE {}
  IN [i \in stored \cup own |-> IF i \in own THEN NewOffer(r) ELSE offer[i]]

SummaryOf(rows) == Summary(Requirements, {rows[i] : i \in DOMAIN rows})

(* CampaignComparisonService.compare: the campaign is loaded, with offers. *)
LoadCampaign(w) ==
  /\ req[w].step = "load"
  /\ req' = [req EXCEPT ![w].summary = summary, ![w].step = "list"]
  /\ view' = [view EXCEPT ![w] = Visible(w)]
  /\ UNCHANGED <<dbVars, history>>

(* The rows there are, as the session knows them: those it has loaded with *)
(* the campaign are not loaded again.                                      *)
Listed(w) ==
  [i \in DOMAIN Visible(w) |-> IF i \in DOMAIN view[w] THEN view[w][i] ELSE Visible(w)[i]]

(* list_by_campaign, compare and rank. *)
ListOffers(w) ==
  /\ req[w].step = "list"
  /\ req' = [req EXCEPT ![w].listed = SummaryOf(Listed(w)), ![w].step = "commit"]
  /\ view' = [view EXCEPT ![w] = <<>>]
  /\ UNCHANGED <<dbVars, history>>

SummaryAfter(r) ==
  [k \in SummaryColumns |-> Assign(r.summary[k], r.listed[k], summary[k])]

(* The features of an offer that another request has also rewritten: the   *)
(* rows it inserted are not known to this session and stay.                *)
FeaturesAfter(r) ==
  LET new == NewOffer(r).features IN
  IF r.hold # "changed" THEN {new}
  ELSE LET there == offer[r.mail].features IN {Over(new, there), Over(there, new)}

(* The price column of an offer that was loaded, or inserted. *)
PriceAfter(r) ==
  LET new == NewOffer(r).price IN
  IF r.hold = "new" THEN new ELSE Assign(r.price, new, offer[r.mail].price)

(* _persist_summary commits the whole extraction. *)
CommitExtraction(w) ==
  /\ req[w].step = "commit" /\ req[w].op = "extract"
  /\ Unlocked(w)
  /\ req[w].hold # "gone" /\ ContactThere(req[w])
  /\ ApplyResult(req[w])
  /\ summary' = SummaryAfter(req[w])
  /\ \E f \in FeaturesAfter(req[w]) :
       LET o == [price |-> PriceAfter(req[w]), features |-> f] IN
         /\ offer' = [offer EXCEPT ![req[w].mail] = o]
         /\ Republish(w, o, Answering("extract", req[w].mail, o.price))
  /\ answered' = [answered EXCEPT ![req[w].mail] = None]
  /\ UNCHANGED <<sender, overlapped, served>>

(* The UPDATE of the offer, or of the contact, matches no row. *)
CommitRefused(w) ==
  /\ req[w].step \in {"commit", "finish"} /\ req[w].op = "extract"
  /\ Unlocked(w)
  /\ \/ req[w].step = "commit" /\ req[w].hold = "gone"
     \/ ~ ContactThere(req[w])
  /\ Finish(w)
  /\ UNCHANGED <<dbVars, view, history>>

(* Mutant: the offer of an earlier extraction is kept. *)
CommitWithoutOfferKept(w) ==
  /\ req[w].step = "finish"
  /\ Unlocked(w) /\ ContactThere(req[w])
  /\ ApplyResult(req[w])
  /\ Finish(w)
  /\ UNCHANGED <<sender, offer, summary, view, history>>

(* No offer in the mail: the result is stored, the offer that was read is  *)
(* deleted (a row that is gone already only gives a warning), the summary  *)
(* is left alone.                                                          *)
CommitWithoutOffer(w) ==
  /\ req[w].step = "finish"
  /\ Unlocked(w)
  /\ ContactThere(req[w])
  /\ ApplyResult(req[w])
  /\ IF req[w].hold \in {"row", "changed"}
     THEN /\ offer' = [offer EXCEPT ![req[w].mail] = NoOffer]
          /\ answered' = [answered EXCEPT ![req[w].mail] = None]
          /\ Republish(w, NoOffer, Idle)
     ELSE /\ Finish(w)
          /\ UNCHANGED <<offer, view, answered, overtaken>>
  /\ UNCHANGED <<sender, summary, overlapped, served>>

(* _build_price_comparison, after the commit: the prices of the campaign's *)
(* offers at this moment.  An offer without a price gets none.             *)
Counted == {i \in stored : offer[i].price # None}

(* Mutant: a dealer's offer is not compared with his earlier ones. *)
RespondOtherDealers(w) ==
  /\ req[w].step = "respond"
  /\ answered' =
       IF req[w].hold \in {"row", "changed"} /\ req[w].price # None
       THEN [answered EXCEPT ![req[w].mail] =
               {m \in Counted \cap Mails : sender[m] # sender[req[w].mail]}]
       ELSE answered
  /\ Finish(w)
  /\ UNCHANGED <<dbVars, view, overlapped, overtaken, served>>

Respond(w) ==
  /\ req[w].step = "respond"
  /\ answered' =
       IF req[w].hold \in {"row", "changed"} /\ req[w].price # None
       THEN [answered EXCEPT ![req[w].mail] = Counted \cap Mails] ELSE answered
  /\ Finish(w)
  /\ UNCHANGED <<dbVars, view, overlapped, overtaken, served>>

-----------------------------------------------------------------------------
(* GET /campaigns/{id}/comparison: the campaign is loaded.                 *)
BeginCompare(w) ==
  /\ Admit(w)
  /\ req' = [req EXCEPT ![w] =
       [Idle EXCEPT !.op = "compare", !.step = "list", !.summary = summary]]
  /\ view' = [view EXCEPT ![w] = Visible(w)]
  /\ UNCHANGED <<dbVars, answered, overlapped>>

CommitComparison(w) ==
  /\ req[w].step = "commit" /\ req[w].op = "compare"
  /\ summary' = SummaryAfter(req[w])
  /\ Republish(w, NoOffer, [Idle EXCEPT !.op = "compare", !.step = "respond"])
  /\ UNCHANGED <<sender, contact, mail, offer, answered, overlapped, served>>

-----------------------------------------------------------------------------
(* POST /campaigns/{id}/offers and /offers/extract: inserted and committed,*)
(* nothing is compared.                                                    *)
AddManualOffer(i, o) ==
  /\ i \in Manuals \ stored
  /\ offer' = [offer EXCEPT ![i] = o]
  /\ overtaken' = Pending
  /\ UNCHANGED <<sender, contact, mail, summary, req, view, answered, overlapped, served>>

(* DELETE /dealers/{id}: the contact goes (CASCADE), mails and offers lose *)
(* their dealer (SET NULL), once no open transaction has written them.     *)
DeleteDealer(c) ==
  /\ contact[c] # Absent
  /\ Cardinality({k \in Contacts : contact[k] = Absent}) < MaxDeleted
  /\ \A v \in Workers : req[v].hold = "new" => sender[req[v].mail] # c
  /\ contact' = [contact EXCEPT ![c] = Absent]
  /\ UNCHANGED <<sender, mail, offer, summary, req, view, history>>

(* A request dies: what it has flushed is rolled back, what it was to      *)
(* answer is lost.  Before and between it dies without a trace.            *)
Abort(w) ==
  /\ req[w].hold = "new" \/ req[w].step = "respond"
  /\ Finish(w)
  /\ view' = [view EXCEPT ![w] = <<>>]
  /\ UNCHANGED <<dbVars, history>>

-----------------------------------------------------------------------------
Init ==
  /\ sender \in [Mails -> Contacts]
  /\ contact = [c \in Contacts |-> "REPLIED"]
  /\ mail = [m \in Mails |-> NewMail]
  /\ offer = [i \in Ids |-> NoOffer]
  /\ summary = [k \in SummaryColumns |-> None]
  /\ req = [w \in Workers |-> Idle]
  /\ view = [w \in Workers |-> <<>>]
  /\ answered = [m \in Mails |-> None]
  /\ overlapped = {} /\ overtaken = {} /\ served = 0

Arrive(w) ==
  \/ \E m \in Mails, t \in Texts : BeginExtract(w, m, t)
  \/ \E m \in Mails : BeginAnswer(w, m)
  \/ BeginCompare(w)

Proceed(w) ==
  \/ ReadOffer(w)
  \/ FlushOffer(w) \/ FlushRefused(w)
  \/ LoadCampaign(w) \/ ListOffers(w)
  \/ CommitExtraction(w) \/ CommitWithoutOffer(w) \/ CommitRefused(w)
  \/ CommitComparison(w)
  \/ Respond(w)

Next ==
  \/ \E w \in Workers : Arrive(w) \/ Proceed(w) \/ Abort(w)
  \/ \E i \in Manuals, o \in ManualOffers : AddManualOffer(i, o)
  \/ \E c \in Contacts : DeleteDealer(c)

Spec == Init /\ [][Next]_vars

-----------------------------------------------------------------------------
(* Properties.                                                             *)

Prices0 == {None} \cup {o.price : o \in ManualOffers}
                 \cup {Analysis(t, TRUE).price : t \in Texts}
Analyses == {Analysis(t, b) : t \in Texts, b \in BOOLEAN}
MailRow == [result : Results \cup {"REGISTERED"}, analysis : Analyses \cup {None}]
ContactStatuses == Results \cup {"REPLIED", Absent}
Summaries == [SummaryColumns -> Prices0]

Request ==
  [op : {"none", "extract", "answer", "compare"},
   step : {"idle", "read", "flush", "load", "list", "commit", "finish", "respond"},
   mail : Mails \cup {None}, text : Texts \cup {None}, matched : BOOLEAN,
   loaded : MailRow, contact : ContactStatuses,
   hold : {"none", "row", "changed", "gone", "new"}, price : Prices0,
   summary : Summaries \cup {None}, listed : Summaries \cup {None}]

(* A request has the mail, row and prices its step needs. *)
WellFormed(r) ==
  /\ r.step = "idle" <=> r.op = "none"
  /\ r.step \in {"read", "flush", "load", "finish"} => r.op = "extract"
  /\ r.op \in {"extract", "answer"} => r.mail \in Mails
  /\ r.op = "extract" /\ r.step # "respond" => r.text \in Texts
  /\ r.op \in {"none", "compare"} => r.mail = None /\ r.hold = "none"
  /\ r.step = "flush" => r.hold = "none"
  /\ r.hold \in {"row", "changed"} => r.mail \in stored
  /\ r.step \in {"list", "commit"} => r.op \in {"extract", "compare"}
  /\ r.step \in {"list", "commit"} => r.summary \in Summaries
  /\ r.step \in {"load", "list", "commit"} /\ r.op = "extract" => r.hold # "none"
  /\ r.step = "commit" => r.listed \in Summaries

(* The tables, the requests and the history. *)
TablesOK ==
  /\ sender \in [Mails -> Contacts]
  /\ contact \in [Contacts -> ContactStatuses]
  /\ mail \in [Mails -> MailRow]
  /\ \A i \in stored : offer[i].price \in Prices0
  /\ summary \in Summaries
  /\ req \in [Workers -> Request] /\ \A w \in Workers : WellFormed(req[w])
  /\ answered \in [Mails -> (SUBSET Mails) \cup {None}]
  /\ overlapped \subseteq Mails /\ overtaken \subseteq Workers
  /\ served \in 0 .. MaxRequests

(* The offers a session has loaded with the campaign have prices. *)
ViewsOK ==
  /\ DOMAIN view = Workers
  /\ \A w \in Workers : \A i \in DOMAIN view[w] : view[w][i].price \in Prices0

(* The tables hold what they are declared to hold, and each request what   *)
(* its step needs.                                                         *)
TypeOK == TablesOK /\ ViewsOK

(* A comparison that no other request has overtaken leaves the cheapest    *)
(* prices of the offers there are, the new or re-extracted one included,   *)
(* although it is listed before it is committed.                           *)
SummaryUpToDate ==
  [][\A w \in Workers \ overtaken :
       req[w].step = "commit" /\ req'[w].step = "respond"
         => summary' = Summary(Requirements, {offer'[i] : i \in stored'})]_vars

(* A mail whose extractions did not overlap has an offer exactly if its    *)
(* stored result says so, with the price that repeated requests answer; a  *)
(* price of 0 is answered, and is none to the offer.                       *)
ResultMatchesOffer ==
  \A m \in Mails \ overlapped :
    /\ m \in stored <=> mail[m].result = "OFFER_EXTRACTED"
    /\ mail[m].analysis # None => mail[m].analysis.result = mail[m].result
    /\ m \in stored => offer[m].price = TotalPrice(mail[m].analysis.price)

(* Of two mails whose offers were both answered with a price comparison,   *)
(* at least one answer has taken the other offer into account: no two      *)
(* dealers' offers are both reported as if the other one did not exist.    *)
AnswersMeet ==
  \A a, b \in Counted \cap Mails :
    a # b /\ answered[a] # None /\ answered[b] # None
      => b \in answered[a] \/ a \in answered[b]

(* The cheapest exact offer that costs something heads the ranking: no     *)
(* offer without a price, and none that misses a requirement, comes first. *)
CheapestExactHeads ==
  LET comparisons == {Compare(Requirements, offer[i]) : i \in stored}
      cheapest == CheapestPrice(comparisons, "exact")
  IN cheapest \in Nat \ {0} =>
       \A c \in {d \in comparisons : d.category = "exact" /\ d.price = cheapest} :
         \A d \in comparisons : ~ RanksBefore(d, c)

(* Scores compare offers across categories: an offer that meets every      *)
(* requirement at least as well as another one never scores lower, and an  *)
(* alternative always stays between the incompatible and the exact ones.   *)
Quality(status) == CASE status = "exact" -> 2 [] status = "alternative" -> 1 [] OTHER -> 0

ScoresFollowMatches ==
  LET matches == {Matches(Requirements, offer[i].features) : i \in stored}
      score == [a \in matches |-> Score(a)] IN
  /\ \A a, b \in matches :
       score[a] < score[b]
         => \E i \in DOMAIN Requirements : Quality(a[i]) < Quality(b[i])
  /\ \A a \in matches :
       CASE score[a] = 100 -> Category(a) = "exact"
         [] score[a] \in 60 .. 99 -> Category(a) = "alternative"
         [] OTHER -> Category(a) = "incompatible"
=============================================================================
