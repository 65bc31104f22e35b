----------------------------- MODULE InboundMail -----------------------------
(***************************************************************************)
(* The registration of inbound mail: which dealer of the campaign a mail   *)
(* is attributed to, while contacts are mailed, answered and closed,       *)
(* dealers deleted and the same mail delivered twice.                      *)
(*                                                                         *)
(* There is one campaign (SingleCampaign has its replacement).  A step is  *)
(* one statement or one commit of a request; what the mail workflow or a   *)
(* user does in a single commit is one step.  Registrations that end in    *)
(* the answer that the mail is stored already change nothing and are left  *)
(* out.                                                                    *)
(***************************************************************************)
EXTENDS ContentMatching

CONSTANTS Dealers, Messages, Workers,
          Selected, \* the dealers the dispatch has created contacts for
          Mail,     \* what a mail may be like, see IsMail
          Absent

(* thread, replyTo, references: the dealers whose request the headers name;*)
(* sender: those one of whose addresses is the sender; token: the subject  *)
(* has the campaign's token; signs: what the text says about a dealer.     *)
IsMail(f) ==
  /\ {f.thread, f.replyTo, f.references, f.sender} \subseteq SUBSET Dealers
  /\ f.token \in BOOLEAN
  /\ f.signs \in [Dealers -> SUBSET Signs]

ASSUME MailAssumption == \A f \in Mail : IsMail(f)
ASSUME DealersAssumption ==
  /\ Selected \subseteq Dealers
  /\ None \notin Dealers /\ Absent \notin Dealers

VARIABLES
  relevant,  \* the campaign is STARTED or COMPLETED
  dealers,   \* rows in dealer
  addressed, \* dealers with an e-mail address: their contacts have a recipient
  contact,   \* contact[d]: status of d's contact, Absent: no row
  tagged,    \* contacts with the message and thread ids of the sent request
  fact,      \* fact[m]: what mail m is like
  mail,      \* mail[m]: the inbound_email row, Absent: none
  req        \* req[w]: the registration worker w is running

vars == <<relevant, dealers, addressed, contact, tagged, fact, mail, req>>
dbVars == <<relevant, dealers, addressed, contact, tagged, fact, mail>>

(* Open contacts are those of list_open_for_campaign: "open" stands for    *)
(* SENT, SEND_STATE_UNKNOWN, OFFER_EXTRACTED and NEEDS_REVIEW, "closed" for*)
(* PENDING, RESERVED, SEND_FAILED, NO_OFFER and SKIPPED.  A contact without*)
(* a recipient, which only a registration creates, is not open.            *)
OpenStatuses == {"open", "REPLIED"}
Open == {d \in addressed : contact[d] \in OpenStatuses}

(* stage: the technical look-up that was the last to find nothing.         *)
(* replied: the contact was REPLIED when it was loaded.                    *)
(* known, for ThreadDecides: those of the thread's dealers whose request   *)
(* had its ids when the registration began.                                *)
Idle ==
  [step |-> "idle", message |-> None, auto |-> FALSE, stage |-> 0, dealer |-> None,
   link |-> "none", replied |-> FALSE, matching |-> None, known |-> {}]

Finish(w) == req' = [req EXCEPT ![w] = Idle]

-----------------------------------------------------------------------------
(* register_inbound_email                                                  *)

(* The mail is not stored.  The campaign is the one of a valid hint or the *)
(* single one, if it is relevant; an invalid hint is refused.              *)
BeginRegister(w, m) ==
  /\ req[w].step = "idle"
  /\ mail[m] = Absent
  /\ req' = [req EXCEPT ![w] =
       [Idle EXCEPT !.step = "technical", !.message = m, !.auto = relevant,
                    !.known = fact[m].thread \cap tagged]]
  /\ UNCHANGED dbVars

(* campaign_id in _match_inbound_email and behind it. *)
InCampaign(r) == r.auto \/ fact[r.message].token

(* The contacts with the ids a header names. *)
Named(S) == S \cap tagged

(* Mutant: a sender is taken for the only dealer who may still write. *)
OpenBySenderGuess(f) == IF Cardinality(Open) = 1 THEN Open ELSE f.sender \cap Open

(* list_open_by_sender_email *)
OpenBySender(f) == f.sender \cap Open

(* Mutant: the sender is looked at before the headers. *)
LookupsSenderFirst(r) ==
  LET f == fact[r.message] IN
  <<[asked |-> TRUE, found |-> OpenBySender(f), as |-> "MATCHED_BY_SENDER"],
    [asked |-> f.thread # {}, found |-> Named(f.thread), as |-> "MATCHED_BY_THREAD"],
    [asked |-> f.replyTo # {}, found |-> Named(f.replyTo), as |-> "MATCHED_BY_REFERENCE"],
    [asked |-> f.references # {}, found |-> Named(f.references),
     as |-> "MATCHED_BY_REFERENCE"],
    [asked |-> TRUE, found |-> {}, as |-> "MATCHED_BY_SENDER"]>>

(* The look-ups in their order, less those that no contact can answer.     *)
(* The sender is looked up in the campaign and then in the hinted or any   *)
(* campaign, which may find what was opened in between.                    *)
Lookups(r) ==
  LET f == fact[r.message] IN
  <<[asked |-> f.thread # {}, found |-> Named(f.thread), as |-> "MATCHED_BY_THREAD"],
    [asked |-> f.replyTo # {}, found |-> Named(f.replyTo), as |-> "MATCHED_BY_REFERENCE"],
    [asked |-> f.references # {}, found |-> Named(f.references),
     as |-> "MATCHED_BY_REFERENCE"],
    [asked |-> InCampaign(r) /\ f.sender # {}, found |-> OpenBySender(f),
     as |-> IF f.token THEN "MATCHED_BY_CAMPAIGN_TOKEN" ELSE "MATCHED_BY_SENDER"],
    [asked |-> TRUE, found |-> OpenBySender(f), as |-> "MATCHED_BY_SENDER"]>>

Ahead(r) == {i \in 1 .. 5 : r.stage < i /\ Lookups(r)[i].asked}

(* A match with the contact of d as it is now. *)
Matched(r, d, as) ==
  [r EXCEPT !.step = "store", !.stage = 0, !.dealer = d, !.link = "existing",
            !.replied = contact[d] = "REPLIED", !.matching = as]
Unresolved(r, as) == [r EXCEPT !.step = "store", !.stage = 0, !.matching = as]

(* After the last look-up the text of the mail is asked. *)
NothingFound(r, i) ==
  IF i < 5 THEN [r EXCEPT !.stage = i]
  ELSE IF InCampaign(r) THEN [r EXCEPT !.step = "contact", !.stage = 0]
  ELSE Unresolved(r, "UNMATCHED")

(* _match_inbound_email, one SELECT: the first look-up that finds a contact*)
(* decides, by finding only one.                                           *)
LookUp(w) ==
  /\ req[w].step = "technical"
  /\ LET r == req[w]
         i == Min(Ahead(r))
         hit == Lookups(r)[i] IN
       req' = [req EXCEPT ![w] =
         IF hit.found = {} THEN NothingFound(r, i)
         ELSE IF Cardinality(hit.found) > 1 THEN Unresolved(r, "AMBIGUOUS")
         ELSE Matched(r, CHOOSE d \in hit.found : TRUE, hit.as)]
  /\ UNCHANGED dbVars

SignsOf(r, S) == [d \in S |-> fact[r.message].signs[d]]

(* _match_contact_by_content: the open contacts. *)
MatchContact(w) ==
  /\ req[w].step = "contact"
  /\ LET best == ContentMatch(SignsOf(req[w], Open)) IN
       req' = [req EXCEPT ![w] =
         CASE best.status = "MATCHED" -> Matched(@, best.dealer, "MATCHED")
           [] best.status = "AMBIGUOUS" -> Unresolved(@, "AMBIGUOUS")
           [] OTHER -> [@ EXCEPT !.step = "dealer"]]
  /\ UNCHANGED dbVars

(* _match_dealer_by_content: all dealers without an open contact. *)
MatchDealer(w) ==
  /\ req[w].step = "dealer"
  /\ LET best == ContentMatch(SignsOf(req[w], dealers \ Open)) IN
       req' = [req EXCEPT ![w] =
         IF best.status = "MATCHED"
         THEN [@ EXCEPT !.step = "ensure", !.dealer = best.dealer,
                        !.matching = "MATCHED_BY_DEALER_DB"]
         ELSE Unresolved(@, best.status)]
  /\ UNCHANGED dbVars

(* Mutant: the dealer is stored without a contact. *)
EnsureSkipped(w) ==
  /\ req[w].step = "ensure"
  /\ req' = [req EXCEPT ![w].step = "store"]
  /\ UNCHANGED dbVars

(* _ensure_inbound_contact: the contact there is, or a new one. *)
Ensure(w) ==
  /\ req[w].step = "ensure"
  /\ req' = [req EXCEPT ![w] =
       LET d == @.dealer IN
       IF contact[d] # Absent THEN Matched(@, d, @.matching)
                              ELSE [@ EXCEPT !.step = "insert"]]
  /\ UNCHANGED dbVars

(* Another open transaction has inserted the contact of d. *)
Inserting(w, d) ==
  \E v \in Workers \ {w} : req[v].link = "new" /\ req[v].dealer = d

(* Mutant: a contact is inserted next to the one that is there by now. *)
InsertUnconstrained(w) ==
  /\ req[w].step = "insert"
  /\ req' = [req EXCEPT ![w].step = "store", ![w].link = "new"]
  /\ UNCHANGED dbVars

(* INSERT of the contact: one per campaign and dealer, and the dealer is there. *)
InsertContact(w) ==
  /\ req[w].step = "insert"
  /\ ~ Inserting(w, req[w].dealer)
  /\ req[w].dealer \in dealers /\ contact[req[w].dealer] = Absent
  /\ req' = [req EXCEPT ![w].step = "store", ![w].link = "new"]
  /\ UNCHANGED dbVars

(* The contact is there by now (unique per campaign and dealer), or the    *)
(* dealer is gone (foreign key).                                           *)
InsertRefused(w) ==
  /\ req[w].step = "insert"
  /\ ~ Inserting(w, req[w].dealer)
  /\ req[w].dealer \notin dealers \/ contact[req[w].dealer] # Absent
  /\ Finish(w)
  /\ UNCHANGED dbVars

(* Mutant: an ambiguous mail waits for nobody. *)
StatusesAmbiguousKept(r) ==
  IF r.dealer = None /\ r.matching = "UNMATCHED"
  THEN [matching |-> IF r.auto THEN "NEEDS_DEALER_ASSIGNMENT" ELSE "NO_CAMPAIGN",
        processing |-> "NEEDS_REVIEW"]
  ELSE [matching |-> r.matching, processing |-> "REGISTERED"]

(* matching_status and processing_status of the row. *)
Statuses(r) ==
  IF r.auto /\ r.dealer = None
  THEN [matching |-> IF r.matching = "UNMATCHED" THEN "NEEDS_DEALER_ASSIGNMENT"
                                                 ELSE r.matching,
        processing |-> "NEEDS_REVIEW"]
  ELSE IF ~ r.auto /\ r.matching = "UNMATCHED"
  THEN [matching |-> "NO_CAMPAIGN", processing |-> "NEEDS_REVIEW"]
  ELSE [matching |-> r.matching, processing |-> "REGISTERED"]

Row(r) ==
  [campaign |-> r.link # "none" \/ InCampaign(r), dealer |-> r.dealer,
   contact |-> r.link # "none",
   matching |-> Statuses(r).matching, processing |-> Statuses(r).processing]

(* The contact, unless it was loaded as REPLIED, becomes so.               *)
ContactAfter(r) ==
  [contact EXCEPT ![r.dealer] = IF r.replied THEN @ ELSE "REPLIED"]

(* Mutant: no unique constraint on the provider's message id. *)
StoreUnchecked(w) ==
  /\ req[w].step = "store"
  /\ req[w].link = "existing" => contact[req[w].dealer] # Absent
  /\ mail' = [mail EXCEPT ![req[w].message] = Row(req[w])]
  /\ contact' = IF req[w].link = "none" THEN contact ELSE ContactAfter(req[w])
  /\ Finish(w)
  /\ UNCHANGED <<relevant, dealers, addressed, tagged, fact>>

(* INSERT of the mail, UPDATE of the contact, COMMIT. *)
Store(w) ==
  /\ req[w].step = "store"
  /\ mail[req[w].message] = Absent
  /\ req[w].link = "existing" => contact[req[w].dealer] # Absent
  /\ mail' = [mail EXCEPT ![req[w].message] = Row(req[w])]
  /\ contact' = IF req[w].link = "none" THEN contact ELSE ContactAfter(req[w])
  /\ Finish(w)
  /\ UNCHANGED <<relevant, dealers, addressed, tagged, fact>>

(* The mail is stored by now, or its contact has gone with the dealer. *)
StoreRefused(w) ==
  /\ req[w].step = "store"
  /\ \/ mail[req[w].message] # Absent
     \/ req[w].link = "existing" /\ contact[req[w].dealer] = Absent
  /\ Finish(w)
  /\ UNCHANGED dbVars

(* The request dies and is rolled back; the workflow delivers again. *)
Abort(w) ==
  /\ req[w].step # "idle"
  /\ Finish(w)
  /\ UNCHANGED dbVars

-----------------------------------------------------------------------------
(* What else happens to the campaign.                                      *)

(* mark_sent for a contact of the dispatch, however late. *)
MarkSent(d) ==
  /\ d \in Selected \ tagged /\ contact[d] # Absent
  /\ contact' = [contact EXCEPT ![d] = "open"]
  /\ tagged' = tagged \cup {d}
  /\ UNCHANGED <<relevant, dealers, addressed, fact, mail, req>>

(* mark_send_failed for a contact of the dispatch, however late: "open" if *)
(* it is unknown whether the request was sent.                             *)
MarkSendFailed(d, status) ==
  /\ d \in Selected /\ contact[d] # Absent
  /\ contact' = [contact EXCEPT ![d] = status]
  /\ UNCHANGED <<relevant, dealers, addressed, tagged, fact, mail, req>>

(* The mail is extracted: its result becomes the contact's status.         *)
(* NO_OFFER closes the contact, an offer or NEEDS_REVIEW opens it.         *)
Extract(m, status) ==
  /\ mail[m] # Absent
  /\ mail[m].contact \/ status = "open"
  /\ mail' = [mail EXCEPT ![m].processing =
                 IF mail[m].contact THEN "EXTRACTED" ELSE "NEEDS_REVIEW"]
  /\ contact' = IF mail[m].contact THEN [contact EXCEPT ![mail[m].dealer] = status]
                                   ELSE contact
  /\ UNCHANGED <<relevant, dealers, addressed, tagged, fact, req>>

(* Claim and completion make the campaign relevant, a PATCH to one of the  *)
(* lower-case statuses the opposite.                                       *)
SetStatus ==
  /\ relevant' = ~ relevant
  /\ UNCHANGED <<dealers, addressed, contact, tagged, fact, mail, req>>

(* The dealer's contact goes (CASCADE), his mails lose both (SET NULL),    *)
(* once no open transaction refers to the dealer.                          *)
DeleteDealer(d) ==
  /\ d \in dealers
  /\ \A w \in Workers : ~ (req[w].link = "new" /\ req[w].dealer = d)
  /\ dealers' = dealers \ {d}
  /\ contact' = [contact EXCEPT ![d] = Absent]
  /\ tagged' = tagged \ {d}
  /\ mail' = [m \in Messages |->
       IF mail[m] = Absent THEN Absent
       ELSE IF mail[m].dealer = d
       THEN [mail[m] EXCEPT !.dealer = None, !.contact = FALSE] ELSE mail[m]]
  /\ UNCHANGED <<relevant, addressed, fact, req>>

-----------------------------------------------------------------------------
Init ==
  /\ relevant \in BOOLEAN
  /\ dealers = Dealers
  /\ contact = [d \in Dealers |-> IF d \in Selected THEN "closed" ELSE Absent]
  /\ tagged = {}
  /\ fact \in [Messages -> Mail]
  /\ addressed \in {S \in SUBSET Dealers :
                       Selected \cup UNION {fact[m].sender : m \in Messages} \subseteq S}
  /\ mail = [m \in Messages |-> Absent]
  /\ req = [w \in Workers |-> Idle]

Register(w) ==
  \/ \E m \in Messages : BeginRegister(w, m)
  \/ LookUp(w) \/ MatchContact(w) \/ MatchDealer(w)
  \/ Ensure(w) \/ InsertContact(w) \/ InsertRefused(w)
  \/ Store(w) \/ StoreRefused(w) \/ Abort(w)

Next ==
  \/ \E w \in Workers : Register(w)
  \/ \E d \in Dealers : MarkSent(d) \/ DeleteDealer(d)
  \/ \E d \in Dealers, status \in {"open", "closed"} : MarkSendFailed(d, status)
  \/ \E m \in Messages, status \in {"open", "closed"} : Extract(m, status)
  \/ SetStatus

Spec == Init /\ [][Next]_vars

-----------------------------------------------------------------------------
(* Properties.                                                             *)

ContactStatuses == OpenStatuses \cup {"closed"}
MatchingStatuses ==
  {"MATCHED_BY_THREAD", "MATCHED_BY_REFERENCE", "MATCHED_BY_CAMPAIGN_TOKEN",
   "MATCHED_BY_SENDER", "MATCHED", "MATCHED_BY_DEALER_DB", "AMBIGUOUS", "UNMATCHED"}
MailRow ==
  [campaign : BOOLEAN, dealer : Dealers \cup {None}, contact : BOOLEAN,
   matching : (MatchingStatuses \ {"UNMATCHED"})
                \cup {"NEEDS_DEALER_ASSIGNMENT", "NO_CAMPAIGN"},
   processing : {"REGISTERED", "NEEDS_REVIEW", "EXTRACTED"}]
Stages == 0 .. 4
Registration ==
  [step : {"idle", "technical", "contact", "dealer", "ensure", "insert", "store"},
   message : Messages \cup {None}, auto : BOOLEAN, stage : Stages,
   dealer : Dealers \cup {None},
   link : {"none", "existing", "new"}, replied : BOOLEAN,
   matching : MatchingStatuses \cup {None}, known : SUBSET Dealers]

ASSUME AbsentAssumption == Absent \notin ContactStatuses \cup MailRow

(* A registration has what its step needs: a dealer, and his contact, once *)
(* they are found and not before.                                          *)
WellFormed(r) ==
  /\ r \in Registration
  /\ r.step # "idle" => r.message \in Messages
  /\ r.stage # 0 => r.step = "technical"
  /\ r.replied => r.link = "existing"
  /\ r.step \in {"idle", "technical", "contact", "dealer"} =>
       r.link = "none" /\ r.dealer = None
  /\ r.step \in {"contact", "dealer", "ensure", "insert"} => InCampaign(r)
  /\ r.step \in {"ensure", "insert"} =>
       /\ r.link = "none" /\ r.dealer \in Dealers
       /\ r.matching = "MATCHED_BY_DEALER_DB"
  /\ r.step = "store" =>
       /\ r.matching \in MatchingStatuses
       /\ r.link = "none" <=> r.dealer = None
       /\ r.dealer = None <=> r.matching \in {"AMBIGUOUS", "UNMATCHED"}
  /\ r.link = "new" => r.dealer \in dealers /\ contact[r.dealer] = Absent

(* The unique key of a contact also holds between open transactions. *)
OneInserts ==
  \A v, w \in Workers :
    req[v].link = "new" /\ req[w].link = "new" /\ req[v].dealer = req[w].dealer => v = w

(* Types, what a registration has at each step, and what the keys of the   *)
(* tables guarantee.                                                       *)
TypeOK ==
  /\ relevant \in BOOLEAN
  /\ dealers \subseteq Dealers /\ addressed \subseteq Dealers
  /\ tagged \subseteq dealers
  /\ contact \in [Dealers -> ContactStatuses \cup {Absent}]
  /\ \A d \in Dealers \ dealers : contact[d] = Absent
  /\ fact \in [Messages -> Mail]
  /\ mail \in [Messages -> MailRow \cup {Absent}]
  /\ req \in [Workers -> Registration] /\ \A w \in Workers : WellFormed(req[w])
  /\ OneInserts

(* A mail with a campaign and a dealer can be extracted: it has a contact  *)
(* of this dealer, which is there, although contacts are created, closed   *)
(* and deleted while it is being matched.                                  *)
AttributionCoherent ==
  \A m \in Messages : mail[m] # Absent =>
    /\ mail[m].contact <=> mail[m].dealer # None
    /\ mail[m].dealer # None => /\ mail[m].campaign
                                /\ mail[m].dealer \in dealers
                                /\ contact[mail[m].dealer] # Absent

(* Delivered twice, also at once, a mail is stored once: what its first    *)
(* registration decided stands, until the dealer is deleted.               *)
AttributionStands ==
  [][\A m \in Messages : mail[m] # Absent =>
       /\ mail'[m] # Absent
       /\ mail'[m].campaign = mail[m].campaign /\ mail'[m].matching = mail[m].matching
       /\ \/ mail'[m].dealer = mail[m].dealer
          \/ mail'[m].dealer = None /\ mail[m].dealer \notin dealers']_vars

(* The dealers anything in the mail points at. *)
Evidence(f) ==
  f.thread \cup f.replyTo \cup f.references \cup f.sender
    \cup {d \in Dealers : f.signs[d] # {}}

(* A mail that points at one dealer only is never attributed to another    *)
(* one, whatever contacts are open.                                        *)
NoStrangerAttributed ==
  \A m \in Messages, d \in Dealers :
    mail[m] # Absent /\ Evidence(fact[m]) \subseteq {d} => mail[m].dealer \in {d, None}

(* The tests: a technical match wins.  A mail in the thread of one sent    *)
(* request goes to that dealer, whoever sent it and whatever it quotes.    *)
ThreadDecides ==
  [][\A w \in Workers, d \in Dealers :
       LET m == req[w].message IN
       /\ req[w].step = "store" /\ req'[w].step = "idle" /\ mail[m] # mail'[m]
       /\ d \in req[w].known \cap dealers /\ fact[m].thread = {d}
       => mail'[m].dealer = d]_vars

(* No mail is stored and then forgotten: what cannot be extracted waits in *)
(* the review queue.  Not so if a dealer was deleted since, and for an     *)
(* ambiguous mail that came while the campaign was not relevant: it has no *)
(* campaign then, or the one of its token.                                 *)
NothingForgotten ==
  \A m \in Messages :
    mail[m] # Absent /\ mail[m].processing = "REGISTERED" =>
      \/ mail[m].campaign /\ mail[m].dealer # None
      \/ dealers # Dealers
      \/ mail[m].matching = "AMBIGUOUS" /\ (mail[m].campaign => fact[m].token)
=============================================================================
