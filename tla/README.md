# Verification of the BMW offer agent

The application (`src/app`, FastAPI, SQLAlchemy and PostgreSQL) asks car dealers
for offers: it keeps one campaign, one contact row per dealer, hands contacts to
an external mail workflow, registers the dealers' answers, extracts offers from
them and ranks the offers. This directory holds TLA+ models of it, the TLC
configurations that check them and TLAPS proofs about them.

## 1. Inventory

| Component | State it keeps | Operations | What makes it correct |
|---|---|---|---|
| Contact dispatch, `services/campaign_contact_service.py` 82-192, `repositories/campaign_contact_repository.py` | one `campaign_dealer_contact` row per campaign and dealer: status, reservation, provider message id | claim, sent, send-failed | no dealer is mailed twice; nothing reserved is forgotten; late reports never requeue |
| Completion and status, `services/campaign_dispatch_service.py` | `campaign.status`, `completed_at` | dispatch-status, complete | not completed while contacts are sendable; idempotent |
| Campaign lifecycle, `services/campaign_service.py`, `single_campaign_service.py` | the campaign row (at most one), its configuration | create, create-and-start, from-config, PATCH status | at most one campaign; requests on a replaced campaign do no harm |
| Inbound registration, `campaign_contact_service.py` 194-255, 417-595 | `inbound_email` rows | register, debug-match | each provider message stored once; attributed to one contact or to review |
| Content matching, `campaign_contact_service.py` 779-1120 | none | scoring | a match is clear (score, gap, signals) |
| Offer extraction, `campaign_contact_service.py` 299-348, 1302-1900 | result on the mail, `dealer_offer` row, contact status | extract, force re-extract | one offer per mail; cheapest prices agree with the offers |
| Comparison and ranking, `offer_comparison_service.py`, `campaign_offer_ranking_service.py`, `campaign_comparison_service.py` | cheapest prices on the campaign | compare | order and flags agree with prices and categories |
| Dealers and market offers, `dealer_service.py`, `offer_import_service.py` | `dealer`, `offer` rows | create, update, delete, import | an import batch is all or nothing |
| BMW configuration pipeline | `vehicle_configuration` rows | fetch, parse, upsert | one row per configuration |
| Administrative reset | deletes the above | reset | nothing is left behind |
| Legacy domain model, `domain/campaign.py` (imported by nothing) | in memory | start, pause, complete, batches | batches never repeat a dealer |
| External mail workflow (n8n) | its execution | claim loop, send, report | only claimed contacts are mailed |

Interaction. All components share the database and nothing else: every request
has its own session (`database/session.py`: READ COMMITTED, no autoflush, no
expiry on commit) in a worker thread, so a handler that reads, decides and
writes does so in separate statements and other requests run in between. An
UPDATE writes the columns that differ from what the session had loaded. The
only row locks a handler takes on purpose are those of
`list_pending_for_update` (`FOR UPDATE SKIP LOCKED`); the only guards against
concurrent inserts are unique constraints. The mail workflow calls the API over
HTTP and can die between any two calls.

The hard behaviours are listed, line by line, in `PROJECT.json` under
"hazards": concurrent claims, check-then-write completion, statuses loaded
before an earlier commit, answers that fail after the commit, reports that are
late or repeated, the campaign being replaced under running requests,
extractions of one mail that overlap, comparisons that overtake each other,
mails delivered twice while the dealer is deleted, and imports that look first
and insert later.

## 2. Modules

| Module | Role |
|---|---|
| `Outreach` | abstract specification: each dealer is queued once, handed out at most once, mailed at most once per hand-out, and once settled never queued again |
| `CampaignDispatch` | the dispatch requests of one campaign as they run: constants and their assumptions, one action per statement or commit, the mail workflow, properties |
| `MCCampaignDispatch` | instance for TLC (symmetry of dealers and of threads) |
| `CampaignSlot` | abstract specification of single-campaign mode: one slot, filled, advanced, cleared; mails stay with their campaign |
| `SingleCampaign` | the campaign row and what hangs on it while campaigns are created, replaced and reset under running requests |
| `MCSingleCampaign` | instance for TLC (symmetry of campaigns, mails, threads) |
| `OfferAnalysis` | what the analysis makes of a mail's text: message type, result, price, features (operators) |
| `OfferRanking` | match, category, score, sort key and cheapest prices (operators) |
| `OfferBook` | the offers of the campaign: extraction, forced re-extraction, manual entry, comparison and dealer deletion in overlapping requests |
| `MCOfferBook` | instance for TLC (symmetry of mails, contacts, manual offers, threads) |
| `ContentMatching` | the scoring of a mail's text against dealers (operators) |
| `InboundMail` | registration of inbound mail with the matching cascade, under concurrent deliveries and changes of contacts |
| `MCInboundMail` | instance for TLC (symmetry of messages and threads) |
| `BMWConfiguration` | what a configurator link says: parser, resolver, requirements (operators) |
| `Catalogue` | imports of dealers, market offers and vehicle configurations, with the keys of the schema |
| `MCCatalogue` | instance for TLC |
| `CampaignDispatchProofs` | type correctness, the inductive invariant of the claim, at most one mail |
| `DispatchRefinementProofs` | refinement of `Outreach`, accounted reservations, settled contacts |
| `SingleCampaignProofs` | the singleton, referential integrity, late requests, refinement of `CampaignSlot` |
| `CompletionProofs` | both promises of completion, when requests are served one at a time |
| `OfferBookProofs` | scores, the head of the ranking, type correctness of the offers, price comparisons that meet, result and offer of a mail in agreement, the stored cheapest prices |
| `InboundMailProofs` | the content match, the inductive invariant of registration and its consequences: coherent, lasting and justified attributions |
| `CatalogueProofs` | keys and types of dealers, market offers and configurations, whole batches and true counts, configurations that say what their links say |
| `NumberLemmas` | a least element of a set of numbers and a greatest of a bounded one, for the minima and maxima of the models |

`CampaignDispatch` looks at one campaign and the statuses of its contacts,
`SingleCampaign` at which campaign there is; a claim occurs in both, here up to
the start of the campaign, there up to the answer. `OfferBook` and `InboundMail`
look at one campaign that stays: the first at mails that are registered, the
second at how they get there. `Catalogue` holds the tables that outlive a
campaign. `OfferBook` extends `OfferRanking`, which extends `OfferAnalysis`;
`InboundMail` extends `ContentMatching`, `Catalogue` extends `BMWConfiguration`.

### How `CampaignDispatch` corresponds to the code

State. `contact[d]` is the status column of the campaign's contact for dealer
`d` ("absent" when there is no row), `stored[d]` whether its
`provider_message_id` is set (a dealer's mail has one id), `answered[d]` whether
an inbound mail is linked to it, `status` and `completed` the campaign's columns,
`dealer[d]` what `_published_with_email_query` looks at, `rowLock[d]` the row
lock of a claim. `req[w]` is the request worker `w` serves: its next step and
what its session holds. `toSend`, `reports` and `mails` are the mail workflow:
contacts it was handed, results it has still to post, mails that left. `claims`
and `lost` are history variables for the properties.

| Code | Actions |
|---|---|
| `campaign_repository.get` at the start of claim, complete, dispatch-status | `Begin` |
| `_ensure_contacts_for_campaign` (both copies) | `EnsureRead`, then `EnsureInsert` or `EnsureConflict` |
| `claim_contacts` | `ClaimStart`, `ClaimSelect`, `ClaimReserve`, then `ClaimRespond` or `ClaimRespondInvalid` |
| `get_dispatch_status` | `DispatchStatusAnswer` |
| `complete_campaign` | `CompleteAgain`, `CompleteBlocked`, or `CompleteCount` then `CompleteFinish` |
| `mark_sent`, `mark_send_failed` | `PostReport`, then `MarkSent`, `MarkSentAgain`, `MarkSendFailed` |
| `register_inbound_email` (contact half) | `BeginReply`, then `RegisterReply` or `RegisterReplyConflict` |
| `extract_offer` (contact half) | `BeginExtract`, then `ExtractOffer` |
| `update_status` | `BeginPatch`, then `UpdateStatus` |
| exception, dropped connection, killed process | `Abort` |
| dealer create, update, import | `ChangeDealer` |
| external mail workflow | `Send`, `WorkflowDies` |

What is abstracted, and why it is sound here:

- The two SELECTs of `_ensure_contacts_for_campaign` are one step. A contact
  created between them is treated as existing by the code, and the model
  reaches the same result with the other order.
- `ClaimStart` leaves out `delete_all_campaigns_except`: while one campaign
  exists it deletes nothing. Replacing the campaign is the subject of
  `SingleCampaign`.
- `dealer is None` in `claim_contacts` (status SKIPPED) cannot happen:
  `dealer_id` is NOT NULL with ON DELETE CASCADE and the row is locked.
- `ClaimRespondInvalid`: `effective_to` is an `EmailStr`, so a dealer whose
  address was removed after its contact was created makes the answer fail after
  the reservation was committed. Template rendering errors happen before the
  commit and are covered by `Abort`.
- `Batches` lets any PENDING contacts be picked: contacts created together have
  the same `created_at`, which is all the query orders by.
- The lower-case statuses of `CampaignStatusPatch` are represented by one value:
  no handler of this module compares with any of them.
- Timestamps, texts, `reservation_owner` and the contact's `recipient_email` are
  left out: no handler of this module reads them to decide. A campaign in
  `test_mode` sends all mails to one recipient, so that its answers are valid
  whatever became of a dealer's address; campaigns here are not in that mode.
- The dealer limit of 1000 per selection is not reached by the instances.
- `Attributable` stands for the matching cascade: which inbound mail is
  attributed to whom is left open, only when it can be is not.

### How `SingleCampaign` corresponds to the code

State. `status[c]` is the status of campaign `c` (`Absent`: no row; `live` is the
set of rows), `customer` and `contacts` the campaigns with customer columns and
with contact rows, `mail[m]` the `campaign_id` of a stored mail (`None`: null).
`token[m]` is the campaign id in the subject of the mail. `req[w].read` are the
ids a request has selected, `req[w].held` the mails it has deleted and not
committed: they stay visible and are locked. `filed` is a history variable.

| Code | Actions |
|---|---|
| `create_campaign` and the other three creating methods | `BeginCreate` (SELECT of the ids), `DeleteMails`, then `Replace` or `ReplaceConflict`, then `StoreCustomer` or `CampaignGone` |
| claim, complete, dispatch-status | `BeginOn`, then `EnsureContacts`, `ContactsComplete` or `EnsureRefused`, then `WriteStatus`, `CampaignGone` or `NothingToWrite` |
| `update_status` | `BeginOn`, then `WriteStatus`, `CampaignGone` or `NothingToWrite` |
| `register_inbound_email` | `BeginRegister` (which campaign), `Match` (which contact), then `Store` or `StoreRefused` |
| `_delete_campaign_scoped` | `BeginReset`, then `Wipe` |
| exception, dropped connection, deadlock victim | `Abort` |

The UPDATE of a campaign that is gone matches no row; SQLAlchemy raises
`StaleDataError` and the transaction, with the deletions before it, is rolled
back (`CampaignGone`). The database only lets a DELETE or a SET NULL touch a row
that no open transaction has deleted (`Unlocked`). A hint in the payload must
name the campaign in the table or the request is refused, so it leads to the
same campaign as no hint. Whether a contact is found, and whether the contacts
block a completion, is left open. Configurations and offers go with their
campaign as contacts do and are left out.

### How `OfferBook` corresponds to the code

State. `offer[i]` is the `dealer_offer` row of mail or manual entry `i` with its
features by key (`NoOffer`: no row; `stored` are the ids with one), `mail[m]`
the processing status and stored analysis of a mail, `contact[c]` the status of
its contact, `summary` the three cheapest-price columns of the campaign. `req[w]`
is a request: its next step, the values its session has loaded (`loaded`,
`contact`, `price`, `summary`), what it has computed (`listed`) and what became
of the offer row it holds (`hold`: read, inserted and not committed, changed or
deleted by another request). `view[w]` are the offers the session has loaded
with the campaign. `answered`, `overlapped` and `overtaken` are history
variables.

| Code | Actions |
|---|---|
| `extract_offer` up to the mail, loaded with its contact and the columns of its offer; forced or nothing stored | `BeginExtract` |
| `_load_existing_extraction_result` | `BeginAnswer` |
| `get_by_inbound_email` (finds a row or none, but does not refresh a loaded one) and the choice of the branch | `ReadOffer` |
| `offer_repository.add` (flush) | `FlushOffer`, `FlushRefused` |
| `CampaignComparisonService.compare` | `LoadCampaign` with the offers and the summary (`BeginCompare` as a request of its own), `ListOffers`, which sees new rows but keeps the loaded ones, then `CommitExtraction` or `CommitComparison` |
| `_apply_extraction_result`, `_upsert_offer_from_analysis` | in `CommitExtraction`, `CommitWithoutOffer`; `CommitRefused` |
| `_build_extraction_response`, `_build_price_comparison` | `Respond` |
| `create_offer`, `extract_and_create_offer` | `AddManualOffer` |
| `delete_dealer` (CASCADE, SET NULL) | `DeleteDealer` |
| exception, dropped connection, killed process | `Abort` |

What is abstracted, and why it is sound here:

- A text is the answers that the regular expressions and phrase lists give on it
  (`IsText`); the rules built from those answers are modelled, the expressions
  are not. Prices are small whole numbers, the code's decimals are compared and
  never computed with in what is modelled.
- An amount of 0 is falsy in the code: it is answered as the price
  (`GrossPrice`), while the offer has no price (`TotalPrice`, whose last
  alternative, the monthly rate, is never set for these offers). No text of the run has
  one; the theorems hold for texts that do.
- A session writes the columns that differ from what it loaded (`Assign`). The
  three summary columns and the two columns of a mail are such columns, so two
  overlapping requests can leave a mix.
- The row of an offer that another request rewrote: the features inserted by
  the other one are unknown to this session and stay beside its own. Where both
  have a key, either may win (`FeaturesAfter`), since the rows come in no order.
- `price_delta`, dates, links and the texts of the answer are left out.

A disagreement of keys was met here. Imported configurations store a
requirement under its normalised display label, `extract_offer` files the
features of a mail under the normalised feature key, and the comparison looks
for the label. `OfferAnalysis` keeps the two apart (`feature`, `key`). No offer
of a mail can then be exact (`UnmatchableNeverExact`); the instance uses equal
keys so that every category occurs.

### How `InboundMail` corresponds to the code

State. `contact[d]` is the status of dealer `d`'s contact, reduced to what the
matching distinguishes ("open", "closed", REPLIED, `Absent`); `tagged` the
contacts that carry the ids of the sent request; `dealers` the dealer rows;
`addressed` the dealers with an address, whose contacts have a recipient: a
contact without one, which only a registration creates, is found by neither
sender nor text. `relevant` is whether the campaign is STARTED or COMPLETED;
`mail[m]` the stored row; `fact[m]` what mail `m` is like: whom its headers, its
sender and its text point at. `addressed` and `fact` never change: they are
chosen in the initial state. `req[w].stage` counts the technical look-ups that
found nothing, `req[w].replied` is whether the contact was REPLIED when it was
loaded, in which case `Store` does not write it.

| Code | Actions |
|---|---|
| `register_inbound_email`, duplicate look-up and campaign | `BeginRegister` |
| `_match_inbound_email`: thread, reply-to, references, sender in the campaign, sender | `LookUp`, one SELECT each, over `Lookups` |
| `_match_contact_by_content`, `_match_dealer_by_content` | `MatchContact`, `MatchDealer` |
| `_ensure_inbound_contact` | `Ensure`, `InsertContact`, `InsertRefused` |
| the row, the contact's status, the commit | `Store`, `StoreRefused` |
| `mark_sent`, `mark_send_failed`, `extract_offer`, claim/complete/PATCH, `delete_dealer`, as far as contacts and statuses are concerned | `MarkSent`, `MarkSendFailed`, `Extract`, `SetStatus`, `DeleteDealer` |

The signals of `ContentMatching` are the ones the code scores, with its points,
thresholds, gap and number of signals. Which signals a text gives for a dealer is
an input; two signals the code never adds up (a quoted and an own address) are
excluded there as in the code. Deduplication that answers the stored mail
changes nothing and is no action; the one that loses to the unique key is
`StoreRefused`.

### How `Catalogue` corresponds to the code

State. `dealer[i]` is the `bmw_dealer_id` of the row with id `i`, `offer[k]` the
market offer with key `k`, `config` the vehicle configurations with their
features. `req[w]` is an import: its batch and what its look-ups found.
`answer` is what was answered last, `raced` remembers the configurations that
two imports wrote over each other.

| Code | Actions |
|---|---|
| `DealerService.import_dealers` | `FindDealer` for each item, then `StoreDealers` or `DealersRefused` |
| create, update and delete of a dealer | `CreateDealer`, `PatchDealer`, `DeleteDealer` |
| `reset_all_application_data`, the dealers | `ResetAll` |
| `OfferImportService.import_offers` | `FindOffer` for each item, then `StoreOffers` or `OffersRefused` |
| `_upsert` of a parsed link, in `create_from_config` | `FindConfig`, then `StoreConfig` or `ConfigRefused` |

A look-up is a statement of its own, the writes of a batch one step: inserts
that are flushed early only make others wait for the commit. The unique and
foreign keys accept or refuse the step as a whole. Dealers are flushed one by
one, so a key twice in a batch finds its first row; market offers are not, so
there it violates the unique key. The UPDATE of a dealer or offer names the
changed columns only. `BMWConfiguration` has what is read from a link twice, by
the parser for the stored requirements and by the resolver for the mail to the
dealers. Both are written with sets of places in the list of codes (the first
paint, the last known one) instead of the loops of the code. Accessories are
left out: no link names any. The requirements that
`create_from_public_config` builds come from the resolver's answer, not from the
parser, and are not modelled. The rows a batch
adds get the next ids in the order of the items (`NewId`); an item whose key
came before in the batch shares its row (`Added`).

A disagreement of parser and resolver was met here. A paint or upholstery the
catalogue has no name for is stored as a requirement under its code, and offers
are compared with it; the resolver lists the code as unknown, and the mail does
not ask for it. `AskedIsRequired` says that for a plain link (`IsPlain`: one paint, one
upholstery, the model in capitals, no unresolved short link) this is the only
difference. `docs/architecture/bmw_configuration_pipeline.md` says that unknown
codes are stored in `unknown_codes` only; it says so of the resolved
configuration, which does that, and nothing of the requirements. With several
paints the two differ also in which one they take, the first or the last known
one, which is why the property is about plain links.

## 3. Runs

`Ops` chooses which requests arrive, so that each run spends its states on the
question it asks. `ClaimLimit = 1` is below the number of dealers in the runs
with two, so batches are partial.

| Run | Bounds | Shows |
|---|---|---|
| `dispatch_concurrent` | 2 dealers, 2 threads; claim, sent, reply; failures | claims never overlap (`PickedRowsHeld`), one mail per dealer (`OneMailPerDealer`), the rows implement `Outreach` |
| `dispatch_all_ops` | 1 dealer, 2 threads; all requests but "failed", which differs from "unknown" only in the status it leaves; failures | `TypeOK`; a RESERVED contact is traceable or known to be lost (`ReservedAccounted`); a contact with a message id stays settled (`RecordedIsSettled`) |
| `dispatch_serial` | 2 dealers, who may be unpublished or lose their address, 1 thread; claim, complete, dispatch-status, sent, failed; no failures of calls; fairness | completion keeps its contract when requests do not overlap; the queue drains (`PendingDrains`); a reservation gets its result unless the claim that made it could not be answered (`ReservedSettles`) |
| `completion_race` | 1 dealer, 2 threads | violation of `CompletionBlocked` |
| `completion_reopened` | 1 dealer, 2 threads | violation of `CompletionIdempotent` |
| `single_campaign` | 3 campaigns, 1 mail, 2 threads; failures | never two campaigns (`AtMostOneCampaign`), no dangling rows (`RowsBelongToCampaign`), late requests remove nothing (`OnlyCreateOrResetRemoves`), the tables implement `CampaignSlot` |
| `stray_mail` | 2 campaigns, 1 mail, 2 threads | violation of `MailGoesWithCampaign` |
| `stale_token` | the same | violation of `NoCampaignMeansNull` |
| `offers` | 2 mails, 2 contacts (one may go), 1 manual entry, 2 threads, 3 requests; 3 texts, 3 requirements | results and offers of mails agree (`ResultMatchesOffer`), the stored cheapest prices are those of the offers unless overtaken (`SummaryUpToDate`), two priced answers cannot both miss the other offer (`AnswersMeet`), ranking (`CheapestExactHeads`) and scores (`ScoresFollowMatches`) |
| `inbound` | 2 dealers, one of them selected, 2 mails of 2 kinds, 2 threads | attributions have their contact (`AttributionCoherent`) and stand (`AttributionStands`), no dealer gets a mail that points only at another (`NoStrangerAttributed`), a thread decides (`ThreadDecides`), what is unresolved is up for review (`NothingForgotten`) |
| `catalogue` | 2 keys, up to 3 dealer rows, 2 market offers, up to 3 configurations, 2 threads | batches are whole (`BatchWhole`), their numbers true (`CountsAreTrue`), dealers are asked for nothing their offers are not compared with, and the other way round but for a paint or upholstery without a name (`AskedIsRequired`) |
| `reimport` | the same, configurations only | violation of `ReimportAccepted` |

Bounds. All hazards here are between two requests about one contact, or two
requests that pick contacts for one another's batches: two threads and two
dealers reach every pair of them. `Campaigns` bounds how many campaigns a
behaviour creates: with three, a request can be late for a campaign that was
replaced twice, and two creations can compete for the place of a third. No
counter needs a cap: `claims` and `mails`
are bounded by what is proved. The proofs of section 5 hold for any number of
dealers and threads.

`offers` needs three requests: two that overlap on one mail or on the summary
after a first one has stored something. The requests are counted (`MaxRequests`)
and the run then stops, so deadlock is not checked there. One dealer can be
deleted (`MaxDeleted`): the hazard is a deletion during a request, and a second
one adds none. Its texts are an offer that meets all requirements, one that
misses a mandatory one at a lower price (with a leasing rate that must not
count) and a mail without an offer; the manual entries are cheap and incomplete,
and complete without a price: each category and a missing price compete.
`inbound` has a dealer with a contact and one without, so that the cascade
reaches its last stage. The mails are an answer in one dealer's thread, from an
address the two share, so that thread, reference and sender compete and each may
be all that is left once a contact is closed or not yet tagged; and the second
dealer's signature under the campaign's token, which creates his contact. The
cascade is one SELECT a step, so a contact can be mailed, closed or deleted
between any two of its stages. `catalogue` bounds the rows (`MaxDealers`,
`MaxRows`): a row can be deleted, imported again and renamed. `Mixes` lets
dealers and market offers run together, which share a foreign key, and
configurations apart from them, with which they share nothing.

The violation runs are what the code does today. A claim or dispatch-status
request that inserts or reserves a contact between the count and the write of
`complete_campaign` leaves a COMPLETED campaign with sendable contacts. A claim
that loaded the campaign as DRAFT writes STARTED over COMPLETED; `completed_at`
stays set, and the next completion request is refused if a contact is sendable
by then. `docs/workflows/campaign_completion.md` promises neither can happen.
A mail registered between the two DELETEs of a creation or reset survives its
campaign with `campaign_id` null, which `docs/architecture/single_campaign_mode.md`
excludes. An answer to a campaign that was reset is given the id in its subject,
and the foreign key refuses it on every delivery, where
`docs/workflows/inbound_single_campaign_matching.md` promises that it is stored
with null for review. Importing a configurator link that is stored with the same
features is refused: the session inserts the new feature rows before it deletes
the old ones and violates their unique key, where
`tests/test_bmw_configuration_parser.py` stores a link twice and expects one row
with its five features.

## 4. Fairness

`FairSpec` (run `dispatch_serial`) assumes that a thread serving a request runs
to its end (weak fairness of `Proceed`), that the workflow mails what it was
handed (weak fairness of `Send`), and that a call the workflow keeps repeating
is eventually served (strong fairness of claiming while something is pending and
of each pending report). The last one is strong because the single thread is
taken by other requests again and again; the server's queue is first in, first
out. The documented workflow repeats the claim while
`has_more_sendable_contacts`. With failures nothing of this holds: a lost answer
leaves a contact RESERVED for ever (`ReservedAccounted` says exactly when).

Without failures there is one way left in which that happens, and the run has it: a
dealer loses his address while his contact is PENDING, the claim commits the
reservation of its batch, and its answer cannot be built (`ClaimRespondInvalid`).
`lost` remembers those contacts. `ReservedSettles` promises a result for all other
reservations and none for these: in the code nothing releases them either.

## 5. Proofs

For every set of dealers, of threads, every claim limit, every choice of
requests and dealer changes, with and without failures:

- `DispatchTypeOK`: `Spec => []TypeOK`.
- `ClaimsDoNotOverlap`, `AtMostOneMail`: from the inductive invariant
  `DispatchInv`. `OneMailPerDealer` is not inductive: one has to know that a
  contact never reserved has no claim (`UnclaimedIsFresh`), that rows between a
  claim's select and commit are locked and PENDING (`PickedRowsHeld`), and that
  contacts in an answer or handed out were claimed once, not mailed, and are in
  one place only (`AnswersAreDisjoint`, `HandedIsUnmailed`). Most steps are
  "bookkeeping" for this invariant (`BookkeepingKeepsInv`); select, reserve,
  respond and send have lemmas of their own.
- `RecordedStaysSettled`, `ReservedNeverForgotten`: from `AccountInv`, which adds
  `SeenIsOld`: what a session has loaded of a contact is never ahead of the row.
  It is needed because writing a value that was loaded writes nothing
  (`WriteSettles`).
- `DispatchImplementsOutreach`: `Spec => Abstract!Spec`, from the same
  invariants; inserts map to `Queue`, reservations to `Claim`, row writes to
  `Settle`, sends to `Mail` or a stutter.

- `NeverTwoCampaigns`, `NoDanglingRows`: with type correctness these are
  inductive together (`SlotInv`). Contacts and mails must refer to live campaigns
  for a replacement to leave none of them behind, and the singleton is what
  makes `delete_all_campaigns_except` of a claim that commits delete nothing
  (`WriteLive`).
- `LateRequestsHarmless`: no claim, completion or PATCH removes a campaign.
- `SlotTypeOK`: type correctness of `SingleCampaign`, a conjunct of `SlotInv`.
- `CampaignsImplementSlot`: `Spec => Slot!Spec`; `Replace` maps to `Open`, `Wipe`
  to `Clear`, `WriteStatus` to `Advance`, `Store` to `File` or a stutter.

For every set of mails, contacts, manual offers, texts, requirements and
threads, and any bounds on requests and deletions:

- `ScoresCorrect`: about the operators alone. An offer that is at least as good everywhere
  has no fewer exact matches, and no fewer exact and alternative ones together
  (`CountsMonotone`); integer division is monotone (`QuotientMonotone`), so its
  score is no lower within a category (`ScoreMonotoneWithin`); the clamping keeps
  the bands of the categories apart (`ScoreBands`, `ScoreMonotone`).
- `UnmatchableNeverExact`: an operator-level statement on the keys above.
- `BookTypeOK`: from `BookInv`, which adds that `offer` is a function on the
  ids. Rows and requests are kept without looking at the loaded offers
  (`RowsStep`), and these keep their prices (`ViewsStep`). The part that is not typing in the narrow sense is `WellFormed`: a handle
  on an offer row is "row" or "changed" only while the row is there
  (`RepublishTyped`), which is why an UPDATE of a deleted row is never taken
  for a successful one.
- `AnswersAlwaysMeet`: an answer counts all priced offers after its own commit,
  and a change of an offer withdraws the answer on it. Every other step leaves
  offers and answers alone or takes away from them
  (`MeetKept`, `MeetReset`, `MeetAnswered`).
- `ResultAlwaysMatches`: from `MailInv`. `ResultMatchesOffer` is not inductive:
  what a commit writes depends on what the request loaded and on its branch, so
  for a mail with one extraction at a time the invariant says that the loaded
  columns are those stored, that the held row is there exactly if the mail has
  an offer, with its price, and that the branch follows the result
  (`SoleExtraction`). Steps of requests on other mails keep it
  (`ExtractionsKept`, `MailKept`), a commit ends the only extraction
  (`RepublishEnds`) and leaves agreement behind (`ResultWritten`).

- `SummariesUpToDate`: from `FreshInv`. A commit writes only the summary columns
  that differ from what its session had loaded, and computes them from the
  offers it has listed, so that the summary is right only if both were. For a
  request that no other change of offers overtook, `Fresh` says of each step
  what it has by then: the loaded columns are those stored, the offer row it
  holds has the price it read, and the list is that of the visible offers. A
  commit of another request either changes no offer or marks this one as
  overtaken (`FreshKept`).
- `CheapestHeads`: every sort key begins with the category, then the price, so
  an exact offer with the least price precedes all others, unless a missing
  price sorts before it. The code sorts a missing price as 999999999.99, while
  the column can hold ten digits before the point: the theorem has the
  hypothesis that no price exceeds `LastPrice`.

When requests to the campaign are served one at a time (`OneAtATime`) and nobody
patches its status, for any dealers, claim limit, other requests and failures:

- `CompletionIsBlocked`, `CompletionIsIdempotent`: from `CompletionInv`. A request
  that has read the campaign still has it as it is when it writes
  (`ReadIsCurrent`), and what completion has counted as settled stays settled
  until it writes, because only the workflow's sends and deaths and changes of
  dealers come in between, and none of them touches a contact. A request that
  died is no exception: its statements before the commit are undone. Neither
  property holds with two requests: `completion_race` and `completion_reopened`
  show how each fails. A PATCH may write COMPLETED whatever the contacts are.

For every set of dealers, mails and threads, every selection of dealers and
whatever the mails may be like:

- `ContentMatchLeads`: about the operators alone. A dealer accepted by content has
  60 points, and 20 more than every other candidate. That at most one dealer is
  accepted, and `MatchContact` and `MatchDealer` are left no choice, follows.
- `RegistrationsSound`: the inductive invariant `IndInv` of registration. It is
  `TypeOK`, which says what a registration has at each of its steps (the dealer
  it found, the contact it looked up or inserted), `AttributionCoherent`, and
  `EvidenceKept`: whatever dealer a request has found or a row is stored with,
  the mail points at. The third part also remembers (`Traced`) that the contacts
  a registration saw as tagged when it began stay tagged while their dealers
  exist, and that past its first look-up a mail in the thread of just one of them
  has found it (`ThreadFirst`). Each action has a lemma (`LookUpKeeps`,
  `StoreKeeps`, `DeleteDealerKeeps` and so on).
- `TypesCorrect`, `AttributionIsCoherent`, `NoStrangerIsAttributed`,
  `ThreadsDecide`, `NothingIsForgotten` and `AttributionsStand` follow from it.
  `NoStrangerAttributed` cannot be shown by itself, since a dealer is found,
  stored and lost in three different steps with other requests in between.

For every set of keys, batches, links, prices and threads, and any bounds on the
rows:

- `TypesCorrect` (of `CatalogueProofs`): `TypeOK` is inductive. It has the keys of
  the schema (no two dealers with one key, no two configurations that clash, no
  offer of a dealer that is not there) and, of the requests, that an offer or
  configuration they found is still there (`RequestOK`). The hard step is
  `StoreDealers`: the id of a new row is the number of the new items up to its
  own, so that no two of them share an id (`IdsAreNew`) and every id between the
  old and the new counter is used (`IdsAreUsed`); both are shown with the
  cardinalities of the sets of those items.
- `CountsTrue`, `BatchesAreWhole`: from the same lemmas. An answer is given by the
  step that stores the batch (`AnsweredByItsStep`), and the number of rows
  that step adds is that of the new keys of the batch, also when a key occurs
  in it more than once. Each market offer that changed is an item of its own that
  found its row (`ChangedIsCounted`), so that no fewer are counted; an item that
  changes nothing counts, too.
- `ConfigurationsFaithful`: a row that no two imports wrote over has the features
  of the link in its columns (`Faithful`, proved with `TypeOK`); `StoreFaithful` is
  its only step.
- `AskedAndRequired`: from it and `PlainAsked`, a statement about the operators of
  `BMWConfiguration`: what the mail asks for a plain link the parser has read as a
  requirement, and what else it has read is a paint or upholstery without a name
  whose code the resolver has among the unknown ones.

Assumptions: the named assumptions on the constants, which every run evaluates:
five in `CampaignDispatch`, two in `SingleCampaign`, one in `OfferAnalysis`, three
in `OfferBook`, three in `InboundMail`, four in `Catalogue`. They say that the
constants have the types the code gives them (a text, a link, a mail, a batch
is what it is described to be) and that the values for "none" and "no row" are
no values of the data. Two theorems have a hypothesis more, named above: the bound
on the prices in `CheapestHeads` and `OneAtATime` in `CompletionProofs`.

Only model-checked: the liveness properties `PendingDrains` and
`ReservedSettles`. They rest on fairness, and `ENABLED` is out of this prover's
reach. Every invariant and every action property of a passing run is stated by a
theorem. What a text or a configurator link contains is an input of the models,
so nothing is proved about the regular expressions. The five violation runs are
counterexamples and have no theorem; for the two about completion the proofs
above show what is missing.

## 6. Plan

1. Done: `CampaignDispatch` with `Outreach`, `SingleCampaign` with `CampaignSlot`.
2. Done: `OfferAnalysis`, `OfferRanking`, `OfferBook`; `ContentMatching`,
   `InboundMail`; `BMWConfiguration`, `Catalogue`.
3. Done: the proofs of all invariants and action properties of the passing runs.
4. Still worth having: a guarantee of completion that holds for overlapping
   requests (a campaign that is completed with sendable contacts was completed by
   a request that another one overlapped), and an abstract specification
   of registration that `InboundMail` implements (a mail is filed once, for a
   dealer it points at, and can only lose him).

## 7. Not modelled

- Rendering and formatting of mails and answers: wording only. That rendering
  can fail is part of `Abort`; the one validation of an answer that comes after
  a commit is `ClaimRespondInvalid`.
- The regular expressions of the analysis and the table of spellings of the
  feature normalisation: text processing without state, whose answers are inputs
  here.
- The legacy single-offer agent: stateless extraction outside of the campaign.
- The legacy domain model (`domain/campaign.py`): an in-memory state machine that
  nothing in the repository imports.
- Migrations: they run once, offline. The constraints they leave behind are part
  of the actions.
- Reading endpoints (lists, statistics, review queue, debug match): they change
  nothing, and no property here is about their layout.
- Timestamps, except for the order they give where a property needs it.
- The numbers an administrative reset answers: they are counted by statements
  before the first DELETE, and nothing says they are exact under other requests.
