------------------------------ MODULE Catalogue ------------------------------
(***************************************************************************)
(* The tables filled from outside: dealers and market offers, imported in  *)
(* batches, and the vehicle configurations read from links.                *)
(*                                                                         *)
(* An import selects the row of every item, one statement after the other, *)
(* and writes in one transaction.  Inserts flushed early only make others  *)
(* wait for its end, so its writes are one step here, in which the unique  *)
(* and foreign keys of the schema accept or refuse all of them.  Sessions  *)
(* do not flush before a select (autoflush=False).  /parse-bmw never       *)
(* commits: it leaves nothing behind and is left out.                      *)
(***************************************************************************)
EXTENDS BMWConfiguration, FiniteSetsExt

CONSTANTS
  Keys,          \* values of dealer.bmw_dealer_id
  DealerBatches, \* batches of such keys
  OfferKeys,     \* values of (source, external_id)
  Prices,        \* what an offer may cost
  OfferBatches,  \* batches of [key, price, dealer]
  Links, Workers,
  MaxDealers,    \* bound: dealer rows ever inserted
  MaxRows,       \* bound: vehicle configurations
  Mixes,         \* bound: the kinds of import that run in one behaviour
  Absent

ASSUME LinksAssumption == \A l \in Links : IsLink(l)
ASSUME CataloguesAssumption ==
  /\ MaxDealers \in Nat /\ MaxRows \in Nat /\ None \notin Nat

Ids == 1..MaxDealers
OfferRow == [price : Prices, dealer : Ids \cup {None}]
OfferItem == [key : OfferKeys, price : Prices, dealer : Ids \cup {None}]

ASSUME AbsentAssumption == Absent \notin Keys \cup OfferRow
ASSUME BatchesAssumption ==
  /\ \A b \in DealerBatches : b \in Seq(Keys)
  /\ \A b \in OfferBatches : b \in Seq(OfferItem)

VARIABLES
  dealer,  \* dealer[i]: the key of the dealer row with id i, Absent: no row
  issued,  \* ids given out so far
  offer,   \* offer[k]: the market offer with key k
  config,  \* the vehicle_configuration rows with their features
  raced,   \* config rows written by an import that had read an older row
  mix,     \* the kinds of import in this behaviour
  req,     \* req[w]: the import worker w is running
  answer   \* what an import has just been answered

vars == <<dealer, issued, offer, config, raced, mix, req, answer>>
tables == <<dealer, issued, offer, config, raced, mix>>

Rows == {i \in Ids : dealer[i] # Absent}

NoAnswer == [status |-> "none", created |-> 0, updated |-> 0]
Idle == [kind |-> "idle", input |-> <<>>, found |-> <<>>]
Begin(w, kind, input) ==
  /\ req[w] = Idle /\ kind \in mix
  /\ req' = [req EXCEPT ![w] = [kind |-> kind, input |-> input, found |-> <<>>]]
  /\ answer' = NoAnswer
  /\ UNCHANGED tables

Answer(w, a) ==
  /\ answer' = a
  /\ req' = [req EXCEPT ![w] = Idle]
Stored(created, updated) == [status |-> "stored", created |-> created, updated |-> updated]
Refuse(w) == Answer(w, [NoAnswer EXCEPT !.status = "refused"])

(* All items of a batch are looked up. *)
Ready(w, kind) == req[w].kind = kind /\ Len(req[w].found) = Len(req[w].input)

(* The item to be looked up next, and what the look-up found. *)
Item(w) == req[w].input[Len(req[w].found) + 1]
Find(w, kind, row) ==
  /\ req[w].kind = kind /\ Len(req[w].found) < Len(req[w].input)
  /\ req' = [req EXCEPT ![w].found = Append(@, row)]
  /\ answer' = NoAnswer
  /\ UNCHANGED tables

Earlier(r, i) == {j \in 1..(i - 1) : r.input[j] = r.input[i]}

-----------------------------------------------------------------------------
(* Dealers.                                                                *)

(* get_by_bmw_id *)
FindDealer(w) ==
  Find(w, "dealers",
       IF \E i \in Rows : dealer[i] = Item(w)
       THEN CHOOSE i \in Rows : dealer[i] = Item(w) ELSE None)

(* The items that insert a row.  add() flushes, so that a second item with *)
(* the same key finds the row of the first.                                *)
Added(r) ==
  {i \in DOMAIN r.input :
     r.found[i] = None /\ \A j \in Earlier(r, i) : r.found[j] # None}

(* Item i of the new ones gets the next id after theirs before it. *)
NewId(new, i) == issued + Cardinality({j \in new : j <= i})

(* The dealers after a batch that inserts rows for the items in new. *)
Inserted(r, new) ==
  [d \in Ids |-> IF \E i \in new : NewId(new, i) = d
                 THEN r.input[CHOOSE i \in new : NewId(new, i) = d]
                 ELSE dealer[d]]

(* bmw_dealer_id is unique; an UPDATE of a deleted row raises. *)
DealersAccepted(r) ==
  /\ \A i \in Added(r) : \A d \in Rows : dealer[d] # r.input[i]
  /\ \A i \in DOMAIN r.found : r.found[i] # None => r.found[i] \in Rows

(* Mutant: dealers that are there by now are skipped and counted. *)
StoreDealersLenient(w) ==
  /\ Ready(w, "dealers") /\ issued + Cardinality(Added(req[w])) <= MaxDealers
  /\ LET r == req[w]
         new == {i \in Added(r) : \A d \in Rows : dealer[d] # r.input[i]}
         created == Cardinality(Added(r))
     IN /\ dealer' = Inserted(r, new)
        /\ issued' = issued + Cardinality(new)
        /\ Answer(w, Stored(created, Len(r.input) - created))
  /\ UNCHANGED <<offer, config, raced, mix>>

StoreDealers(w) ==
  /\ Ready(w, "dealers") /\ issued + Cardinality(Added(req[w])) <= MaxDealers
  /\ DealersAccepted(req[w])
  /\ LET r == req[w]
         created == Cardinality(Added(r))
     IN /\ dealer' = Inserted(r, Added(r))
        /\ issued' = issued + created
        /\ Answer(w, Stored(created, Len(r.input) - created))
  /\ UNCHANGED <<offer, config, raced, mix>>

DealersRefused(w) ==
  /\ Ready(w, "dealers") /\ ~ DealersAccepted(req[w])
  /\ Refuse(w)
  /\ UNCHANGED tables

(* create_dealer, with a key of its own or a given one. *)
CreateDealer(key) ==
  /\ issued < MaxDealers
  /\ \A i \in Rows : dealer[i] # key
  /\ dealer' = [dealer EXCEPT ![issued + 1] = key]
  /\ issued' = issued + 1
  /\ answer' = NoAnswer
  /\ UNCHANGED <<offer, config, raced, mix, req>>

(* update_dealer may change the key. *)
PatchDealer(d, key) ==
  /\ d \in Rows
  /\ \A i \in Rows : dealer[i] # key
  /\ dealer' = [dealer EXCEPT ![d] = key]
  /\ answer' = NoAnswer
  /\ UNCHANGED <<issued, offer, config, raced, mix, req>>

(* Mutant: his market offers keep his id. *)
DeleteDealerOnly(d) ==
  /\ d \in Rows
  /\ dealer' = [dealer EXCEPT ![d] = Absent]
  /\ answer' = NoAnswer
  /\ UNCHANGED <<issued, offer, config, raced, mix, req>>

(* delete_dealer: his market offers stay without him (SET NULL). *)
DeleteDealer(d) ==
  /\ d \in Rows
  /\ dealer' = [dealer EXCEPT ![d] = Absent]
  /\ offer' = [k \in OfferKeys |->
       IF offer[k] # Absent /\ offer[k].dealer = d THEN [offer[k] EXCEPT !.dealer = None]
                                                   ELSE offer[k]]
  /\ answer' = NoAnswer
  /\ UNCHANGED <<issued, config, raced, mix, req>>

(* reset_all_application_data: DELETE of all dealers.  Market offers and   *)
(* vehicle configurations are no campaign data and stay.                   *)
ResetAll ==
  /\ Rows # {}
  /\ dealer' = [d \in Ids |-> Absent]
  /\ offer' = [k \in OfferKeys |->
       IF offer[k] # Absent THEN [offer[k] EXCEPT !.dealer = None] ELSE Absent]
  /\ answer' = NoAnswer
  /\ UNCHANGED <<issued, config, raced, mix, req>>

-----------------------------------------------------------------------------
(* Market offers.                                                          *)

(* get_by_external_id *)
FindOffer(w) == Find(w, "offers", offer[Item(w).key])

SameKey(r, i) == {j \in DOMAIN r.input : r.input[j].key = r.input[i].key}
Content(item) == [price |-> item.price, dealer |-> item.dealer]

(* What the session holds for item i before it: the row as first read, with*)
(* the values of earlier items of the batch.                               *)
Held(r, i) ==
  LET before == {j \in SameKey(r, i) : j < i} IN
  IF before = {} THEN r.found[i] ELSE Content(r.input[Max(before)])

Created(r) == {i \in DOMAIN r.input : r.found[i] = Absent}
Updated(r) == {i \in DOMAIN r.input \ Created(r) : Held(r, i) # Content(r.input[i])}

(* The columns that differ from the row as it was read. *)
Written(r, i) ==
  LET last == Content(r.input[Max(SameKey(r, i))])
      first == r.found[Min(SameKey(r, i))]
  IN IF i \in Created(r) THEN last
     ELSE [c \in {"price", "dealer"} |->
             IF last[c] # first[c] THEN last[c] ELSE offer[r.input[i].key][c]]

(* Mutant: a row that is there by now is overwritten. *)
OffersAcceptedOver(r) ==
  \A i \in DOMAIN r.input : r.input[i].dealer \in Rows \cup {None}

(* (source, external_id) is unique, also within the batch, whose rows are  *)
(* not flushed; the dealer of a written row is there.                      *)
OffersAccepted(r) ==
  /\ \A i \in Created(r) : offer[r.input[i].key] = Absent /\ SameKey(r, i) = {i}
  /\ \A i \in DOMAIN r.input : Written(r, i).dealer \in Rows \cup {None}

StoreOffers(w) ==
  /\ Ready(w, "offers") /\ OffersAccepted(req[w])
  /\ LET r == req[w] IN
       /\ offer' = [k \in OfferKeys |->
            IF \E i \in DOMAIN r.input : r.input[i].key = k
            THEN Written(r, CHOOSE i \in DOMAIN r.input : r.input[i].key = k)
            ELSE offer[k]]
       /\ Answer(w, Stored(Cardinality(Created(r)), Cardinality(Updated(r))))
  /\ UNCHANGED <<dealer, issued, config, raced, mix>>

OffersRefused(w) ==
  /\ Ready(w, "offers") /\ ~ OffersAccepted(req[w])
  /\ Refuse(w)
  /\ UNCHANGED tables

-----------------------------------------------------------------------------
(* Vehicle configurations: _upsert of create_from_config.                  *)

Columns == {"url", "cfg", "date", "link"}
ColumnsOf(l) == [url |-> l.url, cfg |-> l.cfg, date |-> l.date, link |-> l]

Matches(l, row) ==
  \/ row.cols.url = l.url
  \/ l.cfg # None /\ row.cols.cfg = l.cfg /\ row.cols.date = l.date
Matching(l) == {i \in DOMAIN config : Matches(l, config[i])}

(* scalar_one_or_none; the features are loaded with the row. *)
FindConfig(w) ==
  /\ req[w].kind = "config" /\ req[w].found = <<>>
  /\ LET l == req[w].input[1] IN
       IF Cardinality(Matching(l)) > 1
       THEN Refuse(w)
       ELSE /\ req' = [req EXCEPT ![w].found =
                 <<IF Matching(l) = {} THEN [id |-> None]
                   ELSE LET i == CHOOSE i \in Matching(l) : TRUE IN
                        [id |-> i, row |-> config[i]]>>]
            /\ answer' = NoAnswer
  /\ UNCHANGED tables

(* The two unique constraints; NULLs are distinct. *)
Clash(row, other) ==
  \/ row.url = other.url
  \/ row.cfg = other.cfg /\ row.date = other.date /\ None \notin {row.cfg, row.date}

(* The row as the flush leaves it: only changed columns are written.  The  *)
(* session inserts the new features before it deletes the loaded ones.     *)
RowAfter(r) ==
  LET l == r.input[1]
      read == r.found[1]
  IN IF read.id = None THEN [cols |-> ColumnsOf(l), features |-> FeaturesOf(l)]
     ELSE [cols |-> [c \in Columns |->
             IF ColumnsOf(l)[c] # read.row.cols[c] THEN ColumnsOf(l)[c]
                                                   ELSE config[read.id].cols[c]],
           features |-> (config[read.id].features \ read.row.features) \cup FeaturesOf(l)]

ConfigAccepted(r) ==
  LET id == r.found[1].id IN
  /\ \A i \in DOMAIN config \ {id} : ~ Clash(RowAfter(r).cols, config[i].cols)
  /\ id # None => FeaturesOf(r.input[1]) \cap config[id].features = {}

StoreConfig(w) ==
  /\ Ready(w, "config") /\ ConfigAccepted(req[w])
  /\ LET r == req[w]
         id == r.found[1].id
     IN /\ IF id = None
           THEN Len(config) < MaxRows /\ config' = Append(config, RowAfter(r))
           ELSE config' = [config EXCEPT ![id] = RowAfter(r)]
        /\ raced' = IF id # None /\ config[id] # r.found[1].row THEN raced \cup {id}
                                                               ELSE raced
        /\ Answer(w, Stored(0, 0))
  /\ UNCHANGED <<dealer, issued, offer, mix>>

ConfigRefused(w) ==
  /\ Ready(w, "config") /\ ~ ConfigAccepted(req[w])
  /\ Refuse(w)
  /\ UNCHANGED tables

(* An import dies and is rolled back. *)
Abort(w) ==
  /\ req[w] # Idle
  /\ Answer(w, NoAnswer)
  /\ UNCHANGED tables

-----------------------------------------------------------------------------
Init ==
  /\ dealer = [i \in Ids |-> Absent] /\ issued = 0
  /\ offer = [k \in OfferKeys |-> Absent]
  /\ config = <<>> /\ raced = {}
  /\ req = [w \in Workers |-> Idle]
  /\ mix \in Mixes
  /\ answer = NoAnswer

Next ==
  \/ \E w \in Workers :
       \/ \E b \in DealerBatches : Begin(w, "dealers", b)
       \/ \E b \in OfferBatches : Begin(w, "offers", b)
       \/ \E l \in Links : Begin(w, "config", <<l>>)
       \/ FindDealer(w) \/ StoreDealers(w) \/ DealersRefused(w)
       \/ FindOffer(w) \/ StoreOffers(w) \/ OffersRefused(w)
       \/ FindConfig(w) \/ StoreConfig(w) \/ ConfigRefused(w)
       \/ Abort(w)
  \/ \E key \in Keys : CreateDealer(key) \/ \E d \in Ids : PatchDealer(d, key)
  \/ \E d \in Ids : DeleteDealer(d)
  \/ ResetAll

Spec == Init /\ [][Next]_vars

-----------------------------------------------------------------------------
(* Properties.                                                             *)

(* A configuration row holds columns and features that links gave it. *)
ConfigRow ==
  [cols : [url : {l.url : l \in Links}, cfg : {l.cfg : l \in Links},
           date : {l.date : l \in Links}, link : Links],
   features : SUBSET UNION {FeaturesOf(l) : l \in Links}]

(* What an import was given, and what it found, which is still there unless*)
(* it is a dealer.                                                         *)
RequestOK(r) ==
  /\ r = [kind |-> r.kind, input |-> r.input, found |-> r.found]
  /\ r.kind = "dealers" => r.input \in Seq(Keys) /\ r.found \in Seq(Ids \cup {None})
  /\ r.kind = "offers" =>
       /\ r.input \in Seq(OfferItem) /\ r.found \in Seq(OfferRow \cup {Absent})
       /\ \A i \in DOMAIN r.found :
            r.found[i] # Absent => offer[r.input[i].key] # Absent
  /\ r.kind = "config" =>
       /\ \E l \in Links : r.input = <<l>>
       /\ r.found # <<>> =>
            \/ r.found = <<[id |-> None]>>
            \/ r.found \in Seq([id : DOMAIN config, row : ConfigRow])
  /\ Len(r.found) <= Len(r.input)

(* The tables hold what they are declared to hold, and what a request found*)
(* belongs to what it asked for.                                           *)
TypeOK ==
  /\ issued \in 0..MaxDealers
  /\ dealer \in [Ids -> Keys \cup {Absent}] /\ Rows \subseteq 1..issued
  /\ \A i, j \in Rows : dealer[i] = dealer[j] => i = j
  /\ offer \in [OfferKeys -> OfferRow \cup {Absent}]
  /\ \A k \in OfferKeys : offer[k] # Absent => offer[k].dealer \in Rows \cup {None}
  /\ config \in Seq(ConfigRow) /\ Len(config) <= MaxRows /\ raced \subseteq DOMAIN config
  /\ \A i, j \in DOMAIN config : Clash(config[i].cols, config[j].cols) => i = j
  /\ DOMAIN req = Workers /\ \A w \in Workers : RequestOK(req[w])

(* Imports: a step that answers one with its numbers. *)
Answered(w, kind) ==
  /\ req[w].kind = kind /\ req'[w] = Idle
  /\ answer'.status = "stored"

(* The numbers an import answers are those of its batch and of the rows    *)
(* its transaction added, whatever other imports did since it looked, and  *)
(* also with a key twice in the batch.  No market offer that was there is  *)
(* changed without being counted.                                          *)
CountsAreTrue ==
  [][\A w \in Workers :
       /\ Answered(w, "dealers") =>
            /\ answer'.created + answer'.updated = Len(req[w].input)
            /\ answer'.created = Cardinality(Rows') - Cardinality(Rows)
       /\ Answered(w, "offers") =>
            /\ answer'.created =
                 Cardinality({k \in OfferKeys : offer[k] = Absent /\ offer'[k] # Absent})
            /\ answer'.updated >=
                 Cardinality({k \in OfferKeys : offer[k] # Absent /\ offer'[k] # offer[k]})]_vars

(* A batch is imported as a whole: afterwards every item has its row, or   *)
(* the one it was read as has been renamed since.                          *)
BatchWhole ==
  [][\A w \in Workers :
       /\ Answered(w, "dealers") =>
            \A i \in DOMAIN req[w].input :
              \/ \E d \in Rows' : dealer'[d] = req[w].input[i]
              \/ req[w].found[i] \in Rows
       /\ Answered(w, "offers") =>
            \A i \in DOMAIN req[w].input : offer'[req[w].input[i].key] # Absent]_vars

(* What the mail to the dealers asks for, which the resolver lists, their  *)
(* offers are compared with, which the parser stores.  What they are       *)
(* compared with and never asked for is a paint or an upholstery that the  *)
(* catalogue has no name for: the resolver only lists it as unknown.  Not  *)
(* so if two imports of a configuration overlapped.                        *)
AskedIsRequired ==
  \A i \in DOMAIN config \ raced :
    LET l == config[i].cols.link
        stored == {f.requirement : f \in config[i].features}
        asked == Asked(Resolved(l))
    IN IsPlain(l) =>
         /\ asked \subseteq stored
         /\ \A r \in stored \ asked :
              /\ r.about \in {"paint", "upholstery"} /\ ~ r.named
              /\ r.code \in Resolved(l).unknown

(* A test: storing the same configuration again succeeds. *)
ReimportAccepted ==
  [][\A w \in Workers :
       /\ req[w].kind = "config" /\ answer'.status = "refused"
       => \A i \in DOMAIN config : config[i].cols.link # req[w].input[1]]_vars
=============================================================================
