--------------------------- MODULE CatalogueProofs ---------------------------
(***************************************************************************)
(* Proofs about the imports of Catalogue, for any keys, batches, links and *)
(* workers.  TypeOK is inductive; the two properties of the answers follow *)
(* from it step by step.  That a plain link is asked for as it is required *)
(* is a fact about the parser and the resolver; a configuration that no two*)
(* imports raced for holds the features of its link.                       *)
(***************************************************************************)
EXTENDS Catalogue, NumberLemmas, FiniteSetTheorems, TLAPS

-----------------------------------------------------------------------------
(* Ids of inserted rows.                                                   *)

(* Places up to a place of a batch are finitely many. *)
LEMMA PlacesFinite ==
  ASSUME NEW n \in Nat, NEW new \in SUBSET (1 .. n)
  PROVE  /\ IsFiniteSet(new) /\ Cardinality(new) \in Nat
         /\ \A i : /\ IsFiniteSet({j \in new : j <= i})
                   /\ Cardinality({j \in new : j <= i}) \in 0 .. Cardinality(new)
  <1>1. IsFiniteSet(1 .. n)
    BY FS_Interval
  <1>2. IsFiniteSet(new)
    BY <1>1, FS_Subset
  <1>3. Cardinality(new) \in Nat
    BY <1>2, FS_CardinalityType
  <1>4. ASSUME NEW i
        PROVE  /\ IsFiniteSet({j \in new : j <= i})
               /\ Cardinality({j \in new : j <= i}) \in 0 .. Cardinality(new)
    <2>1. {j \in new : j <= i} \subseteq new
      OBVIOUS
    <2>2. IsFiniteSet({j \in new : j <= i})
      BY <1>2, <2>1, FS_Subset
    <2>3. Cardinality({j \in new : j <= i}) <= Cardinality(new)
      BY <1>2, <2>1, FS_Subset
    <2>4. Cardinality({j \in new : j <= i}) \in Nat
      BY <2>2, FS_CardinalityType
    <2>5. QED
      BY <1>3, <2>2, <2>3, <2>4
  <1>5. QED
    BY <1>2, <1>3, <1>4

(* Later items get later ids. *)
LEMMA LaterGetsMore ==
  ASSUME NEW n \in Nat, NEW new \in SUBSET (1 .. n), NEW i \in new, NEW k \in new, i < k
  PROVE  Cardinality({j \in new : j <= i}) < Cardinality({j \in new : j <= k})
  <1> DEFINE U(x) == {j \in new : j <= x}
  <1>1. i \in Nat /\ k \in Nat /\ \A j \in new : j \in Nat
    OBVIOUS
  <1>2. U(i) \subseteq U(k)
    <2>1. \A j \in new : j <= i => j <= k
      BY <1>1
    <2>2. QED
      BY <2>1
  <1>3. k \in U(k) /\ k \notin U(i)
    BY <1>1
  <1>4. IsFiniteSet(U(k))
    BY PlacesFinite
  <1>5. U(i) # U(k)
    BY <1>3
  <1> HIDE DEF U
  <1>6. Cardinality(U(i)) < Cardinality(U(k))
    BY <1>2, <1>4, <1>5, FS_Subset, FS_CardinalityType
  <1>7. QED
    BY <1>6 DEF U

(* The first of new items gets the next id, so at least one. *)
LEMMA ItselfCounts ==
  ASSUME NEW n \in Nat, NEW new \in SUBSET (1 .. n), NEW i \in new
  PROVE  Cardinality({j \in new : j <= i}) \in 1 .. Cardinality(new)
  <1> DEFINE U == {j \in new : j <= i}
  <1>1. i \in Nat
    OBVIOUS
  <1>2. i \in U
    BY <1>1
  <1>3. IsFiniteSet(U) /\ Cardinality(U) \in 0 .. Cardinality(new) /\ Cardinality(new) \in Nat
    BY PlacesFinite
  <1>4. Cardinality(U) # 0
    BY <1>2, <1>3, FS_EmptySet
  <1>5. QED
    BY <1>3, <1>4

(* The ids after those issued go to the new items, to each its own. *)
LEMMA IdsAreNew ==
  ASSUME NEW n \in Nat, NEW new \in SUBSET (1 .. n), issued \in Nat
  PROVE  /\ \A i \in new : NewId(new, i) \in (issued + 1) .. (issued + Cardinality(new))
         /\ \A i, k \in new : NewId(new, i) = NewId(new, k) => i = k
         /\ \A i \in new : (CHOOSE k \in new : NewId(new, k) = NewId(new, i)) = i
  <1>1. ASSUME NEW i \in new
        PROVE  NewId(new, i) \in (issued + 1) .. (issued + Cardinality(new))
    <2>1. Cardinality({j \in new : j <= i}) \in 1 .. Cardinality(new)
      BY ItselfCounts
    <2>2. Cardinality(new) \in Nat
      BY PlacesFinite
    <2>3. QED
      BY <2>1, <2>2 DEF NewId
  <1>2. ASSUME NEW i \in new, NEW k \in new, i < k
        PROVE  NewId(new, i) # NewId(new, k)
    <2>1. Cardinality({j \in new : j <= i}) < Cardinality({j \in new : j <= k})
      BY <1>2, LaterGetsMore
    <2>2. /\ Cardinality({j \in new : j <= i}) \in 1 .. Cardinality(new)
          /\ Cardinality({j \in new : j <= k}) \in 1 .. Cardinality(new)
          /\ Cardinality(new) \in Nat
      BY ItselfCounts, PlacesFinite
    <2>3. QED
      BY <2>1, <2>2 DEF NewId
  <1>3. ASSUME NEW i \in new, NEW k \in new, NewId(new, i) = NewId(new, k)
        PROVE  i = k
    <2>1. i \in Nat /\ k \in Nat
      OBVIOUS
    <2>2. ~ (i < k) /\ ~ (k < i)
      BY <1>2, <1>3
    <2>3. QED
      BY <2>1, <2>2
  <1>4. ASSUME NEW i \in new
        PROVE  (CHOOSE k \in new : NewId(new, k) = NewId(new, i)) = i
    <2> HIDE DEF NewId
    <2>1. \E k \in new : NewId(new, k) = NewId(new, i)
      OBVIOUS
    <2>2. QED
      BY <1>3, <2>1
  <1>5. QED
    BY <1>1, <1>3, <1>4

(* Every id after those issued, up to as many as there are items, is one   *)
(* item's.                                                                 *)
LEMMA IdsAreUsed ==
  ASSUME NEW n \in Nat, NEW new \in SUBSET (1 .. n), issued \in Nat,
         NEW d \in (issued + 1) .. (issued + Cardinality(new))
  PROVE  \E i \in new : NewId(new, i) = d
  <1> DEFINE T == (issued + 1) .. (issued + Cardinality(new))
             f == [i \in new |-> NewId(new, i)]
  <1>1. IsFiniteSet(new) /\ Cardinality(new) \in Nat
    BY PlacesFinite
  <1>2. IsFiniteSet(T) /\ Cardinality(T) = Cardinality(new)
    <2>1. issued + 1 \in Int /\ issued + Cardinality(new) \in Int
      BY <1>1
    <2>2. /\ IsFiniteSet(T)
          /\ Cardinality(T) = IF issued + 1 > issued + Cardinality(new) THEN 0
                              ELSE (issued + Cardinality(new)) - (issued + 1) + 1
      BY <2>1, FS_Interval
    <2>3. QED
      BY <1>1, <2>2
  <1>3. f \in Injection(new, T)
    <2>1. /\ \A i \in new : NewId(new, i) \in T
          /\ \A i, k \in new : NewId(new, i) = NewId(new, k) => i = k
      BY IdsAreNew
    <2> HIDE DEF T, NewId
    <2>2. QED
      BY <2>1 DEF Injection, IsInjective
  <1>4. QED
    <2>1. SUFFICES ASSUME \A i \in new : NewId(new, i) # d
                   PROVE  FALSE
      OBVIOUS
    <2>2. f \in Injection(new, T \ {d})
      BY <1>3, <2>1 DEF Injection, IsInjective
    <2>3. IsFiniteSet(T \ {d}) /\ Cardinality(T \ {d}) = Cardinality(T) - 1
      BY <1>2, FS_RemoveElement
    <2>4. Cardinality(new) <= Cardinality(T \ {d})
      BY <1>1, <2>2, <2>3, FS_Injection
    <2>5. QED
      BY <1>1, <1>2, <2>3, <2>4

-----------------------------------------------------------------------------
(* The parts of TypeOK.                                                    *)

DealersOK ==
  /\ issued \in 0..MaxDealers
  /\ dealer \in [Ids -> Keys \cup {Absent}] /\ Rows \subseteq 1..issued
  /\ \A i, j \in Rows : dealer[i] = dealer[j] => i = j

OffersOK ==
  /\ offer \in [OfferKeys -> OfferRow \cup {Absent}]
  /\ \A k \in OfferKeys : offer[k] # Absent => offer[k].dealer \in Rows \cup {None}

ConfigOK ==
  /\ config \in Seq(ConfigRow) /\ Len(config) <= MaxRows /\ raced \subseteq DOMAIN config
  /\ \A i, j \in DOMAIN config : Clash(config[i].cols, config[j].cols) => i = j

RequestsOK == DOMAIN req = Workers /\ \A w \in Workers : RequestOK(req[w])

\* The type invariant by table.
LEMMA TypeParts == TypeOK <=> DealersOK /\ OffersOK /\ ConfigOK /\ RequestsOK
  BY DEF TypeOK, DealersOK, OffersOK, ConfigOK, RequestsOK

LEMMA TypeAgain ==
  ASSUME DealersOK', OffersOK', ConfigOK', RequestsOK'
  PROVE  TypeOK'
  BY DEF TypeOK, DealersOK, OffersOK, ConfigOK, RequestsOK

(* A sequence over a set is one over a larger set. *)
LEMMA LargerSeq ==
  ASSUME NEW S, NEW T, S \subseteq T, NEW s \in Seq(S)
  PROVE  s \in Seq(T)
  <1>1. s \in [1 .. Len(s) -> S] /\ Len(s) \in Nat
    OBVIOUS
  <1>2. s \in [1 .. Len(s) -> T]
    BY <1>1
  <1>3. QED
    BY <1>1, <1>2

(* Offers and configurations are never deleted: what a request found is    *)
(* still there.                                                            *)
Grown ==
  /\ \A k \in OfferKeys : offer[k] # Absent => offer'[k] # Absent
  /\ DOMAIN config \subseteq DOMAIN config'

\* A request keeps its type while the rows it found stay.
LEMMA RequestStays ==
  ASSUME NEW r, RequestOK(r), Grown
  PROVE  RequestOK(r)'
  <1>1. ASSUME r.kind = "offers"
        PROVE  \A i \in DOMAIN r.found :
                 r.found[i] # Absent => offer'[r.input[i].key] # Absent
    <2> TAKE i \in DOMAIN r.found
    <2>1. r.input \in Seq(OfferItem) /\ Len(r.found) <= Len(r.input) /\ r.found \in Seq(OfferRow \cup {Absent})
      BY <1>1 DEF RequestOK
    <2>2. i \in 1..Len(r.input)
      BY <2>1
    <2>3. r.input[i].key \in OfferKeys
      <3>1. r.input[i] \in OfferItem
        BY <2>1, <2>2
      <3>2. QED
        BY <3>1 DEF OfferItem
    <2>4. QED
      BY <1>1, <2>3 DEF RequestOK, Grown
  <1>2. ASSUME r.found \in Seq([id : DOMAIN config, row : ConfigRow])
        PROVE  r.found \in Seq([id : DOMAIN config', row : ConfigRow])
    <2>1. [id : DOMAIN config, row : ConfigRow] \subseteq [id : DOMAIN config', row : ConfigRow]
      BY DEF Grown
    <2>2. QED
      BY <1>2, <2>1, LargerSeq
  <1>3. ConfigRow' = ConfigRow
    BY DEF ConfigRow, FeaturesOf
  <1>4. QED
    BY <1>1, <1>2, <1>3 DEF RequestOK

LEMMA RequestSet ==
  ASSUME RequestsOK, Grown, NEW w \in Workers, NEW r, RequestOK(r)',
         req' = [req EXCEPT ![w] = r]
  PROVE  RequestsOK'
  <1>1. \A v \in Workers : req'[v] = IF v = w THEN r ELSE req[v]
    BY DEF RequestsOK
  <1>2. DOMAIN req' = Workers
    BY DEF RequestsOK
  <1>3. ASSUME NEW v \in Workers PROVE RequestOK(req[v])'
    <2>1. CASE v = w
      <3>1. req'[v] = r
        BY <1>1, <2>1
      <3>2. QED
        BY <3>1
    <2>2. CASE v # w
      <3>1. PICK q : q = req[v]
        OBVIOUS
      <3>2. RequestOK(q)'
        BY <3>1, RequestStays DEF RequestsOK
      <3>3. req'[v] = q
        BY <1>1, <2>2, <3>1
      <3>4. QED
        BY <3>2, <3>3
    <2>3. QED
      BY <2>1, <2>2
  <1>4. QED
    BY <1>2, <1>3 DEF RequestsOK

(* A request that ends leaves an idle worker. *)
LEMMA AnswerTyped ==
  ASSUME RequestsOK, Grown, NEW w \in Workers, NEW a, Answer(w, a)
  PROVE  RequestsOK'
  <1>1. RequestOK(Idle)'
    BY DEF RequestOK, Idle
  <1>2. req' = [req EXCEPT ![w] = Idle]
    BY DEF Answer
  <1>3. QED
    BY <1>1, <1>2, RequestSet

(* Steps that leave the tables alone. *)
LEMMA TablesKept ==
  ASSUME TypeOK, UNCHANGED tables
  PROVE  Grown /\ DealersOK' /\ OffersOK' /\ ConfigOK'
  BY DEF TypeOK, tables, Grown, DealersOK, OffersOK, ConfigOK, Rows,
         ConfigRow, FeaturesOf, Clash

\* Refusing a batch writes nothing but the answer.
LEMMA RefusalTyped ==
  ASSUME TypeOK, NEW w \in Workers, NEW a, Answer(w, a), UNCHANGED tables
  PROVE  TypeOK'
  <1>1. RequestsOK'
    BY TablesKept, AnswerTyped, TypeParts
  <1>2. QED
    BY <1>1, TablesKept, TypeAgain

LEMMA RequestTyped ==
  ASSUME TypeOK, NEW w \in Workers, NEW r, RequestOK(r),
         req' = [req EXCEPT ![w] = r], UNCHANGED tables
  PROVE  TypeOK'
  <1>1. RequestOK(r)'
    BY TablesKept, RequestStays
  <1>2. RequestsOK'
    BY <1>1, TablesKept, RequestSet, TypeParts
  <1>3. QED
    BY <1>2, TablesKept, TypeAgain

LEMMA BeginTyped ==
  ASSUME TypeOK, NEW w \in Workers,
         \/ \E b \in DealerBatches : Begin(w, "dealers", b)
         \/ \E b \in OfferBatches : Begin(w, "offers", b)
         \/ \E l \in Links : Begin(w, "config", <<l>>)
  PROVE  TypeOK'
  <1>1. ASSUME NEW kind, NEW input, Begin(w, kind, input),
               RequestOK([kind |-> kind, input |-> input, found |-> <<>>])
        PROVE  TypeOK'
    <2>1. /\ req' = [req EXCEPT ![w] = [kind |-> kind, input |-> input, found |-> <<>>]]
          /\ UNCHANGED tables
      BY <1>1 DEF Begin
    <2>2. QED
      BY <1>1, <2>1, RequestTyped
  <1>2. ASSUME NEW b \in DealerBatches, Begin(w, "dealers", b) PROVE TypeOK'
    <2>1. RequestOK([kind |-> "dealers", input |-> b, found |-> <<>>])
      BY BatchesAssumption DEF RequestOK
    <2>2. QED
      BY <1>1, <1>2, <2>1
  <1>3. ASSUME NEW b \in OfferBatches, Begin(w, "offers", b) PROVE TypeOK'
    <2>1. RequestOK([kind |-> "offers", input |-> b, found |-> <<>>])
      BY BatchesAssumption DEF RequestOK
    <2>2. QED
      BY <1>1, <1>3, <2>1
  <1>4. ASSUME NEW l \in Links, Begin(w, "config", <<l>>) PROVE TypeOK'
    <2>1. RequestOK([kind |-> "config", input |-> <<l>>, found |-> <<>>])
      BY DEF RequestOK
    <2>2. QED
      BY <1>1, <1>4, <2>1
  <1>5. QED
    BY <1>2, <1>3, <1>4

(* A look-up appends what it found. *)
LEMMA FindTyped ==
  ASSUME TypeOK, NEW w \in Workers, FindDealer(w) \/ FindOffer(w)
  PROVE  TypeOK'
  <1> PICK r : r = req[w]
    OBVIOUS
  <1>1. RequestOK(r)
    BY DEF TypeOK
  <1>2. ASSUME NEW row, NEW kind, Find(w, kind, row),
               RequestOK([kind |-> kind, input |-> r.input, found |-> Append(r.found, row)])
        PROVE  TypeOK'
    <2> DEFINE q == [kind |-> kind, input |-> r.input, found |-> Append(r.found, row)]
    <2>1. r.kind = kind /\ req' = [req EXCEPT ![w].found = Append(@, row)] /\ UNCHANGED tables
      BY <1>2 DEF Find
    <2>2. r = [kind |-> kind, input |-> r.input, found |-> r.found]
      BY <1>1, <2>1 DEF RequestOK
    <2>3. [r EXCEPT !.found = Append(@, row)] = q
      BY <2>2
    <2>4. req' = [req EXCEPT ![w] = q]
      BY <2>1, <2>3
    <2>5. QED
      BY <1>2, <2>1, <2>4, RequestTyped
  <1>3. CASE FindDealer(w)
    <2>1. PICK row : Find(w, "dealers", row) /\ row \in Ids \cup {None}
      BY <1>3 DEF FindDealer, Rows
    <2>2. r.kind = "dealers" /\ Len(r.found) < Len(r.input)
      BY <2>1 DEF Find
    <2>3. r.input \in Seq(Keys) /\ r.found \in Seq(Ids \cup {None})
      BY <1>1, <2>2 DEF RequestOK
    <2>4. Append(r.found, row) \in Seq(Ids \cup {None}) /\ Len(Append(r.found, row)) <= Len(r.input)
      BY <2>1, <2>2, <2>3
    <2>5. RequestOK([kind |-> "dealers", input |-> r.input, found |-> Append(r.found, row)])
      BY <2>3, <2>4 DEF RequestOK
    <2>6. QED
      BY <1>2, <2>1, <2>5
  <1>4. CASE FindOffer(w)
    <2> DEFINE n == Len(r.found) + 1
    <2>1. Find(w, "offers", offer[r.input[n].key])
      BY <1>4 DEF FindOffer, Item
    <2>2. r.kind = "offers" /\ Len(r.found) < Len(r.input)
      BY <2>1 DEF Find
    <2>3. /\ r.input \in Seq(OfferItem) /\ r.found \in Seq(OfferRow \cup {Absent})
          /\ \A i \in DOMAIN r.found : r.found[i] # Absent => offer[r.input[i].key] # Absent
      BY <1>1, <2>2 DEF RequestOK
    <2>4. n \in 1 .. Len(r.input)
      BY <2>2, <2>3
    <2>5. r.input[n] \in OfferItem
      BY <2>3, <2>4
    <2>6. offer[r.input[n].key] \in OfferRow \cup {Absent}
      BY <2>5 DEF TypeOK, OfferItem
    <2>7. PICK row : row = offer[r.input[n].key]
      OBVIOUS
    <2>8. Append(r.found, row) \in Seq(OfferRow \cup {Absent}) /\ Len(Append(r.found, row)) <= Len(r.input)
      BY <2>2, <2>3, <2>6, <2>7
    <2>9. ASSUME NEW i \in DOMAIN Append(r.found, row), Append(r.found, row)[i] # Absent
          PROVE  offer[r.input[i].key] # Absent
      <3>1. \/ i \in DOMAIN r.found /\ Append(r.found, row)[i] = r.found[i]
            \/ i = n /\ Append(r.found, row)[i] = row
        <4>1. r.found \in Seq(OfferRow \cup {Absent}) /\ i \in 1 .. n
          BY <2>3, <2>6, <2>7, <2>9
        <4>2. QED
          BY <4>1
      <3>2. QED
        BY <2>3, <2>7, <2>9, <3>1
    <2>10. RequestOK([kind |-> "offers", input |-> r.input, found |-> Append(r.found, row)])
      BY <2>3, <2>8, <2>9 DEF RequestOK
    <2>11. QED
      BY <1>2, <2>1, <2>7, <2>10
  <1>5. QED
    BY <1>3, <1>4

-----------------------------------------------------------------------------
(* Dealer rows.                                                            *)

LEMMA ConfigKept ==
  ASSUME ConfigOK, UNCHANGED <<config, raced>>
  PROVE  ConfigOK'
  BY DEF ConfigOK, ConfigRow, FeaturesOf, Clash

LEMMA RequestsKept ==
  ASSUME RequestsOK, Grown, UNCHANGED req
  PROVE  RequestsOK'
  <1>1. ASSUME NEW w \in Workers PROVE RequestOK(req[w])'
    <2>1. PICK r : r = req[w]
      OBVIOUS
    <2>2. RequestOK(r)'
      BY <2>1, RequestStays DEF RequestsOK
    <2>3. QED
      BY <2>1, <2>2
  <1>2. QED
    BY <1>1 DEF RequestsOK

LEMMA CreateTyped ==
  ASSUME TypeOK, NEW key \in Keys, CreateDealer(key)
  PROVE  TypeOK'
  <1>1. /\ issued \in Nat /\ issued + 1 \in Ids /\ issued + 1 \notin Rows
        /\ Rows \subseteq 1 .. issued /\ dealer \in [Ids -> Keys \cup {Absent}]
    BY CataloguesAssumption DEF TypeOK, CreateDealer, Ids
  <1>2. Rows' = Rows \cup {issued + 1}
    BY <1>1, AbsentAssumption DEF CreateDealer, Rows
  <1>3. \A i \in Rows : dealer'[i] = dealer[i]
    BY <1>1 DEF CreateDealer, Rows
  <1>4. dealer'[issued + 1] = key
    BY <1>1 DEF CreateDealer
  <1>5. DealersOK'
    <2>1. issued' \in 0 .. MaxDealers
      BY <1>1, CataloguesAssumption DEF CreateDealer
    <2>2. dealer' \in [Ids -> Keys \cup {Absent}]
      BY <1>1 DEF CreateDealer
    <2>3. Rows' \subseteq 1 .. issued'
      BY <1>1, <1>2 DEF CreateDealer
    <2>4. \A i, j \in Rows' : dealer'[i] = dealer'[j] => i = j
      BY <1>2, <1>3, <1>4 DEF TypeOK, CreateDealer
    <2>5. QED
      BY <2>1, <2>2, <2>3, <2>4 DEF DealersOK
  <1>6. OffersOK'
    BY <1>2 DEF TypeOK, OffersOK, CreateDealer
  <1>7. ConfigOK' /\ RequestsOK'
    BY TypeParts, ConfigKept, RequestsKept DEF CreateDealer, Grown
  <1>8. QED
    BY <1>5, <1>6, <1>7, TypeAgain

LEMMA PatchTyped ==
  ASSUME TypeOK, NEW d \in Ids, NEW key \in Keys, PatchDealer(d, key)
  PROVE  TypeOK'
  <1>1. d \in Rows /\ Rows \subseteq Ids /\ dealer \in [Ids -> Keys \cup {Absent}]
    BY DEF TypeOK, PatchDealer, Rows
  <1>2. \A i \in Ids : dealer'[i] = IF i = d THEN key ELSE dealer[i]
    BY <1>1 DEF PatchDealer
  <1>3. Rows' = Rows
    BY <1>1, <1>2, AbsentAssumption DEF Rows
  <1>4. DealersOK'
    <2>1. dealer' \in [Ids -> Keys \cup {Absent}]
      BY <1>1 DEF PatchDealer
    <2>2. \A i, j \in Rows' : dealer'[i] = dealer'[j] => i = j
      BY <1>1, <1>2, <1>3 DEF TypeOK, PatchDealer
    <2>3. QED
      BY <1>3, <2>1, <2>2 DEF DealersOK, TypeOK, PatchDealer
  <1>5. OffersOK'
    BY <1>3 DEF TypeOK, OffersOK, PatchDealer
  <1>6. ConfigOK' /\ RequestsOK'
    BY TypeParts, ConfigKept, RequestsKept DEF PatchDealer, Grown
  <1>7. QED
    BY <1>4, <1>5, <1>6, TypeAgain

\* The market offers of a deleted dealer stay without one, so that no offer
\* refers to a dealer that is not there.
LEMMA DeleteTyped ==
  ASSUME TypeOK, NEW d \in Ids, DeleteDealer(d)
  PROVE  TypeOK'
  <1>1. d \in Rows /\ Rows \subseteq Ids /\ dealer \in [Ids -> Keys \cup {Absent}]
    BY DEF TypeOK, DeleteDealer, Rows
  <1>2. \A i \in Ids : dealer'[i] = IF i = d THEN Absent ELSE dealer[i]
    BY <1>1 DEF DeleteDealer
  <1>3. Rows' = Rows \ {d}
    BY <1>1, <1>2 DEF Rows
  <1>4. DealersOK'
    <2>1. dealer' \in [Ids -> Keys \cup {Absent}]
      BY <1>1 DEF DeleteDealer
    <2>2. \A i, j \in Rows' : dealer'[i] = dealer'[j] => i = j
      BY <1>1, <1>2, <1>3 DEF TypeOK
    <2>3. QED
      BY <1>3, <2>1, <2>2 DEF DealersOK, TypeOK, DeleteDealer
  <1>5. \A k \in OfferKeys :
          /\ offer'[k] \in OfferRow \cup {Absent}
          /\ offer'[k] = Absent <=> offer[k] = Absent
          /\ offer'[k] # Absent => offer'[k].dealer \in Rows' \cup {None}
    <2> TAKE k \in OfferKeys
    <2>1. CASE offer[k] = Absent
      BY <2>1 DEF DeleteDealer
    <2>2. CASE offer[k] # Absent
      <3>1. offer[k] \in OfferRow /\ offer[k].dealer \in Rows \cup {None}
        BY <2>2 DEF TypeOK
      <3>2. offer'[k] = IF offer[k].dealer = d THEN [offer[k] EXCEPT !.dealer = None] ELSE offer[k]
        BY <2>2 DEF DeleteDealer
      <3>3. /\ offer'[k] \in OfferRow
            /\ offer'[k].dealer = IF offer[k].dealer = d THEN None ELSE offer[k].dealer
        BY <3>1, <3>2 DEF OfferRow
      <3>4. QED
        BY <1>3, <2>2, <3>1, <3>3, AbsentAssumption
    <2>3. QED
      BY <2>1, <2>2
  <1>6. OffersOK' /\ Grown
    BY <1>5 DEF OffersOK, DeleteDealer, Grown
  <1>7. ConfigOK' /\ RequestsOK'
    BY <1>6, TypeParts, ConfigKept, RequestsKept DEF DeleteDealer
  <1>8. QED
    BY <1>4, <1>6, <1>7, TypeAgain

LEMMA ResetTyped ==
  ASSUME TypeOK, ResetAll
  PROVE  TypeOK'
  <1>1. Rows' = {}
    BY DEF ResetAll, Rows
  <1>2. DealersOK'
    BY <1>1 DEF TypeOK, DealersOK, ResetAll
  <1>3. \A k \in OfferKeys :
          /\ offer'[k] \in OfferRow \cup {Absent}
          /\ offer'[k] = Absent <=> offer[k] = Absent
          /\ offer'[k] # Absent => offer'[k].dealer = None
    <2> TAKE k \in OfferKeys
    <2>1. CASE offer[k] = Absent
      BY <2>1 DEF ResetAll
    <2>2. CASE offer[k] # Absent
      <3>1. offer[k] \in OfferRow
        BY <2>2 DEF TypeOK
      <3>2. offer'[k] = [offer[k] EXCEPT !.dealer = None]
        BY <2>2 DEF ResetAll
      <3>3. offer'[k] \in OfferRow /\ offer'[k].dealer = None
        BY <3>1, <3>2 DEF OfferRow
      <3>4. QED
        BY <2>2, <3>3, AbsentAssumption
    <2>3. QED
      BY <2>1, <2>2
  <1>4. OffersOK' /\ Grown
    BY <1>3 DEF OffersOK, ResetAll, Grown
  <1>5. ConfigOK' /\ RequestsOK'
    BY <1>4, TypeParts, ConfigKept, RequestsKept DEF ResetAll
  <1>6. QED
    BY <1>2, <1>4, <1>5, TypeAgain

(* The items of a batch that insert a row, and the dealers after it. *)
LEMMA AddedItems ==
  ASSUME TypeOK, NEW w \in Workers, NEW r, r = req[w], Ready(w, "dealers"), DealersAccepted(r)
  PROVE  /\ r.input \in Seq(Keys) /\ r.found \in Seq(Ids \cup {None})
         /\ Len(r.found) = Len(r.input)
         /\ Added(r) \subseteq 1 .. Len(r.input)
         /\ \A i, j \in Added(r) : r.input[i] = r.input[j] => i = j
         /\ \A i \in Added(r) : \A d \in Rows : dealer[d] # r.input[i]
  <1>1. RequestOK(r) /\ r.kind = "dealers" /\ Len(r.found) = Len(r.input)
    BY DEF TypeOK, Ready
  <1>2. r.input \in Seq(Keys) /\ r.found \in Seq(Ids \cup {None})
    BY <1>1 DEF RequestOK
  <1>3. Added(r) \subseteq 1 .. Len(r.input)
    BY <1>2 DEF Added
  <1>4. ASSUME NEW i \in Added(r), NEW j \in Added(r), r.input[i] = r.input[j], i < j
        PROVE  FALSE
    <2>1. i \in 1 .. (j - 1)
      BY <1>2, <1>3, <1>4
    <2>2. i \in Earlier(r, j)
      BY <1>4, <2>1 DEF Earlier
    <2>3. QED
      BY <2>2 DEF Added
  <1>5. ASSUME NEW i \in Added(r), NEW j \in Added(r), r.input[i] = r.input[j]
        PROVE  i = j
    <2>1. i \in Nat /\ j \in Nat
      BY <1>2, <1>3
    <2>2. ~ (i < j) /\ ~ (j < i)
      BY <1>4, <1>5
    <2>3. QED
      BY <2>1, <2>2
  <1>6. \A i \in Added(r) : \A d \in Rows : dealer[d] # r.input[i]
    BY DEF DealersAccepted
  <1>7. QED
    BY <1>1, <1>2, <1>3, <1>5, <1>6

(* The rows after a batch: those before it, as they were, and one for each *)
(* new item.                                                               *)
LEMMA InsertedRows ==
  ASSUME TypeOK, NEW w \in Workers, NEW r, r = req[w], StoreDealers(w)
  PROVE  /\ Rows' = Rows \cup ((issued + 1) .. (issued + Cardinality(Added(r))))
         /\ Cardinality(Added(r)) \in Nat /\ issued \in Nat
         /\ issued + Cardinality(Added(r)) <= MaxDealers
         /\ \A d \in Rows : dealer'[d] = dealer[d]
         /\ \A i \in Added(r) : /\ NewId(Added(r), i) \in Rows'
                                /\ dealer'[NewId(Added(r), i)] = r.input[i]
         /\ \A d \in Rows' \ Rows : \E i \in Added(r) : d = NewId(Added(r), i)
         /\ dealer' \in [Ids -> Keys \cup {Absent}]
  <1> DEFINE new == Added(r)
             n == Len(r.input)
             T == (issued + 1) .. (issued + Cardinality(new))
  <1>1. /\ Ready(w, "dealers") /\ DealersAccepted(r) /\ dealer' = Inserted(r, new)
        /\ issued + Cardinality(new) <= MaxDealers
    BY DEF StoreDealers
  <1>2. r.input \in Seq(Keys) /\ new \subseteq 1 .. n /\ n \in Nat
    BY <1>1, AddedItems
  <1>3. /\ issued \in Nat /\ Rows \subseteq 1 .. issued /\ Rows \subseteq Ids
        /\ dealer \in [Ids -> Keys \cup {Absent}] /\ MaxDealers \in Nat
    BY CataloguesAssumption DEF TypeOK, Rows
  <1>4. Cardinality(new) \in Nat
    BY <1>2, PlacesFinite
  <1>5. /\ \A i \in new : NewId(new, i) \in T
        /\ \A i \in new : (CHOOSE k \in new : NewId(new, k) = NewId(new, i)) = i
    BY <1>2, <1>3, IdsAreNew
  <1>6. ASSUME NEW d \in T PROVE \E i \in new : NewId(new, i) = d
    <2>1. d \in (issued + 1) .. (issued + Cardinality(new)) /\ new \in SUBSET (1 .. n)
      BY <1>2
    <2> HIDE DEF T, new, n, NewId
    <2>2. QED
      BY <1>2, <1>3, <2>1, IdsAreUsed
  <1>7. T \subseteq Ids /\ T \cap Rows = {}
    BY <1>1, <1>3, <1>4 DEF Ids
  <1>8. \A i \in new : r.input[i] \in Keys
    BY <1>2
  <1> HIDE DEF T, new, n, NewId
  <1>9. \A d \in Ids :
          dealer'[d] = IF \E i \in new : NewId(new, i) = d
                       THEN r.input[CHOOSE i \in new : NewId(new, i) = d]
                       ELSE dealer[d]
    BY <1>1 DEF Inserted
  <1>10. \A i \in new : dealer'[NewId(new, i)] = r.input[i]
    BY <1>5, <1>7, <1>9
  <1>11. \A d \in Ids \ T : dealer'[d] = dealer[d]
    BY <1>5, <1>9
  <1>12. \A d \in T : dealer'[d] \in Keys
    BY <1>6, <1>8, <1>10
  <1>13. dealer' \in [Ids -> Keys \cup {Absent}]
    <2>1. DOMAIN dealer' = Ids /\ dealer' = [d \in Ids |-> dealer'[d]]
      BY <1>1 DEF Inserted
    <2>2. \A d \in Ids : dealer'[d] \in Keys \cup {Absent}
      BY <1>3, <1>11, <1>12
    <2>3. QED
      BY <2>1, <2>2
  <1>14. Rows' = Rows \cup T
    BY <1>7, <1>11, <1>12, AbsentAssumption DEF Rows
  <1>15. \A d \in Rows : dealer'[d] = dealer[d]
    BY <1>3, <1>7, <1>11
  <1>16. QED
    BY <1>1, <1>3, <1>4, <1>5, <1>6, <1>10, <1>13, <1>14, <1>15 DEF T, new

\* A stored dealer batch updates the rows it found and adds rows under new ids.
LEMMA StoreDealersTyped ==
  ASSUME TypeOK, NEW w \in Workers, StoreDealers(w)
  PROVE  TypeOK'
  <1> PICK r : r = req[w]
    OBVIOUS
  <1> DEFINE new == Added(r)
             T == (issued + 1) .. (issued + Cardinality(new))
  <1>1. /\ Ready(w, "dealers") /\ DealersAccepted(r) /\ issued' = issued + Cardinality(new)
    BY DEF StoreDealers
  <1>2. /\ \A i, j \in new : r.input[i] = r.input[j] => i = j
        /\ \A i \in new : \A d \in Rows : dealer[d] # r.input[i]
    BY <1>1, AddedItems
  <1>3. /\ Rows' = Rows \cup T
        /\ Cardinality(new) \in Nat /\ issued \in Nat
        /\ issued + Cardinality(new) <= MaxDealers
        /\ \A d \in Rows : dealer'[d] = dealer[d]
        /\ \A i \in new : dealer'[NewId(new, i)] = r.input[i]
        /\ \A d \in Rows' \ Rows : \E i \in new : d = NewId(new, i)
        /\ dealer' \in [Ids -> Keys \cup {Absent}]
    BY InsertedRows
  <1>4. \A i, j \in Rows' : dealer'[i] = dealer'[j] => i = j
    <2> TAKE i, j \in Rows'
    <2> HAVE dealer'[i] = dealer'[j]
    <2> HIDE DEF new, T
    <2>1. CASE i \in Rows /\ j \in Rows
      BY <1>3, <2>1 DEF TypeOK
    <2>2. CASE i \notin Rows /\ j \notin Rows
      BY <1>2, <1>3, <2>2
    <2>3. CASE i \in Rows <=> j \notin Rows
      BY <1>2, <1>3, <2>3
    <2>4. QED
      BY <2>1, <2>2, <2>3
  <1>5. DealersOK'
    <2>1. Rows' \subseteq 1 .. issued' /\ issued' \in 0 .. MaxDealers
      <3>1. Rows \subseteq 1 .. issued /\ MaxDealers \in Nat
        BY CataloguesAssumption DEF TypeOK
      <3> HIDE DEF new
      <3>2. issued' \in 0 .. MaxDealers
        BY <1>1, <1>3, <3>1
      <3>3. Rows' \subseteq 1 .. issued'
        <4>1. 1 .. issued \subseteq 1 .. issued'
          BY <1>1, <1>3
        <4>2. T \subseteq 1 .. issued'
          BY <1>1, <1>3
        <4> HIDE DEF T
        <4>3. QED
          BY <1>3, <3>1, <4>1, <4>2
      <3>4. QED
        BY <3>2, <3>3
    <2>2. QED
      BY <1>3, <1>4, <2>1 DEF DealersOK
  <1>6. OffersOK'
    BY <1>3 DEF TypeOK, OffersOK, StoreDealers
  <1>7. Grown /\ ConfigOK'
    BY TypeParts, ConfigKept DEF StoreDealers, Grown
  <1>8. RequestsOK'
    <2>1. PICK a : Answer(w, a)
      BY DEF StoreDealers
    <2>2. QED
      BY <1>7, <2>1, TypeParts, AnswerTyped
  <1>9. QED
    BY <1>5, <1>6, <1>7, <1>8, TypeAgain

-----------------------------------------------------------------------------
(* Market offers.                                                          *)

(* An accepted batch of offers: its items and what was found for them. *)
LEMMA OfferBatch ==
  ASSUME TypeOK, NEW w \in Workers, NEW r, r = req[w], Ready(w, "offers")
  PROVE  /\ r.input \in Seq(OfferItem) /\ DOMAIN r.input = DOMAIN r.found
         /\ DOMAIN r.input = 1 .. Len(r.input) /\ Len(r.input) \in Nat
         /\ \A i \in DOMAIN r.input :
              /\ r.input[i] \in OfferItem
              /\ r.found[i] # Absent => offer[r.input[i].key] # Absent
  <1>1. RequestOK(r) /\ r.kind = "offers" /\ Len(r.found) = Len(r.input)
    BY DEF TypeOK, Ready
  <1>2. r.input \in Seq(OfferItem) /\ r.found \in Seq(OfferRow \cup {Absent})
    BY <1>1 DEF RequestOK
  <1>3. DOMAIN r.input = DOMAIN r.found /\ DOMAIN r.input = 1 .. Len(r.input)
    BY <1>1, <1>2
  <1>4. \A i \in DOMAIN r.input : r.input[i] \in OfferItem
    BY <1>2
  <1>5. QED
    BY <1>1, <1>2, <1>3, <1>4 DEF RequestOK

(* A row of the batch is an offer. *)
LEMMA WrittenTyped ==
  ASSUME TypeOK, NEW w \in Workers, NEW r, r = req[w], Ready(w, "offers"),
         NEW i \in DOMAIN r.input
  PROVE  Written(r, i) \in OfferRow
  <1> DEFINE S == SameKey(r, i)
             last == Content(r.input[Max(S)])
             first == r.found[Min(S)]
  <1>1. /\ r.input \in Seq(OfferItem) /\ DOMAIN r.input = 1 .. Len(r.input) /\ Len(r.input) \in Nat
        /\ DOMAIN r.input = DOMAIN r.found
        /\ \A k \in DOMAIN r.input :
             /\ r.input[k] \in OfferItem
             /\ r.found[k] # Absent => offer[r.input[k].key] # Absent
    BY OfferBatch
  <1>2. S \subseteq 0 .. Len(r.input) /\ i \in S /\ S \subseteq DOMAIN r.input
    BY <1>1 DEF SameKey
  <1>3. Max(S) \in DOMAIN r.input
    BY <1>1, <1>2, GreatestBounded
  <1>4. last \in OfferRow
    <2>1. r.input[Max(S)] \in OfferItem
      BY <1>1, <1>3
    <2>2. QED
      BY <2>1 DEF Content, OfferItem, OfferRow
  <1> HIDE DEF last, first
  <1>5. CASE i \in Created(r)
    BY <1>4, <1>5 DEF Written, last
  <1>6. CASE i \notin Created(r)
    <2>1. offer[r.input[i].key] # Absent /\ r.input[i].key \in OfferKeys
      BY <1>1, <1>6 DEF Created, OfferItem
    <2>2. offer[r.input[i].key] \in OfferRow
      BY <2>1 DEF TypeOK
    <2>3. Written(r, i) = [c \in {"price", "dealer"} |->
             IF last[c] # first[c] THEN last[c] ELSE offer[r.input[i].key][c]]
      BY <1>6 DEF Written, last, first
    <2>4. QED
      BY <1>4, <2>2, <2>3 DEF OfferRow
  <1>7. QED
    BY <1>5, <1>6

(* Offers after a batch. *)
LEMMA StoredOffers ==
  ASSUME TypeOK, NEW w \in Workers, NEW r, r = req[w], StoreOffers(w)
  PROVE  /\ DOMAIN offer' = OfferKeys
         /\ \A k \in OfferKeys :
              \/ /\ \A i \in DOMAIN r.input : r.input[i].key # k
                 /\ offer'[k] = offer[k]
              \/ \E i \in DOMAIN r.input :
                   /\ r.input[i].key = k /\ offer'[k] = Written(r, i)
                   /\ offer'[k] \in OfferRow /\ offer'[k].dealer \in Rows \cup {None}
  <1>1. /\ Ready(w, "offers") /\ OffersAccepted(r)
        /\ offer' = [k \in OfferKeys |->
             IF \E i \in DOMAIN r.input : r.input[i].key = k
             THEN Written(r, CHOOSE i \in DOMAIN r.input : r.input[i].key = k)
             ELSE offer[k]]
    BY DEF StoreOffers
  <1>2. ASSUME NEW k \in OfferKeys, \E i \in DOMAIN r.input : r.input[i].key = k
        PROVE  \E i \in DOMAIN r.input :
                 /\ r.input[i].key = k /\ offer'[k] = Written(r, i)
                 /\ offer'[k] \in OfferRow /\ offer'[k].dealer \in Rows \cup {None}
    <2>1. PICK i \in DOMAIN r.input :
            i = (CHOOSE j \in DOMAIN r.input : r.input[j].key = k) /\ r.input[i].key = k
      BY <1>2
    <2>2. offer'[k] = Written(r, i)
      BY <1>1, <1>2, <2>1
    <2>3. Written(r, i) \in OfferRow
      BY <1>1, WrittenTyped
    <2>4. Written(r, i).dealer \in Rows \cup {None}
      BY <1>1 DEF OffersAccepted
    <2>5. QED
      BY <2>1, <2>2, <2>3, <2>4
  <1>3. ASSUME NEW k \in OfferKeys, ~ \E i \in DOMAIN r.input : r.input[i].key = k
        PROVE  offer'[k] = offer[k]
    BY <1>1, <1>3
  <1>4. QED
    BY <1>1, <1>2, <1>3

LEMMA StoreOffersTyped ==
  ASSUME TypeOK, NEW w \in Workers, StoreOffers(w)
  PROVE  TypeOK'
  <1> PICK r : r = req[w]
    OBVIOUS
  <1>1. /\ DOMAIN offer' = OfferKeys
        /\ \A k \in OfferKeys :
             \/ offer'[k] = offer[k]
             \/ offer'[k] \in OfferRow /\ offer'[k].dealer \in Rows \cup {None}
    BY StoredOffers
  <1>2. Rows' = Rows
    BY DEF StoreOffers, Rows
  <1>3. offer' \in [OfferKeys -> OfferRow \cup {Absent}]
    <2>1. \A k \in OfferKeys : offer'[k] \in OfferRow \cup {Absent}
      BY <1>1 DEF TypeOK
    <2>2. offer' = [k \in OfferKeys |-> offer'[k]]
      BY DEF StoreOffers
    <2>3. QED
      BY <2>1, <2>2
  <1>4. OffersOK'
    BY <1>1, <1>2, <1>3 DEF TypeOK, OffersOK
  <1>5. Grown
    BY <1>1, AbsentAssumption DEF Grown, StoreOffers
  <1>6. DealersOK' /\ ConfigOK'
    <2>1. DealersOK'
      BY <1>2 DEF TypeOK, DealersOK, StoreOffers
    <2>2. QED
      BY <2>1, TypeParts, ConfigKept DEF StoreOffers
  <1>7. RequestsOK'
    <2>1. PICK a : Answer(w, a)
      BY DEF StoreOffers
    <2>2. QED
      BY <1>5, <2>1, TypeParts, AnswerTyped
  <1>8. QED
    BY <1>4, <1>6, <1>7, TypeAgain

-----------------------------------------------------------------------------
(* Vehicle configurations.                                                 *)

LEMMA ColumnsTyped ==
  ASSUME NEW l \in Links
  PROVE  [cols |-> ColumnsOf(l), features |-> FeaturesOf(l)] \in ConfigRow
  BY DEF ColumnsOf, ConfigRow

LEMMA FindConfigTyped ==
  ASSUME TypeOK, NEW w \in Workers, FindConfig(w)
  PROVE  TypeOK'
  <1> PICK r : r = req[w]
    OBVIOUS
  <1>1. /\ RequestOK(r) /\ r.kind = "config" /\ UNCHANGED tables
    BY DEF TypeOK, FindConfig
  <1>2. PICK l \in Links : r.input = <<l>>
    BY <1>1 DEF RequestOK
  <1>3. CASE Cardinality(Matching(l)) > 1
    <2>1. Refuse(w)
      BY <1>2, <1>3 DEF FindConfig
    <2>2. QED
      BY <1>1, <2>1, RefusalTyped DEF Refuse
  <1>4. CASE ~ (Cardinality(Matching(l)) > 1)
    <2> DEFINE i == CHOOSE i \in Matching(l) : TRUE
               row == IF Matching(l) = {} THEN [id |-> None]
                      ELSE [id |-> i, row |-> config[i]]
               q == [kind |-> "config", input |-> <<l>>, found |-> <<row>>]
    <2>1. req' = [req EXCEPT ![w].found = <<row>>]
      BY <1>2, <1>4 DEF FindConfig
    <2> HIDE DEF row
    <2>2. [r EXCEPT !.found = <<row>>] = q
      <3>1. r = [kind |-> "config", input |-> <<l>>, found |-> r.found]
        BY <1>1, <1>2 DEF RequestOK
      <3>2. QED
        BY <3>1
    <2>3. req' = [req EXCEPT ![w] = q]
      BY <2>1, <2>2
    <2>4. RequestOK(q)
      <3>1. CASE Matching(l) = {}
        <4>1. row = [id |-> None]
          BY <3>1 DEF row
        <4>2. QED
          BY <4>1 DEF RequestOK
      <3>2. CASE Matching(l) # {}
        <4>1. i \in DOMAIN config
          BY <3>2 DEF Matching
        <4>2. config[i] \in ConfigRow
          BY <4>1 DEF TypeOK
        <4>3. row \in [id : DOMAIN config, row : ConfigRow]
          BY <3>2, <4>1, <4>2 DEF row
        <4>4. <<row>> \in Seq([id : DOMAIN config, row : ConfigRow])
          BY <4>3
        <4>5. QED
          BY <4>4 DEF RequestOK
      <3>3. QED
        BY <3>1, <3>2
    <2>5. PICK p : p = q
      OBVIOUS
    <2>6. QED
      BY <1>1, <2>3, <2>4, <2>5, RequestTyped
  <1>5. QED
    BY <1>3, <1>4

(* A sequence of length one. *)
LEMMA Single ==
  ASSUME NEW s, Len(s) = 1
  PROVE  s # <<>> /\ \A S : s \in Seq(S) => s[1] \in S
  <1>1. Len(<<>>) = 0
    OBVIOUS
  <1>2. s # <<>>
    BY <1>1
  <1>3. ASSUME NEW S, s \in Seq(S) PROVE s[1] \in S
    <2>1. s \in [1 .. 1 -> S]
      BY SMTT(20), <1>3
    <2>2. QED
      BY <2>1
  <1>4. QED
    BY <1>2, <1>3

(* What a configuration import read. *)
LEMMA ConfigRead ==
  ASSUME TypeOK, NEW w \in Workers, NEW r, r = req[w], Ready(w, "config")
  PROVE  \E l \in Links :
           /\ r.input[1] = l
           /\ \/ r.found[1].id = None
              \/ /\ r.found[1].id \in DOMAIN config /\ r.found[1].id # None
                 /\ r.found[1].row \in ConfigRow
  <1>1. RequestOK(r) /\ r.kind = "config" /\ Len(r.found) = Len(r.input)
    BY DEF TypeOK, Ready
  <1>2. PICK l \in Links : r.input = <<l>>
    BY <1>1 DEF RequestOK
  <1>3. Len(r.found) = 1 /\ r.found # <<>>
    <2>1. Len(<<l>>) = 1
      OBVIOUS
    <2>2. Len(r.found) = 1
      BY <1>1, <1>2, <2>1
    <2>3. QED
      BY <2>2, Single
  <1>4. CASE r.found = <<[id |-> None]>>
    BY <1>2, <1>4
  <1>5. CASE r.found \in Seq([id : DOMAIN config, row : ConfigRow])
    <2>1. r.found[1] \in [id : DOMAIN config, row : ConfigRow]
      BY <1>3, <1>5, Single
    <2>2. DOMAIN config \subseteq Nat
      BY DEF TypeOK
    <2>3. QED
      BY <1>2, <2>1, <2>2, CataloguesAssumption
  <1>6. QED
    BY <1>1, <1>3, <1>4, <1>5 DEF RequestOK

\* What an upsert leaves of a configuration row is a row.
LEMMA RowAfterTyped ==
  ASSUME TypeOK, NEW w \in Workers, NEW r, r = req[w], Ready(w, "config")
  PROVE  RowAfter(r) \in ConfigRow
  <1>1. PICK l \in Links :
           /\ r.input[1] = l
           /\ \/ r.found[1].id = None
              \/ /\ r.found[1].id \in DOMAIN config /\ r.found[1].id # None
                 /\ r.found[1].row \in ConfigRow
    BY ConfigRead
  <1>2. CASE r.found[1].id = None
    BY <1>1, <1>2, ColumnsTyped DEF RowAfter
  <1>3. CASE r.found[1].id # None
    <2> DEFINE now == config[r.found[1].id]
               read == r.found[1].row
               cols == [c \in Columns |->
                          IF ColumnsOf(l)[c] # read.cols[c] THEN ColumnsOf(l)[c] ELSE now.cols[c]]
    <2>1. now \in ConfigRow
      BY <1>1, <1>3 DEF TypeOK
    <2>2. RowAfter(r) = [cols |-> cols,
                         features |-> (now.features \ read.features) \cup FeaturesOf(l)]
      BY <1>1, <1>3 DEF RowAfter
    <2>3. cols \in [url : {k.url : k \in Links}, cfg : {k.cfg : k \in Links},
                    date : {k.date : k \in Links}, link : Links]
      BY <1>1, <2>1 DEF Columns, ColumnsOf, ConfigRow
    <2>4. (now.features \ read.features) \cup FeaturesOf(l) \in SUBSET UNION {FeaturesOf(k) : k \in Links}
      <3>1. FeaturesOf(l) \in {FeaturesOf(k) : k \in Links}
        BY <1>1
      <3>2. now.features \subseteq UNION {FeaturesOf(k) : k \in Links}
        BY <2>1 DEF ConfigRow
      <3>3. QED
        BY <3>1, <3>2
    <2> HIDE DEF now, cols, read
    <2>5. QED
      BY <2>2, <2>3, <2>4 DEF ConfigRow
  <1>4. QED
    BY <1>2, <1>3

(* Storing a configuration keeps the two unique constraints. *)
LEMMA StoreConfigTyped ==
  ASSUME TypeOK, NEW w \in Workers, StoreConfig(w)
  PROVE  TypeOK'
  <1> PICK r : r = req[w]
    OBVIOUS
  <1> DEFINE id == r.found[1].id
             now == RowAfter(r)
  <1>1. /\ Ready(w, "config") /\ ConfigAccepted(r)
        /\ IF id = None
           THEN Len(config) < MaxRows /\ config' = Append(config, now)
           ELSE config' = [config EXCEPT ![id] = now]
        /\ raced' = IF id # None /\ config[id] # r.found[1].row THEN raced \cup {id}
                                                               ELSE raced
        /\ UNCHANGED <<dealer, issued, offer, mix>>
    BY DEF StoreConfig
  <1>2. now \in ConfigRow
    BY <1>1, RowAfterTyped
  <1>3. id = None \/ (id \in DOMAIN config /\ id # None)
    <2>1. PICK l \in Links :
            \/ r.found[1].id = None
            \/ /\ r.found[1].id \in DOMAIN config /\ r.found[1].id # None
               /\ r.found[1].row \in ConfigRow
      BY <1>1, ConfigRead
    <2>2. QED
      BY <2>1
  <1>4. /\ config \in Seq(ConfigRow) /\ Len(config) <= MaxRows /\ raced \subseteq DOMAIN config
        /\ \A i, j \in DOMAIN config : Clash(config[i].cols, config[j].cols) => i = j
        /\ MaxRows \in Nat /\ None \notin Nat
    BY CataloguesAssumption DEF TypeOK
  <1>5. \A i \in DOMAIN config \ {id} :
          ~ Clash(now.cols, config[i].cols) /\ ~ Clash(config[i].cols, now.cols)
    BY <1>1 DEF ConfigAccepted, Clash
  <1>6. ConfigRow' = ConfigRow
    BY DEF ConfigRow, FeaturesOf
  <1> HIDE DEF now, id
  <1>7. ASSUME id = None
        PROVE  ConfigOK' /\ DOMAIN config \subseteq DOMAIN config'
    <2> DEFINE n == Len(config) + 1
    <2>1. /\ config' \in Seq(ConfigRow) /\ Len(config') = n /\ n <= MaxRows
          /\ DOMAIN config' = DOMAIN config \cup {n} /\ n \notin DOMAIN config
          /\ config'[n] = now
          /\ \A i \in DOMAIN config : config'[i] = config[i]
      BY <1>1, <1>2, <1>4, <1>7
    <2>2. id \notin DOMAIN config
      BY <1>4, <1>7
    <2>3. raced' = raced
      BY <1>1, <1>7 DEF id
    <2>4. \A i, j \in DOMAIN config' : Clash(config'[i].cols, config'[j].cols) => i = j
      BY <1>4, <1>5, <2>1, <2>2
    <2>5. ConfigOK'
      BY <1>4, <1>6, <2>1, <2>3, <2>4 DEF ConfigOK, Clash
    <2>6. QED
      BY <2>1, <2>5
  <1>8. ASSUME id # None
        PROVE  ConfigOK' /\ DOMAIN config \subseteq DOMAIN config'
    <2>1. /\ config' \in Seq(ConfigRow) /\ Len(config') = Len(config)
          /\ DOMAIN config' = DOMAIN config
          /\ config'[id] = now
          /\ \A i \in DOMAIN config \ {id} : config'[i] = config[i]
      BY <1>1, <1>2, <1>3, <1>4, <1>8
    <2>2. raced' \subseteq DOMAIN config
      BY <1>1, <1>3, <1>4, <1>8 DEF id
    <2>3. \A i, j \in DOMAIN config' : Clash(config'[i].cols, config'[j].cols) => i = j
      BY <1>3, <1>4, <1>5, <1>8, <2>1
    <2>4. ConfigOK'
      BY <1>4, <1>6, <2>1, <2>2, <2>3 DEF ConfigOK, Clash
    <2>5. QED
      BY <2>1, <2>4
  <1>9. ConfigOK' /\ DOMAIN config \subseteq DOMAIN config'
    BY <1>7, <1>8
  <1>10. DealersOK' /\ OffersOK' /\ Grown
    BY <1>1, <1>9 DEF TypeOK, DealersOK, OffersOK, Rows, Grown
  <1>11. RequestsOK'
    <2>1. PICK a : Answer(w, a)
      BY DEF StoreConfig
    <2>2. QED
      BY <1>10, <2>1, TypeParts, AnswerTyped
  <1>12. QED
    BY <1>9, <1>10, <1>11, TypeAgain

-----------------------------------------------------------------------------
(* The tables are what they are declared to be: ids are never given twice  *)
(* and never beyond those issued, keys, offers and the two unique columns  *)
(* of a configuration stay unique, and an offer's dealer is there.         *)

\* Type correctness: the initial state and every step.
LEMMA InitTyped ==
  ASSUME Init
  PROVE  TypeOK
  <1>1. Rows = {} /\ issued \in 0 .. MaxDealers
    BY CataloguesAssumption DEF Init, Rows
  <1>2. config \in Seq(ConfigRow) /\ Len(config) <= MaxRows /\ DOMAIN config = {}
    BY CataloguesAssumption DEF Init
  <1>3. RequestOK(Idle)
    BY DEF RequestOK, Idle
  <1>4. QED
    BY <1>1, <1>2, <1>3 DEF Init, TypeOK

LEMMA StepTyped ==
  ASSUME TypeOK, [Next]_vars
  PROVE  TypeOK'
  <1>1. CASE UNCHANGED vars
    BY ZenonT(20), <1>1 DEF vars, TypeOK, Rows, ConfigRow, FeaturesOf, Clash, RequestOK
  <1>2. ASSUME NEW w \in Workers,
               \/ \E b \in DealerBatches : Begin(w, "dealers", b)
               \/ \E b \in OfferBatches : Begin(w, "offers", b)
               \/ \E l \in Links : Begin(w, "config", <<l>>)
        PROVE  TypeOK'
    BY <1>2, BeginTyped
  <1>3. ASSUME NEW w \in Workers, FindDealer(w) \/ FindOffer(w)
        PROVE  TypeOK'
    BY <1>3, FindTyped
  <1>4. ASSUME NEW w \in Workers,
               DealersRefused(w) \/ OffersRefused(w) \/ ConfigRefused(w) \/ Abort(w)
        PROVE  TypeOK'
    <2>1. PICK a : Answer(w, a) /\ UNCHANGED tables
      BY <1>4 DEF DealersRefused, OffersRefused, ConfigRefused, Abort, Refuse
    <2>2. QED
      BY <2>1, RefusalTyped
  <1>5. ASSUME NEW w \in Workers, StoreDealers(w) \/ StoreOffers(w) \/ StoreConfig(w)
        PROVE  TypeOK'
    BY <1>5, StoreDealersTyped, StoreOffersTyped, StoreConfigTyped
  <1>6. ASSUME NEW w \in Workers, FindConfig(w)
        PROVE  TypeOK'
    BY <1>6, FindConfigTyped
  <1>7. ASSUME NEW key \in Keys, CreateDealer(key) \/ \E d \in Ids : PatchDealer(d, key)
        PROVE  TypeOK'
    BY <1>7, CreateTyped, PatchTyped
  <1>8. ASSUME ResetAll \/ \E d \in Ids : DeleteDealer(d)
        PROVE  TypeOK'
    BY <1>8, ResetTyped, DeleteTyped
  <1>9. QED
    BY <1>1, <1>2, <1>3, <1>4, <1>5, <1>6, <1>7, <1>8 DEF Next

\* The dealer and offer rows, the configurations and what the import requests
\* hold are well typed; the market offers and configurations a request found
\* are still there.
THEOREM TypesCorrect == Spec => []TypeOK
  <1>1. Init => TypeOK
    BY InitTyped
  <1>2. TypeOK /\ [Next]_vars => TypeOK'
    BY StepTyped
  <1>3. QED
    BY <1>1, <1>2, PTL DEF Spec

-----------------------------------------------------------------------------
(* The answers of imports.                                                 *)

(* Only the step that stores a batch answers it with its numbers. *)
LEMMA AnsweredByItsStep ==
  ASSUME TypeOK, [Next]_vars, NEW w \in Workers, NEW kind \in {"dealers", "offers"},
         Answered(w, kind)
  PROVE  \/ kind = "dealers" /\ StoreDealers(w)
         \/ kind = "offers" /\ StoreOffers(w)
  <1>1. /\ req[w].kind = kind /\ req'[w].kind = "idle" /\ req'[w] # req[w]
        /\ answer'.status = "stored" /\ DOMAIN req = Workers
    BY DEF Answered, Idle, TypeOK
  <1>2. answer' # NoAnswer /\ answer' # [NoAnswer EXCEPT !.status = "refused"]
    BY <1>1 DEF NoAnswer
  <1>3. PICK v \in Workers : StoreDealers(v) \/ StoreOffers(v) \/ StoreConfig(v)
    <2>1. ~ UNCHANGED req
      BY <1>1
    <2>2. QED
      BY <1>2, <2>1 DEF Next, vars, Begin, Find, FindDealer, FindOffer, FindConfig,
           DealersRefused, OffersRefused, ConfigRefused, Abort, Refuse, Answer,
           CreateDealer, PatchDealer, DeleteDealer, ResetAll
  <1>4. req' = [req EXCEPT ![v] = Idle]
    BY <1>3 DEF StoreDealers, StoreOffers, StoreConfig, Answer
  <1>5. v = w
    BY <1>1, <1>4
  <1>6. QED
    BY <1>1, <1>3, <1>5 DEF StoreDealers, StoreOffers, StoreConfig, Ready

\* The counts of a dealer batch add up to its items.
LEMMA DealerCounts ==
  ASSUME TypeOK, NEW w \in Workers, StoreDealers(w)
  PROVE  /\ answer'.created + answer'.updated = Len(req[w].input)
         /\ answer'.created = Cardinality(Rows') - Cardinality(Rows)
  <1> PICK r : r = req[w]
    OBVIOUS
  <1> DEFINE c == Cardinality(Added(r))
             T == (issued + 1) .. (issued + c)
  <1>1. answer' = Stored(c, Len(r.input) - c) /\ Ready(w, "dealers") /\ DealersAccepted(r)
    BY DEF StoreDealers, Answer
  <1>2. Rows' = Rows \cup T /\ c \in Nat /\ issued \in Nat
    BY InsertedRows
  <1>3. Len(r.input) \in Nat
    BY <1>1, AddedItems
  <1>4. answer'.created = c /\ answer'.updated = Len(r.input) - c
    BY <1>1 DEF Stored
  <1>5. IsFiniteSet(Rows) /\ Cardinality(Rows) \in Nat
    <2>1. Rows \subseteq 1 .. issued
      BY DEF TypeOK
    <2>2. IsFiniteSet(1 .. issued)
      BY <1>2, FS_Interval
    <2>3. QED
      BY <2>1, <2>2, FS_Subset, FS_CardinalityType
  <1>6. IsFiniteSet(T) /\ Cardinality(T) = c
    <2>1. issued + 1 \in Int /\ issued + c \in Int
      BY <1>2
    <2>2. /\ IsFiniteSet(T)
          /\ Cardinality(T) = IF issued + 1 > issued + c THEN 0
                              ELSE (issued + c) - (issued + 1) + 1
      BY <2>1, FS_Interval
    <2> HIDE DEF c, T
    <2>3. QED
      BY <1>2, <2>2
  <1>7. Rows \cap T = {}
    <2>1. Rows \subseteq 1 .. issued
      BY DEF TypeOK
    <2> HIDE DEF c
    <2>2. QED
      BY <1>2, <2>1
  <1> HIDE DEF c, T
  <1>8. Cardinality(Rows \cup T) = Cardinality(Rows) + Cardinality(T) - Cardinality({})
    BY <1>5, <1>6, <1>7, FS_Union
  <1>9. QED
    BY <1>2, <1>3, <1>4, <1>5, <1>6, <1>8, FS_EmptySet

\* A market offer that a batch changes is one that an item of the batch was
\* counted for: the first whose content is not what the row was read as.
LEMMA ChangedIsCounted ==
  ASSUME TypeOK, NEW w \in Workers, StoreOffers(w), NEW r, r = req[w],
         NEW k \in OfferKeys, offer[k] # Absent, offer'[k] # offer[k]
  PROVE  \E i \in Updated(r) : r.input[i].key = k
  <1>1. Ready(w, "offers") /\ OffersAccepted(r)
    BY DEF StoreOffers
  <1>2. /\ DOMAIN r.input = 1 .. Len(r.input) /\ Len(r.input) \in Nat
        /\ \A i \in Created(r) : offer[r.input[i].key] = Absent
    BY <1>1, OfferBatch DEF OffersAccepted
  <1>3. PICK i \in DOMAIN r.input : r.input[i].key = k /\ offer'[k] = Written(r, i)
    BY StoredOffers
  <1> DEFINE S == SameKey(r, i)
             last == Content(r.input[Max(S)])
             first == r.found[Min(S)]
             D == {j \in S : Content(r.input[j]) # first}
             m == Min(D)
             before == {j \in S : j < m}
  <1>4. /\ S \subseteq DOMAIN r.input /\ S \subseteq 0 .. Len(r.input) /\ i \in S
        /\ \A j \in S : r.input[j].key = k /\ SameKey(r, j) = S /\ j \notin Created(r)
    BY <1>2, <1>3 DEF SameKey
  <1>5. Max(S) \in S /\ Min(S) \in S /\ \A j \in S : Min(S) <= j
    <2>1. S \in SUBSET Nat /\ S # {} /\ S \in SUBSET (0 .. Len(r.input))
      BY <1>2, <1>4
    <2> HIDE DEF S
    <2>2. QED
      BY <1>2, <2>1, LeastNatural, GreatestBounded
  <1>6. last # first
    <2>1. Written(r, i) = [c \in {"price", "dealer"} |->
             IF last[c] # first[c] THEN last[c] ELSE offer[k][c]]
      BY <1>3, <1>4 DEF Written
    <2>2. offer[k] = [c \in {"price", "dealer"} |-> offer[k][c]]
      BY DEF TypeOK, OfferRow
    <2> HIDE DEF last, first
    <2>3. QED
      BY <1>3, <2>1, <2>2
  <1>7. m \in D /\ \A j \in D : m <= j
    <2>1. D \in SUBSET Nat /\ D # {}
      BY <1>2, <1>4, <1>5, <1>6
    <2> HIDE DEF D
    <2>2. QED
      BY <2>1, LeastNatural
  <1> HIDE DEF S, m
  <1>8. Held(r, m) = first
    <2>1. Held(r, m) = IF before = {} THEN r.found[m] ELSE Content(r.input[Max(before)])
      BY <1>4, <1>7 DEF Held
    <2>2. CASE before = {}
      <3>1. m \in S /\ Min(S) \in S /\ ~ (Min(S) < m) /\ Min(S) <= m
        BY <1>5, <1>7, <2>2
      <3>2. Min(S) \in Nat /\ m \in Nat
        BY <1>2, <1>4, <3>1
      <3>3. Min(S) = m
        BY <3>1, <3>2
      <3>4. QED
        BY <2>1, <2>2, <3>3
    <2>3. CASE before # {}
      <3>1. before \in SUBSET (0 .. Len(r.input))
        BY <1>4
      <3>2. Max(before) \in before
        <4> HIDE DEF before
        <4>1. QED
          BY <1>2, <2>3, <3>1, GreatestBounded
      <3>3. Max(before) \in S /\ Max(before) < m /\ m \in Nat /\ Max(before) \in Nat
        BY <1>2, <1>4, <1>7, <3>2
      <3>4. Max(before) \notin D
        <4>1. Max(before) \in D => m <= Max(before)
          BY <1>7
        <4>2. QED
          BY <3>3, <4>1
      <3>5. QED
        BY <2>1, <2>3, <3>3, <3>4
    <2>4. QED
      BY <2>2, <2>3
  <1>9. m \in Updated(r)
    BY <1>4, <1>7, <1>8 DEF Updated
  <1>10. QED
    BY <1>4, <1>7, <1>9

\* The same for a batch of market offers.
LEMMA OfferCounts ==
  ASSUME TypeOK, NEW w \in Workers, StoreOffers(w)
  PROVE  /\ answer'.created =
              Cardinality({k \in OfferKeys : offer[k] = Absent /\ offer'[k] # Absent})
         /\ answer'.updated >=
              Cardinality({k \in OfferKeys : offer[k] # Absent /\ offer'[k] # offer[k]})
  <1> PICK r : r = req[w]
    OBVIOUS
  <1> DEFINE S == Created(r)
             T == {k \in OfferKeys : offer[k] = Absent /\ offer'[k] # Absent}
             f == [i \in S |-> r.input[i].key]
  <1>1. /\ answer' = Stored(Cardinality(S), Cardinality(Updated(r)))
        /\ Ready(w, "offers") /\ OffersAccepted(r)
    BY DEF StoreOffers, Answer
  <1>2. /\ DOMAIN r.input = 1 .. Len(r.input) /\ Len(r.input) \in Nat
        /\ \A i \in DOMAIN r.input :
             /\ r.input[i].key \in OfferKeys
             /\ r.found[i] # Absent => offer[r.input[i].key] # Absent
    BY <1>1, OfferBatch DEF OfferItem
  <1>3. \A i \in S : offer[r.input[i].key] = Absent /\ SameKey(r, i) = {i}
    BY <1>1 DEF OffersAccepted
  <1>4. \A k \in OfferKeys :
          \/ /\ \A i \in DOMAIN r.input : r.input[i].key # k
             /\ offer'[k] = offer[k]
          \/ \E i \in DOMAIN r.input : r.input[i].key = k /\ offer'[k] \in OfferRow
    BY StoredOffers
  <1>5. ASSUME NEW i \in S PROVE f[i] \in T
    <2>1. i \in DOMAIN r.input
      BY DEF Created
    <2>2. offer'[r.input[i].key] \in OfferRow
      BY <1>2, <1>4, <2>1
    <2>3. QED
      BY <1>2, <1>3, <2>1, <2>2, AbsentAssumption
  <1>6. ASSUME NEW i \in S, NEW j \in S, f[i] = f[j] PROVE i = j
    <2>1. j \in DOMAIN r.input /\ r.input[j].key = r.input[i].key
      BY <1>6 DEF Created
    <2>2. j \in SameKey(r, i)
      BY <2>1 DEF SameKey
    <2>3. QED
      BY <1>3, <2>2
  <1>7. ASSUME NEW k \in T PROVE \E i \in S : f[i] = k
    <2>1. PICK i \in DOMAIN r.input : r.input[i].key = k
      BY <1>4
    <2>2. i \in S
      BY <1>2, <2>1 DEF Created
    <2>3. QED
      BY <2>1, <2>2
  <1>8. IsFiniteSet(S)
    <2>1. S \subseteq 1 .. Len(r.input)
      BY <1>2 DEF Created
    <2> HIDE DEF S, T, f
    <2>2. PICK n : n = Len(r.input) /\ n \in Int
      BY <1>2
    <2>3. IsFiniteSet(1 .. n)
      BY <2>2, FS_Interval
    <2>4. QED
      BY <2>1, <2>2, <2>3, FS_Subset
  <1>9. Cardinality(S) = Cardinality(T)
    <2>1. f \in [S -> T] /\ DOMAIN f = S
      BY <1>5
    <2> HIDE DEF f, S, T
    <2>2. f \in Injection(S, T) /\ f \in Surjection(S, T)
      BY <1>6, <1>7, <2>1 DEF Injection, IsInjective, Surjection
    <2>3. f \in Bijection(S, T)
      BY <2>2 DEF Bijection
    <2>4. QED
      BY <1>8, <2>3, FS_Bijection DEF ExistsBijection
  <1>10. Cardinality(Updated(r)) >=
           Cardinality({k \in OfferKeys : offer[k] # Absent /\ offer'[k] # offer[k]})
    <2> DEFINE U == Updated(r)
               V == {k \in OfferKeys : offer[k] # Absent /\ offer'[k] # offer[k]}
               g == [k \in V |-> CHOOSE i \in U : r.input[i].key = k]
    <2>1. U \subseteq 1 .. Len(r.input)
      BY <1>2 DEF Updated
    <2>2. ASSUME NEW k \in V PROVE g[k] \in U /\ r.input[g[k]].key = k
      BY ChangedIsCounted
    <2> HIDE DEF U, V
    <2>3. IsFiniteSet(U)
      <3>1. IsFiniteSet(1 .. Len(r.input))
        BY <1>2, FS_Interval
      <3>2. QED
        BY <2>1, <3>1, FS_Subset
    <2>4. g \in [V -> U]
      BY <2>2
    <2>5. \A j, k \in V : g[j] = g[k] => j = k
      BY <2>2
    <2> HIDE DEF g
    <2>6. g \in Injection(V, U)
      BY <2>4, <2>5 DEF Injection, IsInjective
    <2>7. Cardinality(V) <= Cardinality(U)
      BY <2>3, <2>6, FS_Injection DEF ExistsInjection
    <2>8. Cardinality(V) \in Nat /\ Cardinality(U) \in Nat
      BY <2>3, <2>6, FS_Injection, FS_CardinalityType DEF ExistsInjection
    <2>9. QED
      BY <2>7, <2>8 DEF U, V
  <1>11. QED
    BY <1>1, <1>9, <1>10 DEF Stored

(* The numbers an import answers are true, whatever happened since it read,*)
(* for every batch.                                                        *)
THEOREM CountsTrue == Spec => CountsAreTrue
  <1>1. TypeOK /\ [Next]_vars =>
          \A w \in Workers :
            /\ Answered(w, "dealers") =>
                 /\ answer'.created + answer'.updated = Len(req[w].input)
                 /\ answer'.created = Cardinality(Rows') - Cardinality(Rows)
            /\ Answered(w, "offers") =>
                 /\ answer'.created =
                      Cardinality({k \in OfferKeys : offer[k] = Absent /\ offer'[k] # Absent})
                 /\ answer'.updated >=
                      Cardinality({k \in OfferKeys : offer[k] # Absent /\ offer'[k] # offer[k]})
    <2> SUFFICES ASSUME TypeOK, [Next]_vars, NEW w \in Workers
                 PROVE  /\ Answered(w, "dealers") =>
                             /\ answer'.created + answer'.updated = Len(req[w].input)
                             /\ answer'.created = Cardinality(Rows') - Cardinality(Rows)
                        /\ Answered(w, "offers") =>
                             /\ answer'.created =
                                  Cardinality({k \in OfferKeys :
                                                 offer[k] = Absent /\ offer'[k] # Absent})
                             /\ answer'.updated >=
                                  Cardinality({k \in OfferKeys :
                                                 offer[k] # Absent /\ offer'[k] # offer[k]})
      OBVIOUS
    <2>1. Answered(w, "dealers") => StoreDealers(w)
      BY AnsweredByItsStep
    <2>2. Answered(w, "offers") => StoreOffers(w)
      BY AnsweredByItsStep
    <2>3. QED
      BY <2>1, <2>2, DealerCounts, OfferCounts
  <1>2. QED
    BY <1>1, TypesCorrect, PTL DEF Spec, CountsAreTrue

\* Every item of a dealer batch has a row afterwards, a new one or the one that
\* was found.
LEMMA DealerBatchWhole ==
  ASSUME TypeOK, NEW w \in Workers, StoreDealers(w), NEW i \in DOMAIN req[w].input
  PROVE  \/ \E d \in Rows' : dealer'[d] = req[w].input[i]
         \/ req[w].found[i] \in Rows
  <1> PICK r : r = req[w]
    OBVIOUS
  <1> DEFINE same == {j \in 1 .. i : r.input[j] = r.input[i] /\ r.found[j] = None}
             first == Min(same)
  <1>1. Ready(w, "dealers") /\ DealersAccepted(r)
    BY DEF StoreDealers
  <1>2. /\ r.input \in Seq(Keys) /\ r.found \in Seq(Ids \cup {None})
        /\ Len(r.found) = Len(r.input)
    BY <1>1, AddedItems
  <1>3. i \in 1 .. Len(r.input) /\ Len(r.input) \in Nat /\ i \in DOMAIN r.found
        /\ DOMAIN r.input = 1 .. Len(r.input)
    BY <1>2
  <1>4. CASE r.found[i] # None
    BY <1>1, <1>3, <1>4 DEF DealersAccepted
  <1>5. CASE r.found[i] = None
    <2>1. same \in SUBSET Nat /\ i \in same
      BY <1>3, <1>5
    <2>2. first \in same /\ \A j \in same : first <= j
      BY <2>1, LeastNatural
    <2>3. first \in 1 .. i /\ r.input[first] = r.input[i] /\ r.found[first] = None
      BY <2>2
    <2>4. \A j \in Earlier(r, first) : r.found[j] # None
      <3> TAKE j \in Earlier(r, first)
      <3> HIDE DEF first
      <3>1. j \in 1 .. (first - 1) /\ r.input[j] = r.input[i]
        BY <2>3 DEF Earlier
      <3>2. j \in 1 .. i /\ ~ (first <= j)
        BY <1>3, <2>3, <3>1
      <3>3. QED
        BY <2>2, <3>1, <3>2
    <2> HIDE DEF first
    <2>5. first \in DOMAIN r.input
      BY <1>3, <2>3
    <2>6. first \in Added(r)
      BY <2>3, <2>4, <2>5 DEF Added
    <2>7. QED
      BY <2>3, <2>6, InsertedRows
  <1>6. QED
    BY <1>4, <1>5

LEMMA OfferBatchWhole ==
  ASSUME TypeOK, NEW w \in Workers, StoreOffers(w), NEW i \in DOMAIN req[w].input
  PROVE  offer'[req[w].input[i].key] # Absent
  <1> PICK r : r = req[w]
    OBVIOUS
  <1>1. r.input[i].key \in OfferKeys
    BY OfferBatch DEF StoreOffers, OfferItem
  <1>2. offer'[r.input[i].key] \in OfferRow
    BY <1>1, StoredOffers
  <1>3. QED
    BY <1>2, AbsentAssumption

(* A batch is imported as a whole, for every batch: a dealer that was there*)
(* is still there, every other item is a row now, and so is every offer.   *)
THEOREM BatchesAreWhole == Spec => BatchWhole
  <1>1. TypeOK /\ [Next]_vars =>
          \A w \in Workers :
            /\ Answered(w, "dealers") =>
                 \A i \in DOMAIN req[w].input :
                   \/ \E d \in Rows' : dealer'[d] = req[w].input[i]
                   \/ req[w].found[i] \in Rows
            /\ Answered(w, "offers") =>
                 \A i \in DOMAIN req[w].input : offer'[req[w].input[i].key] # Absent
    <2> SUFFICES ASSUME TypeOK, [Next]_vars, NEW w \in Workers
                 PROVE  /\ Answered(w, "dealers") =>
                             \A i \in DOMAIN req[w].input :
                               \/ \E d \in Rows' : dealer'[d] = req[w].input[i]
                               \/ req[w].found[i] \in Rows
                        /\ Answered(w, "offers") =>
                             \A i \in DOMAIN req[w].input :
                               offer'[req[w].input[i].key] # Absent
      OBVIOUS
    <2>1. Answered(w, "dealers") => StoreDealers(w)
      BY AnsweredByItsStep
    <2>2. Answered(w, "offers") => StoreOffers(w)
      BY AnsweredByItsStep
    <2>3. QED
      BY <2>1, <2>2, DealerBatchWhole, OfferBatchWhole
  <1>2. QED
    BY <1>1, TypesCorrect, PTL DEF Spec, BatchWhole

-----------------------------------------------------------------------------
(* What a configuration asks for and what it requires.                     *)

(* Of at most one place, the first is the last is all there is. *)
LEMMA OnePlace ==
  ASSUME NEW places \in SUBSET Int, \A i, j \in places : i = j
  PROVE  First(places) = places /\ Final(places) = places
  <1>1. \A i, j \in places : i <= j
    <2>1. \A i \in places : i <= i
      OBVIOUS
    <2>2. QED
      BY <2>1, Zenon
  <1>2. QED
    BY <1>1 DEF First, Final

(* The parser's requirements of a plain link that are named, and the model,*)
(* are what the resolver lists for the mail; the others are of a paint or  *)
(* an upholstery that it lists as unknown.                                 *)
LEMMA PlainAsked ==
  ASSUME NEW l \in Links, IsPlain(l)
  PROVE  LET stored == {f.requirement : f \in FeaturesOf(l)}
             asked == Asked(Resolved(l)) IN
         /\ asked \subseteq stored
         /\ \A r \in stored \ asked :
              /\ r.about \in {"paint", "upholstery"} /\ ~ r.named
              /\ r.code \in Resolved(l).unknown
  <1> DEFINE P == Lettered(l, "P")
             F == Lettered(l, "F")
             KP == Known(l, "P")
             KF == Known(l, "F")
             KS == Known(l, "S")
             c == l.codes
             Named(about, places) == {Requirement(about, c[i].id, TRUE) : i \in places}
             Read(about, places) == {FromCode(about, c[i]) : i \in places}
             model == Requirement("model", l.model.code, l.model.known)
  <1>1. IsLink(l)
    BY LinksAssumption
  <1>2. /\ ~ l.short /\ l.model.capitals
        /\ l.model.known \in BOOLEAN /\ l.model.capitals \in BOOLEAN
    BY <1>1 DEF IsPlain, IsLink
  <1>3. \A i \in DOMAIN c : i \in Int /\ c[i].known \in BOOLEAN
    BY <1>1 DEF IsLink, IsCode
  <1>4. /\ P \subseteq DOMAIN c /\ F \subseteq DOMAIN c /\ KS \subseteq DOMAIN c
        /\ KP = {i \in P : c[i].known} /\ KF = {i \in F : c[i].known}
        /\ \A i \in KS : c[i].known
    BY DEF Lettered, Known, Places
  <1>5. /\ \A i, j \in P : i = j
        /\ \A i, j \in F : i = j
    BY DEF IsPlain
  <1> HIDE DEF P, F, KP, KF, KS
  <1>6. First(P) = P /\ First(F) = F /\ Final(KP) = KP /\ Final(KF) = KF
    <2>1. P \in SUBSET Int /\ F \in SUBSET Int /\ KP \in SUBSET Int /\ KF \in SUBSET Int
      BY <1>3, <1>4
    <2>2. (\A i, j \in KP : i = j) /\ (\A i, j \in KF : i = j)
      BY <1>4, <1>5
    <2>3. QED
      BY <1>5, <2>1, <2>2, OnePlace
  <1>7. Asked(Resolved(l)) =
          {model} \cup Named("paint", KP) \cup Named("upholstery", KF) \cup Named("option", KS)
    <2>1. Resolved(l) =
            [model |-> l.model.code, named |-> l.model.known,
             color |-> {c[i].id : i \in KP}, interior |-> {c[i].id : i \in KF},
             options |-> {c[i].id : i \in KS},
             unknown |-> {c[i].id : i \in {j \in Places(l) : ~ c[j].known}}]
      BY <1>2, <1>6 DEF Resolved, KP, KF, KS
    <2>2. Asked(Resolved(l)) =
            {model}
            \cup {Requirement("paint", id, TRUE) : id \in {c[i].id : i \in KP}}
            \cup {Requirement("upholstery", id, TRUE) : id \in {c[i].id : i \in KF}}
            \cup {Requirement("option", id, TRUE) : id \in {c[i].id : i \in KS}}
      BY <2>1 DEF Asked
    <2>3. ASSUME NEW about, NEW places
          PROVE  {Requirement(about, id, TRUE) : id \in {c[i].id : i \in places}} = Named(about, places)
      OBVIOUS
    <2>4. QED
      BY <2>2, <2>3
  <1>8. {f.requirement : f \in FeaturesOf(l)} =
          {model} \cup Read("paint", P) \cup Read("upholstery", F) \cup Read("option", KS)
    <2> DEFINE n == 1 + Cardinality(P) + Cardinality(F)
               A == {Feature(1, model)}
               B == {Feature(2, FromCode("paint", c[i])) : i \in P}
               C == {Feature(n, FromCode("upholstery", c[i])) : i \in F}
               D == {Feature(n + Cardinality({j \in KS : j <= i}), FromCode("option", c[i])) : i \in KS}
    <2>1. (l.model.known /\ l.model.capitals) = l.model.known
      BY <1>2
    <2>2. FeaturesOf(l) = A \cup B \cup C \cup D
      BY <1>2, <1>6, <2>1 DEF FeaturesOf, P, F, KS
    <2>3. /\ {f.requirement : f \in A} = {model}
          /\ {f.requirement : f \in B} = Read("paint", P)
          /\ {f.requirement : f \in C} = Read("upholstery", F)
          /\ {f.requirement : f \in D} = Read("option", KS)
      <3>1. \A o, r : Feature(o, r).requirement = r
        BY DEF Feature
      <3> HIDE DEF Feature, n
      <3>2. {f.requirement : f \in A} = {model}
        BY <3>1
      <3>3. {f.requirement : f \in B} = Read("paint", P)
        <4>1. ASSUME NEW f \in B PROVE f.requirement \in Read("paint", P)
          <5>1. PICK i \in P : f = Feature(2, FromCode("paint", c[i]))
            OBVIOUS
          <5>2. QED
            BY <3>1, <5>1
        <4>2. ASSUME NEW r \in Read("paint", P) PROVE \E f \in B : r = f.requirement
          <5>1. PICK i \in P : r = FromCode("paint", c[i])
            OBVIOUS
          <5>2. Feature(2, r) \in B
            BY <5>1
          <5>3. QED
            BY <3>1, <5>2
        <4> HIDE DEF B, Read
        <4>3. QED
          BY <4>1, <4>2
      <3>4. {f.requirement : f \in C} = Read("upholstery", F)
        <4>1. ASSUME NEW f \in C PROVE f.requirement \in Read("upholstery", F)
          <5>1. PICK i \in F : f = Feature(n, FromCode("upholstery", c[i]))
            OBVIOUS
          <5>2. QED
            BY <3>1, <5>1
        <4>2. ASSUME NEW r \in Read("upholstery", F) PROVE \E f \in C : r = f.requirement
          <5>1. PICK i \in F : r = FromCode("upholstery", c[i])
            OBVIOUS
          <5>2. Feature(n, r) \in C
            BY <5>1
          <5>3. QED
            BY <3>1, <5>2
        <4> HIDE DEF C, Read
        <4>3. QED
          BY <4>1, <4>2
      <3>5. {f.requirement : f \in D} = Read("option", KS)
        <4>1. ASSUME NEW f \in D PROVE f.requirement \in Read("option", KS)
          <5>1. PICK i \in KS : f = Feature(n + Cardinality({j \in KS : j <= i}), FromCode("option", c[i]))
            OBVIOUS
          <5>2. QED
            BY <3>1, <5>1
        <4>2. ASSUME NEW r \in Read("option", KS) PROVE \E f \in D : r = f.requirement
          <5>1. PICK i \in KS : r = FromCode("option", c[i])
            OBVIOUS
          <5>2. Feature(n + Cardinality({j \in KS : j <= i}), r) \in D
            BY <5>1
          <5>3. QED
            BY <3>1, <5>2
        <4> HIDE DEF D, Read
        <4>3. QED
          BY <4>1, <4>2
      <3>6. QED
        BY <3>2, <3>3, <3>4, <3>5
    <2> HIDE DEF A, B, C, D, Read, model
    <2>4. QED
      BY <2>2, <2>3
  <1>9. \A about : \A i \in DOMAIN c :
          /\ FromCode(about, c[i]).about = about /\ FromCode(about, c[i]).named = c[i].known
          /\ FromCode(about, c[i]).code = c[i].id
          /\ c[i].known => FromCode(about, c[i]) = Requirement(about, c[i].id, TRUE)
    BY <1>3 DEF FromCode, Requirement
  <1>10. \A about : \A i : Requirement(about, c[i].id, TRUE).named /\ model.about = "model"
    BY DEF Requirement
  <1> DEFINE Kept(S) == {r \in S : r.about = "model" \/ r.named}
  <1>11. /\ Kept({model}) = {model}
         /\ Kept(Read("paint", P)) = Named("paint", KP)
         /\ Kept(Read("upholstery", F)) = Named("upholstery", KF)
         /\ Kept(Read("option", KS)) = Named("option", KS)
    <2>1. ASSUME NEW about \in {"paint", "upholstery", "option"}, NEW S \in SUBSET DOMAIN c
          PROVE  Kept(Read(about, S)) = Named(about, {i \in S : c[i].known})
      <3>1. about # "model"
        OBVIOUS
      <3> HIDE DEF model
      <3>2. ASSUME NEW x \in Kept(Read(about, S)) PROVE x \in Named(about, {i \in S : c[i].known})
        <4>1. PICK i \in S : x = FromCode(about, c[i]) /\ (x.about = "model" \/ x.named)
          OBVIOUS
        <4>2. i \in DOMAIN c /\ x.about = about /\ x.named = c[i].known
          BY <1>9, <4>1
        <4>3. c[i].known /\ x = Requirement(about, c[i].id, TRUE)
          BY <1>9, <3>1, <4>1, <4>2
        <4>4. QED
          BY <4>1, <4>3
      <3>3. ASSUME NEW x \in Named(about, {i \in S : c[i].known}) PROVE x \in Kept(Read(about, S))
        <4>1. PICK i \in S : c[i].known /\ x = Requirement(about, c[i].id, TRUE)
          OBVIOUS
        <4>2. x = FromCode(about, c[i]) /\ x.named
          BY <1>9, <1>10, <4>1
        <4>3. QED
          BY <4>2
      <3>4. QED
        BY <3>2, <3>3
    <2>2. Kept({model}) = {model}
      BY <1>10
    <2>3. KS = {i \in KS : c[i].known}
      BY <1>4
    <2> HIDE DEF Kept, Read, Named
    <2>4. QED
      BY <1>4, <2>1, <2>2, <2>3
  <1> DEFINE stored == {f.requirement : f \in FeaturesOf(l)}
  <1> HIDE DEF Read, Named, model, stored
  <1>12. Kept(stored) = Asked(Resolved(l))
    <2>1. ASSUME NEW S, NEW T, NEW U, NEW V
          PROVE  Kept(S \cup T \cup U \cup V) = Kept(S) \cup Kept(T) \cup Kept(U) \cup Kept(V)
      OBVIOUS
    <2>2. stored = {model} \cup Read("paint", P) \cup Read("upholstery", F) \cup Read("option", KS)
      BY <1>8 DEF stored
    <2> HIDE DEF Kept
    <2>3. Kept(stored) =
            Kept({model}) \cup Kept(Read("paint", P)) \cup Kept(Read("upholstery", F))
            \cup Kept(Read("option", KS))
      <3>1. Kept({model} \cup Read("paint", P) \cup Read("upholstery", F) \cup Read("option", KS)) =
              Kept({model}) \cup Kept(Read("paint", P)) \cup Kept(Read("upholstery", F))
              \cup Kept(Read("option", KS))
        BY SMTT(20), <2>1
      <3>2. QED
        BY <2>2, <3>1
    <2>4. QED
      BY <1>7, <1>11, <2>3
  <1>13. ASSUME NEW r \in stored \ Asked(Resolved(l))
         PROVE  /\ r.about \in {"paint", "upholstery"} /\ ~ r.named
                /\ r.code \in Resolved(l).unknown
    <2>1. r \notin {model} /\ r \notin Read("option", KS) /\ ~ r.named
      <3>1. r \notin Kept(stored)
        BY <1>12
      <3>2. ~ r.named
        BY <3>1 DEF Kept
      <3>3. r # model
        BY <1>10, <3>1 DEF Kept
      <3>4. \A x \in Read("option", KS) : x.named
        BY <1>4, <1>9 DEF Read
      <3>5. QED
        BY <3>2, <3>3, <3>4
    <2>2. r \in Read("paint", P) \/ r \in Read("upholstery", F)
      BY <1>8, <2>1 DEF stored
    <2>3. PICK about \in {"paint", "upholstery"}, i \in P \cup F : r = FromCode(about, c[i])
      BY <2>2 DEF Read
    <2>4. i \in DOMAIN c /\ i \in Places(l)
      BY <1>4 DEF P, F, Lettered
    <2>5. r.about = about /\ r.code = c[i].id /\ ~ c[i].known
      BY <1>9, <2>1, <2>3, <2>4
    <2>6. Resolved(l).unknown = {c[j].id : j \in {k \in Places(l) : ~ c[k].known}}
      BY <1>2 DEF Resolved
    <2>7. QED
      BY <2>1, <2>3, <2>4, <2>5, <2>6
  <1>14. Kept(stored) \subseteq stored
    BY DEF Kept
  <1>15. QED
    BY <1>12, <1>13, <1>14 DEF stored

(* A configuration that no two imports raced for holds what the parser     *)
(* reads from its link.                                                    *)
Faithful ==
  \A i \in DOMAIN config \ raced :
    config[i].features = FeaturesOf(config[i].cols.link)

\* The upsert of a configuration stores what the link says.
LEMMA StoreFaithful ==
  ASSUME TypeOK, Faithful, NEW w \in Workers, StoreConfig(w)
  PROVE  Faithful'
  <1> PICK r : r = req[w]
    OBVIOUS
  <1> DEFINE id == r.found[1].id
             read == r.found[1].row
             now == RowAfter(r)
  <1>1. /\ Ready(w, "config")
        /\ IF id = None THEN config' = Append(config, now)
                        ELSE config' = [config EXCEPT ![id] = now]
        /\ raced' = IF id # None /\ config[id] # read THEN raced \cup {id} ELSE raced
    BY DEF StoreConfig
  <1>2. PICK l \in Links :
           /\ r.input[1] = l
           /\ \/ id = None
              \/ id \in DOMAIN config /\ id # None /\ read \in ConfigRow
    BY <1>1, ConfigRead
  <1>3. config \in Seq(ConfigRow) /\ now \in ConfigRow
    BY <1>1, RowAfterTyped DEF TypeOK
  <1>4. ASSUME id = None \/ config[id] = read
        PROVE  now.features = FeaturesOf(now.cols.link)
    <2>1. CASE id = None
      BY <1>2, <2>1 DEF RowAfter, ColumnsOf
    <2>2. CASE id # None
      <3>1. config[id] = read /\ read \in ConfigRow
        BY <1>2, <1>4, <2>2
      <3>2. now = [cols |-> [c \in Columns |->
                     IF ColumnsOf(l)[c] # read.cols[c] THEN ColumnsOf(l)[c] ELSE read.cols[c]],
                   features |-> (read.features \ read.features) \cup FeaturesOf(l)]
        BY <1>2, <2>2, <3>1 DEF RowAfter
      <3>3. PICK cols, features :
                /\ cols = [c \in Columns |->
                             IF ColumnsOf(l)[c] # read.cols[c] THEN ColumnsOf(l)[c] ELSE read.cols[c]]
                /\ features = (read.features \ read.features) \cup FeaturesOf(l)
        OBVIOUS
      <3>4. now = [cols |-> cols, features |-> features]
        BY <3>2, <3>3
      <3>5. features = FeaturesOf(l)
        BY <3>3
      <3>6. cols.link = l
        <4>1. "link" \in Columns /\ ColumnsOf(l)["link"] = l
          BY DEF Columns, ColumnsOf
        <4>2. cols["link"] = l
          BY <3>3, <4>1
        <4>3. QED
          BY <4>2
      <3> HIDE DEF now
      <3>7. QED
        BY <3>4, <3>5, <3>6
    <2>3. QED
      BY <2>1, <2>2
  <1> HIDE DEF id, read, now
  <1>5. CASE id = None
    <2> DEFINE n == Len(config) + 1
    <2>1. /\ DOMAIN config' = DOMAIN config \cup {n} /\ config'[n] = now
          /\ \A i \in DOMAIN config : config'[i] = config[i]
      BY <1>1, <1>3, <1>5
    <2>2. raced' = raced
      BY <1>1, <1>5
    <2>3. \A i \in DOMAIN config' \ raced' :
            config'[i].features = FeaturesOf(config'[i].cols.link)
      BY <1>4, <1>5, <2>1, <2>2 DEF Faithful
    <2>4. QED
      BY <2>3 DEF Faithful, FeaturesOf
  <1>6. CASE id # None
    <2>1. /\ DOMAIN config' = DOMAIN config /\ config'[id] = now
          /\ \A i \in DOMAIN config \ {id} : config'[i] = config[i]
      BY <1>1, <1>2, <1>3, <1>6
    <2>2. raced \subseteq raced' /\ (id \notin raced' => config[id] = read)
      BY <1>1, <1>6
    <2>3. \A i \in DOMAIN config' \ raced' :
            config'[i].features = FeaturesOf(config'[i].cols.link)
      BY <1>4, <2>1, <2>2 DEF Faithful
    <2>4. QED
      BY <2>3 DEF Faithful, FeaturesOf
  <1>7. QED
    BY <1>5, <1>6

(* The rows and which were raced for change only when one is stored. *)
LEMMA OnlyStoresConfig ==
  ASSUME [Next]_vars
  PROVE  UNCHANGED <<config, raced>> \/ \E w \in Workers : StoreConfig(w)
  BY DEF Next, vars, tables, Begin, Find, FindDealer, FindOffer, FindConfig, Refuse, Answer,
     StoreDealers, DealersRefused, StoreOffers, OffersRefused, ConfigRefused, Abort,
     CreateDealer, PatchDealer, DeleteDealer, ResetAll

\* A stored configuration with its features is that of an imported link, unless
\* two imports wrote over each other.
THEOREM ConfigurationsFaithful == Spec => []Faithful
  <1>1. Init => Faithful
    BY DEF Init, Faithful
  <1>2. TypeOK /\ Faithful /\ [Next]_vars => Faithful'
    <2> SUFFICES ASSUME TypeOK, Faithful, [Next]_vars PROVE Faithful'
      OBVIOUS
    <2>1. CASE UNCHANGED <<config, raced>>
      BY <2>1 DEF Faithful, FeaturesOf
    <2>2. CASE \E w \in Workers : StoreConfig(w)
      BY <2>2, StoreFaithful
    <2>3. QED
      BY <2>1, <2>2, OnlyStoresConfig
  <1>3. QED
    BY <1>1, <1>2, TypesCorrect, PTL DEF Spec

(* The mail asks for nothing the offers are not compared with, and they are*)
(* compared with nothing else but an unlisted paint or upholstery, for     *)
(* every plain link, unless two imports of the configuration overlapped.   *)
THEOREM AskedAndRequired == Spec => []AskedIsRequired
  <1>1. TypeOK /\ Faithful => AskedIsRequired
    <2> SUFFICES ASSUME TypeOK, Faithful, NEW i \in DOMAIN config \ raced,
                        IsPlain(config[i].cols.link)
                 PROVE  LET stored == {f.requirement : f \in config[i].features}
                            asked == Asked(Resolved(config[i].cols.link)) IN
                        /\ asked \subseteq stored
                        /\ \A r \in stored \ asked :
                             /\ r.about \in {"paint", "upholstery"} /\ ~ r.named
                             /\ r.code \in Resolved(config[i].cols.link).unknown
      BY DEF AskedIsRequired
    <2>1. PICK l : l = config[i].cols.link
      OBVIOUS
    <2>2. config[i] \in ConfigRow
      BY DEF TypeOK
    <2>3. l \in Links
      BY <2>1, <2>2 DEF ConfigRow
    <2>4. config[i].features = FeaturesOf(l)
      BY <2>1 DEF Faithful
    <2>5. QED
      BY <2>1, <2>3, <2>4, PlainAsked
  <1>2. QED
    BY <1>1, TypesCorrect, ConfigurationsFaithful, PTL
=============================================================================
