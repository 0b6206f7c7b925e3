---------------------- MODULE TranspositionTableProofs ----------------------
(***************************************************************************)
(* Theorems about TranspositionTable, for any keys, results, capacities    *)
(* and numbers of threads.                                                 *)
(***************************************************************************)
EXTENDS TranspositionTable, FiniteSetTheorems, TLAPS

(***************************************************************************)
(* Arithmetic.                                                             *)
(***************************************************************************)
(* Division with remainder. *)
LEMMA DivMod ==
  ASSUME NEW n \in Nat, NEW d \in Nat, d > 0
  PROVE  /\ n \div d \in Nat
         /\ n % d \in 0 .. d - 1
         /\ n = d * (n \div d) + (n % d)
  OBVIOUS

(* A quotient is below every bound that the product exceeds. *)
LEMMA QuotientBelow ==
  ASSUME NEW r \in Nat, r > 0, NEW i \in Nat, NEW m \in Nat, i < m * r
  PROVE  i \div r < m
  <1> DEFINE q == i \div r
  <1>1. q \in Nat /\ i % r \in 0 .. r - 1 /\ i = r * q + (i % r)
    BY DivMod
  <1>2. ASSUME m <= q PROVE FALSE
    <2>1. m * r <= q * r
      BY <1>1, <1>2
    <2> QED BY <1>1, <2>1
  <1> QED BY <1>1, <1>2

(* The range of a thread ends where the next one starts. *)
LEMMA RangesInOrder ==
  ASSUME NEW t \in Nat, NEW u \in Nat, NEW r \in Nat, t < u
  PROVE  t * r + r <= u * r
  <1>1. (t + 1) * r <= u * r
    OBVIOUS
  <1>2. (t + 1) * r = t * r + r
    OBVIOUS
  <1> QED BY <1>1, <1>2

(* The index of a key lies in the table. *)
LEMMA SlotInTable ==
  ASSUME NEW key \in Nat, maxNumberOfEntries \in Nat, maxNumberOfEntries > 0
  PROVE  Slot(key) \in Slots
  BY DivMod DEF Slot, Slots

(* The bit fields hold numbers of their width; a depth that does not fit is *)
(* negative.                                                                *)
LEMMA Widths ==
  /\ \A d \in 0 .. 127 : Int7(d) \in -64 .. 63 /\ DepthKept(Int7(d), d)
  /\ \A a \in 0 .. 7 : Older(a) \in 0 .. 7
  BY DEF Int7, Older, Uint3, DepthKept

(***************************************************************************)
(* The threads of clear() and ageEntries().                                *)
(***************************************************************************)
(* Every entry is swept by exactly one thread, however the capacity and the *)
(* number of threads relate: more threads than entries, or a rest.          *)
LEMMA Partition ==
  ASSUME maxNumberOfEntries \in Nat, noOfThreads \in Nat \ {0}
  PROVE  SweptOnce /\ Swept = Slots
  <1> DEFINE r == maxNumberOfEntries \div noOfThreads
             last == noOfThreads - 1
  <1>1. r \in Nat /\ last \in Nat
    BY DivMod
  <1>2. ASSUME NEW i \in Slots
        PROVE  \E t \in 0 .. last : i \in ThreadRange(t)
    <2>1. i \in Nat
      BY DEF Slots
    <2>2. CASE last * r <= i
      BY <1>1, <2>2 DEF ThreadRange
    <2>3. CASE i < last * r
      <3>1. r > 0
        BY <1>1, <2>1, <2>3
      <3> DEFINE q == i \div r
      <3>2. q \in Nat /\ q < last
        BY <1>1, <2>1, <2>3, <3>1, QuotientBelow, DivMod
      <3>3. q * r <= i /\ i < q * r + r
        BY <1>1, <2>1, <3>1, DivMod
      <3>4. i \in ThreadRange(q)
        BY <3>3 DEF ThreadRange
      <3> QED BY <1>1, <3>2, <3>4
    <2> QED BY <1>1, <2>1, <2>2, <2>3
  <1>3. ASSUME NEW i \in Slots, NEW t \in 0 .. last, NEW u \in 0 .. last,
               i \in ThreadRange(t), i \in ThreadRange(u), t < u
        PROVE  FALSE
    <2>1. u * r <= i /\ i < t * r + r
      BY <1>3 DEF ThreadRange
    <2>2. t * r + r <= u * r
      BY <1>1, <1>3, RangesInOrder
    <2> QED BY <1>1, <2>1, <2>2 DEF Slots
  <1>4. ASSUME NEW i \in Slots, NEW t \in 0 .. last, NEW u \in 0 .. last,
               i \in ThreadRange(t), i \in ThreadRange(u)
        PROVE  u = t
    <2>1. ~ (t < u) /\ ~ (u < t)
      BY <1>3, <1>4
    <2> QED BY <1>1, <2>1
  <1>5. SweptOnce
    BY <1>2, <1>4 DEF SweptOnce
  <1>6. Swept = Slots
    BY <1>2 DEF Swept, ThreadRange
  <1> QED BY <1>5, <1>6

(***************************************************************************)
(* Entries.                                                                *)
(***************************************************************************)
(* What put() writes into a free or replaced entry. *)
LEMMA FilledEntry ==
  ASSUME NEW key \in Keys, NEW r \in Results, NEW l
  PROVE  /\ Filled(key, r) \in EntryType
         /\ Filled(key, r).key = key
         /\ Current(Filled(key, r), Merged(l, r))
  <1>1. r.depth \in 0 .. 127
    BY ResultsAssumption DEF IsResult
  <1>2. r.move \in Moves /\ r.value \in Values /\ r.eval \in Evals /\ r.type \in Types
    BY DEF Moves, Values, Evals, Types
  <1>3. Filled(key, r) \in EntryType
    <2>1. Int7(r.depth) \in -64 .. 63
      BY <1>1, Widths
    <2> QED BY <1>2, <2>1 DEF Filled, EntryType
  <1>4. Current(Filled(key, r), Merged(l, r))
    <2> DEFINE e == Filled(key, r)
               k == Merged(l, r)
    <2>1. /\ e.move = r.move /\ e.eval = r.eval /\ e.value = r.value /\ e.type = r.type
          /\ e.depth = Int7(r.depth)
      BY DEF Filled
    <2>2. /\ r.move # MOVE_NONE => k.move = r.move
          /\ r.eval # VALUE_NONE => k.eval = r.eval
          /\ r.value # VALUE_NONE => k.value = r.value /\ k.type = r.type /\ k.depth = r.depth
      BY DEF Merged
    <2>3. DepthKept(Int7(r.depth), r.depth)
      BY <1>1, Widths
    <2> HIDE DEF e, k
    <2>4. Current(e, k)
      BY <2>1, <2>2, <2>3 DEF Current
    <2> QED BY <2>4 DEF e, k
  <1> QED BY <1>3, <1>4 DEF Filled

(* What put() makes of an entry of the same position. *)
LEMMA UpdatedEntry ==
  ASSUME NEW e \in EntryType, NEW r \in Results, NEW l, Current(e, l)
  PROVE  /\ Updated(e, r) \in EntryType
         /\ Updated(e, r).key = e.key
         /\ Current(Updated(e, r), Merged(l, r))
  <1>1. r.depth \in 0 .. 127
    BY ResultsAssumption DEF IsResult
  <1>2. r.move \in Moves /\ r.value \in Values /\ r.eval \in Evals /\ r.type \in Types
    BY DEF Moves, Values, Evals, Types
  <1>3. Int7(r.depth) \in -64 .. 63 /\ DepthKept(Int7(r.depth), r.depth)
    BY <1>1, Widths
  <1>4. Updated(e, r) \in EntryType /\ Updated(e, r).key = e.key
    <2> DEFINE m == IF r.move = MOVE_NONE THEN e.move ELSE r.move
               v == IF r.eval = VALUE_NONE THEN e.eval ELSE r.eval
    <2>3. m \in Moves /\ v \in Evals
      BY <1>2 DEF EntryType
    <2>1. CASE r.value = VALUE_NONE
      <3>1. Updated(e, r) = [e EXCEPT !.move = m, !.eval = v]
        BY <2>1 DEF Updated, EntryType
      <3> HIDE DEF m, v
      <3> QED BY <2>3, <3>1 DEF EntryType
    <2>2. CASE r.value # VALUE_NONE
      <3>1. Updated(e, r) = [key |-> e.key, move |-> m, depth |-> Int7(r.depth),
                             value |-> r.value, eval |-> v, type |-> r.type, age |-> 1]
        <4>1. Updated(e, r) = [e EXCEPT !.move = m, !.depth = Int7(r.depth), !.value = r.value,
                                        !.type = r.type, !.age = 1, !.eval = v]
          BY <2>2 DEF Updated
        <4>2. e = [key |-> e.key, move |-> e.move, depth |-> e.depth, value |-> e.value,
                   eval |-> e.eval, type |-> e.type, age |-> e.age]
          BY DEF EntryType
        <4> HIDE DEF m, v
        <4> QED BY <4>1, <4>2
      <3>2. e.key \in Keys \cup {0} /\ 1 \in 0 .. 7
        BY DEF EntryType
      <3> HIDE DEF m, v
      <3> QED BY <1>2, <1>3, <2>3, <3>1, <3>2 DEF EntryType
    <2> QED BY <2>1, <2>2
  <1>5. Current(Updated(e, r), Merged(l, r))
    <2>1. e.move \in {MOVE_NONE, l.move} /\ e.eval \in {VALUE_NONE, l.eval}
      BY DEF Current
    <2>2. CASE r.value = VALUE_NONE
      <3>1. /\ Updated(e, r).value = e.value /\ Updated(e, r).type = e.type
            /\ Updated(e, r).depth = e.depth
        BY <2>2 DEF Updated, EntryType
      <3>2. /\ Merged(l, r).value = l.value /\ Merged(l, r).type = l.type
            /\ Merged(l, r).depth = l.depth
        BY <2>2 DEF Merged
      <3>3. e.value # VALUE_NONE =>
              e.value = l.value /\ e.type = l.type /\ DepthKept(e.depth, l.depth)
        BY DEF Current
      <3>4. /\ Updated(e, r).move \in {MOVE_NONE, Merged(l, r).move}
            /\ Updated(e, r).eval \in {VALUE_NONE, Merged(l, r).eval}
        BY <2>1 DEF Updated, Merged, EntryType
      <3> QED BY <3>1, <3>2, <3>3, <3>4 DEF Current
    <2>3. CASE r.value # VALUE_NONE
      <3>1. /\ Updated(e, r).value = r.value /\ Updated(e, r).type = r.type
            /\ Updated(e, r).depth = Int7(r.depth)
        BY <2>3 DEF Updated, EntryType
      <3>2. /\ Merged(l, r).value = r.value /\ Merged(l, r).type = r.type
            /\ Merged(l, r).depth = r.depth
        BY <2>3 DEF Merged
      <3>3. /\ Updated(e, r).move \in {MOVE_NONE, Merged(l, r).move}
            /\ Updated(e, r).eval \in {VALUE_NONE, Merged(l, r).eval}
        BY <2>1 DEF Updated, Merged, EntryType
      <3> QED BY <1>3, <3>1, <3>2, <3>3 DEF Current
    <2> QED BY <2>2, <2>3
  <1> QED BY <1>4, <1>5

(* What is remembered of a position keeps its type. *)
LEMMA MergedType ==
  ASSUME latest \in LatestType, NEW key \in Keys, NEW r \in Results
  PROVE  [latest EXCEPT ![key] = Merged(@, r)] \in LatestType
  <1>1. r.depth \in 0 .. 127
    BY ResultsAssumption DEF IsResult
  <1>2. r.move \in Moves /\ r.value \in Values /\ r.eval \in Evals /\ r.type \in Types
    BY DEF Moves, Values, Evals, Types
  <1> QED BY <1>1, <1>2 DEF LatestType, Merged

(* A new or cleared entry is free. *)
LEMMA FreeEntry ==
  /\ NewEntry \in EntryType /\ NewEntry.key = 0
  /\ \A e \in EntryType : Cleared(e) \in EntryType /\ Cleared(e).key = 0
  /\ NothingStored \in LatestType
  BY DEF NewEntry, Cleared, EntryType, NothingStored, LatestType, Moves, Values, Evals, Types

(* Finite sets of entries. *)
LEMMA OccupiedFinite ==
  ASSUME maxNumberOfEntries \in Nat
  PROVE  IsFiniteSet(Occupied) /\ Cardinality(Occupied) \in Nat
  <1>1. IsFiniteSet(Slots)
    BY FS_Interval DEF Slots
  <1>2. IsFiniteSet(Occupied)
    BY <1>1, FS_Subset DEF Occupied
  <1> QED BY <1>2, FS_CardinalityType

(***************************************************************************)
(* The inductive invariant.  NeverStale needs InItsSlot: only because a    *)
(* key can be in one slot only does a new result leave no older one of the *)
(* same position behind.                                                   *)
(***************************************************************************)
IInv == TypeOK /\ EntryCount /\ PutsAccounted /\ InItsSlot /\ NeverStale

(* The invariant holds when all entries are free. *)
LEMMA AllFree ==
  ASSUME maxNumberOfEntries \in Nat, TypeOK, PutsAccounted,
         \A i \in Slots : data[i].key = 0,
         maxNumberOfEntries > 0 => numberOfEntries = 0
  PROVE  IInv
  <1>1. Occupied = {}
    BY DEF Occupied
  <1> QED BY <1>1, FS_EmptySet DEF IInv, EntryCount, InItsSlot, NeverStale

(* The invariant holds initially. *)
LEMMA InitInv == Init => IInv
  <1> SUFFICES ASSUME Init PROVE IInv
    OBVIOUS
  <1>1. TypeOK
    BY FreeEntry DEF Init, TypeOK
  <1>2. PutsAccounted
    BY DEF Init, PutsAccounted
  <1>3. \A i \in Slots : data[i].key = 0
    BY FreeEntry DEF Init
  <1> QED BY <1>1, <1>2, <1>3, SizesAssumption, AllFree DEF Init

(***************************************************************************)
(* Storing a result.                                                       *)
(***************************************************************************)
(* No other entry than the one in the slot of a position is an entry of it. *)
LEMMA OnlyInItsSlot ==
  ASSUME InItsSlot, NEW key \in Keys, NEW i \in Occupied, i # Slot(key)
  PROVE  data[i].key # key
  BY DEF InItsSlot

(* Writing an up-to-date entry of a position into its slot. *)
LEMMA Stored ==
  ASSUME IInv, NEW key \in Keys, NEW r \in Results, PutAny(key, r),
         NEW e \in EntryType, e.key = key, Current(e, Merged(latest[key], r)),
         data' = [data EXCEPT ![Slot(key)] = e]
  PROVE  /\ Slot(key) \in Slots
         /\ data' \in [Slots' -> EntryType] /\ latest' \in LatestType
         /\ Occupied' = Occupied \cup {Slot(key)}
         /\ InItsSlot' /\ NeverStale'
  <1>1. maxNumberOfEntries' = maxNumberOfEntries /\ maxNumberOfEntries \in Nat \ {0}
    <2>1. maxNumberOfEntries \in Sizes \cup {0} /\ maxNumberOfEntries > 0
      BY DEF IInv, TypeOK, PutAny
    <2>2. maxNumberOfEntries \in Nat \ {0}
      BY <2>1, SizesAssumption
    <2> QED BY <2>2 DEF PutAny
  <1>2. key \in Nat /\ key # 0
    BY KeysAssumption
  <1>3. Slot(key) \in Slots /\ Slots' = Slots
    BY <1>1, <1>2, SlotInTable DEF Slots
  <1>4. \A k : Slot(k)' = Slot(k)
    BY <1>1 DEF Slot
  <1>5. data \in [Slots -> EntryType] /\ latest \in LatestType
    BY DEF IInv, TypeOK
  <1>6. data'[Slot(key)] = e /\ \A i \in Slots : i # Slot(key) => data'[i] = data[i]
    BY <1>3, <1>5
  <1>7. Occupied' = Occupied \cup {Slot(key)}
    BY <1>2, <1>3, <1>6 DEF Occupied
  <1>8. latest' = [latest EXCEPT ![key] = Merged(@, r)]
    BY DEF PutAny
  <1>9. latest' \in LatestType
    BY <1>5, <1>8, MergedType
  <1>10. /\ latest'[key] = Merged(latest[key], r)
         /\ \A k \in Keys : k # key => latest'[k] = latest[k]
    BY <1>5, <1>8 DEF LatestType
  <1>11. InItsSlot'
    <2> SUFFICES ASSUME NEW i \in Occupied' PROVE Slot(data'[i].key) = i
      BY <1>4 DEF InItsSlot
    <2>1. CASE i = Slot(key)
      BY <1>6, <2>1
    <2>2. CASE i # Slot(key)
      BY <1>6, <1>7, <2>2 DEF IInv, InItsSlot, Occupied
    <2> QED BY <2>1, <2>2
  <1>12. NeverStale'
    <2> SUFFICES ASSUME NEW i \in Occupied' PROVE Current(data'[i], latest'[data'[i].key])
      BY DEF NeverStale
    <2>1. CASE i = Slot(key)
      BY <1>6, <1>10, <2>1
    <2>2. CASE i # Slot(key)
      <3>1. i \in Occupied /\ data'[i] = data[i]
        BY <1>6, <1>7, <2>2 DEF Occupied
      <3>2. data[i].key # key
        BY <2>2, <3>1, OnlyInItsSlot DEF IInv
      <3>3. data[i].key \in Keys
        BY <1>5, <3>1 DEF Occupied, EntryType
      <3> QED BY <1>10, <3>1, <3>2, <3>3 DEF IInv, NeverStale
    <2> QED BY <2>1, <2>2
  <1>13. data' \in [Slots' -> EntryType]
    BY <1>3, <1>5
  <1> QED BY <1>3, <1>7, <1>9, <1>11, <1>12, <1>13

(* The parts of the invariant that every call of put() keeps. *)
LEMMA PutCounts ==
  ASSUME IInv, NEW key \in Keys, NEW r \in Results, PutAny(key, r)
  PROVE  /\ maxNumberOfEntries' \in Sizes \cup {0} /\ noOfThreads' \in ThreadCounts
         /\ maxNumberOfEntries \in Nat \ {0}
         /\ numberOfPuts \in Nat /\ numberOfPuts' = numberOfPuts + 1
         /\ numberOfEntries \in Nat /\ numberOfCollisions \in Nat /\ numberOfUpdates \in Nat
         /\ numberOfPuts = numberOfEntries + numberOfCollisions + numberOfUpdates
         /\ numberOfEntries = Cardinality(Occupied)
         /\ data \in [Slots -> EntryType] /\ key # 0
  BY SizesAssumption, KeysAssumption
     DEF PutAny, IInv, TypeOK, EntryCount, PutsAccounted

(* put() into a free entry. *)
LEMMA PutNewStep ==
  ASSUME IInv, NEW key \in Keys, NEW r \in Results, PutNew(key, r)
  PROVE  IInv'
  <1> DEFINE e == Filled(key, r)
  <1>1. PutAny(key, r) /\ data' = [data EXCEPT ![Slot(key)] = e]
    BY DEF PutNew
  <1>2. e \in EntryType /\ e.key = key /\ Current(e, Merged(latest[key], r))
    BY FilledEntry
  <1> HIDE DEF e
  <1>3. /\ Slot(key) \in Slots
        /\ data' \in [Slots' -> EntryType] /\ latest' \in LatestType
        /\ Occupied' = Occupied \cup {Slot(key)}
        /\ InItsSlot' /\ NeverStale'
    BY <1>1, <1>2, Stored
  <1>4. Slot(key) \notin Occupied
    BY DEF PutNew, Occupied
  <1>5. IsFiniteSet(Occupied)
    BY <1>1, PutCounts, OccupiedFinite
  <1>6. Cardinality(Occupied') = Cardinality(Occupied) + 1
    BY <1>3, <1>4, <1>5, FS_AddElement
  <1>7. EntryCount' /\ PutsAccounted'
    BY <1>1, <1>6, PutCounts DEF EntryCount, PutsAccounted, PutNew
  <1>8. TypeOK'
    BY <1>1, <1>3, PutCounts DEF TypeOK, PutNew
  <1> QED BY <1>3, <1>7, <1>8 DEF IInv

(* put() into an entry of another position: it is replaced or kept. *)
LEMMA PutCollisionStep ==
  ASSUME IInv, NEW key \in Keys, NEW r \in Results, PutCollision(key, r)
  PROVE  IInv'
  <1>1. PutAny(key, r)
    BY DEF PutCollision
  <1>2. key \in Nat /\ Slot(key) \in Slots
    BY <1>1, PutCounts, KeysAssumption, SlotInTable
  <1>3. Slot(key) \in Occupied /\ data[Slot(key)].key # key
    BY <1>2 DEF PutCollision, Occupied
  <1>4. /\ data' \in [Slots' -> EntryType] /\ latest' \in LatestType
        /\ Occupied' = Occupied
        /\ InItsSlot' /\ NeverStale'
    <2>1. CASE Replaces(r, data[Slot(key)])
      <3> DEFINE e == Filled(key, r)
      <3>1. data' = [data EXCEPT ![Slot(key)] = e]
        BY <2>1 DEF PutCollision
      <3>2. e \in EntryType /\ e.key = key /\ Current(e, Merged(latest[key], r))
        BY FilledEntry
      <3> HIDE DEF e
      <3>3. /\ data' \in [Slots' -> EntryType] /\ latest' \in LatestType
            /\ Occupied' = Occupied \cup {Slot(key)}
            /\ InItsSlot' /\ NeverStale'
        BY <1>1, <3>1, <3>2, Stored
      <3> QED BY <1>3, <3>3
    <2>2. CASE ~ Replaces(r, data[Slot(key)])
      <3>1. data' = data
        BY <1>1, <2>2, PutCounts DEF PutCollision
      <3>2. maxNumberOfEntries' = maxNumberOfEntries
        BY <1>1 DEF PutAny
      <3>3. Slots' = Slots /\ Occupied' = Occupied /\ \A k : Slot(k)' = Slot(k)
        BY <3>1, <3>2 DEF Slots, Occupied, Slot
      <3>4. InItsSlot'
        BY <3>1, <3>3 DEF IInv, InItsSlot
      <3>5. latest \in LatestType /\ latest' = [latest EXCEPT ![key] = Merged(@, r)]
        BY <1>1 DEF IInv, TypeOK, PutAny
      <3>6. latest' \in LatestType
        BY <3>5, MergedType
      <3>7. NeverStale'
        <4> SUFFICES ASSUME NEW i \in Occupied PROVE Current(data[i], latest'[data[i].key])
          BY <3>1, <3>3 DEF NeverStale
        <4>1. data[i].key # key
          BY <1>3, OnlyInItsSlot DEF IInv
        <4>2. data[i].key \in Keys
          BY <1>1, PutCounts DEF Occupied, EntryType
        <4>3. latest'[data[i].key] = latest[data[i].key]
          BY <3>5, <4>1, <4>2 DEF LatestType
        <4> QED BY <4>3 DEF IInv, NeverStale
      <3> QED BY <1>1, <3>1, <3>3, <3>4, <3>6, <3>7, PutCounts
    <2> QED BY <2>1, <2>2
  <1>5. EntryCount' /\ PutsAccounted'
    BY <1>1, <1>4, PutCounts DEF EntryCount, PutsAccounted, PutCollision
  <1>6. TypeOK'
    BY <1>1, <1>4, PutCounts DEF TypeOK, PutCollision
  <1> QED BY <1>4, <1>5, <1>6 DEF IInv

(* put() into the entry of the same position. *)
LEMMA PutUpdateStep ==
  ASSUME IInv, NEW key \in Keys, NEW r \in Results, PutUpdate(key, r)
  PROVE  IInv'
  <1> DEFINE old == data[Slot(key)]
             e == Updated(old, r)
  <1>1. PutAny(key, r) /\ data' = [data EXCEPT ![Slot(key)] = e]
    BY DEF PutUpdate
  <1>2. key \in Nat /\ Slot(key) \in Slots
    BY <1>1, PutCounts, KeysAssumption, SlotInTable
  <1>3. old.key = key /\ Slot(key) \in Occupied
    BY <1>1, <1>2, PutCounts DEF PutUpdate, Occupied
  <1>4. Current(old, latest[key])
    BY <1>3 DEF IInv, NeverStale
  <1>5. old \in EntryType
    BY <1>1, <1>2, PutCounts
  <1> HIDE DEF old
  <1>6. e \in EntryType /\ e.key = key /\ Current(e, Merged(latest[key], r))
    BY <1>3, <1>4, <1>5, UpdatedEntry
  <1> HIDE DEF e
  <1>7. /\ data' \in [Slots' -> EntryType] /\ latest' \in LatestType
        /\ Occupied' = Occupied \cup {Slot(key)}
        /\ InItsSlot' /\ NeverStale'
    BY <1>1, <1>6, Stored
  <1>8. Occupied' = Occupied
    BY <1>3, <1>7
  <1>9. EntryCount' /\ PutsAccounted'
    BY <1>1, <1>8, PutCounts DEF EntryCount, PutsAccounted, PutUpdate
  <1>10. TypeOK'
    BY <1>1, <1>7, PutCounts DEF TypeOK, PutUpdate
  <1> QED BY <1>7, <1>9, <1>10 DEF IInv

(***************************************************************************)
(* The other operations.                                                   *)
(***************************************************************************)
(* Entries that only change their age. *)
LEMMA OnlyAges ==
  ASSUME IInv, UNCHANGED <<maxNumberOfEntries, noOfThreads, statistics, latest>>,
         data' \in [Slots -> EntryType],
         \A i \in Slots : /\ data'[i].key = data[i].key
                         /\ data'[i].move = data[i].move /\ data'[i].eval = data[i].eval
                         /\ data'[i].value = data[i].value /\ data'[i].type = data[i].type
                         /\ data'[i].depth = data[i].depth
  PROVE  IInv'
  <1>1. Slots' = Slots /\ Occupied' = Occupied /\ \A k : Slot(k)' = Slot(k)
    BY DEF Slots, Occupied, Slot
  <1>2. TypeOK'
    BY <1>1 DEF IInv, TypeOK, statistics
  <1>3. EntryCount' /\ PutsAccounted'
    BY <1>1 DEF IInv, EntryCount, PutsAccounted, statistics
  <1>4. InItsSlot'
    BY <1>1 DEF IInv, InItsSlot, Occupied
  <1>5. NeverStale'
    <2> SUFFICES ASSUME NEW i \in Occupied PROVE Current(data'[i], latest[data[i].key])
      BY <1>1 DEF NeverStale, Occupied
    <2>1. Current(data[i], latest[data[i].key])
      BY DEF IInv, NeverStale
    <2> QED BY <2>1 DEF Current, Occupied
  <1> QED BY <1>2, <1>3, <1>4, <1>5 DEF IInv

(* probe(). *)
LEMMA ProbeStep ==
  ASSUME IInv, NEW key \in Keys, Probe(key)
  PROVE  IInv'
  <1> DEFINE s == Slot(key)
             age == IF data[s].age > 0 THEN data[s].age - 1 ELSE data[s].age
             e == [data[s] EXCEPT !.age = age]
  <1>1. data \in [Slots -> EntryType]
    BY DEF IInv, TypeOK
  <1>2. maxNumberOfEntries \in Nat /\ maxNumberOfEntries > 0 /\ key \in Nat
    BY SizesAssumption, KeysAssumption DEF IInv, TypeOK, Probe
  <1>3. s \in Slots
    BY <1>2, SlotInTable
  <1>4. data' = [data EXCEPT ![s] = e]
    BY DEF Probe
  <1>5. data[s] \in EntryType
    BY <1>1, <1>3
  <1>6. data[s].age \in 0 .. 7
    BY <1>5 DEF EntryType
  <1>7. age \in 0 .. 7
    BY <1>6
  <1> HIDE DEF s, age
  <1>8. /\ e \in EntryType
        /\ e.key = data[s].key /\ e.move = data[s].move /\ e.eval = data[s].eval
        /\ e.value = data[s].value /\ e.type = data[s].type /\ e.depth = data[s].depth
    BY <1>5, <1>7 DEF EntryType
  <1> HIDE DEF e
  <1>9. data' \in [Slots -> EntryType]
    BY <1>1, <1>3, <1>4, <1>8
  <1>10. \A i \in Slots : /\ data'[i].key = data[i].key
                         /\ data'[i].move = data[i].move /\ data'[i].eval = data[i].eval
                         /\ data'[i].value = data[i].value /\ data'[i].type = data[i].type
                         /\ data'[i].depth = data[i].depth
    BY <1>1, <1>3, <1>4, <1>8
  <1> QED BY <1>9, <1>10, OnlyAges DEF Probe

(* ageEntries(). *)
LEMMA AgeEntriesStep ==
  ASSUME IInv, AgeEntries
  PROVE  IInv'
  <1>1. data \in [Slots -> EntryType]
    BY DEF IInv, TypeOK
  <1> DEFINE Aged(i) == [data[i] EXCEPT !.age = Older(data[i].age)]
  <1>2. ASSUME NEW i \in Slots
        PROVE  /\ Aged(i) \in EntryType
               /\ Aged(i).key = data[i].key /\ Aged(i).move = data[i].move
               /\ Aged(i).eval = data[i].eval /\ Aged(i).value = data[i].value
               /\ Aged(i).type = data[i].type /\ Aged(i).depth = data[i].depth
    <2>1. data[i] \in EntryType
      BY <1>1
    <2>2. data[i].age \in 0 .. 7
      BY <2>1 DEF EntryType
    <2>3. Older(data[i].age) \in 0 .. 7
      BY <2>2, Widths
    <2> QED BY <2>1, <2>3 DEF EntryType
  <1>3. data' = [i \in Slots |->
                   IF i \in Swept /\ data[i].key # 0 THEN Aged(i) ELSE data[i]]
    BY DEF AgeEntries
  <1> HIDE DEF Aged
  <1>4. data' \in [Slots -> EntryType]
    BY <1>1, <1>2, <1>3
  <1>5. \A i \in Slots : data'[i] = Aged(i) \/ data'[i] = data[i]
    BY <1>3
  <1>6. \A i \in Slots : /\ data'[i].key = data[i].key
                        /\ data'[i].move = data[i].move /\ data'[i].eval = data[i].eval
                        /\ data'[i].value = data[i].value /\ data'[i].type = data[i].type
                        /\ data'[i].depth = data[i].depth
    BY <1>2, <1>5
  <1> QED BY <1>4, <1>6, OnlyAges DEF AgeEntries

(* clear(): every entry is free because the threads leave none out. *)
LEMMA ClearStep ==
  ASSUME IInv, Clear
  PROVE  IInv'
  <1>1. /\ data \in [Slots -> EntryType] /\ maxNumberOfEntries \in Sizes \cup {0}
        /\ noOfThreads \in ThreadCounts
    BY DEF IInv, TypeOK
  <1>2. maxNumberOfEntries \in Nat /\ noOfThreads \in Nat \ {0}
    BY <1>1, SizesAssumption, ThreadsAssumption
  <1>3. Swept = Slots
    BY <1>2, Partition
  <1>4. maxNumberOfEntries' = maxNumberOfEntries /\ noOfThreads' = noOfThreads
    BY DEF Clear
  <1>5. Slots' = Slots
    BY <1>4 DEF Slots
  <1>6. data' = [i \in Slots |-> Cleared(data[i])]
    BY <1>3 DEF Clear
  <1>7. data' \in [Slots' -> EntryType] /\ \A i \in Slots' : data'[i].key = 0
    BY <1>1, <1>5, <1>6, FreeEntry
  <1>8. TypeOK'
    BY <1>1, <1>4, <1>7, FreeEntry DEF TypeOK, Clear, ResetStatistics
  <1>9. PutsAccounted' /\ numberOfEntries' = 0
    BY DEF Clear, ResetStatistics, PutsAccounted
  <1>10. Occupied' = {}
    BY <1>7 DEF Occupied
  <1> QED BY <1>8, <1>9, <1>10, FS_EmptySet
          DEF IInv, EntryCount, InItsSlot, NeverStale

(* resize(). *)
LEMMA ResizeStep ==
  ASSUME IInv, NEW size \in Sizes \cup {0}, Resize(size)
  PROVE  IInv'
  <1>1. size \in Nat /\ maxNumberOfEntries' = size /\ noOfThreads' = noOfThreads
    BY SizesAssumption DEF Resize
  <1>2. data' = [i \in Slots' |-> NewEntry]
    BY <1>1 DEF Resize, Slots
  <1>3. data' \in [Slots' -> EntryType] /\ \A i \in Slots' : data'[i].key = 0
    BY <1>2, FreeEntry
  <1>4. /\ size # 0 => numberOfEntries' = 0
        /\ PutsAccounted'
        /\ numberOfEntries' \in Nat /\ numberOfPuts' \in Nat
        /\ numberOfCollisions' \in Nat /\ numberOfUpdates' \in Nat
    BY DEF Resize, ResetStatistics, PutsAccounted, IInv, TypeOK, statistics
  <1>5. TypeOK'
    BY <1>1, <1>3, <1>4, FreeEntry DEF TypeOK, Resize, IInv
  <1>6. Occupied' = {}
    BY <1>3 DEF Occupied
  <1> QED BY <1>1, <1>4, <1>5, <1>6, FS_EmptySet
          DEF IInv, EntryCount, InItsSlot, NeverStale

(* A change of noOfThreads does not touch the entries. *)
LEMMA SetThreadsStep ==
  ASSUME IInv, NEW n \in ThreadCounts, SetThreads(n)
  PROVE  IInv'
  <1>1. Slots' = Slots /\ Occupied' = Occupied /\ \A k : Slot(k)' = Slot(k)
    BY DEF SetThreads, Slots, Occupied, Slot
  <1> QED BY <1>1 DEF SetThreads, IInv, TypeOK, EntryCount, PutsAccounted, InItsSlot,
                      NeverStale, statistics

(* Every step keeps the invariant. *)
LEMMA NextInv == IInv /\ [Next]_vars => IInv'
  <1> SUFFICES ASSUME IInv, [Next]_vars PROVE IInv'
    OBVIOUS
  <1>1. CASE UNCHANGED vars
    <2>1. Slots' = Slots /\ Occupied' = Occupied /\ \A k : Slot(k)' = Slot(k)
      BY <1>1 DEF vars, Slots, Occupied, Slot
    <2> QED BY <1>1, <2>1 DEF vars, IInv, TypeOK, EntryCount, PutsAccounted, InItsSlot,
                              NeverStale, statistics
  <1>2. CASE \E key \in Keys, r \in Results :
               PutNew(key, r) \/ PutCollision(key, r) \/ PutUpdate(key, r)
    BY <1>2, PutNewStep, PutCollisionStep, PutUpdateStep
  <1>3. CASE \E key \in Keys : Probe(key)
    BY <1>3, ProbeStep
  <1>4. CASE AgeEntries \/ Clear
    BY <1>4, AgeEntriesStep, ClearStep
  <1>5. CASE \E size \in Sizes \cup {0} : Resize(size)
    BY <1>5, ResizeStep
  <1>6. CASE \E n \in ThreadCounts : SetThreads(n)
    BY <1>6, SetThreadsStep
  <1> QED BY <1>1, <1>2, <1>3, <1>4, <1>5, <1>6 DEF Next

(* The invariant always holds. *)
LEMMA Invariance == Spec => []IInv
  BY InitInv, NextInv, PTL DEF Spec

(***************************************************************************)
(* The theorems.                                                           *)
(***************************************************************************)
(* The bit fields and the statistics stay in their ranges. *)
THEOREM TypeCorrect == Spec => []TypeOK
  <1>1. IInv => TypeOK
    BY DEF IInv
  <1> QED BY Invariance, <1>1, PTL

(* numberOfEntries is the number of occupied entries, whatever the order of *)
(* insertions, replacements, clears and resizes.                            *)
THEOREM EntriesCounted == Spec => []EntryCount
  <1>1. IInv => EntryCount
    BY DEF IInv
  <1> QED BY Invariance, <1>1, PTL

(* The statistics of put() add up: the assertion that put() cannot reach. *)
THEOREM PutsAddUp == Spec => []PutsAccounted
  <1>1. IInv => PutsAccounted
    BY DEF IInv
  <1> QED BY Invariance, <1>1, PTL

(* A stored result is in the slot where probe() looks for it. *)
THEOREM StoredWhereProbed == Spec => []InItsSlot
  <1>1. IInv => InItsSlot
    BY DEF IInv
  <1> QED BY Invariance, <1>1, PTL

(* A hit of probe() never yields stale or mixed results: the depth, too, is *)
(* that of the result up to 63, and negative for deeper ones.               *)
THEOREM ResultsNeverStale == Spec => []NeverStale
  <1>1. IInv => NeverStale
    BY DEF IInv
  <1> QED BY Invariance, <1>1, PTL

(* The threads of clear() and ageEntries() sweep each entry once, for every *)
(* capacity and every number of threads.                                    *)
THEOREM EveryEntrySweptOnce == Spec => []SweptOnce
  <1>1. TypeOK => SweptOnce
    BY SizesAssumption, ThreadsAssumption, Partition DEF TypeOK
  <1> QED BY TypeCorrect, <1>1, PTL
=============================================================================
