------------------------- MODULE TranspositionTable -------------------------
(***************************************************************************)
(* TT, the hash table of search results: one entry per slot, the slot of a *)
(* position is its key modulo the number of entries, and put() decides     *)
(* whether a result replaces what its slot holds.                          *)
(*                                                                         *)
(* Moves, values and evals are members of small sets; the widths of the    *)
(* bit fields depth and age are kept.  The probe statistics and the number *)
(* of overwrites are left out: they are only printed.                      *)
(***************************************************************************)
EXTENDS Integers, FiniteSets

CONSTANTS
  Keys,         \* the zobrist keys of the positions; 0 marks a free entry
  Results,      \* what search() and qsearch() store: see ResultType
  Sizes,        \* the capacities that resize() is asked for
  ThreadCounts, \* values of noOfThreads
  MaxPuts,      \* bound: calls of put() between two clears
  VALUE_NONE, MOVE_NONE, Garbage

VARIABLES
  maxNumberOfEntries,
  noOfThreads,
  data,               \* the entries
  numberOfEntries, numberOfPuts, numberOfCollisions, numberOfUpdates,
  latest              \* history: what was last stored for each position

statistics == <<numberOfEntries, numberOfPuts, numberOfCollisions, numberOfUpdates>>
vars == <<maxNumberOfEntries, noOfThreads, data, statistics, latest>>

(* The arguments of put() other than the key. *)
IsResult(r) == DOMAIN r = {"depth", "move", "value", "type", "eval"}
               /\ r.depth \in 0 .. 127

ASSUME KeysAssumption == Keys \subseteq Nat \ {0}
ASSUME ResultsAssumption == \A r \in Results : IsResult(r)
ASSUME SizesAssumption == Sizes \subseteq Nat \ {0}
ASSUME ThreadsAssumption == ThreadCounts \subseteq Nat \ {0}
ASSUME BoundAssumption == MaxPuts \in Nat

-----------------------------------------------------------------------------
(* int8_t depth : 7 and uint8_t age : 3. *)
Int7(d) == IF d % 128 >= 64 THEN (d % 128) - 128 ELSE d % 128
Uint3(a) == a % 8

Slots == 0 .. maxNumberOfEntries - 1

(* getHash: key & hashKeyMask, with a power of two as the capacity. *)
Slot(key) == key % maxNumberOfEntries

(* Seeded fault: two threads share the entry between their ranges. *)
ThreadRangeOverlap(t) ==
  LET range == maxNumberOfEntries \div noOfThreads
  IN  {i \in Slots : /\ t * range <= i
                     /\ i <= t * range + range \/ t = noOfThreads - 1}

(* clear() and ageEntries() split the entries among noOfThreads threads. *)
ThreadRange(t) ==
  LET range == maxNumberOfEntries \div noOfThreads
  IN  {i \in Slots : /\ t * range <= i
                     /\ i < t * range + range \/ t = noOfThreads - 1}

Swept == UNION {ThreadRange(t) : t \in 0 .. noOfThreads - 1}

(* clear() does not touch the type, which new leaves uninitialised. *)
Cleared(e) == [key |-> 0, move |-> MOVE_NONE, depth |-> 0, value |-> VALUE_NONE,
               eval |-> VALUE_NONE, type |-> e.type, age |-> 1]

NewEntry == Cleared([type |-> Garbage])

NothingStored == [key \in Keys |-> [move |-> MOVE_NONE, eval |-> VALUE_NONE,
                                    value |-> VALUE_NONE, depth |-> 0, type |-> Garbage]]

ResetStatistics ==
  /\ numberOfEntries' = 0 /\ numberOfPuts' = 0
  /\ numberOfCollisions' = 0 /\ numberOfUpdates' = 0

Init ==
  /\ maxNumberOfEntries \in Sizes
  /\ noOfThreads \in ThreadCounts
  /\ data = [i \in Slots |-> NewEntry]
  /\ numberOfEntries = 0 /\ numberOfPuts = 0
  /\ numberOfCollisions = 0 /\ numberOfUpdates = 0
  /\ latest = NothingStored

-----------------------------------------------------------------------------
(***************************************************************************)
(* put().                                                                  *)
(***************************************************************************)
Filled(key, r) ==
  [key |-> key, move |-> r.move, depth |-> Int7(r.depth), value |-> r.value,
   eval |-> r.eval, type |-> r.type, age |-> 1]

(* Seeded fault: the entry keeps its depth although the value is new. *)
UpdatedKeepingDepth(e, r) ==
  [e EXCEPT !.move  = IF r.move = MOVE_NONE THEN @ ELSE r.move,
            !.value = IF r.value = VALUE_NONE THEN @ ELSE r.value,
            !.type  = IF r.value = VALUE_NONE THEN @ ELSE r.type,
            !.age   = IF r.value = VALUE_NONE THEN @ ELSE 1,
            !.eval  = IF r.eval = VALUE_NONE THEN @ ELSE r.eval]

(* The same position again: what the result does not give is preserved. *)
Updated(e, r) ==
  [e EXCEPT !.move  = IF r.move = MOVE_NONE THEN @ ELSE r.move,
            !.depth = IF r.value = VALUE_NONE THEN @ ELSE Int7(r.depth),
            !.value = IF r.value = VALUE_NONE THEN @ ELSE r.value,
            !.type  = IF r.value = VALUE_NONE THEN @ ELSE r.type,
            !.age   = IF r.value = VALUE_NONE THEN @ ELSE 1,
            !.eval  = IF r.eval = VALUE_NONE THEN @ ELSE r.eval]

Replaces(r, e) ==
  r.depth > e.depth \/ (r.depth = e.depth /\ e.age > 0)

(* What is known of a position once r has been stored for it. *)
Merged(l, r) ==
  [move  |-> IF r.move = MOVE_NONE THEN l.move ELSE r.move,
   eval  |-> IF r.eval = VALUE_NONE THEN l.eval ELSE r.eval,
   value |-> IF r.value = VALUE_NONE THEN l.value ELSE r.value,
   depth |-> IF r.value = VALUE_NONE THEN l.depth ELSE r.depth,
   type  |-> IF r.value = VALUE_NONE THEN l.type ELSE r.type]

PutAny(key, r) ==
  /\ maxNumberOfEntries > 0
  /\ numberOfPuts < MaxPuts
  /\ numberOfPuts' = numberOfPuts + 1
  /\ latest' = [latest EXCEPT ![key] = Merged(@, r)]
  /\ UNCHANGED <<maxNumberOfEntries, noOfThreads>>

PutNew(key, r) ==
  /\ PutAny(key, r)
  /\ data[Slot(key)].key = 0
  /\ data' = [data EXCEPT ![Slot(key)] = Filled(key, r)]
  /\ numberOfEntries' = numberOfEntries + 1
  /\ UNCHANGED <<numberOfCollisions, numberOfUpdates>>

(* Seeded faults: a replaced entry counts as a new one; or the key of the   *)
(* replaced entry stays.                                                   *)
PutCollisionCounted(key, r) ==
  /\ PutAny(key, r)
  /\ data[Slot(key)].key \notin {0, key}
  /\ data' = [data EXCEPT ![Slot(key)] = IF Replaces(r, @) THEN Filled(key, r) ELSE @]
  /\ numberOfEntries' = numberOfEntries + 1
  /\ UNCHANGED <<numberOfCollisions, numberOfUpdates>>
PutCollisionOldKey(key, r) ==
  /\ PutAny(key, r)
  /\ data[Slot(key)].key \notin {0, key}
  /\ data' = [data EXCEPT ![Slot(key)] = IF Replaces(r, @) THEN Filled(@.key, r) ELSE @]
  /\ numberOfCollisions' = numberOfCollisions + 1
  /\ UNCHANGED <<numberOfEntries, numberOfUpdates>>

PutCollision(key, r) ==
  /\ PutAny(key, r)
  /\ data[Slot(key)].key \notin {0, key}
  /\ data' = [data EXCEPT ![Slot(key)] = IF Replaces(r, @) THEN Filled(key, r) ELSE @]
  /\ numberOfCollisions' = numberOfCollisions + 1
  /\ UNCHANGED <<numberOfEntries, numberOfUpdates>>

PutUpdate(key, r) ==
  /\ PutAny(key, r)
  /\ data[Slot(key)].key = key
  /\ data' = [data EXCEPT ![Slot(key)] = Updated(@, r)]
  /\ numberOfUpdates' = numberOfUpdates + 1
  /\ UNCHANGED <<numberOfEntries, numberOfCollisions>>

(***************************************************************************)
(* The other operations.                                                   *)
(***************************************************************************)
(* A hit marks the entry as used; a miss changes nothing.  probe() does not *)
(* look at the capacity: of a table without entries (see SearchControl) it  *)
(* reads what lies behind the array, which is no entry and not modelled.    *)
Probe(key) ==
  /\ maxNumberOfEntries > 0
  /\ data[Slot(key)].key = key
  /\ data' = [data EXCEPT ![Slot(key)].age = IF @ > 0 THEN @ - 1 ELSE @]
  /\ UNCHANGED <<maxNumberOfEntries, noOfThreads, statistics, latest>>

(* The increment wraps around in the three bits before it is capped. *)
Older(age) == LET next == Uint3(age + 1) IN IF next > 7 THEN 7 ELSE next

AgeEntries ==
  /\ data' = [i \in Slots |->
                IF i \in Swept /\ data[i].key # 0
                THEN [data[i] EXCEPT !.age = Older(@)] ELSE data[i]]
  /\ UNCHANGED <<maxNumberOfEntries, noOfThreads, statistics, latest>>

Clear ==
  /\ maxNumberOfEntries > 0
  /\ data' = [i \in Slots |-> IF i \in Swept THEN Cleared(data[i]) ELSE data[i]]
  /\ ResetStatistics
  /\ latest' = NothingStored
  /\ UNCHANGED <<maxNumberOfEntries, noOfThreads>>

(* Seeded fault: resize() keeps the entries that fit. *)
ResizeKeepsEntries(size) ==
  /\ maxNumberOfEntries' = size
  /\ data' = [i \in 0 .. size - 1 |-> IF i \in Slots THEN data[i] ELSE NewEntry]
  /\ UNCHANGED <<statistics, latest, noOfThreads>>

(* resize() to 0 entries leaves the statistics alone: clear() returns early. *)
Resize(size) ==
  /\ maxNumberOfEntries' = size
  /\ data' = [i \in 0 .. size - 1 |-> NewEntry]
  /\ IF size = 0 THEN UNCHANGED statistics ELSE ResetStatistics
  /\ latest' = NothingStored
  /\ UNCHANGED noOfThreads

SetThreads(n) ==
  /\ noOfThreads' = n
  /\ UNCHANGED <<maxNumberOfEntries, data, statistics, latest>>

Next ==
  \/ \E key \in Keys, r \in Results :
       PutNew(key, r) \/ PutCollision(key, r) \/ PutUpdate(key, r)
  \/ \E key \in Keys : Probe(key)
  \/ AgeEntries \/ Clear
  \/ \E size \in Sizes \cup {0} : Resize(size)
  \/ \E n \in ThreadCounts : SetThreads(n)

Spec == Init /\ [][Next]_vars

-----------------------------------------------------------------------------
Moves  == {r.move : r \in Results} \cup {MOVE_NONE}
Values == {r.value : r \in Results} \cup {VALUE_NONE}
Evals  == {r.eval : r \in Results} \cup {VALUE_NONE}
Types  == {r.type : r \in Results} \cup {Garbage}

EntryType == [key: Keys \cup {0}, move: Moves, depth: -64 .. 63, value: Values,
              eval: Evals, type: Types, age: 0 .. 7]

LatestType == [Keys -> [move: Moves, eval: Evals, value: Values, depth: 0 .. 127,
                        type: Types]]

TypeOK ==
  /\ maxNumberOfEntries \in Sizes \cup {0}
  /\ noOfThreads \in ThreadCounts
  /\ data \in [Slots -> EntryType]
  /\ numberOfEntries \in Nat /\ numberOfPuts \in Nat
  /\ numberOfCollisions \in Nat /\ numberOfUpdates \in Nat
  /\ latest \in LatestType

Occupied == {i \in Slots : data[i].key # 0}

(* numberOfEntries counts the occupied entries through insertions,          *)
(* replacements and parallel clears, so that hashFull() never reports more  *)
(* than 1000 per mille.  (resize(0) leaves a count in a table that has no   *)
(* entries; hashFull() looks at the capacity first.)                        *)
EntryCount ==
  maxNumberOfEntries > 0 => numberOfEntries = Cardinality(Occupied)

(* The assertion at the end of put(), which no path of put() reaches.       *)
PutsAccounted ==
  numberOfPuts = numberOfEntries + numberOfCollisions + numberOfUpdates

(* Whatever is stored can be found again: an occupied entry is in the slot  *)
(* where getMatch() and probe() look for its key, also after a resize.      *)
InItsSlot == \A i \in Occupied : Slot(data[i].key) = i

(* The depth of an entry for the depth that put() was given: the same up to *)
(* 63.  A greater one does not fit the signed field and comes back negative *)
(* (against the comment "0-127"), so that search(), which asks for at least *)
(* its own depth, never takes the value; qsearch() asks for none.           *)
DepthKept(stored, given) == IF given <= 63 THEN stored = given ELSE stored < 0

(* Move and eval of an entry are the latest ones stored for its position or *)
(* none; value, depth and type belong together and are the latest too.      *)
Current(e, l) ==
  /\ e.move \in {MOVE_NONE, l.move}
  /\ e.eval \in {VALUE_NONE, l.eval}
  /\ e.value # VALUE_NONE =>
       e.value = l.value /\ e.type = l.type /\ DepthKept(e.depth, l.depth)

(* A hit never yields stale or mixed results: nothing of another position,  *)
(* of an earlier call of put() that a later one has superseded, or from     *)
(* before a clear; and never a depth that was not searched: of results      *)
(* deeper than 63 the depth is lost, but none promises too much.            *)
NeverStale == \A i \in Occupied : Current(data[i], latest[data[i].key])

(* The threads of clear() and ageEntries() sweep every entry exactly once,  *)
(* so that they neither race with each other nor leave an entry out.        *)
SweptOnce ==
  \A i \in Slots : \E t \in 0 .. noOfThreads - 1 :
    /\ i \in ThreadRange(t)
    /\ \A u \in 0 .. noOfThreads - 1 : i \in ThreadRange(u) => u = t

=============================================================================
