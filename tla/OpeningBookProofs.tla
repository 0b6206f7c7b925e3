-------------------------- MODULE OpeningBookProofs --------------------------
(***************************************************************************)
(* The opening book uses its thread pool as ThreadPool says, and what it   *)
(* holds is at any time a tree of legal moves below the start position,   *)
(* for every number of threads, every file and every graph of positions.   *)
(***************************************************************************)
EXTENDS OpeningBook, FiniteSetTheorems, WellFoundedInduction, TLAPS

-----------------------------------------------------------------------------
(***************************************************************************)
(* The pool: no task is lost, for every number of workers and tasks.       *)
(***************************************************************************)
(* While tasks may be enqueued nobody stops; a worker ends only when it    *)
(* has seen an empty queue, which then stays empty; join waits for all.    *)
EndsKept ==
  /\ pool \in {"open", "notifying"} => ~mStopping
  /\ ~mStopping /\ pool # "none" => \A w \in Workers : worker[w] # "ended"
  /\ (\E w \in Workers : worker[w] = "ended") => mTasks = <<>>
  /\ pool = "none" => \A w \in Workers : worker[w] = "ended"

PoolInv == PoolTypeOK /\ EndsKept /\ TasksKept

LEMMA PoolInitInv == PoolInit => PoolInv
<1> SUFFICES ASSUME PoolInit PROVE PoolInv
  OBVIOUS
<1>1. PoolTypeOK
  <2>1. mTasks \in Seq(Nat) /\ pool \in OwnerLabels
    BY DEF PoolInit, OwnerLabels
  <2>2. worker \in [Workers -> WorkerLabels] /\ task \in [Workers -> Nat]
    BY DEF PoolInit, WorkerLabels
  <2>3. mStopping \in BOOLEAN
    BY DEF PoolInit
  <2>4. enqueued \in Nat /\ finished \subseteq Nat
    BY DEF PoolInit
  <2> QED BY <2>1, <2>2, <2>3, <2>4 DEF PoolTypeOK
<1>2. EndsKept
  BY DEF PoolInit, EndsKept
<1>3. enqueued = 0 /\ finished = {} /\ Len(mTasks) = 0
  BY DEF PoolInit
<1>4. Running = {}
  BY DEF PoolInit, Running
<1>5. TasksKept
  <2>1. finished \cup {task[w] : w \in Running} = {}
    BY <1>3, <1>4
  <2>2. 1 .. (enqueued - Len(mTasks)) = {} /\ 1 .. enqueued = {}
    BY <1>3
  <2> QED BY <1>3, <1>4, <2>1, <2>2 DEF TasksKept
<1> QED BY <1>1, <1>2, <1>5 DEF PoolInv

(* Facts about the queue, stated once: what Append and Tail do to it. *)
LEMMA QueueAppend ==
  ASSUME NEW s \in Seq(Nat), NEW x \in Nat
  PROVE  /\ Append(s, x) \in Seq(Nat)
         /\ Len(Append(s, x)) = Len(s) + 1
         /\ \A i \in 1 .. Len(s) : Append(s, x)[i] = s[i]
         /\ Append(s, x)[Len(s) + 1] = x
  OBVIOUS

LEMMA QueueTail ==
  ASSUME NEW s \in Seq(Nat), s # <<>>
  PROVE  /\ Head(s) \in Nat /\ Head(s) = s[1]
         /\ Tail(s) \in Seq(Nat)
         /\ Len(s) \in Nat /\ Len(s) > 0 /\ Len(Tail(s)) = Len(s) - 1
         /\ \A i \in 1 .. Len(s) - 1 : Tail(s)[i] = s[i + 1]
  OBVIOUS

LEMMA PoolStep ==
  PoolInv /\ [PoolNext]_poolVars => PoolInv'
<1> SUFFICES ASSUME PoolInv, [PoolNext]_poolVars PROVE PoolInv'
    OBVIOUS
<1> USE DEF PoolInv, PoolTypeOK, EndsKept, TasksKept, OwnerLabels, WorkerLabels
<1>1. CASE UNCHANGED poolVars
  BY <1>1 DEF poolVars, Running
<1>2. CASE Construct
  <2>1. PoolTypeOK'
    <3>1. mTasks' \in Seq(Nat) /\ pool' \in OwnerLabels
      BY <1>2 DEF Construct
    <3>2. worker' \in [Workers -> WorkerLabels] /\ task' \in [Workers -> Nat]
      BY <1>2 DEF Construct
    <3>3. mStopping' \in BOOLEAN
      BY <1>2 DEF Construct
    <3>4. enqueued' \in Nat /\ finished' \subseteq Nat
      BY <1>2 DEF Construct
    <3> QED BY <3>1, <3>2, <3>3, <3>4
  <2>2. EndsKept'
    BY <1>2 DEF Construct
  <2>3. enqueued' = 0 /\ finished' = {} /\ Len(mTasks') = 0 /\ pool' # "none"
    BY <1>2 DEF Construct
  <2>4. Running' = {}
    BY <1>2 DEF Construct, Running
  <2>5. TasksKept'
    <3>1. finished' \cup {task'[w] : w \in Running'} = {}
      BY <2>3, <2>4
    <3>2. 1 .. (enqueued' - Len(mTasks')) = {}
      BY <2>3
    <3> QED BY <2>3, <2>4, <3>1, <3>2
  <2> QED BY <2>1, <2>2, <2>5
<1>3. CASE Enqueue
  <2>1. /\ mTasks' \in Seq(Nat) /\ Len(mTasks') = Len(mTasks) + 1
        /\ \A i \in 1 .. Len(mTasks) : mTasks'[i] = mTasks[i]
        /\ mTasks'[Len(mTasks) + 1] = enqueued + 1
    BY <1>3, QueueAppend DEF Enqueue
  <2>2. \A i \in 1 .. Len(mTasks') : mTasks'[i] = enqueued' - Len(mTasks') + i
    <3> SUFFICES ASSUME NEW i \in 1 .. Len(mTasks')
                 PROVE  mTasks'[i] = enqueued' - Len(mTasks') + i
      OBVIOUS
    <3>1. enqueued' = enqueued + 1 /\ Len(mTasks) \in Nat
      BY <1>3 DEF Enqueue
    <3>2. CASE i = Len(mTasks) + 1
      BY <2>1, <3>1, <3>2
    <3>3. CASE i \in 1 .. Len(mTasks)
      BY <2>1, <3>1, <3>3
    <3> QED BY <2>1, <3>1, <3>2, <3>3
  <2>3. /\ Len(mTasks') <= enqueued' /\ enqueued' - Len(mTasks') = enqueued - Len(mTasks)
    BY <1>3, <2>1 DEF Enqueue
  <2>4. PoolTypeOK'
    BY <1>3, <2>1 DEF Enqueue
  <2>6. EndsKept'
    BY <1>3 DEF Enqueue
  <2>5. Running' = Running /\ task' = task /\ finished' = finished /\ pool' # "none"
    BY <1>3 DEF Enqueue, Running
  <2> QED BY <2>2, <2>3, <2>4, <2>5, <2>6
<1>4. CASE NotifyOne
  BY <1>4 DEF NotifyOne, Asleep, Running
<1>5. CASE Stop
  BY <1>5 DEF Stop, Running
<1>6. CASE NotifyAll
  BY <1>6 DEF NotifyAll, Asleep, Running
<1>7. CASE Join
  <2>1. {task[w] : w \in Running} = {} /\ mTasks = <<>>
    BY <1>7, WorkersAssumption DEF Join, Running
  <2>2. finished = 1 .. enqueued
    <3>1. Len(mTasks) = 0
      BY <2>1
    <3>2. finished \cup {task[w] : w \in Running} = 1 .. enqueued
      BY <3>1
    <3> QED BY <2>1, <3>2
  <2>3. PoolTypeOK' /\ EndsKept'
    BY <1>7, <2>1 DEF Join
  <2>4. /\ Running' = Running /\ task' = task /\ finished' = finished
        /\ mTasks' = mTasks /\ enqueued' = enqueued
    BY <1>7 DEF Join, Running
  <2> QED BY <2>2, <2>3, <2>4
<1>8. ASSUME NEW w \in Workers, Take(w) PROVE PoolInv'
  <2>1. /\ Head(mTasks) \in Nat /\ Head(mTasks) = mTasks[1] /\ mTasks' \in Seq(Nat)
        /\ Len(mTasks) \in Nat /\ Len(mTasks) > 0 /\ Len(mTasks') = Len(mTasks) - 1
        /\ \A i \in 1 .. Len(mTasks) - 1 : mTasks'[i] = mTasks[i + 1]
    BY <1>8, QueueTail DEF Take
  <2> DEFINE t == enqueued - Len(mTasks) + 1
  <2>2. task'[w] = t /\ t \in Nat /\ 1 .. (enqueued - Len(mTasks')) = 1 .. (t - 1) \cup {t}
    BY <1>8, <2>1 DEF Take
  <2>3. Running' = Running \cup {w} /\ w \notin Running
    BY <1>8 DEF Take, Running
  <2>4. \A v \in Running : task'[v] = task[v] /\ task[v] \in 1 .. (t - 1)
    BY <1>8, <2>1, <2>3 DEF Take, Running
  <2>5. {task'[v] : v \in Running'} = {task[v] : v \in Running} \cup {t}
    <3>1. {task'[v] : v \in Running'} \subseteq {task[v] : v \in Running} \cup {t}
      BY <2>2, <2>3, <2>4
    <3>2. {task[v] : v \in Running} \subseteq {task'[v] : v \in Running'}
      BY <2>3, <2>4
    <3>3. t \in {task'[v] : v \in Running'}
      BY <2>2, <2>3
    <3> QED BY <3>1, <3>2, <3>3
  <2>6. t \notin 1 .. (t - 1) /\ finished \subseteq 1 .. (t - 1)
    BY <2>1, <2>2
  <2>7. /\ finished' = finished /\ enqueued' = enqueued
    BY <1>8 DEF Take
  <2>8. finished' \cup {task'[v] : v \in Running'} = 1 .. (enqueued' - Len(mTasks'))
    <3>1. finished \cup {task[v] : v \in Running} = 1 .. (t - 1)
      BY <2>1, <2>2
    <3> QED BY <2>2, <2>5, <2>7, <3>1
  <2>9. \A v \in Running' : task'[v] \notin finished'
    BY <2>2, <2>3, <2>4, <2>6, <2>7
  <2>10. \A u, v \in Running' : task'[u] = task'[v] => u = v
    BY <2>2, <2>3, <2>4, <2>6
  <2>11. \A i \in 1 .. Len(mTasks') : mTasks'[i] = enqueued' - Len(mTasks') + i
    <3> SUFFICES ASSUME NEW i \in 1 .. Len(mTasks')
                 PROVE  mTasks'[i] = enqueued' - Len(mTasks') + i
      OBVIOUS
    <3>1. i \in Nat /\ i \in 1 .. Len(mTasks) - 1 /\ i + 1 \in 1 .. Len(mTasks)
      BY <2>1
    <3>2. mTasks[i + 1] = enqueued - Len(mTasks) + (i + 1)
      BY <3>1
    <3> QED BY <2>1, <2>7, <3>1, <3>2
  <2>12. PoolTypeOK' /\ EndsKept'
    BY <1>8, <2>1 DEF Take
  <2>13. Len(mTasks') <= enqueued' /\ pool' # "none"
    BY <1>8, <2>1, <2>7 DEF Take
  <2> QED BY <2>8, <2>9, <2>10, <2>11, <2>12, <2>13
<1>9. ASSUME NEW w \in Workers, Sleep(w) PROVE PoolInv'
  BY <1>9 DEF Sleep, Running
<1>10. ASSUME NEW w \in Workers, Wake(w) PROVE PoolInv'
  BY <1>10 DEF Wake, Running
<1>11. ASSUME NEW w \in Workers, End(w) PROVE PoolInv'
  BY <1>11 DEF End, Running
<1>12. ASSUME NEW w \in Workers, Finish(w) PROVE PoolInv'
  <2>1. Running' = Running \ {w} /\ w \in Running
    BY <1>12 DEF Finish, Running
  <2>2. /\ finished' = finished \cup {task[w]} /\ task' = task
        /\ mTasks' = mTasks /\ enqueued' = enqueued
    BY <1>12 DEF Finish
  <2>3. finished' \cup {task'[v] : v \in Running'} = finished \cup {task[v] : v \in Running}
    BY <2>1, <2>2
  <2>4. \A v \in Running' : task'[v] \notin finished'
    BY <2>1, <2>2
  <2>5. PoolTypeOK' /\ EndsKept' /\ pool' # "none"
    BY <1>12 DEF Finish
  <2> QED BY <2>1, <2>2, <2>3, <2>4, <2>5
<1> QED BY <1>1, <1>2, <1>3, <1>4, <1>5, <1>6, <1>7, <1>8, <1>9, <1>10, <1>11, <1>12 DEF PoolNext

(* Tasks are executed once each, in their order, and all of them before    *)
(* the destructor of the pool returns.                                     *)
THEOREM NoTaskLost == PoolSpec => []TasksKept
<1>1. PoolInv => TasksKept
  BY DEF PoolInv
<1> QED BY <1>1, PoolInitInv, PoolStep, PTL DEF PoolSpec

-----------------------------------------------------------------------------
(***************************************************************************)
(* The book and its pool.                                                  *)
(***************************************************************************)
(* Every step of the book is a step of the pool, or leaves it alone. *)
LEMMA PoolSimulated == [Next]_vars => [PoolNext]_poolVars
<1> SUFFICES ASSUME [Next]_vars PROVE [PoolNext]_poolVars
  OBVIOUS
<1>1. CASE UNCHANGED vars
  BY <1>1 DEF vars, poolVars
<1>2. CASE Call
  BY <1>2 DEF Call, loadFromCache, readLines, readGamesPgn, reset, PoolNext
<1>3. CASE Restart
  BY <1>3 DEF Restart
<1>4. CASE OwnerStep
  BY <1>4 DEF OwnerStep, SkipBlank, GoOn, EnqueueGame, EnqueueLast, Notify, AwaitResults, StopNotify,
     DestroyPool, JoinThreads, OpenCache, saveToCache, NoCache, PoolNext
<1>5. ASSUME NEW w \in Workers, WorkerStep(w) \/ WakeWorker(w) PROVE [PoolNext]_poolVars
  BY <1>5 DEF WorkerStep, WakeWorker, TakeGame, FinishGame, SleepWorker, EndWorker, ReadLine, CountRoot,
     AddMove, PoolNext
<1> QED BY <1>1, <1>2, <1>3, <1>4, <1>5 DEF Next

(* The builder of the book is a lawful owner of its pool. *)
THEOREM UsesPool == Spec => PoolSpec
<1>1. Init => PoolInit
  BY DEF Init
<1> QED BY <1>1, PoolSimulated, PTL DEF Spec, PoolSpec

(* So no game of the file is lost or read twice on its way to a worker. *)
THEOREM GamesKept == Spec => []TasksKept
  BY UsesPool, NoTaskLost, PTL

-----------------------------------------------------------------------------
Entry == [counter : Nat, moves : Seq(Moves), nextPosition : Seq(Key)]

(* The entries in the order in which they came: a move of an older one     *)
(* leads to each.  So the games, which transpose and return, make no cycle *)
(* of the book.                                                            *)
Ordered(map) ==
  /\ IsFiniteSet(DOMAIN map)
  /\ \E rank \in [DOMAIN map -> Nat] :
       /\ \A k \in DOMAIN map : rank[k] < Cardinality(DOMAIN map)
       /\ \A k \in DOMAIN map \ {Root} : \E p \in DOMAIN map : \E i \in 1 .. Len(map[p].nextPosition) :
            Leads(map, p, i, k) /\ rank[p] < rank[k]

BookOK(map) ==
  /\ DOMAIN map \subseteq Key
  /\ map \in [DOMAIN map -> Entry]
  /\ DOMAIN map # {} => Root \in DOMAIN map
  /\ EdgesLegal(map)
  /\ OneWayIn(map)
  /\ Ordered(map)

LEMMA EmptyOK == BookOK([k \in {} |-> BookEntry(0)])
<1> DEFINE map == [k \in {} |-> BookEntry(0)]
<1>1. Ordered(map)
  <2>1. DOMAIN map = {}
    OBVIOUS
  <2>2. [k \in {} |-> 0] \in [{} -> Nat]
    OBVIOUS
  <2> HIDE DEF map
  <2> QED BY <2>1, <2>2, FS_EmptySet DEF Ordered
<1> QED BY <1>1 DEF BookOK, EdgesLegal, OneWayIn

(* The counters play no part in it. *)
LEMMA CounterOK ==
  ASSUME NEW map, BookOK(map), NEW k \in DOMAIN map, NEW n \in Nat
  PROVE  LET new == [map EXCEPT ![k].counter = n]
         IN BookOK(new) /\ DOMAIN new = DOMAIN map
<1> DEFINE new == [map EXCEPT ![k].counter = n]
<1>1. DOMAIN new = DOMAIN map /\ new \in [DOMAIN new -> Entry]
  BY DEF BookOK, Entry
<1>2. \A q \in DOMAIN map : new[q].moves = map[q].moves /\ new[q].nextPosition = map[q].nextPosition
  BY DEF BookOK, Entry
<1> HIDE DEF new
<1>3. EdgesLegal(new)
  BY <1>1, <1>2 DEF BookOK, EdgesLegal
<1>4. OneWayIn(new)
  <2>1. OneWayIn(map)
    BY DEF BookOK
  <2> QED BY <1>1, <1>2, <2>1 DEF OneWayIn, Leads
<1>5. Ordered(new)
  <2>1. PICK rank \in [DOMAIN map -> Nat] :
          /\ \A q \in DOMAIN map : rank[q] < Cardinality(DOMAIN map)
          /\ \A q \in DOMAIN map \ {Root} : \E p \in DOMAIN map : \E i \in 1 .. Len(map[p].nextPosition) :
               Leads(map, p, i, q) /\ rank[p] < rank[q]
    BY DEF BookOK, Ordered
  <2>2. \A q \in DOMAIN map \ {Root} : \E p \in DOMAIN new : \E i \in 1 .. Len(new[p].nextPosition) :
          Leads(new, p, i, q) /\ rank[p] < rank[q]
    BY <1>1, <1>2, <2>1 DEF Leads
  <2>3. IsFiniteSet(DOMAIN new) /\ rank \in [DOMAIN new -> Nat]
    BY <1>1 DEF BookOK, Ordered
  <2> QED BY <1>1, <2>1, <2>2, <2>3 DEF Ordered
<1>6. BookOK(new) /\ DOMAIN new = DOMAIN map
  BY <1>1, <1>3, <1>4, <1>5 DEF BookOK
<1> QED BY <1>6 DEF new

(* A new entry without moves and without a way in: the root. *)
LEMMA RootOK ==
  ASSUME NEW map, BookOK(map), Root \notin DOMAIN map
  PROVE  BookOK(WithEntry(map, Root, 1)) /\ DOMAIN WithEntry(map, Root, 1) = DOMAIN map \cup {Root}
<1> DEFINE new == WithEntry(map, Root, 1)
<1>1. /\ DOMAIN new = DOMAIN map \cup {Root}
      /\ new[Root] = [counter |-> 1, moves |-> <<>>, nextPosition |-> <<>>]
      /\ \A q \in DOMAIN map : new[q] = map[q]
  BY DEF WithEntry, BookEntry
<1>2. new[Root] \in Entry
  <2>1. BookEntry(1) \in Entry
    BY DEF BookEntry, Entry
  <2> QED BY <1>1, <2>1 DEF BookEntry
<1>3. new \in [DOMAIN new -> Entry]
  <2>1. new = [q \in DOMAIN new |-> new[q]]
    BY DEF WithEntry
  <2>2. \A q \in DOMAIN new : new[q] \in Entry
    BY <1>1, <1>2 DEF BookOK
  <2> HIDE DEF new
  <2> QED BY <2>1, <2>2
<1> HIDE DEF new
<1>4. EdgesLegal(new)
  <2> SUFFICES ASSUME NEW k \in DOMAIN new
      PROVE /\ Len(new[k].moves) = Len(new[k].nextPosition)
            /\ \A i \in 1 .. Len(new[k].moves) :
                 /\ new[k].moves[i] \in DOMAIN After[k]
                 /\ new[k].nextPosition[i] = After[k][new[k].moves[i]]
                 /\ new[k].nextPosition[i] \in DOMAIN new
    BY DEF EdgesLegal
  <2>1. CASE k = Root
    BY <1>1, <2>1
  <2>2. CASE k # Root
    BY <1>1, <2>2 DEF BookOK, EdgesLegal
  <2> QED BY <2>1, <2>2
<1>5. OneWayIn(new)
  <2>1. \A p \in DOMAIN new, i \in Nat : i \in 1 .. Len(new[p].nextPosition) =>
           p \in DOMAIN map /\ new[p].nextPosition = map[p].nextPosition
    BY <1>1
  <2>2. \A p \in DOMAIN map : \A i \in 1 .. Len(map[p].nextPosition) : map[p].nextPosition[i] \in DOMAIN map
    BY DEF BookOK, EdgesLegal
  <2>3. \A k \in DOMAIN new \ {Root} :
          \E p \in DOMAIN new : \E i \in 1 .. Len(new[p].nextPosition) : Leads(new, p, i, k)
    BY <1>1 DEF BookOK, OneWayIn, Leads
  <2>4. ASSUME NEW p \in DOMAIN new, NEW q \in DOMAIN new, NEW k \in DOMAIN new,
               NEW i \in 1 .. Len(new[p].nextPosition), NEW j \in 1 .. Len(new[q].nextPosition),
               Leads(new, p, i, k), Leads(new, q, j, k)
        PROVE  k # Root /\ p = q /\ i = j
    <3>1. /\ p \in DOMAIN map /\ new[p].nextPosition = map[p].nextPosition
          /\ q \in DOMAIN map /\ new[q].nextPosition = map[q].nextPosition
      BY <2>1, <2>4
    <3>2. k \in DOMAIN map
      BY <2>2, <2>4, <3>1 DEF Leads
    <3> QED BY <2>4, <3>1, <3>2 DEF BookOK, OneWayIn, Leads
  <2> QED BY <2>3, <2>4 DEF OneWayIn
<1>6. Ordered(new)
  <2>1. DOMAIN new = {Root}
    BY <1>1 DEF BookOK
  <2>2. IsFiniteSet(DOMAIN new) /\ Cardinality(DOMAIN new) = 1
    BY <2>1, FS_Singleton
  <2> DEFINE rank == [q \in {Root} |-> 0]
  <2>3. rank \in [DOMAIN new -> Nat] /\ \A k \in DOMAIN new : rank[k] < 1
    BY <2>1
  <2>4. DOMAIN new \ {Root} = {}
    BY <2>1
  <2> HIDE DEF rank
  <2> QED BY <2>2, <2>3, <2>4 DEF Ordered
<1> QED BY <1>1, <1>3, <1>4, <1>5, <1>6, GraphAssumption DEF BookOK, new

(* A position that is new, and the move that leads to it from a known one. *)
LEMMA AddedOK ==
  ASSUME NEW map, BookOK(map), NEW last \in DOMAIN map, NEW move \in DOMAIN After[last],
         After[last][move] \notin DOMAIN map, Root \in DOMAIN map
  PROVE  LET new == WithMove(WithEntry(map, After[last][move], 1), last, move, After[last][move])
         IN BookOK(new) /\ DOMAIN new = DOMAIN map \cup {After[last][move]}
<1> DEFINE key == After[last][move]
           n   == Len(map[last].moves)
           new == WithMove(WithEntry(map, key, 1), last, move, key)
<1>1. last \in Key /\ key \in Key /\ move \in Moves /\ last # key /\ key # Root
  BY GraphAssumption DEF BookOK
<1>2. /\ DOMAIN new = DOMAIN map \cup {key}
      /\ new[key] = BookEntry(1)
      /\ \A q \in DOMAIN map \ {last} : new[q] = map[q]
      /\ new[last] = [counter |-> map[last].counter, moves |-> Append(map[last].moves, move),
                      nextPosition |-> Append(map[last].nextPosition, key)]
      /\ new = [q \in DOMAIN new |-> new[q]]
  <2>1. map[last] \in Entry
    BY DEF BookOK
  <2> QED BY <1>1, <2>1 DEF WithMove, WithEntry, BookEntry, Entry
<1> HIDE DEF new, key
<1>3. BookEntry(1) \in Entry
  BY DEF BookEntry, Entry
<1>4. /\ map[last].moves \in Seq(Moves) /\ map[last].nextPosition \in Seq(Key) /\ map[last].counter \in Nat
      /\ n \in Nat /\ n = Len(map[last].nextPosition)
  <2>1. map[last] \in Entry
    BY DEF BookOK
  <2> QED BY <2>1 DEF BookOK, EdgesLegal, Entry
<1>5. /\ new[last].moves \in Seq(Moves) /\ Len(new[last].moves) = n + 1
      /\ \A i \in 1 .. n : new[last].moves[i] = map[last].moves[i]
      /\ new[last].moves[n + 1] = move
  BY <1>1, <1>2, <1>4
<1>6. /\ new[last].nextPosition \in Seq(Key) /\ Len(new[last].nextPosition) = n + 1
      /\ \A i \in 1 .. n : new[last].nextPosition[i] = map[last].nextPosition[i]
      /\ new[last].nextPosition[n + 1] = key
  BY <1>1, <1>2, <1>4
<1>7. new \in [DOMAIN new -> Entry]
  <2>1. new[last] \in Entry
    BY <1>2, <1>4, <1>5, <1>6 DEF Entry
  <2>2. \A q \in DOMAIN new : new[q] \in Entry
    BY <1>2, <1>3, <2>1 DEF BookOK
  <2> QED BY <1>2, <2>2
<1>8. EdgesLegal(new)
  <2> SUFFICES ASSUME NEW k \in DOMAIN new
      PROVE /\ Len(new[k].moves) = Len(new[k].nextPosition)
            /\ \A i \in 1 .. Len(new[k].moves) :
                 /\ new[k].moves[i] \in DOMAIN After[k]
                 /\ new[k].nextPosition[i] = After[k][new[k].moves[i]]
                 /\ new[k].nextPosition[i] \in DOMAIN new
    BY DEF EdgesLegal
  <2>1. CASE k = key
    BY <1>2, <2>1 DEF BookEntry
  <2>2. CASE k = last
    <3> SUFFICES ASSUME NEW i \in 1 .. n + 1
        PROVE /\ new[k].moves[i] \in DOMAIN After[k]
              /\ new[k].nextPosition[i] = After[k][new[k].moves[i]]
              /\ new[k].nextPosition[i] \in DOMAIN new
      BY <1>5, <1>6, <2>2
    <3>1. CASE i = n + 1
      BY <1>2, <1>5, <1>6, <2>2, <3>1 DEF key
    <3>2. CASE i \in 1 .. n
      BY <1>2, <1>5, <1>6, <2>2, <3>2 DEF BookOK, EdgesLegal
    <3> QED BY <1>4, <3>1, <3>2
  <2>3. CASE k \in DOMAIN map \ {last}
    BY <1>2, <2>3 DEF BookOK, EdgesLegal
  <2> QED BY <1>2, <2>1, <2>2, <2>3
<1>9. OneWayIn(new)
  <2>1. ASSUME NEW p \in DOMAIN new, NEW i \in 1 .. Len(new[p].nextPosition)
        PROVE  \/ p = last /\ i = n + 1 /\ new[p].nextPosition[i] = key
               \/ /\ p \in DOMAIN map /\ i \in 1 .. Len(map[p].nextPosition)
                  /\ new[p].nextPosition[i] = map[p].nextPosition[i]
                  /\ map[p].nextPosition[i] \in DOMAIN map
    <3>1. CASE p = key
      BY <1>2, <3>1, <2>1 DEF BookEntry
    <3>2. CASE p = last
      BY <1>4, <1>6, <2>1, <3>2 DEF BookOK, EdgesLegal
    <3>3. CASE p \in DOMAIN map \ {last}
      BY <1>2, <2>1, <3>3 DEF BookOK, EdgesLegal
    <3> QED BY <1>2, <3>1, <3>2, <3>3
  <2>2. ASSUME NEW k \in DOMAIN new \ {Root}
        PROVE  \E p \in DOMAIN new : \E i \in 1 .. Len(new[p].nextPosition) : Leads(new, p, i, k)
    <3>1. CASE k = key
      BY <1>2, <1>4, <1>6, <3>1 DEF Leads
    <3>2. CASE k \in DOMAIN map
      <4>1. PICK p \in DOMAIN map : \E i \in 1 .. Len(map[p].nextPosition) : map[p].nextPosition[i] = k
        BY <2>2, <3>2 DEF BookOK, OneWayIn, Leads
      <4>2. PICK i \in 1 .. Len(map[p].nextPosition) : map[p].nextPosition[i] = k
        BY <4>1
      <4>3. i \in 1 .. Len(new[p].nextPosition) /\ new[p].nextPosition[i] = k
        BY <1>2, <1>4, <1>6, <4>2
      <4> QED BY <1>2, <4>3 DEF Leads
    <3> QED BY <1>2, <2>2, <3>1, <3>2
  <2>3. ASSUME NEW p \in DOMAIN new, NEW q \in DOMAIN new, NEW k \in DOMAIN new,
               NEW i \in 1 .. Len(new[p].nextPosition), NEW j \in 1 .. Len(new[q].nextPosition),
               Leads(new, p, i, k), Leads(new, q, j, k)
        PROVE  k # Root /\ p = q /\ i = j
    <3>1. CASE k = key
      <4>1. p = last /\ i = n + 1
        BY <2>1, <2>3, <3>1 DEF Leads, key
      <4>2. q = last /\ j = n + 1
        BY <2>1, <2>3, <3>1 DEF Leads, key
      <4> QED BY <1>1, <3>1, <4>1, <4>2
    <3>2. CASE k # key
      <4>1. p \in DOMAIN map /\ i \in 1 .. Len(map[p].nextPosition) /\ map[p].nextPosition[i] = k
        BY <2>1, <2>3, <3>2 DEF Leads
      <4>2. q \in DOMAIN map /\ j \in 1 .. Len(map[q].nextPosition) /\ map[q].nextPosition[j] = k
        BY <2>1, <2>3, <3>2 DEF Leads
      <4>3. k \in DOMAIN map
        BY <1>2, <3>2
      <4> QED BY <4>1, <4>2, <4>3 DEF BookOK, OneWayIn, Leads
    <3> QED BY <3>1, <3>2
  <2> QED BY <2>2, <2>3 DEF OneWayIn
<1>10. DOMAIN new \subseteq Key
  BY <1>1, <1>2 DEF BookOK
<1>11. Ordered(new)
  <2>1. PICK rank \in [DOMAIN map -> Nat] :
          /\ \A k \in DOMAIN map : rank[k] < Cardinality(DOMAIN map)
          /\ \A k \in DOMAIN map \ {Root} : \E p \in DOMAIN map : \E i \in 1 .. Len(map[p].nextPosition) :
               map[p].nextPosition[i] = k /\ rank[p] < rank[k]
    BY DEF BookOK, Ordered, Leads
  <2> DEFINE size == Cardinality(DOMAIN map)
             later == [q \in DOMAIN new |-> IF q = key THEN size ELSE rank[q]]
  <2>2. key \notin DOMAIN map
    BY DEF key
  <2>3. IsFiniteSet(DOMAIN new) /\ Cardinality(DOMAIN new) = size + 1 /\ size \in Nat
    <3>1. IsFiniteSet(DOMAIN map)
      BY DEF BookOK, Ordered
    <3> QED BY <1>2, <2>2, <3>1, FS_AddElement, FS_CardinalityType
  <2>4. /\ later \in [DOMAIN new -> Nat] /\ later[key] = size
        /\ \A q \in DOMAIN map : later[q] = rank[q] /\ rank[q] \in Nat /\ rank[q] < size
    BY <1>2, <2>1, <2>2, <2>3
  <2> HIDE DEF size, later
  <2>5. \A k \in DOMAIN new : later[k] < size + 1
    BY <1>2, <2>3, <2>4
  <2>6. ASSUME NEW k \in DOMAIN new \ {Root}
        PROVE  \E p \in DOMAIN new : \E i \in 1 .. Len(new[p].nextPosition) :
                 Leads(new, p, i, k) /\ later[p] < later[k]
    <3>1. CASE k = key
      <4>1. n + 1 \in 1 .. Len(new[last].nextPosition) /\ later[last] < later[k]
        BY <1>4, <1>6, <2>4, <3>1
      <4> QED BY <1>2, <1>6, <3>1, <4>1 DEF Leads
    <3>2. CASE k \in DOMAIN map
      <4>1. PICK p \in DOMAIN map : \E i \in 1 .. Len(map[p].nextPosition) :
              map[p].nextPosition[i] = k /\ rank[p] < rank[k]
        BY <2>1, <2>6, <3>2
      <4>2. PICK i \in 1 .. Len(map[p].nextPosition) : map[p].nextPosition[i] = k
        BY <4>1
      <4>3. i \in 1 .. Len(new[p].nextPosition) /\ new[p].nextPosition[i] = k
        <5>1. CASE p = last
          BY <1>4, <1>6, <4>2, <5>1
        <5>2. CASE p # last
          BY <1>2, <4>2, <5>2
        <5> QED BY <5>1, <5>2
      <4>4. later[p] < later[k]
        BY <2>4, <3>2, <4>1
      <4> QED BY <1>2, <4>3, <4>4 DEF Leads
    <3> QED BY <1>2, <2>6, <3>1, <3>2
  <2> QED BY <2>3, <2>4, <2>5, <2>6 DEF Ordered
<1>12. BookOK(new)
  BY <1>2, <1>7, <1>8, <1>9, <1>10, <1>11 DEF BookOK
<1> QED BY <1>2, <1>12 DEF new, key

-----------------------------------------------------------------------------
WholeOK(c) == c = NoFile \/ c = Torn \/ \E b : c = Whole(b) /\ BookOK(b) /\ Root \in DOMAIN b

(* A pool exists only while a PGN file is read; a thread in a game stands  *)
(* on a position of the book, whose first entry is the root.               *)
ThreadsOK ==
  /\ owner \in OwnerStates
  /\ owner \notin {"scanning", "waiting", "leaving", "unwinding"} => pool = "none"
  /\ owner \notin {"idle", "thrown"} => Root \in DOMAIN bookMap
  /\ lastKey \in [Workers -> Key \cup {None}]
  /\ \A w \in Workers : Working(w) => lastKey[w] = None \/ lastKey[w] \in DOMAIN bookMap

BookInv == PoolInv /\ ThreadsOK /\ BookOK(bookMap) /\ WholeOK(cacheFile)

LEMMA EmptyKeys == [w \in Workers |-> None] \in [Workers -> Key \cup {None}]
  OBVIOUS

LEMMA NotWorking == PoolInv /\ pool = "none" => \A w \in Workers : worker[w] # "running"
  BY DEF PoolInv, EndsKept

LEMMA InitBook == Init => BookInv
<1> SUFFICES ASSUME Init PROVE BookInv
  OBVIOUS
<1>1. PoolInv
  BY PoolInitInv DEF Init
<1>2. BookOK(bookMap) /\ WholeOK(cacheFile)
  BY EmptyOK DEF Init, NewProcess, WholeOK
<1>3. ThreadsOK
  BY EmptyKeys DEF Init, NewProcess, ThreadsOK, OwnerStates, PoolInit
<1> QED BY <1>1, <1>2, <1>3 DEF BookInv

(* What the steps do that leave book, games and cache alone. *)
LEMMA QuietStep ==
  ASSUME BookInv, PoolInv', UNCHANGED <<bookMap, cacheFile, lastKey>>, owner' \in OwnerStates,
         owner' \notin {"scanning", "waiting", "leaving", "unwinding"} => pool' = "none",
         owner' \in {"idle", "thrown"} \/ Root \in DOMAIN bookMap,
         \A w \in Workers : Working(w)' => Working(w) \/ lastKey[w] = None
  PROVE  BookInv'
  BY DEF BookInv, ThreadsOK

LEMMA BookStep == BookInv /\ [Next]_vars => BookInv'
<1> SUFFICES ASSUME BookInv, [Next]_vars PROVE BookInv'
  OBVIOUS
<1>1. PoolInv'
  BY PoolStep, PoolSimulated DEF BookInv
<1>2. CASE UNCHANGED vars
  BY <1>1, <1>2, QuietStep DEF vars, poolVars, bookVars, cacheVars, gameVars, BookInv, ThreadsOK, Working
<1>3. CASE loadFromCache
  <2>1. cacheFile # Torn => BookOK(cacheFile.book) /\ Root \in DOMAIN cacheFile.book
    <3>1. ASSUME cacheFile # Torn
          PROVE  \E b : cacheFile = Whole(b) /\ BookOK(b) /\ Root \in DOMAIN b
      BY <1>3, <3>1 DEF loadFromCache, FromCache, BookInv, WholeOK
    <3>2. ASSUME NEW b PROVE Whole(b).book = b
      BY DEF Whole
    <3> QED BY <3>1, <3>2
  <2>2. /\ BookOK(bookMap')
        /\ owner' \in {"idle", "thrown"} \/ Root \in DOMAIN bookMap'
    BY <1>3, <2>1 DEF loadFromCache, BookInv
  <2>3. \A w \in Workers : ~Working(w)'
    BY <1>1, <1>3, NotWorking DEF loadFromCache, Callable, BookInv, ThreadsOK, Working, poolVars
  <2>4. ThreadsOK'
    BY <1>3, <2>2, <2>3 DEF loadFromCache, Callable, BookInv, ThreadsOK, poolVars, gameVars, OwnerStates
  <2> QED BY <1>1, <1>3, <2>2, <2>4 DEF loadFromCache, BookInv, cacheVars
<1>4. CASE readLines \/ readGamesPgn
  <2>1. RootEntry
    BY <1>4 DEF readLines, readGamesPgn
  <2>2. BookOK(bookMap') /\ Root \in DOMAIN bookMap'
    <3> DEFINE map == IF Root \in DOMAIN bookMap THEN bookMap ELSE WithEntry(bookMap, Root, 1)
    <3>1. BookOK(map) /\ Root \in DOMAIN map
      BY RootOK DEF BookInv
    <3>2. bookMap' = [map EXCEPT ![Root].counter = 0]
      BY <2>1 DEF RootEntry
    <3> HIDE DEF map
    <3> QED BY <3>1, <3>2, CounterOK
  <2>3. \A w \in Workers : Working(w)' => lastKey'[w] = None
    <3>1. CASE readLines
      BY <3>1 DEF readLines
    <3>2. CASE readGamesPgn
      BY <3>2 DEF readGamesPgn, Construct, Working
    <3> QED BY <1>4, <3>1, <3>2
  <2>4. ThreadsOK'
    BY <1>4, <2>2, <2>3, EmptyKeys DEF readLines, readGamesPgn, Callable, BookInv, ThreadsOK, poolVars, gameVars,
       OwnerStates
  <2> QED BY <1>1, <1>4, <2>2, <2>4 DEF readLines, readGamesPgn, BookInv, cacheVars
<1>5. CASE reset
  <2>1. \A w \in Workers : ~Working(w)'
    BY <1>5, NotWorking DEF reset, BookInv, ThreadsOK, Working, poolVars
  <2>2. BookOK(bookMap')
    BY <1>5, EmptyOK DEF reset
  <2>3. ThreadsOK'
    BY <1>5, <2>1 DEF reset, BookInv, ThreadsOK, poolVars, gameVars, OwnerStates
  <2> QED BY <1>1, <1>5, <2>2, <2>3 DEF reset, BookInv, cacheVars
<1>6. CASE Restart
  <2>1. \A w \in Workers : ~Working(w)'
    BY <1>6, NotWorking DEF Restart, NewProcess, BookInv, Working, poolVars
  <2>2. BookOK(bookMap')
    BY <1>6, EmptyOK DEF Restart, NewProcess
  <2>3. ThreadsOK'
    BY <1>6, <2>1, EmptyKeys DEF Restart, NewProcess, ThreadsOK, poolVars, OwnerStates
  <2> QED BY <1>1, <1>6, <2>2, <2>3 DEF Restart, BookInv
<1>7. CASE OwnerStep
  <2> USE DEF BookInv, ThreadsOK, OwnerStates, Working, bookVars, cacheVars, gameVars, poolVars
  <2>1. CASE SkipBlank \/ GoOn
    BY <1>1, <2>1, QuietStep DEF SkipBlank, GoOn
  <2>2. CASE EnqueueGame \/ EnqueueLast
    BY <1>1, <2>2, QuietStep DEF EnqueueGame, EnqueueLast, Enqueue, Scanning
  <2>3. CASE Notify
    BY <1>1, <2>3, QuietStep DEF Notify, NotifyOne, Asleep, PoolInv, PoolTypeOK
  <2>4. CASE AwaitResults
    BY <1>1, <2>4, QuietStep DEF AwaitResults, Stop
  <2>5. CASE StopNotify
    BY <1>1, <2>5, QuietStep DEF StopNotify, NotifyAll, Asleep
  <2>6. CASE DestroyPool
    BY <1>1, <2>6, QuietStep DEF DestroyPool, Join
  <2>7. CASE JoinThreads
    BY <1>1, <2>7, QuietStep DEF JoinThreads
  <2>8. CASE NoCache
    BY <1>1, <2>8, QuietStep DEF NoCache
  <2>9. CASE OpenCache
    BY <1>1, <2>9 DEF OpenCache, WholeOK
  <2>10. CASE saveToCache
    BY <1>1, <2>10 DEF saveToCache, WholeOK
  <2> QED BY <1>7, <2>1, <2>2, <2>3, <2>4, <2>5, <2>6, <2>7, <2>8, <2>9, <2>10 DEF OwnerStep
<1>8. ASSUME NEW w \in Workers, WorkerStep(w) \/ WakeWorker(w) PROVE BookInv'
  <2> USE DEF ThreadsOK, OwnerStates, Working, bookVars, cacheVars, gameVars, poolVars
  <2>1. CASE TakeGame(w)
    <3>1. \A v \in Workers : Working(v)' => Working(v) \/ v = w
      BY <2>1 DEF TakeGame, Take, BookInv, PoolInv, PoolTypeOK
    <3>2. lastKey' = [lastKey EXCEPT ![w] = None]
      BY <2>1 DEF TakeGame, BeginGame
    <3>3. ThreadsOK'
      BY <2>1, <3>1, <3>2 DEF TakeGame, Take, BookInv
    <3> QED BY <1>1, <2>1, <3>3 DEF TakeGame, BookInv
  <2>2. CASE FinishGame(w)
    BY <1>1, <2>2, QuietStep DEF FinishGame, Finish, BookInv, PoolInv, PoolTypeOK
  <2>3. CASE SleepWorker(w) \/ EndWorker(w) \/ WakeWorker(w)
    BY <1>1, <2>3, QuietStep DEF SleepWorker, EndWorker, WakeWorker, Sleep, End, Wake, BookInv, PoolInv, PoolTypeOK
  <2>4. CASE ReadLine(w)
    <3>1. lastKey' = [lastKey EXCEPT ![w] = None]
      BY <2>4 DEF ReadLine, BeginGame
    <3>2. ThreadsOK'
      BY <2>4, <3>1 DEF ReadLine, BookInv
    <3> QED BY <1>1, <2>4, <3>2 DEF ReadLine, BookInv
  <2>5. CASE CountRoot(w)
    <3>1. Root \in DOMAIN bookMap
      BY <2>5, NotWorking DEF CountRoot, BookInv
    <3>2. bookMap[Root].counter + 1 \in Nat
      BY <3>1 DEF BookInv, BookOK, Entry
    <3>3. BookOK(bookMap') /\ DOMAIN bookMap' = DOMAIN bookMap
      BY <2>5, <3>1, <3>2, CounterOK DEF CountRoot, Counted, BookInv
    <3>4. lastKey' = [lastKey EXCEPT ![w] = Root]
      BY <2>5 DEF CountRoot
    <3>5. ThreadsOK'
      BY <2>5, <3>1, <3>3, <3>4, GraphAssumption DEF CountRoot, BookInv
    <3> QED BY <1>1, <2>5, <3>3, <3>5 DEF CountRoot, BookInv
  <2>6. CASE AddMove(w)
    <3> DEFINE move == Head(game[w])
               last == lastKey[w]
               key == After[last][move]
    <3>1. last \in DOMAIN bookMap /\ move \in DOMAIN After[last] /\ key \in Key
      BY <2>6, GraphAssumption DEF AddMove, Legal, BookInv, BookOK
    <3>2. Root \in DOMAIN bookMap
      BY <2>6, NotWorking DEF AddMove, BookInv
    <3>3. bookMap' = writeToBook(bookMap, move, key, last)
      BY <2>6 DEF AddMove
    <3>4. lastKey' = [lastKey EXCEPT ![w] = key]
      BY <2>6 DEF AddMove
    <3> HIDE DEF move, last
    <3>5. BookOK(bookMap') /\ DOMAIN bookMap' = DOMAIN bookMap \cup {key}
      <4>1. CASE key \in DOMAIN bookMap
        <5>1. bookMap[key].counter + 1 \in Nat
          BY <4>1 DEF BookInv, BookOK, Entry
        <5>2. bookMap' = [bookMap EXCEPT ![key].counter = bookMap[key].counter + 1]
          BY <3>3, <4>1 DEF writeToBook, Counted
        <5>3. DOMAIN bookMap' = DOMAIN bookMap \cup {key}
          BY <4>1, <5>2
        <5> HIDE DEF key
        <5> QED BY <4>1, <5>1, <5>2, <5>3, CounterOK DEF BookInv
      <4>2. CASE key \notin DOMAIN bookMap
        <5>1. bookMap' = WithMove(WithEntry(bookMap, key, 1), last, move, key)
          BY <3>3, <4>2 DEF writeToBook
        <5>2. BookOK(bookMap) /\ key = After[last][move]
          BY DEF BookInv, key
        <5> QED BY <3>1, <3>2, <4>2, <5>1, <5>2, AddedOK
      <4> QED BY <4>1, <4>2
    <3> HIDE DEF key
    <3>6. ThreadsOK'
      BY <2>6, <3>1, <3>4, <3>5 DEF AddMove, BookInv
    <3> QED BY <1>1, <2>6, <3>5, <3>6 DEF AddMove, BookInv
  <2> QED BY <1>8, <2>1, <2>2, <2>3, <2>4, <2>5, <2>6 DEF WorkerStep
<1> QED BY <1>2, <1>3, <1>4, <1>5, <1>6, <1>7, <1>8 DEF Next, Call

-----------------------------------------------------------------------------
(* The way from the root into the book: steps by moves of the book, or     *)
(* back to the root.                                                       *)
IsWay(p, n) ==
  /\ p \in [0 .. n -> DOMAIN bookMap]
  /\ p[0] = Root
  /\ \A i \in 1 .. n : p[i] = Root \/ p[i] \in Children({p[i - 1]})

Within(n) == {k \in DOMAIN bookMap : \E p : IsWay(p, n) /\ p[n] = k}

LEMMA ChildrenOf ==
  ASSUME NEW S, NEW k
  PROVE  k \in Children(S) <=> \E q \in S : k \in Children({q})
BY DEF Children

LEMMA ChildrenLead ==
  ASSUME BookOK(bookMap), NEW q \in DOMAIN bookMap, NEW k
  PROVE  k \in Children({q}) <=> \E i \in 1 .. Len(bookMap[q].nextPosition) : Leads(bookMap, q, i, k)
<1>1. bookMap[q].nextPosition \in Seq(Key)
  BY DEF BookOK, Entry
<1>2. DOMAIN bookMap[q].nextPosition = 1 .. Len(bookMap[q].nextPosition)
  BY <1>1
<1>3. Children({q}) = {bookMap[q].nextPosition[i] : i \in 1 .. Len(bookMap[q].nextPosition)}
  BY <1>2 DEF Children, Range
<1> QED BY <1>3 DEF Leads

LEMMA ChildrenInside ==
  ASSUME BookOK(bookMap), NEW q \in DOMAIN bookMap
  PROVE  Children({q}) \subseteq DOMAIN bookMap
BY ChildrenLead DEF BookOK, EdgesLegal, Leads

(* The ways are what the recursive definition speaks of. *)
LEMMA ReachedUnfolds ==
  ASSUME BookOK(bookMap), Root \in DOMAIN bookMap
  PROVE  /\ Reached[0] = {Root}
         /\ \A n \in Nat : Reached[n + 1] = Children(Reached[n]) \cup {Root}
<1> DEFINE Unfold(f, n) == IF n = 0 THEN {Root} ELSE Children(f[n - 1]) \cup {Root}
           r == CHOOSE f : f = [n \in Nat |-> Unfold(f, n)]
           w == [n \in Nat |-> Within(n)]
<1>1. Within(0) = {Root}
  <2>1. IsWay([i \in 0 .. 0 |-> Root], 0)
    BY DEF IsWay
  <2>2. \A p : IsWay(p, 0) => p[0] = Root
    BY DEF IsWay
  <2> QED BY <2>1, <2>2 DEF Within
<1>2. ASSUME NEW n \in Nat PROVE Within(n + 1) = Children(Within(n)) \cup {Root}
  <2>1. Root \in Within(n + 1)
    <3>1. IsWay([i \in 0 .. n + 1 |-> Root], n + 1)
      BY DEF IsWay
    <3> QED BY <3>1 DEF Within
  <2>2. ASSUME NEW k \in Within(n + 1), k # Root PROVE k \in Children(Within(n))
    <3>1. PICK p : IsWay(p, n + 1) /\ p[n + 1] = k
      BY <2>2 DEF Within
    <3> DEFINE o == [i \in 0 .. n |-> p[i]]
    <3>2. IsWay(o, n)
      BY <3>1 DEF IsWay
    <3>3. o[n] = p[n] /\ p[n] \in DOMAIN bookMap /\ k \in Children({p[n]})
      BY <2>2, <3>1 DEF IsWay
    <3> HIDE DEF o
    <3>4. p[n] \in Within(n)
      BY <3>2, <3>3 DEF Within
    <3> QED BY <3>3, <3>4, ChildrenOf
  <2>3. ASSUME NEW k \in Children(Within(n)) PROVE k \in Within(n + 1)
    <3>1. PICK q \in Within(n) : k \in Children({q})
      BY <2>3, ChildrenOf
    <3>2. PICK p : IsWay(p, n) /\ p[n] = q
      BY <3>1 DEF Within
    <3>3. k \in DOMAIN bookMap
      BY <3>1, ChildrenInside DEF Within
    <3> DEFINE o == [i \in 0 .. n + 1 |-> IF i = n + 1 THEN k ELSE p[i]]
    <3>4. o \in [0 .. n + 1 -> DOMAIN bookMap] /\ o[0] = Root /\ o[n + 1] = k
      BY <3>2, <3>3 DEF IsWay
    <3>5. ASSUME NEW i \in 1 .. n + 1 PROVE o[i] = Root \/ o[i] \in Children({o[i - 1]})
      <4>1. CASE i = n + 1
        <5>1. o[i] = k /\ o[i - 1] = q
          BY <3>2, <4>1
        <5> QED BY <3>1, <5>1
      <4>2. CASE i # n + 1
        <5>1. i \in 1 .. n /\ o[i] = p[i] /\ o[i - 1] = p[i - 1]
          BY <4>2
        <5> QED BY <3>2, <5>1 DEF IsWay
      <4> QED BY <4>1, <4>2
    <3> HIDE DEF o
    <3>6. IsWay(o, n + 1)
      BY <3>4, <3>5 DEF IsWay
    <3> QED BY <3>3, <3>4, <3>6 DEF Within
  <2> QED BY <2>1, <2>2, <2>3
<1>3. w = [n \in Nat |-> Unfold(w, n)]
  <2>1. ASSUME NEW n \in Nat PROVE Within(n) = Unfold(w, n)
    <3>1. CASE n = 0
      BY <1>1, <3>1
    <3>2. CASE n # 0
      <4>1. n - 1 \in Nat /\ (n - 1) + 1 = n
        BY <3>2
      <4>2. w[n - 1] = Within(n - 1)
        BY <4>1
      <4>3. Within(n) = Children(Within(n - 1)) \cup {Root}
        BY <1>2, <4>1
      <4> QED BY <3>2, <4>2, <4>3
    <3> QED BY <3>1, <3>2
  <2> HIDE DEF Unfold
  <2> QED BY <2>1
<1>4. r = [n \in Nat |-> Unfold(r, n)]
  <2> HIDE DEF Unfold, w
  <2> QED BY <1>3
<1>5. Reached = r
  BY DEF Reached
<1> HIDE DEF r
<1>6. \A n \in Nat : r[n] = Unfold(r, n)
  <2> HIDE DEF Unfold
  <2> QED BY <1>4
<1>7. Reached[0] = {Root}
  BY <1>5, <1>6
<1>8. ASSUME NEW n \in Nat PROVE Reached[n + 1] = Children(Reached[n]) \cup {Root}
  <2>1. n + 1 \in Nat /\ n + 1 # 0 /\ (n + 1) - 1 = n
    OBVIOUS
  <2> QED BY <1>5, <1>6, <2>1
<1> QED BY <1>7, <1>8

(* Induction, with the set of the numbers that have the property. *)
LEMMA SetInduction ==
  ASSUME NEW S, 0 \in S, \A n \in Nat : n \in S => n + 1 \in S
  PROVE  Nat \subseteq S
<1> DEFINE T == Nat \ S
           R == OpToRel(<, Nat)
<1>1. SUFFICES ASSUME T # {} PROVE FALSE
  OBVIOUS
<1>2. IsWellFoundedOn(R, Nat) /\ T \subseteq Nat
  BY NatLessThanWellFounded
<1>3. PICK x \in T : \A y \in T : ~(<<y, x>> \in R)
  <2> HIDE DEF T, R
  <2> QED BY <1>1, <1>2, WFMin
<1>4. x \in Nat /\ x # 0 /\ x \notin S
  OBVIOUS
<1>5. x - 1 \in Nat /\ <<x - 1, x>> \in R
  BY <1>4 DEF OpToRel
<1>6. x - 1 \in S
  BY <1>3, <1>5
<1>7. (x - 1) + 1 \in S
  BY <1>5, <1>6
<1> QED BY <1>4, <1>7

(* Every entry is reached, at the latest by as many moves as there are     *)
(* entries older than it.                                                  *)
LEMMA AllReached ==
  ASSUME BookOK(bookMap), Root \in DOMAIN bookMap
  PROVE  Reached[Cardinality(DOMAIN bookMap)] = DOMAIN bookMap
<1>1. PICK rank \in [DOMAIN bookMap -> Nat] :
        /\ \A k \in DOMAIN bookMap : rank[k] < Cardinality(DOMAIN bookMap)
        /\ \A k \in DOMAIN bookMap \ {Root} :
             \E p \in DOMAIN bookMap : \E i \in 1 .. Len(bookMap[p].nextPosition) :
               Leads(bookMap, p, i, k) /\ rank[p] < rank[k]
  BY DEF BookOK, Ordered
<1> DEFINE S == {n \in Nat : /\ Reached[n] \subseteq DOMAIN bookMap
                            /\ \A k \in DOMAIN bookMap : rank[k] <= n => k \in Reached[n]}
<1>2. ASSUME NEW k \in DOMAIN bookMap \ {Root}
      PROVE  \E p \in DOMAIN bookMap : k \in Children({p}) /\ rank[p] < rank[k]
  BY <1>1, ChildrenLead
<1>3. 0 \in S
  <2>1. ASSUME NEW k \in DOMAIN bookMap, rank[k] <= 0, k # Root PROVE FALSE
    <3>1. PICK p \in DOMAIN bookMap : rank[p] < rank[k]
      BY <1>2, <2>1
    <3>2. rank[p] \in Nat /\ rank[k] \in Nat
      OBVIOUS
    <3> QED BY <2>1, <3>1, <3>2
  <2> QED BY <2>1, ReachedUnfolds
<1>4. ASSUME NEW n \in Nat, n \in S PROVE n + 1 \in S
  <2>1. Reached[n + 1] = Children(Reached[n]) \cup {Root}
    BY ReachedUnfolds
  <2>2. Children(Reached[n]) \subseteq DOMAIN bookMap
    BY <1>4, ChildrenOf, ChildrenInside
  <2>3. ASSUME NEW k \in DOMAIN bookMap, rank[k] <= n + 1, k # Root PROVE k \in Children(Reached[n])
    <3>1. PICK p \in DOMAIN bookMap : k \in Children({p}) /\ rank[p] < rank[k]
      BY <1>2, <2>3
    <3>2. rank[p] <= n
      BY <2>3, <3>1
    <3> QED BY <1>4, <3>1, <3>2, ChildrenOf
  <2> QED BY <2>1, <2>2, <2>3
<1>5. Cardinality(DOMAIN bookMap) \in Nat
  BY FS_CardinalityType DEF BookOK, Ordered
<1>6. Cardinality(DOMAIN bookMap) \in S
  <2> HIDE DEF S
  <2> QED BY <1>3, <1>4, <1>5, SetInduction
<1>7. ASSUME NEW k \in DOMAIN bookMap PROVE k \in Reached[Cardinality(DOMAIN bookMap)]
  <2>1. rank[k] \in Nat /\ rank[k] <= Cardinality(DOMAIN bookMap)
    BY <1>1, <1>5
  <2> QED BY <1>6, <2>1
<1> QED BY <1>6, <1>7

(* At any time, and in a file that was written to its end, the book holds  *)
(* legal moves only, and exactly one of them leads to each position.       *)
THEOREM BookConnected ==
  Spec => [](EdgesLegal(bookMap) /\ OneWayIn(bookMap))
<1>1. BookInv => EdgesLegal(bookMap) /\ OneWayIn(bookMap)
  BY DEF BookInv, BookOK
<1> QED BY <1>1, InitBook, BookStep, PTL DEF Spec

(* At any time, also while several threads write to it: the book is a tree *)
(* of legal moves below the start position, so every entry can be played   *)
(* to, and getLevelStr comes to an end, although the games transpose and   *)
(* return to positions.                                                    *)
THEOREM BookAlwaysTree == Spec => []BookIsTree
<1>1. ASSUME BookInv PROVE BookIsTree
  <2> SUFFICES ASSUME bookMap # <<>>
               PROVE  EdgesLegal(bookMap) /\ OneWayIn(bookMap) /\ Reached[Cardinality(DOMAIN bookMap)] = DOMAIN bookMap
    BY DEF BookIsTree
  <2>1. BookOK(bookMap)
    BY <1>1 DEF BookInv
  <2>2. Root \in DOMAIN bookMap
    <3>1. bookMap = [k \in DOMAIN bookMap |-> bookMap[k]]
      BY <2>1 DEF BookOK
    <3>2. DOMAIN bookMap = {} => bookMap = <<>>
      BY <3>1
    <3> QED BY <2>1, <3>2 DEF BookOK
  <2> QED BY <2>1, <2>2, AllReached DEF BookOK
<1> QED BY <1>1, InitBook, BookStep, PTL DEF Spec
=============================================================================
