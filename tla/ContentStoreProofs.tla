-------------------------- MODULE ContentStoreProofs --------------------------
(***************************************************************************)
(* The ContentStore's table, queues and timers stay consistent, its        *)
(* policies evict in the order they announce, both implement the bounded   *)
(* cache, and the searches by hash find what is nearest.                   *)
(***************************************************************************)
EXTENDS ContentStore, FiniteSetTheorems, WellFoundedInduction, TLAPS

------------------------------------------------------------------------------
(* The inductive invariant, over a policy p, a table t, queues i and timers tm. *)

Typed(t, i, tm) ==
  /\ t \in [Data -> Entry \cup {NoEntry}]
  /\ i \in [Data -> Info \cup {NoInfo}]
  /\ tm \in [Data -> NotArmed .. MaxFreshness]

\* The queue of an entry is the one its state calls for.
Fits(p, e, q) ==
  /\ q = "LRU" <=> p = "lru"
  /\ q = "UNSOLICITED" => e.unsolicited
  /\ q = "STALE" => ~e.unsolicited /\ e.stale \in {0, Stale}
  /\ q = "FIFO" => ~e.unsolicited /\ e.stale # Stale

GoodAt(p, t, i, tm, d) ==
  /\ i[d] # NoInfo <=> t[d] # NoEntry
  /\ t[d] # NoEntry => Fits(p, t[d], i[d].queue)
  /\ tm[d] = IF i[d] # NoInfo /\ i[d].queue = "FIFO" /\ t[d].stale # Never
             THEN t[d].stale ELSE NotArmed

\* In the STALE queue the entries that isStale already confirms come first.
StaleInOrder(t, i) ==
  \A d, e \in Data :
    /\ i[d] # NoInfo /\ i[d].queue = "STALE" /\ t[d].stale = 0
    /\ i[e] # NoInfo /\ i[e].queue = "STALE" /\ t[e].stale = Stale
    => e \in i[d].ahead

\* Under lru every other entry stands before the one used last.
RecentLast(p, i, r) ==
  p = "lru" =>
    /\ i[r] = NoInfo => \A d \in Data : i[d] = NoInfo
    /\ i[r] # NoInfo => \A d \in Data \ {r} : i[d] # NoInfo => d \in i[r].ahead

Consistent(p, t, i, tm) ==
  /\ Typed(t, i, tm)
  /\ \A d \in Data : GoodAt(p, t, i, tm, d)
  /\ StaleInOrder(t, i)

Bounded == Cardinality(Cached) <= limit

IInv ==
  /\ policy \in Policies /\ limit \in 0 .. MaxLimit /\ recent \in Data
  /\ Consistent(policy, table, info, timer)
  /\ RecentLast(policy, info, recent)
  /\ Bounded

------------------------------------------------------------------------------
(* Operations on the queues. *)

\* Detaching entries takes them from the queues and keeps the others' order.
LEMMA DetachedAt ==
  ASSUME NEW t, NEW i, NEW tm, Typed(t, i, tm), NEW V \in SUBSET Data
  PROVE  /\ Detached(i, V) \in [Data -> Info \cup {NoInfo}]
         /\ Cancelled(tm, i, V) \in [Data -> NotArmed .. MaxFreshness]
         /\ \A d \in Data :
              /\ Detached(i, V)[d] # NoInfo <=> d \notin V /\ i[d] # NoInfo
              /\ Detached(i, V)[d] # NoInfo =>
                   /\ Detached(i, V)[d].queue = i[d].queue
                   /\ Detached(i, V)[d].ahead = i[d].ahead \ V
<1>1. NoInfo \notin Info /\ MaxFreshness \in Nat
  BY ContentStoreAssumption
<1>2. ASSUME NEW d \in Data, i[d] # NoInfo, d \notin V
      PROVE  /\ [i[d] EXCEPT !.ahead = @ \ V] \in Info
             /\ [i[d] EXCEPT !.ahead = @ \ V].queue = i[d].queue
             /\ [i[d] EXCEPT !.ahead = @ \ V].ahead = i[d].ahead \ V
  BY <1>2 DEF Typed, Info
<1>3. NotArmed \in NotArmed .. MaxFreshness
  BY <1>1 DEF NotArmed
<1>4. Cancelled(tm, i, V) \in [Data -> NotArmed .. MaxFreshness]
  BY <1>3 DEF Typed, Cancelled
<1> QED
  BY <1>1, <1>2, <1>4 DEF Detached

\* An attached entry comes last in its queue; nothing else changes.
LEMMA AttachedAt ==
  ASSUME NEW i \in [Data -> Info \cup {NoInfo}], NEW d \in Data, NEW q \in Queue
  PROVE  /\ Attached(i, d, q) \in [Data -> Info \cup {NoInfo}]
         /\ Attached(i, d, q)[d] # NoInfo
         /\ Attached(i, d, q)[d].queue = q
         /\ Attached(i, d, q)[d].ahead = Members(i, q)
         /\ \A e \in Data \ {d} : Attached(i, d, q)[e] = i[e]
<1>1. [queue |-> q, ahead |-> Members(i, q)] \in Info
  BY DEF Info, Members
<1> QED
  BY <1>1, ContentStoreAssumption DEF Attached

\* Taking entries out leaves a consistent table.
LEMMA DetachedIsConsistent ==
  ASSUME NEW p \in Policies, NEW t, NEW i, NEW tm, Consistent(p, t, i, tm),
         NEW V \in SUBSET Data
  PROVE  Consistent(p, [d \in Data |-> IF d \in V THEN NoEntry ELSE t[d]],
                    Detached(i, V), Cancelled(tm, i, V))
<1> DEFINE t2 == [d \in Data |-> IF d \in V THEN NoEntry ELSE t[d]]
           i2 == Detached(i, V)
           tm2 == Cancelled(tm, i, V)
<1>1. Typed(t2, i2, tm2)
  BY DetachedAt DEF Consistent, Typed
<1>2. ASSUME NEW d \in Data PROVE GoodAt(p, t2, i2, tm2, d)
  BY DetachedAt DEF Consistent, GoodAt, Typed, Cancelled
<1>3. StaleInOrder(t2, i2)
  <2> SUFFICES ASSUME NEW d \in Data, NEW e \in Data,
                      i2[d] # NoInfo, i2[d].queue = "STALE", t2[d].stale = 0,
                      i2[e] # NoInfo, i2[e].queue = "STALE", t2[e].stale = Stale
               PROVE  e \in i2[d].ahead
    BY DEF StaleInOrder
  <2>1. /\ d \notin V /\ i[d] # NoInfo /\ i2[d].queue = i[d].queue /\ i2[d].ahead = i[d].ahead \ V
        /\ e \notin V /\ i[e] # NoInfo /\ i2[e].queue = i[e].queue
    BY DetachedAt DEF Consistent
  <2> QED
    BY <2>1 DEF Consistent, StaleInOrder
<1> HIDE DEF t2, i2, tm2
<1> QED
  BY <1>1, <1>2, <1>3 DEF Consistent, t2, i2, tm2

\* Victims that go in order take the entry used last only with all the others.
LEMMA EvictionKeepsRecent ==
  ASSUME NEW p \in Policies, NEW t, NEW i, NEW tm, NEW r \in Data,
         Consistent(p, t, i, tm), RecentLast(p, i, r),
         NEW V \in SUBSET Data,
         \A d \in V, e \in Data : i[e] # NoInfo /\ Before(i, e, d) => e \in V
  PROVE  RecentLast(p, Detached(i, V), r)
<1> SUFFICES ASSUME p = "lru" PROVE RecentLast(p, Detached(i, V), r)
  BY DEF RecentLast
<1>1. \A d \in Data : i[d] # NoInfo => i[d].queue = "LRU"
  BY DEF Consistent, GoodAt, Fits
<1>2. CASE r \in V
  <2>1. ASSUME NEW d \in Data, i[d] # NoInfo PROVE d \in V
    BY <1>1, <1>2, <2>1 DEF RecentLast, Before
  <2> QED
    BY <2>1, <1>2, DetachedAt DEF Consistent, RecentLast
<1>3. CASE r \notin V
  BY <1>3, DetachedAt DEF Consistent, RecentLast
<1> QED BY <1>2, <1>3

\* Attaching an entry to the queue that fits it, with its timer, is consistent.
LEMMA AttachedIsConsistent ==
  ASSUME NEW p \in Policies, NEW t, NEW i, NEW tm, Consistent(p, t, i, tm),
         NEW d \in Data, i[d] = NoInfo, NEW e \in Entry,
         NEW q \in Queue, Fits(p, e, q), q = "STALE" => e.stale # Stale
  PROVE  /\ Consistent(p, [t EXCEPT ![d] = e], Attached(i, d, q),
                       [tm EXCEPT ![d] = IF q = "FIFO" /\ e.stale # Never THEN e.stale
                                         ELSE NotArmed])
         /\ RecentLast(p, Attached(i, d, q), d)
<1> DEFINE t2 == [t EXCEPT ![d] = e]
           i2 == Attached(i, d, q)
           tm2 == [tm EXCEPT ![d] = IF q = "FIFO" /\ e.stale # Never THEN e.stale ELSE NotArmed]
<1>a. NoEntry \notin Entry /\ MaxFreshness \in Nat
  BY ContentStoreAssumption
<1>b. /\ t \in [Data -> Entry \cup {NoEntry}] /\ i \in [Data -> Info \cup {NoInfo}]
      /\ tm \in [Data -> NotArmed .. MaxFreshness]
  BY DEF Consistent, Typed
<1>c. i2 \in [Data -> Info \cup {NoInfo}] /\ i2[d] # NoInfo /\ i2[d].queue = q
      /\ i2[d].ahead = Members(i, q) /\ \A f \in Data \ {d} : i2[f] = i[f]
  BY <1>b, AttachedAt
<1>d. q = "FIFO" => e.stale \in 0 .. MaxFreshness \/ e.stale = Never
  BY <1>a DEF Entry, Fits
<1>1. Typed(t2, i2, tm2)
  <2>1. t2 \in [Data -> Entry \cup {NoEntry}]
    BY <1>b
  <2>2. tm2 \in [Data -> NotArmed .. MaxFreshness]
    BY <1>a, <1>b, <1>d DEF NotArmed
  <2> QED BY <1>c, <2>1, <2>2 DEF Typed
<1>2. ASSUME NEW f \in Data PROVE GoodAt(p, t2, i2, tm2, f)
  <2>1. CASE f = d
    BY <1>a, <1>b, <1>c, <2>1 DEF GoodAt
  <2>2. CASE f # d
    BY <1>b, <1>c, <2>2 DEF GoodAt, Consistent
  <2> QED BY <2>1, <2>2
<1>3. StaleInOrder(t2, i2)
  <2> SUFFICES ASSUME NEW f \in Data, NEW g \in Data,
                      i2[f] # NoInfo, i2[f].queue = "STALE", t2[f].stale = 0,
                      i2[g] # NoInfo, i2[g].queue = "STALE", t2[g].stale = Stale
               PROVE  g \in i2[f].ahead
    BY DEF StaleInOrder
  <2>1. f # g
    BY DEF Stale
  <2>2. CASE f = d
    BY <1>c, <2>1, <2>2 DEF Members
  <2>3. CASE g = d
    BY <1>b, <1>c, <2>3
  <2>4. CASE f # d /\ g # d
    BY <1>b, <1>c, <2>4 DEF Consistent, StaleInOrder
  <2> QED BY <2>2, <2>3, <2>4
<1>4. RecentLast(p, i2, d)
  BY <1>c, Fits(p, e, q) DEF RecentLast, Fits, Members, Consistent, GoodAt
<1> HIDE DEF t2, i2, tm2
<1> QED
  BY <1>1, <1>2, <1>3, <1>4 DEF Consistent, t2, i2, tm2

------------------------------------------------------------------------------
(* The steps. *)

\* What a set of victims leaves: a consistent, bounded store.
LEMMA EvictionStep ==
  ASSUME NEW t, NEW i, NEW tm, NEW r \in Data, NEW l, policy \in Policies,
         Consistent(policy, t, i, tm), RecentLast(policy, i, r),
         EvictEntries(t, i, tm, l)
  PROVE  /\ Consistent(policy, table', info', timer')
         /\ RecentLast(policy, info', r)
         /\ Cardinality(Cached') <= l
<1>1. PICK V \in SUBSET {d \in Data : i[d] # NoInfo} :
        /\ AreVictims(t, i, V, l)
        /\ table' = [d \in Data |-> IF d \in V THEN NoEntry ELSE t[d]]
        /\ info' = Detached(i, V)
        /\ timer' = Cancelled(tm, i, V)
  BY DEF EvictEntries
<1>2. V \in SUBSET Data
  OBVIOUS
<1>3. Consistent(policy, table', info', timer')
  BY <1>1, <1>2, DetachedIsConsistent
<1>4. \A d \in V, e \in Data : i[e] # NoInfo /\ Before(i, e, d) => e \in V
  BY <1>1 DEF AreVictims
<1>5. RecentLast(policy, info', r)
  BY <1>1, <1>2, <1>4, EvictionKeepsRecent
<1>6. Cached' = {d \in Data : t[d] # NoEntry} \ V
  BY <1>1 DEF Cached
<1> QED
  BY <1>1, <1>3, <1>5, <1>6 DEF AreVictims

\* The queue chosen for an entry fits it.
LEMMA QueueForFits ==
  ASSUME policy \in Policies, NEW e \in Entry
  PROVE  QueueFor(e) \in Queue /\ Fits(policy, e, QueueFor(e))
  BY DEF Policies, QueueFor, Queue, Fits

\* The timer set for a fresh entry that has none.
LEMMA ScheduledIs ==
  ASSUME NEW d \in Data, NEW tm \in [Data -> NotArmed .. MaxFreshness], tm[d] = NotArmed,
         NEW e \in Entry, e.stale = Freshness[d]
  PROVE  Scheduled(tm, d, e)
           = [tm EXCEPT ![d] = IF QueueFor(e) = "FIFO" /\ e.stale # Never THEN e.stale
                               ELSE NotArmed]
  BY DEF Scheduled

LEMMA FreshEntry ==
  ASSUME NEW d \in Data, NEW unsolicited \in BOOLEAN
  PROVE  /\ [unsolicited |-> unsolicited, stale |-> Freshness[d]] \in Entry
         /\ Freshness[d] # Stale /\ Freshness[d] \in Int
<1>1. Freshness[d] \in {Never} \cup 0 .. MaxFreshness /\ MaxFreshness \in Nat
  BY ContentStoreAssumption
<1>2. Freshness[d] # Stale /\ Freshness[d] \in Int
  BY <1>1 DEF Stale, Never
<1> QED
  BY <1>1, <1>2 DEF Entry

\* The store starts empty.
LEMMA Initially == Init => IInv
<1> SUFFICES ASSUME Init PROVE IInv
  OBVIOUS
<1>1. Cached = {}
  BY DEF Init, Cached
<1>2. Cardinality(Cached) = 0
  BY <1>1, FS_EmptySet
<1>3. NotArmed \in NotArmed .. MaxFreshness /\ 0 .. MaxLimit \subseteq Nat
  BY ContentStoreAssumption DEF NotArmed
<1>4. Consistent(policy, table, info, timer)
  BY <1>3 DEF Init, Consistent, Typed, GoodAt, StaleInOrder
<1>5. RecentLast(policy, info, recent)
  BY DEF Init, RecentLast
<1> QED
  BY <1>2, <1>3, <1>4, <1>5 DEF Init, IInv, Bounded

\* A new entry is attached, then others, or it, may have to go.
LEMMA InsertNewStep ==
  ASSUME IInv, NEW d \in Data, NEW unsolicited \in BOOLEAN, InsertNew(d, unsolicited)
  PROVE  IInv'
<1> DEFINE e == [unsolicited |-> unsolicited, stale |-> Freshness[d]]
           q == QueueFor(e)
           t2 == [table EXCEPT ![d] = e]
           i2 == Attached(info, d, q)
           tm2 == [timer EXCEPT ![d] = IF q = "FIFO" /\ e.stale # Never THEN e.stale ELSE NotArmed]
<1>1. e \in Entry /\ e.stale # Stale /\ e.stale = Freshness[d]
  BY FreshEntry
<1>2. info[d] = NoInfo /\ timer[d] = NotArmed /\ timer \in [Data -> NotArmed .. MaxFreshness]
  BY DEF IInv, Consistent, GoodAt, InsertNew, Typed
<1>3. policy \in Policies /\ Consistent(policy, table, info, timer)
  BY DEF IInv
<1>4. q \in Queue /\ Fits(policy, e, q)
  BY <1>1, <1>3, QueueForFits
<1>a. EvictEntries(t2, i2, Scheduled(timer, d, e), limit)
  BY DEF InsertNew
<1>b. q = QueueFor(e)
  OBVIOUS
<1> HIDE DEF e, q
<1>5. Scheduled(timer, d, e) = tm2
  BY <1>1, <1>2, <1>b, ScheduledIs
<1>6. Consistent(policy, t2, i2, tm2) /\ RecentLast(policy, i2, d)
  BY <1>1, <1>2, <1>3, <1>4, AttachedIsConsistent
<1>7. EvictEntries(t2, i2, tm2, limit)
  BY <1>a, <1>5
<1> HIDE DEF t2, i2, tm2
<1>8. /\ Consistent(policy, table', info', timer') /\ RecentLast(policy, info', d)
      /\ Cardinality(Cached') <= limit
  BY <1>3, <1>6, <1>7, EvictionStep
<1> QED
  BY <1>8 DEF InsertNew, IInv, Bounded

\* A refreshed entry changes queue and timer.
LEMMA RefreshStep ==
  ASSUME IInv, NEW d \in Data, NEW unsolicited \in BOOLEAN, Refresh(d, unsolicited)
  PROVE  IInv'
<1> DEFINE e == [unsolicited |-> table[d].unsolicited /\ unsolicited, stale |-> Freshness[d]]
           q == QueueFor(e)
           t1 == [f \in Data |-> IF f \in {d} THEN NoEntry ELSE table[f]]
           i1 == Detached(info, {d})
           tm1 == Cancelled(timer, info, {d})
           t2 == [t1 EXCEPT ![d] = e]
           tm2 == [tm1 EXCEPT ![d] = IF q = "FIFO" /\ e.stale # Never THEN e.stale ELSE NotArmed]
<1>0. /\ policy \in Policies /\ Consistent(policy, table, info, timer)
      /\ table \in [Data -> Entry \cup {NoEntry}] /\ table[d] # NoEntry
  BY DEF IInv, Consistent, Typed, Refresh
<1>1. e \in Entry /\ e.stale # Stale /\ e.stale = Freshness[d]
  <2>1. table[d].unsolicited \in BOOLEAN
    BY <1>0 DEF Entry
  <2>2. (table[d].unsolicited /\ unsolicited) \in BOOLEAN
    OBVIOUS
  <2> QED BY <2>2, FreshEntry
<1>2. Consistent(policy, t1, i1, tm1)
  BY <1>0, DetachedIsConsistent
<1>3. i1[d] = NoInfo /\ tm1[d] = NotArmed /\ tm1 \in [Data -> NotArmed .. MaxFreshness]
  <2>1. i1[d] = NoInfo
    BY DEF Detached
  <2> QED BY <2>1, <1>2 DEF Consistent, GoodAt, Typed
<1>4. q \in Queue /\ Fits(policy, e, q)
  BY <1>0, <1>1, QueueForFits
<1>6. /\ table' = [table EXCEPT ![d] = e] /\ info' = Attached(i1, d, q)
      /\ timer' = Scheduled(tm1, d, e)
      /\ recent' = d /\ policy' = policy /\ limit' = limit
  BY DEF Refresh
<1>7. table' = t2
  BY <1>0, <1>6
<1>8. Cached' = Cached
  <2>1. e # NoEntry
    BY <1>1, ContentStoreAssumption
  <2> HIDE DEF e
  <2> QED BY <1>0, <1>6, <2>1 DEF Cached
<1>a. q = QueueFor(e)
  OBVIOUS
<1> HIDE DEF e, q, t1, i1, tm1
<1>5. Scheduled(tm1, d, e) = tm2
  BY <1>1, <1>3, <1>a, ScheduledIs
<1>9. Consistent(policy, t2, Attached(i1, d, q), tm2) /\ RecentLast(policy, Attached(i1, d, q), d)
  BY <1>0, <1>1, <1>2, <1>3, <1>4, AttachedIsConsistent
<1> QED
  BY <1>5, <1>6, <1>7, <1>8, <1>9 DEF IInv, Bounded

\* lru moves the entry it finds to the end; priority_fifo leaves it.
LEMMA FindStep ==
  ASSUME IInv, NEW d \in Data, Find(d)
  PROVE  IInv'
<1> DEFINE t1 == [f \in Data |-> IF f \in {d} THEN NoEntry ELSE table[f]]
           i1 == Detached(info, {d})
           tm1 == Cancelled(timer, info, {d})
<1>0. /\ policy \in Policies /\ Consistent(policy, table, info, timer)
      /\ table \in [Data -> Entry \cup {NoEntry}] /\ table[d] # NoEntry
      /\ timer \in [Data -> NotArmed .. MaxFreshness]
  BY DEF IInv, Consistent, Typed, Find
<1>1. CASE policy = "lru"
  <2>1. Consistent(policy, t1, i1, tm1)
    BY <1>0, DetachedIsConsistent
  <2>2. i1[d] = NoInfo
    BY DEF Detached
  <2>3. table[d] \in Entry /\ Fits(policy, table[d], "LRU") /\ "LRU" \in Queue
    BY <1>0, <1>1 DEF Fits, Queue, Consistent, GoodAt
  <2>4. \A f \in Data : timer[f] = NotArmed /\ (info[f] # NoInfo => info[f].queue = "LRU")
    BY <1>0, <1>1 DEF Consistent, GoodAt, Fits
  <2>5. tm1 = timer /\ [timer EXCEPT ![d] = NotArmed] = timer
    BY <1>0, <2>4 DEF Cancelled
  <2>6. [t1 EXCEPT ![d] = table[d]] = table
    BY <1>0
  <2>7. /\ Consistent(policy, table, Attached(i1, d, "LRU"), timer)
        /\ RecentLast(policy, Attached(i1, d, "LRU"), d)
    <3>1. [tm1 EXCEPT ![d] = IF "LRU" = "FIFO" /\ table[d].stale # Never THEN table[d].stale
                             ELSE NotArmed] = timer
      BY <2>5
    <3> HIDE DEF t1, i1, tm1
    <3> QED
      BY <1>0, <2>1, <2>2, <2>3, <2>6, <3>1, AttachedIsConsistent
  <2>8. info' = Attached(i1, d, "LRU") /\ UNCHANGED <<policy, limit, table, timer>> /\ recent' = d
    BY <1>1 DEF Find
  <2> QED
    BY <2>7, <2>8 DEF IInv, Bounded, Cached
<1>2. CASE policy # "lru"
  BY <1>2 DEF Find, IInv, Bounded, Cached, RecentLast
<1> QED BY <1>1, <1>2

\* A new limit may cost entries.
LEMMA SetLimitStep ==
  ASSUME IInv, NEW l \in 0 .. MaxLimit, SetLimit(l)
  PROVE  IInv'
<1>1. /\ Consistent(policy, table', info', timer') /\ RecentLast(policy, info', recent)
      /\ Cardinality(Cached') <= l
  BY EvictionStep DEF IInv, SetLimit
<1> QED
  BY <1>1 DEF IInv, Bounded, SetLimit

\* The timer that runs finds its entry in FIFO, at the end of its freshness.
LEMMA TimerMeetsFifo ==
  ASSUME IInv, NEW d \in Data, timer[d] = 0
  PROVE  /\ info[d] # NoInfo /\ info[d].queue = "FIFO" /\ table[d] # NoEntry
         /\ table[d].stale = 0 /\ ~table[d].unsolicited /\ policy = "priority_fifo"
<1>1. GoodAt(policy, table, info, timer, d) /\ policy \in Policies
  BY DEF IInv, Consistent
<1> QED
  BY <1>1 DEF GoodAt, Fits, NotArmed, Policies

LEMMA MoveToStaleQueueStep ==
  ASSUME IInv, NEW d \in Data, MoveToStaleQueue(d)
  PROVE  IInv'
<1> DEFINE t1 == [f \in Data |-> IF f \in {d} THEN NoEntry ELSE table[f]]
           i1 == Detached(info, {d})
           tm1 == Cancelled(timer, info, {d})
           e == table[d]
<1>0. /\ policy \in Policies /\ Consistent(policy, table, info, timer)
      /\ table \in [Data -> Entry \cup {NoEntry}]
      /\ timer \in [Data -> NotArmed .. MaxFreshness]
  BY DEF IInv, Consistent, Typed
<1>1. /\ info[d] # NoInfo /\ info[d].queue = "FIFO" /\ e # NoEntry
      /\ e.stale = 0 /\ ~e.unsolicited /\ policy = "priority_fifo"
  BY TimerMeetsFifo DEF MoveToStaleQueue
<1>2. Consistent(policy, t1, i1, tm1)
  BY <1>0, DetachedIsConsistent
<1>3. i1[d] = NoInfo
  BY DEF Detached
<1>4. e \in Entry /\ e.stale # Stale /\ "STALE" \in Queue /\ Fits(policy, e, "STALE")
  BY <1>0, <1>1 DEF Fits, Queue, Stale
<1>5. [t1 EXCEPT ![d] = e] = table
  BY <1>0
<1>6. [tm1 EXCEPT ![d] = NotArmed] = timer'
  BY <1>0 DEF MoveToStaleQueue, Cancelled
<1> HIDE DEF t1, i1, tm1, e
<1>7. Consistent(policy, [t1 EXCEPT ![d] = e], Attached(i1, d, "STALE"), [tm1 EXCEPT ![d] = NotArmed])
  <2>1. Consistent(policy, [t1 EXCEPT ![d] = e], Attached(i1, d, "STALE"),
          [tm1 EXCEPT ![d] = IF "STALE" = "FIFO" /\ e.stale # Never THEN e.stale ELSE NotArmed])
    BY <1>0, <1>2, <1>3, <1>4, AttachedIsConsistent
  <2> QED BY <2>1
<1>8. Consistent(policy, table, info', timer')
  BY <1>5, <1>6, <1>7 DEF MoveToStaleQueue, i1
<1>9. RecentLast(policy, info', recent)
  BY <1>1 DEF RecentLast
<1> QED
  BY <1>8, <1>9 DEF MoveToStaleQueue, IInv, Bounded, Cached

\* Time passes only when no timer is due.
LEMMA TickStep ==
  ASSUME IInv, Tick
  PROVE  IInv'
<1>0. /\ policy \in Policies /\ Consistent(policy, table, info, timer)
      /\ table \in [Data -> Entry \cup {NoEntry}] /\ info \in [Data -> Info \cup {NoInfo}]
      /\ timer \in [Data -> NotArmed .. MaxFreshness]
      /\ NoEntry \notin Entry /\ MaxFreshness \in Nat
  BY ContentStoreAssumption DEF IInv, Consistent, Typed
<1>1. ASSUME NEW d \in Data, table[d] # NoEntry
      PROVE  /\ table'[d] \in Entry /\ table'[d].unsolicited = table[d].unsolicited
             /\ table'[d].stale = IF table[d].stale >= 0 THEN table[d].stale - 1 ELSE table[d].stale
             /\ table[d].stale \in {Never, Stale} \cup 0 .. MaxFreshness
  <2>1. table[d] \in Entry /\ table'[d] = [table[d] EXCEPT !.stale = IF @ >= 0 THEN @ - 1 ELSE @]
    BY <1>0, <1>1 DEF Tick
  <2>2. table[d].stale \in {Never, Stale} \cup 0 .. MaxFreshness
    BY <2>1 DEF Entry
  <2>3. (IF table[d].stale >= 0 THEN table[d].stale - 1 ELSE table[d].stale)
          \in {Never, Stale} \cup 0 .. MaxFreshness
    BY <1>0, <2>2 DEF Never, Stale
  <2> QED BY <2>1, <2>2, <2>3 DEF Entry
<1>2. \A d \in Data : table[d] = NoEntry => table'[d] = NoEntry
  BY DEF Tick
<1>3. \A d \in Data : table'[d] # NoEntry <=> table[d] # NoEntry
  BY <1>0, <1>1, <1>2
<1>4. \A d \in Data : timer[d] # 0 /\ timer[d] \in NotArmed .. MaxFreshness
                        /\ timer'[d] = IF timer[d] > 0 THEN timer[d] - 1 ELSE timer[d]
  BY <1>0 DEF Tick
<1>5. Typed(table', info', timer')
  <2>1. table' \in [Data -> Entry \cup {NoEntry}]
    BY <1>1, <1>2 DEF Tick
  <2>2. timer' \in [Data -> NotArmed .. MaxFreshness]
    BY <1>0, <1>4 DEF Tick, NotArmed
  <2> QED BY <1>0, <2>1, <2>2 DEF Typed, Tick
<1>6. ASSUME NEW d \in Data PROVE GoodAt(policy, table', info', timer', d)
  <2>1. GoodAt(policy, table, info, timer, d) /\ info'[d] = info[d]
    BY <1>0 DEF Consistent, Tick
  <2>2. CASE table[d] = NoEntry
    BY <1>3, <1>4, <2>1, <2>2 DEF GoodAt, NotArmed
  <2>3. CASE table[d] # NoEntry
    <3>1. Fits(policy, table'[d], info'[d].queue)
      BY <1>0, <1>1, <1>4, <2>1, <2>3 DEF GoodAt, Fits, Stale, Never, NotArmed
    <3>2. timer'[d] = IF info'[d] # NoInfo /\ info'[d].queue = "FIFO" /\ table'[d].stale # Never
                      THEN table'[d].stale ELSE NotArmed
      BY <1>0, <1>1, <1>4, <2>1, <2>3 DEF GoodAt, Fits, Stale, Never, NotArmed
    <3> QED BY <1>3, <2>1, <2>3, <3>1, <3>2 DEF GoodAt
  <2> QED BY <2>2, <2>3
<1>7. StaleInOrder(table', info')
  <2>1. ASSUME NEW d \in Data, info'[d] # NoInfo, info'[d].queue = "STALE" PROVE table'[d].stale # 0
    <3>1. /\ info[d] # NoInfo /\ info[d].queue = "STALE" /\ table[d] # NoEntry
          /\ table[d].stale \in {0, Stale}
      BY <1>0, <2>1 DEF Tick, Consistent, GoodAt, Fits
    <3> QED BY <1>1, <3>1 DEF Stale
  <2> QED BY <2>1 DEF StaleInOrder
<1>8. Cached' = Cached
  BY <1>3 DEF Cached
<1> QED
  BY <1>0, <1>5, <1>6, <1>7, <1>8 DEF IInv, Tick, Consistent, Bounded

LEMMA Preserved == IInv /\ [Next]_vars => IInv'
<1> SUFFICES ASSUME IInv, [Next]_vars PROVE IInv'
  OBVIOUS
<1>1. CASE UNCHANGED vars
  BY <1>1 DEF vars, IInv, Consistent, Typed, GoodAt, Fits, StaleInOrder, RecentLast, Bounded, Cached
<1>2. ASSUME NEW d \in Data, NEW unsolicited \in BOOLEAN, NEW noCache \in BOOLEAN,
             Insert(d, unsolicited, noCache)
      PROVE  IInv'
  BY <1>1, <1>2, InsertNewStep, RefreshStep DEF Insert, InsertRefused
<1>3. ASSUME NEW d \in Data, Find(d) \/ MoveToStaleQueue(d) PROVE IInv'
  BY <1>3, FindStep, MoveToStaleQueueStep
<1>4. ASSUME NEW l \in 0 .. MaxLimit, SetLimit(l) PROVE IInv'
  BY <1>4, SetLimitStep
<1>5. CASE Tick
  BY <1>5, TickStep
<1> QED
  BY <1>1, <1>2, <1>3, <1>4, <1>5 DEF Next

------------------------------------------------------------------------------
(* The theorems. *)

\* The inductive invariant holds in every reachable state.
THEOREM StoreInvariance == Spec => []IInv
  BY Initially, Preserved, PTL DEF Spec

\* Table, queues and timers keep their types.
THEOREM StoreTypes == Spec => []TypeOK
<1>1. IInv => TypeOK
  BY DEF IInv, TypeOK, Consistent, Typed
<1> QED BY <1>1, StoreInvariance, PTL

\* The queues of the policy hold exactly the entries of the table, each in the
\* queue that its solicitation and its freshness call for.
THEOREM QueuesHoldTheTable == Spec => []QueuesMatchTable
<1>1. IInv => QueuesMatchTable
  <2> SUFFICES ASSUME IInv PROVE QueuesMatchTable
    OBVIOUS
  <2>1. Queued = Cached
    BY DEF IInv, Consistent, GoodAt, Queued, Cached
  <2>2. ASSUME NEW d \in Cached
        PROVE CASE info[d].queue = "LRU"         -> policy = "lru"
                [] info[d].queue = "UNSOLICITED" -> policy = "priority_fifo" /\ table[d].unsolicited
                [] info[d].queue = "STALE"       -> /\ policy = "priority_fifo" /\ ~table[d].unsolicited
                                                    /\ table[d].stale \in {0, Stale}
                [] info[d].queue = "FIFO"        -> /\ policy = "priority_fifo" /\ ~table[d].unsolicited
                                                    /\ table[d].stale # Stale
    <3>1. Fits(policy, table[d], info[d].queue) /\ policy \in Policies
      BY DEF IInv, Consistent, GoodAt, Cached
    <3>2. info[d].queue \in Queue
      BY <2>1 DEF IInv, Consistent, Typed, Queued, Info
    <3> QED BY <3>1, <3>2 DEF Fits, Policies, Queue
  <2> QED BY <2>1, <2>2 DEF QueuesMatchTable
<1> QED BY <1>1, StoreInvariance, PTL

\* moveToStaleQueue runs for every entry that turns stale in FIFO and for no other.
THEOREM TimersAreRight == Spec => []TimersMatchFifo
<1>1. IInv => TimersMatchFifo
  BY DEF IInv, Consistent, GoodAt, TimersMatchFifo, Queued, Cached
<1> QED BY <1>1, StoreInvariance, PTL

\* lru evicts the entry used last only together with all the others.
THEOREM LruKeepsRecent == Spec => []RecentIsKept
<1>1. IInv => RecentIsKept
  BY DEF IInv, RecentLast, Consistent, GoodAt, RecentIsKept, Cached
<1> QED BY <1>1, StoreInvariance, PTL

\* Of two entries, the one evicted never had the higher priority.
THEOREM EvictionByPriority == Spec => EvictsByPriority
<1> DEFINE Ranked == policy = "priority_fifo" =>
             \A d, e \in Cached : table'[d] = NoEntry /\ table'[e] # NoEntry
                                    => Priority(table[d]) <= Priority(table[e])
<1>1. ASSUME IInv, NEW t, NEW i, NEW tm, NEW l,
             EvictEntries(t, i, tm, l), policy = "priority_fifo",
             \A d \in Cached : t[d] = table[d] /\ i[d] = info[d],
             NEW d \in Cached, NEW e \in Cached, table'[d] = NoEntry, table'[e] # NoEntry
      PROVE  Priority(table[d]) <= Priority(table[e])
  <2>1. PICK V \in SUBSET {f \in Data : i[f] # NoInfo} :
          AreVictims(t, i, V, l) /\ table' = [f \in Data |-> IF f \in V THEN NoEntry ELSE t[f]]
    BY <1>1 DEF EvictEntries
  <2>2. /\ d \in V /\ e \notin V /\ d \in Data /\ e \in Data
        /\ i[d] = info[d] /\ i[e] = info[e] /\ info[e] # NoInfo
    BY <1>1, <2>1 DEF Cached, IInv, Consistent, GoodAt
  <2>3. ~Before(info, e, d)
    BY <2>1, <2>2 DEF AreVictims, Before
  <2>4. /\ Fits(policy, table[d], info[d].queue) /\ Fits(policy, table[e], info[e].queue)
        /\ info[d].queue \in Queue /\ info[e].queue \in Queue
        /\ info[d] # NoInfo
    BY <1>1 DEF IInv, Consistent, GoodAt, Cached, Typed, Info
  <2>5. CASE info[d].queue = "STALE" /\ info[e].queue = "STALE"
    <3>1. table[d].stale = 0 => table[e].stale # Stale
      BY <1>1, <2>2, <2>3, <2>4, <2>5 DEF IInv, Consistent, StaleInOrder, Before
    <3> QED BY <2>4, <2>5, <3>1 DEF Priority, Fits, Stale
  <2>6. CASE ~(info[d].queue = "STALE" /\ info[e].queue = "STALE")
    <3>1. Turn(info[e].queue) >= Turn(info[d].queue)
      BY <2>3, <2>4 DEF Before, Turn, Queue
    <3> QED BY <1>1, <2>4, <2>6, <3>1 DEF Priority, Fits, Turn, Queue
  <2> QED BY <2>5, <2>6
<1>2. IInv /\ [Next]_vars => [Ranked]_vars
  <2> SUFFICES ASSUME IInv, Next, policy = "priority_fifo",
                      NEW d \in Cached, NEW e \in Cached, table'[d] = NoEntry, table'[e] # NoEntry
               PROVE  Priority(table[d]) <= Priority(table[e])
    OBVIOUS
  <2>1. ASSUME NEW f \in Data, NEW unsolicited \in BOOLEAN, InsertNew(f, unsolicited)
        PROVE  Priority(table[d]) <= Priority(table[e])
    <3> DEFINE x == [unsolicited |-> unsolicited, stale |-> Freshness[f]]
               t2 == [table EXCEPT ![f] = x]
               i2 == Attached(info, f, QueueFor(x))
    <3>1. EvictEntries(t2, i2, Scheduled(timer, f, x), limit)
      BY <2>1 DEF InsertNew
    <3>2. \A g \in Cached : g # f
      BY <2>1 DEF InsertNew, Cached
    <3>3. info \in [Data -> Info \cup {NoInfo}] /\ table \in [Data -> Entry \cup {NoEntry}]
      BY DEF IInv, Consistent, Typed
    <3>4. \A g \in Cached : t2[g] = table[g] /\ i2[g] = info[g]
      BY <3>2, <3>3 DEF Attached, Cached
    <3> HIDE DEF t2, i2, x
    <3> QED BY <1>1, <3>1, <3>4
  <2>2. ASSUME NEW l \in 0 .. MaxLimit, SetLimit(l)
        PROVE  Priority(table[d]) <= Priority(table[e])
    BY <1>1, <2>2 DEF SetLimit
  <2>3. ASSUME NEW f \in Data, NEW unsolicited \in BOOLEAN, Refresh(f, unsolicited)
        PROVE  FALSE
    <3>1. table'[d] # NoEntry
      <4>1. [unsolicited |-> table[f].unsolicited /\ unsolicited, stale |-> Freshness[f]] # NoEntry
        <5>1. table[f].unsolicited \in BOOLEAN
          BY <2>3 DEF IInv, Consistent, Typed, Entry, Refresh
        <5>2. (table[f].unsolicited /\ unsolicited) \in BOOLEAN
          OBVIOUS
        <5> QED BY <5>2, FreshEntry, ContentStoreAssumption
      <4>2. table \in [Data -> Entry \cup {NoEntry}]
        BY DEF IInv, Consistent, Typed
      <4> QED BY <2>3, <4>1, <4>2 DEF Refresh, Cached
    <3> QED BY <3>1
  <2>4. CASE Tick
    <3>1. table'[d] \in Entry
      <4>1. table[d] \in Entry /\ d \in Data
        BY DEF IInv, Consistent, Typed, Cached
      <4>2. table'[d] = [table[d] EXCEPT !.stale = IF @ >= 0 THEN @ - 1 ELSE @]
        BY <2>4 DEF Tick, Cached
      <4>3. (IF table[d].stale >= 0 THEN table[d].stale - 1 ELSE table[d].stale)
              \in {Never, Stale} \cup 0 .. MaxFreshness
        BY <4>1, ContentStoreAssumption DEF Entry, Never, Stale
      <4> QED BY <4>1, <4>2, <4>3 DEF Entry
    <3> QED BY <3>1, ContentStoreAssumption
  <2>5. ASSUME NEW f \in Data, NEW noCache \in BOOLEAN,
               Find(f) \/ MoveToStaleQueue(f) \/ InsertRefused(noCache)
        PROVE  FALSE
    BY <2>5 DEF Find, MoveToStaleQueue, InsertRefused, vars, Cached
  <2> QED
    BY <2>1, <2>2, <2>3, <2>4, <2>5 DEF Next, Insert
<1> QED
  BY <1>2, StoreInvariance, PTL DEF Spec, EvictsByPriority

------------------------------------------------------------------------------
(* Refinement. *)

Store == [d \in Data |-> IF table[d] = NoEntry THEN "absent"
                         ELSE IF table[d].stale = Stale THEN "stale" ELSE "fresh"]

\* What the bounded cache holds is what the table holds.
LEMMA StoredIsCached == Cache!Stored = Cached
  BY DEF Cache!Stored, Cached

\* A step that leaves table and limit alone is a stutter of the bounded cache.
LEMMA SameTable ==
  ASSUME UNCHANGED <<table, limit>>
  PROVE  UNCHANGED Cache!vars
  BY DEF Cache!vars

\* One victim at most leaves when an entry is added to a store within its limit.
LEMMA OneVictim ==
  ASSUME NEW S \in SUBSET Data, NEW d \in Data, d \notin S, NEW V \in SUBSET (S \cup {d}),
         NEW l \in Nat, Cardinality(S) <= l,
         V = {} \/ Cardinality((S \cup {d}) \ V) = l, Cardinality((S \cup {d}) \ V) <= l
  PROVE  \/ V = {} /\ Cardinality(S) < l
         \/ Cardinality(S) = l /\ \E victim \in S \cup {d} : V = {victim}
<1>1. IsFiniteSet(S)
  BY ContentStoreAssumption, FS_Subset
<1>2. /\ IsFiniteSet(S \cup {d}) /\ Cardinality(S \cup {d}) = Cardinality(S) + 1
      /\ Cardinality(S) \in Nat
  BY <1>1, FS_AddElement, FS_CardinalityType
<1>3. CASE V = {}
  <2>1. (S \cup {d}) \ V = S \cup {d}
    BY <1>3
  <2> QED BY <1>2, <1>3, <2>1
<1>4. CASE V # {}
  <2>1. (S \cup {d}) \cap V = V /\ IsFiniteSet(V)
    BY <1>2, FS_Subset
  <2>2. Cardinality((S \cup {d}) \ V) = Cardinality(S) + 1 - Cardinality(V)
    <3> DEFINE T == S \cup {d}
    <3>1. IsFiniteSet(T) /\ Cardinality(T) = Cardinality(S) + 1 /\ T \cap V = V
      BY <1>2, <2>1
    <3> HIDE DEF T
    <3>2. Cardinality(T \ V) = Cardinality(T) - Cardinality(T \cap V)
      BY <3>1, FS_Difference
    <3>3. Cardinality(T \cap V) = Cardinality(V)
      BY <3>1, Zenon
    <3>4. Cardinality(T \ V) = Cardinality(S) + 1 - Cardinality(V)
      BY <1>2, <2>1, <3>1, <3>2, <3>3, FS_CardinalityType
    <3> QED BY <3>4 DEF T
  <2>3. Cardinality(V) \in Nat /\ Cardinality(V) # 0
    BY <1>4, <2>1, FS_CardinalityType, FS_EmptySet
  <2>4. Cardinality(V) = 1 /\ Cardinality(S) = l
    BY <1>2, <1>4, <2>2, <2>3
  <2>5. PICK v : V = {v}
    BY <2>1, <2>4, FS_Singleton
  <2> QED BY <2>4, <2>5
<1> QED BY <1>3, <1>4

\* The instance of BoundedCache brings its own copy of Cardinality.
LEMMA SameCardinality ==
  ASSUME NEW S PROVE Cache!Cardinality(S) = Cardinality(S)
  BY Zenon DEF Cache!Cardinality, Cardinality

\* The operations of the bounded cache, over the store of the refinement.
LEMMA PutOnStore ==
  ASSUME NEW d \in Data, limit' = limit, limit > 0,
         \/ /\ Store[d] # "absent" \/ Cardinality(Cached) < limit
            /\ Store' = [Store EXCEPT ![d] = "fresh"]
         \/ /\ Store[d] = "absent" /\ Cardinality(Cached) = limit
            /\ \E victim \in Cached \cup {d} :
                 Store' = [[Store EXCEPT ![d] = "fresh"] EXCEPT ![victim] = "absent"]
  PROVE  Cache!Put(d)
<1>1. Cache!Stored = Cached
  BY StoredIsCached
<1> QED
  BY <1>1, SameCardinality, Zenon DEF Cache!Put, Store

LEMMA SetLimitOnStore ==
  ASSUME NEW l, limit' = l, NEW kept \in SUBSET Cached,
         kept = Cached \/ Cardinality(kept) = l, Cardinality(kept) <= l,
         Store' = [d \in Data |-> IF d \in kept THEN Store[d] ELSE "absent"]
  PROVE  Cache!SetLimit(l)
<1>1. Cache!Stored = Cached
  BY StoredIsCached
<1> QED
  BY <1>1, SameCardinality, Zenon DEF Cache!SetLimit, Store

LEMMA InsertNewIsPut ==
  ASSUME IInv, NEW d \in Data, NEW unsolicited \in BOOLEAN, InsertNew(d, unsolicited)
  PROVE  Cache!Put(d)
<1> DEFINE e == [unsolicited |-> unsolicited, stale |-> Freshness[d]]
           t == [table EXCEPT ![d] = e]
           i == Attached(info, d, QueueFor(e))
<1>0. e \in Entry /\ e # NoEntry /\ e.stale # Stale
  BY FreshEntry, ContentStoreAssumption
<1>1. PICK V \in SUBSET {f \in Data : i[f] # NoInfo} :
        AreVictims(t, i, V, limit) /\ table' = [f \in Data |-> IF f \in V THEN NoEntry ELSE t[f]]
  BY DEF InsertNew, EvictEntries
<1>2. /\ table \in [Data -> Entry \cup {NoEntry}] /\ table[d] = NoEntry
      /\ \A f \in Data : info[f] # NoInfo <=> table[f] # NoEntry
      /\ limit \in Nat /\ limit > 0 /\ limit' = limit
      /\ Cardinality(Cached) <= limit
  BY ContentStoreAssumption DEF IInv, Consistent, Typed, GoodAt, InsertNew, Bounded
<1>3. \A f \in Data \ {d} : i[f] = info[f] /\ t[f] = table[f]
  BY <1>2 DEF Attached, IInv, Consistent, Typed
<1>4. t[d] = e
  BY <1>2
<1> HIDE DEF e, i
<1>5. {f \in Data : t[f] # NoEntry} = Cached \cup {d} /\ d \notin Cached
  BY <1>0, <1>2 DEF Cached
<1>6. V \in SUBSET (Cached \cup {d})
  BY <1>2, <1>3 DEF Cached
<1> HIDE DEF t
<1>7. \/ V = {} /\ Cardinality(Cached) < limit
      \/ Cardinality(Cached) = limit /\ \E victim \in Cached \cup {d} : V = {victim}
  <2>1. Cached \in SUBSET Data
    BY DEF Cached
  <2> QED
    BY <1>1, <1>2, <1>5, <1>6, <2>1, OneVictim DEF AreVictims
<1>8. Store[d] = "absent"
  BY <1>2 DEF Store
<1>9. \A f \in Data : Store'[f] = IF f \in V THEN "absent" ELSE IF f = d THEN "fresh" ELSE Store[f]
  BY <1>0, <1>1, <1>3, <1>4 DEF Store
<1>10. CASE V = {} /\ Cardinality(Cached) < limit
  <2>1. Store' = [Store EXCEPT ![d] = "fresh"]
    BY <1>9, <1>10 DEF Store
  <2> QED
    BY <1>2, <1>10, <2>1, PutOnStore
<1>11. ASSUME Cardinality(Cached) = limit, NEW victim \in Cached \cup {d}, V = {victim}
       PROVE  Cache!Put(d)
  <2>1. Store' = [[Store EXCEPT ![d] = "fresh"] EXCEPT ![victim] = "absent"]
    BY <1>9, <1>11 DEF Store
  <2> QED
    BY <1>2, <1>8, <1>11, <2>1, PutOnStore
<1> QED
  BY <1>7, <1>10, <1>11

LEMMA RefreshIsPut ==
  ASSUME IInv, NEW d \in Data, NEW unsolicited \in BOOLEAN, Refresh(d, unsolicited)
  PROVE  Cache!Put(d)
<1> DEFINE e == [unsolicited |-> table[d].unsolicited /\ unsolicited, stale |-> Freshness[d]]
<1>0. table \in [Data -> Entry \cup {NoEntry}] /\ table[d] # NoEntry
  BY DEF IInv, Consistent, Typed, Refresh
<1>1. e \in Entry /\ e # NoEntry /\ e.stale # Stale
  <2>1. table[d].unsolicited \in BOOLEAN
    BY <1>0 DEF Entry
  <2>2. (table[d].unsolicited /\ unsolicited) \in BOOLEAN
    OBVIOUS
  <2> QED BY <2>2, FreshEntry, ContentStoreAssumption
<1>2. table' = [table EXCEPT ![d] = e] /\ limit' = limit /\ limit > 0
  BY DEF Refresh
<1> HIDE DEF e
<1>3. Store' = [Store EXCEPT ![d] = "fresh"]
  BY <1>0, <1>1, <1>2 DEF Store
<1>4. Store[d] # "absent"
  BY <1>0 DEF Store
<1> QED
  BY <1>2, <1>3, <1>4, PutOnStore

LEMMA SetLimitIsSetLimit ==
  ASSUME IInv, NEW l \in 0 .. MaxLimit, SetLimit(l)
  PROVE  Cache!SetLimit(l)
<1>1. PICK V \in SUBSET {f \in Data : info[f] # NoInfo} :
        AreVictims(table, info, V, l) /\ table' = [f \in Data |-> IF f \in V THEN NoEntry ELSE table[f]]
  BY DEF SetLimit, EvictEntries
<1> DEFINE kept == Cached \ V
<1>3. kept = Cached \/ Cardinality(kept) = l
  BY <1>1 DEF AreVictims, Cached
<1>4. Cardinality(kept) <= l
  BY <1>1 DEF AreVictims, Cached
<1>5. Store' = [d \in Data |-> IF d \in kept THEN Store[d] ELSE "absent"]
  BY <1>1 DEF Store, Cached
<1>6. kept \in SUBSET Cached /\ limit' = l
  BY DEF SetLimit
<1> HIDE DEF kept
<1> QED
  BY <1>3, <1>4, <1>5, <1>6, SetLimitOnStore

LEMMA TickGrowsStale ==
  ASSUME IInv, Tick
  PROVE  Cache!GrowStale
<1> DEFINE aged == {d \in Cached : table[d].stale = 0}
<1>1. ASSUME NEW d \in Data
      PROVE  Store'[d] = IF d \in aged THEN "stale" ELSE Store[d]
  <2>1. CASE table[d] = NoEntry
    BY <2>1 DEF Tick, Store, Cached
  <2>2. CASE table[d] # NoEntry
    <3>1. table[d] \in Entry /\ table[d].stale \in {Never, Stale} \cup 0 .. MaxFreshness
      BY <2>2 DEF IInv, Consistent, Typed, Entry
    <3>2. table'[d] = [table[d] EXCEPT !.stale = IF @ >= 0 THEN @ - 1 ELSE @]
      BY <2>2 DEF Tick
    <3>3. table'[d].stale = (IF table[d].stale >= 0 THEN table[d].stale - 1 ELSE table[d].stale)
      BY <3>1, <3>2 DEF Entry
    <3>4. table'[d] \in Entry
      <4>1. (IF table[d].stale >= 0 THEN table[d].stale - 1 ELSE table[d].stale)
              \in {Never, Stale} \cup 0 .. MaxFreshness
        <5>1. MaxFreshness \in Nat
          BY ContentStoreAssumption
        <5> QED BY <3>1, <5>1 DEF Never, Stale
      <4> QED BY <3>1, <3>2, <4>1 DEF Entry
    <3>5. table'[d] # NoEntry
      BY <3>4, ContentStoreAssumption
    <3>6. table'[d].stale = Stale <=> table[d].stale \in {0, Stale}
      BY <3>1, <3>3, ContentStoreAssumption DEF Stale, Never
    <3> QED BY <2>2, <3>5, <3>6 DEF Store, Cached, Stale
  <2> QED BY <2>1, <2>2
<1>2. aged \in SUBSET Cache!Stored /\ limit' = limit
  BY StoredIsCached DEF Tick
<1> HIDE DEF aged
<1>3. Store' = [d \in Data |-> IF d \in aged THEN "stale" ELSE Store[d]]
  BY <1>1 DEF Store
<1> QED
  BY <1>2, <1>3 DEF Cache!GrowStale, Store

\* The ContentStore with either policy implements the bounded cache that the
\* forwarding pipelines are modelled with.
THEOREM StoreImplementsBoundedCache == Spec => ImplementsBoundedCache
<1>1. Init => Cache!Init
  BY DEF Init, Cache!Init
<1>2. IInv /\ [Next]_vars => [Cache!Next]_(Cache!vars)
  <2> SUFFICES ASSUME IInv, [Next]_vars PROVE [Cache!Next]_(Cache!vars)
    OBVIOUS
  <2>1. CASE UNCHANGED vars
    BY <2>1, SameTable DEF vars
  <2>2. ASSUME NEW d \in Data, NEW unsolicited \in BOOLEAN,
               InsertNew(d, unsolicited) \/ Refresh(d, unsolicited)
        PROVE  Cache!Next
    BY <2>2, InsertNewIsPut, RefreshIsPut DEF Cache!Next
  <2>3. ASSUME NEW d \in Data, NEW noCache \in BOOLEAN,
               InsertRefused(noCache) \/ Find(d) \/ MoveToStaleQueue(d)
        PROVE  UNCHANGED Cache!vars
    BY <2>3, SameTable DEF InsertRefused, Find, MoveToStaleQueue, vars
  <2>4. ASSUME NEW l \in 0 .. MaxLimit, SetLimit(l) PROVE Cache!Next
    BY <2>4, SetLimitIsSetLimit DEF Cache!Next
  <2>5. CASE Tick
    BY <2>5, TickGrowsStale DEF Cache!Next
  <2> QED
    BY <2>1, <2>2, <2>3, <2>4, <2>5 DEF Next, Insert
<1> QED
  BY <1>1, <1>2, StoreInvariance, PTL DEF Spec, ImplementsBoundedCache, Cache!Spec

------------------------------------------------------------------------------
(* The searches by hash.  They are one recursive pass over the table, so their *)
(* proofs rest on induction, which follows from the least-number principle.    *)

\* A set of natural numbers has a least one.
LEMMA LeastNumber ==
  ASSUME NEW S \in SUBSET Nat, S # {}
  PROVE  \E x \in S : \A y \in S : x <= y
<1>1. PICK x \in S : \A y \in S : <<y, x>> \notin OpToRel(<, Nat)
  BY NatLessThanWellFounded, WFMin, Zenon
<1>2. \A y \in S : ~(y < x)
  BY <1>1, Zenon DEF OpToRel
<1> QED
  BY <1>2

\* Induction: a set of numbers with 0 and every successor has them all.
LEMMA Induction ==
  ASSUME NEW S, 0 \in S, \A n \in Nat : n \in S => n + 1 \in S
  PROVE  \A n \in Nat : n \in S
<1> DEFINE missing == {n \in Nat : n \notin S}
<1> SUFFICES ASSUME missing # {} PROVE FALSE
  OBVIOUS
<1>1. PICK n \in missing : \A m \in missing : n <= m
  BY LeastNumber
<1>2. n # 0 /\ n - 1 \in Nat
  OBVIOUS
<1>3. n - 1 \in S
  BY <1>1, <1>2
<1>4. n - 1 + 1 \in S
  BY <1>2, <1>3
<1> QED
  BY <1>4

\* One step of the pass, at place k of the table, from what it found so far.
Look(h, k, found) ==
  LET d == TableOrder[k] IN
  IF d \in Cached /\ Deviation(h, Hash[d]) < found.least
  THEN [least |-> Deviation(h, Hash[d]), nearest |-> d]
  ELSE found

Start == [least |-> SIZE_MAX - 1, nearest |-> NoData]

\* f holds what the pass has found after each of the first n places.
IsScan(h, n, f) ==
  f = [k \in 0 .. n |-> IF k = 0 THEN Start ELSE Look(h, k, f[k - 1])]

\* The recursion is well founded: there is such a function for every length.
LEMMA ScanExists ==
  ASSUME NEW h
  PROVE  \A n \in Nat : \E f : IsScan(h, n, f)
<1> DEFINE S == {n \in Nat : \E f : IsScan(h, n, f)}
<1>1. 0 \in S
  <2>1. IsScan(h, 0, [k \in 0 .. 0 |-> Start])
    BY DEF IsScan
  <2> QED
    BY <2>1
<1>2. ASSUME NEW n \in Nat, n \in S
      PROVE  n + 1 \in S
  <2>1. PICK f : IsScan(h, n, f)
    BY <1>2
  <2> DEFINE g == [k \in 0 .. n + 1 |-> IF k = n + 1 THEN Look(h, k, f[k - 1]) ELSE f[k]]
  <2>2. \A k \in 0 .. n : f[k] = IF k = 0 THEN Start ELSE Look(h, k, f[k - 1])
    BY <2>1 DEF IsScan
  <2>3. \A k \in 1 .. n + 1 : g[k - 1] = f[k - 1]
    OBVIOUS
  <2>4. \A k \in 0 .. n + 1 : g[k] = IF k = 0 THEN Start ELSE Look(h, k, g[k - 1])
    <3> TAKE k \in 0 .. n + 1
    <3>1. CASE k = n + 1
      BY <3>1, <2>3
    <3>2. CASE k \in 0 .. n
      BY <3>2, <2>2, <2>3
    <3> QED
      BY <3>1, <3>2
  <2>5. IsScan(h, n + 1, g)
    <3> DEFINE G == [k \in 0 .. n + 1 |-> IF k = 0 THEN Start ELSE Look(h, k, g[k - 1])]
    <3>1. \A k \in 0 .. n + 1 : g[k] = G[k]
      BY <2>4
    <3>2. g = G
      BY <3>1
    <3> QED
      BY <3>2 DEF IsScan
  <2> QED
    BY <2>5
<1> HIDE DEF S
<1>3. \A n \in Nat : n \in S
  BY <1>1, <1>2, Induction
<1> QED
  BY <1>3 DEF S

\* Nearest is what such a function holds for the last place of the table.
LEMMA NearestIsScanned ==
  ASSUME NEW h
  PROVE  \E f : IsScan(h, Len(TableOrder), f) /\ Nearest(h) = f[Len(TableOrder)].nearest
<1>1. Len(TableOrder) \in Nat
  BY ContentStoreAssumption
<1> DEFINE scan[k \in 0 .. Len(TableOrder)] ==
        IF k = 0 THEN [least |-> SIZE_MAX - 1, nearest |-> NoData]
        ELSE LET d == TableOrder[k] IN
             IF d \in Cached /\ Deviation(h, Hash[d]) < scan[k - 1].least
             THEN [least |-> Deviation(h, Hash[d]), nearest |-> d]
             ELSE scan[k - 1]
<1>2. PICK f : IsScan(h, Len(TableOrder), f)
  BY <1>1, ScanExists
<1>3. IsScan(h, Len(TableOrder), scan)
  BY <1>2, Zenon DEF IsScan, Look, Start
<1>4. Nearest(h) = scan[Len(TableOrder)].nearest
  BY Zenon DEF Nearest
<1> QED
  BY <1>3, <1>4

\* The hashes of cached Data are values of std::size_t.
LEMMA HashType == SIZE_MAX \in Nat /\ \A d \in Cached : Hash[d] \in 0 .. SIZE_MAX
  BY ContentStoreAssumption DEF Cached

\* What the pass has found after n places: nothing, since all of them are too
\* far away, or the nearest of them.
FoundIn(h, n, found) ==
  LET seen == {d \in Cached : \E j \in 1 .. n : TableOrder[j] = d}
  IN \/ /\ found.nearest = NoData /\ found.least = SIZE_MAX - 1
        /\ \A d \in seen : Deviation(h, Hash[d]) >= SIZE_MAX - 1
     \/ /\ found.nearest \in Cached /\ found.least = Deviation(h, Hash[found.nearest])
        /\ found.least < SIZE_MAX - 1
        /\ \A d \in seen : Deviation(h, Hash[d]) >= found.least

\* The loop invariant of the pass, by induction over the places of the table.
LEMMA ScanFinds ==
  ASSUME NEW h \in 0 .. SIZE_MAX, NEW N \in Nat, N <= Len(TableOrder), NEW f, IsScan(h, N, f)
  PROVE  FoundIn(h, N, f[N])
<1> DEFINE S == {n \in Nat : n <= N => FoundIn(h, n, f[n])}
<1>1. 0 \in S
  <2>1. f[0] = Start
    BY DEF IsScan
  <2> QED
    BY <2>1 DEF FoundIn, Start
<1>2. ASSUME NEW n \in Nat, n \in S, n + 1 <= N
      PROVE  FoundIn(h, n + 1, f[n + 1])
  <2> DEFINE d == TableOrder[n + 1]
             seen(m) == {x \in Cached : \E j \in 1 .. m : TableOrder[j] = x}
  <2>1. f[n + 1] = Look(h, n + 1, f[n])
    BY <1>2 DEF IsScan
  <2>2. FoundIn(h, n, f[n])
    BY <1>2
  <2>3. \A x \in seen(n + 1) : x \in seen(n) \/ x = d
    BY <1>2
  <2>4. SIZE_MAX \in Nat /\ \A x \in Cached : Deviation(h, Hash[x]) \in Nat
    BY HashType DEF Deviation
  <2>5. CASE d \in Cached /\ Deviation(h, Hash[d]) < f[n].least
    <3>1. f[n + 1] = [least |-> Deviation(h, Hash[d]), nearest |-> d]
      BY <2>1, <2>5 DEF Look
    <3>2. \A x \in seen(n) : Deviation(h, Hash[x]) >= f[n].least
      BY <2>2 DEF FoundIn
    <3>3. f[n].least <= SIZE_MAX - 1 /\ f[n].least \in Int
      BY <2>2, <2>4 DEF FoundIn
    <3>4. \A x \in seen(n + 1) : Deviation(h, Hash[x]) >= Deviation(h, Hash[d])
      <4> TAKE x \in seen(n + 1)
      <4>1. CASE x = d
        BY <4>1, <2>4, <2>5
      <4>2. CASE x \in seen(n)
        <5>1. Deviation(h, Hash[x]) >= f[n].least
          BY <4>2, <3>2
        <5>2. Deviation(h, Hash[x]) \in Nat /\ Deviation(h, Hash[d]) \in Nat
          BY <2>4, <2>5
        <5> QED
          BY <5>1, <5>2, <3>3, <2>5
      <4> QED
        BY <4>1, <4>2, <2>3
    <3> HIDE DEF d
    <3> QED
      BY <3>1, <3>3, <3>4, <2>4, <2>5 DEF FoundIn
  <2>6. CASE ~(d \in Cached /\ Deviation(h, Hash[d]) < f[n].least)
    <3>1. f[n + 1] = f[n]
      BY <2>1, <2>6 DEF Look
    <3>2. f[n].least \in Int
      BY <2>2, <2>4 DEF FoundIn
    <3>3. d \in Cached => Deviation(h, Hash[d]) >= f[n].least
      BY <2>6, <3>2, <2>4
    <3> HIDE DEF d
    <3> QED
      BY <3>1, <3>3, <2>2, <2>3 DEF FoundIn
  <2> QED
    BY <2>5, <2>6
<1>3. \A n \in Nat : n \in S => n + 1 \in S
  BY <1>2
<1> HIDE DEF S
<1>4. N \in S
  BY <1>1, <1>3, Induction
<1> QED
  BY <1>4 DEF S

\* Every cached Data has a place in the table, so the pass misses none.
LEMMA NearestIs ==
  ASSUME NEW h \in 0 .. SIZE_MAX
  PROVE  IF \A d \in Cached : Deviation(h, Hash[d]) >= SIZE_MAX - 1
         THEN Nearest(h) = NoData
         ELSE /\ Nearest(h) \in Cached
              /\ \A d \in Cached : Deviation(h, Hash[Nearest(h)]) <= Deviation(h, Hash[d])
<1>1. PICK f : IsScan(h, Len(TableOrder), f) /\ Nearest(h) = f[Len(TableOrder)].nearest
  BY NearestIsScanned
<1>2. Len(TableOrder) \in Nat /\ DOMAIN TableOrder = 1 .. Len(TableOrder)
  BY ContentStoreAssumption
<1>3. FoundIn(h, Len(TableOrder), f[Len(TableOrder)])
  BY <1>1, <1>2, ScanFinds
<1>4. \A d \in Cached : \E j \in 1 .. Len(TableOrder) : TableOrder[j] = d
  BY <1>2, ContentStoreAssumption DEF Cached
<1>5. SIZE_MAX \in Nat /\ \A x \in Cached : Deviation(h, Hash[x]) \in Nat
  BY HashType DEF Deviation
<1> DEFINE found == f[Len(TableOrder)]
<1>6. \/ /\ found.nearest = NoData
         /\ \A d \in Cached : Deviation(h, Hash[d]) >= SIZE_MAX - 1
      \/ /\ found.nearest \in Cached
         /\ Deviation(h, Hash[found.nearest]) < SIZE_MAX - 1
         /\ \A d \in Cached : Deviation(h, Hash[d]) >= Deviation(h, Hash[found.nearest])
  BY <1>3, <1>4 DEF FoundIn
<1> HIDE DEF found
<1>7. Nearest(h) = found.nearest
  BY <1>1 DEF found
<1> QED
  BY <1>5, <1>6, <1>7

\* searchNearestHashData and searchNearestConsumerIDData find a Data of least
\* deviation whatever the table holds and in whatever order, for hashes of any
\* width, and nothing exactly when all of it is SIZE_MAX - 1 or more away.
THEOREM NearestIsFound == Spec => []SearchFindsNearest
<1>1. SearchFindsNearest
  BY NearestIs DEF SearchFindsNearest
<1> QED
  BY <1>1, PTL
==============================================================================
