----------------------------- MODULE ContentStore -----------------------------
(***************************************************************************)
(* The ContentStore of one node with its replacement policy (cs.cpp,       *)
(* cs-policy-priority-fifo.cpp, cs-policy-lru.cpp): the table, the queues  *)
(* of the policy and the timers that move entries to the STALE queue.      *)
(*                                                                         *)
(* Time is counted in ticks.  An entry holds the ticks left to its         *)
(* staleTime: at 0 the timer fires, and since isStale compares strictly    *)
(* the entry counts as stale only one tick later.                          *)
(***************************************************************************)
EXTENDS Integers, FiniteSets, Sequences

CONSTANTS
  Data,           \* the Data packets, by full name
  TableOrder,     \* all of them in the order of the table
  Hash,           \* Hash[d]: the std::hash of its name
  SIZE_MAX,       \* the largest hash value and ConsumerID
  Freshness,      \* Freshness[d]: its FreshnessPeriod in ticks, or Never
  MaxFreshness,   \* bound on the finite FreshnessPeriods
  MaxLimit,       \* bound on the limits that are set
  NoEntry, NoInfo, NoData

Never    == -2    \* no FreshnessPeriod: staleTime is TimePoint::max()
Stale    == -1    \* staleTime has passed
NotArmed == -1

Policies == {"lru", "priority_fifo"}

\* The queue of lru, and those of priority_fifo.
Queue == {"LRU", "UNSOLICITED", "STALE", "FIFO"}

Entry == [unsolicited : BOOLEAN, stale : {Never, Stale} \cup 0 .. MaxFreshness]

\* EntryInfo: the queue of an entry and the entries that stand before it there.
Info == [queue : Queue, ahead : SUBSET Data]

ASSUME ContentStoreAssumption ==
  /\ IsFiniteSet(Data) /\ MaxFreshness \in Nat /\ MaxLimit \in Nat
  /\ Freshness \in [Data -> {Never} \cup 0 .. MaxFreshness]
  /\ SIZE_MAX \in Nat \ {0} /\ Hash \in [Data -> 0 .. SIZE_MAX]
  /\ TableOrder \in Seq(Data) /\ \A d \in Data : \E k \in DOMAIN TableOrder : TableOrder[k] = d
  /\ NoData \notin Data /\ NoEntry \notin Entry /\ NoInfo \notin Info

VARIABLES
  policy,   \* the policy, chosen while the store is empty
  limit,    \* m_limit of the policy
  table,    \* table[d]: m_table
  info,     \* info[d]: the place of an entry in the queues of the policy
  timer,    \* timer[d]: ticks until moveToStaleQueue runs for d, or NotArmed
  recent    \* history: the Data that was inserted, refreshed or found last

vars == <<policy, limit, table, info, timer, recent>>

Cached == {d \in Data : table[d] # NoEntry}
Queued == {d \in Data : info[d] # NoInfo}

------------------------------------------------------------------------------
(* The queues. *)

Members(i, q) == {d \in Data : i[d] # NoInfo /\ i[d].queue = q}

Attached(i, d, q) == [i EXCEPT ![d] = [queue |-> q, ahead |-> Members(i, q)]]

Detached(i, V) ==
  [d \in Data |-> IF d \in V \/ i[d] = NoInfo THEN NoInfo
                  ELSE [i[d] EXCEPT !.ahead = @ \ V]]

MutantCancelNothing(t, i, V) == t

\* detachQueue cancels the timer of an entry in FIFO.
Cancelled(t, i, V) ==
  [d \in Data |-> IF d \in V /\ i[d] # NoInfo /\ i[d].queue = "FIFO" THEN NotArmed ELSE t[d]]

\* insertToQueue, attachQueue.
QueueFor(e) ==
  CASE policy = "lru"   -> "LRU"
    [] policy = "priority_fifo" /\ e.unsolicited -> "UNSOLICITED"
    [] policy = "priority_fifo" /\ ~e.unsolicited /\ e.stale = Stale -> "STALE"
    [] OTHER -> "FIFO"

\* attachQueue schedules moveToStaleQueue for an entry of FIFO that can be stale.
Scheduled(t, d, e) ==
  IF QueueFor(e) = "FIFO" /\ e.stale # Never THEN [t EXCEPT ![d] = Freshness[d]] ELSE t

------------------------------------------------------------------------------
(* Eviction. *)

MutantFifoFirst(q) == CASE q = "UNSOLICITED" -> 1 [] q = "FIFO" -> 2 [] q = "STALE" -> 3 [] OTHER -> 4

Turn(q) == CASE q = "UNSOLICITED" -> 1 [] q = "STALE" -> 2 [] q = "FIFO" -> 3 [] OTHER -> 4

\* evictOne takes d before e.
Before(i, d, e) ==
  \/ Turn(i[d].queue) < Turn(i[e].queue)
  \/ i[d].queue = i[e].queue /\ d \in i[e].ahead

MutantKeepOneTooMany(t, i, V, l) ==
  LET left == {d \in Data : t[d] # NoEntry} \ V
  IN /\ \A d \in V, e \in Data : i[e] # NoInfo /\ Before(i, e, d) => e \in V
     /\ V = {} \/ Cardinality(left) = l + 1
     /\ Cardinality(left) <= l + 1

\* The victims V go, in the order of Before, until l entries of table t are left.
AreVictims(t, i, V, l) ==
  LET left == {d \in Data : t[d] # NoEntry} \ V
  IN /\ \A d \in V, e \in Data : i[e] # NoInfo /\ Before(i, e, d) => e \in V
     /\ V = {} \/ Cardinality(left) = l
     /\ Cardinality(left) <= l

\* evictEntries on table t, queues i and timers tm; beforeEvict makes the table
\* erase the victims.
EvictEntries(t, i, tm, l) ==
  \E V \in SUBSET {d \in Data : i[d] # NoInfo} :
    /\ AreVictims(t, i, V, l)
    /\ table' = [d \in Data |-> IF d \in V THEN NoEntry ELSE t[d]]
    /\ info' = Detached(i, V)
    /\ timer' = Cancelled(tm, i, V)

------------------------------------------------------------------------------
(* The searches by hash, over std::size_t. *)

Deviation(h, g) == IF h > g THEN h - g ELSE g - h

MutantScanFromZero(h) ==
  LET scan[k \in 0 .. Len(TableOrder)] ==
        IF k = 0 THEN [least |-> 0, nearest |-> NoData]
        ELSE LET d == TableOrder[k] IN
             IF d \in Cached /\ Deviation(h, Hash[d]) < scan[k - 1].least
             THEN [least |-> Deviation(h, Hash[d]), nearest |-> d]
             ELSE scan[k - 1]
  IN scan[Len(TableOrder)].nearest

\* searchNearestHashData, searchNearestConsumerIDData: one pass over the table;
\* NoData is the iterator that was never set.
Nearest(h) ==
  LET scan[k \in 0 .. Len(TableOrder)] ==
        IF k = 0 THEN [least |-> SIZE_MAX - 1, nearest |-> NoData]
        ELSE LET d == TableOrder[k] IN
             IF d \in Cached /\ Deviation(h, Hash[d]) < scan[k - 1].least
             THEN [least |-> Deviation(h, Hash[d]), nearest |-> d]
             ELSE scan[k - 1]
  IN scan[Len(TableOrder)].nearest

------------------------------------------------------------------------------
(* Operations. *)

Init ==
  /\ policy \in Policies /\ limit \in 0 .. MaxLimit
  /\ table = [d \in Data |-> NoEntry]
  /\ info = [d \in Data |-> NoInfo]
  /\ timer = [d \in Data |-> NotArmed]
  /\ recent \in Data

InsertNew(d, unsolicited) ==
  LET e == [unsolicited |-> unsolicited, stale |-> Freshness[d]]
  IN /\ limit > 0 /\ table[d] = NoEntry
     /\ EvictEntries([table EXCEPT ![d] = e], Attached(info, d, QueueFor(e)),
                     Scheduled(timer, d, e), limit)
     /\ recent' = d
     /\ UNCHANGED <<policy, limit>>

MutantRefreshInPlace(d, unsolicited) ==
  /\ limit > 0 /\ table[d] # NoEntry
  /\ table' = [table EXCEPT ![d] = [unsolicited |-> @.unsolicited /\ unsolicited,
                                    stale |-> Freshness[d]]]
  /\ recent' = d
  /\ UNCHANGED <<policy, limit, info, timer>>

\* An existing entry keeps its Data; solicited Data makes it solicited.
Refresh(d, unsolicited) ==
  /\ limit > 0 /\ table[d] # NoEntry
  /\ LET e == [unsolicited |-> table[d].unsolicited /\ unsolicited, stale |-> Freshness[d]]
     IN /\ table' = [table EXCEPT ![d] = e]
        /\ info' = Attached(Detached(info, {d}), d, QueueFor(e))
        /\ timer' = Scheduled(Cancelled(timer, info, {d}), d, e)
  /\ recent' = d
  /\ UNCHANGED <<policy, limit>>

\* "shortcut for disabled CS", and Data whose CachePolicyTag says NO_CACHE.
InsertRefused(noCache) == (limit = 0 \/ noCache) /\ UNCHANGED vars

MutantUsedInPlace(d) ==
  /\ table[d] # NoEntry /\ recent' = d
  /\ UNCHANGED <<policy, limit, table, info, timer>>

\* Cs::find meets d; lru makes it the last one to go.
Find(d) ==
  /\ table[d] # NoEntry
  /\ info' = IF policy = "lru" THEN Attached(Detached(info, {d}), d, "LRU") ELSE info
  /\ recent' = d
  /\ UNCHANGED <<policy, limit, table, timer>>

SetLimit(l) ==
  /\ limit' = l
  /\ EvictEntries(table, info, timer, l)
  /\ UNCHANGED <<policy, recent>>

MoveToStaleQueue(d) ==
  /\ timer[d] = 0
  /\ info' = Attached(Detached(info, {d}), d, "STALE")
  /\ timer' = [timer EXCEPT ![d] = NotArmed]
  /\ UNCHANGED <<policy, limit, table, recent>>

MutantTickCountsOn ==
  /\ \A d \in Data : timer[d] # 0
  /\ table' = [d \in Data |-> IF table[d] = NoEntry THEN NoEntry
                              ELSE [table[d] EXCEPT !.stale = @ - 1]]
  /\ timer' = [d \in Data |-> IF timer[d] > 0 THEN timer[d] - 1 ELSE timer[d]]
  /\ UNCHANGED <<policy, limit, info, recent>>

\* One tick passes; the scheduler runs the timers that are due first.
Tick ==
  /\ \A d \in Data : timer[d] # 0
  /\ table' = [d \in Data |-> IF table[d] = NoEntry THEN NoEntry
                              ELSE [table[d] EXCEPT !.stale = IF @ >= 0 THEN @ - 1 ELSE @]]
  /\ timer' = [d \in Data |-> IF timer[d] > 0 THEN timer[d] - 1 ELSE timer[d]]
  /\ UNCHANGED <<policy, limit, info, recent>>

Insert(d, unsolicited, noCache) ==
  \/ ~noCache /\ (InsertNew(d, unsolicited) \/ Refresh(d, unsolicited))
  \/ InsertRefused(noCache)

Next ==
  \/ \E d \in Data : \/ \E unsolicited, noCache \in BOOLEAN : Insert(d, unsolicited, noCache)
                     \/ Find(d)
                     \/ MoveToStaleQueue(d)
  \/ \E l \in 0 .. MaxLimit : SetLimit(l)
  \/ Tick

Spec == Init /\ [][Next]_vars

------------------------------------------------------------------------------
(* Properties. *)

TypeOK ==
  /\ policy \in Policies /\ limit \in 0 .. MaxLimit
  /\ table \in [Data -> Entry \cup {NoEntry}]
  /\ info \in [Data -> Info \cup {NoInfo}]
  /\ timer \in [Data -> NotArmed .. MaxFreshness]
  /\ recent \in Data

\* The table and the queues of the policy hold the same entries, and each entry
\* stands in the one queue its state calls for: unsolicited ones in UNSOLICITED
\* whatever their age, expired ones in STALE, the rest in FIFO.
QueuesMatchTable ==
  /\ Queued = Cached
  /\ \A d \in Cached :
       CASE info[d].queue = "LRU"         -> policy = "lru"
         [] info[d].queue = "UNSOLICITED" -> policy = "priority_fifo" /\ table[d].unsolicited
         [] info[d].queue = "STALE"       -> /\ policy = "priority_fifo" /\ ~table[d].unsolicited
                                             /\ table[d].stale \in {0, Stale}
         [] info[d].queue = "FIFO"        -> /\ policy = "priority_fifo" /\ ~table[d].unsolicited
                                             /\ table[d].stale # Stale

\* moveToStaleQueue runs only for an entry that is still cached and still in
\* FIFO (what it asserts), at the very moment its freshness ends, and every
\* entry of FIFO that can become stale has its timer: eviction, refreshment and
\* lookups leave none behind and lose none.
TimersMatchFifo ==
  \A d \in Data :
    IF d \in Queued /\ info[d].queue = "FIFO" /\ d \in Cached /\ table[d].stale # Never
    THEN timer[d] = table[d].stale
    ELSE timer[d] = NotArmed

Priority(e) == IF e.unsolicited THEN 1 ELSE IF e.stale = Stale THEN 2 ELSE 3

\* "The entries that get removed first are unsolicited Data packets [...] Next,
\* the Data packets with expired freshness" (cs-policy-priority-fifo.hpp:66-69):
\* of two entries, the one evicted never had more right to stay.  It is stated
\* over the entries, whose state changes with time and refreshment, not over
\* the queues.
EvictsByPriority ==
  [][policy = "priority_fifo" =>
       \A d, e \in Cached : table'[d] = NoEntry /\ table'[e] # NoEntry
                              => Priority(table[d]) <= Priority(table[e])]_vars

\* lru never evicts the Data used last, except with all the others.
RecentIsKept ==
  policy = "lru" /\ Cached # {} => recent \in Cached

\* The one pass finds a Data of least deviation, except where every cached Data
\* is SIZE_MAX - 1 or more away: there the code dereferences an unset iterator.
SearchFindsNearest ==
  \A h \in 0 .. SIZE_MAX :
    IF \A d \in Cached : Deviation(h, Hash[d]) >= SIZE_MAX - 1
    THEN Nearest(h) = NoData
    ELSE /\ Nearest(h) \in Cached
         /\ \A d \in Cached : Deviation(h, Hash[Nearest(h)]) <= Deviation(h, Hash[d])

Cache == INSTANCE BoundedCache WITH
  store <- [d \in Data |-> IF table[d] = NoEntry THEN "absent"
                           ELSE IF table[d].stale = Stale THEN "stale" ELSE "fresh"]

\* Both policies, with their queues and timers, implement the bounded cache that
\* the pipelines rely on.
ImplementsBoundedCache == Cache!Spec
==============================================================================
