--------------------------- MODULE TestRunnerProofs ---------------------------
(***************************************************************************)
(* Proofs about the test runner, for any number of jobs and threads: jobs  *)
(* are neither lost nor doubled, break jobs come last, and success means   *)
(* that every job ran and passed or was skipped on purpose.                *)
(***************************************************************************)
EXTENDS TestRunner, TLAPS, FiniteSetTheorems

(* Where a job is. *)

Queued(j)  == \E k \in DOMAIN input_queue : input_queue[k] = j
Held(j)    == \E w \in Worker : hand[w] = j
Back(j)    == \E k \in DOMAIN output_queue : output_queue[k].job = j
Counted(j) == \E s \in Mark : j \in counted[s]

\* No place holds a job twice.
OnceInAPlace ==
  /\ \A k, l \in DOMAIN input_queue : input_queue[k] = input_queue[l] /\ input_queue[k] \in Job => k = l
  /\ \A v, w \in Worker : hand[v] = hand[w] /\ hand[v] \in Job => v = w
  /\ \A k, l \in DOMAIN output_queue : output_queue[k].job = output_queue[l].job => k = l
  /\ \A s, t \in Mark, j \in Job : j \in counted[s] /\ j \in counted[t] => s = t

\* A job is in one place at most, and in one once it was dispatched.
InOnePlace ==
  \A j \in Job :
    /\ Queued(j) => ~Held(j) /\ ~Back(j) /\ ~Counted(j)
    /\ Held(j) => ~Back(j) /\ ~Counted(j)
    /\ Back(j) => ~Counted(j)
    /\ j \in dispatched <=> Queued(j) \/ Held(j) \/ Back(j) \/ Counted(j)

\* Threads at rest hold nothing, the others a job.
HandsAreRight ==
  \A w \in Worker : hand[w] = NoJob <=> worker[w] \in {"get", "exit"}

CountsAreRight == \A s \in Mark : count[s] = Cardinality(counted[s])

\* Break jobs are put when all jobs are dispatched.
BreaksFollow ==
  /\ \A k, l \in DOMAIN input_queue : input_queue[k] = Break /\ k < l => input_queue[l] = Break
  /\ \A k \in DOMAIN input_queue : input_queue[k] = Break => dispatched = Job
  /\ main # "dispatch" => dispatched = Job
  /\ BreaksComeLast

\* What was skipped was to be skipped.
SkipsAreMeant ==
  /\ \A k \in DOMAIN output_queue : output_queue[k].status = "SKIP" => output_queue[k].job \in Skipped
  /\ counted["SKIP"] \subseteq Skipped

\* What ran is in the report.
RunsAreReported ==
  main # "raised" => \A s \in Mark \ {"BREAK"} : \A j \in counted[s] : report[j] # {}

\* The return value stays what the counters say.
ReturnsSuccess == main = "success" => Success

Inv ==
  /\ TypeOK
  /\ OnceInAPlace /\ InOnePlace /\ HandsAreRight /\ CountsAreRight
  /\ BreaksFollow /\ SkipsAreMeant /\ RunsAreReported /\ ReturnsSuccess

------------------------------------------------------------------------------
(* Queues. *)

LEMMA TailOf ==
  ASSUME NEW S, NEW s \in Seq(S), s # <<>>
  PROVE  /\ Len(s) \in Nat \ {0} /\ DOMAIN s = 1 .. Len(s)
         /\ Head(s) = s[1] /\ Head(s) \in S
         /\ Tail(s) \in Seq(S) /\ DOMAIN Tail(s) = 1 .. Len(s) - 1
         /\ \A k \in 1 .. Len(s) - 1 : Tail(s)[k] = s[k + 1]
  OBVIOUS

LEMMA AppendTo ==
  ASSUME NEW S, NEW s \in Seq(S), NEW x \in S
  PROVE  /\ Len(s) \in Nat /\ DOMAIN s = 1 .. Len(s)
         /\ Append(s, x) \in Seq(S) /\ DOMAIN Append(s, x) = 1 .. Len(s) + 1
         /\ \A k \in 1 .. Len(s) : Append(s, x)[k] = s[k]
         /\ Append(s, x)[Len(s) + 1] = x
  OBVIOUS

LEMMA JobCount ==
  /\ Cardinality(Job) \in Nat
  /\ \A S \in SUBSET Job : IsFiniteSet(S) /\ Cardinality(S) \in Nat /\ Cardinality(S) <= Cardinality(Job)
  BY FS_CardinalityType, FS_Subset, TestRunnerAssumption

LEMMA WorkerCount == Cardinality(Worker) \in Nat
  BY FS_CardinalityType, TestRunnerAssumption

------------------------------------------------------------------------------
LEMMA InitInv == Init => Inv
  <1> SUFFICES ASSUME Init PROVE Inv
    OBVIOUS
  <1> USE TestRunnerAssumption DEF Init
  <1>1. TypeOK
    <2>1. input_queue \in Seq(Job \cup {Break}) /\ output_queue \in Seq(Result)
      OBVIOUS
    <2>2. /\ count \in [Mark -> 0 .. Cardinality(Job)] /\ received \in 0 .. Cardinality(Job)
          /\ breaks \in 0 .. Cardinality(Worker)
      BY JobCount, WorkerCount
    <2>3. counted \in [Mark -> SUBSET Job] /\ report \in [Job -> SUBSET (Status \cup {"SKIP"})]
      OBVIOUS
    <2> QED BY <2>1, <2>2, <2>3 DEF TypeOK
  <1>2. OnceInAPlace /\ InOnePlace /\ HandsAreRight
    BY DEF OnceInAPlace, InOnePlace, HandsAreRight, Queued, Held, Back, Counted
  <1>3. CountsAreRight
    BY FS_EmptySet DEF CountsAreRight
  <1>4. BreaksFollow /\ SkipsAreMeant /\ RunsAreReported /\ ReturnsSuccess
    BY DEF BreaksFollow, BreaksComeLast, SkipsAreMeant, RunsAreReported, ReturnsSuccess, Mark
  <1> QED BY <1>1, <1>2, <1>3, <1>4 DEF Inv

\* A thread takes a break job and goes home, or takes a job in its hand.
LEMMA GetInv == ASSUME NEW w \in Worker PROVE Inv /\ Get(w) => Inv'
  <1> SUFFICES ASSUME Inv, Get(w) PROVE Inv'
    OBVIOUS
  <1> USE TestRunnerAssumption
  <1> DEFINE n == Len(input_queue)
  <1>1. /\ worker[w] = "get" /\ input_queue # <<>> /\ input_queue' = Tail(input_queue)
        /\ UNCHANGED <<output_queue, thread_exit, main, sent, results>>
    BY DEF Get
  <1>2. /\ n \in Nat \ {0} /\ DOMAIN input_queue = 1 .. n
        /\ Head(input_queue) = input_queue[1] /\ input_queue[1] \in Job \cup {Break}
        /\ input_queue' \in Seq(Job \cup {Break}) /\ DOMAIN input_queue' = 1 .. n - 1
        /\ \A k \in 1 .. n - 1 : k + 1 \in 1 .. n /\ input_queue'[k] = input_queue[k + 1]
    BY <1>1, TailOf DEF Inv, TypeOK
  <1> HIDE DEF n
  <1>3. \A j \in Job : Queued(j) <=> j = input_queue[1] \/ Queued(j)'
    <2> SUFFICES ASSUME NEW j \in Job PROVE Queued(j) <=> j = input_queue[1] \/ Queued(j)'
      OBVIOUS
    <2>1. ASSUME Queued(j) PROVE j = input_queue[1] \/ Queued(j)'
      <3>1. PICK k \in 1 .. n : input_queue[k] = j
        BY <1>2, <2>1 DEF Queued
      <3>2. CASE k = 1
        BY <3>1, <3>2
      <3>3. CASE k # 1
        <4>1. k - 1 \in 1 .. n - 1 /\ (k - 1) + 1 = k
          BY <1>2, <3>3
        <4>2. input_queue'[k - 1] = j
          BY <1>2, <3>1, <4>1
        <4> QED BY <1>2, <4>1, <4>2 DEF Queued
      <3> QED BY <3>2, <3>3
    <2>2. ASSUME Queued(j)' PROVE Queued(j)
      BY <1>2, <2>2 DEF Queued
    <2>3. j = input_queue[1] => Queued(j)
      BY <1>2 DEF Queued
    <2> QED BY <2>1, <2>2, <2>3
  <1>4. \A k, l \in DOMAIN input_queue' :
          input_queue'[k] = input_queue'[l] /\ input_queue'[k] \in Job => k = l
    <2> SUFFICES ASSUME NEW k \in 1 .. n - 1, NEW l \in 1 .. n - 1,
                        input_queue'[k] = input_queue'[l], input_queue'[k] \in Job
                 PROVE  k = l
      BY <1>2
    <2>1. input_queue[k + 1] = input_queue[l + 1] /\ k + 1 \in 1 .. n /\ l + 1 \in 1 .. n
      BY <1>2
    <2>2. k + 1 = l + 1
      BY <1>2, <2>1 DEF Inv, OnceInAPlace
    <2> QED BY <2>2
  <1>5. \A j \in Job : j = input_queue[1] => ~Queued(j)'
    <2> SUFFICES ASSUME NEW j \in Job, j = input_queue[1], Queued(j)' PROVE FALSE
      OBVIOUS
    <2>1. PICK k \in 1 .. n - 1 : input_queue'[k] = j
      BY <1>2 DEF Queued
    <2>2. k + 1 \in 1 .. n /\ 1 \in 1 .. n /\ input_queue[k + 1] = input_queue[1] /\ k + 1 # 1
      BY <1>2, <2>1
    <2> QED BY <1>2, <2>2 DEF Inv, OnceInAPlace
  <1>6. \A j \in Job : (Back(j)' <=> Back(j)) /\ (Counted(j)' <=> Counted(j))
    BY <1>1 DEF Back, Counted, results
  <1>7. /\ \A k, l \in DOMAIN input_queue' : input_queue'[k] = Break /\ k < l => input_queue'[l] = Break
        /\ \A k \in DOMAIN input_queue' : input_queue'[k] = Break => dispatched = Job
    <2>1. /\ \A k, l \in 1 .. n : input_queue[k] = Break /\ k < l => input_queue[l] = Break
          /\ \A k \in 1 .. n : input_queue[k] = Break => dispatched = Job
      BY <1>2 DEF Inv, BreaksFollow
    <2> QED BY <1>2, <2>1
  <1>8. /\ CountsAreRight' /\ SkipsAreMeant' /\ RunsAreReported' /\ ReturnsSuccess'
        /\ main' = main /\ dispatched' = dispatched
    BY <1>1 DEF Inv, CountsAreRight, SkipsAreMeant, RunsAreReported, ReturnsSuccess, results, sent, Success
  <1>9. CASE input_queue[1] = Break
    <2>1. worker' = [worker EXCEPT ![w] = "exit"] /\ hand' = hand
      BY <1>1, <1>2, <1>9 DEF Get
    <2>2. TypeOK'
      BY <1>1, <1>2, <2>1 DEF Inv, TypeOK, results, sent
    <2>3. OnceInAPlace'
      BY <1>1, <1>4, <2>1 DEF Inv, OnceInAPlace, results
    <2>4. InOnePlace'
      <3>1. \A j \in Job : (Queued(j)' <=> Queued(j)) /\ (Held(j)' <=> Held(j))
        BY <1>3, <1>9, <2>1 DEF Held
      <3> QED BY <1>6, <1>8, <3>1 DEF Inv, InOnePlace
    <2>5. HandsAreRight'
      BY <1>1, <2>1 DEF Inv, HandsAreRight, TypeOK
    <2>6. \A k \in DOMAIN input_queue : input_queue[k] = Break
      BY <1>2, <1>9 DEF Inv, BreaksFollow
    <2>7. BreaksFollow'
      <3>1. dispatched = Job
        BY <1>2, <1>9 DEF Inv, BreaksFollow
      <3>2. \A k \in DOMAIN input_queue' : input_queue'[k] = Break
        BY <1>2, <2>6
      <3> QED BY <1>7, <1>8, <3>1, <3>2 DEF BreaksFollow, BreaksComeLast
    <2> QED BY <1>8, <2>2, <2>3, <2>4, <2>5, <2>7 DEF Inv
  <1>10. CASE input_queue[1] # Break
    <2> DEFINE j0 == input_queue[1]
    <2>1. worker' = [worker EXCEPT ![w] = "check"] /\ hand' = [hand EXCEPT ![w] = j0] /\ j0 \in Job
      BY <1>1, <1>2, <1>10 DEF Get
    <2>2. TypeOK'
      BY <1>1, <1>2, <2>1 DEF Inv, TypeOK, results, sent
    <2>3. hand[w] = NoJob /\ hand \in [Worker -> Job \cup {NoJob}]
      BY <1>1 DEF Inv, HandsAreRight, TypeOK
    <2>4. ~Held(j0) /\ ~Back(j0) /\ ~Counted(j0) /\ j0 \in dispatched
      <3>1. Queued(j0)
        BY <1>3, <2>1
      <3> QED BY <2>1, <3>1 DEF Inv, InOnePlace
    <2>5. OnceInAPlace'
      BY <1>1, <1>4, <2>1, <2>3, <2>4 DEF Inv, OnceInAPlace, Held, results
    <2>6. InOnePlace'
      <3>1. \A j \in Job : Held(j)' <=> Held(j) \/ j = j0
        BY <2>1, <2>3 DEF Held
      <3>2. \A j \in Job : Queued(j)' <=> Queued(j) /\ j # j0
        BY <1>3, <1>5, <2>1
      <3> QED BY <1>6, <1>8, <2>1, <2>4, <3>1, <3>2 DEF Inv, InOnePlace
    <2>7. HandsAreRight'
      BY <2>1, <2>3 DEF Inv, HandsAreRight, TypeOK
    <2>8. BreaksFollow'
      <3>1. \A v \in Worker : worker'[v] = "exit" => worker[v] = "exit"
        BY <2>1 DEF Inv, TypeOK
      <3>2. BreaksComeLast'
        BY <1>2, <1>8, <3>1 DEF Inv, BreaksFollow, BreaksComeLast
      <3> QED BY <1>7, <1>8, <3>2 DEF Inv, BreaksFollow
    <2> QED BY <1>8, <2>2, <2>5, <2>6, <2>7, <2>8 DEF Inv
  <1> QED BY <1>9, <1>10

\* A job goes from a hand to output_queue.
LEMMA PutBackInv ==
  ASSUME Inv, NEW w \in Worker, worker[w] \in {"check", "running"},
         NEW status \in Mark, status = "SKIP" => hand[w] \in Skipped, PutBack(w, status),
         UNCHANGED <<input_queue, thread_exit, main, sent, results>>
  PROVE  Inv'
  <1> USE TestRunnerAssumption
  <1> DEFINE n == Len(output_queue)
             r == [job |-> hand[w], status |-> status]
             j0 == hand[w]
  <1>1. /\ hand \in [Worker -> Job \cup {NoJob}] /\ worker \in [Worker -> {"get", "check", "running", "exit", "dead"}]
        /\ j0 \in Job
    BY DEF Inv, TypeOK, HandsAreRight
  <1>2. r \in Result /\ r.job = j0 /\ r.status = status
    BY <1>1 DEF Result
  <1>3. output_queue \in Seq(Result) /\ output_queue' = Append(output_queue, r)
    BY DEF PutBack, Inv, TypeOK
  <1> HIDE DEF r
  <1>4. /\ n \in Nat /\ DOMAIN output_queue = 1 .. n
        /\ output_queue' \in Seq(Result) /\ DOMAIN output_queue' = 1 .. n + 1
        /\ \A k \in 1 .. n : output_queue'[k] = output_queue[k]
        /\ output_queue'[n + 1] = r
    BY <1>2, <1>3, AppendTo
  <1> HIDE DEF n
  <1>5. /\ worker' = [worker EXCEPT ![w] = "get"] /\ hand' = [hand EXCEPT ![w] = NoJob]
    BY DEF PutBack
  <1>6. /\ Held(j0) /\ ~Back(j0) /\ ~Queued(j0) /\ ~Counted(j0) /\ j0 \in dispatched
    <2>1. Held(j0)
      BY DEF Held
    <2> QED BY <1>1, <2>1 DEF Inv, InOnePlace
  <1>7. \A j \in Job : /\ Back(j)' <=> Back(j) \/ j = j0
                       /\ Held(j)' <=> Held(j) /\ j # j0
                       /\ Queued(j)' <=> Queued(j)
                       /\ Counted(j)' <=> Counted(j)
    <2> SUFFICES ASSUME NEW j \in Job
                 PROVE  /\ Back(j)' <=> Back(j) \/ j = j0
                        /\ Held(j)' <=> Held(j) /\ j # j0
                        /\ Queued(j)' <=> Queued(j)
                        /\ Counted(j)' <=> Counted(j)
      OBVIOUS
    <2>1. Back(j)' <=> Back(j) \/ j = j0
      BY <1>2, <1>4 DEF Back
    <2>2. Held(j)' <=> Held(j) /\ j # j0
      BY <1>1, <1>5 DEF Held, Inv, OnceInAPlace
    <2>3. (Queued(j)' <=> Queued(j)) /\ (Counted(j)' <=> Counted(j))
      BY DEF Queued, Counted, results
    <2> QED BY <2>1, <2>2, <2>3
  <1>8. TypeOK'
    BY <1>1, <1>4, <1>5 DEF Inv, TypeOK, results, sent
  <1>9. OnceInAPlace'
    <2>1. \A k, l \in DOMAIN output_queue' : output_queue'[k].job = output_queue'[l].job => k = l
      <3>1. \A k \in 1 .. n : output_queue[k].job # j0
        BY <1>4, <1>6 DEF Back
      <3> QED BY <1>2, <1>4, <3>1 DEF Inv, OnceInAPlace
    <2>2. \A v, u \in Worker : hand'[v] = hand'[u] /\ hand'[v] \in Job => v = u
      BY <1>1, <1>5 DEF Inv, OnceInAPlace
    <2> QED BY <2>1, <2>2 DEF Inv, OnceInAPlace, results
  <1>10. InOnePlace'
    <2>1. dispatched' = dispatched
      BY DEF sent
    <2> QED BY <1>6, <1>7, <2>1 DEF Inv, InOnePlace
  <1>11. HandsAreRight'
    BY <1>1, <1>5 DEF Inv, HandsAreRight
  <1>12. CountsAreRight' /\ RunsAreReported' /\ ReturnsSuccess'
    BY DEF Inv, CountsAreRight, RunsAreReported, ReturnsSuccess, Success, results, sent
  <1>13. BreaksFollow'
    BY <1>1, <1>5 DEF Inv, BreaksFollow, BreaksComeLast, sent
  <1>14. SkipsAreMeant'
    BY <1>2, <1>4 DEF Inv, SkipsAreMeant, results
  <1> QED BY <1>8, <1>9, <1>10, <1>11, <1>12, <1>13, <1>14 DEF Inv

\* The place of a thread matters to its hand and to the break jobs only.
LEMMA WorkerMoves ==
  ASSUME Inv, NEW w \in Worker, worker[w] \in {"check", "running"},
         NEW at \in {"check", "running", "dead"}, worker' = [worker EXCEPT ![w] = at],
         UNCHANGED <<queues, thread_exit, hand, main, sent, results>>
  PROVE  Inv'
  <1>1. TypeOK' /\ HandsAreRight'
    BY DEF Inv, TypeOK, HandsAreRight, queues, sent, results
  <1>2. OnceInAPlace' /\ CountsAreRight' /\ SkipsAreMeant' /\ RunsAreReported' /\ ReturnsSuccess'
    BY DEF Inv, OnceInAPlace, CountsAreRight, SkipsAreMeant, RunsAreReported, ReturnsSuccess, Success,
       queues, sent, results
  <1>3. InOnePlace'
    BY DEF Inv, InOnePlace, Queued, Held, Back, Counted, queues, sent, results
  <1>4. BreaksFollow'
    BY DEF Inv, TypeOK, BreaksFollow, BreaksComeLast, queues, sent
  <1> QED BY <1>1, <1>2, <1>3, <1>4 DEF Inv

LEMMA CheckInv == ASSUME NEW w \in Worker PROVE Inv /\ Check(w) => Inv'
  <1> SUFFICES ASSUME Inv, Check(w) PROVE Inv'
    OBVIOUS
  <1>1. worker[w] = "check" /\ UNCHANGED <<input_queue, thread_exit, main, sent, results>>
    BY DEF Check
  <1>2. CASE PutBack(w, "BREAK")
    BY <1>1, <1>2, PutBackInv DEF Mark
  <1>3. CASE hand[w] \in Skipped /\ PutBack(w, "SKIP")
    BY <1>1, <1>3, PutBackInv DEF Mark
  <1>4. CASE worker' = [worker EXCEPT ![w] = "running"] /\ UNCHANGED <<output_queue, hand>>
    BY <1>1, <1>4, WorkerMoves DEF queues
  <1> QED BY <1>2, <1>3, <1>4 DEF Check

LEMMA FinishInv == ASSUME NEW w \in Worker PROVE Inv /\ Finish(w) => Inv'
  <1> SUFFICES ASSUME Inv, NEW status \in Outcomes, worker[w] = "running", PutBack(w, status),
                      UNCHANGED <<input_queue, thread_exit, main, sent, results>>
               PROVE  Inv'
    BY DEF Finish
  <1>1. status \in Mark /\ status # "SKIP"
    BY TestRunnerAssumption DEF Mark, Status
  <1> QED BY <1>1, PutBackInv

LEMMA RaiseInv == ASSUME NEW w \in Worker PROVE Inv /\ Raise(w) => Inv'
  BY WorkerMoves DEF Raise

------------------------------------------------------------------------------
(* run_tests. *)

LEMMA DispatchInv == ASSUME NEW j0 \in Job PROVE Inv /\ Dispatch(j0) => Inv'
  <1> SUFFICES ASSUME Inv, Dispatch(j0) PROVE Inv'
    OBVIOUS
  <1> USE TestRunnerAssumption
  <1> DEFINE n == Len(input_queue)
  <1>1. /\ main = "dispatch" /\ j0 \notin dispatched /\ dispatched' = dispatched \cup {j0}
        /\ UNCHANGED <<output_queue, thread_exit, threads, main, breaks, results>>
    BY DEF Dispatch
  <1>2. /\ n \in Nat /\ DOMAIN input_queue = 1 .. n
        /\ input_queue' \in Seq(Job \cup {Break}) /\ DOMAIN input_queue' = 1 .. n + 1
        /\ \A k \in 1 .. n : input_queue'[k] = input_queue[k]
        /\ input_queue'[n + 1] = j0
    BY AppendTo DEF Dispatch, Inv, TypeOK
  <1> HIDE DEF n
  <1>3. ~Queued(j0) /\ ~Held(j0) /\ ~Back(j0) /\ ~Counted(j0)
    BY <1>1 DEF Inv, InOnePlace
  <1>4. \A j \in Job : /\ Queued(j)' <=> Queued(j) \/ j = j0
                       /\ (Held(j)' <=> Held(j)) /\ (Back(j)' <=> Back(j)) /\ (Counted(j)' <=> Counted(j))
    BY <1>1, <1>2 DEF Queued, Held, Back, Counted, threads, results
  <1>5. TypeOK' /\ HandsAreRight'
    BY <1>1, <1>2 DEF Inv, TypeOK, HandsAreRight, threads, results
  <1>6. OnceInAPlace'
    <2>1. \A k \in 1 .. n : input_queue[k] # j0
      BY <1>2, <1>3 DEF Queued
    <2>2. \A k, l \in DOMAIN input_queue' :
            input_queue'[k] = input_queue'[l] /\ input_queue'[k] \in Job => k = l
      BY <1>2, <2>1 DEF Inv, OnceInAPlace
    <2> QED BY <1>1, <2>2 DEF Inv, OnceInAPlace, threads, results
  <1>7. InOnePlace'
    BY <1>1, <1>3, <1>4 DEF Inv, InOnePlace
  <1>8. CountsAreRight' /\ SkipsAreMeant' /\ RunsAreReported' /\ ReturnsSuccess'
    BY <1>1 DEF Inv, CountsAreRight, SkipsAreMeant, RunsAreReported, ReturnsSuccess, results
  <1>9. BreaksFollow'
    <2>1. dispatched # Job
      BY <1>1
    <2>2. (\A k \in DOMAIN input_queue' : input_queue'[k] # Break) /\ \A w \in Worker : worker[w] # "exit"
      BY <1>2, <2>1 DEF Inv, BreaksFollow, BreaksComeLast
    <2> QED BY <1>1, <2>2 DEF BreaksFollow, BreaksComeLast, threads
  <1> QED BY <1>5, <1>6, <1>7, <1>8, <1>9 DEF Inv

LEMMA DispatchBreakInv == Inv /\ DispatchBreak => Inv'
  <1> SUFFICES ASSUME Inv, DispatchBreak PROVE Inv'
    OBVIOUS
  <1> USE TestRunnerAssumption
  <1> DEFINE n == Len(input_queue)
  <1>1. /\ main = "dispatch" /\ dispatched = Job /\ breaks < Cardinality(Worker) /\ breaks' = breaks + 1
        /\ UNCHANGED <<output_queue, thread_exit, threads, main, dispatched, results>>
    BY DEF DispatchBreak
  <1>2. /\ n \in Nat /\ DOMAIN input_queue = 1 .. n
        /\ input_queue' \in Seq(Job \cup {Break}) /\ DOMAIN input_queue' = 1 .. n + 1
        /\ \A k \in 1 .. n : input_queue'[k] = input_queue[k]
        /\ input_queue'[n + 1] = Break
    BY AppendTo DEF DispatchBreak, Inv, TypeOK
  <1> HIDE DEF n
  <1>3. \A j \in Job : /\ (Queued(j)' <=> Queued(j)) /\ (Held(j)' <=> Held(j))
                       /\ (Back(j)' <=> Back(j)) /\ (Counted(j)' <=> Counted(j))
    BY <1>1, <1>2 DEF Queued, Held, Back, Counted, threads, results
  <1>4. TypeOK' /\ HandsAreRight'
    <2>1. breaks' \in 0 .. Cardinality(Worker)
      BY <1>1, WorkerCount DEF Inv, TypeOK
    <2> QED BY <1>1, <1>2, <2>1 DEF Inv, TypeOK, HandsAreRight, threads, results
  <1>5. OnceInAPlace' /\ InOnePlace'
    BY <1>1, <1>2, <1>3 DEF Inv, OnceInAPlace, InOnePlace, threads, results
  <1>6. CountsAreRight' /\ SkipsAreMeant' /\ RunsAreReported' /\ ReturnsSuccess'
    BY <1>1 DEF Inv, CountsAreRight, SkipsAreMeant, RunsAreReported, ReturnsSuccess, results
  <1>7. BreaksFollow'
    BY <1>1, <1>2 DEF Inv, BreaksFollow, BreaksComeLast, threads
  <1> QED BY <1>4, <1>5, <1>6, <1>7 DEF Inv

\* Only an interrupt, or the order of the steps of run_tests, is at stake.
LEMMA MainMoves ==
  ASSUME Inv, UNCHANGED <<queues, threads, sent, results>>, thread_exit' \in BOOLEAN,
         \/ main' = main
         \/ main' = "collect" /\ dispatched = Job /\ main # "raised"
         \/ main' = "join" /\ main = "collect"
         \/ main' \in {"success", "failure"} /\ main = "join" /\ (main' = "success" => Success)
  PROVE  Inv'
  <1>1. TypeOK' /\ HandsAreRight' /\ OnceInAPlace' /\ CountsAreRight' /\ SkipsAreMeant'
    BY DEF Inv, TypeOK, HandsAreRight, OnceInAPlace, CountsAreRight, SkipsAreMeant,
       queues, threads, sent, results
  <1>2. InOnePlace'
    BY DEF Inv, InOnePlace, Queued, Held, Back, Counted, queues, threads, sent, results
  <1>3. BreaksFollow'
    BY DEF Inv, BreaksFollow, BreaksComeLast, queues, threads, sent
  <1>4. RunsAreReported' /\ ReturnsSuccess'
    BY DEF Inv, RunsAreReported, ReturnsSuccess, Success, sent, results
  <1> QED BY <1>1, <1>2, <1>3, <1>4 DEF Inv

LEMMA MainInv == Inv /\ (AllDispatched \/ AllCollected \/ Join \/ SigintHook \/ UNCHANGED vars) => Inv'
  <1> SUFFICES ASSUME Inv, AllDispatched \/ AllCollected \/ Join \/ SigintHook \/ UNCHANGED vars
               PROVE  Inv'
    OBVIOUS
  <1>1. thread_exit \in BOOLEAN
    BY DEF Inv, TypeOK
  <1>2. CASE AllDispatched
    BY <1>1, <1>2, MainMoves DEF AllDispatched
  <1>3. CASE AllCollected
    BY <1>1, <1>3, MainMoves DEF AllCollected
  <1>4. CASE Join
    BY <1>1, <1>4, MainMoves DEF Join
  <1>5. CASE SigintHook
    BY <1>1, <1>5, MainMoves DEF SigintHook
  <1>6. CASE UNCHANGED vars
    BY <1>1, <1>6, MainMoves DEF vars
  <1> QED BY <1>2, <1>3, <1>4, <1>5, <1>6

\* What is written for a job is kept, and a job that was not thrown back has an
\* entry.
LEMMA WrittenGrows ==
  ASSUME TypeOK, NEW j \in Job, NEW status \in Mark, NEW entries \in Written(j, status)
  PROVE  /\ entries \in SUBSET (Status \cup {"SKIP"}) /\ report[j] \subseteq entries
         /\ status # "BREAK" => entries # {}
  <1>1. report[j] \in SUBSET (Status \cup {"SKIP"})
    BY DEF TypeOK
  <1>2. CASE status = "BREAK"
    BY <1>1, <1>2 DEF Written
  <1>3. CASE status # "BREAK" /\ (j \in Example \/ status \in {"SKIP", "CRASH"})
    BY <1>1, <1>3 DEF Written, Mark
  <1>4. CASE status # "BREAK" /\ ~(j \in Example \/ status \in {"SKIP", "CRASH"})
    <2>1. PICK s \in SuiteSays(status) : entries = report[j] \cup {s}
      BY <1>4 DEF Written
    <2>2. s \in Status
      BY <1>4 DEF SuiteSays, Mark, Status
    <2> QED BY <1>1, <2>1, <2>2
  <1> QED BY <1>2, <1>3, <1>4

LEMMA CollectInv == Inv /\ Collect => Inv'
  <1> SUFFICES ASSUME Inv, Collect PROVE Inv'
    OBVIOUS
  <1> USE TestRunnerAssumption
  <1> DEFINE n == Len(output_queue)
             j0 == output_queue[1].job
             st == output_queue[1].status
  <1>1. /\ main = "collect" /\ received < Cardinality(dispatched) /\ output_queue # <<>>
        /\ received' = received + 1 /\ output_queue' = Tail(output_queue)
        /\ UNCHANGED <<input_queue, thread_exit, threads, sent>>
    BY DEF Collect
  <1>2. /\ n \in Nat \ {0} /\ DOMAIN output_queue = 1 .. n
        /\ Head(output_queue) = output_queue[1] /\ output_queue[1] \in Result
        /\ output_queue' \in Seq(Result) /\ DOMAIN output_queue' = 1 .. n - 1
        /\ \A k \in 1 .. n - 1 : k + 1 \in 1 .. n /\ output_queue'[k] = output_queue[k + 1]
    BY <1>1, TailOf DEF Inv, TypeOK
  <1> HIDE DEF n
  <1>3. j0 \in Job /\ st \in Mark
    BY <1>2 DEF Result
  <1>4. /\ count' = [count EXCEPT ![st] = @ + 1]
        /\ counted' = [counted EXCEPT ![st] = @ \cup {j0}]
    BY <1>2 DEF Collect
  <1>5. \/ \E entries \in Written(j0, st) :
             report' = [report EXCEPT ![j0] = entries] /\ main' = main
        \/ main' = "raised" /\ report' = report
    BY <1>2 DEF Collect
  <1>6. Back(j0) /\ ~Queued(j0) /\ ~Held(j0) /\ ~Counted(j0) /\ j0 \in dispatched
    <2>1. Back(j0)
      BY <1>2 DEF Back
    <2> QED BY <1>3, <2>1 DEF Inv, InOnePlace
  <1>7. counted \in [Mark -> SUBSET Job] /\ count \in [Mark -> 0 .. Cardinality(Job)]
    BY DEF Inv, TypeOK
  <1>8. counted' \in [Mark -> SUBSET Job]
    BY <1>3, <1>4, <1>7
  <1>9. CountsAreRight'
    <2>1. IsFiniteSet(counted[st]) /\ j0 \notin counted[st]
      BY <1>3, <1>6, <1>7, JobCount DEF Counted
    <2>2. Cardinality(counted[st] \cup {j0}) = Cardinality(counted[st]) + 1
      BY <2>1, FS_AddElement
    <2> QED BY <1>3, <1>4, <1>7, <2>2 DEF Inv, CountsAreRight
  <1>10. TypeOK'
    <2>1. received' \in 0 .. Cardinality(Job)
      BY <1>1, JobCount DEF Inv, TypeOK
    <2>2. count' \in [Mark -> 0 .. Cardinality(Job)]
      <3>1. \A s \in Mark : count'[s] \in 0 .. Cardinality(Job)
        BY <1>8, <1>9, JobCount DEF CountsAreRight
      <3> QED BY <1>3, <1>4, <1>7, <3>1
    <2>3. report' \in [Job -> SUBSET (Status \cup {"SKIP"})]
      BY <1>3, <1>5, WrittenGrows DEF Inv, TypeOK
    <2>4. main' \in {"dispatch", "collect", "join", "success", "failure", "raised"}
      BY <1>1, <1>5
    <2> QED BY <1>1, <1>2, <1>8, <2>1, <2>2, <2>3, <2>4 DEF Inv, TypeOK, threads, sent
  <1>11. \A j \in Job : Back(j) <=> j = j0 \/ Back(j)'
    <2> SUFFICES ASSUME NEW j \in Job PROVE Back(j) <=> j = j0 \/ Back(j)'
      OBVIOUS
    <2>1. ASSUME Back(j) PROVE j = j0 \/ Back(j)'
      <3>1. PICK k \in 1 .. n : output_queue[k].job = j
        BY <1>2, <2>1 DEF Back
      <3>2. CASE k = 1
        BY <3>1, <3>2
      <3>3. CASE k # 1
        <4>1. k - 1 \in 1 .. n - 1 /\ (k - 1) + 1 = k
          BY <1>2, <3>3
        <4>2. output_queue'[k - 1].job = j
          BY <1>2, <3>1, <4>1
        <4> QED BY <1>2, <4>1, <4>2 DEF Back
      <3> QED BY <3>2, <3>3
    <2>2. ASSUME Back(j)' PROVE Back(j)
      BY <1>2, <2>2 DEF Back
    <2> QED BY <1>6, <2>1, <2>2
  <1>12. \A j \in Job : j = j0 => ~Back(j)'
    <2> SUFFICES ASSUME NEW j \in Job, j = j0, Back(j)' PROVE FALSE
      OBVIOUS
    <2>1. PICK k \in 1 .. n - 1 : output_queue'[k].job = j
      BY <1>2 DEF Back
    <2>2. k + 1 \in 1 .. n /\ 1 \in 1 .. n /\ output_queue[k + 1].job = output_queue[1].job /\ k + 1 # 1
      BY <1>2, <2>1
    <2> QED BY <1>2, <2>2 DEF Inv, OnceInAPlace
  <1>13. \A j \in Job : /\ Counted(j)' <=> Counted(j) \/ j = j0
                        /\ (Queued(j)' <=> Queued(j)) /\ (Held(j)' <=> Held(j))
    <2> SUFFICES ASSUME NEW j \in Job
                 PROVE  /\ Counted(j)' <=> Counted(j) \/ j = j0
                        /\ (Queued(j)' <=> Queued(j)) /\ (Held(j)' <=> Held(j))
      OBVIOUS
    <2>1. Counted(j)' <=> Counted(j) \/ j = j0
      BY <1>3, <1>4, <1>7 DEF Counted
    <2> QED BY <1>1, <2>1 DEF Queued, Held, threads
  <1>14. OnceInAPlace'
    <2>1. \A k, l \in DOMAIN output_queue' : output_queue'[k].job = output_queue'[l].job => k = l
      <3> SUFFICES ASSUME NEW k \in 1 .. n - 1, NEW l \in 1 .. n - 1,
                          output_queue'[k].job = output_queue'[l].job
                   PROVE  k = l
        BY <1>2
      <3>1. output_queue[k + 1].job = output_queue[l + 1].job /\ k + 1 \in 1 .. n /\ l + 1 \in 1 .. n
        BY <1>2
      <3>2. k + 1 = l + 1
        BY <1>2, <3>1 DEF Inv, OnceInAPlace
      <3> QED BY <3>2
    <2>2. \A s, t \in Mark, j \in Job : j \in counted'[s] /\ j \in counted'[t] => s = t
      BY <1>3, <1>4, <1>6, <1>7 DEF Inv, OnceInAPlace, Counted
    <2> QED BY <1>1, <2>1, <2>2 DEF Inv, OnceInAPlace, threads
  <1>15. InOnePlace'
    BY <1>1, <1>3, <1>6, <1>11, <1>12, <1>13 DEF Inv, InOnePlace, sent
  <1>16. HandsAreRight' /\ BreaksFollow'
    BY <1>1, <1>5 DEF Inv, HandsAreRight, BreaksFollow, BreaksComeLast, threads, sent
  <1>17. SkipsAreMeant'
    <2>1. \A k \in 1 .. n : output_queue[k].status = "SKIP" => output_queue[k].job \in Skipped
      BY <1>2 DEF Inv, SkipsAreMeant
    <2>2. \A k \in 1 .. n - 1 : output_queue'[k].status = "SKIP" => output_queue'[k].job \in Skipped
      BY <1>2, <2>1
    <2>3. counted'["SKIP"] \subseteq Skipped
      BY <1>2, <1>3, <1>4, <1>7, <2>1 DEF Inv, SkipsAreMeant, Mark
    <2> QED BY <1>2, <2>2, <2>3 DEF SkipsAreMeant
  <1>18. RunsAreReported'
    <2> SUFFICES ASSUME main' # "raised", NEW s \in Mark \ {"BREAK"}, NEW j \in counted'[s]
                 PROVE  report'[j] # {}
      BY DEF RunsAreReported
    <2>1. PICK entries \in Written(j0, st) : report' = [report EXCEPT ![j0] = entries]
      BY <1>5
    <2>2. report[j0] \subseteq entries /\ (st # "BREAK" => entries # {})
      BY <1>3, <2>1, WrittenGrows DEF Inv
    <2>3. j \in Job /\ report \in [Job -> SUBSET (Status \cup {"SKIP"})]
      BY <1>8 DEF Inv, TypeOK
    <2>4. CASE j \in counted[s]
      <3>1. report[j] # {}
        BY <1>1, <2>4 DEF Inv, RunsAreReported
      <3> QED BY <2>1, <2>2, <2>3, <3>1
    <2>5. CASE j \notin counted[s]
      <3>1. s = st /\ j = j0
        BY <1>3, <1>4, <1>7, <2>5
      <3> QED BY <1>3, <2>1, <2>2, <2>3, <3>1
    <2> QED BY <2>4, <2>5
  <1>19. ReturnsSuccess'
    BY <1>1, <1>5 DEF ReturnsSuccess
  <1> QED BY <1>9, <1>10, <1>14, <1>15, <1>16, <1>17, <1>18, <1>19 DEF Inv

LEMMA NextInv == Inv /\ [Next]_vars => Inv'
  BY GetInv, CheckInv, FinishInv, RaiseInv, DispatchInv, DispatchBreakInv, CollectInv, MainInv
  DEF Next, Work, RunTests

------------------------------------------------------------------------------
(* From places to numbers. *)

LEMMA AtMostOne ==
  ASSUME NEW S, \A x, y \in S : x = y
  PROVE  Cardinality(S) = IF S = {} THEN 0 ELSE 1
  <1>1. CASE S = {}
    BY <1>1, FS_EmptySet
  <1>2. CASE S # {}
    <2>1. PICK x \in S : S = {x}
      BY <1>2
    <2> QED BY <2>1, FS_Singleton
  <1> QED BY <1>1, <1>2

LEMMA Conserved == Inv => JobsAreConserved
  <1> SUFFICES ASSUME Inv, NEW j \in Job
               PROVE  Occurrences(j) = IF j \in dispatched THEN 1 ELSE 0
    BY DEF Inv, CountsAreRight, JobsAreConserved
  <1> DEFINE Q == {k \in DOMAIN input_queue : input_queue[k] = j}
             H == {w \in Worker : hand[w] = j}
             B == {k \in DOMAIN output_queue : output_queue[k].job = j}
             C == {s \in Mark : j \in counted[s]}
  <1>1. /\ Cardinality(Q) = IF Q = {} THEN 0 ELSE 1
        /\ Cardinality(H) = IF H = {} THEN 0 ELSE 1
        /\ Cardinality(B) = IF B = {} THEN 0 ELSE 1
        /\ Cardinality(C) = IF C = {} THEN 0 ELSE 1
    <2>1. /\ \A x, y \in Q : x = y
          /\ \A x, y \in H : x = y
          /\ \A x, y \in B : x = y
          /\ \A x, y \in C : x = y
      BY DEF Inv, OnceInAPlace
    <2> HIDE DEF Q, H, B, C
    <2> QED BY <2>1, AtMostOne
  <1>2. /\ Q # {} <=> Queued(j)
        /\ H # {} <=> Held(j)
        /\ B # {} <=> Back(j)
        /\ C # {} <=> Counted(j)
    BY DEF Queued, Held, Back, Counted
  <1>3. Occurrences(j) = Cardinality(Q) + Cardinality(H) + Cardinality(B) + Cardinality(C)
    BY DEF Occurrences
  <1> HIDE DEF Q, H, B, C
  <1> QED BY <1>1, <1>2, <1>3 DEF Inv, InOnePlace

LEMMA Earned == Inv => SuccessIsEarned
  <1> SUFFICES ASSUME Inv, main = "success" PROVE SuccessIsEarned
    BY DEF SuccessIsEarned
  <1> DEFINE P == counted["PASS"]
             S == counted["SKIP"]
  <1>1. "PASS" \in Mark /\ "SKIP" \in Mark
    BY DEF Mark, Status
  <1>2. P \in SUBSET Job /\ S \in SUBSET Job
    BY <1>1 DEF Inv, TypeOK
  <1>3. IsFiniteSet(P) /\ IsFiniteSet(S) /\ IsFiniteSet(P \cup S) /\ IsFiniteSet(Job)
    BY <1>2, JobCount, TestRunnerAssumption
  <1>4. P \cap S = {}
    BY <1>1, <1>2 DEF Inv, OnceInAPlace
  <1>5. Cardinality(P) + Cardinality(S) = Cardinality(Job)
    BY <1>1 DEF Inv, ReturnsSuccess, Success, CountsAreRight, BreaksFollow
  <1> HIDE DEF P, S
  <1>6. Cardinality(P \cup S) = Cardinality(P) + Cardinality(S)
    <2>1. Cardinality(P \cup S) = Cardinality(P) + Cardinality(S) - Cardinality(P \cap S)
      BY <1>3, FS_Union
    <2>2. Cardinality(P \cap S) = 0 /\ Cardinality(P) \in Nat /\ Cardinality(S) \in Nat
      BY <1>2, <1>4, FS_EmptySet, JobCount
    <2> QED BY <2>1, <2>2
  <1>7. P \cup S = Job
    BY <1>2, <1>3, <1>5, <1>6, FS_Subset
  <1>8. S \subseteq Skipped
    BY DEF S, Inv, SkipsAreMeant
  <1>9. \A j \in P \cup S : report[j] # {}
    BY <1>1 DEF P, S, Inv, RunsAreReported
  <1> QED BY <1>7, <1>8, <1>9 DEF P, S, SuccessIsEarned

------------------------------------------------------------------------------
(* The theorems. *)

\* Every step of the threads and of run_tests keeps the invariant.
THEOREM RunnerInvariance == Spec => []Inv
  <1> QED BY InitInv, NextInv, PTL DEF Spec

\* The queues, the counters and the report keep their types; the counters never
\* pass the number of jobs.
THEOREM RunnerTypes == Spec => []TypeOK
  <1>1. Inv => TypeOK
    BY DEF Inv
  <1> QED BY <1>1, RunnerInvariance, PTL

\* No job is lost, run twice or counted twice, with any number of threads,
\* interrupts and exceptions.
THEOREM NoJobIsLost == Spec => []JobsAreConserved
  <1> QED BY Conserved, RunnerInvariance, PTL

\* A thread that goes home leaves no job behind in input_queue.
THEOREM NoJobAfterBreak == Spec => []BreaksComeLast
  <1>1. Inv => BreaksComeLast
    BY DEF Inv, BreaksFollow
  <1> QED BY <1>1, RunnerInvariance, PTL

\* If run_tests returns 0, every job passed or was skipped on purpose, and is in
\* the report.
THEOREM SuccessMeansSuccess == Spec => []SuccessIsEarned
  <1> QED BY Earned, RunnerInvariance, PTL
==============================================================================
