------------------------------ MODULE TestRunner ------------------------------
(***************************************************************************)
(* The parallel test runner test.py: run_tests dispatches jobs to worker   *)
(* threads through input_queue, collects their results from output_queue   *)
(* and writes the report; Control-C sets thread_exit.                      *)
(*                                                                         *)
(* A job's status stands for its returncode as run_tests reads it.  Each   *)
(* Queue operation is one step, and so is each read of thread_exit.        *)
(***************************************************************************)
EXTENDS Naturals, Sequences, FiniteSets

CONSTANTS
  Job,        \* the suites and examples to run
  Example,    \* the jobs that are examples
  Skipped,    \* the jobs dispatched with is_skip
  Worker,     \* the worker threads, one per processor
  Outcomes,   \* what running a job may give
  MayRaise,   \* whether starting a process may raise an exception
  Break, NoJob

Status == {"PASS", "FAIL", "VALGR", "CRASH"}

ASSUME TestRunnerAssumption ==
  /\ IsFiniteSet(Job) /\ IsFiniteSet(Worker)
  /\ Example \subseteq Job /\ Skipped \subseteq Job
  /\ Outcomes \subseteq Status /\ MayRaise \in BOOLEAN
  /\ Break \notin Job /\ NoJob \notin Job

VARIABLES
  input_queue, output_queue,
  thread_exit,    \* set by sigint_hook
  worker,         \* worker[w]: where the thread stands in run()
  hand,           \* hand[w]: the job it holds
  main,           \* where run_tests stands
  dispatched,     \* the jobs put to input_queue; jobs and total_tests count them
  breaks,         \* how many break jobs were put
  received,       \* how many results were taken from output_queue
  count,          \* count[s]: passed_tests, failed_tests and the other counters
  counted,        \* history: counted[s] are the jobs that count[s] counts
  report          \* report[j]: the results written for j to the XML file

queues   == <<input_queue, output_queue>>
threads  == <<worker, hand>>
sent     == <<dispatched, breaks>>
results  == <<received, count, counted, report>>
vars     == <<queues, threads, sent, results, thread_exit, main>>

\* What comes back for a job: it was run, skipped, or thrown back unrun.
Mark == Status \cup {"SKIP", "BREAK"}

Result == [job : Job, status : Mark]

Init ==
  /\ input_queue = <<>> /\ output_queue = <<>> /\ thread_exit = FALSE
  /\ worker = [w \in Worker |-> "get"]
  /\ hand = [w \in Worker |-> NoJob]
  /\ main = "dispatch" /\ dispatched = {} /\ breaks = 0
  /\ received = 0
  /\ count = [s \in Mark |-> 0] /\ counted = [s \in Mark |-> {}]
  /\ report = [j \in Job |-> {}]

------------------------------------------------------------------------------
(* worker_thread.run. *)

Get(w) ==
  /\ worker[w] = "get" /\ input_queue # <<>>
  /\ input_queue' = Tail(input_queue)
  /\ IF Head(input_queue) = Break
     THEN worker' = [worker EXCEPT ![w] = "exit"] /\ UNCHANGED hand
     ELSE /\ worker' = [worker EXCEPT ![w] = "check"]
          /\ hand' = [hand EXCEPT ![w] = Head(input_queue)]
  /\ UNCHANGED <<output_queue, thread_exit, main, sent, results>>

\* The job in hand goes to output_queue.
PutBack(w, status) ==
  /\ output_queue' = Append(output_queue, [job |-> hand[w], status |-> status])
  /\ worker' = [worker EXCEPT ![w] = "get"]
  /\ hand' = [hand EXCEPT ![w] = NoJob]

MutantCheckDropsJob(w) ==
  /\ worker[w] = "check"
  /\ \/ /\ thread_exit /\ worker' = [worker EXCEPT ![w] = "get"]
        /\ hand' = [hand EXCEPT ![w] = NoJob] /\ UNCHANGED output_queue
     \/ ~thread_exit /\ hand[w] \in Skipped /\ PutBack(w, "SKIP")
     \/ /\ ~thread_exit /\ hand[w] \notin Skipped
        /\ worker' = [worker EXCEPT ![w] = "running"]
        /\ UNCHANGED <<output_queue, hand>>
  /\ UNCHANGED <<input_queue, thread_exit, main, sent, results>>

Check(w) ==
  /\ worker[w] = "check"
  /\ \/ thread_exit /\ PutBack(w, "BREAK")
     \/ ~thread_exit /\ hand[w] \in Skipped /\ PutBack(w, "SKIP")
     \/ /\ ~thread_exit /\ hand[w] \notin Skipped
        /\ worker' = [worker EXCEPT ![w] = "running"]
        /\ UNCHANGED <<output_queue, hand>>
  /\ UNCHANGED <<input_queue, thread_exit, main, sent, results>>

\* run_job_synchronously returns.
Finish(w) ==
  /\ worker[w] = "running"
  /\ \E status \in Outcomes : PutBack(w, status)
  /\ UNCHANGED <<input_queue, thread_exit, main, sent, results>>

\* Popen raises: the thread dies with the job in its hand.
Raise(w) ==
  /\ MayRaise /\ worker[w] = "running"
  /\ worker' = [worker EXCEPT ![w] = "dead"]
  /\ UNCHANGED <<queues, thread_exit, hand, main, sent, results>>

------------------------------------------------------------------------------
(* run_tests. *)

Dispatch(j) ==
  /\ main = "dispatch" /\ j \notin dispatched
  /\ input_queue' = Append(input_queue, j)
  /\ dispatched' = dispatched \cup {j}
  /\ UNCHANGED <<output_queue, thread_exit, threads, main, breaks, results>>

MutantBreaksAnyTime ==
  /\ main = "dispatch" /\ breaks < Cardinality(Worker)
  /\ input_queue' = Append(input_queue, Break)
  /\ breaks' = breaks + 1
  /\ UNCHANGED <<output_queue, thread_exit, threads, main, dispatched, results>>

DispatchBreak ==
  /\ main = "dispatch" /\ dispatched = Job /\ breaks < Cardinality(Worker)
  /\ input_queue' = Append(input_queue, Break)
  /\ breaks' = breaks + 1
  /\ UNCHANGED <<output_queue, thread_exit, threads, main, dispatched, results>>

\* "Now all of the tests have been dispatched".
AllDispatched ==
  /\ main = "dispatch" /\ dispatched = Job /\ breaks = Cardinality(Worker)
  /\ main' = "collect"
  /\ UNCHANGED <<queues, thread_exit, threads, sent, results>>

\* What the results file of a suite with this status may say: valgrind's exit
\* code takes the place of the suite's own.
SuiteSays(status) == IF status = "VALGR" THEN {"PASS", "FAIL"} ELSE {status}

\* The results file of the job is copied, an example or a crash gets its entry
\* here; the VALGR entry of a suite stands in the branch that a returncode of 2
\* does not take.
Written(j, status) ==
  CASE status = "BREAK" -> {report[j]}
    [] status # "BREAK" /\ (j \in Example \/ status \in {"SKIP", "CRASH"})
         -> {report[j] \cup {status}}
    [] OTHER -> {report[j] \cup {s} : s \in SuiteSays(status)}

Collect ==
  /\ main = "collect" /\ received < Cardinality(dispatched) /\ output_queue # <<>>
  /\ LET r == Head(output_queue)
     IN /\ count' = [count EXCEPT ![r.status] = @ + 1]
        /\ counted' = [counted EXCEPT ![r.status] = @ \cup {r.job}]
        /\ \/ /\ \E entries \in Written(r.job, r.status) :
                   report' = [report EXCEPT ![r.job] = entries]
              /\ UNCHANGED main
           \/ \* The results file of a suite is not there.
              /\ MayRaise /\ r.job \notin Example /\ r.status \in Status \ {"CRASH"}
              /\ main' = "raised" /\ UNCHANGED report
  /\ received' = received + 1
  /\ output_queue' = Tail(output_queue)
  /\ UNCHANGED <<input_queue, thread_exit, threads, sent>>

AllCollected ==
  /\ main = "collect" /\ received = Cardinality(dispatched)
  /\ main' = "join"
  /\ UNCHANGED <<queues, thread_exit, threads, sent, results>>

AllJoined == \A w \in Worker : worker[w] \in {"exit", "dead"}

MutantNoFailure == count["FAIL"] + count["CRASH"] + count["VALGR"] = 0

\* run_tests returns 0.
Success == count["PASS"] + count["SKIP"] = Cardinality(dispatched)

Join ==
  /\ main = "join" /\ AllJoined
  /\ main' = IF Success THEN "success" ELSE "failure"
  /\ UNCHANGED <<queues, thread_exit, threads, sent, results>>

\* Python runs the handler in the main thread, between two steps of it: not
\* while it waits in get() or join().
SigintHook ==
  /\ ~thread_exit
  /\ \/ main = "dispatch"
     \/ main = "collect" /\ output_queue # <<>>
     \/ main = "join" /\ AllJoined
  /\ thread_exit' = TRUE
  /\ UNCHANGED <<queues, threads, main, sent, results>>

Work(w) == Get(w) \/ Check(w) \/ Finish(w)
RunTests ==
  \/ \E j \in Job : Dispatch(j)
  \/ DispatchBreak \/ AllDispatched
  \/ Collect \/ AllCollected \/ Join

Next ==
  \/ \E w \in Worker : Work(w) \/ Raise(w)
  \/ RunTests
  \/ SigintHook

Spec == Init /\ [][Next]_vars

\* Threads are scheduled and started processes return; nobody has to interrupt.
FairSpec == Spec /\ WF_vars(RunTests) /\ \A w \in Worker : WF_vars(Work(w))

------------------------------------------------------------------------------
(* Properties. *)

TypeOK ==
  /\ input_queue \in Seq(Job \cup {Break}) /\ output_queue \in Seq(Result)
  /\ thread_exit \in BOOLEAN
  /\ worker \in [Worker -> {"get", "check", "running", "exit", "dead"}]
  /\ hand \in [Worker -> Job \cup {NoJob}]
  /\ main \in {"dispatch", "collect", "join", "success", "failure", "raised"}
  /\ dispatched \subseteq Job /\ breaks \in 0 .. Cardinality(Worker)
  /\ received \in 0 .. Cardinality(Job)
  /\ count \in [Mark -> 0 .. Cardinality(Job)] /\ counted \in [Mark -> SUBSET Job]
  /\ report \in [Job -> SUBSET (Status \cup {"SKIP"})]

Occurrences(j) ==
  Cardinality({k \in DOMAIN input_queue : input_queue[k] = j})
    + Cardinality({w \in Worker : hand[w] = j})
    + Cardinality({k \in DOMAIN output_queue : output_queue[k].job = j})
    + Cardinality({s \in Mark : j \in counted[s]})

\* A dispatched job is in exactly one place until it is counted exactly once,
\* whatever is interrupted: it is neither lost nor run nor counted twice.  A
\* thread that dies keeps its job for ever.
JobsAreConserved ==
  /\ \A j \in Job : Occurrences(j) = IF j \in dispatched THEN 1 ELSE 0
  /\ \A s \in Mark : count[s] = Cardinality(counted[s])

\* A worker goes home only when no job is left for it: the break jobs come last
\* in input_queue.
BreaksComeLast ==
  (\E w \in Worker : worker[w] = "exit") =>
    /\ dispatched = Job
    /\ \A k \in DOMAIN input_queue : input_queue[k] = Break

\* run_tests returns 0 only if each job was skipped on purpose or ran and
\* passed: not after a failure, nor after an interrupt or a dead thread that
\* kept a job from running.
SuccessIsEarned ==
  main = "success" =>
    /\ Job = counted["PASS"] \cup counted["SKIP"]
    /\ counted["SKIP"] \subseteq Skipped
    /\ \A j \in Job : report[j] # {}

NoThreadDies == \A w \in Worker : worker[w] # "dead"

\* Interrupted at any moment or not, the runner ends, with all threads at home,
\* as long as none of them dies: the results match the jobs one to one and each
\* thread finds its break job.
Terminates ==
  []NoThreadDies =>
    <>(main \in {"success", "failure", "raised"} /\ \A w \in Worker : worker[w] = "exit")

\* "in the case of a working TestSuite that fails valgrind, we'll see the PASS
\* entry for the working TestSuite followed by a VALGR failing test suite of the
\* same name" (test.py:1714-1716).
ValgrindIsReported ==
  \A j \in counted["VALGR"] : "VALGR" \in report[j]
==============================================================================
