------------------------------ MODULE Visualizer ------------------------------
(***************************************************************************)
(* PyViz, the visualizer of ns-3 (visualizer/core.py): a SimulationThread  *)
(* that runs the simulator one sample period at a time, and the GTK thread *)
(* that draws it, which share a lock, an event and the pause messages.     *)
(*                                                                         *)
(* The GTK thread is a stack of callbacks: update_view_timeout dispatches  *)
(* further events while it cannot have the lock, so callbacks nest.        *)
(***************************************************************************)
EXTENDS Naturals, Sequences, FiniteSets

CONSTANTS
  Timer,      \* identifiers of GLib timeout sources
  Message,    \* what the simulated program may pass to PyViz::Pause
  None

ASSUME VisualizerAssumption == Timer # {} /\ None \notin Timer

VARIABLES
  lock,               \* who holds simulation.lock
  go, quit,           \* simulation.go, simulation.quit
  sim,                \* where the simulation thread stands in run()
  reached,            \* the simulator's clock has reached target_time
  pause_messages,
  idle,               \* how many update_model callbacks are queued
  stack,              \* the callbacks the GTK thread is in, the innermost last
  timers,             \* the update timers that are attached to the main loop
  update_timeout_id,  \* the one that the visualizer remembers
  play,               \* whether play_button is active
  ended,              \* gtk.main_quit was called
  silent,             \* the messages that no pause has used yet
  shown               \* history: shown[m] is how often m was in a dialog

thread   == <<sim, reached, silent>>
shared   == <<lock, go, quit, pause_messages, idle>>
widgets  == <<timers, update_timeout_id, play>>
vars     == <<thread, shared, widgets, stack, ended, shown>>

\* A callback: where it stands, its timer if it is update_view_timeout, and the
\* messages it took.
Frame(at, t) == [at |-> at, timer |-> t, messages |-> {}]

Init ==
  /\ lock = "free" /\ go = FALSE /\ quit = FALSE
  /\ sim = "loop" /\ reached = TRUE
  /\ pause_messages = {} /\ idle = 0
  /\ stack = <<>> /\ ended = FALSE /\ play = FALSE
  /\ update_timeout_id = (CHOOSE t \in Timer : TRUE) /\ timers = {update_timeout_id}
  /\ silent = Message /\ shown = [m \in Message |-> 0]

------------------------------------------------------------------------------
(* SimulationThread.run. *)

SimStep(from, to) == sim = from /\ sim' = to

TestQuit ==
  /\ SimStep("loop", IF quit THEN "exit" ELSE "wait")
  /\ UNCHANGED <<reached, silent, shared, widgets, stack, ended, shown>>

GoWait ==
  /\ go /\ SimStep("wait", "clear")
  /\ UNCHANGED <<reached, silent, shared, widgets, stack, ended, shown>>

GoClear ==
  /\ SimStep("clear", "check")
  /\ go' = FALSE
  /\ UNCHANGED <<reached, silent, lock, quit, pause_messages, idle>>
  /\ UNCHANGED <<widgets, stack, ended, shown>>

CheckQuit ==
  /\ SimStep("check", IF quit THEN "exit" ELSE "acquire")
  /\ UNCHANGED <<reached, silent, shared, widgets, stack, ended, shown>>

SimAcquire ==
  /\ SimStep("acquire", "run")
  /\ lock = "free" /\ lock' = "simulation"
  /\ UNCHANGED <<reached, silent, go, quit, pause_messages, idle>>
  /\ UNCHANGED <<widgets, stack, ended, shown>>

\* The pause messages of a call to SimulatorRunUntil, and whether it reached
\* target_time: it returns at once if it is there already, and early after a
\* pause.
Pauses == {r \in (SUBSET silent) \X BOOLEAN :
             IF reached THEN r = <<{}, TRUE>> ELSE r[1] = {} => r[2]}

RunUntil ==
  /\ SimStep("run", "release")
  /\ \E r \in Pauses :
       /\ silent' = silent \ r[1]
       /\ pause_messages' = pause_messages \cup r[1]
       /\ reached' = r[2]
  /\ idle' = idle + 1
  /\ UNCHANGED <<lock, go, quit, widgets, stack, ended, shown>>

SimRelease ==
  /\ SimStep("release", "loop")
  /\ lock' = "free"
  /\ UNCHANGED <<reached, silent, go, quit, pause_messages, idle>>
  /\ UNCHANGED <<widgets, stack, ended, shown>>

SimulationThread ==
  \/ TestQuit \/ GoWait \/ GoClear \/ CheckQuit
  \/ SimAcquire \/ RunUntil \/ SimRelease

------------------------------------------------------------------------------
(* The GTK main loop, which dispatches when no callback runs, and again while  *)
(* update_view_timeout finds events pending.                                   *)

Depth == Len(stack)
Top == stack[Depth]
TopIs(at) == stack # <<>> /\ Top.at = at
Enter(frame) == stack' = Append(stack, frame)
Goto(at) == stack' = [stack EXCEPT ![Depth].at = at]
Return == stack' = SubSeq(stack, 1, Depth - 1)

Dispatching == (stack = <<>> /\ ~ended) \/ TopIs("pump")

\* GLib does not enter a timeout source that is being dispatched.
Running == {stack[k].timer : k \in DOMAIN stack}

\* update_model has the higher priority.
FireTimer(t) ==
  /\ Dispatching /\ idle = 0
  /\ t \in timers \ Running
  /\ Enter(Frame("try", t))
  /\ UNCHANGED <<thread, shared, widgets, ended, shown>>

UpdateModel ==
  /\ Dispatching /\ idle > 0
  /\ idle' = idle - 1
  /\ Enter(Frame("acquire", None))
  /\ UNCHANGED <<thread, lock, go, quit, pause_messages, widgets, ended, shown>>

\* tooltip_query, begin_node_drag, node_drag_motion, add_information_window,
\* select_node and their like: callbacks that take the lock.
UserEvent ==
  /\ Dispatching /\ ~quit
  /\ Enter(Frame("acquire", None))
  /\ UNCHANGED <<thread, shared, widgets, ended, shown>>

\* An identifier that nothing refers to.
Free == Timer \ (timers \cup Running \cup {update_timeout_id})
NewTimer == CHOOSE t \in Free : TRUE

MutantStartTimerOnce ==
  IF update_timeout_id # None THEN UNCHANGED <<timers, update_timeout_id>>
  ELSE Free # {} /\ timers' = timers \cup {NewTimer} /\ update_timeout_id' = NewTimer

\* _start_update_timer
StartTimer ==
  /\ Free # {}
  /\ timers' = (timers \ {update_timeout_id}) \cup {NewTimer}
  /\ update_timeout_id' = NewTimer

\* _on_play_button_toggled
TogglePlay ==
  /\ Dispatching /\ ~quit
  /\ play' = ~play
  /\ IF play' THEN StartTimer
     ELSE timers' = timers \ {update_timeout_id} /\ UNCHANGED update_timeout_id
  /\ UNCHANGED <<thread, shared, stack, ended, shown>>

\* _speed_changed
ChangeSpeed ==
  /\ Dispatching /\ ~quit
  /\ StartTimer
  /\ UNCHANGED <<thread, shared, play, stack, ended, shown>>

\* _quit begins.
DeleteEvent ==
  /\ Dispatching /\ ~quit
  /\ timers' = timers \ {update_timeout_id} /\ update_timeout_id' = None
  /\ quit' = TRUE
  /\ Enter(Frame("go", None))
  /\ UNCHANGED <<thread, lock, go, pause_messages, idle, play, ended, shown>>

Dispatch ==
  \/ \E t \in Timer : FireTimer(t)
  \/ UpdateModel \/ UserEvent \/ TogglePlay \/ ChangeSpeed \/ DeleteEvent

------------------------------------------------------------------------------
(* update_view_timeout. *)

MutantTryLockIgnored ==
  /\ TopIs("try")
  /\ lock' = "gui" /\ Goto("view")
  /\ UNCHANGED <<thread, go, quit, pause_messages, idle, widgets, ended, shown>>

TryLock ==
  /\ TopIs("try")
  /\ IF lock = "free" THEN lock' = "gui" /\ Goto("view")
     ELSE UNCHANGED lock /\ Goto("pump")
  /\ UNCHANGED <<thread, go, quit, pause_messages, idle, widgets, ended, shown>>

\* No event is pending any more.
TryAgain ==
  /\ TopIs("pump") /\ Goto("try")
  /\ UNCHANGED <<thread, shared, widgets, ended, shown>>

MutantMessagesStay ==
  /\ TopIs("view")
  /\ stack' = [stack EXCEPT ![Depth] = [@ EXCEPT !.at = "react", !.messages = pause_messages]]
  /\ reached' = FALSE /\ lock' = "free"
  /\ UNCHANGED <<sim, silent, go, quit, pause_messages, idle, widgets, ended, shown>>

MutantNoNewTarget ==
  /\ TopIs("view")
  /\ stack' = [stack EXCEPT ![Depth] = [@ EXCEPT !.at = "react", !.messages = pause_messages]]
  /\ pause_messages' = {}
  /\ lock' = "free"
  /\ UNCHANGED <<thread, go, quit, idle, widgets, ended, shown>>

\* The view is drawn; the next target_time lies a sample period ahead.
UpdateView ==
  /\ TopIs("view")
  /\ stack' = [stack EXCEPT ![Depth] = [@ EXCEPT !.at = "react", !.messages = pause_messages]]
  /\ pause_messages' = {}
  /\ reached' = FALSE /\ lock' = "free"
  /\ UNCHANGED <<sim, silent, go, quit, idle, widgets, ended, shown>>

MutantGoThoughPaused ==
  /\ TopIs("react")
  /\ shown' = [m \in Message |-> IF m \in Top.messages THEN shown[m] + 1 ELSE shown[m]]
  /\ play' = (play /\ Top.messages = {})
  /\ LET left == IF play /\ ~play' THEN timers \ {update_timeout_id} ELSE timers
     IN IF play' THEN UNCHANGED <<timers, update_timeout_id>>
        ELSE timers' = left \ {Top.timer} /\ update_timeout_id' = None
  /\ go' = TRUE
  /\ Return
  /\ UNCHANGED <<thread, lock, quit, pause_messages, idle, ended>>

\* The dialog, which releases the play button; then either the timer ends or
\* the simulation goes on.
React ==
  /\ TopIs("react")
  /\ shown' = [m \in Message |-> IF m \in Top.messages THEN shown[m] + 1 ELSE shown[m]]
  /\ play' = (play /\ Top.messages = {})
  /\ LET left == IF play /\ ~play' THEN timers \ {update_timeout_id} ELSE timers
     IN IF play'
        THEN go' = TRUE /\ UNCHANGED <<timers, update_timeout_id>>
        ELSE timers' = left \ {Top.timer} /\ update_timeout_id' = None /\ UNCHANGED go
  /\ Return
  /\ UNCHANGED <<thread, lock, quit, pause_messages, idle, ended>>

(* The other callbacks. *)

Acquire ==
  /\ TopIs("acquire")
  /\ lock = "free" /\ lock' = "gui" /\ Goto("inside")
  /\ UNCHANGED <<thread, go, quit, pause_messages, idle, widgets, ended, shown>>

Release ==
  /\ TopIs("inside")
  /\ lock' = "free" /\ Return
  /\ UNCHANGED <<thread, go, quit, pause_messages, idle, widgets, ended, shown>>

MutantNoGoOnQuit ==
  /\ TopIs("go")
  /\ Goto("join")
  /\ UNCHANGED <<thread, shared, widgets, ended, shown>>

QuitGo ==
  /\ TopIs("go")
  /\ go' = TRUE /\ Goto("join")
  /\ UNCHANGED <<thread, lock, quit, pause_messages, idle, widgets, ended, shown>>

QuitJoin ==
  /\ TopIs("join") /\ sim = "exit"
  /\ ended' = TRUE /\ Return
  /\ UNCHANGED <<thread, shared, widgets, shown>>

Callback ==
  \/ TryLock \/ UpdateView \/ React
  \/ Acquire \/ Release \/ QuitGo \/ QuitJoin

Next == SimulationThread \/ Dispatch \/ TryAgain \/ Callback

Spec == Init /\ [][Next]_vars

\* Both threads are scheduled, and a lock that is free again and again is had at
\* last.  GLib dispatches every source that is ready again and again, and the
\* events pending in a pass of the inner loop come to an end.
FairSpec ==
  /\ Spec
  /\ WF_vars(SimulationThread) /\ WF_vars(Callback)
  /\ SF_vars(SimAcquire) /\ SF_vars(TryAgain) /\ SF_vars(UpdateModel)
  /\ \A t \in Timer : SF_vars(FireTimer(t))

------------------------------------------------------------------------------
(* Properties. *)

Places == {"try", "pump", "view", "react", "acquire", "inside", "go", "join"}

TypeOK ==
  /\ lock \in {"free", "simulation", "gui"}
  /\ go \in BOOLEAN /\ quit \in BOOLEAN /\ play \in BOOLEAN /\ ended \in BOOLEAN
  /\ sim \in {"loop", "wait", "clear", "check", "acquire", "run", "release", "exit"}
  /\ reached \in BOOLEAN /\ idle \in Nat
  /\ pause_messages \subseteq Message /\ silent \subseteq Message
  /\ stack \in Seq([at : Places, timer : Timer \cup {None}, messages : SUBSET Message])
  /\ timers \subseteq Timer /\ update_timeout_id \in Timer \cup {None}
  /\ shown \in [Message -> Nat]

\* ns-3 is not thread safe: while the simulator runs, no callback that takes
\* the lock is at work, and a callback that dispatches further events or blocks
\* never holds the lock itself, so that it cannot wait for its own thread.
NobodyElseInside ==
  /\ (\E k \in DOMAIN stack : stack[k].at \in {"view", "inside"}) => sim \notin {"run", "release"}
  /\ \A k \in DOMAIN stack : stack[k].at \in {"view", "inside"} => k = Depth
  /\ lock = "gui" <=> TopIs("view") \/ TopIs("inside")

\* A pause message is shown to the user once: it waits in pause_messages or in
\* one callback until then, however callbacks nest.
MessagesShownOnce ==
  \A m \in Message \ silent :
    shown[m] + (IF m \in pause_messages THEN 1 ELSE 0)
      + Cardinality({k \in DOMAIN stack : m \in stack[k].messages}) = 1

\* The play button is down only while a timer that the visualizer remembers is
\* attached, whatever callbacks ended or nested in between.
PlayingHasTimer == play /\ ~quit => update_timeout_id \in timers

\* Closing the window ends both threads, even from a nested callback and
\* wherever the simulation thread stands.
QuitEnds == quit ~> (ended /\ stack = <<>> /\ sim = "exit")

\* After the user pauses for good, the simulation comes to rest: what was
\* started before sends no more rounds.
PausedRests == <>[]~play => <>[](sim \in {"wait", "exit"})

\* While the play button stays down, simulated time goes on and on, however
\* busy the user keeps the GTK thread.
PlayingAdvances ==
  (\E t \in Timer : <>[](play /\ ~quit /\ update_timeout_id = t))
    => []<>(sim = "run" /\ ~reached)

\* "if we're paused, stop the update timer" (core.py:1119): the visualizer that
\* has stopped its timer has none.
PausedStopsTimer == ~play /\ update_timeout_id = None => timers = {}
==============================================================================
