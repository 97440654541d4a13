--------------------------- MODULE VisualizerProofs ---------------------------
(***************************************************************************)
(* Proofs about the visualizer, for any nesting of callbacks, any number   *)
(* of timers and messages: nobody is in the simulation beside the          *)
(* simulator, messages are shown once, and playing has its timer.          *)
(***************************************************************************)
EXTENDS Visualizer, TLAPS, FiniteSetTheorems

AFrame == [at : Places, timer : Timer \cup {None}, messages : SUBSET Message]

\* Only the innermost callback runs; the others dispatch.  Messages are held
\* between UpdateView and React.
StackIsSound ==
  /\ \A k \in DOMAIN stack : k < Depth => stack[k].at = "pump"
  /\ \A k \in DOMAIN stack : stack[k].messages # {} => stack[k].at = "react"

LockIsHeld ==
  /\ lock = "gui" <=> TopIs("view") \/ TopIs("inside")
  /\ lock = "simulation" <=> sim \in {"run", "release"}

Held(m) == \E k \in DOMAIN stack : m \in stack[k].messages
N(b) == IF b THEN 1 ELSE 0

\* A message is silent, or waits, or is held, or was shown, and that once.
MessagesAreCounted ==
  \A m \in Message :
    shown[m] + N(m \in pause_messages) + N(Held(m)) = N(m \notin silent)

Inv ==
  /\ TypeOK /\ StackIsSound /\ LockIsHeld /\ MessagesAreCounted /\ PlayingHasTimer

------------------------------------------------------------------------------
(* The stack of callbacks. *)

LEMMA SeqType ==
  ASSUME NEW S, NEW s \in Seq(S)
  PROVE  /\ Len(s) \in Nat /\ DOMAIN s = 1 .. Len(s) /\ (s # <<>> <=> Len(s) > 0)
         /\ \A k \in 1 .. Len(s) : s[k] \in S
  OBVIOUS

LEMMA SeqExcept ==
  ASSUME NEW S, NEW s \in Seq(S), NEW k \in 1 .. Len(s), NEW x \in S
  PROVE  /\ [s EXCEPT ![k] = x] \in Seq(S) /\ Len([s EXCEPT ![k] = x]) = Len(s)
         /\ [s EXCEPT ![k] = x] # <<>>
         /\ \A l \in 1 .. Len(s) : [s EXCEPT ![k] = x][l] = IF l = k THEN x ELSE s[l]
  OBVIOUS

LEMMA StackType ==
  ASSUME Inv
  PROVE  /\ stack \in Seq(AFrame) /\ Depth \in Nat /\ DOMAIN stack = 1 .. Depth
         /\ stack # <<>> <=> Depth > 0
         /\ \A k \in 1 .. Depth : stack[k] \in AFrame
  <1>1. stack \in Seq(AFrame)
    BY DEF Inv, TypeOK, AFrame
  <1> QED BY <1>1, SeqType DEF Depth

\* A callback is entered while the innermost one dispatches.
LEMMA Entered ==
  ASSUME Inv, Dispatching, NEW at \in Places, NEW t \in Timer \cup {None}, Enter(Frame(at, t)),
         at # "react"
  PROVE  /\ stack' \in Seq(AFrame) /\ StackIsSound'
         /\ \A m \in Message : Held(m)' <=> Held(m)
         /\ ~TopIs("view") /\ ~TopIs("inside")
         /\ \A x \in Places : TopIs(x)' <=> x = at
  <1> DEFINE f == Frame(at, t)
  <1>1. f \in AFrame /\ f.at = at /\ f.messages = {}
    BY DEF Frame, AFrame
  <1> HIDE DEF f
  <1>2. /\ stack \in Seq(AFrame) /\ Depth \in Nat /\ DOMAIN stack = 1 .. Depth
        /\ stack # <<>> <=> Depth > 0
    BY StackType
  <1>3. /\ stack' \in Seq(AFrame) /\ stack' # <<>> /\ Depth' = Depth + 1
        /\ DOMAIN stack' = 1 .. Depth + 1
        /\ \A k \in 1 .. Depth : stack'[k] = stack[k]
        /\ stack'[Depth + 1] = f
    BY <1>1, <1>2 DEF Enter, f, Depth
  <1>4. \A k \in 1 .. Depth : stack[k].at = "pump"
    BY <1>2 DEF Inv, StackIsSound, Dispatching, TopIs, Top
  <1>5. StackIsSound'
    BY <1>1, <1>2, <1>3, <1>4 DEF Inv, StackIsSound
  <1>6. \A m \in Message : Held(m)' <=> Held(m)
    BY <1>1, <1>2, <1>3 DEF Held
  <1>7. ~TopIs("view") /\ ~TopIs("inside")
    BY <1>2, <1>4 DEF TopIs, Top
  <1>8. \A x \in Places : TopIs(x)' <=> x = at
    BY <1>1, <1>2, <1>3 DEF TopIs, Top
  <1> QED BY <1>3, <1>5, <1>6, <1>7, <1>8

\* The innermost callback goes on, and may take messages at that.
LEMMA WentOn ==
  ASSUME Inv, stack # <<>>, NEW at \in Places, NEW M \in SUBSET Message, M # {} => at = "react",
         Top.messages = {},
         stack' = [stack EXCEPT ![Depth] = [@ EXCEPT !.at = at, !.messages = M]]
  PROVE  /\ stack' \in Seq(AFrame) /\ StackIsSound'
         /\ \A m \in Message : ~Held(m) /\ (Held(m)' <=> m \in M)
         /\ \A x \in Places : TopIs(x)' <=> x = at
  <1>1. /\ stack \in Seq(AFrame) /\ Depth \in Nat \ {0} /\ DOMAIN stack = 1 .. Depth
        /\ stack[Depth] \in AFrame
    BY StackType
  <1> DEFINE f == [stack[Depth] EXCEPT !.at = at, !.messages = M]
  <1>2. f \in AFrame /\ f.at = at /\ f.messages = M
    BY <1>1 DEF AFrame
  <1>3. stack' = [stack EXCEPT ![Depth] = f]
    OBVIOUS
  <1> HIDE DEF f
  <1>4. /\ stack' \in Seq(AFrame) /\ stack' # <<>> /\ Depth' = Depth /\ DOMAIN stack' = 1 .. Depth
        /\ \A k \in 1 .. Depth : k # Depth => stack'[k] = stack[k]
        /\ stack'[Depth] = f
    <2>1. Len(stack) \in 1 .. Len(stack)
      BY <1>1 DEF Depth
    <2> QED BY <1>1, <1>2, <1>3, <2>1, SeqExcept, SeqType DEF Depth
  <1>5. \A k \in 1 .. Depth : stack[k].messages = {} /\ (k # Depth => stack[k].at = "pump")
    BY <1>1 DEF Inv, StackIsSound, Top
  <1>6. StackIsSound'
    BY <1>1, <1>2, <1>4, <1>5 DEF StackIsSound
  <1>7. \A m \in Message : ~Held(m) /\ (Held(m)' <=> m \in M)
    BY <1>1, <1>2, <1>4, <1>5 DEF Held
  <1>8. \A x \in Places : TopIs(x)' <=> x = at
    BY <1>2, <1>4 DEF TopIs, Top
  <1> QED BY <1>4, <1>6, <1>7, <1>8

\* The innermost callback returns to one that dispatches.
LEMMA Returned ==
  ASSUME Inv, stack # <<>>, Return
  PROVE  /\ stack' \in Seq(AFrame) /\ StackIsSound'
         /\ \A m \in Message : ~Held(m)' /\ (Held(m) <=> m \in Top.messages)
         /\ ~TopIs("view")' /\ ~TopIs("inside")'
  <1>1. /\ stack \in Seq(AFrame) /\ Depth \in Nat \ {0} /\ DOMAIN stack = 1 .. Depth
    BY StackType
  <1>2. /\ stack' \in Seq(AFrame) /\ Depth' = Depth - 1 /\ DOMAIN stack' = 1 .. Depth - 1
        /\ \A k \in 1 .. Depth - 1 : stack'[k] = stack[k]
    BY <1>1 DEF Return, Depth
  <1>3. \A k \in 1 .. Depth - 1 : stack[k].at = "pump" /\ stack[k].messages = {}
    BY <1>1 DEF Inv, StackIsSound
  <1>4. StackIsSound'
    BY <1>1, <1>2, <1>3 DEF StackIsSound
  <1>5. \A m \in Message : ~Held(m)' /\ (Held(m) <=> m \in Top.messages)
    BY <1>1, <1>2, <1>3 DEF Held, Top
  <1>6. stack' # <<>> => Depth' \in 1 .. Depth - 1 /\ Top' = stack[Depth - 1] /\ Top'.at = "pump"
    BY <1>1, <1>2, <1>3 DEF Top
  <1>7. ~TopIs("view")' /\ ~TopIs("inside")'
    BY <1>6 DEF TopIs
  <1> QED BY <1>2, <1>4, <1>5, <1>7

LEMMA CountsStay ==
  ASSUME Inv, UNCHANGED <<pause_messages, silent, shown>>,
         \A m \in Message : Held(m)' <=> Held(m)
  PROVE  MessagesAreCounted'
  BY DEF Inv, MessagesAreCounted, N

\* Nothing is entered or left, and no timer changes.
LEMMA StackStays ==
  ASSUME Inv, UNCHANGED <<stack, ended, shown, widgets>>,
         quit' = quit
  PROVE  /\ stack' \in Seq(AFrame) /\ StackIsSound' /\ PlayingHasTimer'
         /\ \A x \in Places : TopIs(x)' <=> TopIs(x)
         /\ \A m \in Message : Held(m)' <=> Held(m)
  <1>1. stack' \in Seq(AFrame)
    BY StackType
  <1> QED BY <1>1 DEF Inv, StackIsSound, PlayingHasTimer, TopIs, Top, Depth, Held, widgets

------------------------------------------------------------------------------
(* The simulation thread. *)

LEMMA SimulationInv == Inv /\ SimulationThread => Inv'
  <1> SUFFICES ASSUME Inv, SimulationThread PROVE Inv'
    OBVIOUS
  <1>1. UNCHANGED <<stack, ended, shown, widgets>> /\ quit' = quit
    BY DEF SimulationThread, TestQuit, GoWait, GoClear, CheckQuit, SimAcquire, RunUntil, SimRelease, shared
  <1>2. /\ stack' \in Seq(AFrame) /\ StackIsSound' /\ PlayingHasTimer'
        /\ \A x \in Places : TopIs(x)' <=> TopIs(x)
        /\ \A m \in Message : Held(m)' <=> Held(m)
    BY <1>1, StackStays
  <1>3. (TopIs("view")' <=> TopIs("view")) /\ (TopIs("inside")' <=> TopIs("inside"))
    BY <1>2 DEF Places
  <1>4. CASE TestQuit \/ GoWait \/ GoClear \/ CheckQuit
    <2>1. TypeOK'
      BY <1>1, <1>2, <1>4 DEF Inv, TypeOK, AFrame, TestQuit, GoWait, GoClear, CheckQuit, SimStep,
         shared, widgets
    <2>2. LockIsHeld'
      BY <1>3, <1>4 DEF Inv, LockIsHeld, TestQuit, GoWait, GoClear, CheckQuit, SimStep, shared
    <2>3. UNCHANGED <<pause_messages, silent>>
      BY <1>4 DEF TestQuit, GoWait, GoClear, CheckQuit, shared
    <2> QED BY <1>1, <1>2, <2>1, <2>2, <2>3, CountsStay DEF Inv
  <1>5. CASE SimAcquire \/ SimRelease
    <2>1. TypeOK'
      BY <1>1, <1>2, <1>5 DEF Inv, TypeOK, AFrame, SimAcquire, SimRelease, SimStep, widgets
    <2>2. LockIsHeld'
      BY <1>3, <1>5 DEF Inv, LockIsHeld, SimAcquire, SimRelease, SimStep
    <2>3. UNCHANGED <<pause_messages, silent>>
      BY <1>5 DEF SimAcquire, SimRelease
    <2> QED BY <1>1, <1>2, <2>1, <2>2, <2>3, CountsStay DEF Inv
  <1>6. CASE RunUntil
    <2>1. PICK M \in SUBSET silent :
            silent' = silent \ M /\ pause_messages' = pause_messages \cup M /\ reached' \in BOOLEAN
      BY <1>6 DEF RunUntil, Pauses
    <2>2. SimStep("run", "release") /\ idle' = idle + 1 /\ UNCHANGED <<lock, go>>
      BY <1>6 DEF RunUntil
    <2>3. TypeOK'
      BY <1>1, <1>2, <2>1, <2>2 DEF Inv, TypeOK, AFrame, SimStep, widgets
    <2>4. LockIsHeld'
      BY <1>3, <2>2 DEF Inv, LockIsHeld, SimStep
    <2>5. MessagesAreCounted'
      <3> SUFFICES ASSUME NEW m \in Message
                   PROVE  shown[m] + N(m \in pause_messages') + N(Held(m)) = N(m \notin silent')
        BY <1>1, <1>2 DEF MessagesAreCounted, N
      <3>1. /\ shown[m] + N(m \in pause_messages) + N(Held(m)) = N(m \notin silent)
            /\ shown[m] \in Nat
        BY DEF Inv, MessagesAreCounted, TypeOK
      <3> QED BY <2>1, <3>1 DEF N
    <2> QED BY <1>2, <2>3, <2>4, <2>5 DEF Inv
  <1> QED BY <1>4, <1>5, <1>6 DEF SimulationThread

------------------------------------------------------------------------------
(* What the main loop dispatches. *)

LEMMA EnterInv ==
  ASSUME Inv, Dispatching, NEW at \in {"try", "acquire", "go"}, NEW t \in Timer \cup {None},
         Enter(Frame(at, t)), UNCHANGED <<thread, lock, pause_messages, play, ended, shown>>,
         go' \in BOOLEAN, quit' \in BOOLEAN, idle' \in Nat,
         timers' \subseteq Timer, update_timeout_id' \in Timer \cup {None},
         PlayingHasTimer'
  PROVE  Inv'
  <1>1. /\ stack' \in Seq(AFrame) /\ StackIsSound'
        /\ \A m \in Message : Held(m)' <=> Held(m)
        /\ ~TopIs("view") /\ ~TopIs("inside")
        /\ \A x \in Places : TopIs(x)' <=> x = at
    BY Entered DEF Places
  <1>2. TypeOK'
    BY <1>1 DEF Inv, TypeOK, AFrame, thread
  <1>3. LockIsHeld'
    <2>1. ~TopIs("view")' /\ ~TopIs("inside")'
      BY <1>1 DEF Places
    <2> QED BY <1>1, <2>1 DEF Inv, LockIsHeld, thread
  <1>4. MessagesAreCounted'
    BY <1>1, CountsStay DEF thread
  <1> QED BY <1>1, <1>2, <1>3, <1>4 DEF Inv

LEMMA TimersInv ==
  ASSUME Inv, UNCHANGED <<thread, shared, stack, ended, shown>>, play' \in BOOLEAN,
         timers' \subseteq Timer, update_timeout_id' \in Timer \cup {None},
         PlayingHasTimer'
  PROVE  Inv'
  <1>1. TypeOK'
    BY DEF Inv, TypeOK, thread, shared
  <1>2. StackIsSound' /\ LockIsHeld' /\ MessagesAreCounted'
    BY DEF Inv, StackIsSound, LockIsHeld, TopIs, Top, Depth, MessagesAreCounted, Held, thread, shared
  <1> QED BY <1>1, <1>2 DEF Inv

\* The timer that is started is attached and remembered.
LEMMA Started ==
  ASSUME Inv, StartTimer
  PROVE  timers' \subseteq Timer /\ update_timeout_id' \in timers'
  <1>1. NewTimer \in Free
    BY DEF StartTimer, NewTimer
  <1> QED BY <1>1 DEF StartTimer, Free, Inv, TypeOK

LEMMA DispatchInv == Inv /\ Dispatch => Inv'
  <1> SUFFICES ASSUME Inv, Dispatch PROVE Inv'
    OBVIOUS
  <1> USE DEF Inv, TypeOK
  <1>1. ASSUME NEW t \in Timer, FireTimer(t) PROVE Inv'
    <2>1. PlayingHasTimer'
      BY <1>1 DEF FireTimer, PlayingHasTimer, shared, widgets
    <2> QED BY <1>1, <2>1, EnterInv DEF FireTimer, shared, widgets
  <1>2. CASE UpdateModel
    <2>1. PlayingHasTimer'
      BY <1>2 DEF UpdateModel, PlayingHasTimer, widgets
    <2>2. idle' \in Nat /\ UNCHANGED <<go, quit>>
      BY <1>2 DEF UpdateModel
    <2> QED BY <1>2, <2>1, <2>2, EnterInv DEF UpdateModel, widgets
  <1>3. CASE UserEvent
    <2>1. PlayingHasTimer'
      BY <1>3 DEF UserEvent, PlayingHasTimer, shared, widgets
    <2> QED BY <1>3, <2>1, EnterInv DEF UserEvent, shared, widgets
  <1>4. CASE TogglePlay
    <2>1. /\ play' \in BOOLEAN /\ timers' \subseteq Timer /\ update_timeout_id' \in Timer \cup {None}
          /\ PlayingHasTimer'
      BY <1>4, Started DEF TogglePlay, PlayingHasTimer
    <2> QED BY <1>4, <2>1, TimersInv DEF TogglePlay
  <1>5. CASE ChangeSpeed
    <2>1. /\ play' \in BOOLEAN /\ timers' \subseteq Timer /\ update_timeout_id' \in Timer \cup {None}
          /\ PlayingHasTimer'
      BY <1>5, Started DEF ChangeSpeed, PlayingHasTimer
    <2> QED BY <1>5, <2>1, TimersInv DEF ChangeSpeed
  <1>6. CASE DeleteEvent
    <2>1. PlayingHasTimer'
      BY <1>6 DEF DeleteEvent, PlayingHasTimer
    <2> QED BY <1>6, <2>1, EnterInv DEF DeleteEvent
  <1> QED BY <1>1, <1>2, <1>3, <1>4, <1>5, <1>6 DEF Dispatch

------------------------------------------------------------------------------
(* The callbacks. *)

LEMMA GotoInv ==
  ASSUME Inv, stack # <<>>, Top.at # "react", NEW at \in Places, Goto(at),
         UNCHANGED <<thread, pause_messages, idle, quit, widgets, ended, shown>>,
         go' \in BOOLEAN, lock' \in {"free", "simulation", "gui"},
         lock' = "gui" <=> at \in {"view", "inside"},
         lock' = "simulation" <=> lock = "simulation"
  PROVE  Inv'
  <1>1. Depth \in 1 .. Depth /\ DOMAIN stack = 1 .. Depth /\ stack[Depth] \in AFrame
    BY StackType
  <1>2. Top.messages = {}
    BY <1>1 DEF Top, Inv, StackIsSound
  <1>3. [stack[Depth] EXCEPT !.at = at] = [stack[Depth] EXCEPT !.at = at, !.messages = {}]
    BY <1>1, <1>2 DEF Top, AFrame
  <1>4. stack' = [stack EXCEPT ![Depth] = [@ EXCEPT !.at = at, !.messages = {}]]
    BY <1>3 DEF Goto
  <1>5. /\ stack' \in Seq(AFrame) /\ StackIsSound'
        /\ \A m \in Message : ~Held(m) /\ ~Held(m)'
        /\ \A x \in Places : TopIs(x)' <=> x = at
    BY <1>2, <1>4, WentOn
  <1>6. TypeOK'
    BY <1>5 DEF Inv, TypeOK, AFrame, thread, widgets
  <1>7. LockIsHeld'
    <2>1. (TopIs("view")' <=> at = "view") /\ (TopIs("inside")' <=> at = "inside")
      BY <1>5 DEF Places
    <2> QED BY <2>1 DEF Inv, LockIsHeld, thread
  <1>8. MessagesAreCounted'
    BY <1>5, CountsStay DEF thread
  <1>9. PlayingHasTimer'
    BY DEF Inv, PlayingHasTimer, widgets
  <1> QED BY <1>5, <1>6, <1>7, <1>8, <1>9 DEF Inv

\* UpdateView takes the messages that wait.
LEMMA UpdateViewInv == Inv /\ UpdateView => Inv'
  <1> SUFFICES ASSUME Inv, UpdateView PROVE Inv'
    OBVIOUS
  <1>1. /\ stack # <<>> /\ Top.at = "view"
        /\ stack' = [stack EXCEPT ![Depth] = [@ EXCEPT !.at = "react", !.messages = pause_messages]]
        /\ pause_messages' = {} /\ reached' = FALSE /\ lock' = "free"
        /\ UNCHANGED <<sim, silent, go, quit, idle, widgets, ended, shown>>
    BY DEF UpdateView, TopIs
  <1>2. Depth \in 1 .. Depth /\ DOMAIN stack = 1 .. Depth /\ stack[Depth] \in AFrame
    BY <1>1, StackType
  <1>3. Top.messages = {} /\ pause_messages \in SUBSET Message
    BY <1>1, <1>2 DEF Top, Inv, StackIsSound, TypeOK
  <1>4. /\ stack' \in Seq(AFrame) /\ StackIsSound'
        /\ \A m \in Message : ~Held(m) /\ (Held(m)' <=> m \in pause_messages)
        /\ \A x \in Places : TopIs(x)' <=> x = "react"
    BY <1>1, <1>3, WentOn DEF Places
  <1>5. TypeOK'
    BY <1>1, <1>4 DEF Inv, TypeOK, AFrame, widgets
  <1>6. LockIsHeld'
    <2>1. ~TopIs("view")' /\ ~TopIs("inside")' /\ TopIs("view")
      BY <1>1, <1>4 DEF Places, TopIs
    <2>2. lock = "gui" /\ (lock = "simulation" <=> sim \in {"run", "release"})
      BY <2>1 DEF Inv, LockIsHeld
    <2>3. sim \notin {"run", "release"} /\ lock' = "free" /\ sim' = sim
      BY <1>1, <2>2
    <2>4. lock' = "gui" <=> TopIs("view")' \/ TopIs("inside")'
      BY <2>1, <2>3
    <2>5. lock' = "simulation" <=> sim' \in {"run", "release"}
      BY <2>3
    <2> QED BY <2>4, <2>5 DEF LockIsHeld
  <1>7. MessagesAreCounted'
    <2> SUFFICES ASSUME NEW m \in Message
                 PROVE  shown[m] + 0 + N(m \in pause_messages) = N(m \notin silent)
      BY <1>1, <1>4 DEF MessagesAreCounted, N
    <2>1. /\ shown[m] + N(m \in pause_messages) + N(Held(m)) = N(m \notin silent)
          /\ shown[m] \in Nat
      BY DEF Inv, MessagesAreCounted, TypeOK
    <2> QED BY <1>4, <2>1 DEF N
  <1>8. PlayingHasTimer'
    BY <1>1 DEF Inv, PlayingHasTimer, widgets
  <1> QED BY <1>4, <1>5, <1>6, <1>7, <1>8 DEF Inv

\* React shows the messages that its callback took.
LEMMA ReactInv == Inv /\ React => Inv'
  <1> SUFFICES ASSUME Inv, React PROVE Inv'
    OBVIOUS
  <1>1. /\ stack # <<>> /\ Top.at = "react" /\ Return
        /\ shown' = [m \in Message |-> IF m \in Top.messages THEN shown[m] + 1 ELSE shown[m]]
        /\ play' = (play /\ Top.messages = {})
        /\ UNCHANGED <<thread, lock, quit, pause_messages, idle, ended>>
    BY DEF React, TopIs
  <1>2. /\ stack' \in Seq(AFrame) /\ StackIsSound'
        /\ \A m \in Message : ~Held(m)' /\ (Held(m) <=> m \in Top.messages)
        /\ ~TopIs("view")' /\ ~TopIs("inside")'
    BY <1>1, Returned
  <1>3. /\ go' \in BOOLEAN /\ play' \in BOOLEAN
        /\ timers' \subseteq timers /\ update_timeout_id' \in {update_timeout_id, None}
        /\ play' => play /\ UNCHANGED <<timers, update_timeout_id>>
    BY <1>1 DEF React, Inv, TypeOK
  <1>4. TypeOK'
    BY <1>1, <1>2, <1>3 DEF Inv, TypeOK, AFrame, thread
  <1>5. LockIsHeld'
    <2>1. ~TopIs("view") /\ ~TopIs("inside")
      BY <1>1 DEF TopIs
    <2> QED BY <1>1, <1>2, <2>1 DEF Inv, LockIsHeld, thread
  <1>6. MessagesAreCounted'
    <2> SUFFICES ASSUME NEW m \in Message
                 PROVE  shown'[m] + N(m \in pause_messages) + 0 = N(m \notin silent)
      BY <1>1, <1>2 DEF MessagesAreCounted, N, thread
    <2>1. /\ shown[m] + N(m \in pause_messages) + N(Held(m)) = N(m \notin silent)
          /\ shown[m] \in Nat
      BY DEF Inv, MessagesAreCounted, TypeOK
    <2> QED BY <1>1, <1>2, <2>1 DEF N
  <1>7. PlayingHasTimer'
    BY <1>1, <1>3 DEF Inv, PlayingHasTimer
  <1> QED BY <1>2, <1>4, <1>5, <1>6, <1>7 DEF Inv

\* Release and QuitJoin, which hold no messages.
LEMMA ReturnInv ==
  ASSUME Inv, stack # <<>>, Top.at \in {"inside", "join"}, Return,
         UNCHANGED <<thread, go, quit, pause_messages, idle, widgets, shown>>,
         ended' \in BOOLEAN,
         lock' = IF lock = "gui" THEN "free" ELSE lock
  PROVE  Inv'
  <1>1. /\ stack' \in Seq(AFrame) /\ StackIsSound'
        /\ \A m \in Message : ~Held(m)' /\ (Held(m) <=> m \in Top.messages)
        /\ ~TopIs("view")' /\ ~TopIs("inside")'
    BY Returned
  <1>2. Depth \in 1 .. Depth /\ DOMAIN stack = 1 .. Depth
    BY StackType
  <1>3. Top.messages = {}
    BY <1>2 DEF Top, Inv, StackIsSound
  <1>4. TypeOK'
    BY <1>1 DEF Inv, TypeOK, AFrame, thread, widgets
  <1>5. LockIsHeld'
    BY <1>1 DEF Inv, LockIsHeld, thread
  <1>6. MessagesAreCounted'
    BY <1>1, <1>3, CountsStay DEF thread
  <1>7. PlayingHasTimer'
    BY DEF Inv, PlayingHasTimer, widgets
  <1> QED BY <1>1, <1>4, <1>5, <1>6, <1>7 DEF Inv

LEMMA CallbackInv == Inv /\ (TryAgain \/ Callback) => Inv'
  <1> SUFFICES ASSUME Inv, TryAgain \/ Callback PROVE Inv'
    OBVIOUS
  <1>1. /\ lock \in {"free", "simulation", "gui"} /\ go \in BOOLEAN /\ ended \in BOOLEAN
        /\ lock = "gui" <=> TopIs("view") \/ TopIs("inside")
    BY DEF Inv, TypeOK, LockIsHeld
  <1> USE DEF Places
  <1>2. CASE TryAgain
    BY <1>1, <1>2, GotoInv DEF TryAgain, TopIs, shared
  <1>3. CASE TryLock
    BY <1>1, <1>3, GotoInv DEF TryLock, TopIs
  <1>4. CASE Acquire
    BY <1>1, <1>4, GotoInv DEF Acquire, TopIs
  <1>5. CASE QuitGo
    BY <1>1, <1>5, GotoInv DEF QuitGo, TopIs
  <1>6. CASE Release
    BY <1>1, <1>6, ReturnInv DEF Release, TopIs
  <1>7. CASE QuitJoin
    BY <1>1, <1>7, ReturnInv DEF QuitJoin, TopIs, shared
  <1> QED BY <1>2, <1>3, <1>4, <1>5, <1>6, <1>7, UpdateViewInv, ReactInv DEF Callback

LEMMA InitInv == Init => Inv
  <1> SUFFICES ASSUME Init PROVE Inv
    OBVIOUS
  <1>1. update_timeout_id \in Timer
    BY VisualizerAssumption DEF Init
  <1>2. TypeOK
    <2>1. stack \in Seq(AFrame)
      BY DEF Init
    <2>2. shown \in [Message -> Nat]
      BY DEF Init
    <2>3. timers \subseteq Timer /\ silent \subseteq Message /\ pause_messages \subseteq Message
      BY <1>1 DEF Init
    <2>4. /\ lock = "free" /\ sim = "loop" /\ idle \in Nat
          /\ go \in BOOLEAN /\ quit \in BOOLEAN /\ play \in BOOLEAN /\ ended \in BOOLEAN
          /\ reached \in BOOLEAN
      BY DEF Init
    <2> QED BY <1>1, <2>1, <2>2, <2>3, <2>4 DEF TypeOK, AFrame
  <1>3. StackIsSound /\ LockIsHeld /\ PlayingHasTimer
    BY DEF Init, StackIsSound, LockIsHeld, TopIs, PlayingHasTimer
  <1>4. MessagesAreCounted
    BY DEF Init, MessagesAreCounted, Held, N
  <1> QED BY <1>2, <1>3, <1>4 DEF Inv

LEMMA NextInv == Inv /\ [Next]_vars => Inv'
  <1>1. Inv /\ UNCHANGED vars => Inv'
    <2> SUFFICES ASSUME Inv, UNCHANGED vars PROVE Inv'
      OBVIOUS
    <2>1. UNCHANGED <<thread, shared, stack, ended, shown>> /\ UNCHANGED <<timers, update_timeout_id, play, quit>>
      BY DEF vars, widgets, shared
    <2>2. /\ play' \in BOOLEAN /\ timers' \subseteq Timer /\ update_timeout_id' \in Timer \cup {None}
      BY <2>1 DEF Inv, TypeOK
    <2>3. PlayingHasTimer'
      BY <2>1 DEF Inv, PlayingHasTimer
    <2> QED BY <2>1, <2>2, <2>3, TimersInv
  <1> QED BY <1>1, SimulationInv, DispatchInv, CallbackInv DEF Next

------------------------------------------------------------------------------
(* The theorems. *)

\* Every step of the two threads keeps the invariant.
THEOREM VisualizerInvariance == Spec => []Inv
  <1> QED BY InitInv, NextInv, PTL DEF Spec

\* While the simulator runs, no callback that took the lock is at work, and no
\* callback dispatches or blocks while it holds the lock, however deep they nest.
THEOREM SimulatorIsAlone == Spec => []NobodyElseInside
  <1>1. Inv => NobodyElseInside
    <2> SUFFICES ASSUME Inv PROVE NobodyElseInside
      OBVIOUS
    <2>1. Depth \in Nat /\ DOMAIN stack = 1 .. Depth
      BY StackType
    <2>2. \A k \in DOMAIN stack : stack[k].at \in {"view", "inside"} => k = Depth
      BY <2>1 DEF Inv, StackIsSound
    <2>3. \A k \in DOMAIN stack : stack[k].at \in {"view", "inside"} => lock = "gui"
      BY <2>1, <2>2 DEF Inv, LockIsHeld, TopIs, Top
    <2> QED BY <2>2, <2>3 DEF Inv, LockIsHeld, NobodyElseInside
  <1> QED BY <1>1, VisualizerInvariance, PTL

\* Each pause message of the simulated program comes to the user once.
THEOREM NoMessageIsLost == Spec => []MessagesShownOnce
  <1>1. Inv => MessagesShownOnce
    <2> SUFFICES ASSUME Inv, NEW m \in Message, m \notin silent
                 PROVE  shown[m] + (IF m \in pause_messages THEN 1 ELSE 0)
                          + Cardinality({k \in DOMAIN stack : m \in stack[k].messages}) = 1
      BY DEF MessagesShownOnce, Inv, TypeOK
    <2> DEFINE H == {k \in DOMAIN stack : m \in stack[k].messages}
    <2>1. Depth \in Nat /\ DOMAIN stack = 1 .. Depth
      BY StackType
    <2>2. \A k \in H : k = Depth
      BY <2>1 DEF Inv, StackIsSound
    <2>3. H = {} \/ H = {Depth}
      BY <2>2
    <2>4. Cardinality(H) = N(Held(m))
      <3>1. H # {} <=> Held(m)
        BY DEF Held
      <3> HIDE DEF H
      <3> QED BY <2>3, <3>1, FS_EmptySet, FS_Singleton DEF N
    <2>5. shown[m] + N(m \in pause_messages) + N(Held(m)) = 1 /\ shown[m] \in Nat
      BY DEF Inv, MessagesAreCounted, TypeOK, N
    <2> QED BY <2>4, <2>5 DEF N
  <1> QED BY <1>1, VisualizerInvariance, PTL

\* Whatever ended or nested, a visualizer that plays has an update timer.
THEOREM PlayingGoesOn == Spec => []PlayingHasTimer
  <1>1. Inv => PlayingHasTimer
    BY DEF Inv
  <1> QED BY <1>1, VisualizerInvariance, PTL
==============================================================================
