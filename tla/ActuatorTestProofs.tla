-------------------------- MODULE ActuatorTestProofs --------------------------
(***************************************************************************)
(* Who may hold the lock while a test exists, and what it may be doing:    *)
(* the inductive invariant ties the record of the test, its timer task and *)
(* the holder of the coordinator's lock together, and what a replan has    *)
(* seen and still has to send to what the test has left on.                *)
(***************************************************************************)
EXTENDS ActuatorTest, TLAPS

\* Only with the lock held a device call is awaited, and only a replan has something
\* still to send.
CallIsAwaited ==
    /\ lock = None => command = None
    /\ lock \notin {Replan, ReplanExpired} => proposal = None

\* A start is awaited only while no test exists.
StartHasNoTest == lock = Starter => record = None /\ starter = "waiting"

\* A stop is awaited only for a test that exists, and it sends an off.
StopHasTest ==
    /\ lock \in {Timer, Stopper, Unload} => record # None /\ command = Off
    /\ lock = ReplanExpired => record = "expired" /\ {command, proposal} \subseteq {None, Off}

\* The timer task holds the lock exactly while it stops the test; who else stops it
\* has cancelled the timer.
TimerHasLock ==
    /\ timer = "stopping" <=> lock = Timer
    /\ lock \in {Stopper, Unload} => timer = "dead"

IInv ==
    /\ TypeOK
    /\ CallIsAwaited /\ StartHasNoTest /\ StopHasTest /\ TimerHasLock
    /\ RecordMatchesTask /\ StopPendingUntilFailure

\* A test has left on only what is on; a replan of an expired test sends an off only to
\* a load it has not seen off, so the off it sees once its call has returned is real.
SeenOffIsOff ==
    /\ testOn => output = On
    /\ lock = ReplanExpired /\ command = Off => feedback # Off
    /\ lock = ReplanExpired /\ command = None /\ feedback = Off => ~testOn

\* The invariant holds initially.
THEOREM InitEstablishesIInv == Init => IInv
BY NoneAssumption
DEF Init, IInv, TypeOK, CallIsAwaited, StartHasNoTest, StopHasTest, TimerHasLock,
    RecordMatchesTask, StopPendingUntilFailure, Reading, LiveTimer, On, Off, Unknown, Starter,
    Stopper, Timer, Replan, ReplanExpired, Unload

\* What a device call may leave behind.
LEMMA CallResults ==
    ASSUME IInv, command # None, Confirmed \/ Unconfirmed \/ Raised
    PROVE  /\ output' \in {On, Off} /\ feedback' \in {On, Off, Unknown}
           /\ testOn' \in BOOLEAN
           /\ Confirmed => feedback' = command
BY DEF IInv, TypeOK, Confirmed, Unconfirmed, Raised, Moves, Opposite, On, Off, Unknown

\* Starting a test keeps the invariant.
LEMMA StartStepPreservesIInv == IInv /\ StartStep => IInv'
<1>. SUFFICES ASSUME IInv, StartStep PROVE IInv'
  OBVIOUS
<1>. USE NoneAssumption
     DEF IInv, TypeOK, CallIsAwaited, StartHasNoTest, StopHasTest, TimerHasLock,
         RecordMatchesTask, StopPendingUntilFailure, LiveTimer, process, Await, Unlock,
         On, Off, Unknown, Starter, Stopper, Timer, Replan, ReplanExpired, Unload
<1>1. CASE RequestStart
  BY <1>1 DEF RequestStart
<1>2. CASE RefuseStart
  BY <1>2 DEF RefuseStart, Reading
<1>3. CASE BeginStart
  BY <1>3 DEF BeginStart, Reading
<1>4. CASE StartConfirmed
  BY <1>4, CallResults DEF StartConfirmed
<1>5. CASE StartUnconfirmed
  BY <1>5, CallResults DEF StartUnconfirmed
<1>6. CASE StartRaised
  BY <1>6, CallResults DEF StartRaised
<1>7. CASE UndoReturns
  BY <1>7, CallResults DEF UndoReturns, StopNotConfirmed
<1>. QED BY <1>1, <1>2, <1>3, <1>4, <1>5, <1>6, <1>7 DEF StartStep

\* The timer of a test keeps the invariant.
LEMMA TimerStepPreservesIInv == IInv /\ TimerStep => IInv'
<1>. SUFFICES ASSUME IInv, TimerStep PROVE IInv'
  OBVIOUS
<1>. USE NoneAssumption
     DEF IInv, TypeOK, CallIsAwaited, StartHasNoTest, StopHasTest, TimerHasLock,
         RecordMatchesTask, StopPendingUntilFailure, LiveTimer, process, Await, Unlock,
         On, Off, Unknown, Starter, Stopper, Timer, Replan, ReplanExpired, Unload
<1>1. CASE TimerElapses
  BY <1>1 DEF TimerElapses
<1>2. CASE TimerStops
  BY <1>2 DEF TimerStops
<1>3. CASE TimerConfirmed
  BY <1>3, CallResults DEF TimerConfirmed, Started
<1>4. CASE TimerFails
  BY <1>4, CallResults DEF TimerFails, StopNotConfirmed, Started
<1>. QED BY <1>1, <1>2, <1>3, <1>4 DEF TimerStep

\* A user who stops the test keeps the invariant.
LEMMA StopStepPreservesIInv == IInv /\ StopStep => IInv'
<1>. SUFFICES ASSUME IInv, StopStep PROVE IInv'
  OBVIOUS
<1>. USE NoneAssumption
     DEF IInv, TypeOK, CallIsAwaited, StartHasNoTest, StopHasTest, TimerHasLock,
         RecordMatchesTask, StopPendingUntilFailure, LiveTimer, process, Await, Unlock,
         On, Off, Unknown, Starter, Stopper, Timer, Replan, ReplanExpired, Unload
<1>1. CASE RequestStop
  BY <1>1 DEF RequestStop
<1>2. CASE RefuseStop
  BY <1>2 DEF RefuseStop
<1>3. CASE BeginStop
  BY <1>3 DEF BeginStop
<1>4. CASE StopConfirmed
  BY <1>4, CallResults DEF StopConfirmed, Started
<1>5. CASE StopFails
  BY <1>5, CallResults DEF StopFails, StopNotConfirmed
<1>. QED BY <1>1, <1>2, <1>3, <1>4, <1>5 DEF StopStep

\* A replan while a test exists keeps the invariant.
LEMMA ReplanStepPreservesIInv == IInv /\ ReplanStep => IInv'
<1>. SUFFICES ASSUME IInv, ReplanStep PROVE IInv'
  OBVIOUS
<1>. USE NoneAssumption
     DEF IInv, TypeOK, CallIsAwaited, StartHasNoTest, StopHasTest, TimerHasLock,
         RecordMatchesTask, StopPendingUntilFailure, LiveTimer, process, Await, Unlock,
         On, Off, Unknown, Starter, Stopper, Timer, Replan, ReplanExpired, Unload
<1>1. CASE InputEvent \/ BackoffEnds
  <2>1. {replanPending', backoff', stopFailed', testOn'} \subseteq BOOLEAN
    <3>1. {replanPending, backoff, stopFailed, testOn} \subseteq BOOLEAN
      OBVIOUS
    <3>2. /\ replanPending' \in {replanPending, TRUE} /\ backoff' \in {backoff, FALSE}
          /\ UNCHANGED <<stopFailed, testOn>>
      BY <1>1 DEF InputEvent, BackoffEnds
    <3>. QED BY ONLY <3>1, <3>2
  <2>2. UNCHANGED <<output, feedback, record, timer, starter, stopper, runtime, lock, command,
                    proposal, stopFailed>>
    BY <1>1 DEF InputEvent, BackoffEnds
  <2>3. TypeOK'
    BY <2>1, <2>2
  <2>4. CallIsAwaited' /\ StartHasNoTest' /\ StopHasTest' /\ TimerHasLock'
    BY <2>2
  <2>5. RecordMatchesTask' /\ StopPendingUntilFailure'
    BY <2>2
  <2>. QED BY <2>3, <2>4, <2>5
<1>2. CASE ReplanDecides
  <2>1. /\ proposal' \in {None, On, Off}
        /\ record = "expired" => proposal' = Off
    BY <1>2 DEF ReplanDecides, Desires
  <2>. QED BY <1>2, <2>1 DEF ReplanDecides, Reading
<1>3. CASE ReplanSkips
  BY <1>3 DEF ReplanSkips, Replanning
<1>4. CASE ReplanCommands
  BY <1>4 DEF ReplanCommands, Replanning
<1>5. CASE ReplanReturns
  <2>1. /\ Confirmed \/ Unconfirmed \/ Raised
        /\ stopFailed' = stopFailed \/ stopFailed' = TRUE
    BY <1>5 DEF ReplanReturns, StopNotConfirmed
  <2>2. /\ UNCHANGED <<record, timer, starter, stopper, runtime, replanPending, backoff>>
        /\ lock \in {Replan, ReplanExpired} /\ command # None
        /\ UNCHANGED lock /\ command' = None /\ proposal' = None
    BY <1>5 DEF ReplanReturns
  <2>3. /\ output' \in {On, Off} /\ feedback' \in {On, Off, Unknown}
        /\ testOn' \in BOOLEAN
    BY <2>1, <2>2, CallResults
  <2>4. {replanPending', backoff', stopFailed', testOn'} \subseteq BOOLEAN
    BY <2>1, <2>2, <2>3
  <2>5. TypeOK' /\ RecordMatchesTask'
    BY <2>2, <2>3, <2>4
  <2>6. CallIsAwaited' /\ StartHasNoTest' /\ StopHasTest' /\ TimerHasLock'
    BY <2>2
  <2>7. StopPendingUntilFailure'
    <3>1. record' # None /\ ~stopFailed' => record # None /\ ~stopFailed
      BY <2>1, <2>2
    <3>. QED BY <2>2, <3>1
  <2>. QED BY <2>5, <2>6, <2>7
<1>6. CASE ReplanEnds
  BY <1>6 DEF ReplanEnds, Replanning, CompleteExpired
<1>. QED BY <1>1, <1>2, <1>3, <1>4, <1>5, <1>6 DEF ReplanStep

\* Unloading and reloading the entry keep the invariant.
LEMMA RunStepPreservesIInv == IInv /\ RunStep => IInv'
<1>. SUFFICES ASSUME IInv, RunStep PROVE IInv'
  OBVIOUS
<1>. USE NoneAssumption
     DEF IInv, TypeOK, CallIsAwaited, StartHasNoTest, StopHasTest, TimerHasLock,
         RecordMatchesTask, StopPendingUntilFailure, LiveTimer, process, Await, Unlock,
         On, Off, Unknown, Starter, Stopper, Timer, Replan, ReplanExpired, Unload
<1>1. CASE RequestUnload
  BY <1>1 DEF RequestUnload
<1>2. CASE UnloadQuiet
  BY <1>2 DEF UnloadQuiet
<1>3. CASE BeginUnload
  BY <1>3 DEF BeginUnload
<1>4. CASE UnloadReturns
  BY <1>4, CallResults DEF UnloadReturns, StopNotConfirmed
<1>5. CASE Reload
  BY <1>5 DEF Reload, Reading
<1>. QED BY <1>1, <1>2, <1>3, <1>4, <1>5 DEF RunStep

\* No step breaks the invariant.
LEMMA StepPreservesIInv == IInv /\ [Next]_vars => IInv'
<1>. SUFFICES ASSUME IInv, [Next]_vars PROVE IInv'
  OBVIOUS
<1>1. CASE Expire
  BY <1>1, NoneAssumption
  DEF Expire, IInv, TypeOK, CallIsAwaited, StartHasNoTest, StopHasTest, TimerHasLock,
      RecordMatchesTask, StopPendingUntilFailure, LiveTimer, process
<1>2. CASE Crash
  BY <1>2, NoneAssumption
  DEF Crash, IInv, TypeOK, CallIsAwaited, StartHasNoTest, StopHasTest, TimerHasLock,
      RecordMatchesTask, StopPendingUntilFailure, LiveTimer, Unlock, On, Off, Unknown,
      Starter, Stopper, Timer, Replan, ReplanExpired, Unload
<1>3. CASE OwnerSwitches
  <2>1. /\ output' \in {On, Off} /\ testOn' = FALSE
        /\ UNCHANGED <<feedback, record, timer, starter, stopper, runtime, replanPending,
                       backoff, lock, command, proposal, stopFailed>>
    BY <1>3 DEF OwnerSwitches, Opposite, process
  <2>2. {replanPending', backoff', stopFailed', testOn'} \subseteq BOOLEAN
    <3>1. {replanPending, backoff, stopFailed} \subseteq BOOLEAN
      BY DEF IInv, TypeOK
    <3>. QED BY ONLY <2>1, <3>1
  <2>3. TypeOK'
    BY <2>1, <2>2 DEF IInv, TypeOK
  <2>. QED
    BY <2>1, <2>3
    DEF IInv, CallIsAwaited, StartHasNoTest, StopHasTest, TimerHasLock, RecordMatchesTask,
        StopPendingUntilFailure
<1>4. CASE UNCHANGED vars
  BY <1>4
  DEF vars, process, IInv, TypeOK, CallIsAwaited, StartHasNoTest, StopHasTest, TimerHasLock,
      RecordMatchesTask, StopPendingUntilFailure
<1>. QED
  BY <1>1, <1>2, <1>3, <1>4, StartStepPreservesIInv, TimerStepPreservesIInv,
     StopStepPreservesIInv, ReplanStepPreservesIInv, RunStepPreservesIInv DEF Next

\* The lock, the record and the timer of a test fit together in every reachable state.
THEOREM Invariance == Spec => []IInv
BY InitEstablishesIInv, StepPreservesIInv, PTL DEF Spec

\* Type correctness of the actuator test.
THEOREM TypeCorrect == Spec => []TypeOK
<1>1. IInv => TypeOK
  BY DEF IInv
<1>. QED BY <1>1, Invariance, PTL

\* _actuator_test_tasks and the persisted record of a test come and go together
\* (coordinator.py:1914-2080).
THEOREM RecordAndTaskTogether == Spec => []RecordMatchesTask
<1>1. IInv => RecordMatchesTask
  BY DEF IInv
<1>. QED BY <1>1, Invariance, PTL

\* Whoever cancels the timer of a test has taken over its stop.
THEOREM StopIsAhead == Spec => []StopPendingUntilFailure
<1>1. IInv => StopPendingUntilFailure
  BY DEF IInv
<1>. QED BY <1>1, Invariance, PTL

\* A call of a test counts the output as left on only when it is on.
LEMMA CallLeavesOn ==
    ASSUME Confirmed \/ Unconfirmed \/ Raised
    PROVE  testOn' => output' = On
<1>1. PICK state : Moves(state)
  BY DEF Confirmed, Unconfirmed, Raised
<1>2. output' = state
  BY <1>1 DEF Moves
<1>3. testOn' => state = On
  BY <1>1, Zenon DEF Moves
<1>. QED BY <1>2, <1>3

\* No step breaks SeenOffIsOff.
LEMMA StepKeepsSeenOff == IInv /\ SeenOffIsOff /\ [Next]_vars => SeenOffIsOff'
<1>. SUFFICES ASSUME IInv, SeenOffIsOff, [Next]_vars PROVE SeenOffIsOff'
  OBVIOUS
<1>. DEFINE Same  == UNCHANGED <<output, feedback, lock, command, testOn>>
            Other == /\ lock' # ReplanExpired
                     /\ \/ UNCHANGED <<output, testOn>>
                        \/ testOn' = FALSE
                        \/ Confirmed \/ Unconfirmed \/ Raised
<1>1. CASE Same
  BY <1>1, Zenon DEF SeenOffIsOff
<1>2. CASE Other
  <2>1. testOn' => output' = On
    BY <1>2, CallLeavesOn, Zenon DEF SeenOffIsOff
  <2>. QED BY <1>2, <2>1, Zenon DEF SeenOffIsOff
<1>3. CASE StartStep \/ TimerStep \/ StopStep
  <2>. USE NoneAssumption
       DEF Await, Unlock, process, Starter, Stopper, Timer, ReplanExpired
  <2>1. CASE StartStep
    BY <1>1, <1>2, <2>1
    DEF StartStep, RequestStart, RefuseStart, BeginStart, StartConfirmed, StartUnconfirmed,
        StartRaised, UndoReturns, StopNotConfirmed
  <2>2. CASE TimerStep
    BY <1>1, <1>2, <2>2
    DEF TimerStep, TimerElapses, TimerStops, TimerConfirmed, TimerFails, StopNotConfirmed
  <2>3. CASE StopStep
    BY <1>1, <1>2, <2>3
    DEF StopStep, RequestStop, RefuseStop, BeginStop, StopConfirmed, StopFails,
        StopNotConfirmed
  <2>. QED BY <1>3, <2>1, <2>2, <2>3
<1>4. CASE RunStep \/ Expire \/ Crash \/ OwnerSwitches \/ UNCHANGED vars
  <2>. USE NoneAssumption DEF Await, Unlock, process, Unload, ReplanExpired
  <2>1. CASE RunStep
    BY <1>1, <1>2, <2>1
    DEF RunStep, RequestUnload, UnloadQuiet, BeginUnload, UnloadReturns, Reload,
        StopNotConfirmed
  <2>2. CASE Crash
    BY <1>2, <2>2 DEF Crash
  <2>3. CASE OwnerSwitches
    <3>1. testOn' = FALSE /\ UNCHANGED <<feedback, lock, command>>
      BY <2>3 DEF OwnerSwitches
    <3>. QED BY <3>1, Zenon DEF SeenOffIsOff
  <2>4. CASE Expire \/ UNCHANGED vars
    BY <1>1, <2>4 DEF Expire, vars
  <2>. QED BY <1>4, <2>1, <2>2, <2>3, <2>4
<1>5. CASE InputEvent \/ BackoffEnds \/ ReplanSkips \/ ReplanEnds
  BY <1>1, <1>2, <1>5, NoneAssumption
  DEF InputEvent, BackoffEnds, ReplanSkips, ReplanEnds, Unlock, process
<1>6. CASE ReplanDecides
  <2>1. command = None /\ command' = None /\ UNCHANGED <<output, testOn>>
        /\ feedback' \in {output, Unknown}
    BY <1>6 DEF ReplanDecides, Reading, IInv, CallIsAwaited
  <2>2. testOn' => output' = On
    BY <2>1, Zenon DEF SeenOffIsOff
  <2>3. feedback' = Off => output' # On
    BY <2>1 DEF On, Off, Unknown
  <2>4. command' # Off
    BY <2>1, NoneAssumption
  <2>. QED BY <2>2, <2>3, <2>4, Zenon DEF SeenOffIsOff
<1>7. CASE ReplanCommands
  <2>1. command' # None /\ command' # feedback /\ UNCHANGED <<output, feedback, testOn>>
    BY <1>7 DEF ReplanCommands, Await
  <2>2. testOn' => output' = On
    BY <2>1, Zenon DEF SeenOffIsOff
  <2>. QED BY <2>1, <2>2, Zenon DEF SeenOffIsOff
<1>8. CASE ReplanReturns
  <2>1. /\ UNCHANGED lock /\ command' = None
        /\ Confirmed \/ Unconfirmed \/ Raised
        /\ lock = ReplanExpired => command = Off
    BY <1>8 DEF ReplanReturns, StopNotConfirmed, Await, IInv, StopHasTest
  <2>2. testOn' => output' = On
    BY <2>1, CallLeavesOn
  <2>3. ASSUME lock = ReplanExpired, feedback' = Off PROVE output' # On
    <3>1. command = Off /\ feedback # Off
      BY <2>1, <2>3 DEF SeenOffIsOff
    <3>2. Confirmed
      BY <2>1, <2>3, <3>1 DEF Unconfirmed, Raised, Opposite, On, Off, Unknown
    <3>. QED BY <3>1, <3>2 DEF Confirmed, Moves, On, Off
  <2>4. command' # Off
    BY <2>1, NoneAssumption
  <2>. QED BY <2>1, <2>2, <2>3, <2>4, Zenon DEF SeenOffIsOff
<1>. QED
  BY <1>3, <1>4, <1>5, <1>6, <1>7, <1>8 DEF Next, ReplanStep

\* SeenOffIsOff holds in every reachable state.
THEOREM SeenOffInvariance == Spec => []SeenOffIsOff
<1>1. Init => SeenOffIsOff
  BY NoneAssumption DEF Init, SeenOffIsOff
<1>. QED BY <1>1, StepKeepsSeenOff, Invariance, PTL DEF Spec

\* The record of a test goes only when the output it turned on is off again or in other
\* hands, although a replan decides, sends and completes in separate steps.
THEOREM RecordKeptWhileOn == Spec => RecordOutlivesOutput
<1>1. IInv /\ SeenOffIsOff /\ [Next]_vars =>
         [record # None /\ record' = None => ~testOn' \/ lock = Unload \/ Reload]_vars
  <2>. SUFFICES ASSUME IInv, SeenOffIsOff, Next, record # None, record' = None
                PROVE  ~testOn' \/ lock = Unload \/ Reload
    OBVIOUS
  <2>. USE NoneAssumption DEF IInv
  <2>1. CASE TimerConfirmed \/ StopConfirmed
    <3>1. Confirmed /\ command = Off
      BY <2>1 DEF TimerConfirmed, StopConfirmed, StopHasTest, Timer, Stopper
    <3>. QED BY <3>1 DEF Confirmed, Moves, On, Off
  <2>2. CASE ReplanEnds
    <3>1. lock = ReplanExpired /\ command = None /\ feedback = Off /\ UNCHANGED testOn
      BY <2>2 DEF ReplanEnds, Replanning, CompleteExpired
    <3>. QED BY <3>1 DEF SeenOffIsOff
  <2>3. CASE UnloadQuiet
    BY <2>3 DEF UnloadQuiet, RecordMatchesTask
  <2>4. CASE UnloadReturns \/ Reload \/ Crash
    BY <2>4 DEF UnloadReturns, Crash
  <2>5. ~(StartStep \/ Expire \/ OwnerSwitches)
    BY DEF StartStep, RequestStart, RefuseStart, BeginStart, StartConfirmed,
           StartUnconfirmed, StartRaised, UndoReturns, Expire, OwnerSwitches
  <2>6. ~(TimerElapses \/ TimerStops \/ TimerFails \/ RequestStop \/ RefuseStop
          \/ BeginStop \/ StopFails)
    BY DEF TimerElapses, TimerStops, TimerFails, RequestStop, RefuseStop, BeginStop,
           StopFails
  <2>7. ~(InputEvent \/ BackoffEnds \/ ReplanDecides \/ ReplanSkips \/ ReplanCommands
          \/ ReplanReturns \/ RequestUnload \/ BeginUnload)
    BY DEF InputEvent, BackoffEnds, ReplanDecides, ReplanSkips, ReplanCommands,
           ReplanReturns, RequestUnload, BeginUnload
  <2>. QED
    BY <2>1, <2>2, <2>3, <2>4, <2>5, <2>6, <2>7 DEF Next, TimerStep, StopStep, ReplanStep,
                                                    RunStep
<1>. QED BY <1>1, Invariance, SeenOffInvariance, PTL DEF Spec, RecordOutlivesOutput

\* Nothing but an observed off, an unload or a crash ends a test: neither the timer, nor a
\* user, nor a replan takes the record away on the strength of a call alone.
THEOREM OnlyOffEndsTest == Spec => EndsConfirmed
<1>1. IInv /\ [Next]_vars =>
         [record # None /\ record' = None
              => feedback' = Off \/ lock = Unload \/ runtime = "unloaded" \/ Crash]_vars
  <2>. SUFFICES ASSUME IInv, Next, record # None, record' = None
                PROVE  feedback' = Off \/ lock = Unload \/ runtime = "unloaded" \/ Crash
    OBVIOUS
  <2>. USE NoneAssumption DEF IInv
  <2>1. CASE TimerConfirmed \/ StopConfirmed
    <3>1. Confirmed /\ command = Off
      BY <2>1 DEF TimerConfirmed, StopConfirmed, StopHasTest, Timer, Stopper
    <3>. QED BY <3>1 DEF Confirmed
  <2>2. CASE ReplanEnds
    BY <2>2 DEF ReplanEnds, CompleteExpired
  <2>3. CASE UnloadQuiet
    BY <2>3 DEF UnloadQuiet, RecordMatchesTask
  <2>4. CASE UnloadReturns \/ Reload \/ Crash
    BY <2>4 DEF UnloadReturns, Reload
  <2>5. CASE StartStep \/ Expire \/ OwnerSwitches
    BY <2>5 DEF StartStep, RequestStart, RefuseStart, BeginStart, StartConfirmed,
                StartUnconfirmed, StartRaised, UndoReturns, Expire, OwnerSwitches
  <2>6. CASE TimerElapses \/ TimerStops \/ TimerFails \/ RequestStop \/ RefuseStop
             \/ BeginStop \/ StopFails
    BY <2>6 DEF TimerElapses, TimerStops, TimerFails, RequestStop, RefuseStop, BeginStop,
                StopFails
  <2>7. CASE InputEvent \/ BackoffEnds \/ ReplanDecides \/ ReplanSkips \/ ReplanCommands
             \/ ReplanReturns \/ RequestUnload \/ BeginUnload
    BY <2>7 DEF InputEvent, BackoffEnds, ReplanDecides, ReplanSkips, ReplanCommands,
                ReplanReturns, RequestUnload, BeginUnload
  <2>. QED
    BY <2>1, <2>2, <2>3, <2>4, <2>5, <2>6, <2>7 DEF Next, TimerStep, StopStep, ReplanStep,
                                                    RunStep
<1>. QED BY <1>1, Invariance, PTL DEF Spec, EndsConfirmed
=============================================================================
