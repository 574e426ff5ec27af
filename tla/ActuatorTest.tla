----------------------------- MODULE ActuatorTest -----------------------------
(***************************************************************************)
(* The bounded manual actuator test of one load (coordinator.py).          *)
(*                                                                         *)
(* A confirmed request turns the output on, persists a record with an      *)
(* absolute expiry and starts a timer task that turns it off again.  The   *)
(* user may stop the test early, a replan may command the load while the   *)
(* test runs, and the config entry may be unloaded or Home Assistant may   *)
(* die.  All of them run under the coordinator's lock and give the event   *)
(* loop away only while they await the device.                             *)
(*                                                                         *)
(* A device call is confirmed by feedback, returns without confirmation,   *)
(* or raises; in the last two cases the output may or may not have moved.  *)
(* An observation shows the present output or unknown.  The load is not    *)
(* under automatic control and has no override, so every command here      *)
(* belongs to the test.  A replan decides for all loads and then sends one *)
(* command after the other: between its decision for this load, its own    *)
(* call and its end lie the awaited calls of other loads, with the lock    *)
(* held.  A reload is taken when nothing of the unloaded coordinator is    *)
(* still in flight.                                                        *)
(***************************************************************************)
EXTENDS Naturals

CONSTANT None

On  == "on"
Off == "off"
Unknown == "unknown"
Opposite(state) == IF state = On THEN Off ELSE On

\* Who holds the coordinator's lock across awaited device calls.
Starter == "async_start_actuator_test"
Stopper == "async_stop_actuator_test"
Timer   == "_async_finish_actuator_test"
Replan  == "async_replan"
ReplanExpired == "async_replan of an expired test"
Unload  == "async_stop"

ASSUME NoneAssumption ==
    None \notin {On, Off, Unknown, "running", "expired",
                 Starter, Stopper, Timer, Replan, ReplanExpired, Unload}

VARIABLES
    output,         \* the physical output
    feedback,       \* _feedback of the load
    record,         \* recovery["actuator_tests"]: None, "running" or "expired"
    timer,          \* _actuator_test_tasks: "none", a live state, or "dead"
    starter,        \* a call of async_start_actuator_test
    stopper,        \* a call of async_stop_actuator_test by the user
    replanPending,  \* a debounced replan is scheduled
    backoff,        \* last_control_attempt is younger than actuator_retry_seconds
    runtime,        \* "loaded", "unloading", "unloaded"
    lock,           \* holder of the lock
    command,        \* the device call of this load that it awaits
    proposal,       \* what the replan that holds the lock still has to send to the load
    stopFailed,     \* a stop of the current test was not confirmed
    testOn          \* a command of the current test moved the output from off to on,
                    \* and nothing has turned it off or operated it since

process == <<starter, stopper, runtime>>
vars == <<output, feedback, record, timer, process, replanPending, backoff, lock, command,
          proposal, stopFailed, testOn>>

Started     == runtime # "unloaded"
LiveTimer   == {"sleeping", "waiting", "stopping"}
Reading     == {output, Unknown}

-----------------------------------------------------------------------------
(* The device.                                                             *)

Await(holder, state) == lock' = holder /\ command' = state /\ proposal' = None
Unlock               == lock' = None /\ command' = None /\ proposal' = None

\* The output is in this state when the call of a test ends.
Moves(state) == output' = state /\ testOn' = (state = On /\ (testOn \/ output = Off))

\* async_apply returns and fresh feedback shows the commanded state.
Confirmed ==
    /\ Moves(command) /\ feedback' = command

\* async_apply returns, but feedback is unavailable or contradicts the command.
Unconfirmed ==
    /\ \E state \in {output, command} : Moves(state)
    /\ feedback' \in {Unknown, Opposite(command)}

\* Bug: the feedback of a load whose call raised is forgotten.
RaisedForgets ==
    /\ \E state \in {output, command} : Moves(state)
    /\ feedback' = None

\* async_apply raises: the recorded feedback is the old one.
Raised ==
    /\ \E state \in {output, command} : Moves(state)
    /\ UNCHANGED feedback

\* A stop of the test that was not confirmed off.
StopNotConfirmed == (Unconfirmed \/ Raised) /\ stopFailed' = TRUE

-----------------------------------------------------------------------------
Init ==
    /\ output \in {On, Off} /\ feedback \in Reading
    /\ record = None /\ timer = "none"
    /\ starter = "idle" /\ stopper = "idle" /\ runtime = "loaded"
    /\ replanPending = FALSE /\ backoff = FALSE
    /\ lock = None /\ command = None /\ proposal = None
    /\ stopFailed = FALSE /\ testOn = FALSE

(* Starting a test.                                                        *)

\* Only a caller that still finds the runtime can queue for the lock.
RequestStart ==
    /\ starter = "idle" /\ runtime = "loaded"
    /\ starter' = "waiting"
    /\ UNCHANGED <<output, feedback, record, timer, stopper, runtime, replanPending, backoff,
                   lock, command, proposal, stopFailed, testOn>>

\* The request is refused: a test exists, the output is on, or the limit, the
\* grid input, the headroom or the adapter is missing.
RefuseStart ==
    /\ starter = "waiting" /\ lock = None
    /\ starter' = "idle"
    /\ IF timer = "none" THEN feedback' \in Reading ELSE UNCHANGED feedback
    /\ UNCHANGED <<output, record, timer, stopper, runtime, replanPending, backoff,
                   lock, command, proposal, stopFailed, testOn>>

BeginStart ==
    /\ starter = "waiting" /\ lock = None
    /\ timer = "none"
    /\ feedback' \in Reading /\ feedback' # On
    /\ Await(Starter, On)
    /\ stopFailed' = FALSE /\ testOn' = FALSE
    /\ UNCHANGED <<output, record, timer, process, replanPending, backoff>>

\* Bug: the test is recorded but its timer never runs.
StartConfirmedWithoutTimer ==
    /\ lock = Starter /\ command = On
    /\ Confirmed
    /\ record' = "running" /\ timer' = "dead" /\ starter' = "idle"
    /\ Unlock
    /\ UNCHANGED <<stopper, runtime, replanPending, backoff, stopFailed>>

StartConfirmed ==
    /\ lock = Starter /\ command = On
    /\ Confirmed
    /\ record' = "running" /\ timer' = "sleeping" /\ starter' = "idle"
    /\ Unlock
    /\ UNCHANGED <<stopper, runtime, replanPending, backoff, stopFailed>>

\* An unconfirmed start is followed by one best-effort stop.
StartUnconfirmed ==
    /\ lock = Starter /\ command = On
    /\ Unconfirmed
    /\ Await(Starter, Off)
    /\ UNCHANGED <<record, timer, process, replanPending, backoff, stopFailed>>

\* An exception of the device call leaves the function as it is.
StartRaised ==
    /\ lock = Starter /\ command = On
    /\ Raised
    /\ starter' = "idle"
    /\ Unlock
    /\ UNCHANGED <<record, timer, stopper, runtime, replanPending, backoff, stopFailed>>

UndoReturns ==
    /\ lock = Starter /\ command = Off
    /\ \/ Confirmed /\ UNCHANGED stopFailed
       \/ StopNotConfirmed
    /\ starter' = "idle"
    /\ Unlock
    /\ UNCHANGED <<record, timer, stopper, runtime, replanPending, backoff>>

(* Ending a test.                                                          *)

\* The wall clock passes expires_at.
Expire ==
    /\ record = "running"
    /\ record' = "expired"
    /\ UNCHANGED <<output, feedback, timer, process, replanPending, backoff, lock, command,
                   proposal, stopFailed, testOn>>

TimerElapses ==
    /\ timer = "sleeping" /\ record # "running"
    /\ timer' = "waiting"
    /\ UNCHANGED <<output, feedback, record, process, replanPending, backoff, lock, command,
                   proposal, stopFailed, testOn>>

TimerStops ==
    /\ timer = "waiting" /\ lock = None /\ record # None
    /\ timer' = "stopping"
    /\ Await(Timer, Off)
    /\ UNCHANGED <<output, feedback, record, process, replanPending, backoff, stopFailed,
                   testOn>>

TimerConfirmed ==
    /\ lock = Timer
    /\ Confirmed
    /\ record' = None /\ timer' = "none"
    /\ replanPending' = Started
    /\ Unlock
    /\ UNCHANGED <<process, backoff, stopFailed>>

\* The task ends, keeps the record, and asks for a replan to retry the stop.
TimerFails ==
    /\ lock = Timer
    /\ StopNotConfirmed
    /\ timer' = "dead"
    /\ replanPending' = Started
    /\ Unlock
    /\ UNCHANGED <<record, process, backoff>>

\* Bug: the timer is cancelled before the caller has the lock.
RequestStopCancels ==
    /\ stopper = "idle" /\ runtime = "loaded"
    /\ stopper' = "waiting"
    /\ timer' = IF timer = "sleeping" THEN "dead" ELSE timer
    /\ UNCHANGED <<output, feedback, record, starter, runtime, replanPending, backoff,
                   lock, command, proposal, stopFailed, testOn>>

RequestStop ==
    /\ stopper = "idle" /\ runtime = "loaded"
    /\ stopper' = "waiting"
    /\ UNCHANGED <<output, feedback, record, timer, starter, runtime, replanPending, backoff,
                   lock, command, proposal, stopFailed, testOn>>

RefuseStop ==
    /\ stopper = "waiting" /\ lock = None /\ record = None
    /\ stopper' = "idle"
    /\ UNCHANGED <<output, feedback, record, timer, starter, runtime, replanPending, backoff,
                   lock, command, proposal, stopFailed, testOn>>

\* The timer is cancelled before the stop is known to work.
BeginStop ==
    /\ stopper = "waiting" /\ lock = None /\ record # None
    /\ timer' = "dead"
    /\ Await(Stopper, Off)
    /\ UNCHANGED <<output, feedback, record, process, replanPending, backoff, stopFailed,
                   testOn>>

StopConfirmed ==
    /\ lock = Stopper
    /\ Confirmed
    /\ record' = None /\ timer' = "none" /\ stopper' = "idle"
    /\ replanPending' = Started
    /\ Unlock
    /\ UNCHANGED <<starter, runtime, backoff, stopFailed>>

StopFails ==
    /\ lock = Stopper
    /\ StopNotConfirmed
    /\ stopper' = "idle"
    /\ Unlock
    /\ UNCHANGED <<record, timer, starter, runtime, replanPending, backoff>>

(* Replans while a test exists.                                            *)

\* An input changes and _schedule_replan is called.
InputEvent ==
    /\ Started /\ ~replanPending
    /\ replanPending' = TRUE
    /\ UNCHANGED <<output, feedback, record, timer, process, backoff, lock, command,
                   proposal, stopFailed, testOn>>

\* actuator_retry_seconds pass.
BackoffEnds ==
    /\ backoff
    /\ backoff' = FALSE
    /\ UNCHANGED <<output, feedback, record, timer, process, replanPending, lock, command,
                   proposal, stopFailed, testOn>>

\* What a replan wants of the load: an expired test is stopped; a running one is
\* a manual request, which the arbitrator grants, denies, or never sees.
Desires ==
    CASE record = "expired" -> {Off}
      [] record = "running" -> {On, Off, None}
      [] OTHER -> {None}

\* async_replan takes the lock, observes, and decides for every load.  Whether the
\* test has expired is settled here (expired_actuator_tests).
ReplanDecides ==
    /\ replanPending /\ Started /\ lock = None
    /\ replanPending' = FALSE
    /\ feedback' \in Reading
    /\ lock' = IF record = "expired" THEN ReplanExpired ELSE Replan
    /\ proposal' \in Desires
    /\ UNCHANGED <<output, record, timer, process, backoff, command, stopFailed, testOn>>

Replanning == lock \in {Replan, ReplanExpired} /\ command = None

\* Nothing is sent: feedback already matches, or the last attempt is too recent.
ReplanSkips ==
    /\ Replanning /\ proposal # None
    /\ proposal = feedback \/ backoff
    /\ proposal' = None
    /\ UNCHANGED <<output, feedback, record, timer, process, replanPending, backoff, lock,
                   command, stopFailed, testOn>>

ReplanCommands ==
    /\ Replanning /\ proposal \notin {None, feedback}
    /\ ~backoff /\ backoff' = TRUE
    /\ Await(lock, proposal)
    /\ UNCHANGED <<output, feedback, record, timer, process, replanPending, stopFailed, testOn>>

\* The call returns; the commands of other loads follow.
ReplanReturns ==
    /\ lock \in {Replan, ReplanExpired} /\ command # None
    /\ \/ Confirmed /\ UNCHANGED stopFailed
       \/ command = Off /\ StopNotConfirmed
       \/ command = On /\ (Unconfirmed \/ Raised) /\ UNCHANGED stopFailed
    /\ Await(lock, None)
    /\ UNCHANGED <<record, timer, process, replanPending, backoff>>

\* Bug: the timer task stays behind.
CompleteExpiredRecord(seen) ==
    IF seen = Off THEN record' = None /\ UNCHANGED timer ELSE UNCHANGED <<record, timer>>

\* Bug: the feedback is not looked at.
CompleteExpiredAlways(seen) == record' = None /\ timer' = "none"

\* The record of an expired test goes once the load is seen off.
CompleteExpired(seen) ==
    IF seen = Off THEN record' = None /\ timer' = "none" ELSE UNCHANGED <<record, timer>>

\* Bug: what has expired by the end of the replan is completed too.
ReplanEndsByTheClock ==
    /\ Replanning /\ proposal = None
    /\ IF record = "expired" THEN CompleteExpired(feedback) ELSE UNCHANGED <<record, timer>>
    /\ Unlock
    /\ UNCHANGED <<output, feedback, process, replanPending, backoff, stopFailed, testOn>>

\* Every load has been dealt with.  Only a test that had expired when the replan
\* decided is completed by it.
ReplanEnds ==
    /\ Replanning /\ proposal = None
    /\ IF lock = ReplanExpired THEN CompleteExpired(feedback) ELSE UNCHANGED <<record, timer>>
    /\ Unlock
    /\ UNCHANGED <<output, feedback, process, replanPending, backoff, stopFailed, testOn>>

(* Unload, reload and crash.                                               *)

RequestUnload ==
    /\ runtime = "loaded"
    /\ runtime' = "unloading"
    /\ UNCHANGED <<output, feedback, record, timer, starter, stopper, replanPending, backoff,
                   lock, command, proposal, stopFailed, testOn>>

\* async_stop without a test: nothing is sent.
UnloadQuiet ==
    /\ runtime = "unloading" /\ lock = None /\ timer = "none"
    /\ runtime' = "unloaded" /\ record' = None /\ replanPending' = FALSE
    /\ UNCHANGED <<output, feedback, timer, starter, stopper, backoff, lock, command,
                   proposal, stopFailed, testOn>>

\* async_stop with a test: cancel its timer and stop the output.
BeginUnload ==
    /\ runtime = "unloading" /\ lock = None /\ timer # "none"
    /\ timer' = "dead" /\ replanPending' = FALSE
    /\ Await(Unload, Off)
    /\ UNCHANGED <<output, feedback, record, process, backoff, stopFailed, testOn>>

UnloadReturns ==
    /\ lock = Unload
    /\ \/ Confirmed /\ UNCHANGED stopFailed
       \/ StopNotConfirmed
    /\ runtime' = "unloaded" /\ record' = None /\ timer' = "none"
    /\ Unlock
    /\ UNCHANGED <<starter, stopper, replanPending, backoff>>

\* async_start of the next coordinator drops a record it finds and commands nothing.
Reload ==
    /\ runtime = "unloaded" /\ lock = None
    /\ starter = "idle" /\ stopper = "idle" /\ timer \in {"none", "dead"}
    /\ runtime' = "loaded" /\ record' = None /\ timer' = "none"
    /\ feedback' \in Reading
    /\ UNCHANGED <<output, starter, stopper, replanPending, backoff, lock, command,
                   proposal, stopFailed, testOn>>

\* Home Assistant dies and starts again: tasks and calls are gone.
Crash ==
    /\ \/ command = None /\ UNCHANGED output
       \/ command # None /\ output' \in {output, command}
    /\ feedback' \in {output', Unknown}
    /\ record' = None /\ timer' = "none"
    /\ starter' = "idle" /\ stopper' = "idle" /\ runtime' = "loaded"
    /\ replanPending' = FALSE /\ Unlock
    /\ testOn' = FALSE
    /\ UNCHANGED <<backoff, stopFailed>>

\* Somebody operates the device by hand.
OwnerSwitches ==
    /\ output' = Opposite(output)
    /\ testOn' = FALSE
    /\ UNCHANGED <<feedback, record, timer, process, replanPending, backoff, lock, command,
                   proposal, stopFailed>>

-----------------------------------------------------------------------------
StartStep  == RequestStart \/ RefuseStart \/ BeginStart \/ StartConfirmed
              \/ StartUnconfirmed \/ StartRaised \/ UndoReturns
TimerStep  == TimerElapses \/ TimerStops \/ TimerConfirmed \/ TimerFails
StopStep   == RequestStop \/ RefuseStop \/ BeginStop \/ StopConfirmed \/ StopFails
ReplanStep == InputEvent \/ BackoffEnds \/ ReplanDecides \/ ReplanSkips \/ ReplanCommands
              \/ ReplanReturns \/ ReplanEnds
RunStep    == RequestUnload \/ UnloadQuiet \/ BeginUnload \/ UnloadReturns \/ Reload

Next == Expire \/ StartStep \/ TimerStep \/ StopStep \/ ReplanStep \/ RunStep
        \/ Crash \/ OwnerSwitches

\* Time passes, device calls return, and the lock is first come, first served, so
\* a waiting timer gets it although others ask again and again.
Fairness ==
    /\ WF_vars(Expire) /\ WF_vars(TimerElapses) /\ SF_vars(TimerStops)
    /\ WF_vars(TimerConfirmed \/ TimerFails)
    /\ WF_vars(StartConfirmed \/ StartUnconfirmed \/ StartRaised \/ UndoReturns)
    /\ WF_vars(StopConfirmed \/ StopFails)
    /\ WF_vars(ReplanSkips \/ ReplanCommands \/ ReplanReturns \/ ReplanEnds)
    /\ WF_vars(UnloadReturns)

Spec == Init /\ [][Next]_vars /\ Fairness

-----------------------------------------------------------------------------
(* Properties.                                                             *)

TypeOK ==
    /\ output \in {On, Off} /\ feedback \in {On, Off, Unknown}
    /\ record \in {None, "running", "expired"}
    /\ timer \in LiveTimer \cup {"none", "dead"}
    /\ starter \in {"idle", "waiting"} /\ stopper \in {"idle", "waiting"}
    /\ runtime \in {"loaded", "unloading", "unloaded"}
    /\ lock \in {None, Starter, Stopper, Timer, Replan, ReplanExpired, Unload}
    /\ {command, proposal} \subseteq {None, On, Off}
    /\ {replanPending, backoff, stopFailed, testOn} \subseteq BOOLEAN

\* A record and its timer task come and go together, also when a user stop, a
\* replan and the timer compete: otherwise "already active" would refuse every
\* later test of the load, or a test would run without a timer of its own.
RecordMatchesTask == (record # None) <=> (timer # "none")

\* Until a stop fails, a test always has its stop ahead of it: a live timer, or a
\* stop that is being sent.
StopPendingUntilFailure ==
    record # None /\ ~stopFailed =>
        timer \in LiveTimer \/ lock \in {Stopper, Unload}

\* A test ends by itself, or a stop of it failed.
TestEnds == record # None ~> record = None \/ stopFailed

\* The record of a test, and with it the stop ahead, outlives the on that the test or a
\* replan sent: a replan decides, commands and completes with other loads' calls in
\* between, so its on may reach the device after the expiry and be contradicted by
\* feedback, and the off it sees at its end may be of before the command.  Set aside
\* are an unload and a reload, which drop the record in any case, and a crash and the
\* owner's hand, which end testOn.
RecordOutlivesOutput ==
    [][record # None /\ record' = None => ~testOn' \/ lock = Unload \/ Reload]_vars

\* Only an observed off ends a test, except when the coordinator goes away.
EndsConfirmed ==
    [][record # None /\ record' = None =>
          feedback' = Off \/ lock = Unload \/ runtime = "unloaded" \/ Crash]_vars

\* coordinator.py:1982, "Do not leave an unconfirmed explicit test on": an output
\* that a test has left on belongs to a record, or a stop of it was tried and failed.
NoTestLeftOn ==
    testOn /\ lock = None => record # None \/ stopFailed
=============================================================================
