--------------------------- MODULE ReplanScheduler ---------------------------
(***************************************************************************)
(* When a site coordinator re-evaluates its loads (coordinator.py).        *)
(*                                                                         *)
(* A change of a subscribed input marshals a callback to the event loop,   *)
(* which starts one debounced task unless the previous one is not done.    *)
(* The task sleeps a second and runs async_replan, as buttons, services    *)
(* and the panel do directly.  async_replan and async_stop run under one   *)
(* asyncio lock, which is first come, first served.                        *)
(*                                                                         *)
(* Observing, deciding and taking the snapshot involve no real suspension; *)
(* commanding and persisting do.  So a replan is two steps here: Observe   *)
(* reads the inputs, Finish returns from the awaits and gives up the lock. *)
(* Inputs are a version number; a replan is up to date with the version    *)
(* that it read.                                                           *)
(***************************************************************************)
EXTENDS Naturals, Sequences, SequencesExt, FiniteSets

CONSTANTS
    Clients,       \* callers that await async_replan themselves
    TaskIds,       \* identities of debounced tasks; an ended one is reused
    MaxInputs,     \* bound on the number of input changes
    MaxCallbacks,  \* bound on callbacks in flight to the event loop
    None

ASSUME BoundsAssumption == MaxInputs \in Nat /\ MaxCallbacks \in Nat \ {0}

Start == "start"   \* async_start
Stop  == "stop"    \* async_stop
Processes == Clients \cup TaskIds \cup {Start, Stop}

ASSUME IdentityAssumption ==
    /\ Clients \cap TaskIds = {}
    /\ {Start, Stop} \cap (Clients \cup TaskIds) = {}
    /\ None \notin Processes

VARIABLES
    started,          \* _started
    subscribed,       \* _unsub_input_events is not empty
    inputVersion,     \* the inputs as the event bus last reported them
    observedVersion,  \* the inputs that the last replan decided on
    callbacks,        \* calls of _async_schedule_replan_on_loop not yet run
    task,             \* state of every debounced task
    replanTask,       \* _replan_task
    lock,             \* holder of _lock
    waiters,          \* processes queued on _lock, oldest first
    stage,            \* how far the holder of the lock is
    client,           \* state of every direct caller
    stop              \* state of async_stop

loopState == <<callbacks, task, replanTask>>
lockState == <<lock, waiters, stage>>
vars == <<started, subscribed, inputVersion, observedVersion, loopState, lockState,
          client, stop>>

TaskState == {"ended", "sleeping", "waiting", "replanning"}
Live(t)   == task[t] # "ended"

-----------------------------------------------------------------------------
(* The asyncio lock.                                                       *)

Acquire(p) ==
    IF lock = None /\ waiters = <<>>
    THEN lock' = p /\ stage' = "entered" /\ UNCHANGED waiters
    ELSE waiters' = Append(waiters, p) /\ UNCHANGED <<lock, stage>>

\* Bug: the lock is given up without waking a waiter.
ReleaseWithoutWakeUp(queue) == lock' = None /\ stage' = "free" /\ waiters' = queue

\* Bug: the newest waiter goes first.
ReleaseNewestFirst(queue) ==
    IF queue = <<>>
    THEN lock' = None /\ stage' = "free" /\ waiters' = <<>>
    ELSE lock' = Last(queue) /\ stage' = "entered" /\ waiters' = Front(queue)

Release(queue) ==
    IF queue = <<>>
    THEN lock' = None /\ stage' = "free" /\ waiters' = <<>>
    ELSE lock' = Head(queue) /\ stage' = "entered" /\ waiters' = Tail(queue)

-----------------------------------------------------------------------------
\* async_start has observed the site, subscribed and set _started; it still holds
\* the lock while it persists.
Init ==
    /\ started = TRUE /\ subscribed = TRUE
    /\ inputVersion = 0 /\ observedVersion = 0
    /\ callbacks = 0
    /\ task = [t \in TaskIds |-> "ended"]
    /\ replanTask = None
    /\ lock = Start /\ waiters = <<>> /\ stage = "acting"
    /\ client = [c \in Clients |-> "idle"]
    /\ stop = "idle"

\* async_start returns; with valid inputs it schedules the first replan.
FinishStart ==
    /\ lock = Start
    /\ Release(waiters)
    /\ \/ callbacks < MaxCallbacks /\ callbacks' = callbacks + 1
       \/ UNCHANGED callbacks
    /\ UNCHANGED <<started, subscribed, inputVersion, observedVersion, task, replanTask,
                   client, stop>>

\* A subscribed entity changes: _schedule_replan calls call_soon_threadsafe.
InputChange ==
    /\ inputVersion < MaxInputs
    /\ inputVersion' = inputVersion + 1
    /\ IF subscribed THEN callbacks < MaxCallbacks /\ callbacks' = callbacks + 1
       ELSE UNCHANGED callbacks
    /\ UNCHANGED <<started, subscribed, observedVersion, task, replanTask, lockState,
                   client, stop>>

MayScheduleStopped == replanTask = None \/ ~Live(replanTask)  \* Bug: _started is not looked at.

\* The scheduler is idle when the task it created last is gone or done.
MaySchedule == started /\ (replanTask = None \/ ~Live(replanTask))

\* Bug: a callback that is not used up.
RunCallbackAgain ==
    /\ callbacks' = callbacks - 1
    /\ UNCHANGED <<started, subscribed, inputVersion, observedVersion, task, replanTask,
                   lockState, client, stop>>

\* _async_schedule_replan_on_loop
RunCallback ==
    /\ callbacks > 0
    /\ callbacks' = callbacks - 1
    /\ IF MaySchedule
       THEN \E t \in TaskIds :
               /\ task[t] = "ended"
               /\ task' = [task EXCEPT ![t] = "sleeping"]
               /\ replanTask' = t
       ELSE UNCHANGED <<task, replanTask>>
    /\ UNCHANGED <<started, subscribed, inputVersion, observedVersion, lockState, client, stop>>

\* asyncio.sleep(1) elapses and the task calls async_replan.
WakeUp(t) ==
    /\ task[t] = "sleeping"
    /\ task' = [task EXCEPT ![t] = "waiting"]
    /\ Acquire(t)
    /\ UNCHANGED <<started, subscribed, inputVersion, observedVersion, callbacks, replanTask,
                   client, stop>>

\* A button, a service or the panel calls async_replan.
ClientReplan(c) ==
    /\ client[c] = "idle"
    /\ client' = [client EXCEPT ![c] = "waiting"]
    /\ Acquire(c)
    /\ UNCHANGED <<started, subscribed, inputVersion, observedVersion, loopState, stop>>

\* Bug: a debounced replan decides on the inputs of the previous one.
ObserveCached(p) ==
    /\ lock = p /\ stage = "entered"
    /\ stage' = "acting"
    /\ observedVersion' = IF p \in TaskIds THEN observedVersion ELSE inputVersion
    /\ task' = IF p \in TaskIds THEN [task EXCEPT ![p] = "replanning"] ELSE task
    /\ UNCHANGED <<started, subscribed, inputVersion, callbacks, replanTask, lock, waiters,
                   client, stop>>

\* async_replan with the lock: observe, snapshot, decide, up to the first await.
Observe(p) ==
    /\ lock = p /\ stage = "entered"
    /\ stage' = "acting"
    /\ observedVersion' = inputVersion
    /\ task' = IF p \in TaskIds THEN [task EXCEPT ![p] = "replanning"] ELSE task
    /\ UNCHANGED <<started, subscribed, inputVersion, callbacks, replanTask, lock, waiters,
                   client, stop>>

\* Commands and persistence were awaited; the lock is given up.
Finish(p) ==
    /\ lock = p /\ stage = "acting"
    /\ Release(waiters)
    /\ task' = IF p \in TaskIds THEN [task EXCEPT ![p] = "ended"] ELSE task
    /\ client' = IF p \in Clients THEN [client EXCEPT ![p] = "idle"] ELSE client
    /\ UNCHANGED <<started, subscribed, inputVersion, observedVersion, callbacks, replanTask,
                   stop>>

\* The config entry is unloaded or reloaded.
RequestStop ==
    /\ stop = "idle"
    /\ stop' = "waiting"
    /\ Acquire(Stop)
    /\ UNCHANGED <<started, subscribed, inputVersion, observedVersion, loopState, client>>

\* async_stop with the lock: unsubscribe and cancel the debounced task, which
\* ends it and takes it out of the lock's queue.
StopBody ==
    /\ lock = Stop /\ stage = "entered"
    /\ stage' = "acting"
    /\ started' = FALSE /\ subscribed' = FALSE
    /\ task' = IF replanTask = None THEN task ELSE [task EXCEPT ![replanTask] = "ended"]
    /\ waiters' = IF replanTask = None THEN waiters ELSE RemoveFirst(waiters, replanTask)
    /\ replanTask' = None
    /\ UNCHANGED <<inputVersion, observedVersion, callbacks, lock, client, stop>>

FinishStop ==
    /\ lock = Stop /\ stage = "acting"
    /\ Release(waiters)
    /\ stop' = "stopped"
    /\ UNCHANGED <<started, subscribed, inputVersion, observedVersion, loopState, client>>

Next ==
    \/ FinishStart \/ InputChange \/ RunCallback
    \/ \E t \in TaskIds : WakeUp(t)
    \/ \E c \in Clients : ClientReplan(c)
    \/ \E p \in Clients \cup TaskIds : Observe(p) \/ Finish(p)
    \/ RequestStop \/ StopBody \/ FinishStop

\* The event loop runs what is ready and every awaited call returns: the code
\* bounds none of them, but Home Assistant services and storage do.  Nobody has to
\* change an input, to ask for a replan or to unload the entry.
Fairness ==
    /\ WF_vars(FinishStart) /\ WF_vars(RunCallback)
    /\ \A t \in TaskIds : WF_vars(WakeUp(t))
    /\ \A p \in Clients \cup TaskIds : WF_vars(Observe(p)) /\ WF_vars(Finish(p))
    /\ WF_vars(StopBody) /\ WF_vars(FinishStop)

Spec == Init /\ [][Next]_vars /\ Fairness

-----------------------------------------------------------------------------
(* Properties.                                                             *)

TypeOK ==
    /\ started \in BOOLEAN /\ subscribed \in BOOLEAN
    /\ inputVersion \in 0..MaxInputs
    /\ observedVersion \in 0..inputVersion
    /\ callbacks \in 0..MaxCallbacks
    /\ task \in [TaskIds -> TaskState]
    /\ replanTask \in TaskIds \cup {None}
    /\ lock \in Processes \cup {None}
    /\ waiters \in Seq(Processes)
    /\ stage \in {"free", "entered", "acting"}
    /\ client \in [Clients -> {"idle", "waiting"}]
    /\ stop \in {"idle", "waiting", "stopped"}

\* test_unload_cancels_pending_replan_task: once async_stop ran, no debounced task
\* decides or commands anything, not even from a callback that was in flight or
\* from the queue of the lock.
NoDebouncedReplanAfterStop ==
    [][~started => \A t \in TaskIds : task'[t] # "sleeping" /\ ~Observe(t)]_vars

\* Nobody is left waiting on the lock: direct calls of async_replan return...
ClientsServed == \A c \in Clients : client[c] = "waiting" ~> client[c] = "idle"

\* ...and an unload completes, whatever else is queued.
StopCompletes == stop = "waiting" ~> stop = "stopped"

\* An input that changed before a scheduled replan took its snapshot is decided
\* on, unless the entry is unloaded first.
ScheduledInputSeen ==
    \A v \in 1..MaxInputs :
        (inputVersion >= v /\ \E t \in TaskIds : task[t] \in {"sleeping", "waiting"})
        ~> (observedVersion >= v \/ ~started)

\* coordinator.py:382, "preserving immediate state-driven control": every change
\* of an input is decided on sooner or later, unless the entry is unloaded.
EveryInputSeen ==
    \A v \in 1..MaxInputs : inputVersion >= v ~> (observedVersion >= v \/ ~started)
=============================================================================
