----------------------------- MODULE SiteControl -----------------------------
(***************************************************************************)
(* The control cycle of one site (coordinator.py): async_replan observes   *)
(* the loads and the grid meter, decides what every load should do, and    *)
(* sends the commands one after the other, awaiting each device, all under *)
(* the coordinator's lock.  Meanwhile the house, the meter, the devices    *)
(* and their owner go on, and users change overrides and automatic control *)
(* between the cycles.                                                     *)
(*                                                                         *)
(* Loads are enabled, binary, without a running actuator test, and share   *)
(* no actuator.  What the policy of a load (solar, schedule, plan, battery *)
(* guard) wants at an instant is arbitrary.  A load id is a number because *)
(* the code breaks ties by id.  There is no clock: a deadline (an expiry,  *)
(* the retry delay, the start stagger) passes by an action of its own.     *)
(***************************************************************************)
EXTENDS Integers, FiniteSets, Functions

CONSTANTS
    Loads,          \* ids of the loads
    Power,          \* expected_power_w of each load, which it also draws
    Metered,        \* loads with a power sensor
    HardLimit,      \* hard_import_limit_w
    BaseLevels,     \* net import of everything else; negative when it exports
    Overridden,     \* bound: the loads users set overrides on
    Adjusted,       \* bound: the loads whose automatic control users change
    Handled,        \* bound: the loads their owner switches by hand
    None

ASSUME LoadsAssumption == Loads \subseteq Nat /\ IsFiniteSet(Loads)
ASSUME PowerAssumption == Power \in [Loads -> Nat \ {0}] /\ Metered \subseteq Loads
ASSUME BoundsAssumption == Overridden \cup Adjusted \cup Handled \subseteq Loads
ASSUME SiteAssumption  == HardLimit \in Nat \ {0} /\ BaseLevels \subseteq Int

On  == "on"
Off == "off"
Unknown   == "unknown"
Automatic == "automatic"
Manual    == "manual"

VARIABLES
    automatic,      \* automatic_control of each load's configuration
    override,       \* recovery["overrides"]: None or what the user asked
    backoff,        \* last_control_attempt is younger than actuator_retry_seconds
    clearing,       \* loads between the two critical sections of
                    \* async_set_automatic_control(enabled=True)
    output,         \* the physical output of each load
    base,           \* the present base level
    meter,          \* the grid sensor's last reading; None when unavailable
    surprise,       \* somebody else added consumption the meter has not shown
    awaiting,       \* the command whose device call is being awaited, or None
    cycle           \* the running async_replan, None between cycles:
                    \*   feedback       _feedback, read when it began
                    \*   ready, safe    _observation_ready, hard_safety_ok
                    \*   todo           the commands still to apply
                    \*   stale          it read less import than there was
                    \*   releaseFailed  a stop was refused or not confirmed
                    \*   reconfigured   loads whose form was saved meanwhile

user  == <<automatic, override, clearing>>
house == <<output, base, meter, surprise>>
vars  == <<user, house, backoff, awaiting, cycle>>

OverrideRecord == [state : {On, Off}, expired : BOOLEAN]
Command == [load : Loads, enabled : BOOLEAN, source : {Automatic, Manual},
            requested : BOOLEAN, automatic : BOOLEAN]
Reading == {On, Off, Unknown}

CycleRecord ==
    [feedback : [Loads -> Reading], ready : BOOLEAN, safe : BOOLEAN, todo : SUBSET Command,
     stale : BOOLEAN, releaseFailed : BOOLEAN, reconfigured : SUBSET Loads]

ASSUME NoneAssumption ==
    None \notin Int \cup OverrideRecord \cup Command \cup CycleRecord \cup {Automatic, Manual}

AtLeastZero(x) == IF x > 0 THEN x ELSE 0
Total(S)       == SumFunctionOnSet(Power, S)
Running        == {l \in Loads : output[l] = On}
Flow           == base + Total(Running)

-----------------------------------------------------------------------------
(* The decision of a cycle, from what it has just observed.                *)

\* _active_overrides(purge_expired=True): an expired record is gone.
Purged(l) == IF override[l] # None /\ override[l].expired THEN None ELSE override[l]

\* hard_safety_ok
HardSafetyOk == meter # None /\ meter <= HardLimit

\* Where a request comes from; None for a load that makes no request.
RequestSource(l, wants) ==
    IF Purged(l) # None
    THEN IF Purged(l).state = On THEN Manual ELSE None
    ELSE IF automatic[l] /\ l \in wants THEN Automatic ELSE None

Requesting(wants) == {l \in Loads : RequestSource(l, wants) # None}

\* Bug: the power of every running load is taken out, requested or not.
AvailableToAll(wants, seen) ==
    LET managed == Total({l \in Metered : seen[l] = On}) IN
    AtLeastZero(HardLimit - AtLeastZero(meter - managed) + AtLeastZero(-meter))

\* Import left for the requests: their own measured power is taken out of the
\* reading, export is added.
Available(wants, seen) ==
    LET managed == Total({l \in Requesting(wants) \cap Metered : seen[l] = On}) IN
    AtLeastZero(HardLimit - AtLeastZero(meter - managed) + AtLeastZero(-meter))

\* The arbitrator's order: manual requests first, then by id.
Precedes(m, l, wants) ==
    IF RequestSource(m, wants) = RequestSource(l, wants) THEN m < l
    ELSE RequestSource(m, wants) = Manual

\* The arbitrator takes a load that shows no power for a start.
TakenForStart(l, wants) ==
    RequestSource(l, wants) = Automatic /\ ~(output[l] = On /\ l \in Metered)

\* The requests arbitrate() grants: each one that still fits after those before it,
\* and at most one start of an automatic request.
IsGrant(granted, wants, seen) ==
    \A l \in Requesting(wants) :
        LET before == {m \in granted : Precedes(m, l, wants)} IN
        l \in granted <=>
            /\ meter # None
            /\ Total(before) + Power[l] <= Available(wants, seen)
            /\ ~(TakenForStart(l, wants) /\ \E m \in before : TakenForStart(m, wants))

\* A stop without a request is ordered by an Off override, or by automatic control
\* that does not want the load and has its inputs.
StopSource(l, wants) ==
    IF Purged(l) # None THEN IF Purged(l).state = Off THEN Manual ELSE None
    ELSE IF automatic[l] /\ l \notin wants /\ meter # None THEN Automatic ELSE None

Commands(wants, granted) ==
    {[load |-> l, enabled |-> l \in granted, source |-> RequestSource(l, wants),
      requested |-> TRUE, automatic |-> automatic[l]] : l \in Requesting(wants)}
    \cup
    {[load |-> l, enabled |-> FALSE, source |-> StopSource(l, wants),
      requested |-> FALSE, automatic |-> automatic[l]] :
         l \in {k \in Loads : StopSource(k, wants) # None}}

\* _proposal_order: stops before starts.
ProposalOrder(a, b) ==
    IF a.enabled = b.enabled THEN a.load < b.load ELSE b.enabled

-----------------------------------------------------------------------------
Init ==
    /\ automatic \in [Loads -> BOOLEAN]
    /\ override = [l \in Loads |-> None]
    /\ backoff = [l \in Loads |-> FALSE]
    /\ clearing = {}
    /\ output \in [Loads -> {On, Off}]
    /\ base \in BaseLevels /\ meter \in {None, Flow} /\ surprise = FALSE
    /\ awaiting = None /\ cycle = None

(* The cycle.                                                              *)

\* Everything up to the first command: observe, purge, request, arbitrate, sort.
BeginCycle ==
    /\ cycle = None
    /\ \E seen \in [Loads -> Reading],
          wants \in SUBSET {l \in Loads : automatic[l] /\ Purged(l) = None} :
       \E granted \in SUBSET Requesting(wants) :
          /\ \A l \in Loads : seen[l] \in {output[l], Unknown}
          /\ IsGrant(granted, wants, seen)
          /\ cycle' =
                [ feedback |-> seen, ready |-> meter # None, safe |-> HardSafetyOk,
                  todo |-> Commands(wants, granted),
                  stale |-> meter # None /\ meter < Flow,
                  releaseFailed |-> FALSE, reconfigured |-> {} ]
    /\ override' = [l \in Loads |-> Purged(l)]
    /\ UNCHANGED <<automatic, clearing, house, backoff, awaiting>>

\* The coordinator lets other tasks of the event loop run.
AtAwait == cycle = None \/ awaiting # None

IsNext(c)  == \A d \in cycle.todo \ {c} : ProposalOrder(c, d)
Target(c)  == IF c.enabled THEN On ELSE Off
Matches(c) == cycle.feedback[c.load] = Target(c)

\* Bug: the gate does not ask for inputs.
AuthorizedBlind(c) ==
    /\ c.source = Automatic => c.automatic
    /\ c.enabled => cycle.safe

\* Bug: the gate holds back stops as well as starts.
AuthorizedWhenSafe(c) ==
    /\ c.source = Automatic => c.automatic /\ cycle.ready
    /\ cycle.safe

\* authorize_command
Authorized(c) ==
    /\ c.source = Automatic => c.automatic /\ cycle.ready
    /\ c.enabled => cycle.safe

\* The cycle after command c, which left its load with this feedback.
Advance(c, seen) ==
    cycle' = [cycle EXCEPT
        !.todo = @ \ {c}, !.feedback[c.load] = seen,
        !.releaseFailed = @ \/ (~c.enabled /\ seen # Off)]

\* _async_apply_authorized returns without calling the device.
SkipCommand ==
    /\ cycle # None /\ awaiting = None
    /\ \E c \in cycle.todo :
          /\ IsNext(c)
          /\ ~Authorized(c) \/ Matches(c) \/ backoff[c.load]
          /\ Advance(c, cycle.feedback[c.load])
    /\ UNCHANGED <<user, house, backoff, awaiting>>

SendCommand ==
    /\ cycle # None /\ awaiting = None
    /\ \E c \in cycle.todo :
          /\ IsNext(c)
          /\ Authorized(c) /\ ~Matches(c) /\ ~backoff[c.load]
          /\ backoff' = [backoff EXCEPT ![c.load] = TRUE]
          /\ awaiting' = c
    /\ UNCHANGED <<user, house, cycle>>

CommandConfirmed ==
    /\ awaiting # None /\ awaiting' = None
    /\ output' = [output EXCEPT ![awaiting.load] = Target(awaiting)]
    /\ Advance(awaiting, Target(awaiting))
    /\ UNCHANGED <<user, base, meter, surprise, backoff>>

\* The call raises and leaves _feedback alone, or fresh feedback contradicts the
\* command; either way the output may or may not have moved.
CommandFails ==
    /\ awaiting # None /\ awaiting' = None
    /\ \E actual \in {output[awaiting.load], Target(awaiting)} :
          output' = [output EXCEPT ![awaiting.load] = actual]
    /\ \E seen \in Reading \ {Target(awaiting)} : Advance(awaiting, seen)
    /\ UNCHANGED <<user, base, meter, surprise, backoff>>

\* Bug: the lock is given up with commands still to apply.
EndCycleEarly ==
    /\ cycle # None
    /\ cycle' = None
    /\ UNCHANGED <<user, house, backoff, awaiting>>

EndCycle ==
    /\ cycle # None /\ cycle.todo = {}
    /\ cycle' = None
    /\ UNCHANGED <<user, house, backoff, awaiting>>

(* Users.  Each takes the lock, except the native configuration form.      *)

\* Bug: the override is written without the lock.
StartOverrideUnlocked(l) ==
    /\ AtAwait
    /\ \E state \in {On, Off} :
          override' = [override EXCEPT ![l] = [state |-> state, expired |-> FALSE]]
    /\ UNCHANGED <<automatic, clearing, house, backoff, awaiting, cycle>>

StartOverride(l) ==
    /\ cycle = None
    /\ \E state \in {On, Off} :
          override' = [override EXCEPT ![l] = [state |-> state, expired |-> FALSE]]
    /\ UNCHANGED <<automatic, clearing, house, backoff, awaiting, cycle>>

ClearOverride(l) ==
    /\ cycle = None /\ override[l] # None
    /\ override' = [override EXCEPT ![l] = None]
    /\ UNCHANGED <<automatic, clearing, house, backoff, awaiting, cycle>>

\* Bug: the configuration is written without the lock.
SetAutomaticUnlocked(l) ==
    /\ AtAwait
    /\ automatic' = [automatic EXCEPT ![l] = ~@]
    /\ clearing' = IF automatic[l] THEN clearing ELSE clearing \cup {l}
    /\ UNCHANGED <<override, house, backoff, awaiting, cycle>>

\* async_update_load, the first critical section of async_set_automatic_control.
SetAutomatic(l) ==
    /\ cycle = None
    /\ automatic' = [automatic EXCEPT ![l] = ~@]
    /\ clearing' = IF automatic[l] THEN clearing ELSE clearing \cup {l}
    /\ UNCHANGED <<override, house, backoff, awaiting, cycle>>

\* The second one, when control was enabled.
ClearAfterEnable(l) ==
    /\ cycle = None /\ l \in clearing
    /\ clearing' = clearing \ {l}
    /\ override' = [override EXCEPT ![l] = None]
    /\ UNCHANGED <<automatic, house, backoff, awaiting, cycle>>

\* LoadSubentryFlow.async_step_reconfigure writes the configuration without the lock.
Reconfigure(l) ==
    /\ AtAwait
    /\ automatic' = [automatic EXCEPT ![l] = ~@]
    /\ cycle' = IF cycle = None THEN None
                ELSE [cycle EXCEPT !.reconfigured = @ \cup {l}]
    /\ UNCHANGED <<override, clearing, house, backoff, awaiting>>

(* Deadlines pass.                                                         *)

OverrideExpires(l) ==
    /\ override[l] # None /\ ~override[l].expired
    /\ override' = [override EXCEPT ![l].expired = TRUE]
    /\ UNCHANGED <<automatic, clearing, house, backoff, awaiting, cycle>>

BackoffEnds(l) ==
    /\ backoff[l]
    /\ backoff' = [backoff EXCEPT ![l] = FALSE]
    /\ UNCHANGED <<user, house, awaiting, cycle>>

(* The house.                                                              *)

BaseChanges ==
    /\ base' \in BaseLevels \ {base}
    /\ surprise' = (surprise \/ base' > base)
    /\ UNCHANGED <<user, output, meter, backoff, awaiting, cycle>>

\* A reading during a cycle comes too late for it.
MeterReports ==
    /\ AtAwait
    /\ meter' = Flow
    /\ surprise' = (surprise /\ cycle # None)
    /\ UNCHANGED <<user, output, base, backoff, awaiting, cycle>>

MeterLost ==
    /\ AtAwait
    /\ meter # None
    /\ meter' = None
    /\ UNCHANGED <<user, output, base, surprise, backoff, awaiting, cycle>>

OwnerSwitches(l) ==
    /\ output' = [output EXCEPT ![l] = IF @ = On THEN Off ELSE On]
    /\ surprise' = (surprise \/ output[l] = Off)
    /\ UNCHANGED <<user, base, meter, backoff, awaiting, cycle>>

-----------------------------------------------------------------------------
CycleStep  == BeginCycle \/ SkipCommand \/ SendCommand \/ CommandConfirmed
              \/ CommandFails \/ EndCycle
UserStep   == \/ \E l \in Overridden : StartOverride(l) \/ ClearOverride(l)
              \/ \E l \in Adjusted : SetAutomatic(l) \/ ClearAfterEnable(l) \/ Reconfigure(l)
TimeStep   == \E l \in Loads : OverrideExpires(l) \/ BackoffEnds(l)
HouseStep  == BaseChanges \/ MeterReports \/ MeterLost \/ \E l \in Handled : OwnerSwitches(l)

Next == CycleStep \/ UserStep \/ TimeStep \/ HouseStep
Spec == Init /\ [][Next]_vars

\* A cycle that has begun runs to its end, a retry delay ends, and no device refuses
\* the same command for ever.  Nothing makes a cycle begin, and an override need not
\* expire: the code has no timer for the one and accepts the other without a limit.
FairSpec ==
    /\ Spec
    /\ WF_vars(SkipCommand) /\ WF_vars(SendCommand)
    /\ WF_vars(CommandConfirmed \/ CommandFails) /\ WF_vars(EndCycle)
    /\ \A l \in Loads :
          WF_vars(BackoffEnds(l)) /\ SF_vars(CommandConfirmed /\ awaiting.load = l)

-----------------------------------------------------------------------------
(* Properties.                                                             *)

TypeOK ==
    /\ automatic \in [Loads -> BOOLEAN]
    /\ override \in [Loads -> OverrideRecord \cup {None}]
    /\ backoff \in [Loads -> BOOLEAN] /\ clearing \subseteq Loads
    /\ output \in [Loads -> {On, Off}]
    /\ base \in BaseLevels /\ meter \in Int \cup {None}
    /\ surprise \in BOOLEAN /\ awaiting \in Command \cup {None}
    /\ cycle \in CycleRecord \cup {None}
    /\ awaiting # None => cycle # None /\ awaiting \in cycle.todo

\* A start that is being sent keeps the site's import within the hard limit, if the
\* cycle read all there was, nobody else has added consumption since, and every
\* stop it ordered before worked.
StartsWithinHardLimit ==
    awaiting # None /\ awaiting.enabled /\ ~surprise /\ ~cycle.stale /\ ~cycle.releaseFailed =>
        base + Total(Running \cup {awaiting.load}) <= HardLimit

\* The command being sent answers the override of its load as it is now: a manual
\* start has an On, an Off is never overruled, and automatic control yields to both.
\* Only a user between the cycles, never one during it, may change that.
CommandsFollowOverrides ==
    awaiting # None =>
        LET o == override[awaiting.load] IN
        IF o = None THEN awaiting.source = Automatic
        ELSE awaiting.source = Manual /\ (o.state = Off => ~awaiting.enabled)

\* CONTROL_MODEL.md:167 under the lock: an automatic command goes only to a load
\* whose automatic control is on, unless its form was saved during the cycle.
AutomaticAuthority ==
    awaiting # None /\ awaiting.source = Automatic =>
        automatic[awaiting.load] \/ awaiting.load \in cycle.reconfigured

\* Without a current grid reading nothing is started, and nothing automatic is sent.
QuietWithoutInputs ==
    awaiting # None /\ ~cycle.ready => awaiting.source = Manual /\ ~awaiting.enabled

\* As long as cycles go on beginning, a lasting Off override turns the load off
\* again and again, whatever its owner does, through failed calls, retry delays, lost
\* readings and an overloaded site.
OffIsEnforced ==
    []<><<BeginCycle>>_vars =>
        \A l \in Loads :
            <>[](override[l] # None /\ override[l].state = Off) => []<>(output[l] = Off)

\* CONTROL_MODEL.md:124, with automatic control off "timed expiry turns off then
\* returns NOT_CONTROLLED": the cycle that retires a boost stops the load it left on.
BoostEnds ==
    [][BeginCycle =>
        \A l \in Loads :
            /\ override[l] = [state |-> On, expired |-> TRUE] /\ ~automatic[l]
            /\ cycle'.feedback[l] = On
            => \E c \in cycle'.todo : c.load = l /\ ~c.enabled]_vars
=============================================================================
