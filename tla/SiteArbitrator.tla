--------------------------- MODULE SiteArbitrator ---------------------------
(***************************************************************************)
(* One arbitration decision of controller/arbitrator.py.                   *)
(*                                                                         *)
(* arbitrate() walks the requests in the order of _arbitration_order_key   *)
(* and answers each with a grant or a denial while it keeps running totals *)
(* of what was already promised.  Every iteration of that loop is one step *)
(* here, so the invariants below hold between any two answers and not only *)
(* for the finished result.                                                *)
(*                                                                         *)
(* Powers are whole units: the floating-point tolerances of the code       *)
(* (1e-9 and 1e-6) have no counterpart.  Instants are integers.  A load id *)
(* is a natural number, because the code breaks ties by comparing ids.     *)
(***************************************************************************)
EXTENDS Integers, FiniteSets, Functions

CONSTANTS
    Loads,      \* the ids of the loads with a request in this decision
    Phases,     \* electrical phases that a load can be assigned to
    Requests,   \* what a LoadRequest can ask
    Decisions,  \* the observed state and site limits a decision can start from
    None        \* an absent optional value

Automatic == "automatic"
Manual    == "manual"
Safety    == "safety"
Recovery  == "recovery"
CommandSource == {Automatic, Manual, Safety, Recovery}

ReasonCode ==
    { "automatic_disabled", "startup_observing", "input_missing", "input_stale",
      "start_stagger", "max_simultaneous_binary_loads", "phase_limit",
      "hard_site_limit", "controlled_site_limit", "setpoint_bounded",
      "plan_selected" }

Optional(S) == S \cup {None}

\* minimum_power_w and maximum_power_w are both absent for a binary load.
LoadRequest ==
    [ source : CommandSource, mandatory : BOOLEAN, deadline : Optional(Int),
      priority : Int, fairnessDebt : Int, requested : Nat \ {0},
      minimum : Optional(Nat), maximum : Optional(Nat \ {0}),
      current : Nat, phase : Optional(Phases) ]

ArbitrationInput ==
    [ at : Int, snapshotAvailable : BOOLEAN, snapshotAt : Int, inputAge : Nat,
      maxInputAge : Optional(Nat), automaticEnabled : BOOLEAN,
      observationReady : BOOLEAN, gridImport : Int,
      uncontrolledImport : Optional(Int), solarGeneration : Int,
      availableSolar : Optional(Nat), hardLimit : Nat \ {0},
      controlledLimit : Optional(Nat), phaseLimit : [Phases -> Optional(Nat)],
      phaseImport : [Phases -> Int], startStagger : Nat,
      lastAutomaticStartAt : Optional(Int), maxBinaryLoads : Optional(Nat \ {0}),
      existingBinaryLoads : Nat ]

\* A SiteAllocation: the answer to one request.
Allocation == [granted : Nat, solar : Nat, accepted : BOOLEAN, reason : ReasonCode]

ASSUME LoadsAssumption     == Loads \subseteq Nat /\ IsFiniteSet(Loads)
ASSUME NoneAssumption      ==
    None \notin Int \cup Phases \cup ReasonCode \cup Allocation \cup {"returned", "raised"}
ASSUME RequestsAssumption  ==
    /\ Requests \subseteq LoadRequest
    /\ \A r \in Requests : r.minimum # None =>
          r.minimum <= (IF r.maximum # None THEN r.maximum ELSE r.requested)
ASSUME DecisionsAssumption ==
    /\ Decisions \subseteq ArbitrationInput
    /\ \A d \in Decisions : d.controlledLimit # None => d.controlledLimit <= d.hardLimit

VARIABLES
    decision,                \* the ArbitrationInput being decided
    request,                 \* the LoadRequest of each load
    pending,                 \* loads the loop has not reached yet
    totalGranted,            \* total_granted
    solarRemaining,          \* solar_remaining
    phaseGranted,            \* phase_granted
    activeBinaryLoadCount,   \* active_binary_load_count
    lastAutomaticStartAt,    \* last_automatic_start_at
    allocations,             \* the answers given so far
    outcome                  \* None until arbitrate() returns or raises

input  == <<decision, request>>
totals == <<totalGranted, solarRemaining, phaseGranted, activeBinaryLoadCount,
            lastAutomaticStartAt>>
vars   == <<input, totals, pending, allocations, outcome>>

-----------------------------------------------------------------------------
(* Arithmetic and quantities derived once, before the loop.                *)

AtLeastZero(x) == IF x > 0 THEN x ELSE 0
Lesser(a, b)   == IF a <= b THEN a ELSE b

BaselineImport ==
    AtLeastZero(IF decision.uncontrolledImport = None
                THEN decision.gridImport ELSE decision.uncontrolledImport)

AvailableSolar ==
    IF decision.availableSolar = None
    THEN AtLeastZero(decision.solarGeneration) ELSE decision.availableSolar

HardLimit == decision.hardLimit

ControlledLimit ==
    IF decision.controlledLimit # None THEN decision.controlledLimit ELSE HardLimit

\* Import that the site may still carry under a limit before anything is granted.
Capacity(limit) == AtLeastZero(limit - BaselineImport + AvailableSolar)

IsBinary(r)     == r.minimum = None /\ r.maximum = None
MaximumGrant(r) == IF r.maximum # None THEN r.maximum ELSE r.requested
MinimumGrant(r) == IF r.minimum # None THEN r.minimum
                   ELSE IF IsBinary(r) THEN r.requested ELSE 0
Target(r)       == Lesser(r.requested, MaximumGrant(r))
IsRunning(r)    == r.current > 0

-----------------------------------------------------------------------------
(* The order of the loop: manual first, then mandatory, earliest deadline, *)
(* highest priority, largest fairness debt, smallest id.                   *)

\* Bug: manual requests have no precedence.
OrderKeyManualEqual(l) ==
    LET r == request[l] IN
    << IF r.mandatory THEN 0 ELSE 1, IF r.deadline = None THEN 1 ELSE 0,
       IF r.deadline = None THEN 0 ELSE r.deadline,
       -r.priority, -r.fairnessDebt, l, 0 >>

OrderKey(l) ==
    LET r == request[l] IN
    << IF r.source = Manual THEN 0 ELSE 1,
       IF r.mandatory THEN 0 ELSE 1,
       IF r.deadline = None THEN 1 ELSE 0,
       IF r.deadline = None THEN 0 ELSE r.deadline,
       -r.priority, -r.fairnessDebt, l >>

Before(l, m) ==
    LET a == OrderKey(l)  b == OrderKey(m) IN
    \E i \in 1..7 : a[i] < b[i] /\ \A j \in 1..(i-1) : a[j] = b[j]

\* Bug: the least important request is answered first.
IsNextReversed(l) == l \in pending /\ \A m \in pending \ {l} : Before(m, l)

IsNext(l) == l \in pending /\ \A m \in pending \ {l} : Before(l, m)

-----------------------------------------------------------------------------
(* The checks a request passes before any capacity is considered.          *)

ObservedAge  == decision.at - decision.snapshotAt
EffectiveAge == IF decision.inputAge > ObservedAge THEN decision.inputAge ELSE ObservedAge

InputReason ==
    IF ~decision.snapshotAvailable THEN "input_missing"
    ELSE IF ObservedAge < 0 THEN "input_stale"
    ELSE IF decision.maxInputAge # None /\ EffectiveAge > decision.maxInputAge
         THEN "input_stale"
    ELSE None

PreconditionReason(r) ==
    IF r.source \in {Automatic, Recovery} /\ ~decision.automaticEnabled
    THEN "automatic_disabled"
    ELSE IF r.source \in {Automatic, Recovery} /\ ~decision.observationReady
    THEN "startup_observing"
    ELSE InputReason

IsAutomaticStart(r) == r.source = Automatic /\ ~IsRunning(r)

\* Bug: starts of this decision are not counted.
StaggerBlocksAcrossOnly(r) ==
    /\ IsAutomaticStart(r)
    /\ decision.lastAutomaticStartAt # None
    /\ decision.at - decision.lastAutomaticStartAt < decision.startStagger

StaggerBlocks(r) ==
    /\ IsAutomaticStart(r)
    /\ lastAutomaticStartAt # None
    /\ decision.at - lastAutomaticStartAt < decision.startStagger

\* Bug: off by one.
WouldExceedBinaryCountLate(r) ==
    /\ decision.maxBinaryLoads # None
    /\ IsBinary(r) /\ ~IsRunning(r)
    /\ activeBinaryLoadCount > decision.maxBinaryLoads

WouldExceedBinaryCount(r) ==
    /\ decision.maxBinaryLoads # None
    /\ IsBinary(r) /\ ~IsRunning(r)
    /\ activeBinaryLoadCount >= decision.maxBinaryLoads

-----------------------------------------------------------------------------
(* Capacity.                                                               *)

\* Bug: every request is offered the whole capacity.
HeadroomPerRequest(limit) == AtLeastZero(limit - BaselineImport + AvailableSolar)

Headroom(limit) ==
    AtLeastZero(limit - BaselineImport + AvailableSolar - totalGranted)

LimitFor(r) == IF r.source # Automatic THEN HardLimit ELSE ControlledLimit

PhaseLimited(r) == r.phase # None /\ decision.phaseLimit[r.phase] # None

PhaseCapacity(p) == AtLeastZero(decision.phaseLimit[p] - AtLeastZero(decision.phaseImport[p]))

\* Bug: grants of this decision do not load the phase.
PhaseHeadroomPerRequest(r) ==
    AtLeastZero(decision.phaseLimit[r.phase] - AtLeastZero(decision.phaseImport[r.phase]))

PhaseHeadroom(r) ==
    AtLeastZero(decision.phaseLimit[r.phase]
                - AtLeastZero(decision.phaseImport[r.phase])
                - phaseGranted[r.phase])

EffectiveHeadroom(r) ==
    IF PhaseLimited(r) THEN Lesser(Headroom(LimitFor(r)), PhaseHeadroom(r))
    ELSE Headroom(LimitFor(r))

GrantFor(r) ==
    LET bounded == Lesser(Target(r), EffectiveHeadroom(r)) IN
    IF IsBinary(r) THEN IF EffectiveHeadroom(r) >= Target(r) THEN Target(r) ELSE 0
    ELSE IF bounded >= MinimumGrant(r) THEN bounded ELSE 0

CapacityReason(r) ==
    IF PhaseLimited(r) /\ PhaseHeadroom(r) < MinimumGrant(r) THEN "phase_limit"
    ELSE IF Headroom(HardLimit) < MinimumGrant(r) THEN "hard_site_limit"
    ELSE IF ControlledLimit < HardLimit /\ Headroom(LimitFor(r)) < MinimumGrant(r)
         THEN "controlled_site_limit"
    ELSE "hard_site_limit"

\* The part of a grant that the solar surplus covers.
SolarShareOfAll(grant) == Lesser(grant, AvailableSolar)  \* Bug: surplus is offered twice.
SolarShareWhole(grant) == grant                          \* Bug: more than there is.
SolarShare(grant) == Lesser(grant, solarRemaining)

\* Why the request gets nothing, or None when it gets its grant.
DenialReason(r) ==
    IF PreconditionReason(r) # None THEN PreconditionReason(r)
    ELSE IF StaggerBlocks(r) THEN "start_stagger"
    ELSE IF WouldExceedBinaryCount(r) THEN "max_simultaneous_binary_loads"
    ELSE IF GrantFor(r) = 0 THEN CapacityReason(r)
    ELSE None

-----------------------------------------------------------------------------
Init ==
    /\ decision \in Decisions
    /\ request \in [Loads -> Requests]
    /\ pending = Loads
    /\ totalGranted = 0
    /\ solarRemaining = AvailableSolar
    /\ phaseGranted = [p \in Phases |-> 0]
    /\ activeBinaryLoadCount =
          decision.existingBinaryLoads
          + Cardinality({l \in Loads : IsBinary(request[l]) /\ IsRunning(request[l])})
    /\ lastAutomaticStartAt = decision.lastAutomaticStartAt
    /\ allocations = [l \in Loads |-> None]
    /\ outcome = None

Deny(l) ==
    /\ IsNext(l)
    /\ DenialReason(request[l]) # None
    /\ pending' = pending \ {l}
    /\ allocations' = [allocations EXCEPT ![l] =
          [granted |-> 0, solar |-> 0, accepted |-> FALSE,
           reason |-> DenialReason(request[l])]]
    /\ UNCHANGED <<input, totals, outcome>>

Accept(l) ==
    LET r == request[l]
        grant == GrantFor(r)
        solarGrant == SolarShare(grant) IN
    /\ IsNext(l)
    /\ DenialReason(r) = None
    /\ pending' = pending \ {l}
    /\ solarRemaining' = solarRemaining - solarGrant
    /\ totalGranted' = totalGranted + grant
    /\ phaseGranted' = IF r.phase = None THEN phaseGranted
                       ELSE [phaseGranted EXCEPT ![r.phase] = @ + grant]
    /\ activeBinaryLoadCount' =
          IF IsBinary(r) /\ ~IsRunning(r) THEN activeBinaryLoadCount + 1
          ELSE activeBinaryLoadCount
    /\ lastAutomaticStartAt' =
          IF IsAutomaticStart(r) THEN decision.at ELSE lastAutomaticStartAt
    /\ allocations' = [allocations EXCEPT ![l] =
          [granted |-> grant, solar |-> solarGrant, accepted |-> TRUE,
           reason |-> IF grant < Target(r) THEN "setpoint_bounded" ELSE "plan_selected"]]
    /\ UNCHANGED <<input, outcome>>

\* _assert_safety_invariants: the code raises instead of returning a breach.
SafetyInvariantsHold ==
    /\ totalGranted <= Capacity(HardLimit)
    /\ AvailableSolar - solarRemaining <= AvailableSolar

Finish ==
    /\ pending = {} /\ outcome = None
    /\ outcome' = IF SafetyInvariantsHold THEN "returned" ELSE "raised"
    /\ UNCHANGED <<input, totals, pending, allocations>>

Next == (\E l \in Loads : Deny(l) \/ Accept(l)) \/ Finish

\* arbitrate() is a loop without awaits: nothing can keep it from its next step.
Spec == Init /\ [][Next]_vars /\ WF_vars(Next)

-----------------------------------------------------------------------------
(* Properties.                                                             *)

TypeOK ==
    /\ decision \in Decisions
    /\ request \in [Loads -> Requests]
    /\ pending \subseteq Loads
    /\ totalGranted \in Nat
    /\ solarRemaining \in Nat
    /\ phaseGranted \in [Phases -> Nat]
    /\ activeBinaryLoadCount \in Nat
    /\ lastAutomaticStartAt \in Optional(Int)
    /\ allocations \in [Loads -> Optional(Allocation)]
    /\ outcome \in {None, "returned", "raised"}

Accepted(l) == allocations[l] # None /\ allocations[l].accepted
Granted(l)  == IF allocations[l] = None THEN 0 ELSE allocations[l].granted

\* total_granted_w of the result, here of any set of loads: the sum of their answers,
\* whatever the loop has counted.
GrantedTo(S) == SumFunctionOnSet([l \in Loads |-> Granted(l)], S)

\* arbitrator.py:432 fails closed when the loop's arithmetic would breach the
\* hard site limit.  It never has to: no run of the loop promises more than the
\* hard capacity, at any point between two answers.
HardLimitRespected ==
    /\ GrantedTo(Loads) <= Capacity(HardLimit)
    /\ outcome # "raised"

\* Manual requests are bounded by the hard limit only, automatic ones by the
\* controlled limit.  Because manual requests are answered first, a decision that
\* granted an automatic request keeps the whole site under the controlled limit.
ControlledLimitRespected ==
    (/\ \E l \in Loads : Accepted(l) /\ request[l].source = Automatic
     /\ \A l \in Loads : Accepted(l) => request[l].source \in {Automatic, Manual})
    => GrantedTo(Loads) <= Capacity(ControlledLimit)

\* Loads that share a phase never get more together than its limit leaves.
PhaseLimitRespected ==
    \A p \in Phases : decision.phaseLimit[p] # None =>
        GrantedTo({l \in Loads : request[l].phase = p}) <= PhaseCapacity(p)

\* max_simultaneous_binary_loads: new starts never take the number of running
\* fixed-power loads over the cap; only loads that already ran may exceed it.
BinaryCapRespected ==
    (/\ decision.maxBinaryLoads # None
     /\ \E l \in Loads : Accepted(l) /\ IsBinary(request[l]) /\ ~IsRunning(request[l]))
    => decision.existingBinaryLoads
         + Cardinality({l \in Loads : /\ IsBinary(request[l])
                                      /\ IsRunning(request[l]) \/ Accepted(l)})
       <= decision.maxBinaryLoads

\* start_stagger: with a stagger interval one decision starts at most one load
\* automatically, and none within the interval after the last known start.
StartsStaggered ==
    \A l \in Loads :
        (Accepted(l) /\ IsAutomaticStart(request[l]) /\ decision.startStagger > 0) =>
            /\ \A m \in Loads : Accepted(m) /\ IsAutomaticStart(request[m]) => l = m
            /\ decision.lastAutomaticStartAt # None =>
                  decision.at - decision.lastAutomaticStartAt >= decision.startStagger

\* The smallest grant that would have been an answer, given enough capacity.
Need(r) == IF IsBinary(r) \/ MinimumGrant(r) > 0 THEN MinimumGrant(r) ELSE 1

CapacityReasons == {"phase_limit", "hard_site_limit", "controlled_site_limit"}

\* No priority inversion: when a request is denied for lack of capacity, a later
\* one of the same kind on the same phase is accepted only if it needs less.
NoPriorityInversion ==
    \A l, m \in Loads :
        (/\ Before(l, m) /\ Accepted(m)
         /\ allocations[l] # None /\ allocations[l].reason \in CapacityReasons
         /\ request[l].source = request[m].source
         /\ request[l].phase = request[m].phase
         /\ Target(request[l]) >= MinimumGrant(request[l]))
        => Need(request[m]) < Need(request[l])

\* Refinement: the hard site capacity and the observed solar surplus are each a
\* PowerPool from which a load draws at most once and never more than is left.
HardPool == INSTANCE PowerPool WITH
    free  <- Capacity(HardLimit) - totalGranted,
    share <- [l \in Loads |-> IF allocations[l] = None THEN None ELSE allocations[l].granted]

SolarPool == INSTANCE PowerPool WITH
    free  <- solarRemaining,
    share <- [l \in Loads |-> IF allocations[l] = None THEN None ELSE allocations[l].solar]

\* arbitrate() implements a pool of solar surplus.
ImplementsSolarPool == SolarPool!Spec
=============================================================================
