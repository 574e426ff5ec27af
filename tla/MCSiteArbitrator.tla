-------------------------- MODULE MCSiteArbitrator --------------------------
(***************************************************************************)
(* Calls of arbitrate() with three requests.  In a control cycle's calls   *)
(* the site has a fourth load, which does not request: it is stopped or    *)
(* not wanted, and may be running; the first load has no power sensor.     *)
(* The other callers' requests are manual, automatic and of recovery, of   *)
(* both kinds of load, and of loads on the one phase and on none; their    *)
(* decisions cover a site with spare capacity, one with a controlled limit *)
(* and solar, one with phase limits, one with a binary cap, one with a     *)
(* recent start, and one with stale input.                                 *)
(***************************************************************************)
EXTENDS CycleArbitration

MCLoads  == 1..3
MCPhases == {"a"}

MCSiteLoads == 1..4
MCPower     == [l \in MCSiteLoads |-> IF l = 2 THEN 2 ELSE 1]
MCMetered   == {2, 3, 4}
MCMeters    == {-1, 2}
MCLimit     == 3
MCStagger   == 30

\* What a cycle may ask and decide on.
CycleRequests ==
    [ source : {Manual, Automatic}, mandatory : {FALSE}, deadline : {None}, priority : {50},
      fairnessDebt : {0}, requested : 1..2, minimum : {None}, maximum : {None},
      current : 0..2, phase : {None} ]

CycleDecisions ==
    [ at : {0}, snapshotAvailable : BOOLEAN, snapshotAt : {0}, inputAge : {0},
      maxInputAge : {900}, automaticEnabled : {TRUE}, observationReady : BOOLEAN,
      gridImport : {-1, 0, 2}, uncontrolledImport : 0..2, solarGeneration : {0},
      availableSolar : 0..1, hardLimit : {MCLimit}, controlledLimit : {None},
      phaseLimit : {[p \in MCPhases |-> None]}, phaseImport : {[p \in MCPhases |-> 0]},
      startStagger : {MCStagger}, lastAutomaticStartAt : {None},
      maxBinaryLoads : {None}, existingBinaryLoads : 0..1 ]

UserOn  == [state |-> Cycle!On, expired |-> FALSE]
UserOff == [state |-> Cycle!Off, expired |-> FALSE]

\* Boosts of the requesting loads, one of them also expired; the fourth may be off.
MCOverrides ==
    {o \in [MCSiteLoads -> {None, UserOn, [UserOn EXCEPT !.expired = TRUE], UserOff}] :
        /\ o[1] \in {None, UserOn} /\ o[2] # UserOff
        /\ o[3] \in {None, UserOn} /\ o[4] \in {None, UserOff}}

\* A cycle's call, after every observation of the loads.
CycleCall ==
    /\ automatic = [l \in SiteLoads |-> TRUE]
    /\ override \in MCOverrides
    /\ CycleInit

Ask(source, requested) ==
    [ source |-> source, mandatory |-> FALSE, deadline |-> None, priority |-> 50,
      fairnessDebt |-> 0, requested |-> requested, minimum |-> None,
      maximum |-> None, current |-> 0, phase |-> None ]

OtherRequests ==
    { Ask(Manual, 3),
      [Ask(Manual, 2) EXCEPT !.phase = "a"],
      Ask(Automatic, 2),
      Ask(Automatic, 4),
      [Ask(Automatic, 2) EXCEPT !.current = 2, !.phase = "a"],
      [Ask(Automatic, 3) EXCEPT !.mandatory = TRUE, !.deadline = 20],
      [Ask(Automatic, 3) EXCEPT !.deadline = 10, !.priority = 60],
      [Ask(Automatic, 4) EXCEPT !.minimum = 1, !.maximum = 3, !.fairnessDebt = 1],
      [Ask(Automatic, 4) EXCEPT !.maximum = 4, !.phase = "a", !.current = 1],
      Ask(Recovery, 2) }

Site ==
    [ at |-> 10, snapshotAvailable |-> TRUE, snapshotAt |-> 10, inputAge |-> 0,
      maxInputAge |-> 5, automaticEnabled |-> TRUE, observationReady |-> TRUE,
      gridImport |-> 1, uncontrolledImport |-> None, solarGeneration |-> 0,
      availableSolar |-> None, hardLimit |-> 5, controlledLimit |-> None,
      phaseLimit |-> [p \in MCPhases |-> None], phaseImport |-> [p \in MCPhases |-> 0],
      startStagger |-> 0, lastAutomaticStartAt |-> None, maxBinaryLoads |-> None,
      existingBinaryLoads |-> 0 ]

OtherDecisions ==
    { Site,
      [Site EXCEPT !.hardLimit = 9, !.controlledLimit = 4],
      [Site EXCEPT !.controlledLimit = 3, !.availableSolar = 3, !.uncontrolledImport = 0],
      [Site EXCEPT !.solarGeneration = 2, !.gridImport = -2, !.observationReady = FALSE],
      [Site EXCEPT !.hardLimit = 9, !.phaseLimit = [p \in MCPhases |-> 5],
                   !.phaseImport = [p \in MCPhases |-> 2]],
      [Site EXCEPT !.hardLimit = 12, !.maxBinaryLoads = 2, !.existingBinaryLoads = 1],
      [Site EXCEPT !.hardLimit = 12, !.startStagger = 3],
      [Site EXCEPT !.hardLimit = 12, !.startStagger = 3, !.lastAutomaticStartAt = 8],
      [Site EXCEPT !.snapshotAt = 11],
      [Site EXCEPT !.snapshotAt = 4, !.automaticEnabled = FALSE],
      [Site EXCEPT !.uncontrolledImport = 7] }

\* Another call: nothing of a site where no load requests.
OtherCall ==
    /\ decision \in OtherDecisions
    /\ request \in [Loads -> OtherRequests]
    /\ Init
    /\ automatic = [l \in SiteLoads |-> FALSE] /\ override = [l \in SiteLoads |-> None]
    /\ output = [l \in SiteLoads |-> Cycle!Off] /\ seen = [l \in SiteLoads |-> Cycle!Off]
    /\ meter = None /\ wants = {}

MCRequests  == OtherRequests \cup CycleRequests
MCDecisions == OtherDecisions \cup CycleDecisions

\* arbitrate() is a loop without awaits: nothing can keep it from its next step.
MCSpec ==
    (CycleCall \/ OtherCall) /\ [][CycleNext]_cycleVars /\ WF_cycleVars(CycleNext)
=============================================================================
