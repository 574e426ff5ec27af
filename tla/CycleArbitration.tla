-------------------------- MODULE CycleArbitration --------------------------
(***************************************************************************)
(* The arbitrator as a control cycle calls it: the loop of SiteArbitrator  *)
(* on the arguments that async_replan makes of what it has observed.       *)
(* SiteControl replaces that call by IsGrant, one formula for the set of   *)
(* loads that arbitrate() accepts; here the call is made, and the formula  *)
(* is what its answers have to satisfy.                                    *)
(*                                                                         *)
(* arbitrate() never awaits, so the site stands still while it runs.  As   *)
(* in SiteControl, the loads are binary, without phase, deadline or cap,   *)
(* all of one priority; a start stagger is set, as it is by default, and a *)
(* reading too old to be used is no reading.                               *)
(***************************************************************************)
EXTENDS SiteArbitrator

CONSTANTS
    SiteLoads,     \* ids of the site's loads; those in Loads make a request
    Power,         \* expected_power_w of each load
    Metered,       \* loads with a power sensor
    ImportLimit,   \* hard_import_limit_w
    Meters,        \* what the grid meter may read
    Stagger        \* start_stagger_s

ASSUME SiteLoadsAssumption == SiteLoads \subseteq Nat /\ IsFiniteSet(SiteLoads)
ASSUME PowerAssumption     == Power \in [SiteLoads -> Nat \ {0}] /\ Metered \subseteq SiteLoads
ASSUME SiteAssumption      ==
    ImportLimit \in Nat \ {0} /\ Meters \subseteq Int /\ Stagger \in Nat \ {0}
ASSUME SourcesAssumption   == None \notin CommandSource

VARIABLES
    automatic,   \* as in SiteControl
    override,
    output,
    meter,
    seen,        \* _feedback, as this cycle has observed it
    wants        \* loads whose policy wants them on

site      == <<automatic, override, output, meter, seen, wants>>
cycleVars == <<site, vars>>

\* The decision of a cycle reads nothing of what is left out here.
Cycle == INSTANCE SiteControl WITH
    Loads <- SiteLoads, HardLimit <- ImportLimit,
    BaseLevels <- {}, Overridden <- {}, Adjusted <- {}, Handled <- {},
    backoff <- None, clearing <- {}, base <- 0, surprise <- FALSE,
    awaiting <- None, cycle <- None

\* Power that a request's own load already draws, by its sensor: current_power_w.
Draws(l) == IF output[l] = Cycle!On /\ l \in Metered THEN Power[l] ELSE 0

\* _load_request, of a load that has an expected power and no requirements.
CycleRequest(l) ==
    [ source |-> Cycle!RequestSource(l, wants), mandatory |-> FALSE, deadline |-> None,
      priority |-> 50, fairnessDebt |-> 0, requested |-> Power[l],
      minimum |-> None, maximum |-> None, current |-> Draws(l), phase |-> None ]

\* Bug: the power of every running load is taken out, requested or not.
ManagedPowerOfAll ==
    Cycle!Total({l \in SiteLoads \cap Metered : seen[l] = Cycle!On})

\* managed_power: what the requesting loads draw that were confirmed on.
ManagedPower ==
    Cycle!Total({l \in Loads \cap Metered : seen[l] = Cycle!On})

\* The ArbitrationInput of async_replan.
CycleDecision ==
    LET import == IF meter = None THEN 0 ELSE meter IN
    [ at |-> 0, snapshotAvailable |-> meter # None, snapshotAt |-> 0, inputAge |-> 0,
      maxInputAge |-> 900, automaticEnabled |-> TRUE, observationReady |-> meter # None,
      gridImport |-> import, uncontrolledImport |-> AtLeastZero(import - ManagedPower),
      solarGeneration |-> 0, availableSolar |-> AtLeastZero(-import),
      hardLimit |-> ImportLimit, controlledLimit |-> None,
      phaseLimit |-> [p \in Phases |-> None], phaseImport |-> [p \in Phases |-> 0],
      startStagger |-> Stagger, lastAutomaticStartAt |-> None, maxBinaryLoads |-> None,
      existingBinaryLoads |-> Cardinality({l \in SiteLoads \ Loads : seen[l] = Cycle!On}) ]

-----------------------------------------------------------------------------
\* What a cycle may have observed, when the loads of Loads are those that request.
SiteInit ==
    /\ automatic \in [SiteLoads -> BOOLEAN]
    /\ override \in [SiteLoads -> Cycle!OverrideRecord \cup {None}]
    /\ output \in [SiteLoads -> {Cycle!On, Cycle!Off}]
    /\ meter \in Meters \cup {None}
    /\ wants \in SUBSET {l \in SiteLoads : automatic[l] /\ Cycle!Purged(l) = None}
    /\ Loads = Cycle!Requesting(wants)
    /\ seen \in [SiteLoads -> Cycle!Reading]
    /\ \A l \in SiteLoads : seen[l] \in {output[l], Cycle!Unknown}

CycleInit ==
    /\ SiteInit
    /\ decision = CycleDecision
    /\ request = [l \in Loads |-> CycleRequest(l)]
    /\ Init

CycleNext == Next /\ UNCHANGED site

CycleSpec == CycleInit /\ [][CycleNext]_cycleVars

-----------------------------------------------------------------------------
(* Properties.                                                             *)

\* The loads that arbitrate() accepts, from the arguments the cycle gives it, are the
\* ones that SiteControl's IsGrant describes: what SiteControl shows of the commands of a
\* cycle, with any such set of grants, it shows of the arbitrator's own.
GrantsOfTheCycle ==
    outcome = "returned" => Cycle!IsGrant({l \in Loads : Accepted(l)}, wants, seen)

=============================================================================
