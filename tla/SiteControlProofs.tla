-------------------------- MODULE SiteControlProofs --------------------------
(***************************************************************************)
(* Whatever the house, the users and the devices do between and during the *)
(* commands of a cycle, a command is sent only while the authority it was  *)
(* decided on is still there.  The inductive invariant says so of every    *)
(* command a cycle still holds, not only of the one that is being sent.    *)
(*                                                                         *)
(* The second half is about power: what a cycle still plans to run fits    *)
(* the hard limit after every one of its commands.                         *)
(***************************************************************************)
EXTENDS SiteControl, SumTheorems

ControlTypes ==
    /\ automatic \in [Loads -> BOOLEAN]
    /\ override \in [Loads -> OverrideRecord \cup {None}]
    /\ output \in [Loads -> {On, Off}]
    /\ awaiting \in Command \cup {None}
    /\ cycle \in CycleRecord \cup {None}
    /\ awaiting # None => cycle # None /\ awaiting \in cycle.todo

\* The command agrees with the override its load has now.
Agrees(c) ==
    IF override[c.load] = None THEN c.source = Automatic
    ELSE c.source = Manual /\ (override[c.load].state = Off => ~c.enabled)

\* Automatic control of the load is on, or its form was saved during the cycle.
HasAuthority(c) ==
    c.source = Automatic => automatic[c.load] \/ c.load \in cycle.reconfigured

CommandsJustified ==
    cycle # None => \A c \in cycle.todo :
        Agrees(c) /\ HasAuthority(c) /\ (c.enabled => cycle.ready)

AwaitingAuthorized ==
    awaiting # None /\ awaiting.source = Automatic => cycle.ready

IInv == ControlTypes /\ CommandsJustified /\ AwaitingAuthorized

-----------------------------------------------------------------------------
\* A command decided by BeginCycle is well formed and justified by the purged
\* overrides, the present configuration, and a grid reading if it is a start.
LEMMA CommandsDecided ==
    ASSUME ControlTypes, NEW wants \in SUBSET Loads,
           NEW granted \in SUBSET Requesting(wants), NEW seen, IsGrant(granted, wants, seen),
           NEW c \in Commands(wants, granted)
    PROVE  /\ c \in Command
           /\ IF Purged(c.load) = None THEN c.source = Automatic
              ELSE c.source = Manual /\ (Purged(c.load).state = Off => ~c.enabled)
           /\ c.source = Automatic => automatic[c.load]
           /\ c.enabled => meter # None
<1>. USE NoneAssumption DEF Automatic, Manual, On, Off
<1>0. \A l \in Loads : Purged(l) \in OverrideRecord \cup {None}
  BY DEF ControlTypes, Purged
<1>1. CASE \E l \in Requesting(wants) :
              c = [load |-> l, enabled |-> l \in granted, source |-> RequestSource(l, wants),
                   requested |-> TRUE, automatic |-> automatic[l]]
  <2>1. PICK l \in Requesting(wants) :
              c = [load |-> l, enabled |-> l \in granted, source |-> RequestSource(l, wants),
                   requested |-> TRUE, automatic |-> automatic[l]]
    BY <1>1
  <2>2. l \in Loads /\ RequestSource(l, wants) # None
    BY DEF Requesting
  <2>3. /\ RequestSource(l, wants) \in {Automatic, Manual}
        /\ IF Purged(l) = None THEN RequestSource(l, wants) = Automatic /\ automatic[l]
           ELSE RequestSource(l, wants) = Manual /\ Purged(l).state = On
    BY <2>2 DEF RequestSource
  <2>4. l \in granted => meter # None
    BY <2>1 DEF IsGrant
  <2>5. c \in Command
    BY <2>1, <2>2, <2>3 DEF Command, ControlTypes
  <2>. QED BY <2>1, <2>3, <2>4, <2>5
<1>2. CASE \E l \in Loads :
              /\ StopSource(l, wants) # None
              /\ c = [load |-> l, enabled |-> FALSE, source |-> StopSource(l, wants),
                      requested |-> FALSE, automatic |-> automatic[l]]
  <2>1. PICK l \in Loads :
              /\ StopSource(l, wants) # None
              /\ c = [load |-> l, enabled |-> FALSE, source |-> StopSource(l, wants),
                      requested |-> FALSE, automatic |-> automatic[l]]
    BY <1>2
  <2>2. /\ StopSource(l, wants) \in {Automatic, Manual}
        /\ IF Purged(l) = None THEN StopSource(l, wants) = Automatic /\ automatic[l]
           ELSE StopSource(l, wants) = Manual
    BY <2>1 DEF StopSource
  <2>3. c \in Command
    BY <2>1, <2>2 DEF Command, ControlTypes
  <2>. QED BY <2>1, <2>2, <2>3
<1>. QED BY <1>1, <1>2 DEF Commands

\* The invariant holds initially.
THEOREM InitEstablishesIInv == Init => IInv
BY NoneAssumption DEF Init, IInv, ControlTypes, CommandsJustified, AwaitingAuthorized

\* A cycle decides commands that the present overrides justify.
LEMMA BeginCyclePreservesIInv == IInv /\ BeginCycle => IInv'
<1>. SUFFICES ASSUME IInv, BeginCycle PROVE IInv'
  OBVIOUS
<1>. USE NoneAssumption
<1>1. PICK seen \in [Loads -> Reading],
           wants \in SUBSET {l \in Loads : automatic[l] /\ Purged(l) = None} :
      \E granted \in SUBSET Requesting(wants) :
         /\ IsGrant(granted, wants, seen)
         /\ cycle' = [ feedback |-> seen, ready |-> meter # None, safe |-> HardSafetyOk,
                       todo |-> Commands(wants, granted),
                       stale |-> meter # None /\ meter < Flow,
                       releaseFailed |-> FALSE, reconfigured |-> {} ]
  BY DEF BeginCycle
<1>2. PICK granted \in SUBSET Requesting(wants) :
         /\ IsGrant(granted, wants, seen)
         /\ cycle' = [ feedback |-> seen, ready |-> meter # None, safe |-> HardSafetyOk,
                       todo |-> Commands(wants, granted),
                       stale |-> meter # None /\ meter < Flow,
                       releaseFailed |-> FALSE, reconfigured |-> {} ]
  BY <1>1
<1>3. \A c \in Commands(wants, granted) :
           /\ c \in Command
           /\ IF Purged(c.load) = None THEN c.source = Automatic
              ELSE c.source = Manual /\ (Purged(c.load).state = Off => ~c.enabled)
           /\ c.source = Automatic => automatic[c.load]
           /\ c.enabled => meter # None
  BY <1>2, CommandsDecided DEF IInv
<1>4. /\ override' = [l \in Loads |-> Purged(l)] /\ automatic' = automatic
      /\ output' = output /\ awaiting' = awaiting /\ cycle = None
  BY DEF BeginCycle, house
<1>5. awaiting = None
  BY <1>4 DEF IInv, ControlTypes
<1>6. cycle' \in CycleRecord
  BY <1>2, <1>3 DEF CycleRecord, HardSafetyOk
<1>7. ControlTypes'
  <2>1. \A l \in Loads : Purged(l) \in OverrideRecord \cup {None}
    BY DEF IInv, ControlTypes, Purged
  <2>. QED BY <1>4, <1>5, <1>6, <2>1 DEF IInv, ControlTypes
<1>8. CommandsJustified'
  <2>. SUFFICES ASSUME NEW c \in Commands(wants, granted)
                PROVE  (Agrees(c) /\ HasAuthority(c) /\ (c.enabled => cycle.ready))'
    BY <1>2 DEF CommandsJustified
  <2>1. c.load \in Loads
    BY <1>3 DEF Command
  <2>2. override'[c.load] = Purged(c.load)
    BY <1>4, <2>1
  <2>3. Agrees(c)'
    BY <1>3, <2>2 DEF Agrees
  <2>4. HasAuthority(c)'
    BY <1>3, <1>4 DEF HasAuthority
  <2>5. c.enabled => cycle'.ready
    BY <1>2, <1>3
  <2>. QED BY <2>3, <2>4, <2>5
<1>. QED BY <1>4, <1>5, <1>7, <1>8 DEF IInv, AwaitingAuthorized

\* A step that leaves overrides, automatic control and the decisions alone and
\* takes at most one command out of the cycle.
LEMMA CommandRemoved ==
    ASSUME IInv, cycle # None, NEW c \in cycle.todo, NEW seen \in Reading, Advance(c, seen),
           automatic' = automatic, override' = override,
           output' \in [Loads -> {On, Off}], awaiting' = None
    PROVE  IInv'
<1>. USE NoneAssumption
<1>1. cycle \in CycleRecord /\ c \in Command
  BY DEF IInv, ControlTypes, CycleRecord
<1>2. /\ cycle' \in CycleRecord
      /\ cycle'.todo = cycle.todo \ {c} /\ cycle'.ready = cycle.ready
      /\ cycle'.reconfigured = cycle.reconfigured
  BY <1>1 DEF Advance, CycleRecord, Command
<1>3. ControlTypes'
  BY <1>2 DEF IInv, ControlTypes
<1>4. CommandsJustified'
  BY <1>2 DEF IInv, CommandsJustified, Agrees, HasAuthority
<1>. QED BY <1>3, <1>4 DEF IInv, AwaitingAuthorized

\* Commanding one load after the other keeps the rest justified.
LEMMA CycleStepPreservesIInv == IInv /\ CycleStep => IInv'
<1>. SUFFICES ASSUME IInv, CycleStep PROVE IInv'
  OBVIOUS
<1>. USE NoneAssumption
<1>1. CASE BeginCycle
  BY <1>1, BeginCyclePreservesIInv
<1>2. CASE SkipCommand
  <2>1. PICK c \in cycle.todo : Advance(c, cycle.feedback[c.load])
    BY <1>2 DEF SkipCommand
  <2>2. cycle # None /\ awaiting' = None /\ UNCHANGED <<automatic, override, output>>
    BY <1>2 DEF SkipCommand, user, house
  <2>3. cycle.feedback[c.load] \in Reading
    BY <2>1, <2>2 DEF IInv, ControlTypes, CycleRecord, Command
  <2>. QED BY <2>1, <2>2, <2>3, CommandRemoved DEF IInv, ControlTypes
<1>3. CASE SendCommand
  <2>1. PICK c \in cycle.todo : Authorized(c) /\ awaiting' = c
    BY <1>3 DEF SendCommand
  <2>2. /\ cycle # None
        /\ UNCHANGED <<automatic, override, output, cycle>>
    BY <1>3 DEF SendCommand, user, house
  <2>3. c \in Command
    BY <2>2 DEF IInv, ControlTypes, CycleRecord
  <2>4. ControlTypes'
    BY <2>1, <2>2, <2>3 DEF IInv, ControlTypes
  <2>5. CommandsJustified'
    BY <2>2 DEF IInv, CommandsJustified, Agrees, HasAuthority
  <2>6. AwaitingAuthorized'
    BY <2>1, <2>2 DEF AwaitingAuthorized, Authorized
  <2>. QED BY <2>4, <2>5, <2>6 DEF IInv
<1>4. CASE CommandConfirmed \/ CommandFails
  <2>1. /\ awaiting # None /\ awaiting' = None
        /\ UNCHANGED <<automatic, override>>
        /\ \E actual \in {output[awaiting.load], Target(awaiting)} :
              output' = [output EXCEPT ![awaiting.load] = actual]
        /\ \E seen \in Reading : Advance(awaiting, seen)
    BY <1>4 DEF CommandConfirmed, CommandFails, user, Reading, Target
  <2>2. cycle # None /\ awaiting \in cycle.todo /\ awaiting.load \in Loads
    BY <2>1 DEF IInv, ControlTypes, Command
  <2>3. output' \in [Loads -> {On, Off}]
    BY <2>1, <2>2 DEF IInv, ControlTypes, Target
  <2>. QED BY <2>1, <2>2, <2>3, CommandRemoved
<1>5. CASE EndCycle
  BY <1>5 DEF EndCycle, user, house, IInv, ControlTypes, CommandsJustified,
              AwaitingAuthorized
<1>. QED BY <1>1, <1>2, <1>3, <1>4, <1>5 DEF CycleStep

\* Overrides and automatic control change only between cycles; the native form may
\* change automatic control during one, and is remembered by the cycle.
LEMMA UserStepPreservesIInv == IInv /\ UserStep => IInv'
<1>. SUFFICES ASSUME IInv, UserStep PROVE IInv'
  OBVIOUS
<1>. USE NoneAssumption
<1>0. Overridden \subseteq Loads /\ Adjusted \subseteq Loads
  BY BoundsAssumption
<1>1. ASSUME NEW l \in Loads, StartOverride(l) \/ ClearOverride(l) \/ ClearAfterEnable(l)
      PROVE  IInv'
  <2>1. cycle = None /\ UNCHANGED <<automatic, output, awaiting, cycle>>
    BY <1>1 DEF StartOverride, ClearOverride, ClearAfterEnable, house
  <2>2. override' \in [Loads -> OverrideRecord \cup {None}]
    <3>1. override \in [Loads -> OverrideRecord \cup {None}]
      BY DEF IInv, ControlTypes
    <3>2. CASE StartOverride(l)
      <4>1. PICK state \in {On, Off} :
                override' = [override EXCEPT ![l] = [state |-> state, expired |-> FALSE]]
        BY <3>2 DEF StartOverride
      <4>2. [state |-> state, expired |-> FALSE] \in OverrideRecord
        BY DEF OverrideRecord
      <4>. QED BY <3>1, <4>1, <4>2
    <3>3. CASE ClearOverride(l) \/ ClearAfterEnable(l)
      BY <3>1, <3>3 DEF ClearOverride, ClearAfterEnable
    <3>. QED BY <1>1, <3>2, <3>3
  <2>. QED BY <2>1, <2>2 DEF IInv, ControlTypes, CommandsJustified, AwaitingAuthorized
<1>2. ASSUME NEW l \in Loads, SetAutomatic(l)
      PROVE  IInv'
  <2>1. cycle = None /\ UNCHANGED <<override, output, awaiting, cycle>>
    BY <1>2 DEF SetAutomatic, house
  <2>2. automatic' \in [Loads -> BOOLEAN]
    BY <1>2 DEF SetAutomatic, IInv, ControlTypes
  <2>. QED BY <2>1, <2>2 DEF IInv, ControlTypes, CommandsJustified, AwaitingAuthorized
<1>3. ASSUME NEW l \in Loads, Reconfigure(l)
      PROVE  IInv'
  <2>1. /\ UNCHANGED <<override, output, awaiting>>
        /\ automatic' = [automatic EXCEPT ![l] = ~automatic[l]]
        /\ cycle' = IF cycle = None THEN None
                    ELSE [cycle EXCEPT !.reconfigured = cycle.reconfigured \cup {l}]
    BY <1>3 DEF Reconfigure, house
  <2>2. automatic' \in [Loads -> BOOLEAN]
    BY <2>1 DEF IInv, ControlTypes
  <2>3. CASE cycle = None
    BY <2>1, <2>2, <2>3 DEF IInv, ControlTypes, CommandsJustified, AwaitingAuthorized
  <2>4. CASE cycle # None
    <3>1. cycle \in CycleRecord
      BY <2>4 DEF IInv, ControlTypes
    <3>2. /\ cycle' \in CycleRecord
          /\ cycle'.todo = cycle.todo /\ cycle'.ready = cycle.ready
          /\ cycle'.reconfigured = cycle.reconfigured \cup {l}
      BY <2>1, <2>4, <3>1 DEF CycleRecord
    <3>3. ControlTypes' /\ AwaitingAuthorized'
      BY <2>1, <2>2, <2>4, <3>2 DEF IInv, ControlTypes, AwaitingAuthorized
    <3>4. CommandsJustified'
      <4>. SUFFICES ASSUME NEW c \in cycle.todo
                    PROVE  (Agrees(c) /\ HasAuthority(c) /\ (c.enabled => cycle.ready))'
        BY <3>2 DEF CommandsJustified
      <4>1. c.load \in Loads /\ (c.load # l => automatic'[c.load] = automatic[c.load])
        BY <2>1, <3>1 DEF CycleRecord, Command, IInv, ControlTypes
      <4>. QED BY <2>1, <2>4, <3>2, <4>1 DEF IInv, CommandsJustified, Agrees, HasAuthority
    <3>. QED BY <3>3, <3>4 DEF IInv
  <2>. QED BY <2>3, <2>4
<1>. QED BY <1>0, <1>1, <1>2, <1>3 DEF UserStep

\* An expiry keeps the record and what it asks for until the next cycle begins.
LEMMA TimeStepPreservesIInv == IInv /\ TimeStep => IInv'
<1>. SUFFICES ASSUME IInv, TimeStep PROVE IInv'
  OBVIOUS
<1>. USE NoneAssumption
<1>1. CASE \E l \in Loads : BackoffEnds(l)
  BY <1>1 DEF BackoffEnds, user, house, IInv, ControlTypes, CommandsJustified,
              AwaitingAuthorized, Agrees, HasAuthority
<1>2. ASSUME NEW l \in Loads, OverrideExpires(l)
      PROVE  IInv'
  <2>1. /\ UNCHANGED <<automatic, output, awaiting, cycle>>
        /\ override[l] \in OverrideRecord
        /\ override' = [override EXCEPT ![l] = [override[l] EXCEPT !.expired = TRUE]]
    BY <1>2 DEF OverrideExpires, house, IInv, ControlTypes
  <2>2. \A m \in Loads :
           /\ override'[m] \in OverrideRecord \cup {None}
           /\ override'[m] = None <=> override[m] = None
           /\ override[m] # None => override'[m].state = override[m].state
    BY <2>1 DEF IInv, ControlTypes, OverrideRecord
  <2>3. ControlTypes' /\ AwaitingAuthorized'
    BY <2>1, <2>2 DEF IInv, ControlTypes, AwaitingAuthorized
  <2>4. CommandsJustified'
    <3>. SUFFICES ASSUME cycle # None, NEW c \in cycle.todo
                  PROVE  (Agrees(c) /\ HasAuthority(c) /\ (c.enabled => cycle.ready))'
      BY <2>1 DEF CommandsJustified
    <3>1. c.load \in Loads
      BY DEF IInv, ControlTypes, CycleRecord, Command
    <3>. QED BY <2>1, <2>2, <3>1 DEF IInv, CommandsJustified, Agrees, HasAuthority
  <2>. QED BY <2>3, <2>4 DEF IInv
<1>. QED BY <1>1, <1>2 DEF TimeStep

\* The house, its meter and its owner touch no justification.
LEMMA HouseStepPreservesIInv == IInv /\ HouseStep => IInv'
<1>. SUFFICES ASSUME IInv, HouseStep PROVE IInv'
  OBVIOUS
<1>. USE NoneAssumption
<1>1. /\ UNCHANGED <<automatic, override, awaiting, cycle>>
      /\ output' \in [Loads -> {On, Off}]
  BY BoundsAssumption
  DEF HouseStep, BaseChanges, MeterReports, MeterLost, OwnerSwitches, user, IInv, ControlTypes
<1>. QED
  BY <1>1 DEF IInv, ControlTypes, CommandsJustified, AwaitingAuthorized, Agrees, HasAuthority

\* No step breaks the invariant.
LEMMA StepPreservesIInv == IInv /\ [Next]_vars => IInv'
<1>. SUFFICES ASSUME IInv, [Next]_vars PROVE IInv'
  OBVIOUS
<1>1. CASE UNCHANGED vars
  BY <1>1 DEF vars, user, house, IInv, ControlTypes, CommandsJustified, AwaitingAuthorized,
              Agrees, HasAuthority
<1>. QED
  BY <1>1, CycleStepPreservesIInv, UserStepPreservesIInv, TimeStepPreservesIInv,
     HouseStepPreservesIInv DEF Next

\* Every command a cycle of the coordinator holds is justified in every reachable
\* state of every site: the inductive invariant.
THEOREM Invariance == Spec => []IInv
BY InitEstablishesIInv, StepPreservesIInv, PTL DEF Spec

\* async_replan never sends a command against the override its load has at that
\* moment, whatever users do between the cycles (coordinator.py:2280-2323).
THEOREM OverridesObeyed == Spec => []CommandsFollowOverrides
<1>1. IInv => CommandsFollowOverrides
  BY NoneAssumption
  DEF IInv, ControlTypes, CommandsJustified, Agrees, CommandsFollowOverrides
<1>. QED BY <1>1, Invariance, PTL

\* An automatic command reaches only a load under automatic control, except when the
\* native form, which does not take the lock, was saved during the cycle.
THEOREM AuthorityKept == Spec => []AutomaticAuthority
<1>1. IInv => AutomaticAuthority
  BY NoneAssumption
  DEF IInv, ControlTypes, CommandsJustified, HasAuthority, AutomaticAuthority
<1>. QED BY <1>1, Invariance, PTL

\* A cycle that found no current grid reading starts nothing and sends nothing
\* automatic (state.py:90-104 and arbitrator.py:331).
THEOREM NothingBlind == Spec => []QuietWithoutInputs
<1>1. IInv => QuietWithoutInputs
  BY NoneAssumption
  DEF IInv, ControlTypes, CommandsJustified, AwaitingAuthorized, QuietWithoutInputs,
      Command, Automatic, Manual
<1>. QED BY <1>1, Invariance, PTL

-----------------------------------------------------------------------------
(* Power.                                                                  *)

StopLoads  == {c.load : c \in {d \in cycle.todo : ~d.enabled}}
StartLoads == {c.load : c \in {d \in cycle.todo : d.enabled}}

\* The loads that run when every command of the cycle has worked.
Planned == (Running \ StopLoads) \cup StartLoads

OneCommandEach ==
    cycle # None => \A c, d \in cycle.todo : c.load = d.load => c = d

\* Feedback that would make the cycle skip a stop is not out of date.
StopsSeen ==
    cycle # None /\ ~surprise =>
        \A c \in cycle.todo : cycle.feedback[c.load] = Off => output[c.load] = Off

\* What the cycle still plans fits, whatever has been done of it.
PlanFits ==
    cycle # None /\ ~surprise /\ ~cycle.stale /\ ~cycle.releaseFailed /\ StartLoads # {} =>
        base + Total(Planned) <= HardLimit

StopsFirst ==
    awaiting # None /\ awaiting.enabled => StopLoads = {}

PowerInv == TypeOK /\ OneCommandEach /\ StopsSeen /\ PlanFits /\ StopsFirst

\* The total power of some loads is a natural number, falls when loads are left out, and
\* that of two sets without a common load is the sum of theirs.
LEMMA TotalFacts ==
    ASSUME NEW S \in SUBSET Loads
    PROVE  /\ Total(S) \in Nat
           /\ \A T \in SUBSET S : Total(T) <= Total(S)
           /\ \A T \in SUBSET S : Total(S) = Total(T) + Total(S \ T)
           /\ \A l \in S : Total(S) = Power[l] + Total(S \ {l}) /\ Power[l] \in Nat \ {0}
<1>1. IsFiniteSet(S) /\ Power \in [Loads -> Nat]
  BY LoadsAssumption, PowerAssumption, FS_Subset
<1>2. Total(S) \in Nat /\ \A l \in S : Total(S) = Power[l] + Total(S \ {l})
  BY <1>1, SumRemovesElement DEF Total
<1>3. \A T \in SUBSET S : Total(S) = Total(T) + Total(S \ T) /\ Total(T) <= Total(S)
  BY <1>1, SumOfParts DEF Total
<1>. QED BY <1>2, <1>3, PowerAssumption

\* The granted requests fit the import that is left: the last of them in the
\* arbitrator's order was compared with all the others.
LEMMA GrantedFit ==
    ASSUME ControlTypes, meter \in Int \cup {None}, NEW wants \in SUBSET Loads,
           NEW granted \in SUBSET Requesting(wants), NEW seen \in [Loads -> Reading],
           IsGrant(granted, wants, seen), granted # {}
    PROVE  meter # None /\ Total(granted) <= Available(wants, seen)
<1> DEFINE A == {l \in granted : RequestSource(l, wants) = Automatic}
<1>0. /\ granted \subseteq Loads /\ IsFiniteSet(granted) /\ granted \subseteq Nat
      /\ \A l \in granted : RequestSource(l, wants) \in {Automatic, Manual}
  <2>1. granted \subseteq Loads
    BY DEF Requesting
  <2>2. \A l \in granted : RequestSource(l, wants) \in {Automatic, Manual}
    BY DEF Requesting, RequestSource
  <2>. QED BY <2>1, <2>2, LoadsAssumption, FS_Subset
<1>1. PICK l \in granted : \A m \in granted \ {l} : Precedes(m, l, wants)
  <2>1. CASE A = {}
    <3>1. PICK l \in granted : \A m \in granted : m <= l
      BY <1>0, LargestNatural
    <3>2. \A m \in granted \ {l} : m < l
      BY <1>0, <3>1
    <3>. QED BY <1>0, <2>1, <3>2 DEF Precedes
  <2>2. CASE A # {}
    <3>1. IsFiniteSet(A) /\ A \subseteq Nat
      BY <1>0, FS_Subset
    <3>2. PICK l \in A : \A m \in A : m <= l
      BY <2>2, <3>1, LargestNatural
    <3>3. \A m \in A \ {l} : m < l
      BY <1>0, <3>2
    <3>. QED BY <1>0, <3>2, <3>3 DEF Precedes, Automatic, Manual
  <2>. QED BY <2>1, <2>2
<1>2. {m \in granted : Precedes(m, l, wants)} = granted \ {l}
  <2>1. ~Precedes(l, l, wants)
    BY <1>0 DEF Precedes
  <2>. QED BY <1>1, <2>1
<1>3. meter # None /\ Total(granted \ {l}) + Power[l] <= Available(wants, seen)
  BY <1>1, <1>2 DEF IsGrant
<1>4. Total(granted) = Power[l] + Total(granted \ {l}) /\ Power[l] \in Nat
      /\ Total(granted \ {l}) \in Nat
  BY <1>0, TotalFacts
<1>. QED BY <1>3, <1>4

\* What a cycle decides fits the limit when its reading shows all the import there is: the
\* reading counts what runs without a request, and the requests share the rest.
LEMMA DecisionFits ==
    ASSUME IInv, TypeOK, NEW wants \in SUBSET Loads,
           NEW granted \in SUBSET Requesting(wants), NEW seen \in [Loads -> Reading],
           \A l \in Loads : seen[l] \in {output[l], Unknown},
           IsGrant(granted, wants, seen), granted # {}, ~(meter < Flow)
    PROVE  base + Total((Running \ Requesting(wants)) \cup granted) <= HardLimit
<1>. USE NoneAssumption
<1> DEFINE Req == Requesting(wants)
           managed == Total({l \in Req \cap Metered : seen[l] = On})
<1>0. /\ Req \subseteq Loads /\ granted \subseteq Req /\ Running \subseteq Loads
      /\ base \in Int /\ HardLimit \in Nat \ {0}
  BY SiteAssumption DEF Requesting, Running, TypeOK
<1>1. meter \in Int /\ Total(granted) <= Available(wants, seen)
  BY GrantedFit DEF IInv, TypeOK
<1>2. managed \in Nat /\ managed <= Total(Running \cap Req)
  <2>1. {l \in Req \cap Metered : seen[l] = On} \subseteq Running \cap Req
    BY <1>0 DEF Running, On, Off, Unknown
  <2>. QED BY <1>0, <2>1, TotalFacts
<1>3. /\ Total(Running) = Total(Running \cap Req) + Total(Running \ Req)
      /\ Total(Running) \in Nat /\ Total(Running \cap Req) \in Nat
      /\ Total(Running \ Req) \in Nat
  <2>1. Running \ (Running \cap Req) = Running \ Req
    OBVIOUS
  <2>2. Total(Running) = Total(Running \cap Req) + Total(Running \ (Running \cap Req))
    BY <1>0, TotalFacts
  <2>. QED BY <1>0, <2>1, <2>2, TotalFacts
<1>4. /\ Total((Running \ Req) \cup granted) = Total(Running \ Req) + Total(granted)
      /\ Total(granted) \in Nat \ {0}
  <2> DEFINE S == (Running \ Req) \cup granted
  <2>1. S \ granted = Running \ Req
    BY <1>0
  <2>2. S \in SUBSET Loads /\ granted \in SUBSET S
    BY <1>0
  <2> HIDE DEF S
  <2>3. Total(S) = Total(granted) + Total(S \ granted)
    BY <2>2, TotalFacts
  <2>4. PICK l \in granted : TRUE
    OBVIOUS
  <2>5. /\ Total(granted) = Power[l] + Total(granted \ {l}) /\ Power[l] \in Nat \ {0}
        /\ Total(granted \ {l}) \in Nat
    BY <1>0, TotalFacts
  <2>6. Total(Running \ Req) \in Nat
    BY <1>3
  <2>7. Total(S) = Total(Running \ Req) + Total(granted) /\ Total(granted) \in Nat \ {0}
    BY <2>1, <2>3, <2>5, <2>6
  <2>. QED BY <2>7 DEF S
<1>5. Available(wants, seen)
        = AtLeastZero(HardLimit - AtLeastZero(meter - managed) + AtLeastZero(-meter))
  BY DEF Available
<1>6. base + Total(Running) <= meter
  BY <1>0, <1>1, <1>3 DEF Flow
<1> HIDE DEF Req, managed
<1>7. base + Total(Running \ Req) <= meter - managed
  BY <1>0, <1>1, <1>2, <1>3, <1>6
<1>8. base + Total(Running \ Req) + Total(granted) <= HardLimit
  BY <1>0, <1>1, <1>2, <1>3, <1>4, <1>5, <1>7 DEF AtLeastZero
<1>. QED BY <1>0, <1>3, <1>4, <1>8 DEF Req

\* A flow is a number.
LEMMA FlowIsInt ==
    ASSUME output \in [Loads -> {On, Off}], base \in BaseLevels
    PROVE  Flow \in Int
<1>1. Running \in SUBSET Loads
  BY DEF Running
<1>2. Total(Running) \in Nat
  BY <1>1, TotalFacts
<1>. QED BY <1>2, SiteAssumption DEF Flow

\* The invariant about power holds initially.
THEOREM InitEstablishesPowerInv == Init => PowerInv
<1>. SUFFICES ASSUME Init PROVE PowerInv
  OBVIOUS
<1>. USE NoneAssumption
<1>1. Flow \in Int
  BY FlowIsInt DEF Init
<1>2. TypeOK
  BY <1>1 DEF Init, TypeOK
<1>. QED BY <1>2 DEF Init, PowerInv, OneCommandEach, StopsSeen, PlanFits, StopsFirst

\* Every step keeps the types; those of the commands are IInv's.
LEMMA StepPreservesTypeOK == IInv /\ IInv' /\ TypeOK /\ [Next]_vars => TypeOK'
<1>. SUFFICES ASSUME IInv, IInv', TypeOK, [Next]_vars PROVE TypeOK'
  OBVIOUS
<1> DEFINE Rest == /\ backoff \in [Loads -> BOOLEAN] /\ clearing \subseteq Loads
                   /\ base \in BaseLevels /\ meter \in Int \cup {None}
                   /\ surprise \in BOOLEAN
<1>0. Rest /\ output \in [Loads -> {On, Off}] /\ awaiting \in Command \cup {None}
      /\ Adjusted \subseteq Loads
  BY BoundsAssumption DEF TypeOK
<1>1. SUFFICES Rest'
  BY DEF TypeOK, IInv, ControlTypes
<1>2. CASE CycleStep
  <2>1. backoff' \in [Loads -> BOOLEAN]
    BY <1>0, <1>2
    DEF CycleStep, BeginCycle, SkipCommand, SendCommand, CommandConfirmed, CommandFails, EndCycle
  <2>2. UNCHANGED <<clearing, base, meter, surprise>>
    BY <1>2 DEF CycleStep, BeginCycle, SkipCommand, SendCommand, CommandConfirmed,
                CommandFails, EndCycle, user, house
  <2>. QED BY <1>0, <2>1, <2>2
<1>3. CASE UserStep
  <2>1. UNCHANGED <<backoff, base, meter, surprise>>
    BY <1>3 DEF UserStep, StartOverride, ClearOverride, SetAutomatic, ClearAfterEnable,
                Reconfigure, house
  <2>2. clearing' \subseteq Loads
    BY <1>0, <1>3 DEF UserStep, StartOverride, ClearOverride, SetAutomatic, ClearAfterEnable,
                      Reconfigure
  <2>. QED BY <1>0, <2>1, <2>2
<1>4. CASE TimeStep
  <2>1. UNCHANGED <<clearing, base, meter, surprise>>
    BY <1>4 DEF TimeStep, OverrideExpires, BackoffEnds, user, house
  <2>2. backoff' \in [Loads -> BOOLEAN]
    BY <1>0, <1>4 DEF TimeStep, OverrideExpires, BackoffEnds
  <2>. QED BY <1>0, <2>1, <2>2
<1>5. CASE HouseStep
  <2>1. UNCHANGED <<backoff, clearing>>
    BY <1>5 DEF HouseStep, BaseChanges, MeterReports, MeterLost, OwnerSwitches, user
  <2>2. base' \in BaseLevels /\ meter' \in Int \cup {None} /\ surprise' \in BOOLEAN
    BY <1>0, <1>5, FlowIsInt DEF HouseStep, BaseChanges, MeterReports, MeterLost, OwnerSwitches
  <2>. QED BY <2>1, <2>2, <1>0
<1>6. CASE UNCHANGED vars
  BY <1>0, <1>6 DEF vars, user, house
<1>. QED BY <1>2, <1>3, <1>4, <1>5, <1>6 DEF Next

\* BeginCycle decides one command for each load it commands, and a plan that fits.
LEMMA BeginCycleFits == IInv /\ IInv' /\ PowerInv /\ TypeOK' /\ BeginCycle => PowerInv'
<1>. SUFFICES ASSUME IInv, IInv', PowerInv, TypeOK', BeginCycle PROVE PowerInv'
  OBVIOUS
<1>. USE NoneAssumption
<1>0. TypeOK
  BY DEF PowerInv
<1>1. PICK seen \in [Loads -> Reading],
           wants \in SUBSET {l \in Loads : automatic[l] /\ Purged(l) = None} :
      \E granted \in SUBSET Requesting(wants) :
         /\ \A l \in Loads : seen[l] \in {output[l], Unknown}
         /\ IsGrant(granted, wants, seen)
         /\ cycle' = [ feedback |-> seen, ready |-> meter # None, safe |-> HardSafetyOk,
                       todo |-> Commands(wants, granted),
                       stale |-> meter # None /\ meter < Flow,
                       releaseFailed |-> FALSE, reconfigured |-> {} ]
  BY DEF BeginCycle
<1>2. PICK granted \in SUBSET Requesting(wants) :
         /\ \A l \in Loads : seen[l] \in {output[l], Unknown}
         /\ IsGrant(granted, wants, seen)
         /\ cycle' = [ feedback |-> seen, ready |-> meter # None, safe |-> HardSafetyOk,
                       todo |-> Commands(wants, granted),
                       stale |-> meter # None /\ meter < Flow,
                       releaseFailed |-> FALSE, reconfigured |-> {} ]
  BY <1>1
<1>3. /\ cycle'.feedback = seen /\ cycle'.todo = Commands(wants, granted)
      /\ cycle'.stale = (meter # None /\ meter < Flow)
  BY <1>2
<1>4. cycle = None /\ awaiting = None /\ awaiting' = None
      /\ UNCHANGED <<output, base, meter, surprise>>
  BY DEF BeginCycle, house, IInv, ControlTypes
<1>5. \A c \in Commands(wants, granted) :
         /\ c.load \in Loads
         /\ c.load \in Requesting(wants) => c.enabled = (c.load \in granted)
         /\ c.load \notin Requesting(wants) => ~c.enabled
  <2>1. \A l \in Loads : StopSource(l, wants) # None => l \notin Requesting(wants)
    BY DEF StopSource, Requesting, RequestSource, On, Off
  <2>. QED BY <2>1 DEF Commands, Requesting
<1>6. OneCommandEach'
  <2>1. \A l \in Loads : StopSource(l, wants) # None => l \notin Requesting(wants)
    BY DEF StopSource, Requesting, RequestSource, On, Off
  <2> DEFINE R(l) == [load |-> l, enabled |-> l \in granted,
                      source |-> RequestSource(l, wants), requested |-> TRUE,
                      automatic |-> automatic[l]]
             S(l) == [load |-> l, enabled |-> FALSE, source |-> StopSource(l, wants),
                      requested |-> FALSE, automatic |-> automatic[l]]
  <2>2. \A c \in Commands(wants, granted) :
           c = IF c.load \in Requesting(wants) THEN R(c.load) ELSE S(c.load)
    <3>. TAKE c \in Commands(wants, granted)
    <3>1. CASE \E l \in Requesting(wants) : c = R(l)
      BY <3>1
    <3>2. CASE \E l \in {k \in Loads : StopSource(k, wants) # None} : c = S(l)
      BY <2>1, <3>2
    <3>. QED BY <3>1, <3>2 DEF Commands
  <2>3. \A c, d \in Commands(wants, granted) : c.load = d.load => c = d
    <3>. HIDE DEF R, S
    <3>. QED BY <2>2, Zenon
  <2>. QED BY <1>3, <2>3 DEF OneCommandEach
<1>7. StopsSeen'
  BY <1>2, <1>3, <1>4, <1>5 DEF StopsSeen, On, Off, Unknown
<1>8. PlanFits'
  <2>. SUFFICES ASSUME ~cycle'.stale, StartLoads' # {}
                PROVE  base + Total(Planned') <= HardLimit
    BY <1>4 DEF PlanFits, Total
  <2>1. granted # {} /\ StartLoads' \subseteq granted
    <3>1. \A l \in StartLoads' : l \in granted
      BY <1>3, <1>5 DEF StartLoads
    <3>. QED BY <3>1
  <2>2. Requesting(wants) \subseteq StopLoads' \cup granted
    <3>. SUFFICES ASSUME NEW l \in Requesting(wants), l \notin granted
                  PROVE  l \in StopLoads'
      OBVIOUS
    <3> DEFINE c == [load |-> l, enabled |-> l \in granted, source |-> RequestSource(l, wants),
                     requested |-> TRUE, automatic |-> automatic[l]]
    <3>1. c \in Commands(wants, granted) /\ ~c.enabled /\ c.load = l
      BY DEF Commands
    <3> HIDE DEF c
    <3>. QED BY <1>3, <3>1 DEF StopLoads
  <2>3. Running' = Running
    BY <1>4 DEF Running
  <2>4. Planned' \subseteq (Running \ Requesting(wants)) \cup granted
    BY <2>1, <2>2, <2>3 DEF Planned
  <2>5. meter # None
    BY <1>0, <1>1, <1>2, <2>1, GrantedFit DEF IInv, TypeOK
  <2>6. base + Total((Running \ Requesting(wants)) \cup granted) <= HardLimit
    BY <1>0, <1>1, <1>2, <1>3, <2>1, <2>5, DecisionFits
  <2> DEFINE S == (Running \ Requesting(wants)) \cup granted
  <2>7. S \in SUBSET Loads
    BY DEF Running, Requesting
  <2>8. Total(Planned') <= Total(S) /\ Total(Planned') \in Nat /\ Total(S) \in Nat
    <3>1. Planned' \in SUBSET S /\ Planned' \in SUBSET Loads
      BY <2>4, <2>7
    <3> HIDE DEF S
    <3>. QED BY <2>7, <3>1, TotalFacts
  <2>9. base \in Int /\ HardLimit \in Nat
    BY <1>0, SiteAssumption DEF TypeOK
  <2>. QED BY <2>6, <2>8, <2>9
<1>. QED BY <1>4, <1>6, <1>7, <1>8 DEF PowerInv, StopsFirst

\* Doing one command of the cycle, or giving it up, adds nothing to what is planned: a stop
\* that fails makes the cycle release no import.
LEMMA CommandDone ==
    ASSUME IInv, PowerInv, TypeOK', cycle # None, NEW c \in cycle.todo,
           NEW seen \in Reading, Advance(c, seen), awaiting' = None,
           base' = base, surprise' = surprise,
           NEW actual \in {output[c.load], Target(c)},
           output' = [output EXCEPT ![c.load] = actual],
           ~surprise /\ ~c.enabled /\ seen = Off => actual = Off
    PROVE  PowerInv'
<1>. USE NoneAssumption
<1>1. /\ cycle \in CycleRecord /\ output \in [Loads -> {On, Off}] /\ base \in BaseLevels
      /\ cycle.todo \subseteq Command /\ c \in Command /\ c.load \in Loads
      /\ cycle.feedback \in [Loads -> Reading]
  BY DEF IInv, ControlTypes, PowerInv, TypeOK, CycleRecord, Command
<1>2. /\ cycle'.todo = cycle.todo \ {c}
      /\ cycle'.feedback = [cycle.feedback EXCEPT ![c.load] = seen]
      /\ cycle'.releaseFailed = (cycle.releaseFailed \/ (~c.enabled /\ seen # Off))
      /\ cycle'.stale = cycle.stale
  BY <1>1 DEF Advance, CycleRecord
<1>3. \A d \in cycle'.todo : d \in cycle.todo /\ d.load \in Loads /\ d.load # c.load
  BY <1>1, <1>2 DEF PowerInv, OneCommandEach, Command
<1>4. OneCommandEach'
  BY <1>2 DEF PowerInv, OneCommandEach
<1>5. StopsSeen'
  BY <1>1, <1>2, <1>3 DEF PowerInv, StopsSeen
<1>6. PlanFits'
  <2>. SUFFICES ASSUME ~surprise, ~cycle.stale, ~cycle'.releaseFailed, StartLoads' # {}
                PROVE  base + Total(Planned') <= HardLimit
    BY <1>2 DEF PlanFits, Total
  <2>1. ~cycle.releaseFailed /\ (c.enabled \/ seen = Off)
    BY <1>2
  <2>2. StartLoads' \subseteq StartLoads /\ StopLoads \subseteq StopLoads' \cup {c.load}
    BY <1>2 DEF StartLoads, StopLoads
  <2>3. \A l \in Planned' : l \in Planned
    <3>. TAKE l \in Planned'
    <3>1. CASE l \in StartLoads'
      BY <2>2, <3>1 DEF Planned
    <3>2. CASE l \in Running' \ StopLoads' /\ l # c.load
      BY <1>1, <2>2, <3>2 DEF Planned, Running
    <3>3. CASE l \in Running' \ StopLoads' /\ l = c.load
      <4>1. actual # Off
        BY <1>1, <3>3 DEF Running, On, Off
      <4>2. c.enabled
        BY <2>1, <4>1
      <4>. QED BY <3>3, <4>2 DEF Planned, StartLoads
    <3>. QED BY <3>1, <3>2, <3>3 DEF Planned
  <2>4. Planned \in SUBSET Loads
    BY <1>1 DEF Planned, Running, StartLoads, Command
  <2>5. base + Total(Planned) <= HardLimit
    BY <2>1, <2>2 DEF PowerInv, PlanFits
  <2>6. Total(Planned') <= Total(Planned) /\ Total(Planned') \in Nat /\ Total(Planned) \in Nat
    <3>1. Planned' \in SUBSET Planned /\ Planned' \in SUBSET Loads
      BY <2>3, <2>4
    <3>. QED BY <2>4, <3>1, TotalFacts
  <2>7. base \in Int /\ HardLimit \in Nat
    BY <1>1, SiteAssumption
  <2>. QED BY <2>5, <2>6, <2>7
<1>. QED BY <1>4, <1>5, <1>6 DEF PowerInv, StopsFirst

\* The steps of the cycle keep the invariant about power.
LEMMA CycleStepFits == IInv /\ IInv' /\ PowerInv /\ TypeOK' /\ CycleStep => PowerInv'
<1>. SUFFICES ASSUME IInv, IInv', PowerInv, TypeOK', CycleStep PROVE PowerInv'
  OBVIOUS
<1>. USE NoneAssumption
<1>1. CASE BeginCycle
  BY <1>1, BeginCycleFits
<1>2. CASE SkipCommand
  <2>1. PICK c \in cycle.todo : Advance(c, cycle.feedback[c.load])
    BY <1>2 DEF SkipCommand
  <2>2. cycle # None /\ awaiting' = None /\ UNCHANGED <<output, base, surprise>>
    BY <1>2 DEF SkipCommand, house
  <2>3. cycle.feedback[c.load] \in Reading /\ c.load \in Loads
    BY <2>1, <2>2 DEF IInv, ControlTypes, CycleRecord, Command
  <2>4. output' = [output EXCEPT ![c.load] = output[c.load]]
    BY <2>2 DEF IInv, ControlTypes
  <2>5. ~surprise /\ ~c.enabled /\ cycle.feedback[c.load] = Off => output[c.load] = Off
    BY <2>2 DEF PowerInv, StopsSeen
  <2>. QED BY <2>1, <2>2, <2>3, <2>4, <2>5, CommandDone
<1>3. CASE SendCommand
  <2>1. PICK c \in cycle.todo : IsNext(c) /\ awaiting' = c
    BY <1>3 DEF SendCommand
  <2>2. cycle # None /\ UNCHANGED <<output, base, surprise, cycle>>
    BY <1>3 DEF SendCommand, house
  <2>3. cycle.todo \subseteq Command
    BY <2>2 DEF IInv, ControlTypes, CycleRecord
  <2>4. c.enabled => \A d \in cycle.todo : d.enabled
    BY <2>1, <2>3 DEF IsNext, ProposalOrder, Command
  <2>5. StopsFirst'
    BY <2>1, <2>2, <2>4 DEF StopsFirst, StopLoads
  <2>6. UNCHANGED <<StartLoads, Planned>>
    BY <2>2 DEF StartLoads, StopLoads, Planned, Running
  <2>. QED BY <2>2, <2>5, <2>6 DEF PowerInv, OneCommandEach, StopsSeen, PlanFits, Total
<1>4. CASE CommandConfirmed
  <2>1. /\ awaiting # None /\ awaiting' = None /\ UNCHANGED <<base, surprise>>
        /\ output' = [output EXCEPT ![awaiting.load] = Target(awaiting)]
        /\ Advance(awaiting, Target(awaiting))
    BY <1>4 DEF CommandConfirmed
  <2>2. cycle # None /\ awaiting \in cycle.todo
    BY <2>1 DEF IInv, ControlTypes
  <2>3. Target(awaiting) \in Reading
    BY DEF Target, Reading
  <2>. QED BY <2>1, <2>2, <2>3, CommandDone
<1>5. CASE CommandFails
  <2>1. /\ awaiting # None /\ awaiting' = None /\ UNCHANGED <<base, surprise>>
    BY <1>5 DEF CommandFails
  <2>2. PICK actual \in {output[awaiting.load], Target(awaiting)} :
            output' = [output EXCEPT ![awaiting.load] = actual]
    BY <1>5 DEF CommandFails
  <2>3. PICK seen \in Reading \ {Target(awaiting)} : Advance(awaiting, seen)
    BY <1>5 DEF CommandFails
  <2>4. cycle # None /\ awaiting \in cycle.todo
    BY <2>1 DEF IInv, ControlTypes
  <2>5. ~awaiting.enabled => seen # Off
    BY <2>3 DEF Target
  <2>. QED BY <2>1, <2>2, <2>3, <2>4, <2>5, CommandDone
<1>6. CASE EndCycle
  <2>1. cycle' = None /\ cycle # None /\ cycle.todo = {} /\ awaiting' = awaiting
    BY <1>6 DEF EndCycle
  <2>2. awaiting = None
    BY <2>1 DEF IInv, ControlTypes
  <2>. QED BY <2>1, <2>2 DEF PowerInv, OneCommandEach, StopsSeen, PlanFits, StopsFirst
<1>. QED BY <1>1, <1>2, <1>3, <1>4, <1>5, <1>6 DEF CycleStep

\* The rest of the world adds consumption only by surprise.
LEMMA OtherStepFits ==
    IInv /\ PowerInv /\ TypeOK' /\ (UserStep \/ TimeStep \/ HouseStep \/ UNCHANGED vars)
        => PowerInv'
<1>. SUFFICES ASSUME IInv, PowerInv, TypeOK',
                     UserStep \/ TimeStep \/ HouseStep \/ UNCHANGED vars
              PROVE  PowerInv'
  OBVIOUS
<1>. USE NoneAssumption
<1>1. /\ awaiting' = awaiting
      /\ cycle = None <=> cycle' = None
      /\ cycle # None => /\ cycle'.todo = cycle.todo /\ cycle'.feedback = cycle.feedback
                         /\ cycle'.stale = cycle.stale
                         /\ cycle'.releaseFailed = cycle.releaseFailed
  <2>1. CASE \E l \in Adjusted : Reconfigure(l)
    <3>1. PICK l \in Adjusted : Reconfigure(l)
      BY <2>1
    <3>2. CASE cycle = None
      BY <3>1, <3>2 DEF Reconfigure
    <3>3. CASE cycle # None
      <4>1. cycle \in CycleRecord /\ cycle' \in CycleRecord \cup {None}
        BY <3>3 DEF IInv, ControlTypes, TypeOK
      <4>2. cycle' = [cycle EXCEPT !.reconfigured = cycle.reconfigured \cup {l}]
            /\ awaiting' = awaiting
        BY <3>1, <3>3 DEF Reconfigure
      <4>3. cycle' \in CycleRecord
        <5>1. l \in Loads
          BY BoundsAssumption
        <5>. QED BY <4>1, <4>2, <5>1 DEF CycleRecord
      <4>. QED BY <3>3, <4>1, <4>2, <4>3 DEF CycleRecord
    <3>. QED BY <3>2, <3>3
  <2>2. CASE ~\E l \in Adjusted : Reconfigure(l)
    <3>1. UNCHANGED <<awaiting, cycle>>
      BY <2>2 DEF UserStep, StartOverride, ClearOverride, SetAutomatic, ClearAfterEnable,
                  TimeStep, OverrideExpires, BackoffEnds, HouseStep, BaseChanges,
                  MeterReports, MeterLost, OwnerSwitches, vars
    <3>. QED BY <3>1
  <2>. QED BY <2>1, <2>2
<1>2. /\ base \in Int /\ base' \in Int /\ HardLimit \in Nat
      /\ output \in [Loads -> {On, Off}] /\ output' \in [Loads -> {On, Off}]
      /\ surprise \in BOOLEAN /\ surprise' \in BOOLEAN
  BY SiteAssumption DEF PowerInv, TypeOK
<1>3. cycle # None /\ ~surprise' =>
         ~surprise /\ base' <= base /\ \A l \in Loads : output[l] = Off => output'[l] = Off
  <2>1. CASE UserStep \/ TimeStep \/ UNCHANGED vars
    <3>1. UNCHANGED house
      BY <2>1 DEF UserStep, StartOverride, ClearOverride, SetAutomatic, ClearAfterEnable,
                  Reconfigure, TimeStep, OverrideExpires, BackoffEnds, vars
    <3>. QED BY <1>2, <3>1 DEF house
  <2>2. CASE BaseChanges \/ MeterReports \/ MeterLost
    BY <1>2, <2>2 DEF BaseChanges, MeterReports, MeterLost
  <2>3. CASE \E l \in Handled : OwnerSwitches(l)
    <3>1. PICK l \in Handled : OwnerSwitches(l)
      BY <2>3
    <3>2. l \in Loads /\ base' = base
      BY <3>1, BoundsAssumption DEF OwnerSwitches
    <3>3. /\ output' = [output EXCEPT ![l] = IF output[l] = On THEN Off ELSE On]
          /\ surprise' <=> (surprise \/ output[l] = Off)
      BY <3>1 DEF OwnerSwitches
    <3>4. ~surprise' => ~surprise /\ output[l] = On
      BY <1>2, <3>2, <3>3
    <3>5. ~surprise' => \A m \in Loads : output[m] = Off => output'[m] = Off
      BY <1>2, <3>3, <3>4
    <3>. QED BY <1>2, <3>2, <3>4, <3>5
  <2>. QED BY <2>1, <2>2, <2>3 DEF HouseStep
<1>4. OneCommandEach' /\ StopsFirst'
  <2>1. awaiting # None => cycle # None
    BY DEF IInv, ControlTypes
  <2>2. cycle # None => UNCHANGED StopLoads
    BY <1>1 DEF StopLoads
  <2>. QED BY <1>1, <2>1, <2>2 DEF PowerInv, OneCommandEach, StopsFirst
<1>5. StopsSeen'
  <2>1. cycle # None => \A c \in cycle.todo : c.load \in Loads
    BY DEF IInv, ControlTypes, CycleRecord, Command
  <2>. QED BY <1>1, <1>3, <2>1 DEF PowerInv, StopsSeen
<1>6. PlanFits'
  <2>. SUFFICES ASSUME cycle # None, ~surprise', ~cycle.stale, ~cycle.releaseFailed,
                       StartLoads' # {}
                PROVE  base' + Total(Planned') <= HardLimit
    BY <1>1 DEF PlanFits, Total
  <2>1. UNCHANGED <<StartLoads, StopLoads>>
    BY <1>1 DEF StartLoads, StopLoads
  <2>2. Running' \subseteq Running
    BY <1>2, <1>3 DEF Running, On, Off
  <2>3. Planned' \in SUBSET Planned
    BY <2>1, <2>2 DEF Planned
  <2>4. Planned \in SUBSET Loads
    BY <1>2 DEF Planned, Running, StartLoads, IInv, ControlTypes, CycleRecord, Command
  <2>5. base + Total(Planned) <= HardLimit
    BY <1>3, <2>1 DEF PowerInv, PlanFits
  <2>6. Total(Planned') <= Total(Planned) /\ Total(Planned') \in Nat /\ Total(Planned) \in Nat
    BY <2>3, <2>4, TotalFacts
  <2>. QED BY <1>2, <1>3, <2>5, <2>6
<1>. QED BY <1>4, <1>5, <1>6 DEF PowerInv

\* No step breaks the invariant about power.
LEMMA StepPreservesPowerInv == IInv /\ IInv' /\ PowerInv /\ [Next]_vars => PowerInv'
<1>. SUFFICES ASSUME IInv, IInv', PowerInv, [Next]_vars PROVE PowerInv'
  OBVIOUS
<1>1. TypeOK'
  BY StepPreservesTypeOK DEF PowerInv
<1>. QED BY <1>1, CycleStepFits, OtherStepFits DEF Next

\* In every reachable state of every site, what the cycle still plans to run fits.
THEOREM PowerInvariance == Spec => []PowerInv
BY Invariance, InitEstablishesPowerInv, StepPreservesPowerInv, PTL DEF Spec

\* Type correctness of the control cycle.
THEOREM TypesKept == Spec => []TypeOK
<1>1. PowerInv => TypeOK
  BY DEF PowerInv
<1>. QED BY <1>1, PowerInvariance, PTL

\* A start that is being sent keeps the site's import within hard_import_limit_w, for any
\* number of loads, powers and base levels: arbitration leaves room for every start of the
\* cycle, stops go first, and a failed stop is the only thing that can spoil it.
THEOREM HardLimitKept == Spec => []StartsWithinHardLimit
<1>1. IInv /\ PowerInv => StartsWithinHardLimit
  <2>. SUFFICES ASSUME IInv, PowerInv, awaiting # None, awaiting.enabled, ~surprise,
                       ~cycle.stale, ~cycle.releaseFailed
                PROVE  base + Total(Running \cup {awaiting.load}) <= HardLimit
    BY DEF StartsWithinHardLimit
  <2>. USE NoneAssumption
  <2>1. cycle # None /\ awaiting \in cycle.todo /\ cycle.todo \subseteq Command
    BY DEF IInv, ControlTypes, CycleRecord
  <2>2. StopLoads = {} /\ awaiting.load \in StartLoads
    BY <2>1 DEF PowerInv, StopsFirst, StartLoads
  <2>3. base + Total(Planned) <= HardLimit
    BY <2>1, <2>2 DEF PowerInv, PlanFits
  <2>4. Planned \in SUBSET Loads /\ Running \cup {awaiting.load} \in SUBSET Planned
    BY <2>1, <2>2 DEF Planned, Running, StartLoads, Command
  <2>5. /\ Total(Running \cup {awaiting.load}) <= Total(Planned)
        /\ Total(Running \cup {awaiting.load}) \in Nat /\ Total(Planned) \in Nat
    BY <2>4, TotalFacts
  <2>6. base \in Int /\ HardLimit \in Nat
    BY SiteAssumption DEF PowerInv, TypeOK
  <2>. QED BY <2>3, <2>5, <2>6
<1>. QED BY <1>1, Invariance, PowerInvariance, PTL

-----------------------------------------------------------------------------
(* What a cycle owes an Off override: the safety part of OffIsEnforced.    *)

SaysOff(l) == override[l] # None /\ override[l].state = Off

\* A cycle in which no stop failed has switched the load off, or has it still to do.
OffInHand ==
    cycle # None /\ ~cycle.releaseFailed =>
        \A l \in Loads : SaysOff(l) =>
            \/ cycle.feedback[l] = Off
            \/ \E c \in cycle.todo : c.load = l /\ ~c.enabled

\* A cycle that ends has switched off what its users wanted off, or a stop failed.
OffIsHandled ==
    EndCycle /\ ~cycle.releaseFailed =>
        \A l \in Loads : SaysOff(l) => cycle.feedback[l] = Off

\* A cycle begins with a stop for every Off that has not expired.
LEMMA BeginCycleHasStops == IInv /\ BeginCycle => OffInHand'
<1>. SUFFICES ASSUME IInv, BeginCycle, NEW l \in Loads, SaysOff(l)'
              PROVE  \E c \in cycle'.todo : c.load = l /\ ~c.enabled
  BY DEF OffInHand
<1>1. PICK wants, granted : cycle'.todo = Commands(wants, granted)
  BY DEF BeginCycle
<1>2. Purged(l) # None /\ Purged(l).state = Off
  BY DEF BeginCycle, SaysOff
<1>3. StopSource(l, wants) = Manual /\ Manual # None
  BY <1>2, NoneAssumption DEF StopSource
<1>4. [load |-> l, enabled |-> FALSE, source |-> StopSource(l, wants), requested |-> FALSE,
       automatic |-> automatic[l]] \in Commands(wants, granted)
  BY <1>3 DEF Commands
<1>. QED BY <1>1, <1>4

\* A command that is done is a stop that left its load off, a failed stop, or a start,
\* which goes to no load that is to be off.
LEMMA CommandDoneKeepsOff ==
    ASSUME IInv, OffInHand, cycle # None, NEW c \in cycle.todo, NEW seen \in Reading,
           Advance(c, seen), override' = override
    PROVE  OffInHand'
<1>1. cycle \in CycleRecord /\ c \in Command
  BY DEF IInv, ControlTypes, CycleRecord
<1>2. /\ cycle'.todo = cycle.todo \ {c}
      /\ cycle'.feedback = [cycle.feedback EXCEPT ![c.load] = seen]
      /\ cycle'.releaseFailed <=> (cycle.releaseFailed \/ (~c.enabled /\ seen # Off))
  BY <1>1 DEF Advance, CycleRecord
<1>. SUFFICES ASSUME ~cycle'.releaseFailed, NEW l \in Loads, SaysOff(l)
              PROVE  \/ cycle'.feedback[l] = Off
                     \/ \E d \in cycle'.todo : d.load = l /\ ~d.enabled
  BY DEF OffInHand, SaysOff
<1>3. ~cycle.releaseFailed /\ (~c.enabled => seen = Off)
  BY <1>2
<1>4. CASE c.load # l
  BY <1>1, <1>2, <1>3, <1>4 DEF OffInHand, CycleRecord
<1>5. CASE c.load = l
  <2>1. ~c.enabled
    BY <1>5 DEF IInv, CommandsJustified, Agrees, SaysOff
  <2>. QED BY <1>1, <1>2, <1>3, <1>5, <2>1 DEF CycleRecord
<1>. QED BY <1>4, <1>5

\* No step lets go of a load that is to be off.
LEMMA StepKeepsOffInHand == IInv /\ OffInHand /\ [Next]_vars => OffInHand'
<1>. SUFFICES ASSUME IInv, OffInHand, [Next]_vars PROVE OffInHand'
  OBVIOUS
<1>. USE NoneAssumption
<1>1. CASE BeginCycle
  BY <1>1, BeginCycleHasStops
<1>2. CASE SkipCommand
  <2>1. PICK c \in cycle.todo : Advance(c, cycle.feedback[c.load])
    BY <1>2 DEF SkipCommand
  <2>2. cycle # None /\ override' = override
    BY <1>2 DEF SkipCommand, user
  <2>3. cycle.feedback[c.load] \in Reading
    BY <2>1, <2>2 DEF IInv, ControlTypes, CycleRecord, Command
  <2>. QED BY <2>1, <2>2, <2>3, CommandDoneKeepsOff
<1>3. CASE CommandConfirmed \/ CommandFails
  <2>1. awaiting # None /\ override' = override
        /\ \E seen \in Reading : Advance(awaiting, seen)
    BY <1>3 DEF CommandConfirmed, CommandFails, user, Reading, Target
  <2>2. cycle # None /\ awaiting \in cycle.todo
    BY <2>1 DEF IInv, ControlTypes
  <2>. QED BY <2>1, <2>2, CommandDoneKeepsOff
<1>4. CASE EndCycle
  BY <1>4 DEF EndCycle, OffInHand
<1>5. CASE SendCommand \/ HouseStep \/ UNCHANGED vars
  <2>1. UNCHANGED <<override, cycle>>
    BY <1>5 DEF SendCommand, HouseStep, BaseChanges, MeterReports, MeterLost, OwnerSwitches,
                user, vars
  <2>. QED BY <2>1 DEF OffInHand, SaysOff
<1>6. CASE UserStep
  <2>1. CASE cycle = None
    <3>1. cycle' = None
      BY <1>6, <2>1 DEF UserStep, StartOverride, ClearOverride, SetAutomatic,
                        ClearAfterEnable, Reconfigure
    <3>. QED BY <3>1 DEF OffInHand
  <2>2. CASE cycle # None
    <3>1. PICK l \in Adjusted : Reconfigure(l)
      BY <1>6, <2>2 DEF UserStep, StartOverride, ClearOverride, SetAutomatic, ClearAfterEnable
    <3>2. cycle' = [cycle EXCEPT !.reconfigured = cycle.reconfigured \cup {l}]
          /\ override' = override
      BY <2>2, <3>1 DEF Reconfigure
    <3>3. cycle \in CycleRecord
      BY <2>2 DEF IInv, ControlTypes
    <3>. QED BY <2>2, <3>2, <3>3 DEF OffInHand, SaysOff, CycleRecord
  <2>. QED BY <2>1, <2>2
<1>7. CASE TimeStep
  <2>1. cycle' = cycle
    BY <1>7 DEF TimeStep, OverrideExpires, BackoffEnds
  <2>2. ASSUME NEW l \in Loads, SaysOff(l)' PROVE SaysOff(l)
    <3>1. CASE \E m \in Loads : OverrideExpires(m)
      <4>1. PICK m \in Loads : OverrideExpires(m)
        BY <3>1
      <4>2. /\ override[m] # None
            /\ override' = [override EXCEPT ![m] = [override[m] EXCEPT !.expired = TRUE]]
        BY <4>1 DEF OverrideExpires
      <4>3. override[m] \in OverrideRecord
        BY <4>2 DEF IInv, ControlTypes
      <4>. QED BY <2>2, <4>2, <4>3 DEF SaysOff, OverrideRecord, IInv, ControlTypes
    <3>2. CASE \E m \in Loads : BackoffEnds(m)
      BY <2>2, <3>2 DEF BackoffEnds, user, SaysOff
    <3>. QED BY <1>7, <3>1, <3>2 DEF TimeStep
  <2>. QED BY <2>1, <2>2 DEF OffInHand
<1>. QED BY <1>1, <1>2, <1>3, <1>4, <1>5, <1>6, <1>7 DEF Next, CycleStep

\* No cycle passes an Off override over: whatever the policies want, whether the inputs are
\* there, however overloaded the site is, a cycle that ends has observed off every load
\* whose user wants it off, unless one of its stops failed or came too soon after the last
\* attempt (releaseFailed).
THEOREM OffHandled == Spec => [][OffIsHandled]_vars
<1>1. Init => OffInHand
  BY DEF Init, OffInHand
<1>2. IInv /\ OffInHand /\ [Next]_vars => [OffIsHandled]_vars
  BY DEF OffInHand, OffIsHandled, EndCycle
<1>. QED BY <1>1, <1>2, Invariance, StepKeepsOffInHand, PTL DEF Spec

=============================================================================
