----------------------- MODULE CycleArbitrationProofs -----------------------
(***************************************************************************)
(* That the arbitrator, called as a control cycle calls it, accepts the    *)
(* loads that SiteControl says it accepts: the loop of SiteArbitrator with *)
(* its totals, order, stagger and reasons refines the one formula IsGrant, *)
(* for every site, every observation and every policy.                     *)
(***************************************************************************)
EXTENDS CycleArbitration, SiteArbitratorProofs

-----------------------------------------------------------------------------
(* The inductive invariant, over the one of the loop.                      *)

\* The loop runs on the arguments the cycle gave it, about a site that stands still.
CalledByCycle ==
    /\ meter \in Meters \cup {None}
    /\ Loads = Cycle!Requesting(wants)
    /\ decision = CycleDecision
    /\ request = [l \in Loads |-> CycleRequest(l)]

AcceptedLoads == {l \in Loads : Accepted(l)}

\* What IsGrant asks of a load, given the loads that are granted.
Fits(l, granted) ==
    LET before == {m \in granted : Cycle!Precedes(m, l, wants)} IN
    /\ meter # None
    /\ Cycle!Total(before) + Power[l] <= Cycle!Available(wants, seen)
    /\ ~(/\ Cycle!TakenForStart(l, wants)
         /\ \E m \in before : Cycle!TakenForStart(m, wants))

\* A binary load gets its whole power or nothing.
WholeGrants == \A l \in Loads : Granted(l) = IF Accepted(l) THEN Power[l] ELSE 0

\* Every load answered so far was answered by what precedes it alone.
AnsweredAsGranted == \A l \in Loads \ pending : Accepted(l) <=> Fits(l, AcceptedLoads)

EveryoneAnswered == outcome # None => pending = {}

CycleInv == CalledByCycle /\ WholeGrants /\ AnsweredAsGranted /\ EveryoneAnswered

-----------------------------------------------------------------------------
(* What the arguments of the cycle make of the loop's checks.              *)

\* The sums of the cycle are those of SumTheorems.
LEMMA TotalIsSum == \A S : Cycle!Total(S) = SumFunctionOnSet(Power, S)
BY DEF Cycle!Total, Cycle!SumFunctionOnSet, Cycle!FoldFunctionOnSet, Cycle!MapThenFoldSet,
   SumFunctionOnSet, FoldFunctionOnSet, MapThenFoldSet

\* The requests are those of binary loads, all alike but for power and source.
LEMMA RequestOfLoad ==
    ASSUME CalledByCycle, NEW l \in Loads
    PROVE  /\ l \in SiteLoads /\ l \in Nat /\ Power[l] \in Nat /\ Power[l] > 0
           /\ request[l] = CycleRequest(l)
           /\ Cycle!RequestSource(l, wants) \in {Automatic, Manual}
           /\ request[l].source = Cycle!RequestSource(l, wants)
           /\ IsBinary(request[l])
           /\ MinimumGrant(request[l]) = Power[l] /\ Target(request[l]) = Power[l]
           /\ IsRunning(request[l]) <=> output[l] = Cycle!On /\ l \in Metered
           /\ request[l].phase = None
           /\ request[l].mandatory = FALSE /\ request[l].deadline = None
           /\ request[l].priority = 50 /\ request[l].fairnessDebt = 0
<1>1. l \in SiteLoads /\ Cycle!RequestSource(l, wants) # None
  BY DEF CalledByCycle, Cycle!Requesting
<1>2. Cycle!RequestSource(l, wants) \in {Automatic, Manual}
  BY <1>1 DEF Cycle!RequestSource, Automatic, Manual, Cycle!Automatic, Cycle!Manual
<1>3. l \in Nat /\ Power[l] \in Nat /\ Power[l] > 0
  BY <1>1, SiteLoadsAssumption, PowerAssumption
<1>4. request[l] = CycleRequest(l)
  BY DEF CalledByCycle
<1>5. IsBinary(request[l]) /\ MinimumGrant(request[l]) = Power[l]
      /\ Target(request[l]) = Power[l]
  BY <1>3, <1>4 DEF CycleRequest, IsBinary, MinimumGrant, Target, MaximumGrant, Lesser
<1>6. IsRunning(request[l]) <=> output[l] = Cycle!On /\ l \in Metered
  BY <1>3, <1>4 DEF CycleRequest, IsRunning, Draws
<1>7. request[l].source = Cycle!RequestSource(l, wants) /\ request[l].phase = None
      /\ request[l].mandatory = FALSE /\ request[l].deadline = None
      /\ request[l].priority = 50 /\ request[l].fairnessDebt = 0
  BY <1>4 DEF CycleRequest
<1> QED
  BY <1>1, <1>2, <1>3, <1>4, <1>5, <1>6, <1>7

\* The order of the loop is the order of the cycle: manual first, then by id.
LEMMA BeforeIsPrecedes ==
    ASSUME CalledByCycle, NEW l \in Loads, NEW m \in Loads
    PROVE  Before(m, l) <=> Cycle!Precedes(m, l, wants)
<1> DEFINE s(x) == Cycle!RequestSource(x, wants)
           rank(x) == IF s(x) = Manual THEN 0 ELSE 1
           a == OrderKey(m)
           b == OrderKey(l)
<1>1. /\ s(m) \in {Automatic, Manual} /\ s(l) \in {Automatic, Manual}
      /\ m \in Nat /\ l \in Nat
  BY RequestOfLoad
<1>2. a = <<rank(m), 1, 1, 0, -50, -0, m>> /\ b = <<rank(l), 1, 1, 0, -50, -0, l>>
  <2> DEFINE key(source, x) ==
               <<IF source = Manual THEN 0 ELSE 1, 1, 1, 0, -50, -0, x>>
  <2>1. OrderKey(m) = key(request[m].source, m) /\ OrderKey(l) = key(request[l].source, l)
    BY RequestOfLoad DEF OrderKey
  <2>2. request[m].source = s(m) /\ request[l].source = s(l)
    BY RequestOfLoad
  <2> QED BY <2>1, <2>2
<1> HIDE DEF s
<1>3. Before(m, l) <=> rank(m) < rank(l) \/ (rank(m) = rank(l) /\ m < l)
  <2>1. /\ a[1] = rank(m) /\ b[1] = rank(l) /\ a[7] = m /\ b[7] = l
        /\ \A j \in 2..6 : a[j] = b[j]
        /\ \A j \in 2..6 : ~(a[j] < b[j])
    BY <1>2
  <2> HIDE DEF a, b
  <2>2. Before(m, l) <=> \E i \in 1..7 : a[i] < b[i] /\ \A j \in 1..(i-1) : a[j] = b[j]
    BY DEF Before, a, b
  <2>3. ASSUME NEW i \in 1..7, a[i] < b[i], \A j \in 1..(i-1) : a[j] = b[j]
        PROVE  rank(m) < rank(l) \/ (rank(m) = rank(l) /\ m < l)
    <3>1. i = 1 \/ i = 7
      BY <2>1, <2>3
    <3> QED BY <2>1, <2>3, <3>1
  <2>4. ASSUME rank(m) < rank(l) PROVE a[1] < b[1] /\ \A j \in 1..(1-1) : a[j] = b[j]
    BY <2>1, <2>4
  <2>5. ASSUME rank(m) = rank(l) /\ m < l PROVE a[7] < b[7] /\ \A j \in 1..(7-1) : a[j] = b[j]
    BY <2>1, <2>5
  <2> QED
    <3> HIDE DEF rank
    <3> QED BY <2>2, <2>3, <2>4, <2>5
<1>4. Cycle!Precedes(m, l, wants) <=> IF s(m) = s(l) THEN m < l ELSE s(m) = Manual
  BY DEF Cycle!Precedes, Cycle!Manual, Manual, s
<1> QED
  BY <1>1, <1>3, <1>4 DEF Automatic, Manual

\* A request passes the checks on its inputs exactly when the meter can be read.
LEMMA InputsArePresent ==
    ASSUME CalledByCycle, NEW l \in Loads
    PROVE  PreconditionReason(request[l]) = None <=> meter # None
<1>1. /\ decision.snapshotAvailable = (meter # None) /\ decision.observationReady = (meter # None)
      /\ decision.automaticEnabled = TRUE
      /\ ObservedAge = 0 /\ EffectiveAge = 0 /\ decision.maxInputAge = 900
  BY DEF CalledByCycle, CycleDecision, ObservedAge, EffectiveAge
<1> QED
  <2>1. None \notin ReasonCode
    BY NoneAssumption
  <2>2. CASE meter = None
    <3>1. InputReason = "input_missing"
      BY <1>1, <2>2 DEF InputReason
    <3>2. PreconditionReason(request[l])
            \in {"automatic_disabled", "startup_observing", "input_missing"}
      BY <3>1 DEF PreconditionReason
    <3> QED BY <2>1, <2>2, <3>2 DEF ReasonCode
  <2>3. CASE meter # None
    <3>1. decision.maxInputAge # None => ~(EffectiveAge > decision.maxInputAge)
      BY <1>1
    <3>2. InputReason = None
      BY <1>1, <2>3, <3>1, 0 \in Int, ~(0 < 0) DEF InputReason
    <3> QED BY <1>1, <2>3, <3>2 DEF PreconditionReason
  <2> QED BY <2>2, <2>3

\* The capacity of the decision is the one SiteControl computes of the observation.
LEMMA CapacityOfCycle ==
    ASSUME CalledByCycle, TypeOK, meter # None, NEW l \in Loads
    PROVE  /\ GrantFor(request[l]) \in {0, Power[l]}
           /\ GrantFor(request[l]) # 0
                <=> totalGranted + Power[l] <= Cycle!Available(wants, seen)
<1> DEFINE managed == ManagedPower
           limit == ImportLimit
           base == AtLeastZero(meter - managed)
           sun == AtLeastZero(-meter)
           spare == limit - base + sun
<1>1. meter \in Int /\ limit \in Nat
  BY SiteAssumption DEF CalledByCycle
<1>2. managed \in Nat
  <2> DEFINE S == {k \in Loads \cap Metered : seen[k] = Cycle!On}
  <2>1. Loads \subseteq SiteLoads
    BY RequestOfLoad
  <2>2. S \in SUBSET SiteLoads /\ IsFiniteSet(S)
    BY <2>1, SiteLoadsAssumption, FS_Subset
  <2>3. Power \in [SiteLoads -> Nat]
    BY PowerAssumption
  <2> HIDE DEF S
  <2>4. SumFunctionOnSet(Power, S) \in Nat
    BY <2>2, <2>3, SumRemovesElement
  <2> QED
    BY <2>4, TotalIsSum DEF ManagedPower, S
<1>3. Cycle!Available(wants, seen) = AtLeastZero(spare)
  <2>1. Cycle!Available(wants, seen)
          = Cycle!AtLeastZero(limit - Cycle!AtLeastZero(meter - managed)
                                    + Cycle!AtLeastZero(-meter))
    BY DEF Cycle!Available, ManagedPower, CalledByCycle
  <2> HIDE DEF managed
  <2> QED
    BY <2>1 DEF Cycle!AtLeastZero, AtLeastZero
<1>4. base \in Nat /\ sun \in Nat /\ base # None /\ sun # None
  <2> HIDE DEF managed
  <2>1. base \in Nat /\ sun \in Nat
    BY <1>1, <1>2, AtLeastZeroType
  <2> QED BY <2>1, NoneAssumption
<1>5. decision.uncontrolledImport = base /\ decision.availableSolar = sun
  BY DEF CalledByCycle, CycleDecision
<1> HIDE DEF base, sun
<1>6. BaselineImport = base /\ AvailableSolar = sun
  BY <1>4, <1>5 DEF BaselineImport, AvailableSolar, AtLeastZero
<1>7. LimitFor(request[l]) = limit
  BY DEF CalledByCycle, CycleDecision, LimitFor, HardLimit, ControlledLimit
<1>8. ~PhaseLimited(request[l])
  BY RequestOfLoad DEF PhaseLimited
<1>9. EffectiveHeadroom(request[l]) = AtLeastZero(spare - totalGranted)
  <2>1. EffectiveHeadroom(request[l]) = Headroom(LimitFor(request[l]))
    BY <1>8 DEF EffectiveHeadroom
  <2>2. Headroom(limit) = AtLeastZero(limit - BaselineImport + AvailableSolar - totalGranted)
    BY DEF Headroom
  <2>3. limit - base + sun - totalGranted = spare - totalGranted
    BY <1>1, <1>4 DEF TypeOK
  <2> HIDE DEF spare, limit
  <2> QED BY <1>6, <1>7, <2>1, <2>2, <2>3
<1>10. GrantFor(request[l])
        = IF AtLeastZero(spare - totalGranted) >= Power[l] THEN Power[l] ELSE 0
  BY <1>9, RequestOfLoad DEF GrantFor
<1>11. totalGranted \in Nat /\ spare \in Int /\ Power[l] \in Nat /\ Power[l] > 0
  <2>1. totalGranted \in Nat
    BY DEF TypeOK
  <2>2. spare \in Int
    BY <1>1, <1>4
  <2>3. Power[l] \in Nat /\ Power[l] > 0
    BY RequestOfLoad
  <2> QED BY <2>1, <2>2, <2>3
<1> HIDE DEF spare
<1> QED
  BY <1>3, <1>10, <1>11 DEF AtLeastZero

\* The loop takes for a start what the cycle takes for one.
LEMMA StartIsTakenForStart ==
    ASSUME CalledByCycle, NEW l \in Loads
    PROVE  IsAutomaticStart(request[l]) <=> Cycle!TakenForStart(l, wants)
BY RequestOfLoad DEF IsAutomaticStart, Cycle!TakenForStart, Automatic, Cycle!Automatic

\* The stagger holds an automatic start back exactly when one was already accepted.
LEMMA StaggerOfCycle ==
    ASSUME CalledByCycle, StartsRecorded, NEW l \in Loads
    PROVE  StaggerBlocks(request[l]) <=>
               /\ Cycle!TakenForStart(l, wants)
               /\ \E m \in AcceptedLoads : Cycle!TakenForStart(m, wants)
<1>1. decision.at = 0 /\ decision.lastAutomaticStartAt = None /\ decision.startStagger = Stagger
  BY DEF CalledByCycle, CycleDecision
<1>2. 0 # None /\ Stagger \in Nat /\ Stagger > 0
  BY SiteAssumption, NoneAssumption
<1>3. (\E m \in AcceptedLoads : Cycle!TakenForStart(m, wants))
        <=> \E m \in Loads : Accepted(m) /\ IsAutomaticStart(request[m])
  BY StartIsTakenForStart DEF AcceptedLoads
<1>4. lastAutomaticStartAt = IF \E m \in Loads : Accepted(m) /\ IsAutomaticStart(request[m])
                             THEN 0 ELSE None
  BY <1>1 DEF StartsRecorded
<1> QED
  BY <1>1, <1>2, <1>3, <1>4, StartIsTakenForStart DEF StaggerBlocks

\* What the loop has granted is the power of the loads it accepted.
LEMMA GrantedIsTheirPower ==
    ASSUME CalledByCycle, WholeGrants, TypeOK, TotalsAddUp
    PROVE  totalGranted = Cycle!Total(AcceptedLoads)
<1> DEFINE granted == [l \in Loads |-> Granted(l)]
           A == AcceptedLoads
<1>1. /\ granted \in [Loads -> Nat] /\ A \in SUBSET Loads /\ IsFiniteSet(Loads)
      /\ IsFiniteSet(A) /\ IsFiniteSet(Loads \ A) /\ Loads \ A \in SUBSET Loads
  BY AnswerTypes, LoadsAssumption, FS_Subset DEF AcceptedLoads
<1>2. /\ \A l \in A : granted[l] = Power[l]
      /\ \A l \in Loads \ A : granted[l] = 0
  BY DEF WholeGrants, AcceptedLoads
<1>3. totalGranted = SumFunctionOnSet(granted, Loads)
  BY DEF TotalsAddUp, GrantedTo
<1> HIDE DEF granted, A
<1>4. SumFunctionOnSet(granted, Loads)
        = SumFunctionOnSet(granted, A) + SumFunctionOnSet(granted, Loads \ A)
  BY <1>1, SumOfParts
<1>5. SumFunctionOnSet(granted, Loads \ A) = 0
  BY <1>1, <1>2, SumOfZeros
<1>6. SumFunctionOnSet(granted, A) = SumFunctionOnSet(Power, A)
  BY <1>1, <1>2, SumOfEqualValues
<1>7. SumFunctionOnSet(granted, A) \in Nat
  BY <1>1, SumRemovesElement
<1> QED
  BY <1>3, <1>4, <1>5, <1>6, <1>7, TotalIsSum DEF A

\* The next request is denied exactly when it does not fit after all accepted ones.
LEMMA NextIsAnsweredByFit ==
    ASSUME CalledByCycle, WholeGrants, IInv, TotalsAddUp, NEW l \in Loads, l \in pending
    PROVE  /\ DenialReason(request[l]) = None <=> Fits(l, AcceptedLoads)
           /\ {m \in AcceptedLoads : Cycle!Precedes(m, l, wants)} = AcceptedLoads
<1>1. {m \in AcceptedLoads : Cycle!Precedes(m, l, wants)} = AcceptedLoads
  <2> SUFFICES ASSUME NEW m \in AcceptedLoads PROVE Cycle!Precedes(m, l, wants)
    OBVIOUS
  <2>1. m \in Loads \ pending
    BY DEF AcceptedLoads, Accepted, IInv, AnswersRecorded
  <2>2. Before(m, l)
    BY <2>1 DEF IInv, AnsweredInOrder
  <2> QED
    BY <2>1, <2>2, BeforeIsPrecedes
<1>2. totalGranted = Cycle!Total(AcceptedLoads)
  BY GrantedIsTheirPower DEF IInv
<1>3. ~WouldExceedBinaryCount(request[l])
  BY DEF WouldExceedBinaryCount, CalledByCycle, CycleDecision
<1>4. CapacityReason(request[l]) # None /\ "start_stagger" # None
  BY NoneAssumption DEF CapacityReason, ReasonCode
<1>5. DenialReason(request[l]) = None
        <=> /\ PreconditionReason(request[l]) = None
            /\ ~StaggerBlocks(request[l])
            /\ GrantFor(request[l]) # 0
  BY <1>3, <1>4 DEF DenialReason
<1>6. StaggerBlocks(request[l]) <=>
          /\ Cycle!TakenForStart(l, wants)
          /\ \E m \in AcceptedLoads : Cycle!TakenForStart(m, wants)
  BY StaggerOfCycle DEF IInv
<1>7. PreconditionReason(request[l]) = None <=> meter # None
  BY InputsArePresent
<1>8. meter # None =>
          (GrantFor(request[l]) # 0
             <=> Cycle!Total(AcceptedLoads) + Power[l] <= Cycle!Available(wants, seen))
  BY <1>2, CapacityOfCycle DEF IInv
<1> QED
  BY <1>1, <1>5, <1>6, <1>7, <1>8 DEF Fits

-----------------------------------------------------------------------------
(* The steps.                                                              *)

\* Before the loop nobody has an answer.
LEMMA InitEstablishesCycleInv == CycleInit => Init /\ CycleInv
<1> SUFFICES ASSUME CycleInit PROVE CycleInv
  BY DEF CycleInit
<1>1. CalledByCycle
  BY DEF CycleInit, SiteInit, CalledByCycle
<1>2. pending = Loads /\ outcome = None /\ \A l \in Loads : allocations[l] = None
  BY DEF CycleInit, Init
<1> QED
  BY <1>1, <1>2
     DEF CycleInv, WholeGrants, AnsweredAsGranted, EveryoneAnswered, Granted, Accepted

\* An answer is what IsGrant says, and stays so: whoever is accepted later comes later.
LEMMA AnswerPreservesCycleInv ==
    ASSUME IInv, IInv', TotalsAddUp, CycleInv, UNCHANGED site,
           NEW l \in Loads, Deny(l) \/ Accept(l)
    PROVE  CycleInv'
<1> USE DEF CycleInv
<1>1. /\ UNCHANGED <<decision, request, outcome, output, meter, seen, wants, automatic, override>>
      /\ l \in pending /\ pending' = pending \ {l}
      /\ allocations[l] = None /\ allocations'[l] # None
      /\ \A m \in Loads \ {l} : allocations'[m] = allocations[m]
  <2>1. UNCHANGED <<decision, request, outcome>> /\ l \in pending /\ pending' = pending \ {l}
    BY DEF Deny, Accept, IsNext, input
  <2>2. /\ allocations[l] = None /\ allocations'[l] # None
        /\ \A m \in Loads \ {l} : allocations'[m] = allocations[m]
    BY DenialRecorded, GrantRecorded
  <2> QED BY <2>1, <2>2 DEF site
<1>2. Accepted(l)' <=> DenialReason(request[l]) = None
  <2>1. CASE Deny(l)
    BY <2>1 DEF Deny, Accepted, IInv, TypeOK
  <2>2. CASE Accept(l)
    <3>1. allocations'[l].accepted /\ DenialReason(request[l]) = None
      BY <2>2 DEF Accept, IInv, TypeOK
    <3> QED BY <1>1, <3>1 DEF Accepted
  <2> QED BY <2>1, <2>2
<1>3. \A m \in Loads \ {l} : (Accepted(m)' <=> Accepted(m)) /\ Granted(m)' = Granted(m)
  BY <1>1 DEF Accepted, Granted
<1>4. CalledByCycle'
  <2>1. \A k : Cycle!Purged(k)' = Cycle!Purged(k)
    BY <1>1 DEF Cycle!Purged
  <2>2. Cycle!Requesting(wants)' = Cycle!Requesting(wants)
    BY <1>1, <2>1 DEF Cycle!Requesting, Cycle!RequestSource
  <2>3. \A k : CycleRequest(k)' = CycleRequest(k)
    BY <1>1, <2>1 DEF CycleRequest, Draws, Cycle!RequestSource
  <2>4. CycleDecision' = CycleDecision
    BY <1>1 DEF CycleDecision, ManagedPower
  <2> QED BY <1>1, <2>2, <2>3, <2>4 DEF CalledByCycle
<1>5. WholeGrants'
  <2>1. CASE Deny(l)
    <3>1. ~Accepted(l)' /\ Granted(l)' = 0
      BY <1>1, <2>1, DenialRecorded DEF Deny, Accepted, Granted, IInv, TypeOK
    <3> QED BY <1>3, <3>1 DEF WholeGrants
  <2>2. CASE Accept(l)
    <3>1. Granted(l)' = GrantFor(request[l])
      BY <1>1, <2>2, GrantRecorded DEF Granted
    <3>2. GrantFor(request[l]) # 0 /\ PreconditionReason(request[l]) = None
      BY <2>2, NotDenied DEF Accept, DenialReason
    <3>3. GrantFor(request[l]) = Power[l]
      BY <3>2, InputsArePresent, CapacityOfCycle DEF IInv
    <3>4. Accepted(l)'
      BY <1>2, <2>2 DEF Accept
    <3> QED BY <1>3, <3>1, <3>3, <3>4 DEF WholeGrants
  <2> QED BY <2>1, <2>2
<1>6. AnsweredAsGranted'
  <2> DEFINE before(m, S) == {k \in S : Cycle!Precedes(k, m, wants)}
  <2>1. AcceptedLoads' = IF Accepted(l)' THEN AcceptedLoads \cup {l} ELSE AcceptedLoads
    BY <1>1, <1>3 DEF AcceptedLoads, Accepted
  <2>2. \A m \in Loads : \A S : Fits(m, S)' = Fits(m, S)
    BY <1>1 DEF Fits, Cycle!Precedes, Cycle!RequestSource, Cycle!Purged, Cycle!Total,
       Cycle!Available, Cycle!Requesting, Cycle!TakenForStart
  <2>3. ASSUME NEW m \in Loads, NEW S, NEW T, before(m, S) = before(m, T)
        PROVE  Fits(m, S) <=> Fits(m, T)
    BY <2>3 DEF Fits
  <2>4. ASSUME NEW m \in Loads \ pending PROVE ~Cycle!Precedes(l, m, wants)
    <3>1. Before(m, l) /\ TypeOK
      BY <1>1, <2>4 DEF IInv, AnsweredInOrder
    <3>2. ~Before(l, m)
      BY <3>1, BeforeIsAsymmetric
    <3> QED BY <3>2, BeforeIsPrecedes
  <2>5. ~Cycle!Precedes(l, l, wants)
    <3>1. l \in Nat
      BY RequestOfLoad
    <3> QED BY <3>1 DEF Cycle!Precedes
  <2>6. ASSUME NEW m \in Loads \ pending
        PROVE  Accepted(m)' <=> Fits(m, AcceptedLoads')
    <3>1. before(m, AcceptedLoads') = before(m, AcceptedLoads)
      BY <2>1, <2>4, <2>6
    <3>2. Fits(m, AcceptedLoads') <=> Fits(m, AcceptedLoads)
      BY <2>3, <3>1
    <3>3. Accepted(m)' <=> Accepted(m)
      BY <1>1, <1>3, <2>6
    <3> QED BY <2>6, <3>2, <3>3 DEF AnsweredAsGranted
  <2>7. Accepted(l)' <=> Fits(l, AcceptedLoads')
    <3>1. before(l, AcceptedLoads') = before(l, AcceptedLoads)
      BY <2>1, <2>5
    <3>2. Fits(l, AcceptedLoads') <=> Fits(l, AcceptedLoads)
      BY <2>3, <3>1
    <3>3. DenialReason(request[l]) = None <=> Fits(l, AcceptedLoads)
      BY <1>1, NextIsAnsweredByFit
    <3> QED BY <1>2, <3>2, <3>3
  <2>8. Loads \ pending' \subseteq (Loads \ pending) \cup {l}
    BY <1>1
  <2> QED BY <2>2, <2>6, <2>7, <2>8 DEF AnsweredAsGranted
<1>7. EveryoneAnswered'
  BY <1>1 DEF EveryoneAnswered
<1> QED BY <1>4, <1>5, <1>6, <1>7

\* The return changes no answer.
LEMMA StepPreservesCycleInv ==
    IInv /\ IInv' /\ TotalsAddUp /\ CycleInv /\ [CycleNext]_cycleVars => CycleInv'
<1> SUFFICES ASSUME IInv, IInv', TotalsAddUp, CycleInv, [CycleNext]_cycleVars
             PROVE  CycleInv'
  OBVIOUS
<1>1. UNCHANGED site /\ (Next \/ UNCHANGED vars)
  BY DEF CycleNext, cycleVars
<1>2. ASSUME NEW l \in Loads, Deny(l) \/ Accept(l) PROVE CycleInv'
  BY <1>1, <1>2, AnswerPreservesCycleInv
<1>3. CASE Finish \/ UNCHANGED vars
  <2>1. /\ UNCHANGED <<decision, request, pending, allocations, automatic, override, output,
                       meter, seen, wants>>
        /\ outcome' # None => pending = {}
    BY <1>1, <1>3 DEF Finish, vars, input, site, CycleInv, EveryoneAnswered
  <2>2. \A k : Cycle!Purged(k)' = Cycle!Purged(k)
    BY <2>1 DEF Cycle!Purged
  <2>3. \A k : Cycle!RequestSource(k, wants)' = Cycle!RequestSource(k, wants)
    BY <2>1, <2>2 DEF Cycle!RequestSource
  <2>4. CalledByCycle'
    <3>1. Cycle!Requesting(wants)' = Cycle!Requesting(wants)
      BY <2>1, <2>3 DEF Cycle!Requesting
    <3>2. \A k : CycleRequest(k)' = CycleRequest(k)
      BY <2>1, <2>3 DEF CycleRequest, Draws
    <3>3. CycleDecision' = CycleDecision
      BY <2>1 DEF CycleDecision, ManagedPower
    <3> QED BY <2>1, <3>1, <3>2, <3>3 DEF CalledByCycle, CycleInv
  <2>5. \A k \in Loads : Accepted(k)' = Accepted(k) /\ Granted(k)' = Granted(k)
    BY <2>1 DEF Accepted, Granted
  <2>6. AcceptedLoads' = AcceptedLoads
    BY <2>5 DEF AcceptedLoads
  <2>7. \A k \in Loads : \A S : Fits(k, S)' = Fits(k, S)
    BY <2>1 DEF Fits, Cycle!Precedes, Cycle!RequestSource, Cycle!Purged, Cycle!Total,
       Cycle!Available, Cycle!Requesting, Cycle!TakenForStart
  <2> QED
    BY <2>1, <2>4, <2>5, <2>6, <2>7
       DEF CycleInv, WholeGrants, AnsweredAsGranted, EveryoneAnswered
<1> QED BY <1>1, <1>2, <1>3 DEF Next

\* With every load answered, the accepted loads are a grant of the cycle.
LEMMA AnswersAreGrant == CycleInv => GrantsOfTheCycle
<1> SUFFICES ASSUME CycleInv, outcome = "returned"
             PROVE  Cycle!IsGrant(AcceptedLoads, wants, seen)
  BY DEF GrantsOfTheCycle, AcceptedLoads
<1>1. pending = {} /\ Loads = Cycle!Requesting(wants)
  BY NoneAssumption DEF CycleInv, EveryoneAnswered, CalledByCycle
<1>2. \A l \in Loads : l \in AcceptedLoads <=> Fits(l, AcceptedLoads)
  BY <1>1 DEF CycleInv, AnsweredAsGranted, AcceptedLoads
<1> QED
  BY <1>1, <1>2 DEF Cycle!IsGrant, Fits

\* Whatever the site, its policy and its meter, the loads that the loop of arbitrate()
\* accepts are those of SiteControl's IsGrant: the control cycle and the arbitrator,
\* modelled and proved apart, fit together.
THEOREM GrantsAreTheCycles == CycleSpec => []GrantsOfTheCycle
<1>1. CycleInit => IInv /\ TotalsAddUp /\ CycleInv
  BY InitEstablishesCycleInv, InitEstablishesIInv, InitAddsUp
<1>2. ASSUME IInv, TotalsAddUp, CycleInv, [CycleNext]_cycleVars
      PROVE  IInv' /\ TotalsAddUp' /\ CycleInv'
  <2>1. [Next]_vars
    BY <1>2 DEF CycleNext, cycleVars
  <2>2. IInv' /\ TotalsAddUp'
    BY <1>2, <2>1, StepPreservesIInv, StepAddsUp
  <2> QED BY <1>2, <2>2, StepPreservesCycleInv
<1>3. CycleInv => GrantsOfTheCycle
  BY AnswersAreGrant
<1> QED
  BY <1>1, <1>2, <1>3, PTL DEF CycleSpec

-----------------------------------------------------------------------------
(* SiteControl lets a cycle grant any set that satisfies IsGrant.  There is *)
(* never more than one, so the formula leaves out nothing that the order of *)
(* the loop decides.                                                        *)

\* A set of naturals that is not empty has a smallest element.
LEMMA LeastNatural ==
    ASSUME NEW S \in SUBSET Nat, S # {}
    PROVE  \E x \in S : \A y \in S : x <= y
<1> DEFINE R == OpToRel(<, Nat)
<1>1. \A x, y \in Nat : <<y, x>> \in R <=> y < x
  BY DEF OpToRel
<1>2. IsWellFoundedOn(R, Nat)
  BY NatLessThanWellFounded
<1> HIDE DEF R
<1>3. PICK x \in S : \A y \in S : ~ (<<y, x>> \in R)
  BY <1>2, WFMin
<1>4. ASSUME NEW y \in S PROVE x <= y
  <2>1. x \in Nat /\ y \in Nat /\ <<y, x>> \notin R
    BY <1>3
  <2>2. ~(y < x)
    BY <1>1, <2>1
  <2> QED BY <2>1, <2>2
<1> QED BY <1>4

\* Among some requesting loads one precedes all the others.
LEMMA FirstOfSome ==
    ASSUME NEW D \in SUBSET Cycle!Requesting(wants), D # {}
    PROVE  \E l \in D : \A m \in D : m = l \/ Cycle!Precedes(l, m, wants)
<1> DEFINE s(x) == Cycle!RequestSource(x, wants)
           M == {l \in D : s(l) = Manual}
           lead == IF M # {} THEN M ELSE D
<1>1. D \subseteq SiteLoads /\ \A l \in D : s(l) \in {Automatic, Manual}
  BY DEF Cycle!Requesting, Cycle!RequestSource, Automatic, Manual, Cycle!Automatic,
     Cycle!Manual
<1>2. lead \in SUBSET Nat /\ lead # {} /\ lead \in SUBSET D
  BY <1>1, SiteLoadsAssumption
<1>3. PICK l \in lead : \A m \in lead : l <= m
  <2> HIDE DEF lead
  <2> QED BY <1>2, LeastNatural
<1>4. ASSUME NEW m \in D, m # l PROVE Cycle!Precedes(l, m, wants)
  <2>1. Cycle!Precedes(l, m, wants) <=> IF s(l) = s(m) THEN l < m ELSE s(l) = Manual
    BY DEF Cycle!Precedes, Cycle!Manual, Manual
  <2>2. s(l) = s(m) => m \in lead
    BY <1>3, <1>4
  <2>3. s(l) # s(m) => s(l) = Manual
    BY <1>1, <1>2, <1>3, <1>4
  <2>4. l \in Nat /\ (m \in lead => m \in Nat)
    BY <1>2, <1>3
  <2> HIDE DEF s, lead
  <2> QED BY <1>3, <1>4, <2>1, <2>2, <2>3, <2>4
<1> QED BY <1>2, <1>3, <1>4

\* Two grants of a cycle are the same: they could first differ at a load that finds the
\* same loads granted before it in both.  So IsGrant names what arbitrate() accepts, and
\* BeginCycle of SiteControl has no choice that the code does not have.
THEOREM OneGrantOfACycle ==
    ASSUME NEW A \in SUBSET Cycle!Requesting(wants), Cycle!IsGrant(A, wants, seen),
           NEW B \in SUBSET Cycle!Requesting(wants), Cycle!IsGrant(B, wants, seen)
    PROVE  A = B
<1> DEFINE D == (A \ B) \cup (B \ A)
           before(S, l) == {m \in S : Cycle!Precedes(m, l, wants)}
<1> SUFFICES ASSUME D # {} PROVE FALSE
  OBVIOUS
<1>1. D \in SUBSET Cycle!Requesting(wants)
  OBVIOUS
<1>2. PICK l \in D : \A m \in D : m = l \/ Cycle!Precedes(l, m, wants)
  <2> HIDE DEF D
  <2> QED BY <1>1, FirstOfSome
<1>3. before(A, l) = before(B, l)
  <2> SUFFICES ASSUME NEW m \in D, Cycle!Precedes(m, l, wants) PROVE FALSE
    OBVIOUS
  <2>1. m \in Nat /\ l \in Nat
    BY <1>1, SiteLoadsAssumption DEF Cycle!Requesting
  <2>2. CASE m = l
    BY <2>1, <2>2 DEF Cycle!Precedes
  <2>3. CASE m # l
    BY <1>2, <2>1, <2>3 DEF Cycle!Precedes
  <2> QED BY <2>2, <2>3
<1>4. l \in A <=> l \in B
  BY <1>1, <1>2, <1>3 DEF Cycle!IsGrant
<1> QED BY <1>2, <1>4
=============================================================================
