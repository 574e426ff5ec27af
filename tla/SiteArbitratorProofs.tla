------------------------ MODULE SiteArbitratorProofs ------------------------
(***************************************************************************)
(* Proofs that hold for every set of requests, every site and every        *)
(* observed state: the type invariant and the limits of SiteArbitrator,    *)
(* and that its hard capacity and its solar surplus are power pools.       *)
(***************************************************************************)
EXTENDS SiteArbitrator, SumTheorems

-----------------------------------------------------------------------------
(* The quantities the loop computes with are naturals.                     *)

\* max(0.0, x) of the code is a natural number that is at least x.
LEMMA AtLeastZeroType ==
    ASSUME NEW x \in Int
    PROVE  AtLeastZero(x) \in Nat /\ AtLeastZero(x) >= x /\ (x >= 0 => AtLeastZero(x) = x)
BY DEF AtLeastZero

\* min(a, b) of the code is one of the two and at most each.
LEMMA LesserType ==
    ASSUME NEW a \in Nat, NEW b \in Nat
    PROVE  Lesser(a, b) \in Nat /\ Lesser(a, b) <= a /\ Lesser(a, b) <= b
BY DEF Lesser

\* The quantities computed before the loop are naturals; the controlled limit is
\* never above the hard limit.
LEMMA SiteQuantities ==
    ASSUME decision \in Decisions
    PROVE  /\ BaselineImport \in Nat
           /\ AvailableSolar \in Nat
           /\ HardLimit \in Nat
           /\ ControlledLimit \in Nat
           /\ ControlledLimit <= HardLimit
<1>1. decision \in ArbitrationInput
  BY DecisionsAssumption
<1>2. BaselineImport \in Nat
  BY <1>1 DEF BaselineImport, AtLeastZero, ArbitrationInput, Optional
<1>3. AvailableSolar \in Nat
  BY <1>1 DEF AvailableSolar, AtLeastZero, ArbitrationInput, Optional
<1>4. HardLimit \in Nat
  BY <1>1 DEF HardLimit, ArbitrationInput
<1>5. ControlledLimit \in Nat /\ ControlledLimit <= HardLimit
  BY <1>1, <1>4, DecisionsAssumption DEF ControlledLimit, HardLimit, ArbitrationInput, Optional
<1> QED
  BY <1>2, <1>3, <1>4, <1>5

\* What a request may ask is a natural number.
LEMMA RequestQuantities ==
    ASSUME NEW r \in Requests
    PROVE  /\ r \in LoadRequest
           /\ MinimumGrant(r) \in Nat
           /\ MaximumGrant(r) \in Nat
           /\ Target(r) \in Nat
           /\ IsBinary(r) \in BOOLEAN /\ IsRunning(r) \in BOOLEAN
<1>1. r \in LoadRequest
  BY RequestsAssumption
<1>2. MinimumGrant(r) \in Nat /\ MaximumGrant(r) \in Nat
  BY <1>1 DEF MinimumGrant, MaximumGrant, LoadRequest, Optional, IsBinary
<1>3. Target(r) \in Nat
  BY <1>1, <1>2, LesserType DEF Target, LoadRequest
<1> QED
  BY <1>1, <1>2, <1>3 DEF IsBinary, IsRunning, LoadRequest

-----------------------------------------------------------------------------
(* What a grant is bounded by, at the moment it is given.                  *)

\* _grant_for_request returns a natural that never exceeds what the request, the
\* site limit of its source and, where there is one, its phase still allow.
LEMMA GrantBounds ==
    ASSUME TypeOK, NEW l \in Loads, GrantFor(request[l]) # 0
    PROVE  LET r == request[l]
               g == GrantFor(r) IN
           /\ g \in Nat /\ g > 0
           /\ totalGranted + g <= LimitFor(r) - BaselineImport + AvailableSolar
           /\ totalGranted + g <= Capacity(LimitFor(r))
           /\ PhaseLimited(r) =>
                 phaseGranted[r.phase] + g <= PhaseCapacity(r.phase)
<1> DEFINE r == request[l]
           g == GrantFor(r)
           spare == LimitFor(r) - BaselineImport + AvailableSolar - totalGranted
           eff == EffectiveHeadroom(r)
<1>0. decision \in Decisions /\ r \in Requests /\ totalGranted \in Nat
      /\ phaseGranted \in [Phases -> Nat]
  BY DEF TypeOK
<1>1. /\ BaselineImport \in Nat /\ AvailableSolar \in Nat /\ HardLimit \in Nat
      /\ ControlledLimit \in Nat
  BY <1>0, SiteQuantities
<1>2. r \in LoadRequest /\ MinimumGrant(r) \in Nat /\ Target(r) \in Nat
  BY <1>0, RequestQuantities
<1>3. LimitFor(r) \in Nat
  BY <1>1 DEF LimitFor
<1>4. spare \in Int /\ Headroom(LimitFor(r)) \in Nat
      /\ (spare > 0 => Headroom(LimitFor(r)) = spare)
      /\ (spare <= 0 => Headroom(LimitFor(r)) = 0)
  BY <1>0, <1>1, <1>3 DEF Headroom, AtLeastZero
<1>5. ASSUME PhaseLimited(r)
      PROVE  /\ r.phase \in Phases
             /\ decision.phaseLimit[r.phase] \in Nat
             /\ decision.phaseImport[r.phase] \in Int
             /\ phaseGranted[r.phase] \in Nat
  BY <1>0, <1>2, <1>5, DecisionsAssumption
     DEF PhaseLimited, LoadRequest, ArbitrationInput, Optional
<1>6. ASSUME PhaseLimited(r)
      PROVE  /\ PhaseHeadroom(r) \in Nat
             /\ PhaseHeadroom(r) > 0 =>
                  phaseGranted[r.phase] + PhaseHeadroom(r) <= PhaseCapacity(r.phase)
  BY <1>5, <1>6 DEF PhaseHeadroom, PhaseCapacity, AtLeastZero
<1>7. /\ eff \in Nat
      /\ eff <= Headroom(LimitFor(r))
      /\ PhaseLimited(r) => eff <= PhaseHeadroom(r)
  BY <1>4, <1>6, LesserType DEF EffectiveHeadroom
<1>8. g \in Nat /\ g > 0 /\ g <= eff
  <2>1. Lesser(Target(r), eff) \in Nat /\ Lesser(Target(r), eff) <= eff
    BY <1>2, <1>7, LesserType
  <2>2. g # 0
    OBVIOUS
  <2> QED
    BY <1>2, <1>7, <2>1, <2>2 DEF GrantFor
<1>9. totalGranted + g <= LimitFor(r) - BaselineImport + AvailableSolar
  <2>1. g <= Headroom(LimitFor(r))
    BY <1>4, <1>7, <1>8
  <2>2. spare > 0
    BY <1>4, <1>8, <2>1
  <2>3. g <= spare
    BY <1>4, <2>1, <2>2
  <2> QED
    BY <1>0, <1>1, <1>3, <1>8, <2>3
<1>10. totalGranted + g <= Capacity(LimitFor(r))
  BY <1>0, <1>1, <1>3, <1>8, <1>9 DEF Capacity, AtLeastZero
<1>11. PhaseLimited(r) => phaseGranted[r.phase] + g <= PhaseCapacity(r.phase)
  <2> SUFFICES ASSUME PhaseLimited(r)
               PROVE  phaseGranted[r.phase] + g <= PhaseCapacity(r.phase)
    OBVIOUS
  <2>1. PhaseCapacity(r.phase) \in Int
    BY <1>5 DEF PhaseCapacity, AtLeastZero
  <2> QED
    BY <1>5, <1>6, <1>7, <1>8, <2>1
<1> QED
  BY <1>8, <1>9, <1>10, <1>11

\* A request that is not denied passed every check of the loop.
LEMMA NotDenied ==
    ASSUME NEW r, DenialReason(r) = None
    PROVE  /\ ~StaggerBlocks(r)
           /\ ~WouldExceedBinaryCount(r)
           /\ GrantFor(r) # 0
BY NoneAssumption DEF DenialReason, CapacityReason, ReasonCode

\* Every reason the loop can give is a member of ReasonCode.
LEMMA DenialReasonType ==
    ASSUME NEW r
    PROVE  DenialReason(r) \in ReasonCode \cup {None}
BY DEF DenialReason, PreconditionReason, InputReason, CapacityReason, ReasonCode

-----------------------------------------------------------------------------
(* The inductive invariant, about the loop's own totals; that these are     *)
(* what the answers add up to comes after it.  The limits are not inductive *)
(* on their own: the controlled limit needs the order of the answers (a     *)
(* manual request, which may go over it, is never pending once an automatic *)
(* one was granted), the stagger needs the recorded start instant to be     *)
(* that of the last start.                                                  *)

\* Loads still waiting come after all loads already answered.
AnsweredInOrder ==
    \A l \in Loads \ pending, m \in pending : Before(l, m)

\* Exactly the pending loads are without an answer.
AnswersRecorded ==
    \A l \in Loads : allocations[l] = None <=> l \in pending

\* last_automatic_start_at is this decision's instant once it started a load.
StartsRecorded ==
    IF \E l \in Loads : Accepted(l) /\ IsAutomaticStart(request[l])
    THEN lastAutomaticStartAt = decision.at
    ELSE lastAutomaticStartAt = decision.lastAutomaticStartAt

SolarWithinSupply == solarRemaining <= AvailableSolar

\* The limits, as the loop's own totals and counters see them.
TotalWithinHardLimit ==
    /\ totalGranted <= Capacity(HardLimit)
    /\ outcome # "raised"

TotalWithinControlledLimit ==
    (/\ \E l \in Loads : Accepted(l) /\ request[l].source = Automatic
     /\ \A l \in Loads : Accepted(l) => request[l].source \in {Automatic, Manual})
    => totalGranted <= Capacity(ControlledLimit)

PhasesWithinLimits ==
    \A p \in Phases : decision.phaseLimit[p] # None =>
        phaseGranted[p] <= PhaseCapacity(p)

CountWithinCap ==
    (/\ decision.maxBinaryLoads # None
     /\ \E l \in Loads : Accepted(l) /\ IsBinary(request[l]) /\ ~IsRunning(request[l]))
    => activeBinaryLoadCount <= decision.maxBinaryLoads

IInv ==
    /\ TypeOK
    /\ TotalWithinHardLimit
    /\ SolarWithinSupply
    /\ TotalWithinControlledLimit
    /\ PhasesWithinLimits
    /\ CountWithinCap
    /\ StartsStaggered
    /\ AnsweredInOrder
    /\ AnswersRecorded
    /\ StartsRecorded

\* Before the loop nothing is granted and every limit holds.
LEMMA InitEstablishesIInv == Init => IInv
<1> SUFFICES ASSUME Init PROVE IInv
  OBVIOUS
<1> USE DEF Init
<1>1. /\ BaselineImport \in Nat /\ AvailableSolar \in Nat /\ HardLimit \in Nat
  BY SiteQuantities
<1>2. \A l \in Loads : allocations[l] = None
  OBVIOUS
<1>3. \A l \in Loads : ~Accepted(l)
  BY <1>2 DEF Accepted
<1>4. TypeOK
  <2>1. decision \in ArbitrationInput
    BY DecisionsAssumption
  <2>2. IsFiniteSet({l \in Loads : IsBinary(request[l]) /\ IsRunning(request[l])})
    BY LoadsAssumption, FS_Subset
  <2>3. activeBinaryLoadCount \in Nat
    BY <2>1, <2>2, FS_CardinalityType DEF ArbitrationInput
  <2>4. lastAutomaticStartAt \in Optional(Int)
    BY <2>1 DEF ArbitrationInput
  <2>5. allocations \in [Loads -> Optional(Allocation)]
    BY DEF Optional
  <2> QED
    BY <1>1, <2>3, <2>4, <2>5 DEF TypeOK
<1>5. TotalWithinHardLimit
  BY <1>1, NoneAssumption DEF TotalWithinHardLimit, Capacity, AtLeastZero
<1>6. SolarWithinSupply
  BY <1>1 DEF SolarWithinSupply
<1>7. PhasesWithinLimits
  BY DecisionsAssumption
     DEF PhasesWithinLimits, PhaseCapacity, AtLeastZero, ArbitrationInput, Optional
<1>8. TotalWithinControlledLimit /\ CountWithinCap /\ StartsStaggered /\ StartsRecorded
  BY <1>3 DEF TotalWithinControlledLimit, CountWithinCap, StartsStaggered, StartsRecorded
<1>9. AnsweredInOrder /\ AnswersRecorded
  BY <1>2 DEF AnsweredInOrder, AnswersRecorded
<1> QED
  BY <1>4, <1>5, <1>6, <1>7, <1>8, <1>9 DEF IInv

\* A denial changes no total and adds no accepted load.
LEMMA DenyPreservesIInv ==
    ASSUME IInv, NEW l \in Loads, Deny(l)
    PROVE  IInv'
<1> USE DEF IInv
<1>1. /\ decision' = decision /\ request' = request /\ outcome' = outcome
      /\ totalGranted' = totalGranted /\ solarRemaining' = solarRemaining
      /\ phaseGranted' = phaseGranted /\ activeBinaryLoadCount' = activeBinaryLoadCount
      /\ lastAutomaticStartAt' = lastAutomaticStartAt
      /\ pending' = pending \ {l} /\ l \in pending
  BY DEF Deny, input, totals, IsNext
<1>2. DenialReason(request[l]) \in ReasonCode
  BY DenialReasonType DEF Deny
<1>3. allocations'[l] \in Allocation /\ ~allocations'[l].accepted
  BY <1>2 DEF Deny, Allocation, TypeOK
<1>4. \A m \in Loads \ {l} : allocations'[m] = allocations[m]
  BY DEF Deny, TypeOK
<1>5. \A m \in Loads : Accepted(m)' <=> Accepted(m) /\ m # l
  BY <1>3, <1>4 DEF Accepted
<1>6. ~Accepted(l)
  BY <1>1 DEF AnswersRecorded, Accepted
<1>7. TypeOK'
  <2>1. allocations' \in [Loads -> Optional(Allocation)]
    BY <1>2 DEF Deny, Allocation, TypeOK, Optional
  <2> QED
    BY <1>1, <2>1 DEF TypeOK
<1>8. BaselineImport' = BaselineImport /\ AvailableSolar' = AvailableSolar
      /\ HardLimit' = HardLimit /\ ControlledLimit' = ControlledLimit
  BY <1>1 DEF BaselineImport, AvailableSolar, HardLimit, ControlledLimit
<1>9. TotalWithinHardLimit' /\ SolarWithinSupply'
  BY <1>1, <1>8 DEF TotalWithinHardLimit, SolarWithinSupply, Capacity
<1>10. TotalWithinControlledLimit'
  BY <1>1, <1>5, <1>6, <1>8 DEF TotalWithinControlledLimit, Capacity
<1>11. PhasesWithinLimits'
  BY <1>1 DEF PhasesWithinLimits, PhaseCapacity
<1>12. CountWithinCap'
  BY <1>1, <1>5, <1>6 DEF CountWithinCap
<1>13. StartsStaggered'
  BY <1>1, <1>5, <1>6 DEF StartsStaggered
<1>14. StartsRecorded'
  BY <1>1, <1>5, <1>6 DEF StartsRecorded
<1>15. AnsweredInOrder'
  <2>1. \A m \in pending \ {l} : Before(l, m)
    BY DEF Deny, IsNext
  <2>2. \A a, b \in Loads : Before(a, b)' <=> Before(a, b)
    BY <1>1 DEF Before, OrderKey
  <2> QED
    BY <1>1, <2>1, <2>2 DEF AnsweredInOrder, TypeOK
<1>16. AnswersRecorded'
  BY <1>1, <1>3, <1>4, NoneAssumption DEF AnswersRecorded
<1> QED
  BY <1>7, <1>9, <1>10, <1>11, <1>12, <1>13, <1>14, <1>15, <1>16

\* A grant keeps every limit, because it never exceeds the headroom left.
LEMMA AcceptPreservesIInv ==
    ASSUME IInv, NEW l \in Loads, Accept(l)
    PROVE  IInv'
<1> USE DEF IInv
<1> DEFINE r == request[l]
           g == GrantFor(r)
           solarGrant == Lesser(g, solarRemaining)
<1>1. /\ decision' = decision /\ request' = request /\ outcome' = outcome
      /\ totalGranted' = totalGranted + g
      /\ solarRemaining' = solarRemaining - solarGrant
      /\ pending' = pending \ {l} /\ l \in pending
  BY DEF Accept, SolarShare, input, IsNext
<1>2. /\ decision \in Decisions /\ r \in Requests /\ totalGranted \in Nat
      /\ solarRemaining \in Nat /\ phaseGranted \in [Phases -> Nat]
      /\ activeBinaryLoadCount \in Nat
  BY DEF TypeOK
<1>3. r \in LoadRequest /\ decision \in ArbitrationInput
  BY <1>2, RequestsAssumption, DecisionsAssumption
<1>4. ~StaggerBlocks(r) /\ ~WouldExceedBinaryCount(r) /\ g # 0
  <2>1. DenialReason(r) = None
    BY DEF Accept, SolarShare
  <2> QED
    BY <2>1, NotDenied
<1>5. /\ g \in Nat /\ g > 0
      /\ totalGranted + g <= Capacity(LimitFor(r))
      /\ PhaseLimited(r) => phaseGranted[r.phase] + g <= PhaseCapacity(r.phase)
  BY <1>4, GrantBounds
<1>6. /\ BaselineImport \in Nat /\ AvailableSolar \in Nat /\ HardLimit \in Nat
      /\ ControlledLimit \in Nat /\ ControlledLimit <= HardLimit
  BY <1>2, SiteQuantities
<1>7. solarGrant \in Nat /\ solarGrant <= g /\ solarGrant <= solarRemaining
  BY <1>2, <1>5, LesserType
<1>8. BaselineImport' = BaselineImport /\ AvailableSolar' = AvailableSolar
      /\ HardLimit' = HardLimit /\ ControlledLimit' = ControlledLimit
  BY <1>1 DEF BaselineImport, AvailableSolar, HardLimit, ControlledLimit
<1>9. \A m \in Loads \ {l} : allocations'[m] = allocations[m]
  BY DEF Accept, SolarShare, TypeOK
<1>10. allocations'[l] \in Allocation /\ allocations'[l].accepted
  BY <1>5, <1>7 DEF Accept, SolarShare, Allocation, TypeOK, ReasonCode
<1>11. \A m \in Loads : Accepted(m)' <=> Accepted(m) \/ m = l
  BY <1>9, <1>10, NoneAssumption DEF Accepted
<1>12. ~Accepted(l)
  BY <1>1 DEF AnswersRecorded, Accepted
<1>13. TypeOK'
  <2>1. totalGranted' \in Nat /\ solarRemaining' \in Nat
    BY <1>1, <1>2, <1>5, <1>7
  <2>2. phaseGranted' \in [Phases -> Nat]
    BY <1>2, <1>3, <1>5 DEF Accept, SolarShare, LoadRequest, Optional
  <2>3. activeBinaryLoadCount' \in Nat
    BY <1>2 DEF Accept, SolarShare
  <2>4. lastAutomaticStartAt' \in Optional(Int)
    BY <1>3 DEF Accept, SolarShare, ArbitrationInput, Optional, TypeOK
  <2>5. allocations' \in [Loads -> Optional(Allocation)]
    BY <1>9, <1>10 DEF Accept, SolarShare, Optional, TypeOK
  <2> QED
    BY <1>1, <1>2, <2>1, <2>2, <2>3, <2>4, <2>5 DEF TypeOK
<1>14. Capacity(ControlledLimit) \in Nat /\ Capacity(HardLimit) \in Nat
       /\ Capacity(ControlledLimit) <= Capacity(HardLimit)
  BY <1>6 DEF Capacity, AtLeastZero
<1>15. TotalWithinHardLimit'
  <2>1. totalGranted' <= Capacity(HardLimit)
    BY <1>1, <1>2, <1>5, <1>14 DEF LimitFor
  <2> QED
    BY <1>1, <1>8, <2>1 DEF TotalWithinHardLimit, Capacity
<1>16. SolarWithinSupply'
  BY <1>1, <1>2, <1>6, <1>7, <1>8 DEF SolarWithinSupply
<1>17. TotalWithinControlledLimit'
  <2> SUFFICES ASSUME NEW q \in Loads, Accepted(q)', request[q].source = Automatic,
                      \A m \in Loads : Accepted(m)' =>
                          request[m].source \in {Automatic, Manual}
               PROVE  totalGranted' <= Capacity(ControlledLimit)
    BY <1>1, <1>8 DEF TotalWithinControlledLimit, Capacity
  <2>1. r.source # Manual
    <3>1. CASE q = l
      BY <3>1 DEF Automatic, Manual
    <3>2. CASE q # l
      <4>1. q \in Loads \ pending
        BY <1>11, <3>2 DEF AnswersRecorded, Accepted
      <4>2. Before(q, l)
        BY <1>1, <4>1 DEF AnsweredInOrder
      <4>3. PICK i \in 1..7 : /\ OrderKey(q)[i] < OrderKey(l)[i]
                              /\ \A j \in 1..(i-1) : OrderKey(q)[j] = OrderKey(l)[j]
        BY <4>2 DEF Before
      <4>4. OrderKey(q)[1] <= OrderKey(l)[1]
        <5>1. OrderKey(q)[1] \in 0..1 /\ OrderKey(l)[1] \in 0..1
          BY DEF OrderKey
        <5>2. CASE i = 1
          BY <4>3, <5>1, <5>2
        <5>3. CASE i # 1
          BY <4>3, <5>1, <5>3
        <5> QED
          BY <5>2, <5>3
      <4> QED
        BY <4>4 DEF OrderKey, Automatic, Manual
    <3> QED
      BY <3>1, <3>2
  <2>2. r.source = Automatic
    BY <1>11, <2>1
  <2> QED
    BY <1>1, <1>5, <2>2 DEF LimitFor
<1>18. PhasesWithinLimits'
  <2> SUFFICES ASSUME NEW p \in Phases, decision.phaseLimit[p] # None
               PROVE  phaseGranted'[p] <= PhaseCapacity(p)
    BY <1>1 DEF PhasesWithinLimits, PhaseCapacity
  <2>1. phaseGranted[p] <= PhaseCapacity(p)
    BY DEF PhasesWithinLimits
  <2>2. CASE r.phase = p
    <3>1. PhaseLimited(r)
      BY <2>2, NoneAssumption DEF PhaseLimited
    <3>2. phaseGranted'[p] = phaseGranted[p] + g
      BY <1>2, <2>2, NoneAssumption DEF Accept, SolarShare
    <3> QED
      BY <1>5, <2>2, <3>1, <3>2
  <2>3. CASE r.phase # p
    <3>1. phaseGranted'[p] = phaseGranted[p]
      BY <1>2, <2>3 DEF Accept, SolarShare
    <3> QED
      BY <2>1, <3>1
  <2> QED
    BY <2>2, <2>3
<1>19. CountWithinCap'
  <2> SUFFICES ASSUME decision.maxBinaryLoads # None,
                      NEW q \in Loads, Accepted(q)',
                      IsBinary(request[q]), ~IsRunning(request[q])
               PROVE  activeBinaryLoadCount' <= decision.maxBinaryLoads
    BY <1>1 DEF CountWithinCap
  <2>1. decision.maxBinaryLoads \in Nat
    BY <1>3 DEF ArbitrationInput, Optional
  <2>2. CASE IsBinary(r) /\ ~IsRunning(r)
    <3>1. activeBinaryLoadCount < decision.maxBinaryLoads
      BY <1>2, <1>4, <2>1, <2>2 DEF WouldExceedBinaryCount
    <3>2. activeBinaryLoadCount' = activeBinaryLoadCount + 1
      BY <2>2 DEF Accept, SolarShare
    <3> QED
      BY <1>2, <2>1, <3>1, <3>2
  <2>3. CASE ~(IsBinary(r) /\ ~IsRunning(r))
    <3>1. Accepted(q)
      BY <1>11, <2>3
    <3>2. activeBinaryLoadCount' = activeBinaryLoadCount
      BY <2>3 DEF Accept, SolarShare
    <3> QED
      BY <3>1, <3>2 DEF CountWithinCap
  <2> QED
    BY <2>2, <2>3
<1>20. StartsRecorded'
  <2>1. CASE IsAutomaticStart(r)
    <3>1. lastAutomaticStartAt' = decision.at
      BY <2>1 DEF Accept, SolarShare
    <3> QED
      BY <1>1, <1>11, <2>1, <3>1 DEF StartsRecorded
  <2>2. CASE ~IsAutomaticStart(r)
    <3>1. lastAutomaticStartAt' = lastAutomaticStartAt
      BY <2>2 DEF Accept, SolarShare
    <3>2. \A m \in Loads : Accepted(m)' /\ IsAutomaticStart(request[m])
                           <=> Accepted(m) /\ IsAutomaticStart(request[m])
      BY <1>11, <2>2
    <3> QED
      BY <1>1, <3>1, <3>2 DEF StartsRecorded
  <2> QED
    BY <2>1, <2>2
<1>21. StartsStaggered'
  <2>1. CASE IsAutomaticStart(r) /\ decision.startStagger > 0
    <3>1. decision.at \in Int /\ decision.startStagger \in Nat
      BY <1>3 DEF ArbitrationInput
    <3>2. lastAutomaticStartAt = None
          \/ ~(decision.at - lastAutomaticStartAt < decision.startStagger)
      BY <1>4, <2>1 DEF StaggerBlocks
    <3>3. ~ \E m \in Loads : Accepted(m) /\ IsAutomaticStart(request[m])
      <4> SUFFICES ASSUME NEW m \in Loads, Accepted(m), IsAutomaticStart(request[m])
                   PROVE  FALSE
        OBVIOUS
      <4>1. lastAutomaticStartAt = decision.at
        BY DEF StartsRecorded
      <4>2. decision.at # None
        BY <3>1, NoneAssumption
      <4> QED
        BY <2>1, <3>1, <3>2, <4>1, <4>2
    <3>4. lastAutomaticStartAt = decision.lastAutomaticStartAt
      BY <3>3 DEF StartsRecorded
    <3>5. decision.lastAutomaticStartAt # None =>
            decision.at - decision.lastAutomaticStartAt >= decision.startStagger
      BY <1>3, <3>1, <3>2, <3>4 DEF ArbitrationInput, Optional
    <3> QED
      BY <1>1, <1>11, <3>3, <3>5 DEF StartsStaggered
  <2>2. CASE ~(IsAutomaticStart(r) /\ decision.startStagger > 0)
    BY <1>1, <1>11, <2>2 DEF StartsStaggered
  <2> QED
    BY <2>1, <2>2
<1>22. AnsweredInOrder'
  <2>1. \A m \in pending \ {l} : Before(l, m)
    BY DEF Accept, SolarShare, IsNext
  <2>2. \A a, b \in Loads : Before(a, b)' <=> Before(a, b)
    BY <1>1 DEF Before, OrderKey
  <2> QED
    BY <1>1, <2>1, <2>2 DEF AnsweredInOrder, TypeOK
<1>23. AnswersRecorded'
  BY <1>1, <1>9, <1>10, NoneAssumption DEF AnswersRecorded
<1> QED
  BY <1>13, <1>15, <1>16, <1>17, <1>18, <1>19, <1>20, <1>21, <1>22, <1>23

\* The code's own assertion never fires, so the decision is returned.
LEMMA FinishPreservesIInv ==
    ASSUME IInv, Finish
    PROVE  IInv'
<1> USE DEF IInv
<1>1. UNCHANGED <<decision, request, pending, totalGranted, solarRemaining, phaseGranted,
                  activeBinaryLoadCount, lastAutomaticStartAt, allocations>>
  BY DEF Finish, input, totals
<1>2. outcome' = "returned"
  <2>1. totalGranted <= Capacity(HardLimit)
    BY DEF TotalWithinHardLimit
  <2>2. AvailableSolar - solarRemaining <= AvailableSolar
    BY SiteQuantities DEF TypeOK
  <2> QED
    BY <2>1, <2>2 DEF Finish, SafetyInvariantsHold
<1>3. BaselineImport' = BaselineImport /\ AvailableSolar' = AvailableSolar
      /\ HardLimit' = HardLimit /\ ControlledLimit' = ControlledLimit
  BY <1>1 DEF BaselineImport, AvailableSolar, HardLimit, ControlledLimit
<1>4. \A m \in Loads : Accepted(m)' <=> Accepted(m)
  BY <1>1 DEF Accepted
<1>5. TypeOK'
  BY <1>1, <1>2 DEF TypeOK
<1>6. TotalWithinHardLimit' /\ SolarWithinSupply' /\ PhasesWithinLimits'
  BY <1>1, <1>2, <1>3
     DEF TotalWithinHardLimit, SolarWithinSupply, PhasesWithinLimits, Capacity, PhaseCapacity
<1>7. TotalWithinControlledLimit' /\ CountWithinCap' /\ StartsStaggered'
  BY <1>1, <1>3, <1>4
     DEF TotalWithinControlledLimit, CountWithinCap, StartsStaggered, Capacity
<1>8. StartsRecorded'
  BY <1>1, <1>4 DEF StartsRecorded
<1>9. AnsweredInOrder' /\ AnswersRecorded'
  BY <1>1 DEF AnsweredInOrder, AnswersRecorded, Before, OrderKey
<1> QED
  BY <1>5, <1>6, <1>7, <1>8, <1>9

\* IInv is inductive.
LEMMA StepPreservesIInv == IInv /\ [Next]_vars => IInv'
<1> SUFFICES ASSUME IInv, [Next]_vars PROVE IInv'
  OBVIOUS
<1>1. CASE UNCHANGED vars
  BY <1>1 DEF vars, input, totals, IInv, TypeOK, TotalWithinHardLimit, SolarWithinSupply,
     TotalWithinControlledLimit, PhasesWithinLimits, CountWithinCap, StartsStaggered,
     StartsRecorded, AnsweredInOrder, AnswersRecorded, Accepted, Before, OrderKey,
     Capacity, PhaseCapacity, BaselineImport, AvailableSolar, HardLimit, ControlledLimit
<1>2. ASSUME NEW l \in Loads, Deny(l) PROVE IInv'
  BY <1>2, DenyPreservesIInv
<1>3. ASSUME NEW l \in Loads, Accept(l) PROVE IInv'
  BY <1>3, AcceptPreservesIInv
<1>4. CASE Finish
  BY <1>4, FinishPreservesIInv
<1> QED
  BY <1>1, <1>2, <1>3, <1>4 DEF Next

\* Every reachable state of the loop satisfies the inductive invariant.
THEOREM Invariance == Spec => []IInv
<1>1. Init => IInv
  BY InitEstablishesIInv
<1>2. IInv /\ [Next]_vars => IInv'
  BY StepPreservesIInv
<1> QED
  BY <1>1, <1>2, PTL DEF Spec

-----------------------------------------------------------------------------
(* What a step records.                                                    *)

\* A denial is recorded as an answer that draws nothing.
LEMMA DenialRecorded ==
    ASSUME IInv, NEW l \in Loads, Deny(l)
    PROVE  /\ UNCHANGED <<decision, totalGranted, solarRemaining>>
           /\ allocations[l] = None /\ allocations'[l] # None
           /\ allocations'[l].granted = 0 /\ allocations'[l].solar = 0
           /\ \A m \in Loads \ {l} : allocations'[m] = allocations[m]
<1> DEFINE answer == [granted |-> 0, solar |-> 0, accepted |-> FALSE,
                      reason |-> DenialReason(request[l])]
<1>1. UNCHANGED <<decision, totalGranted, solarRemaining>> /\ l \in pending
  BY DEF Deny, input, totals, IsNext
<1>2. allocations' = [allocations EXCEPT ![l] = answer]
  BY DEF Deny
<1>3. allocations \in [Loads -> Optional(Allocation)]
  BY DEF IInv, TypeOK
<1>4. allocations'[l] = answer /\ \A m \in Loads \ {l} : allocations'[m] = allocations[m]
  BY <1>2, <1>3
<1>5. DenialReason(request[l]) \in ReasonCode
  BY DenialReasonType DEF Deny
<1>6. answer \in Allocation
  BY <1>5 DEF Allocation
<1>7. answer # None
  BY <1>6, NoneAssumption
<1> QED
  BY <1>1, <1>4, <1>7 DEF IInv, AnswersRecorded

\* A grant is recorded as an answer that draws it, and as much of it as is left
\* from the solar surplus.
LEMMA GrantRecorded ==
    ASSUME IInv, NEW l \in Loads, Accept(l)
    PROVE  LET g == GrantFor(request[l])
               solarGrant == Lesser(g, solarRemaining) IN
           /\ decision' = decision
           /\ g \in Nat /\ totalGranted + g <= Capacity(LimitFor(request[l]))
           /\ solarGrant \in Nat /\ solarGrant <= solarRemaining
           /\ totalGranted' = totalGranted + g
           /\ solarRemaining' = solarRemaining - solarGrant
           /\ allocations[l] = None /\ allocations'[l] # None
           /\ allocations'[l].granted = g /\ allocations'[l].solar = solarGrant
           /\ \A m \in Loads \ {l} : allocations'[m] = allocations[m]
<1> DEFINE g == GrantFor(request[l])
           solarGrant == Lesser(g, solarRemaining)
           reason == IF g < Target(request[l]) THEN "setpoint_bounded" ELSE "plan_selected"
           answer == [granted |-> g, solar |-> solarGrant, accepted |-> TRUE,
                      reason |-> reason]
<1>1. /\ decision' = decision /\ l \in pending
      /\ totalGranted' = totalGranted + g
      /\ solarRemaining' = solarRemaining - solarGrant
      /\ allocations' = [allocations EXCEPT ![l] = answer]
  BY DEF Accept, SolarShare, input, IsNext
<1>2. g # 0
  BY NotDenied DEF Accept, SolarShare
<1>3. g \in Nat /\ totalGranted + g <= Capacity(LimitFor(request[l]))
  BY <1>2, GrantBounds DEF IInv
<1>4. solarGrant \in Nat /\ solarGrant <= solarRemaining
  BY <1>3, LesserType DEF IInv, TypeOK
<1>5. allocations \in [Loads -> Optional(Allocation)]
  BY DEF IInv, TypeOK
<1>6. allocations'[l] = answer /\ \A m \in Loads \ {l} : allocations'[m] = allocations[m]
  BY <1>1, <1>5
<1>7. reason \in ReasonCode
  BY DEF ReasonCode
<1>8. answer \in Allocation
  <2> HIDE DEF reason, solarGrant, g
  <2> QED
    BY <1>3, <1>4, <1>7 DEF Allocation
<1>9. answer # None
  BY <1>8, NoneAssumption
<1>10. answer.granted = g /\ answer.solar = solarGrant
  OBVIOUS
<1> QED
  <2> HIDE DEF answer, solarGrant, g
  <2> QED
    BY <1>1, <1>3, <1>4, <1>6, <1>9, <1>10 DEF g, solarGrant, IInv, AnswersRecorded

-----------------------------------------------------------------------------
(* The totals are what the answers add up to.                              *)

\* What the answers take from the solar surplus: total_solar_allocated_w.
SolarDrawn(l) == IF allocations[l] = None THEN 0 ELSE allocations[l].solar
SolarTo(S)    == SumFunctionOnSet([l \in Loads |-> SolarDrawn(l)], S)

OnPhase(p) == {l \in Loads : request[l].phase = p}

\* Fixed-power loads that run, or will once the decision is carried out.
RunningBinaries ==
    {l \in Loads : IsBinary(request[l]) /\ (IsRunning(request[l]) \/ Accepted(l))}

\* The loop counts every grant once in each of its totals, and every start once.
TotalsAddUp ==
    /\ totalGranted = GrantedTo(Loads)
    /\ solarRemaining + SolarTo(Loads) = AvailableSolar
    /\ \A p \in Phases : phaseGranted[p] = GrantedTo(OnPhase(p))
    /\ activeBinaryLoadCount = decision.existingBinaryLoads + Cardinality(RunningBinaries)

\* What a load was granted and what of it the sun covers are naturals.
LEMMA AnswerTypes ==
    ASSUME TypeOK
    PROVE  /\ [l \in Loads |-> Granted(l)] \in [Loads -> Nat]
           /\ [l \in Loads |-> SolarDrawn(l)] \in [Loads -> Nat]
<1>1. ASSUME NEW l \in Loads PROVE Granted(l) \in Nat /\ SolarDrawn(l) \in Nat
  <2>1. allocations[l] = None \/ allocations[l] \in Allocation
    BY DEF TypeOK, Optional
  <2> QED BY <2>1 DEF Granted, SolarDrawn, Allocation
<1> QED BY <1>1

\* Parts of the loads are finite in number.
LEMMA PartsFinite ==
    /\ IsFiniteSet(Loads) /\ \A p : IsFiniteSet(OnPhase(p)) /\ OnPhase(p) \in SUBSET Loads
    /\ IsFiniteSet(RunningBinaries)
BY LoadsAssumption, FS_Subset DEF OnPhase, RunningBinaries

\* Before the loop nothing is granted, and the binary loads that run are counted.
LEMMA InitAddsUp == Init => TotalsAddUp
<1> SUFFICES ASSUME Init PROVE TotalsAddUp
  OBVIOUS
<1> DEFINE granted == [l \in Loads |-> Granted(l)]
           solar   == [l \in Loads |-> SolarDrawn(l)]
<1>1. \A l \in Loads : allocations[l] = None
  BY DEF Init
<1>2. granted \in [Loads -> Nat] /\ solar \in [Loads -> Nat]
      /\ \A l \in Loads : granted[l] = 0 /\ solar[l] = 0
  BY <1>1 DEF Granted, SolarDrawn
<1> HIDE DEF granted, solar
<1>3. GrantedTo(Loads) = 0 /\ SolarTo(Loads) = 0 /\ \A p \in Phases : GrantedTo(OnPhase(p)) = 0
  BY <1>2, PartsFinite, SumOfZeros DEF GrantedTo, SolarTo, granted, solar
<1>4. RunningBinaries = {l \in Loads : IsBinary(request[l]) /\ IsRunning(request[l])}
  BY <1>1 DEF RunningBinaries, Accepted
<1>5. AvailableSolar \in Nat
  BY SiteQuantities DEF Init
<1> QED BY <1>3, <1>4, <1>5 DEF Init, TotalsAddUp

\* An answer adds what it grants to the sums, and nothing when it is a denial.
LEMMA AnswerAdds ==
    ASSUME TypeOK, TypeOK', UNCHANGED <<decision, request>>, NEW l \in Loads,
           allocations[l] = None, \A m \in Loads \ {l} : allocations'[m] = allocations[m]
    PROVE  /\ GrantedTo(Loads)' = GrantedTo(Loads) + Granted(l)'
           /\ SolarTo(Loads)' = SolarTo(Loads) + SolarDrawn(l)'
           /\ \A p \in Phases : GrantedTo(OnPhase(p))' =
                  GrantedTo(OnPhase(p)) + (IF request[l].phase = p THEN Granted(l)' ELSE 0)
<1> DEFINE granted == [m \in Loads |-> Granted(m)]
           solar   == [m \in Loads |-> SolarDrawn(m)]
<1>1. /\ granted \in [Loads -> Nat] /\ granted' \in [Loads -> Nat]
      /\ solar \in [Loads -> Nat] /\ solar' \in [Loads -> Nat]
  <2>1. ASSUME NEW m \in Loads
        PROVE  Granted(m)' \in Nat /\ SolarDrawn(m)' \in Nat
    <3>1. allocations'[m] = None \/ allocations'[m] \in Allocation
      BY DEF TypeOK, Optional
    <3> QED BY <3>1 DEF Granted, SolarDrawn, Allocation
  <2> QED BY <2>1, AnswerTypes
<1>2. /\ granted[l] = 0 /\ granted'[l] = Granted(l)' /\ solar[l] = 0 /\ solar'[l] = SolarDrawn(l)'
      /\ \A m \in Loads \ {l} : granted'[m] = granted[m] /\ solar'[m] = solar[m]
  BY DEF Granted, SolarDrawn
<1>3. \A p : OnPhase(p)' = OnPhase(p) /\ (l \in OnPhase(p) <=> request[l].phase = p)
  BY DEF OnPhase
<1>4. \A S : GrantedTo(S) = SumFunctionOnSet(granted, S) /\ SolarTo(S) = SumFunctionOnSet(solar, S)
  BY DEF GrantedTo, SolarTo
<1>5. /\ GrantedTo(Loads)' = SumFunctionOnSet(granted', Loads)
      /\ SolarTo(Loads)' = SumFunctionOnSet(solar', Loads)
      /\ \A p : GrantedTo(OnPhase(p))' = SumFunctionOnSet(granted', OnPhase(p))
  BY <1>3 DEF GrantedTo, SolarTo
<1> HIDE DEF granted, solar
<1>6. \A S \in SUBSET Loads : IsFiniteSet(S) =>
          SumFunctionOnSet(granted', S)
            = SumFunctionOnSet(granted, S) + (IF l \in S THEN granted'[l] ELSE 0)
  BY <1>1, <1>2, SumGrows
<1>7. SumFunctionOnSet(solar', Loads) = SumFunctionOnSet(solar, Loads) + solar'[l]
  BY <1>1, <1>2, PartsFinite, SumGrows
<1> QED BY <1>2, <1>3, <1>4, <1>5, <1>6, <1>7, PartsFinite

\* No step loses a grant from a total or counts one twice.
LEMMA StepAddsUp ==
    ASSUME IInv, IInv', TotalsAddUp, [Next]_vars
    PROVE  TotalsAddUp'
<1> USE DEF IInv
<1>1. CASE UNCHANGED <<decision, request, allocations, totals>>
  BY <1>1 DEF totals, TotalsAddUp, GrantedTo, SolarTo, Granted, SolarDrawn, OnPhase,
     RunningBinaries, Accepted, AvailableSolar
<1>2. ASSUME NEW l \in Loads, Deny(l) PROVE TotalsAddUp'
  <2>1. /\ UNCHANGED <<decision, request, totals>>
        /\ allocations[l] = None /\ Granted(l)' = 0 /\ SolarDrawn(l)' = 0
        /\ \A m \in Loads \ {l} : allocations'[m] = allocations[m]
    BY <1>2, DenialRecorded DEF Granted, SolarDrawn, Deny, input
  <2>2. ~Accepted(l) /\ ~Accepted(l)'
    BY <1>2, <2>1 DEF Accepted, Deny, TypeOK
  <2>3. RunningBinaries' = RunningBinaries
    BY <2>1, <2>2 DEF RunningBinaries, Accepted
  <2>4. /\ GrantedTo(Loads)' = GrantedTo(Loads) + 0
        /\ SolarTo(Loads)' = SolarTo(Loads) + 0
        /\ \A p \in Phases : GrantedTo(OnPhase(p))' = GrantedTo(OnPhase(p)) + 0
    BY <2>1, AnswerAdds
  <2>5. /\ totalGranted \in Nat /\ solarRemaining \in Nat /\ AvailableSolar \in Nat
        /\ \A p \in Phases : phaseGranted[p] \in Nat
    BY SiteQuantities DEF TypeOK
  <2>6. AvailableSolar' = AvailableSolar
    BY <2>1 DEF AvailableSolar
  <2>7. SolarTo(Loads) \in Nat
    BY AnswerTypes, PartsFinite, SumRemovesElement DEF SolarTo
  <2> QED BY <2>1, <2>3, <2>4, <2>5, <2>6, <2>7 DEF TotalsAddUp, totals
<1>3. ASSUME NEW l \in Loads, Accept(l) PROVE TotalsAddUp'
  <2> DEFINE r == request[l]
             g == GrantFor(r)
             s == Lesser(g, solarRemaining)
  <2>1. /\ UNCHANGED decision /\ g \in Nat /\ s \in Nat /\ s <= solarRemaining
        /\ totalGranted' = totalGranted + g /\ solarRemaining' = solarRemaining - s
        /\ allocations[l] = None /\ allocations'[l] # None
        /\ Granted(l)' = g /\ SolarDrawn(l)' = s
        /\ \A m \in Loads \ {l} : allocations'[m] = allocations[m]
    BY <1>3, GrantRecorded DEF Granted, SolarDrawn
  <2>2. /\ UNCHANGED request
        /\ phaseGranted' = IF r.phase = None THEN phaseGranted
                           ELSE [phaseGranted EXCEPT ![r.phase] = @ + g]
        /\ activeBinaryLoadCount' = IF IsBinary(r) /\ ~IsRunning(r)
                                    THEN activeBinaryLoadCount + 1 ELSE activeBinaryLoadCount
    BY <1>3 DEF Accept, input
  <2>3. Accepted(l)' /\ ~Accepted(l)
    <3>1. allocations'[l].accepted
      BY <1>3 DEF Accept, TypeOK
    <3> QED BY <2>1, <3>1 DEF Accepted
  <2> HIDE DEF g, s
  <2>4. /\ GrantedTo(Loads)' = GrantedTo(Loads) + g
        /\ SolarTo(Loads)' = SolarTo(Loads) + s
        /\ \A p \in Phases : GrantedTo(OnPhase(p))' =
               GrantedTo(OnPhase(p)) + (IF r.phase = p THEN g ELSE 0)
    BY <2>1, <2>2, AnswerAdds
  <2>5. /\ totalGranted \in Nat /\ solarRemaining \in Nat /\ AvailableSolar \in Nat
        /\ phaseGranted \in [Phases -> Nat] /\ activeBinaryLoadCount \in Nat
        /\ \A p \in Phases : phaseGranted[p] \in Nat
    BY SiteQuantities DEF TypeOK
  <2>6. AvailableSolar' = AvailableSolar
    BY <2>1 DEF AvailableSolar
  <2>7. SolarTo(Loads) \in Nat
    BY AnswerTypes, PartsFinite, SumRemovesElement DEF SolarTo
  <2>8. totalGranted' = GrantedTo(Loads)'
    BY <2>1, <2>4 DEF TotalsAddUp
  <2>9. solarRemaining' + SolarTo(Loads)' = AvailableSolar'
    BY <2>1, <2>4, <2>5, <2>6, <2>7 DEF TotalsAddUp
  <2>10. ASSUME NEW p \in Phases PROVE phaseGranted'[p] = GrantedTo(OnPhase(p))'
    <3>1. phaseGranted[p] = GrantedTo(OnPhase(p)) /\ p # None
      BY NoneAssumption DEF TotalsAddUp
    <3>2. CASE r.phase = p
      <4>1. phaseGranted'[p] = phaseGranted[p] + g
        BY <2>2, <2>5, <3>1, <3>2
      <4> QED BY <2>4, <3>1, <3>2, <4>1
    <3>3. CASE r.phase # p
      <4>1. phaseGranted'[p] = phaseGranted[p]
        BY <2>2, <2>5, <3>3
      <4> QED BY <2>4, <2>5, <3>1, <3>3, <4>1
    <3> QED BY <3>2, <3>3
  <2>11. activeBinaryLoadCount' =
            decision'.existingBinaryLoads + Cardinality(RunningBinaries)'
    <3>1. \A m \in Loads \ {l} : Accepted(m)' <=> Accepted(m)
      BY <2>1 DEF Accepted
    <3>2. CASE IsBinary(r) /\ ~IsRunning(r)
      <4>1. RunningBinaries' = RunningBinaries \cup {l} /\ l \notin RunningBinaries
        BY <2>2, <2>3, <3>1, <3>2 DEF RunningBinaries
      <4>2. Cardinality(RunningBinaries') = Cardinality(RunningBinaries) + 1
            /\ Cardinality(RunningBinaries) \in Nat
        BY <4>1, PartsFinite, FS_AddElement, FS_CardinalityType
      <4>3. decision.existingBinaryLoads \in Nat
        BY DecisionsAssumption DEF TypeOK, ArbitrationInput
      <4> QED BY <2>1, <2>2, <3>2, <4>2, <4>3 DEF TotalsAddUp
    <3>3. CASE ~(IsBinary(r) /\ ~IsRunning(r))
      <4>1. RunningBinaries' = RunningBinaries
        BY <2>2, <2>3, <3>1, <3>3 DEF RunningBinaries
      <4> QED BY <2>1, <2>2, <3>3, <4>1 DEF TotalsAddUp
    <3> QED BY <3>2, <3>3
  <2> QED BY <2>8, <2>9, <2>10, <2>11 DEF TotalsAddUp
<1>4. CASE Finish \/ UNCHANGED vars
  BY <1>1, <1>4 DEF Finish, vars, input
<1> QED BY <1>2, <1>3, <1>4 DEF Next

\* total_granted and solar_remaining, phase_granted and active_binary_load_count always
\* say what the answers given so far amount to: what the result reports and what the
\* loop decided on are the same.
THEOREM AddsUp == Spec => [](IInv /\ TotalsAddUp)
<1>1. IInv /\ IInv' /\ TotalsAddUp /\ [Next]_vars => TotalsAddUp'
  BY StepAddsUp
<1> QED BY <1>1, InitAddsUp, Invariance, PTL DEF Spec

\* No watt of the surplus is allocated twice: the answers take no more of it than there is.
THEOREM SolarGivenOnce == Spec => [](SolarTo(Loads) <= AvailableSolar)
<1>1. IInv /\ TotalsAddUp => SolarTo(Loads) <= AvailableSolar
  <2> SUFFICES ASSUME IInv, TotalsAddUp PROVE SolarTo(Loads) <= AvailableSolar
    OBVIOUS
  <2>1. SolarTo(Loads) \in Nat
    BY AnswerTypes, PartsFinite, SumRemovesElement DEF SolarTo, IInv
  <2> QED BY <2>1 DEF IInv, TypeOK, TotalsAddUp
<1> QED BY <1>1, AddsUp, PTL

-----------------------------------------------------------------------------
(* The properties the runs check, for every instance.                      *)

\* The variables keep their types: no total goes negative, every answer is one.
THEOREM TypeCorrect == Spec => []TypeOK
<1>1. IInv => TypeOK
  BY DEF IInv
<1> QED
  BY <1>1, Invariance, PTL

\* No decision promises more than the hard site limit leaves, and the assertion
\* that guards it never raises.
THEOREM HardLimitSafe == Spec => []HardLimitRespected
<1>1. IInv /\ TotalsAddUp => HardLimitRespected
  BY DEF IInv, TotalsAddUp, TotalWithinHardLimit, HardLimitRespected
<1> QED
  BY <1>1, AddsUp, PTL

\* A decision that grants an automatic request stays under the controlled limit.
THEOREM ControlledLimitSafe == Spec => []ControlledLimitRespected
<1>1. IInv /\ TotalsAddUp => ControlledLimitRespected
  BY DEF IInv, TotalsAddUp, TotalWithinControlledLimit, ControlledLimitRespected
<1> QED
  BY <1>1, AddsUp, PTL

\* No phase is promised more than its own limit leaves.
THEOREM PhaseLimitSafe == Spec => []PhaseLimitRespected
<1>1. IInv /\ TotalsAddUp => PhaseLimitRespected
  BY DEF IInv, TotalsAddUp, PhasesWithinLimits, OnPhase, PhaseLimitRespected
<1> QED
  BY <1>1, AddsUp, PTL

\* A new start never takes the running fixed-power loads over the configured cap.
THEOREM BinaryCapSafe == Spec => []BinaryCapRespected
<1>1. IInv /\ TotalsAddUp => BinaryCapRespected
  BY DEF IInv, TotalsAddUp, CountWithinCap, RunningBinaries, BinaryCapRespected
<1> QED
  BY <1>1, AddsUp, PTL

\* One decision starts at most one load automatically when a stagger is set.
THEOREM StaggerSafe == Spec => []StartsStaggered
<1>1. IInv => StartsStaggered
  BY DEF IInv
<1> QED
  BY <1>1, Invariance, PTL

-----------------------------------------------------------------------------
(* The loop implements two power pools.                                    *)

\* Both pools hold what is left, in whole units, and depend only on the decision.
LEMMA PoolQuantities ==
    ASSUME IInv
    PROVE  /\ Capacity(HardLimit) - totalGranted \in Nat /\ totalGranted \in Nat
           /\ solarRemaining \in Nat
           /\ Capacity(HardLimit) \in Nat /\ Capacity(ControlledLimit) \in Nat
           /\ Capacity(ControlledLimit) <= Capacity(HardLimit)
           /\ decision' = decision => Capacity(HardLimit)' = Capacity(HardLimit)
<1>1. /\ BaselineImport \in Nat /\ AvailableSolar \in Nat /\ HardLimit \in Nat
      /\ ControlledLimit \in Nat /\ ControlledLimit <= HardLimit
  BY SiteQuantities DEF IInv, TypeOK
<1>2. Capacity(HardLimit) \in Nat /\ Capacity(ControlledLimit) <= Capacity(HardLimit)
      /\ Capacity(ControlledLimit) \in Nat
  BY <1>1 DEF Capacity, AtLeastZero
<1>3. decision' = decision => Capacity(HardLimit)' = Capacity(HardLimit)
  BY DEF Capacity, HardLimit, BaselineImport, AvailableSolar
<1> QED
  BY <1>2, <1>3 DEF IInv, TypeOK, TotalWithinHardLimit

\* Every answer is one draw from the pool of hard capacity.
LEMMA StepDrawsHardPower == IInv /\ [Next]_vars => [HardPool!Next]_(HardPool!vars)
<1> SUFFICES ASSUME IInv, [Next]_vars PROVE [HardPool!Next]_(HardPool!vars)
  OBVIOUS
<1> DEFINE free == Capacity(HardLimit) - totalGranted
           share == [l \in Loads |-> IF allocations[l] = None THEN None
                                     ELSE allocations[l].granted]
<1>1. ASSUME NEW l \in Loads, Deny(l) PROVE HardPool!Draw(l)
  <2>1. share' = [share EXCEPT ![l] = 0] /\ share[l] = None
    BY <1>1, DenialRecorded
  <2>2. free' = free - 0 /\ 0 \in 0..free
    BY <1>1, DenialRecorded, PoolQuantities
  <2> QED
    BY <2>1, <2>2 DEF HardPool!Draw
<1>2. ASSUME NEW l \in Loads, Accept(l) PROVE HardPool!Draw(l)
  <2> DEFINE g == GrantFor(request[l])
  <2>1. share' = [share EXCEPT ![l] = g] /\ share[l] = None
    BY <1>2, GrantRecorded
  <2>2. g \in 0..free
    BY <1>2, GrantRecorded, PoolQuantities DEF LimitFor
  <2>3. free' = free - g
    BY <1>2, GrantRecorded, PoolQuantities
  <2> QED
    BY <2>1, <2>2, <2>3 DEF HardPool!Draw
<1>3. ASSUME Finish \/ UNCHANGED vars PROVE UNCHANGED HardPool!vars
  <2>1. UNCHANGED <<decision, totalGranted, allocations>>
    BY <1>3 DEF Finish, vars, input, totals
  <2> QED
    BY <2>1, PoolQuantities DEF HardPool!vars
<1> QED
  BY <1>1, <1>2, <1>3 DEF Next, HardPool!Next

\* arbitrate() hands out the hard site capacity as one pool, never per load.
THEOREM HardPoolImplemented == Spec => HardPool!Safety
<1>1. Init => HardPool!Init
  BY SiteQuantities DEF Init, HardPool!Init, Capacity, AtLeastZero
<1>2. IInv /\ [Next]_vars => [HardPool!Next]_(HardPool!vars)
  BY StepDrawsHardPower
<1> QED
  BY <1>1, <1>2, Invariance, PTL DEF Spec, HardPool!Safety

\* Every answer is one draw, possibly empty, from the pool of solar surplus.
LEMMA StepDrawsSolar == IInv /\ [Next]_vars => [SolarPool!Next]_(SolarPool!vars)
<1> SUFFICES ASSUME IInv, [Next]_vars PROVE [SolarPool!Next]_(SolarPool!vars)
  OBVIOUS
<1> DEFINE share == [l \in Loads |-> IF allocations[l] = None THEN None
                                     ELSE allocations[l].solar]
<1>1. ASSUME NEW l \in Loads, Deny(l) PROVE SolarPool!Draw(l)
  <2>1. share' = [share EXCEPT ![l] = 0] /\ share[l] = None
    BY <1>1, DenialRecorded
  <2>2. solarRemaining' = solarRemaining - 0 /\ 0 \in 0..solarRemaining
    BY <1>1, DenialRecorded, PoolQuantities
  <2> QED
    BY <2>1, <2>2 DEF SolarPool!Draw
<1>2. ASSUME NEW l \in Loads, Accept(l) PROVE SolarPool!Draw(l)
  <2> DEFINE s == Lesser(GrantFor(request[l]), solarRemaining)
  <2>1. share' = [share EXCEPT ![l] = s] /\ share[l] = None
    BY <1>2, GrantRecorded
  <2>2. s \in 0..solarRemaining /\ solarRemaining' = solarRemaining - s
    BY <1>2, GrantRecorded, PoolQuantities
  <2> QED
    BY <2>1, <2>2 DEF SolarPool!Draw
<1>3. ASSUME Finish \/ UNCHANGED vars PROVE UNCHANGED SolarPool!vars
  BY <1>3 DEF Finish, vars, input, totals, SolarPool!vars
<1> QED
  BY <1>1, <1>2, <1>3 DEF Next, SolarPool!Next

\* arbitrate() allocates the observed solar surplus as one pool: CONTROL_MODEL.md
\* invariant 4, no watt of it goes to more than one request.
THEOREM SolarPoolImplemented == Spec => SolarPool!Safety
<1>1. Init => SolarPool!Init
  BY SiteQuantities DEF Init, SolarPool!Init
<1>2. IInv /\ [Next]_vars => [SolarPool!Next]_(SolarPool!vars)
  BY StepDrawsSolar
<1> QED
  BY <1>1, <1>2, Invariance, PTL DEF Spec, SolarPool!Safety

-----------------------------------------------------------------------------
(* No priority inversion.  It is not inductive: a later grant must be known *)
(* to need less than a request that was refused before.  What carries over  *)
(* is that whoever was refused for lack of capacity is still short of it,   *)
(* because the loop only ever uses capacity up.                             *)

\* The load was refused by the capacity checks, with a request they can satisfy.
DeniedForCapacity(l) ==
    /\ allocations[l] # None
    /\ allocations[l].reason \in CapacityReasons
    /\ Target(request[l]) >= MinimumGrant(request[l])

\* What is left does not cover the smallest grant a refused load could have had.
StillShort ==
    \A l \in Loads : DeniedForCapacity(l) =>
        EffectiveHeadroom(request[l]) < Need(request[l])

OrderInv == StillShort /\ NoPriorityInversion

\* The components of the order key are integers.
LEMMA OrderKeyType ==
    ASSUME TypeOK, NEW l \in Loads
    PROVE  OrderKey(l) \in [1..7 -> Int]
<1>1. request[l] \in LoadRequest
  BY RequestsAssumption DEF TypeOK
<1>2. request[l].deadline = None \/ request[l].deadline \in Int
  BY <1>1 DEF LoadRequest, Optional
<1>3. request[l].priority \in Int /\ request[l].fairnessDebt \in Int /\ l \in Int
  BY <1>1, LoadsAssumption DEF LoadRequest
<1> QED
  BY <1>2, <1>3 DEF OrderKey

\* Two requests are never each before the other.
LEMMA BeforeIsAsymmetric ==
    ASSUME TypeOK, NEW l \in Loads, NEW m \in Loads, Before(l, m), Before(m, l)
    PROVE  FALSE
<1> DEFINE a == OrderKey(l)
           b == OrderKey(m)
<1>1. a \in [1..7 -> Int] /\ b \in [1..7 -> Int]
  BY OrderKeyType
<1>2. PICK i \in 1..7 : a[i] < b[i] /\ \A j \in 1..(i-1) : a[j] = b[j]
  BY DEF Before
<1>3. PICK k \in 1..7 : b[k] < a[k] /\ \A j \in 1..(k-1) : b[j] = a[j]
  BY DEF Before
<1> HIDE DEF a, b
<1>4. a[i] \in Int /\ b[i] \in Int /\ a[k] \in Int /\ b[k] \in Int
  BY <1>1
<1>5. CASE i < k
  BY <1>2, <1>3, <1>4, <1>5
<1>6. CASE k < i
  BY <1>2, <1>3, <1>4, <1>6
<1>7. CASE i = k
  BY <1>2, <1>3, <1>4, <1>7
<1> QED
  BY <1>5, <1>6, <1>7

\* Headrooms are naturals that only depend on the limits and on what was granted.
LEMMA HeadroomType ==
    ASSUME TypeOK, NEW r \in Requests
    PROVE  /\ LimitFor(r) \in Nat
           /\ Headroom(LimitFor(r)) \in Nat
           /\ PhaseLimited(r) =>
                 /\ r.phase \in Phases
                 /\ decision.phaseLimit[r.phase] - AtLeastZero(decision.phaseImport[r.phase])
                       \in Int
                 /\ PhaseHeadroom(r) \in Nat
           /\ EffectiveHeadroom(r) \in Nat
<1>1. /\ decision \in ArbitrationInput /\ totalGranted \in Nat
      /\ phaseGranted \in [Phases -> Nat] /\ r \in LoadRequest
  BY DecisionsAssumption, RequestsAssumption DEF TypeOK
<1>2. LimitFor(r) \in Nat /\ BaselineImport \in Nat /\ AvailableSolar \in Nat
  BY SiteQuantities DEF LimitFor, TypeOK
<1>3. Headroom(LimitFor(r)) \in Nat
  BY <1>1, <1>2 DEF Headroom, AtLeastZero
<1>4. ASSUME PhaseLimited(r)
      PROVE  /\ r.phase \in Phases
             /\ decision.phaseLimit[r.phase] - AtLeastZero(decision.phaseImport[r.phase])
                   \in Int
             /\ PhaseHeadroom(r) \in Nat
  <2>1. /\ r.phase \in Phases /\ decision.phaseLimit[r.phase] \in Nat
        /\ decision.phaseImport[r.phase] \in Int /\ phaseGranted[r.phase] \in Nat
    BY <1>1, <1>4 DEF PhaseLimited, LoadRequest, ArbitrationInput, Optional
  <2> QED
    BY <2>1 DEF PhaseHeadroom, AtLeastZero
<1>5. EffectiveHeadroom(r) \in Nat
  BY <1>3, <1>4, LesserType DEF EffectiveHeadroom
<1> QED
  BY <1>2, <1>3, <1>4, <1>5

\* Whoever gets a grant gets at least what it needs, and no more than is left.
LEMMA GrantCoversNeed ==
    ASSUME TypeOK, NEW l \in Loads, GrantFor(request[l]) # 0
    PROVE  Need(request[l]) <= EffectiveHeadroom(request[l])
<1> DEFINE r == request[l]
           h == EffectiveHeadroom(r)
<1>1. r \in Requests /\ r \in LoadRequest
  BY RequestsAssumption DEF TypeOK
<1>2. MinimumGrant(r) \in Nat /\ Target(r) \in Nat /\ h \in Nat
  BY <1>1, RequestQuantities, HeadroomType
<1>3. CASE IsBinary(r)
  <2>1. MinimumGrant(r) = r.requested /\ Target(r) = r.requested /\ r.requested \in Nat
    BY <1>1, <1>3 DEF IsBinary, MinimumGrant, Target, MaximumGrant, Lesser, LoadRequest
  <2>2. h >= Target(r)
    BY <1>3 DEF GrantFor
  <2> QED
    BY <1>2, <1>3, <2>1, <2>2 DEF Need
<1>4. CASE ~IsBinary(r)
  <2> DEFINE bounded == Lesser(Target(r), h)
  <2>1. bounded \in Nat /\ bounded <= h
    BY <1>2, LesserType
  <2>2. bounded >= MinimumGrant(r) /\ bounded # 0
    BY <1>4 DEF GrantFor
  <2> QED
    BY <1>2, <1>4, <2>1, <2>2 DEF Need
<1> QED
  BY <1>3, <1>4

\* A request that could be satisfied and gets nothing needs more than is left.
LEMMA RefusedForLackOfPower ==
    ASSUME TypeOK, NEW l \in Loads, GrantFor(request[l]) = 0,
           Target(request[l]) >= MinimumGrant(request[l])
    PROVE  EffectiveHeadroom(request[l]) < Need(request[l])
<1> DEFINE r == request[l]
           h == EffectiveHeadroom(r)
<1>1. r \in Requests /\ r \in LoadRequest
  BY RequestsAssumption DEF TypeOK
<1>2. MinimumGrant(r) \in Nat /\ Target(r) \in Nat /\ h \in Nat
  BY <1>1, RequestQuantities, HeadroomType
<1>3. Target(r) > 0
  BY <1>1 DEF Target, Lesser, MaximumGrant, LoadRequest, Optional
<1>4. CASE IsBinary(r)
  <2>1. MinimumGrant(r) = Target(r)
    BY <1>1, <1>4 DEF IsBinary, MinimumGrant, Target, MaximumGrant, Lesser, LoadRequest
  <2>2. ~(h >= Target(r))
    BY <1>2, <1>3, <1>4 DEF GrantFor
  <2> QED
    BY <1>2, <1>4, <2>1, <2>2 DEF Need
<1>5. CASE ~IsBinary(r)
  <2> DEFINE bounded == Lesser(Target(r), h)
  <2>1. bounded < MinimumGrant(r) \/ bounded = 0
    BY <1>2, <1>5, LesserType DEF GrantFor
  <2>2. h < MinimumGrant(r) \/ h = 0
    BY <1>2, <1>3, <2>1 DEF Lesser
  <2> QED
    BY <1>2, <1>5, <2>2 DEF Need
<1> QED
  BY <1>4, <1>5

\* Headroom only shrinks while the loop hands power out.
LEMMA HeadroomShrinks ==
    ASSUME TypeOK, TypeOK', NEW r \in Requests, UNCHANGED decision,
           totalGranted <= totalGranted',
           \A p \in Phases : phaseGranted[p] <= phaseGranted'[p]
    PROVE  /\ EffectiveHeadroom(r) \in Nat /\ EffectiveHeadroom(r)' \in Nat
           /\ EffectiveHeadroom(r)' <= EffectiveHeadroom(r)
<1>1. /\ totalGranted \in Nat /\ totalGranted' \in Nat
      /\ phaseGranted \in [Phases -> Nat] /\ phaseGranted' \in [Phases -> Nat]
  BY DEF TypeOK
<1>2. LimitFor(r) \in Nat /\ BaselineImport \in Nat /\ AvailableSolar \in Nat
  BY HeadroomType, SiteQuantities DEF TypeOK
<1>3. /\ Headroom(LimitFor(r)) \in Nat /\ Headroom(LimitFor(r))' \in Nat
      /\ Headroom(LimitFor(r))' <= Headroom(LimitFor(r))
  <2>1. UNCHANGED <<LimitFor(r), BaselineImport, AvailableSolar>>
    BY DEF LimitFor, HardLimit, ControlledLimit, BaselineImport, AvailableSolar
  <2> QED
    BY <1>1, <1>2, <2>1 DEF Headroom, AtLeastZero
<1>4. PhaseLimited(r)' = PhaseLimited(r)
  BY DEF PhaseLimited
<1>5. ASSUME PhaseLimited(r)
      PROVE  /\ PhaseHeadroom(r) \in Nat /\ PhaseHeadroom(r)' \in Nat
             /\ PhaseHeadroom(r)' <= PhaseHeadroom(r)
  <2> DEFINE spare == decision.phaseLimit[r.phase]
                      - AtLeastZero(decision.phaseImport[r.phase])
  <2>1. r.phase \in Phases /\ spare \in Int
    BY <1>5, HeadroomType
  <2>2. /\ phaseGranted[r.phase] \in Nat /\ phaseGranted'[r.phase] \in Nat
        /\ phaseGranted[r.phase] <= phaseGranted'[r.phase]
    BY <1>1, <2>1
  <2>3. PhaseHeadroom(r) = AtLeastZero(spare - phaseGranted[r.phase])
        /\ PhaseHeadroom(r)' = AtLeastZero(spare - phaseGranted'[r.phase])
    BY DEF PhaseHeadroom
  <2> HIDE DEF spare
  <2> QED
    BY <2>1, <2>2, <2>3 DEF AtLeastZero
<1>6. CASE PhaseLimited(r)
  <2> DEFINE site == Headroom(LimitFor(r))
             phase == PhaseHeadroom(r)
  <2>1. EffectiveHeadroom(r) = Lesser(site, phase)
        /\ EffectiveHeadroom(r)' = Lesser(site', phase')
    BY <1>4, <1>6 DEF EffectiveHeadroom, Lesser
  <2>2. /\ {site, phase, site', phase'} \subseteq Nat
        /\ site' <= site /\ phase' <= phase
    BY <1>3, <1>5, <1>6
  <2> HIDE DEF site, phase
  <2> QED
    BY <2>1, <2>2 DEF Lesser
<1>7. CASE ~PhaseLimited(r)
  BY <1>3, <1>4, <1>7 DEF EffectiveHeadroom
<1> QED
  BY <1>6, <1>7

\* A step of the loop keeps the decision and never takes a grant back.
LEMMA TotalsGrow ==
    ASSUME IInv, [Next]_vars
    PROVE  /\ UNCHANGED <<decision, request>>
           /\ totalGranted <= totalGranted'
           /\ \A p \in Phases : phaseGranted[p] <= phaseGranted'[p]
<1>1. /\ totalGranted \in Nat /\ phaseGranted \in [Phases -> Nat]
      /\ \A p \in Phases : phaseGranted[p] \in Nat
  BY DEF IInv, TypeOK
<1>2. ASSUME UNCHANGED <<decision, request, totalGranted, phaseGranted>>
      PROVE  /\ UNCHANGED <<decision, request>>
             /\ totalGranted <= totalGranted'
             /\ \A p \in Phases : phaseGranted[p] <= phaseGranted'[p]
  BY <1>1, <1>2
<1>3. CASE UNCHANGED vars
  BY <1>2, <1>3 DEF vars, input, totals
<1>4. ASSUME NEW l \in Loads, Deny(l)
      PROVE  UNCHANGED <<decision, request, totalGranted, phaseGranted>>
  BY <1>4 DEF Deny, input, totals
<1>5. ASSUME NEW l \in Loads, Accept(l)
      PROVE  /\ UNCHANGED <<decision, request>>
             /\ totalGranted <= totalGranted'
             /\ \A p \in Phases : phaseGranted[p] <= phaseGranted'[p]
  <2> DEFINE r == request[l]
             g == GrantFor(r)
  <2>1. g \in Nat /\ totalGranted' = totalGranted + g /\ UNCHANGED decision
    BY <1>5, GrantRecorded
  <2>2. UNCHANGED request
    BY <1>5 DEF Accept, input
  <2>3. phaseGranted' = IF r.phase = None THEN phaseGranted
                        ELSE [phaseGranted EXCEPT ![r.phase] = @ + g]
    BY <1>5 DEF Accept
  <2> HIDE DEF g
  <2>4. \A p \in Phases : phaseGranted[p] <= phaseGranted'[p]
    BY <1>1, <2>1, <2>3
  <2> QED
    BY <1>1, <2>1, <2>2, <2>4
<1>6. CASE Finish
  BY <1>2, <1>6 DEF Finish, input, totals
<1> QED
  BY <1>2, <1>3, <1>4, <1>5, <1>6 DEF Next

\* A load's answer only changes when its turn comes.
LEMMA AnsweredAtItsTurn ==
    ASSUME IInv, [Next]_vars, NEW l \in Loads, allocations'[l] # allocations[l]
    PROVE  Deny(l) \/ Accept(l)
<1>1. ~Finish /\ ~UNCHANGED vars
  BY DEF Finish, vars
<1>2. PICK m \in Loads : Deny(m) \/ Accept(m)
  BY <1>1 DEF Next
<1>3. \A n \in Loads \ {m} : allocations'[n] = allocations[n]
  BY <1>2, DenialRecorded, GrantRecorded
<1>4. m = l
  BY <1>3
<1> QED
  BY <1>2, <1>4

\* Before the loop nobody was refused and nobody was accepted.
LEMMA InitEstablishesOrderInv == Init => OrderInv
<1> SUFFICES ASSUME Init PROVE OrderInv
  OBVIOUS
<1>1. \A l \in Loads : allocations[l] = None
  BY DEF Init
<1> QED
  BY <1>1 DEF OrderInv, StillShort, NoPriorityInversion, DeniedForCapacity, Accepted

\* A refused load stays short, and a new refusal for lack of capacity is a shortage.
LEMMA StepPreservesStillShort ==
    ASSUME IInv, IInv', StillShort, [Next]_vars
    PROVE  StillShort'
<1> SUFFICES ASSUME NEW l \in Loads, DeniedForCapacity(l)'
             PROVE  EffectiveHeadroom(request[l])' < Need(request[l])'
  BY DEF StillShort
<1> DEFINE r == request[l]
<1>1. TypeOK /\ TypeOK' /\ r \in Requests
  BY DEF IInv, TypeOK
<1>2. UNCHANGED <<decision, request>> /\ r' = r /\ Need(r)' = Need(r)
  BY TotalsGrow DEF Need, IsBinary, MinimumGrant
<1>3. EffectiveHeadroom(r)' <= EffectiveHeadroom(r)
      /\ EffectiveHeadroom(request[l])' = EffectiveHeadroom(r)'
  BY <1>1, TotalsGrow, HeadroomShrinks
<1>4. EffectiveHeadroom(r) < Need(r)
  <2>1. Target(r) >= MinimumGrant(r)
    BY <1>2 DEF DeniedForCapacity, Target, MinimumGrant, MaximumGrant, IsBinary
  <2>2. CASE allocations'[l] = allocations[l]
    BY <2>1, <2>2 DEF DeniedForCapacity, StillShort
  <2>3. CASE allocations'[l] # allocations[l]
    <3>1. Deny(l) \/ Accept(l)
      BY <2>3, AnsweredAtItsTurn
    <3>2. CASE Deny(l)
      <4>1. allocations'[l].reason = DenialReason(r)
        BY <3>2 DEF Deny, IInv, TypeOK
      <4>2. DenialReason(r) \in CapacityReasons
        BY <4>1 DEF DeniedForCapacity
      <4>3. GrantFor(r) = 0
        BY <4>2, NoneAssumption
           DEF DenialReason, PreconditionReason, InputReason, CapacityReasons, ReasonCode
      <4> QED
        BY <1>1, <2>1, <4>3, RefusedForLackOfPower
    <3>3. CASE Accept(l)
      <4>1. allocations'[l].reason \in {"setpoint_bounded", "plan_selected"}
        BY <3>3 DEF Accept, IInv, TypeOK
      <4> QED
        BY <4>1 DEF DeniedForCapacity, CapacityReasons
    <3> QED
      BY <3>1, <3>2, <3>3
  <2> QED
    BY <2>2, <2>3
<1>5. Need(r) \in Int /\ EffectiveHeadroom(r) \in Int /\ EffectiveHeadroom(r)' \in Int
  <2>1. Need(r) \in Int
    BY <1>1, RequestQuantities DEF Need
  <2> QED
    BY <1>1, <2>1, HeadroomShrinks, TotalsGrow
<1> QED
  BY <1>2, <1>3, <1>4, <1>5

\* A load is only accepted if it needs less than every comparable load refused
\* before it; and whoever is refused now comes after all that were accepted.
LEMMA StepPreservesOrder ==
    ASSUME IInv, IInv', StillShort, NoPriorityInversion, [Next]_vars
    PROVE  NoPriorityInversion'
<1>1. UNCHANGED <<decision, request>>
  BY TotalsGrow
<1> SUFFICES ASSUME NEW l \in Loads, NEW m \in Loads,
                    Before(l, m), Accepted(m)', DeniedForCapacity(l)',
                    request[l].source = request[m].source,
                    request[l].phase = request[m].phase
             PROVE  Need(request[m]) < Need(request[l])
  <2>1. \A l, m \in Loads : Before(l, m)' <=> Before(l, m)
    BY <1>1 DEF Before, OrderKey
  <2>2. \A l \in Loads : Need(request[l])' = Need(request[l])
    BY <1>1 DEF Need, IsBinary, MinimumGrant
  <2> QED
    BY <1>1, <2>1, <2>2 DEF NoPriorityInversion, DeniedForCapacity
<1>2. TypeOK
  BY DEF IInv
<1>3. Target(request[l]) >= MinimumGrant(request[l])
  BY <1>1 DEF DeniedForCapacity, Target, MinimumGrant, MaximumGrant, IsBinary
<1>4. CASE allocations'[m] # allocations[m]
  <2>1. Deny(m) \/ Accept(m)
    BY <1>4, AnsweredAtItsTurn
  <2>2. ~Deny(m)
    BY DEF Deny, Accepted, IInv, TypeOK
  <2>3. GrantFor(request[m]) # 0
    BY <2>1, <2>2, NotDenied DEF Accept
  <2>4. Need(request[m]) <= EffectiveHeadroom(request[m])
    BY <1>2, <2>3, GrantCoversNeed
  <2>5. l # m
    <3>1. allocations'[m].reason \in {"setpoint_bounded", "plan_selected"}
      BY <2>1, <2>2 DEF Accept, IInv, TypeOK
    <3> QED
      BY <3>1 DEF DeniedForCapacity, CapacityReasons
  <2>6. allocations'[l] = allocations[l]
    BY <2>1, <2>5, DenialRecorded, GrantRecorded
  <2>7. EffectiveHeadroom(request[l]) < Need(request[l])
    BY <1>3, <2>6 DEF DeniedForCapacity, StillShort
  <2>8. EffectiveHeadroom(request[l]) = EffectiveHeadroom(request[m])
    BY DEF EffectiveHeadroom, PhaseLimited, PhaseHeadroom, LimitFor
  <2>9. /\ Need(request[l]) \in Int /\ Need(request[m]) \in Int
        /\ EffectiveHeadroom(request[l]) \in Int
    BY <1>2, RequestQuantities, HeadroomType DEF Need, TypeOK
  <2> QED
    BY <2>4, <2>7, <2>8, <2>9
<1>5. CASE allocations'[m] = allocations[m] /\ allocations'[l] # allocations[l]
  <2>1. Deny(l) \/ Accept(l)
    BY <1>5, AnsweredAtItsTurn
  <2>2. l \in pending
    BY <2>1 DEF Deny, Accept, IsNext
  <2>3. m \in Loads \ pending
    BY <1>5 DEF Accepted, IInv, AnswersRecorded
  <2>4. Before(m, l)
    BY <2>2, <2>3 DEF IInv, AnsweredInOrder
  <2> QED
    BY <1>2, <2>4, BeforeIsAsymmetric
<1>6. CASE allocations'[m] = allocations[m] /\ allocations'[l] = allocations[l]
  BY <1>3, <1>6 DEF Accepted, DeniedForCapacity, NoPriorityInversion
<1> QED
  BY <1>4, <1>5, <1>6

\* A request refused for lack of capacity is never overtaken by a later one of the
\* same kind on the same phase, unless that one needs less than it did.
THEOREM OrderKept == Spec => []NoPriorityInversion
<1>1. Init => OrderInv
  BY InitEstablishesOrderInv
<1>2. IInv /\ IInv' /\ OrderInv /\ [Next]_vars => OrderInv'
  BY StepPreservesStillShort, StepPreservesOrder DEF OrderInv
<1>3. OrderInv => NoPriorityInversion
  BY DEF OrderInv
<1> QED
  BY <1>1, <1>2, <1>3, Invariance, PTL DEF Spec
=============================================================================
