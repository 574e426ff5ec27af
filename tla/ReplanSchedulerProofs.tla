------------------------ MODULE ReplanSchedulerProofs ------------------------
(***************************************************************************)
(* At most one debounced task exists, and it is the one that async_stop    *)
(* cancels: the inductive invariant says where on the lock every process   *)
(* of the scheduler is, whatever the number of callers, of task identities *)
(* and of input changes.                                                   *)
(***************************************************************************)
EXTENDS ReplanScheduler, SequenceTheorems, WellFoundedInduction, TLAPS

\* The processes that hold the lock or are queued on it.
AtLock == Range(waiters) \cup {lock}

\* Nobody is queued twice, and the holder is not queued.
QueueIsASet == IsInjective(waiters) /\ lock \notin Range(waiters)

LockStages ==
    /\ lock = None <=> stage = "free"
    /\ lock = None => waiters = <<>>
    /\ Start \notin Range(waiters) /\ (lock = Start => stage = "acting")

\* A process is at the lock exactly when its state says that it awaits it or has it.
EveryoneAtLock ==
    /\ \A t \in TaskIds : t \in AtLock <=> task[t] \in {"waiting", "replanning"}
    /\ \A t \in TaskIds : task[t] = "replanning" <=> lock = t /\ stage = "acting"
    /\ \A c \in Clients : c \in AtLock <=> client[c] = "waiting"
    /\ Stop \in AtLock <=> stop = "waiting"

\* The scheduler knows the only task that is not done, and none once it is stopped.
OneDebouncedTask ==
    /\ \A t \in TaskIds : Live(t) => replanTask = t
    /\ ~started => replanTask = None

IInv == TypeOK /\ QueueIsASet /\ LockStages /\ EveryoneAtLock /\ OneDebouncedTask

-----------------------------------------------------------------------------
(* Queues without repetition.                                              *)

\* What Append does to the queue.
LEMMA AppendFacts ==
    ASSUME NEW S, NEW s \in Seq(S), NEW e \in S
    PROVE  /\ Append(s, e) \in Seq(S)
           /\ Range(Append(s, e)) = Range(s) \cup {e}
           /\ IsInjective(s) /\ e \notin Range(s) => IsInjective(Append(s, e))
<1>1. /\ Append(s, e) \in Seq(S) /\ Len(Append(s, e)) = Len(s) + 1 /\ Len(s) \in Nat
      /\ \A i \in 1 .. Len(s) : Append(s, e)[i] = s[i]
      /\ Append(s, e)[Len(s) + 1] = e
  BY AppendProperties, LenProperties
<1>2. DOMAIN Append(s, e) = 1 .. Len(s) + 1 /\ DOMAIN s = 1 .. Len(s)
  BY <1>1, LenProperties
<1>3. Range(Append(s, e)) = Range(s) \cup {e}
  BY <1>1, <1>2 DEF Range
<1>4. ASSUME IsInjective(s), e \notin Range(s) PROVE IsInjective(Append(s, e))
  BY <1>1, <1>2, <1>4 DEF Range, IsInjective
<1>. QED BY <1>1, <1>3, <1>4

\* What Tail does to the queue.
LEMMA TailFacts ==
    ASSUME NEW S, NEW s \in Seq(S), s # <<>>
    PROVE  /\ Head(s) \in S /\ Tail(s) \in Seq(S)
           /\ IsInjective(s) => IsInjective(Tail(s)) /\ Range(Tail(s)) = Range(s) \ {Head(s)}
           /\ Head(s) \in Range(s)
<1>1. /\ Head(s) \in S /\ Tail(s) \in Seq(S) /\ Len(Tail(s)) = Len(s) - 1
      /\ \A i \in 1 .. Len(Tail(s)) : Tail(s)[i] = s[i + 1]
  BY HeadTailProperties
<1>2. /\ DOMAIN Tail(s) = 1 .. Len(s) - 1 /\ DOMAIN s = 1 .. Len(s)
      /\ Len(s) \in Nat \ {0} /\ Head(s) = s[1]
  BY <1>1, LenProperties, EmptySeq
<1>3. Head(s) \in Range(s)
  BY <1>2 DEF Range
<1>4. ASSUME IsInjective(s) PROVE IsInjective(Tail(s))
  BY <1>1, <1>2, <1>4 DEF IsInjective
<1>5. ASSUME IsInjective(s) PROVE Range(Tail(s)) = Range(s) \ {Head(s)}
  <2>1. ASSUME NEW x \in Range(Tail(s)) PROVE x \in Range(s) /\ x # Head(s)
    <3>1. PICK i \in 1 .. Len(s) - 1 : x = Tail(s)[i]
      BY <1>2 DEF Range
    <3>2. x = s[i + 1] /\ i + 1 \in 1 .. Len(s) /\ i + 1 # 1 /\ 1 \in 1 .. Len(s)
      BY <1>1, <1>2, <3>1
    <3>. QED BY <1>2, <1>5, <3>2 DEF Range, IsInjective
  <2>2. ASSUME NEW x \in Range(s), x # Head(s) PROVE x \in Range(Tail(s))
    <3>1. PICK i \in 1 .. Len(s) : x = s[i]
      BY <1>2 DEF Range
    <3>2. i # 1
      BY <1>2, <2>2, <3>1
    <3>3. i - 1 \in 1 .. Len(s) - 1 /\ Tail(s)[i - 1] = x
      BY <1>1, <1>2, <3>1, <3>2
    <3>. QED BY <1>2, <3>3 DEF Range
  <2>. QED BY <2>1, <2>2
<1>. QED BY <1>1, <1>3, <1>4, <1>5

\* What the cancellation of a queued task does to the queue.
LEMMA RemoveFirstFacts ==
    ASSUME NEW S, NEW s \in Seq(S), NEW e, IsInjective(s)
    PROVE  /\ RemoveFirst(s, e) \in Seq(S) /\ IsInjective(RemoveFirst(s, e))
           /\ Range(RemoveFirst(s, e)) = Range(s) \ {e}
<1> DEFINE n == Len(s)
           I == {i \in 1 .. n : s[i] = e}
<1>0. n \in Nat /\ DOMAIN s = 1 .. n /\ \A i \in 1 .. n : s[i] \in S
  BY LenProperties, ElementOfSeq
<1>1. CASE I = {}
  <2>1. RemoveFirst(s, e) = s
    BY <1>1 DEF RemoveFirst
  <2>2. e \notin Range(s)
    BY <1>0, <1>1 DEF Range
  <2>. QED BY <2>1, <2>2
<1>2. CASE I # {}
  <2> DEFINE k == Min(I)
  <2>1. k \in I
    <3>1. I \subseteq Nat /\ I # {}
      BY <1>0, <1>2
    <3>2. \E x \in I : \A y \in I : x <= y
      <4> HIDE DEF I
      <4>1. \E x \in I : \A y \in I : ~(<<y, x>> \in OpToRel(<, Nat))
        BY <3>1, NatLessThanWellFounded, WFMin
      <4>2. \A x, y \in Nat : <<y, x>> \in OpToRel(<, Nat) <=> y < x
        BY DEF OpToRel
      <4>3. PICK x \in I : \A y \in I : ~(<<y, x>> \in OpToRel(<, Nat))
        BY <4>1
      <4>4. \A y \in I : ~(y < x)
        BY <3>1, <4>2, <4>3
      <4>. QED BY <3>1, <4>4
    <3> HIDE DEF I
    <3>. QED BY <3>2 DEF Min
  <2>2. RemoveFirst(s, e) = RemoveAt(s, k)
    BY <1>2 DEF RemoveFirst, SelectInSeq
  <2> HIDE DEF k
  <2>3. k \in 1 .. n /\ s[k] = e
    BY <2>1
  <2> HIDE DEF I, n
  <2> DEFINE a == SubSeq(s, 1, k - 1)
             b == SubSeq(s, k + 1, n)
             r == a \o b
  <2>4. RemoveFirst(s, e) = r
    BY <2>2 DEF RemoveAt, n
  <2>5. /\ a \in Seq(S) /\ Len(a) = k - 1 /\ \A i \in 1 .. k - 1 : a[i] = s[i]
    <3>1. /\ 1 \in Int /\ k - 1 \in Int /\ \A i \in 1 .. k - 1 : s[i] \in S
          /\ (IF 1 <= k - 1 THEN k - 1 - 1 + 1 ELSE 0) = k - 1
          /\ 1 .. k - 1 - 1 + 1 = 1 .. k - 1
      BY <1>0, <2>3
    <3>2. /\ a \in Seq(S) /\ Len(a) = IF 1 <= k - 1 THEN k - 1 - 1 + 1 ELSE 0
          /\ \A i \in 1 .. k - 1 - 1 + 1 : a[i] = s[1 + i - 1]
      BY <3>1, SubSeqProperties
    <3> HIDE DEF a
    <3>. QED BY <2>3, <1>0, <3>1, <3>2
  <2>6. /\ b \in Seq(S) /\ Len(b) = n - k /\ \A i \in 1 .. n - k : b[i] = s[k + i]
    <3>1. /\ k + 1 \in Int /\ n \in Int /\ \A i \in k + 1 .. n : s[i] \in S
      BY <1>0, <2>3
    <3>2. /\ b \in Seq(S) /\ Len(b) = IF k + 1 <= n THEN n - (k + 1) + 1 ELSE 0
          /\ \A i \in 1 .. n - (k + 1) + 1 : b[i] = s[k + 1 + i - 1]
      BY <3>1, SubSeqProperties
    <3> HIDE DEF b
    <3>. QED BY <2>3, <1>0, <3>1, <3>2
  <2> HIDE DEF a, b
  <2>7. /\ r \in Seq(S) /\ Len(r) = n - 1 /\ DOMAIN r = 1 .. n - 1
        /\ \A i \in 1 .. n - 1 : r[i] = IF i < k THEN s[i] ELSE s[i + 1]
    <3>1. /\ r \in Seq(S) /\ Len(r) = Len(a) + Len(b)
          /\ \A i \in 1 .. Len(a) + Len(b) :
                r[i] = IF i <= Len(a) THEN a[i] ELSE b[i - Len(a)]
      BY <2>5, <2>6, ConcatProperties
    <3>2. DOMAIN r = 1 .. Len(r)
      BY <3>1, LenProperties
    <3> HIDE DEF r
    <3>3. Len(r) = n - 1
      BY <1>0, <2>3, <2>5, <2>6, <3>1
    <3>4. ASSUME NEW i \in 1 .. n - 1
          PROVE  r[i] = IF i < k THEN s[i] ELSE s[i + 1]
      <4>1. CASE i < k
        BY <1>0, <2>3, <2>5, <2>6, <3>1, <4>1
      <4>2. CASE ~(i < k)
        <5>1. r[i] = b[i - (k - 1)] /\ i - (k - 1) \in 1 .. n - k
          BY <1>0, <2>3, <2>5, <2>6, <3>1, <4>2
        <5>2. b[i - (k - 1)] = s[k + (i - (k - 1))]
          BY <2>6, <5>1
        <5>3. k + (i - (k - 1)) = i + 1
          BY <1>0, <2>3
        <5>. QED BY <4>2, <5>1, <5>2, <5>3
      <4>. QED BY <4>1, <4>2
    <3>. QED BY <3>1, <3>2, <3>3, <3>4
  <2> HIDE DEF r
  <2>8. IsInjective(r)
    <3>. SUFFICES ASSUME NEW i \in 1 .. n - 1, NEW j \in 1 .. n - 1, r[i] = r[j]
                  PROVE  i = j
      BY <2>7 DEF IsInjective
    <3> DEFINE p(m) == IF m < k THEN m ELSE m + 1
    <3>1. p(i) \in 1 .. n /\ p(j) \in 1 .. n /\ s[p(i)] = s[p(j)]
      BY <1>0, <2>3, <2>7
    <3>2. p(i) = p(j)
      <4> HIDE DEF p
      <4>. QED BY <1>0, <3>1 DEF IsInjective
    <3>. QED BY <1>0, <2>3, <3>2
  <2>9. ASSUME NEW x \in Range(r) PROVE x \in Range(s) /\ x # e
    <3>1. PICK i \in 1 .. n - 1 : x = r[i]
      BY <2>7 DEF Range
    <3> DEFINE j == IF i < k THEN i ELSE i + 1
    <3>2. j \in 1 .. n /\ j # k /\ x = s[j]
      BY <1>0, <2>3, <2>7, <3>1
    <3> HIDE DEF j
    <3>. QED BY <1>0, <2>3, <3>2 DEF Range, IsInjective
  <2>10. ASSUME NEW x \in Range(s), x # e PROVE x \in Range(r)
    <3>1. PICK i \in 1 .. n : x = s[i]
      BY <1>0 DEF Range
    <3> DEFINE j == IF i < k THEN i ELSE i - 1
    <3>2. i # k
      BY <2>3, <2>10, <3>1
    <3>3. j \in 1 .. n - 1 /\ r[j] = x
      BY <1>0, <2>3, <2>7, <3>1, <3>2
    <3> HIDE DEF j
    <3>. QED BY <2>7, <3>3 DEF Range
  <2>. QED BY <2>4, <2>7, <2>8, <2>9, <2>10
<1>. QED BY <1>1, <1>2

-----------------------------------------------------------------------------
(* The inductive invariant.                                                *)

\* The invariant holds initially.
THEOREM InitEstablishesIInv == Init => IInv
<1>. SUFFICES ASSUME Init PROVE IInv
  OBVIOUS
<1>. USE IdentityAssumption, BoundsAssumption DEF Init, Processes, Start, Stop
<1>1. TypeOK
  BY DEF TypeOK, TaskState
<1>2. Range(waiters) = {} /\ IsInjective(waiters)
  BY DEF Range, IsInjective
<1>3. QueueIsASet /\ LockStages
  BY <1>2 DEF QueueIsASet, LockStages
<1>4. EveryoneAtLock
  BY <1>2 DEF EveryoneAtLock, AtLock
<1>5. OneDebouncedTask
  BY DEF OneDebouncedTask, Live
<1>. QED BY <1>1, <1>3, <1>4, <1>5 DEF IInv

\* A process that asks for the lock has it or is queued on it, behind the others.
LEMMA AcquireFacts ==
    ASSUME IInv, NEW p \in Processes, p # Start, p \notin AtLock, Acquire(p)
    PROVE  /\ lock' \in Processes /\ waiters' \in Seq(Processes)
           /\ stage' \in {"free", "entered", "acting"}
           /\ QueueIsASet' /\ LockStages' /\ AtLock' = (AtLock \cup {p}) \ {None}
           /\ lock # None => lock' = lock /\ stage' = stage
           /\ lock = None => stage' = "entered"
<1>. USE IdentityAssumption DEF IInv, TypeOK, QueueIsASet, LockStages, AtLock
<1>0. p # None /\ None \notin Range(waiters)
  BY DEF Range
<1>1. CASE lock = None /\ waiters = <<>>
  <2>1. lock' = p /\ stage' = "entered" /\ waiters' = waiters
    BY <1>1 DEF Acquire
  <2>2. Range(waiters') = {} /\ IsInjective(waiters') /\ AtLock = {None}
    BY <1>1, <2>1 DEF Range, IsInjective
  <2>. QED BY <1>0, <1>1, <2>1, <2>2
<1>2. CASE ~(lock = None /\ waiters = <<>>)
  <2>1. waiters' = Append(waiters, p) /\ UNCHANGED <<lock, stage>> /\ lock # None
    BY <1>2 DEF Acquire
  <2>2. /\ waiters' \in Seq(Processes) /\ Range(waiters') = Range(waiters) \cup {p}
        /\ IsInjective(waiters')
    BY <2>1, AppendFacts
  <2>. QED BY <1>0, <2>1, <2>2
<1>. QED BY <1>1, <1>2

\* The holder leaves, and the oldest of those that wait has the lock.
LEMMA ReleaseFacts ==
    ASSUME IInv, lock # None, Release(waiters)
    PROVE  /\ lock' \in Processes \cup {None} /\ waiters' \in Seq(Processes)
           /\ stage' \in {"free", "entered", "acting"} /\ stage' # "acting"
           /\ QueueIsASet' /\ LockStages'
           /\ AtLock' \ {None} = AtLock \ {lock}
<1>. USE IdentityAssumption DEF IInv, TypeOK, QueueIsASet, LockStages, AtLock
<1>0. None \notin Range(waiters)
  BY DEF Range
<1>1. CASE waiters = <<>>
  <2>1. lock' = None /\ stage' = "free" /\ waiters' = <<>>
    BY <1>1 DEF Release
  <2>2. Range(waiters') = {} /\ IsInjective(waiters') /\ Range(waiters) = {}
    BY <1>1, <2>1 DEF Range, IsInjective
  <2>3. Start # None
    BY DEF Processes
  <2>. QED BY <2>1, <2>2, <2>3
<1>2. CASE waiters # <<>>
  <2>1. lock' = Head(waiters) /\ stage' = "entered" /\ waiters' = Tail(waiters)
    BY <1>2 DEF Release
  <2>2. /\ Head(waiters) \in Processes /\ Tail(waiters) \in Seq(Processes)
        /\ IsInjective(Tail(waiters)) /\ Range(Tail(waiters)) = Range(waiters) \ {Head(waiters)}
        /\ Head(waiters) \in Range(waiters)
    BY <1>2, TailFacts
  <2>3. Head(waiters) # None /\ Head(waiters) # Start
    BY <1>0, <2>2
  <2>. QED BY <1>0, <2>1, <2>2, <2>3
<1>. QED BY <1>1, <1>2

\* Steps that come to the lock keep the invariant.
LEMMA ArrivalPreservesIInv ==
    IInv /\ ((\E t \in TaskIds : WakeUp(t)) \/ (\E c \in Clients : ClientReplan(c))
             \/ RequestStop) => IInv'
<1>. USE IdentityAssumption
<1>1. ASSUME IInv, NEW t \in TaskIds, WakeUp(t) PROVE IInv'
  <2>1. /\ task[t] = "sleeping" /\ task' = [task EXCEPT ![t] = "waiting"] /\ Acquire(t)
        /\ UNCHANGED <<started, subscribed, inputVersion, observedVersion, callbacks,
                       replanTask, client, stop>>
    BY <1>1 DEF WakeUp
  <2>2. t \in Processes /\ t # Start /\ t \notin AtLock
    BY <1>1, <2>1 DEF Processes, IInv, EveryoneAtLock
  <2>3. /\ lock' \in Processes /\ waiters' \in Seq(Processes)
        /\ stage' \in {"free", "entered", "acting"}
        /\ QueueIsASet' /\ LockStages' /\ AtLock' = (AtLock \cup {t}) \ {None}
        /\ lock # None => lock' = lock /\ stage' = stage
        /\ lock = None => stage' = "entered"
    BY <1>1, <2>1, <2>2, AcquireFacts
  <2>4. TypeOK'
    BY <1>1, <2>1, <2>3 DEF IInv, TypeOK, TaskState
  <2>5. EveryoneAtLock'
    BY <1>1, <2>1, <2>2, <2>3 DEF IInv, TypeOK, EveryoneAtLock, LockStages, AtLock, Processes
  <2>6. OneDebouncedTask'
    BY <1>1, <2>1 DEF IInv, TypeOK, OneDebouncedTask, Live
  <2>. QED BY <2>3, <2>4, <2>5, <2>6 DEF IInv
<1>2. ASSUME IInv, NEW c \in Clients, ClientReplan(c) PROVE IInv'
  <2>1. /\ client[c] = "idle" /\ client' = [client EXCEPT ![c] = "waiting"] /\ Acquire(c)
        /\ UNCHANGED <<started, subscribed, inputVersion, observedVersion, callbacks,
                       replanTask, task, stop>>
    BY <1>2 DEF ClientReplan, loopState
  <2>2. c \in Processes /\ c # Start /\ c \notin AtLock
    BY <1>2, <2>1 DEF Processes, IInv, EveryoneAtLock
  <2>3. /\ lock' \in Processes /\ waiters' \in Seq(Processes)
        /\ stage' \in {"free", "entered", "acting"}
        /\ QueueIsASet' /\ LockStages' /\ AtLock' = (AtLock \cup {c}) \ {None}
        /\ lock # None => lock' = lock /\ stage' = stage
        /\ lock = None => stage' = "entered"
    BY <1>2, <2>1, <2>2, AcquireFacts
  <2>4. TypeOK'
    BY <1>2, <2>1, <2>3 DEF IInv, TypeOK
  <2>5. EveryoneAtLock'
    BY <1>2, <2>1, <2>2, <2>3 DEF IInv, TypeOK, EveryoneAtLock, LockStages, AtLock, Processes
  <2>6. OneDebouncedTask'
    BY <1>2, <2>1 DEF IInv, OneDebouncedTask, Live
  <2>. QED BY <2>3, <2>4, <2>5, <2>6 DEF IInv
<1>3. ASSUME IInv, RequestStop PROVE IInv'
  <2>1. /\ stop = "idle" /\ stop' = "waiting" /\ Acquire(Stop)
        /\ UNCHANGED <<started, subscribed, inputVersion, observedVersion, callbacks,
                       replanTask, task, client>>
    BY <1>3 DEF RequestStop, loopState
  <2>2. Stop \in Processes /\ Stop # Start /\ Stop \notin AtLock
    BY <1>3, <2>1 DEF Processes, IInv, EveryoneAtLock, Start, Stop
  <2>3. /\ lock' \in Processes /\ waiters' \in Seq(Processes)
        /\ stage' \in {"free", "entered", "acting"}
        /\ QueueIsASet' /\ LockStages' /\ AtLock' = (AtLock \cup {Stop}) \ {None}
        /\ lock # None => lock' = lock /\ stage' = stage
        /\ lock = None => stage' = "entered"
    BY <1>3, <2>1, <2>2, AcquireFacts
  <2>4. TypeOK'
    BY <1>3, <2>1, <2>3 DEF IInv, TypeOK
  <2>5. EveryoneAtLock'
    BY <1>3, <2>1, <2>2, <2>3 DEF IInv, TypeOK, EveryoneAtLock, LockStages, AtLock, Processes
  <2>6. OneDebouncedTask'
    BY <1>3, <2>1 DEF IInv, OneDebouncedTask, Live
  <2>. QED BY <2>3, <2>4, <2>5, <2>6 DEF IInv
<1>. QED BY <1>1, <1>2, <1>3

\* Steps that leave the lock keep the invariant.
LEMMA DeparturePreservesIInv ==
    IInv /\ (FinishStart \/ (\E p \in Clients \cup TaskIds : Finish(p)) \/ FinishStop) => IInv'
<1>. USE IdentityAssumption
<1>1. ASSUME IInv, FinishStart PROVE IInv'
  <2>1. /\ lock = Start /\ Release(waiters) /\ callbacks' \in 0 .. MaxCallbacks
        /\ UNCHANGED <<started, subscribed, inputVersion, observedVersion, task, replanTask,
                       client, stop>>
    BY <1>1, BoundsAssumption DEF FinishStart, IInv, TypeOK
  <2>2. lock # None
    BY <2>1 DEF Processes
  <2>3. /\ lock' \in Processes \cup {None} /\ waiters' \in Seq(Processes)
        /\ stage' \in {"free", "entered", "acting"} /\ stage' # "acting"
        /\ QueueIsASet' /\ LockStages' /\ AtLock' \ {None} = AtLock \ {Start}
    BY <1>1, <2>1, <2>2, ReleaseFacts
  <2>4. TypeOK'
    BY <1>1, <2>1, <2>3 DEF IInv, TypeOK
  <2>5. EveryoneAtLock'
    BY <1>1, <2>1, <2>3 DEF IInv, EveryoneAtLock, Processes, Start, Stop
  <2>6. OneDebouncedTask'
    BY <1>1, <2>1 DEF IInv, OneDebouncedTask, Live
  <2>. QED BY <2>3, <2>4, <2>5, <2>6 DEF IInv
<1>2. ASSUME IInv, NEW p \in Clients \cup TaskIds, Finish(p) PROVE IInv'
  <2>1. /\ lock = p /\ stage = "acting" /\ Release(waiters)
        /\ task' = IF p \in TaskIds THEN [task EXCEPT ![p] = "ended"] ELSE task
        /\ client' = IF p \in Clients THEN [client EXCEPT ![p] = "idle"] ELSE client
        /\ UNCHANGED <<started, subscribed, inputVersion, observedVersion, callbacks,
                       replanTask, stop>>
    BY <1>2 DEF Finish
  <2>2. lock # None
    BY <2>1 DEF Processes
  <2>3. /\ lock' \in Processes \cup {None} /\ waiters' \in Seq(Processes)
        /\ stage' \in {"free", "entered", "acting"} /\ stage' # "acting"
        /\ QueueIsASet' /\ LockStages' /\ AtLock' \ {None} = AtLock \ {p}
    BY <1>2, <2>1, <2>2, ReleaseFacts
  <2>4. TypeOK'
    BY <1>2, <2>1, <2>3 DEF IInv, TypeOK, TaskState
  <2>5. EveryoneAtLock'
    <3>1. \A t \in TaskIds : t \in AtLock' <=> task'[t] \in {"waiting", "replanning"}
      BY <1>2, <2>1, <2>3 DEF IInv, TypeOK, EveryoneAtLock, Processes
    <3>2. \A t \in TaskIds : task'[t] # "replanning"
      BY <1>2, <2>1 DEF IInv, TypeOK, EveryoneAtLock
    <3>3. \A c \in Clients : c \in AtLock' <=> client'[c] = "waiting"
      BY <1>2, <2>1, <2>3 DEF IInv, TypeOK, EveryoneAtLock, Processes
    <3>4. Stop \in AtLock' <=> stop' = "waiting"
      BY <1>2, <2>1, <2>3 DEF IInv, EveryoneAtLock, Processes
    <3>. QED BY <2>3, <3>1, <3>2, <3>3, <3>4 DEF EveryoneAtLock
  <2>6. OneDebouncedTask'
    BY <1>2, <2>1 DEF IInv, TypeOK, OneDebouncedTask, Live
  <2>. QED BY <2>3, <2>4, <2>5, <2>6 DEF IInv
<1>3. ASSUME IInv, FinishStop PROVE IInv'
  <2>1. /\ lock = Stop /\ stage = "acting" /\ Release(waiters) /\ stop' = "stopped"
        /\ UNCHANGED <<started, subscribed, inputVersion, observedVersion, callbacks,
                       replanTask, task, client>>
    BY <1>3 DEF FinishStop, loopState
  <2>2. lock # None
    BY <2>1 DEF Processes
  <2>3. /\ lock' \in Processes \cup {None} /\ waiters' \in Seq(Processes)
        /\ stage' \in {"free", "entered", "acting"} /\ stage' # "acting"
        /\ QueueIsASet' /\ LockStages' /\ AtLock' \ {None} = AtLock \ {Stop}
    BY <1>3, <2>1, <2>2, ReleaseFacts
  <2>4. TypeOK'
    BY <1>3, <2>1, <2>3 DEF IInv, TypeOK
  <2>5. EveryoneAtLock'
    BY <1>3, <2>1, <2>3 DEF IInv, EveryoneAtLock, Processes
  <2>6. OneDebouncedTask'
    BY <1>3, <2>1 DEF IInv, OneDebouncedTask, Live
  <2>. QED BY <2>3, <2>4, <2>5, <2>6 DEF IInv
<1>. QED BY <1>1, <1>2, <1>3

\* A callback creates a task only when there is no other that could still run.
LEMMA RunCallbackPreservesIInv == IInv /\ RunCallback => IInv'
<1>. SUFFICES ASSUME IInv, RunCallback PROVE IInv'
  OBVIOUS
<1>1. /\ callbacks' \in 0 .. MaxCallbacks
      /\ UNCHANGED <<started, subscribed, inputVersion, observedVersion, lock, waiters, stage,
                     client, stop>>
  BY BoundsAssumption DEF RunCallback, IInv, TypeOK, lockState
<1>2. QueueIsASet' /\ LockStages' /\ AtLock' = AtLock
  BY <1>1 DEF IInv, QueueIsASet, LockStages, AtLock
<1>3. CASE MaySchedule
  <2>1. PICK t \in TaskIds : /\ task[t] = "ended" /\ task' = [task EXCEPT ![t] = "sleeping"]
                             /\ replanTask' = t
    BY <1>3 DEF RunCallback
  <2>2. TypeOK'
    BY <1>1, <2>1 DEF IInv, TypeOK, TaskState
  <2>3. EveryoneAtLock'
    BY <1>1, <1>2, <2>1 DEF IInv, TypeOK, EveryoneAtLock
  <2>4. started' /\ \A u \in TaskIds : ~Live(u)
    BY <1>1, <1>3, IdentityAssumption DEF MaySchedule, IInv, OneDebouncedTask, Processes
  <2>5. OneDebouncedTask'
    BY <2>1, <2>4 DEF IInv, TypeOK, OneDebouncedTask, Live
  <2>. QED BY <1>2, <2>2, <2>3, <2>5 DEF IInv
<1>4. CASE ~MaySchedule
  <2>1. UNCHANGED <<task, replanTask>>
    BY <1>4 DEF RunCallback
  <2>2. TypeOK' /\ EveryoneAtLock' /\ OneDebouncedTask'
    BY <1>1, <1>2, <2>1 DEF IInv, TypeOK, EveryoneAtLock, OneDebouncedTask, Live
  <2>. QED BY <1>2, <2>2 DEF IInv
<1>. QED BY <1>3, <1>4

\* Observing keeps the invariant.
LEMMA ObservePreservesIInv == IInv /\ (\E p \in Clients \cup TaskIds : Observe(p)) => IInv'
<1>. SUFFICES ASSUME IInv, NEW p \in Clients \cup TaskIds, Observe(p) PROVE IInv'
  OBVIOUS
<1>1. /\ lock = p /\ stage = "entered" /\ stage' = "acting" /\ observedVersion' = inputVersion
      /\ task' = IF p \in TaskIds THEN [task EXCEPT ![p] = "replanning"] ELSE task
      /\ UNCHANGED <<started, subscribed, inputVersion, callbacks, replanTask, lock, waiters,
                     client, stop>>
  BY DEF Observe
<1>2. p # None /\ p # Start
  BY IdentityAssumption DEF Processes
<1>3. QueueIsASet' /\ LockStages' /\ AtLock' = AtLock
  BY <1>1, <1>2 DEF IInv, QueueIsASet, LockStages, AtLock
<1>4. TypeOK'
  BY <1>1 DEF IInv, TypeOK, TaskState
<1>5. EveryoneAtLock'
  <2>1. p \in AtLock
    BY <1>1 DEF AtLock
  <2>. QED BY <1>1, <1>3, <2>1, IdentityAssumption DEF IInv, TypeOK, EveryoneAtLock
<1>6. OneDebouncedTask'
  <2>1. p \in TaskIds => Live(p)
    BY <1>1 DEF IInv, EveryoneAtLock, AtLock, Live
  <2>. QED BY <1>1, <2>1 DEF IInv, TypeOK, OneDebouncedTask, Live
<1>. QED BY <1>3, <1>4, <1>5, <1>6 DEF IInv

\* Cancelling the task that the scheduler knows leaves none.
LEMMA StopBodyPreservesIInv == IInv /\ StopBody => IInv'
<1>. SUFFICES ASSUME IInv, StopBody PROVE IInv'
  OBVIOUS
<1>. USE IdentityAssumption
<1>1. /\ lock = Stop /\ stage = "entered" /\ stage' = "acting"
      /\ started' = FALSE /\ subscribed' = FALSE /\ replanTask' = None
      /\ UNCHANGED <<inputVersion, observedVersion, callbacks, lock, client, stop>>
  BY DEF StopBody
<1>2. /\ waiters' \in Seq(Processes) /\ IsInjective(waiters')
      /\ Range(waiters') = Range(waiters) \ {replanTask}
  <2>1. None \notin Range(waiters)
    BY DEF IInv, TypeOK, Range
  <2>2. CASE replanTask = None
    BY <2>1, <2>2 DEF StopBody, IInv, TypeOK, QueueIsASet
  <2>3. CASE replanTask # None
    <3>1. waiters' = RemoveFirst(waiters, replanTask)
      BY <2>3 DEF StopBody
    <3>. QED BY <3>1, RemoveFirstFacts DEF IInv, TypeOK, QueueIsASet
  <2>. QED BY <2>2, <2>3
<1>3. \A t \in TaskIds : task'[t] = "ended"
  BY <1>1 DEF StopBody, IInv, TypeOK, OneDebouncedTask, Live, Processes
<1>4. task' \in [TaskIds -> TaskState]
  BY DEF StopBody, IInv, TypeOK, TaskState
<1>5. TypeOK'
  BY <1>1, <1>2, <1>4 DEF IInv, TypeOK
<1>6. Stop # None /\ Stop # Start /\ Stop \notin TaskIds
  BY DEF Processes, Start, Stop
<1>7. QueueIsASet' /\ LockStages'
  BY <1>1, <1>2, <1>6 DEF IInv, QueueIsASet, LockStages
<1>8. /\ \A p : p \in AtLock' <=> p \in AtLock /\ p # replanTask
      /\ replanTask \notin Clients \cup {Stop}
  <2>1. replanTask # Stop /\ replanTask \notin Clients
    BY <1>6 DEF IInv, TypeOK, Processes
  <2>. QED BY <1>1, <1>2, <2>1 DEF AtLock
<1>9. EveryoneAtLock'
  <2>1. \A t \in TaskIds : t \notin AtLock'
    <3>. SUFFICES ASSUME NEW t \in TaskIds, t \in AtLock, t # replanTask PROVE FALSE
      BY <1>8
    <3>1. Live(t)
      BY DEF IInv, EveryoneAtLock, Live
    <3>. QED BY <3>1 DEF IInv, OneDebouncedTask
  <2>2. \A t \in TaskIds : lock # t
    BY <1>1, <1>6
  <2>3. \A c \in Clients : c \in AtLock' <=> client[c] = "waiting"
    BY <1>8 DEF IInv, EveryoneAtLock
  <2>4. Stop \in AtLock' <=> stop = "waiting"
    BY <1>8 DEF IInv, EveryoneAtLock
  <2>. QED BY <1>1, <1>3, <2>1, <2>2, <2>3, <2>4 DEF EveryoneAtLock
<1>10. OneDebouncedTask'
  BY <1>1, <1>3 DEF OneDebouncedTask, Live
<1>. QED BY <1>5, <1>7, <1>9, <1>10 DEF IInv

\* No step breaks the invariant.
LEMMA StepPreservesIInv == IInv /\ [Next]_vars => IInv'
<1>. SUFFICES ASSUME IInv, [Next]_vars PROVE IInv'
  OBVIOUS
<1>1. CASE InputChange
  <2>1. /\ inputVersion' = inputVersion + 1 /\ inputVersion' \in 0 .. MaxInputs
        /\ callbacks' \in 0 .. MaxCallbacks
        /\ UNCHANGED <<started, subscribed, observedVersion, task, replanTask, lock, waiters,
                       stage, client, stop>>
    BY <1>1, BoundsAssumption DEF InputChange, IInv, TypeOK, lockState
  <2>2. TypeOK'
    BY <2>1, BoundsAssumption DEF IInv, TypeOK
  <2>3. QueueIsASet' /\ LockStages' /\ EveryoneAtLock' /\ OneDebouncedTask'
    BY <2>1 DEF IInv, QueueIsASet, LockStages, EveryoneAtLock, AtLock, OneDebouncedTask, Live
  <2>. QED BY <2>2, <2>3 DEF IInv
<1>2. CASE UNCHANGED vars
  <2>1. TypeOK'
    BY <1>2 DEF vars, loopState, lockState, IInv, TypeOK
  <2>2. QueueIsASet' /\ LockStages' /\ EveryoneAtLock' /\ OneDebouncedTask'
    BY <1>2 DEF vars, loopState, lockState, IInv, QueueIsASet, LockStages, EveryoneAtLock,
                AtLock, OneDebouncedTask, Live
  <2>. QED BY <2>1, <2>2 DEF IInv
<1>. QED
  BY <1>1, <1>2, RunCallbackPreservesIInv, ArrivalPreservesIInv, DeparturePreservesIInv,
     ObservePreservesIInv, StopBodyPreservesIInv DEF Next

\* Everyone is at the lock who should be, once, in every reachable state of the scheduler
\* of every site.
THEOREM Invariance == Spec => []IInv
BY InitEstablishesIInv, StepPreservesIInv, PTL DEF Spec

\* Type correctness of the replan scheduler.
THEOREM TypeCorrect == Spec => []TypeOK
<1>1. IInv => TypeOK
  BY DEF IInv
<1>. QED BY <1>1, Invariance, PTL

\* The coordinator never has two debounced tasks that are not done, so that async_stop,
\* which cancels one, cancels all (coordinator.py:380-399 and 228-231).
THEOREM SchedulerKnowsItsTask == Spec => []OneDebouncedTask
<1>1. IInv => OneDebouncedTask
  BY DEF IInv
<1>. QED BY <1>1, Invariance, PTL

\* Once async_stop ran, no debounced task is created and none observes, for any number of
\* callbacks in flight and any queue on the lock.
THEOREM StoppedForGood == Spec => NoDebouncedReplanAfterStop
<1>1. IInv /\ IInv' /\ [Next]_vars =>
         [~started => \A t \in TaskIds : task'[t] # "sleeping" /\ ~Observe(t)]_vars
  <2>. SUFFICES ASSUME IInv, IInv', Next, ~started, NEW t \in TaskIds
                PROVE  task'[t] # "sleeping" /\ ~Observe(t)
    OBVIOUS
  <2>1. \A u \in TaskIds : ~Live(u)
    BY IdentityAssumption DEF IInv, OneDebouncedTask, Processes
  <2>2. ~Observe(t)
    BY <2>1 DEF Observe, IInv, EveryoneAtLock, AtLock, Live
  <2>3. ~started'
    BY DEF Next, FinishStart, InputChange, RunCallback, WakeUp, ClientReplan, Observe, Finish,
           RequestStop, StopBody, FinishStop
  <2>4. ~Live(t)'
    BY <2>3, IdentityAssumption DEF IInv, OneDebouncedTask, Processes
  <2>. QED BY <2>2, <2>4 DEF Live
<1>. QED BY <1>1, Invariance, PTL DEF Spec, NoDebouncedReplanAfterStop
=============================================================================
