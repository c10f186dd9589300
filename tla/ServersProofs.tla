---------------------------- MODULE ServersProofs ----------------------------
(***************************************************************************)
(* Proofs about Servers.tla, for every set of scrapes, DSNs and servers    *)
(* and every number of retries.                                            *)
(***************************************************************************)
EXTENDS Servers, TLAPS

\* Every variable keeps its type.
THEOREM TypeCorrect == Spec => []TypeOK
<1>1. Init => TypeOK
  BY ServersAssumption DEF Init, TypeOK, Critical
<1>2. TypeOK /\ [Next]_vars => TypeOK'
  <2> SUFFICES ASSUME TypeOK, [Next]_vars
               PROVE  TypeOK'
    OBVIOUS
  <2> USE ServersAssumption DEF TypeOK, Critical
  <2>1. ASSUME NEW c \in Scrape, NEW d \in DSN, Call(c, d)
        PROVE  TypeOK'
    BY <2>1 DEF Call
  <2>2. ASSUME NEW c \in Scrape, Lock(c)
        PROVE  TypeOK'
    BY <2>2 DEF Lock
  <2>3. ASSUME NEW c \in Scrape, GetServerStep(c)
        PROVE  TypeOK'
    <3>1. CASE Lookup(c)
      BY <3>1 DEF Lookup
    <3>2. ASSUME NEW s \in Server, NewServer(c, s)
          PROVE  TypeOK'
      BY <3>2 DEF NewServer
    <3>3. CASE NewServerFails(c)
      BY <3>3 DEF NewServerFails
    <3>4. CASE PingSucceeds(c)
      BY <3>4 DEF PingSucceeds
    <3>5. CASE PingFails(c)
      BY <3>5 DEF PingFails
    <3>6. CASE Retry(c)
      BY <3>6 DEF Retry
    <3>7. CASE GiveUp(c)
      BY <3>7 DEF GiveUp
    <3> QED
      BY <2>3, <3>1, <3>2, <3>3, <3>4, <3>5, <3>6, <3>7 DEF GetServerStep
  <2>4. ASSUME NEW c \in Scrape, Release(c)
        PROVE  TypeOK'
    BY <2>4 DEF Release
  <2>5. CASE HookStarts
    BY <2>5 DEF HookStarts
  <2>6. CASE HookLocks
    BY <2>6 DEF HookLocks
  <2>7. CASE CloseStep
    BY <2>7 DEF CloseStep, HookCloses, HookReturns
  <2>8. ASSUME NEW d \in DSN, HealthChanges(d)
        PROVE  TypeOK'
    BY <2>8 DEF HealthChanges
  <2>9. CASE UNCHANGED vars
    BY <2>9 DEF vars
  <2> QED
    BY <2>1, <2>2, <2>3, <2>4, <2>5, <2>6, <2>7, <2>8, <2>9 DEF Next
<1> QED
  BY <1>1, <1>2, PTL DEF Spec

-----------------------------------------------------------------------------
\* The conjuncts of IInv beyond the types.
Discipline ==
    /\ MutexHeld
    /\ PingsRegistered
    /\ RegisteredAtTarget
    /\ NoLeak
    /\ NoStaleServer
    /\ CloseReachesOpen
    /\ UseHoldsServer

\* No mutex is held, no server known and none open at the start.
LEMMA InitDiscipline == Init => Discipline
BY ServersAssumption
DEF Init, Discipline, MutexHeld, PingsRegistered, RegisteredAtTarget, NoLeak,
    NoStaleServer, CloseReachesOpen, UseHoldsServer, Critical

\* Each step of a scrape or of the hook keeps the discipline.  A step under
\* the mutex changes one entry of the registry: MutexHeld makes every other
\* goroutine one that relies on no entry, and NoLeak with RegisteredAtTarget
\* says that no other DSN's server is touched.
LEMMA StepDiscipline ==
    ASSUME TypeOK, Discipline, [Next]_vars
    PROVE  Discipline'
<1> USE ServersAssumption
    DEF TypeOK, Discipline, MutexHeld, PingsRegistered, RegisteredAtTarget,
        NoLeak, NoStaleServer, CloseReachesOpen, UseHoldsServer, Critical
<1>1. ASSUME NEW c \in Scrape, NEW d \in DSN, Call(c, d)
      PROVE  Discipline'
  BY <1>1 DEF Call
<1>2. ASSUME NEW c \in Scrape, Lock(c)
      PROVE  Discipline'
  BY <1>2 DEF Lock
<1>3. ASSUME NEW c \in Scrape, GetServerStep(c)
      PROVE  Discipline'
  <2>1. CASE Lookup(c)
    BY <2>1 DEF Lookup
  <2>2. ASSUME NEW s \in Server, NewServer(c, s)
        PROVE  Discipline'
    BY <2>2 DEF NewServer, Unreferenced
  <2>3. CASE NewServerFails(c)
    BY <2>3 DEF NewServerFails
  <2>4. CASE PingSucceeds(c)
    BY <2>4 DEF PingSucceeds
  <2>5. CASE PingFails(c)
    BY <2>5 DEF PingFails
  <2>6. CASE Retry(c)
    BY <2>6 DEF Retry
  <2>7. CASE GiveUp(c)
    BY <2>7 DEF GiveUp
  <2> QED
    BY <1>3, <2>1, <2>2, <2>3, <2>4, <2>5, <2>6, <2>7 DEF GetServerStep
<1>4. ASSUME NEW c \in Scrape, Release(c)
      PROVE  Discipline'
  BY <1>4 DEF Release
<1>5. CASE HookStarts
  BY <1>5 DEF HookStarts
<1>6. CASE HookLocks
  BY <1>6 DEF HookLocks
<1>7. CASE CloseStep
  BY <1>7 DEF CloseStep, HookCloses, HookReturns
<1>8. ASSUME NEW d \in DSN, HealthChanges(d)
      PROVE  Discipline'
  BY <1>8 DEF HealthChanges
<1>9. CASE UNCHANGED vars
  BY <1>9 DEF vars
<1> QED
  BY <1>1, <1>2, <1>3, <1>4, <1>5, <1>6, <1>7, <1>8, <1>9 DEF Next

\* IInv holds in every reachable state.
THEOREM Invariance == Spec => []IInv
<1>1. IInv <=> TypeOK /\ Discipline
  BY DEF IInv, Discipline
<1>2. Init => Discipline
  BY InitDiscipline
<1>3. TypeOK /\ Discipline /\ [Next]_vars => Discipline'
  BY StepDiscipline
<1> QED
  BY <1>1, <1>2, <1>3, TypeCorrect, PTL DEF Spec

\* No pool leaks: an open one is registered under its DSN.
THEOREM NoLeakHolds == Spec => []NoLeak
BY Invariance, PTL DEF IInv

\* The registry holds no closed server before Close starts.
THEOREM NoStaleServerHolds == Spec => []NoStaleServer
BY Invariance, PTL DEF IInv

\* A DSN never has two open pools, whatever scrapes race to create one.
OnePoolPerDSN == \A s, t \in open : target[s] = target[t] => s = t

THEOREM OnePoolPerDSNHolds == Spec => []OnePoolPerDSN
<1>1. IInv => OnePoolPerDSN
  BY DEF IInv, NoLeak, OnePoolPerDSN
<1> QED
  BY <1>1, Invariance, PTL

\* When Servers.Close returns, every pool ever opened has been closed.
THEOREM CloseDisconnectsAllHolds == Spec => CloseDisconnectsAll
<1>1. IInv /\ [Next]_vars => [hook = "closing" /\ hook' = "done" => open' = {}]_vars
  <2> SUFFICES ASSUME IInv, [Next]_vars, hook = "closing", hook' = "done"
               PROVE  open' = {}
    OBVIOUS
  <2>1. HookReturns
    BY DEF Next, vars, Call, Lock, GetServerStep, Lookup, NewServer, NewServerFails,
           PingSucceeds, PingFails, Retry, GiveUp, Release, HookStarts, HookLocks,
           CloseStep, HookCloses, HealthChanges
  <2> QED
    BY <2>1 DEF HookReturns, IInv, TypeOK, CloseReachesOpen
<1> QED
  BY <1>1, Invariance, PTL DEF Spec, CloseDisconnectsAll

-----------------------------------------------------------------------------
\* The registry implements ServerPool: every step of a scrape or of the hook
\* is a step of the pool or leaves the pool's variables alone.
THEOREM ImplementsServerPool == Spec => ImplementsPool
<1> USE ServersAssumption
<1>1. Init => Pool!PoolInit
  BY DEF Init, Pool!PoolInit, Pool!AnyHealth
<1>2. IInv /\ [Next]_vars => [Pool!PoolNext]_Pool!poolVars
  <2> SUFFICES ASSUME IInv, [Next]_vars
               PROVE  [Pool!PoolNext]_Pool!poolVars
    OBVIOUS
  <2> DEFINE lent == [c \in Scrape |-> IF pc[c] = "use" THEN server[c] ELSE NoServer]
             closing == hook # "idle"
             Step == [Pool!PoolNext]_Pool!poolVars
  <2>0. TypeOK /\ PingsRegistered /\ MutexHeld /\ UseHoldsServer
    BY DEF IInv
  <2>1. ASSUME NEW c \in Scrape, NEW d \in DSN, Call(c, d)
        PROVE  UNCHANGED Pool!poolVars
    BY <2>0, <2>1 DEF Call, TypeOK, Pool!poolVars
  <2>2. ASSUME NEW c \in Scrape, Lock(c)
        PROVE  UNCHANGED Pool!poolVars
    BY <2>0, <2>2 DEF Lock, TypeOK, Pool!poolVars
  <2>3. ASSUME NEW c \in Scrape, GetServerStep(c)
        PROVE  Step
    <3>1. CASE Lookup(c)
      <4>1. UNCHANGED Pool!poolVars
        BY <2>0, <3>1 DEF Lookup, TypeOK, Pool!poolVars
      <4> QED
        BY <4>1
    <3>2. ASSUME NEW s \in Server, NewServer(c, s)
          PROVE  Step
      <4>1. lent' = lent
        BY <2>0, <3>2 DEF NewServer, TypeOK
      <4>2. Pool!Unreferenced(s)
        BY <2>0, <3>2 DEF NewServer, Unreferenced, Pool!Unreferenced, TypeOK
      <4>3. Pool!Open(dsn[c], s)
        BY <2>0, <3>2, <4>1, <4>2 DEF NewServer, Pool!Open, TypeOK
      <4> QED
        BY <2>0, <4>3 DEF Pool!PoolNext, TypeOK
    <3>3. CASE NewServerFails(c)
      <4>1. UNCHANGED Pool!poolVars
        BY <2>0, <3>3 DEF NewServerFails, TypeOK, Pool!poolVars
      <4> QED
        BY <4>1
    <3>4. CASE PingSucceeds(c)
      <4>1. PICK d \in DSN : dsn[c] = d
        BY <2>0 DEF TypeOK
      <4>2. /\ pc[c] = "ping" /\ server[c] = servers[d] /\ servers[d] \in open
            /\ pc' = [pc EXCEPT ![c] = "use"] /\ server' = server
            /\ pc \in [Scrape -> {"idle", "lock", "use"} \cup Critical]
        BY <2>0, <3>4, <4>1 DEF PingSucceeds, TypeOK, PingsRegistered
      <4>3. lent[c] = NoServer /\ lent' = [lent EXCEPT ![c] = servers[d]]
        BY <4>2
      <4>4. Pool!Lend(c, d)
        BY <3>4, <4>1, <4>2, <4>3 DEF PingSucceeds, Pool!Lend
      <4> QED
        BY <4>4 DEF Pool!PoolNext
    <3>5. CASE PingFails(c)
      <4>1. lent' = lent
        BY <2>0, <3>5 DEF PingFails, TypeOK
      <4>2. Pool!Drop(dsn[c])
        BY <2>0, <3>5, <4>1 DEF PingFails, TypeOK, PingsRegistered, Pool!Drop
      <4> QED
        BY <2>0, <4>2 DEF Pool!PoolNext, TypeOK
    <3>6. CASE Retry(c)
      <4>1. UNCHANGED Pool!poolVars
        BY <2>0, <3>6 DEF Retry, TypeOK, Pool!poolVars
      <4> QED
        BY <4>1
    <3>7. CASE GiveUp(c)
      <4>1. UNCHANGED Pool!poolVars
        BY <2>0, <3>7 DEF GiveUp, TypeOK, Pool!poolVars
      <4> QED
        BY <4>1
    <3> QED
      BY <2>3, <3>1, <3>2, <3>3, <3>4, <3>5, <3>6, <3>7 DEF GetServerStep
  <2>4. ASSUME NEW c \in Scrape, Release(c)
        PROVE  Step
    <3>1. Pool!Return(c)
      BY <2>0, <2>4 DEF Release, TypeOK, UseHoldsServer, Pool!Return
    <3> QED
      BY <3>1 DEF Pool!PoolNext
  <2>5. CASE HookStarts
    <3>1. Pool!BeginShutdown
      BY <2>0, <2>5 DEF HookStarts, Pool!BeginShutdown
    <3> QED
      BY <3>1 DEF Pool!PoolNext
  <2>6. CASE HookLocks
    <3>1. UNCHANGED Pool!poolVars
      BY <2>0, <2>6 DEF HookLocks, Pool!poolVars
    <3> QED
      BY <3>1
  <2>7. ASSUME NEW s \in Server, HookCloses(s)
        PROVE  Step
    <3>1. target[s] \in DSN /\ servers[target[s]] = s
      BY <2>7 DEF HookCloses, IInv, TypeOK, CloseReachesOpen
    <3>2. Pool!Disconnect(target[s])
      BY <2>0, <2>7, <3>1 DEF HookCloses, TypeOK, Pool!Disconnect
    <3> QED
      BY <3>1, <3>2 DEF Pool!PoolNext
  <2>8. CASE HookReturns
    <3>1. UNCHANGED Pool!poolVars
      BY <2>0, <2>8 DEF HookReturns, Pool!poolVars
    <3> QED
      BY <3>1
  <2>9. ASSUME NEW d \in DSN, HealthChanges(d)
        PROVE  Step
    <3>1. Pool!HealthChanges(d)
      BY <2>0, <2>9 DEF HealthChanges, Pool!HealthChanges, Pool!AnyHealth
    <3> QED
      BY <3>1 DEF Pool!PoolNext
  <2>10. CASE UNCHANGED vars
    BY <2>10 DEF vars, Pool!poolVars
  <2> QED
    BY <2>1, <2>2, <2>3, <2>4, <2>5, <2>6, <2>7, <2>8, <2>9, <2>10 DEF Next, CloseStep
<1> QED
  BY <1>1, <1>2, Invariance, PTL DEF Spec, ImplementsPool, Pool!PoolSpec

-----------------------------------------------------------------------------
\* Whoever owns the mutex is between its Lock and its Unlock: no return of
\* GetServer forgets the Unlock.
MutexReleased == \A c \in Scrape : m = c => pc[c] \in Critical

THEOREM MutexReleasedHolds == Spec => []MutexReleased
<1> USE ServersAssumption DEF MutexReleased, Critical
<1>1. Init => MutexReleased
  BY DEF Init
<1>2. IInv /\ MutexReleased /\ [Next]_vars => MutexReleased'
  <2> SUFFICES ASSUME IInv, MutexReleased, [Next]_vars
               PROVE  MutexReleased'
    OBVIOUS
  <2>0. TypeOK /\ MutexHeld
    BY DEF IInv
  <2> USE DEF TypeOK, MutexHeld
  <2>1. ASSUME NEW c \in Scrape, NEW d \in DSN, Call(c, d)
        PROVE  MutexReleased'
    BY <2>0, <2>1 DEF Call
  <2>2. ASSUME NEW c \in Scrape, Lock(c) \/ Release(c)
        PROVE  MutexReleased'
    BY <2>0, <2>2 DEF Lock, Release
  <2>3. ASSUME NEW c \in Scrape, GetServerStep(c)
        PROVE  MutexReleased'
    BY <2>0, <2>3
    DEF GetServerStep, Lookup, NewServer, NewServerFails, PingSucceeds, PingFails, Retry, GiveUp
  <2>4. CASE HookStarts \/ HookLocks \/ CloseStep
    BY <2>0, <2>4 DEF HookStarts, HookLocks, CloseStep, HookCloses, HookReturns
  <2>5. CASE (\E d \in DSN : HealthChanges(d)) \/ UNCHANGED vars
    BY <2>5 DEF HealthChanges, vars
  <2> QED
    BY <2>1, <2>2, <2>3, <2>4, <2>5 DEF Next
<1> QED
  BY <1>1, <1>2, Invariance, PTL DEF Spec

\* The steps GetServer has at most before it: three for each attempt left, and
\* the rest of this one.
StepsOfAttempt(c) ==
    CASE pc[c] = "lookup" -> 3
      [] pc[c] = "ping"   -> 2
      [] pc[c] = "sleep"  -> 1

StepsLeft(c) ==
    IF pc[c] \in Critical THEN 3 * (Retries - errCount[c]) + StepsOfAttempt(c) ELSE 0

\* Under the mutex GetServer gets nearer to its end with each of its steps, and
\* nothing takes it back: a scrape holds the mutex for at most three steps, a
\* ping and a sleep among them, per attempt.
GetServerBounded ==
    [][\A c \in Scrape :
         pc[c] \in Critical =>
             /\ StepsLeft(c) \in 1..3 * Retries
             /\ \/ UNCHANGED <<pc[c], errCount[c]>>
                \/ StepsLeft(c)' \in 0..StepsLeft(c) - 1]_vars

\* Between Lock and Unlock the attempts are counted from one.
LEMMA AttemptsCounted ==
    Spec => [](\A c \in Scrape : pc[c] \in Critical => errCount[c] \in 1..Retries)
<1> DEFINE Counted == \A c \in Scrape : pc[c] \in Critical => errCount[c] \in 1..Retries
<1> USE ServersAssumption DEF Critical
<1>1. Init => Counted
  BY DEF Init
<1>2. TypeOK /\ Counted /\ [Next]_vars => Counted'
  <2> SUFFICES ASSUME TypeOK, Counted, [Next]_vars
               PROVE  Counted'
    OBVIOUS
  <2> USE DEF TypeOK
  <2>1. ASSUME NEW c \in Scrape, NEW d \in DSN, Call(c, d)
        PROVE  Counted'
    BY <2>1 DEF Call
  <2>2. ASSUME NEW c \in Scrape, Lock(c) \/ Release(c)
        PROVE  Counted'
    BY <2>2 DEF Lock, Release
  <2>3. ASSUME NEW c \in Scrape, GetServerStep(c)
        PROVE  Counted'
    BY <2>3
    DEF GetServerStep, Lookup, NewServer, NewServerFails, PingSucceeds, PingFails, Retry, GiveUp
  <2>4. CASE HookStarts \/ HookLocks \/ CloseStep
    BY <2>4 DEF HookStarts, HookLocks, CloseStep, HookCloses, HookReturns
  <2>5. CASE (\E d \in DSN : HealthChanges(d)) \/ UNCHANGED vars
    BY <2>5 DEF HealthChanges, vars
  <2> QED
    BY <2>1, <2>2, <2>3, <2>4, <2>5 DEF Next
<1> QED
  BY <1>1, <1>2, TypeCorrect, PTL DEF Spec

\* GetServer is bounded by its retries, whatever the databases do and whoever
\* waits for the mutex; only a ping of a database that hangs may last.
THEOREM GetServerBoundedHolds == Spec => GetServerBounded
<1> DEFINE Counted == \A c \in Scrape : pc[c] \in Critical => errCount[c] \in 1..Retries
           Bounded(c) == /\ StepsLeft(c) \in 1..3 * Retries
                         /\ \/ UNCHANGED <<pc[c], errCount[c]>>
                            \/ StepsLeft(c)' \in 0..StepsLeft(c) - 1
<1>1. ASSUME IInv, Counted, [Next]_vars, NEW c \in Scrape, pc[c] \in Critical
      PROVE  Bounded(c)
  <2> USE ServersAssumption
  <2>0. TypeOK /\ MutexHeld /\ m = c
    BY <1>1 DEF IInv, MutexHeld
  <2>1. StepsLeft(c) \in 1..3 * Retries
    BY <1>1 DEF StepsLeft, StepsOfAttempt, Critical
  <2>2. CASE UNCHANGED <<pc[c], errCount[c]>>
    BY <2>1, <2>2
  <2>3. CASE GetServerStep(c)
    <3>1. CASE Lookup(c)
      <4>1. pc[c] = "lookup" /\ pc'[c] = "ping" /\ errCount' = errCount
        BY <2>0, <3>1 DEF Lookup, TypeOK
      <4> QED
        BY <1>1, <2>1, <4>1 DEF StepsLeft, StepsOfAttempt, Critical
    <3>2. CASE \E s \in Server : NewServer(c, s)
      <4>1. pc[c] = "lookup" /\ pc'[c] = "ping" /\ errCount' = errCount
        BY <2>0, <3>2 DEF NewServer, TypeOK
      <4> QED
        BY <1>1, <2>1, <4>1 DEF StepsLeft, StepsOfAttempt, Critical
    <3>3. CASE NewServerFails(c)
      <4>1. pc[c] = "lookup" /\ pc'[c] = "sleep" /\ errCount' = errCount
        BY <2>0, <3>3 DEF NewServerFails, TypeOK
      <4> QED
        BY <1>1, <2>1, <4>1 DEF StepsLeft, StepsOfAttempt, Critical
    <3>4. CASE PingFails(c)
      <4>1. pc[c] = "ping" /\ pc'[c] = "sleep" /\ errCount' = errCount
        BY <2>0, <3>4 DEF PingFails, TypeOK
      <4> QED
        BY <1>1, <2>1, <4>1 DEF StepsLeft, StepsOfAttempt, Critical
    <3>5. CASE PingSucceeds(c) \/ GiveUp(c)
      <4>1. pc'[c] \in {"use", "idle"}
        BY <2>0, <3>5 DEF PingSucceeds, GiveUp, TypeOK
      <4> QED
        BY <1>1, <2>1, <4>1 DEF StepsLeft, Critical
    <3>6. CASE Retry(c)
      <4>1. /\ pc[c] = "sleep" /\ pc'[c] = "lookup"
            /\ errCount[c] < Retries /\ errCount'[c] = errCount[c] + 1
        BY <2>0, <3>6 DEF Retry, TypeOK
      <4> QED
        BY <1>1, <2>1, <4>1 DEF StepsLeft, StepsOfAttempt, Critical
    <3> QED
      BY <2>3, <3>1, <3>2, <3>3, <3>4, <3>5, <3>6 DEF GetServerStep
  <2>4. ASSUME NEW k \in Scrape \ {c},
               \/ \E d \in DSN : Call(k, d)
               \/ Lock(k) \/ GetServerStep(k) \/ Release(k)
        PROVE  UNCHANGED <<pc[c], errCount[c]>>
    BY <2>0, <2>4
    DEF TypeOK, Call, Lock, Release, GetServerStep, Lookup, NewServer, NewServerFails,
        PingSucceeds, PingFails, Retry, GiveUp
  <2>5. CASE (\E d \in DSN : Call(c, d)) \/ Lock(c) \/ Release(c)
    BY <1>1, <2>5 DEF Call, Lock, Release, Critical
  <2>6. CASE \/ HookStarts \/ HookLocks \/ CloseStep
             \/ (\E d \in DSN : HealthChanges(d)) \/ UNCHANGED vars
    BY <2>2, <2>6
    DEF HookStarts, HookLocks, CloseStep, HookCloses, HookReturns, HealthChanges, vars
  <2> HIDE DEF Bounded
  <2> QED
    BY <1>1, <2>2, <2>3, <2>4, <2>5, <2>6 DEF Next
<1>2. IInv /\ Counted /\ [Next]_vars =>
        [\A c \in Scrape : pc[c] \in Critical => Bounded(c)]_vars
  BY <1>1
<1> QED
  BY <1>2, AttemptsCounted, Invariance, PTL DEF Spec, GetServerBounded
=============================================================================
