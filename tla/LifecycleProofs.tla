-------------------------- MODULE LifecycleProofs --------------------------
(***************************************************************************)
(* Proofs about Lifecycle.tla, for every environment and every set of      *)
(* requests, DSNs and servers.                                             *)
(***************************************************************************)
EXTENDS Lifecycle, ServersProofs

\* The types of what Lifecycle adds to Servers.
MainTypeOK ==
    /\ env \subseteq Environment
    /\ dsns \subseteq DSN
    /\ main \in {"boot", "start", "serve", "deaf", "shutdown"} \cup Ended
    /\ pgColl \in {"nil", "open", "closed"}
    /\ active \subseteq Scrape
    /\ left \in [Scrape -> SUBSET DSN]

\* Until main has read it there is one environment, and no hook runs.
Booting ==
    main = "boot" => hook = "idle" /\ \E e \in Environment : env = {e}

MainInv == MainTypeOK /\ Booting

\* What main, the hook and the requests keep of their own stays in its types.
LEMMA MainInvariance == ProcessSpec => []MainInv
<1> USE LifecycleAssumption DEF MainInv, MainTypeOK, Booting, Ended
<1>1. ProcessInit => MainInv
  BY DEF ProcessInit, Init
<1>2. MainInv /\ [ProcessNext]_allVars => MainInv'
  <2> SUFFICES ASSUME MainInv, [ProcessNext]_allVars
               PROVE  MainInv'
    OBVIOUS
  <2>1. ASSUME NEW e \in env, ReadSources(e)
        PROVE  MainInv'
    <3>1. main' \in {"failed", "panicked", "start"}
      BY <2>1 DEF ReadSources
    <3>2. dsns' \subseteq DSN
      BY <2>1 DEF ReadSources
    <3>3. env' = {} /\ UNCHANGED <<pgColl, active, left>>
      BY <2>1 DEF ReadSources
    <3> QED
      BY <3>1, <3>2, <3>3
  <2>2. CASE CreateCollector \/ CreateCollectorFails
    BY <2>2 DEF CreateCollector, CreateCollectorFails, vars
  <2>3. CASE Drained \/ DeadlinePasses \/ ListenFails \/ Signal
    BY <2>3 DEF Drained, DeadlinePasses, ListenFails, Signal, vars
  <2>4. CASE HookLockStep \/ HookStep
    BY <2>4 DEF HookLockStep, HookStep, HookLocks, CloseStep, HookCloses,
           HookReturns, HookClosesCollector, HookPanics, vars, mainVars
  <2>5. ASSUME NEW c \in Scrape, Begin(c) \/ LockStep(c)
        PROVE  MainInv'
    BY <2>5 DEF Begin, LockStep, Lock, vars, mainVars
  <2>6. ASSUME NEW c \in Scrape, RequestStep(c)
        PROVE  MainInv'
    BY <2>6 DEF RequestStep, ScrapeNext, Respond, Call, GetServerStep, Lookup, NewServer,
           NewServerFails, PingSucceeds, PingFails, Retry, GiveUp, Release, vars, mainVars
  <2>7. ASSUME NEW d \in DSN, HealthChanges(d), UNCHANGED mainVars
        PROVE  MainInv'
    BY <2>7 DEF HealthChanges, mainVars
  <2>8. CASE UNCHANGED allVars
    BY <2>8 DEF allVars, vars, mainVars
  <2> QED
    BY <2>1, <2>2, <2>3, <2>4, <2>5, <2>6, <2>7, <2>8 DEF ProcessNext, MainStep
<1> QED
  BY <1>1, <1>2, PTL DEF ProcessSpec

-----------------------------------------------------------------------------
\* Whatever main, the HTTP server and the requests do, the registry only ever
\* takes the steps of Servers.tla: the process implements that specification.
THEOREM ProcessImplementsServers == ProcessSpec => Spec
<1>1. ProcessInit => Init
  BY DEF ProcessInit
<1>2. MainInv /\ [ProcessNext]_allVars => [Next]_vars
  <2> SUFFICES ASSUME MainInv, [ProcessNext]_allVars
               PROVE  [Next]_vars
    OBVIOUS
  <2>1. CASE MainStep
    BY <2>1 DEF MainStep, ReadSources, CreateCollector, CreateCollectorFails, Drained
  <2>2. CASE ListenFails
    BY <2>2 DEF ListenFails
  <2>3. CASE Signal
    BY <2>3 DEF Signal, Next
  <2>4. CASE DeadlinePasses
    BY <2>4 DEF DeadlinePasses
  <2>5. CASE HookLockStep
    BY <2>5 DEF HookLockStep, Next
  <2>6. CASE HookStep
    BY <2>6 DEF HookStep, HookClosesCollector, HookPanics, Next
  <2>7. ASSUME NEW c \in Scrape, Begin(c) \/ LockStep(c)
        PROVE  [Next]_vars
    BY <2>7 DEF Begin, LockStep, Next
  <2>8. ASSUME NEW c \in Scrape, RequestStep(c)
        PROVE  [Next]_vars
    <3>1. CASE ScrapeNext(c)
      <4>1. PICK d \in left[c] : Call(c, d)
        BY <3>1 DEF ScrapeNext
      <4>2. d \in DSN
        BY DEF MainInv, MainTypeOK
      <4> QED
        BY <4>1, <4>2 DEF Next
    <3>2. CASE (GetServerStep(c) \/ Release(c)) /\ UNCHANGED mainVars
      BY <3>2 DEF Next
    <3>3. CASE Respond(c)
      BY <3>3 DEF Respond
    <3> QED
      BY <2>8, <3>1, <3>2, <3>3 DEF RequestStep
  <2>9. ASSUME NEW d \in DSN, HealthChanges(d)
        PROVE  [Next]_vars
    BY <2>9 DEF Next
  <2>10. CASE UNCHANGED allVars
    BY <2>10 DEF allVars
  <2> QED
    BY <2>1, <2>2, <2>3, <2>4, <2>5, <2>6, <2>7, <2>8, <2>9, <2>10 DEF ProcessNext
<1> QED
  BY <1>1, <1>2, MainInvariance, PTL DEF ProcessSpec, Spec

\* The variables of the process keep their types.
THEOREM ProcessTypeCorrect == ProcessSpec => []ProcessTypeOK
<1>1. MainInv /\ TypeOK => ProcessTypeOK
  BY DEF MainInv, MainTypeOK, ProcessTypeOK
<1> QED
  BY <1>1, MainInvariance, ProcessImplementsServers, TypeCorrect, PTL

\* In the process, too, no pool leaks, none is stale before the shutdown, and
\* the hook closes all there are, whenever the signal comes.
THEOREM ProcessPoolSafety ==
    ProcessSpec => []NoLeak /\ []NoStaleServer /\ CloseDisconnectsAll
BY ProcessImplementsServers, NoLeakHolds, NoStaleServerHolds, CloseDisconnectsAllHolds, PTL

-----------------------------------------------------------------------------
\* A complete configuration needs nothing of Vault.
LEMMA CompleteSources ==
    ASSUME NEW e \in Environments,
           {Contents(e.user), Contents(e.pass), Contents(e.uri)} = {"given"}
    PROVE  GetDataSources(e) \in {"name", "uri"}
<1>1. Contents(e.user) = "given" /\ Contents(e.pass) = "given" /\ Contents(e.uri) = "given"
  OBVIOUS
<1>2. Contents(e["user"]) = "given" /\ Contents(e["pass"]) = "given"
  BY <1>1
<1>3. Needed(e) = {}
  BY <1>2 DEF Needed
<1> QED
  BY <1>1, <1>3 DEF GetDataSources, VaultPanics

\* Whoever configures everything gets an exporter that starts with the data
\* sources, whatever Vault answers.
THEOREM ConfiguredStartsHolds == ProcessSpec => ConfiguredStarts
<1> DEFINE Started ==
      \A e \in env :
          e.name \/ {Contents(e.user), Contents(e.pass), Contents(e.uri)} = {"given"}
              => main' = "start" /\ First \in dsns'
<1>1. MainInv /\ [ProcessNext]_allVars => [main = "boot" /\ main' # "boot" => Started]_allVars
  <2> SUFFICES ASSUME MainInv, [ProcessNext]_allVars, main = "boot", main' # "boot",
                      NEW e \in env,
                      e.name \/ {Contents(e.user), Contents(e.pass), Contents(e.uri)} = {"given"}
               PROVE  main' = "start" /\ First \in dsns'
    OBVIOUS
  <2>1. ReadSources(e)
    <3>1. \A f \in env : f = e
      BY DEF MainInv, Booting
    <3>2. ~(CreateCollector \/ CreateCollectorFails \/ Drained)
      BY DEF CreateCollector, CreateCollectorFails, Drained
    <3>3. ~(ListenFails \/ Signal \/ DeadlinePasses)
      BY DEF ListenFails, Signal, DeadlinePasses
    <3>4. ASSUME HookLockStep \/ HookStep
          PROVE  FALSE
      <4>1. UNCHANGED mainVars \/ HookClosesCollector \/ HookPanics
        BY <3>4 DEF HookLockStep, HookStep
      <4> QED
        BY <4>1 DEF MainInv, Booting, HookClosesCollector, HookPanics, mainVars
    <3>5. ASSUME NEW c \in Scrape, Begin(c) \/ LockStep(c) \/ RequestStep(c)
          PROVE  FALSE
      BY <3>5 DEF Begin, LockStep, RequestStep, ScrapeNext, Respond, mainVars
    <3>6. ~UNCHANGED mainVars
      BY DEF mainVars
    <3> QED
      BY <3>1, <3>2, <3>3, <3>4, <3>5, <3>6 DEF ProcessNext, MainStep, allVars
  <2>2. e \in Environments
    BY LifecycleAssumption DEF MainInv, MainTypeOK
  <2>3. GetDataSources(e) \in {"name", "uri"}
    <3>1. CASE e.name
      BY <3>1 DEF GetDataSources
    <3>2. CASE ~e.name
      BY <2>2, <3>2, CompleteSources
    <3> QED
      BY <3>1, <3>2
  <2> QED
    BY <2>1, <2>3, LifecycleAssumption DEF ReadSources
<1> QED
  BY <1>1, MainInvariance, PTL DEF ProcessSpec, ConfiguredStarts
=============================================================================
