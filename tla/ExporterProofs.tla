--------------------------- MODULE ExporterProofs ---------------------------
(***************************************************************************)
(* Proofs about Exporter.tla, for every number of overlapping scrapes,     *)
(* every set of DSNs and servers, and any discovered databases.            *)
(***************************************************************************)
EXTENDS Exporter, FiniteSetTheorems, TLAPS

\* At the start nothing is registered and no scrape is under way.
LEMMA InitIInv == Init => IInv
<1> SUFFICES ASSUME Init PROVE IInv
  OBVIOUS
<1> USE PoolAssumption, ExporterAssumption
<1>1. PoolTypeOK
  BY DEF Init, PoolInit, PoolTypeOK
<1>2. TypeOK
  BY <1>1 DEF Init, TypeOK
<1>3. RegisteredAtTarget
  BY DEF Init, PoolInit, RegisteredAtTarget
<1>4. ConfiguredWork /\ MasterConfigured
  BY DEF Init, ConfiguredWork, MasterConfigured
<1>5. Accounted
  BY FS_EmptySet DEF Init, Accounted
<1> QED
  BY <1>1, <1>2, <1>3, <1>4, <1>5 DEF IInv

\* What a step of GetServer leaves of the registry: types, and each server
\* registered under the DSN it was opened with.
LEMMA PoolSteps ==
    ASSUME PoolTypeOK, RegisteredAtTarget, NEW c \in Scrape, NEW d \in DSN
    PROVE  /\ Lend(c, d) \/ Drop(d) \/ Return(c) \/ HealthChanges(d) =>
                /\ PoolTypeOK' /\ RegisteredAtTarget'
                /\ target' = target
           /\ Lend(c, d) => servers[d] \in Server /\ target[servers[d]] = d
<1> USE PoolAssumption DEF PoolTypeOK, RegisteredAtTarget
<1>1. ASSUME Lend(c, d)
      PROVE  /\ PoolTypeOK' /\ RegisteredAtTarget' /\ target' = target
             /\ servers[d] \in Server /\ target[servers[d]] = d
  BY <1>1 DEF Lend
<1>2. ASSUME Drop(d)
      PROVE  PoolTypeOK' /\ RegisteredAtTarget' /\ target' = target
  BY <1>2 DEF Drop
<1>3. ASSUME Return(c)
      PROVE  PoolTypeOK' /\ RegisteredAtTarget' /\ target' = target
  BY <1>3 DEF Return
<1>4. ASSUME HealthChanges(d)
      PROVE  PoolTypeOK' /\ RegisteredAtTarget' /\ target' = target
  BY <1>4 DEF HealthChanges
<1> QED
  BY <1>1, <1>2, <1>3, <1>4

\* Opening a server that nothing refers to keeps the registry in order.
LEMMA OpenStep ==
    ASSUME PoolTypeOK, RegisteredAtTarget, NEW d \in DSN, NEW s \in Server, Open(d, s)
    PROVE  /\ PoolTypeOK' /\ RegisteredAtTarget'
           /\ \A t \in Server \ {s} : target'[t] = target[t]
BY PoolAssumption DEF PoolTypeOK, RegisteredAtTarget, Open, Unreferenced

-----------------------------------------------------------------------------
\* The conjuncts of IInv about servers: who was opened with which DSN and which
\* DSNs are configured.
Origins ==
    /\ TypeOK
    /\ RegisteredAtTarget
    /\ ConfiguredWork
    /\ MasterConfigured

\* Each step of a scrape keeps these.  A server becomes a master only
\* where ConfiguredWork says that the DSN at hand is configured, and gets the
\* built-in metrics only if it is a master.
LEMMA ScrapeStep ==
    ASSUME Origins, NEW c \in Scrape, Step(c)
    PROVE  Origins'
<1> USE PoolAssumption, ExporterAssumption
    DEF Origins, TypeOK, ConfiguredWork, MasterConfigured, Goto,
        serverVars, localVars, gauges
<1>1. cur[c] \in DSN
  OBVIOUS
<1>2. ASSUME NEW s \in Server, NewServer(c, s)
      PROVE  Origins'
  <2>1. /\ PoolTypeOK' /\ RegisteredAtTarget'
        /\ \A t \in Server \ {s} : target'[t] = target[t]
    BY <1>1, <1>2, OpenStep DEF NewServer
  <2> QED
    BY <1>2, <2>1 DEF NewServer
<1>3. ASSUME NEW d \in DSN, Discover(c, d)
      PROVE  Origins'
  BY <1>3 DEF Discover, poolVars, PoolTypeOK, RegisteredAtTarget
<1>4. ASSUME NEW d \in DSN, ScrapeDSN(c, d)
      PROVE  Origins'
  BY <1>4 DEF ScrapeDSN, poolVars, PoolTypeOK, RegisteredAtTarget
<1>5. CASE DiscoverConnects(c)
  <2>1. PoolTypeOK' /\ RegisteredAtTarget' /\ target' = target
        /\ servers[cur[c]] \in Server /\ target[servers[cur[c]]] = cur[c]
    BY <1>1, <1>5, PoolSteps
    DEF DiscoverConnects, GetServerSucceeds, poolVars, PoolTypeOK, RegisteredAtTarget
  <2>2. TypeOK'
    BY <1>1, <1>5, <2>1 DEF DiscoverConnects
  <2>3. ConfiguredWork'
    BY <1>5 DEF DiscoverConnects
  <2>4. MasterConfigured'
    <3>1. cur[c] \in Configured
      BY <1>5 DEF DiscoverConnects
    <3>2. \A s \in Server : master'[s] => master[s] \/ s = servers[cur[c]]
      BY <1>5 DEF DiscoverConnects
    <3> QED
      BY <1>5, <2>1, <3>1, <3>2 DEF DiscoverConnects
  <2> QED
    BY <2>1, <2>2, <2>3, <2>4
<1>6. CASE DiscoverFails(c)
  <2>1. PoolTypeOK' /\ RegisteredAtTarget' /\ target' = target
    BY <1>1, <1>6, PoolSteps
    DEF DiscoverFails, GetServerFails, poolVars, PoolTypeOK, RegisteredAtTarget
  <2> QED
    BY <1>6, <2>1 DEF DiscoverFails
<1>7. CASE ListDatabases(c)
  <2>1. PoolTypeOK' /\ RegisteredAtTarget' /\ target' = target
    BY <1>1, <1>7, PoolSteps
    DEF ListDatabases, poolVars, PoolTypeOK, RegisteredAtTarget
  <2>2. dsns' \in [Scrape -> SUBSET DSN]
    <3>1. cur[c] \in Configured
      BY <1>7 DEF ListDatabases
    <3>2. Databases[cur[c]] \subseteq DSN
      BY <3>1
    <3> QED
      BY <1>7, <3>2 DEF ListDatabases
  <2>3. TypeOK'
    BY <1>7, <2>1, <2>2 DEF ListDatabases
  <2>4. ConfiguredWork' /\ MasterConfigured'
    BY <1>7, <2>1 DEF ListDatabases
  <2> QED
    BY <2>1, <2>3, <2>4
<1>8. CASE Discovered(c)
  BY <1>8 DEF Discovered, poolVars, PoolTypeOK, RegisteredAtTarget
<1>9. CASE Connects(c)
  <2>1. PoolTypeOK' /\ RegisteredAtTarget' /\ target' = target
        /\ servers[cur[c]] \in Server /\ target[servers[cur[c]]] = cur[c]
    BY <1>1, <1>9, PoolSteps
    DEF Connects, GetServerSucceeds, poolVars, PoolTypeOK, RegisteredAtTarget
  <2> QED
    BY <1>9, <2>1 DEF Connects
<1>10. CASE Refused(c)
  <2>1. PoolTypeOK' /\ RegisteredAtTarget' /\ target' = target
    BY <1>1, <1>10, PoolSteps
    DEF Refused, GetServerFails, poolVars, PoolTypeOK, RegisteredAtTarget
  <2> QED
    BY <1>10, <2>1 DEF Refused
<1>11. CASE CheckMapVersions(c)
  BY <1>11 DEF CheckMapVersions, poolVars, PoolTypeOK, RegisteredAtTarget
<1>12. CASE Read(c)
  <2>1. PoolTypeOK' /\ RegisteredAtTarget' /\ target' = target
    BY <1>1, <1>12, PoolSteps
    DEF Read, poolVars, PoolTypeOK, RegisteredAtTarget
  <2> QED
    BY <1>12, <2>1 DEF Read
<1>13. CASE ReportUp(c)
  BY <1>13 DEF ReportUp, poolVars, PoolTypeOK, RegisteredAtTarget
<1>14. CASE ReportErrors(c)
  BY <1>14 DEF ReportErrors, Ends, poolVars, PoolTypeOK, RegisteredAtTarget
<1> QED
  BY <1>2, <1>3, <1>4, <1>5, <1>6, <1>7, <1>8, <1>9, <1>10, <1>11, <1>12, <1>13,
     <1>14 DEF Step

\* So does every step: a scrape that begins and a database that goes down or
\* comes back touch no server.
LEMMA NextOrigins ==
    ASSUME Origins, [Next]_vars
    PROVE  Origins'
<1> USE PoolAssumption, ExporterAssumption
    DEF Origins, TypeOK, ConfiguredWork, MasterConfigured, Goto,
        serverVars, localVars, gauges
<1>1. ASSUME NEW c \in Scrape, Begin(c)
      PROVE  Origins'
  BY <1>1 DEF Begin, poolVars, PoolTypeOK, RegisteredAtTarget
<1>2. ASSUME NEW c \in Scrape, Step(c)
      PROVE  Origins'
  BY <1>2, ScrapeStep
<1>3. ASSUME NEW d \in DSN, Environment(d)
      PROVE  Origins'
  <2>1. PoolTypeOK' /\ RegisteredAtTarget' /\ target' = target
    BY <1>3 DEF Environment, HealthChanges, PoolTypeOK, RegisteredAtTarget
  <2>2. outages' \in 0..MaxOutages
    BY <1>3 DEF Environment
  <2> QED
    BY <1>3, <2>1, <2>2 DEF Environment
<1>4. CASE UNCHANGED vars
  BY <1>4 DEF vars, poolVars, PoolTypeOK, RegisteredAtTarget
<1> QED
  BY <1>1, <1>2, <1>3, <1>4 DEF Next

-----------------------------------------------------------------------------
\* Each step of a scrape keeps its account: a DSN leaves todo when the loop
\* gets to it, and joins failed, if at all, before the loop goes on.
LEMMA NextAccounted ==
    ASSUME IInv, [Next]_vars
    PROVE  Accounted'
<1> USE DEF Accounted, Goto, localVars, gauges
<1>0. TypeOK
  BY DEF IInv
<1> USE DEF TypeOK
<1>1. ASSUME NEW c \in Scrape, Begin(c)
      PROVE  Accounted'
  BY <1>0, <1>1, FS_EmptySet, ExporterAssumption DEF IInv, Begin
<1>2. ASSUME NEW c \in Scrape, NEW s \in Server, NewServer(c, s)
      PROVE  Accounted'
  BY <1>2 DEF IInv, NewServer
<1>3. ASSUME NEW c \in Scrape, NEW d \in DSN, Discover(c, d)
      PROVE  Accounted'
  BY <1>0, <1>3 DEF IInv, Discover
<1>4. ASSUME NEW c \in Scrape, NEW d \in DSN, ScrapeDSN(c, d)
      PROVE  Accounted'
  BY <1>0, <1>4 DEF IInv, ScrapeDSN
<1>5. ASSUME NEW c \in Scrape, DiscoverConnects(c)
      PROVE  Accounted'
  <2>1. IsFiniteSet(dsns[c] \cup {cur[c]})
    BY FS_AddElement DEF IInv
  <2> QED
    BY <1>0, <1>5, <2>1 DEF IInv, DiscoverConnects
<1>6. ASSUME NEW c \in Scrape, DiscoverFails(c)
      PROVE  Accounted'
  BY <1>0, <1>6 DEF IInv, DiscoverFails
<1>7. ASSUME NEW c \in Scrape, ListDatabases(c)
      PROVE  Accounted'
  <2>1. PICK found \in SUBSET Databases[cur[c]] : dsns' = [dsns EXCEPT ![c] = @ \cup found]
    BY <1>7 DEF ListDatabases
  <2>2. cur[c] \in Configured
    BY <1>7 DEF IInv, ConfiguredWork, ListDatabases
  <2>3. IsFiniteSet(found)
    BY <2>2, ExporterAssumption, FS_Subset
  <2>4. IsFiniteSet(dsns[c] \cup found)
    BY <2>3, FS_Union DEF IInv
  <2> QED
    BY <1>0, <1>7, <2>1, <2>4 DEF IInv, ListDatabases
<1>8. ASSUME NEW c \in Scrape, Discovered(c)
      PROVE  Accounted'
  BY <1>0, <1>8 DEF IInv, Discovered
<1>9. ASSUME NEW c \in Scrape, Connects(c)
      PROVE  Accounted'
  BY <1>0, <1>9 DEF IInv, Connects
<1>10. ASSUME NEW c \in Scrape, Refused(c)
       PROVE  Accounted'
  BY <1>0, <1>10 DEF IInv, Refused
<1>11. ASSUME NEW c \in Scrape, CheckMapVersions(c)
       PROVE  Accounted'
  BY <1>0, <1>11 DEF IInv, CheckMapVersions
<1>12. ASSUME NEW c \in Scrape, Read(c)
       PROVE  Accounted'
  BY <1>0, <1>12 DEF IInv, Read
<1>13. ASSUME NEW c \in Scrape, ReportUp(c)
       PROVE  Accounted'
  BY <1>0, <1>13 DEF IInv, ReportUp
<1>14. ASSUME NEW c \in Scrape, ReportErrors(c)
       PROVE  Accounted'
  BY <1>0, <1>14, FS_EmptySet DEF IInv, ReportErrors, Ends
<1>15. ASSUME NEW d \in DSN, Environment(d)
       PROVE  Accounted'
  BY <1>15 DEF IInv, Environment
<1>16. CASE UNCHANGED vars
  BY <1>16 DEF IInv, vars
<1> QED
  BY <1>1, <1>2, <1>3, <1>4, <1>5, <1>6, <1>7, <1>8, <1>9, <1>10, <1>11, <1>12,
     <1>13, <1>14, <1>15, <1>16 DEF Next, Step

\* IInv holds in every reachable state.
THEOREM ExporterInvariance == Spec => []IInv
<1>1. IInv <=> Origins /\ Accounted
  BY DEF IInv, Origins
<1>2. IInv /\ [Next]_vars => Origins' /\ Accounted'
  BY <1>1, NextOrigins, NextAccounted
<1>3. IInv' <=> Origins' /\ Accounted'
  BY <1>1, PTL
<1> QED
  BY <1>2, <1>3, InitIInv, PTL DEF Spec

\* Every variable keeps its type.
THEOREM ExporterTypeCorrect == Spec => []TypeOK
BY ExporterInvariance, PTL DEF IInv

\* A database that was merely discovered never exposes the built-in metrics,
\* whatever scrapes overlap and whichever servers are closed and reopened.
THEOREM DefaultOnlyFromConfiguredHolds == Spec => []DefaultOnlyFromConfigured
<1>1. IInv => DefaultOnlyFromConfigured
  BY DEF IInv, TypeOK, PoolTypeOK, MasterConfigured, DefaultOnlyFromConfigured
<1> QED
  BY <1>1, ExporterInvariance, PTL

-----------------------------------------------------------------------------
\* The scrapes as ScrapeGauges sees them.
stages == [c \in Scrape |-> Stage(c)]
results == [c \in Scrape |-> [d \in DSN |-> Result(c, d)]]

\* Another scrape's step changes nothing of what a scrape is for the gauges.
LEMMA GaugeFrame ==
    ASSUME NEW c \in Scrape,
           \A k \in Scrape \ {c} :
               UNCHANGED <<pc[k], todo[k], cur[k], dsns[k], failed[k], refused[k]>>
    PROVE  /\ stages' = [stages EXCEPT ![c] = Stage(c)']
           /\ results' = [results EXCEPT ![c] = [d \in DSN |-> Result(c, d)']]
<1>1. \A k \in Scrape \ {c} : Stage(k)' = Stage(k)
  BY DEF Stage
<1>2. \A k \in Scrape \ {c} : \A d \in DSN : Result(k, d)' = Result(k, d)
  BY <1>1 DEF Result
<1>3. \A k \in Scrape \ {c} : [d \in DSN |-> Result(k, d)]' = [d \in DSN |-> Result(k, d)]
  BY <1>2
<1> QED
  BY <1>1, <1>3 DEF stages, results

\* A step after which neither the stage of its scrape nor a result has changed
\* is none of ScrapeGauges.
LEMMA GaugeStutter ==
    ASSUME NEW c \in Scrape,
           \A k \in Scrape \ {c} :
               UNCHANGED <<pc[k], todo[k], cur[k], dsns[k], failed[k], refused[k]>>,
           Stage(c)' = Stage(c),
           \A d \in DSN : Result(c, d)' = Result(c, d),
           UNCHANGED <<psqlUp, errors>>
    PROVE  UNCHANGED Gauges!gaugeVars
<1>1. stages' = [stages EXCEPT ![c] = Stage(c)']
      /\ results' = [results EXCEPT ![c] = [d \in DSN |-> Result(c, d)']]
  BY GaugeFrame
<1>2. [d \in DSN |-> Result(c, d)'] = [d \in DSN |-> Result(c, d)]
  OBVIOUS
<1>3. stages' = stages /\ results' = results
  BY <1>1, <1>2 DEF stages, results
<1> QED
  BY <1>3 DEF stages, results, Gauges!gaugeVars

\* Each step of Exporter is a step of ScrapeGauges or none.
LEMMA GaugesStep ==
    ASSUME IInv, [Next]_vars
    PROVE  [Gauges!GaugeNext]_Gauges!gaugeVars
<1>0. TypeOK /\ Accounted
  BY DEF IInv
<1> USE DEF TypeOK, Goto, localVars, gauges
<1>1. ASSUME NEW c \in Scrape, NEW s \in Server, NewServer(c, s)
      PROVE  UNCHANGED Gauges!gaugeVars
  <2>1. /\ \A k \in Scrape \ {c} :
             UNCHANGED <<pc[k], todo[k], cur[k], dsns[k], failed[k], refused[k]>>
        /\ UNCHANGED <<psqlUp, errors>>
    BY <1>0, <1>1 DEF NewServer
  <2>2. Stage(c)' = Stage(c)
    BY <1>0, <1>1 DEF NewServer, Stage
  <2>3. \A d \in DSN : Result(c, d)' = Result(c, d)
    BY <1>0, <1>1, <2>2 DEF NewServer, Stage, Result
  <2> QED
    BY <2>1, <2>2, <2>3, GaugeStutter
<1>2. ASSUME NEW c \in Scrape, NEW e \in DSN, Discover(c, e)
      PROVE  UNCHANGED Gauges!gaugeVars
  <2>1. /\ \A k \in Scrape \ {c} :
             UNCHANGED <<pc[k], todo[k], cur[k], dsns[k], failed[k], refused[k]>>
        /\ UNCHANGED <<psqlUp, errors>>
    BY <1>0, <1>2 DEF Discover
  <2>2. Stage(c)' = Stage(c)
    BY <1>0, <1>2 DEF Discover, Stage
  <2>3. \A d \in DSN : Result(c, d)' = Result(c, d)
    BY <1>0, <1>2, <2>2 DEF Discover, Stage, Result
  <2> QED
    BY <2>1, <2>2, <2>3, GaugeStutter
<1>3. ASSUME NEW c \in Scrape, DiscoverConnects(c) \/ DiscoverFails(c) \/ ListDatabases(c)
      PROVE  UNCHANGED Gauges!gaugeVars
  <2>1. /\ \A k \in Scrape \ {c} :
             UNCHANGED <<pc[k], todo[k], cur[k], dsns[k], failed[k], refused[k]>>
        /\ UNCHANGED <<psqlUp, errors>>
    BY <1>0, <1>3 DEF DiscoverConnects, DiscoverFails, ListDatabases
  <2>2. Stage(c)' = Stage(c)
    BY <1>0, <1>3 DEF DiscoverConnects, DiscoverFails, ListDatabases, Stage
  <2>3. \A d \in DSN : Result(c, d)' = Result(c, d)
    BY <1>0, <1>3, <2>2 DEF DiscoverConnects, DiscoverFails, ListDatabases, Stage, Result
  <2> QED
    BY <2>1, <2>2, <2>3, GaugeStutter
<1>4. ASSUME NEW c \in Scrape, NEW e \in DSN, ScrapeDSN(c, e)
      PROVE  UNCHANGED Gauges!gaugeVars
  <2>1. /\ \A k \in Scrape \ {c} :
             UNCHANGED <<pc[k], todo[k], cur[k], dsns[k], failed[k], refused[k]>>
        /\ UNCHANGED <<psqlUp, errors>>
    BY <1>0, <1>4 DEF ScrapeDSN
  <2>2. Stage(c)' = Stage(c)
    BY <1>0, <1>4 DEF ScrapeDSN, Stage
  <2>3. \A d \in DSN : Result(c, d)' = Result(c, d)
    BY <1>0, <1>4, <2>2 DEF ScrapeDSN, Stage, Result
  <2> QED
    BY <2>1, <2>2, <2>3, GaugeStutter
<1>5. ASSUME NEW c \in Scrape, Connects(c) \/ CheckMapVersions(c)
      PROVE  UNCHANGED Gauges!gaugeVars
  <2>1. /\ \A k \in Scrape \ {c} :
             UNCHANGED <<pc[k], todo[k], cur[k], dsns[k], failed[k], refused[k]>>
        /\ UNCHANGED <<psqlUp, errors>>
    BY <1>0, <1>5 DEF Connects, CheckMapVersions
  <2>2. Stage(c)' = Stage(c)
    BY <1>0, <1>5 DEF Connects, CheckMapVersions, Stage
  <2>3. \A d \in DSN : Result(c, d)' = Result(c, d)
    BY <1>0, <1>5, <2>2 DEF Connects, CheckMapVersions, Stage, Result
  <2> QED
    BY <2>1, <2>2, <2>3, GaugeStutter
<1>6. ASSUME NEW c \in Scrape, Begin(c)
      PROVE  [Gauges!GaugeNext]_Gauges!gaugeVars
  <2>1. /\ \A k \in Scrape \ {c} :
             UNCHANGED <<pc[k], todo[k], cur[k], dsns[k], failed[k], refused[k]>>
    BY <1>0, <1>6 DEF Begin
  <2>2. /\ stages' = [stages EXCEPT ![c] = Stage(c)']
        /\ results' = [results EXCEPT ![c] = [d \in DSN |-> Result(c, d)']]
    BY <2>1, GaugeFrame
  <2>3. CASE AutoDiscover
    <3>1. Stage(c)' = Stage(c) /\ \A d \in DSN : Result(c, d)' = Result(c, d)
      BY <1>0, <1>6, <2>3 DEF Begin, Stage, Result
    <3> QED
      BY <1>6, <2>1, <3>1, GaugeStutter DEF Begin
  <2>4. CASE ~AutoDiscover
    <3>1. Stage(c) = "idle" /\ Stage(c)' = "working"
      BY <1>0, <1>6, <2>4 DEF Begin, Stage
    <3>2. \A d \in DSN : Result(c, d)' = IF d \in Configured THEN "todo" ELSE "out"
      BY <1>0, <1>6, <2>4, <3>1 DEF Begin, Result
    <3>3. results' = [results EXCEPT ![c] =
                        [d \in DSN |-> IF d \in Configured THEN "todo" ELSE "out"]]
      BY <2>2, <3>2
    <3>4. Gauges!Start(c, Configured)
      BY <1>6, <2>2, <3>1, <3>3 DEF Begin, Gauges!Start, stages, results
    <3> QED
      BY <3>4, ExporterAssumption DEF Gauges!GaugeNext
  <2> QED
    BY <2>3, <2>4
<1>7. ASSUME NEW c \in Scrape, Discovered(c)
      PROVE  Gauges!GaugeNext
  <2>1. /\ \A k \in Scrape \ {c} :
             UNCHANGED <<pc[k], todo[k], cur[k], dsns[k], failed[k], refused[k]>>
    BY <1>0, <1>7 DEF Discovered
  <2>2. /\ stages' = [stages EXCEPT ![c] = Stage(c)']
        /\ results' = [results EXCEPT ![c] = [d \in DSN |-> Result(c, d)']]
    BY <2>1, GaugeFrame
  <2>3. Stage(c) = "idle" /\ Stage(c)' = "working"
    BY <1>0, <1>7 DEF Discovered, Stage
  <2>4. \A d \in DSN : Result(c, d)' = IF d \in dsns[c] THEN "todo" ELSE "out"
    BY <1>0, <1>7, <2>3 DEF Discovered, Result
  <2>5. results' = [results EXCEPT ![c] = [d \in DSN |-> IF d \in dsns[c] THEN "todo" ELSE "out"]]
    BY <2>2, <2>4
  <2>6. Gauges!Start(c, dsns[c])
    BY <1>7, <2>2, <2>3, <2>5 DEF Discovered, Gauges!Start, stages, results
  <2> QED
    BY <1>0, <2>6 DEF Gauges!GaugeNext
<1>8. ASSUME NEW c \in Scrape, Refused(c) \/ Read(c)
      PROVE  Gauges!GaugeNext
  <2>1. /\ \A k \in Scrape \ {c} :
             UNCHANGED <<pc[k], todo[k], cur[k], dsns[k], failed[k], refused[k]>>
    BY <1>0, <1>8 DEF Refused, Read
  <2>2. /\ stages' = [stages EXCEPT ![c] = Stage(c)']
        /\ results' = [results EXCEPT ![c] = [d \in DSN |-> Result(c, d)']]
    BY <2>1, GaugeFrame
  <2>3. Stage(c) = "working" /\ Stage(c)' = "working"
    BY <1>0, <1>8 DEF Refused, Read, Stage
  <2>4. /\ cur[c] \in DSN /\ cur[c] \in dsns[c] \ (todo[c] \cup failed[c])
        /\ refused[c] \subseteq failed[c]
    BY <1>0, <1>8 DEF Accounted, Refused, Read
  <2>5. PICK e \in DSN : e = cur[c]
    BY <2>4
  <2>6. Result(c, e) = "todo"
    BY <1>8, <2>3, <2>4, <2>5 DEF Refused, Read, Result
  <2>7. Result(c, e)' \in {"scraped", "failed", "refused"}
    BY <1>0, <1>8, <2>3, <2>4, <2>5 DEF Refused, Read, Result
  <2>8. \A d \in DSN \ {e} : Result(c, d)' = Result(c, d)
    BY <1>0, <1>8, <2>3, <2>4, <2>5 DEF Refused, Read, Result
  <2>9. [d \in DSN |-> Result(c, d)'] =
          [[d \in DSN |-> Result(c, d)] EXCEPT ![e] = Result(c, e)']
    BY <2>4, <2>5, <2>8
  <2>10. stages' = stages
    BY <2>2, <2>3 DEF stages
  <2>11. results' = [results EXCEPT ![c] = [@ EXCEPT ![e] = Result(c, e)']]
    <3>1. results[c] = [d \in DSN |-> Result(c, d)]
      BY <1>8 DEF results
    <3>2. [d \in DSN |-> Result(c, d)'] = [results[c] EXCEPT ![e] = Result(c, e)']
      BY <2>9, <3>1
    <3> QED
      BY <2>2, <3>2
  <2>12. UNCHANGED <<psqlUp, errors>>
    BY <1>8 DEF Refused, Read
  <2>13. Gauges!Settle(c, e, Result(c, e)')
    BY <2>3, <2>4, <2>5, <2>6, <2>7, <2>10, <2>11, <2>12 DEF Gauges!Settle, stages, results
  <2> QED
    BY <2>4, <2>5, <2>7, <2>13 DEF Gauges!GaugeNext, Gauges!Results
<1>9. ASSUME NEW c \in Scrape, ReportUp(c)
      PROVE  Gauges!GaugeNext
  <2>1. /\ \A k \in Scrape \ {c} :
             UNCHANGED <<pc[k], todo[k], cur[k], dsns[k], failed[k], refused[k]>>
    BY <1>0, <1>9 DEF ReportUp
  <2>2. /\ stages' = [stages EXCEPT ![c] = Stage(c)']
        /\ results' = [results EXCEPT ![c] = [d \in DSN |-> Result(c, d)']]
    BY <2>1, GaugeFrame
  <2>3. Stage(c) = "working" /\ Stage(c)' = "reporting"
    BY <1>0, <1>9 DEF ReportUp, Stage
  <2>4. todo[c] = {} /\ pc[c] = "loop" /\ dsns[c] \subseteq DSN
        /\ failed[c] \subseteq dsns[c] /\ refused[c] \subseteq failed[c]
    BY <1>0, <1>9 DEF Accounted, ReportUp
  <2>5. \A d \in DSN : Result(c, d)' = Result(c, d) /\ Result(c, d) # "todo"
    BY <1>0, <1>9, <2>3, <2>4 DEF ReportUp, Result
  <2>6. stages' = [stages EXCEPT ![c] = "reporting"] /\ results' = results
    <3>1. results[c] = [d \in DSN |-> Result(c, d)]
      BY <1>9 DEF results
    <3>2. [d \in DSN |-> Result(c, d)'] = results[c]
      BY <2>5, <3>1
    <3>3. [results EXCEPT ![c] = results[c]] = results
      BY DEF results
    <3> QED
      BY <2>2, <2>3, <3>2, <3>3
  <2>7. (Cardinality(refused[c]) >= Cardinality(dsns[c])) <=> (refused[c] = dsns[c])
    <3>1. IsFiniteSet(dsns[c]) /\ refused[c] \subseteq dsns[c]
      BY <1>0, <2>4 DEF Accounted
    <3>2. /\ IsFiniteSet(refused[c])
          /\ Cardinality(refused[c]) <= Cardinality(dsns[c])
          /\ Cardinality(dsns[c]) = Cardinality(refused[c]) => dsns[c] = refused[c]
      BY <3>1, FS_Subset
    <3>3. Cardinality(refused[c]) \in Nat /\ Cardinality(dsns[c]) \in Nat
      BY <3>1, <3>2, FS_CardinalityType
    <3> QED
      BY <3>2, <3>3
  <2>8. (refused[c] # dsns[c]) <=> (\E d \in DSN : Result(c, d) \in {"scraped", "failed"})
    BY <2>3, <2>4 DEF Result
  <2>9. psqlUp' = IF \E d \in DSN : results[c][d] \in {"scraped", "failed"} THEN 1 ELSE 0
    BY <1>9, <2>7, <2>8 DEF ReportUp, results
  <2>10. Gauges!ReportUp(c)
    BY <1>9, <2>3, <2>5, <2>6, <2>9 DEF ReportUp, Gauges!ReportUp, stages, results
  <2> QED
    BY <2>10 DEF Gauges!GaugeNext
<1>10. ASSUME NEW c \in Scrape, ReportErrors(c)
       PROVE  Gauges!GaugeNext
  <2>1. /\ \A k \in Scrape \ {c} :
             UNCHANGED <<pc[k], todo[k], cur[k], dsns[k], failed[k], refused[k]>>
    BY <1>0, <1>10 DEF ReportErrors, Ends
  <2>2. /\ stages' = [stages EXCEPT ![c] = Stage(c)']
        /\ results' = [results EXCEPT ![c] = [d \in DSN |-> Result(c, d)']]
    BY <2>1, GaugeFrame
  <2>3. Stage(c) = "reporting" /\ Stage(c)' = "idle"
    BY <1>0, <1>10 DEF ReportErrors, Ends, Stage
  <2>4. todo[c] = {} /\ pc[c] = "report" /\ dsns[c] \subseteq DSN
        /\ failed[c] \subseteq dsns[c] /\ refused[c] \subseteq failed[c]
    BY <1>0, <1>10 DEF Accounted, ReportErrors, Ends
  <2>5. \A d \in DSN : Result(c, d)' = "out"
    BY <2>3 DEF Result
  <2>6. /\ stages' = [stages EXCEPT ![c] = "idle"]
        /\ results' = [results EXCEPT ![c] = [d \in DSN |-> "out"]]
    BY <2>2, <2>3, <2>5
  <2>7. (failed[c] # {}) <=> (\E d \in DSN : Result(c, d) \in {"failed", "refused"})
    BY <2>3, <2>4 DEF Result
  <2>8. errors' = IF \E d \in DSN : results[c][d] \in {"failed", "refused"} THEN 1 ELSE 0
    BY <1>10, <2>7 DEF ReportErrors, Ends, results
  <2>9. Gauges!ReportErrors(c)
    BY <1>10, <2>3, <2>6, <2>8 DEF ReportErrors, Ends, Gauges!ReportErrors, stages, results
  <2> QED
    BY <2>9 DEF Gauges!GaugeNext
<1>11. ASSUME NEW d \in DSN, Environment(d)
       PROVE  UNCHANGED Gauges!gaugeVars
  BY <1>11 DEF Environment, Gauges!gaugeVars, Stage, Result
<1>12. CASE UNCHANGED vars
  BY <1>12 DEF vars, Gauges!gaugeVars, Stage, Result
<1> QED
  BY <1>1, <1>2, <1>3, <1>4, <1>5, <1>6, <1>7, <1>8, <1>9, <1>10, <1>11, <1>12
  DEF Next, Step

\* The gauges up and last_scrape_error are those of ScrapeGauges, however many
\* scrapes overlap, with or without discovery.
THEOREM ExporterImplementsGauges == Spec => ImplementsGauges
<1>1. Init => Gauges!GaugeInit
  BY DEF Init, Gauges!GaugeInit, Stage, Result
<1> QED
  BY <1>1, GaugesStep, ExporterInvariance, PTL DEF Spec, ImplementsGauges, Gauges!GaugeSpec

-----------------------------------------------------------------------------
\* Over the registry Exporter does what ServerPool allows, and nothing else:
\* what Servers implements is what the scrapes here rely on.
THEOREM ExporterUsesPool == Spec => PoolSpec
<1>1. Init => PoolInit
  BY DEF Init
<1>2. IInv /\ [Next]_vars => [PoolNext]_poolVars
  <2> SUFFICES ASSUME IInv, [Next]_vars
               PROVE  [PoolNext]_poolVars
    OBVIOUS
  <2>0. \A c \in Scrape : cur[c] \in DSN
    BY DEF IInv, TypeOK
  <2>1. ASSUME NEW c \in Scrape, NEW s \in Server, NewServer(c, s)
        PROVE  [PoolNext]_poolVars
    BY <2>0, <2>1 DEF NewServer, PoolNext
  <2>2. ASSUME NEW c \in Scrape, DiscoverConnects(c) \/ Connects(c)
        PROVE  [PoolNext]_poolVars
    <3>1. Lend(c, cur[c])
      BY <2>2 DEF DiscoverConnects, Connects, GetServerSucceeds
    <3> QED
      BY <2>0, <3>1 DEF PoolNext
  <2>3. ASSUME NEW c \in Scrape, DiscoverFails(c) \/ Refused(c)
        PROVE  [PoolNext]_poolVars
    <3>1. UNCHANGED poolVars \/ Drop(cur[c])
      BY <2>3 DEF DiscoverFails, Refused, GetServerFails
    <3> QED
      BY <2>0, <3>1 DEF PoolNext
  <2>4. ASSUME NEW c \in Scrape, ListDatabases(c) \/ Read(c)
        PROVE  [PoolNext]_poolVars
    BY <2>4 DEF ListDatabases, Read, PoolNext
  <2>5. ASSUME NEW c \in Scrape,
               \/ Begin(c) \/ Discovered(c) \/ CheckMapVersions(c)
               \/ ReportUp(c) \/ ReportErrors(c)
               \/ \E d \in DSN : Discover(c, d) \/ ScrapeDSN(c, d)
        PROVE  UNCHANGED poolVars
    BY <2>5 DEF Begin, Discover, Discovered, ScrapeDSN, CheckMapVersions, ReportUp,
                ReportErrors, Ends
  <2>6. ASSUME NEW d \in DSN, Environment(d)
        PROVE  [PoolNext]_poolVars
    BY <2>6 DEF Environment, PoolNext
  <2>7. CASE UNCHANGED vars
    BY <2>7 DEF vars
  <2> QED
    BY <2>1, <2>2, <2>3, <2>4, <2>5, <2>6, <2>7 DEF Next, Step
<1> QED
  BY <1>1, <1>2, ExporterInvariance, PTL DEF Spec, PoolSpec

-----------------------------------------------------------------------------
\* A scrape works with a server that was opened with the DSN at hand, even when
\* another scrape has closed it meanwhile: its memory is no other server's yet.
LentServer ==
    \A c \in Scrape :
        IF pc[c] \in {"list", "check", "read"}
          THEN lent[c] \in Server /\ target[lent[c]] = cur[c]
          ELSE lent[c] = NoServer

\* The built-in metrics a scrape sends are of configured DSNs.
ExposedConfigured == \A c \in Scrape : exposed[c] \subseteq Configured

\* Both follow from where the scrape got its server: GetServer lends the one
\* registered for the DSN, and a server that is lent is not opened anew.
LEMMA LoanKept ==
    ASSUME IInv, LentServer, ExposedConfigured, [Next]_vars
    PROVE  LentServer' /\ ExposedConfigured'
<1> USE PoolAssumption DEF LentServer, ExposedConfigured, Goto, localVars, poolVars
<1>0. /\ TypeOK /\ PoolTypeOK /\ RegisteredAtTarget /\ MasterConfigured
      /\ \A c \in Scrape : cur[c] \in DSN
  BY DEF IInv, TypeOK
<1> USE DEF TypeOK, PoolTypeOK
<1>1. ASSUME NEW c \in Scrape, NEW s \in Server, NewServer(c, s)
      PROVE  LentServer' /\ ExposedConfigured'
  <2>1. \A k \in Scrape : lent[k] # s
    BY <1>1 DEF NewServer, Open, Unreferenced
  <2> QED
    BY <1>0, <1>1, <2>1 DEF NewServer, Open
<1>2. ASSUME NEW c \in Scrape, DiscoverConnects(c) \/ Connects(c)
      PROVE  LentServer' /\ ExposedConfigured'
  <2>1. servers[cur[c]] \in Server /\ target[servers[cur[c]]] = cur[c]
    BY <1>0, <1>2 DEF DiscoverConnects, Connects, GetServerSucceeds, Lend, RegisteredAtTarget
  <2>2. /\ lent' = [lent EXCEPT ![c] = servers[cur[c]]]
        /\ UNCHANGED <<target, cur, exposed>>
        /\ pc'[c] \in {"list", "check"}
        /\ \A k \in Scrape \ {c} : pc'[k] = pc[k]
    BY <1>0, <1>2 DEF DiscoverConnects, Connects, GetServerSucceeds, Lend
  <2> QED
    BY <1>0, <2>1, <2>2
<1>3. ASSUME NEW c \in Scrape, DiscoverFails(c) \/ Refused(c)
      PROVE  LentServer' /\ ExposedConfigured'
  <2>1. /\ UNCHANGED <<lent, target, cur, exposed>>
        /\ pc[c] \in {"discoverGet", "get"} /\ pc'[c] \in {"discover", "loop"}
        /\ \A k \in Scrape \ {c} : pc'[k] = pc[k]
    BY <1>0, <1>3 DEF DiscoverFails, Refused, GetServerFails, Drop
  <2> QED
    BY <1>0, <2>1
<1>4. ASSUME NEW c \in Scrape, ListDatabases(c)
      PROVE  LentServer' /\ ExposedConfigured'
  BY <1>0, <1>4 DEF ListDatabases, Return
<1>5. ASSUME NEW c \in Scrape, Read(c)
      PROVE  LentServer' /\ ExposedConfigured'
  <2>1. lent[c] \in Server /\ target[lent[c]] = cur[c]
    BY <1>5 DEF Read
  <2>2. metricMap[lent[c]] = "default" => cur[c] \in Configured
    BY <1>0, <2>1 DEF MasterConfigured
  <2>3. ExposedConfigured'
    BY <1>0, <1>5, <2>2 DEF Read
  <2>4. LentServer'
    BY <1>0, <1>5 DEF Read, Return
  <2> QED
    BY <2>3, <2>4
<1>6. ASSUME NEW c \in Scrape, Begin(c) \/ Discovered(c) \/ ReportUp(c)
      PROVE  LentServer' /\ ExposedConfigured'
  BY <1>0, <1>6 DEF Begin, Discovered, ReportUp
<1>7. ASSUME NEW c \in Scrape, NEW d \in DSN, Discover(c, d) \/ ScrapeDSN(c, d)
      PROVE  LentServer' /\ ExposedConfigured'
  BY <1>0, <1>7 DEF Discover, ScrapeDSN
<1>8. ASSUME NEW c \in Scrape, CheckMapVersions(c)
      PROVE  LentServer' /\ ExposedConfigured'
  BY <1>0, <1>8 DEF CheckMapVersions
<1>9. ASSUME NEW c \in Scrape, ReportErrors(c)
      PROVE  LentServer' /\ ExposedConfigured'
  BY <1>0, <1>9 DEF ReportErrors, Ends
<1>10. ASSUME NEW d \in DSN, Environment(d)
       PROVE  LentServer' /\ ExposedConfigured'
  BY <1>10 DEF Environment, HealthChanges
<1>11. CASE UNCHANGED vars
  BY <1>11 DEF vars
<1> QED
  BY <1>1, <1>2, <1>3, <1>4, <1>5, <1>6, <1>7, <1>8, <1>9, <1>10, <1>11 DEF Next, Step

\* No scrape sends the built-in metrics under a DSN that is not configured, though
\* its server may be closed, and its DSN opened anew, while it works with it.
THEOREM ExposedConfiguredHolds == Spec => [](LentServer /\ ExposedConfigured)
<1>1. Init => LentServer /\ ExposedConfigured
  BY DEF Init, PoolInit, LentServer, ExposedConfigured
<1>2. IInv /\ (LentServer /\ ExposedConfigured) /\ [Next]_vars =>
        (LentServer /\ ExposedConfigured)'
  BY LoanKept
<1> QED
  BY <1>1, <1>2, ExporterInvariance, PTL DEF Spec
=============================================================================
