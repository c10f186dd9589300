--------------------------- MODULE MetricMapProofs ---------------------------
(***************************************************************************)
(* Proofs about MetricMap.tla, for every number of overlapping scrapes and *)
(* of other servers, and every set of versions.                            *)
(***************************************************************************)
EXTENDS MetricMap, TLAPS

\* A scrape that merges the user queries, or has, merges them into a map.
WriterHasMap ==
    \A c \in Scrape : pc[c] \in {"version", "user", "unlock"} => metricMap # NoMap

\* The types, and what they rest on: a scrape that rebuilds was told a version.
Typed == TypeOK /\ ToldVersion /\ WriterHasMap

\* A record of a version and a flag is a map, and not the nil one.
LEMMA MapRecords ==
    ASSUME NEW v \in Version, NEW u \in BOOLEAN
    PROVE  [ver |-> v, user |-> u] \in Map /\ [ver |-> v, user |-> u] # NoMap
<1>1. [ver |-> v, user |-> u] \in Map
  BY DEF Map
<1>2. NoMap \notin Map
  BY MetricMapAssumption DEF Map
<1> QED
  BY <1>1, <1>2

\* Each step of a scrape keeps them.
LEMMA StepTyped ==
    ASSUME Typed, [Next]_vars
    PROVE  Typed'
<1> USE MetricMapAssumption
    DEF Typed, TypeOK, ToldVersion, WriterHasMap, Map, Rebuilding, Goto, gauge, File
<1>1. ASSUME NEW c \in Scrape, QueryVersion(c)
      PROVE  Typed'
  <2>1. overlap' \in [Scrape -> SUBSET Version]
    BY <1>1 DEF QueryVersion
  <2> QED
    BY <1>1, <2>1 DEF QueryVersion
<1>2. ASSUME NEW c \in Scrape, QueryVersionFails(c)
      PROVE  Typed'
  BY <1>2 DEF QueryVersionFails
<1>3. ASSUME NEW c \in Scrape, Announce(c)
      PROVE  Typed'
  BY <1>3 DEF Announce
<1>4. ASSUME NEW c \in Scrape, Drain(c)
      PROVE  Typed'
  BY <1>4 DEF Drain
<1>5. ASSUME NEW c \in Scrape, RLock(c)
      PROVE  Typed'
  BY <1>5 DEF RLock
<1>6. ASSUME NEW c \in Scrape, ScrapeStep(c)
      PROVE  Typed'
  <2>1. CASE Check(c)
    BY <2>1 DEF Check
  <2>2. CASE BuildMap(c)
    <3>1. seen[c] \in Version
      BY <2>2 DEF BuildMap
    <3>2. metricMap' \in Map /\ metricMap' # NoMap
      BY <2>2, <3>1, MapRecords DEF BuildMap
    <3> QED
      BY <2>2, <3>2 DEF BuildMap
  <2>3. CASE SetVersion(c)
    BY <2>3 DEF SetVersion
  <2>4. CASE AddQueries(c)
    <3>1. metricMap \in Map
      BY <2>4 DEF AddQueries
    <3>2. metricMap.ver \in Version
      BY <3>1
    <3>3. metricMap' \in Map /\ metricMap' # NoMap
      BY <2>4, <3>1, <3>2, MapRecords DEF AddQueries
    <3> QED
      BY <2>4, <3>3 DEF AddQueries, SetGauge
  <2>5. CASE Unlock(c)
    BY <2>5 DEF Unlock
  <2>6. CASE RUnlock(c)
    BY <2>6 DEF RUnlock
  <2> QED
    BY <1>6, <2>1, <2>2, <2>3, <2>4, <2>5, <2>6 DEF ScrapeStep
<1>7. ASSUME NEW o \in Other, OtherResets(o) \/ OtherSets(o)
      PROVE  Typed'
  BY <1>7 DEF OtherResets, OtherSets, SetGauge
<1>8. CASE Environment
  BY <1>8 DEF Environment
<1>9. CASE UNCHANGED vars
  BY <1>9 DEF vars
<1> QED
  BY <1>1, <1>2, <1>3, <1>4, <1>5, <1>6, <1>7, <1>8, <1>9 DEF Next

\* Every variable keeps its type.
THEOREM MapTypeCorrect == Spec => []TypeOK
<1>1. Init => Typed
  BY MetricMapAssumption
  DEF Init, Typed, TypeOK, ToldVersion, WriterHasMap, Rebuilding
<1>2. Typed /\ [Next]_vars => Typed'
  BY StepTyped
<1>3. Typed => TypeOK
  BY DEF Typed
<1> QED
  BY <1>1, <1>2, <1>3, PTL DEF Spec

-----------------------------------------------------------------------------
\* The conjuncts of IInv beyond the types.
MapDiscipline ==
    /\ WriterExcludes
    /\ ToldVersion
    /\ OverlapComplete
    /\ VersionsAgree
    /\ MapUsable
    /\ LoadReported

\* At the start there is no writer and no map, and no scrape was told anything.
LEMMA InitMapDiscipline == Init => MapDiscipline
BY MetricMapAssumption
DEF Init, MapDiscipline, WriterExcludes, ToldVersion, OverlapComplete, VersionsAgree,
    MapUsable, LoadReported, Rebuilding

\* The mutex discipline, by itself.
LEMMA StepWriter ==
    ASSUME TypeOK, WriterExcludes, ToldVersion, [Next]_vars
    PROVE  WriterExcludes' /\ ToldVersion'
<1> USE MetricMapAssumption DEF TypeOK, WriterExcludes, ToldVersion, Rebuilding, Goto
<1>1. ASSUME NEW c \in Scrape, QueryVersion(c)
      PROVE  WriterExcludes' /\ ToldVersion'
  BY <1>1 DEF QueryVersion
<1>2. ASSUME NEW c \in Scrape, QueryVersionFails(c)
      PROVE  WriterExcludes' /\ ToldVersion'
  BY <1>2 DEF QueryVersionFails
<1>3. ASSUME NEW c \in Scrape, Announce(c)
      PROVE  WriterExcludes' /\ ToldVersion'
  BY <1>3 DEF Announce
<1>4. ASSUME NEW c \in Scrape, Drain(c)
      PROVE  WriterExcludes' /\ ToldVersion'
  BY <1>4 DEF Drain
<1>5. ASSUME NEW c \in Scrape, RLock(c)
      PROVE  WriterExcludes' /\ ToldVersion'
  BY <1>5 DEF RLock
<1>6. ASSUME NEW c \in Scrape, ScrapeStep(c)
      PROVE  WriterExcludes' /\ ToldVersion'
  <2>1. CASE Check(c)
    BY <2>1 DEF Check
  <2>2. CASE BuildMap(c)
    BY <2>2 DEF BuildMap
  <2>3. CASE SetVersion(c)
    BY <2>3 DEF SetVersion
  <2>4. CASE AddQueries(c)
    BY <2>4 DEF AddQueries
  <2>5. CASE Unlock(c)
    BY <2>5 DEF Unlock
  <2>6. CASE RUnlock(c)
    BY <2>6 DEF RUnlock
  <2> QED
    BY <1>6, <2>1, <2>2, <2>3, <2>4, <2>5, <2>6 DEF ScrapeStep
<1>7. ASSUME NEW o \in Other, OtherResets(o) \/ OtherSets(o)
      PROVE  WriterExcludes' /\ ToldVersion'
  BY <1>7 DEF OtherResets, OtherSets, SetGauge
<1>8. CASE Environment
  BY <1>8 DEF Environment
<1>9. CASE UNCHANGED vars
  BY <1>9 DEF vars
<1> QED
  BY <1>1, <1>2, <1>3, <1>4, <1>5, <1>6, <1>7, <1>8, <1>9 DEF Next

\* overlap only grows while a scrape is under way, and a scrape that is told a
\* version tells the others.
LEMMA StepOverlap ==
    ASSUME TypeOK, ToldVersion, OverlapComplete, [Next]_vars
    PROVE  OverlapComplete'
<1> USE MetricMapAssumption DEF TypeOK, OverlapComplete, ToldVersion, Goto
<1>1. ASSUME NEW c \in Scrape, QueryVersion(c)
      PROVE  OverlapComplete'
  BY <1>1 DEF QueryVersion
<1>2. ASSUME NEW c \in Scrape, RUnlock(c)
      PROVE  OverlapComplete'
  BY <1>2 DEF RUnlock
<1>3. CASE UNCHANGED <<seen, overlap>>
  BY <1>3
<1> QED
  BY <1>1, <1>2, <1>3 DEF Next, vars, QueryVersionFails, Announce, Drain, RLock, ScrapeStep,
     Check, BuildMap, SetVersion, AddQueries, Unlock, OtherResets, OtherSets, Environment

\* The map and the versions: the writer's steps are the only ones that change
\* them, and a writer was told what it writes while every scrape it disturbs
\* was under way.
LEMMA StepMap ==
    ASSUME TypeOK, MapDiscipline, [Next]_vars
    PROVE  (VersionsAgree /\ MapUsable)'
<1> USE MetricMapAssumption
    DEF TypeOK, MapDiscipline, WriterExcludes, ToldVersion, OverlapComplete,
        VersionsAgree, MapUsable, Rebuilding, Map, Goto
<1>1. ASSUME NEW c \in Scrape, QueryVersion(c)
      PROVE  (VersionsAgree /\ MapUsable)'
  BY <1>1 DEF QueryVersion
<1>2. ASSUME NEW c \in Scrape, QueryVersionFails(c)
      PROVE  (VersionsAgree /\ MapUsable)'
  BY <1>2 DEF QueryVersionFails
<1>3. ASSUME NEW c \in Scrape, Announce(c)
      PROVE  (VersionsAgree /\ MapUsable)'
  BY <1>3 DEF Announce
<1>4. ASSUME NEW c \in Scrape, Drain(c)
      PROVE  (VersionsAgree /\ MapUsable)'
  BY <1>4 DEF Drain
<1>5. ASSUME NEW c \in Scrape, RLock(c)
      PROVE  (VersionsAgree /\ MapUsable)'
  BY <1>5 DEF RLock
<1>6. ASSUME NEW c \in Scrape, ScrapeStep(c)
      PROVE  (VersionsAgree /\ MapUsable)'
  <2>1. CASE Check(c)
    <3>1. UNCHANGED <<metricMap, lastMapVersion, seen, overlap>>
      BY <2>1 DEF Check
    <3>2. \A d \in Scrape \ {c} : pc'[d] = pc[d]
      BY <2>1 DEF Check
    <3>3. pc[c] = "check" /\ pc'[c] \in {"announce", "rlock"}
      BY <2>1 DEF Check
    <3>4. pc'[c] = "rlock" =>
            /\ metricMap # NoMap
            /\ lastMapVersion = seen[c] \/ \E w \in Scrape : pc[w] = "version"
      BY <2>1 DEF Check, Differs
    <3>5. VersionsAgree'
      BY <3>1, <3>2, <3>3
    <3>6. MapUsable'
      BY <3>1, <3>2, <3>3, <3>4
    <3> QED
      BY <3>5, <3>6
  <2>2. CASE BuildMap(c)
    <3>1. seen[c] \in Version
      BY <2>2 DEF BuildMap
    <3>2. metricMap' \in Map /\ metricMap' # NoMap
      BY <2>2, <3>1, MapRecords DEF BuildMap
    <3>3. metricMap'.ver = seen[c]
      BY <2>2 DEF BuildMap
    <3>4. UNCHANGED <<lastMapVersion, seen, overlap>>
      BY <2>2 DEF BuildMap
    <3>5. pc' = [pc EXCEPT ![c] = "version"] /\ pc[c] = "map"
      BY <2>2 DEF BuildMap
    <3>6. VersionsAgree'
      BY <3>2, <3>3, <3>4, <3>5
    <3>7. MapUsable'
      BY <3>1, <3>2, <3>3, <3>4, <3>5
    <3> QED
      BY <3>6, <3>7
  <2>3. CASE SetVersion(c)
    BY <2>3 DEF SetVersion
  <2>4. CASE AddQueries(c)
    <3>1. metricMap \in Map
      BY <2>4 DEF AddQueries
    <3>2. metricMap.ver \in Version
      BY <3>1
    <3>3. metricMap' \in Map /\ metricMap' # NoMap /\ metricMap'.ver = metricMap.ver
      BY <2>4, <3>1, <3>2, MapRecords DEF AddQueries
    <3>4. UNCHANGED <<lastMapVersion, seen, overlap>>
      BY <2>4 DEF AddQueries
    <3>5. pc' = [pc EXCEPT ![c] = "unlock"] /\ pc[c] = "user"
      BY <2>4 DEF AddQueries
    <3> QED
      BY <3>1, <3>3, <3>4, <3>5
  <2>5. CASE Unlock(c)
    BY <2>5 DEF Unlock
  <2>6. CASE RUnlock(c)
    BY <2>6 DEF RUnlock
  <2> QED
    BY <1>6, <2>1, <2>2, <2>3, <2>4, <2>5, <2>6 DEF ScrapeStep
<1>7. ASSUME NEW o \in Other, OtherResets(o) \/ OtherSets(o)
      PROVE  (VersionsAgree /\ MapUsable)'
  BY <1>7 DEF OtherResets, OtherSets, SetGauge
<1>8. CASE Environment
  BY <1>8 DEF Environment
<1>9. CASE UNCHANGED vars
  BY <1>9 DEF vars
<1> QED
  BY <1>1, <1>2, <1>3, <1>4, <1>5, <1>6, <1>7, <1>8, <1>9 DEF Next

\* Whoever resets the gauge sets it, and who sets it last loaded last.
LEMMA StepGauge ==
    ASSUME TypeOK, LoadReported, [Next]_vars
    PROVE  LoadReported'
<1> USE DEF TypeOK, LoadReported, Goto, gauge
<1>1. ASSUME NEW c \in Scrape, SetVersion(c)
      PROVE  LoadReported'
  BY <1>1 DEF SetVersion, Rebuilding
<1>2. ASSUME NEW c \in Scrape, AddQueries(c)
      PROVE  LoadReported'
  BY <1>2 DEF AddQueries, SetGauge
<1>3. ASSUME NEW c \in Scrape,
             \/ QueryVersion(c) \/ QueryVersionFails(c) \/ Announce(c) \/ Drain(c) \/ RLock(c)
             \/ Check(c) \/ BuildMap(c) \/ Unlock(c) \/ RUnlock(c)
      PROVE  LoadReported'
  <2>1. UNCHANGED gauge /\ \A d \in Scrape : pc[d] = "user" => pc'[d] = "user"
    BY <1>3 DEF QueryVersion, QueryVersionFails, Announce, Drain, RLock, Check, BuildMap,
       Unlock, RUnlock
  <2> QED
    BY <2>1
<1>4. ASSUME NEW o \in Other, OtherResets(o)
      PROVE  LoadReported'
  BY <1>4 DEF OtherResets
<1>5. ASSUME NEW o \in Other, OtherSets(o)
      PROVE  LoadReported'
  BY <1>5 DEF OtherSets, SetGauge
<1>6. CASE Environment \/ UNCHANGED vars
  BY <1>6 DEF Environment, vars
<1> QED
  BY <1>1, <1>2, <1>3, <1>4, <1>5, <1>6 DEF Next, ScrapeStep

\* IInv holds in every reachable state.
THEOREM MapInvariance == Spec => []IInv
<1>1. IInv <=> TypeOK /\ MapDiscipline
  BY DEF IInv, MapDiscipline
<1>2. Init => MapDiscipline
  BY InitMapDiscipline
<1>3. TypeOK /\ MapDiscipline /\ [Next]_vars => MapDiscipline'
  BY StepWriter, StepOverlap, StepMap, StepGauge DEF MapDiscipline
<1> QED
  BY <1>1, <1>2, <1>3, MapTypeCorrect, PTL DEF Spec

-----------------------------------------------------------------------------
\* A scrape that was told the version never iterates over a nil map.
THEOREM NeverScrapesNilHolds == Spec => []NeverScrapesNil
<1>1. IInv => NeverScrapesNil
  BY DEF IInv, MapUsable, NeverScrapesNil
<1> QED
  BY <1>1, MapInvariance, PTL

\* The map a scrape uses is that of the version it was told, or of one that a
\* scrape overlapping it was told.
THEOREM MapVersionSeenHolds == Spec => []MapVersionSeen
<1>1. IInv => MapVersionSeen
  BY DEF IInv, MapUsable, MapVersionSeen
<1> QED
  BY <1>1, MapInvariance, PTL

\* However the rebuilds of the servers interleave, the gauge shows how the last load of
\* the user queries ended as soon as no server is about to set it.
THEOREM LoadReportedHolds == Spec => []LoadReported
<1>1. IInv => LoadReported
  BY DEF IInv
<1> QED
  BY <1>1, MapInvariance, PTL

\* No scrape replaces the map, or merges into it, under another's iteration.
THEOREM MapStableWhileReadHolds == Spec => MapStableWhileRead
<1>1. IInv /\ [Next]_vars =>
        [(\E c \in Scrape : pc[c] = "scrape") =>
             UNCHANGED <<metricMap, lastMapVersion>>]_vars
  BY DEF IInv, WriterExcludes, Rebuilding, Next, vars, QueryVersion, QueryVersionFails,
     Announce, Drain, RLock, ScrapeStep, Check, BuildMap, SetVersion, AddQueries, Unlock,
     RUnlock, OtherResets, OtherSets, Environment
<1> QED
  BY <1>1, MapInvariance, PTL DEF Spec, MapStableWhileRead

-----------------------------------------------------------------------------
\* The scrapes under way that were told another version than PostgreSQL has now.
Stale == {c \in Scrape : seen[c] \notin {NoVersion, version}}

\* While the version stays, no scrape becomes stale, one that is stale sets
\* lastMapVersion on its way from "version" on at most, and if none is, what was
\* set to this version is not set back.
StaleDieOut ==
    [][version' = version =>
         /\ Stale' \subseteq Stale
         /\ lastMapVersion' # lastMapVersion /\ lastMapVersion' # version =>
              \E c \in Stale : pc[c] = "version" /\ pc'[c] \in {"user", "unlock"}
         /\ Stale = {} /\ lastMapVersion = version => lastMapVersion' = version]_vars

\* A slow scrape may put an older map back, but only one that was told its version
\* before the last upgrade, once: the safety half of MapConverges.
THEOREM StaleDieOutHolds == Spec => StaleDieOut
<1> DEFINE DieOut ==
      version' = version =>
         /\ Stale' \subseteq Stale
         /\ lastMapVersion' # lastMapVersion /\ lastMapVersion' # version =>
              \E c \in Stale : pc[c] = "version" /\ pc'[c] \in {"user", "unlock"}
         /\ Stale = {} /\ lastMapVersion = version => lastMapVersion' = version
<1>1. ASSUME IInv, [Next]_vars
      PROVE  DieOut
  <2> USE MetricMapAssumption DEF Stale, Goto
  <2>0. TypeOK /\ ToldVersion
    BY <1>1 DEF IInv
  <2>1. ASSUME NEW c \in Scrape, QueryVersion(c)
        PROVE  DieOut
    BY <2>0, <2>1 DEF QueryVersion, TypeOK
  <2>2. ASSUME NEW c \in Scrape, QueryVersionFails(c) \/ Check(c) \/ Announce(c) \/ Drain(c)
        PROVE  DieOut
    BY <2>2 DEF QueryVersionFails, Check, Announce, Drain
  <2>3. ASSUME NEW c \in Scrape, BuildMap(c) \/ AddQueries(c) \/ Unlock(c) \/ RLock(c)
        PROVE  DieOut
    BY <2>3 DEF BuildMap, AddQueries, Unlock, RLock
  <2>4. ASSUME NEW c \in Scrape, SetVersion(c)
        PROVE  DieOut
    <3>1. /\ pc[c] = "version" /\ pc'[c] \in {"user", "unlock"}
          /\ lastMapVersion' = seen[c] /\ UNCHANGED <<seen, version>>
      BY <2>0, <2>4 DEF SetVersion, TypeOK, Rebuilding
    <3>2. seen[c] # NoVersion
      BY <2>0, <3>1 DEF ToldVersion, Rebuilding
    <3> QED
      BY <3>1, <3>2
  <2>5. ASSUME NEW c \in Scrape, RUnlock(c)
        PROVE  DieOut
    BY <2>0, <2>5 DEF RUnlock, TypeOK
  <2>6. ASSUME NEW o \in Other, OtherResets(o) \/ OtherSets(o)
        PROVE  DieOut
    BY <2>6 DEF OtherResets, OtherSets
  <2>7. CASE Environment \/ UNCHANGED vars
    BY <2>7 DEF Environment, vars
  <2> HIDE DEF DieOut
  <2> QED
    BY <1>1, <2>1, <2>2, <2>3, <2>4, <2>5, <2>6, <2>7 DEF Next, ScrapeStep
<1>2. IInv /\ [Next]_vars => [DieOut]_vars
  BY <1>1
<1> QED
  BY <1>2, MapInvariance, PTL DEF Spec, StaleDieOut
=============================================================================
