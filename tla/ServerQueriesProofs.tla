------------------------ MODULE ServerQueriesProofs ------------------------
(***************************************************************************)
(* Proofs about ServerQueries.tla, for any versions, prefixes and user     *)
(* queries files: a namespace has the mapping and the query of one         *)
(* definition, but for two of a file that the prefix makes one; the        *)
(* built-in tables fit every PostgreSQL from 9.1 on; and no answer yields  *)
(* two metrics of one name with the same labels.                           *)
(***************************************************************************)
EXTENDS ServerQueries, TLAPS

\* What every map has: its labels are columns, and a column has one treatment.
WellFormed(map) ==
    /\ map.labels \subseteq DOMAIN map.columns
    /\ \A c \in DOMAIN map.columns : map.columns[c] \in {"discard", "histogram", "value"}

\* The nil maps have no entry.
LEMMA NoMapsEmpty == DOMAIN NoMaps = {}
BY DEF NoMaps

\* makeDescMap, of whatever maps it is given: it renames the namespaces, and the
\* entry of a new name comes from an old one.
LEMMA DescMapShape ==
    ASSUME NEW map, NEW v, NEW asParts
    PROVE  /\ WellFormed(DescMap(map, v, asParts))
           /\ DescMap(map, v, asParts).by = map.by
           /\ DescMap(map, v, asParts).of = map.of
<1>1. \A m : Treatment(m, v) \in {"discard", "histogram", "value"}
  BY DEF Treatment
<1> DEFINE columns == map.columns
           histograms == {c \in DOMAIN columns : Treatment(columns[c], v) = "histogram"}
           all == DOMAIN columns \cup UNION {Parts(h) : h \in histograms}
           treated == [c \in all |-> IF c \in DOMAIN columns \ asParts
                                     THEN Treatment(columns[c], v) ELSE "discard"]
<1>2. /\ DescMap(map, v, asParts).columns = treated
      /\ DescMap(map, v, asParts).labels = {c \in DOMAIN columns : columns[c].usage = "LABEL"}
      /\ DescMap(map, v, asParts).by = map.by
      /\ DescMap(map, v, asParts).of = map.of
  BY DEF DescMap
<1>3. \A c \in all : treated[c] \in {"discard", "histogram", "value"}
  BY <1>1
<1> HIDE DEF histograms
<1>4. DOMAIN treated = all /\ DOMAIN columns \subseteq all
  OBVIOUS
<1> QED
  BY <1>2, <1>3, <1>4 DEF WellFormed

\* makeDescMap has an entry for each namespace under its new name, made of one of them.
LEMMA MakeDescMapShape ==
    ASSUME NEW v, NEW p, NEW maps, NEW asParts
    PROVE  /\ \A n \in DOMAIN maps : Rename(n, p) \in DOMAIN makeDescMap(v, p, maps, asParts)
           /\ \A ns \in DOMAIN makeDescMap(v, p, maps, asParts) :
                /\ WellFormed(makeDescMap(v, p, maps, asParts)[ns])
                /\ \E n \in DOMAIN maps :
                      /\ ns = Rename(n, p)
                      /\ makeDescMap(v, p, maps, asParts)[ns].by = maps[n].by
                      /\ makeDescMap(v, p, maps, asParts)[ns].of = maps[n].of
<1> DEFINE made == makeDescMap(v, p, maps, asParts)
           old(ns) == CHOOSE n \in DOMAIN maps : Rename(n, p) = ns
<1>1. DOMAIN made = {Rename(n, p) : n \in DOMAIN maps}
  BY DEF makeDescMap
<1>2. ASSUME NEW ns \in DOMAIN made
      PROVE  /\ WellFormed(made[ns])
             /\ \E n \in DOMAIN maps :
                   ns = Rename(n, p) /\ made[ns].by = maps[n].by /\ made[ns].of = maps[n].of
  <2>1. made[ns] = DescMap(maps[old(ns)], v, asParts)
    BY <1>1, <1>2 DEF makeDescMap
  <2>2. old(ns) \in DOMAIN maps /\ Rename(old(ns), p) = ns
    BY <1>1, <1>2
  <2>3. /\ WellFormed(made[ns])
        /\ made[ns].by = maps[old(ns)].by
        /\ made[ns].of = maps[old(ns)].of
    BY <2>1, DescMapShape
  <2> HIDE DEF made, old
  <2> QED
    BY <2>2, <2>3
<1> QED
  BY <1>1, <1>2

\* The built-in tables are about namespaces of the prefix pg, and the exporter's.
LEMMA BuiltinTables ==
    /\ \A n \in DOMAIN builtinMetricMaps :
         /\ n = <<"pg", n[2]>>
         /\ builtinMetricMaps[n].by = "exporter"
         /\ builtinMetricMaps[n].of = n
    /\ \A n \in DOMAIN overrides :
         n[1] = "pg" /\ \A q \in overrides[n] : q.by = "exporter"
<1>1. \A n \in DOMAIN builtinMetricMaps :
        /\ n = <<"pg", n[2]>>
        /\ builtinMetricMaps[n].by = "exporter"
        /\ builtinMetricMaps[n].of = n
  BY DEF builtinMetricMaps
<1>2. \A n \in DOMAIN overrides :
        n[1] = "pg" /\ \A q \in overrides[n] : q.by = "exporter"
  BY DEF overrides, Between
<1> QED
  BY <1>1, <1>2

\* makeQueryOverrideMap has an entry for each overridden namespace, the empty query
\* if nothing else.
LEMMA OverridesShape ==
    ASSUME NEW v
    PROVE  LET made == makeQueryOverrideMap(v)
           IN /\ DOMAIN made = DOMAIN overrides
              /\ \A n \in DOMAIN made : made[n] = Disabled \/ made[n].by = "exporter"
<1> DEFINE made == makeQueryOverrideMap(v)
<1>1. DOMAIN made = DOMAIN overrides
  BY DEF makeQueryOverrideMap
<1>2. ASSUME NEW n \in DOMAIN made
      PROVE  made[n] = Disabled \/ made[n].by = "exporter"
  <2>1. CASE \E q \in overrides[n] : InRange(q, v)
    <3>1. made[n] = CHOOSE q \in overrides[n] : InRange(q, v)
      BY <1>1, <2>1 DEF makeQueryOverrideMap
    <3>2. made[n] \in overrides[n]
      BY <2>1, <3>1
    <3> QED
      BY <1>1, <3>2, BuiltinTables
  <2>2. CASE ~\E q \in overrides[n] : InRange(q, v)
    BY <1>1, <2>2 DEF makeQueryOverrideMap
  <2> QED
    BY <2>1, <2>2
<1> QED
  BY <1>1, <1>2

-----------------------------------------------------------------------------
\* The maps that checkMapVersions makes, before and with the user queries.
MadeMap == IF defaults THEN makeDescMap(version, prefix, builtinMetricMaps, {}) ELSE NoMaps
MadeQueries == IF defaults THEN makeQueryOverrideMap(version) ELSE NoMaps

\* Without a file all is the exporter's: the map has the prefix, the queries keep pg.
LEMMA MadeShape ==
    /\ \A ns \in DOMAIN MadeMap :
         /\ WellFormed(MadeMap[ns])
         /\ MadeMap[ns].by = "exporter"
         /\ ns = <<prefix, ns[2]>>
         /\ MadeMap[ns].of = <<"pg", ns[2]>>
    /\ \A ns \in DOMAIN MadeQueries :
         /\ MadeQueries[ns] = Disabled \/ MadeQueries[ns].by = "exporter"
         /\ ns[1] = "pg"
<1>1. CASE defaults
  <2>1. MadeMap = makeDescMap(version, prefix, builtinMetricMaps, {})
    BY <1>1 DEF MadeMap
  <2>2. MadeQueries = makeQueryOverrideMap(version)
    BY <1>1 DEF MadeQueries
  <2>3. \A ns \in DOMAIN MadeMap :
          /\ WellFormed(MadeMap[ns])
          /\ \E n \in DOMAIN builtinMetricMaps :
                /\ ns = Rename(n, prefix)
                /\ MadeMap[ns].by = builtinMetricMaps[n].by
                /\ MadeMap[ns].of = builtinMetricMaps[n].of
    BY <2>1, MakeDescMapShape
  <2>4. \A n \in DOMAIN builtinMetricMaps :
          /\ Rename(n, prefix) = <<prefix, n[2]>>
          /\ builtinMetricMaps[n].by = "exporter"
          /\ builtinMetricMaps[n].of = <<"pg", n[2]>>
    BY BuiltinTables DEF Rename
  <2>5. ASSUME NEW ns \in DOMAIN MadeMap
        PROVE  /\ MadeMap[ns].by = "exporter"
               /\ ns = <<prefix, ns[2]>>
               /\ MadeMap[ns].of = <<"pg", ns[2]>>
    <3>1. PICK n \in DOMAIN builtinMetricMaps :
            /\ ns = Rename(n, prefix)
            /\ MadeMap[ns].by = builtinMetricMaps[n].by
            /\ MadeMap[ns].of = builtinMetricMaps[n].of
      BY <2>3
    <3>2. ns = <<prefix, n[2]>> /\ ns[2] = n[2]
      BY <2>4, <3>1
    <3> QED
      BY <2>4, <3>1, <3>2
  <2> QED
    BY <2>2, <2>3, <2>5, OverridesShape, BuiltinTables
<1>2. CASE ~defaults
  BY <1>2, NoMapsEmpty DEF MadeMap, MadeQueries
<1> QED
  BY <1>1, <1>2

\* Two namespaces of the file f become ns.
Collides(f, ns) == ns \in DOMAIN f /\ \E n \in DOMAIN f \ {ns} : Rename(n, prefix) = ns

\* addQueries.  A namespace of the file keeps its name in the queries and may
\* be renamed in the map; where the two meet again they are of one definition, unless
\* another one of the file has got that name.
LEMMA MergedShape ==
    ASSUME NEW f \in Files, NEW kept \in Remaining(f, prefix), NEW asParts
    PROVE  LET map == MergedMap(MadeMap, version, prefix, f, kept, asParts)
               queries == MergedOverrides(MadeQueries, f)
           IN /\ \A ns \in DOMAIN map : WellFormed(map[ns])
              /\ \A ns \in DOMAIN queries :
                   queries[ns] = Disabled \/ queries[ns].by \in {"exporter", "user"}
              /\ \A ns \in DOMAIN map \cap DOMAIN queries :
                   queries[ns] # Disabled =>
                     map[ns].by = queries[ns].by /\ (map[ns].of = ns \/ Collides(f, ns))
<1> DEFINE g == [n \in kept |-> f[n]]
           user == makeDescMap(version, prefix, parseUserQueries(g), asParts)
           map == MergedMap(MadeMap, version, prefix, f, kept, asParts)
           queries == MergedOverrides(MadeQueries, f)
<1>1. DOMAIN parseUserQueries(g) = kept
      /\ \A n \in kept : parseUserQueries(g)[n].by = "user" /\ parseUserQueries(g)[n].of = n
  BY DEF parseUserQueries
<1>2. /\ kept \subseteq DOMAIN f
      /\ \A n \in DOMAIN f : \E m \in kept : Rename(m, prefix) = Rename(n, prefix)
  BY DEF Remaining
<1>3. /\ \A n \in DOMAIN f : Rename(n, prefix) \in DOMAIN user
      /\ \A ns \in DOMAIN user :
           /\ WellFormed(user[ns])
           /\ user[ns].by = "user"
           /\ \E n \in DOMAIN f : ns = Rename(n, prefix) /\ user[ns].of = n
  <2> HIDE DEF g
  <2>1. \A n \in kept : Rename(n, prefix) \in DOMAIN user
    BY <1>1, MakeDescMapShape
  <2>2. \A ns \in DOMAIN user :
          /\ WellFormed(user[ns])
          /\ \E n \in kept :
                /\ ns = Rename(n, prefix)
                /\ user[ns].by = parseUserQueries(g)[n].by
                /\ user[ns].of = parseUserQueries(g)[n].of
    BY <1>1, MakeDescMapShape
  <2> HIDE DEF user
  <2>3. \A n \in DOMAIN f : Rename(n, prefix) \in DOMAIN user
    BY <1>2, <2>1
  <2> QED
    BY <1>1, <1>2, <2>2, <2>3
<1>4. /\ DOMAIN map = DOMAIN user \cup DOMAIN MadeMap
      /\ \A ns \in DOMAIN map : map[ns] = IF ns \in DOMAIN user THEN user[ns] ELSE MadeMap[ns]
  BY DEF MergedMap, Over
<1>5. /\ DOMAIN queries = DOMAIN f \cup DOMAIN MadeQueries
      /\ \A ns \in DOMAIN queries :
           queries[ns] = IF ns \in DOMAIN f THEN f[ns].query ELSE MadeQueries[ns]
  BY DEF MergedOverrides, Over, newQueryOverrides
<1>6. \A n \in DOMAIN f :
        /\ n \in STRING \X STRING
        /\ f[n].query.by = "user" \/ f[n].query = Disabled
  BY ServerQueriesAssumption
<1> HIDE DEF g, user, map, queries
<1>7. \A ns \in DOMAIN map : WellFormed(map[ns])
  BY <1>3, <1>4, MadeShape
<1>8. \A ns \in DOMAIN queries :
        queries[ns] = Disabled \/ queries[ns].by \in {"exporter", "user"}
  BY <1>5, <1>6, MadeShape
<1>9. ASSUME NEW ns \in DOMAIN map \cap DOMAIN queries, queries[ns] # Disabled
      PROVE  map[ns].by = queries[ns].by /\ (map[ns].of = ns \/ Collides(f, ns))
  <2>1. CASE ns \in DOMAIN user
    <3>1. PICK n \in DOMAIN f : ns = Rename(n, prefix) /\ user[ns].of = n
      BY <1>3, <2>1
    \* Of two definitions that are renamed to ns either may be read.
    <3>2. CASE ns \in DOMAIN f
      <4>1. map[ns].by = queries[ns].by
        BY <1>3, <1>4, <1>5, <1>6, <1>9, <2>1, <3>2
      <4>2. map[ns].of = n
        BY <1>4, <1>9, <2>1, <3>1
      <4>3. n = ns \/ Collides(f, ns)
        BY <3>1, <3>2 DEF Collides
      <4> QED
        BY <4>1, <4>2, <4>3
    \* The query is the exporter's, so that ns begins with pg: n was not renamed.
    <3>3. CASE ns \notin DOMAIN f
      <4>1. ns[1] = "pg"
        BY <1>5, <1>9, <3>3, MadeShape
      <4>2. CASE n[1] = "pg"
        <5>1. ns = <<prefix, n[2]>>
          BY <3>1, <4>2 DEF Rename
        <5>2. ns = <<"pg", n[2]>>
          BY <4>1, <5>1
        <5>3. n = <<"pg", n[2]>>
          BY <1>6, <4>2
        <5> QED
          BY <3>3, <5>2, <5>3
      <4>3. CASE n[1] # "pg"
        BY <3>1, <3>3, <4>3 DEF Rename
      <4> QED
        BY <4>2, <4>3
    <3> QED
      BY <3>2, <3>3
  <2>2. CASE ns \notin DOMAIN user
    <3>1. /\ ns \in DOMAIN MadeMap
          /\ map[ns].by = "exporter"
          /\ ns = <<prefix, ns[2]>>
          /\ map[ns].of = <<"pg", ns[2]>>
      BY <1>4, <1>9, <2>2, MadeShape
    \* A namespace of the file with that name would be in the map under it.
    <3>2. ns \notin DOMAIN f
      <4>1. SUFFICES ASSUME ns \in DOMAIN f
                     PROVE  FALSE
        OBVIOUS
      <4>2. Rename(ns, prefix) = ns
        BY <3>1 DEF Rename
      <4> QED
        BY <1>3, <2>2, <4>1, <4>2
    <3>3. ns \in DOMAIN MadeQueries /\ queries[ns] = MadeQueries[ns]
      BY <1>5, <1>9, <3>2
    <3>4. queries[ns].by = "exporter" /\ ns[1] = "pg"
      BY <1>9, <3>3, MadeShape
    <3>5. map[ns].of = ns
      BY <3>1, <3>4
    <3> QED
      BY <3>1, <3>4, <3>5
  <2> QED
    BY <2>1, <2>2
<1> QED
  BY <1>7, <1>8, <1>9 DEF map, queries

-----------------------------------------------------------------------------
\* A query ends in one of the statuses.
LEMMA YieldStatus ==
    ASSUME NEW mapping, NEW a, NEW rows
    PROVE  Yield(mapping, a, rows).status \in Statuses
BY DEF Yield, Statuses

\* The types and OwnMapping together are inductive.
LEMMA MapsInvariance == Spec => [](TypeOK /\ OwnMapping)
<1>1. Init => TypeOK /\ OwnMapping
  <2> SUFFICES ASSUME Init
               PROVE  TypeOK /\ OwnMapping
    OBVIOUS
  <2> QED
    BY NoMapsEmpty DEF Init, TypeOK, OwnMapping, Nothing
<1>2. TypeOK /\ OwnMapping /\ [Next]_vars => TypeOK' /\ OwnMapping'
  <2> SUFFICES ASSUME TypeOK, OwnMapping, [Next]_vars
               PROVE  TypeOK' /\ OwnMapping'
    OBVIOUS
  <2>1. CASE Upgrade
    BY <2>1 DEF Upgrade, TypeOK, OwnMapping, Doubled, server, Nothing
  <2>2. CASE EditFile
    BY <2>2 DEF EditFile, TypeOK, OwnMapping, Doubled, server, Nothing
  <2>3. CASE Restart
    BY <2>3, NoMapsEmpty DEF Restart, TypeOK, OwnMapping, environment, Nothing
  <2>4. CASE CheckMapVersions
    <3>1. /\ lastMapVersion' = version
          /\ exposed' = Nothing
          /\ UNCHANGED <<version, recovery, file, prefix, defaults, running>>
      BY <2>4 DEF CheckMapVersions, environment
    <3>2. /\ \A ns \in DOMAIN metricMap' : WellFormed(metricMap'[ns])
          /\ \A ns \in DOMAIN queryOverrides' :
               queryOverrides'[ns] = Disabled \/ queryOverrides'[ns].by \in {"exporter", "user"}
          /\ OwnMapping'
          /\ loaded' \in Files \cup {NoMaps}
      <4>1. CASE file = Broken
        <5>1. metricMap' = MadeMap /\ queryOverrides' = MadeQueries /\ loaded' = NoMaps
          BY <2>4, <4>1 DEF CheckMapVersions, MadeMap, MadeQueries
        <5>2. \A ns \in DOMAIN MadeMap \cap DOMAIN MadeQueries :
                /\ MadeQueries[ns] # Disabled => MadeMap[ns].by = MadeQueries[ns].by
                /\ MadeMap[ns].of = ns
          BY MadeShape
        <5> QED
          BY <5>1, <5>2, MadeShape DEF OwnMapping
      <4>2. CASE file # Broken
        <5>1. PICK kept \in Remaining(file, prefix),
             asParts \in SUBSET ContestedParts(parseUserQueries(file), version) :
                /\ metricMap' = MergedMap(MadeMap, version, prefix, file, kept, asParts)
                /\ queryOverrides' = MergedOverrides(MadeQueries, file)
                /\ loaded' = file
          BY <2>4, <4>2 DEF CheckMapVersions, MadeMap, MadeQueries
        <5>2. file \in Files
          BY <4>2 DEF TypeOK
        <5>3. \A ns \in DOMAIN metricMap' \cap DOMAIN queryOverrides' :
                queryOverrides'[ns] # Disabled =>
                  /\ metricMap'[ns].by = queryOverrides'[ns].by
                  /\ metricMap'[ns].of = ns \/ Collides(file, ns)
          BY <5>1, <5>2, MergedShape
        <5>4. \A ns : Collides(file, ns) => Doubled(ns)'
          BY <3>1, <5>1 DEF Collides, Doubled
        <5>5. OwnMapping'
          BY <5>3, <5>4 DEF OwnMapping
        <5> QED
          BY <5>1, <5>2, <5>5, MergedShape
      <4> QED
        BY <4>1, <4>2
    <3> QED
      BY <3>1, <3>2 DEF TypeOK, WellFormed, Nothing, Disabled
  <2>5. ASSUME NEW ns \in DOMAIN metricMap,
               SkipNamespace(ns) \/ QueryFails(ns) \/ QueryAnswered(ns)
        PROVE  TypeOK' /\ OwnMapping'
    <3>1. UNCHANGED <<environment, server>> /\ running' \in BOOLEAN
      BY <2>5 DEF SkipNamespace, QueryFails, QueryAnswered, TypeOK
    <3>2. exposed'.of = "namespace" /\ exposed'.yield.status \in Statuses
      BY <2>5, YieldStatus DEF SkipNamespace, QueryFails, QueryAnswered, Exposes, Statuses
    <3> QED
      BY <3>1, <3>2 DEF TypeOK, OwnMapping, Doubled, environment, server
  <2>6. ASSUME NEW report \in Reports, ReadSettings(report)
        PROVE  TypeOK' /\ OwnMapping'
    BY <2>6 DEF ReadSettings, TypeOK, OwnMapping, Doubled, environment, server
  <2>7. CASE UNCHANGED vars
    BY <2>7 DEF vars, TypeOK, OwnMapping, Doubled, environment, server
  <2> QED
    BY <2>1, <2>2, <2>3, <2>4, <2>5, <2>6, <2>7 DEF Next
<1> QED
  BY <1>1, <1>2, PTL DEF Spec

\* The variables keep their types: in particular a label is a column of its
\* mapping, and every column has a treatment, at any version.
THEOREM QueriesTypeCorrect == Spec => []TypeOK
BY MapsInvariance, PTL

\* Whatever the file defines or redefines, the prefix renames and the version
\* disables, an answer is read with the columns of its own definition, unless the file
\* that is loaded has another one that the prefix gives the same name.
THEOREM OwnMappingHolds == Spec => []OwnMapping
BY MapsInvariance, PTL
-----------------------------------------------------------------------------
\* The rows of an answer and the labels of their metrics

\* A column that tells rows apart is a label, or it is the first column and a
\* label that is no column has its values.
TellsApart(labels, a) ==
    \A k \in a.key :
        \/ k \in labels \cap a.columns
        \/ k = a.first /\ k \in a.columns /\ labels \ a.columns # {}

\* Rows of one answer that have the same label values are one row.
LEMMA RowsTold ==
    ASSUME NEW mapping, NEW a, TellsApart(mapping.labels, a),
           NEW r1 \in Rows(a), NEW r2 \in Rows(a),
           LabelValues(mapping, a, r1) = LabelValues(mapping, a, r2)
    PROVE  r1 = r2
<1> DEFINE row(k) == [c \in a.columns |-> IF c = k THEN 1 ELSE 0]
<1>1. ASSUME NEW k \in a.columns, NEW j, j # k
      PROVE  row(k)[k] # row(j)[k]
  BY <1>1
<1>2. ASSUME NEW k \in a.key, NEW r, NEW q,
             LabelValues(mapping, a, r) = LabelValues(mapping, a, q)
      PROVE  k \in a.columns /\ r[k] = q[k]
  <2>1. \A l \in mapping.labels :
          (IF l \in a.columns THEN r[l] ELSE r[a.first])
            = (IF l \in a.columns THEN q[l] ELSE q[a.first])
    <3>1. \A l \in mapping.labels : LabelValues(mapping, a, r)[l] = LabelValues(mapping, a, q)[l]
      BY <1>2, Zenon
    <3> QED
      BY <3>1, Zenon DEF LabelValues
  <2>2. CASE k \in mapping.labels \cap a.columns
    BY <2>1, <2>2
  <2>3. CASE k = a.first /\ k \in a.columns /\ mapping.labels \ a.columns # {}
    <3>1. PICK l \in mapping.labels : l \notin a.columns
      BY <2>3
    <3> QED
      BY <2>1, <2>3, <3>1
  <2> QED
    BY <2>2, <2>3 DEF TellsApart
<1> HIDE DEF row
\* The rows of two columns, of which the first is in the key.
<1>3. ASSUME NEW k1 \in a.key, NEW k2, k1 # k2,
             LabelValues(mapping, a, row(k1)) = LabelValues(mapping, a, row(k2))
      PROVE  FALSE
  <2>1. k1 \in a.columns /\ row(k1)[k1] = row(k2)[k1]
    BY <1>2, <1>3
  <2> QED
    BY <1>1, <1>3, <2>1
<1>4. PICK k1 \in a.key \cup {""} : r1 = row(k1)
  BY Zenon DEF Rows, row
<1>5. PICK k2 \in a.key \cup {""} : r2 = row(k2)
  BY Zenon DEF Rows, row
<1>6. k1 \in a.key \/ k2 \in a.key \/ k1 = k2
  BY Zenon
<1> QED
  BY <1>3, <1>4, <1>5, <1>6, Zenon

\* Metrics of one answer that have name and labels in common are one metric, if no two
\* of the columns they are made of have one name or get one.
LEMMA SeriesTellApart ==
    ASSUME NEW mapping, NEW a, TellsApart(mapping.labels, a),
           a.twice \cap Having(mapping, a, "metric") = {},
           \A c1, c2 \in Having(mapping, a, "metric") :
              MetricName(mapping, c1) = MetricName(mapping, c2) => c1 = c2,
           NEW m1 \in Yield(mapping, a, Rows(a)).metrics,
           NEW m2 \in Yield(mapping, a, Rows(a)).metrics,
           m1.name = m2.name, m1.labels = m2.labels
    PROVE  m1 = m2
<1> DEFINE metricOf(e, row) == [name   |-> MetricName(mapping, e[1]),
                                labels |-> LabelValues(mapping, a, row),
                                of     |-> <<e, row>>]
<1>1. \A m \in Yield(mapping, a, Rows(a)).metrics :
        \E row \in Rows(a) : m \in RowMetrics(mapping, a, row)
  BY DEF Yield
<1>2. \A e \in Emitted(mapping, a) :
        e = <<e[1], 1>> /\ e[1] \in Having(mapping, a, "metric")
  BY DEF Emitted
<1>3. \A row : \A m \in RowMetrics(mapping, a, row) :
        \E e \in Emitted(mapping, a) : m = metricOf(e, row)
  BY Zenon DEF RowMetrics
<1>4. PICK r1 \in Rows(a), e1 \in Emitted(mapping, a) : m1 = metricOf(e1, r1)
  BY <1>1, <1>3, Zenon
<1>5. PICK r2 \in Rows(a), e2 \in Emitted(mapping, a) : m2 = metricOf(e2, r2)
  BY <1>1, <1>3, Zenon
<1>6. e1 = e2
  <2>1. MetricName(mapping, e1[1]) = MetricName(mapping, e2[1])
    BY <1>4, <1>5
  <2>2. e1[1] = e2[1]
    BY <1>2, <2>1
  <2> QED
    BY <1>2, <2>2
<1>7. LabelValues(mapping, a, r1) = LabelValues(mapping, a, r2)
  BY <1>4, <1>5
<1>8. r1 = r2
  BY <1>7, RowsTold
<1> QED
  BY <1>4, <1>5, <1>6, <1>8
-----------------------------------------------------------------------------
\* The tables of columns

Mapping(usage, since, before) == [usage |-> usage, since |-> since, before |-> before]

\* The columns of names are mapped so.
Mapped(columns, names, mapping) ==
    names \subseteq DOMAIN columns /\ \A c \in names : columns[c] = mapping

\* The end of a table.
LEMMA NoMoreEmpty == DOMAIN NoMore = {}
BY DEF NoMore

\* Columns maps its own columns as it says.
LEMMA MappedHere ==
    ASSUME NEW usage, NEW since, NEW before, NEW names, NEW rest
    PROVE  Mapped(Columns(usage, since, before, names, rest), names,
                  Mapping(usage, since, before))
BY DEF Mapped, Columns, Mapping

\* Columns leaves what follows it, if they have no column in common.
LEMMA MappedBefore ==
    ASSUME NEW usage, NEW since, NEW before, NEW names, NEW rest, NEW others, NEW mapping,
           Mapped(rest, others, mapping), names \cap DOMAIN rest = {}
    PROVE  Mapped(Columns(usage, since, before, names, rest), others, mapping)
BY DEF Mapped, Columns

\* The columns of pg_stat_database_conflicts.
LEMMA ConflictsTable ==
    LET columns == builtinColumns("stat_database_conflicts")
        labels == {"datid", "datname"}
        counters == {"confl_tablespace", "confl_lock", "confl_snapshot", "confl_bufferpin",
                     "confl_deadlock"}
    IN /\ Mapped(columns, labels, Mapping("LABEL", 0, Newest))
       /\ Mapped(columns, counters, Mapping("COUNTER", 0, Newest))
       /\ DOMAIN columns = labels \cup counters
BY DEF builtinColumns, Always, Columns, NoMore, Mapped, Mapping

\* The columns of pg_replication_slots.
LEMMA SlotsTable ==
    LET columns == builtinColumns("replication_slots")
        labels == {"slot_name", "database"}
        gauges == {"active", "pg_wal_lsn_diff"}
    IN /\ Mapped(columns, labels, Mapping("LABEL", 0, Newest))
       /\ Mapped(columns, gauges, Mapping("GAUGE", 0, Newest))
       /\ DOMAIN columns = labels \cup gauges
BY DEF builtinColumns, Always, Columns, NoMore, Mapped, Mapping

\* The columns of pg_stat_archiver.
LEMMA ArchiverTable ==
    LET columns == builtinColumns("stat_archiver")
        counters == {"archived_count", "failed_count"}
        gauges == {"last_archive_age"}
        discarded == {"last_archived_wal", "last_archived_time", "last_failed_wal",
                      "last_failed_time", "stats_reset"}
    IN /\ Mapped(columns, counters, Mapping("COUNTER", 0, Newest))
       /\ Mapped(columns, gauges, Mapping("GAUGE", 0, Newest))
       /\ Mapped(columns, discarded, Mapping("DISCARD", 0, Newest))
       /\ DOMAIN columns = counters \cup gauges \cup discarded
BY DEF builtinColumns, Always, Columns, NoMore, Mapped, Mapping

\* The columns of pg_stat_activity.
LEMMA ActivityTable ==
    LET columns == builtinColumns("stat_activity")
        labels == {"datname", "usename", "application_name"}
        gauges == {"count", "max_tx_duration"}
    IN /\ Mapped(columns, labels, Mapping("LABEL", 0, Newest))
       /\ Mapped(columns, {"state"}, Mapping("LABEL", 902, Newest))
       /\ Mapped(columns, gauges, Mapping("GAUGE", 0, Newest))
       /\ DOMAIN columns = labels \cup {"state"} \cup gauges
BY DEF builtinColumns, Always, Columns, NoMore, Mapped, Mapping

Standby == {"application_name", "client_addr", "state"}
Locations == {"sent_location", "write_location", "flush_location", "replay_location"}
Lsns ==
    {"sent_lsn", "write_lsn", "flush_lsn", "replay_lsn", "write_lag", "flush_lag", "replay_lag",
     "pg_current_wal_lsn"}
Lags == {"pg_current_wal_lsn_bytes", "pg_wal_lsn_diff"}
Others ==
    {"usesysid", "usename", "client_hostname", "client_port", "backend_start",
     "backend_xmin", "sync_priority", "sync_state", "plugin", "slot_type", "datoid",
     "database", "active", "active_pid", "xmin", "catalog_xmin", "restart_lsn",
     "pg_current_xlog_location", "confirmed_flush_lsn"}

\* The columns of pg_stat_replication, which builtinColumns puts before one another.
LEMMA ReplicationTable ==
    LET columns == builtinColumns("stat_replication")
    IN /\ Mapped(columns, Standby, Mapping("LABEL", 0, Newest))
       /\ Mapped(columns, {"slot_name"}, Mapping("LABEL", 902, Newest))
       /\ Mapped(columns, Lags, Mapping("GAUGE", 1000, Newest))
       /\ Mapped(columns, {"pg_xlog_location_diff"}, Mapping("GAUGE", 902, 1000))
       /\ Mapped(columns, {"procpid"}, Mapping("DISCARD", 0, 902))
       /\ Mapped(columns, {"pid"}, Mapping("DISCARD", 902, Newest))
       /\ Mapped(columns, Locations, Mapping("DISCARD", 0, 1000))
       /\ Mapped(columns, Lsns, Mapping("DISCARD", 1000, Newest))
       /\ Mapped(columns, Others, Mapping("DISCARD", 0, Newest))
       /\ DOMAIN columns =
            Standby \cup {"slot_name"} \cup Lags \cup {"pg_xlog_location_diff", "procpid", "pid"}
            \cup Locations \cup Lsns \cup Others
<1> DEFINE c9 == Columns("DISCARD", 0, Newest, Others, NoMore)
           c8 == Columns("DISCARD", 1000, Newest, Lsns, c9)
           c7 == Columns("DISCARD", 0, 1000, Locations, c8)
           c6 == Columns("DISCARD", 902, Newest, {"pid"}, c7)
           c5 == Columns("DISCARD", 0, 902, {"procpid"}, c6)
           c4 == Columns("GAUGE", 902, 1000, {"pg_xlog_location_diff"}, c5)
           c3 == Columns("GAUGE", 1000, Newest, Lags, c4)
           c2 == Columns("LABEL", 902, Newest, {"slot_name"}, c3)
           c1 == Columns("LABEL", 0, Newest, Standby, c2)
           Kept(c, d) == \A others, mapping : Mapped(c, others, mapping) => Mapped(d, others, mapping)
<1>1. builtinColumns("stat_replication") = c1
  BY DEF builtinColumns, stat_replication, Always, Others, Lsns, Locations, Lags, Standby
<1>2. DOMAIN c9 = Others
  BY NoMoreEmpty DEF Columns
<1>3. Mapped(c9, Others, Mapping("DISCARD", 0, Newest))
  BY MappedHere
<1> HIDE DEF c9
<1>4. Lsns \cap DOMAIN c9 = {} /\ DOMAIN c8 = Lsns \cup DOMAIN c9
  <2>1. Lsns \cap DOMAIN c9 = {}
    BY <1>2 DEF Lsns, Others
  <2> QED
    BY <2>1 DEF Columns
<1>5. Mapped(c8, Lsns, Mapping("DISCARD", 1000, Newest)) /\ Kept(c9, c8)
  BY <1>4, MappedHere, MappedBefore
<1> HIDE DEF c8
<1>6. Locations \cap DOMAIN c8 = {} /\ DOMAIN c7 = Locations \cup DOMAIN c8
  <2>1. Locations \cap DOMAIN c8 = {}
    BY <1>2, <1>4 DEF Locations, Lsns, Others
  <2> QED
    BY <2>1 DEF Columns
<1>7. Mapped(c7, Locations, Mapping("DISCARD", 0, 1000)) /\ Kept(c8, c7)
  BY <1>6, MappedHere, MappedBefore
<1> HIDE DEF c7
<1>8. {"pid"} \cap DOMAIN c7 = {} /\ DOMAIN c6 = {"pid"} \cup DOMAIN c7
  <2>1. {"pid"} \cap DOMAIN c7 = {}
    BY <1>2, <1>4, <1>6 DEF Locations, Lsns, Others
  <2> QED
    BY <2>1 DEF Columns
<1>9. Mapped(c6, {"pid"}, Mapping("DISCARD", 902, Newest)) /\ Kept(c7, c6)
  BY <1>8, MappedHere, MappedBefore
<1> HIDE DEF c6
<1>10. {"procpid"} \cap DOMAIN c6 = {} /\ DOMAIN c5 = {"procpid"} \cup DOMAIN c6
  <2>1. {"procpid"} \cap DOMAIN c6 = {}
    BY <1>2, <1>4, <1>6, <1>8 DEF Locations, Lsns, Others
  <2> QED
    BY <2>1 DEF Columns
<1>11. Mapped(c5, {"procpid"}, Mapping("DISCARD", 0, 902)) /\ Kept(c6, c5)
  BY <1>10, MappedHere, MappedBefore
<1> HIDE DEF c5
<1>12. {"pg_xlog_location_diff"} \cap DOMAIN c5 = {} /\ DOMAIN c4 = {"pg_xlog_location_diff"} \cup DOMAIN c5
  <2>1. {"pg_xlog_location_diff"} \cap DOMAIN c5 = {}
    BY <1>2, <1>4, <1>6, <1>8, <1>10 DEF Locations, Lsns, Others
  <2> QED
    BY <2>1 DEF Columns
<1>13. Mapped(c4, {"pg_xlog_location_diff"}, Mapping("GAUGE", 902, 1000)) /\ Kept(c5, c4)
  BY <1>12, MappedHere, MappedBefore
<1> HIDE DEF c4
<1>14. Lags \cap DOMAIN c4 = {} /\ DOMAIN c3 = Lags \cup DOMAIN c4
  <2>1. Lags \cap DOMAIN c4 = {}
    BY <1>2, <1>4, <1>6, <1>8, <1>10, <1>12 DEF Lags, Locations, Lsns, Others
  <2> QED
    BY <2>1 DEF Columns
<1>15. Mapped(c3, Lags, Mapping("GAUGE", 1000, Newest)) /\ Kept(c4, c3)
  BY <1>14, MappedHere, MappedBefore
<1> HIDE DEF c3
<1>16. {"slot_name"} \cap DOMAIN c3 = {} /\ DOMAIN c2 = {"slot_name"} \cup DOMAIN c3
  <2>1. {"slot_name"} \cap DOMAIN c3 = {}
    BY <1>2, <1>4, <1>6, <1>8, <1>10, <1>12, <1>14 DEF Lags, Locations, Lsns, Others
  <2> QED
    BY <2>1 DEF Columns
<1>17. Mapped(c2, {"slot_name"}, Mapping("LABEL", 902, Newest)) /\ Kept(c3, c2)
  BY <1>16, MappedHere, MappedBefore
<1> HIDE DEF c2
<1>18. Standby \cap DOMAIN c2 = {} /\ DOMAIN c1 = Standby \cup DOMAIN c2
  <2>1. Standby \cap DOMAIN c2 = {}
    BY <1>2, <1>4, <1>6, <1>8, <1>10, <1>12, <1>14, <1>16 DEF Standby, Lags, Locations, Lsns, Others
  <2> QED
    BY <2>1 DEF Columns
<1>19. Mapped(c1, Standby, Mapping("LABEL", 0, Newest)) /\ Kept(c2, c1)
  BY <1>18, MappedHere, MappedBefore
<1> HIDE DEF c1
<1>20. DOMAIN c1 =
         Standby \cup {"slot_name"} \cup Lags \cup {"pg_xlog_location_diff", "procpid", "pid"}
         \cup Locations \cup Lsns \cup Others
  BY <1>2, <1>4, <1>6, <1>8, <1>10, <1>12, <1>14, <1>16, <1>18
<1>21. /\ Mapped(c1, Standby, Mapping("LABEL", 0, Newest))
       /\ Mapped(c1, {"slot_name"}, Mapping("LABEL", 902, Newest))
       /\ Mapped(c1, Lags, Mapping("GAUGE", 1000, Newest))
       /\ Mapped(c1, {"pg_xlog_location_diff"}, Mapping("GAUGE", 902, 1000))
       /\ Mapped(c1, {"procpid"}, Mapping("DISCARD", 0, 902))
       /\ Mapped(c1, {"pid"}, Mapping("DISCARD", 902, Newest))
       /\ Mapped(c1, Locations, Mapping("DISCARD", 0, 1000))
       /\ Mapped(c1, Lsns, Mapping("DISCARD", 1000, Newest))
       /\ Mapped(c1, Others, Mapping("DISCARD", 0, Newest))
  BY <1>3, <1>5, <1>7, <1>9, <1>11, <1>13, <1>15, <1>17, <1>19
<1> QED
  BY <1>1, <1>20, <1>21
-----------------------------------------------------------------------------
\* The answers to the built-in queries

Usages == {"LABEL", "GAUGE", "COUNTER", "DISCARD"}

\* The built-in maps use four usages only: no HISTOGRAM, MAPPEDMETRIC or DURATION.
LEMMA BuiltinUsages ==
    ASSUME NEW n \in DOMAIN builtinMetricMaps,
           NEW c \in DOMAIN builtinMetricMaps[n].columns
    PROVE  builtinMetricMaps[n].columns[c].usage \in Usages
<1> DEFINE columns == builtinMetricMaps[n].columns
<1>1. columns = builtinColumns(n[2])
  BY DEF builtinMetricMaps
<1>2. n[2] \in {"stat_database_conflicts", "stat_replication", "replication_slots",
                "stat_archiver", "stat_activity"}
  BY DEF builtinMetricMaps
<1>3. \A u, s, b : Mapping(u, s, b).usage = u
  BY DEF Mapping
<1>4. ASSUME NEW cols, NEW names, NEW u \in Usages, NEW s, NEW b, Mapped(cols, names, Mapping(u, s, b)),
             NEW d \in names
      PROVE  cols[d].usage \in Usages
  BY <1>3, <1>4 DEF Mapped
<1>5. "LABEL" \in Usages /\ "GAUGE" \in Usages /\ "COUNTER" \in Usages /\ "DISCARD" \in Usages
  BY DEF Usages
<1>6. CASE n[2] = "stat_database_conflicts"
  BY <1>1, <1>4, <1>5, <1>6, ConflictsTable
<1>7. CASE n[2] = "stat_replication"
  BY <1>1, <1>4, <1>5, <1>7, ReplicationTable
<1>8. CASE n[2] = "replication_slots"
  BY <1>1, <1>4, <1>5, <1>8, SlotsTable
<1>9. CASE n[2] = "stat_archiver"
  BY <1>1, <1>4, <1>5, <1>9, ArchiverTable
<1>10. CASE n[2] = "stat_activity"
  BY <1>1, <1>4, <1>5, <1>10, ActivityTable
<1> QED
  BY <1>2, <1>6, <1>7, <1>8, <1>9, <1>10

\* What Treatment makes of these usages.
LEMMA Treated ==
    ASSUME NEW v, NEW since, NEW before
    PROVE  /\ Treatment(Mapping("LABEL", since, before), v) = "discard"
           /\ Treatment(Mapping("DISCARD", since, before), v) = "discard"
           /\ \A usage \in {"GAUGE", "COUNTER"} :
                Treatment(Mapping(usage, since, before), v) =
                    IF since <= v /\ v < before THEN "value" ELSE "discard"
BY DEF Treatment, Mapping, InRange

Treats(columns, v, treatment) == {c \in DOMAIN columns : Treatment(columns[c], v) = treatment}

LabelsOf(columns) == {c \in DOMAIN columns : columns[c].usage = "LABEL"}

\* Every column of the answer is discarded or a number.
Fits(columns, v, a) ==
    /\ a.arrays = {}
    /\ a.text \subseteq Treats(columns, v, "discard")

\* An answer that fits a map is exposed without an error, under the labels of the map.
LEMMA FitYields ==
    ASSUME NEW map, NEW v, NEW a, NEW rows, Fits(map.columns, v, a),
           \A c \in DOMAIN map.columns : map.columns[c].usage \in Usages
    PROVE  LET d == DescMap(map, v, {}) IN
           /\ Yield(d, a, rows).status = "ok"
           /\ Yield(d, a, rows).errors = {}
           /\ d.labels = LabelsOf(map.columns)
           /\ {c \in DOMAIN d.columns : d.columns[c] = "value"} = Treats(map.columns, v, "value")
<1> DEFINE d == DescMap(map, v, {})
           treated == [c \in DOMAIN map.columns |-> Treatment(map.columns[c], v)]
<1>1. \A c \in DOMAIN map.columns : Treatment(map.columns[c], v) \in {"discard", "value"}
  BY DEF Treatment, Usages
<1>2. d.columns = treated /\ d.labels = LabelsOf(map.columns)
  <2>1. {c \in DOMAIN map.columns : Treatment(map.columns[c], v) = "histogram"} = {}
    BY <1>1
  <2> QED
    BY <2>1 DEF DescMap, LabelsOf
<1>3. {c \in DOMAIN d.columns : d.columns[c] = "value"} = Treats(map.columns, v, "value")
  BY <1>2 DEF Treats
<1>4. \A c \in a.columns : Fate(d, a, c) \in {"nothing", "metric"}
  <2> SUFFICES ASSUME NEW c \in a.columns
               PROVE  Fate(d, a, c) \in {"nothing", "metric"}
    OBVIOUS
  <2>1. c \notin a.text => IsNumber(a, c)
    BY DEF Fits, IsNumber
  <2>2. c \in a.text => c \in DOMAIN map.columns /\ Treatment(map.columns[c], v) = "discard"
    BY DEF Fits, Treats
  <2> HIDE DEF d
  <2>3. CASE c \notin DOMAIN map.columns
    BY <1>2, <2>1, <2>2, <2>3 DEF Fate
  <2>4. CASE c \in DOMAIN map.columns
    BY <1>1, <1>2, <2>1, <2>2, <2>4 DEF Fate
  <2> QED
    BY <2>3, <2>4
<1> HIDE DEF d
<1>5. Having(d, a, "fatal") = {} /\ Having(d, a, "nonfatal") = {}
  BY <1>4 DEF Having
<1>6. Yield(d, a, rows).status = "ok" /\ Yield(d, a, rows).errors = {}
  BY <1>5 DEF Yield
<1> QED
  BY <1>2, <1>3, <1>6 DEF d
-----------------------------------------------------------------------------
\* The queries at each version

Replication == <<"pg", "stat_replication">>
Slots == <<"pg", "replication_slots">>
Archiver == <<"pg", "stat_archiver">>
Activity == <<"pg", "stat_activity">>
Conflicts == <<"pg", "stat_database_conflicts">>

\* The ranges of versions of queryOverrides.
LEMMA OverrideTable ==
    /\ DOMAIN overrides = {Replication, Slots, Archiver, Activity}
    /\ overrides[Replication] = {Between(1000, Newest), Between(902, 1000), Between(0, 902)}
    /\ overrides[Slots] = {Between(904, 1000), Between(1000, Newest)}
    /\ overrides[Archiver] = {Between(904, Newest)}
    /\ overrides[Activity] = {Between(902, Newest), Between(0, 902)}
<1>1. DOMAIN overrides = {Replication, Slots, Archiver, Activity}
  BY DEF overrides, Replication, Slots, Archiver, Activity
<1>2. /\ Replication[2] = "stat_replication" /\ Slots[2] = "replication_slots"
      /\ Archiver[2] = "stat_archiver" /\ Activity[2] = "stat_activity"
  BY DEF Replication, Slots, Archiver, Activity
<1>3. \A ns \in DOMAIN overrides :
        /\ ns[2] = "stat_replication" =>
             overrides[ns] = {Between(1000, Newest), Between(902, 1000), Between(0, 902)}
        /\ ns[2] = "replication_slots" => overrides[ns] = {Between(904, 1000), Between(1000, Newest)}
        /\ ns[2] = "stat_archiver" => overrides[ns] = {Between(904, Newest)}
        /\ ns[2] = "stat_activity" => overrides[ns] = {Between(902, Newest), Between(0, 902)}
  BY DEF overrides
<1> QED
  BY <1>1, <1>2, <1>3

\* A query for a range of versions is in it, and is not the empty query.
LEMMA BetweenRange ==
    ASSUME NEW since, NEW before, NEW v
    PROVE  /\ InRange(Between(since, before), v) <=> since <= v /\ v < before
           /\ Between(since, before).since = since
           /\ Between(since, before) # Disabled
BY DEF InRange, Between, Disabled

\* makeQueryOverrideMap chooses the one query in range, and Disabled without one.
LEMMA QueryChosen ==
    ASSUME NEW ns \in DOMAIN overrides, NEW v
    PROVE  /\ \A q \in overrides[ns] :
                InRange(q, v) /\ (\A r \in overrides[ns] : InRange(r, v) => r = q)
                  => makeQueryOverrideMap(v)[ns] = q
           /\ (\A r \in overrides[ns] : ~InRange(r, v)) => makeQueryOverrideMap(v)[ns] = Disabled
<1>1. makeQueryOverrideMap(v)[ns] =
        IF \E q \in overrides[ns] : InRange(q, v)
        THEN CHOOSE q \in overrides[ns] : InRange(q, v)
        ELSE Disabled
  BY DEF makeQueryOverrideMap
<1> QED
  BY <1>1

\* The query for each overridden namespace at each version: no ranges overlap, and only
\* slots and the archiver have a version, below 9.4, that no range has.
LEMMA QueryAt ==
    ASSUME NEW v \in 901..(Newest - 1)
    PROVE  LET q == makeQueryOverrideMap(v) IN
           /\ q[Replication] = IF v >= 1000 THEN Between(1000, Newest)
                               ELSE IF v >= 902 THEN Between(902, 1000) ELSE Between(0, 902)
           /\ q[Slots] = IF v >= 1000 THEN Between(1000, Newest)
                         ELSE IF v >= 904 THEN Between(904, 1000) ELSE Disabled
           /\ q[Archiver] = IF v >= 904 THEN Between(904, Newest) ELSE Disabled
           /\ q[Activity] = IF v >= 902 THEN Between(902, Newest) ELSE Between(0, 902)
<1> DEFINE q == makeQueryOverrideMap(v)
<1>v. v \in Int /\ 0 <= v /\ 901 <= v /\ v < Newest
  BY DEF Newest
<1>r. \A s, b : InRange(Between(s, b), v) <=> s <= v /\ v < b
  BY BetweenRange
<1> HIDE DEF q
<1>1. q[Replication] = IF v >= 1000 THEN Between(1000, Newest)
                       ELSE IF v >= 902 THEN Between(902, 1000) ELSE Between(0, 902)
  BY <1>v, <1>r, OverrideTable, QueryChosen DEF q
<1>2. q[Slots] = IF v >= 1000 THEN Between(1000, Newest)
                 ELSE IF v >= 904 THEN Between(904, 1000) ELSE Disabled
  BY <1>v, <1>r, OverrideTable, QueryChosen DEF q
<1>3. q[Archiver] = IF v >= 904 THEN Between(904, Newest) ELSE Disabled
  BY <1>v, <1>r, OverrideTable, QueryChosen DEF q
<1>4. q[Activity] = IF v >= 902 THEN Between(902, Newest) ELSE Between(0, 902)
  BY <1>v, <1>r, OverrideTable, QueryChosen DEF q
<1> QED
  BY <1>1, <1>2, <1>3, <1>4 DEF q
-----------------------------------------------------------------------------
\* What each view has fits the table of its columns

\* What an answer is made of.
LEMMA AnswerFields ==
    ASSUME NEW first, NEW others, NEW text, NEW key
    PROVE  LET a == Answer(first, others, text, key) IN
           /\ a.first = first /\ a.columns = {first} \cup others /\ a.text = text
           /\ a.twice = {} /\ a.arrays = {} /\ a.key = key
           /\ a # Fails
<1> DEFINE a == Answer(first, others, text, key)
<1>1. /\ a.first = first /\ a.columns = {first} \cup others /\ a.text = text
      /\ a.twice = {} /\ a.arrays = {} /\ a.key = key
  BY DEF Answer
<1>2. Fails.columns = {}
  BY Zenon DEF Fails
<1> HIDE DEF a
<1>3. a # Fails
  BY <1>1, <1>2
<1> QED
  BY <1>1, <1>3 DEF a

\* The labels and the values that columns ask for at version v.
Wanted(columns, v) == LabelsOf(columns) \cup Treats(columns, v, "value")

\* A gauge is wanted within its range of versions, and discarded outside of it.
LEMMA GaugeTreated ==
    ASSUME NEW columns, NEW v, NEW names, NEW since, NEW before,
           Mapped(columns, names, Mapping("GAUGE", since, before))
    PROVE  /\ since <= v /\ v < before => names \subseteq Wanted(columns, v)
           /\ ~(since <= v /\ v < before) =>
                names \cap Wanted(columns, v) = {} /\ names \subseteq Treats(columns, v, "discard")
<1>1. Mapping("GAUGE", since, before).usage = "GAUGE"
  BY DEF Mapping
<1>2. Treatment(Mapping("GAUGE", since, before), v) =
        IF since <= v /\ v < before THEN "value" ELSE "discard"
  BY Treated
<1> QED
  BY <1>1, <1>2 DEF Mapped, Wanted, LabelsOf, Treats

\* SELECT * FROM pg_stat_database_conflicts fits its map and lacks no column, the
\* new one of 16 is a number.
LEMMA ConflictsFits ==
    ASSUME NEW v \in 901..(Newest - 1)
    PROVE  LET a == ViewAnswer(Conflicts, v)
               columns == builtinColumns("stat_database_conflicts")
           IN a # Fails /\ Fits(columns, v, a) /\ Wanted(columns, v) \ a.columns = {}
<1> DEFINE a == stat_database_conflicts_view(v)
           columns == builtinColumns("stat_database_conflicts")
           others == {"datname", "confl_tablespace", "confl_lock", "confl_snapshot",
                      "confl_bufferpin", "confl_deadlock"}
                     \cup From(1600, v, {"confl_active_logicalslot"})
<1>1. ViewAnswer(Conflicts, v) = a
  BY DEF ViewAnswer, Views, Conflicts
<1>2. /\ a.columns = {"datid"} \cup others /\ a.text = {"datname"} /\ a.arrays = {} /\ a # Fails
  BY AnswerFields DEF stat_database_conflicts_view
<1> HIDE DEF a
<1>3. v \in Int /\ 0 \in Int /\ 0 <= v /\ v < Newest /\ Newest \in Int
  BY DEF Newest
<1>4. /\ Mapped(columns, {"datid", "datname"}, Mapping("LABEL", 0, Newest))
      /\ DOMAIN columns = {"datid", "datname"} \cup
           {"confl_tablespace", "confl_lock", "confl_snapshot", "confl_bufferpin", "confl_deadlock"}
  BY ConflictsTable
<1> HIDE DEF columns
<1>5. {"datid", "datname"} \subseteq Treats(columns, v, "discard")
  BY <1>3, <1>4 DEF Mapped, Mapping, Treatment, Treats, Wanted, LabelsOf
<1>6. DOMAIN columns \subseteq a.columns
  BY <1>2, <1>4
<1>7. Wanted(columns, v) \subseteq DOMAIN columns
  BY DEF Wanted, LabelsOf, Treats
<1> QED
  BY <1>1, <1>2, <1>5, <1>6, <1>7 DEF Fits, columns

\* So does the query for pg_stat_archiver.
LEMMA ArchiverFits ==
    LET a == stat_archiver_view
        columns == builtinColumns("stat_archiver")
    IN \A v \in 901..(Newest - 1) :
         a # Fails /\ Fits(columns, v, a) /\ Wanted(columns, v) \ a.columns = {}
<1> DEFINE a == stat_archiver_view
           columns == builtinColumns("stat_archiver")
           discarded == {"last_archived_wal", "last_archived_time", "last_failed_wal",
                         "last_failed_time", "stats_reset"}
<1> SUFFICES ASSUME NEW v \in 901..(Newest - 1)
             PROVE  a # Fails /\ Fits(columns, v, a) /\ Wanted(columns, v) \ a.columns = {}
  OBVIOUS
<1>1. v \in Int /\ 0 \in Int /\ 0 <= v /\ v < Newest /\ Newest \in Int
  BY DEF Newest
<1>2. /\ a.columns = {"archived_count"} \cup
           {"last_archived_wal", "last_archived_time", "failed_count", "last_failed_wal",
            "last_failed_time", "stats_reset", "last_archive_age"}
      /\ a.text = {"last_archived_wal", "last_failed_wal"} /\ a.arrays = {} /\ a # Fails
  BY AnswerFields DEF stat_archiver_view
<1> HIDE DEF a
<1>3. /\ Mapped(columns, discarded, Mapping("DISCARD", 0, Newest))
      /\ DOMAIN columns = {"archived_count", "failed_count"} \cup {"last_archive_age"} \cup discarded
  BY ArchiverTable
<1> HIDE DEF columns
<1>4. discarded \subseteq Treats(columns, v, "discard")
  BY <1>3 DEF Mapped, Mapping, Treatment, Treats, Wanted, LabelsOf
<1>5. DOMAIN columns \subseteq a.columns
  BY <1>2, <1>3
<1>6. Wanted(columns, v) \subseteq DOMAIN columns
  BY DEF Wanted, LabelsOf, Treats
<1> QED
  BY <1>2, <1>4, <1>5, <1>6 DEF Fits

\* So do both queries for pg_stat_activity.
LEMMA ActivityFits ==
    ASSUME NEW query, NEW v \in 901..(Newest - 1)
    PROVE  LET a == stat_activity_view(query)
               columns == builtinColumns("stat_activity")
           IN a # Fails /\ Fits(columns, v, a) /\ Wanted(columns, v) \ a.columns = {}
<1> DEFINE a == stat_activity_view(query)
           columns == builtinColumns("stat_activity")
           labels == {"datname", "state", "usename", "application_name"}
<1>1. v \in Int /\ 0 \in Int /\ 902 \in Int /\ Newest \in Int
  BY DEF Newest
<1>2. /\ a.columns = {"datname"} \cup (labels \cup {"count", "max_tx_duration"})
      /\ a.text = labels /\ a.arrays = {} /\ a # Fails
  BY AnswerFields DEF stat_activity_view
<1> HIDE DEF a
<1>3. /\ Mapped(columns, {"datname", "usename", "application_name"}, Mapping("LABEL", 0, Newest))
      /\ Mapped(columns, {"state"}, Mapping("LABEL", 902, Newest))
      /\ DOMAIN columns = {"datname", "usename", "application_name"} \cup {"state"}
                          \cup {"count", "max_tx_duration"}
  BY ActivityTable
<1> HIDE DEF columns
<1>4. /\ {"datname", "usename", "application_name"} \subseteq Treats(columns, v, "discard")
      /\ {"state"} \subseteq Treats(columns, v, "discard")
  <2>1. Mapped(columns, {"datname", "usename", "application_name"}, Mapping("LABEL", 0, Newest))
    BY <1>3
  <2>2. {"datname", "usename", "application_name"} \subseteq Treats(columns, v, "discard")
    BY <2>1 DEF Mapped, Mapping, Treatment, Treats, Wanted, LabelsOf
  <2>3. Mapped(columns, {"state"}, Mapping("LABEL", 902, Newest))
    BY <1>3
  <2>4. {"state"} \subseteq Treats(columns, v, "discard")
    BY <2>3 DEF Mapped, Mapping, Treatment, Treats, Wanted, LabelsOf
  <2> QED
    BY <2>2, <2>4
<1>5. DOMAIN columns \subseteq a.columns
  BY <1>2, <1>3
<1>6. Wanted(columns, v) \subseteq DOMAIN columns
  BY DEF Wanted, LabelsOf, Treats
<1> QED
  BY <1>2, <1>4, <1>5, <1>6 DEF Fits, columns, a

\* So do those for pg_replication_slots, but that the lag has another name before 10.
LEMMA SlotsFits ==
    ASSUME NEW query, NEW v \in 901..(Newest - 1), WalNames(query) <=> v >= 1000
    PROVE  LET a == replication_slots_view(query)
               columns == builtinColumns("replication_slots")
           IN /\ a # Fails /\ Fits(columns, v, a)
              /\ Wanted(columns, v) \ a.columns = Lacking(Slots, v)
<1> DEFINE a == replication_slots_view(query)
           columns == builtinColumns("replication_slots")
           diff == IF WalNames(query) THEN "pg_wal_lsn_diff" ELSE "pg_xlog_location_diff"
<1>1. v \in Int /\ 0 \in Int /\ 0 <= v /\ v < Newest /\ Newest \in Int
  BY DEF Newest
<1>2. /\ a.columns = {"slot_name"} \cup {"database", "active", diff}
      /\ a.text = {"slot_name", "database"} /\ a.arrays = {} /\ a # Fails
  BY AnswerFields DEF replication_slots_view
<1> HIDE DEF a
<1>3. /\ Mapped(columns, {"slot_name", "database"}, Mapping("LABEL", 0, Newest))
      /\ Mapped(columns, {"active", "pg_wal_lsn_diff"}, Mapping("GAUGE", 0, Newest))
      /\ DOMAIN columns = {"slot_name", "database"} \cup {"active", "pg_wal_lsn_diff"}
  BY SlotsTable
<1> HIDE DEF columns
<1>4. {"slot_name", "database"} \subseteq Treats(columns, v, "discard")
  BY <1>3 DEF Mapped, Mapping, Treatment, Treats, Wanted, LabelsOf
<1>5. Wanted(columns, v) = {"slot_name", "database", "active", "pg_wal_lsn_diff"}
  <2>1. Wanted(columns, v) \subseteq DOMAIN columns
    BY DEF Wanted, LabelsOf, Treats
  <2>2. {"slot_name", "database"} \subseteq Wanted(columns, v)
    BY <1>3 DEF Mapped, Mapping, Treatment, Treats, Wanted, LabelsOf
  <2>3. {"active", "pg_wal_lsn_diff"} \subseteq Wanted(columns, v)
    BY <1>1, <1>3, GaugeTreated
  <2> QED
    BY <1>3, <2>1, <2>2, <2>3
<1>6. Wanted(columns, v) \ a.columns = IF v >= 1000 THEN {} ELSE {"pg_wal_lsn_diff"}
  BY <1>2, <1>5
<1>7. Lacking(Slots, v) = IF v >= 1000 THEN {} ELSE {"pg_wal_lsn_diff"}
  BY <1>1 DEF Lacking, Slots
<1> QED
  BY <1>2, <1>4, <1>6, <1>7 DEF Fits, columns, a

\* So do those for pg_stat_replication, each at the versions that it is for, but for
\* slot_name: the ranges of 18 columns and the columns of the view change together.
LEMMA ReplicationFits ==
    ASSUME NEW query, NEW v \in 901..(Newest - 1),
           WalNames(query) <=> v >= 1000, XlogDiff(query) <=> v \in 902..999
    PROVE  LET a == stat_replication_view(query, v)
               columns == builtinColumns("stat_replication")
           IN /\ a # Fails /\ Fits(columns, v, a)
              /\ Wanted(columns, v) \ a.columns = {"slot_name"}
<1> DEFINE a == stat_replication_view(query, v)
           columns == builtinColumns("stat_replication")
           locations == Until(1000, v, {"sent_location", "write_location", "flush_location",
                                        "replay_location"})
           lsns == From(1000, v, {"sent_lsn", "write_lsn", "flush_lsn", "replay_lsn",
                                  "write_lag", "flush_lag", "replay_lag"})
           current == IF WalNames(query) THEN {"pg_current_wal_lsn"} ELSE {"pg_current_xlog_location"}
           text == {"usename", "application_name", "client_addr", "client_hostname",
                    "state", "sync_state"} \cup locations \cup lsns \cup current
           diff == IF XlogDiff(query) THEN {"pg_xlog_location_diff"} ELSE {}
           lags == IF WalNames(query) THEN {"pg_current_wal_lsn_bytes", "pg_wal_lsn_diff"} ELSE {}
           xmin == From(904, v, {"backend_xmin"})
           reply == From(1200, v, {"reply_time"})
           numbers == {"usesysid", "client_port", "backend_start", "sync_priority"}
                      \cup xmin \cup reply \cup diff \cup lags
           pid == IF v < 902 THEN "procpid" ELSE "pid"
<1>1. /\ v \in Int /\ 0 \in Int /\ 902 \in Int /\ 1000 \in Int /\ Newest \in Int
      /\ 0 <= v /\ v < Newest
  BY DEF Newest
<1>2. /\ a.columns = {pid} \cup (text \cup numbers)
      /\ a.text = text /\ a.arrays = {} /\ a # Fails
  <2>1. a = Answer(pid, text \cup numbers, text, {pid})
    BY Zenon DEF stat_replication_view
  <2> HIDE DEF a, pid, text, numbers
  <2> QED
    BY <2>1, AnswerFields
<1>3. /\ locations \subseteq Locations /\ lsns \subseteq Lsns
      /\ xmin \subseteq {"backend_xmin"} /\ reply \subseteq {"reply_time"}
  BY DEF From, Until, Locations, Lsns
<1> HIDE DEF a, locations, lsns, xmin, reply
<1>4. text \subseteq Standby \cup Others \cup Locations \cup Lsns
  <2>1. current \subseteq Others \cup Lsns
    BY DEF Others, Lsns
  <2>2. {"usename", "application_name", "client_addr", "client_hostname", "state", "sync_state"}
          \subseteq Standby \cup Others
    BY DEF Standby, Others
  <2> QED
    BY <1>3, <2>1, <2>2
<1>5. "slot_name" \notin a.columns
  BY <1>2, <1>3 DEF Locations, Lsns
<1>6. Standby \subseteq a.columns
  BY <1>2 DEF Standby
<1>7. /\ v >= 1000 => Lags \subseteq a.columns
      /\ v \in 902..999 => "pg_xlog_location_diff" \in a.columns
  BY <1>2 DEF Lags
<1> HIDE DEF text, numbers
<1> DEFINE wanted == Wanted(columns, v)
           discarded == Treats(columns, v, "discard")
<1>8. Standby \subseteq wanted /\ Standby \subseteq discarded
  BY ReplicationTable DEF Mapped, Mapping, Treatment, Treats, Wanted, LabelsOf
<1>9. {"slot_name"} \subseteq wanted
  BY ReplicationTable DEF Mapped, Mapping, Treatment, Treats, Wanted, LabelsOf
<1>10. Others \cap wanted = {} /\ Others \subseteq discarded
  <2>1. Mapped(columns, Others, Mapping("DISCARD", 0, Newest))
    BY ReplicationTable
  <2> QED
    BY <2>1 DEF Mapped, Mapping, Treatment, Treats, Wanted, LabelsOf
<1>11. Locations \cap wanted = {} /\ Locations \subseteq discarded
  <2>1. Mapped(columns, Locations, Mapping("DISCARD", 0, 1000))
    BY ReplicationTable
  <2> QED
    BY <2>1 DEF Mapped, Mapping, Treatment, Treats, Wanted, LabelsOf
<1>12. Lsns \cap wanted = {} /\ Lsns \subseteq discarded
  <2>1. Mapped(columns, Lsns, Mapping("DISCARD", 1000, Newest))
    BY ReplicationTable
  <2> QED
    BY <2>1 DEF Mapped, Mapping, Treatment, Treats, Wanted, LabelsOf
<1>13. {"procpid"} \cap wanted = {} /\ {"pid"} \cap wanted = {}
  <2>1. {"procpid"} \cap wanted = {}
    BY ReplicationTable DEF Mapped, Mapping, Treatment, Treats, Wanted, LabelsOf
  <2>2. {"pid"} \cap wanted = {}
    BY ReplicationTable DEF Mapped, Mapping, Treatment, Treats, Wanted, LabelsOf
  <2> QED
    BY <2>1, <2>2
<1>14. IF v >= 1000 THEN Lags \subseteq wanted ELSE Lags \cap wanted = {}
  BY <1>1, ReplicationTable, GaugeTreated
<1>15. IF v \in 902..999 THEN {"pg_xlog_location_diff"} \subseteq wanted
                         ELSE {"pg_xlog_location_diff"} \cap wanted = {}
  BY <1>1, ReplicationTable, GaugeTreated
<1>16. wanted \subseteq
         Standby \cup {"slot_name"} \cup Lags \cup {"pg_xlog_location_diff", "procpid", "pid"}
         \cup Locations \cup Lsns \cup Others
  <2>1. wanted \subseteq DOMAIN columns
    BY DEF Wanted, LabelsOf, Treats
  <2> QED
    BY <2>1, ReplicationTable
<1> HIDE DEF wanted, discarded
<1>17. wanted \ a.columns = {"slot_name"}
  BY <1>5, <1>6, <1>7, <1>8, <1>9, <1>10, <1>11, <1>12, <1>13, <1>14, <1>15, <1>16
<1>18. a.text \subseteq discarded
  BY <1>2, <1>4, <1>8, <1>10, <1>11, <1>12
<1> HIDE DEF columns
<1>19. Fits(columns, v, a)
  <2>1. a.arrays = {} /\ a.text \subseteq Treats(columns, v, "discard")
    BY <1>2, <1>18 DEF discarded
  <2> QED
    BY <2>1 DEF Fits
<1>20. Wanted(columns, v) \ a.columns = {"slot_name"}
  BY <1>17 DEF wanted
<1> QED
  BY <1>2, <1>19, <1>20, Zenon DEF a, columns
-----------------------------------------------------------------------------
\* Every built-in namespace fits, at every version

\* A server that is not in recovery.
Primary == FALSE

\* The answer of a primary to the built-in namespace n, with the queries for version v.
AnswerAt(n, v) ==
    IF n \in DOMAIN overrides THEN BuiltinAnswer(n, makeQueryOverrideMap(v)[n], v, Primary)
                              ELSE ViewAnswer(n, v)

FitsAt(n, v) ==
    IF n \in Views(v)
    THEN /\ n \in DOMAIN overrides => makeQueryOverrideMap(v)[n] # Disabled
         /\ AnswerAt(n, v) # Fails
         /\ Fits(builtinMetricMaps[n].columns, v, AnswerAt(n, v))
         /\ Wanted(builtinMetricMaps[n].columns, v) \ AnswerAt(n, v).columns = Lacking(n, v)
    ELSE n \in DOMAIN overrides /\ makeQueryOverrideMap(v)[n] = Disabled

\* The built-in namespaces and their tables.
LEMMA BuiltinNames ==
    /\ DOMAIN builtinMetricMaps = {Conflicts, Replication, Slots, Archiver, Activity}
    /\ builtinMetricMaps[Conflicts].columns = builtinColumns("stat_database_conflicts")
    /\ builtinMetricMaps[Replication].columns = builtinColumns("stat_replication")
    /\ builtinMetricMaps[Slots].columns = builtinColumns("replication_slots")
    /\ builtinMetricMaps[Archiver].columns = builtinColumns("stat_archiver")
    /\ builtinMetricMaps[Activity].columns = builtinColumns("stat_activity")
<1>1. DOMAIN builtinMetricMaps = {Conflicts, Replication, Slots, Archiver, Activity}
  BY DEF builtinMetricMaps, Conflicts, Replication, Slots, Archiver, Activity
<1>2. \A n \in DOMAIN builtinMetricMaps : builtinMetricMaps[n].columns = builtinColumns(n[2])
  BY DEF builtinMetricMaps
<1>3. /\ Conflicts[2] = "stat_database_conflicts" /\ Replication[2] = "stat_replication"
      /\ Slots[2] = "replication_slots" /\ Archiver[2] = "stat_archiver"
      /\ Activity[2] = "stat_activity"
  BY DEF Conflicts, Replication, Slots, Archiver, Activity
<1> QED
  BY <1>1, <1>2, <1>3

\* Different names.
LEMMA DifferentNames ==
    /\ Conflicts # Replication /\ Conflicts # Slots /\ Conflicts # Archiver
    /\ Conflicts # Activity /\ Replication # Slots /\ Replication # Archiver
    /\ Replication # Activity /\ Slots # Archiver /\ Slots # Activity /\ Archiver # Activity
BY DEF Conflicts, Replication, Slots, Archiver, Activity

\* What a query of the exporter is answered, by namespace.
LEMMA BuiltinAnswers ==
    ASSUME NEW q, NEW v, NEW recovering
    PROVE  /\ BuiltinAnswer(Replication, q, v, recovering) =
                IF FunctionsExist(q, v) THEN stat_replication_view(q, v) ELSE Fails
           /\ BuiltinAnswer(Slots, q, v, recovering) =
                IF FunctionsExist(q, v) /\ Slots \in Views(v) /\ ~recovering
                THEN replication_slots_view(q) ELSE Fails
           /\ BuiltinAnswer(Archiver, q, v, recovering) =
                IF Archiver \in Views(v) THEN stat_archiver_view ELSE Fails
           /\ BuiltinAnswer(Activity, q, v, recovering) =
                IF q.since = 902 => v >= 902 THEN stat_activity_view(q) ELSE Fails
<1>1. BuiltinAnswer(Replication, q, v, recovering) =
        IF FunctionsExist(q, v) THEN stat_replication_view(q, v) ELSE Fails
  <2>1. Replication # Slots /\ Replication # Archiver /\ Replication # Activity
    BY DifferentNames
  <2> QED
    BY <2>1 DEF BuiltinAnswer, Replication, Slots, Archiver, Activity
<1>2. BuiltinAnswer(Slots, q, v, recovering) =
        IF FunctionsExist(q, v) /\ Slots \in Views(v) /\ ~recovering
        THEN replication_slots_view(q) ELSE Fails
  <2>1. Slots # Replication /\ Slots # Archiver /\ Slots # Activity
    BY DifferentNames
  <2> QED
    BY <2>1 DEF BuiltinAnswer, Replication, Slots, Archiver, Activity
<1>3. BuiltinAnswer(Archiver, q, v, recovering) =
        IF Archiver \in Views(v) THEN stat_archiver_view ELSE Fails
  <2>1. Archiver # Replication /\ Archiver # Slots /\ Archiver # Activity
    BY DifferentNames
  <2> QED
    BY <2>1 DEF BuiltinAnswer, Replication, Slots, Archiver, Activity
<1>4. BuiltinAnswer(Activity, q, v, recovering) =
        IF q.since = 902 => v >= 902 THEN stat_activity_view(q) ELSE Fails
  <2>1. Activity # Replication /\ Activity # Slots /\ Activity # Archiver
    BY DifferentNames
  <2> QED
    BY <2>1 DEF BuiltinAnswer, Replication, Slots, Archiver, Activity
<1> QED
  BY <1>1, <1>2, <1>3, <1>4

\* Recovery makes no difference but to the query of pg_replication_slots.
LEMMA RecoveryAnswers ==
    ASSUME NEW n, NEW q, NEW v, NEW recovering
    PROVE  /\ ~(n = Slots /\ recovering) =>
                BuiltinAnswer(n, q, v, recovering) = BuiltinAnswer(n, q, v, Primary)
           /\ n = Slots /\ recovering => BuiltinAnswer(n, q, v, recovering) = Fails
<1>1. n # Slots => BuiltinAnswer(n, q, v, recovering) = BuiltinAnswer(n, q, v, Primary)
  BY DEF BuiltinAnswer, Slots
<1>2. /\ BuiltinAnswer(Slots, q, v, recovering) =
           IF FunctionsExist(q, v) /\ Slots \in Views(v) /\ ~recovering
           THEN replication_slots_view(q) ELSE Fails
      /\ BuiltinAnswer(Slots, q, v, Primary) =
           IF FunctionsExist(q, v) /\ Slots \in Views(v) /\ ~Primary
           THEN replication_slots_view(q) ELSE Fails
  BY BuiltinAnswers
<1> QED
  BY <1>1, <1>2 DEF Primary

\* The views of each version.
LEMMA ViewsAt ==
    ASSUME NEW v \in 901..(Newest - 1)
    PROVE  /\ {Conflicts, Replication, Activity} \subseteq Views(v)
           /\ Slots \in Views(v) <=> v >= 904
           /\ Archiver \in Views(v) <=> v >= 904
<1>1. Views(v) = {Conflicts, Replication, Activity} \cup From(904, v, {Slots, Archiver})
  BY Zenon DEF Views, Conflicts, Replication, Slots, Archiver, Activity
<1> QED
  BY <1>1, DifferentNames DEF From

\* At every version, each built-in namespace has a query that runs and whose answer fits
\* its map, or PostgreSQL does not have the view and it is disabled.
LEMMA BuiltinFits ==
    ASSUME NEW n \in DOMAIN builtinMetricMaps, NEW v \in 901..(Newest - 1)
    PROVE  FitsAt(n, v)
<1> DEFINE q == makeQueryOverrideMap(v)
<1>v. v \in Int /\ 901 <= v
  BY DEF Newest
<1>1. CASE n = Conflicts
  <2>1. n \notin DOMAIN overrides /\ n \in Views(v)
    BY <1>1, OverrideTable, DifferentNames, ViewsAt
  <2>2. AnswerAt(n, v) = ViewAnswer(Conflicts, v)
    BY <1>1, <2>1 DEF AnswerAt
  <2>3. Lacking(n, v) = {}
    BY <1>1 DEF Lacking, Conflicts
  <2> QED
    BY <1>1, <2>1, <2>2, <2>3, ConflictsFits, BuiltinNames DEF FitsAt
<1>2. CASE n = Activity
  <2>1. n \in DOMAIN overrides /\ n \in Views(v)
    BY <1>2, OverrideTable, ViewsAt
  <2>2. q[n] # Disabled /\ (q[n].since = 902 => v >= 902)
    BY <1>v, <1>2, QueryAt, BetweenRange
  <2>3. AnswerAt(n, v) = stat_activity_view(q[n])
    <3>1. BuiltinAnswer(n, q[n], v, Primary) = stat_activity_view(q[n])
      BY <1>2, <2>2, BuiltinAnswers
    <3> QED
      BY <2>1, <3>1 DEF AnswerAt
  <2>4. Lacking(n, v) = {}
    BY <1>2 DEF Lacking, Activity
  <2> HIDE DEF q
  <2> QED
    BY <1>2, <2>1, <2>2, <2>3, <2>4, ActivityFits, BuiltinNames DEF FitsAt, q
<1>3. CASE n = Archiver
  <2>1. n \in DOMAIN overrides
    BY <1>3, OverrideTable
  <2>2. CASE v >= 904
    <3>1. q[n] # Disabled /\ n \in Views(v)
      BY <1>3, <2>2, QueryAt, BetweenRange, ViewsAt
    <3>2. BuiltinAnswer(n, q[n], v, Primary) = stat_archiver_view
      BY <1>3, <3>1, BuiltinAnswers
    <3>3. AnswerAt(n, v) = stat_archiver_view
      BY <2>1, <3>2 DEF AnswerAt
    <3>4. Lacking(n, v) = {}
      BY <1>3 DEF Lacking, Archiver
    <3> QED
      BY <1>3, <3>1, <3>3, <3>4, ArchiverFits, BuiltinNames DEF FitsAt
  <2>3. CASE ~(v >= 904)
    <3>1. q[n] = Disabled /\ n \notin Views(v)
      BY <1>3, <2>3, QueryAt, ViewsAt
    <3> QED
      BY <2>1, <3>1 DEF FitsAt
  <2> QED
    BY <2>2, <2>3
<1>4. CASE n = Slots
  <2>1. n \in DOMAIN overrides
    BY <1>4, OverrideTable
  <2>2. CASE v >= 904
    <3>1. q[n] # Disabled /\ n \in Views(v)
      <4>1. q[n] = Between(1000, Newest) \/ q[n] = Between(904, 1000)
        BY <1>4, <2>2, QueryAt
      <4>2. q[n] # Disabled
        BY <4>1, BetweenRange
      <4> QED
        BY <1>4, <2>2, <4>2, ViewsAt
    <3>2. q[n].since = IF v >= 1000 THEN 1000 ELSE 904
      BY <1>4, <2>2, QueryAt, BetweenRange
    <3>3. (WalNames(q[n]) <=> v >= 1000) /\ FunctionsExist(q[n], v)
      BY <1>v, <2>2, <3>2 DEF WalNames, XlogDiff, FunctionsExist
    <3>4. BuiltinAnswer(n, q[n], v, Primary) = replication_slots_view(q[n])
      <4>1. ~Primary
        BY DEF Primary
      <4> QED
        BY <1>4, <3>1, <3>3, <4>1, BuiltinAnswers
    <3>5. AnswerAt(n, v) = replication_slots_view(q[n])
      BY <2>1, <3>4 DEF AnswerAt
    <3> HIDE DEF q
    <3> QED
      BY <1>4, <3>1, <3>3, <3>5, SlotsFits, BuiltinNames DEF FitsAt, q
  <2>3. CASE ~(v >= 904)
    <3>1. q[n] = Disabled /\ n \notin Views(v)
      BY <1>v, <1>4, <2>3, QueryAt, ViewsAt
    <3> QED
      BY <2>1, <3>1 DEF FitsAt
  <2> QED
    BY <2>2, <2>3
<1>5. CASE n = Replication
  <2>1. n \in DOMAIN overrides /\ n \in Views(v)
    BY <1>5, OverrideTable, ViewsAt
  <2>2. q[n] # Disabled /\ q[n].since = IF v >= 1000 THEN 1000 ELSE IF v >= 902 THEN 902 ELSE 0
    <3>1. q[n] = IF v >= 1000 THEN Between(1000, Newest)
                 ELSE IF v >= 902 THEN Between(902, 1000) ELSE Between(0, 902)
      BY <1>5, QueryAt
    <3>2. CASE v >= 1000
      BY <1>v, <3>1, <3>2, BetweenRange
    <3>3. CASE v >= 902 /\ ~(v >= 1000)
      BY <1>v, <3>1, <3>3, BetweenRange
    <3>4. CASE ~(v >= 902)
      BY <1>v, <3>1, <3>4, BetweenRange
    <3> QED
      BY <3>2, <3>3, <3>4
  <2>3. /\ WalNames(q[n]) <=> v >= 1000
        /\ XlogDiff(q[n]) <=> v \in 902..999
        /\ FunctionsExist(q[n], v)
    BY <1>v, <2>2 DEF WalNames, XlogDiff, FunctionsExist
  <2>4. BuiltinAnswer(n, q[n], v, Primary) = stat_replication_view(q[n], v)
    BY <1>5, <2>3, BuiltinAnswers
  <2>5. AnswerAt(n, v) = stat_replication_view(q[n], v)
    BY <2>1, <2>4 DEF AnswerAt
  <2>6. Lacking(n, v) = {"slot_name"}
    BY <1>5, Zenon DEF Lacking, Replication
  <2> HIDE DEF q
  <2> QED
    BY <1>5, <2>1, <2>2, <2>3, <2>5, <2>6, ReplicationFits, BuiltinNames DEF FitsAt, q
<1> QED
  BY <1>1, <1>2, <1>3, <1>4, <1>5, BuiltinNames
-----------------------------------------------------------------------------
\* Where the entries of a map come from and what was exposed of them

\* The entry of namespace ns in a map for version v is a built-in one, with its query.
BuiltinOf(entry, queries, v, ns, p) ==
    \E n \in DOMAIN builtinMetricMaps :
        /\ ns = Rename(n, p)
        /\ entry = DescMap(builtinMetricMaps[n], v, {})
        /\ p = "pg" =>
             /\ n \in DOMAIN queries <=> n \in DOMAIN overrides
             /\ n \in DOMAIN overrides => queries[n] = makeQueryOverrideMap(v)[n]
        /\ p # "pg" => ns \notin DOMAIN queries

EntryOf(entry, queries, v, ns, p) ==
    BuiltinOf(entry, queries, v, ns, p) \/ entry.by = "user"

Entries ==
    \A ns \in DOMAIN metricMap : EntryOf(metricMap[ns], queryOverrides, lastMapVersion, ns, prefix)

\* What is exposed was computed from the entries.
IsDisabled(ns) == ns \in DOMAIN queryOverrides /\ queryOverrides[ns] = Disabled

Showing(ns, answer, yield) ==
    \/ /\ IsDisabled(ns)
       /\ yield.status = "disabled" /\ yield.metrics = {}
    \/ /\ ~IsDisabled(ns) /\ AnswerTo(ns) = Fails
       /\ yield.status = "failed" /\ yield.metrics = {}
    \/ /\ ~IsDisabled(ns) /\ AnswerTo(ns) # Fails
       /\ answer = AnswerTo(ns) /\ yield = Yield(metricMap[ns], answer, Rows(answer))

Shown ==
    exposed.of = "namespace" =>
        exposed.ns \in DOMAIN metricMap /\ Showing(exposed.ns, exposed.answer, exposed.yield)

\* An entry of makeDescMap is that of a namespace with this new name.
LEMMA MakeDescMapEntries ==
    ASSUME NEW v, NEW p, NEW maps, NEW asParts,
           NEW ns \in DOMAIN makeDescMap(v, p, maps, asParts)
    PROVE  \E n \in DOMAIN maps :
              /\ ns = Rename(n, p)
              /\ makeDescMap(v, p, maps, asParts)[ns] = DescMap(maps[n], v, asParts)
<1> DEFINE old == CHOOSE n \in DOMAIN maps : Rename(n, p) = ns
<1>1. ns \in {Rename(n, p) : n \in DOMAIN maps}
  BY DEF makeDescMap
<1>2. makeDescMap(v, p, maps, asParts)[ns] = DescMap(maps[old], v, asParts)
  BY <1>1 DEF makeDescMap
<1>3. old \in DOMAIN maps /\ Rename(old, p) = ns
  BY <1>1
<1> QED
  BY <1>2, <1>3

\* All entries are built-in before addQueries.
LEMMA MadeEntries ==
    \A ns \in DOMAIN MadeMap : BuiltinOf(MadeMap[ns], MadeQueries, version, ns, prefix)
<1> SUFFICES ASSUME NEW ns \in DOMAIN MadeMap
             PROVE  BuiltinOf(MadeMap[ns], MadeQueries, version, ns, prefix)
  OBVIOUS
<1>1. defaults
  BY NoMapsEmpty DEF MadeMap
<1>2. /\ MadeMap = makeDescMap(version, prefix, builtinMetricMaps, {})
      /\ MadeQueries = makeQueryOverrideMap(version)
  BY <1>1 DEF MadeMap, MadeQueries
<1>3. PICK n \in DOMAIN builtinMetricMaps :
        ns = Rename(n, prefix) /\ MadeMap[ns] = DescMap(builtinMetricMaps[n], version, {})
  BY <1>2, MakeDescMapEntries
<1>4. DOMAIN MadeQueries = DOMAIN overrides
  BY <1>2, OverridesShape
<1>5. prefix # "pg" => ns \notin DOMAIN MadeQueries
  <2>1. ns[1] = prefix
    BY <1>3, BuiltinTables DEF Rename
  <2> QED
    BY <1>4, <2>1, BuiltinTables
<1> QED
  BY <1>2, <1>3, <1>4, <1>5 DEF BuiltinOf

\* The prefix pg renames nothing.
LEMMA NotRenamed ==
    ASSUME NEW f \in Files, NEW n \in DOMAIN f
    PROVE  Rename(n, "pg") = n
<1>1. n \in STRING \X STRING
  BY ServerQueriesAssumption DEF ServerQueriesAssumption
<1> QED
  BY <1>1 DEF Rename

\* addQueries over the maps just made: what the file has no namespace for stays.
LEMMA MergedEntries ==
    ASSUME NEW f \in Files, NEW kept \in Remaining(f, prefix), NEW asParts
    PROVE  LET map == MergedMap(MadeMap, version, prefix, f, kept, asParts)
               queries == MergedOverrides(MadeQueries, f)
           IN \A ns \in DOMAIN map : EntryOf(map[ns], queries, version, ns, prefix)
<1> DEFINE g == [n \in kept |-> f[n]]
           user == makeDescMap(version, prefix, parseUserQueries(g), asParts)
           map == MergedMap(MadeMap, version, prefix, f, kept, asParts)
           queries == MergedOverrides(MadeQueries, f)
<1>1. DOMAIN parseUserQueries(g) = kept /\ \A n \in kept : parseUserQueries(g)[n].by = "user"
  BY DEF parseUserQueries
<1>2. /\ DOMAIN map = DOMAIN user \cup DOMAIN MadeMap
      /\ \A ns \in DOMAIN map : map[ns] = IF ns \in DOMAIN user THEN user[ns] ELSE MadeMap[ns]
  BY DEF MergedMap, Over
<1>3. /\ DOMAIN queries = DOMAIN f \cup DOMAIN MadeQueries
      /\ \A ns \in DOMAIN queries :
           queries[ns] = IF ns \in DOMAIN f THEN f[ns].query ELSE MadeQueries[ns]
  BY DEF MergedOverrides, Over, newQueryOverrides
<1>4. \A n \in DOMAIN f : \E m \in kept : Rename(m, prefix) = Rename(n, prefix)
  BY DEF Remaining
<1> HIDE DEF g
<1>5. \A n \in DOMAIN f : Rename(n, prefix) \in DOMAIN user
  <2>1. \A m \in kept : Rename(m, prefix) \in DOMAIN user
    BY <1>1, MakeDescMapShape
  <2> HIDE DEF user
  <2> QED
    BY <1>4, <2>1
<1>6. \A ns \in DOMAIN user : user[ns].by = "user"
  BY <1>1, MakeDescMapShape
<1>7. ASSUME NEW ns \in DOMAIN MadeMap, ns \notin DOMAIN user
      PROVE  BuiltinOf(MadeMap[ns], queries, version, ns, prefix)
  <2>1. PICK n \in DOMAIN builtinMetricMaps :
          /\ ns = Rename(n, prefix)
          /\ MadeMap[ns] = DescMap(builtinMetricMaps[n], version, {})
          /\ prefix = "pg" =>
               /\ n \in DOMAIN MadeQueries <=> n \in DOMAIN overrides
               /\ n \in DOMAIN overrides => MadeQueries[n] = makeQueryOverrideMap(version)[n]
          /\ prefix # "pg" => ns \notin DOMAIN MadeQueries
    BY <1>7, MadeEntries DEF BuiltinOf
  <2>2. ns = <<prefix, n[2]>>
    BY <2>1, BuiltinTables DEF Rename
  <2>3. ns \notin DOMAIN f
    <3>1. Rename(ns, prefix) = ns
      BY <2>2 DEF Rename
    <3> QED
      BY <1>5, <1>7, <3>1
  <2>4. prefix = "pg" => n \notin DOMAIN f
    <3>1. Rename(n, "pg") = n \/ n \notin DOMAIN f
      BY NotRenamed
    <3> QED
      BY <2>1, <2>3, <3>1
  <2> HIDE DEF user, queries
  <2> QED
    BY <1>3, <2>1, <2>3, <2>4 DEF BuiltinOf
<1> HIDE DEF user, map, queries
<1> QED
  BY <1>2, <1>6, <1>7 DEF EntryOf, map, queries

\* The inductive invariant: every entry of the map is one of a file or a built-in one
\* that comes with the query of its version; and what was exposed last was computed from
\* the entry and the query that are still there.
LEMMA EntriesInvariance == Spec => [](TypeOK /\ Entries /\ Shown)
<1>1. Init => Entries /\ Shown
  BY NoMapsEmpty DEF Init, Entries, Shown, Nothing
<1>2. TypeOK /\ Entries /\ Shown /\ [Next]_vars => Entries' /\ Shown'
  <2> SUFFICES ASSUME TypeOK, Entries, Shown, [Next]_vars
               PROVE  Entries' /\ Shown'
    OBVIOUS
  <2>1. CASE Upgrade
    BY <2>1 DEF Upgrade, Entries, Shown, server, Nothing
  <2>2. CASE EditFile
    BY <2>2 DEF EditFile, Entries, Shown, server, Nothing
  <2>3. CASE Restart
    BY <2>3, NoMapsEmpty DEF Restart, Entries, Shown, environment, Nothing
  <2>4. CASE CheckMapVersions
    <3>1. /\ lastMapVersion' = version
          /\ exposed' = Nothing
          /\ prefix' = prefix
      BY <2>4 DEF CheckMapVersions, environment
    <3>2. \A ns \in DOMAIN metricMap' :
            EntryOf(metricMap'[ns], queryOverrides', version, ns, prefix)
      <4>1. CASE file = Broken
        <5>1. metricMap' = MadeMap /\ queryOverrides' = MadeQueries
          BY <2>4, <4>1 DEF CheckMapVersions, MadeMap, MadeQueries
        <5> QED
          BY <5>1, MadeEntries DEF EntryOf
      <4>2. CASE file # Broken
        <5>1. PICK kept \in Remaining(file, prefix),
                   asParts \in SUBSET ContestedParts(parseUserQueries(file), version) :
                /\ metricMap' = MergedMap(MadeMap, version, prefix, file, kept, asParts)
                /\ queryOverrides' = MergedOverrides(MadeQueries, file)
          BY <2>4, <4>2 DEF CheckMapVersions, MadeMap, MadeQueries
        <5>2. file \in Files
          BY <4>2 DEF TypeOK
        <5> QED
          BY <5>1, <5>2, MergedEntries
      <4> QED
        BY <4>1, <4>2
    <3> QED
      BY <3>1, <3>2 DEF Entries, Shown, Nothing
  <2>5. ASSUME NEW ns \in DOMAIN metricMap,
               SkipNamespace(ns) \/ QueryFails(ns) \/ QueryAnswered(ns)
        PROVE  Entries' /\ Shown'
    <3>1. UNCHANGED <<environment, server>>
      BY <2>5 DEF SkipNamespace, QueryFails, QueryAnswered
    <3>2. Entries'
      BY <3>1 DEF Entries, environment, server
    <3>3. AnswerTo(ns)' = AnswerTo(ns) /\ (IsDisabled(ns)' <=> IsDisabled(ns))
      BY <3>1 DEF AnswerTo, IsDisabled, environment, server
    <3>4. PICK answer, yield : exposed' = [of |-> "namespace", ns |-> ns, answer |-> answer,
                                           yield |-> yield]
                               /\ Showing(ns, answer, yield)
      <4>1. CASE SkipNamespace(ns)
        <5> DEFINE nothing == [status |-> "disabled", errors |-> {}, metrics |-> {}]
        <5>1. /\ exposed' = [of |-> "namespace", ns |-> ns, answer |-> Fails, yield |-> nothing]
              /\ IsDisabled(ns)
          BY <4>1 DEF SkipNamespace, Exposes, IsDisabled
        <5>2. nothing.status = "disabled" /\ nothing.metrics = {}
          OBVIOUS
        <5> HIDE DEF nothing
        <5>3. Showing(ns, Fails, nothing)
          BY <5>1, <5>2, Zenon DEF Showing
        <5> QED
          BY <5>1, <5>3, Zenon
      <4>2. CASE QueryFails(ns)
        <5> DEFINE nothing == [status |-> "failed", errors |-> {}, metrics |-> {}]
        <5>1. /\ exposed' = [of |-> "namespace", ns |-> ns, answer |-> Fails, yield |-> nothing]
              /\ ~IsDisabled(ns)
          BY <4>2 DEF QueryFails, Exposes, IsDisabled
        <5>2. AnswerTo(ns) = Fails
          BY <4>2 DEF QueryFails
        <5>3. nothing.status = "failed" /\ nothing.metrics = {}
          OBVIOUS
        <5> HIDE DEF nothing
        <5>4. Showing(ns, Fails, nothing)
          BY <5>1, <5>2, <5>3, Zenon DEF Showing
        <5> QED
          BY <5>1, <5>4, Zenon
      <4>3. CASE QueryAnswered(ns)
        BY <4>3 DEF QueryAnswered, Exposes, Showing, IsDisabled
      <4> QED
        BY <2>5, <4>1, <4>2, <4>3
    <3>5. Showing(ns, answer, yield)'
      BY <3>1, <3>3, <3>4 DEF Showing, server
    <3>6. Shown'
      BY <3>1, <3>4, <3>5 DEF Shown, server
    <3> QED
      BY <3>2, <3>6
  <2>6. ASSUME NEW report \in Reports, ReadSettings(report)
        PROVE  Entries' /\ Shown'
    BY <2>6 DEF ReadSettings, Entries, Shown, environment, server
  <2>7. CASE UNCHANGED vars
    BY <2>7 DEF vars, Entries, Shown, Showing, AnswerTo, IsDisabled, environment, server
  <2> QED
    BY <2>1, <2>2, <2>3, <2>4, <2>5, <2>6, <2>7 DEF Next
<1> QED
  BY <1>1, <1>2, MapsInvariance, PTL DEF Spec
-----------------------------------------------------------------------------
\* The built-in maps and queries fit what PostgreSQL has.
LEMMA BuiltinsFitNow == TypeOK /\ Entries /\ Shown => BuiltinsFit
<1> SUFFICES ASSUME TypeOK, Entries, Shown, Queried("exporter"), UpToDate, prefix = "pg"
             PROVE  LET ns == exposed.ns
                        map == metricMap[ns]
                        wanted == map.labels \cup {c \in DOMAIN map.columns : map.columns[c] = "value"}
                        status == exposed.yield.status
                    IN /\ status = (IF ns \notin Views(version) THEN "disabled"
                                    ELSE IF Refused(ns) THEN "failed" ELSE "ok")
                       /\ status = "ok" =>
                            /\ exposed.yield.errors = {}
                            /\ wanted \ exposed.answer.columns = Lacking(ns, version)
  BY DEF BuiltinsFit
<1> DEFINE ns == exposed.ns
           map == metricMap[ns]
           values == {c \in DOMAIN map.columns : map.columns[c] = "value"}
<1>1. ns \in DOMAIN metricMap /\ map.by = "exporter" /\ Showing(ns, exposed.answer, exposed.yield)
  BY DEF Shown, Queried
<1>2. lastMapVersion = version /\ version \in 901..(Newest - 1)
  BY ServerQueriesAssumption DEF TypeOK, UpToDate, lowestSupportedVersion
<1>3. BuiltinOf(map, queryOverrides, lastMapVersion, ns, prefix)
  BY <1>1 DEF Entries, EntryOf
<1>4. PICK n \in DOMAIN builtinMetricMaps :
        /\ ns = Rename(n, prefix)
        /\ map = DescMap(builtinMetricMaps[n], version, {})
        /\ n \in DOMAIN queryOverrides <=> n \in DOMAIN overrides
        /\ n \in DOMAIN overrides => queryOverrides[n] = makeQueryOverrideMap(version)[n]
  BY <1>2, <1>3 DEF BuiltinOf
<1>5. ns = n
  <2>1. n = <<n[1], n[2]>> /\ n[1] = "pg"
    BY DEF builtinMetricMaps
  <2> QED
    BY <1>4, <2>1 DEF Rename
<1> HIDE DEF ns, map
<1> DEFINE columns == builtinMetricMaps[n].columns
<1>6. AnswerTo(n) = IF Refused(n) THEN Fails ELSE AnswerAt(n, version)
  <2>1. n \in DOMAIN overrides => queryOverrides[n].by # "user"
    BY <1>4, OverridesShape DEF Disabled
  <2>2. CASE n \notin DOMAIN overrides
    <3>1. ~Refused(n)
      BY <2>2, OverrideTable DEF Refused, Slots
    <3> QED
      BY <1>4, <2>2, <3>1 DEF AnswerTo, AnswerAt
  <2>3. CASE n \in DOMAIN overrides
    <3>1. AnswerTo(n) = BuiltinAnswer(n, makeQueryOverrideMap(version)[n], version, recovery)
      BY <1>4, <2>1, <2>3 DEF AnswerTo
    <3>2. AnswerAt(n, version) = BuiltinAnswer(n, makeQueryOverrideMap(version)[n], version, Primary)
      BY <2>3 DEF AnswerAt
    <3>3. Refused(n) <=> n = Slots /\ recovery
      BY DEF Refused, Slots
    <3> QED
      BY <3>1, <3>2, <3>3, RecoveryAnswers
  <2> QED
    BY <2>2, <2>3
<1>7. FitsAt(n, version)
  BY <1>2, BuiltinFits
<1>8. CASE n \in Views(version)
  <2>1. ~IsDisabled(n) /\ AnswerAt(n, version) # Fails
    BY <1>4, <1>7, <1>8 DEF IsDisabled, FitsAt
  <2>2. CASE Refused(n)
    <3>1. exposed.yield.status = "failed"
      BY <1>1, <1>5, <1>6, <2>1, <2>2 DEF Showing
    <3> QED
      BY <1>5, <1>8, <2>2, <3>1 DEF ns
  <2>3. CASE ~Refused(n)
    <3>1. /\ exposed.answer = AnswerAt(n, version)
          /\ exposed.yield = Yield(map, exposed.answer, Rows(exposed.answer))
      BY <1>1, <1>5, <1>6, <2>1, <2>3 DEF Showing, map
    <3>2. Fits(columns, version, exposed.answer)
          /\ Wanted(columns, version) \ exposed.answer.columns = Lacking(n, version)
      BY <1>7, <1>8, <3>1 DEF FitsAt
    <3>3. \A c \in DOMAIN columns : columns[c].usage \in Usages
      BY BuiltinUsages
    <3>4. /\ exposed.yield.status = "ok" /\ exposed.yield.errors = {}
          /\ map.labels = LabelsOf(columns) /\ values = Treats(columns, version, "value")
      BY <1>4, <3>1, <3>2, <3>3, FitYields
    <3> QED
      BY <1>5, <1>8, <2>3, <3>2, <3>4 DEF Wanted, ns, map
  <2> QED
    BY <2>2, <2>3
<1>9. CASE n \notin Views(version)
  <2>1. IsDisabled(n)
    BY <1>4, <1>7, <1>9 DEF IsDisabled, FitsAt
  <2>2. exposed.yield.status = "disabled"
    BY <1>1, <1>5, <2>1 DEF Showing
  <2> QED
    BY <1>5, <1>9, <2>2 DEF ns
<1> QED
  BY <1>8, <1>9

-----------------------------------------------------------------------------
\* The column slot_name, which the labels of pg_stat_replication have, is in no
\* answer; its first column tells the rows apart.
LEMMA ReplicationColumns ==
    ASSUME NEW q, NEW v
    PROVE  LET a == stat_replication_view(q, v) IN
           /\ a.key = {a.first} /\ a.first \in a.columns
           /\ "slot_name" \notin a.columns /\ a.twice = {}
<1> DEFINE a == stat_replication_view(q, v)
           locations == Until(1000, v, {"sent_location", "write_location", "flush_location",
                                        "replay_location"})
           lsns == From(1000, v, {"sent_lsn", "write_lsn", "flush_lsn", "replay_lsn",
                                  "write_lag", "flush_lag", "replay_lag"})
           current == IF WalNames(q) THEN {"pg_current_wal_lsn"} ELSE {"pg_current_xlog_location"}
           text == {"usename", "application_name", "client_addr", "client_hostname",
                    "state", "sync_state"} \cup locations \cup lsns \cup current
           diff == IF XlogDiff(q) THEN {"pg_xlog_location_diff"} ELSE {}
           lags == IF WalNames(q) THEN {"pg_current_wal_lsn_bytes", "pg_wal_lsn_diff"} ELSE {}
           xmin == From(904, v, {"backend_xmin"})
           reply == From(1200, v, {"reply_time"})
           numbers == {"usesysid", "client_port", "backend_start", "sync_priority"}
                      \cup xmin \cup reply \cup diff \cup lags
           pid == IF v < 902 THEN "procpid" ELSE "pid"
<1>1. /\ a.key = {pid} /\ a.first = pid /\ a.columns = {pid} \cup (text \cup numbers)
      /\ a.twice = {}
  <2>1. a = Answer(pid, text \cup numbers, text, {pid})
    BY Zenon DEF stat_replication_view
  <2> HIDE DEF a, pid, text, numbers
  <2> QED
    BY <2>1, AnswerFields
<1>2. "slot_name" \notin text /\ "slot_name" \notin numbers /\ "slot_name" # pid
  BY DEF From, Until
<1> HIDE DEF a, pid, text, numbers
<1> QED
  BY <1>1, <1>2 DEF a

\* The labels of the built-in maps tell the rows of an answer apart, whichever
\* query it is the answer to, and it has no column twice.
LEMMA BuiltinTells ==
    ASSUME NEW n \in DOMAIN builtinMetricMaps, NEW q, NEW v, NEW recovering, NEW a, a # Fails,
           a = IF n \in DOMAIN overrides THEN BuiltinAnswer(n, q, v, recovering)
                                   ELSE ViewAnswer(n, v)
    PROVE  TellsApart(LabelsOf(builtinMetricMaps[n].columns), a) /\ a.twice = {}
<1> DEFINE labels == LabelsOf(builtinMetricMaps[n].columns)
<1>m. \A columns, names, since, before :
        Mapped(columns, names, Mapping("LABEL", since, before)) => names \subseteq LabelsOf(columns)
  BY DEF Mapped, Mapping, LabelsOf
<1>1. CASE n = Conflicts
  <2>1. {"datid", "datname"} \subseteq labels
    BY <1>m, <1>1, ConflictsTable, BuiltinNames
  <2>2. a = stat_database_conflicts_view(v)
    <3>1. n \notin DOMAIN overrides
      BY <1>1, OverrideTable, DifferentNames
    <3> QED
      BY <3>1 DEF ViewAnswer
  <2>3. a.key = {"datid"} /\ "datid" \in a.columns /\ a.twice = {}
    BY <2>2, AnswerFields DEF stat_database_conflicts_view
  <2> HIDE DEF labels
  <2> QED
    BY <2>1, <2>3 DEF TellsApart, labels
<1>2. CASE n = Activity
  <2> DEFINE told == {"datname", "state", "usename", "application_name"}
  <2>1. told \subseteq labels
    <3>1. {"datname", "usename", "application_name"} \subseteq labels
      BY <1>m, <1>2, ActivityTable, BuiltinNames
    <3>2. {"state"} \subseteq labels
      BY <1>m, <1>2, ActivityTable, BuiltinNames
    <3> QED
      BY <3>1, <3>2
  <2>2. a = stat_activity_view(q)
    <3>1. n \in DOMAIN overrides
      BY <1>2, OverrideTable
    <3> QED
      BY <1>2, <3>1, BuiltinAnswers
  <2>3. a.key \subseteq told /\ told \subseteq a.columns /\ a.twice = {}
    BY <2>2, AnswerFields DEF stat_activity_view
  <2> HIDE DEF labels, told
  <2> QED
    BY <2>1, <2>3 DEF TellsApart, labels
<1>3. CASE n = Archiver
  <2>1. a = stat_archiver_view
    <3>1. n \in DOMAIN overrides
      BY <1>3, OverrideTable
    <3> QED
      BY <1>3, <3>1, BuiltinAnswers
  <2>2. a.key = {} /\ a.twice = {}
    BY <2>1, AnswerFields DEF stat_archiver_view
  <2> QED
    BY <2>2 DEF TellsApart
<1>4. CASE n = Slots
  <2>1. {"slot_name", "database"} \subseteq labels
    BY <1>m, <1>4, SlotsTable, BuiltinNames
  <2>2. a = replication_slots_view(q)
    <3>1. n \in DOMAIN overrides
      BY <1>4, OverrideTable
    <3> QED
      BY <1>4, <3>1, BuiltinAnswers
  <2>3. a.key = {"slot_name"} /\ "slot_name" \in a.columns /\ a.twice = {}
    BY <2>2, AnswerFields DEF replication_slots_view
  <2> HIDE DEF labels
  <2> QED
    BY <2>1, <2>3 DEF TellsApart, labels
<1>5. CASE n = Replication
  <2>1. {"slot_name"} \subseteq labels
    BY <1>m, <1>5, ReplicationTable, BuiltinNames
  <2>2. a = stat_replication_view(q, v)
    <3>1. n \in DOMAIN overrides
      BY <1>5, OverrideTable
    <3> QED
      BY <1>5, <3>1, BuiltinAnswers
  <2>3. /\ a.key = {a.first} /\ a.first \in a.columns
        /\ "slot_name" \notin a.columns /\ a.twice = {}
    BY <2>2, ReplicationColumns
  <2> HIDE DEF labels
  <2> QED
    BY <2>1, <2>3 DEF TellsApart, labels
<1> QED
  BY <1>1, <1>2, <1>3, <1>4, <1>5, BuiltinNames

\* No two columns of a built-in map get one name, as none is a DURATION.
LEMMA BuiltinNamed ==
    ASSUME NEW n \in DOMAIN builtinMetricMaps, NEW v, NEW c
    PROVE  LET d == DescMap(builtinMetricMaps[n], v, {}) IN
           d.labels = LabelsOf(builtinMetricMaps[n].columns) /\ MetricName(d, c) = c
<1> DEFINE d == DescMap(builtinMetricMaps[n], v, {})
           columns == builtinMetricMaps[n].columns
<1>1. DOMAIN d.names = {x \in DOMAIN columns : columns[x].usage = "DURATION"}
  BY DEF DescMap
<1>2. DOMAIN d.names = {}
  BY <1>1, BuiltinUsages DEF Usages
<1>3. d.labels = LabelsOf(columns)
  BY DEF DescMap, LabelsOf
<1> HIDE DEF d
<1> QED
  BY <1>2, <1>3 DEF MetricName, d

\* Only a namespace of the prefix pg is a view.
LEMMA NoView ==
    ASSUME NEW ns, NEW v, ns[1] # "pg"
    PROVE  ViewAnswer(ns, v) = Fails
<1>1. ns # <<"pg", "stat_database_conflicts">>
  OBVIOUS
<1> QED
  BY <1>1, Zenon DEF ViewAnswer

\* A built-in namespace that is in the map under another name than its query is asked
\* for as a view that does not exist; of the others, the labels tell the rows apart.
LEMMA UniqueSeriesNow == Entries /\ Shown => UniqueSeries
<1> SUFFICES ASSUME Entries, Shown, exposed.of = "namespace",
                    Queried("user") => ToldApart(metricMap[exposed.ns], exposed.answer),
                    NEW m1 \in exposed.yield.metrics, NEW m2 \in exposed.yield.metrics,
                    m1.name = m2.name, m1.labels = m2.labels
             PROVE  m1 = m2
  BY DEF UniqueSeries
<1> DEFINE ns == exposed.ns
           map == metricMap[ns]
           a == exposed.answer
<1>1. ns \in DOMAIN metricMap /\ Showing(ns, a, exposed.yield)
  BY DEF Shown
<1>2. /\ ~IsDisabled(ns) /\ a # Fails /\ a = AnswerTo(ns)
      /\ exposed.yield = Yield(map, a, Rows(a))
  BY <1>1 DEF Showing
<1> HIDE DEF ns, map, a
<1>3. SUFFICES /\ TellsApart(map.labels, a)
               /\ a.twice \cap Having(map, a, "metric") = {}
               /\ \A c1, c2 \in Having(map, a, "metric") :
                    MetricName(map, c1) = MetricName(map, c2) => c1 = c2
  BY <1>2, SeriesTellApart
<1>4. EntryOf(map, queryOverrides, lastMapVersion, ns, prefix)
  BY <1>1 DEF Entries, map
<1>5. ns \notin DOMAIN queryOverrides => ns[1] = "pg"
  BY <1>2, NoView DEF AnswerTo
<1>6. CASE BuiltinOf(map, queryOverrides, lastMapVersion, ns, prefix)
  <2>1. PICK n \in DOMAIN builtinMetricMaps :
          /\ ns = Rename(n, prefix)
          /\ map = DescMap(builtinMetricMaps[n], lastMapVersion, {})
          /\ prefix = "pg" =>
               /\ n \in DOMAIN queryOverrides <=> n \in DOMAIN overrides
               /\ n \in DOMAIN overrides =>
                    queryOverrides[n] = makeQueryOverrideMap(lastMapVersion)[n]
          /\ prefix # "pg" => ns \notin DOMAIN queryOverrides
    BY <1>6 DEF BuiltinOf
  <2>2. n = <<"pg", n[2]>> /\ ns = <<prefix, n[2]>>
    <3>1. n = <<n[1], n[2]>> /\ n[1] = "pg"
      BY DEF builtinMetricMaps
    <3> QED
      BY <2>1, <3>1 DEF Rename
  <2>3. prefix = "pg"
    BY <1>5, <2>1, <2>2
  <2>4. n \in DOMAIN overrides => queryOverrides[n].by # "user"
    BY <2>1, <2>3, OverridesShape DEF Disabled
  <2>5. a = IF n \in DOMAIN overrides THEN BuiltinAnswer(n, queryOverrides[n], version, recovery)
                                      ELSE ViewAnswer(n, version)
    <3>1. ns = n
      BY <2>2, <2>3
    <3> QED
      BY <1>2, <2>1, <2>3, <2>4, <3>1 DEF AnswerTo
  <2>6. TellsApart(LabelsOf(builtinMetricMaps[n].columns), a) /\ a.twice = {}
    BY <1>2, <2>5, BuiltinTells
  <2>7. map.labels = LabelsOf(builtinMetricMaps[n].columns) /\ \A c : MetricName(map, c) = c
    BY <2>1, BuiltinNamed
  <2> QED
    BY <2>6, <2>7
<1>7. CASE map.by = "user"
  <2>1. ToldApart(map, a)
    BY <1>7 DEF Queried, map, ns, a
  <2> QED
    BY <2>1 DEF ToldApart, TellsApart
<1> QED
  BY <1>4, <1>6, <1>7 DEF EntryOf

\* At every version from 9.1 on, on a primary or a standby, the built-in maps and
\* queries fit what PostgreSQL has, but for pg_replication_slots on a standby.
THEOREM BuiltinsFitHolds == Spec => []BuiltinsFit
BY EntriesInvariance, BuiltinsFitNow, PTL

\* No answer yields two metrics of one name with the same labels: those to the built-in
\* namespaces whatever the query that is answered and the version the map was made for,
\* those to a user's if the rows and the columns can be told apart.
THEOREM UniqueSeriesHolds == Spec => []UniqueSeries
BY EntriesInvariance, UniqueSeriesNow, PTL
=============================================================================
