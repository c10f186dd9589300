------------------------ MODULE NamespaceCacheProofs ------------------------
(***************************************************************************)
(* Proofs about NamespaceCache.tla, for every number of overlapping        *)
(* scrapes, every set of namespaces and every cacheSeconds.                *)
(***************************************************************************)
EXTENDS NamespaceCache, TLAPS

\* What a query yields is something.
LEMMA MetricsSome ==
    ASSUME NEW m \in Metrics
    PROVE  m # Nothing
BY CacheAssumption DEF Metrics

\* And so is an entry.
LEMMA EntrySome ==
    ASSUME NEW e \in Entry
    PROVE  e # Nothing
BY CacheAssumption DEF Entry, Metrics

\* No scrape sent or stored anything at first.
LEMMA InitInvariant == Init => IInv
BY CacheAssumption
   DEF Init, IInv, TypeOK, AtNamespace, Started, CacheSound, ExposedFresh,
       ShortKnown, DoneSent

\* A scrape starts.
LEMMA BeginInvariant ==
    ASSUME IInv, NEW c \in Scrape, Begin(c)
    PROVE  IInv'
<1> USE DEF IInv, Begin, Goto
<1>1. TypeOK'
  BY DEF TypeOK
<1>2. AtNamespace'
  BY DEF TypeOK, AtNamespace
<1>3. Started'
  BY DEF TypeOK, Started
<1>4. CacheSound'
  BY DEF CacheSound
<1>5. ExposedFresh'
  BY DEF TypeOK, Started, ExposedFresh
<1>6. ShortKnown'
  BY DEF ShortKnown, Known
<1>7. DoneSent'
  BY DEF TypeOK, DoneSent
<1> QED
  BY <1>1, <1>2, <1>3, <1>4, <1>5, <1>6, <1>7

\* A scrape skips a namespace.
LEMMA SkipInvariant ==
    ASSUME IInv, NEW c \in Scrape, NEW n \in Namespace, Skip(c, n)
    PROVE  IInv'
<1> USE DEF IInv, Skip
<1>1. TypeOK'
  BY DEF TypeOK
<1>2. AtNamespace' /\ Started' /\ CacheSound' /\ ExposedFresh'
  BY DEF TypeOK, AtNamespace, Started, CacheSound, ExposedFresh
<1>3. ShortKnown'
  BY DEF ShortKnown, Known
<1>4. DoneSent'
  BY DEF TypeOK, DoneSent
<1> QED
  BY <1>1, <1>2, <1>3, <1>4

\* A scrape sends what the cache has: it was read after the entry's scrape
\* started, and lastShort knows it if rows are missing.
LEMMA ServeCachedInvariant ==
    ASSUME IInv, NEW c \in Scrape, NEW n \in Namespace, ServeCached(c, n)
    PROVE  IInv'
<1> USE DEF IInv, ServeCached
<1>1. metricCache[n] \in Entry /\ metricCache[n] # Nothing
  BY DEF TypeOK, Fresh
<1>2. metricCache[n].metrics \in Metrics
  BY <1>1 DEF Entry
<1>3. scrapeStart[c] <= metricCache[n].metrics.at + CacheSeconds[n]
  <2>1. /\ scrapeStart[c] \in Nat
        /\ CacheSeconds[n] \in Nat
        /\ metricCache[n].lastScrape \in Nat
        /\ metricCache[n].metrics.at \in Nat
    BY <1>1, <1>2, CacheAssumption DEF TypeOK, Entry, Metrics
  <2> QED
    BY <1>1, <2>1 DEF Fresh, CacheSound
<1>4. TypeOK'
  BY <1>2 DEF TypeOK
<1>5. AtNamespace'
  BY <1>2 DEF TypeOK, AtNamespace
<1>6. Started' /\ CacheSound'
  BY DEF TypeOK, Started, CacheSound
<1>7. ExposedFresh'
  BY <1>3 DEF TypeOK, ExposedFresh
<1>8. ShortKnown'
  <2>1. Known(n, metricCache[n].metrics)
    BY <1>1 DEF ShortKnown
  <2> QED
    BY <2>1 DEF TypeOK, ShortKnown, Known
<1>9. DoneSent'
  BY <1>2, MetricsSome DEF TypeOK, DoneSent
<1> QED
  BY <1>4, <1>5, <1>6, <1>7, <1>8, <1>9

\* A scrape turns to a namespace it has to query.
LEMMA MissInvariant ==
    ASSUME IInv, NEW c \in Scrape, NEW n \in Namespace, Miss(c, n)
    PROVE  IInv'
<1> USE DEF IInv, Miss, Goto
<1>1. TypeOK'
  BY DEF TypeOK
<1>2. AtNamespace'
  BY CacheAssumption DEF TypeOK, AtNamespace
<1>3. Started' /\ CacheSound' /\ ExposedFresh'
  BY DEF TypeOK, Started, CacheSound, ExposedFresh
<1>4. ShortKnown'
  BY DEF ShortKnown, Known
<1>5. DoneSent'
  BY DEF TypeOK, DoneSent
<1> QED
  BY <1>1, <1>2, <1>3, <1>4, <1>5

\* A query returns, with every row or with fewer; lastShort tells.
LEMMA AnswerInvariant ==
    ASSUME IInv, NEW c \in Scrape, NEW rows \in {"all", "some", "none"},
           NEW fails \in BOOLEAN, Answer(c, rows, fails)
    PROVE  IInv'
<1> USE DEF IInv, Answer, Answered, Goto
<1>1. at[c] \in Namespace
  BY DEF TypeOK, AtNamespace
<1>2. [rows |-> rows, at |-> now] \in Metrics
  BY DEF TypeOK, Metrics
<1>3. [rows |-> rows, at |-> now] # Nothing
  BY <1>2, MetricsSome
<1>4. metrics' = [metrics EXCEPT ![c] = [@ EXCEPT ![at[c]] = [rows |-> rows, at |-> now]]]
  OBVIOUS
<1>5. TypeOK'
  BY <1>1, <1>2 DEF TypeOK
<1>6. metrics'[c][at[c]] = [rows |-> rows, at |-> now]
  BY <1>1 DEF TypeOK
<1>7. \A d \in Scrape, n \in Namespace :
        ~(d = c /\ n = at[c]) => metrics'[d][n] = metrics[d][n]
  BY <1>1 DEF TypeOK
<1>8. AtNamespace'
  BY <1>1, <1>3, <1>6, <1>7 DEF TypeOK, AtNamespace, Started
<1>9. Started'
  BY <1>1 DEF TypeOK, Started
<1>10. CacheSound'
  BY DEF CacheSound
<1>11. ExposedFresh'
  <2>1. scrapeStart[c] \in Nat /\ now \in Nat /\ scrapeStart[c] <= now
    BY DEF TypeOK, Started
  <2>2. CacheSeconds[at[c]] \in Nat
    BY <1>1, CacheAssumption
  <2>3. scrapeStart[c] <= now + CacheSeconds[at[c]]
    BY <2>1, <2>2
  <2> QED
    BY <1>1, <1>6, <1>7, <2>3 DEF ExposedFresh
<1>12. ShortKnown'
  <2>1. \A n \in Namespace : lastShort'[n] # Nothing => lastShort'[n] <= now
    BY <1>1 DEF TypeOK, ShortKnown
  <2>2. ASSUME NEW n \in Namespace, NEW m \in Metrics, Known(n, m)
        PROVE  Known(n, m)'
    <3>1. CASE n = at[c] /\ rows # "all"
      <4>1. lastShort'[n] = now /\ now # Nothing
        BY <1>1, <3>1, CacheAssumption DEF TypeOK
      <4>2. m.rows # "all" => lastShort[n] \in Nat /\ m.at <= lastShort[n] /\ lastShort[n] <= now
        BY <2>2 DEF TypeOK, ShortKnown, Known
      <4> QED
        BY <4>1, <4>2 DEF TypeOK, Metrics, Known
    <3>2. CASE ~(n = at[c] /\ rows # "all")
      <4>1. lastShort'[n] = lastShort[n]
        BY <1>1, <3>2 DEF TypeOK
      <4> QED
        BY <2>2, <4>1 DEF Known
    <3> QED
      BY <3>1, <3>2
  <2>3. ASSUME NEW n \in Namespace, metricCache'[n] # Nothing
        PROVE  Known(n, metricCache[n].metrics)'
    <3>1. metricCache[n].metrics \in Metrics /\ Known(n, metricCache[n].metrics)
      BY <2>3 DEF TypeOK, Entry, ShortKnown
    <3> QED
      BY <2>2, <3>1 DEF Known
  <2>4. ASSUME NEW d \in Scrape, NEW n \in Namespace, metrics'[d][n] # Nothing
        PROVE  Known(n, metrics[d][n])'
    <3>1. CASE d = c /\ n = at[c]
      <4>1. rows # "all" => lastShort'[n] = now /\ now # Nothing
        BY <1>1, <3>1, CacheAssumption DEF TypeOK
      <4> QED
        BY <1>6, <3>1, <4>1 DEF TypeOK, Known
    <3>2. CASE ~(d = c /\ n = at[c])
      <4>1. metrics'[d][n] = metrics[d][n]
        BY <1>7, <3>2
      <4>2. metrics[d][n] \in Metrics /\ Known(n, metrics[d][n])
        BY <2>4, <4>1 DEF TypeOK, ShortKnown
      <4> QED
        BY <2>2, <4>1, <4>2 DEF Known
    <3> QED
      BY <3>1, <3>2
  <2> QED
    BY <2>1, <2>3, <2>4 DEF ShortKnown
<1>13. DoneSent'
  <2> SUFFICES ASSUME NEW d \in Scrape, NEW n \in Namespace,
                      pc'[d] # "idle", n \notin todo[d],
                      ~(pc'[d] = "query" /\ at[d] = n), n \notin MasterOnly
               PROVE  metrics'[d][n] # Nothing
    BY DEF DoneSent
  <2>1. CASE d = c /\ n = at[c]
    BY <1>3, <1>6, <2>1
  <2>2. CASE ~(d = c /\ n = at[c])
    <3>1. pc[d] # "idle" /\ ~(pc[d] = "query" /\ at[d] = n)
      BY <2>2 DEF TypeOK
    <3> QED
      BY <1>7, <2>2, <3>1 DEF DoneSent
  <2> QED
    BY <2>1, <2>2
<1> QED
  BY <1>5, <1>8, <1>9, <1>10, <1>11, <1>12, <1>13

\* The four ways in which a query returns are of that form.
LEMMA QueryInvariant ==
    ASSUME IInv, NEW c \in Scrape, QueryStep(c)
    PROVE  IInv'
<1>1. CASE QueryDisabled(c)
  BY <1>1, AnswerInvariant DEF QueryDisabled
<1>2. CASE QuerySucceeds(c)
  BY <1>2, AnswerInvariant DEF QuerySucceeds
<1>3. CASE QueryTruncated(c)
  BY <1>3, AnswerInvariant DEF QueryTruncated
<1>4. CASE QueryFails(c)
  BY <1>4, AnswerInvariant DEF QueryFails
<1> QED
  BY <1>1, <1>2, <1>3, <1>4 DEF QueryStep

\* A scrape stores what it read after it started.
LEMMA StoreInvariant ==
    ASSUME IInv, NEW c \in Scrape, Store(c)
    PROVE  IInv'
<1> USE DEF IInv, Store, Goto
<1>1. at[c] \in Namespace
  BY DEF TypeOK, AtNamespace
<1>2. metrics[c][at[c]] \in Metrics
  BY <1>1 DEF TypeOK, AtNamespace
<1> DEFINE e == [metrics |-> metrics[c][at[c]], lastScrape |-> scrapeStart[c]]
<1>3. e \in Entry
  BY <1>2 DEF TypeOK, Entry
<1>4. e.lastScrape <= e.metrics.at
  BY DEF AtNamespace
<1>5. TypeOK'
  BY <1>1, <1>3 DEF TypeOK
<1>6. AtNamespace'
  BY DEF TypeOK, AtNamespace
<1>7. Started' /\ ExposedFresh'
  BY DEF TypeOK, Started, ExposedFresh
<1>8. CacheSound'
  BY <1>1, <1>3, <1>4 DEF TypeOK, CacheSound
<1>9. ShortKnown'
  <2>1. Known(at[c], metrics[c][at[c]])
    BY <1>1 DEF ShortKnown, AtNamespace
  <2> QED
    BY <1>1, <2>1 DEF TypeOK, ShortKnown, Known
<1>10. DoneSent'
  BY DEF TypeOK, DoneSent
<1> QED
  BY <1>5, <1>6, <1>7, <1>8, <1>9, <1>10

\* A scrape ends and forgets what it sent.
LEMMA EndInvariant ==
    ASSUME IInv, NEW c \in Scrape, End(c)
    PROVE  IInv'
<1> USE DEF IInv, End, Goto
<1>1. TypeOK'
  BY DEF TypeOK
<1>2. AtNamespace' /\ Started' /\ CacheSound'
  BY DEF TypeOK, AtNamespace, Started, CacheSound
<1>3. ExposedFresh'
  BY DEF TypeOK, ExposedFresh
<1>4. ShortKnown'
  BY DEF TypeOK, ShortKnown, Known
<1>5. DoneSent'
  BY DEF TypeOK, DoneSent
<1> QED
  BY <1>1, <1>2, <1>3, <1>4, <1>5

\* Time passes, the server becomes a master, or nothing happens.
LEMMA EnvironmentInvariant ==
    ASSUME IInv, Tick \/ BecomeMaster \/ UNCHANGED vars
    PROVE  IInv'
<1> USE DEF IInv
<1>1. CASE Tick
  BY <1>1 DEF Tick, TypeOK, AtNamespace, Started, CacheSound, ExposedFresh,
              ShortKnown, Known, DoneSent
<1>2. CASE BecomeMaster
  BY <1>2 DEF BecomeMaster, TypeOK, AtNamespace, Started, CacheSound, ExposedFresh,
              ShortKnown, Known, DoneSent
<1>3. CASE UNCHANGED vars
  BY <1>3 DEF vars, TypeOK, AtNamespace, Started, CacheSound, ExposedFresh,
              ShortKnown, Known, DoneSent
<1> QED
  BY <1>1, <1>2, <1>3

\* The cache discipline: the inductive invariant holds throughout, however many
\* scrapes read and overwrite the entries of each other.
THEOREM CacheInvariance == Spec => []IInv
<1>1. IInv /\ [Next]_vars => IInv'
  <2> SUFFICES ASSUME IInv, [Next]_vars
               PROVE  IInv'
    OBVIOUS
  <2>1. ASSUME NEW c \in Scrape, Begin(c) \/ LoopStep(c) \/ QueryStep(c)
        PROVE  IInv'
    <3>1. CASE Begin(c)
      BY <3>1, BeginInvariant
    <3>2. CASE LoopStep(c)
      BY <3>2, SkipInvariant, ServeCachedInvariant, MissInvariant, StoreInvariant, EndInvariant
         DEF LoopStep
    <3>3. CASE QueryStep(c)
      BY <3>3, QueryInvariant
    <3> QED
      BY <2>1, <3>1, <3>2, <3>3
  <2> QED
    BY <2>1, EnvironmentInvariant DEF Next
<1> QED
  BY <1>1, InitInvariant, PTL DEF Spec

\* The variables of the namespace queries keep their types.
THEOREM CacheTypeCorrect == Spec => []TypeOK
<1>1. IInv => TypeOK
  BY DEF IInv
<1> QED
  BY <1>1, CacheInvariance, PTL

\* No scrape exposes metrics that were read longer than cacheSeconds before it
\* started (queryNamespaceMappings, namespace.go).
THEOREM ExposedFreshHolds == Spec => []ExposedFresh
<1>1. IInv => ExposedFresh
  BY DEF IInv
<1> QED
  BY <1>1, CacheInvariance, PTL

\* A scrape that started more than cacheSeconds after the last answer of a
\* namespace that lacked rows ends with all rows of that namespace, whatever
\* failed beside it (queryNamespaceMappings, namespace.go).
THEOREM RowsComeBackHolds == Spec => []RowsComeBack
<1>1. IInv => RowsComeBack
  <2> SUFFICES ASSUME IInv, NEW c \in Scrape, NEW n \in Namespace,
                      pc[c] = "loop", todo[c] = {}, metrics[c][n] # Nothing,
                      lastShort[n] # Nothing => lastShort[n] + CacheSeconds[n] < scrapeStart[c]
               PROVE  metrics[c][n].rows = "all"
    BY DEF IInv, DoneSent, RowsComeBack
  <2>1. scrapeStart[c] <= metrics[c][n].at + CacheSeconds[n]
    BY DEF IInv, ExposedFresh
  <2>2. metrics[c][n].rows # "all" =>
          lastShort[n] # Nothing /\ metrics[c][n].at <= lastShort[n]
    BY DEF IInv, ShortKnown, Known
  <2>3. /\ scrapeStart[c] \in Nat
        /\ metrics[c][n].at \in Nat
        /\ CacheSeconds[n] \in Nat
        /\ lastShort[n] # Nothing => lastShort[n] \in Nat
    BY CacheAssumption DEF IInv, TypeOK, Metrics
  <2> QED
    BY <2>1, <2>2, <2>3
<1> QED
  BY <1>1, CacheInvariance, PTL
=============================================================================
