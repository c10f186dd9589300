--------------------------- MODULE NamespaceRows ---------------------------
(***************************************************************************)
(* queryNamespaceMappingWithContext of cmd/postgres_exporter/namespace.go: *)
(* the metrics made of a row of an answer (PostgresAnswers.tla) under a    *)
(* mapping (DescMap of QueryPlan.tla).  A row is a function from columns   *)
(* to values.                                                              *)
(***************************************************************************)
EXTENDS Integers, Sequences

\* dbToFloat64 and dbToUint64 succeed: numbers, NULL, times and booleans.
IsNumber(a, c) == c \in a.columns \ (a.text \cup a.arrays)

\* pq.Array can scan it.
IsArray(a, c) == c \in a.arrays

\* Mutant of LabelValues: a label the answer has no column for is empty.
LabelValuesEmpty(mapping, a, row) ==
    [l \in mapping.labels |-> IF l \in a.columns THEN row[l] ELSE 0]

\* columnIdx has 0 for a column that is not there: the first one.
LabelValues(mapping, a, row) ==
    [l \in mapping.labels |-> IF l \in a.columns THEN row[l] ELSE row[a.first]]

\* What becomes of a histogram: its own column holds the bounds.
Histogram(a, c) ==
    LET bucket == c \o "_bucket"
        sum == c \o "_sum"
        count == c \o "_count"
    IN CASE ~IsArray(a, c) -> "fatal"
         [] IsArray(a, c) /\ bucket \in a.columns /\ ~IsArray(a, bucket) -> "fatal"
         [] IsArray(a, c) /\ IsArray(a, bucket) /\ IsNumber(a, sum) /\ IsNumber(a, count) ->
              "metric"
         [] OTHER -> "nonfatal"

\* What becomes of column c: nothing, a metric, an error that is only logged, or
\* one that fails the namespace.  A column that the mapping does not mention is a
\* value like any other, but untyped; every name is one that a metric may have.
Fate(mapping, a, c) ==
    LET treatment == IF c \in DOMAIN mapping.columns THEN mapping.columns[c] ELSE "value"
    IN CASE treatment = "discard" -> "nothing"
         [] treatment = "histogram" -> Histogram(a, c)
         [] OTHER -> IF IsNumber(a, c) THEN "metric" ELSE "nonfatal"

Having(mapping, a, fate) == {c \in a.columns : Fate(mapping, a, c) = fate}

MetricName(mapping, c) == IF c \in DOMAIN mapping.names THEN mapping.names[c] ELSE c

\* The metrics to be: the loop is over the list of columns, so that a name that is
\* there twice makes two.
Emitted(mapping, a) ==
    {e \in Having(mapping, a, "metric") \X {1, 2} : e[2] = 1 \/ e[1] \in a.twice}

\* A row's metrics, if its namespace does not fail; of which column and row a
\* metric is tells two of them apart.
RowMetrics(mapping, a, row) ==
    {[name   |-> MetricName(mapping, e[1]),
      labels |-> LabelValues(mapping, a, row),
      of     |-> <<e, row>>] : e \in Emitted(mapping, a)}

\* What a query of a namespace yields: a fatal error loses the metrics, other
\* errors are logged and their columns left out.
Yield(mapping, a, rows) ==
    LET failed == Having(mapping, a, "fatal") # {}
    IN [status  |-> IF failed THEN "failed" ELSE "ok",
        errors  |-> Having(mapping, a, "nonfatal"),
        metrics |-> IF failed THEN {} ELSE UNION {RowMetrics(mapping, a, r) : r \in rows}]
=============================================================================
