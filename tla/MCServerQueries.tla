-------------------------- MODULE MCServerQueries --------------------------
(***************************************************************************)
(* Instances of ServerQueries.tla for TLC.                                 *)
(***************************************************************************)
EXTENDS ServerQueries

\* A user query: the columns with their usages and the answer to it.
UserNamespace(usage, answer) ==
    [usage |-> usage, master |-> FALSE, query |-> [by |-> "user", answer |-> answer]]

\* An answer of one row unless a key tells rows apart, with no column twice.
AnswerOf(first, numbers, text, arrays, key) ==
    [first   |-> first,
     columns |-> {first} \cup numbers \cup text \cup arrays,
     twice   |-> {},
     text    |-> text,
     arrays  |-> arrays,
     key     |-> key]

\* A namespace with every usage, one of them misspelt, a column that is not
\* mentioned, and a histogram.
Jobs ==
    UserNamespace(
        "queue" :> "LABEL" @@ "depth" :> "GAUGE" @@ "done" :> "COUNTER" @@ "lost" :> "GUAGE"
          @@ "mood" :> "MAPPEDMETRIC" @@ "wait" :> "DURATION" @@ "latency" :> "HISTOGRAM"
          @@ "note" :> "DISCARD",
        AnswerOf("queue",
                  {"depth", "done", "lost", "extra", "latency_sum", "latency_count"},
                  {"queue", "mood", "wait", "note"}, {"latency", "latency_bucket"}, {"queue"}))

\* tests/user_queries_test.yaml, but for its last two histograms: columns that
\* are histograms and parts of histograms.
Random ==
    UserNamespace(
        [c \in {"histogram", "missing", "missing_sum", "missing_count", "unexpected_sum"} |->
            "HISTOGRAM"],
        AnswerOf("histogram_sum",
                  {"histogram_count", "missing_count_sum"}, {"unexpected_sum_sum"},
                  {"histogram", "histogram_bucket", "missing", "missing_sum",
                   "missing_sum_bucket", "missing_count", "missing_count_bucket",
                   "unexpected_sum", "unexpected_sum_bucket"}, {}))

\* A built-in namespace, redefined with a label that the answer does not have.
Archiver ==
    UserNamespace("archived_count" :> "COUNTER" @@ "cluster" :> "LABEL",
                  AnswerOf("archived_count", {}, {}, {}, {}))

\* Two columns without a name of their own.
Unnamed ==
    UserNamespace("queue" :> "LABEL",
                  [AnswerOf("queue", {"?column?"}, {"queue"}, {}, {"queue"})
                     EXCEPT !.twice = {"?column?"}])

\* Two that have one name under the prefix db.
Sizes == UserNamespace("size" :> "GAUGE", AnswerOf("size", {}, {}, {}, {}))
Tables ==
    UserNamespace("tables" :> "GAUGE" @@ "schema" :> "LABEL",
                  AnswerOf("schema", {"tables"}, {"schema"}, {}, {"schema"}))

\* No query is given; a query PostgreSQL rejects; no array where one is asked for.
Forgotten == [Jobs EXCEPT !.query = Disabled]
Rejected == [Jobs EXCEPT !.query.answer = Fails]
Flat == [Jobs EXCEPT !.query.answer.arrays = {"latency_bucket"}]

UserFiles ==
    {NoMaps,
     <<"app", "jobs">> :> Jobs,
     <<"app", "random">> :> Random,
     <<"pg", "stat_archiver">> :> Archiver @@ <<"app", "jobs">> :> Forgotten
       @@ <<"pg", "sizes">> :> Sizes @@ <<"db", "sizes">> :> Tables,
     <<"app", "unnamed">> :> Unnamed @@ <<"app", "jobs">> :> Rejected
       @@ <<"app", "flat">> :> Flat}

\* Every unit, with zero, one, more, and the special value; the suffixes of bytes,
\* and one of time, which costs a digit.
Known ==
    {Number(n, <<>>, u) : n \in {-1, 0, 1, 10}, u \in KnownUnits}
    \cup {Number(10, t, "") : t \in BytesSuffix}
    \cup {Number(10, <<"m", "s">>, "ms"), Boolean(TRUE), Boolean(FALSE)}

\* What is no number without its suffix, and a unit that is not in the list.
SettingsReports ==
    {Known,
     {Number(5, <<"s">>, "s")},
     {Number(5, <<>>, "2kB")}}
=============================================================================
