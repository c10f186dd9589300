------------------------------ MODULE Settings ------------------------------
(***************************************************************************)
(* cmd/postgres_exporter/pg_setting.go: the metric of one row of           *)
(* pg_settings.  The value of a setting is a number followed by            *)
(* characters, mostly none; some services append the unit.                 *)
(***************************************************************************)
EXTENDS Integers, SequencesExt

\* A setting: its type, "on" for a boolean that is, number and tail otherwise.
Boolean(on) == [vartype |-> "bool", on |-> on, number |-> 0, tail |-> <<>>, unit |-> ""]
Number(n, tail, unit) ==
    [vartype |-> "integer", on |-> FALSE, number |-> n, tail |-> tail, unit |-> unit]

\* The rows of pg_settings, as far as they matter here.
Setting ==
    [vartype : {"bool", "integer"}, on : BOOLEAN, number : Int, tail : Seq(STRING), unit : STRING]

settingUnits ==
    << <<"m", "s">>, <<"s">>, <<"m", "i", "n">>, <<"h">>, <<"d">>,
      <<"B">>, <<"k", "B">>, <<"M", "B">>, <<"G", "B">>, <<"T", "B">> >>

SuffixIndices(tail) == {i \in DOMAIN settingUnits : IsSuffix(settingUnits[i], tail)}

\* The first unit in the list that ends the value.
Suffix(tail) == settingUnits[CHOOSE i \in SuffixIndices(tail) : \A j \in SuffixIndices(tail) : i <= j]

\* A number of one digit leaves nothing, or a sign: no number.
NoNumber == <<"">>

WithoutLast(s) ==
    IF s.number \in -9..9
    THEN [s EXCEPT !.tail = NoNumber]
    ELSE [s EXCEPT !.tail = <<>>, !.number = IF @ < 0 THEN -((-@) \div 10) ELSE @ \div 10]

\* Mutant of sanitizeValue: cuts the suffix and no more.
sanitizeValueSuffix(s) ==
    IF SuffixIndices(s.tail) = {} THEN s
    ELSE [s EXCEPT !.tail = SubSeq(@, 1, Len(@) - Len(Suffix(s.tail)))]

\* Cuts one character more than the suffix: a letter of the tail, or a digit.
sanitizeValue(s) ==
    IF SuffixIndices(s.tail) = {} THEN s
    ELSE LET kept == Len(s.tail) - Len(Suffix(s.tail)) - 1 IN
         IF kept >= 0
         THEN [s EXCEPT !.tail = SubSeq(@, 1, kept)]
         ELSE WithoutLast(s)

\* The powers of two of the units of bytes, the milliseconds of those of time.
Bytes ==
    [u \in {"B", "kB", "MB", "GB", "TB", "4kB", "8kB", "16kB", "32kB", "64kB",
            "16MB", "32MB", "64MB"} |->
        CASE u = "B" -> 0
          [] u = "kB" -> 10
          [] u = "MB" -> 20
          [] u = "GB" -> 30
          [] u = "TB" -> 40
          [] u = "4kB" -> 12
          [] u = "8kB" -> 13
          [] u = "16kB" -> 14
          [] u = "32kB" -> 15
          [] u = "64kB" -> 16
          [] u = "16MB" -> 24
          [] u = "32MB" -> 25
          [] u = "64MB" -> 26]

Milliseconds == [ms |-> 1, s |-> 1000, min |-> 60000, h |-> 3600000, d |-> 86400000]

\* panic(err): a value that is not a number, or an unknown unit.
Panic == [name |-> "panic", number |-> 0, power |-> 0]

\* Names the unit of the metric and converts the number to it: bytes as number *
\* 2^power, seconds as a number of milliseconds.  -1 is left alone.
normaliseUnit(s) ==
    CASE s.tail # <<>> -> Panic
      [] s.unit = "" -> [name |-> "", number |-> s.number, power |-> 0]
      [] s.unit \in DOMAIN Bytes ->
           [name |-> "bytes", number |-> s.number,
            power |-> IF s.number = -1 THEN 0 ELSE Bytes[s.unit]]
      [] s.unit \in DOMAIN Milliseconds ->
           [name |-> "seconds", power |-> 0,
            number |-> IF s.number = -1 THEN -1000 ELSE s.number * Milliseconds[s.unit]]
      [] OTHER -> Panic

metric(s) ==
    IF s.vartype = "bool"
    THEN [name |-> "", number |-> IF s.on THEN 1 ELSE 0, power |-> 0]
    ELSE normaliseUnit(sanitizeValue(s))
=============================================================================
