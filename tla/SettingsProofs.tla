--------------------------- MODULE SettingsProofs ---------------------------
(***************************************************************************)
(* Proofs about Settings.tla and ReadSettings of ServerQueries.tla, for    *)
(* every integer a setting may have.                                       *)
(***************************************************************************)
EXTENDS ServerQueries, TLAPS

\* A value without a suffix ends with no unit.
LEMMA NoSuffix == SuffixIndices(<<>>) = {}
BY DEF SuffixIndices, settingUnits, IsSuffix, IsPrefix, Reverse

\* What ends a tail of two letters ends with its last one.
LEMMA SuffixOfTwo ==
    ASSUME NEW x, NEW y
    PROVE  /\ IsSuffix(<<y>>, <<x, y>>)
           /\ \A a : a # y => ~IsSuffix(<<a>>, <<x, y>>)
           /\ \A a, b : b # y => ~IsSuffix(<<a, b>>, <<x, y>>)
           /\ \A a, b, c : ~IsSuffix(<<a, b, c>>, <<x, y>>)
<1>1. IsSuffix(<<y>>, <<x, y>>)
  BY DEF IsSuffix, IsPrefix, Reverse
<1>2. ASSUME NEW a, a # y
      PROVE  ~IsSuffix(<<a>>, <<x, y>>)
  BY <1>2 DEF IsSuffix, IsPrefix, Reverse
<1>3. ASSUME NEW a, NEW b, b # y
      PROVE  ~IsSuffix(<<a, b>>, <<x, y>>)
  BY <1>3 DEF IsSuffix, IsPrefix, Reverse
<1>4. ASSUME NEW a, NEW b, NEW c
      PROVE  ~IsSuffix(<<a, b, c>>, <<x, y>>)
  BY DEF IsSuffix, IsPrefix, Reverse
<1> QED
  BY <1>1, <1>2, <1>3, <1>4

\* The units in the order that sanitizeValue tries them in, the first six of them.
LEMMA Units ==
    /\ DOMAIN settingUnits = 1..10
    /\ settingUnits[1] = <<"m", "s">>
    /\ settingUnits[2] = <<"s">>
    /\ settingUnits[3] = <<"m", "i", "n">>
    /\ settingUnits[4] = <<"h">>
    /\ settingUnits[5] = <<"d">>
    /\ settingUnits[6] = <<"B">>
BY DEF settingUnits

\* B is the first unit that a tail of kB, MB, GB or TB ends with.
LEMMA FirstSuffix ==
    ASSUME NEW letter
    PROVE  /\ SuffixIndices(<<letter, "B">>) # {}
           /\ Suffix(<<letter, "B">>) = <<"B">>
<1> DEFINE tail == <<letter, "B">>
           first == CHOOSE i \in SuffixIndices(tail) : \A j \in SuffixIndices(tail) : i <= j
<1>1. 6 \in SuffixIndices(tail)
  <2>1. IsSuffix(<<"B">>, tail)
    BY SuffixOfTwo
  <2>2. 6 \in DOMAIN settingUnits /\ settingUnits[6] = <<"B">>
    BY Units
  <2> QED
    BY <2>1, <2>2, Zenon DEF SuffixIndices
<1>2. \A i \in 1..5 : i \notin SuffixIndices(tail)
  <2>1. \A i \in 1..5 : i = 1 \/ i = 2 \/ i = 3 \/ i = 4 \/ i = 5
    OBVIOUS
  <2>2. /\ ~IsSuffix(<<"m", "s">>, tail)
        /\ ~IsSuffix(<<"s">>, tail)
        /\ ~IsSuffix(<<"m", "i", "n">>, tail)
        /\ ~IsSuffix(<<"h">>, tail)
        /\ ~IsSuffix(<<"d">>, tail)
    BY SuffixOfTwo
  <2> HIDE DEF tail
  <2>3. \A i \in 1..5 : ~IsSuffix(settingUnits[i], tail)
    BY <2>1, <2>2, Units, Zenon
  <2> QED
    BY <2>3 DEF SuffixIndices
<1>3. SuffixIndices(tail) \subseteq 1..10
  BY Units DEF SuffixIndices
<1> HIDE DEF tail
<1>4. \A j \in SuffixIndices(tail) : 6 <= j
  BY <1>2, <1>3
<1>5. first \in SuffixIndices(tail) /\ first <= 6
  BY <1>1, <1>4
<1>6. first = 6
  BY <1>3, <1>4, <1>5
<1>7. Suffix(tail) = <<"B">>
  BY <1>6, Units DEF Suffix
<1> QED
  BY <1>1, <1>7 DEF tail

\* The settings that SettingsExact is about.
Plain ==
    [vartype : {"bool", "integer"}, on : BOOLEAN, number : Int, tail : BytesSuffix,
     unit : KnownUnits]

\* sanitizeValue takes a suffix of bytes off, though by cutting too much, and
\* leaves the number.
LEMMA Sanitized ==
    ASSUME NEW s \in Plain
    PROVE  sanitizeValue(s) = [s EXCEPT !.tail = <<>>]
<1>1. CASE s.tail = <<>>
  BY <1>1, NoSuffix DEF sanitizeValue, Plain
<1>2. ASSUME NEW letter, s.tail = <<letter, "B">>
      PROVE  sanitizeValue(s) = [s EXCEPT !.tail = <<>>]
  <2>1. Len(s.tail) - Len(Suffix(s.tail)) - 1 = 0
    <3>1. Len(<<"B">>) = 1 /\ Len(<<letter, "B">>) = 2
      OBVIOUS
    <3>2. Suffix(s.tail) = <<"B">>
      BY <1>2, FirstSuffix
    <3>3. Len(s.tail) = 2 /\ Len(Suffix(s.tail)) = 1
      BY <1>2, <3>1, <3>2
    <3> QED
      BY <3>3
  <2>2. SuffixIndices(s.tail) # {}
    BY <1>2, FirstSuffix
  <2>3. SubSeq(s.tail, 1, 0) = <<>>
    BY <1>2
  <2> DEFINE kept == Len(s.tail) - Len(Suffix(s.tail)) - 1
  <2>4. sanitizeValue(s) = IF kept >= 0 THEN [s EXCEPT !.tail = SubSeq(s.tail, 1, kept)]
                                        ELSE WithoutLast(s)
    BY <2>2 DEF sanitizeValue
  <2>5. kept = 0
    BY <2>1
  <2> HIDE DEF kept
  <2> QED
    BY <2>3, <2>4, <2>5
<1>3. \/ s.tail = <<>>
      \/ s.tail = <<"k", "B">>
      \/ s.tail = <<"M", "B">>
      \/ s.tail = <<"G", "B">>
      \/ s.tail = <<"T", "B">>
  BY Zenon DEF Plain, BytesSuffix
<1> QED
  BY <1>1, <1>2, <1>3

\* What a number without a unit, or in a known one, is exposed as.
Unitless(name, n) == [name |-> name, number |-> n, power |-> 0]
InBytes(n, power) == [name |-> "bytes", number |-> n, power |-> IF n = -1 THEN 0 ELSE power]
InSeconds(n, times) ==
    [name |-> "seconds", power |-> 0, number |-> IF n = -1 THEN -1000 ELSE n * times]

\* The metric of a number, by the kind of its unit.
LEMMA MetricOfNumber ==
    ASSUME NEW s \in Plain, s.vartype # "bool"
    PROVE  /\ s.unit = "" => metric(s) = Unitless("", s.number)
           /\ s.unit \in DOMAIN Bytes => metric(s) = InBytes(s.number, Bytes[s.unit])
           /\ s.unit \in DOMAIN Milliseconds =>
                metric(s) = InSeconds(s.number, Milliseconds[s.unit])
<1> DEFINE t == [s EXCEPT !.tail = <<>>]
<1>1. metric(s) = normaliseUnit(t)
  BY Sanitized DEF metric
<1>2. t.tail = <<>> /\ t.unit = s.unit /\ t.number = s.number
  BY DEF Plain
<1>3. /\ "" \notin DOMAIN Bytes \cup DOMAIN Milliseconds
      /\ DOMAIN Bytes \cap DOMAIN Milliseconds = {}
  BY DEF Bytes, Milliseconds
<1> HIDE DEF t
<1>4. ASSUME s.unit = ""
      PROVE  metric(s) = Unitless("", s.number)
  <2>1. t.unit = "" /\ t.unit \notin DOMAIN Bytes /\ t.unit \notin DOMAIN Milliseconds
    BY <1>2, <1>3, <1>4, Zenon
  <2> QED
    BY <1>1, <1>2, <2>1, Zenon DEF normaliseUnit, Unitless
<1>5. ASSUME s.unit \in DOMAIN Bytes
      PROVE  metric(s) = InBytes(s.number, Bytes[s.unit])
  <2>1. t.unit # "" /\ t.unit \in DOMAIN Bytes /\ t.unit \notin DOMAIN Milliseconds
    BY <1>2, <1>3, <1>5, Zenon
  <2> QED
    BY <1>1, <1>2, <2>1, Zenon DEF normaliseUnit, InBytes
<1>6. ASSUME s.unit \in DOMAIN Milliseconds
      PROVE  metric(s) = InSeconds(s.number, Milliseconds[s.unit])
  <2>1. t.unit # "" /\ t.unit \notin DOMAIN Bytes /\ t.unit \in DOMAIN Milliseconds
    BY <1>2, <1>3, <1>6, Zenon
  <2>2. normaliseUnit(t) = InSeconds(t.number, Milliseconds[t.unit])
    BY <1>2, <2>1 DEF normaliseUnit, InSeconds
  <2> QED
    BY <1>1, <1>2, <2>2
<1> QED
  BY <1>4, <1>5, <1>6

-----------------------------------------------------------------------------
\* The two tables of units agree with each other: a unit is so many of the next.
BytesFactor(u, v) ==
    /\ Smaller[u][1] = v /\ Smaller[u][2] \in Nat
    /\ u \in DOMAIN Bytes /\ v \in DOMAIN Bytes
    /\ 2 ^ (Bytes[u] - Bytes[v]) = Smaller[u][2]

TimeFactor(u, v) ==
    /\ Smaller[u][1] = v /\ Smaller[u][2] \in Nat
    /\ u \in DOMAIN Milliseconds /\ v \in DOMAIN Milliseconds
    /\ Milliseconds[u] \in Nat /\ Milliseconds[v] \in Nat
    /\ Milliseconds[u] = Smaller[u][2] * Milliseconds[v]

\* Each unit of bytes that Smaller restates is a multiple of the smaller one.
LEMMA BytesFactors ==
    /\ BytesFactor("TB", "GB")
    /\ BytesFactor("GB", "MB")
    /\ BytesFactor("MB", "kB")
    /\ BytesFactor("kB", "B")
    /\ BytesFactor("4kB", "kB")
    /\ BytesFactor("8kB", "kB")
    /\ BytesFactor("16kB", "kB")
    /\ BytesFactor("32kB", "kB")
    /\ BytesFactor("64kB", "kB")
    /\ BytesFactor("16MB", "MB")
    /\ BytesFactor("32MB", "MB")
    /\ BytesFactor("64MB", "MB")
<1>1. /\ "B" \in DOMAIN Bytes /\ Bytes["B"] = 0
      /\ "kB" \in DOMAIN Bytes /\ Bytes["kB"] = 10
      /\ "MB" \in DOMAIN Bytes /\ Bytes["MB"] = 20
      /\ "GB" \in DOMAIN Bytes /\ Bytes["GB"] = 30
      /\ "TB" \in DOMAIN Bytes /\ Bytes["TB"] = 40
      /\ "4kB" \in DOMAIN Bytes /\ Bytes["4kB"] = 12
      /\ "8kB" \in DOMAIN Bytes /\ Bytes["8kB"] = 13
      /\ "16kB" \in DOMAIN Bytes /\ Bytes["16kB"] = 14
      /\ "32kB" \in DOMAIN Bytes /\ Bytes["32kB"] = 15
      /\ "64kB" \in DOMAIN Bytes /\ Bytes["64kB"] = 16
      /\ "16MB" \in DOMAIN Bytes /\ Bytes["16MB"] = 24
      /\ "32MB" \in DOMAIN Bytes /\ Bytes["32MB"] = 25
      /\ "64MB" \in DOMAIN Bytes /\ Bytes["64MB"] = 26
  BY DEF Bytes
<1>2. /\ Smaller["TB"][1] = "GB" /\ Smaller["TB"][2] = 1024
      /\ Smaller["GB"][1] = "MB" /\ Smaller["GB"][2] = 1024
      /\ Smaller["MB"][1] = "kB" /\ Smaller["MB"][2] = 1024
      /\ Smaller["kB"][1] = "B" /\ Smaller["kB"][2] = 1024
      /\ Smaller["4kB"][1] = "kB" /\ Smaller["4kB"][2] = 4
      /\ Smaller["8kB"][1] = "kB" /\ Smaller["8kB"][2] = 8
      /\ Smaller["16kB"][1] = "kB" /\ Smaller["16kB"][2] = 16
      /\ Smaller["32kB"][1] = "kB" /\ Smaller["32kB"][2] = 32
      /\ Smaller["64kB"][1] = "kB" /\ Smaller["64kB"][2] = 64
      /\ Smaller["16MB"][1] = "MB" /\ Smaller["16MB"][2] = 16
      /\ Smaller["32MB"][1] = "MB" /\ Smaller["32MB"][2] = 32
      /\ Smaller["64MB"][1] = "MB" /\ Smaller["64MB"][2] = 64
  BY DEF Smaller
<1>3. BytesFactor("TB", "GB")
  <2>1. /\ Smaller["TB"][1] = "GB"
        /\ "TB" \in DOMAIN Bytes /\ "GB" \in DOMAIN Bytes /\ Bytes["TB"] - Bytes["GB"] = 10
    BY <1>1, <1>2
  <2>2. Smaller["TB"][2] = 2 ^ 10 /\ Smaller["TB"][2] \in Nat
    BY <1>2, 2 ^ 10 = 1024
  <2> QED
    BY <2>1, <2>2, Zenon DEF BytesFactor
<1>4. BytesFactor("GB", "MB")
  <2>1. /\ Smaller["GB"][1] = "MB"
        /\ "GB" \in DOMAIN Bytes /\ "MB" \in DOMAIN Bytes /\ Bytes["GB"] - Bytes["MB"] = 10
    BY <1>1, <1>2
  <2>2. Smaller["GB"][2] = 2 ^ 10 /\ Smaller["GB"][2] \in Nat
    BY <1>2, 2 ^ 10 = 1024
  <2> QED
    BY <2>1, <2>2, Zenon DEF BytesFactor
<1>5. BytesFactor("MB", "kB")
  <2>1. /\ Smaller["MB"][1] = "kB"
        /\ "MB" \in DOMAIN Bytes /\ "kB" \in DOMAIN Bytes /\ Bytes["MB"] - Bytes["kB"] = 10
    BY <1>1, <1>2
  <2>2. Smaller["MB"][2] = 2 ^ 10 /\ Smaller["MB"][2] \in Nat
    BY <1>2, 2 ^ 10 = 1024
  <2> QED
    BY <2>1, <2>2, Zenon DEF BytesFactor
<1>6. BytesFactor("kB", "B")
  <2>1. /\ Smaller["kB"][1] = "B"
        /\ "kB" \in DOMAIN Bytes /\ "B" \in DOMAIN Bytes /\ Bytes["kB"] - Bytes["B"] = 10
    BY <1>1, <1>2
  <2>2. Smaller["kB"][2] = 2 ^ 10 /\ Smaller["kB"][2] \in Nat
    BY <1>2, 2 ^ 10 = 1024
  <2> QED
    BY <2>1, <2>2, Zenon DEF BytesFactor
<1>7. BytesFactor("4kB", "kB")
  <2>1. /\ Smaller["4kB"][1] = "kB"
        /\ "4kB" \in DOMAIN Bytes /\ "kB" \in DOMAIN Bytes /\ Bytes["4kB"] - Bytes["kB"] = 2
    BY <1>1, <1>2
  <2>2. Smaller["4kB"][2] = 2 ^ 2 /\ Smaller["4kB"][2] \in Nat
    BY <1>2, 2 ^ 2 = 4
  <2> QED
    BY <2>1, <2>2, Zenon DEF BytesFactor
<1>8. BytesFactor("8kB", "kB")
  <2>1. /\ Smaller["8kB"][1] = "kB"
        /\ "8kB" \in DOMAIN Bytes /\ "kB" \in DOMAIN Bytes /\ Bytes["8kB"] - Bytes["kB"] = 3
    BY <1>1, <1>2
  <2>2. Smaller["8kB"][2] = 2 ^ 3 /\ Smaller["8kB"][2] \in Nat
    BY <1>2, 2 ^ 3 = 8
  <2> QED
    BY <2>1, <2>2, Zenon DEF BytesFactor
<1>9. BytesFactor("16kB", "kB")
  <2>1. /\ Smaller["16kB"][1] = "kB"
        /\ "16kB" \in DOMAIN Bytes /\ "kB" \in DOMAIN Bytes /\ Bytes["16kB"] - Bytes["kB"] = 4
    BY <1>1, <1>2
  <2>2. Smaller["16kB"][2] = 2 ^ 4 /\ Smaller["16kB"][2] \in Nat
    BY <1>2, 2 ^ 4 = 16
  <2> QED
    BY <2>1, <2>2, Zenon DEF BytesFactor
<1>10. BytesFactor("32kB", "kB")
  <2>1. /\ Smaller["32kB"][1] = "kB"
        /\ "32kB" \in DOMAIN Bytes /\ "kB" \in DOMAIN Bytes /\ Bytes["32kB"] - Bytes["kB"] = 5
    BY <1>1, <1>2
  <2>2. Smaller["32kB"][2] = 2 ^ 5 /\ Smaller["32kB"][2] \in Nat
    BY <1>2, 2 ^ 5 = 32
  <2> QED
    BY <2>1, <2>2, Zenon DEF BytesFactor
<1>11. BytesFactor("64kB", "kB")
  <2>1. /\ Smaller["64kB"][1] = "kB"
        /\ "64kB" \in DOMAIN Bytes /\ "kB" \in DOMAIN Bytes /\ Bytes["64kB"] - Bytes["kB"] = 6
    BY <1>1, <1>2
  <2>2. Smaller["64kB"][2] = 2 ^ 6 /\ Smaller["64kB"][2] \in Nat
    BY <1>2, 2 ^ 6 = 64
  <2> QED
    BY <2>1, <2>2, Zenon DEF BytesFactor
<1>12. BytesFactor("16MB", "MB")
  <2>1. /\ Smaller["16MB"][1] = "MB"
        /\ "16MB" \in DOMAIN Bytes /\ "MB" \in DOMAIN Bytes /\ Bytes["16MB"] - Bytes["MB"] = 4
    BY <1>1, <1>2
  <2>2. Smaller["16MB"][2] = 2 ^ 4 /\ Smaller["16MB"][2] \in Nat
    BY <1>2, 2 ^ 4 = 16
  <2> QED
    BY <2>1, <2>2, Zenon DEF BytesFactor
<1>13. BytesFactor("32MB", "MB")
  <2>1. /\ Smaller["32MB"][1] = "MB"
        /\ "32MB" \in DOMAIN Bytes /\ "MB" \in DOMAIN Bytes /\ Bytes["32MB"] - Bytes["MB"] = 5
    BY <1>1, <1>2
  <2>2. Smaller["32MB"][2] = 2 ^ 5 /\ Smaller["32MB"][2] \in Nat
    BY <1>2, 2 ^ 5 = 32
  <2> QED
    BY <2>1, <2>2, Zenon DEF BytesFactor
<1>14. BytesFactor("64MB", "MB")
  <2>1. /\ Smaller["64MB"][1] = "MB"
        /\ "64MB" \in DOMAIN Bytes /\ "MB" \in DOMAIN Bytes /\ Bytes["64MB"] - Bytes["MB"] = 6
    BY <1>1, <1>2
  <2>2. Smaller["64MB"][2] = 2 ^ 6 /\ Smaller["64MB"][2] \in Nat
    BY <1>2, 2 ^ 6 = 64
  <2> QED
    BY <2>1, <2>2, Zenon DEF BytesFactor
<1> QED
  BY <1>3, <1>4, <1>5, <1>6, <1>7, <1>8, <1>9, <1>10, <1>11, <1>12, <1>13, <1>14

\* So is each unit of time.
LEMMA TimeFactors ==
    /\ TimeFactor("d", "h")
    /\ TimeFactor("h", "min")
    /\ TimeFactor("min", "s")
    /\ TimeFactor("s", "ms")
BY DEF TimeFactor, Smaller, Milliseconds

\* Smaller has no other units.
LEMMA Factors == \A u \in DOMAIN Smaller : \E v : BytesFactor(u, v) \/ TimeFactor(u, v)
<1>1. ASSUME NEW u \in DOMAIN Smaller
      PROVE  \/ u \in {"d", "h", "min", "s"}
             \/ u \in {"TB", "GB", "MB", "kB"}
             \/ u \in {"4kB", "8kB", "16kB", "32kB", "64kB"}
             \/ u \in {"16MB", "32MB", "64MB"}
  BY <1>1 DEF Smaller
<1>2. \A u \in {"d", "h", "min", "s"} : \E v : TimeFactor(u, v)
  BY TimeFactors, Zenon
<1>3. \A u \in {"TB", "GB", "MB", "kB"} : \E v : BytesFactor(u, v)
  BY BytesFactors, Zenon
<1>4. \A u \in {"4kB", "8kB", "16kB", "32kB", "64kB"} : \E v : BytesFactor(u, v)
  BY BytesFactors, Zenon
<1>5. \A u \in {"16MB", "32MB", "64MB"} : \E v : BytesFactor(u, v)
  BY BytesFactors, Zenon
<1> QED
  BY <1>1, <1>2, <1>3, <1>4, <1>5, Zenon

\* No quantity becomes the special value -1 in a smaller unit.
LEMMA NotSpecial ==
    ASSUME NEW n \in Int, n # -1, NEW times \in Nat
    PROVE  n * times \in Int /\ n * times # -1
<1>1. CASE n >= 0
  BY <1>1
<1>2. CASE n <= -2 /\ times = 0
  BY <1>2
<1>3. CASE n <= -2 /\ times >= 1
  BY <1>3
<1> QED
  BY <1>1, <1>2, <1>3

\* A metric equals itself.
LEMMA EqualToItself ==
    ASSUME NEW m, m.number \in Int, m.power \in Int
    PROVE  Equal(m, m)
<1>1. m.power - m.power = 0 /\ 2 ^ 0 = 1
  OBVIOUS
<1>2. 2 ^ (m.power - m.power) = 1
  BY <1>1, Zenon
<1>3. m.number * 1 = m.number
  OBVIOUS
<1>4. m.number * 2 ^ (m.power - m.power) = m.number
  BY <1>2, <1>3, Zenon
<1> QED
  BY <1>4, Zenon DEF Equal

\* The factors of the units are integers.
LEMMA UnitNumbers ==
    /\ \A u \in DOMAIN Bytes : Bytes[u] \in Int
    /\ \A u \in DOMAIN Milliseconds : Milliseconds[u] \in Int
<1>1. \A u \in DOMAIN Bytes : Bytes[u] \in Int
  BY DEF Bytes
<1>2. \A u \in DOMAIN Milliseconds : Milliseconds[u] \in Int
  BY DEF Milliseconds
<1> QED
  BY <1>1, <1>2

\* A metric without a unit is a number.
LEMMA UnitlessMetric ==
    ASSUME NEW name, name # "panic", NEW n \in Int
    PROVE  /\ Unitless(name, n) # Panic
           /\ Unitless(name, n).number \in Int /\ Unitless(name, n).power \in Int
<1>1. /\ Unitless(name, n).name = name
      /\ Unitless(name, n).number = n
      /\ Unitless(name, n).power = 0
  BY DEF Unitless
<1>2. Panic.name = "panic"
  BY DEF Panic
<1> QED
  BY <1>1, <1>2

\* The metric of such a setting is a number, never a panic.
LEMMA MetricOfPlain ==
    ASSUME NEW s \in Plain
    PROVE  /\ metric(s) # Panic
           /\ metric(s).number \in Int /\ metric(s).power \in Int
<1> DEFINE n == s.number
<1>1. n \in Int
  BY DEF Plain
<1>2. Panic.name = "panic"
  BY DEF Panic
<1>3. CASE s.vartype = "bool"
  <2>1. metric(s) = Unitless("", 1) \/ metric(s) = Unitless("", 0)
    BY <1>3, Zenon DEF metric, Unitless
  <2>2. 0 \in Int /\ 1 \in Int
    OBVIOUS
  <2>3. "" # "panic"
    OBVIOUS
  <2> QED
    BY <2>1, <2>2, <2>3, UnitlessMetric, Zenon
<1>4. ASSUME s.vartype # "bool", s.unit = ""
      PROVE  /\ metric(s) # Panic
             /\ metric(s).number \in Int /\ metric(s).power \in Int
  <2>1. metric(s) = Unitless("", n)
    BY <1>4, MetricOfNumber
  <2>2. "" # "panic"
    OBVIOUS
  <2> QED
    BY <1>1, <2>1, <2>2, UnitlessMetric, Zenon
<1>5. ASSUME s.vartype # "bool", s.unit \in DOMAIN Bytes
      PROVE  /\ metric(s) # Panic
             /\ metric(s).number \in Int /\ metric(s).power \in Int
  <2>1. metric(s) = InBytes(n, Bytes[s.unit])
    BY <1>5, MetricOfNumber
  <2>2. Bytes[s.unit] \in Int
    BY <1>5, UnitNumbers
  <2> QED
    BY <1>1, <1>2, <2>1, <2>2 DEF InBytes
<1>6. ASSUME s.vartype # "bool", s.unit \in DOMAIN Milliseconds
      PROVE  /\ metric(s) # Panic
             /\ metric(s).number \in Int /\ metric(s).power \in Int
  <2>1. metric(s) = InSeconds(n, Milliseconds[s.unit])
    BY <1>6, MetricOfNumber
  <2>2. Milliseconds[s.unit] \in Int
    BY <1>6, UnitNumbers
  <2> QED
    BY <1>1, <1>2, <2>1, <2>2 DEF InSeconds
<1>7. s.unit = "" \/ s.unit \in DOMAIN Bytes \/ s.unit \in DOMAIN Milliseconds
  BY Zenon DEF Plain, KnownUnits
<1> QED
  BY <1>3, <1>4, <1>5, <1>6, <1>7

\* A setting and the same quantity stated otherwise are the same metric.
LEMMA RestatedExact ==
    ASSUME NEW s \in Plain, NEW t \in Restated(s)
    PROVE  Equal(metric(s), metric(t))
<1> DEFINE n == s.number
<1>n. n \in Int
  BY DEF Plain
<1>1. ASSUME metric(s) = metric(t)
      PROVE  Equal(metric(s), metric(t))
  BY <1>1, MetricOfPlain, EqualToItself
<1>2. CASE s.vartype = "bool"
  <2>1. t.vartype = "bool" /\ t.on = s.on
    BY <1>2 DEF Restated, InUnit, Plain
  <2>2. metric(t) = metric(s)
    BY <1>2, <2>1 DEF metric
  <2> QED
    BY <1>1, <2>2
<1>3. CASE s.vartype # "bool" /\ t = [s EXCEPT !.tail = <<>>]
  <2>1. t \in Plain
    BY <1>3 DEF Plain, BytesSuffix
  <2>2. t.vartype # "bool" /\ t.unit = s.unit /\ t.number = s.number
    BY <1>3 DEF Plain
  <2>3. s.unit = "" \/ s.unit \in DOMAIN Bytes \/ s.unit \in DOMAIN Milliseconds
    BY Zenon DEF Plain, KnownUnits
  <2>4. metric(s) = metric(t)
    BY <1>3, <2>1, <2>2, <2>3, MetricOfNumber
  <2> QED
    BY <1>1, <2>4
<1>4. ASSUME NEW u \in {s.unit} \cap DOMAIN Smaller, s.vartype # "bool",
             t = InUnit(s, Smaller[u][1], Smaller[u][2])
      PROVE  Equal(metric(s), metric(t))
  <2> DEFINE times == Smaller[u][2]
  <2>1. u = s.unit
    BY <1>4
  <2>2. PICK v : BytesFactor(u, v) \/ TimeFactor(u, v)
    BY <1>4, Factors
  <2>3. Smaller[u][1] = v /\ times \in Nat /\ v \in KnownUnits
    BY <2>2, Zenon DEF BytesFactor, TimeFactor, KnownUnits
  <2>4. t = [s EXCEPT !.unit = v, !.number = IF n = -1 THEN -1 ELSE n * times]
    BY <1>4, <2>3 DEF InUnit
  <2> DEFINE m == IF n = -1 THEN -1 ELSE n * times
  <2>5. m \in Int /\ (m = -1 <=> n = -1)
    BY <1>n, <2>3, NotSpecial
  <2>6. t \in Plain /\ t.vartype # "bool" /\ t.unit = v /\ t.number = m
    BY <1>4, <2>3, <2>4, <2>5 DEF Plain
  <2>7. CASE BytesFactor(u, v)
    <3>1. metric(s) = InBytes(n, Bytes[u]) /\ metric(t) = InBytes(m, Bytes[v])
      BY <1>4, <2>1, <2>6, <2>7, MetricOfNumber DEF BytesFactor
    <3>2. CASE n = -1
      BY <2>5, <3>1, <3>2, <1>1 DEF InBytes
    <3>3. CASE n # -1
      <4>1. /\ metric(s) = [name |-> "bytes", number |-> n, power |-> Bytes[u]]
            /\ metric(t) = [name |-> "bytes", number |-> m, power |-> Bytes[v]]
        BY <2>5, <3>1, <3>3 DEF InBytes
      <4>2. n * 2 ^ (Bytes[u] - Bytes[v]) = m
        BY <2>7, <3>3 DEF BytesFactor
      <4> QED
        BY <4>1, <4>2 DEF Equal
    <3> QED
      BY <3>2, <3>3
  <2>8. CASE TimeFactor(u, v)
    <3>1. metric(s) = InSeconds(n, Milliseconds[u]) /\ metric(t) = InSeconds(m, Milliseconds[v])
      BY <1>4, <2>1, <2>6, <2>8, MetricOfNumber DEF TimeFactor
    <3>2. CASE n = -1
      BY <2>5, <3>1, <3>2, <1>1 DEF InSeconds
    <3>3. CASE n # -1
      <4>1. n * Milliseconds[u] = m * Milliseconds[v]
        <5>1. Milliseconds[u] = times * Milliseconds[v] /\ Milliseconds[v] \in Int
          BY <2>8 DEF TimeFactor
        <5> QED
          BY <1>n, <2>3, <3>3, <5>1
      <4> QED
        BY <1>1, <2>5, <3>1, <3>3, <4>1 DEF InSeconds
    <3> QED
      BY <3>2, <3>3
  <2> QED
    BY <2>2, <2>7, <2>8
<1> QED
  BY <1>2, <1>3, <1>4, Zenon DEF Restated
-----------------------------------------------------------------------------
\* What was exposed last of the settings was computed from one of the reports.
ExposedReport ==
    exposed.of = "settings" =>
        \E report \in Reports : exposed.metric = [s \in report |-> metric(s)]

\* The invariant is enough: a report is exposed exactly if its metrics are those of its
\* settings.
LEMMA ExposedReportExact == ExposedReport => SettingsExact
<1> SUFFICES ASSUME ExposedReport, exposed.of = "settings",
                    NEW s \in DOMAIN exposed.metric, s.unit \in KnownUnits, s.tail \in BytesSuffix
             PROVE  /\ exposed.metric[s] # Panic
                    /\ \A t \in Restated(s) : Equal(exposed.metric[s], metric(t))
  BY Zenon DEF SettingsExact
<1>1. PICK report \in Reports : exposed.metric = [r \in report |-> metric(r)]
  BY Zenon DEF ExposedReport
<1>2. s \in Setting
  BY <1>1, ServerQueriesAssumption, Zenon DEF ServerQueriesAssumption
<1>3. s \in Plain
  BY <1>2 DEF Setting, Plain
<1>4. exposed.metric[s] = metric(s)
  BY <1>1, Zenon
<1> QED
  BY <1>3, <1>4, MetricOfPlain, RestatedExact, Zenon

\* Every quantity that PostgreSQL reports, whatever the number, is exposed as the
\* same number in the same unit however it is stated (pg_setting.go, querySettings,
\* metric, normaliseUnit and sanitizeValue), and none is a panic.
THEOREM SettingsExactHolds == Spec => []SettingsExact
<1>1. Init => ExposedReport
  BY DEF Init, ExposedReport, Nothing
<1>2. ExposedReport /\ [Next]_vars => ExposedReport'
  <2> SUFFICES ASSUME ExposedReport, [Next]_vars
               PROVE  ExposedReport'
    OBVIOUS
  <2>1. CASE Upgrade
    BY <2>1 DEF Upgrade, ExposedReport, Nothing
  <2>2. CASE EditFile
    BY <2>2 DEF EditFile, ExposedReport, Nothing
  <2>3. CASE Restart
    BY <2>3 DEF Restart, ExposedReport, Nothing
  <2>4. CASE CheckMapVersions
    BY <2>4 DEF CheckMapVersions, ExposedReport, Nothing
  <2>5. ASSUME NEW ns \in DOMAIN metricMap, SkipNamespace(ns) \/ QueryFails(ns) \/ QueryAnswered(ns)
        PROVE  ExposedReport'
    BY <2>5 DEF SkipNamespace, QueryFails, QueryAnswered, Exposes, ExposedReport
  <2>6. ASSUME NEW report \in Reports, ReadSettings(report)
        PROVE  ExposedReport'
    BY <2>6, Zenon DEF ReadSettings, ExposedReport
  <2>7. CASE UNCHANGED vars
    BY <2>7 DEF vars, ExposedReport
  <2> QED
    BY <2>1, <2>2, <2>3, <2>4, <2>5, <2>6, <2>7 DEF Next
<1> QED
  BY <1>1, <1>2, ExposedReportExact, PTL DEF Spec
=============================================================================
