--------------------------- MODULE EvtCodecProofs ---------------------------
(***************************************************************************)
(* Theorems about EvtCodec, for every format, recording and buffer.        *)
(***************************************************************************)
EXTENDS EvtCodec, ArrayLemmas, TLAPS

-----------------------------------------------------------------------------
(* The clock.                                                              *)

\* The constants are numbers, and a margin holds a group of three masks.
LEMMA Sizes ==
  /\ H \in Nat /\ L \in Nat /\ V \in Nat /\ H >= 1 /\ L >= 1 /\ V >= 1
  /\ Reserve \in Nat /\ Reserve >= 3 * V /\ Pad \in Nat /\ Pad >= 2
  BY FormatsAssumption

\* The multiples of the period.
Multiples == {q * Period : q \in Nat}

\* One turn of the clock, and the numbers of whole turns.
LEMMA PeriodFacts ==
  /\ Period \in Nat /\ Period >= 1 /\ Period = H * L
  /\ Multiples \subseteq Nat /\ 0 \in Multiples
  /\ \A m \in Multiples : m % Period = 0 /\ m + Period \in Multiples
  <1>1. H \in Nat /\ L \in Nat /\ H >= 1 /\ L >= 1
    BY Sizes
  <1>2. \A h, l \in Nat : h >= 1 /\ l >= 1 => h * l \in Nat /\ h * l >= 1
    BY SMTT(30)
  <1>3. Period \in Nat /\ Period >= 1 /\ Period = H * L
    BY <1>1, <1>2 DEF Period
  <1> DEFINE p == Period
  <1>4. p \in Nat /\ p >= 1
    BY <1>3
  <1> HIDE DEF p
  <1>5. \A q \in Nat : q * p \in Nat /\ q * p + p = (q + 1) * p
    BY <1>4
  <1>6. \A q \in Nat : (q * p) % p = 0
    BY <1>4, SMTT(30)
  <1>7. 0 * p = 0
    BY <1>4
  <1>8. Multiples = {q * p : q \in Nat}
    BY DEF Multiples, p
  <1>9. Multiples \subseteq Nat
    BY <1>5, <1>8
  <1>10. 0 \in Multiples
    BY <1>7, <1>8
  <1>11. ASSUME NEW m \in Multiples
         PROVE  m % p = 0 /\ m + p \in Multiples
    <2>1. PICK q \in Nat : m = q * p
      BY <1>8
    <2>2. m % p = 0
      BY <1>6, <2>1
    <2>3. m + p = (q + 1) * p /\ q + 1 \in Nat
      BY <1>5, <2>1
    <2>4. m + p \in Multiples
      BY <1>8, <2>3
    <2> QED  BY <2>2, <2>4
  <1> QED  BY <1>3, <1>9, <1>10, <1>11 DEF p

\* A number in its two parts.
LEMMA Divided ==
  ASSUME NEW a \in Nat, NEW b \in Nat, b >= 1
  PROVE  \E q \in Nat, r \in 0 .. b - 1 : q = a \div b /\ r = a % b /\ a = q * b + r
  <1> DEFINE q == a \div b
             r == a - b * q
  <1>1. q \in Nat
    BY SMTT(30)
  <1>2. b * q <= a /\ a - b < b * q
    BY SMTT(30)
  <1>3. q = a \div b
    OBVIOUS
  <1> HIDE DEF q
  <1>4. b * q \in Nat /\ q * b = b * q
    BY <1>1
  <1>5. r \in 0 .. b - 1 /\ a = b * q + r
    BY <1>2, <1>4
  <1> HIDE DEF r
  <1>6. a % b = r
    BY <1>1, <1>5, SMTT(30)
  <1>7. a = q * b + r
    BY <1>4, <1>5
  <1> QED  BY <1>1, <1>3, <1>5, <1>6, <1>7, Zenon

\* ... which no other two are.
LEMMA DividedOnce ==
  ASSUME NEW b \in Nat, b >= 1, NEW q \in Nat, NEW r \in 0 .. b - 1, NEW p \in Nat,
         NEW s \in 0 .. b - 1, q * b + r = p * b + s
  PROVE  q = p /\ r = s
  <1>1. CASE q < p
    <2>1. q + 1 <= p
      BY <1>1
    <2>2. (q + 1) * b <= p * b
      BY <2>1, SMTT(30)
    <2>3. (q + 1) * b = q * b + b /\ q * b \in Nat /\ p * b \in Nat
      OBVIOUS
    <2> QED  BY <2>2, <2>3
  <1>2. CASE p < q
    <2>1. p + 1 <= q
      BY <1>2
    <2>2. (p + 1) * b <= q * b
      BY <2>1, SMTT(30)
    <2>3. (p + 1) * b = p * b + b /\ q * b \in Nat /\ p * b \in Nat
      OBVIOUS
    <2> QED  BY <2>2, <2>3
  <1>3. CASE p = q
    <2>1. p * b \in Nat
      OBVIOUS
    <2> QED  BY <1>3, <2>1
  <1> QED  BY <1>1, <1>2, <1>3

\* The period a time lies in.
Epoch(t) == (t \div Period) * Period

\* A time is the beginning of its period, its high part and its low part.
LEMMA TimeParts ==
  ASSUME NEW t \in Nat
  PROVE  /\ HighOf(t) \in 0 .. H - 1 /\ LowOf(t) \in 0 .. L - 1
         /\ Epoch(t) \in Multiples
         /\ t = Epoch(t) + HighOf(t) * L + LowOf(t)
  <1>1. H \in Nat /\ L \in Nat /\ H >= 1 /\ L >= 1
    BY Sizes
  <1>2. Period \in Nat /\ Period >= 1 /\ Period = H * L
    BY PeriodFacts
  <1> DEFINE a == t \div L
             l == t % L
             q == a \div H
             h == a % H
  <1>3. a \in Nat /\ l \in 0 .. L - 1 /\ t = a * L + l
    <2>1. PICK x \in Nat, y \in 0 .. L - 1 : x = t \div L /\ y = t % L /\ t = x * L + y
      BY <1>1, Divided
    <2>2. a = x /\ l = y
      BY <2>1
    <2> HIDE DEF a, l
    <2> QED  BY <2>1, <2>2
  <1> HIDE DEF a, l
  <1>4. q \in Nat /\ h \in 0 .. H - 1 /\ a = q * H + h
    <2>1. PICK x \in Nat, y \in 0 .. H - 1 : x = a \div H /\ y = a % H /\ a = x * H + y
      BY <1>1, <1>3, Divided
    <2>2. q = x /\ h = y
      BY <2>1
    <2> HIDE DEF q, h
    <2> QED  BY <2>1, <2>2
  <1> HIDE DEF q, h
  <1>5. a * L = q * (H * L) + h * L
    BY <1>1, <1>4, SMTT(30)
  <1>6. h * L + l \in 0 .. H * L - 1
    <2>1. h * L \in Nat /\ (h + 1) * L = h * L + L
      BY <1>1, <1>4
    <2>2. (h + 1) * L <= H * L
      <3>1. h + 1 <= H /\ h \in Nat
        BY <1>1, <1>4
      <3> QED  BY <1>1, <3>1, SMTT(30)
    <2>3. H * L \in Nat
      BY <1>1
    <2> QED  BY <1>1, <1>3, <2>1, <2>2, <2>3
  <1>7. t = q * Period + (h * L + l) /\ h * L + l \in 0 .. Period - 1
    <2>1. q * (H * L) \in Nat /\ h * L \in Nat
      BY <1>1, <1>4
    <2> QED  BY <1>2, <1>3, <1>5, <1>6, <2>1
  <1>8. t \div Period = q
    <2> DEFINE p == t \div Period
               r == t % Period
    <2>1. p \in Nat /\ r \in 0 .. Period - 1 /\ t = p * Period + r
      <3>1. PICK x \in Nat, y \in 0 .. Period - 1 :
                   x = t \div Period /\ y = t % Period /\ t = x * Period + y
        BY <1>2, Divided
      <3>2. p = x /\ r = y
        BY <3>1
      <3> HIDE DEF p, r
      <3> QED  BY <3>1, <3>2
    <2> HIDE DEF p, r
    <2>2. p = q
      BY <1>2, <1>4, <1>7, <2>1, DividedOnce, SMTT(30), ZenonT(30)
    <2> QED  BY <2>2 DEF p
  <1>9. Epoch(t) = q * Period
    BY <1>8 DEF Epoch
  <1>10. Epoch(t) \in Multiples
    BY <1>4, <1>9 DEF Multiples
  <1>11. HighOf(t) = h /\ LowOf(t) = l
    BY DEF HighOf, LowOf, h, l, a
  <1>12. q * Period \in Nat /\ h * L \in Nat
    BY <1>1, <1>2, <1>4
  <1>13. t = q * Period + h * L + l
    BY <1>3, <1>7, <1>12
  <1> QED  BY <1>3, <1>4, <1>9, <1>10, <1>11, <1>13

\* The high part of a later time, less than a period less one low part later:
\* it is smaller exactly if a period has ended, and the same only if the time
\* above the low part is.
LEMMA NextHigh ==
  ASSUME NEW t \in Nat, NEW d \in 0 .. (H - 1) * L
  PROVE  /\ t + d \in Nat
         /\ Epoch(t + d) = IF HighOf(t + d) < HighOf(t) THEN Epoch(t) + Period ELSE Epoch(t)
  <1>1. H \in Nat /\ L \in Nat /\ H >= 1 /\ L >= 1
    BY Sizes
  <1>2. Period \in Nat /\ Period >= 1 /\ Period = H * L
    BY PeriodFacts
  <1> DEFINE u == t + d
  <1>3. (H - 1) * L \in Nat /\ (H - 1) * L = H * L - L /\ H * L \in Nat
    BY <1>1
  <1>4. u \in Nat /\ d \in Nat
    BY <1>3
  <1> HIDE DEF u
  <1> DEFINE h == HighOf(t)
             l == LowOf(t)
             i == HighOf(u)
             m == LowOf(u)
             p == t \div Period
             q == u \div Period
  <1>5. h \in 0 .. H - 1 /\ l \in 0 .. L - 1 /\ t = Epoch(t) + h * L + l
    BY TimeParts
  <1>6. i \in 0 .. H - 1 /\ m \in 0 .. L - 1 /\ u = Epoch(u) + i * L + m
    BY <1>4, TimeParts
  <1>7. p \in Nat /\ Epoch(t) = p * Period
    BY <1>2, Divided DEF Epoch
  <1>8. q \in Nat /\ Epoch(u) = q * Period
    BY <1>2, <1>4, Divided DEF Epoch
  <1>9. u = t + d
    BY DEF u
  <1> HIDE DEF h, l, i, m, p, q
  <1>10. /\ h * L \in Nat /\ i * L \in Nat /\ p * Period \in Nat /\ q * Period \in Nat
         /\ h * L <= H * L - L /\ i * L <= H * L - L
    <2>1. \A x \in 0 .. H - 1 : x * L \in Nat /\ x * L <= (H - 1) * L
      BY <1>1, SMTT(30)
    <2> QED  BY <1>2, <1>3, <1>5, <1>6, <1>7, <1>8, <2>1
  <1>11. CASE q < p
    <2>1. (q + 1) * Period <= p * Period
      <3>1. q + 1 <= p /\ q + 1 \in Nat
        BY <1>7, <1>8, <1>11
      <3> QED  BY <1>2, <1>7, <3>1, SMTT(30)
    <2>2. (q + 1) * Period = q * Period + Period
      BY <1>2, <1>8
    <2> QED  BY <1>1, <1>2, <1>4, <1>5, <1>6, <1>7, <1>8, <1>9, <1>10, <2>1, <2>2
  <1>12. CASE q = p
    <2>1. i * L + L > h * L
      BY <1>1, <1>4, <1>5, <1>6, <1>7, <1>8, <1>9, <1>10, <1>12
    <2>2. ~ (i < h)
      <3>1. SUFFICES ASSUME i + 1 <= h
                     PROVE  FALSE
        BY <1>5, <1>6
      <3>2. (i + 1) * L <= h * L
        BY <1>1, <1>5, <1>6, <3>1, SMTT(30)
      <3>3. (i + 1) * L = i * L + L
        BY <1>1, <1>6
      <3> QED  BY <1>1, <1>10, <2>1, <3>2, <3>3
    <2> QED  BY <1>4, <1>7, <1>8, <1>9, <1>12, <2>2 DEF h, i
  <1>13. CASE q = p + 1
    <2>1. q * Period = p * Period + Period
      BY <1>2, <1>7, <1>13
    <2>2. i * L + m + L <= h * L + l
      BY <1>1, <1>2, <1>3, <1>4, <1>5, <1>6, <1>7, <1>8, <1>9, <1>10, <2>1
    <2>3. i * L < h * L
      BY <1>1, <1>5, <1>6, <1>10, <2>2
    <2>4. i < h
      <3>1. SUFFICES ASSUME h <= i
                     PROVE  FALSE
        BY <1>5, <1>6
      <3>2. h * L <= i * L
        BY <1>1, <1>5, <1>6, <3>1, SMTT(30)
      <3> QED  BY <1>10, <2>3, <3>2
    <2> QED  BY <1>4, <1>7, <1>8, <1>9, <2>1, <2>4 DEF h, i
  <1>14. CASE q > p + 1
    <2>1. (p + 2) * Period <= q * Period
      <3>1. p + 2 <= q /\ p + 2 \in Nat
        BY <1>7, <1>8, <1>14
      <3> QED  BY <1>2, <1>8, <3>1, SMTT(30)
    <2>2. (p + 2) * Period = p * Period + Period + Period
      BY <1>2, <1>7
    <2> QED  BY <1>1, <1>2, <1>3, <1>4, <1>5, <1>6, <1>7, <1>8, <1>9, <1>10, <2>1, <2>2
  <1>15. q < p \/ q = p \/ q = p + 1 \/ q > p + 1
    BY <1>7, <1>8
  <1> QED  BY <1>11, <1>12, <1>13, <1>14, <1>15

-----------------------------------------------------------------------------
(* What a vector word says.                                                *)

Events == [t : Nat, x : Nat, y : Nat]
Triggers == [t : Nat, id : Nat]

\* Sequences of no more than one member each.
LEMMA FlatShort ==
  ASSUME NEW S, NEW ss \in Seq(Seq(S)), \A i \in 1 .. Len(ss) : Len(ss[i]) <= 1
  PROVE  Len(Flat(ss)) <= Len(ss)
  <1> DEFINE n == Len(ss)
  <1>1. PICK u \in [0 .. n -> Seq(S)] :
              /\ u[0] = <<>> /\ Flat(ss) = u[n]
              /\ \A i \in 1 .. n : Extends(u, ss[i], i)
    BY FlatSteps
  <1>2. n \in Nat /\ \A i \in 1 .. n : ss[i] \in Seq(S) /\ Len(ss[i]) <= 1
    OBVIOUS
  <1> HIDE DEF n
  <1> DEFINE Bad == {k \in 0 .. n : ~ (Len(u[k]) <= k)}
  <1>3. Bad = {}
    <2>1. SUFFICES ASSUME Bad # {}
                   PROVE  FALSE
      OBVIOUS
    <2>2. Bad \subseteq Nat
      BY <1>2
    <2>3. PICK k \in Bad : \A x \in Bad : k <= x
      BY <2>1, <2>2, LeastNumber
    <2>4. k \in 0 .. n /\ ~ (Len(u[k]) <= k)
      BY <2>3
    <2>5. k # 0
      BY <1>1, <2>4
    <2>6. k \in 1 .. n /\ k - 1 \in 0 .. n
      BY <1>2, <2>4, <2>5
    <2>7. k - 1 \notin Bad
      BY <2>2, <2>3, <2>6
    <2>8. Len(u[k - 1]) <= k - 1
      BY <2>6, <2>7
    <2>9. u[k] = u[k - 1] \o ss[k]
      BY <1>1, <2>6 DEF Extends
    <2>10. u[k - 1] \in Seq(S) /\ ss[k] \in Seq(S) /\ Len(ss[k]) <= 1
      BY <1>1, <1>2, <2>6
    <2>11. Len(u[k]) = Len(u[k - 1]) + Len(ss[k])
      BY <2>9, <2>10
    <2>12. Len(u[k - 1]) \in Nat /\ Len(ss[k]) \in Nat
      BY <2>10
    <2> DEFINE a == Len(u[k])
               b == Len(u[k - 1])
               c == Len(ss[k])
    <2>13. k \in Nat
      BY <1>2, <2>4
    <2>14. ~ (a <= k) /\ b <= k - 1
      BY <2>4, <2>8
    <2>15. c <= 1 /\ a = b + c /\ b \in Nat /\ c \in Nat
      BY <2>10, <2>11, <2>12
    <2> HIDE DEF a, b, c
    <2> QED  BY <2>13, <2>14, <2>15
  <1>4. n \in 0 .. n
    BY <1>2
  <1>5. Len(u[n]) <= n
    BY <1>3, <1>4
  <1> QED  BY <1>1, <1>5 DEF n

\* Sequences of which only the first may have members.
LEMMA FlatFirst ==
  ASSUME NEW S, NEW ss \in Seq(Seq(S)), NEW n \in Nat, n >= 1, Len(ss) = n,
         \A i \in 2 .. n : ss[i] = <<>>
  PROVE  Flat(ss) = ss[1]
  <1> DEFINE u == [k \in 0 .. n |-> IF k = 0 THEN <<>> ELSE ss[1]]
  <1>1. ss[1] \in Seq(S)
    OBVIOUS
  <1>2. u[0] = <<>> /\ \A k \in 1 .. n : u[k] = ss[1]
    OBVIOUS
  <1> HIDE DEF u
  <1>3. ASSUME NEW i \in 1 .. Len(ss)
        PROVE  Extends(u, ss[i], i)
    <2>1. CASE i = 1
      <3>1. u[1] = ss[1] /\ u[1 - 1] = <<>> /\ <<>> \o ss[1] = ss[1]
        BY <1>1, <1>2
      <3> QED  BY <2>1, <3>1 DEF Extends
    <2>2. CASE i # 1
      <3>1. i \in 1 .. n /\ i - 1 \in 1 .. n /\ i \in 2 .. n
        BY <2>2
      <3>2. u[i] = ss[1] /\ u[i - 1] = ss[1] /\ ss[i] = <<>>
        BY <1>2, <3>1
      <3>3. ss[1] \o <<>> = ss[1]
        BY <1>1
      <3> QED  BY <3>2, <3>3 DEF Extends
    <2> QED  BY <2>1, <2>2
  <1>4. Flat(ss) = u[Len(ss)]
    <2> DEFINE q == Seq(S)
    <2>1. ss \in Seq(q)
      OBVIOUS
    <2> HIDE DEF q
    <2> QED  BY <1>2, <1>3, <2>1, FlatIs
  <1> QED  BY <1>2, <1>4

\* One event for each column, at most.
ColumnList(t, x, y, bits) ==
  [i \in 1 .. 3 * V |->
     IF i - 1 \in bits THEN <<[t |-> t, x |-> x + (i - 1), y |-> y]>> ELSE <<>>]

\* The events of a mask, column by column: one or none at each.
LEMMA ColumnListFacts ==
  ASSUME NEW t \in Nat, NEW x \in Nat, NEW y \in Nat, NEW bits
  PROVE  /\ ColumnList(t, x, y, bits) \in Seq(Seq(Events))
         /\ Len(ColumnList(t, x, y, bits)) = 3 * V
         /\ \A i \in 1 .. 3 * V :
              ColumnList(t, x, y, bits)[i] =
                IF i - 1 \in bits THEN <<[t |-> t, x |-> x + (i - 1), y |-> y]>> ELSE <<>>
         /\ Columns(t, x, y, bits) = Flat(ColumnList(t, x, y, bits))
         /\ 3 * V \in Nat /\ 3 * V >= 3
  <1> DEFINE n == 3 * V
             ss == ColumnList(t, x, y, bits)
             S == Seq(Events)
  <1>1. n \in Nat /\ n >= 3
    BY Sizes
  <1> HIDE DEF n
  <1>2. \A i \in 1 .. n : [t |-> t, x |-> x + (i - 1), y |-> y] \in Events
    BY <1>1 DEF Events
  <1>3. \A i \in 1 .. n : <<[t |-> t, x |-> x + (i - 1), y |-> y]>> \in S
    <2>1. \A e \in Events : <<e>> \in S
      OBVIOUS
    <2> HIDE DEF S
    <2> QED  BY <1>2, <2>1
  <1>4. <<>> \in S
    OBVIOUS
  <1> HIDE DEF S
  <1>5. ss = [i \in 1 .. n |->
                IF i - 1 \in bits THEN <<[t |-> t, x |-> x + (i - 1), y |-> y]>> ELSE <<>>]
    BY DEF ColumnList, n
  <1>6. \A i \in 1 .. n :
          ss[i] = IF i - 1 \in bits THEN <<[t |-> t, x |-> x + (i - 1), y |-> y]>> ELSE <<>>
    BY <1>5
  <1>7. Columns(t, x, y, bits) = Flat(ss)
    BY DEF Columns, ColumnList
  <1>8. DOMAIN ss = 1 .. n
    BY <1>5
  <1>9. \A i \in 1 .. n : ss[i] \in S
    BY <1>3, <1>4, <1>6
  <1>10. ss = [i \in 1 .. n |-> ss[i]]
    BY <1>5, <1>8
  <1> HIDE DEF ss
  <1>11. ss \in [1 .. n -> S]
    BY <1>9, <1>10
  <1>12. ss \in Seq(S) /\ Len(ss) = n
    BY <1>1, <1>11
  <1> QED  BY <1>1, <1>6, <1>7, <1>12 DEF n, ss, S

\* A mask gives events, at most one for each of its columns.
LEMMA ColumnsFacts ==
  ASSUME NEW t \in Nat, NEW x \in Nat, NEW y \in Nat, NEW bits
  PROVE  Columns(t, x, y, bits) \in Seq(Events) /\ Len(Columns(t, x, y, bits)) <= 3 * V
  <1> DEFINE ss == ColumnList(t, x, y, bits)
             n == 3 * V
  <1>1. /\ ss \in Seq(Seq(Events)) /\ Len(ss) = n
        /\ \A i \in 1 .. n :
             ss[i] = IF i - 1 \in bits THEN <<[t |-> t, x |-> x + (i - 1), y |-> y]>> ELSE <<>>
        /\ Columns(t, x, y, bits) = Flat(ss) /\ n \in Nat
    BY ColumnListFacts
  <1> HIDE DEF ss, n
  <1>2. \A i \in 1 .. Len(ss) : Len(ss[i]) <= 1
    <2>1. \A e : Len(<<e>>) <= 1 /\ Len(<<>>) <= 1
      OBVIOUS
    <2> QED  BY <1>1, <2>1
  <1>3. Len(Flat(ss)) <= Len(ss)
    BY <1>1, <1>2, FlatShort
  <1>4. Flat(ss) \in Seq(Events)
    BY <1>1, FlatType
  <1> QED  BY <1>1, <1>3, <1>4 DEF n

\* A vector of the first column alone is an event.
LEMMA ColumnsOne ==
  ASSUME NEW t \in Nat, NEW x \in Nat, NEW y \in Nat
  PROVE  Columns(t, x, y, {0}) = <<[t |-> t, x |-> x, y |-> y]>>
  <1> DEFINE ss == ColumnList(t, x, y, {0})
             n == 3 * V
  <1>1. /\ ss \in Seq(Seq(Events)) /\ Len(ss) = n
        /\ \A i \in 1 .. n :
             ss[i] = IF i - 1 \in {0} THEN <<[t |-> t, x |-> x + (i - 1), y |-> y]>> ELSE <<>>
        /\ Columns(t, x, y, {0}) = Flat(ss) /\ n \in Nat /\ n >= 3
    BY ColumnListFacts
  <1> HIDE DEF ss, n
  <1>2. \A i \in 2 .. n : ss[i] = <<>>
    <2>1. \A i \in 2 .. n : i \in 1 .. n /\ i - 1 \notin {0}
      BY <1>1
    <2> QED  BY <1>1, <2>1
  <1>3. ss[1] = <<[t |-> t, x |-> x, y |-> y]>>
    <2>1. 1 \in 1 .. n /\ 1 - 1 \in {0} /\ x + (1 - 1) = x
      BY <1>1
    <2>2. ss[1] = <<[t |-> t, x |-> x + (1 - 1), y |-> y]>>
      BY <1>1, <2>1
    <2> QED  BY <2>1, <2>2
  <1>4. Flat(ss) = ss[1]
    BY <1>1, <1>2, FlatFirst
  <1> QED  BY <1>1, <1>3, <1>4

-----------------------------------------------------------------------------
(* One word or group after the other.                                      *)

\* The words of a recording, and what a parser keeps between them.
Words ==
  [k : {"high"}, v : 0 .. H - 1] \cup [k : {"low"}, v : Nat] \cup [k : {"y"}, y : Nat]
  \cup [k : {"x", "base"}, x : Nat]
  \cup [k : {"v12", "v8", "mask", "other"}, bits : SUBSET Nat]
  \cup [k : {"cd", "vec"}, low : Nat, x : Nat, y : Nat]
  \cup [k : {"cd"}, low : Nat, x : Nat, y : Nat, bits : SUBSET Nat]
  \cup [k : {"trig"}, low : Nat, id : Nat]

States == [hh : Multiples, high : 0 .. H - 1, ts : Nat, y : Nat, vx : Nat]

\* The fields a word has, by its kind.
LEMMA WordFields ==
  ASSUME NEW w \in Words
  PROVE  /\ w.k = "high" => w.v \in 0 .. H - 1
         /\ w.k = "low" => w.v \in Nat
         /\ w.k = "y" => w.y \in Nat
         /\ w.k \in {"x", "base"} => w.x \in Nat
         /\ w.k \in {"cd", "vec"} => w.low \in Nat /\ w.x \in Nat /\ w.y \in Nat
         /\ w.k = "trig" => w.low \in Nat /\ w.id \in Nat
         /\ w.k \in {"high", "low", "y", "x", "base", "v12", "v8", "mask", "other",
                     "cd", "vec", "trig"}
  BY DEF Words

\* A parse, and a point of the reading: what has been read up to a position.
Parse(pos, from, state, events, triggers) ==
  [pos |-> pos, from |-> from, st |-> state, ev |-> events, tr |-> triggers]

Point(pos, state, events, triggers) ==
  [pos |-> pos, st |-> state, ev |-> events, tr |-> triggers]

Points == [pos : Nat, st : States, ev : Seq(Events), tr : Seq(Triggers)]

\* The columns of the vector group at i.
Three(ws, i) == UNION {{j * V + b : b \in ws[i + j].bits} : j \in 0 .. 2}

TimeOf(fm, state, w) == IF fm = "evt3" THEN state.ts ELSE Clock(state, w.low)

\* A vector word out of place.
Stray(ws, i) == i >= 3 /\ ws[i].k = "v8" /\ ws[i - 1].k # "v12"

\* In evt3, the word at i sets a part of the state.
Sets(w, old, new) ==
  \/ w.k = "low" /\ new = [old EXCEPT !.ts = Clock(old, w.v)]
  \/ w.k = "y" /\ new = [old EXCEPT !.y = w.y]
  \/ w.k = "base" /\ new = [old EXCEPT !.vx = w.x]

\* It is an address, or begins a vector group: the events of it.
Shows(ws, i, state, es) ==
  LET w == ws[i] IN
  \/ w.k = "x" /\ es = <<[t |-> state.ts, x |-> w.x, y |-> state.y]>>
  \/ w.k = "v12" /\ es = Columns(state.ts, state.vx, state.y, Three(ws, i))

\* In the other formats it is an event, or a vector.
Tells(fm, ws, i, state, es) ==
  LET w == ws[i] IN
  IF fm = "evt21" \/ w.k = "vec"
  THEN es = Columns(Clock(state, w.low), w.x, w.y, IF fm = "evt21" THEN w.bits ELSE ws[i + 1].bits)
  ELSE es = <<[t |-> Clock(state, w.low), x |-> w.x, y |-> w.y]>>

\* The words behind point c are read one by one, but groups as a whole, and
\* lead to point d.
Reads(fm, ws, c, d) ==
  LET i == c.pos + 1
      w == ws[i]
  IN /\ c.pos < Len(ws)
     /\ \/ w.k = "high" /\ d = Point(c.pos + 1, WithHigh(c.st, w.v), c.ev, c.tr)
        \/ w.k = "other" /\ d = Point(c.pos + 1, c.st, c.ev, c.tr)
        \/ fm = "evt3" /\ Stray(ws, i) /\ d = Point(c.pos + 1, c.st, c.ev, c.tr)
        \/ /\ w.k = "trig"
           /\ d = Point(c.pos + 1, c.st, c.ev,
                        c.tr \o <<[t |-> TimeOf(fm, c.st, w), id |-> w.id]>>)
        \/ fm = "evt3" /\ \E new \in States :
             Sets(w, c.st, new) /\ d = Point(c.pos + 1, new, c.ev, c.tr)
        \/ fm = "evt3" /\ w.k = "x" /\ \E es \in Seq(Events) :
             Shows(ws, i, c.st, es) /\ d = Point(c.pos + 1, c.st, c.ev \o es, c.tr)
        \/ /\ fm = "evt3" /\ w.k = "v12" /\ c.pos + 3 <= Len(ws)
           /\ ws[i + 1].k = "v12" /\ ws[i + 2].k = "v8"
           /\ \E es \in Seq(Events) :
                /\ Shows(ws, i, c.st, es)
                /\ d = Point(c.pos + 3, [c.st EXCEPT !.vx = @ + 3 * V], c.ev \o es, c.tr)
        \/ fm # "evt3" /\ w.k = "cd" /\ \E es \in Seq(Events) :
             Tells(fm, ws, i, c.st, es) /\ d = Point(c.pos + 1, c.st, c.ev \o es, c.tr)
        \/ fm = "evt4" /\ w.k = "vec" /\ c.pos + 2 <= Len(ws) /\ \E es \in Seq(Events) :
             Tells(fm, ws, i, c.st, es) /\ d = Point(c.pos + 2, c.st, c.ev \o es, c.tr)

\* A step of the parser at c makes of any buffers the same as the reading does.
Parses(fm, ws, c, pos, new, es, ts) ==
  \A f \in Nat, a \in Seq(Events), b \in Seq(Triggers) :
    \E g \in Nat :
      /\ g = f \/ (g = pos /\ Stray(ws, c.pos + 1))
      /\ Step(fm, ws, Parse(c.pos, f, c.st, a, b)) = Parse(pos, g, new, a \o es, b \o ts)

\* The same without a vector word out of place, without triggers, and without
\* events.
Plainly(fm, ws, c, pos, new, es, ts) ==
  \A f \in Nat, a \in Seq(Events), b \in Seq(Triggers) :
    Step(fm, ws, Parse(c.pos, f, c.st, a, b)) = Parse(pos, f, new, a \o es, b \o ts)

Loudly(fm, ws, c, pos, new, es) ==
  \A f \in Nat, a \in Seq(Events), b \in Seq(Triggers) :
    Step(fm, ws, Parse(c.pos, f, c.st, a, b)) = Parse(pos, f, new, a \o es, b)

Silently(fm, ws, c, pos, new) ==
  \A f \in Nat, a \in Seq(Events), b \in Seq(Triggers) :
    Step(fm, ws, Parse(c.pos, f, c.st, a, b)) = Parse(pos, f, new, a, b)

Leads(fm, ws, c, d, k, es, ts) ==
  /\ d.pos = c.pos + k /\ d.ev = c.ev \o es /\ d.tr = c.tr \o ts
  /\ Len(es) <= Headroom(fm) + 1 /\ (fm = "evt3" => Len(es) <= k * V) /\ Len(ts) <= 1
  /\ Parses(fm, ws, c, d.pos, d.st, es, ts)

LeadsTo(fm, ws, c, d) ==
  \E k \in 1 .. 3 : \E es \in Seq(Events), ts \in Seq(Triggers) : Leads(fm, ws, c, d, k, es, ts)

\* The time of a word is a number.
LEMMA ClockType ==
  ASSUME NEW s \in States, NEW low \in Nat
  PROVE  Clock(s, low) \in Nat
  <1>0. s.hh \in Multiples /\ s.high \in 0 .. H - 1
    BY DEF States
  <1>1. L \in Nat /\ H \in Nat
    BY Sizes
  <1>2. s.hh \in Nat
    BY <1>0, PeriodFacts, Zenon
  <1>3. s.high \in Nat
    BY <1>0, <1>1
  <1>4. s.high * L \in Nat
    BY <1>1, <1>3
  <1> QED  BY <1>2, <1>3, <1>4 DEF Clock

\* A high word leaves the decoder in a state.
LEMMA HighType ==
  ASSUME NEW s \in States, NEW v \in 0 .. H - 1
  PROVE  WithHigh(s, v) \in States
  <1>1. s.hh \in Multiples /\ s.hh + Period \in Multiples
    BY PeriodFacts DEF States
  <1>2. [s EXCEPT !.hh = s.hh, !.high = v] \in States
    BY <1>1 DEF States
  <1>3. [s EXCEPT !.hh = s.hh + Period, !.high = v] \in States
    BY <1>1 DEF States
  <1> QED  BY <1>2, <1>3 DEF WithHigh


\* How much room a word may take.
LEMMA Rooms ==
  ASSUME NEW fm \in Formats
  PROVE  /\ Headroom(fm) \in Nat /\ 1 <= Headroom(fm) + 1 /\ 1 <= 1 * V
         /\ fm # "evt2" => 3 * V <= Headroom(fm) + 1
         /\ 3 * V \in Nat /\ V \in Nat
  <1>1. V \in Nat /\ V >= 1 /\ Reserve \in Nat /\ Reserve >= 3 * V
    BY Sizes
  <1>2. Headroom(fm) = IF fm = "evt2" THEN 0 ELSE Reserve
    BY DEF Headroom
  <1>3. 1 * V = V /\ 3 * V \in Nat
    BY <1>1
  <1> QED  BY <1>1, <1>2, <1>3

\* A word that says nothing.
LEMMA Unchanged ==
  ASSUME NEW S, NEW a \in Seq(S)
  PROVE  a \o <<>> = a /\ <<>> \in Seq(S) /\ Len(<<>>) = 0
  OBVIOUS

\* It only changes the state.
LEMMA LeadsBy ==
  ASSUME NEW fm, NEW ws, NEW c \in Points, NEW d, NEW k \in 1 .. 3, NEW new \in States,
         NEW es \in Seq(Events), NEW ts \in Seq(Triggers),
         d = Point(c.pos + k, new, c.ev \o es, c.tr \o ts),
         Len(es) <= Headroom(fm) + 1, fm = "evt3" => Len(es) <= k * V, Len(ts) <= 1,
         Parses(fm, ws, c, c.pos + k, new, es, ts)
  PROVE  d \in Points /\ LeadsTo(fm, ws, c, d)
  <1>1. d.pos = c.pos + k /\ d.st = new /\ d.ev = c.ev \o es /\ d.tr = c.tr \o ts
    BY DEF Point
  <1>2. c.pos \in Nat /\ c.ev \in Seq(Events) /\ c.tr \in Seq(Triggers)
    BY DEF Points
  <1>3. c.pos + k \in Nat /\ c.ev \o es \in Seq(Events) /\ c.tr \o ts \in Seq(Triggers)
    BY <1>2
  <1>4. d \in Points
    BY <1>3 DEF Points, Point
  <1>5. Leads(fm, ws, c, d, k, es, ts)
    BY <1>1 DEF Leads
  <1> QED  BY <1>4, <1>5 DEF LeadsTo

\* A step that reads words with events leads from one point to another.
LEMMA LeadsPlainly ==
  ASSUME NEW fm, NEW ws, NEW c \in Points, NEW d, NEW k \in 1 .. 3, NEW new \in States,
         NEW es \in Seq(Events), NEW ts \in Seq(Triggers),
         d = Point(c.pos + k, new, c.ev \o es, c.tr \o ts),
         Len(es) <= Headroom(fm) + 1, fm = "evt3" => Len(es) <= k * V, Len(ts) <= 1,
         Plainly(fm, ws, c, c.pos + k, new, es, ts)
  PROVE  d \in Points /\ LeadsTo(fm, ws, c, d)
  <1>1. Parses(fm, ws, c, c.pos + k, new, es, ts)
    BY Zenon DEF Plainly, Parses
  <1> QED  BY <1>1, LeadsBy

\* And so does a step over one word without any.
LEMMA LeadsSilently ==
  ASSUME NEW fm \in Formats, NEW ws, NEW c \in Points, NEW d, NEW new \in States,
         d = Point(c.pos + 1, new, c.ev, c.tr), Silently(fm, ws, c, c.pos + 1, new)
  PROVE  d \in Points /\ LeadsTo(fm, ws, c, d)
  <1> DEFINE es == <<>>
             ts == <<>>
  <1>1. c.ev \in Seq(Events) /\ c.tr \in Seq(Triggers)
    BY DEF Points
  <1>2. /\ es \in Seq(Events) /\ ts \in Seq(Triggers) /\ Len(es) = 0 /\ Len(ts) = 0
        /\ \A a \in Seq(Events) : a \o es = a
        /\ \A b \in Seq(Triggers) : b \o ts = b
    BY Unchanged
  <1>3. Headroom(fm) \in Nat /\ 1 <= 1 * V /\ V \in Nat /\ 1 \in 1 .. 3
    BY Rooms
  <1> HIDE DEF es, ts
  <1>4. d = Point(c.pos + 1, new, c.ev \o es, c.tr \o ts)
    BY <1>1, <1>2
  <1>5. Plainly(fm, ws, c, c.pos + 1, new, es, ts)
    BY <1>2 DEF Plainly, Silently
  <1>6. Len(es) <= Headroom(fm) + 1 /\ Len(es) <= 1 * V /\ Len(ts) <= 1
    BY <1>2, <1>3
  <1> QED  BY <1>2, <1>3, <1>4, <1>5, <1>6, LeadsPlainly

\* It is an event, or several.
LEMMA LeadsLoudly ==
  ASSUME NEW fm \in Formats, NEW ws, NEW c \in Points, NEW d, NEW k \in 1 .. 3, NEW new \in States,
         NEW es \in Seq(Events), d = Point(c.pos + k, new, c.ev \o es, c.tr),
         Len(es) <= Headroom(fm) + 1, fm = "evt3" => Len(es) <= k * V,
         Loudly(fm, ws, c, c.pos + k, new, es)
  PROVE  d \in Points /\ LeadsTo(fm, ws, c, d)
  <1> DEFINE ts == <<>>
  <1>1. c.tr \in Seq(Triggers)
    BY DEF Points
  <1>2. ts \in Seq(Triggers) /\ Len(ts) = 0 /\ \A b \in Seq(Triggers) : b \o ts = b
    BY Unchanged
  <1> HIDE DEF ts
  <1>4. d = Point(c.pos + k, new, c.ev \o es, c.tr \o ts)
    BY <1>1, <1>2
  <1>5. Plainly(fm, ws, c, c.pos + k, new, es, ts)
    BY <1>2 DEF Plainly, Loudly
  <1>6. Len(ts) <= 1
    BY <1>2
  <1> QED  BY <1>2, <1>4, <1>5, <1>6, LeadsPlainly

\* What the words behind c are, and what may be behind them.
Here(ws, c) == c.pos < Len(ws)

\* What a point before a word has: its fields, and the word.
LEMMA PointFacts ==
  ASSUME NEW ws \in Seq(Words), NEW c \in Points, Here(ws, c)
  PROVE  /\ c.pos \in Nat /\ c.st \in States /\ c.ev \in Seq(Events) /\ c.tr \in Seq(Triggers)
         /\ ws[c.pos + 1] \in Words /\ c.pos + 1 \in 1 .. Len(ws) /\ Len(ws) \in Nat
  <1>1. c.pos \in Nat /\ c.st \in States /\ c.ev \in Seq(Events) /\ c.tr \in Seq(Triggers)
    BY DEF Points
  <1>2. c.pos + 1 \in 1 .. Len(ws) /\ Len(ws) \in Nat
    BY <1>1 DEF Here
  <1>3. ws[c.pos + 1] \in Words
    BY <1>2
  <1> QED  BY <1>1, <1>2, <1>3

\* A time word that no low part follows, and a word of no interest.
LEMMA HighSteps ==
  ASSUME NEW fm \in Formats, NEW ws, NEW c, ws[c.pos + 1].k = "high",
         fm = "evt3" => Kind(ws, c.pos + 2) # "low", c.pos \in Nat
  PROVE  Silently(fm, ws, c, c.pos + 1, WithHigh(c.st, ws[c.pos + 1].v))
  <1> SUFFICES ASSUME NEW f \in Nat, NEW a \in Seq(Events), NEW b \in Seq(Triggers)
               PROVE  Step(fm, ws, Parse(c.pos, f, c.st, a, b)) =
                        Parse(c.pos + 1, f, WithHigh(c.st, ws[c.pos + 1].v), a, b)
    BY DEF Silently
  <1>1. c.pos + 1 + 1 = c.pos + 2
    OBVIOUS
  <1>2. CASE fm = "evt3"
    BY <1>1, <1>2 DEF Step, StepEvt3, Move, Parse
  <1>3. CASE fm = "evt2"
    BY <1>3 DEF Step, StepEvt2, Move, Parse
  <1>4. CASE fm = "evt21"
    BY <1>4 DEF Step, StepEvt21, StepEvt2, Move, Parse
  <1>5. CASE fm = "evt4"
    BY <1>5 DEF Step, StepEvt4, StepEvt2, Move, Parse
  <1> QED  BY <1>2, <1>3, <1>4, <1>5 DEF Formats

\* A word of no known kind changes nothing.
LEMMA OtherSteps ==
  ASSUME NEW fm \in Formats, NEW ws, NEW c, ws[c.pos + 1].k = "other"
  PROVE  Silently(fm, ws, c, c.pos + 1, c.st)
  <1> SUFFICES ASSUME NEW f \in Nat, NEW a \in Seq(Events), NEW b \in Seq(Triggers)
               PROVE  Step(fm, ws, Parse(c.pos, f, c.st, a, b)) = Parse(c.pos + 1, f, c.st, a, b)
    BY DEF Silently
  <1>2. CASE fm = "evt3"
    BY <1>2 DEF Step, StepEvt3, Move, Parse
  <1>3. CASE fm = "evt2"
    BY <1>3 DEF Step, StepEvt2, Move, Parse
  <1>4. CASE fm = "evt21"
    BY <1>4 DEF Step, StepEvt21, StepEvt2, Move, Parse
  <1>5. CASE fm = "evt4"
    BY <1>5 DEF Step, StepEvt4, StepEvt2, Move, Parse
  <1> QED  BY <1>2, <1>3, <1>4, <1>5 DEF Formats

\* A vector word out of place is skipped, with a warning.
LEMMA StraySteps ==
  ASSUME NEW ws, NEW c, c.pos \in Nat, Stray(ws, c.pos + 1),
         NEW es \in Seq(Events), NEW ts \in Seq(Triggers), es = <<>>, ts = <<>>
  PROVE  Parses("evt3", ws, c, c.pos + 1, c.st, es, ts)
  <1> SUFFICES ASSUME NEW f \in Nat, NEW a \in Seq(Events), NEW b \in Seq(Triggers)
               PROVE  Step("evt3", ws, Parse(c.pos, f, c.st, a, b)) =
                        Parse(c.pos + 1, c.pos + 1, c.st, a \o es, b \o ts)
    BY DEF Parses
  <1>1. ws[c.pos + 1].k = "v8"
    BY DEF Stray
  <1>2. Step("evt3", ws, Parse(c.pos, f, c.st, a, b)) = Parse(c.pos + 1, c.pos + 1, c.st, a, b)
    BY <1>1 DEF Step, StepEvt3, Move, Parse
  <1>3. a \o es = a /\ b \o ts = b
    OBVIOUS
  <1> QED  BY <1>2, <1>3

\* A trigger.
LEMMA TriggerSteps ==
  ASSUME NEW fm \in Formats, NEW ws, NEW c, ws[c.pos + 1].k = "trig",
         NEW es \in Seq(Events), es = <<>>, NEW t,
         t = [t |-> TimeOf(fm, c.st, ws[c.pos + 1]), id |-> ws[c.pos + 1].id],
         t \in Triggers, NEW ts, ts = <<t>>
  PROVE  Plainly(fm, ws, c, c.pos + 1, c.st, es, ts)
  <1> SUFFICES ASSUME NEW f \in Nat, NEW a \in Seq(Events), NEW b \in Seq(Triggers)
               PROVE  Step(fm, ws, Parse(c.pos, f, c.st, a, b)) =
                        Parse(c.pos + 1, f, c.st, a \o es, b \o ts)
    BY DEF Plainly
  <1>1. a \o es = a
    OBVIOUS
  <1>2. b \o ts = Append(b, t)
    OBVIOUS
  <1>3. SUFFICES Step(fm, ws, Parse(c.pos, f, c.st, a, b)) =
                   Parse(c.pos + 1, f, c.st, a, Append(b, t))
    BY <1>1, <1>2
  <1>4. CASE fm = "evt3"
    BY <1>4 DEF Step, StepEvt3, EmitTrigger, Move, Parse, TimeOf
  <1>5. CASE fm = "evt2"
    BY <1>5 DEF Step, StepEvt2, EmitTrigger, Move, Parse, TimeOf
  <1>6. CASE fm = "evt21"
    BY <1>6 DEF Step, StepEvt21, StepEvt2, EmitTrigger, Move, Parse, TimeOf
  <1>7. CASE fm = "evt4"
    BY <1>7 DEF Step, StepEvt4, StepEvt2, EmitTrigger, Move, Parse, TimeOf
  <1> QED  BY <1>4, <1>5, <1>6, <1>7 DEF Formats

\* A word of evt3 that sets a part of the state.
LEMMA SetSteps ==
  ASSUME NEW ws, NEW c, NEW new, Sets(ws[c.pos + 1], c.st, new)
  PROVE  Silently("evt3", ws, c, c.pos + 1, new)
  <1> SUFFICES ASSUME NEW f \in Nat, NEW a \in Seq(Events), NEW b \in Seq(Triggers)
               PROVE  Step("evt3", ws, Parse(c.pos, f, c.st, a, b)) = Parse(c.pos + 1, f, new, a, b)
    BY DEF Silently
  <1> QED  BY DEF Step, StepEvt3, Move, Parse, Sets

\* An address, and a vector group.
LEMMA AddressSteps ==
  ASSUME NEW ws, NEW c, NEW es, ws[c.pos + 1].k = "x", Shows(ws, c.pos + 1, c.st, es)
  PROVE  Loudly("evt3", ws, c, c.pos + 1, c.st, es)
  <1> SUFFICES ASSUME NEW f \in Nat, NEW a \in Seq(Events), NEW b \in Seq(Triggers)
               PROVE  Step("evt3", ws, Parse(c.pos, f, c.st, a, b)) =
                        Parse(c.pos + 1, f, c.st, a \o es, b)
    BY DEF Loudly
  <1> QED  BY DEF Step, StepEvt3, Emit, Move, Parse, Shows

\* Three masks in a row are read at once, and move the base by 3 * V.
LEMMA GroupSteps ==
  ASSUME NEW ws, NEW c, NEW es, c.pos \in Nat, Len(ws) \in Nat, c.pos + 3 <= Len(ws),
         ws[c.pos + 1].k = "v12", ws[c.pos + 2].k = "v12", ws[c.pos + 3].k = "v8",
         Shows(ws, c.pos + 1, c.st, es)
  PROVE  Loudly("evt3", ws, c, c.pos + 3, [c.st EXCEPT !.vx = @ + 3 * V], es)
  <1> SUFFICES ASSUME NEW f \in Nat, NEW a \in Seq(Events), NEW b \in Seq(Triggers)
               PROVE  Step("evt3", ws, Parse(c.pos, f, c.st, a, b)) =
                        Parse(c.pos + 3, f, [c.st EXCEPT !.vx = @ + 3 * V], a \o es, b)
    BY DEF Loudly
  <1> DEFINE i == c.pos + 1
  <1>1. Kind(ws, i + 1) = "v12" /\ Kind(ws, i + 2) = "v8"
    <2>1. i + 1 = c.pos + 2 /\ i + 2 = c.pos + 3 /\ i + 1 <= Len(ws) /\ i + 2 <= Len(ws)
      OBVIOUS
    <2> QED  BY <2>1 DEF Kind
  <1>2. GroupLen(ws, i) = 3
    BY <1>1 DEF GroupLen
  <1>3. GroupBits(ws, i) = Three(ws, i)
    <2>1. 0 .. GroupLen(ws, i) - 1 = 0 .. 2
      BY <1>2
    <2> QED  BY <2>1, Zenon DEF GroupBits, Three
  <1>4. es = Columns(c.st.ts, c.st.vx, c.st.y, GroupBits(ws, i))
    BY <1>3 DEF Shows
  <1>5. ws[i].k = "v12"
    OBVIOUS
  <1> QED  BY <1>2, <1>4, <1>5 DEF Step, StepEvt3, Emit, Move, Parse

\* An event, or a vector, of the other formats.
LEMMA EventSteps ==
  ASSUME NEW fm \in Formats, fm # "evt3", NEW ws, NEW c, NEW es, ws[c.pos + 1].k = "cd",
         Tells(fm, ws, c.pos + 1, c.st, es)
  PROVE  Loudly(fm, ws, c, c.pos + 1, c.st, es)
  <1> SUFFICES ASSUME NEW f \in Nat, NEW a \in Seq(Events), NEW b \in Seq(Triggers)
               PROVE  Step(fm, ws, Parse(c.pos, f, c.st, a, b)) =
                        Parse(c.pos + 1, f, c.st, a \o es, b)
    BY DEF Loudly
  <1>1. CASE fm = "evt2"
    BY <1>1 DEF Step, StepEvt2, Emit, Move, Parse, Tells
  <1>2. CASE fm = "evt21"
    BY <1>2 DEF Step, StepEvt21, Emit, Move, Parse, Tells
  <1>3. CASE fm = "evt4"
    BY <1>3 DEF Step, StepEvt4, StepEvt2, Emit, Move, Parse, Tells
  <1> QED  BY <1>1, <1>2, <1>3 DEF Formats

\* A vector word of EVT4 is read with the mask behind it.
LEMMA VectorSteps ==
  ASSUME NEW ws, NEW c, NEW es, ws[c.pos + 1].k = "vec", c.pos \in Nat,
         Tells("evt4", ws, c.pos + 1, c.st, es)
  PROVE  Loudly("evt4", ws, c, c.pos + 2, c.st, es)
  <1> SUFFICES ASSUME NEW f \in Nat, NEW a \in Seq(Events), NEW b \in Seq(Triggers)
               PROVE  Step("evt4", ws, Parse(c.pos, f, c.st, a, b)) =
                        Parse(c.pos + 2, f, c.st, a \o es, b)
    BY DEF Loudly
  <1>1. c.pos + 1 + 1 = c.pos + 2
    OBVIOUS
  <1>2. es = Columns(Clock(c.st, ws[c.pos + 1].low), ws[c.pos + 1].x, ws[c.pos + 1].y,
                     ws[c.pos + 2].bits)
    BY <1>1 DEF Tells
  <1> QED  BY <1>2 DEF Step, StepEvt4, Emit, Move, Parse

\* Places counted one by one and at once.
LEMMA TwoOn ==
  \A p \in Nat : (p + 1) + 1 = p + 2 /\ (p + 1) + 2 = p + 3
  OBVIOUS

\* One word or group alone.
LEMMA SingleStep ==
  ASSUME NEW fm \in Formats, NEW ws \in Seq(Words), NEW c \in Points, NEW d,
         Reads(fm, ws, c, d), fm = "evt3" => (ws[c.pos + 1].k = "high" => Kind(ws, c.pos + 2) # "low")
  PROVE  d \in Points /\ LeadsTo(fm, ws, c, d)
  <1> DEFINE i == c.pos + 1
             w == ws[i]
  <1>1. Here(ws, c)
    BY DEF Reads, Here
  <1>2. /\ c.pos \in Nat /\ c.st \in States /\ c.ev \in Seq(Events) /\ c.tr \in Seq(Triggers)
        /\ w \in Words /\ i \in 1 .. Len(ws) /\ Len(ws) \in Nat
    BY <1>1, PointFacts
  <1>3. /\ Headroom(fm) \in Nat /\ 1 <= Headroom(fm) + 1 /\ 1 <= 1 * V
        /\ fm # "evt2" => 3 * V <= Headroom(fm) + 1
        /\ 3 * V \in Nat /\ V \in Nat
    BY Rooms
  <1>4. 1 \in 1 .. 3 /\ 2 \in 1 .. 3 /\ 3 \in 1 .. 3
    OBVIOUS
  <1>5. /\ w.k = "high" => w.v \in 0 .. H - 1
        /\ w.k = "low" => w.v \in Nat
        /\ w.k = "y" => w.y \in Nat
        /\ w.k \in {"x", "base"} => w.x \in Nat
        /\ w.k \in {"cd", "vec"} => w.low \in Nat /\ w.x \in Nat /\ w.y \in Nat
        /\ w.k = "trig" => w.low \in Nat /\ w.id \in Nat
    BY <1>2, WordFields
  <1>6. c.st.ts \in Nat /\ c.st.y \in Nat /\ c.st.vx \in Nat
    BY <1>2 DEF States
  <1>7. ASSUME w.k = "high", d = Point(i, WithHigh(c.st, w.v), c.ev, c.tr)
        PROVE  d \in Points /\ LeadsTo(fm, ws, c, d)
    <2>1. WithHigh(c.st, w.v) \in States
      BY <1>2, <1>5, <1>7, HighType
    <2>2. Silently(fm, ws, c, i, WithHigh(c.st, w.v))
      BY <1>2, <1>7, HighSteps
    <2> QED  BY <1>7, <2>1, <2>2, LeadsSilently
  <1>8. ASSUME w.k = "other", d = Point(i, c.st, c.ev, c.tr)
        PROVE  d \in Points /\ LeadsTo(fm, ws, c, d)
    <2>1. Silently(fm, ws, c, i, c.st)
      BY <1>8, OtherSteps
    <2> QED  BY <1>2, <1>8, <2>1, LeadsSilently
  <1>9. ASSUME fm = "evt3", Stray(ws, i), d = Point(i, c.st, c.ev, c.tr)
        PROVE  d \in Points /\ LeadsTo(fm, ws, c, d)
    <2> DEFINE es == <<>>
               ts == <<>>
    <2>1. es \in Seq(Events) /\ ts \in Seq(Triggers) /\ Len(es) = 0 /\ Len(ts) = 0
          /\ c.ev \o es = c.ev /\ c.tr \o ts = c.tr
      BY <1>2
    <2>2. es = <<>> /\ ts = <<>>
      OBVIOUS
    <2> HIDE DEF es, ts
    <2>3. Parses(fm, ws, c, i, c.st, es, ts)
      BY <1>2, <1>9, <2>1, <2>2, StraySteps
    <2>4. d = Point(c.pos + 1, c.st, c.ev \o es, c.tr \o ts)
      BY <1>9, <2>1
    <2>5. Len(es) <= Headroom(fm) + 1 /\ Len(es) <= 1 * V /\ Len(ts) <= 1
      BY <1>3, <2>1
    <2> QED  BY <1>2, <1>4, <2>1, <2>3, <2>4, <2>5, LeadsBy
  <1>10. ASSUME w.k = "trig",
                d = Point(i, c.st, c.ev, c.tr \o <<[t |-> TimeOf(fm, c.st, w), id |-> w.id]>>)
         PROVE  d \in Points /\ LeadsTo(fm, ws, c, d)
    <2> DEFINE t == [t |-> TimeOf(fm, c.st, w), id |-> w.id]
               es == <<>>
               ts == <<t>>
    <2>1. Clock(c.st, w.low) \in Nat
      BY <1>2, <1>5, <1>10, ClockType
    <2>2. t \in Triggers
      BY <1>5, <1>6, <1>10, <2>1 DEF TimeOf, Triggers
    <2>3. t = [t |-> TimeOf(fm, c.st, w), id |-> w.id] /\ ts = <<t>> /\ es = <<>>
      OBVIOUS
    <2>4. d = Point(i, c.st, c.ev, c.tr \o ts)
      BY <1>10
    <2> HIDE DEF t
    <2>5. ts \in Seq(Triggers) /\ Len(ts) = 1
      BY <2>2
    <2>6. es \in Seq(Events) /\ Len(es) = 0 /\ c.ev \o es = c.ev
      BY <1>2
    <2> HIDE DEF es, ts
    <2>7. Plainly(fm, ws, c, i, c.st, es, ts)
      BY <1>10, <2>2, <2>3, <2>6, TriggerSteps
    <2>8. d = Point(c.pos + 1, c.st, c.ev \o es, c.tr \o ts)
      BY <2>4, <2>6
    <2>9. Len(es) <= Headroom(fm) + 1 /\ Len(es) <= 1 * V /\ Len(ts) <= 1
      BY <1>3, <2>5, <2>6
    <2> QED  BY <1>2, <1>4, <2>5, <2>6, <2>7, <2>8, <2>9, LeadsPlainly
  <1>11. ASSUME fm = "evt3", NEW new \in States, Sets(w, c.st, new),
                d = Point(i, new, c.ev, c.tr)
         PROVE  d \in Points /\ LeadsTo(fm, ws, c, d)
    <2>1. Silently(fm, ws, c, i, new)
      BY <1>11, SetSteps
    <2> QED  BY <1>2, <1>11, <2>1, LeadsSilently
  <1>12. ASSUME fm = "evt3", w.k = "x", NEW es \in Seq(Events), Shows(ws, i, c.st, es),
                d = Point(i, c.st, c.ev \o es, c.tr)
         PROVE  d \in Points /\ LeadsTo(fm, ws, c, d)
    <2>1. Loudly(fm, ws, c, i, c.st, es)
      BY <1>12, AddressSteps
    <2>2. Len(es) = 1
      BY <1>12 DEF Shows
    <2>3. Len(es) <= Headroom(fm) + 1 /\ Len(es) <= 1 * V
      BY <1>3, <2>2
    <2> QED  BY <1>2, <1>4, <1>12, <2>1, <2>3, LeadsLoudly
  <1>13. ASSUME fm = "evt3", w.k = "v12", c.pos + 3 <= Len(ws), ws[i + 1].k = "v12",
                ws[i + 2].k = "v8", NEW es \in Seq(Events), Shows(ws, i, c.st, es),
                d = Point(c.pos + 3, [c.st EXCEPT !.vx = @ + 3 * V], c.ev \o es, c.tr)
         PROVE  d \in Points /\ LeadsTo(fm, ws, c, d)
    <2> DEFINE new == [c.st EXCEPT !.vx = @ + 3 * V]
    <2>1. i + 1 = c.pos + 2 /\ i + 2 = c.pos + 3
      BY <1>2, TwoOn, Zenon
    <2>2. Loudly(fm, ws, c, c.pos + 3, new, es)
      BY <1>2, <1>13, <2>1, GroupSteps
    <2>3. new \in States
      <3>1. c.st.vx + 3 * V \in Nat
        BY <1>3, <1>6
      <3>2. \A m \in Nat : [c.st EXCEPT !.vx = m] \in States
        BY <1>2 DEF States
      <3> QED  BY <3>1, <3>2
    <2>4. es = Columns(c.st.ts, c.st.vx, c.st.y, Three(ws, i))
      BY <1>13 DEF Shows
    <2>5. Len(es) <= 3 * V
      BY <1>6, <2>4, ColumnsFacts
    <2>6. 3 * V <= Headroom(fm) + 1
      BY <1>3, <1>13
    <2>7. Len(es) <= Headroom(fm) + 1
      BY <1>3, <2>5, <2>6
    <2>8. d = Point(c.pos + 3, new, c.ev \o es, c.tr)
      BY <1>13
    <2> HIDE DEF new
    <2> QED  BY <1>4, <2>2, <2>3, <2>5, <2>7, <2>8, LeadsLoudly
  <1>14. ASSUME fm # "evt3", w.k = "cd", NEW es \in Seq(Events), Tells(fm, ws, i, c.st, es),
                d = Point(i, c.st, c.ev \o es, c.tr)
         PROVE  d \in Points /\ LeadsTo(fm, ws, c, d)
    <2>1. Loudly(fm, ws, c, i, c.st, es)
      BY <1>14, EventSteps
    <2>2. Clock(c.st, w.low) \in Nat /\ w.x \in Nat /\ w.y \in Nat
      BY <1>2, <1>5, <1>14, ClockType
    <2>3. Len(es) <= Headroom(fm) + 1
      <3>1. CASE fm = "evt21"
        <4>1. es = Columns(Clock(c.st, w.low), w.x, w.y, w.bits)
          BY <1>14, <3>1 DEF Tells
        <4>2. Len(es) <= 3 * V
          BY <2>2, <4>1, ColumnsFacts
        <4> QED  BY <1>3, <3>1, <4>2
      <3>2. CASE fm # "evt21"
        <4>1. Len(es) = 1
          BY <1>14, <3>2 DEF Tells
        <4> QED  BY <1>3, <4>1
      <3> QED  BY <3>1, <3>2
    <2> QED  BY <1>2, <1>4, <1>14, <2>1, <2>3, LeadsLoudly
  <1>15. ASSUME fm = "evt4", w.k = "vec", c.pos + 2 <= Len(ws), NEW es \in Seq(Events),
                Tells(fm, ws, i, c.st, es), d = Point(c.pos + 2, c.st, c.ev \o es, c.tr)
         PROVE  d \in Points /\ LeadsTo(fm, ws, c, d)
    <2>1. Loudly(fm, ws, c, c.pos + 2, c.st, es)
      BY <1>2, <1>15, VectorSteps
    <2>2. Clock(c.st, w.low) \in Nat /\ w.x \in Nat /\ w.y \in Nat
      BY <1>2, <1>5, <1>15, ClockType
    <2>3. es = Columns(Clock(c.st, w.low), w.x, w.y, ws[i + 1].bits)
      BY <1>15 DEF Tells
    <2>4. Len(es) <= 3 * V
      BY <2>2, <2>3, ColumnsFacts
    <2>5. Len(es) <= Headroom(fm) + 1
      BY <1>3, <1>15, <2>4
    <2> QED  BY <1>2, <1>4, <1>15, <2>1, <2>5, LeadsLoudly
  <1> QED
    <2>1. \/ w.k = "high" /\ d = Point(i, WithHigh(c.st, w.v), c.ev, c.tr)
          \/ w.k = "other" /\ d = Point(i, c.st, c.ev, c.tr)
          \/ fm = "evt3" /\ Stray(ws, i) /\ d = Point(i, c.st, c.ev, c.tr)
          \/ /\ w.k = "trig"
             /\ d = Point(i, c.st, c.ev, c.tr \o <<[t |-> TimeOf(fm, c.st, w), id |-> w.id]>>)
          \/ fm = "evt3" /\ \E new \in States :
               Sets(w, c.st, new) /\ d = Point(i, new, c.ev, c.tr)
          \/ fm = "evt3" /\ w.k = "x" /\ \E es \in Seq(Events) :
               Shows(ws, i, c.st, es) /\ d = Point(i, c.st, c.ev \o es, c.tr)
          \/ /\ fm = "evt3" /\ w.k = "v12" /\ c.pos + 3 <= Len(ws)
             /\ ws[i + 1].k = "v12" /\ ws[i + 2].k = "v8"
             /\ \E es \in Seq(Events) :
                  /\ Shows(ws, i, c.st, es)
                  /\ d = Point(c.pos + 3, [c.st EXCEPT !.vx = @ + 3 * V], c.ev \o es, c.tr)
          \/ fm # "evt3" /\ w.k = "cd" /\ \E es \in Seq(Events) :
               Tells(fm, ws, i, c.st, es) /\ d = Point(i, c.st, c.ev \o es, c.tr)
          \/ fm = "evt4" /\ w.k = "vec" /\ c.pos + 2 <= Len(ws) /\ \E es \in Seq(Events) :
               Tells(fm, ws, i, c.st, es) /\ d = Point(c.pos + 2, c.st, c.ev \o es, c.tr)
      BY Zenon DEF Reads
    <2> HIDE DEF i, w
    <2> QED
      BY <2>1, <1>7, <1>8, <1>9, <1>10, <1>11, <1>12, <1>13, <1>14, <1>15, Zenon

\* A time word of evt3 and the low part behind it.
LEMMA PairStep ==
  ASSUME NEW ws \in Seq(Words), NEW c \in Points, NEW d \in Points, NEW e,
         Reads("evt3", ws, c, d), Reads("evt3", ws, d, e),
         ws[c.pos + 1].k = "high", Kind(ws, c.pos + 2) = "low"
  PROVE  e \in Points /\ LeadsTo("evt3", ws, c, e)
  <1> DEFINE i == c.pos + 1
             hi == WithHigh(c.st, ws[i].v)
             low == ws[i + 1].v
             new == [hi EXCEPT !.ts = Clock(hi, low)]
             es == <<>>
             ts == <<>>
  <1>1. Here(ws, c) /\ Here(ws, d)
    BY DEF Reads, Here
  <1>2. /\ c.pos \in Nat /\ c.st \in States /\ c.ev \in Seq(Events) /\ c.tr \in Seq(Triggers)
        /\ ws[i] \in Words /\ Len(ws) \in Nat
    BY <1>1, PointFacts
  <1>3. ws[i].v \in 0 .. H - 1
    BY <1>2, WordFields
  <1>4. hi \in States
    BY <1>2, <1>3, HighType
  <1>5. d = Point(i, hi, c.ev, c.tr)
    BY Zenon DEF Reads, Stray, Sets
  <1>6. d.pos = i /\ d.st = hi /\ d.ev = c.ev /\ d.tr = c.tr
    BY <1>5 DEF Point
  <1>7. i + 1 = c.pos + 2 /\ i + 1 <= Len(ws) /\ ws[i + 1].k = "low"
    BY <1>1, <1>2, <1>6 DEF Kind, Here
  <1>8. low \in Nat
    <2>1. ws[i + 1] \in Words
      BY <1>2, <1>7
    <2> QED  BY <1>7, <2>1, WordFields
  <1>9. Clock(hi, low) \in Nat
    BY <1>4, <1>8, ClockType
  <1>10. new \in States
    BY <1>4, <1>9 DEF States
  <1>11. e = Point(i + 1, new, c.ev, c.tr)
    <2> DEFINE w == ws[d.pos + 1]
    <2>1. w.k = "low" /\ w.v = low
      BY <1>6, <1>7
    <2>2. \E x \in States : Sets(w, d.st, x) /\ e = Point(d.pos + 1, x, d.ev, d.tr)
      BY <2>1, Zenon DEF Reads, Stray
    <2>3. PICK x \in States : Sets(w, d.st, x) /\ e = Point(d.pos + 1, x, d.ev, d.tr)
      BY <2>2
    <2>4. x = [d.st EXCEPT !.ts = Clock(d.st, w.v)]
      BY <2>1, <2>3 DEF Sets
    <2> QED  BY <1>6, <2>1, <2>3, <2>4
  <1>12. Silently("evt3", ws, c, c.pos + 2, new)
    <2> SUFFICES ASSUME NEW f \in Nat, NEW a \in Seq(Events), NEW b \in Seq(Triggers)
                 PROVE  Step("evt3", ws, Parse(c.pos, f, c.st, a, b)) = Parse(c.pos + 2, f, new, a, b)
      BY DEF Silently
    <2>1. Kind(ws, i + 1) = "low"
      BY <1>7
    <2> QED  BY <2>1 DEF Step, StepEvt3, Move, Parse
  <1>13. /\ es \in Seq(Events) /\ ts \in Seq(Triggers) /\ Len(es) = 0 /\ Len(ts) = 0
         /\ \A a \in Seq(Events) : a \o es = a
         /\ \A b \in Seq(Triggers) : b \o ts = b
    BY Unchanged
  <1> HIDE DEF es, ts, new
  <1>14. Plainly("evt3", ws, c, c.pos + 2, new, es, ts)
    BY <1>12, <1>13 DEF Plainly, Silently
  <1>15. e = Point(c.pos + 2, new, c.ev \o es, c.tr \o ts)
    BY <1>2, <1>7, <1>11, <1>13
  <1>16. Len(es) <= Headroom("evt3") + 1 /\ Len(es) <= 2 * V /\ Len(ts) <= 1
    <2>1. "evt3" \in Formats
      BY DEF Formats
    <2>2. Headroom("evt3") \in Nat /\ V \in Nat
      BY <2>1, Rooms
    <2>3. 2 * V \in Nat
      BY <2>2
    <2> QED  BY <1>13, <2>2, <2>3
  <1>17. 2 \in 1 .. 3
    OBVIOUS
  <1> QED  BY <1>10, <1>13, <1>14, <1>15, <1>16, <1>17, LeadsPlainly

-----------------------------------------------------------------------------
(* The reading of a recording.                                             *)

\* vs goes on where ws ends.
GoesOn(ws, vs) == Len(ws) <= Len(vs) /\ \A i \in 1 .. Len(ws) : vs[i] = ws[i]

\* What is read of a file is read the same when the file goes on.
LEMMA ReadsOn ==
  ASSUME NEW fm, NEW ws \in Seq(Words), NEW vs \in Seq(Words), GoesOn(ws, vs),
         NEW c \in Points, NEW d, Reads(fm, ws, c, d)
  PROVE  Reads(fm, vs, c, d)
  <1> DEFINE i == c.pos + 1
  <1>1. Here(ws, c)
    BY DEF Reads, Here
  <1>2. c.pos \in Nat /\ i \in 1 .. Len(ws) /\ Len(ws) \in Nat /\ Len(vs) \in Nat
    BY <1>1, PointFacts
  <1>3. vs[i] = ws[i] /\ c.pos < Len(vs)
    BY <1>1, <1>2 DEF GoesOn, Here
  <1>4. Stray(ws, i) => Stray(vs, i)
    <2>1. i >= 3 => i - 1 \in 1 .. Len(ws)
      BY <1>2
    <2> QED  BY <1>3, <2>1 DEF Stray, GoesOn
  <1>5. ASSUME c.pos + 2 <= Len(ws)
        PROVE  vs[i + 1] = ws[i + 1] /\ c.pos + 2 <= Len(vs)
    <2>1. i + 1 \in 1 .. Len(ws)
      BY <1>2, <1>5
    <2> QED  BY <1>2, <1>5, <2>1 DEF GoesOn
  <1>6. ASSUME c.pos + 3 <= Len(ws)
        PROVE  /\ vs[i + 1] = ws[i + 1] /\ vs[i + 2] = ws[i + 2] /\ c.pos + 3 <= Len(vs)
               /\ Three(vs, i) = Three(ws, i)
    <2>1. \A j \in 0 .. 2 : i + j \in 1 .. Len(ws)
      BY <1>2, <1>6
    <2>2. \A j \in 0 .. 2 : vs[i + j] = ws[i + j]
      BY <2>1 DEF GoesOn
    <2>3. Three(vs, i) = Three(ws, i)
      BY <2>2, ZenonT(30), SMTT(30) DEF Three
    <2>4. 1 \in 0 .. 2 /\ 2 \in 0 .. 2
      OBVIOUS
    <2>5. c.pos + 3 <= Len(vs)
      BY <1>2, <1>6 DEF GoesOn
    <2> QED  BY <2>2, <2>3, <2>4, <2>5
  <1>7. ws[i].k = "x" => \A es : Shows(ws, i, c.st, es) => Shows(vs, i, c.st, es)
    BY <1>3 DEF Shows
  <1>8. c.pos + 3 <= Len(ws) => \A es : Shows(ws, i, c.st, es) => Shows(vs, i, c.st, es)
    BY <1>3, <1>6 DEF Shows
  <1>9. ws[i].k = "cd" => \A es : Tells(fm, ws, i, c.st, es) => Tells(fm, vs, i, c.st, es)
    BY <1>3 DEF Tells
  <1>10. c.pos + 2 <= Len(ws) => \A es : Tells(fm, ws, i, c.st, es) => Tells(fm, vs, i, c.st, es)
    BY <1>3, <1>5 DEF Tells
  <1> QED
    BY <1>3, <1>4, <1>5, <1>6, <1>7, <1>8, <1>9, <1>10, Zenon DEF Reads

\* s is the beginning of t, which is transitive.
LEMMA BeginsFacts ==
  ASSUME NEW S, NEW a \in Seq(S), NEW b \in Seq(S)
  PROVE  /\ Begins(a, a) /\ Begins(a, a \o b) /\ Begins(<<>>, a)
         /\ \A c : Begins(c, a) /\ Len(c) \in Nat => Begins(c, a \o b)
  <1>1. /\ Len(a) \in Nat /\ Len(a \o b) >= Len(a)
        /\ \A i \in 1 .. Len(a) : (a \o b)[i] = a[i]
    BY Joined
  <1>2. Len(<<>>) = 0
    OBVIOUS
  <1>3. ASSUME NEW c, Begins(c, a), Len(c) \in Nat
        PROVE  Begins(c, a \o b)
    <2>1. Len(c) <= Len(a) /\ \A i \in 1 .. Len(c) : c[i] = a[i]
      BY <1>3 DEF Begins
    <2>2. Len(a \o b) \in Nat
      OBVIOUS
    <2>3. \A i \in 1 .. Len(c) : i \in 1 .. Len(a)
      BY <1>1, <1>3, <2>1
    <2> QED  BY <1>1, <1>3, <2>1, <2>2, <2>3 DEF Begins
  <1>4. Begins(a, a)
    BY <1>1 DEF Begins
  <1>5. Begins(a, a \o b)
    BY <1>1, <1>3, <1>4
  <1>6. Begins(<<>>, a)
    BY <1>1, <1>2 DEF Begins
  <1> QED  BY <1>3, <1>4, <1>5, <1>6

\* The points of a reading up to z: from each but z a step leads to another.
IsReading(fm, ws, C, z) ==
  /\ C \subseteq Points /\ z \in C /\ z.pos <= Len(ws)
  /\ \A c \in C : /\ c.pos <= z.pos /\ (c.pos = z.pos => c = z)
                  /\ Begins(c.ev, z.ev) /\ Begins(c.tr, z.tr)
  /\ \A c \in C : c.pos < z.pos => \E d \in C : Reads(fm, ws, c, d)

\* One that has not begun.
LEMMA ReadsNothing ==
  ASSUME NEW fm, NEW ws, NEW z \in Points, z.pos <= Len(ws)
  PROVE  IsReading(fm, ws, {z}, z)
  <1>1. z.pos \in Nat /\ z.ev \in Seq(Events) /\ z.tr \in Seq(Triggers)
    BY DEF Points
  <1>2. Begins(z.ev, z.ev) /\ Begins(z.tr, z.tr)
    BY <1>1, BeginsFacts
  <1>3. z.pos <= z.pos /\ ~ (z.pos < z.pos)
    BY <1>1
  <1> QED  BY <1>2, <1>3 DEF IsReading

\* It goes on with the recording, and word by word.
LEMMA ReadingOn ==
  ASSUME NEW fm, NEW ws \in Seq(Words), NEW vs \in Seq(Words), GoesOn(ws, vs),
         NEW C, NEW z, IsReading(fm, ws, C, z)
  PROVE  IsReading(fm, vs, C, z)
  <1>1. z \in Points
    BY DEF IsReading
  <1>2. z.pos \in Nat /\ Len(ws) \in Nat /\ Len(vs) \in Nat
    BY <1>1 DEF Points
  <1>3. z.pos <= Len(vs)
    BY <1>2 DEF IsReading, GoesOn
  <1>4. ASSUME NEW c \in C, c.pos < z.pos
        PROVE  \E d \in C : Reads(fm, vs, c, d)
    <2>1. PICK d \in C : Reads(fm, ws, c, d)
      BY <1>4 DEF IsReading
    <2>2. c \in Points
      BY DEF IsReading
    <2>3. Reads(fm, vs, c, d)
      BY <2>1, <2>2, ReadsOn
    <2> QED  BY <2>3
  <1> QED  BY <1>3, <1>4, Zenon DEF IsReading

\* A reading goes on by one step more.
LEMMA ReadingGrows ==
  ASSUME NEW fm \in Formats, NEW ws \in Seq(Words), NEW C, NEW z, IsReading(fm, ws, C, z),
         NEW d \in Points, Reads(fm, ws, z, d), z.pos < d.pos, d.pos <= Len(ws),
         Begins(z.ev, d.ev), Begins(z.tr, d.tr)
  PROVE  IsReading(fm, ws, C \cup {d}, d)
  <1> DEFINE D == C \cup {d}
  <1>1. z \in Points /\ z \in C /\ C \subseteq Points
    BY DEF IsReading
  <1>2. z.pos \in Nat /\ d.pos \in Nat /\ d.ev \in Seq(Events) /\ d.tr \in Seq(Triggers)
    BY <1>1 DEF Points
  <1>3. ASSUME NEW c \in C
        PROVE  /\ c.pos < d.pos /\ Begins(c.ev, d.ev) /\ Begins(c.tr, d.tr)
               /\ \E e \in D : Reads(fm, ws, c, e)
    <2>1. c \in Points
      BY <1>1
    <2>2. c.pos \in Nat /\ Len(c.ev) \in Nat /\ Len(c.tr) \in Nat
      BY <2>1 DEF Points
    <2>3. c.pos <= z.pos /\ (c.pos = z.pos => c = z) /\ Begins(c.ev, z.ev) /\ Begins(c.tr, z.tr)
      BY DEF IsReading
    <2>4. c.pos < d.pos
      BY <1>2, <2>2, <2>3
    <2>5. z.ev \in Seq(Events) /\ z.tr \in Seq(Triggers)
      BY <1>1 DEF Points
    <2>6. \A x, y, w : /\ Len(x) \in Nat /\ Len(y) \in Nat /\ Len(w) \in Nat
                       /\ Begins(x, y) /\ Begins(y, w) => Begins(x, w)
      <3> SUFFICES ASSUME NEW x, NEW y, NEW w, Len(x) \in Nat, Len(y) \in Nat, Len(w) \in Nat,
                          Begins(x, y), Begins(y, w)
                   PROVE  Begins(x, w)
        OBVIOUS
      <3>1. Len(x) <= Len(y) /\ Len(y) <= Len(w)
        BY DEF Begins
      <3>2. \A i \in 1 .. Len(x) : i \in 1 .. Len(y)
        BY <3>1
      <3>3. \A i \in 1 .. Len(x) : x[i] = w[i]
        BY <3>2 DEF Begins
      <3> QED  BY <3>1, <3>3 DEF Begins
    <2>7. Begins(c.ev, d.ev) /\ Begins(c.tr, d.tr)
      <3>1. /\ Len(z.ev) \in Nat /\ Len(z.tr) \in Nat /\ Len(d.ev) \in Nat /\ Len(d.tr) \in Nat
        BY <1>2, <2>5
      <3> QED  BY <2>2, <2>3, <2>6, <3>1, Zenon
    <2>8. \E e \in D : Reads(fm, ws, c, e)
      <3>1. CASE c.pos < z.pos
        <4>1. \E e \in C : Reads(fm, ws, c, e)
          BY <3>1 DEF IsReading
        <4> QED  BY <4>1
      <3>2. CASE c = z
        BY <3>2
      <3> QED  BY <1>2, <2>2, <2>3, <3>1, <3>2
    <2> QED  BY <2>4, <2>7, <2>8
  <1>4. Begins(d.ev, d.ev) /\ Begins(d.tr, d.tr)
    BY <1>2, BeginsFacts
  <1>5. D \subseteq Points /\ d \in D
    BY <1>1
  <1>6. ASSUME NEW c \in D
        PROVE  /\ c.pos <= d.pos /\ (c.pos = d.pos => c = d)
               /\ Begins(c.ev, d.ev) /\ Begins(c.tr, d.tr)
               /\ c.pos < d.pos => \E e \in D : Reads(fm, ws, c, e)
    <2>1. CASE c \in C
      <3>1. c.pos \in Nat
        BY <1>1, <2>1 DEF Points
      <3> QED  BY <1>2, <1>3, <2>1, <3>1
    <2>2. CASE c = d
      BY <1>2, <1>4, <2>2
    <2> QED  BY <2>1, <2>2
  <1> QED  BY <1>5, <1>6, Zenon DEF IsReading

\* Where the parser is, before the last point of the reading, one of its steps
\* follows the reading to another point.
LEMMA ReadingSteps ==
  ASSUME NEW fm \in Formats, NEW ws \in Seq(Words), NEW C, NEW z, IsReading(fm, ws, C, z),
         Kind(ws, z.pos + 1) # "low", NEW c \in C, c.pos < z.pos
  PROVE  \E d \in C : LeadsTo(fm, ws, c, d)
  <1>1. z \in Points /\ C \subseteq Points /\ z.pos <= Len(ws)
    BY DEF IsReading
  <1>2. PICK d \in C : Reads(fm, ws, c, d)
    BY DEF IsReading
  <1>3. z.pos \in Nat /\ c.pos \in Nat /\ Len(ws) \in Nat /\ c \in Points /\ d \in Points
    BY <1>1 DEF Points
  <1>4. CASE fm = "evt3" => (ws[c.pos + 1].k = "high" => Kind(ws, c.pos + 2) # "low")
    BY <1>2, <1>3, <1>4, SingleStep
  <1>5. CASE fm = "evt3" /\ ws[c.pos + 1].k = "high" /\ Kind(ws, c.pos + 2) = "low"
    <2>1. d.pos = c.pos + 1
      <3>1. d = Point(c.pos + 1, WithHigh(c.st, ws[c.pos + 1].v), c.ev, c.tr)
        BY <1>2, <1>5, Zenon DEF Reads, Stray, Sets
      <3> QED  BY <3>1 DEF Point
    <2>2. d.pos # z.pos
      <3>1. d.pos + 1 = c.pos + 2
        BY <1>3, <2>1
      <3> QED  BY <1>5, <3>1
    <2>3. d.pos < z.pos
      BY <1>3, <2>1, <2>2
    <2>4. PICK e \in C : Reads(fm, ws, d, e)
      BY <2>3 DEF IsReading
    <2>5. LeadsTo("evt3", ws, c, e)
      BY <1>2, <1>3, <1>5, <2>4, PairStep
    <2> QED  BY <1>5, <2>5
  <1> QED  BY <1>4, <1>5

-----------------------------------------------------------------------------
(* The run of a parser, turn by turn.                                      *)

OneTurn(fm, ws, s0, x, cap, tcap, flush) ==
  CHOOSE t \in {Turn(fm, ws, s0, s, cap, tcap, flush) : s \in {x}} : TRUE

Turns(u, fm, ws, s0, cap, tcap, flush, k) ==
  u = [n \in 0 .. k |->
         IF n = 0 THEN s0 ELSE OneTurn(fm, ws, s0, u[n - 1], cap, tcap, flush)]

\* The turn of the loop is the one the model names.
LEMMA TurnTaken ==
  ASSUME NEW fm, NEW ws, NEW s0, NEW x, NEW cap, NEW tcap, NEW flush
  PROVE  OneTurn(fm, ws, s0, x, cap, tcap, flush) = Turn(fm, ws, s0, x, cap, tcap, flush)
  <1> DEFINE y == Turn(fm, ws, s0, x, cap, tcap, flush)
             S == {Turn(fm, ws, s0, s, cap, tcap, flush) : s \in {x}}
  <1>1. S = {y}
    OBVIOUS
  <1>2. OneTurn(fm, ws, s0, x, cap, tcap, flush) = CHOOSE t \in S : TRUE
    BY DEF OneTurn
  <1> HIDE DEF y, S
  <1>3. (CHOOSE t \in S : TRUE) \in S
    BY <1>1
  <1>4. OneTurn(fm, ws, s0, x, cap, tcap, flush) = y
    BY <1>1, <1>2, <1>3
  <1> QED  BY <1>4 DEF y

Turned(u, fm, ws, s0, cap, tcap, flush, k) ==
  /\ u[0] = s0
  /\ \A n \in 1 .. k : u[n] = Turn(fm, ws, s0, u[n - 1], cap, tcap, flush)

\* The turns of a parse, one after the other.
LEMMA TurnsFacts ==
  ASSUME NEW fm, NEW ws, NEW s0, NEW cap, NEW tcap, NEW flush, NEW k \in Nat, NEW u,
         Turns(u, fm, ws, s0, cap, tcap, flush, k)
  PROVE  Turned(u, fm, ws, s0, cap, tcap, flush, k)
  <1> DEFINE g == [n \in 0 .. k |->
                     IF n = 0 THEN s0 ELSE OneTurn(fm, ws, s0, u[n - 1], cap, tcap, flush)]
  <1>1. u = g
    BY DEF Turns
  <1>2. g[0] = s0
    OBVIOUS
  <1>3. ASSUME NEW n \in 1 .. k
        PROVE  g[n] = OneTurn(fm, ws, s0, u[n - 1], cap, tcap, flush)
    <2>1. n \in 0 .. k /\ n # 0
      OBVIOUS
    <2> QED  BY <2>1
  <1> HIDE DEF g
  <1> QED  BY <1>1, <1>2, <1>3, TurnTaken DEF Turned

\* A record of k - 1 turns goes on to k.
LEMMA TurnsNext ==
  ASSUME NEW fm, NEW ws, NEW s0, NEW cap, NEW tcap, NEW flush, NEW k \in Nat, 0 < k, NEW u,
         Turns(u, fm, ws, s0, cap, tcap, flush, k - 1)
  PROVE  \E v : Turns(v, fm, ws, s0, cap, tcap, flush, k)
  <1> DEFINE next(x) == OneTurn(fm, ws, s0, x, cap, tcap, flush)
             g == [n \in 0 .. k - 1 |-> IF n = 0 THEN s0 ELSE next(u[n - 1])]
             v == [n \in 0 .. k |-> IF n = k THEN next(u[k - 1]) ELSE u[n]]
  <1>1. k - 1 \in Nat
    OBVIOUS
  <1>2. u = g
    BY DEF Turns
  <1> HIDE DEF next
  <1>3. g[0] = s0 /\ \A n \in 1 .. k - 1 : g[n] = next(u[n - 1])
    <2>1. \A n \in 1 .. k - 1 : n \in 0 .. k - 1 /\ n # 0
      OBVIOUS
    <2>2. 0 \in 0 .. k - 1
      BY <1>1
    <2> QED  BY <2>1, <2>2
  <1> HIDE DEF g
  <1>4. ASSUME NEW n \in 0 .. k
        PROVE  v[n] = IF n = 0 THEN s0 ELSE next(v[n - 1])
    <2>1. CASE n = 0
      BY <1>2, <1>3, <2>1
    <2>2. CASE n \in 1 .. k - 1
      <3>1. v[n] = u[n] /\ v[n - 1] = u[n - 1] /\ n # 0
        BY <2>2
      <3> QED  BY <1>2, <1>3, <2>2, <3>1
    <2>3. CASE n = k
      <3>1. v[n] = next(u[k - 1]) /\ v[n - 1] = u[k - 1] /\ n # 0
        BY <2>3
      <3> QED  BY <2>3, <3>1
    <2> QED  BY <2>1, <2>2, <2>3
  <1>5. Turns(v, fm, ws, s0, cap, tcap, flush, k)
    BY <1>4 DEF Turns, next
  <1> QED  BY <1>5

\* So there is a record of any number of turns.
LEMMA TurnsExist ==
  ASSUME NEW fm, NEW ws, NEW s0, NEW cap, NEW tcap, NEW flush, NEW n \in Nat
  PROVE  \E u : Turns(u, fm, ws, s0, cap, tcap, flush, n)
  <1> DEFINE Some(k) == \E u : Turns(u, fm, ws, s0, cap, tcap, flush, k)
             Bad == {k \in Nat : ~ Some(k)}
  <1>1. SUFFICES ASSUME ~ Some(n)
                 PROVE  FALSE
    OBVIOUS
  <1>2. Bad # {} /\ Bad \subseteq Nat
    BY <1>1
  <1>3. PICK k \in Bad : \A x \in Bad : k <= x
    BY <1>2, LeastNumber
  <1>4. k \in Nat /\ ~ Some(k)
    BY <1>3
  <1>5. k # 0
    <2> DEFINE z == [i \in 0 .. 0 |-> s0]
    <2>1. \A i \in 0 .. 0 :
            (IF i = 0 THEN s0 ELSE OneTurn(fm, ws, s0, z[i - 1], cap, tcap, flush)) = s0
      OBVIOUS
    <2>2. Turns(z, fm, ws, s0, cap, tcap, flush, 0)
      BY <2>1 DEF Turns
    <2> QED  BY <1>4, <2>2
  <1>6. k - 1 \in Nat /\ 0 < k
    BY <1>4, <1>5
  <1>7. k - 1 \notin Bad
    BY <1>3, <1>6
  <1>8. PICK u : Turns(u, fm, ws, s0, cap, tcap, flush, k - 1)
    BY <1>6, <1>7
  <1> QED  BY <1>4, <1>6, <1>8, TurnsNext

\* The run ends with the last of its turns, and they are u.
RunsBy(u, N, fm, ws, s0, cap, tcap, flush) ==
  /\ Run(fm, ws, s0, cap, tcap, flush) = u[N]
  /\ u[0] = s0
  /\ \A n \in 1 .. N : u[n] = Turn(fm, ws, s0, u[n - 1], cap, tcap, flush)

\* A run is the last entry of such a record.
LEMMA RunTurns ==
  ASSUME NEW fm, NEW ws, NEW s0, NEW cap, NEW tcap, NEW flush, NEW N \in Nat, N = Len(ws)
  PROVE  \E u : RunsBy(u, N, fm, ws, s0, cap, tcap, flush)
  <1> DEFINE U == CHOOSE u : Turns(u, fm, ws, s0, cap, tcap, flush, N)
  <1>1. Run(fm, ws, s0, cap, tcap, flush) = U[N]
    BY DEF Run, Turns, OneTurn
  <1>2. Turns(U, fm, ws, s0, cap, tcap, flush, N)
    BY TurnsExist
  <1> HIDE DEF U
  <1>3. U[0] = s0 /\ \A n \in 1 .. N : U[n] = Turn(fm, ws, s0, U[n - 1], cap, tcap, flush)
    <2>1. Turned(U, fm, ws, s0, cap, tcap, flush, N)
      BY <1>2, TurnsFacts
    <2> QED  BY <2>1 DEF Turned
  <1>4. RunsBy(U, N, fm, ws, s0, cap, tcap, flush)
    BY <1>1, <1>3 DEF RunsBy
  <1> QED  BY <1>4

\* What holds before the first turn, and of the n-th if of the one before it.
TurnsKeep(T, N, fm, ws, s0, cap, tcap, flush) ==
  /\ s0 \in T[0]
  /\ \A n \in 1 .. N : \A s \in T[n - 1] : Turn(fm, ws, s0, s, cap, tcap, flush) \in T[n]

\* What every turn keeps holds of the whole run.
LEMMA RunHolds ==
  ASSUME NEW fm, NEW ws, NEW s0, NEW cap, NEW tcap, NEW flush, Len(ws) \in Nat,
         NEW T, TurnsKeep(T, Len(ws), fm, ws, s0, cap, tcap, flush)
  PROVE  Run(fm, ws, s0, cap, tcap, flush) \in T[Len(ws)]
  <1>1. PICK U : RunsBy(U, Len(ws), fm, ws, s0, cap, tcap, flush)
    BY RunTurns
  <1> DEFINE N == Len(ws)
             Bad == {k \in 0 .. N : U[k] \notin T[k]}
  <1>2. /\ Run(fm, ws, s0, cap, tcap, flush) = U[N]
        /\ U[0] = s0
        /\ \A n \in 1 .. N : U[n] = Turn(fm, ws, s0, U[n - 1], cap, tcap, flush)
    BY <1>1 DEF RunsBy
  <1>3. N \in Nat
    OBVIOUS
  <1>4. /\ s0 \in T[0]
        /\ \A n \in 1 .. N : \A s \in T[n - 1] : Turn(fm, ws, s0, s, cap, tcap, flush) \in T[n]
    BY DEF TurnsKeep
  <1> HIDE DEF N
  <1>5. Bad = {}
    <2>1. SUFFICES ASSUME Bad # {}
                   PROVE  FALSE
      OBVIOUS
    <2>2. Bad \subseteq Nat
      BY <1>3
    <2>3. PICK k \in Bad : \A x \in Bad : k <= x
      BY <2>1, <2>2, LeastNumber
    <2>4. k \in 0 .. N /\ U[k] \notin T[k]
      BY <2>3
    <2>5. k # 0
      BY <1>2, <1>4, <2>4
    <2>6. k \in 1 .. N /\ k - 1 \in 0 .. N /\ ~ (k <= k - 1)
      BY <1>3, <2>4, <2>5
    <2>7. k - 1 \notin Bad
      BY <2>3, <2>6
    <2>8. U[k - 1] \in T[k - 1]
      BY <2>6, <2>7
    <2> QED  BY <1>2, <1>4, <2>4, <2>6, <2>8
  <1>6. Run(fm, ws, s0, cap, tcap, flush) \in T[N]
    <2>1. N \in 0 .. N
      BY <1>3
    <2> QED  BY <1>2, <1>5, <2>1
  <1> QED  BY <1>6 DEF N

-----------------------------------------------------------------------------
(* A parse along the reading.                                              *)

Parsers == [pos : Nat, from : Nat, st : States, ev : Seq(Events), tr : Seq(Triggers)]

\* The buffers of s hold what the reading has found at c, after pre and preTr.
Holds(c, s, pre, preTr) == c.ev = pre \o s.ev /\ c.tr = preTr \o s.tr

\* The parser is where c is.
Stands(c, s) == c.pos = s.pos /\ c.st = s.st

HasStray(ws, n) == \E i \in 1 .. n : Stray(ws, i)

\* A step takes s to t, and what it may add to the buffers.
Steps(fm, ws, s, t) ==
  /\ t \in Parsers
  /\ s.pos < t.pos
  /\ t.from = s.from \/ (t.from = t.pos /\ Stray(ws, s.pos + 1))
  /\ Len(t.ev) <= Len(s.ev) + Headroom(fm) + 1 /\ Len(t.tr) <= Len(s.tr) + 1
  /\ fm = "evt3" => Len(t.ev) <= Len(s.ev) + (t.pos - s.pos) * V

\* The fields of a parser, and the parser made of them.
LEMMA ParseFields ==
  ASSUME NEW s \in Parsers
  PROVE  /\ s.pos \in Nat /\ s.from \in Nat /\ s.st \in States /\ s.ev \in Seq(Events)
         /\ s.tr \in Seq(Triggers) /\ Len(s.ev) \in Nat /\ Len(s.tr) \in Nat
         /\ s = Parse(s.pos, s.from, s.st, s.ev, s.tr)
  <1>1. /\ s.pos \in Nat /\ s.from \in Nat /\ s.st \in States /\ s.ev \in Seq(Events)
        /\ s.tr \in Seq(Triggers)
    BY DEF Parsers
  <1>2. s = Parse(s.pos, s.from, s.st, s.ev, s.tr)
    BY DEF Parsers, Parse
  <1> QED  BY <1>1, <1>2

\* Three sequences joined, grouped either way.
LEMMA Behind ==
  ASSUME NEW S, NEW a \in Seq(S), NEW b \in Seq(S), NEW c \in Seq(S)
  PROVE  (a \o b) \o c = a \o (b \o c) /\ Len(b \o c) = Len(b) + Len(c)
  OBVIOUS

\* A step from a point before the last one leads to another point.
LEMMA StepFollows ==
  ASSUME NEW fm \in Formats, NEW ws \in Seq(Words), NEW C, NEW z, IsReading(fm, ws, C, z),
         Kind(ws, z.pos + 1) # "low", NEW c \in C, c.pos < z.pos, NEW s \in Parsers,
         NEW pre \in Seq(Events), NEW preTr \in Seq(Triggers),
         Stands(c, s), Holds(c, s, pre, preTr), NEW t, t = Step(fm, ws, s)
  PROVE  \E d \in C : Stands(d, t) /\ Holds(d, t, pre, preTr) /\ Steps(fm, ws, s, t)
  <1>1. PICK d \in C : LeadsTo(fm, ws, c, d)
    BY ReadingSteps
  <1>2. PICK k \in 1 .. 3, es \in Seq(Events), ts \in Seq(Triggers) :
               Leads(fm, ws, c, d, k, es, ts)
    BY <1>1 DEF LeadsTo
  <1>3. /\ s.pos \in Nat /\ s.from \in Nat /\ s.st \in States /\ s.ev \in Seq(Events)
        /\ s.tr \in Seq(Triggers) /\ Len(s.ev) \in Nat /\ Len(s.tr) \in Nat
        /\ s = Parse(s.pos, s.from, s.st, s.ev, s.tr)
    BY ParseFields
  <1>4. d \in Points /\ d.pos \in Nat /\ d.st \in States
    BY DEF IsReading, Points
  <1>5. Parses(fm, ws, c, d.pos, d.st, es, ts)
    BY <1>2 DEF Leads
  <1>6. c.pos = s.pos /\ c.st = s.st
    BY DEF Stands
  <1>7. PICK g \in Nat :
              /\ g = s.from \/ (g = d.pos /\ Stray(ws, c.pos + 1))
              /\ t = Parse(d.pos, g, d.st, s.ev \o es, s.tr \o ts)
    <2> DEFINE f == s.from
               a == s.ev
               b == s.tr
    <2>1. f \in Nat /\ a \in Seq(Events) /\ b \in Seq(Triggers) /\ s = Parse(c.pos, f, c.st, a, b)
      BY <1>3, <1>6
    <2> HIDE DEF f, a, b
    <2>2. \E g \in Nat :
             /\ g = f \/ (g = d.pos /\ Stray(ws, c.pos + 1))
             /\ Step(fm, ws, Parse(c.pos, f, c.st, a, b)) = Parse(d.pos, g, d.st, a \o es, b \o ts)
      BY <1>5, <2>1, Zenon DEF Parses
    <2>3. \E g \in Nat :
             /\ g = f \/ (g = d.pos /\ Stray(ws, c.pos + 1))
             /\ t = Parse(d.pos, g, d.st, a \o es, b \o ts)
      BY <2>1, <2>2, Zenon
    <2> QED  BY <2>3 DEF f, a, b
  <1>8. /\ t.pos = d.pos /\ t.from = g /\ t.st = d.st /\ t.ev = s.ev \o es /\ t.tr = s.tr \o ts
    BY <1>7, SMTT(30), ZenonT(30) DEF Parse
  <1>9. s.ev \o es \in Seq(Events) /\ s.tr \o ts \in Seq(Triggers)
    BY <1>3
  <1>10. t \in Parsers
    BY <1>4, <1>7, <1>9 DEF Parsers, Parse
  <1>11. Len(t.ev) = Len(s.ev) + Len(es) /\ Len(t.tr) = Len(s.tr) + Len(ts)
         /\ Len(es) \in Nat /\ Len(ts) \in Nat
    BY <1>3, <1>8
  <1>12. Stands(d, t)
    BY <1>8 DEF Stands
  <1>13. Holds(d, t, pre, preTr)
    <2>1. d.ev = c.ev \o es /\ d.tr = c.tr \o ts
      BY <1>2 DEF Leads
    <2>2. c.ev = pre \o s.ev /\ c.tr = preTr \o s.tr
      BY DEF Holds
    <2>3. (pre \o s.ev) \o es = pre \o (s.ev \o es)
      <3>1. \A a, b \in Seq(Events) : (pre \o a) \o b = pre \o (a \o b)
        BY Behind, SMTT(30), ZenonT(30)
      <3> QED  BY <1>3, <3>1, Zenon
    <2>4. (preTr \o s.tr) \o ts = preTr \o (s.tr \o ts)
      <3>1. \A a, b \in Seq(Triggers) : (preTr \o a) \o b = preTr \o (a \o b)
        BY Behind, SMTT(30), ZenonT(30)
      <3> QED  BY <1>3, <3>1, Zenon
    <2> QED  BY <1>8, <2>1, <2>2, <2>3, <2>4 DEF Holds
  <1>14. d.pos = s.pos + k
    BY <1>2, <1>6 DEF Leads
  <1>15. Headroom(fm) \in Nat
    BY Rooms
  <1>16. /\ Len(es) <= Headroom(fm) + 1 /\ (fm = "evt3" => Len(es) <= k * V) /\ Len(ts) <= 1
    BY <1>2 DEF Leads
  <1>17. Len(t.ev) <= Len(s.ev) + Headroom(fm) + 1 /\ Len(t.tr) <= Len(s.tr) + 1
    BY <1>3, <1>11, <1>15, <1>16
  <1>18. fm = "evt3" => Len(t.ev) <= Len(s.ev) + (t.pos - s.pos) * V
    <2>1. t.pos - s.pos = k
      BY <1>3, <1>8, <1>14
    <2>2. k * V \in Nat
      BY Sizes
    <2> QED  BY <1>3, <1>11, <1>16, <2>1, <2>2
  <1>19. s.pos < t.pos
    BY <1>3, <1>8, <1>14
  <1>20. t.from = s.from \/ (t.from = t.pos /\ Stray(ws, s.pos + 1))
    BY <1>6, <1>7, <1>8
  <1> QED  BY <1>10, <1>12, <1>13, <1>17, <1>18, <1>19, <1>20 DEF Steps

\* The recording ends where the reading does, or, in evt4, one word later, in
\* the middle of a vector.
Whole(fm, ws, z) ==
  \/ z.pos = Len(ws)
  \/ fm = "evt4" /\ z.pos = Len(ws) - 1 /\ ws[Len(ws)].k = "vec"

\* At the end of the reading of a whole recording the parser runs dry.
LEMMA WholeFacts ==
  ASSUME NEW fm \in Formats, NEW ws \in Seq(Words), NEW z, z.pos \in Nat, Whole(fm, ws, z)
  PROVE  /\ Kind(ws, z.pos + 1) # "low"
         /\ \A s : s.pos = z.pos => Dry(fm, ws, s)
  <1>1. Len(ws) \in Nat /\ Pad \in Nat
    BY Sizes
  <1>2. CASE z.pos = Len(ws)
    <2>1. Kind(ws, z.pos + 1) # "low"
      BY <1>1, <1>2 DEF Kind
    <2>2. \A s : s.pos = z.pos => Dry(fm, ws, s)
      BY <1>1, <1>2 DEF Dry
    <2> QED  BY <2>1, <2>2
  <1>3. CASE z.pos = Len(ws) - 1 /\ ws[Len(ws)].k = "vec"
    <2>1. z.pos + 1 = Len(ws) /\ Len(ws) <= Len(ws) /\ z.pos + 2 > Len(ws)
      BY <1>1, <1>3
    <2>2. Kind(ws, z.pos + 1) = "vec"
      BY <1>3, <2>1 DEF Kind
    <2>3. \A s : s.pos = z.pos => Dry(fm, ws, s)
      BY <2>1, <2>2 DEF Dry
    <2> QED  BY <2>2, <2>3
  <1> QED  BY <1>2, <1>3 DEF Whole

\* A turn is a step, unless the parse must stop.
LEMMA TurnSteps ==
  ASSUME NEW fm, NEW ws, NEW s0, NEW s, NEW cap, NEW tcap, NEW flush \in BOOLEAN, NEW t,
         t = Turn(fm, ws, s0, s, cap, tcap, flush)
  PROVE  \/ t = s /\ (Full(fm, s, cap, tcap) \/ Dry(fm, ws, s) \/ (flush /\ s.from > s0.from))
         \/ t = Step(fm, ws, s) /\ ~ Full(fm, s, cap, tcap) /\ ~ Dry(fm, ws, s)
  BY Zenon DEF Turn

\* A step from buffers that are not full does not write beyond their ends.
LEMMA StaysInside ==
  ASSUME NEW fm \in Formats, NEW ws, NEW s \in Parsers, NEW t, Steps(fm, ws, s, t),
         NEW cap \in Nat, NEW tcap \in Nat, ~ Full(fm, s, cap, tcap)
  PROVE  Len(t.ev) <= cap /\ Len(t.tr) <= tcap
  <1>1. Headroom(fm) \in Nat
    BY Rooms
  <1>2. Len(s.ev) \in Nat /\ Len(s.tr) \in Nat
    BY ParseFields
  <1>3. t \in Parsers
    BY DEF Steps
  <1>4. Len(t.ev) \in Nat /\ Len(t.tr) \in Nat
    BY <1>3, ParseFields
  <1>5. Len(t.ev) <= Len(s.ev) + Headroom(fm) + 1 /\ Len(t.tr) <= Len(s.tr) + 1
    BY DEF Steps
  <1>6. ~ (Len(s.ev) >= cap - Headroom(fm)) /\ ~ (Len(s.tr) >= tcap)
    BY DEF Full
  <1> DEFINE a == Len(s.ev)
             b == Len(s.tr)
             c == Len(t.ev)
             d == Len(t.tr)
             h == Headroom(fm)
  <1>7. a \in Nat /\ b \in Nat /\ c \in Nat /\ d \in Nat /\ h \in Nat
    BY <1>1, <1>2, <1>4
  <1>8. c <= a + h + 1 /\ d <= b + 1 /\ ~ (a >= cap - h) /\ ~ (b >= tcap)
    BY <1>5, <1>6
  <1> HIDE DEF a, b, c, d, h
  <1>9. c <= cap /\ d <= tcap
    BY <1>7, <1>8
  <1> QED  BY <1>9 DEF c, d

\* The parse s has kept to the reading, and inside its buffers, since s0.
Keeps(ws, C, z, s0, cap, tcap, pre, preTr, s) ==
  /\ s \in Parsers /\ Len(s.ev) <= cap /\ Len(s.tr) <= tcap
  /\ \E c \in C : Stands(c, s) /\ Holds(c, s, pre, preTr)
  /\ s0.from <= s.from /\ s.from <= s.pos
  /\ s.from = s0.from \/ HasStray(ws, z.pos)

\* It has moved, or it must not.
Moved(fm, ws, s0, cap, tcap, n, s) ==
  \/ s0.pos < s.pos
  \/ s = s0 /\ (n = 0 \/ Full(fm, s0, cap, tcap) \/ Dry(fm, ws, s0))

\* Orders of three numbers, chained.
LEMMA NumbersAscend ==
  ASSUME NEW a \in Nat, NEW b \in Nat, NEW c \in Nat
  PROVE  /\ a <= b /\ b <= c => a <= c
         /\ a <= b /\ b < c => a <= c /\ a < c
         /\ a < b /\ b <= c => a <= c /\ a < c
         /\ a < b /\ b < c => a < c
         /\ a <= a
  OBVIOUS

\* One turn of the parse proper keeps the parser on a point of the reading.
LEMMA FirstTurn ==
  ASSUME NEW fm \in Formats, NEW ws \in Seq(Words), NEW C, NEW z, IsReading(fm, ws, C, z),
         Whole(fm, ws, z), NEW s0 \in Parsers,
         NEW pre \in Seq(Events), NEW preTr \in Seq(Triggers), NEW cap \in Nat, NEW tcap \in Nat,
         NEW n \in Nat, n >= 1, NEW s, Keeps(ws, C, z, s0, cap, tcap, pre, preTr, s),
         Moved(fm, ws, s0, cap, tcap, n - 1, s),
         NEW t, t = Turn(fm, ws, s0, s, cap, tcap, FALSE)
  PROVE  Keeps(ws, C, z, s0, cap, tcap, pre, preTr, t) /\ Moved(fm, ws, s0, cap, tcap, n, t)
  <1>1. CASE t = s /\ (Full(fm, s, cap, tcap) \/ Dry(fm, ws, s))
    <2>1. Moved(fm, ws, s0, cap, tcap, n, t)
      BY <1>1, Zenon DEF Moved
    <2> QED  BY <1>1, <2>1
  <1>2. CASE t = Step(fm, ws, s) /\ ~ Full(fm, s, cap, tcap) /\ ~ Dry(fm, ws, s)
    <2>1. s \in Parsers
      BY DEF Keeps
    <2>2. PICK c \in C : Stands(c, s) /\ Holds(c, s, pre, preTr)
      BY DEF Keeps
    <2>3. z \in Points /\ c \in Points /\ c.pos <= z.pos
      BY DEF IsReading
    <2>4. z.pos \in Nat /\ c.pos \in Nat
      BY <2>3 DEF Points
    <2>5. Kind(ws, z.pos + 1) # "low" /\ (s.pos = z.pos => Dry(fm, ws, s))
      BY <2>4, WholeFacts
    <2>6. c.pos < z.pos
      BY <1>2, <2>2, <2>3, <2>4, <2>5 DEF Stands
    <2>7. PICK d \in C : Stands(d, t) /\ Holds(d, t, pre, preTr) /\ Steps(fm, ws, s, t)
      BY <1>2, <2>1, <2>2, <2>5, <2>6, StepFollows
    <2>8. Len(t.ev) <= cap /\ Len(t.tr) <= tcap
      BY <1>2, <2>1, <2>7, StaysInside
    <2>9. t \in Parsers /\ s.pos < t.pos
      BY <2>7 DEF Steps
    <2>10. s.pos \in Nat /\ s.from \in Nat /\ t.pos \in Nat /\ t.from \in Nat
           /\ s0.pos \in Nat /\ s0.from \in Nat
      BY <2>1, <2>9, ParseFields
    <2>11. t.from = s.from \/ (t.from = t.pos /\ Stray(ws, s.pos + 1))
      BY <2>7 DEF Steps
    <2>12. s0.from <= s.from /\ s.from <= s.pos /\ (s.from = s0.from \/ HasStray(ws, z.pos))
      BY DEF Keeps
    <2>13. Stray(ws, s.pos + 1) => HasStray(ws, z.pos)
      <3>1. s.pos + 1 \in 1 .. z.pos
        BY <2>2, <2>4, <2>6 DEF Stands
      <3> QED  BY <3>1 DEF HasStray
    <2>14. s0.from <= t.from /\ t.from <= t.pos /\ (t.from = s0.from \/ HasStray(ws, z.pos))
      <3>1. CASE t.from = s.from
        <4>1. s.from <= t.pos
          BY <2>9, <2>10, <2>12, NumbersAscend, ZenonT(30), SMTT(30)
        <4> QED  BY <2>12, <3>1, <4>1
      <3>2. CASE t.from = t.pos /\ Stray(ws, s.pos + 1)
        <4>1. s0.from <= s.pos
          BY <2>10, <2>12, NumbersAscend
        <4>2. s0.from <= t.pos /\ t.pos <= t.pos
          BY <2>9, <2>10, <4>1, NumbersAscend
        <4> QED  BY <2>13, <3>2, <4>2
      <3> QED  BY <2>11, <3>1, <3>2
    <2>15. Keeps(ws, C, z, s0, cap, tcap, pre, preTr, t)
      BY <2>7, <2>8, <2>9, <2>14 DEF Keeps
    <2>16. s0.pos < t.pos
      <3>1. s0.pos < s.pos \/ s = s0
        BY Zenon DEF Moved
      <3>2. CASE s = s0
        BY <2>9, <3>2
      <3>3. CASE s0.pos < s.pos
        BY <2>9, <2>10, <3>3, NumbersAscend, ZenonT(30), SMTT(30)
      <3> QED  BY <3>1, <3>2, <3>3
    <2> QED  BY <2>15, <2>16 DEF Moved
  <1>3. \/ t = s /\ (Full(fm, s, cap, tcap) \/ Dry(fm, ws, s))
        \/ t = Step(fm, ws, s) /\ ~ Full(fm, s, cap, tcap) /\ ~ Dry(fm, ws, s)
    BY Zenon DEF Turn
  <1> QED  BY <1>1, <1>2, <1>3

\* The parse proper ends on a point of the reading, and moves if there are words.
LEMMA FirstRun ==
  ASSUME NEW fm \in Formats, NEW ws \in Seq(Words), NEW C, NEW z, IsReading(fm, ws, C, z),
         Whole(fm, ws, z), NEW c0 \in C, NEW s0 \in Parsers, s0.from = s0.pos, s0.pos < Len(ws),
         NEW pre \in Seq(Events), NEW preTr \in Seq(Triggers), NEW cap \in Nat, NEW tcap \in Nat,
         Stands(c0, s0), Holds(c0, s0, pre, preTr), Len(s0.ev) <= cap, Len(s0.tr) <= tcap,
         NEW s, s = Run(fm, ws, s0, cap, tcap, FALSE)
  PROVE  /\ Keeps(ws, C, z, s0, cap, tcap, pre, preTr, s)
         /\ Moved(fm, ws, s0, cap, tcap, 1, s)
  <1> DEFINE Good(n, x) == /\ Keeps(ws, C, z, s0, cap, tcap, pre, preTr, x)
                           /\ Moved(fm, ws, s0, cap, tcap, n, x)
             N == Len(ws)
             T == [n \in 0 .. N |-> {x \in Parsers : Good(n, x)}]
  <1>1. N \in Nat /\ N >= 1
    <2>1. s0.pos \in Nat /\ Len(ws) \in Nat
      BY ParseFields
    <2> QED  BY <2>1
  <1>2. Good(0, s0)
    <2>1. s0.pos \in Nat
      BY ParseFields
    <2>2. s0.from <= s0.from /\ s0.from <= s0.pos
      BY <2>1
    <2> QED  BY <2>2 DEF Keeps, Moved
  <1>3. ASSUME NEW n \in 1 .. N, NEW x, Good(n - 1, x), NEW t,
               t = Turn(fm, ws, s0, x, cap, tcap, FALSE)
        PROVE  t \in Parsers /\ Good(n, t)
    <2>1. n \in Nat /\ n >= 1
      BY <1>1
    <2>2. Good(n, t)
      BY <1>3, <2>1, FirstTurn, ZenonT(30), SMTT(30)
    <2> QED  BY <2>2 DEF Keeps
  <1> HIDE DEF Good
  <1>4. s0 \in T[0]
    BY <1>1, <1>2
  <1>5. ASSUME NEW n \in 1 .. N, NEW x \in T[n - 1]
        PROVE  Turn(fm, ws, s0, x, cap, tcap, FALSE) \in T[n]
    <2>1. n - 1 \in 0 .. N /\ n \in 0 .. N
      BY <1>1
    <2>2. Good(n - 1, x)
      BY <1>5, <2>1
    <2> QED  BY <1>3, <2>1, <2>2
  <1>6. TurnsKeep(T, N, fm, ws, s0, cap, tcap, FALSE)
    <2> HIDE DEF T, N
    <2> QED  BY <1>4, <1>5 DEF TurnsKeep
  <1>7. s \in T[N]
    <2> HIDE DEF T
    <2> QED  BY <1>1, <1>6, RunHolds
  <1>8. Good(N, s)
    <2>1. N \in 0 .. N
      BY <1>1
    <2> QED  BY <1>7, <2>1
  <1>9. N # 0
    BY <1>1
  <1> HIDE DEF N
  <1> QED  BY <1>8, <1>9 DEF Good, Moved

-----------------------------------------------------------------------------
(* The flush of a tail.                                                    *)

Padded(ws) == ws \o Zeros

\* The padded end: the words of the file, and then row words for row 0.
LEMMA PaddedFacts ==
  ASSUME NEW ws \in Seq(Words)
  PROVE  /\ Padded(ws) \in Seq(Words) /\ Len(Padded(ws)) = Len(ws) + 2 * Pad
         /\ GoesOn(ws, Padded(ws)) /\ Len(ws) \in Nat /\ Len(Padded(ws)) \in Nat
         /\ \A i \in 1 .. 2 * Pad :
              Padded(ws)[Len(ws) + i].k = "y" /\ Padded(ws)[Len(ws) + i].y = 0
  <1> DEFINE n == 2 * Pad
             w == [k |-> "y", y |-> 0]
  <1>1. n \in Nat
    BY Sizes
  <1>2. Zeros = [i \in 1 .. n |-> w]
    BY DEF Zeros
  <1>3. w \in Words /\ w.k = "y" /\ w.y = 0
    BY DEF Words
  <1> HIDE DEF n, w
  <1>4. Zeros \in Seq(Words) /\ Len(Zeros) = n /\ \A i \in 1 .. n : Zeros[i] = w
    BY <1>1, <1>2, <1>3
  <1> HIDE DEF Words
  <1>5. /\ Padded(ws) \in Seq(Words) /\ Len(Padded(ws)) = Len(ws) + n
        /\ \A i \in 1 .. Len(ws) : Padded(ws)[i] = ws[i]
        /\ \A i \in 1 .. n : Padded(ws)[Len(ws) + i] = Zeros[i]
    <2>1. /\ ws \o Zeros \in Seq(Words) /\ Len(ws \o Zeros) = Len(ws) + Len(Zeros)
          /\ \A i \in 1 .. Len(ws) : (ws \o Zeros)[i] = ws[i]
          /\ \A i \in 1 .. Len(Zeros) : (ws \o Zeros)[Len(ws) + i] = Zeros[i]
      <3>1. \A b \in Seq(Words) :
              /\ ws \o b \in Seq(Words) /\ Len(ws \o b) = Len(ws) + Len(b)
              /\ \A i \in 1 .. Len(ws) : (ws \o b)[i] = ws[i]
              /\ \A i \in 1 .. Len(b) : (ws \o b)[Len(ws) + i] = b[i]
        BY Joined
      <3> QED  BY <1>4, <3>1, Zenon
    <2> QED  BY <1>4, <2>1 DEF Padded
  <1>6. Len(ws) \in Nat /\ Len(ws) <= Len(ws) + n
    BY <1>1
  <1>7. \A i \in 1 .. n : Padded(ws)[Len(ws) + i].k = "y" /\ Padded(ws)[Len(ws) + i].y = 0
    BY <1>3, <1>4, <1>5
  <1>8. GoesOn(ws, Padded(ws))
    BY <1>5, <1>6 DEF GoesOn
  <1>9. Len(Padded(ws)) \in Nat
    BY <1>1, <1>5, <1>6
  <1> QED  BY <1>5, <1>6, <1>7, <1>8, <1>9 DEF n

\* A zero word changes only the row.
LEMMA ZeroSteps ==
  ASSUME NEW vs, NEW s \in Parsers, vs[s.pos + 1].k = "y", vs[s.pos + 1].y = 0,
         NEW t, t = Step("evt3", vs, s)
  PROVE  /\ t \in Parsers /\ t.pos = s.pos + 1 /\ t.from = s.from
         /\ t.ev = s.ev /\ t.tr = s.tr
  <1> DEFINE q == [s.st EXCEPT !.y = 0]
  <1>1. /\ s.pos \in Nat /\ s.from \in Nat /\ s.st \in States /\ s.ev \in Seq(Events)
        /\ s.tr \in Seq(Triggers) /\ s = Parse(s.pos, s.from, s.st, s.ev, s.tr)
    BY ParseFields
  <1>2. q \in States
    BY <1>1 DEF States
  <1>3. Step("evt3", vs, s) = [Move(s, 1) EXCEPT !.st.y = vs[s.pos + 1].y]
    BY DEF Step, StepEvt3
  <1>4. t = Parse(s.pos + 1, s.from, q, s.ev, s.tr)
    BY <1>1, <1>3 DEF Move, Parse
  <1> HIDE DEF q
  <1>5. s.pos + 1 \in Nat
    BY <1>1
  <1> QED  BY <1>1, <1>2, <1>4, <1>5 DEF Parse, Parsers

\* Beyond the recording nothing comes any more.
SameBuffers(s, t) == t.ev = s.ev /\ t.tr = s.tr

\* A turn within the padding adds neither event nor trigger.
LEMMA BeyondTurn ==
  ASSUME NEW ws \in Seq(Words), NEW z, z.pos = Len(ws), NEW s \in Parsers, z.pos <= s.pos,
         NEW cap, NEW tcap, NEW s0, NEW t, t = Turn("evt3", Padded(ws), s0, s, cap, tcap, TRUE)
  PROVE  t \in Parsers /\ SameBuffers(s, t) /\ z.pos <= t.pos
  <1> DEFINE vs == Padded(ws)
  <1>1. /\ Len(vs) = Len(ws) + 2 * Pad /\ Len(ws) \in Nat /\ Len(vs) \in Nat
        /\ \A i \in 1 .. 2 * Pad : vs[Len(ws) + i].k = "y" /\ vs[Len(ws) + i].y = 0
    BY PaddedFacts
  <1>2. Pad \in Nat /\ Pad >= 2
    BY Sizes
  <1> HIDE DEF vs
  <1>3. t = s \/ (t = Step("evt3", vs, s) /\ ~ Dry("evt3", vs, s))
    BY Zenon DEF Turn, vs
  <1>4. SUFFICES ASSUME t = Step("evt3", vs, s), ~ Dry("evt3", vs, s)
                 PROVE  t \in Parsers /\ SameBuffers(s, t) /\ z.pos <= t.pos
    BY <1>3 DEF SameBuffers
  <1>5. s.pos \in Nat
    BY ParseFields
  <1>6. s.pos < Len(vs) - Pad
    BY <1>1, <1>2, <1>4, <1>5 DEF Dry
  <1> DEFINE p == s.pos
             n == Len(ws)
             m == Len(vs)
  <1>7. p \in Nat /\ n \in Nat /\ n <= p /\ p < m - Pad /\ m = n + 2 * Pad
    BY <1>1, <1>5, <1>6
  <1> HIDE DEF p, n, m
  <1>8. p + 1 - n \in 1 .. 2 * Pad /\ n + (p + 1 - n) = p + 1 /\ n <= p + 1
    BY <1>2, <1>7
  <1>9. vs[s.pos + 1].k = "y" /\ vs[s.pos + 1].y = 0
    BY <1>1, <1>8 DEF p, n
  <1>10. \A x : x = Step("evt3", vs, s) =>
           x \in Parsers /\ x.pos = s.pos + 1 /\ x.ev = s.ev /\ x.tr = s.tr
    BY <1>9, ZeroSteps
  <1>11. t \in Parsers /\ t.pos = s.pos + 1 /\ t.ev = s.ev /\ t.tr = s.tr
    BY <1>4, <1>10
  <1>12. z.pos <= t.pos
    BY <1>8, <1>11 DEF n, p
  <1> QED  BY <1>11, <1>12 DEF SameBuffers

\* The parse s has kept to the reading, or has passed its end.
Passes(C, z, cap, tcap, pre, preTr, s) ==
  /\ s \in Parsers /\ Len(s.ev) <= cap /\ Len(s.tr) <= tcap
  /\ \E c \in C : /\ Holds(c, s, pre, preTr)
                  /\ Stands(c, s) \/ (c = z /\ z.pos <= s.pos)

\* A turn of the flush passes the points of the reading, and then the padding.
LEMMA FlushTurn ==
  ASSUME NEW ws \in Seq(Words), NEW C, NEW z, IsReading("evt3", ws, C, z), z.pos = Len(ws),
         NEW pre \in Seq(Events), NEW preTr \in Seq(Triggers), NEW cap \in Nat, NEW tcap \in Nat,
         NEW s0, NEW s, Passes(C, z, cap, tcap, pre, preTr, s),
         NEW t, t = Turn("evt3", Padded(ws), s0, s, cap, tcap, TRUE)
  PROVE  Passes(C, z, cap, tcap, pre, preTr, t)
  <1> DEFINE vs == Padded(ws)
  <1>1. /\ vs \in Seq(Words) /\ Len(vs) = Len(ws) + 2 * Pad /\ GoesOn(ws, vs)
        /\ Len(ws) \in Nat /\ Len(vs) \in Nat
        /\ \A i \in 1 .. 2 * Pad : vs[Len(ws) + i].k = "y" /\ vs[Len(ws) + i].y = 0
    BY PaddedFacts
  <1>2. Pad \in Nat /\ Pad >= 2
    BY Sizes
  <1> HIDE DEF vs
  <1>3. t = s \/ (t = Step("evt3", vs, s) /\ ~ Full("evt3", s, cap, tcap) /\ ~ Dry("evt3", vs, s))
    BY Zenon DEF Turn, vs
  <1>4. SUFFICES ASSUME t = Step("evt3", vs, s), ~ Full("evt3", s, cap, tcap), ~ Dry("evt3", vs, s)
                 PROVE  Passes(C, z, cap, tcap, pre, preTr, t)
    BY <1>3
  <1>5. "evt3" \in Formats
    BY DEF Formats
  <1>6. IsReading("evt3", vs, C, z)
    BY <1>1, ReadingOn
  <1>7. s \in Parsers /\ Len(s.ev) <= cap /\ Len(s.tr) <= tcap
    BY DEF Passes
  <1>8. PICK c \in C : Holds(c, s, pre, preTr) /\ (Stands(c, s) \/ (c = z /\ z.pos <= s.pos))
    BY DEF Passes
  <1>9. s.pos \in Nat
    BY <1>7, ParseFields
  <1>10. c \in Points /\ c.pos <= z.pos /\ (c.pos = z.pos => c = z)
    BY <1>6 DEF IsReading
  <1>11. c.pos \in Nat
    BY <1>10 DEF Points
  <1>12. CASE c.pos < z.pos
    <2>1. Stands(c, s)
      <3>1. ~ (c.pos < c.pos)
        BY <1>11
      <3> QED  BY <1>8, <1>12, <3>1
    <2>2. Kind(vs, z.pos + 1) # "low"
      <3>1. vs[Len(ws) + 1].k = "y"
        BY <1>1, <1>2
      <3> QED  BY <3>1 DEF Kind
    <2>3. PICK d \in C : Stands(d, t) /\ Holds(d, t, pre, preTr) /\ Steps("evt3", vs, s, t)
      BY <1>1, <1>4, <1>5, <1>6, <1>7, <1>8, <1>12, <2>1, <2>2, StepFollows
    <2>4. Len(t.ev) <= cap /\ Len(t.tr) <= tcap /\ t \in Parsers
      <3>1. t \in Parsers
        BY <2>3 DEF Steps
      <3> QED  BY <1>4, <1>5, <1>7, <2>3, <3>1, StaysInside
    <2> QED  BY <2>3, <2>4 DEF Passes
  <1>13. CASE c.pos = z.pos
    <2>1. c = z /\ z.pos <= s.pos
      BY <1>8, <1>9, <1>10, <1>13 DEF Stands
    <2>2. t \in Parsers /\ SameBuffers(s, t) /\ z.pos <= t.pos
      BY <1>7, <2>1, BeyondTurn
    <2>3. Holds(c, t, pre, preTr)
      BY <1>8, <2>2 DEF Holds, SameBuffers
    <2> QED  BY <1>7, <2>1, <2>2, <2>3 DEF Passes, SameBuffers
  <1>14. z.pos \in Nat
    BY <1>1
  <1>15. c.pos < z.pos \/ c.pos = z.pos
    BY <1>10, <1>11, <1>14
  <1> QED  BY <1>12, <1>13, <1>15

\* The tail of a recording without a vector word out of place: at s1 no more
\* words are left than the parser does not touch, and there is room for them.
Tail1(ws, z, s1, cap, tcap) ==
  /\ ~ HasStray(ws, z.pos)
  /\ Len(ws) - Pad <= s1.pos
  /\ Len(s1.ev) + Reserve + Pad * V <= cap /\ Len(s1.tr) + Pad <= tcap

\* The flush has come to the end of the reading, or has done n steps more.
Flushes(C, z, s1, pre, preTr, n, s) ==
  \/ Holds(z, s, pre, preTr) /\ z.pos <= s.pos
  \/ \E c \in C :
       /\ c.pos < z.pos /\ Stands(c, s) /\ Holds(c, s, pre, preTr)
       /\ s1.pos + n <= s.pos /\ s.from = s1.from
       /\ Len(s.ev) <= Len(s1.ev) + (s.pos - s1.pos) * V
       /\ Len(s.tr) <= Len(s1.tr) + (s.pos - s1.pos)

\* In the last words of the file each turn of the flush comes one word nearer its end.
LEMMA TailTurn ==
  ASSUME NEW ws \in Seq(Words), NEW C, NEW z, IsReading("evt3", ws, C, z), z.pos = Len(ws),
         NEW pre \in Seq(Events), NEW preTr \in Seq(Triggers), NEW cap \in Nat, NEW tcap \in Nat,
         NEW s1 \in Parsers, Tail1(ws, z, s1, cap, tcap),
         NEW n \in Nat, NEW s \in Parsers, Flushes(C, z, s1, pre, preTr, n, s),
         NEW t, t = Turn("evt3", Padded(ws), s1, s, cap, tcap, TRUE)
  PROVE  Flushes(C, z, s1, pre, preTr, n + 1, t)
  <1>1. CASE Holds(z, s, pre, preTr) /\ z.pos <= s.pos
    <2>1. SameBuffers(s, t) /\ z.pos <= t.pos
      BY <1>1, BeyondTurn
    <2>2. Holds(z, t, pre, preTr)
      BY <1>1, <2>1 DEF Holds, SameBuffers
    <2> QED  BY <2>1, <2>2 DEF Flushes
  <1>2. ASSUME NEW c \in C, c.pos < z.pos, Stands(c, s), Holds(c, s, pre, preTr),
               s1.pos + n <= s.pos, s.from = s1.from,
               Len(s.ev) <= Len(s1.ev) + (s.pos - s1.pos) * V,
               Len(s.tr) <= Len(s1.tr) + (s.pos - s1.pos)
        PROVE  Flushes(C, z, s1, pre, preTr, n + 1, t)
    <2> DEFINE vs == Padded(ws)
    <2>1. /\ vs \in Seq(Words) /\ Len(vs) = Len(ws) + 2 * Pad /\ GoesOn(ws, vs)
          /\ Len(ws) \in Nat /\ Len(vs) \in Nat
          /\ \A i \in 1 .. 2 * Pad : vs[Len(ws) + i].k = "y" /\ vs[Len(ws) + i].y = 0
      BY PaddedFacts
    <2>2. /\ Pad \in Nat /\ Pad >= 2 /\ V \in Nat /\ V >= 1 /\ Reserve \in Nat
      BY Sizes
    <2> HIDE DEF vs
    <2>3. s.pos \in Nat /\ Len(s.ev) \in Nat /\ Len(s.tr) \in Nat /\ s.from \in Nat
      BY ParseFields
    <2>4. s1.pos \in Nat /\ Len(s1.ev) \in Nat /\ Len(s1.tr) \in Nat
      BY ParseFields
    <2>5. s.pos < Len(ws)
      BY <1>2 DEF Stands
    <2> DEFINE p == s.pos
               q == s1.pos
               N == Len(ws)
               a == Len(s.ev)
               b == Len(s.tr)
               a1 == Len(s1.ev)
               b1 == Len(s1.tr)
    <2>6. /\ p \in Nat /\ q \in Nat /\ N \in Nat /\ a \in Nat /\ b \in Nat /\ a1 \in Nat /\ b1 \in Nat
          /\ q + n <= p /\ a <= a1 + (p - q) * V /\ b <= b1 + (p - q)
          /\ p < N /\ N - Pad <= q /\ a1 + Reserve + Pad * V <= cap /\ b1 + Pad <= tcap
      BY <1>2, <2>1, <2>3, <2>4, <2>5 DEF Tail1
    <2> HIDE DEF p, q, N, a, b, a1, b1
    <2>7. p - q \in Nat /\ p - q + 1 <= Pad
      BY <2>2, <2>6
    <2>8. (p - q) * V \in Nat /\ (p - q) * V + 1 <= Pad * V /\ Pad * V \in Nat
      <3> DEFINE k == p - q
      <3>1. k \in Nat /\ k + 1 <= Pad
        BY <2>7
      <3> HIDE DEF k
      <3>2. (k + 1) * V <= Pad * V
        BY <2>2, <3>1, SMTT(30)
      <3>3. (k + 1) * V = k * V + V /\ k * V \in Nat /\ Pad * V \in Nat
        BY <2>2, <3>1
      <3>4. k * V + 1 <= Pad * V
        BY <2>2, <3>2, <3>3
      <3> QED  BY <3>3, <3>4 DEF k
    <2>9. ~ (a >= cap - Reserve) /\ ~ (b >= tcap)
      <3> DEFINE e == (p - q) * V
                 f == Pad * V
      <3>1. e \in Nat /\ f \in Nat /\ e + 1 <= f /\ a <= a1 + e /\ a1 + Reserve + f <= cap
        BY <2>6, <2>8
      <3> HIDE DEF e, f
      <3>2. ~ (a >= cap - Reserve)
        BY <2>2, <2>6, <3>1
      <3>3. ~ (b >= tcap)
        BY <2>2, <2>6, <2>7
      <3> QED  BY <3>2, <3>3
    <2>10. ~ Full("evt3", s, cap, tcap)
      BY <2>9 DEF Full, Headroom, a, b
    <2>11. ~ Dry("evt3", vs, s)
      <3> DEFINE M == Len(vs)
      <3>1. M = N + 2 * Pad
        BY <2>1 DEF N
      <3> HIDE DEF M
      <3>2. ~ (p >= M - Pad) /\ ~ (p + 2 > M)
        BY <2>2, <2>6, <3>1
      <3> QED  BY <3>2 DEF Dry, M, p
    <2>12. ~ (s.from > s1.from)
      BY <1>2, <2>3
    <2>13. t = Step("evt3", vs, s)
      BY <2>10, <2>11, <2>12, Zenon DEF Turn, vs
    <2>14. Kind(vs, z.pos + 1) # "low"
      <3>1. vs[Len(ws) + 1].k = "y"
        BY <2>1, <2>2
      <3> QED  BY <3>1 DEF Kind
    <2>15. IsReading("evt3", vs, C, z) /\ "evt3" \in Formats
      BY <2>1, ReadingOn DEF Formats
    <2>16. PICK d \in C : Stands(d, t) /\ Holds(d, t, pre, preTr) /\ Steps("evt3", vs, s, t)
      BY <1>2, <2>1, <2>13, <2>14, <2>15, StepFollows
    <2>17. d \in Points /\ d.pos <= z.pos /\ (d.pos = z.pos => d = z)
      BY DEF IsReading
    <2>18. d.pos \in Nat /\ z.pos \in Nat
      BY <2>1, <2>17 DEF Points
    <2>19. CASE d.pos = z.pos
      <3>1. z.pos <= t.pos
        <4>1. d.pos = t.pos /\ z.pos <= z.pos
          BY <2>16, <2>18 DEF Stands
        <4> QED  BY <2>19, <4>1
      <3> QED  BY <2>16, <2>17, <2>19, <3>1 DEF Flushes
    <2>20. CASE d.pos < z.pos
      <3>1. /\ t \in Parsers /\ s.pos < t.pos
            /\ t.from = s.from \/ (t.from = t.pos /\ Stray(vs, s.pos + 1))
            /\ Len(t.tr) <= Len(s.tr) + 1
            /\ Len(t.ev) <= Len(s.ev) + (t.pos - s.pos) * V
        BY <2>16 DEF Steps
      <3>2. t.pos \in Nat /\ Len(t.ev) \in Nat /\ Len(t.tr) \in Nat
        BY <3>1, ParseFields
      <3>3. ~ Stray(vs, s.pos + 1)
        <4>1. p + 1 \in 1 .. N /\ (p + 1 >= 3 => p + 1 - 1 \in 1 .. N)
          BY <2>6
        <4>2. \A i \in 1 .. N : vs[i] = ws[i]
          BY <2>1 DEF GoesOn, N
        <4>3. Stray(vs, p + 1) => Stray(ws, p + 1)
          <5> DEFINE i == p + 1
          <5>1. i \in 1 .. N
            BY <4>1
          <5>2. i >= 3 => i - 1 \in 1 .. N
            BY <2>6, <4>1, <5>1
          <5> HIDE DEF i
          <5>3. Stray(vs, i) => Stray(ws, i)
            BY <4>2, <5>1, <5>2 DEF Stray
          <5> QED  BY <5>3 DEF i
        <4>4. ~ Stray(ws, p + 1)
          BY <4>1 DEF Tail1, HasStray, N
        <4> QED  BY <4>3, <4>4 DEF p
      <3>4. t.from = s1.from
        BY <1>2, <3>1, <3>3
      <3> DEFINE r == t.pos
                 c2 == Len(t.ev)
                 d2 == Len(t.tr)
      <3>5. /\ r \in Nat /\ c2 \in Nat /\ d2 \in Nat /\ p < r
            /\ c2 <= a + (r - p) * V /\ d2 <= b + 1
        BY <3>1, <3>2 DEF p, a, b
      <3> HIDE DEF r, c2, d2
      <3>6. q + (n + 1) <= r /\ d2 <= b1 + (r - q)
        BY <2>6, <3>5
      <3>7. c2 <= a1 + (r - q) * V
        <4>1. (r - p) * V + (p - q) * V = (r - q) * V
          BY <2>2, <2>6, <3>5, SMTT(30)
        <4> DEFINE e == (r - p) * V
                   f == (p - q) * V
                   g == (r - q) * V
        <4>2. e \in Int /\ f \in Int /\ g \in Int
          BY <2>2, <2>6, <3>5
        <4>3. e + f = g /\ a <= a1 + f /\ c2 <= a + e
          BY <2>6, <3>5, <4>1
        <4> HIDE DEF e, f, g
        <4>4. c2 <= a1 + g
          BY <2>6, <3>5, <4>2, <4>3
        <4> QED  BY <4>4 DEF g
      <3> QED  BY <2>16, <2>20, <3>4, <3>6, <3>7 DEF Flushes, r, c2, d2, q, a1, b1
    <2>21. d.pos < z.pos \/ d.pos = z.pos
      BY <2>17, <2>18
    <2> QED  BY <2>19, <2>20, <2>21
  <1> QED  BY <1>1, <1>2, Zenon DEF Flushes

\* The flush ends with all of the file when it started near its end.
LEMMA FlushRun ==
  ASSUME NEW ws \in Seq(Words), NEW C, NEW z, IsReading("evt3", ws, C, z), z.pos = Len(ws),
         NEW pre \in Seq(Events), NEW preTr \in Seq(Triggers), NEW cap \in Nat, NEW tcap \in Nat,
         NEW s1 \in Parsers, Passes(C, z, cap, tcap, pre, preTr, s1),
         NEW c1 \in C, Stands(c1, s1), Holds(c1, s1, pre, preTr),
         NEW s, s = Run("evt3", Padded(ws), s1, cap, tcap, TRUE)
  PROVE  /\ Passes(C, z, cap, tcap, pre, preTr, s)
         /\ Tail1(ws, z, s1, cap, tcap) => Holds(z, s, pre, preTr)
  <1> DEFINE Good(n, x) == /\ Passes(C, z, cap, tcap, pre, preTr, x)
                           /\ \/ ~ Tail1(ws, z, s1, cap, tcap)
                              \/ Flushes(C, z, s1, pre, preTr, n, x)
             N == Len(Padded(ws))
             T == [n \in 0 .. N |-> {x \in Parsers : Good(n, x)}]
  <1>1. N \in Nat /\ N = Len(ws) + 2 * Pad /\ Len(ws) \in Nat /\ Pad \in Nat
    BY PaddedFacts, Sizes
  <1>2. c1 \in Points /\ z \in Points /\ c1.pos <= z.pos /\ (c1.pos = z.pos => c1 = z)
    BY DEF IsReading
  <1>3. s1.pos \in Nat /\ Len(s1.ev) \in Nat /\ Len(s1.tr) \in Nat
    BY ParseFields
  <1>4. Flushes(C, z, s1, pre, preTr, 0, s1)
    <2>1. c1.pos \in Nat /\ z.pos \in Nat
      BY <1>2 DEF Points
    <2>2. CASE c1.pos = z.pos
      <3>1. z.pos <= s1.pos
        <4>1. c1.pos <= c1.pos
          BY <2>1
        <4> QED  BY <2>2, <4>1 DEF Stands
      <3> QED  BY <1>2, <2>2, <3>1 DEF Flushes
    <2>3. CASE c1.pos < z.pos
      <3>1. V \in Nat
        BY Sizes
      <3>2. (s1.pos - s1.pos) * V = 0
        BY <1>3, <3>1
      <3>3. s1.pos + 0 <= s1.pos /\ Len(s1.ev) <= Len(s1.ev) + 0
            /\ Len(s1.tr) <= Len(s1.tr) + (s1.pos - s1.pos)
        BY <1>3
      <3> QED  BY <2>3, <3>2, <3>3 DEF Flushes
    <2> QED  BY <1>2, <2>1, <2>2, <2>3
  <1>5. Good(0, s1)
    BY <1>4
  <1>6. ASSUME NEW n \in 1 .. N, NEW x, Good(n - 1, x), NEW t,
               t = Turn("evt3", Padded(ws), s1, x, cap, tcap, TRUE)
        PROVE  t \in Parsers /\ Good(n, t)
    <2>1. n - 1 \in Nat /\ n - 1 + 1 = n
      BY <1>1
    <2>2. Passes(C, z, cap, tcap, pre, preTr, t)
      BY <1>6, FlushTurn
    <2>3. x \in Parsers
      BY <1>6 DEF Passes
    <2>4. ASSUME Tail1(ws, z, s1, cap, tcap)
          PROVE  Flushes(C, z, s1, pre, preTr, n, t)
      <3> DEFINE m == n - 1
      <3>1. m \in Nat /\ m + 1 = n /\ Flushes(C, z, s1, pre, preTr, m, x)
        BY <1>6, <2>1, <2>4
      <3> HIDE DEF m
      <3>2. Flushes(C, z, s1, pre, preTr, m + 1, t)
        BY <1>6, <2>3, <2>4, <3>1, TailTurn
      <3> QED  BY <3>1, <3>2
    <2> QED  BY <2>2, <2>4 DEF Passes
  <1> HIDE DEF Good
  <1>7. s1 \in T[0]
    BY <1>1, <1>5
  <1>8. ASSUME NEW n \in 1 .. N, NEW x \in T[n - 1]
        PROVE  Turn("evt3", Padded(ws), s1, x, cap, tcap, TRUE) \in T[n]
    <2>1. n - 1 \in 0 .. N /\ n \in 0 .. N
      BY <1>1
    <2>2. Good(n - 1, x)
      BY <1>8, <2>1
    <2> QED  BY <1>6, <2>1, <2>2
  <1>9. TurnsKeep(T, N, "evt3", Padded(ws), s1, cap, tcap, TRUE)
    <2> HIDE DEF T, N
    <2> QED  BY <1>7, <1>8 DEF TurnsKeep
  <1>10. s \in T[N]
    <2> HIDE DEF T
    <2> QED  BY <1>1, <1>9, RunHolds
  <1>11. Good(N, s)
    <2>1. N \in 0 .. N
      BY <1>1
    <2> QED  BY <1>10, <2>1
  <1>12. Passes(C, z, cap, tcap, pre, preTr, s) /\ s \in Parsers
    BY <1>11 DEF Good, Passes
  <1>13. ASSUME Tail1(ws, z, s1, cap, tcap)
         PROVE  Holds(z, s, pre, preTr)
    <2>1. Flushes(C, z, s1, pre, preTr, N, s)
      BY <1>11, <1>13 DEF Good
    <2>2. s.pos \in Nat
      BY <1>12, ParseFields
    <2>3. ASSUME NEW c \in C, c.pos < z.pos, Stands(c, s), s1.pos + N <= s.pos
          PROVE  FALSE
      <3>1. s.pos < Len(ws)
        BY <2>3 DEF Stands
      <3> DEFINE a == s1.pos
                 b == s.pos
                 n == Len(ws)
      <3>2. /\ a \in Nat /\ b \in Nat /\ n \in Nat /\ Pad \in Nat
            /\ N = n + 2 * Pad /\ a + N <= b /\ b < n
        BY <1>1, <1>3, <2>2, <2>3, <3>1
      <3> HIDE DEF N, a, b, n
      <3> QED  BY <3>2
    <2> HIDE DEF N
    <2> QED  BY <2>1, <2>3 DEF Flushes
  <1> QED  BY <1>12, <1>13

-----------------------------------------------------------------------------
(* A call of parse_step.                                                   *)

\* It takes the parse from s0 to s, where the reading has come to c.
Parsed(ws, C, z, cap, tcap, pre, preTr, s0, s) ==
  /\ s \in Parsers
  /\ s0.pos < s.pos /\ s.pos <= Len(ws)
  /\ Len(s.ev) <= cap /\ Len(s.tr) <= tcap
  /\ \E c \in C : /\ Holds(c, s, pre, preTr)
                  /\ s.pos < Len(ws) => Stands(c, s)
                  /\ s.pos = Len(ws) /\ ~ HasStray(ws, z.pos) => c = z

\* There is room for a tail and for a vector.
Room(s, cap, tcap) ==
  Len(s.ev) + Reserve + Pad * V <= cap /\ Len(s.tr) + Pad <= tcap

\* With the margin free the buffers are not full.
LEMMA NotFull ==
  ASSUME NEW fm \in Formats, NEW s \in Parsers, NEW cap \in Nat, NEW tcap \in Nat,
         Room(s, cap, tcap)
  PROVE  ~ Full(fm, s, cap, tcap) /\ Len(s.ev) <= cap /\ Len(s.tr) <= tcap
  <1>1. /\ Pad \in Nat /\ Pad >= 2 /\ V \in Nat /\ V >= 1 /\ Reserve \in Nat
    BY Sizes
  <1>2. Len(s.ev) \in Nat /\ Len(s.tr) \in Nat
    BY ParseFields
  <1>3. \A m, n \in Nat : m >= 1 /\ n >= 1 => m * n \in Nat /\ m * n >= 1
    BY SMTT(30)
  <1>4. Pad * V \in Nat /\ Pad * V >= 1
    BY <1>1, <1>3
  <1>5. Headroom(fm) \in Nat /\ Headroom(fm) <= Reserve
    BY <1>1 DEF Headroom
  <1> DEFINE a == Len(s.ev)
             b == Len(s.tr)
             h == Headroom(fm)
             p == Pad * V
  <1>6. a \in Nat /\ b \in Nat /\ h \in Nat /\ p \in Nat /\ h <= Reserve /\ p >= 1
        /\ a + Reserve + p <= cap /\ b + Pad <= tcap
    BY <1>2, <1>4, <1>5 DEF Room
  <1> HIDE DEF a, b, h, p
  <1>7. ~ (a >= cap - h) /\ ~ (b >= tcap) /\ a <= cap /\ b <= tcap
    BY <1>1, <1>6
  <1> QED  BY <1>7 DEF Full, a, b, h

\* A call of the parser, flush included, goes from a point of the reading to another.
LEMMA ParseStepFacts ==
  ASSUME NEW fm \in Formats, NEW ws \in Seq(Words), NEW C, NEW z, IsReading(fm, ws, C, z),
         Whole(fm, ws, z), NEW c0 \in C, NEW s0 \in Parsers, s0.from = s0.pos, s0.pos < Len(ws),
         NEW pre \in Seq(Events), NEW preTr \in Seq(Triggers), NEW cap \in Nat, NEW tcap \in Nat,
         Stands(c0, s0), Holds(c0, s0, pre, preTr), Room(s0, cap, tcap),
         NEW s, s = ParseStep(fm, ws, s0, cap, tcap, TailPad(fm))
  PROVE  Parsed(ws, C, z, cap, tcap, pre, preTr, s0, s)
  <1> DEFINE r == Run(fm, ws, s0, cap, tcap, FALSE)
  <1>1. ~ Full(fm, s0, cap, tcap) /\ Len(s0.ev) <= cap /\ Len(s0.tr) <= tcap
    BY NotFull
  <1>2. Keeps(ws, C, z, s0, cap, tcap, pre, preTr, r) /\ Moved(fm, ws, s0, cap, tcap, 1, r)
    BY <1>1, FirstRun
  <1>3. s = IF r.pos > r.from \/ Full(fm, r, cap, tcap)
            THEN r
            ELSE [(IF TailPad(fm) THEN Run(fm, Padded(ws), r, cap, tcap, TRUE) ELSE r)
                    EXCEPT !.pos = Len(ws)]
    BY DEF ParseStep, Padded
  <1> HIDE DEF r
  <1>4. PICK c \in C : Stands(c, r) /\ Holds(c, r, pre, preTr)
    BY <1>2 DEF Keeps
  <1>5. /\ r \in Parsers /\ Len(r.ev) <= cap /\ Len(r.tr) <= tcap
        /\ s0.from <= r.from /\ r.from <= r.pos
        /\ r.from = s0.from \/ HasStray(ws, z.pos)
    BY <1>2 DEF Keeps
  <1>6. /\ z \in Points /\ c \in Points /\ c.pos <= z.pos /\ (c.pos = z.pos => c = z)
        /\ z.pos <= Len(ws)
    BY DEF IsReading
  <1>7. z.pos \in Nat /\ c.pos \in Nat /\ Len(ws) \in Nat /\ c.pos = r.pos
    BY <1>4, <1>6 DEF Points, Stands
  <1>8. s0.pos \in Nat /\ r.pos \in Nat /\ r.from \in Nat
    BY <1>5, ParseFields
  <1>9. \/ s0.pos < r.pos
        \/ r = s0 /\ Dry(fm, ws, s0)
    <2>1. ~ (1 = 0)
      OBVIOUS
    <2> QED  BY <1>1, <1>2, <2>1, Zenon DEF Moved
  <1>10. CASE r.pos > r.from \/ Full(fm, r, cap, tcap)
    <2>1. s = r
      BY <1>3, <1>10
    <2>2. s0.pos < r.pos
      <3>1. CASE r = s0
        <4>1. ~ (s0.pos > s0.from)
          BY <1>8
        <4> QED  BY <1>1, <1>10, <3>1, <4>1
      <3> QED  BY <1>9, <3>1
    <2>3. r.pos <= Len(ws)
      BY <1>6, <1>7, NumbersAscend
    <2>4. r.pos = Len(ws) => c = z
      BY <1>6, <1>7
    <2> QED  BY <1>4, <1>5, <2>1, <2>2, <2>3, <2>4 DEF Parsed
  <1>11. CASE ~ (r.pos > r.from \/ Full(fm, r, cap, tcap))
    <2> DEFINE q == IF TailPad(fm) THEN Run(fm, Padded(ws), r, cap, tcap, TRUE) ELSE r
    <2>1. s = [q EXCEPT !.pos = Len(ws)]
      BY <1>3, <1>11
    <2> HIDE DEF q
    <2>2. ASSUME ~ HasStray(ws, z.pos)
          PROVE  r = s0 /\ Dry(fm, ws, s0)
      <3>1. r.from = s0.pos
        BY <1>5, <2>2
      <3>2. ~ (s0.pos < r.pos)
        BY <1>8, <1>11, <3>1
      <3> QED  BY <1>9, <3>2
    <2>3. /\ q \in Parsers /\ Len(q.ev) <= cap /\ Len(q.tr) <= tcap
          /\ \E d \in C : Holds(d, q, pre, preTr) /\ (~ HasStray(ws, z.pos) => d = z)
      <3>1. CASE fm = "evt3"
        <4>1. z.pos = Len(ws)
          BY <3>1 DEF Whole
        <4>2. Passes(C, z, cap, tcap, pre, preTr, r)
          BY <1>4, <1>5 DEF Passes
        <4>3. q = Run("evt3", Padded(ws), r, cap, tcap, TRUE)
          BY <3>1 DEF q, TailPad
        <4>4. /\ Passes(C, z, cap, tcap, pre, preTr, q)
              /\ Tail1(ws, z, r, cap, tcap) => Holds(z, q, pre, preTr)
          BY <1>4, <1>5, <3>1, <4>1, <4>2, <4>3, FlushRun
        <4>5. ~ HasStray(ws, z.pos) => Tail1(ws, z, r, cap, tcap)
          <5> SUFFICES ASSUME ~ HasStray(ws, z.pos)
                       PROVE  Tail1(ws, z, r, cap, tcap)
            OBVIOUS
          <5>1. r = s0 /\ Dry(fm, ws, s0)
            BY <2>2
          <5>2. Len(ws) - Pad <= s0.pos
            <6>1. Pad \in Nat /\ Pad >= 2
              BY Sizes
            <6>2. s0.pos >= Len(ws) - Pad \/ s0.pos + 2 > Len(ws)
              BY <3>1, <5>1 DEF Dry
            <6> QED  BY <1>7, <1>8, <6>1, <6>2
          <5>3. Room(s0, cap, tcap)
            OBVIOUS
          <5> QED  BY <5>1, <5>2, <5>3 DEF Tail1, Room
        <4>6. CASE HasStray(ws, z.pos)
          BY <4>4, <4>6 DEF Passes
        <4>7. CASE ~ HasStray(ws, z.pos)
          <5>1. Holds(z, q, pre, preTr) /\ z \in C
            BY <4>4, <4>5, <4>7 DEF IsReading
          <5> QED  BY <4>4, <5>1 DEF Passes
        <4> QED  BY <4>6, <4>7
      <3>2. CASE fm # "evt3"
        <4>1. q = r
          BY <3>2 DEF q, TailPad
        <4>2. ~ HasStray(ws, z.pos) => c = z
          <5> SUFFICES ASSUME ~ HasStray(ws, z.pos), c # z
                       PROVE  FALSE
            OBVIOUS
          <5>1. r = s0 /\ Dry(fm, ws, s0)
            BY <2>2
          <5>2. c.pos < z.pos
            BY <1>6, <1>7
          <5>3. Kind(ws, s0.pos + 1) = "vec" /\ s0.pos + 2 > Len(ws)
            BY <1>7, <1>8, <3>2, <5>1 DEF Dry
          <5>4. c.pos + 1 <= Len(ws) /\ ws[c.pos + 1].k = "vec" /\ ~ (c.pos + 2 <= Len(ws))
            BY <1>7, <1>8, <5>1, <5>3 DEF Kind
          <5>5. PICK d \in C : Reads(fm, ws, c, d)
            BY <5>2 DEF IsReading
          <5> QED  BY <3>2, <5>4, <5>5, Zenon DEF Reads
        <4> QED  BY <1>4, <1>5, <4>1, <4>2
      <3> QED  BY <3>1, <3>2
    <2>4. s \in Parsers /\ s.pos = Len(ws) /\ s.ev = q.ev /\ s.tr = q.tr
      BY <1>7, <2>1, <2>3 DEF Parsers
    <2>5. PICK d \in C : Holds(d, q, pre, preTr) /\ (~ HasStray(ws, z.pos) => d = z)
      BY <2>3
    <2>6. Holds(d, s, pre, preTr)
      BY <2>4, <2>5 DEF Holds
    <2>7. s.pos <= Len(ws) /\ ~ (s.pos < Len(ws)) /\ s0.pos < s.pos
      BY <1>7, <2>4
    <2>8. Len(s.ev) <= cap /\ Len(s.tr) <= tcap
      BY <2>3, <2>4
    <2> QED  BY <2>4, <2>5, <2>6, <2>7, <2>8 DEF Parsed
  <1> QED  BY <1>10, <1>11

-----------------------------------------------------------------------------
(* What has been written can be read.                                      *)

HasHigh(ws) == \E i \in 1 .. Len(ws) : ReadsHigh(ws[i])

\* The first TIME_HIGH word.
First(ws, i) ==
  /\ i \in 1 .. Len(ws) /\ ReadsHigh(ws[i])
  /\ \A j \in 1 .. Len(ws) : ReadsHigh(ws[j]) => i <= j

\* The search for the first high word finds it.
LEMMA FirstFound ==
  ASSUME NEW ws, Len(ws) \in Nat, NEW i, First(ws, i), NEW none
  PROVE  HighFrom(ws, 0, none) = i - 1 /\ i \in Nat /\ 1 <= i
  <1> DEFINE hits == {j \in 0 + 1 .. Len(ws) : ReadsHigh(ws[j])}
             m == CHOOSE j \in hits : \A k \in hits : j <= k
  <1>1. i \in hits /\ \A k \in hits : i <= k
    BY DEF First
  <1>2. HighFrom(ws, 0, none) = IF hits = {} THEN none ELSE m - 1
    BY Zenon DEF HighFrom
  <1>3. hits \subseteq Nat
    OBVIOUS
  <1>4. m \in hits /\ \A k \in hits : m <= k
    <2> HIDE DEF hits
    <2> QED  BY <1>1, Zenon
  <1> HIDE DEF m
  <1>5. m \in Nat /\ i \in Nat
    <2> HIDE DEF hits
    <2> QED  BY <1>1, <1>3, <1>4
  <1>6. m <= i /\ i <= m
    <2> HIDE DEF hits
    <2> QED  BY <1>1, <1>4
  <1>7. m = i
    BY <1>5, <1>6
  <1>8. i >= 1
    BY DEF First
  <1>9. hits # {}
    BY <1>1
  <1> HIDE DEF hits
  <1> QED  BY <1>2, <1>5, <1>7, <1>8, <1>9

\* In a file without one it gives what stands for none.
LEMMA NoneFound ==
  ASSUME NEW ws, ~ HasHigh(ws), NEW none
  PROVE  HighFrom(ws, 0, none) = none
  <1>1. {j \in 0 + 1 .. Len(ws) : ReadsHigh(ws[j])} = {}
    BY DEF HasHigh
  <1> QED  BY <1>1 DEF HighFrom

\* The first high word stays the first when the file goes on.
LEMMA FirstOn ==
  ASSUME NEW ws, NEW vs, Len(ws) \in Nat, Len(vs) \in Nat, GoesOn(ws, vs), NEW i, First(ws, i)
  PROVE  First(vs, i)
  <1>1. i \in 1 .. Len(ws) /\ ReadsHigh(ws[i])
        /\ \A j \in 1 .. Len(ws) : ReadsHigh(ws[j]) => i <= j
    BY DEF First
  <1>2. Len(ws) <= Len(vs) /\ \A j \in 1 .. Len(ws) : vs[j] = ws[j]
    BY DEF GoesOn
  <1>3. i \in 1 .. Len(vs) /\ ReadsHigh(vs[i])
    BY <1>1, <1>2
  <1>4. ASSUME NEW j \in 1 .. Len(vs), ReadsHigh(vs[j])
        PROVE  i <= j
    <2>1. CASE j \in 1 .. Len(ws)
      BY <1>1, <1>2, <1>4, <2>1
    <2>2. CASE ~ (j \in 1 .. Len(ws))
      BY <1>1, <2>2
    <2> QED  BY <2>1, <2>2
  <1> QED  BY <1>3, <1>4 DEF First

\* Where reading begins when the word at i is the first TIME_HIGH.
Beginning(i) == Point(i - 1, ParserInit, <<>>, <<>>)

\* The words ws can be read to their end, from the first TIME_HIGH on; what is
\* read leaves the parser in state s and says es and ts.
CanRead(fm, ws, s, es, ts) ==
  /\ ws \in Seq(Words)
  /\ \E C, i : /\ IsReading(fm, ws, C, Point(Len(ws), s, es, ts))
               /\ First(ws, i) /\ Beginning(i) \in C

\* The fields of a point.
LEMMA PointIs ==
  ASSUME NEW p, NEW s, NEW es, NEW ts
  PROVE  /\ Point(p, s, es, ts).pos = p /\ Point(p, s, es, ts).st = s
         /\ Point(p, s, es, ts).ev = es /\ Point(p, s, es, ts).tr = ts
         /\ (p \in Nat /\ s \in States /\ es \in Seq(Events) /\ ts \in Seq(Triggers))
              <=> Point(p, s, es, ts) \in Points
  BY DEF Point, Points

\* What can be read is a file, a state and two sequences.
LEMMA CanReadFacts ==
  ASSUME NEW fm, NEW ws, NEW s, NEW es, NEW ts, CanRead(fm, ws, s, es, ts)
  PROVE  /\ ws \in Seq(Words) /\ Len(ws) \in Nat
         /\ s \in States /\ es \in Seq(Events) /\ ts \in Seq(Triggers)
  <1>1. PICK C : IsReading(fm, ws, C, Point(Len(ws), s, es, ts))
    BY DEF CanRead
  <1>2. Point(Len(ws), s, es, ts) \in Points
    BY <1>1 DEF IsReading
  <1>3. ws \in Seq(Words)
    BY DEF CanRead
  <1> QED  BY <1>2, <1>3, PointIs

\* Words behind a recording.
LEMMA WordsBehind ==
  ASSUME NEW ws \in Seq(Words), NEW x \in Seq(Words)
  PROVE  /\ ws \o x \in Seq(Words) /\ Len(ws \o x) = Len(ws) + Len(x)
         /\ Len(ws) \in Nat /\ Len(x) \in Nat /\ Len(ws \o x) \in Nat
         /\ GoesOn(ws, ws \o x)
         /\ \A i \in 1 .. Len(x) : (ws \o x)[Len(ws) + i] = x[i]
  <1>1. /\ ws \o x \in Seq(Words) /\ Len(ws \o x) = Len(ws) + Len(x)
        /\ \A i \in 1 .. Len(ws) : (ws \o x)[i] = ws[i]
        /\ \A i \in 1 .. Len(x) : (ws \o x)[Len(ws) + i] = x[i]
    BY Joined
  <1>2. Len(ws) \in Nat /\ Len(x) \in Nat
    OBVIOUS
  <1>3. Len(ws) <= Len(ws) + Len(x) /\ Len(ws) + Len(x) \in Nat
    BY <1>2
  <1> QED  BY <1>1, <1>2, <1>3 DEF GoesOn

\* One word or group more, which leads on from the end.
LEMMA ReadsMore ==
  ASSUME NEW fm \in Formats, NEW ws, NEW s, NEW es, NEW ts, CanRead(fm, ws, s, es, ts),
         NEW x \in Seq(Words), Len(x) >= 1, NEW new \in States, NEW e \in Seq(Events),
         NEW r \in Seq(Triggers),
         Reads(fm, ws \o x, Point(Len(ws), s, es, ts), Point(Len(ws) + Len(x), new, es \o e, ts \o r))
  PROVE  CanRead(fm, ws \o x, new, es \o e, ts \o r)
  <1>1. /\ ws \in Seq(Words) /\ s \in States /\ es \in Seq(Events) /\ ts \in Seq(Triggers)
    BY CanReadFacts
  <1>2. PICK vs \in Seq(Words), n \in Nat, b \in Seq(Events), c \in Seq(Triggers) :
              /\ vs = ws \o x /\ n = Len(ws) + Len(x) /\ b = es \o e /\ c = ts \o r
    <2>1. ws \o x \in Seq(Words) /\ es \o e \in Seq(Events) /\ ts \o r \in Seq(Triggers)
      BY <1>1
    <2>2. Len(ws) + Len(x) \in Nat
      BY <1>1
    <2> QED  BY <2>1, <2>2
  <1>3. SUFFICES CanRead(fm, vs, new, b, c)
    BY <1>2
  <1>4. Reads(fm, vs, Point(Len(ws), s, es, ts), Point(n, new, b, c))
    BY <1>2
  <1>5. /\ Len(vs) = n /\ Len(ws) \in Nat /\ Len(vs) \in Nat /\ GoesOn(ws, vs) /\ Len(ws) < n
    <2>1. /\ Len(vs) = Len(ws) + Len(x) /\ Len(ws) \in Nat /\ Len(x) \in Nat
          /\ Len(vs) \in Nat /\ GoesOn(ws, vs)
      BY <1>1, <1>2, WordsBehind
    <2> QED  BY <1>2, <2>1
  <1>6. PICK C, i : IsReading(fm, ws, C, Point(Len(ws), s, es, ts)) /\ First(ws, i) /\ Beginning(i) \in C
    BY DEF CanRead
  <1>7. Begins(es, b) /\ Begins(ts, c)
    BY <1>1, <1>2, BeginsFacts
  <1> DEFINE z == Point(Len(ws), s, es, ts)
             d == Point(n, new, b, c)
  <1>8. z.pos = Len(ws) /\ z.ev = es /\ z.tr = ts
    BY PointIs
  <1>9. d.pos = n /\ d.ev = b /\ d.tr = c
    BY PointIs
  <1>10. d \in Points
    BY PointIs
  <1>11. /\ Reads(fm, vs, z, d) /\ IsReading(fm, ws, C, z) /\ d = Point(Len(vs), new, b, c)
    BY <1>4, <1>5, <1>6
  <1> HIDE DEF z, d
  <1>12. IsReading(fm, vs, C, z)
    BY <1>1, <1>5, <1>11, ReadingOn
  <1>13. z.pos < d.pos /\ d.pos <= Len(vs)
    BY <1>5, <1>8, <1>9
  <1>14. Begins(z.ev, d.ev) /\ Begins(z.tr, d.tr)
    BY <1>7, <1>8, <1>9
  <1>15. IsReading(fm, vs, C \cup {d}, d)
    BY <1>10, <1>11, <1>12, <1>13, <1>14, ReadingGrows
  <1>16. First(vs, i)
    BY <1>5, <1>6, FirstOn
  <1>17. Beginning(i) \in C \cup {d}
    BY <1>6
  <1> DEFINE D == C \cup {d}
  <1>18. IsReading(fm, vs, D, Point(Len(vs), new, b, c)) /\ Beginning(i) \in D
    BY <1>11, <1>15, <1>17
  <1> HIDE DEF D
  <1> QED  BY <1>16, <1>18 DEF CanRead

\* Sequences of one member and of none.
LEMMA OneOf ==
  ASSUME NEW S, NEW w \in S
  PROVE  \E x \in Seq(S) : x = <<w>> /\ Len(x) = 1 /\ Len(x) >= 1 /\ x[1] = w
  <1> DEFINE x == <<w>>
  <1>1. x \in Seq(S) /\ Len(x) = 1 /\ x[1] = w
    OBVIOUS
  <1>2. Len(x) >= 1
    BY <1>1
  <1> QED  BY <1>1, <1>2, Zenon

\* Nothing, as a sequence of any set.
LEMMA NoneOf ==
  ASSUME NEW S
  PROVE  \E x \in Seq(S) : x = <<>>
  <1>1. <<>> \in Seq(S)
    OBVIOUS
  <1> QED  BY <1>1, Zenon

\* The end of a recording with one word more.
LEMMA OneBehind ==
  ASSUME NEW ws \in Seq(Words), NEW w \in Words
  PROVE  /\ ws \o <<w>> \in Seq(Words) /\ (ws \o <<w>>)[Len(ws) + 1] = w
         /\ Len(ws) \in Nat /\ Len(ws) < Len(ws \o <<w>>) /\ Len(ws \o <<w>>) = Len(ws) + 1
         /\ GoesOn(ws, ws \o <<w>>) /\ <<w>> \in Seq(Words) /\ Len(<<w>>) = 1
  <1>1. PICK x \in Seq(Words) : x = <<w>> /\ Len(x) = 1 /\ x[1] = w
    BY OneOf
  <1>2. Len(x) = 1 /\ x[1] = w
    BY <1>1
  <1>3. /\ ws \o x \in Seq(Words) /\ Len(ws \o x) = Len(ws) + Len(x)
        /\ Len(ws) \in Nat /\ GoesOn(ws, ws \o x)
        /\ \A i \in 1 .. Len(x) : (ws \o x)[Len(ws) + i] = x[i]
    BY WordsBehind
  <1>4. (ws \o x)[Len(ws) + 1] = w
    <2>1. 1 \in 1 .. Len(x)
      BY <1>2
    <2> QED  BY <1>2, <1>3, <2>1
  <1>5. Len(ws) < Len(ws \o x) /\ Len(ws \o x) = Len(ws) + 1
    BY <1>2, <1>3
  <1> QED  BY <1>1, <1>2, <1>3, <1>4, <1>5

\* A word that says nothing, one that says events, and a trigger.
LEMMA QuietMore ==
  ASSUME NEW fm \in Formats, NEW ws, NEW s, NEW es, NEW ts, CanRead(fm, ws, s, es, ts),
         NEW w \in Words, NEW new \in States,
         Reads(fm, ws \o <<w>>, Point(Len(ws), s, es, ts), Point(Len(ws) + 1, new, es, ts))
  PROVE  CanRead(fm, ws \o <<w>>, new, es, ts)
  <1>1. ws \in Seq(Words) /\ es \in Seq(Events) /\ ts \in Seq(Triggers)
    BY CanReadFacts
  <1>2. PICK x \in Seq(Words) : x = <<w>> /\ Len(x) = 1 /\ Len(x) >= 1
    BY OneOf
  <1>3. PICK e \in Seq(Events), r \in Seq(Triggers) : e = <<>> /\ r = <<>>
    BY NoneOf
  <1>4. es \o e = es /\ ts \o r = ts
    BY <1>1, <1>3
  <1>5. Reads(fm, ws \o x, Point(Len(ws), s, es, ts), Point(Len(ws) + Len(x), new, es \o e, ts \o r))
    BY <1>2, <1>4
  <1>6. CanRead(fm, ws \o x, new, es \o e, ts \o r)
    BY <1>2, <1>5, ReadsMore
  <1> QED  BY <1>2, <1>4, <1>6

\* Words that give events, put behind a file that can be read.
LEMMA LoudMore ==
  ASSUME NEW fm \in Formats, NEW ws, NEW s, NEW es, NEW ts, CanRead(fm, ws, s, es, ts),
         NEW x \in Seq(Words), Len(x) >= 1, NEW new \in States, NEW e \in Seq(Events),
         Reads(fm, ws \o x, Point(Len(ws), s, es, ts), Point(Len(ws) + Len(x), new, es \o e, ts))
  PROVE  CanRead(fm, ws \o x, new, es \o e, ts)
  <1>1. ws \in Seq(Words) /\ ts \in Seq(Triggers)
    BY CanReadFacts
  <1>2. PICK r \in Seq(Triggers) : r = <<>>
    BY NoneOf
  <1>3. ts \o r = ts
    BY <1>1, <1>2
  <1>4. Reads(fm, ws \o x, Point(Len(ws), s, es, ts), Point(Len(ws) + Len(x), new, es \o e, ts \o r))
    BY <1>3
  <1>5. CanRead(fm, ws \o x, new, es \o e, ts \o r)
    BY <1>4, ReadsMore
  <1> QED  BY <1>3, <1>5

\* A word that gives a trigger, put behind it.
LEMMA TriggerMore ==
  ASSUME NEW fm \in Formats, NEW ws, NEW s, NEW es, NEW ts, CanRead(fm, ws, s, es, ts),
         NEW w \in Words, NEW t \in Triggers,
         Reads(fm, ws \o <<w>>, Point(Len(ws), s, es, ts), Point(Len(ws) + 1, s, es, ts \o <<t>>))
  PROVE  CanRead(fm, ws \o <<w>>, s, es, ts \o <<t>>)
  <1>1. ws \in Seq(Words) /\ es \in Seq(Events) /\ ts \in Seq(Triggers) /\ s \in States
    BY CanReadFacts
  <1>2. PICK x \in Seq(Words) : x = <<w>> /\ Len(x) = 1 /\ Len(x) >= 1
    BY OneOf
  <1>3. PICK e \in Seq(Events), r \in Seq(Triggers) : e = <<>> /\ r = <<t>>
    BY OneOf, NoneOf
  <1>4. es \o e = es
    BY <1>1, <1>3
  <1>5. Reads(fm, ws \o x, Point(Len(ws), s, es, ts), Point(Len(ws) + Len(x), s, es \o e, ts \o r))
    BY <1>2, <1>3, <1>4
  <1>6. CanRead(fm, ws \o x, s, es \o e, ts \o r)
    BY <1>1, <1>2, <1>5, ReadsMore
  <1> QED  BY <1>2, <1>3, <1>4, <1>6

\* The words of the formats, one behind the other.
LEMMA HighRead ==
  ASSUME NEW fm \in Formats, NEW ws, NEW s, NEW es, NEW ts, CanRead(fm, ws, s, es, ts),
         NEW v \in 0 .. H - 1
  PROVE  CanRead(fm, ws \o High(v), WithHigh(s, v), es, ts)
  <1>1. PICK w \in Words : w = [k |-> "high", v |-> v]
    BY DEF Words
  <1>2. w.k = "high" /\ w.v = v /\ High(v) = <<w>>
    BY <1>1 DEF High
  <1>3. ws \in Seq(Words) /\ s \in States
    BY CanReadFacts
  <1>4. WithHigh(s, v) \in States
    BY <1>3, HighType
  <1>5. (ws \o <<w>>)[Len(ws) + 1] = w /\ Len(ws) < Len(ws \o <<w>>)
    BY <1>3, OneBehind
  <1>6. Reads(fm, ws \o <<w>>, Point(Len(ws), s, es, ts), Point(Len(ws) + 1, WithHigh(s, v), es, ts))
    BY <1>2, <1>5 DEF Reads, Point
  <1>7. CanRead(fm, ws \o <<w>>, WithHigh(s, v), es, ts)
    BY <1>4, <1>6, QuietMore
  <1> QED  BY <1>2, <1>7

\* A word of EVT3 that only sets a part of the state, put behind it.
LEMMA SetRead ==
  ASSUME NEW ws, NEW s, NEW es, NEW ts, CanRead("evt3", ws, s, es, ts),
         NEW w \in Words, NEW new \in States, Sets(w, s, new)
  PROVE  CanRead("evt3", ws \o <<w>>, new, es, ts)
  <1>1. ws \in Seq(Words) /\ s \in States
    BY CanReadFacts
  <1>2. (ws \o <<w>>)[Len(ws) + 1] = w /\ Len(ws) < Len(ws \o <<w>>)
    BY <1>1, OneBehind
  <1>3. Reads("evt3", ws \o <<w>>, Point(Len(ws), s, es, ts), Point(Len(ws) + 1, new, es, ts))
    BY <1>2 DEF Reads, Point
  <1>4. "evt3" \in Formats
    BY DEF Formats
  <1> QED  BY <1>3, <1>4, QuietMore

\* A word the decoder skips, put behind it.
LEMMA OtherRead ==
  ASSUME NEW fm \in Formats, NEW ws, NEW s, NEW es, NEW ts, CanRead(fm, ws, s, es, ts),
         NEW w \in Words, w.k = "other" \/ (fm = "evt3" /\ w.k = "v8" /\ Len(ws) >= 2 /\ ws[Len(ws)].k # "v12")
  PROVE  CanRead(fm, ws \o <<w>>, s, es, ts)
  <1>1. ws \in Seq(Words) /\ s \in States
    BY CanReadFacts
  <1>2. /\ (ws \o <<w>>)[Len(ws) + 1] = w /\ Len(ws) < Len(ws \o <<w>>) /\ Len(ws) \in Nat
        /\ GoesOn(ws, ws \o <<w>>)
    BY <1>1, OneBehind
  <1>3. Reads(fm, ws \o <<w>>, Point(Len(ws), s, es, ts), Point(Len(ws) + 1, s, es, ts))
    <2>1. CASE w.k = "other"
      BY <1>2, <2>1 DEF Reads, Point
    <2>2. CASE fm = "evt3" /\ w.k = "v8" /\ Len(ws) >= 2 /\ ws[Len(ws)].k # "v12"
      <3>1. Len(ws) + 1 >= 3 /\ Len(ws) + 1 - 1 = Len(ws) /\ Len(ws) \in 1 .. Len(ws)
        BY <1>2, <2>2
      <3>2. (ws \o <<w>>)[Len(ws)] = ws[Len(ws)]
        BY <1>2, <3>1 DEF GoesOn
      <3>3. Stray(ws \o <<w>>, Len(ws) + 1)
        BY <1>2, <2>2, <3>1, <3>2 DEF Stray
      <3> QED  BY <1>2, <2>2, <3>3 DEF Reads, Point
    <2> QED  BY <2>1, <2>2
  <1> QED  BY <1>1, <1>3, QuietMore

\* A trigger is read with the time of the state it meets.
LEMMA TriggerRead ==
  ASSUME NEW fm \in Formats, NEW ws, NEW s, NEW es, NEW ts, CanRead(fm, ws, s, es, ts),
         NEW w \in Words, w.k = "trig", NEW t \in Triggers,
         t = [t |-> TimeOf(fm, s, w), id |-> w.id]
  PROVE  CanRead(fm, ws \o <<w>>, s, es, ts \o <<t>>)
  <1>1. ws \in Seq(Words) /\ s \in States
    BY CanReadFacts
  <1>2. (ws \o <<w>>)[Len(ws) + 1] = w /\ Len(ws) < Len(ws \o <<w>>)
    BY <1>1, OneBehind
  <1>3. Reads(fm, ws \o <<w>>, Point(Len(ws), s, es, ts), Point(Len(ws) + 1, s, es, ts \o <<t>>))
    BY <1>2 DEF Reads, Point
  <1> QED  BY <1>3, TriggerMore

\* An address word of EVT3 is read as one event of the time and row told before.
LEMMA AddressRead ==
  ASSUME NEW ws, NEW s, NEW es, NEW ts, CanRead("evt3", ws, s, es, ts),
         NEW w \in Words, w.k = "x", NEW e \in Seq(Events),
         e = <<[t |-> s.ts, x |-> w.x, y |-> s.y]>>
  PROVE  CanRead("evt3", ws \o <<w>>, s, es \o e, ts)
  <1>1. ws \in Seq(Words) /\ s \in States
    BY CanReadFacts
  <1>2. PICK x \in Seq(Words) : x = <<w>> /\ Len(x) = 1 /\ Len(x) >= 1
    BY OneOf
  <1>3. (ws \o x)[Len(ws) + 1] = w /\ Len(ws) < Len(ws \o x)
    BY <1>1, <1>2, OneBehind
  <1>4. Shows(ws \o x, Len(ws) + 1, s, e)
    BY <1>3 DEF Shows
  <1>5. Reads("evt3", ws \o x, Point(Len(ws), s, es, ts), Point(Len(ws) + 1, s, es \o e, ts))
    BY <1>3, <1>4 DEF Reads, Point
  <1>6. "evt3" \in Formats
    BY DEF Formats
  <1>7. CanRead("evt3", ws \o x, s, es \o e, ts)
    BY <1>1, <1>2, <1>5, <1>6, LoudMore
  <1> QED  BY <1>2, <1>7

\* An event word of the other formats is read with its own low bits.
LEMMA EventRead ==
  ASSUME NEW fm \in Formats, fm # "evt3", NEW ws, NEW s, NEW es, NEW ts, CanRead(fm, ws, s, es, ts),
         NEW w \in Words, w.k = "cd", NEW e \in Seq(Events),
         e = IF fm = "evt21" THEN Columns(Clock(s, w.low), w.x, w.y, w.bits)
             ELSE <<[t |-> Clock(s, w.low), x |-> w.x, y |-> w.y]>>
  PROVE  CanRead(fm, ws \o <<w>>, s, es \o e, ts)
  <1>1. ws \in Seq(Words) /\ s \in States
    BY CanReadFacts
  <1>2. PICK x \in Seq(Words) : x = <<w>> /\ Len(x) = 1 /\ Len(x) >= 1
    BY OneOf
  <1>3. (ws \o x)[Len(ws) + 1] = w /\ Len(ws) < Len(ws \o x)
    BY <1>1, <1>2, OneBehind
  <1>4. Tells(fm, ws \o x, Len(ws) + 1, s, e)
    BY <1>3 DEF Tells
  <1>5. Reads(fm, ws \o x, Point(Len(ws), s, es, ts), Point(Len(ws) + 1, s, es \o e, ts))
    BY <1>3, <1>4 DEF Reads, Point
  <1>6. CanRead(fm, ws \o x, s, es \o e, ts)
    BY <1>1, <1>2, <1>5, LoudMore
  <1> QED  BY <1>2, <1>6

\* The three words of a group are the columns of the mask.
LEMMA PartsOf ==
  ASSUME NEW bits, bits \subseteq 0 .. 3 * V - 1
  PROVE  bits = UNION {{j * V + b : b \in Part(bits, j)} : j \in 0 .. 2}
  <1>0. V \in Nat /\ V >= 1
    BY Sizes
  <1>1. ASSUME NEW k \in bits
        PROVE  \E j \in 0 .. 2 : \E b \in Part(bits, j) : k = j * V + b
    <2>1. k \in 0 .. 3 * V - 1
      BY <1>1
    <2>2. k \in Nat /\ k < 3 * V
      BY <1>0, <2>1
    <2>3. PICK j \in 0 .. 2, b \in 0 .. V - 1 : k = j * V + b
      <3>1. CASE k < V
        <4>1. 0 \in 0 .. 2 /\ k \in 0 .. V - 1 /\ k = 0 * V + k
          BY <1>0, <2>2, <3>1
        <4> QED  BY <4>1
      <3>2. CASE V <= k /\ k < 2 * V
        <4>1. 1 \in 0 .. 2 /\ k - V \in 0 .. V - 1 /\ k = 1 * V + (k - V)
          BY <1>0, <2>2, <3>2
        <4> QED  BY <4>1
      <3>3. CASE 2 * V <= k
        <4>1. 2 \in 0 .. 2 /\ k - 2 * V \in 0 .. V - 1 /\ k = 2 * V + (k - 2 * V)
          BY <1>0, <2>2, <3>3
        <4> QED  BY <4>1
      <3>4. k < V \/ (V <= k /\ k < 2 * V) \/ 2 * V <= k
        BY <1>0, <2>2
      <3> QED  BY <3>1, <3>2, <3>3, <3>4
    <2>4. b \in Part(bits, j)
      BY <1>1, <2>3 DEF Part
    <2> QED  BY <2>3, <2>4
  <1>2. ASSUME NEW j \in 0 .. 2, NEW b \in Part(bits, j)
        PROVE  j * V + b \in bits
    BY DEF Part
  <1> DEFINE P(j) == {j * V + b : b \in Part(bits, j)}
             U == UNION {P(j) : j \in 0 .. 2}
  <1>3. ASSUME NEW k \in bits
        PROVE  k \in U
    <2>1. PICK j \in 0 .. 2 : \E b \in Part(bits, j) : k = j * V + b
      BY <1>1
    <2>2. k \in P(j)
      BY <2>1
    <2> HIDE DEF P
    <2> QED  BY <2>2
  <1>4. ASSUME NEW k \in U
        PROVE  k \in bits
    <2>1. PICK j \in 0 .. 2 : k \in P(j)
      <3> HIDE DEF P
      <3> QED  OBVIOUS
    <2>2. PICK b \in Part(bits, j) : k = j * V + b
      BY <2>1
    <2> QED  BY <1>2, <2>2
  <1>5. bits = U
    <2> HIDE DEF U
    <2> QED  BY <1>3, <1>4
  <1> QED  BY <1>5

\* A vector group behind its base address.
LEMMA GroupRead ==
  ASSUME NEW ws, NEW s, NEW es, NEW ts, CanRead("evt3", ws, s, es, ts),
         NEW bits, bits \subseteq 0 .. 3 * V - 1, NEW x \in Seq(Words),
         x = <<[k |-> "v12", bits |-> Part(bits, 0)],
               [k |-> "v12", bits |-> Part(bits, 1)],
               [k |-> "v8", bits |-> Part(bits, 2)]>>,
         NEW new \in States, new = [s EXCEPT !.vx = @ + 3 * V],
         NEW e \in Seq(Events), e = Columns(s.ts, s.vx, s.y, bits)
  PROVE  CanRead("evt3", ws \o x, new, es \o e, ts)
  <1>1. ws \in Seq(Words) /\ s \in States /\ Len(ws) \in Nat
    BY CanReadFacts
  <1>2. Len(x) = 3
    OBVIOUS
  <1>3. /\ x[1] = [k |-> "v12", bits |-> Part(bits, 0)]
        /\ x[2] = [k |-> "v12", bits |-> Part(bits, 1)]
        /\ x[3] = [k |-> "v8", bits |-> Part(bits, 2)]
    OBVIOUS
  <1>4. PICK vs \in Seq(Words), n \in Nat : vs = ws \o x /\ n = Len(ws)
    <2>1. ws \o x \in Seq(Words)
      BY <1>1
    <2> QED  BY <1>1, <2>1
  <1>5. /\ Len(vs) = n + 3
        /\ \A i \in 1 .. Len(x) : vs[n + i] = x[i]
    BY <1>1, <1>2, <1>4, WordsBehind, SMTT(30), ZenonT(30)
  <1>6. /\ vs[n + 1] = [k |-> "v12", bits |-> Part(bits, 0)]
        /\ vs[n + 2] = [k |-> "v12", bits |-> Part(bits, 1)]
        /\ vs[n + 3] = [k |-> "v8", bits |-> Part(bits, 2)]
    <2>1. 1 \in 1 .. Len(x) /\ 2 \in 1 .. Len(x) /\ 3 \in 1 .. Len(x)
      BY <1>2
    <2> QED  BY <1>3, <1>5, <2>1
  <1>7. /\ vs[n + 1].k = "v12" /\ vs[n + 2].k = "v12" /\ vs[n + 3].k = "v8"
        /\ vs[n + 1].bits = Part(bits, 0) /\ vs[n + 2].bits = Part(bits, 1)
        /\ vs[n + 3].bits = Part(bits, 2)
    BY <1>6
  <1>8. n + 1 + 0 = n + 1 /\ n + 1 + 1 = n + 2 /\ n + 1 + 2 = n + 3
    OBVIOUS
  <1>9. \A j \in 0 .. 2 : vs[n + 1 + j].bits = Part(bits, j)
    <2>1. \A j \in 0 .. 2 : j = 0 \/ j = 1 \/ j = 2
      OBVIOUS
    <2> QED  BY <1>7, <1>8, <2>1
  <1>10. Three(vs, n + 1) = UNION {{j * V + b : b \in Part(bits, j)} : j \in 0 .. 2}
    BY <1>9 DEF Three
  <1>11. Three(vs, n + 1) = bits
    BY <1>10, PartsOf
  <1>12. Shows(vs, n + 1, s, e)
    BY <1>7, <1>11 DEF Shows
  <1>13. n < Len(vs) /\ n + 3 <= Len(vs)
    BY <1>5
  <1>14. Reads("evt3", vs, Point(n, s, es, ts), Point(n + 3, new, es \o e, ts))
    BY <1>7, <1>8, <1>12, <1>13 DEF Reads, Point
  <1>15. Reads("evt3", ws \o x, Point(Len(ws), s, es, ts), Point(Len(ws) + Len(x), new, es \o e, ts))
    BY <1>2, <1>4, <1>14
  <1>16. "evt3" \in Formats /\ Len(x) >= 1
    BY <1>2 DEF Formats
  <1> QED  BY <1>15, <1>16, LoudMore

\* A vector of evt4 and its mask.
LEMMA VectorRead ==
  ASSUME NEW ws, NEW s, NEW es, NEW ts, CanRead("evt4", ws, s, es, ts),
         NEW x \in Seq(Words), Len(x) = 2, x[1].k = "vec",
         NEW e \in Seq(Events), e = Columns(Clock(s, x[1].low), x[1].x, x[1].y, x[2].bits)
  PROVE  CanRead("evt4", ws \o x, s, es \o e, ts)
  <1>1. ws \in Seq(Words) /\ s \in States /\ Len(ws) \in Nat
    BY CanReadFacts
  <1>2. PICK vs \in Seq(Words), n \in Nat : vs = ws \o x /\ n = Len(ws)
    <2>1. ws \o x \in Seq(Words)
      BY <1>1
    <2> QED  BY <1>1, <2>1
  <1>3. /\ Len(vs) = n + 2
        /\ \A i \in 1 .. Len(x) : vs[n + i] = x[i]
    <2>1. /\ Len(ws \o x) = Len(ws) + Len(x)
          /\ \A i \in 1 .. Len(x) : (ws \o x)[Len(ws) + i] = x[i]
      BY <1>1, WordsBehind
    <2> QED  BY <1>2, <2>1
  <1>4. vs[n + 1] = x[1] /\ vs[n + 2] = x[2]
    <2>1. 1 \in 1 .. Len(x) /\ 2 \in 1 .. Len(x)
      OBVIOUS
    <2> QED  BY <1>3, <2>1
  <1>5. n + 1 + 1 = n + 2
    OBVIOUS
  <1>6. Tells("evt4", vs, n + 1, s, e)
    BY <1>4, <1>5 DEF Tells
  <1>7. n < Len(vs) /\ n + 2 <= Len(vs)
    BY <1>3
  <1>8. Reads("evt4", vs, Point(n, s, es, ts), Point(n + 2, s, es \o e, ts))
    BY <1>4, <1>6, <1>7 DEF Reads, Point
  <1>9. Reads("evt4", ws \o x, Point(Len(ws), s, es, ts), Point(Len(ws) + Len(x), s, es \o e, ts))
    BY <1>2, <1>8
  <1>10. "evt4" \in Formats /\ Len(x) >= 1
    BY DEF Formats
  <1> QED  BY <1>1, <1>9, <1>10, LoudMore

\* The first TIME_HIGH behind words without one.
LEMMA FirstHigh ==
  ASSUME NEW fm \in Formats, NEW ws \in Seq(Words), ~ HasHigh(ws), NEW v \in 0 .. H - 1
  PROVE  CanRead(fm, ws \o High(v), WithHigh(ParserInit, v), <<>>, <<>>)
  <1>1. PICK w \in Words : w = [k |-> "high", v |-> v]
    BY DEF Words
  <1>2. w.k = "high" /\ w.v = v /\ High(v) = <<w>>
    BY <1>1 DEF High
  <1>3. PICK vs \in Seq(Words), n \in Nat, s \in States :
          vs = ws \o <<w>> /\ n = Len(ws) /\ s = WithHigh(ParserInit, v)
    <2>1. ws \o <<w>> \in Seq(Words) /\ Len(ws) \in Nat
      BY OneBehind
    <2>2. ParserInit \in States
      BY PeriodFacts, Sizes DEF ParserInit, States
    <2>3. WithHigh(ParserInit, v) \in States
      BY <2>2, HighType
    <2> QED  BY <2>1, <2>3
  <1>4. /\ vs[n + 1] = w /\ n < Len(vs) /\ Len(vs) = n + 1 /\ GoesOn(ws, vs)
    BY <1>3, OneBehind
  <1>5. PICK e \in Seq(Events), r \in Seq(Triggers) : e = <<>> /\ r = <<>>
    BY NoneOf
  <1> DEFINE c == Point(n, ParserInit, e, r)
             d == Point(n + 1, s, e, r)
  <1>6. Reads(fm, vs, c, d)
    BY <1>2, <1>3, <1>4 DEF Reads, Point
  <1>7. c \in Points /\ d \in Points
    <2>1. ParserInit \in States
      BY PeriodFacts, Sizes DEF ParserInit, States
    <2>2. n + 1 \in Nat
      OBVIOUS
    <2> QED  BY <2>1, <2>2, PointIs, Zenon
  <1>8. c.pos = n /\ c.ev = e /\ c.tr = r /\ d.pos = n + 1 /\ d.ev = e /\ d.tr = r
    BY PointIs
  <1>9. Begins(e, e) /\ Begins(r, r)
    BY BeginsFacts
  <1>10. d = Point(Len(vs), s, <<>>, <<>>)
    BY <1>4, <1>5
  <1>11. c = Beginning(n + 1)
    <2>1. n + 1 - 1 = n
      OBVIOUS
    <2> QED  BY <1>5, <2>1 DEF Beginning
  <1> HIDE DEF c, d
  <1>12. c.pos <= Len(vs) /\ c.pos < d.pos /\ d.pos <= Len(vs)
    BY <1>4, <1>8
  <1>13. IsReading(fm, vs, {c}, c)
    BY <1>7, <1>12, ReadsNothing
  <1>14. Begins(c.ev, d.ev) /\ Begins(c.tr, d.tr)
    BY <1>8, <1>9
  <1>15. IsReading(fm, vs, {c} \cup {d}, d)
    BY <1>6, <1>7, <1>12, <1>13, <1>14, ReadingGrows
  <1>16. First(vs, n + 1)
    <2>1. n + 1 \in 1 .. Len(vs) /\ ReadsHigh(vs[n + 1])
      BY <1>2, <1>4 DEF ReadsHigh
    <2>2. ASSUME NEW j \in 1 .. Len(vs), ReadsHigh(vs[j])
          PROVE  n + 1 <= j
      <3>1. SUFFICES ASSUME j < n + 1
                     PROVE  FALSE
        BY <1>4
      <3>2. j \in 1 .. Len(ws)
        BY <1>3, <3>1
      <3>3. vs[j] = ws[j]
        BY <1>4, <3>2 DEF GoesOn
      <3> QED  BY <2>2, <3>2, <3>3 DEF HasHigh
    <2> QED  BY <2>1, <2>2 DEF First
  <1> DEFINE D == {c} \cup {d}
  <1>17. IsReading(fm, vs, D, Point(Len(vs), s, <<>>, <<>>)) /\ Beginning(n + 1) \in D
    BY <1>10, <1>11, <1>15
  <1> HIDE DEF D
  <1>18. CanRead(fm, vs, s, <<>>, <<>>)
    BY <1>16, <1>17 DEF CanRead
  <1> QED  BY <1>2, <1>3, <1>18

-----------------------------------------------------------------------------
(* The writers.                                                            *)

\* A low part that moves whenever the clock does.
LowMoves == \A d \in Deltas : d % L = 0 => d = 0

\* The times of the recording can be told from its words.
OnTime(fm, cam) == LowMoves \/ fm # "evt3" \/ cam

\* A recording of which the time words tell the high part of t.
Clocked(fm, ws, t, s, es, ts) ==
  CanRead(fm, ws, s, es, ts) /\ s.high = HighOf(t) /\ s.hh = Epoch(t)

\* A vector word out of place may follow.
Closed(ws) == Len(ws) >= 2 /\ ws[Len(ws)].k # "v12"

NotBegun(t, e, ws, tru, trs) ==
  /\ e.high = None /\ e.low = None /\ e.y = None
  /\ t = Start /\ tru = <<>> /\ trs = <<>> /\ ~ HasHigh(ws)

\* In evt3 the parser also keeps the time and the row.
Kept(fm, cam, t, e, ws, s) ==
  fm = "evt3" =>
    /\ OnTime(fm, cam) => s.ts = t
    /\ e.y # None => s.y = e.y
    /\ ~ cam => e.low = LowOf(t)
    /\ Closed(ws)

Told(fm, cam, t, e, ws, tru, trs) ==
  /\ e.high = HighOf(t)
  /\ \E s, es, ts : /\ Clocked(fm, ws, t, s, es, ts)
                    /\ Kept(fm, cam, t, e, ws, s)
                    /\ OnTime(fm, cam) => es = tru /\ ts = trs

\* What the writer has written by the time t.
Recorded(fm, cam, t, e, ws, tru, trs) ==
  /\ t \in Nat /\ ws \in Seq(Words) /\ tru \in Seq(Events) /\ trs \in Seq(Triggers)
  /\ NotBegun(t, e, ws, tru, trs) \/ Told(fm, cam, t, e, ws, tru, trs)

\* A word that is written under a condition.
LEMMA IfFacts ==
  ASSUME NEW S, NEW ws \in Seq(S), NEW x, NEW c \in BOOLEAN
  PROVE  /\ c => ws \o If(c, x) = ws \o x
         /\ ~ c => ws \o If(c, x) = ws
  <1>1. ws \o <<>> = ws
    OBVIOUS
  <1> QED  BY <1>1 DEF If

\* A step of time is shorter than a turn of the clock.
LEMMA StepsOfTime ==
  ASSUME NEW t \in Nat, NEW d \in Deltas \cup CamDeltas
  PROVE  d \in 0 .. (H - 1) * L /\ d \in Nat /\ t + d \in Nat /\ Start \in Nat /\ Start + d < Period
  <1>1. d \in 0 .. (H - 1) * L /\ Start \in Nat /\ Start + d < Period
    BY CodecAssumption
  <1>2. d \in Nat
    BY <1>1
  <1> QED  BY <1>1, <1>2

\* The parts of a time are parts a word can hold.
LEMMA HighsOf ==
  ASSUME NEW t \in Nat
  PROVE  HighOf(t) \in 0 .. H - 1 /\ HighOf(t) # None /\ LowOf(t) # None /\ LowOf(t) \in Nat
  <1>1. HighOf(t) \in 0 .. H - 1 /\ LowOf(t) \in 0 .. L - 1
    BY TimeParts
  <1>2. H \in Nat /\ L \in Nat
    BY Sizes
  <1> QED  BY <1>1, <1>2 DEF None

\* A decoder that knows the high part and the turn tells the time from the low part.
LEMMA ClockTells ==
  ASSUME NEW t \in Nat, NEW s, s.high = HighOf(t), s.hh = Epoch(t)
  PROVE  Clock(s, LowOf(t)) = t
  BY TimeParts DEF Clock

\* What a high word sets: the high part, and the turn when it fell.
LEMMA HighFields ==
  ASSUME NEW s \in States, NEW v
  PROVE  /\ WithHigh(s, v).high = v /\ WithHigh(s, v).ts = s.ts /\ WithHigh(s, v).y = s.y
         /\ WithHigh(s, v).hh = IF v < s.high THEN s.hh + Period ELSE s.hh
  <1>1. /\ [s EXCEPT !.hh = s.hh, !.high = v].high = v
        /\ [s EXCEPT !.hh = s.hh, !.high = v].ts = s.ts
        /\ [s EXCEPT !.hh = s.hh, !.high = v].y = s.y
        /\ [s EXCEPT !.hh = s.hh, !.high = v].hh = s.hh
    BY DEF States
  <1>2. \A m : /\ [s EXCEPT !.hh = m, !.high = v].high = v
               /\ [s EXCEPT !.hh = m, !.high = v].ts = s.ts
               /\ [s EXCEPT !.hh = m, !.high = v].y = s.y
               /\ [s EXCEPT !.hh = m, !.high = v].hh = m
    BY DEF States
  <1>3. WithHigh(s, v) = [s EXCEPT !.hh = IF v < s.high THEN s.hh + Period ELSE s.hh, !.high = v]
    BY DEF WithHigh
  <1> QED  BY <1>2, <1>3

\* A recording that has begun goes on with the time word it needs.
LEMMA HighTold ==
  ASSUME NEW fm \in Formats, NEW ws, NEW t \in Nat, NEW s, NEW es, NEW ts,
         Clocked(fm, ws, t, s, es, ts), NEW d \in Deltas \cup CamDeltas,
         NEW c \in BOOLEAN, ~ c => HighOf(t + d) = HighOf(t)
  PROVE  \E new : /\ Clocked(fm, ws \o If(c, High(HighOf(t + d))), t + d, new, es, ts)
                  /\ new.ts = s.ts /\ new.y = s.y
  <1>1. d \in 0 .. (H - 1) * L /\ t + d \in Nat
    BY StepsOfTime
  <1>2. PICK u \in Nat : u = t + d
    BY <1>1
  <1>3. Epoch(u) = IF HighOf(u) < HighOf(t) THEN Epoch(t) + Period ELSE Epoch(t)
    BY <1>1, <1>2, NextHigh
  <1>4. CanRead(fm, ws, s, es, ts) /\ s.high = HighOf(t) /\ s.hh = Epoch(t)
    BY DEF Clocked
  <1>5. ws \in Seq(Words) /\ s \in States
    BY <1>4, CanReadFacts
  <1>6. HighOf(u) \in 0 .. H - 1 /\ HighOf(t) \in 0 .. H - 1
    BY HighsOf
  <1>7. CASE c
    <2>1. CanRead(fm, ws \o High(HighOf(u)), WithHigh(s, HighOf(u)), es, ts)
      BY <1>4, <1>6, HighRead
    <2>2. /\ WithHigh(s, HighOf(u)).high = HighOf(u) /\ WithHigh(s, HighOf(u)).ts = s.ts
          /\ WithHigh(s, HighOf(u)).y = s.y
          /\ WithHigh(s, HighOf(u)).hh = IF HighOf(u) < s.high THEN s.hh + Period ELSE s.hh
      BY <1>5, HighFields
    <2>3. WithHigh(s, HighOf(u)).hh = Epoch(u)
      BY <1>3, <1>4, <2>2
    <2>4. ws \o If(c, High(HighOf(u))) = ws \o High(HighOf(u))
      BY <1>5, <1>7, IfFacts
    <2> QED  BY <1>2, <2>1, <2>2, <2>3, <2>4 DEF Clocked
  <1>8. CASE ~ c
    <2>1. HighOf(u) = HighOf(t)
      BY <1>2, <1>8
    <2>2. ~ (HighOf(u) < HighOf(t))
      <3>1. H \in Nat
        BY Sizes
      <3> QED  BY <1>6, <2>1, <3>1
    <2>3. Epoch(u) = Epoch(t)
      BY <1>3, <2>2
    <2>4. ws \o If(c, High(HighOf(u))) = ws
      BY <1>5, <1>8, IfFacts
    <2> QED  BY <1>2, <1>4, <2>1, <2>3, <2>4 DEF Clocked
  <1> QED  BY <1>7, <1>8

\* One that has not begun begins with it.
LEMMA HighBegins ==
  ASSUME NEW fm \in Formats, NEW ws \in Seq(Words), ~ HasHigh(ws), NEW d \in Deltas \cup CamDeltas
  PROVE  \E new : Clocked(fm, ws \o High(HighOf(Start + d)), Start + d, new, <<>>, <<>>)
  <1>1. Start \in Nat /\ d \in Nat /\ Start + d < Period
    BY CodecAssumption, StepsOfTime
  <1>2. PICK u \in Nat : u = Start + d
    BY <1>1
  <1>3. HighOf(u) \in 0 .. H - 1 /\ H \in Nat
    BY HighsOf, Sizes
  <1>4. CanRead(fm, ws \o High(HighOf(u)), WithHigh(ParserInit, HighOf(u)), <<>>, <<>>)
    BY <1>3, FirstHigh
  <1>5. ParserInit \in States /\ ParserInit.hh = 0 /\ ParserInit.high = 0
    BY PeriodFacts, Sizes DEF ParserInit, States
  <1>6. ~ (HighOf(u) < 0)
    BY <1>3
  <1>7. WithHigh(ParserInit, HighOf(u)).high = HighOf(u)
        /\ WithHigh(ParserInit, HighOf(u)).hh = 0
    BY <1>5, <1>6, HighFields
  <1>8. Epoch(u) = 0
    <2>1. Period \in Nat /\ Period >= 1
      BY PeriodFacts
    <2>2. PICK q \in Nat, r \in 0 .. Period - 1 : q = u \div Period /\ u = q * Period + r
      BY <2>1, Divided, ZenonT(30), SMTT(30)
    <2>3. u = 0 * Period + u /\ u \in 0 .. Period - 1
      BY <1>1, <1>2, <2>1
    <2>4. q * Period + r = 0 * Period + u
      BY <2>2, <2>3
    <2>5. q = 0
      BY <2>1, <2>2, <2>3, <2>4, DividedOnce
    <2>6. 0 * Period = 0
      BY <2>1
    <2> QED  BY <2>2, <2>5, <2>6 DEF Epoch
  <1> QED  BY <1>2, <1>4, <1>7, <1>8 DEF Clocked

\* Both: the time word before what is told at t + d.
LEMMA TimeTold ==
  ASSUME NEW fm \in Formats, NEW cam \in BOOLEAN, NEW t, NEW e, NEW ws, NEW tru, NEW trs,
         Recorded(fm, cam, t, e, ws, tru, trs), NEW d \in Deltas \cup CamDeltas,
         NEW c \in BOOLEAN, ~ c => HighOf(t + d) = e.high
  PROVE  \E new, es, ts :
           /\ Clocked(fm, ws \o If(c, High(HighOf(t + d))), t + d, new, es, ts)
           /\ OnTime(fm, cam) => es = tru /\ ts = trs
           /\ e.high = None => e.low = None /\ e.y = None
           /\ e.high # None => Kept(fm, cam, t, e, ws, new)
  <1>1. t \in Nat /\ ws \in Seq(Words)
    BY DEF Recorded
  <1>2. t + d \in Nat
    BY <1>1, StepsOfTime
  <1>3. HighOf(t + d) # None /\ HighOf(t) # None
    BY <1>1, <1>2, HighsOf
  <1>4. CASE NotBegun(t, e, ws, tru, trs)
    <2>1. /\ e.high = None /\ e.low = None /\ e.y = None
          /\ t = Start /\ tru = <<>> /\ trs = <<>> /\ ~ HasHigh(ws)
      BY <1>4 DEF NotBegun
    <2>2. c
      BY <1>3, <2>1
    <2>3. ws \o If(c, High(HighOf(t + d))) = ws \o High(HighOf(t + d))
      BY <1>1, <2>2, IfFacts
    <2>4. \E new : Clocked(fm, ws \o High(HighOf(t + d)), t + d, new, <<>>, <<>>)
      BY <1>1, <2>1, HighBegins
    <2> QED  BY <2>1, <2>3, <2>4
  <1>5. CASE Told(fm, cam, t, e, ws, tru, trs)
    <2>1. e.high = HighOf(t)
      BY <1>5 DEF Told
    <2>2. PICK s, es, ts : /\ Clocked(fm, ws, t, s, es, ts)
                           /\ Kept(fm, cam, t, e, ws, s)
                           /\ OnTime(fm, cam) => es = tru /\ ts = trs
      BY <1>5 DEF Told
    <2>3. ~ c => HighOf(t + d) = HighOf(t)
      BY <2>1
    <2>4. PICK new : /\ Clocked(fm, ws \o If(c, High(HighOf(t + d))), t + d, new, es, ts)
                     /\ new.ts = s.ts /\ new.y = s.y
      BY <1>1, <2>2, <2>3, HighTold
    <2>5. Kept(fm, cam, t, e, ws, new)
      BY <2>2, <2>4 DEF Kept
    <2> QED  BY <1>3, <2>1, <2>2, <2>4, <2>5
  <1> QED  BY <1>4, <1>5 DEF Recorded

\* A file that can be read has a word in it.
LEMMA NotEmpty ==
  ASSUME NEW fm, NEW ws, NEW s, NEW es, NEW ts, CanRead(fm, ws, s, es, ts)
  PROVE  Len(ws) \in Nat /\ Len(ws) >= 1
  <1>1. Len(ws) \in Nat
    BY CanReadFacts
  <1>2. PICK i : First(ws, i)
    BY DEF CanRead
  <1> QED  BY <1>1, <1>2 DEF First

\* A file whose last word is no first mask ends between two items.
LEMMA ClosedBy ==
  ASSUME NEW fm, NEW ws, NEW s, NEW es, NEW ts, CanRead(fm, ws, s, es, ts),
         NEW w \in Words, w.k # "v12"
  PROVE  Closed(ws \o <<w>>)
  <1>1. ws \in Seq(Words) /\ Len(ws) \in Nat /\ Len(ws) >= 1
    BY CanReadFacts, NotEmpty
  <1>2. (ws \o <<w>>)[Len(ws) + 1] = w /\ Len(ws \o <<w>>) = Len(ws) + 1
    BY <1>1, OneBehind
  <1>3. Len(ws) + 1 >= 2
    BY <1>1
  <1> QED  BY <1>2, <1>3 DEF Closed

\* What setting one field of the state changes, and what it leaves alone.
LEMMA Fields ==
  ASSUME NEW s \in States, NEW n \in Nat
  PROVE  /\ [s EXCEPT !.ts = n] \in States /\ [s EXCEPT !.ts = n].ts = n
         /\ [s EXCEPT !.ts = n].high = s.high /\ [s EXCEPT !.ts = n].hh = s.hh
         /\ [s EXCEPT !.ts = n].y = s.y
         /\ [s EXCEPT !.y = n] \in States /\ [s EXCEPT !.y = n].y = n
         /\ [s EXCEPT !.y = n].high = s.high /\ [s EXCEPT !.y = n].hh = s.hh
         /\ [s EXCEPT !.y = n].ts = s.ts
         /\ [s EXCEPT !.vx = n] \in States /\ [s EXCEPT !.vx = n].vx = n
         /\ [s EXCEPT !.vx = n].high = s.high /\ [s EXCEPT !.vx = n].hh = s.hh
         /\ [s EXCEPT !.vx = n].ts = s.ts /\ [s EXCEPT !.vx = n].y = s.y
  BY DEF States

\* The low part of the time, and the row.
LEMMA LowTold ==
  ASSUME NEW ws, NEW t \in Nat, NEW s, NEW es, NEW ts, Clocked("evt3", ws, t, s, es, ts),
         NEW c \in BOOLEAN
  PROVE  \E new : /\ Clocked("evt3", ws \o If(c, Low(LowOf(t))), t, new, es, ts)
                  /\ new.y = s.y
                  /\ c => new.ts = t /\ Closed(ws \o If(c, Low(LowOf(t))))
                  /\ ~ c => new.ts = s.ts
  <1>1. CanRead("evt3", ws, s, es, ts) /\ s.high = HighOf(t) /\ s.hh = Epoch(t)
    BY DEF Clocked
  <1>2. ws \in Seq(Words) /\ s \in States
    BY <1>1, CanReadFacts
  <1>3. CASE ~ c
    <2>1. ws \o If(c, Low(LowOf(t))) = ws
      BY <1>2, <1>3, IfFacts
    <2> QED  BY <1>3, <2>1
  <1>4. CASE c
    <2>1. LowOf(t) \in Nat
      BY HighsOf
    <2>2. PICK w \in Words : w = [k |-> "low", v |-> LowOf(t)]
      BY <2>1 DEF Words
    <2>3. w.k = "low" /\ w.v = LowOf(t) /\ Low(LowOf(t)) = <<w>>
      BY <2>2 DEF Low
    <2>4. Clock(s, LowOf(t)) = t
      BY <1>1, ClockTells
    <2>5. PICK new \in States : /\ new = [s EXCEPT !.ts = t] /\ new.ts = t /\ new.high = s.high
                                /\ new.hh = s.hh /\ new.y = s.y
      BY <1>2, Fields
    <2>6. Sets(w, s, new)
      BY <2>3, <2>4, <2>5 DEF Sets
    <2>7. CanRead("evt3", ws \o <<w>>, new, es, ts)
      BY <1>1, <2>6, SetRead
    <2>8. Closed(ws \o <<w>>)
      BY <1>1, <2>3, ClosedBy
    <2>9. ws \o If(c, Low(LowOf(t))) = ws \o <<w>>
      <3>1. ws \o If(c, Low(LowOf(t))) = ws \o Low(LowOf(t))
        BY <1>2, <1>4, IfFacts
      <3> QED  BY <2>3, <3>1
    <2> QED  BY <1>1, <1>4, <2>5, <2>7, <2>8, <2>9 DEF Clocked
  <1> QED  BY <1>3, <1>4

ToldRow(ws, t, y, old, time, es, ts) ==
  \E new : /\ Clocked("evt3", ws \o If(y # old, RowWord(y)), t, new, es, ts)
           /\ new.y = y /\ new.ts = time

\* A row word is written unless the decoder has the row already.
LEMMA RowTold ==
  ASSUME NEW ws, NEW t, NEW s, NEW es, NEW ts, Clocked("evt3", ws, t, s, es, ts),
         NEW y \in Nat, NEW old, old # None => s.y = old
  PROVE  ToldRow(ws, t, y, old, s.ts, es, ts)
  <1>1. CanRead("evt3", ws, s, es, ts) /\ s.high = HighOf(t) /\ s.hh = Epoch(t)
    BY DEF Clocked
  <1>2. ws \in Seq(Words) /\ s \in States
    BY <1>1, CanReadFacts
  <1>3. CASE y = old
    <2>1. ws \o If(y # old, RowWord(y)) = ws
      BY <1>2, <1>3, IfFacts
    <2>2. y # None
      BY DEF None
    <2> QED  BY <1>3, <2>1, <2>2 DEF ToldRow
  <1>4. CASE y # old
    <2>1. PICK w \in Words : w = [k |-> "y", y |-> y]
      BY DEF Words
    <2>2. w.k = "y" /\ w.y = y /\ RowWord(y) = <<w>>
      BY <2>1 DEF RowWord
    <2>3. PICK new \in States : /\ new = [s EXCEPT !.y = y] /\ new.y = y /\ new.high = s.high
                                /\ new.hh = s.hh /\ new.ts = s.ts
      BY <1>2, Fields
    <2>4. Sets(w, s, new)
      BY <2>2, <2>3 DEF Sets
    <2>5. CanRead("evt3", ws \o <<w>>, new, es, ts)
      BY <1>1, <2>4, SetRead
    <2>6. ws \o If(y # old, RowWord(y)) = ws \o <<w>>
      <3>1. If(y # old, RowWord(y)) = RowWord(y)
        BY <1>4 DEF If
      <3> QED  BY <2>2, <3>1
    <2> QED  BY <1>1, <2>3, <2>5, <2>6 DEF Clocked, ToldRow
  <1> QED  BY <1>3, <1>4

\* A clock whose low part repeats has not moved.
LEMMA LowRepeats ==
  ASSUME LowMoves, NEW t \in Nat, NEW d \in Deltas, LowOf(t + d) = LowOf(t)
  PROVE  d = 0
  <1>1. d \in Nat /\ t + d \in Nat
    BY StepsOfTime
  <1>2. L \in Nat /\ L >= 1
    BY Sizes
  <1>3. PICK p \in Nat, r \in 0 .. L - 1 : p = t \div L /\ r = t % L /\ t = p * L + r
    BY <1>2, Divided, Zenon
  <1>4. PICK u \in Nat : u = t + d
    BY <1>1
  <1>5. PICK q \in Nat, x \in 0 .. L - 1 : q = u \div L /\ x = u % L /\ u = q * L + x
    BY <1>2, Divided, Zenon
  <1>6. x = r
    BY <1>3, <1>4, <1>5 DEF LowOf
  <1>7. PICK k \in Nat, m \in 0 .. L - 1 : k = d \div L /\ m = d % L /\ d = k * L + m
    BY <1>1, <1>2, Divided, Zenon
  <1>8. q * L = (p + k) * L + m
    <2>1. PICK a \in Nat, b \in Nat, c \in Nat : a = p * L /\ b = q * L /\ c = k * L
      BY <1>2
    <2>2. t = a + r /\ u = b + r /\ d = c + m
      BY <1>3, <1>5, <1>6, <1>7, <2>1
    <2>3. b = a + c + m
      BY <1>2, <1>4, <2>2
    <2>4. (p + k) * L = p * L + k * L
      BY <1>2
    <2> QED  BY <1>2, <2>1, <2>3, <2>4
  <1>9. m = 0
    <2>1. 0 \in 0 .. L - 1 /\ p + k \in Nat
      BY <1>2
    <2>2. q * L + 0 = (p + k) * L + m
      BY <1>2, <1>8
    <2> QED  BY <1>2, <2>1, <2>2, DividedOnce
  <1> QED  BY <1>7, <1>9 DEF LowMoves

\* Both, where they are needed, and an address.
Rowed(ws, t, low, y, old) ==
  ws \o If(LowOf(t) # low, Low(LowOf(t))) \o If(y # old, RowWord(y))

Addressed(ws, t, low, y, old, x) == Rowed(ws, t, low, y, old) \o <<[k |-> "x", x |-> x]>>

Grown(es, es2, t, x, y) == es2 = Append(es, [t |-> t, x |-> x, y |-> y])

TimeOr(t, low, other) == IF LowOf(t) # low THEN t ELSE other

\* After the low and the row word, where needed, the decoder has both.
LEMMA LowAndRow ==
  ASSUME NEW ws, NEW t \in Nat, NEW s, NEW es, NEW ts, Clocked("evt3", ws, t, s, es, ts),
         NEW low, NEW y \in Nat, NEW old, old # None => s.y = old
  PROVE  \E new : /\ Clocked("evt3", Rowed(ws, t, low, y, old), t, new, es, ts)
                  /\ new.y = y /\ new.ts = TimeOr(t, low, s.ts)
  <1>1. PICK c \in BOOLEAN : c <=> LowOf(t) # low
    OBVIOUS
  <1>2. PICK ws2 : ws2 = ws \o If(c, Low(LowOf(t)))
    OBVIOUS
  <1>3. PICK s2 : /\ Clocked("evt3", ws \o If(c, Low(LowOf(t))), t, s2, es, ts)
                  /\ s2.y = s.y
                  /\ c => s2.ts = t
                  /\ ~ c => s2.ts = s.ts
    BY LowTold
  <1>4. Clocked("evt3", ws2, t, s2, es, ts) /\ (old # None => s2.y = old)
    BY <1>2, <1>3
  <1>5. PICK new : /\ Clocked("evt3", ws2 \o If(y # old, RowWord(y)), t, new, es, ts)
                   /\ new.y = y /\ new.ts = s2.ts
    <2>1. ToldRow(ws2, t, y, old, s2.ts, es, ts)
      BY <1>4, RowTold
    <2> QED  BY <2>1 DEF ToldRow
  <1>6. If(c, Low(LowOf(t))) = If(LowOf(t) # low, Low(LowOf(t)))
    BY <1>1 DEF If
  <1>7. Clocked("evt3", Rowed(ws, t, low, y, old), t, new, es, ts)
    BY <1>2, <1>5, <1>6 DEF Rowed
  <1>8. new.ts = TimeOr(t, low, s.ts)
    BY <1>1, <1>3, <1>5 DEF TimeOr
  <1> QED  BY <1>5, <1>7, <1>8

\* And the address behind them.
Reached(ws, t, low, y, other, es, ts, x, new, es2) ==
  /\ Clocked("evt3", ws, t, new, es2, ts) /\ Closed(ws)
  /\ new.y = y /\ new.ts = TimeOr(t, low, other)
  /\ Grown(es, es2, new.ts, x, y)

Reaches(ws, t, low, y, old, other, es, ts, x) ==
  \E new, es2 : Reached(Addressed(ws, t, low, y, old, x), t, low, y, other, es, ts, x, new, es2)

\* And an address word then gives an event of that time and row.
LEMMA AddressTold ==
  ASSUME NEW ws, NEW t \in Nat, NEW s, NEW es, NEW ts, Clocked("evt3", ws, t, s, es, ts),
         NEW low, NEW y \in Nat, NEW old, old # None => s.y = old, NEW x \in Nat
  PROVE  Reaches(ws, t, low, y, old, s.ts, es, ts, x)
  <1>0. PICK ws2 : ws2 = Addressed(ws, t, low, y, old, x)
    OBVIOUS
  <1>1. PICK w3 : w3 = Rowed(ws, t, low, y, old)
    OBVIOUS
  <1>2. ws2 = w3 \o <<[k |-> "x", x |-> x]>>
    BY <1>0, <1>1 DEF Addressed
  <1>3. \E new : /\ Clocked("evt3", Rowed(ws, t, low, y, old), t, new, es, ts)
                 /\ new.y = y /\ new.ts = TimeOr(t, low, s.ts)
    BY LowAndRow
  <1>4. PICK s3 : /\ Clocked("evt3", w3, t, s3, es, ts)
                  /\ s3.y = y /\ s3.ts = TimeOr(t, low, s.ts)
    BY <1>1, <1>3
  <1>5. CanRead("evt3", w3, s3, es, ts) /\ s3.high = HighOf(t) /\ s3.hh = Epoch(t)
    BY <1>4 DEF Clocked
  <1>6. w3 \in Seq(Words) /\ s3 \in States /\ es \in Seq(Events)
    BY <1>5, CanReadFacts
  <1>7. PICK w \in Words : w = [k |-> "x", x |-> x]
    BY DEF Words
  <1>8. w.k = "x" /\ w.x = x /\ ws2 = w3 \o <<w>>
    BY <1>2, <1>7
  <1>9. PICK a \in Events : a = [t |-> s3.ts, x |-> x, y |-> y]
    BY <1>6 DEF States, Events
  <1>10. PICK b \in Seq(Events) : b = <<a>>
    BY OneOf
  <1>11. CanRead("evt3", w3 \o <<w>>, s3, es \o b, ts)
    <2>1. b = <<[t |-> s3.ts, x |-> w.x, y |-> s3.y]>>
      BY <1>4, <1>8, <1>9, <1>10
    <2> QED  BY <1>5, <1>8, <2>1, AddressRead
  <1>12. es \o b = Append(es, a)
    BY <1>6, <1>10
  <1>13. Closed(ws2)
    BY <1>5, <1>8, ClosedBy
  <1>14. Clocked("evt3", ws2, t, s3, es \o b, ts)
    BY <1>5, <1>8, <1>11 DEF Clocked
  <1> QED  BY <1>0, <1>4, <1>9, <1>12, <1>13, <1>14 DEF Grown, Reached, Reaches

\* The evt3 encoder has written an event of time t.
Wrote(cam, t, ws, low, y, old, x, tru, trs) ==
  Recorded("evt3", cam, t, [high |-> HighOf(t), low |-> LowOf(t), y |-> y],
           Addressed(ws, t, low, y, old, x), Append(tru, [t |-> t, x |-> x, y |-> y]), trs)

\* What is known before it.
Known(cam, t, low, s, es, ts, tru, trs) ==
  OnTime("evt3", cam) => es = tru /\ ts = trs /\ (LowOf(t) = low => s.ts = t)

\* What EVT3 writes of one event is read back as that event.
LEMMA Evt3Writes ==
  ASSUME NEW cam \in BOOLEAN, NEW t \in Nat, NEW ws, NEW s, NEW es, NEW ts,
         Clocked("evt3", ws, t, s, es, ts), NEW low, NEW y \in Nat, NEW old,
         old # None => s.y = old, NEW x \in Nat, NEW tru \in Seq(Events), NEW trs \in Seq(Triggers),
         Known(cam, t, low, s, es, ts, tru, trs)
  PROVE  Wrote(cam, t, ws, low, y, old, x, tru, trs)
  <1>1. PICK ws2, e2, v : /\ ws2 = Addressed(ws, t, low, y, old, x)
                          /\ e2 = [high |-> HighOf(t), low |-> LowOf(t), y |-> y]
                          /\ v = [t |-> t, x |-> x, y |-> y]
    OBVIOUS
  <1>2. Reaches(ws, t, low, y, old, s.ts, es, ts, x)
    BY AddressTold
  <1>3. PICK new, es2 :
          /\ Clocked("evt3", ws2, t, new, es2, ts) /\ Closed(ws2)
          /\ new.y = y
          /\ new.ts = TimeOr(t, low, s.ts)
          /\ Grown(es, es2, new.ts, x, y)
    BY <1>1, <1>2 DEF Reaches, Reached
  <1>4. OnTime("evt3", cam) => new.ts = t /\ es2 = Append(tru, v) /\ ts = trs
    BY <1>1, <1>3 DEF TimeOr, Grown, Known
  <1>5. Append(tru, v) \in Seq(Events)
    BY <1>1 DEF Events
  <1>6. ws2 \in Seq(Words)
    BY <1>3, CanReadFacts DEF Clocked
  <1>7. e2.high = HighOf(t) /\ e2.low = LowOf(t) /\ e2.y = y
    BY <1>1
  <1>8. Kept("evt3", cam, t, e2, ws2, new)
    BY <1>3, <1>4, <1>7 DEF Kept
  <1>9. Told("evt3", cam, t, e2, ws2, Append(tru, v), trs)
    BY <1>3, <1>4, <1>7, <1>8 DEF Told
  <1>10. Recorded("evt3", cam, t, e2, ws2, Append(tru, v), trs)
    BY <1>5, <1>6, <1>9 DEF Recorded
  <1> QED  BY <1>1, <1>10 DEF Wrote

\* An event of the evt3 encoder.
LEMMA Evt3Encodes ==
  ASSUME NEW cam \in BOOLEAN, ~ cam, NEW t, NEW e, NEW ws, NEW tru, NEW trs,
         Recorded("evt3", cam, t, e, ws, tru, trs), NEW d \in Deltas, NEW x \in Nat, NEW y \in Nat
  PROVE  Wrote(cam, t + d, ws \o If(HighOf(t + d) # e.high, High(HighOf(t + d))),
               e.low, y, e.y, x, tru, trs)
  <1>1. t \in Nat /\ ws \in Seq(Words) /\ tru \in Seq(Events) /\ trs \in Seq(Triggers)
    BY DEF Recorded
  <1>2. "evt3" \in Formats /\ d \in Deltas \cup CamDeltas
    BY DEF Formats
  <1>3. PICK u \in Nat : u = t + d
    BY <1>1, <1>2, StepsOfTime
  <1>4. HighOf(u) # None /\ LowOf(u) # None
    BY HighsOf
  <1>5. PICK w1 : w1 = ws \o If(HighOf(u) # e.high, High(HighOf(u)))
    OBVIOUS
  <1>6. PICK s, es, ts :
           /\ Clocked("evt3", w1, u, s, es, ts)
           /\ OnTime("evt3", cam) => es = tru /\ ts = trs
           /\ e.high = None => e.low = None /\ e.y = None
           /\ e.high # None => Kept("evt3", cam, t, e, ws, s)
    <2>1. PICK c \in BOOLEAN : c <=> HighOf(u) # e.high
      OBVIOUS
    <2>2. ~ c => HighOf(t + d) = e.high
      BY <1>3, <2>1
    <2>3. PICK s, es, ts :
             /\ Clocked("evt3", ws \o If(c, High(HighOf(t + d))), t + d, s, es, ts)
             /\ OnTime("evt3", cam) => es = tru /\ ts = trs
             /\ e.high = None => e.low = None /\ e.y = None
             /\ e.high # None => Kept("evt3", cam, t, e, ws, s)
      BY <1>2, <2>2, TimeTold
    <2>4. If(c, High(HighOf(t + d))) = If(HighOf(u) # e.high, High(HighOf(u)))
      BY <1>3, <2>1 DEF If
    <2>5. Clocked("evt3", w1, u, s, es, ts)
      BY <1>3, <1>5, <2>3, <2>4
    <2> QED  BY <2>3, <2>5
  <1>7. e.y # None => s.y = e.y
    BY <1>6 DEF Kept
  <1>8. OnTime("evt3", cam) /\ LowOf(u) = e.low => s.ts = u
    <2>1. SUFFICES ASSUME OnTime("evt3", cam), LowOf(u) = e.low
                   PROVE  s.ts = u
      OBVIOUS
    <2>2. LowMoves
      BY <2>1 DEF OnTime
    <2>3. Kept("evt3", cam, t, e, ws, s)
      BY <1>4, <1>6, <2>1
    <2>4. e.low = LowOf(t) /\ s.ts = t
      BY <2>1, <2>3 DEF Kept
    <2>5. d = 0
      BY <1>1, <1>3, <2>1, <2>2, <2>4, LowRepeats
    <2>6. u = t
      BY <1>1, <1>3, <2>5
    <2> QED  BY <2>4, <2>6
  <1>9. PICK low, old : low = e.low /\ old = e.y
    OBVIOUS
  <1>10. Wrote(cam, u, w1, low, y, old, x, tru, trs)
    <2>1. Known(cam, u, low, s, es, ts, tru, trs)
      BY <1>6, <1>8, <1>9 DEF Known
    <2>3. Clocked("evt3", w1, u, s, es, ts)
      BY <1>6
    <2>4. old # None => s.y = old
      BY <1>7, <1>9
    <2> QED  BY <1>1, <2>1, <2>3, <2>4, Evt3Writes
  <1> QED  BY <1>3, <1>5, <1>9, <1>10

\* The other encoders, and the camera, behind their time word.
Ready(fm, cam, t, e, ws, u, w1, tru, trs) ==
  \E s, es, ts : /\ Clocked(fm, w1, u, s, es, ts)
                 /\ OnTime(fm, cam) => es = tru /\ ts = trs
                 /\ e.high = None => e.low = None /\ e.y = None
                 /\ e.high # None => Kept(fm, cam, t, e, ws, s)

\* The high word the encoder puts before a new time makes the decoder ready for it.
LEMMA TimeReady ==
  ASSUME NEW fm \in Formats, NEW cam \in BOOLEAN, NEW t, NEW e, NEW ws, NEW tru, NEW trs,
         Recorded(fm, cam, t, e, ws, tru, trs), NEW d \in Deltas \cup CamDeltas, NEW c,
         HighOf(t + d) # e.high => c
  PROVE  Ready(fm, cam, t, e, ws, t + d, ws \o If(c, High(HighOf(t + d))), tru, trs)
  <1>1. PICK b \in BOOLEAN : b <=> c
    OBVIOUS
  <1>2. ~ b => HighOf(t + d) = e.high
    BY <1>1
  <1>3. PICK s, es, ts :
           /\ Clocked(fm, ws \o If(b, High(HighOf(t + d))), t + d, s, es, ts)
           /\ OnTime(fm, cam) => es = tru /\ ts = trs
           /\ e.high = None => e.low = None /\ e.y = None
           /\ e.high # None => Kept(fm, cam, t, e, ws, s)
    BY <1>2, TimeTold
  <1>4. If(b, High(HighOf(t + d))) = If(c, High(HighOf(t + d)))
    BY <1>1 DEF If
  <1>5. Clocked(fm, ws \o If(c, High(HighOf(t + d))), t + d, s, es, ts)
    BY <1>3, <1>4
  <1> QED  BY <1>3, <1>5 DEF Ready

\* What the other formats write of an event, or of a mask, is read back as such.
LEMMA TimedWrites ==
  ASSUME NEW fm \in Formats, fm # "evt3", NEW cam \in BOOLEAN, NEW t, NEW e, NEW ws,
         NEW tru \in Seq(Events), NEW trs \in Seq(Triggers), NEW u \in Nat, NEW w1,
         Ready(fm, cam, t, e, ws, u, w1, tru, trs),
         NEW w \in Words, w.k = "cd", w.low = LowOf(u), w.x \in Nat, w.y \in Nat,
         NEW bits, fm = "evt21" => w.bits = bits, fm # "evt21" => bits = {0},
         NEW e2, e2.high = HighOf(u),
         NEW tru2, tru2 = tru \o Columns(u, w.x, w.y, bits)
  PROVE  Recorded(fm, cam, u, e2, w1 \o <<w>>, tru2, trs)
  <1>1. PICK s, es, ts :
           /\ Clocked(fm, w1, u, s, es, ts)
           /\ OnTime(fm, cam) => es = tru /\ ts = trs
    BY DEF Ready
  <1>2. CanRead(fm, w1, s, es, ts) /\ s.high = HighOf(u) /\ s.hh = Epoch(u)
    BY <1>1 DEF Clocked
  <1>3. Clock(s, w.low) = u
    BY <1>2, ClockTells
  <1>4. PICK x \in Nat, y \in Nat : x = w.x /\ y = w.y
    OBVIOUS
  <1>5. PICK b \in Seq(Events) : b = Columns(u, x, y, bits)
    BY ColumnsFacts
  <1>6. Columns(u, x, y, {0}) = <<[t |-> u, x |-> x, y |-> y]>>
    BY ColumnsOne
  <1>7. b = IF fm = "evt21" THEN Columns(Clock(s, w.low), w.x, w.y, w.bits)
             ELSE <<[t |-> Clock(s, w.low), x |-> w.x, y |-> w.y]>>
    <2>1. CASE fm = "evt21"
      BY <1>3, <1>4, <1>5, <2>1
    <2>2. CASE fm # "evt21"
      BY <1>3, <1>4, <1>5, <1>6, <2>2
    <2> QED  BY <2>1, <2>2
  <1>8. CanRead(fm, w1 \o <<w>>, s, es \o b, ts)
    BY <1>2, <1>7, EventRead
  <1>9. tru2 = tru \o b
    BY <1>4, <1>5
  <1>10. tru2 \in Seq(Events)
    BY <1>9
  <1>11. w1 \o <<w>> \in Seq(Words)
    BY <1>8, CanReadFacts
  <1>12. Clocked(fm, w1 \o <<w>>, u, s, es \o b, ts)
    BY <1>2, <1>8 DEF Clocked
  <1>13. OnTime(fm, cam) => es \o b = tru2 /\ ts = trs
    BY <1>1, <1>9
  <1>14. Kept(fm, cam, u, e2, w1 \o <<w>>, s)
    BY DEF Kept
  <1>15. Told(fm, cam, u, e2, w1 \o <<w>>, tru2, trs)
    BY <1>12, <1>13, <1>14 DEF Told
  <1> QED  BY <1>10, <1>11, <1>15 DEF Recorded

\* A time word of the camera.
LEMMA CamTimes ==
  ASSUME NEW fm \in Formats, NEW cam \in BOOLEAN, cam, NEW t, NEW e, NEW ws, NEW tru, NEW trs,
         Recorded(fm, cam, t, e, ws, tru, trs), NEW d \in CamDeltas, NEW c, NEW l,
         c <=> d = 0 \/ HighOf(t + d) # e.high,
         d > 0 \/ e.high = None => l,
         NEW e2, e2.high = HighOf(t + d), e2.y = e.y
  PROVE  Recorded(fm, cam, t + d, e2,
                  ws \o If(c, High(HighOf(t + d))) \o If(fm = "evt3" /\ l, Low(LowOf(t + d))), tru, trs)
  <1>1. t \in Nat /\ ws \in Seq(Words) /\ tru \in Seq(Events) /\ trs \in Seq(Triggers)
    BY DEF Recorded
  <1>2. d \in Deltas \cup CamDeltas /\ d \in Nat
    BY StepsOfTime, <1>1
  <1>3. PICK u \in Nat : u = t + d
    BY <1>1, <1>2
  <1>4. PICK w1 : w1 = ws \o If(c, High(HighOf(u)))
    OBVIOUS
  <1>5. Ready(fm, cam, t, e, ws, u, w1, tru, trs)
    <2>1. HighOf(t + d) # e.high => c
      OBVIOUS
    <2> QED  BY <1>2, <1>3, <1>4, <2>1, TimeReady
  <1>6. PICK s, es, ts : /\ Clocked(fm, w1, u, s, es, ts)
                         /\ OnTime(fm, cam) => es = tru /\ ts = trs
                         /\ e.high = None => e.low = None /\ e.y = None
                         /\ e.high # None => Kept(fm, cam, t, e, ws, s)
    BY <1>5 DEF Ready
  <1>7. PICK w2 : w2 = w1 \o If(fm = "evt3" /\ l, Low(LowOf(u)))
    OBVIOUS
  <1>8. CanRead(fm, w1, s, es, ts) /\ w1 \in Seq(Words)
    BY <1>6, CanReadFacts DEF Clocked
  <1>9. CASE fm # "evt3"
    <2>1. w2 = w1
      <3>1. If(fm = "evt3" /\ l, Low(LowOf(u))) = <<>>
        BY <1>9 DEF If
      <3> QED  BY <1>7, <1>8, <3>1
    <2>2. Kept(fm, cam, u, e2, w2, s)
      BY <1>9 DEF Kept
    <2>3. Told(fm, cam, u, e2, w2, tru, trs)
      BY <1>3, <1>6, <2>1, <2>2 DEF Told
    <2>4. Recorded(fm, cam, u, e2, w2, tru, trs)
      BY <1>1, <1>8, <2>1, <2>3 DEF Recorded
    <2> QED  BY <1>3, <1>4, <1>7, <2>4
  <1>10. CASE fm = "evt3" /\ l
    <2>1. Clocked("evt3", w1, u, s, es, ts)
      BY <1>6, <1>10
    <2>2. PICK b \in BOOLEAN : b = TRUE
      OBVIOUS
    <2>3. PICK new : /\ Clocked("evt3", w1 \o If(b, Low(LowOf(u))), u, new, es, ts)
                     /\ new.y = s.y
                     /\ b => new.ts = u /\ Closed(w1 \o If(b, Low(LowOf(u))))
                     /\ ~ b => new.ts = s.ts
      BY <2>1, LowTold
    <2>4. w2 = w1 \o If(b, Low(LowOf(u)))
      BY <1>7, <1>10, <2>2 DEF If
    <2>5. /\ Clocked(fm, w2, u, new, es, ts) /\ new.y = s.y /\ new.ts = u /\ Closed(w2)
      BY <1>10, <2>2, <2>3, <2>4
    <2>6. e.y # None => s.y = e.y
      BY <1>6, <1>10 DEF Kept
    <2>7. Kept(fm, cam, u, e2, w2, new)
      BY <2>5, <2>6 DEF Kept
    <2>8. Told(fm, cam, u, e2, w2, tru, trs)
      BY <1>3, <1>6, <2>5, <2>7 DEF Told
    <2>9. w2 \in Seq(Words)
      BY <2>5, CanReadFacts DEF Clocked
    <2>10. Recorded(fm, cam, u, e2, w2, tru, trs)
      BY <1>1, <2>8, <2>9 DEF Recorded
    <2> QED  BY <1>3, <1>4, <1>7, <2>10
  <1>11. CASE fm = "evt3" /\ ~ l
    <2>1. d = 0 /\ e.high # None /\ c
      BY <1>2, <1>11
    <2>2. w2 = w1
      <3>1. If(fm = "evt3" /\ l, Low(LowOf(u))) = <<>>
        BY <1>11 DEF If
      <3> QED  BY <1>7, <1>8, <3>1
    <2>3. u = t
      BY <1>1, <1>3, <2>1
    <2>4. Kept(fm, cam, t, e, ws, s)
      BY <1>6, <2>1
    <2>5. Told(fm, cam, t, e, ws, tru, trs)
      BY <2>1 DEF Recorded, NotBegun
    <2>6. PICK s0, es0, ts0 : CanRead(fm, ws, s0, es0, ts0)
      BY <2>5 DEF Told, Clocked
    <2>7. PICK w \in Words : w = [k |-> "high", v |-> HighOf(u)]
      BY HighsOf DEF Words
    <2>8. w1 = ws \o <<w>> /\ w.k # "v12"
      BY <1>4, <2>1, <2>7 DEF If, High
    <2>9. Closed(w2)
      BY <2>2, <2>6, <2>8, ClosedBy
    <2>10. Kept(fm, cam, u, e2, w2, s)
      BY <2>3, <2>4, <2>9 DEF Kept
    <2>11. Told(fm, cam, u, e2, w2, tru, trs)
      BY <1>3, <1>6, <2>2, <2>10 DEF Told
    <2>12. Recorded(fm, cam, u, e2, w2, tru, trs)
      BY <1>1, <1>8, <2>2, <2>11 DEF Recorded
    <2> QED  BY <1>3, <1>4, <1>7, <2>12
  <1> QED  BY <1>9, <1>10, <1>11

\* A recording with a high word in it is ready for its own time.
LEMMA ToldFacts ==
  ASSUME NEW fm \in Formats, NEW cam \in BOOLEAN, NEW t, NEW e, NEW ws, NEW tru, NEW trs,
         Recorded(fm, cam, t, e, ws, tru, trs), e.high # None
  PROVE  /\ Ready(fm, cam, t, e, ws, t, ws, tru, trs) /\ e.high = HighOf(t)
         /\ t \in Nat /\ ws \in Seq(Words) /\ tru \in Seq(Events) /\ trs \in Seq(Triggers)
         /\ \E s, es, ts : /\ Clocked(fm, ws, t, s, es, ts)
                           /\ OnTime(fm, cam) => es = tru /\ ts = trs
                           /\ Kept(fm, cam, t, e, ws, s)
  <1>1. Told(fm, cam, t, e, ws, tru, trs)
    BY DEF Recorded, NotBegun
  <1>2. PICK s, es, ts : /\ Clocked(fm, ws, t, s, es, ts)
                         /\ Kept(fm, cam, t, e, ws, s)
                         /\ OnTime(fm, cam) => es = tru /\ ts = trs
    BY <1>1 DEF Told
  <1>3. e.high = HighOf(t)
    BY <1>1 DEF Told
  <1>4. t \in Nat /\ ws \in Seq(Words) /\ tru \in Seq(Events) /\ trs \in Seq(Triggers)
    BY DEF Recorded
  <1> QED  BY <1>2, <1>3, <1>4 DEF Ready

\* A vector of the camera in evt4.
LEMMA VectorWrites ==
  ASSUME NEW cam \in BOOLEAN, NEW t, NEW e, NEW ws, NEW tru, NEW trs,
         Recorded("evt4", cam, t, e, ws, tru, trs), e.high # None,
         NEW x \in Nat, NEW y \in Nat, NEW bits \in SUBSET Nat, NEW e2, e2.high = e.high,
         NEW ws2, ws2 = ws \o <<[k |-> "vec", low |-> LowOf(t), x |-> x, y |-> y],
                                [k |-> "mask", bits |-> bits]>>,
         NEW tru2, tru2 = tru \o Columns(t, x, y, bits)
  PROVE  Recorded("evt4", cam, t, e2, ws2, tru2, trs)
  <1>0. "evt4" \in Formats
    BY DEF Formats
  <1>1. /\ e.high = HighOf(t)
        /\ t \in Nat /\ ws \in Seq(Words) /\ tru \in Seq(Events) /\ trs \in Seq(Triggers)
    BY <1>0, ToldFacts
  <1>2. PICK s, es, ts : /\ Clocked("evt4", ws, t, s, es, ts)
                         /\ OnTime("evt4", cam) => es = tru /\ ts = trs
    BY <1>0, ToldFacts
  <1>3. CanRead("evt4", ws, s, es, ts) /\ s.high = HighOf(t) /\ s.hh = Epoch(t)
    BY <1>2 DEF Clocked
  <1>4. Clock(s, LowOf(t)) = t
    BY <1>1, <1>3, ClockTells
  <1>5. LowOf(t) \in Nat
    BY <1>1, HighsOf
  <1>6. PICK w \in Words, m \in Words : /\ w = [k |-> "vec", low |-> LowOf(t), x |-> x, y |-> y]
                                        /\ m = [k |-> "mask", bits |-> bits]
    BY <1>5 DEF Words
  <1>7. PICK v \in Seq(Words) : v = <<w, m>> /\ Len(v) = 2 /\ v[1] = w /\ v[2] = m
    <2>1. <<w, m>> \in Seq(Words) /\ Len(<<w, m>>) = 2 /\ <<w, m>>[1] = w /\ <<w, m>>[2] = m
      OBVIOUS
    <2> QED  BY <2>1, Zenon
  <1>8. PICK b \in Seq(Events) : b = Columns(t, x, y, bits)
    BY <1>1, ColumnsFacts
  <1>9. /\ v[1].k = "vec" /\ v[1].low = LowOf(t) /\ v[1].x = x /\ v[1].y = y /\ v[2].bits = bits
    BY <1>6, <1>7
  <1>10. b = Columns(Clock(s, v[1].low), v[1].x, v[1].y, v[2].bits)
    BY <1>4, <1>8, <1>9
  <1>11. CanRead("evt4", ws \o v, s, es \o b, ts)
    BY <1>3, <1>7, <1>9, <1>10, VectorRead
  <1>12. ws2 = ws \o v /\ tru2 = tru \o b
    BY <1>6, <1>7, <1>8
  <1>13. ws2 \in Seq(Words) /\ tru2 \in Seq(Events)
    <2>1. ws \o v \in Seq(Words)
      BY <1>11, CanReadFacts
    <2>2. tru \o b \in Seq(Events)
      BY <1>1
    <2> QED  BY <1>12, <2>1, <2>2
  <1>14. Clocked("evt4", ws2, t, s, es \o b, ts)
    BY <1>3, <1>11, <1>12 DEF Clocked
  <1>15. OnTime("evt4", cam) => es \o b = tru2 /\ ts = trs
    BY <1>2, <1>12
  <1>16. Kept("evt4", cam, t, e2, ws2, s)
    BY DEF Kept
  <1>17. Told("evt4", cam, t, e2, ws2, tru2, trs)
    BY <1>1, <1>14, <1>15, <1>16 DEF Told
  <1> QED  BY <1>1, <1>13, <1>17 DEF Recorded

\* In evt3 the camera says the row, and then an address or a vector group.
InRow(cam, ws, t, y, es, ts, tru, trs, s) ==
  /\ CanRead("evt3", ws, s, es, ts) /\ s.high = HighOf(t) /\ s.hh = Epoch(t)
  /\ s.y = y /\ s.ts = t /\ es = tru /\ ts = trs

RowWritten(cam, ws, t, y, old, tru, trs) ==
  \E s : InRow(cam, ws \o If(y # old, RowWord(y)), t, y, tru, trs, tru, trs, s)

\* The camera's row word leaves the decoder in that row.
LEMMA RowWrites ==
  ASSUME NEW cam \in BOOLEAN, cam, NEW t, NEW e, NEW ws, NEW tru, NEW trs,
         Recorded("evt3", cam, t, e, ws, tru, trs), e.high # None, NEW y \in Nat
  PROVE  RowWritten(cam, ws, t, y, e.y, tru, trs)
  <1>0. "evt3" \in Formats /\ OnTime("evt3", cam)
    BY DEF Formats, OnTime
  <1>1. t \in Nat
    BY <1>0, ToldFacts
  <1>2. PICK s, es, ts : /\ Clocked("evt3", ws, t, s, es, ts)
                         /\ es = tru /\ ts = trs
                         /\ Kept("evt3", cam, t, e, ws, s)
    BY <1>0, ToldFacts, ZenonT(30), SMTT(30)
  <1>3. PICK old : old = e.y
    OBVIOUS
  <1>4. s.ts = t /\ (old # None => s.y = old)
    BY <1>0, <1>2, <1>3 DEF Kept
  <1>5. Clocked("evt3", ws, t, s, tru, trs)
    BY <1>2
  <1>6. PICK new : /\ Clocked("evt3", ws \o If(y # old, RowWord(y)), t, new, tru, trs)
                   /\ new.y = y /\ new.ts = s.ts
    <2>1. ToldRow(ws, t, y, old, s.ts, tru, trs)
      BY <1>4, <1>5, RowTold
    <2> QED  BY <2>1 DEF ToldRow
  <1> QED  BY <1>3, <1>4, <1>6 DEF InRow, Clocked, RowWritten

\* The camera's single event is read back.
LEMMA SingleWrites ==
  ASSUME NEW cam \in BOOLEAN, cam, NEW t \in Nat, NEW ws, NEW tru \in Seq(Events),
         NEW trs \in Seq(Triggers), NEW y \in Nat, NEW s,
         InRow(cam, ws, t, y, tru, trs, tru, trs, s), NEW x \in Nat,
         NEW e2, e2.high = HighOf(t), e2.y = y,
         NEW tru2, tru2 = tru \o Columns(t, x, y, {0})
  PROVE  Recorded("evt3", cam, t, e2, ws \o <<[k |-> "x", x |-> x]>>, tru2, trs)
  <1>1. /\ CanRead("evt3", ws, s, tru, trs) /\ s.high = HighOf(t) /\ s.hh = Epoch(t)
        /\ s.y = y /\ s.ts = t
    BY DEF InRow
  <1>2. PICK w \in Words : w = [k |-> "x", x |-> x]
    BY DEF Words
  <1>3. w.k = "x" /\ w.x = x
    BY <1>2
  <1>4. PICK b \in Seq(Events) : b = Columns(t, x, y, {0})
    BY ColumnsFacts
  <1>5. b = <<[t |-> t, x |-> x, y |-> y]>>
    BY <1>4, ColumnsOne
  <1>6. b = <<[t |-> s.ts, x |-> w.x, y |-> s.y]>>
    BY <1>1, <1>3, <1>5
  <1>7. CanRead("evt3", ws \o <<w>>, s, tru \o b, trs)
    BY <1>1, <1>3, <1>6, AddressRead
  <1>8. Closed(ws \o <<w>>)
    BY <1>1, <1>3, ClosedBy
  <1>9. PICK ws2 : ws2 = ws \o <<w>>
    OBVIOUS
  <1>10. tru2 = tru \o b /\ ws2 = ws \o <<[k |-> "x", x |-> x]>>
    BY <1>2, <1>4, <1>9
  <1>11. tru2 \in Seq(Events) /\ ws2 \in Seq(Words)
    BY <1>7, <1>9, <1>10, CanReadFacts
  <1>12. Clocked("evt3", ws2, t, s, tru2, trs)
    BY <1>1, <1>7, <1>9, <1>10 DEF Clocked
  <1>13. Kept("evt3", cam, t, e2, ws2, s)
    BY <1>1, <1>8, <1>9 DEF Kept
  <1>14. Told("evt3", cam, t, e2, ws2, tru2, trs)
    BY <1>12, <1>13 DEF Told
  <1> QED  BY <1>10, <1>11, <1>14 DEF Recorded

Group(bits) ==
  <<[k |-> "v12", bits |-> Part(bits, 0)],
    [k |-> "v12", bits |-> Part(bits, 1)],
    [k |-> "v8", bits |-> Part(bits, 2)]>>

\* A group is three words, the last of them no first mask.
LEMMA GroupWords ==
  ASSUME NEW bits
  PROVE  Group(bits) \in Seq(Words) /\ Len(Group(bits)) = 3 /\ Group(bits)[3].k = "v8"
  <1>1. \A j \in 0 .. 2 : Part(bits, j) \in SUBSET Nat
    BY DEF Part
  <1>2. /\ [k |-> "v12", bits |-> Part(bits, 0)] \in Words
        /\ [k |-> "v12", bits |-> Part(bits, 1)] \in Words
        /\ [k |-> "v8", bits |-> Part(bits, 2)] \in Words
    <2>1. Part(bits, 0) \in SUBSET Nat /\ Part(bits, 1) \in SUBSET Nat /\ Part(bits, 2) \in SUBSET Nat
      BY <1>1
    <2> QED  BY <2>1 DEF Words
  <1>3. Group(bits)[3] = [k |-> "v8", bits |-> Part(bits, 2)] /\ Len(Group(bits)) = 3
    BY DEF Group
  <1>4. Group(bits) \in Seq(Words)
    BY <1>2 DEF Group
  <1> QED  BY <1>3, <1>4

\* The camera's group of masks is read back, column by column.
LEMMA GroupWrites ==
  ASSUME NEW cam \in BOOLEAN, cam, NEW t \in Nat, NEW ws, NEW tru \in Seq(Events),
         NEW trs \in Seq(Triggers), NEW y \in Nat, NEW s,
         InRow(cam, ws, t, y, tru, trs, tru, trs, s), NEW x \in Nat,
         NEW bits, bits \subseteq 0 .. 3 * V - 1,
         NEW e2, e2.high = HighOf(t), e2.y = y,
         NEW tru2, tru2 = tru \o Columns(t, x, y, bits)
  PROVE  Recorded("evt3", cam, t, e2, (ws \o <<[k |-> "base", x |-> x]>>) \o Group(bits), tru2, trs)
  <1>1. /\ CanRead("evt3", ws, s, tru, trs) /\ s.high = HighOf(t) /\ s.hh = Epoch(t)
        /\ s.y = y /\ s.ts = t
    BY DEF InRow
  <1>2. ws \in Seq(Words) /\ s \in States
    BY <1>1, CanReadFacts
  <1>3. PICK w \in Words : w = [k |-> "base", x |-> x]
    BY DEF Words
  <1>4. w.k = "base" /\ w.x = x
    BY <1>3
  <1>5. PICK s2 \in States : /\ s2 = [s EXCEPT !.vx = x] /\ s2.vx = x /\ s2.high = s.high
                             /\ s2.hh = s.hh /\ s2.ts = s.ts /\ s2.y = s.y
    BY <1>2, Fields, ZenonT(30), SMTT(30)
  <1>6. Sets(w, s, s2)
    BY <1>4, <1>5 DEF Sets
  <1>7. CanRead("evt3", ws \o <<w>>, s2, tru, trs)
    BY <1>1, <1>6, SetRead
  <1>8. PICK v : v = ws \o <<w>>
    OBVIOUS
  <1>9. PICK b \in Seq(Events) : b = Columns(t, x, y, bits)
    BY ColumnsFacts
  <1>10. b = Columns(s2.ts, s2.vx, s2.y, bits)
    BY <1>1, <1>5, <1>9
  <1>11. PICK g \in Seq(Words) : g = Group(bits) /\ Len(g) = 3 /\ g[3].k = "v8"
    BY GroupWords
  <1>12. PICK n \in Nat : n = x + 3 * V
    BY Sizes
  <1>13. PICK s3 \in States : /\ s3 = [s2 EXCEPT !.vx = n] /\ s3.high = s2.high
                              /\ s3.hh = s2.hh /\ s3.ts = s2.ts /\ s3.y = s2.y
    BY Fields, ZenonT(30), SMTT(30)
  <1>14. s3 = [s2 EXCEPT !.vx = @ + 3 * V]
    BY <1>5, <1>12, <1>13
  <1>15. CanRead("evt3", v \o g, s3, tru \o b, trs)
    BY <1>7, <1>8, <1>10, <1>11, <1>14, GroupRead DEF Group
  <1>16. Closed(v \o g)
    <2>1. v \in Seq(Words) /\ Len(v) \in Nat
      BY <1>7, <1>8, CanReadFacts
    <2>2. /\ Len(v \o g) = Len(v) + Len(g)
          /\ \A i \in 1 .. Len(g) : (v \o g)[Len(v) + i] = g[i]
      BY <2>1, WordsBehind
    <2>3. 3 \in 1 .. Len(g) /\ Len(v \o g) = Len(v) + 3
      BY <1>11, <2>2
    <2>4. (v \o g)[Len(v) + 3] = g[3]
      BY <2>2, <2>3
    <2>5. Len(v) + 3 >= 2
      BY <2>1
    <2> QED  BY <1>11, <2>3, <2>4, <2>5 DEF Closed
  <1>17. PICK ws2 : ws2 = v \o g
    OBVIOUS
  <1>18. tru2 = tru \o b /\ ws2 = (ws \o <<[k |-> "base", x |-> x]>>) \o Group(bits)
    BY <1>3, <1>8, <1>9, <1>11, <1>17
  <1>19. tru2 \in Seq(Events) /\ ws2 \in Seq(Words)
    BY <1>15, <1>17, <1>18, CanReadFacts
  <1>20. Clocked("evt3", ws2, t, s3, tru2, trs)
    BY <1>1, <1>5, <1>13, <1>15, <1>17, <1>18 DEF Clocked
  <1>21. Kept("evt3", cam, t, e2, ws2, s3)
    BY <1>1, <1>5, <1>13, <1>16, <1>17 DEF Kept
  <1>22. Told("evt3", cam, t, e2, ws2, tru2, trs)
    BY <1>20, <1>21 DEF Told
  <1> QED  BY <1>18, <1>19, <1>22 DEF Recorded

\* A trigger, and words nobody reads.
LEMMA TriggerWrites ==
  ASSUME NEW fm \in Formats, NEW cam \in BOOLEAN, cam, NEW t, NEW e, NEW ws, NEW tru, NEW trs,
         Recorded(fm, cam, t, e, ws, tru, trs), e.high # None, NEW id \in Nat,
         NEW w, w = [k |-> "trig", low |-> LowOf(t), id |-> id],
         NEW g, g = [t |-> t, id |-> id]
  PROVE  Recorded(fm, cam, t, e, Append(ws, w), tru, Append(trs, g))
  <1>1. /\ e.high = HighOf(t)
        /\ t \in Nat /\ ws \in Seq(Words) /\ tru \in Seq(Events) /\ trs \in Seq(Triggers)
    BY ToldFacts, ZenonT(30), SMTT(30)
  <1>2. PICK s, es, ts : /\ Clocked(fm, ws, t, s, es, ts)
                         /\ OnTime(fm, cam) => es = tru /\ ts = trs
                         /\ Kept(fm, cam, t, e, ws, s)
    BY ToldFacts
  <1>3. CanRead(fm, ws, s, es, ts) /\ s.high = HighOf(t) /\ s.hh = Epoch(t)
    BY <1>2 DEF Clocked
  <1>4. OnTime(fm, cam)
    BY DEF OnTime
  <1>5. w \in Words /\ w.k = "trig" /\ w.low = LowOf(t) /\ w.id = id
    BY <1>1, HighsOf DEF Words
  <1>6. Clock(s, w.low) = t
    BY <1>1, <1>3, <1>5, ClockTells
  <1>7. TimeOf(fm, s, w) = t
    BY <1>2, <1>4, <1>6 DEF TimeOf, Kept
  <1>8. g \in Triggers
    BY <1>1 DEF Triggers
  <1>9. g = [t |-> TimeOf(fm, s, w), id |-> w.id]
    BY <1>5, <1>7
  <1>10. CanRead(fm, ws \o <<w>>, s, es, ts \o <<g>>)
    BY <1>3, <1>5, <1>8, <1>9, TriggerRead
  <1>11. ws \o <<w>> = Append(ws, w) /\ ts \o <<g>> = Append(trs, g)
    BY <1>1, <1>2, <1>4, <1>5, <1>8
  <1>12. Append(ws, w) \in Seq(Words) /\ Append(trs, g) \in Seq(Triggers)
    BY <1>1, <1>5, <1>8
  <1>13. Closed(Append(ws, w))
    BY <1>3, <1>5, <1>11, ClosedBy
  <1>14. Kept(fm, cam, t, e, Append(ws, w), s)
    BY <1>2, <1>13 DEF Kept
  <1>15. Clocked(fm, Append(ws, w), t, s, es, Append(trs, g))
    BY <1>3, <1>10, <1>11 DEF Clocked
  <1>16. Told(fm, cam, t, e, Append(ws, w), tru, Append(trs, g))
    BY <1>1, <1>2, <1>4, <1>14, <1>15 DEF Told
  <1> QED  BY <1>1, <1>12, <1>16 DEF Recorded

\* A word the decoder skips leaves the recording as it reads.
LEMMA NoiseWrites ==
  ASSUME NEW fm \in Formats, NEW cam \in BOOLEAN, NEW t, NEW e, NEW ws, NEW tru, NEW trs,
         Recorded(fm, cam, t, e, ws, tru, trs), NEW w \in Words,
         w.k = "other" \/ (fm = "evt3" /\ w.k = "v8")
  PROVE  Recorded(fm, cam, t, e, Append(ws, w), tru, trs)
  <1>1. t \in Nat /\ ws \in Seq(Words) /\ tru \in Seq(Events) /\ trs \in Seq(Triggers)
    BY DEF Recorded
  <1>2. ws \o <<w>> = Append(ws, w) /\ Append(ws, w) \in Seq(Words)
    BY <1>1
  <1>3. CASE NotBegun(t, e, ws, tru, trs)
    <2>1. ~ HasHigh(ws)
      BY <1>3 DEF NotBegun
    <2>2. ~ HasHigh(Append(ws, w))
      <3>1. SUFFICES ASSUME NEW i \in 1 .. Len(Append(ws, w)), ReadsHigh(Append(ws, w)[i])
                     PROVE  FALSE
        BY DEF HasHigh
      <3>2. Len(Append(ws, w)) = Len(ws) + 1 /\ Len(ws) \in Nat
        BY <1>1
      <3>3. CASE i \in 1 .. Len(ws)
        <4>1. Append(ws, w)[i] = ws[i]
          BY <1>1, <3>3
        <4> QED  BY <2>1, <3>1, <3>3, <4>1 DEF HasHigh
      <3>4. CASE i = Len(ws) + 1
        <4>1. Append(ws, w)[i] = w
          BY <1>1, <3>4
        <4>2. ~ ReadsHigh(w)
          BY DEF ReadsHigh
        <4> QED  BY <3>1, <4>1, <4>2
      <3>5. i \in 1 .. Len(ws) \/ i = Len(ws) + 1
        BY <3>2
      <3> QED  BY <3>3, <3>4, <3>5
    <2>3. NotBegun(t, e, Append(ws, w), tru, trs)
      BY <1>3, <2>2 DEF NotBegun
    <2> QED  BY <1>1, <1>2, <2>3 DEF Recorded
  <1>4. CASE Told(fm, cam, t, e, ws, tru, trs)
    <2>1. PICK s, es, ts : /\ Clocked(fm, ws, t, s, es, ts)
                           /\ Kept(fm, cam, t, e, ws, s)
                           /\ OnTime(fm, cam) => es = tru /\ ts = trs
      BY <1>4 DEF Told
    <2>2. CanRead(fm, ws, s, es, ts)
      BY <2>1 DEF Clocked
    <2>3. fm = "evt3" => Len(ws) >= 2 /\ ws[Len(ws)].k # "v12"
      BY <2>1 DEF Kept, Closed
    <2>4. CanRead(fm, ws \o <<w>>, s, es, ts)
      BY <2>2, <2>3, OtherRead
    <2>5. Closed(Append(ws, w))
      <3>1. w.k # "v12"
        OBVIOUS
      <3> QED  BY <1>2, <2>2, <3>1, ClosedBy
    <2>6. Kept(fm, cam, t, e, Append(ws, w), s)
      BY <2>1, <2>5 DEF Kept
    <2>7. Clocked(fm, Append(ws, w), t, s, es, ts)
      BY <1>2, <2>1, <2>4 DEF Clocked
    <2>8. Told(fm, cam, t, e, Append(ws, w), tru, trs)
      BY <1>4, <2>1, <2>6, <2>7 DEF Told
    <2> QED  BY <1>1, <1>2, <2>8 DEF Recorded
  <1> QED  BY <1>3, <1>4 DEF Recorded

-----------------------------------------------------------------------------
(* The decoder.                                                            *)

\* A recording, and how it reads from position b, where decoding begins.
Readable(fm, ws, on, tru, trs, b, C, z) ==
  /\ ws \in Seq(Words) /\ IsReading(fm, ws, C, z) /\ Whole(fm, ws, z)
  /\ b \in 0 .. Len(ws) /\ Point(b, ParserInit, <<>>, <<>>) \in C
  /\ on => z.ev = tru /\ z.tr = trs

\* The decoder is at a point c of it: it has handed out the events g and, if it
\* was asked for them, the triggers gt; e and r are in its buffers.
At(ws, z, o, s, g, e, want, gt, r, c, pre) ==
  /\ c.ev = g \o e /\ c.tr = pre \o r
  /\ want => pre = gt
  /\ o < Len(ws) => c.pos = o /\ c.st = s
  /\ o = Len(ws) /\ ~ HasStray(ws, z.pos) => c = z

Standing(ws, b, C, z, o, s, g, e, want, gt, r) ==
  /\ o \in b .. Len(ws) /\ s \in States
  /\ g \in Seq(Events) /\ e \in Seq(Events) /\ r \in Seq(Triggers)
  /\ \E c \in C, pre \in Seq(Triggers) : At(ws, z, o, s, g, e, want, gt, r, c, pre)

\* Joining nothing.
LEMMA Nothing ==
  ASSUME NEW S, NEW a \in Seq(S)
  PROVE  /\ a \o <<>> = a /\ <<>> \o a = a /\ <<>> \in Seq(S) /\ Len(<<>>) = 0
  OBVIOUS

\* It begins there, when it is opened and when it is reset.
LEMMA Starts ==
  ASSUME NEW fm, NEW ws, NEW on, NEW tru, NEW trs, NEW b, NEW C, NEW z,
         Readable(fm, ws, on, tru, trs, b, C, z), NEW want
  PROVE  Standing(ws, b, C, z, b, ParserInit, <<>>, <<>>, want, <<>>, <<>>)
  <1>1. /\ ws \in Seq(Words) /\ IsReading(fm, ws, C, z)
        /\ b \in 0 .. Len(ws) /\ Point(b, ParserInit, <<>>, <<>>) \in C
    BY DEF Readable
  <1>2. PICK c \in C : c = Point(b, ParserInit, <<>>, <<>>)
    BY <1>1
  <1>3. c.pos = b /\ c.st = ParserInit /\ c.ev = <<>> /\ c.tr = <<>>
    BY <1>2, PointIs
  <1>4. Len(ws) \in Nat /\ z \in Points /\ z.pos <= Len(ws) /\ c.pos <= z.pos
        /\ (c.pos = z.pos => c = z)
    BY <1>1 DEF IsReading
  <1>5. z.pos \in Nat /\ b \in Nat /\ b <= Len(ws) /\ b \in b .. Len(ws)
    BY <1>1, <1>4 DEF Points
  <1>6. b = Len(ws) => c = z
    <2>1. b = Len(ws) => b = z.pos
      <3>1. b <= z.pos
        BY <1>3, <1>4
      <3> QED  BY <1>4, <1>5, <3>1
    <2> QED  BY <1>3, <1>4, <2>1
  <1>7. PICK pre \in Seq(Triggers) : pre = <<>>
    BY NoneOf
  <1>8. <<>> \o <<>> = <<>>
    OBVIOUS
  <1>9. At(ws, z, b, ParserInit, <<>>, <<>>, want, <<>>, <<>>, c, pre)
    BY <1>3, <1>6, <1>7, <1>8 DEF At
  <1>10. ParserInit \in States
    BY PeriodFacts, Sizes DEF ParserInit, States
  <1>11. <<>> \in Seq(Events) /\ <<>> \in Seq(Triggers)
    OBVIOUS
  <1> QED  BY <1>5, <1>9, <1>10, <1>11 DEF Standing

\* What a call hands out.
LEMMA Hands ==
  ASSUME NEW ws, NEW b, NEW C, NEW z, NEW o, NEW s, NEW g, NEW e, NEW want, NEW gt, NEW r,
         Standing(ws, b, C, z, o, s, g, e, want, gt, r)
  PROVE  Standing(ws, b, C, z, o, s, g \o e, <<>>, want, IF want THEN gt \o r ELSE gt, <<>>)
  <1>1. /\ o \in b .. Len(ws) /\ s \in States
        /\ g \in Seq(Events) /\ e \in Seq(Events) /\ r \in Seq(Triggers)
    BY DEF Standing
  <1>2. PICK c \in C, pre \in Seq(Triggers) : At(ws, z, o, s, g, e, want, gt, r, c, pre)
    BY DEF Standing
  <1>3. PICK g2 \in Seq(Events), pre2 \in Seq(Triggers) : g2 = g \o e /\ pre2 = pre \o r
    <2>1. g \o e \in Seq(Events) /\ pre \o r \in Seq(Triggers)
      BY <1>1
    <2> QED  BY <2>1, Zenon
  <1>4. PICK gt2 : gt2 = IF want THEN gt \o r ELSE gt
    OBVIOUS
  <1>5. g2 \o <<>> = g2 /\ pre2 \o <<>> = pre2
    BY Nothing
  <1>6. want => pre2 = gt2
    BY <1>2, <1>3, <1>4 DEF At
  <1>7. At(ws, z, o, s, g2, <<>>, want, gt2, <<>>, c, pre2)
    BY <1>2, <1>3, <1>5, <1>6 DEF At
  <1>8. <<>> \in Seq(Events) /\ <<>> \in Seq(Triggers)
    OBVIOUS
  <1>9. Standing(ws, b, C, z, o, s, g2, <<>>, want, gt2, <<>>)
    BY <1>1, <1>7, <1>8 DEF Standing
  <1> QED  BY <1>3, <1>4, <1>9

\* The triggers nobody asked for are dropped.
LEMMA Drops ==
  ASSUME NEW ws, NEW b, NEW C, NEW z, NEW o, NEW s, NEW g, NEW e, NEW want, NEW gt, NEW r,
         Standing(ws, b, C, z, o, s, g, e, want, gt, r), ~ want
  PROVE  Standing(ws, b, C, z, o, s, g, e, want, gt, <<>>)
  <1>1. /\ o \in b .. Len(ws) /\ s \in States
        /\ g \in Seq(Events) /\ e \in Seq(Events) /\ r \in Seq(Triggers)
    BY DEF Standing
  <1>2. PICK c \in C, pre \in Seq(Triggers) : At(ws, z, o, s, g, e, want, gt, r, c, pre)
    BY DEF Standing
  <1>3. PICK pre2 \in Seq(Triggers) : pre2 = pre \o r
    <2>1. pre \o r \in Seq(Triggers)
      BY <1>1
    <2> QED  BY <2>1, Zenon
  <1>4. pre2 \o <<>> = pre2
    BY Nothing
  <1>5. At(ws, z, o, s, g, e, want, gt, <<>>, c, pre2)
    BY <1>2, <1>3, <1>4 DEF At
  <1>6. <<>> \in Seq(Triggers)
    OBVIOUS
  <1> QED  BY <1>1, <1>5, <1>6 DEF Standing

\* One parse_step.
LEMMA ParsesOn ==
  ASSUME NEW fm \in Formats, NEW ws, NEW on, NEW tru, NEW trs, NEW b, NEW C, NEW z,
         Readable(fm, ws, on, tru, trs, b, C, z),
         NEW o, NEW s, NEW g, NEW e, NEW want, NEW gt, NEW r,
         Standing(ws, b, C, z, o, s, g, e, want, gt, r), o < Len(ws),
         NEW cap \in Nat, NEW tcap \in Nat,
         Len(e) + Reserve + Pad * V <= cap, Len(r) + Pad <= tcap,
         NEW t, t = ParseStep(fm, ws, ParseFrom(o, s, e, r), cap, tcap, TailPad(fm))
  PROVE  /\ Standing(ws, b, C, z, t.pos, t.st, g, t.ev, want, gt, t.tr)
         /\ o < t.pos /\ Len(t.ev) <= cap /\ Len(t.tr) <= tcap
  <1>1. /\ ws \in Seq(Words) /\ IsReading(fm, ws, C, z) /\ Whole(fm, ws, z)
        /\ b \in 0 .. Len(ws)
    BY DEF Readable
  <1>2. /\ o \in b .. Len(ws) /\ s \in States
        /\ g \in Seq(Events) /\ e \in Seq(Events) /\ r \in Seq(Triggers)
    BY DEF Standing
  <1>3. PICK c \in C, pre \in Seq(Triggers) : At(ws, z, o, s, g, e, want, gt, r, c, pre)
    BY DEF Standing
  <1>4. Len(ws) \in Nat /\ b \in Nat /\ o \in Nat /\ b <= o
    BY <1>1, <1>2
  <1>5. PICK s0 : s0 = ParseFrom(o, s, e, r)
    OBVIOUS
  <1>6. /\ s0 \in Parsers /\ s0.pos = o /\ s0.from = o /\ s0.st = s /\ s0.ev = e /\ s0.tr = r
    BY <1>2, <1>4, <1>5 DEF ParseFrom, Parsers
  <1>7. Stands(c, s0) /\ Holds(c, s0, g, pre)
    BY <1>3, <1>6 DEF Stands, Holds, At
  <1>8. Room(s0, cap, tcap)
    BY <1>6 DEF Room
  <1>9. Parsed(ws, C, z, cap, tcap, g, pre, s0, t)
    <2>1. s0.from = s0.pos /\ s0.pos < Len(ws)
      BY <1>6
    <2>2. t = ParseStep(fm, ws, s0, cap, tcap, TailPad(fm))
      BY <1>5
    <2> QED  BY <1>1, <1>2, <1>6, <1>7, <1>8, <2>1, <2>2, ParseStepFacts
  <1>10. /\ t \in Parsers /\ o < t.pos /\ t.pos <= Len(ws)
         /\ Len(t.ev) <= cap /\ Len(t.tr) <= tcap
    BY <1>6, <1>9 DEF Parsed
  <1>11. PICK d \in C : /\ Holds(d, t, g, pre)
                        /\ t.pos < Len(ws) => Stands(d, t)
                        /\ t.pos = Len(ws) /\ ~ HasStray(ws, z.pos) => d = z
    BY <1>9 DEF Parsed
  <1>12. At(ws, z, t.pos, t.st, g, t.ev, want, gt, t.tr, d, pre)
    BY <1>3, <1>11 DEF At, Holds, Stands
  <1>13. t.pos \in Nat /\ t.st \in States /\ t.ev \in Seq(Events) /\ t.tr \in Seq(Triggers)
    BY <1>10 DEF Parsers
  <1>14. t.pos \in b .. Len(ws)
    <2>1. PICK p \in Nat : p = t.pos
      BY <1>13
    <2>2. o < p /\ p <= Len(ws)
      BY <1>10, <2>1
    <2>3. p \in b .. Len(ws)
      BY <1>4, <2>2
    <2> QED  BY <2>1, <2>3
  <1>15. Standing(ws, b, C, z, t.pos, t.st, g, t.ev, want, gt, t.tr)
    BY <1>2, <1>12, <1>13, <1>14 DEF Standing
  <1> QED  BY <1>10, <1>15

\* What Standing means for what has been handed out.
Handed(ws, z, o, g, e, want, gt, r, tru, trs) ==
  /\ Begins(g \o e, tru)
  /\ want => Begins(gt \o r, trs)
  /\ o = Len(ws) /\ ~ HasStray(ws, z.pos) /\ e = <<>> /\ r = <<>> =>
       g = tru /\ (want => gt = trs)

\* A reader that stands on a point of the reading has handed out a front of the truth.
LEMMA HandedOut ==
  ASSUME NEW fm, NEW ws, NEW tru, NEW trs, NEW b, NEW C, NEW z,
         Readable(fm, ws, TRUE, tru, trs, b, C, z),
         NEW o, NEW s, NEW g, NEW e, NEW want, NEW gt, NEW r,
         Standing(ws, b, C, z, o, s, g, e, want, gt, r)
  PROVE  Handed(ws, z, o, g, e, want, gt, r, tru, trs)
  <1>1. IsReading(fm, ws, C, z) /\ z.ev = tru /\ z.tr = trs
    BY DEF Readable
  <1>2. PICK c \in C, pre \in Seq(Triggers) : At(ws, z, o, s, g, e, want, gt, r, c, pre)
    BY DEF Standing
  <1>3. c.ev = g \o e /\ c.tr = pre \o r /\ (want => pre = gt)
    BY <1>2 DEF At
  <1>4. Begins(c.ev, z.ev) /\ Begins(c.tr, z.tr)
    BY <1>1 DEF IsReading
  <1>5. ASSUME o = Len(ws), ~ HasStray(ws, z.pos), e = <<>>, r = <<>>
        PROVE  g = tru /\ (want => gt = trs)
    <2>1. c = z
      BY <1>2, <1>5 DEF At
    <2>2. g \o <<>> = g /\ pre \o <<>> = pre
      BY Nothing DEF Standing
    <2>3. g = tru
      BY <1>1, <1>3, <1>5, <2>1, <2>2
    <2>4. pre = trs
      BY <1>1, <1>3, <1>5, <2>1, <2>2
    <2> QED  BY <1>3, <2>3, <2>4
  <1> QED  BY <1>1, <1>3, <1>4, <1>5 DEF Handed

\* A recording that is opened can be read, also when it ends within a vector.
LEMMA Opens ==
  ASSUME NEW fm \in Formats, NEW cam \in BOOLEAN, NEW t, NEW e, NEW ws, NEW tru, NEW trs,
         Recorded(fm, cam, t, e, ws, tru, trs), e.high # None \/ ws = <<>>,
         NEW w \in Words, w.k = "vec", NEW vs, vs = ws \/ (fm = "evt4" /\ vs = Append(ws, w))
  PROVE  \E C, z : Readable(fm, vs, OnTime(fm, cam), tru, trs, FirstTimeHigh(vs), C, z)
  <1>1. ws \in Seq(Words) /\ tru \in Seq(Events) /\ trs \in Seq(Triggers)
    BY DEF Recorded
  <1>2. ws \o <<w>> = Append(ws, w) /\ Len(ws) \in Nat
    BY <1>1
  <1>3. /\ vs \in Seq(Words) /\ Len(vs) \in Nat /\ GoesOn(ws, vs) /\ Len(ws) <= Len(vs)
        /\ \A z : z.pos = Len(ws) => Whole(fm, vs, z)
    <2>1. CASE vs = ws
      BY <1>1, <1>2, <2>1 DEF GoesOn, Whole
    <2>2. CASE fm = "evt4" /\ vs = Append(ws, w)
      <3>1. vs = ws \o <<w>>
        BY <1>2, <2>2
      <3>2. /\ vs \in Seq(Words) /\ vs[Len(ws) + 1] = w /\ Len(vs) = Len(ws) + 1
            /\ GoesOn(ws, vs)
        BY <1>1, <3>1, OneBehind
      <3>3. Len(vs) \in Nat /\ Len(ws) <= Len(vs) /\ Len(ws) = Len(vs) - 1
        BY <1>2, <3>2
      <3>4. vs[Len(vs)].k = "vec"
        BY <3>2
      <3> QED  BY <2>2, <3>2, <3>3, <3>4 DEF Whole
    <2> QED  BY <2>1, <2>2
  <1>4. CASE NotBegun(t, e, ws, tru, trs)
    <2>1. ws = <<>> /\ tru = <<>> /\ trs = <<>>
      BY <1>4 DEF NotBegun
    <2>2. Len(ws) = 0
      BY <2>1
    <2>3. ~ HasHigh(vs)
      <3>1. CASE vs = ws
        BY <1>4, <3>1 DEF NotBegun
      <3>2. CASE vs = Append(ws, w)
        <4>1. Len(vs) = 1 /\ vs[1] = w
          BY <2>1, <3>2
        <4>2. ~ ReadsHigh(w)
          BY DEF ReadsHigh
        <4>3. \A i \in 1 .. Len(vs) : i = 1
          BY <4>1
        <4> QED  BY <4>1, <4>2, <4>3 DEF HasHigh
      <3> QED  BY <3>1, <3>2
    <2>4. FirstTimeHigh(vs) = 0
      BY <2>3, NoneFound DEF FirstTimeHigh
    <2>5. PICK a \in Seq(Events), q \in Seq(Triggers) : a = <<>> /\ q = <<>>
      BY NoneOf
    <2>6. PICK z : z = Point(0, ParserInit, a, q)
      OBVIOUS
    <2>7. ParserInit \in States /\ 0 \in Nat
      BY PeriodFacts, Sizes DEF ParserInit, States
    <2>8. z \in Points /\ z.pos = 0 /\ z.ev = <<>> /\ z.tr = <<>>
      <3>1. z \in Points
        BY <2>6, <2>7, PointIs, Zenon
      <3>2. z.pos = 0 /\ z.ev = a /\ z.tr = q
        BY <2>6 DEF Point
      <3> QED  BY <2>5, <3>1, <3>2
    <2>9. z.pos <= Len(vs) /\ 0 \in 0 .. Len(vs)
      BY <1>3, <2>8
    <2>10. IsReading(fm, vs, {z}, z)
      BY <2>8, <2>9, ReadsNothing
    <2>11. Whole(fm, vs, z)
      BY <1>3, <2>2, <2>8
    <2>12. Point(0, ParserInit, <<>>, <<>>) \in {z}
      BY <2>5, <2>6
    <2>13. PICK C : C = {z}
      OBVIOUS
    <2>14. Readable(fm, vs, OnTime(fm, cam), tru, trs, 0, C, z)
      BY <1>3, <2>1, <2>8, <2>9, <2>10, <2>11, <2>12, <2>13 DEF Readable
    <2> QED  BY <2>4, <2>14
  <1>5. CASE Told(fm, cam, t, e, ws, tru, trs)
    <2>1. PICK s, es, ts : /\ CanRead(fm, ws, s, es, ts)
                           /\ OnTime(fm, cam) => es = tru /\ ts = trs
      BY <1>5 DEF Told, Clocked
    <2>2. PICK C, i : /\ IsReading(fm, ws, C, Point(Len(ws), s, es, ts))
                      /\ First(ws, i) /\ Beginning(i) \in C
      BY <2>1 DEF CanRead
    <2>3. PICK z : z = Point(Len(ws), s, es, ts)
      OBVIOUS
    <2>4. IsReading(fm, ws, C, z) /\ z.pos = Len(ws) /\ z.ev = es /\ z.tr = ts
      BY <2>2, <2>3, PointIs
    <2>5. IsReading(fm, vs, C, z)
      BY <1>1, <1>3, <2>4, ReadingOn
    <2>6. Whole(fm, vs, z)
      BY <1>3, <2>4
    <2>7. First(vs, i)
      BY <1>2, <1>3, <2>2, FirstOn
    <2>8. FirstTimeHigh(vs) = i - 1 /\ i \in Nat /\ 1 <= i
      BY <1>3, <2>7, FirstFound DEF FirstTimeHigh
    <2>9. i \in 1 .. Len(vs)
      BY <2>7 DEF First
    <2>10. i - 1 \in 0 .. Len(vs)
      BY <1>3, <2>8, <2>9
    <2>11. Point(i - 1, ParserInit, <<>>, <<>>) \in C
      BY <2>2 DEF Beginning
    <2>12. OnTime(fm, cam) => z.ev = tru /\ z.tr = trs
      BY <2>1, <2>4
    <2>13. Readable(fm, vs, OnTime(fm, cam), tru, trs, i - 1, C, z)
      BY <1>3, <2>5, <2>6, <2>10, <2>11, <2>12 DEF Readable
    <2> QED  BY <2>8, <2>13
  <1> QED  BY <1>4, <1>5 DEF Recorded

-----------------------------------------------------------------------------
(* The invariant.                                                          *)

Encs == [high : Int, low : Int, y : Int]
Options == [cap : Caps \cup {0}, want : BOOLEAN, all : BOOLEAN]

Shape ==
  /\ fmt \in Formats /\ camera \in BOOLEAN /\ now \in Nat /\ enc \in Encs
  /\ pc \in {"write", "idle", "loop"} /\ opt \in Options /\ corr = 0

\* The decoder has not been opened.
Unopened ==
  /\ start = 0 /\ off = 0 /\ st = ParserInit
  /\ ev = <<>> /\ tr = <<>> /\ got = <<>> /\ gotTr = <<>>

\* It stands somewhere in a recording that can be read.
Opened ==
  /\ opt.cap \in Caps /\ WithinCapacity
  /\ pc = "idle" => ev = <<>> /\ tr = <<>>
  /\ \E C, z : /\ Readable(fmt, file, OnTime(fmt, camera), truth, truthTr, start, C, z)
               /\ Standing(file, start, C, z, off, st, got, ev, opt.want, gotTr, tr)

CodecInv ==
  /\ Shape
  /\ pc = "write" => Unopened /\ Recorded(fmt, camera, now, enc, file, truth, truthTr)
  /\ pc # "write" => Opened

\* What setting one field of the encoder's state changes.
LEMMA EncFacts ==
  ASSUME NEW e \in Encs, NEW n \in Int
  PROVE  /\ [e EXCEPT !.high = n] \in Encs /\ [e EXCEPT !.high = n].high = n
         /\ [e EXCEPT !.high = n].y = e.y /\ [e EXCEPT !.high = n].low = e.low
         /\ [e EXCEPT !.y = n] \in Encs /\ [e EXCEPT !.y = n].y = n
         /\ [e EXCEPT !.y = n].high = e.high
  BY DEF Encs

\* The parts of a time are integers.
LEMMA HighInt ==
  ASSUME NEW t \in Nat
  PROVE  HighOf(t) \in Int /\ LowOf(t) \in Int
  <1>1. HighOf(t) \in 0 .. H - 1 /\ LowOf(t) \in 0 .. L - 1
    BY TimeParts
  <1>2. H \in Nat /\ L \in Nat
    BY Sizes
  <1> QED  BY <1>1, <1>2

\* The invariant holds in the initial states.
LEMMA CodecInit ==
  ASSUME Init
  PROVE  CodecInv
  <1>1. Shape
    <2>1. enc \in Encs
      BY DEF Init, Encs, None
    <2>2. Start \in Nat
      BY CodecAssumption
    <2>3. opt \in Options
      BY DEF Init, Options
    <2> QED  BY <2>1, <2>2, <2>3 DEF Init, Shape
  <1>2. Unopened /\ pc = "write"
    BY DEF Init, Unopened
  <1>3. file \in Seq(Words) /\ ~ HasHigh(file)
    <2>1. CASE file = <<>>
      <3>1. <<>> \in Seq(Words) /\ Len(<<>>) = 0
        OBVIOUS
      <3> QED  BY <2>1, <3>1 DEF HasHigh
    <2>2. CASE file = <<[k |-> "v8", bits |-> {0}], [k |-> "x", x |-> 1]>>
      <3>1. PICK a \in Words, b \in Words : a = [k |-> "v8", bits |-> {0}] /\ b = [k |-> "x", x |-> 1]
        <4>1. [k |-> "v8", bits |-> {0}] \in Words /\ [k |-> "x", x |-> 1] \in Words
          BY DEF Words
        <4> QED  BY <4>1
      <3>2. ~ ReadsHigh(a) /\ ~ ReadsHigh(b)
        BY <3>1 DEF ReadsHigh
      <3>3. file = <<a, b>>
        BY <2>2, <3>1
      <3>4. file \in Seq(Words) /\ Len(file) = 2 /\ file[1] = a /\ file[2] = b
        BY <3>3
      <3>5. \A i \in 1 .. Len(file) : i = 1 \/ i = 2
        BY <3>4
      <3> QED  BY <3>2, <3>4, <3>5 DEF HasHigh
    <2>3. CASE file = <<[k |-> "cd", low |-> 1, x |-> 0, y |-> 0, bits |-> {0}]>>
      <3>1. PICK a \in Words : a = [k |-> "cd", low |-> 1, x |-> 0, y |-> 0, bits |-> {0}]
        <4>1. [k |-> "cd", low |-> 1, x |-> 0, y |-> 0, bits |-> {0}] \in Words
          BY DEF Words
        <4> QED  BY <4>1
      <3>2. ~ ReadsHigh(a)
        BY <3>1 DEF ReadsHigh
      <3>3. file = <<a>>
        BY <2>3, <3>1
      <3>4. file \in Seq(Words) /\ Len(file) = 1 /\ file[1] = a
        BY <3>3
      <3>5. \A i \in 1 .. Len(file) : i = 1
        BY <3>4
      <3> QED  BY <3>2, <3>4, <3>5 DEF HasHigh
    <2>4. file = <<>> \/ file = <<[k |-> "v8", bits |-> {0}], [k |-> "x", x |-> 1]>>
          \/ file = <<[k |-> "cd", low |-> 1, x |-> 0, y |-> 0, bits |-> {0}]>>
      <3>1. file \in {<<>>} \cup
               (IF ~camera THEN {}
                ELSE IF fmt = "evt3" THEN {<<[k |-> "v8", bits |-> {0}], [k |-> "x", x |-> 1]>>}
                ELSE {<<[k |-> "cd", low |-> 1, x |-> 0, y |-> 0, bits |-> {0}]>>})
        BY DEF Init
      <3> QED  BY <3>1, Zenon
    <2> QED  BY <2>1, <2>2, <2>3, <2>4
  <1>4. truth \in Seq(Events) /\ truthTr \in Seq(Triggers)
    BY DEF Init
  <1>5. NotBegun(now, enc, file, truth, truthTr)
    BY <1>3 DEF Init, NotBegun
  <1>6. Recorded(fmt, camera, now, enc, file, truth, truthTr)
    BY <1>1, <1>3, <1>4, <1>5 DEF Recorded, Shape
  <1> QED  BY <1>1, <1>2, <1>6 DEF CodecInv

\* What every step of a writer keeps.
LEMMA WriteKeeps ==
  ASSUME CodecInv, pc = "write", UNCHANGED <<fmt, camera, rvars>>,
         now' \in Nat, enc' \in Encs, Recorded(fmt, camera, now', enc', file', truth', truthTr')
  PROVE  CodecInv'
  <1>1. /\ fmt' = fmt /\ camera' = camera /\ pc' = pc /\ opt' = opt /\ corr' = corr
        /\ start' = start /\ off' = off /\ st' = st /\ ev' = ev /\ tr' = tr
        /\ got' = got /\ gotTr' = gotTr
    BY DEF rvars
  <1>2. Shape'
    BY <1>1 DEF CodecInv, Shape
  <1>3. Unopened'
    BY <1>1 DEF CodecInv, Unopened
  <1>4. Recorded(fmt, camera, now, enc, file, truth, truthTr)'
    BY <1>1
  <1>5. pc' = "write"
    BY <1>1
  <1> QED  BY <1>2, <1>3, <1>4, <1>5 DEF CodecInv

\* The encoder.
LEMMA EncodeTimed ==
  ASSUME NEW t \in Nat, NEW e \in Encs, NEW ws, NEW tru, NEW trs, NEW fm \in Formats, fm # "evt3",
         NEW cam \in BOOLEAN, Recorded(fm, cam, t, e, ws, tru, trs), NEW d \in Deltas, NEW x \in Nat,
         NEW y \in Nat, NEW u, u = t + d,
         NEW w \in Words, w.k = "cd", w.low = LowOf(u), w.x = x, w.y = y,
         fm = "evt21" => w.bits = {0}
  PROVE  /\ Recorded(fm, cam, u, [e EXCEPT !.high = HighOf(u)],
                     ws \o If(HighOf(u) # e.high, High(HighOf(u))) \o <<w>>,
                     Append(tru, [t |-> u, x |-> x, y |-> y]), trs)
  <1>1. u \in Nat /\ d \in Deltas \cup CamDeltas
    BY StepsOfTime
  <1>2. tru \in Seq(Events) /\ trs \in Seq(Triggers)
    BY DEF Recorded
  <1>3. PICK w1 : w1 = ws \o If(HighOf(u) # e.high, High(HighOf(u)))
    OBVIOUS
  <1>4. Ready(fm, cam, t, e, ws, u, w1, tru, trs)
    <2>1. PICK c : c = (HighOf(t + d) # e.high)
      OBVIOUS
    <2>2. Ready(fm, cam, t, e, ws, t + d, ws \o If(c, High(HighOf(t + d))), tru, trs)
      BY <1>1, <2>1, TimeReady
    <2> QED  BY <1>3, <2>1, <2>2
  <1>5. PICK e2 : e2 = [e EXCEPT !.high = HighOf(u)] /\ e2.high = HighOf(u)
    <2>1. PICK h \in Int : h = HighOf(u)
      BY <1>1, HighInt
    <2>2. [e EXCEPT !.high = h].high = h
      BY EncFacts
    <2> QED  BY <2>1, <2>2
  <1>6. PICK v \in Events : v = [t |-> u, x |-> x, y |-> y]
    BY <1>1 DEF Events
  <1>7. Append(tru, v) = tru \o Columns(u, w.x, w.y, {0})
    <2>1. Columns(u, x, y, {0}) = <<v>>
      BY <1>1, <1>6, ColumnsOne
    <2>2. Append(tru, v) = tru \o <<v>>
      BY <1>2
    <2> QED  BY <2>1, <2>2
  <1>8. PICK tru2 : tru2 = Append(tru, v)
    OBVIOUS
  <1>9. tru2 = tru \o Columns(u, w.x, w.y, {0})
    BY <1>7, <1>8
  <1>10. Recorded(fm, cam, u, e2, w1 \o <<w>>, tru2, trs)
    <2>1. PICK bits : bits = {0}
      OBVIOUS
    <2>2. /\ fm = "evt21" => w.bits = bits
          /\ fm # "evt21" => bits = {0}
          /\ tru2 = tru \o Columns(u, w.x, w.y, bits)
          /\ w.x \in Nat /\ w.y \in Nat
      BY <1>9, <2>1
    <2> QED  BY <1>1, <1>2, <1>4, <1>5, <2>2, TimedWrites
  <1> QED  BY <1>3, <1>5, <1>6, <1>8, <1>10

\* Columns and rows are numbers.
LEMMA XsYs ==
  ASSUME NEW x \in Xs, NEW y \in Ys
  PROVE  x \in Nat /\ y \in Nat
  BY CodecAssumption

\* The encoder keeps the invariant, in every format.
LEMMA EncodeKeeps ==
  ASSUME CodecInv, Encode
  PROVE  CodecInv'
  <1>1. /\ pc = "write" /\ ~ camera /\ UNCHANGED <<fmt, camera, truthTr, rvars>>
    BY DEF Encode, Writing
  <1>2. PICK d \in Deltas, x \in Xs, y \in Ys :
          LET e == [t |-> now + d, x |-> x, y |-> y] IN
          /\ \/ fmt = "evt2" /\ EncodeEvt2(e)
             \/ fmt = "evt21" /\ EncodeEvt21(e)
             \/ fmt = "evt3" /\ EncodeEvt3(e)
             \/ fmt = "evt4" /\ EncodeEvt4(e)
          /\ now' = e.t
          /\ truth' = Append(truth, e)
    BY DEF Encode
  <1>3. /\ fmt \in Formats /\ camera \in BOOLEAN /\ now \in Nat /\ enc \in Encs
        /\ Recorded(fmt, camera, now, enc, file, truth, truthTr)
    BY <1>1 DEF CodecInv, Shape
  <1>4. x \in Nat /\ y \in Nat
    BY XsYs
  <1>5. PICK u \in Nat : u = now + d
    BY <1>3, StepsOfTime
  <1>6. PICK v : v = [t |-> u, x |-> x, y |-> y]
    OBVIOUS
  <1>7. v.t = u /\ v.x = x /\ v.y = y
    BY <1>6
  <1>8. /\ \/ fmt = "evt2" /\ EncodeEvt2(v)
           \/ fmt = "evt21" /\ EncodeEvt21(v)
           \/ fmt = "evt3" /\ EncodeEvt3(v)
           \/ fmt = "evt4" /\ EncodeEvt4(v)
        /\ now' = u
        /\ truth' = Append(truth, v)
    BY <1>2, <1>5, <1>6, <1>7
  <1>9. HighOf(u) \in Int /\ LowOf(u) \in Int /\ LowOf(u) \in Nat
    BY HighInt, HighsOf
  <1>10. ASSUME NEW w \in Words, w.k = "cd", w.low = LowOf(u), w.x = x, w.y = y,
                fmt = "evt21" => w.bits = {0}, fmt # "evt3", Timed(v, w)
         PROVE  CodecInv'
    <2>1. /\ file' = file \o If(HighOf(u) # enc.high, High(HighOf(u))) \o <<w>>
          /\ enc' = [enc EXCEPT !.high = HighOf(u)]
      BY <1>7, <1>10 DEF Timed
    <2>2. Recorded(fmt, camera, u, [enc EXCEPT !.high = HighOf(u)],
                   file \o If(HighOf(u) # enc.high, High(HighOf(u))) \o <<w>>,
                   Append(truth, [t |-> u, x |-> x, y |-> y]), truthTr)
      BY <1>3, <1>4, <1>5, <1>10, EncodeTimed
    <2>3. enc' \in Encs
      BY <1>3, <1>9, <2>1, EncFacts
    <2>4. Recorded(fmt, camera, now', enc', file', truth', truthTr')
      BY <1>1, <1>6, <1>8, <2>1, <2>2
    <2> QED  BY <1>1, <1>8, <2>3, <2>4, WriteKeeps
  <1>11. CASE (fmt = "evt2" /\ EncodeEvt2(v)) \/ (fmt = "evt4" /\ EncodeEvt4(v))
    <2>1. PICK w \in Words : w = [k |-> "cd", low |-> LowOf(u), x |-> x, y |-> y]
      BY <1>4, <1>9 DEF Words
    <2>2. CdWord(v) = w
      BY <1>7, <2>1 DEF CdWord
    <2>3. Timed(v, w)
      BY <1>11, <2>2 DEF EncodeEvt2, EncodeEvt4
    <2>4. w.k = "cd" /\ w.low = LowOf(u) /\ w.x = x /\ w.y = y
      BY <2>1
    <2> QED  BY <1>10, <1>11, <2>3, <2>4
  <1>12. CASE fmt = "evt21" /\ EncodeEvt21(v)
    <2>1. PICK w \in Words : w = [k |-> "cd", low |-> LowOf(u), x |-> x, y |-> y, bits |-> {0}]
      <3>1. PICK zero \in SUBSET Nat : zero = {0}
        <4>1. {0} \in SUBSET Nat
          OBVIOUS
        <4> QED  BY <4>1, Zenon
      <3>2. PICK w \in Words : w = [k |-> "cd", low |-> LowOf(u), x |-> x, y |-> y, bits |-> zero]
        BY <1>4, <1>9 DEF Words
      <3> QED  BY <3>1, <3>2
    <2>2. MaskedWord(v, {0}) = w
      BY <1>7, <2>1 DEF MaskedWord
    <2>3. Timed(v, w)
      BY <1>12, <2>2 DEF EncodeEvt21
    <2>4. w.k = "cd" /\ w.low = LowOf(u) /\ w.x = x /\ w.y = y /\ w.bits = {0}
      BY <2>1
    <2> QED  BY <1>10, <1>12, <2>3, <2>4
  <1>13. CASE fmt = "evt3" /\ EncodeEvt3(v)
    <2>1. /\ file' = file \o If(HighOf(u) # enc.high, High(HighOf(u)))
                         \o If(LowOf(u) # enc.low, Low(LowOf(u)))
                         \o If(y # enc.y, RowWord(y)) \o <<[k |-> "x", x |-> x]>>
          /\ enc' = [high |-> HighOf(u), low |-> LowOf(u), y |-> y]
      BY <1>7, <1>13 DEF EncodeEvt3
    <2>2. PICK w1 : w1 = file \o If(HighOf(u) # enc.high, High(HighOf(u)))
      OBVIOUS
    <2>3. file' = Addressed(w1, u, enc.low, y, enc.y, x)
      BY <2>1, <2>2 DEF Addressed, Rowed
    <2>4. Wrote(camera, u, w1, enc.low, y, enc.y, x, truth, truthTr)
      <3>1. Recorded("evt3", camera, now, enc, file, truth, truthTr)
        BY <1>3, <1>13
      <3>2. Wrote(camera, now + d, file \o If(HighOf(now + d) # enc.high, High(HighOf(now + d))),
                  enc.low, y, enc.y, x, truth, truthTr)
        BY <1>1, <1>3, <1>4, <3>1, Evt3Encodes
      <3> QED  BY <1>5, <2>2, <3>2
    <2>5. Recorded("evt3", camera, u, enc', file', truth', truthTr)
      BY <1>6, <1>8, <2>1, <2>3, <2>4 DEF Wrote
    <2>6. enc' \in Encs
      BY <1>4, <1>9, <2>1 DEF Encs
    <2>7. Recorded(fmt, camera, now', enc', file', truth', truthTr')
      BY <1>1, <1>8, <1>13, <2>5
    <2> QED  BY <1>1, <1>8, <2>6, <2>7, WriteKeeps
  <1> QED  BY <1>8, <1>11, <1>12, <1>13

\* The camera.
LEMMA CamTimeKeeps ==
  ASSUME CodecInv, CamTime
  PROVE  CodecInv'
  <1>1. /\ pc = "write" /\ camera /\ UNCHANGED <<fmt, camera, truth, truthTr, rvars>>
    BY DEF CamTime, Writing
  <1>2. /\ fmt \in Formats /\ camera \in BOOLEAN /\ now \in Nat /\ enc \in Encs
        /\ Recorded(fmt, camera, now, enc, file, truth, truthTr)
    BY <1>1 DEF CodecInv, Shape
  <1>3. PICK d \in CamDeltas, low \in LowAgain :
           LET t == now + d IN
           /\ now' = t
           /\ file' = file
                \o If(d = 0 \/ HighOf(t) # enc.high, High(HighOf(t)))
                \o If(fmt = "evt3" /\ (d > 0 \/ low \/ enc.high = None), Low(LowOf(t)))
           /\ enc' = [enc EXCEPT !.high = HighOf(t)]
    BY DEF CamTime
  <1>4. PICK u \in Nat : u = now + d
    BY <1>2, StepsOfTime
  <1>5. PICK h \in Int : h = HighOf(u)
    BY HighInt
  <1>6. PICK c, l : /\ c = (d = 0 \/ HighOf(u) # enc.high)
                    /\ l = (d > 0 \/ low \/ enc.high = None)
    OBVIOUS
  <1>7. /\ now' = u
        /\ file' = file \o If(c, High(HighOf(u))) \o If(fmt = "evt3" /\ l, Low(LowOf(u)))
        /\ enc' = [enc EXCEPT !.high = h]
    BY <1>3, <1>4, <1>5, <1>6
  <1>8. enc' \in Encs /\ enc'.high = HighOf(u) /\ enc'.y = enc.y
    BY <1>2, <1>5, <1>7, EncFacts
  <1>9. Recorded(fmt, camera, u, enc',
                 file \o If(c, High(HighOf(u))) \o If(fmt = "evt3" /\ l, Low(LowOf(u))), truth, truthTr)
    <2>1. /\ c <=> d = 0 \/ HighOf(now + d) # enc.high
          /\ d > 0 \/ enc.high = None => l
          /\ enc'.high = HighOf(now + d)
      BY <1>4, <1>6, <1>8
    <2>2. PICK e2 : e2 = enc'
      OBVIOUS
    <2>3. e2.high = HighOf(now + d) /\ e2.y = enc.y
      BY <1>8, <2>1, <2>2
    <2>4. Recorded(fmt, camera, now + d, e2,
                   file \o If(c, High(HighOf(now + d)))
                        \o If(fmt = "evt3" /\ l, Low(LowOf(now + d))), truth, truthTr)
      BY <1>1, <1>2, <2>1, <2>3, CamTimes
    <2> QED  BY <1>4, <2>2, <2>4
  <1>10. Recorded(fmt, camera, now', enc', file', truth', truthTr')
    BY <1>1, <1>7, <1>9
  <1>11. UNCHANGED <<fmt, camera, rvars>>
    BY <1>1
  <1> QED  BY <1>1, <1>7, <1>8, <1>10, <1>11, WriteKeeps

\* A trigger the camera records keeps it.
LEMMA CamTriggerKeeps ==
  ASSUME CodecInv, CamTrigger
  PROVE  CodecInv'
  <1>1. /\ pc = "write" /\ camera /\ enc.high # None
        /\ UNCHANGED <<fmt, camera, now, enc, truth, rvars>>
        /\ file' = Append(file, [k |-> "trig", low |-> LowOf(now), id |-> Len(truthTr)])
        /\ truthTr' = Append(truthTr, [t |-> now, id |-> Len(truthTr)])
    BY DEF CamTrigger, Writing
  <1>2. /\ fmt \in Formats /\ camera \in BOOLEAN /\ now \in Nat /\ enc \in Encs
        /\ Recorded(fmt, camera, now, enc, file, truth, truthTr)
    BY <1>1 DEF CodecInv, Shape
  <1>3. PICK id \in Nat : id = Len(truthTr)
    BY <1>2 DEF Recorded
  <1>4. PICK w, g : w = [k |-> "trig", low |-> LowOf(now), id |-> id] /\ g = [t |-> now, id |-> id]
    OBVIOUS
  <1>5. Recorded(fmt, camera, now, enc, Append(file, w), truth, Append(truthTr, g))
    BY <1>1, <1>2, <1>4, TriggerWrites
  <1>6. file' = Append(file, w) /\ truthTr' = Append(truthTr, g)
    BY <1>1, <1>3, <1>4
  <1>7. Recorded(fmt, camera, now', enc', file', truth', truthTr')
    BY <1>1, <1>5, <1>6
  <1>8. UNCHANGED <<fmt, camera, rvars>> /\ now' \in Nat /\ enc' \in Encs
    BY <1>1, <1>2
  <1> QED  BY <1>1, <1>7, <1>8, WriteKeeps

\* A word the decoder skips keeps it.
LEMMA CamNoiseKeeps ==
  ASSUME CodecInv, CamNoise
  PROVE  CodecInv'
  <1>1. /\ pc = "write" /\ camera
        /\ UNCHANGED <<fmt, camera, now, enc, truth, truthTr, rvars>>
    BY DEF CamNoise, Writing
  <1>2. PICK kind \in Noise \cap (IF fmt = "evt3" THEN {"other", "v8"} ELSE {"other"}) :
           file' = Append(file, [k |-> kind, bits |-> {0}])
    BY DEF CamNoise
  <1>3. /\ fmt \in Formats /\ camera \in BOOLEAN /\ now \in Nat /\ enc \in Encs
        /\ Recorded(fmt, camera, now, enc, file, truth, truthTr)
    BY <1>1 DEF CodecInv, Shape
  <1>4. kind = "other" \/ (fmt = "evt3" /\ kind = "v8")
    BY <1>2
  <1>5. PICK w \in Words : w = [k |-> kind, bits |-> {0}]
    <2>1. PICK zero \in SUBSET Nat : zero = {0}
      <3>1. {0} \in SUBSET Nat
        OBVIOUS
      <3> QED  BY <3>1, Zenon
    <2>2. kind \in {"v12", "v8", "mask", "other"}
      BY <1>4
    <2>3. [k |-> kind, bits |-> zero] \in Words
      BY <2>2 DEF Words
    <2> QED  BY <2>1, <2>3
  <1>6. w.k = kind /\ file' = Append(file, w)
    BY <1>2, <1>5
  <1>7. Recorded(fmt, camera, now, enc, Append(file, w), truth, truthTr)
    BY <1>3, <1>4, <1>6, NoiseWrites
  <1>8. Recorded(fmt, camera, now', enc', file', truth', truthTr')
    BY <1>1, <1>6, <1>7
  <1>9. UNCHANGED <<fmt, camera, rvars>> /\ now' \in Nat /\ enc' \in Encs
    BY <1>1, <1>3
  <1> QED  BY <1>1, <1>8, <1>9, WriteKeeps

\* One word and three are four.
LEMMA OneAndThree ==
  ASSUME NEW a, NEW b, NEW c, NEW d
  PROVE  <<a>> \o <<b, c, d>> = <<a, b, c, d>>
  <1>1. PICK S : S = {a, b, c, d}
    OBVIOUS
  <1>2. PICK p \in Seq(S), q \in Seq(S), r \in Seq(S) :
          /\ p = <<a>> /\ q = <<b, c, d>> /\ r = <<a, b, c, d>>
    <2>1. <<a>> \in Seq(S) /\ <<b, c, d>> \in Seq(S) /\ <<a, b, c, d>> \in Seq(S)
      BY <1>1
    <2> QED  BY <2>1, Zenon
  <1>3. /\ Len(p) = 1 /\ p[1] = a /\ Len(q) = 3 /\ q[1] = b /\ q[2] = c /\ q[3] = d
        /\ Len(r) = 4 /\ r[1] = a /\ r[2] = b /\ r[3] = c /\ r[4] = d
    BY <1>2
  <1>0. /\ p \o q \in Seq(S) /\ Len(p \o q) = Len(p) + Len(q)
        /\ \A i \in 1 .. Len(p) : (p \o q)[i] = p[i]
        /\ \A i \in 1 .. Len(q) : (p \o q)[Len(p) + i] = q[i]
    BY Joined
  <1>4. p \o q \in Seq(S) /\ Len(p \o q) = 4
    BY <1>0, <1>3
  <1>5. (p \o q)[1] = a /\ (p \o q)[2] = b /\ (p \o q)[3] = c /\ (p \o q)[4] = d
    <2>1. /\ 1 \in 1 .. Len(p) /\ 1 \in 1 .. Len(q) /\ 2 \in 1 .. Len(q) /\ 3 \in 1 .. Len(q)
          /\ Len(p) + 1 = 2 /\ Len(p) + 2 = 3 /\ Len(p) + 3 = 4
      BY <1>3
    <2>2. (p \o q)[1] = p[1] /\ (p \o q)[2] = q[1] /\ (p \o q)[3] = q[2] /\ (p \o q)[4] = q[3]
      BY <1>0, <2>1
    <2> QED  BY <1>3, <2>2
  <1>6. \A i \in 1 .. 4 : i = 1 \/ i = 2 \/ i = 3 \/ i = 4
    OBVIOUS
  <1>7. \A i \in 1 .. Len(r) : (p \o q)[i] = r[i]
    BY <1>3, <1>5, <1>6
  <1>8. p \o q = r
    BY <1>3, <1>4, <1>7, SMTT(30), ZenonT(30)
  <1> QED  BY <1>2, <1>8

\* The events a camera records keep it, one by one or as a mask.
LEMMA CamEventsKeeps ==
  ASSUME CodecInv, CamEvents
  PROVE  CodecInv'
  <1>1. /\ pc = "write" /\ camera /\ enc.high # None
        /\ UNCHANGED <<fmt, camera, now, truthTr, rvars>>
    BY DEF CamEvents, Writing
  <1>2. PICK x \in Xs, y \in Ys : \E bits \in IF fmt = "evt2" THEN {{0}} ELSE Masks :
           /\ file' = file \o CamWords(x, y, bits)
           /\ truth' = truth \o Columns(now, x, y, bits)
           /\ enc' = [enc EXCEPT !.y = y]
    BY DEF CamEvents
  <1>3. PICK bits \in IF fmt = "evt2" THEN {{0}} ELSE Masks :
           /\ file' = file \o CamWords(x, y, bits)
           /\ truth' = truth \o Columns(now, x, y, bits)
           /\ enc' = [enc EXCEPT !.y = y]
    BY <1>2
  <1>4. /\ fmt \in Formats /\ camera \in BOOLEAN /\ now \in Nat /\ enc \in Encs
        /\ Recorded(fmt, camera, now, enc, file, truth, truthTr)
    BY <1>1 DEF CodecInv, Shape
  <1>5. /\ Ready(fmt, camera, now, enc, file, now, file, truth, truthTr) /\ enc.high = HighOf(now)
        /\ file \in Seq(Words) /\ truth \in Seq(Events) /\ truthTr \in Seq(Triggers)
    BY <1>1, <1>4, ToldFacts
  <1>6. x \in Nat /\ y \in Nat
    BY XsYs
  <1>7. bits \subseteq 0 .. 3 * V - 1 /\ bits \in SUBSET Nat
    <2>1. V \in Nat /\ V >= 1
      BY Sizes
    <2>2. CASE bits = {0}
      <3>1. 0 \in 0 .. 3 * V - 1
        BY <2>1
      <3> QED  BY <2>2, <3>1
    <2>3. CASE bits \in Masks
      <3>1. bits \subseteq 0 .. 3 * V - 1
        BY <2>3, CodecAssumption
      <3>2. 0 .. 3 * V - 1 \subseteq Nat
        BY <2>1
      <3> QED  BY <3>1, <3>2
    <2>4. bits = {0} \/ bits \in Masks
      <3>1. CASE fmt = "evt2"
        BY <3>1
      <3>2. CASE fmt # "evt2"
        BY <3>2
      <3> QED  BY <3>1, <3>2
    <2> QED  BY <2>2, <2>3, <2>4
  <1>8. LowOf(now) \in Nat
    BY <1>4, HighsOf
  <1>9. PICK e2 \in Encs : e2 = [enc EXCEPT !.y = y] /\ e2.y = y /\ e2.high = HighOf(now)
    <2>1. y \in Int
      BY <1>6
    <2>2. [enc EXCEPT !.y = y] \in Encs /\ [enc EXCEPT !.y = y].y = y
          /\ [enc EXCEPT !.y = y].high = enc.high
      BY <1>4, <2>1, EncFacts
    <2> QED  BY <1>5, <2>2
  <1>10. SUFFICES Recorded(fmt, camera, now, e2, file \o CamWords(x, y, bits),
                           truth \o Columns(now, x, y, bits), truthTr)
    <2>1. Recorded(fmt, camera, now', enc', file', truth', truthTr')
      BY <1>1, <1>3, <1>9, <1>10
    <2>2. UNCHANGED <<fmt, camera, rvars>> /\ now' \in Nat /\ enc' \in Encs
      BY <1>1, <1>3, <1>4, <1>9
    <2> QED  BY <1>1, <2>1, <2>2, WriteKeeps
  <1>11. PICK tru2 : tru2 = truth \o Columns(now, x, y, bits)
    OBVIOUS
  <1>12. ASSUME NEW w \in Words, w.k = "cd", w.low = LowOf(now), w.x = x, w.y = y,
                fmt = "evt21" => w.bits = bits, fmt # "evt21" => bits = {0}, fmt # "evt3",
                CamWords(x, y, bits) = <<w>>
         PROVE  Recorded(fmt, camera, now, e2, file \o CamWords(x, y, bits), tru2, truthTr)
    <2>1. w.x \in Nat /\ w.y \in Nat /\ tru2 = truth \o Columns(now, w.x, w.y, bits)
      BY <1>6, <1>11, <1>12
    <2>2. Recorded(fmt, camera, now, e2, file \o <<w>>, tru2, truthTr)
      BY <1>4, <1>5, <1>9, <1>12, <2>1, TimedWrites
    <2> QED  BY <1>12, <2>2
  <1>13. CASE fmt = "evt21"
    <2>1. PICK w \in Words : w = [k |-> "cd", low |-> LowOf(now), x |-> x, y |-> y, bits |-> bits]
      BY <1>6, <1>7, <1>8 DEF Words
    <2>2. CamWords(x, y, bits) = <<w>>
      BY <1>13, <2>1 DEF CamWords, MaskedWord
    <2>3. w.k = "cd" /\ w.low = LowOf(now) /\ w.x = x /\ w.y = y /\ w.bits = bits
      BY <2>1
    <2> QED  BY <1>11, <1>12, <1>13, <2>2, <2>3
  <1>14. CASE fmt = "evt2" \/ (fmt = "evt4" /\ bits = {0})
    <2>1. PICK w \in Words : w = [k |-> "cd", low |-> LowOf(now), x |-> x, y |-> y]
      BY <1>6, <1>8 DEF Words
    <2>2. CamWords(x, y, bits) = <<w>>
      BY <1>14, <2>1 DEF CamWords, CdWord
    <2>3. w.k = "cd" /\ w.low = LowOf(now) /\ w.x = x /\ w.y = y /\ bits = {0}
      BY <1>14, <2>1
    <2> QED  BY <1>11, <1>12, <1>14, <2>2, <2>3
  <1>15. CASE fmt = "evt4" /\ bits # {0}
    <2>1. PICK vs : vs = <<[k |-> "vec", low |-> LowOf(now), x |-> x, y |-> y],
                           [k |-> "mask", bits |-> bits]>>
      OBVIOUS
    <2>2. CamWords(x, y, bits) = vs
      BY <1>15, <2>1 DEF CamWords
    <2>3. PICK ws2 : ws2 = file \o vs
      OBVIOUS
    <2>4. Recorded("evt4", camera, now, enc, file, truth, truthTr)
      BY <1>4, <1>15
    <2>5. Recorded("evt4", camera, now, e2, ws2, tru2, truthTr)
      BY <1>1, <1>4, <1>5, <1>6, <1>7, <1>9, <1>11, <2>1, <2>3, <2>4, VectorWrites
    <2> QED  BY <1>11, <1>15, <2>2, <2>3, <2>5
  <1>16. CASE fmt = "evt3"
    <2>1. Recorded("evt3", camera, now, enc, file, truth, truthTr)
      BY <1>4, <1>16
    <2>2. PICK ws1 : ws1 = file \o If(y # enc.y, RowWord(y))
      OBVIOUS
    <2>3. PICK s : InRow(camera, ws1, now, y, truth, truthTr, truth, truthTr, s)
      <3>1. RowWritten(camera, file, now, y, enc.y, truth, truthTr)
        BY <1>1, <1>4, <1>6, <2>1, RowWrites
      <3> QED  BY <2>2, <3>1 DEF RowWritten
    <2>4. PICK row \in Seq(Words) : row = If(y # enc.y, RowWord(y))
      <3>1. [k |-> "y", y |-> y] \in Words
        BY <1>6 DEF Words
      <3>2. If(y # enc.y, RowWord(y)) \in Seq(Words)
        BY <3>1 DEF If, RowWord
      <3> QED  BY <3>2, Zenon
    <2>5. CASE bits = {0}
      <3>1. PICK v \in Seq(Words) : v = <<[k |-> "x", x |-> x]>>
        <4>1. [k |-> "x", x |-> x] \in Words
          BY <1>6 DEF Words
        <4> QED  BY <4>1, OneOf
      <3>2. CamWords(x, y, bits) = row \o v
        BY <1>16, <2>4, <2>5, <3>1 DEF CamWords
      <3>3. file \o (row \o v) = (file \o row) \o v
        BY <1>5, Behind, SMTT(30), ZenonT(30)
      <3>4. file \o CamWords(x, y, bits) = ws1 \o <<[k |-> "x", x |-> x]>>
        BY <2>2, <2>4, <3>1, <3>2, <3>3
      <3>5. Recorded("evt3", camera, now, e2, ws1 \o <<[k |-> "x", x |-> x]>>, tru2, truthTr)
        BY <1>1, <1>4, <1>5, <1>6, <1>9, <1>11, <2>3, <2>5, SingleWrites
      <3> QED  BY <1>11, <1>16, <3>4, <3>5
    <2>6. CASE bits # {0}
      <3>1. PICK v \in Seq(Words) : v = <<[k |-> "base", x |-> x]>>
        <4>1. [k |-> "base", x |-> x] \in Words
          BY <1>6 DEF Words
        <4> QED  BY <4>1, OneOf
      <3>2. PICK g \in Seq(Words) : g = Group(bits)
        BY GroupWords
      <3>3. v \o g = <<[k |-> "base", x |-> x],
                       [k |-> "v12", bits |-> Part(bits, 0)],
                       [k |-> "v12", bits |-> Part(bits, 1)],
                       [k |-> "v8", bits |-> Part(bits, 2)]>>
        <4>1. PICK a, b, c, d : /\ a = [k |-> "base", x |-> x]
                                /\ b = [k |-> "v12", bits |-> Part(bits, 0)]
                                /\ c = [k |-> "v12", bits |-> Part(bits, 1)]
                                /\ d = [k |-> "v8", bits |-> Part(bits, 2)]
          OBVIOUS
        <4>2. v = <<a>> /\ g = <<b, c, d>>
          BY <3>1, <3>2, <4>1 DEF Group
        <4>3. <<a>> \o <<b, c, d>> = <<a, b, c, d>>
          BY OneAndThree
        <4> QED  BY <4>1, <4>2, <4>3
      <3>4. CamWords(x, y, bits) = row \o (v \o g)
        BY <1>16, <2>4, <2>6, <3>3 DEF CamWords
      <3>5. file \o (row \o (v \o g)) = ((file \o row) \o v) \o g
        <4>1. PICK vg \in Seq(Words) : vg = v \o g
          <5>1. v \o g \in Seq(Words)
            OBVIOUS
          <5> QED  BY <5>1, Zenon
        <4>2. PICK a \in Seq(Words) : a = file \o row
          <5>1. file \o row \in Seq(Words)
            BY <1>5
          <5> QED  BY <5>1, Zenon
        <4>3. file \o (row \o vg) = a \o vg
          <5>1. file \in Seq(Words)
            BY <1>5
          <5>2. (file \o row) \o vg = file \o (row \o vg)
            BY <5>1, Behind, SMTT(30), ZenonT(30)
          <5> QED  BY <4>2, <5>2
        <4>4. (a \o v) \o g = a \o vg
          BY <4>1, Behind, SMTT(30), ZenonT(30)
        <4> QED  BY <4>1, <4>2, <4>3, <4>4
      <3>6. file \o CamWords(x, y, bits) = (ws1 \o <<[k |-> "base", x |-> x]>>) \o Group(bits)
        BY <2>2, <2>4, <3>1, <3>2, <3>4, <3>5
      <3>7. Recorded("evt3", camera, now, e2, (ws1 \o <<[k |-> "base", x |-> x]>>) \o Group(bits),
                     tru2, truthTr)
        BY <1>1, <1>4, <1>5, <1>6, <1>7, <1>9, <1>11, <2>3, GroupWrites
      <3> QED  BY <1>11, <1>16, <3>6, <3>7
    <2> QED  BY <2>5, <2>6
  <1>17. fmt = "evt21" \/ (fmt = "evt2" \/ (fmt = "evt4" /\ bits = {0}))
         \/ (fmt = "evt4" /\ bits # {0}) \/ fmt = "evt3"
    BY <1>4 DEF Formats
  <1> QED  BY <1>13, <1>14, <1>15, <1>16, <1>17

\* The decoder opens the recording.
LEMMA OpenKeeps ==
  ASSUME CodecInv, Open
  PROVE  CodecInv'
  <1>1. /\ pc = "write" /\ (enc.high # None \/ file = <<>>)
        /\ start' = FirstTimeHigh(file') /\ off' = start' /\ pc' = "idle"
        /\ UNCHANGED <<fmt, camera, now, writes, enc, truth, truthTr,
                       st, corr, ev, tr, got, gotTr>>
    BY DEF Open
  <1>2. /\ fmt \in Formats /\ camera \in BOOLEAN /\ now \in Nat /\ enc \in Encs /\ corr = 0
        /\ Recorded(fmt, camera, now, enc, file, truth, truthTr) /\ Unopened
    BY <1>1 DEF CodecInv, Shape
  <1>3. PICK c \in Caps, w \in Wants : opt' = [cap |-> c, want |-> w, all |-> FALSE]
    BY DEF Open
  <1>4. c \in Nat /\ w \in BOOLEAN /\ TCap \in Nat
    BY CodecAssumption
  <1>5. opt' \in Options /\ opt'.cap \in Caps /\ opt'.cap \in Nat
    BY <1>3, <1>4 DEF Options
  <1>6. PICK v \in Words : v = [k |-> "vec", low |-> 0, x |-> 0, y |-> 0]
    BY DEF Words
  <1>7. PICK vs : vs = file'
    OBVIOUS
  <1>8. vs = file \/ (fmt = "evt4" /\ vs = Append(file, v))
    <2>1. file' \in {file} \cup
            (IF camera /\ fmt = "evt4"
             THEN {Append(file, [k |-> "vec", low |-> 0, x |-> 0, y |-> 0])} ELSE {})
      BY DEF Open
    <2> QED  BY <1>6, <1>7, <2>1
  <1>9. PICK C, z : Readable(fmt, vs, OnTime(fmt, camera), truth, truthTr, FirstTimeHigh(vs), C, z)
    <2>1. v.k = "vec"
      BY <1>6
    <2> QED  BY <1>1, <1>2, <1>8, <2>1, Opens
  <1>10. PICK want : want = opt'.want
    OBVIOUS
  <1>11. PICK b : b = FirstTimeHigh(vs)
    OBVIOUS
  <1>12. Standing(vs, b, C, z, b, ParserInit, <<>>, <<>>, want, <<>>, <<>>)
    BY <1>9, <1>11, Starts
  <1>13. /\ start' = b /\ off' = b /\ st' = ParserInit /\ fmt' = fmt /\ camera' = camera
         /\ ev' = <<>> /\ tr' = <<>> /\ got' = <<>> /\ gotTr' = <<>>
         /\ truth' = truth /\ truthTr' = truthTr
    BY <1>1, <1>2, <1>7, <1>11 DEF Unopened
  <1>14. Readable(fmt, file, OnTime(fmt, camera), truth, truthTr, start, C, z)'
    BY <1>7, <1>9, <1>11, <1>13
  <1>15. Standing(file, start, C, z, off, st, got, ev, opt.want, gotTr, tr)'
    BY <1>7, <1>10, <1>12, <1>13
  <1>16. WithinCapacity'
    <2>1. Len(<<>>) = 0
      OBVIOUS
    <2> QED  BY <1>4, <1>5, <1>13, <2>1 DEF WithinCapacity
  <1>17. Opened'
    BY <1>5, <1>13, <1>14, <1>15, <1>16 DEF Opened
  <1>18. Shape'
    BY <1>1, <1>2, <1>5 DEF Shape
  <1> QED  BY <1>1, <1>17, <1>18 DEF CodecInv

\* What every step of the decoder keeps.
Goes(C, z, off2, st2, got2, ev2, want2, gotTr2, tr2) ==
  Standing(file, start, C, z, off, st, got, ev, opt.want, gotTr, tr)
    => Standing(file, start, C, z, off2, st2, got2, ev2, want2, gotTr2, tr2)

\* A step of the reader keeps it when the reader stays on a point of every reading.
LEMMA ReadKeeps ==
  ASSUME CodecInv, pc # "write", UNCHANGED wvars, start' = start, corr' = 0,
         pc' \in {"idle", "loop"}, opt' \in Options, opt'.cap \in Caps, WithinCapacity',
         pc' = "idle" => ev' = <<>> /\ tr' = <<>>,
         \A C, z : Readable(fmt, file, OnTime(fmt, camera), truth, truthTr, start, C, z)
                     => Goes(C, z, off', st', got', ev', opt'.want, gotTr', tr')
  PROVE  CodecInv'
  <1>1. /\ fmt' = fmt /\ camera' = camera /\ now' = now /\ enc' = enc /\ file' = file
        /\ truth' = truth /\ truthTr' = truthTr
    BY DEF wvars
  <1>2. Shape /\ Opened
    BY DEF CodecInv
  <1>3. PICK C, z : /\ Readable(fmt, file, OnTime(fmt, camera), truth, truthTr, start, C, z)
                    /\ Standing(file, start, C, z, off, st, got, ev, opt.want, gotTr, tr)
    BY <1>2 DEF Opened
  <1>4. Standing(file, start, C, z, off', st', got', ev', opt'.want, gotTr', tr')
    BY <1>3 DEF Goes
  <1>5. Readable(fmt, file, OnTime(fmt, camera), truth, truthTr, start, C, z)'
    BY <1>1, <1>3
  <1>6. Standing(file, start, C, z, off, st, got, ev, opt.want, gotTr, tr)'
    BY <1>1, <1>4
  <1>7. Opened'
    BY <1>5, <1>6 DEF Opened
  <1>8. Shape'
    BY <1>1, <1>2 DEF Shape
  <1> QED  BY <1>7, <1>8 DEF CodecInv

\* Without a correction the events pass as they were read.
LEMMA ShiftsNothing ==
  ASSUME NEW e \in Seq(Events), corr = 0
  PROVE  Shift(e) = e
  <1>1. \A v \in Events : [v EXCEPT !.t = @ + 0] = v
    BY DEF Events
  <1>2. \A i \in DOMAIN e : e[i] \in Events
    OBVIOUS
  <1>3. Shift(e) = [i \in DOMAIN e |-> [e[i] EXCEPT !.t = @ + 0]]
    BY DEF Shift
  <1>4. Shift(e) = [i \in DOMAIN e |-> e[i]]
    BY <1>1, <1>2, <1>3
  <1> QED  BY <1>4

\* What the invariant says between and within the calls.
LEMMA OpenedFacts ==
  ASSUME CodecInv, pc # "write"
  PROVE  /\ fmt \in Formats /\ camera \in BOOLEAN /\ corr = 0 /\ opt \in Options
         /\ opt.cap \in Caps /\ opt.cap \in Nat /\ opt.cap >= Reserve + Pad * V
         /\ opt.want \in BOOLEAN /\ TCap \in Nat /\ TCap >= Pad
         /\ file \in Seq(Words) /\ NW \in Nat /\ off \in start .. NW /\ start \in 0 .. NW
         /\ st \in States
         /\ got \in Seq(Events) /\ ev \in Seq(Events) /\ tr \in Seq(Triggers)
         /\ opt.want => gotTr \in Seq(Triggers)
         /\ WithinCapacity
  <1>1. Shape /\ Opened
    BY DEF CodecInv
  <1>2. PICK C, z : /\ Readable(fmt, file, OnTime(fmt, camera), truth, truthTr, start, C, z)
                    /\ Standing(file, start, C, z, off, st, got, ev, opt.want, gotTr, tr)
    BY <1>1 DEF Opened
  <1>3. opt \in Options /\ opt.want \in BOOLEAN /\ fmt \in Formats /\ camera \in BOOLEAN /\ corr = 0
    BY <1>1 DEF Shape, Options
  <1>4. opt.cap \in Caps /\ opt.cap \in Nat /\ opt.cap >= Reserve + Pad * V
        /\ TCap \in Nat /\ TCap >= Pad
    <2>1. opt.cap \in Caps
      BY <1>1 DEF Opened
    <2> QED  BY <2>1, CodecAssumption
  <1>5. file \in Seq(Words) /\ start \in 0 .. NW /\ NW \in Nat
    BY <1>2 DEF Readable, NW
  <1>6. /\ off \in start .. NW /\ st \in States
        /\ got \in Seq(Events) /\ ev \in Seq(Events) /\ tr \in Seq(Triggers)
    BY <1>2 DEF Standing, NW
  <1>7. opt.want => gotTr \in Seq(Triggers)
    BY <1>2 DEF Standing, At
  <1>8. WithinCapacity
    BY <1>1 DEF Opened
  <1> QED  BY <1>3, <1>4, <1>5, <1>6, <1>7, <1>8

\* The start of a call keeps it: its buffers are empty.
LEMMA CallKeeps ==
  ASSUME CodecInv, Call
  PROVE  CodecInv'
  <1>1. /\ pc = "idle" /\ ev' = <<>> /\ tr' = <<>> /\ pc' = "loop"
        /\ UNCHANGED <<wvars, start, off, st, corr, got, gotTr>>
        /\ \E all \in IF opt.want THEN {FALSE} ELSE BOOLEAN : opt' = [opt EXCEPT !.all = all]
    BY DEF Call
  <1>2. /\ corr = 0 /\ opt \in Options /\ opt.cap \in Caps /\ opt.cap \in Nat /\ TCap \in Nat
    BY <1>1, OpenedFacts
  <1>3. ev = <<>> /\ tr = <<>>
    BY <1>1 DEF CodecInv, Opened
  <1>4. opt' \in Options /\ opt'.cap = opt.cap /\ opt'.want = opt.want
    <2>1. PICK all \in BOOLEAN : opt' = [opt EXCEPT !.all = all]
      BY <1>1
    <2> QED  BY <1>2, <2>1 DEF Options
  <1>5. Len(<<>>) = 0
    OBVIOUS
  <1>6. WithinCapacity'
    BY <1>1, <1>2, <1>4, <1>5 DEF WithinCapacity
  <1>7. \A C, z : Goes(C, z, off', st', got', ev', opt'.want, gotTr', tr')
    BY <1>1, <1>3, <1>4 DEF Goes
  <1> QED  BY <1>1, <1>2, <1>4, <1>6, <1>7, ReadKeeps

\* One parse_step of either loop moves on within its buffers.
LEMMA StepGoes ==
  ASSUME CodecInv, pc # "write", off < NW, NEW r, r = tr \/ (r = <<>> /\ ~ opt.want),
         NEW cap \in Nat, NEW tcap \in Nat,
         Len(ev) + Reserve + Pad * V <= cap, Len(r) + Pad <= tcap,
         NEW s, s = ParseInto(ParseFrom(off, st, ev, r), cap, tcap)
  PROVE  /\ off < s.pos /\ Len(s.ev) <= cap /\ Len(s.tr) <= tcap /\ s.ev \in Seq(Events)
         /\ \A C, z : Readable(fmt, file, OnTime(fmt, camera), truth, truthTr, start, C, z)
                        => Goes(C, z, s.pos, s.st, got, s.ev, opt.want, gotTr, s.tr)
  <1>1. fmt \in Formats
    BY OpenedFacts
  <1>2. s = ParseStep(fmt, file, ParseFrom(off, st, ev, r), cap, tcap, TailPad(fmt))
    BY DEF ParseInto
  <1>3. ASSUME NEW C, NEW z,
               Readable(fmt, file, OnTime(fmt, camera), truth, truthTr, start, C, z),
               Standing(file, start, C, z, off, st, got, ev, opt.want, gotTr, tr)
        PROVE  /\ Standing(file, start, C, z, s.pos, s.st, got, s.ev, opt.want, gotTr, s.tr)
               /\ off < s.pos /\ Len(s.ev) <= cap /\ Len(s.tr) <= tcap /\ s.ev \in Seq(Events)
    <2>1. Standing(file, start, C, z, off, st, got, ev, opt.want, gotTr, r)
      BY <1>3, Drops
    <2>2. off < Len(file)
      BY DEF NW
    <2>3. PICK want : want = opt.want
      OBVIOUS
    <2>4. PICK on : on = OnTime(fmt, camera)
      OBVIOUS
    <2>5. /\ Standing(file, start, C, z, s.pos, s.st, got, s.ev, want, gotTr, s.tr)
          /\ off < s.pos /\ Len(s.ev) <= cap /\ Len(s.tr) <= tcap
      <3>1. Readable(fmt, file, on, truth, truthTr, start, C, z)
        BY <1>3, <2>4
      <3>2. Standing(file, start, C, z, off, st, got, ev, want, gotTr, r)
        BY <2>1, <2>3
      <3> QED  BY <1>1, <1>2, <2>2, <3>1, <3>2, ParsesOn
    <2>6. s.ev \in Seq(Events)
      BY <2>5 DEF Standing
    <2> QED  BY <2>3, <2>5, <2>6
  <1>4. \A C, z : Readable(fmt, file, OnTime(fmt, camera), truth, truthTr, start, C, z)
                    => Goes(C, z, s.pos, s.st, got, s.ev, opt.want, gotTr, s.tr)
    BY <1>3 DEF Goes
  <1>5. \E C, z : /\ Readable(fmt, file, OnTime(fmt, camera), truth, truthTr, start, C, z)
                  /\ Standing(file, start, C, z, off, st, got, ev, opt.want, gotTr, tr)
    BY DEF CodecInv, Opened
  <1> QED  BY <1>3, <1>4, <1>5

\* One turn of read_chunk's loop always moves on, so that it never gives up.
LEMMA ChunkMoves ==
  ASSUME CodecInv, ChunkStep
  PROVE  /\ pc = "loop" /\ pc' = "loop" /\ UNCHANGED <<wvars, opt, start, corr, got, gotTr>>
         /\ Len(ev') <= opt.cap /\ Len(tr') <= TCap
         /\ \A C, z : Readable(fmt, file, OnTime(fmt, camera), truth, truthTr, start, C, z)
                        => Goes(C, z, off', st', got, ev', opt.want, gotTr, tr')
  <1>1. /\ pc = "loop" /\ ~ opt.all
        /\ off < NW /\ ev = <<>> /\ ~ (opt.want /\ tr # <<>>)
        /\ UNCHANGED <<wvars, opt, start, corr>>
    BY DEF ChunkStep
  <1>2. PICK r : r = IF opt.want THEN tr ELSE <<>>
    OBVIOUS
  <1>3. PICK s : /\ s = ParseInto(ParseFrom(off, st, ev, r), opt.cap, TCap)
                 /\ off' = s.pos /\ st' = s.st
                 /\ IF s.ev = <<>> /\ s.pos = off
                    THEN Finish(s.ev, s.tr)
                    ELSE ev' = Shift(s.ev) /\ tr' = s.tr /\ UNCHANGED <<pc, got, gotTr>>
    BY <1>2 DEF ChunkStep
  <1>4. /\ opt.want \in BOOLEAN /\ opt.cap \in Nat /\ opt.cap >= Reserve + Pad * V
        /\ TCap \in Nat /\ TCap >= Pad /\ NW \in Nat /\ off \in start .. NW /\ corr = 0
    BY <1>1, OpenedFacts
  <1>5. r = <<>> /\ (r = tr \/ (r = <<>> /\ ~ opt.want))
    BY <1>1, <1>2, <1>4
  <1>6. Len(<<>>) = 0
    OBVIOUS
  <1>7. Len(ev) + Reserve + Pad * V <= opt.cap /\ Len(r) + Pad <= TCap
    <2>1. Reserve \in Nat /\ Pad \in Nat /\ V \in Nat
      BY Sizes
    <2>2. PICK n : n = Pad * V
      OBVIOUS
    <2>3. n \in Nat
      BY <2>1, <2>2
    <2>4. Len(ev) = 0 /\ Len(r) = 0
      BY <1>1, <1>5, <1>6
    <2>5. Len(ev) + Reserve + n <= opt.cap /\ Len(r) + Pad <= TCap
      BY <1>4, <2>1, <2>2, <2>3, <2>4
    <2> QED  BY <2>2, <2>5
  <1>8. /\ off < s.pos /\ Len(s.ev) <= opt.cap /\ Len(s.tr) <= TCap /\ s.ev \in Seq(Events)
        /\ \A C, z : Readable(fmt, file, OnTime(fmt, camera), truth, truthTr, start, C, z)
                       => Goes(C, z, s.pos, s.st, got, s.ev, opt.want, gotTr, s.tr)
    <2>1. PICK cap \in Nat, tcap \in Nat : cap = opt.cap /\ tcap = TCap
      BY <1>4
    <2>2. pc # "write"
      BY <1>1
    <2>3. Len(ev) + Reserve + Pad * V <= cap /\ Len(r) + Pad <= tcap
      BY <1>7, <2>1
    <2>4. s = ParseInto(ParseFrom(off, st, ev, r), cap, tcap)
      BY <1>3, <2>1
    <2>5. /\ off < s.pos /\ Len(s.ev) <= cap /\ Len(s.tr) <= tcap /\ s.ev \in Seq(Events)
          /\ \A C, z : Readable(fmt, file, OnTime(fmt, camera), truth, truthTr, start, C, z)
                         => Goes(C, z, s.pos, s.st, got, s.ev, opt.want, gotTr, s.tr)
      BY <1>1, <1>5, <2>2, <2>3, <2>4, StepGoes
    <2> QED  BY <2>1, <2>5
  <1>9. s.pos # off
    <2>1. off \in Int
      BY <1>4, OpenedFacts, <1>1
    <2> QED  BY <1>8, <2>1
  <1>10. Shift(s.ev) = s.ev
    BY <1>4, <1>8, ShiftsNothing
  <1>11. off' = s.pos /\ st' = s.st /\ ev' = s.ev /\ tr' = s.tr /\ UNCHANGED <<pc, got, gotTr>>
    BY <1>3, <1>9, <1>10
  <1> QED  BY <1>1, <1>8, <1>11

\* A parse within read_chunk keeps it.
LEMMA ChunkStepKeeps ==
  ASSUME CodecInv, ChunkStep
  PROVE  CodecInv'
  <1>1. /\ pc = "loop" /\ pc' = "loop" /\ UNCHANGED <<wvars, opt, start, corr, got, gotTr>>
        /\ Len(ev') <= opt.cap /\ Len(tr') <= TCap
        /\ \A C, z : Readable(fmt, file, OnTime(fmt, camera), truth, truthTr, start, C, z)
                       => Goes(C, z, off', st', got, ev', opt.want, gotTr, tr')
    BY ChunkMoves
  <1>2. corr = 0 /\ opt \in Options /\ opt.cap \in Caps
    BY <1>1, OpenedFacts
  <1>3. WithinCapacity'
    BY <1>1 DEF WithinCapacity
  <1>4. \A C, z : Readable(fmt, file, OnTime(fmt, camera), truth, truthTr, start, C, z)
                    => Goes(C, z, off', st', got', ev', opt'.want, gotTr', tr')
    BY <1>1
  <1> QED  BY <1>1, <1>2, <1>3, <1>4, ReadKeeps

\* A call hands out what is in its buffers.
LEMMA FinishKeeps ==
  ASSUME CodecInv, pc = "loop", Finish(ev, tr), UNCHANGED <<wvars, opt, start, off, st, corr>>
  PROVE  CodecInv'
  <1>1. /\ corr = 0 /\ opt \in Options /\ opt.cap \in Caps /\ opt.cap \in Nat /\ TCap \in Nat
    BY OpenedFacts
  <1>2. /\ got' = got \o ev /\ ev' = <<>> /\ tr' = <<>> /\ pc' = "idle"
        /\ gotTr' = IF opt.want THEN gotTr \o tr ELSE gotTr
    BY DEF Finish
  <1>3. Len(<<>>) = 0
    OBVIOUS
  <1>4. WithinCapacity'
    BY <1>1, <1>2, <1>3 DEF WithinCapacity
  <1>5. ASSUME NEW C, NEW z,
               Standing(file, start, C, z, off, st, got, ev, opt.want, gotTr, tr)
        PROVE  Standing(file, start, C, z, off', st', got', ev', opt'.want, gotTr', tr')
    <2>1. Standing(file, start, C, z, off, st, got \o ev, <<>>, opt.want,
                   IF opt.want THEN gotTr \o tr ELSE gotTr, <<>>)
      BY <1>5, Hands
    <2> QED  BY <1>2, <2>1
  <1>6. \A C, z : Goes(C, z, off', st', got', ev', opt'.want, gotTr', tr')
    BY <1>5 DEF Goes
  <1> QED  BY <1>1, <1>2, <1>4, <1>6, ReadKeeps

\* The return of read_chunk keeps it: what was parsed is handed out.
LEMMA ChunkReturnKeeps ==
  ASSUME CodecInv, ChunkReturn
  PROVE  CodecInv'
  <1>1. pc = "loop" /\ Finish(ev, tr) /\ UNCHANGED <<wvars, opt, start, off, st, corr>>
    BY DEF ChunkReturn
  <1> QED  BY <1>1, FinishKeeps

\* The return of read_all keeps it.
LEMMA AllReturnKeeps ==
  ASSUME CodecInv, AllReturn
  PROVE  CodecInv'
  <1>1. pc = "loop" /\ Finish(Shift(ev), tr) /\ UNCHANGED <<wvars, opt, start, off, st, corr>>
    BY DEF AllReturn
  <1>2. Shift(ev) = ev
    BY <1>1, OpenedFacts, ShiftsNothing
  <1> QED  BY <1>1, <1>2, FinishKeeps

\* A parse within read_all keeps it, with the buffers grown to the margin.
LEMMA AllStepKeeps ==
  ASSUME CodecInv, AllStep
  PROVE  CodecInv'
  <1>1. /\ pc = "loop" /\ opt.all /\ off < NW
        /\ UNCHANGED <<wvars, opt, start, corr, pc, got, gotTr>>
    BY DEF AllStep
  <1>2. PICK s : /\ s = ParseInto(ParseFrom(off, st, ev, tr), Len(ev) + Grow, Len(tr) + Grow)
                 /\ off' = s.pos /\ st' = s.st /\ ev' = s.ev /\ tr' = s.tr
    BY DEF AllStep
  <1>3. /\ corr = 0 /\ opt \in Options /\ opt.cap \in Caps
        /\ ev \in Seq(Events) /\ tr \in Seq(Triggers)
    BY <1>1, OpenedFacts
  <1>4. PICK cap \in Nat, tcap \in Nat :
          /\ cap = Len(ev) + Grow /\ tcap = Len(tr) + Grow
          /\ Len(ev) + Reserve + Pad * V <= cap /\ Len(tr) + Pad <= tcap
    <2>1. Reserve \in Nat /\ Pad \in Nat /\ V \in Nat /\ V >= 1
      BY Sizes
    <2>2. PICK n : n = Pad * V
      OBVIOUS
    <2>3. n \in Nat /\ Pad <= n
      <3>1. \A p, v \in Nat : v >= 1 => p * v \in Nat /\ p <= p * v
        BY SMTT(30)
      <3> QED  BY <2>1, <2>2, <3>1
    <2>4. Grow \in Nat /\ Grow >= Reserve + n
      BY <2>2, CodecAssumption
    <2>5. Len(ev) \in Nat /\ Len(tr) \in Nat
      BY <1>3
    <2>6. PICK cap \in Nat, tcap \in Nat : cap = Len(ev) + Grow /\ tcap = Len(tr) + Grow
      BY <2>4, <2>5
    <2>7. Len(ev) + Reserve + n <= cap /\ Len(tr) + Pad <= tcap
      BY <2>1, <2>3, <2>4, <2>5, <2>6
    <2> QED  BY <2>2, <2>6, <2>7
  <1>5. \A C, z : Readable(fmt, file, OnTime(fmt, camera), truth, truthTr, start, C, z)
                    => Goes(C, z, s.pos, s.st, got, s.ev, opt.want, gotTr, s.tr)
    <2>1. s = ParseInto(ParseFrom(off, st, ev, tr), cap, tcap)
      BY <1>2, <1>4
    <2>2. pc # "write"
      BY <1>1
    <2>3. PICK r : r = tr
      OBVIOUS
    <2>4. s = ParseInto(ParseFrom(off, st, ev, r), cap, tcap) /\ Len(r) + Pad <= tcap
      BY <1>4, <2>1, <2>3
    <2> QED  BY <1>1, <1>4, <2>2, <2>3, <2>4, StepGoes
  <1>6. \A C, z : Readable(fmt, file, OnTime(fmt, camera), truth, truthTr, start, C, z)
                    => Goes(C, z, off', st', got', ev', opt'.want, gotTr', tr')
    BY <1>1, <1>2, <1>5
  <1>7. WithinCapacity'
    BY <1>1 DEF WithinCapacity
  <1> QED  BY <1>1, <1>3, <1>6, <1>7, ReadKeeps

\* reset() keeps it: the decoder is back at the start of the reading.
LEMMA ResetKeeps ==
  ASSUME CodecInv, Reset
  PROVE  CodecInv'
  <1>1. /\ pc = "idle" /\ off' = start /\ st' = ParserInit /\ corr' = 0
        /\ got' = <<>> /\ gotTr' = <<>>
        /\ UNCHANGED <<wvars, opt, start, pc, ev, tr>>
    BY DEF Reset
  <1>2. /\ opt \in Options /\ opt.cap \in Caps /\ WithinCapacity
    BY <1>1, OpenedFacts
  <1>3. ev = <<>> /\ tr = <<>>
    BY <1>1 DEF CodecInv, Opened
  <1>4. WithinCapacity'
    BY <1>1, <1>2 DEF WithinCapacity
  <1>5. ASSUME NEW C, NEW z,
               Readable(fmt, file, OnTime(fmt, camera), truth, truthTr, start, C, z)
        PROVE  Standing(file, start, C, z, off', st', got', ev', opt'.want, gotTr', tr')
    <2>1. PICK want : want = opt.want
      OBVIOUS
    <2>2. Standing(file, start, C, z, start, ParserInit, <<>>, <<>>, want, <<>>, <<>>)
      BY <1>5, Starts
    <2> QED  BY <1>1, <1>3, <2>1, <2>2
  <1>6. \A C, z : Readable(fmt, file, OnTime(fmt, camera), truth, truthTr, start, C, z)
                    => Goes(C, z, off', st', got', ev', opt'.want, gotTr', tr')
    BY <1>5 DEF Goes
  <1> QED  BY <1>1, <1>2, <1>3, <1>4, <1>6, ReadKeeps

\* So every step keeps the invariant.
LEMMA CodecNext ==
  ASSUME CodecInv, [Next]_vars
  PROVE  CodecInv'
  <1>1. CASE Write
    BY <1>1, EncodeKeeps, CamTimeKeeps, CamEventsKeeps, CamTriggerKeeps, CamNoiseKeeps DEF Write
  <1>2. CASE Inside
    BY <1>2, ChunkStepKeeps, ChunkReturnKeeps, AllStepKeeps, AllReturnKeeps DEF Inside
  <1>3. CASE Open \/ Call \/ Reset
    BY <1>3, OpenKeeps, CallKeeps, ResetKeeps
  <1>4. CASE UNCHANGED vars
    <2>1. /\ fmt' = fmt /\ camera' = camera /\ now' = now /\ enc' = enc /\ file' = file
          /\ truth' = truth /\ truthTr' = truthTr /\ opt' = opt /\ start' = start /\ off' = off
          /\ st' = st /\ corr' = corr /\ pc' = pc /\ ev' = ev /\ tr' = tr
          /\ got' = got /\ gotTr' = gotTr
      BY <1>4 DEF vars, wvars, rvars
    <2>2. CASE pc = "write"
      <3>1. now' \in Nat /\ enc' \in Encs
            /\ Recorded(fmt, camera, now', enc', file', truth', truthTr')
        BY <2>1, <2>2 DEF CodecInv, Shape
      <3>2. UNCHANGED <<fmt, camera, rvars>>
        BY <2>1 DEF rvars
      <3> QED  BY <2>2, <3>1, <3>2, WriteKeeps
    <2>3. CASE pc # "write"
      <3>1. /\ opt \in Options /\ opt.cap \in Caps /\ WithinCapacity /\ corr = 0
            /\ pc \in {"idle", "loop"}
            /\ pc = "idle" => ev = <<>> /\ tr = <<>>
        BY <2>3, OpenedFacts DEF CodecInv, Shape, Opened
      <3>2. WithinCapacity'
        BY <2>1, <3>1 DEF WithinCapacity
      <3>3. \A C, z : Goes(C, z, off', st', got', ev', opt'.want, gotTr', tr')
        BY <2>1 DEF Goes
      <3>4. UNCHANGED wvars
        BY <1>4 DEF vars
      <3> QED  BY <2>1, <2>3, <3>1, <3>2, <3>3, <3>4, ReadKeeps
    <2> QED  BY <2>2, <2>3
  <1> QED  BY <1>1, <1>2, <1>3, <1>4 DEF Next

-----------------------------------------------------------------------------
(* What follows from it.                                                   *)

\* The invariant gives the type invariant.
LEMMA CodecTypes ==
  ASSUME CodecInv
  PROVE  TypeOK
  <1>1. /\ fmt \in Formats /\ camera \in BOOLEAN /\ now \in Nat /\ enc \in Encs
        /\ pc \in {"write", "idle", "loop"} /\ opt \in Options
    BY DEF CodecInv, Shape
  <1>2. DOMAIN enc = {"high", "low", "y"}
    BY <1>1 DEF Encs
  <1>3. opt.cap \in Caps \cup {0} /\ opt.want \in BOOLEAN /\ opt.all \in BOOLEAN
    BY <1>1 DEF Options
  <1>4. /\ file \in Seq(Words) /\ start \in 0 .. NW /\ off \in start .. NW /\ st \in States
        /\ WithinCapacity
    <2>1. CASE pc = "write"
      <3>1. file \in Seq(Words) /\ Unopened
        BY <2>1 DEF CodecInv, Recorded
      <3>2. NW \in Nat /\ start = 0 /\ off = 0 /\ 0 \in 0 .. NW
        BY <3>1 DEF NW, Unopened
      <3>3. ParserInit \in States
        BY PeriodFacts, Sizes DEF ParserInit, States
      <3>4. Len(<<>>) = 0
        OBVIOUS
      <3>5. TCap \in Nat /\ \A c \in Caps : c \in Nat
        BY CodecAssumption
      <3>6. opt.cap \in Nat
        BY <1>3, <3>5
      <3>7. WithinCapacity
        BY <3>1, <3>4, <3>5, <3>6 DEF WithinCapacity, Unopened
      <3> QED  BY <3>1, <3>2, <3>3, <3>7 DEF Unopened
    <2>2. CASE pc # "write"
      BY <2>2, OpenedFacts
    <2> QED  BY <2>1, <2>2
  <1>5. \A i \in 1 .. NW : file[i].k = "high" => file[i].v \in 0 .. H - 1
    <2>1. \A i \in 1 .. NW : file[i] \in Words
      BY <1>4 DEF NW
    <2> QED  BY <2>1, WordFields
  <1>6. st.high \in 0 .. H - 1 /\ st.hh % Period = 0
    <2>1. st.high \in 0 .. H - 1 /\ st.hh \in Multiples
      BY <1>4 DEF States
    <2> QED  BY <2>1, PeriodFacts
  <1> QED  BY <1>1, <1>2, <1>3, <1>4, <1>5, <1>6 DEF TypeOK

\* On a recording within the decoder's reach it gives the round trip.
LEMMA CodecHandsOut ==
  ASSUME CodecInv, OnTime(fmt, camera)
  PROVE  Faithful /\ Complete
  <1>1. CASE pc = "write"
    <2>1. /\ ev = <<>> /\ tr = <<>> /\ got = <<>> /\ gotTr = <<>>
          /\ truth \in Seq(Events) /\ truthTr \in Seq(Triggers)
      BY <1>1 DEF CodecInv, Unopened, Recorded
    <2>2. <<>> \o <<>> = <<>> /\ Len(<<>>) = 0
      OBVIOUS
    <2>3. Begins(got \o ev, truth) /\ Begins(gotTr \o tr, truthTr)
      <3>1. Len(truth) \in Nat /\ Len(truthTr) \in Nat
        BY <2>1
      <3>2. Begins(<<>>, truth) /\ Begins(<<>>, truthTr)
        BY <2>2, <3>1 DEF Begins
      <3> QED  BY <2>1, <2>2, <3>2
    <2> QED  BY <1>1, <2>3 DEF Faithful, Complete
  <1>2. CASE pc # "write"
    <2>1. PICK C, z : /\ Readable(fmt, file, TRUE, truth, truthTr, start, C, z)
                      /\ Standing(file, start, C, z, off, st, got, ev, opt.want, gotTr, tr)
      <3>1. PICK C, z : /\ Readable(fmt, file, OnTime(fmt, camera), truth, truthTr, start, C, z)
                        /\ Standing(file, start, C, z, off, st, got, ev, opt.want, gotTr, tr)
        BY <1>2 DEF CodecInv, Opened
      <3>2. Readable(fmt, file, TRUE, truth, truthTr, start, C, z)
        BY <3>1 DEF Readable
      <3> QED  BY <3>1, <3>2
    <2>2. PICK want : want = opt.want
      OBVIOUS
    <2>3. /\ Begins(got \o ev, truth)
          /\ want => Begins(gotTr \o tr, truthTr)
          /\ off = Len(file) /\ ~ HasStray(file, z.pos) /\ ev = <<>> /\ tr = <<>> =>
               got = truth /\ (want => gotTr = truthTr)
      <3>1. Standing(file, start, C, z, off, st, got, ev, want, gotTr, tr)
        BY <2>1, <2>2
      <3>2. Handed(file, z, off, got, ev, want, gotTr, tr, truth, truthTr)
        BY <2>1, <3>1, HandedOut
      <3> QED  BY <3>2 DEF Handed
    <2>4. Faithful
      BY <2>2, <2>3 DEF Faithful
    <2>5. ASSUME pc = "idle", off = NW, Strays = {}
          PROVE  got = truth /\ (opt.want => gotTr = truthTr)
      <3>1. ev = <<>> /\ tr = <<>>
        BY <1>2, <2>5 DEF CodecInv, Opened
      <3>2. z.pos \in Nat /\ z.pos <= Len(file) /\ Len(file) \in Nat
        BY <2>1 DEF Readable, IsReading, Points
      <3>3. ~ HasStray(file, z.pos)
        <4>1. SUFFICES ASSUME NEW i \in 1 .. z.pos, Stray(file, i)
                       PROVE  FALSE
          BY DEF HasStray
        <4>2. i \in 3 .. NW
          BY <3>2, <4>1 DEF Stray, NW
        <4>3. i \in Strays
          BY <4>1, <4>2 DEF Stray, Strays
        <4> QED  BY <2>5, <4>3
      <3> QED  BY <2>2, <2>3, <2>5, <3>1, <3>3 DEF NW
    <2>6. Complete
      BY <2>5 DEF Complete
    <2> QED  BY <2>4, <2>6
  <1> QED  BY <1>1, <1>2

\* The invariant holds in every reachable state.
LEMMA CodecAlways ==
  Spec => []CodecInv
  <1>1. CodecInv /\ [Next]_vars => CodecInv'
    BY CodecNext
  <1> QED  BY CodecInit, <1>1, PTL DEF Spec

\* The types and bounds of the decoder's state, and that no parse of
\* evt2_parse_chunk_soa and its siblings writes beyond the end of a buffer of
\* read_chunk, whatever the recording and the chunk_size (at least 128).
THEOREM CodecTypeCorrect == Spec => []TypeOK
  <1>1. CodecInv => TypeOK
    BY CodecTypes
  <1> QED  BY CodecAlways, <1>1, PTL

\* The roundtrip, for every format and writer: what the calls of the decoder
\* handed out, with what is in its buffers, is the beginning of what was
\* written.  The one exception is the evt3 encoder, when the time between two
\* events is a multiple of the range of the low part: it then writes a high
\* part and no low part (see EvtCodec_same_low).
THEOREM CodecRoundtrip == Spec => [](OnTime(fmt, camera) => Faithful)
  <1>1. CodecInv => (OnTime(fmt, camera) => Faithful)
    BY CodecHandsOut
  <1> QED  BY CodecAlways, <1>1, PTL

\* The same for all formats and writers, where no time between two events
\* given to the encoder is such a multiple.
THEOREM CodecFaithful ==
  ASSUME LowMoves
  PROVE  Spec => []Faithful
  <1>1. CodecInv => Faithful
    BY CodecHandsOut DEF OnTime
  <1> QED  BY CodecAlways, <1>1, PTL

\* At the end of a recording without vector words out of place everything was
\* handed out, events and triggers: the padding at the end of the chunk, a
\* full buffer and a group cut in two lose nothing.
THEOREM CodecComplete == Spec => [](OnTime(fmt, camera) => Complete)
  <1>1. CodecInv => (OnTime(fmt, camera) => Complete)
    BY CodecHandsOut
  <1> QED  BY CodecAlways, <1>1, PTL

\* What is longer by something is not the same.
LEMMA ReturnsSome ==
  ASSUME NEW S, NEW a \in Seq(S), NEW b \in Seq(S), b # <<>>
  PROVE  a \o b # a
  <1>1. Len(a \o b) = Len(a) + Len(b) /\ Len(a) \in Nat /\ Len(b) \in Nat
    OBVIOUS
  <1>2. Len(b) # 0
    OBVIOUS
  <1>3. Len(a \o b) # Len(a)
    BY <1>1, <1>2
  <1> QED  BY <1>3

\* A call of read_chunk hands out something, or it stands at the end of the
\* recording: an empty chunk means the end to EventStreamer, and parse_step,
\* which stops short of the end of its buffers and of the padding, never
\* returns without having moved.
THEOREM CodecEmptyMeansEnd == Spec => EmptyMeansEnd
  <1>1. ASSUME CodecInv, Next, pc = "loop", pc' = "idle"
        PROVE  got' # got \/ gotTr' # gotTr \/ off' = NW
    <2>1. ~ ChunkStep
      BY <1>1, ChunkMoves
    <2>2. CASE ChunkReturn
      <3>1. /\ off = NW \/ ev # <<>> \/ (opt.want /\ tr # <<>>)
            /\ Finish(ev, tr) /\ off' = off
        BY <2>2 DEF ChunkReturn
      <3>2. /\ got \in Seq(Events) /\ ev \in Seq(Events) /\ tr \in Seq(Triggers)
            /\ opt.want => gotTr \in Seq(Triggers)
        BY <1>1, OpenedFacts
      <3>3. CASE off = NW
        BY <3>1, <3>3
      <3>4. CASE ev # <<>>
        <4>1. got \o ev # got
          BY <3>2, <3>4, ReturnsSome
        <4> QED  BY <3>1, <4>1 DEF Finish
      <3>5. CASE opt.want /\ tr # <<>>
        <4>1. gotTr \o tr # gotTr
          BY <3>2, <3>5, ReturnsSome
        <4> QED  BY <3>1, <3>5, <4>1 DEF Finish
      <3> QED  BY <3>1, <3>3, <3>4, <3>5
    <2>3. CASE AllReturn
      BY <2>3 DEF AllReturn
    <2>4. ~ AllStep /\ ~ Write /\ ~ Open /\ ~ Call /\ ~ Reset
      BY <1>1 DEF AllStep, Write, Encode, CamTime, CamEvents, CamTrigger, CamNoise, Writing,
                  Open, Call, Reset
    <2> QED  BY <1>1, <2>1, <2>2, <2>3, <2>4 DEF Next, Inside
  <1>2. CodecInv /\ [Next]_vars =>
          [pc = "loop" /\ pc' = "idle" => got' # got \/ gotTr' # gotTr \/ off' = NW]_vars
    BY <1>1
  <1> QED  BY CodecAlways, <1>2, PTL DEF Spec, EmptyMeansEnd
=============================================================================
