---------------------------- MODULE ArrayLemmas -----------------------------
(***************************************************************************)
(* Induction on numbers, what it says about functions on words, and about  *)
(* concatenating a sequence of sequences: used in the other proofs.        *)
(***************************************************************************)
EXTENDS Arrays, WellFoundedInduction, TLAPS

\* Every set of numbers that is not empty has a least one: what induction is
\* done with here.
LEMMA LeastNumber ==
  ASSUME NEW T, T \subseteq Nat, T # {}
  PROVE  \E x \in T : \A y \in T : x <= y
  <1> DEFINE R == OpToRel(<, Nat)
  <1>1. IsWellFoundedOn(R, Nat)
    BY NatLessThanWellFounded
  <1>2. \A x, y \in Nat : y < x => <<y, x>> \in R
    BY DEF OpToRel
  <1> HIDE DEF R
  <1>3. \E x \in T : \A y \in T : ~ (<<y, x>> \in R)
    BY <1>1, WFMin
  <1>4. \A x, y \in T : ~ (<<y, x>> \in R) => x <= y
    BY <1>2
  <1> QED  BY <1>3, <1>4

\* A function on 0 .. n that does not go down in any step does not go down.
LEMMA Ascending ==
  ASSUME NEW n \in Nat, NEW f \in [0 .. n -> Nat], \A x \in 1 .. n : f[x - 1] <= f[x],
         NEW v \in 0 .. n, NEW w \in v .. n
  PROVE  f[v] <= f[w]
  <1> DEFINE Late == {x \in v .. n : f[x] < f[v]}
  <1>1. SUFFICES ASSUME f[w] < f[v]
                 PROVE  FALSE
    OBVIOUS
  <1>2. Late \subseteq Nat /\ w \in Late
    BY <1>1
  <1> HIDE DEF Late
  <1>3. PICK x \in Late : \A y \in Late : x <= y
    BY <1>2, LeastNumber
  <1>4. x \in v .. n /\ f[x] < f[v] /\ x # v
    BY <1>3 DEF Late
  <1>5. x - 1 \in v .. n /\ f[x - 1] <= f[x]
    BY <1>4
  <1>6. x - 1 \in Late
    BY <1>4, <1>5 DEF Late
  <1> QED  BY <1>2, <1>3, <1>4, <1>6

\* One that goes up by one in each step is the identity.
LEMMA OneByOne ==
  ASSUME NEW n \in Nat, NEW f \in [0 .. n -> Nat], f[0] = 0,
         \A x \in 1 .. n : f[x] - f[x - 1] = 1, NEW w \in 0 .. n
  PROVE  f[w] = w
  <1> DEFINE Odd == {x \in 0 .. n : f[x] # x}
  <1>1. SUFFICES ASSUME f[w] # w
                 PROVE  FALSE
    OBVIOUS
  <1>2. Odd \subseteq Nat /\ w \in Odd
    BY <1>1
  <1> HIDE DEF Odd
  <1>3. PICK x \in Odd : \A y \in Odd : x <= y
    BY <1>2, LeastNumber
  <1>4. x \in 1 .. n /\ f[x] # x
    BY <1>3 DEF Odd
  <1>5. f[x] - f[x - 1] = 1
    BY <1>4
  <1>6. x - 1 \in Odd
    BY <1>4, <1>5 DEF Odd
  <1> QED  BY <1>2, <1>3, <1>4, <1>6

\* If f counts the events up to each word, event i is in the first word that
\* reaches it.
LEMMA WordOfEvent ==
  ASSUME NEW n \in Nat, NEW f \in [0 .. n -> Nat], f[0] = 0, NEW i \in 1 .. f[n]
  PROVE  \E w \in 1 .. n : f[w - 1] < i /\ i <= f[w]
  <1> DEFINE From == {x \in 0 .. n : i <= f[x]}
  <1>1. From \subseteq Nat /\ From # {}
    OBVIOUS
  <1> HIDE DEF From
  <1>2. PICK w \in From : \A y \in From : w <= y
    BY <1>1, LeastNumber
  <1>3. w \in 1 .. n /\ i <= f[w]
    BY <1>2 DEF From
  <1>4. w - 1 \notin From
    BY <1>1, <1>2, <1>3
  <1>5. f[w - 1] < i
    BY <1>3, <1>4 DEF From
  <1> QED  BY <1>3, <1>5

\* The same, as it is used.
LEMMA EventWord ==
  ASSUME NEW n \in Nat, NEW f \in [0 .. n -> Nat], f[0] = 0, NEW i \in Nat, 0 < i, i <= f[n]
  PROVE  \E w \in 1 .. n : f[w - 1] \in Nat /\ f[w] \in Nat /\ i \in f[w - 1] + 1 .. f[w]
  <1>1. f[n] \in Nat
    OBVIOUS
  <1>2. i \in 1 .. f[n]
    BY <1>1
  <1>3. PICK w \in 1 .. n : f[w - 1] < i /\ i <= f[w]
    BY <1>2, WordOfEvent
  <1>4. f[w - 1] \in Nat /\ f[w] \in Nat
    OBVIOUS
  <1>5. i \in f[w - 1] + 1 .. f[w]
    BY <1>3, <1>4
  <1> QED  BY <1>4, <1>5

\* Timestamps do not go back when each is the clock g at the end of its word.
LEMMA TimesAscend ==
  ASSUME NEW n \in Nat, NEW f \in [0 .. n -> Nat], f[0] = 0,
         \A x, y \in 0 .. n : x <= y => f[x] <= f[y],
         NEW g \in [0 .. n -> Nat], \A x \in 1 .. n : g[x - 1] <= g[x],
         NEW h, \A x \in 1 .. n : \A e \in f[x - 1] + 1 .. f[x] : h[e] = g[x],
         NEW i \in Nat, NEW j \in Nat, 0 < i, i <= j, j <= f[n]
  PROVE  h[i] <= h[j]
  <1>1. f[n] \in Nat /\ 0 < j /\ i <= f[n]
    OBVIOUS
  <1>2. PICK v \in 1 .. n : f[v - 1] \in Nat /\ f[v] \in Nat /\ i \in f[v - 1] + 1 .. f[v]
    BY <1>1, EventWord
  <1>3. PICK w \in 1 .. n : f[w - 1] \in Nat /\ f[w] \in Nat /\ j \in f[w - 1] + 1 .. f[w]
    BY <1>1, EventWord
  <1>4. v <= w
    <2>1. SUFFICES ASSUME w <= v - 1
                   PROVE  FALSE
      OBVIOUS
    <2>2. f[w] <= f[v - 1]
      BY <2>1
    <2>3. f[v - 1] < i /\ j <= f[w]
      BY <1>2, <1>3
    <2> QED  BY <1>2, <1>3, <2>2, <2>3
  <1>5. v \in 0 .. n /\ w \in v .. n
    BY <1>4
  <1>6. g[v] <= g[w]
    BY <1>5, Ascending
  <1>7. h[i] = g[v] /\ h[j] = g[w]
    BY <1>2, <1>3
  <1> QED  BY <1>6, <1>7

-----------------------------------------------------------------------------
(* Concatenating a sequence of sequences.                                   *)

\* The concatenations of the first i members of ss, for i up to n.
Upto(u, ss, n) == u = [i \in 0 .. n |-> IF i = 0 THEN <<>> ELSE u[i - 1] \o ss[i]]

\* u[i] is x longer than the one before it.
Extends(u, x, i) == u[i] = u[i - 1] \o x

\* What they are.
LEMMA UptoFacts ==
  ASSUME NEW n \in Nat, NEW ss, NEW u, Upto(u, ss, n)
  PROVE  /\ u[0] = <<>>
         /\ \A i \in 1 .. n : Extends(u, ss[i], i)
  <1> DEFINE g == [i \in 0 .. n |-> IF i = 0 THEN <<>> ELSE u[i - 1] \o ss[i]]
  <1>1. u = g
    BY DEF Upto
  <1>2. g[0] = <<>>
    OBVIOUS
  <1>3. ASSUME NEW i \in 1 .. n
        PROVE  g[i] = u[i - 1] \o ss[i]
    <2>1. i \in 0 .. n /\ i # 0
      OBVIOUS
    <2> QED  BY <2>1
  <1> HIDE DEF g
  <1> QED  BY <1>1, <1>2, <1>3 DEF Extends

\* From those for k - 1 come those for k.
LEMMA UptoNext ==
  ASSUME NEW k \in Nat, 0 < k, NEW ss, NEW u, Upto(u, ss, k - 1)
  PROVE  \E v : Upto(v, ss, k)
  <1> DEFINE v == [i \in 0 .. k |-> IF i = k THEN u[k - 1] \o ss[k] ELSE u[i]]
  <1>1. k - 1 \in Nat
    OBVIOUS
  <1>2. u[0] = <<>> /\ \A i \in 1 .. (k - 1) : Extends(u, ss[i], i)
    BY <1>1, UptoFacts
  <1>3. ASSUME NEW i \in 0 .. k
        PROVE  v[i] = IF i = 0 THEN <<>> ELSE v[i - 1] \o ss[i]
    <2>1. CASE i = 0
      BY <1>2, <2>1
    <2>2. CASE i \in 1 .. k - 1
      <3>1. v[i] = u[i] /\ v[i - 1] = u[i - 1] /\ i # 0
        BY <2>2
      <3> QED  BY <1>2, <2>2, <3>1 DEF Extends
    <2>3. CASE i = k
      <3>1. v[i] = u[k - 1] \o ss[k] /\ v[i - 1] = u[k - 1] /\ i # 0
        BY <2>3
      <3> QED  BY <2>3, <3>1
    <2> QED  BY <2>1, <2>2, <2>3
  <1>4. Upto(v, ss, k)
    BY <1>3 DEF Upto
  <1> QED  BY <1>4

\* There are such: if not for all of ss, then there is a first place where not.
LEMMA UptoExists ==
  ASSUME NEW n \in Nat, NEW ss
  PROVE  \E u : Upto(u, ss, n)
  <1> DEFINE Bad == {k \in Nat : ~ \E u : Upto(u, ss, k)}
  <1>1. SUFFICES ASSUME ~ \E u : Upto(u, ss, n)
                 PROVE  FALSE
    OBVIOUS
  <1>2. Bad # {} /\ Bad \subseteq Nat
    BY <1>1
  <1>3. PICK k \in Bad : \A x \in Bad : k <= x
    BY <1>2, LeastNumber
  <1>4. k \in Nat /\ ~ \E u : Upto(u, ss, k)
    BY <1>3
  <1>5. k # 0
    <2> DEFINE z == [i \in 0 .. 0 |-> <<>>]
    <2>1. \A i \in 0 .. 0 : (IF i = 0 THEN <<>> ELSE z[i - 1] \o ss[i]) = <<>>
      OBVIOUS
    <2>2. Upto(z, ss, 0)
      BY <2>1 DEF Upto
    <2> QED  BY <1>4, <2>2
  <1>6. k - 1 \in Nat /\ 0 < k
    BY <1>4, <1>5
  <1>7. k - 1 \notin Bad
    BY <1>3, <1>6
  <1>8. PICK u : Upto(u, ss, k - 1)
    BY <1>6, <1>7
  <1> QED  BY <1>4, <1>6, <1>8, UptoNext

\* Flat builds them.
LEMMA FlatUpto ==
  ASSUME NEW S, NEW ss \in Seq(S)
  PROVE  \E u : Flat(ss) = u[Len(ss)] /\ Upto(u, ss, Len(ss))
  <1> DEFINE U == CHOOSE u : Upto(u, ss, Len(ss))
  <1>1. Flat(ss) = U[Len(ss)]
    BY DEF Flat, Upto
  <1>2. Len(ss) \in Nat
    OBVIOUS
  <1>3. Upto(U, ss, Len(ss))
    BY <1>2, UptoExists
  <1> QED  BY <1>1, <1>3

\* Any that are built so are the same.
LEMMA UptoUnique ==
  ASSUME NEW n \in Nat, NEW u, NEW v, NEW ss, u[0] = v[0],
         \A i \in 1 .. n : Extends(u, ss[i], i),
         \A i \in 1 .. n : Extends(v, ss[i], i)
  PROVE  u[n] = v[n]
  <1> DEFINE Bad == {k \in 0 .. n : u[k] # v[k]}
  <1>1. SUFFICES ASSUME u[n] # v[n]
                 PROVE  FALSE
    OBVIOUS
  <1>2. Bad # {} /\ Bad \subseteq Nat
    BY <1>1
  <1>3. PICK k \in Bad : \A x \in Bad : k <= x
    BY <1>2, LeastNumber
  <1>4. k \in 1 .. n
    BY <1>3
  <1>5. k - 1 \in 0 .. n /\ k - 1 \notin Bad
    BY <1>2, <1>3, <1>4
  <1>6. Extends(u, ss[k], k) /\ Extends(v, ss[k], k)
    BY <1>4
  <1>7. u[k - 1] = v[k - 1]
    BY <1>5
  <1> QED  BY <1>3, <1>6, <1>7 DEF Extends

\* So what is built so is what Flat builds.
LEMMA FlatIs ==
  ASSUME NEW S, NEW ss \in Seq(S), NEW u, u[0] = <<>>,
         \A i \in 1 .. Len(ss) : Extends(u, ss[i], i)
  PROVE  Flat(ss) = u[Len(ss)]
  <1>1. PICK v : Flat(ss) = v[Len(ss)] /\ Upto(v, ss, Len(ss))
    BY FlatUpto
  <1>2. Len(ss) \in Nat
    OBVIOUS
  <1>3. v[0] = <<>> /\ \A i \in 1 .. Len(ss) : Extends(v, ss[i], i)
    BY <1>1, <1>2, UptoFacts
  <1>4. u[0] = v[0]
    BY <1>3
  <1>5. u[Len(ss)] = v[Len(ss)]
    BY <1>2, <1>3, <1>4, UptoUnique
  <1> QED  BY <1>1, <1>5

\* The other way round, for sequences of members of S.
LEMMA FlatSteps ==
  ASSUME NEW S, NEW ss \in Seq(Seq(S))
  PROVE  \E u \in [0 .. Len(ss) -> Seq(S)] :
            /\ u[0] = <<>> /\ Flat(ss) = u[Len(ss)]
            /\ \A i \in 1 .. Len(ss) : Extends(u, ss[i], i)
  <1>1. PICK u : Flat(ss) = u[Len(ss)] /\ Upto(u, ss, Len(ss))
    BY FlatUpto
  <1>2. Len(ss) \in Nat
    OBVIOUS
  <1>3. u[0] = <<>> /\ \A i \in 1 .. Len(ss) : Extends(u, ss[i], i)
    BY <1>1, <1>2, UptoFacts
  <1>4. u = [i \in 0 .. Len(ss) |-> u[i]]
    BY <1>1 DEF Upto
  <1> DEFINE Bad == {k \in 0 .. Len(ss) : u[k] \notin Seq(S)}
  <1>5. Bad = {}
    <2>1. SUFFICES ASSUME Bad # {}
                   PROVE  FALSE
      OBVIOUS
    <2>2. Bad \subseteq Nat
      BY <1>2
    <2>3. PICK k \in Bad : \A x \in Bad : k <= x
      BY <2>1, <2>2, LeastNumber
    <2>4. k \in 0 .. Len(ss) /\ u[k] \notin Seq(S)
      BY <2>3
    <2>5. <<>> \in Seq(S)
      OBVIOUS
    <2>6. k # 0
      BY <1>3, <2>4, <2>5
    <2>7. k \in 1 .. Len(ss)
      BY <1>2, <2>4, <2>6
    <2>8. k - 1 \in 0 .. Len(ss) /\ k - 1 \notin Bad
      BY <2>2, <2>3, <2>7
    <2>9. u[k - 1] \in Seq(S) /\ ss[k] \in Seq(S)
      BY <2>7, <2>8
    <2>10. u[k] = u[k - 1] \o ss[k]
      BY <1>3, <2>7 DEF Extends
    <2> QED  BY <2>4, <2>9, <2>10
  <1>6. \A i \in 0 .. Len(ss) : u[i] \in Seq(S)
    BY <1>5
  <1>7. u \in [0 .. Len(ss) -> Seq(S)]
    BY <1>4, <1>6
  <1> QED  BY <1>1, <1>3, <1>7

\* Concatenating sequences of members of S.
LEMMA FlatType ==
  ASSUME NEW S, NEW ss \in Seq(Seq(S))
  PROVE  Flat(ss) \in Seq(S)
  <1>1. PICK u \in [0 .. Len(ss) -> Seq(S)] : Flat(ss) = u[Len(ss)]
    BY FlatSteps
  <1> QED  BY <1>1

\* What Flat does with no sequence, and with one more behind the others.
LEMMA FlatEmpty == Flat(<<>>) = <<>>
  <1> DEFINE u == [i \in 0 .. 0 |-> <<>>]
  <1>1. <<>> \in Seq({}) /\ Len(<<>>) = 0
    OBVIOUS
  <1>2. u[0] = <<>>
    OBVIOUS
  <1>3. \A i \in 1 .. Len(<<>>) : Extends(u, <<>>[i], i)
    BY <1>1
  <1> HIDE DEF u
  <1>4. Flat(<<>>) = u[Len(<<>>)]
    BY <1>1, <1>2, <1>3, FlatIs
  <1> QED  BY <1>1, <1>2, <1>4

\* One sequence more, behind the others.
LEMMA FlatAppend ==
  ASSUME NEW S, NEW ss \in Seq(S), NEW x \in S
  PROVE  Flat(Append(ss, x)) = Flat(ss) \o x
  <1> DEFINE n == Len(ss)
             tt == Append(ss, x)
  <1>1. n \in Nat /\ n + 1 \in Nat /\ tt \in Seq(S) /\ Len(tt) = n + 1 /\ tt[n + 1] = x
        /\ \A i \in 1 .. n : tt[i] = ss[i]
    OBVIOUS
  <1> HIDE DEF tt
  <1>2. PICK u : Flat(tt) = u[Len(tt)] /\ Upto(u, tt, Len(tt))
    BY <1>1, FlatUpto
  <1>3. u[0] = <<>> /\ \A i \in 1 .. n + 1 : Extends(u, tt[i], i)
    BY <1>1, <1>2, UptoFacts
  <1>4. \A i \in 1 .. Len(ss) : Extends(u, ss[i], i)
    BY <1>1, <1>3
  <1>5. Flat(ss) = u[n]
    BY <1>3, <1>4, FlatIs
  <1>6. n + 1 \in 1 .. n + 1 /\ (n + 1) - 1 = n
    BY <1>1
  <1>7. Extends(u, x, n + 1)
    BY <1>1, <1>3, <1>6
  <1> QED  BY <1>1, <1>2, <1>5, <1>6, <1>7 DEF tt, Extends

\* The first of the sequences may be taken off.
LEMMA FlatTail ==
  ASSUME NEW S, NEW ss \in Seq(Seq(S)), ss # <<>>
  PROVE  Flat(ss) = Head(ss) \o Flat(Tail(ss))
  <1> DEFINE tt == Tail(ss)
             n == Len(tt)
  <1>1. /\ n \in Nat /\ tt \in Seq(Seq(S)) /\ Len(ss) = n + 1 /\ Head(ss) = ss[1]
        /\ Head(ss) \in Seq(S)
        /\ \A i \in 1 .. n : tt[i] = ss[i + 1]
    OBVIOUS
  <1>2. PICK u \in [0 .. n -> Seq(S)] :
              /\ u[0] = <<>> /\ Flat(tt) = u[n]
              /\ \A i \in 1 .. n : Extends(u, tt[i], i)
    BY <1>1, FlatSteps
  <1> HIDE DEF tt, n
  <1> DEFINE v == [i \in 0 .. n + 1 |-> IF i = 0 THEN <<>> ELSE ss[1] \o u[i - 1]]
  <1>3. v[0] = <<>>
    BY <1>1
  <1>4. ASSUME NEW i \in 1 .. n + 1
        PROVE  v[i] = ss[1] \o u[i - 1]
    <2>1. i \in 0 .. n + 1 /\ i # 0
      BY <1>1
    <2> QED  BY <2>1
  <1> HIDE DEF v
  <1>5. ASSUME NEW i \in 1 .. n + 1
        PROVE  Extends(v, ss[i], i)
    <2>1. CASE i = 1
      <3>1. v[1] = ss[1] \o u[0] /\ v[1 - 1] = <<>>
        <4>1. 1 \in 1 .. n + 1 /\ 1 - 1 = 0
          BY <1>1
        <4> QED  BY <1>3, <1>4, <4>1
      <3>2. ss[1] \o <<>> = ss[1] /\ <<>> \o ss[1] = ss[1]
        BY <1>1
      <3> QED  BY <1>2, <2>1, <3>1, <3>2 DEF Extends
    <2>2. CASE i # 1
      <3> DEFINE j == i - 1
      <3>1. j \in 1 .. n /\ j \in 1 .. n + 1 /\ j - 1 \in 0 .. n /\ j + 1 = i
        BY <1>1, <2>2
      <3>2. v[i] = ss[1] \o u[j] /\ v[j] = ss[1] \o u[j - 1]
        BY <1>4, <3>1
      <3>3. Extends(u, tt[j], j) /\ tt[j] = ss[j + 1]
        BY <1>1, <1>2, <3>1
      <3>4. u[j - 1] \in Seq(S) /\ ss[1] \in Seq(S)
        BY <1>1, <1>2, <3>1
      <3>5. tt[j] \in Seq(S)
        BY <1>1, <3>1 DEF n
      <3>6. \A a, b, c \in Seq(S) : (a \o b) \o c = a \o (b \o c)
        BY SMTT(30), ZenonT(30)
      <3>7. (ss[1] \o u[j - 1]) \o tt[j] = ss[1] \o (u[j - 1] \o tt[j])
        BY <3>4, <3>5, <3>6, Zenon
      <3> QED  BY <3>1, <3>2, <3>3, <3>7 DEF Extends
    <2> QED  BY <2>1, <2>2
  <1>6. Flat(ss) = v[Len(ss)]
    BY <1>1, <1>3, <1>5, FlatIs
  <1>7. n + 1 \in 1 .. n + 1 /\ (n + 1) - 1 = n
    BY <1>1
  <1>8. v[n + 1] = ss[1] \o u[n]
    BY <1>4, <1>7
  <1> QED  BY <1>1, <1>2, <1>6, <1>8 DEF tt

\* Every member of the concatenation is one of one of the sequences.
LEMMA FlatMember ==
  ASSUME NEW S, NEW ss \in Seq(Seq(S)), NEW j \in 1 .. Len(Flat(ss))
  PROVE  \E i \in 1 .. Len(ss) : \E l \in 1 .. Len(ss[i]) : Flat(ss)[j] = ss[i][l]
  <1> DEFINE From(x) == \E i \in 1 .. Len(ss) : \E l \in 1 .. Len(ss[i]) : x = ss[i][l]
             n == Len(ss)
  <1>1. PICK u \in [0 .. n -> Seq(S)] :
              /\ u[0] = <<>> /\ Flat(ss) = u[n]
              /\ \A i \in 1 .. n : Extends(u, ss[i], i)
    BY FlatSteps
  <1>2. n \in Nat
    OBVIOUS
  <1> DEFINE All(k) == \A m \in 1 .. Len(u[k]) : From(u[k][m])
             Bad == {k \in 0 .. n : ~All(k)}
  <1> HIDE DEF From
  <1>3. SUFFICES ASSUME Bad # {}
                 PROVE  FALSE
    <2>1. All(n)
      BY <1>2
    <2>2. From(Flat(ss)[j])
      BY <1>1, <2>1
    <2> QED  BY <2>2 DEF From
  <1>4. Bad \subseteq Nat
    BY <1>2
  <1>5. PICK k \in Bad : \A x \in Bad : k <= x
    BY <1>3, <1>4, LeastNumber
  <1>6. k \in 0 .. n /\ ~All(k)
    BY <1>5
  <1>7. All(0)
    BY <1>1
  <1>8. k \in 1 .. n
    <2>1. k # 0
      BY <1>6, <1>7
    <2> QED  BY <1>2, <1>6, <2>1
  <1>9. k - 1 \in 0 .. n
    BY <1>2, <1>8
  <1>10. All(k - 1)
    <2>1. SUFFICES ASSUME k - 1 \in Bad
                   PROVE  FALSE
      BY <1>9
    <2> HIDE DEF Bad
    <2> QED  BY <1>4, <1>5, <1>8, <2>1
  <1>11. Extends(u, ss[k], k)
    BY <1>1, <1>8
  <1>12. u[k - 1] \in Seq(S) /\ ss[k] \in Seq(S)
    <2>1. ss[k] \in Seq(S)
      BY <1>8
    <2>2. u[k - 1] \in Seq(S)
      BY <1>1, <1>9
    <2> QED  BY <2>1, <2>2
  <1> DEFINE a == u[k - 1]
             b == u[k]
             c == ss[k]
  <1>13. ASSUME NEW m \in 1 .. Len(b)
         PROVE  From(b[m])
    <2>1. a \in Seq(S) /\ c \in Seq(S) /\ b = a \o c
      BY <1>11, <1>12 DEF Extends
    <2>2. \A l \in 1 .. Len(a) : From(a[l])
      BY <1>10
    <2>3. \A l \in 1 .. Len(c) : From(c[l])
      BY <1>8 DEF From
    <2> HIDE DEF a, b, c
    <2>4. CASE m <= Len(a)
      <3>1. m \in 1 .. Len(a) /\ b[m] = a[m]
        BY <2>1, <2>4
      <3> QED  BY <2>2, <3>1
    <2>5. CASE m > Len(a)
      <3>1. m - Len(a) \in 1 .. Len(c) /\ b[m] = c[m - Len(a)]
        BY <2>1, <2>5
      <3> QED  BY <2>3, <3>1
    <2> QED  BY <2>1, <2>4, <2>5, SMTT(30), ZenonT(30)
  <1> QED  BY <1>6, <1>13

\* Two sequences with the same members.
LEMMA SameMembers ==
  ASSUME NEW S, NEW a \in Seq(S), NEW b \in Seq(S), Len(a) = Len(b),
         \A i \in 1 .. Len(a) : a[i] = b[i]
  PROVE  a = b
  OBVIOUS

\* Two sequences, one behind the other.
LEMMA Joined ==
  ASSUME NEW S, NEW a \in Seq(S), NEW b \in Seq(S)
  PROVE  /\ a \o b \in Seq(S) /\ Len(a \o b) = Len(a) + Len(b)
         /\ \A i \in 1 .. Len(a) : (a \o b)[i] = a[i]
         /\ \A i \in 1 .. Len(b) : (a \o b)[Len(a) + i] = b[i]
  OBVIOUS

\* One sequence alone.
LEMMA FlatOne ==
  ASSUME NEW S, NEW x \in Seq(S)
  PROVE  Flat(<<x>>) = x
  <1>1. <<>> \in Seq(Seq(S)) /\ Append(<<>>, x) = <<x>>
    OBVIOUS
  <1>2. Flat(<<x>>) = Flat(<<>>) \o x
    BY <1>1, FlatAppend
  <1> QED  BY <1>2, FlatEmpty

\* The concatenation of two sequences of sequences.
LEMMA FlatConcat ==
  ASSUME NEW S, NEW a \in Seq(Seq(S)), NEW b \in Seq(Seq(S))
  PROVE  Flat(a \o b) = Flat(a) \o Flat(b)
  <1> DEFINE c == a \o b
             n == Len(a)
             m == Len(b)
  <1>1. /\ c \in Seq(Seq(S)) /\ n \in Nat /\ m \in Nat /\ Len(c) = n + m
        /\ \A i \in 1 .. n : c[i] = a[i]
        /\ \A i \in 1 .. m : c[n + i] = b[i]
    OBVIOUS
  <1>2. PICK u \in [0 .. Len(c) -> Seq(S)] :
              /\ u[0] = <<>> /\ Flat(c) = u[Len(c)]
              /\ \A i \in 1 .. Len(c) : Extends(u, c[i], i)
    BY <1>1, FlatSteps
  <1>3. PICK v \in [0 .. m -> Seq(S)] :
              /\ v[0] = <<>> /\ Flat(b) = v[m]
              /\ \A i \in 1 .. m : Extends(v, b[i], i)
    BY FlatSteps
  <1>4. \A i \in 1 .. n : Extends(u, a[i], i)
    <2> HIDE DEF c, n
    <2>1. \A i \in 1 .. n : i \in 1 .. Len(c) /\ c[i] = a[i]
      BY <1>1
    <2> QED  BY <1>2, <2>1
  <1>5. Flat(a) = u[n]
    BY <1>2, <1>4, FlatIs
  <1> HIDE DEF c, n, m
  <1> DEFINE Bad == {j \in 0 .. m : u[n + j] # u[n] \o v[j]}
  <1>6. Bad = {}
    <2>1. SUFFICES ASSUME Bad # {}
                   PROVE  FALSE
      OBVIOUS
    <2>2. Bad \subseteq Nat
      BY <1>1
    <2>3. PICK j \in Bad : \A y \in Bad : j <= y
      BY <2>1, <2>2, LeastNumber
    <2>4. j \in 0 .. m /\ u[n + j] # u[n] \o v[j]
      BY <2>3
    <2>5. j # 0
      <3>1. u[n] \in Seq(S)
        BY <1>1, <1>2
      <3>2. u[n + 0] = u[n] \o <<>>
        BY <1>1, <3>1
      <3> QED  BY <1>3, <2>4, <3>2
    <2>6. j - 1 \in 0 .. m /\ j \in 1 .. m /\ n + j \in 1 .. Len(c) /\ (n + j) - 1 = n + (j - 1)
          /\ (n + j) - 1 \in 0 .. Len(c) /\ n \in 0 .. Len(c)
      BY <1>1, <2>4, <2>5
    <2>7. u[n + (j - 1)] = u[n] \o v[j - 1]
      <3>1. j - 1 \notin Bad
        BY <2>2, <2>3, <2>6, SMTT(30), ZenonT(30)
      <3> QED  BY <2>6, <3>1
    <2>8. Extends(u, c[n + j], n + j) /\ Extends(v, b[j], j) /\ c[n + j] = b[j]
      BY <1>1, <1>2, <1>3, <2>6
    <2>9. u[n + j] = (u[n] \o v[j - 1]) \o b[j] /\ v[j] = v[j - 1] \o b[j]
      <3>1. u[n + j] = u[(n + j) - 1] \o c[n + j]
        BY <2>8, Zenon DEF Extends
      <3>2. v[j] = v[j - 1] \o b[j]
        BY <2>8, Zenon DEF Extends
      <3>3. u[(n + j) - 1] = u[n] \o v[j - 1]
        BY <2>6, <2>7
      <3> QED  BY <2>8, <3>1, <3>2, <3>3
    <2>10. u[n] \in Seq(S) /\ v[j - 1] \in Seq(S) /\ b[j] \in Seq(S)
      <3>1. b[j] \in Seq(S)
        BY <2>6 DEF m
      <3> QED  BY <1>2, <1>3, <2>6, <3>1
    <2>11. \A x, y, z \in Seq(S) : (x \o y) \o z = x \o (y \o z)
      BY SMTT(30), ZenonT(30)
    <2>12. (u[n] \o v[j - 1]) \o b[j] = u[n] \o (v[j - 1] \o b[j])
      BY <2>10, <2>11, Zenon
    <2> QED  BY <2>4, <2>9, <2>12
  <1>7. m \in 0 .. m
    BY <1>1
  <1>8. u[n + m] = u[n] \o v[m]
    BY <1>6, <1>7
  <1> QED  BY <1>1, <1>2, <1>3, <1>5, <1>8 DEF c

\* Sequences of one member each.
LEMMA FlatSingles ==
  ASSUME NEW S, NEW s \in Seq(S), NEW ss \in Seq(Seq(S)), Len(ss) = Len(s),
         \A i \in 1 .. Len(s) : ss[i] = <<s[i]>>
  PROVE  Flat(ss) = s
  <1> DEFINE u == [k \in 0 .. Len(s) |-> SubSeq(s, 1, k)]
  <1>1. Len(s) \in Nat /\ u[0] = <<>> /\ u[Len(s)] = s
    OBVIOUS
  <1>2. ASSUME NEW i \in 1 .. Len(s)
        PROVE  Extends(u, ss[i], i)
    <2>1. i \in 0 .. Len(s) /\ i - 1 \in 0 .. Len(s)
      OBVIOUS
    <2>2. u[i] = SubSeq(s, 1, i) /\ u[i - 1] = SubSeq(s, 1, i - 1)
      BY <2>1
    <2>3. SubSeq(s, 1, i) = SubSeq(s, 1, i - 1) \o <<s[i]>>
      <3> DEFINE a == SubSeq(s, 1, i)
                 b == SubSeq(s, 1, i - 1)
                 c == b \o <<s[i]>>
      <3>1. a \in Seq(S) /\ Len(a) = i /\ \A j \in 1 .. i : a[j] = s[j]
        OBVIOUS
      <3>2. b \in Seq(S) /\ Len(b) = i - 1 /\ \A j \in 1 .. i - 1 : b[j] = s[j]
        OBVIOUS
      <3> HIDE DEF a, b
      <3>3. c \in Seq(S) /\ Len(c) = i
        BY <3>2
      <3>4. ASSUME NEW j \in 1 .. i
            PROVE  c[j] = s[j]
        BY <3>2
      <3> HIDE DEF c
      <3>5. a = c
        BY <3>1, <3>3, <3>4, SameMembers
      <3> QED  BY <3>5 DEF a, b, c
    <2> HIDE DEF u
    <2> QED  BY <2>2, <2>3 DEF Extends
  <1> HIDE DEF u
  <1>3. Flat(ss) = u[Len(ss)]
    BY <1>1, <1>2, FlatIs
  <1> QED  BY <1>1, <1>3

\* The length of two sequences joined.
LEMMA JoinLength ==
  ASSUME NEW S, NEW a \in Seq(S), NEW b \in Seq(S)
  PROVE  a \o b \in Seq(S) /\ Len(a \o b) = Len(a) + Len(b)
  OBVIOUS

\* A sequence and its two slices.
LEMMA Sliced ==
  ASSUME NEW S, NEW s \in Seq(S), NEW k \in 0 .. Len(s)
  PROVE  /\ Take(s, k) \in Seq(S) /\ Len(Take(s, k)) = k
         /\ Drop(s, k) \in Seq(S) /\ Len(Drop(s, k)) = Len(s) - k
         /\ s = Take(s, k) \o Drop(s, k)
         /\ \A i \in 1 .. k : Take(s, k)[i] = s[i]
         /\ \A i \in 1 .. Len(s) - k : Drop(s, k)[i] = s[k + i]
  <1>1. Take(s, k) \in Seq(S) /\ Len(Take(s, k)) = k
    BY DEF Take
  <1>2. Drop(s, k) \in Seq(S) /\ Len(Drop(s, k)) = Len(s) - k
    BY DEF Drop
  <1>3. /\ \A i \in 1 .. k : Take(s, k)[i] = s[i]
        /\ \A i \in 1 .. Len(s) - k : Drop(s, k)[i] = s[k + i]
    BY DEF Take, Drop
  <1> DEFINE a == Take(s, k)
             b == Drop(s, k)
  <1> HIDE DEF a, b
  <1>4. /\ a \in Seq(S) /\ Len(a) = k /\ b \in Seq(S) /\ Len(b) = Len(s) - k
        /\ \A i \in 1 .. k : a[i] = s[i]
        /\ \A i \in 1 .. Len(s) - k : b[i] = s[k + i]
    BY <1>1, <1>2, <1>3 DEF a, b
  <1>5. a \o b \in Seq(S) /\ Len(a \o b) = Len(s)
    <2>1. a \o b \in Seq(S) /\ Len(a \o b) = Len(a) + Len(b)
      BY <1>4, JoinLength
    <2>2. Len(s) \in Nat /\ k \in Nat
      OBVIOUS
    <2>3. k + (Len(s) - k) = Len(s)
      BY <2>2
    <2> QED  BY <1>4, <2>1, <2>3
  <1>6. ASSUME NEW i \in 1 .. Len(s)
        PROVE  (a \o b)[i] = s[i]
    <2>1. CASE i <= k
      BY <1>4, <2>1
    <2>2. CASE i > k
      <3> DEFINE j == i - k
      <3>1. j \in 1 .. Len(b) /\ k + j = i
        BY <1>4, <2>2
      <3>2. (a \o b)[i] = b[j]
        BY <1>4, <2>2, <3>1
      <3>3. j \in 1 .. Len(s) - k
        BY <1>4, <3>1
      <3> HIDE DEF j
      <3>4. b[j] = s[k + j]
        BY <1>4, <3>3
      <3>5. s[k + j] = s[i]
        BY <3>1
      <3> QED  BY <3>2, <3>4, <3>5
    <2>3. i <= k \/ i > k
      OBVIOUS
    <2> QED  BY <2>1, <2>2, <2>3
  <1> DEFINE c == a \o b
  <1> HIDE DEF c
  <1>7. c = s
    <2>1. c \in Seq(S) /\ Len(c) = Len(s) /\ \A i \in 1 .. Len(c) : c[i] = s[i]
      BY <1>5, <1>6 DEF c
    <2> QED  BY <2>1, SameMembers
  <1> QED  BY <1>1, <1>2, <1>3, <1>7 DEF a, b, c
=============================================================================
