---------------------------- MODULE StreamLemmas ----------------------------
(***************************************************************************)
(* What the operators on sequences of EventStreams do, for every sequence: *)
(* cutting and joining arrays that are in time order, and concatenating    *)
(* the pieces again.                                                       *)
(***************************************************************************)
EXTENDS EventStreams, ArrayLemmas, SequenceTheorems, TLAPS

Items == [n : Nat, t : Nat]

\* In time order.
Sorted(s) == \A i, j \in 1 .. Len(s) : i <= j => s[i].t <= s[j].t

\* The members of a sequence, and of pieces of it.
LEMMA SetFacts ==
  ASSUME NEW S, NEW s \in Seq(S)
  PROVE  /\ ToSet(s) = {s[i] : i \in 1 .. Len(s)}
         /\ ToSet(s) \subseteq S
         /\ s = <<>> <=> ToSet(s) = {}
  <1>1. ToSet(s) = {s[i] : i \in 1 .. Len(s)}
    BY DEF ToSet
  <1>2. ToSet(s) \subseteq S
    BY <1>1
  <1>3. ASSUME s # <<>>
        PROVE  ToSet(s) # {}
    <2>1. 1 \in 1 .. Len(s)
      BY <1>3
    <2> QED  BY <1>1, <2>1
  <1>4. ASSUME s = <<>>
        PROVE  ToSet(s) = {}
    <2>1. 1 .. Len(s) = {}
      BY <1>4
    <2> QED  BY <1>1, <2>1
  <1> QED  BY <1>1, <1>2, <1>3, <1>4

\* The members of two sequences, one behind the other.
LEMMA SetConcat ==
  ASSUME NEW S, NEW a \in Seq(S), NEW b \in Seq(S)
  PROVE  ToSet(a \o b) = ToSet(a) \cup ToSet(b)
  <1>1. a \o b \in Seq(S) /\ Len(a \o b) = Len(a) + Len(b)
    OBVIOUS
  <1>2. ASSUME NEW x \in ToSet(a \o b)
        PROVE  x \in ToSet(a) \cup ToSet(b)
    <2>1. PICK i \in 1 .. Len(a) + Len(b) : x = (a \o b)[i]
      BY <1>1 DEF ToSet
    <2>2. CASE i <= Len(a)
      BY <2>1, <2>2 DEF ToSet
    <2>3. CASE i > Len(a)
      <3>1. i - Len(a) \in 1 .. Len(b) /\ x = b[i - Len(a)]
        BY <2>1, <2>3
      <3> QED  BY <3>1 DEF ToSet
    <2> QED  BY <2>1, <2>2, <2>3
  <1>3. ASSUME NEW x \in ToSet(a)
        PROVE  x \in ToSet(a \o b)
    <2>1. PICK i \in 1 .. Len(a) : x = a[i]
      BY DEF ToSet
    <2>2. i \in 1 .. Len(a \o b) /\ (a \o b)[i] = x
      BY <1>1, <2>1
    <2> QED  BY <1>1, <2>2 DEF ToSet
  <1>4. ASSUME NEW x \in ToSet(b)
        PROVE  x \in ToSet(a \o b)
    <2>1. PICK i \in 1 .. Len(b) : x = b[i]
      BY DEF ToSet
    <2>2. Len(a) + i \in 1 .. Len(a \o b) /\ (a \o b)[Len(a) + i] = x
      BY <1>1, <2>1
    <2> QED  BY <1>1, <2>2 DEF ToSet
  <1> QED  BY <1>2, <1>3, <1>4

\* The two pieces a sequence is cut into.
LEMMA CutFacts ==
  ASSUME NEW S, NEW s \in Seq(S), NEW k \in 0 .. Len(s)
  PROVE  /\ Take(s, k) \in Seq(S) /\ Len(Take(s, k)) = k
         /\ Drop(s, k) \in Seq(S) /\ Len(Drop(s, k)) = Len(s) - k
         /\ \A i \in 1 .. k : Take(s, k)[i] = s[i]
         /\ \A i \in 1 .. Len(s) - k : Drop(s, k)[i] = s[k + i]
         /\ Take(s, k) \o Drop(s, k) = s
  <1>1. Take(s, k) \in Seq(S) /\ Len(Take(s, k)) = k
        /\ \A i \in 1 .. k : Take(s, k)[i] = s[i]
    BY DEF Take
  <1>2. Drop(s, k) \in Seq(S) /\ Len(Drop(s, k)) = Len(s) - k
        /\ \A i \in 1 .. Len(s) - k : Drop(s, k)[i] = s[k + i]
    BY DEF Drop
  <1>3. Take(s, k) \o Drop(s, k) = s
    <2> DEFINE a == Take(s, k)
               b == Drop(s, k)
    <2>1. /\ a \in Seq(S) /\ b \in Seq(S) /\ Len(a) = k /\ Len(b) = Len(s) - k
          /\ \A i \in 1 .. k : a[i] = s[i]
          /\ \A i \in 1 .. Len(s) - k : b[i] = s[k + i]
      BY <1>1, <1>2
    <2> HIDE DEF a, b
    <2>2. a \o b \in Seq(S) /\ Len(a \o b) = Len(s)
      <3>1. a \o b \in Seq(S) /\ Len(a \o b) = Len(a) + Len(b)
        <4>1. a \in Seq(S) /\ b \in Seq(S)
          BY <2>1
        <4> QED  BY <4>1
      <3>2. k + (Len(s) - k) = Len(s)
        OBVIOUS
      <3> QED  BY <2>1, <3>1, <3>2
    <2>3. ASSUME NEW i \in 1 .. Len(s)
          PROVE  (a \o b)[i] = s[i]
      <3>1. CASE i <= k
        BY <2>1, <3>1
      <3>2. CASE i > k
        <4>1. i - k \in 1 .. Len(s) - k /\ (a \o b)[i] = b[i - k] /\ k + (i - k) = i
          BY <2>1, <3>2
        <4> QED  BY <2>1, <4>1
      <3>3. i <= k \/ i > k
        BY <2>1
      <3> QED  BY <3>1, <3>2, <3>3
    <2>4. a \o b = s
      BY <2>2, <2>3, SeqEqual
    <2> QED  BY <2>4 DEF a, b
  <1> QED  BY <1>1, <1>2, <1>3

\* And of a sequence that is cut in two.
LEMMA SetCut ==
  ASSUME NEW S, NEW s \in Seq(S), NEW k \in 0 .. Len(s)
  PROVE  ToSet(s) = ToSet(Take(s, k)) \cup ToSet(Drop(s, k))
  <1>1. Take(s, k) \in Seq(S) /\ Drop(s, k) \in Seq(S) /\ Take(s, k) \o Drop(s, k) = s
    BY CutFacts
  <1>2. ToSet(Take(s, k) \o Drop(s, k)) = ToSet(Take(s, k)) \cup ToSet(Drop(s, k))
    BY <1>1, SetConcat, ZenonT(30), SMTT(30)
  <1> QED  BY <1>1, <1>2

\* What is sorted, and what is late enough behind it, is sorted.
LEMMA SortedConcat ==
  ASSUME NEW a \in Seq(Items), NEW b \in Seq(Items), Sorted(a), Sorted(b),
         \A x \in ToSet(a), y \in ToSet(b) : x.t <= y.t
  PROVE  Sorted(a \o b)
  <1>1. a \o b \in Seq(Items) /\ Len(a \o b) = Len(a) + Len(b)
    OBVIOUS
  <1>2. SUFFICES ASSUME NEW i \in 1 .. Len(a) + Len(b), NEW j \in 1 .. Len(a) + Len(b), i <= j
                 PROVE  (a \o b)[i].t <= (a \o b)[j].t
    BY <1>1 DEF Sorted
  <1>3. CASE j <= Len(a)
    BY <1>2, <1>3 DEF Sorted
  <1>4. CASE i > Len(a)
    <2>1. /\ i - Len(a) \in 1 .. Len(b) /\ j - Len(a) \in 1 .. Len(b)
          /\ i - Len(a) <= j - Len(a)
          /\ (a \o b)[i] = b[i - Len(a)] /\ (a \o b)[j] = b[j - Len(a)]
      BY <1>2, <1>4
    <2> QED  BY <2>1 DEF Sorted
  <1>5. CASE i <= Len(a) /\ j > Len(a)
    <2>1. /\ i \in 1 .. Len(a) /\ j - Len(a) \in 1 .. Len(b)
          /\ (a \o b)[i] = a[i] /\ (a \o b)[j] = b[j - Len(a)]
      BY <1>2, <1>5
    <2>2. a[i] \in ToSet(a) /\ b[j - Len(a)] \in ToSet(b)
      BY <2>1 DEF ToSet
    <2> QED  BY <2>1, <2>2
  <1> QED  BY <1>3, <1>4, <1>5

\* Pieces of it are sorted, and follow each other.
LEMMA SortedCut ==
  ASSUME NEW s \in Seq(Items), NEW k \in 0 .. Len(s), Sorted(s)
  PROVE  /\ Sorted(Take(s, k)) /\ Sorted(Drop(s, k))
         /\ \A x \in ToSet(Take(s, k)), y \in ToSet(Drop(s, k)) : x.t <= y.t
  <1> DEFINE u == Take(s, k)
             v == Drop(s, k)
  <1>1. /\ Len(s) \in Nat
        /\ u \in Seq(Items) /\ Len(u) = k
        /\ v \in Seq(Items) /\ Len(v) = Len(s) - k
        /\ \A i \in 1 .. k : u[i] = s[i]
        /\ \A i \in 1 .. Len(s) - k : v[i] = s[k + i]
    BY CutFacts
  <1> HIDE DEF u, v
  <1>2. Sorted(u)
    <2>1. SUFFICES ASSUME NEW i \in 1 .. k, NEW j \in 1 .. k, i <= j
                   PROVE  u[i].t <= u[j].t
      BY <1>1 DEF Sorted
    <2>2. i \in 1 .. Len(s) /\ j \in 1 .. Len(s) /\ u[i] = s[i] /\ u[j] = s[j]
      BY <1>1
    <2> QED  BY <2>1, <2>2 DEF Sorted
  <1>3. Sorted(v)
    <2>1. SUFFICES ASSUME NEW i \in 1 .. Len(s) - k, NEW j \in 1 .. Len(s) - k, i <= j
                   PROVE  v[i].t <= v[j].t
      BY <1>1 DEF Sorted
    <2>2. k + i \in 1 .. Len(s) /\ k + j \in 1 .. Len(s) /\ k + i <= k + j
      BY <2>1
    <2>3. v[i] = s[k + i] /\ v[j] = s[k + j]
      BY <1>1
    <2> QED  BY <2>2, <2>3 DEF Sorted
  <1>4. ASSUME NEW x \in ToSet(u), NEW y \in ToSet(v)
        PROVE  x.t <= y.t
    <2>1. PICK i \in 1 .. k : x = s[i]
      <3>1. PICK i \in 1 .. Len(u) : x = u[i]
        BY <1>1 DEF ToSet
      <3> QED  BY <1>1, <3>1
    <2>2. PICK j \in 1 .. Len(s) - k : y = s[k + j]
      BY <1>1, SMTT(30), ZenonT(30) DEF ToSet
    <2>3. i \in 1 .. Len(s) /\ k + j \in 1 .. Len(s) /\ i <= k + j
      OBVIOUS
    <2> QED  BY <2>1, <2>2, <2>3 DEF Sorted
  <1> QED  BY <1>2, <1>3, <1>4 DEF u, v

\* searchsorted finds the place that divides what is earlier from what is not.
LEMMA BeforeFacts ==
  ASSUME NEW s \in Seq(Items), NEW t \in Int, Sorted(s)
  PROVE  /\ Before(s, t) \in 0 .. Len(s)
         /\ \A j \in 1 .. Len(s) : s[j].t < t <=> j <= Before(s, t)
         /\ \A x \in ToSet(Take(s, Before(s, t))) : x.t < t
         /\ \A x \in ToSet(Drop(s, Before(s, t))) : t <= x.t
  <1> DEFINE Divides(i) == \A j \in 1 .. Len(s) : s[j].t < t <=> j <= i
             Late == {i \in 1 .. Len(s) + 1 : i = Len(s) + 1 \/ t <= s[i].t}
  <1>1. Len(s) \in Nat /\ \A j \in 1 .. Len(s) : s[j].t \in Nat
    <2>1. \A j \in 1 .. Len(s) : s[j] \in Items
      OBVIOUS
    <2> QED  BY <2>1 DEF Items
  <1>2. Len(s) + 1 \in Late /\ Late \subseteq Nat
    BY <1>1
  <1>3. PICK l \in Late : \A y \in Late : l <= y
    BY <1>2, LeastNumber
  <1>4. l - 1 \in 0 .. Len(s)
    BY <1>1, <1>3
  <1>5. ASSUME NEW j \in 1 .. Len(s)
        PROVE  s[j].t < t <=> j <= l - 1
    <2>1. CASE j <= l - 1
      <3>1. j \notin Late
        BY <1>1, <1>3, <2>1
      <3> QED  BY <1>1, <2>1, <3>1
    <2>2. CASE l <= j
      <3>1. l \in 1 .. Len(s) /\ t <= s[l].t
        BY <1>1, <1>3, <2>2
      <3>2. s[l].t <= s[j].t
        BY <2>2, <3>1 DEF Sorted
      <3> QED  BY <1>1, <1>4, <2>2, <3>1, <3>2
    <2>3. j <= l - 1 \/ l <= j
      BY <1>1, <1>4
    <2> QED  BY <2>1, <2>2, <2>3
  <1>6. \E i \in 0 .. Len(s) : Divides(i)
    BY <1>4, <1>5
  <1>7. Before(s, t) \in 0 .. Len(s) /\ Divides(Before(s, t))
    BY <1>6 DEF Before
  <1> DEFINE b == Before(s, t)
  <1>8. b \in 0 .. Len(s) /\ Divides(b)
    BY <1>7
  <1> HIDE DEF b
  <1> DEFINE u == Take(s, b)
             v == Drop(s, b)
  <1>9. /\ u \in Seq(Items) /\ Len(u) = b /\ v \in Seq(Items) /\ Len(v) = Len(s) - b
        /\ \A i \in 1 .. b : u[i] = s[i]
        /\ \A i \in 1 .. Len(s) - b : v[i] = s[b + i]
    BY <1>8, CutFacts
  <1> HIDE DEF u, v
  <1>10. ASSUME NEW x \in ToSet(u)
        PROVE  x.t < t
    <2>1. PICK i \in 1 .. b : x = s[i]
      <3>1. PICK i \in 1 .. Len(u) : x = u[i]
        BY <1>9, <1>10, SetFacts
      <3> QED  BY <1>9, <3>1
    <2> QED  BY <1>1, <1>8, <2>1
  <1>11. ASSUME NEW x \in ToSet(v)
         PROVE  t <= x.t
    <2>1. PICK i \in 1 .. Len(s) - b : x = s[b + i]
      <3>1. PICK i \in 1 .. Len(v) : x = v[i]
        BY <1>9, <1>11, SetFacts
      <3> QED  BY <1>9, <3>1
    <2>2. b + i \in 1 .. Len(s) /\ ~(b + i <= b)
      BY <1>1, <1>8
    <2> QED  BY <1>1, <1>8, <2>1, <2>2
  <1> QED  BY <1>7, <1>10, <1>11 DEF b, u, v

\* Cutting what was joined: behind the first part, or within it.
LEMMA CutConcat ==
  ASSUME NEW S, NEW a \in Seq(S), NEW b \in Seq(S)
  PROVE  /\ \A k \in 0 .. Len(b) : /\ Drop(a \o b, Len(a) + k) = Drop(b, k)
                                   /\ Take(a \o b, Len(a) + k) = a \o Take(b, k)
         /\ \A k \in 0 .. Len(a) : /\ Drop(a \o b, k) = Drop(a, k) \o b
                                   /\ Take(a \o b, k) = Take(a, k)
  <1> DEFINE c == a \o b
  <1>1. /\ c \in Seq(S) /\ Len(c) = Len(a) + Len(b) /\ Len(a) \in Nat /\ Len(b) \in Nat
        /\ \A i \in 1 .. Len(a) : c[i] = a[i]
        /\ \A i \in 1 .. Len(b) : c[Len(a) + i] = b[i]
    OBVIOUS
  <1> HIDE DEF c
  <1>2. ASSUME NEW k \in 0 .. Len(b)
        PROVE  Drop(c, Len(a) + k) = Drop(b, k)
    <2> DEFINE u == Drop(c, Len(a) + k)
               v == Drop(b, k)
    <2>1. Len(a) + k \in 0 .. Len(c)
      BY <1>1
    <2>2. /\ u \in Seq(S) /\ Len(u) = Len(c) - (Len(a) + k)
          /\ \A i \in 1 .. Len(c) - (Len(a) + k) : u[i] = c[Len(a) + k + i]
      BY <1>1, <2>1, CutFacts
    <2>3. /\ v \in Seq(S) /\ Len(v) = Len(b) - k
          /\ \A i \in 1 .. Len(b) - k : v[i] = b[k + i]
      BY CutFacts
    <2> HIDE DEF u, v
    <2>4. Len(u) = Len(v)
      BY <1>1, <2>2, <2>3
    <2>5. ASSUME NEW i \in 1 .. Len(u)
          PROVE  u[i] = v[i]
      <3>1. k + i \in 1 .. Len(b) /\ Len(a) + k + i = Len(a) + (k + i)
            /\ i \in 1 .. Len(b) - k /\ i \in 1 .. Len(c) - (Len(a) + k)
        BY <1>1, <2>2, <2>3, <2>4
      <3> QED  BY <1>1, <2>2, <2>3, <3>1
    <2>6. u = v
      BY <2>2, <2>3, <2>4, <2>5, SeqEqual
    <2> QED  BY <2>6 DEF u, v
  <1>3. ASSUME NEW k \in 0 .. Len(b)
        PROVE  Take(c, Len(a) + k) = a \o Take(b, k)
    <2> DEFINE u == Take(c, Len(a) + k)
               v == Take(b, k)
    <2>1. Len(a) + k \in 0 .. Len(c)
      BY <1>1
    <2>2. /\ u \in Seq(S) /\ Len(u) = Len(a) + k
          /\ \A i \in 1 .. Len(a) + k : u[i] = c[i]
      BY <1>1, <2>1, CutFacts
    <2>3. v \in Seq(S) /\ Len(v) = k /\ \A i \in 1 .. k : v[i] = b[i]
      BY CutFacts
    <2> HIDE DEF u, v
    <2> DEFINE w == a \o v
    <2>4. /\ w \in Seq(S) /\ Len(w) = Len(a) + k
          /\ \A i \in 1 .. Len(a) : w[i] = a[i]
          /\ \A i \in 1 .. k : w[Len(a) + i] = v[i]
      BY <2>3, SMTT(30), ZenonT(30)
    <2> HIDE DEF w
    <2>5. ASSUME NEW i \in 1 .. Len(u)
          PROVE  u[i] = w[i]
      <3>1. CASE i <= Len(a)
        BY <1>1, <2>2, <2>4, <3>1
      <3>2. CASE i > Len(a)
        <4> DEFINE j == i - Len(a)
        <4>1. j \in 1 .. k /\ j \in 1 .. Len(b) /\ i = Len(a) + j /\ i \in 1 .. Len(a) + k
          BY <1>1, <2>2, <3>2
        <4> HIDE DEF j
        <4>2. u[i] = c[Len(a) + j] /\ c[Len(a) + j] = b[j]
          BY <1>1, <2>2, <4>1
        <4>3. w[Len(a) + j] = v[j] /\ v[j] = b[j]
          BY <2>3, <2>4, <4>1
        <4> QED  BY <4>1, <4>2, <4>3
      <3>3. i <= Len(a) \/ i > Len(a)
        BY <1>1, <2>2
      <3> QED  BY <3>1, <3>2, <3>3
    <2>6. u = w
      BY <2>2, <2>4, <2>5, SeqEqual
    <2> QED  BY <2>6 DEF u, v, w
  <1>4. ASSUME NEW k \in 0 .. Len(a)
        PROVE  Drop(c, k) = Drop(a, k) \o b
    <2> DEFINE u == Drop(c, k)
               v == Drop(a, k)
    <2>1. k \in 0 .. Len(c)
      BY <1>1
    <2>2. /\ u \in Seq(S) /\ Len(u) = Len(c) - k
          /\ \A i \in 1 .. Len(c) - k : u[i] = c[k + i]
      BY <1>1, <2>1, CutFacts
    <2>3. v \in Seq(S) /\ Len(v) = Len(a) - k /\ \A i \in 1 .. Len(a) - k : v[i] = a[k + i]
      BY CutFacts
    <2> HIDE DEF u, v
    <2> DEFINE w == v \o b
    <2>4. /\ w \in Seq(S) /\ Len(w) = (Len(a) - k) + Len(b)
          /\ \A i \in 1 .. Len(a) - k : w[i] = v[i]
          /\ \A i \in 1 .. Len(b) : w[(Len(a) - k) + i] = b[i]
      <3> DEFINE n == Len(a) - k
      <3>1. v \in Seq(S) /\ Len(v) = n /\ n \in Nat
        BY <1>1, <2>3
      <3> HIDE DEF n
      <3>2. /\ w \in Seq(S) /\ Len(w) = n + Len(b)
            /\ \A i \in 1 .. n : w[i] = v[i]
            /\ \A i \in 1 .. Len(b) : w[n + i] = b[i]
        BY <3>1, SMTT(30), ZenonT(30)
      <3> QED  BY <3>2 DEF n
    <2> HIDE DEF w
    <2>5. ASSUME NEW i \in 1 .. Len(u)
          PROVE  u[i] = w[i]
      <3>1. i \in 1 .. Len(c) - k /\ u[i] = c[k + i]
        BY <2>2
      <3>2. CASE i <= Len(a) - k
        <4>1. i \in 1 .. Len(a) - k /\ k + i \in 1 .. Len(a)
          BY <1>1, <3>1, <3>2
        <4>2. w[i] = v[i] /\ v[i] = a[k + i] /\ c[k + i] = a[k + i]
          BY <1>1, <2>3, <2>4, <4>1
        <4> QED  BY <3>1, <4>2
      <3>3. CASE i > Len(a) - k
        <4> DEFINE j == i - (Len(a) - k)
        <4>1. j \in 1 .. Len(b) /\ i = (Len(a) - k) + j /\ k + i = Len(a) + j
          BY <1>1, <3>1, <3>3
        <4> HIDE DEF j
        <4>2. c[Len(a) + j] = b[j] /\ w[(Len(a) - k) + j] = b[j]
          BY <1>1, <2>4, <4>1
        <4> QED  BY <3>1, <4>1, <4>2
      <3>4. i <= Len(a) - k \/ i > Len(a) - k
        BY <1>1, <3>1
      <3> QED  BY <3>2, <3>3, <3>4
    <2>6. Len(u) = Len(w)
      BY <1>1, <2>2, <2>4
    <2>7. u = w
      BY <2>2, <2>4, <2>5, <2>6, SeqEqual
    <2> QED  BY <2>7 DEF u, v, w
  <1>5. ASSUME NEW k \in 0 .. Len(a)
        PROVE  Take(c, k) = Take(a, k)
    <2> DEFINE u == Take(c, k)
               v == Take(a, k)
    <2>1. k \in 0 .. Len(c)
      BY <1>1
    <2>2. u \in Seq(S) /\ Len(u) = k /\ \A i \in 1 .. k : u[i] = c[i]
      BY <1>1, <2>1, CutFacts
    <2>3. v \in Seq(S) /\ Len(v) = k /\ \A i \in 1 .. k : v[i] = a[i]
      BY CutFacts
    <2> HIDE DEF u, v
    <2>4. ASSUME NEW i \in 1 .. Len(u)
          PROVE  u[i] = v[i]
      <3>1. i \in 1 .. k /\ i \in 1 .. Len(a)
        BY <1>1, <2>2
      <3> QED  BY <1>1, <2>2, <2>3, <3>1
    <2>5. u = v
      BY <2>2, <2>3, <2>4, SeqEqual
    <2> QED  BY <2>5 DEF u, v
  <1> QED  BY <1>2, <1>3, <1>4, <1>5 DEF c

-----------------------------------------------------------------------------
(* Concatenating a sequence of sequences.                                   *)

\* Concatenation is associative.
LEMMA ItemsAssoc == \A a, b, c \in Seq(Items) : (a \o b) \o c = a \o (b \o c)
  OBVIOUS

\* The events, or the triggers, of a sequence of chunks or windows.
Spread(ss, k) == Flat(Column(ss, k))

\* The column is a sequence of sequences.
LEMMA ColumnFacts ==
  ASSUME NEW T, NEW k, \A c \in T : c[k] \in Seq(Items), NEW ss \in Seq(T)
  PROVE  /\ Column(ss, k) \in Seq(Seq(Items))
         /\ Len(Column(ss, k)) = Len(ss)
         /\ \A i \in 1 .. Len(ss) : Column(ss, k)[i] = ss[i][k]
  <1>1. Len(ss) \in Nat /\ \A i \in 1 .. Len(ss) : ss[i] \in T
    OBVIOUS
  <1>2. \A i \in 1 .. Len(ss) : ss[i][k] \in Seq(Items)
    BY <1>1
  <1> QED  BY <1>1, <1>2 DEF Column

\* One more behind the others, and the first of them taken off.
LEMMA SpreadAppend ==
  ASSUME NEW T, NEW k, \A c \in T : c[k] \in Seq(Items), NEW ss \in Seq(T), NEW c \in T
  PROVE  Spread(Append(ss, c), k) = Spread(ss, k) \o c[k]
  <1> DEFINE tt == Append(ss, c)
             u == Column(ss, k)
             v == Column(tt, k)
             w == Append(u, c[k])
  <1>1. /\ tt \in Seq(T) /\ Len(tt) = Len(ss) + 1 /\ Len(ss) \in Nat
        /\ tt[Len(ss) + 1] = c /\ \A i \in 1 .. Len(ss) : tt[i] = ss[i]
    OBVIOUS
  <1> HIDE DEF tt
  <1>2. /\ u \in Seq(Seq(Items)) /\ Len(u) = Len(ss)
        /\ \A i \in 1 .. Len(ss) : u[i] = ss[i][k]
    BY ColumnFacts
  <1>3. /\ v \in Seq(Seq(Items)) /\ Len(v) = Len(tt)
        /\ \A i \in 1 .. Len(tt) : v[i] = tt[i][k]
    BY <1>1, ColumnFacts, ZenonT(30), SMTT(30)
  <1> HIDE DEF u, v
  <1>4. /\ w \in Seq(Seq(Items)) /\ Len(w) = Len(ss) + 1 /\ w[Len(ss) + 1] = c[k]
        /\ \A i \in 1 .. Len(ss) : w[i] = u[i]
    BY <1>2
  <1> HIDE DEF w
  <1>5. ASSUME NEW i \in 1 .. Len(v)
        PROVE  v[i] = w[i]
    <2>1. i \in 1 .. Len(tt) /\ v[i] = tt[i][k]
      BY <1>3
    <2>2. CASE i \in 1 .. Len(ss)
      BY <1>1, <1>2, <1>4, <2>1, <2>2
    <2>3. CASE i = Len(ss) + 1
      BY <1>1, <1>4, <2>1, <2>3
    <2> QED  BY <1>1, <2>1, <2>2, <2>3
  <1>6. v = w
    BY <1>1, <1>3, <1>4, <1>5, SeqEqual
  <1>7. Flat(Append(u, c[k])) = Flat(u) \o c[k]
    BY <1>2, FlatAppend
  <1> QED  BY <1>6, <1>7 DEF tt, u, v, w, Spread

\* Without the first chunk.
LEMMA SpreadTail ==
  ASSUME NEW T, NEW k, \A c \in T : c[k] \in Seq(Items), NEW ss \in Seq(T), ss # <<>>
  PROVE  Spread(ss, k) = Head(ss)[k] \o Spread(Tail(ss), k)
  <1> DEFINE tt == Tail(ss)
             u == Column(ss, k)
             v == Column(tt, k)
             w == Tail(u)
  <1>1. /\ tt \in Seq(T) /\ Len(ss) = Len(tt) + 1 /\ Len(tt) \in Nat /\ Head(ss) = ss[1]
        /\ \A i \in 1 .. Len(tt) : tt[i] = ss[i + 1]
    OBVIOUS
  <1> HIDE DEF tt
  <1>2. /\ u \in Seq(Seq(Items)) /\ Len(u) = Len(ss)
        /\ \A i \in 1 .. Len(ss) : u[i] = ss[i][k]
    BY ColumnFacts
  <1>3. /\ v \in Seq(Seq(Items)) /\ Len(v) = Len(tt)
        /\ \A i \in 1 .. Len(tt) : v[i] = tt[i][k]
    <2>1. tt \in Seq(T)
      BY <1>1
    <2> QED  BY <2>1, ColumnFacts
  <1> HIDE DEF u, v
  <1>4. u # <<>> /\ Head(u) = u[1] /\ 1 \in 1 .. Len(ss)
    BY <1>1, <1>2
  <1>5. /\ w \in Seq(Seq(Items)) /\ Len(w) = Len(tt)
        /\ \A i \in 1 .. Len(tt) : w[i] = u[i + 1]
    BY <1>1, <1>2, <1>4
  <1> HIDE DEF w
  <1>6. ASSUME NEW i \in 1 .. Len(v)
        PROVE  v[i] = w[i]
    <2>1. i \in 1 .. Len(tt) /\ i + 1 \in 1 .. Len(ss)
      BY <1>1, <1>3
    <2> QED  BY <1>1, <1>2, <1>3, <1>5, <2>1
  <1>7. v = w
    <2>1. v \in Seq(Seq(Items)) /\ w \in Seq(Seq(Items)) /\ Len(v) = Len(w)
      BY <1>3, <1>5
    <2> QED  BY <1>6, <2>1, SeqEqual
  <1>8. Flat(u) = Head(u) \o Flat(Tail(u))
    BY <1>2, <1>4, FlatTail
  <1>9. Head(u) = Head(ss)[k]
    BY <1>1, <1>2, <1>4
  <1> QED  BY <1>7, <1>8, <1>9 DEF tt, u, v, w, Spread

\* A sequence of events comes of a sequence of chunks of them, each from one.
LEMMA SpreadFacts ==
  ASSUME NEW T, NEW k, \A c \in T : c[k] \in Seq(Items), NEW ss \in Seq(T)
  PROVE  /\ Spread(ss, k) \in Seq(Items)
         /\ \A x \in ToSet(Spread(ss, k)) : \E i \in 1 .. Len(ss) : x \in ToSet(ss[i][k])
  <1> DEFINE u == Column(ss, k)
  <1>1. /\ u \in Seq(Seq(Items)) /\ Len(u) = Len(ss)
        /\ \A i \in 1 .. Len(ss) : u[i] = ss[i][k]
    BY ColumnFacts
  <1> HIDE DEF u
  <1>2. Flat(u) \in Seq(Items)
    BY <1>1, FlatType
  <1>3. ASSUME NEW x \in ToSet(Flat(u))
        PROVE  \E i \in 1 .. Len(ss) : x \in ToSet(ss[i][k])
    <2>1. PICK j \in 1 .. Len(Flat(u)) : x = Flat(u)[j]
      BY <1>2 DEF ToSet
    <2>2. PICK i \in 1 .. Len(u) : \E l \in 1 .. Len(u[i]) : x = u[i][l]
      BY <1>1, <2>1, FlatMember
    <2>3. i \in 1 .. Len(ss) /\ u[i] = ss[i][k] /\ u[i] \in Seq(Items)
      BY <1>1
    <2>4. x \in ToSet(u[i])
      BY <2>2, <2>3 DEF ToSet
    <2> QED  BY <2>3, <2>4
  <1> QED  BY <1>2, <1>3 DEF u, Spread
=============================================================================
