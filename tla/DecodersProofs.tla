----------------------------- MODULE DecodersProofs -------------------------
(***************************************************************************)
(* Theorems about Decoders, for every format, every batch, step and limit. *)
(***************************************************************************)
EXTENDS Decoders, ArrayLemmas, TLAPS

\* What is written, what the file keeps of it, and the records of the file.
Stamped == [n : Nat \ {0}, t : Nat]
Items == [n : Nat, t : Int]
Records == [kind : {"header", "ev", "tr", "other"}, over : Int, body : Seq(Items)]

\* The records behind the header, and the events of rows that are whole.
Bare(rs) == IF rs # <<>> /\ rs[1].kind = "header" THEN Tail(rs) ELSE rs
Kept(read) == Flat([i \in DOMAIN read |-> IF read[i].n = Torn THEN <<>> ELSE <<read[i]>>])

WTypes ==
  /\ phase \in {"open", "closed", "killed"} /\ ready \in BOOLEAN /\ spoilt \in BOOLEAN
  /\ now \in Nat
  /\ file \in Seq(Records)
  /\ given \in Seq(Stamped) /\ givenTr \in Seq(Stamped)
  /\ safe \in 0 .. Len(file) /\ promised \in 0 .. Len(given)

\* The events and the triggers are numbered from 1.
Numbered ==
  /\ \A i \in 1 .. Len(given) : given[i].n = i
  /\ \A i \in 1 .. Len(givenTr) : givenTr[i].n = i

\* The columns, or the records, hold what was given, and what has left the
\* process holds what was promised.
ColumnsInv ==
  ~spoilt /\ fmt \in Columnar =>
    /\ file = <<>> /\ givenTr = <<>>
    /\ cols \in [t : Seq(Nat), n : Seq(Nat)] /\ cols.n = Numbers(given)
    /\ Len(cols.t) = Len(given) /\ count = Len(given)

RecordsInv ==
  ~spoilt /\ fmt \notin Columnar /\ phase # "killed" =>
    /\ Numbers(Held(file, "ev")) = Numbers(given)
    /\ Numbers(Held(file, "tr")) = Numbers(givenTr)

SafeInv ==
  ~spoilt /\ fmt \notin Columnar /\ phase = "open" =>
    promised <= Len(Held(Take(file, safe), "ev"))

KilledInv == phase = "killed" /\ ~spoilt => PromiseKept

WInv == WTypes /\ Numbered /\ ColumnsInv /\ RecordsInv /\ SafeInv /\ KilledInv

-----------------------------------------------------------------------------
(* Records, and what they hold.                                             *)

\* Numbers of two sequences, one behind the other.
LEMMA NumbersConcat ==
  ASSUME NEW a \in Seq(Items), NEW b \in Seq(Items)
  PROVE  /\ Numbers(a) \in Seq(Nat) /\ Len(Numbers(a)) = Len(a)
         /\ Numbers(a \o b) = Numbers(a) \o Numbers(b)
  <1>1. ASSUME NEW c \in Seq(Items)
        PROVE  /\ Numbers(c) \in Seq(Nat) /\ Len(Numbers(c)) = Len(c)
               /\ \A i \in 1 .. Len(c) : Numbers(c)[i] = c[i].n
    <2>1. DOMAIN c = 1 .. Len(c) /\ Len(c) \in Nat
      OBVIOUS
    <2>2. \A i \in DOMAIN c : c[i].n \in Nat
      <3>1. \A i \in DOMAIN c : c[i] \in Items
        OBVIOUS
      <3> QED  BY <3>1 DEF Items
    <2>3. Numbers(c) \in [1 .. Len(c) -> Nat] /\ \A i \in 1 .. Len(c) : Numbers(c)[i] = c[i].n
      BY <2>1, <2>2 DEF Numbers
    <2> QED  BY <2>1, <2>3, SMTT(30), ZenonT(30)
  <1> DEFINE u == Numbers(a \o b)
             v == Numbers(a) \o Numbers(b)
             n == Len(a)
             m == Len(b)
  <1>2. a \o b \in Seq(Items) /\ Len(a \o b) = n + m /\ n \in Nat /\ m \in Nat
    OBVIOUS
  <1>3. /\ u \in Seq(Nat) /\ Len(u) = n + m
        /\ \A i \in 1 .. n + m : u[i] = (a \o b)[i].n
    BY <1>1, <1>2
  <1>4. Numbers(a) \in Seq(Nat) /\ Len(Numbers(a)) = n /\ Numbers(b) \in Seq(Nat)
        /\ Len(Numbers(b)) = m
    BY <1>1
  <1>5. v \in Seq(Nat) /\ Len(v) = n + m
    <2> DEFINE x == Numbers(a)
               y == Numbers(b)
    <2>1. x \in Seq(Nat) /\ Len(x) = n /\ y \in Seq(Nat) /\ Len(y) = m
      BY <1>4
    <2> HIDE DEF x, y
    <2>2. x \o y \in Seq(Nat) /\ Len(x \o y) = Len(x) + Len(y)
      BY <2>1, Joined, Zenon
    <2>3. Len(x \o y) = n + m
      BY <2>1, <2>2, Zenon
    <2> QED  BY <2>2, <2>3 DEF x, y
  <1>6. ASSUME NEW i \in 1 .. n + m
        PROVE  u[i] = v[i]
    <2>1. CASE i <= n
      <3>1. i \in 1 .. Len(a) /\ (a \o b)[i] = a[i]
        BY <1>2, <2>1
      <3>2. v[i] = Numbers(a)[i]
        BY <1>2, <1>4, <2>1
      <3> HIDE DEF u, v
      <3> QED  BY <1>1, <1>3, <3>1, <3>2
    <2>2. CASE i > n
      <3>1. i - n \in 1 .. Len(b) /\ (a \o b)[i] = b[i - n]
        BY <1>2, <2>2
      <3>2. v[i] = Numbers(b)[i - n]
        BY <1>2, <1>4, <2>2
      <3> HIDE DEF u, v
      <3> QED  BY <1>1, <1>3, <3>1, <3>2
    <2>3. i <= n \/ i > n
      BY <1>2
    <2> QED  BY <2>1, <2>2, <2>3
  <1> HIDE DEF u, v
  <1>7. u = v
    BY <1>3, <1>5, <1>6, SameMembers
  <1> QED  BY <1>1, <1>7 DEF u, v

\* The bodies that Held puts behind each other, one for each record.
Bodies(rs, kind) == [i \in DOMAIN rs |-> IF rs[i].kind = kind THEN rs[i].body ELSE <<>>]

\* The bodies of the records of one kind, record by record.
LEMMA BodiesType ==
  ASSUME NEW rs \in Seq(Records), NEW kind
  PROVE  /\ Bodies(rs, kind) \in Seq(Seq(Items)) /\ Held(rs, kind) = Flat(Bodies(rs, kind))
         /\ Len(Bodies(rs, kind)) = Len(rs)
         /\ \A i \in 1 .. Len(rs) :
              Bodies(rs, kind)[i] = IF rs[i].kind = kind THEN rs[i].body ELSE <<>>
  <1>1. \A i \in DOMAIN rs : rs[i].body \in Seq(Items)
    <2>1. \A i \in DOMAIN rs : rs[i] \in Records
      OBVIOUS
    <2> QED  BY <2>1 DEF Records
  <1>2. <<>> \in Seq(Items)
    OBVIOUS
  <1>3. DOMAIN rs = 1 .. Len(rs) /\ Len(rs) \in Nat
    OBVIOUS
  <1>4. Bodies(rs, kind) \in [1 .. Len(rs) -> Seq(Items)]
    BY <1>1, <1>2, <1>3 DEF Bodies
  <1>5. Bodies(rs, kind) \in Seq(Seq(Items)) /\ Len(Bodies(rs, kind)) = Len(rs)
    BY <1>3, <1>4
  <1>6. Held(rs, kind) = Flat(Bodies(rs, kind))
    BY DEF Held, Bodies
  <1>7. \A i \in 1 .. Len(rs) :
           Bodies(rs, kind)[i] = IF rs[i].kind = kind THEN rs[i].body ELSE <<>>
    BY <1>3 DEF Bodies
  <1> QED  BY <1>5, <1>6, <1>7

\* What a file holds of a kind is a sequence of items.
LEMMA HeldType ==
  ASSUME NEW rs \in Seq(Records), NEW kind
  PROVE  Held(rs, kind) \in Seq(Items)
  BY BodiesType, FlatType

\* The records of two sequences, one behind the other.
LEMMA HeldConcat ==
  ASSUME NEW rs \in Seq(Records), NEW qs \in Seq(Records), NEW kind
  PROVE  Held(rs \o qs, kind) = Held(rs, kind) \o Held(qs, kind)
  <1> DEFINE a == Bodies(rs, kind)
             b == Bodies(qs, kind)
             c == Bodies(rs \o qs, kind)
             n == Len(rs)
             m == Len(qs)
  <1>1. rs \o qs \in Seq(Records) /\ Len(rs \o qs) = n + m /\ n \in Nat /\ m \in Nat
    OBVIOUS
  <1>2. /\ a \in Seq(Seq(Items)) /\ Held(rs, kind) = Flat(a) /\ Len(a) = n
        /\ \A i \in 1 .. n : a[i] = IF rs[i].kind = kind THEN rs[i].body ELSE <<>>
    BY BodiesType
  <1>3. /\ b \in Seq(Seq(Items)) /\ Held(qs, kind) = Flat(b) /\ Len(b) = m
        /\ \A i \in 1 .. m : b[i] = IF qs[i].kind = kind THEN qs[i].body ELSE <<>>
    BY BodiesType
  <1>4. /\ c \in Seq(Seq(Items)) /\ Held(rs \o qs, kind) = Flat(c) /\ Len(c) = n + m
        /\ \A i \in 1 .. n + m :
             c[i] = IF (rs \o qs)[i].kind = kind THEN (rs \o qs)[i].body ELSE <<>>
    <2> DEFINE q == rs \o qs
    <2>1. q \in Seq(Records) /\ Len(q) = n + m
      BY <1>1
    <2> HIDE DEF q
    <2>2. /\ Bodies(q, kind) \in Seq(Seq(Items)) /\ Held(q, kind) = Flat(Bodies(q, kind))
          /\ Len(Bodies(q, kind)) = n + m
          /\ \A i \in 1 .. n + m :
               Bodies(q, kind)[i] = IF q[i].kind = kind THEN q[i].body ELSE <<>>
      BY <2>1, BodiesType, SMTT(30), ZenonT(30)
    <2> QED  BY <2>2 DEF q
  <1> HIDE DEF a, b, c
  <1> DEFINE d == a \o b
  <1>5. d \in Seq(Seq(Items)) /\ Len(d) = n + m
    <2> DEFINE S == Seq(Items)
    <2>1. a \in Seq(S) /\ b \in Seq(S)
      BY <1>2, <1>3
    <2> HIDE DEF S
    <2>2. a \o b \in Seq(S) /\ Len(a \o b) = Len(a) + Len(b)
      BY <2>1
    <2> QED  BY <1>2, <1>3, <2>2 DEF S
  <1>6. ASSUME NEW i \in 1 .. n + m
        PROVE  c[i] = d[i]
    <2>1. CASE i <= n
      <3>1. i \in 1 .. n /\ (rs \o qs)[i] = rs[i]
        BY <1>1, <2>1
      <3>2. d[i] = a[i]
        BY <1>1, <1>2, <1>3, <2>1
      <3> HIDE DEF d
      <3> QED  BY <1>2, <1>4, <3>1, <3>2
    <2>2. CASE i > n
      <3>1. i - n \in 1 .. m /\ (rs \o qs)[i] = qs[i - n]
        BY <1>1, <2>2
      <3>2. d[i] = b[i - n]
        BY <1>1, <1>2, <1>3, <2>2
      <3> HIDE DEF d
      <3> QED  BY <1>3, <1>4, <3>1, <3>2
    <2>3. i <= n \/ i > n
      BY <1>1
    <2> QED  BY <2>1, <2>2, <2>3
  <1> HIDE DEF d
  <1>7. c = d
    BY <1>4, <1>5, <1>6, SameMembers
  <1>8. Flat(d) = Flat(a) \o Flat(b)
    BY <1>2, <1>3, FlatConcat DEF d
  <1> QED  BY <1>2, <1>3, <1>4, <1>7, <1>8

\* One record, and none.
LEMMA HeldOne ==
  ASSUME NEW r \in Records, NEW kind
  PROVE  Held(<<r>>, kind) = IF r.kind = kind THEN r.body ELSE <<>>
  <1> DEFINE x == IF r.kind = kind THEN r.body ELSE <<>>
  <1>1. <<r>> \in Seq(Records) /\ Len(<<r>>) = 1 /\ <<r>>[1] = r /\ x \in Seq(Items)
    BY DEF Records
  <1>2. /\ Bodies(<<r>>, kind) \in Seq(Seq(Items))
        /\ Held(<<r>>, kind) = Flat(Bodies(<<r>>, kind))
        /\ Len(Bodies(<<r>>, kind)) = Len(<<r>>)
        /\ \A i \in 1 .. Len(<<r>>) :
             Bodies(<<r>>, kind)[i] = IF <<r>>[i].kind = kind THEN <<r>>[i].body ELSE <<>>
    <2> DEFINE q == <<r>>
    <2>1. q \in Seq(Records)
      BY <1>1
    <2> HIDE DEF q
    <2>2. /\ Bodies(q, kind) \in Seq(Seq(Items)) /\ Held(q, kind) = Flat(Bodies(q, kind))
          /\ Len(Bodies(q, kind)) = Len(q)
          /\ \A i \in 1 .. Len(q) :
               Bodies(q, kind)[i] = IF q[i].kind = kind THEN q[i].body ELSE <<>>
      BY <2>1, BodiesType, SMTT(30), ZenonT(30)
    <2> QED  BY <2>2 DEF q
  <1>3. Bodies(<<r>>, kind)[1] = x
    BY <1>1, <1>2
  <1> HIDE DEF x
  <1>4. Bodies(<<r>>, kind) = <<x>>
    BY <1>1, <1>2, <1>3
  <1>5. Flat(<<x>>) = x
    BY <1>1, FlatOne
  <1> QED  BY <1>2, <1>4, <1>5 DEF x

\* An empty file holds nothing.
LEMMA HeldNone ==
  ASSUME NEW kind
  PROVE  Held(<<>>, kind) = <<>> /\ Bare(<<>>) = <<>>
  <1>1. [i \in DOMAIN <<>> |-> IF <<>>[i].kind = kind THEN <<>>[i].body ELSE <<>>] = <<>>
    OBVIOUS
  <1> QED  BY <1>1, FlatEmpty DEF Held, Bare

\* A sequence to its k-th member is one to the member before it, and that one.
LEMMA TakeNext ==
  ASSUME NEW S, NEW s \in Seq(S), NEW k \in 1 .. Len(s)
  PROVE  Take(s, k) = Take(s, k - 1) \o <<s[k]>>
  <1> DEFINE a == Take(s, k - 1)
             b == Take(s, k)
             c == a \o <<s[k]>>
  <1>1. /\ b \in Seq(S) /\ Len(b) = k
        /\ \A i \in 1 .. k : b[i] = s[i]
    <2>1. k \in 0 .. Len(s)
      OBVIOUS
    <2> QED  BY <2>1, Sliced
  <1>2. /\ a \in Seq(S) /\ Len(a) = k - 1
        /\ \A i \in 1 .. k - 1 : a[i] = s[i]
    <2>1. k - 1 \in 0 .. Len(s)
      OBVIOUS
    <2> QED  BY <2>1, Sliced
  <1> HIDE DEF a, b
  <1>3. s[k] \in S
    OBVIOUS
  <1>4. c \in Seq(S) /\ Len(c) = k
    BY <1>2, <1>3
  <1>5. \A i \in 1 .. k : c[i] = s[i]
    BY <1>2, <1>3
  <1> HIDE DEF c
  <1>6. b = c
    BY <1>1, <1>4, <1>5, SameMembers
  <1> QED  BY <1>6 DEF a, b, c

\* The header holds nothing.
LEMMA HeldBare ==
  ASSUME NEW rs \in Seq(Records), NEW kind, kind # "header"
  PROVE  Bare(rs) \in Seq(Records) /\ Held(Bare(rs), kind) = Held(rs, kind)
  <1>1. CASE ~ (rs # <<>> /\ rs[1].kind = "header")
    BY <1>1 DEF Bare
  <1>2. CASE rs # <<>> /\ rs[1].kind = "header"
    <2> DEFINE tl == Tail(rs)
               hd == <<rs[1]>>
    <2>1. tl \in Seq(Records) /\ rs[1] \in Records
      BY <1>2
    <2>2. hd \in Seq(Records)
      BY <2>1
    <2>3. rs = hd \o tl
      BY <1>2
    <2>4. Held(hd, kind) = <<>>
      BY <1>2, <2>1, HeldOne
    <2>5. Bare(rs) = tl
      BY <1>2 DEF Bare
    <2> HIDE DEF tl, hd
    <2>6. Held(hd \o tl, kind) = Held(hd, kind) \o Held(tl, kind)
      BY <2>1, <2>2, HeldConcat
    <2>7. Held(tl, kind) \in Seq(Items)
      BY <2>1, HeldType
    <2>8. <<>> \o Held(tl, kind) = Held(tl, kind)
      BY <2>7
    <2> QED  BY <2>1, <2>3, <2>4, <2>5, <2>6, <2>8
  <1> QED  BY <1>1, <1>2

\* Stamped items are items.
LEMMA StampedItems ==
  ASSUME NEW es \in Seq(Stamped)
  PROVE  es \in Seq(Items) /\ \A i \in 1 .. Len(es) : es[i] \in Stamped
  <1>1. \A i \in 1 .. Len(es) : es[i] \in Stamped
    OBVIOUS
  <1>2. Stamped \subseteq Items
    BY DEF Stamped, Items
  <1>3. \A i \in 1 .. Len(es) : es[i] \in Items
    BY <1>1, <1>2
  <1>4. es \in [1 .. Len(es) -> Items] /\ Len(es) \in Nat
    BY <1>3
  <1> QED  BY <1>1, <1>4

\* A record has the numbers of the events it was made of.
LEMMA RecordFacts ==
  ASSUME NEW kind \in {"ev", "tr", "other"}, NEW es \in Seq(Stamped), es # <<>>
  PROVE  /\ Record(kind, es) \in Records /\ Record(kind, es).kind = kind
         /\ Numbers(Record(kind, es).body) = Numbers(es)
  <1>1. Len(es) \in Nat \ {0} /\ DOMAIN es = 1 .. Len(es)
    OBVIOUS
  <1>2. \A i \in 1 .. Len(es) : es[i].n \in Nat /\ es[i].t \in Nat
                                  /\ DOMAIN es[i] = {"n", "t"}
    BY StampedItems DEF Stamped
  <1>3. Half \in Nat \ {0}
    BY WriterAssumption DEF Half
  <1> DEFINE over == Overflows(es)
  <1>4. over \in Int
    <2>1. 1 \in 1 .. Len(es)
      BY <1>1
    <2>2. es[1].t \in Nat
      BY <1>2, <2>1
    <2>3. es[1].t \div Half \in Int
      BY <1>3, <2>2
    <2> QED  BY <2>3 DEF Overflows
  <1> HIDE DEF over
  <1>5. \A t \in Nat : Raw(t, over) \in Int
    <2> SUFFICES ASSUME NEW t \in Nat
                 PROVE  Raw(t, over) \in Int
      OBVIOUS
    <2>1. Wrap \in Nat /\ Wrap > 0
      BY WriterAssumption
    <2>2. t % Wrap \in Int
      BY <2>1
    <2>3. t - over * Half \in Int
      BY <1>3, <1>4
    <2> QED  BY <2>2, <2>3 DEF Raw
  <1> DEFINE body == [i \in DOMAIN es |-> [es[i] EXCEPT !.t = Raw(@, over)]]
  <1>6. \A i \in 1 .. Len(es) : body[i] \in Items /\ body[i].n = es[i].n
    <2> SUFFICES ASSUME NEW i \in 1 .. Len(es)
                 PROVE  body[i] \in Items /\ body[i].n = es[i].n
      OBVIOUS
    <2>1. body[i] = [es[i] EXCEPT !.t = Raw(es[i].t, over)]
      BY <1>1
    <2>2. es[i] \in Items /\ Raw(es[i].t, over) \in Int
      BY <1>2, <1>5, StampedItems
    <2> HIDE DEF body
    <2> QED  BY <2>1, <2>2 DEF Items
  <1>7. body \in [1 .. Len(es) -> Items]
    BY <1>1, <1>6
  <1> HIDE DEF body
  <1>8. body \in Seq(Items) /\ Len(body) = Len(es)
    BY <1>1, <1>7
  <1>9. Record(kind, es) = [kind |-> kind, over |-> over, body |-> body]
    BY DEF Record, body, over
  <1>10. Numbers(body) = Numbers(es)
    <2>1. DOMAIN body = DOMAIN es
      BY <1>1, <1>7
    <2>2. \A i \in DOMAIN es : body[i].n = es[i].n
      BY <1>1, <1>6
    <2> QED  BY <2>1, <2>2 DEF Numbers
  <1> QED  BY <1>4, <1>8, <1>9, <1>10 DEF Records

\* The rows of a batch hold its events.
LEMMA RowsFacts ==
  ASSUME NEW es \in Seq(Stamped)
  PROVE  /\ Rows(es) \in Seq(Records)
         /\ Numbers(Held(Rows(es), "ev")) = Numbers(es)
         /\ Held(Rows(es), "tr") = <<>>
  <1> DEFINE n == Len(es)
             rs == Rows(es)
  <1>1. n \in Nat /\ DOMAIN es = 1 .. n /\ \A i \in 1 .. n : es[i] \in Stamped
    OBVIOUS
  <1>2. ASSUME NEW i \in 1 .. n
        PROVE  /\ rs[i] \in Records /\ rs[i].kind = "ev"
               /\ Numbers(rs[i].body) = Numbers(<<es[i]>>)
    <2>1. rs[i] = Record("ev", <<es[i]>>)
      BY <1>1 DEF Rows
    <2>2. <<es[i]>> \in Seq(Stamped) /\ <<es[i]>> # <<>>
      BY <1>1
    <2> QED  BY <2>1, <2>2, RecordFacts
  <1>3. rs = [i \in 1 .. n |-> Record("ev", <<es[i]>>)]
    BY <1>1 DEF Rows
  <1> HIDE DEF rs
  <1>4. rs \in [1 .. n -> Records]
    BY <1>2, <1>3
  <1>5. rs \in Seq(Records) /\ Len(rs) = n
    BY <1>1, <1>4
  <1> HIDE DEF n
  <1> DEFINE Bad == {k \in 0 .. n : \/ Numbers(Held(Take(rs, k), "ev")) # Numbers(Take(es, k))
                                    \/ Held(Take(rs, k), "tr") # <<>>}
  <1>6. Bad = {}
    <2>1. SUFFICES ASSUME Bad # {}
                   PROVE  FALSE
      OBVIOUS
    <2>2. Bad \subseteq Nat
      BY <1>1
    <2>3. PICK k \in Bad : \A y \in Bad : k <= y
      BY <2>1, <2>2, LeastNumber
    <2>4. k \in 0 .. n
      BY <2>3
    <2>5. \/ Numbers(Held(Take(rs, k), "ev")) # Numbers(Take(es, k))
          \/ Held(Take(rs, k), "tr") # <<>>
      BY <2>3
    <2>6. k # 0
      <3>1. Take(rs, 0) = <<>> /\ Take(es, 0) = <<>>
        BY DEF Take
      <3> QED  BY <2>5, <3>1, HeldNone
    <2>7. k \in 1 .. n /\ k - 1 \in 0 .. n
      BY <1>1, <2>4, <2>6
    <2>8. k - 1 \notin Bad
      BY <2>2, <2>3, <2>7
    <2>9. /\ Numbers(Held(Take(rs, k - 1), "ev")) = Numbers(Take(es, k - 1))
          /\ Held(Take(rs, k - 1), "tr") = <<>>
      BY <2>7, <2>8
    <2>10. Take(rs, k) = Take(rs, k - 1) \o <<rs[k]>>
      <3>1. k \in 1 .. Len(rs)
        BY <1>5, <2>7
      <3> QED  BY <1>5, <3>1, TakeNext
    <2>11. Take(es, k) = Take(es, k - 1) \o <<es[k]>>
      <3>1. k \in 1 .. Len(es)
        BY <2>7 DEF n
      <3> QED  BY <3>1, TakeNext
    <2>12. Take(rs, k - 1) \in Seq(Records)
      <3>1. k - 1 \in 0 .. Len(rs)
        BY <1>5, <2>7
      <3> QED  BY <1>5, <3>1, Sliced
    <2>13. Take(es, k - 1) \in Seq(Stamped)
      <3>1. k - 1 \in 0 .. Len(es)
        BY <2>7 DEF n
      <3> QED  BY <3>1, Sliced
    <2>14. <<rs[k]>> \in Seq(Records) /\ <<es[k]>> \in Seq(Stamped)
      <3>1. rs[k] \in Records
        BY <1>2, <2>7
      <3>2. es[k] \in Stamped
        BY <1>1, <2>7
      <3>3. <<rs[k]>> \in Seq(Records)
        BY <3>1
      <3>4. <<es[k]>> \in Seq(Stamped)
        BY <3>2
      <3> QED  BY <3>3, <3>4
    <2>15. /\ Held(Take(rs, k), "ev") = Held(Take(rs, k - 1), "ev") \o Held(<<rs[k]>>, "ev")
           /\ Held(Take(rs, k), "tr") = Held(Take(rs, k - 1), "tr") \o Held(<<rs[k]>>, "tr")
      <3>1. Held(Take(rs, k - 1) \o <<rs[k]>>, "ev")
              = Held(Take(rs, k - 1), "ev") \o Held(<<rs[k]>>, "ev")
        BY <2>12, <2>14, HeldConcat
      <3>2. Held(Take(rs, k - 1) \o <<rs[k]>>, "tr")
              = Held(Take(rs, k - 1), "tr") \o Held(<<rs[k]>>, "tr")
        BY <2>12, <2>14, HeldConcat
      <3> QED  BY <2>10, <3>1, <3>2
    <2>16. Held(<<rs[k]>>, "ev") = rs[k].body /\ Held(<<rs[k]>>, "tr") = <<>>
      <3>1. rs[k] \in Records /\ rs[k].kind = "ev"
        BY <1>2, <2>7
      <3>2. Held(<<rs[k]>>, "ev") = rs[k].body
        BY <3>1, HeldOne
      <3>3. Held(<<rs[k]>>, "tr") = <<>>
        BY <3>1, HeldOne
      <3> QED  BY <3>2, <3>3
    <2>17. Held(Take(rs, k), "tr") = <<>>
      BY <2>9, <2>15, <2>16
    <2>18. Numbers(Held(Take(rs, k), "ev")) = Numbers(Take(es, k))
      <3>1. Held(Take(rs, k - 1), "ev") \in Seq(Items)
        BY <2>12, HeldType
      <3>2. rs[k].body \in Seq(Items)
        <4>1. rs[k] \in Records
          BY <1>2, <2>7
        <4> QED  BY <4>1 DEF Records
      <3>3. Numbers(Held(Take(rs, k), "ev"))
              = Numbers(Held(Take(rs, k - 1), "ev")) \o Numbers(rs[k].body)
        BY <2>15, <2>16, <3>1, <3>2, NumbersConcat
      <3>4. Take(es, k - 1) \in Seq(Items) /\ <<es[k]>> \in Seq(Items)
        BY <2>13, <2>14, StampedItems
      <3>5. Numbers(Take(es, k)) = Numbers(Take(es, k - 1)) \o Numbers(<<es[k]>>)
        BY <2>11, <3>4, NumbersConcat
      <3>6. Numbers(rs[k].body) = Numbers(<<es[k]>>)
        BY <1>2, <2>7
      <3> QED  BY <2>9, <3>3, <3>5, <3>6
    <2> QED  BY <2>5, <2>17, <2>18
  <1>7. n \in 0 .. n
    BY <1>1
  <1>8. n \notin Bad
    BY <1>6
  <1>9. Numbers(Held(Take(rs, n), "ev")) = Numbers(Take(es, n)) /\ Held(Take(rs, n), "tr") = <<>>
    BY <1>7, <1>8
  <1>10. Take(rs, n) = rs /\ Take(es, n) = es
    <2>1. Take(rs, n) = rs
      BY <1>5 DEF Take
    <2>2. Take(es, n) = es
      BY DEF Take, n
    <2> QED  BY <2>1, <2>2
  <1> QED  BY <1>5, <1>9, <1>10 DEF rs

\* A packet holds the events, or the triggers, it was made of.
LEMMA PacketFacts ==
  ASSUME NEW es \in Seq(Stamped), NEW kind \in {"ev", "tr"}
  PROVE  /\ Packet(kind, es) \in Seq(Records)
         /\ Numbers(Held(Packet(kind, es), kind)) = Numbers(es)
         /\ \A k \in {"ev", "tr"} : k # kind => Held(Packet(kind, es), k) = <<>>
  <1>1. CASE es = <<>>
    <2>1. Packet(kind, es) = <<>>
      BY <1>1 DEF Packet
    <2>2. <<>> \in Seq(Records) /\ \A k \in {"ev", "tr"} : Held(<<>>, k) = <<>>
      BY HeldNone
    <2>3. Held(<<>>, kind) = <<>>
      BY HeldNone
    <2> QED  BY <1>1, <2>1, <2>2, <2>3
  <1>2. CASE es # <<>>
    <2> DEFINE r == Record(kind, es)
    <2>1. r \in Records /\ r.kind = kind /\ Numbers(r.body) = Numbers(es)
      BY <1>2, RecordFacts
    <2>2. Packet(kind, es) = <<r>>
      BY <1>2 DEF Packet
    <2> HIDE DEF r
    <2>3. Held(<<r>>, kind) = r.body
      BY <2>1, HeldOne
    <2>4. \A k \in {"ev", "tr"} : k # kind => Held(<<r>>, k) = <<>>
      BY <2>1, HeldOne
    <2>5. <<r>> \in Seq(Records)
      BY <2>1
    <2> QED  BY <2>1, <2>2, <2>3, <2>4, <2>5
  <1> QED  BY <1>1, <1>2

\* What write() adds to the file holds the batch.
LEMMA EncodedFacts ==
  ASSUME NEW es \in Seq(Stamped), NEW trs \in Seq(Stamped), trs # <<>> => fmt = "aedat4"
  PROVE  /\ Encoded(es, trs) \in Seq(Records)
         /\ Numbers(Held(Encoded(es, trs), "ev")) = Numbers(es)
         /\ Numbers(Held(Encoded(es, trs), "tr")) = Numbers(trs)
  <1>1. CASE fmt = "aedat4"
    <2> DEFINE p == Packet("ev", es)
               q == Packet("tr", trs)
    <2>1. p \in Seq(Records) /\ Numbers(Held(p, "ev")) = Numbers(es) /\ Held(p, "tr") = <<>>
      BY PacketFacts
    <2>2. q \in Seq(Records) /\ Numbers(Held(q, "tr")) = Numbers(trs) /\ Held(q, "ev") = <<>>
      BY PacketFacts
    <2>3. Encoded(es, trs) = p \o q
      BY <1>1 DEF Encoded
    <2> HIDE DEF p, q
    <2>4. p \o q \in Seq(Records)
      BY <2>1, <2>2, Joined
    <2>5. Held(p \o q, "ev") = Held(p, "ev") \o Held(q, "ev")
      BY <2>1, <2>2, HeldConcat
    <2>6. Held(p \o q, "tr") = Held(p, "tr") \o Held(q, "tr")
      BY <2>1, <2>2, HeldConcat
    <2>7. Held(p, "ev") \in Seq(Items)
      BY <2>1, HeldType
    <2>8. Held(q, "tr") \in Seq(Items)
      BY <2>2, HeldType
    <2>9. \A c \in Seq(Items) : c \o <<>> = c /\ <<>> \o c = c
      OBVIOUS
    <2>10. Held(p \o q, "ev") = Held(p, "ev") /\ Held(p \o q, "tr") = Held(q, "tr")
      BY <2>1, <2>2, <2>5, <2>6, <2>7, <2>8, <2>9
    <2> QED  BY <2>1, <2>2, <2>3, <2>4, <2>10
  <1>2. CASE fmt # "aedat4"
    <2>1. Encoded(es, trs) = Rows(es) /\ trs = <<>>
      BY <1>2 DEF Encoded
    <2> QED  BY <2>1, RowsFacts
  <1> QED  BY <1>1, <1>2

\* A header holds nothing.
LEMMA HeadingFacts ==
  /\ Heading \in Seq(Records) /\ Held(Heading, "ev") = <<>> /\ Held(Heading, "tr") = <<>>
  /\ fmt \in Columnar => Heading = <<>>
  <1>1. Header \in Records /\ Header.kind = "header"
    BY DEF Header, Records
  <1>2. <<>> \in Seq(Records) /\ <<Header>> \in Seq(Records)
    BY <1>1
  <1>3. Held(<<Header>>, "ev") = <<>>
    BY <1>1, HeldOne
  <1>4. Held(<<Header>>, "tr") = <<>>
    BY <1>1, HeldOne
  <1>5. Held(<<>>, "ev") = <<>>
    BY HeldNone
  <1>6. Held(<<>>, "tr") = <<>>
    BY HeldNone
  <1>7. fmt \in Columnar => Heading = <<>>
    BY DEF Heading, Columnar, Headered
  <1> QED  BY <1>2, <1>3, <1>4, <1>5, <1>6, <1>7 DEF Heading

-----------------------------------------------------------------------------
(* The batches.                                                             *)

\* The times from a on, each d[i] after the one before it.
Sums(u, a, d, n) == u = [i \in 0 .. n |-> IF i = 0 THEN a ELSE u[i - 1] + d[i]]

\* The partial sums of differences, one by one.
LEMMA SumsFacts ==
  ASSUME NEW n \in Nat, NEW a, NEW d, NEW u, Sums(u, a, d, n)
  PROVE  u[0] = a /\ \A i \in 1 .. n : u[i] = u[i - 1] + d[i]
  <1> DEFINE g == [i \in 0 .. n |-> IF i = 0 THEN a ELSE u[i - 1] + d[i]]
  <1>1. u = g
    BY DEF Sums
  <1>2. g[0] = a
    OBVIOUS
  <1>3. ASSUME NEW i \in 1 .. n
        PROVE  g[i] = u[i - 1] + d[i]
    <2>1. i \in 0 .. n /\ i # 0
      OBVIOUS
    <2> QED  BY <2>1
  <1> HIDE DEF g
  <1> QED  BY <1>1, <1>2, <1>3

\* Sums of k - 1 differences go on to k.
LEMMA SumsNext ==
  ASSUME NEW k \in Nat, 0 < k, NEW a, NEW d, NEW u, Sums(u, a, d, k - 1)
  PROVE  \E v : Sums(v, a, d, k)
  <1> DEFINE v == [i \in 0 .. k |-> IF i = k THEN u[k - 1] + d[k] ELSE u[i]]
  <1>1. k - 1 \in Nat
    OBVIOUS
  <1>2. u[0] = a /\ \A i \in 1 .. (k - 1) : u[i] = u[i - 1] + d[i]
    BY <1>1, SumsFacts
  <1>3. ASSUME NEW i \in 0 .. k
        PROVE  v[i] = IF i = 0 THEN a ELSE v[i - 1] + d[i]
    <2>1. CASE i = 0
      BY <1>2, <2>1
    <2>2. CASE i \in 1 .. k - 1
      <3>1. v[i] = u[i] /\ v[i - 1] = u[i - 1] /\ i # 0
        BY <2>2
      <3> QED  BY <1>2, <2>2, <3>1
    <2>3. CASE i = k
      <3>1. v[i] = u[k - 1] + d[k] /\ v[i - 1] = u[k - 1] /\ i # 0
        BY <2>3
      <3> QED  BY <2>3, <3>1
    <2> QED  BY <2>1, <2>2, <2>3
  <1>4. Sums(v, a, d, k)
    BY <1>3 DEF Sums
  <1> QED  BY <1>4

\* So there are sums of any number of them.
LEMMA SumsExist ==
  ASSUME NEW n \in Nat, NEW a, NEW d
  PROVE  \E u : Sums(u, a, d, n)
  <1> DEFINE Bad == {k \in Nat : ~ \E u : Sums(u, a, d, k)}
  <1>1. SUFFICES ASSUME ~ \E u : Sums(u, a, d, n)
                 PROVE  FALSE
    OBVIOUS
  <1>2. Bad # {} /\ Bad \subseteq Nat
    BY <1>1
  <1>3. PICK k \in Bad : \A x \in Bad : k <= x
    BY <1>2, LeastNumber
  <1>4. k \in Nat /\ ~ \E u : Sums(u, a, d, k)
    BY <1>3
  <1>5. k # 0
    <2> DEFINE z == [i \in 0 .. 0 |-> a]
    <2>1. \A i \in 0 .. 0 : (IF i = 0 THEN a ELSE z[i - 1] + d[i]) = a
      OBVIOUS
    <2>2. Sums(z, a, d, 0)
      BY <2>1 DEF Sums
    <2> QED  BY <1>4, <2>2
  <1>6. k - 1 \in Nat /\ 0 < k
    BY <1>4, <1>5
  <1>7. k - 1 \notin Bad
    BY <1>3, <1>6
  <1>8. PICK u : Sums(u, a, d, k - 1)
    BY <1>6, <1>7
  <1> QED  BY <1>4, <1>6, <1>8, SumsNext

\* The times of n arrivals: each is one of Steps behind the one before it.
LEMMA ArrivalsFacts ==
  ASSUME now \in Nat, given \in Seq(Stamped), NEW n \in Nat, NEW d \in [1 .. n -> Steps]
  PROVE  \E u \in [0 .. n -> Nat] :
           /\ u[0] = now /\ \A i \in 1 .. n : u[i] = u[i - 1] + d[i]
           /\ Arrivals(n, d) = [i \in 1 .. n |-> [n |-> Len(given) + i, t |-> u[i]]]
  <1> DEFINE U == CHOOSE u : Sums(u, now, d, n)
  <1>1. Arrivals(n, d) = [i \in 1 .. n |-> [n |-> Len(given) + i, t |-> U[i]]]
    BY DEF Arrivals, Sums
  <1>2. Sums(U, now, d, n)
    BY SumsExist
  <1> HIDE DEF U
  <1>3. U[0] = now /\ \A i \in 1 .. n : U[i] = U[i - 1] + d[i]
    BY <1>2, SumsFacts, SMTT(30), ZenonT(30)
  <1>4. U = [i \in 0 .. n |-> U[i]]
    BY <1>2 DEF Sums
  <1>5. \A i \in 1 .. n : d[i] \in Nat
    BY WriterAssumption
  <1> DEFINE Bad == {k \in 0 .. n : U[k] \notin Nat}
  <1>6. Bad = {}
    <2>1. SUFFICES ASSUME Bad # {}
                   PROVE  FALSE
      OBVIOUS
    <2>2. Bad \subseteq Nat
      OBVIOUS
    <2>3. PICK k \in Bad : \A y \in Bad : k <= y
      BY <2>1, <2>2, LeastNumber
    <2>4. k \in 0 .. n /\ U[k] \notin Nat
      BY <2>3
    <2>5. k # 0
      BY <1>3, <2>4
    <2>6. k \in 1 .. n /\ k - 1 \in 0 .. n
      BY <2>4, <2>5
    <2>7. k - 1 \notin Bad
      BY <2>2, <2>3, <2>6
    <2>8. U[k - 1] \in Nat /\ d[k] \in Nat
      BY <1>5, <2>6, <2>7
    <2>9. U[k] = U[k - 1] + d[k]
      BY <1>3, <2>6
    <2> QED  BY <2>4, <2>8, <2>9
  <1>7. U \in [0 .. n -> Nat]
    <2>1. \A i \in 0 .. n : U[i] \in Nat
      BY <1>6
    <2> QED  BY <1>4, <2>1
  <1> QED  BY <1>1, <1>3, <1>7

\* They are numbered on from what was given.
LEMMA ArrivalsType ==
  ASSUME now \in Nat, given \in Seq(Stamped), NEW n \in Nat, NEW d \in [1 .. n -> Steps]
  PROVE  /\ Arrivals(n, d) \in Seq(Stamped) /\ Len(Arrivals(n, d)) = n
         /\ \A i \in 1 .. n : Arrivals(n, d)[i].n = Len(given) + i
  <1>1. PICK u \in [0 .. n -> Nat] :
              Arrivals(n, d) = [i \in 1 .. n |-> [n |-> Len(given) + i, t |-> u[i]]]
    BY ArrivalsFacts
  <1> DEFINE es == [i \in 1 .. n |-> [n |-> Len(given) + i, t |-> u[i]]]
  <1>2. Len(given) \in Nat
    OBVIOUS
  <1>3. ASSUME NEW i \in 1 .. n
        PROVE  es[i] \in Stamped /\ es[i].n = Len(given) + i
    <2>1. u[i] \in Nat /\ Len(given) + i \in Nat \ {0}
      BY <1>2
    <2> QED  BY <2>1 DEF Stamped
  <1>4. es \in [1 .. n -> Stamped]
    BY <1>3
  <1> HIDE DEF es
  <1>5. es \in Seq(Stamped) /\ Len(es) = n
    BY <1>4
  <1>6. Arrivals(n, d) = es
    BY <1>1 DEF es
  <1> QED  BY <1>3, <1>5, <1>6

\* A batch continues the numbering, and only AEDAT4 has triggers in it.
LEMMA BatchFacts ==
  ASSUME now \in Nat, given \in Seq(Stamped), givenTr \in Seq(Stamped), NEW b \in Batches
  PROVE  /\ b.ev \in Seq(Stamped) /\ b.tr \in Seq(Stamped)
         /\ \A i \in 1 .. Len(b.ev) : b.ev[i].n = Len(given) + i
         /\ \A i \in 1 .. Len(b.tr) : b.tr[i].n = Len(givenTr) + i
         /\ b.tr # <<>> => fmt = "aedat4"
         /\ Latest(b) \in Nat
  <1> DEFINE Trs == {<<>>} \cup (IF fmt \in {"aedat4"}
                                 THEN {<<[n |-> Len(givenTr) + 1, t |-> now]>>} ELSE {})
  <1>1. PICK n \in 0 .. MaxBatch :
           b \in [ev : {Arrivals(n, d) : d \in [1 .. n -> Steps]}, tr : Trs]
    BY DEF Batches
  <1>2. PICK d \in [1 .. n -> Steps] : b.ev = Arrivals(n, d)
    BY <1>1
  <1>3. n \in Nat
    BY WriterAssumption
  <1>4. b.ev \in Seq(Stamped) /\ Len(b.ev) = n /\ \A i \in 1 .. n : b.ev[i].n = Len(given) + i
    BY <1>2, <1>3, ArrivalsType
  <1>5. b.tr = <<>> \/ (fmt = "aedat4" /\ b.tr = <<[n |-> Len(givenTr) + 1, t |-> now]>>)
    BY <1>1
  <1> DEFINE r == [n |-> Len(givenTr) + 1, t |-> now]
  <1>6. r \in Stamped /\ r.n = Len(givenTr) + 1
    <2>1. Len(givenTr) + 1 \in Nat \ {0}
      OBVIOUS
    <2> QED  BY <2>1 DEF Stamped
  <1> HIDE DEF r
  <1>7. b.tr \in Seq(Stamped) /\ \A i \in 1 .. Len(b.tr) : b.tr[i].n = Len(givenTr) + i
    <2>1. CASE b.tr = <<>>
      BY <2>1
    <2>2. CASE b.tr = <<r>>
      <3>1. <<r>> \in Seq(Stamped) /\ Len(<<r>>) = 1 /\ <<r>>[1] = r
        BY <1>6
      <3> QED  BY <1>6, <2>2, <3>1
    <2> QED  BY <1>5, <2>1, <2>2 DEF r
  <1>8. b.tr # <<>> => fmt = "aedat4"
    BY <1>5
  <1>9. Latest(b) \in Nat
    <2>1. CASE b.ev = <<>>
      BY <2>1 DEF Latest
    <2>2. CASE b.ev # <<>>
      <3>1. Len(b.ev) \in 1 .. Len(b.ev)
        BY <1>4, <2>2
      <3>2. b.ev[Len(b.ev)] \in Stamped
        BY <1>4, <3>1
      <3>3. b.ev[Len(b.ev)].t \in Nat
        BY <3>2 DEF Stamped
      <3> QED  BY <2>2, <3>3 DEF Latest, Last
    <2> QED  BY <2>1, <2>2
  <1> QED  BY <1>4, <1>7, <1>8, <1>9

-----------------------------------------------------------------------------
(* The writer.                                                              *)

\* What of a file stays when something is put behind it.
LEMMA Grown ==
  ASSUME NEW f \in Seq(Records), NEW x \in Seq(Records), NEW k \in 0 .. Len(f)
  PROVE  /\ f \o x \in Seq(Records) /\ k \in 0 .. Len(f \o x)
         /\ Take(f \o x, k) = Take(f, k)
         /\ Held(f \o x, "ev") = Held(f, "ev") \o Held(x, "ev")
         /\ Held(f \o x, "tr") = Held(f, "tr") \o Held(x, "tr")
  <1> DEFINE g == f \o x
             a == Take(f, k)
             b == Take(g, k)
  <1>1. g \in Seq(Records) /\ Len(g) = Len(f) + Len(x) /\ \A i \in 1 .. Len(f) : g[i] = f[i]
    BY Joined
  <1>2. Len(f) \in Nat /\ Len(x) \in Nat
    OBVIOUS
  <1> HIDE DEF g
  <1>3. k \in 0 .. Len(g)
    BY <1>1, <1>2
  <1>4. a \in Seq(Records) /\ Len(a) = k /\ \A i \in 1 .. k : a[i] = f[i]
    BY Sliced
  <1>5. b \in Seq(Records) /\ Len(b) = k /\ \A i \in 1 .. k : b[i] = g[i]
    BY <1>1, <1>3, Sliced
  <1> HIDE DEF a, b
  <1>6. \A i \in 1 .. k : b[i] = a[i]
    <2> SUFFICES ASSUME NEW i \in 1 .. k
                 PROVE  b[i] = a[i]
      OBVIOUS
    <2>1. i \in 1 .. Len(f)
      BY <1>2
    <2> QED  BY <1>1, <1>4, <1>5, <2>1
  <1>7. b = a
    BY <1>4, <1>5, <1>6, SameMembers
  <1>8. Held(f \o x, "ev") = Held(f, "ev") \o Held(x, "ev")
    BY HeldConcat
  <1>9. Held(f \o x, "tr") = Held(f, "tr") \o Held(x, "tr")
    BY HeldConcat
  <1> QED  BY <1>1, <1>3, <1>7, <1>8, <1>9 DEF a, b, g

\* The numbers in a file behind which something is put.
LEMMA GrownNumbers ==
  ASSUME NEW f \in Seq(Records), NEW x \in Seq(Records),
         NEW g \in Seq(Items), NEW e \in Seq(Items), NEW kind,
         Numbers(Held(f, kind)) = Numbers(g), Numbers(Held(x, kind)) = Numbers(e)
  PROVE  Numbers(Held(f \o x, kind)) = Numbers(g \o e)
  <1> DEFINE a == Held(f, kind)
             b == Held(x, kind)
  <1>1. a \in Seq(Items)
    BY HeldType
  <1>2. b \in Seq(Items)
    BY HeldType
  <1>3. Held(f \o x, kind) = a \o b
    BY HeldConcat
  <1> HIDE DEF a, b
  <1>4. Numbers(a \o b) = Numbers(a) \o Numbers(b)
    BY <1>1, <1>2, NumbersConcat
  <1>5. Numbers(g \o e) = Numbers(g) \o Numbers(e)
    BY NumbersConcat
  <1>6. Numbers(a) = Numbers(g) /\ Numbers(b) = Numbers(e)
    BY DEF a, b
  <1> QED  BY <1>3, <1>4, <1>5, <1>6

\* The events, or the triggers, stay numbered.
LEMMA StillNumbered ==
  ASSUME NEW g \in Seq(Stamped), \A i \in 1 .. Len(g) : g[i].n = i,
         NEW e \in Seq(Stamped), \A i \in 1 .. Len(e) : e[i].n = Len(g) + i
  PROVE  /\ g \o e \in Seq(Stamped) /\ Len(g \o e) = Len(g) + Len(e)
         /\ \A i \in 1 .. Len(g \o e) : (g \o e)[i].n = i
  <1>1. /\ g \o e \in Seq(Stamped) /\ Len(g \o e) = Len(g) + Len(e)
        /\ \A i \in 1 .. Len(g) : (g \o e)[i] = g[i]
        /\ \A i \in 1 .. Len(e) : (g \o e)[Len(g) + i] = e[i]
    BY Joined
  <1>2. Len(g) \in Nat /\ Len(e) \in Nat
    OBVIOUS
  <1> DEFINE h == g \o e
  <1> HIDE DEF h
  <1>3. /\ h \in Seq(Stamped) /\ Len(h) = Len(g) + Len(e)
        /\ \A i \in 1 .. Len(g) : h[i] = g[i]
        /\ \A i \in 1 .. Len(e) : h[Len(g) + i] = e[i]
    BY <1>1 DEF h
  <1>4. ASSUME NEW i \in 1 .. Len(h)
        PROVE  h[i].n = i
    <2>1. CASE i <= Len(g)
      BY <1>2, <1>3, <2>1
    <2>2. CASE i > Len(g)
      <3> DEFINE j == i - Len(g)
      <3>1. j \in 1 .. Len(e) /\ Len(g) + j = i
        BY <1>2, <1>3, <2>2
      <3> HIDE DEF j
      <3>2. h[i] = e[j] /\ e[j].n = Len(g) + j
        BY <1>3, <3>1
      <3> QED  BY <3>1, <3>2
    <2>3. i <= Len(g) \/ i > Len(g)
      BY <1>2, <1>3
    <2> QED  BY <2>1, <2>2, <2>3
  <1> QED  BY <1>3, <1>4 DEF h

\* The events before the position of a flush stay.
LEMMA Unpromised ==
  ASSUME NEW f \in Seq(Records), NEW g \in Seq(Items),
         Numbers(Held(f, "ev")) = Numbers(g)
  PROVE  /\ Len(Held(f, "ev")) = Len(g) /\ Take(f, Len(f)) = f
  <1>1. Held(f, "ev") \in Seq(Items)
    BY HeldType
  <1>2. Len(Numbers(Held(f, "ev"))) = Len(Held(f, "ev"))
    BY <1>1, NumbersConcat
  <1>3. Len(Numbers(g)) = Len(g)
    BY NumbersConcat
  <1>4. Take(f, Len(f)) = f
    BY DEF Take
  <1> QED  BY <1>2, <1>3, <1>4

\* What InitWriter, and any write, does to the file first.
LEMMA BegunFacts ==
  ASSUME file \in Seq(Records), NEW k \in 0 .. Len(file), NEW f \in {file \o Heading, Begun}
  PROVE  /\ f \in Seq(Records) /\ k \in 0 .. Len(f) /\ Take(f, k) = Take(file, k)
         /\ Held(f, "ev") = Held(file, "ev") /\ Held(f, "tr") = Held(file, "tr")
         /\ fmt \in Columnar => f = file
  <1>1. Held(file, "ev") \in Seq(Items)
    BY HeldType
  <1>2. Held(file, "tr") \in Seq(Items)
    BY HeldType
  <1>3. \A c \in Seq(Items) : c \o <<>> = c
    OBVIOUS
  <1>4. file \o <<>> = file
    OBVIOUS
  <1>5. CASE f = file \o Heading
    <2>1. Heading \in Seq(Records)
      BY HeadingFacts
    <2>2. /\ file \o Heading \in Seq(Records) /\ k \in 0 .. Len(file \o Heading)
          /\ Take(file \o Heading, k) = Take(file, k)
          /\ Held(file \o Heading, "ev") = Held(file, "ev") \o Held(Heading, "ev")
          /\ Held(file \o Heading, "tr") = Held(file, "tr") \o Held(Heading, "tr")
      BY <2>1, Grown
    <2>3. Held(Heading, "ev") = <<>> /\ Held(Heading, "tr") = <<>>
          /\ (fmt \in Columnar => Heading = <<>>)
      BY HeadingFacts
    <2>4. /\ Held(file \o Heading, "ev") = Held(file, "ev")
          /\ Held(file \o Heading, "tr") = Held(file, "tr")
      BY <1>1, <1>2, <1>3, <2>2, <2>3
    <2>5. fmt \in Columnar => file \o Heading = file
      BY <1>4, <2>3
    <2> QED  BY <1>5, <2>2, <2>4, <2>5
  <1>6. CASE f = file
    BY <1>6
  <1>7. f = file \o Heading \/ f = file
    BY DEF Begun
  <1> QED  BY <1>5, <1>6, <1>7

-----------------------------------------------------------------------------
(* The actions of the writer.                                               *)

\* While the file is open nothing is promised of a file that was killed.
LEMMA InitWriterKeeps ==
  ASSUME WInv, InitWriter
  PROVE  WInv'
  <1>1. /\ phase = "open" /\ fmt' = fmt /\ phase' = phase /\ cols' = cols /\ count' = count
        /\ safe' = safe /\ now' = now /\ given' = given /\ givenTr' = givenTr
        /\ promised' = promised /\ spoilt' = spoilt /\ ready' = TRUE
        /\ file' \in {file \o Heading, Begun}
    BY DEF InitWriter, Writing
  <1>2. WTypes /\ Numbered /\ ColumnsInv /\ RecordsInv /\ SafeInv
    BY DEF WInv
  <1>3. file \in Seq(Records) /\ safe \in 0 .. Len(file)
    BY <1>2 DEF WTypes
  <1>4. /\ file' \in Seq(Records) /\ safe \in 0 .. Len(file') /\ Take(file', safe) = Take(file, safe)
        /\ Held(file', "ev") = Held(file, "ev") /\ Held(file', "tr") = Held(file, "tr")
        /\ (fmt \in Columnar => file' = file)
    BY <1>1, <1>3, BegunFacts
  <1>5. WTypes'
    BY <1>1, <1>2, <1>4 DEF WTypes
  <1>6. Numbered'
    BY <1>1, <1>2 DEF Numbered
  <1>7. ColumnsInv'
    BY <1>1, <1>2, <1>4 DEF ColumnsInv
  <1>8. RecordsInv'
    BY <1>1, <1>2, <1>4 DEF RecordsInv
  <1>9. SafeInv'
    BY <1>1, <1>2, <1>4 DEF SafeInv
  <1>10. KilledInv'
    BY <1>1 DEF KilledInv
  <1> QED  BY <1>5, <1>6, <1>7, <1>8, <1>9, <1>10 DEF WInv

\* What a batch is to the invariant, whichever format it is for.
LEMMA BatchGiven ==
  ASSUME WTypes, Numbered, NEW b \in Batches
  PROVE  /\ b.ev \in Seq(Stamped) /\ b.tr \in Seq(Stamped) /\ Latest(b) \in Nat
         /\ b.tr # <<>> => fmt = "aedat4"
         /\ given \o b.ev \in Seq(Stamped) /\ givenTr \o b.tr \in Seq(Stamped)
         /\ Len(given \o b.ev) = Len(given) + Len(b.ev)
         /\ \A i \in 1 .. Len(given \o b.ev) : (given \o b.ev)[i].n = i
         /\ \A i \in 1 .. Len(givenTr \o b.tr) : (givenTr \o b.tr)[i].n = i
  <1>1. now \in Nat /\ given \in Seq(Stamped) /\ givenTr \in Seq(Stamped)
    BY DEF WTypes
  <1>2. /\ b.ev \in Seq(Stamped) /\ b.tr \in Seq(Stamped)
        /\ \A i \in 1 .. Len(b.ev) : b.ev[i].n = Len(given) + i
        /\ \A i \in 1 .. Len(b.tr) : b.tr[i].n = Len(givenTr) + i
        /\ (b.tr # <<>> => fmt = "aedat4") /\ Latest(b) \in Nat
    BY <1>1, BatchFacts
  <1>3. \A i \in 1 .. Len(given) : given[i].n = i
    BY DEF Numbered
  <1>4. \A i \in 1 .. Len(givenTr) : givenTr[i].n = i
    BY DEF Numbered
  <1>5. /\ given \o b.ev \in Seq(Stamped) /\ Len(given \o b.ev) = Len(given) + Len(b.ev)
        /\ \A i \in 1 .. Len(given \o b.ev) : (given \o b.ev)[i].n = i
    BY <1>1, <1>2, <1>3, StillNumbered
  <1>6. /\ givenTr \o b.tr \in Seq(Stamped)
        /\ \A i \in 1 .. Len(givenTr \o b.tr) : (givenTr \o b.tr)[i].n = i
    BY <1>1, <1>2, <1>4, StillNumbered
  <1> QED  BY <1>2, <1>5, <1>6

\* What a column is after a write() that returned.
LEMMA ColumnGrows ==
  ASSUME NEW col \in Seq(Nat), NEW new \in Seq(Nat), Len(col) = count
  PROVE  Extended(col, new) = col \o new
  <1>1. Take(col, count) = col
    BY DEF Take
  <1> QED  BY <1>1 DEF Extended, Resized, Spooled

\* write() keeps the writer's invariant, a flush within it included.
LEMMA WriteKeeps ==
  ASSUME WInv, Write
  PROVE  WInv'
  <1>1. WTypes /\ Numbered /\ ColumnsInv /\ RecordsInv /\ SafeInv
    BY DEF WInv
  <1>2. PICK b \in Batches :
          /\ IF fmt \in Columnar
             THEN /\ cols' = [t |-> Extended(cols.t, Times(b.ev)),
                              n |-> Extended(cols.n, Numbers(b.ev))]
                  /\ file' = file
             ELSE /\ file' = Begun \o Encoded(b.ev, b.tr)
                  /\ cols' = cols
          /\ count' = count + Len(b.ev)
          /\ given' = given \o b.ev /\ givenTr' = givenTr \o b.tr
          /\ now' = Latest(b)
    BY DEF Write
  <1>3. /\ phase = "open" /\ fmt' = fmt /\ phase' = phase /\ safe' = safe
        /\ promised' = promised /\ spoilt' = spoilt /\ ready' = TRUE
    BY DEF Write, Writing
  <1>4. /\ b.ev \in Seq(Stamped) /\ b.tr \in Seq(Stamped) /\ Latest(b) \in Nat
        /\ (b.tr # <<>> => fmt = "aedat4")
        /\ given \o b.ev \in Seq(Stamped) /\ givenTr \o b.tr \in Seq(Stamped)
        /\ Len(given \o b.ev) = Len(given) + Len(b.ev)
        /\ \A i \in 1 .. Len(given \o b.ev) : (given \o b.ev)[i].n = i
        /\ \A i \in 1 .. Len(givenTr \o b.tr) : (givenTr \o b.tr)[i].n = i
    BY <1>1, BatchGiven
  <1>5. file \in Seq(Records) /\ safe \in 0 .. Len(file) /\ given \in Seq(Stamped)
        /\ givenTr \in Seq(Stamped) /\ promised \in 0 .. Len(given)
    BY <1>1 DEF WTypes
  <1>6. promised \in 0 .. Len(given \o b.ev)
    BY <1>4, <1>5
  <1> DEFINE x == Encoded(b.ev, b.tr)
  <1>7. /\ x \in Seq(Records) /\ Numbers(Held(x, "ev")) = Numbers(b.ev)
        /\ Numbers(Held(x, "tr")) = Numbers(b.tr)
    BY <1>4, EncodedFacts
  <1> HIDE DEF x
  <1>8. /\ Begun \in Seq(Records) /\ safe \in 0 .. Len(Begun)
        /\ Take(Begun, safe) = Take(file, safe)
        /\ Held(Begun, "ev") = Held(file, "ev") /\ Held(Begun, "tr") = Held(file, "tr")
    BY <1>5, BegunFacts
  <1>9. /\ Begun \o x \in Seq(Records) /\ safe \in 0 .. Len(Begun \o x)
        /\ Take(Begun \o x, safe) = Take(file, safe)
    <2>1. /\ Begun \o x \in Seq(Records) /\ safe \in 0 .. Len(Begun \o x)
          /\ Take(Begun \o x, safe) = Take(Begun, safe)
      BY <1>7, <1>8, Grown
    <2> QED  BY <1>8, <2>1
  <1>10. file' \in Seq(Records) /\ safe \in 0 .. Len(file') /\ Take(file', safe) = Take(file, safe)
    <2>1. CASE fmt \in Columnar
      BY <1>2, <1>5, <2>1
    <2>2. CASE fmt \notin Columnar
      <3>1. file' = Begun \o x
        BY <1>2, <2>2 DEF x
      <3> QED  BY <1>9, <3>1
    <2> QED  BY <2>1, <2>2
  <1>11. WTypes'
    <2>1. /\ given' \in Seq(Stamped) /\ givenTr' \in Seq(Stamped)
          /\ promised' \in 0 .. Len(given') /\ now' \in Nat
      BY <1>2, <1>3, <1>4, <1>6
    <2>2. phase' \in {"open", "closed", "killed"} /\ ready' \in BOOLEAN /\ spoilt' \in BOOLEAN
      BY <1>1, <1>3 DEF WTypes
    <2>3. file' \in Seq(Records) /\ safe' \in 0 .. Len(file')
      BY <1>3, <1>10
    <2> QED  BY <2>1, <2>2, <2>3 DEF WTypes
  <1>12. Numbered'
    BY <1>2, <1>4 DEF Numbered
  <1>13. ColumnsInv'
    <2>1. SUFFICES ASSUME ~spoilt, fmt \in Columnar
                   PROVE  /\ file' = <<>> /\ givenTr' = <<>>
                          /\ cols' \in [t : Seq(Nat), n : Seq(Nat)]
                          /\ cols'.n = Numbers(given')
                          /\ Len(cols'.t) = Len(given') /\ count' = Len(given')
      BY <1>3 DEF ColumnsInv
    <2>2. /\ file = <<>> /\ givenTr = <<>> /\ cols \in [t : Seq(Nat), n : Seq(Nat)]
          /\ cols.n = Numbers(given) /\ Len(cols.t) = Len(given) /\ count = Len(given)
      BY <1>1, <2>1 DEF ColumnsInv
    <2>3. given \in Seq(Items) /\ b.ev \in Seq(Items)
      BY <1>4, <1>5, StampedItems
    <2>4. /\ Numbers(given) \in Seq(Nat) /\ Len(Numbers(given)) = Len(given)
          /\ Numbers(given \o b.ev) = Numbers(given) \o Numbers(b.ev)
      BY <2>3, NumbersConcat
    <2>5. Numbers(b.ev) \in Seq(Nat)
      BY <2>3, NumbersConcat
    <2>6. Times(b.ev) \in Seq(Nat) /\ Len(Times(b.ev)) = Len(b.ev)
      <3>1. DOMAIN b.ev = 1 .. Len(b.ev) /\ Len(b.ev) \in Nat
        BY <1>4
      <3>2. \A i \in 1 .. Len(b.ev) : b.ev[i].t \in Nat
        BY <1>4, StampedItems DEF Stamped
      <3>3. Times(b.ev) \in [1 .. Len(b.ev) -> Nat]
        BY <3>1, <3>2 DEF Times
      <3> QED  BY <3>1, <3>3
    <2>7. Extended(cols.n, Numbers(b.ev)) = Numbers(given \o b.ev)
      <3>1. cols.n \in Seq(Nat) /\ Len(cols.n) = count
        BY <2>2, <2>4
      <3>2. Extended(cols.n, Numbers(b.ev)) = cols.n \o Numbers(b.ev)
        BY <2>5, <3>1, ColumnGrows
      <3> QED  BY <2>2, <2>4, <3>2
    <2>8. Extended(cols.t, Times(b.ev)) = cols.t \o Times(b.ev)
      <3>1. cols.t \in Seq(Nat) /\ Len(cols.t) = count
        BY <2>2
      <3> QED  BY <2>6, <3>1, ColumnGrows
    <2>9. /\ cols.t \o Times(b.ev) \in Seq(Nat)
          /\ Len(cols.t \o Times(b.ev)) = Len(given) + Len(b.ev)
      <3>1. cols.t \in Seq(Nat)
        BY <2>2
      <3>2. /\ cols.t \o Times(b.ev) \in Seq(Nat)
            /\ Len(cols.t \o Times(b.ev)) = Len(cols.t) + Len(Times(b.ev))
        BY <2>6, <3>1, Joined
      <3> QED  BY <2>2, <2>6, <3>2
    <2>10. Numbers(given \o b.ev) \in Seq(Nat)
      <3>1. given \o b.ev \in Seq(Items)
        BY <1>4, StampedItems
      <3> QED  BY <3>1, NumbersConcat
    <2>11. cols' = [t |-> cols.t \o Times(b.ev), n |-> Numbers(given \o b.ev)]
      BY <1>2, <2>1, <2>7, <2>8
    <2>12. b.tr = <<>>
      BY <1>4, <2>1 DEF Columnar
    <2>13. file' = <<>> /\ givenTr' = <<>>
      BY <1>2, <2>1, <2>2, <2>12
    <2>14. count' = Len(given')
      BY <1>2, <1>4, <2>2
    <2>15. Len(cols'.t) = Len(given')
      BY <1>2, <1>4, <2>9, <2>11
    <2>16. cols'.n = Numbers(given') /\ cols' \in [t : Seq(Nat), n : Seq(Nat)]
      BY <1>2, <2>9, <2>10, <2>11
    <2> QED  BY <2>13, <2>14, <2>15, <2>16
  <1>14. RecordsInv'
    <2>1. SUFFICES ASSUME ~spoilt, fmt \notin Columnar
                   PROVE  /\ Numbers(Held(file', "ev")) = Numbers(given')
                          /\ Numbers(Held(file', "tr")) = Numbers(givenTr')
      BY <1>3 DEF RecordsInv
    <2>2. /\ Numbers(Held(Begun, "ev")) = Numbers(given)
          /\ Numbers(Held(Begun, "tr")) = Numbers(givenTr)
      BY <1>1, <1>3, <1>8, <2>1 DEF RecordsInv
    <2>3. given \in Seq(Items) /\ b.ev \in Seq(Items)
      BY <1>4, <1>5, StampedItems
    <2>4. givenTr \in Seq(Items) /\ b.tr \in Seq(Items)
      BY <1>4, <1>5, StampedItems
    <2>5. file' = Begun \o x
      BY <1>2, <2>1 DEF x
    <2>6. Numbers(Held(Begun \o x, "ev")) = Numbers(given \o b.ev)
      BY <1>7, <1>8, <2>2, <2>3, GrownNumbers
    <2>7. Numbers(Held(Begun \o x, "tr")) = Numbers(givenTr \o b.tr)
      BY <1>7, <1>8, <2>2, <2>4, GrownNumbers
    <2> QED  BY <1>2, <2>5, <2>6, <2>7
  <1>15. SafeInv'
    BY <1>1, <1>3, <1>10 DEF SafeInv
  <1>16. KilledInv'
    BY <1>3 DEF KilledInv
  <1> QED  BY <1>11, <1>12, <1>13, <1>14, <1>15, <1>16 DEF WInv

\* A write that raises keeps it.
LEMMA WriteFailsKeeps ==
  ASSUME WInv, WriteFails
  PROVE  WInv'
  <1>1. WTypes /\ Numbered /\ ColumnsInv /\ RecordsInv /\ SafeInv
    BY DEF WInv
  <1>2. PICK b \in Batches :
          /\ file' = IF fmt = "aedat4" THEN Begun \o Encoded(b.ev, <<>>) ELSE Begun
          /\ now' = IF fmt \in Columnar THEN Latest(b) ELSE now
    BY DEF WriteFails
  <1>3. /\ phase = "open" /\ fmt' = fmt /\ phase' = phase /\ safe' = safe
        /\ promised' = promised /\ ready' = TRUE /\ ~spoilt
        /\ given' = given /\ givenTr' = givenTr
        /\ spoilt' = (fmt \in Columnar \cup {"aedat4"})
    BY DEF WriteFails, Writing
  <1>4. b.ev \in Seq(Stamped) /\ Latest(b) \in Nat
    BY <1>1, BatchGiven
  <1>5. file \in Seq(Records) /\ safe \in 0 .. Len(file)
    BY <1>1 DEF WTypes
  <1> DEFINE x == Encoded(b.ev, <<>>)
  <1>6. x \in Seq(Records)
    <2>1. <<>> \in Seq(Stamped)
      OBVIOUS
    <2> QED  BY <1>4, <2>1, EncodedFacts
  <1> HIDE DEF x
  <1>7. /\ Begun \in Seq(Records) /\ safe \in 0 .. Len(Begun)
        /\ Take(Begun, safe) = Take(file, safe)
        /\ Held(Begun, "ev") = Held(file, "ev") /\ Held(Begun, "tr") = Held(file, "tr")
    BY <1>5, BegunFacts
  <1>8. Begun \o x \in Seq(Records) /\ safe \in 0 .. Len(Begun \o x)
    BY <1>6, <1>7, Grown
  <1>9. file' \in Seq(Records) /\ safe' \in 0 .. Len(file')
    <2>1. file' = Begun \o x \/ file' = Begun
      BY <1>2 DEF x
    <2> QED  BY <1>3, <1>7, <1>8, <2>1
  <1>10. WTypes'
    <2>1. now' \in Nat
      BY <1>1, <1>2, <1>4 DEF WTypes
    <2>2. spoilt' \in BOOLEAN
      BY <1>3
    <2> QED  BY <1>1, <1>3, <1>9, <2>1, <2>2 DEF WTypes
  <1>11. Numbered'
    BY <1>1, <1>3 DEF Numbered
  <1>12. ColumnsInv'
    BY <1>3 DEF ColumnsInv
  <1>13. ~spoilt' => file' = Begun
    BY <1>2, <1>3
  <1>14. RecordsInv'
    BY <1>1, <1>3, <1>7, <1>13 DEF RecordsInv
  <1>15. SafeInv'
    BY <1>1, <1>3, <1>7, <1>13 DEF SafeInv
  <1>16. KilledInv'
    BY <1>3 DEF KilledInv
  <1> QED  BY <1>10, <1>11, <1>12, <1>14, <1>15, <1>16 DEF WInv

\* flush() keeps it.
LEMMA FlushKeeps ==
  ASSUME WInv, Flush
  PROVE  WInv'
  <1>1. WTypes /\ Numbered /\ ColumnsInv /\ RecordsInv /\ SafeInv
    BY DEF WInv
  <1>2. /\ phase = "open" /\ fmt \notin Columnar /\ fmt' = fmt /\ phase' = phase
        /\ safe' = Len(file) /\ promised' = Len(given) /\ ready' = ready /\ file' = file
        /\ cols' = cols /\ count' = count /\ now' = now /\ given' = given /\ givenTr' = givenTr
        /\ spoilt' = spoilt
    BY DEF Flush, Writing
  <1>3. file \in Seq(Records) /\ given \in Seq(Stamped)
    BY <1>1 DEF WTypes
  <1>4. Len(file) \in 0 .. Len(file) /\ Len(given) \in 0 .. Len(given)
    BY <1>3
  <1>5. WTypes'
    BY <1>1, <1>2, <1>4 DEF WTypes
  <1>6. Numbered' /\ ColumnsInv' /\ RecordsInv'
    BY <1>1, <1>2 DEF Numbered, ColumnsInv, RecordsInv
  <1>7. SafeInv'
    <2>1. SUFFICES ASSUME ~spoilt
                   PROVE  Len(given) <= Len(Held(Take(file, Len(file)), "ev"))
      BY <1>2 DEF SafeInv
    <2>2. Numbers(Held(file, "ev")) = Numbers(given)
      BY <1>1, <1>2, <2>1 DEF RecordsInv
    <2>3. given \in Seq(Items)
      BY <1>3, StampedItems
    <2>4. Len(Held(file, "ev")) = Len(given) /\ Take(file, Len(file)) = file
      BY <1>3, <2>2, <2>3, Unpromised
    <2> QED  BY <1>4, <2>4
  <1>8. KilledInv'
    BY <1>2 DEF KilledInv
  <1> QED  BY <1>5, <1>6, <1>7, <1>8 DEF WInv

\* close() keeps it.
LEMMA CloseKeeps ==
  ASSUME WInv, Close
  PROVE  WInv'
  <1>1. WTypes /\ Numbered /\ ColumnsInv /\ RecordsInv /\ SafeInv
    BY DEF WInv
  <1>2. /\ phase = "open" /\ fmt' = fmt /\ phase' = "closed"
        /\ safe' = Len(file) /\ promised' = Len(given) /\ ready' \in BOOLEAN /\ file' = file
        /\ cols' = cols /\ count' = count /\ now' = now /\ given' = given /\ givenTr' = givenTr
        /\ spoilt' = spoilt
    <2>1. ready \in BOOLEAN
      BY <1>1 DEF WTypes
    <2>2. (ready \/ fmt \in Columnar) \in BOOLEAN
      OBVIOUS
    <2>3. ready' = (ready \/ fmt \in Columnar)
      BY DEF Close
    <2>4. ready' \in BOOLEAN
      BY <2>2, <2>3
    <2>5. /\ phase = "open" /\ fmt' = fmt /\ phase' = "closed"
          /\ safe' = Len(file) /\ promised' = Len(given) /\ file' = file
          /\ cols' = cols /\ count' = count /\ now' = now /\ given' = given
          /\ givenTr' = givenTr /\ spoilt' = spoilt
      BY DEF Close, Writing
    <2> QED  BY <2>4, <2>5
  <1>3. Len(file) \in 0 .. Len(file) /\ Len(given) \in 0 .. Len(given)
    BY <1>1 DEF WTypes
  <1>4. WTypes'
    BY <1>1, <1>2, <1>3 DEF WTypes
  <1>5. Numbered' /\ ColumnsInv'
    BY <1>1, <1>2 DEF Numbered, ColumnsInv
  <1>6. RecordsInv' /\ SafeInv' /\ KilledInv'
    BY <1>1, <1>2 DEF RecordsInv, SafeInv, KilledInv
  <1> QED  BY <1>4, <1>5, <1>6 DEF WInv

\* The end of a recording keeps it.
LEMMA RecordEndsKeeps ==
  ASSUME WInv, RecordEnds
  PROVE  WInv'
  <1>1. WTypes /\ Numbered /\ ColumnsInv /\ RecordsInv /\ SafeInv
    BY DEF WInv
  <1>2. /\ phase = "open" /\ fmt' = fmt /\ phase' = "closed"
        /\ safe' = safe /\ promised' = promised /\ ready' = ready /\ file' = file
        /\ cols' = cols /\ count' = count /\ now' = now /\ given' = given /\ givenTr' = givenTr
        /\ spoilt' = spoilt
    BY DEF RecordEnds
  <1>3. WTypes'
    BY <1>1, <1>2 DEF WTypes
  <1>4. Numbered' /\ ColumnsInv'
    BY <1>1, <1>2 DEF Numbered, ColumnsInv
  <1>5. RecordsInv' /\ SafeInv' /\ KilledInv'
    BY <1>1, <1>2 DEF RecordsInv, SafeInv, KilledInv
  <1> QED  BY <1>3, <1>4, <1>5 DEF WInv

\* Rows that are whole are kept, and a torn one is not.
LEMMA KeptFacts ==
  ASSUME NEW r \in Seq(Items), \A i \in 1 .. Len(r) : r[i].n # Torn, NEW x \in Items, x.n = Torn
  PROVE  Kept(r) = r /\ Kept(r \o <<x>>) = r
  <1> DEFINE Keep(s) == [i \in DOMAIN s |-> IF s[i].n = Torn THEN <<>> ELSE <<s[i]>>]
             n == Len(r)
             ss == Keep(r)
             q == r \o <<x>>
  <1>1. n \in Nat /\ DOMAIN r = 1 .. n /\ \A i \in 1 .. n : r[i] \in Items
    OBVIOUS
  <1>2. \A i \in 1 .. n : ss[i] = <<r[i]>>
    BY <1>1
  <1>3. ss \in [1 .. n -> Seq(Items)]
    <2>1. \A i \in 1 .. n : <<r[i]>> \in Seq(Items)
      BY <1>1
    <2>2. ss = [i \in 1 .. n |-> ss[i]]
      BY <1>1
    <2> HIDE DEF ss
    <2> QED  BY <1>2, <2>1, <2>2
  <1> HIDE DEF ss
  <1>4. ss \in Seq(Seq(Items)) /\ Len(ss) = n
    BY <1>1, <1>3
  <1>5. Flat(ss) = r
    BY <1>2, <1>4, FlatSingles
  <1>6. q \in Seq(Items) /\ Len(q) = n + 1 /\ (\A i \in 1 .. n : q[i] = r[i]) /\ q[n + 1] = x
    <2>1. <<x>> \in Seq(Items) /\ Len(<<x>>) = 1 /\ <<x>>[1] = x /\ 1 \in 1 .. Len(<<x>>)
      OBVIOUS
    <2> QED  BY <2>1, Joined
  <1> HIDE DEF q
  <1>7. Keep(q) = Append(ss, <<>>)
    <2> DEFINE S == Seq(Items)
               a == Keep(q)
               b == Append(ss, <<>>)
    <2>1. ss \in Seq(S) /\ <<>> \in S
      BY <1>4
    <2> HIDE DEF S
    <2>2. /\ b \in Seq(S) /\ Len(b) = n + 1 /\ (\A i \in 1 .. n : b[i] = ss[i])
          /\ b[n + 1] = <<>>
      BY <1>4, <2>1
    <2>3. DOMAIN q = 1 .. n + 1
      BY <1>6
    <2>4. \A i \in 1 .. n : r[i].n # Torn
      OBVIOUS
    <2>5. \A i \in 1 .. n + 1 : a[i] = b[i]
      <3> SUFFICES ASSUME NEW i \in 1 .. n + 1
                   PROVE  a[i] = b[i]
        OBVIOUS
      <3>1. a[i] = IF q[i].n = Torn THEN <<>> ELSE <<q[i]>>
        BY <2>3
      <3> HIDE DEF a, b
      <3>2. CASE i = n + 1
        <4>1. q[i] = x /\ b[i] = <<>>
          BY <1>6, <2>2, <3>2
        <4> QED  BY <3>1, <4>1
      <3>3. CASE i # n + 1
        <4>1. i \in 1 .. n
          BY <1>1, <3>3
        <4>2. q[i] = r[i] /\ b[i] = <<r[i]>>
          BY <1>2, <1>6, <2>2, <4>1
        <4>3. r[i].n # Torn
          BY <2>4, <4>1
        <4> QED  BY <3>1, <4>2, <4>3
      <3> QED  BY <3>2, <3>3
    <2>6. a = [i \in 1 .. n + 1 |-> a[i]]
      BY <2>3
    <2>7. b = [i \in 1 .. n + 1 |-> b[i]]
      <3> HIDE DEF b
      <3>1. b \in Seq(S)
        BY <2>2
      <3>2. b = [i \in 1 .. Len(b) |-> b[i]]
        BY <3>1
      <3> QED  BY <2>2, <3>2
    <2> HIDE DEF a, b
    <2>8. a = b
      BY <2>5, <2>6, <2>7
    <2> QED  BY <2>8 DEF a, b
  <1>8. Flat(Append(ss, <<>>)) = r
    <2> DEFINE S == Seq(Items)
    <2>1. ss \in Seq(S) /\ <<>> \in S
      BY <1>4
    <2> HIDE DEF S
    <2>2. Flat(Append(ss, <<>>)) = Flat(ss) \o <<>>
      BY <2>1, FlatAppend
    <2> QED  BY <1>5, <2>2
  <1>9. Kept(r) = Flat(ss)
    BY DEF Kept, ss
  <1>10. Kept(r \o <<x>>) = Flat(Keep(q))
    BY DEF Kept, q
  <1> HIDE DEF Keep
  <1> QED  BY <1>5, <1>7, <1>8, <1>9, <1>10

\* A file that was cut off holds a beginning of what it held.
LEMMA CutHeld ==
  ASSUME NEW f \in Seq(Records), NEW k \in 0 .. Len(f), NEW l \in 0 .. k,
         NEW g \in Seq(Stamped), \A i \in 1 .. Len(g) : g[i].n = i,
         Numbers(Held(f, "ev")) = Numbers(g)
  PROVE  LET h == Held(Take(f, k), "ev") IN
         /\ h \in Seq(Items) /\ IsPrefix(Numbers(h), Numbers(g))
         /\ \A i \in 1 .. Len(h) : h[i].n # Torn
         /\ Len(Held(Take(f, l), "ev")) <= Len(h)
  <1> DEFINE a == Take(f, k)
             b == Drop(f, k)
             c == Take(f, l)
             d == Drop(a, l)
             h == Held(a, "ev")
             u == Held(b, "ev")
  <1>1. a \in Seq(Records) /\ Len(a) = k /\ b \in Seq(Records) /\ f = a \o b
        /\ \A i \in 1 .. k : a[i] = f[i]
    BY Sliced, SMTT(30), ZenonT(30)
  <1>2. c = Take(a, l)
    <2>1. l \in 0 .. Len(f) /\ l \in 0 .. Len(a)
      BY <1>1
    <2> DEFINE e == Take(a, l)
    <2>2. c \in Seq(Records) /\ Len(c) = l /\ \A i \in 1 .. l : c[i] = f[i]
      BY <2>1, Sliced
    <2> HIDE DEF a
    <2>3. e \in Seq(Records) /\ Len(e) = l /\ \A i \in 1 .. l : e[i] = a[i]
      BY <1>1, <2>1, Sliced, SMTT(30), ZenonT(30)
    <2> HIDE DEF c, e
    <2>4. \A i \in 1 .. l : c[i] = e[i]
      <3> SUFFICES ASSUME NEW i \in 1 .. l
                   PROVE  c[i] = e[i]
        OBVIOUS
      <3>1. i \in 1 .. k
        OBVIOUS
      <3> QED  BY <1>1, <2>2, <2>3, <3>1
    <2>5. c = e
      BY <2>2, <2>3, <2>4, SameMembers
    <2> QED  BY <2>5 DEF e
  <1>3. c \in Seq(Records) /\ d \in Seq(Records) /\ a = c \o d
    <2>1. l \in 0 .. Len(a)
      BY <1>1
    <2> HIDE DEF a, c
    <2>2. Take(a, l) \in Seq(Records) /\ d \in Seq(Records) /\ a = Take(a, l) \o d
      BY <1>1, <2>1, Sliced, ZenonT(30), SMTT(30)
    <2> QED  BY <1>2, <2>2
  <1> HIDE DEF a, b, c, d
  <1>4. h \in Seq(Items)
    BY <1>1, HeldType
  <1>5. u \in Seq(Items)
    BY <1>1, HeldType
  <1>6. Held(f, "ev") = h \o u
    BY <1>1, HeldConcat
  <1>7. h = Held(c, "ev") \o Held(d, "ev")
    BY <1>3, HeldConcat
  <1> HIDE DEF u
  <1>8. Len(Held(c, "ev")) <= Len(h)
    <2> DEFINE v == Held(c, "ev")
               w == Held(d, "ev")
    <2>1. v \in Seq(Items)
      BY <1>3, HeldType
    <2>2. w \in Seq(Items)
      BY <1>3, HeldType
    <2> HIDE DEF h, v, w
    <2>3. Len(v \o w) = Len(v) + Len(w)
      BY <2>1, <2>2, Joined
    <2>4. Len(v) \in Nat /\ Len(w) \in Nat
      BY <2>1, <2>2
    <2>5. h = v \o w
      BY <1>7 DEF v, w
    <2>6. Len(v) <= Len(h)
      BY <2>3, <2>4, <2>5
    <2> QED  BY <2>6 DEF v
  <1> HIDE DEF h
  <1> DEFINE x == Numbers(h)
             y == Numbers(u)
             z == Numbers(g)
  <1>9. x \in Seq(Nat) /\ Len(x) = Len(h) /\ Numbers(h \o u) = x \o y
    BY <1>4, <1>5, NumbersConcat
  <1>10. y \in Seq(Nat)
    BY <1>5, NumbersConcat
  <1>11. z = x \o y
    BY <1>6, <1>9
  <1>12. g \in Seq(Items)
    BY StampedItems
  <1>13. z \in Seq(Nat) /\ Len(z) = Len(g)
    BY <1>12, NumbersConcat
  <1>14. \A i \in 1 .. Len(g) : z[i] = i
    BY DEF Numbers
  <1>15. \A i \in 1 .. Len(h) : x[i] = h[i].n
    BY <1>4 DEF Numbers
  <1> HIDE DEF x, y, z
  <1>16. Len(z) = Len(x) + Len(y) /\ \A i \in 1 .. Len(x) : z[i] = x[i]
    <2>1. x \in Seq(Nat) /\ y \in Seq(Nat)
      BY <1>9, <1>10
    <2>2. Len(x \o y) = Len(x) + Len(y) /\ \A i \in 1 .. Len(x) : (x \o y)[i] = x[i]
      BY <2>1, Joined
    <2> QED  BY <1>11, <2>2, Zenon
  <1>17. Len(x) \in Nat /\ Len(y) \in Nat /\ Len(g) \in Nat
    BY <1>9, <1>10
  <1>18. IsPrefix(x, z)
    BY <1>9, <1>13, <1>16, <1>17 DEF IsPrefix
  <1>19. \A i \in 1 .. Len(h) : h[i].n # Torn
    <2> SUFFICES ASSUME NEW i \in 1 .. Len(h)
                 PROVE  h[i].n # Torn
      OBVIOUS
    <2>1. i \in 1 .. Len(x) /\ i \in 1 .. Len(g) /\ i # 0
      BY <1>9, <1>13, <1>16, <1>17
    <2>2. h[i].n = i
      BY <1>14, <1>15, <1>16, <2>1
    <2> QED  BY <2>1, <2>2 DEF Torn
  <1> QED  BY <1>4, <1>8, <1>18, <1>19 DEF a, c, h, x, z

\* What a kill leaves of the file holds what was promised.
LEMMA KilledHeld ==
  ASSUME NEW f \in Seq(Records), NEW k \in 0 .. Len(f), NEW l \in 0 .. k,
         NEW g \in Seq(Stamped), \A i \in 1 .. Len(g) : g[i].n = i,
         Numbers(Held(f, "ev")) = Numbers(g),
         NEW p \in Nat, p <= Len(Held(Take(f, l), "ev")),
         NEW c, c = Take(f, k)
                \/ c = Append(Take(f, k), [kind |-> "ev", over |-> 0,
                                           body |-> <<[n |-> Torn, t |-> 0]>>])
  PROVE  /\ c \in Seq(Records) /\ l \in 0 .. Len(c)
         /\ IsPrefix(Numbers(Kept(Held(Bare(c), "ev"))), Numbers(g))
         /\ p <= Len(Kept(Held(Bare(c), "ev")))
  <1> DEFINE a == Take(f, k)
             h == Held(a, "ev")
             x == [n |-> Torn, t |-> 0]
             r == [kind |-> "ev", over |-> 0, body |-> <<x>>]
  <1>1. a \in Seq(Records) /\ Len(a) = k
    BY Sliced
  <1>2. /\ h \in Seq(Items) /\ IsPrefix(Numbers(h), Numbers(g))
        /\ (\A i \in 1 .. Len(h) : h[i].n # Torn)
        /\ Len(Held(Take(f, l), "ev")) <= Len(h)
    BY CutHeld
  <1>3. x \in Items /\ x.n = Torn
    BY DEF Items, Torn
  <1>4. <<x>> \in Seq(Items)
    BY <1>3
  <1> HIDE DEF x
  <1>5. r \in Records /\ r.kind = "ev" /\ r.body = <<x>>
    BY <1>4 DEF Records
  <1>6. c = a \/ c = Append(a, r)
    BY DEF x
  <1> HIDE DEF r
  <1>7. <<r>> \in Seq(Records) /\ Len(<<r>>) = 1 /\ Append(a, r) = a \o <<r>>
    BY <1>1, <1>5, SMTT(30), ZenonT(30)
  <1>8. p <= Len(h)
    <2>1. Held(Take(f, l), "ev") \in Seq(Items)
      <3>1. l \in 0 .. Len(f)
        OBVIOUS
      <3>2. Take(f, l) \in Seq(Records)
        BY <3>1, Sliced
      <3> QED  BY <3>2, HeldType
    <2> DEFINE v == Held(Take(f, l), "ev")
    <2>2. p <= Len(v) /\ Len(v) <= Len(h)
      BY <1>2
    <2>3. Len(v) \in Nat /\ Len(h) \in Nat
      BY <1>2, <2>1
    <2> HIDE DEF v, h
    <2> QED  BY <2>2, <2>3
  <1> HIDE DEF a
  <1>9. c \in Seq(Records) /\ l \in 0 .. Len(c)
    <2>1. CASE c = a
      BY <1>1, <2>1
    <2>2. CASE c = Append(a, r)
      <3>1. c \in Seq(Records) /\ Len(c) = k + 1
        BY <1>1, <1>5, <2>2
      <3> QED  BY <3>1
    <2> QED  BY <1>6, <2>1, <2>2
  <1>10. Held(Bare(c), "ev") = Held(c, "ev")
    BY <1>9, HeldBare
  <1>11. Held(c, "ev") = h \/ Held(c, "ev") = h \o <<x>>
    <2>1. CASE c = a
      BY <2>1
    <2>2. CASE c = Append(a, r)
      <3>1. Held(a \o <<r>>, "ev") = h \o Held(<<r>>, "ev")
        BY <1>1, <1>7, HeldConcat, ZenonT(30), SMTT(30)
      <3>2. Held(<<r>>, "ev") = <<x>>
        BY <1>5, HeldOne
      <3> QED  BY <1>7, <2>2, <3>1, <3>2
    <2> QED  BY <1>6, <2>1, <2>2
  <1> HIDE DEF h
  <1>12. Kept(h) = h /\ Kept(h \o <<x>>) = h
    BY <1>2, <1>3, KeptFacts
  <1>13. Kept(Held(Bare(c), "ev")) = h
    BY <1>10, <1>11, <1>12
  <1> QED  BY <1>2, <1>8, <1>9, <1>13

\* The end of the process keeps it.
LEMMA KillKeeps ==
  ASSUME WInv, Kill
  PROVE  WInv'
  <1>1. WTypes /\ Numbered /\ ColumnsInv /\ RecordsInv /\ SafeInv
    BY DEF WInv
  <1>2. /\ phase = "open" /\ fmt \notin Columnar /\ fmt' = fmt /\ phase' = "killed"
        /\ safe' = safe /\ promised' = promised /\ ready' = ready
        /\ now' = now /\ given' = given /\ givenTr' = givenTr /\ spoilt' = spoilt
    BY DEF Kill, Writing
  <1>3. PICK k \in safe .. Len(file) :
          \/ file' = Take(file, k)
          \/ file' = Append(Take(file, k), [kind |-> "ev", over |-> 0,
                                            body |-> <<[n |-> Torn, t |-> 0]>>])
    BY DEF Kill
  <1>4. /\ file \in Seq(Records) /\ given \in Seq(Stamped) /\ safe \in 0 .. Len(file)
        /\ promised \in 0 .. Len(given)
    BY <1>1 DEF WTypes
  <1>5. k \in 0 .. Len(file) /\ safe \in 0 .. k /\ promised \in Nat
    BY <1>4
  <1>6. file' \in Seq(Records) /\ safe \in 0 .. Len(file')
    <2> DEFINE a == Take(file, k)
               r == [kind |-> "ev", over |-> 0, body |-> <<[n |-> Torn, t |-> 0]>>]
    <2>1. a \in Seq(Records) /\ Len(a) = k
      BY <1>4, <1>5, Sliced
    <2>2. r \in Records
      <3> DEFINE x == [n |-> Torn, t |-> 0]
      <3>1. x \in Items
        BY DEF Items, Torn
      <3> HIDE DEF x
      <3>2. <<x>> \in Seq(Items)
        BY <3>1
      <3>3. [kind |-> "ev", over |-> 0, body |-> <<x>>] \in Records
        BY <3>2 DEF Records
      <3> QED  BY <3>3 DEF x
    <2>3. file' = a \/ file' = Append(a, r)
      BY <1>3
    <2> HIDE DEF a, r
    <2>4. CASE file' = a
      BY <1>5, <2>1, <2>4
    <2>5. CASE file' = Append(a, r)
      <3>1. Append(a, r) \in Seq(Records) /\ Len(Append(a, r)) = k + 1
        BY <2>1, <2>2
      <3>2. safe \in 0 .. k + 1
        BY <1>5
      <3> QED  BY <2>5, <3>1, <3>2
    <2> QED  BY <2>3, <2>4, <2>5
  <1>7. WTypes'
    BY <1>1, <1>2, <1>6 DEF WTypes
  <1>8. Numbered' /\ ColumnsInv' /\ RecordsInv' /\ SafeInv'
    BY <1>1, <1>2 DEF Numbered, ColumnsInv, RecordsInv, SafeInv
  <1>9. KilledInv'
    <2>1. SUFFICES ASSUME ~spoilt
                   PROVE  PromiseKept'
      BY <1>2 DEF KilledInv
    <2>2. \A i \in 1 .. Len(given) : given[i].n = i
      BY <1>1 DEF Numbered
    <2>3. Numbers(Held(file, "ev")) = Numbers(given)
      BY <1>1, <1>2, <2>1 DEF RecordsInv
    <2>4. promised <= Len(Held(Take(file, safe), "ev"))
      BY <1>1, <1>2, <2>1 DEF SafeInv
    <2>5. /\ IsPrefix(Numbers(Kept(Held(Bare(file'), "ev"))), Numbers(given))
          /\ promised <= Len(Kept(Held(Bare(file'), "ev")))
      BY <1>3, <1>4, <1>5, <2>2, <2>3, <2>4, KilledHeld
    <2>6. PromiseKept' = /\ IsPrefix(Numbers(Kept(Held(Bare(file'), "ev"))), Numbers(given'))
                         /\ Len(Kept(Held(Bare(file'), "ev"))) >= promised'
      BY DEF PromiseKept, Kept, Bare, Data
    <2>7. \A p, q : p <= q => q >= p
      OBVIOUS
    <2> QED  BY <1>2, <2>5, <2>6, <2>7
  <1> QED  BY <1>7, <1>8, <1>9 DEF WInv

\* A recording of another program keeps it.
LEMMA RecordOtherKeeps ==
  ASSUME WInv, RecordOther
  PROVE  WInv'
  <1>1. WTypes /\ Numbered /\ ColumnsInv /\ RecordsInv /\ SafeInv
    BY DEF WInv
  <1>2. /\ phase = "open" /\ fmt' = fmt /\ phase' = phase /\ safe' = safe
        /\ promised' = promised /\ ready' = ready /\ spoilt' = spoilt /\ fmt \notin Columnar
    BY DEF RecordOther, Recorded, Columnar
  <1>3. PICK kind \in {"ev", "tr", "other"}, n \in Nat \ {0} :
        \E d \in [1 .. n -> Steps] :
          LET es == Arrivals(n, d)
              tr == <<[n |-> Len(givenTr) + 1, t |-> es[1].t]>>
          IN /\ file' = Append(file, Record(kind, IF kind = "tr" THEN tr ELSE es))
             /\ given' = (IF kind = "ev" THEN given \o es ELSE given)
             /\ givenTr' = (IF kind = "tr" THEN givenTr \o tr ELSE givenTr)
             /\ now' = Last(es).t
    <2>1. \E kind \in (IF fmt = "aedat1" THEN {"ev"} ELSE {"ev", "tr", "other"}) :
          \E n \in 1 .. (IF fmt = "aedat3" /\ kind = "ev" THEN MaxBatch ELSE 1) :
          \E d \in [1 .. n -> Steps] :
          LET es == Arrivals(n, d)
              tr == <<[n |-> Len(givenTr) + 1, t |-> es[1].t]>>
          IN /\ file' = Append(file, Record(kind, IF kind = "tr" THEN tr ELSE es))
             /\ given' = (IF kind = "ev" THEN given \o es ELSE given)
             /\ givenTr' = (IF kind = "tr" THEN givenTr \o tr ELSE givenTr)
             /\ now' = Last(es).t
      BY ZenonT(30), SMTT(30) DEF RecordOther
    <2>2. (IF fmt = "aedat1" THEN {"ev"} ELSE {"ev", "tr", "other"}) \subseteq {"ev", "tr", "other"}
      OBVIOUS
    <2>3. \A m : 1 .. m \subseteq Nat \ {0}
      OBVIOUS
    <2> QED  BY <2>1, <2>2, <2>3, Zenon
  <1>4. PICK d \in [1 .. n -> Steps] :
          LET es == Arrivals(n, d)
              tr == <<[n |-> Len(givenTr) + 1, t |-> es[1].t]>>
          IN /\ file' = Append(file, Record(kind, IF kind = "tr" THEN tr ELSE es))
             /\ given' = (IF kind = "ev" THEN given \o es ELSE given)
             /\ givenTr' = (IF kind = "tr" THEN givenTr \o tr ELSE givenTr)
             /\ now' = Last(es).t
    BY <1>3
  <1> DEFINE es == Arrivals(n, d)
             tr == <<[n |-> Len(givenTr) + 1, t |-> es[1].t]>>
             body == IF kind = "tr" THEN tr ELSE es
             r == Record(kind, body)
  <1>5. /\ file' = Append(file, r)
        /\ given' = (IF kind = "ev" THEN given \o es ELSE given)
        /\ givenTr' = (IF kind = "tr" THEN givenTr \o tr ELSE givenTr)
        /\ now' = Last(es).t
    BY <1>4
  <1>6. /\ now \in Nat /\ given \in Seq(Stamped) /\ givenTr \in Seq(Stamped)
        /\ file \in Seq(Records) /\ safe \in 0 .. Len(file) /\ promised \in 0 .. Len(given)
    BY <1>1 DEF WTypes
  <1>7. /\ es \in Seq(Stamped) /\ Len(es) = n
        /\ \A i \in 1 .. n : es[i].n = Len(given) + i
    <2>1. n \in Nat
      OBVIOUS
    <2> QED  BY <1>6, <2>1, ArrivalsType
  <1> HIDE DEF es
  <1>8. es[1].t \in Nat /\ Last(es).t \in Nat /\ es # <<>>
    <2>1. es[1] \in Stamped /\ es[n] \in Stamped
      BY <1>7
    <2> QED  BY <1>7, <2>1 DEF Last, Stamped
  <1>9. /\ tr \in Seq(Stamped) /\ tr # <<>>
        /\ \A i \in 1 .. Len(tr) : tr[i].n = Len(givenTr) + i
    <2> DEFINE x == [n |-> Len(givenTr) + 1, t |-> es[1].t]
    <2>1. x \in Stamped /\ x.n = Len(givenTr) + 1
      <3>1. Len(givenTr) + 1 \in Nat \ {0}
        BY <1>6
      <3> QED  BY <1>8, <3>1 DEF Stamped
    <2> HIDE DEF x
    <2>2. <<x>> \in Seq(Stamped) /\ <<x>> # <<>> /\ Len(<<x>>) = 1 /\ <<x>>[1] = x
      BY <2>1
    <2>3. \A i \in 1 .. Len(<<x>>) : <<x>>[i].n = Len(givenTr) + i
      BY <2>1, <2>2
    <2> QED  BY <2>2, <2>3 DEF x
  <1> HIDE DEF tr
  <1>10. body \in Seq(Stamped) /\ body # <<>>
    BY <1>7, <1>8, <1>9
  <1>11. r \in Records /\ r.kind = kind /\ Numbers(r.body) = Numbers(body)
    <2> HIDE DEF body
    <2> QED  BY <1>10, RecordFacts
  <1> HIDE DEF r
  <1>12. <<r>> \in Seq(Records) /\ Append(file, r) = file \o <<r>>
    BY <1>6, <1>11
  <1>13. file' = file \o <<r>>
    BY <1>5, <1>12
  <1>14. /\ file \o <<r>> \in Seq(Records) /\ safe \in 0 .. Len(file \o <<r>>)
         /\ Take(file \o <<r>>, safe) = Take(file, safe)
    BY <1>6, <1>12, Grown
  <1>15. \A i \in 1 .. Len(given) : given[i].n = i
    BY <1>1 DEF Numbered
  <1>16. \A i \in 1 .. Len(givenTr) : givenTr[i].n = i
    BY <1>1 DEF Numbered
  <1>17. /\ given' \in Seq(Stamped) /\ \A i \in 1 .. Len(given') : given'[i].n = i
         /\ promised \in 0 .. Len(given')
    <2>1. CASE kind = "ev"
      <3>1. /\ given \o es \in Seq(Stamped) /\ Len(given \o es) = Len(given) + Len(es)
            /\ \A i \in 1 .. Len(given \o es) : (given \o es)[i].n = i
        BY <1>6, <1>7, <1>15, StillNumbered
      <3>2. promised \in 0 .. Len(given) + Len(es)
        BY <1>6, <1>7
      <3>3. given' = given \o es
        BY <1>5, <2>1
      <3> QED  BY <3>1, <3>2, <3>3
    <2>2. CASE kind # "ev"
      <3>1. given' = given
        BY <1>5, <2>2
      <3> QED  BY <1>6, <1>15, <3>1
    <2> QED  BY <2>1, <2>2
  <1>18. givenTr' \in Seq(Stamped) /\ \A i \in 1 .. Len(givenTr') : givenTr'[i].n = i
    <2>1. CASE kind = "tr"
      <3>1. /\ givenTr \o tr \in Seq(Stamped)
            /\ \A i \in 1 .. Len(givenTr \o tr) : (givenTr \o tr)[i].n = i
        BY <1>6, <1>9, <1>16, StillNumbered
      <3>2. givenTr' = givenTr \o tr
        BY <1>5, <2>1
      <3> QED  BY <3>1, <3>2
    <2>2. CASE kind # "tr"
      <3>1. givenTr' = givenTr
        BY <1>5, <2>2
      <3> QED  BY <1>6, <1>16, <3>1
    <2> QED  BY <2>1, <2>2
  <1>19. WTypes'
    <2>1. now' \in Nat
      BY <1>5, <1>8
    <2>2. file' \in Seq(Records) /\ safe' \in 0 .. Len(file')
      BY <1>2, <1>13, <1>14
    <2>3. promised' \in 0 .. Len(given')
      BY <1>2, <1>17
    <2> QED  BY <1>1, <1>2, <1>17, <1>18, <2>1, <2>2, <2>3 DEF WTypes
  <1>20. Numbered'
    BY <1>17, <1>18 DEF Numbered
  <1>21. ColumnsInv'
    BY <1>2 DEF ColumnsInv
  <1>22. RecordsInv'
    <2>1. SUFFICES ASSUME ~spoilt
                   PROVE  /\ Numbers(Held(file', "ev")) = Numbers(given')
                          /\ Numbers(Held(file', "tr")) = Numbers(givenTr')
      BY <1>2 DEF RecordsInv
    <2>2. Numbers(Held(file, "ev")) = Numbers(given) /\ Numbers(Held(file, "tr")) = Numbers(givenTr)
      BY <1>1, <1>2, <2>1 DEF RecordsInv
    <2>3. given \in Seq(Items) /\ es \in Seq(Items) /\ <<>> \in Seq(Items)
      BY <1>6, <1>7, StampedItems
    <2>4. givenTr \in Seq(Items) /\ tr \in Seq(Items)
      BY <1>6, <1>9, StampedItems
    <2>5. /\ given' = given \o (IF kind = "ev" THEN es ELSE <<>>)
          /\ givenTr' = givenTr \o (IF kind = "tr" THEN tr ELSE <<>>)
      <3>1. given \o <<>> = given /\ givenTr \o <<>> = givenTr
        BY <1>6
      <3> QED  BY <1>5, <3>1
    <2>6. Held(<<r>>, "ev") = IF kind = "ev" THEN r.body ELSE <<>>
      BY <1>11, HeldOne
    <2>7. Held(<<r>>, "tr") = IF kind = "tr" THEN r.body ELSE <<>>
      BY <1>11, HeldOne
    <2>8. kind = "ev" => body = es
      OBVIOUS
    <2>9. kind = "tr" => body = tr
      OBVIOUS
    <2> HIDE DEF body
    <2>10. Numbers(Held(<<r>>, "ev")) = Numbers(IF kind = "ev" THEN es ELSE <<>>)
      BY <1>11, <2>6, <2>8
    <2>11. Numbers(Held(<<r>>, "tr")) = Numbers(IF kind = "tr" THEN tr ELSE <<>>)
      BY <1>11, <2>7, <2>9
    <2> DEFINE evs == IF kind = "ev" THEN es ELSE <<>>
               trs == IF kind = "tr" THEN tr ELSE <<>>
    <2>12. evs \in Seq(Items)
      BY <2>3
    <2>13. trs \in Seq(Items)
      BY <2>3, <2>4
    <2>14. /\ Numbers(Held(<<r>>, "ev")) = Numbers(evs) /\ given' = given \o evs
           /\ Numbers(Held(<<r>>, "tr")) = Numbers(trs) /\ givenTr' = givenTr \o trs
      BY <2>5, <2>10, <2>11
    <2> HIDE DEF evs, trs
    <2> DEFINE more == <<r>>
    <2>15. /\ more \in Seq(Records) /\ Numbers(Held(more, "ev")) = Numbers(evs)
           /\ Numbers(Held(more, "tr")) = Numbers(trs)
      BY <1>12, <2>14
    <2>16. file' = file \o more
      BY <1>13
    <2> HIDE DEF more
    <2>17. Numbers(Held(file \o more, "ev")) = Numbers(given \o evs)
      BY <1>6, <2>2, <2>3, <2>12, <2>15, GrownNumbers
    <2>18. Numbers(Held(file \o more, "tr")) = Numbers(givenTr \o trs)
      BY <1>6, <2>2, <2>4, <2>13, <2>15, GrownNumbers
    <2> QED  BY <2>14, <2>16, <2>17, <2>18
  <1>23. SafeInv'
    BY <1>1, <1>2, <1>13, <1>14 DEF SafeInv
  <1>24. KilledInv'
    BY <1>2 DEF KilledInv
  <1> QED  BY <1>19, <1>20, <1>21, <1>22, <1>23, <1>24 DEF WInv

-----------------------------------------------------------------------------
(* The theorem.                                                             *)

\* The invariant holds in the initial states.
LEMMA WriterStarts == Init => WInv
  <1> SUFFICES ASSUME Init
               PROVE  WInv
    OBVIOUS
  <1>1. /\ now \in Nat /\ phase = "open" /\ ready = FALSE /\ file = <<>> /\ cols = EmptyColumns
        /\ count = 0 /\ safe = 0 /\ given = <<>> /\ givenTr = <<>> /\ promised = 0
        /\ spoilt = FALSE
    <2>1. Starts \subseteq Nat
      BY WriterAssumption
    <2> QED  BY <2>1 DEF Init, WriterInit
  <1>2. WTypes
    <2>1. <<>> \in Seq(Records) /\ <<>> \in Seq(Stamped) /\ 0 \in 0 .. Len(<<>>)
      OBVIOUS
    <2> QED  BY <1>1, <2>1 DEF WTypes
  <1>3. Numbered
    BY <1>1 DEF Numbered
  <1>4. Numbers(<<>>) = <<>> /\ Take(<<>>, 0) = <<>>
    BY DEF Numbers, Take
  <1>5. ColumnsInv
    BY <1>1, <1>4 DEF ColumnsInv, EmptyColumns
  <1>6. Held(<<>>, "ev") = <<>>
    BY HeldNone
  <1>7. Held(<<>>, "tr") = <<>>
    BY HeldNone
  <1>8. RecordsInv
    BY <1>1, <1>6, <1>7 DEF RecordsInv
  <1>9. SafeInv
    <2>1. Len(<<>>) = 0 /\ 0 <= 0
      OBVIOUS
    <2> QED  BY <1>1, <1>4, <1>6, <2>1 DEF SafeInv
  <1>10. KilledInv
    BY <1>1 DEF KilledInv
  <1> QED  BY <1>2, <1>3, <1>5, <1>8, <1>9, <1>10 DEF WInv

\* A step that leaves the writer alone keeps it.
LEMMA WriterRests ==
  ASSUME WInv, UNCHANGED wvars
  PROVE  WInv'
  BY DEF WInv, wvars, WTypes, Numbered, ColumnsInv, RecordsInv, SafeInv, KilledInv, PromiseKept,
         Data

\* So every step keeps the invariant.
LEMMA WriterSteps == WInv /\ [Next]_vars => WInv'
  <1> SUFFICES ASSUME WInv, [Next]_vars
               PROVE  WInv'
    OBVIOUS
  <1>1. CASE InitWriter
    BY <1>1, InitWriterKeeps
  <1>2. CASE Write
    BY <1>2, WriteKeeps
  <1>3. CASE WriteFails
    BY <1>3, WriteFailsKeeps
  <1>4. CASE Flush
    BY <1>4, FlushKeeps
  <1>5. CASE Close
    BY <1>5, CloseKeeps
  <1>6. CASE Kill
    BY <1>6, KillKeeps
  <1>7. CASE RecordOther
    BY <1>7, RecordOtherKeeps
  <1>8. CASE RecordEnds
    BY <1>8, RecordEndsKeeps
  <1>9. CASE Open \/ ReadChunk \/ ReadAll \/ ReadRest
    <2>1. UNCHANGED wvars
      BY <1>9 DEF Open, ReadChunk, ReadAll, ReadRest
    <2> QED  BY <2>1, WriterRests
  <1>10. CASE Reading
    <2>1. UNCHANGED wvars
      BY <1>10 DEF Reading, Decode, CsvLoop, CsvReturn
    <2> QED  BY <2>1, WriterRests
  <1>11. CASE SeekTime \/ SeekIndex \/ Reset \/ ReadMs
    <2>1. UNCHANGED wvars
      BY <1>11 DEF SeekTime, SeekIndex, Seek, Reset, ReadMs
    <2> QED  BY <2>1, WriterRests
  <1>12. CASE UNCHANGED vars
    <2>1. UNCHANGED wvars
      BY <1>12 DEF vars
    <2> QED  BY <2>1, WriterRests
  <1> QED  BY <1>1, <1>2, <1>3, <1>4, <1>5, <1>6, <1>7, <1>8, <1>9, <1>10, <1>11, <1>12 DEF Next

\* What the invariant says of a file that is read.
LEMMA HoldsAll == WInv => FileHoldsAll
  <1> SUFFICES ASSUME WInv
               PROVE  FileHoldsAll
    OBVIOUS
  <1>1. WTypes /\ Numbered /\ ColumnsInv /\ RecordsInv /\ SafeInv /\ KilledInv
    BY DEF WInv
  <1>2. file \in Seq(Records) /\ given \in Seq(Stamped) /\ Data = Bare(file)
    BY <1>1 DEF WTypes, Data, Bare
  <1>3. given \in Seq(Items)
    BY <1>2, StampedItems
  <1>4. ASSUME Readable
        PROVE  ClosedHoldsAll
    <2>1. phase = "closed" /\ ~spoilt
      BY <1>4 DEF Readable
    <2>2. CASE fmt \in Columnar
      <3>1. /\ file = <<>> /\ givenTr = <<>> /\ cols.n = Numbers(given)
            /\ Len(cols.t) = Len(given) /\ count = Len(given)
        BY <1>1, <2>1, <2>2 DEF ColumnsInv
      <3>2. Data = <<>>
        BY <1>2, <3>1, HeldNone
      <3>3. Held(Data, "tr") = <<>>
        BY <3>2, HeldNone
      <3>4. Total = Len(given)
        BY <2>2, <3>1 DEF Total, Columnar, ArchiveLength, DatasetLength
      <3> QED  BY <2>2, <3>1, <3>3, <3>4 DEF ClosedHoldsAll
    <2>3. CASE fmt \notin Columnar
      <3>1. Numbers(Held(file, "ev")) = Numbers(given) /\ Numbers(Held(file, "tr")) = Numbers(givenTr)
        BY <1>1, <2>1, <2>3 DEF RecordsInv
      <3>2. Held(Data, "ev") = Held(file, "ev")
        BY <1>2, HeldBare
      <3>3. Held(Data, "tr") = Held(file, "tr")
        BY <1>2, HeldBare
      <3>4. Len(Held(file, "ev")) = Len(given)
        BY <1>2, <1>3, <3>1, Unpromised
      <3>5. Total = Len(given)
        BY <2>3, <3>2, <3>4 DEF Total, Columnar
      <3> QED  BY <2>3, <3>1, <3>2, <3>3, <3>5 DEF ClosedHoldsAll
    <2> QED  BY <2>2, <2>3
  <1>5. phase = "killed" /\ ~spoilt => PromiseKept
    BY <1>1 DEF KilledInv
  <1> QED  BY <1>4, <1>5 DEF FileHoldsAll

\* EventWriter.close() leaves a file, or an archive, with every event and every
\* trigger of the writes that returned, in order and once, and a count that
\* says so; and when the program is killed instead, whatever part of its
\* buffers had been written, the file holds a beginning of what was given, with
\* everything that was given when flush() last returned.  For every format,
\* batch and number of writes.
THEOREM FileAlwaysHoldsAll == Spec => []FileHoldsAll
  <1>1. Init => WInv
    BY WriterStarts
  <1>2. WInv /\ [Next]_vars => WInv'
    BY WriterSteps
  <1>3. WInv => FileHoldsAll
    BY HoldsAll
  <1> QED  BY <1>1, <1>2, <1>3, PTL DEF Spec
=============================================================================
