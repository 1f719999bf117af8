--------------------------- MODULE PrefetchProofs ---------------------------
(***************************************************************************)
(* Theorems about Prefetch, for any set of user threads, any length of the *)
(* source and any depth of the queue.                                      *)
(***************************************************************************)
EXTENDS Prefetch, Integers, TLAPS

(***************************************************************************)
(* Type correctness.  TypeOK is inductive as it stands.                    *)
(***************************************************************************)
LEMMA TypeInit == Init => TypeOK
  <1> SUFFICES ASSUME Init PROVE TypeOK
    OBVIOUS
  <1> USE PrefetchAssumption DEF Init
  <1>1. chunks \in Nat /\ made \in 0 .. chunks /\ item \in Nat
    BY DEF Sentinel
  <1>2. queue \in Seq(Nat) /\ Len(queue) <= Depth /\ got \in Seq(Nat)
    OBVIOUS
  <1>3. /\ fails \in BOOLEAN /\ exc \in BOOLEAN /\ stop \in BOOLEAN
        /\ finished \in BOOLEAN /\ active \in BOOLEAN
    BY Zenon
  <1>4. /\ worker \in WorkerStates
        /\ ending \in {"open", "stopped", "raised", "closed"}
        /\ user \in [Users -> UserStates]
        /\ op \in [Users -> {"none", "next", "close"}]
    BY DEF WorkerStates, UserStates
  <1> QED BY <1>1, <1>2, <1>3, <1>4 DEF TypeOK

\* Every step keeps the types.
LEMMA TypeStep == TypeOK /\ [Next]_vars => TypeOK'
  <1> SUFFICES ASSUME TypeOK, [Next]_vars PROVE TypeOK'
    OBVIOUS
  <1> USE PrefetchAssumption
  <1>1. CASE Worker
    <2> USE DEF TypeOK, WorkerStates, UserStates, wvars, fvars, Sentinel,
                AfterPut, Cancelled
    <2>1. CASE Decode BY <2>1 DEF Decode
    <2>2. CASE SourceEnds BY <2>2 DEF SourceEnds
    <2>3. CASE CheckStop BY <2>3 DEF CheckStop
    <2>4. CASE Put BY <2>4 DEF Put
    <2>5. CASE PutFull BY <2>5 DEF PutFull
    <2>6. CASE CloseSource BY <2>6 DEF CloseSource
    <2> QED BY <1>1, <2>1, <2>2, <2>3, <2>4, <2>5, <2>6 DEF Worker
  <1>2. ASSUME NEW u \in Users, InCall(u) PROVE TypeOK'
    <2> USE DEF TypeOK, WorkerStates, UserStates, wvars, fvars, Goto
    <2>1. CASE Get(u)
      <3>1. /\ Head(queue) \in Nat
            /\ Tail(queue) \in Seq(Nat) /\ Len(Tail(queue)) <= Depth
        BY <2>1 DEF Get
      <3>2. queue' \in Seq(Nat) /\ Len(queue') <= Depth
        BY <2>1, <3>1 DEF Get
      <3>3. got' \in Seq(Nat)
        <4>1. Append(got, Head(queue)) \in Seq(Nat)
          BY <3>1
        <4>2. got' = got \/ got' = Append(got, Head(queue))
          BY <2>1 DEF Get
        <4> QED BY <4>1, <4>2
      <3>4. user' \in [Users -> UserStates]
        BY <2>1 DEF Get
      <3>5. /\ UNCHANGED <<chunks, fails>> /\ UNCHANGED <<made, worker, item, exc>>
            /\ UNCHANGED <<stop, op>> /\ UNCHANGED <<finished, ending, active>>
        BY <2>1 DEF Get
      <3> QED BY <3>2, <3>3, <3>4, <3>5
    <2>2. CASE Join(u) BY <2>2 DEF Join
    <2>3. CASE Drain(u) BY <2>3 DEF Drain
    <2>4. CASE Drained(u) BY <2>4 DEF Drained
    <2>5. CASE TimedJoin(u) BY <2>5 DEF TimedJoin
    <2>6. CASE TestFinished(u) BY <2>6 DEF TestFinished
    <2>7. CASE SetFinished(u) BY <2>7 DEF SetFinished
    <2>8. CASE OnFinish(u)
      <3> USE <2>8 DEF OnFinish
      <3>1. active' \in BOOLEAN
        BY Zenon
      <3>2. user' \in [Users -> UserStates]
        OBVIOUS
      <3> QED BY <3>1, <3>2
    <2>9. CASE EndRead(u) BY <2>9 DEF EndRead
    <2> QED BY <1>2, <2>1, <2>2, <2>3, <2>4, <2>5, <2>6, <2>7, <2>8, <2>9 DEF InCall
  <1>3. ASSUME NEW u \in Users, Start(u) PROVE TypeOK'
    <2> USE DEF TypeOK, WorkerStates, UserStates, wvars, fvars, Goto
    <2>1. CASE CallNext(u) BY <2>1 DEF CallNext
    <2>2. CASE CallClose(u) BY <2>2 DEF CallClose
    <2>3. CASE BeginRead(u) BY <2>3 DEF BeginRead
    <2> QED BY <1>3, <2>1, <2>2, <2>3 DEF Start
  <1>4. CASE UNCHANGED vars
    BY <1>4 DEF TypeOK, vars, wvars, fvars
  <1> QED BY <1>1, <1>2, <1>3, <1>4 DEF Next

\* Every variable keeps its type; in particular the queue never holds more
\* than Depth items (PrefetchIterator.__init__, _put).
THEOREM TypeCorrect == Spec => []TypeOK
  <1>1. Init => TypeOK BY TypeInit
  <1>2. TypeOK /\ [Next]_vars => TypeOK' BY TypeStep
  <1> QED BY <1>1, <1>2, PTL DEF Spec

-----------------------------------------------------------------------------
(***************************************************************************)
(* The order of the chunks.  SameChunksInOrder speaks of what was handed   *)
(* out only; it is inductive together with what is known of the queue and  *)
(* of the chunk the worker is about to put: they continue the sequence.    *)
(***************************************************************************)
LEMMA AppendFacts ==
  ASSUME NEW s \in Seq(Nat), NEW e \in Nat
  PROVE  /\ Append(s, e) \in Seq(Nat)
         /\ Len(Append(s, e)) = Len(s) + 1
         /\ \A i \in 1 .. Len(s) : Append(s, e)[i] = s[i]
         /\ Append(s, e)[Len(s) + 1] = e
  OBVIOUS

\* The first item of a queue and the rest of it.
LEMMA TailFacts ==
  ASSUME NEW s \in Seq(Nat), s # <<>>
  PROVE  /\ Head(s) = s[1] /\ Head(s) \in Nat
         /\ Len(s) \in Nat \ {0}
         /\ Tail(s) \in Seq(Nat)
         /\ Len(Tail(s)) = Len(s) - 1
         /\ \A i \in 1 .. Len(s) - 1 : Tail(s)[i] = s[i + 1]
  OBVIOUS

\* The worker holds a chunk that is not in the queue yet.
Waiting == worker \in {"check", "put"} /\ item # Sentinel

GotInv ==
  /\ \A i \in 1 .. Len(got) : 1 <= got[i] /\ got[i] <= made
  /\ \A i, j \in 1 .. Len(got) : i < j => got[i] < got[j]

\* The queue holds chunks in ascending order; the sentinel comes last.
QueueInv ==
  /\ \A i \in 1 .. Len(queue) : queue[i] <= made
  /\ \A i, j \in 1 .. Len(queue) :
        i < j => /\ queue[i] # Sentinel
                 /\ queue[j] # Sentinel => queue[i] < queue[j]
  /\ \A i \in 1 .. Len(queue) : queue[i] = Sentinel => worker = "done"

LinkInv ==
  \A i \in 1 .. Len(got), j \in 1 .. Len(queue) :
     queue[j] # Sentinel => got[i] < queue[j]

WaitInv ==
  Waiting =>
    /\ item = made
    /\ \A i \in 1 .. Len(got) : got[i] < made
    /\ \A j \in 1 .. Len(queue) : queue[j] < made

\* Nothing is missing while nobody has called close().
GapInv ==
  ~stop =>
    /\ \A i \in 1 .. Len(got) : got[i] = i
    /\ \A i \in 1 .. Len(queue) : queue[i] # Sentinel => queue[i] = Len(got) + i
    /\ worker # "done" =>
         made = Len(got) + Len(queue) + (IF Waiting THEN 1 ELSE 0)

DrainInv == \A u \in Users : user[u] \in {"drain", "closing"} => stop

OrderInv == GotInv /\ QueueInv /\ LinkInv /\ WaitInv /\ GapInv /\ DrainInv

\* The order of the chunks holds in the initial states.
LEMMA OrderInit == Init => OrderInv
  BY DEF Init, OrderInv, GotInv, QueueInv, LinkInv, WaitInv, GapInv, DrainInv,
         Waiting, Sentinel

\* And every step keeps it.
LEMMA OrderStep == TypeOK /\ TypeOK' /\ OrderInv /\ [Next]_vars => OrderInv'
  <1> SUFFICES ASSUME TypeOK, TypeOK', OrderInv, [Next]_vars PROVE OrderInv'
    OBVIOUS
  <1>0. /\ got \in Seq(Nat) /\ queue \in Seq(Nat) /\ made \in Nat /\ item \in Nat
        /\ Len(got) \in Nat /\ Len(queue) \in Nat /\ user \in [Users -> UserStates]
    BY DEF TypeOK
  <1>e. /\ \A i \in 1 .. Len(got) : got[i] \in Nat
        /\ \A i \in 1 .. Len(queue) : queue[i] \in Nat
    BY <1>0
  <1>1. CASE Decode
    <2>1. /\ worker = "decode" /\ worker' = "check" /\ made' = made + 1
          /\ item' = made + 1
          /\ UNCHANGED <<got, queue, stop, user>>
      BY <1>1 DEF Decode
    <2>2. made = Len(got) + Len(queue) \/ stop
      BY <2>1 DEF OrderInv, GapInv, Waiting
    <2>3. GotInv' /\ LinkInv' /\ DrainInv'
      BY <1>0, <1>e, <2>1 DEF OrderInv, GotInv, LinkInv, DrainInv
    <2>6. QueueInv'
      BY <1>0, <1>e, <2>1 DEF OrderInv, QueueInv
    <2>4. WaitInv'
      BY <1>0, <1>e, <2>1 DEF OrderInv, GotInv, QueueInv, WaitInv
    <2>5. GapInv'
      BY <1>0, <2>1, <2>2 DEF OrderInv, GapInv, Waiting, Sentinel
    <2> QED BY <2>3, <2>4, <2>5, <2>6 DEF OrderInv
  <1>2. CASE SourceEnds \/ CloseSource
    <2>1. /\ worker \in {"decode", "close"}
          /\ worker' = "close" \/ (worker' = "check" /\ item' = Sentinel)
          /\ UNCHANGED <<got, queue, stop, user, made>>
      BY <1>2 DEF SourceEnds, CloseSource
    <2> QED
      BY <1>0, <2>1
      DEF OrderInv, GotInv, QueueInv, LinkInv, WaitInv, GapInv, DrainInv, Waiting
  <1>3. CASE CheckStop \/ PutFull
    <2>1. /\ worker \in {"check", "put"}
          /\ worker' \in {"check", "put"} \/ (stop /\ worker' \in {"done", "close"})
          /\ UNCHANGED <<got, queue, stop, user, made, item>>
      BY <1>3 DEF CheckStop, PutFull, Cancelled, wvars
    <2> QED
      BY <1>0, <2>1
      DEF OrderInv, GotInv, QueueInv, LinkInv, WaitInv, GapInv, DrainInv, Waiting
  <1>4. CASE Put
    <2>1. /\ worker = "put"
          /\ queue' = Append(queue, item)
          /\ worker' = IF item = Sentinel THEN "done" ELSE "decode"
          /\ UNCHANGED <<got, stop, user, made, item>>
      BY <1>4 DEF Put, AfterPut
    <2>2. /\ Len(queue') = Len(queue) + 1
          /\ \A i \in 1 .. Len(queue) : queue'[i] = queue[i] /\ queue[i] # Sentinel
          /\ queue'[Len(queue) + 1] = item
      BY <1>0, <2>1, AppendFacts DEF OrderInv, QueueInv
    <2>3. CASE item = Sentinel
      BY <1>0, <2>1, <2>2, <2>3
      DEF OrderInv, GotInv, QueueInv, LinkInv, WaitInv, GapInv, DrainInv, Waiting,
          Sentinel
    <2>4. CASE item # Sentinel
      <3>1. /\ item = made /\ worker' = "decode"
            /\ \A i \in 1 .. Len(got) : got[i] < made
            /\ \A i \in 1 .. Len(queue) : queue[i] < made
        BY <2>1, <2>4 DEF OrderInv, WaitInv, Waiting
      <3>2. \A i \in 1 .. Len(queue') : i \in 1 .. Len(queue) \/ i = Len(queue) + 1
        BY <1>0, <2>2
      <3>3. GotInv' /\ WaitInv' /\ DrainInv'
        BY <2>1, <3>1 DEF OrderInv, GotInv, WaitInv, Waiting, DrainInv
      <3>4. QueueInv'
        <4>1. \A i \in 1 .. Len(queue') : queue'[i] <= made' /\ queue'[i] # Sentinel
          BY <1>0, <2>1, <2>2, <2>4, <3>1, <3>2
        <4>2. \A i, j \in 1 .. Len(queue') : i < j => queue'[i] < queue'[j]
          <5> TAKE i, j \in 1 .. Len(queue')
          <5> HAVE i < j
          <5>1. i \in 1 .. Len(queue)
            BY <1>0, <2>2
          <5>2. CASE j \in 1 .. Len(queue)
            BY <2>2, <5>1, <5>2 DEF OrderInv, QueueInv
          <5>3. CASE j = Len(queue) + 1
            BY <2>2, <3>1, <5>1, <5>3
          <5> QED BY <3>2, <5>2, <5>3
        <4> QED BY <4>1, <4>2 DEF QueueInv
      <3>5. LinkInv'
        BY <1>0, <2>1, <2>2, <3>1, <3>2 DEF OrderInv, LinkInv
      <3>6. GapInv'
        <4> SUFFICES ASSUME ~stop PROVE GapInv'
          BY <2>1 DEF GapInv
        <4>1. made = Len(got) + Len(queue) + 1
          BY <2>1, <2>4 DEF OrderInv, GapInv, Waiting
        <4>2. \A i \in 1 .. Len(got') : got'[i] = i
          BY <2>1 DEF OrderInv, GapInv
        <4>3. \A i \in 1 .. Len(queue') : queue'[i] = Len(got') + i
          <5>1. \A i \in 1 .. Len(queue) : queue[i] = Len(got) + i
            BY <2>1, <2>2 DEF OrderInv, GapInv
          <5>2. queue'[Len(queue) + 1] = Len(got) + (Len(queue) + 1)
            BY <1>0, <2>2, <3>1, <4>1
          <5> QED BY <2>1, <2>2, <3>2, <5>1, <5>2
        <4>4. made' = Len(got') + Len(queue') /\ ~Waiting'
          BY <1>0, <2>1, <2>2, <3>1, <4>1 DEF Waiting
        <4> QED BY <1>0, <2>1, <4>2, <4>3, <4>4 DEF GapInv
      <3> QED BY <3>3, <3>4, <3>5, <3>6 DEF OrderInv
    <2> QED BY <2>3, <2>4
  <1>5. ASSUME NEW u \in Users, Get(u) PROVE OrderInv'
    <2>1. /\ queue # <<>> /\ queue' = Tail(queue)
          /\ UNCHANGED <<made, worker, item, stop>>
          /\ user' \in {[user EXCEPT ![u] = "join"], [user EXCEPT ![u] = "idle"]}
      BY <1>5 DEF Get, wvars, Goto
    <2>2. /\ Head(queue) = queue[1] /\ Len(queue) \in Nat \ {0}
          /\ Len(queue') = Len(queue) - 1
          /\ \A i \in 1 .. Len(queue) - 1 : queue'[i] = queue[i + 1]
      BY <1>0, <2>1, TailFacts
    <2>3. DrainInv'
      BY <1>0, <2>1 DEF OrderInv, DrainInv
    <2>4. CASE queue[1] = Sentinel
      <3>1. got' = got /\ Len(queue) = 1 /\ worker = "done"
        BY <1>5, <2>2, <2>4 DEF Get, OrderInv, QueueInv
      <3> QED
        BY <1>0, <2>1, <2>2, <2>3, <3>1, SMTT(30), ZenonT(30)
        DEF OrderInv, GotInv, QueueInv, LinkInv, WaitInv, GapInv, Waiting
    <2>5. CASE queue[1] # Sentinel
      <3>1. got' = Append(got, queue[1]) /\ queue[1] \in Nat
        BY <1>0, <1>5, <2>1, <2>2, <2>5, TailFacts DEF Get
      <3>2. /\ Len(got') = Len(got) + 1
            /\ \A i \in 1 .. Len(got) : got'[i] = got[i]
            /\ got'[Len(got) + 1] = queue[1]
        BY <1>0, <3>1, AppendFacts
      <3>3. GotInv'
        BY <1>0, <2>1, <2>2, <2>5, <3>1, <3>2, SMTT(30), ZenonT(30)
        DEF OrderInv, GotInv, QueueInv, LinkInv, Sentinel
      <3>4. QueueInv'
        BY <1>0, <2>1, <2>2 DEF OrderInv, QueueInv
      <3>a. \A j \in 1 .. Len(queue') :
               j + 1 \in 1 .. Len(queue) /\ queue'[j] = queue[j + 1] /\ 1 < j + 1
        BY <1>0, <2>2
      <3>b. \A i \in 1 .. Len(got') : i \in 1 .. Len(got) \/ i = Len(got) + 1
        BY <1>0, <3>2
      <3>c. 1 \in 1 .. Len(queue)
        BY <2>2
      <3>5. LinkInv'
        <4> SUFFICES ASSUME NEW i \in 1 .. Len(got'), NEW j \in 1 .. Len(queue'),
                            queue'[j] # Sentinel
                     PROVE  got'[i] < queue'[j]
          BY DEF LinkInv
        <4>1. CASE i \in 1 .. Len(got)
          BY <3>2, <3>a, <4>1 DEF OrderInv, LinkInv
        <4>2. CASE i = Len(got) + 1
          BY <3>2, <3>a, <3>c, <4>2 DEF OrderInv, QueueInv
        <4> QED BY <3>b, <4>1, <4>2
      <3>6. WaitInv'
        BY <2>1, <2>5, <3>2, <3>a, <3>b, <3>c DEF OrderInv, WaitInv, Waiting
      <3>7. GapInv'
        <4> SUFFICES ASSUME ~stop PROVE GapInv'
          BY <2>1 DEF GapInv
        <4>1. queue[1] = Len(got) + 1
          BY <2>5, <3>c DEF OrderInv, GapInv
        <4>2. \A i \in 1 .. Len(got') : got'[i] = i
          BY <3>2, <3>b, <4>1 DEF OrderInv, GapInv
        <4>3. \A j \in 1 .. Len(queue') :
                queue'[j] # Sentinel => queue'[j] = Len(got') + j
          <5> TAKE j \in 1 .. Len(queue')
          <5> HAVE queue'[j] # Sentinel
          <5>1. queue[j + 1] = Len(got) + (j + 1)
            BY <3>a DEF OrderInv, GapInv
          <5> QED BY <1>0, <3>2, <3>a, <5>1
        <4>4. Waiting' = Waiting
          BY <2>1 DEF Waiting
        <4>5. worker' # "done" =>
                made' = Len(got') + Len(queue') + (IF Waiting' THEN 1 ELSE 0)
          BY <1>0, <2>1, <2>2, <3>2, <4>4 DEF OrderInv, GapInv
        <4> QED BY <4>2, <4>3, <4>5 DEF GapInv
      <3> QED BY <2>3, <3>3, <3>4, <3>5, <3>6, <3>7 DEF OrderInv
    <2> QED BY <2>4, <2>5
  <1>6. ASSUME NEW u \in Users, Drain(u) PROVE OrderInv'
    <2>1. /\ queue # <<>> /\ queue' = Tail(queue) /\ stop
          /\ UNCHANGED <<made, worker, item, stop, user, got>>
      BY <1>6 DEF Drain, wvars, OrderInv, DrainInv
    <2>2. /\ Len(queue) \in Nat \ {0}
          /\ Len(queue') = Len(queue) - 1
          /\ \A i \in 1 .. Len(queue) - 1 : queue'[i] = queue[i + 1]
      BY <1>0, <2>1, TailFacts
    <2> QED
      BY <1>0, <2>1, <2>2
      DEF OrderInv, GotInv, QueueInv, LinkInv, WaitInv, GapInv, DrainInv, Waiting
  <1>7. ASSUME NEW u \in Users, CallClose(u) PROVE OrderInv'
    <2>1. /\ UNCHANGED <<made, worker, item, queue, got>>
          /\ stop' = TRUE
      BY <1>7 DEF CallClose, wvars
    <2> QED
      BY <2>1
      DEF OrderInv, GotInv, QueueInv, LinkInv, WaitInv, GapInv, DrainInv, Waiting
  <1>8. ASSUME NEW u \in Users,
               \/ Join(u) \/ Drained(u) \/ TimedJoin(u) \/ TestFinished(u)
               \/ SetFinished(u) \/ OnFinish(u) \/ EndRead(u)
               \/ CallNext(u) \/ BeginRead(u)
        PROVE  OrderInv'
    <2>1. /\ UNCHANGED <<made, worker, item, queue, got, stop>>
          /\ \A v \in Users : user'[v] \in {"drain", "closing"}
                => user[v] \in {"drain", "closing"}
      BY <1>0, <1>8
      DEF Join, Drained, TimedJoin, TestFinished, SetFinished, OnFinish, EndRead,
          CallNext, BeginRead, Goto, wvars
    <2> QED
      BY <2>1
      DEF OrderInv, GotInv, QueueInv, LinkInv, WaitInv, GapInv, DrainInv, Waiting
  <1>9. CASE UNCHANGED vars
    BY <1>9
    DEF vars, wvars, OrderInv, GotInv, QueueInv, LinkInv, WaitInv, GapInv, DrainInv,
        Waiting
  <1> QED
    BY <1>1, <1>2, <1>3, <1>4, <1>5, <1>6, <1>7, <1>8, <1>9
    DEF Next, Worker, InCall, Start

\* So it holds in every reachable state.
LEMMA OrderCorrect == Spec => [](TypeOK /\ OrderInv)
  <1>1. Init => TypeOK /\ OrderInv BY TypeInit, OrderInit
  <1>2. TypeOK /\ OrderInv /\ [Next]_vars => TypeOK' /\ OrderInv'
    BY TypeStep, OrderStep
  <1> QED BY <1>1, <1>2, PTL DEF Spec

\* Users receive the chunks of the source in order, and all of them as long as
\* nobody has called close(): "same chunks in the same order", for every
\* interleaving of _put, __next__ and close().
THEOREM SameChunks == Spec => []SameChunksInOrder
  <1>1. TypeOK /\ OrderInv => SameChunksInOrder
    BY DEF OrderInv, GotInv, GapInv, SameChunksInOrder
  <1> QED BY <1>1, OrderCorrect, PTL

-----------------------------------------------------------------------------
(***************************************************************************)
(* The recycled window buffers.                                            *)
(***************************************************************************)
LEMMA DistinctSlots ==
  ASSUME NEW m \in Nat \ {0}, NEW a \in Nat, NEW b \in Nat, a < b, b - a < m
  PROVE  a % m # b % m
  <1>1. /\ a = m * (a \div m) + (a % m) /\ a \div m \in Int /\ a % m \in Int
        /\ b = m * (b \div m) + (b % m) /\ b \div m \in Int /\ b % m \in Int
    OBVIOUS
  <1> DEFINE d == (b \div m) - (a \div m)
  <1> SUFFICES ASSUME a % m = b % m PROVE FALSE
    OBVIOUS
  <1>2. d \in Int /\ b - a = m * d
    BY <1>1
  <1>3. d <= 0 => m * d <= 0
    BY <1>2
  <1>4. d >= 1 => m * d >= m
    BY <1>2
  <1> QED BY <1>2, <1>3, <1>4

\* The worker never decodes into the buffer of the window that was handed out
\* last (_dt_ring_size: the current window, the queued ones, the one being
\* put), for every prefetch depth, until the iterator is closed.
THEOREM WindowIntact == Spec => []CurrentWindowIntact
  <1>1. TypeOK /\ OrderInv => CurrentWindowIntact
    <2> SUFFICES ASSUME TypeOK, OrderInv, worker = "decode", ~stop, got # <<>>
                 PROVE  Slot(made + 1) # Slot(got[Len(got)])
      BY DEF CurrentWindowIntact
    <2>1. /\ got \in Seq(Nat) /\ queue \in Seq(Nat) /\ Len(queue) <= Depth
          /\ Len(got) \in Nat \ {0} /\ Len(queue) \in Nat
      BY DEF TypeOK
    <2>2. got[Len(got)] = Len(got)
      BY <2>1 DEF OrderInv, GapInv
    <2>3. made = Len(got) + Len(queue)
      BY <2>1 DEF OrderInv, GapInv, Waiting
    <2> DEFINE m == Depth + 2
               a == Len(got)
               b == made + 1
    <2>4. m \in Nat \ {0} /\ a \in Nat /\ b \in Nat /\ a < b /\ b - a < m
      BY <2>1, <2>3, PrefetchAssumption
    <2> HIDE DEF m, a, b
    <2>5. a % m # b % m
      BY <2>4, DistinctSlots
    <2> QED BY <2>2, <2>5 DEF Slot, RingSize, m, a, b
  <1> QED BY <1>1, OrderCorrect, PTL

-----------------------------------------------------------------------------
(***************************************************************************)
(* The guard around the decoder.                                           *)
(***************************************************************************)
\* Until somebody calls close(), whoever finishes the iterator, and whoever
\* reads after it, does so when the worker has left the decoder for good.
GuardInv ==
  ~stop =>
    /\ ~active => worker = "done"
    /\ \A u \in Users :
         /\ user[u] \in {"finish", "set", "callback", "reading"} => worker = "done"
         /\ user[u] \notin {"drain", "closing"}

\* Every step keeps it: only close() joins without waiting to the end.
LEMMA GuardStep ==
  TypeOK /\ GuardInv /\ [Next]_vars => GuardInv'
  <1> SUFFICES ASSUME TypeOK, GuardInv, [Next]_vars, ~stop' PROVE GuardInv'
    BY DEF GuardInv
  <1>0. user \in [Users -> UserStates] /\ stop \in BOOLEAN
    BY DEF TypeOK
  <1>00. ~stop
    <2>1. stop' = stop \/ stop' = TRUE
      BY DEF Next, Worker, Decode, SourceEnds, CheckStop, Put, PutFull, CloseSource,
             InCall, Get, Join, Drain, Drained, TimedJoin, TestFinished, SetFinished,
             OnFinish, EndRead, Start, CallNext, CallClose, BeginRead, vars
    <2> QED BY <2>1, <1>0
  <1>1. CASE Worker
    <2>1. worker # "done" /\ UNCHANGED <<active, user>>
      BY <1>1
      DEF Worker, Decode, SourceEnds, CheckStop, Put, PutFull, CloseSource, fvars
    <2> QED BY <2>1, <1>00 DEF GuardInv
  <1>2. ASSUME NEW u \in Users,
               \/ Get(u) \/ Drain(u) \/ CallNext(u) \/ EndRead(u)
        PROVE  GuardInv'
    <2>1. /\ UNCHANGED <<worker, active>>
          /\ \A v \in Users : user'[v] = user[v] \/ user'[v] \in {"idle", "get", "join"}
      BY <1>0, <1>2
      DEF Get, Drain, CallNext, EndRead, Goto, wvars, fvars
    <2> QED BY <2>1, <1>00 DEF GuardInv
  <1>3. ASSUME NEW u \in Users,
               \/ Join(u) \/ TestFinished(u) \/ SetFinished(u)
               \/ OnFinish(u) \/ BeginRead(u)
        PROVE  GuardInv'
    <2>1. worker = "done" /\ UNCHANGED worker
      BY <1>3, <1>00
      DEF Join, TestFinished, SetFinished, OnFinish, BeginRead, GuardInv, wvars
    <2>2. \A v \in Users : user'[v] = user[v] \/ user'[v] \notin {"drain", "closing"}
      BY <1>0, <1>3 DEF Join, TestFinished, SetFinished, OnFinish, BeginRead, Goto
    <2> QED BY <2>1, <2>2, <1>00 DEF GuardInv
  <1>4. CASE UNCHANGED vars
    BY <1>4 DEF vars, wvars, fvars, GuardInv
  <1>5. ASSUME NEW u \in Users, Drained(u) \/ TimedJoin(u) \/ CallClose(u)
        PROVE  GuardInv'
    BY <1>5, <1>00 DEF Drained, TimedJoin, CallClose, GuardInv
  <1> QED BY <1>1, <1>2, <1>3, <1>4, <1>5 DEF Next, InCall, Start

\* The worker and a direct read are never in the decoder together, for any
\* number of threads, any source and any depth, until somebody calls close().
\* (From then on they may be: its join gives up after five seconds.)
THEOREM DecoderIsExclusive == Spec => []ExclusiveUntilClosed
  <1>1. Init => TypeOK /\ GuardInv
    BY TypeInit DEF Init, GuardInv
  <1>2. TypeOK /\ GuardInv /\ [Next]_vars => TypeOK' /\ GuardInv'
    BY TypeStep, GuardStep
  <1>3. GuardInv => ExclusiveUntilClosed
    BY DEF GuardInv, ExclusiveUntilClosed, NoConcurrentDecoder
  <1> QED BY <1>1, <1>2, <1>3, PTL DEF Spec

-----------------------------------------------------------------------------
(***************************************************************************)
(* Refinement.  Used from one thread, the iterator implements iterating    *)
(* the source.  What has to be known beyond the order of the chunks: the   *)
(* worker reaches its end only when the source did, the sentinel is behind *)
(* every chunk, and what the user thread is doing tells whether the        *)
(* iterator was closed.                                                    *)
(***************************************************************************)
\* The worker is past the last chunk of the source.
PastSource ==
  \/ worker \in {"close", "done"}
  \/ worker \in {"check", "put"} /\ item = Sentinel

SourceInv == ~stop /\ PastSource => made = chunks /\ exc = fails

SentinelInv ==
  ~stop /\ worker = "done" =>
    \/ /\ queue # <<>> /\ queue[Len(queue)] = Sentinel
       /\ made + 1 = Len(got) + Len(queue)
    \/ queue = <<>> /\ made = Len(got)

UserInv(u) ==
  /\ ending = "open" <=> ~finished
  /\ user[u] = "idle" => (stop => finished)
  /\ user[u] = "get" => ~stop /\ ~finished /\ op[u] = "next"
  /\ user[u] = "join" =>
       ~stop /\ ~finished /\ op[u] = "next" /\ worker = "done" /\ queue = <<>>
  /\ user[u] \in {"drain", "closing"} => stop /\ ~finished /\ op[u] = "close"
  /\ user[u] \in {"finish", "set"} =>
       /\ ~finished
       /\ \/ stop /\ op[u] = "close"
          \/ ~stop /\ op[u] = "next" /\ worker = "done" /\ queue = <<>>
  /\ user[u] \in {"callback", "reading"} => finished
  /\ ~active => finished

PlainInv == SourceInv /\ SentinelInv /\ \A u \in Users : UserInv(u)

\* What relates the worker to plain iteration holds in the initial states.
LEMMA PlainInvInit == Init => PlainInv
  BY DEF Init, PlainInv, SourceInv, SentinelInv, UserInv, PastSource

\* The worker's steps keep it.
LEMMA PlainInvWorker ==
  TypeOK /\ OrderInv /\ PlainInv /\ Worker => PlainInv'
  <1> SUFFICES ASSUME TypeOK, OrderInv, PlainInv, Worker PROVE PlainInv'
    OBVIOUS
  <1>0. /\ got \in Seq(Nat) /\ queue \in Seq(Nat) /\ made \in Nat /\ item \in Nat
        /\ Len(got) \in Nat /\ Len(queue) \in Nat
    BY DEF TypeOK
  <1>1. \A u \in Users : UserInv(u)'
    <2>1. /\ worker # "done"
          /\ UNCHANGED <<user, op, stop, finished, ending, active>>
      BY DEF Worker, Decode, SourceEnds, CheckStop, Put, PutFull, CloseSource, fvars
    <2> QED BY <2>1 DEF PlainInv, UserInv
  <1>2. SourceInv'
    <2>1. CASE Decode
      BY <1>0, <2>1 DEF Decode, SourceInv, PastSource, Sentinel
    <2>2. CASE SourceEnds
      BY <2>2 DEF SourceEnds, SourceInv
    <2>3. CASE CheckStop \/ Put \/ PutFull \/ CloseSource
      <3>1. /\ UNCHANGED <<made, chunks, exc, fails, stop>>
            /\ ~stop /\ PastSource' => PastSource
        BY <2>3
        DEF CheckStop, Put, PutFull, CloseSource, PastSource, AfterPut, Cancelled,
            wvars
      <3> QED BY <3>1 DEF PlainInv, SourceInv
    <2> QED BY <2>1, <2>2, <2>3 DEF Worker
  <1>3. SentinelInv'
    <2>1. CASE Put /\ item = Sentinel
      <3>1. /\ worker = "put" /\ ~Waiting
            /\ queue' = Append(queue, item)
            /\ UNCHANGED <<got, stop, made>>
        BY <2>1 DEF Put, Waiting
      <3>2. /\ Len(queue') = Len(queue) + 1 /\ queue'[Len(queue) + 1] = Sentinel
            /\ queue' # <<>>
        <4>1. /\ Len(Append(queue, item)) = Len(queue) + 1
              /\ Append(queue, item)[Len(queue) + 1] = item
          BY <1>0, AppendFacts
        <4>2. Len(queue') = Len(queue) + 1 /\ queue'[Len(queue) + 1] = Sentinel
          BY <2>1, <3>1, <4>1
        <4> QED BY <1>0, <4>2
      <3>3. ~stop => made = Len(got) + Len(queue)
        BY <1>0, <3>1 DEF OrderInv, GapInv
      <3> QED BY <1>0, <3>1, <3>2, <3>3 DEF SentinelInv
    <2>2. CASE ~(Put /\ item = Sentinel)
      <3>1. worker' = "done" => stop'
        BY <2>2
        DEF Worker, Decode, SourceEnds, CheckStop, Put, PutFull, CloseSource,
            AfterPut, Cancelled
      <3> QED BY <3>1 DEF SentinelInv
    <2> QED BY <2>1, <2>2
  <1> QED BY <1>1, <1>2, <1>3 DEF PlainInv

\* Get, the only user step that takes from the queue of an open iterator.
LEMMA PlainInvGet ==
  ASSUME NEW u0, Users = {u0}, TypeOK, OrderInv, PlainInv, Get(u0)
  PROVE  /\ PlainInv'
         /\ \/ Plain!Deliver
            \/ UNCHANGED <<got, ending, chunks, fails>>
  <1>0. /\ got \in Seq(Nat) /\ queue \in Seq(Nat) /\ made \in Nat /\ chunks \in Nat
        /\ Len(got) \in Nat /\ Len(queue) \in Nat /\ made <= chunks
        /\ user \in [Users -> UserStates]
    BY DEF TypeOK
  <1>1. /\ user[u0] = "get" /\ queue # <<>> /\ queue' = Tail(queue)
        /\ UNCHANGED <<made, worker, item, exc, stop, chunks, fails, finished>>
        /\ UNCHANGED <<ending, active, op>>
    BY DEF Get, wvars, fvars
  <1>2. ~stop /\ ~finished /\ ending = "open" /\ op[u0] = "next"
    BY <1>1 DEF PlainInv, UserInv
  <1>3. /\ Head(queue) = queue[1] /\ Len(queue) \in Nat \ {0}
        /\ Len(queue') = Len(queue) - 1 /\ queue' \in Seq(Nat)
        /\ \A i \in 1 .. Len(queue) - 1 : queue'[i] = queue[i + 1]
    BY <1>0, <1>1, TailFacts
  <1>4. SourceInv'
    BY <1>1 DEF PlainInv, SourceInv, PastSource
  <1>5. CASE queue[1] = Sentinel
    <2>1. /\ got' = got /\ user' = [user EXCEPT ![u0] = "join"]
      BY <1>3, <1>5 DEF Get, Goto
    <2>2. Len(queue) = 1 /\ worker = "done"
      BY <1>3, <1>5 DEF OrderInv, QueueInv
    <2>3. queue' = <<>> /\ made = Len(got)
      BY <1>0, <1>2, <1>3, <2>2 DEF PlainInv, SentinelInv
    <2>4. SentinelInv'
      BY <1>1, <2>1, <2>3 DEF SentinelInv
    <2>5. UserInv(u0)'
      BY <1>0, <1>1, <1>2, <2>1, <2>2, <2>3 DEF UserInv, PlainInv
    <2> QED BY <1>1, <1>4, <2>1, <2>4, <2>5 DEF PlainInv
  <1>6. CASE queue[1] # Sentinel
    <2>1. /\ got' = Append(got, queue[1]) /\ user' = [user EXCEPT ![u0] = "idle"]
      BY <1>3, <1>6 DEF Get, Goto
    <2>2. 1 \in 1 .. Len(queue)
      BY <1>3
    <2>3. queue[1] = Len(got) + 1 /\ queue[1] <= made
      BY <1>2, <1>6, <2>2 DEF OrderInv, GapInv, QueueInv
    <2>4. Len(got') = Len(got) + 1
      BY <1>0, <2>1, <2>3, AppendFacts
    <2>5. Plain!Deliver
      BY <1>0, <1>1, <1>2, <2>1, <2>3 DEF Plain!Deliver
    <2>6. SentinelInv'
      <3> SUFFICES ASSUME worker = "done"
                   PROVE  /\ queue' # <<>> /\ queue'[Len(queue')] = Sentinel
                          /\ made' + 1 = Len(got') + Len(queue')
        BY <1>1 DEF SentinelInv
      <3>1. /\ queue[Len(queue)] = Sentinel
            /\ made + 1 = Len(got) + Len(queue)
        BY <1>1, <1>2 DEF PlainInv, SentinelInv
      <3>2. Len(queue) > 1
        BY <1>3, <1>6, <3>1
      <3>3. queue'[Len(queue')] = Sentinel
        BY <1>3, <3>1, <3>2
      <3>4. queue' # <<>>
        BY <1>3, <3>2
      <3>5. made' + 1 = Len(got') + Len(queue')
        <4>1. made' = made
          BY <1>1
        <4>2. /\ made \in Nat /\ Len(got) \in Nat /\ Len(queue) \in Nat
              /\ made + 1 = Len(got) + Len(queue)
              /\ Len(got') = Len(got) + 1
              /\ Len(queue') = Len(queue) - 1
          BY <1>0, <1>3, <2>4, <3>1
        <4> QED BY <4>1, <4>2
      <3> QED BY <3>3, <3>4, <3>5
    <2>7. UserInv(u0)'
      BY <1>0, <1>1, <1>2, <2>1 DEF UserInv, PlainInv
    <2> QED BY <1>4, <2>5, <2>6, <2>7 DEF PlainInv
  <1> QED BY <1>5, <1>6

\* A step of the one user other than a get keeps it, and is a step of plain iteration or none.
LEMMA PlainInvUser ==
  ASSUME NEW u0, Users = {u0}, TypeOK, OrderInv, PlainInv,
         InCall(u0) \/ Start(u0), ~Get(u0)
  PROVE  /\ PlainInv'
         /\ \/ Plain!End
            \/ Plain!Close
            \/ UNCHANGED <<got, ending, chunks, fails>>
  <1>0. user \in [Users -> UserStates] /\ op \in [Users -> {"none", "next", "close"}]
    BY DEF TypeOK
  <1>1. /\ UNCHANGED <<made, worker, item, exc>>
        /\ UNCHANGED <<chunks, fails, got>>
        /\ stop => stop'
    BY DEF InCall, Start, Get, Join, Drain, Drained, TimedJoin, TestFinished,
           SetFinished, OnFinish, EndRead, CallNext, CallClose, BeginRead, wvars
  <1>2. SourceInv'
    BY <1>1 DEF PlainInv, SourceInv, PastSource
  <1>3. SentinelInv'
    <2>1. CASE Drain(u0)
      BY <1>1, <2>1 DEF Drain, PlainInv, UserInv, SentinelInv
    <2>2. CASE ~Drain(u0)
      <3>1. UNCHANGED queue
        BY <2>2
        DEF InCall, Start, Get, Join, Drained, TimedJoin, TestFinished,
            SetFinished, OnFinish, EndRead, CallNext, CallClose, BeginRead
      <3> QED BY <1>1, <3>1 DEF PlainInv, SentinelInv
    <2> QED BY <2>1, <2>2
  <1>4. CASE SetFinished(u0)
    <2>1. /\ user[u0] = "set" /\ user' = [user EXCEPT ![u0] = "callback"]
          /\ finished' = TRUE
          /\ ending' = IF op[u0] = "close" THEN "closed"
                       ELSE IF exc THEN "raised" ELSE "stopped"
          /\ UNCHANGED <<op, stop, queue, active>>
      BY <1>4 DEF SetFinished, Goto
    <2>2. /\ ending = "open"
          /\ \/ op[u0] = "close"
             \/ ~stop /\ op[u0] = "next" /\ worker = "done" /\ queue = <<>>
      BY <2>1 DEF PlainInv, UserInv
    <2>3. UserInv(u0)'
      BY <1>0, <2>1 DEF UserInv
    <2>4. Plain!End \/ Plain!Close
      <3>1. CASE op[u0] = "close"
        BY <1>1, <2>1, <2>2, <3>1 DEF Plain!Close
      <3>2. CASE op[u0] # "close"
        <4>1. made = Len(got) /\ made = chunks /\ exc = fails
          BY <2>2, <3>2 DEF PlainInv, SentinelInv, SourceInv, PastSource
        <4> QED BY <1>1, <2>1, <2>2, <3>2, <4>1 DEF Plain!End
      <3> QED BY <3>1, <3>2
    <2> QED BY <1>2, <1>3, <2>3, <2>4 DEF PlainInv
  <1>5. CASE ~SetFinished(u0)
    <2>1. UNCHANGED <<ending, finished>>
      BY <1>5
      DEF InCall, Start, Get, Join, Drain, Drained, TimedJoin, TestFinished,
          OnFinish, EndRead, CallNext, CallClose, BeginRead, fvars
    <2>2. UserInv(u0)'
      <3> USE <1>0, <1>1, <2>1
      <3> USE DEF UserInv, PlainInv, Goto, wvars, fvars
      <3>1. CASE Join(u0) BY <3>1 DEF Join
      <3>2. CASE Drain(u0) BY <3>2 DEF Drain
      <3>3. CASE Drained(u0) BY <3>3 DEF Drained
      <3>4. CASE TimedJoin(u0) BY <3>4 DEF TimedJoin
      <3>5. CASE TestFinished(u0) BY <3>5 DEF TestFinished
      <3>6. CASE OnFinish(u0) BY <3>6 DEF OnFinish
      <3>7. CASE EndRead(u0) BY <3>7 DEF EndRead
      <3>8. CASE CallNext(u0) BY <3>8 DEF CallNext
      <3>9. CASE CallClose(u0) BY <3>9 DEF CallClose
      <3>10. CASE BeginRead(u0) BY <3>10 DEF BeginRead
      <3> QED
        BY <1>5, <3>1, <3>2, <3>3, <3>4, <3>5, <3>6, <3>7, <3>8, <3>9, <3>10
        DEF InCall, Start
    <2> QED BY <1>1, <1>2, <1>3, <2>1, <2>2 DEF PlainInv
  <1> QED BY <1>4, <1>5

\* So every step of the two threads is a step of plain iteration or none.
LEMMA PlainStep ==
  ASSUME NEW u0, Users = {u0}, TypeOK, OrderInv, PlainInv, [Next]_vars
  PROVE  PlainInv' /\ [Plain!Next]_(Plain!vars)
  <1>1. CASE Worker
    <2>1. UNCHANGED <<got, ending, chunks, fails>>
      BY <1>1
      DEF Worker, Decode, SourceEnds, CheckStop, Put, PutFull, CloseSource, fvars
    <2> QED BY <1>1, <2>1, PlainInvWorker DEF Plain!vars
  <1>2. CASE Get(u0)
    BY <1>2, PlainInvGet DEF Plain!Next, Plain!vars
  <1>3. CASE (InCall(u0) \/ Start(u0)) /\ ~Get(u0)
    BY <1>3, PlainInvUser DEF Plain!Next, Plain!vars
  <1>4. CASE UNCHANGED vars
    BY <1>4
    DEF vars, wvars, fvars, Plain!vars, PlainInv, SourceInv, SentinelInv, UserInv,
        PastSource
  <1> QED BY <1>1, <1>2, <1>3, <1>4 DEF Next, InCall

\* Prefetching implements plain iteration: used from one thread, the consumer
\* sees the chunks of the source, then its end or its exception, or has closed
\* the iterator; for every source, every depth, and also when close() gives up
\* waiting.
THEOREM PrefetchImplementsPlain ==
  ASSUME NEW u0, Users = {u0}
  PROVE  Spec => IteratesLikeSource
  <1>1. Init => PlainInv /\ Plain!Init
    BY PlainInvInit, PrefetchAssumption DEF Init, Plain!Init
  <1>2. TypeOK /\ OrderInv /\ PlainInv /\ [Next]_vars
          => PlainInv' /\ [Plain!Next]_(Plain!vars)
    BY PlainStep
  <1> QED BY <1>1, <1>2, OrderCorrect, PTL DEF Spec, IteratesLikeSource, Plain!Spec
=============================================================================
