------------------------------ MODULE Prefetch ------------------------------
(***************************************************************************)
(* PrefetchIterator (io/_prefetch.py) with the EventReader around it: one  *)
(* worker thread drains the source into a bounded queue, user threads call *)
(* next() and close(), and the reader's guard (_active_prefetch) keeps     *)
(* everyone else off the decoder while an iterator is alive.               *)
(*                                                                         *)
(* A chunk is its number in the source, 1, 2, ...; its contents do not     *)
(* matter here.  Each atomic step is one the threads can be preempted      *)
(* between: testing the stop event and putting are two steps, so are       *)
(* testing and setting _finished.                                          *)
(***************************************************************************)
EXTENDS Naturals, Sequences

CONSTANTS
  Users,          \* the threads that call next(), close() and read()
  MaxChunks,      \* bound of the model: the longest source
  Depth           \* maxsize of the queue (prefetch_depth)

ASSUME PrefetchAssumption ==
  /\ MaxChunks \in Nat
  /\ Depth \in Nat \ {0}

\* The _SENTINEL object; chunks are numbered from 1.
Sentinel == 0

VARIABLES
  chunks,     \* how many chunks the source yields (never changes)
  fails,      \* whether the source raises after them (never changes)
  made,       \* chunks the source has yielded so far
  worker,     \* control of the worker thread
  item,       \* what the worker is putting
  exc,        \* _exc: the worker has stored an exception
  queue,      \* _queue
  stop,       \* _stop
  finished,   \* _finished
  ending,     \* how the iteration ended, "open" while it has not
  active,     \* EventReader._active_prefetch is set
  user,       \* control of each user thread
  op,         \* the call each user thread is in
  got         \* the chunks handed to users by next(), in order

wvars == <<made, worker, item, exc>>
fvars == <<finished, ending, active>>
vars == <<chunks, fails, wvars, queue, stop, fvars, user, op, got>>

-----------------------------------------------------------------------------
(* __init__: the worker is started and the reader's guard is set.          *)
Init ==
  /\ chunks \in 0 .. MaxChunks
  /\ fails \in BOOLEAN
  /\ made = 0 /\ worker = "decode" /\ item = Sentinel /\ exc = FALSE
  /\ queue = <<>>
  /\ stop = FALSE
  /\ finished = FALSE /\ ending = "open" /\ active = TRUE
  /\ user = [u \in Users |-> "idle"]
  /\ op = [u \in Users |-> "none"]
  /\ got = <<>>

-----------------------------------------------------------------------------
(* Worker side.  While worker = "decode" the thread is inside the source,  *)
(* that is, inside the decoder of the reader.                              *)

Decode ==
  /\ worker = "decode" /\ made < chunks
  /\ made' = made + 1
  /\ item' = made + 1
  /\ worker' = "check"
  /\ UNCHANGED <<chunks, fails, exc, queue, stop, fvars, user, op, got>>

\* Mutant of SourceEnds: the exception of the source is not stored.
SourceEnds_SwallowError ==
  /\ worker = "decode" /\ made = chunks
  /\ worker' = "close"
  /\ UNCHANGED <<chunks, fails, made, item, exc, queue, stop, fvars, user, op, got>>

SourceEnds ==
  /\ worker = "decode" /\ made = chunks
  /\ exc' = fails
  /\ worker' = "close"
  /\ UNCHANGED <<chunks, fails, made, item, queue, stop, fvars, user, op, got>>

\* Where the worker goes once an item was put, and where when cancelled.
AfterPut == IF item = Sentinel THEN "done" ELSE "decode"
Cancelled == IF item = Sentinel THEN "done" ELSE "close"

\* Mutant of CheckStop: the put does not look at the stop event.
CheckStop_Never ==
  /\ worker = "check"
  /\ worker' = "put"
  /\ UNCHANGED <<chunks, fails, made, item, exc, queue, stop, fvars, user, op, got>>

\* The loop condition of _put.
CheckStop ==
  /\ worker = "check"
  /\ worker' = IF stop THEN Cancelled ELSE "put"
  /\ UNCHANGED <<chunks, fails, made, item, exc, queue, stop, fvars, user, op, got>>

\* Mutant of Put: the queue has no maxsize.
Put_Unbounded ==
  /\ worker = "put"
  /\ queue' = Append(queue, item)
  /\ worker' = AfterPut
  /\ UNCHANGED <<chunks, fails, made, item, exc, stop, fvars, user, op, got>>

\* queue.put(timeout=0.1) finds room ...
Put ==
  /\ worker = "put" /\ Len(queue) < Depth
  /\ queue' = Append(queue, item)
  /\ worker' = AfterPut
  /\ UNCHANGED <<chunks, fails, made, item, exc, stop, fvars, user, op, got>>

\* Mutant of PutFull: put_nowait, with queue.Full ignored.
PutFull_Drop ==
  /\ worker = "put" /\ Len(queue) = Depth
  /\ worker' = AfterPut
  /\ UNCHANGED <<chunks, fails, made, item, exc, queue, stop, fvars, user, op, got>>

\* ... or raises queue.Full, and _put tests the stop event again.
PutFull ==
  /\ worker = "put" /\ Len(queue) = Depth
  /\ worker' = "check"
  /\ UNCHANGED <<chunks, fails, made, item, exc, queue, stop, fvars, user, op, got>>

\* The finally block: close the source, then put the sentinel.
CloseSource ==
  /\ worker = "close"
  /\ item' = Sentinel
  /\ worker' = "check"
  /\ UNCHANGED <<chunks, fails, made, exc, queue, stop, fvars, user, op, got>>

Worker ==
  Decode \/ SourceEnds \/ CheckStop \/ Put \/ PutFull \/ CloseSource

-----------------------------------------------------------------------------
(* Consumer side.                                                          *)

Goto(u, where) == user' = [user EXCEPT ![u] = where]

\* __next__ of an iterator that is not finished (a finished one raises
\* StopIteration and changes nothing).
CallNext(u) ==
  /\ user[u] = "idle" /\ ~finished
  /\ Goto(u, "get")
  /\ op' = [op EXCEPT ![u] = "next"]
  /\ UNCHANGED <<chunks, fails, wvars, queue, stop, fvars, got>>

Get(u) ==
  /\ user[u] = "get" /\ queue # <<>>
  /\ queue' = Tail(queue)
  /\ IF Head(queue) = Sentinel
     THEN Goto(u, "join") /\ UNCHANGED got
     ELSE Goto(u, "idle") /\ got' = Append(got, Head(queue))
  /\ UNCHANGED <<chunks, fails, wvars, stop, fvars, op>>

Join(u) ==
  /\ user[u] = "join" /\ worker = "done"
  /\ Goto(u, "finish")
  /\ UNCHANGED <<chunks, fails, wvars, queue, stop, fvars, op, got>>

CallClose(u) ==
  /\ user[u] = "idle" /\ ~finished
  /\ stop' = TRUE
  /\ Goto(u, "drain")
  /\ op' = [op EXCEPT ![u] = "close"]
  /\ UNCHANGED <<chunks, fails, wvars, queue, fvars, got>>

\* One get_nowait() of the draining loop.
Drain(u) ==
  /\ user[u] = "drain" /\ queue # <<>>
  /\ queue' = Tail(queue)
  /\ UNCHANGED <<chunks, fails, wvars, stop, fvars, user, op, got>>

Drained(u) ==
  /\ user[u] = "drain" /\ queue = <<>>
  /\ Goto(u, "closing")
  /\ UNCHANGED <<chunks, fails, wvars, queue, stop, fvars, op, got>>

\* _worker.join(timeout=5.0): returns when the worker is done, and five
\* seconds later when it is not; the source may take that long for a chunk.
TimedJoin(u) ==
  /\ user[u] = "closing"
  /\ Goto(u, "finish")
  /\ UNCHANGED <<chunks, fails, wvars, queue, stop, fvars, op, got>>

\* _finish: test, set and call back are three steps and no lock is held.
TestFinished(u) ==
  /\ user[u] = "finish"
  /\ Goto(u, IF finished THEN "idle" ELSE "set")
  /\ UNCHANGED <<chunks, fails, wvars, queue, stop, fvars, op, got>>

SetFinished(u) ==
  /\ user[u] = "set"
  /\ finished' = TRUE
  /\ ending' = IF op[u] = "close" THEN "closed"
               ELSE IF exc THEN "raised" ELSE "stopped"
  /\ Goto(u, "callback")
  /\ UNCHANGED <<chunks, fails, wvars, queue, stop, active, op, got>>

\* on_finish: the reader clears its guard.
OnFinish(u) ==
  /\ user[u] = "callback"
  /\ active' = FALSE
  /\ Goto(u, "idle")
  /\ UNCHANGED <<chunks, fails, wvars, queue, stop, finished, ending, op, got>>

\* Mutant of BeginRead: read() without _check_no_active_prefetch().
BeginRead_Unguarded(u) ==
  /\ user[u] = "idle"
  /\ Goto(u, "reading")
  /\ UNCHANGED <<chunks, fails, wvars, queue, stop, fvars, op, got>>

\* EventReader.read() and read_all() raise while the guard is set, and use
\* the decoder themselves otherwise.
BeginRead(u) ==
  /\ user[u] = "idle" /\ ~active
  /\ Goto(u, "reading")
  /\ UNCHANGED <<chunks, fails, wvars, queue, stop, fvars, op, got>>

EndRead(u) ==
  /\ user[u] = "reading"
  /\ Goto(u, "idle")
  /\ UNCHANGED <<chunks, fails, wvars, queue, stop, fvars, op, got>>

\* What a user thread does inside a call, and what it may start.
InCall(u) ==
  \/ Get(u) \/ Join(u)
  \/ Drain(u) \/ Drained(u) \/ TimedJoin(u)
  \/ TestFinished(u) \/ SetFinished(u) \/ OnFinish(u)
  \/ EndRead(u)

Start(u) == CallNext(u) \/ CallClose(u) \/ BeginRead(u)

Next == Worker \/ \E u \in Users : InCall(u) \/ Start(u)

Spec == Init /\ [][Next]_vars

\* The operating system runs every thread, the source returns from each
\* next(), and a user thread inside a call goes on with it.  Users need not
\* ever call anything.
FairSpec ==
  /\ Spec
  /\ WF_vars(Worker)
  /\ \A u \in Users : WF_vars(InCall(u))

-----------------------------------------------------------------------------
(* Properties.                                                             *)

WorkerStates == {"decode", "check", "put", "close", "done"}
UserStates == {"idle", "get", "join", "drain", "closing", "finish", "set",
               "callback", "reading"}

\* The type of every variable of the iterator.
TypeOK ==
  /\ chunks \in Nat /\ fails \in BOOLEAN
  /\ made \in 0 .. chunks
  /\ worker \in WorkerStates
  /\ item \in Nat
  /\ exc \in BOOLEAN /\ stop \in BOOLEAN
  /\ queue \in Seq(Nat) /\ Len(queue) <= Depth
  /\ finished \in BOOLEAN /\ active \in BOOLEAN
  /\ ending \in {"open", "stopped", "raised", "closed"}
  /\ user \in [Users -> UserStates]
  /\ op \in [Users -> {"none", "next", "close"}]
  /\ got \in Seq(Nat)

\* The chunks that users receive are those of the source in the source's
\* order, with none missing as long as nobody calls close() ("same chunks in
\* the same order"), whatever the interleaving of puts, timeouts and gets.
SameChunksInOrder ==
  /\ \A i, j \in 1 .. Len(got) : i < j => got[i] < got[j]
  /\ ~stop => \A i \in 1 .. Len(got) : got[i] = i

\* A recycled window buffer: the reader decodes window k into slot k of a
\* ring of Depth + 2 buffers.  (Mutant: one buffer fewer.)
RingSize_NoSpare == Depth + 1
RingSize == Depth + 2
Slot(k) == k % RingSize

\* With reuse_buffers the worker never decodes into the buffer of the window
\* the consumer received last, until somebody closes the iterator: the
\* ring has a slot for that window, for each queued one, for the one the
\* worker waits to put, and for none more.
CurrentWindowIntact ==
  (worker = "decode" /\ ~stop /\ got # <<>>)
     => Slot(made + 1) # Slot(got[Len(got)])

\* The worker and a direct read() or read_all() are never inside the decoder
\* together ("it must not be touched by anyone else while this is alive").
NoConcurrentDecoder ==
  worker = "decode" => \A u \in Users : user[u] # "reading"

\* They are not as long as nobody calls close(): when the iteration ends, by
\* the sentinel or by an exception, in whichever thread, the guard is cleared
\* only behind a join that waits for the worker.
ExclusiveUntilClosed == ~stop => NoConcurrentDecoder

\* No call of next(), close() or read() blocks for ever: there is always a
\* chunk or the sentinel to come, whatever the queue held when it was full.
EveryCallReturns ==
  \A u \in Users : user[u] # "idle" ~> user[u] = "idle"

\* close() releases the worker, which may be parked on a full queue, and with
\* it the reader: its guard is cleared.
CloseReleases == stop ~> (worker = "done" /\ ~active)

\* Iterating through the prefetcher implements iterating the source.
Plain == INSTANCE PlainIteration WITH status <- ending

IteratesLikeSource == Plain!Spec
=============================================================================
