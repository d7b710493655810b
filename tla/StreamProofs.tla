----------------------------- MODULE StreamProofs -----------------------------
(***************************************************************************)
(* Proofs about the module ProgressStream, for every number of generations, *)
(* instances, crashes and dropped connections.                              *)
(***************************************************************************)
EXTENDS ProgressStream, ForgeQueueProofs

-------------------------------------------------------------------------------
(* The stream only reads: the composition is still the queue.                *)

\* A step of the composed system is a step of the queue or leaves it alone.
LEMMA StreamStepsQueue == [StreamNext]_<<vars, viewVars>> => [Next]_vars
<1>1. SUFFICES ASSUME [StreamNext]_<<vars, viewVars>> PROVE [Next]_vars
  OBVIOUS
<1>2. CASE QueueStep /\ UNCHANGED viewVars
  BY <1>2 DEF Next
<1>3. CASE \E i \in Instances : CrashServer(i)
  BY <1>3 DEF CrashServer, Next
<1>4. CASE TicketAges
  BY <1>4 DEF TicketAges, Next
<1>5. CASE (\E g \in Gens : Watch(g)) \/ ServerStep \/ BrowserStep \/ Drop
  BY <1>5 DEF Watch, ServerStep, BrowserStep, Drop, Fetch, Yield, ReadStatus, Receive,
    ReceiveDone, Connect, Refused, Broken
<1>6. CASE UNCHANGED <<vars, viewVars>>
  BY <1>6
<1>7. QED
  BY <1>1, <1>2, <1>3, <1>4, <1>5, <1>6 DEF StreamNext

\* Watching changes nothing the queue promises: every behaviour of the composed
\* system is one of the queue, so the queue's theorems hold of it.
THEOREM StreamImplementsQueue == StreamSpec => Spec
<1>1. StreamInit => Init
  BY DEF StreamInit
<1>2. QED
  BY <1>1, StreamStepsQueue, PTL DEF StreamSpec, Spec

-------------------------------------------------------------------------------
(* Types. *)

\* The log of a generation never shrinks.
LEMMA LogGrows ==
  ASSUME TypeInv, [Next]_vars, NEW g \in Gens
  PROVE  Len(events[g]) <= Len(events'[g])
<1>1. events \in [Gens -> Seq(EventRow)]
  BY DEF TypeInv, TypeOK
<1>2. CASE UNCHANGED events
  BY <1>1, <1>2
<1>3. ASSUME NEW h \in Gens, NEW e,
             events' = [events EXCEPT ![h] = Append(@, e)]
      PROVE  Len(events[g]) <= Len(events'[g])
  <2>1. CASE g = h
    <3>1. events'[g] = Append(events[g], e)
      BY <1>1, <1>3, <2>1
    <3>2. events[g] \in Seq(EventRow) /\ Len(events[g]) \in Nat
      BY <1>1
    <3>3. Len(Append(events[g], e)) = Len(events[g]) + 1
      BY <3>2
    <3>4. QED
      BY <3>1, <3>2, <3>3
  <2>2. CASE g # h
    BY <1>1, <1>3, <2>2
  <2>3. QED
    BY <2>1, <2>2
<1>4. ASSUME NEW h \in Gens, RecordQueued(h)
      PROVE  Len(events[g]) <= Len(events'[g])
  BY <1>3, <1>4 DEF RecordQueued
<1>5. ASSUME NEW i \in Instances, WriteEvent(i)
      PROVE  Len(events[g]) <= Len(events'[g])
  <2>1. worker[i].gen \in Gens
    BY <1>5 DEF TypeInv, TypeOK, WellFormed, WriteEvent
  <2>2. events' = [events EXCEPT ![worker[i].gen] =
          Append(@, [seq |-> worker[i].last + 1, stage |-> worker[i].stage])]
    BY <1>5 DEF WriteEvent
  <2>3. QED
    BY <1>3, <2>1, <2>2
<1>6. ASSUME NEW i \in Instances, WorkerStep(i)
      PROVE  Len(events[g]) <= Len(events'[g])
  BY <1>2, <1>5, <1>6 DEF WorkerStep, Claim, LoadDeleted, LoadGeneration, ReadLastSeq,
    PipelineReturns, PipelineRaises, CommitResult, Finish
<1>7. QED
  BY <1>2, <1>4, <1>6 DEF Next, QueueStep, Handler, Enqueue, CreateGeneration,
    DeleteGeneration, LoopError, Start, Crash, Tick, vars

\* Rows stay where they are.
LEMMA RowsStay ==
  ASSUME TypeInv, TypeInv', [Next]_vars, NEW g \in Gens
  PROVE  DOMAIN events[g] \subseteq DOMAIN events'[g]
<1>1. events[g] \in Seq(EventRow) /\ events'[g] \in Seq(EventRow)
  BY DEF TypeInv, TypeOK
<1>2. DOMAIN events[g] = 1 .. Len(events[g]) /\ DOMAIN events'[g] = 1 .. Len(events'[g])
      /\ Len(events[g]) \in Nat /\ Len(events'[g]) \in Nat
  BY <1>1
<1>3. QED
  BY <1>2, LogGrows

\* A row has a number.
LEMMA RowNumber ==
  ASSUME TypeInv, NEW g \in Gens, NEW n \in DOMAIN events[g]
  PROVE  n \in Nat /\ events[g][n].seq \in Nat
<1>1. events[g] \in Seq(EventRow)
  BY DEF TypeInv, TypeOK
<1>2. n \in Nat /\ events[g][n] \in EventRow
  BY <1>1
<1>3. QED
  BY <1>2 DEF EventRow

LEMMA OffType == Off \in StreamState /\ Off.pc = "off" /\ Off.batch = {} /\ Off.wire = <<>>
  BY DEF Off, StreamState

LEMMA StreamTypeInit == StreamInit => StreamTypeOK
<1>1. SUFFICES ASSUME StreamInit PROVE StreamTypeOK
  OBVIOUS
<1>2. view \in ViewState
  BY <1>1 DEF StreamInit, ViewInit, ViewState
<1>3. /\ stream = Off /\ stream \in StreamState /\ stream.pc = "off" /\ view.at = "none"
      /\ drops \in 0 .. MaxDrops
  BY <1>1, OffType, DropsAssumption DEF StreamInit, ViewInit
<1>4. QED
  BY <1>1, <1>2, <1>3 DEF StreamTypeOK, StreamInit, ViewInit

LEMMA StreamTypeStep ==
  ASSUME TypeInv, TypeInv', StreamTypeOK, [StreamNext]_<<vars, viewVars>>
  PROVE  StreamTypeOK'
<1>1. /\ view \in ViewState /\ stream \in StreamState
      /\ drops \in 0 .. MaxDrops /\ MaxDrops \in Nat
      /\ IF view.at = "none" THEN view.gen = None ELSE view.gen \in Gens
      /\ stream.pc # "off" <=> view.at = "open"
      /\ IF stream.pc = "off" THEN stream = Off ELSE RowsOfLog(events[view.gen])
  BY DropsAssumption DEF StreamTypeOK
<1>2. events \in [Gens -> Seq(EventRow)] /\ events' \in [Gens -> Seq(EventRow)]
  BY DEF TypeInv, TypeOK
\* The rows under way stay rows of the log while the log grows.
<1>3. ASSUME stream'.pc # "off", view.at = "open", view'.gen = view.gen,
             stream'.batch = stream.batch, stream'.wire = stream.wire
      PROVE  RowsOfLog(events[view.gen])'
  <2>1. DOMAIN events[view.gen] \subseteq DOMAIN events'[view.gen]
    BY <1>1, <1>3, RowsStay, StreamStepsQueue
  <2>2. RowsOfLog(events[view.gen])
    BY <1>1, <1>3
  <2>3. QED
    BY <1>3, <2>1, <2>2 DEF RowsOfLog
<1>4. ASSUME UNCHANGED stream, view' \in ViewState, view'.gen = view.gen,
             view'.at = view.at, drops' = drops
      PROVE  StreamTypeOK'
  BY <1>1, <1>3, <1>4 DEF StreamTypeOK
<1>5. ASSUME stream' = Off, view' \in ViewState, view'.gen \in Gens,
             view'.at \notin {"none", "open"}, drops' \in 0 .. MaxDrops
      PROVE  StreamTypeOK'
  BY <1>5, OffType DEF StreamTypeOK
<1>6. CASE UNCHANGED viewVars
  BY <1>1, <1>4, <1>6 DEF viewVars
<1>7. ASSUME Broken, view.at = "open", drops' \in 0 .. MaxDrops
      PROVE  StreamTypeOK'
  <2>1. view' \in ViewState /\ view'.at = "connecting" /\ view'.gen = view.gen
    BY <1>1, <1>7 DEF Broken, ViewState
  <2>2. QED
    BY <1>1, <1>5, <1>7, <2>1 DEF Broken
<1>8. ASSUME NEW i \in Instances, CrashServer(i) PROVE StreamTypeOK'
  BY <1>1, <1>4, <1>7, <1>8 DEF CrashServer
<1>9. CASE TicketAges
  <2>1. OlderBy1(view.age, TicketTTL) \in Nat
    BY <1>1, TicketAssumption DEF OlderBy1, ViewState
  <2>2. view' \in ViewState /\ view'.at = view.at /\ view'.gen = view.gen
    BY <1>1, <1>9, <2>1 DEF TicketAges, ViewState
  <2>3. QED
    BY <1>4, <1>9, <2>2 DEF TicketAges
<1>10. ASSUME NEW g \in Gens, Watch(g) PROVE StreamTypeOK'
  <2>1. /\ view' \in ViewState /\ view'.gen = g /\ view'.at \in {"closed", "connecting"}
        /\ stream = Off
    BY <1>1, <1>10 DEF Watch, ViewState
  <2>2. QED
    BY <1>1, <1>5, <1>10, <2>1 DEF Watch
\* A step of the generator: the connection stays, the rows under way are given.
<1>11. ASSUME stream' \in StreamState, stream'.pc # "off", view.at = "open",
              view' = view, drops' = drops, RowsOfLog(events[view.gen])'
       PROVE  StreamTypeOK'
  BY <1>1, <1>11 DEF StreamTypeOK
<1>12. CASE Fetch
  <2>1. view.gen \in Gens /\ view.at = "open" /\ events' = events
    BY <1>1, <1>12 DEF Fetch, vars
  <2>2. PICK rows : rows = {n \in DOMAIN events[view.gen] : SeqOf(n) > stream.cursor}
    OBVIOUS
  <2>3. rows \in SUBSET Nat /\ rows \subseteq DOMAIN events[view.gen]
    BY <1>2, <2>1, <2>2
  <2>4. /\ stream' = [stream EXCEPT !.pc = "yield", !.batch = rows]
        /\ view' = view /\ drops' = drops
    BY <1>12, <2>2 DEF Fetch
  <2>5. stream' \in StreamState /\ stream'.pc = "yield"
    BY <1>1, <2>3, <2>4 DEF StreamState
  <2>6. stream'.batch = rows /\ stream'.wire = stream.wire
    BY <1>1, <2>4 DEF StreamState
  <2>7. RowsOfLog(events[view.gen])'
    BY <1>1, <2>1, <2>3, <2>4, <2>6 DEF RowsOfLog
  <2>8. QED
    BY <1>11, <2>1, <2>4, <2>5, <2>7
<1>13. ASSUME NEW n \in stream.batch, Yield(n) PROVE StreamTypeOK'
  <2>1. /\ view.gen \in Gens /\ view.at = "open" /\ events' = events
        /\ view' = view /\ drops' = drops
    BY <1>1, <1>13 DEF Yield, vars
  <2>2. n \in DOMAIN events[view.gen] /\ n \in Nat
    BY <1>1, <1>13, <2>1 DEF RowsOfLog, StreamState
  <2>3. SeqOf(n) \in Nat
    BY <2>1, <2>2, RowNumber DEF SeqOf
  <2>4. PICK id \in Nat : id = SeqOf(n)
    BY <2>3
  <2>5. stream.wire \in Seq(Nat) /\ Append(stream.wire, n) \in Seq(Nat)
    BY <1>1, <2>2 DEF StreamState
  <2>6. stream' = [stream EXCEPT !.batch = @ \ {n}, !.cursor = id, !.wire = Append(@, n)]
    BY <1>13, <2>4 DEF Yield
  <2>7. stream' \in StreamState /\ stream'.pc = "yield"
    BY <1>1, <1>13, <2>5, <2>6 DEF StreamState, Yield
  <2>8. stream'.batch \subseteq stream.batch /\ stream'.wire = Append(stream.wire, n)
    BY <1>1, <2>6 DEF StreamState
  <2>9. \A k \in DOMAIN Append(stream.wire, n) :
          Append(stream.wire, n)[k] \in DOMAIN events[view.gen]
    BY <1>1, <2>1, <2>2, <2>5 DEF RowsOfLog
  <2>10. RowsOfLog(events[view.gen])'
    BY <1>1, <2>1, <2>8, <2>9 DEF RowsOfLog
  <2>11. QED
    BY <1>11, <2>1, <2>7, <2>10
<1>14. CASE ReadStatus
  <2>1. /\ view.at = "open" /\ view' = view /\ drops' = drops
        /\ stream' \in StreamState /\ stream'.pc # "off"
        /\ stream'.batch = stream.batch /\ stream'.wire = stream.wire
    BY <1>1, <1>14 DEF ReadStatus, StreamState
  <2>2. QED
    BY <1>3, <1>11, <2>1
<1>15. CASE Receive
  <2>1. /\ view.gen \in Gens /\ view.at = "open" /\ events' = events /\ drops' = drops
        /\ stream.wire \in Seq(Nat) /\ stream.wire # <<>>
    BY <1>1, <1>15 DEF Receive, vars, StreamState
  <2>2. /\ Head(stream.wire) = stream.wire[1] /\ 1 \in DOMAIN stream.wire
        /\ Head(stream.wire) \in Nat /\ Tail(stream.wire) \in Seq(Nat)
        /\ \A k \in DOMAIN Tail(stream.wire) : /\ Tail(stream.wire)[k] = stream.wire[k + 1]
                                               /\ k + 1 \in DOMAIN stream.wire
    BY <2>1
  <2>3. SeqOf(Head(stream.wire)) \in Nat
    <3>1. Head(stream.wire) \in DOMAIN events[view.gen]
      BY <1>1, <2>1, <2>2 DEF RowsOfLog
    <3>2. QED
      BY <2>1, <3>1, RowNumber DEF SeqOf
  <2>4. view.shown \in Seq(Nat) /\ Append(view.shown, Head(stream.wire)) \in Seq(Nat)
    BY <1>1, <2>2 DEF ViewState
  <2>5. view' \in ViewState /\ view'.at = "open" /\ view'.gen = view.gen
    BY <1>1, <1>15, <2>1, <2>3, <2>4 DEF Receive, ViewState
  <2>6. /\ stream' \in StreamState /\ stream'.pc = stream.pc
        /\ stream'.batch = stream.batch /\ stream'.wire = Tail(stream.wire)
    BY <1>1, <1>15, <2>2 DEF Receive, StreamState
  <2>7. RowsOfLog(events[view.gen])'
    BY <1>1, <2>1, <2>2, <2>5, <2>6 DEF RowsOfLog
  <2>8. QED
    BY <1>1, <2>1, <2>5, <2>6, <2>7 DEF StreamTypeOK
<1>16. CASE ReceiveDone
  <2>1. view' \in ViewState /\ view'.at = "done" /\ view'.gen = view.gen /\ view.at = "open"
    BY <1>1, <1>16 DEF ReceiveDone, ViewState
  <2>2. QED
    BY <1>1, <1>5, <1>16, <2>1 DEF ReceiveDone
<1>17. ASSUME NEW i \in Instances, Connect(i) PROVE StreamTypeOK'
  <2>1. view' \in ViewState /\ view'.at = "open" /\ view'.gen = view.gen /\ view.gen \in Gens
    BY <1>1, <1>17 DEF Connect, ViewState
  <2>2. PICK id \in Nat : id = view.lastId
    BY <1>1 DEF ViewState
  <2>3. stream' = [Off EXCEPT !.pc = "fetch", !.by = i, !.cursor = id]
    BY <1>17, <2>2 DEF Connect
  <2>4. /\ stream' \in StreamState /\ stream'.pc = "fetch"
        /\ stream'.batch = {} /\ stream'.wire = <<>>
    <3>1. stream' = [pc |-> "fetch", by |-> i, cursor |-> id, batch |-> {}, wire |-> <<>>]
      BY <2>3 DEF Off
    <3>2. QED
      BY <3>1 DEF StreamState
  <2>5. RowsOfLog(events[view.gen])'
    BY <2>4 DEF RowsOfLog
  <2>6. QED
    BY <1>1, <1>17, <2>1, <2>4, <2>5 DEF Connect, StreamTypeOK
<1>18. ASSUME NEW i \in Instances, Refused(i) PROVE StreamTypeOK'
  <2>1. /\ view' \in ViewState /\ view'.at = "closed" /\ view'.gen = view.gen
        /\ view.gen \in Gens /\ stream' = Off /\ drops' = drops
    BY <1>1, <1>18 DEF Refused, ViewState
  <2>2. QED
    BY <1>1, <1>5, <2>1
<1>19. CASE Drop
  <2>1. drops' \in 0 .. MaxDrops
    BY <1>1, <1>19 DEF Drop
  <2>2. QED
    BY <1>7, <1>19, <2>1 DEF Drop
<1>20. QED
  BY <1>6, <1>8, <1>9, <1>10, <1>12, <1>13, <1>14, <1>15, <1>16, <1>17, <1>18, <1>19
  DEF StreamNext, ServerStep, BrowserStep, viewVars

-------------------------------------------------------------------------------
(* The rows shown, on the wire and in the batch follow one another.          *)

LEMMA StreamInvInit == StreamInit => StreamInv
<1>1. SUFFICES ASSUME StreamInit PROVE StreamInv
  OBVIOUS
<1>2. /\ view.shown = <<>> /\ view.lastId = 0 /\ view.gen = None
      /\ stream.pc = "off" /\ stream.wire = <<>>
  BY <1>1 DEF StreamInit, ViewInit, Off
<1>3. QED
  BY <1>2 DEF StreamInv, Follows, Batched, ShownOnceInOrder

\* Rearranging a sum: lengths as plain numbers.
LEMMA Sums ==
  ASSUME NEW a \in Nat, NEW b \in Nat
  PROVE  a + (b + 1) = a + 1 + b
  OBVIOUS

LEMMA StreamInvStep ==
  ASSUME TypeInv, TypeInv', StreamTypeOK, StreamTypeOK', LogIsNumbered, StreamInv,
         [StreamNext]_<<vars, viewVars>>
  PROVE  StreamInv'
<1>1. /\ view \in ViewState /\ stream \in StreamState
      /\ IF view.at = "none" THEN view.gen = None ELSE view.gen \in Gens
      /\ stream.pc # "off" <=> view.at = "open"
      /\ IF stream.pc = "off" THEN stream = Off ELSE RowsOfLog(events[view.gen])
  BY DEF StreamTypeOK
<1>2. /\ view.shown \in Seq(Nat) /\ stream.wire \in Seq(Nat) /\ stream.batch \subseteq Nat
      /\ stream.cursor \in Nat /\ view.gen \in Gens \cup {None}
      /\ Len(view.shown) \in Nat /\ Len(stream.wire) \in Nat
  BY <1>1 DEF ViewState, StreamState
<1>l. Len(view.shown) \in Nat /\ Len(stream.wire) \in Nat /\ stream.cursor \in Nat
  BY <1>2
<1>p. PICK seen \in Nat, sent \in Nat :
        seen = Len(view.shown) /\ sent = Len(stream.wire)
  BY <1>l
<1>3. Follows /\ Batched /\ ShownOnceInOrder
  BY DEF StreamInv
<1>4. \A g \in Gens : /\ Len(events[g]) \in Nat /\ Len(events'[g]) \in Nat
                      /\ Len(events[g]) <= Len(events'[g])
                      /\ DOMAIN events[g] = 1 .. Len(events[g])
                      /\ \A n \in DOMAIN events[g] : events[g][n].seq = n
  <2>1. ASSUME NEW g \in Gens
        PROVE  Len(events[g]) \in Nat /\ Len(events'[g]) \in Nat
               /\ DOMAIN events[g] = 1 .. Len(events[g])
    <3>1. events[g] \in Seq(EventRow) /\ events'[g] \in Seq(EventRow)
      BY <2>1 DEF TypeInv, TypeOK
    <3>2. QED
      BY <3>1
  <2>2. QED
    BY <2>1, LogGrows, StreamStepsQueue DEF LogIsNumbered
<1>5. None \notin Gens
  BY NoneAssumption
\* What the browser has seen is not disturbed by what happens to its log.
<1>6. ASSUME view'.shown = view.shown, view'.gen = view.gen \/ view.gen = None,
             view'.gen \in Gens \cup {None}
      PROVE  ShownOnceInOrder'
  <2>1. CASE view.gen = None
    <3>1. Len(view.shown) = 0
      BY <1>2, <1>3, <2>1 DEF ShownOnceInOrder
    <3>2. view'.gen # None => Len(events'[view'.gen]) \in Nat
      BY <1>4, <1>6
    <3>3. \A n \in DOMAIN view.shown : view.shown[n] = n
      BY <1>3 DEF ShownOnceInOrder
    <3>4. QED
      BY <1>6, <3>1, <3>2, <3>3 DEF ShownOnceInOrder
  <2>2. CASE view.gen \in Gens
    <3>1. Len(view.shown) <= Len(events'[view.gen])
      BY <1>2, <1>3, <1>4, <1>5, <2>2 DEF ShownOnceInOrder
    <3>2. QED
      BY <1>3, <1>5, <1>6, <2>2, <3>1 DEF ShownOnceInOrder
  <2>3. QED
    BY <1>2, <2>1, <2>2
\* Steps that leave both ends of the connection alone.
<1>7. ASSUME UNCHANGED stream, view'.shown = view.shown, view'.gen = view.gen,
             view'.lastId = view.lastId
      PROVE  StreamInv'
  <2>1. Follows'
    BY <1>3, <1>7 DEF Follows
  <2>2. CASE stream.pc = "off"
    BY <1>2, <1>6, <1>7, <2>1, <2>2 DEF StreamInv, Batched
  <2>3. CASE stream.pc # "off"
    <3>1. view.gen \in Gens
      BY <1>1, <2>3
    <3>a. /\ Len(events[view.gen]) \in Nat /\ Len(events'[view.gen]) \in Nat
          /\ Len(events[view.gen]) <= Len(events'[view.gen])
      BY <1>4, <3>1
    <3>b. /\ stream.cursor <= Len(events[view.gen])
          /\ stream.batch \subseteq (stream.cursor + 1) .. Len(events[view.gen])
      BY <1>3, <2>3 DEF Batched
    <3>2. stream.cursor <= Len(events'[view.gen])
      BY <1>2, <3>a, <3>b
    <3>3. stream.batch \subseteq (stream.cursor + 1) .. Len(events'[view.gen])
      BY <1>2, <3>a, <3>b
    <3>4. Batched'
      BY <1>3, <1>7, <2>3, <3>2, <3>3 DEF Batched
    <3>5. QED
      BY <1>2, <1>6, <1>7, <2>1, <3>4 DEF StreamInv
  <2>4. QED
    BY <2>2, <2>3
\* Steps after which there is no connection.
<1>8. ASSUME stream' = Off, view'.shown = view.shown, view'.lastId = view.lastId,
             view'.gen = view.gen \/ view.gen = None, view'.gen \in Gens \cup {None}
      PROVE  StreamInv'
  <2>1. Follows' /\ Batched'
    BY <1>3, <1>8, OffType DEF Follows, Batched
  <2>2. QED
    BY <1>6, <1>8, <2>1 DEF StreamInv
<1>9. CASE UNCHANGED viewVars
  BY <1>7, <1>9 DEF viewVars
<1>10. ASSUME Broken PROVE StreamInv'
  <2>1. view'.shown = view.shown /\ view'.gen = view.gen /\ view'.lastId = view.lastId
    BY <1>1, <1>10 DEF Broken, ViewState
  <2>2. QED
    BY <1>2, <1>8, <1>10, <2>1 DEF Broken
<1>11. ASSUME NEW i \in Instances, CrashServer(i) PROVE StreamInv'
  BY <1>7, <1>10, <1>11 DEF CrashServer
<1>12. CASE TicketAges
  <2>1. view'.shown = view.shown /\ view'.gen = view.gen /\ view'.lastId = view.lastId
    BY <1>1, <1>12 DEF TicketAges, ViewState
  <2>2. QED
    BY <1>7, <1>12, <2>1 DEF TicketAges
<1>13. ASSUME NEW g \in Gens, Watch(g) PROVE StreamInv'
  <2>1. /\ view'.shown = view.shown /\ view'.gen = g /\ view'.lastId = view.lastId
        /\ stream' = Off /\ Len(view.shown) = Len(view'.shown)
    BY <1>1, <1>13 DEF Watch, ViewState
  <2>2. view.gen = None
    BY <1>1, <1>13 DEF Watch
  <2>3. QED
    BY <1>8, <2>1, <2>2
<1>14. CASE Fetch
  <2>1. /\ view.gen \in Gens /\ view' = view /\ events' = events /\ stream.pc # "off"
    BY <1>1, <1>14 DEF Fetch, vars
  <2>2. PICK rows : rows = {n \in DOMAIN events[view.gen] : SeqOf(n) > stream.cursor}
    OBVIOUS
  <2>3. \A n : n \in rows <=> n \in (stream.cursor + 1) .. Len(events[view.gen])
    <3>1. \A n \in DOMAIN events[view.gen] : SeqOf(n) = n
      BY <1>4, <2>1 DEF SeqOf
    <3>2. QED
      BY <1>2, <1>4, <2>1, <2>2, <3>1
  <2>4. /\ stream'.batch = rows /\ stream'.cursor = stream.cursor
        /\ stream'.wire = stream.wire
    BY <1>1, <1>14, <2>2 DEF Fetch, StreamState
  <2>5. \A n \in rows : (stream.cursor + 1) .. n \subseteq rows
    BY <1>2, <1>4, <2>1, <2>3
  <2>6. Batched'
    BY <1>3, <2>1, <2>3, <2>4, <2>5 DEF Batched
  <2>7. Follows' /\ ShownOnceInOrder'
    BY <1>3, <2>1, <2>4 DEF Follows, ShownOnceInOrder
  <2>8. QED
    BY <2>6, <2>7 DEF StreamInv
<1>15. ASSUME NEW n \in stream.batch, Yield(n) PROVE StreamInv'
  <2>1. /\ view.gen \in Gens /\ view' = view /\ events' = events /\ stream.pc # "off"
    BY <1>1, <1>15 DEF Yield, vars
  <2>a. n \in Nat /\ Len(events[view.gen]) \in Nat
    BY <1>2, <1>4, <1>15, <2>1
  <2>b. /\ (stream.cursor + 1) .. n \subseteq stream.batch
        /\ stream.batch \subseteq (stream.cursor + 1) .. Len(events[view.gen])
        /\ stream.cursor = Len(view.shown) + Len(stream.wire)
    BY <1>3, <1>15, <2>1 DEF Batched
  <2>c. n \in (stream.cursor + 1) .. Len(events[view.gen])
    BY <1>15, <2>b
  <2>2. stream.cursor + 1 <= n /\ n <= Len(events[view.gen])
    BY <1>2, <2>a, <2>c
  <2>3. \A m \in stream.batch : SeqOf(m) = m
    BY <1>1, <1>4, <2>1 DEF RowsOfLog, SeqOf
  \* The lowest row of the batch is the one after the cursor.
  <2>4. n = stream.cursor + 1
    <3>1. stream.cursor + 1 \in stream.batch
      <4>1. stream.cursor + 1 \in (stream.cursor + 1) .. n
        BY <1>2, <2>a, <2>2
      <4>2. QED
        BY <2>b, <4>1
    <3>2. n <= stream.cursor + 1
      BY <1>15, <2>3, <3>1 DEF Yield
    <3>3. QED
      BY <1>2, <2>a, <2>2, <3>2
  <2>5. SeqOf(n) = stream.cursor + 1
    BY <1>15, <2>3, <2>4
  <2>6. /\ stream'.batch = stream.batch \ {n} /\ stream'.cursor = stream.cursor + 1
        /\ stream'.wire = Append(stream.wire, n)
    BY <1>1, <1>15, <2>5 DEF Yield, StreamState
  <2>7. /\ Len(stream'.wire) = Len(stream.wire) + 1
        /\ \A k \in DOMAIN stream'.wire :
             stream'.wire[k] = IF k = Len(stream.wire) + 1 THEN n ELSE stream.wire[k]
        /\ DOMAIN stream'.wire = 1 .. (Len(stream.wire) + 1)
        /\ DOMAIN stream.wire = 1 .. Len(stream.wire)
    BY <1>2, <2>a, <2>6
  <2>8. Follows'
    <3>1. n = Len(view.shown) + (Len(stream.wire) + 1)
      <4>1. n = (seen + sent) + 1
        BY <1>p, <2>b, <2>4
      <4>2. n = seen + (sent + 1)
        BY <4>1
      <4>3. QED
        BY <1>p, <4>2
    <3>2. \A k \in DOMAIN stream'.wire :
            k = Len(stream.wire) + 1 \/ k \in DOMAIN stream.wire
      BY <1>l, <2>7
    <3>3. \A k \in DOMAIN stream.wire : k # Len(stream.wire) + 1
      BY <1>l, <2>7
    <3>4. \A k \in DOMAIN stream'.wire : stream'.wire[k] = Len(view.shown) + k
      BY <1>3, <2>7, <3>1, <3>2, <3>3 DEF Follows
    <3>5. QED
      BY <1>3, <2>1, <3>4 DEF Follows
  <2>9. /\ stream'.cursor = Len(view.shown) + Len(stream'.wire)
        /\ stream'.cursor <= Len(events[view.gen])
    <3>1. /\ stream'.cursor = stream.cursor + 1 /\ n = stream.cursor + 1
          /\ Len(stream'.wire) = Len(stream.wire) + 1
      BY <2>4, <2>6, <2>7
    <3>2. stream.cursor = seen + sent /\ Len(stream'.wire) = sent + 1
      BY <1>p, <2>b, <3>1
    <3>3. stream'.cursor = seen + Len(stream'.wire)
      BY <3>1, <3>2
    <3>4. stream'.cursor <= Len(events[view.gen])
      BY <2>2, <3>1
    <3>5. QED
      BY <1>p, <3>3, <3>4
  <2>10. stream'.batch \subseteq (stream'.cursor + 1) .. Len(events[view.gen])
    <3>1. ASSUME NEW m \in stream'.batch
          PROVE  m \in (stream.cursor + 2) .. Len(events[view.gen])
      <4>1. m \in (stream.cursor + 1) .. Len(events[view.gen]) /\ m # stream.cursor + 1
        BY <2>b, <2>4, <2>6
      <4>2. QED
        BY <1>2, <2>a, <4>1
    <3>2. stream'.cursor + 1 = stream.cursor + 2
      BY <1>2, <2>6
    <3>3. QED
      BY <3>1, <3>2
  <2>11. \A m \in stream'.batch : (stream'.cursor + 1) .. m \subseteq stream'.batch
    <3>1. \A m \in stream.batch : (stream.cursor + 1) .. m \subseteq stream.batch
      BY <1>3, <2>1 DEF Batched
    <3>2. ASSUME NEW m \in stream'.batch, NEW k \in (stream'.cursor + 1) .. m
          PROVE  k \in stream'.batch
      <4>1. m \in stream.batch /\ m \in Nat
        BY <1>2, <2>6
      <4>2. k \in (stream.cursor + 1) .. m /\ k # n
        BY <1>2, <2>4, <2>6, <4>1
      <4>3. QED
        BY <2>6, <3>1, <4>1, <4>2
    <3>3. QED
      BY <3>2
  <2>12. Batched'
    BY <2>1, <2>9, <2>10, <2>11 DEF Batched
  <2>13. ShownOnceInOrder'
    BY <1>3, <2>1 DEF ShownOnceInOrder
  <2>14. QED
    BY <2>8, <2>12, <2>13 DEF StreamInv
<1>16. CASE ReadStatus
  <2>1. /\ view' = view /\ events' = events /\ stream.pc # "off"
        /\ stream'.batch = stream.batch /\ stream'.cursor = stream.cursor
        /\ stream'.wire = stream.wire
    BY <1>1, <1>16 DEF ReadStatus, vars, StreamState
  <2>2. QED
    BY <1>3, <2>1 DEF StreamInv, Follows, Batched, ShownOnceInOrder
<1>17. CASE Receive
  <2>1. /\ view.gen \in Gens /\ events' = events /\ stream.wire # <<>> /\ stream.pc # "off"
    BY <1>1, <1>17 DEF Receive, vars
  <2>2. /\ Head(stream.wire) = stream.wire[1] /\ 1 \in DOMAIN stream.wire
        /\ Len(stream.wire) >= 1 /\ Len(Tail(stream.wire)) = Len(stream.wire) - 1
        /\ \A k \in DOMAIN Tail(stream.wire) : /\ Tail(stream.wire)[k] = stream.wire[k + 1]
                                               /\ k + 1 \in DOMAIN stream.wire /\ k \in Nat
    BY <1>2, <2>1
  <2>3. /\ Head(stream.wire) = Len(view.shown) + 1
        /\ Head(stream.wire) \in DOMAIN events[view.gen]
    BY <1>1, <1>3, <2>1, <2>2 DEF Follows, RowsOfLog
  <2>4. SeqOf(Head(stream.wire)) = Len(view.shown) + 1
    BY <1>4, <2>1, <2>3 DEF SeqOf
  <2>5. /\ view'.shown = Append(view.shown, Len(view.shown) + 1)
        /\ view'.lastId = Len(view.shown) + 1 /\ view'.gen = view.gen
        /\ stream'.wire = Tail(stream.wire) /\ stream'.cursor = stream.cursor
        /\ stream'.batch = stream.batch
    BY <1>1, <1>17, <2>3, <2>4 DEF Receive, ViewState, StreamState
  <2>6. /\ Len(view'.shown) = Len(view.shown) + 1
        /\ \A k \in DOMAIN view'.shown :
             view'.shown[k] = IF k = Len(view.shown) + 1 THEN k ELSE view.shown[k]
        /\ DOMAIN view'.shown = 1 .. (Len(view.shown) + 1)
        /\ DOMAIN view.shown = 1 .. Len(view.shown)
    BY <1>2, <2>5
  <2>7. Follows'
    <3>1. \A k \in DOMAIN Tail(stream.wire) :
            Tail(stream.wire)[k] = Len(view.shown) + 1 + k
      <4>1. ASSUME NEW k \in DOMAIN Tail(stream.wire)
            PROVE  Tail(stream.wire)[k] = Len(view.shown) + 1 + k
        <5>1. /\ Tail(stream.wire)[k] = stream.wire[k + 1] /\ k \in Nat
              /\ k + 1 \in DOMAIN stream.wire
          BY <2>2, <4>1
        <5>2. stream.wire[k + 1] = Len(view.shown) + (k + 1)
          BY <1>3, <5>1 DEF Follows
        <5>3. QED
          BY <1>l, <5>1, <5>2, Sums
      <4>2. QED
        BY <4>1
    <3>2. QED
      BY <2>5, <2>6, <3>1 DEF Follows
  <2>8. Batched'
    <3>1. stream.cursor = Len(view.shown) + Len(stream.wire)
      BY <1>3, <2>1 DEF Batched
    <3>2. stream'.cursor = Len(view'.shown) + Len(stream'.wire)
      <4>1. /\ Len(stream'.wire) = Len(stream.wire) - 1 /\ stream'.cursor = stream.cursor
            /\ Len(view'.shown) = Len(view.shown) + 1
        BY <2>2, <2>5, <2>6
      <4>2. stream'.cursor = seen + sent /\ Len(view'.shown) = seen + 1
            /\ Len(stream'.wire) = sent - 1 /\ sent >= 1
        BY <1>p, <2>2, <3>1, <4>1
      <4>3. QED
        BY <4>2
    <3>3. QED
      BY <1>3, <2>1, <2>5, <3>2 DEF Batched
  <2>9. ShownOnceInOrder'
    <3>1. Len(view.shown) + 1 <= Len(events[view.gen])
      BY <1>4, <2>1, <2>3
    <3>2. \A k \in DOMAIN view'.shown : view'.shown[k] = k
      BY <1>2, <1>3, <2>6 DEF ShownOnceInOrder
    <3>3. QED
      BY <1>5, <2>1, <2>5, <2>6, <3>1, <3>2 DEF ShownOnceInOrder
  <2>10. QED
    BY <2>7, <2>8, <2>9 DEF StreamInv
<1>18. CASE ReceiveDone
  <2>1. view'.shown = view.shown /\ view'.gen = view.gen /\ view'.lastId = view.lastId
    BY <1>1, <1>18 DEF ReceiveDone, ViewState
  <2>2. QED
    BY <1>2, <1>8, <1>18, <2>1 DEF ReceiveDone
<1>19. ASSUME NEW i \in Instances, Connect(i) PROVE StreamInv'
  <2>1. /\ view'.shown = view.shown /\ view'.gen = view.gen /\ view'.lastId = view.lastId
        /\ view.gen \in Gens /\ events' = events
    BY <1>1, <1>19 DEF Connect, ViewState, vars
  <2>2. /\ stream'.wire = <<>> /\ stream'.batch = {} /\ stream'.cursor = view.lastId
    BY <1>19 DEF Connect, Off
  <2>3. view.lastId = Len(view.shown) /\ Len(view.shown) <= Len(events[view.gen])
    BY <1>3, <1>5, <2>1 DEF Follows, ShownOnceInOrder
  <2>4. Follows' /\ Batched'
    BY <1>2, <2>1, <2>2, <2>3 DEF Follows, Batched
  <2>5. QED
    BY <1>2, <1>6, <2>1, <2>4 DEF StreamInv
<1>20. ASSUME NEW i \in Instances, Refused(i) PROVE StreamInv'
  <2>1. /\ view'.shown = view.shown /\ view'.gen = view.gen /\ view'.lastId = view.lastId
        /\ stream' = stream
    BY <1>1, <1>20 DEF Refused, ViewState
  <2>2. QED
    BY <1>7, <2>1
<1>21. CASE Drop
  BY <1>10, <1>21 DEF Drop
<1>22. QED
  BY <1>9, <1>11, <1>12, <1>13, <1>14, <1>15, <1>16, <1>17, <1>18, <1>19, <1>20, <1>21
  DEF StreamNext, ServerStep, BrowserStep, viewVars

LEMMA StreamInvariants ==
  ASSUME MaxRun <= StaleAfter
  PROVE  StreamSpec => [](TypeInv /\ IInv /\ StreamTypeOK /\ StreamInv)
<1>1. StreamInit => TypeInv /\ IInv /\ StreamTypeOK /\ StreamInv
  BY TypeInvInit, IInvInit, StreamTypeInit, StreamInvInit DEF StreamInit
<1>2. ASSUME TypeInv, IInv, StreamTypeOK, StreamInv, [StreamNext]_<<vars, viewVars>>
      PROVE  TypeInv' /\ IInv' /\ StreamTypeOK' /\ StreamInv'
  <2>1. TypeInv' /\ IInv'
    BY <1>2, StreamStepsQueue, TypeInvStep, IInvStep
  <2>2. StreamTypeOK'
    BY <1>2, <2>1, StreamTypeStep
  <2>3. LogIsNumbered
    BY <1>2 DEF IInv
  <2>4. QED
    BY <1>2, <2>1, <2>2, <2>3, StreamInvStep
<1>3. TypeInv /\ IInv /\ StreamTypeOK /\ StreamInv /\ [StreamNext]_<<vars, viewVars>>
        => TypeInv' /\ IInv' /\ StreamTypeOK' /\ StreamInv'
  BY <1>2
<1>4. QED
  BY <1>1, <1>3, PTL DEF StreamSpec

\* The stream's state is well formed, and what is under way to the browser are
\* rows of its log, however slow the runs and however many record at once.
THEOREM StreamTypeCorrect == StreamSpec => []StreamTypeOK
<1>1. StreamInit => TypeInv /\ StreamTypeOK
  BY TypeInvInit, StreamTypeInit DEF StreamInit
<1>2. ASSUME TypeInv, StreamTypeOK, [StreamNext]_<<vars, viewVars>>
      PROVE  TypeInv' /\ StreamTypeOK'
  <2>1. TypeInv'
    BY <1>2, StreamStepsQueue, TypeInvStep
  <2>2. QED
    BY <1>2, <2>1, StreamTypeStep
<1>3. TypeInv /\ StreamTypeOK /\ [StreamNext]_<<vars, viewVars>> => TypeInv' /\ StreamTypeOK'
  BY <1>2
<1>4. QED
  BY <1>1, <1>3, PTL DEF StreamSpec

\* When no run outlives its lock, the browser shows every row of the log once
\* and in order, whatever drops, dies, restarts or runs again meanwhile.
THEOREM StreamCorrect ==
  ASSUME MaxRun <= StaleAfter
  PROVE  StreamSpec => []ShownOnceInOrder
<1>1. StreamInv => ShownOnceInOrder
  BY DEF StreamInv
<1>2. QED
  BY <1>1, StreamInvariants, PTL

===============================================================================
