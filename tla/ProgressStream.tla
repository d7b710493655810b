---------------------------- MODULE ProgressStream ----------------------------
(***************************************************************************)
(* Watching a generation: the ticket and the SSE stream of its durable      *)
(* progress log (src/backend/app/api/routes.py, auth.py) and the browser's  *)
(* EventSource that follows it                                              *)
(* (src/frontend/src/app/core/progress.service.ts, features/generate/       *)
(* tailor.ts), composed with the queue and the workers that write the log.  *)
(*                                                                         *)
(* A browser opens one stream, for the generation it submitted.  Rows are   *)
(* named by their position in the log, so that two rows with one seq differ.*)
(***************************************************************************)
EXTENDS ForgeQueue

CONSTANTS
  TicketTTL,  \* SSE_TICKET_TTL, in ticks
  MaxDrops    \* bound: connections the network drops in a behaviour

ASSUME TicketAssumption == TicketTTL \in Nat \ {0}
ASSUME DropsAssumption == MaxDrops \in Nat

VARIABLES
  view,   \* the browser: what it watches, what it has shown
  stream, \* the response generator that serves it, and its connection
  drops   \* connections dropped so far

viewVars == <<view, stream, drops>>

\* at: "connecting" covers the first connection and every reconnect.
ViewState ==
  [at: {"none", "connecting", "open", "done", "closed"},
   gen: Gens \cup {None},
   age: Nat,              \* ticks since the ticket was minted
   shown: Seq(Nat),       \* rows shown, in order
   lastId: Nat]           \* what EventSource sends as Last-Event-ID

StreamState ==
  [pc: {"off", "fetch", "yield", "ended"},
   by: Instances \cup {None},
   cursor: Nat,           \* seq of the last row yielded
   batch: SUBSET Nat,     \* rows fetched and not yet yielded
   wire: Seq(Nat)]        \* rows yielded and not yet received

Off == [pc |-> "off", by |-> None, cursor |-> 0, batch |-> {}, wire |-> <<>>]

ViewInit ==
  /\ view = [at |-> "none", gen |-> None, age |-> 0, shown |-> <<>>, lastId |-> 0]
  /\ stream = Off
  /\ drops = 0

-------------------------------------------------------------------------------

\* tailor.ts submit, progress.service.ts watch: once the POST is answered, ask
\* for a ticket; a generation that is gone has none (404).
Watch(g) ==
  /\ view.at = "none"
  /\ request[g].at = "answered"
  /\ \E i \in Instances : Up(i)
  /\ view' = [view EXCEPT !.gen = g,
                          !.at = IF generation[g].deleted THEN "closed" ELSE "connecting"]
  /\ UNCHANGED <<vars, stream, drops>>

\* generation_events lets the ticket in while it is fresh and the generation is
\* there, and starts from Last-Event-ID.
Admits == view.age < TicketTTL /\ ~generation[view.gen].deleted

\* Mutant of Connect: Last-Event-ID is not read.
ConnectFromStart(i) ==
  /\ view.at = "connecting" /\ Up(i)
  /\ Admits
  /\ view' = [view EXCEPT !.at = "open"]
  /\ stream' = [Off EXCEPT !.pc = "fetch", !.by = i]
  /\ UNCHANGED <<vars, drops>>

Connect(i) ==
  /\ view.at = "connecting" /\ Up(i)
  /\ Admits
  /\ view' = [view EXCEPT !.at = "open"]
  /\ stream' = [Off EXCEPT !.pc = "fetch", !.by = i, !.cursor = view.lastId]
  /\ UNCHANGED <<vars, drops>>

\* Any other status than 200 closes an EventSource for good; the same URL, with
\* the same ticket, is all it ever tries.
Refused(i) ==
  /\ view.at = "connecting" /\ Up(i)
  /\ ~Admits
  /\ view' = [view EXCEPT !.at = "closed"]
  /\ UNCHANGED <<vars, stream, drops>>

SeqOf(n) == events[view.gen][n].seq

\* The query of one round: every row of the log beyond the cursor.
Fetch ==
  /\ stream.pc = "fetch"
  /\ stream' = [stream EXCEPT !.pc = "yield",
       !.batch = {n \in DOMAIN events[view.gen] : SeqOf(n) > stream.cursor}]
  /\ UNCHANGED <<vars, view, drops>>

\* order_by(seq): the lowest row of the batch goes out next.
Yield(n) ==
  /\ stream.pc = "yield"
  /\ n \in stream.batch
  /\ \A m \in stream.batch : SeqOf(n) <= SeqOf(m)
  /\ stream' = [stream EXCEPT !.batch = @ \ {n}, !.cursor = SeqOf(n),
                              !.wire = Append(@, n)]
  /\ UNCHANGED <<vars, view, drops>>

\* Mutant of ReadStatus: only success ends the stream.
ReadStatusCompleted ==
  /\ stream.pc = "yield"
  /\ stream.batch = {}
  /\ stream' = [stream EXCEPT !.pc =
       IF generation[view.gen].status = "completed" THEN "ended" ELSE "fetch"]
  /\ UNCHANGED <<vars, view, drops>>

\* The batch is out: a finished generation ends the stream with "done", any
\* other is polled again.
ReadStatus ==
  /\ stream.pc = "yield"
  /\ stream.batch = {}
  /\ stream' = [stream EXCEPT !.pc =
       IF generation[view.gen].status \in {"completed", "failed"} THEN "ended" ELSE "fetch"]
  /\ UNCHANGED <<vars, view, drops>>

\* The browser shows a row and remembers its id.
Receive ==
  /\ view.at = "open"
  /\ stream.wire # <<>>
  /\ view' = [view EXCEPT !.shown = Append(@, Head(stream.wire)),
                          !.lastId = SeqOf(Head(stream.wire))]
  /\ stream' = [stream EXCEPT !.wire = Tail(@)]
  /\ UNCHANGED <<vars, drops>>

\* The "done" event arrives, behind every row: the browser closes the source.
ReceiveDone ==
  /\ stream.pc = "ended"
  /\ stream.wire = <<>>
  /\ view' = [view EXCEPT !.at = "done"]
  /\ stream' = Off
  /\ UNCHANGED <<vars, drops>>

\* Mutant of Broken: the generator outlives its connection.
BrokenHalf == /\ view' = [view EXCEPT !.at = "connecting"]
              /\ UNCHANGED stream

\* A connection that breaks takes what was on the wire with it, and EventSource
\* reconnects by itself.
Broken == /\ view' = [view EXCEPT !.at = "connecting"]
          /\ stream' = Off

Drop ==
  /\ view.at = "open"
  /\ drops < MaxDrops
  /\ drops' = drops + 1
  /\ Broken
  /\ UNCHANGED vars

\* An instance that dies breaks the streams it serves.
CrashServer(i) ==
  /\ Crash(i)
  /\ IF view.at = "open" /\ stream.by = i THEN Broken ELSE UNCHANGED <<view, stream>>
  /\ UNCHANGED drops

TicketAges ==
  /\ Tick
  /\ view' = IF view.at \in {"connecting", "open"}
             THEN [view EXCEPT !.age = OlderBy1(@, TicketTTL)] ELSE view
  /\ UNCHANGED <<stream, drops>>

-------------------------------------------------------------------------------

StreamInit == Init /\ ViewInit

ServerStep == Fetch \/ (\E n \in stream.batch : Yield(n)) \/ ReadStatus
BrowserStep ==
  Receive \/ ReceiveDone \/ (\E i \in Instances : Connect(i) \/ Refused(i))

StreamNext ==
  \/ QueueStep /\ UNCHANGED viewVars
  \/ \E i \in Instances : CrashServer(i)
  \/ TicketAges
  \/ \E g \in Gens : Watch(g)
  \/ ServerStep
  \/ BrowserStep
  \/ Drop

\* The event loop runs the generator, the browser reads and reconnects.
StreamFairness ==
  /\ \A g \in Gens : WF_vars(Handler(g))
  /\ \A i \in Instances : WF_vars(WorkerStep(i))
  /\ \A i \in Instances : WF_vars(Start(i))
  /\ WF_vars(Tick)
  /\ WF_viewVars(ServerStep)
  /\ WF_viewVars(BrowserStep)

StreamSpec == StreamInit /\ [][StreamNext]_<<vars, viewVars>>
FairStreamSpec == StreamSpec /\ StreamFairness

-------------------------------------------------------------------------------
(* Properties. *)

\* Whatever is under way to the browser is a row that exists.
RowsOfLog(log) ==
  /\ stream.batch \subseteq DOMAIN log
  /\ \A k \in DOMAIN stream.wire : stream.wire[k] \in DOMAIN log

\* The browser and the response that serves it are open and closed together, and whatever is
\* under way is a row that exists (routes.py, generation_events; progress.service.ts).
StreamTypeOK ==
  /\ view \in ViewState
  /\ stream \in StreamState
  /\ drops \in 0 .. MaxDrops
  /\ IF view.at = "none" THEN view.gen = None ELSE view.gen \in Gens
  /\ stream.pc # "off" <=> view.at = "open"
  /\ IF stream.pc = "off" THEN stream = Off ELSE RowsOfLog(events[view.gen])

\* Across drops, restarts, reconnects and reruns, the browser shows every row of
\* the log once, in the order they were recorded, from the first on.
ShownOnceInOrder ==
  /\ Len(view.shown) <= IF view.gen = None THEN 0 ELSE Len(events[view.gen])
  /\ \A n \in DOMAIN view.shown : view.shown[n] = n

\* A browser that watches a generation is told when its job is decided, or told
\* that the stream is lost: no progress bar waits for ever on a finished run.
ViewerIsTold ==
  \A g \in Gens :
    view.gen = g /\ job[g].state \in {"completed", "failed"}
      ~> view.at \in {"done", "closed"}

-------------------------------------------------------------------------------
(* The inductive invariant behind ShownOnceInOrder (proved in StreamProofs): on *)
(* a log numbered 1, 2, 3, ... the rows shown, the rows on the wire and the      *)
(* rows of the batch follow one another.                                         *)

Follows ==
  /\ view.lastId = Len(view.shown)
  /\ \A k \in DOMAIN stream.wire : stream.wire[k] = Len(view.shown) + k

Batched ==
  stream.pc # "off" =>
    /\ stream.cursor = Len(view.shown) + Len(stream.wire)
    /\ stream.cursor <= Len(events[view.gen])
    /\ stream.batch \subseteq (stream.cursor + 1) .. Len(events[view.gen])
    /\ \A n \in stream.batch : (stream.cursor + 1) .. n \subseteq stream.batch

StreamInv == Follows /\ Batched /\ ShownOnceInOrder

===============================================================================
