------------------------------ MODULE ForgeQueue ------------------------------
(***************************************************************************)
(* The generation queue of ResumeForge: the jobs table, the generations it  *)
(* serves, their durable progress log, the HTTP handlers that create and    *)
(* delete generations, and the worker that runs inside every web instance   *)
(* (src/backend/app/worker.py, src/backend/app/api/routes.py).              *)
(*                                                                         *)
(* One action is one database transaction, because a crash, another         *)
(* instance or another handler can come between two commits and nowhere     *)
(* else.  The pipeline itself is one nondeterministic outcome here; the     *)
(* module Pipeline opens it.                                                *)
(*                                                                         *)
(* Time is counted in ticks.  The code reclaims a lock older than           *)
(* job_stale_after_seconds; StaleAfter is that threshold in ticks.  MaxRun  *)
(* bounds how long one run lasts and RestartAfter how soon a dead instance  *)
(* comes back: the code enforces neither, so they are what a deployment     *)
(* has to provide for the properties to hold.                               *)
(***************************************************************************)
EXTENDS Naturals, Sequences, FiniteSets

CONSTANTS
  Gens,            \* generation ids a client may create; one job each
  Instances,       \* web processes, each with one worker loop
  None,            \* no instance, no generation
  PipelineEvents,  \* number of events a successful pipeline returns
  StaleAfter,      \* job_stale_after_seconds, in ticks
  MaxRun,          \* a run lasts at most this many ticks
  RestartAfter,    \* a dead instance is back after this many ticks, or later
  MaxCrashes,      \* bound: instances killed or redeployed in a behaviour
  MaxErrors        \* bound: database errors in a behaviour

ASSUME NoneAssumption == None \notin Gens /\ None \notin Instances
ASSUME EventsAssumption == PipelineEvents \in Nat \ {0}
ASSUME TimeAssumption == StaleAfter \in Nat /\ MaxRun \in Nat /\ RestartAfter \in Nat
ASSUME BoundAssumption == MaxCrashes \in Nat /\ MaxErrors \in Nat

VARIABLES
  generation,  \* the generations table
  job,         \* the jobs table, one row per generation
  created,     \* the generations in the order of Job.created_at
  events,      \* the generation_events table, per generation in insert order
  request,     \* the POST /generations in flight for each generation
  worker,      \* the worker loop of each instance
  crashes,     \* instances killed so far
  errors       \* database errors so far

vars == <<generation, job, created, events, request, worker, crashes, errors>>

-------------------------------------------------------------------------------
(* Rows and process states. *)

Statuses == {"absent", "queued", "running", "completed", "failed"}
Verdicts == {"completed", "failed", "cancelled"}
JobStates == {"absent", "pending", "running"} \cup Verdicts
Stages == {"queued", "parse_resume", "pipeline", "failed", "completed"}

\* tailored counts how often tex_source went through the pipeline; gaps counts
\* the batches of generation_gaps rows inserted.
GenerationRow == [status: Statuses, deleted: BOOLEAN, tailored: Nat, gaps: Nat]
JobRow == [state: JobStates, age: Nat, by: Instances \cup {None}, attempts: Nat]
EventRow == [seq: Nat, stage: Stages]

\* Where a POST /generations stands: which of its three commits are done.
RequestState ==
  [at: {"none", "committed", "recorded", "answered", "lost"},
   by: Instances \cup {None}]

\* Where a worker loop stands.  "load" .. "finish" are the commits of _run_job
\* and _persist; in "read" and "write" it is inside record_event(stage).
WorkerState ==
  [pc: {"down", "idle", "load", "read", "write", "pipeline", "commit", "finish"},
   gen: Gens \cup {None},
   stage: Stages \cup {"none"},
   last: Nat,          \* the highest seq record_event has read
   recorded: Nat,      \* events this run has recorded
   base: Nat,          \* tailored of the tex_source the run started from
   age: Nat]           \* ticks since the claim, or since the crash when down

WellFormed(w) ==
  /\ w.pc \notin {"down", "idle"} => w.gen \in Gens
  /\ w.pc = "load" => w.stage = "none"
  /\ w.pc \in {"read", "write"} => w.stage \in Stages \ {"queued"}
  /\ w.pc = "finish" => w.stage \in {"none", "failed", "completed"}

Resting(pc) ==
  [pc |-> pc, gen |-> None, stage |-> "none", last |-> 0, recorded |-> 0,
   base |-> 0, age |-> 0]

\* The worker loop of instance i moves to w; the other loops stay.
Goes(i, w) == worker' = [worker EXCEPT ![i] = w]

Up(i) == worker[i].pc # "down"
Working(i) == worker[i].pc \notin {"down", "idle"}
Runs(i, g) == Working(i) /\ worker[i].gen = g
Decided(g) == job[g].state \in Verdicts

Seqs(g) == {events[g][n].seq : n \in DOMAIN events[g]}

\* Mutant of LastSeq: the query forgets .desc().
FirstSeq(g) ==
  IF events[g] = <<>> THEN 0
  ELSE CHOOSE m \in Seqs(g) : \A n \in Seqs(g) : m <= n

\* select(GenerationEvent.seq) ... order_by(desc).limit(1), or 0.
LastSeq(g) ==
  IF events[g] = <<>> THEN 0
  ELSE CHOOSE m \in Seqs(g) : \A n \in Seqs(g) : n <= m

Older(h, g) ==
  \E m, n \in DOMAIN created : m < n /\ created[m] = h /\ created[n] = g

Init ==
  /\ generation = [g \in Gens |->
       [status |-> "absent", deleted |-> FALSE, tailored |-> 0, gaps |-> 0]]
  /\ job = [g \in Gens |->
       [state |-> "absent", age |-> 0, by |-> None, attempts |-> 0]]
  /\ created = <<>>
  /\ events = [g \in Gens |-> <<>>]
  /\ request = [g \in Gens |-> [at |-> "none", by |-> None]]
  /\ worker = [i \in Instances |-> [Resting("down") EXCEPT !.age = RestartAfter]]
  /\ crashes = 0
  /\ errors = 0

-------------------------------------------------------------------------------
(* HTTP handlers. *)

\* create_generation, first commit: the row, status queued, with a snapshot of
\* the resume's source.
CreateGeneration(i, g) ==
  /\ Up(i)
  /\ request[g].at = "none"
  /\ generation' = [generation EXCEPT ![g].status = "queued"]
  /\ request' = [request EXCEPT ![g] = [at |-> "committed", by |-> i]]
  /\ UNCHANGED <<job, created, events, worker, crashes, errors>>

\* create_generation, second commit: the "queued" event.  No job exists yet, so
\* nobody else writes this log and the read and the insert are one step.
RecordQueued(g) ==
  /\ request[g].at = "committed"
  /\ events' = [events EXCEPT ![g] =
       Append(@, [seq |-> LastSeq(g) + 1, stage |-> "queued"])]
  /\ request' = [request EXCEPT ![g].at = "recorded"]
  /\ UNCHANGED <<generation, job, created, worker, crashes, errors>>

\* Mutant of Enqueue: the job is committed before the log has its first event.
EnqueueFirst(g) ==
  /\ request[g].at = "committed"
  /\ job' = [job EXCEPT ![g].state = "pending"]
  /\ created' = Append(created, g)
  /\ request' = [request EXCEPT ![g] = [at |-> "answered", by |-> None]]
  /\ UNCHANGED <<generation, events, worker, crashes, errors>>

\* create_generation, third commit: the job.
Enqueue(g) ==
  /\ request[g].at = "recorded"
  /\ job' = [job EXCEPT ![g].state = "pending"]
  /\ created' = Append(created, g)
  /\ request' = [request EXCEPT ![g] = [at |-> "answered", by |-> None]]
  /\ UNCHANGED <<generation, events, worker, crashes, errors>>

\* delete_generation: a soft delete, at any moment of the generation's life.
DeleteGeneration(g) ==
  /\ \E i \in Instances : Up(i)
  /\ generation[g].status # "absent"
  /\ ~generation[g].deleted
  /\ generation' = [generation EXCEPT ![g].deleted = TRUE]
  /\ UNCHANGED <<job, created, events, request, worker, crashes, errors>>

-------------------------------------------------------------------------------
(* The worker loop. *)

\* The jobs loop i may take: SKIP LOCKED passes over an older row while another
\* loop's claim holds it, and an idle loop holds one row at most.
InTurn(i, g) ==
  Cardinality({h \in Gens : job[h].state = "pending" /\ Older(h, g)})
    <= Cardinality({j \in Instances \ {i} : worker[j].pc = "idle"})

\* Mutant of Claim: the job is chosen in one transaction and locked in the next.
ClaimUnlocked(i, g) ==
  /\ worker[i].pc = "idle"
  /\ job[g].state \in {"pending", "running"}
  /\ InTurn(i, g)
  /\ job' = [job EXCEPT ![g] =
       [state |-> "running", age |-> 0, by |-> i, attempts |-> @.attempts + 1]]
  /\ Goes(i, [Resting("load") EXCEPT !.gen = g])
  /\ UNCHANGED <<generation, created, events, request, crashes, errors>>

\* _claim: the oldest pending job that nobody is claiming, locked for this instance.
Claim(i, g) ==
  /\ worker[i].pc = "idle"
  /\ job[g].state = "pending"
  /\ InTurn(i, g)
  /\ job' = [job EXCEPT ![g] =
       [state |-> "running", age |-> 0, by |-> i, attempts |-> @.attempts + 1]]
  /\ Goes(i, [Resting("load") EXCEPT !.gen = g])
  /\ UNCHANGED <<generation, created, events, request, crashes, errors>>

\* _run_job on a deleted generation: nothing to run, the job is cancelled.
LoadDeleted(i) ==
  /\ worker[i].pc = "load"
  /\ generation[worker[i].gen].deleted
  /\ Goes(i, [worker[i] EXCEPT !.pc = "finish"])
  /\ UNCHANGED <<generation, job, created, events, request, crashes, errors>>

\* _run_job, first commit: take the row's current tex_source, mark it running.
LoadGeneration(i) ==
  LET g == worker[i].gen IN
  /\ worker[i].pc = "load"
  /\ ~generation[g].deleted
  /\ generation' = [generation EXCEPT ![g].status = "running"]
  /\ Goes(i, [worker[i] EXCEPT !.pc = "read", !.stage = "parse_resume",
                               !.base = generation[g].tailored])
  /\ UNCHANGED <<job, created, events, request, crashes, errors>>

\* record_event, the select.
ReadLastSeq(i) ==
  /\ worker[i].pc = "read"
  /\ Goes(i, [worker[i] EXCEPT !.pc = "write", !.last = LastSeq(worker[i].gen)])
  /\ UNCHANGED <<generation, job, created, events, request, crashes, errors>>

\* Where the worker goes on after record_event(stage) has committed; recorded
\* counts the events of this run, "parse_resume" the first of them.
PcAfter(w) ==
  CASE w.stage = "parse_resume" -> "pipeline"
    [] w.stage = "pipeline" -> IF w.recorded < PipelineEvents THEN "read" ELSE "commit"
    [] w.stage \in {"failed", "completed"} -> "finish"

\* record_event, the insert and its commit.
WriteEvent(i) ==
  LET w == worker[i] IN
  /\ w.pc = "write"
  /\ events' = [events EXCEPT ![w.gen] =
       Append(@, [seq |-> w.last + 1, stage |-> w.stage])]
  /\ Goes(i, [w EXCEPT !.pc = PcAfter(w), !.recorded = @ + 1])
  /\ UNCHANGED <<generation, job, created, request, crashes, errors>>

\* Mutant of PipelineReturns: completion is announced before it is stored.
PipelineAnnounces(i) ==
  /\ worker[i].pc = "pipeline"
  /\ Goes(i, [worker[i] EXCEPT !.pc = "read", !.stage = "completed"])
  /\ UNCHANGED <<generation, job, created, events, request, crashes, errors>>

\* The pipeline returns: its events are recorded only now, one commit each.
PipelineReturns(i) ==
  /\ worker[i].pc = "pipeline"
  /\ Goes(i, [worker[i] EXCEPT !.pc = "read", !.stage = "pipeline"])
  /\ UNCHANGED <<generation, job, created, events, request, crashes, errors>>

\* Mutant of PipelineRaises: the except block records the failure on the job only.
PipelineRaisesQuietly(i) ==
  /\ worker[i].pc = "pipeline"
  /\ Goes(i, [worker[i] EXCEPT !.pc = "read", !.stage = "failed"])
  /\ UNCHANGED <<generation, job, created, events, request, crashes, errors>>

\* The pipeline raises: the generation is failed, its events are discarded.
PipelineRaises(i) ==
  /\ worker[i].pc = "pipeline"
  /\ generation' = [generation EXCEPT ![worker[i].gen].status = "failed"]
  /\ Goes(i, [worker[i] EXCEPT !.pc = "read", !.stage = "failed"])
  /\ UNCHANGED <<job, created, events, request, crashes, errors>>

\* _persist, the commit: the tailored source and the gap rows, whether or not
\* the generation was deleted or completed in the meantime.
CommitResult(i) ==
  LET g == worker[i].gen IN
  /\ worker[i].pc = "commit"
  /\ generation' = [generation EXCEPT ![g] =
       [generation[g] EXCEPT !.status = "completed", !.gaps = @ + 1,
                             !.tailored = worker[i].base + 1]]
  /\ Goes(i, [worker[i] EXCEPT !.pc = "read", !.stage = "completed"])
  /\ UNCHANGED <<job, created, events, request, crashes, errors>>

\* Mutant of Verdict: a run that announced nothing has no verdict of its own.
LastAnnounced(w) == w.stage

\* Mutant of Verdict: the job is decided as the row of its generation stands.
RowsVerdict(w) == IF w.stage = "none" THEN "cancelled" ELSE generation[w.gen].status

\* _finish: the verdict is written without asking who holds the job.  A run ends
\* as the event it announced last says, and one that announced none is cancelled.
Verdict(w) == IF w.stage = "none" THEN "cancelled" ELSE w.stage

Finish(i) ==
  LET g == worker[i].gen IN
  /\ worker[i].pc = "finish"
  /\ job' = [job EXCEPT ![g].state = Verdict(worker[i]), ![g].age = 0]
  /\ Goes(i, Resting("idle"))
  /\ UNCHANGED <<generation, created, events, request, crashes, errors>>

\* _loop: an error in any of the worker's transactions is logged and the loop
\* goes on to the next job; nothing releases the one it was running.
LoopError(i) ==
  /\ Working(i)
  /\ worker[i].pc # "pipeline"
  /\ errors < MaxErrors
  /\ errors' = errors + 1
  /\ Goes(i, Resting("idle"))
  /\ UNCHANGED <<generation, job, created, events, request, crashes>>

-------------------------------------------------------------------------------
(* Instances and time. *)

\* The process dies: killed by the platform, or stop() on a redeploy, which
\* cancels the loop and releases nothing.  Its requests in flight die with it.
Crash(i) ==
  /\ Up(i)
  /\ crashes < MaxCrashes
  /\ crashes' = crashes + 1
  /\ Goes(i, Resting("down"))
  /\ request' = [g \in Gens |->
       IF request[g].by = i /\ request[g].at \in {"committed", "recorded"}
       THEN [at |-> "lost", by |-> None] ELSE request[g]]
  /\ UNCHANGED <<generation, job, created, events, errors>>

\* Mutant of Stale: reclaim without the cutoff.
Locked(g) == job[g].state = "running"

\* _reclaim_stale: every running job locked before the cutoff is pending again.
Stale(g) == job[g].state = "running" /\ job[g].age > StaleAfter

\* Mutant of Reclaimed: nothing is returned to the queue.
NothingReclaimed == job

Reclaimed ==
  [g \in Gens |-> IF Stale(g)
                  THEN [job[g] EXCEPT !.state = "pending", !.age = 0, !.by = None]
                  ELSE job[g]]

\* Worker.start: reclaim once, then start the loop.
Start(i) ==
  /\ worker[i].pc = "down"
  /\ worker[i].age >= RestartAfter
  /\ job' = Reclaimed
  /\ Goes(i, Resting("idle"))
  /\ UNCHANGED <<generation, created, events, request, crashes, errors>>

\* Ages beyond the thresholds the code and the bounds look at are not told apart.
OlderBy1(n, cap) == IF n < cap THEN n + 1 ELSE n

Tick ==
  /\ \A i \in Instances : Working(i) => worker[i].age < MaxRun
  /\ job' = [g \in Gens |->
       IF job[g].state = "running"
       THEN [job[g] EXCEPT !.age = OlderBy1(@, StaleAfter + 1)] ELSE job[g]]
  /\ worker' = [i \in Instances |->
       CASE Working(i) -> [worker[i] EXCEPT !.age = OlderBy1(@, MaxRun)]
         [] ~Up(i) -> [worker[i] EXCEPT !.age = OlderBy1(@, RestartAfter)]
         [] OTHER -> worker[i]]
  /\ UNCHANGED <<generation, created, events, request, crashes, errors>>

-------------------------------------------------------------------------------

Handler(g) == RecordQueued(g) \/ Enqueue(g)

WorkerStep(i) ==
  \/ \E g \in Gens : Claim(i, g)
  \/ LoadDeleted(i)
  \/ LoadGeneration(i)
  \/ ReadLastSeq(i)
  \/ WriteEvent(i)
  \/ PipelineReturns(i)
  \/ PipelineRaises(i)
  \/ CommitResult(i)
  \/ Finish(i)

\* The steps of handlers and workers, as distinct from what happens to them.
QueueStep ==
  \/ \E i \in Instances, g \in Gens : CreateGeneration(i, g)
  \/ \E g \in Gens : Handler(g)
  \/ \E g \in Gens : DeleteGeneration(g)
  \/ \E i \in Instances : WorkerStep(i)
  \/ \E i \in Instances : LoopError(i)
  \/ \E i \in Instances : Start(i)

Next ==
  \/ QueueStep
  \/ \E i \in Instances : Crash(i)
  \/ Tick

\* Clients and faults are not fair.  A handler and a loop that run keep running
\* (one event loop schedules them), time passes, the platform restarts instances.
Fairness ==
  /\ \A g \in Gens : WF_vars(Handler(g))
  /\ \A i \in Instances : WF_vars(WorkerStep(i))
  /\ \A i \in Instances : WF_vars(Start(i))
  /\ WF_vars(Tick)

Spec == Init /\ [][Next]_vars
FairSpec == Spec /\ Fairness

-------------------------------------------------------------------------------
(* Properties. *)

\* The tables and the loops have the shapes above: a loop that is announcing or deciding
\* knows what (worker.py, _run_job, _persist, _finish).
TypeOK ==
  /\ generation \in [Gens -> GenerationRow]
  /\ job \in [Gens -> JobRow]
  /\ created \in Seq(Gens)
  /\ events \in [Gens -> Seq(EventRow)]
  /\ request \in [Gens -> RequestState]
  /\ worker \in [Instances -> WorkerState]
  /\ \A i \in Instances : WellFormed(worker[i])
  /\ crashes \in Nat
  /\ errors \in Nat

\* No two worker loops ever run the same generation, through claims, crashes,
\* restarts and reclaims, provided no run outlives its lock (MaxRun <=
\* StaleAfter): what the claim and the staleness threshold are for.
SingleRunner ==
  \A i, j \in Instances, g \in Gens : Runs(i, g) /\ Runs(j, g) => i = j

\* The progress log of a generation is numbered 1, 2, 3, ... without a gap or a
\* repetition, although record_event reads the last number in one statement and
\* inserts the next in another, and no constraint backs it: the SSE cursor
\* (seq > cursor) skips nothing and replays nothing only then.
LogIsNumbered ==
  \A g \in Gens : \A n \in DOMAIN events[g] : events[g][n].seq = n

\* A decided job and its generation tell the same story: the three writes that
\* end a run (the generation, the last event, the job) agree however runs were
\* interrupted and repeated.
LastStage(g) == events[g][Len(events[g])].stage
JobVerdict ==
  \A g \in Gens :
    /\ job[g].state \in {"completed", "failed"} =>
         /\ generation[g].status = job[g].state
         /\ events[g] # <<>>
         /\ LastStage(g) = job[g].state
    /\ job[g].state = "completed" => generation[g].tailored > 0
    /\ job[g].state = "cancelled" => generation[g].deleted

\* Each claim of a job stores at most one result, and a "completed" event is
\* only ever announced for a stored result, even when two instances run the
\* same job at once.
Announced(g) ==
  Cardinality({n \in DOMAIN events[g] : events[g][n].stage = "completed"})
OneResultPerClaim ==
  \A g \in Gens : /\ Announced(g) <= generation[g].gaps
                  /\ generation[g].gaps <= job[g].attempts

\* _finish writes a verdict without asking who holds the job, so with two
\* instances in one generation either may decide it while the other still runs.
\* Even then nothing is decided that did not happen: a result was stored and
\* announced, a failure was announced, or the generation was deleted.
HasEvent(g, stage) == \E n \in DOMAIN events[g] : events[g][n].stage = stage
VerdictIsEarned ==
  \A g \in Gens :
    /\ job[g].state = "completed" => generation[g].gaps > 0 /\ HasEvent(g, "completed")
    /\ job[g].state = "failed" => HasEvent(g, "failed")
    /\ job[g].state = "cancelled" => generation[g].deleted

\* A POST that dies between its commits leaves an inert row: queued, without a
\* job, its log at most the "queued" event; and no job exists before that event
\* is the first of its log, so no run's progress ever comes ahead of it.  The
\* three commits of create_generation are in the order that makes this so.
CommitsInOrder ==
  \A g \in Gens :
    /\ request[g].at \in {"committed", "recorded", "lost"} =>
         /\ job[g].state = "absent"
         /\ generation[g].status = "queued"
         /\ Len(events[g]) <= 1
    /\ job[g].state # "absent" =>
         /\ events[g] # <<>>
         /\ \A n \in DOMAIN events[g] : events[g][n].stage = "queued" <=> n = 1

\* No job is claimed a second time without a crash or a failed transaction to
\* blame.  max_attempts is stored and never read (db/models.py, Job), so this is
\* all that bounds the number of runs, each of them paid for.
AttemptsAccounted ==
  \A g \in Gens : job[g].attempts <= 1 + crashes + errors

\* The queue does what Dispatch promises: one holder at a time, work returned to
\* the queue only when its holder is gone, and a verdict that is final.
OnBoard(state) ==
  CASE state = "absent" -> "none"
    [] state = "pending" -> "waiting"
    [] state = "running" -> "taken"
    [] OTHER -> "done"

Board == INSTANCE Dispatch WITH
  Work <- Gens,
  Holders <- Instances,
  board <- [g \in Gens |-> OnBoard(job[g].state)],
  holders <- [g \in Gens |-> {i \in Instances : Runs(i, g)}]

ImplementsDispatch == Board!Spec

\* A job that was accepted is decided in the end, whatever crashes, as long as
\* the platform restarts an instance only after its locks went stale
\* (RestartAfter > StaleAfter) and no database error strands the job.
EveryJobDecided ==
  \A g \in Gens : request[g].at = "answered" ~> Decided(g)

-------------------------------------------------------------------------------
(* The inductive invariants behind the properties (proved in ForgeQueueProofs):  *)
(* the first two hold for runs of any length, IInv for MaxRun <= StaleAfter.     *)

\* No row is numbered beyond its position in the log, nor does a recorder hold
\* such a number, however many record at once: what gives LastSeq a value.  Rows
\* of two recorders may still share a number, which LogIsNumbered excludes for one.
SeqWithinLog ==
  \A g \in Gens : \A n \in DOMAIN events[g] : events[g][n].seq <= n
ReadWithinLog ==
  \A i \in Instances :
    worker[i].pc = "write" => worker[i].last <= Len(events[worker[i].gen])

\* A worker that runs a generation holds its job's lock, and the lock is exactly
\* as old as the run: so while it runs the lock cannot go stale.
HoldsLock ==
  \A i \in Instances : Working(i) =>
    LET j == job[worker[i].gen] IN
    /\ j.state = "running"
    /\ j.by = i
    /\ j.age = worker[i].age
    /\ worker[i].age <= MaxRun

\* A generation has a job exactly when its POST was answered.
JobIsAnswered ==
  \A g \in Gens : request[g].at = "answered" <=> job[g].state # "absent"

\* Between record_event's select and its insert nobody else appends.
ReadIsFresh ==
  \A i \in Instances :
    worker[i].pc = "write" => worker[i].last = Len(events[worker[i].gen])

\* What the row and the log already say when the worker is about to announce
\* or to decide.
Story(g, verdict) ==
  /\ verdict \in {"completed", "failed"} => generation[g].status = verdict
  /\ verdict = "completed" => generation[g].tailored > 0
  /\ verdict = "cancelled" => generation[g].deleted

Announcing ==
  \A i \in Instances :
    worker[i].pc \in {"read", "write"} /\ worker[i].stage \in {"failed", "completed"} =>
      Story(worker[i].gen, worker[i].stage)

Deciding ==
  \A i \in Instances :
    LET w == worker[i] IN
    w.pc = "finish" =>
      /\ Story(w.gen, Verdict(w))
      /\ w.stage # "none" =>
           events[w.gen] # <<>> /\ LastStage(w.gen) = w.stage

IInv ==
  /\ HoldsLock
  /\ JobIsAnswered
  /\ LogIsNumbered
  /\ ReadIsFresh
  /\ Announcing
  /\ Deciding
  /\ JobVerdict

===============================================================================
