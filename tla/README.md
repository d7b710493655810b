# ResumeForge in TLA+

ResumeForge tailors a LaTeX resume to a job posting. A browser submits a
posting, the server queues a *generation*, a worker inside the web process runs
an agent pipeline over it, and the browser follows the run as a stream of
progress events. This directory models the parts of that system whose
correctness depends on the order in which things happen, checks the models with
TLC on small instances, and proves the main results with TLAPS for all values of
the constants.

Paths in this document are relative to `src/`; `app/` stands for `backend/app/`
and `web/` for `frontend/src/app/`.

## 1. The system

| Component | State it keeps | Operations | Interacts with |
|---|---|---|---|
| **Queue and worker** (`app/worker.py`, `app/api/routes.py`, `app/db/models.py`) | tables `generations`, `jobs`, `generation_events`, `generation_gaps`; one loop per web process | create (three commits), delete, claim, run, record an event, persist a result, finish, reclaim at start-up | the pipeline (called in a thread), the stream (shares the log), other instances (share the tables) |
| **Agent pipeline** (`app/agent/graph.py`) | the LangGraph state: job spec, plan, apply result, compile result, three counters, events | ten nodes and three routers | model client, edit application, compiler; result and events go to the worker |
| **Progress stream** (`routes.py` `generation_events`, `app/auth.py` tickets, `web/core/progress.service.ts`) | the cursor of each response generator; in the browser Last-Event-ID and what it has shown | mint a ticket, connect, poll, yield, finish, drop, reconnect | reads the log and the status the worker writes |
| **Sessions** (`app/auth.py`, `web/core/auth.interceptor.ts`, `auth.service.ts`) | `refresh_tokens`; per tab the token pair, `refreshing` and `gate`; localStorage | sign in, refresh (rotate), log out (revoke), retry refused requests | every other request of the browser |
| **Edit application** (`app/agent/apply.py`, `ops.py`, `app/latex/editbuffer.py`, `escape.py`) | per call: pending orders, drops and rewrites of every group of bullets, the account of applied and refused edits, a buffer of span replacements | five kinds of edits; rendering | pipeline, guards, parser |
| **Library** (`routes.py`) | resumes, generations, gap rows, soft-delete marks, stored PDFs | upload, delete, regenerate with a version number, gap roadmap | the worker, which renames rows, stores PDFs and inserts gaps |
| **Guards and lexicon** (`app/agent/guards.py`, `lexicon.py`, `concepts.py`) | none | predicates over a proposed text | edit application |
| **LaTeX scanner, parser, tree** (`app/latex/`) | none beyond a call | source to tree of spans | edit application, upload |
| **Model client** (`app/agent/llm.py`) | waits so far of a call; the service's window | post, wait as told, give up | pipeline; other clients of the same key |
| **Compiler, storage** (`app/latex/compiler.py`, `app/storage.py`) | the bucket, one key for each generation | outside calls | pipeline, worker |
| **Reports, configuration, migrations, views** | none that is shared | formatting, settings, schema, rendering | - |

What is hard about it, and to test:

* **Crashes between commits.** A run is a chain of separate transactions
  (running, every event, the result, the last event, the verdict). The platform
  kills instances at any time; a new instance reclaims what looks abandoned.
* **Several instances.** The claim and the staleness threshold are all that keeps
  two loops off one job, and numbering an event is a read and a later insert.
* **Reconnects.** A stream breaks anywhere between the row in the database and
  the row on the screen.
* **Cycles in the pipeline** that share nodes and counters (repair and trim both
  enter `compile`), under a hard limit on steps.
* **Concurrent refusals** in the browser: several requests find their token
  expired at once while refresh tokens may be used only once.
* **Edits that meet.** The edits of a plan act in order on one set of pending
  changes, and a changed bullet is folded into its entry, that into its section and
  that into the file, each by offsets that an inner change may have made wrong.
* **Handlers of several statements** (version numbers, the roadmap) between which
  other requests and the worker commit.
* **A shared rate limit.** Waiting as told does not help if others take the window.

What makes each component correct:

* queue: one runner per generation; a gapless log; a verdict that agrees with the
  row and the log; every accepted job decided;
* pipeline: it ends; the stored PDF is the PDF of the stored source; it settles
  for less only when its rounds are spent; a failed repair falls back to the original;
* stream: every row once, in order, and the viewer is told the end;
* sessions: refreshing never costs a working session; one live refresh token; no
  refused request is left waiting;
* edit application: what is read back from the rendering is what the accepted edits
  asked for, bullets are permuted, reworded within the guards or dropped, nothing else
  changes, and every change of a bullet is in the account of the result;
* library: a regeneration has a higher version than its predecessors, a PDF belongs to
  the source it is offered with, a roadmap is made of rows that exist;
* model client: a call ends within its bound and is given up only in a crowd.

`PROJECT.json` lists every component with its status, and under `hazards` the
lines of code where each of these can go wrong, with the properties aimed at it.

## 2. Modules

    Dispatch                                      EditIntent
       ^ refines (INSTANCE Dispatch WITH)            ^ refines (INSTANCE EditIntent WITH)
    ForgeQueue <--EXTENDS-- ProgressStream        ApplyPlan --EXTENDS--> LatexTree

    Pipeline        Session        Library        ModelClient

Each has a `*Proofs` module that EXTENDS it (`ForgeQueueProofs`, which also proves that
the queue implements `Dispatch`, `StreamProofs`, `PipelineProofs`, `SessionProofs`,
`LatexTreeProofs`, `ApplyPlanProofs`, which extends that, `LibraryProofs`, `ModelClientProofs`); `MCForgeQueue` and `MCLibrary` add symmetry, `MCApplyPlan` the
documents and texts ApplyPlan is checked on.

**ForgeQueue.** `generation`, `job`, `events` are the tables, `created` is the
order of `Job.created_at`, `request` stands for the `create_generation` handlers in
flight and `worker` for the loop of every instance. An action is one committed
transaction, because a crash, another instance or a handler can come between two
commits and nowhere else: `CreateGeneration`, `RecordQueued`, `Enqueue` are the
three commits of a POST; `Claim` is `_claim`, which passes over rows that another loop's claim
has locked, so that a loop takes the n-th oldest pending job only if n - 1 others may be claiming
(`InTurn`); `LoadGeneration`/`LoadDeleted` are
the start of `_run_job`; `ReadLastSeq` and `WriteEvent` are the two statements of
`record_event`; `PipelineReturns`/`PipelineRaises`, `CommitResult` and `Finish`
are the rest of a run; `LoopError` is the loop's `except`; `Crash`, `Start` (with
`_reclaim_stale`) and `Tick` are what happens to instances. `tailored` counts how
often a source went through the pipeline: the code feeds a reclaimed generation its
own output.

**Pipeline.** One action is one LangGraph superstep, a node with the router behind
it. The model and the compiler answer anything they may; a result of `apply_plan`
is the rendered source, the bullets it reports as rewritten, and those it refused; of a source the
text of each bullet is kept, and whether anything was moved.
`RouterWritesKept` says whether an assignment a router makes to the state survives:
FALSE in every run, since LangGraph passes routers a copy of the state and keeps
only what nodes return. (The events list inside the copy is shared, so the event
appended there stays.)

**ProgressStream** extends the queue with one browser and the response that serves
it. `Fetch`, `Yield`, `ReadStatus` are the body of the generator, in that order;
`Receive`/`ReceiveDone` and the reconnects are `EventSource` and
`progress.service.ts`. Rows are identified by their position in the log, so that two
rows with the same number remain two. `CrashServer` and `TicketAges` conjoin the
queue's `Crash` and `Tick` with what they do to the connection; every other step of
the queue leaves the stream alone.

**Session.** Token pairs are numbered as issued; `fresh` holds the pairs whose access
token is good, `active` those whose refresh token is. A request that was refused
gives up, waits at the gate or leads a refresh, as the interceptor decides; rotating
is a read (`CheckToken`) and a commit (`Rotate`) with nothing locked in between; the
new pair is stored and announced and every waiting request is sent again in one
step (`Refreshed`), as a synchronous subject does. What may cost a session - a second
tab, a logout, a refresh token past its month, a lost refresh, a failing retry - is
modelled and counted in `disturbances`.

**Dispatch** is the abstract queue: work that waits, is taken by one holder at a time,
goes back to waiting only when nobody holds it, and is done for good. There are no locks,
clocks or commits in it. `ForgeQueue` implements it under the mapping `OnBoard`: a pending
job waits, a running one is taken, a decided one is done, and the holders are the loops in
the middle of a run, whatever the row says. A reclaim is `PutBack`, a crash or a failed
transaction is `Abandon`.

**LatexTree** is the reading of a resume, on sequences of lexemes (a control word, a brace,
a percent sign, a newline, a word, an escaped literal, and the blank that may follow `\item`): the mask of what is active,
matching groups, arguments separated by layout and comments, environments with their
depth, then sections, entries and bullets with spans and ids. An id is its scope and
its plain text, which is what the code hashes; the number of a repetition is its last part.
A template profile is the names it recognises. What is found is a set of positions, and
`InOrder` makes the sequence of it that the code makes by scanning or sorting: so written, the
reading can be proved about. `Nested` says that spans are nested as the tree is, and `Tidy` what
the parser takes for granted of a text to make them so: the argument of a bullet ends before the
next bullet, entry or section (`BulletsEnd`), and lists of different names do not contain each
other (`ListsApart`). `Upright` says that no span is inverted: a header whose arguments contain the
next one makes the parser raise (`scanner.py:42`), and has no tree here either.

**ApplyPlan** has one action for each kind of edit, with the whole validation in it, and
`Emit`, which folds what is pending into replacements and renders them. A plan is any
sequence of at most `MaxEdits` edits, orders that omit or repeat an id and unknown ids
among them. A new text takes the place of a bullet's interior; where this begins right behind
`\item`, the text runs on from the command (`Joined`). `reread` is the rendering, parsed again.

**EditIntent** says what all this is for: lines that stand at a section, an entry and
a number (headings are number 0); five ways to rearrange, reword or drop them; and publishing
exactly that. A dropped line keeps its number until publishing numbers what is left, as a drop
leaves the order of its group alone. The mapping takes `content` from what is pending and `published` from `reread`, so that
implementing `EditIntent` means that a reader of the rendered file finds what the accepted
edits asked for: parsing, offsets, nested folding, separators and escaping are all in
between.

**Library** has one action for each statement that another request can come between:
`Ask`, `CountVersions`, `Insert` are `create_generation`; `CountTotal`, `CountGaps` and a
`ReadCompanies` for every skill are the roadmap; `PutPdf`/`PutFails` and `CommitResult` are `_persist`. It
sees the worker from the library's side: a run is claimed, stores a PDF, commits and is
decided, or crashes at any point and is claimed again. Statements see what is committed
(the default isolation of the database). Gap rows carry the run that inserted them,
because nothing keeps a rerun from inserting them twice. Company and role, which are
always compared together, are one name.

**ModelClient** is the path of the Groq client: `Post`, then an admitted `Answer`, a 429
(`Refuse`) with or without a wait named, or no answer; `Wake` posts again. The service
admits `PerWindow` requests per `Window`, and several clients share it. `elapsed`, `others`
and `unnamed` are history.

The `*Proofs` modules hold the theorems. Definitions marked "Mutant of" are variants of
a definition with one plausible bug, one for each checked property: with the variant in
place the property must fail. They are not used otherwise.

## 3. Runs

Passing runs:

| Run | Instance | Shows |
|---|---|---|
| `QueueSafety` | 2 instances, 2 generations, 1 crash, 1 failed transaction, `MaxRun = StaleAfter` | `SingleRunner`, `LogIsNumbered`, `JobVerdict`, `CommitsInOrder`, `AttemptsAccounted`; the queue implements `Dispatch` |
| `QueueLiveness` | 2 instances, 1 generation, runs that outlive their lock, 1 crash, restarts later than the threshold | what survives two runners, `OneResultPerClaim` and `VerdictIsEarned`; `EveryJobDecided` |
| `PipelineSafety` | the default ceilings (3 attempts, 2 gap rounds, 3 trims, 60 steps), 2 bullets, 1 text, 2 pages | the pipeline's safety properties and `Termination` |
| `StreamProgress` | 1 generation, 1 instance, 1 crash, 2 dropped connections | `ShownOnceInOrder`, `ViewerIsTold` |
| `SessionSafety` | 2 tabs, 3 requests, 1 disturbance | `StaysSignedIn`, `OneLiveToken`, `RetryIsNewer`, `RefusedIsSettled` |
| `ApplySafety` | 47 documents, every plan of two edits, 4 texts | the tree (`SpansNested`), what is pending (`OrdersComplete`), the account (`ResultAccounted`), the rendering (`EveryLexemeAccounted`, `FlatRendering`, `StructureKept`); editing implements `EditIntent` |
| `LibrarySafety` | 2 users, 1 resume, 2 generations, 2 requests, 2 runs, 1 skill, 1 roadmap | `VersionsIncrease`, `PdfIsOfSource`, `RoadmapWithinTables` |
| `ModelClientSafety` | 2 clients with 2 calls each, 2 waits, a window of 3 ticks that admits one request | `RefusedOnlyInACrowd`, `CallBounded`, `CallEnds` |

Runs that find the code departs from what the repository says of it (`findings` in
`PROJECT.json` quote the lines):

| Run | Says | Does |
|---|---|---|
| `QueueQuickRestart` | an abandoned job is returned on the next startup (`app/worker.py` docstring) | a restart within ten minutes finds the lock too young, and nothing looks again |
| `PipelineRevert` | "reverted to original resume" (`app/agent/graph.py`) | the router's assignment is lost; the broken source is delivered |
| `PipelineTrim` | a tailored resume that grew is brought back within budget by drops (`app/agent/prompts.py`, `README.md`) | the drops are applied to the original resume: all that the plan changed is gone, and so are the drops of an earlier trim |
| `ApplyEntryReorder` | a parse miss can never corrupt a document (`app/latex/parser.py` docstring) | where the entries stand in a list, the last entry's span holds the end of that list; reordering the entries moves it before them, and the document does not compile |

All but the first are violated by a finite behaviour and need no fairness; `QueueQuickRestart`
refutes a liveness property. `ReorderCompiles` is the promise without its exceptions;
`StructureKept`, which holds, is what remains of it: if every bullet stands off its command and ends
its line, sections and bullets may be reordered, bullets reworded, and a list keeps its end as long
as it keeps an item.

### Other departures met while modelling

They have no run of their own; each is in a model.

* *Refusals.* Repair and trim replace the plan's result, and the report is built from the
  last one: what the plan had refused is listed nowhere, although the repository's `README.md`
  says it is listed "rather than hidden" (`graph.py:253`, `graph.py:283`). A repair replaces the
  edits, too: it applies its own plan to the original resume (`graph.py:252`), as `PipelineTrim`
  shows of a trim.
* *The account.* `apply_plan` promises "a full account" (`apply.py:189`). Reorderings of sections
  and of entries that are accepted are not in it; `ResultAccounted` is about bullets.
* *The stream's ticket* lives a minute and is part of the URL an `EventSource` reconnects
  with, so a drop after that is final (`progress.service.ts:18-20` calls it recoverable).
* *Clearing the session.* The interceptor's `catchError` also catches a refresh that got lost
  and any error of the leader's retried request, and ends a session whose refresh token is
  live (its comment says the token is "spent or revoked", `auth.interceptor.ts:64`).
* *Version numbers* count predecessors by the company and role the request names, while a run
  overwrites both with what the posting names (`worker.py:275-276`). A request that leaves them
  blank never finds its predecessors again: every regeneration is version 1.
  `VersionsIncrease` therefore excludes renamed rows; a test that posts a company finds
  "versions accumulate" true because its run is not started.
* *A rerun after a stored result.* The result is committed at `worker.py:309`, the verdict in a later
  transaction (`worker.py:322`). After a crash in between, the job is reclaimed and run on the tailored
  source (`worker.py:212`), and the stored result is overwritten, although a generation is "Retained,
  never overwritten by a regeneration" (`db/models.py:180`). The rerun inserts the gap rows a second
  time and puts its PDF under the same key before it commits: for a while the row's source and the
  stored PDF are of two runs.
* *Two recorders.* `record_event` reads the highest number and inserts the next with nothing locked
  (`worker.py:106`), so two instances that run one generation give two rows one number. If the
  stream has sent one of them when the other is committed, no number of that one is beyond the cursor
  (`routes.py:476`) and it is never sent, although a client gets "what it missed"
  (`routes.py:15-16`). `LogIsNumbered` and `ShownOnceInOrder` hold for one runner only.
* *The roadmap* counts the gaps of deleted generations, the total beside it does not.
* *The lock and the model.* One call may wait 4 times 60 s and time out 5 times after 180 s:
  1140 s against a lock that is stale after 600 s and is never renewed. Only its age is asked for
  (`worker.py:161`), so an instance that starts returns a job "abandoned by a killed instance"
  (`worker.py:152`) that a living one is running, and it is run twice. `QueueLiveness` therefore has
  runs that outlive their lock, and says what still holds of them.
* *Lists in lists.* "A nested list is part of its parent bullet's text and must not be split out"
  (`parser.py:120`) holds of lists of one name. Under a profile with several (`GENERIC`,
  `profiles.py:144`) an enumerate inside an itemize item is read under its own name: its items
  become bullets that overlap the bullet around them, and `SpansNested` fails.
* *Braced items.* The interior of a bullet begins right behind `\item` (`parser.py:139`): of
  `\item{text}` it is `{text}`, and rewording it gives `\itemNew text`, a command TeX does not
  know (`apply.py:310-315`), although only the interior is rewritten (`ops.py:6`) and escaping makes such
  failures "structurally impossible" (`escape.py:4-5`). `Joined` has it; the documents of
  `ApplySafety` put a blank or a brace of the command in between, and `BulletsStandOff` is the
  hypothesis of `StructureKept` that excludes the others.
* *Headers in arguments.* An entry with the next entry's or section's command inside its arguments,
  or a section title with one inside, makes the parser raise `ValueError` (`parser.py:219`, `parser.py:314`),
  where the upload expects a `ParseError` (`routes.py:182`). The documents of the model are `Upright`.
* *Two lists in a group.* The bullets of an entry may stand in two lists. Separators keep their
  place (`apply.py:113`), so that after a drop what is left is cut off at the end: if an itemize and
  an enumerate follow each other, a dropped bullet leaves the begin of the one with the end of the
  other, and TLC finds `ImplementsIntent` violated.
* *A comment at the end of a bullet* is part of the bullet, the line break behind it is not
  (`parser.py:138` trims it). Where the last item of a list shares its line with what follows
  (`\item y\end{itemize}`), moving a bullet that ends in a comment there comments the end of the list
  out: TLC finds `ImplementsIntent` violated, and `StructureKept` without its hypothesis
  `BulletsEndTheirLines`. `EveryLexemeAccounted` and `FlatRendering` hold there too, as the theorems
  say: the lexemes are all there, but they no longer mean what they did.
* *Deleting in mid-run*, *`max_attempts`* and *uploads that do not compile*: a deleted generation
  is completed all the same, the ceiling on attempts is stored and never read, and a resume
  that does not compile is stored and generated from.

### Bounds

* Two instances and two generations are the least with which jobs are claimed out of
  their order and a reclaimed job meets its first runner; with one pipeline event every
  position of a crash among the commits of a run occurs (before, between and behind the
  pair of events). The proofs remove these bounds. `QueueLiveness` has one generation: what
  it asks is whether one job is decided between two loops that both run it.
* Ages are capped just beyond the threshold they are compared with (`OlderBy1`), which
  loses nothing.
* `MaxCrashes`, `MaxErrors`, `MaxDrops`, `MaxSignIns`, `MaxDisturbances`, `MaxRuns`,
  `MaxRoadmaps` bound faults and inputs only; the code has no such counters.
* In the pipeline two bullets distinguish a rewritten bullet from one that was dropped
  and one left alone in the same result. The ceilings are those of `app/config.py`.
* Three requests in `SessionSafety` are needed for a second refresh that must not let
  anyone through with the token of the first: one leads the first, one leads the second,
  one waits.
* The documents of `ApplySafety` are every body of up to two of six blocks (text, a comment
  with markup in it, an entry, lists of one and two items, a list nested in an item) in front
  of a second section, and four made by hand: a whole file with a preamble, loose bullets beside
  entries and twice the same section title and bullet; the macro style with two entries
  of one label, hence of equal bullet ids; a profile with lists of two names; and a macro whose
  argument follows behind a comment with escapes and braces in it. All are tidy and upright, which
  TLC evaluates (`DocumentsAreTidy`); what happens to others is under the departures above. The run
  has 24068 distinct states. Two edits are enough for one to undo, hide or move
  what the other did. The orders proposed are the members rotated, reversed or with two
  neighbours exchanged, one that omits an id and one that repeats one.
* Two requests for one resume and name meet between count and insert; two runs are a run
  and its rerun, or runs of two generations in any order, and both insert gaps between any two
  statements of the roadmap. The roadmap asks for one skill; its statement for each further skill
  is in the model, and `RoadmapCorrect` is proved for any set of them.
* `ModelClientSafety` scales 180 s, 60 s and 15 s to 2, 3 and 1 ticks, and the waits to 2. With
  one request admitted per window, one other client can take the window a call waits for,
  twice in a row.

Symmetry is used in safety runs only (`QueueSafety`, `LibrarySafety`), never with liveness.
Deadlock is not checked: every system may come to rest with all work done and all bounds
used up.

### Fairness and timing

* *Handlers, loops and generators* that run keep running (`WF` of `Handler`,
  `WorkerStep`, `ServerStep`): one event loop schedules them. Weak fairness suffices,
  since only their own steps disable them, apart from a crash.
* *The browser* reads and reconnects (`WF` of `BrowserStep`): `EventSource` retries by
  itself. *Calls* of a session are answered unless lost (`WF` of `RequestStep`).
* *The platform* restarts a dead instance (`WF` of `Start`), and time passes (`Tick`).
* *The pipeline's thread* keeps running the graph (`WF` of `GraphStep`) and the call of the
  model it makes (`WF` of `Own`). No node has to raise and the service has to answer nothing:
  termination is not bought with an exception, nor a call's end with an answer.
* Clients, faults, deletions and expiry are never fair.

Three timing assumptions are constants, because the code enforces none of them:
`MaxRun <= StaleAfter` (a run is over before its lock goes stale; the threshold is ten
minutes), `RestartAfter > StaleAfter` (only in `QueueLiveness` and `StreamProgress`; its
opposite is the finding `QueueQuickRestart`) and, in `Session`, that an access token
(15 minutes) outlasts the round trip of one retry. `ModelClient` assumes that the waits the
service names are exact and no longer than the cap (`WindowIsNamed`), and takes httpx's read
timeout, which is per read, as one of the whole request: answers are not streamed.

## 4. Proofs

All theorems hold for every value of the constants that meets the named assumptions.

**ForgeQueueProofs.** `TypeCorrect`: `TypeOK`, for runs of any length. It needs `SeqWithinLog` and
`ReadWithinLog`: a number never exceeds a row's place in the log, nor one that is held the log's
length, because logs only grow. They are bounds for the proofs; rows that share a number satisfy them.
`QueueCorrect`: for `MaxRun <= StaleAfter`, `SingleRunner`, `LogIsNumbered` and `JobVerdict`.
None of the three is inductive. `IInv` adds `HoldsLock` (a worker that runs a generation
holds the job's lock, and the lock is exactly as old as the run, so it cannot be reclaimed),
`JobIsAnswered` (no second POST creates the job), `ReadIsFresh` (nobody appends between a
recorder's read and its insert, which follows from `HoldsLock`) and `Announcing`/`Deciding`
(what row and log already say when a worker is about to announce or to decide).
`NumberedWithoutGaps` and `VerdictsAgree` state the parts one by one.
`ResultsAreAccountedFor`: `OneResultPerClaim`, for runs of any length, that is with any number of
loops in the middle of one job. Two inequalities are inductive where the property is not: the loops
that are past a claim and before their result, together with the results stored, are no more than
the claims; and the loops about to announce, together with the announcements in the log, no more
than the results stored. Every step moves a loop from one term of these sums to another, and
a crash only takes one away; the work is in counting sets that change by one element.
`QueueImplementsDispatch`: for `MaxRun <= StaleAfter`, the queue implements
`Dispatch`. One lemma for each action says which step of `Dispatch` it is; the step that needs
the invariant is `Start`, a `PutBack` of jobs nobody holds, which `HoldsLock` and the ages give.
`VerdictsAreEarned`: `VerdictIsEarned`, for runs of any length. A loop that is about to announce has
stored a result, and one about to decide finds in the log what it announced; logs and results
only grow, so neither another runner nor a crash takes that back.
`ClaimsAreAccountedFor`: `AttemptsAccounted`, by counting for every job the loop that runs it.
`CommitsAreInOrder`: `CommitsInOrder`, for runs of any length.

**PipelineProofs.** `TypeCorrect`; `PipelineCorrect`: `AttemptsBounded`, `PdfIsOfDelivered`,
`RoundsAreSpent`; `CyclesFitTheLimit`: `NoRecursionError` as soon as
`RecursionLimit >= 5 + MaxGapFillRounds + 2 * (MaxCompileAttempts + MaxTrimRounds)` (19 with
the default settings, against 60). The argument is `StepsCounted`: where a run is and what its
counters say determine how many steps it took.

**StreamProofs.** `StreamImplementsQueue`: every behaviour of the composition is one of the
queue (a refinement by inclusion of the variables: each step of `StreamNext` is a step of
`Next` or leaves the queue's variables alone), so the queue's theorems carry over.
`StreamTypeCorrect`: whatever is under way is a row of the log. `StreamCorrect`:
`ShownOnceInOrder`, from `Follows` (the rows on the wire follow those shown) and `Batched` (a
batch is a gapless piece of the log behind the cursor), on a log numbered 1, 2, 3, ..., which
`QueueCorrect` provides; hence again `MaxRun <= StaleAfter`.

**SessionProofs.** `TypeCorrect`; `SessionCorrect`: `OneLiveToken` and `RetryIsNewer`;
`SignedInCorrect`: `StaysSignedIn`. `WorkingSession` says of an undisturbed session that there
is one tab (`OneTab`), that at most one request leads a refresh and the gate is closed
meanwhile (`OneLeader`), that the leader presents the one live token (`LeaderPresentsLive`), so
it is never denied, and that no request carries a token newer than its tab's (`NoneIsAhead`).
A step that disturbs the session leaves nothing to show; `UndisturbedStep` sorts them out.

**LatexTreeProofs.** Two theorems about the reader, for any text and any profile. The only
assumption is that groups are closed (`Closed`): at one that is not, reading an argument raises and
there is no tree (`scanner.py:110`). `TreeIsListed`: sections, entries of a section and bullets of
a group have unique ids. Ids come from texts, which repeat; the number a repetition gets grows with
its place among the nodes of the same text, so two nodes with equal ids are one. `TreeIsNested`: in
a tidy text, `Nested`. What is found is a finite set strictly ordered by position, so the rank of a
member is its place in the list (`RankGrows`, `AscendingSorts`, `SourceOrder`), and neighbours in
the list are neighbours in the source. Sections and entries then end at the next hit, hence no later
than the next begins (`NextHitBehind`). For the bullets the proof needs that the environments of one
name are disjoint at depth 0, because an end closes the last begin that is open (`ItemsApart`), that
a list found in a region is one of the whole text (`SameBody`), and `Tidy` for the rest. `Tidy` is a
hypothesis no weaker than it must be: the departures above are texts without it that have overlapping
bullets.

**ApplyPlanProofs.** The assumptions of the module are `DocumentsAreRead`, that the parser reads the
documents (`Closed` is what `TreeIsListed` needs of it; `Upright` is not used in a proof),
and `NewTextsAreTexts`: what the model proposes is a sequence of lexemes, as a source is.
`EditsAreAccountedFor`: `ResultAccounted`, for every document, plan and
vocabulary. The step that matters is a rewriting: the bullet the guards saw and the one the
group changes are looked up separately, and are the same because one group is the first that
has the id (`GroupOf` is a set of at most one).
`OrdersStayComplete`: `OrdersComplete`. The code compares only the length and the set of the ids
proposed; that this makes a permutation rests on the ids being unique, by `TreeIsListed`: looking
the proposed ids up hits every place. `SpansStayNested`: `SpansNested`, from `TreeIsNested`, if all
documents are tidy.
`EditsImplementIntent`: ApplyPlan starts where `EditIntent` starts, and every step of `ApplyEdit` is
one step of it or leaves content and publication alone: the refinement `ImplementsIntent`, up to
`Emit`. The lines of the intent are the parts of the tree, each at the place its orders give it.
Orders are one to one, because an injection of a finite set into itself is onto (`OrderIsBijective`),
so that two parts never share a place (`SamePart`): replacing one order by another moves the
lines by a permutation of places (`ShiftIsBijection`), and a rewriting or a drop changes one line and no
other (`OneLine`). What a line said is what the source says, which no edit changes (`TextsStay`).
`EditsNeverCollide`: `EditBuffer.replace` never raises. Replacements are of sections, or of all of them
at once, and the sections of any text, tidy or not, follow each other within it (`SectionsFollow`);
this needs the sections to be found in ascending order, that what is dropped from the buffer leaves
the others in order (`QueuedApart`), and that an order is pending only where there are sections.

The last two theorems are about the text that comes out, for all tidy documents and plans.
`NestedEditsRenderFlat`: `FlatRendering`. `EveryLexemeIsKept`: `EveryLexemeAccounted`. The code
folds each group into the text of its entry, the entries into the text of their section, the loose
bullets after them into the same text, and the sections into the file, with offsets of the untouched
source corrected by the start of the part only; that this is right is what the two say. The
invariant, `Settled`, joins the ones above: the orders are orders (`OrdersOk`), the tree is that of the
document and the groups are its groups (`Ready`), what is pending was admitted (`Inv`) and spans are
nested. The argument has four parts.

* *Pieces.* `Glue(P, a, b)` joins the pieces P[a], ..., P[b - 1]. It is defined by a function on the
  naturals and not by recursion over sequences, so that what is needed of it (`GlueJoin`, `GlueSame`,
  `GlueText`) follows by climbing from a to b (`Upward`), the one form of induction that needs no
  operator as a parameter; `FlattenIsGlue` ties it to `FlattenSeq`.
* *The patched source* has one piece for every lexeme of the source: the new text of a changed group
  where its region starts, nothing on the rest of the region, and the lexeme itself elsewhere
  (`Patched`). The regions of the groups never meet (`RegionsApart`), so each can be cut out
  (`PatchedAt`, `PatchedOff`).
* *Folding in.* Each level is rendered as the patched source has it: `GroupFoldedIn`, `EntryRendered`,
  `SectionRendered`, `PlanRendered`. The step from the entries to the loose bullets is the delicate one:
  their region is cut out of a text whose tail has been changed already, and the offsets still
  hold because loose bullets come before the first entry, up to which the section is still the source
  (`SectionInParts`, `SpliceHead`).
* *One proof for two theorems.* `Same(exact, s, t)` means that s and t are equal, or that they hold
  each lexeme equally often. Without reorderings everything is proved exactly; with them the members of
  a section or of the document change places, which keeps the counts (`CountInAnyOrder`, by a bijection
  between the places of a lexeme). `CountSpliced` then counts the patched source, one group at a time.

Two steps were needed to state this for the provers, neither of which weakens it: `Count` is the
cardinality of a set of places, and the order of the changed groups is `InOrder`, whose
meaning is proved (`InOrderSorts`), instead of the sorting of the community modules.

**LibraryProofs.** `TypeCorrect`; `PdfCorrect`: `PdfIsOfSource`, because runs are numbered, a key
is of the run that committed last, and only a claim makes another one;
`RoadmapCorrect`: `RoadmapWithinTables`, because gap rows are never removed or changed;
`VersionsCorrect`: `VersionsIncrease`: the predecessors a request counted are a set that the
predecessors of an earlier one are part of, properly, as long as nothing is renamed, and
cardinality does the rest.

**ModelClientProofs.** `TypeCorrect`; `CallsAreBounded`: the time a call has taken and the timer
it waits on stay below a bound that is linear in its waits; `RefusalNeedsACrowd`: a call that was
told to wait for the window and finds it taken again has seen `PerWindow` requests of others,
one window for each wait.

Only model-checked: the liveness properties (`EveryJobDecided`, `Termination`, `ViewerIsTold`,
`RefusedIsSettled`, `CallEnds`), which are out of the provers' reach; and
of the rendering `StructureKept`, which needs the environments of the spliced text to be matched
again, and of `ImplementsIntent` the one step `Emit`, that what is read back is what was pending, for
which that text has to be parsed again; neither holds without conditions on the documents beyond
`Tidy` (the departures above). The violated properties are of course not proved.

## 5. What is left out

* *In the queue:* the content of sources, specs and reports; `dropped_ids`, which nothing reads;
  the heartbeat of polling.
* *In the pipeline:* what model calls say; drops of ids no bullet has. Its edits are arbitrary, a
  superset of what `ApplyPlan` gives; that it is one is by reading, not by a run.
* *In the stream:* a viewer who leaves; proxies that answer 502 while an instance is down (an
  `EventSource` gives up on any status but 200: a reconnect meets a live instance here); several
  viewers, who share nothing but the log they read.
* *In sessions:* passwords, token encoding, a deleted account; the sign-in call is one step. A
  refresh call that is lost on its way back has rotated the token, one lost on its way there has
  not; both are there.
* *In resumes:* characters. A lexeme is inert or active as a whole; brackets of optional
  arguments, starred commands, the detection of the profile, warnings and hash collisions of
  ids are left out, and so is `compat.py`, which changes only the copy given to the compiler.
* *In editing:* which words are technologies, figures and claims of scope: the guards' word lists
  and regular expressions are one set of claim words here, and the repository's tests cover them.
* *In the library:* listing and reading, which change nothing; signing of URLs; what the posting
  says, apart from the name and the skills a run takes from it.
* *In the model client:* tokens (a request counts as one, whatever its size), connect, write and
  pool timeouts (they end a call early, `Unreachable`), the Anthropic path, whose library
  retries by itself.
* *Not modelled at all:* prompts and schemas, the inside of the compiler's subprocess,
  migrations, views.

## 6. Plan

Done: `ForgeQueue` with `Dispatch`, `Pipeline`, `ProgressStream`, `Session`, `LatexTree` and
`ApplyPlan` with `EditIntent`, `Library`, `ModelClient`, and their proofs. What could follow:

1. What the mask and the environments of a spliced text are, from those of its parts, towards
   `StructureKept` and the `Emit` step of `ImplementsIntent`; the patched source and its lemmas are
   where to start.
2. Optional arguments and starred commands in `LatexTree`; the guards' extraction of claims.
3. The compiler's two backends (a local binary and a container with a timeout) as the
   environment of `Pipeline`, and the views' polling.
