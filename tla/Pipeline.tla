------------------------------- MODULE Pipeline -------------------------------
(***************************************************************************)
(* The agent pipeline: the LangGraph state machine that one run of the       *)
(* worker executes (src/backend/app/agent/graph.py).  A node and the router  *)
(* that follows it are one action, as LangGraph runs them in one superstep.  *)
(*                                                                         *)
(* The model calls are arbitrary: a plan may rewrite or drop any bullets, or  *)
(* none because its edits were refused (ApplyPlan opens this).  The compiler  *)
(* is arbitrary too (a compile can time out): it fails, or succeeds with any  *)
(* number of pages.                                                          *)
(***************************************************************************)
EXTENDS Naturals, FiniteSets

CONSTANTS
  Bullets,           \* bullets of the parsed resume
  Texts,             \* replacement texts the model can propose
  Original, Dropped, \* what else a bullet can be in a rendered source
  MaxPages,          \* bound: pages of a document
  MaxGapFillRounds,  \* settings.max_gap_fill_rounds
  MaxCompileAttempts,\* settings.max_compile_attempts
  MaxTrimRounds,     \* settings.max_trim_rounds
  RecursionLimit,    \* supersteps app.invoke allows
  RouterWritesKept   \* whether a router's assignment to the state survives

ASSUME TextAssumption == Original \notin Texts /\ Dropped \notin Texts
ASSUME RoundsAssumption ==
  /\ MaxGapFillRounds \in Nat
  /\ MaxCompileAttempts \in Nat \ {0}
  /\ MaxTrimRounds \in Nat
ASSUME LimitAssumption == MaxPages \in Nat /\ RecursionLimit \in Nat
ASSUME RouterAssumption == RouterWritesKept \in BOOLEAN

VARIABLES
  node,           \* the node to run next, or how the run ended
  supersteps,     \* nodes run so far
  underspecified, \* job_spec.is_underspecified
  gapRounds,      \* gap_fill_rounds
  applied,        \* apply_result
  compiled,       \* compile_result, with the source it was made from
  attempts,       \* compile_attempts
  trims,          \* trim_rounds
  originalPages,  \* original_page_count; 0 when the baseline did not compile
  exhausted,      \* the events hold "compile.exhausted"
  final           \* final_source

vars == <<node, supersteps, underspecified, gapRounds, applied, compiled, attempts,
          trims, originalPages, exhausted, final>>

-------------------------------------------------------------------------------

Nodes == {"parse_resume", "parse_job", "gap_fill", "coverage", "plan", "apply",
          "compile", "compile_fix", "trim", "deliver"}
Ended == {"end", "raised"}

\* A rendered resume: what each bullet of the original has become, and whether
\* sections, entries or bullets stand in another order than they did.
Sources == [bullets: [Bullets -> Texts \cup {Original, Dropped}], moved: BOOLEAN]
Untouched == [bullets |-> [b \in Bullets |-> Original], moved |-> FALSE]

\* What apply_plan returns: the source and the bullets it reports as rewritten
\* (a later drop in the same plan may have removed them).
ApplyResults ==
  {a \in [source: Sources, rewritten: SUBSET Bullets] :
     \A b \in Bullets :
       /\ a.source.bullets[b] \in Texts => b \in a.rewritten
       /\ a.source.bullets[b] = Original => b \notin a.rewritten}
NoEdits == [source |-> Untouched, rewritten |-> {}]

\* apply_plan on a plan of drops only (trim_node filters out the rest).
DropResults == {a \in ApplyResults : a.rewritten = {} /\ ~a.source.moved}

CompileResults == [ok: BOOLEAN, pages: 0 .. MaxPages, of: Sources]

\* run_pipeline: the baseline compile of the untouched source comes first.
Init ==
  /\ node = "parse_resume"
  /\ supersteps = 0
  /\ underspecified = FALSE
  /\ gapRounds = 0
  /\ applied = NoEdits
  /\ compiled = [ok |-> FALSE, pages |-> 0, of |-> Untouched]
  /\ attempts = 0
  /\ trims = 0
  /\ originalPages \in 0 .. MaxPages
  /\ exhausted = FALSE
  /\ final = Untouched

-------------------------------------------------------------------------------

\* One superstep: LangGraph runs node n and moves on to node m.
Superstep(n, m) ==
  /\ node = n
  /\ supersteps < RecursionLimit
  /\ node' = m
  /\ supersteps' = supersteps + 1

JobVars == <<underspecified, gapRounds>>
EditVars == <<applied>>
CompileVars == <<compiled, attempts, exhausted>>
Fixed == <<originalPages>>

\* Mutant of AfterJobSpec: one round is all a vague posting gets.
AfterFirstJobSpec(vague, rounds) ==
  IF vague /\ rounds < 1 THEN "gap_fill" ELSE "coverage"

\* _route_after_job_parse and _route_after_gap_fill.
AfterJobSpec(vague, rounds) ==
  IF vague /\ rounds < MaxGapFillRounds THEN "gap_fill" ELSE "coverage"

ParseResume ==
  /\ Superstep("parse_resume", "parse_job")
  /\ UNCHANGED <<JobVars, EditVars, CompileVars, trims, Fixed, final>>

ParseJob ==
  /\ underspecified' \in BOOLEAN
  /\ gapRounds' = 0
  /\ Superstep("parse_job", AfterJobSpec(underspecified', 0))
  /\ UNCHANGED <<EditVars, CompileVars, trims, Fixed, final>>

\* Mutant of GapFill: the round is not counted.
GapFillUncounted ==
  /\ underspecified' \in BOOLEAN
  /\ Superstep("gap_fill", AfterJobSpec(underspecified', gapRounds))
  /\ UNCHANGED <<gapRounds, EditVars, CompileVars, trims, Fixed, final>>

GapFill ==
  /\ underspecified' \in BOOLEAN
  /\ gapRounds' = gapRounds + 1
  /\ Superstep("gap_fill", AfterJobSpec(underspecified', gapRounds + 1))
  /\ UNCHANGED <<EditVars, CompileVars, trims, Fixed, final>>

Coverage ==
  /\ Superstep("coverage", "plan")
  /\ UNCHANGED <<JobVars, EditVars, CompileVars, trims, Fixed, final>>

Plan ==
  /\ Superstep("plan", "apply")
  /\ UNCHANGED <<JobVars, EditVars, CompileVars, trims, Fixed, final>>

\* state["apply_result"] = apply_plan(state["tree"], plan): always from the
\* original tree, so nothing of an earlier result survives, not a rewrite, not an
\* order, not a drop.
ApplyPlan(results) == applied' \in results

Apply ==
  /\ Superstep("apply", "compile")
  /\ ApplyPlan(ApplyResults)
  /\ attempts' = 0
  /\ UNCHANGED <<JobVars, compiled, exhausted, trims, Fixed, final>>

\* compile_node: compiles the current source; a failure has no pages.
CompileTo(next) ==
  /\ Superstep("compile", next)
  /\ attempts' = attempts + 1
  /\ compiled' \in CompileResults
  /\ compiled'.of = applied.source
  /\ compiled'.ok \/ compiled'.pages = 0
  /\ UNCHANGED <<JobVars, trims, Fixed, final>>

\* _route_after_compile, its four ways out.
TooLong(result) == originalPages > 0 /\ result.pages > originalPages

\* Mutants of CompileFailed: no ceiling, and a ceiling off by one.
CompileFailedAgain ==
  /\ CompileTo("compile_fix")
  /\ ~compiled'.ok
  /\ UNCHANGED <<EditVars, exhausted>>

CompileFailedOnceMore ==
  /\ CompileTo("compile_fix")
  /\ ~compiled'.ok
  /\ attempts < MaxCompileAttempts
  /\ UNCHANGED <<EditVars, exhausted>>

CompileFailed ==
  /\ CompileTo("compile_fix")
  /\ ~compiled'.ok
  /\ attempts + 1 < MaxCompileAttempts
  /\ UNCHANGED <<EditVars, exhausted>>

\* The router assigns the original back to state["apply_result"] and appends to
\* the events.  LangGraph hands a router a copy of the state, so the assignment
\* is lost; the events list inside it is shared, so the event stays.
CompileExhausted ==
  /\ CompileTo("deliver")
  /\ ~compiled'.ok
  /\ attempts + 1 >= MaxCompileAttempts
  /\ exhausted' = TRUE
  /\ applied' = IF RouterWritesKept THEN NoEdits ELSE applied

\* Mutant of CompileTooLong: trimming without a ceiling.
CompileStillTooLong ==
  /\ CompileTo("trim")
  /\ compiled'.ok /\ TooLong(compiled')
  /\ UNCHANGED <<EditVars, exhausted>>

CompileTooLong ==
  /\ CompileTo("trim")
  /\ compiled'.ok /\ TooLong(compiled') /\ trims < MaxTrimRounds
  /\ UNCHANGED <<EditVars, exhausted>>

CompileAccepted ==
  /\ CompileTo("deliver")
  /\ compiled'.ok
  /\ TooLong(compiled') => trims >= MaxTrimRounds
  /\ UNCHANGED <<EditVars, exhausted>>

\* compile_fix_node: a repair plan replaces the edits, but only if some bullet
\* was rewritten; otherwise the same source is compiled again.
CompileFix ==
  /\ Superstep("compile_fix", "compile")
  /\ applied.rewritten # {}
  /\ ApplyPlan(ApplyResults)
  /\ UNCHANGED <<JobVars, CompileVars, trims, Fixed, final>>

CompileFixSkipped ==
  /\ Superstep("compile_fix", "compile")
  /\ applied.rewritten = {}
  /\ UNCHANGED <<JobVars, EditVars, CompileVars, trims, Fixed, final>>

\* Mutant of Trim: the trimmed source is delivered without compiling it.
TrimAndDeliver ==
  /\ Superstep("trim", "deliver")
  /\ trims' = trims + 1
  /\ ApplyPlan(DropResults)
  /\ UNCHANGED <<JobVars, CompileVars, Fixed, final>>

Trim ==
  /\ Superstep("trim", "compile")
  /\ trims' = trims + 1
  /\ ApplyPlan(DropResults)
  /\ UNCHANGED <<JobVars, CompileVars, Fixed, final>>

Deliver ==
  /\ Superstep("deliver", "end")
  /\ final' = applied.source
  /\ UNCHANGED <<JobVars, EditVars, CompileVars, trims, Fixed>>

\* A node raises (a model call, the parser, the compiler), or LangGraph does
\* because the run used up its supersteps: the worker fails the generation.
Raise ==
  /\ node \notin Ended
  /\ node # "deliver" \/ supersteps = RecursionLimit
  /\ node' = "raised"
  /\ UNCHANGED <<supersteps, JobVars, EditVars, CompileVars, trims, Fixed, final>>

GraphStep ==
  \/ ParseResume \/ ParseJob \/ GapFill \/ Coverage \/ Plan \/ Apply
  \/ CompileFailed \/ CompileExhausted \/ CompileTooLong \/ CompileAccepted
  \/ CompileFix \/ CompileFixSkipped \/ Trim \/ Deliver

Next == GraphStep \/ Raise

Spec == Init /\ [][Next]_vars

\* The executor thread keeps running the graph; no node has to raise.
FairSpec == Spec /\ WF_vars(GraphStep)

-------------------------------------------------------------------------------
(* Properties. *)

\* The rounds stay within their ceilings, and every source held is one that apply_plan
\* renders (graph.py, PipelineState).
TypeOK ==
  /\ node \in Nodes \cup Ended
  /\ supersteps \in Nat
  /\ underspecified \in BOOLEAN
  /\ gapRounds \in 0 .. MaxGapFillRounds
  /\ applied \in ApplyResults
  /\ compiled \in CompileResults
  /\ attempts \in Nat
  /\ trims \in 0 .. MaxTrimRounds
  /\ originalPages \in 0 .. MaxPages
  /\ exhausted \in BOOLEAN
  /\ final \in Sources

\* Both cycles are bounded by their counters, whatever the model and the
\* compiler answer, so LangGraph's own limit never cuts a run short ("each
\* bounded so the graph always terminates", graph.py).
NoRecursionError == supersteps = RecursionLimit => node \in Ended

\* Trim rounds buy compile attempts beyond the ceiling, one each, and no more.
AttemptsBounded == attempts <= MaxCompileAttempts + trims

\* The PDF and the page count that are stored belong to the source that is
\* stored; without a PDF the run has spent every repair attempt and said so.
PdfIsOfDelivered ==
  node = "end" =>
    IF compiled.ok THEN compiled.of = final
    ELSE exhausted /\ attempts >= MaxCompileAttempts

\* A resume that grew beyond the original is delivered only when every trim
\* round is spent, and a vague posting is only worked with when every gap-fill
\* round is.
RoundsAreSpent ==
  node = "end" =>
    /\ compiled.ok /\ TooLong(compiled) => trims = MaxTrimRounds
    /\ underspecified => gapRounds = MaxGapFillRounds

\* The graph comes to an end although no node has to raise: none of its three
\* cycles goes round for ever, nor until LangGraph stops it.
Termination == <>(node \in Ended)

\* "reverted to original resume" (graph.py, the compile.exhausted event).
RevertedIsOriginal == node = "end" /\ exhausted => final = Untouched

\* "A tailored resume compiled successfully but grew past its original page count"
\* (prompts.py:148), "compile <-> trim (if it gained a page)" (README.md): a trim
\* takes bullets from the tailored resume and leaves the rest of it as tailored.
TrimShortensTailored ==
  [][node = "trim" /\ node' = "compile" =>
       /\ \A b \in Bullets :
            applied'.source.bullets[b] \in {applied.source.bullets[b], Dropped}
       /\ applied'.source.moved = applied.source.moved]_vars

-------------------------------------------------------------------------------
(* The inductive invariant the proofs use. *)

Early == {"parse_resume", "parse_job", "gap_fill", "coverage", "plan", "apply"}

\* Where the run is determines how many supersteps it took to get there.
StepsCounted ==
  /\ node = "parse_resume" => supersteps = 0
  /\ node = "parse_job" => supersteps = 1
  /\ node \in {"gap_fill", "coverage"} => supersteps = 2 + gapRounds
  /\ node = "plan" => supersteps = 3 + gapRounds
  /\ node = "apply" => supersteps = 4 + gapRounds
  /\ node \in {"compile", "end"} => supersteps = 5 + gapRounds + 2 * attempts
  /\ node \in {"compile_fix", "trim", "deliver"} =>
       supersteps = 4 + gapRounds + 2 * attempts

\* A node of a cycle is only entered with a round or an attempt left.
RoundsLeft ==
  /\ node \in Early => trims = 0 /\ attempts = 0
  /\ node = "gap_fill" => gapRounds < MaxGapFillRounds
  /\ node = "trim" => trims < MaxTrimRounds
  /\ node = "compile" => attempts < MaxCompileAttempts + trims
  /\ node = "compile_fix" => attempts < MaxCompileAttempts

\* What deliver will store, by the time the router sends the run there.
Delivering ==
  node = "deliver" =>
    /\ IF compiled.ok THEN compiled.of = applied.source
       ELSE exhausted /\ attempts >= MaxCompileAttempts
    /\ compiled.ok /\ TooLong(compiled) => trims = MaxTrimRounds

\* A posting is settled once the gap-fill cycle is left.
Settled ==
  node \notin {"parse_resume", "parse_job", "gap_fill", "raised"} /\ underspecified =>
    gapRounds = MaxGapFillRounds

IInv ==
  /\ StepsCounted /\ RoundsLeft /\ AttemptsBounded /\ Delivering /\ Settled
  /\ PdfIsOfDelivered /\ RoundsAreSpent

===============================================================================
