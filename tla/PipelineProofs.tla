---------------------------- MODULE PipelineProofs ----------------------------
(***************************************************************************)
(* Proofs about the module Pipeline, for every set of bullets and texts and *)
(* every setting of the ceilings.                                           *)
(***************************************************************************)
EXTENDS Pipeline, TLAPS

\* A plan that edits nothing is a result apply_plan can return.
LEMMA NoEditsType == Untouched \in Sources /\ NoEdits \in ApplyResults
<1>1. Untouched \in Sources
  BY DEF Untouched, Sources
<1>2. NoEdits \in ApplyResults
  BY <1>1, TextAssumption DEF NoEdits, ApplyResults, Untouched
<1>3. QED
  BY <1>1, <1>2

\* The routers of the gap-fill cycle only know two ways on, and take the cycle
\* only with a round left.
LEMMA AfterJobSpecType ==
  ASSUME NEW vague \in BOOLEAN, NEW rounds \in Nat
  PROVE  /\ AfterJobSpec(vague, rounds) \in {"gap_fill", "coverage"}
         /\ AfterJobSpec(vague, rounds) = "gap_fill" => rounds < MaxGapFillRounds
         /\ AfterJobSpec(vague, rounds) = "coverage" /\ vague =>
              ~(rounds < MaxGapFillRounds)
  BY DEF AfterJobSpec

\* The counters at their nodes: what TypeOK needs of the rest of the invariant.
TypeInv ==
  /\ TypeOK
  /\ node = "gap_fill" => gapRounds < MaxGapFillRounds
  /\ node = "trim" => trims < MaxTrimRounds

LEMMA TypeInvInit == Init => TypeInv
<1>1. SUFFICES ASSUME Init PROVE TypeInv
  OBVIOUS
<1>2. compiled \in CompileResults
  BY <1>1, NoEditsType, LimitAssumption DEF Init, CompileResults
<1>3. applied \in ApplyResults /\ final \in Sources
  BY <1>1, NoEditsType DEF Init
<1>4. gapRounds \in 0 .. MaxGapFillRounds /\ trims \in 0 .. MaxTrimRounds
  BY <1>1, RoundsAssumption DEF Init
<1>5. /\ node = "parse_resume" /\ supersteps \in Nat /\ underspecified \in BOOLEAN
      /\ attempts \in Nat /\ originalPages \in 0 .. MaxPages /\ exhausted \in BOOLEAN
  BY <1>1 DEF Init
<1>6. QED
  BY <1>2, <1>3, <1>4, <1>5 DEF TypeInv, TypeOK, Nodes, Ended

LEMMA TypeInvStep == TypeInv /\ [Next]_vars => TypeInv'
<1>1. SUFFICES ASSUME TypeInv, [Next]_vars PROVE TypeInv'
  OBVIOUS
<1>2. /\ supersteps \in Nat /\ supersteps + 1 \in Nat
      /\ attempts \in Nat /\ attempts + 1 \in Nat
      /\ MaxGapFillRounds \in Nat /\ MaxTrimRounds \in Nat
  BY <1>1, RoundsAssumption DEF TypeInv, TypeOK
<1>3. CASE ParseResume
  BY <1>1, <1>2, <1>3 DEF TypeInv, TypeOK, ParseResume, Superstep, Nodes, Ended,
    JobVars, EditVars, CompileVars, Fixed
<1>4. CASE ParseJob
  <2>1. /\ node' = AfterJobSpec(underspecified', 0) /\ underspecified' \in BOOLEAN
        /\ gapRounds' = 0
    BY <1>4 DEF ParseJob, Superstep
  <2>2. QED
    BY <1>1, <1>2, <1>4, <2>1, AfterJobSpecType DEF TypeInv, TypeOK, ParseJob, Superstep,
      Nodes, Ended, EditVars, CompileVars, Fixed
<1>5. CASE GapFill
  <2>1. /\ node = "gap_fill" /\ node' = AfterJobSpec(underspecified', gapRounds + 1)
        /\ underspecified' \in BOOLEAN /\ gapRounds' = gapRounds + 1
    BY <1>5 DEF GapFill, Superstep
  <2>2. gapRounds' \in 0 .. MaxGapFillRounds /\ gapRounds + 1 \in Nat
    BY <1>1, <1>2, <2>1 DEF TypeInv, TypeOK
  <2>3. QED
    BY <1>1, <1>2, <1>5, <2>1, <2>2, AfterJobSpecType DEF TypeInv, TypeOK, GapFill,
      Superstep, Nodes, Ended, EditVars, CompileVars, Fixed
<1>6. CASE Coverage
  BY <1>1, <1>2, <1>6 DEF TypeInv, TypeOK, Coverage, Superstep, Nodes, Ended,
    JobVars, EditVars, CompileVars, Fixed
<1>7. CASE Plan
  BY <1>1, <1>2, <1>7 DEF TypeInv, TypeOK, Plan, Superstep, Nodes, Ended,
    JobVars, EditVars, CompileVars, Fixed
<1>8. ASSUME NEW results \in SUBSET ApplyResults, ApplyPlan(results)
      PROVE  applied' \in ApplyResults
  BY <1>1, <1>8 DEF TypeInv, TypeOK, ApplyPlan, ApplyResults
<1>9. CASE Apply
  <2>1. applied' \in ApplyResults
    BY <1>8, <1>9 DEF Apply
  <2>2. QED
    BY <1>1, <1>2, <1>9, <2>1 DEF TypeInv, TypeOK, Apply, Superstep, Nodes, Ended,
      JobVars, Fixed
<1>10. CASE CompileFailed
  BY <1>1, <1>2, <1>10 DEF TypeInv, TypeOK, CompileFailed, CompileTo, Superstep, Nodes,
    Ended, JobVars, EditVars, Fixed
<1>11. CASE CompileExhausted
  BY <1>1, <1>2, <1>11, NoEditsType DEF TypeInv, TypeOK, CompileExhausted, CompileTo,
    Superstep, Nodes, Ended, JobVars, Fixed
<1>12. CASE CompileTooLong
  BY <1>1, <1>2, <1>12 DEF TypeInv, TypeOK, CompileTooLong, CompileTo, Superstep, Nodes,
    Ended, JobVars, EditVars, Fixed
<1>13. CASE CompileAccepted
  BY <1>1, <1>2, <1>13 DEF TypeInv, TypeOK, CompileAccepted, CompileTo, Superstep, Nodes,
    Ended, JobVars, EditVars, Fixed
<1>14. CASE CompileFix
  <2>1. applied' \in ApplyResults
    BY <1>8, <1>14 DEF CompileFix
  <2>2. QED
    BY <1>1, <1>2, <1>14, <2>1 DEF TypeInv, TypeOK, CompileFix, Superstep, Nodes, Ended,
      JobVars, CompileVars, Fixed
<1>15. CASE CompileFixSkipped
  BY <1>1, <1>2, <1>15 DEF TypeInv, TypeOK, CompileFixSkipped, Superstep, Nodes, Ended,
    JobVars, EditVars, CompileVars, Fixed
<1>16. CASE Trim
  <2>1. applied' \in ApplyResults
    BY <1>8, <1>16 DEF Trim, DropResults
  <2>2. trims' \in 0 .. MaxTrimRounds
    BY <1>1, <1>2, <1>16 DEF Trim, Superstep, TypeInv, TypeOK
  <2>3. QED
    BY <1>1, <1>2, <1>16, <2>1, <2>2 DEF TypeInv, TypeOK, Trim, Superstep, Nodes, Ended,
      JobVars, CompileVars, Fixed
<1>17. CASE Deliver
  <2>1. applied.source \in Sources
    BY <1>1 DEF TypeInv, TypeOK, ApplyResults
  <2>2. QED
    BY <1>1, <1>2, <1>17, <2>1 DEF TypeInv, TypeOK, Deliver, Superstep, Nodes, Ended,
      JobVars, EditVars, CompileVars, Fixed
<1>18. CASE Raise
  BY <1>1, <1>2, <1>18 DEF TypeInv, TypeOK, Raise, Nodes, Ended, JobVars, EditVars,
    CompileVars, Fixed
<1>19. CASE UNCHANGED vars
  BY <1>1, <1>19 DEF TypeInv, TypeOK, vars
<1>20. QED
  BY <1>1, <1>3, <1>4, <1>5, <1>6, <1>7, <1>9, <1>10, <1>11, <1>12, <1>13, <1>14, <1>15,
    <1>16, <1>17, <1>18, <1>19 DEF Next, GraphStep

\* Type correctness: the rounds never pass their ceilings, and every source the
\* pipeline holds is one apply_plan can render.
THEOREM TypeCorrect == Spec => []TypeOK
<1>1. TypeInv => TypeOK
  BY DEF TypeInv
<1>2. QED
  BY <1>1, TypeInvInit, TypeInvStep, PTL DEF Spec

-------------------------------------------------------------------------------

LEMMA IInvInit == Init => IInv
<1>1. SUFFICES ASSUME Init PROVE IInv
  OBVIOUS
<1>2. StepsCounted /\ RoundsLeft /\ AttemptsBounded
  BY <1>1, RoundsAssumption DEF Init, StepsCounted, RoundsLeft, AttemptsBounded
<1>3. Delivering /\ Settled /\ PdfIsOfDelivered /\ RoundsAreSpent
  BY <1>1 DEF Init, Delivering, Settled, PdfIsOfDelivered, RoundsAreSpent
<1>4. QED
  BY <1>2, <1>3 DEF IInv

\* The counters: every node leaves as many supersteps behind as its place in the
\* graph and the rounds taken say.
LEMMA CountersStep ==
  ASSUME TypeInv, StepsCounted, RoundsLeft, AttemptsBounded, [Next]_vars
  PROVE  StepsCounted' /\ RoundsLeft' /\ AttemptsBounded'
<1>1. /\ supersteps \in Nat /\ attempts \in Nat /\ gapRounds \in Nat /\ trims \in Nat
      /\ MaxGapFillRounds \in Nat /\ MaxTrimRounds \in Nat
      /\ MaxCompileAttempts \in Nat /\ MaxCompileAttempts > 0
  BY RoundsAssumption DEF TypeInv, TypeOK
<1>2. CASE ParseResume
  BY <1>1, <1>2 DEF ParseResume, Superstep, StepsCounted, RoundsLeft, AttemptsBounded,
    Early, JobVars, CompileVars
<1>3. CASE ParseJob
  <2>1. node' = AfterJobSpec(underspecified', 0) /\ underspecified' \in BOOLEAN
    BY <1>3 DEF ParseJob, Superstep
  <2>2. QED
    BY <1>1, <1>3, <2>1, AfterJobSpecType DEF ParseJob, Superstep, StepsCounted,
      RoundsLeft, AttemptsBounded, Early, CompileVars
<1>4. CASE GapFill
  <2>1. /\ node' = AfterJobSpec(underspecified', gapRounds + 1)
        /\ underspecified' \in BOOLEAN /\ gapRounds + 1 \in Nat
    BY <1>1, <1>4 DEF GapFill, Superstep
  <2>2. QED
    BY <1>1, <1>4, <2>1, AfterJobSpecType DEF GapFill, Superstep, StepsCounted,
      RoundsLeft, AttemptsBounded, Early, CompileVars
<1>5. CASE Coverage
  BY <1>1, <1>5 DEF Coverage, Superstep, StepsCounted, RoundsLeft, AttemptsBounded,
    Early, JobVars, CompileVars
<1>6. CASE Plan
  BY <1>1, <1>6 DEF Plan, Superstep, StepsCounted, RoundsLeft, AttemptsBounded,
    Early, JobVars, CompileVars
<1>7. CASE Apply
  BY <1>1, <1>7 DEF Apply, Superstep, StepsCounted, RoundsLeft, AttemptsBounded,
    Early, JobVars
<1>8. CASE CompileFailed
  BY <1>1, <1>8 DEF CompileFailed, CompileTo, Superstep, StepsCounted, RoundsLeft,
    AttemptsBounded, Early, JobVars
<1>9. CASE CompileExhausted
  BY <1>1, <1>9 DEF CompileExhausted, CompileTo, Superstep, StepsCounted, RoundsLeft,
    AttemptsBounded, Early, JobVars
<1>10. CASE CompileTooLong
  BY <1>1, <1>10 DEF CompileTooLong, CompileTo, Superstep, StepsCounted, RoundsLeft,
    AttemptsBounded, Early, JobVars
<1>11. CASE CompileAccepted
  BY <1>1, <1>11 DEF CompileAccepted, CompileTo, Superstep, StepsCounted, RoundsLeft,
    AttemptsBounded, Early, JobVars
<1>12. CASE CompileFix
  BY <1>1, <1>12 DEF CompileFix, Superstep, StepsCounted, RoundsLeft, AttemptsBounded,
    Early, JobVars, CompileVars
<1>13. CASE CompileFixSkipped
  BY <1>1, <1>13 DEF CompileFixSkipped, Superstep, StepsCounted, RoundsLeft,
    AttemptsBounded, Early, JobVars, CompileVars
<1>14. CASE Trim
  BY <1>1, <1>14 DEF Trim, Superstep, StepsCounted, RoundsLeft, AttemptsBounded,
    Early, JobVars, CompileVars
<1>15. CASE Deliver
  BY <1>1, <1>15 DEF Deliver, Superstep, StepsCounted, RoundsLeft, AttemptsBounded,
    Early, JobVars, CompileVars
<1>16. CASE Raise
  BY <1>1, <1>16 DEF Raise, StepsCounted, RoundsLeft, AttemptsBounded, Early, JobVars,
    CompileVars
<1>17. CASE UNCHANGED vars
  BY <1>17 DEF vars, StepsCounted, RoundsLeft, AttemptsBounded
<1>18. QED
  BY <1>2, <1>3, <1>4, <1>5, <1>6, <1>7, <1>8, <1>9, <1>10, <1>11, <1>12, <1>13, <1>14,
    <1>15, <1>16, <1>17 DEF Next, GraphStep

\* The posting is settled: only the gap-fill cycle asks again.
LEMMA SettledStep ==
  ASSUME TypeInv, Settled, [Next]_vars
  PROVE  Settled'
<1>1. gapRounds \in 0 .. MaxGapFillRounds /\ MaxGapFillRounds \in Nat
  BY RoundsAssumption DEF TypeInv, TypeOK
<1>2. CASE ParseJob
  <2>1. node' = AfterJobSpec(underspecified', 0) /\ underspecified' \in BOOLEAN
    BY <1>2 DEF ParseJob, Superstep
  <2>2. /\ node' = "coverage" /\ underspecified' => ~(0 < MaxGapFillRounds)
        /\ node' \in {"gap_fill", "coverage"} /\ gapRounds' = 0
    BY <1>2, <2>1, AfterJobSpecType DEF ParseJob
  <2>3. 0 < MaxGapFillRounds \/ 0 = MaxGapFillRounds
    BY <1>1
  <2>4. QED
    BY <2>2, <2>3, Zenon DEF Settled
<1>3. CASE GapFill
  <2>1. /\ node' = AfterJobSpec(underspecified', gapRounds + 1)
        /\ underspecified' \in BOOLEAN /\ gapRounds + 1 \in Nat
        /\ gapRounds < MaxGapFillRounds /\ gapRounds' = gapRounds + 1
    BY <1>1, <1>3 DEF GapFill, Superstep, TypeInv
  <2>2. /\ node' = "coverage" /\ underspecified' => ~(gapRounds + 1 < MaxGapFillRounds)
        /\ node' \in {"gap_fill", "coverage"}
    BY <2>1, AfterJobSpecType
  <2>3. gapRounds + 1 < MaxGapFillRounds \/ gapRounds' = MaxGapFillRounds
    BY <1>1, <2>1
  <2>4. QED
    BY <2>2, <2>3, Zenon DEF Settled
<1>4. ASSUME UNCHANGED JobVars, \/ node' = "parse_job" \/ node' = "raised"
                                \/ node \notin {"parse_resume", "parse_job", "gap_fill", "raised"}
                                \/ node' = node
      PROVE  Settled'
  BY <1>4 DEF Settled, JobVars
<1>5. CASE ParseResume \/ Coverage \/ Plan \/ Apply \/ Raise
  BY <1>4, <1>5 DEF ParseResume, Coverage, Plan, Apply, Raise, Superstep
<1>6. CASE CompileFailed \/ CompileExhausted \/ CompileTooLong \/ CompileAccepted
  BY <1>4, <1>6 DEF CompileFailed, CompileExhausted, CompileTooLong, CompileAccepted,
    CompileTo, Superstep
<1>7. CASE CompileFix \/ CompileFixSkipped \/ Trim \/ Deliver
  BY <1>4, <1>7 DEF CompileFix, CompileFixSkipped, Trim, Deliver, Superstep
<1>8. CASE UNCHANGED vars
  BY <1>4, <1>8 DEF vars, JobVars
<1>9. QED
  BY <1>2, <1>3, <1>5, <1>6, <1>7, <1>8 DEF Next, GraphStep

\* Delivery: the router sends a run to deliver only with a compiled document of
\* the current edits, or with nothing left to try; deliver stores what is there.
LEMMA DeliveryStep ==
  ASSUME TypeInv, Delivering, Settled, PdfIsOfDelivered, RoundsAreSpent, [Next]_vars
  PROVE  Delivering' /\ PdfIsOfDelivered' /\ RoundsAreSpent'
<1>1. /\ attempts \in Nat /\ trims \in 0 .. MaxTrimRounds /\ MaxTrimRounds \in Nat
      /\ MaxCompileAttempts \in Nat
  BY RoundsAssumption DEF TypeInv, TypeOK
<1>2. ASSUME node' \notin {"deliver", "end"}
      PROVE  Delivering' /\ PdfIsOfDelivered' /\ RoundsAreSpent'
  BY <1>2 DEF Delivering, PdfIsOfDelivered, RoundsAreSpent
<1>3. CASE ParseResume \/ ParseJob \/ GapFill \/ Coverage \/ Plan
  <2>1. node' \notin {"deliver", "end"}
    BY <1>3 DEF ParseResume, ParseJob, GapFill, Coverage, Plan, Superstep, AfterJobSpec
  <2>2. QED
    BY <1>2, <2>1
<1>4. CASE Apply \/ CompileFix \/ CompileFixSkipped \/ Trim \/ Raise
  <2>1. node' \notin {"deliver", "end"}
    BY <1>4 DEF Apply, CompileFix, CompileFixSkipped, Trim, Raise, Superstep
  <2>2. QED
    BY <1>2, <2>1
<1>5. CASE CompileFailed \/ CompileTooLong
  <2>1. node' \notin {"deliver", "end"}
    BY <1>5 DEF CompileFailed, CompileTooLong, CompileTo, Superstep
  <2>2. QED
    BY <1>2, <2>1
<1>6. CASE CompileExhausted
  <2>1. /\ node' = "deliver" /\ ~compiled'.ok /\ exhausted'
        /\ attempts' >= MaxCompileAttempts
    BY <1>1, <1>6 DEF CompileExhausted, CompileTo, Superstep
  <2>2. QED
    BY <2>1 DEF Delivering, PdfIsOfDelivered, RoundsAreSpent
<1>7. CASE CompileAccepted
  <2>1. /\ node' = "deliver" /\ compiled'.ok /\ compiled'.of = applied'.source
        /\ UNCHANGED <<trims, originalPages>>
        /\ TooLong(compiled') => trims >= MaxTrimRounds
    BY <1>7 DEF CompileAccepted, CompileTo, Superstep, EditVars, Fixed
  <2>2. TooLong(compiled)' => trims' = MaxTrimRounds
    BY <1>1, <2>1 DEF TooLong
  <2>3. QED
    BY <2>1, <2>2 DEF Delivering, PdfIsOfDelivered, RoundsAreSpent
<1>8. CASE Deliver
  <2>1. /\ node = "deliver" /\ node' = "end" /\ final' = applied.source
        /\ UNCHANGED <<underspecified, gapRounds, applied, compiled, attempts, exhausted,
                       trims, originalPages>>
    BY <1>8 DEF Deliver, Superstep, JobVars, EditVars, CompileVars, Fixed
  <2>2. Delivering' /\ PdfIsOfDelivered'
    BY <2>1 DEF Delivering, PdfIsOfDelivered
  <2>3. RoundsAreSpent'
    BY <2>1 DEF RoundsAreSpent, Delivering, Settled, TooLong
  <2>4. QED
    BY <2>2, <2>3
<1>9. CASE UNCHANGED vars
  BY <1>9 DEF vars, Delivering, PdfIsOfDelivered, RoundsAreSpent, TooLong
<1>10. QED
  BY <1>3, <1>4, <1>5, <1>6, <1>7, <1>8, <1>9 DEF Next, GraphStep

LEMMA IInvStep == TypeInv /\ IInv /\ [Next]_vars => IInv'
  BY CountersStep, SettledStep, DeliveryStep DEF IInv

LEMMA Invariants == Spec => [](TypeInv /\ IInv)
  BY TypeInvInit, TypeInvStep, IInvInit, IInvStep, PTL DEF Spec

\* Whatever the model and the compiler answer: repair and trim attempts are
\* bounded, the stored PDF is of the stored source, and a run that stops short has
\* used its rounds.
THEOREM PipelineCorrect ==
  Spec => [](AttemptsBounded /\ PdfIsOfDelivered /\ RoundsAreSpent)
<1>1. IInv => AttemptsBounded /\ PdfIsOfDelivered /\ RoundsAreSpent
  BY DEF IInv
<1>2. QED
  BY <1>1, Invariants, PTL

\* LangGraph's limit never ends a run, for all settings with a limit above what
\* the two cycles can use together.  The defaults need 19 of 60.
THEOREM CyclesFitTheLimit ==
  ASSUME 5 + MaxGapFillRounds + 2 * (MaxCompileAttempts + MaxTrimRounds) <= RecursionLimit
  PROVE  Spec => []NoRecursionError
<1>1. ASSUME TypeInv, IInv
      PROVE  NoRecursionError
  <2>1. /\ supersteps \in Nat /\ attempts \in Nat
        /\ gapRounds \in 0 .. MaxGapFillRounds /\ trims \in 0 .. MaxTrimRounds
        /\ MaxGapFillRounds \in Nat /\ MaxTrimRounds \in Nat
        /\ MaxCompileAttempts \in Nat /\ MaxCompileAttempts > 0 /\ RecursionLimit \in Nat
        /\ node \in Nodes \cup Ended
    BY <1>1, RoundsAssumption, LimitAssumption DEF TypeInv, TypeOK
  <2>2. SUFFICES ASSUME node \in Nodes
                 PROVE  supersteps < RecursionLimit
    BY <2>1 DEF NoRecursionError
  <2>3. CASE node \in Early
    <3>1. supersteps <= 4 + gapRounds
      BY <1>1, <2>1, <2>3 DEF IInv, StepsCounted, Early
    <3>2. QED
      BY <2>1, <3>1
  <2>4. CASE node = "compile"
    <3>1. supersteps = 5 + gapRounds + 2 * attempts /\ attempts < MaxCompileAttempts + trims
      BY <1>1, <2>4 DEF IInv, StepsCounted, RoundsLeft
    <3>2. QED
      BY <2>1, <3>1
  <2>5. CASE node \in {"compile_fix", "trim", "deliver"}
    <3>1. supersteps = 4 + gapRounds + 2 * attempts /\ attempts <= MaxCompileAttempts + trims
      BY <1>1, <2>5 DEF IInv, StepsCounted, AttemptsBounded
    <3>2. QED
      BY <2>1, <3>1
  <2>6. QED
    BY <2>2, <2>3, <2>4, <2>5 DEF Nodes, Early
<1>2. QED
  BY <1>1, Invariants, PTL

\* Compile attempts exceed their ceiling by no more than the trim rounds taken,
\* whatever the compiler answers and however the two cycles alternate.
THEOREM AttemptsAreBounded == Spec => []AttemptsBounded
<1> QED BY PipelineCorrect, PTL

\* A run settles for an uncovered posting or a long document only when the
\* rounds that could have mended it are spent.
THEOREM RoundsAreUsed == Spec => []RoundsAreSpent
<1> QED BY PipelineCorrect, PTL

===============================================================================
