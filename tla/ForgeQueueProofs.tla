--------------------------- MODULE ForgeQueueProofs ---------------------------
(***************************************************************************)
(* Proofs about ForgeQueue: type correctness for every value of the        *)
(* constants; when no run outlives its lock (MaxRun <= StaleAfter), the    *)
(* inductive invariant IInv with the three invariants it yields, that the  *)
(* queue implements Dispatch, and that every claim but the first is        *)
(* accounted for by a crash or a failed transaction; and, for runs of any  *)
(* length, that the commits of create_generation leave no run behind when  *)
(* the request dies between them, and that every claim stores one result   *)
(* at most and announces it once at most.                                  *)
(***************************************************************************)
EXTENDS ForgeQueue, FiniteSetTheorems, WellFoundedInduction, TLAPS

USE NoneAssumption, EventsAssumption, TimeAssumption, BoundAssumption

-------------------------------------------------------------------------------
(* A bounded non-empty set of naturals has a greatest element: what ORDER BY   *)
(* seq DESC LIMIT 1 returns.                                                   *)

\* A non-empty set of naturals has a least element.
LEMMA LeastNatural ==
  ASSUME NEW T \in SUBSET Nat, T # {}
  PROVE  \E x \in T : \A y \in T : x <= y
<1>1. \E x \in T : \A y \in T : ~ (<<y, x>> \in OpToRel(<, Nat))
  BY NatLessThanWellFounded, WFMin
<1>2. \A x, y \in Nat : ~ (<<y, x>> \in OpToRel(<, Nat)) => x <= y
  BY DEF OpToRel
<1>3. \A x \in T : x \in Nat
  OBVIOUS
<1> QED BY <1>1, <1>2, <1>3

\* The greatest element of S is as far below the bound b as the least of b - S.
LEMMA GreatestNatural ==
  ASSUME NEW S \in SUBSET Nat, S # {}, NEW b \in Nat, \A s \in S : s <= b
  PROVE  \E m \in S : \A n \in S : n <= m
<1> DEFINE T == {b - s : s \in S}
<1>1. \A s \in S : s \in Nat /\ b - s \in Nat
  OBVIOUS
<1>2. T \in SUBSET Nat /\ T # {}
  BY <1>1
<1>3. PICK x \in T : \A y \in T : x <= y
  BY <1>2, LeastNatural
<1>4. PICK m \in S : x = b - m
  OBVIOUS
<1>5. \A n \in S : b - m <= b - n
  BY <1>3, <1>4
<1> QED BY <1>1, <1>5

-------------------------------------------------------------------------------
(* Type correctness. *)

\* record_event reads a number between 0 and the number of rows, the last of
\* the log's numbers, as long as no row is numbered beyond its position.
LEMMA LastSeqBounded ==
  ASSUME events \in [Gens -> Seq(EventRow)], SeqWithinLog, NEW g \in Gens
  PROVE  /\ LastSeq(g) \in 0 .. Len(events[g])
         /\ \A n \in DOMAIN events[g] : events[g][n].seq <= LastSeq(g)
<1> DEFINE log == events[g]
<1>1. /\ Len(log) \in Nat /\ DOMAIN log = 1 .. Len(log)
      /\ \A n \in DOMAIN log : log[n].seq \in Nat /\ log[n].seq <= n
  <2>1. log \in Seq(EventRow)
    OBVIOUS
  <2>2. Len(log) \in Nat /\ DOMAIN log = 1 .. Len(log)
    BY <2>1
  <2>3. \A n \in 1 .. Len(log) : log[n] \in EventRow
    BY <2>1
  <2>4. \A n \in 1 .. Len(log) : log[n].seq \in Nat
    BY <2>3 DEF EventRow
  <2>5. \A n \in DOMAIN log : log[n].seq <= n
    BY DEF SeqWithinLog
  <2> QED BY <2>2, <2>4, <2>5
<1>2. CASE log = <<>>
  BY <1>1, <1>2 DEF LastSeq
<1>3. CASE log # <<>>
  <2>1. /\ Seqs(g) \in SUBSET Nat /\ Seqs(g) # {}
        /\ \A s \in Seqs(g) : s <= Len(log)
    BY <1>1, <1>3 DEF Seqs
  <2>2. \E m \in Seqs(g) : \A n \in Seqs(g) : n <= m
    BY <1>1, <2>1, GreatestNatural
  <2>3. LastSeq(g) \in Seqs(g) /\ \A n \in Seqs(g) : n <= LastSeq(g)
    BY <1>3, <2>2 DEF LastSeq
  <2> QED BY <1>1, <2>1, <2>3 DEF Seqs
<1> QED BY <1>2, <1>3

\* With the log numbered 1, 2, 3, ... that number is the number of rows.
LEMMA LastSeqIsLength ==
  ASSUME events \in [Gens -> Seq(EventRow)], LogIsNumbered, NEW g \in Gens
  PROVE  LastSeq(g) = Len(events[g])
<1> DEFINE log == events[g]
<1>1. SeqWithinLog
  BY DEF LogIsNumbered, SeqWithinLog
<1>2. /\ LastSeq(g) \in 0 .. Len(log) /\ Len(log) \in Nat
      /\ DOMAIN log = 1 .. Len(log)
      /\ \A n \in DOMAIN log : log[n].seq <= LastSeq(g)
  BY <1>1, LastSeqBounded
<1>3. Len(log) = 0 \/ log[Len(log)].seq = Len(log)
  BY <1>2 DEF LogIsNumbered
<1> QED BY <1>2, <1>3

\* Type correctness is inductive together with the bound on the log's numbers:
\* without it ORDER BY ... LIMIT 1 need not have a value.
TypeInv == TypeOK /\ SeqWithinLog /\ ReadWithinLog

\* A loop that comes to rest, or goes on with a well-formed record, leaves every
\* loop well formed.
LEMMA GoesType ==
  ASSUME worker \in [Instances -> WorkerState],
         \A j \in Instances : WellFormed(worker[j]),
         NEW i \in Instances, NEW w, w \in WorkerState, WellFormed(w), Goes(i, w)
  PROVE  /\ worker' \in [Instances -> WorkerState]
         /\ \A j \in Instances : WellFormed(worker'[j])
         /\ worker'[i] = w
         /\ \A j \in Instances : j # i => worker'[j] = worker[j]
<1>1. worker'[i] = w /\ \A j \in Instances : j # i => worker'[j] = worker[j]
  BY DEF Goes
<1>2. worker' \in [Instances -> WorkerState]
  BY DEF Goes
<1> QED BY <1>1, <1>2

LEMMA RestingType ==
  ASSUME NEW pc \in {"down", "idle"}
  PROVE  Resting(pc) \in WorkerState /\ WellFormed(Resting(pc)) /\ Resting(pc).pc = pc
BY DEF Resting, WorkerState, WellFormed

LEMMA TypeInvInit == Init => TypeInv
<1> SUFFICES ASSUME Init PROVE TypeInv
  OBVIOUS
<1>1. generation \in [Gens -> GenerationRow] /\ job \in [Gens -> JobRow]
  BY DEF Init, GenerationRow, JobRow, Statuses, JobStates
<1>2. events \in [Gens -> Seq(EventRow)] /\ created \in Seq(Gens)
  BY DEF Init
<1>3. request \in [Gens -> RequestState]
  BY DEF Init, RequestState
<1>4. worker \in [Instances -> WorkerState]
  BY DEF Init, Resting, WorkerState
<1>5. \A i \in Instances : worker[i].pc = "down"
  BY DEF Init, Resting
<1>6. \A g \in Gens : DOMAIN events[g] = {}
  BY DEF Init
<1>7. SeqWithinLog /\ ReadWithinLog
  BY <1>5, <1>6 DEF SeqWithinLog, ReadWithinLog
<1>8. crashes \in Nat /\ errors \in Nat
  BY DEF Init
<1> QED BY <1>1, <1>2, <1>3, <1>4, <1>5, <1>7, <1>8 DEF TypeInv, TypeOK, WellFormed

\* A step that leaves the log alone keeps its bound, as long as the workers that
\* record are the ones that recorded before.
LEMMA LogUntouched ==
  ASSUME SeqWithinLog, ReadWithinLog, UNCHANGED events,
         \A i \in Instances : worker'[i].pc = "write" =>
           worker[i].pc = "write" /\ worker'[i].last = worker[i].last
                                  /\ worker'[i].gen = worker[i].gen
  PROVE  SeqWithinLog' /\ ReadWithinLog'
BY DEF SeqWithinLog, ReadWithinLog

\* A row appended with a number of at most the log's length, plus one, keeps it.
LEMMA LogAppended ==
  ASSUME events \in [Gens -> Seq(EventRow)], SeqWithinLog, ReadWithinLog,
         NEW g \in Gens, NEW n \in Nat, n <= Len(events[g]), NEW s \in Stages,
         events' = [events EXCEPT ![g] = Append(@, [seq |-> n + 1, stage |-> s])],
         \A i \in Instances : worker[i].pc = "write" =>
           worker[i].gen \in Gens /\ worker[i].last \in Nat,
         \A i \in Instances : worker'[i].pc = "write" =>
           worker[i].pc = "write" /\ worker'[i].last = worker[i].last
                                  /\ worker'[i].gen = worker[i].gen
  PROVE  /\ events' \in [Gens -> Seq(EventRow)]
         /\ SeqWithinLog' /\ ReadWithinLog'
<1> DEFINE row == [seq |-> n + 1, stage |-> s]
<1>1. row \in EventRow
  BY DEF EventRow
<1>2. events' \in [Gens -> Seq(EventRow)]
  BY <1>1
<1>3. \A h \in Gens : h # g => events'[h] = events[h]
  OBVIOUS
<1>4. /\ Len(events'[g]) = Len(events[g]) + 1
      /\ DOMAIN events'[g] = 1 .. Len(events[g]) + 1
      /\ DOMAIN events[g] = 1 .. Len(events[g])
      /\ Len(events[g]) \in Nat
      /\ \A k \in 1 .. Len(events[g]) : events'[g][k] = events[g][k]
      /\ events'[g][Len(events[g]) + 1] = row
  BY <1>1
<1>5. \A k \in DOMAIN events'[g] : events'[g][k].seq <= k
  BY <1>4 DEF SeqWithinLog
<1>6. SeqWithinLog'
  BY <1>3, <1>5 DEF SeqWithinLog
<1>7. \A h \in Gens : Len(events[h]) \in Nat /\ Len(events[h]) <= Len(events'[h])
  BY <1>3, <1>4
<1>8. ReadWithinLog'
  BY <1>7 DEF ReadWithinLog
<1> QED BY <1>2, <1>6, <1>8

\* Every step keeps every type and the bound on the log's numbers.
LEMMA TypeInvStep == TypeInv /\ [Next]_vars => TypeInv'
<1> SUFFICES ASSUME TypeInv, [Next]_vars PROVE TypeInv'
  OBVIOUS
<1>a. /\ generation \in [Gens -> GenerationRow] /\ job \in [Gens -> JobRow]
      /\ created \in Seq(Gens) /\ events \in [Gens -> Seq(EventRow)]
      /\ request \in [Gens -> RequestState]
      /\ worker \in [Instances -> WorkerState]
      /\ \A i \in Instances : WellFormed(worker[i])
      /\ crashes \in Nat /\ errors \in Nat
      /\ SeqWithinLog /\ ReadWithinLog
  BY DEF TypeInv, TypeOK
<1>b. \A i \in Instances : worker[i].last \in Nat
  BY <1>a DEF WorkerState
<1>c. \A i \in Instances : Working(i) => worker[i].gen \in Gens
  BY <1>a DEF WellFormed, Working
<1> USE DEF TypeInv, TypeOK
<1>1. ASSUME NEW i \in Instances, NEW g \in Gens, CreateGeneration(i, g)
      PROVE  TypeInv'
  <2>1. generation' \in [Gens -> GenerationRow]
    BY <1>1, <1>a DEF CreateGeneration, GenerationRow, Statuses
  <2>2. request' \in [Gens -> RequestState]
    BY <1>1, <1>a DEF CreateGeneration, RequestState
  <2> QED BY <1>1, <1>a, <2>1, <2>2, LogUntouched DEF CreateGeneration
<1>2. ASSUME NEW g \in Gens, RecordQueued(g)
      PROVE  TypeInv'
  <2>1. LastSeq(g) \in Nat /\ LastSeq(g) <= Len(events[g])
    BY <1>a, LastSeqBounded
  <2>2. "queued" \in Stages
    BY DEF Stages
  <2>3. events' \in [Gens -> Seq(EventRow)] /\ SeqWithinLog' /\ ReadWithinLog'
    BY <1>2, <1>a, <1>b, <1>c, <2>1, <2>2, LogAppended DEF RecordQueued, Working
  <2>4. request' \in [Gens -> RequestState]
    BY <1>2, <1>a DEF RecordQueued, RequestState
  <2> QED BY <1>2, <1>a, <2>3, <2>4 DEF RecordQueued
<1>3. ASSUME NEW g \in Gens, Enqueue(g)
      PROVE  TypeInv'
  <2>1. job' \in [Gens -> JobRow]
    BY <1>3, <1>a DEF Enqueue, JobRow, JobStates
  <2>2. request' \in [Gens -> RequestState]
    BY <1>3, <1>a DEF Enqueue, RequestState
  <2> QED BY <1>3, <1>a, <2>1, <2>2, LogUntouched DEF Enqueue
<1>4. ASSUME NEW g \in Gens, DeleteGeneration(g)
      PROVE  TypeInv'
  <2>1. generation' \in [Gens -> GenerationRow]
    BY <1>4, <1>a DEF DeleteGeneration, GenerationRow
  <2> QED BY <1>4, <1>a, <2>1, LogUntouched DEF DeleteGeneration
<1>5. ASSUME NEW i \in Instances, NEW g \in Gens, Claim(i, g)
      PROVE  TypeInv'
  <2> DEFINE w == [Resting("load") EXCEPT !.gen = g]
  <2>1. job' \in [Gens -> JobRow]
    BY <1>5, <1>a DEF Claim, JobRow, JobStates
  <2>2. w \in WorkerState /\ WellFormed(w) /\ w.pc = "load"
    BY DEF Resting, WorkerState, WellFormed
  <2>3. Goes(i, w) /\ UNCHANGED <<generation, created, events, request, crashes, errors>>
    BY <1>5 DEF Claim
  <2> HIDE DEF w
  <2> QED BY <1>a, <2>1, <2>2, <2>3, GoesType, LogUntouched
<1>6. ASSUME NEW i \in Instances, LoadDeleted(i)
      PROVE  TypeInv'
  <2> DEFINE w == [worker[i] EXCEPT !.pc = "finish"]
  <2>1. /\ w \in WorkerState /\ w.pc = "finish"
        /\ w.gen = worker[i].gen /\ w.stage = worker[i].stage
    BY <1>a DEF WorkerState
  <2>2. WellFormed(w)
    BY <1>6, <1>a, <2>1 DEF LoadDeleted, WellFormed
  <2>3. Goes(i, w) /\ UNCHANGED <<generation, job, created, events, request, crashes, errors>>
    BY <1>6 DEF LoadDeleted
  <2> HIDE DEF w
  <2> QED BY <1>a, <2>1, <2>2, <2>3, GoesType, LogUntouched
<1>7. ASSUME NEW i \in Instances, LoadGeneration(i)
      PROVE  TypeInv'
  <2> DEFINE g == worker[i].gen
             w == [worker[i] EXCEPT !.pc = "read", !.stage = "parse_resume",
                                    !.base = generation[g].tailored]
  <2>1. g \in Gens
    BY <1>7, <1>c DEF LoadGeneration, Working
  <2>2. generation' \in [Gens -> GenerationRow]
    BY <1>7, <1>a, <2>1 DEF LoadGeneration, GenerationRow, Statuses
  <2>3. generation[g].tailored \in Nat
    BY <1>a, <2>1 DEF GenerationRow
  <2>4. w \in WorkerState /\ w.pc = "read" /\ w.gen = g /\ w.stage = "parse_resume"
    BY <1>a, <2>3 DEF WorkerState, Stages
  <2>5. WellFormed(w)
    BY <2>1, <2>4 DEF WellFormed, Stages
  <2>6. Goes(i, w) /\ UNCHANGED <<job, created, events, request, crashes, errors>>
    BY <1>7 DEF LoadGeneration
  <2> HIDE DEF w
  <2> QED BY <1>a, <2>2, <2>4, <2>5, <2>6, GoesType, LogUntouched
<1>8. ASSUME NEW i \in Instances, ReadLastSeq(i)
      PROVE  TypeInv'
  <2> DEFINE g == worker[i].gen
             w == [worker[i] EXCEPT !.pc = "write", !.last = LastSeq(g)]
  <2>1. g \in Gens
    BY <1>8, <1>c DEF ReadLastSeq, Working
  <2>2. LastSeq(g) \in Nat /\ LastSeq(g) <= Len(events[g])
    BY <1>a, <2>1, LastSeqBounded
  <2> HIDE DEF g
  <2>3. /\ w \in WorkerState /\ w.pc = "write" /\ w.gen = worker[i].gen
        /\ w.last = LastSeq(g) /\ w.stage = worker[i].stage
    BY <1>a, <2>2 DEF WorkerState
  <2>4. WellFormed(w)
    BY <1>8, <1>a, <2>1, <2>3 DEF WellFormed, g, ReadLastSeq
  <2>5. Goes(i, w) /\ UNCHANGED <<generation, job, created, events, request, crashes, errors>>
    BY <1>8 DEF ReadLastSeq, g
  <2> HIDE DEF w
  <2>6. /\ worker' \in [Instances -> WorkerState] /\ worker'[i] = w
        /\ \A j \in Instances : WellFormed(worker'[j])
        /\ \A j \in Instances : j # i => worker'[j] = worker[j]
    BY <1>a, <2>3, <2>4, <2>5, GoesType
  <2>7. SeqWithinLog' /\ ReadWithinLog'
    BY <1>a, <2>2, <2>3, <2>5, <2>6 DEF SeqWithinLog, ReadWithinLog, g
  <2> QED BY <1>a, <2>5, <2>6, <2>7
<1>9. ASSUME NEW i \in Instances, WriteEvent(i)
      PROVE  TypeInv'
  <2> DEFINE v == worker[i]
             w == [v EXCEPT !.pc = PcAfter(v), !.recorded = @ + 1]
  <2>1. /\ v.pc = "write" /\ v.gen \in Gens /\ v \in WorkerState
        /\ v.stage \in Stages \ {"queued"}
    BY <1>9, <1>a DEF WriteEvent, WellFormed
  <2>2. v.last \in Nat /\ v.last <= Len(events[v.gen])
    BY <1>a, <1>b, <2>1 DEF ReadWithinLog
  <2>3. /\ PcAfter(v) \in {"pipeline", "read", "commit", "finish"}
        /\ PcAfter(v) = "finish" => v.stage \in {"failed", "completed"}
    BY <2>1 DEF PcAfter, Stages
  <2>4. /\ w \in WorkerState /\ w.pc = PcAfter(v) /\ w.gen = v.gen
        /\ w.stage = v.stage
    <3>1. v.recorded + 1 \in Nat
      BY <2>1 DEF WorkerState
    <3> QED BY <2>1, <2>3, <3>1 DEF WorkerState
  <2>5. WellFormed(w)
    BY <2>1, <2>3, <2>4 DEF WellFormed
  <2>6. /\ Goes(i, w)
        /\ events' = [events EXCEPT ![v.gen] =
             Append(@, [seq |-> v.last + 1, stage |-> v.stage])]
        /\ UNCHANGED <<generation, job, created, request, crashes, errors>>
    BY <1>9 DEF WriteEvent
  <2> HIDE DEF w
  <2>7. /\ worker' \in [Instances -> WorkerState] /\ worker'[i] = w
        /\ \A j \in Instances : WellFormed(worker'[j])
        /\ \A j \in Instances : j # i => worker'[j] = worker[j]
    BY <1>a, <2>4, <2>5, <2>6, GoesType
  <2>8. events' \in [Gens -> Seq(EventRow)] /\ SeqWithinLog' /\ ReadWithinLog'
    BY <1>a, <1>b, <1>c, <2>1, <2>2, <2>3, <2>4, <2>6, <2>7, LogAppended DEF Working
  <2> QED BY <1>a, <2>6, <2>7, <2>8
<1>10. ASSUME NEW i \in Instances, NEW s \in {"pipeline", "failed", "completed"},
              Working(i), generation' \in [Gens -> GenerationRow],
              Goes(i, [worker[i] EXCEPT !.pc = "read", !.stage = s]),
              UNCHANGED <<job, created, events, request, crashes, errors>>
       PROVE  TypeInv'
  <2> DEFINE w == [worker[i] EXCEPT !.pc = "read", !.stage = s]
  <2>1. w \in WorkerState /\ w.pc = "read" /\ w.gen = worker[i].gen /\ w.stage = s
    BY <1>a DEF WorkerState, Stages
  <2>2. WellFormed(w)
    BY <1>c, <1>10, <2>1 DEF WellFormed, Stages
  <2>3. Goes(i, w)
    BY <1>10
  <2> HIDE DEF w
  <2> QED BY <1>a, <1>10, <2>1, <2>2, <2>3, GoesType, LogUntouched
<1>11. ASSUME NEW i \in Instances, PipelineReturns(i)
       PROVE  TypeInv'
  BY <1>a, <1>10, <1>11 DEF PipelineReturns, Working
<1>12. ASSUME NEW i \in Instances, PipelineRaises(i)
       PROVE  TypeInv'
  <2>1. generation' \in [Gens -> GenerationRow]
    BY <1>12, <1>a DEF PipelineRaises, GenerationRow, Statuses
  <2> QED BY <1>10, <1>12, <2>1 DEF PipelineRaises, Working
<1>13. ASSUME NEW i \in Instances, CommitResult(i)
       PROVE  TypeInv'
  <2> DEFINE g == worker[i].gen
             row == [generation[g] EXCEPT !.status = "completed", !.gaps = @ + 1,
                                          !.tailored = worker[i].base + 1]
  <2>1. g \in Gens
    BY <1>13, <1>c DEF CommitResult, Working
  <2>2. worker[i].base \in Nat /\ generation[g] \in GenerationRow
    BY <1>a, <2>1 DEF WorkerState
  <2>3. row \in GenerationRow
    <3>1. generation[g].gaps + 1 \in Nat /\ worker[i].base + 1 \in Nat
      BY <2>2 DEF GenerationRow
    <3> QED BY <2>2, <3>1 DEF GenerationRow, Statuses
  <2>4. generation' = [generation EXCEPT ![g] = row]
    BY <1>13 DEF CommitResult
  <2>5. generation' \in [Gens -> GenerationRow]
    BY <1>a, <2>3, <2>4
  <2> QED BY <1>10, <1>13, <2>5 DEF CommitResult, Working
<1>14. ASSUME NEW i \in Instances, NEW pc \in {"down", "idle"},
              job' \in [Gens -> JobRow], request' \in [Gens -> RequestState],
              crashes' \in Nat, errors' \in Nat, Goes(i, Resting(pc)),
              UNCHANGED <<generation, created, events>>
       PROVE  TypeInv'
  <2>1. Resting(pc) \in WorkerState /\ WellFormed(Resting(pc)) /\ Resting(pc).pc = pc
    BY RestingType
  <2> QED BY <1>a, <1>14, <2>1, GoesType, LogUntouched
<1>15. ASSUME NEW i \in Instances, Finish(i)
       PROVE  TypeInv'
  <2>1. Verdict(worker[i]) \in JobStates
    BY <1>15, <1>a DEF Finish, WellFormed, Verdict, JobStates, Verdicts
  <2>2. job' \in [Gens -> JobRow]
    BY <1>15, <1>a, <2>1 DEF Finish, JobRow
  <2> QED BY <1>15, <1>14, <1>a, <2>2 DEF Finish
<1>16. ASSUME NEW i \in Instances, LoopError(i)
       PROVE  TypeInv'
  <2>1. errors' \in Nat
    BY <1>16, <1>a DEF LoopError
  <2>2. /\ Goes(i, Resting("idle"))
        /\ UNCHANGED <<generation, job, created, events, request, crashes>>
    BY <1>16 DEF LoopError
  <2> QED BY <1>14, <1>a, <2>1, <2>2
<1>17. ASSUME NEW i \in Instances, Crash(i)
       PROVE  TypeInv'
  <2>1. request' \in [Gens -> RequestState]
    BY <1>17, <1>a DEF Crash, RequestState
  <2> QED BY <1>17, <1>14, <1>a, <2>1 DEF Crash
<1>18. ASSUME NEW i \in Instances, Start(i)
       PROVE  TypeInv'
  <2>1. job' \in [Gens -> JobRow]
    <3>1. \A r \in JobRow :
            [r EXCEPT !.state = "pending", !.age = 0, !.by = None] \in JobRow
      BY DEF JobRow, JobStates
    <3>2. job' = [g \in Gens |->
            IF Stale(g)
            THEN [job[g] EXCEPT !.state = "pending", !.age = 0, !.by = None]
            ELSE job[g]]
      BY <1>18 DEF Start, Reclaimed
    <3> QED BY <1>a, <3>1, <3>2
  <2> QED BY <1>18, <1>14, <1>a, <2>1 DEF Start
<1>19. ASSUME Tick
       PROVE  TypeInv'
  <2>1. \A n, cap \in Nat : OlderBy1(n, cap) \in Nat
    BY DEF OlderBy1
  <2>2. job' \in [Gens -> JobRow]
    <3>1. \A g \in Gens : job[g] \in JobRow /\ job[g].age \in Nat
      BY <1>a DEF JobRow
    <3>2. \A g \in Gens : OlderBy1(job[g].age, StaleAfter + 1) \in Nat
      <4>1. StaleAfter + 1 \in Nat
        OBVIOUS
      <4> QED BY <2>1, <3>1, <4>1
    <3>3. \A g \in Gens : [job[g] EXCEPT !.age = OlderBy1(@, StaleAfter + 1)] \in JobRow
      BY <3>1, <3>2 DEF JobRow
    <3>4. job' = [g \in Gens |->
              IF job[g].state = "running"
              THEN [job[g] EXCEPT !.age = OlderBy1(@, StaleAfter + 1)] ELSE job[g]]
      BY <1>19 DEF Tick
    <3> QED BY <3>1, <3>3, <3>4
  <2>3. \A i \in Instances :
          /\ worker'[i] \in WorkerState /\ WellFormed(worker'[i])
          /\ worker'[i].pc = worker[i].pc /\ worker'[i].gen = worker[i].gen
          /\ worker'[i].last = worker[i].last
    <3> TAKE i \in Instances
    <3> DEFINE Aged(n) == [worker[i] EXCEPT !.age = n]
    <3>1. worker[i] \in WorkerState /\ worker[i].age \in Nat
      BY <1>a DEF WorkerState
    <3>2. \A n \in Nat : /\ Aged(n) \in WorkerState
                         /\ Aged(n).pc = worker[i].pc /\ Aged(n).gen = worker[i].gen
                         /\ Aged(n).last = worker[i].last
                         /\ Aged(n).stage = worker[i].stage
      BY <3>1 DEF WorkerState
    <3>3. \A n \in Nat : WellFormed(Aged(n))
      BY <1>a, <3>2 DEF WellFormed
    <3>4. \/ worker'[i] = worker[i]
          \/ worker'[i] = Aged(OlderBy1(worker[i].age, MaxRun))
          \/ worker'[i] = Aged(OlderBy1(worker[i].age, RestartAfter))
      BY <1>19 DEF Tick
    <3>5. /\ OlderBy1(worker[i].age, MaxRun) \in Nat
          /\ OlderBy1(worker[i].age, RestartAfter) \in Nat
      BY <2>1, <3>1
    <3> HIDE DEF Aged
    <3> QED BY <1>a, <3>1, <3>2, <3>3, <3>4, <3>5
  <2>4. worker' \in [Instances -> WorkerState]
    BY <1>19, <2>3 DEF Tick
  <2>5. UNCHANGED <<generation, created, events, request, crashes, errors>>
    BY <1>19 DEF Tick
  <2>6. SeqWithinLog' /\ ReadWithinLog'
    BY <1>a, <2>3, <2>5, LogUntouched
  <2> QED BY <1>a, <2>2, <2>3, <2>4, <2>5, <2>6
<1>20. CASE UNCHANGED vars
  BY <1>20, <1>a, LogUntouched DEF vars
<1> QED
  BY <1>1, <1>2, <1>3, <1>4, <1>5, <1>6, <1>7, <1>8, <1>9, <1>11, <1>12, <1>13,
     <1>15, <1>16, <1>17, <1>18, <1>19, <1>20 DEF Next, QueueStep, Handler, WorkerStep

\* Rows, requests and worker loops are well formed through any interleaving, for
\* any number of instances, crashes, errors and ticks, whether or not two
\* instances run one generation at once.
THEOREM TypeCorrect == Spec => []TypeOK
<1>1. Init => TypeInv
  BY TypeInvInit
<1>2. TypeInv /\ [Next]_vars => TypeInv'
  BY TypeInvStep
<1>3. TypeInv => TypeOK
  BY DEF TypeInv
<1> QED BY <1>1, <1>2, <1>3, PTL DEF Spec

-------------------------------------------------------------------------------
(* The queue under MaxRun <= StaleAfter.                                        *)

\* The lock names one holder, so a generation has one runner.
LEMMA OneHolder == HoldsLock => SingleRunner
BY DEF HoldsLock, SingleRunner, Runs

LEMMA IInvInit == Init => IInv
<1> SUFFICES ASSUME Init PROVE IInv
  OBVIOUS
<1>1. \A i \in Instances : worker[i].pc = "down"
  BY DEF Init, Resting
<1>2. \A g \in Gens : /\ job[g].state = "absent" /\ request[g].at = "none"
                      /\ DOMAIN events[g] = {}
  BY DEF Init
<1> QED BY <1>1, <1>2 DEF IInv, HoldsLock, JobIsAnswered, LogIsNumbered,
      ReadIsFresh, Announcing, Deciding, JobVerdict, Working

\* What a worker step has to establish when only instance i moves, to a record
\* that still runs the same generation, and the rows it does not run stay.
LEMMA RunnerStep ==
  ASSUME TypeInv, IInv, NEW i \in Instances, NEW w, Working(i), Goes(i, w),
         w.gen = worker[i].gen, w.age = worker[i].age, w.pc \notin {"down", "idle"},
         UNCHANGED <<job, request>>,
         \A g \in Gens : g # worker[i].gen =>
           generation'[g] = generation[g] /\ events'[g] = events[g],
         \A n \in DOMAIN events'[w.gen] : events'[w.gen][n].seq = n,
         w.pc = "write" => w.last = Len(events'[w.gen]),
         w.pc \in {"read", "write"} /\ w.stage \in {"failed", "completed"} =>
           Story(w.gen, w.stage)',
         w.pc = "finish" => Story(w.gen, Verdict(w))',
         w.pc = "finish" /\ w.stage # "none" =>
           events'[w.gen] # <<>> /\ LastStage(w.gen)' = w.stage
  PROVE  IInv'
<1> DEFINE g == worker[i].gen
<1>1. worker'[i] = w /\ \A j \in Instances : j # i => worker'[j] = worker[j]
  BY DEF Goes, TypeInv, TypeOK
<1>2. \A j \in Instances : Working(j) => worker[j].gen \in Gens
  BY DEF TypeInv, TypeOK, WellFormed, Working
<1>3. job[g].state = "running" /\ \A j \in Instances : Working(j) /\ j # i => worker[j].gen # g
  BY DEF IInv, HoldsLock
<1>4. HoldsLock'
  BY <1>1 DEF IInv, HoldsLock, Working
<1>5. JobIsAnswered'
  BY DEF IInv, JobIsAnswered
<1>6. LogIsNumbered'
  BY DEF IInv, LogIsNumbered
<1>7. ReadIsFresh'
  BY <1>1, <1>2, <1>3 DEF IInv, ReadIsFresh, Working
<1>8. Announcing'
  BY <1>1, <1>2, <1>3 DEF IInv, Announcing, Working, Story
<1>9. Deciding'
  BY <1>1, <1>2, <1>3 DEF IInv, Deciding, Working, Story, LastStage, Verdict
<1>10. JobVerdict'
  BY <1>3 DEF IInv, JobVerdict, LastStage
<1> QED BY <1>4, <1>5, <1>6, <1>7, <1>8, <1>9, <1>10 DEF IInv

\* A loop that comes to rest, on a job it leaves as it is.
LEMMA RestStep ==
  ASSUME TypeInv, IInv, NEW i \in Instances, NEW pc \in {"down", "idle"},
         Goes(i, Resting(pc)), UNCHANGED <<job, generation, events>>,
         \A g \in Gens : request'[g].at = "answered" <=> request[g].at = "answered"
  PROVE  IInv'
<1>1. /\ worker'[i].pc = pc
      /\ \A j \in Instances : j # i => worker'[j] = worker[j]
  BY DEF Goes, TypeInv, TypeOK, Resting
<1>2. HoldsLock'
  BY <1>1 DEF IInv, HoldsLock, Working
<1>3. JobIsAnswered'
  BY DEF IInv, JobIsAnswered
<1>4. LogIsNumbered' /\ JobVerdict'
  BY DEF IInv, LogIsNumbered, JobVerdict, LastStage
<1>5. ReadIsFresh' /\ Announcing'
  BY <1>1 DEF IInv, ReadIsFresh, Announcing, Story
<1>6. Deciding'
  BY <1>1 DEF IInv, Deciding, Story, LastStage, Verdict
<1> QED BY <1>2, <1>3, <1>4, <1>5, <1>6 DEF IInv

\* Every step keeps the invariant when no run outlives its lock.
LEMMA IInvStep ==
  ASSUME MaxRun <= StaleAfter
  PROVE  TypeInv /\ IInv /\ [Next]_vars => IInv'
<1> SUFFICES ASSUME TypeInv, IInv, [Next]_vars PROVE IInv'
  OBVIOUS
<1>a. /\ generation \in [Gens -> GenerationRow] /\ job \in [Gens -> JobRow]
      /\ events \in [Gens -> Seq(EventRow)]
      /\ request \in [Gens -> RequestState]
      /\ worker \in [Instances -> WorkerState]
      /\ SeqWithinLog /\ LogIsNumbered
  BY DEF TypeInv, TypeOK, IInv
<1>b. \A i \in Instances : Working(i) => worker[i].gen \in Gens
  BY DEF TypeInv, TypeOK, WellFormed, Working
<1>c. \A i \in Instances : Working(i) => job[worker[i].gen].state = "running"
  BY DEF IInv, HoldsLock
<1>d. \A i \in Instances :
        worker[i].pc \in {"write", "read", "finish"} => Working(i)
  BY DEF Working
<1>1. ASSUME NEW i \in Instances, NEW g \in Gens, CreateGeneration(i, g)
      PROVE  IInv'
  <2>1. job[g].state = "absent"
    BY <1>1 DEF IInv, JobIsAnswered, CreateGeneration
  <2>2. /\ UNCHANGED <<job, events, worker>>
        /\ \A h \in Gens : h # g => generation'[h] = generation[h]
    BY <1>1 DEF CreateGeneration
  <2>3. \A j \in Instances : Working(j) => worker[j].gen # g
    BY <1>c, <2>1
  <2>4. \A h \in Gens : request'[h].at = "answered" <=> request[h].at = "answered"
    BY <1>1, <1>a DEF CreateGeneration
  <2>5. HoldsLock' /\ JobIsAnswered' /\ LogIsNumbered' /\ ReadIsFresh'
    BY <2>2, <2>4 DEF IInv, HoldsLock, JobIsAnswered, LogIsNumbered, ReadIsFresh, Working
  <2>6. Announcing' /\ Deciding'
    BY <1>b, <1>d, <2>2, <2>3 DEF IInv, Announcing, Deciding, Story, LastStage, Verdict
  <2>7. JobVerdict'
    BY <2>1, <2>2 DEF IInv, JobVerdict, LastStage
  <2> QED BY <2>5, <2>6, <2>7 DEF IInv
<1>2. ASSUME NEW g \in Gens, RecordQueued(g)
      PROVE  IInv'
  <2> DEFINE row == [seq |-> LastSeq(g) + 1, stage |-> "queued"]
  <2>1. job[g].state = "absent"
    BY <1>2 DEF IInv, JobIsAnswered, RecordQueued
  <2>2. /\ UNCHANGED <<job, generation, worker>>
        /\ events' = [events EXCEPT ![g] = Append(@, row)]
        /\ \A h \in Gens : h # g => events'[h] = events[h]
    BY <1>2 DEF RecordQueued
  <2>3. \A j \in Instances : Working(j) => worker[j].gen # g
    BY <1>c, <2>1
  <2>4. \A h \in Gens : request'[h].at = "answered" <=> request[h].at = "answered"
    BY <1>2, <1>a DEF RecordQueued
  <2>5. HoldsLock' /\ JobIsAnswered'
    BY <2>2, <2>4 DEF IInv, HoldsLock, JobIsAnswered, Working
  <2>6. LogIsNumbered'
    <3>1. LastSeq(g) = Len(events[g]) /\ events[g] \in Seq(EventRow)
      BY <1>a, LastSeqIsLength
    <3>2. \A n \in DOMAIN events'[g] : events'[g][n].seq = n
      BY <1>a, <2>2, <3>1 DEF LogIsNumbered
    <3> QED BY <1>a, <2>2, <3>2 DEF LogIsNumbered
  <2>7. ReadIsFresh' /\ Announcing' /\ Deciding'
    BY <1>b, <1>d, <2>2, <2>3
    DEF IInv, ReadIsFresh, Announcing, Deciding, Story, LastStage, Verdict
  <2>8. JobVerdict'
    BY <2>1, <2>2 DEF IInv, JobVerdict, LastStage
  <2> QED BY <2>5, <2>6, <2>7, <2>8 DEF IInv
<1>3. ASSUME NEW g \in Gens, Enqueue(g)
      PROVE  IInv'
  <2>1. job[g].state = "absent"
    BY <1>3 DEF IInv, JobIsAnswered, Enqueue
  <2>2. /\ UNCHANGED <<generation, events, worker>>
        /\ job'[g].state = "pending" /\ request'[g].at = "answered"
        /\ \A h \in Gens : h # g => job'[h] = job[h] /\ request'[h] = request[h]
    BY <1>3, <1>a DEF Enqueue, JobRow, RequestState
  <2>3. \A j \in Instances : Working(j) => worker[j].gen # g
    BY <1>c, <2>1
  <2>4. HoldsLock' /\ JobIsAnswered'
    BY <1>b, <2>2, <2>3 DEF IInv, HoldsLock, JobIsAnswered, Working
  <2>5. LogIsNumbered' /\ ReadIsFresh' /\ Announcing' /\ Deciding'
    BY <2>2 DEF IInv, LogIsNumbered, ReadIsFresh, Announcing, Deciding, Story,
       LastStage, Verdict
  <2>6. JobVerdict'
    BY <2>2 DEF IInv, JobVerdict, LastStage
  <2> QED BY <2>4, <2>5, <2>6 DEF IInv
<1>4. ASSUME NEW g \in Gens, DeleteGeneration(g)
      PROVE  IInv'
  <2>1. /\ UNCHANGED <<job, events, request, worker>>
        /\ \A h \in Gens :
             /\ generation'[h].status = generation[h].status
             /\ generation'[h].tailored = generation[h].tailored
             /\ generation[h].deleted => generation'[h].deleted
    BY <1>4, <1>a DEF DeleteGeneration, GenerationRow
  <2>2. HoldsLock' /\ JobIsAnswered' /\ LogIsNumbered' /\ ReadIsFresh'
    BY <2>1 DEF IInv, HoldsLock, JobIsAnswered, LogIsNumbered, ReadIsFresh, Working
  <2>3. Announcing' /\ Deciding'
    BY <1>b, <1>d, <2>1 DEF IInv, Announcing, Deciding, Story, LastStage, Verdict
  <2>4. JobVerdict'
    BY <2>1 DEF IInv, JobVerdict, LastStage
  <2> QED BY <2>2, <2>3, <2>4 DEF IInv
<1>5. ASSUME NEW i \in Instances, NEW g \in Gens, Claim(i, g)
      PROVE  IInv'
  <2>1. /\ UNCHANGED <<generation, events, request>> /\ job[g].state = "pending"
        /\ job'[g].state = "running" /\ job'[g].age = 0 /\ job'[g].by = i
        /\ \A h \in Gens : h # g => job'[h] = job[h]
    BY <1>5, <1>a DEF Claim
  <2>2. /\ worker'[i].pc = "load" /\ worker'[i].gen = g /\ worker'[i].age = 0
        /\ \A j \in Instances : j # i => worker'[j] = worker[j]
    BY <1>5, <1>a DEF Claim, Goes, Resting
  <2>3. \A j \in Instances : Working(j) => worker[j].gen # g
    BY <1>c, <2>1
  <2>4. HoldsLock'
    BY <1>b, <2>1, <2>2, <2>3 DEF IInv, HoldsLock, Working
  <2>5. JobIsAnswered' /\ LogIsNumbered' /\ JobVerdict'
    BY <2>1 DEF IInv, JobIsAnswered, LogIsNumbered, JobVerdict, LastStage
  <2>6. ReadIsFresh' /\ Announcing' /\ Deciding'
    BY <2>1, <2>2 DEF IInv, ReadIsFresh, Announcing, Deciding, Story, LastStage, Verdict
  <2> QED BY <2>4, <2>5, <2>6 DEF IInv
<1>6. ASSUME NEW i \in Instances, LoadDeleted(i)
      PROVE  IInv'
  <2>0. PICK w : w = [worker[i] EXCEPT !.pc = "finish"]
    OBVIOUS
  <2>1. /\ w.pc = "finish" /\ w.gen = worker[i].gen /\ w.age = worker[i].age
        /\ w.stage = "none"
    BY <2>0, <1>6, <1>a DEF LoadDeleted, WorkerState, TypeInv, TypeOK, WellFormed
  <2>2. /\ Goes(i, w) /\ Working(i) /\ generation[worker[i].gen].deleted
        /\ UNCHANGED <<generation, job, events, request>>
    BY <2>0, <1>6 DEF LoadDeleted, Working
  <2>3. Story(w.gen, Verdict(w))'
    BY <2>1, <2>2 DEF Story, Verdict
  <2> QED BY <1>a, <1>b, <2>1, <2>2, <2>3, RunnerStep DEF LogIsNumbered
<1>7. ASSUME NEW i \in Instances, LoadGeneration(i)
      PROVE  IInv'
  <2>0. PICK w : w = [worker[i] EXCEPT !.pc = "read", !.stage = "parse_resume",
                  !.base = generation[worker[i].gen].tailored]
    OBVIOUS
  <2>1. /\ w.pc = "read" /\ w.gen = worker[i].gen /\ w.age = worker[i].age
        /\ w.stage = "parse_resume"
    BY <2>0, <1>a DEF WorkerState
  <2>2. /\ Goes(i, w) /\ Working(i) /\ UNCHANGED <<job, events, request>>
        /\ \A h \in Gens : h # worker[i].gen => generation'[h] = generation[h]
    BY <2>0, <1>7 DEF LoadGeneration, Working
  <2> QED BY <1>a, <1>b, <2>1, <2>2, RunnerStep DEF LogIsNumbered
<1>8. ASSUME NEW i \in Instances, ReadLastSeq(i)
      PROVE  IInv'
  <2> DEFINE g == worker[i].gen
  <2>0. PICK w : w = [worker[i] EXCEPT !.pc = "write", !.last = LastSeq(g)]
    OBVIOUS
  <2>1. /\ w.pc = "write" /\ w.gen = g /\ w.age = worker[i].age
        /\ w.stage = worker[i].stage /\ w.last = LastSeq(g)
    BY <2>0, <1>a DEF WorkerState
  <2>2. /\ Goes(i, w) /\ Working(i) /\ worker[i].pc = "read"
        /\ UNCHANGED <<generation, job, events, request>>
    BY <2>0, <1>8 DEF ReadLastSeq, Working
  <2>3. w.last = Len(events'[w.gen])
    BY <1>a, <1>b, <2>1, <2>2, LastSeqIsLength
  <2>4. w.stage \in {"failed", "completed"} => Story(w.gen, w.stage)'
    BY <2>1, <2>2 DEF IInv, Announcing, Story
  <2> QED BY <1>a, <1>b, <2>1, <2>2, <2>3, <2>4, RunnerStep DEF LogIsNumbered
<1>9. ASSUME NEW i \in Instances, WriteEvent(i)
      PROVE  IInv'
  <2> DEFINE v == worker[i]
             row == [seq |-> v.last + 1, stage |-> v.stage]
  <2>0. PICK w : w = [v EXCEPT !.pc = PcAfter(v), !.recorded = @ + 1]
    OBVIOUS
  <2>1. /\ v.pc = "write" /\ v.gen \in Gens /\ v.stage \in Stages \ {"queued"}
        /\ Working(i)
    BY <1>9 DEF WriteEvent, TypeInv, TypeOK, WellFormed, Working
  <2>2. /\ PcAfter(v) \in {"pipeline", "read", "commit", "finish"}
        /\ PcAfter(v) = "finish" => v.stage \in {"failed", "completed"}
        /\ PcAfter(v) = "read" => v.stage = "pipeline"
    BY <2>1 DEF PcAfter, Stages
  <2>3. /\ w.pc = PcAfter(v) /\ w.gen = v.gen /\ w.age = v.age /\ w.stage = v.stage
    BY <2>0, <1>a DEF WorkerState
  <2>4. /\ Goes(i, w) /\ UNCHANGED <<generation, job, request>>
        /\ events' = [events EXCEPT ![v.gen] = Append(@, row)]
        /\ \A h \in Gens : h # v.gen => events'[h] = events[h]
    BY <2>0, <1>9 DEF WriteEvent
  <2>5. v.last = Len(events[v.gen]) /\ events[v.gen] \in Seq(EventRow)
    BY <1>a, <2>1 DEF IInv, ReadIsFresh
  <2>6. /\ \A n \in DOMAIN events'[v.gen] : events'[v.gen][n].seq = n
        /\ events'[v.gen] # <<>>
        /\ events'[v.gen][Len(events'[v.gen])].stage = v.stage
    <3>1. /\ Len(events'[v.gen]) = Len(events[v.gen]) + 1
          /\ DOMAIN events'[v.gen] = 1 .. Len(events[v.gen]) + 1
          /\ DOMAIN events[v.gen] = 1 .. Len(events[v.gen])
          /\ \A n \in 1 .. Len(events[v.gen]) : events'[v.gen][n] = events[v.gen][n]
          /\ events'[v.gen][Len(events[v.gen]) + 1] = row
          /\ Len(events[v.gen]) \in Nat
      BY <1>a, <2>1, <2>4, <2>5
    <3>2. \A n \in 1 .. Len(events[v.gen]) : events[v.gen][n].seq = n
      BY <1>a, <2>1, <3>1 DEF LogIsNumbered
    <3>3. row.seq = Len(events[v.gen]) + 1 /\ row.stage = v.stage
      BY <2>5
    <3>4. \A n \in 1 .. Len(events[v.gen]) + 1 : events'[v.gen][n].seq = n
      <4> TAKE n \in 1 .. Len(events[v.gen]) + 1
      <4>1. CASE n = Len(events[v.gen]) + 1
        BY <3>1, <3>3, <4>1
      <4>2. CASE n \in 1 .. Len(events[v.gen])
        BY <3>1, <3>2, <4>2
      <4>3. PICK m \in Nat : m = Len(events[v.gen])
        BY <3>1
      <4>4. n \in 1 .. m + 1 => n = m + 1 \/ n \in 1 .. m
        BY <4>3
      <4>5. n = Len(events[v.gen]) + 1 \/ n \in 1 .. Len(events[v.gen])
        BY <4>3, <4>4
      <4> QED BY <4>1, <4>2, <4>5
    <3>5. events'[v.gen] # <<>>
      BY <3>1
    <3> QED BY <3>1, <3>3, <3>4, <3>5
  <2>7. w.stage \in {"failed", "completed"} => Story(w.gen, w.stage)'
    BY <2>1, <2>3, <2>4 DEF IInv, Announcing, Story
  <2>8. w.pc = "finish" => Verdict(w) = w.stage
    BY <2>2, <2>3 DEF Verdict
  <2>9. w.pc = "finish" => Story(w.gen, Verdict(w))'
    BY <2>2, <2>3, <2>7, <2>8 DEF Story, Verdict
  <2>10. LastStage(w.gen)' = w.stage
    BY <2>3, <2>6 DEF LastStage
  <2> HIDE DEF row
  <2> QED BY <2>1, <2>2, <2>3, <2>4, <2>6, <2>7, <2>9, <2>10, RunnerStep
<1>10. ASSUME NEW i \in Instances, PipelineReturns(i)
       PROVE  IInv'
  <2>0. PICK w : w = [worker[i] EXCEPT !.pc = "read", !.stage = "pipeline"]
    OBVIOUS
  <2>1. /\ w.pc = "read" /\ w.gen = worker[i].gen /\ w.age = worker[i].age
        /\ w.stage = "pipeline"
    BY <2>0, <1>a DEF WorkerState
  <2>2. /\ Goes(i, w) /\ Working(i) /\ UNCHANGED <<generation, job, events, request>>
    BY <2>0, <1>10 DEF PipelineReturns, Working
  <2> QED BY <1>a, <1>b, <2>1, <2>2, RunnerStep DEF LogIsNumbered
<1>11. ASSUME NEW i \in Instances, PipelineRaises(i)
       PROVE  IInv'
  <2>0. PICK w : w = [worker[i] EXCEPT !.pc = "read", !.stage = "failed"]
    OBVIOUS
  <2>1. /\ w.pc = "read" /\ w.gen = worker[i].gen /\ w.age = worker[i].age
        /\ w.stage = "failed"
    BY <2>0, <1>a DEF WorkerState
  <2>2. /\ Goes(i, w) /\ Working(i) /\ UNCHANGED <<job, events, request>>
        /\ \A h \in Gens : h # worker[i].gen => generation'[h] = generation[h]
    BY <2>0, <1>11 DEF PipelineRaises, Working
  <2>3. generation'[worker[i].gen].status = "failed"
    BY <1>11, <1>a, <1>b, <2>2 DEF PipelineRaises, GenerationRow
  <2>4. Story(w.gen, w.stage)'
    BY <2>1, <2>3 DEF Story
  <2> QED BY <1>a, <1>b, <2>1, <2>2, <2>4, RunnerStep DEF LogIsNumbered
<1>12. ASSUME NEW i \in Instances, CommitResult(i)
       PROVE  IInv'
  <2> DEFINE g == worker[i].gen
             row == [generation[g] EXCEPT !.status = "completed", !.gaps = @ + 1,
                                          !.tailored = worker[i].base + 1]
  <2>0. PICK w : w = [worker[i] EXCEPT !.pc = "read", !.stage = "completed"]
    OBVIOUS
  <2>1. /\ w.pc = "read" /\ w.gen = g /\ w.age = worker[i].age
        /\ w.stage = "completed"
    BY <2>0, <1>a DEF WorkerState
  <2>2. /\ Goes(i, w) /\ Working(i) /\ UNCHANGED <<job, events, request>>
        /\ generation' = [generation EXCEPT ![g] = row]
        /\ \A h \in Gens : h # g => generation'[h] = generation[h]
    BY <2>0, <1>12 DEF CommitResult, Working
  <2>3. row.status = "completed" /\ row.tailored > 0
    <3>1. worker[i].base \in Nat /\ generation[g] \in GenerationRow
      BY <1>a, <1>b, <2>2 DEF WorkerState
    <3> QED BY <3>1 DEF GenerationRow
  <2>4. Story(w.gen, w.stage)'
    BY <1>a, <1>b, <2>1, <2>2, <2>3 DEF Story
  <2> QED BY <1>a, <1>b, <2>1, <2>2, <2>4, RunnerStep DEF LogIsNumbered
<1>13. ASSUME NEW i \in Instances, Finish(i)
       PROVE  IInv'
  <2> DEFINE g == worker[i].gen
  <2>1. g \in Gens /\ Working(i) /\ worker[i].pc = "finish"
    BY <1>13, <1>b DEF Finish, Working
  <2>2. /\ UNCHANGED <<generation, events, request>>
        /\ job'[g].state = Verdict(worker[i])
        /\ \A h \in Gens : h # g => job'[h] = job[h]
    BY <1>13, <1>a, <2>1 DEF Finish, JobRow
  <2>3. /\ worker'[i].pc = "idle"
        /\ \A j \in Instances : j # i => worker'[j] = worker[j]
    BY <1>13, <1>a DEF Finish, Goes, Resting
  <2>4. \A j \in Instances : Working(j) /\ j # i => worker[j].gen # g
    BY <2>1, OneHolder DEF IInv, SingleRunner, Runs
  <2>5. HoldsLock'
    BY <1>b, <2>2, <2>3, <2>4 DEF IInv, HoldsLock, Working
  <2>6. JobIsAnswered'
    <3>1. worker[i].stage \in {"none", "failed", "completed"}
      BY <2>1 DEF TypeInv, TypeOK, WellFormed
    <3> QED BY <1>c, <2>1, <2>2, <3>1 DEF IInv, JobIsAnswered, Verdict
  <2>7. LogIsNumbered' /\ ReadIsFresh' /\ Announcing' /\ Deciding'
    BY <2>2, <2>3 DEF IInv, LogIsNumbered, ReadIsFresh, Announcing, Deciding,
       Story, LastStage, Verdict
  <2>8. JobVerdict'
    <3>1. /\ Story(g, Verdict(worker[i]))
          /\ worker[i].stage # "none" =>
               events[g] # <<>> /\ LastStage(g) = worker[i].stage
          /\ worker[i].stage \in {"none", "failed", "completed"}
      BY <2>1 DEF IInv, Deciding, TypeInv, TypeOK, WellFormed
    <3> QED BY <2>1, <2>2, <3>1 DEF IInv, JobVerdict, Story, Verdict, LastStage
  <2> QED BY <2>5, <2>6, <2>7, <2>8 DEF IInv
<1>14. ASSUME NEW i \in Instances, LoopError(i)
       PROVE  IInv'
  BY <1>14, RestStep DEF LoopError
<1>15. ASSUME NEW i \in Instances, Crash(i)
       PROVE  IInv'
  <2>1. \A g \in Gens : request'[g].at = "answered" <=> request[g].at = "answered"
    BY <1>15, <1>a DEF Crash, RequestState
  <2> QED BY <1>15, <2>1, RestStep DEF Crash
<1>16. ASSUME NEW i \in Instances, Start(i)
       PROVE  IInv'
  <2>1. \A j \in Instances : Working(j) => ~Stale(worker[j].gen)
    <3> TAKE j \in Instances
    <3> HAVE Working(j)
    <3>1. job[worker[j].gen].age = worker[j].age /\ worker[j].age <= MaxRun
      BY DEF IInv, HoldsLock
    <3>2. worker[j].age \in Nat
      BY <1>a DEF WorkerState
    <3> QED BY <3>1, <3>2 DEF Stale
  <2>2. /\ UNCHANGED <<generation, events, request>> /\ worker[i].pc = "down"
        /\ \A g \in Gens : IF Stale(g) THEN job'[g].state = "pending"
                                       ELSE job'[g] = job[g]
    <3>1. job' = [g \in Gens |->
            IF Stale(g)
            THEN [job[g] EXCEPT !.state = "pending", !.age = 0, !.by = None]
            ELSE job[g]]
      BY <1>16 DEF Start, Reclaimed
    <3>2. \A r \in JobRow :
            [r EXCEPT !.state = "pending", !.age = 0, !.by = None].state = "pending"
      BY DEF JobRow
    <3>3. UNCHANGED <<generation, events, request>> /\ worker[i].pc = "down"
      BY <1>16 DEF Start
    <3> QED BY <1>a, <3>1, <3>2, <3>3
  <2>3. /\ worker'[i].pc = "idle"
        /\ \A j \in Instances : j # i => worker'[j] = worker[j]
    BY <1>16, <1>a DEF Start, Goes, Resting
  <2>4. HoldsLock'
    BY <1>b, <2>1, <2>2, <2>3 DEF IInv, HoldsLock, Working
  <2>5. JobIsAnswered'
    BY <2>2 DEF IInv, JobIsAnswered, Stale
  <2>6. LogIsNumbered' /\ ReadIsFresh' /\ Announcing' /\ Deciding'
    BY <2>2, <2>3 DEF IInv, LogIsNumbered, ReadIsFresh, Announcing, Deciding,
       Story, LastStage, Verdict
  <2>7. JobVerdict'
    BY <2>2 DEF IInv, JobVerdict, LastStage
  <2> QED BY <2>4, <2>5, <2>6, <2>7 DEF IInv
<1>17. ASSUME Tick
       PROVE  IInv'
  <2>1. UNCHANGED <<generation, events, request>>
    BY <1>17 DEF Tick
  <2>2. \A g \in Gens :
          /\ job'[g].state = job[g].state /\ job'[g].by = job[g].by
          /\ job[g].state = "running" => job'[g].age = OlderBy1(job[g].age, StaleAfter + 1)
    BY <1>17, <1>a DEF Tick, JobRow
  <2>3. \A i \in Instances :
          /\ worker'[i].pc = worker[i].pc /\ worker'[i].gen = worker[i].gen
          /\ worker'[i].last = worker[i].last /\ worker'[i].stage = worker[i].stage
    BY <1>17, <1>a DEF Tick, WorkerState
  <2>4. \A i \in Instances : Working(i) =>
          worker[i].age < MaxRun /\ worker'[i].age = OlderBy1(worker[i].age, MaxRun)
    <3> TAKE i \in Instances
    <3> HAVE Working(i)
    <3>1. /\ worker[i].age < MaxRun
          /\ worker'[i] = [worker[i] EXCEPT !.age = OlderBy1(@, MaxRun)]
      BY <1>17 DEF Tick, Working, Up
    <3> QED BY <1>a, <3>1 DEF WorkerState
  <2>5. HoldsLock'
    <3> SUFFICES ASSUME NEW i \in Instances, Working(i)'
                 PROVE  /\ job'[worker'[i].gen].state = "running"
                        /\ job'[worker'[i].gen].by = i
                        /\ job'[worker'[i].gen].age = worker'[i].age
                        /\ worker'[i].age <= MaxRun
      BY DEF HoldsLock
    <3>1. Working(i) /\ worker[i].gen \in Gens /\ worker[i].age \in Nat
      BY <1>a, <1>b, <2>3 DEF Working, WorkerState
    <3>2. /\ job[worker[i].gen].state = "running" /\ job[worker[i].gen].by = i
          /\ job[worker[i].gen].age = worker[i].age /\ worker[i].age <= MaxRun
      BY <3>1 DEF IInv, HoldsLock
    <3>3. /\ worker'[i].age = worker[i].age + 1 /\ worker'[i].age <= MaxRun
          /\ job'[worker[i].gen].age = worker[i].age + 1
      BY <2>2, <2>4, <3>1, <3>2 DEF OlderBy1
    <3> QED BY <2>2, <2>3, <3>1, <3>2, <3>3
  <2>6. JobIsAnswered' /\ JobVerdict' /\ LogIsNumbered'
    BY <2>1, <2>2 DEF IInv, JobIsAnswered, JobVerdict, LogIsNumbered, LastStage
  <2>7. ReadIsFresh' /\ Announcing' /\ Deciding'
    BY <2>1, <2>3 DEF IInv, ReadIsFresh, Announcing, Deciding, Story, LastStage, Verdict
  <2> QED BY <2>5, <2>6, <2>7 DEF IInv
<1>18. CASE UNCHANGED vars
  BY <1>18 DEF vars, IInv, HoldsLock, JobIsAnswered, LogIsNumbered, ReadIsFresh,
     Announcing, Deciding, JobVerdict, Working, Story, LastStage, Verdict
<1> QED
  BY <1>1, <1>2, <1>3, <1>4, <1>5, <1>6, <1>7, <1>8, <1>9, <1>10, <1>11, <1>12,
     <1>13, <1>14, <1>15, <1>16, <1>17, <1>18 DEF Next, QueueStep, Handler, WorkerStep

\* When no run outlives its lock, no two instances ever run one generation, the
\* progress log stays numbered 1, 2, 3, ..., and a decided job agrees with its
\* generation: for any number of generations, instances, crashes and errors.
THEOREM QueueCorrect ==
  ASSUME MaxRun <= StaleAfter
  PROVE  Spec => [](SingleRunner /\ LogIsNumbered /\ JobVerdict)
<1>1. Init => TypeInv /\ IInv
  BY TypeInvInit, IInvInit
<1>2. TypeInv /\ IInv /\ [Next]_vars => (TypeInv /\ IInv)'
  BY TypeInvStep, IInvStep
<1>3. IInv => SingleRunner /\ LogIsNumbered /\ JobVerdict
  BY OneHolder DEF IInv
<1> QED BY <1>1, <1>2, <1>3, PTL DEF Spec

-------------------------------------------------------------------------------
(* One theorem for each invariant of the runs. *)

\* record_event numbers each log 1, 2, 3, ... although it reads and inserts in
\* two statements: the claim keeps any second recorder away.
THEOREM NumberedWithoutGaps ==
  ASSUME MaxRun <= StaleAfter
  PROVE  Spec => []LogIsNumbered
<1> QED BY QueueCorrect, PTL

\* A decided job tells what its generation and its log tell.
THEOREM VerdictsAgree ==
  ASSUME MaxRun <= StaleAfter
  PROVE  Spec => []JobVerdict
<1> QED BY QueueCorrect, PTL

(* --------------------- The queue implements Dispatch ---------------------- *)

\* Nothing a holder or the board could notice.
Calm ==
  /\ \A g \in Gens : job'[g].state = job[g].state /\ job'[g].attempts = job[g].attempts
  /\ \A i \in Instances, g \in Gens : Runs(i, g)' <=> Runs(i, g)
  /\ UNCHANGED <<crashes, errors>>

\* The steps within a run, the handlers but for the job's commit, and time.
Within ==
  \/ \E i \in Instances :
       \/ LoadDeleted(i) \/ LoadGeneration(i) \/ ReadLastSeq(i) \/ WriteEvent(i)
       \/ PipelineReturns(i) \/ PipelineRaises(i) \/ CommitResult(i)
       \/ \E g \in Gens : CreateGeneration(i, g)
  \/ \E g \in Gens : RecordQueued(g) \/ DeleteGeneration(g)
  \/ Tick

\* A worker that goes from one place of its run to another still runs it.
LEMMA StillRuns ==
  ASSUME worker \in [Instances -> WorkerState], NEW i \in Instances, Working(i),
         NEW w, Goes(i, w), w.pc \notin {"down", "idle"}, w.gen = worker[i].gen
  PROVE  \A j \in Instances, g \in Gens : Runs(j, g)' <=> Runs(j, g)
<1>1. worker'[i] = w /\ \A j \in Instances : j # i => worker'[j] = worker[j]
  BY DEF Goes
<1> QED BY <1>1 DEF Runs, Working

LEMMA WithinIsCalm ==
  ASSUME TypeInv, Within
  PROVE  Calm
<1>a. /\ worker \in [Instances -> WorkerState] /\ job \in [Gens -> JobRow]
      /\ \A i \in Instances : WellFormed(worker[i])
  BY DEF TypeInv, TypeOK
<1>1. ASSUME NEW i \in Instances, LoadDeleted(i)
      PROVE  Calm
  <2> DEFINE w == [worker[i] EXCEPT !.pc = "finish"]
  <2>1. w.pc = "finish" /\ w.gen = worker[i].gen
    BY <1>a DEF WorkerState
  <2>2. Goes(i, w) /\ Working(i) /\ UNCHANGED <<job, crashes, errors>>
    BY <1>1 DEF LoadDeleted, Working
  <2> HIDE DEF w
  <2> QED BY <1>a, <2>1, <2>2, StillRuns DEF Calm
<1>2. ASSUME NEW i \in Instances, LoadGeneration(i)
      PROVE  Calm
  <2> DEFINE w == [worker[i] EXCEPT !.pc = "read", !.stage = "parse_resume",
                                    !.base = generation[worker[i].gen].tailored]
  <2>1. w.pc = "read" /\ w.gen = worker[i].gen
    BY <1>a DEF WorkerState
  <2>2. Goes(i, w) /\ Working(i) /\ UNCHANGED <<job, crashes, errors>>
    BY <1>2 DEF LoadGeneration, Working
  <2> HIDE DEF w
  <2> QED BY <1>a, <2>1, <2>2, StillRuns DEF Calm
<1>3. ASSUME NEW i \in Instances, ReadLastSeq(i)
      PROVE  Calm
  <2> DEFINE w == [worker[i] EXCEPT !.pc = "write", !.last = LastSeq(worker[i].gen)]
  <2>1. w.pc = "write" /\ w.gen = worker[i].gen
    BY <1>a DEF WorkerState
  <2>2. Goes(i, w) /\ Working(i) /\ UNCHANGED <<job, crashes, errors>>
    BY <1>3 DEF ReadLastSeq, Working
  <2> HIDE DEF w
  <2> QED BY <1>a, <2>1, <2>2, StillRuns DEF Calm
<1>4. ASSUME NEW i \in Instances, WriteEvent(i)
      PROVE  Calm
  <2> DEFINE w == [worker[i] EXCEPT !.pc = PcAfter(worker[i]), !.recorded = @ + 1]
  <2>1. PcAfter(worker[i]) \in {"pipeline", "read", "commit", "finish"}
    BY <1>4, <1>a DEF PcAfter, WorkerState, WellFormed, Stages, WriteEvent
  <2>2. w.pc \notin {"down", "idle"} /\ w.gen = worker[i].gen
    BY <1>a, <2>1 DEF WorkerState
  <2>3. Goes(i, w) /\ Working(i) /\ UNCHANGED <<job, crashes, errors>>
    BY <1>4 DEF WriteEvent, Working
  <2> HIDE DEF w
  <2> QED BY <1>a, <2>2, <2>3, StillRuns DEF Calm
<1>5. ASSUME NEW i \in Instances, PipelineReturns(i) \/ PipelineRaises(i) \/ CommitResult(i)
      PROVE  Calm
  <2>1. PICK s \in {"pipeline", "failed", "completed"} :
          Goes(i, [worker[i] EXCEPT !.pc = "read", !.stage = s])
    BY <1>5 DEF PipelineReturns, PipelineRaises, CommitResult
  <2> DEFINE w == [worker[i] EXCEPT !.pc = "read", !.stage = s]
  <2>2. w.pc = "read" /\ w.gen = worker[i].gen
    BY <1>a DEF WorkerState
  <2>3. Goes(i, w) /\ Working(i) /\ UNCHANGED <<job, crashes, errors>>
    BY <1>5, <2>1 DEF PipelineReturns, PipelineRaises, CommitResult, Working
  <2> HIDE DEF w
  <2> QED BY <1>a, <2>2, <2>3, StillRuns DEF Calm
<1>6. ASSUME NEW g \in Gens,
             \/ \E i \in Instances : CreateGeneration(i, g)
             \/ RecordQueued(g) \/ DeleteGeneration(g)
      PROVE  Calm
  <2>1. UNCHANGED <<job, worker, crashes, errors>>
    BY <1>6 DEF CreateGeneration, RecordQueued, DeleteGeneration
  <2> QED BY <2>1 DEF Calm, Runs, Working
<1>7. ASSUME Tick
      PROVE  Calm
  <2>1. \A g \in Gens : job'[g].state = job[g].state /\ job'[g].attempts = job[g].attempts
    BY <1>7, <1>a DEF Tick, JobRow
  <2>2. \A i \in Instances : worker'[i].pc = worker[i].pc /\ worker'[i].gen = worker[i].gen
    BY <1>7, <1>a DEF Tick, WorkerState
  <2>3. UNCHANGED <<crashes, errors>>
    BY <1>7 DEF Tick
  <2> QED BY <2>1, <2>2, <2>3 DEF Calm, Runs, Working
<1> QED BY <1>1, <1>2, <1>3, <1>4, <1>5, <1>6, <1>7 DEF Within

\* What is left are the seven steps that Dispatch tells apart.
LEMMA StepKinds ==
  ASSUME [Next]_vars
  PROVE  \/ Within
         \/ \E g \in Gens : Enqueue(g)
         \/ \E i \in Instances, g \in Gens : Claim(i, g)
         \/ \E i \in Instances : Finish(i) \/ LoopError(i) \/ Crash(i) \/ Start(i)
         \/ UNCHANGED vars
<1> QED BY DEF Next, QueueStep, Handler, WorkerStep, Within

\* A worker whose loop is elsewhere keeps to what it was doing.
LEMMA OthersKeepRunning ==
  ASSUME worker \in [Instances -> WorkerState], NEW i \in Instances, NEW w, Goes(i, w)
  PROVE  /\ worker'[i] = w
         /\ \A j \in Instances, g \in Gens : j # i => (Runs(j, g)' <=> Runs(j, g))
<1> QED BY DEF Goes, Runs, Working

\* Nobody runs a job whose lock went stale: a run is never older than MaxRun.
LEMMA StaleIsAbandoned ==
  ASSUME MaxRun <= StaleAfter, TypeInv, IInv, NEW g \in Gens, Stale(g), NEW i \in Instances
  PROVE  ~Runs(i, g)
<1>1. SUFFICES ASSUME Runs(i, g) PROVE FALSE
  OBVIOUS
<1>2. job[g].age = worker[i].age /\ worker[i].age <= MaxRun
  BY <1>1 DEF IInv, HoldsLock, Runs
<1>3. worker[i].age \in Nat /\ job[g].age \in Nat
  BY DEF TypeInv, TypeOK, WorkerState, JobRow
<1> QED BY <1>2, <1>3, TimeAssumption DEF Stale

-------------------------------------------------------------------------------
(* The refinement. *)

LEMMA BoardInit == Init => Board!Init
<1>1. SUFFICES ASSUME Init PROVE Board!Init
  OBVIOUS
<1>2. \A g \in Gens : job[g].state = "absent"
  BY <1>1 DEF Init
<1>3. \A i \in Instances : worker[i].pc = "down"
  BY <1>1 DEF Init, Resting
<1> QED BY <1>2, <1>3 DEF Board!Init, OnBoard, Runs, Working

LEMMA BoardStep ==
  ASSUME MaxRun <= StaleAfter, TypeInv, IInv, [Next]_vars
  PROVE  [Board!Next]_(Board!bvars)
<1> DEFINE board == [g \in Gens |-> OnBoard(job[g].state)]
           holding == [g \in Gens |-> {i \in Instances : Runs(i, g)}]
<1>a. /\ worker \in [Instances -> WorkerState] /\ job \in [Gens -> JobRow]
      /\ \A i \in Instances : WellFormed(worker[i])
  BY DEF TypeInv, TypeOK
<1>b. /\ board' = [g \in Gens |-> OnBoard(job'[g].state)]
      /\ holding' = [g \in Gens |-> {i \in Instances : Runs(i, g)'}]
  OBVIOUS
<1>c. ASSUME \A g \in Gens : job'[g].state = job[g].state,
             \A i \in Instances, g \in Gens : Runs(i, g)' <=> Runs(i, g)
      PROVE  UNCHANGED Board!bvars
  BY <1>c DEF Board!bvars
<1>d. ASSUME \A i \in Instances, g \in Gens : Runs(i, g)' <=> Runs(i, g)
      PROVE  holding' = holding
  BY <1>d
<1>1. CASE Within
  BY <1>1, <1>c, WithinIsCalm DEF Calm
<1>2. ASSUME NEW g \in Gens, Enqueue(g)
      PROVE  Board!Accept(g)
  <2>1. /\ job[g].state = "absent" /\ job' = [job EXCEPT ![g].state = "pending"]
        /\ UNCHANGED worker
    BY <1>2 DEF Enqueue, IInv, JobIsAnswered
  <2>2. /\ job'[g].state = "pending"
        /\ \A h \in Gens : h # g => job'[h] = job[h]
    BY <2>1, <1>a DEF JobRow
  <2>3. board' = [board EXCEPT ![g] = "waiting"] /\ board[g] = "none"
    BY <2>1, <2>2 DEF OnBoard
  <2>4. holding' = holding
    BY <2>1, <1>d DEF Runs, Working
  <2> QED BY <2>3, <2>4 DEF Board!Accept
<1>3. ASSUME NEW i \in Instances, NEW g \in Gens, Claim(i, g)
      PROVE  Board!Take(i, g)
  <2> DEFINE w == [Resting("load") EXCEPT !.gen = g]
  <2>1. w.pc = "load" /\ w.gen = g
    BY DEF Resting
  <2>2. Goes(i, w) /\ worker[i].pc = "idle" /\ job[g].state = "pending"
    BY <1>3 DEF Claim
  <2>3. job'[g].state = "running" /\ \A h \in Gens : h # g => job'[h] = job[h]
    BY <1>3, <1>a DEF Claim
  <2> HIDE DEF w
  <2>4. /\ worker'[i] = w
        /\ \A j \in Instances, h \in Gens : j # i => (Runs(j, h)' <=> Runs(j, h))
    BY <1>a, <2>2, OthersKeepRunning
  <2>5. \A h \in Gens : ~Runs(i, h) /\ (Runs(i, h)' <=> h = g)
    BY <2>1, <2>2, <2>4 DEF Runs, Working
  <2>6. \A j \in Instances : ~Runs(j, g)
    BY <2>2 DEF IInv, HoldsLock, Runs
  <2>7. board' = [board EXCEPT ![g] = "taken"] /\ board[g] = "waiting"
    BY <2>2, <2>3 DEF OnBoard
  <2>8. /\ holding[g] = {} /\ \A h \in Gens : i \notin holding[h]
        /\ holding' = [holding EXCEPT ![g] = {i}]
    BY <2>4, <2>5, <2>6
  <2> QED BY <2>7, <2>8 DEF Board!Take
<1>4. ASSUME NEW i \in Instances, Finish(i)
      PROVE  \E g \in Gens : Board!Conclude(i, g)
  <2> DEFINE g == worker[i].gen
  <2>1. /\ worker[i].pc = "finish" /\ g \in Gens /\ Goes(i, Resting("idle"))
        /\ Verdict(worker[i]) \in Verdicts /\ Runs(i, g)
    BY <1>4, <1>a DEF Finish, WellFormed, Verdict, Verdicts, Runs, Working
  <2>2. job'[g].state \in Verdicts /\ \A h \in Gens : h # g => job'[h] = job[h]
    BY <1>4, <1>a, <2>1 DEF Finish, JobRow
  <2>3. job[g].state = "running" /\ \A j \in Instances : j # i => ~Runs(j, g)
    BY <2>1 DEF IInv, HoldsLock, Runs
  <2>4. /\ \A h \in Gens : ~Runs(i, h)'
        /\ \A j \in Instances, h \in Gens : j # i => (Runs(j, h)' <=> Runs(j, h))
    BY <1>a, <2>1, OthersKeepRunning DEF Resting, Runs, Working
  <2>5. \A h \in Gens : h # g => ~Runs(i, h)
    BY DEF Runs
  <2>6. board' = [board EXCEPT ![g] = "done"] /\ board[g] = "taken"
    BY <2>1, <2>2, <2>3 DEF OnBoard, Verdicts
  <2>7. holding[g] = {i} /\ holding' = [holding EXCEPT ![g] = {}]
    BY <2>1, <2>3, <2>4, <2>5
  <2> QED BY <2>1, <2>6, <2>7 DEF Board!Conclude
<1>5. ASSUME NEW i \in Instances, LoopError(i) \/ Crash(i)
      PROVE  [Board!Next]_(Board!bvars)
  <2>1. PICK pc \in {"down", "idle"} : Goes(i, Resting(pc)) /\ UNCHANGED job
    BY <1>5 DEF LoopError, Crash
  <2>2. /\ \A h \in Gens : ~Runs(i, h)'
        /\ \A j \in Instances, h \in Gens : j # i => (Runs(j, h)' <=> Runs(j, h))
    BY <1>a, <2>1, OthersKeepRunning DEF Resting, Runs, Working
  <2>3. CASE \A h \in Gens : ~Runs(i, h)
    BY <1>c, <2>1, <2>2, <2>3
  <2>4. CASE \E h \in Gens : Runs(i, h)
    <3>1. PICK g \in Gens : Runs(i, g)
      BY <2>4
    <3>2. \A j \in Instances : j # i => ~Runs(j, g)
      BY <3>1 DEF IInv, HoldsLock, Runs
    <3>3. \A h \in Gens : h # g => ~Runs(i, h)
      BY <3>1 DEF Runs
    <3>4. holding[g] = {i} /\ holding' = [holding EXCEPT ![g] = {}]
      BY <2>2, <3>1, <3>2, <3>3
    <3>5. Board!Abandon(i, g)
      BY <2>1, <3>4 DEF Board!Abandon
    <3> QED BY <3>5 DEF Board!Next
  <2> QED BY <2>3, <2>4
<1>6. ASSUME NEW i \in Instances, Start(i)
      PROVE  Board!PutBack({g \in Gens : Stale(g)})
  <2> DEFINE given == {g \in Gens : Stale(g)}
  <2>1. \A g \in given : board[g] = "taken" /\ holding[g] = {}
    BY StaleIsAbandoned DEF Stale, OnBoard
  <2>2. \A g \in Gens : /\ g \in given => job'[g].state = "pending"
                        /\ g \notin given => job'[g] = job[g]
    BY <1>6, <1>a DEF Start, Reclaimed, JobRow
  <2>3. board' = [g \in Gens |-> IF g \in given THEN "waiting" ELSE board[g]]
    BY <2>2 DEF OnBoard
  <2>4. Goes(i, Resting("idle")) /\ worker[i].pc = "down"
    BY <1>6 DEF Start
  <2>5. \A j \in Instances, h \in Gens : Runs(j, h)' <=> Runs(j, h)
    BY <1>a, <2>4, OthersKeepRunning DEF Resting, Runs, Working
  <2>6. holding' = holding
    BY <2>5, <1>d
  <2> QED BY <2>1, <2>3, <2>6 DEF Board!PutBack
<1>7. CASE UNCHANGED vars
  BY <1>7, <1>c DEF vars, Runs, Working
<1>8. {g \in Gens : Stale(g)} \in SUBSET Gens
  OBVIOUS
<1> QED BY <1>1, <1>2, <1>3, <1>4, <1>5, <1>6, <1>7, <1>8, StepKinds DEF Board!Next

\* When no run outlives its lock, the queue with its locks, clocks, commits,
\* crashes and errors does what Dispatch promises: one holder at a time, work
\* put back only once nobody holds it, and verdicts that are final.
THEOREM QueueImplementsDispatch ==
  ASSUME MaxRun <= StaleAfter
  PROVE  Spec => ImplementsDispatch
<1>1. Init => TypeInv /\ IInv /\ Board!Init
  BY TypeInvInit, IInvInit, BoardInit
<1>2. TypeInv /\ IInv /\ [Next]_vars =>
        (TypeInv /\ IInv)' /\ [Board!Next]_(Board!bvars)
  BY TypeInvStep, IInvStep, BoardStep
<1> QED BY <1>1, <1>2, PTL DEF Spec, ImplementsDispatch, Board!Spec

-------------------------------------------------------------------------------
(* Claims.  A job in hand or decided has used its last claim; of one that is    *)
(* neither, every claim was undone by a crash or an error.                      *)

InUse(g) == Decided(g) \/ \E i \in Instances : Runs(i, g)

ClaimsUndone ==
  \A g \in Gens :
    job[g].attempts <= crashes + errors + (IF InUse(g) THEN 1 ELSE 0)

LEMMA ClaimsInit == Init => ClaimsUndone
<1> QED BY BoundAssumption DEF Init, ClaimsUndone

LEMMA ClaimsStep ==
  ASSUME MaxRun <= StaleAfter, TypeInv, IInv, ClaimsUndone, [Next]_vars
  PROVE  ClaimsUndone'
<1>a. /\ worker \in [Instances -> WorkerState] /\ job \in [Gens -> JobRow]
      /\ \A i \in Instances : WellFormed(worker[i])
      /\ crashes \in Nat /\ errors \in Nat
      /\ \A g \in Gens : job[g].attempts \in Nat
  BY DEF TypeInv, TypeOK, JobRow
<1>b. ASSUME crashes' + errors' >= crashes + errors, crashes' \in Nat, errors' \in Nat,
             NEW g \in Gens, job'[g].attempts = job[g].attempts, InUse(g) => InUse(g)'
      PROVE  job'[g].attempts <= crashes' + errors' + (IF InUse(g)' THEN 1 ELSE 0)
  <2> DEFINE k(used) == IF used THEN 1 ELSE 0
  <2>1. PICK n \in Nat, c \in Nat, e \in Nat, d \in Nat, f \in Nat :
          /\ n = job[g].attempts /\ n = job'[g].attempts
          /\ c = crashes /\ e = errors /\ d = crashes' /\ f = errors'
    <3>1. crashes \in Nat /\ errors \in Nat /\ job[g].attempts \in Nat
      BY <1>a
    <3>2. crashes' \in Nat /\ errors' \in Nat /\ job'[g].attempts = job[g].attempts
      BY <1>b
    <3> QED BY <3>1, <3>2, Zenon
  <2>2. PICK a \in {0, 1}, b \in {0, 1} :
          a = k(InUse(g)) /\ b = k(InUse(g)') /\ a <= b
    BY <1>b
  <2>3. n <= c + e + a
    BY <2>1, <2>2 DEF ClaimsUndone
  <2>4. d + f >= c + e
    BY <1>b, <2>1
  <2>5. n <= d + f + b
    BY <2>2, <2>3, <2>4
  <2> QED BY <2>1, <2>2, <2>5
<1>c. ASSUME Calm
      PROVE  ClaimsUndone'
  <2>1. \A g \in Gens : InUse(g)' <=> InUse(g)
    BY <1>c DEF Calm, InUse, Decided
  <2> QED BY <1>a, <1>b, <1>c, <2>1 DEF Calm, ClaimsUndone
<1>1. CASE Within
  BY <1>1, <1>c, WithinIsCalm
<1>2. ASSUME NEW g \in Gens, Enqueue(g)
      PROVE  ClaimsUndone'
  <2>1. job[g].state = "absent"
    BY <1>2 DEF Enqueue, IInv, JobIsAnswered
  <2>2. /\ job' = [job EXCEPT ![g].state = "pending"]
        /\ UNCHANGED <<worker, crashes, errors>>
    BY <1>2 DEF Enqueue
  <2>3. \A h \in Gens : /\ job'[h].attempts = job[h].attempts
                        /\ h # g => job'[h].state = job[h].state
    BY <2>2, <1>a DEF JobRow
  <2>4. \A h \in Gens : InUse(h) => InUse(h)'
    BY <2>1, <2>2, <2>3 DEF InUse, Decided, Runs, Working, Verdicts
  <2> QED BY <1>a, <1>b, <2>2, <2>3, <2>4 DEF ClaimsUndone
<1>3. ASSUME NEW i \in Instances, NEW g \in Gens, Claim(i, g)
      PROVE  ClaimsUndone'
  <2>1. /\ job'[g].attempts = job[g].attempts + 1
        /\ \A h \in Gens : h # g => job'[h] = job[h]
        /\ job[g].state = "pending" /\ UNCHANGED <<crashes, errors>>
    BY <1>3, <1>a DEF Claim
  <2> DEFINE w == [Resting("load") EXCEPT !.gen = g]
  <2>2. w.pc = "load" /\ w.gen = g
    BY DEF Resting
  <2>3. Goes(i, w) /\ worker[i].pc = "idle"
    BY <1>3 DEF Claim
  <2> HIDE DEF w
  <2>4. /\ worker'[i] = w
        /\ \A j \in Instances, h \in Gens : j # i => (Runs(j, h)' <=> Runs(j, h))
    BY <1>a, <2>3, OthersKeepRunning
  <2>5. Runs(i, g)' /\ \A h \in Gens : ~Runs(i, h)
    BY <2>2, <2>3, <2>4 DEF Runs, Working
  <2>6. InUse(g)' /\ ~InUse(g)
    BY <2>1, <2>5 DEF InUse, Decided, Verdicts, IInv, HoldsLock, Runs
  <2>7. job'[g].attempts <= crashes' + errors' + (IF InUse(g)' THEN 1 ELSE 0)
    <3>1. job[g].attempts <= crashes + errors
      BY <2>6, <1>a DEF ClaimsUndone
    <3> QED BY <1>a, <2>1, <2>6, <3>1
  <2>8. \A h \in Gens : h # g => (InUse(h) => InUse(h)')
    BY <2>1, <2>4, <2>5 DEF InUse, Decided
  <2> QED BY <1>a, <1>b, <2>1, <2>7, <2>8 DEF ClaimsUndone
<1>4. ASSUME NEW i \in Instances, Finish(i)
      PROVE  ClaimsUndone'
  <2> DEFINE g == worker[i].gen
  <2>1. /\ worker[i].pc = "finish" /\ g \in Gens /\ Goes(i, Resting("idle"))
        /\ Verdict(worker[i]) \in Verdicts /\ UNCHANGED <<crashes, errors>>
    BY <1>4, <1>a DEF Finish, WellFormed, Verdict, Verdicts
  <2>2. /\ job'[g].state \in Verdicts /\ job'[g].attempts = job[g].attempts
        /\ \A h \in Gens : h # g => job'[h] = job[h]
    BY <1>4, <1>a, <2>1 DEF Finish, JobRow
  <2>3. \A j \in Instances, h \in Gens : j # i => (Runs(j, h)' <=> Runs(j, h))
    BY <1>a, <2>1, OthersKeepRunning
  <2>4. \A h \in Gens : InUse(h) => InUse(h)'
    BY <2>2, <2>3 DEF InUse, Decided, Runs
  <2> QED BY <1>a, <1>b, <2>1, <2>2, <2>4 DEF ClaimsUndone
<1>5. ASSUME NEW i \in Instances, LoopError(i) \/ Crash(i)
      PROVE  ClaimsUndone'
  <2>1. PICK pc \in {"down", "idle"} : Goes(i, Resting(pc)) /\ UNCHANGED job
    BY <1>5 DEF LoopError, Crash
  <2>2. PICK before \in Nat, after \in Nat :
          /\ before = crashes + errors /\ after = crashes' + errors'
          /\ after = before + 1
    <3>1. CASE LoopError(i)
      BY <3>1, <1>a DEF LoopError
    <3>2. CASE Crash(i)
      BY <3>2, <1>a DEF Crash
    <3> QED BY <1>5, <3>1, <3>2
  <2> SUFFICES ASSUME NEW g \in Gens
               PROVE  job'[g].attempts <= crashes' + errors' + (IF InUse(g)' THEN 1 ELSE 0)
    BY DEF ClaimsUndone
  <2>3. PICK n \in Nat : n = job[g].attempts /\ n = job'[g].attempts
    BY <1>a, <2>1
  <2>4. PICK a \in {0, 1} : a = IF InUse(g) THEN 1 ELSE 0
    OBVIOUS
  <2>5. n <= before + a
    BY <2>2, <2>3, <2>4 DEF ClaimsUndone
  <2>6. PICK b \in {0, 1} : b = IF InUse(g)' THEN 1 ELSE 0
    OBVIOUS
  <2>7. n <= after + b
    BY <2>2, <2>4, <2>5, <2>6
  <2> QED BY <2>2, <2>3, <2>6, <2>7
<1>6. ASSUME NEW i \in Instances, Start(i)
      PROVE  ClaimsUndone'
  <2>1. \A g \in Gens : /\ job'[g].attempts = job[g].attempts
                        /\ ~Stale(g) => job'[g] = job[g]
    BY <1>6, <1>a DEF Start, Reclaimed, JobRow
  <2>2. Goes(i, Resting("idle")) /\ worker[i].pc = "down" /\ UNCHANGED <<crashes, errors>>
    BY <1>6 DEF Start
  <2>3. \A j \in Instances, h \in Gens : Runs(j, h)' <=> Runs(j, h)
    BY <1>a, <2>2, OthersKeepRunning DEF Resting, Runs, Working
  <2>4. \A g \in Gens : Stale(g) => ~InUse(g)
    BY StaleIsAbandoned DEF InUse, Decided, Stale, Verdicts
  <2>5. \A g \in Gens : InUse(g) => InUse(g)'
    BY <2>1, <2>3, <2>4 DEF InUse, Decided
  <2> QED BY <1>a, <1>b, <2>1, <2>2, <2>5 DEF ClaimsUndone
<1>7. CASE UNCHANGED vars
  BY <1>7, <1>c DEF vars, Calm, Runs, Working
<1> QED BY <1>1, <1>2, <1>3, <1>4, <1>5, <1>6, <1>7, StepKinds

\* When no run outlives its lock, every claim of a job but one was undone by a
\* crash or a failed transaction: the number of paid runs has no other bound,
\* and needs none.
THEOREM ClaimsAreAccountedFor ==
  ASSUME MaxRun <= StaleAfter
  PROVE  Spec => []AttemptsAccounted
<1>1. Init => TypeInv /\ IInv /\ ClaimsUndone
  BY TypeInvInit, IInvInit, ClaimsInit
<1>2. TypeInv /\ IInv /\ ClaimsUndone /\ [Next]_vars => (TypeInv /\ IInv /\ ClaimsUndone)'
  BY TypeInvStep, IInvStep, ClaimsStep
<1>3. TypeInv /\ ClaimsUndone => AttemptsAccounted
  <2>1. SUFFICES ASSUME TypeInv, ClaimsUndone, NEW g \in Gens
                 PROVE  job[g].attempts <= 1 + crashes + errors
    BY DEF AttemptsAccounted
  <2>2. job[g].attempts <= crashes + errors + (IF InUse(g) THEN 1 ELSE 0)
    BY <2>1 DEF ClaimsUndone
  <2>3. crashes \in Nat /\ errors \in Nat /\ job[g].attempts \in Nat
    BY <2>1 DEF TypeInv, TypeOK, JobRow
  <2> QED BY <2>2, <2>3
<1> QED BY <1>1, <1>2, <1>3, PTL DEF Spec

-------------------------------------------------------------------------------
(* The commits of create_generation.  For runs of any length: two instances     *)
(* that run one generation at once do not disturb this.                         *)

RunsHaveJobs ==
  \A i \in Instances : Working(i) => job[worker[i].gen].state # "absent"

\* What each of the commits leaves behind.
CommitsSoFar(g) ==
  CASE request[g].at = "none" -> job[g].state = "absent" /\ events[g] = <<>>
    [] request[g].at = "committed" -> events[g] = <<>>
    [] request[g].at = "recorded" -> events[g] # <<>> /\ events[g][1].stage = "queued"
    [] OTHER -> TRUE

CommitsInv ==
  /\ JobIsAnswered
  /\ RunsHaveJobs
  /\ CommitsInOrder
  /\ \A g \in Gens : CommitsSoFar(g)

LEMMA CommitsInit == Init => CommitsInv
<1> QED BY DEF Init, CommitsInv, JobIsAnswered, RunsHaveJobs, CommitsInOrder, CommitsSoFar,
           Resting, Working

\* A step that leaves requests, logs and the existence of jobs alone.
LEMMA CommitsUntouched ==
  ASSUME CommitsInv, UNCHANGED <<events, request>>,
         \A g \in Gens : job'[g].state = "absent" <=> job[g].state = "absent",
         \A g \in Gens : job[g].state = "absent" =>
           generation'[g].status = generation[g].status,
         RunsHaveJobs'
  PROVE  CommitsInv'
<1>1. \A g \in Gens : request'[g] = request[g] /\ events'[g] = events[g]
  OBVIOUS
<1>2. JobIsAnswered'
  BY <1>1 DEF CommitsInv, JobIsAnswered
<1>3. CommitsInOrder'
  BY <1>1 DEF CommitsInv, CommitsInOrder
<1>4. \A g \in Gens : CommitsSoFar(g)'
  BY <1>1 DEF CommitsInv, CommitsSoFar
<1> QED BY <1>2, <1>3, <1>4 DEF CommitsInv

\* Workers that work on what they worked on before have a job to show for it.
LEMMA RunsKeepJobs ==
  ASSUME RunsHaveJobs,
         \A g \in Gens : job[g].state # "absent" => job'[g].state # "absent",
         \A i \in Instances : Working(i)' =>
           /\ worker'[i].gen \in Gens
           /\ \/ Working(i) /\ worker'[i].gen = worker[i].gen
              \/ job[worker'[i].gen].state # "absent"
  PROVE  RunsHaveJobs'
<1> QED BY DEF RunsHaveJobs

LEMMA CommitsStep ==
  ASSUME TypeInv, TypeInv', CommitsInv, [Next]_vars
  PROVE  CommitsInv'
<1>a. /\ worker \in [Instances -> WorkerState] /\ job \in [Gens -> JobRow]
      /\ generation \in [Gens -> GenerationRow] /\ events \in [Gens -> Seq(EventRow)]
      /\ request \in [Gens -> RequestState]
      /\ \A i \in Instances : WellFormed(worker[i])
      /\ worker' \in [Instances -> WorkerState]
      /\ \A i \in Instances : WellFormed(worker'[i])
  BY DEF TypeInv, TypeOK
<1>b. /\ RunsHaveJobs /\ \A g \in Gens : CommitsSoFar(g)
      /\ \A g \in Gens : request[g].at = "answered" <=> job[g].state # "absent"
  BY DEF CommitsInv, JobIsAnswered
<1>c. ASSUME \A i \in Instances : Working(i)' => Runs(i, worker'[i].gen),
             \A g \in Gens : job[g].state # "absent" => job'[g].state # "absent"
      PROVE  RunsHaveJobs'
  BY <1>a, <1>b, <1>c, RunsKeepJobs DEF Runs, Working, WellFormed
<1>d. ASSUME Calm PROVE \A i \in Instances : Working(i)' => Runs(i, worker'[i].gen)
  BY <1>a, <1>d DEF Calm, Runs, Working, WellFormed
<1>e. ASSUME Calm PROVE RunsHaveJobs'
  BY <1>c, <1>d, <1>e DEF Calm
<1>1. ASSUME NEW i \in Instances, NEW g \in Gens, CreateGeneration(i, g)
      PROVE  CommitsInv'
  <2>1. /\ request[g].at = "none" /\ request'[g].at = "committed"
        /\ \A h \in Gens : h # g => request'[h] = request[h]
        /\ generation'[g].status = "queued"
        /\ \A h \in Gens : h # g => generation'[h] = generation[h]
        /\ UNCHANGED <<job, events>>
    BY <1>1, <1>a DEF CreateGeneration, GenerationRow
  <2>2. RunsHaveJobs'
    BY <1>1, <1>e, WithinIsCalm DEF Within
  <2>3. job[g].state = "absent" /\ events[g] = <<>>
    BY <2>1 DEF CommitsInv, CommitsSoFar
  <2>4. JobIsAnswered' /\ \A h \in Gens : CommitsSoFar(h)'
    BY <2>1, <2>3 DEF CommitsInv, JobIsAnswered, CommitsSoFar
  <2>5. CommitsInOrder'
    BY <2>1, <2>3 DEF CommitsInv, CommitsInOrder
  <2> QED BY <2>2, <2>4, <2>5 DEF CommitsInv
<1>2. ASSUME NEW g \in Gens, RecordQueued(g)
      PROVE  CommitsInv'
  <2>1. /\ request[g].at = "committed" /\ request'[g].at = "recorded"
        /\ \A h \in Gens : h # g => request'[h] = request[h] /\ events'[h] = events[h]
        /\ events'[g] = Append(events[g], [seq |-> LastSeq(g) + 1, stage |-> "queued"])
        /\ UNCHANGED <<job, generation>>
    BY <1>2, <1>a DEF RecordQueued, RequestState
  <2>2. RunsHaveJobs'
    BY <1>2, <1>e, WithinIsCalm DEF Within
  <2>3. events[g] = <<>> /\ job[g].state = "absent" /\ generation[g].status = "queued"
    BY <2>1 DEF CommitsInv, CommitsSoFar, CommitsInOrder
  <2>4. events'[g] # <<>> /\ events'[g][1].stage = "queued" /\ Len(events'[g]) = 1
    BY <2>1, <2>3
  <2>5. JobIsAnswered' /\ \A h \in Gens : CommitsSoFar(h)'
    BY <2>1, <2>3, <2>4 DEF CommitsInv, JobIsAnswered, CommitsSoFar
  <2>6. CommitsInOrder'
    <3>1. \A h \in Gens : h # g => request'[h] = request[h] /\ events'[h] = events[h]
      BY <2>1
    <3>2. Len(events'[g]) <= 1
      BY <2>4
    <3>3. job' = job /\ generation' = generation
      BY <2>1
    <3> QED BY <2>3, <3>1, <3>2, <3>3 DEF CommitsInv, CommitsInOrder
  <2> QED BY <2>2, <2>5, <2>6 DEF CommitsInv
<1>3. ASSUME NEW g \in Gens, Enqueue(g)
      PROVE  CommitsInv'
  <2>1. /\ request[g].at = "recorded" /\ request'[g].at = "answered"
        /\ \A h \in Gens : h # g => request'[h] = request[h] /\ job'[h] = job[h]
        /\ job'[g].state = "pending"
        /\ UNCHANGED <<generation, events, worker>>
    BY <1>3, <1>a DEF Enqueue, RequestState, JobRow
  <2>2. RunsHaveJobs'
    BY <2>1, <1>b, <1>a DEF RunsHaveJobs, Working, WellFormed
  <2>3. /\ events[g] # <<>> /\ events[g][1].stage = "queued" /\ Len(events[g]) <= 1
    BY <2>1 DEF CommitsInv, CommitsSoFar, CommitsInOrder
  <2>4. \A n \in DOMAIN events[g] : events[g][n].stage = "queued" <=> n = 1
    <3>1. events[g] \in Seq(EventRow)
      BY <1>a
    <3> QED BY <2>3, <3>1
  <2>5. JobIsAnswered' /\ \A h \in Gens : CommitsSoFar(h)'
    BY <2>1 DEF CommitsInv, JobIsAnswered, CommitsSoFar
  <2>6. CommitsInOrder'
    BY <2>1, <2>3, <2>4 DEF CommitsInv, CommitsInOrder
  <2> QED BY <2>2, <2>5, <2>6 DEF CommitsInv
<1>4. ASSUME NEW g \in Gens, DeleteGeneration(g)
      PROVE  CommitsInv'
  <2>1. UNCHANGED <<events, request, job>>
        /\ \A h \in Gens : generation'[h].status = generation[h].status
    BY <1>4, <1>a DEF DeleteGeneration, GenerationRow
  <2>2. RunsHaveJobs'
    BY <1>4, <1>e, WithinIsCalm DEF Within
  <2> QED BY <2>1, <2>2, CommitsUntouched
<1>5. ASSUME NEW i \in Instances, WriteEvent(i)
      PROVE  CommitsInv'
  <2> DEFINE g == worker[i].gen
             row == [seq |-> worker[i].last + 1, stage |-> worker[i].stage]
  <2>a. /\ g \in Gens /\ worker[i].last \in Nat /\ worker[i].stage \in Stages \ {"queued"}
        /\ worker[i].pc = "write" /\ job[g].state # "absent"
    BY <1>5, <1>a, <1>b DEF WriteEvent, WellFormed, WorkerState, Working, RunsHaveJobs
  <2>b. row.stage # "queued" /\ row \in EventRow
    BY <2>a DEF EventRow
  <2>c. /\ events' = [events EXCEPT ![g] = Append(@, row)]
        /\ UNCHANGED <<job, generation, request>>
    BY <1>5 DEF WriteEvent
  <2> HIDE DEF row
  <2>1. /\ g \in Gens /\ row.stage # "queued" /\ row \in EventRow
        /\ events'[g] = Append(events[g], row)
        /\ \A h \in Gens : h # g => events'[h] = events[h]
        /\ UNCHANGED <<job, generation, request>>
        /\ job[g].state # "absent"
    BY <1>a, <2>a, <2>b, <2>c
  <2>2. RunsHaveJobs'
    BY <1>5, <1>e, WithinIsCalm DEF Within
  <2>3. /\ events[g] # <<>>
        /\ \A n \in DOMAIN events[g] : events[g][n].stage = "queued" <=> n = 1
    BY <2>1 DEF CommitsInv, CommitsInOrder
  <2>4. /\ events'[g] # <<>>
        /\ \A n \in DOMAIN events'[g] : events'[g][n].stage = "queued" <=> n = 1
    <3>1. events[g] \in Seq(EventRow)
      BY <1>a, <2>1
    <3> QED BY <2>1, <2>3, <3>1
  <2>5. JobIsAnswered'
    BY <2>1 DEF CommitsInv, JobIsAnswered
  <2>6. CommitsInOrder'
    <3>1. ASSUME NEW h \in Gens, h # g
          PROVE  events'[h] = events[h] /\ job'[h] = job[h] /\ generation'[h] = generation[h]
                 /\ request'[h] = request[h]
      BY <2>1, <3>1
    <3>2. ASSUME NEW h \in Gens, h # g
          PROVE  /\ request'[h].at \in {"committed", "recorded", "lost"} =>
                      /\ job'[h].state = "absent"
                      /\ generation'[h].status = "queued"
                      /\ Len(events'[h]) <= 1
                 /\ job'[h].state # "absent" =>
                      /\ events'[h] # <<>>
                      /\ \A n \in DOMAIN events'[h] : events'[h][n].stage = "queued" <=> n = 1
      BY <3>1, <3>2 DEF CommitsInv, CommitsInOrder
    <3>3. ~ request'[g].at \in {"committed", "recorded", "lost"}
      BY <2>1 DEF CommitsInv, CommitsInOrder
    <3> QED BY <2>4, <3>2, <3>3 DEF CommitsInOrder
  <2>7. \A h \in Gens : CommitsSoFar(h)'
    BY <1>b, <2>1 DEF CommitsSoFar
  <2> QED BY <2>2, <2>5, <2>6, <2>7 DEF CommitsInv
<1>6. ASSUME NEW i \in Instances,
             \/ LoadDeleted(i) \/ LoadGeneration(i) \/ ReadLastSeq(i)
             \/ PipelineReturns(i) \/ PipelineRaises(i) \/ CommitResult(i)
      PROVE  CommitsInv'
  <2>1. UNCHANGED <<events, request, job>> /\ worker[i].gen \in Gens
        /\ job[worker[i].gen].state # "absent"
    BY <1>6, <1>a, <1>b DEF LoadDeleted, LoadGeneration, ReadLastSeq, PipelineReturns,
       PipelineRaises, CommitResult, WellFormed, RunsHaveJobs, Working
  <2>2. \A h \in Gens : h # worker[i].gen => generation'[h] = generation[h]
    BY <1>6, <1>a, <2>1 DEF LoadDeleted, LoadGeneration, ReadLastSeq, PipelineReturns,
       PipelineRaises, CommitResult
  <2>3. RunsHaveJobs'
    BY <1>6, <1>e, WithinIsCalm DEF Within
  <2> QED BY <2>1, <2>2, <2>3, CommitsUntouched
<1>7. ASSUME Tick
      PROVE  CommitsInv'
  <2>1. UNCHANGED <<events, request, generation>> /\ Calm
    BY <1>7, WithinIsCalm DEF Tick, Within
  <2> QED BY <2>1, <1>e, CommitsUntouched DEF Calm
<1>8. ASSUME NEW i \in Instances, NEW g \in Gens, Claim(i, g)
      PROVE  CommitsInv'
  <2>1. /\ UNCHANGED <<events, request, generation>>
        /\ job[g].state = "pending" /\ job'[g].state = "running"
        /\ \A h \in Gens : h # g => job'[h] = job[h]
    BY <1>8, <1>a DEF Claim
  <2>2. Goes(i, [Resting("load") EXCEPT !.gen = g]) /\ worker'[i].gen = g
    BY <1>8, <1>a DEF Claim, Goes, Resting
  <2>3. \A j \in Instances : j # i => worker'[j] = worker[j]
    BY <2>2, <1>a DEF Goes
  <2>4. RunsHaveJobs'
    <3>1. SUFFICES ASSUME NEW j \in Instances, Working(j)' PROVE job'[worker'[j].gen].state # "absent"
      BY DEF RunsHaveJobs
    <3>2. CASE j = i
      BY <2>1, <2>2, <3>2
    <3>3. CASE j # i
      <4>1. worker'[j] = worker[j] /\ Working(j) /\ worker[j].gen \in Gens
        BY <1>a, <2>3, <3>1, <3>3 DEF Working, WellFormed
      <4> QED BY <1>b, <2>1, <4>1 DEF RunsHaveJobs
    <3> QED BY <3>2, <3>3
  <2> QED BY <2>1, <2>4, CommitsUntouched
<1>9. ASSUME NEW i \in Instances, Finish(i) \/ LoopError(i) \/ Start(i)
      PROVE  CommitsInv'
  <2>1. Goes(i, Resting("idle")) /\ UNCHANGED <<events, request, generation>>
    BY <1>9 DEF Finish, LoopError, Start
  <2>2. \A j \in Instances : Working(j)' => Runs(j, worker'[j].gen)
    BY <1>a, <2>1 DEF Goes, Resting, Runs, Working
  <2>3. \A h \in Gens : job'[h].state = "absent" <=> job[h].state = "absent"
    <3>1. CASE Finish(i)
      <4>1. /\ worker[i].gen \in Gens /\ Verdict(worker[i]) # "absent"
            /\ job[worker[i].gen].state # "absent"
        BY <3>1, <1>a, <1>b DEF Finish, WellFormed, Verdict, RunsHaveJobs, Working
      <4>2. /\ job'[worker[i].gen].state = Verdict(worker[i])
            /\ \A h \in Gens : h # worker[i].gen => job'[h] = job[h]
        BY <3>1, <4>1, <1>a DEF Finish, JobRow
      <4> QED BY <4>1, <4>2
    <3>2. CASE LoopError(i)
      BY <3>2 DEF LoopError
    <3>3. CASE Start(i)
      <4>1. \A h \in Gens : job'[h].state = IF Stale(h) THEN "pending" ELSE job[h].state
        <5>1. \A h \in Gens : job'[h] = IF Stale(h) THEN [job[h] EXCEPT !.state = "pending", !.age = 0, !.by = None]
                               ELSE job[h]
          BY <3>3 DEF Start, Reclaimed
        <5>2. \A h \in Gens : "state" \in DOMAIN job[h]
          BY <1>a DEF JobRow
        <5> QED BY <5>1, <5>2
      <4> QED BY <4>1 DEF Stale
    <3> QED BY <1>9, <3>1, <3>2, <3>3
  <2> QED BY <2>1, <2>2, <2>3, <1>c, CommitsUntouched
<1>10. ASSUME NEW i \in Instances, Crash(i)
       PROVE  CommitsInv'
  <2>1. /\ Goes(i, Resting("down")) /\ UNCHANGED <<events, job, generation>>
        /\ \A g \in Gens :
             \/ request'[g] = request[g]
             \/ request[g].at \in {"committed", "recorded"} /\ request'[g].at = "lost"
    BY <1>10, <1>a DEF Crash, RequestState
  <2>2. \A j \in Instances : Working(j)' => Runs(j, worker'[j].gen)
    BY <1>a, <2>1 DEF Goes, Resting, Runs, Working
  <2>3. RunsHaveJobs'
    BY <2>1, <2>2, <1>c
  <2>4. JobIsAnswered' /\ \A g \in Gens : CommitsSoFar(g)'
    BY <2>1 DEF CommitsInv, JobIsAnswered, CommitsSoFar
  <2>5. CommitsInOrder'
    BY <2>1 DEF CommitsInv, CommitsInOrder
  <2> QED BY <2>3, <2>4, <2>5 DEF CommitsInv
<1>11. CASE UNCHANGED vars
  BY <1>11 DEF vars, CommitsInv, JobIsAnswered, RunsHaveJobs, CommitsInOrder, CommitsSoFar,
     Working
<1> QED BY <1>1, <1>2, <1>3, <1>4, <1>5, <1>6, <1>7, <1>8, <1>9, <1>10, <1>11, StepKinds
        DEF Within

\* A POST that dies between its commits leaves a queued row that no worker ever
\* touches, and every log of a job begins with the "queued" event, for runs of
\* any length and any crashes.
THEOREM CommitsAreInOrder == Spec => []CommitsInOrder
<1>1. Init => TypeInv /\ CommitsInv
  BY TypeInvInit, CommitsInit
<1>2. TypeInv /\ CommitsInv /\ [Next]_vars => (TypeInv /\ CommitsInv)'
  BY TypeInvStep, CommitsStep
<1>3. CommitsInv => CommitsInOrder
  BY DEF CommitsInv
<1> QED BY <1>1, <1>2, <1>3, PTL DEF Spec

-------------------------------------------------------------------------------
(* Results.  Every run that has not stored its result yet stands for a claim    *)
(* that has none, and every run that is about to announce completion for a      *)
(* stored result that is not announced.  This counts whatever runs there are,   *)
(* also several of one job.                                                     *)

\* A loop that runs g and has not come to an end of it.
Owes(w, g) ==
  /\ w.gen = g
  /\ \/ w.pc \in {"load", "pipeline", "commit"}
     \/ w.pc \in {"read", "write"} /\ w.stage \in {"parse_resume", "pipeline"}
Owing(g) == {i \in Instances : Owes(worker[i], g)}

\* A loop that has stored g's result and not announced it.
Tells(w, g) == w.gen = g /\ w.pc \in {"read", "write"} /\ w.stage = "completed"
Telling(g) == {i \in Instances : Tells(worker[i], g)}

Balanced(g) ==
  /\ IsFiniteSet(Owing(g)) /\ IsFiniteSet(Telling(g))
  /\ generation[g].gaps + Cardinality(Owing(g)) <= job[g].attempts
  /\ Announced(g) + Cardinality(Telling(g)) <= generation[g].gaps

ResultsBalance == \A g \in Gens : Balanced(g)

\* A log's announcements are finitely many.
LEMMA AnnouncedType ==
  ASSUME NEW log \in Seq(EventRow)
  PROVE  LET told == {n \in DOMAIN log : log[n].stage = "completed"}
         IN  IsFiniteSet(told) /\ Cardinality(told) \in Nat
<1> DEFINE told == {n \in DOMAIN log : log[n].stage = "completed"}
<1>1. DOMAIN log = 1..Len(log) /\ Len(log) \in Nat
  OBVIOUS
<1>2. IsFiniteSet(1..Len(log))
  BY <1>1, FS_Interval
<1>3. told \in SUBSET (1..Len(log))
  BY <1>1
<1>4. IsFiniteSet(told)
  BY <1>2, <1>3, FS_Subset
<1> QED BY <1>4, FS_CardinalityType

\* One more announcement, if the row announces completion.
LEMMA AnnouncedGrows ==
  ASSUME NEW log \in Seq(EventRow), NEW row \in EventRow
  PROVE  Cardinality({n \in DOMAIN Append(log, row) : Append(log, row)[n].stage = "completed"})
           = Cardinality({n \in DOMAIN log : log[n].stage = "completed"})
               + (IF row.stage = "completed" THEN 1 ELSE 0)
<1> DEFINE told == {n \in DOMAIN log : log[n].stage = "completed"}
           new == {n \in DOMAIN Append(log, row) : Append(log, row)[n].stage = "completed"}
<1>1. /\ DOMAIN log = 1..Len(log) /\ Len(log) \in Nat
      /\ DOMAIN Append(log, row) = 1..(Len(log) + 1)
      /\ \A n \in 1..Len(log) : Append(log, row)[n] = log[n]
      /\ Append(log, row)[Len(log) + 1] = row
  OBVIOUS
<1>2. new = IF row.stage = "completed" THEN told \cup {Len(log) + 1} ELSE told
  BY <1>1
<1>3. Len(log) + 1 \notin told
  BY <1>1
<1>4. IsFiniteSet(told) /\ Cardinality(told) \in Nat
  BY AnnouncedType
<1> HIDE DEF told, new
<1>5. Cardinality(told \cup {Len(log) + 1}) = Cardinality(told) + 1
  BY <1>3, <1>4, FS_AddElement
<1>6. Cardinality(new) = Cardinality(told) + (IF row.stage = "completed" THEN 1 ELSE 0)
  BY <1>2, <1>4, <1>5
<1> QED BY <1>6 DEF told, new

\* What a loop's step does to a set of loops.
LEMMA OneMember ==
  ASSUME NEW S, IsFiniteSet(S), NEW T, NEW i,
         \A j : j # i => (j \in T <=> j \in S)
  PROVE  /\ IsFiniteSet(T) /\ Cardinality(S) \in Nat /\ Cardinality(T) \in Nat
         /\ i \in S /\ i \notin T => Cardinality(T) = Cardinality(S) - 1
         /\ i \notin S /\ i \in T => Cardinality(T) = Cardinality(S) + 1
         /\ (i \in S <=> i \in T) => Cardinality(T) = Cardinality(S)
         /\ (i \in T => i \in S) => Cardinality(T) <= Cardinality(S)
<1>1. CASE i \in S <=> i \in T
  <2>1. S = T
    BY <1>1
  <2> QED BY <2>1, <1>1, FS_CardinalityType
<1>2. CASE i \in S /\ i \notin T
  <2>1. T = S \ {i}
    BY <1>2
  <2>2. IsFiniteSet(T) /\ Cardinality(T) = Cardinality(S) - 1
    BY <2>1, <1>2, FS_RemoveElement
  <2>3. Cardinality(S) \in Nat /\ Cardinality(T) \in Nat
    BY <2>2, FS_CardinalityType
  <2> QED BY <1>2, <2>2, <2>3
<1>3. CASE i \notin S /\ i \in T
  <2>1. T = S \cup {i}
    BY <1>3
  <2>2. IsFiniteSet(T) /\ Cardinality(T) = Cardinality(S) + 1
    BY <2>1, <1>3, FS_AddElement
  <2>3. Cardinality(S) \in Nat /\ Cardinality(T) \in Nat
    BY <2>2, FS_CardinalityType
  <2> QED BY <1>3, <2>2, <2>3
<1> QED BY <1>1, <1>2, <1>3

\* The members that a step of loop i may change.
LEMMA OthersOweAsBefore ==
  ASSUME worker \in [Instances -> WorkerState], NEW i \in Instances, NEW w, Goes(i, w), NEW g
  PROVE  /\ \A j : j # i => (j \in Owing(g)' <=> j \in Owing(g))
         /\ \A j : j # i => (j \in Telling(g)' <=> j \in Telling(g))
         /\ i \in Owing(g)' <=> Owes(w, g)
         /\ i \in Telling(g)' <=> Tells(w, g)
         /\ i \in Owing(g) <=> Owes(worker[i], g)
         /\ i \in Telling(g) <=> Tells(worker[i], g)
<1>1. worker'[i] = w /\ \A j \in Instances : j # i => worker'[j] = worker[j]
  BY DEF Goes
<1> QED BY <1>1 DEF Owing, Telling, Owes, Tells

Tally(b) == IF b THEN 1 ELSE 0

\* A loop's step balances if it claims for what it begins to owe, and stores for
\* what it begins to tell.
LEMMA LoopBalances ==
  ASSUME TypeInv, NEW g \in Gens, Balanced(g), NEW i \in Instances, NEW w, Goes(i, w),
         NEW a \in {0, 1}, NEW b \in {0, 1}, NEW c \in {0, 1},
         job'[g].attempts = job[g].attempts + a,
         generation'[g].gaps = generation[g].gaps + b,
         Announced(g)' = Announced(g) + c,
         Tally(Owes(w, g)) + b <= Tally(Owes(worker[i], g)) + a,
         Tally(Tells(w, g)) + c <= Tally(Tells(worker[i], g)) + b
  PROVE  Balanced(g)'
<1>1. PICK n \in Nat, m \in Nat, k \in Nat :
        n = job[g].attempts /\ m = generation[g].gaps /\ k = Announced(g)
  <2>1. job[g].attempts \in Nat /\ generation[g].gaps \in Nat /\ events[g] \in Seq(EventRow)
    BY DEF TypeInv, TypeOK, JobRow, GenerationRow
  <2>2. Announced(g) \in Nat
    BY <2>1, AnnouncedType DEF Announced
  <2> QED BY <2>1, <2>2
<1>2. PICK o \in {0, 1}, o2 \in {0, 1}, t \in {0, 1}, t2 \in {0, 1} :
        /\ o = Tally(Owes(worker[i], g)) /\ o2 = Tally(Owes(w, g))
        /\ t = Tally(Tells(worker[i], g)) /\ t2 = Tally(Tells(w, g))
  BY DEF Tally
<1>3. worker \in [Instances -> WorkerState]
  BY DEF TypeInv, TypeOK
<1>4. PICK S, T : S = Owing(g) /\ T = Owing(g)'
  OBVIOUS
<1>5. /\ IsFiniteSet(S) /\ \A j : j # i => (j \in T <=> j \in S)
      /\ i \in T <=> Owes(w, g)
      /\ i \in S <=> Owes(worker[i], g)
  BY <1>3, <1>4, OthersOweAsBefore DEF Balanced
<1>6. /\ IsFiniteSet(T) /\ Cardinality(S) \in Nat /\ Cardinality(T) \in Nat
      /\ Cardinality(T) + o = Cardinality(S) + o2
  BY <1>2, <1>5, OneMember DEF Tally
<1>7. PICK U, V : U = Telling(g) /\ V = Telling(g)'
  OBVIOUS
<1>8. /\ IsFiniteSet(U) /\ \A j : j # i => (j \in V <=> j \in U)
      /\ i \in V <=> Tells(w, g)
      /\ i \in U <=> Tells(worker[i], g)
  BY <1>3, <1>7, OthersOweAsBefore DEF Balanced
<1>9. /\ IsFiniteSet(V) /\ Cardinality(U) \in Nat /\ Cardinality(V) \in Nat
      /\ Cardinality(V) + t = Cardinality(U) + t2
  BY <1>2, <1>8, OneMember DEF Tally
<1>10. m + Cardinality(S) <= n /\ k + Cardinality(U) <= m
  BY <1>1, <1>4, <1>7 DEF Balanced
<1>11. o2 + b <= o + a /\ t2 + c <= t + b
  BY <1>2
<1>12. m + b + Cardinality(T) <= n + a /\ k + c + Cardinality(V) <= m + b
  BY <1>6, <1>9, <1>10, <1>11
<1>13. job'[g].attempts = n + a /\ generation'[g].gaps = m + b /\ Announced(g)' = k + c
  BY <1>1
<1> QED BY <1>4, <1>6, <1>7, <1>9, <1>12, <1>13 DEF Balanced

\* As long as no loop begins to owe or to tell, nothing that is counted changes hands.
LEMMA LoopRests ==
  ASSUME TypeInv, ResultsBalance, NEW i \in Instances, NEW w, Goes(i, w),
         \A g \in Gens : /\ job'[g].attempts = job[g].attempts
                         /\ generation'[g].gaps = generation[g].gaps
                         /\ Announced(g)' = Announced(g)
                         /\ Owes(w, g) => Owes(worker[i], g)
                         /\ Tells(w, g) => Tells(worker[i], g)
  PROVE  ResultsBalance'
<1> SUFFICES ASSUME NEW g \in Gens PROVE Balanced(g)'
  BY DEF ResultsBalance
<1>1. Balanced(g)
  BY DEF ResultsBalance
<1>2. /\ Tally(Owes(w, g)) + 0 <= Tally(Owes(worker[i], g)) + 0
      /\ Tally(Tells(w, g)) + 0 <= Tally(Tells(worker[i], g)) + 0
  BY DEF Tally
<1>3. events[g] \in Seq(EventRow) /\ job[g].attempts \in Nat /\ generation[g].gaps \in Nat
  BY DEF TypeInv, TypeOK, JobRow, GenerationRow
<1>4. Announced(g) \in Nat
  BY <1>3, AnnouncedType DEF Announced
<1>5. /\ job'[g].attempts = job[g].attempts + 0 /\ generation'[g].gaps = generation[g].gaps + 0
      /\ Announced(g)' = Announced(g) + 0
  BY <1>3, <1>4
<1> QED BY <1>1, <1>2, <1>5, LoopBalances

\* A step of handlers or of time counts nothing.
LEMMA NobodyMoves ==
  ASSUME ResultsBalance,
         \A j \in Instances : /\ worker'[j].pc = worker[j].pc /\ worker'[j].gen = worker[j].gen
                              /\ worker'[j].stage = worker[j].stage,
         \A g \in Gens : /\ job'[g].attempts = job[g].attempts
                         /\ generation'[g].gaps = generation[g].gaps
                         /\ Announced(g)' = Announced(g)
  PROVE  ResultsBalance'
<1> SUFFICES ASSUME NEW g \in Gens PROVE Balanced(g)'
  BY DEF ResultsBalance
<1>1. Owing(g)' = Owing(g) /\ Telling(g)' = Telling(g)
  BY DEF Owing, Telling, Owes, Tells
<1>2. Balanced(g)
  BY DEF ResultsBalance
<1> QED BY <1>1, <1>2 DEF Balanced

LEMMA BalanceInit == Init => ResultsBalance
<1> SUFFICES ASSUME Init, NEW g \in Gens PROVE Balanced(g)
  BY DEF ResultsBalance
<1>1. Owing(g) = {} /\ Telling(g) = {}
  BY DEF Init, Owing, Telling, Owes, Tells, Resting
<1>2. {n \in DOMAIN events[g] : events[g][n].stage = "completed"} = {}
  BY DEF Init
<1>3. generation[g].gaps = 0 /\ job[g].attempts = 0
  BY DEF Init
<1>4. Announced(g) = 0
  BY <1>2, FS_EmptySet DEF Announced
<1>5. IsFiniteSet({}) /\ Cardinality({}) = 0
  BY FS_EmptySet
<1> QED BY <1>1, <1>3, <1>4, <1>5 DEF Balanced

LEMMA BalanceStep ==
  ASSUME TypeInv, ResultsBalance, [Next]_vars
  PROVE  ResultsBalance'
<1>a. /\ worker \in [Instances -> WorkerState] /\ job \in [Gens -> JobRow]
      /\ generation \in [Gens -> GenerationRow] /\ events \in [Gens -> Seq(EventRow)]
      /\ \A i \in Instances : WellFormed(worker[i])
  BY DEF TypeInv, TypeOK
<1>b. ASSUME UNCHANGED events PROVE \A g \in Gens : Announced(g)' = Announced(g)
  BY <1>b DEF Announced
<1>c. ASSUME NEW i \in Instances, NEW w, Goes(i, w), UNCHANGED events,
             \A g \in Gens : /\ job'[g].attempts = job[g].attempts
                             /\ generation'[g].gaps = generation[g].gaps
                             /\ Owes(w, g) => Owes(worker[i], g)
                             /\ Tells(w, g) => Tells(worker[i], g)
      PROVE  ResultsBalance'
  BY <1>b, <1>c, LoopRests
<1>1. ASSUME NEW i \in Instances, NEW g \in Gens, Claim(i, g)
      PROVE  ResultsBalance'
  <2> DEFINE w == [Resting("load") EXCEPT !.gen = g]
  <2>1. w.pc = "load" /\ w.gen = g
    BY DEF Resting
  <2>2. Goes(i, w) /\ worker[i].pc = "idle" /\ UNCHANGED <<generation, events>>
    BY <1>1 DEF Claim
  <2>3. job'[g].attempts = job[g].attempts + 1 /\ \A h \in Gens : h # g => job'[h] = job[h]
    BY <1>1, <1>a DEF Claim
  <2> HIDE DEF w
  <2> SUFFICES ASSUME NEW h \in Gens PROVE Balanced(h)'
    BY DEF ResultsBalance
  <2>4. PICK a \in {0, 1} : a = Tally(h = g)
    BY DEF Tally
  <2>5. /\ Tally(Owes(w, h)) + 0 <= Tally(Owes(worker[i], h)) + a
        /\ Tally(Tells(w, h)) + 0 <= Tally(Tells(worker[i], h)) + 0
    BY <2>1, <2>2, <2>4 DEF Owes, Tells, Tally
  <2>6. job[h].attempts \in Nat /\ generation[h].gaps \in Nat /\ events[h] \in Seq(EventRow)
    BY <1>a DEF JobRow, GenerationRow
  <2>7. Announced(h) \in Nat
    BY <2>6, AnnouncedType DEF Announced
  <2>8. Announced(h)' = Announced(h) + 0 /\ generation'[h].gaps = generation[h].gaps + 0
    BY <1>b, <2>2, <2>6, <2>7
  <2>9. job'[h].attempts = job[h].attempts + a
    BY <2>3, <2>4, <2>6 DEF Tally
  <2> QED BY <2>2, <2>5, <2>8, <2>9, LoopBalances DEF ResultsBalance
<1>2. ASSUME NEW i \in Instances, LoadDeleted(i)
      PROVE  ResultsBalance'
  <2> DEFINE w == [worker[i] EXCEPT !.pc = "finish"]
  <2>1. Goes(i, w) /\ UNCHANGED <<generation, job, events>>
    BY <1>2 DEF LoadDeleted
  <2>2. \A g \in Gens : ~Owes(w, g) /\ ~Tells(w, g)
    BY <1>a DEF WorkerState, Owes, Tells
  <2> QED BY <1>c, <2>1, <2>2
<1>3. ASSUME NEW i \in Instances, LoadGeneration(i)
      PROVE  ResultsBalance'
  <2> DEFINE w == [worker[i] EXCEPT !.pc = "read", !.stage = "parse_resume",
                                    !.base = generation[worker[i].gen].tailored]
  <2>1. Goes(i, w) /\ UNCHANGED <<job, events>> /\ worker[i].pc = "load" /\ worker[i].gen \in Gens
    BY <1>3, <1>a DEF LoadGeneration, WellFormed
  <2>2. \A g \in Gens : generation'[g].gaps = generation[g].gaps
    BY <1>3, <1>a, <2>1 DEF LoadGeneration, GenerationRow
  <2>3. \A g \in Gens : /\ Owes(w, g) => Owes(worker[i], g)
                        /\ ~Tells(w, g)
    BY <1>a, <2>1 DEF WorkerState, Owes, Tells
  <2> QED BY <1>c, <2>1, <2>2, <2>3
<1>4. ASSUME NEW i \in Instances, ReadLastSeq(i)
      PROVE  ResultsBalance'
  <2> DEFINE w == [worker[i] EXCEPT !.pc = "write", !.last = LastSeq(worker[i].gen)]
  <2>1. Goes(i, w) /\ UNCHANGED <<job, generation, events>> /\ worker[i].pc = "read"
    BY <1>4 DEF ReadLastSeq
  <2>2. \A g \in Gens : /\ Owes(w, g) => Owes(worker[i], g)
                        /\ Tells(w, g) => Tells(worker[i], g)
    BY <1>a, <2>1 DEF WorkerState, Owes, Tells
  <2> QED BY <1>c, <2>1, <2>2
<1>5. ASSUME NEW i \in Instances, WriteEvent(i)
      PROVE  ResultsBalance'
  <2> DEFINE row == [seq |-> worker[i].last + 1, stage |-> worker[i].stage]
             w == [worker[i] EXCEPT !.pc = PcAfter(worker[i]), !.recorded = @ + 1]
  <2>0. PICK g \in Gens : g = worker[i].gen
    BY <1>5, <1>a DEF WriteEvent, WellFormed
  <2>1. /\ Goes(i, w) /\ UNCHANGED <<job, generation>> /\ worker[i].pc = "write"
        /\ events' = [events EXCEPT ![g] = Append(@, row)]
    BY <1>5, <2>0 DEF WriteEvent
  <2>2. /\ g \in Gens /\ row \in EventRow /\ row.stage = worker[i].stage
        /\ worker[i].stage \in Stages \ {"queued"}
    <3>1. g \in Gens /\ worker[i].stage \in Stages \ {"queued"}
      BY <1>a, <2>1 DEF WellFormed
    <3>2. worker[i].last + 1 \in Nat
      BY <1>a DEF WorkerState
    <3> QED BY <3>1, <3>2 DEF EventRow
  <2>3. /\ w.gen = g /\ w.stage = worker[i].stage
        /\ w.pc = PcAfter(worker[i])
    BY <1>a, <2>0 DEF WorkerState
  <2>4. /\ worker[i].stage = "parse_resume" => PcAfter(worker[i]) = "pipeline"
        /\ worker[i].stage = "pipeline" => PcAfter(worker[i]) \in {"read", "commit"}
        /\ worker[i].stage \in {"failed", "completed"} => PcAfter(worker[i]) = "finish"
    BY DEF PcAfter
  <2>5. /\ events'[g] = Append(events[g], row) /\ events[g] \in Seq(EventRow)
        /\ \A h \in Gens : h # g => events'[h] = events[h]
    BY <1>a, <2>1, <2>2
  <2> HIDE DEF row, w
  <2>6. Announced(g)' = Announced(g) + Tally(row.stage = "completed")
    <3>1. PICK log \in Seq(EventRow) : log = events[g]
      BY <2>5
    <3>2. events'[g] = Append(log, row)
      BY <2>5, <3>1
    <3>3. Cardinality({n \in DOMAIN Append(log, row) : Append(log, row)[n].stage = "completed"})
            = Cardinality({n \in DOMAIN log : log[n].stage = "completed"}) + Tally(row.stage = "completed")
      BY <2>2, AnnouncedGrows DEF Tally
    <3> QED BY <3>1, <3>2, <3>3 DEF Announced
  <2> SUFFICES ASSUME NEW h \in Gens PROVE Balanced(h)'
    BY DEF ResultsBalance
  <2>7. PICK c \in {0, 1} : c = Tally(h = g /\ worker[i].stage = "completed")
    BY DEF Tally
  <2>8. Tally(Owes(w, h)) + 0 <= Tally(Owes(worker[i], h)) + 0
    BY <2>0, <2>1, <2>2, <2>3, <2>4 DEF Owes, Tally, Stages
  <2>9. Tally(Tells(w, h)) + c <= Tally(Tells(worker[i], h)) + 0
    BY <2>0, <2>1, <2>2, <2>3, <2>4, <2>7 DEF Tells, Tally, Stages
  <2>10. job[h].attempts \in Nat /\ generation[h].gaps \in Nat /\ events[h] \in Seq(EventRow)
    BY <1>a DEF JobRow, GenerationRow
  <2>11. Announced(h) \in Nat
    BY <2>10, AnnouncedType DEF Announced
  <2>12. h # g => Announced(h)' = Announced(h)
    BY <2>5 DEF Announced
  <2>13. Announced(h)' = Announced(h) + c
    <3>1. CASE h = g
      BY <2>2, <2>6, <2>7, <3>1
    <3>2. CASE h # g
      BY <2>7, <2>11, <2>12, <3>2 DEF Tally
    <3> QED BY <3>1, <3>2
  <2>14. job'[h].attempts = job[h].attempts + 0 /\ generation'[h].gaps = generation[h].gaps + 0
    BY <2>1, <2>10
  <2> QED BY <2>1, <2>8, <2>9, <2>13, <2>14, LoopBalances DEF ResultsBalance
<1>6. ASSUME NEW i \in Instances, PipelineReturns(i)
      PROVE  ResultsBalance'
  <2> DEFINE w == [worker[i] EXCEPT !.pc = "read", !.stage = "pipeline"]
  <2>1. Goes(i, w) /\ UNCHANGED <<job, generation, events>> /\ worker[i].pc = "pipeline"
    BY <1>6 DEF PipelineReturns
  <2>2. \A g \in Gens : /\ Owes(w, g) => Owes(worker[i], g)
                        /\ ~Tells(w, g)
    BY <1>a, <2>1 DEF WorkerState, Owes, Tells
  <2> QED BY <1>c, <2>1, <2>2
<1>7. ASSUME NEW i \in Instances, PipelineRaises(i)
      PROVE  ResultsBalance'
  <2> DEFINE w == [worker[i] EXCEPT !.pc = "read", !.stage = "failed"]
  <2>1. Goes(i, w) /\ UNCHANGED <<job, events>> /\ worker[i].gen \in Gens
    BY <1>7, <1>a DEF PipelineRaises, WellFormed
  <2>2. \A g \in Gens : generation'[g].gaps = generation[g].gaps
    BY <1>7, <1>a, <2>1 DEF PipelineRaises, GenerationRow
  <2>3. \A g \in Gens : ~Owes(w, g) /\ ~Tells(w, g)
    BY <1>a DEF WorkerState, Owes, Tells
  <2> QED BY <1>c, <2>1, <2>2, <2>3
<1>8. ASSUME NEW i \in Instances, CommitResult(i)
      PROVE  ResultsBalance'
  <2> DEFINE w == [worker[i] EXCEPT !.pc = "read", !.stage = "completed"]
             g == worker[i].gen
  <2>1. Goes(i, w) /\ UNCHANGED <<job, events>> /\ g \in Gens /\ worker[i].pc = "commit"
    BY <1>8, <1>a DEF CommitResult, WellFormed
  <2>2. w.pc = "read" /\ w.stage = "completed" /\ w.gen = g
    BY <1>a DEF WorkerState
  <2>3. /\ generation'[g].gaps = generation[g].gaps + 1
        /\ \A h \in Gens : h # g => generation'[h] = generation[h]
    BY <1>8, <1>a, <2>1 DEF CommitResult, GenerationRow
  <2> HIDE DEF w
  <2> SUFFICES ASSUME NEW h \in Gens PROVE Balanced(h)'
    BY DEF ResultsBalance
  <2>4. PICK b \in {0, 1} : b = Tally(h = g)
    BY DEF Tally
  <2>5. /\ Tally(Owes(w, h)) + b <= Tally(Owes(worker[i], h)) + 0
        /\ Tally(Tells(w, h)) + 0 <= Tally(Tells(worker[i], h)) + b
    BY <2>1, <2>2, <2>4 DEF Owes, Tells, Tally
  <2>6. job[h].attempts \in Nat /\ generation[h].gaps \in Nat /\ events[h] \in Seq(EventRow)
    BY <1>a DEF JobRow, GenerationRow
  <2>7. Announced(h) \in Nat
    BY <2>6, AnnouncedType DEF Announced
  <2>8. Announced(h)' = Announced(h) + 0 /\ job'[h].attempts = job[h].attempts + 0
    BY <1>b, <2>1, <2>6, <2>7
  <2>9. generation'[h].gaps = generation[h].gaps + b
    BY <2>3, <2>4, <2>6 DEF Tally
  <2> QED BY <2>1, <2>5, <2>8, <2>9, LoopBalances DEF ResultsBalance
<1>9. ASSUME NEW i \in Instances, Finish(i)
      PROVE  ResultsBalance'
  <2>1. Goes(i, Resting("idle")) /\ UNCHANGED <<generation, events>> /\ worker[i].gen \in Gens
    BY <1>9, <1>a DEF Finish, WellFormed
  <2>2. \A g \in Gens : job'[g].attempts = job[g].attempts
    BY <1>9, <1>a, <2>1 DEF Finish, JobRow
  <2>3. \A g \in Gens : ~Owes(Resting("idle"), g) /\ ~Tells(Resting("idle"), g)
    BY DEF Resting, Owes, Tells
  <2> QED BY <1>c, <2>1, <2>2, <2>3
<1>10. ASSUME NEW i \in Instances, LoopError(i) \/ Crash(i) \/ Start(i)
      PROVE  ResultsBalance'
  <2>1. PICK pc \in {"idle", "down"} : Goes(i, Resting(pc)) /\ UNCHANGED <<generation, events>>
    BY <1>10 DEF LoopError, Crash, Start
  <2>2. \A g \in Gens : job'[g].attempts = job[g].attempts
    <3>1. CASE LoopError(i) \/ Crash(i)
      BY <3>1 DEF LoopError, Crash
    <3>2. CASE Start(i)
      BY <3>2, <1>a DEF Start, Reclaimed, JobRow
    <3> QED BY <1>10, <3>1, <3>2
  <2>3. \A g \in Gens : ~Owes(Resting(pc), g) /\ ~Tells(Resting(pc), g)
    BY DEF Resting, Owes, Tells
  <2> QED BY <1>c, <2>1, <2>2, <2>3
<1>11. ASSUME UNCHANGED <<worker, events>>,
              \A g \in Gens : /\ job'[g].attempts = job[g].attempts
                              /\ generation'[g].gaps = generation[g].gaps
       PROVE  ResultsBalance'
  BY <1>11, <1>b, NobodyMoves
<1>12. ASSUME NEW g \in Gens, NEW i \in Instances, CreateGeneration(i, g)
       PROVE  ResultsBalance'
  <2>1. \A h \in Gens : generation'[h].gaps = generation[h].gaps
    BY <1>12, <1>a DEF CreateGeneration, GenerationRow
  <2> QED BY <1>11, <1>12, <2>1 DEF CreateGeneration
<1>16. ASSUME NEW g \in Gens, Enqueue(g)
       PROVE  ResultsBalance'
  <2>1. \A h \in Gens : job'[h].attempts = job[h].attempts
    BY <1>16, <1>a DEF Enqueue, JobRow
  <2> QED BY <1>11, <1>16, <2>1 DEF Enqueue
<1>17. ASSUME NEW g \in Gens, DeleteGeneration(g)
       PROVE  ResultsBalance'
  <2>1. \A h \in Gens : generation'[h].gaps = generation[h].gaps
    BY <1>17, <1>a DEF DeleteGeneration, GenerationRow
  <2> QED BY <1>11, <1>17, <2>1 DEF DeleteGeneration
<1>13. ASSUME NEW g \in Gens, RecordQueued(g)
       PROVE  ResultsBalance'
  <2> DEFINE row == [seq |-> LastSeq(g) + 1, stage |-> "queued"]
  <2>1. /\ events' = [events EXCEPT ![g] = Append(@, row)]
        /\ UNCHANGED <<generation, job, worker>>
    BY <1>13 DEF RecordQueued
  <2>2. row \in EventRow /\ row.stage = "queued"
    <3>1. LastSeq(g) \in 0..Len(events[g]) /\ Len(events[g]) \in Nat
      BY <1>a, LastSeqBounded DEF TypeInv
    <3>2. LastSeq(g) + 1 \in Nat
      BY <3>1
    <3> QED BY <3>2 DEF EventRow, Stages
  <2>3. /\ events'[g] = Append(events[g], row) /\ events[g] \in Seq(EventRow)
        /\ \A h \in Gens : h # g => events'[h] = events[h]
    BY <1>a, <2>1
  <2> HIDE DEF row
  <2>4. Announced(g)' = Announced(g) + 0
    <3>1. Cardinality({n \in DOMAIN Append(events[g], row) : Append(events[g], row)[n].stage = "completed"})
            = Announced(g) + 0
      BY <2>2, <2>3, AnnouncedGrows DEF Announced
    <3> QED BY <2>3, <3>1 DEF Announced
  <2>5. Announced(g) \in Nat
    BY <2>3, AnnouncedType DEF Announced
  <2>6. \A h \in Gens : Announced(h)' = Announced(h)
    <3> SUFFICES ASSUME NEW h \in Gens PROVE Announced(h)' = Announced(h)
      OBVIOUS
    <3>1. CASE h = g
      BY <2>4, <2>5, <3>1
    <3>2. CASE h # g
      BY <2>3, <3>2 DEF Announced
    <3> QED BY <3>1, <3>2
  <2> QED BY <2>1, <2>6, NobodyMoves
<1>14. CASE Tick
  <2>1. /\ \A i \in Instances : /\ worker'[i].pc = worker[i].pc /\ worker'[i].gen = worker[i].gen
                                /\ worker'[i].stage = worker[i].stage
        /\ UNCHANGED <<generation, events>>
    BY <1>14, <1>a DEF Tick, WorkerState
  <2>2. \A g \in Gens : job'[g].attempts = job[g].attempts
    BY <1>14, <1>a DEF Tick, JobRow
  <2> QED BY <1>b, <2>1, <2>2, NobodyMoves
<1>15. CASE UNCHANGED vars
  BY <1>11, <1>15 DEF vars
<1> QED BY <1>1, <1>2, <1>3, <1>4, <1>5, <1>6, <1>7, <1>8, <1>9, <1>10, <1>12, <1>13, <1>14, <1>15,
        <1>16, <1>17 DEF Next, QueueStep, Handler, WorkerStep

\* Every claim stores one result at most, and completion is announced once at most for
\* every result that is stored: for runs of any length, so also when two instances run one
\* job at once, and through any crashes, failed transactions and restarts.
THEOREM ResultsAreAccountedFor == Spec => []OneResultPerClaim
<1>1. Init => TypeInv /\ ResultsBalance
  BY TypeInvInit, BalanceInit
<1>2. TypeInv /\ ResultsBalance /\ [Next]_vars => (TypeInv /\ ResultsBalance)'
  BY TypeInvStep, BalanceStep
<1>3. TypeInv /\ ResultsBalance => OneResultPerClaim
  <2> SUFFICES ASSUME TypeInv, ResultsBalance, NEW g \in Gens
               PROVE  Announced(g) <= generation[g].gaps /\ generation[g].gaps <= job[g].attempts
    BY DEF OneResultPerClaim
  <2>1. job[g].attempts \in Nat /\ generation[g].gaps \in Nat /\ events[g] \in Seq(EventRow)
    BY DEF TypeInv, TypeOK, JobRow, GenerationRow
  <2>2. Announced(g) \in Nat
    BY <2>1, AnnouncedType DEF Announced
  <2>3. Cardinality(Owing(g)) \in Nat /\ Cardinality(Telling(g)) \in Nat
    BY FS_CardinalityType DEF ResultsBalance, Balanced
  <2> QED BY <2>1, <2>2, <2>3 DEF ResultsBalance, Balanced
<1> QED BY <1>1, <1>2, <1>3, PTL DEF Spec

-------------------------------------------------------------------------------
(* Verdicts are earned, whoever holds the job. *)

\* What the tables already say when a loop announces completion or decides.
Earned(w) ==
  /\ w.pc \in {"read", "write", "finish"} /\ w.stage = "completed" =>
       generation[w.gen].gaps > 0
  /\ w.pc = "finish" /\ w.stage \in {"failed", "completed"} => HasEvent(w.gen, w.stage)
  /\ w.pc = "finish" /\ w.stage = "none" => generation[w.gen].deleted

EarnedInv == VerdictIsEarned /\ \A i \in Instances : Earned(worker[i])

\* No step takes back a result, a deletion or an event.
NothingTakenBack ==
  \A g \in Gens :
    /\ generation[g].gaps > 0 => generation'[g].gaps > 0
    /\ generation[g].deleted => generation'[g].deleted
    /\ \A stage \in Stages : HasEvent(g, stage) => HasEvent(g, stage)'

LEMMA AppendTakesNothingBack ==
  ASSUME events \in [Gens -> Seq(EventRow)], NEW g \in Gens, NEW row \in EventRow,
         events' = [events EXCEPT ![g] = Append(@, row)]
  PROVE  /\ \A h \in Gens, stage \in Stages : HasEvent(h, stage) => HasEvent(h, stage)'
         /\ HasEvent(g, row.stage)'
<1>1. /\ events'[g] = Append(events[g], row) /\ events[g] \in Seq(EventRow)
      /\ \A h \in Gens : h # g => events'[h] = events[h]
  OBVIOUS
<1>2. /\ DOMAIN events[g] = 1 .. Len(events[g]) /\ Len(events[g]) \in Nat
      /\ DOMAIN events'[g] = 1 .. (Len(events[g]) + 1)
      /\ \A n \in 1 .. Len(events[g]) : events'[g][n] = events[g][n]
      /\ events'[g][Len(events[g]) + 1] = row
  BY <1>1
<1>3. HasEvent(g, row.stage)'
  <2>1. Len(events[g]) + 1 \in DOMAIN events'[g]
    BY <1>2
  <2> QED BY <1>2, <2>1 DEF HasEvent
<1>4. \A stage \in Stages : HasEvent(g, stage) => HasEvent(g, stage)'
  BY <1>2 DEF HasEvent
<1>5. \A h \in Gens, stage \in Stages : h # g /\ HasEvent(h, stage) => HasEvent(h, stage)'
  BY <1>1 DEF HasEvent
<1> QED BY <1>3, <1>4, <1>5

\* What a loop at rest or before its first announcement has earned.
LEMMA EarnedStays ==
  ASSUME NothingTakenBack, NEW w, Earned(w), w.pc \notin {"down", "idle"} => w.gen \in Gens
  PROVE  Earned(w)'
BY DEF Earned, NothingTakenBack, Stages

\* As long as no verdict is written, a step has to care for the loop that makes it.
LEMMA LoopEarns ==
  ASSUME TypeInv, EarnedInv, NothingTakenBack, NEW i \in Instances, NEW w, Goes(i, w), Earned(w)',
         \A g \in Gens : job'[g].state \in Verdicts => job[g].state = job'[g].state
  PROVE  EarnedInv'
<1>1. worker'[i] = w /\ \A j \in Instances : j # i => worker'[j] = worker[j]
  BY DEF Goes, TypeInv, TypeOK
<1>2. \A j \in Instances : worker[j].pc \notin {"down", "idle"} => worker[j].gen \in Gens
  BY DEF TypeInv, TypeOK, WellFormed
<1>3. \A j \in Instances : Earned(worker[j])'
  <2> SUFFICES ASSUME NEW j \in Instances PROVE Earned(worker[j])'
    OBVIOUS
  <2>1. CASE j = i
    BY <1>1, <2>1 DEF Earned, HasEvent
  <2>2. CASE j # i
    <3>1. PICK v : v = worker[j]
      OBVIOUS
    <3>2. Earned(v)'
      BY <1>2, <3>1, EarnedStays DEF EarnedInv
    <3> QED BY <1>1, <2>2, <3>1, <3>2 DEF Earned, HasEvent
  <2> QED BY <2>1, <2>2
<1>4. VerdictIsEarned'
  BY DEF VerdictIsEarned, EarnedInv, NothingTakenBack, Verdicts, Stages
<1> QED BY <1>3, <1>4 DEF EarnedInv

\* A step no loop makes.
LEMMA NobodyEarns ==
  ASSUME TypeInv, EarnedInv, NothingTakenBack,
         \A j \in Instances : /\ worker'[j].pc = worker[j].pc /\ worker'[j].gen = worker[j].gen
                              /\ worker'[j].stage = worker[j].stage,
         \A g \in Gens : job'[g].state \in Verdicts => job[g].state = job'[g].state
  PROVE  EarnedInv'
<1>1. \A j \in Instances : worker[j].pc \notin {"down", "idle"} => worker[j].gen \in Gens
  BY DEF TypeInv, TypeOK, WellFormed
<1>2. \A j \in Instances : Earned(worker[j])'
  <2> SUFFICES ASSUME NEW j \in Instances PROVE Earned(worker[j])'
    OBVIOUS
  <2>1. PICK v : v = worker[j]
    OBVIOUS
  <2>2. Earned(v)'
    BY <1>1, <2>1, EarnedStays DEF EarnedInv
  <2> QED BY <2>1, <2>2 DEF Earned, HasEvent
<1>3. VerdictIsEarned'
  BY DEF VerdictIsEarned, EarnedInv, NothingTakenBack, Verdicts, Stages
<1> QED BY <1>2, <1>3 DEF EarnedInv

LEMMA EarnedInit == Init => EarnedInv
<1> SUFFICES ASSUME Init PROVE EarnedInv
  OBVIOUS
<1>1. VerdictIsEarned
  BY DEF Init, VerdictIsEarned
<1>2. \A i \in Instances : worker[i].pc = "down"
  BY DEF Init, Resting
<1> QED BY <1>1, <1>2 DEF EarnedInv, Earned

LEMMA EarnedStep ==
  ASSUME TypeInv, EarnedInv, [Next]_vars
  PROVE  EarnedInv'
<1>a. /\ worker \in [Instances -> WorkerState] /\ job \in [Gens -> JobRow]
      /\ generation \in [Gens -> GenerationRow] /\ events \in [Gens -> Seq(EventRow)]
      /\ \A i \in Instances : WellFormed(worker[i])
  BY DEF TypeInv, TypeOK
<1>b. UNCHANGED <<generation, events>> => NothingTakenBack
  BY DEF NothingTakenBack, HasEvent
<1>c. UNCHANGED job => \A g \in Gens : job'[g].state \in Verdicts => job[g].state = job'[g].state
  OBVIOUS
<1>1. ASSUME NEW i \in Instances, NEW g \in Gens, Claim(i, g)
      PROVE  EarnedInv'
  <2>0. PICK w : w = [Resting("load") EXCEPT !.gen = g]
    OBVIOUS
  <2>1. Goes(i, w) /\ UNCHANGED <<generation, events>>
    BY <2>0, <1>1 DEF Claim
  <2>2. Earned(w)'
    BY <2>0 DEF Earned, Resting
  <2>3. \A h \in Gens : job'[h].state \in Verdicts => job[h].state = job'[h].state
    BY <1>1, <1>a DEF Claim, Verdicts
  <2> QED BY <1>b, <2>1, <2>2, <2>3, LoopEarns
<1>2. ASSUME NEW i \in Instances, LoadDeleted(i)
      PROVE  EarnedInv'
  <2>0. PICK w : w = [worker[i] EXCEPT !.pc = "finish"]
    OBVIOUS
  <2>1. Goes(i, w) /\ UNCHANGED <<generation, job, events>> /\ generation[worker[i].gen].deleted
        /\ worker[i].stage = "none"
    BY <1>2, <1>a, <2>0 DEF LoadDeleted, WellFormed
  <2>2. w.pc = "finish" /\ w.gen = worker[i].gen /\ w.stage = "none"
    BY <1>a, <2>0, <2>1 DEF WorkerState
  <2>3. Earned(w)'
    BY <2>1, <2>2 DEF Earned
  <2> QED BY <1>b, <1>c, <2>1, <2>3, LoopEarns
<1>3. ASSUME NEW i \in Instances, LoadGeneration(i)
      PROVE  EarnedInv'
  <2>0. PICK w : w = [worker[i] EXCEPT !.pc = "read", !.stage = "parse_resume",
                                         !.base = generation[worker[i].gen].tailored]
    OBVIOUS
  <2>1. Goes(i, w) /\ UNCHANGED <<job, events>> /\ worker[i].gen \in Gens
    BY <1>3, <1>a, <2>0 DEF LoadGeneration, WellFormed
  <2>2. \A g \in Gens : /\ generation'[g].gaps = generation[g].gaps
                        /\ generation'[g].deleted = generation[g].deleted
    BY <1>3, <1>a, <2>1 DEF LoadGeneration, GenerationRow
  <2>3. NothingTakenBack
    BY <2>1, <2>2 DEF NothingTakenBack, HasEvent
  <2>4. w.pc = "read" /\ w.stage = "parse_resume"
    BY <1>a, <2>0 DEF WorkerState
  <2>5. Earned(w)'
    BY <2>4 DEF Earned
  <2> QED BY <1>c, <2>1, <2>3, <2>5, LoopEarns
<1>4. ASSUME NEW i \in Instances, ReadLastSeq(i)
      PROVE  EarnedInv'
  <2>0. PICK w : w = [worker[i] EXCEPT !.pc = "write", !.last = LastSeq(worker[i].gen)]
    OBVIOUS
  <2>1. Goes(i, w) /\ UNCHANGED <<generation, job, events>> /\ worker[i].pc = "read"
    BY <1>4, <2>0 DEF ReadLastSeq
  <2>2. w.pc = "write" /\ w.gen = worker[i].gen /\ w.stage = worker[i].stage
    BY <1>a, <2>0 DEF WorkerState
  <2>3. Earned(w)'
    BY <2>1, <2>2 DEF Earned, EarnedInv
  <2> QED BY <1>b, <1>c, <2>1, <2>3, LoopEarns
<1>5. ASSUME NEW i \in Instances, WriteEvent(i)
      PROVE  EarnedInv'
  <2>a. PICK row, w :
          /\ row = [seq |-> worker[i].last + 1, stage |-> worker[i].stage]
          /\ w = [worker[i] EXCEPT !.pc = PcAfter(worker[i]), !.recorded = @ + 1]
    OBVIOUS
  <2>0. PICK g \in Gens : g = worker[i].gen
    BY <1>5, <1>a DEF WriteEvent, WellFormed
  <2>1. /\ Goes(i, w) /\ UNCHANGED <<generation, job>> /\ worker[i].pc = "write"
        /\ events' = [events EXCEPT ![g] = Append(@, row)]
    BY <1>5, <2>a, <2>0 DEF WriteEvent
  <2>2. row \in EventRow /\ row.stage = worker[i].stage /\ worker[i].stage \in Stages \ {"queued"}
    <3>1. worker[i].stage \in Stages \ {"queued"}
      BY <1>a, <2>1 DEF WellFormed
    <3>2. worker[i].last + 1 \in Nat
      BY <1>a DEF WorkerState
    <3> QED BY <2>a, <3>1, <3>2 DEF EventRow
  <2>3. w.gen = g /\ w.stage = worker[i].stage /\ w.pc = PcAfter(worker[i])
    BY <1>a, <2>a, <2>0 DEF WorkerState
  <2>4. w.pc \in {"read", "write", "finish"} /\ w.stage = "completed" =>
          generation[g].gaps > 0
    BY <2>0, <2>1, <2>3 DEF EarnedInv, Earned
  <2>5. /\ \A h \in Gens, stage \in Stages : HasEvent(h, stage) => HasEvent(h, stage)'
        /\ HasEvent(g, row.stage)'
    BY <1>a, <2>1, <2>2, AppendTakesNothingBack
  <2>6. NothingTakenBack
    BY <2>1, <2>5 DEF NothingTakenBack
  <2>7. Earned(w)'
    <3>1. HasEvent(w.gen, w.stage)'
      BY <2>2, <2>3, <2>5 DEF HasEvent
    <3> QED BY <2>1, <2>2, <2>3, <2>4, <3>1 DEF Earned, Stages
  <2> QED BY <1>c, <2>1, <2>6, <2>7, LoopEarns
<1>6. ASSUME NEW i \in Instances, PipelineReturns(i) \/ PipelineRaises(i) \/ CommitResult(i)
      PROVE  EarnedInv'
  <2>0. PICK g \in Gens : g = worker[i].gen
    BY <1>6, <1>a DEF PipelineReturns, PipelineRaises, CommitResult, WellFormed
  <2>1. PICK s \in {"pipeline", "failed", "completed"} :
          /\ Goes(i, [worker[i] EXCEPT !.pc = "read", !.stage = s])
          /\ s = "completed" => CommitResult(i)
    BY <1>6 DEF PipelineReturns, PipelineRaises, CommitResult
  <2>a. PICK w : w = [worker[i] EXCEPT !.pc = "read", !.stage = s]
    OBVIOUS
  <2>2. w.pc = "read" /\ w.stage = s /\ w.gen = g
    BY <1>a, <2>a, <2>0 DEF WorkerState
  <2>3. Goes(i, w)
    BY <2>a, <2>1
  <2>4. \A h \in Gens : /\ generation[h].gaps \in Nat
                        /\ \/ generation'[h].gaps = generation[h].gaps
                           \/ generation'[h].gaps = generation[h].gaps + 1
                        /\ generation'[h].deleted = generation[h].deleted
    <3>1. CASE PipelineReturns(i)
      BY <1>a, <3>1 DEF PipelineReturns, GenerationRow
    <3>2. CASE PipelineRaises(i)
      BY <1>a, <2>0, <3>2 DEF PipelineRaises, GenerationRow
    <3>3. CASE CommitResult(i)
      BY <1>a, <2>0, <3>3 DEF CommitResult, GenerationRow
    <3> QED BY <1>6, <3>1, <3>2, <3>3
  <2>5. UNCHANGED <<job, events>>
    BY <1>6 DEF PipelineReturns, PipelineRaises, CommitResult
  <2>6. NothingTakenBack
    BY <2>4, <2>5 DEF NothingTakenBack, HasEvent
  <2>7. s = "completed" => generation'[g].gaps > 0
    <3> SUFFICES ASSUME s = "completed" PROVE generation'[g].gaps > 0
      OBVIOUS
    <3>1. generation'[g].gaps = generation[g].gaps + 1
      BY <1>a, <2>0, <2>1 DEF CommitResult, GenerationRow
    <3> QED BY <2>4, <3>1
  <2>8. Earned(w)'
    BY <2>2, <2>7 DEF Earned
  <2> QED BY <1>c, <2>3, <2>5, <2>6, <2>8, LoopEarns
<1>7. ASSUME NEW i \in Instances, Finish(i)
      PROVE  EarnedInv'
  <2>0. PICK g \in Gens : g = worker[i].gen
    BY <1>7, <1>a DEF Finish, WellFormed
  <2>1. /\ Goes(i, Resting("idle")) /\ UNCHANGED <<generation, events>>
        /\ worker[i].pc = "finish" /\ worker[i].stage \in {"none", "failed", "completed"}
        /\ job'[g].state = Verdict(worker[i])
        /\ \A h \in Gens : h # g => job'[h] = job[h]
    BY <1>7, <1>a, <2>0 DEF Finish, WellFormed
  <2>2. Earned(worker[i]) /\ VerdictIsEarned
    BY DEF EarnedInv
  <2>3. /\ job'[g].state = "completed" => generation[g].gaps > 0 /\ HasEvent(g, "completed")
        /\ job'[g].state = "failed" => HasEvent(g, "failed")
        /\ job'[g].state = "cancelled" => generation[g].deleted
    BY <2>0, <2>1, <2>2 DEF Earned, Verdict
  <2>4. VerdictIsEarned'
    BY <2>1, <2>2, <2>3 DEF VerdictIsEarned, HasEvent
  <2>5. \A j \in Instances : Earned(worker[j])'
    <3>1. \A j \in Instances : worker'[j] = worker[j] \/ worker'[j].pc = "idle"
      BY <1>a, <2>1 DEF Goes, Resting
    <3> QED BY <2>1, <3>1 DEF EarnedInv, Earned, HasEvent
  <2> QED BY <2>4, <2>5 DEF EarnedInv
<1>8. ASSUME NEW i \in Instances, LoopError(i) \/ Crash(i) \/ Start(i)
      PROVE  EarnedInv'
  <2>1. PICK pc \in {"idle", "down"} : Goes(i, Resting(pc)) /\ UNCHANGED <<generation, events>>
    BY <1>8 DEF LoopError, Crash, Start
  <2>2. \A g \in Gens : job'[g].state \in Verdicts => job[g].state = job'[g].state
    <3>1. CASE LoopError(i) \/ Crash(i)
      BY <3>1 DEF LoopError, Crash
    <3>2. CASE Start(i)
      BY <3>2, <1>a DEF Start, Reclaimed, JobRow, Verdicts
    <3> QED BY <1>8, <3>1, <3>2
  <2>3. PICK w : w = Resting(pc)
    OBVIOUS
  <2>4. Earned(w)'
    BY <2>3 DEF Earned, Resting
  <2> QED BY <1>b, <2>1, <2>2, <2>3, <2>4, LoopEarns
<1>9. ASSUME NEW g \in Gens,
             (\E i \in Instances : CreateGeneration(i, g)) \/ DeleteGeneration(g)
      PROVE  EarnedInv'
  <2>1. UNCHANGED <<job, events, worker>>
    BY <1>9 DEF CreateGeneration, DeleteGeneration
  <2>2. \A h \in Gens : /\ generation'[h].gaps = generation[h].gaps
                        /\ generation[h].deleted => generation'[h].deleted
    <3>1. CASE \E i \in Instances : CreateGeneration(i, g)
      BY <3>1, <1>a DEF CreateGeneration, GenerationRow
    <3>2. CASE DeleteGeneration(g)
      BY <3>2, <1>a DEF DeleteGeneration, GenerationRow
    <3> QED BY <1>9, <3>1, <3>2
  <2>3. NothingTakenBack
    BY <2>1, <2>2 DEF NothingTakenBack, HasEvent
  <2> QED BY <1>c, <2>1, <2>3, NobodyEarns
<1>10. ASSUME NEW g \in Gens, Enqueue(g)
       PROVE  EarnedInv'
  <2>1. \A h \in Gens : job'[h].state \in Verdicts => job[h].state = job'[h].state
    BY <1>10, <1>a DEF Enqueue, JobRow, Verdicts
  <2>2. UNCHANGED <<generation, events, worker>>
    BY <1>10 DEF Enqueue
  <2> QED BY <1>b, <2>1, <2>2, NobodyEarns
<1>11. ASSUME NEW g \in Gens, RecordQueued(g)
       PROVE  EarnedInv'
  <2>a. PICK row : row = [seq |-> LastSeq(g) + 1, stage |-> "queued"]
    OBVIOUS
  <2>1. /\ events' = [events EXCEPT ![g] = Append(@, row)]
        /\ UNCHANGED <<generation, job, worker>>
    BY <1>11, <2>a DEF RecordQueued
  <2>2. row \in EventRow
    <3>1. LastSeq(g) \in 0..Len(events[g]) /\ Len(events[g]) \in Nat
      BY <1>a, LastSeqBounded DEF TypeInv
    <3>2. LastSeq(g) + 1 \in Nat
      BY <3>1
    <3> QED BY <2>a, <3>2 DEF EventRow, Stages
  <2>3. NothingTakenBack
    BY <1>a, <2>1, <2>2, AppendTakesNothingBack DEF NothingTakenBack
  <2> QED BY <1>c, <2>1, <2>3, NobodyEarns
<1>12. CASE Tick
  <2>1. /\ \A i \in Instances : /\ worker'[i].pc = worker[i].pc /\ worker'[i].gen = worker[i].gen
                                /\ worker'[i].stage = worker[i].stage
        /\ UNCHANGED <<generation, events>>
    BY <1>12, <1>a DEF Tick, WorkerState
  <2>2. \A g \in Gens : job'[g].state = job[g].state
    BY <1>12, <1>a DEF Tick, JobRow
  <2> QED BY <1>b, <2>1, <2>2, NobodyEarns
<1>13. CASE UNCHANGED vars
  BY <1>13, <1>b, <1>c, NobodyEarns DEF vars
<1> QED BY <1>1, <1>2, <1>3, <1>4, <1>5, <1>6, <1>7, <1>8, <1>9, <1>10, <1>11, <1>12, <1>13
        DEF Next, QueueStep, Handler, WorkerStep

\* For runs of any length, so also when an instance decides a job it no longer holds:
\* a job is completed only if its result was stored and announced, failed only if the
\* failure was announced, and cancelled only if its generation was deleted.
THEOREM VerdictsAreEarned == Spec => []VerdictIsEarned
<1>1. Init => TypeInv /\ EarnedInv
  BY TypeInvInit, EarnedInit
<1>2. TypeInv /\ EarnedInv /\ [Next]_vars => (TypeInv /\ EarnedInv)'
  BY TypeInvStep, EarnedStep
<1>3. EarnedInv => VerdictIsEarned
  BY DEF EarnedInv
<1> QED BY <1>1, <1>2, <1>3, PTL DEF Spec

===============================================================================
