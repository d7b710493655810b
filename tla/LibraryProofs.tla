---------------------------- MODULE LibraryProofs ----------------------------
(***************************************************************************)
(* Proofs about Library, for any number of users, resumes, generations,     *)
(* requests, names and skills: its types, the version numbers, the stored   *)
(* PDF and the roadmap.                                                     *)
(***************************************************************************)
EXTENDS Library, FiniteSetTheorems, TLAPS

-------------------------------------------------------------------------------
(* Type correctness. *)

Exists(g) == generation[g].state # "none"

\* A handler of create_generation holds a resume of its user.
RequestsHold ==
  \A q \in Requests : request[q].at \in {"fetching", "counted"} =>
    /\ request[q].user \in Users /\ request[q].resume \in Resumes
    /\ resume[request[q].resume].state # "none"
    /\ resume[request[q].resume].owner = request[q].user

GenerationsHold ==
  \A g \in Generations : Exists(g) =>
    /\ generation[g].base \in Resumes
    /\ resume[generation[g].base].state # "none"
    /\ generation[g].owner = resume[generation[g].base].owner

\* A run is numbered by its claim, and what is stored by its run.
RunsHold ==
  \A g \in Generations :
    /\ run[g].at # "none" => Exists(g)
    /\ run[g].at \in {"running", "stored", "unstored", "committed"} => run[g].n # 0
    /\ run[g].n <= claims /\ generation[g].content <= claims

GapsHold == \A x \in gaps : Exists(x.gen)

TypeInv == TypeOK /\ RequestsHold /\ GenerationsHold /\ RunsHold /\ GapsHold

GenerationType ==
  [state : {"none", "live", "deleted"}, owner : Users \cup {""},
   base : Resumes \cup {""}, asked : Names, name : Names, version : Nat,
   content : 0..MaxRuns, key : 0..MaxRuns, before : SUBSET Generations, renamed : BOOLEAN]
RequestType ==
  [at : {"idle", "fetching", "counted", "over"}, user : Users \cup {""},
   resume : Resumes \cup {""}, name : Names, count : Nat, before : SUBSET Generations]
RunType ==
  [at : {"none", "pending", "running", "stored", "unstored", "committed", "decided"},
   n : 0..MaxRuns]
RoadmapType ==
  [at : {"idle", "total", "counted"}, user : Users \cup {""}, total : Nat,
   before : [Skills -> SUBSET GapRows], counted : [Skills -> SUBSET GapRows],
   names : [Skills -> SUBSET Names], left : SUBSET Skills]

LEMMA TypesNamed ==
  TypeOK <=>
    /\ resume \in [Resumes -> [state : {"none", "live", "deleted"}, owner : Users \cup {""}]]
    /\ request \in [Requests -> RequestType]
    /\ generation \in [Generations -> GenerationType]
    /\ run \in [Generations -> RunType]
    /\ stored \in [Generations -> 0..MaxRuns] /\ claims \in 0..MaxRuns
    /\ gaps \subseteq GapRows
    /\ roadmap \in RoadmapType
    /\ roadmaps \in 0..MaxRoadmaps
    /\ \A g \in Generations : Exists(g) =>
         /\ generation[g].base \in Resumes
         /\ generation[g].owner = resume[generation[g].base].owner
BY DEF TypeOK, GenerationType, RequestType, RunType, RoadmapType, Exists

LEMMA Numbers == MaxRuns \in Nat /\ \A n \in 0..MaxRuns : n \in Nat
BY BoundsAreNaturals

LEMMA TypeInvInit == Init => TypeInv
<1> SUFFICES ASSUME Init PROVE TypeInv
  OBVIOUS
<1> USE BlankIsAName, BoundsAreNaturals DEF Init
<1>1. resume \in [Resumes -> [state : {"none", "live", "deleted"}, owner : Users \cup {""}]]
  BY DEF NoResume
<1>2. request \in [Requests -> RequestType]
  BY DEF Idle, RequestType
<1>3. generation \in [Generations -> GenerationType]
  <2>1. 0 \in 0..MaxRuns /\ {} \in SUBSET Generations
    OBVIOUS
  <2>2. NoGeneration \in GenerationType
    BY ONLY <2>1, BlankIsAName DEF NoGeneration, GenerationType
  <2> QED BY <2>2
<1>4. run \in [Generations -> RunType] /\ stored \in [Generations -> 0..MaxRuns]
      /\ claims \in 0..MaxRuns /\ gaps \subseteq GapRows /\ roadmaps \in 0..MaxRoadmaps
  BY DEF RunType
<1>5. roadmap \in RoadmapType
  BY DEF NoRoadmap, RoadmapType
<1>6. \A g \in Generations : ~Exists(g)
  BY DEF NoGeneration, Exists
<1>7. TypeOK
  BY <1>1, <1>2, <1>3, <1>4, <1>5, <1>6, TypesNamed
<1>8. RequestsHold /\ GenerationsHold /\ GapsHold
  BY <1>6 DEF Idle, RequestsHold, GenerationsHold, GapsHold
<1>9. RunsHold
  <2>1. \A g \in Generations :
          run[g].at = "none" /\ run[g].n = 0 /\ generation[g].content = 0 /\ claims = 0
    BY DEF NoGeneration
  <2> QED BY <2>1 DEF RunsHold
<1> QED BY <1>7, <1>8, <1>9 DEF TypeInv

-------------------------------------------------------------------------------

\* Which operations write a table.
LEMMA Writers ==
  ASSUME [Next]_vars
  PROVE  /\ \/ UNCHANGED resume
            \/ \E u \in Users, r \in Resumes : Upload(u, r) \/ DeleteResume(u, r)
         /\ \/ UNCHANGED request
            \/ \E q \in Requests : FetchFails(q) \/ CountVersions(q)
            \/ \E q \in Requests, u \in Users, r \in Resumes, name \in Names : Ask(q, u, r, name)
            \/ \E q \in Requests, g \in Generations : Insert(q, g)
         /\ \/ UNCHANGED generation
            \/ \E u \in Users, g \in Generations : DeleteGeneration(u, g)
            \/ \E q \in Requests, g \in Generations : Insert(q, g)
            \/ \E g \in Generations, name \in Names, missing \in SUBSET Skills :
                 CommitResult(g, name, missing)
         /\ \/ UNCHANGED gaps
            \/ \E g \in Generations, name \in Names, missing \in SUBSET Skills :
                 CommitResult(g, name, missing)
         /\ \/ UNCHANGED <<run, claims, stored>>
            \/ \E q \in Requests, g \in Generations : Insert(q, g)
            \/ \E g \in Generations : Claim(g) \/ PutPdf(g) \/ PutFails(g) \/ Decide(g) \/ CrashRun(g)
            \/ \E g \in Generations, name \in Names, missing \in SUBSET Skills :
                 CommitResult(g, name, missing)
         /\ \/ UNCHANGED <<roadmap, roadmaps>>
            \/ \E u \in Users : CountTotal(u)
            \/ CountGaps \/ Dismiss \/ \E s \in Skills : ReadCompanies(s)
<1>1. ASSUME NEW u \in Users, UserStep(u)
      PROVE  /\ \/ UNCHANGED resume
                \/ \E r \in Resumes : Upload(u, r) \/ DeleteResume(u, r)
             /\ \/ UNCHANGED request
                \/ \E q \in Requests, r \in Resumes, name \in Names : Ask(q, u, r, name)
             /\ \/ UNCHANGED generation
                \/ \E g \in Generations : DeleteGeneration(u, g)
             /\ UNCHANGED <<gaps, run, claims, stored>>
             /\ UNCHANGED <<roadmap, roadmaps>> \/ CountTotal(u)
  <2>1. CASE \E r \in Resumes : Upload(u, r) \/ DeleteResume(u, r)
    BY <2>1 DEF Upload, DeleteResume
  <2>2. CASE \E r \in Resumes, q \in Requests, name \in Names : Ask(q, u, r, name)
    BY <2>2 DEF Ask
  <2>3. CASE \E g \in Generations : DeleteGeneration(u, g)
    BY <2>3 DEF DeleteGeneration
  <2>4. CASE CountTotal(u)
    BY <2>4 DEF CountTotal
  <2> QED BY <1>1, <2>1, <2>2, <2>3, <2>4 DEF UserStep
<1>2. ASSUME HandlerStep
      PROVE  /\ UNCHANGED <<resume, gaps>>
             /\ \/ UNCHANGED request
                \/ \E q \in Requests : FetchFails(q) \/ CountVersions(q)
                \/ \E q \in Requests, g \in Generations : Insert(q, g)
             /\ \/ UNCHANGED <<generation, run, claims, stored>>
                \/ \E q \in Requests, g \in Generations : Insert(q, g)
             /\ \/ UNCHANGED <<roadmap, roadmaps>>
                \/ CountGaps \/ Dismiss \/ \E s \in Skills : ReadCompanies(s)
  <2>1. CASE \E q \in Requests : FetchFails(q) \/ CountVersions(q)
    BY <2>1 DEF FetchFails, CountVersions
  <2>2. CASE \E q \in Requests, g \in Generations : Insert(q, g)
    BY <2>2 DEF Insert
  <2>3. CASE CountGaps \/ Dismiss \/ \E s \in Skills : ReadCompanies(s)
    BY <2>3 DEF CountGaps, ReadCompanies, Dismiss
  <2> QED BY <1>2, <2>1, <2>2, <2>3 DEF HandlerStep
<1>3. ASSUME NEW g \in Generations, WorkerStep(g)
      PROVE  /\ UNCHANGED <<resume, request, roadmap, roadmaps>>
             /\ \/ UNCHANGED <<generation, gaps>>
                \/ \E name \in Names, missing \in SUBSET Skills : CommitResult(g, name, missing)
             /\ \/ Claim(g) \/ PutPdf(g) \/ PutFails(g) \/ Decide(g) \/ CrashRun(g)
                \/ \E name \in Names, missing \in SUBSET Skills : CommitResult(g, name, missing)
  <2>1. CASE Claim(g) \/ PutPdf(g) \/ PutFails(g) \/ Decide(g) \/ CrashRun(g)
    BY <2>1 DEF Claim, PutPdf, PutFails, Decide, CrashRun
  <2>2. CASE \E name \in Names, missing \in SUBSET Skills : CommitResult(g, name, missing)
    BY <2>2 DEF CommitResult
  <2> QED BY <1>3, <2>1, <2>2 DEF WorkerStep
<1>4. CASE \E u \in Users : UserStep(u)
  <2>1. PICK u \in Users : UserStep(u)
    BY <1>4
  <2> QED BY <1>1, <2>1
<1>5. CASE HandlerStep
  BY <1>2, <1>5
<1>6. CASE \E g \in Generations : WorkerStep(g)
  <2>1. PICK g \in Generations : WorkerStep(g)
    BY <1>6
  <2> QED BY <1>3, <2>1
<1>7. CASE UNCHANGED vars
  BY <1>7 DEF vars
<1> QED BY <1>4, <1>5, <1>6, <1>7 DEF Next

LEMMA ResumesStep ==
  ASSUME TypeInv, [Next]_vars
  PROVE  /\ resume' \in [Resumes -> [state : {"none", "live", "deleted"}, owner : Users \cup {""}]]
         /\ \A r \in Resumes : resume[r].state # "none" =>
              resume'[r].state # "none" /\ resume'[r].owner = resume[r].owner
<1> DEFINE Rows == [state : {"none", "live", "deleted"}, owner : Users \cup {""}]
<1>1. resume \in [Resumes -> Rows]
  BY DEF TypeInv, TypeOK
<1>2. ASSUME NEW r \in Resumes, NEW row \in Rows, resume' = [resume EXCEPT ![r] = row],
             resume[r].state # "none" => row.state # "none" /\ row.owner = resume[r].owner
      PROVE  /\ resume' \in [Resumes -> Rows]
             /\ \A s \in Resumes : resume[s].state # "none" =>
                  resume'[s].state # "none" /\ resume'[s].owner = resume[s].owner
  <2> HIDE DEF Rows
  <2> QED BY <1>1, <1>2
<1>3. ASSUME NEW u \in Users, NEW r \in Resumes, Upload(u, r)
      PROVE  /\ resume[r].state = "none" /\ [state |-> "live", owner |-> u] \in Rows
             /\ resume' = [resume EXCEPT ![r] = [state |-> "live", owner |-> u]]
  BY <1>3 DEF Upload
<1>4. ASSUME NEW u \in Users, NEW r \in Resumes, DeleteResume(u, r)
      PROVE  LET row == [resume[r] EXCEPT !.state = "deleted"] IN
             /\ row \in Rows /\ row.state = "deleted" /\ row.owner = resume[r].owner
             /\ resume' = [resume EXCEPT ![r] = row]
  <2>1. resume[r] \in Rows
    BY <1>1
  <2>2. resume' = [resume EXCEPT ![r] = [resume[r] EXCEPT !.state = "deleted"]]
    BY <1>4 DEF DeleteResume
  <2> QED BY <2>1, <2>2
<1> HIDE DEF Rows
<1>5. CASE UNCHANGED resume
  BY <1>1, <1>5 DEF Rows
<1>6. ASSUME NEW u \in Users, NEW r \in Resumes, Upload(u, r) \/ DeleteResume(u, r)
      PROVE  /\ resume' \in [Resumes -> Rows]
             /\ \A s \in Resumes : resume[s].state # "none" =>
                  resume'[s].state # "none" /\ resume'[s].owner = resume[s].owner
  <2>1. CASE Upload(u, r)
    <3>1. PICK row \in Rows : row.owner = u /\ row.state = "live" /\ resume' = [resume EXCEPT ![r] = row]
      <4>1. [state |-> "live", owner |-> u].owner = u /\ [state |-> "live", owner |-> u].state = "live"
        OBVIOUS
      <4> QED BY <1>3, <2>1, <4>1
    <3>2. resume[r].state # "none" => row.state # "none" /\ row.owner = resume[r].owner
      BY <1>3, <2>1
    <3> QED BY <1>2, <3>1, <3>2
  <2>2. CASE DeleteResume(u, r)
    <3>1. PICK row \in Rows : /\ row.state = "deleted" /\ row.owner = resume[r].owner
                              /\ resume' = [resume EXCEPT ![r] = row]
      BY <1>4, <2>2
    <3>2. row.state # "none"
      BY <3>1
    <3> QED BY <1>2, <3>1, <3>2
  <2> QED BY <1>6, <2>1, <2>2
<1>7. UNCHANGED resume \/ \E u \in Users, r \in Resumes : Upload(u, r) \/ DeleteResume(u, r)
  BY Writers
<1> QED BY <1>5, <1>6, <1>7 DEF Rows

LEMMA RequestsStep ==
  ASSUME TypeInv, [Next]_vars
  PROVE  /\ request' \in [Requests -> RequestType]
         /\ RequestsHold'
<1>a. /\ request \in [Requests -> RequestType] /\ RequestsHold
      /\ \A r \in Resumes : resume[r].state # "none" =>
           resume'[r].state # "none" /\ resume'[r].owner = resume[r].owner
  BY TypesNamed, ResumesStep DEF TypeInv
<1>b. ASSUME NEW q \in Requests, NEW row \in RequestType, request' = [request EXCEPT ![q] = row],
             row.at \in {"fetching", "counted"} =>
               /\ row.user \in Users /\ row.resume \in Resumes
               /\ resume[row.resume].state # "none" /\ resume[row.resume].owner = row.user
      PROVE  request' \in [Requests -> RequestType] /\ RequestsHold'
  BY <1>a, <1>b DEF RequestsHold
<1>1. CASE UNCHANGED request
  BY <1>a, <1>1 DEF RequestsHold
<1>2. ASSUME NEW q \in Requests, NEW u \in Users, NEW r \in Resumes, NEW name \in Names,
             Ask(q, u, r, name)
      PROVE  request' \in [Requests -> RequestType] /\ RequestsHold'
  <2> DEFINE row == [at |-> "fetching", user |-> u, resume |-> r, name |-> name,
                     count |-> 0, before |-> {}]
  <2>1. row \in RequestType /\ row.resume = r /\ row.user = u
    BY DEF RequestType
  <2>2. request' = [request EXCEPT ![q] = row]
    BY <1>2 DEF Ask
  <2>3. resume[r].state # "none" /\ resume[r].owner = u
    BY <1>2 DEF Ask, OwnedResume
  <2> HIDE DEF row
  <2> QED BY <1>b, <2>1, <2>2, <2>3
<1>3. ASSUME NEW q \in Requests, FetchFails(q) \/ \E g \in Generations : Insert(q, g)
      PROVE  request' \in [Requests -> RequestType] /\ RequestsHold'
  <2> DEFINE row == [Idle EXCEPT !.at = "over"]
  <2>1. row \in RequestType /\ row.at = "over"
    BY BlankIsAName DEF RequestType, Idle
  <2>2. request' = [request EXCEPT ![q] = row]
    BY <1>3 DEF FetchFails, Insert
  <2> HIDE DEF row
  <2> QED BY <1>b, <2>1, <2>2
<1>4. ASSUME NEW q \in Requests, CountVersions(q)
      PROVE  request' \in [Requests -> RequestType] /\ RequestsHold'
  <2> DEFINE them == Predecessors(request[q].user, request[q].resume, request[q].name)
             those == {g \in Generations : generation[g].state # "none"}
             row == [request[q] EXCEPT !.at = "counted", !.count = Cardinality(them), !.before = those]
  <2>1. Cardinality(them) \in Nat
    <3>1. them \subseteq Generations
      BY DEF Predecessors
    <3> QED BY <3>1, GenerationsAreFinite, FS_Subset, FS_CardinalityType
  <2>2. request[q] \in RequestType /\ request[q].at = "fetching"
    BY <1>4, <1>a DEF CountVersions
  <2>3. those \in SUBSET Generations
    OBVIOUS
  <2> HIDE DEF them, those
  <2>4. /\ row \in RequestType
        /\ row.user = request[q].user /\ row.resume = request[q].resume
    BY <2>1, <2>2, <2>3 DEF RequestType
  <2>5. request' = [request EXCEPT ![q] = row]
    <3>1. request' = [request EXCEPT ![q].at = "counted", ![q].count = Cardinality(them),
                                     ![q].before = those]
      BY <1>4 DEF CountVersions, them, those
    <3> QED BY <1>a, <2>2, <3>1 DEF RequestType
  <2>6. /\ request[q].user \in Users /\ request[q].resume \in Resumes
        /\ resume[request[q].resume].state # "none"
        /\ resume[request[q].resume].owner = request[q].user
    BY <1>a, <2>2 DEF RequestsHold
  <2> HIDE DEF row
  <2> QED BY <1>b, <2>4, <2>5, <2>6
<1> QED BY <1>1, <1>2, <1>3, <1>4, Writers

\* What a generation was made from never changes.
SameOrigin(g) ==
  /\ Exists(g)'
  /\ generation'[g].owner = generation[g].owner
  /\ generation'[g].base = generation[g].base
  /\ generation'[g].asked = generation[g].asked
  /\ generation'[g].version = generation[g].version
  /\ generation'[g].before = generation[g].before
  /\ generation[g].renamed => generation'[g].renamed

\* A row that takes the place of another, or is the first of its key.
LEMMA GenerationWritten ==
  ASSUME TypeInv, [Next]_vars, NEW g \in Generations, NEW row \in GenerationType,
         generation' = [generation EXCEPT ![g] = row],
         row.state # "none",
         row.base \in Resumes, resume[row.base].state # "none",
         row.owner = resume[row.base].owner,
         Exists(g) => /\ row.owner = generation[g].owner /\ row.base = generation[g].base
                      /\ row.asked = generation[g].asked /\ row.version = generation[g].version
                      /\ row.before = generation[g].before
                      /\ generation[g].renamed => row.renamed
  PROVE  /\ generation' \in [Generations -> GenerationType] /\ GenerationsHold'
         /\ \A h \in Generations : Exists(h) => SameOrigin(h)
<1>1. generation \in [Generations -> GenerationType] /\ GenerationsHold
  BY TypesNamed DEF TypeInv
<1>2. /\ generation'[g] = row /\ generation' \in [Generations -> GenerationType]
      /\ \A h \in Generations : h # g => generation'[h] = generation[h]
  BY <1>1
<1>3. \A h \in Generations : Exists(h)' <=> Exists(h) \/ h = g
  BY <1>2 DEF Exists
<1>4. GenerationsHold'
  BY <1>1, <1>2, <1>3, ResumesStep DEF GenerationsHold
<1>5. \A h \in Generations : Exists(h) => SameOrigin(h)
  BY <1>2, <1>3 DEF SameOrigin
<1> QED BY <1>2, <1>4, <1>5

LEMMA GenerationsStep ==
  ASSUME TypeInv, [Next]_vars
  PROVE  /\ generation' \in [Generations -> GenerationType] /\ GenerationsHold'
         /\ \A g \in Generations : Exists(g) => SameOrigin(g)
<1>a. /\ generation \in [Generations -> GenerationType] /\ GenerationsHold
      /\ request \in [Requests -> RequestType] /\ RequestsHold
      /\ run \in [Generations -> RunType] /\ RunsHold
  BY TypesNamed DEF TypeInv
<1>b. 0 \in 0..MaxRuns
  BY BoundsAreNaturals
<1>1. CASE UNCHANGED generation
  BY <1>a, <1>1, ResumesStep DEF GenerationsHold, SameOrigin, Exists
<1>2. ASSUME NEW u \in Users, NEW g \in Generations, DeleteGeneration(u, g)
      PROVE  \E row \in GenerationType :
               /\ generation' = [generation EXCEPT ![g] = row] /\ row.state # "none"
               /\ row.owner = generation[g].owner /\ row.base = generation[g].base
               /\ row.asked = generation[g].asked /\ row.version = generation[g].version
               /\ row.before = generation[g].before /\ row.renamed = generation[g].renamed
               /\ Exists(g)
  <2> DEFINE row == [generation[g] EXCEPT !.state = "deleted"]
  <2>1. generation[g] \in GenerationType
    BY <1>a
  <2>2. /\ row \in GenerationType /\ row.state # "none"
        /\ row.owner = generation[g].owner /\ row.base = generation[g].base
        /\ row.asked = generation[g].asked /\ row.version = generation[g].version
        /\ row.before = generation[g].before /\ row.renamed = generation[g].renamed
    BY <2>1 DEF GenerationType
  <2>3. generation' = [generation EXCEPT ![g] = row] /\ Exists(g)
    BY <1>2 DEF DeleteGeneration, OwnedGeneration, Exists
  <2> HIDE DEF row
  <2> QED BY <2>2, <2>3
<1>3. ASSUME NEW g \in Generations, NEW name \in Names, NEW missing \in SUBSET Skills,
             CommitResult(g, name, missing)
      PROVE  \E row \in GenerationType :
               /\ generation' = [generation EXCEPT ![g] = row] /\ row.state # "none"
               /\ row.owner = generation[g].owner /\ row.base = generation[g].base
               /\ row.asked = generation[g].asked /\ row.version = generation[g].version
               /\ row.before = generation[g].before
               /\ generation[g].renamed => row.renamed
               /\ Exists(g)
  <2> DEFINE final == IF name = Blank THEN generation[g].name ELSE name
             key == IF run[g].at = "stored" THEN run[g].n ELSE 0
             other == final # generation[g].name
             row == [generation[g] EXCEPT !.content = run[g].n, !.name = final,
                                          !.renamed = @ \/ other, !.key = key]
  <2>1. generation[g] \in GenerationType /\ run[g] \in RunType
    BY <1>a
  <2>2. final \in Names /\ key \in 0..MaxRuns /\ run[g].n \in 0..MaxRuns
        /\ (generation[g].renamed \/ other) \in BOOLEAN
    <3>1. final \in Names
      BY <2>1 DEF GenerationType
    <3>2. key \in 0..MaxRuns /\ run[g].n \in 0..MaxRuns
      BY <1>b, <2>1 DEF RunType
    <3>3. (generation[g].renamed \/ other) \in BOOLEAN
      OBVIOUS
    <3> QED BY <3>1, <3>2, <3>3
  <2>3. generation' = [generation EXCEPT ![g] = row]
    BY <1>3 DEF CommitResult
  <2>4. Exists(g)
    BY <1>3, <1>a DEF CommitResult, RunsHold
  <2> HIDE DEF final, key, other
  <2>5. /\ row \in GenerationType /\ row.state = generation[g].state
        /\ row.owner = generation[g].owner /\ row.base = generation[g].base
        /\ row.asked = generation[g].asked /\ row.version = generation[g].version
        /\ row.before = generation[g].before
        /\ row.renamed = (generation[g].renamed \/ other)
    BY <2>1, <2>2 DEF GenerationType
  <2> HIDE DEF row
  <2> QED BY <2>3, <2>4, <2>5 DEF Exists
<1>4. ASSUME NEW q \in Requests, NEW g \in Generations, Insert(q, g)
      PROVE  \E row \in GenerationType :
               /\ generation' = [generation EXCEPT ![g] = row] /\ row.state # "none"
               /\ row.base \in Resumes /\ resume[row.base].state # "none"
               /\ row.owner = resume[row.base].owner
               /\ ~Exists(g)
  <2> DEFINE row == [state |-> "live", owner |-> request[q].user, base |-> request[q].resume,
                     asked |-> request[q].name, name |-> request[q].name,
                     version |-> request[q].count + 1,
                     content |-> 0, key |-> 0, before |-> request[q].before, renamed |-> FALSE]
  <2>1. request[q] \in RequestType /\ request[q].at = "counted"
    BY <1>4, <1>a DEF Insert
  <2>2. request[q].count + 1 \in Nat
    <3>1. PICK n \in Nat : n = request[q].count
      BY <2>1 DEF RequestType
    <3> QED BY <3>1
  <2>3. row \in GenerationType /\ row.state = "live"
        /\ row.base = request[q].resume /\ row.owner = request[q].user
    BY <1>b, <2>1, <2>2 DEF GenerationType, RequestType
  <2>4. generation' = [generation EXCEPT ![g] = row] /\ ~Exists(g)
    BY <1>4 DEF Insert, Exists
  <2>5. /\ request[q].user \in Users /\ request[q].resume \in Resumes
        /\ resume[request[q].resume].state # "none"
        /\ resume[request[q].resume].owner = request[q].user
    BY <1>a, <2>1 DEF RequestsHold
  <2> HIDE DEF row
  <2> QED BY <2>3, <2>4, <2>5
<1>5. ASSUME NEW g \in Generations, Exists(g)
      PROVE  /\ generation[g].base \in Resumes /\ resume[generation[g].base].state # "none"
             /\ generation[g].owner = resume[generation[g].base].owner
  BY <1>a, <1>5 DEF GenerationsHold
<1>6. ASSUME NEW u \in Users, NEW g \in Generations, DeleteGeneration(u, g)
      PROVE  /\ generation' \in [Generations -> GenerationType] /\ GenerationsHold'
             /\ \A h \in Generations : Exists(h) => SameOrigin(h)
  BY <1>2, <1>5, <1>6, GenerationWritten
<1>7. ASSUME NEW g \in Generations, NEW name \in Names, NEW missing \in SUBSET Skills,
             CommitResult(g, name, missing)
      PROVE  /\ generation' \in [Generations -> GenerationType] /\ GenerationsHold'
             /\ \A h \in Generations : Exists(h) => SameOrigin(h)
  BY <1>3, <1>5, <1>7, GenerationWritten
<1>8. ASSUME NEW q \in Requests, NEW g \in Generations, Insert(q, g)
      PROVE  /\ generation' \in [Generations -> GenerationType] /\ GenerationsHold'
             /\ \A h \in Generations : Exists(h) => SameOrigin(h)
  BY <1>4, <1>8, GenerationWritten
<1> QED BY <1>1, <1>6, <1>7, <1>8, Writers

\* What a result's commit and a new row leave in the columns the runs speak of.
LEMMA ContentStep ==
  ASSUME TypeInv, [Next]_vars, NEW g \in Generations
  PROVE  generation'[g].content \in {0, run[g].n, generation[g].content}
<1>a. generation \in [Generations -> GenerationType]
  BY TypesNamed DEF TypeInv
<1>b. generation[g] \in GenerationType
  BY <1>a
<1>1. ASSUME NEW u \in Users, NEW h \in Generations, DeleteGeneration(u, h)
      PROVE  generation'[g].content = generation[g].content
  BY <1>a, <1>b, <1>1 DEF DeleteGeneration, GenerationType
<1>2. ASSUME NEW q \in Requests, NEW h \in Generations, Insert(q, h)
      PROVE  generation'[g].content \in {0, generation[g].content}
  BY <1>a, <1>b, <1>2 DEF Insert, GenerationType
<1>3. ASSUME NEW h \in Generations, NEW name \in Names, NEW missing \in SUBSET Skills,
             CommitResult(h, name, missing)
      PROVE  generation'[g].content \in {run[g].n, generation[g].content}
  BY <1>a, <1>b, <1>3 DEF CommitResult, GenerationType
<1> QED BY <1>1, <1>2, <1>3, Writers

\* A run that moves on in one place.
LEMMA RunWritten ==
  ASSUME TypeInv, [Next]_vars, NEW g \in Generations, NEW row \in RunType,
         run' = [run EXCEPT ![g] = row], claims' \in 0..MaxRuns, claims <= claims',
         row.n <= claims', Exists(g)',
         row.at \in {"running", "stored", "unstored", "committed"} => row.n # 0
  PROVE  run' \in [Generations -> RunType] /\ RunsHold'
<1>a. run \in [Generations -> RunType] /\ RunsHold /\ claims \in 0..MaxRuns
      /\ generation \in [Generations -> GenerationType]
  BY TypesNamed DEF TypeInv
<1>1. /\ run \in [Generations -> RunType] /\ RunsHold
      /\ generation \in [Generations -> GenerationType]
      /\ claims \in Nat /\ claims' \in Nat
  BY <1>a, Numbers
<1>2. /\ run'[g] = row /\ run' \in [Generations -> RunType]
      /\ \A h \in Generations : h # g => run'[h] = run[h]
  BY <1>1
<1>3. \A h \in Generations : run'[h].at # "none" => Exists(h)'
  BY <1>1, <1>2, GenerationsStep DEF RunsHold, SameOrigin
<1>4. \A h \in Generations :
        run'[h].at \in {"running", "stored", "unstored", "committed"} => run'[h].n # 0
  BY <1>1, <1>2 DEF RunsHold
<1>5. ASSUME NEW h \in Generations
      PROVE  run'[h].n <= claims' /\ generation'[h].content <= claims'
  <2>1. /\ run[h].n \in Nat /\ run[h].n <= claims
        /\ generation[h].content \in Nat /\ generation[h].content <= claims
    <3>1. run[h] \in RunType /\ generation[h] \in GenerationType
      BY <1>1
    <3>2. run[h].n \in 0..MaxRuns /\ generation[h].content \in 0..MaxRuns
      BY <3>1 DEF RunType, GenerationType
    <3> QED BY <1>1, <3>2, BoundsAreNaturals DEF RunsHold
  <2>2. run'[h].n <= claims'
    BY <1>1, <1>2, <2>1
  <2>3. generation'[h].content <= claims'
    BY <1>1, <2>1, ContentStep
  <2> QED BY <2>2, <2>3
<1> QED BY <1>2, <1>3, <1>4, <1>5 DEF RunsHold

LEMMA RunsStep ==
  ASSUME TypeInv, [Next]_vars
  PROVE  /\ run' \in [Generations -> RunType] /\ claims' \in 0..MaxRuns /\ claims <= claims'
         /\ stored' \in [Generations -> 0..MaxRuns]
         /\ RunsHold'
<1>0. /\ run \in [Generations -> RunType] /\ claims \in 0..MaxRuns
      /\ stored \in [Generations -> 0..MaxRuns] /\ RunsHold
      /\ generation \in [Generations -> GenerationType]
  BY TypesNamed DEF TypeInv
<1>a. /\ run \in [Generations -> RunType] /\ claims \in 0..MaxRuns /\ claims \in Nat
      /\ stored \in [Generations -> 0..MaxRuns] /\ RunsHold
      /\ generation \in [Generations -> GenerationType] /\ MaxRuns \in Nat
  BY <1>0, Numbers
<1>b. \A g \in Generations : run[g].at # "none" => Exists(g)'
  BY <1>a, GenerationsStep DEF RunsHold, SameOrigin
<1>c. ASSUME NEW g \in Generations
      PROVE  run[g] \in RunType /\ run[g].n \in 0..MaxRuns /\ run[g].n <= claims
             /\ generation[g].content \in Nat /\ generation[g].content <= claims
  <2>1. run[g] \in RunType /\ generation[g] \in GenerationType
    BY <1>a
  <2>2. run[g].n \in 0..MaxRuns /\ generation[g].content \in 0..MaxRuns
    BY <2>1 DEF RunType, GenerationType
  <2> QED BY <1>a, <2>1, <2>2 DEF RunsHold
\* A step of a run that has been claimed: it keeps its number.
<1>d. ASSUME NEW g \in Generations, NEW at \in {"pending", "stored", "unstored", "committed", "decided"},
             run[g].at \in {"running", "stored", "unstored", "committed"},
             run' = [run EXCEPT ![g].at = at], UNCHANGED claims
      PROVE  run' \in [Generations -> RunType] /\ RunsHold'
  <2> DEFINE row == [run[g] EXCEPT !.at = at]
  <2>1. row \in RunType /\ row.at = at /\ row.n = run[g].n /\ row.n # 0
    BY <1>a, <1>c, <1>d DEF RunType, RunsHold
  <2>2. run' = [run EXCEPT ![g] = row]
    BY <1>d
  <2>3. claims' \in 0..MaxRuns /\ claims <= claims' /\ row.n <= claims' /\ Exists(g)'
    BY <1>a, <1>b, <1>c, <1>d, <2>1
  <2> HIDE DEF row
  <2> QED BY <2>1, <2>2, <2>3, RunWritten
<1>1. CASE UNCHANGED <<run, claims, stored>>
  <2>1. \A g \in Generations : generation'[g].content <= claims'
    BY <1>a, <1>c, <1>1, ContentStep
  <2>2. RunsHold'
    BY <1>a, <1>b, <1>1, <2>1 DEF RunsHold
  <2> QED BY <1>a, <1>1, <2>2
<1>2. ASSUME NEW q \in Requests, NEW g \in Generations, Insert(q, g)
      PROVE  run' \in [Generations -> RunType] /\ RunsHold' /\ UNCHANGED <<claims, stored>>
  <2> DEFINE row == [run[g] EXCEPT !.at = "pending"]
  <2>1. row \in RunType /\ row.at = "pending" /\ row.n = run[g].n
    BY <1>c DEF RunType
  <2>2. run' = [run EXCEPT ![g] = row] /\ UNCHANGED <<claims, stored>>
    BY <1>2 DEF Insert
  <2>3. Exists(g)'
    BY <1>2, <1>a DEF Insert, Exists
  <2>4. claims' \in 0..MaxRuns /\ claims <= claims' /\ row.n <= claims'
    BY <1>a, <1>c, <2>1, <2>2
  <2> HIDE DEF row
  <2> QED BY <2>1, <2>2, <2>3, <2>4, RunWritten
<1>3. ASSUME NEW g \in Generations, Claim(g)
      PROVE  /\ run' \in [Generations -> RunType] /\ RunsHold' /\ UNCHANGED stored
             /\ claims' \in 0..MaxRuns /\ claims <= claims'
  <2>1. PICK at \in {"decided", "running"} :
          /\ run' = [run EXCEPT ![g] = [at |-> at, n |-> claims + 1]]
          /\ claims < MaxRuns /\ claims' = claims + 1 /\ UNCHANGED stored
          /\ run[g].at = "pending"
    BY <1>3 DEF Claim
  <2> DEFINE row == [at |-> at, n |-> claims + 1]
  <2>2. claims + 1 \in 0..MaxRuns /\ claims + 1 # 0
    BY <1>a, <2>1
  <2>3. row \in RunType /\ row.n = claims + 1
    BY <2>2 DEF RunType
  <2>4. Exists(g)'
    BY <1>b, <2>1
  <2> HIDE DEF row
  <2>5. run' = [run EXCEPT ![g] = row]
    BY <2>1 DEF row
  <2>6. claims' \in 0..MaxRuns /\ claims <= claims' /\ row.n <= claims' /\ row.n # 0
    BY <1>a, <2>1, <2>2, <2>3
  <2> QED BY <2>1, <2>3, <2>4, <2>5, <2>6, RunWritten
<1>4. ASSUME NEW g \in Generations, PutPdf(g)
      PROVE  /\ run' \in [Generations -> RunType] /\ RunsHold' /\ UNCHANGED claims
             /\ stored' \in [Generations -> 0..MaxRuns]
  BY <1>4, <1>a, <1>c, <1>d DEF PutPdf
<1>5. ASSUME NEW g \in Generations,
             \/ PutFails(g) \/ Decide(g) \/ CrashRun(g)
             \/ \E name \in Names, missing \in SUBSET Skills : CommitResult(g, name, missing)
      PROVE  run' \in [Generations -> RunType] /\ RunsHold' /\ UNCHANGED <<claims, stored>>
  <2>1. PICK at \in {"pending", "unstored", "committed", "decided"} :
          /\ run' = [run EXCEPT ![g].at = at] /\ UNCHANGED <<claims, stored>>
          /\ run[g].at \in {"running", "stored", "unstored", "committed"}
    BY <1>5 DEF PutFails, Decide, CrashRun, CommitResult
  <2> QED BY <1>d, <2>1
<1>6. CASE \E q \in Requests, g \in Generations : Insert(q, g)
  BY <1>2, <1>6, <1>a
<1>7. CASE \E g \in Generations :
             \/ Claim(g) \/ PutPdf(g) \/ PutFails(g) \/ Decide(g) \/ CrashRun(g)
             \/ \E name \in Names, missing \in SUBSET Skills : CommitResult(g, name, missing)
  BY <1>3, <1>4, <1>5, <1>7, <1>a
<1> QED BY <1>1, <1>6, <1>7, Writers

LEMMA GapsStep ==
  ASSUME TypeInv, [Next]_vars
  PROVE  gaps' \subseteq GapRows /\ GapsHold' /\ gaps \subseteq gaps'
<1>a. /\ run \in [Generations -> RunType] /\ RunsHold /\ gaps \subseteq GapRows /\ GapsHold
      /\ generation \in [Generations -> GenerationType]
  BY TypesNamed DEF TypeInv
<1>b. \A x \in gaps : x.gen \in Generations
  BY <1>a DEF GapRows
<1>1. CASE UNCHANGED gaps
  BY <1>a, <1>b, <1>1, GenerationsStep DEF GapsHold, SameOrigin
<1>2. ASSUME NEW g \in Generations, NEW name \in Names, NEW missing \in SUBSET Skills,
             CommitResult(g, name, missing)
      PROVE  gaps' \subseteq GapRows /\ GapsHold' /\ gaps \subseteq gaps'
  <2> DEFINE final == IF name = Blank THEN generation[g].name ELSE name
             rows == {[gen |-> g, run |-> run[g].n, skill |-> s, name |-> final] : s \in missing}
  <2>1. gaps' = gaps \cup rows
    BY <1>2 DEF CommitResult
  <2>2. final \in Names
    BY <1>a DEF GenerationType
  <2>3. run[g].n \in 1..MaxRuns /\ Exists(g)
    <3>1. run[g] \in RunType /\ run[g].n # 0 /\ run[g].at # "none"
      BY <1>2, <1>a DEF CommitResult, RunsHold
    <3>2. run[g].n \in 0..MaxRuns
      BY <3>1 DEF RunType
    <3>3. \A n \in 0..MaxRuns : n # 0 => n \in 1..MaxRuns
      BY BoundsAreNaturals
    <3> QED BY <1>a, <3>1, <3>2, <3>3 DEF RunsHold
  <2>4. rows \subseteq GapRows /\ \A x \in rows : x.gen = g
    BY <2>2, <2>3 DEF GapRows
  <2> HIDE DEF rows
  <2> QED BY <1>a, <1>b, <2>1, <2>3, <2>4, GenerationsStep DEF GapsHold, SameOrigin
<1> QED BY <1>1, <1>2, Writers

LEMMA RoadmapStep ==
  ASSUME TypeInv, [Next]_vars
  PROVE  roadmap' \in RoadmapType /\ roadmaps' \in 0..MaxRoadmaps
<1>a. /\ roadmap \in RoadmapType /\ roadmaps \in 0..MaxRoadmaps /\ gaps \subseteq GapRows
      /\ generation \in [Generations -> GenerationType]
  BY TypesNamed DEF TypeInv
<1>b. \A u, s : GapsOf(u, s) \in SUBSET GapRows
  BY <1>a DEF GapsOf
<1>c. \A u : [s \in Skills |-> GapsOf(u, s)] \in [Skills -> SUBSET GapRows]
  BY <1>b
<1>1. NoRoadmap \in RoadmapType
  BY DEF NoRoadmap, RoadmapType
<1>2. ASSUME NEW u \in Users, CountTotal(u)
      PROVE  roadmap' \in RoadmapType /\ roadmaps' \in 0..MaxRoadmaps
  <2> DEFINE sum == Cardinality({g \in Generations : OwnedGeneration(u, g)})
             before == [s \in Skills |-> GapsOf(u, s)]
  <2>1. sum \in Nat
    <3>1. {g \in Generations : OwnedGeneration(u, g)} \subseteq Generations
      OBVIOUS
    <3> QED BY <3>1, GenerationsAreFinite, FS_Subset, FS_CardinalityType
  <2>2. before \in [Skills -> SUBSET GapRows]
    BY <1>c
  <2>3. /\ roadmap' = [NoRoadmap EXCEPT !.at = "total", !.user = u, !.before = before, !.total = sum]
        /\ roadmaps < MaxRoadmaps /\ roadmaps' = roadmaps + 1
    BY <1>2 DEF CountTotal
  <2> HIDE DEF sum, before
  <2>4. roadmap' \in RoadmapType
    BY <1>1, <2>1, <2>2, <2>3 DEF RoadmapType
  <2>5. roadmaps' \in 0..MaxRoadmaps
    BY <1>a, <2>3, BoundsAreNaturals
  <2> QED BY <2>4, <2>5
<1>3. CASE CountGaps
  <2> DEFINE counted == [s \in Skills |-> GapsOf(roadmap.user, s)]
  <2>1. counted \in [Skills -> SUBSET GapRows]
    BY <1>c
  <2> DEFINE left == {s \in Skills : GapsOf(roadmap.user, s) # {}}
  <2>2. /\ roadmap' = [roadmap EXCEPT !.at = "counted", !.counted = counted, !.left = left]
        /\ UNCHANGED roadmaps
    BY <1>3 DEF CountGaps
  <2>3. left \in SUBSET Skills
    OBVIOUS
  <2> HIDE DEF counted, left
  <2> QED BY <1>a, <2>1, <2>2, <2>3 DEF RoadmapType
<1>4. ASSUME NEW s \in Skills, ReadCompanies(s)
      PROVE  roadmap' \in RoadmapType /\ roadmaps' \in 0..MaxRoadmaps
  <2> DEFINE named == {x.name : x \in GapsOf(roadmap.user, s)} \ {Blank}
  <2>1. named \in SUBSET Names
    BY <1>b DEF GapRows
  <2>2. roadmap' = [roadmap EXCEPT !.names[s] = named, !.left = @ \ {s}] /\ UNCHANGED roadmaps
    BY <1>4 DEF ReadCompanies
  <2> HIDE DEF named
  <2> QED BY <1>a, <2>1, <2>2 DEF RoadmapType
<1>5. CASE Dismiss
  BY <1>1, <1>5, <1>a DEF Dismiss
<1>6. CASE UNCHANGED <<roadmap, roadmaps>>
  BY <1>6, <1>a
<1> QED BY <1>2, <1>3, <1>4, <1>5, <1>6, Writers

LEMMA TypeInvStep == TypeInv /\ [Next]_vars => TypeInv'
<1> SUFFICES ASSUME TypeInv, [Next]_vars PROVE TypeInv'
  OBVIOUS
<1>1. /\ resume' \in [Resumes -> [state : {"none", "live", "deleted"}, owner : Users \cup {""}]]
      /\ request' \in [Requests -> RequestType] /\ RequestsHold'
      /\ generation' \in [Generations -> GenerationType] /\ GenerationsHold'
      /\ run' \in [Generations -> RunType] /\ claims' \in 0..MaxRuns
      /\ stored' \in [Generations -> 0..MaxRuns] /\ RunsHold'
      /\ gaps' \subseteq GapRows /\ GapsHold'
      /\ roadmap' \in RoadmapType /\ roadmaps' \in 0..MaxRoadmaps
  BY ResumesStep, RequestsStep, GenerationsStep, RunsStep, GapsStep, RoadmapStep
<1>2. \A g \in Generations : Exists(g)' =>
        /\ generation'[g].base \in Resumes
        /\ generation'[g].owner = resume'[generation'[g].base].owner
  BY <1>1 DEF GenerationsHold
<1>3. TypeOK'
  <2>1. /\ run' \in [Generations ->
             [at : {"none", "pending", "running", "stored", "unstored", "committed", "decided"},
              n : 0..MaxRuns]]
        /\ request' \in [Requests ->
             [at : {"idle", "fetching", "counted", "over"}, user : Users \cup {""},
              resume : Resumes \cup {""}, name : Names, count : Nat, before : SUBSET Generations]]
    BY <1>1 DEF RunType, RequestType
  <2>2. generation' \in [Generations ->
          [state : {"none", "live", "deleted"}, owner : Users \cup {""},
           base : Resumes \cup {""}, asked : Names, name : Names, version : Nat,
           content : 0..MaxRuns, key : 0..MaxRuns, before : SUBSET Generations,
           renamed : BOOLEAN]]
    BY <1>1 DEF GenerationType
  <2>3. roadmap' \in [at : {"idle", "total", "counted"}, user : Users \cup {""},
          total : Nat, before : [Skills -> SUBSET GapRows], counted : [Skills -> SUBSET GapRows],
          names : [Skills -> SUBSET Names], left : SUBSET Skills]
    BY <1>1 DEF RoadmapType
  <2> QED BY <1>1, <1>2, <2>1, <2>2, <2>3 DEF TypeOK, Exists
<1> QED BY <1>1, <1>3 DEF TypeInv

\* Every table keeps its types, every handler holds a resume of its user, and
\* every generation belongs to the owner of the resume it was made from, however
\* requests, runs and deletions interleave.
THEOREM TypeCorrect == Spec => []TypeOK
<1>1. TypeInv => TypeOK
  BY DEF TypeInv
<1> QED BY <1>1, TypeInvInit, TypeInvStep, PTL DEF Spec

-------------------------------------------------------------------------------
(* The stored PDF. *)

\* What is uploaded is what the run will commit; a key is the content's, or none.
PdfHolds ==
  \A g \in Generations :
    /\ run[g].at = "stored" => stored[g] = run[g].n
    /\ generation[g].key # 0 => generation[g].key = generation[g].content
    /\ generation[g].key # 0 /\ run[g].n = generation[g].content =>
         stored[g] = generation[g].content

LEMMA PdfStep ==
  ASSUME TypeInv, PdfHolds, [Next]_vars
  PROVE  PdfHolds'
<1>a. /\ run \in [Generations -> RunType] /\ RunsHold /\ claims \in Nat
      /\ stored \in [Generations -> 0..MaxRuns]
      /\ generation \in [Generations -> GenerationType]
  BY TypesNamed, Numbers DEF TypeInv
<1>b. \A g \in Generations : run[g] \in RunType /\ generation[g] \in GenerationType
  BY <1>a
\* Rows are written one at a time: it is enough to look at the one written.
<1>c. ASSUME NEW g \in Generations,
             \A h \in Generations : h # g =>
               run'[h] = run[h] /\ stored'[h] = stored[h] /\ generation'[h] = generation[h],
             run'[g].at = "stored" => stored'[g] = run'[g].n,
             generation'[g].key # 0 => generation'[g].key = generation'[g].content,
             generation'[g].key # 0 /\ run'[g].n = generation'[g].content =>
               stored'[g] = generation'[g].content
      PROVE  PdfHolds'
  BY <1>c DEF PdfHolds
<1>1. ASSUME NEW u \in Users, NEW g \in Generations, DeleteGeneration(u, g)
      PROVE  PdfHolds'
  <2>1. /\ UNCHANGED <<run, stored>>
        /\ \A h \in Generations : generation'[h].key = generation[h].key
                                  /\ generation'[h].content = generation[h].content
    BY <1>1, <1>a, <1>b DEF DeleteGeneration, GenerationType
  <2> QED BY <2>1 DEF PdfHolds
<1>2. ASSUME NEW q \in Requests, NEW g \in Generations, Insert(q, g)
      PROVE  PdfHolds'
  <2>1. /\ generation'[g].key = 0 /\ run'[g].at = "pending" /\ UNCHANGED stored
        /\ \A h \in Generations : h # g => generation'[h] = generation[h] /\ run'[h] = run[h]
    BY <1>2, <1>a, <1>b DEF Insert, RunType
  <2> QED BY <1>c, <2>1
<1>3. ASSUME NEW g \in Generations, Claim(g)
      PROVE  PdfHolds'
  <2>1. /\ run'[g].n = claims + 1 /\ run'[g].at # "stored" /\ UNCHANGED <<generation, stored>>
        /\ \A h \in Generations : h # g => run'[h] = run[h]
    BY <1>3, <1>a DEF Claim
  <2>2. claims + 1 # generation[g].content
    <3>1. generation[g].content \in Nat /\ generation[g].content <= claims
      <4>1. generation[g].content \in 0..MaxRuns
        BY <1>b DEF GenerationType
      <4> QED BY <1>a, <4>1, Numbers DEF RunsHold
    <3> QED BY <1>a, <3>1
  <2> QED BY <1>c, <2>1, <2>2 DEF PdfHolds
<1>4. ASSUME NEW g \in Generations, PutPdf(g)
      PROVE  PdfHolds'
  <2>1. /\ run'[g].n = run[g].n /\ stored'[g] = run[g].n /\ UNCHANGED generation
        /\ \A h \in Generations : h # g => run'[h] = run[h] /\ stored'[h] = stored[h]
    BY <1>4, <1>a, <1>b DEF PutPdf, RunType
  <2> QED BY <1>c, <2>1 DEF PdfHolds
<1>5. ASSUME NEW g \in Generations, PutFails(g) \/ Decide(g) \/ CrashRun(g)
      PROVE  PdfHolds'
  <2>1. /\ run'[g].n = run[g].n /\ run'[g].at # "stored" /\ UNCHANGED <<generation, stored>>
        /\ \A h \in Generations : h # g => run'[h] = run[h]
    BY <1>5, <1>a, <1>b DEF PutFails, Decide, CrashRun, RunType
  <2> QED BY <1>c, <2>1 DEF PdfHolds
<1>6. ASSUME NEW g \in Generations, NEW name \in Names, NEW missing \in SUBSET Skills,
             CommitResult(g, name, missing)
      PROVE  PdfHolds'
  <2>1. /\ run'[g].n = run[g].n /\ run'[g].at = "committed" /\ UNCHANGED stored
        /\ \A h \in Generations : h # g => run'[h] = run[h] /\ generation'[h] = generation[h]
    BY <1>6, <1>a, <1>b DEF CommitResult, RunType
  <2>2. /\ generation'[g].content = run[g].n
        /\ generation'[g].key = IF run[g].at = "stored" THEN run[g].n ELSE 0
    <3> DEFINE final == IF name = Blank THEN generation[g].name ELSE name
               key == IF run[g].at = "stored" THEN run[g].n ELSE 0
               other == final # generation[g].name
               row == [generation[g] EXCEPT !.content = run[g].n, !.name = final,
                                            !.renamed = @ \/ other, !.key = key]
    <3>1. generation' = [generation EXCEPT ![g] = row]
      BY <1>6 DEF CommitResult
    <3> HIDE DEF final, other, key
    <3>2. row.content = run[g].n /\ row.key = key
      <4>1. generation[g] \in GenerationType
        BY <1>b
      <4> QED BY ONLY <4>1 DEF GenerationType
    <3> HIDE DEF row
    <3> QED BY <1>a, <3>1, <3>2 DEF key
  <2> QED BY <1>c, <2>1, <2>2 DEF PdfHolds
<1>7. CASE UNCHANGED <<generation, run, claims, stored>>
  BY <1>7 DEF PdfHolds
<1> QED BY <1>1, <1>2, <1>3, <1>4, <1>5, <1>6, <1>7, Writers

\* The PDF under a generation's key is the one made from the source in its row,
\* until the generation is claimed again: for any number of runs and crashes.
THEOREM PdfCorrect == Spec => []PdfIsOfSource
<1>1. Init => TypeInv /\ PdfHolds
  <2>1. SUFFICES ASSUME Init PROVE PdfHolds
    BY TypeInvInit
  <2>2. \A g \in Generations : run[g].at = "none" /\ generation[g].key = 0
    BY <2>1 DEF Init, NoGeneration
  <2> QED BY <2>2 DEF PdfHolds
<1>2. TypeInv /\ PdfHolds /\ [Next]_vars => (TypeInv /\ PdfHolds)'
  BY TypeInvStep, PdfStep
<1>3. PdfHolds => PdfIsOfSource
  BY DEF PdfHolds, PdfIsOfSource
<1> QED BY <1>1, <1>2, <1>3, PTL DEF Spec

-------------------------------------------------------------------------------
(* The roadmap. *)

RoadmapHolds ==
  \A s \in Skills :
    /\ roadmap.at \in {"total", "counted"} =>
         roadmap.before[s] \subseteq GapsOf(roadmap.user, s)
    /\ roadmap.at = "counted" =>
         /\ roadmap.before[s] \subseteq roadmap.counted[s]
         /\ roadmap.counted[s] \subseteq GapsOf(roadmap.user, s)
    /\ roadmap.at = "counted" /\ s \notin roadmap.left =>
         \A x \in roadmap.counted[s] : x.name \in roadmap.names[s] \cup {Blank}

\* The rows of a skill only become more: no generation changes its owner.
LEMMA GapsOfGrow ==
  ASSUME TypeInv, [Next]_vars, NEW u, NEW s
  PROVE  GapsOf(u, s) \subseteq GapsOf(u, s)'
<1>1. \A x \in gaps : x.gen \in Generations /\ Exists(x.gen)
  BY TypesNamed DEF TypeInv, GapsHold, GapRows
<1>2. \A x \in gaps : generation'[x.gen].owner = generation[x.gen].owner
  BY <1>1, GenerationsStep DEF SameOrigin
<1>3. gaps \subseteq gaps'
  BY GapsStep
<1> QED BY <1>2, <1>3 DEF GapsOf

LEMMA RoadmapHoldsStep ==
  ASSUME TypeInv, RoadmapHolds, [Next]_vars
  PROVE  RoadmapHolds'
<1>a. roadmap \in RoadmapType
  BY TypesNamed DEF TypeInv
<1>1. CASE UNCHANGED <<roadmap, roadmaps>>
  BY <1>1, GapsOfGrow DEF RoadmapHolds
<1>2. ASSUME NEW u \in Users, CountTotal(u)
      PROVE  RoadmapHolds'
  <2> DEFINE sum == Cardinality({g \in Generations : OwnedGeneration(u, g)})
             before == [s \in Skills |-> GapsOf(u, s)]
  <2>1. roadmap' = [NoRoadmap EXCEPT !.at = "total", !.user = u, !.before = before, !.total = sum]
    BY <1>2 DEF CountTotal
  <2>2. \A s \in Skills : before[s] = GapsOf(u, s)
    OBVIOUS
  <2> HIDE DEF before, sum
  <2>3. roadmap'.at = "total" /\ roadmap'.user = u /\ roadmap'.before = before
    BY <2>1 DEF NoRoadmap
  <2> QED BY <2>2, <2>3, GapsOfGrow DEF RoadmapHolds
<1>3. CASE CountGaps
  <2> DEFINE counted == [s \in Skills |-> GapsOf(roadmap.user, s)]
  <2> DEFINE left == {s \in Skills : GapsOf(roadmap.user, s) # {}}
  <2>1. /\ roadmap' = [roadmap EXCEPT !.at = "counted", !.counted = counted, !.left = left]
        /\ roadmap.at = "total"
    BY <1>3 DEF CountGaps
  <2>2. \A s \in Skills : counted[s] = GapsOf(roadmap.user, s) /\ (s \notin left => counted[s] = {})
    OBVIOUS
  <2> HIDE DEF counted, left
  <2>3. /\ roadmap'.at = "counted" /\ roadmap'.user = roadmap.user
        /\ roadmap'.before = roadmap.before /\ roadmap'.counted = counted
        /\ roadmap'.left = left
    BY <1>a, <2>1 DEF RoadmapType
  <2> QED BY <2>1, <2>2, <2>3, GapsOfGrow DEF RoadmapHolds
<1>4. ASSUME NEW s \in Skills, ReadCompanies(s)
      PROVE  RoadmapHolds'
  <2> DEFINE named == {x.name : x \in GapsOf(roadmap.user, s)} \ {Blank}
  <2>1. roadmap' = [roadmap EXCEPT !.names[s] = named, !.left = @ \ {s}] /\ s \in roadmap.left
    BY <1>4 DEF ReadCompanies
  <2>2. \A x \in GapsOf(roadmap.user, s) : x.name \in named \cup {Blank}
    OBVIOUS
  <2> HIDE DEF named
  <2>3. /\ roadmap'.at = roadmap.at /\ roadmap'.user = roadmap.user
        /\ roadmap'.before = roadmap.before /\ roadmap'.counted = roadmap.counted
        /\ roadmap'.left = roadmap.left \ {s}
        /\ roadmap'.names[s] = named
        /\ \A t \in Skills \ {s} : roadmap'.names[t] = roadmap.names[t]
    BY <1>a, <2>1 DEF RoadmapType
  <2>4. ASSUME roadmap.at = "counted"
        PROVE  \A x \in roadmap.counted[s] : x.name \in named \cup {Blank}
    BY <2>2, <2>4 DEF RoadmapHolds
  <2>5. ASSUME NEW t \in Skills
        PROVE  /\ roadmap'.at \in {"total", "counted"} =>
                    roadmap'.before[t] \subseteq GapsOf(roadmap.user, t)
               /\ roadmap'.at = "counted" =>
                    /\ roadmap'.before[t] \subseteq roadmap'.counted[t]
                    /\ roadmap'.counted[t] \subseteq GapsOf(roadmap.user, t)
               /\ roadmap'.at = "counted" /\ t \notin roadmap'.left =>
                    \A x \in roadmap'.counted[t] : x.name \in roadmap'.names[t] \cup {Blank}
    BY <2>3, <2>4 DEF RoadmapHolds
  <2> QED BY <2>3, <2>5, GapsOfGrow DEF RoadmapHolds
<1>5. CASE Dismiss
  BY <1>5 DEF Dismiss, NoRoadmap, RoadmapHolds
<1> QED BY <1>1, <1>2, <1>3, <1>4, <1>5, Writers

\* The statements of a roadmap lose nothing and invent nothing, whatever
\* is committed between them.
THEOREM RoadmapCorrect == Spec => []RoadmapWithinTables
<1>1. Init => TypeInv /\ RoadmapHolds
  <2>1. Init => roadmap = NoRoadmap
    BY DEF Init
  <2>2. NoRoadmap.at = "idle"
    BY DEF NoRoadmap
  <2> QED BY <2>1, <2>2, TypeInvInit DEF RoadmapHolds
<1>2. TypeInv /\ RoadmapHolds /\ [Next]_vars => (TypeInv /\ RoadmapHolds)'
  BY TypeInvStep, RoadmapHoldsStep
<1>3. RoadmapHolds => RoadmapWithinTables
  BY DEF RoadmapHolds, RoadmapWithinTables, Answered, GapsOf
<1> QED BY <1>1, <1>2, <1>3, PTL DEF Spec

-------------------------------------------------------------------------------
(* Version numbers. *)

NoneRenamed == \A g \in Generations : ~generation[g].renamed

\* The generations of S that were asked for the same name on the same resume.
Like(table, S, user, base, name) ==
  {g \in S : /\ table[g].owner = user
             /\ table[g].base = base
             /\ table[g].asked = name}

\* A set that holds, with each generation, all that was there before it.
DownClosed(table, S) ==
  \A g \in S : table[g].state # "none" /\ table[g].before \subseteq S

Counted(table, g) ==
  table[g].version =
    Cardinality(Like(table, table[g].before, table[g].owner, table[g].base, table[g].asked)) + 1

VersionsHold ==
  /\ \A g \in Generations : ~Exists(g) => ~generation[g].renamed
  /\ \A g \in Generations : Exists(g) /\ ~generation[g].renamed =>
       generation[g].name = generation[g].asked
  /\ \A g \in Generations : Exists(g) =>
       DownClosed(generation, generation[g].before) /\ g \notin generation[g].before
  /\ \A q \in Requests : request[q].at = "counted" => DownClosed(generation, request[q].before)
  /\ NoneRenamed => \A g \in Generations : Exists(g) => Counted(generation, g)
  /\ NoneRenamed => \A q \in Requests : request[q].at = "counted" =>
       request[q].count =
         Cardinality(Like(generation, request[q].before, request[q].user, request[q].resume,
                          request[q].name))

\* Among generations that exist, nothing these definitions look at changes.
LEMMA LikeKept ==
  ASSUME TypeInv, [Next]_vars, NEW S \in SUBSET Generations, DownClosed(generation, S)
  PROVE  /\ DownClosed(generation', S)
         /\ \A user, base, name :
              Like(generation', S, user, base, name) = Like(generation, S, user, base, name)
<1>1. \A g \in S : Exists(g) /\ SameOrigin(g)
  BY GenerationsStep DEF DownClosed, Exists
<1>2. DownClosed(generation', S)
  BY <1>1 DEF DownClosed, Exists, SameOrigin
<1>3. \A user, base, name :
        Like(generation', S, user, base, name) = Like(generation, S, user, base, name)
  BY <1>1 DEF Like, SameOrigin
<1> QED BY <1>2, <1>3

LEMMA NoneRenamedBefore ==
  ASSUME TypeInv, VersionsHold, [Next]_vars, NoneRenamed'
  PROVE  NoneRenamed
BY GenerationsStep DEF NoneRenamed, VersionsHold, SameOrigin

\* A generation's own set is smaller than that of every later one of its kind.
LEMMA LikeGrows ==
  ASSUME TypeOK, NEW S \in SUBSET Generations, NEW T \in SUBSET Generations,
         S \subseteq T, NEW g \in T, g \notin S
  PROVE  LET user == generation[g].owner
             base == generation[g].base
             name == generation[g].asked
         IN Cardinality(Like(generation, S, user, base, name))
              < Cardinality(Like(generation, T, user, base, name))
<1> DEFINE like(U) == Like(generation, U, generation[g].owner, generation[g].base, generation[g].asked)
           A == like(S)
           B == like(T)
<1>1. A \subseteq B /\ g \in B /\ g \notin A /\ B \subseteq Generations
  BY DEF Like
<1>2. IsFiniteSet(B)
  BY <1>1, GenerationsAreFinite, FS_Subset
<1>3. A # B
  BY <1>1
<1> HIDE DEF A, B
<1>4. Cardinality(A) < Cardinality(B)
  BY <1>1, <1>2, <1>3, FS_Subset, FS_CardinalityType
<1> QED BY <1>4 DEF A, B

\* The row of a generation after a step that is not its insertion.
LEMMA NamesStep ==
  ASSUME TypeInv, VersionsHold, [Next]_vars,
         ~ \E q \in Requests, g \in Generations : Insert(q, g),
         NEW g \in Generations
  PROVE  /\ Exists(g)' <=> Exists(g)
         /\ generation'[g].renamed \/ generation'[g].name = generation[g].name
         /\ ~Exists(g) => ~generation'[g].renamed
<1>a. generation \in [Generations -> GenerationType] /\ RunsHold
  BY TypesNamed DEF TypeInv
<1>b. generation[g] \in GenerationType
  BY <1>a
<1>1. CASE UNCHANGED generation
  BY <1>1 DEF Exists, VersionsHold
<1>2. ASSUME NEW u \in Users, NEW h \in Generations, DeleteGeneration(u, h)
      PROVE  /\ Exists(g)' <=> Exists(g)
             /\ generation'[g].name = generation[g].name
             /\ generation'[g].renamed = generation[g].renamed
  BY <1>2, <1>a, <1>b DEF DeleteGeneration, OwnedGeneration, Exists, GenerationType
<1>3. ASSUME NEW h \in Generations, NEW name \in Names, NEW missing \in SUBSET Skills,
             CommitResult(h, name, missing)
      PROVE  /\ Exists(g)' <=> Exists(g)
             /\ generation'[g].renamed \/ generation'[g].name = generation[g].name
             /\ ~Exists(g) => generation'[g].renamed = generation[g].renamed
  <2> DEFINE final == IF name = Blank THEN generation[h].name ELSE name
             key == IF run[h].at = "stored" THEN run[h].n ELSE 0
             other == final # generation[h].name
             row == [generation[h] EXCEPT !.content = run[h].n, !.name = final,
                                          !.renamed = @ \/ other, !.key = key]
  <2>1. generation' = [generation EXCEPT ![h] = row]
    BY <1>3 DEF CommitResult
  <2>2. generation[h] \in GenerationType
    BY <1>a
  <2>3. Exists(h)
    BY <1>3, <1>a DEF CommitResult, RunsHold
  <2> HIDE DEF final, key
  <2>4. /\ row.state = generation[h].state /\ row.name = final
        /\ row.renamed = (generation[h].renamed \/ other)
    BY ONLY <2>2 DEF GenerationType
  <2>5. row.renamed \/ row.name = generation[h].name
    BY <2>4
  <2> HIDE DEF row, other
  <2> QED BY <1>a, <2>1, <2>3, <2>4, <2>5 DEF Exists
<1> QED BY <1>1, <1>2, <1>3, Writers DEF VersionsHold

LEMMA VersionsStep ==
  ASSUME TypeInv, TypeInv', VersionsHold, [Next]_vars
  PROVE  VersionsHold'
<1>0. /\ generation \in [Generations -> GenerationType]
      /\ request \in [Requests -> RequestType]
  BY TypesNamed DEF TypeInv
<1>a. /\ \A g \in Generations : generation[g].before \in SUBSET Generations
      /\ \A q \in Requests : request[q].before \in SUBSET Generations
  BY <1>0 DEF GenerationType, RequestType
\* What holds of a row that was there keeps holding.
<1>b. ASSUME NEW g \in Generations, Exists(g)
      PROVE  /\ DownClosed(generation', generation'[g].before) /\ g \notin generation'[g].before
             /\ NoneRenamed' => Counted(generation', g)
  <2>1. DownClosed(generation, generation[g].before) /\ g \notin generation[g].before
        /\ (NoneRenamed => Counted(generation, g))
    BY <1>b DEF VersionsHold
  <2>2. SameOrigin(g)
    BY <1>b, GenerationsStep
  <2>3. /\ DownClosed(generation', generation[g].before)
        /\ \A user, base, name :
             Like(generation', generation[g].before, user, base, name)
               = Like(generation, generation[g].before, user, base, name)
    BY <1>a, <2>1, LikeKept
  <2>4. NoneRenamed' => Counted(generation', g)
    BY <2>1, <2>2, <2>3, NoneRenamedBefore DEF Counted, SameOrigin
  <2> QED BY <2>1, <2>2, <2>3, <2>4 DEF SameOrigin
\* And of a handler that has counted.
<1>c. ASSUME NEW q \in Requests, request[q].at = "counted", request'[q] = request[q]
      PROVE  /\ DownClosed(generation', request'[q].before)
             /\ NoneRenamed' =>
                  request'[q].count =
                    Cardinality(Like(generation', request'[q].before, request'[q].user,
                                     request'[q].resume, request'[q].name))
  <2>1. /\ DownClosed(generation, request[q].before)
        /\ NoneRenamed =>
             request[q].count =
               Cardinality(Like(generation, request[q].before, request[q].user,
                                request[q].resume, request[q].name))
    BY <1>c DEF VersionsHold
  <2>2. /\ DownClosed(generation', request[q].before)
        /\ \A user, base, name :
             Like(generation', request[q].before, user, base, name)
               = Like(generation, request[q].before, user, base, name)
    BY <1>a, <2>1, LikeKept
  <2> QED BY <1>c, <2>1, <2>2, NoneRenamedBefore
<1>1. ASSUME NEW p \in Requests, NEW g \in Generations, Insert(p, g)
      PROVE  VersionsHold'
  <2> DEFINE row == [state |-> "live", owner |-> request[p].user, base |-> request[p].resume,
                     asked |-> request[p].name, name |-> request[p].name,
                     version |-> request[p].count + 1,
                     content |-> 0, key |-> 0, before |-> request[p].before, renamed |-> FALSE]
  <2>1. /\ generation' = [generation EXCEPT ![g] = row]
        /\ request' = [request EXCEPT ![p] = [Idle EXCEPT !.at = "over"]]
        /\ request[p].at = "counted" /\ ~Exists(g)
    BY <1>1 DEF Insert, Exists
  <2>2. /\ row.state = "live" /\ row.owner = request[p].user /\ row.base = request[p].resume
        /\ row.asked = request[p].name /\ row.name = request[p].name
        /\ row.version = request[p].count + 1 /\ row.before = request[p].before
        /\ row.renamed = FALSE
    OBVIOUS
  <2> HIDE DEF row
  <2>3. /\ generation'[g] = row
        /\ \A h \in Generations : h # g => generation'[h] = generation[h]
        /\ request'[p].at = "over" /\ \A q \in Requests : q # p => request'[q] = request[q]
    BY <1>0, <2>1 DEF Idle
  <2>4. /\ DownClosed(generation, request[p].before)
        /\ g \notin request[p].before
        /\ NoneRenamed =>
             request[p].count =
               Cardinality(Like(generation, request[p].before, request[p].user,
                                request[p].resume, request[p].name))
    BY <2>1 DEF VersionsHold, DownClosed, Exists
  <2>5. /\ DownClosed(generation', request[p].before)
        /\ \A user, base, name :
             Like(generation', request[p].before, user, base, name)
               = Like(generation, request[p].before, user, base, name)
    BY <1>a, <2>4, LikeKept
  <2>6. \A h \in Generations : Exists(h)' <=> Exists(h) \/ h = g
    BY <2>2, <2>3 DEF Exists
  <2>7. NoneRenamed' => Counted(generation', g)
    BY <2>2, <2>3, <2>4, <2>5, NoneRenamedBefore DEF Counted
  <2>8. \A h \in Generations :
          /\ ~Exists(h)' => ~generation'[h].renamed
          /\ Exists(h)' /\ ~generation'[h].renamed => generation'[h].name = generation'[h].asked
    BY <2>2, <2>3, <2>6 DEF VersionsHold
  <2>9. \A h \in Generations : Exists(h)' =>
          /\ DownClosed(generation', generation'[h].before) /\ h \notin generation'[h].before
          /\ NoneRenamed' => Counted(generation', h)
    BY <1>b, <2>2, <2>3, <2>4, <2>5, <2>6, <2>7
  <2>10. \A q \in Requests : request'[q].at = "counted" =>
           /\ DownClosed(generation', request'[q].before)
           /\ NoneRenamed' =>
                request'[q].count =
                  Cardinality(Like(generation', request'[q].before, request'[q].user,
                                   request'[q].resume, request'[q].name))
    BY <1>c, <2>3
  <2> QED BY <2>8, <2>9, <2>10 DEF VersionsHold
<1>2. ASSUME ~ \E q \in Requests, g \in Generations : Insert(q, g)
      PROVE  VersionsHold'
  <2>1. \A g \in Generations :
          /\ Exists(g)' <=> Exists(g)
          /\ generation'[g].renamed \/ generation'[g].name = generation[g].name
          /\ ~Exists(g) => ~generation'[g].renamed
    BY <1>2, NamesStep
  <2>2. \A g \in Generations : Exists(g) /\ ~generation'[g].renamed =>
          generation'[g].name = generation'[g].asked
    BY <2>1, GenerationsStep DEF VersionsHold, SameOrigin
  <2>3. \A q \in Requests : request'[q].at = "counted" =>
          /\ DownClosed(generation', request'[q].before)
          /\ NoneRenamed' =>
               request'[q].count =
                 Cardinality(Like(generation', request'[q].before, request'[q].user,
                                  request'[q].resume, request'[q].name))
    <3>1. ASSUME NEW p \in Requests, CountVersions(p)
          PROVE  /\ DownClosed(generation', request'[p].before)
                 /\ NoneRenamed' =>
                      request'[p].count =
                        Cardinality(Like(generation', request'[p].before, request'[p].user,
                                         request'[p].resume, request'[p].name))
                 /\ \A q \in Requests : q # p => request'[q] = request[q]
      <4> DEFINE them == Predecessors(request[p].user, request[p].resume, request[p].name)
                 those == {g \in Generations : generation[g].state # "none"}
                 row == [request[p] EXCEPT !.at = "counted", !.count = Cardinality(them),
                                           !.before = those]
      <4>1. UNCHANGED generation
        BY <3>1 DEF CountVersions
      <4>2. DownClosed(generation, those)
        BY <1>a DEF VersionsHold, DownClosed, Exists
      <4>3. NoneRenamed =>
              them = Like(generation, those, request[p].user, request[p].resume, request[p].name)
        BY DEF Predecessors, Like, VersionsHold, NoneRenamed, Exists
      <4> HIDE DEF them, those
      <4>4. request[p] \in RequestType
        BY <1>0
      <4>5. /\ row.before = those /\ row.count = Cardinality(them) /\ row.user = request[p].user
            /\ row.resume = request[p].resume /\ row.name = request[p].name
        BY ONLY <4>4 DEF RequestType
      <4>6. request' = [request EXCEPT ![p] = row]
        <5>1. request' = [request EXCEPT ![p].at = "counted", ![p].count = Cardinality(them),
                                         ![p].before = those]
          BY <3>1 DEF CountVersions, them, those
        <5> QED BY <1>0, <4>4, <5>1 DEF RequestType
      <4> HIDE DEF row
      <4>7. request'[p] = row /\ \A q \in Requests : q # p => request'[q] = request[q]
        BY <1>0, <4>6
      <4>8. NoneRenamed' <=> NoneRenamed
        BY <4>1 DEF NoneRenamed
      <4> QED BY <4>1, <4>2, <4>3, <4>5, <4>7, <4>8
    <3>2. ASSUME NEW p \in Requests,
                 \/ FetchFails(p)
                 \/ \E u \in Users, r \in Resumes, name \in Names : Ask(p, u, r, name)
          PROVE  /\ request'[p].at # "counted"
                 /\ \A q \in Requests : q # p => request'[q] = request[q]
      <4>1. CASE FetchFails(p)
        <5>1. [Idle EXCEPT !.at = "over"].at = "over"
          BY DEF Idle
        <5> QED BY <1>0, <4>1, <5>1 DEF FetchFails
      <4>2. CASE \E u \in Users, r \in Resumes, name \in Names : Ask(p, u, r, name)
        BY <1>0, <4>2 DEF Ask
      <4> QED BY <3>2, <4>1, <4>2
    <3>3. CASE UNCHANGED request
      BY <1>c, <3>3
    <3> QED BY <1>c, <1>2, <3>1, <3>2, <3>3, Writers
  <2>4. \A g \in Generations : Exists(g)' =>
          /\ DownClosed(generation', generation'[g].before) /\ g \notin generation'[g].before
          /\ NoneRenamed' => Counted(generation', g)
    BY <1>b, <2>1
  <2> QED BY <2>1, <2>2, <2>3, <2>4 DEF VersionsHold
<1> QED BY <1>1, <1>2

\* A regeneration's version number is above those of all its predecessors, for
\* any number of handlers that count and insert at the same time, as long as no
\* posting renames a generation.
THEOREM VersionsCorrect == Spec => []VersionsIncrease
<1>1. Init => TypeInv /\ VersionsHold
  <2>1. SUFFICES ASSUME Init PROVE VersionsHold
    BY TypeInvInit
  <2>2. \A g \in Generations : ~Exists(g) /\ ~generation[g].renamed
    BY <2>1 DEF Init, NoGeneration, Exists
  <2>3. \A q \in Requests : request[q].at = "idle"
    BY <2>1 DEF Init, Idle
  <2> QED BY <2>2, <2>3 DEF VersionsHold
<1>2. TypeInv /\ VersionsHold /\ [Next]_vars => (TypeInv /\ VersionsHold)'
  BY TypeInvStep, VersionsStep
<1>3. TypeInv /\ VersionsHold => VersionsIncrease
  <2> SUFFICES ASSUME TypeInv, VersionsHold, NEW g \in Generations, NEW h \in Generations,
                      Exists(h), g \in generation[h].before,
                      generation[g].owner = generation[h].owner,
                      generation[g].base = generation[h].base,
                      generation[g].asked = generation[h].asked,
                      NoneRenamed
               PROVE  generation[h].version > generation[g].version
    BY DEF VersionsIncrease, NoneRenamed, Exists
  <2>1. generation \in [Generations -> GenerationType] /\ TypeOK
    BY TypesNamed DEF TypeInv
  <2>2. /\ generation[g].before \in SUBSET Generations
        /\ generation[h].before \in SUBSET Generations
    BY <2>1 DEF GenerationType
  <2>3. Exists(g) /\ generation[g].before \subseteq generation[h].before
    BY DEF VersionsHold, DownClosed, Exists
  <2>4. g \notin generation[g].before /\ Counted(generation, g) /\ Counted(generation, h)
    BY <2>3 DEF VersionsHold
  <2> DEFINE smaller == Like(generation, generation[g].before, generation[g].owner,
                             generation[g].base, generation[g].asked)
             larger == Like(generation, generation[h].before, generation[g].owner,
                            generation[g].base, generation[g].asked)
  <2>5. Cardinality(smaller) < Cardinality(larger)
    BY <2>1, <2>2, <2>3, <2>4, LikeGrows
  <2>6. Cardinality(smaller) \in Nat /\ Cardinality(larger) \in Nat
    <3>1. smaller \subseteq Generations /\ larger \subseteq Generations
      BY <2>2 DEF Like
    <3> QED BY <3>1, GenerationsAreFinite, FS_Subset, FS_CardinalityType
  <2>7. /\ generation[g].version = Cardinality(smaller) + 1
        /\ generation[h].version = Cardinality(larger) + 1
    BY <2>4 DEF Counted
  <2> HIDE DEF smaller, larger
  <2> QED BY <2>5, <2>6, <2>7
<1> QED BY <1>1, <1>2, <1>3, PTL DEF Spec

===============================================================================
