------------------------------- MODULE Library -------------------------------
(***************************************************************************)
(* The library of a user (app/api/routes.py): the resumes uploaded, the    *)
(* generations made from them with their version numbers and stored PDFs,  *)
(* and the roadmap of missing skills.                                      *)
(*                                                                         *)
(* Every request is a handler with one session; between its statements     *)
(* other requests and the worker commit.  A generation is run by one       *)
(* worker at a time (ForgeQueue says when that holds); a crash ends a run  *)
(* at any point and the generation is run again.                           *)
(***************************************************************************)
EXTENDS Naturals, FiniteSets

CONSTANTS
  Users, Resumes, Generations,
  Requests,     \* requests to create a generation
  Names,        \* what is stored for a company and role
  Blank,        \* the name of a request that gives none
  Skills,       \* normalised skills a posting may want
  MaxRuns,      \* runs, all generations together; they are numbered
  MaxRoadmaps   \* roadmaps asked for

ASSUME BlankIsAName == Blank \in Names
ASSUME GenerationsAreFinite == IsFiniteSet(Generations)
ASSUME BoundsAreNaturals == MaxRuns \in Nat /\ MaxRoadmaps \in Nat

VARIABLES
  resume,       \* the rows of base_resumes
  generation,   \* the rows of generations
  request,      \* handlers of create_generation under way
  run,          \* what the worker does with a generation, and the number of its last run
  claims,       \* runs so far
  stored,       \* the bucket: the run whose PDF stands under the generation's key, 0 if none
  gaps,         \* the rows of generation_gaps
  roadmap,      \* the handler of gap_roadmap
  roadmaps      \* how many were asked for
vars == <<resume, generation, request, run, claims, stored, gaps, roadmap, roadmaps>>

GapRows == [gen : Generations, run : 1..MaxRuns, skill : Skills, name : Names]
NoResume     == [state |-> "none", owner |-> ""]
NoGeneration == [state |-> "none", owner |-> "", base |-> "", asked |-> Blank, name |-> Blank,
                 version |-> 0, content |-> 0, key |-> 0, before |-> {}, renamed |-> FALSE]
Idle == [at |-> "idle", user |-> "", resume |-> "", name |-> Blank, count |-> 0, before |-> {}]

(* --------------------------------- Resumes -------------------------------- *)

\* Mutant of OwnedResume: any resume that was not deleted will do.
LiveResume(u, r) == resume[r].state = "live"

\* _owned_resume: live, and the user's own.
OwnedResume(u, r) == resume[r].state = "live" /\ resume[r].owner = u

\* The document is parsed and compiled first: what cannot be parsed, or no compiler, leaves
\* no row; a document that does not compile is kept like any other.
Upload(u, r) ==
  /\ resume[r].state = "none"
  /\ resume' = [resume EXCEPT ![r] = [state |-> "live", owner |-> u]]
  /\ UNCHANGED <<generation, request, run, claims, stored, gaps, roadmap, roadmaps>>

DeleteResume(u, r) ==
  /\ OwnedResume(u, r)
  /\ resume' = [resume EXCEPT ![r].state = "deleted"]
  /\ UNCHANGED <<generation, request, run, claims, stored, gaps, roadmap, roadmaps>>

(* ------------------------------- Generations ------------------------------ *)

\* create_generation: the resume is looked up, then the posting is fetched.
Ask(q, u, r, name) ==
  /\ request[q].at = "idle"
  /\ OwnedResume(u, r)
  /\ request' = [request EXCEPT ![q] = [at |-> "fetching", user |-> u, resume |-> r, name |-> name,
                                        count |-> 0, before |-> {}]]
  /\ UNCHANGED <<resume, generation, run, claims, stored, gaps, roadmap, roadmaps>>

FetchFails(q) ==
  /\ request[q].at = "fetching"
  /\ request' = [request EXCEPT ![q] = [Idle EXCEPT !.at = "over"]]
  /\ UNCHANGED <<resume, generation, run, claims, stored, gaps, roadmap, roadmaps>>

\* Mutant of Predecessors: deleted generations are left out of the count.
LivePredecessors(u, r, name) ==
  {g \in Generations : /\ generation[g].state = "live"
                       /\ generation[g].owner = u
                       /\ generation[g].base = r
                       /\ generation[g].name = name}

\* The generations counted for a version number, deleted ones included.
Predecessors(u, r, name) ==
  {g \in Generations : /\ generation[g].state # "none"
                       /\ generation[g].owner = u
                       /\ generation[g].base = r
                       /\ generation[g].name = name}

\* The count is a statement of its own: it sees what is committed by then.  `before` is
\* history: everything that existed.
CountVersions(q) ==
  /\ request[q].at = "fetching"
  /\ request' = [request EXCEPT
       ![q].at = "counted",
       ![q].count = Cardinality(Predecessors(request[q].user, request[q].resume, request[q].name)),
       ![q].before = {g \in Generations : generation[g].state # "none"}]
  /\ UNCHANGED <<resume, generation, run, claims, stored, gaps, roadmap, roadmaps>>

Insert(q, g) ==
  /\ request[q].at = "counted"
  /\ generation[g].state = "none"
  /\ LET req == request[q] IN
     generation' = [generation EXCEPT
       ![g] = [state |-> "live", owner |-> req.user, base |-> req.resume,
               asked |-> req.name, name |-> req.name,
               version |-> req.count + 1,
               content |-> 0, key |-> 0, before |-> req.before, renamed |-> FALSE]]
  /\ request' = [request EXCEPT ![q] = [Idle EXCEPT !.at = "over"]]
  /\ run' = [run EXCEPT ![g].at = "pending"]
  /\ UNCHANGED <<resume, claims, stored, gaps, roadmap, roadmaps>>

\* _owned_generation.
OwnedGeneration(u, g) == generation[g].state = "live" /\ generation[g].owner = u

DeleteGeneration(u, g) ==
  /\ OwnedGeneration(u, g)
  /\ generation' = [generation EXCEPT ![g].state = "deleted"]
  /\ UNCHANGED <<resume, request, run, claims, stored, gaps, roadmap, roadmaps>>

(* ------------------------------- The worker ------------------------------- *)

Claim(g) ==
  /\ run[g].at = "pending" /\ claims < MaxRuns
  /\ claims' = claims + 1
  /\ run' = [run EXCEPT ![g] = [at |-> IF generation[g].state = "deleted" THEN "decided" ELSE "running",
                                n |-> claims + 1]]
  /\ UNCHANGED <<resume, generation, request, stored, gaps, roadmap, roadmaps>>

\* _persist: the PDF is put under the generation's key before anything is committed.  An
\* upload that fails is logged, and the run goes on without a key.
PutPdf(g) ==
  /\ run[g].at = "running"
  /\ run' = [run EXCEPT ![g].at = "stored"]
  /\ stored' = [stored EXCEPT ![g] = run[g].n]
  /\ UNCHANGED <<resume, generation, request, claims, gaps, roadmap, roadmaps>>
PutFails(g) ==
  /\ run[g].at = "running"
  /\ run' = [run EXCEPT ![g].at = "unstored"]
  /\ UNCHANGED <<resume, generation, request, claims, stored, gaps, roadmap, roadmaps>>

\* Mutant of CommitResult: an upload that failed leaves the key of an earlier run.
CommitKeepingKey(g, name, missing) ==
  /\ run[g].at \in {"stored", "unstored"}
  /\ generation' = [generation EXCEPT
       ![g].content = run[g].n,
       ![g].key = IF run[g].at = "stored" THEN run[g].n ELSE @]
  /\ run' = [run EXCEPT ![g].at = "committed"]
  /\ UNCHANGED <<resume, request, claims, stored, gaps, roadmap, roadmaps>>

\* The result's columns and the gap rows, in one transaction.  The posting's own company and
\* role replace what was asked for, unless the posting names none.
CommitResult(g, name, missing) ==
  /\ run[g].at \in {"stored", "unstored"}
  /\ LET final == IF name = Blank THEN generation[g].name ELSE name IN
     /\ generation' = [generation EXCEPT
          ![g].content = run[g].n, ![g].name = final,
          ![g].renamed = @ \/ final # generation[g].name,
          ![g].key = IF run[g].at = "stored" THEN run[g].n ELSE 0]
     /\ gaps' = gaps \cup {[gen |-> g, run |-> run[g].n, skill |-> s, name |-> final] :
                             s \in missing}
  /\ run' = [run EXCEPT ![g].at = "committed"]
  /\ UNCHANGED <<resume, claims, request, stored, roadmap, roadmaps>>

\* _finish, or the failure of the run.
Decide(g) ==
  /\ run[g].at \in {"running", "committed"}
  /\ run' = [run EXCEPT ![g].at = "decided"]
  /\ UNCHANGED <<resume, generation, request, claims, stored, gaps, roadmap, roadmaps>>

\* The instance dies; the job is reclaimed.
CrashRun(g) ==
  /\ run[g].at \in {"running", "stored", "unstored", "committed"}
  /\ run' = [run EXCEPT ![g].at = "pending"]
  /\ UNCHANGED <<resume, generation, request, claims, stored, gaps, roadmap, roadmaps>>

(* -------------------------------- The roadmap ----------------------------- *)

\* Mutant of GapsOf: the gaps of deleted generations are left out, as the total leaves them out.
LiveGapsOf(u, s) == {x \in gaps : OwnedGeneration(u, x.gen) /\ x.skill = s}

\* The rows of a skill, those of deleted generations included.
GapsOf(u, s) == {x \in gaps : generation[x.gen].owner = u /\ x.skill = s}

NoRoadmap == [at |-> "idle", user |-> "", total |-> 0, before |-> [s \in Skills |-> {}],
              counted |-> [s \in Skills |-> {}], names |-> [s \in Skills |-> {}], left |-> {}]

\* The total, the groups, and then for one group after the other its companies, those with the
\* most rows first: a statement each.
CountTotal(u) ==
  /\ roadmap.at = "idle" /\ roadmaps < MaxRoadmaps
  /\ roadmap' = [NoRoadmap EXCEPT
       !.at = "total", !.user = u, !.before = [s \in Skills |-> GapsOf(u, s)],
       !.total = Cardinality({g \in Generations : OwnedGeneration(u, g)})]
  /\ roadmaps' = roadmaps + 1
  /\ UNCHANGED <<resume, generation, request, run, claims, stored, gaps>>
CountGaps ==
  /\ roadmap.at = "total"
  /\ roadmap' = [roadmap EXCEPT !.at = "counted",
                                !.counted = [s \in Skills |-> GapsOf(roadmap.user, s)],
                                !.left = {s \in Skills : GapsOf(roadmap.user, s) # {}}]
  /\ UNCHANGED <<resume, generation, request, run, claims, stored, gaps, roadmaps>>
ReadCompanies(s) ==
  /\ s \in roadmap.left
  /\ \A t \in roadmap.left : Cardinality(roadmap.counted[t]) <= Cardinality(roadmap.counted[s])
  /\ roadmap' = [roadmap EXCEPT !.names[s] = {x.name : x \in GapsOf(roadmap.user, s)} \ {Blank},
                                !.left = @ \ {s}]
  /\ UNCHANGED <<resume, generation, request, run, claims, stored, gaps, roadmaps>>
Answered == roadmap.at = "counted" /\ roadmap.left = {}
Dismiss ==
  /\ Answered
  /\ roadmap' = NoRoadmap
  /\ UNCHANGED <<resume, generation, request, run, claims, stored, gaps, roadmaps>>

(* ------------------------------ Specification ----------------------------- *)

Init ==
  /\ resume = [r \in Resumes |-> NoResume]
  /\ generation = [g \in Generations |-> NoGeneration]
  /\ request = [q \in Requests |-> Idle]
  /\ run = [g \in Generations |-> [at |-> "none", n |-> 0]] /\ claims = 0
  /\ stored = [g \in Generations |-> 0]
  /\ gaps = {}
  /\ roadmap = NoRoadmap /\ roadmaps = 0

UserStep(u) ==
  \/ \E r \in Resumes : \/ Upload(u, r)
                        \/ DeleteResume(u, r)
                        \/ \E q \in Requests, name \in Names : Ask(q, u, r, name)
  \/ \E g \in Generations : DeleteGeneration(u, g)
  \/ CountTotal(u)
HandlerStep ==
  \/ \E q \in Requests : FetchFails(q) \/ CountVersions(q) \/ \E g \in Generations : Insert(q, g)
  \/ CountGaps \/ Dismiss \/ \E s \in Skills : ReadCompanies(s)
WorkerStep(g) ==
  \/ Claim(g) \/ PutPdf(g) \/ PutFails(g) \/ Decide(g) \/ CrashRun(g)
  \/ \E name \in Names, missing \in SUBSET Skills : CommitResult(g, name, missing)

Next == (\E u \in Users : UserStep(u)) \/ HandlerStep \/ \E g \in Generations : WorkerStep(g)
Spec == Init /\ [][Next]_vars

(* ------------------------------- Properties ------------------------------- *)

\* The rows and the handlers have the shapes above, runs are numbered within their bound,
\* and a generation belongs to the owner of the resume it was made from (routes.py,
\* _owned_resume and create_generation).
TypeOK ==
  /\ resume \in [Resumes -> [state : {"none", "live", "deleted"}, owner : Users \cup {""}]]
  /\ request \in [Requests -> [at : {"idle", "fetching", "counted", "over"},
                              user : Users \cup {""}, resume : Resumes \cup {""}, name : Names,
                              count : Nat, before : SUBSET Generations]]
  /\ generation \in [Generations -> [state : {"none", "live", "deleted"}, owner : Users \cup {""},
                              base : Resumes \cup {""}, asked : Names, name : Names, version : Nat,
                              content : 0..MaxRuns, key : 0..MaxRuns, before : SUBSET Generations,
                              renamed : BOOLEAN]]
  /\ run \in [Generations -> [at : {"none", "pending", "running", "stored", "unstored", "committed", "decided"},
                              n : 0..MaxRuns]]
  /\ stored \in [Generations -> 0..MaxRuns] /\ claims \in 0..MaxRuns
  /\ gaps \subseteq GapRows
  /\ roadmap \in [at : {"idle", "total", "counted"}, user : Users \cup {""}, total : Nat,
                   before : [Skills -> SUBSET GapRows], counted : [Skills -> SUBSET GapRows],
                   names : [Skills -> SUBSET Names], left : SUBSET Skills]
  /\ roadmaps \in 0..MaxRoadmaps
  /\ \A g \in Generations : generation[g].state # "none" =>
        /\ generation[g].base \in Resumes
        /\ generation[g].owner = resume[generation[g].base].owner

\* A regeneration gets a higher version number than every predecessor that was there when it
\* was counted, deleted ones included, whatever other requests and runs do in between; only
\* a posting that names its company itself breaks the count (routes.py:353, worker.py:275).
VersionsIncrease ==
  \A g, h \in Generations :
    /\ generation[h].state # "none" /\ g \in generation[h].before
    /\ generation[g].owner = generation[h].owner /\ generation[g].base = generation[h].base
    /\ generation[g].asked = generation[h].asked
    /\ ~ \E x \in Generations : generation[x].renamed
    => generation[h].version > generation[g].version

\* The PDF offered for download is the one compiled from the source shown, through crashes
\* between the upload and the commit and through failed uploads, until the generation is
\* claimed again (worker.py:249-275, storage.py).
PdfIsOfSource ==
  \A g \in Generations :
    generation[g].key # 0 /\ run[g].n = generation[g].content =>
      generation[g].key = generation[g].content /\ stored[g] = generation[g].content

\* A roadmap put together by several statements leaves out nothing that was there when it was
\* asked for, invents nothing, and names the company of every row it counts, whatever is
\* committed or deleted between the statements (routes.py:547-590).
RoadmapWithinTables ==
  Answered =>
    \A s \in Skills :
      /\ roadmap.before[s] \subseteq roadmap.counted[s]
      /\ roadmap.counted[s] \subseteq gaps
      /\ \A x \in roadmap.counted[s] : x.name \in roadmap.names[s] \cup {Blank}
=============================================================================
