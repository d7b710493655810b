----------------------------- MODULE ModelClient -----------------------------
(***************************************************************************)
(* Calls of the model under a rate limit (app/agent/llm.py): the clients   *)
(* of several workers share one key, and the service admits so many        *)
(* requests per window.  A refused request (429) says how long to wait; a  *)
(* client waits as told and posts again, MaxWaits times at most.           *)
(*                                                                         *)
(* Time runs in ticks; the timers of a client and of the window count      *)
(* down together.  A call is everything between the pipeline's asking for  *)
(* a model and its getting one, or an LLMError.                            *)
(***************************************************************************)
EXTENDS Naturals, FiniteSets

CONSTANTS
  Clients,
  Calls,       \* calls a client makes in one run
  MaxWaits,    \* _MAX_RATE_LIMIT_WAITS
  Cap,         \* the longest wait, 60 s
  Pause,       \* the wait when the answer names none, 15 s
  Timeout,     \* read timeout of a request, 180 s
  Window,      \* the service's window
  PerWindow    \* requests it admits per window

ASSUME PatienceIsNatural == MaxWaits \in Nat /\ Timeout \in Nat \ {0}
ASSUME WaitsAreCapped == Cap \in Nat /\ Pause \in 1..Cap
ASSUME WindowIsNamed == Window \in 1..Cap /\ PerWindow \in Nat \ {0} /\ Calls \in Nat

VARIABLES
  client,    \* what each client is at
  free,      \* requests the window still admits
  opens      \* ticks until the next window
vars == <<client, free, opens>>

\* attempt: waits so far.  elapsed, others, unnamed: history of the call; the time it has
\* taken, the requests of others admitted in it, and whether a refusal named no wait.
Fresh(calls) == [at |-> "idle", attempt |-> 0, timer |-> 0, calls |-> calls,
                 elapsed |-> 0, others |-> 0, unnamed |-> FALSE]
Pending(c) == client[c].at \in {"ready", "posted", "waiting"}

\* parse: the pipeline asks for a model.
Ask(c) ==
  /\ client[c].at = "idle" /\ client[c].calls > 0
  /\ client' = [client EXCEPT ![c] = [Fresh(@.calls - 1) EXCEPT !.at = "ready"]]
  /\ UNCHANGED <<free, opens>>

\* Mutant of Post: the timeout grows with each attempt.
PostBackingOff(c) ==
  /\ client[c].at = "ready"
  /\ client' = [client EXCEPT ![c].at = "posted", ![c].timer = (client[c].attempt + 1) * Timeout]
  /\ UNCHANGED <<free, opens>>

Post(c) ==
  /\ client[c].at = "ready"
  /\ client' = [client EXCEPT ![c].at = "posted", ![c].timer = Timeout]
  /\ UNCHANGED <<free, opens>>

\* The request is admitted: an answer that parses, or one that is truncated or invalid.
Answer(c, end) ==
  /\ client[c].at = "posted" /\ free > 0
  /\ free' = free - 1
  /\ client' = [d \in Clients |->
       IF d = c THEN [client[d] EXCEPT !.at = end]
       ELSE [client[d] EXCEPT !.others = IF Pending(d) THEN @ + 1 ELSE @]]
  /\ UNCHANGED opens

\* Mutant of RetryDelay: the wait asked for is cut to whole ticks and loses one.
RetryDelayCut(named) == IF named THEN opens - 1 ELSE Pause

\* _retry_delay: the wait the refusal names, capped, or a fixed pause.
RetryDelay(named) == IF ~named THEN Pause ELSE IF opens < Cap THEN opens ELSE Cap

\* Mutant of Refuse: the attempts are compared one too far.
RefuseOnceMore(c, named) ==
  /\ client[c].at = "posted" /\ free = 0
  /\ LET o == client[c]  n == o.attempt + 1 IN
     client' = [client EXCEPT ![c] =
       IF o.attempt > MaxWaits
       THEN [o EXCEPT !.at = "refused"]
       ELSE [o EXCEPT !.at = "waiting", !.attempt = n, !.timer = RetryDelay(named)]]
  /\ UNCHANGED <<free, opens>>

\* 429: wait and post again, or give up.
Refuse(c, named) ==
  /\ client[c].at = "posted" /\ free = 0
  /\ LET o == client[c]  n == o.attempt + 1 IN
     client' = [client EXCEPT ![c] =
       IF o.attempt = MaxWaits
       THEN [o EXCEPT !.at = "refused"]
       ELSE [o EXCEPT !.at = "waiting", !.attempt = n, !.timer = RetryDelay(named),
                      !.unnamed = o.unnamed \/ ~named]]
  /\ UNCHANGED <<free, opens>>

\* Mutant of Wake: the loop ends after its last wait, before its last post.
WakeUnlessLast(c) ==
  /\ client[c].at = "waiting" /\ client[c].timer = 0 /\ client[c].attempt < MaxWaits
  /\ client' = [client EXCEPT ![c].at = "ready"]
  /\ UNCHANGED <<free, opens>>

Wake(c) ==
  /\ client[c].at = "waiting" /\ client[c].timer = 0
  /\ client' = [client EXCEPT ![c].at = "ready"]
  /\ UNCHANGED <<free, opens>>

\* No connection, a broken one, or an error status other than 429, at any moment; and at the
\* latest httpx gives up by itself.
Unreachable(c) ==
  /\ client[c].at = "posted"
  /\ client' = [client EXCEPT ![c].at = "failed"]
  /\ UNCHANGED <<free, opens>>
TimesOut(c) == client[c].timer = 0 /\ Unreachable(c)

\* The pipeline goes on to its next call.
Return(c) ==
  /\ client[c].at = "parsed"
  /\ client' = [client EXCEPT ![c] = Fresh(@.calls)]
  /\ UNCHANGED <<free, opens>>

\* A tick: nobody's timer has run out unnoticed, and what is ready is posted at once.
Tick ==
  /\ \A c \in Clients : client[c].at # "ready" /\ (client[c].at \in {"posted", "waiting"} => client[c].timer > 0)
  /\ client' = [c \in Clients |->
       IF client[c].at \in {"posted", "waiting"}
       THEN [client[c] EXCEPT !.timer = @ - 1, !.elapsed = @ + 1] ELSE client[c]]
  /\ IF opens = 1 THEN opens' = Window /\ free' = PerWindow
                  ELSE opens' = opens - 1 /\ UNCHANGED free

Init ==
  /\ client = [c \in Clients |-> Fresh(Calls)]
  /\ free = PerWindow /\ opens = Window

ClientStep(c) ==
  \/ Ask(c) \/ Post(c) \/ Wake(c) \/ Unreachable(c) \/ Return(c)
  \/ \E end \in {"parsed", "failed"} : Answer(c, end)
  \/ \E named \in BOOLEAN : Refuse(c, named)
Next == Tick \/ \E c \in Clients : ClientStep(c)

\* A client's own steps are taken by the thread that makes the call, and time passes.  That
\* the service answers is not assumed: the timeout stands in for it.
Own(c) == Post(c) \/ Wake(c) \/ TimesOut(c) \/ Return(c)
Spec == Init /\ [][Next]_vars /\ WF_vars(Tick) /\ \A c \in Clients : WF_vars(Own(c))

(* ------------------------------- Properties ------------------------------- *)

\* What a client is at, its waits within the ceiling, and the window's allowance: a client
\* never counts more waits than _MAX_RATE_LIMIT_WAITS (llm.py, _post_with_retry).
TypeOK ==
  /\ client \in [Clients -> [at : {"idle", "ready", "posted", "waiting", "parsed", "failed", "refused"},
                             attempt : 0..MaxWaits, timer : Nat, calls : 0..Calls,
                             elapsed : Nat, others : Nat, unnamed : BOOLEAN]]
  /\ free \in 0..PerWindow /\ opens \in 1..Window

\* A call that obeyed every wait it was told fails for the rate limit only when the others
\* took whole windows: one for each of its waits (llm.py:203-209: "obeying it is the
\* difference between a slow generation and a broken one").
RefusedOnlyInACrowd ==
  \A c \in Clients : client[c].at = "refused" /\ ~client[c].unnamed =>
    client[c].others >= MaxWaits * PerWindow

\* However the service behaves, a call ends within its requests' timeouts and its waits.
CallBounded ==
  \A c \in Clients : client[c].elapsed <= (MaxWaits + 1) * Timeout + MaxWaits * Cap

\* Every call returns or raises.
CallEnds == \A c \in Clients : Pending(c) ~> ~Pending(c)
=============================================================================
