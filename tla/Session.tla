-------------------------------- MODULE Session --------------------------------
(***************************************************************************)
(* A signed-in session: the refresh tokens the server rotates on every use   *)
(* (src/backend/app/auth.py) and the browser tabs that keep the token pair   *)
(* and share one refresh among all requests refused for an expired access    *)
(* token (src/frontend/src/app/core/auth.interceptor.ts, auth.service.ts).   *)
(*                                                                         *)
(* The server issues tokens in pairs, numbered as issued; a pair's access    *)
(* token may be in "fresh", its refresh token in "active".  Reloading a page *)
(* is leaving a tab for good and opening another.                            *)
(*                                                                         *)
(* "disturbances" counts what may rightly or wrongly cost a session: a       *)
(* second tab, a logout, a refresh token past its month, a lost refresh, a   *)
(* retry that fails.  What holds while there was none is what the            *)
(* interceptor promises of a working session.                                *)
(***************************************************************************)
EXTENDS Naturals

CONSTANTS
  Tabs,            \* browser tabs of one user
  None,            \* no tab
  Requests,        \* requests the tabs may send, each once
  MaxSignIns,      \* bound: sign-ins in a behaviour
  MaxDisturbances  \* bound: disturbances in a behaviour

ASSUME NoneAssumption == None \notin Tabs
ASSUME SignInsAssumption == MaxSignIns \in Nat
ASSUME DisturbancesAssumption == MaxDisturbances \in Nat

VARIABLES
  issued,       \* pairs issued so far
  active,       \* pairs whose refresh token is neither revoked nor expired
  fresh,        \* pairs whose access token has not expired
  revoking,     \* pairs a logout call under way is about to revoke
  storage,      \* the pair in localStorage, NoPair when there is none
  tab,          \* what each tab holds in memory
  req,          \* the requests of the tabs
  signIns,      \* sign-ins so far
  disturbances  \* disturbances so far

server == <<issued, active, fresh, revoking>>
vars == <<server, storage, tab, req, signIns, disturbances>>

NoPair == 0

\* refreshing and gate are the interceptor's module variables; gate holds the
\* pair whose access token it emitted last, NoPair for null.
TabState == [open: BOOLEAN, pair: Nat, refreshing: BOOLEAN, gate: Nat]

\* "refreshing" .. "denied": the request leads a refresh, which presents the
\* refresh token of pair "presents"; "checked" is between the server's read of
\* the token and its commit, "rotated" and "denied" are answers on their way.
Stations == {"none", "sent", "refused", "waiting", "refreshing", "checked",
             "rotated", "denied", "retried", "answered", "failed"}
RequestState ==
  [at: Stations,
   by: Tabs \cup {None},
   used: Nat,       \* pair whose access token it was sent with first
   presents: Nat,   \* pair it leads a refresh with, NoPair if it led none
   got: Nat]        \* pair its refresh brought, or the gate gave it

NewRequest ==
  [at |-> "none", by |-> None, used |-> NoPair, presents |-> NoPair, got |-> NoPair]

Init ==
  /\ issued = 0
  /\ active = {} /\ fresh = {} /\ revoking = {}
  /\ storage = NoPair
  /\ tab = [t \in Tabs |->
       [open |-> FALSE, pair |-> NoPair, refreshing |-> FALSE, gate |-> NoPair]]
  /\ req = [r \in Requests |-> NewRequest]
  /\ signIns = 0
  /\ disturbances = 0

-------------------------------------------------------------------------------

Goes(r, state) == req' = [req EXCEPT ![r] = state]
Tab(r) == tab[req[r].by]
Leads(r) == req[r].at \in {"refreshing", "checked", "rotated", "denied"}

Disturb ==
  /\ disturbances < MaxDisturbances
  /\ disturbances' = disturbances + 1

\* What refresh_tokens, login and register answer: a new pair, both tokens good.
Issue(retired) ==
  /\ issued' = issued + 1
  /\ active' = (active \ retired) \cup {issued + 1}
  /\ fresh' = fresh \cup {issued + 1}

\* AuthService.store and clear.
Store(t, n) == storage' = n /\ tab' = [tab EXCEPT ![t].pair = n]

\* The catchError behind the refresh: whatever failed, the tab is signed out.
SessionOver(t) ==
  /\ storage' = NoPair
  /\ tab' = [tab EXCEPT ![t].refreshing = FALSE, ![t].pair = NoPair]

\* Opening the application reads the tokens localStorage holds.  Two open tabs
\* hold copies of one pair.
Open(t) ==
  /\ ~tab[t].open
  /\ tab' = [tab EXCEPT ![t].open = TRUE, ![t].pair = storage]
  /\ IF \E s \in Tabs : tab[s].open THEN Disturb ELSE UNCHANGED disturbances
  /\ UNCHANGED <<server, storage, req, signIns>>

\* login and register (the guest guard keeps a signed-in tab away from both).
SignIn(t) ==
  /\ tab[t].open /\ tab[t].pair = NoPair
  /\ signIns < MaxSignIns
  /\ Issue({})
  /\ Store(t, issued + 1)
  /\ signIns' = signIns + 1
  /\ UNCHANGED <<revoking, req, disturbances>>

\* logout: the call that revokes is sent and not waited for; the tab forgets its
\* pair at once, whatever calls it has under way.
Logout(t) ==
  /\ tab[t].pair # NoPair
  /\ Disturb
  /\ revoking' = revoking \cup {tab[t].pair}
  /\ storage' = NoPair
  /\ tab' = [tab EXCEPT ![t].pair = NoPair]
  /\ UNCHANGED <<issued, active, fresh, req, signIns>>

\* revoke_refresh_token.
Revoke(n) ==
  /\ n \in revoking
  /\ revoking' = revoking \ {n}
  /\ active' = active \ {n}
  /\ UNCHANGED <<issued, fresh, storage, tab, req, signIns, disturbances>>

\* An access token expires; its quarter of an hour outlasts a retry's round trip.
ExpireAccess(n) ==
  /\ n \in fresh
  /\ \A r \in Requests : req[r].at \in {"rotated", "retried"} => req[r].got # n
  /\ fresh' = fresh \ {n}
  /\ UNCHANGED <<issued, active, revoking, storage, tab, req, signIns, disturbances>>

ExpireRefresh(n) ==
  /\ n \in active
  /\ Disturb
  /\ active' = active \ {n}
  /\ UNCHANGED <<issued, fresh, revoking, storage, tab, req, signIns>>

-------------------------------------------------------------------------------
(* A request and the interceptor. *)

Send(t, r) ==
  /\ tab[t].pair # NoPair
  /\ req[r].at = "none"
  /\ Goes(r, [NewRequest EXCEPT !.at = "sent", !.by = t, !.used = tab[t].pair])
  /\ UNCHANGED <<server, storage, tab, signIns, disturbances>>

\* current_user: a fresh access token is let in, any other is a 401.
Serve(r) ==
  /\ req[r].at = "sent"
  /\ Goes(r, [req[r] EXCEPT !.at =
       IF req[r].used \in fresh THEN "answered" ELSE "refused"])
  /\ UNCHANGED <<server, storage, tab, signIns, disturbances>>

\* A 401 with no refresh token left is the caller's.
GiveUp(r) ==
  /\ req[r].at = "refused"
  /\ Tab(r).pair = NoPair
  /\ Goes(r, [req[r] EXCEPT !.at = "failed"])
  /\ UNCHANGED <<server, storage, tab, signIns, disturbances>>

\* A 401 while a refresh is under way waits for the gate, which may already
\* hold a token.
Wait(r) ==
  /\ req[r].at = "refused"
  /\ Tab(r).pair # NoPair /\ Tab(r).refreshing
  /\ Goes(r, IF Tab(r).gate = NoPair
             THEN [req[r] EXCEPT !.at = "waiting"]
             ELSE [req[r] EXCEPT !.at = "retried", !.got = Tab(r).gate])
  /\ UNCHANGED <<server, storage, tab, signIns, disturbances>>

\* Mutant of StartRefresh: whether there is a refresh token is not asked.
StartRefreshBlindly(r) ==
  /\ req[r].at = "refused"
  /\ ~Tab(r).refreshing
  /\ tab' = [tab EXCEPT ![req[r].by].refreshing = TRUE, ![req[r].by].gate = NoPair]
  /\ Goes(r, [req[r] EXCEPT !.at = "refreshing", !.presents = Tab(r).pair])
  /\ UNCHANGED <<server, storage, signIns, disturbances>>

\* Mutant of StartRefresh: a request refused during a refresh starts its own.
StartOwnRefresh(r) ==
  /\ req[r].at = "refused"
  /\ Tab(r).pair # NoPair
  /\ tab' = [tab EXCEPT ![req[r].by].refreshing = TRUE, ![req[r].by].gate = NoPair]
  /\ Goes(r, [req[r] EXCEPT !.at = "refreshing", !.presents = Tab(r).pair])
  /\ UNCHANGED <<server, storage, signIns, disturbances>>

\* Mutant of StartRefresh: the gate keeps the token of the last refresh.
StartBehindOldGate(r) ==
  /\ req[r].at = "refused"
  /\ Tab(r).pair # NoPair /\ ~Tab(r).refreshing
  /\ tab' = [tab EXCEPT ![req[r].by].refreshing = TRUE]
  /\ Goes(r, [req[r] EXCEPT !.at = "refreshing", !.presents = Tab(r).pair])
  /\ UNCHANGED <<server, storage, signIns, disturbances>>

\* Any other 401 starts the refresh.
StartRefresh(r) ==
  /\ req[r].at = "refused"
  /\ Tab(r).pair # NoPair /\ ~Tab(r).refreshing
  /\ tab' = [tab EXCEPT ![req[r].by].refreshing = TRUE, ![req[r].by].gate = NoPair]
  /\ Goes(r, [req[r] EXCEPT !.at = "refreshing", !.presents = Tab(r).pair])
  /\ UNCHANGED <<server, storage, signIns, disturbances>>

\* rotate_refresh_token, the select and the test of is_active.
CheckToken(r) ==
  /\ req[r].at = "refreshing"
  /\ Goes(r, [req[r] EXCEPT !.at =
       IF req[r].presents \in active THEN "checked" ELSE "denied"])
  /\ UNCHANGED <<server, storage, tab, signIns, disturbances>>

\* Mutant of Rotate: the presented token stays good.
RotateKeeping(r) ==
  /\ req[r].at = "checked"
  /\ Issue({})
  /\ Goes(r, [req[r] EXCEPT !.at = "rotated", !.got = issued + 1])
  /\ UNCHANGED <<revoking, storage, tab, signIns, disturbances>>

\* rotate_refresh_token, the commit: the row it read is neither locked nor read
\* again, so whoever else passed the test rotates the same token, too.
Rotate(r) ==
  /\ req[r].at = "checked"
  /\ Issue({req[r].presents})
  /\ Goes(r, [req[r] EXCEPT !.at = "rotated", !.got = issued + 1])
  /\ UNCHANGED <<revoking, storage, tab, signIns, disturbances>>

\* Mutant of Released: the gate lets the leader through and nobody else.
LeaderReleased(r, n) ==
  [req EXCEPT ![r] = [req[r] EXCEPT !.at = "retried", !.got = n]]

\* What gate.next(n) does to the requests of a tab: each that waits is sent
\* again, and so is the leader r.
Released(r, n) ==
  [q \in Requests |->
     IF q = r \/ (req[q].at = "waiting" /\ req[q].by = req[r].by)
     THEN [req[q] EXCEPT !.at = "retried", !.got = n] ELSE req[q]]

\* The new pair arrives: stored, announced at the gate, used.
Refreshed(r) ==
  LET n == req[r].got
      t == req[r].by
  IN
  /\ req[r].at = "rotated"
  /\ storage' = n
  /\ tab' = [tab EXCEPT ![t].pair = n, ![t].refreshing = FALSE, ![t].gate = n]
  /\ req' = Released(r, n)
  /\ UNCHANGED <<server, signIns, disturbances>>

RefreshDenied(r) ==
  /\ req[r].at = "denied"
  /\ SessionOver(req[r].by)
  /\ Goes(r, [req[r] EXCEPT !.at = "failed"])
  /\ UNCHANGED <<server, signIns, disturbances>>

\* The refresh call, or its answer, gets lost.
RefreshLost(r) ==
  /\ req[r].at \in {"refreshing", "rotated"}
  /\ Disturb
  /\ SessionOver(req[r].by)
  /\ Goes(r, [req[r] EXCEPT !.at = "failed"])
  /\ UNCHANGED <<server, signIns>>

RetryAnswered(r) ==
  /\ req[r].at = "retried"
  /\ Goes(r, [req[r] EXCEPT !.at = "answered"])
  /\ UNCHANGED <<server, storage, tab, signIns, disturbances>>

\* A retry is answered with an error, of any kind.  The leader's retry runs
\* inside the catchError of its refresh, the retries of those who waited do not.
RetryFails(r) ==
  /\ req[r].at = "retried"
  /\ Disturb
  /\ Goes(r, [req[r] EXCEPT !.at = "failed"])
  /\ IF req[r].presents # NoPair
     THEN SessionOver(req[r].by) ELSE UNCHANGED <<storage, tab>>
  /\ UNCHANGED <<server, signIns>>

-------------------------------------------------------------------------------

\* What server, network and interceptor do on their own.
RequestStep(r) ==
  \/ Serve(r) \/ GiveUp(r) \/ Wait(r) \/ StartRefresh(r)
  \/ CheckToken(r) \/ Rotate(r) \/ Refreshed(r) \/ RefreshDenied(r)
  \/ RetryAnswered(r)

Next ==
  \/ \E t \in Tabs : Open(t) \/ SignIn(t) \/ Logout(t)
  \/ \E n \in revoking : Revoke(n)
  \/ \E n \in fresh : ExpireAccess(n)
  \/ \E n \in active : ExpireRefresh(n)
  \/ \E t \in Tabs, r \in Requests : Send(t, r)
  \/ \E r \in Requests : RequestStep(r) \/ RefreshLost(r) \/ RetryFails(r)

Spec == Init /\ [][Next]_vars

\* Calls are answered in the end unless they are lost.
FairSpec ==
  Spec /\ \A r \in Requests : WF_vars(RequestStep(r))

-------------------------------------------------------------------------------
(* Properties. *)

WellFormed(r) ==
  /\ req[r].at # "none" => req[r].by \in Tabs
  /\ Leads(r) => req[r].presents # NoPair

\* Pairs are numbered as issued, every request under way belongs to a tab, and every refresh
\* presents a token (auth.interceptor.ts, auth.py).
TypeOK ==
  /\ issued \in Nat
  /\ active \subseteq 1 .. issued
  /\ fresh \subseteq 1 .. issued
  /\ revoking \subseteq Nat
  /\ storage \in Nat
  /\ tab \in [Tabs -> TabState]
  /\ req \in [Requests -> RequestState]
  /\ \A r \in Requests : WellFormed(r)
  /\ signIns \in 0 .. MaxSignIns
  /\ disturbances \in 0 .. MaxDisturbances

Undisturbed == disturbances = 0

\* A working session is never signed out by its own refreshes, however many
\* requests are refused at once and however late their 401s arrive: what the
\* interceptor's gate is for.
StaysSignedIn ==
  [][\A t \in Tabs : tab[t].pair # NoPair /\ tab'[t].pair = NoPair =>
       disturbances' > 0]_vars

\* "each use rotates the token and revokes its predecessor" (auth.py): a working
\* session has one refresh token, the latest issued, and the tab holds it or
\* the refresh under way brings it.
OneLiveToken ==
  Undisturbed =>
    /\ active = IF issued = 0 THEN {} ELSE {issued}
    /\ \A t \in Tabs : tab[t].pair # NoPair =>
         \/ tab[t].pair = issued
         \/ \E r \in Requests :
              req[r].at = "rotated" /\ req[r].by = t /\ req[r].got = issued

\* "all of them retry once with the single new token" (auth.interceptor.ts): a
\* retry never carries the token that was refused, nor an older one.
RetryIsNewer ==
  Undisturbed =>
    \A r \in Requests :
      req[r].at = "retried" => req[r].got > req[r].used

\* A refused request is settled in the end: nobody waits for ever at the gate of
\* a working session.
RefusedIsSettled ==
  \A r \in Requests :
    req[r].at = "refused" ~>
      req[r].at \in {"answered", "failed"} \/ ~Undisturbed

-------------------------------------------------------------------------------
(* The inductive invariant behind the properties of a working session (proved   *)
(* in SessionProofs).                                                          *)

\* There is one tab, and it has been signed in since the first pair was issued.
OneTab ==
  /\ \A s, t \in Tabs : tab[s].open /\ tab[t].open => s = t
  /\ \A t \in Tabs : tab[t].open \/ tab[t].pair = NoPair
  /\ \A r \in Requests : req[r].at # "none" => Tab(r).open /\ Tab(r).pair # NoPair
  /\ issued > 0 => \E t \in Tabs : tab[t].open
  /\ \A t \in Tabs : issued > 0 /\ tab[t].open => tab[t].pair # NoPair

\* One request leads, the gate is closed meanwhile, and the others wait.
OneLeader ==
  /\ \A q, r \in Requests : Leads(q) /\ Leads(r) => q = r
  /\ \A r \in Requests : Leads(r) => Tab(r).refreshing
  /\ \A t \in Tabs : tab[t].refreshing => tab[t].gate = NoPair

\* The leader presents the one live token and brings the one that follows.
LeaderPresentsLive ==
  \A r \in Requests :
    /\ req[r].at \in {"refreshing", "checked"} =>
         req[r].presents = issued /\ Tab(r).pair = issued
    /\ req[r].at = "rotated" => req[r].got = issued /\ Tab(r).pair < issued
    /\ req[r].at # "denied"

\* No request carries a token from the future.
NoneIsAhead ==
  \A r \in Requests :
    req[r].at \in {"sent", "refused", "waiting"} \/ Leads(r) =>
      req[r].used <= Tab(r).pair

WorkingSession ==
  /\ Undisturbed => OneTab /\ OneLeader /\ LeaderPresentsLive /\ NoneIsAhead
  /\ Undisturbed => revoking = {} /\ (issued = 0 => storage = NoPair)
  /\ OneLiveToken
  /\ RetryIsNewer

===============================================================================
