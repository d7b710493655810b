----------------------------- MODULE SessionProofs -----------------------------
(***************************************************************************)
(* Proofs about Session: its types, and what a working session promises, for *)
(* any tabs, any number of requests and any number of sign-ins.              *)
(***************************************************************************)
EXTENDS Session, TLAPS

\* A request that moves on keeps the types, and so does a tab whose refresh ends.
LEMMA RequestType ==
  ASSUME TypeOK, NEW r \in Requests, NEW w \in RequestState, Goes(r, w),
         w.at # "none" => w.by \in Tabs,
         w.at \in {"refreshing", "checked", "rotated", "denied"} => w.presents # NoPair
  PROVE  req' \in [Requests -> RequestState] /\ \A q \in Requests : WellFormed(q)'
<1>1. req' = [req EXCEPT ![r] = w] /\ req \in [Requests -> RequestState]
  BY DEF Goes, TypeOK
<1>2. req' \in [Requests -> RequestState]
  BY <1>1
<1>3. ASSUME NEW q \in Requests PROVE WellFormed(q)'
  <2>1. CASE q = r
    BY <1>1, <2>1 DEF WellFormed, Leads
  <2>2. CASE q # r
    BY <1>1, <2>2 DEF WellFormed, Leads, TypeOK
  <2> QED BY <2>1, <2>2
<1> QED BY <1>2, <1>3

LEMMA SessionOverType ==
  ASSUME TypeOK, NEW t \in Tabs, SessionOver(t)
  PROVE  storage' \in Nat /\ tab' \in [Tabs -> TabState]
<1>1. tab' \in [Tabs -> TabState]
  BY DEF SessionOver, TypeOK, TabState, NoPair
<1>2. storage' \in Nat
  BY DEF SessionOver, NoPair
<1> QED BY <1>1, <1>2

LEMMA FailsType ==
  ASSUME TypeOK, NEW r \in Requests, req[r].at # "none",
         Goes(r, [req[r] EXCEPT !.at = "failed"])
  PROVE  /\ req' \in [Requests -> RequestState] /\ \A q \in Requests : WellFormed(q)'
         /\ SessionOver(req[r].by) => storage' \in Nat /\ tab' \in [Tabs -> TabState]
<1> DEFINE w == [req[r] EXCEPT !.at = "failed"]
<1>1. w \in RequestState /\ w.at = "failed" /\ w.by \in Tabs /\ req[r].by \in Tabs
  BY DEF TypeOK, WellFormed, RequestState, Stations
<1>2. Goes(r, w)
  OBVIOUS
<1> HIDE DEF w
<1>3. req' \in [Requests -> RequestState] /\ \A q \in Requests : WellFormed(q)'
  BY <1>1, <1>2, RequestType
<1> QED BY <1>1, <1>3, SessionOverType

LEMMA DisturbType ==
  ASSUME TypeOK, Disturb
  PROVE  disturbances' \in 0 .. MaxDisturbances /\ disturbances' > 0
BY DisturbancesAssumption DEF Disturb, TypeOK

\* Every action keeps the types, a request's tab and a leader's token.
LEMMA TypeStep == ASSUME TypeOK, [Next]_vars PROVE TypeOK'
<1> USE SignInsAssumption, DisturbancesAssumption, NoneAssumption DEF NoPair
<1>1. CASE UNCHANGED vars
  BY <1>1 DEF vars, server, TypeOK, WellFormed, Leads
<1>2. ASSUME NEW t \in Tabs, Open(t) PROVE TypeOK'
  <2>1. tab' \in [Tabs -> TabState]
    BY <1>2 DEF Open, TypeOK, TabState
  <2>2. disturbances' \in 0 .. MaxDisturbances
    BY <1>2, DisturbType DEF Open, TypeOK
  <2> QED BY <1>2, <2>1, <2>2 DEF Open, TypeOK, WellFormed, Leads, server
<1>3. ASSUME NEW t \in Tabs, SignIn(t) PROVE TypeOK'
  BY <1>3 DEF SignIn, Issue, Store, TypeOK, WellFormed, Leads, TabState
<1>4. ASSUME NEW t \in Tabs, Logout(t) PROVE TypeOK'
  <2>1. tab' \in [Tabs -> TabState]
    BY <1>4 DEF Logout, TypeOK, TabState
  <2>2. tab[t].pair \in Nat
    BY DEF TypeOK, TabState
  <2>3. disturbances' \in 0 .. MaxDisturbances
    BY <1>4, DisturbType DEF Logout
  <2>4. revoking' \subseteq Nat /\ storage' \in Nat
    BY <1>4, <2>2 DEF Logout, TypeOK, NoPair
  <2> QED BY <1>4, <2>1, <2>3, <2>4 DEF Logout, TypeOK, WellFormed, Leads
<1>5. ASSUME NEW n \in revoking, Revoke(n) PROVE TypeOK'
  BY <1>5 DEF Revoke, TypeOK, WellFormed, Leads
<1>6. ASSUME NEW n \in fresh, ExpireAccess(n) PROVE TypeOK'
  BY <1>6 DEF ExpireAccess, TypeOK, WellFormed, Leads
<1>7. ASSUME NEW n \in active, ExpireRefresh(n) PROVE TypeOK'
  BY <1>7 DEF ExpireRefresh, Disturb, TypeOK, WellFormed, Leads
<1>8. ASSUME NEW t \in Tabs, NEW r \in Requests, Send(t, r) PROVE TypeOK'
  BY <1>8 DEF Send, Goes, NewRequest, TypeOK, WellFormed, Leads, TabState,
              RequestState, Stations, server
<1>9. ASSUME NEW r \in Requests, RequestStep(r) PROVE TypeOK'
  <2>1. CASE Serve(r)
    BY <2>1 DEF Serve, TypeOK, WellFormed, Leads, RequestState, Stations, Goes, server
  <2>2. CASE GiveUp(r)
    BY <2>2 DEF GiveUp, TypeOK, WellFormed, Leads, RequestState, Stations, Goes, server
  <2>3. CASE Wait(r)
    <3>1. Tab(r).gate \in Nat
      BY <2>3 DEF Wait, TypeOK, WellFormed, Tab, TabState
    <3>2. req[r] \in RequestState /\ req[r].by \in Tabs
      BY <2>3 DEF Wait, TypeOK, WellFormed
    <3>3. PICK w \in RequestState :
            w.by \in Tabs /\ w.at \in {"waiting", "retried"} /\ Goes(r, w)
      BY <2>3, <3>1, <3>2 DEF Wait, RequestState, Stations
    <3>4. req' \in [Requests -> RequestState] /\ \A q \in Requests : WellFormed(q)'
      BY <3>3, RequestType
    <3> QED BY <2>3, <3>4 DEF Wait, TypeOK, server
  <2>4. CASE StartRefresh(r)
    <3> DEFINE w == [req[r] EXCEPT !.at = "refreshing", !.presents = Tab(r).pair]
    <3>1. Tab(r) \in TabState
      BY <2>4 DEF StartRefresh, TypeOK, WellFormed, Tab
    <3>2. w \in RequestState /\ w.by = req[r].by /\ w.by \in Tabs /\ w.presents # NoPair
      BY <2>4, <3>1 DEF StartRefresh, TypeOK, WellFormed, RequestState, Stations, TabState
    <3>3. Goes(r, w)
      BY <2>4 DEF StartRefresh
    <3>4. req' \in [Requests -> RequestState] /\ \A q \in Requests : WellFormed(q)'
      <4> HIDE DEF w
      <4> QED BY <3>2, <3>3, RequestType
    <3>5. tab' \in [Tabs -> TabState]
      BY <2>4 DEF StartRefresh, TypeOK, TabState
    <3> QED BY <2>4, <3>4, <3>5 DEF StartRefresh, TypeOK, server
  <2>5. CASE CheckToken(r)
    BY <2>5 DEF CheckToken, TypeOK, WellFormed, Leads, RequestState, Stations, Goes, server
  <2>6. CASE Rotate(r)
    <3> DEFINE w == [req[r] EXCEPT !.at = "rotated", !.got = issued + 1]
    <3>1. req[r] \in RequestState /\ req[r].by \in Tabs /\ req[r].presents # NoPair
      BY <2>6 DEF Rotate, TypeOK, WellFormed, Leads
    <3>2. issued + 1 \in Nat
      BY DEF TypeOK
    <3>3. \A n \in Nat : [req[r] EXCEPT !.at = "rotated", !.got = n] \in RequestState
      BY <3>1 DEF RequestState, Stations
    <3>4. w \in RequestState /\ w.by \in Tabs /\ w.presents # NoPair
      BY <3>1, <3>2, <3>3 DEF RequestState
    <3>5. Goes(r, w)
      BY <2>6 DEF Rotate
    <3>6. req' \in [Requests -> RequestState] /\ \A q \in Requests : WellFormed(q)'
      <4> HIDE DEF w
      <4> QED BY <3>4, <3>5, RequestType
    <3>7. issued' \in Nat /\ active' \subseteq 1 .. issued' /\ fresh' \subseteq 1 .. issued'
      BY <2>6 DEF Rotate, Issue, TypeOK
    <3> QED BY <2>6, <3>6, <3>7 DEF Rotate, TypeOK
  <2>7. CASE Refreshed(r)
    <3>1. req[r].got \in Nat /\ storage' \in Nat
      BY <2>7 DEF Refreshed, TypeOK, RequestState
    <3>2. tab' \in [Tabs -> TabState]
      BY <2>7, <3>1 DEF Refreshed, TypeOK, TabState
    <3>3. req' = Released(r, req[r].got)
      BY <2>7 DEF Refreshed
    <3>4. ASSUME NEW q \in Requests
          PROVE  /\ req'[q] \in RequestState
                 /\ WellFormed(q)'
      <4>1. req'[q] = req[q] \/ req'[q] = [req[q] EXCEPT !.at = "retried", !.got = req[r].got]
        BY <3>3 DEF Released
      <4>2. req[q] \in RequestState /\ WellFormed(q)
        BY DEF TypeOK
      <4>3. req[q].at # "none" \/ req'[q] = req[q]
        BY <2>7, <3>3, <4>2 DEF Refreshed, Released
      <4>4. req'[q] \in RequestState
        BY <3>1, <4>1, <4>2 DEF RequestState, Stations
      <4> QED BY <4>1, <4>2, <4>3, <4>4 DEF WellFormed, Leads, RequestState
    <3>5. req' \in [Requests -> RequestState]
      BY <3>3, <3>4 DEF Released
    <3> QED BY <2>7, <3>1, <3>2, <3>4, <3>5 DEF Refreshed, TypeOK, server
  <2>8. CASE RefreshDenied(r)
    BY <2>8, FailsType DEF RefreshDenied, TypeOK, WellFormed, Leads, server
  <2>9. CASE RetryAnswered(r)
    BY <2>9 DEF RetryAnswered, TypeOK, WellFormed, Leads, RequestState, Stations, Goes, server
  <2> QED BY <1>9, <2>1, <2>2, <2>3, <2>4, <2>5, <2>6, <2>7, <2>8, <2>9 DEF RequestStep
<1>10. ASSUME NEW r \in Requests, RefreshLost(r) PROVE TypeOK'
  <2>1. disturbances' \in 0 .. MaxDisturbances
    BY <1>10, DisturbType DEF RefreshLost
  <2> QED
    BY <1>10, <2>1, FailsType DEF RefreshLost, TypeOK, WellFormed, Leads, server
<1>11. ASSUME NEW r \in Requests, RetryFails(r) PROVE TypeOK'
  <2>1. disturbances' \in 0 .. MaxDisturbances
    BY <1>11, DisturbType DEF RetryFails
  <2>2. /\ req' \in [Requests -> RequestState]
        /\ \A q \in Requests : WellFormed(q)'
    BY <1>11, FailsType DEF RetryFails
  <2>3. storage' \in Nat /\ tab' \in [Tabs -> TabState]
    BY <1>11, SessionOverType DEF RetryFails, TypeOK, WellFormed
  <2> QED BY <1>11, <2>1, <2>2, <2>3 DEF RetryFails, TypeOK, server
<1> QED
  BY <1>1, <1>2, <1>3, <1>4, <1>5, <1>6, <1>7, <1>8, <1>9, <1>10, <1>11 DEF Next

\* The server's tables, the tabs and their requests keep their types; every
\* request that is under way has a tab and every refresh a token to present.
THEOREM TypeCorrect == Spec => []TypeOK
<1>1. Init => TypeOK
  BY SignInsAssumption, DisturbancesAssumption
     DEF Init, TypeOK, WellFormed, Leads, TabState, RequestState, Stations, NewRequest, NoPair
<1>2. TypeOK /\ [Next]_vars => TypeOK'
  BY TypeStep
<1> QED BY <1>1, <1>2, PTL DEF Spec

-------------------------------------------------------------------------------

\* A working session, with its invariant.
Working ==
  /\ TypeOK /\ Undisturbed
  /\ OneTab /\ OneLeader /\ LeaderPresentsLive /\ NoneIsAhead
  /\ revoking = {} /\ (issued = 0 => storage = NoPair)
  /\ OneLiveToken /\ RetryIsNewer

LEMMA OpenWorks ==
  ASSUME Working, TypeOK', disturbances' = 0, NEW t \in Tabs, Open(t)
  PROVE  Working'
<1> USE DEF Working, Undisturbed, TypeOK, WellFormed, RequestState, Stations, TabState,
            Leads, Tab, Goes, NoPair, server
<1>1. OneTab'
  <2>1. \A s \in Tabs : ~tab[s].open
    BY DisturbType DEF Working, Open
  <2>2. issued = 0 /\ storage = NoPair
    BY <2>1 DEF Working, OneTab, TypeOK
  <2>3. \A q \in Requests : req[q].at = "none"
    BY <2>1 DEF Working, OneTab, Tab, TypeOK, WellFormed
  <2>4. /\ tab'[t].open /\ tab'[t].pair = NoPair
        /\ \A s \in Tabs \ {t} : tab'[s] = tab[s]
    BY <2>2 DEF Working, Open, TypeOK, TabState
  <2>5. issued' = 0 /\ req' = req
    BY <2>2 DEF Open, server
  <2>6. \A s \in Tabs \ {t} : ~tab'[s].open /\ tab'[s].pair = NoPair
    BY <2>1, <2>4 DEF Working, OneTab
  <2> QED BY <2>3, <2>4, <2>5, <2>6 DEF OneTab
<1>2. OneLeader'
  BY DEF Open, OneLeader, OneTab
<1>3. LeaderPresentsLive'
  BY DEF Open, LeaderPresentsLive, OneTab, OneLeader, OneLiveToken
<1>4. NoneIsAhead'
  BY DEF Open, NoneIsAhead, OneTab, LeaderPresentsLive, OneLiveToken
<1>5. OneLiveToken'
  BY DEF Open, OneLiveToken, OneTab, OneLeader, LeaderPresentsLive
<1>6. RetryIsNewer'
  BY DEF Open, RetryIsNewer, LeaderPresentsLive, NoneIsAhead, OneLeader, OneTab
<1>7. Undisturbed' /\ revoking' = {} /\ (issued = 0 => storage = NoPair)'
  BY DEF Open, OneTab, LeaderPresentsLive
<1> QED BY <1>1, <1>2, <1>3, <1>4, <1>5, <1>6, <1>7

LEMMA SignInWorks ==
  ASSUME Working, TypeOK', disturbances' = 0, NEW t \in Tabs, SignIn(t)
  PROVE  Working'
<1> USE DEF Working, Undisturbed, TypeOK, WellFormed, RequestState, Stations, TabState,
            Leads, Tab, Goes, NoPair, server
<1>1. OneTab'
  BY DEF SignIn, Issue, Store, OneTab
<1>2. OneLeader'
  BY DEF SignIn, Issue, Store, OneLeader, OneTab
<1>3. LeaderPresentsLive'
  BY DEF SignIn, Issue, Store, LeaderPresentsLive, OneTab, OneLeader, OneLiveToken
<1>4. NoneIsAhead'
  BY DEF SignIn, Issue, Store, NoneIsAhead, OneTab, LeaderPresentsLive, OneLiveToken
<1>5. OneLiveToken'
  BY DEF SignIn, Issue, Store, OneLiveToken, OneTab, OneLeader, LeaderPresentsLive
<1>6. RetryIsNewer'
  BY DEF SignIn, Issue, Store, RetryIsNewer, LeaderPresentsLive, NoneIsAhead, OneLeader, OneTab
<1>7. Undisturbed' /\ revoking' = {} /\ (issued = 0 => storage = NoPair)'
  BY DEF SignIn, Issue, Store, OneTab, LeaderPresentsLive
<1> QED BY <1>1, <1>2, <1>3, <1>4, <1>5, <1>6, <1>7

LEMMA ExpireAccessWorks ==
  ASSUME Working, TypeOK', disturbances' = 0, NEW n \in fresh, ExpireAccess(n)
  PROVE  Working'
<1> USE DEF Working, Undisturbed, TypeOK, WellFormed, RequestState, Stations, TabState,
            Leads, Tab, Goes, NoPair, server
<1>1. OneTab'
  BY DEF ExpireAccess, OneTab
<1>2. OneLeader'
  BY DEF ExpireAccess, OneLeader, OneTab
<1>3. LeaderPresentsLive'
  BY DEF ExpireAccess, LeaderPresentsLive, OneTab, OneLeader, OneLiveToken
<1>4. NoneIsAhead'
  BY DEF ExpireAccess, NoneIsAhead, OneTab, LeaderPresentsLive, OneLiveToken
<1>5. OneLiveToken'
  BY DEF ExpireAccess, OneLiveToken, OneTab, OneLeader, LeaderPresentsLive
<1>6. RetryIsNewer'
  BY DEF ExpireAccess, RetryIsNewer, LeaderPresentsLive, NoneIsAhead, OneLeader, OneTab
<1>7. Undisturbed' /\ revoking' = {} /\ (issued = 0 => storage = NoPair)'
  BY DEF ExpireAccess, OneTab, LeaderPresentsLive
<1> QED BY <1>1, <1>2, <1>3, <1>4, <1>5, <1>6, <1>7

LEMMA SendWorks ==
  ASSUME Working, TypeOK', disturbances' = 0, NEW t \in Tabs, NEW r \in Requests, Send(t, r)
  PROVE  Working'
<1> USE DEF Working, Undisturbed, TypeOK, WellFormed, RequestState, Stations, TabState,
            Leads, Tab, Goes, NoPair, server
<1>1. OneTab'
  BY DEF Send, NewRequest, OneTab
<1>2. OneLeader'
  BY DEF Send, NewRequest, OneLeader, OneTab
<1>3. LeaderPresentsLive'
  BY DEF Send, NewRequest, LeaderPresentsLive, OneTab, OneLeader, OneLiveToken
<1>4. NoneIsAhead'
  BY DEF Send, NewRequest, NoneIsAhead, OneTab, LeaderPresentsLive, OneLiveToken
<1>5. OneLiveToken'
  BY DEF Send, NewRequest, OneLiveToken, OneTab, OneLeader, LeaderPresentsLive
<1>6. RetryIsNewer'
  BY DEF Send, NewRequest, RetryIsNewer, LeaderPresentsLive, NoneIsAhead, OneLeader, OneTab
<1>7. Undisturbed' /\ revoking' = {} /\ (issued = 0 => storage = NoPair)'
  BY DEF Send, NewRequest, OneTab, LeaderPresentsLive
<1> QED BY <1>1, <1>2, <1>3, <1>4, <1>5, <1>6, <1>7

LEMMA ServeWorks ==
  ASSUME Working, TypeOK', disturbances' = 0, NEW r \in Requests, Serve(r)
  PROVE  Working'
<1> USE DEF Working, Undisturbed, TypeOK, WellFormed, RequestState, Stations, TabState,
            Leads, Tab, Goes, NoPair, server
<1>1. OneTab'
  BY DEF Serve, OneTab
<1>2. OneLeader'
  BY DEF Serve, OneLeader, OneTab
<1>3. LeaderPresentsLive'
  BY DEF Serve, LeaderPresentsLive, OneTab, OneLeader, OneLiveToken
<1>4. NoneIsAhead'
  BY DEF Serve, NoneIsAhead, OneTab, LeaderPresentsLive, OneLiveToken
<1>5. OneLiveToken'
  BY DEF Serve, OneLiveToken, OneTab, OneLeader, LeaderPresentsLive
<1>6. RetryIsNewer'
  BY DEF Serve, RetryIsNewer, LeaderPresentsLive, NoneIsAhead, OneLeader, OneTab
<1>7. Undisturbed' /\ revoking' = {} /\ (issued = 0 => storage = NoPair)'
  BY DEF Serve, OneTab, LeaderPresentsLive
<1> QED BY <1>1, <1>2, <1>3, <1>4, <1>5, <1>6, <1>7

LEMMA WaitWorks ==
  ASSUME Working, TypeOK', disturbances' = 0, NEW r \in Requests, Wait(r)
  PROVE  Working'
<1> USE DEF Working, Undisturbed, TypeOK, WellFormed, RequestState, Stations, TabState,
            Leads, Tab, Goes, NoPair, server
<1>1. OneTab'
  BY DEF Wait, OneTab
<1>2. OneLeader'
  BY DEF Wait, OneLeader, OneTab
<1>3. LeaderPresentsLive'
  BY DEF Wait, LeaderPresentsLive, OneTab, OneLeader, OneLiveToken
<1>4. NoneIsAhead'
  BY DEF Wait, NoneIsAhead, OneTab, LeaderPresentsLive, OneLiveToken
<1>5. OneLiveToken'
  BY DEF Wait, OneLiveToken, OneTab, OneLeader, LeaderPresentsLive
<1>6. RetryIsNewer'
  BY DEF Wait, RetryIsNewer, LeaderPresentsLive, NoneIsAhead, OneLeader, OneTab
<1>7. Undisturbed' /\ revoking' = {} /\ (issued = 0 => storage = NoPair)'
  BY DEF Wait, OneTab, LeaderPresentsLive
<1> QED BY <1>1, <1>2, <1>3, <1>4, <1>5, <1>6, <1>7

LEMMA StartRefreshWorks ==
  ASSUME Working, TypeOK', disturbances' = 0, NEW r \in Requests, StartRefresh(r)
  PROVE  Working'
<1>1. /\ r \in Requests /\ req[r].at = "refused" /\ req[r].by \in Tabs
      /\ Tab(r).open /\ Tab(r).pair # NoPair /\ ~Tab(r).refreshing
  BY DEF Working, TypeOK, WellFormed, OneTab, StartRefresh
<1>2. \A q \in Requests : ~Leads(q)
  <2>1. \A q \in Requests : Leads(q) => Tab(q).open /\ Tab(q).refreshing /\ req[q].by \in Tabs
    BY DEF Working, TypeOK, WellFormed, OneTab, OneLeader, Leads
  <2> QED BY <1>1, <2>1 DEF Working, OneTab, Tab
<1>3. Tab(r).pair = issued /\ active = {issued} /\ issued # 0
  <2>1. Tab(r).pair = issued
    BY <1>1, <1>2 DEF Working, OneLiveToken, Leads, Tab
  <2> QED BY <1>1, <2>1 DEF Working, OneLiveToken, NoPair
<1>4. /\ tab' = [tab EXCEPT ![req[r].by].refreshing = TRUE, ![req[r].by].gate = NoPair]
      /\ req' = [req EXCEPT ![r] =
           [req[r] EXCEPT !.at = "refreshing", !.presents = Tab(r).pair]]
      /\ issued' = issued /\ active' = active /\ revoking' = revoking
      /\ storage' = storage
  BY DEF StartRefresh, Goes, server
<1>5. \A s \in Tabs : /\ tab'[s].open = tab[s].open /\ tab'[s].pair = tab[s].pair
                      /\ tab'[s].refreshing => tab[s].refreshing \/ s = req[r].by
                      /\ tab[s].refreshing => tab'[s].refreshing
                      /\ tab'[s].gate = tab[s].gate \/ tab'[s].gate = NoPair
                      /\ s # req[r].by => tab'[s] = tab[s]
  BY <1>1, <1>4 DEF Working, TypeOK, TabState
<1>6. tab'[req[r].by].refreshing /\ tab'[req[r].by].gate = NoPair
  BY <1>1, <1>4 DEF Working, TypeOK, TabState
<1>7. \A q \in Requests : /\ req'[q].by = req[q].by /\ req'[q].used = req[q].used
                          /\ req'[q].got = req[q].got
                          /\ q # r => req'[q] = req[q]
  BY <1>4 DEF Working, TypeOK, RequestState
<1>8. req'[r].at = "refreshing" /\ req'[r].presents = issued
  BY <1>3, <1>4 DEF Working, TypeOK, RequestState
<1>9. \A q \in Requests : req'[q].at # "none" => req[q].at # "none" /\ req[q].by \in Tabs
  BY <1>1, <1>7 DEF Working, TypeOK, WellFormed
<1>10. OneTab'
  <2>1. \A q \in Requests :
          req'[q].at # "none" => Tab(q)'.open /\ Tab(q)'.pair # NoPair
    BY <1>5, <1>7, <1>9 DEF Working, OneTab, Tab
  <2>2. \A s \in Tabs : tab'[s].open \/ tab'[s].pair = NoPair
    BY <1>5 DEF Working, OneTab
  <2>3. \A s, u \in Tabs : tab'[s].open /\ tab'[u].open => s = u
    BY <1>5 DEF Working, OneTab
  <2>4. /\ issued' > 0 => \E s \in Tabs : tab'[s].open
        /\ \A s \in Tabs : issued' > 0 /\ tab'[s].open => tab'[s].pair # NoPair
    <3>1. /\ issued > 0 => \E s \in Tabs : tab[s].open
          /\ \A s \in Tabs : issued > 0 /\ tab[s].open => tab[s].pair # NoPair
      BY DEF Working, OneTab
    <3>2. issued' = issued
      BY <1>4
    <3> QED BY <1>5, <3>1, <3>2
  <2> QED BY <2>1, <2>2, <2>3, <2>4 DEF OneTab
<1>11. OneLeader'
  <2>1. \A q \in Requests : Leads(q)' => q = r
    BY <1>2, <1>7 DEF Leads
  <2>2. Tab(r)'.refreshing
    BY <1>6, <1>7 DEF Tab
  <2>3. \A s \in Tabs : tab'[s].refreshing => tab'[s].gate = NoPair
    BY <1>5, <1>6 DEF Working, OneLeader
  <2> QED BY <2>1, <2>2, <2>3 DEF OneLeader
<1>12. LeaderPresentsLive'
  <2>1. \A q \in Requests : Leads(q)' => q = r
    BY <1>2, <1>7 DEF Leads
  <2>2. Tab(r)'.pair = issued'
    BY <1>1, <1>3, <1>4, <1>5, <1>7 DEF Tab
  <2> QED BY <1>4, <1>8, <2>1, <2>2 DEF LeaderPresentsLive, Leads
<1>13. NoneIsAhead'
  <2>1. \A q \in Requests : req'[q].at # "none" => Tab(q)'.pair = Tab(q).pair
    BY <1>5, <1>7, <1>9 DEF Tab
  <2>2. req[r].used <= Tab(r).pair
    BY <1>1 DEF Working, NoneIsAhead
  <2>3. ASSUME NEW q \in Requests,
               (req[q].at \in {"sent", "refused", "waiting"} \/ Leads(q))'
        PROVE  req'[q].used <= Tab(q)'.pair
    <3>1. CASE q = r
      BY <1>7, <1>8, <2>1, <2>2, <3>1
    <3>2. CASE q # r
      BY <1>7, <2>1, <2>3, <3>2 DEF Working, NoneIsAhead, Leads
    <3> QED BY <3>1, <3>2
  <2> QED BY <2>3 DEF NoneIsAhead
<1>14. OneLiveToken'
  BY <1>2, <1>3, <1>4, <1>5 DEF Working, OneLiveToken, Leads
<1>15. RetryIsNewer'
  BY <1>7, <1>8 DEF Working, RetryIsNewer
<1> QED
  BY <1>4, <1>10, <1>11, <1>12, <1>13, <1>14, <1>15 DEF Working, Undisturbed

LEMMA CheckTokenWorks ==
  ASSUME Working, TypeOK', disturbances' = 0, NEW r \in Requests, CheckToken(r)
  PROVE  Working'
<1> USE DEF Working, Undisturbed, TypeOK, WellFormed, RequestState, Stations, TabState,
            Leads, Tab, Goes, NoPair, server
<1>1. OneTab'
  BY DEF CheckToken, OneTab
<1>2. OneLeader'
  BY DEF CheckToken, OneLeader, OneTab
<1>3. LeaderPresentsLive'
  BY DEF CheckToken, LeaderPresentsLive, OneTab, OneLeader, OneLiveToken
<1>4. NoneIsAhead'
  BY DEF CheckToken, NoneIsAhead, OneTab, LeaderPresentsLive, OneLiveToken
<1>5. OneLiveToken'
  BY DEF CheckToken, OneLiveToken, OneTab, OneLeader, LeaderPresentsLive
<1>6. RetryIsNewer'
  BY DEF CheckToken, RetryIsNewer, LeaderPresentsLive, NoneIsAhead, OneLeader, OneTab
<1>7. Undisturbed' /\ revoking' = {} /\ (issued = 0 => storage = NoPair)'
  BY DEF CheckToken, OneTab, LeaderPresentsLive
<1> QED BY <1>1, <1>2, <1>3, <1>4, <1>5, <1>6, <1>7

LEMMA RotateWorks ==
  ASSUME Working, TypeOK', disturbances' = 0, NEW r \in Requests, Rotate(r)
  PROVE  Working'
<1> USE DEF Working, Undisturbed, TypeOK, WellFormed, RequestState, Stations, TabState,
            Leads, Tab, Goes, NoPair, server
<1>1. OneTab'
  BY DEF Rotate, Issue, OneTab
<1>2. OneLeader'
  BY DEF Rotate, Issue, OneLeader, OneTab
<1>3. LeaderPresentsLive'
  BY DEF Rotate, Issue, LeaderPresentsLive, OneTab, OneLeader, OneLiveToken
<1>4. NoneIsAhead'
  BY DEF Rotate, Issue, NoneIsAhead, OneTab, LeaderPresentsLive, OneLiveToken
<1>5. OneLiveToken'
  BY DEF Rotate, Issue, OneLiveToken, OneTab, OneLeader, LeaderPresentsLive
<1>6. RetryIsNewer'
  BY DEF Rotate, Issue, RetryIsNewer, LeaderPresentsLive, NoneIsAhead, OneLeader, OneTab
<1>7. Undisturbed' /\ revoking' = {} /\ (issued = 0 => storage = NoPair)'
  BY DEF Rotate, Issue, OneTab, LeaderPresentsLive
<1> QED BY <1>1, <1>2, <1>3, <1>4, <1>5, <1>6, <1>7

LEMMA RefreshedWorks ==
  ASSUME Working, TypeOK', disturbances' = 0, NEW r \in Requests, Refreshed(r)
  PROVE  Working'
<1> DEFINE t == req[r].by
           n == req[r].got
<1>1. /\ req[r].at = "rotated" /\ t \in Tabs /\ Tab(r) = tab[t] /\ Tab(r).open
      /\ n = issued /\ n \in Nat /\ Tab(r).pair < issued /\ tab[t].pair \in Nat
  BY DEF Working, TypeOK, WellFormed, OneTab, LeaderPresentsLive, Refreshed, RequestState,
         Tab, TabState
<1>2. n # NoPair
  BY <1>1 DEF NoPair
<1>3. \A q \in Requests : /\ Leads(q) => q = r
                          /\ req[q].at # "none" => req[q].by = t
  BY <1>1 DEF Working, OneLeader, OneTab, Tab, Leads, TypeOK, WellFormed
<1>4. /\ tab' = [tab EXCEPT ![t].pair = n, ![t].refreshing = FALSE, ![t].gate = n]
      /\ storage' = n /\ req' = Released(r, n)
      /\ issued' = issued /\ active' = active /\ revoking' = revoking
  BY DEF Refreshed, server
<1>5. /\ tab'[t].open /\ tab'[t].pair = n /\ ~tab'[t].refreshing
      /\ \A s \in Tabs \ {t} : tab'[s] = tab[s]
  BY <1>1, <1>4 DEF Working, TypeOK, TabState
<1>6. \A q \in Requests :
        IF q = r \/ req[q].at = "waiting"
        THEN req'[q].at = "retried" /\ req'[q].got = n /\ req'[q].used = req[q].used
             /\ req'[q].by = t
        ELSE req'[q] = req[q]
  <2>1. ASSUME NEW q \in Requests, q = r \/ req[q].at = "waiting"
        PROVE  /\ req'[q] = [req[q] EXCEPT !.at = "retried", !.got = n]
               /\ req[q] \in RequestState /\ req[q].by = t
    BY <1>3, <1>4, <2>1 DEF Working, TypeOK, Released
  <2>2. ASSUME NEW q \in Requests, ~(q = r \/ req[q].at = "waiting")
        PROVE  req'[q] = req[q]
    BY <1>4, <2>2 DEF Released
  <2> HIDE DEF n, t
  <2> QED BY <2>1, <2>2 DEF RequestState
<1>7. \A q \in Requests : ~Leads(q)'
  BY <1>3, <1>6 DEF Leads
<1> HIDE DEF n, t
<1>8. \A s \in Tabs : tab[s].open => s = t
  BY <1>1 DEF Working, OneTab
<1>9. OneTab'
  <2>1. \A q \in Requests : req'[q].at # "none" => req'[q].by = t
    BY <1>3, <1>6
  <2>2. \A s \in Tabs : s # t => ~tab'[s].open /\ tab'[s].pair = NoPair
    BY <1>5, <1>8 DEF Working, OneTab
  <2> QED BY <1>1, <1>2, <1>5, <2>1, <2>2 DEF OneTab, Tab
<1>10. OneLeader'
  BY <1>5, <1>7 DEF Working, OneLeader
<1>11. LeaderPresentsLive'
  BY <1>7 DEF LeaderPresentsLive, Leads
<1>12. NoneIsAhead'
  <2>1. ASSUME NEW q \in Requests,
               (req[q].at \in {"sent", "refused", "waiting"} \/ Leads(q))'
        PROVE  req'[q].used <= Tab(q)'.pair
    <3>1. req'[q] = req[q] /\ req[q].at \in {"sent", "refused"}
      BY <1>6, <1>7, <2>1
    <3>2. req[q].used <= tab[t].pair
      BY <1>3, <3>1 DEF Working, NoneIsAhead, Tab
    <3>3. Tab(q)'.pair = n
      BY <1>3, <1>5, <3>1 DEF Tab
    <3>4. req[q].used \in Nat
      BY DEF Working, TypeOK, RequestState
    <3> QED BY <1>1, <3>1, <3>2, <3>3, <3>4
  <2> QED BY <2>1 DEF NoneIsAhead
<1>13. OneLiveToken'
  <2>1. \A s \in Tabs : tab'[s].pair # NoPair => s = t
    BY <1>5, <1>8 DEF Working, OneTab
  <2>2. active = IF issued = 0 THEN {} ELSE {issued}
    BY DEF Working, OneLiveToken
  <2> QED BY <1>1, <1>4, <1>5, <2>1, <2>2 DEF OneLiveToken
<1>14. RetryIsNewer'
  <2>1. ASSUME NEW q \in Requests, req'[q].at = "retried"
        PROVE  req'[q].got > req'[q].used
    <3>1. CASE q = r \/ req[q].at = "waiting"
      <4>1. req[q].used <= tab[t].pair /\ req[q].used \in Nat
        BY <1>1, <1>3, <3>1 DEF Working, NoneIsAhead, Leads, Tab, TypeOK, RequestState
      <4> QED BY <1>1, <1>6, <3>1, <4>1
    <3>2. CASE ~(q = r \/ req[q].at = "waiting")
      BY <1>6, <2>1, <3>2 DEF Working, RetryIsNewer
    <3> QED BY <3>1, <3>2
  <2> QED BY <2>1 DEF RetryIsNewer
<1> QED
  BY <1>1, <1>2, <1>4, <1>9, <1>10, <1>11, <1>12, <1>13, <1>14
     DEF Working, Undisturbed, NoPair

LEMMA RetryAnsweredWorks ==
  ASSUME Working, TypeOK', disturbances' = 0, NEW r \in Requests, RetryAnswered(r)
  PROVE  Working'
<1> USE DEF Working, Undisturbed, TypeOK, WellFormed, RequestState, Stations, TabState,
            Leads, Tab, Goes, NoPair, server
<1>1. OneTab'
  BY DEF RetryAnswered, OneTab
<1>2. OneLeader'
  BY DEF RetryAnswered, OneLeader, OneTab
<1>3. LeaderPresentsLive'
  BY DEF RetryAnswered, LeaderPresentsLive, OneTab, OneLeader, OneLiveToken
<1>4. NoneIsAhead'
  BY DEF RetryAnswered, NoneIsAhead, OneTab, LeaderPresentsLive, OneLiveToken
<1>5. OneLiveToken'
  BY DEF RetryAnswered, OneLiveToken, OneTab, OneLeader, LeaderPresentsLive
<1>6. RetryIsNewer'
  BY DEF RetryAnswered, RetryIsNewer, LeaderPresentsLive, NoneIsAhead, OneLeader, OneTab
<1>7. Undisturbed' /\ revoking' = {} /\ (issued = 0 => storage = NoPair)'
  BY DEF RetryAnswered, OneTab, LeaderPresentsLive
<1> QED BY <1>1, <1>2, <1>3, <1>4, <1>5, <1>6, <1>7

-------------------------------------------------------------------------------

LEMMA WorkingInit == Init => WorkingSession
<1>1. SUFFICES ASSUME Init PROVE WorkingSession
  OBVIOUS
<1>2. OneTab /\ OneLeader /\ LeaderPresentsLive /\ NoneIsAhead
  BY <1>1 DEF Init, NewRequest, NoPair, OneTab, OneLeader, LeaderPresentsLive, NoneIsAhead,
              Leads, Tab
<1>3. OneLiveToken /\ RetryIsNewer
  BY <1>1 DEF Init, NewRequest, NoPair, OneLiveToken, RetryIsNewer
<1> QED BY <1>1, <1>2, <1>3 DEF Init, WorkingSession

\* A step that leaves a session undisturbed found it undisturbed, and keeps the
\* invariant.
LEMMA UndisturbedStep ==
  ASSUME TypeOK, TypeOK', WorkingSession, [Next]_vars, disturbances' = 0
  PROVE  Working /\ Working'
<1>1. disturbances = 0
  <2>1. disturbances' = disturbances \/ Disturb
    BY DEF Next, RequestStep, Open, SignIn, Logout, Revoke, ExpireAccess, ExpireRefresh,
           Send, Serve, GiveUp, Wait, StartRefresh, CheckToken, Rotate, Refreshed,
           RefreshDenied, RefreshLost, RetryAnswered, RetryFails, vars
  <2> QED BY <2>1, DisturbType
<1>2. Working
  BY <1>1 DEF WorkingSession, Working, Undisturbed
<1>3. ~Disturb
  BY DisturbType
<1>4. CASE UNCHANGED vars
  <2>1. Working <=> Working'
    BY <1>4 DEF vars, server, Working, TypeOK, WellFormed, Undisturbed, OneTab, OneLeader,
                LeaderPresentsLive, NoneIsAhead, OneLiveToken, RetryIsNewer, Leads, Tab
  <2> QED BY <1>2, <2>1
<1>5. ASSUME NEW t \in Tabs, Open(t) \/ SignIn(t) \/ Logout(t) PROVE Working'
  BY <1>2, <1>3, <1>5, OpenWorks, SignInWorks DEF Logout
<1>6. ASSUME NEW n \in revoking, Revoke(n) PROVE Working'
  BY <1>2, <1>6 DEF Working
<1>7. ASSUME NEW n \in fresh, ExpireAccess(n) PROVE Working'
  BY <1>2, <1>7, ExpireAccessWorks
<1>8. ASSUME NEW n \in active, ExpireRefresh(n) PROVE Working'
  BY <1>3, <1>8 DEF ExpireRefresh
<1>9. ASSUME NEW t \in Tabs, NEW r \in Requests, Send(t, r) PROVE Working'
  BY <1>2, <1>9, SendWorks
<1>10. ASSUME NEW r \in Requests, RequestStep(r) PROVE Working'
  <2>1. ~GiveUp(r) /\ ~RefreshDenied(r)
    BY <1>2 DEF Working, OneTab, LeaderPresentsLive, GiveUp, RefreshDenied, Tab
  <2> QED
    BY <1>2, <1>10, <2>1, ServeWorks, WaitWorks, StartRefreshWorks, CheckTokenWorks,
       RotateWorks, RefreshedWorks, RetryAnsweredWorks DEF RequestStep
<1>11. ASSUME NEW r \in Requests, RefreshLost(r) \/ RetryFails(r) PROVE Working'
  BY <1>3, <1>11 DEF RefreshLost, RetryFails
<1> QED
  BY <1>2, <1>4, <1>5, <1>6, <1>7, <1>8, <1>9, <1>10, <1>11 DEF Next

LEMMA WorkingStep ==
  ASSUME TypeOK, TypeOK', WorkingSession, [Next]_vars
  PROVE  WorkingSession'
<1>1. CASE disturbances' = 0
  BY <1>1, UndisturbedStep DEF Working, WorkingSession
<1>2. CASE disturbances' # 0
  BY <1>2 DEF WorkingSession, Undisturbed, OneLiveToken, RetryIsNewer
<1> QED BY <1>1, <1>2

\* A working session has one live refresh token, which its tab holds or is about
\* to get, and no request is ever retried with a token that is not newer than
\* the one that was refused.
THEOREM SessionCorrect == Spec => [](OneLiveToken /\ RetryIsNewer)
<1>1. Init => WorkingSession
  BY WorkingInit
<1>2. TypeOK /\ TypeOK' /\ WorkingSession /\ [Next]_vars => WorkingSession'
  BY WorkingStep
<1>3. WorkingSession => OneLiveToken /\ RetryIsNewer
  BY DEF WorkingSession
<1> QED BY <1>1, <1>2, <1>3, TypeCorrect, PTL DEF Spec

\* The gate's last value never lets a waiting request out with the token it was
\* refused with.
THEOREM RetriesAreNewer == Spec => []RetryIsNewer
<1> QED BY SessionCorrect, PTL

\* Pairs are not taken back and tabs stay open.
LEMMA IssuedStep ==
  ASSUME TypeOK, [Next]_vars
  PROVE  issued' >= issued /\ \A t \in Tabs : tab[t].open => tab'[t].open
<1>1. issued' = issued \/ issued' = issued + 1
  BY DEF Next, RequestStep, Open, SignIn, Issue, Logout, Revoke, ExpireAccess, ExpireRefresh,
         Send, Serve, GiveUp, Wait, StartRefresh, CheckToken, Rotate, Refreshed,
         RefreshDenied, RefreshLost, RetryAnswered, RetryFails, vars, server
<1>2. ASSUME NEW t \in Tabs, tab[t].open PROVE tab'[t].open
  <2>1. ASSUME NEW s \in Tabs, Open(s) \/ SignIn(s) \/ Logout(s) PROVE tab'[t].open
    BY <1>2, <2>1 DEF Open, SignIn, Store, Logout, TypeOK, TabState
  <2>2. ASSUME NEW r \in Requests, StartRefresh(r) \/ Refreshed(r) PROVE tab'[t].open
    BY <1>2, <2>2 DEF StartRefresh, Refreshed, TypeOK, TabState
  <2>3. ASSUME NEW s \in Tabs, SessionOver(s) PROVE tab'[t].open
    BY <1>2, <2>3 DEF SessionOver, TypeOK, TabState
  <2>4. ASSUME NEW r \in Requests, RefreshDenied(r) \/ RefreshLost(r) \/ RetryFails(r)
        PROVE  tab'[t].open
    <3>1. req[r].by \in Tabs
      BY <2>4 DEF RefreshDenied, RefreshLost, RetryFails, TypeOK, WellFormed
    <3>2. SessionOver(req[r].by) \/ tab' = tab
      BY <2>4 DEF RefreshDenied, RefreshLost, RetryFails
    <3> QED BY <1>2, <2>3, <3>1, <3>2
  <2>5. \/ tab' = tab
        \/ \E s \in Tabs : Open(s) \/ SignIn(s) \/ Logout(s)
        \/ \E r \in Requests : \/ StartRefresh(r) \/ Refreshed(r)
                               \/ RefreshDenied(r) \/ RefreshLost(r) \/ RetryFails(r)
    BY DEF Next, RequestStep, Revoke, ExpireAccess, ExpireRefresh, Send, Serve, GiveUp, Wait,
           CheckToken, Rotate, RetryAnswered, vars
  <2> QED BY <1>2, <2>1, <2>2, <2>4, <2>5
<1> QED BY <1>1, <1>2 DEF TypeOK

\* The single refresh of the interceptor never signs a working session out.
LEMMA NoSignOutStep ==
  ASSUME TypeOK, TypeOK', WorkingSession, [Next]_vars
  PROVE  \A t \in Tabs : tab[t].pair # NoPair /\ tab'[t].pair = NoPair => disturbances' > 0
<1>1. CASE disturbances' # 0
  BY <1>1 DEF TypeOK
<1>2. CASE disturbances' = 0
  <2>1. Working /\ Working'
    BY <1>2, UndisturbedStep
  <2>2. ASSUME NEW t \in Tabs, tab[t].pair # NoPair PROVE tab'[t].pair # NoPair
    <3>1. issued > 0 /\ tab[t].open
      <4>1. tab[t].pair \in Nat /\ issued \in Nat /\ tab[t].pair # 0
        BY <2>1, <2>2 DEF Working, TypeOK, TabState, NoPair
      <4>2. tab[t].pair = issued \/ tab[t].pair < issued
        BY <2>1, <2>2 DEF Working, OneLiveToken, LeaderPresentsLive, Tab
      <4>3. tab[t].open
        BY <2>1, <2>2 DEF Working, OneTab
      <4> QED BY <4>1, <4>2, <4>3
    <3>2. issued' >= issued /\ tab'[t].open
      BY <2>1, <3>1, IssuedStep
    <3>3. issued' > 0
      BY <3>1, <3>2 DEF Working, TypeOK
    <3> QED BY <2>1, <3>2, <3>3 DEF Working, OneTab
  <2> QED BY <2>2
<1> QED BY <1>1, <1>2

THEOREM SignedInCorrect == Spec => StaysSignedIn
<1>1. Init => WorkingSession
  BY WorkingInit
<1>2. TypeOK /\ TypeOK' /\ WorkingSession /\ [Next]_vars => WorkingSession'
  BY WorkingStep
<1>3. TypeOK /\ TypeOK' /\ WorkingSession /\ [Next]_vars =>
        [\A t \in Tabs : tab[t].pair # NoPair /\ tab'[t].pair = NoPair =>
           disturbances' > 0]_vars
  BY NoSignOutStep
<1> QED BY <1>1, <1>2, <1>3, TypeCorrect, PTL DEF Spec, StaysSignedIn

===============================================================================
