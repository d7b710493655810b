-------------------------- MODULE ModelClientProofs --------------------------
(***************************************************************************)
(* Proofs about ModelClient, for any number of clients, any limit of the    *)
(* service and any patience: the types, how long a call can last, and what  *)
(* it takes for a call to be refused for good.                              *)
(***************************************************************************)
EXTENDS ModelClient, Integers, TLAPS

Row ==
  [at : {"idle", "ready", "posted", "waiting", "parsed", "failed", "refused"},
   attempt : 0..MaxWaits, timer : Nat, calls : 0..Calls,
   elapsed : Nat, others : Nat, unnamed : BOOLEAN]

\* The row of a client whose history differs in what it says, field by field.
LEMMA RowFields ==
  \A r \in Row :
    /\ r.at \in {"idle", "ready", "posted", "waiting", "parsed", "failed", "refused"}
    /\ r.attempt \in Nat /\ r.attempt <= MaxWaits /\ r.timer \in Nat
    /\ r.calls \in Nat /\ r.calls <= Calls
    /\ r.elapsed \in Nat /\ r.others \in Nat /\ r.unnamed \in BOOLEAN
BY PatienceIsNatural, WindowIsNamed DEF Row

\* How long a call has lasted, by how often it was told to wait.
Lasted(r) ==
  LET round == Timeout + Cap IN
  /\ r.at = "idle" => r.elapsed = 0
  /\ r.at = "ready" => r.elapsed <= r.attempt * round
  /\ r.at = "waiting" => r.elapsed + r.timer <= r.attempt * round
  /\ r.at = "posted" => r.elapsed + r.timer <= r.attempt * round + Timeout
  /\ r.at \in {"parsed", "failed", "refused"} => r.elapsed <= r.attempt * round + Timeout

\* A client that waits as it was told wakes with the next window; from then on
\* whatever the window no longer admits has gone to the others.
Crowded(r, left, next) ==
  r.at \in {"ready", "posted", "waiting"} /\ r.attempt # 0 /\ ~r.unnamed =>
    IF r.at = "waiting" /\ r.timer # 0
    THEN r.timer = next /\ r.others >= (r.attempt - 1) * PerWindow
    ELSE r.others + left >= r.attempt * PerWindow

Turned(r) == r.at = "refused" /\ ~r.unnamed => r.others >= MaxWaits * PerWindow

ClientInv(r, left, next) ==
  r \in Row /\ Lasted(r) /\ Crowded(r, left, next) /\ Turned(r)

Inv ==
  /\ client \in [Clients -> Row]
  /\ free \in 0..PerWindow /\ opens \in 1..Window
  /\ \A c \in Clients : ClientInv(client[c], free, opens)

\* One more round.
LEMMA OneMore == \A n, k \in Nat : (n + 1) * k = n * k + k /\ n * k \in Nat
  OBVIOUS

LEMMA Constants ==
  /\ MaxWaits \in Nat /\ Timeout \in Nat /\ Timeout > 0
  /\ Cap \in Nat /\ Pause \in Nat /\ Pause > 0 /\ Pause <= Cap
  /\ Window \in Nat /\ Window > 0 /\ Window <= Cap /\ PerWindow \in Nat /\ PerWindow > 0
  /\ Calls \in Nat /\ Timeout + Cap \in Nat
BY PatienceIsNatural, WaitsAreCapped, WindowIsNamed

LEMMA FreshRow ==
  ASSUME NEW n \in 0..Calls
  PROVE  /\ Fresh(n) \in Row
         /\ Fresh(n).at = "idle" /\ Fresh(n).elapsed = 0 /\ Fresh(n).attempt = 0
BY Constants DEF Fresh, Row

LEMMA InvInit == Init => Inv
<1> SUFFICES ASSUME Init PROVE Inv
  OBVIOUS
<1>1. Calls \in 0..Calls
  BY Constants
<1>2. ClientInv(Fresh(Calls), free, opens)
  BY <1>1, FreshRow DEF ClientInv, Lasted, Crowded, Turned
<1>3. free \in 0..PerWindow /\ opens \in 1..Window
  BY Constants DEF Init
<1> QED BY <1>2, <1>3 DEF Init, Inv, ClientInv

\* A step of one client that leaves the window alone.
LEMMA OneClient ==
  ASSUME Inv, NEW c \in Clients, NEW r \in Row, client' = [client EXCEPT ![c] = r],
         UNCHANGED <<free, opens>>, ClientInv(r, free, opens)
  PROVE  Inv'
BY DEF Inv

\* Moving on without waiting changes nothing else.
LEMMA AskKeeps ==
  ASSUME Inv, NEW c \in Clients, Ask(c)
  PROVE  Inv'
<1> DEFINE n == client[c].calls - 1
           r == [Fresh(n) EXCEPT !.at = "ready"]
<1>1. client[c] \in Row /\ client[c].calls > 0
  BY DEF Inv, Ask
<1>2. n \in 0..Calls
  <2>1. PICK m \in Nat : m = client[c].calls /\ m <= Calls /\ m > 0
    BY <1>1, RowFields
  <2> QED BY <2>1, Constants
<1>3. client' = [client EXCEPT ![c] = r] /\ UNCHANGED <<free, opens>>
  BY DEF Ask
<1> HIDE DEF n
<1>4. /\ r \in Row /\ r.at = "ready" /\ r.elapsed = 0 /\ r.attempt = 0
  <2>1. Fresh(n) \in Row /\ Fresh(n).elapsed = 0 /\ Fresh(n).attempt = 0
    BY <1>2, FreshRow
  <2> QED BY ONLY <2>1 DEF Row
<1> HIDE DEF r
<1>5. ClientInv(r, free, opens)
  BY <1>4, Constants DEF ClientInv, Lasted, Crowded, Turned
<1> QED BY <1>3, <1>4, <1>5, OneClient

LEMMA PostKeeps ==
  ASSUME Inv, NEW c \in Clients, Post(c)
  PROVE  Inv'
<1> DEFINE o == client[c]
           r == [o EXCEPT !.at = "posted", !.timer = Timeout]
<1>1. o \in Row /\ o.at = "ready" /\ ClientInv(o, free, opens)
  BY DEF Inv, Post
<1>2. client' = [client EXCEPT ![c] = r] /\ UNCHANGED <<free, opens>>
  BY DEF Post, Inv
<1> HIDE DEF o
<1>3. /\ r \in Row /\ r.at = "posted" /\ r.timer = Timeout /\ r.attempt = o.attempt
      /\ r.elapsed = o.elapsed /\ r.others = o.others /\ r.unnamed = o.unnamed
  BY ONLY <1>1, Constants DEF Row
<1> HIDE DEF r
<1>4. Lasted(r)
  <2>1. PICK k \in Nat : k = o.attempt * (Timeout + Cap)
    BY <1>1, RowFields, Constants, OneMore
  <2>2. o.elapsed <= k /\ o.elapsed \in Nat
    BY <1>1, <2>1, RowFields DEF ClientInv, Lasted
  <2>3. r.elapsed + r.timer <= k + Timeout
    BY <1>3, <2>2, Constants
  <2> QED BY <1>3, <2>1, <2>3 DEF Lasted
<1>5. Crowded(r, free, opens) /\ Turned(r)
  BY <1>1, <1>3 DEF ClientInv, Crowded, Turned
<1> QED BY <1>2, <1>3, <1>4, <1>5, OneClient DEF ClientInv

LEMMA RefuseKeeps ==
  ASSUME Inv, NEW c \in Clients, NEW named \in BOOLEAN, Refuse(c, named)
  PROVE  Inv'
<1> DEFINE o == client[c]
<1>1. o \in Row /\ o.at = "posted" /\ ClientInv(o, free, opens) /\ free = 0
      /\ opens \in 1..Window
  BY DEF Inv, Refuse
<1>2. client' = [client EXCEPT ![c] =
        IF o.attempt = MaxWaits
        THEN [o EXCEPT !.at = "refused"]
        ELSE [o EXCEPT !.at = "waiting", !.attempt = o.attempt + 1, !.timer = RetryDelay(named),
                       !.unnamed = o.unnamed \/ ~named]]
      /\ UNCHANGED <<free, opens>>
  BY DEF Refuse
<1> HIDE DEF o
<1>a. /\ o.attempt \in Nat /\ o.attempt <= MaxWaits /\ o.timer \in Nat /\ o.elapsed \in Nat
      /\ o.others \in Nat
  BY <1>1, RowFields
<1>b. PICK k \in Nat : k = o.attempt * (Timeout + Cap)
  BY <1>a, Constants, OneMore
<1>c. o.elapsed + o.timer <= k + Timeout
  BY <1>1, <1>b DEF ClientInv, Lasted
<1>d. PICK p \in Nat : p = o.attempt * PerWindow
  BY <1>a, Constants, OneMore
\* The window is used up, and not by this client.
<1>e. ~o.unnamed => o.others >= p
  <2>1. CASE o.attempt = 0
    BY <1>a, <1>d, <2>1, Constants
  <2>2. CASE o.attempt # 0
    BY <1>1, <1>a, <1>d, <2>2 DEF ClientInv, Crowded
  <2> QED BY <2>1, <2>2
<1>3. CASE o.attempt = MaxWaits
  <2> DEFINE r == [o EXCEPT !.at = "refused"]
  <2>1. client' = [client EXCEPT ![c] = r]
    BY <1>2, <1>3
  <2>2. /\ r \in Row /\ r.at = "refused" /\ r.attempt = o.attempt /\ r.elapsed = o.elapsed
        /\ r.others = o.others /\ r.unnamed = o.unnamed
    BY ONLY <1>1 DEF Row
  <2> HIDE DEF r
  <2>3. Lasted(r)
    <3>1. r.elapsed <= k + Timeout
      BY <1>a, <1>c, <2>2, Constants
    <3> QED BY <1>b, <2>2, <3>1 DEF Lasted
  <2>4. Crowded(r, free, opens) /\ Turned(r)
    BY <1>3, <1>d, <1>e, <2>2 DEF Crowded, Turned
  <2> QED BY <1>2, <2>1, <2>2, <2>3, <2>4, OneClient DEF ClientInv
<1>4. CASE o.attempt # MaxWaits
  <2> DEFINE delay == RetryDelay(named)
             told == o.unnamed \/ ~named
             r == [o EXCEPT !.at = "waiting", !.attempt = o.attempt + 1, !.timer = delay,
                            !.unnamed = told]
  <2>1. client' = [client EXCEPT ![c] = r]
    BY <1>2, <1>4
  <2>2. delay \in Nat /\ delay <= Cap /\ delay # 0 /\ (named => delay = opens)
    BY <1>1, Constants DEF RetryDelay
  <2>3. told \in BOOLEAN /\ o.attempt + 1 \in 0..MaxWaits
    BY <1>4, <1>a, Constants
  <2> HIDE DEF delay, told
  <2>4. /\ r \in Row /\ r.at = "waiting" /\ r.attempt = o.attempt + 1 /\ r.timer = delay
        /\ r.elapsed = o.elapsed /\ r.others = o.others /\ r.unnamed = told
    BY ONLY <1>1, <2>2, <2>3 DEF Row
  <2> HIDE DEF r
  <2>5. Lasted(r)
    <3>1. r.attempt * (Timeout + Cap) = k + (Timeout + Cap)
      BY <1>a, <1>b, <2>4, Constants, OneMore
    <3>2. r.elapsed + r.timer <= k + (Timeout + Cap)
      BY <1>a, <1>c, <2>2, <2>4, Constants
    <3> QED BY <2>4, <3>1, <3>2 DEF Lasted
  <2>6. Crowded(r, free, opens) /\ Turned(r)
    <3>1. ~r.unnamed => r.timer = opens /\ r.others >= p
      BY <1>e, <2>2, <2>4 DEF told
    <3>2. (r.attempt - 1) * PerWindow = p
      BY <1>a, <1>d, <2>4, Constants
    <3> QED BY <2>2, <2>4, <3>1, <3>2 DEF Crowded, Turned
  <2> QED BY <1>2, <2>1, <2>4, <2>5, <2>6, OneClient DEF ClientInv
<1> QED BY <1>3, <1>4

LEMMA WakeKeeps ==
  ASSUME Inv, NEW c \in Clients, Wake(c)
  PROVE  Inv'
<1> DEFINE o == client[c]
           r == [o EXCEPT !.at = "ready"]
<1>1. o \in Row /\ o.at = "waiting" /\ o.timer = 0 /\ ClientInv(o, free, opens)
  BY DEF Inv, Wake
<1>2. client' = [client EXCEPT ![c] = r] /\ UNCHANGED <<free, opens>>
  BY DEF Wake, Inv
<1> HIDE DEF o
<1>3. /\ r \in Row /\ r.at = "ready" /\ r.attempt = o.attempt
      /\ r.elapsed = o.elapsed /\ r.others = o.others /\ r.unnamed = o.unnamed
  BY ONLY <1>1 DEF Row
<1> HIDE DEF r
<1>4. Lasted(r)
  BY <1>1, <1>3, RowFields DEF ClientInv, Lasted
<1>5. Crowded(r, free, opens) /\ Turned(r)
  BY <1>1, <1>3 DEF ClientInv, Crowded, Turned
<1> QED BY <1>2, <1>3, <1>4, <1>5, OneClient DEF ClientInv

LEMMA UnreachableKeeps ==
  ASSUME Inv, NEW c \in Clients, Unreachable(c)
  PROVE  Inv'
<1> DEFINE o == client[c]
           r == [o EXCEPT !.at = "failed"]
<1>1. o \in Row /\ o.at = "posted" /\ ClientInv(o, free, opens)
  BY DEF Inv, Unreachable
<1>2. client' = [client EXCEPT ![c] = r] /\ UNCHANGED <<free, opens>>
  BY DEF Unreachable, Inv
<1> HIDE DEF o
<1>3. /\ r \in Row /\ r.at = "failed" /\ r.attempt = o.attempt /\ r.elapsed = o.elapsed
  BY ONLY <1>1 DEF Row
<1> HIDE DEF r
<1>4. Lasted(r)
  <2>1. PICK k \in Nat : k = o.attempt * (Timeout + Cap)
    BY <1>1, RowFields, Constants, OneMore
  <2>2. o.elapsed + o.timer <= k + Timeout /\ o.elapsed \in Nat /\ o.timer \in Nat
    BY <1>1, <2>1, RowFields DEF ClientInv, Lasted
  <2>3. o.elapsed <= k + Timeout
    BY <2>2, Constants
  <2> QED BY <1>3, <2>1, <2>3 DEF Lasted
<1> QED BY <1>2, <1>3, <1>4, OneClient DEF ClientInv, Crowded, Turned

LEMMA ReturnKeeps ==
  ASSUME Inv, NEW c \in Clients, Return(c)
  PROVE  Inv'
<1> DEFINE n == client[c].calls
<1>1. n \in 0..Calls
  BY DEF Inv, Row
<1>2. client' = [client EXCEPT ![c] = Fresh(n)] /\ UNCHANGED <<free, opens>>
  BY DEF Return, Inv
<1> HIDE DEF n
<1>3. ClientInv(Fresh(n), free, opens)
  BY <1>1, FreshRow DEF ClientInv, Lasted, Crowded, Turned
<1> QED BY <1>1, <1>2, <1>3, FreshRow, OneClient

LEMMA AnswerKeeps ==
  ASSUME Inv, NEW c \in Clients, NEW end \in {"parsed", "failed"}, Answer(c, end)
  PROVE  Inv'
<1>1. /\ client[c].at = "posted" /\ free \in 0..PerWindow /\ free > 0
      /\ free' = free - 1 /\ opens' = opens
  BY DEF Inv, Answer
<1>2. free' \in 0..PerWindow /\ free' + 1 = free /\ free \in Nat /\ free' \in Nat
  BY <1>1, Constants
<1>3. ASSUME NEW d \in Clients
      PROVE  client'[d] \in Row /\ ClientInv(client'[d], free', opens)
  <2> DEFINE o == client[d]
             r == client'[d]
  <2>1. o \in Row /\ ClientInv(o, free, opens)
    BY DEF Inv
  <2>2. CASE d = c
    <3>1. r = [o EXCEPT !.at = end] /\ o.at = "posted"
      BY <1>1, <2>2 DEF Answer
    <3> HIDE DEF r, o
    <3>2. /\ r \in Row /\ r.at = end /\ r.attempt = o.attempt /\ r.elapsed = o.elapsed
      BY ONLY <2>1, <3>1 DEF Row
    <3>3. Lasted(r)
      <4>1. PICK k \in Nat : k = o.attempt * (Timeout + Cap)
        BY <2>1, RowFields, Constants, OneMore
      <4>2. o.elapsed + o.timer <= k + Timeout /\ o.elapsed \in Nat /\ o.timer \in Nat
        BY <2>1, <3>1, <4>1, RowFields DEF ClientInv, Lasted
      <4>3. o.elapsed <= k + Timeout
        BY <4>2, Constants
      <4> QED BY <3>2, <4>1, <4>3 DEF Lasted
    <3> QED BY <3>2, <3>3 DEF ClientInv, Crowded, Turned, r
  <2>3. CASE d # c /\ ~Pending(d)
    <3>1. r = o /\ o.at \notin {"ready", "posted", "waiting"}
      <4>1. r = [o EXCEPT !.others = o.others]
        BY <2>3 DEF Answer
      <4> HIDE DEF r
      <4> QED BY <2>1, <2>3, <4>1 DEF Pending, Row
    <3> QED BY <2>1, <3>1 DEF ClientInv, Crowded, Turned, Lasted
  <2>4. CASE d # c /\ Pending(d)
    <3>1. r = [o EXCEPT !.others = o.others + 1]
      BY <2>4 DEF Answer
    <3>2. o.others \in Nat /\ o.others + 1 \in Nat
      BY <2>1, RowFields
    <3> HIDE DEF r, o
    <3>3. /\ r \in Row /\ r.at = o.at /\ r.attempt = o.attempt /\ r.elapsed = o.elapsed
          /\ r.timer = o.timer /\ r.others = o.others + 1 /\ r.unnamed = o.unnamed
      BY ONLY <2>1, <3>1, <3>2 DEF Row
    <3>4. Lasted(r)
      BY <2>1, <3>3 DEF ClientInv, Lasted
    <3>5. PICK p \in Nat : p = o.attempt * PerWindow
      BY <2>1, RowFields, Constants, OneMore
    <3>6. PICK q \in Int : q = (o.attempt - 1) * PerWindow
      BY <2>1, RowFields, Constants
    <3>7. Crowded(r, free', opens)
      <4>1. r.attempt * PerWindow = p /\ (r.attempt - 1) * PerWindow = q
        BY <3>3, <3>5, <3>6
      <4>2. CASE ~(o.attempt # 0 /\ ~o.unnamed)
        BY <3>3, <4>2 DEF Crowded
      <4>3. CASE o.attempt # 0 /\ ~o.unnamed /\ o.at = "waiting" /\ o.timer # 0
        <5>1. o.timer = opens /\ o.others >= q
          BY <2>1, <3>6, <4>3 DEF ClientInv, Crowded
        <5>2. r.others >= q
          BY <3>2, <3>3, <5>1
        <5> QED BY <3>3, <4>1, <4>3, <5>1, <5>2 DEF Crowded
      <4>4. CASE o.attempt # 0 /\ ~o.unnamed /\ ~(o.at = "waiting" /\ o.timer # 0)
        <5>1. o.at \in {"ready", "posted", "waiting"}
          BY <2>4 DEF Pending, o
        <5>2. o.others + free >= p
          BY <2>1, <3>5, <4>4, <5>1 DEF ClientInv, Crowded
        <5>3. r.others + free' = o.others + free
          <6>1. PICK f \in Nat : f = free'
            BY <1>2
          <6>2. PICK n \in Nat : n = o.others
            BY <3>2
          <6>3. r.others = n + 1 /\ free = f + 1 /\ free' = f
            BY <1>2, <3>3, <6>1, <6>2
          <6>4. (n + 1) + f = n + (f + 1)
            OBVIOUS
          <6> QED BY <6>2, <6>3, <6>4
        <5> QED BY <3>3, <4>1, <4>4, <5>2, <5>3 DEF Crowded
      <4> QED BY <4>2, <4>3, <4>4
    <3>8. Turned(r)
      BY <2>4, <3>3 DEF Pending, Turned, o
    <3> QED BY <3>3, <3>4, <3>7, <3>8 DEF ClientInv, r
  <2> QED BY <2>2, <2>3, <2>4
<1>4. client' \in [Clients -> Row]
  BY <1>3 DEF Answer
<1>5. opens' \in 1..Window
  BY <1>1 DEF Inv
<1> QED BY <1>1, <1>2, <1>3, <1>4, <1>5 DEF Inv

\* A tick brings every wait that was named one tick nearer to the next window.
LEMMA TickKeeps ==
  ASSUME Inv, Tick
  PROVE  Inv'
<1>1. /\ free \in 0..PerWindow /\ opens \in 1..Window
      /\ IF opens = 1 THEN opens' = Window /\ free' = PerWindow
                      ELSE opens' = opens - 1 /\ free' = free
  BY DEF Inv, Tick
<1>2. free' \in 0..PerWindow /\ opens' \in 1..Window
  BY <1>1, Constants
<1>3. ASSUME NEW d \in Clients
      PROVE  client'[d] \in Row /\ ClientInv(client'[d], free', opens')
  <2> DEFINE o == client[d]
             r == client'[d]
  <2>1. o \in Row /\ ClientInv(o, free, opens) /\ o.at # "ready"
    BY DEF Inv, Tick
  <2>2. CASE o.at \notin {"posted", "waiting"}
    <3>1. r = o
      BY <2>2 DEF Tick
    <3> QED BY <2>1, <2>2, <3>1 DEF ClientInv, Crowded
  <2>3. CASE o.at \in {"posted", "waiting"}
    <3>1. r = [o EXCEPT !.timer = o.timer - 1, !.elapsed = o.elapsed + 1] /\ o.timer > 0
      BY <2>3 DEF Tick
    <3> HIDE DEF r, o
    <3>2. /\ o.timer \in Nat /\ o.elapsed \in Nat /\ o.others \in Nat /\ o.attempt \in Nat
      BY <2>1, RowFields
    <3>3. o.timer - 1 \in Nat /\ o.elapsed + 1 \in Nat
      BY <3>1, <3>2
    <3>4. /\ r \in Row /\ r.at = o.at /\ r.attempt = o.attempt /\ r.elapsed = o.elapsed + 1
          /\ r.timer = o.timer - 1 /\ r.others = o.others /\ r.unnamed = o.unnamed
      BY ONLY <2>1, <3>1, <3>3 DEF Row
    <3>5. Lasted(r)
      <4>1. r.elapsed + r.timer = o.elapsed + o.timer
        BY <3>2, <3>4
      <4> QED BY <2>1, <2>3, <3>4, <4>1 DEF ClientInv, Lasted
    <3>6. Crowded(r, free', opens')
      <4>1. PICK p \in Int : p = (o.attempt - 1) * PerWindow
        BY <3>2, Constants
      <4>2. o.attempt * PerWindow = p + PerWindow
        <5>1. CASE o.attempt = 0
          BY <4>1, <5>1, Constants
        <5>2. CASE o.attempt # 0
          <6>1. PICK n \in Nat : n + 1 = o.attempt
            BY <3>2, <5>2
          <6> QED BY <4>1, <6>1, OneMore, Constants
        <5> QED BY <5>1, <5>2
      <4>3. PICK q \in Int : q = o.attempt * PerWindow
        BY <4>1, <4>2, Constants
      <4>4. q = p + PerWindow /\ r.attempt * PerWindow = q /\ (r.attempt - 1) * PerWindow = p
        BY <3>4, <4>1, <4>2, <4>3
      <4>5. CASE ~(o.attempt # 0 /\ ~o.unnamed)
        BY <3>4, <4>5 DEF Crowded
      <4>6. CASE o.attempt # 0 /\ ~o.unnamed /\ o.at = "waiting"
        <5>1. o.timer = opens /\ o.others >= p
          BY <2>1, <3>1, <4>1, <4>6 DEF ClientInv, Crowded
        <5>2. CASE opens = 1
          <6>1. r.timer = 0 /\ free' = PerWindow /\ r.others + free' >= q
            BY <1>1, <3>2, <3>4, <4>4, <5>1, <5>2, Constants
          <6> QED BY <4>4, <6>1 DEF Crowded
        <5>3. CASE opens # 1
          <6>1. r.timer # 0 /\ r.timer = opens'
            BY <1>1, <3>2, <3>4, <5>1, <5>3, Constants
          <6> QED BY <3>4, <4>4, <4>6, <5>1, <6>1 DEF Crowded
        <5> QED BY <5>2, <5>3
      <4>7. CASE o.attempt # 0 /\ ~o.unnamed /\ o.at = "posted"
        <5>1. o.others + free >= q
          BY <2>1, <4>3, <4>7 DEF ClientInv, Crowded
        <5>2. free' >= free
          BY <1>1, Constants
        <5>3. r.others + free' >= q
          BY <1>1, <1>2, <3>2, <3>4, <5>1, <5>2, Constants
        <5> QED BY <3>4, <4>4, <4>7, <5>3 DEF Crowded
      <4> QED BY <2>3, <4>5, <4>6, <4>7
    <3> QED BY <2>3, <3>4, <3>5, <3>6 DEF ClientInv, Turned, r
  <2> QED BY <2>2, <2>3
<1>4. client' \in [Clients -> Row]
  BY <1>3 DEF Tick
<1> QED BY <1>2, <1>3, <1>4 DEF Inv

LEMMA InvNext == Inv /\ [Next]_vars => Inv'
<1> SUFFICES ASSUME Inv, [Next]_vars PROVE Inv'
  OBVIOUS
<1>1. CASE Tick
  BY <1>1, TickKeeps
<1>2. ASSUME NEW c \in Clients, ClientStep(c) PROVE Inv'
  BY <1>2, AskKeeps, PostKeeps, WakeKeeps, UnreachableKeeps, ReturnKeeps, AnswerKeeps, RefuseKeeps
  DEF ClientStep
<1>3. CASE UNCHANGED vars
  BY <1>3 DEF vars, Inv
<1> QED BY <1>1, <1>2, <1>3 DEF Next

LEMMA InvAlways == Spec => []Inv
BY InvInit, InvNext, PTL DEF Spec

\* The clients and the window keep their types, whatever the service answers.
THEOREM TypeCorrect == Spec => []TypeOK
<1>1. Inv => TypeOK
  BY DEF Inv, TypeOK, Row
<1> QED BY <1>1, InvAlways, PTL

\* A call is over within MaxWaits + 1 timeouts and MaxWaits of the longest waits: the bound
\* to compare with the age at which the queue takes a worker for dead.
THEOREM CallsAreBounded == Spec => []CallBounded
<1>1. ASSUME Inv, NEW c \in Clients
      PROVE  client[c].elapsed <= (MaxWaits + 1) * Timeout + MaxWaits * Cap
  <2> DEFINE r == client[c]
             k == Timeout + Cap
  <2>1. r \in Row /\ Lasted(r)
    BY <1>1 DEF Inv, ClientInv
  <2>2. r.attempt \in Nat /\ r.attempt <= MaxWaits /\ r.elapsed \in Nat /\ r.timer \in Nat
    BY <2>1, RowFields
  <2>3. PICK n \in Nat : n = r.attempt * k
    BY <2>2, Constants, OneMore
  <2>4. r.elapsed <= n + Timeout
    BY <2>1, <2>2, <2>3, Constants DEF Lasted, Row
  <2>5. PICK m \in Nat : m = MaxWaits * k
    BY Constants, OneMore
  <2>6. n <= m
    <3>1. PICK e \in Nat : MaxWaits = r.attempt + e
      <4>1. MaxWaits - r.attempt \in Nat
        BY <2>2, Constants
      <4> QED BY <2>2, <4>1, Constants
    <3>2. e * k \in Nat
      BY Constants, OneMore
    <3>3. (r.attempt + e) * k = r.attempt * k + e * k
      BY <2>2, Constants
    <3> QED BY <2>3, <2>5, <3>1, <3>2, <3>3
  <2>7. (MaxWaits + 1) * Timeout + MaxWaits * Cap = m + Timeout
    BY <2>5, Constants
  <2> QED BY <2>2, <2>4, <2>6, <2>7, Constants
<1>2. Inv => CallBounded
  BY <1>1 DEF CallBounded
<1> QED BY <1>2, InvAlways, PTL

\* A call that was told how long to wait, and waited, is refused for good only when others
\* had MaxWaits whole windows in the meantime.
THEOREM RefusalNeedsACrowd == Spec => []RefusedOnlyInACrowd
<1>1. Inv => RefusedOnlyInACrowd
  BY DEF Inv, ClientInv, Turned, RefusedOnlyInACrowd
<1> QED BY <1>1, InvAlways, PTL
===============================================================================
