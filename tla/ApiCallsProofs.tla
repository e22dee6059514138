--------------------------- MODULE ApiCallsProofs ---------------------------
(***************************************************************************)
(* ApiCalls and NodeBridge, for any number of requests and of sockets:     *)
(* one live socket, a "connected" that is true, and answers that are true  *)
(* of WhatsApp.                                                            *)
(***************************************************************************)
EXTENDS ApiCalls, TLAPS

(***************************************************************************)
(* The inductive invariant.                                                *)
(***************************************************************************)
(* The global socket was made, and it has its listeners.                   *)
Heard == sock # NoSocket => wa[sock].life # "unmade" /\ wa[sock].heard

Turns(c) == req[c].at \in {"creating", "ending"}

(* One login, logout or start at a time: a socket is created while there   *)
(* is none, and ended while it is the global one.                          *)
OneTurn ==
    /\ \A c, d \in Calls : Turns(c) /\ Turns(d) => c = d
    /\ \A c \in Calls : Turns(c) => ~boot
    /\ boot => sock = NoSocket /\ dir
    /\ \A c \in Calls : req[c].at = "creating" => sock = NoSocket /\ dir
    /\ \A c \in Calls : req[c].at = "ending" => sock # NoSocket /\ req[c].on = sock

OneLive == \A s \in Sockets : wa[s].life \in {"made", "open"} => s = sock

(* A socket that is not open yet has the directory it was created with.    *)
MadeInDir == (\E s \in Sockets : wa[s].life = "made") => dir

ConnectedIsTrue ==
    up /\ state = "connected" =>
        /\ sock # NoSocket /\ wa[sock].life \in {"open", "ended"}
        /\ self /\ dir /\ told = "connected"

Uncrossed == ~crossed => OneTurn /\ OneLive /\ MadeInDir /\ ConnectedIsTrue

(* A method that has succeeded, and one that has failed.                   *)
Finished(r) ==
    /\ r.does.lenient \/ r.tried = r.does.ops
    /\ r.does.answered /\ ~r.does.lenient => r.did = r.does.ops
    /\ r.sent = (IF r.does.sent THEN 1 ELSE 0)
InDoubt(r) ==
    /\ r.sent = 0 /\ r.did <= r.tried
    /\ r.does.answered => r.tried <= r.did + 1

(* How far a request is, and what has become of its operations.            *)
Progress(r) ==
    /\ r.at = "none" => r = NoRequest
    /\ r.at \in {"creating", "ending"} => r.does \notin Shapes
    /\ r.at = "running" =>
          /\ r.does \in Shapes /\ ~(r.does.lenient /\ r.does.sent)
          /\ r.tried < r.does.ops /\ r.did <= r.tried /\ r.sent = 0
          /\ r.does.answered /\ ~r.does.lenient => r.did = r.tried
          /\ r.on # NoSocket
    /\ r.at = "done" => r.result # "none"
    /\ r.at = "done" /\ r.result = "refused" => r.tried = 0 /\ r.did = 0 /\ r.sent = 0
    /\ r.at = "done" /\ r.result = "ok" /\ r.does \in Shapes => Finished(r)
    /\ r.at = "done" /\ r.result = "failed" /\ r.does \in Shapes => InDoubt(r)

(* What the client was told of a request, and the request.                 *)
Told(h, r) ==
    /\ h \in {"idle", "rejected"} => r.at = "none"
    /\ h \notin {"waiting", "timeout"} => r.at \in {"none", "done"}
    /\ h = "200" /\ r.at = "done" => r.result = "ok"
    /\ h = "refused" => r.at = "done" /\ r.result = "refused"
    /\ h = "failed" /\ r.at = "done" => r.result = "failed"

ApiInv ==
    /\ TypesOK /\ Heard /\ Uncrossed
    /\ \A c \in Calls : Progress(req[c]) /\ Told(http[c], req[c])

-----------------------------------------------------------------------------
(***************************************************************************)
(* The requests.                                                           *)
(***************************************************************************)
LEMMA Kinds ==
    /\ Login \notin Shapes /\ Logout \notin Shapes
    /\ NoSocket \notin Sockets
    /\ \A shape \in Shapes : /\ shape.ops \in 0 .. 2 /\ shape.lenient \in BOOLEAN
                             /\ shape.sent \in BOOLEAN /\ shape.answered \in BOOLEAN
<1>1. Login \notin Shapes /\ Logout \notin Shapes
  <2>1. \A shape \in Shapes : DOMAIN shape = {"ops", "needs", "reads", "lenient", "answered", "sent"}
    BY DEF Shapes
  <2>2. DOMAIN Login = {"name"} /\ DOMAIN Logout = {"name"}
    BY DEF Login, Logout
  <2>3. "ops" \notin {"name"}
    OBVIOUS
  <2>. QED  BY <2>1, <2>2, <2>3
<1>2. NoSocket \notin Sockets
  BY DEF NoSocket, Sockets
<1>3. \A shape \in Shapes : /\ shape.ops \in 0 .. 2 /\ shape.lenient \in BOOLEAN
                           /\ shape.sent \in BOOLEAN /\ shape.answered \in BOOLEAN
  BY DEF Shapes
<1>. QED  BY <1>1, <1>2, <1>3

(* A request changes, the others do not.                                   *)
LEMMA OneMoves ==
    ASSUME req \in [Calls -> Requests], \A d \in Calls : Progress(req[d]),
           NEW c \in Calls, NEW x \in Requests, Progress(x), req' = [req EXCEPT ![c] = x]
    PROVE  /\ req' \in [Calls -> Requests] /\ req'[c] = x
           /\ \A d \in Calls : d # c => req'[d] = req[d]
           /\ \A d \in Calls : Progress(req'[d])
<1>1. /\ req' \in [Calls -> Requests] /\ req'[c] = x
      /\ \A d \in Calls : d # c => req'[d] = req[d]
  OBVIOUS
<1>2. \A d \in Calls : Progress(req'[d])
  <2>. SUFFICES ASSUME NEW d \in Calls PROVE Progress(req'[d])
    OBVIOUS
  <2>. QED  BY <1>1
<1>. QED  BY <1>1, <1>2

LEMMA Fields ==
    ASSUME NEW r \in Requests
    PROVE  /\ r.at \in {"none", "creating", "ending", "running", "done"}
           /\ r.does \in Shapes \cup {Login, Logout} /\ r.on \in Sockets \cup {NoSocket}
           /\ r.tried \in 0 .. 2 /\ r.did \in 0 .. 2 /\ r.sent \in 0 .. 1
           /\ r.result \in {"none", "ok", "refused", "failed"}
BY DEF Requests

LEMMA RequestIn ==
    ASSUME NEW at \in {"none", "creating", "ending", "running", "done"},
           NEW does \in Shapes \cup {Login, Logout}, NEW on \in Sockets \cup {NoSocket},
           NEW result \in {"none", "ok", "refused", "failed"}
    PROVE  Request(at, does, on, result) \in Requests
BY DEF Request, Requests

LEMMA EndedIn ==
    ASSUME NEW r \in Requests, NEW how \in {"ok", "refused", "failed"}, NEW sent \in 0 .. 1
    PROVE  Ended(r, how, sent) \in Requests
BY DEF Ended, Requests

(* One that has no method ends.                                            *)
LEMMA TurnEnds ==
    ASSUME NEW r \in Requests, r.at \in {"creating", "ending"}, Progress(r),
           NEW how \in {"ok", "failed"}
    PROVE  Ended(r, how, r.sent) \in Requests /\ Progress(Ended(r, how, r.sent))
<1>1. Ended(r, how, r.sent) \in Requests
  BY Fields, EndedIn
<1>2. r.does \notin Shapes
  BY DEF Progress
<1>. QED  BY <1>1, <1>2 DEF Progress, Ended

LEMMA TurnBegins ==
    ASSUME NEW does \in {Login, Logout}, NEW on \in Sockets \cup {NoSocket}
    PROVE  /\ \A at \in {"creating", "ending"} :
                 /\ Request(at, does, on, "none") \in Requests
                 /\ Progress(Request(at, does, on, "none"))
           /\ Request("done", does, on, "ok") \in Requests
           /\ Progress(Request("done", does, on, "ok"))
<1>1. does \notin Shapes
  BY Kinds
<1>2. \A at \in {"creating", "ending"} : /\ Request(at, does, on, "none") \in Requests
                                        /\ Progress(Request(at, does, on, "none"))
  BY <1>1, RequestIn DEF Request, Progress
<1>3. Request("done", does, on, "ok") \in Requests /\ Progress(Request("done", does, on, "ok"))
  BY <1>1, RequestIn DEF Request, Progress
<1>. QED  BY <1>2, <1>3

(* A method that has come so far ends or goes on.                          *)
Counted(r) ==
    /\ r.does \in Shapes /\ ~(r.does.lenient /\ r.does.sent)
    /\ r.tried <= r.does.ops /\ r.did <= r.tried /\ r.sent = 0
    /\ r.does.answered /\ ~r.does.lenient => r.did = r.tried

LEMMA StepEnds ==
    ASSUME TypeOK, NEW c \in Calls, NEW r \in Requests, Counted(r)
    PROVE  \E x \in Requests : /\ Step(c, r) = [req EXCEPT ![c] = x]
                               /\ Progress(x) /\ x.at \in {"running", "done"}
<1>1. /\ r.tried \in 0 .. 2 /\ r.did \in 0 .. 2 /\ r.does.ops \in 0 .. 2
      /\ r.does \in Shapes /\ r.does.lenient \in BOOLEAN /\ r.does.sent \in BOOLEAN
      /\ r.does.answered \in BOOLEAN
  BY Fields, Kinds DEF Counted
<1>. DEFINE stuck == sock = NoSocket \/ wa[sock].life = "closed"
<1>2. CASE r.tried = r.does.ops
  <2>. DEFINE x == Ended(r, "ok", IF r.does.sent THEN 1 ELSE 0)
  <2>1. Step(c, r) = [req EXCEPT ![c] = x]
    BY <1>2 DEF Step
  <2>2. x \in Requests
    BY EndedIn
  <2>3. Progress(x) /\ x.at = "done"
    BY <1>1, <1>2 DEF Progress, Finished, Ended, Counted
  <2>. QED  BY <2>1, <2>2, <2>3
<1>3. CASE r.tried # r.does.ops /\ stuck
  <2>. DEFINE x == Ended(r, IF r.does.lenient THEN "ok" ELSE "failed", 0)
  <2>1. Step(c, r) = [req EXCEPT ![c] = x]
    BY <1>3 DEF Step
  <2>2. x \in Requests
    BY EndedIn
  <2>3. Progress(x) /\ x.at = "done"
    <3>1. CASE r.does.lenient
      BY <1>1, <3>1 DEF Progress, Finished, Ended, Counted
    <3>2. CASE ~r.does.lenient
      BY <1>1, <3>2 DEF Progress, InDoubt, Ended, Counted
    <3>. QED  BY <3>1, <3>2
  <2>. QED  BY <2>1, <2>2, <2>3
<1>4. CASE r.tried # r.does.ops /\ ~stuck
  <2>. DEFINE x == [at |-> "running", does |-> r.does, on |-> sock, tried |-> r.tried,
                    did |-> r.did, sent |-> r.sent, result |-> r.result]
  <2>1. Step(c, r) = [req EXCEPT ![c] = x]
    BY <1>4 DEF Step
  <2>2. x \in Requests
    BY DEF TypeOK, Requests
  <2>3. Progress(x) /\ x.at = "running"
    BY <1>1, <1>4 DEF Progress, Counted
  <2>. QED  BY <2>1, <2>2, <2>3
<1>. QED  BY <1>2, <1>3, <1>4

LEMMA BeginMoves ==
    ASSUME TypeOK, NEW c \in Calls, NEW shape \in Shapes, ~(shape.lenient /\ shape.sent),
           NEW readable, Begin(c, shape, readable)
    PROVE  \E x \in Requests : /\ req' = [req EXCEPT ![c] = x]
                               /\ Progress(x) /\ x.at \in {"running", "done"}
<1>1. /\ shape.ops \in 0 .. 2 /\ shape.lenient \in BOOLEAN /\ shape.sent \in BOOLEAN
      /\ shape.answered \in BOOLEAN
      /\ shape \in Shapes \cup {Login, Logout} /\ NoSocket \in Sockets \cup {NoSocket}
  BY Kinds
<1>2. ASSUME NEW how \in {"refused", "failed"},
             req' = [req EXCEPT ![c] = Request("done", shape, NoSocket, how)]
      PROVE  \E x \in Requests : /\ req' = [req EXCEPT ![c] = x]
                                 /\ Progress(x) /\ x.at \in {"running", "done"}
  <2>. DEFINE x == Request("done", shape, NoSocket, how)
  <2>1. x \in Requests
    BY <1>1, RequestIn
  <2>2. Progress(x) /\ x.at = "done"
    BY <1>1 DEF Request, Progress, InDoubt
  <2>. QED  BY <1>2, <2>1, <2>2
<1>3. ASSUME req' = Step(c, Request("none", shape, NoSocket, "none"))
      PROVE  \E x \in Requests : /\ req' = [req EXCEPT ![c] = x]
                                 /\ Progress(x) /\ x.at \in {"running", "done"}
  <2>1. Request("none", shape, NoSocket, "none") \in Requests
    BY <1>1, RequestIn
  <2>2. Counted(Request("none", shape, NoSocket, "none"))
    BY <1>1 DEF Counted, Request
  <2>. QED  BY <1>3, <2>1, <2>2, StepEnds
<1>4. CASE Refuses(shape)
  BY <1>2, <1>4 DEF Begin
<1>5. CASE ~Refuses(shape) /\ shape.reads /\ ~readable
  BY <1>2, <1>5 DEF Begin
<1>6. CASE ~Refuses(shape) /\ ~(shape.reads /\ ~readable)
  BY <1>3, <1>6 DEF Begin
<1>. QED  BY <1>4, <1>5, <1>6

LEMMA ProceedMoves ==
    ASSUME TypeOK, NEW c \in Calls, Progress(req[c]), Proceed(c)
    PROVE  \E x \in Requests : /\ req' = [req EXCEPT ![c] = x]
                               /\ Progress(x) /\ x.at \in {"running", "done"}
<1>. DEFINE r == req[c]
<1>1. r \in Requests /\ r.at = "running"
  BY DEF TypeOK, Proceed
<1>2. /\ r.does \in Shapes /\ ~(r.does.lenient /\ r.does.sent)
      /\ r.tried < r.does.ops /\ r.did <= r.tried /\ r.sent = 0
      /\ r.does.answered /\ ~r.does.lenient => r.did = r.tried
  BY <1>1 DEF Progress
<1>3. /\ r.tried \in 0 .. 2 /\ r.did \in 0 .. 2 /\ r.does.ops \in 0 .. 2
      /\ r.does.lenient \in BOOLEAN /\ r.does.answered \in BOOLEAN
  BY <1>1, <1>2, Fields, Kinds
<1>4. PICK n \in 0 .. 1 :
          \/ (Resolves(r, n) \/ r.does.lenient) /\ req' = Step(c, Tried(r, n))
          \/ ~r.does.lenient /\ req' = [req EXCEPT ![c] = Ended(Tried(r, n), "failed", r.sent)]
  BY DEF Proceed, Tried
<1>5. Tried(r, n) \in Requests
  <2>. HIDE DEF r
  <2>1. r.tried + 1 \in 0 .. 2 /\ r.did + n \in 0 .. 2
    BY <1>2, <1>3
  <2>. QED  BY <1>1, <2>1, Fields DEF Tried, Requests
<1>6. ASSUME Resolves(r, n) \/ r.does.lenient
      PROVE  Counted(Tried(r, n))
  <2>. HIDE DEF r
  <2>1. r.does.answered /\ ~r.does.lenient => n = 1
    BY <1>6 DEF Resolves
  <2>2. /\ r.did + n <= r.tried + 1 /\ r.tried + 1 <= r.does.ops
        /\ r.does.answered /\ ~r.does.lenient => r.did + n = r.tried + 1
    BY <1>2, <1>3, <2>1
  <2>. QED  BY <1>2, <2>2 DEF Tried, Counted
<1>7. ASSUME ~r.does.lenient
      PROVE  /\ Ended(Tried(r, n), "failed", r.sent) \in Requests
             /\ Progress(Ended(Tried(r, n), "failed", r.sent))
             /\ Ended(Tried(r, n), "failed", r.sent).at = "done"
  <2>. HIDE DEF r
  <2>1. Ended(Tried(r, n), "failed", r.sent) \in Requests
    BY <1>1, <1>5, Fields, EndedIn
  <2>2. /\ r.did + n <= r.tried + 1
        /\ r.does.answered => r.tried + 1 <= r.did + n + 1
    BY <1>2, <1>3, <1>7
  <2>. QED  BY <1>2, <2>1, <2>2 DEF Ended, Tried, Progress, InDoubt
<1>. HIDE DEF r
<1>. QED  BY <1>4, <1>5, <1>6, <1>7, StepEnds

-----------------------------------------------------------------------------
(***************************************************************************)
(* The sockets.                                                            *)
(***************************************************************************)
Lives == {"unmade", "made", "open", "ended", "closed"}

LEMMA Types ==
    ASSUME TypeOK
    PROVE  /\ up \in BOOLEAN /\ sock \in Sockets \cup {NoSocket}
           /\ wa \in [Sockets -> [life : Lives, heard : BOOLEAN]]
           /\ \A s \in Sockets : wa[s].life \in Lives /\ wa[s].heard \in BOOLEAN
           /\ self \in BOOLEAN /\ dir \in BOOLEAN /\ boot \in BOOLEAN /\ crossed \in BOOLEAN
           /\ req \in [Calls -> Requests]
<1>1. wa \in [Sockets -> [life : Lives, heard : BOOLEAN]]
  BY DEF TypeOK, Lives
<1>2. self \in BOOLEAN /\ dir \in BOOLEAN /\ boot \in BOOLEAN /\ crossed \in BOOLEAN
  BY DEF TypeOK
<1>. QED  BY <1>1, <1>2 DEF TypeOK

(* A socket changes, the others do not.                                    *)
LEMMA OneSocketMoves ==
    ASSUME TypeOK, NEW s \in Sockets, NEW l \in Lives, NEW h \in BOOLEAN,
           wa' = [wa EXCEPT ![s] = [life |-> l, heard |-> h]]
    PROVE  /\ wa' \in [Sockets -> [life : Lives, heard : BOOLEAN]]
           /\ wa'[s].life = l /\ wa'[s].heard = h
           /\ \A t \in Sockets : t # s => wa'[t] = wa[t]
BY Types

LEMMA LifeMoves ==
    ASSUME TypeOK, NEW s \in Sockets, NEW l \in Lives, wa' = [wa EXCEPT ![s].life = l]
    PROVE  /\ wa' \in [Sockets -> [life : Lives, heard : BOOLEAN]]
           /\ wa'[s].life = l /\ wa'[s].heard = wa[s].heard
           /\ \A t \in Sockets : t # s => wa'[t] = wa[t]
BY Types

LEMMA EndedLives ==
    ASSUME TypeOK, NEW s \in Sockets
    PROVE  EndedLife(s) \in Lives /\ EndedLife(s) \notin {"made", "open"}
           /\ (wa[s].life # "unmade" => EndedLife(s) # "unmade")
BY Types DEF EndedLife, Lives

SocketInv == Heard /\ Uncrossed

(* No login or logout begins or ends, and what is created keeps dir.        *)
Creates == boot \/ \E c \in Calls : req[c].at = "creating"

LEMMA TurnsStay ==
    ASSUME OneTurn, UNCHANGED <<sock, boot, req>>, Creates => dir' = dir
    PROVE  OneTurn'
<1>1. boot => dir'
  BY DEF OneTurn, Creates
<1>2. \A c \in Calls : req[c].at = "creating" => dir'
  BY DEF OneTurn, Creates
<1>. QED  BY <1>1, <1>2 DEF OneTurn, Turns

LEMMA CreatesBusy == OneTurn /\ Creates => Busy /\ sock = NoSocket
BY DEF OneTurn, Creates, Busy

LEMMA QrStep == \A s \in Sockets : TypeOK /\ SocketInv /\ QrShown(s) => SocketInv'
<1>. SUFFICES ASSUME NEW s \in Sockets, TypeOK, SocketInv, QrShown(s) PROVE SocketInv'
  OBVIOUS
<1>1. /\ UNCHANGED <<up, sock, wa, dir, boot, req>> /\ state' = "pending_qr"
      /\ crossed' = (crossed \/ s # sock)
  BY DEF QrShown
<1>2. Heard'
  BY <1>1 DEF SocketInv, Heard
<1>3. ~crossed' => OneTurn' /\ OneLive' /\ MadeInDir' /\ ConnectedIsTrue'
  <2>1. ~crossed' => ~crossed
    BY <1>1
  <2>2. ASSUME ~crossed PROVE OneTurn' /\ OneLive' /\ MadeInDir' /\ ConnectedIsTrue'
    BY <1>1, <2>2, TurnsStay DEF SocketInv, Uncrossed, OneLive, MadeInDir, ConnectedIsTrue
  <2>. QED  BY <2>1, <2>2
<1>. QED  BY <1>2, <1>3 DEF SocketInv, Uncrossed

LEMMA ConnectingStep == \A s \in Sockets : TypeOK /\ SocketInv /\ Connecting(s) => SocketInv'
<1>. SUFFICES ASSUME NEW s \in Sockets, TypeOK, SocketInv, Connecting(s) PROVE SocketInv'
  OBVIOUS
<1>1. /\ UNCHANGED <<up, sock, wa, dir, boot, req>> /\ state' = "connecting"
      /\ crossed' = (crossed \/ s # sock)
  BY DEF Connecting
<1>2. Heard'
  BY <1>1 DEF SocketInv, Heard
<1>3. ~crossed' => OneTurn' /\ OneLive' /\ MadeInDir' /\ ConnectedIsTrue'
  <2>1. ~crossed' => ~crossed
    BY <1>1
  <2>2. ASSUME ~crossed PROVE OneTurn' /\ OneLive' /\ MadeInDir' /\ ConnectedIsTrue'
    BY <1>1, <2>2, TurnsStay DEF SocketInv, Uncrossed, OneLive, MadeInDir, ConnectedIsTrue
  <2>. QED  BY <2>1, <2>2
<1>. QED  BY <1>2, <1>3 DEF SocketInv, Uncrossed

(* The socket that opens is the global one, unless something has crossed:  *)
(* then the handler reads another, or none and the process ends.           *)
LEMMA OpenedStep == \A s \in Sockets : TypeOK /\ SocketInv /\ Opened(s) => SocketInv'
<1>. SUFFICES ASSUME NEW s \in Sockets, TypeOK, SocketInv, Opened(s) PROVE SocketInv'
  OBVIOUS
<1>1. wa[s].life = "made" /\ wa' = [wa EXCEPT ![s].life = "open"]
  BY DEF Opened
<1>2. /\ wa'[s].life = "open" /\ wa'[s].heard = wa[s].heard
      /\ \A t \in Sockets : t # s => wa'[t] = wa[t]
  BY <1>1, LifeMoves DEF Lives
<1>3. sock \in Sockets \cup {NoSocket}
  BY Types
<1>4. UNCHANGED <<sock, dir, boot, req>> /\ (crossed => crossed')
  <2>1. CASE ~wa[s].heard
    <3>1. UNCHANGED <<up, sock, session, dir, history, boot, req, crossed>>
      BY <2>1 DEF Opened
    <3>2. crossed' = crossed /\ sock' = sock /\ dir' = dir /\ boot' = boot /\ req' = req
      BY <3>1
    <3>. QED  BY <3>2, Types
  <2>2. CASE wa[s].heard /\ sock = NoSocket
    BY <2>2 DEF Opened, Fatal
  <2>3. CASE wa[s].heard /\ sock # NoSocket
    BY <2>3 DEF Opened
  <2>. QED  BY <2>1, <2>2, <2>3
<1>5. Heard'
  BY <1>2, <1>3, <1>4 DEF SocketInv, Heard
<1>6. ASSUME ~crossed' PROVE OneTurn' /\ OneLive' /\ MadeInDir' /\ ConnectedIsTrue'
  <2>1. ~crossed /\ OneTurn /\ OneLive /\ MadeInDir /\ ConnectedIsTrue
    BY <1>4, <1>6 DEF SocketInv, Uncrossed
  <2>2. s = sock /\ dir /\ wa[s].heard /\ sock # NoSocket
    BY <1>1, <2>1, Kinds DEF OneLive, MadeInDir, SocketInv, Heard
  <2>3. state' = "connected" /\ told' = "connected" /\ self' = (wa'[sock].life = "open")
    BY <2>2 DEF Opened
  <2>4. OneTurn'
    BY <1>4, <2>1, TurnsStay
  <2>5. OneLive' /\ MadeInDir'
    BY <1>2, <1>4, <2>1, <2>2 DEF OneLive, MadeInDir
  <2>6. ConnectedIsTrue'
    BY <1>2, <1>4, <2>2, <2>3 DEF ConnectedIsTrue
  <2>. QED  BY <2>4, <2>5, <2>6
<1>. QED  BY <1>5, <1>6 DEF SocketInv, Uncrossed

LEMMA LostStep == \A s \in Sockets : TypeOK /\ SocketInv /\ Lost(s) => SocketInv'
<1>. SUFFICES ASSUME NEW s \in Sockets, TypeOK, SocketInv, Lost(s) PROVE SocketInv'
  OBVIOUS
<1>1. /\ wa' = [wa EXCEPT ![s].life = "ended"] /\ wa[s].life \in {"made", "open"}
      /\ UNCHANGED <<up, sock, session, dir, boot, req, crossed>>
  BY DEF Lost
<1>2. /\ wa'[s].life = "ended" /\ wa'[s].heard = wa[s].heard
      /\ \A t \in Sockets : t # s => wa'[t] = wa[t]
  BY <1>1, LifeMoves DEF Lives
<1>3. sock \in Sockets \cup {NoSocket}
  BY Types
<1>5. Heard'
  BY <1>1, <1>2, <1>3 DEF SocketInv, Heard
<1>6. ASSUME ~crossed PROVE OneTurn' /\ OneLive' /\ MadeInDir' /\ ConnectedIsTrue'
  <2>1. OneTurn /\ OneLive /\ MadeInDir /\ ConnectedIsTrue
    BY <1>6 DEF SocketInv, Uncrossed
  <2>2. OneTurn'
    BY <1>1, <2>1, TurnsStay
  <2>3. OneLive' /\ MadeInDir'
    BY <1>1, <1>2, <2>1 DEF OneLive, MadeInDir
  <2>4. ConnectedIsTrue'
    BY <1>1, <1>2, <1>3, <2>1 DEF ConnectedIsTrue, session
  <2>. QED  BY <2>2, <2>3, <2>4
<1>. QED  BY <1>1, <1>5, <1>6 DEF SocketInv, Uncrossed

LEMMA ClosedStep == \A s \in Sockets : TypeOK /\ SocketInv /\ Closed(s) => SocketInv'
<1>. SUFFICES ASSUME NEW s \in Sockets, TypeOK, SocketInv, Closed(s) PROVE SocketInv'
  OBVIOUS
<1>1. /\ wa' = [wa EXCEPT ![s].life = "closed"] /\ wa[s].life = "ended"
      /\ UNCHANGED <<up, sock, boot, req>>
  BY DEF Closed
<1>2. /\ wa'[s].life = "closed" /\ wa'[s].heard = wa[s].heard
      /\ \A t \in Sockets : t # s => wa'[t] = wa[t]
  BY <1>1, LifeMoves DEF Lives
<1>3. sock \in Sockets \cup {NoSocket}
  BY Types
<1>4. Heard'
  BY <1>1, <1>2, <1>3 DEF SocketInv, Heard
<1>5. ASSUME ~crossed' PROVE OneTurn' /\ OneLive' /\ MadeInDir' /\ ConnectedIsTrue'
  <2>1. ~crossed
    BY <1>5 DEF Closed, session
  <2>2. OneTurn /\ OneLive /\ MadeInDir /\ ConnectedIsTrue
    BY <2>1 DEF SocketInv, Uncrossed
  <2>3. OneLive'
    BY <1>1, <1>2, <2>2 DEF OneLive
  <2>4. CASE ~wa[s].heard
    <3>1. UNCHANGED <<session, dir>> /\ s # sock
      BY <1>3, <2>4, Kinds DEF Closed, SocketInv, Heard
    <3>2. OneTurn'
      BY <1>1, <2>2, <3>1, TurnsStay
    <3>3. MadeInDir' /\ ConnectedIsTrue'
      BY <1>1, <1>2, <1>3, <2>2, <3>1 DEF MadeInDir, ConnectedIsTrue, session
    <3>. QED  BY <2>3, <3>2, <3>3
  <2>5. CASE wa[s].heard
    <3>1. state' = "disconnected" /\ (s # sock => sock = NoSocket /\ ~Busy)
      BY <1>5, <2>5 DEF Closed
    <3>2. OneTurn'
      <4>1. ~Creates
        BY <2>2, <3>1, CreatesBusy, Kinds
      <4>. QED  BY <1>1, <2>2, <4>1, TurnsStay
    <3>3. MadeInDir'
      <4>. SUFFICES ASSUME NEW t \in Sockets, wa'[t].life = "made" PROVE dir'
        BY DEF MadeInDir
      <4>1. t # s /\ wa[t].life = "made" /\ t = sock
        BY <1>2, <2>2 DEF OneLive
      <4>. QED  BY <3>1, <4>1, Kinds
    <3>4. ConnectedIsTrue'
      BY <3>1 DEF ConnectedIsTrue
    <3>. QED  BY <2>3, <3>2, <3>3, <3>4
  <2>. QED  BY <2>4, <2>5, Types
<1>. QED  BY <1>4, <1>5 DEF SocketInv, Uncrossed

(***************************************************************************)
(* Logins and logouts.                                                     *)
(***************************************************************************)
(* A socket is created: the one login or start that is under way does it.  *)
LEMMA Making ==
    ASSUME TypeOK, SocketInv, MakeSocket, Creates, UNCHANGED <<up, session, dir, crossed>>,
           \A c \in Calls : ~crossed /\ Turns(c)' => FALSE, ~crossed => ~boot'
    PROVE  SocketInv' /\ wa' \in [Sockets -> [life : Lives, heard : BOOLEAN]]
           /\ sock' \in Sockets
<1>1. PICK s \in Sockets : /\ wa[s].life = "unmade" /\ sock' = s
                           /\ wa' = [wa EXCEPT ![s] = [life |-> "made", heard |-> TRUE]]
  BY DEF MakeSocket
<1>2. /\ wa' \in [Sockets -> [life : Lives, heard : BOOLEAN]]
      /\ wa'[s].life = "made" /\ wa'[s].heard = TRUE
      /\ \A t \in Sockets : t # s => wa'[t] = wa[t]
  BY <1>1, OneSocketMoves DEF Lives
<1>3. Heard'
  BY <1>1, <1>2 DEF Heard
<1>4. ASSUME ~crossed PROVE OneTurn' /\ OneLive' /\ MadeInDir' /\ ConnectedIsTrue'
  <2>1. OneTurn /\ OneLive /\ MadeInDir /\ ConnectedIsTrue
    BY <1>4 DEF SocketInv, Uncrossed
  <2>2. sock = NoSocket /\ dir
    BY <2>1 DEF OneTurn, Creates
  <2>3. OneTurn'
    BY <1>4 DEF OneTurn, Turns
  <2>4. OneLive'
    BY <1>1, <1>2, <2>1, <2>2, Kinds DEF OneLive
  <2>5. MadeInDir' /\ ConnectedIsTrue'
    BY <2>1, <2>2 DEF MadeInDir, ConnectedIsTrue, session
  <2>. QED  BY <2>3, <2>4, <2>5
<1>. QED  BY <1>1, <1>2, <1>3, <1>4 DEF SocketInv, Uncrossed

(* Or it is not.                                                           *)
LEMMA NotMaking ==
    ASSUME TypeOK, SocketInv, UNCHANGED <<sock, wa, session, dir, crossed>>,
           up' => up, boot' => boot,
           \A c \in Calls : /\ Turns(c)' => Turns(c)
                            /\ Turns(c)' => req'[c] = req[c]
    PROVE  SocketInv'
<1>1. Heard'
  BY DEF SocketInv, Heard
<1>2. ASSUME ~crossed, OneTurn PROVE OneTurn'
  <2>1. \A c \in Calls : /\ req'[c].at = "creating" => req[c].at = "creating"
                         /\ req'[c].at = "ending" =>
                               req[c].at = "ending" /\ req'[c].on = req[c].on
    BY DEF Turns
  <2>2. \A c \in Calls : Turns(c)' => Turns(c)
    OBVIOUS
  <2>. QED  BY <1>2, <2>1, <2>2 DEF OneTurn
<1>3. ASSUME OneLive, MadeInDir, ConnectedIsTrue
      PROVE  OneLive' /\ MadeInDir' /\ ConnectedIsTrue'
  BY <1>3 DEF OneLive, MadeInDir, ConnectedIsTrue, session
<1>. QED  BY <1>1, <1>2, <1>3 DEF SocketInv, Uncrossed

LEMMA BootedStep ==
    ASSUME TypeOK, SocketInv, Booted
    PROVE  SocketInv' /\ wa' \in [Sockets -> [life : Lives, heard : BOOLEAN]]
           /\ sock' \in Sockets \cup {NoSocket}
<1>1. boot /\ boot' = FALSE /\ UNCHANGED <<up, session, dir, req, crossed>>
  BY DEF Booted
<1>2. CASE MakeSocket
  <2>1. Creates
    BY <1>1 DEF Creates
  <2>2. \A c \in Calls : ~crossed /\ Turns(c)' => FALSE
    BY <1>1 DEF SocketInv, Uncrossed, OneTurn, Turns
  <2>. QED  BY <1>1, <1>2, <2>1, <2>2, Making
<1>3. CASE UNCHANGED <<sock, wa>>
  <2>1. \A c \in Calls : (Turns(c)' => Turns(c)) /\ (Turns(c)' => req'[c] = req[c])
    BY <1>1 DEF Turns
  <2>. QED  BY <1>1, <1>3, <2>1, NotMaking, Types
<1>. QED  BY <1>2, <1>3 DEF Booted

LEMMA EndLoginStep ==
    ASSUME TypeOK, SocketInv, \A d \in Calls : Progress(req[d]), NEW c \in Calls, EndLogin(c)
    PROVE  /\ SocketInv' /\ wa' \in [Sockets -> [life : Lives, heard : BOOLEAN]]
           /\ sock' \in Sockets \cup {NoSocket}
           /\ \E x \in Requests : req' = [req EXCEPT ![c] = x] /\ Progress(x)
<1>1. req[c].at = "creating" /\ UNCHANGED <<up, session, dir, boot, crossed>>
  BY DEF EndLogin
<1>2. PICK how \in {"ok", "failed"} : /\ req' = [req EXCEPT ![c] = Ended(req[c], how, req[c].sent)]
                                      /\ MakeSocket \/ UNCHANGED <<sock, wa>>
  BY DEF EndLogin, Answered
<1>. DEFINE x == Ended(req[c], how, req[c].sent)
<1>3. x \in Requests /\ Progress(x) /\ x.at = "done"
  BY <1>1, Types, TurnEnds DEF Ended
<1>4. req'[c] = x /\ \A d \in Calls : d # c => req'[d] = req[d]
  BY <1>2, <1>3, Types, OneMoves
<1>5. \A d \in Calls : Turns(d)' => d # c /\ Turns(d) /\ req'[d] = req[d]
  BY <1>3, <1>4 DEF Turns
<1>6. CASE MakeSocket
  <2>1. Creates
    BY <1>1 DEF Creates
  <2>2. \A d \in Calls : ~crossed /\ Turns(d)' => FALSE
    BY <1>1, <1>5 DEF SocketInv, Uncrossed, OneTurn, Turns
  <2>3. ~crossed => ~boot'
    BY <1>1 DEF SocketInv, Uncrossed, OneTurn, Turns
  <2>. QED  BY <1>1, <1>2, <1>3, <1>6, <2>1, <2>2, <2>3, Making
<1>7. CASE UNCHANGED <<sock, wa>>
  BY <1>1, <1>2, <1>3, <1>5, <1>7, NotMaking, Types
<1>. QED  BY <1>2, <1>6, <1>7

LEMMA BeginLoginStep ==
    ASSUME TypeOK, SocketInv, \A d \in Calls : Progress(req[d]), NEW c \in Calls, BeginLogin(c)
    PROVE  /\ SocketInv' /\ wa' \in [Sockets -> [life : Lives, heard : BOOLEAN]]
           /\ sock' \in Sockets \cup {NoSocket}
           /\ \E x \in Requests : req' = [req EXCEPT ![c] = x] /\ Progress(x)
<1>1. req[c].at = "none" /\ UNCHANGED <<up, state, self, told, boot>>
  BY DEF BeginLogin
<1>2. CASE state = "connected"
  <2>. DEFINE x == Request("done", Login, NoSocket, "ok")
  <2>1. req' = [req EXCEPT ![c] = x] /\ UNCHANGED <<sock, wa, qr, dir, crossed>>
    BY <1>2 DEF BeginLogin
  <2>2. x \in Requests /\ Progress(x) /\ x.at = "done"
    BY TurnBegins DEF Request
  <2>3. req'[c] = x /\ \A d \in Calls : d # c => req'[d] = req[d]
    BY <2>1, <2>2, Types, OneMoves
  <2>4. \A d \in Calls : (Turns(d)' => Turns(d)) /\ (Turns(d)' => req'[d] = req[d])
    BY <2>2, <2>3 DEF Turns
  <2>5. UNCHANGED session
    BY <1>1, <2>1 DEF session
  <2>. QED  BY <1>1, <2>1, <2>2, <2>4, <2>5, NotMaking, Types
<1>3. CASE state # "connected"
  <2>. DEFINE x == Request("creating", Login, NoSocket, "none")
  <2>1. /\ req' = [req EXCEPT ![c] = x] /\ sock' = NoSocket /\ dir' = TRUE
        /\ crossed' = (crossed \/ Busy)
        /\ wa' = IF sock = NoSocket THEN wa
                 ELSE [wa EXCEPT ![sock] = [life |-> EndedLife(sock), heard |-> FALSE]]
    BY <1>3 DEF BeginLogin, DropOld
  <2>2. x \in Requests /\ Progress(x) /\ x.at = "creating"
    BY TurnBegins DEF Request
  <2>3. req'[c] = x /\ \A d \in Calls : d # c => req'[d] = req[d]
    BY <2>1, <2>2, Types, OneMoves
  <2>4. /\ wa' \in [Sockets -> [life : Lives, heard : BOOLEAN]]
        /\ \A t \in Sockets : t # sock => wa'[t] = wa[t]
        /\ sock # NoSocket => wa'[sock].life \notin {"made", "open"}
    <3>1. CASE sock = NoSocket
      BY <2>1, <3>1, Types
    <3>2. CASE sock # NoSocket
      <4>1. sock \in Sockets
        BY <3>2, Types
      <4>. QED  BY <2>1, <3>2, <4>1, EndedLives, OneSocketMoves
    <3>. QED  BY <3>1, <3>2
  <2>5. Heard'
    BY <2>1 DEF Heard
  <2>6. ASSUME ~crossed' PROVE OneTurn' /\ OneLive' /\ MadeInDir' /\ ConnectedIsTrue'
    <3>1. ~crossed /\ ~Busy
      BY <2>1, <2>6
    <3>2. OneLive
      BY <3>1 DEF SocketInv, Uncrossed
    <3>3. \A d \in Calls : Turns(d)' => d = c
      BY <2>3, <3>1 DEF Turns, Busy
    <3>4. OneTurn'
      <4>1. \A d \in Calls : req'[d].at # "ending" /\ (req'[d].at = "creating" => d = c)
        BY <2>2, <2>3, <3>3 DEF Turns
      <4>2. ~boot'
        BY <1>1, <3>1 DEF Busy
      <4>. QED  BY <2>1, <3>3, <4>1, <4>2 DEF OneTurn
    <3>5. OneLive'
      <4>1. \A t \in Sockets : wa'[t].life \notin {"made", "open"}
        BY <2>4, <3>2, Kinds DEF OneLive
      <4>. QED  BY <4>1 DEF OneLive
    <3>6. MadeInDir' /\ ConnectedIsTrue'
      BY <1>1, <1>3, <2>1 DEF MadeInDir, ConnectedIsTrue
    <3>. QED  BY <3>4, <3>5, <3>6
  <2>. QED  BY <2>1, <2>2, <2>4, <2>5, <2>6 DEF SocketInv, Uncrossed
<1>. QED  BY <1>2, <1>3

(* After a logout there is no socket: it has ended, or was dropped.        *)
LEMMA LogoutEnds ==
    ASSUME TypeOK, SocketInv, NEW c \in Calls, LoggedOut(c), UNCHANGED <<up, told, boot>>,
           crossed => crossed', ~crossed' => ~boot,
           ~crossed' => \A d \in Calls : Turns(d) => d = c,
           \A t \in Sockets : ~crossed' => wa'[t].life \notin {"made", "open"}
    PROVE  SocketInv' /\ \E x \in Requests : req' = [req EXCEPT ![c] = x] /\ Progress(x)
<1>. DEFINE x == Request("done", Logout, NoSocket, "ok")
<1>1. /\ req' = [req EXCEPT ![c] = x] /\ sock' = NoSocket /\ state' = "disconnected"
      /\ dir' = FALSE
  BY DEF LoggedOut
<1>2. x \in Requests /\ Progress(x) /\ x.at = "done"
  BY TurnBegins DEF Request
<1>3. req'[c] = x /\ \A d \in Calls : d # c => req'[d] = req[d]
  <2>. HIDE DEF x
  <2>. QED  BY <1>1, <1>2, Types
<1>4. Heard'
  BY <1>1 DEF Heard
<1>5. ASSUME ~crossed' PROVE OneTurn' /\ OneLive' /\ MadeInDir' /\ ConnectedIsTrue'
  <2>1. \A d \in Calls : ~Turns(d)'
    BY <1>2, <1>3, <1>5 DEF Turns
  <2>2. OneTurn'
    BY <1>5, <2>1 DEF OneTurn, Turns
  <2>3. OneLive' /\ MadeInDir' /\ ConnectedIsTrue'
    BY <1>1, <1>5 DEF OneLive, MadeInDir, ConnectedIsTrue
  <2>. QED  BY <2>2, <2>3
<1>. QED  BY <1>1, <1>2, <1>4, <1>5 DEF SocketInv, Uncrossed

LEMMA BeginLogoutStep ==
    ASSUME TypeOK, SocketInv, \A d \in Calls : Progress(req[d]), NEW c \in Calls, BeginLogout(c)
    PROVE  /\ SocketInv' /\ wa' \in [Sockets -> [life : Lives, heard : BOOLEAN]]
           /\ sock' \in Sockets \cup {NoSocket}
           /\ \E x \in Requests : req' = [req EXCEPT ![c] = x] /\ Progress(x)
<1>1. /\ req[c].at = "none" /\ UNCHANGED <<up, wa, told, boot>>
      /\ crossed' = (crossed \/ Busy)
  BY DEF BeginLogout
<1>2. ~crossed' => ~crossed /\ ~boot /\ \A d \in Calls : ~Turns(d)
  BY <1>1 DEF Busy, Turns
<1>3. CASE sock # NoSocket
  <2>. DEFINE x == Request("ending", Logout, sock, "none")
  <2>1. req' = [req EXCEPT ![c] = x] /\ UNCHANGED <<sock, state, self, dir>>
    BY <1>3 DEF BeginLogout, LoggedOut
  <2>2. x \in Requests /\ Progress(x) /\ x.at = "ending" /\ x.on = sock
    BY TurnBegins, Types DEF Request
  <2>3. req'[c] = x /\ \A d \in Calls : d # c => req'[d] = req[d]
    <3>. HIDE DEF x
    <3>. QED  BY <2>1, <2>2, Types
  <2>4. Heard'
    BY <1>1, <2>1 DEF SocketInv, Heard
  <2>5. ASSUME ~crossed' PROVE OneTurn' /\ OneLive' /\ MadeInDir' /\ ConnectedIsTrue'
    <3>1. OneLive /\ MadeInDir /\ ConnectedIsTrue
      BY <1>2, <2>5 DEF SocketInv, Uncrossed
    <3>2. \A d \in Calls : Turns(d)' => d = c
      BY <1>2, <2>3, <2>5 DEF Turns
    <3>3. \A d \in Calls : req'[d].at # "creating" /\ (req'[d].at = "ending" => d = c)
      BY <2>2, <2>3, <3>2 DEF Turns
    <3>4. OneTurn'
      BY <1>1, <1>2, <1>3, <2>1, <2>2, <2>3, <2>5, <3>2, <3>3 DEF OneTurn
    <3>5. OneLive' /\ MadeInDir' /\ ConnectedIsTrue'
      BY <1>1, <2>1, <3>1 DEF OneLive, MadeInDir, ConnectedIsTrue
    <3>. QED  BY <3>4, <3>5
  <2>. QED  BY <1>1, <2>1, <2>2, <2>4, <2>5, Types DEF SocketInv, Uncrossed
<1>4. CASE sock = NoSocket
  <2>1. LoggedOut(c)
    BY <1>4 DEF BeginLogout
  <2>2. \A t \in Sockets : ~crossed' => wa'[t].life \notin {"made", "open"}
    BY <1>1, <1>2, <1>4, Kinds DEF SocketInv, Uncrossed, OneLive
  <2>3. crossed => crossed'
    BY <1>1
  <2>4. sock' \in Sockets \cup {NoSocket}
    BY <2>1 DEF LoggedOut
  <2>. QED  BY <1>1, <1>2, <2>1, <2>2, <2>3, <2>4, LogoutEnds, Types
<1>. QED  BY <1>3, <1>4

LEMMA EndLogoutStep ==
    ASSUME TypeOK, SocketInv, \A d \in Calls : Progress(req[d]), NEW c \in Calls, EndLogout(c)
    PROVE  /\ SocketInv' /\ wa' \in [Sockets -> [life : Lives, heard : BOOLEAN]]
           /\ sock' \in Sockets \cup {NoSocket}
           /\ \E x \in Requests : req' = [req EXCEPT ![c] = x] /\ Progress(x)
<1>1. req[c].at = "ending" /\ UNCHANGED <<up, told, boot, crossed>>
  BY DEF EndLogout
<1>2. ~crossed => /\ ~boot /\ (\A d \in Calls : Turns(d) => d = c) /\ req[c].on = sock
                 /\ \A t \in Sockets : wa[t].life \in {"made", "open"} => t = sock
  BY <1>1 DEF SocketInv, Uncrossed, OneTurn, OneLive, Turns
<1>3. CASE wa[req[c].on].life = "closed" /\ LoggedOut(c) /\ UNCHANGED wa
  <2>1. \A t \in Sockets : ~crossed' => wa'[t].life \notin {"made", "open"}
    BY <1>1, <1>2, <1>3
  <2>2. sock' \in Sockets \cup {NoSocket}
    BY <1>3 DEF LoggedOut
  <2>3. (crossed => crossed') /\ (~crossed' => ~crossed)
    BY <1>1
  <2>. QED  BY <1>1, <1>2, <1>3, <2>1, <2>2, <2>3, LogoutEnds, Types
<1>4. CASE /\ sock # NoSocket /\ LoggedOut(c)
           /\ wa' = [wa EXCEPT ![sock].life = EndedLife(sock)]
  <2>1. sock \in Sockets
    BY <1>4, Types
  <2>2. /\ wa' \in [Sockets -> [life : Lives, heard : BOOLEAN]]
        /\ wa'[sock].life \notin {"made", "open"}
        /\ \A t \in Sockets : t # sock => wa'[t] = wa[t]
    BY <1>4, <2>1, EndedLives, LifeMoves
  <2>3. \A t \in Sockets : ~crossed' => wa'[t].life \notin {"made", "open"}
    BY <1>1, <1>2, <2>2
  <2>4. sock' \in Sockets \cup {NoSocket}
    BY <1>4 DEF LoggedOut
  <2>5. (crossed => crossed') /\ (~crossed' => ~crossed)
    BY <1>1
  <2>. QED  BY <1>1, <1>2, <1>4, <2>2, <2>3, <2>4, <2>5, LogoutEnds
<1>5. CASE req' = Answered(c, "failed") /\ UNCHANGED <<wa, sock, state, self, qr, dir>>
  <2>. DEFINE x == Ended(req[c], "failed", req[c].sent)
  <2>1. x \in Requests /\ Progress(x) /\ x.at = "done"
    BY <1>1, Types, TurnEnds DEF Ended
  <2>2. req' = [req EXCEPT ![c] = x]
    BY <1>5 DEF Answered
  <2>3. req'[c] = x /\ \A d \in Calls : d # c => req'[d] = req[d]
    <3>. HIDE DEF x
    <3>. QED  BY <2>1, <2>2, Types
  <2>4. \A d \in Calls : (Turns(d)' => Turns(d)) /\ (Turns(d)' => req'[d] = req[d])
    BY <2>1, <2>3 DEF Turns
  <2>5. UNCHANGED session
    BY <1>1, <1>5 DEF session
  <2>. QED  BY <1>1, <1>5, <2>1, <2>2, <2>4, <2>5, NotMaking, Types
<1>. QED  BY <1>3, <1>4, <1>5 DEF EndLogout

(* A method runs beside the sockets.                                       *)
LEMMA MethodStep ==
    ASSUME TypeOK, SocketInv, NEW c \in Calls, ~Turns(c), NEW x \in Requests,
           req' = [req EXCEPT ![c] = x], x.at \in {"running", "done"},
           UNCHANGED <<up, sock, wa, session, dir, boot, crossed>>
    PROVE  SocketInv'
<1>1. req'[c] = x /\ \A d \in Calls : d # c => req'[d] = req[d]
  BY Types
<1>2. \A d \in Calls : (Turns(d)' => Turns(d)) /\ (Turns(d)' => req'[d] = req[d])
  BY <1>1 DEF Turns
<1>. QED  BY <1>2, NotMaking

-----------------------------------------------------------------------------
(***************************************************************************)
(* All of it.                                                              *)
(***************************************************************************)
Known == {"none", "disconnected", "connecting", "connected"}
States == {"disconnected", "connecting", "pending_qr", "connected"}

LEMMA Flags ==
    TypeOK => /\ qr \in BOOLEAN /\ synced \in BOOLEAN /\ timer \in BOOLEAN
              /\ shown \in BOOLEAN /\ state \in States /\ told \in Known
BY DEF TypeOK, States, Known

LEMMA TypesTogether ==
    ASSUME up' \in BOOLEAN, sock' \in Sockets \cup {NoSocket},
           wa' \in [Sockets -> [life : Lives, heard : BOOLEAN]],
           state' \in States, told' \in Known, self' \in BOOLEAN, qr' \in BOOLEAN,
           dir' \in BOOLEAN, synced' \in BOOLEAN, timer' \in BOOLEAN, shown' \in BOOLEAN,
           boot' \in BOOLEAN, crossed' \in BOOLEAN, req' \in [Calls -> Requests]
    PROVE  TypeOK'
BY DEF TypeOK, States, Known, Lives

(* A login or a logout begins or ends.                                     *)
LEMMA TurnStep ==
    ASSUME TypeOK, SocketInv, \A d \in Calls : Progress(req[d]), NEW c \in Calls,
           BeginLogin(c) \/ EndLogin(c) \/ BeginLogout(c) \/ EndLogout(c)
    PROVE  /\ TypeOK' /\ SocketInv' /\ \A d \in Calls : Progress(req'[d])
           /\ \A d \in Calls : d # c => req'[d] = req[d]
<1>1. /\ SocketInv' /\ wa' \in [Sockets -> [life : Lives, heard : BOOLEAN]]
      /\ sock' \in Sockets \cup {NoSocket}
      /\ \E x \in Requests : req' = [req EXCEPT ![c] = x] /\ Progress(x)
  BY BeginLoginStep, EndLoginStep, BeginLogoutStep, EndLogoutStep
<1>2. /\ req' \in [Calls -> Requests] /\ \A d \in Calls : Progress(req'[d])
      /\ \A d \in Calls : d # c => req'[d] = req[d]
  <2>1. PICK x \in Requests : req' = [req EXCEPT ![c] = x] /\ Progress(x)
    BY <1>1
  <2>. QED  BY <2>1, OneMoves, Types
<1>3. /\ UNCHANGED <<up, told, history, boot>>
      /\ state' = state \/ state' = "disconnected"
      /\ self' = self \/ self' = FALSE
  BY DEF BeginLogin, EndLogin, BeginLogout, EndLogout, LoggedOut, session
<1>4. dir' \in BOOLEAN
  BY Types DEF BeginLogin, EndLogin, BeginLogout, EndLogout, LoggedOut, session
<1>5. qr' \in BOOLEAN
  <2>1. qr' = qr \/ qr' = FALSE \/ qr' = (qr /\ sock = NoSocket)
    BY DEF BeginLogin, EndLogin, BeginLogout, EndLogout, LoggedOut, session
  <2>. QED  BY <2>1, Flags
<1>6. crossed' \in BOOLEAN
  <2>1. crossed' = crossed \/ crossed' = (crossed \/ Busy)
    BY DEF BeginLogin, EndLogin, BeginLogout, EndLogout
  <2>. QED  BY <2>1, Types
<1>7. TypeOK'
  <2>1. /\ up' \in BOOLEAN /\ state' \in States /\ told' \in Known /\ boot' \in BOOLEAN
        /\ self' \in BOOLEAN /\ synced' \in BOOLEAN /\ timer' \in BOOLEAN /\ shown' \in BOOLEAN
    <3>1. state' \in States
      BY <1>3, Flags DEF States
    <3>2. self' \in BOOLEAN
      BY <1>3, Types
    <3>3. up' = up /\ told' = told /\ synced' = synced /\ timer' = timer /\ shown' = shown
          /\ boot' = boot
      BY <1>3 DEF history
    <3>. QED  BY <3>1, <3>2, <3>3, Types, Flags
  <2>. QED  BY <1>1, <1>2, <1>4, <1>5, <1>6, <2>1, TypesTogether
<1>. QED  BY <1>1, <1>2, <1>7

(* A method begins, or one of its operations is over.                      *)
LEMMA RunStep ==
    ASSUME TypeOK, SocketInv, \A d \in Calls : Progress(req[d]), NEW c \in Calls,
           \/ Proceed(c)
           \/ \E shape \in Shapes, readable \in BOOLEAN : ~(shape.lenient /\ shape.sent)
                                             /\ Begin(c, shape, readable)
    PROVE  /\ TypeOK' /\ SocketInv' /\ \A d \in Calls : Progress(req'[d])
           /\ \A d \in Calls : d # c => req'[d] = req[d]
<1>1. /\ req[c].at \in {"none", "running"}
      /\ UNCHANGED <<up, sock, wa, session, dir, history, boot, crossed>>
  BY DEF Proceed, Begin
<1>2. PICK x \in Requests : /\ req' = [req EXCEPT ![c] = x]
                           /\ Progress(x) /\ x.at \in {"running", "done"}
  BY BeginMoves, ProceedMoves
<1>3. /\ req' \in [Calls -> Requests] /\ \A d \in Calls : Progress(req'[d])
      /\ \A d \in Calls : d # c => req'[d] = req[d]
  BY <1>2, OneMoves, Types
<1>4. SocketInv'
  BY <1>1, <1>2, MethodStep DEF Turns
<1>5. TypeOK'
  BY <1>1, <1>3, Types, Flags, TypesTogether DEF session, history
<1>. QED  BY <1>3, <1>4, <1>5

(* The library, the timer, the start and the end of the process.           *)
LEMMA AloneStep ==
    ASSUME TypeOK, SocketInv, Booted \/ SyncTimeout \/ Library \/ Exit
    PROVE  TypeOK' /\ SocketInv' /\ req' = req
<1>. USE Types, Flags
<1>1. CASE Booted
  <2>1. /\ boot' = FALSE /\ req' = req /\ UNCHANGED <<up, session, dir, history, crossed>>
    BY <1>1 DEF Booted
  <2>2. TypeOK'
    BY <1>1, <2>1, BootedStep, TypesTogether DEF session, history
  <2>. QED  BY <1>1, <2>1, <2>2, BootedStep
<1>2. CASE SyncTimeout \/ \E s \in Sockets : HistorySet(s)
  <2>1. /\ PerformSync /\ req' = req
        /\ UNCHANGED <<up, sock, wa, session, dir, boot, crossed>>
    BY <1>2 DEF SyncTimeout, HistorySet
  <2>2. SocketInv'
    BY <2>1, NotMaking DEF Turns
  <2>3. synced' \in BOOLEAN /\ timer' \in BOOLEAN /\ shown' \in BOOLEAN
    BY <2>1 DEF PerformSync
  <2>. QED  BY <2>1, <2>2, <2>3, TypesTogether DEF session
<1>3. CASE Exit
  <2>1. up' = FALSE /\ req' = req
        /\ UNCHANGED <<sock, wa, session, dir, history, boot, crossed>>
    BY <1>3 DEF Exit
  <2>2. SocketInv'
    BY <2>1, NotMaking DEF Turns
  <2>. QED  BY <2>1, <2>2, TypesTogether DEF session, history
<1>4. ASSUME NEW s \in Sockets, QrShown(s) \/ Connecting(s)
      PROVE  TypeOK' /\ SocketInv' /\ req' = req
  <2>1. SocketInv'
    BY <1>4, QrStep, ConnectingStep
  <2>2. /\ UNCHANGED <<up, sock, wa, self, dir, history, boot, req>>
        /\ state' \in States /\ told' \in Known
        /\ qr' = TRUE \/ qr' = qr
    BY <1>4 DEF QrShown, Connecting, States, Known
  <2>3. crossed' \in BOOLEAN
    BY <1>4 DEF QrShown, Connecting
  <2>. QED  BY <2>1, <2>2, <2>3, TypesTogether DEF history
<1>5. ASSUME NEW s \in Sockets, Opened(s)
      PROVE  TypeOK' /\ SocketInv' /\ req' = req
  <2>1. SocketInv' /\ wa' \in [Sockets -> [life : Lives, heard : BOOLEAN]]
    <3>1. wa' = [wa EXCEPT ![s].life = "open"]
      BY <1>5 DEF Opened
    <3>. QED  BY <1>5, <3>1, OpenedStep, LifeMoves DEF Lives
  <2>2. CASE ~wa[s].heard
    <3>1. UNCHANGED <<up, sock, session, dir, history, boot, req, crossed>>
      BY <1>5, <2>2 DEF Opened
    <3>. QED  BY <2>1, <3>1, TypesTogether DEF session, history
  <2>3. CASE wa[s].heard /\ sock = NoSocket
    <3>1. crossed' = TRUE /\ up' = FALSE /\ UNCHANGED <<sock, session, dir, history, boot, req>>
      BY <1>5, <2>3 DEF Opened, Fatal
    <3>. QED  BY <2>1, <3>1, TypesTogether DEF session, history
  <2>4. CASE wa[s].heard /\ sock # NoSocket
    <3>1. /\ state' = "connected" /\ told' = "connected" /\ qr' = FALSE /\ synced' = FALSE
          /\ timer' = TRUE /\ shown' = FALSE /\ UNCHANGED <<up, sock, dir, boot, req>>
          /\ self' = (wa'[sock].life = "open") /\ crossed' = (crossed \/ s # sock)
      BY <1>5, <2>4 DEF Opened, OpenResetsSynced
    <3>2. self' \in BOOLEAN /\ crossed' \in BOOLEAN
      BY <3>1
    <3>3. state' \in States /\ told' \in Known
      BY <3>1 DEF States, Known
    <3>. QED  BY <2>1, <3>1, <3>2, <3>3, TypesTogether
  <2>. QED  BY <2>2, <2>3, <2>4
<1>6. ASSUME NEW s \in Sockets, Lost(s)
      PROVE  TypeOK' /\ SocketInv' /\ req' = req
  <2>1. /\ wa' = [wa EXCEPT ![s].life = "ended"]
        /\ UNCHANGED <<up, sock, session, dir, history, boot, req, crossed>>
    BY <1>6 DEF Lost
  <2>2. SocketInv' /\ wa' \in [Sockets -> [life : Lives, heard : BOOLEAN]]
    BY <1>6, <2>1, LostStep, LifeMoves DEF Lives
  <2>. QED  BY <2>1, <2>2, TypesTogether DEF session, history
<1>7. ASSUME NEW s \in Sockets, Closed(s)
      PROVE  TypeOK' /\ SocketInv' /\ req' = req
  <2>1. /\ wa' = [wa EXCEPT ![s].life = "closed"] /\ UNCHANGED <<up, sock, history, boot, req>>
    BY <1>7 DEF Closed
  <2>2. SocketInv' /\ wa' \in [Sockets -> [life : Lives, heard : BOOLEAN]]
    BY <1>7, <2>1, ClosedStep, LifeMoves DEF Lives
  <2>3. CASE ~wa[s].heard
    <3>1. UNCHANGED <<session, dir, crossed>>
      BY <1>7, <2>3 DEF Closed
    <3>. QED  BY <2>1, <2>2, <3>1, TypesTogether DEF session, history
  <2>4. CASE wa[s].heard
    <3>1. /\ state' = "disconnected" /\ told' = "disconnected" /\ self' = FALSE /\ qr' = FALSE
          /\ dir' \in {dir, FALSE}
      BY <1>7, <2>4 DEF Closed
    <3>2. crossed' \in BOOLEAN
      BY <1>7, <2>4 DEF Closed
    <3>3. state' \in States /\ told' \in Known /\ dir' \in BOOLEAN
      BY <3>1 DEF States, Known
    <3>. QED  BY <2>1, <2>2, <3>1, <3>2, <3>3, TypesTogether DEF history
  <2>. QED  BY <2>3, <2>4
<1>. QED  BY <1>1, <1>2, <1>3, <1>4, <1>5, <1>6, <1>7 DEF Library

(* The client of one call is told something.                               *)
LEMMA TellStep ==
    ASSUME TypesOK, NEW c \in Calls, NEW a \in Answers, Tell(c, a),
           \A d \in Calls : Told(http[d], req[d]),
           \A d \in Calls : d # c => req'[d] = req[d], Told(a, req'[c])
    PROVE  http' \in [Calls -> Answers] /\ \A d \in Calls : Told(http'[d], req'[d])
<1>1. http \in [Calls -> Answers] /\ http' = [http EXCEPT ![c] = a]
  BY DEF TypesOK, Tell
<1>2. http'[c] = a /\ \A d \in Calls : d # c => http'[d] = http[d]
  BY <1>1
<1>3. \A d \in Calls : Told(http'[d], req'[d])
  <2>. SUFFICES ASSUME NEW d \in Calls PROVE Told(http'[d], req'[d])
    OBVIOUS
  <2>. QED  BY <1>2
<1>. QED  BY <1>1, <1>3

LEMMA RouteShapes ==
    ASSUME NEW r \in DOMAIN Routes, NEW shape \in Methods[Routes[r]]
    PROVE  shape \in Shapes /\ ~(shape.lenient /\ shape.sent)
<1>1. Routes[r] \in DOMAIN Methods
  BY LayersAgree
<1>. QED  BY <1>1, LayersAgree

LEMMA ApiStep == ApiInv /\ [Next]_allVars => ApiInv'
<1>. SUFFICES ASSUME ApiInv, [Next]_allVars PROVE ApiInv'
  OBVIOUS
<1>1. /\ TypeOK /\ TypesOK /\ http \in [Calls -> Answers] /\ SocketInv
      /\ \A d \in Calls : Progress(req[d]) /\ Told(http[d], req[d])
  BY DEF ApiInv, TypesOK, SocketInv
<1>2. ASSUME TypeOK', SocketInv', http' \in [Calls -> Answers],
             \A d \in Calls : Progress(req'[d]) /\ Told(http'[d], req'[d])
      PROVE  ApiInv'
  BY <1>2 DEF ApiInv, TypesOK, SocketInv
<1>3. ASSUME UNCHANGED vars
      PROVE  TypeOK' /\ SocketInv' /\ req' = req /\ \A d \in Calls : Progress(req'[d])
  <2>1. TypeOK'
    BY <1>1, <1>3 DEF vars, session, history, TypeOK
  <2>2. SocketInv'
    <3>1. UNCHANGED <<up, sock, wa, session, dir, boot, req, crossed>>
      BY <1>3 DEF vars, session
    <3>2. \A d \in Calls : (Turns(d)' => Turns(d)) /\ (Turns(d)' => req'[d] = req[d])
      BY <3>1 DEF Turns
    <3>. QED  BY <1>1, <3>1, <3>2, NotMaking
  <2>3. req' = req
    BY <1>3 DEF vars
  <2>. QED  BY <1>1, <2>1, <2>2, <2>3
<1>4. ASSUME NEW c \in Calls, Ask(c) \/ AskLogin(c) \/ AskLogout(c)
      PROVE  ApiInv'
  <2>1. http[c] = "idle" /\ req[c].at = "none"
    BY <1>1, <1>4 DEF Ask, AskLogin, AskLogout, Told
  <2>2. CASE /\ UNCHANGED vars
             /\ \E a \in {"rejected", "failed", "waiting", "200"} : Tell(c, a)
    <3>1. \A a \in {"rejected", "failed", "waiting", "200"} : a \in Answers /\ Told(a, req'[c])
      BY <1>3, <2>1, <2>2 DEF Told, Answers
    <3>. QED  BY <1>1, <1>2, <1>3, <2>2, <3>1, TellStep
  <2>3. CASE /\ Tell(c, "waiting")
             /\ \/ BeginLogin(c) \/ BeginLogout(c)
                \/ \E shape \in Shapes, readable \in BOOLEAN : ~(shape.lenient /\ shape.sent)
                                                  /\ Begin(c, shape, readable)
    <3>1. "waiting" \in Answers /\ Told("waiting", req'[c])
      BY DEF Told, Answers
    <3>2. /\ TypeOK' /\ SocketInv' /\ \A d \in Calls : Progress(req'[d])
          /\ \A d \in Calls : d # c => req'[d] = req[d]
      BY <1>1, <2>3, TurnStep, RunStep
    <3>. QED  BY <1>1, <1>2, <2>3, <3>1, <3>2, TellStep
  <2>4. CASE Ask(c)
    <3>1. PICK r \in DOMAIN Routes : \E shape \in Methods[Routes[r]] :
              \/ Tell(c, "rejected") /\ UNCHANGED vars
              \/ Tell(c, "waiting") /\ \E readable \in Readable(r) : Begin(c, shape, readable)
              \/ (Tell(c, "failed") \/ Tell(c, "waiting")) /\ UNCHANGED vars
      BY <2>4 DEF Ask, AskNobody
    <3>2. PICK shape \in Methods[Routes[r]] :
              \/ Tell(c, "rejected") /\ UNCHANGED vars
              \/ Tell(c, "waiting") /\ \E readable \in Readable(r) : Begin(c, shape, readable)
              \/ (Tell(c, "failed") \/ Tell(c, "waiting")) /\ UNCHANGED vars
      BY <3>1
    <3>3. shape \in Shapes /\ ~(shape.lenient /\ shape.sent)
      BY RouteShapes
    <3>4. Readable(r) \subseteq BOOLEAN
      BY DEF Readable
    <3>. QED  BY <2>2, <2>3, <3>2, <3>3, <3>4
  <2>. QED  BY <1>4, <2>2, <2>3, <2>4 DEF AskLogin, AskLogout, AskNobody
<1>5. ASSUME NEW c \in Calls, Reply(c) \/ TimesOut(c)
      PROVE  ApiInv'
  <2>1. UNCHANGED vars /\ http[c] = "waiting"
    BY <1>5 DEF Reply, TimesOut
  <2>2. CASE Reply(c)
    <3>1. req[c].at = "done" /\ req[c].result \in {"ok", "refused", "failed"}
      <4>1. req[c] \in Requests /\ req[c].at = "done"
        BY <1>1, <2>2, Types DEF Reply
      <4>. QED  BY <1>1, <4>1, Fields DEF Progress
    <3>2. PICK a : a = IF req[c].result = "ok" THEN "200" ELSE req[c].result
      OBVIOUS
    <3>3. Tell(c, a) /\ a \in Answers /\ Told(a, req[c])
      BY <2>2, <3>1, <3>2 DEF Reply, Answers, Told
    <3>4. Told(a, req'[c])
      BY <1>3, <2>1, <3>3
    <3>. QED  BY <1>1, <1>2, <1>3, <2>1, <3>3, <3>4, TellStep
  <2>3. CASE TimesOut(c)
    <3>1. Tell(c, "timeout") /\ "timeout" \in Answers /\ Told("timeout", req'[c])
      BY <2>3 DEF TimesOut, Answers, Told
    <3>. QED  BY <1>1, <1>2, <1>3, <2>1, <3>1, TellStep
  <2>. QED  BY <1>5, <2>2, <2>3
<1>6. ASSUME NEW c \in Calls, EndLogin(c) \/ EndLogout(c) \/ Proceed(c), UNCHANGED http
      PROVE  ApiInv'
  <2>1. req[c].at \in {"creating", "ending", "running"}
    BY <1>6 DEF EndLogin, EndLogout, Proceed
  <2>2. /\ TypeOK' /\ SocketInv' /\ \A d \in Calls : Progress(req'[d])
        /\ \A d \in Calls : d # c => req'[d] = req[d]
    BY <1>1, <1>6, TurnStep, RunStep
  <2>3. http[c] \in {"waiting", "timeout"}
    BY <1>1, <2>1 DEF Told
  <2>4. \A d \in Calls : Told(http[d], req'[d])
    <3>. SUFFICES ASSUME NEW d \in Calls PROVE Told(http[d], req'[d])
      OBVIOUS
    <3>1. CASE d = c
      BY <2>3, <3>1 DEF Told
    <3>2. CASE d # c
      BY <1>1, <2>2, <3>2
    <3>. QED  BY <3>1, <3>2
  <2>. QED  BY <1>1, <1>2, <1>6, <2>2, <2>4
<1>7. ASSUME Booted \/ SyncTimeout \/ Library \/ Exit, UNCHANGED http
      PROVE  ApiInv'
  BY <1>1, <1>2, <1>7, AloneStep
<1>8. CASE UNCHANGED allVars
  BY <1>1, <1>2, <1>3, <1>8 DEF allVars
<1>. QED  BY <1>4, <1>5, <1>6, <1>7, <1>8 DEF Next, Work

LEMMA ApiInit == AllInit => ApiInv
<1>. SUFFICES ASSUME AllInit PROVE ApiInv
  OBVIOUS
<1>0. Init /\ http = [c \in Calls |-> "idle"]
  BY DEF AllInit
<1>1. /\ up = TRUE /\ sock = NoSocket /\ state = "disconnected" /\ told = "none"
      /\ self = FALSE /\ qr = FALSE /\ boot \in BOOLEAN /\ dir \in BOOLEAN /\ (boot => dir)
      /\ synced = FALSE /\ timer = FALSE /\ shown = FALSE /\ crossed = FALSE
  BY <1>0 DEF Init
<1>2. NoRequest \in Requests /\ Progress(NoRequest) /\ NoRequest.at = "none"
  BY RequestIn DEF NoRequest, Request, Progress
<1>3. \A c \in Calls : req[c] = NoRequest /\ http[c] = "idle"
  BY <1>0 DEF Init
<1>4. \A s \in Sockets : wa[s].life = "unmade"
  BY <1>0 DEF Init
<1>5. TypeOK
  <2>1. wa \in [Sockets -> [life : {"unmade", "made", "open", "ended", "closed"},
                           heard : BOOLEAN]]
    BY <1>0 DEF Init
  <2>2. req \in [Calls -> Requests]
    BY <1>0, <1>2 DEF Init
  <2>. QED  BY <1>1, <2>1, <2>2 DEF TypeOK
<1>6. TypesOK
  BY <1>0, <1>5 DEF TypesOK, Answers
<1>7. Heard /\ OneTurn
  BY <1>1, <1>2, <1>3 DEF Heard, OneTurn, Turns
<1>8. OneLive /\ MadeInDir /\ ConnectedIsTrue
  BY <1>1, <1>4 DEF OneLive, MadeInDir, ConnectedIsTrue
<1>9. \A c \in Calls : Progress(req[c]) /\ Told(http[c], req[c])
  BY <1>2, <1>3 DEF Told
<1>. QED  BY <1>6, <1>7, <1>8, <1>9 DEF ApiInv, Uncrossed

-----------------------------------------------------------------------------
(***************************************************************************)
(* What holds.                                                             *)
(***************************************************************************)
(* The invariant holds, whatever the requests and the library do.          *)
THEOREM ApiInvariant == Spec => []ApiInv
BY ApiInit, ApiStep, PTL DEF Spec

(* Sockets, requests and answers have their types.                         *)
THEOREM ApiTypes == Spec => []TypesOK
<1>1. ApiInv => TypesOK
  BY DEF ApiInv
<1>. QED  BY ApiInvariant, <1>1, PTL

(* Without overlapping logins, logouts or replaced sockets that speak up,  *)
(* a live socket is the global one and "connected" is true of it.          *)
THEOREM OneSocketHolds == Spec => []OneSocket
<1>1. ApiInv => OneSocket
  BY DEF ApiInv, Uncrossed, OneSocket, OneLive, ConnectedIsTrue
<1>. QED  BY ApiInvariant, <1>1, PTL

(* Whatever WhatsApp performs of what fails, and however an operation      *)
(* ends: 200 means that each one was tried, and performed when WhatsApp    *)
(* answers it, a refusal that none was, and an error leaves in doubt no    *)
(* other than the one that failed.                                         *)
THEOREM AnswerIsTrueHolds == Spec => []AnswerIsTrue
<1>1. ApiInv => AnswerIsTrue
  <2>. SUFFICES ASSUME ApiInv, NEW c \in Calls
                PROVE  LET r == req[c]
                           method == r.does \in Shapes /\ r.at = "done"
                       IN  /\ http[c] = "200" /\ method => Finished(r)
                           /\ http[c] = "refused" => r.tried = 0 /\ r.did = 0 /\ r.sent = 0
                           /\ http[c] = "rejected" => r = NoRequest
                           /\ http[c] = "failed" /\ method => InDoubt(r)
                           /\ http[c] \notin {"waiting", "timeout"} => r.at \in {"none", "done"}
    BY DEF AnswerIsTrue, Finished, InDoubt
  <2>1. Progress(req[c]) /\ Told(http[c], req[c])
    BY DEF ApiInv
  <2>. QED  BY <2>1 DEF Progress, Told
<1>. QED  BY ApiInvariant, <1>1, PTL

=============================================================================
