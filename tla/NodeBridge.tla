----------------------------- MODULE NodeBridge -----------------------------
(***************************************************************************)
(* The Node.js process of one tenant, src/bridge/index.mjs: its WhatsApp   *)
(* sockets, the connection state it keeps and reports, the export of the   *)
(* history after a connection, and the handlers of its JSON-RPC methods.   *)
(*                                                                         *)
(* The code runs on one thread and gives way at each await.  A handler     *)
(* begins in one action, up to its first await, and goes on in another;    *)
(* it reads the global `sock` anew after every await.  What a socket does  *)
(* and reports is the library's (Baileys) and WhatsApp's choice.           *)
(***************************************************************************)
EXTENDS Integers, FiniteSets

CONSTANTS
    Calls,      \* JSON-RPC requests of the Python side
    MaxSockets  \* bound on the sockets one process creates

ASSUME NodeAssumption == IsFiniteSet(Calls) /\ MaxSockets \in Nat \ {0}

Sockets == 1 .. MaxSockets
NoSocket == 0

VARIABLES
    up,      \* the process runs
    sock,    \* the global `sock`
    wa,      \* the sockets: how far each one is, and whether it has listeners
    state,   \* connectionState
    self,    \* selfInfo names an account
    qr,      \* currentQr is set
    told,    \* the last of the events connecting, connected, disconnected
    dir,     \* the auth directory exists
    synced,  \* syncPerformed
    timer,   \* the 30 s timer of the connection is set
    shown,   \* contacts and chats were sent since the last connection
    boot,    \* the createSocket of AUTO_LOGIN is under way
    req,     \* the requests
    crossed  \* logins and logouts have overlapped, or a replaced socket spoke

vars == <<up, sock, wa, state, self, qr, told, dir, synced, timer, shown, boot,
          req, crossed>>

session == <<state, self, qr, told>>
history == <<synced, timer, shown>>

(***************************************************************************)
(* A method is known by what it does with the socket.                      *)
(***************************************************************************)
Shapes == [ops : 0 .. 2,       \* operations it awaits, one after the other
           needs : BOOLEAN,    \* throws "Not connected to WhatsApp"
           reads : BOOLEAN,    \* reads a file before the first operation
           lenient : BOOLEAN,  \* an operation that fails is passed over
           answered : BOOLEAN, \* WhatsApp answers them; else the socket takes them
           sent : BOOLEAN]     \* ends with a "sent" event
Login == [name |-> "login"]
Logout == [name |-> "logout"]

(* Request(...): one that has issued no operation yet.  Of those it has    *)
(* tried, WhatsApp performs `did`, sooner or later.                        *)
Request(at, does, on, result) ==
    [at |-> at, does |-> does, on |-> on, tried |-> 0, did |-> 0, sent |-> 0,
     result |-> result]
NoRequest == Request("none", Login, NoSocket, "none")
Requests == [at : {"none", "creating", "ending", "running", "done"},
             does : Shapes \cup {Login, Logout}, on : Sockets \cup {NoSocket},
             tried : 0 .. 2, did : 0 .. 2, sent : 0 .. 1,
             result : {"none", "ok", "refused", "failed"}]

TypeOK ==
    /\ up \in BOOLEAN
    /\ sock \in Sockets \cup {NoSocket}
    /\ wa \in [Sockets -> [life : {"unmade", "made", "open", "ended", "closed"},
                           heard : BOOLEAN]]
    /\ state \in {"disconnected", "connecting", "pending_qr", "connected"}
    /\ told \in {"none", "disconnected", "connecting", "connected"}
    /\ {self, qr, dir, synced, timer, shown, boot, crossed} \subseteq BOOLEAN
    /\ req \in [Calls -> Requests]

(* The process starts with AUTO_LOGIN, or waits for a login; the auth      *)
(* directory may hold restored credentials.                                *)
Init ==
    /\ up = TRUE
    /\ sock = NoSocket
    /\ wa = [s \in Sockets |-> [life |-> "unmade", heard |-> FALSE]]
    /\ state = "disconnected" /\ told = "none"
    /\ self = FALSE /\ qr = FALSE
    /\ boot \in BOOLEAN
    /\ dir \in (IF boot THEN {TRUE} ELSE BOOLEAN)
    /\ synced = FALSE /\ timer = FALSE /\ shown = FALSE
    /\ req = [c \in Calls |-> NoRequest]
    /\ crossed = FALSE

(* Answered(c, how): handleRequest writes the response of a handler.       *)
Ended(r, how, sent) ==
    [at |-> "done", does |-> r.does, on |-> r.on, tried |-> r.tried, did |-> r.did,
     sent |-> sent, result |-> how]
Answered(c, how) == [req EXCEPT ![c] = Ended(req[c], how, req[c].sent)]

(* Another login or logout, or the createSocket of AUTO_LOGIN, is awaited. *)
Busy == boot \/ \E c \in Calls : req[c].at \in {"creating", "ending"}

(***************************************************************************)
(* createSocket.                                                           *)
(***************************************************************************)
(* MakeSocket: makeWASocket and the listeners, after the awaited reads.    *)
MakeSocket ==
    \E s \in Sockets :
        /\ wa[s].life = "unmade"
        /\ \A t \in Sockets : t < s => wa[t].life # "unmade"
        /\ wa' = [wa EXCEPT ![s] = [life |-> "made", heard |-> TRUE]]
        /\ sock' = s

(* The AUTO_LOGIN socket is there, or could not be created.                *)
Booted ==
    /\ up /\ boot
    /\ boot' = FALSE
    /\ \/ MakeSocket
       \/ UNCHANGED <<sock, wa>>
    /\ UNCHANGED <<up, session, dir, history, req, crossed>>

EndedLife(s) == IF wa[s].life \in {"made", "open"} THEN "ended" ELSE wa[s].life

(* DropOld(s): removeAllListeners, then ws.close().                        *)
DropOld(s) ==
    [wa EXCEPT ![s] = [life |-> EndedLife(s), heard |-> FALSE]]

(* login() up to its await of createSocket.                                *)
BeginLogin(c) ==
    /\ up /\ req[c].at = "none"
    /\ \/ /\ state = "connected"
          /\ req' = [req EXCEPT ![c] = Request("done", Login, NoSocket, "ok")]
          /\ UNCHANGED <<sock, wa, qr, dir, crossed>>
       \/ /\ state # "connected"
          /\ req' = [req EXCEPT ![c] = Request("creating", Login, NoSocket, "none")]
          /\ wa' = IF sock = NoSocket THEN wa ELSE DropOld(sock)
          /\ sock' = NoSocket
          /\ qr' = (qr /\ sock = NoSocket)
          /\ dir' = TRUE
          /\ crossed' = (crossed \/ Busy)
    /\ UNCHANGED <<up, state, self, told, history, boot>>

(* createSocket returns to login(), or throws.                             *)
EndLogin(c) ==
    /\ up /\ req[c].at = "creating"
    /\ \/ MakeSocket /\ req' = Answered(c, "ok")
       \/ UNCHANGED <<sock, wa>> /\ req' = Answered(c, "failed")
    /\ UNCHANGED <<up, session, dir, history, boot, crossed>>

(***************************************************************************)
(* logout.                                                                 *)
(***************************************************************************)
(* The part after the socket is gone.                                      *)
LoggedOut(c) ==
    /\ sock' = NoSocket
    /\ dir' = FALSE
    /\ state' = "disconnected"
    /\ self' = FALSE
    /\ qr' = FALSE
    /\ req' = [req EXCEPT ![c] = Request("done", Logout, NoSocket, "ok")]

BeginLogout(c) ==
    /\ up /\ req[c].at = "none"
    /\ \/ /\ sock # NoSocket
          /\ req' = [req EXCEPT ![c] = Request("ending", Logout, sock, "none")]
          /\ UNCHANGED <<sock, state, self, qr, dir>>
       \/ sock = NoSocket /\ LoggedOut(c)
    /\ crossed' = (crossed \/ Busy)
    /\ UNCHANGED <<up, wa, told, history, boot>>

(* Mutant: an error of sock.logout() is ignored, the socket kept.          *)
EndLogoutForgets(c) ==
    /\ up /\ req[c].at = "ending"
    /\ LoggedOut(c)
    /\ UNCHANGED <<up, wa, told, history, boot, crossed>>

(* sock.logout() ends once the socket has reported its end; when it throws *)
(* the socket that is the global one by then is closed, and a login that   *)
(* has set it to null makes this a TypeError.                              *)
EndLogout(c) ==
    /\ up /\ req[c].at = "ending"
    /\ \/ /\ wa[req[c].on].life = "closed"
          /\ LoggedOut(c)
          /\ UNCHANGED wa
       \/ /\ sock # NoSocket
          /\ wa' = [wa EXCEPT ![sock].life = EndedLife(sock)]
          /\ LoggedOut(c)
       \/ /\ sock = NoSocket
          /\ req' = Answered(c, "failed")
          /\ UNCHANGED <<wa, sock, state, self, qr, dir>>
    /\ UNCHANGED <<up, told, history, boot, crossed>>

(***************************************************************************)
(* The other methods.                                                      *)
(***************************************************************************)
(* Step(c, r): request r has come so far; it ends, or issues its next      *)
(* operation on the global socket, where null and a closed one throw.      *)
Step(c, r) ==
    [req EXCEPT ![c] =
        IF r.tried = r.does.ops THEN Ended(r, "ok", IF r.does.sent THEN 1 ELSE 0)
        ELSE IF sock = NoSocket \/ wa[sock].life = "closed"
             THEN Ended(r, IF r.does.lenient THEN "ok" ELSE "failed", 0)
        ELSE [at |-> "running", does |-> r.does, on |-> sock, tried |-> r.tried,
              did |-> r.did, sent |-> r.sent, result |-> r.result]]

Refuses(shape) == shape.needs /\ (sock = NoSocket \/ state # "connected")

(* handleRequest: the handler up to its first await.                       *)
Begin(c, shape, readable) ==
    /\ up /\ req[c].at = "none"
    /\ LET ends(how) == [req EXCEPT ![c] = Request("done", shape, NoSocket, how)]
       IN  req' = IF Refuses(shape) THEN ends("refused")
                  ELSE IF shape.reads /\ ~readable THEN ends("failed")
                  ELSE Step(c, Request("none", shape, NoSocket, "none"))
    /\ UNCHANGED <<up, sock, wa, session, dir, history, boot, crossed>>

(* Tried(r, n): one more operation is over, n of them performed.           *)
Tried(r, n) ==
    [at |-> r.at, does |-> r.does, on |-> r.on, tried |-> r.tried + 1, did |-> r.did + n,
     sent |-> r.sent, result |-> r.result]

(* Mutant: an operation is not awaited.                                    *)
ProceedUnawaited(c) ==
    /\ up /\ req[c].at = "running"
    /\ req' = Step(c, Tried(req[c], 0))
    /\ UNCHANGED <<up, sock, wa, session, dir, history, boot, crossed>>

(* The awaited operation resolves: with WhatsApp's answer, so that it was  *)
(* performed, or because the socket has taken it, whatever comes of it.    *)
Resolves(r, n) == r.does.answered => n = 1 /\ wa[r.on].life \in {"open", "ended"}

(* Or it rejects, and may have been performed: the connection closed, or   *)
(* Baileys' patience ended, before the answer came.                        *)
Proceed(c) ==
    /\ up /\ req[c].at = "running"
    /\ \E n \in 0 .. 1 :
          LET r == Tried(req[c], n)
          IN  \/ (Resolves(req[c], n) \/ r.does.lenient) /\ req' = Step(c, r)
              \/ ~r.does.lenient /\ req' = [req EXCEPT ![c] = Ended(r, "failed", r.sent)]
    /\ UNCHANGED <<up, sock, wa, session, dir, history, boot, crossed>>

(***************************************************************************)
(* What the sockets report.                                                *)
(***************************************************************************)
Fatal == up' = FALSE /\ UNCHANGED <<sock, session, dir, history, boot, req>>

(* connection.update with a QR code, or with connection = "connecting".    *)
QrShown(s) ==
    /\ up /\ wa[s] = [life |-> "made", heard |-> TRUE]
    /\ qr' = TRUE
    /\ state' = "pending_qr"
    /\ crossed' = (crossed \/ s # sock)
    /\ UNCHANGED <<up, sock, wa, self, told, dir, history, boot, req>>

Connecting(s) ==
    /\ up /\ wa[s] = [life |-> "made", heard |-> TRUE]
    /\ state' = "connecting"
    /\ told' = "connecting"
    /\ crossed' = (crossed \/ s # sock)
    /\ UNCHANGED <<up, sock, wa, self, qr, dir, history, boot, req>>

(* Mutant: the flag of the previous connection is not reset.               *)
OpenKeepsSynced == UNCHANGED synced

(* A connection starts with its history still to be sent.                  *)
OpenResetsSynced == synced' = FALSE

(* connection = "open": the handler reads sock.user of the global socket,  *)
(* and the rejection of an async listener ends the process.                *)
Opened(s) ==
    /\ up /\ wa[s].life = "made"
    /\ wa' = [wa EXCEPT ![s].life = "open"]
    /\ \/ ~wa[s].heard /\ UNCHANGED <<up, sock, session, dir, history, boot, req, crossed>>
       \/ /\ wa[s].heard /\ sock = NoSocket
          /\ crossed' = TRUE
          /\ Fatal
       \/ /\ wa[s].heard /\ sock # NoSocket
          /\ state' = "connected" /\ told' = "connected"
          /\ self' = (wa'[sock].life = "open")
          /\ qr' = FALSE
          /\ OpenResetsSynced /\ timer' = TRUE /\ shown' = FALSE
          /\ crossed' = (crossed \/ s # sock)
          /\ UNCHANGED <<up, sock, dir, boot, req>>

(* The connection is gone; nobody knows yet.                               *)
Lost(s) ==
    /\ up
    /\ wa[s].life \in {"made", "open"}
    /\ wa' = [wa EXCEPT ![s].life = "ended"]
    /\ UNCHANGED <<up, sock, session, dir, history, boot, req, crossed>>

(* connection = "close", with or without the reason loggedOut; whichever   *)
(* socket it is, and without letting go of `sock`.                         *)
Closed(s) ==
    /\ up /\ wa[s].life = "ended"
    /\ wa' = [wa EXCEPT ![s].life = "closed"]
    /\ \/ ~wa[s].heard /\ UNCHANGED <<session, dir, crossed>>
       \/ /\ wa[s].heard
          /\ state' = "disconnected" /\ told' = "disconnected"
          /\ self' = FALSE
          /\ qr' = FALSE
          /\ dir' \in {dir, FALSE}
          /\ crossed' = (crossed \/ (s # sock /\ (sock # NoSocket \/ Busy)))
    /\ UNCHANGED <<up, sock, history, boot, req>>

(* _performSyncAfterConnect: contacts and chats_history, once.             *)
PerformSync ==
    /\ timer' = FALSE
    /\ synced' = TRUE
    /\ shown' = (shown \/ ~synced)

(* messaging-history.set: each chunk fills the stores, the first is sent.  *)
HistorySet(s) ==
    /\ up /\ wa[s] = [life |-> "open", heard |-> TRUE]
    /\ PerformSync
    /\ UNCHANGED <<up, sock, wa, session, dir, boot, req, crossed>>

(* The 30 s timer of the last connection, which a close does not stop.     *)
SyncTimeout ==
    /\ up /\ timer
    /\ PerformSync
    /\ UNCHANGED <<up, sock, wa, session, dir, boot, req, crossed>>

(* stdin ends, SIGTERM, SIGINT or a crash.                                 *)
Exit ==
    /\ up
    /\ up' = FALSE
    /\ UNCHANGED <<sock, wa, session, dir, history, boot, req, crossed>>

Work ==
    \/ Booted \/ SyncTimeout
    \/ \E c \in Calls : EndLogin(c) \/ EndLogout(c) \/ Proceed(c)

Library ==
    \E s \in Sockets : \/ QrShown(s) \/ Connecting(s) \/ Opened(s)
                       \/ Lost(s) \/ Closed(s) \/ HistorySet(s)

(***************************************************************************)
(* Properties.                                                             *)
(***************************************************************************)
(* As long as logins, logouts and AUTO_LOGIN do not overlap and no socket  *)
(* that was replaced speaks up, a live socket is the global one, and       *)
(* "connected" means that this socket has opened, is not reported closed,  *)
(* and that the account and the auth directory are there.                  *)
OneSocket ==
    ~crossed =>
        /\ \A s \in Sockets : wa[s].life \in {"made", "open"} => s = sock
        /\ up /\ state = "connected" =>
              /\ sock # NoSocket
              /\ wa[sock].life \in {"open", "ended"}
              /\ self /\ dir
              /\ told = "connected"

(* Every connection has its contacts and chats sent to Python, from the    *)
(* history or at the latest by the timer, unless the process ends.         *)
OpenIsSynced == (state = "connected" /\ ~shown) ~> (shown \/ ~up)
=============================================================================
