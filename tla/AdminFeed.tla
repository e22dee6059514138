------------------------------ MODULE AdminFeed ------------------------------
(***************************************************************************)
(* The dashboard's live log: entries get an id in the log buffer and are   *)
(* offered to a bounded queue, from the event loop and, for log records,   *)
(* from any thread; one task takes them from the queue and sends each to   *)
(* every socket in turn.  Other broadcasts (state changes, new messages,   *)
(* blocked addresses) go to the sockets directly, each in its own task.    *)
(***************************************************************************)
EXTENDS AdminSessions, Integers, Sequences

CONSTANTS
    Sockets,
    Threads,    \* threads that log, beside the event loop
    Directs,    \* broadcasts that do not go through the queue
    MaxQueue,   \* maxsize of _ws_broadcast_queue
    MaxBuffer   \* admin_log_buffer_size

VARIABLES
    counter, buffer,  \* LogBuffer: the last id, the ids held
    adding,  \* of the loop and each thread: the entry it has added and not yet offered
    found,   \* of each of them, what full() told: "none" yet, "room" or "full"
    queue,   \* _ws_broadcast_queue
    taker,   \* _broadcast_loop: "looking", "parking", "parked", "sending", "over"
    conns,   \* AdminConnectionManager._connections, whose order is left open
    socket,  \* "none", "accepting", "open", "gone" (the client is), "closed"
    casts,   \* the broadcasts under way: whom they still go to, who failed
    got,     \* ghost: the entries each socket has received
    due      \* ghost: the entries broadcast since each socket was registered

logVars == <<counter, buffer, adding, found, queue>>
socketVars == <<taker, conns, socket, casts, got, due>>
feedVars == <<logVars, socketVars, sessionVars>>

Emitters == Threads \cup {"loop"}
Casters == Directs \cup {"feed"}
Nothing == [kind |-> "none", id |-> 0]
NoCast == [on |-> FALSE, left |-> {}, failed |-> {}]

FeedInit ==
    /\ counter = 0 /\ buffer = <<>>
    /\ adding = [e \in Emitters |-> Nothing] /\ found = [e \in Emitters |-> "none"]
    /\ queue = <<>>
    /\ taker = "looking"
    /\ conns = {}
    /\ socket = [k \in Sockets |-> "none"]
    /\ casts = [c \in Casters |-> NoCast]
    /\ got = [k \in Sockets |-> <<>>] /\ due = [k \in Sockets |-> <<>>]

(* The loop does one thing at a time; logging.Handler.handle holds the     *)
(* handler's lock around emit.                                             *)
LoopFree == adding["loop"] = Nothing /\ taker # "parking"
HandlerFree == \A e \in Emitters : adding[e].kind # "log"

Latest(n, seq) == IF Len(seq) > n THEN Tail(seq) ELSE seq
Id == counter + 1

-----------------------------------------------------------------------------
(* add_sync, then queue_broadcast.                                         *)

AddEntry ==
    /\ counter' = Id
    /\ buffer' = Latest(MaxBuffer, Append(buffer, Id))

Add(e, kind, most) ==
    /\ counter < most
    /\ adding[e] = Nothing
    /\ e = "loop" => LoopFree
    /\ kind = "event" => e = "loop"
    /\ kind = "log" => HandlerFree
    /\ AddEntry
    /\ adding' = [adding EXCEPT ![e] = [kind |-> kind, id |-> Id]]
    /\ UNCHANGED <<found, queue, socketVars, sessionVars>>

(* An event of a bridge, or an error that the dashboard's page reports.     *)
Event(e, most) == Add(e, "event", most)

(* A record within 0.1 s of the last one offered is not offered.           *)
Throttled(e) ==
    /\ found[e] = "none"
    /\ adding[e].kind = "log"
    /\ adding' = [adding EXCEPT ![e] = Nothing]
    /\ UNCHANGED <<counter, buffer, found, queue, taker>>

(* Mutant: a queue without a limit.                                        *)
NeverFull(e) == found[e] = "none" /\ found' = [found EXCEPT ![e] = "room"]
                /\ UNCHANGED <<counter, buffer, adding, queue, taker>>

(* put_nowait asks full() and then appends; the loop and the thread with   *)
(* the handler's lock may both find the last place.                        *)
AskFull(e) ==
    /\ found[e] = "none"
    /\ found' = [found EXCEPT ![e] = IF Len(queue) >= MaxQueue THEN "full" ELSE "room"]
    /\ UNCHANGED <<counter, buffer, adding, queue, taker>>

(* The task is woken if it waits; were the wake-up a step of its own, it   *)
(* would at most undo a Take and Park that came before it.                 *)
Put(e) ==
    /\ found[e] = "room"
    /\ queue' = Append(queue, adding[e])
    /\ taker' = IF taker = "parked" THEN "looking" ELSE taker
    /\ adding' = [adding EXCEPT ![e] = Nothing]
    /\ found' = [found EXCEPT ![e] = "none"]
    /\ UNCHANGED <<counter, buffer>>

(* QueueFull: dropped, with a warning that is itself a log record; the     *)
(* warning about a record comes within 0.1 s of it, so it ends there.      *)
DropFull(e) ==
    /\ found[e] = "full"
    /\ adding[e].kind = "event" => HandlerFree
    /\ AddEntry
    /\ adding' = [adding EXCEPT ![e] =
           IF @.kind = "event" THEN [kind |-> "log", id |-> Id] ELSE Nothing]
    /\ found' = [found EXCEPT ![e] = "none"]
    /\ UNCHANGED <<queue, taker>>

Offer(e) ==
    /\ adding[e] # Nothing
    /\ Throttled(e) \/ AskFull(e) \/ Put(e) \/ DropFull(e)
    /\ UNCHANGED <<conns, socket, casts, got, due, sessionVars>>

(* POST /admin/api/logs/clear, under the other of the buffer's two locks.  *)
ClearLog ==
    /\ LoopFree
    /\ buffer # <<>>
    /\ buffer' = <<>>
    /\ UNCHANGED <<counter, adding, found, queue, socketVars, sessionVars>>

-----------------------------------------------------------------------------
(* AdminConnectionManager.broadcast: to a copy of the connections.         *)

Start(c) == casts' = [casts EXCEPT ![c] = [on |-> TRUE, left |-> conns, failed |-> {}]]

(* Queue.get sees an empty queue before it leaves the future that a put    *)
(* would wake: a put from a thread in between wakes nobody.                *)
Take ==
    /\ LoopFree
    /\ taker = "looking"
    /\ \/ /\ queue = <<>>
          /\ taker' = "parking"
          /\ UNCHANGED <<queue, casts, due>>
       \/ /\ queue # <<>>
          /\ queue' = Tail(queue)
          /\ IF conns = {} THEN UNCHANGED <<taker, casts>>
                             ELSE taker' = "sending" /\ Start("feed")
          /\ due' = [k \in Sockets |->
                 IF k \in conns THEN Append(due[k], Head(queue)) ELSE due[k]]
    /\ UNCHANGED <<counter, buffer, adding, found, conns, socket, got, sessionVars>>

Park ==
    /\ taker = "parking"
    /\ taker' = "parked"
    /\ UNCHANGED <<logVars, conns, socket, casts, got, due, sessionVars>>

Direct(c) ==
    /\ LoopFree
    /\ ~casts[c].on /\ conns # {}
    /\ Start(c)
    /\ UNCHANGED <<logVars, taker, conns, socket, got, due, sessionVars>>

(* What is sent to a client that has gone raises or is lost.               *)
Send(c) ==
    /\ LoopFree
    /\ \E k \in casts[c].left :
          /\ \E fails \in IF socket[k] = "open" THEN {{}} ELSE {{}, {k}} :
                casts' = [casts EXCEPT ![c] =
                    [on |-> TRUE, left |-> casts[c].left \ {k},
                     failed |-> casts[c].failed \cup fails]]
          /\ got' = IF c = "feed" /\ socket[k] = "open"
                    THEN [got EXCEPT ![k] = Append(@, due[k][Len(due[k])])] ELSE got
    /\ UNCHANGED <<logVars, taker, conns, socket, due, sessionVars>>

EndCast(c) ==
    /\ LoopFree
    /\ casts[c].on /\ casts[c].left = {}
    /\ conns' = conns \ casts[c].failed
    /\ casts' = [casts EXCEPT ![c] = NoCast]
    /\ taker' = IF c = "feed" THEN "looking" ELSE taker
    /\ UNCHANGED <<logVars, socket, got, due, sessionVars>>

(* shutdown_broadcast: the task is cancelled, in get or in a send.         *)
ShutDown ==
    /\ LoopFree
    /\ taker # "over"
    /\ taker' = "over"
    /\ casts' = [casts EXCEPT !["feed"] = NoCast]
    /\ UNCHANGED <<logVars, conns, socket, got, due, sessionVars>>

-----------------------------------------------------------------------------
(* /admin/ws: the session is looked at when the socket connects, and never *)
(* again.                                                                  *)

Connect(k) ==
    /\ LoopFree
    /\ socket[k] = "none"
    /\ \E s \in Sessions : Valid(s)
    /\ socket' = [socket EXCEPT ![k] = "accepting"]
    /\ UNCHANGED <<logVars, taker, conns, casts, got, due, sessionVars>>

Register(k) ==
    /\ LoopFree
    /\ socket[k] = "accepting"
    /\ socket' = [socket EXCEPT ![k] = "open"]
    /\ conns' = conns \cup {k}
    /\ UNCHANGED <<logVars, taker, casts, got, due, sessionVars>>

Vanish(k) ==
    /\ socket[k] = "open"
    /\ socket' = [socket EXCEPT ![k] = "gone"]
    /\ UNCHANGED <<logVars, taker, conns, casts, got, due, sessionVars>>

Disconnect(k) ==
    /\ LoopFree
    /\ socket[k] = "gone"
    /\ socket' = [socket EXCEPT ![k] = "closed"]
    /\ conns' = conns \ {k}
    /\ UNCHANGED <<logVars, taker, casts, got, due, sessionVars>>

FeedWork(emitters, sockets, directs, most) ==
    \/ \E e \in emitters : Add(e, "log", most) \/ Event(e, most) \/ Offer(e)
    \/ ClearLog \/ Take \/ Park \/ ShutDown
    \/ \E c \in directs : Direct(c)
    \/ \E c \in directs \cup {"feed"} : Send(c) \/ EndCast(c)
    \/ \E k \in sockets : Connect(k) \/ Register(k) \/ Vanish(k) \/ Disconnect(k)

-----------------------------------------------------------------------------
Entries == [kind : {"log", "event"}, id : Nat]

FeedTypeOK ==
    /\ counter \in Nat
    /\ buffer \in Seq(1 .. counter) /\ Len(buffer) <= MaxBuffer
    /\ adding \in [Emitters -> Entries \cup {Nothing}]
    /\ found \in [Emitters -> {"none", "room", "full"}]
    /\ queue \in Seq(Entries) /\ Len(queue) <= MaxQueue + 1
    /\ taker \in {"looking", "parking", "parked", "sending", "over"}
    /\ conns \subseteq Sockets
    /\ socket \in [Sockets -> {"none", "accepting", "open", "gone", "closed"}]
    /\ casts \in [Casters -> [on : BOOLEAN, left : SUBSET Sockets, failed : SUBSET Sockets]]
    /\ got \in [Sockets -> Seq(Entries)] /\ due \in [Sockets -> Seq(Entries)]

(* All but the last of the entries.                                        *)
ButLast(entries) == SubSeq(entries, 1, Len(entries) - 1)

(* A socket that is connected has every entry broadcast since it was, but  *)
(* the one being sent; sockets that come and go, and broadcasts beside the *)
(* feed that take sockets out of the list, make it miss none.              *)
NoneMissed ==
    \A k \in Sockets :
        socket[k] = "open" =>
            \/ got[k] = due[k]
            \/ /\ k \in casts["feed"].left \/ taker = "over"
               /\ got[k] = ButLast(due[k])

(* Of each kind, the entries are in the order of their ids, none twice.    *)
Ordered(entries) ==
    \A i, j \in 1 .. Len(entries) :
        i < j /\ entries[i].kind = entries[j].kind => entries[i].id < entries[j].id

(* Each id names one entry, and of each kind a socket gets the entries in  *)
(* the order of their ids, none twice, though threads add and offer them   *)
(* in steps; between the kinds nothing is promised.                        *)
InOrder ==
    /\ \A i \in 2 .. Len(buffer) : buffer[i - 1] < buffer[i]
    /\ \A k \in Sockets : Ordered(got[k])
=============================================================================
