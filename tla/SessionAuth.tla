----------------------------- MODULE SessionAuth -----------------------------
(***************************************************************************)
(* The credentials of one tenant and the four places that hold them: the   *)
(* socket of its bridge, the auth directory, the Tenant object and the     *)
(* tenants table.  createSocket and the creds.update and connection        *)
(* handlers are those of src/bridge/index.mjs; save_auth_state,            *)
(* clear_creds, _restore_auth_to_filesystem and initialize those of        *)
(* TenantManager (src/src/tenant/__init__.py); the events are handled by   *)
(* src/src/main.py.                                                        *)
(*                                                                         *)
(* WhatsApp renews the credentials again and again, so they are numbered.  *)
(* A write to SQLite waits in one queue; a PostgreSQL pool may serve a     *)
(* later write first.  The event tasks begin in the order of the events    *)
(* and before a stop() that is still to come ends, so reading an event and *)
(* the first part of its tasks are one action.                             *)
(***************************************************************************)
EXTENDS Integers, Sequences, SequencesExt

CONSTANTS
    Newest,  \* bound on how often credentials are renewed
    Room     \* bound on events in the pipe and on writes that wait

ASSUME SessionAssumption == Newest \in Nat /\ Room \in Nat

Absent == -1  \* creds_json is None
Blank == 0    \* no creds.json, or creds_json = {"creds": None}

Credentials == Absent .. Newest
Versions == Blank .. Newest

VARIABLES
    backend,  \* "sqlite" or "postgres"
    server,   \* the Python process: "up" or "down"
    bridge,   \* the bridge: its process, socket and creds.update handlers
    dir,      \* the auth directory exists
    file,     \* creds.json
    reader,   \* the read loop of tenant.bridge: "none", "on", "off"
    pipe,     \* events nobody has read yet
    mem,      \* the Tenant object
    db,       \* its row in the tenants table
    writes,   \* database writes under way, oldest first
    issued,   \* the last credentials WhatsApp has issued
    revoked,  \* credentials up to this number are logged out
    late,     \* a write to the pool has overtaken an older one
    cut       \* an event or a write was lost since the last logout

vars == <<backend, server, bridge, dir, file, reader, pipe, mem, db, writes,
          issued, revoked, late, cut>>

python == <<mem, db, writes, late>>
disk == <<dir, file>>

NoProcess == [at |-> "off", creds |-> Blank, unsaved |-> FALSE, unsent |-> FALSE]

Row == [creds : Credentials, auth : BOOLEAN]
NoRow == [creds |-> Absent, auth |-> FALSE]

Event(kind, v) == [kind |-> kind, creds |-> v]
Events == [kind : {"auth.update", "connected", "loggedOut"}, creds : Versions]
Writes == [kind : {"save", "clear", "connected", "loggedOut"}, creds : Credentials]

TypeOK ==
    /\ backend \in {"sqlite", "postgres"}
    /\ server \in {"up", "down"}
    /\ bridge \in [at : {"off", "booted", "open", "closed"}, creds : Versions,
                   unsaved : BOOLEAN, unsent : BOOLEAN]
    /\ dir \in BOOLEAN
    /\ file \in Versions
    /\ reader \in {"none", "on", "off"}
    /\ pipe \in Seq(Events)
    /\ mem \in Row
    /\ db \in Row
    /\ writes \in Seq(Writes)
    /\ issued \in Versions
    /\ revoked \in Versions
    /\ late \in BOOLEAN
    /\ cut \in BOOLEAN

Init ==
    /\ backend \in {"sqlite", "postgres"}
    /\ server = "up"
    /\ bridge = NoProcess
    /\ dir = FALSE
    /\ file = Blank
    /\ reader = "none"
    /\ pipe = <<>>
    /\ mem = NoRow
    /\ db = NoRow
    /\ writes = <<>>
    /\ issued = Blank
    /\ revoked = Blank
    /\ late = FALSE
    /\ cut = FALSE

-----------------------------------------------------------------------------
(* The bridge.  An event that nobody will read any more is lost.           *)
CanSend == reader # "on" \/ Len(pipe) < Room

Sends(kind, v) ==
    /\ CanSend
    /\ pipe' = IF reader = "on" THEN Append(pipe, Event(kind, v)) ELSE pipe
    /\ cut' = (cut \/ reader # "on")

(* Its death loses the credentials it has not saved or not reported.       *)
Exits ==
    /\ bridge' = NoProcess
    /\ cut' = (cut \/ bridge.unsaved \/ bridge.unsent)

(* createSocket reads what the auth directory holds, or makes new keys.    *)
Open ==
    /\ bridge.at \in {"booted", "closed"}
    /\ ~bridge.unsaved /\ ~bridge.unsent
    /\ bridge' = [at |-> "open", creds |-> file, unsaved |-> FALSE, unsent |-> FALSE]
    /\ dir' = TRUE
    /\ UNCHANGED <<backend, server, file, reader, pipe, python, issued, revoked, cut>>

(* New credentials: by pairing, whose code passes through the pipe behind   *)
(* the event of a logout, or in the course of a session.                   *)
Renew ==
    /\ bridge.at = "open"
    /\ bridge.creds = Blank =>
           reader = "on" /\ \A i \in 1 .. Len(pipe) : pipe[i].kind # "loggedOut"
    /\ bridge.creds # Blank => bridge.creds > revoked
    /\ issued < Newest
    /\ issued' = issued + 1
    /\ bridge' = [at |-> "open", creds |-> issued + 1, unsaved |-> TRUE,
                   unsent |-> bridge.unsent]
    /\ UNCHANGED <<backend, server, disk, reader, pipe, python, revoked, cut>>

(* saveCreds; writing into a directory that is gone rejects a promise that  *)
(* nobody handles, and Node ends.                                          *)
SaveCreds ==
    /\ bridge.unsaved
    /\ IF dir
       THEN /\ file' = bridge.creds
            /\ bridge' = [at |-> bridge.at, creds |-> bridge.creds, unsaved |-> FALSE,
                           unsent |-> TRUE]
            /\ cut' = cut
       ELSE Exits /\ file' = file
    /\ UNCHANGED <<backend, server, dir, reader, pipe, python, issued, revoked>>

\* Mutant: the credentials are reported before they are saved.
ReportUnsaved ==
    /\ bridge.unsaved \/ bridge.unsent
    /\ bridge' = [bridge EXCEPT !.unsent = FALSE]
    /\ Sends("auth.update", bridge.creds)
    /\ UNCHANGED <<backend, server, disk, reader, python, issued, revoked>>

\* Mutant: the socket's credentials are reported instead of the file's.
ReportSocket ==
    /\ bridge.unsent
    /\ bridge' = [bridge EXCEPT !.unsent = FALSE]
    /\ Sends("auth.update", bridge.creds)
    /\ UNCHANGED <<backend, server, disk, reader, python, issued, revoked>>

(* exportAuthState reads the file back, which a logout may have removed.   *)
Report ==
    /\ bridge.unsent
    /\ bridge' = [bridge EXCEPT !.unsent = FALSE]
    /\ Sends("auth.update", file)
    /\ UNCHANGED <<backend, server, disk, reader, python, issued, revoked>>

Connected ==
    /\ bridge.at = "open" /\ bridge.creds > revoked
    /\ Sends("connected", Blank)
    /\ UNCHANGED <<backend, server, bridge, disk, reader, python, issued, revoked>>

(* WhatsApp ends the session, or refuses credentials it has ended before.   *)
LoggedOut ==
    /\ bridge.at = "open" /\ bridge.creds # Blank
    /\ Sends("loggedOut", Blank)
    /\ revoked' = IF bridge.creds > revoked THEN bridge.creds ELSE revoked
    /\ bridge' = [bridge EXCEPT !.at = "closed"]
    /\ dir' = FALSE
    /\ file' = Blank
    /\ UNCHANGED <<backend, server, reader, python, issued>>

BridgeExits ==
    /\ bridge.at # "off"
    /\ Exits
    /\ UNCHANGED <<backend, server, disk, reader, pipe, python, issued, revoked>>

-----------------------------------------------------------------------------
(* The server.                                                             *)
Queue(new) ==
    /\ Len(writes) + Len(new) <= Room
    /\ writes' = writes \o new

Write(kind, v) == [kind |-> kind, creds |-> v]

HandleAuthUpdate(e) ==
    /\ e.kind = "auth.update"
    /\ mem' = [creds |-> e.creds, auth |-> TRUE]
    /\ Queue(<<Write("save", e.creds)>>)
    /\ UNCHANGED <<disk, cut>>

HandleConnected(e) ==
    /\ e.kind = "connected"
    /\ mem' = [creds |-> mem.creds, auth |-> TRUE]
    /\ Queue(<<Write("connected", Absent)>>)
    /\ UNCHANGED <<disk, cut>>

Forget ==
    /\ mem' = NoRow
    /\ dir' = FALSE
    /\ file' = Blank
    /\ cut' = FALSE

(* update_session_state and clear_creds.                                   *)
HandleLoggedOut(e) ==
    /\ e.kind = "loggedOut"
    /\ Forget
    /\ Queue(<<Write("loggedOut", Absent), Write("clear", Absent)>>)

Handle ==
    /\ server = "up" /\ reader = "on" /\ pipe # <<>>
    /\ pipe' = Tail(pipe)
    /\ LET e == Head(pipe)
       IN HandleAuthUpdate(e) \/ HandleConnected(e) \/ HandleLoggedOut(e)
    /\ UNCHANGED <<backend, server, bridge, reader, db, issued, revoked, late>>

\* Mutant: clear_creds leaves has_auth to update_session_state.
AppliedHalf(w) ==
    CASE w.kind = "save" -> [creds |-> w.creds, auth |-> TRUE]
      [] w.kind = "clear" -> [creds |-> Absent, auth |-> db.auth]
      [] w.kind = "connected" -> [creds |-> db.creds, auth |-> TRUE]
      [] w.kind = "loggedOut" -> [creds |-> db.creds, auth |-> db.auth /\ backend = "sqlite"]

(* On SQLite update_session_state never writes has_auth = 0.               *)
Applied(w) ==
    CASE w.kind = "save" -> [creds |-> w.creds, auth |-> TRUE]
      [] w.kind = "clear" -> NoRow
      [] w.kind = "connected" -> [creds |-> db.creds, auth |-> TRUE]
      [] w.kind = "loggedOut" -> [creds |-> db.creds, auth |-> db.auth /\ backend = "sqlite"]

WriteDone(i) ==
    /\ server = "up"
    /\ backend = "sqlite" => i = 1
    /\ db' = Applied(writes[i])
    /\ writes' = RemoveAt(writes, i)
    /\ late' = (late \/ i > 1)
    /\ UNCHANGED <<backend, server, bridge, disk, reader, pipe, mem, issued, revoked, cut>>

(* stop() drops what is in the pipe and lets the process go on until it has *)
(* been told to end.                                                       *)
Stop ==
    /\ server = "up" /\ reader = "on"
    /\ reader' = "off"
    /\ pipe' = <<>>
    /\ cut' = (cut \/ pipe # <<>>)
    /\ UNCHANGED <<backend, server, bridge, disk, python, issued, revoked>>

StopDone ==
    /\ reader = "off"
    /\ reader' = "none"
    /\ Exits
    /\ UNCHANGED <<backend, server, disk, pipe, python, issued, revoked>>

\* Mutant: no credentials are restored as if they were some.
RestoresNone(v) ==
    /\ file' = v
    /\ dir' = TRUE

(* get_auth_dir and _restore_auth_to_filesystem.                           *)
Restores(v) ==
    /\ file' = IF v = Absent THEN file ELSE v
    /\ dir' = TRUE

Boots ==
    /\ server = "up" /\ reader = "none"
    /\ reader' = "on"
    /\ bridge' = [NoProcess EXCEPT !.at = "booted"]
    /\ UNCHANGED <<backend, server, pipe, python, issued, revoked, cut>>

\* Mutant: the credentials are restored from the database.
StartFromDatabase ==
    /\ Boots
    /\ Restores(db.creds)

(* get_or_create_bridge, also for restore_sessions: the directory gets the  *)
(* credentials of the Tenant object.                                       *)
Start ==
    /\ Boots
    /\ Restores(mem.creds)

(* _restart_bridge: the directory stays as it is.                          *)
Restart ==
    /\ mem.auth \/ mem.creds # Absent
    /\ Boots
    /\ Restores(Absent)

(* clear_tenant_credentials, after stop().                                 *)
Clear ==
    /\ server = "up" /\ reader = "none"
    /\ Forget
    /\ Queue(<<Write("clear", Absent)>>)
    /\ UNCHANGED <<backend, server, bridge, reader, pipe, db, issued, revoked, late>>

(* The server dies with all it has not written; its end of the pipes closes *)
(* and the bridge ends.                                                    *)
Crash ==
    /\ server = "up"
    /\ server' = "down"
    /\ bridge' = NoProcess
    /\ reader' = "none"
    /\ pipe' = <<>>
    /\ writes' = <<>>
    /\ cut' = (cut \/ bridge.unsaved \/ bridge.unsent \/ pipe # <<>> \/ writes # <<>>)
    /\ UNCHANGED <<backend, disk, mem, db, issued, revoked, late>>

(* initialize, and restore_sessions up to the start of the bridge.         *)
Initialize ==
    /\ server = "down"
    /\ server' = "up"
    /\ mem' = db
    /\ IF db.creds = Absent THEN UNCHANGED disk ELSE Restores(db.creds)
    /\ UNCHANGED <<backend, bridge, reader, pipe, db, writes, issued, revoked, late, cut>>

-----------------------------------------------------------------------------
Next ==
    \/ Open \/ Renew \/ SaveCreds \/ Report \/ Connected \/ LoggedOut \/ BridgeExits
    \/ Handle \/ \E i \in DOMAIN writes : WriteDone(i)
    \/ Stop \/ StopDone \/ Start \/ Restart \/ Clear
    \/ Crash \/ Initialize

Spec == Init /\ [][Next]_vars

-----------------------------------------------------------------------------
(* Once nothing is being written, the row in the database says what the     *)
(* Tenant object says, so that a restart of the server changes nothing:    *)
(* whatever events came, unless the pool has served a later write first.   *)
RowAgrees == server = "up" /\ writes = <<>> /\ ~late => mem = db

(* A socket is never opened with older credentials than the server has      *)
(* been told of, unless these are logged out: the file is written before   *)
(* the event is sent, and a restart finds it.                              *)
OpensWithKnown ==
    [][Open => file >= mem.creds \/ mem.creds <= revoked]_vars

(* Credentials that WhatsApp has ended do not stay in the Tenant object:    *)
(* the event of the logout is on its way behind them, or was lost with a   *)
(* bridge or a server.                                                     *)
EndedForgotten ==
    mem.creds \in 1 .. revoked /\ server = "up" =>
        \/ cut
        \/ late
        \/ \E i \in 1 .. Len(pipe) : pipe[i].kind = "loggedOut"

(* The server puts older credentials over newer ones, when it starts a      *)
(* bridge or starts itself, only after it has lost an event or a write     *)
(* that reported the newer ones: a copy in memory or in the database is    *)
(* otherwise as new as the file, whatever came before.                     *)
RestoresNewest ==
    [][Start \/ Initialize => file' >= file \/ file <= revoked \/ cut \/ late]_vars
=============================================================================
