-------------------------- MODULE SessionAuthProofs --------------------------
(***************************************************************************)
(* SessionAuth, for any number of renewals and any room in the pipe: the   *)
(* row in the database, the Tenant object and the file agree as far as the *)
(* code lets them.                                                         *)
(***************************************************************************)
EXTENDS SessionAuth, SequenceTheorems, TLAPS

(* Applied, as a function of the row.                                      *)
Effect(w, row) ==
    CASE w.kind = "save" -> [creds |-> w.creds, auth |-> TRUE]
      [] w.kind = "clear" -> NoRow
      [] w.kind = "connected" -> [creds |-> row.creds, auth |-> TRUE]
      [] w.kind = "loggedOut" -> [creds |-> row.creds,
                                  auth |-> row.auth /\ backend = "sqlite"]

(***************************************************************************)
(* The inductive invariant.                                                *)
(***************************************************************************)
(* The writes under way, one after the other, turn the row into the Tenant *)
(* object: val[i] is the row after the first i of them.                    *)
Replay(val) ==
    /\ val \in [0 .. Len(writes) -> Row]
    /\ val[0] = db /\ val[Len(writes)] = mem
    /\ \A i \in 1 .. Len(writes) : val[i] = Effect(writes[i], val[i - 1])
Replayed == server = "up" /\ ~late => \E val : Replay(val)

(* Nothing is under way without a server, and nothing read without a       *)
(* reader; a process that runs has one, or had.                            *)
Idle ==
    /\ server = "down" => writes = <<>> /\ reader = "none"
    /\ reader # "on" => pipe = <<>>
    /\ reader = "none" => bridge = NoProcess

(* Nothing is newer than the last credentials WhatsApp has issued.         *)
Issued ==
    /\ revoked <= issued /\ file <= issued /\ bridge.creds <= issued
    /\ mem.creds <= issued /\ db.creds <= issued
    /\ \A i \in 1 .. Len(pipe) : pipe[i].creds <= issued
    /\ \A i \in 1 .. Len(writes) : writes[i].creds <= issued

(* What a running session has not saved is valid, and so is what it has    *)
(* saved and not reported; the file is not ahead of the socket.            *)
Saving ==
    /\ bridge.unsaved /\ dir => bridge.at = "open" /\ bridge.creds > revoked
    /\ bridge.unsent => file = Blank \/ file > revoked
    /\ bridge.at = "open" => file <= bridge.creds

Update(i) == pipe[i].kind = "auth.update"
Logout(i) == pipe[i].kind = "loggedOut"
Places == 1 .. Len(pipe)

(* The event of a logout comes behind every event with the credentials it  *)
(* ends, and until it is read there are no valid ones.                     *)
LogoutBehind ==
    /\ \A i \in Places : Update(i) /\ pipe[i].creds \in 1 .. revoked =>
          \E k \in Places : k > i /\ Logout(k)
    /\ (\E k \in Places : Logout(k)) =>
          /\ file = Blank /\ bridge.creds <= revoked
          /\ \A i \in Places : Update(i) => pipe[i].creds <= revoked

(* The file is as new as all that was reported and is not logged out.      *)
FileFirst ==
    /\ \A i \in Places : Update(i) => pipe[i].creds <= file \/ pipe[i].creds <= revoked
    /\ mem.creds <= file \/ mem.creds <= revoked

(* The file is reported, is about to be, or is known, unless something was *)
(* lost; without a server the row knows it.                                *)
Reported ==
    ~cut /\ ~late =>
        IF server = "up"
        THEN \/ file <= revoked \/ bridge.unsent
             \/ \E i \in Places : /\ Update(i) /\ pipe[i].creds >= file
                                  /\ \A k \in Places : k > i => ~Update(k)
             \/ mem.creds >= file /\ \A i \in Places : ~Update(i)
        ELSE /\ file <= revoked \/ db.creds >= file
             /\ db.creds \notin 1 .. revoked

SessionInv ==
    /\ TypeOK /\ Replayed /\ Idle /\ Issued /\ Saving /\ LogoutBehind /\ FileFirst
    /\ Reported /\ EndedForgotten

-----------------------------------------------------------------------------
(***************************************************************************)
(* Sequences.                                                              *)
(***************************************************************************)
LEMMA Appended ==
    ASSUME NEW S, NEW s \in Seq(S), NEW e \in S, NEW t, t = Append(s, e)
    PROVE  /\ t \in Seq(S) /\ Len(t) = Len(s) + 1 /\ Len(s) \in Nat
           /\ t[Len(s) + 1] = e /\ \A i \in 1 .. Len(s) : t[i] = s[i]
OBVIOUS

LEMMA Tailed ==
    ASSUME NEW S, NEW s \in Seq(S), s # <<>>, NEW t, t = Tail(s)
    PROVE  /\ t \in Seq(S) /\ Len(s) \in Nat \ {0} /\ Len(t) = Len(s) - 1
           /\ Head(s) = s[1] /\ s[1] \in S
           /\ \A i \in 1 .. Len(s) - 1 : t[i] = s[i + 1]
OBVIOUS

LEMMA Removed ==
    ASSUME NEW S, NEW s \in Seq(S), NEW i \in 1 .. Len(s)
    PROVE  /\ RemoveAt(s, i) \in Seq(S) /\ Len(RemoveAt(s, i)) = Len(s) - 1
           /\ i = 1 => \A k \in 1 .. Len(s) - 1 : RemoveAt(s, i)[k] = s[k + 1]
<1>. DEFINE before == SubSeq(s, 1, i - 1)
            after == SubSeq(s, i + 1, Len(s))
<1>1. RemoveAt(s, i) = before \o after
  BY DEF RemoveAt
<1>2. /\ before \in Seq(S) /\ Len(before) = i - 1
      /\ \A k \in 1 .. i - 1 : before[k] = s[k]
  BY SubSeqProperties
<1>3. /\ after \in Seq(S) /\ Len(after) = Len(s) - i
      /\ \A k \in 1 .. Len(s) - i : after[k] = s[i + k]
  BY SubSeqProperties
<1>4. Len(s) \in Nat
  OBVIOUS
<1>. HIDE DEF before, after
<1>5. /\ before \o after \in Seq(S) /\ Len(before \o after) = Len(s) - 1
      /\ \A k \in 1 .. Len(s) - 1 :
            (before \o after)[k] = IF k <= i - 1 THEN before[k] ELSE after[k - (i - 1)]
  <2>1. /\ before \o after \in Seq(S) /\ Len(before \o after) = Len(before) + Len(after)
        /\ \A k \in 1 .. Len(before) + Len(after) :
              (before \o after)[k] = IF k <= Len(before) THEN before[k]
                                                         ELSE after[k - Len(before)]
    BY <1>2, <1>3, ConcatProperties
  <2>2. Len(before) + Len(after) = Len(s) - 1
    BY <1>2, <1>3, <1>4
  <2>. QED  BY <1>2, <2>1, <2>2
<1>6. \A k \in 1 .. Len(s) - 1 : (before \o after)[k] = IF k <= i - 1 THEN s[k] ELSE s[k + 1]
  <2>. SUFFICES ASSUME NEW k \in 1 .. Len(s) - 1
                PROVE  (before \o after)[k] = IF k <= i - 1 THEN s[k] ELSE s[k + 1]
    OBVIOUS
  <2>1. CASE k <= i - 1
    BY <1>2, <1>4, <1>5, <2>1
  <2>2. CASE ~(k <= i - 1)
    <3>1. k - (i - 1) \in 1 .. Len(s) - i /\ i + (k - (i - 1)) = k + 1
      BY <1>4, <2>2
    <3>2. after[k - (i - 1)] = s[k + 1]
      BY <1>3, <3>1
    <3>. QED  BY <1>5, <2>2, <3>2
  <2>. QED  BY <2>1, <2>2
<1>7. /\ RemoveAt(s, i) \in Seq(S) /\ Len(RemoveAt(s, i)) = Len(s) - 1
      /\ \A k \in 1 .. Len(s) - 1 :
            RemoveAt(s, i)[k] = IF k <= i - 1 THEN s[k] ELSE s[k + 1]
  BY <1>1, <1>5, <1>6
<1>. HIDE DEF RemoveAt
<1>. QED  BY <1>4, <1>7

(* One write is queued, or two.                                            *)
LEMMA QueueOne ==
    ASSUME writes \in Seq(Writes), NEW w \in Writes, Queue(<<w>>)
    PROVE  /\ writes' \in Seq(Writes) /\ Len(writes') = Len(writes) + 1
           /\ writes'[Len(writes) + 1] = w
           /\ \A i \in 1 .. Len(writes) : writes'[i] = writes[i]
BY DEF Queue

LEMMA QueueTwo ==
    ASSUME writes \in Seq(Writes), NEW w \in Writes, NEW x \in Writes, Queue(<<w, x>>)
    PROVE  /\ writes' \in Seq(Writes) /\ Len(writes') = Len(writes) + 2
           /\ writes'[Len(writes) + 1] = w /\ writes'[Len(writes) + 2] = x
           /\ \A i \in 1 .. Len(writes) : writes'[i] = writes[i]
BY DEF Queue

LEMMA WriteTypes ==
    /\ \A v \in Versions : Write("save", v) \in Writes /\ Event("auth.update", v) \in Events
    /\ Write("connected", Absent) \in Writes /\ Write("loggedOut", Absent) \in Writes
    /\ Write("clear", Absent) \in Writes
    /\ Event("connected", Blank) \in Events /\ Event("loggedOut", Blank) \in Events
BY SessionAssumption
   DEF Write, Writes, Versions, Credentials, Absent, Blank, Event, Events

(* An event goes into the pipe, or is lost.                                *)
LEMMA SendsStep ==
    ASSUME pipe \in Seq(Events), cut \in BOOLEAN, Idle, NEW kind, NEW v, Sends(kind, v),
           Event(kind, v) \in Events
    PROVE  /\ pipe' \in Seq(Events) /\ cut' \in BOOLEAN
           /\ reader = "on" => /\ Len(pipe') = Len(pipe) + 1 /\ cut' = cut
                               /\ pipe'[Len(pipe) + 1] = Event(kind, v)
                               /\ \A i \in 1 .. Len(pipe) : pipe'[i] = pipe[i]
           /\ reader # "on" => pipe' = <<>> /\ pipe = <<>> /\ cut' = TRUE
<1>1. CASE reader = "on"
  <2>1. pipe' = Append(pipe, Event(kind, v)) /\ cut' = cut
    BY <1>1 DEF Sends
  <2>. QED  BY <1>1, <2>1, Appended
<1>2. CASE reader # "on"
  BY <1>2 DEF Sends, Idle
<1>. QED  BY <1>1, <1>2

-----------------------------------------------------------------------------
(***************************************************************************)
(* The database.                                                           *)
(***************************************************************************)
LEMMA EffectType ==
    ASSUME NEW w \in Writes, NEW row \in Row
    PROVE  Effect(w, row) \in Row
<1>1. w.kind \in {"save", "clear", "connected", "loggedOut"} /\ w.creds \in Credentials
  BY DEF Writes
<1>2. row.creds \in Credentials /\ row.auth \in BOOLEAN /\ Absent \in Credentials
  BY SessionAssumption DEF Row, Credentials, Absent
<1>. QED  BY <1>1, <1>2 DEF Effect, Row, NoRow

LEMMA AppliedEffect == ASSUME NEW w PROVE Applied(w) = Effect(w, db)
BY DEF Applied, Effect

(* A write that is queued when the Tenant object changes in the same way.  *)
LEMMA ReplayQueues ==
    ASSUME TypeOK, NEW val, Replay(val), db' = db, backend' = backend,
           NEW w \in Writes, Queue(<<w>>), mem' = Effect(w, mem)
    PROVE  \E new : Replay(new)'
<1>. DEFINE n == Len(writes)
<1>0. PICK new : new = [i \in 0 .. n + 1 |-> IF i <= n THEN val[i] ELSE mem']
  OBVIOUS
<1>1. writes \in Seq(Writes) /\ n \in Nat
  BY DEF TypeOK
<1>2. /\ Len(writes') = n + 1 /\ writes'[n + 1] = w
      /\ \A i \in 1 .. n : writes'[i] = writes[i]
  BY <1>1, QueueOne
<1>3. mem' \in Row
  BY EffectType DEF TypeOK
<1>4. /\ new \in [0 .. Len(writes') -> Row] /\ new[0] = db /\ new[n + 1] = mem'
      /\ \A i \in 0 .. n : new[i] = val[i]
  BY <1>0, <1>1, <1>2, <1>3 DEF Replay
<1>5. val[n] = mem /\ \A i \in 1 .. n : val[i] = Effect(writes[i], val[i - 1])
  BY DEF Replay
<1>6. ASSUME NEW i \in 1 .. n + 1
      PROVE  new[i] = Effect(writes'[i], new[i - 1])
  <2>1. CASE i = n + 1
    BY <1>1, <1>2, <1>4, <1>5, <2>1
  <2>2. CASE i # n + 1
    <3>1. i \in 1 .. n /\ i - 1 \in 0 .. n /\ i \in 0 .. n
      BY <1>1, <2>2
    <3>. QED  BY <1>2, <1>4, <1>5, <3>1
  <2>. QED  BY <2>1, <2>2
<1>7. Replay(new)'
  BY <1>1, <1>2, <1>4, <1>6 DEF Replay, Effect
<1>. QED  BY <1>7

(* Two writes, after which the Tenant object has nothing.                  *)
LEMMA ReplayForgets ==
    ASSUME TypeOK, NEW val, Replay(val), db' = db, backend' = backend,
           NEW w \in Writes, NEW x \in Writes, x.kind = "clear", Queue(<<w, x>>),
           mem' = NoRow
    PROVE  \E new : Replay(new)'
<1>. DEFINE n == Len(writes)
<1>0. PICK new : new = [i \in 0 .. n + 2 |-> IF i <= n THEN val[i]
                                             ELSE IF i = n + 1 THEN Effect(w, mem)
                                             ELSE NoRow]
  OBVIOUS
<1>1. writes \in Seq(Writes) /\ n \in Nat
  BY DEF TypeOK
<1>2. /\ Len(writes') = n + 2 /\ writes'[n + 1] = w /\ writes'[n + 2] = x
      /\ \A i \in 1 .. n : writes'[i] = writes[i]
  BY <1>1, QueueTwo
<1>3. Effect(w, mem) \in Row /\ NoRow \in Row /\ \A row : Effect(x, row) = NoRow
  <2>1. Effect(w, mem) \in Row
    BY EffectType DEF TypeOK
  <2>2. NoRow \in Row
    BY SessionAssumption DEF NoRow, Row, Credentials, Absent
  <2>3. \A row : Effect(x, row) = NoRow
    BY DEF Effect
  <2>. QED  BY <2>1, <2>2, <2>3
<1>4. /\ new \in [0 .. Len(writes') -> Row] /\ new[0] = db
      /\ new[n + 1] = Effect(w, mem) /\ new[n + 2] = NoRow
      /\ \A i \in 0 .. n : new[i] = val[i]
  BY <1>0, <1>1, <1>2, <1>3 DEF Replay
<1>5. val[n] = mem /\ \A i \in 1 .. n : val[i] = Effect(writes[i], val[i - 1])
  BY DEF Replay
<1>6. ASSUME NEW i \in 1 .. n + 2
      PROVE  new[i] = Effect(writes'[i], new[i - 1])
  <2>1. CASE i = n + 1
    BY <1>1, <1>2, <1>4, <1>5, <2>1
  <2>2. CASE i = n + 2
    BY <1>1, <1>2, <1>3, <1>4, <2>2
  <2>3. CASE i # n + 1 /\ i # n + 2
    <3>1. i \in 1 .. n /\ i - 1 \in 0 .. n /\ i \in 0 .. n
      BY <1>1, <2>3
    <3>. QED  BY <1>2, <1>4, <1>5, <3>1
  <2>. QED  BY <2>1, <2>2, <2>3
<1>7. Replay(new)'
  BY <1>1, <1>2, <1>4, <1>6 DEF Replay, Effect
<1>. QED  BY <1>7

(* The oldest write is done.                                               *)
LEMMA ReplayWritten ==
    ASSUME TypeOK, NEW val, Replay(val), WriteDone(1), 1 \in 1 .. Len(writes)
    PROVE  \E new : Replay(new)'
<1>. DEFINE n == Len(writes)
<1>0. PICK new : new = [i \in 0 .. n - 1 |-> val[i + 1]]
  OBVIOUS
<1>1. writes \in Seq(Writes) /\ n \in Nat \ {0} /\ writes[1] \in Writes
  BY DEF TypeOK
<1>2. /\ Len(writes') = n - 1
      /\ \A i \in 1 .. n - 1 : writes'[i] = writes[i + 1]
  BY <1>1, Removed DEF WriteDone
<1>3. /\ mem' = mem /\ backend' = backend /\ db' = Effect(writes[1], db)
  BY AppliedEffect DEF WriteDone
<1>4. /\ val \in [0 .. n -> Row] /\ val[0] = db /\ val[n] = mem
      /\ \A i \in 1 .. n : val[i] = Effect(writes[i], val[i - 1])
  BY DEF Replay
<1>5. /\ new \in [0 .. Len(writes') -> Row] /\ new[0] = db' /\ new[n - 1] = mem
      /\ \A i \in 0 .. n - 1 : new[i] = val[i + 1]
  <2>1. val[1] = db'
    BY <1>1, <1>3, <1>4
  <2>. QED  BY <1>0, <1>1, <1>2, <1>4, <2>1
<1>6. ASSUME NEW i \in 1 .. n - 1
      PROVE  new[i] = Effect(writes'[i], new[i - 1])
  <2>1. i + 1 \in 1 .. n /\ i \in 0 .. n - 1 /\ i - 1 \in 0 .. n - 1 /\ (i + 1) - 1 = i
        /\ (i - 1) + 1 = i
    BY <1>1
  <2>2. val[i + 1] = Effect(writes[i + 1], val[i])
    BY <1>4, <2>1
  <2>. QED  BY <1>2, <1>5, <2>1, <2>2
<1>7. Replay(new)'
  BY <1>1, <1>2, <1>3, <1>5, <1>6 DEF Replay, Effect
<1>. QED  BY <1>7

LEMMA ReplayStays ==
    ASSUME Replayed, UNCHANGED <<backend, mem, db, writes, late>>,
           server' = "up" => server = "up"
    PROVE  Replayed'
<1>. SUFFICES ASSUME server = "up", ~late, NEW val, Replay(val)
              PROVE  Replay(val)'
  BY DEF Replayed
<1>. QED  BY DEF Replay, Effect

LEMMA ReplayEmpty ==
    ASSUME NEW row \in Row, mem' = row, db' = row, writes' = <<>>
    PROVE  Replayed'
<1>0. PICK new : new = [i \in 0 .. 0 |-> row]
  OBVIOUS
<1>1. new \in [0 .. Len(writes') -> Row] /\ new[0] = row /\ Len(writes') = 0
  BY <1>0
<1>2. Replay(new)'
  BY <1>1 DEF Replay
<1>. QED  BY <1>2 DEF Replayed

LEMMA ReplayedStep == TypeOK /\ Idle /\ Replayed /\ [Next]_vars => Replayed'
<1>. SUFFICES ASSUME TypeOK, Idle, Replayed, [Next]_vars PROVE Replayed'
  OBVIOUS
<1>1. ASSUME UNCHANGED <<server, backend, python>> PROVE Replayed'
  BY <1>1, ReplayStays DEF python
<1>2. CASE Open \/ Renew \/ SaveCreds \/ Report \/ Connected \/ LoggedOut \/ BridgeExits
  BY <1>1, <1>2 DEF Open, Renew, SaveCreds, Report, Connected, LoggedOut, BridgeExits
<1>3. CASE Stop \/ StopDone \/ Start \/ Restart
  BY <1>1, <1>3 DEF Stop, StopDone, Start, Restart, Boots
<1>4. CASE Handle
  <2>1. /\ server = "up" /\ UNCHANGED <<backend, server, db, late>>
        /\ pipe \in Seq(Events) /\ pipe # <<>>
    BY <1>4 DEF Handle, TypeOK
  <2>. DEFINE e == Head(pipe)
  <2>2. e \in Events
    BY <2>1
  <2>3. e.kind \in {"auth.update", "connected", "loggedOut"} /\ e.creds \in Versions
    BY <2>2 DEF Events
  <2>4. HandleAuthUpdate(e) \/ HandleConnected(e) \/ HandleLoggedOut(e)
    BY <1>4 DEF Handle
  <2>. HIDE DEF e
  <2>. SUFFICES ASSUME ~late, NEW val, Replay(val)
                PROVE  \E new : Replay(new)'
    BY <2>1 DEF Replayed
  <2>5. CASE HandleAuthUpdate(e)
    <3>1. /\ Queue(<<Write("save", e.creds)>>) /\ Write("save", e.creds) \in Writes
          /\ mem' = [creds |-> e.creds, auth |-> TRUE]
      BY <2>3, <2>5, WriteTypes DEF HandleAuthUpdate
    <3>2. mem' = Effect(Write("save", e.creds), mem)
      BY <3>1 DEF Effect, Write
    <3>. QED  BY <2>1, <3>1, <3>2, ReplayQueues
  <2>6. CASE HandleConnected(e)
    <3>1. /\ Queue(<<Write("connected", Absent)>>) /\ Write("connected", Absent) \in Writes
          /\ mem' = [creds |-> mem.creds, auth |-> TRUE]
      BY <2>6, WriteTypes DEF HandleConnected
    <3>2. mem' = Effect(Write("connected", Absent), mem)
      BY <3>1 DEF Effect, Write
    <3>. QED  BY <2>1, <3>1, <3>2, ReplayQueues
  <2>7. CASE HandleLoggedOut(e)
    <3>1. /\ Queue(<<Write("loggedOut", Absent), Write("clear", Absent)>>)
          /\ Write("loggedOut", Absent) \in Writes /\ Write("clear", Absent) \in Writes
          /\ mem' = NoRow
      BY <2>7, WriteTypes DEF HandleLoggedOut, Forget
    <3>2. Write("clear", Absent).kind = "clear"
      BY DEF Write
    <3>. QED  BY <2>1, <3>1, <3>2, ReplayForgets
  <2>. QED  BY <2>4, <2>5, <2>6, <2>7
<1>5. ASSUME NEW i \in DOMAIN writes, WriteDone(i) PROVE Replayed'
  <2>1. /\ i \in 1 .. Len(writes) /\ Len(writes) \in Nat
        /\ server = "up" /\ server' = "up" /\ late' = (late \/ i > 1) /\ late \in BOOLEAN
    BY <1>5 DEF WriteDone, TypeOK
  <2>2. CASE i = 1 /\ ~late
    <3>. PICK val : Replay(val)
      BY <2>1, <2>2 DEF Replayed
    <3>. QED  BY <1>5, <2>1, <2>2, ReplayWritten DEF Replayed
  <2>3. CASE i # 1 \/ late
    <3>1. i > 1 \/ late
      BY <2>1, <2>3
    <3>2. late'
      BY <2>1, <3>1, Zenon
    <3>. QED  BY <3>2 DEF Replayed
  <2>. QED  BY <2>2, <2>3
<1>6. CASE Clear
  <2>1. /\ server = "up" /\ UNCHANGED <<backend, server, db, late>>
        /\ Queue(<<Write("clear", Absent)>>) /\ mem' = NoRow
    BY <1>6 DEF Clear, Forget
  <2>2. Write("clear", Absent) \in Writes /\ mem' = Effect(Write("clear", Absent), mem)
    BY <2>1, WriteTypes DEF Effect, Write
  <2>. SUFFICES ASSUME ~late, NEW val, Replay(val)
                PROVE  \E new : Replay(new)'
    BY <2>1 DEF Replayed
  <2>. QED  BY <2>1, <2>2, ReplayQueues
<1>7. CASE Crash
  BY <1>7 DEF Crash, Replayed
<1>8. CASE Initialize
  <2>1. db \in Row /\ mem' = db /\ db' = db /\ writes' = <<>>
    BY <1>8 DEF Initialize, TypeOK, Idle
  <2>2. PICK row \in Row : row = db
    BY <2>1
  <2>3. mem' = row /\ db' = row /\ writes' = <<>>
    BY <2>1, <2>2
  <2>. QED  BY <2>3, ReplayEmpty
<1>9. CASE UNCHANGED vars
  BY <1>1, <1>9 DEF vars, python
<1>. QED  BY <1>2, <1>3, <1>4, <1>5, <1>6, <1>7, <1>8, <1>9 DEF Next

-----------------------------------------------------------------------------
(***************************************************************************)
(* Types.                                                                  *)
(***************************************************************************)
Bridges == [at : {"off", "booted", "open", "closed"}, creds : Versions,
            unsaved : BOOLEAN, unsent : BOOLEAN]

LEMMA Numbers ==
    /\ Versions = 0 .. Newest /\ Credentials = -1 .. Newest /\ Newest \in Nat
    /\ Blank = 0 /\ Absent = -1
BY SessionAssumption DEF Versions, Credentials, Blank, Absent

LEMMA ExitsType == cut \in BOOLEAN /\ Exits => bridge' \in Bridges /\ cut' \in BOOLEAN
BY Numbers DEF Exits, NoProcess, Bridges

LEMMA BridgeTypes ==
    ASSUME TypeOK, Idle,
           Open \/ Renew \/ SaveCreds \/ Report \/ Connected \/ LoggedOut \/ BridgeExits
    PROVE  TypeOK'
<1>. USE Numbers DEF Bridges
<1>1. /\ bridge \in Bridges /\ dir \in BOOLEAN /\ file \in Versions /\ cut \in BOOLEAN
      /\ pipe \in Seq(Events) /\ issued \in Versions /\ revoked \in Versions
  BY DEF TypeOK
<1>2. CASE Open
  BY <1>1, <1>2 DEF Open, TypeOK, python
<1>3. CASE Renew
  <2>1. issued + 1 \in Versions /\ issued' = issued + 1
    BY <1>1, <1>3 DEF Renew
  <2>2. bridge' \in Bridges
    BY <1>1, <1>3, <2>1 DEF Renew
  <2>. QED  BY <1>3, <2>1, <2>2 DEF Renew, TypeOK, python, disk
<1>4. CASE SaveCreds
  <2>1. bridge' \in Bridges /\ file' \in Versions /\ cut' \in BOOLEAN
    <3>1. CASE dir
      <4>1. /\ bridge' = [at |-> bridge.at, creds |-> bridge.creds, unsaved |-> FALSE,
                          unsent |-> TRUE]
            /\ file' = bridge.creds /\ cut' = cut
        BY <1>4, <3>1 DEF SaveCreds
      <4>2. bridge' \in Bridges
        BY <1>1, <4>1
      <4>3. file' \in Versions
        BY <1>1, <4>1
      <4>. QED  BY <1>1, <4>1, <4>2, <4>3
    <3>2. CASE ~dir
      <4>1. Exits /\ file' = file
        BY <1>4, <3>2 DEF SaveCreds
      <4>. QED  BY <1>1, <4>1, ExitsType
    <3>. QED  BY <3>1, <3>2
  <2>. QED  BY <1>4, <2>1 DEF SaveCreds, TypeOK, python
<1>5. CASE Report
  <2>1. bridge' \in Bridges
    BY <1>1, <1>5 DEF Report
  <2>2. pipe' \in Seq(Events) /\ cut' \in BOOLEAN
    BY <1>1, <1>5, SendsStep, WriteTypes DEF Report
  <2>. QED  BY <1>5, <2>1, <2>2 DEF Report, TypeOK, python, disk
<1>6. CASE Connected
  <2>1. pipe' \in Seq(Events) /\ cut' \in BOOLEAN
    BY <1>1, <1>6, SendsStep, WriteTypes DEF Connected
  <2>. QED  BY <1>6, <2>1 DEF Connected, TypeOK, python, disk
<1>7. CASE LoggedOut
  <2>1. bridge' \in Bridges /\ revoked' \in Versions
    BY <1>1, <1>7 DEF LoggedOut
  <2>2. pipe' \in Seq(Events) /\ cut' \in BOOLEAN
    BY <1>1, <1>7, SendsStep, WriteTypes DEF LoggedOut
  <2>3. file' = Blank /\ dir' = FALSE
    BY <1>7 DEF LoggedOut
  <2>4. file' \in Versions
    BY <2>3
  <2>5. dir' \in BOOLEAN
    BY <2>3
  <2>. QED  BY <1>7, <2>1, <2>2, <2>4, <2>5 DEF LoggedOut, TypeOK, python
<1>8. CASE BridgeExits
  <2>1. bridge' \in Bridges /\ cut' \in BOOLEAN
    BY <1>1, <1>8, ExitsType DEF BridgeExits
  <2>. QED  BY <1>8, <2>1 DEF BridgeExits, TypeOK, python, disk
<1>. QED  BY <1>2, <1>3, <1>4, <1>5, <1>6, <1>7, <1>8

LEMMA ForgottenTypes == NoRow \in Row /\ Blank \in Versions /\ FALSE \in BOOLEAN
BY Numbers DEF NoRow, Row

LEMMA ServerTypes ==
    ASSUME TypeOK, Idle,
           \/ Handle \/ \E i \in DOMAIN writes : WriteDone(i)
           \/ Stop \/ StopDone \/ Start \/ Restart \/ Clear \/ Crash \/ Initialize
    PROVE  TypeOK'
<1>. USE Numbers DEF Bridges
<1>1. /\ bridge \in Bridges /\ dir \in BOOLEAN /\ file \in Versions /\ cut \in BOOLEAN
      /\ pipe \in Seq(Events) /\ issued \in Versions /\ revoked \in Versions
      /\ mem \in Row /\ db \in Row /\ writes \in Seq(Writes) /\ late \in BOOLEAN
  BY DEF TypeOK
<1>2. NoRow \in Row /\ NoProcess \in Bridges /\ <<>> \in Seq(Writes) /\ <<>> \in Seq(Events)
  BY DEF NoRow, Row, NoProcess
<1>3. mem.creds \in Credentials /\ mem.auth \in BOOLEAN /\ db.creds \in Credentials
  BY <1>1 DEF Row
<1>4. CASE Handle
  <2>. DEFINE e == Head(pipe)
  <2>1. e \in Events /\ pipe' \in Seq(Events)
    BY <1>1, <1>4 DEF Handle
  <2>2. /\ e.creds \in Versions
        /\ HandleAuthUpdate(e) \/ HandleConnected(e) \/ HandleLoggedOut(e)
    BY <1>4, <2>1 DEF Handle, Events
  <2>. HIDE DEF e
  <2>3. CASE HandleAuthUpdate(e)
    <3>1. writes' \in Seq(Writes)
      <4>1. Write("save", e.creds) \in Writes /\ Queue(<<Write("save", e.creds)>>)
        BY <2>2, <2>3, WriteTypes DEF HandleAuthUpdate
      <4>. QED  BY <1>1, <4>1, QueueOne
    <3>2. mem' \in Row /\ UNCHANGED <<disk, cut>>
      <4>1. e.creds \in Credentials
        BY <2>2
      <4>. QED  BY <2>3, <4>1 DEF HandleAuthUpdate, Row
    <3>. QED  BY <1>1, <1>4, <2>1, <3>1, <3>2 DEF Handle, TypeOK, disk
  <2>4. CASE HandleConnected(e)
    <3>1. writes' \in Seq(Writes)
      BY <1>1, <2>4, QueueOne, WriteTypes DEF HandleConnected
    <3>2. mem' \in Row /\ UNCHANGED <<disk, cut>>
      BY <1>3, <2>4 DEF HandleConnected, Row
    <3>. QED  BY <1>1, <1>4, <2>1, <3>1, <3>2 DEF Handle, TypeOK, disk
  <2>5. CASE HandleLoggedOut(e)
    <3>1. writes' \in Seq(Writes)
      BY <1>1, <2>5, QueueTwo, WriteTypes DEF HandleLoggedOut
    <3>2. mem' = NoRow /\ dir' = FALSE /\ file' = Blank /\ cut' = FALSE
      BY <2>5 DEF HandleLoggedOut, Forget
    <3>3. mem' \in Row /\ file' \in Versions /\ dir' \in BOOLEAN /\ cut' \in BOOLEAN
      BY <1>2, <3>2, ForgottenTypes
    <3>. QED  BY <1>1, <1>4, <2>1, <3>1, <3>3 DEF Handle, TypeOK
  <2>. QED  BY <2>2, <2>3, <2>4, <2>5
<1>5. ASSUME NEW i \in DOMAIN writes, WriteDone(i)
      PROVE  TypeOK'
  <2>1. i \in 1 .. Len(writes) /\ writes[i] \in Writes
    BY <1>1
  <2>2. db' \in Row
    BY <1>1, <1>5, <2>1, EffectType, AppliedEffect DEF WriteDone
  <2>3. writes' \in Seq(Writes)
    BY <1>1, <1>5, <2>1, Removed DEF WriteDone
  <2>4. late' \in BOOLEAN
    BY <1>1, <1>5 DEF WriteDone
  <2>. QED  BY <1>5, <2>2, <2>3, <2>4 DEF WriteDone, TypeOK, disk
<1>6. CASE Stop
  BY <1>1, <1>2, <1>6 DEF Stop, TypeOK, python, disk
<1>7. CASE StopDone
  <2>1. bridge' \in Bridges /\ cut' \in BOOLEAN
    BY <1>1, <1>7, ExitsType DEF StopDone
  <2>. QED  BY <1>7, <2>1 DEF StopDone, TypeOK, python, disk
<1>8. CASE Start \/ Restart
  <2>1. /\ Boots /\ dir' = TRUE
        /\ file' \in {file, mem.creds} /\ (file' = mem.creds => mem.creds # Absent \/ file' = file)
    BY <1>8 DEF Start, Restart, Restores
  <2>2. file' \in Versions
    BY <1>1, <1>3, <2>1
  <2>3. bridge' \in Bridges
    BY <1>2, <2>1 DEF Boots
  <2>. QED  BY <2>1, <2>2, <2>3 DEF Boots, TypeOK, python
<1>9. CASE Clear
  <2>1. writes' \in Seq(Writes)
    BY <1>1, <1>9, QueueOne, WriteTypes DEF Clear
  <2>2. mem' \in Row /\ file' \in Versions /\ dir' \in BOOLEAN /\ cut' \in BOOLEAN
    BY <1>9, ForgottenTypes DEF Clear, Forget
  <2>. QED  BY <1>9, <2>1, <2>2 DEF Clear, TypeOK
<1>10. CASE Crash
  <2>1. cut' \in BOOLEAN /\ bridge' \in Bridges /\ writes' \in Seq(Writes)
        /\ pipe' \in Seq(Events)
    BY <1>1, <1>2, <1>10 DEF Crash
  <2>. QED  BY <1>10, <2>1 DEF Crash, TypeOK, disk
<1>11. CASE Initialize
  <2>1. dir' \in BOOLEAN /\ file' \in Versions
    <3>1. CASE db.creds = Absent
      BY <1>1, <1>11, <3>1 DEF Initialize, disk
    <3>2. CASE db.creds # Absent
      <4>1. db.creds \in Versions /\ file' = db.creds /\ dir' = TRUE
        BY <1>3, <1>11, <3>2 DEF Initialize, Restores
      <4>. QED  BY <4>1
    <3>. QED  BY <3>1, <3>2
  <2>. QED  BY <1>1, <1>11, <2>1 DEF Initialize, TypeOK
<1>. QED  BY <1>4, <1>5, <1>6, <1>7, <1>8, <1>9, <1>10, <1>11

LEMMA TypeStep == TypeOK /\ Idle /\ [Next]_vars => TypeOK'
<1>1. ASSUME TypeOK, UNCHANGED vars PROVE TypeOK'
  BY <1>1 DEF TypeOK, vars
<1>. QED  BY <1>1, BridgeTypes, ServerTypes DEF Next

LEMMA IdleStep == TypeOK /\ Idle /\ [Next]_vars => Idle'
<1>. SUFFICES ASSUME TypeOK, Idle, [Next]_vars PROVE Idle'
  OBVIOUS
<1>. USE DEF Idle, python, disk
<1>1. CASE Open \/ Renew \/ BridgeExits
  BY <1>1 DEF Open, Renew, BridgeExits, Exits, NoProcess
<1>2. CASE SaveCreds
  BY <1>2 DEF SaveCreds, Exits, NoProcess
<1>3. CASE Report
  BY <1>3 DEF Report, Sends, NoProcess
<1>4. CASE Connected \/ LoggedOut
  BY <1>4 DEF Connected, LoggedOut, Sends, NoProcess
<1>5. CASE Handle
  BY <1>5 DEF Handle
<1>6. ASSUME NEW i \in DOMAIN writes, WriteDone(i) PROVE Idle'
  BY <1>6 DEF WriteDone
<1>7. CASE Stop \/ StopDone \/ Clear
  BY <1>7 DEF Stop, StopDone, Exits, Clear
<1>8. CASE Start \/ Restart
  BY <1>8 DEF Start, Restart, Boots
<1>9. CASE Crash \/ Initialize
  BY <1>9 DEF Crash, Initialize
<1>10. CASE UNCHANGED vars
  BY <1>10 DEF vars
<1>. QED  BY <1>1, <1>2, <1>3, <1>4, <1>5, <1>6, <1>7, <1>8, <1>9, <1>10 DEF Next

-----------------------------------------------------------------------------
(***************************************************************************)
(* The credentials.                                                        *)
(***************************************************************************)
LEMMA Values ==
    ASSUME TypeOK
    PROVE  /\ file \in Nat /\ revoked \in Nat /\ issued \in Nat /\ bridge.creds \in Nat
           /\ mem.creds \in Int /\ mem.creds >= -1 /\ db.creds \in Int /\ db.creds >= -1
           /\ Len(pipe) \in Nat /\ Len(writes) \in Nat
           /\ \A i \in 1 .. Len(pipe) :
                 /\ pipe[i].creds \in Nat
                 /\ pipe[i].kind \in {"auth.update", "connected", "loggedOut"}
           /\ \A i \in 1 .. Len(writes) : writes[i].creds \in Int
           /\ bridge.unsaved \in BOOLEAN /\ bridge.unsent \in BOOLEAN
           /\ dir \in BOOLEAN /\ cut \in BOOLEAN /\ late \in BOOLEAN
<1>. USE Numbers
<1>1. file \in Nat /\ revoked \in Nat /\ issued \in Nat
  BY DEF TypeOK
<1>2. bridge.creds \in Nat /\ bridge.unsaved \in BOOLEAN /\ bridge.unsent \in BOOLEAN
  BY DEF TypeOK
<1>3. mem.creds \in Int /\ mem.creds >= -1 /\ db.creds \in Int /\ db.creds >= -1
  BY DEF TypeOK, Row
<1>4. pipe \in Seq(Events) /\ writes \in Seq(Writes)
  BY DEF TypeOK
<1>5. \A e \in Events : e.creds \in Nat /\ e.kind \in {"auth.update", "connected", "loggedOut"}
  BY DEF Events
<1>6. \A w \in Writes : w.creds \in Int
  BY DEF Writes
<1>7. dir \in BOOLEAN /\ cut \in BOOLEAN /\ late \in BOOLEAN
  BY DEF TypeOK
<1>. QED  BY <1>1, <1>2, <1>3, <1>4, <1>5, <1>6, <1>7 DEF Places

CredInv ==
    Issued /\ Saving /\ LogoutBehind /\ FileFirst /\ Reported /\ EndedForgotten

(* The invariant reads these.                                              *)
LEMMA CredStays ==
    ASSUME CredInv,
           UNCHANGED <<server, bridge, dir, file, pipe, mem, db, writes, issued,
                       revoked, late, cut>>
    PROVE  CredInv'
BY DEF CredInv, Issued, Saving, LogoutBehind, FileFirst, Reported, EndedForgotten,
       Places, Update, Logout

LEMMA OpenStep == TypeOK /\ Idle /\ CredInv /\ Open => CredInv'
<1>. SUFFICES ASSUME TypeOK, Idle, CredInv, Open PROVE CredInv'
  OBVIOUS
<1>1. /\ ~bridge.unsaved /\ ~bridge.unsent /\ dir' = TRUE
      /\ bridge'.at = "open" /\ bridge'.creds = file /\ ~bridge'.unsaved /\ ~bridge'.unsent
      /\ UNCHANGED <<server, file, pipe, mem, db, writes, issued, revoked, late, cut>>
  BY DEF Open, python
<1>. USE <1>1, Values, Numbers DEF CredInv
<1>2. Issued'
  BY DEF Issued
<1>3. Saving'
  BY DEF Saving
<1>4. LogoutBehind'
  BY DEF LogoutBehind, Places, Update, Logout
<1>5. FileFirst'
  BY DEF FileFirst, Places, Update
<1>6. Reported'
  BY DEF Reported, Places, Update
<1>7. EndedForgotten'
  BY DEF EndedForgotten
<1>. QED  BY <1>2, <1>3, <1>4, <1>5, <1>6, <1>7

LEMMA RenewStep == TypeOK /\ Idle /\ CredInv /\ Renew => CredInv'
<1>. SUFFICES ASSUME TypeOK, Idle, CredInv, Renew PROVE CredInv'
  OBVIOUS
<1>1. /\ bridge.at = "open" /\ issued' = issued + 1
      /\ bridge.creds = Blank => \A i \in 1 .. Len(pipe) : pipe[i].kind # "loggedOut"
      /\ bridge.creds # Blank => bridge.creds > revoked
      /\ bridge'.at = "open" /\ bridge'.creds = issued + 1 /\ bridge'.unsaved
      /\ bridge'.unsent = bridge.unsent
      /\ UNCHANGED <<server, dir, file, pipe, mem, db, writes, revoked, late, cut>>
  BY DEF Renew, python, disk
<1>. USE <1>1, Values, Numbers DEF CredInv
<1>2. \A i \in Places : ~Logout(i)
  <2>1. CASE bridge.creds = Blank
    BY <1>1, <2>1 DEF Logout, Places
  <2>2. CASE bridge.creds # Blank
    <3>1. ~(bridge.creds <= revoked)
      BY <1>1, <2>2
    <3>. QED  BY <3>1 DEF LogoutBehind
  <2>. QED  BY <2>1, <2>2
<1>3. Issued'
  <2>1. /\ revoked <= issued + 1 /\ file <= issued + 1 /\ bridge'.creds <= issued + 1
        /\ mem.creds <= issued + 1 /\ db.creds <= issued + 1
    BY DEF Issued
  <2>2. \A i \in 1 .. Len(pipe) : pipe[i].creds <= issued + 1
    BY DEF Issued
  <2>3. \A i \in 1 .. Len(writes) : writes[i].creds <= issued + 1
    BY DEF Issued
  <2>. QED  BY <1>1, <2>1, <2>2, <2>3 DEF Issued
<1>4. Saving'
  BY DEF Saving, Issued
<1>5. LogoutBehind'
  BY <1>2 DEF LogoutBehind, Places, Update, Logout
<1>6. FileFirst'
  BY DEF FileFirst, Places, Update
<1>7. Reported'
  BY DEF Reported, Places, Update
<1>8. EndedForgotten'
  BY DEF EndedForgotten
<1>. QED  BY <1>3, <1>4, <1>5, <1>6, <1>7, <1>8

(* The bridge ends: with what it has not reported something is lost.       *)
LEMMA ExitsStep ==
    ASSUME TypeOK, Idle, CredInv, Exits,
           UNCHANGED <<server, dir, file, pipe, mem, db, writes, issued, revoked, late>>
    PROVE  CredInv'
<1>1. /\ bridge'.at = "off" /\ bridge'.creds = Blank /\ ~bridge'.unsaved /\ ~bridge'.unsent
      /\ cut' = (cut \/ bridge.unsaved \/ bridge.unsent)
  BY DEF Exits, NoProcess
<1>. USE <1>1, Values, Numbers DEF CredInv
<1>2. Issued'
  BY DEF Issued
<1>3. Saving'
  BY DEF Saving
<1>4. LogoutBehind'
  BY DEF LogoutBehind, Places, Update, Logout
<1>5. FileFirst'
  BY DEF FileFirst, Places, Update
<1>6. Reported'
  BY DEF Reported, Places, Update
<1>7. EndedForgotten'
  BY DEF EndedForgotten
<1>. QED  BY <1>2, <1>3, <1>4, <1>5, <1>6, <1>7

LEMMA SaveStep == TypeOK /\ Idle /\ CredInv /\ SaveCreds => CredInv'
<1>. SUFFICES ASSUME TypeOK, Idle, CredInv, SaveCreds PROVE CredInv'
  OBVIOUS
<1>1. CASE ~dir
  BY <1>1, ExitsStep DEF SaveCreds, python
<1>2. CASE dir
  <2>1. /\ bridge.unsaved /\ file' = bridge.creds
        /\ bridge'.at = bridge.at /\ bridge'.creds = bridge.creds
        /\ ~bridge'.unsaved /\ bridge'.unsent
        /\ UNCHANGED <<server, dir, pipe, mem, db, writes, issued, revoked, late, cut>>
    BY <1>2 DEF SaveCreds, python
  <2>. USE <2>1, Values, Numbers DEF CredInv
  <2>2. bridge.at = "open" /\ bridge.creds > revoked /\ file <= bridge.creds
    BY <1>2 DEF Saving
  <2>3. Issued'
    BY DEF Issued
  <2>4. Saving'
    BY <2>2 DEF Saving
  <2>5. LogoutBehind'
    BY <2>2 DEF LogoutBehind, Places, Update, Logout
  <2>6. FileFirst'
    BY <2>2 DEF FileFirst, Places, Update
  <2>7. Reported'
    <3>1. server = "up"
      BY <2>2 DEF Idle, NoProcess, TypeOK
    <3>. QED  BY <3>1 DEF Reported
  <2>8. EndedForgotten'
    BY DEF EndedForgotten
  <2>. QED  BY <2>3, <2>4, <2>5, <2>6, <2>7, <2>8
<1>. QED  BY <1>1, <1>2

LEMMA Served ==
    ASSUME TypeOK, Idle, bridge.at # "off" \/ bridge.unsaved \/ bridge.unsent \/ reader # "none"
    PROVE  server = "up"
BY DEF TypeOK, Idle, NoProcess

(* The places of the pipe when an event is added, and when one is taken.   *)
Extended(e) ==
    /\ Len(pipe') = Len(pipe) + 1 /\ cut' = cut
    /\ Len(pipe) + 1 \in Places' /\ pipe'[Len(pipe) + 1] = e
    /\ \A i \in Places : i \in Places' /\ pipe'[i] = pipe[i] /\ i < Len(pipe) + 1
    /\ \A i \in Places' : i \in Places \/ i = Len(pipe) + 1

Shifted ==
    /\ 1 \in Places
    /\ \A i \in Places' : i + 1 \in Places /\ pipe'[i] = pipe[i + 1]
    /\ \A i \in Places : i = 1 \/ (i - 1 \in Places' /\ pipe'[i - 1] = pipe[i])

LEMMA SendsPlaces ==
    ASSUME TypeOK, Idle, NEW kind, NEW v, Sends(kind, v), Event(kind, v) \in Events
    PROVE  \/ Extended(Event(kind, v))
           \/ pipe = <<>> /\ pipe' = <<>> /\ cut' = TRUE
<1>1. pipe \in Seq(Events) /\ cut \in BOOLEAN /\ Len(pipe) \in Nat
  BY DEF TypeOK
<1>2. CASE reader = "on"
  <2>1. /\ Len(pipe') = Len(pipe) + 1 /\ cut' = cut
        /\ pipe'[Len(pipe) + 1] = Event(kind, v)
        /\ \A i \in 1 .. Len(pipe) : pipe'[i] = pipe[i]
    BY <1>1, <1>2, SendsStep
  <2>. QED  BY <1>1, <2>1 DEF Extended, Places
<1>3. CASE reader # "on"
  BY <1>1, <1>3, SendsStep
<1>. QED  BY <1>2, <1>3

LEMMA TakesPlaces ==
    ASSUME TypeOK, pipe # <<>>, pipe' = Tail(pipe)
    PROVE  Shifted /\ Head(pipe) = pipe[1]
<1>1. pipe \in Seq(Events)
  BY DEF TypeOK
<1>2. /\ Len(pipe) \in Nat \ {0} /\ Len(pipe') = Len(pipe) - 1 /\ Head(pipe) = pipe[1]
      /\ \A i \in 1 .. Len(pipe) - 1 : pipe'[i] = pipe[i + 1]
  BY <1>1, Tailed
<1>3. \A i \in Places' : i + 1 \in Places /\ pipe'[i] = pipe[i + 1]
  BY <1>2 DEF Places
<1>4. \A i \in Places : i = 1 \/ (i - 1 \in Places' /\ pipe'[i - 1] = pipe[i])
  <2>. SUFFICES ASSUME NEW i \in Places, i # 1
                PROVE  i - 1 \in Places' /\ pipe'[i - 1] = pipe[i]
    OBVIOUS
  <2>1. i - 1 \in 1 .. Len(pipe) - 1 /\ (i - 1) + 1 = i
    BY <1>2 DEF Places
  <2>. QED  BY <1>2, <2>1 DEF Places
<1>. QED  BY <1>2, <1>3, <1>4 DEF Shifted, Places

LEMMA PlacesIn == TypeOK => Places = 1 .. Len(pipe) /\ Places \subseteq Nat
BY DEF TypeOK, Places

LEMMA ReportStep == TypeOK /\ Idle /\ CredInv /\ Report => CredInv'
<1>. SUFFICES ASSUME TypeOK, Idle, CredInv, Report PROVE CredInv'
  OBVIOUS
<1>1. /\ bridge.unsent /\ Sends("auth.update", file)
      /\ bridge'.at = bridge.at /\ bridge'.creds = bridge.creds
      /\ bridge'.unsaved = bridge.unsaved /\ ~bridge'.unsent
      /\ UNCHANGED <<server, dir, file, mem, db, writes, issued, revoked, late>>
  BY DEF Report, python, disk, TypeOK
<1>2. server = "up" /\ Event("auth.update", file) \in Events
  BY <1>1, Served, WriteTypes DEF TypeOK
<1>3. /\ \/ Extended(Event("auth.update", file))
         \/ pipe = <<>> /\ pipe' = <<>> /\ cut' = TRUE
  BY <1>1, <1>2, SendsPlaces
<1>4. file = Blank \/ file > revoked
  BY <1>1 DEF CredInv, Saving
<1>5. file \in Nat /\ revoked \in Nat /\ Places = 1 .. Len(pipe) /\ Places \subseteq Nat
  BY Values, PlacesIn
<1>6. Issued' /\ Saving'
  <2>1. \A i \in 1 .. Len(pipe') : pipe'[i].creds <= issued
    <3>1. CASE Extended(Event("auth.update", file))
      BY <3>1 DEF CredInv, Issued, Extended, Places, Event
    <3>2. CASE pipe = <<>> /\ pipe' = <<>>
      BY <3>2
    <3>. QED  BY <1>3, <3>1, <3>2
  <2>2. Issued'
    BY <1>1, <2>1 DEF CredInv, Issued
  <2>. QED  BY <1>1, <2>2 DEF CredInv, Saving
<1>7. CASE Extended(Event("auth.update", file))
  <2>0. PICK n : n = Len(pipe) + 1
    OBVIOUS
  <2>1. /\ n \in Places' /\ pipe'[n].kind = "auth.update" /\ pipe'[n].creds = file
        /\ \A i \in Places : i \in Places' /\ pipe'[i] = pipe[i] /\ i < n
        /\ \A i \in Places' : i \in Places \/ i = n
        /\ cut' = cut /\ n \in Nat
    BY <1>7, <2>0, Values DEF Extended, Event
  <2>2. LogoutBehind'
    <3>1. ASSUME NEW i \in Places', Update(i)', pipe'[i].creds \in 1 .. revoked
          PROVE  \E k \in Places' : k > i /\ Logout(k)'
      <4>1. i \in Places
        BY <1>4, <1>5, <2>1, <3>1, Numbers
      <4>. QED  BY <2>1, <3>1, <4>1 DEF CredInv, LogoutBehind, Update, Logout
    <3>2. ASSUME NEW k \in Places', Logout(k)'
          PROVE  /\ file = Blank /\ bridge.creds <= revoked
                 /\ \A i \in Places' : Update(i)' => pipe'[i].creds <= revoked
      <4>1. k \in Places /\ Logout(k)
        BY <2>1, <3>2 DEF Logout
      <4>. QED  BY <1>5, <2>1, <4>1, Numbers DEF CredInv, LogoutBehind, Update
    <3>. QED  BY <1>1, <3>1, <3>2 DEF LogoutBehind
  <2>3. FileFirst'
    <3>1. ASSUME NEW i \in Places', Update(i)'
          PROVE  pipe'[i].creds <= file \/ pipe'[i].creds <= revoked
      <4>1. CASE i \in Places
        BY <2>1, <3>1, <4>1 DEF CredInv, FileFirst, Update
      <4>2. CASE i = n
        BY <1>5, <2>1, <4>2
      <4>. QED  BY <2>1, <4>1, <4>2
    <3>. QED  BY <1>1, <3>1 DEF CredInv, FileFirst
  <2>4. Reported'
    <3>1. Update(n)' /\ pipe'[n].creds >= file /\ \A k \in Places' : ~(k > n)
      BY <1>5, <2>1, Values DEF Update
    <3>. QED  BY <1>1, <1>2, <2>1, <3>1 DEF Reported
  <2>5. EndedForgotten'
    BY <1>1, <2>1 DEF CredInv, EndedForgotten, Places
  <2>. QED  BY <1>6, <2>2, <2>3, <2>4, <2>5 DEF CredInv
<1>8. CASE pipe = <<>> /\ pipe' = <<>> /\ cut' = TRUE
  <2>1. LogoutBehind' /\ FileFirst'
    BY <1>1, <1>8 DEF CredInv, LogoutBehind, FileFirst, Places
  <2>2. Reported' /\ EndedForgotten'
    BY <1>1, <1>8 DEF Reported, EndedForgotten
  <2>. QED  BY <1>6, <2>1, <2>2 DEF CredInv
<1>. QED  BY <1>3, <1>7, <1>8

LEMMA ConnectedStep == TypeOK /\ Idle /\ CredInv /\ Connected => CredInv'
<1>. SUFFICES ASSUME TypeOK, Idle, CredInv, Connected PROVE CredInv'
  OBVIOUS
<1>1. /\ bridge.at = "open" /\ Sends("connected", Blank)
      /\ UNCHANGED <<server, bridge, dir, file, mem, db, writes, issued, revoked, late>>
  BY DEF Connected, python, disk
<1>2. server = "up" /\ Event("connected", Blank) \in Events
  BY <1>1, Served, WriteTypes
<1>3. \/ Extended(Event("connected", Blank))
      \/ pipe = <<>> /\ pipe' = <<>> /\ cut' = TRUE
  BY <1>1, <1>2, SendsPlaces
<1>4. issued \in Nat /\ Places = 1 .. Len(pipe) /\ Places \subseteq Nat
  BY Values, PlacesIn
<1>5. Issued' /\ Saving'
  <2>1. \A i \in 1 .. Len(pipe') : pipe'[i].creds <= issued
    <3>1. CASE Extended(Event("connected", Blank))
      BY <1>4, <3>1, Numbers DEF CredInv, Issued, Extended, Places, Event
    <3>2. CASE pipe = <<>> /\ pipe' = <<>>
      BY <3>2
    <3>. QED  BY <1>3, <3>1, <3>2
  <2>2. Issued'
    BY <1>1, <2>1 DEF CredInv, Issued
  <2>. QED  BY <1>1, <2>2 DEF CredInv, Saving
<1>6. CASE Extended(Event("connected", Blank))
  <2>0. PICK n : n = Len(pipe) + 1
    OBVIOUS
  <2>1. /\ n \in Places' /\ ~Update(n)' /\ ~Logout(n)'
        /\ \A i \in Places : i \in Places' /\ pipe'[i] = pipe[i] /\ i < n
        /\ \A i \in Places' : i \in Places \/ i = n
        /\ cut' = cut
    BY <1>6, <2>0 DEF Extended, Event, Update, Logout
  <2>2. LogoutBehind'
    BY <1>1, <2>1 DEF CredInv, LogoutBehind, Update, Logout
  <2>3. FileFirst'
    BY <1>1, <2>1 DEF CredInv, FileFirst, Update
  <2>4. Reported'
    BY <1>1, <1>2, <2>1 DEF CredInv, Reported, Update
  <2>5. EndedForgotten'
    BY <1>1, <2>1 DEF CredInv, EndedForgotten, Places
  <2>. QED  BY <1>5, <2>2, <2>3, <2>4, <2>5 DEF CredInv
<1>7. CASE pipe = <<>> /\ pipe' = <<>> /\ cut' = TRUE
  <2>1. LogoutBehind' /\ FileFirst'
    BY <1>1, <1>7 DEF CredInv, LogoutBehind, FileFirst, Places
  <2>2. Reported' /\ EndedForgotten'
    BY <1>1, <1>7 DEF Reported, EndedForgotten
  <2>. QED  BY <1>5, <2>1, <2>2 DEF CredInv
<1>. QED  BY <1>3, <1>6, <1>7

(* What was reported is not newer than the file, the file not newer than    *)
(* the socket, and the socket is logged out: so all of it is.              *)
LEMMA LoggedOutStep == TypeOK /\ Idle /\ CredInv /\ LoggedOut => CredInv'
<1>. SUFFICES ASSUME TypeOK, Idle, CredInv, LoggedOut PROVE CredInv'
  OBVIOUS
<1>1. /\ bridge.at = "open" /\ Sends("loggedOut", Blank)
      /\ bridge'.at = "closed" /\ bridge'.creds = bridge.creds
      /\ bridge'.unsaved = bridge.unsaved /\ bridge'.unsent = bridge.unsent
      /\ ~dir' /\ file' = Blank
      /\ revoked' = IF bridge.creds > revoked THEN bridge.creds ELSE revoked
      /\ UNCHANGED <<server, mem, db, writes, issued, late>>
  BY DEF LoggedOut, python, TypeOK
<1>2. server = "up" /\ Event("loggedOut", Blank) \in Events
  BY <1>1, Served, WriteTypes
<1>3. \/ Extended(Event("loggedOut", Blank))
      \/ pipe = <<>> /\ pipe' = <<>> /\ cut' = TRUE
  BY <1>1, <1>2, SendsPlaces
<1>4. /\ revoked' \in Nat /\ bridge.creds <= revoked' /\ revoked <= revoked'
      /\ file <= revoked' /\ revoked' <= issued
  BY <1>1, Values DEF CredInv, Saving, Issued
<1>5. mem.creds <= revoked' /\ \A i \in Places : Update(i) => pipe[i].creds <= revoked'
  <2>1. mem.creds <= revoked'
    BY <1>4, Values DEF CredInv, FileFirst
  <2>2. ASSUME NEW i \in Places, Update(i) PROVE pipe[i].creds <= revoked'
    <3>1. pipe[i].creds \in Nat
      BY PlacesIn, Values
    <3>2. pipe[i].creds <= file \/ pipe[i].creds <= revoked
      BY <2>2 DEF CredInv, FileFirst
    <3>. QED  BY <1>4, <3>1, <3>2, Values
  <2>. QED  BY <2>1, <2>2
<1>6. issued \in Nat /\ Places = 1 .. Len(pipe) /\ Places \subseteq Nat
  BY Values, PlacesIn
<1>7. Issued'
  <2>1. \A i \in 1 .. Len(pipe') : pipe'[i].creds <= issued
    <3>1. CASE Extended(Event("loggedOut", Blank))
      BY <1>6, <3>1, Numbers DEF CredInv, Issued, Extended, Places, Event
    <3>2. CASE pipe = <<>> /\ pipe' = <<>>
      BY <3>2
    <3>. QED  BY <1>3, <3>1, <3>2
  <2>. QED  BY <1>1, <1>4, <1>6, <2>1, Numbers DEF CredInv, Issued
<1>8. Saving'
  BY <1>1 DEF Saving
<1>9. Reported'
  BY <1>1, <1>2, <1>4, Numbers DEF Reported
<1>10. mem'.creds <= file' \/ mem'.creds <= revoked'
  BY <1>1, <1>5
<1>11. CASE Extended(Event("loggedOut", Blank))
  <2>0. PICK n : n = Len(pipe) + 1
    OBVIOUS
  <2>1. /\ n \in Places' /\ ~Update(n)' /\ Logout(n)'
        /\ \A i \in Places : i \in Places' /\ pipe'[i] = pipe[i] /\ i < n
        /\ \A i \in Places' : i \in Places \/ i = n
    BY <1>11, <2>0 DEF Extended, Event, Update, Logout
  <2>2. ASSUME NEW i \in Places', Update(i)'
        PROVE  n > i /\ pipe'[i].creds <= revoked'
    <3>1. i \in Places /\ Update(i) /\ i < n
      BY <2>1, <2>2 DEF Update
    <3>2. n \in Nat
      BY <2>0, Values
    <3>. QED  BY <1>5, <1>6, <2>1, <3>1, <3>2
  <2>3. LogoutBehind'
    BY <1>1, <1>4, <2>1, <2>2 DEF LogoutBehind
  <2>4. FileFirst'
    BY <1>10, <2>2 DEF FileFirst
  <2>5. EndedForgotten'
    BY <2>1 DEF EndedForgotten, Places, Logout
  <2>. QED  BY <1>7, <1>8, <1>9, <2>3, <2>4, <2>5 DEF CredInv
<1>12. CASE pipe = <<>> /\ pipe' = <<>> /\ cut' = TRUE
  <2>1. LogoutBehind' /\ FileFirst'
    BY <1>10, <1>12 DEF LogoutBehind, FileFirst, Places
  <2>2. EndedForgotten'
    BY <1>12 DEF EndedForgotten
  <2>. QED  BY <1>7, <1>8, <1>9, <2>1, <2>2 DEF CredInv
<1>. QED  BY <1>3, <1>11, <1>12

(* An event is taken from the pipe, and its writes are queued.             *)
LEMMA WritesIssued ==
    ASSUME TypeOK, Issued, issued' = issued,
           \/ \E w \in Writes : w.creds <= issued /\ Queue(<<w>>)
           \/ \E w, x \in Writes : w.creds <= issued /\ x.creds <= issued /\ Queue(<<w, x>>)
    PROVE  \A i \in 1 .. Len(writes') : writes'[i].creds <= issued
<1>1. writes \in Seq(Writes) /\ Len(writes) \in Nat
  BY DEF TypeOK
<1>2. \A i \in 1 .. Len(writes) : writes[i].creds <= issued
  BY DEF Issued
<1>3. ASSUME NEW w \in Writes, w.creds <= issued, Queue(<<w>>)
      PROVE  \A i \in 1 .. Len(writes') : writes'[i].creds <= issued
  <2>1. /\ Len(writes') = Len(writes) + 1 /\ writes'[Len(writes) + 1] = w
        /\ \A i \in 1 .. Len(writes) : writes'[i] = writes[i]
    BY <1>1, <1>3, QueueOne
  <2>. QED  BY <1>1, <1>2, <1>3, <2>1
<1>4. ASSUME NEW w \in Writes, NEW x \in Writes, w.creds <= issued, x.creds <= issued,
             Queue(<<w, x>>)
      PROVE  \A i \in 1 .. Len(writes') : writes'[i].creds <= issued
  <2>1. /\ Len(writes') = Len(writes) + 2 /\ writes'[Len(writes) + 1] = w
        /\ writes'[Len(writes) + 2] = x
        /\ \A i \in 1 .. Len(writes) : writes'[i] = writes[i]
    BY <1>1, <1>4, QueueTwo
  <2>. QED  BY <1>1, <1>2, <1>4, <2>1
<1>. QED  BY <1>3, <1>4

LEMMA HandleStep == TypeOK /\ Idle /\ CredInv /\ Handle => CredInv'
<1>. SUFFICES ASSUME TypeOK, Idle, CredInv, Handle PROVE CredInv'
  OBVIOUS
<1>1. /\ server = "up" /\ Shifted
      /\ UNCHANGED <<server, bridge, db, issued, revoked, late>>
      /\ \/ HandleAuthUpdate(pipe[1]) \/ HandleConnected(pipe[1])
         \/ HandleLoggedOut(pipe[1])
  <2>1. pipe # <<>> /\ pipe' = Tail(pipe)
    BY DEF Handle
  <2>2. Shifted /\ Head(pipe) = pipe[1]
    BY <2>1, TakesPlaces
  <2>. QED  BY <2>2 DEF Handle
<1>2. /\ 1 \in Places
      /\ \A i \in Places' : i + 1 \in Places /\ pipe'[i] = pipe[i + 1]
      /\ \A i \in Places : i = 1 \/ (i - 1 \in Places' /\ pipe'[i - 1] = pipe[i])
  BY <1>1 DEF Shifted
<1>3. /\ Places = 1 .. Len(pipe) /\ Places \subseteq Nat /\ Places' = 1 .. Len(pipe')
      /\ Places' \subseteq Int
  <2>1. Places' \subseteq Int
    BY DEF Places
  <2>. QED  BY <2>1, PlacesIn DEF Places
<1>4. /\ issued \in Nat /\ revoked \in Nat /\ file \in Nat /\ mem.creds \in Int
      /\ \A i \in Places : pipe[i].creds \in Nat
  BY <1>3, Values
<1>5. \A i \in 1 .. Len(pipe') : pipe'[i].creds <= issued
  BY <1>2, <1>3 DEF CredInv, Issued
<1>6. \A i \in Places' : Update(i)' /\ pipe'[i].creds \in 1 .. revoked =>
          \E k \in Places' : k > i /\ Logout(k)'
  <2>. SUFFICES ASSUME NEW i \in Places', Update(i)', pipe'[i].creds \in 1 .. revoked
                PROVE  \E k \in Places' : k > i /\ Logout(k)'
    OBVIOUS
  <2>1. i + 1 \in Places /\ Update(i + 1) /\ pipe[i + 1].creds \in 1 .. revoked
    BY <1>2 DEF Update
  <2>2. PICK k \in Places : k > i + 1 /\ Logout(k)
    BY <2>1 DEF CredInv, LogoutBehind
  <2>3. i \in Int /\ i >= 1 /\ k \in Int
    BY <1>3
  <2>4. k - 1 \in Places' /\ pipe'[k - 1] = pipe[k] /\ k - 1 > i
    BY <1>2, <2>2, <2>3
  <2>. QED  BY <2>2, <2>4 DEF Logout
<1>7. (\E k \in Places' : Logout(k)') =>
          /\ file = Blank /\ bridge.creds <= revoked
          /\ \A i \in Places' : Update(i)' => pipe'[i].creds <= revoked
  BY <1>2 DEF CredInv, LogoutBehind, Update, Logout
<1>8. \A i \in Places' : Update(i)' => pipe'[i].creds <= file \/ pipe'[i].creds <= revoked
  BY <1>2 DEF CredInv, FileFirst, Update
<1>9. CASE HandleAuthUpdate(pipe[1])
  <2>1. /\ Update(1) /\ mem'.creds = pipe[1].creds
        /\ Queue(<<Write("save", pipe[1].creds)>>) /\ UNCHANGED <<dir, file, cut>>
    BY <1>9 DEF HandleAuthUpdate, Update, disk
  <2>2. Write("save", pipe[1].creds) \in Writes /\ Write("save", pipe[1].creds).creds <= issued
    <3>1. pipe[1].creds \in Versions
      <4>1. pipe[1] \in Events
        BY <1>2, <1>3 DEF TypeOK
      <4>. QED  BY <4>1 DEF Events
    <3>2. pipe[1].creds <= issued
      BY <1>2, <1>3 DEF CredInv, Issued
    <3>. QED  BY <3>1, <3>2, WriteTypes DEF Write
  <2>3. \A i \in 1 .. Len(writes') : writes'[i].creds <= issued
    BY <1>1, <2>1, <2>2, WritesIssued DEF CredInv
  <2>4. pipe[1].creds <= issued /\ (pipe[1].creds <= file \/ pipe[1].creds <= revoked)
    BY <1>2, <1>3, <2>1 DEF CredInv, Issued, FileFirst
  <2>5. Issued'
    BY <1>1, <1>5, <2>1, <2>3, <2>4 DEF CredInv, Issued
  <2>6. Saving'
    BY <1>1, <2>1 DEF CredInv, Saving
  <2>7. LogoutBehind' /\ FileFirst'
    <3>1. LogoutBehind'
      BY <1>1, <1>6, <1>7, <2>1 DEF LogoutBehind
    <3>2. FileFirst'
      BY <1>1, <1>8, <2>1, <2>4 DEF FileFirst
    <3>. QED  BY <3>1, <3>2
  <2>8. Reported'
    <3>. SUFFICES ASSUME ~cut, ~late, ~(file <= revoked), ~bridge.unsent
                  PROVE  \/ \E i \in Places' :
                                /\ Update(i)' /\ pipe'[i].creds >= file
                                /\ \A k \in Places' : k > i => ~Update(k)'
                         \/ mem'.creds >= file /\ \A i \in Places' : ~Update(i)'
      BY <1>1, <2>1 DEF Reported
    <3>1. PICK i \in Places : /\ Update(i) /\ pipe[i].creds >= file
                              /\ \A k \in Places : k > i => ~Update(k)
      BY <1>1, <1>2, <2>1 DEF CredInv, Reported
    <3>2. CASE i = 1
      <4>1. ASSUME NEW k \in Places' PROVE ~Update(k)'
        <5>1. k + 1 \in Places /\ k + 1 > 1 /\ pipe'[k] = pipe[k + 1]
          BY <1>2, <1>3
        <5>. QED  BY <3>1, <3>2, <5>1 DEF Update
      <4>. QED  BY <2>1, <3>1, <3>2, <4>1
    <3>3. CASE i # 1
      <4>1. i - 1 \in Places' /\ pipe'[i - 1] = pipe[i]
        BY <1>2, <3>3
      <4>2. ASSUME NEW k \in Places', k > i - 1 PROVE ~Update(k)'
        <5>1. k + 1 \in Places /\ k + 1 > i /\ pipe'[k] = pipe[k + 1]
          BY <1>2, <1>3, <4>2
        <5>. QED  BY <3>1, <5>1 DEF Update
      <4>3. Update(i - 1)' /\ pipe'[i - 1].creds >= file
        BY <3>1, <4>1 DEF Update
      <4>. QED  BY <4>1, <4>2, <4>3
    <3>. QED  BY <3>2, <3>3
  <2>9. EndedForgotten'
    <3>. SUFFICES ASSUME pipe[1].creds \in 1 .. revoked
                  PROVE  \E k \in Places' : Logout(k)'
      BY <1>1, <2>1 DEF EndedForgotten, Places, Logout
    <3>1. PICK k \in Places : k > 1 /\ Logout(k)
      BY <1>2, <2>1 DEF CredInv, LogoutBehind
    <3>2. k - 1 \in Places' /\ pipe'[k - 1] = pipe[k]
      BY <1>2, <1>3, <3>1
    <3>. QED  BY <3>1, <3>2 DEF Logout
  <2>. QED  BY <2>5, <2>6, <2>7, <2>8, <2>9 DEF CredInv
<1>10. CASE HandleConnected(pipe[1])
  <2>1. /\ ~Update(1) /\ ~Logout(1) /\ mem'.creds = mem.creds
        /\ Queue(<<Write("connected", Absent)>>) /\ UNCHANGED <<dir, file, cut>>
    BY <1>10 DEF HandleConnected, Update, Logout, disk
  <2>2. Write("connected", Absent) \in Writes /\ Write("connected", Absent).creds <= issued
    BY <1>4, WriteTypes, Numbers DEF Write
  <2>3. \A i \in 1 .. Len(writes') : writes'[i].creds <= issued
    BY <1>1, <2>1, <2>2, WritesIssued DEF CredInv
  <2>5. Issued'
    BY <1>1, <1>5, <2>1, <2>3 DEF CredInv, Issued
  <2>6. Saving'
    BY <1>1, <2>1 DEF CredInv, Saving
  <2>7. LogoutBehind' /\ FileFirst'
    <3>1. LogoutBehind'
      BY <1>1, <1>6, <1>7, <2>1 DEF LogoutBehind
    <3>2. FileFirst'
      BY <1>1, <1>8, <2>1 DEF CredInv, FileFirst
    <3>. QED  BY <3>1, <3>2
  <2>8. Reported'
    <3>. SUFFICES ASSUME ~cut, ~late, ~(file <= revoked), ~bridge.unsent
                  PROVE  \/ \E i \in Places' :
                                /\ Update(i)' /\ pipe'[i].creds >= file
                                /\ \A k \in Places' : k > i => ~Update(k)'
                         \/ mem.creds >= file /\ \A i \in Places' : ~Update(i)'
      BY <1>1, <2>1 DEF Reported
    <3>1. CASE mem.creds >= file /\ \A i \in Places : ~Update(i)
      BY <1>2, <3>1 DEF Update
    <3>2. ASSUME NEW i \in Places, Update(i), pipe[i].creds >= file,
                 \A k \in Places : k > i => ~Update(k)
          PROVE  \E j \in Places' : /\ Update(j)' /\ pipe'[j].creds >= file
                                    /\ \A k \in Places' : k > j => ~Update(k)'
      <4>1. i - 1 \in Places' /\ pipe'[i - 1] = pipe[i]
        BY <1>2, <2>1, <3>2
      <4>2. ASSUME NEW k \in Places', k > i - 1 PROVE ~Update(k)'
        <5>1. k + 1 \in Places /\ k + 1 > i /\ pipe'[k] = pipe[k + 1]
          BY <1>2, <1>3, <4>2
        <5>. QED  BY <3>2, <5>1 DEF Update
      <4>3. Update(i - 1)' /\ pipe'[i - 1].creds >= file
        BY <3>2, <4>1 DEF Update
      <4>. QED  BY <4>1, <4>2, <4>3
    <3>. QED  BY <1>1, <3>1, <3>2 DEF CredInv, Reported
  <2>9. EndedForgotten'
    <3>1. ASSUME NEW k \in Places, Logout(k) PROVE \E j \in Places' : Logout(j)'
      <4>1. k - 1 \in Places' /\ pipe'[k - 1] = pipe[k]
        BY <1>2, <2>1, <3>1
      <4>. QED  BY <3>1, <4>1 DEF Logout
    <3>. QED  BY <1>1, <2>1, <3>1 DEF CredInv, EndedForgotten, Places, Logout
  <2>. QED  BY <2>5, <2>6, <2>7, <2>8, <2>9 DEF CredInv
<1>11. CASE HandleLoggedOut(pipe[1])
  <2>1. /\ Logout(1) /\ mem'.creds = -1 /\ dir' = FALSE /\ file' = 0 /\ cut' = FALSE
        /\ Queue(<<Write("loggedOut", Absent), Write("clear", Absent)>>)
    BY <1>11, Numbers DEF HandleLoggedOut, Logout, Forget, NoRow
  <2>2. /\ Write("loggedOut", Absent) \in Writes /\ Write("clear", Absent) \in Writes
        /\ Write("loggedOut", Absent).creds <= issued /\ Write("clear", Absent).creds <= issued
    BY <1>4, WriteTypes, Numbers DEF Write
  <2>3. \A i \in 1 .. Len(writes') : writes'[i].creds <= issued
    BY <1>1, <2>1, <2>2, WritesIssued DEF CredInv
  <2>4. bridge.creds <= revoked /\ \A i \in Places : Update(i) => pipe[i].creds <= revoked
    BY <1>2, <2>1 DEF CredInv, LogoutBehind
  <2>5. Issued'
    BY <1>1, <1>4, <1>5, <2>1, <2>3 DEF CredInv, Issued
  <2>6. Saving'
    BY <1>1, <2>1, Values, Numbers DEF Saving
  <2>7. LogoutBehind'
    BY <1>1, <1>6, <1>7, <2>1, Numbers DEF LogoutBehind
  <2>8. FileFirst'
    <3>1. \A i \in Places' : Update(i)' => pipe'[i].creds <= revoked
      BY <1>2, <2>4 DEF Update
    <3>. QED  BY <1>1, <2>1, <3>1 DEF FileFirst
  <2>9. Reported'
    BY <1>1, <1>4, <2>1 DEF Reported
  <2>10. EndedForgotten'
    BY <2>1 DEF EndedForgotten
  <2>. QED  BY <2>5, <2>6, <2>7, <2>8, <2>9, <2>10 DEF CredInv
<1>. QED  BY <1>1, <1>9, <1>10, <1>11

(* A write that is done leaves the rest of the queue.                      *)
LEMMA WriteDoneStep ==
    ASSUME TypeOK, Idle, CredInv, NEW i \in DOMAIN writes, WriteDone(i)
    PROVE  CredInv'
<1>1. /\ server = "up" /\ writes' = RemoveAt(writes, i) /\ db' = Effect(writes[i], db)
      /\ (late' = (late \/ i > 1))
      /\ UNCHANGED <<server, bridge, dir, file, pipe, mem, issued, revoked, cut>>
  BY AppliedEffect DEF WriteDone, disk
<1>2. writes \in Seq(Writes) /\ i \in 1 .. Len(writes) /\ writes[i] \in Writes
  BY DEF TypeOK
<1>3. \A k \in 1 .. Len(writes') : writes'[k].creds <= issued
  <2>. DEFINE Old == {w \in Writes : w.creds <= issued}
  <2>1. writes \in Seq(Old)
    BY <1>2 DEF CredInv, Issued
  <2>2. RemoveAt(writes, i) \in Seq(Old)
    <3>. HIDE DEF Old
    <3>. QED  BY <1>2, <2>1, Removed
  <2>. QED  BY <1>1, <2>2
<1>4. db'.creds <= issued
  <2>1. writes[i].creds <= issued /\ db.creds <= issued
    BY <1>2 DEF CredInv, Issued
  <2>2. issued \in Nat /\ Absent <= issued
    BY Values, Numbers
  <2>3. writes[i].kind \in {"save", "clear", "connected", "loggedOut"}
    BY <1>2 DEF Writes
  <2>. QED  BY <1>1, <2>1, <2>2, <2>3 DEF Effect, NoRow
<1>5. Issued'
  BY <1>1, <1>3, <1>4 DEF CredInv, Issued
<1>6. Saving' /\ LogoutBehind'
  BY <1>1 DEF CredInv, Saving, LogoutBehind, Places, Update, Logout
<1>7. FileFirst'
  BY <1>1 DEF CredInv, FileFirst, Places, Update
<1>8. late => late'
  BY <1>1
<1>9. Reported'
  BY <1>1, <1>8 DEF CredInv, Reported, Places, Update
<1>10. EndedForgotten'
  BY <1>1, <1>8 DEF CredInv, EndedForgotten
<1>. QED  BY <1>5, <1>6, <1>7, <1>9, <1>10 DEF CredInv

LEMMA StopStep == TypeOK /\ Idle /\ CredInv /\ Stop => CredInv'
<1>. SUFFICES ASSUME TypeOK, Idle, CredInv, Stop PROVE CredInv'
  OBVIOUS
<1>1. /\ server = "up" /\ pipe' = <<>> /\ cut' = (cut \/ pipe # <<>>)
      /\ UNCHANGED <<server, bridge, dir, file, mem, db, writes, issued, revoked, late>>
  BY DEF Stop, python, disk
<1>2. Issued' /\ Saving'
  BY <1>1 DEF CredInv, Issued, Saving
<1>3. LogoutBehind' /\ FileFirst'
  BY <1>1 DEF CredInv, LogoutBehind, FileFirst, Places
<1>4. CASE cut \/ pipe # <<>>
  <2>1. cut'
    BY <1>1, <1>4
  <2>. QED  BY <1>2, <1>3, <2>1 DEF CredInv, Reported, EndedForgotten
<1>5. CASE ~cut /\ pipe = <<>>
  <2>1. pipe' = pipe /\ ~cut'
    BY <1>1, <1>5
  <2>2. Reported' /\ EndedForgotten'
    BY <1>1, <1>5, <2>1 DEF CredInv, Reported, EndedForgotten, Places, Update
  <2>. QED  BY <1>2, <1>3, <2>2 DEF CredInv
<1>. QED  BY <1>4, <1>5

(* No bridge, and what is known goes into its directory.                   *)
LEMMA BootStep ==
    ASSUME TypeOK, Idle, CredInv, Start \/ Restart
    PROVE  CredInv'
<1>1. /\ server = "up" /\ reader = "none" /\ bridge'.at = "booted" /\ bridge'.creds = 0
      /\ ~bridge'.unsaved /\ ~bridge'.unsent
      /\ UNCHANGED <<server, pipe, mem, db, writes, issued, revoked, late, cut>>
  BY Numbers DEF Start, Restart, Boots, NoProcess, python
<1>2. pipe = <<>> /\ ~bridge.unsent
  BY <1>1 DEF Idle, NoProcess
<1>3. /\ file' = file \/ file' = mem.creds
      /\ mem.creds = -1 \/ file' = mem.creds \/ file' = file
      /\ file' \in Int
  BY Values, Numbers DEF Start, Restart, Restores
<1>4. Issued'
  <2>1. file' <= issued
    BY <1>3 DEF CredInv, Issued
  <2>. QED  BY <1>1, <2>1, Values DEF CredInv, Issued
<1>5. Saving'
  BY <1>1 DEF Saving
<1>6. LogoutBehind'
  BY <1>1, <1>2 DEF LogoutBehind, Places
<1>7. FileFirst'
  BY <1>1, <1>2, <1>3, Values DEF CredInv, FileFirst, Places
<1>8. Reported'
  BY <1>1, <1>2, <1>3, Values DEF CredInv, Reported, Places
<1>9. EndedForgotten'
  BY <1>1 DEF CredInv, EndedForgotten
<1>. QED  BY <1>4, <1>5, <1>6, <1>7, <1>8, <1>9 DEF CredInv

LEMMA ClearStep == TypeOK /\ Idle /\ CredInv /\ Clear => CredInv'
<1>. SUFFICES ASSUME TypeOK, Idle, CredInv, Clear PROVE CredInv'
  OBVIOUS
<1>1. /\ server = "up" /\ reader = "none" /\ mem'.creds = -1 /\ file' = 0
      /\ dir' = FALSE /\ cut' = FALSE /\ Queue(<<Write("clear", Absent)>>)
      /\ UNCHANGED <<server, bridge, pipe, db, issued, revoked, late>>
  BY Numbers DEF Clear, Forget, NoRow
<1>2. pipe = <<>> /\ ~bridge.unsent /\ ~bridge.unsaved /\ bridge.at = "off"
  BY <1>1 DEF Idle, NoProcess
<1>3. Write("clear", Absent) \in Writes /\ Write("clear", Absent).creds <= issued
  BY Values, WriteTypes, Numbers DEF Write
<1>4. \A i \in 1 .. Len(writes') : writes'[i].creds <= issued
  BY <1>1, <1>3, WritesIssued DEF CredInv
<1>5. issued \in Nat /\ revoked \in Nat
  BY Values
<1>6. Issued'
  BY <1>1, <1>4, <1>5 DEF CredInv, Issued
<1>7. Saving' /\ LogoutBehind' /\ FileFirst'
  BY <1>1, <1>2 DEF Saving, LogoutBehind, FileFirst, Places
<1>8. Reported' /\ EndedForgotten'
  BY <1>1, <1>5 DEF Reported, EndedForgotten
<1>. QED  BY <1>6, <1>7, <1>8 DEF CredInv

(* With nothing lost the row says what the Tenant object said.             *)
LEMMA RowIsKnown ==
    ASSUME Replayed, server = "up", ~late, writes = <<>>
    PROVE  mem = db
<1>1. PICK val : Replay(val)
  BY DEF Replayed
<1>2. Len(writes) = 0
  OBVIOUS
<1>. QED  BY <1>1, <1>2 DEF Replay

LEMMA CrashStep == TypeOK /\ Replayed /\ Idle /\ CredInv /\ Crash => CredInv'
<1>. SUFFICES ASSUME TypeOK, Replayed, Idle, CredInv, Crash PROVE CredInv'
  OBVIOUS
<1>1. /\ server = "up" /\ server' = "down" /\ bridge'.at = "off" /\ bridge'.creds = 0
      /\ ~bridge'.unsaved /\ ~bridge'.unsent /\ pipe' = <<>> /\ writes' = <<>>
      /\ cut' = (cut \/ bridge.unsaved \/ bridge.unsent \/ pipe # <<>> \/ writes # <<>>)
      /\ UNCHANGED <<dir, file, mem, db, issued, revoked, late>>
  BY Numbers DEF Crash, disk, NoProcess
<1>2. Issued' /\ Saving'
  BY <1>1, Values DEF CredInv, Issued, Saving
<1>3. LogoutBehind' /\ FileFirst'
  BY <1>1 DEF CredInv, LogoutBehind, FileFirst, Places
<1>4. EndedForgotten'
  BY <1>1 DEF EndedForgotten
<1>5. Reported'
  <2>. SUFFICES ASSUME ~cut', ~late
                PROVE  /\ file <= revoked \/ db.creds >= file
                       /\ db.creds \notin 1 .. revoked
    BY <1>1 DEF Reported
  <2>1. ~cut /\ ~bridge.unsent /\ pipe = <<>> /\ writes = <<>>
    BY <1>1
  <2>2. mem = db
    BY <1>1, <2>1, RowIsKnown
  <2>3. file <= revoked \/ mem.creds >= file
    BY <1>1, <2>1 DEF CredInv, Reported, Places
  <2>4. mem.creds \notin 1 .. revoked
    BY <1>1, <2>1 DEF CredInv, EndedForgotten
  <2>. QED  BY <2>2, <2>3, <2>4
<1>. QED  BY <1>2, <1>3, <1>4, <1>5 DEF CredInv

LEMMA InitializeStep == TypeOK /\ Idle /\ CredInv /\ Initialize => CredInv'
<1>. SUFFICES ASSUME TypeOK, Idle, CredInv, Initialize PROVE CredInv'
  OBVIOUS
<1>1. /\ server = "down" /\ server' = "up" /\ mem' = db
      /\ UNCHANGED <<bridge, pipe, db, writes, issued, revoked, late, cut>>
  BY DEF Initialize
<1>2. reader = "none" /\ pipe = <<>> /\ bridge = NoProcess
  BY <1>1 DEF Idle
<1>3. /\ ~bridge.unsaved /\ ~bridge.unsent /\ bridge.at = "off" /\ bridge.creds = 0
  BY <1>2, Numbers DEF NoProcess
<1>4. \/ db.creds = -1 /\ file' = file
      \/ db.creds # -1 /\ file' = db.creds
  BY Numbers DEF Initialize, Restores, disk
<1>5. Issued'
  <2>1. file' <= issued
    BY <1>4 DEF CredInv, Issued
  <2>. QED  BY <1>1, <2>1 DEF CredInv, Issued
<1>6. Saving' /\ LogoutBehind'
  BY <1>1, <1>2, <1>3 DEF Saving, LogoutBehind, Places
<1>7. FileFirst'
  BY <1>1, <1>2, <1>4, Values DEF FileFirst, Places
<1>8. ~cut /\ ~late => /\ file <= revoked \/ db.creds >= file
                      /\ db.creds \notin 1 .. revoked
  BY <1>1 DEF CredInv, Reported
<1>9. Reported'
  BY <1>1, <1>2, <1>4, <1>8, Values DEF Reported, Places
<1>10. EndedForgotten'
  BY <1>1, <1>8 DEF EndedForgotten
<1>. QED  BY <1>5, <1>6, <1>7, <1>9, <1>10 DEF CredInv

LEMMA CredStep == TypeOK /\ Replayed /\ Idle /\ CredInv /\ [Next]_vars => CredInv'
<1>. SUFFICES ASSUME TypeOK, Replayed, Idle, CredInv, [Next]_vars PROVE CredInv'
  OBVIOUS
<1>1. CASE Open \/ Renew \/ SaveCreds \/ Report \/ Connected \/ LoggedOut
  BY <1>1, OpenStep, RenewStep, SaveStep, ReportStep, ConnectedStep, LoggedOutStep
<1>2. CASE BridgeExits
  BY <1>2, ExitsStep DEF BridgeExits, python, disk
<1>3. CASE Handle
  BY <1>3, HandleStep
<1>4. CASE \E i \in DOMAIN writes : WriteDone(i)
  BY <1>4, WriteDoneStep
<1>5. CASE Stop
  BY <1>5, StopStep
<1>6. CASE StopDone
  BY <1>6, ExitsStep DEF StopDone, python, disk
<1>7. CASE Start \/ Restart
  BY <1>7, BootStep
<1>8. CASE Clear \/ Crash \/ Initialize
  BY <1>8, ClearStep, CrashStep, InitializeStep
<1>9. CASE UNCHANGED vars
  BY <1>9, CredStays DEF vars, python, disk
<1>. QED  BY <1>1, <1>2, <1>3, <1>4, <1>5, <1>6, <1>7, <1>8, <1>9 DEF Next

LEMMA InitInv == Init => SessionInv
<1>. SUFFICES ASSUME Init PROVE SessionInv
  OBVIOUS
<1>1. TypeOK
  <2>1. bridge \in [at : {"off", "booted", "open", "closed"}, creds : Versions,
                   unsaved : BOOLEAN, unsent : BOOLEAN]
    BY Numbers DEF Init, NoProcess
  <2>2. /\ file \in Versions /\ issued \in Versions /\ revoked \in Versions
        /\ mem \in Row /\ db \in Row
    BY ForgottenTypes DEF Init
  <2>3. dir \in BOOLEAN /\ late \in BOOLEAN /\ cut \in BOOLEAN
    BY DEF Init
  <2>4. pipe \in Seq(Events) /\ writes \in Seq(Writes)
    BY DEF Init
  <2>5. backend \in {"sqlite", "postgres"} /\ server \in {"up", "down"}
        /\ reader \in {"none", "on", "off"}
    BY DEF Init
  <2>. QED  BY <2>1, <2>2, <2>3, <2>4, <2>5 DEF TypeOK
<1>2. Replayed
  <2>0. PICK val : val = [i \in 0 .. 0 |-> NoRow]
    OBVIOUS
  <2>1. val \in [0 .. Len(writes) -> Row] /\ val[0] = NoRow /\ Len(writes) = 0
    BY <2>0, ForgottenTypes DEF Init
  <2>2. Replay(val)
    BY <2>1 DEF Replay, Init
  <2>. QED  BY <2>2 DEF Replayed
<1>3. Idle
  BY DEF Init, Idle
<1>4. Issued /\ Saving
  BY Numbers DEF Init, Issued, Saving, NoProcess, NoRow
<1>5. LogoutBehind /\ FileFirst
  BY Numbers DEF Init, LogoutBehind, FileFirst, Places, NoRow
<1>6. Reported /\ EndedForgotten
  BY Numbers DEF Init, Reported, EndedForgotten, NoRow
<1>. QED  BY <1>1, <1>2, <1>3, <1>4, <1>5, <1>6 DEF SessionInv

-----------------------------------------------------------------------------
(***************************************************************************)
(* What holds.                                                             *)
(***************************************************************************)
(* The invariant holds in every state of the four places and what lies     *)
(* between them.                                                           *)
THEOREM SessionInvariant == Spec => []SessionInv
<1>1. SessionInv /\ [Next]_vars => SessionInv'
  <2>1. SessionInv <=> TypeOK /\ Replayed /\ Idle /\ CredInv
    BY DEF SessionInv, CredInv
  <2>2. (TypeOK /\ Replayed /\ Idle /\ CredInv)' => SessionInv'
    BY DEF SessionInv, CredInv
  <2>. QED  BY <2>1, <2>2, TypeStep, ReplayedStep, IdleStep, CredStep
<1>. QED  BY InitInv, <1>1, PTL DEF Spec

(* The credentials and the queues have their types, whatever the numbers.  *)
THEOREM SessionTypes == Spec => []TypeOK
<1>1. SessionInv => TypeOK
  BY DEF SessionInv
<1>. QED  BY SessionInvariant, <1>1, PTL

(* With no write under way and none overtaken, the row says what the       *)
(* Tenant object says: the writes, one by one, repeat what save_auth_state *)
(* and clear_creds did to it.                                              *)
THEOREM RowAgreesHolds == Spec => []RowAgrees
<1>1. SessionInv => RowAgrees
  BY RowIsKnown DEF SessionInv, RowAgrees
<1>. QED  BY SessionInvariant, <1>1, PTL

(* Credentials that WhatsApp has ended stay in the Tenant object only while *)
(* the event of the logout is on its way, or when something was lost.      *)
THEOREM EndedForgottenHolds == Spec => []EndedForgotten
<1>1. SessionInv => EndedForgotten
  BY DEF SessionInv
<1>. QED  BY SessionInvariant, <1>1, PTL

(* createSocket never opens a socket with older credentials than the server *)
(* has been told of, unless these are logged out.                          *)
THEOREM OpensWithKnownHolds == Spec => OpensWithKnown
<1>1. SessionInv /\ [Next]_vars => [Open => file >= mem.creds \/ mem.creds <= revoked]_vars
  <2>. SUFFICES ASSUME SessionInv PROVE file >= mem.creds \/ mem.creds <= revoked
    OBVIOUS
  <2>. QED  BY Values DEF SessionInv, FileFirst
<1>. QED  BY SessionInvariant, <1>1, PTL DEF Spec, OpensWithKnown

(* Older credentials replace newer ones, when a bridge or the server starts, *)
(* only after an event or a write that reported the newer ones was lost.   *)
THEOREM RestoresNewestHolds == Spec => RestoresNewest
<1>1. SessionInv /\ [Next]_vars =>
          [Start \/ Initialize => file' >= file \/ file <= revoked \/ cut \/ late]_vars
  <2>. SUFFICES ASSUME SessionInv, Start \/ Initialize, ~(file <= revoked), ~cut, ~late
                PROVE  file' >= file
    OBVIOUS
  <2>0. TypeOK /\ Idle /\ Reported
    BY DEF SessionInv
  <2>1. file \in Nat /\ mem.creds \in Int /\ db.creds \in Int
    BY <2>0, Values
  <2>2. CASE Start
    <3>1. server = "up" /\ pipe = <<>> /\ ~bridge.unsent
      BY <2>0, <2>2 DEF Start, Boots, Idle, NoProcess
    <3>2. mem.creds >= file
      BY <2>0, <3>1 DEF Reported, Places
    <3>. QED  BY <2>1, <2>2, <3>2 DEF Start, Restores
  <2>3. CASE Initialize
    <3>1. server = "down"
      BY <2>3 DEF Initialize
    <3>2. db.creds >= file
      BY <2>0, <3>1 DEF Reported
    <3>. QED  BY <2>1, <2>3, <3>2 DEF Initialize, Restores, disk
  <2>. QED  BY <2>2, <2>3
<1>. QED  BY SessionInvariant, <1>1, PTL DEF Spec, RestoresNewest

=============================================================================
