---------------------------- MODULE AccessProofs ----------------------------
(***************************************************************************)
(* Proofs about Access for every number of addresses, requests, sessions,  *)
(* browsers, sockets and threads, every setting of the limits and every    *)
(* population in Configs.                                                  *)
(***************************************************************************)
EXTENDS Access, FiniteSetTheorems, SequenceTheorems, TLAPS

-----------------------------------------------------------------------------
(* The dashboard's sessions.                                               *)

(* A request that is past its first look has the cookie of a session.      *)
CookieGiven ==
    \A b \in Browsers : visit[b].step \in {"delete", "refresh", "renew"} =>
        visit[b].cookie \in given

SessionsInv == SessionsTypeOK /\ CookieGiven /\ EndedStays

LEMMA SessionsStart ==
    ASSUME NEW before \in SUBSET Sessions, SessionsInit(before)
    PROVE  SessionsInv
BY DEF SessionsInit, SessionsInv, SessionsTypeOK, CookieGiven, EndedStays, NoVisit

(* What one request does.                                                  *)
LEMMA VisitStep ==
    ASSUME SessionsInv, NEW b \in Browsers,
           \/ \E cookie \in given \cup {"none"} : Login(b, cookie)
           \/ \E cookie \in given, asks \in {"page", "logout"} : Visit(b, cookie, asks)
           \/ Create(b) \/ Delete(b) \/ Refresh(b) \/ Renew(b)
    PROVE  SessionsInv'
<1>. USE DEF SessionsInv, SessionsTypeOK, CookieGiven, EndedStays
<1>1. CASE \E cookie \in given \cup {"none"} : Login(b, cookie)
  <2>. PICK cookie \in given \cup {"none"} : Login(b, cookie)  BY <1>1
  <2>. QED  BY DEF Login
<1>2. CASE \E cookie \in given, asks \in {"page", "logout"} : Visit(b, cookie, asks)
  <2>. PICK cookie \in given, asks \in {"page", "logout"} : Visit(b, cookie, asks)  BY <1>2
  <2>. QED  BY DEF Visit
<1>3. CASE Create(b)
  BY <1>3 DEF Create, Answered, NoVisit
<1>4. CASE Delete(b)
  <2>1. visit[b].cookie \in given  BY <1>4 DEF Delete
  <2>. QED  BY <1>4, <2>1 DEF Delete, Answered, Goes, NoVisit
<1>5. CASE Refresh(b)
  BY <1>5 DEF Refresh, Handle, Answered, Goes, NoVisit
<1>6. CASE Renew(b)
  BY <1>6 DEF Renew, Renewed, Handle, Answered, Goes, NoVisit
<1>. QED  BY <1>1, <1>2, <1>3, <1>4, <1>5, <1>6

LEMMA SessionsStep ==
    ASSUME SessionsInv, NEW browsers \in SUBSET Browsers, NEW aging \in SUBSET Sessions,
           SessionWork(browsers, aging)
    PROVE  SessionsInv'
<1>1. ASSUME NEW b \in Browsers,
             \/ \E cookie \in given \cup {"none"} : Login(b, cookie)
             \/ \E cookie \in given, asks \in {"page", "logout"} : Visit(b, cookie, asks)
             \/ Create(b) \/ Delete(b) \/ Refresh(b) \/ Renew(b)
      PROVE  SessionsInv'
  BY <1>1, VisitStep
<1>2. ASSUME NEW s \in Sessions, Age(s)
      PROVE  SessionsInv'
  BY <1>2 DEF SessionsInv, SessionsTypeOK, CookieGiven, EndedStays, Age, Valid
<1>. QED  BY <1>1, <1>2 DEF SessionWork

LEMMA SessionsIdle ==
    ASSUME SessionsInv, UNCHANGED sessionVars
    PROVE  SessionsInv'
BY DEF SessionsInv, SessionsTypeOK, CookieGiven, EndedStays, sessionVars
-----------------------------------------------------------------------------
(* The rate limiter.                                                       *)

(* A request under way is of some address.                                 *)
WorkerPlaced == \A w \in Workers : worker[w].step # "idle" => worker[w].ip \in Ips

(* Every request let through that a window still counts is in its table,   *)
(* whoever pruned the table last and with whatever cutoff.                 *)
Windows ==
    \A ip \in Ips :
        /\ Recent(passed[ip], DOMAIN passed[ip], Minute) \subseteq perMinute[ip]
        /\ Recent(passed[ip], DOMAIN passed[ip], Hour) \subseteq perHour[ip]

(* The entry of a block is that of the latest one, and an address without  *)
(* an entry is rightly served.                                             *)
BlocksHold ==
    \A ip \in Ips :
        /\ blocked[ip] # Never => blocked[ip] = since[ip]
        /\ blocked[ip] = Never => Served(ip)

(* The loop runs one function at a time, and the windows are for a request *)
(* of its own.                                                             *)
Turns ==
    /\ \A v, w \in Workers : worker[v].call \in OnLoop /\ worker[w].call \in OnLoop => v = w
    /\ \A w \in Workers : worker[w].step = "windows" => worker[w].call = "check"

(* A request past the middleware's last look is rightly served, unless its *)
(* address was blocked since; then none has slipped past that block yet.   *)
MayPass(ip) == Served(ip) \/ ip \notin slipped
Past(w) == worker[w].call = "check" /\ worker[w].step \in {"drop", "forget", "windows"}
Seen == \A w \in Workers : Past(w) => MayPass(worker[w].ip)

LimiterInv == LimiterTypeOK /\ WorkerPlaced /\ Windows /\ BlocksHold /\ Turns /\ Seen

LEMMA LimiterStart ==
    ASSUME LimiterInit
    PROVE  LimiterInv
<1>. USE LimiterAssumption DEF LimiterInit
<1>1. LimiterTypeOK
  BY FS_EmptySet DEF LimiterTypeOK, Idle, Never
<1>2. WorkerPlaced /\ BlocksHold
  BY DEF WorkerPlaced, BlocksHold, Served, Idle
<1>3. Windows
  BY DEF Windows, Recent
<1>4. Turns /\ Seen
  BY DEF Turns, Seen, Past, OnLoop, Idle
<1>. QED  BY <1>1, <1>2, <1>3, <1>4 DEF LimiterInv

(* The tables, the blocks and the workers are proved about separately: an  *)
(* action changes some of them.                                            *)
Tables ==
    /\ clock \in 0 .. MaxClock
    /\ passed \in [Ips -> Seq(0 .. MaxClock)]
    /\ perMinute \in [Ips -> SUBSET (Nat \ {0})] /\ perHour \in [Ips -> SUBSET (Nat \ {0})]
    /\ \A ip \in Ips : perMinute[ip] \cup perHour[ip] \subseteq DOMAIN passed[ip]
    /\ count \in 0 .. (CleanupEvery - 1)
    /\ Windows

Blocks ==
    /\ blocked \in [Ips -> {Never} \cup 0 .. MaxClock]
    /\ since \in [Ips -> {Never} \cup 0 .. MaxClock]
    /\ overtaken \subseteq Ips /\ slipped \subseteq Ips
    /\ BlocksHold

Failures ==
    /\ failed \in [Ips -> SUBSET [at : 0 .. MaxClock, nth : Nat \ {0}]]
    /\ \A ip \in Ips : IsFiniteSet(failed[ip])

WorkersOK ==
    /\ worker \in [Workers -> [call : {"none", "enter", "check", "key", "ask"},
                               step : {"idle", "look", "drop", "forget", "windows",
                                       "judge", "count", "clear"},
                               ip : Ips \cup {"none"},
                               key : {"none", "right", "wrong"}]]
    /\ WorkerPlaced /\ Turns

LEMMA LimiterParts == LimiterInv <=> Tables /\ Blocks /\ Failures /\ WorkersOK /\ Seen
BY DEF LimiterInv, LimiterTypeOK, Tables, Blocks, Failures, WorkersOK

LEMMA LimiterPartsNext ==
    LimiterInv' <=> Tables' /\ Blocks' /\ Failures' /\ WorkersOK' /\ Seen'
BY LimiterParts, PTL

LEMMA TablesIdle ==
    ASSUME Tables, UNCHANGED <<clock, requestVars>>
    PROVE  Tables'
BY DEF Tables, Windows, Recent, requestVars

LEMMA BlocksIdle ==
    ASSUME Blocks, UNCHANGED <<clock, blockVars>>
    PROVE  Blocks'
BY DEF Blocks, BlocksHold, Served, blockVars

LEMMA FailuresIdle ==
    ASSUME Failures, UNCHANGED failed
    PROVE  Failures'
BY DEF Failures

LEMMA WorkersIdle ==
    ASSUME WorkersOK, UNCHANGED worker
    PROVE  WorkersOK'
BY DEF WorkersOK, WorkerPlaced, Turns

(* Who is past the last look was so before, or is rightly served; what one *)
(* address may do is not lost.                                             *)
LEMMA SeenKept ==
    ASSUME Seen, WorkersOK,
           \A w \in Workers : Past(w)' => \/ Past(w) /\ worker'[w].ip = worker[w].ip
                                          \/ Served(worker[w].ip) /\ worker'[w].ip = worker[w].ip,
           \A ip \in Ips : MayPass(ip) => MayPass(ip)',
           \A w \in Workers : Past(w)' => worker'[w].ip \in Ips
    PROVE  Seen'
<1>. SUFFICES ASSUME NEW w \in Workers, Past(w)'
              PROVE  MayPass(worker[w].ip)'
  BY DEF Seen
<1>1. worker'[w].ip \in Ips /\ MayPass(worker[w].ip) /\ worker'[w].ip = worker[w].ip
  BY DEF Seen, MayPass
<1>2. PICK ip \in Ips : ip = worker[w].ip
  BY <1>1
<1>3. MayPass(ip)'
  BY <1>1, <1>2
<1>. QED  BY <1>1, <1>2, <1>3 DEF MayPass, Served

LEMMA SeenIdle ==
    ASSUME Seen, UNCHANGED <<clock, blockVars, worker>>
    PROVE  Seen'
BY DEF Seen, Past, MayPass, Served, blockVars

(* A step of a request that is not past the last look, and stays so.       *)
LEMMA SeenAside ==
    ASSUME Seen, WorkersOK, NEW w \in Workers, ~Past(w)',
           \A v \in Workers \ {w} : worker'[v] = worker[v],
           \A ip \in Ips : MayPass(ip) => MayPass(ip)'
    PROVE  Seen'
<1>1. \A v \in Workers : Past(v)' => v # w /\ Past(v) /\ worker'[v] = worker[v]
  BY DEF Past
<1>2. \A v \in Workers : Past(v)' => worker'[v].ip \in Ips
  BY <1>1 DEF WorkersOK, WorkerPlaced, Past
<1>. QED  BY <1>1, <1>2, SeenKept

LEMMA MayPassIdle ==
    ASSUME UNCHANGED <<clock, blockVars>>
    PROVE  \A ip \in Ips : MayPass(ip) => MayPass(ip)'
BY DEF MayPass, Served, blockVars

LEMMA MayPassBlock ==
    ASSUME NEW ip \in Ips, Block(ip), UNCHANGED clock, Blocks
    PROVE  \A other \in Ips : MayPass(other) => MayPass(other)'
<1>. SUFFICES ASSUME NEW other \in Ips, MayPass(other)
              PROVE  MayPass(other)'
  OBVIOUS
<1>1. CASE other = ip
  BY <1>1 DEF Block, MayPass
<1>2. CASE other # ip
  BY <1>2 DEF Block, MayPass, Served, Blocks
<1>. QED  BY <1>1, <1>2

(* Block(ip): the new entry is the latest one.                             *)
LEMMA BlocksBlock ==
    ASSUME Tables, Blocks, NEW ip \in Ips, Block(ip), UNCHANGED clock
    PROVE  Blocks'
<1>1. clock \in 0 .. MaxClock /\ clock # Never
  BY DEF Tables, Never
<1>. QED  BY <1>1 DEF Blocks, BlocksHold, Served, Block

(* A worker that goes on or leaves is still placed.                        *)
LEMMA WorkersGo ==
    ASSUME WorkersOK, NEW w \in Workers, worker[w].step # "idle",
           NEW step \in {"drop", "forget", "count", "clear"},
           GoTo(w, step) \/ Leave(w) \/ Calls(w, "key") \/ Then(w)
    PROVE  WorkersOK' /\ \A v \in Workers \ {w} : worker'[v] = worker[v]
<1>. DEFINE Kind == [call : {"none", "enter", "check", "key", "ask"},
                     step : {"idle", "look", "drop", "forget", "windows",
                             "judge", "count", "clear"},
                     ip : Ips \cup {"none"},
                     key : {"none", "right", "wrong"}]
<1>0. worker \in [Workers -> Kind] /\ WorkerPlaced /\ Turns /\ worker[w].ip \in Ips
  BY DEF WorkersOK, WorkerPlaced
<1>1. ASSUME NEW one \in Kind, worker' = [worker EXCEPT ![w] = one],
             one.step # "idle" => one.ip \in Ips,
             one.call \in OnLoop => worker[w].call \in OnLoop,
             one.step = "windows" => one.call = "check"
      PROVE  WorkersOK' /\ \A v \in Workers \ {w} : worker'[v] = worker[v]
  <2>1. /\ worker' \in [Workers -> Kind] /\ worker'[w] = one
        /\ \A v \in Workers \ {w} : worker'[v] = worker[v]
    BY <1>0, <1>1
  <2>2. WorkerPlaced'
    BY <1>0, <1>1, <2>1 DEF WorkerPlaced
  <2>3. Turns'
    BY <1>0, <1>1, <2>1 DEF Turns
  <2>. QED  BY <2>1, <2>2, <2>3 DEF WorkersOK
<1>2. ASSUME NEW next \in {"drop", "forget", "count", "clear", "judge"}, GoTo(w, next)
      PROVE  WorkersOK' /\ \A v \in Workers \ {w} : worker'[v] = worker[v]
  <2>. DEFINE one == [worker[w] EXCEPT !.step = next]
  <2>1. one \in Kind /\ one.ip = worker[w].ip /\ one.call = worker[w].call /\ one.step = next
    BY <1>0
  <2>2. worker' = [worker EXCEPT ![w] = one]
    BY <1>2 DEF GoTo
  <2>. HIDE DEF one
  <2>. QED  BY <1>0, <1>1, <2>1, <2>2
<1>3. ASSUME worker[w].call = "check", GoTo(w, "windows")
      PROVE  WorkersOK' /\ \A v \in Workers \ {w} : worker'[v] = worker[v]
  <2>. DEFINE one == [worker[w] EXCEPT !.step = "windows"]
  <2>1. one \in Kind /\ one.ip = worker[w].ip /\ one.call = "check" /\ one.step = "windows"
    BY <1>0, <1>3
  <2>2. worker' = [worker EXCEPT ![w] = one]
    BY <1>3 DEF GoTo
  <2>. HIDE DEF one
  <2>. QED  BY <1>0, <1>1, <1>3, <2>1, <2>2
<1>4. ASSUME Leave(w)
      PROVE  WorkersOK' /\ \A v \in Workers \ {w} : worker'[v] = worker[v]
  <2>1. Idle \in Kind /\ Idle.step = "idle" /\ Idle.call \notin OnLoop
    BY DEF Idle, OnLoop
  <2>2. worker' = [worker EXCEPT ![w] = Idle]
    BY <1>4 DEF Leave
  <2>. QED  BY <1>1, <2>1, <2>2
<1>5. ASSUME NEW call \in {"check", "key"}, Calls(w, call),
             call = "check" => worker[w].call = "enter"
      PROVE  WorkersOK' /\ \A v \in Workers \ {w} : worker'[v] = worker[v]
  <2>. DEFINE one == [call |-> call, step |-> "look", ip |-> worker[w].ip,
                      key |-> worker[w].key]
  <2>1. one \in Kind /\ one.ip = worker[w].ip /\ one.call = call /\ one.step = "look"
    BY <1>0
  <2>2. worker' = [worker EXCEPT ![w] = one]
    BY <1>5 DEF Calls
  <2>3. one.call \in OnLoop => worker[w].call \in OnLoop
    BY <1>5, <2>1 DEF OnLoop
  <2>. HIDE DEF one
  <2>. QED  BY <1>0, <1>1, <2>1, <2>2, <2>3
<1>. HIDE DEF Kind
<1>6. CASE Then(w)
  BY <1>2, <1>3, <1>4, <1>5, <1>6 DEF Then
<1>. QED  BY <1>2, <1>4, <1>5, <1>6

(* Pruning a table with a cutoff that is not later than the window's       *)
(* leaves what the window counts.                                          *)
LEMMA RecentKept ==
    ASSUME NEW times, NEW numbers, NEW table, NEW short \in Nat, NEW long \in Nat,
           clock \in Nat, numbers = DOMAIN times, times \in Seq(Nat),
           short <= long, Recent(times, numbers, short) \subseteq table
    PROVE  Recent(times, numbers, short) \subseteq Recent(times, table, long)
<1>. SUFFICES ASSUME NEW n \in Recent(times, numbers, short)
              PROVE  n \in Recent(times, table, long)
  OBVIOUS
<1>1. n \in numbers /\ times[n] > clock - short /\ n \in table
  BY DEF Recent
<1>2. times[n] \in Nat
  BY <1>1
<1>. QED  BY <1>1, <1>2 DEF Recent
(* What happens to the tables of one address when they are pruned with     *)
(* their own windows.                                                      *)
LEMMA TablesPruned ==
    ASSUME Tables, UNCHANGED <<clock, count, passed>>, NEW some \in SUBSET Ips,
           perMinute' = PrunedOf(perMinute, some, Minute),
           perHour' = PrunedOf(perHour, some, Hour)
    PROVE  Tables'
<1>1. ASSUME NEW ip \in Ips
      PROVE  /\ perMinute'[ip] \in SUBSET (Nat \ {0}) /\ perHour'[ip] \in SUBSET (Nat \ {0})
             /\ perMinute'[ip] \cup perHour'[ip] \subseteq DOMAIN passed[ip]
             /\ Recent(passed[ip], DOMAIN passed[ip], Minute) \subseteq perMinute'[ip]
             /\ Recent(passed[ip], DOMAIN passed[ip], Hour) \subseteq perHour'[ip]
  BY <1>1 DEF Tables, Windows, PrunedOf, Recent
<1>2. /\ perMinute' \in [Ips -> SUBSET (Nat \ {0})] /\ perHour' \in [Ips -> SUBSET (Nat \ {0})]
  BY <1>1 DEF PrunedOf
<1>3. Windows'
  BY <1>1 DEF Windows, Recent
<1>. QED  BY <1>1, <1>2, <1>3 DEF Tables

(* A request let through is a new number in both tables, and the cleanup   *)
(* that may come with it drops only what neither window counts.            *)
LEMMA TablesPass ==
    ASSUME Tables, UNCHANGED clock, NEW ip \in Ips,
           Pass(ip, Recent(passed[ip], perMinute[ip], Minute),
                    Recent(passed[ip], perHour[ip], Hour))
    PROVE  Tables'
<1>. DEFINE new == Len(passed[ip]) + 1
            minutes == [perMinute EXCEPT ![ip] =
                            Recent(passed[ip], perMinute[ip], Minute) \cup {new}]
            hours == [perHour EXCEPT ![ip] =
                            Recent(passed[ip], perHour[ip], Hour) \cup {new}]
<1>0. /\ clock \in Nat /\ Minute \in Nat \ {0} /\ Hour \in Nat \ {0} /\ Minute <= Hour
      /\ CleanupEvery \in Nat \ {0}
  BY LimiterAssumption DEF Tables
<1>1. /\ passed' = [passed EXCEPT ![ip] = Append(passed[ip], clock)]
      /\ passed' \in [Ips -> Seq(0 .. MaxClock)]
      /\ count' \in 0 .. (CleanupEvery - 1)
  <2>1. passed' = [passed EXCEPT ![ip] = Append(passed[ip], clock)]
    BY DEF Pass
  <2>2. passed[ip] \in Seq(0 .. MaxClock) /\ clock \in 0 .. MaxClock
    BY DEF Tables
  <2>3. Append(passed[ip], clock) \in Seq(0 .. MaxClock)
    BY <2>2
  <2>4. passed' \in [Ips -> Seq(0 .. MaxClock)]
    BY <2>1, <2>3 DEF Tables
  <2>5. count' \in 0 .. (CleanupEvery - 1)
    BY <1>0 DEF Pass, Tables
  <2>. QED  BY <2>1, <2>4, <2>5
<1>2. ASSUME NEW other \in Ips
      PROVE  /\ minutes[other] \cup hours[other] \subseteq DOMAIN passed'[other]
             /\ DOMAIN passed'[other] \subseteq Nat \ {0}
             /\ passed'[other] \in Seq(Nat)
             /\ Recent(passed'[other], DOMAIN passed'[other], Minute) \subseteq minutes[other]
             /\ Recent(passed'[other], DOMAIN passed'[other], Hour) \subseteq hours[other]
  <2>1. passed[other] \in Seq(0 .. MaxClock) /\ passed'[other] \in Seq(0 .. MaxClock)
    BY <1>1 DEF Tables
  <2>2. DOMAIN passed'[other] \subseteq Nat \ {0} /\ passed'[other] \in Seq(Nat)
    <3>1. DOMAIN passed'[other] \subseteq Nat \ {0}
      BY <2>1
    <3>2. 0 .. MaxClock \subseteq Nat
      OBVIOUS
    <3>. QED  BY <2>1, <3>1, <3>2, SeqMonotonic
  <2>3. CASE other # ip
    <3>1. passed'[other] = passed[other] /\ minutes[other] = perMinute[other]
          /\ hours[other] = perHour[other]
      BY <1>1, <2>3 DEF Tables
    <3>. QED  BY <2>2, <3>1 DEF Tables, Windows
  <2>4. CASE other = ip
    <3>1. /\ passed'[ip] = Append(passed[ip], clock)
          /\ DOMAIN passed'[ip] = DOMAIN passed[ip] \cup {new}
          /\ \A n \in DOMAIN passed[ip] : passed'[ip][n] = passed[ip][n]
      <4>1. passed'[ip] = Append(passed[ip], clock)
        BY <1>1 DEF Tables
      <4>2. passed[ip] \in Seq(0 .. MaxClock) /\ clock \in 0 .. MaxClock
        BY DEF Tables
      <4>. QED  BY <4>1, <4>2
    <3>2. /\ minutes[ip] = Recent(passed[ip], perMinute[ip], Minute) \cup {new}
          /\ hours[ip] = Recent(passed[ip], perHour[ip], Hour) \cup {new}
      BY DEF Tables
    <3>3. /\ perMinute[ip] \subseteq DOMAIN passed[ip] /\ perHour[ip] \subseteq DOMAIN passed[ip]
          /\ Recent(passed[ip], DOMAIN passed[ip], Minute) \subseteq perMinute[ip]
          /\ Recent(passed[ip], DOMAIN passed[ip], Hour) \subseteq perHour[ip]
      BY DEF Tables, Windows
    <3>4. minutes[ip] \cup hours[ip] \subseteq DOMAIN passed'[ip]
      BY <3>1, <3>2, <3>3 DEF Recent
    <3>5. Recent(passed'[ip], DOMAIN passed'[ip], Minute) \subseteq minutes[ip]
      BY <3>1, <3>2, <3>3 DEF Recent
    <3>6. Recent(passed'[ip], DOMAIN passed'[ip], Hour) \subseteq hours[ip]
      BY <3>1, <3>2, <3>3 DEF Recent
    <3>. QED  BY <2>2, <2>4, <3>4, <3>5, <3>6
  <2>. QED  BY <2>3, <2>4
<1>3. ASSUME NEW other \in Ips
      PROVE  /\ perMinute'[other] \cup perHour'[other] \subseteq DOMAIN passed'[other]
             /\ perMinute'[other] \in SUBSET (Nat \ {0}) /\ perHour'[other] \in SUBSET (Nat \ {0})
             /\ Recent(passed'[other], DOMAIN passed'[other], Minute) \subseteq perMinute'[other]
             /\ Recent(passed'[other], DOMAIN passed'[other], Hour) \subseteq perHour'[other]
  <2>1. CASE count + 1 = CleanupEvery
    <3>1. /\ perMinute'[other] = Recent(passed'[other], minutes[other], Hour)
          /\ perHour'[other] = Recent(passed'[other], hours[other], Hour)
      BY <2>1 DEF Pass, Kept
    <3>2. Recent(passed'[other], DOMAIN passed'[other], Minute)
              \subseteq Recent(passed'[other], minutes[other], Hour)
      BY <1>0, <1>2, RecentKept
    <3>3. Recent(passed'[other], DOMAIN passed'[other], Hour)
              \subseteq Recent(passed'[other], hours[other], Hour)
      BY <1>0, <1>2, RecentKept
    <3>4. /\ Recent(passed'[other], minutes[other], Hour) \subseteq minutes[other]
          /\ Recent(passed'[other], hours[other], Hour) \subseteq hours[other]
      BY DEF Recent
    <3>. QED  BY <1>2, <3>1, <3>2, <3>3, <3>4
  <2>2. CASE count + 1 # CleanupEvery
    <3>1. perMinute'[other] = minutes[other] /\ perHour'[other] = hours[other]
      BY <2>2 DEF Pass
    <3>. QED  BY <1>2, <3>1
  <2>. QED  BY <2>1, <2>2
<1>4. /\ perMinute' \in [Ips -> SUBSET (Nat \ {0})] /\ perHour' \in [Ips -> SUBSET (Nat \ {0})]
  BY <1>3 DEF Pass, Kept, Tables
<1>5. Windows'
  BY <1>3 DEF Windows, Recent
<1>. QED  BY <1>0, <1>1, <1>3, <1>4, <1>5 DEF Tables
(* Attempts are forgotten, at some addresses all or some of them.          *)
LEMMA FailuresForgotten ==
    ASSUME Failures, failed' \in [Ips -> SUBSET [at : 0 .. MaxClock, nth : Nat \ {0}]],
           \A ip \in Ips : failed'[ip] \subseteq failed[ip]
    PROVE  Failures'
<1>1. ASSUME NEW ip \in Ips
      PROVE  IsFiniteSet(failed'[ip])
  BY <1>1, FS_Subset DEF Failures
<1>. QED  BY <1>1 DEF Failures

LEMMA FailuresCleared ==
    ASSUME Failures, NEW ip \in Ips, failed' = [failed EXCEPT ![ip] = {}]
    PROVE  Failures'
<1>1. /\ failed' \in [Ips -> SUBSET [at : 0 .. MaxClock, nth : Nat \ {0}]]
      /\ \A other \in Ips : failed'[other] \subseteq failed[other]
  BY DEF Failures
<1>. QED  BY <1>1, FailuresForgotten

(* is_blocked, in the hands of one request.                                *)
LEMMA LookStep ==
    ASSUME LimiterInv, NEW w \in Workers, Look(w) \/ Drop(w) \/ Forget(w)
    PROVE  LimiterInv'
<1>. DEFINE ip == worker[w].ip
<1>0. Tables /\ Blocks /\ Failures /\ WorkersOK /\ Seen
  BY LimiterParts
<1>1. worker[w].step # "idle" /\ ip \in Ips
  BY <1>0 DEF Look, Drop, Forget, At, WorkersOK, WorkerPlaced
<1>2. Tables'
  BY <1>0, TablesIdle DEF Look, Drop, Forget
<1>3. WorkersOK' /\ \A v \in Workers \ {w} : worker'[v] = worker[v]
  BY <1>0, <1>1, WorkersGo DEF Look, Drop, Forget
<1>4. worker'[w] = Idle \/ worker'[w].ip = ip
  BY <1>0, <1>1 DEF Look, Drop, Forget, Then, GoTo, Leave, Calls, WorkersOK
<1>5. \A other \in Ips : MayPass(other) => MayPass(other)'
  BY DEF Look, Drop, Forget, MayPass, Served, blockVars
<1>6. ASSUME Past(w)'
      PROVE  (Past(w) \/ Served(ip)) /\ worker'[w].ip = ip
  <2>1. worker'[w].ip = ip
    BY <1>4, <1>6 DEF Past, Idle
  <2>2. CASE Look(w)
    <3>1. worker'[w] # Idle
      BY <1>6 DEF Past, Idle
    <3>2. ~Leave(w)
      BY <1>0, <3>1 DEF Leave, WorkersOK
    <3>3. Served(ip)
      BY <1>0, <1>1, <2>2, <3>2 DEF Look, Blocks, BlocksHold, Served, Expired
    <3>. QED  BY <2>1, <3>3
  <2>3. CASE Drop(w) \/ Forget(w)
    <3>1. worker[w].step \in {"drop", "forget"}
      BY <2>3 DEF Drop, Forget, At
    <3>2. worker[w].call = "check"
      <4>1. CASE worker' = [worker EXCEPT ![w].step = "forget"]
        BY <1>0, <1>6, <4>1 DEF Past, WorkersOK
      <4>2. CASE Leave(w)
        BY <1>0, <1>6, <4>2 DEF Leave, Past, Idle, WorkersOK
      <4>3. CASE Then(w)
        BY <1>0, <1>6, <4>3 DEF Then, Calls, GoTo, Leave, Past, Idle, WorkersOK
      <4>. QED  BY <2>3, <4>1, <4>2, <4>3 DEF Drop, Forget, GoTo
    <3>. QED  BY <2>1, <3>1, <3>2 DEF Past
  <2>. QED  BY <2>2, <2>3
<1>7. Seen'
  <2>1. ASSUME NEW v \in Workers, Past(v)'
        PROVE  /\ (Past(v) \/ Served(worker[v].ip)) /\ worker'[v].ip = worker[v].ip
               /\ worker'[v].ip \in Ips
    <3>1. CASE v = w
      BY <1>1, <1>6, <2>1, <3>1
    <3>2. CASE v # w
      <4>1. Past(v) /\ worker'[v] = worker[v]
        BY <1>3, <2>1, <3>2 DEF Past
      <4>. QED  BY <1>0, <4>1 DEF Past, WorkersOK, WorkerPlaced
    <3>. QED  BY <3>1, <3>2
  <2>. QED  BY <1>0, <1>5, <2>1, SeenKept
<1>8. CASE Drop(w)
  <2>1. Failures'
    BY <1>0, <1>8, FailuresIdle DEF Drop
  <2>2. Blocks'
    BY <1>0, <1>1, <1>8 DEF Drop, Blocks, BlocksHold, Served, Refused, Expired
  <2>. QED  BY <1>2, <1>3, <1>7, <2>1, <2>2, LimiterPartsNext
<1>9. CASE Forget(w)
  <2>1. Failures'
    BY <1>0, <1>1, <1>9, FailuresCleared DEF Forget
  <2>2. Blocks'
    BY <1>0, <1>9, BlocksIdle DEF Forget
  <2>. QED  BY <1>2, <1>3, <1>7, <2>1, <2>2, LimiterPartsNext
<1>10. CASE Look(w)
  <2>1. Failures'
    BY <1>0, <1>10, FailuresIdle DEF Look
  <2>2. Blocks'
    BY <1>0, <1>10, BlocksIdle DEF Look
  <2>. QED  BY <1>2, <1>3, <1>7, <2>1, <2>2, LimiterPartsNext
<1>. QED  BY <1>8, <1>9, <1>10

(* check_rate_limit.                                                       *)
LEMMA LimitStep ==
    ASSUME LimiterInv, NEW w \in Workers, Limit(w)
    PROVE  LimiterInv'
<1>. DEFINE ip == worker[w].ip
            inMinute == Recent(passed[ip], perMinute[ip], Minute)
            inHour == Recent(passed[ip], perHour[ip], Hour)
<1>0. Tables /\ Blocks /\ Failures /\ WorkersOK /\ Seen
  BY LimiterParts
<1>1. worker[w].step # "idle" /\ ip \in Ips
  BY <1>0 DEF Limit, At, WorkersOK, WorkerPlaced
<1>2. Failures'
  BY <1>0, FailuresIdle DEF Limit
<1>3. UNCHANGED clock
  BY DEF Limit
<1>4. CASE /\ Block(ip)
           /\ perMinute' = [perMinute EXCEPT ![ip] = inMinute]
           /\ perHour' = [perHour EXCEPT ![ip] = inHour]
           /\ Leave(w)
           /\ UNCHANGED <<count, passed>>
  <2>1. Blocks'
    BY <1>0, <1>1, <1>3, <1>4, BlocksBlock
  <2>2. WorkersOK' /\ \A v \in Workers \ {w} : worker'[v] = worker[v]
    BY <1>0, <1>1, <1>4, WorkersGo
  <2>3. /\ perMinute' = PrunedOf(perMinute, {ip}, Minute)
        /\ perHour' = PrunedOf(perHour, {ip}, Hour)
    BY <1>0, <1>1, <1>4 DEF PrunedOf, Tables
  <2>4. Tables'
    BY <1>0, <1>1, <1>3, <1>4, <2>3, TablesPruned, SMTT(30)
  <2>5. Seen'
    <3>1. ~Past(w)'
      BY <1>0, <1>4 DEF Leave, Idle, Past, WorkersOK
    <3>. QED  BY <1>0, <1>1, <1>3, <1>4, <2>2, <3>1, MayPassBlock, SeenAside
  <2>. QED  BY <1>2, <2>1, <2>2, <2>4, <2>5, LimiterPartsNext
<1>5. CASE /\ Pass(ip, inMinute, inHour)
           /\ Calls(w, "key")
           /\ slipped' = IF Served(ip) THEN slipped ELSE slipped \cup {ip}
           /\ UNCHANGED <<blocked, since, overtaken>>
  <2>1. Blocks'
    BY <1>0, <1>1, <1>3, <1>5 DEF Blocks, BlocksHold, Served
  <2>2. WorkersOK' /\ \A v \in Workers \ {w} : worker'[v] = worker[v]
    BY <1>0, <1>1, <1>5, WorkersGo
  <2>3. Tables'
    BY <1>0, <1>1, <1>3, <1>5, TablesPass
  <2>4. Seen'
    <3>1. worker[w].call = "check" /\ worker'[w].call = "key"
      BY <1>0, <1>5 DEF Limit, At, Calls, WorkersOK, Turns
    <3>2. \A v \in Workers : ~Past(v)'
      BY <1>0, <2>2, <3>1 DEF Past, WorkersOK, Turns, OnLoop
    <3>. QED  BY <3>2 DEF Seen
  <2>. QED  BY <1>2, <2>1, <2>2, <2>3, <2>4, LimiterPartsNext
<1>. QED  BY <1>4, <1>5 DEF Limit

(* The key dependencies.                                                   *)
LEMMA KeyStep ==
    ASSUME LimiterInv, NEW w \in Workers, Judge(w) \/ Count(w) \/ Clear(w)
    PROVE  LimiterInv'
<1>. DEFINE ip == worker[w].ip
<1>0. Tables /\ Blocks /\ Failures /\ WorkersOK /\ Seen
  BY LimiterParts
<1>1. worker[w].step # "idle" /\ ip \in Ips
  BY <1>0 DEF Judge, Count, Clear, At, WorkersOK, WorkerPlaced
<1>2. Tables'
  BY <1>0, TablesIdle DEF Judge, Count, Clear
<1>3. WorkersOK' /\ \A v \in Workers \ {w} : worker'[v] = worker[v]
  BY <1>0, <1>1, WorkersGo DEF Judge, Count, Clear
<1>7. Seen'
  <2>1. ~Past(w)'
    BY <1>0 DEF Judge, Count, Clear, GoTo, Leave, Idle, Past, WorkersOK
  <2>2. \A other \in Ips : MayPass(other) => MayPass(other)'
    BY <1>0, <1>1, MayPassIdle, MayPassBlock DEF Judge, Count, Clear
  <2>. QED  BY <1>0, <1>3, <2>1, <2>2, SeenAside
<1>4. CASE Judge(w)
  <2>1. Blocks'
    BY <1>0, <1>4, BlocksIdle DEF Judge
  <2>3. Failures'
    <3>1. CASE worker[w].key = "wrong"
      <4>1. failed[ip] \subseteq [at : 0 .. MaxClock, nth : Nat \ {0}] /\ IsFiniteSet(failed[ip])
        BY <1>0, <1>1 DEF Failures
      <4>2. Cardinality({f \in failed[ip] : f.at = clock}) \in Nat
        BY <4>1, FS_Subset, FS_CardinalityType
      <4>3. Attempt(ip) \in [at : 0 .. MaxClock, nth : Nat \ {0}]
        BY <1>0, <4>2 DEF Attempt, Tables
      <4>4. RecentFailures(ip) \subseteq failed[ip]
        BY DEF RecentFailures
      <4>5. IsFiniteSet(RecentFailures(ip) \cup {Attempt(ip)})
        BY <4>1, <4>4, FS_Subset, FS_AddElement
      <4>6. failed' = [failed EXCEPT ![ip] = RecentFailures(ip) \cup {Attempt(ip)}]
        BY <1>4, <3>1 DEF Judge
      <4>7. ASSUME NEW other \in Ips
            PROVE  /\ failed'[other] \subseteq [at : 0 .. MaxClock, nth : Nat \ {0}]
                   /\ IsFiniteSet(failed'[other])
        BY <1>0, <1>1, <4>1, <4>3, <4>4, <4>5, <4>6 DEF Failures
      <4>8. failed' \in [Ips -> SUBSET [at : 0 .. MaxClock, nth : Nat \ {0}]]
        BY <1>0, <4>6, <4>7 DEF Failures
      <4>. QED  BY <4>7, <4>8 DEF Failures
    <3>2. CASE worker[w].key # "wrong"
      <4>1. UNCHANGED failed
        BY <1>4, <3>2 DEF Judge
      <4>. QED  BY <1>0, <4>1, FailuresIdle
    <3>. QED  BY <3>1, <3>2
  <2>. QED  BY <1>2, <1>3, <1>7, <2>1, <2>3, LimiterPartsNext
<1>5. CASE Count(w)
  <2>1. Blocks'
    BY <1>0, <1>1, <1>5, BlocksIdle, BlocksBlock DEF Count
  <2>2. Failures'
    BY <1>0, <1>5, FailuresIdle DEF Count
  <2>. QED  BY <1>2, <1>3, <1>7, <2>1, <2>2, LimiterPartsNext
<1>6. CASE Clear(w)
  <2>1. Blocks'
    BY <1>0, <1>6, BlocksIdle DEF Clear
  <2>2. Failures'
    BY <1>0, <1>1, <1>6, FailuresCleared DEF Clear
  <2>. QED  BY <1>2, <1>3, <1>7, <2>1, <2>2, LimiterPartsNext
<1>. QED  BY <1>4, <1>5, <1>6
LEMMA BeginStep ==
    ASSUME LimiterInv, NEW w \in Workers, NEW call \in {"enter", "key", "ask"},
           NEW ip \in Ips, NEW key \in {"none", "wrong", "right"}, Begin(w, call, ip, key)
    PROVE  LimiterInv'
<1>0. Tables /\ Blocks /\ Failures /\ WorkersOK /\ Seen
  BY LimiterParts
<1>1. Tables' /\ Blocks' /\ Failures'
  BY <1>0, TablesIdle, BlocksIdle, FailuresIdle DEF Begin
<1>2. /\ worker'[w] = [call |-> call, step |-> "look", ip |-> ip, key |-> key]
      /\ \A v \in Workers \ {w} : worker'[v] = worker[v]
  BY <1>0 DEF Begin, WorkersOK
<1>3. WorkersOK'
  <2>1. Turns'
    BY <1>0, <1>2 DEF Begin, NoneOnLoop, OnLoop, WorkersOK, Turns
  <2>. QED  BY <1>0, <1>2, <2>1 DEF Begin, WorkersOK, WorkerPlaced
<1>4. Seen'
  <2>1. ~Past(w)'
    BY <1>2 DEF Past
  <2>2. \A other \in Ips : MayPass(other) => MayPass(other)'
    BY MayPassIdle DEF Begin
  <2>. QED  BY <1>0, <1>2, <2>1, <2>2, SeenAside
<1>. QED  BY <1>1, <1>3, <1>4, LimiterPartsNext

(* The administrator's routes.                                             *)
LEMMA AdminStep ==
    ASSUME LimiterInv, NEW ip \in Ips, BlockIp(ip) \/ Unblock(ip)
    PROVE  LimiterInv'
<1>0. Tables /\ Blocks /\ Failures /\ WorkersOK /\ Seen
  BY LimiterParts
<1>1. Tables' /\ WorkersOK'
  BY <1>0, TablesIdle, WorkersIdle DEF BlockIp, Unblock
<1>2. ASSUME \A other \in Ips : MayPass(other) => MayPass(other)'
      PROVE  Seen'
  <2>1. worker' = worker
    BY DEF BlockIp, Unblock
  <2>2. \A v \in Workers : Past(v) => worker[v].ip \in Ips
    BY <1>0 DEF Past, WorkersOK, WorkerPlaced
  <2>3. \A v \in Workers : Past(v)' => Past(v) /\ worker'[v].ip = worker[v].ip
    BY <2>1 DEF Past
  <2>. QED  BY <1>0, <1>2, <2>2, <2>3, SeenKept
<1>3. CASE BlockIp(ip)
  <2>1. Blocks' /\ Failures'
    BY <1>0, <1>3, BlocksBlock, FailuresIdle DEF BlockIp
  <2>2. Seen'
    BY <1>0, <1>2, <1>3, MayPassBlock DEF BlockIp
  <2>. QED  BY <1>1, <2>1, <2>2, LimiterPartsNext
<1>4. CASE Unblock(ip)
  <2>1. Failures'
    BY <1>0, <1>4, FailuresCleared DEF Unblock
  <2>2. Blocks'
    BY <1>0, <1>4 DEF Unblock, Blocks, BlocksHold, Served
  <2>3. Seen'
    <3>1. \A other \in Ips : MayPass(other) => MayPass(other)'
      BY <1>0, <1>4 DEF Unblock, MayPass, Served, Blocks
    <3>. QED  BY <1>2, <3>1
  <2>. QED  BY <1>1, <2>1, <2>2, <2>3, LimiterPartsNext
<1>. QED  BY <1>3, <1>4

LEMMA CountsStep ==
    ASSUME LimiterInv, NEW some \in SUBSET Ips,
           ClearFailed(some) \/ Stats(some) \/ FailedCounts(some)
    PROVE  LimiterInv'
<1>0. Tables /\ Blocks /\ Failures /\ WorkersOK /\ Seen
  BY LimiterParts
<1>1. Blocks' /\ WorkersOK' /\ Seen'
  BY <1>0, BlocksIdle, WorkersIdle, SeenIdle DEF ClearFailed, Stats, FailedCounts
<1>2. CASE ClearFailed(some)
  <2>1. Tables'
    BY <1>0, <1>2, TablesIdle DEF ClearFailed
  <2>2. /\ failed' \in [Ips -> SUBSET [at : 0 .. MaxClock, nth : Nat \ {0}]]
        /\ \A ip \in Ips : failed'[ip] \subseteq failed[ip]
    BY <1>0, <1>2 DEF ClearFailed, Failures
  <2>3. Failures'
    BY <1>0, <2>2, FailuresForgotten
  <2>. QED  BY <1>1, <2>1, <2>3, LimiterPartsNext
<1>3. CASE Stats(some)
  <2>1. Tables'
    BY <1>0, <1>3, TablesPruned DEF Stats
  <2>2. Failures'
    BY <1>0, <1>3, FailuresIdle DEF Stats
  <2>. QED  BY <1>1, <2>1, <2>2, LimiterPartsNext
<1>4. CASE FailedCounts(some)
  <2>1. Tables'
    BY <1>0, <1>4, TablesIdle DEF FailedCounts
  <2>2. /\ failed' \in [Ips -> SUBSET [at : 0 .. MaxClock, nth : Nat \ {0}]]
        /\ \A ip \in Ips : failed'[ip] \subseteq failed[ip]
    BY <1>0, <1>4 DEF FailedCounts, RecentFailures, Failures
  <2>3. Failures'
    BY <1>0, <2>2, FailuresForgotten
  <2>. QED  BY <1>1, <2>1, <2>3, LimiterPartsNext
<1>. QED  BY <1>2, <1>3, <1>4

(* As time passes windows count less and blocks end.                       *)
LEMMA TickStep ==
    ASSUME LimiterInv, NEW ticks \in 0 .. MaxClock, Tick(ticks)
    PROVE  LimiterInv'
<1>0. Tables /\ Blocks /\ Failures /\ WorkersOK /\ Seen
  BY LimiterParts
<1>1. clock \in Nat /\ clock' = clock + 1 /\ clock' \in 0 .. MaxClock
      /\ UNCHANGED <<requestVars, blockVars, failed, worker>>
  <2>1. clock \in 0 .. MaxClock /\ MaxClock \in Nat
    BY <1>0, LimiterAssumption DEF Tables
  <2>2. clock < ticks /\ clock' = clock + 1 /\ ticks \in Int
    BY DEF Tick
  <2>3. clock \in Nat /\ clock' \in 0 .. MaxClock
    BY <2>1, <2>2
  <2>. QED  BY <2>2, <2>3 DEF Tick
<1>2. Failures' /\ WorkersOK'
  BY <1>0, <1>1, FailuresIdle, WorkersIdle
<1>5. ASSUME NEW ip \in Ips, Served(ip)
      PROVE  Served(ip)'
  BY <1>0, <1>1, <1>5, LimiterAssumption DEF Served, Blocks, Never, blockVars
<1>3. Blocks'
  BY <1>0, <1>1, <1>5 DEF Blocks, BlocksHold, blockVars
<1>6. Seen'
  <2>1. \A ip \in Ips : MayPass(ip) => MayPass(ip)'
    BY <1>1, <1>5 DEF MayPass, blockVars
  <2>2. \A v \in Workers : Past(v)' => Past(v) /\ worker'[v].ip = worker[v].ip
    BY <1>1 DEF Past
  <2>3. \A v \in Workers : Past(v) => worker[v].ip \in Ips
    BY <1>0 DEF Past, WorkersOK, WorkerPlaced
  <2>. QED  BY <1>0, <2>1, <2>2, <2>3, SeenKept
<1>4. Tables'
  <2>1. ASSUME NEW ip \in Ips
        PROVE  /\ Recent(passed[ip], DOMAIN passed[ip], Minute)' \subseteq perMinute[ip]
               /\ Recent(passed[ip], DOMAIN passed[ip], Hour)' \subseteq perHour[ip]
    <3>1. passed[ip] \in Seq(0 .. MaxClock) /\ passed'[ip] = passed[ip]
      BY <1>0, <1>1 DEF Tables, requestVars
    <3>2. \A n \in DOMAIN passed[ip] : passed[ip][n] \in Nat
      <4>1. \A n \in 1 .. Len(passed[ip]) : passed[ip][n] \in 0 .. MaxClock
        BY <3>1, ElementOfSeq
      <4>2. DOMAIN passed[ip] = 1 .. Len(passed[ip])
        BY <3>1
      <4>. QED  BY <4>1, <4>2
    <3>3. Minute \in Nat /\ Hour \in Nat
      BY LimiterAssumption
    <3>4. /\ Recent(passed[ip], DOMAIN passed[ip], Minute)'
                 \subseteq Recent(passed[ip], DOMAIN passed[ip], Minute)
          /\ Recent(passed[ip], DOMAIN passed[ip], Hour)'
                 \subseteq Recent(passed[ip], DOMAIN passed[ip], Hour)
      BY <1>1, <3>1, <3>2, <3>3 DEF Recent
    <3>. QED  BY <1>0, <3>4 DEF Tables, Windows
  <2>2. Windows'
    BY <1>1, <2>1 DEF Windows, requestVars
  <2>. QED  BY <1>0, <1>1, <2>2 DEF Tables, requestVars
<1>. QED  BY <1>2, <1>3, <1>4, <1>6, LimiterPartsNext

LEMMA LimiterStep ==
    ASSUME LimiterInv, NEW ips \in SUBSET Ips, NEW ws \in SUBSET Workers,
           NEW keys \in SUBSET {"wrong", "right"}, NEW ticks \in 0 .. MaxClock,
           Limiter(ips, ws, keys, ticks)
    PROVE  LimiterInv'
<1>1. ASSUME NEW w \in ws, NEW ip \in ips, NEW key \in keys,
             Begin(w, "enter", ip, key) \/ Begin(w, "key", ip, key)
      PROVE  LimiterInv'
  <2>. ip \in Ips /\ w \in Workers /\ key \in {"none", "wrong", "right"}  OBVIOUS
  <2>. QED  BY <1>1, BeginStep
<1>2. ASSUME NEW w \in ws, NEW ip \in ips, Begin(w, "ask", ip, "none")
      PROVE  LimiterInv'
  <2>. ip \in Ips /\ w \in Workers  OBVIOUS
  <2>. QED  BY <1>2, BeginStep
<1>3. ASSUME NEW w \in ws,
             \/ Look(w) \/ Drop(w) \/ Forget(w) \/ Limit(w)
             \/ Judge(w) \/ Count(w) \/ Clear(w)
      PROVE  LimiterInv'
  <2>. w \in Workers  OBVIOUS
  <2>. QED  BY <1>3, LookStep, LimitStep, KeyStep
<1>4. ASSUME NEW ip \in ips, BlockIp(ip) \/ Unblock(ip)
      PROVE  LimiterInv'
  <2>. ip \in Ips  OBVIOUS
  <2>. QED  BY <1>4, AdminStep
<1>5. ASSUME NEW some \in {{ip} : ip \in ips} \cup {ips},
             ClearFailed(some) \/ Stats(some) \/ FailedCounts(some)
      PROVE  LimiterInv'
  <2>. some \in SUBSET Ips  OBVIOUS
  <2>. QED  BY <1>5, CountsStep
<1>6. ASSUME Tick(ticks)
      PROVE  LimiterInv'
  BY <1>6, TickStep
<1>. QED  BY <1>1, <1>2, <1>3, <1>4, <1>5, <1>6 DEF Limiter

LEMMA LimiterIdle ==
    ASSUME LimiterInv, UNCHANGED limiterVars
    PROVE  LimiterInv'
<1>0. Tables /\ Blocks /\ Failures /\ WorkersOK /\ Seen
  BY LimiterParts
<1>1. Tables' /\ Blocks' /\ Failures' /\ WorkersOK' /\ Seen'
  BY <1>0, TablesIdle, BlocksIdle, FailuresIdle, WorkersIdle, SeenIdle DEF limiterVars
<1>. QED  BY <1>1, LimiterPartsNext
-----------------------------------------------------------------------------
(* What each step lets through.                                            *)

LEMMA RoomLeft ==
    ASSUME LimiterInv, NEW ip \in Ips,
           ~(Cardinality(Recent(passed[ip], perMinute[ip], Minute)) >= PerMinute),
           ~(Cardinality(Recent(passed[ip], perHour[ip], Hour)) >= PerHour)
    PROVE  Room(ip)
<1>. DEFINE all == DOMAIN passed[ip]
<1>0. PerMinute \in Nat /\ PerHour \in Nat
  BY LimiterAssumption
<1>1. /\ perMinute[ip] \subseteq all /\ perHour[ip] \subseteq all
      /\ Recent(passed[ip], all, Minute) \subseteq perMinute[ip]
      /\ Recent(passed[ip], all, Hour) \subseteq perHour[ip]
  BY LimiterParts DEF Tables, Windows
<1>2. IsFiniteSet(all)
  <2>1. passed[ip] \in Seq(0 .. MaxClock)
    BY LimiterParts DEF Tables
  <2>2. all = 1 .. Len(passed[ip]) /\ Len(passed[ip]) \in Nat
    BY <2>1
  <2>3. IsFiniteSet(1 .. Len(passed[ip]))
    <3>. HIDE DEF all
    <3>1. 1 \in Int /\ Len(passed[ip]) \in Int
      BY <2>2
    <3>. QED  BY <3>1, FS_Interval
  <2>. QED  BY <2>2, <2>3
<1>3. ASSUME NEW table \in SUBSET all, NEW window, NEW most \in Nat,
             Recent(passed[ip], all, window) \subseteq table,
             ~(Cardinality(Recent(passed[ip], table, window)) >= most)
      PROVE  Cardinality(Recent(passed[ip], all, window)) < most
  <2>1. Recent(passed[ip], all, window) = Recent(passed[ip], table, window)
    BY <1>3 DEF Recent
  <2>2. Recent(passed[ip], table, window) \subseteq all
    BY DEF Recent
  <2>3. Cardinality(Recent(passed[ip], table, window)) \in Nat
    BY <1>2, <2>2, FS_Subset, FS_CardinalityType
  <2>. QED  BY <1>3, <2>1, <2>3
<1>4. Cardinality(Recent(passed[ip], all, Minute)) < PerMinute
  BY <1>0, <1>1, <1>3
<1>5. Cardinality(Recent(passed[ip], all, Hour)) < PerHour
  BY <1>0, <1>1, <1>3
<1>. QED  BY <1>4, <1>5 DEF Room

(* Steps that let no request through and end no look.                      *)
LEMMA NothingPasses ==
    ASSUME UNCHANGED passed,
           \A w \in Workers : At(w, "look") => worker'[w] \in {worker[w], Idle}
    PROVE  Rightly
BY DEF Rightly

LEMMA LookRightly ==
    ASSUME LimiterInv, NEW w \in Workers, Look(w)
    PROVE  Rightly
<1>. DEFINE ip == worker[w].ip
<1>0. Blocks /\ WorkersOK
  BY LimiterParts
<1>1. ip \in Ips /\ At(w, "look")
  BY <1>0 DEF Look, At, WorkersOK, WorkerPlaced
<1>2. UNCHANGED passed
  BY DEF Look, requestVars
<1>3. \A v \in Workers : v # w => worker'[v] = worker[v]
  BY <1>0 DEF Look, Then, Calls, GoTo, Leave, WorkersOK
<1>4. CASE Refused(ip) /\ Leave(w)
  <2>1. worker'[w] = Idle
    BY <1>0, <1>4 DEF Leave, WorkersOK
  <2>. QED  BY <1>2, <1>3, <2>1 DEF Rightly
<1>5. CASE blocked[ip] = Never \/ (blocked[ip] # Never /\ Expired(ip))
  <2>1. Served(ip)
    BY <1>0, <1>1, <1>5 DEF Blocks, BlocksHold, Served, Expired
  <2>. QED  BY <1>2, <1>3, <2>1 DEF Rightly
<1>. QED  BY <1>4, <1>5 DEF Look

LEMMA LimitRightly ==
    ASSUME LimiterInv, NEW w \in Workers, Limit(w)
    PROVE  Rightly
<1>. DEFINE ip == worker[w].ip
<1>0. Tables /\ Blocks /\ WorkersOK /\ Seen
  BY LimiterParts
<1>1. ip \in Ips /\ worker[w].step = "windows" /\ worker[w].call = "check"
  BY <1>0 DEF Limit, At, WorkersOK, WorkerPlaced, Turns
<1>2. \A v \in Workers : v # w => worker'[v] = worker[v]
  BY <1>0 DEF Limit, Leave, Calls, WorkersOK
<1>3. \A v \in Workers : At(v, "look") => worker'[v] = worker[v]
  BY <1>1, <1>2 DEF At
<1>4. ASSUME NEW other \in Ips, passed'[other] # passed[other]
      PROVE  Room(other) /\ (Served(other) \/ other \notin slipped)
  <2>1. /\ ~(Cardinality(Recent(passed[ip], perMinute[ip], Minute)) >= PerMinute)
        /\ ~(Cardinality(Recent(passed[ip], perHour[ip], Hour)) >= PerHour)
        /\ passed' = [passed EXCEPT ![ip] = Append(@, clock)]
    BY <1>4 DEF Limit, Pass
  <2>2. other = ip
    BY <1>0, <1>4, <2>1 DEF Tables
  <2>3. MayPass(ip)
    BY <1>0, <1>1 DEF Seen, Past
  <2>. QED  BY <1>1, <2>1, <2>2, <2>3, RoomLeft DEF MayPass
<1>. QED  BY <1>3, <1>4 DEF Rightly

LEMMA OthersRightly ==
    ASSUME LimiterInv, NEW w \in Workers,
           Drop(w) \/ Forget(w) \/ Judge(w) \/ Count(w) \/ Clear(w)
    PROVE  Rightly
<1>0. WorkersOK
  BY LimiterParts
<1>1. UNCHANGED passed
  BY DEF Drop, Forget, Judge, Count, Clear, requestVars
<1>2. ~At(w, "look")
  BY DEF Drop, Forget, Judge, Count, Clear, At
<1>3. \A v \in Workers : v # w => worker'[v] = worker[v]
  BY <1>0 DEF Drop, Forget, Judge, Count, Clear, Then, Calls, GoTo, Leave, WorkersOK
<1>4. \A v \in Workers : At(v, "look") => worker'[v] = worker[v]
  BY <1>2, <1>3
<1>. QED  BY <1>1, <1>4, NothingPasses

LEMMA BeginRightly ==
    ASSUME LimiterInv, NEW w \in Workers, NEW call, NEW ip, NEW key, Begin(w, call, ip, key)
    PROVE  Rightly
<1>0. WorkersOK
  BY LimiterParts
<1>1. UNCHANGED passed
  BY DEF Begin, requestVars
<1>2. ~At(w, "look")
  BY DEF Begin, At, Idle
<1>3. \A v \in Workers : v # w => worker'[v] = worker[v]
  BY <1>0 DEF Begin, WorkersOK
<1>4. \A v \in Workers : At(v, "look") => worker'[v] = worker[v]
  BY <1>2, <1>3
<1>. QED  BY <1>1, <1>4, NothingPasses

LEMMA LimiterRightly ==
    ASSUME LimiterInv, NEW ips \in SUBSET Ips, NEW ws \in SUBSET Workers,
           NEW keys \in SUBSET {"wrong", "right"}, NEW ticks \in 0 .. MaxClock,
           Limiter(ips, ws, keys, ticks)
    PROVE  Rightly
<1>1. ASSUME NEW w \in ws, NEW ip \in ips, NEW key \in keys,
             Begin(w, "enter", ip, key) \/ Begin(w, "key", ip, key)
      PROVE  Rightly
  <2>. w \in Workers  OBVIOUS
  <2>. QED  BY <1>1, BeginRightly
<1>2. ASSUME NEW w \in ws, NEW ip \in ips, Begin(w, "ask", ip, "none")
      PROVE  Rightly
  <2>. w \in Workers  OBVIOUS
  <2>. QED  BY <1>2, BeginRightly
<1>3. ASSUME NEW w \in ws,
             \/ Look(w) \/ Drop(w) \/ Forget(w) \/ Limit(w)
             \/ Judge(w) \/ Count(w) \/ Clear(w)
      PROVE  Rightly
  <2>. w \in Workers  OBVIOUS
  <2>. QED  BY <1>3, LookRightly, LimitRightly, OthersRightly
<1>4. ASSUME UNCHANGED <<passed, worker>>
      PROVE  Rightly
  BY <1>4 DEF Rightly, At
<1>5. ASSUME NEW ip \in ips, BlockIp(ip) \/ Unblock(ip)
      PROVE  Rightly
  <2>1. UNCHANGED <<passed, worker>>
    BY <1>5 DEF BlockIp, Unblock, requestVars
  <2>. QED  BY <1>4, <2>1
<1>6. ASSUME NEW some \in {{ip} : ip \in ips} \cup {ips},
             ClearFailed(some) \/ Stats(some) \/ FailedCounts(some)
      PROVE  Rightly
  <2>1. UNCHANGED <<passed, worker>>
    BY <1>6 DEF ClearFailed, Stats, FailedCounts, requestVars
  <2>. QED  BY <1>4, <2>1
<1>7. ASSUME Tick(ticks)
      PROVE  Rightly
  <2>1. UNCHANGED <<passed, worker>>
    BY <1>7 DEF Tick, requestVars
  <2>. QED  BY <1>4, <2>1
<1>. QED  BY <1>1, <1>2, <1>3, <1>5, <1>6, <1>7 DEF Limiter
-----------------------------------------------------------------------------
(* The live feed: sequences of entries.                                    *)

Upto(entries, n) == \A i \in 1 .. Len(entries) : entries[i].id <= n

(* Of its kind, the entry x comes after all of the entries.                *)
Below(entries, x) ==
    \A i \in 1 .. Len(entries) : entries[i].kind = x.kind => entries[i].id < x.id

LEMMA ButLastAppended ==
    ASSUME NEW S, NEW s \in Seq(S), NEW x \in S
    PROVE  ButLast(Append(s, x)) = s /\ Append(s, x) # <<>>
<1>1. /\ Append(s, x) \in Seq(S) /\ Len(Append(s, x)) = Len(s) + 1 /\ Len(s) \in Nat
      /\ \A i \in 1 .. Len(s) : Append(s, x)[i] = s[i]
  OBVIOUS
<1>2. /\ ButLast(Append(s, x)) \in Seq(S)
      /\ Len(ButLast(Append(s, x))) = Len(s)
      /\ \A i \in 1 .. Len(s) : ButLast(Append(s, x))[i] = s[i]
  BY <1>1 DEF ButLast
<1>3. ButLast(Append(s, x)) = s
  BY <1>2, SeqEqual
<1>. QED  BY <1>1, <1>3

LEMMA LastAppended ==
    ASSUME NEW S, NEW s \in Seq(S), s # <<>>
    PROVE  Append(ButLast(s), s[Len(s)]) = s
<1>. DEFINE t == ButLast(s)
            u == Append(t, s[Len(s)])
<1>1. Len(s) \in Nat \ {0} /\ s[Len(s)] \in S
  OBVIOUS
<1>2. t \in Seq(S) /\ Len(t) = Len(s) - 1 /\ \A i \in 1 .. Len(t) : t[i] = s[i]
  <2>1. PICK n \in Nat : n = Len(s) - 1
    BY <1>1
  <2>2. t = SubSeq(s, 1, n) /\ n <= Len(s)
    BY <1>1, <2>1 DEF ButLast
  <2>3. SubSeq(s, 1, n) \in Seq(S) /\ Len(SubSeq(s, 1, n)) = n
        /\ \A i \in 1 .. n : SubSeq(s, 1, n)[i] = s[i]
    BY <2>2
  <2>. QED  BY <2>1, <2>2, <2>3
<1>. HIDE DEF t
<1>3. u \in Seq(S) /\ Len(u) = Len(s) /\ \A i \in 1 .. Len(u) : u[i] = s[i]
  BY <1>1, <1>2
<1>. HIDE DEF u
<1>4. u = s
  BY <1>3, SeqEqual
<1>. QED  BY <1>4 DEF t, u

LEMMA AppendedEntry ==
    ASSUME NEW s \in Seq(Entries), NEW x \in Entries
    PROVE  /\ Append(s, x) \in Seq(Entries)
           /\ Ordered(s) /\ Below(s, x) => Ordered(Append(s, x))
           /\ \A y \in Entries : Below(s, y) /\ (x.kind = y.kind => x.id < y.id)
                                     => Below(Append(s, x), y)
           /\ \A n \in Nat : Upto(s, n) /\ x.id <= n => Upto(Append(s, x), n)
<1>1. /\ Append(s, x) \in Seq(Entries) /\ Len(Append(s, x)) = Len(s) + 1 /\ Len(s) \in Nat
      /\ \A i \in 1 .. Len(s) : Append(s, x)[i] = s[i]
      /\ Append(s, x)[Len(s) + 1] = x
  OBVIOUS
<1>2. ASSUME NEW i \in 1 .. Len(Append(s, x)), i \notin 1 .. Len(s)
      PROVE  i = Len(s) + 1
  BY <1>1, <1>2
<1>3. Ordered(s) /\ Below(s, x) => Ordered(Append(s, x))
  <2>. SUFFICES ASSUME Ordered(s), Below(s, x),
                       NEW i \in 1 .. Len(Append(s, x)), NEW j \in 1 .. Len(Append(s, x)),
                       i < j, Append(s, x)[i].kind = Append(s, x)[j].kind
                PROVE  Append(s, x)[i].id < Append(s, x)[j].id
    BY DEF Ordered
  <2>1. i \in 1 .. Len(s)
    BY <1>1
  <2>2. CASE j \in 1 .. Len(s)
    BY <1>1, <2>1, <2>2 DEF Ordered
  <2>3. CASE j \notin 1 .. Len(s)
    BY <1>1, <1>2, <2>1, <2>3 DEF Below
  <2>. QED  BY <2>2, <2>3
<1>4. \A y \in Entries : Below(s, y) /\ (x.kind = y.kind => x.id < y.id)
                             => Below(Append(s, x), y)
  BY <1>1, <1>2 DEF Below
<1>5. \A n \in Nat : Upto(s, n) /\ x.id <= n => Upto(Append(s, x), n)
  BY <1>1, <1>2 DEF Upto
<1>. QED  BY <1>1, <1>3, <1>4, <1>5

LEMMA TailEntries ==
    ASSUME NEW s \in Seq(Entries), s # <<>>
    PROVE  /\ Tail(s) \in Seq(Entries) /\ Len(Tail(s)) = Len(s) - 1
           /\ Head(s) \in Entries /\ Head(s) = s[1]
           /\ \A j \in 1 .. Len(Tail(s)) : Tail(s)[j] = s[j + 1] /\ j + 1 \in 1 .. Len(s)
           /\ Ordered(s) => Ordered(Tail(s))
           /\ \A n \in Nat : Upto(s, n) => Upto(Tail(s), n) /\ Head(s).id <= n
           /\ \A y \in Entries : Below(s, y) => Below(Tail(s), y)
           /\ \A y \in Entries : Below(s, y) => (Head(s).kind = y.kind => Head(s).id < y.id)
<1>1. /\ Tail(s) \in Seq(Entries) /\ Len(Tail(s)) = Len(s) - 1 /\ Len(s) \in Nat \ {0}
      /\ Head(s) \in Entries /\ Head(s) = s[1]
      /\ \A j \in 1 .. Len(Tail(s)) : Tail(s)[j] = s[j + 1] /\ j + 1 \in 1 .. Len(s)
      /\ 1 \in 1 .. Len(s)
  OBVIOUS
<1>2. Ordered(s) => Ordered(Tail(s))
  <2>. SUFFICES ASSUME Ordered(s), NEW i \in 1 .. Len(Tail(s)), NEW j \in 1 .. Len(Tail(s)),
                       i < j, Tail(s)[i].kind = Tail(s)[j].kind
                PROVE  Tail(s)[i].id < Tail(s)[j].id
    BY DEF Ordered
  <2>1. i + 1 < j + 1
    OBVIOUS
  <2>. QED  BY <1>1, <2>1 DEF Ordered
<1>3. \A n \in Nat : Upto(s, n) => Upto(Tail(s), n) /\ Head(s).id <= n
  BY <1>1 DEF Upto
<1>4. \A y \in Entries : Below(s, y) => Below(Tail(s), y)
  BY <1>1 DEF Below
<1>5. \A y \in Entries : Below(s, y) => (Head(s).kind = y.kind => Head(s).id < y.id)
  BY <1>1 DEF Below
<1>. QED  BY <1>1, <1>2, <1>3, <1>4, <1>5
-----------------------------------------------------------------------------
(* The live feed: its invariant.                                           *)

BufferOK ==
    /\ counter \in Nat
    /\ buffer \in Seq(1 .. counter) /\ Len(buffer) <= MaxBuffer
    /\ \A i \in 2 .. Len(buffer) : buffer[i - 1] < buffer[i]

(* Of each kind there is one entry that is added and not yet offered.      *)
AddingOK ==
    /\ adding \in [Emitters -> Entries \cup {Nothing}]
    /\ \A e, f \in Emitters : adding[e] # Nothing /\ adding[e].kind = adding[f].kind => e = f
    /\ \A e \in Emitters : adding[e].kind = "event" => e = "loop"
    /\ \A e \in Emitters : adding[e].id <= counter

(* It comes after those in the queue, and                                  *)
QueueOK ==
    /\ queue \in Seq(Entries)
    /\ Ordered(queue) /\ Upto(queue, counter)
    /\ \A e \in Emitters : adding[e] # Nothing => Below(queue, adding[e])

(* these come after those broadcast so far.                                *)
DueOK ==
    /\ due \in [Sockets -> Seq(Entries)]
    /\ \A k \in Sockets :
           /\ Ordered(due[k]) /\ Upto(due[k], counter)
           /\ \A j \in 1 .. Len(queue) : Below(due[k], queue[j])
           /\ \A e \in Emitters : adding[e] # Nothing => Below(due[k], adding[e])

(* Who found room has an entry to put.  Of the two that can be about to    *)
(* put, each finds the queue below its limit until the other has put.      *)
HasRoom(e) == found[e] = "room"

RoomOK ==
    /\ found \in [Emitters -> {"none", "room", "full"}]
    /\ \A e \in Emitters : found[e] # "none" => adding[e] # Nothing
    /\ Len(queue) <= MaxQueue + 1
    /\ \A e \in Emitters : HasRoom(e) => Len(queue) <= MaxQueue
    /\ \A e, f \in Emitters : HasRoom(e) /\ HasRoom(f) /\ e # f => Len(queue) < MaxQueue

LogInv == BufferOK /\ AddingOK /\ QueueOK /\ DueOK /\ RoomOK

(* The broadcast task sends exactly while its broadcast is under way.      *)
Serving ==
    /\ casts["feed"].on <=> taker = "sending"
    /\ \A c \in Casters : casts[c].left # {} => casts[c].on

(* The list has the open sockets, and those gone but not yet noticed; only *)
(* these are taken for failed, and a socket that is new has seen nothing.  *)
Connections ==
    \A k \in Sockets :
        /\ k \in conns => socket[k] \in {"open", "gone"}
        /\ socket[k] = "open" => k \in conns
        /\ socket[k] \in {"none", "accepting"} => got[k] = <<>> /\ due[k] = <<>>
        /\ \A c \in Casters :
               /\ k \in casts[c].left => socket[k] \in {"open", "gone", "closed"}
               /\ k \in casts[c].failed => socket[k] \in {"gone", "closed"}

(* A socket is behind by the one entry that it is still to be sent, or     *)
(* that the end of the task has cost it.                                   *)
Lags(k) == due[k] # <<>> /\ got[k] = ButLast(due[k])

Following ==
    \A k \in Sockets :
        socket[k] = "open" =>
            IF k \in casts["feed"].left THEN Lags(k)
            ELSE got[k] = due[k] \/ (taker = "over" /\ Lags(k))

SocketTypes ==
    /\ taker \in {"looking", "parking", "parked", "sending", "over"}
    /\ conns \subseteq Sockets
    /\ socket \in [Sockets -> {"none", "accepting", "open", "gone", "closed"}]
    /\ casts \in [Casters -> [on : BOOLEAN, left : SUBSET Sockets, failed : SUBSET Sockets]]
    /\ got \in [Sockets -> Seq(Entries)]
    /\ \A k \in Sockets : Ordered(got[k])

SocketInv == SocketTypes /\ Serving /\ Connections /\ Following

FeedInv == LogInv /\ SocketInv

LEMMA FeedConsequences ==
    ASSUME FeedInv
    PROVE  FeedTypeOK /\ NoneMissed /\ InOrder
<1>1. FeedTypeOK
  BY DEF FeedInv, LogInv, BufferOK, AddingOK, QueueOK, DueOK, RoomOK, SocketInv, SocketTypes,
         FeedTypeOK
<1>2. NoneMissed
  BY DEF FeedInv, SocketInv, Following, Lags, NoneMissed
<1>3. InOrder
  BY DEF FeedInv, LogInv, BufferOK, SocketInv, SocketTypes, InOrder
<1>. QED  BY <1>1, <1>2, <1>3

LEMMA FeedStart ==
    ASSUME FeedInit
    PROVE  FeedInv
<1>. USE AccessAssumption DEF FeedInit
<1>1. BufferOK
  BY DEF BufferOK
<1>2. AddingOK
  BY DEF AddingOK, Nothing
<1>3. QueueOK
  BY DEF QueueOK, Ordered, Upto
<1>4. DueOK
  BY DEF DueOK, Ordered, Upto, Below
<1>5. SocketTypes
  BY DEF SocketTypes, NoCast, Ordered
<1>6. Serving /\ Connections /\ Following
  BY DEF Serving, Connections, Following, NoCast, Casters
<1>7. RoomOK
  BY DEF RoomOK, HasRoom
<1>. QED  BY <1>1, <1>2, <1>3, <1>4, <1>5, <1>6, <1>7 DEF FeedInv, LogInv, SocketInv

LEMMA LogIdle ==
    ASSUME LogInv, UNCHANGED <<logVars, due>>
    PROVE  LogInv'
BY DEF LogInv, BufferOK, AddingOK, QueueOK, DueOK, RoomOK, HasRoom, logVars, Upto, Below, Ordered

LEMMA SocketIdle ==
    ASSUME SocketInv, UNCHANGED <<conns, socket, casts, got, due>>,
           \/ UNCHANGED taker
           \/ taker = "parked" /\ taker' = "looking"
           \/ taker = "looking" /\ taker' = "parking"
           \/ taker = "parking" /\ taker' = "parked"
    PROVE  SocketInv'
<1>1. SocketTypes'
  BY DEF SocketInv, SocketTypes, Ordered
<1>2. Serving' /\ Connections' /\ Following'
  BY DEF SocketInv, SocketTypes, Serving, Connections, Following, Lags, ButLast
<1>. QED  BY <1>1, <1>2 DEF SocketInv

-----------------------------------------------------------------------------
(* The live feed: entries are added and offered.                           *)

LEMMA AddEntryStep ==
    ASSUME LogInv, AddEntry
    PROVE  BufferOK' /\ counter' = Id /\ counter < Id /\ Id \in Nat
<1>0. /\ counter \in Nat /\ MaxBuffer \in Nat \ {0}
      /\ buffer \in Seq(1 .. counter) /\ Len(buffer) <= MaxBuffer
      /\ \A i \in 2 .. Len(buffer) : buffer[i - 1] < buffer[i]
  BY AccessAssumption DEF LogInv, BufferOK
<1>1. counter' = Id /\ Id \in Nat /\ counter < Id /\ Id = counter + 1
  BY <1>0 DEF AddEntry, Id
<1>. DEFINE longer == Append(buffer, Id)
<1>2. /\ longer \in Seq(1 .. counter') /\ Len(longer) = Len(buffer) + 1 /\ Len(buffer) \in Nat
      /\ \A i \in 1 .. Len(buffer) : longer[i] = buffer[i] /\ buffer[i] \in 1 .. counter
      /\ longer[Len(buffer) + 1] = Id
  <2>1. 1 .. counter \subseteq 1 .. counter' /\ Id \in 1 .. counter'
    BY <1>0, <1>1
  <2>2. buffer \in Seq(1 .. counter')
    BY <1>0, <2>1, SeqMonotonic
  <2>3. \A i \in 1 .. Len(buffer) : buffer[i] \in 1 .. counter
    BY <1>0, ElementOfSeq
  <2>. QED  BY <2>1, <2>2, <2>3
<1>3. \A i \in 2 .. Len(longer) : longer[i - 1] < longer[i]
  <2>. SUFFICES ASSUME NEW i \in 2 .. Len(longer)
                PROVE  longer[i - 1] < longer[i]
    OBVIOUS
  <2>. HIDE DEF longer
  <2>1. i - 1 \in 1 .. Len(buffer)
    BY <1>2
  <2>2. CASE i \in 2 .. Len(buffer)
    BY <1>0, <1>2, <2>1, <2>2
  <2>3. CASE i = Len(buffer) + 1
    BY <1>0, <1>1, <1>2, <2>1, <2>3
  <2>. QED  BY <1>2, <2>2, <2>3
<1>4. buffer' = IF Len(longer) > MaxBuffer THEN Tail(longer) ELSE longer
  BY DEF AddEntry, Latest
<1>5. CASE Len(longer) > MaxBuffer
  <2>. HIDE DEF longer
  <2>1. /\ Tail(longer) \in Seq(1 .. counter') /\ Len(Tail(longer)) = Len(longer) - 1
        /\ \A i \in 1 .. Len(Tail(longer)) : Tail(longer)[i] = longer[i + 1]
    BY <1>2
  <2>2. \A i \in 2 .. Len(Tail(longer)) : Tail(longer)[i - 1] < Tail(longer)[i]
    <3>. SUFFICES ASSUME NEW i \in 2 .. Len(Tail(longer))
                  PROVE  Tail(longer)[i - 1] < Tail(longer)[i]
      OBVIOUS
    <3>1. /\ Tail(longer)[i - 1] = longer[i] /\ Tail(longer)[i] = longer[i + 1]
          /\ i + 1 \in 2 .. Len(longer) /\ (i + 1) - 1 = i
      BY <1>2, <2>1
    <3>. QED  BY <1>3, <3>1
  <2>. QED  BY <1>0, <1>1, <1>2, <1>4, <1>5, <2>1, <2>2 DEF BufferOK
<1>6. CASE ~(Len(longer) > MaxBuffer)
  <2>. HIDE DEF longer
  <2>. QED  BY <1>0, <1>1, <1>2, <1>3, <1>4, <1>6, SMTT(30) DEF BufferOK
<1>. QED  BY <1>1, <1>5, <1>6

(* What is up to the counter stays so; entries so far come before the new. *)
LEMMA Older ==
    ASSUME LogInv, counter' = Id, NEW s \in Seq(Entries), Upto(s, counter)
    PROVE  Upto(s, counter') /\ \A x \in Entries : x.id = Id => Below(s, x)
<1>1. counter \in Nat /\ \A i \in 1 .. Len(s) : s[i].id \in Nat /\ s[i].id <= counter
  <2>1. \A i \in 1 .. Len(s) : s[i] \in Entries
    BY ElementOfSeq
  <2>. QED  BY <2>1 DEF LogInv, BufferOK, Upto, Entries
<1>. QED  BY <1>1 DEF Upto, Below, Id

(* One that has not asked, or has given up, leaves room to the others.     *)
LEMMA RoomGivenUp ==
    ASSUME LogInv, UNCHANGED queue, NEW e \in Emitters,
           \A f \in Emitters \ {e} : adding'[f] = adding[f],
           \/ found' = [found EXCEPT ![e] = "none"]
           \/ found' = found /\ found[e] = "none"
    PROVE  RoomOK'
<1>1. /\ found' \in [Emitters -> {"none", "room", "full"}] /\ found'[e] = "none"
      /\ \A f \in Emitters \ {e} : found'[f] = found[f]
  BY DEF LogInv, RoomOK
<1>. QED  BY <1>1 DEF LogInv, RoomOK, HasRoom

(* A place takes a new entry, or is emptied.                               *)
LEMMA AddingStep ==
    ASSUME LogInv, AddEntry, UNCHANGED <<queue, due>>,
           NEW e \in Emitters, NEW x \in Entries \cup {Nothing},
           adding' = [adding EXCEPT ![e] = x],
           \/ found' = [found EXCEPT ![e] = "none"]
           \/ found' = found /\ found[e] = "none",
           x # Nothing => /\ x.id = Id
                          /\ x.kind = "event" => e = "loop"
                          /\ \A f \in Emitters \ {e} : adding[f].kind # x.kind
    PROVE  LogInv'
<1>1. BufferOK' /\ counter' = Id /\ counter < Id /\ Id \in Nat /\ counter \in Nat
  BY AddEntryStep DEF LogInv, BufferOK
<1>2. /\ adding' \in [Emitters -> Entries \cup {Nothing}]
      /\ adding'[e] = x /\ \A f \in Emitters \ {e} : adding'[f] = adding[f]
      /\ adding \in [Emitters -> Entries \cup {Nothing}]
  BY DEF LogInv, AddingOK
<1>3. \A y \in Entries : y \notin {Nothing} /\ y.kind \in {"log", "event"} /\ y.id \in Nat
  BY DEF Entries, Nothing
<1>4. Nothing.kind = "none" /\ Nothing.id = 0
  BY DEF Nothing
<1>5. AddingOK'
  <2>1. ASSUME NEW f \in Emitters, NEW g \in Emitters, adding'[f] # Nothing,
               adding'[f].kind = adding'[g].kind
        PROVE  f = g
    <3>1. CASE f # e /\ g # e
      BY <1>2, <2>1, <3>1 DEF LogInv, AddingOK
    <3>2. CASE f = e /\ g # e
      BY <1>2, <2>1, <3>2
    <3>3. CASE f # e /\ g = e
      <4>1. x # Nothing
        BY <1>2, <1>3, <1>4, <2>1, <3>3
      <4>. QED  BY <1>2, <2>1, <3>3, <4>1
    <3>. QED  BY <3>1, <3>2, <3>3
  <2>2. \A f \in Emitters : adding'[f].kind = "event" => f = "loop"
    BY <1>2, <1>4 DEF LogInv, AddingOK
  <2>3. \A f \in Emitters : adding'[f].id <= counter'
    <3>. SUFFICES ASSUME NEW f \in Emitters
                  PROVE  adding'[f].id <= Id
      BY <1>1
    <3>1. CASE f # e
      <4>1. adding[f].id <= counter /\ adding[f].id \in Nat
        BY <1>2, <1>3, <1>4 DEF LogInv, AddingOK
      <4>. QED  BY <1>1, <1>2, <3>1, <4>1
    <3>2. CASE f = e
      BY <1>1, <1>2, <1>4, <3>2
    <3>. QED  BY <3>1, <3>2
  <2>. QED  BY <1>2, <2>1, <2>2, <2>3 DEF AddingOK
<1>6. QueueOK'
  <2>1. /\ queue \in Seq(Entries) /\ Ordered(queue)
        /\ Upto(queue, counter')
        /\ \A y \in Entries : y.id = Id => Below(queue, y)
    BY <1>1, Older DEF LogInv, QueueOK
  <2>2. ASSUME NEW f \in Emitters, adding'[f] # Nothing
        PROVE  Below(queue, adding'[f])
    BY <1>2, <2>1, <2>2 DEF LogInv, QueueOK
  <2>. QED  BY <2>1, <2>2 DEF QueueOK, Ordered, Upto, Below
<1>7. DueOK'
  <2>1. ASSUME NEW k \in Sockets
        PROVE  /\ Ordered(due[k]) /\ Upto(due[k], counter')
               /\ \A j \in 1 .. Len(queue) : Below(due[k], queue[j])
               /\ \A f \in Emitters : adding'[f] # Nothing => Below(due[k], adding'[f])
    <3>1. /\ Ordered(due[k]) /\ Upto(due[k], counter')
          /\ \A j \in 1 .. Len(queue) : Below(due[k], queue[j])
          /\ \A y \in Entries : y.id = Id => Below(due[k], y)
      BY <1>1, Older DEF LogInv, DueOK
    <3>2. ASSUME NEW f \in Emitters, adding'[f] # Nothing
          PROVE  Below(due[k], adding'[f])
      BY <1>2, <3>1, <3>2 DEF LogInv, DueOK
    <3>. QED  BY <3>1, <3>2
  <2>. QED  BY <2>1 DEF LogInv, DueOK, Ordered, Upto, Below
<1>8. RoomOK'
  BY <1>2, RoomGivenUp
<1>. QED  BY <1>1, <1>5, <1>6, <1>7, <1>8 DEF LogInv

LEMMA AddStep ==
    ASSUME FeedInv, NEW e \in Emitters, NEW kind \in {"log", "event"}, NEW most,
           Add(e, kind, most)
    PROVE  FeedInv'
<1>. DEFINE x == [kind |-> kind, id |-> Id]
<1>1. x \in Entries /\ x # Nothing /\ x.id = Id /\ x.kind = kind
  BY AddEntryStep DEF Add, FeedInv, Entries, Nothing
<1>2. kind = "event" => e = "loop"
  BY DEF Add
<1>3. \A f \in Emitters \ {e} : adding[f].kind # x.kind
  BY <1>1, <1>2 DEF Add, HandlerFree, FeedInv, LogInv, AddingOK
<1>4. LogInv'
  <2>1. found' = found /\ found[e] = "none"
    BY DEF Add, FeedInv, LogInv, RoomOK
  <2>. QED  BY <1>1, <1>2, <1>3, <2>1, AddingStep DEF Add, FeedInv, socketVars
<1>5. SocketInv'
  BY SocketIdle DEF Add, FeedInv, socketVars
<1>. QED  BY <1>4, <1>5 DEF FeedInv

LEMMA DropFullStep ==
    ASSUME LogInv, NEW e \in Emitters, adding[e] # Nothing, DropFull(e), UNCHANGED due
    PROVE  LogInv'
<1>. DEFINE x == IF adding[e].kind = "event" THEN [kind |-> "log", id |-> Id] ELSE Nothing
<1>1. x \in Entries \cup {Nothing} /\ (x # Nothing => x.id = Id /\ x.kind = "log")
  BY AddEntryStep DEF DropFull, Entries, Nothing
<1>2. adding' = [adding EXCEPT ![e] = x]
  BY DEF DropFull
<1>3. x # Nothing => \A f \in Emitters \ {e} : adding[f].kind # x.kind
  BY <1>1 DEF DropFull, HandlerFree
<1>. HIDE DEF x
<1>. QED  BY <1>1, <1>2, <1>3, AddingStep DEF DropFull

(* A place is emptied, its entry not offered.                              *)
LEMMA ThrottledStep ==
    ASSUME LogInv, NEW e \in Emitters, Throttled(e), UNCHANGED due
    PROVE  LogInv'
<1>1. /\ adding' \in [Emitters -> Entries \cup {Nothing}]
      /\ adding'[e] = Nothing /\ \A f \in Emitters \ {e} : adding'[f] = adding[f]
      /\ counter \in Nat
  BY DEF LogInv, BufferOK, AddingOK, Throttled
<1>2. UNCHANGED <<counter, buffer, queue>>
  BY DEF Throttled
<1>3. \A f \in Emitters : adding'[f] # Nothing => f # e /\ adding'[f] = adding[f]
  BY <1>1
<1>4. Nothing.kind = "none" /\ Nothing.id = 0
  BY DEF Nothing
<1>5. AddingOK'
  <2>1. ASSUME NEW f \in Emitters, NEW g \in Emitters, adding'[f] # Nothing,
               adding'[f].kind = adding'[g].kind
        PROVE  f = g
    <3>1. g # e
      BY <1>1, <1>3, <1>4, <2>1 DEF Entries, LogInv, AddingOK
    <3>. QED  BY <1>1, <1>3, <2>1, <3>1 DEF LogInv, AddingOK
  <2>. QED  BY <1>1, <1>2, <1>4, <2>1 DEF LogInv, AddingOK
<1>6. BufferOK' /\ QueueOK' /\ DueOK'
  BY <1>2, <1>3, ZenonT(60) DEF LogInv, BufferOK, QueueOK, DueOK, Upto, Below, Ordered
<1>7. RoomOK'
  BY <1>1, RoomGivenUp DEF Throttled
<1>. QED  BY <1>5, <1>6, <1>7 DEF LogInv

(* Who asks finds the last place taken, or the queue below its limit.      *)
LEMMA AskFullStep ==
    ASSUME LogInv, NEW e \in Emitters, adding[e] # Nothing, AskFull(e), UNCHANGED due
    PROVE  LogInv'
<1>1. UNCHANGED <<counter, buffer, adding, queue, due>>
  BY DEF AskFull
<1>2. BufferOK' /\ AddingOK' /\ QueueOK' /\ DueOK'
  BY <1>1 DEF LogInv, BufferOK, AddingOK, QueueOK, DueOK, Upto, Below, Ordered
<1>3. /\ found' \in [Emitters -> {"none", "room", "full"}]
      /\ found'[e] = "room" => Len(queue) < MaxQueue
      /\ \A f \in Emitters \ {e} : found'[f] = found[f]
      /\ Len(queue) \in Nat /\ MaxQueue \in Nat
  <2>1. Len(queue) \in Nat /\ MaxQueue \in Nat
    BY AccessAssumption DEF LogInv, QueueOK
  <2>2. /\ found' = [found EXCEPT ![e] = IF Len(queue) >= MaxQueue THEN "full" ELSE "room"]
        /\ found \in [Emitters -> {"none", "room", "full"}]
    BY DEF AskFull, LogInv, RoomOK
  <2>. QED  BY <2>1, <2>2
<1>4. RoomOK'
  <2>1. \A f \in Emitters : HasRoom(f)' => Len(queue) <= MaxQueue
    BY <1>3 DEF LogInv, RoomOK, HasRoom
  <2>2. ASSUME NEW f \in Emitters, NEW g \in Emitters, HasRoom(f)', HasRoom(g)', f # g
        PROVE  Len(queue) < MaxQueue
    BY <1>3, <2>2 DEF LogInv, RoomOK, HasRoom
  <2>3. Len(queue) <= MaxQueue + 1 /\ \A f \in Emitters : found'[f] # "none" => adding[f] # Nothing
    BY <1>3 DEF LogInv, RoomOK
  <2>. QED  BY <1>1, <1>3, <2>1, <2>2, <2>3 DEF RoomOK, HasRoom
<1>. QED  BY <1>2, <1>4 DEF LogInv

(* There is one record and one event at most to be offered, so no third.   *)
LEMMA TwoOffers ==
    ASSUME LogInv, NEW e \in Emitters, NEW f \in Emitters, NEW g \in Emitters,
           adding[e] # Nothing, adding[f] # Nothing, adding[g] # Nothing, e # f, e # g
    PROVE  f = g
<1>1. /\ adding[e].kind \in {"log", "event"} /\ adding[f].kind \in {"log", "event"}
      /\ adding[g].kind \in {"log", "event"}
  BY DEF LogInv, AddingOK, Entries
<1>. QED  BY <1>1 DEF LogInv, AddingOK

LEMMA PutStep ==
    ASSUME LogInv, NEW e \in Emitters, adding[e] # Nothing, Put(e), UNCHANGED due
    PROVE  LogInv'
<1>. DEFINE x == adding[e]
            longer == Append(queue, x)
<1>1. /\ adding' \in [Emitters -> Entries \cup {Nothing}]
      /\ adding'[e] = Nothing /\ \A f \in Emitters \ {e} : adding'[f] = adding[f]
      /\ adding \in [Emitters -> Entries \cup {Nothing}]
  BY DEF LogInv, AddingOK, Put
<1>2. UNCHANGED <<counter, buffer, due>> /\ queue' = longer
  BY DEF Put
<1>3. x \in Entries /\ x.id <= counter /\ counter \in Nat /\ Below(queue, x)
  BY <1>1 DEF LogInv, BufferOK, AddingOK, QueueOK
<1>4. Nothing.kind = "none" /\ Nothing.id = 0
  BY DEF Nothing
<1>5. \A f \in Emitters : adding'[f] # Nothing =>
          f # e /\ adding'[f] = adding[f] /\ adding[f] \in Entries /\ adding[f].kind # x.kind
  BY <1>1 DEF LogInv, AddingOK
<1>6. AddingOK'
  <2>1. ASSUME NEW f \in Emitters, NEW g \in Emitters, adding'[f] # Nothing,
               adding'[f].kind = adding'[g].kind
        PROVE  f = g
    <3>1. g # e
      BY <1>1, <1>4, <1>5, <2>1 DEF Entries
    <3>. QED  BY <1>1, <1>5, <2>1, <3>1 DEF LogInv, AddingOK
  <2>. QED  BY <1>1, <1>2, <1>3, <1>4, <2>1 DEF LogInv, AddingOK
<1>7. queue \in Seq(Entries) /\ Ordered(queue) /\ Upto(queue, counter)
  BY DEF LogInv, QueueOK
<1>8. /\ longer \in Seq(Entries) /\ Ordered(longer) /\ Upto(longer, counter)
      /\ \A y \in Entries : Below(queue, y) /\ (x.kind = y.kind => x.id < y.id)
                                => Below(longer, y)
  BY <1>3, <1>7, AppendedEntry
<1>9. /\ Len(longer) = Len(queue) + 1 /\ Len(queue) \in Nat
      /\ \A j \in 1 .. Len(longer) :
             (j \in 1 .. Len(queue) /\ longer[j] = queue[j]) \/ longer[j] = x
  BY <1>3, <1>7
<1>. HIDE DEF longer, x
<1>10. QueueOK'
  <2>2. ASSUME NEW f \in Emitters, adding'[f] # Nothing
        PROVE  Below(longer, adding'[f])
    <3>1. adding'[f] = adding[f] /\ adding[f] # Nothing /\ Below(queue, adding[f])
      BY <1>5, <2>2 DEF LogInv, QueueOK
    <3>. QED  BY <1>5, <1>8, <2>2, <3>1
  <2>3. Ordered(queue') /\ Upto(queue', counter')
        /\ \A f \in Emitters : adding'[f] # Nothing => Below(queue', adding'[f])
    BY <1>2, <1>8, <2>2
  <2>. QED  BY <1>2, <1>8, <2>3 DEF QueueOK, Ordered, Upto, Below
<1>11. DueOK'
  <2>1. ASSUME NEW k \in Sockets, NEW j \in 1 .. Len(longer)
        PROVE  Below(due[k], longer[j])
    <3>1. Below(due[k], x)
      BY DEF LogInv, DueOK, x
    <3>2. \A i \in 1 .. Len(queue) : Below(due[k], queue[i])
      BY DEF LogInv, DueOK
    <3>. QED  BY <1>9, <3>1, <3>2
  <2>2. ASSUME NEW k \in Sockets, NEW f \in Emitters, adding'[f] # Nothing
        PROVE  Below(due[k], adding'[f])
    BY <1>5, <2>2 DEF LogInv, DueOK
  <2>3. /\ due \in [Sockets -> Seq(Entries)]
        /\ \A k \in Sockets : Ordered(due[k]) /\ Upto(due[k], counter)
    BY DEF LogInv, DueOK
  <2>. QED  BY <1>2, <2>1, <2>2, <2>3 DEF DueOK, Ordered, Upto, Below
<1>12. BufferOK'
  BY <1>2 DEF LogInv, BufferOK
<1>13. RoomOK'
  <2>1. /\ found' \in [Emitters -> {"none", "room", "full"}] /\ found'[e] = "none"
        /\ \A f \in Emitters \ {e} : found'[f] = found[f]
        /\ HasRoom(e) /\ Len(queue) <= MaxQueue /\ MaxQueue \in Nat
    BY AccessAssumption DEF LogInv, RoomOK, HasRoom, Put
  <2>2. ASSUME NEW f \in Emitters, HasRoom(f)'
        PROVE  f # e /\ HasRoom(f) /\ adding[f] # Nothing /\ Len(queue) < MaxQueue
    <3>1. f # e /\ HasRoom(f)
      BY <2>1, <2>2 DEF HasRoom
    <3>. QED  BY <2>1, <3>1 DEF LogInv, RoomOK, HasRoom
  <2>3. ASSUME NEW f \in Emitters, NEW g \in Emitters, HasRoom(f)', HasRoom(g)'
        PROVE  f = g
    BY <2>2, <2>3, TwoOffers
  <2>4. \A f \in Emitters : found'[f] # "none" => adding'[f] # Nothing
    BY <1>1, <2>1 DEF LogInv, RoomOK
  <2>5. /\ Len(longer) <= MaxQueue + 1
        /\ \A f \in Emitters : HasRoom(f)' => Len(longer) <= MaxQueue
    BY <1>9, <2>1, <2>2
  <2>. QED  BY <1>2, <2>1, <2>3, <2>4, <2>5 DEF RoomOK, HasRoom
<1>. QED  BY <1>6, <1>10, <1>11, <1>12, <1>13 DEF LogInv

LEMMA OfferStep ==
    ASSUME FeedInv, NEW e \in Emitters, Offer(e)
    PROVE  FeedInv'
<1>1. adding[e] # Nothing /\ UNCHANGED <<conns, socket, casts, got, due>>
  BY DEF Offer
<1>2. Throttled(e) \/ AskFull(e) \/ Put(e) \/ DropFull(e)
  BY DEF Offer
<1>3. LogInv'
  BY <1>1, <1>2, PutStep, AskFullStep, ThrottledStep, DropFullStep DEF FeedInv
<1>4. UNCHANGED taker \/ (taker = "parked" /\ taker' = "looking")
  BY <1>2 DEF Put, AskFull, Throttled, DropFull
<1>5. SocketInv'
  BY <1>1, <1>4, SocketIdle DEF FeedInv
<1>. QED  BY <1>3, <1>5 DEF FeedInv

LEMMA ClearLogStep ==
    ASSUME FeedInv, ClearLog
    PROVE  FeedInv'
<1>1. UNCHANGED <<counter, adding, found, queue, taker, conns, socket, casts, got, due>>
      /\ buffer' = <<>>
  BY DEF ClearLog, socketVars
<1>2. BufferOK'
  BY <1>1, AccessAssumption DEF FeedInv, LogInv, BufferOK
<1>3. AddingOK' /\ QueueOK' /\ DueOK' /\ RoomOK'
  BY <1>1 DEF FeedInv, LogInv, AddingOK, QueueOK, DueOK, RoomOK, HasRoom, Upto, Below, Ordered
<1>4. SocketInv'
  BY <1>1, SocketIdle DEF FeedInv
<1>. QED  BY <1>2, <1>3, <1>4 DEF FeedInv, LogInv

-----------------------------------------------------------------------------
(* The live feed: entries are taken and sent.                              *)

(* The head of the queue is now broadcast: it is due to those connected.   *)
LEMMA BroadcastLog ==
    ASSUME FeedInv, queue # <<>>, queue' = Tail(queue),
           UNCHANGED <<counter, buffer, adding, found>>,
           due' = [k \in Sockets |->
                       IF k \in conns THEN Append(due[k], Head(queue)) ELSE due[k]]
    PROVE  LogInv'
<1>. DEFINE x == Head(queue)
            rest == Tail(queue)
<1>1. /\ queue \in Seq(Entries) /\ Len(queue) \in Nat
      /\ Ordered(queue) /\ Upto(queue, counter)
      /\ \A f \in Emitters : adding[f] # Nothing => Below(queue, adding[f])
      /\ counter \in Nat /\ MaxQueue \in Nat
  BY AccessAssumption DEF FeedInv, LogInv, BufferOK, QueueOK
<1>2. /\ rest \in Seq(Entries) /\ Len(rest) = Len(queue) - 1 /\ x \in Entries /\ x = queue[1]
      /\ 1 \in 1 .. Len(queue)
      /\ \A j \in 1 .. Len(rest) : rest[j] = queue[j + 1] /\ j + 1 \in 1 .. Len(queue)
      /\ Ordered(rest) /\ Upto(rest, counter) /\ x.id <= counter
      /\ \A y \in Entries : Below(queue, y) => Below(rest, y) /\ (x.kind = y.kind => x.id < y.id)
  BY <1>1, TailEntries
<1>3. \A f \in Emitters : adding[f] # Nothing => adding[f] \in Entries
  BY DEF FeedInv, LogInv, AddingOK
<1>4. \A j \in 1 .. Len(rest) : rest[j] \in Entries /\ (x.kind = rest[j].kind => x.id < rest[j].id)
  <2>. SUFFICES ASSUME NEW j \in 1 .. Len(rest)
                PROVE  rest[j] \in Entries /\ (x.kind = rest[j].kind => x.id < rest[j].id)
    OBVIOUS
  <2>1. rest[j] = queue[j + 1] /\ j + 1 \in 1 .. Len(queue) /\ 1 < j + 1
    BY <1>2
  <2>2. queue[j + 1] \in Entries
    BY <1>1, <2>1, ElementOfSeq
  <2>. QED  BY <1>1, <1>2, <2>1, <2>2 DEF Ordered
<1>. HIDE DEF x, rest
<1>5. queue' = rest
  BY DEF rest
<1>6. QueueOK'
  <2>1. \A f \in Emitters : adding[f] # Nothing => Below(rest, adding[f])
    BY <1>1, <1>2, <1>3
  <2>. QED  BY <1>2, <1>5, <2>1 DEF QueueOK, Ordered, Upto, Below
<1>7. ASSUME NEW k \in Sockets
      PROVE  /\ due'[k] \in Seq(Entries)
             /\ Ordered(due'[k]) /\ Upto(due'[k], counter)
             /\ \A j \in 1 .. Len(rest) : Below(due'[k], rest[j])
             /\ \A f \in Emitters : adding[f] # Nothing => Below(due'[k], adding[f])
  <2>1. /\ due[k] \in Seq(Entries) /\ Ordered(due[k]) /\ Upto(due[k], counter)
        /\ \A j \in 1 .. Len(queue) : Below(due[k], queue[j])
        /\ \A f \in Emitters : adding[f] # Nothing => Below(due[k], adding[f])
    BY DEF FeedInv, LogInv, DueOK
  <2>2. Below(due[k], x) /\ \A j \in 1 .. Len(rest) : Below(due[k], rest[j])
    BY <1>2, <2>1
  <2>3. CASE k \notin conns
    <3>1. due'[k] = due[k]
      BY <2>3
    <3>. QED  BY <2>1, <2>2, <3>1
  <2>4. CASE k \in conns
    <3>. DEFINE longer == Append(due[k], x)
    <3>1. /\ longer \in Seq(Entries) /\ Ordered(longer) /\ Upto(longer, counter)
          /\ \A y \in Entries : Below(due[k], y) /\ (x.kind = y.kind => x.id < y.id)
                                    => Below(longer, y)
      BY <1>1, <1>2, <2>1, <2>2, AppendedEntry
    <3>2. due'[k] = longer
      BY <2>4 DEF x
    <3>. HIDE DEF longer
    <3>3. \A j \in 1 .. Len(rest) : Below(longer, rest[j])
      BY <1>4, <2>2, <3>1
    <3>4. \A f \in Emitters : adding[f] # Nothing => Below(longer, adding[f])
      BY <1>1, <1>2, <1>3, <2>1, <3>1
    <3>. QED  BY <3>1, <3>2, <3>3, <3>4
  <2>. QED  BY <2>3, <2>4
<1>8. DueOK'
  <2>1. due' = [k \in Sockets |-> due'[k]]
    OBVIOUS
  <2>2. due' \in [Sockets -> Seq(Entries)]
    BY <1>7, <2>1
  <2>3. UNCHANGED <<counter, adding>>
    OBVIOUS
  <2>4. \A k \in Sockets : Ordered(due[k])' /\ Upto(due[k], counter)'
    BY <1>7, <2>3, SMTT(30) DEF Ordered, Upto
  <2>5. ASSUME NEW k \in Sockets, NEW j \in 1 .. Len(queue')
        PROVE  Below(due[k], queue[j])'
    <3>1. Below(due'[k], rest[j])
      BY <1>5, <1>7
    <3>2. Below(due'[k], queue'[j])
      BY <1>5, <3>1
    <3>. QED  BY <3>2 DEF Below
  <2>6. \A k \in Sockets : \A f \in Emitters :
            adding'[f] # Nothing => Below(due[k], adding[f])'
    BY <1>7, <2>3 DEF Below
  <2>. QED  BY <2>2, <2>4, <2>5, <2>6 DEF DueOK
<1>9. BufferOK' /\ AddingOK'
  BY DEF FeedInv, LogInv, BufferOK, AddingOK
<1>10. RoomOK'
  <2>1. Len(queue') <= Len(queue) /\ Len(queue') \in Nat /\ Len(queue) \in Nat /\ MaxQueue \in Nat
    BY <1>1, <1>2, <1>5
  <2>. QED  BY <2>1 DEF FeedInv, LogInv, RoomOK, HasRoom
<1>. QED  BY <1>6, <1>8, <1>9, <1>10 DEF LogInv

LEMMA TakeStep ==
    ASSUME FeedInv, Take
    PROVE  FeedInv'
<1>1. CASE queue = <<>> /\ taker' = "parking" /\ UNCHANGED <<queue, casts, due>>
  <2>1. LogInv'
    BY <1>1, LogIdle DEF Take, FeedInv, logVars
  <2>2. SocketInv'
    BY <1>1, SocketIdle DEF Take, FeedInv
  <2>. QED  BY <2>1, <2>2 DEF FeedInv
<1>2. CASE queue # <<>>
  <2>1. /\ queue' = Tail(queue)
        /\ IF conns = {} THEN UNCHANGED <<taker, casts>>
                            ELSE taker' = "sending" /\ Start("feed")
        /\ due' = [k \in Sockets |->
               IF k \in conns THEN Append(due[k], Head(queue)) ELSE due[k]]
        /\ UNCHANGED <<counter, buffer, adding, found, conns, socket, got>>
        /\ taker = "looking"
    BY <1>2 DEF Take
  <2>2. LogInv'
    BY <1>2, <2>1, BroadcastLog
  <2>3. SocketTypes /\ Serving /\ Connections /\ Following /\ "feed" \in Casters
    BY DEF FeedInv, SocketInv, Casters
  <2>4. Head(queue) \in Entries /\ \A k \in Sockets : due[k] \in Seq(Entries)
    BY <1>2, TailEntries DEF FeedInv, LogInv, QueueOK, DueOK
  <2>5. /\ casts' \in [Casters -> [on : BOOLEAN, left : SUBSET Sockets, failed : SUBSET Sockets]]
        /\ taker' \in {"looking", "sending"} /\ (taker' = "sending" <=> conns # {})
        /\ casts'["feed"].on <=> conns # {}
        /\ casts'["feed"].left = conns /\ casts'["feed"].failed \subseteq casts["feed"].failed
        /\ \A c \in Casters \ {"feed"} : casts'[c] = casts[c]
    <3>1. CASE conns = {}
      BY <2>1, <2>3, <3>1 DEF SocketTypes, Serving
    <3>2. CASE conns # {}
      <4>1. casts' = [casts EXCEPT !["feed"] = [on |-> TRUE, left |-> conns, failed |-> {}]]
        BY <2>1, <3>2 DEF Start
      <4>2. conns \in SUBSET Sockets
        BY <2>3 DEF SocketTypes
      <4>. QED  BY <2>1, <2>3, <3>2, <4>1, <4>2 DEF SocketTypes
    <3>. QED  BY <3>1, <3>2
  <2>6. SocketTypes'
    BY <2>1, <2>3, <2>5 DEF SocketTypes, Ordered
  <2>7. Serving'
    BY <2>3, <2>5 DEF Serving
  <2>8. Connections'
    <3>. SUFFICES ASSUME NEW k \in Sockets
                  PROVE  /\ k \in conns => socket[k] \in {"open", "gone"}
                         /\ socket[k] = "open" => k \in conns
                         /\ socket[k] \in {"none", "accepting"} => got[k] = <<>> /\ due'[k] = <<>>
                         /\ \A c \in Casters :
                              /\ k \in casts'[c].left => socket[k] \in {"open", "gone", "closed"}
                              /\ k \in casts'[c].failed => socket[k] \in {"gone", "closed"}
      BY <2>1 DEF Connections
    <3>1. /\ k \in conns => socket[k] \in {"open", "gone"}
          /\ socket[k] = "open" => k \in conns
          /\ socket[k] \in {"none", "accepting"} => got[k] = <<>> /\ due[k] = <<>>
      BY <2>3 DEF Connections
    <3>2. socket[k] \in {"none", "accepting"} => due'[k] = <<>>
      BY <2>1, <3>1
    <3>3. ASSUME NEW c \in Casters
          PROVE  /\ k \in casts'[c].left => socket[k] \in {"open", "gone", "closed"}
                 /\ k \in casts'[c].failed => socket[k] \in {"gone", "closed"}
      BY <2>3, <2>5, <3>1 DEF Connections
    <3>. QED  BY <3>1, <3>2, <3>3
  <2>9. Following'
    <3>. SUFFICES ASSUME NEW k \in Sockets, socket[k] = "open"
                  PROVE  k \in casts'["feed"].left /\ Lags(k)'
      BY <2>1 DEF Following
    <3>1. k \in conns /\ got[k] = due[k]
      BY <2>1, <2>3 DEF Connections, Following, Serving
    <3>2. due'[k] = Append(due[k], Head(queue))
      BY <2>1, <3>1
    <3>3. ButLast(due'[k]) = due[k] /\ due'[k] # <<>>
      BY <2>4, <3>2, ButLastAppended
    <3>. QED  BY <2>1, <2>5, <3>1, <3>3 DEF Lags, ButLast
  <2>. QED  BY <2>2, <2>6, <2>7, <2>8, <2>9 DEF FeedInv, SocketInv
<1>. QED  BY <1>1, <1>2 DEF Take

LEMMA ParkStep ==
    ASSUME FeedInv, Park
    PROVE  FeedInv'
BY LogIdle, SocketIdle DEF Park, FeedInv

LEMMA DirectStep ==
    ASSUME FeedInv, NEW c \in Directs, Direct(c)
    PROVE  FeedInv'
<1>1. LogInv'
  BY LogIdle DEF Direct, FeedInv
<1>2. /\ casts' = [casts EXCEPT ![c] = [on |-> TRUE, left |-> conns, failed |-> {}]]
      /\ UNCHANGED <<taker, conns, socket, got, due>>
      /\ c # "feed" /\ {c, "feed"} \subseteq Casters
      /\ SocketTypes /\ Serving /\ Connections /\ Following
  BY AccessAssumption DEF Direct, Start, FeedInv, SocketInv, Casters
<1>3. /\ casts' \in [Casters -> [on : BOOLEAN, left : SUBSET Sockets, failed : SUBSET Sockets]]
      /\ casts'[c].on /\ casts'[c].left = conns /\ casts'[c].failed = {}
      /\ \A d \in Casters \ {c} : casts'[d] = casts[d]
  BY <1>2 DEF SocketTypes
<1>4. SocketTypes' /\ Serving'
  BY <1>2, <1>3 DEF SocketTypes, Serving, Ordered
<1>5. Connections'
  <2>. SUFFICES ASSUME NEW k \in Sockets, NEW d \in Casters
                PROVE  /\ k \in casts'[d].left => socket[k] \in {"open", "gone", "closed"}
                       /\ k \in casts'[d].failed => socket[k] \in {"gone", "closed"}
    BY <1>2 DEF Connections
  <2>. QED  BY <1>2, <1>3 DEF Connections
<1>6. Following'
  BY <1>2, <1>3 DEF Following, Lags, ButLast
<1>. QED  BY <1>1, <1>4, <1>5, <1>6 DEF FeedInv, SocketInv

LEMMA SendStep ==
    ASSUME FeedInv, NEW c \in Casters, Send(c)
    PROVE  FeedInv'
<1>1. LogInv'
  BY LogIdle DEF Send, FeedInv
<1>2. PICK k \in casts[c].left :
          /\ \E fails \in IF socket[k] = "open" THEN {{}} ELSE {{}, {k}} :
                casts' = [casts EXCEPT ![c] =
                    [on |-> TRUE, left |-> casts[c].left \ {k},
                     failed |-> casts[c].failed \cup fails]]
          /\ got' = IF c = "feed" /\ socket[k] = "open"
                    THEN [got EXCEPT ![k] = Append(got[k], due[k][Len(due[k])])] ELSE got
  BY DEF Send
<1>3. PICK fails \in IF socket[k] = "open" THEN {{}} ELSE {{}, {k}} :
          casts' = [casts EXCEPT ![c] =
                    [on |-> TRUE, left |-> casts[c].left \ {k},
                     failed |-> casts[c].failed \cup fails]]
  BY <1>2
<1>4. /\ UNCHANGED <<taker, conns, socket, due>> /\ "feed" \in Casters
      /\ SocketTypes /\ Serving /\ Connections /\ Following
  BY DEF Send, FeedInv, SocketInv, Casters
<1>5. /\ k \in Sockets /\ socket[k] \in {"open", "gone", "closed"}
      /\ casts[c].on
  BY <1>4 DEF SocketTypes, Connections, Serving
<1>6. fails \subseteq Sockets /\ \A j \in fails : socket[j] \in {"gone", "closed"}
  BY <1>5
<1>7. /\ casts' \in [Casters -> [on : BOOLEAN, left : SUBSET Sockets, failed : SUBSET Sockets]]
      /\ casts'[c].on /\ casts'[c].left = casts[c].left \ {k}
      /\ casts'[c].failed = casts[c].failed \cup fails
      /\ \A d \in Casters \ {c} : casts'[d] = casts[d]
  <2>1. /\ casts[c].left \ {k} \in SUBSET Sockets
        /\ casts[c].failed \cup fails \in SUBSET Sockets
    BY <1>4, <1>6 DEF SocketTypes
  <2>. QED  BY <1>3, <1>4, <2>1 DEF SocketTypes
<1>8. Serving'
  BY <1>4, <1>5, <1>7 DEF Serving
<1>9. ASSUME NEW j \in Sockets
      PROVE  /\ got'[j] \in Seq(Entries) /\ Ordered(got'[j])
             /\ j # k => got'[j] = got[j]
             /\ c # "feed" => got'[j] = got[j]
             /\ socket[j] # "open" => got'[j] = got[j]
             /\ c = "feed" /\ j = k /\ socket[j] = "open" => got'[j] = due[j]
  <2>1. got \in [Sockets -> Seq(Entries)] /\ Ordered(got[j])
    BY <1>4 DEF SocketTypes
  <2>2. CASE c = "feed" /\ j = k /\ socket[j] = "open"
    <3>1. due[j] # <<>> /\ got[j] = ButLast(due[j])
      BY <1>2, <1>4, <2>2 DEF Following, Lags
    <3>2. due[j] \in Seq(Entries) /\ Ordered(due[j])
      BY DEF FeedInv, LogInv, DueOK
    <3>3. got'[j] = Append(got[j], due[j][Len(due[j])])
      BY <1>2, <2>1, <2>2
    <3>4. got'[j] = due[j]
      BY <3>1, <3>2, <3>3, LastAppended
    <3>. QED  BY <2>2, <3>2, <3>4
  <2>3. CASE ~(c = "feed" /\ j = k /\ socket[j] = "open")
    <3>1. got'[j] = got[j]
      BY <1>2, <2>1, <2>3
    <3>. QED  BY <2>1, <2>3, <3>1
  <2>. QED  BY <2>2, <2>3
<1>10. got' = [j \in Sockets |-> got'[j]]
  BY <1>2, <1>4 DEF SocketTypes
<1>11. SocketTypes'
  <2>1. got' \in [Sockets -> Seq(Entries)]
    BY <1>9, <1>10
  <2>. QED  BY <1>4, <1>7, <1>9, <2>1 DEF SocketTypes, Ordered
<1>12. Connections'
  <2>. SUFFICES ASSUME NEW j \in Sockets
                PROVE  /\ j \in conns => socket[j] \in {"open", "gone"}
                       /\ socket[j] = "open" => j \in conns
                       /\ socket[j] \in {"none", "accepting"} => got'[j] = <<>> /\ due[j] = <<>>
                       /\ \A d \in Casters :
                            /\ j \in casts'[d].left => socket[j] \in {"open", "gone", "closed"}
                            /\ j \in casts'[d].failed => socket[j] \in {"gone", "closed"}
    BY <1>4 DEF Connections
  <2>1. /\ j \in conns => socket[j] \in {"open", "gone"}
        /\ socket[j] = "open" => j \in conns
        /\ socket[j] \in {"none", "accepting"} => got'[j] = <<>> /\ due[j] = <<>>
    BY <1>4, <1>9 DEF Connections
  <2>2. ASSUME NEW d \in Casters
        PROVE  /\ j \in casts'[d].left => socket[j] \in {"open", "gone", "closed"}
               /\ j \in casts'[d].failed => socket[j] \in {"gone", "closed"}
    BY <1>4, <1>6, <1>7 DEF Connections
  <2>. QED  BY <2>1, <2>2
<1>13. Following'
  <2>. SUFFICES ASSUME NEW j \in Sockets, socket[j] = "open"
                PROVE  IF j \in casts'["feed"].left THEN Lags(j)'
                       ELSE got'[j] = due[j] \/ (taker = "over" /\ Lags(j)')
    BY <1>4 DEF Following
  <2>1. Lags(j)' <=> due[j] # <<>> /\ got'[j] = ButLast(due[j])
    BY <1>4 DEF Lags, ButLast
  <2>2. CASE c = "feed" /\ j = k
    BY <1>7, <1>9, <2>2
  <2>3. CASE ~(c = "feed" /\ j = k)
    <3>1. got'[j] = got[j] /\ (j \in casts'["feed"].left <=> j \in casts["feed"].left)
      BY <1>4, <1>7, <1>9, <2>3
    <3>. QED  BY <1>4, <2>1, <3>1 DEF Following, Lags
  <2>. QED  BY <2>2, <2>3
<1>. QED  BY <1>1, <1>8, <1>11, <1>12, <1>13 DEF FeedInv, SocketInv

LEMMA EndCastStep ==
    ASSUME FeedInv, NEW c \in Casters, EndCast(c)
    PROVE  FeedInv'
<1>1. LogInv'
  BY LogIdle DEF EndCast, FeedInv
<1>2. /\ casts[c].on /\ casts[c].left = {}
      /\ conns' = conns \ casts[c].failed
      /\ casts' = [casts EXCEPT ![c] = NoCast]
      /\ taker' = IF c = "feed" THEN "looking" ELSE taker
      /\ UNCHANGED <<socket, got, due>> /\ "feed" \in Casters
      /\ SocketTypes /\ Serving /\ Connections /\ Following
  BY DEF EndCast, FeedInv, SocketInv, Casters
<1>3. /\ casts' \in [Casters -> [on : BOOLEAN, left : SUBSET Sockets, failed : SUBSET Sockets]]
      /\ ~casts'[c].on /\ casts'[c].left = {} /\ casts'[c].failed = {}
      /\ \A d \in Casters \ {c} : casts'[d] = casts[d]
  BY <1>2 DEF SocketTypes, NoCast
<1>4. SocketTypes' /\ Serving'
  <2>1. SocketTypes'
    BY <1>2, <1>3 DEF SocketTypes, Ordered
  <2>2. Serving'
    BY <1>2, <1>3 DEF Serving
  <2>. QED  BY <2>1, <2>2
<1>5. Connections'
  <2>. SUFFICES ASSUME NEW k \in Sockets
                PROVE  /\ k \in conns' => socket[k] \in {"open", "gone"}
                       /\ socket[k] = "open" => k \in conns'
                       /\ \A d \in Casters :
                            /\ k \in casts'[d].left => socket[k] \in {"open", "gone", "closed"}
                            /\ k \in casts'[d].failed => socket[k] \in {"gone", "closed"}
    BY <1>2 DEF Connections
  <2>1. /\ k \in conns' => socket[k] \in {"open", "gone"}
        /\ socket[k] = "open" => k \in conns'
    BY <1>2 DEF Connections
  <2>2. ASSUME NEW d \in Casters
        PROVE  /\ k \in casts'[d].left => socket[k] \in {"open", "gone", "closed"}
               /\ k \in casts'[d].failed => socket[k] \in {"gone", "closed"}
    BY <1>2, <1>3 DEF Connections
  <2>. QED  BY <2>1, <2>2
<1>6. Following'
  <2>. SUFFICES ASSUME NEW k \in Sockets, socket[k] = "open"
                PROVE  IF k \in casts'["feed"].left THEN Lags(k)
                       ELSE got[k] = due[k] \/ (taker' = "over" /\ Lags(k))
    BY <1>2 DEF Following, Lags, ButLast
  <2>1. CASE c = "feed"
    <3>1. taker = "sending" /\ k \notin casts["feed"].left /\ k \notin casts'["feed"].left
      BY <1>2, <1>3, <2>1 DEF Serving
    <3>. QED  BY <1>2, <3>1 DEF Following
  <2>2. CASE c # "feed"
    <3>1. taker' = taker /\ casts'["feed"] = casts["feed"]
      BY <1>2, <1>3, <2>2
    <3>. QED  BY <1>2, <3>1 DEF Following
  <2>. QED  BY <2>1, <2>2
<1>. QED  BY <1>1, <1>4, <1>5, <1>6 DEF FeedInv, SocketInv

LEMMA ShutDownStep ==
    ASSUME FeedInv, ShutDown
    PROVE  FeedInv'
<1>1. LogInv'
  BY LogIdle DEF ShutDown, FeedInv
<1>2. /\ casts' = [casts EXCEPT !["feed"] = NoCast] /\ taker' = "over"
      /\ UNCHANGED <<conns, socket, got, due>> /\ "feed" \in Casters
      /\ SocketTypes /\ Serving /\ Connections /\ Following
  BY DEF ShutDown, FeedInv, SocketInv, Casters
<1>3. /\ casts' \in [Casters -> [on : BOOLEAN, left : SUBSET Sockets, failed : SUBSET Sockets]]
      /\ ~casts'["feed"].on /\ casts'["feed"].left = {} /\ casts'["feed"].failed = {}
      /\ \A d \in Casters \ {"feed"} : casts'[d] = casts[d]
  BY <1>2 DEF SocketTypes, NoCast
<1>4. SocketTypes'
  BY <1>2, <1>3 DEF SocketTypes, Ordered
<1>5. Serving'
  BY <1>2, <1>3 DEF Serving
<1>6. Connections'
  <2>1. ASSUME NEW k \in Sockets, NEW d \in Casters
        PROVE  /\ k \in casts'[d].left => socket[k] \in {"open", "gone", "closed"}
               /\ k \in casts'[d].failed => socket[k] \in {"gone", "closed"}
    BY <1>2, <1>3 DEF Connections
  <2>. QED  BY <1>2, <2>1 DEF Connections
<1>7. Following'
  BY <1>2, <1>3 DEF Following, Lags, ButLast
<1>. QED  BY <1>1, <1>4, <1>5, <1>6, <1>7 DEF FeedInv, SocketInv

-----------------------------------------------------------------------------
(* The live feed: sockets come and go.                                     *)

LEMMA ConnectStep ==
    ASSUME FeedInv, NEW k \in Sockets, Connect(k)
    PROVE  FeedInv'
<1>1. LogInv'
  BY LogIdle DEF Connect, FeedInv
<1>2. /\ socket[k] = "none" /\ socket' = [socket EXCEPT ![k] = "accepting"]
      /\ UNCHANGED <<taker, conns, casts, got, due>>
      /\ SocketTypes /\ Serving /\ Connections /\ Following
  BY DEF Connect, FeedInv, SocketInv
<1>3. /\ socket' \in [Sockets -> {"none", "accepting", "open", "gone", "closed"}]
      /\ socket'[k] = "accepting" /\ \A j \in Sockets \ {k} : socket'[j] = socket[j]
  BY <1>2 DEF SocketTypes
<1>4. SocketTypes' /\ Serving'
  BY <1>2, <1>3 DEF SocketTypes, Serving, Ordered
<1>5. Connections'
  BY <1>2, <1>3 DEF Connections
<1>6. Following'
  BY <1>2, <1>3 DEF Following, Lags, ButLast
<1>. QED  BY <1>1, <1>4, <1>5, <1>6 DEF FeedInv, SocketInv

LEMMA RegisterStep ==
    ASSUME FeedInv, NEW k \in Sockets, Register(k)
    PROVE  FeedInv'
<1>1. LogInv'
  BY LogIdle DEF Register, FeedInv
<1>2. /\ socket[k] = "accepting" /\ socket' = [socket EXCEPT ![k] = "open"]
      /\ conns' = conns \cup {k} /\ UNCHANGED <<taker, casts, got, due>>
      /\ SocketTypes /\ Serving /\ Connections /\ Following
  BY DEF Register, FeedInv, SocketInv
<1>3. /\ socket' \in [Sockets -> {"none", "accepting", "open", "gone", "closed"}]
      /\ socket'[k] = "open" /\ \A j \in Sockets \ {k} : socket'[j] = socket[j]
  BY <1>2 DEF SocketTypes
<1>4. /\ got[k] = <<>> /\ due[k] = <<>> /\ k \notin casts["feed"].left
      /\ \A c \in Casters : k \notin casts[c].left /\ k \notin casts[c].failed
  BY <1>2 DEF Connections, Casters
<1>5. SocketTypes' /\ Serving'
  BY <1>2, <1>3 DEF SocketTypes, Serving, Ordered
<1>6. Connections'
  BY <1>2, <1>3, <1>4 DEF Connections
<1>7. Following'
  BY <1>2, <1>3, <1>4 DEF Following, Lags, ButLast
<1>. QED  BY <1>1, <1>5, <1>6, <1>7 DEF FeedInv, SocketInv

LEMMA VanishStep ==
    ASSUME FeedInv, NEW k \in Sockets, Vanish(k)
    PROVE  FeedInv'
<1>1. LogInv'
  BY LogIdle DEF Vanish, FeedInv
<1>2. /\ socket[k] = "open" /\ socket' = [socket EXCEPT ![k] = "gone"]
      /\ UNCHANGED <<taker, conns, casts, got, due>>
      /\ SocketTypes /\ Serving /\ Connections /\ Following
  BY DEF Vanish, FeedInv, SocketInv
<1>3. /\ socket' \in [Sockets -> {"none", "accepting", "open", "gone", "closed"}]
      /\ socket'[k] = "gone" /\ \A j \in Sockets \ {k} : socket'[j] = socket[j]
  BY <1>2 DEF SocketTypes
<1>4. SocketTypes' /\ Serving'
  BY <1>2, <1>3 DEF SocketTypes, Serving, Ordered
<1>5. Connections'
  BY <1>2, <1>3 DEF Connections
<1>6. Following'
  BY <1>2, <1>3 DEF Following, Lags, ButLast
<1>. QED  BY <1>1, <1>4, <1>5, <1>6 DEF FeedInv, SocketInv

LEMMA DisconnectStep ==
    ASSUME FeedInv, NEW k \in Sockets, Disconnect(k)
    PROVE  FeedInv'
<1>1. LogInv'
  BY LogIdle DEF Disconnect, FeedInv
<1>2. /\ socket[k] = "gone" /\ socket' = [socket EXCEPT ![k] = "closed"]
      /\ conns' = conns \ {k} /\ UNCHANGED <<taker, casts, got, due>>
      /\ SocketTypes /\ Serving /\ Connections /\ Following
  BY DEF Disconnect, FeedInv, SocketInv
<1>3. /\ socket' \in [Sockets -> {"none", "accepting", "open", "gone", "closed"}]
      /\ socket'[k] = "closed" /\ \A j \in Sockets \ {k} : socket'[j] = socket[j]
  BY <1>2 DEF SocketTypes
<1>4. SocketTypes' /\ Serving'
  BY <1>2, <1>3 DEF SocketTypes, Serving, Ordered
<1>5. Connections'
  BY <1>2, <1>3 DEF Connections
<1>6. Following'
  BY <1>2, <1>3 DEF Following, Lags, ButLast
<1>. QED  BY <1>1, <1>4, <1>5, <1>6 DEF FeedInv, SocketInv

(* Whatever the feed does keeps its invariant.                             *)
LEMMA FeedStep ==
    ASSUME FeedInv, NEW emitters \in SUBSET Emitters, NEW sockets \in SUBSET Sockets,
           NEW directs \in SUBSET Directs, NEW most,
           FeedWork(emitters, sockets, directs, most)
    PROVE  FeedInv'
<1>1. ASSUME NEW e \in emitters, Add(e, "log", most) \/ Event(e, most)
      PROVE  FeedInv'
  BY <1>1, AddStep DEF Event
<1>2. ASSUME NEW e \in emitters, Offer(e)
      PROVE  FeedInv'
  BY <1>2, OfferStep
<1>3. ASSUME ClearLog \/ Take \/ Park \/ ShutDown
      PROVE  FeedInv'
  BY <1>3, ClearLogStep, TakeStep, ParkStep, ShutDownStep
<1>4. ASSUME NEW c \in directs, Direct(c)
      PROVE  FeedInv'
  BY <1>4, DirectStep
<1>5. ASSUME NEW c \in directs \cup {"feed"}, Send(c) \/ EndCast(c)
      PROVE  FeedInv'
  <2>1. c \in Casters
    BY <1>5 DEF Casters
  <2>. QED  BY <1>5, <2>1, SendStep, EndCastStep
<1>6. ASSUME NEW k \in sockets, Connect(k) \/ Register(k) \/ Vanish(k) \/ Disconnect(k)
      PROVE  FeedInv'
  BY <1>6, ConnectStep, RegisterStep, VanishStep, DisconnectStep
<1>. QED  BY <1>1, <1>2, <1>3, <1>4, <1>5, <1>6 DEF FeedWork

LEMMA FeedIdle ==
    ASSUME FeedInv, UNCHANGED <<logVars, socketVars>>
    PROVE  FeedInv'
BY LogIdle, SocketIdle DEF FeedInv, socketVars
-----------------------------------------------------------------------------
(* The limiter, the sessions and the feed together.                        *)

AccessInv == LimiterInv /\ SessionsInv /\ FeedInv /\ about \in Configs

LEMMA WhoIsAbout ==
    ASSUME about \in Configs
    PROVE  /\ about.ips \in SUBSET Ips /\ about.workers \in SUBSET Workers
           /\ about.keys \in SUBSET {"wrong", "right"} /\ about.ticks \in 0 .. MaxClock
           /\ about.before \in SUBSET Sessions /\ about.aging \in SUBSET Sessions
           /\ about.browsers \in SUBSET Browsers
           /\ about.emitters \in SUBSET Emitters /\ about.sockets \in SUBSET Sockets
           /\ about.directs \in SUBSET Directs
BY AccessAssumption

LEMMA AccessStart == Init => AccessInv
<1>. SUFFICES ASSUME Init
              PROVE  AccessInv
  OBVIOUS
<1>1. about \in Configs /\ LimiterInv /\ FeedInv
  BY LimiterStart, FeedStart DEF Init
<1>2. SessionsInv
  BY <1>1, WhoIsAbout, SessionsStart DEF Init
<1>. QED  BY <1>1, <1>2 DEF AccessInv

LEMMA AccessStep == AccessInv /\ [Next]_accessVars => AccessInv'
<1>. SUFFICES ASSUME AccessInv, [Next]_accessVars
              PROVE  AccessInv'
  OBVIOUS
<1>1. LimiterInv /\ SessionsInv /\ FeedInv /\ about \in Configs /\ about' = about
  BY DEF AccessInv, Next, accessVars
<1>2. CASE Limiter(about.ips, about.workers, about.keys, about.ticks) /\ UNCHANGED feedVars
  <2>1. LimiterInv'
    BY <1>1, <1>2, WhoIsAbout, LimiterStep
  <2>2. SessionsInv' /\ FeedInv'
    BY <1>1, <1>2, SessionsIdle, FeedIdle DEF feedVars
  <2>. QED  BY <1>1, <2>1, <2>2 DEF AccessInv
<1>3. CASE /\ SessionWork(about.browsers, about.aging)
           /\ UNCHANGED <<limiterVars, logVars, socketVars>>
  <2>1. SessionsInv'
    BY <1>1, <1>3, WhoIsAbout, SessionsStep
  <2>2. LimiterInv' /\ FeedInv'
    BY <1>1, <1>3, LimiterIdle, FeedIdle
  <2>. QED  BY <1>1, <2>1, <2>2 DEF AccessInv
<1>4. CASE /\ FeedWork(about.emitters, about.sockets, about.directs, about.entries)
           /\ UNCHANGED limiterVars
  <2>1. FeedInv' /\ LimiterInv'
    BY <1>1, <1>4, WhoIsAbout, FeedStep, LimiterIdle
  <2>2. UNCHANGED sessionVars
    BY <1>4 DEF FeedWork, Add, Event, Offer, ClearLog, Take, Park, Direct, Send, EndCast,
                ShutDown, Connect, Register, Vanish, Disconnect
  <2>3. SessionsInv'
    BY <1>1, <2>2, SessionsIdle
  <2>. QED  BY <1>1, <2>1, <2>3 DEF AccessInv
<1>5. CASE UNCHANGED accessVars
  <2>1. LimiterInv' /\ SessionsInv' /\ FeedInv'
    BY <1>1, <1>5, LimiterIdle, SessionsIdle, FeedIdle DEF accessVars, feedVars
  <2>. QED  BY <1>1, <2>1 DEF AccessInv
<1>. QED  BY <1>2, <1>3, <1>4, <1>5 DEF Next

(* The inductive invariant of the limiter, the sessions and the feed.      *)
THEOREM AccessInvariant == Spec => []AccessInv
BY AccessStart, AccessStep, PTL DEF Spec

(* The limiter's tables, the sessions and the feed have their types.       *)
THEOREM AccessTypes == Spec => []TypeOK
<1>1. AccessInv => TypeOK
  BY FeedConsequences DEF AccessInv, LimiterInv, SessionsInv, TypeOK
<1>. QED  BY AccessInvariant, <1>1, PTL

(* A session that has ended stays ended, a connected socket misses nothing *)
(* of the feed, and entries reach it in the order of their ids.            *)
THEOREM DashboardHoldsAlways == Spec => []DashboardHolds
<1>1. AccessInv => DashboardHolds
  BY FeedConsequences DEF AccessInv, SessionsInv, DashboardHolds
<1>. QED  BY AccessInvariant, <1>1, PTL

(* No step lets a request through over a limit, and a blocked address back *)
(* before its time only in the code's two ways: an old block's expiry that *)
(* deletes a newer one, and the one request that a thread's block finds    *)
(* between the middleware's last look and its windows.                     *)
THEOREM LetThroughHolds == Spec => LetThrough
<1>1. AccessInv /\ [Next]_accessVars => [Rightly]_limiterVars
  <2>. SUFFICES ASSUME AccessInv, [Next]_accessVars, ~UNCHANGED limiterVars
                PROVE  Rightly
    OBVIOUS
  <2>1. Limiter(about.ips, about.workers, about.keys, about.ticks)
    BY DEF Next, accessVars
  <2>. QED  BY <2>1, WhoIsAbout, LimiterRightly DEF AccessInv
<1>. QED  BY AccessInvariant, <1>1, PTL DEF Spec, LetThrough
=============================================================================
