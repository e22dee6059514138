----------------------------- MODULE RateLimiter -----------------------------
(***************************************************************************)
(* The rate limiter and the API keys it guards.  The middleware and the    *)
(* administrator's routes run on the event loop, one at a time; the key    *)
(* dependencies of api/auth.py are plain functions, so FastAPI runs them   *)
(* in worker threads.  The tables have no lock: whoever looks at a block   *)
(* may be overtaken before deleting it.                                    *)
(*                                                                         *)
(* The deques hold times and are read for their length only.  An entry of  *)
(* a request window is represented by the number of the request among      *)
(* those let through, whose times "passed" remembers; a failed attempt by  *)
(* its time and its number among those of that time.                       *)
(***************************************************************************)
EXTENDS Integers, Sequences, FiniteSets

CONSTANTS
    Ips,
    Workers,        \* requests being answered, one thread each
    Minute, Hour,   \* the windows, in ticks of the clock
    PerMinute, PerHour,
    BlockFor,       \* block_duration_seconds
    MaxFailed,      \* max_failed_auth_attempts
    FailWindow,     \* failed_auth_window_seconds
    CleanupEvery,   \* CLEANUP_INTERVAL
    MaxClock        \* bound: ticks

ASSUME LimiterAssumption ==
    /\ {Minute, Hour, PerMinute, PerHour, BlockFor, MaxFailed, FailWindow,
        CleanupEvery, MaxClock} \subseteq Nat \ {0}
    /\ Minute <= Hour

VARIABLES
    clock,
    perMinute, perHour,  \* of each address, the requests in its windows
    failed,    \* of each address, its failed attempts
    blocked,   \* blocked_at of each address; Never when it has no entry
    count,     \* _request_count, modulo CleanupEvery
    worker,    \* of each request: its call, the step it is at, its address, its key
    passed,    \* the times the middleware let each address through
    since,     \* ghost: the latest block_ip no administrator has lifted
    overtaken, \* ghost: addresses whose new block fell to an older one's expiry
    slipped    \* ghost: addresses a request came from in spite of the latest block

requestVars == <<perMinute, perHour, count, passed>>
blockVars == <<blocked, since, overtaken, slipped>>
limiterVars == <<clock, requestVars, blockVars, failed, worker>>

Never == -1
Idle == [call |-> "none", step |-> "idle", ip |-> "none", key |-> "none"]

LimiterInit ==
    /\ clock = 0
    /\ perMinute = [ip \in Ips |-> {}] /\ perHour = [ip \in Ips |-> {}]
    /\ failed = [ip \in Ips |-> {}]
    /\ blocked = [ip \in Ips |-> Never]
    /\ count = 0
    /\ worker = [w \in Workers |-> Idle]
    /\ passed = [ip \in Ips |-> <<>>]
    /\ since = [ip \in Ips |-> Never]
    /\ overtaken = {} /\ slipped = {}

(* _prune_deque                                                            *)
Recent(times, numbers, window) == {n \in numbers : times[n] > clock - window}
RecentFailures(ip) == {f \in failed[ip] : f.at > clock - FailWindow}

Expired(ip) == clock - blocked[ip] > BlockFor

Refused(ip) == blocked[ip] # Never /\ ~Expired(ip)

Block(ip) ==
    /\ blocked' = [blocked EXCEPT ![ip] = clock]
    /\ since' = [since EXCEPT ![ip] = clock]
    /\ overtaken' = overtaken \ {ip}
    /\ slipped' = slipped \ {ip}

Served(ip) == since[ip] = Never \/ clock - since[ip] > BlockFor \/ ip \in overtaken

(* Mutant: a cleanup that keeps what the shorter window needs.             *)
KeptMinute(table, times) == [ip \in Ips |-> Recent(times[ip], table[ip], Minute)]

(* _cleanup_old_ips: the request entries of every address, and no others.  *)
Kept(table, times) == [ip \in Ips |-> Recent(times[ip], table[ip], Hour)]

At(w, step) == worker[w].step = step
GoTo(w, step) == worker' = [worker EXCEPT ![w].step = step]
Leave(w) == worker' = [worker EXCEPT ![w] = Idle]

(* The next function that looks at the block for the same request.         *)
Calls(w, call) ==
    worker' = [worker EXCEPT ![w] =
        [call |-> call, step |-> "look", ip |-> worker[w].ip, key |-> worker[w].key]]

(* These run on the event loop without an await; "key" runs in a thread.   *)
OnLoop == {"enter", "check", "ask"}
NoneOnLoop == \A w \in Workers : worker[w].call \notin OnLoop

Begin(w, call, ip, key) ==
    /\ worker[w] = Idle
    /\ call = "key" \/ NoneOnLoop
    /\ worker' = [worker EXCEPT ![w] = [call |-> call, step |-> "look", ip |-> ip, key |-> key]]
    /\ UNCHANGED <<clock, requestVars, blockVars, failed>>

-----------------------------------------------------------------------------
(* is_blocked, and what its caller goes on to when it answers no: dispatch *)
(* to check_rate_limit, which asks once more and then turns to the windows *)
(* whatever is blocked meanwhile.                                          *)

Then(w) ==
    CASE worker[w].call = "enter" -> Calls(w, "check")
      [] worker[w].call = "check" -> GoTo(w, "windows")
      [] worker[w].call = "key" -> GoTo(w, "judge")
      [] OTHER -> Leave(w)

Look(w) ==
    LET ip == worker[w].ip
    IN /\ At(w, "look")
       /\ \/ Refused(ip) /\ Leave(w)
          \/ blocked[ip] = Never /\ Then(w)
          \/ blocked[ip] # Never /\ Expired(ip) /\ GoTo(w, "drop")
       /\ UNCHANGED <<clock, requestVars, blockVars, failed>>

(* "del" fails with KeyError when another has deleted the entry; when      *)
(* another has replaced it, it deletes the new one.                        *)
Drop(w) ==
    LET ip == worker[w].ip
    IN /\ At(w, "drop")
       /\ IF blocked[ip] = Never THEN Leave(w) ELSE GoTo(w, "forget")
       /\ overtaken' = IF Refused(ip) THEN overtaken \cup {ip} ELSE overtaken
       /\ blocked' = [blocked EXCEPT ![ip] = Never]
       /\ UNCHANGED <<clock, requestVars, since, slipped, failed>>

Forget(w) ==
    /\ At(w, "forget")
    /\ failed' = [failed EXCEPT ![worker[w].ip] = {}]
    /\ Then(w)
    /\ UNCHANGED <<clock, requestVars, blockVars>>

-----------------------------------------------------------------------------
(* check_rate_limit behind its look; what it lets through goes on to its   *)
(* key.                                                                    *)

Pass(ip, inMinute, inHour) ==
    LET times == [passed EXCEPT ![ip] = Append(@, clock)]
        new == Len(passed[ip]) + 1
        minutes == [perMinute EXCEPT ![ip] = inMinute \cup {new}]
        hours == [perHour EXCEPT ![ip] = inHour \cup {new}]
        cleans == count + 1 = CleanupEvery
    IN /\ perMinute' = IF cleans THEN Kept(minutes, times) ELSE minutes
       /\ perHour' = IF cleans THEN Kept(hours, times) ELSE hours
       /\ count' = IF cleans THEN 0 ELSE count + 1
       /\ passed' = times

Limit(w) ==
    LET ip == worker[w].ip
        inMinute == Recent(passed[ip], perMinute[ip], Minute)
        inHour == Recent(passed[ip], perHour[ip], Hour)
        full == Cardinality(inMinute) >= PerMinute \/ Cardinality(inHour) >= PerHour
    IN /\ At(w, "windows")
       /\ \/ /\ full
             /\ Block(ip)
             /\ perMinute' = [perMinute EXCEPT ![ip] = inMinute]
             /\ perHour' = [perHour EXCEPT ![ip] = inHour]
             /\ Leave(w)
             /\ UNCHANGED <<count, passed>>
          \/ /\ ~full
             /\ Pass(ip, inMinute, inHour)
             /\ Calls(w, "key")
             /\ slipped' = IF Served(ip) THEN slipped ELSE slipped \cup {ip}
             /\ UNCHANGED <<blocked, since, overtaken>>
       /\ UNCHANGED <<clock, failed>>

-----------------------------------------------------------------------------
(* get_api_key, get_tenant and get_admin_key.                              *)

(* The attempt at this moment, after those of the same time.               *)
Attempt(ip) ==
    [at |-> clock, nth |-> Cardinality({f \in failed[ip] : f.at = clock}) + 1]

(* record_failed_auth, up to the append; or clear_failed_auth's look.      *)
Judge(w) ==
    LET ip == worker[w].ip
    IN /\ At(w, "judge")
       /\ \/ /\ worker[w].key = "wrong"
             /\ failed' = [failed EXCEPT ![ip] = RecentFailures(ip) \cup {Attempt(ip)}]
             /\ GoTo(w, "count")
          \/ /\ worker[w].key = "right"
             /\ IF failed[ip] = {} THEN Leave(w) ELSE GoTo(w, "clear")
             /\ UNCHANGED failed
       /\ UNCHANGED <<clock, requestVars, blockVars>>

Count(w) ==
    LET ip == worker[w].ip
    IN /\ At(w, "count")
       /\ IF Cardinality(failed[ip]) >= MaxFailed THEN Block(ip) ELSE UNCHANGED blockVars
       /\ Leave(w)
       /\ UNCHANGED <<clock, requestVars, failed>>

Clear(w) ==
    /\ At(w, "clear")
    /\ failed' = [failed EXCEPT ![worker[w].ip] = {}]
    /\ Leave(w)
    /\ UNCHANGED <<clock, requestVars, blockVars>>

-----------------------------------------------------------------------------
(* The administrator's routes.  The counts prune what they count; those of *)
(* one address also ask is_blocked, which is "ask".                        *)

BlockIp(ip) == NoneOnLoop /\ Block(ip) /\ UNCHANGED <<clock, requestVars, failed, worker>>

Unblock(ip) ==
    /\ NoneOnLoop
    /\ blocked[ip] # Never
    /\ blocked' = [blocked EXCEPT ![ip] = Never]
    /\ since' = [since EXCEPT ![ip] = Never]
    /\ overtaken' = overtaken \ {ip}
    /\ slipped' = slipped \ {ip}
    /\ failed' = [failed EXCEPT ![ip] = {}]
    /\ UNCHANGED <<clock, requestVars, worker>>

ClearFailed(ips) ==
    /\ NoneOnLoop
    /\ failed' = [ip \in Ips |-> IF ip \in ips THEN {} ELSE failed[ip]]
    /\ UNCHANGED <<clock, requestVars, blockVars, worker>>

PrunedOf(table, ips, window) ==
    [ip \in Ips |-> IF ip \in ips THEN Recent(passed[ip], table[ip], window)
                                   ELSE table[ip]]

Stats(ips) ==
    /\ NoneOnLoop
    /\ perMinute' = PrunedOf(perMinute, ips, Minute)
    /\ perHour' = PrunedOf(perHour, ips, Hour)
    /\ UNCHANGED <<clock, count, passed, blockVars, failed, worker>>

FailedCounts(ips) ==
    /\ NoneOnLoop
    /\ failed' = [ip \in Ips |-> IF ip \in ips THEN RecentFailures(ip) ELSE failed[ip]]
    /\ UNCHANGED <<clock, requestVars, blockVars, worker>>

Tick(ticks) ==
    /\ clock < ticks
    /\ clock' = clock + 1
    /\ UNCHANGED <<requestVars, blockVars, failed, worker>>

Limiter(ips, ws, keys, ticks) ==
    \/ \E w \in ws :
           \/ \E ip \in ips, key \in keys :
                  Begin(w, "enter", ip, key) \/ Begin(w, "key", ip, key)
           \/ \E ip \in ips : Begin(w, "ask", ip, "none")
           \/ Look(w) \/ Drop(w) \/ Forget(w) \/ Limit(w)
           \/ Judge(w) \/ Count(w) \/ Clear(w)
    \/ \E ip \in ips : BlockIp(ip) \/ Unblock(ip)
    \/ \E some \in {{ip} : ip \in ips} \cup {ips} :
           ClearFailed(some) \/ Stats(some) \/ FailedCounts(some)
    \/ Tick(ticks)

-----------------------------------------------------------------------------
LimiterTypeOK ==
    /\ clock \in 0 .. MaxClock
    /\ passed \in [Ips -> Seq(0 .. MaxClock)]
    /\ perMinute \in [Ips -> SUBSET (Nat \ {0})] /\ perHour \in [Ips -> SUBSET (Nat \ {0})]
    /\ \A ip \in Ips : perMinute[ip] \cup perHour[ip] \subseteq DOMAIN passed[ip]
    /\ failed \in [Ips -> SUBSET [at : 0 .. MaxClock, nth : Nat \ {0}]]
    /\ \A ip \in Ips : IsFiniteSet(failed[ip])
    /\ blocked \in [Ips -> {Never} \cup 0 .. MaxClock]
    /\ since \in [Ips -> {Never} \cup 0 .. MaxClock]
    /\ count \in 0 .. (CleanupEvery - 1)
    /\ worker \in [Workers -> [call : {"none", "enter", "check", "key", "ask"},
                               step : {"idle", "look", "drop", "forget", "windows",
                                       "judge", "count", "clear"},
                               ip : Ips \cup {"none"},
                               key : {"none", "right", "wrong"}]]
    /\ overtaken \subseteq Ips /\ slipped \subseteq Ips

(* Room in both windows, by what was really let through and whatever the   *)
(* cleanup, the counts and the blocks have done to the tables since.       *)
Room(ip) ==
    LET all == DOMAIN passed[ip]
    IN /\ Cardinality(Recent(passed[ip], all, Minute)) < PerMinute
       /\ Cardinality(Recent(passed[ip], all, Hour)) < PerHour

(* No request is let through that the limits forbid: the middleware's two  *)
(* windows count every request it let through, the entries dropped since   *)
(* notwithstanding, and an address that was blocked, by whichever of the   *)
(* callers of block_ip, comes back only when the time since the latest     *)
(* block is up or an administrator lifted it.  The code leaves two ways    *)
(* around: a call that saw an old block's time up deletes a newer one, and *)
(* a request between the middleware's last look and its windows passes a   *)
(* block that a thread sets there; of a block, only one request does.      *)
Rightly ==
    /\ \A ip \in Ips :
           passed'[ip] # passed[ip] => Room(ip) /\ (Served(ip) \/ ip \notin slipped)
    /\ \A w \in Workers :
           At(w, "look") /\ worker'[w] \notin {worker[w], Idle} => Served(worker[w].ip)

LetThrough == [][Rightly]_limiterVars
=============================================================================
