-------------------------- MODULE TenantLifecycle --------------------------
(***************************************************************************)
(* The life of a tenant's bridge process: TenantManager's                  *)
(* get_or_create_bridge, update_tenant_settings and delete_tenant_by_hash  *)
(* (src/src/tenant/__init__.py), _restart_bridge, the connection health    *)
(* loop and the connection event handlers (src/src/main.py), the admin     *)
(* endpoints that stop or replace a bridge (src/src/admin/routes.py), and  *)
(* BaileysBridge.start, stop and is_alive (src/src/bridge/client.py).      *)
(*                                                                         *)
(* Everything runs on one asyncio loop, so an action is the code between   *)
(* two awaits.  A coroutine that is suspended is a task: where it waits    *)
(* (pc), the tenant object it holds (t) and the bridge object it holds     *)
(* (b).  stop() returns without yielding when the bridge is not _running,  *)
(* and the restart lock is free exactly when _restarting is false, so      *)
(* neither is a place where a task can be suspended.  A database write      *)
(* changes nothing here; it is a suspension of its own only where the code *)
(* compares what it read before the write with what it finds after it.     *)
(***************************************************************************)
EXTENDS Integers, FiniteSets

CONSTANTS
    Tenants,      \* tenant objects, by api_key_hash
    Bridges,      \* identities of BaileysBridge objects, reused once unreachable
    Workers,      \* request and event tasks that can be in flight
    Health,       \* the lifespan task: restore_sessions, then the health loop
    Requests,     \* kinds of requests clients make: a subset of RequestKinds
    MaxFailures,  \* settings.max_health_check_failures
    NoTenant, NoBridge

RequestKinds == {"call", "reconnect", "settings", "clear", "disable", "delete"}

ASSUME LifecycleAssumption ==
    /\ NoTenant \notin Tenants
    /\ NoBridge \notin Bridges
    /\ Health \notin Workers
    /\ MaxFailures \in Nat \ {0}
    /\ Requests \subseteq RequestKinds

Tasks == Workers \cup {Health}

VARIABLES
    registered,  \* keys of TenantManager._tenants
    tenant,      \* the Tenant objects
    obj,         \* the BaileysBridge objects and their processes
    task,        \* suspended coroutines
    loop,        \* where the lifespan task is between its own suspensions
    todo,        \* tenants the current restore or health round has yet to visit
    checking     \* the call the lifespan task awaits: [t, b]

vars == <<registered, tenant, obj, task, loop, todo, checking>>

ConnectionStates == {"connected", "connecting", "disconnected"}

(* has_valid_auth is `has_auth or creds_json is not None`; only the latter *)
(* makes restore_sessions start a bridge.                                  *)
AuthStates == {"none", "flag", "creds"}

(* Suspension points inside the section that _restarting protects.         *)
RestartPoints == {"restart_stop", "restart_cooldown", "restart_start"}

(* A request suspended in stop(), named for what it does afterwards.       *)
StopPoints == {"swap", "clear", "disable", "delete"}

Points == {"idle", "reconnect_enter", "settings_save", "create_start"}
              \cup RestartPoints \cup StopPoints

Idle == [pc |-> "idle", t |-> NoTenant, b |-> NoBridge, was |-> FALSE]
At(pc, t, b) == [pc |-> pc, t |-> t, b |-> b, was |-> FALSE]
NoCall == [t |-> NoTenant, b |-> NoBridge]

(* A bridge object that is not _running and has no process: not started,   *)
(* failed to start, or stopped.  Nothing reads the rest of it again.       *)
Down == [run |-> "down", alive |-> FALSE, owner |-> NoTenant, mark |-> TRUE]

FailureCounts == 0 .. MaxFailures

TenantRecords == [bridge : Bridges \cup {NoBridge}, state : ConnectionStates,
                  auth : AuthStates, mark : BOOLEAN, failures : FailureCounts,
                  restarting : BOOLEAN]

BridgeRecords == [run : {"down", "starting", "running", "stopping"},
                  alive : BOOLEAN, owner : Tenants \cup {NoTenant},
                  mark : BOOLEAN]

TaskRecords == [pc : Points, t : Tenants \cup {NoTenant},
                b : Bridges \cup {NoBridge}, was : BOOLEAN]

TypeOK ==
    /\ registered \subseteq Tenants
    /\ tenant \in [Tenants -> TenantRecords]
    /\ obj \in [Bridges -> BridgeRecords]
    /\ task \in [Tasks -> TaskRecords]
    /\ loop \in {"restoring", "restore_login", "sleeping", "scanning",
                 "awaiting", "dead", "aborted"}
    /\ todo \subseteq Tenants
    /\ checking \in [t : Tenants \cup {NoTenant}, b : Bridges \cup {NoBridge}]

(* TenantManager.initialize: the tenants as the database has them, with    *)
(* whatever connection state was persisted last, and no bridge yet.        *)
Init ==
    /\ registered = Tenants
    /\ tenant \in [Tenants -> [bridge : {NoBridge}, state : ConnectionStates,
                               auth : AuthStates, mark : BOOLEAN,
                               failures : {0}, restarting : {FALSE}]]
    /\ obj = [b \in Bridges |-> Down]
    /\ task = [o \in Tasks |-> Idle]
    /\ loop = "restoring"
    /\ todo = Tenants
    /\ checking = NoCall

-----------------------------------------------------------------------------
(* BaileysBridge                                                           *)

IsAlive(b) == obj[b].run = "running" /\ obj[b].alive

(* A bridge object that no tenant, task or call refers to and whose process *)
(* has gone is garbage: its identity stands for the next object created.   *)
Unreachable(b) ==
    /\ ~obj[b].alive
    /\ \A t \in Tenants : tenant[t].bridge # b
    /\ \A o \in Tasks : task[o].b # b
    /\ checking.b # b

Starting(t, mark) == [run |-> "starting", alive |-> FALSE,
                      owner |-> t, mark |-> mark]

(* start() returns, or raises.                                             *)
Started(b) == [obj EXCEPT ![b].run = "running", ![b].alive = TRUE]
Failed(b) == [obj EXCEPT ![b] = Down]

\* Mutant: stop() leaves the pending futures alone.
BeginStopQuietly(b) ==
    /\ obj' = [obj EXCEPT ![b].run = "stopping"]
    /\ UNCHANGED <<loop, checking>>

(* stop() up to its first await: _running is cleared and every pending     *)
(* future is cancelled.  The lifespan task, if it awaits one of them,       *)
(* leaves its loop through `except asyncio.CancelledError: break`; during   *)
(* restore_sessions nothing catches the cancellation and startup fails.    *)
BeginStop(b) ==
    /\ obj' = [obj EXCEPT ![b].run = "stopping"]
    /\ IF checking.b = b
       THEN /\ checking' = NoCall
            /\ loop' = IF loop = "awaiting" THEN "dead" ELSE "aborted"
       ELSE UNCHANGED <<checking, loop>>

(* The rest of stop(): terminate, or kill after 5 seconds.                 *)
Stopped(b) == [obj EXCEPT ![b] = Down]

(* The process exits by itself, at any time.                               *)
BridgeExits(b) ==
    /\ IsAlive(b)
    /\ obj' = [obj EXCEPT ![b].alive = FALSE]
    /\ UNCHANGED <<registered, tenant, task, loop, todo, checking>>

-----------------------------------------------------------------------------
(* get_or_create_bridge, when tenant.bridge is None: the new object is      *)
(* assigned before start() is awaited.                                     *)
CreateBridge(o, t, tenants, objects) ==
    \E b \in Bridges :
        /\ Unreachable(b)
        /\ obj' = [objects EXCEPT ![b] = Starting(t, tenants[t].mark)]
        /\ tenant' = [tenants EXCEPT ![t].bridge = b]
        /\ task' = [task EXCEPT ![o] = At("create_start", t, b)]

(* start() returns in get_or_create_bridge.  The lifespan task goes on to   *)
(* await login(); what a request does next does not change this state.     *)
CreateStarted(o) ==
    LET t == task[o].t
        b == task[o].b
    IN /\ task[o].pc = "create_start"
       /\ obj' = Started(b)
       /\ task' = [task EXCEPT ![o] = Idle]
       /\ IF o = Health
          THEN loop' = "restore_login" /\ checking' = [t |-> t, b |-> b]
          ELSE UNCHANGED <<loop, checking>>
       /\ UNCHANGED <<registered, tenant, todo>>

(* start() raises: tenant.bridge keeps the object that never started.      *)
CreateFails(o) ==
    /\ task[o].pc = "create_start"
    /\ obj' = Failed(task[o].b)
    /\ task' = [task EXCEPT ![o] = Idle]
    /\ UNCHANGED <<registered, tenant, loop, todo, checking>>

-----------------------------------------------------------------------------
(* _restart_bridge                                                         *)

\* Mutant: the check of _restarting is gone.
MayBeginUnchecked(t) == tenant[t].auth # "none"

(* The checks before the section, can_restart aside: that one may refuse    *)
(* at any time here and is the subject of RestartGovernor.                 *)
MayBegin(t) == ~tenant[t].restarting /\ tenant[t].auth # "none"

\* Mutant: the old bridge is replaced without being stopped.
BeginRestartNoStop(o, t) ==
    /\ MayBegin(t)
    /\ tenant' = [tenant EXCEPT ![t].restarting = TRUE]
    /\ task' = [task EXCEPT ![o] = At("restart_cooldown", t, NoBridge)]
    /\ UNCHANGED <<registered, obj, loop, checking>>

(* Up to its first await.  o is the task that runs it.                     *)
BeginRestart(o, t) ==
    LET b == tenant[t].bridge
    IN /\ MayBegin(t)
       /\ tenant' = [tenant EXCEPT ![t].restarting = TRUE]
       /\ IF b # NoBridge /\ obj[b].run = "running"
          THEN /\ BeginStop(b)
               /\ task' = [task EXCEPT ![o] = At("restart_stop", t, b)]
          ELSE /\ task' = [task EXCEPT ![o] = At("restart_cooldown", t, NoBridge)]
               /\ UNCHANGED <<obj, loop, checking>>
       /\ UNCHANGED registered

RestartStopped(o) ==
    /\ task[o].pc = "restart_stop"
    /\ obj' = Stopped(task[o].b)
    /\ task' = [task EXCEPT ![o] = At("restart_cooldown", task[o].t, NoBridge)]
    /\ UNCHANGED <<registered, tenant, loop, todo, checking>>

(* After the sleep: the new object is created with the default             *)
(* auto_mark_read and stays local until it has started.                    *)
RestartCooledDown(o) ==
    /\ task[o].pc = "restart_cooldown"
    /\ \E b \in Bridges :
          /\ Unreachable(b)
          /\ obj' = [obj EXCEPT ![b] = Starting(task[o].t, TRUE)]
          /\ task' = [task EXCEPT ![o] = At("restart_start", task[o].t, b)]
    /\ UNCHANGED <<registered, tenant, loop, todo, checking>>

RestartStarted(o) ==
    LET t == task[o].t
        b == task[o].b
    IN /\ task[o].pc = "restart_start"
       /\ obj' = Started(b)
       /\ tenant' = [tenant EXCEPT ![t].bridge = b, ![t].failures = 0,
                                   ![t].restarting = FALSE]
       /\ task' = [task EXCEPT ![o] = Idle]
       /\ UNCHANGED <<registered, loop, todo, checking>>

\* Mutant: _restarting is reset on success only.
RestartFailsHeld(o) ==
    /\ task[o].pc = "restart_start"
    /\ obj' = Failed(task[o].b)
    /\ task' = [task EXCEPT ![o] = Idle]
    /\ UNCHANGED <<registered, tenant, loop, todo, checking>>

(* The new process cannot be spawned: tenant.bridge keeps the old, stopped  *)
(* object.  handle_bridge_crash, which only the health loop calls, then     *)
(* records the disconnection.                                              *)
RestartFails(o) ==
    LET t == task[o].t
    IN /\ task[o].pc = "restart_start"
       /\ obj' = Failed(task[o].b)
       /\ tenant' = [tenant EXCEPT
                        ![t].restarting = FALSE,
                        ![t].state = IF o = Health THEN "disconnected" ELSE @]
       /\ task' = [task EXCEPT ![o] = Idle]
       /\ UNCHANGED <<registered, loop, todo, checking>>

(* The task that a disconnected event created runs trigger_bridge_reconnect. *)
EnterReconnect(o) ==
    /\ task[o].pc = "reconnect_enter"
    /\ BeginRestart(o, task[o].t)
    /\ UNCHANGED todo

ReconnectRefused(o) ==
    /\ task[o].pc = "reconnect_enter"
    /\ task' = [task EXCEPT ![o] = Idle]
    /\ UNCHANGED <<registered, tenant, obj, loop, todo, checking>>

-----------------------------------------------------------------------------
(* restore_sessions                                                        *)

Restoring == loop = "restoring" /\ task[Health] = Idle

RestoreTenant(t) ==
    /\ Restoring
    /\ t \in todo
    /\ todo' = todo \ {t}
    /\ IF tenant[t].auth = "creds" /\ tenant[t].bridge = NoBridge
       THEN CreateBridge(Health, t, tenant, obj)
       ELSE UNCHANGED <<tenant, obj, task>>
    /\ UNCHANGED <<registered, loop, checking>>

(* login() answers or raises; its result is only counted.                  *)
RestoreLoggedIn ==
    /\ loop = "restore_login"
    /\ loop' = "restoring"
    /\ checking' = NoCall
    /\ UNCHANGED <<registered, tenant, obj, task, todo>>

RestoreDone ==
    /\ Restoring
    /\ todo = {}
    /\ loop' = "sleeping"
    /\ UNCHANGED <<registered, tenant, obj, task, todo, checking>>

-----------------------------------------------------------------------------
(* connection_health_check                                                 *)

HealthWakes ==
    /\ loop = "sleeping"
    /\ loop' = "scanning"
    /\ todo' = registered
    /\ UNCHANGED <<registered, tenant, obj, task, checking>>

Visiting(t) == loop = "scanning" /\ task[Health] = Idle /\ t \in todo

Monitored(t) == tenant[t].bridge # NoBridge /\ tenant[t].state = "connected"

HealthSkips(t) ==
    /\ Visiting(t)
    /\ ~Monitored(t)
    /\ todo' = todo \ {t}
    /\ UNCHANGED <<registered, tenant, obj, task, loop, checking>>

(* handle_bridge_crash, when _restart_bridge gets past its checks.         *)
HealthRestarts(t) ==
    /\ Visiting(t)
    /\ Monitored(t)
    /\ ~IsAlive(tenant[t].bridge)
    /\ BeginRestart(Health, t)
    /\ todo' = todo \ {t}

\* Mutant: the crash of a tenant whose restart is refused goes unrecorded.
HealthGivesUpSilently(t) ==
    /\ Visiting(t)
    /\ Monitored(t)
    /\ ~IsAlive(tenant[t].bridge)
    /\ todo' = todo \ {t}
    /\ UNCHANGED <<registered, tenant, obj, task, loop, checking>>

(* handle_bridge_crash, when _restart_bridge refuses, even if only because  *)
(* another task is restarting the bridge at the moment.                    *)
HealthGivesUp(t) ==
    /\ Visiting(t)
    /\ Monitored(t)
    /\ ~IsAlive(tenant[t].bridge)
    /\ tenant' = [tenant EXCEPT ![t].state = "disconnected"]
    /\ todo' = todo \ {t}
    /\ UNCHANGED <<registered, obj, task, loop, checking>>

HealthAsks(t) ==
    /\ Visiting(t)
    /\ Monitored(t)
    /\ IsAlive(tenant[t].bridge)
    /\ loop' = "awaiting"
    /\ checking' = [t |-> t, b |-> tenant[t].bridge]
    /\ todo' = todo \ {t}
    /\ UNCHANGED <<registered, tenant, obj, task>>

HealthAnswered ==
    /\ loop = "awaiting"
    /\ loop' = "scanning"
    /\ checking' = NoCall
    /\ UNCHANGED <<registered, obj, task, todo>>

HealthConnected ==
    /\ HealthAnswered
    /\ tenant' = [tenant EXCEPT ![checking.t].failures = 0]

\* Mutant: a state nothing else knows is recorded.
StateAfterOffline(failures, state) ==
    IF failures >= MaxFailures THEN "offline" ELSE state

StateAfter(failures, state) ==
    IF failures >= MaxFailures THEN "disconnected" ELSE state

(* get_status says not connected, or the timeout passes.  The count is only *)
(* compared with MaxFailures, so it is kept at that bound.                 *)
HealthFailed ==
    LET t == checking.t
        failures == IF tenant[t].failures < MaxFailures
                    THEN tenant[t].failures + 1 ELSE MaxFailures
    IN /\ HealthAnswered
       /\ tenant' = [tenant EXCEPT ![t].failures = failures,
                                   ![t].state = StateAfter(failures, @)]

(* get_status raises a BridgeError: logged, and not counted as a failure.  *)
HealthError == HealthAnswered /\ UNCHANGED tenant

HealthRoundEnds ==
    /\ loop = "scanning"
    /\ task[Health] = Idle
    /\ todo = {}
    /\ loop' = "sleeping"
    /\ UNCHANGED <<registered, tenant, obj, task, todo, checking>>

-----------------------------------------------------------------------------
(* Events that a bridge sends.  Its reader delivers what is in the pipe     *)
(* even when the process has exited, and whether or not the bridge is still *)
(* its tenant's; handle_bridge_event looks the tenant up by hash.          *)

Heard(b) == obj[b].run = "running" /\ obj[b].owner \in registered

SetState(b, state, auth) ==
    /\ Heard(b)
    /\ tenant' = [tenant EXCEPT ![obj[b].owner].state = state,
                                ![obj[b].owner].auth = auth]
    /\ UNCHANGED <<registered, obj, loop, todo, checking>>

AuthOf(b) == tenant[obj[b].owner].auth

EventConnected(b) ==
    /\ SetState(b, "connected", IF AuthOf(b) = "none" THEN "flag" ELSE AuthOf(b))
    /\ UNCHANGED task

EventConnecting(b) == SetState(b, "connecting", AuthOf(b)) /\ UNCHANGED task

EventAuthUpdate(b) ==
    /\ SetState(b, tenant[obj[b].owner].state, "creds")
    /\ UNCHANGED task

(* disconnected, reason loggedOut: update_session_state and clear_creds.   *)
EventLoggedOut(b) == SetState(b, "disconnected", "none") /\ UNCHANGED task

(* disconnected, banned or with should_reconnect false.                    *)
EventDisconnected(b) ==
    SetState(b, "disconnected", AuthOf(b)) /\ UNCHANGED task

(* disconnected with should_reconnect: a task is created for the restart.  *)
EventDropped(b) ==
    /\ SetState(b, "disconnected", AuthOf(b))
    /\ \E o \in Workers :
          /\ task[o] = Idle
          /\ task' = [task EXCEPT
                         ![o] = At("reconnect_enter", obj[b].owner, NoBridge)]

BridgeEvent(b) ==
    \/ EventConnected(b)
    \/ EventConnecting(b)
    \/ EventAuthUpdate(b)
    \/ EventLoggedOut(b)
    \/ EventDisconnected(b)
    \/ EventDropped(b)

-----------------------------------------------------------------------------
(* Requests                                                                *)

(* Lifespan startup is over, so requests are served.                       *)
Serving == loop \notin {"restoring", "restore_login"}

Request(kind, o, t) ==
    /\ kind \in Requests
    /\ Serving
    /\ task[o] = Idle
    /\ t \in registered

(* Any endpoint that needs the bridge: get_or_create_bridge.               *)
Call(o, t) ==
    /\ Request("call", o, t)
    /\ tenant[t].bridge = NoBridge
    /\ CreateBridge(o, t, tenant, obj)
    /\ UNCHANGED <<registered, loop, todo, checking>>

(* What a request does once stop() has returned.                           *)

\* reconnect_tenant, bulk_reconnect_tenants, update_tenant_settings
Swap(o, t, objects) ==
    /\ CreateBridge(o, t, [tenant EXCEPT ![t].bridge = NoBridge], objects)
    /\ UNCHANGED registered

\* clear_tenant_credentials
ClearCredentials(o, t, objects) ==
    /\ obj' = objects
    /\ tenant' = [tenant EXCEPT ![t].bridge = NoBridge, ![t].auth = "none",
                                ![t].state = "disconnected"]
    /\ task' = [task EXCEPT ![o] = Idle]
    /\ UNCHANGED registered

\* toggle_tenant_enabled
Disable(o, t, objects) ==
    /\ obj' = objects
    /\ tenant' = [tenant EXCEPT ![t].state = "disconnected"]
    /\ task' = [task EXCEPT ![o] = Idle]
    /\ UNCHANGED registered

\* delete_tenant_by_hash; the second of two overlapping deletions fails on
\* the missing key
Delete(o, t, objects) ==
    /\ obj' = objects
    /\ registered' = registered \ {t}
    /\ task' = [task EXCEPT ![o] = Idle]
    /\ UNCHANGED tenant

AfterStop(kind, o, t, objects) ==
    \/ kind = "swap" /\ Swap(o, t, objects)
    \/ kind = "clear" /\ ClearCredentials(o, t, objects)
    \/ kind = "disable" /\ Disable(o, t, objects)
    \/ kind = "delete" /\ Delete(o, t, objects)

(* `if tenant.bridge: await tenant.bridge.stop()`, which does not wait for  *)
(* a bridge that is not running, then the rest.                            *)
StopAndThen(kind, o, t) ==
    LET b == tenant[t].bridge
    IN /\ IF b # NoBridge /\ obj[b].run = "running"
          THEN /\ BeginStop(b)
               /\ task' = [task EXCEPT ![o] = At(kind, t, b)]
               /\ UNCHANGED <<registered, tenant>>
          ELSE /\ AfterStop(kind, o, t, obj)
               /\ UNCHANGED <<loop, checking>>
       /\ UNCHANGED todo

StopReturns(o) ==
    /\ task[o].pc \in StopPoints
    /\ AfterStop(task[o].pc, o, task[o].t, Stopped(task[o].b))
    /\ UNCHANGED <<loop, todo, checking>>

Reconnect(o, t) ==
    /\ Request("reconnect", o, t)
    /\ ~tenant[t].restarting
    /\ StopAndThen("swap", o, t)

(* update_tenant_settings: the setting changes before it is saved, ...     *)
ChangeSetting(o, t) ==
    /\ Request("settings", o, t)
    /\ \E mark \in BOOLEAN :
          tenant' = [tenant EXCEPT ![t].mark = mark]
    /\ task' = [task EXCEPT ![o] = [pc |-> "settings_save", t |-> t,
                                    b |-> NoBridge, was |-> tenant[t].mark]]
    /\ UNCHANGED <<registered, obj, loop, todo, checking>>

(* ... and after the save the bridge is replaced if the setting differs.   *)
NeedsRestart(o) ==
    LET t == task[o].t
    IN task[o].was # tenant[t].mark /\ tenant[t].bridge # NoBridge

SettingSaved(o) ==
    /\ task[o].pc = "settings_save"
    /\ IF NeedsRestart(o)
       THEN StopAndThen("swap", o, task[o].t)
       ELSE /\ task' = [task EXCEPT ![o] = Idle]
            /\ UNCHANGED <<registered, tenant, obj, loop, todo, checking>>

Clear(o, t) == Request("clear", o, t) /\ StopAndThen("clear", o, t)

(* enabled is read by no code but the admin pages; what matters is the stop. *)
DisableTenant(o, t) ==
    /\ Request("disable", o, t)
    /\ tenant[t].bridge # NoBridge
    /\ StopAndThen("disable", o, t)

DeleteTenant(o, t) == Request("delete", o, t) /\ StopAndThen("delete", o, t)

-----------------------------------------------------------------------------
(* A suspended coroutine goes on.                                          *)
Resume(o) ==
    \/ CreateStarted(o)
    \/ CreateFails(o)
    \/ RestartStopped(o)
    \/ RestartCooledDown(o)
    \/ RestartStarted(o)
    \/ RestartFails(o)
    \/ EnterReconnect(o)
    \/ ReconnectRefused(o)
    \/ StopReturns(o)
    \/ SettingSaved(o)

Lifespan ==
    \/ RestoreLoggedIn
    \/ RestoreDone
    \/ HealthWakes
    \/ HealthConnected
    \/ HealthFailed
    \/ HealthError
    \/ HealthRoundEnds
    \/ \E t \in Tenants : \/ RestoreTenant(t)
                          \/ HealthSkips(t)
                          \/ HealthRestarts(t)
                          \/ HealthGivesUp(t)
                          \/ HealthAsks(t)

Client(o, t) ==
    \/ Call(o, t)
    \/ Reconnect(o, t)
    \/ ChangeSetting(o, t)
    \/ Clear(o, t)
    \/ DisableTenant(o, t)
    \/ DeleteTenant(o, t)

Step ==
    \/ Lifespan
    \/ \E o \in Tasks : Resume(o)
    \/ \E b \in Bridges : BridgeExits(b) \/ BridgeEvent(b)
    \/ \E o \in Workers, t \in Tenants : Client(o, t)

(* Nothing runs any more once startup has failed.                          *)
Next == loop # "aborted" /\ Step

Spec == Init /\ [][Next]_vars

(* The event loop runs every task that is ready, sleeps end, spawning a     *)
(* process succeeds or fails, and calls time out.  Nothing is assumed of    *)
(* bridges, which may die or be silent, or of clients.                     *)
Fairness ==
    /\ WF_vars(loop # "aborted" /\ Lifespan)
    /\ \A o \in Tasks : WF_vars(loop # "aborted" /\ Resume(o))

FairSpec == Spec /\ Fairness

(* A database in which only a tenant with stored credentials is recorded as *)
(* connected, as when credentials were saved before the last connection.   *)
CleanDatabase ==
    \A t \in Tenants : tenant[t].state = "connected" => tenant[t].auth = "creds"

CleanInit == Init /\ CleanDatabase

CleanSpec == CleanInit /\ [][Next]_vars

FairCleanSpec == CleanSpec /\ Fairness

-----------------------------------------------------------------------------
InRestart(o, t) == task[o].pc \in RestartPoints /\ task[o].t = t

(* "Only one restart should succeed", "Restarts should be serialized"       *)
(* (tests/test_bridge_restart_lock.py:64-65): a tenant is marked restarting *)
(* exactly while one task, and only one, is inside _restart_bridge's        *)
(* section for it, whoever asked: health loop or disconnect events.        *)
RestartExclusive ==
    \A t \in Tenants :
        /\ tenant[t].restarting <=> \E o \in Tasks : InRestart(o, t)
        /\ \A o, p \in Tasks : InRestart(o, t) /\ InRestart(p, t) => o = p

(* The lifespan task never awaits an answer of a bridge that somebody has  *)
(* stopped: every stop() finds the call pending and cancels it.            *)
NoWaitOnStopped ==
    checking.b # NoBridge => obj[checking.b].run = "running"

(* "Each tenant gets its own Node.js bridge process and auth directory"     *)
(* (ARCHITECTURE_REVIEW.md:658): no two live processes share a tenant, and *)
(* so its auth directory.                                                  *)
OwnBridge ==
    \A b, c \in Bridges :
        obj[b].alive /\ obj[c].alive /\ obj[b].owner = obj[c].owner => b = c

(* A live process is always the one its tenant object points to: no crash, *)
(* restart or event leaves a process behind that nothing can stop.         *)
NoOrphan ==
    \A b \in Bridges : obj[b].alive => tenant[obj[b].owner].bridge = b

CrashPending(t) == Monitored(t) /\ ~IsAlive(tenant[t].bridge)

(* A tenant recorded as connected whose process has died is eventually      *)
(* restarted or recorded as disconnected, as long as the health loop lives. *)
CrashHandled ==
    \A t \in Tenants :
        CrashPending(t) ~> (~CrashPending(t) \/ loop \in {"dead", "aborted"})

(* "Self-Healing: Automatically recovers from process crashes"              *)
(* (tasks/health-check-implementation.md:184): the same without the proviso. *)
SelfHealing ==
    \A t \in Tenants : CrashPending(t) ~> (~CrashPending(t) \/ loop = "aborted")

(* _restarting is always reset: a section that never ended would refuse     *)
(* every later restart of the tenant.                                      *)
RestartEnds ==
    \A t \in Tenants :
        tenant[t].restarting ~> (~tenant[t].restarting \/ loop = "aborted")
=============================================================================
