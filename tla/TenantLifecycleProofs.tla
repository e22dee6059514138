----------------------- MODULE TenantLifecycleProofs -----------------------
(***************************************************************************)
(* Proofs about TenantLifecycle for every number of tenants, bridges and   *)
(* tasks and every mix of requests.                                        *)
(***************************************************************************)
EXTENDS TenantLifecycle, TLAPS

Stopping == StopPoints \cup {"restart_stop"}
Launching == {"create_start", "restart_start"}

(* Which tasks hold a tenant and a bridge.                                 *)
TaskShape ==
    \A o \in Tasks :
        /\ task[o].pc # "idle" => task[o].t \in Tenants
        /\ task[o].pc \in Stopping \cup Launching <=> task[o].b \in Bridges

(* The lifespan task is in a call exactly when it says so.                 *)
CallShape ==
    /\ loop \in {"awaiting", "restore_login"} => checking \in [t : Tenants, b : Bridges]
    /\ loop \notin {"awaiting", "restore_login"} => checking = NoCall

(* A bridge that is being started or stopped is so by one task only.       *)
BridgeHeld ==
    \A o \in Tasks :
        /\ task[o].pc \in Stopping => obj[task[o].b].run = "stopping"
        /\ task[o].pc \in Launching => obj[task[o].b].run = "starting"
        /\ \A p \in Tasks : task[o].b = task[p].b /\ task[o].b # NoBridge => o = p

IInv ==
    /\ TypeOK
    /\ TaskShape
    /\ CallShape
    /\ BridgeHeld
    /\ RestartExclusive
    /\ NoWaitOnStopped

LEMMA InitIInv == Init => IInv
<1>1. SUFFICES ASSUME Init
               PROVE  IInv
  OBVIOUS
<1>2. TypeOK
  <2>1. tenant \in [Tenants -> TenantRecords]
    <3>1. 0 \in FailureCounts
      BY LifecycleAssumption DEF FailureCounts
    <3>2. [bridge : {NoBridge}, state : ConnectionStates, auth : AuthStates,
           mark : BOOLEAN, failures : {0}, restarting : {FALSE}]
          \subseteq TenantRecords
      BY <3>1 DEF TenantRecords
    <3>. QED  BY <1>1, <3>2 DEF Init
  <2>2. obj \in [Bridges -> BridgeRecords]
    BY <1>1 DEF Init, Down, BridgeRecords
  <2>3. task \in [Tasks -> TaskRecords]
    BY <1>1 DEF Init, Idle, Points, TaskRecords
  <2>. QED  BY <1>1, <2>1, <2>2, <2>3
            DEF Init, TypeOK, NoCall
<1>3. \A o \in Tasks : task[o].pc = "idle" /\ task[o].b = NoBridge
  BY <1>1 DEF Init, Idle
<1>4. TaskShape /\ BridgeHeld
  BY <1>3, LifecycleAssumption
     DEF TaskShape, BridgeHeld, Stopping, Launching, StopPoints
<1>5. RestartExclusive
  BY <1>1, <1>3 DEF Init, RestartExclusive, InRestart, RestartPoints
<1>6. CallShape /\ NoWaitOnStopped
  BY <1>1 DEF Init, CallShape, NoWaitOnStopped, NoCall
<1>. QED  BY <1>2, <1>4, <1>5, <1>6 DEF IInv

-----------------------------------------------------------------------------
(* A step of task o alone keeps the claims on tenants and bridges if o's   *)
(* new claim is in order, nobody else holds its bridge and no other task's *)
(* bridge changes its state.                                               *)
LEMMA ClaimsKept ==
    ASSUME TaskShape, BridgeHeld, NEW o \in Tasks,
           \A p \in Tasks \ {o} : task'[p] = task[p],
           task'[o].pc # "idle" => task'[o].t \in Tenants,
           task'[o].pc \in Stopping \cup Launching <=> task'[o].b \in Bridges,
           task'[o].pc \in Stopping => obj'[task'[o].b].run = "stopping",
           task'[o].pc \in Launching => obj'[task'[o].b].run = "starting",
           task'[o].b # NoBridge => \A p \in Tasks \ {o} : task[p].b # task'[o].b,
           \A p \in Tasks \ {o} :
               task[p].b \in Bridges => obj'[task[p].b].run = obj[task[p].b].run
    PROVE  TaskShape' /\ BridgeHeld'
<1>1. TaskShape'
  BY DEF TaskShape
<1>2. BridgeHeld'
  <2>1. SUFFICES ASSUME NEW p \in Tasks
        PROVE  /\ task'[p].pc \in Stopping => obj'[task'[p].b].run = "stopping"
               /\ task'[p].pc \in Launching => obj'[task'[p].b].run = "starting"
               /\ \A q \in Tasks :
                     task'[p].b = task'[q].b /\ task'[p].b # NoBridge => p = q
    BY DEF BridgeHeld
  <2>2. CASE p = o
    BY <2>2
  <2>3. CASE p # o
    <3>1. task'[p] = task[p]
      BY <2>3
    <3>2. task[p].pc \in Stopping \cup Launching => task[p].b \in Bridges
      BY DEF TaskShape
    <3>3. \A q \in Tasks :
              task'[p].b = task'[q].b /\ task'[p].b # NoBridge => p = q
      BY <2>3, <3>1 DEF BridgeHeld
    <3>. QED  BY <2>3, <3>1, <3>2, <3>3 DEF BridgeHeld
  <2>. QED  BY <2>2, <2>3
<1>. QED  BY <1>1, <1>2

(* A step of task o alone keeps RestartExclusive if o enters only a section *)
(* that is free and _restarting follows what o does.                       *)
LEMMA ExclusionKept ==
    ASSUME RestartExclusive, NEW o \in Tasks,
           \A p \in Tasks \ {o} : task'[p] = task[p],
           \A t \in Tenants :
               /\ InRestart(o, t)' /\ ~InRestart(o, t) => ~tenant[t].restarting
               /\ tenant'[t].restarting <=>
                      \/ InRestart(o, t)'
                      \/ tenant[t].restarting /\ ~InRestart(o, t)
    PROVE  RestartExclusive'
<1>1. SUFFICES ASSUME NEW t \in Tenants
      PROVE  /\ tenant'[t].restarting <=> \E p \in Tasks : InRestart(p, t)'
             /\ \A p, q \in Tasks :
                    InRestart(p, t)' /\ InRestart(q, t)' => p = q
  BY DEF RestartExclusive
<1>2. \A p \in Tasks \ {o} : InRestart(p, t)' <=> InRestart(p, t)
  BY DEF InRestart
<1>3. /\ tenant[t].restarting <=> \E p \in Tasks : InRestart(p, t)
      /\ \A p, q \in Tasks : InRestart(p, t) /\ InRestart(q, t) => p = q
  BY DEF RestartExclusive
<1>4. /\ InRestart(o, t)' /\ ~InRestart(o, t) => ~tenant[t].restarting
      /\ tenant'[t].restarting <=>
             \/ InRestart(o, t)'
             \/ tenant[t].restarting /\ ~InRestart(o, t)
  OBVIOUS
<1>5. tenant'[t].restarting <=> \E p \in Tasks : InRestart(p, t)'
  BY <1>2, <1>3, <1>4
<1>6. ASSUME NEW p \in Tasks, NEW q \in Tasks, InRestart(p, t)', InRestart(q, t)'
      PROVE  p = q
  BY <1>2, <1>3, <1>4, <1>6
<1>. QED  BY <1>5, <1>6

(* A step that leaves tasks and bridge objects alone.                      *)
LEMMA QuietStep ==
    ASSUME IInv, TypeOK', CallShape', NoWaitOnStopped',
           UNCHANGED <<obj, task>>,
           \A t \in Tenants : tenant'[t].restarting = tenant[t].restarting
    PROVE  IInv'
<1>1. TaskShape' /\ BridgeHeld'
  BY DEF IInv, TaskShape, BridgeHeld
<1>2. RestartExclusive'
  BY DEF IInv, RestartExclusive, InRestart
<1>. QED  BY <1>1, <1>2 DEF IInv

-----------------------------------------------------------------------------
(* The lifespan task between its own suspensions.                          *)
LEMMA LoopStep ==
    ASSUME IInv,
           \/ RestoreLoggedIn \/ RestoreDone \/ HealthWakes \/ HealthRoundEnds
           \/ HealthError \/ \E t \in Tenants : HealthSkips(t)
    PROVE  IInv'
<1>1. UNCHANGED <<registered, tenant, obj, task>>
  BY DEF RestoreLoggedIn, RestoreDone, HealthWakes, HealthRoundEnds,
         HealthError, HealthAnswered, HealthSkips
<1>2. /\ TypeOK
      /\ CallShape
      /\ NoWaitOnStopped
  BY DEF IInv
<1>3. /\ loop' \in {"restoring", "sleeping", "scanning"}
      /\ todo' \subseteq Tenants
      /\ checking' = NoCall
  BY <1>2 DEF RestoreLoggedIn, RestoreDone, HealthWakes, HealthRoundEnds,
         HealthError, HealthAnswered, HealthSkips, Visiting, Restoring, CallShape,
         TypeOK
<1>4. TypeOK' /\ CallShape' /\ NoWaitOnStopped'
  BY <1>1, <1>2, <1>3 DEF TypeOK, CallShape, NoWaitOnStopped, NoCall
<1>. QED  BY <1>1, <1>4, QuietStep

LEMMA FailuresTyped ==
    ASSUME TypeOK, NEW t \in Tenants, NEW n \in FailureCounts
    PROVE  [tenant EXCEPT ![t].failures = n] \in [Tenants -> TenantRecords]
BY DEF TypeOK, TenantRecords

LEMMA StateTyped ==
    ASSUME NEW f \in [Tenants -> TenantRecords], NEW t \in Tenants,
           NEW state \in ConnectionStates
    PROVE  [f EXCEPT ![t].state = state] \in [Tenants -> TenantRecords]
BY DEF TenantRecords

LEMMA HealthConnectedStep ==
    ASSUME IInv, HealthConnected
    PROVE  IInv'
<1>1. checking.t \in Tenants
  BY DEF IInv, CallShape, HealthConnected, HealthAnswered
<1>2. TypeOK'
  <2>1. 0 \in FailureCounts
    BY LifecycleAssumption DEF FailureCounts
  <2>2. tenant' \in [Tenants -> TenantRecords]
    BY <1>1, <2>1, FailuresTyped DEF IInv, HealthConnected
  <2>. QED  BY <2>2 DEF IInv, TypeOK, HealthConnected, HealthAnswered, NoCall
<1>3. CallShape' /\ NoWaitOnStopped'
  BY DEF CallShape, NoWaitOnStopped, HealthConnected, HealthAnswered, NoCall
<1>4. \A t \in Tenants : tenant'[t].restarting = tenant[t].restarting
  BY DEF IInv, TypeOK, TenantRecords, HealthConnected
<1>. QED  BY <1>2, <1>3, <1>4, QuietStep DEF HealthConnected, HealthAnswered

LEMMA HealthFailedStep ==
    ASSUME IInv, HealthFailed
    PROVE  IInv'
<1>1. checking.t \in Tenants
  BY DEF IInv, CallShape, HealthFailed, HealthAnswered
<1>2. TypeOK'
  <2>1. tenant[checking.t].failures \in FailureCounts
    BY <1>1 DEF IInv, TypeOK, TenantRecords
  <2> DEFINE failures == IF tenant[checking.t].failures < MaxFailures
                         THEN tenant[checking.t].failures + 1 ELSE MaxFailures
  <2>2. failures \in FailureCounts
    BY <2>1, LifecycleAssumption DEF FailureCounts
  <2>3. StateAfter(failures, tenant[checking.t].state) \in ConnectionStates
    BY <1>1 DEF IInv, TypeOK, TenantRecords, StateAfter, ConnectionStates
  <2> HIDE DEF failures
  <2>4. tenant' = [tenant EXCEPT
            ![checking.t].failures = failures,
            ![checking.t].state = StateAfter(failures, tenant[checking.t].state)]
    BY <1>1 DEF HealthFailed, failures, IInv, TypeOK, TenantRecords
  <2>5. tenant' \in [Tenants -> TenantRecords]
    <3> DEFINE t == checking.t
               counted == [tenant EXCEPT ![t].failures = failures]
               state == StateAfter(failures, tenant[t].state)
    <3>1. counted \in [Tenants -> TenantRecords]
      BY <1>1, <2>2, FailuresTyped DEF IInv
    <3>2. tenant' = [counted EXCEPT ![t].state = state]
      BY <1>1, <2>4 DEF IInv, TypeOK, TenantRecords
    <3>. HIDE DEF counted, state
    <3>. QED  BY <1>1, <2>3, <3>1, <3>2, StateTyped DEF state
  <2>. QED  BY <2>5 DEF IInv, TypeOK, HealthFailed, HealthAnswered, NoCall
<1>3. CallShape' /\ NoWaitOnStopped'
  BY DEF CallShape, NoWaitOnStopped, HealthFailed, HealthAnswered, NoCall
<1>4. \A t \in Tenants : tenant'[t].restarting = tenant[t].restarting
  BY DEF IInv, TypeOK, TenantRecords, HealthFailed
<1>. QED  BY <1>2, <1>3, <1>4, QuietStep DEF HealthFailed, HealthAnswered

LEMMA HealthGivesUpStep ==
    ASSUME IInv, NEW t \in Tenants, HealthGivesUp(t)
    PROVE  IInv'
<1>1. TypeOK'
  BY DEF IInv, TypeOK, TenantRecords, HealthGivesUp, ConnectionStates
<1>2. CallShape' /\ NoWaitOnStopped'
  BY DEF IInv, CallShape, NoWaitOnStopped, HealthGivesUp
<1>3. \A u \in Tenants : tenant'[u].restarting = tenant[u].restarting
  BY DEF IInv, TypeOK, TenantRecords, HealthGivesUp
<1>. QED  BY <1>1, <1>2, <1>3, QuietStep DEF HealthGivesUp

(* The call goes to a bridge that runs at that moment.                     *)
LEMMA HealthAsksStep ==
    ASSUME IInv, NEW t \in Tenants, HealthAsks(t)
    PROVE  IInv'
<1>1. tenant[t].bridge \in Bridges
  BY DEF IInv, TypeOK, TenantRecords, HealthAsks, Monitored
<1>2. TypeOK' /\ CallShape'
  BY <1>1 DEF IInv, TypeOK, CallShape, HealthAsks
<1>3. NoWaitOnStopped'
  BY <1>1 DEF NoWaitOnStopped, HealthAsks, IsAlive
<1>. QED  BY <1>2, <1>3, QuietStep DEF HealthAsks

-----------------------------------------------------------------------------
(* Events and the tasks they and the settings endpoint create.             *)
LEMMA SetStateTyped ==
    ASSUME IInv, NEW b \in Bridges, NEW state \in ConnectionStates,
           NEW auth \in AuthStates, SetState(b, state, auth)
    PROVE  /\ tenant' \in [Tenants -> TenantRecords]
           /\ \A t \in Tenants : tenant'[t].restarting = tenant[t].restarting
           /\ obj[b].owner \in Tenants
<1>1. obj[b].owner \in Tenants
  BY DEF IInv, TypeOK, BridgeRecords, SetState, Heard
<1>2. tenant' \in [Tenants -> TenantRecords]
  <2> DEFINE t == obj[b].owner
             f == [tenant EXCEPT ![t].state = state]
  <2>1. f \in [Tenants -> TenantRecords]
    BY <1>1, StateTyped DEF IInv, TypeOK
  <2>2. tenant' = [f EXCEPT ![t].auth = auth]
    BY <1>1 DEF IInv, TypeOK, TenantRecords, SetState
  <2> HIDE DEF f
  <2>. QED  BY <1>1, <2>1, <2>2 DEF TenantRecords
<1>3. \A t \in Tenants : tenant'[t].restarting = tenant[t].restarting
  BY <1>1 DEF IInv, TypeOK, SetState, TenantRecords
<1>. QED  BY <1>1, <1>2, <1>3

LEMMA EventStep ==
    ASSUME IInv, NEW b \in Bridges, NEW state \in ConnectionStates,
           NEW auth \in AuthStates, SetState(b, state, auth), UNCHANGED task
    PROVE  IInv'
<1>1. UNCHANGED <<registered, obj, loop, todo, checking>>
  BY DEF SetState
<1>2. TypeOK' /\ CallShape' /\ NoWaitOnStopped'
  BY <1>1, SetStateTyped DEF IInv, TypeOK, CallShape, NoWaitOnStopped
<1>. QED  BY <1>1, <1>2, SetStateTyped, QuietStep

(* An idle task that starts waiting outside the section, holding no bridge. *)
LEMMA TaskSpawned ==
    ASSUME IInv, NEW o \in Tasks, NEW t \in Tenants, NEW was \in BOOLEAN,
           NEW pc \in {"reconnect_enter", "settings_save"},
           task[o] = Idle,
           task' = [task EXCEPT ![o] = [pc |-> pc, t |-> t, b |-> NoBridge,
                                        was |-> was]],
           tenant' \in [Tenants -> TenantRecords],
           \A u \in Tenants : tenant'[u].restarting = tenant[u].restarting,
           UNCHANGED <<registered, obj, loop, todo, checking>>
    PROVE  IInv'
<1>1. /\ task' \in [Tasks -> TaskRecords]
      /\ task'[o] = [pc |-> pc, t |-> t, b |-> NoBridge, was |-> was]
      /\ \A p \in Tasks \ {o} : task'[p] = task[p]
  BY DEF IInv, TypeOK, TaskRecords, Points
<1>2. TypeOK' /\ CallShape' /\ NoWaitOnStopped'
  BY <1>1 DEF IInv, TypeOK, CallShape, NoWaitOnStopped
<1>3. TaskShape' /\ BridgeHeld'
  <2>1. task'[o].pc \notin Stopping \cup Launching
    BY <1>1 DEF Stopping, Launching, StopPoints
  <2>. QED  BY <1>1, <2>1, LifecycleAssumption, ClaimsKept DEF IInv
<1>4. RestartExclusive'
  <2>1. \A u \in Tenants : ~InRestart(o, u) /\ ~InRestart(o, u)'
    BY <1>1 DEF InRestart, Idle, RestartPoints
  <2>. QED  BY <1>1, <2>1, ExclusionKept DEF IInv
<1>. QED  BY <1>2, <1>3, <1>4 DEF IInv

LEMMA BridgeEventStep ==
    ASSUME IInv, NEW b \in Bridges, BridgeEvent(b)
    PROVE  IInv'
<1>1. obj[b].owner \in Tenants
  BY DEF IInv, TypeOK, BridgeRecords, BridgeEvent, EventConnected, EventConnecting,
         EventAuthUpdate, EventLoggedOut, EventDisconnected, EventDropped,
         SetState, Heard
<1>2. /\ AuthOf(b) \in AuthStates
      /\ tenant[obj[b].owner].state \in ConnectionStates
  BY <1>1 DEF IInv, TypeOK, TenantRecords, AuthOf
<1>3. CASE EventConnected(b)
  BY <1>2, <1>3, EventStep DEF EventConnected, ConnectionStates, AuthStates
<1>4. CASE EventConnecting(b)
  BY <1>2, <1>4, EventStep DEF EventConnecting, ConnectionStates
<1>5. CASE EventAuthUpdate(b)
  BY <1>2, <1>5, EventStep DEF EventAuthUpdate, AuthStates
<1>6. CASE EventLoggedOut(b)
  BY <1>2, <1>6, EventStep DEF EventLoggedOut, ConnectionStates, AuthStates
<1>7. CASE EventDisconnected(b)
  BY <1>2, <1>7, EventStep DEF EventDisconnected, ConnectionStates
<1>8. CASE EventDropped(b)
  <2>1. SetState(b, "disconnected", AuthOf(b))
    BY <1>8 DEF EventDropped
  <2>2. /\ tenant' \in [Tenants -> TenantRecords]
        /\ \A t \in Tenants : tenant'[t].restarting = tenant[t].restarting
        /\ UNCHANGED <<registered, obj, loop, todo, checking>>
    BY <1>2, <2>1, SetStateTyped DEF SetState, ConnectionStates
  <2>3. PICK o \in Workers : /\ task[o] = Idle
                             /\ task' = [task EXCEPT ![o] =
                                   At("reconnect_enter", obj[b].owner, NoBridge)]
    BY <1>8 DEF EventDropped
  <2>. QED  BY <1>1, <2>2, <2>3, TaskSpawned DEF At, Tasks
<1>. QED  BY <1>3, <1>4, <1>5, <1>6, <1>7, <1>8 DEF BridgeEvent

LEMMA ChangeSettingStep ==
    ASSUME IInv, NEW o \in Workers, NEW t \in Tenants, ChangeSetting(o, t)
    PROVE  IInv'
<1>1. PICK mark \in BOOLEAN : tenant' = [tenant EXCEPT ![t].mark = mark]
  BY DEF ChangeSetting
<1>2. tenant' \in [Tenants -> TenantRecords]
  BY <1>1 DEF IInv, TypeOK, TenantRecords
<1>3. \A u \in Tenants : tenant'[u].restarting = tenant[u].restarting
  BY <1>1 DEF IInv, TypeOK, TenantRecords
<1>4. tenant[t].mark \in BOOLEAN
  BY DEF IInv, TypeOK, TenantRecords
<1>. QED  BY <1>2, <1>3, <1>4, TaskSpawned DEF ChangeSetting, Request, Tasks

LEMMA BridgeExitsStep ==
    ASSUME IInv, NEW b \in Bridges, BridgeExits(b)
    PROVE  IInv'
<1>1. /\ obj' \in [Bridges -> BridgeRecords]
      /\ \A c \in Bridges : obj'[c].run = obj[c].run
  BY ZenonT(60) DEF IInv, TypeOK, BridgeRecords, BridgeExits
<1>2. TypeOK'
  BY <1>1 DEF IInv, TypeOK, BridgeExits
<1>3. TaskShape' /\ BridgeHeld'
  BY <1>1, LifecycleAssumption
     DEF IInv, TaskShape, BridgeHeld, BridgeExits, TypeOK
<1>4. RestartExclusive'
  BY DEF IInv, RestartExclusive, InRestart, BridgeExits
<1>5. CallShape' /\ NoWaitOnStopped'
  BY <1>1 DEF IInv, CallShape, NoWaitOnStopped, BridgeExits, TypeOK
<1>. QED  BY <1>2, <1>3, <1>4, <1>5 DEF IInv

-----------------------------------------------------------------------------
(* What every step of a single task has to show.                           *)
LEMMA TaskStep ==
    ASSUME IInv, TypeOK', CallShape', NoWaitOnStopped',
           NEW o \in Tasks, NEW new \in TaskRecords,
           task' = [task EXCEPT ![o] = new],
           new.pc # "idle" => new.t \in Tenants,
           new.pc \in Stopping \cup Launching <=> new.b \in Bridges,
           new.pc \in Stopping => obj'[new.b].run = "stopping",
           new.pc \in Launching => obj'[new.b].run = "starting",
           new.b # NoBridge => \A p \in Tasks \ {o} : task[p].b # new.b,
           \A c \in Bridges \ {new.b, task[o].b} : obj'[c].run = obj[c].run,
           \A t \in Tenants :
               LET enters == new.pc \in RestartPoints /\ new.t = t
               IN /\ enters /\ ~InRestart(o, t) => ~tenant[t].restarting
                  /\ tenant'[t].restarting <=>
                         enters \/ (tenant[t].restarting /\ ~InRestart(o, t))
    PROVE  IInv'
<1>1. /\ task'[o] = new
      /\ \A p \in Tasks \ {o} : task'[p] = task[p]
  BY DEF IInv, TypeOK
<1>2. \A p \in Tasks \ {o} :
          task[p].b \in Bridges => obj'[task[p].b].run = obj[task[p].b].run
  <2>1. SUFFICES ASSUME NEW p \in Tasks \ {o}, task[p].b \in Bridges
                 PROVE  task[p].b \notin {new.b, task[o].b}
    OBVIOUS
  <2>2. task[p].b # NoBridge
    BY <2>1, LifecycleAssumption
  <2>3. task[p].b # task[o].b
    BY <2>1, <2>2 DEF IInv, BridgeHeld
  <2>4. task[p].b # new.b
    BY <2>1, <2>2
  <2>. QED  BY <2>3, <2>4
<1>3. TaskShape' /\ BridgeHeld'
  BY <1>1, <1>2, ClaimsKept DEF IInv
<1>4. RestartExclusive'
  BY <1>1, ExclusionKept DEF IInv, InRestart
<1>. QED  BY <1>3, <1>4 DEF IInv

(* A step after which task o is idle.                                      *)
LEMMA TaskEnds ==
    ASSUME IInv, CallShape', NoWaitOnStopped',
           NEW o \in Tasks, task' = [task EXCEPT ![o] = Idle],
           registered' \subseteq Tenants, todo' \subseteq Tenants,
           tenant' \in [Tenants -> TenantRecords],
           obj' \in [Bridges -> BridgeRecords],
           loop' \in {loop, "restore_login"},
           checking' \in [t : Tenants \cup {NoTenant}, b : Bridges \cup {NoBridge}],
           \A c \in Bridges \ {task[o].b} : obj'[c].run = obj[c].run,
           \A t \in Tenants : tenant'[t].restarting <=>
                                  tenant[t].restarting /\ ~InRestart(o, t)
    PROVE  IInv'
<1>1. Idle \in TaskRecords
  BY DEF Idle, TaskRecords, Points
<1>2. TypeOK'
  <2>1. task' \in [Tasks -> TaskRecords]
    BY <1>1 DEF IInv, TypeOK
  <2>. QED  BY <2>1 DEF IInv, TypeOK
<1>3. /\ Idle.pc \notin Stopping \cup Launching \cup RestartPoints
      /\ Idle.pc = "idle" /\ Idle.b = NoBridge
  BY DEF Idle, Stopping, Launching, StopPoints, RestartPoints
<1>. HIDE DEF Idle
<1>. QED  BY <1>1, <1>2, <1>3, LifecycleAssumption, TaskStep

LEMMA CreateStartedStep ==
    ASSUME IInv, NEW o \in Tasks, CreateStarted(o)
    PROVE  IInv'
<1> DEFINE t == task[o].t
           b == task[o].b
<1>1. /\ t \in Tenants /\ b \in Bridges
      /\ obj[b].run = "starting"
      /\ \A u \in Tenants : ~InRestart(o, u)
  BY DEF IInv, TaskShape, BridgeHeld, CreateStarted, Launching, InRestart,
         RestartPoints
<1>2. /\ obj' \in [Bridges -> BridgeRecords]
      /\ obj'[b].run = "running"
      /\ \A c \in Bridges \ {b} : obj'[c].run = obj[c].run
  BY <1>1 DEF IInv, TypeOK, BridgeRecords, CreateStarted, Started
<1>3. /\ CallShape' /\ NoWaitOnStopped'
      /\ loop' \in {loop, "restore_login"}
      /\ checking' \in [t : Tenants \cup {NoTenant}, b : Bridges \cup {NoBridge}]
  <2>1. CASE o = Health
    BY <1>1, <1>2, <2>1 DEF CreateStarted, CallShape, NoWaitOnStopped
  <2>2. CASE o # Health
    <3>1. checking.b # NoBridge => checking.b \in Bridges \ {b}
      BY <1>1 DEF IInv, TypeOK, NoWaitOnStopped
    <3>. QED  BY <1>2, <2>2, <3>1
              DEF IInv, TypeOK, CreateStarted, CallShape, NoWaitOnStopped
  <2>. QED  BY <2>1, <2>2
<1>4. UNCHANGED <<registered, tenant, todo>>
  BY DEF CreateStarted
<1>. QED  BY <1>1, <1>2, <1>3, <1>4, TaskEnds DEF CreateStarted, IInv, TypeOK

(* A launch that fails, or whose success is not waited for by the lifespan  *)
(* task: the launched bridge is not the one being asked.                   *)
LEMMA LaunchOver ==
    ASSUME IInv, NEW o \in Tasks, task[o].pc \in Launching,
           obj' \in {Started(task[o].b), Failed(task[o].b)},
           UNCHANGED <<loop, checking>>
    PROVE  /\ task[o].t \in Tenants /\ task[o].b \in Bridges
           /\ obj' \in [Bridges -> BridgeRecords]
           /\ \A c \in Bridges \ {task[o].b} : obj'[c].run = obj[c].run
           /\ CallShape' /\ NoWaitOnStopped'
<1> DEFINE b == task[o].b
<1>1. /\ task[o].t \in Tenants /\ b \in Bridges
      /\ obj[b].run = "starting"
  BY DEF IInv, TaskShape, BridgeHeld, Launching
<1>2. /\ obj' \in [Bridges -> BridgeRecords]
      /\ \A c \in Bridges \ {b} : obj'[c].run = obj[c].run
  <2>1. CASE obj' = Started(b)
    BY <1>1, <2>1 DEF IInv, TypeOK, BridgeRecords, Started
  <2>2. CASE obj' = Failed(b)
    BY <1>1, <2>2 DEF IInv, TypeOK, BridgeRecords, Failed, Down
  <2>. QED  BY <2>1, <2>2
<1>3. checking.b # NoBridge => checking.b \in Bridges \ {b}
  BY <1>1 DEF IInv, TypeOK, NoWaitOnStopped
<1>4. CallShape' /\ NoWaitOnStopped'
  BY <1>2, <1>3 DEF IInv, CallShape, NoWaitOnStopped
<1>. QED  BY <1>1, <1>2, <1>4

LEMMA CreateFailsStep ==
    ASSUME IInv, NEW o \in Tasks, CreateFails(o)
    PROVE  IInv'
<1>1. /\ task[o].pc \in Launching
      /\ obj' \in {Started(task[o].b), Failed(task[o].b)}
      /\ UNCHANGED <<registered, tenant, loop, todo, checking>>
      /\ task' = [task EXCEPT ![o] = Idle]
  BY DEF CreateFails, Launching
<1>2. \A u \in Tenants : ~InRestart(o, u)
  BY DEF CreateFails, InRestart, RestartPoints
<1>. QED  BY <1>1, <1>2, LaunchOver, TaskEnds DEF IInv, TypeOK

LEMMA RestartStartedStep ==
    ASSUME IInv, NEW o \in Tasks, RestartStarted(o)
    PROVE  IInv'
<1>1. /\ task[o].pc \in Launching
      /\ obj' \in {Started(task[o].b), Failed(task[o].b)}
      /\ UNCHANGED <<registered, loop, todo, checking>>
      /\ task' = [task EXCEPT ![o] = Idle]
  BY DEF RestartStarted, Launching
<1> DEFINE t == task[o].t
           b == task[o].b
<1>2. /\ t \in Tenants /\ b \in Bridges
      /\ 0 \in FailureCounts
  BY <1>1, LaunchOver, LifecycleAssumption DEF FailureCounts
<1>3. \A u \in Tenants : InRestart(o, u) <=> u = t
  BY DEF RestartStarted, InRestart, RestartPoints
<1>4. tenant' \in [Tenants -> TenantRecords]
  <2> DEFINE counted == [tenant EXCEPT ![t].failures = 0]
  <2>1. counted \in [Tenants -> TenantRecords]
    BY <1>2, FailuresTyped DEF IInv
  <2>2. tenant' = [counted EXCEPT ![t].bridge = b, ![t].restarting = FALSE]
    BY <1>2 DEF IInv, TypeOK, TenantRecords, RestartStarted
  <2> HIDE DEF counted
  <2>. QED  BY <1>2, <2>1, <2>2 DEF TenantRecords
<1>5. \A u \in Tenants : tenant'[u].restarting <=>
                             tenant[u].restarting /\ ~InRestart(o, u)
  BY <1>2, <1>3 DEF IInv, TypeOK, TenantRecords, RestartStarted
<1>. QED  BY <1>1, <1>4, <1>5, LaunchOver, TaskEnds DEF IInv, TypeOK

LEMMA RestartFailsStep ==
    ASSUME IInv, NEW o \in Tasks, RestartFails(o)
    PROVE  IInv'
<1>1. /\ task[o].pc \in Launching
      /\ obj' \in {Started(task[o].b), Failed(task[o].b)}
      /\ UNCHANGED <<registered, loop, todo, checking>>
      /\ task' = [task EXCEPT ![o] = Idle]
  BY DEF RestartFails, Launching
<1> DEFINE t == task[o].t
           state == IF o = Health THEN "disconnected" ELSE tenant[t].state
<1>2. t \in Tenants
  BY <1>1, LaunchOver
<1>3. \A u \in Tenants : InRestart(o, u) <=> u = t
  BY DEF RestartFails, InRestart, RestartPoints
<1>4. tenant' \in [Tenants -> TenantRecords]
  <2>1. state \in ConnectionStates
    BY <1>2 DEF IInv, TypeOK, TenantRecords, ConnectionStates
  <2> DEFINE free == [tenant EXCEPT ![t].restarting = FALSE]
  <2>2. free \in [Tenants -> TenantRecords]
    BY <1>2 DEF IInv, TypeOK, TenantRecords
  <2>3. tenant' = [free EXCEPT ![t].state = state]
    BY <1>2 DEF IInv, TypeOK, TenantRecords, RestartFails
  <2> HIDE DEF free, state
  <2>. QED  BY <1>2, <2>1, <2>2, <2>3, StateTyped
<1>5. \A u \in Tenants : tenant'[u].restarting <=>
                             tenant[u].restarting /\ ~InRestart(o, u)
  BY <1>2, <1>3 DEF IInv, TypeOK, TenantRecords, RestartFails
<1>. QED  BY <1>1, <1>4, <1>5, LaunchOver, TaskEnds DEF IInv, TypeOK

LEMMA ReconnectRefusedStep ==
    ASSUME IInv, NEW o \in Tasks, ReconnectRefused(o)
    PROVE  IInv'
<1>1. CallShape' /\ NoWaitOnStopped'
  BY DEF IInv, CallShape, NoWaitOnStopped, ReconnectRefused
<1>2. \A u \in Tenants : ~InRestart(o, u)
  BY DEF ReconnectRefused, InRestart, RestartPoints
<1>. QED  BY <1>1, <1>2, TaskEnds DEF ReconnectRefused, IInv, TypeOK

-----------------------------------------------------------------------------
(* Creating a bridge: its identity is nobody else's.                       *)
LEMMA CreateStep ==
    ASSUME IInv, NEW o \in Tasks, NEW t \in Tenants,
           NEW tenants \in [Tenants -> TenantRecords],
           NEW objects \in [Bridges -> BridgeRecords],
           \A u \in Tenants : tenants[u].restarting = tenant[u].restarting,
           \A c \in Bridges \ {task[o].b} : objects[c].run = obj[c].run,
           checking.b # NoBridge => checking.b # task[o].b,
           task[o].pc \notin RestartPoints,
           CreateBridge(o, t, tenants, objects),
           todo' \subseteq Tenants,
           UNCHANGED <<registered, loop, checking>>
    PROVE  IInv'
<1>1. PICK b \in Bridges :
          /\ Unreachable(b)
          /\ obj' = [objects EXCEPT ![b] = Starting(t, tenants[t].mark)]
          /\ tenant' = [tenants EXCEPT ![t].bridge = b]
          /\ task' = [task EXCEPT ![o] = At("create_start", t, b)]
  BY DEF CreateBridge
<1>2. /\ \A p \in Tasks : task[p].b # b
      /\ checking.b # b
  BY <1>1 DEF Unreachable
<1>3. /\ obj' \in [Bridges -> BridgeRecords]
      /\ obj'[b].run = "starting"
      /\ \A c \in Bridges \ {b, task[o].b} : obj'[c].run = obj[c].run
  BY <1>1 DEF Starting, BridgeRecords, TenantRecords
<1>4. /\ tenant' \in [Tenants -> TenantRecords]
      /\ \A u \in Tenants : tenant'[u].restarting = tenant[u].restarting
  BY <1>1 DEF TenantRecords
<1> DEFINE new == At("create_start", t, b)
<1>5. /\ new \in TaskRecords
      /\ new.pc = "create_start" /\ new.t = t /\ new.b = b
  BY DEF At, TaskRecords, Points
<1> HIDE DEF new
<1>6. TypeOK'
  <2>1. task' \in [Tasks -> TaskRecords]
    BY <1>1, <1>5 DEF IInv, TypeOK, new
  <2>. QED  BY <1>3, <1>4, <2>1 DEF IInv, TypeOK
<1>7. CallShape' /\ NoWaitOnStopped'
  <2>1. checking.b # NoBridge => checking.b \in Bridges \ {b, task[o].b}
    BY <1>2 DEF IInv, TypeOK
  <2>. QED  BY <1>3, <2>1 DEF IInv, CallShape, NoWaitOnStopped
<1>8. new.pc \in Launching /\ new.pc \notin Stopping /\ new.pc \notin RestartPoints
  BY <1>5 DEF Launching, Stopping, StopPoints, RestartPoints
<1>9. \A u \in Tenants : ~InRestart(o, u)
  BY DEF InRestart
<1>10. task' = [task EXCEPT ![o] = new]
  BY <1>1 DEF new
<1>. QED  BY <1>2, <1>3, <1>4, <1>5, <1>6, <1>7, <1>8, <1>9, <1>10, TaskStep

LEMMA RestoreTenantStep ==
    ASSUME IInv, NEW t \in Tenants, RestoreTenant(t)
    PROVE  IInv'
<1>1. /\ task[Health].pc = "idle" /\ task[Health].b = NoBridge
      /\ todo' \subseteq Tenants
      /\ UNCHANGED <<registered, loop, checking>>
  BY DEF IInv, TypeOK, RestoreTenant, Restoring, Idle
<1>2. CASE CreateBridge(Health, t, tenant, obj)
  BY <1>1, <1>2, CreateStep DEF IInv, TypeOK, Tasks, RestartPoints
<1>3. CASE UNCHANGED <<tenant, obj, task>>
  <2>1. TypeOK' /\ CallShape' /\ NoWaitOnStopped'
    BY <1>1, <1>3 DEF IInv, TypeOK, CallShape, NoWaitOnStopped
  <2>. QED  BY <1>3, <2>1, QuietStep
<1>. QED  BY <1>2, <1>3 DEF RestoreTenant

(* Beginning to stop a running bridge: nobody else claims it, and a call   *)
(* to it is cancelled.                                                     *)
LEMMA StopBegun ==
    ASSUME IInv, NEW b \in Bridges, obj[b].run = "running", BeginStop(b)
    PROVE  /\ obj' \in [Bridges -> BridgeRecords]
           /\ obj'[b].run = "stopping"
           /\ \A c \in Bridges \ {b} : obj'[c].run = obj[c].run
           /\ \A p \in Tasks : task[p].b # b
           /\ loop' \in {loop, "dead", "aborted"}
           /\ checking' \in [t : Tenants \cup {NoTenant}, b : Bridges \cup {NoBridge}]
           /\ CallShape' /\ NoWaitOnStopped'
<1>1. /\ obj' \in [Bridges -> BridgeRecords]
      /\ obj'[b].run = "stopping"
      /\ \A c \in Bridges \ {b} : obj'[c].run = obj[c].run
  BY DEF IInv, TypeOK, BridgeRecords, BeginStop
<1>2. \A p \in Tasks : task[p].b # b
  BY DEF IInv, TaskShape, BridgeHeld
<1>3. CASE checking.b = b
  <2>1. /\ checking' = NoCall
        /\ loop' \in {"dead", "aborted"}
    BY <1>3 DEF BeginStop
  <2>. QED  BY <1>1, <1>2, <2>1 DEF CallShape, NoWaitOnStopped, NoCall
<1>4. CASE checking.b # b
  <2>1. UNCHANGED <<checking, loop>>
    BY <1>4 DEF BeginStop
  <2>2. checking.b # NoBridge => checking.b \in Bridges \ {b}
    BY <1>4 DEF IInv, TypeOK
  <2>3. CallShape' /\ NoWaitOnStopped'
    BY <1>1, <2>1, <2>2 DEF IInv, CallShape, NoWaitOnStopped
  <2>. QED  BY <1>1, <1>2, <2>1, <2>3 DEF IInv, TypeOK
<1>. QED  BY <1>3, <1>4

LEMMA BeginRestartStep ==
    ASSUME IInv, NEW o \in Tasks, NEW t \in Tenants, BeginRestart(o, t),
           task[o].pc \in {"idle", "reconnect_enter"}, todo' \subseteq Tenants
    PROVE  IInv'
<1> DEFINE b == tenant[t].bridge
<1>1. /\ tenant' \in [Tenants -> TenantRecords]
      /\ \A u \in Tenants : tenant'[u].restarting <=> u = t \/ tenant[u].restarting
      /\ ~tenant[t].restarting
      /\ UNCHANGED registered
  BY ZenonT(60) DEF IInv, TypeOK, TenantRecords, BeginRestart, MayBegin
<1>2. /\ task[o].b \notin Bridges
      /\ \A u \in Tenants : ~InRestart(o, u)
  BY DEF IInv, TaskShape, Stopping, Launching, StopPoints, InRestart, RestartPoints
<1>3. CASE b # NoBridge /\ obj[b].run = "running"
  <2>1. /\ b \in Bridges
        /\ BeginStop(b)
        /\ task' = [task EXCEPT ![o] = At("restart_stop", t, b)]
    BY <1>3 DEF IInv, TypeOK, TenantRecords, BeginRestart
  <2> DEFINE new == At("restart_stop", t, b)
  <2>2. /\ new \in TaskRecords
        /\ new.pc = "restart_stop" /\ new.t = t /\ new.b = b
    BY <2>1 DEF At, TaskRecords, Points, RestartPoints
  <2>3. task' = [task EXCEPT ![o] = new]
    BY <2>1
  <2> HIDE DEF new
  <2>4. TypeOK'
    <3>1. task' \in [Tasks -> TaskRecords]
      BY <2>2, <2>3 DEF IInv, TypeOK
    <3>. QED  BY <1>1, <1>3, <2>1, <3>1, StopBegun DEF IInv, TypeOK
  <2>5. new.pc \in Stopping /\ new.pc \in RestartPoints /\ new.pc \notin Launching
    BY <2>2 DEF Stopping, Launching, RestartPoints
  <2>6. /\ obj'[b].run = "stopping"
        /\ \A c \in Bridges \ {b} : obj'[c].run = obj[c].run
        /\ \A p \in Tasks : task[p].b # b
        /\ CallShape' /\ NoWaitOnStopped'
    BY <1>3, <2>1, StopBegun
  <2>7. \A u \in Tenants :
            LET enters == new.pc \in RestartPoints /\ new.t = u
            IN /\ enters /\ ~InRestart(o, u) => ~tenant[u].restarting
               /\ tenant'[u].restarting <=>
                      enters \/ (tenant[u].restarting /\ ~InRestart(o, u))
    BY <1>1, <1>2, <2>2, <2>5
  <2>8. /\ new.t \in Tenants /\ new.b \in Bridges
        /\ obj'[new.b].run = "stopping"
        /\ \A p \in Tasks \ {o} : task[p].b # new.b
        /\ \A c \in Bridges \ {new.b, task[o].b} : obj'[c].run = obj[c].run
    BY <2>1, <2>2, <2>6
  <2>. QED  BY <2>3, <2>4, <2>2, <2>5, <2>6, <2>7, <2>8, TaskStep
<1>4. CASE ~(b # NoBridge /\ obj[b].run = "running")
  <2>1. /\ task' = [task EXCEPT ![o] = At("restart_cooldown", t, NoBridge)]
        /\ UNCHANGED <<obj, loop, checking>>
    BY <1>4 DEF BeginRestart
  <2> DEFINE new == At("restart_cooldown", t, NoBridge)
  <2>2. /\ new \in TaskRecords
        /\ new.pc = "restart_cooldown" /\ new.t = t /\ new.b = NoBridge
    BY DEF At, TaskRecords, Points, RestartPoints
  <2>3. task' = [task EXCEPT ![o] = new]
    BY <2>1
  <2> HIDE DEF new
  <2>4. TypeOK' /\ CallShape' /\ NoWaitOnStopped'
    <3>1. task' \in [Tasks -> TaskRecords]
      BY <2>2, <2>3 DEF IInv, TypeOK
    <3>. QED  BY <1>1, <2>1, <3>1 DEF IInv, TypeOK, CallShape, NoWaitOnStopped
  <2>5. /\ new.pc \notin Stopping \cup Launching
        /\ new.pc \in RestartPoints
    BY <2>2 DEF Stopping, StopPoints, Launching, RestartPoints
  <2>. QED  BY <1>1, <1>2, <2>1, <2>2, <2>3, <2>4, <2>5, LifecycleAssumption, TaskStep
<1>. QED  BY <1>3, <1>4

LEMMA HealthRestartsStep ==
    ASSUME IInv, NEW t \in Tenants, HealthRestarts(t)
    PROVE  IInv'
<1>1. task[Health].pc = "idle" /\ Health \in Tasks
  BY DEF HealthRestarts, Visiting, Idle, Tasks
<1>2. todo' \subseteq Tenants
  BY DEF IInv, TypeOK, HealthRestarts
<1>. QED  BY <1>1, <1>2, BeginRestartStep DEF HealthRestarts

LEMMA EnterReconnectStep ==
    ASSUME IInv, NEW o \in Tasks, EnterReconnect(o)
    PROVE  IInv'
<1>1. task[o].t \in Tenants
  BY DEF IInv, TaskShape, EnterReconnect
<1>2. todo' \subseteq Tenants
  BY DEF IInv, TypeOK, EnterReconnect
<1>. QED  BY <1>1, <1>2, BeginRestartStep DEF EnterReconnect

LEMMA RestartCooledDownStep ==
    ASSUME IInv, NEW o \in Tasks, RestartCooledDown(o)
    PROVE  IInv'
<1> DEFINE t == task[o].t
<1>1. PICK b \in Bridges :
          /\ Unreachable(b)
          /\ obj' = [obj EXCEPT ![b] = Starting(t, TRUE)]
          /\ task' = [task EXCEPT ![o] = At("restart_start", t, b)]
  BY DEF RestartCooledDown
<1>2. /\ t \in Tenants
      /\ UNCHANGED <<registered, tenant, loop, todo, checking>>
      /\ \A u \in Tenants : InRestart(o, u) <=> u = t
  BY DEF IInv, TaskShape, RestartCooledDown, InRestart, RestartPoints
<1>3. /\ \A p \in Tasks : task[p].b # b
      /\ checking.b # b
  BY <1>1 DEF Unreachable
<1>4. /\ obj' \in [Bridges -> BridgeRecords]
      /\ obj'[b].run = "starting"
      /\ \A c \in Bridges \ {b} : obj'[c].run = obj[c].run
  BY <1>1, <1>2 DEF IInv, TypeOK, Starting, BridgeRecords
<1> DEFINE new == At("restart_start", t, b)
<1>5. /\ new \in TaskRecords
      /\ new.pc = "restart_start" /\ new.t = t /\ new.b = b
  BY <1>2 DEF At, TaskRecords, Points, RestartPoints
<1>6. task' = [task EXCEPT ![o] = new]
  BY <1>1
<1> HIDE DEF new
<1>7. TypeOK'
  <2>1. task' \in [Tasks -> TaskRecords]
    BY <1>5, <1>6 DEF IInv, TypeOK
  <2>. QED  BY <1>2, <1>4, <2>1 DEF IInv, TypeOK
<1>8. CallShape' /\ NoWaitOnStopped'
  <2>1. checking.b # NoBridge => checking.b \in Bridges \ {b}
    BY <1>3 DEF IInv, TypeOK
  <2>. QED  BY <1>2, <1>4, <2>1 DEF IInv, CallShape, NoWaitOnStopped
<1>9. /\ new.pc \in Launching /\ new.pc \in RestartPoints /\ new.pc \notin Stopping
  BY <1>5 DEF Launching, Stopping, StopPoints, RestartPoints
<1>10. tenant[t].restarting
  BY <1>2 DEF IInv, RestartExclusive
<1>. QED  BY <1>2, <1>3, <1>4, <1>5, <1>6, <1>7, <1>8, <1>9, <1>10, TaskStep, ZenonT(60)

(* The stopped bridge is claimed by the task that stopped it, so nobody    *)
(* waits for an answer of it.                                              *)
LEMMA StopOver ==
    ASSUME IInv, NEW o \in Tasks, task[o].pc \in Stopping
    PROVE  /\ task[o].t \in Tenants /\ task[o].b \in Bridges
           /\ Stopped(task[o].b) \in [Bridges -> BridgeRecords]
           /\ \A c \in Bridges \ {task[o].b} : Stopped(task[o].b)[c] = obj[c]
           /\ checking.b # task[o].b
<1>1. /\ task[o].t \in Tenants /\ task[o].b \in Bridges
      /\ obj[task[o].b].run = "stopping"
  BY DEF IInv, TaskShape, BridgeHeld, Stopping, StopPoints
<1>2. /\ Stopped(task[o].b) \in [Bridges -> BridgeRecords]
      /\ \A c \in Bridges \ {task[o].b} : Stopped(task[o].b)[c] = obj[c]
  BY <1>1 DEF IInv, TypeOK, BridgeRecords, Stopped, Down
<1>3. checking.b # task[o].b
  BY <1>1, LifecycleAssumption DEF IInv, NoWaitOnStopped
<1>. QED  BY <1>1, <1>2, <1>3

LEMMA RestartStoppedStep ==
    ASSUME IInv, NEW o \in Tasks, RestartStopped(o)
    PROVE  IInv'
<1> DEFINE t == task[o].t
           b == task[o].b
           new == At("restart_cooldown", t, NoBridge)
<1>1. /\ task[o].pc \in Stopping
      /\ obj' = Stopped(b)
      /\ task' = [task EXCEPT ![o] = new]
      /\ UNCHANGED <<registered, tenant, loop, todo, checking>>
      /\ \A u \in Tenants : InRestart(o, u) <=> u = t
  BY DEF RestartStopped, Stopping, InRestart, RestartPoints
<1>2. t \in Tenants /\ b \in Bridges
  BY <1>1, StopOver
<1>3. /\ new \in TaskRecords
      /\ new.pc = "restart_cooldown" /\ new.t = t /\ new.b = NoBridge
  BY <1>2 DEF At, TaskRecords, Points, RestartPoints
<1> HIDE DEF new
<1>4. TypeOK'
  <2>1. task' \in [Tasks -> TaskRecords]
    BY <1>1, <1>3 DEF IInv, TypeOK
  <2>. QED  BY <1>1, <2>1, StopOver DEF IInv, TypeOK
<1>5. CallShape' /\ NoWaitOnStopped'
  <2>1. checking.b # NoBridge => checking.b \in Bridges \ {b}
    BY <1>1, StopOver DEF IInv, TypeOK
  <2>. QED  BY <1>1, <2>1, StopOver DEF IInv, CallShape, NoWaitOnStopped
<1>6. /\ new.pc \notin Stopping \cup Launching
      /\ new.pc \in RestartPoints
  BY <1>3 DEF Stopping, StopPoints, Launching, RestartPoints
<1>7. tenant[t].restarting
  BY <1>1, <1>2 DEF IInv, RestartExclusive
<1>8. \A u \in Tenants :
          LET enters == new.pc \in RestartPoints /\ new.t = u
          IN /\ enters /\ ~InRestart(o, u) => ~tenant[u].restarting
             /\ tenant'[u].restarting <=>
                    enters \/ (tenant[u].restarting /\ ~InRestart(o, u))
  BY <1>1, <1>3, <1>6, <1>7
<1>9. \A c \in Bridges \ {new.b, b} : obj'[c].run = obj[c].run
  BY <1>1, StopOver
<1>. QED  BY <1>1, <1>2, <1>3, <1>4, <1>5, <1>6, <1>8, <1>9,
             LifecycleAssumption, TaskStep

-----------------------------------------------------------------------------
(* Requests that stop the bridge first.                                    *)
LEMMA AfterStopStep ==
    ASSUME IInv, NEW kind, NEW o \in Tasks, NEW t \in Tenants,
           NEW objects \in [Bridges -> BridgeRecords],
           \A c \in Bridges \ {task[o].b} : objects[c].run = obj[c].run,
           checking.b # NoBridge => checking.b # task[o].b,
           task[o].pc \notin RestartPoints,
           AfterStop(kind, o, t, objects),
           UNCHANGED <<loop, todo, checking>>
    PROVE  IInv'
<1>1. \A u \in Tenants : ~InRestart(o, u)
  BY DEF InRestart
<1>2. CASE Swap(o, t, objects)
  <2> DEFINE tenants == [tenant EXCEPT ![t].bridge = NoBridge]
  <2>1. /\ tenants \in [Tenants -> TenantRecords]
        /\ \A u \in Tenants : tenants[u].restarting = tenant[u].restarting
    BY DEF IInv, TypeOK, TenantRecords
  <2>2. CreateBridge(o, t, tenants, objects) /\ UNCHANGED registered
    BY <1>2 DEF Swap
  <2>3. todo' \subseteq Tenants
    BY DEF IInv, TypeOK
  <2> HIDE DEF tenants
  <2>. QED  BY <2>1, <2>2, <2>3, CreateStep
<1>3. ASSUME obj' = objects, task' = [task EXCEPT ![o] = Idle],
             registered' \subseteq Tenants,
             tenant' \in [Tenants -> TenantRecords],
             \A u \in Tenants : tenant'[u].restarting = tenant[u].restarting
      PROVE  IInv'
  <2>1. CallShape' /\ NoWaitOnStopped'
    <3>1. checking.b # NoBridge => checking.b \in Bridges \ {task[o].b}
      BY DEF IInv, TypeOK
    <3>. QED  BY <1>3, <3>1 DEF IInv, CallShape, NoWaitOnStopped
  <2>. QED  BY <1>1, <1>3, <2>1, TaskEnds DEF IInv, TypeOK
<1>4. CASE ClearCredentials(o, t, objects)
  <2>1. /\ tenant' \in [Tenants -> TenantRecords]
        /\ \A u \in Tenants : tenant'[u].restarting = tenant[u].restarting
    <3> DEFINE gone == [tenant EXCEPT ![t].bridge = NoBridge, ![t].auth = "none"]
    <3>1. /\ gone \in [Tenants -> TenantRecords]
          /\ \A u \in Tenants : gone[u].restarting = tenant[u].restarting
      <4> DEFINE bare == [tenant EXCEPT ![t].bridge = NoBridge]
      <4>1. /\ bare \in [Tenants -> TenantRecords]
            /\ \A u \in Tenants : bare[u].restarting = tenant[u].restarting
        BY DEF IInv, TypeOK, TenantRecords
      <4>2. gone = [bare EXCEPT ![t].auth = "none"]
        BY DEF IInv, TypeOK, TenantRecords
      <4> HIDE DEF bare, gone
      <4>3. gone \in [Tenants -> TenantRecords]
        BY <4>1, <4>2 DEF TenantRecords, AuthStates
      <4>4. \A u \in Tenants : gone[u].restarting = bare[u].restarting
        BY <4>1, <4>2 DEF TenantRecords
      <4>. QED  BY <4>1, <4>3, <4>4
    <3>2. tenant' = [gone EXCEPT ![t].state = "disconnected"]
      BY <1>4 DEF IInv, TypeOK, TenantRecords, ClearCredentials
    <3> HIDE DEF gone
    <3>. QED  BY <3>1, <3>2 DEF TenantRecords, ConnectionStates
  <2>. QED  BY <1>3, <1>4, <2>1 DEF ClearCredentials, IInv, TypeOK
<1>5. CASE Disable(o, t, objects)
  <2>1. /\ tenant' \in [Tenants -> TenantRecords]
        /\ \A u \in Tenants : tenant'[u].restarting = tenant[u].restarting
    BY <1>5 DEF IInv, TypeOK, TenantRecords, ConnectionStates, Disable
  <2>. QED  BY <1>3, <1>5, <2>1 DEF Disable, IInv, TypeOK
<1>6. CASE Delete(o, t, objects)
  BY <1>3, <1>6 DEF Delete, IInv, TypeOK
<1>. QED  BY <1>2, <1>4, <1>5, <1>6 DEF AfterStop

LEMMA StopReturnsStep ==
    ASSUME IInv, NEW o \in Tasks, StopReturns(o)
    PROVE  IInv'
<1>1. task[o].pc \in Stopping /\ task[o].pc \notin RestartPoints
  BY DEF StopReturns, Stopping, StopPoints, RestartPoints
<1>. QED  BY <1>1, StopOver, AfterStopStep DEF StopReturns

LEMMA StopAndThenStep ==
    ASSUME IInv, NEW kind \in StopPoints, NEW o \in Tasks, NEW t \in Tenants,
           StopAndThen(kind, o, t), task[o].pc \in {"idle", "settings_save"}
    PROVE  IInv'
<1> DEFINE b == tenant[t].bridge
<1>1. /\ task[o].b \notin Bridges
      /\ task[o].pc \notin RestartPoints
      /\ \A u \in Tenants : ~InRestart(o, u)
  BY DEF IInv, TaskShape, Stopping, Launching, StopPoints, InRestart, RestartPoints
<1>2. CASE b # NoBridge /\ obj[b].run = "running"
  <2>1. /\ b \in Bridges
        /\ BeginStop(b)
        /\ task' = [task EXCEPT ![o] = At(kind, t, b)]
        /\ UNCHANGED <<registered, tenant, todo>>
    BY <1>2 DEF IInv, TypeOK, TenantRecords, StopAndThen
  <2> DEFINE new == At(kind, t, b)
  <2>2. /\ new \in TaskRecords
        /\ new.pc = kind /\ new.t = t /\ new.b = b
    BY <2>1 DEF At, TaskRecords, Points
  <2>3. task' = [task EXCEPT ![o] = new]
    BY <2>1
  <2> HIDE DEF new
  <2>4. TypeOK'
    <3>1. task' \in [Tasks -> TaskRecords]
      BY <2>2, <2>3 DEF IInv, TypeOK
    <3>. QED  BY <1>2, <2>1, <3>1, StopBegun DEF IInv, TypeOK
  <2>5. /\ new.pc \in Stopping
        /\ new.pc \notin RestartPoints /\ new.pc \notin Launching
    BY <2>2 DEF Stopping, Launching, RestartPoints, StopPoints
  <2>6. /\ obj'[b].run = "stopping"
        /\ \A c \in Bridges \ {b} : obj'[c].run = obj[c].run
        /\ \A p \in Tasks : task[p].b # b
        /\ CallShape' /\ NoWaitOnStopped'
    BY <1>2, <2>1, StopBegun
  <2>7. \A u \in Tenants :
            LET enters == new.pc \in RestartPoints /\ new.t = u
            IN /\ enters /\ ~InRestart(o, u) => ~tenant[u].restarting
               /\ tenant'[u].restarting <=>
                      enters \/ (tenant[u].restarting /\ ~InRestart(o, u))
    BY <1>1, <2>1, <2>5
  <2>8. /\ new.t \in Tenants /\ new.b \in Bridges
        /\ obj'[new.b].run = "stopping"
        /\ \A p \in Tasks \ {o} : task[p].b # new.b
        /\ \A c \in Bridges \ {new.b, task[o].b} : obj'[c].run = obj[c].run
    BY <2>1, <2>2, <2>6
  <2>. QED  BY <2>2, <2>3, <2>4, <2>5, <2>6, <2>7, <2>8, TaskStep
<1>3. CASE ~(b # NoBridge /\ obj[b].run = "running")
  <2>1. AfterStop(kind, o, t, obj) /\ UNCHANGED <<loop, todo, checking>>
    BY <1>3 DEF StopAndThen
  <2>2. checking.b # NoBridge => checking.b # task[o].b
    BY <1>1 DEF IInv, TypeOK
  <2>. QED  BY <1>1, <2>1, <2>2, AfterStopStep DEF IInv, TypeOK
<1>. QED  BY <1>2, <1>3

LEMMA SettingSavedStep ==
    ASSUME IInv, NEW o \in Tasks, SettingSaved(o)
    PROVE  IInv'
<1>1. task[o].pc = "settings_save" /\ task[o].t \in Tenants
  BY DEF IInv, TaskShape, SettingSaved
<1>2. CASE NeedsRestart(o)
  BY <1>1, <1>2, StopAndThenStep DEF SettingSaved, StopPoints
<1>3. CASE ~NeedsRestart(o)
  <2>1. /\ task' = [task EXCEPT ![o] = Idle]
        /\ UNCHANGED <<registered, tenant, obj, loop, todo, checking>>
    BY <1>3 DEF SettingSaved
  <2>2. \A u \in Tenants : ~InRestart(o, u)
    BY <1>1 DEF InRestart, RestartPoints
  <2>3. CallShape' /\ NoWaitOnStopped'
    BY <2>1 DEF IInv, CallShape, NoWaitOnStopped
  <2>. QED  BY <2>1, <2>2, <2>3, TaskEnds DEF IInv, TypeOK
<1>. QED  BY <1>2, <1>3

LEMMA ClientStep ==
    ASSUME IInv, NEW o \in Workers, NEW t \in Tenants, Client(o, t)
    PROVE  IInv'
<1>1. /\ o \in Tasks
      /\ task[o].pc = "idle" /\ task[o].b = NoBridge
  BY DEF Client, Call, Reconnect, ChangeSetting, Clear, DisableTenant,
         DeleteTenant, Request, Idle, Tasks
<1>2. CASE Call(o, t)
  BY <1>1, <1>2, CreateStep DEF Call, IInv, TypeOK, RestartPoints
<1>3. CASE Reconnect(o, t)
  BY <1>1, <1>3, StopAndThenStep DEF Reconnect, StopPoints
<1>4. CASE ChangeSetting(o, t)
  BY <1>4, ChangeSettingStep
<1>5. CASE Clear(o, t)
  BY <1>1, <1>5, StopAndThenStep DEF Clear, StopPoints
<1>6. CASE DisableTenant(o, t)
  BY <1>1, <1>6, StopAndThenStep DEF DisableTenant, StopPoints
<1>7. CASE DeleteTenant(o, t)
  BY <1>1, <1>7, StopAndThenStep DEF DeleteTenant, StopPoints
<1>. QED  BY <1>2, <1>3, <1>4, <1>5, <1>6, <1>7 DEF Client

LEMMA ResumeStep ==
    ASSUME IInv, NEW o \in Tasks, Resume(o)
    PROVE  IInv'
BY CreateStartedStep, CreateFailsStep, RestartStoppedStep, RestartCooledDownStep,
   RestartStartedStep, RestartFailsStep, EnterReconnectStep, ReconnectRefusedStep,
   StopReturnsStep, SettingSavedStep
   DEF Resume

LEMMA LifespanStep ==
    ASSUME IInv, Lifespan
    PROVE  IInv'
BY LoopStep, HealthConnectedStep, HealthFailedStep, RestoreTenantStep,
   HealthRestartsStep, HealthGivesUpStep, HealthAsksStep
   DEF Lifespan

(* The invariant, for every step of the system.                            *)
THEOREM LifecycleInvariant == Spec => []IInv
<1>1. Init => IInv
  BY InitIInv
<1>2. IInv /\ [Next]_vars => IInv'
  <2>1. SUFFICES ASSUME IInv, [Next]_vars
                 PROVE  IInv'
    OBVIOUS
  <2>2. CASE Lifespan
    BY <2>1, <2>2, LifespanStep
  <2>3. ASSUME NEW o \in Tasks, Resume(o)
        PROVE  IInv'
    BY <2>1, <2>3, ResumeStep
  <2>4. ASSUME NEW b \in Bridges, BridgeExits(b) \/ BridgeEvent(b)
        PROVE  IInv'
    BY <2>1, <2>4, BridgeExitsStep, BridgeEventStep
  <2>5. ASSUME NEW o \in Workers, NEW t \in Tenants, Client(o, t)
        PROVE  IInv'
    BY <2>1, <2>5, ClientStep
  <2>6. CASE UNCHANGED vars
    BY <2>1, <2>6
       DEF vars, IInv, TypeOK, TaskShape, CallShape, BridgeHeld,
           RestartExclusive, InRestart, NoWaitOnStopped
  <2>. QED  BY <2>1, <2>2, <2>3, <2>4, <2>5, <2>6 DEF Next, Step
<1>. QED  BY <1>1, <1>2, PTL DEF Spec

(* Every variable stays within its type.                                   *)
THEOREM LifecycleTypeCorrect == Spec => []TypeOK
<1>1. IInv => TypeOK
  BY DEF IInv
<1>. QED  BY <1>1, LifecycleInvariant, PTL

(* tests/test_bridge_restart_lock.py: restarts of a tenant are serialized, *)
(* whatever the number of tasks that ask for one and the requests that     *)
(* interfere.                                                              *)
THEOREM RestartExclusiveHolds == Spec => []RestartExclusive
<1>1. IInv => RestartExclusive
  BY DEF IInv
<1>. QED  BY <1>1, LifecycleInvariant, PTL

(* Nobody waits for a bridge that has been stopped.                        *)
THEOREM NoWaitOnStoppedHolds == Spec => []NoWaitOnStopped
<1>1. IInv => NoWaitOnStopped
  BY DEF IInv
<1>. QED  BY <1>1, LifecycleInvariant, PTL
-----------------------------------------------------------------------------
(***************************************************************************)
(* TenantLifecycle without administration: when clients only make calls    *)
(* and the database was clean at start, no crash, event, restart or health *)
(* check leaves a process behind, for every number of tenants and tasks.   *)
(***************************************************************************)
(* No endpoint that stops a bridge is ever entered.                        *)
NoAdministration ==
    \A o \in Tasks : task[o].pc \notin StopPoints \cup {"settings_save"}

(* A process runs, or is being stopped by a restart, only for the tenant   *)
(* that points to it.                                                      *)
RunningOwned ==
    \A b \in Bridges :
        /\ obj[b].alive => obj[b].run \in {"running", "stopping"}
        /\ obj[b].run \in {"running", "stopping"} =>
               /\ obj[b].owner \in Tenants
               /\ tenant[obj[b].owner].bridge = b

(* A bridge is starting or stopping only in the hands of a task.           *)
InHand ==
    \A b \in Bridges :
        /\ obj[b].run = "starting" =>
               \E o \in Tasks : task[o].pc \in Launching /\ task[o].b = b
        /\ obj[b].run = "stopping" =>
               \E o \in Tasks : task[o].pc = "restart_stop" /\ task[o].b = b

(* A bridge that get_or_create_bridge starts is already the tenant's, and  *)
(* a request starts one only for a tenant that is not recorded connected.  *)
CreateOwned ==
    \A o \in Tasks :
        task[o].pc = "create_start" =>
            /\ obj[task[o].b].owner = task[o].t
            /\ tenant[task[o].t].bridge = task[o].b
            /\ o # Health => tenant[task[o].t].state # "connected"

(* While a restart is under way the tenant's bridge is the one being       *)
(* stopped, then down; the new one is nobody's until it has started.       *)
RestartOwned ==
    \A o \in Tasks :
        LET t == task[o].t
        IN /\ task[o].pc = "restart_stop" => tenant[t].bridge = task[o].b
           /\ task[o].pc \in {"restart_cooldown", "restart_start"} =>
                  /\ tenant[t].bridge \in Bridges
                  /\ obj[tenant[t].bridge].run = "down"
           /\ task[o].pc = "restart_start" =>
                  /\ obj[task[o].b].owner = t
                  /\ \A u \in Tenants : tenant[u].bridge # task[o].b

ReconnectOwned ==
    \A o \in Tasks :
        task[o].pc = "reconnect_enter" =>
            /\ tenant[task[o].t].bridge \in Bridges
            /\ obj[tenant[task[o].t].bridge].run # "starting"

BridgesDistinct ==
    \A t, u \in Tenants :
        tenant[t].bridge = tenant[u].bridge /\ tenant[t].bridge # NoBridge => t = u

(* A tenant recorded as connected has a bridge, or restore_sessions has yet *)
(* to give it one (or failed).                                             *)
Restorable ==
    \A t \in Tenants :
        tenant[t].bridge = NoBridge /\ tenant[t].state = "connected" =>
            /\ tenant[t].auth = "creds"
            /\ t \in todo
            /\ loop \in {"restoring", "restore_login", "aborted"}

HealthCreates == task[Health].pc = "create_start" => loop = "restoring"

CInv ==
    /\ NoAdministration
    /\ RunningOwned
    /\ InHand
    /\ CreateOwned
    /\ RestartOwned
    /\ ReconnectOwned
    /\ BridgesDistinct
    /\ Restorable
    /\ HealthCreates

LEMMA InitCInv == Init /\ CleanDatabase => CInv
<1>1. SUFFICES ASSUME Init, CleanDatabase
               PROVE  CInv
  OBVIOUS
<1>2. /\ \A o \in Tasks : task[o].pc = "idle"
      /\ \A b \in Bridges : obj[b].run = "down" /\ obj[b].alive = FALSE
      /\ \A t \in Tenants : tenant[t].bridge = NoBridge
      /\ loop = "restoring" /\ todo = Tenants
  BY <1>1 DEF Init, Idle, Down
<1>3. Restorable
  BY <1>1, <1>2 DEF Restorable, CleanDatabase
<1>4. Health \in Tasks
  BY DEF Tasks
<1>. QED  BY <1>2, <1>3, <1>4
          DEF CInv, NoAdministration, RunningOwned, InHand, CreateOwned,
              RestartOwned, ReconnectOwned, BridgesDistinct, HealthCreates, StopPoints

-----------------------------------------------------------------------------
(* A step that moves no task and no bridge, and makes nobody connected but *)
(* a tenant whose bridge runs.                                             *)
LEMMA StillStep ==
    ASSUME IInv, CInv, UNCHANGED task,
           \A b \in Bridges : /\ obj'[b].run = obj[b].run
                              /\ obj'[b].owner = obj[b].owner
                              /\ obj'[b].alive => obj[b].alive,
           \A t \in Tenants :
               /\ tenant'[t].bridge = tenant[t].bridge
               /\ \/ tenant'[t].state # "connected"
                  \/ tenant'[t].state = tenant[t].state
                  \/ tenant[t].bridge \in Bridges /\ obj[tenant[t].bridge].run = "running",
           Restorable', HealthCreates'
    PROVE  CInv'
<1>1. /\ NoAdministration /\ RunningOwned /\ InHand /\ CreateOwned
      /\ RestartOwned /\ ReconnectOwned /\ BridgesDistinct
      /\ TaskShape /\ BridgeHeld
  BY DEF CInv, IInv
<1>2. NoAdministration' /\ RunningOwned' /\ InHand' /\ BridgesDistinct'
  BY <1>1 DEF NoAdministration, RunningOwned, InHand, BridgesDistinct
<1>3. CreateOwned'
  <2>1. SUFFICES ASSUME NEW o \in Tasks, task[o].pc = "create_start"
        PROVE  /\ obj'[task[o].b].owner = task[o].t
               /\ tenant'[task[o].t].bridge = task[o].b
               /\ o # Health => tenant'[task[o].t].state # "connected"
    BY DEF CreateOwned
  <2>2. /\ task[o].t \in Tenants /\ task[o].b \in Bridges
        /\ obj[task[o].b].run = "starting"
    BY <1>1, <2>1 DEF TaskShape, BridgeHeld, Launching
  <2>. QED  BY <1>1, <2>1, <2>2 DEF CreateOwned
<1>4. RestartOwned' /\ ReconnectOwned'
  <2>1. SUFFICES ASSUME NEW o \in Tasks,
                        task[o].pc \in RestartPoints \cup {"reconnect_enter"}
        PROVE  /\ task[o].t \in Tenants
               /\ task[o].pc = "restart_start" => task[o].b \in Bridges
    BY <1>1 DEF RestartOwned, ReconnectOwned, RestartPoints
  <2>. QED  BY <1>1, <2>1 DEF TaskShape, Launching, RestartPoints
<1>. QED  BY <1>2, <1>3, <1>4 DEF CInv

(* The lifespan task between its own suspensions.                          *)
LEMMA LoopCInv ==
    ASSUME IInv, CInv, loop # "aborted",
           \/ RestoreLoggedIn \/ RestoreDone \/ HealthWakes \/ HealthRoundEnds
           \/ HealthConnected \/ HealthFailed \/ HealthError
           \/ \E t \in Tenants : HealthSkips(t) \/ HealthGivesUp(t) \/ HealthAsks(t)
    PROVE  CInv'
<1>1. UNCHANGED <<obj, task>>
  BY DEF RestoreLoggedIn, RestoreDone, HealthWakes, HealthRoundEnds,
         HealthConnected, HealthFailed, HealthError, HealthAnswered,
         HealthSkips, HealthGivesUp, HealthAsks
<1>2. loop = "awaiting" => checking.t \in Tenants
  BY DEF IInv, CallShape
<1>3. \A t \in Tenants :
          /\ tenant'[t].bridge = tenant[t].bridge
          /\ tenant'[t].auth = tenant[t].auth
          /\ tenant'[t].state \in {tenant[t].state, "disconnected"}
  BY <1>2 DEF RestoreLoggedIn, RestoreDone, HealthWakes, HealthRoundEnds,
         HealthConnected, HealthFailed, HealthError, HealthAnswered,
         HealthSkips, HealthGivesUp, HealthAsks, IInv, TypeOK, TenantRecords,
         StateAfter
<1>4. \/ loop = "restore_login" /\ loop' = "restoring" /\ todo' = todo
      \/ loop = "restoring" /\ loop' = "sleeping" /\ todo = {} /\ task[Health] = Idle
      \/ loop \in {"sleeping", "scanning", "awaiting"}
  BY DEF RestoreLoggedIn, RestoreDone, HealthWakes, HealthRoundEnds,
         HealthConnected, HealthFailed, HealthError, HealthAnswered,
         HealthSkips, HealthGivesUp, HealthAsks, Visiting, Restoring
<1>5. Restorable'
  <2>1. SUFFICES ASSUME NEW t \in Tenants, tenant'[t].bridge = NoBridge,
                        tenant'[t].state = "connected"
        PROVE  /\ tenant'[t].auth = "creds" /\ t \in todo'
               /\ loop' \in {"restoring", "restore_login", "aborted"}
    BY DEF Restorable
  <2>2. /\ tenant[t].auth = "creds" /\ t \in todo
        /\ loop \in {"restoring", "restore_login", "aborted"}
    BY <1>3, <2>1 DEF CInv, Restorable
  <2>. QED  BY <1>3, <1>4, <2>2
<1>6. HealthCreates'
  BY <1>1, <1>4 DEF CInv, HealthCreates, Idle
<1>. QED  BY <1>1, <1>3, <1>5, <1>6, StillStep

LEMMA BridgeExitsCInv ==
    ASSUME IInv, CInv, NEW b \in Bridges, BridgeExits(b)
    PROVE  CInv'
<1>1. /\ UNCHANGED <<tenant, task, loop, todo>>
      /\ \A c \in Bridges : /\ obj'[c].run = obj[c].run
                            /\ obj'[c].owner = obj[c].owner
                            /\ obj'[c].alive => obj[c].alive
  BY DEF BridgeExits, IInv, TypeOK, BridgeRecords
<1>2. Restorable' /\ HealthCreates'
  BY <1>1 DEF CInv, Restorable, HealthCreates
<1>. QED  BY <1>1, <1>2, StillStep

(* An event changes the state of a tenant whose bridge runs.               *)
LEMMA EventCInv ==
    ASSUME IInv, CInv, NEW b \in Bridges, NEW state, NEW auth,
           SetState(b, state, auth)
    PROVE  /\ obj[b].run = "running" /\ obj[b].owner \in Tenants
           /\ tenant[obj[b].owner].bridge = b
           /\ UNCHANGED <<registered, obj, loop, todo, checking>>
           /\ \A t \in Tenants :
                  /\ tenant'[t].bridge = tenant[t].bridge
                  /\ t # obj[b].owner => tenant'[t] = tenant[t]
           /\ Restorable'
           /\ UNCHANGED task => CInv'
<1>1. /\ obj[b].run = "running" /\ obj[b].owner \in Tenants
      /\ tenant[obj[b].owner].bridge = b
  BY DEF SetState, Heard, IInv, TypeOK, BridgeRecords, CInv, RunningOwned
<1>2. UNCHANGED <<registered, obj, loop, todo, checking>>
  BY DEF SetState
<1>3. \A t \in Tenants : /\ tenant'[t].bridge = tenant[t].bridge
                         /\ t # obj[b].owner => tenant'[t] = tenant[t]
  BY <1>1 DEF SetState, IInv, TypeOK, TenantRecords
<1>4. Restorable'
  <2>1. SUFFICES ASSUME NEW t \in Tenants, tenant'[t].bridge = NoBridge,
                        tenant'[t].state = "connected"
        PROVE  /\ tenant'[t].auth = "creds" /\ t \in todo'
               /\ loop' \in {"restoring", "restore_login", "aborted"}
    BY DEF Restorable
  <2>2. t # obj[b].owner
    BY <1>1, <1>3, <2>1, LifecycleAssumption
  <2>3. tenant'[t] = tenant[t]
    BY <1>3, <2>2
  <2>. QED  BY <1>2, <2>1, <2>3 DEF CInv, Restorable
<1>5. ASSUME UNCHANGED task
      PROVE  CInv'
  <2>1. HealthCreates'
    BY <1>2, <1>5 DEF CInv, HealthCreates
  <2>2. \A t \in Tenants :
            \/ tenant'[t].state = tenant[t].state
            \/ tenant[t].bridge \in Bridges /\ obj[tenant[t].bridge].run = "running"
    BY <1>1, <1>3
  <2>. QED  BY <1>2, <1>3, <1>4, <1>5, <2>1, <2>2, StillStep
<1>. QED  BY <1>1, <1>2, <1>3, <1>4, <1>5

-----------------------------------------------------------------------------
(* What one task's step has to show.  o's old bridge and its new one are   *)
(* the only ones that may change; only t's record may.                     *)
LEMMA TaskPoints ==
    ASSUME IInv, NEW o \in Tasks, NEW new, task' = [task EXCEPT ![o] = new]
    PROVE  /\ task'[o] = new
           /\ \A p \in Tasks \ {o} : task'[p] = task[p]
BY DEF IInv, TypeOK

LEMMA EventDroppedCInv ==
    ASSUME IInv, CInv, NEW b \in Bridges, EventDropped(b)
    PROVE  CInv'
<1> DEFINE t == obj[b].owner
           new == At("reconnect_enter", t, NoBridge)
<1>1. SetState(b, "disconnected", AuthOf(b))
  BY DEF EventDropped
<1>2. /\ obj[b].run = "running" /\ t \in Tenants /\ tenant[t].bridge = b
      /\ UNCHANGED <<registered, obj, loop, todo, checking>>
      /\ \A u \in Tenants : /\ tenant'[u].bridge = tenant[u].bridge
                            /\ u # t => tenant'[u] = tenant[u]
      /\ Restorable'
  BY <1>1, EventCInv
<1>3. tenant'[t].state = "disconnected"
  BY <1>1, <1>2 DEF SetState, IInv, TypeOK, TenantRecords
<1>4. PICK o \in Workers : /\ task[o] = Idle
                           /\ task' = [task EXCEPT ![o] = new]
  BY DEF EventDropped
<1>5. /\ o \in Tasks /\ o # Health
      /\ task'[o] = new
      /\ \A p \in Tasks \ {o} : task'[p] = task[p]
      /\ new.pc = "reconnect_enter" /\ new.t = t /\ new.b = NoBridge
      /\ task[o].pc = "idle"
  <2>1. o \in Tasks /\ o # Health
    BY LifecycleAssumption DEF Tasks
  <2>2. task[o].pc = "idle"
    BY <1>4 DEF Idle
  <2>3. new.pc = "reconnect_enter" /\ new.t = t /\ new.b = NoBridge
    BY DEF At
  <2> HIDE DEF new
  <2>. QED  BY <1>4, <2>1, <2>2, <2>3, TaskPoints
<1> HIDE DEF new
<1>6. /\ NoAdministration' /\ RunningOwned' /\ BridgesDistinct' /\ HealthCreates'
  BY <1>2, <1>5, LifecycleAssumption
     DEF CInv, NoAdministration, RunningOwned, BridgesDistinct, HealthCreates,
         Tasks, StopPoints
<1>7. InHand'
  <2>1. \A p \in Tasks :
            task[p].pc \in Launching \cup {"restart_stop"} => task'[p] = task[p]
    BY <1>5 DEF Launching
  <2>2. InHand
    BY DEF CInv
  <2>. QED  BY <1>2, <2>1, <2>2 DEF InHand
<1>8. CreateOwned' /\ RestartOwned' /\ ReconnectOwned'
  <2>1. \A p \in Tasks : task[p].pc # "idle" => task[p].t \in Tenants
    BY DEF IInv, TaskShape
  <2>2. CreateOwned'
    BY <1>2, <1>3, <1>5, <2>1 DEF CInv, CreateOwned
  <2>3. RestartOwned'
    BY <1>2, <1>5, <2>1 DEF CInv, RestartOwned
  <2>4. ReconnectOwned'
    BY <1>2, <1>5, <2>1 DEF CInv, ReconnectOwned
  <2>. QED  BY <2>2, <2>3, <2>4
<1>. QED  BY <1>2, <1>6, <1>7, <1>8 DEF CInv

(* The facts about other tasks that every step uses.                       *)
LEMMA Others ==
    ASSUME IInv
    PROVE  /\ \A p \in Tasks :
                  /\ task[p].pc # "idle" => task[p].t \in Tenants
                  /\ task[p].pc \in Launching =>
                         task[p].b \in Bridges /\ obj[task[p].b].run = "starting"
                  /\ task[p].pc = "restart_stop" =>
                         task[p].b \in Bridges /\ obj[task[p].b].run = "stopping"
                  /\ task[p].pc \in RestartPoints => tenant[task[p].t].restarting
           /\ \A p, q \in Tasks :
                  task[p].b = task[q].b /\ task[p].b # NoBridge => p = q
           /\ \A p, q \in Tasks :
                  /\ task[p].pc \in RestartPoints /\ task[q].pc \in RestartPoints
                  /\ task[p].t = task[q].t
                  => p = q
           /\ Health \in Tasks
<1>1. \A p \in Tasks :
          /\ task[p].pc # "idle" => task[p].t \in Tenants
          /\ task[p].pc \in Launching \cup Stopping => task[p].b \in Bridges
          /\ task[p].pc \in Launching => obj[task[p].b].run = "starting"
          /\ task[p].pc \in Stopping => obj[task[p].b].run = "stopping"
  BY DEF IInv, TaskShape, BridgeHeld
<1>2. \A p \in Tasks :
          task[p].pc \in RestartPoints => tenant[task[p].t].restarting
  BY <1>1 DEF IInv, RestartExclusive, InRestart, RestartPoints
<1>3. \A p, q \in Tasks : task[p].b = task[q].b /\ task[p].b # NoBridge => p = q
  BY DEF IInv, BridgeHeld
<1>4. \A p, q \in Tasks :
          /\ task[p].pc \in RestartPoints /\ task[q].pc \in RestartPoints
          /\ task[p].t = task[q].t
          => p = q
  BY <1>1 DEF IInv, RestartExclusive, InRestart, RestartPoints
<1>. QED  BY <1>1, <1>2, <1>3, <1>4 DEF Stopping, Tasks

(* get_or_create_bridge for a tenant that has no bridge.                   *)
LEMMA CreateCInv ==
    ASSUME IInv, CInv, NEW o \in Tasks, NEW t \in Tenants, task[o] = Idle,
           tenant[t].bridge = NoBridge,
           CreateBridge(o, t, tenant, obj),
           o # Health => tenant[t].state # "connected",
           o = Health => loop = "restoring" /\ todo' = todo \ {t},
           o # Health => UNCHANGED todo,
           UNCHANGED <<registered, loop, checking>>
    PROVE  CInv'
<1>1. PICK b \in Bridges :
          /\ Unreachable(b)
          /\ obj' = [obj EXCEPT ![b] = Starting(t, tenant[t].mark)]
          /\ tenant' = [tenant EXCEPT ![t].bridge = b]
          /\ task' = [task EXCEPT ![o] = At("create_start", t, b)]
  BY DEF CreateBridge
<1>2. /\ ~obj[b].alive
      /\ \A u \in Tenants : tenant[u].bridge # b
      /\ \A p \in Tasks : task[p].b # b
  BY <1>1 DEF Unreachable
<1>3. /\ obj'[b].run = "starting" /\ ~obj'[b].alive /\ obj'[b].owner = t
      /\ \A c \in Bridges \ {b} : obj'[c] = obj[c]
  BY <1>1 DEF IInv, TypeOK, Starting
<1>4. /\ tenant'[t].bridge = b
      /\ tenant'[t].state = tenant[t].state
      /\ \A u \in Tenants \ {t} : tenant'[u] = tenant[u]
  BY <1>1 DEF IInv, TypeOK, TenantRecords
<1>5. /\ task'[o].pc = "create_start" /\ task'[o].t = t /\ task'[o].b = b
      /\ \A p \in Tasks \ {o} : task'[p] = task[p]
      /\ task[o].pc = "idle"
  <2> DEFINE new == At("create_start", t, b)
  <2>1. new.pc = "create_start" /\ new.t = t /\ new.b = b
    BY DEF At
  <2>2. task[o].pc = "idle"
    BY DEF Idle
  <2>3. task' = [task EXCEPT ![o] = new]
    BY <1>1
  <2> HIDE DEF new
  <2>. QED  BY <2>1, <2>2, <2>3, TaskPoints
<1>6. NoAdministration'
  BY <1>5 DEF CInv, NoAdministration, StopPoints
<1>7. RunningOwned'
  <2>1. RunningOwned
    BY DEF CInv
  <2>2. \A c \in Bridges \ {b} :
            obj[c].run \in {"running", "stopping"} => obj[c].owner # t
    BY <2>1, LifecycleAssumption DEF RunningOwned
  <2>. QED  BY <1>3, <1>4, <2>1, <2>2 DEF RunningOwned
<1>8. InHand'
  <2>1. \A p \in Tasks :
            task[p].pc \in Launching \cup {"restart_stop"} => task'[p] = task[p]
    BY <1>5 DEF Launching
  <2>2. \A c \in Bridges \ {b} :
            /\ obj[c].run = "starting" =>
                   \E p \in Tasks : task'[p].pc \in Launching /\ task'[p].b = c
            /\ obj[c].run = "stopping" =>
                   \E p \in Tasks : task'[p].pc = "restart_stop" /\ task'[p].b = c
    BY <2>1 DEF CInv, InHand
  <2>3. task'[o].pc \in Launching
    BY <1>5 DEF Launching
  <2>. QED  BY <1>3, <1>5, <2>2, <2>3 DEF InHand
<1>9. CreateOwned'
  <2>1. SUFFICES ASSUME NEW p \in Tasks, task'[p].pc = "create_start"
        PROVE  /\ obj'[task'[p].b].owner = task'[p].t
               /\ tenant'[task'[p].t].bridge = task'[p].b
               /\ p # Health => tenant'[task'[p].t].state # "connected"
    BY DEF CreateOwned
  <2>2. CASE p = o
    BY <1>3, <1>4, <1>5, <2>2
  <2>3. CASE p # o
    <3>1. /\ task'[p] = task[p] /\ task[p].pc = "create_start"
          /\ task[p].t \in Tenants /\ task[p].b \in Bridges \ {b}
      BY <1>2, <1>5, <2>1, <2>3, Others DEF Launching
    <3>2. /\ obj[task[p].b].owner = task[p].t
          /\ tenant[task[p].t].bridge = task[p].b
          /\ p # Health => tenant[task[p].t].state # "connected"
      BY <3>1 DEF CInv, CreateOwned
    <3>3. task[p].t # t
      BY <3>1, <3>2, LifecycleAssumption
    <3>. QED  BY <1>3, <1>4, <3>1, <3>2, <3>3
  <2>. QED  BY <2>2, <2>3
<1>10. RestartOwned'
  <2>1. SUFFICES ASSUME NEW p \in Tasks, task'[p].pc \in RestartPoints
        PROVE  LET u == task'[p].t
               IN /\ task'[p].pc = "restart_stop" => tenant'[u].bridge = task'[p].b
                  /\ task'[p].pc \in {"restart_cooldown", "restart_start"} =>
                         /\ tenant'[u].bridge \in Bridges
                         /\ obj'[tenant'[u].bridge].run = "down"
                  /\ task'[p].pc = "restart_start" =>
                         /\ obj'[task'[p].b].owner = u
                         /\ \A v \in Tenants : tenant'[v].bridge # task'[p].b
    BY DEF RestartOwned, RestartPoints
  <2>2. p # o
    BY <1>5, <2>1 DEF RestartPoints
  <2>3. task'[p] = task[p] /\ task[p].t \in Tenants /\ task[p].b # b
    BY <1>2, <1>5, <2>1, <2>2, Others DEF RestartPoints
  <2>4. /\ task[p].pc = "restart_stop" => tenant[task[p].t].bridge = task[p].b
        /\ task[p].pc \in {"restart_cooldown", "restart_start"} =>
               /\ tenant[task[p].t].bridge \in Bridges
               /\ obj[tenant[task[p].t].bridge].run = "down"
        /\ task[p].pc = "restart_start" =>
               /\ obj[task[p].b].owner = task[p].t
               /\ \A v \in Tenants : tenant[v].bridge # task[p].b
    BY DEF CInv, RestartOwned
  <2>5. tenant[task[p].t].bridge \in Bridges
    BY <2>1, <2>3, <2>4, Others DEF RestartPoints
  <2>6. task[p].t # t
    BY <2>5, LifecycleAssumption
  <2>7. task[p].pc = "restart_start" => task[p].b \in Bridges
    BY Others DEF Launching
  <2>. QED  BY <1>2, <1>3, <1>4, <2>3, <2>4, <2>5, <2>6, <2>7
<1>11. ReconnectOwned'
  <2>1. SUFFICES ASSUME NEW p \in Tasks, task'[p].pc = "reconnect_enter"
        PROVE  /\ tenant'[task'[p].t].bridge \in Bridges
               /\ obj'[tenant'[task'[p].t].bridge].run # "starting"
    BY DEF ReconnectOwned
  <2>2. task'[p] = task[p] /\ task[p].t \in Tenants
    BY <1>5, <2>1, Others
  <2>3. /\ tenant[task[p].t].bridge \in Bridges
        /\ obj[tenant[task[p].t].bridge].run # "starting"
    BY <2>1, <2>2 DEF CInv, ReconnectOwned
  <2>4. task[p].t # t
    BY <2>3, LifecycleAssumption
  <2>. QED  BY <1>2, <1>3, <1>4, <2>2, <2>3, <2>4
<1>12. BridgesDistinct'
  BY <1>2, <1>4 DEF CInv, BridgesDistinct
<1>13. Restorable'
  <2>1. SUFFICES ASSUME NEW u \in Tenants, tenant'[u].bridge = NoBridge,
                        tenant'[u].state = "connected"
        PROVE  /\ tenant'[u].auth = "creds" /\ u \in todo'
               /\ loop' \in {"restoring", "restore_login", "aborted"}
    BY DEF Restorable
  <2>2. u # t /\ tenant'[u] = tenant[u]
    BY <1>4, <2>1, LifecycleAssumption
  <2>3. /\ tenant[u].auth = "creds" /\ u \in todo
        /\ loop \in {"restoring", "restore_login", "aborted"}
    BY <2>1, <2>2 DEF CInv, Restorable
  <2>. QED  BY <2>2, <2>3
<1>14. HealthCreates'
  BY <1>5, Others DEF CInv, HealthCreates
<1>. QED  BY <1>6, <1>7, <1>8, <1>9, <1>10, <1>11, <1>12, <1>13, <1>14 DEF CInv

-----------------------------------------------------------------------------
(* A step of task o that creates no bridge for a tenant: b, if any, is the *)
(* bridge it works on, which no other task holds.                          *)
LEMMA OneTaskCInv ==
    ASSUME IInv, CInv, NEW o \in Tasks, NEW new, NEW b,
           task' = [task EXCEPT ![o] = new],
           \A u \in Tenants :
               /\ tenant'[u].bridge = tenant[u].bridge
               /\ tenant'[u].state \in {tenant[u].state, "disconnected"},
           \A c \in Bridges \ {b} : obj'[c] = obj[c],
           task[o].pc \in Launching \cup {"restart_stop"} => task[o].b = b,
           b \in Bridges =>
               /\ \A p \in Tasks \ {o} : task[p].b # b
               /\ \/ obj[b].run # "down" /\ obj'[b].run # "starting"
                  \/ \A u \in Tenants : tenant[u].bridge # b
               /\ obj'[b].alive => obj'[b].run \in {"running", "stopping"}
               /\ obj'[b].run \in {"running", "stopping"} =>
                      obj'[b].owner \in Tenants /\ tenant[obj'[b].owner].bridge = b
               /\ obj'[b].run = "starting" => new.pc \in Launching /\ new.b = b
               /\ obj'[b].run = "stopping" => new.pc = "restart_stop" /\ new.b = b,
           new.pc \in RestartPoints \cup {"idle"},
           new.pc = "restart_stop" => tenant[new.t].bridge = new.b,
           new.pc # "idle" => new.t \in Tenants,
           new.pc \in {"restart_cooldown", "restart_start"} =>
               /\ tenant[new.t].bridge \in Bridges
               /\ obj'[tenant[new.t].bridge].run = "down",
           new.pc = "restart_start" =>
               /\ obj'[new.b].owner = new.t
               /\ \A u \in Tenants : tenant[u].bridge # new.b,
           Restorable', HealthCreates'
    PROVE  CInv'
<1>1. task'[o] = new /\ \A p \in Tasks \ {o} : task'[p] = task[p]
  BY TaskPoints
<1>2. new.pc \notin {"create_start", "reconnect_enter", "settings_save"} \cup StopPoints
  BY DEF RestartPoints, StopPoints
<1>3. NoAdministration'
  BY <1>1, <1>2 DEF CInv, NoAdministration
<1>4. RunningOwned'
  <2>1. SUFFICES ASSUME NEW c \in Bridges
        PROVE  /\ obj'[c].alive => obj'[c].run \in {"running", "stopping"}
               /\ obj'[c].run \in {"running", "stopping"} =>
                      obj'[c].owner \in Tenants /\ tenant'[obj'[c].owner].bridge = c
    BY DEF RunningOwned
  <2>2. CASE c = b
    BY <2>2
  <2>3. CASE c # b
    BY <2>3 DEF CInv, RunningOwned
  <2>. QED  BY <2>2, <2>3
<1>5. InHand'
  <2>1. SUFFICES ASSUME NEW c \in Bridges
        PROVE  /\ obj'[c].run = "starting" =>
                      \E p \in Tasks : task'[p].pc \in Launching /\ task'[p].b = c
               /\ obj'[c].run = "stopping" =>
                      \E p \in Tasks : task'[p].pc = "restart_stop" /\ task'[p].b = c
    BY DEF InHand
  <2>2. CASE c = b
    BY <1>1, <2>2
  <2>3. CASE c # b
    <3>1. obj'[c] = obj[c]
      BY <2>3
    <3>2. \A p \in Tasks :
              /\ task[p].pc \in Launching \cup {"restart_stop"} /\ task[p].b = c
              => task'[p] = task[p]
      BY <1>1, <2>3
    <3>3. /\ obj[c].run = "starting" =>
                  \E p \in Tasks : task[p].pc \in Launching /\ task[p].b = c
          /\ obj[c].run = "stopping" =>
                  \E p \in Tasks : task[p].pc = "restart_stop" /\ task[p].b = c
      BY DEF CInv, InHand
    <3>. QED  BY <3>1, <3>2, <3>3
  <2>. QED  BY <2>2, <2>3
<1>6. CreateOwned'
  <2>1. SUFFICES ASSUME NEW p \in Tasks, task'[p].pc = "create_start"
        PROVE  /\ obj'[task'[p].b].owner = task'[p].t
               /\ tenant'[task'[p].t].bridge = task'[p].b
               /\ p # Health => tenant'[task'[p].t].state # "connected"
    BY DEF CreateOwned
  <2>2. p # o /\ task'[p] = task[p]
    BY <1>1, <1>2, <2>1
  <2>3. task[p].t \in Tenants /\ task[p].b \in Bridges
    BY <2>1, <2>2, Others DEF Launching
  <2>4. /\ obj[task[p].b].owner = task[p].t
        /\ tenant[task[p].t].bridge = task[p].b
        /\ p # Health => tenant[task[p].t].state # "connected"
    BY <2>1, <2>2 DEF CInv, CreateOwned
  <2>5. obj'[task[p].b] = obj[task[p].b]
    BY <2>2, <2>3
  <2>. QED  BY <2>2, <2>3, <2>4, <2>5
<1>7. \A c \in Bridges, u \in Tenants :
          tenant[u].bridge = c =>
              /\ obj[c].run = "down" => obj'[c].run = "down"
              /\ obj[c].run # "starting" => obj'[c].run # "starting"
  OBVIOUS
<1>8. RestartOwned'
  <2>1. SUFFICES ASSUME NEW p \in Tasks, task'[p].pc \in RestartPoints
        PROVE  LET u == task'[p].t
               IN /\ task'[p].pc = "restart_stop" => tenant'[u].bridge = task'[p].b
                  /\ task'[p].pc \in {"restart_cooldown", "restart_start"} =>
                         /\ tenant'[u].bridge \in Bridges
                         /\ obj'[tenant'[u].bridge].run = "down"
                  /\ task'[p].pc = "restart_start" =>
                         /\ obj'[task'[p].b].owner = u
                         /\ \A v \in Tenants : tenant'[v].bridge # task'[p].b
    BY DEF RestartOwned, RestartPoints
  <2>2. CASE p = o
    BY <1>1, <2>1, <2>2 DEF RestartPoints
  <2>3. CASE p # o
    <3>1. task'[p] = task[p] /\ task[p].t \in Tenants
      BY <1>1, <2>1, <2>3, Others DEF RestartPoints
    <3>2. /\ task[p].pc = "restart_stop" => tenant[task[p].t].bridge = task[p].b
          /\ task[p].pc \in {"restart_cooldown", "restart_start"} =>
                 /\ tenant[task[p].t].bridge \in Bridges
                 /\ obj[tenant[task[p].t].bridge].run = "down"
          /\ task[p].pc = "restart_start" =>
                 /\ obj[task[p].b].owner = task[p].t
                 /\ \A v \in Tenants : tenant[v].bridge # task[p].b
      BY DEF CInv, RestartOwned
    <3>3. task[p].pc = "restart_start" =>
              task[p].b \in Bridges /\ obj'[task[p].b] = obj[task[p].b]
      BY <2>3, Others DEF Launching
    <3>. QED  BY <1>7, <3>1, <3>2, <3>3
  <2>. QED  BY <2>2, <2>3
<1>9. ReconnectOwned'
  <2>1. SUFFICES ASSUME NEW p \in Tasks, task'[p].pc = "reconnect_enter"
        PROVE  /\ tenant'[task'[p].t].bridge \in Bridges
               /\ obj'[tenant'[task'[p].t].bridge].run # "starting"
    BY DEF ReconnectOwned
  <2>2. task'[p] = task[p] /\ task[p].t \in Tenants
    BY <1>1, <1>2, <2>1, Others
  <2>3. /\ tenant[task[p].t].bridge \in Bridges
        /\ obj[tenant[task[p].t].bridge].run # "starting"
    BY <2>1, <2>2 DEF CInv, ReconnectOwned
  <2>. QED  BY <1>7, <2>2, <2>3
<1>10. BridgesDistinct'
  BY DEF CInv, BridgesDistinct
<1>. QED  BY <1>3, <1>4, <1>5, <1>6, <1>8, <1>9, <1>10 DEF CInv

(* A new process is up, or could not be started, and its task is over.     *)
LEMMA CreateStartedCInv ==
    ASSUME IInv, CInv, NEW o \in Tasks, CreateStarted(o)
    PROVE  CInv'
<1> DEFINE b == task[o].b
<1>1. /\ task[o].pc = "create_start" /\ b \in Bridges
      /\ obj[b].run = "starting" /\ task[o].t \in Tenants
      /\ \A p \in Tasks \ {o} : task[p].b # b
  BY Others, LifecycleAssumption DEF CreateStarted, Launching
<1>2. /\ obj[b].owner = task[o].t /\ tenant[task[o].t].bridge = b
  BY <1>1 DEF CInv, CreateOwned
<1>3. /\ task' = [task EXCEPT ![o] = Idle]
      /\ UNCHANGED <<tenant, todo>>
  BY DEF CreateStarted
<1>4. /\ obj'[b].run = "running" /\ obj'[b].owner = obj[b].owner
      /\ \A c \in Bridges \ {b} : obj'[c] = obj[c]
  BY <1>1 DEF IInv, TypeOK, BridgeRecords, CreateStarted, Started
<1>5. IF o = Health THEN loop = "restoring" /\ loop' = "restore_login"
                    ELSE loop' = loop
  BY <1>1 DEF CreateStarted, CInv, HealthCreates
<1>6. Restorable'
  BY <1>3, <1>5 DEF CInv, Restorable
<1>7. Idle.pc = "idle"
  BY DEF Idle
<1>8. HealthCreates'
  BY <1>3, <1>5, <1>7, TaskPoints, Others DEF CInv, HealthCreates
<1>9. /\ task[o].pc \in Launching \cup {"restart_stop"} => task[o].b = b
      /\ Idle.pc \notin RestartPoints
  BY <1>7 DEF RestartPoints
<1> HIDE DEF b
<1>10. /\ \A p \in Tasks \ {o} : task[p].b # b
       /\ \/ obj[b].run # "down" /\ obj'[b].run # "starting"
          \/ \A u \in Tenants : tenant[u].bridge # b
       /\ obj'[b].alive => obj'[b].run \in {"running", "stopping"}
       /\ obj'[b].run \in {"running", "stopping"} =>
              obj'[b].owner \in Tenants /\ tenant[obj'[b].owner].bridge = b
       /\ obj'[b].run \notin {"starting", "stopping"}
  BY <1>1, <1>2, <1>4
<1>11. \A u \in Tenants :
           /\ tenant'[u].bridge = tenant[u].bridge
           /\ tenant'[u].state \in {tenant[u].state, "disconnected"}
  BY <1>3
<1>. QED  BY <1>3, <1>4, <1>6, <1>7, <1>8, <1>9, <1>10, <1>11, OneTaskCInv

LEMMA LaunchFailsCInv ==
    ASSUME IInv, CInv, NEW o \in Tasks, CreateFails(o) \/ RestartFails(o)
    PROVE  CInv'
<1> DEFINE b == task[o].b
<1>1. /\ task[o].pc \in Launching /\ b \in Bridges
      /\ obj[b].run = "starting" /\ task[o].t \in Tenants
      /\ \A p \in Tasks \ {o} : task[p].b # b
  <2>1. task[o].pc \in Launching /\ task[o].pc # "idle"
    BY DEF CreateFails, RestartFails, Launching
  <2>. QED  BY <2>1, Others, LifecycleAssumption
<1>2. /\ task' = [task EXCEPT ![o] = Idle]
      /\ UNCHANGED <<loop, todo>>
      /\ obj' = [obj EXCEPT ![b] = Down]
  BY DEF CreateFails, RestartFails, Failed
<1>3. /\ obj'[b].run = "down" /\ ~obj'[b].alive
      /\ \A c \in Bridges \ {b} : obj'[c] = obj[c]
  BY <1>1, <1>2 DEF IInv, TypeOK, Down
<1>4. \A u \in Tenants :
          /\ tenant'[u].bridge = tenant[u].bridge
          /\ tenant'[u].auth = tenant[u].auth
          /\ tenant'[u].state \in {tenant[u].state, "disconnected"}
  BY DEF IInv, TypeOK, TenantRecords, CreateFails, RestartFails
<1>5. Restorable'
  BY <1>2, <1>4 DEF CInv, Restorable
<1>6. Idle.pc = "idle"
  BY DEF Idle
<1>7. HealthCreates'
  BY <1>2, <1>6, TaskPoints, Others DEF CInv, HealthCreates
<1>8. /\ task[o].pc \in Launching \cup {"restart_stop"} => task[o].b = b
      /\ Idle.pc \notin RestartPoints
  BY <1>6 DEF RestartPoints
<1> HIDE DEF b
<1>. QED  BY <1>1, <1>2, <1>3, <1>4, <1>5, <1>6, <1>7, <1>8, OneTaskCInv

LEMMA ReconnectRefusedCInv ==
    ASSUME IInv, CInv, NEW o \in Tasks, ReconnectRefused(o)
    PROVE  CInv'
<1>1. /\ task[o].pc = "reconnect_enter"
      /\ task' = [task EXCEPT ![o] = Idle]
      /\ UNCHANGED <<tenant, obj, loop, todo>>
  BY DEF ReconnectRefused
<1>2. Restorable'
  BY <1>1 DEF CInv, Restorable
<1>3. Idle.pc = "idle"
  BY DEF Idle
<1>4. HealthCreates'
  BY <1>1, <1>3, TaskPoints, Others DEF CInv, HealthCreates
<1>5. /\ task[o].pc \notin Launching \cup {"restart_stop"}
      /\ Idle.pc \notin RestartPoints
  BY <1>1, <1>3 DEF RestartPoints, Launching
<1>. QED  BY <1>1, <1>2, <1>3, <1>4, <1>5, LifecycleAssumption, OneTaskCInv

-----------------------------------------------------------------------------
(* The section of _restart_bridge.                                         *)
LEMMA RestartStoppedCInv ==
    ASSUME IInv, CInv, NEW o \in Tasks, RestartStopped(o)
    PROVE  CInv'
<1> DEFINE b == task[o].b
           t == task[o].t
           new == At("restart_cooldown", t, NoBridge)
<1>1. /\ task[o].pc = "restart_stop" /\ b \in Bridges /\ t \in Tenants
      /\ obj[b].run = "stopping"
      /\ \A p \in Tasks \ {o} : task[p].b # b
  BY Others, LifecycleAssumption DEF RestartStopped
<1>2. tenant[t].bridge = b
  BY <1>1 DEF CInv, RestartOwned
<1>3. /\ task' = [task EXCEPT ![o] = new]
      /\ UNCHANGED <<tenant, loop, todo>>
      /\ obj' = [obj EXCEPT ![b] = Down]
  BY DEF RestartStopped, Stopped
<1>4. /\ obj'[b].run = "down" /\ ~obj'[b].alive
      /\ \A c \in Bridges \ {b} : obj'[c] = obj[c]
  BY <1>1, <1>3 DEF IInv, TypeOK, Down
<1>5. new.pc = "restart_cooldown" /\ new.t = t
  BY DEF At
<1>6. Restorable'
  BY <1>3 DEF CInv, Restorable
<1> HIDE DEF b, t, new
<1>7. HealthCreates'
  BY <1>3, <1>5, TaskPoints, Others DEF CInv, HealthCreates
<1>8. /\ task[o].pc \in Launching \cup {"restart_stop"} => task[o].b = b
      /\ new.pc \in RestartPoints
  BY <1>5 DEF RestartPoints, b
<1>9. /\ \A p \in Tasks \ {o} : task[p].b # b
      /\ \/ obj[b].run # "down" /\ obj'[b].run # "starting"
         \/ \A u \in Tenants : tenant[u].bridge # b
      /\ obj'[b].alive => obj'[b].run \in {"running", "stopping"}
      /\ obj'[b].run \in {"running", "stopping"} =>
             obj'[b].owner \in Tenants /\ tenant[obj'[b].owner].bridge = b
      /\ obj'[b].run \notin {"starting", "stopping"}
  BY <1>1, <1>2, <1>4
<1>10. \A u \in Tenants :
           /\ tenant'[u].bridge = tenant[u].bridge
           /\ tenant'[u].state \in {tenant[u].state, "disconnected"}
  BY <1>3
<1>11. /\ new.pc \notin {"idle", "restart_stop", "restart_start"}
       /\ new.t \in Tenants /\ tenant[new.t].bridge \in Bridges
       /\ obj'[tenant[new.t].bridge].run = "down"
  BY <1>1, <1>2, <1>4, <1>5
<1>. QED  BY <1>3, <1>4, <1>6, <1>7, <1>8, <1>9, <1>10, <1>11, OneTaskCInv

LEMMA RestartCooledDownCInv ==
    ASSUME IInv, CInv, NEW o \in Tasks, RestartCooledDown(o)
    PROVE  CInv'
<1> DEFINE t == task[o].t
<1>1. PICK b \in Bridges :
          /\ Unreachable(b)
          /\ obj' = [obj EXCEPT ![b] = Starting(t, TRUE)]
          /\ task' = [task EXCEPT ![o] = At("restart_start", t, b)]
  BY DEF RestartCooledDown
<1> DEFINE new == At("restart_start", t, b)
<1>2. /\ \A u \in Tenants : tenant[u].bridge # b
      /\ \A p \in Tasks : task[p].b # b
  BY <1>1 DEF Unreachable
<1>3. task[o].pc = "restart_cooldown" /\ t \in Tenants
  BY Others DEF RestartCooledDown
<1>4. tenant[t].bridge \in Bridges /\ obj[tenant[t].bridge].run = "down"
  BY <1>3 DEF CInv, RestartOwned
<1>5. /\ obj'[b].run = "starting" /\ ~obj'[b].alive /\ obj'[b].owner = t
      /\ \A c \in Bridges \ {b} : obj'[c] = obj[c]
  BY <1>1 DEF IInv, TypeOK, Starting
<1>6. /\ task' = [task EXCEPT ![o] = new]
      /\ UNCHANGED <<tenant, loop, todo>>
  BY <1>1 DEF RestartCooledDown
<1>7. new.pc = "restart_start" /\ new.t = t /\ new.b = b
  BY DEF At
<1>8. Restorable'
  BY <1>6 DEF CInv, Restorable
<1> HIDE DEF t, new
<1>9. HealthCreates'
  BY <1>6, <1>7, TaskPoints, Others DEF CInv, HealthCreates
<1>10. /\ task[o].pc \notin Launching \cup {"restart_stop"}
       /\ new.pc \in RestartPoints /\ new.pc \in Launching
  BY <1>3, <1>7 DEF RestartPoints, Launching
<1>11. obj'[tenant[t].bridge].run = "down"
  BY <1>2, <1>3, <1>4, <1>5
<1>. QED  BY <1>2, <1>3, <1>4, <1>5, <1>6, <1>7, <1>8, <1>9, <1>10, <1>11, OneTaskCInv

(* The restarted bridge becomes the tenant's.                              *)
LEMMA RestartStartedCInv ==
    ASSUME IInv, CInv, NEW o \in Tasks, RestartStarted(o)
    PROVE  CInv'
<1> DEFINE b == task[o].b
           t == task[o].t
<1>1. /\ task[o].pc = "restart_start" /\ b \in Bridges /\ t \in Tenants
      /\ obj[b].run = "starting"
      /\ \A p \in Tasks \ {o} : task[p].b # b
  BY Others, LifecycleAssumption DEF RestartStarted, Launching
<1>2. /\ tenant[t].bridge \in Bridges /\ obj[tenant[t].bridge].run = "down"
      /\ obj[b].owner = t
      /\ \A u \in Tenants : tenant[u].bridge # b
  BY <1>1 DEF CInv, RestartOwned
<1>3. /\ UNCHANGED <<loop, todo>>
      /\ task' = [task EXCEPT ![o] = Idle]
  BY DEF RestartStarted
<1>4. /\ obj'[b].run = "running" /\ obj'[b].owner = t
      /\ \A c \in Bridges \ {b} : obj'[c] = obj[c]
  BY <1>1, <1>2 DEF RestartStarted, Started, IInv, TypeOK, BridgeRecords
<1>5. /\ tenant'[t].bridge = b
      /\ \A u \in Tenants \ {t} : tenant'[u] = tenant[u]
  BY <1>1 DEF RestartStarted, IInv, TypeOK, TenantRecords
<1>6. /\ task'[o].pc = "idle"
      /\ \A p \in Tasks \ {o} : task'[p] = task[p]
  <2>1. Idle.pc = "idle"
    BY DEF Idle
  <2>. QED  BY <1>3, <2>1, TaskPoints
<1> HIDE DEF b, t
<1>7. NoAdministration'
  BY <1>6 DEF CInv, NoAdministration, StopPoints
<1>8. RunningOwned'
  <2>1. SUFFICES ASSUME NEW c \in Bridges
        PROVE  /\ obj'[c].alive => obj'[c].run \in {"running", "stopping"}
               /\ obj'[c].run \in {"running", "stopping"} =>
                      obj'[c].owner \in Tenants /\ tenant'[obj'[c].owner].bridge = c
    BY DEF RunningOwned
  <2>2. CASE c = b
    BY <1>1, <1>4, <1>5, <2>2
  <2>3. CASE c # b
    <3>1. /\ obj[c].alive => obj[c].run \in {"running", "stopping"}
          /\ obj[c].run \in {"running", "stopping"} =>
                 obj[c].owner \in Tenants /\ tenant[obj[c].owner].bridge = c
      BY DEF CInv, RunningOwned
    <3>2. obj[c].run \in {"running", "stopping"} => obj[c].owner # t
      BY <1>2, <3>1
    <3>. QED  BY <1>4, <1>5, <2>3, <3>1, <3>2
  <2>. QED  BY <2>2, <2>3
<1>9. InHand'
  <2>1. \A p \in Tasks, c \in Bridges \ {b} :
            task[p].pc \in Launching \cup {"restart_stop"} /\ task[p].b = c
            => task'[p] = task[p]
    BY <1>1, <1>6 DEF b
  <2>2. \A c \in Bridges :
            /\ obj[c].run = "starting" =>
                   \E p \in Tasks : task[p].pc \in Launching /\ task[p].b = c
            /\ obj[c].run = "stopping" =>
                   \E p \in Tasks : task[p].pc = "restart_stop" /\ task[p].b = c
    BY DEF CInv, InHand
  <2>3. SUFFICES ASSUME NEW c \in Bridges, c # b
        PROVE  /\ obj[c].run = "starting" =>
                      \E p \in Tasks : task'[p].pc \in Launching /\ task'[p].b = c
               /\ obj[c].run = "stopping" =>
                      \E p \in Tasks : task'[p].pc = "restart_stop" /\ task'[p].b = c
    BY <1>4 DEF InHand
  <2>. QED  BY <2>1, <2>2, <2>3
<1>10. CreateOwned'
  <2>1. SUFFICES ASSUME NEW p \in Tasks, task'[p].pc = "create_start"
        PROVE  /\ obj'[task'[p].b].owner = task'[p].t
               /\ tenant'[task'[p].t].bridge = task'[p].b
               /\ p # Health => tenant'[task'[p].t].state # "connected"
    BY DEF CreateOwned
  <2>2. p # o /\ task'[p] = task[p]
    BY <1>6, <2>1
  <2>3. /\ task[p].t \in Tenants /\ task[p].b \in Bridges
        /\ obj[task[p].b].run = "starting"
    BY <2>1, <2>2, Others DEF Launching
  <2>4. /\ obj[task[p].b].owner = task[p].t
        /\ tenant[task[p].t].bridge = task[p].b
        /\ p # Health => tenant[task[p].t].state # "connected"
    BY <2>1, <2>2 DEF CInv, CreateOwned
  <2>5. task[p].t # t /\ task[p].b # b
    BY <1>1, <1>2, <2>2, <2>3, <2>4
  <2>. QED  BY <1>4, <1>5, <2>2, <2>3, <2>4, <2>5
<1>11. RestartOwned'
  <2>1. SUFFICES ASSUME NEW p \in Tasks, task'[p].pc \in RestartPoints
        PROVE  LET u == task'[p].t
               IN /\ task'[p].pc = "restart_stop" => tenant'[u].bridge = task'[p].b
                  /\ task'[p].pc \in {"restart_cooldown", "restart_start"} =>
                         /\ tenant'[u].bridge \in Bridges
                         /\ obj'[tenant'[u].bridge].run = "down"
                  /\ task'[p].pc = "restart_start" =>
                         /\ obj'[task'[p].b].owner = u
                         /\ \A v \in Tenants : tenant'[v].bridge # task'[p].b
    BY DEF RestartOwned, RestartPoints
  <2>2. p # o /\ task'[p] = task[p] /\ task[p].pc \in RestartPoints
    BY <1>6, <2>1 DEF RestartPoints
  <2>3. task[p].t \in Tenants
    BY <2>2, Others DEF RestartPoints
  <2>4. task[p].t # t
    BY <1>1, <2>2, Others DEF RestartPoints, t
  <2>5. /\ task[p].pc = "restart_stop" => tenant[task[p].t].bridge = task[p].b
        /\ task[p].pc \in {"restart_cooldown", "restart_start"} =>
               /\ tenant[task[p].t].bridge \in Bridges
               /\ obj[tenant[task[p].t].bridge].run = "down"
        /\ task[p].pc = "restart_start" =>
               /\ obj[task[p].b].owner = task[p].t
               /\ \A v \in Tenants : tenant[v].bridge # task[p].b
    BY DEF CInv, RestartOwned
  <2>6. task[p].b # b /\ (task[p].pc = "restart_start" => task[p].b \in Bridges)
    BY <1>1, <2>2, Others DEF Launching
  <2>. QED  BY <1>2, <1>4, <1>5, <2>2, <2>3, <2>4, <2>5, <2>6
<1>12. ReconnectOwned'
  <2>1. SUFFICES ASSUME NEW p \in Tasks, task'[p].pc = "reconnect_enter"
        PROVE  /\ tenant'[task'[p].t].bridge \in Bridges
               /\ obj'[tenant'[task'[p].t].bridge].run # "starting"
    BY DEF ReconnectOwned
  <2>2. task'[p] = task[p] /\ task[p].t \in Tenants
    BY <1>6, <2>1, Others
  <2>3. /\ tenant[task[p].t].bridge \in Bridges
        /\ obj[tenant[task[p].t].bridge].run # "starting"
    BY <2>1, <2>2 DEF CInv, ReconnectOwned
  <2>4. CASE task[p].t = t
    BY <1>1, <1>4, <1>5, <2>2, <2>4
  <2>5. CASE task[p].t # t
    BY <1>2, <1>4, <1>5, <2>2, <2>3, <2>5
  <2>. QED  BY <2>4, <2>5
<1>13. BridgesDistinct'
  BY <1>2, <1>5 DEF CInv, BridgesDistinct
<1>14. Restorable'
  <2>1. SUFFICES ASSUME NEW u \in Tenants, tenant'[u].bridge = NoBridge,
                        tenant'[u].state = "connected"
        PROVE  /\ tenant'[u].auth = "creds" /\ u \in todo'
               /\ loop' \in {"restoring", "restore_login", "aborted"}
    BY DEF Restorable
  <2>2. tenant'[u] = tenant[u]
    BY <1>1, <1>5, <2>1, LifecycleAssumption
  <2>. QED  BY <1>3, <2>1, <2>2 DEF CInv, Restorable
<1>15. HealthCreates'
  BY <1>3, <1>6, Others DEF CInv, HealthCreates
<1>. QED  BY <1>7, <1>8, <1>9, <1>10, <1>11, <1>12, <1>13, <1>14, <1>15 DEF CInv

(* _restart_bridge up to its first await, by a task that waits for nothing *)
(* yet.  The bridge is down or running: were it stopping, the tenant would *)
(* be restarting already.                                                  *)
LEMMA BeginRestartCInv ==
    ASSUME IInv, CInv, NEW o \in Tasks, NEW t \in Tenants, BeginRestart(o, t),
           task[o].pc \in {"idle", "reconnect_enter"},
           tenant[t].bridge \in Bridges,
           obj[tenant[t].bridge].run # "starting",
           todo' = todo \/ loop = "scanning"
    PROVE  CInv'
<1> DEFINE b == tenant[t].bridge
<1>1. \A u \in Tenants :
          /\ tenant'[u].bridge = tenant[u].bridge
          /\ tenant'[u].auth = tenant[u].auth
          /\ tenant'[u].state = tenant[u].state
  BY DEF BeginRestart, IInv, TypeOK, TenantRecords
<1>2. task[o].pc \notin Launching \cup {"restart_stop"}
  BY DEF Launching
<1>3. obj[b].run \in {"down", "running"}
  <2>1. obj[b].run \in {"down", "starting", "running", "stopping"}
    BY DEF IInv, TypeOK, BridgeRecords
  <2>2. ASSUME obj[b].run = "stopping"
        PROVE  FALSE
    <3>1. PICK p \in Tasks : task[p].pc = "restart_stop" /\ task[p].b = b
      BY <2>2 DEF CInv, InHand
    <3>2. task[p].t \in Tenants /\ tenant[task[p].t].bridge = b
      BY <3>1, Others DEF CInv, RestartOwned
    <3>3. task[p].t = t
      BY <3>2, LifecycleAssumption DEF CInv, BridgesDistinct
    <3>. QED  BY <3>1, <3>3, Others DEF BeginRestart, MayBegin, RestartPoints
  <2>. QED  BY <2>1, <2>2
<1>4. loop' = loop \/ loop \in {"awaiting", "restore_login"}
  BY DEF BeginRestart, BeginStop, IInv, CallShape, NoCall
<1>5. loop' \in {loop, "dead", "aborted"} /\ (loop = "awaiting" => loop' \in {loop, "dead"})
  BY DEF BeginRestart, BeginStop
<1>6. Restorable'
  <2>1. SUFFICES ASSUME NEW u \in Tenants, tenant'[u].bridge = NoBridge,
                        tenant'[u].state = "connected"
        PROVE  /\ tenant'[u].auth = "creds" /\ u \in todo'
               /\ loop' \in {"restoring", "restore_login", "aborted"}
    BY DEF Restorable
  <2>2. /\ tenant[u].auth = "creds" /\ u \in todo
        /\ loop \in {"restoring", "restore_login", "aborted"}
    BY <1>1, <2>1 DEF CInv, Restorable
  <2>3. todo' = todo
    BY <2>2
  <2>4. loop' \in {"restoring", "restore_login", "aborted"}
    BY <1>4, <1>5, <2>2 DEF BeginRestart, BeginStop
  <2>. QED  BY <1>1, <2>2, <2>3, <2>4
<1>7. ASSUME NEW new, task' = [task EXCEPT ![o] = new], new.pc # "create_start"
      PROVE  HealthCreates'
  BY <1>4, <1>7, TaskPoints, Others DEF CInv, HealthCreates
<1>8. CASE obj[b].run = "running"
  <2> DEFINE new == At("restart_stop", t, b)
  <2>1. /\ task' = [task EXCEPT ![o] = new]
        /\ obj' = [obj EXCEPT ![b].run = "stopping"]
    BY <1>8, LifecycleAssumption DEF BeginRestart, BeginStop
  <2>2. new.pc = "restart_stop" /\ new.t = t /\ new.b = b
    BY DEF At
  <2>3. /\ obj'[b].run = "stopping" /\ obj'[b].owner = obj[b].owner
        /\ \A c \in Bridges \ {b} : obj'[c] = obj[c]
    BY <2>1 DEF IInv, TypeOK, BridgeRecords
  <2>4. \A p \in Tasks \ {o} : task[p].b # b
    BY <1>8 DEF IInv, TaskShape, BridgeHeld
  <2>5. obj[b].owner \in Tenants /\ tenant[obj[b].owner].bridge = b
    BY <1>8 DEF CInv, RunningOwned
  <2>6. new.pc \in RestartPoints
    BY <2>2 DEF RestartPoints
  <2> HIDE DEF new, b
  <2>7. HealthCreates'
    BY <1>7, <2>1, <2>2
  <2>8. /\ obj[b].run # "down" /\ obj'[b].run # "starting"
        /\ obj'[b].alive => obj'[b].run \in {"running", "stopping"}
        /\ obj'[b].run \in {"running", "stopping"} =>
               obj'[b].owner \in Tenants /\ tenant[obj'[b].owner].bridge = b
    BY <1>8, <2>3, <2>5
  <2>9. tenant[new.t].bridge = new.b
    BY <2>2 DEF b
  <2>10. /\ new.pc \notin {"restart_cooldown", "restart_start", "idle"}
         /\ new.t \in Tenants
         /\ obj'[b].run = "stopping" => new.pc = "restart_stop" /\ new.b = b
         /\ obj'[b].run # "starting"
    BY <2>2, <2>3
  <2>11. \A u \in Tenants :
             /\ tenant'[u].bridge = tenant[u].bridge
             /\ tenant'[u].state \in {tenant[u].state, "disconnected"}
    BY <1>1
  <2>. QED  BY <1>2, <1>6, <2>1, <2>3, <2>4, <2>6, <2>7, <2>8, <2>9, <2>10, <2>11,
               OneTaskCInv
<1>9. CASE obj[b].run = "down"
  <2> DEFINE new == At("restart_cooldown", t, NoBridge)
  <2>1. task' = [task EXCEPT ![o] = new] /\ UNCHANGED obj
    BY <1>9 DEF BeginRestart
  <2>2. new.pc = "restart_cooldown" /\ new.t = t
    BY DEF At
  <2>3. new.pc \in RestartPoints
    BY <2>2 DEF RestartPoints
  <2> HIDE DEF new
  <2>4. HealthCreates'
    BY <1>7, <2>1, <2>2
  <2>5. tenant[new.t].bridge \in Bridges /\ obj'[tenant[new.t].bridge].run = "down"
    BY <1>9, <2>1, <2>2
  <2>. QED  BY <1>1, <1>2, <1>6, <2>1, <2>2, <2>3, <2>4, <2>5, LifecycleAssumption,
               OneTaskCInv
<1>. QED  BY <1>3, <1>8, <1>9

LEMMA HealthRestartsCInv ==
    ASSUME IInv, CInv, NEW t \in Tenants, HealthRestarts(t)
    PROVE  CInv'
<1> DEFINE b == tenant[t].bridge
<1>1. /\ Health \in Tasks /\ task[Health].pc = "idle" /\ loop = "scanning"
      /\ tenant[t].state = "connected" /\ BeginRestart(Health, t)
  BY Others DEF HealthRestarts, Visiting, Monitored, Idle
<1>2. b \in Bridges
  BY DEF HealthRestarts, Monitored, IInv, TypeOK, TenantRecords
<1>3. ASSUME obj[b].run = "starting"
      PROVE  FALSE
  <2>1. PICK p \in Tasks : task[p].pc \in Launching /\ task[p].b = b
    BY <1>2, <1>3 DEF CInv, InHand
  <2>2. task[p].t \in Tenants
    BY <2>1, Others DEF Launching
  <2>3. CASE task[p].pc = "create_start"
    <3>1. tenant[task[p].t].bridge = b /\ tenant[task[p].t].state # "connected"
      BY <1>1, <2>1, <2>3 DEF CInv, CreateOwned
    <3>2. task[p].t = t
      BY <1>2, <2>2, <3>1, LifecycleAssumption DEF CInv, BridgesDistinct
    <3>. QED  BY <1>1, <3>1, <3>2
  <2>4. CASE task[p].pc = "restart_start"
    BY <2>1, <2>4 DEF CInv, RestartOwned
  <2>. QED  BY <2>1, <2>3, <2>4 DEF Launching
<1>. QED  BY <1>1, <1>2, <1>3, BeginRestartCInv

LEMMA EnterReconnectCInv ==
    ASSUME IInv, CInv, NEW o \in Tasks, EnterReconnect(o)
    PROVE  CInv'
<1>1. /\ task[o].pc = "reconnect_enter" /\ BeginRestart(o, task[o].t)
      /\ todo' = todo /\ task[o].t \in Tenants
  BY Others DEF EnterReconnect
<1>2. /\ tenant[task[o].t].bridge \in Bridges
      /\ obj[tenant[task[o].t].bridge].run # "starting"
  BY <1>1 DEF CInv, ReconnectOwned
<1>. QED  BY <1>1, <1>2, BeginRestartCInv

-----------------------------------------------------------------------------
LEMMA RestoreTenantCInv ==
    ASSUME IInv, CInv, NEW t \in Tenants, RestoreTenant(t)
    PROVE  CInv'
<1>1. /\ Health \in Tasks /\ task[Health] = Idle /\ loop = "restoring"
      /\ todo' = todo \ {t} /\ UNCHANGED <<registered, loop, checking>>
  BY Others DEF RestoreTenant, Restoring
<1>2. CASE tenant[t].auth = "creds" /\ tenant[t].bridge = NoBridge
  BY <1>1, <1>2, CreateCInv DEF RestoreTenant
<1>3. CASE ~(tenant[t].auth = "creds" /\ tenant[t].bridge = NoBridge)
  <2>1. UNCHANGED <<tenant, obj, task>>
    BY <1>3 DEF RestoreTenant
  <2>2. Restorable'
    BY <1>1, <1>3, <2>1 DEF CInv, Restorable
  <2>3. HealthCreates'
    BY <1>1, <2>1 DEF CInv, HealthCreates
  <2>. QED  BY <2>1, <2>2, <2>3, StillStep
<1>. QED  BY <1>2, <1>3

LEMMA CallCInv ==
    ASSUME IInv, CInv, loop # "aborted",
           NEW o \in Workers, NEW t \in Tenants, Call(o, t)
    PROVE  CInv'
<1>1. /\ o \in Tasks /\ o # Health /\ task[o] = Idle
      /\ tenant[t].bridge = NoBridge
      /\ loop \notin {"restoring", "restore_login", "aborted"}
      /\ CreateBridge(o, t, tenant, obj)
      /\ UNCHANGED <<registered, loop, todo, checking>>
  BY LifecycleAssumption DEF Call, Request, Serving, Tasks
<1>2. tenant[t].state # "connected"
  BY <1>1 DEF CInv, Restorable
<1>. QED  BY <1>1, <1>2, CreateCInv

(* The invariant of the system without administration.                     *)
LEMMA CoreStep ==
    ASSUME Requests \subseteq {"call"}, IInv, CInv, [Next]_vars
    PROVE  CInv'
<1>1. CASE UNCHANGED vars
  BY <1>1 DEF vars, CInv, NoAdministration, RunningOwned, InHand, CreateOwned,
              RestartOwned, ReconnectOwned, BridgesDistinct, Restorable, HealthCreates
<1>2. ASSUME Next
      PROVE  CInv'
  <2>1. loop # "aborted" /\ Step
    BY <1>2 DEF Next
  <2>2. CASE Lifespan
    BY <2>1, <2>2, LoopCInv, RestoreTenantCInv, HealthRestartsCInv DEF Lifespan
  <2>3. ASSUME NEW o \in Tasks, Resume(o)
        PROVE  CInv'
    <3>1. task[o].pc \notin StopPoints \cup {"settings_save"}
      BY DEF CInv, NoAdministration
    <3>2. ~StopReturns(o) /\ ~SettingSaved(o)
      BY <3>1 DEF StopReturns, SettingSaved
    <3>. QED  BY <2>3, <3>2, CreateStartedCInv, LaunchFailsCInv, RestartStoppedCInv,
                 RestartCooledDownCInv, RestartStartedCInv, EnterReconnectCInv,
                 ReconnectRefusedCInv
              DEF Resume
  <2>4. ASSUME NEW b \in Bridges, BridgeExits(b) \/ BridgeEvent(b)
        PROVE  CInv'
    <3>1. CASE BridgeExits(b)
      BY <3>1, BridgeExitsCInv
    <3>2. CASE EventDropped(b)
      BY <3>2, EventDroppedCInv
    <3>3. CASE \E state, auth : SetState(b, state, auth) /\ UNCHANGED task
      BY <3>3, EventCInv
    <3>. QED  BY <2>4, <3>1, <3>2, <3>3
              DEF BridgeEvent, EventConnected, EventConnecting, EventAuthUpdate,
                  EventLoggedOut, EventDisconnected
  <2>5. ASSUME NEW o \in Workers, NEW t \in Tenants, Client(o, t)
        PROVE  CInv'
    <3>1. Call(o, t)
      BY <2>5 DEF Client, Reconnect, ChangeSetting, Clear, DisableTenant,
                  DeleteTenant, Request
    <3>. QED  BY <2>1, <3>1, CallCInv
  <2>. QED  BY <2>1, <2>2, <2>3, <2>4, <2>5 DEF Step
<1>. QED  BY <1>1, <1>2 DEF Next

THEOREM CoreInvariant ==
    ASSUME Requests \subseteq {"call"}
    PROVE  CleanSpec => [](IInv /\ CInv)
<1>1. Init /\ CleanDatabase => CInv
  BY InitCInv
<1>2. IInv /\ CInv /\ [Next]_vars => CInv'
  BY CoreStep
<1>3. CleanSpec => []IInv
  BY LifecycleInvariant, PTL DEF CleanSpec, CleanInit, Spec
<1>. QED  BY <1>1, <1>2, <1>3, PTL DEF CleanSpec, CleanInit

(* Without administration a live process is always the one its tenant      *)
(* points to: no crash, event, restart or health check loses one.          *)
THEOREM NoOrphanHolds ==
    ASSUME Requests \subseteq {"call"}
    PROVE  CleanSpec => []NoOrphan
<1>1. CInv => NoOrphan
  BY DEF CInv, RunningOwned, NoOrphan
<1>. QED  BY <1>1, CoreInvariant, PTL

(* ARCHITECTURE_REVIEW.md:658: without administration no two live          *)
(* processes share a tenant and its auth directory.                        *)
THEOREM OwnBridgeHolds ==
    ASSUME Requests \subseteq {"call"}
    PROVE  CleanSpec => []OwnBridge
<1>1. CInv => OwnBridge
  BY DEF CInv, RunningOwned, OwnBridge
<1>. QED  BY <1>1, CoreInvariant, PTL
=============================================================================
