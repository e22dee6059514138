-------------------------- MODULE RestartGovernor --------------------------
(***************************************************************************)
(* The rate limit on automatic bridge restarts: TenantManager.can_restart, *)
(* record_restart and _cleanup_restart_history                             *)
(* (src/src/tenant/__init__.py) under the protocol by which                *)
(* _restart_bridge (src/src/main.py) uses them: the check and the record   *)
(* run without an await between them, and the cooldown sleep happens while *)
(* tenant._restarting is set.                                              *)
(*                                                                         *)
(* A restart is identified by its number among the tenant's restarts, so   *)
(* the list of timestamps in _restart_history is the set of the numbers it *)
(* still remembers; a missing key is the empty set.                        *)
(***************************************************************************)
EXTENDS Integers, Sequences, FiniteSets

CONSTANTS
    Tenants,             \* api_key_hash values
    MaxRestartAttempts,  \* settings.max_restart_attempts
    RestartWindow,       \* settings.restart_window_seconds
    RestartCooldown,     \* settings.restart_cooldown_seconds
    CleanupInterval,     \* RESTART_HISTORY_CLEANUP_INTERVAL
    AutoRestart,         \* settings.auto_restart_bridge
    Horizon              \* bound on the clock, for TLC

ASSUME GovernorAssumption ==
    /\ MaxRestartAttempts \in Nat
    /\ RestartWindow \in Nat
    /\ RestartCooldown \in Nat
    /\ CleanupInterval \in Nat
    /\ AutoRestart \in BOOLEAN
    /\ Horizon \in Nat

VARIABLES
    now,          \* datetime.now(UTC)
    registered,   \* keys of TenantManager._tenants
    restarts,     \* tenant -> times of all its recorded restarts, oldest first
    history,      \* tenant -> the restarts that _restart_history remembers
    lastCleanup,  \* TenantManager._last_cleanup
    restarting    \* tenant -> tenant._restarting

vars == <<now, registered, restarts, history, lastCleanup, restarting>>

Init ==
    /\ now = 0
    /\ registered = Tenants
    /\ restarts = [t \in Tenants |-> <<>>]
    /\ history = [t \in Tenants |-> {}]
    /\ lastCleanup = 0
    /\ restarting = [t \in Tenants |-> FALSE]

-----------------------------------------------------------------------------
(* The remembered restarts of t that are younger than the window.          *)
Recent(t) == {i \in history[t] : restarts[t][i] > now - RestartWindow}

CleanupDue == now - lastCleanup >= CleanupInterval

\* Mutant: the cleanup drops the keys that are registered.
CleanedHistoryInverted ==
    IF CleanupDue
    THEN [t \in Tenants |-> IF t \in registered THEN {} ELSE Recent(t)]
    ELSE history

(* The histories after _cleanup_restart_history.                           *)
CleanedHistory ==
    IF CleanupDue
    THEN [t \in Tenants |-> IF t \in registered THEN Recent(t) ELSE {}]
    ELSE history

CleanedAt == IF CleanupDue THEN now ELSE lastCleanup

(* What can_restart counts for t: the cleaned history, pruned again.       *)
Counted(t) == CleanedHistory[t] \cap Recent(t)

\* Mutant: the limit compared with <= instead of <.
CanRestartOneTooMany(t) ==
    AutoRestart /\ Cardinality(Counted(t)) <= MaxRestartAttempts

CanRestart(t) == AutoRestart /\ Cardinality(Counted(t)) < MaxRestartAttempts

\* Mutant: the new restart is remembered under its predecessor's number.
BeginRestartMisnumbered(t) ==
    /\ ~restarting[t]
    /\ CanRestart(t)
    /\ restarting' = [restarting EXCEPT ![t] = TRUE]
    /\ restarts' = [restarts EXCEPT ![t] = Append(@, now)]
    /\ history' = [CleanedHistory EXCEPT
                      ![t] = Counted(t) \cup {Len(restarts[t])}]
    /\ lastCleanup' = CleanedAt
    /\ UNCHANGED <<now, registered>>

(* _restart_bridge up to its first await: can_restart, _restarting and     *)
(* record_restart.  The tenant object may have left the registry already:  *)
(* the health loop and reconnect tasks hold on to it.                      *)
BeginRestart(t) ==
    /\ ~restarting[t]
    /\ CanRestart(t)
    /\ restarting' = [restarting EXCEPT ![t] = TRUE]
    /\ restarts' = [restarts EXCEPT ![t] = Append(@, now)]
    /\ history' = [CleanedHistory EXCEPT
                      ![t] = Counted(t) \cup {Len(restarts[t]) + 1}]
    /\ lastCleanup' = CleanedAt
    /\ UNCHANGED <<now, registered>>

(* can_restart returns False; it has still cleaned up and, unless automatic *)
(* restarts are switched off, stored the pruned list.                      *)
RefuseRestart(t) ==
    /\ ~restarting[t]
    /\ ~CanRestart(t)
    /\ history' = IF AutoRestart
                  THEN [CleanedHistory EXCEPT ![t] = Counted(t)]
                  ELSE CleanedHistory
    /\ lastCleanup' = CleanedAt
    /\ UNCHANGED <<now, registered, restarts, restarting>>

\* Mutant: the section ends without waiting for the cooldown.
EndRestartEarly(t) ==
    /\ restarting[t]
    /\ restarting' = [restarting EXCEPT ![t] = FALSE]
    /\ UNCHANGED <<now, registered, restarts, history, lastCleanup>>

(* The rest of _restart_bridge, whether the new bridge starts or not: it    *)
(* cannot be reached before the cooldown sleep is over.                    *)
EndRestart(t) ==
    /\ restarting[t]
    /\ now >= restarts[t][Len(restarts[t])] + RestartCooldown
    /\ restarting' = [restarting EXCEPT ![t] = FALSE]
    /\ UNCHANGED <<now, registered, restarts, history, lastCleanup>>

DeleteTenant(t) ==
    /\ t \in registered
    /\ registered' = registered \ {t}
    /\ UNCHANGED <<now, restarts, history, lastCleanup, restarting>>

Tick ==
    /\ now < Horizon
    /\ now' = now + 1
    /\ UNCHANGED <<registered, restarts, history, lastCleanup, restarting>>

Next ==
    \/ Tick
    \/ \E t \in Tenants : \/ BeginRestart(t)
                          \/ RefuseRestart(t)
                          \/ EndRestart(t)
                          \/ DeleteTenant(t)

Spec == Init /\ [][Next]_vars

-----------------------------------------------------------------------------
TypeOK ==
    /\ now \in Nat
    /\ registered \subseteq Tenants
    /\ restarts \in [Tenants -> Seq(Nat)]
    /\ history \in [Tenants -> SUBSET (Nat \ {0})]
    /\ lastCleanup \in Nat
    /\ restarting \in [Tenants -> BOOLEAN]

(* "Max restart attempts in window" (README.md:166): of a tenant that is    *)
(* still registered, any MaxRestartAttempts + 1 successive restarts span    *)
(* at least the window, whatever pruning and the hourly cleanup forget.     *)
RestartBudget ==
    \A t \in registered :
        \A i \in 1 .. Len(restarts[t]) - MaxRestartAttempts :
            restarts[t][i + MaxRestartAttempts] >= restarts[t][i] + RestartWindow

(* "Cooldown between restart attempts" (README.md:168): two restarts of one *)
(* tenant are never recorded closer together than the cooldown, because the *)
(* sleep is inside the section that _restarting protects.                   *)
RestartSpacing ==
    \A t \in Tenants :
        \A i \in 1 .. Len(restarts[t]) - 1 :
            restarts[t][i + 1] >= restarts[t][i] + RestartCooldown

(* The history never forgets a restart of a registered tenant that is still *)
(* inside the window.                                                      *)
HistoryComplete ==
    \A t \in registered :
        \A i \in 1 .. Len(restarts[t]) :
            restarts[t][i] > now - RestartWindow => i \in history[t]
=============================================================================
