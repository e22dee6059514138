----------------------- MODULE RestartGovernorProofs -----------------------
(***************************************************************************)
(* Proofs about RestartGovernor for every number of tenants and every      *)
(* value of the settings: the type invariant, and from one inductive       *)
(* invariant the restart budget, the spacing and the completeness of the   *)
(* history.                                                                *)
(***************************************************************************)
EXTENDS RestartGovernor, FiniteSetTheorems, TLAPS

(* Restart times never decrease and never lie in the future.               *)
Chronological ==
    \A t \in Tenants :
        \A i \in 1 .. Len(restarts[t]) :
            /\ restarts[t][i] <= now
            /\ \A j \in i .. Len(restarts[t]) : restarts[t][i] <= restarts[t][j]

HistoryInRange ==
    \A t \in Tenants : history[t] \subseteq 1 .. Len(restarts[t])

(* Outside the section the last restart's cooldown is over.                *)
CooledDown ==
    \A t \in Tenants :
        ~restarting[t] =>
            \A i \in 1 .. Len(restarts[t]) : now >= restarts[t][i] + RestartCooldown

IInv ==
    /\ TypeOK
    /\ Chronological
    /\ HistoryInRange
    /\ CooledDown
    /\ HistoryComplete
    /\ RestartBudget
    /\ RestartSpacing

-----------------------------------------------------------------------------
(* What the admission test counts is a finite set of restart numbers.      *)
LEMMA CountedFinite ==
    ASSUME TypeOK, HistoryInRange, NEW t \in Tenants
    PROVE  /\ Counted(t) \subseteq 1 .. Len(restarts[t])
           /\ IsFiniteSet(Counted(t))
           /\ Cardinality(Counted(t)) \in Nat
<1>1. Counted(t) \subseteq 1 .. Len(restarts[t])
  BY DEF Counted, Recent, HistoryInRange
<1>2. IsFiniteSet(1 .. Len(restarts[t]))
  <2>1. Len(restarts[t]) \in Int
    BY DEF TypeOK
  <2>. QED  BY <2>1, FS_Interval
<1>3. IsFiniteSet(Counted(t))
  BY <1>1, <1>2, FS_Subset
<1>. QED  BY <1>1, <1>3, FS_CardinalityType

(* can_restart counts every restart of a registered tenant that is inside  *)
(* the window, with or without a cleanup.                                  *)
LEMMA CountedComplete ==
    ASSUME TypeOK, HistoryComplete, NEW t \in Tenants, t \in registered,
           NEW i \in 1 .. Len(restarts[t]), restarts[t][i] > now - RestartWindow
    PROVE  i \in Counted(t)
BY DEF Counted, CleanedHistory, Recent, HistoryComplete, TypeOK

(* A pruned or cleaned history still holds what lies inside the window.    *)
LEMMA CleanedComplete ==
    ASSUME TypeOK, HistoryComplete, HistoryInRange, NEW t \in Tenants
    PROVE  /\ CleanedHistory \in [Tenants -> SUBSET (Nat \ {0})]
           /\ CleanedHistory[t] \subseteq 1 .. Len(restarts[t])
           /\ t \in registered =>
                \A i \in 1 .. Len(restarts[t]) :
                    restarts[t][i] > now - RestartWindow => i \in CleanedHistory[t]
BY DEF CleanedHistory, Recent, HistoryComplete, HistoryInRange, TypeOK

(* The budget's core: if fewer than MaxRestartAttempts restarts are        *)
(* counted, the restart MaxRestartAttempts places back has left the window. *)
LEMMA AdmittedMeansRoom ==
    ASSUME TypeOK, Chronological, HistoryInRange, HistoryComplete,
           NEW t \in Tenants, t \in registered, CanRestart(t),
           NEW i \in 1 .. Len(restarts[t]),
           i + MaxRestartAttempts = Len(restarts[t]) + 1
    PROVE  now >= restarts[t][i] + RestartWindow
<1> DEFINE n == Len(restarts[t])
<1>1. n \in Nat /\ i \in Nat /\ now \in Nat /\ RestartWindow \in Nat
        /\ restarts[t][i] \in Nat
  BY GovernorAssumption DEF TypeOK
<1>2. SUFFICES ASSUME restarts[t][i] > now - RestartWindow
               PROVE  FALSE
  BY <1>1
<1>3. i .. n \subseteq Counted(t)
  <2>1. SUFFICES ASSUME NEW j \in i .. n
                 PROVE  j \in Counted(t)
    OBVIOUS
  <2>2. j \in 1 .. n /\ restarts[t][j] > now - RestartWindow
    <3>1. j \in 1 .. n
      BY <1>1
    <3>2. restarts[t][i] <= restarts[t][j]
      BY DEF Chronological
    <3>3. restarts[t][j] \in Nat
      BY <3>1 DEF TypeOK
    <3>. QED  BY <1>1, <1>2, <3>1, <3>2, <3>3
  <2>. QED  BY <2>2, CountedComplete
<1>4. Cardinality(i .. n) = MaxRestartAttempts
  <2>1. i <= n /\ n - i + 1 = MaxRestartAttempts
    BY <1>1, GovernorAssumption
  <2>2. i \in Int /\ n \in Int
    BY <1>1
  <2>3. Cardinality(i .. n) = IF i > n THEN 0 ELSE n - i + 1
    BY <2>2, FS_Interval
  <2>. QED  BY <1>1, <2>1, <2>3
<1>5. Cardinality(i .. n) <= Cardinality(Counted(t))
  BY <1>3, CountedFinite, FS_Subset
<1>. QED  BY <1>4, <1>5, CountedFinite, GovernorAssumption DEF CanRestart

-----------------------------------------------------------------------------
LEMMA InitIInv == Init => IInv
BY GovernorAssumption
   DEF Init, IInv, TypeOK, Chronological, HistoryInRange, CooledDown,
       HistoryComplete, RestartBudget, RestartSpacing

LEMMA TickIInv == IInv /\ Tick => IInv'
BY GovernorAssumption
   DEF Tick, IInv, TypeOK, Chronological, HistoryInRange, CooledDown,
       HistoryComplete, RestartBudget, RestartSpacing

LEMMA DeleteIInv ==
    ASSUME IInv, NEW t \in Tenants, DeleteTenant(t)
    PROVE  IInv'
BY DEF DeleteTenant, IInv, TypeOK, Chronological, HistoryInRange, CooledDown,
       HistoryComplete, RestartBudget, RestartSpacing

(* The section ends only once the last restart, hence every restart, has    *)
(* cooled down.                                                            *)
LEMMA EndIInv ==
    ASSUME IInv, NEW t \in Tenants, EndRestart(t)
    PROVE  IInv'
<1>1. TypeOK' /\ Chronological' /\ HistoryInRange' /\ HistoryComplete'
        /\ RestartBudget' /\ RestartSpacing'
  BY DEF EndRestart, IInv, TypeOK, Chronological, HistoryInRange,
         HistoryComplete, RestartBudget, RestartSpacing
<1>2. CooledDown'
  <2>1. SUFFICES ASSUME NEW u \in Tenants, ~restarting'[u],
                        NEW i \in 1 .. Len(restarts[u])
                 PROVE  now >= restarts[u][i] + RestartCooldown
    BY DEF CooledDown, EndRestart
  <2>2. CASE u # t
    BY <2>1, <2>2 DEF IInv, CooledDown, EndRestart, TypeOK
  <2>3. CASE u = t
    <3>1. Len(restarts[t]) \in i .. Len(restarts[t])
      BY <2>3 DEF IInv, TypeOK
    <3>2. restarts[t][i] <= restarts[t][Len(restarts[t])]
      BY <2>3, <3>1 DEF IInv, Chronological
    <3>3. restarts[t][i] \in Nat /\ restarts[t][Len(restarts[t])] \in Nat
      BY <2>3 DEF IInv, TypeOK
    <3>. QED  BY <2>3, <3>2, <3>3, GovernorAssumption DEF EndRestart, IInv, TypeOK
  <2>. QED  BY <2>2, <2>3
<1>. QED  BY <1>1, <1>2 DEF IInv

LEMMA RefuseIInv ==
    ASSUME IInv, NEW t \in Tenants, RefuseRestart(t)
    PROVE  IInv'
<1>. USE DEF IInv
<1>1. /\ now' = now /\ registered' = registered
      /\ restarts' = restarts /\ restarting' = restarting
  BY DEF RefuseRestart
<1>2. \A u \in Tenants : history'[u] = CleanedHistory[u] \/ (u = t /\ history'[u] = Counted(t))
  BY CleanedComplete DEF RefuseRestart
<1>3. history' \in [Tenants -> SUBSET (Nat \ {0})]
  <2>1. Counted(t) \subseteq Nat \ {0}
    BY CountedFinite DEF TypeOK
  <2>. QED  BY <2>1, CleanedComplete DEF RefuseRestart
<1>4. lastCleanup' \in Nat
  BY DEF RefuseRestart, CleanedAt, TypeOK
<1>5. TypeOK'
  BY <1>1, <1>3, <1>4 DEF TypeOK
<1>6. HistoryInRange'
  BY <1>1, <1>2, CleanedComplete, CountedFinite DEF HistoryInRange
<1>7. HistoryComplete'
  <2>1. SUFFICES ASSUME NEW u \in registered, NEW i \in 1 .. Len(restarts[u]),
                        restarts[u][i] > now - RestartWindow
                 PROVE  i \in history'[u]
    BY <1>1 DEF HistoryComplete
  <2>2. u \in Tenants
    BY DEF TypeOK
  <2>. QED  BY <1>2, <2>1, <2>2, CleanedComplete, CountedComplete
<1>8. Chronological' /\ CooledDown' /\ RestartBudget' /\ RestartSpacing'
  BY <1>1 DEF Chronological, CooledDown, RestartBudget, RestartSpacing
<1>. QED  BY <1>5, <1>6, <1>7, <1>8

(* Admission is the step the other conjuncts exist for: the appended time   *)
(* must respect the budget and the spacing.                                *)
LEMMA BeginIInv ==
    ASSUME IInv, NEW t \in Tenants, BeginRestart(t)
    PROVE  IInv'
<1> DEFINE n == Len(restarts[t])
<1>. USE DEF IInv
<1>1. /\ now' = now /\ registered' = registered
      /\ now \in Nat /\ n \in Nat
      /\ restarts[t] \in Seq(Nat)
      /\ restarting' = [restarting EXCEPT ![t] = TRUE]
  BY DEF BeginRestart, TypeOK
<1>2. /\ restarts' \in [Tenants -> Seq(Nat)]
      /\ \A u \in Tenants \ {t} : restarts'[u] = restarts[u]
      /\ Len(restarts'[t]) = n + 1
      /\ \A i \in 1 .. n : restarts'[t][i] = restarts[t][i]
      /\ restarts'[t][n + 1] = now
  BY <1>1 DEF BeginRestart, TypeOK
<1>3. /\ history'[t] = Counted(t) \cup {n + 1}
      /\ \A u \in Tenants \ {t} : history'[u] = CleanedHistory[u]
      /\ history' \in [Tenants -> SUBSET (Nat \ {0})]
  <2>1. Counted(t) \subseteq Nat \ {0}
    BY CountedFinite DEF TypeOK
  <2>2. CleanedHistory \in [Tenants -> SUBSET (Nat \ {0})]
    BY CleanedComplete
  <2>. QED  BY <1>1, <2>1, <2>2 DEF BeginRestart
<1>4. TypeOK'
  BY <1>1, <1>2, <1>3 DEF BeginRestart, CleanedAt, TypeOK
<1>5. HistoryInRange'
  <2>1. SUFFICES ASSUME NEW u \in Tenants
                 PROVE  history'[u] \subseteq 1 .. Len(restarts'[u])
    BY DEF HistoryInRange
  <2>2. CASE u = t
    <3>1. Counted(t) \subseteq 1 .. n
      BY CountedFinite
    <3>. QED  BY <1>1, <1>2, <1>3, <2>2, <3>1
  <2>3. CASE u # t
    BY <1>2, <1>3, <2>3, CleanedComplete
  <2>. QED  BY <2>2, <2>3
<1>6. Chronological'
  <2>1. SUFFICES ASSUME NEW u \in Tenants, NEW i \in 1 .. Len(restarts'[u])
                 PROVE  /\ restarts'[u][i] <= now
                        /\ \A j \in i .. Len(restarts'[u]) :
                              restarts'[u][i] <= restarts'[u][j]
    BY <1>1 DEF Chronological
  <2>2. CASE u # t
    BY <1>2, <2>2 DEF Chronological
  <2>3. CASE u = t /\ i = n + 1
    <3>1. \A j \in i .. Len(restarts'[u]) : j = n + 1
      BY <1>1, <1>2, <2>3
    <3>. QED  BY <1>1, <1>2, <2>3, <3>1
  <2>4. CASE u = t /\ i \in 1 .. n
    <3>1. restarts[t][i] <= now /\ \A j \in i .. n : restarts[t][i] <= restarts[t][j]
      BY <2>4 DEF Chronological
    <3>2. \A j \in i .. n + 1 : j = n + 1 \/ (j \in i .. n /\ j \in 1 .. n)
      <4>1. i \in Int /\ 1 <= i /\ i <= n
        BY <1>1, <2>4
      <4>2. SUFFICES ASSUME NEW j \in i .. n + 1, j # n + 1
                     PROVE  j \in i .. n /\ j \in 1 .. n
        OBVIOUS
      <4>3. n \in Int /\ j \in Int /\ i <= j /\ j <= n
        BY <1>1, <4>1, <4>2, SMTT(30)
      <4>. QED  BY <4>1, <4>3
    <3>. QED  BY <1>2, <2>4, <3>1, <3>2
  <2>. QED  BY <1>1, <1>2, <2>2, <2>3, <2>4
<1>7. CooledDown'
  BY <1>1, <1>2 DEF CooledDown, TypeOK
<1>8. HistoryComplete'
  <2>1. SUFFICES ASSUME NEW u \in registered, NEW i \in 1 .. Len(restarts'[u]),
                        restarts'[u][i] > now - RestartWindow
                 PROVE  i \in history'[u]
    BY <1>1 DEF HistoryComplete
  <2>2. u \in Tenants
    BY DEF TypeOK
  <2>3. CASE u # t
    BY <1>2, <1>3, <2>1, <2>2, <2>3, CleanedComplete
  <2>4. CASE u = t /\ i = n + 1
    BY <1>3, <2>4
  <2>5. CASE u = t /\ i \in 1 .. n
    BY <1>2, <1>3, <2>1, <2>5, CountedComplete
  <2>. QED  BY <1>1, <1>2, <2>2, <2>3, <2>4, <2>5
<1>9. RestartBudget'
  <2>1. SUFFICES ASSUME NEW u \in registered,
                        NEW i \in 1 .. Len(restarts'[u]) - MaxRestartAttempts
                 PROVE  restarts'[u][i + MaxRestartAttempts]
                            >= restarts'[u][i] + RestartWindow
    BY <1>1 DEF RestartBudget
  <2>2. u \in Tenants
    BY DEF TypeOK
  <2>3. CASE u # t
    BY <1>2, <2>2, <2>3 DEF RestartBudget
  <2>4. CASE u = t
    <3>1. MaxRestartAttempts > 0
      BY CountedFinite, GovernorAssumption DEF BeginRestart, CanRestart
    <3>2. i \in 1 .. n /\ restarts'[t][i] = restarts[t][i]
      BY <1>1, <1>2, <2>4, <3>1, GovernorAssumption
    <3>3. CASE i + MaxRestartAttempts = n + 1
      BY <1>2, <2>4, <3>2, <3>3, AdmittedMeansRoom DEF BeginRestart
    <3>4. CASE i + MaxRestartAttempts # n + 1
      <4>1. i \in 1 .. n - MaxRestartAttempts /\ i + MaxRestartAttempts \in 1 .. n
        <5>1. Len(restarts'[u]) = n + 1
          BY <1>2, <2>4
        <5>2. i \in Int /\ 1 <= i /\ i + MaxRestartAttempts <= n
          BY <1>1, <3>4, <5>1, GovernorAssumption
        <5>. QED  BY <1>1, <3>1, <5>2, GovernorAssumption
      <4>. QED  BY <1>2, <2>4, <3>2, <4>1 DEF RestartBudget
    <3>. QED  BY <3>3, <3>4
  <2>. QED  BY <2>3, <2>4
<1>10. RestartSpacing'
  <2>1. SUFFICES ASSUME NEW u \in Tenants, NEW i \in 1 .. Len(restarts'[u]) - 1
                 PROVE  restarts'[u][i + 1] >= restarts'[u][i] + RestartCooldown
    BY DEF RestartSpacing
  <2>2. CASE u # t
    BY <1>2, <2>2 DEF RestartSpacing
  <2>3. CASE u = t /\ i = n
    BY <1>1, <1>2, <2>1, <2>3 DEF CooledDown, BeginRestart
  <2>4. CASE u = t /\ i # n
    <3>1. i \in Int /\ 1 <= i /\ i <= n - 1
      <4>1. Len(restarts'[u]) = n + 1
        BY <1>2, <2>4
      <4>. QED  BY <1>1, <2>4, <4>1
    <3>2. i \in 1 .. n - 1 /\ i \in 1 .. n /\ i + 1 \in 1 .. n
      BY <1>1, <3>1
    <3>. QED  BY <1>2, <2>4, <3>2 DEF RestartSpacing
  <2>. QED  BY <2>2, <2>3, <2>4
<1>. QED  BY <1>4, <1>5, <1>6, <1>7, <1>8, <1>9, <1>10

(* The inductive invariant: what the history remembers, the order of the    *)
(* restart times and the two limits, together.                             *)
THEOREM GovernorInvariant == Spec => []IInv
<1>1. IInv /\ UNCHANGED vars => IInv'
  BY DEF vars, IInv, TypeOK, Chronological, HistoryInRange, CooledDown,
         HistoryComplete, RestartBudget, RestartSpacing
<1>2. IInv /\ [Next]_vars => IInv'
  <2>1. SUFFICES ASSUME IInv, [Next]_vars
                 PROVE  IInv'
    OBVIOUS
  <2>2. CASE Tick
    BY <2>1, <2>2, TickIInv
  <2>3. ASSUME NEW t \in Tenants, BeginRestart(t)
        PROVE  IInv'
    BY <2>1, <2>3, BeginIInv
  <2>4. ASSUME NEW t \in Tenants, RefuseRestart(t)
        PROVE  IInv'
    BY <2>1, <2>4, RefuseIInv
  <2>5. ASSUME NEW t \in Tenants, EndRestart(t)
        PROVE  IInv'
    BY <2>1, <2>5, EndIInv
  <2>6. ASSUME NEW t \in Tenants, DeleteTenant(t)
        PROVE  IInv'
    BY <2>1, <2>6, DeleteIInv
  <2>7. CASE UNCHANGED vars
    BY <1>1, <2>1, <2>7
  <2>. QED  BY <2>1, <2>2, <2>3, <2>4, <2>5, <2>6, <2>7 DEF Next
<1>. QED  BY InitIInv, <1>2, PTL DEF Spec

(* Every state of the governor is well typed.                              *)
THEOREM GovernorTypeCorrect == Spec => []TypeOK
<1>1. IInv => TypeOK
  BY DEF IInv
<1>. QED  BY <1>1, GovernorInvariant, PTL

(* No registered tenant is ever restarted more than MaxRestartAttempts      *)
(* times within a window, for any window, limit and cleanup interval.      *)
THEOREM RestartBudgetHolds == Spec => []RestartBudget
<1>1. IInv => RestartBudget
  BY DEF IInv
<1>. QED  BY <1>1, GovernorInvariant, PTL

(* Restarts of one tenant are at least a cooldown apart.                   *)
THEOREM RestartSpacingHolds == Spec => []RestartSpacing
<1>1. IInv => RestartSpacing
  BY DEF IInv
<1>. QED  BY <1>1, GovernorInvariant, PTL

(* Pruning and the hourly cleanup never forget a restart that still counts. *)
THEOREM HistoryCompleteHolds == Spec => []HistoryComplete
<1>1. IInv => HistoryComplete
  BY DEF IInv
<1>. QED  BY <1>1, GovernorInvariant, PTL
=============================================================================
