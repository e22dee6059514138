----------------------- MODULE SharedConnectionProofs -----------------------
(***************************************************************************)
(* What SQLite's shared connection guarantees, for any number of jobs of    *)
(* each kind, whether statements fail or not.                              *)
(***************************************************************************)
EXTENDS SharedConnection, TLAPS

Safe(j, k) == Mark(j, k) \in committed \cup lost

Kept(j, k) == Mark(j, k) \in working \/ Safe(j, k)

(* What a job has executed is in the transaction, in the database, or was   *)
(* discarded by another job; it commits only after its last statement.      *)
Accounted(j) ==
    /\ pc[j] = "ready" => step[j] = 0
    /\ pc[j] \in {"run", "commit"} => \A k \in 1 .. 4 : k <= step[j] => Kept(j, k)
    /\ pc[j] = "commit" => step[j] \in Closing(j)
    /\ pc[j] = "done" => \A k \in Statements(j) : Safe(j, k)

Executed == \A j \in Jobs : Accounted(j)

(* A job that may still fail has an attempt left.                          *)
AttemptLeft ==
    \A j \in Jobs : pc[j] \in {"ready", "run", "commit"} => tries[j] < Attempts

IInv ==
    /\ TypeOK
    /\ AttemptLeft
    /\ Executed
    /\ Whole
    /\ OpenOwned

-----------------------------------------------------------------------------
LEMMA StatementsTyped ==
    ASSUME NEW j \in Jobs
    PROVE  /\ Last(j) \in 1 .. 4
           /\ Statements(j) \subseteq 1 .. 4
           /\ Closing(j) \subseteq Statements(j)
           /\ j \notin Purgers => Closing(j) = {Last(j)}
<1>1. Last(j) \in 1 .. 4
  BY DEF Last
<1>2. Statements(j) = 1 .. Last(j)
  BY DEF Statements
<1>. QED  BY <1>1, <1>2 DEF Closing

LEMMA MarkTyped ==
    \A j \in Jobs : \A k \in 1 .. 4 : Mark(j, k) \in Marks /\ Mark(j, k)[1] = j
BY DEF Mark, Marks

LEMMA InitIInv == Init => IInv
<1>. SUFFICES ASSUME Init PROVE IInv
  OBVIOUS
<1>1. TypeOK /\ AttemptLeft
  <2>1. 0 \in 0 .. Attempts /\ 0 < Attempts
    BY ConnectionAssumption
  <2>2. \A j \in Jobs : pc[j] = "ready" /\ tries[j] = 0
    BY DEF Init
  <2>3. pc \in [Jobs -> {"ready"} \cup Transit \cup Ended]
    BY DEF Init
  <2>4. step \in [Jobs -> 0 .. 4] /\ tries \in [Jobs -> 0 .. Attempts]
    BY <2>1 DEF Init
  <2>5. TypeOK
    BY <2>3, <2>4 DEF Init, TypeOK
  <2>. QED  BY <2>1, <2>2, <2>5 DEF AttemptLeft
<1>2. Executed
  <2>. SUFFICES ASSUME NEW j \in Jobs PROVE Accounted(j)
    BY DEF Executed
  <2>1. pc[j] = "ready" /\ step[j] = 0
    BY DEF Init
  <2>. QED  BY <2>1 DEF Accounted
<1>3. Whole /\ OpenOwned
  BY DEF Init, Whole, OpenOwned
<1>. QED  BY <1>1, <1>2, <1>3 DEF IInv

-----------------------------------------------------------------------------
(* Type correctness, with the attempts.                                    *)
LEMMA TypeStep ==
    ASSUME TypeOK, AttemptLeft, [Next]_vars
    PROVE  TypeOK' /\ AttemptLeft'
<1>. USE DEF TypeOK, AttemptLeft, Transit, Ended
<1>. DEFINE Left == {"ready", "run", "commit"}
<1>1. ASSUME NEW j \in Jobs, Begin(j) \/ BeginFails(j)
      PROVE  TypeOK' /\ AttemptLeft'
  BY <1>1 DEF Begin, BeginFails, Goes
<1>2. ASSUME NEW j \in Jobs, Execute(j)
      PROVE  TypeOK' /\ AttemptLeft'
  <2>1. step[j] + 1 \in 1 .. 4
    BY <1>2, StatementsTyped DEF Execute
  <2>2. working' \subseteq Marks
    BY <1>2, <2>1, MarkTyped DEF Execute
  <2>. QED  BY <1>2, <2>1, <2>2 DEF Execute, Goes
<1>3. ASSUME NEW j \in Jobs, Fails(j) \/ Retries(j), pc[j] \in Left
      PROVE  /\ pc' \in [Jobs -> {"ready"} \cup Transit \cup Ended]
             /\ step' \in [Jobs -> 0 .. 4]
             /\ tries' \in [Jobs -> 0 .. Attempts]
             /\ AttemptLeft'
  <2>1. tries[j] + 1 \in 0 .. Attempts
    BY <1>3, ConnectionAssumption
  <2>2. step' = [step EXCEPT ![j] = 0]
    BY <1>3 DEF Fails, Retries
  <2>3. CASE Retries(j)
    BY <2>1, <2>2, <2>3, ConnectionAssumption DEF Retries, MayRetry, Goes
  <2>4. CASE Fails(j)
    <3>1. tries' = [tries EXCEPT ![j] = 0] /\ (Goes(j, "rollback") \/ Goes(j, "failed"))
      BY <2>4 DEF Fails
    <3>. QED  BY <2>2, <3>1, ConnectionAssumption DEF Goes
  <2>. QED  BY <1>3, <2>3, <2>4
<1>4. ASSUME NEW j \in Jobs, ExecuteFails(j) \/ CommitFails(j)
      PROVE  TypeOK' /\ AttemptLeft'
  <2>1. (Fails(j) \/ Retries(j)) /\ pc[j] \in Left
    BY <1>4 DEF ExecuteFails, CommitFails, KeepsOpen
  <2>2. UNCHANGED <<committed, taken>>
    BY <1>4 DEF ExecuteFails, CommitFails
  <2>3. working' \subseteq Marks /\ lost' \subseteq Marks /\ open' \in BOOLEAN
    BY <1>4 DEF ExecuteFails, CommitFails, KeepsOpen, Discards, Foreign
  <2>. QED  BY <1>3, <2>1, <2>2, <2>3
<1>5. ASSUME NEW j \in Jobs, Commit(j) \/ Rollback(j)
      PROVE  TypeOK' /\ AttemptLeft'
  BY <1>5 DEF Commit, Rollback, Discards, Goes, Foreign
<1>6. ASSUME Crash
      PROVE  TypeOK' /\ AttemptLeft'
  <2>1. /\ pc' = [j \in Jobs |-> IF pc[j] \in Transit THEN "gone" ELSE pc[j]]
        /\ step' = [j \in Jobs |-> IF pc[j] \in Transit THEN 0 ELSE step[j]]
        /\ tries' = [j \in Jobs |-> IF pc[j] \in Transit THEN 0 ELSE tries[j]]
        /\ working' = {} /\ open' = FALSE /\ UNCHANGED <<committed, taken, lost>>
    BY <1>6 DEF Crash
  <2>2. /\ pc' \in [Jobs -> {"ready"} \cup Transit \cup Ended]
        /\ step' \in [Jobs -> 0 .. 4]
        /\ tries' \in [Jobs -> 0 .. Attempts]
    BY <2>1, ConnectionAssumption
  <2>. QED  BY <2>1, <2>2
<1>7. CASE UNCHANGED vars
  BY <1>7 DEF vars
<1>. QED  BY <1>1, <1>2, <1>4, <1>5, <1>6, <1>7 DEF Next, Job

(* A job that does nothing, while others only move its marks on.           *)
LEMMA Undisturbed ==
    ASSUME NEW i \in Jobs, Accounted(i),
           pc'[i] = pc[i], step'[i] = step[i],
           \A k \in 1 .. 4 : Safe(i, k) => Safe(i, k)',
           pc[i] \in {"run", "commit"} => \A k \in 1 .. 4 : Kept(i, k) => Kept(i, k)'
    PROVE  Accounted(i)'
<1>1. Statements(i) \subseteq 1 .. 4
  BY StatementsTyped
<1>2. (pc[i] \in {"run", "commit"})' => \A k \in 1 .. 4 : k <= step'[i] => Kept(i, k)'
  BY DEF Accounted
<1>3. (pc[i] = "done")' => \A k \in Statements(i) : Safe(i, k)'
  BY <1>1 DEF Accounted
<1>4. (pc[i] = "ready" => step[i] = 0)' /\ (pc[i] = "commit" => step[i] \in Closing(i))'
  BY DEF Accounted
<1>. QED  BY <1>2, <1>3, <1>4 DEF Accounted

LEMMA ExecutedStep ==
    ASSUME TypeOK, Executed, [Next]_vars
    PROVE  Executed'
<1>. USE DEF TypeOK, Transit, Ended
<1>1. ASSUME NEW j \in Jobs, NEW i \in Jobs, Job(j), i # j
      PROVE  Accounted(i)'
  <2>1. Accounted(i) /\ pc'[i] = pc[i] /\ step'[i] = step[i]
    BY <1>1 DEF Executed, Job, Begin, BeginFails, Execute, ExecuteFails, Commit,
       CommitFails, Rollback, KeepsOpen, Fails, Retries, Goes
  <2>2. ASSUME NEW k \in 1 .. 4
        PROVE  /\ Safe(i, k) => Safe(i, k)'
               /\ pc[i] \in {"run", "commit"} /\ Kept(i, k) => Kept(i, k)'
    <3>1. Mark(i, k)[1] # j
      BY <1>1, MarkTyped
    <3>2. CASE UNCHANGED <<committed, working, lost>>
      BY <3>2 DEF Kept, Safe
    <3>3. CASE Execute(j)
      BY <3>3 DEF Execute, Kept, Safe
    <3>4. CASE Commit(j)
      BY <3>4 DEF Commit, Kept, Safe
    <3>5. CASE Discards(j) /\ UNCHANGED committed
      <4>1. Safe(i, k) => Safe(i, k)'
        BY <3>5 DEF Discards, Safe
      <4>2. pc[i] \in {"run", "commit"} /\ Mark(i, k) \in working => Safe(i, k)'
        BY <3>1, <3>5, MarkTyped DEF Discards, Foreign, Safe
      <4>. QED  BY <4>1, <4>2 DEF Kept
    <3>. QED  BY <1>1, <3>2, <3>3, <3>4, <3>5 DEF Job, Begin, BeginFails, ExecuteFails,
              CommitFails, Rollback, KeepsOpen
  <2>. QED  BY <2>1, <2>2, Undisturbed
<1>2. ASSUME NEW j \in Jobs, Job(j)
      PROVE  Accounted(j)'
  <2>. Accounted(j)
    BY DEF Executed
  <2>1. CASE Begin(j)
    BY <2>1 DEF Begin, Goes, Accounted
  <2>2. CASE BeginFails(j) \/ Rollback(j)
    BY <2>2 DEF BeginFails, Rollback, Goes, Accounted
  <2>3. CASE ExecuteFails(j) \/ CommitFails(j)
    <3>1. step'[j] = 0 /\ pc'[j] \in {"rollback", "failed", "run"}
      BY <2>3 DEF ExecuteFails, CommitFails, KeepsOpen, Fails, Retries, Goes
    <3>. QED  BY <3>1 DEF Accounted
  <2>4. CASE Execute(j)
    <3>1. pc'[j] = (IF step[j] + 1 \in Closing(j) THEN "commit" ELSE "run") /\ step'[j] = step[j] + 1
      BY <2>4 DEF Execute, Goes
    <3>2. ASSUME NEW k \in 1 .. 4, k <= step[j] + 1
          PROVE  Kept(j, k)'
      <4>1. CASE k = step[j] + 1
        BY <2>4, <4>1 DEF Execute, Kept
      <4>2. CASE k <= step[j]
        <5>1. Kept(j, k)
          BY <2>4, <4>2 DEF Execute, Accounted
        <5>. QED  BY <2>4, <5>1 DEF Execute, Kept, Safe
      <4>. QED  BY <3>2, <4>1, <4>2
    <3>. QED  BY <3>1, <3>2 DEF Accounted
  <2>5. CASE Commit(j)
    <3>1. /\ pc'[j] = (IF step[j] = Last(j) THEN "done" ELSE "run")
          /\ step'[j] = step[j]
      BY <2>5 DEF Commit, Goes
    <3>2. ASSUME NEW k \in 1 .. 4, k <= step[j]
          PROVE  Safe(j, k)' /\ Kept(j, k)'
      <4>1. Kept(j, k)
        BY <2>5, <3>2 DEF Commit, Accounted
      <4>. QED  BY <2>5, <4>1 DEF Commit, Kept, Safe
    <3>3. step[j] = Last(j) => \A k \in Statements(j) : k \in 1 .. 4 /\ k <= step[j]
      BY StatementsTyped DEF Statements
    <3>. QED  BY <3>1, <3>2, <3>3 DEF Accounted
  <2>. QED  BY <1>2, <2>1, <2>2, <2>3, <2>4, <2>5 DEF Job
<1>3. ASSUME Crash, NEW i \in Jobs
      PROVE  Accounted(i)'
  <2>. Accounted(i)
    BY DEF Executed
  <2>1. /\ pc'[i] = (IF pc[i] \in Transit THEN "gone" ELSE pc[i])
        /\ step'[i] = (IF pc[i] \in Transit THEN 0 ELSE step[i])
        /\ UNCHANGED <<committed, lost>>
    BY <1>3 DEF Crash
  <2>. QED  BY <2>1 DEF Accounted, Safe
<1>4. ASSUME UNCHANGED vars, NEW i \in Jobs
      PROVE  Accounted(i)'
  BY <1>4 DEF vars, Executed, Accounted, Kept, Safe
<1>. QED  BY <1>1, <1>2, <1>3, <1>4 DEF Next, Executed

(* Whoever commits the statements of another job takes them.               *)
LEMMA WholeStep ==
    ASSUME TypeOK, Executed, Whole, [Next]_vars
    PROVE  Whole'
<1>. USE DEF TypeOK, Transit, Ended
<1>1. SUFFICES ASSUME NEW i \in Jobs \ Purgers, (pc[i] # "done")', NEW k \in Statements(i),
                      (Mark(i, k) \in committed)'
               PROVE  Mark(i, k) \in taken'
  BY DEF Whole
<1>2. i \in Jobs /\ Mark(i, k)[1] = i
  BY StatementsTyped, MarkTyped
<1>3. ASSUME NEW j \in Jobs, Commit(j)
      PROVE  Mark(i, k) \in taken'
  <2>1. i # j /\ pc[i] # "done"
    BY <1>1, <1>2, <1>3, StatementsTyped DEF Commit, Goes, Executed, Accounted
  <2>2. CASE Mark(i, k) \in committed
    BY <1>3, <2>1, <2>2 DEF Commit, Whole
  <2>3. CASE Mark(i, k) \in working
    BY <1>2, <1>3, <2>1, <2>3 DEF Commit, Foreign
  <2>. QED  BY <1>1, <1>3, <2>2, <2>3 DEF Commit
<1>4. ASSUME UNCHANGED <<committed, taken>>, pc[i] # "done"
      PROVE  Mark(i, k) \in taken'
  BY <1>1, <1>4 DEF Whole
<1>5. ASSUME NEW j \in Jobs, Job(j), ~Commit(j)
      PROVE  UNCHANGED <<committed, taken>> /\ pc[i] # "done"
  <2>1. UNCHANGED <<committed, taken>>
    BY <1>5 DEF Job, Begin, BeginFails, Execute, ExecuteFails, CommitFails, Rollback
  <2>2. pc[j] # "done" /\ (i # j => pc'[i] = pc[i])
    BY <1>2, <1>5 DEF Job, Begin, BeginFails, Execute, ExecuteFails, CommitFails, Rollback,
       KeepsOpen, Fails, Retries, Goes
  <2>. QED  BY <1>1, <2>1, <2>2
<1>6. ASSUME Crash
      PROVE  UNCHANGED <<committed, taken>> /\ pc[i] # "done"
  BY <1>1, <1>2, <1>6 DEF Crash
<1>7. ASSUME UNCHANGED vars
      PROVE  UNCHANGED <<committed, taken>> /\ pc[i] # "done"
  BY <1>1, <1>7 DEF vars
<1>. QED  BY <1>3, <1>4, <1>5, <1>6, <1>7 DEF Next

(* Whoever opens the transaction is in transit, and whoever leaves transit  *)
(* closes it, except a plain write that fails.                             *)
LEMMA OpenStep ==
    ASSUME TypeOK, OpenOwned, [Next]_vars
    PROVE  OpenOwned'
<1>. USE DEF TypeOK, Transit, Ended
<1>1. ASSUME NEW j \in Jobs, Begin(j) \/ Execute(j)
      PROVE  OpenOwned'
  <2>1. pc'[j] \in Transit
    BY <1>1 DEF Begin, Execute, Goes
  <2>. QED  BY <2>1 DEF OpenOwned
<1>2. ASSUME NEW j \in Jobs, KeepsOpen(j)
      PROVE  OpenOwned'
  <2>1. pc'[j] \in Transit \/ (j \in Writers /\ pc'[j] = "failed")
    BY <1>2 DEF KeepsOpen, Fails, Retries, Goes
  <2>. QED  BY <2>1 DEF OpenOwned
<1>3. ASSUME NEW j \in Jobs, BeginFails(j)
      PROVE  OpenOwned'
  <2>1. open' = open /\ pc[j] = "ready" /\ \A i \in Jobs \ {j} : pc'[i] = pc[i]
    BY <1>3 DEF BeginFails, Goes
  <2>. QED  BY <2>1 DEF OpenOwned, Jobs
<1>4. ASSUME open' = FALSE
      PROVE  OpenOwned'
  BY <1>4 DEF OpenOwned
<1>5. ASSUME UNCHANGED vars
      PROVE  OpenOwned'
  BY <1>5 DEF OpenOwned, vars
<1>. QED  BY <1>1, <1>2, <1>3, <1>4, <1>5 DEF Next, Job, ExecuteFails, Commit, CommitFails,
          Rollback, Discards, Crash

-----------------------------------------------------------------------------
(* The inductive invariant.                                                *)
THEOREM ConnectionInvariant == Spec => []IInv
<1>1. IInv /\ [Next]_vars => IInv'
  BY TypeStep, ExecutedStep, WholeStep, OpenStep DEF IInv
<1>. QED  BY InitIInv, <1>1, PTL DEF Spec

(* Type correctness of Database on SQLite.                                 *)
THEOREM ConnectionTypeOK == Spec => []TypeOK
<1>1. IInv => TypeOK
  BY DEF IInv
<1>. QED  BY <1>1, ConnectionInvariant, PTL

(* For any number of writes, new tenants and deletions, with failures that  *)
(* keep or end the transaction, retries and crashes: what is missing of a  *)
(* finished write was discarded by another job, through ROLLBACK or a      *)
(* failure on which SQLite ended the transaction.                          *)
THEOREM OnlyOthersLoseHolds == Spec => []OnlyOthersLose
<1>1. IInv => OnlyOthersLose
  BY DEF IInv, Executed, Accounted, Safe, OnlyOthersLose
<1>. QED  BY <1>1, ConnectionInvariant, PTL

(* A job that has not succeeded has nothing in the database but for         *)
(* foreign commits, delete_tenant_messages excepted.                       *)
THEOREM WholeHolds == Spec => []Whole
<1>1. IInv => Whole
  BY DEF IInv
<1>. QED  BY <1>1, ConnectionInvariant, PTL

(* An open transaction has somebody who ends it, or a failed plain write.  *)
THEOREM OpenOwnedHolds == Spec => []OpenOwned
<1>1. IInv => OpenOwned
  BY DEF IInv
<1>. QED  BY <1>1, ConnectionInvariant, PTL

-----------------------------------------------------------------------------
NoRollback == lost = {} /\ \A j \in Jobs : pc[j] # "rollback"

(* Where save_tenant is not called and no statement fails, whatever was     *)
(* reported as written is in the database: it is save_tenant's ROLLBACK    *)
(* after a refused BEGIN that breaks the rule.                             *)
THEOREM DurableHolds ==
    ASSUME Savers = {}, Failing = FALSE
    PROVE  Spec => []Durable
<1>1. Init => NoRollback
  BY DEF Init, NoRollback
<1>2. ASSUME TypeOK, NoRollback, [Next]_vars
      PROVE  NoRollback'
  <2>. USE <1>2 DEF TypeOK, NoRollback, Transit, Ended
  <2>1. ASSUME NEW j \in Jobs, Job(j)
        PROVE  NoRollback'
    <3>1. ~Rollback(j) /\ ~ExecuteFails(j) /\ ~CommitFails(j)
      BY DEF Rollback, ExecuteFails, CommitFails
    <3>2. lost' = lost /\ \E p \in {"run", "failed", "commit", "done"} : pc' = [pc EXCEPT ![j] = p]
      BY <2>1, <3>1 DEF Job, Begin, BeginFails, Execute, Commit, Goes
    <3>. QED  BY <3>2
  <2>2. CASE Crash
    BY <2>2 DEF Crash
  <2>3. CASE UNCHANGED vars
    BY <2>3 DEF vars
  <2>. QED  BY <2>1, <2>2, <2>3 DEF Next
<1>3. OnlyOthersLose /\ NoRollback => Durable
  BY DEF OnlyOthersLose, NoRollback, Durable
<1>. QED  BY <1>1, <1>2, <1>3, ConnectionTypeOK, OnlyOthersLoseHolds, PTL DEF Spec
=============================================================================
