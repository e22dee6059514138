-------------------------- MODULE SharedConnection --------------------------
(***************************************************************************)
(* Database on SQLite (src/src/store/database.py): every coroutine writes  *)
(* through one aiosqlite connection, which has one transaction.  A plain   *)
(* write is execute() and commit(), and the driver opens the transaction   *)
(* at the first statement; save_tenant and delete_tenant open it           *)
(* themselves, which SQLite refuses inside another, and roll it back when  *)
(* they fail.  The connection's thread runs one statement after the other, *)
(* from whichever coroutine, so an action is one statement.  A statement   *)
(* or a commit that fails leaves the transaction as it was, or SQLite ends *)
(* it, which a full disk or an I/O error lets it do.                       *)
(*                                                                         *)
(* A mark <<j, k>> stands for the rows that statement k of job j writes.   *)
(***************************************************************************)
EXTENDS Integers

CONSTANTS
    Writers,   \* calls of the methods that only execute() and commit()
    Does,      \* which of these methods each of them calls
    Savers,    \* save_tenant
    Deleters,  \* delete_tenant
    Failing,   \* statements may fail: a lock of another process, a full disk
    Attempts   \* DATABASE_RETRY_ATTEMPTS

Jobs == Writers \cup Savers \cup Deleters

(***************************************************************************)
(* The methods that leave the transaction to the driver.                   *)
(***************************************************************************)
TenantMethods ==
    {"delete_tenant_messages", "update_webhooks", "update_tenant_enabled"}

SessionMethods == {"update_session_state", "save_creds", "clear_creds"}

ConfigMethods == {"save_chatwoot_config", "save_settings", "save_global_config"}

MessageMethods == {"save_message", "update_message_media_url"}

RowMethods == {"delete_message", "update_message_chatwoot_ids",
               "mark_message_chatwoot_synced"}

ContactMethods == {"upsert_contact", "populate_contacts_from_messages"}

AdminMethods == {"save_webhook_attempt", "create_admin_session",
                 "delete_admin_session", "update_admin_session_expiry",
                 "cleanup_old_data"}

Methods == TenantMethods \cup SessionMethods \cup ConfigMethods
           \cup MessageMethods \cup RowMethods \cup ContactMethods \cup AdminMethods

Calling(methods) == {j \in Writers : Does[j] \in methods}

(* save_creds runs under _with_retry.                                      *)
Retriers == Calling({"save_creds"})

(* delete_tenant_messages deletes the messages, commits, deletes the       *)
(* contacts and commits.                                                   *)
Purgers == Calling({"delete_tenant_messages"})

(* populate_contacts_from_messages writes contact by contact and commits   *)
(* at the end (three stand for any number of contacts).                    *)
Populators == Calling({"populate_contacts_from_messages"})

(* cleanup_old_data commits after three deletes.                           *)
Cleaners == Calling({"cleanup_old_data"})

(* Jobs that open and roll back a transaction.                             *)
Explicit == Savers \cup Deleters

ASSUME ConnectionAssumption ==
    /\ Does \in [Writers -> Methods]
    /\ Writers \cap Explicit = {}
    /\ Savers \cap Deleters = {}
    /\ Failing \in BOOLEAN
    /\ Attempts \in Nat \ {0}

VARIABLES
    committed,  \* marks that are in the database
    working,    \* marks of the open transaction
    open,       \* connection.in_transaction
    pc,         \* what each job is about to do
    step,       \* how many of its statements it has executed
    tries,      \* attempts that failed, of a job that is still at it
    taken,      \* marks that another job's commit() has committed
    lost        \* marks that another job's ROLLBACK or failure has discarded

vars == <<committed, working, open, pc, step, tries, taken, lost>>

Transit == {"run", "commit", "rollback"}
Ended == {"done", "failed", "gone"}

(* delete_tenant deletes from messages, contacts, webhook_attempts, tenants. *)
Last(j) == CASE j \in Deleters -> 4
             [] j \in Populators \cup Cleaners -> 3
             [] j \in Purgers -> 2
             [] OTHER -> 1

Statements(j) == 1 .. Last(j)

(* The statements after which a job commits.                               *)
Closing(j) == IF j \in Purgers THEN Statements(j) ELSE {Last(j)}

Marks == Jobs \X (1 .. 4)

Mark(j, k) == <<j, k>>

TypeOK ==
    /\ committed \subseteq Marks
    /\ working \subseteq Marks
    /\ open \in BOOLEAN
    /\ pc \in [Jobs -> {"ready"} \cup Transit \cup Ended]
    /\ step \in [Jobs -> 0 .. 4]
    /\ tries \in [Jobs -> 0 .. Attempts]
    /\ taken \subseteq Marks
    /\ lost \subseteq Marks

Init ==
    /\ committed = {}
    /\ working = {}
    /\ open = FALSE
    /\ pc = [j \in Jobs |-> "ready"]
    /\ step = [j \in Jobs |-> 0]
    /\ tries = [j \in Jobs |-> 0]
    /\ taken = {}
    /\ lost = {}

-----------------------------------------------------------------------------
Goes(j, point) == pc' = [pc EXCEPT ![j] = point]

(* What others have in the open transaction.                               *)
Foreign(j) == {m \in working : m[1] # j}

(* Discards(j): job j ends the transaction without a commit, and others    *)
(* that are still at it lose what they wrote.                              *)
Discards(j) ==
    /\ lost' = lost \cup {m \in Foreign(j) : pc[m[1]] \in Transit}
    /\ working' = {}
    /\ open' = FALSE

(* BEGIN.                                                                  *)
Begin(j) ==
    /\ j \in Explicit
    /\ pc[j] = "ready"
    /\ ~open
    /\ open' = TRUE
    /\ Goes(j, "run")
    /\ UNCHANGED <<committed, working, step, tries, taken, lost>>

(* save_tenant issues BEGIN inside the try whose handler rolls back,        *)
(* delete_tenant before it.                                                *)
BeginFails(j) ==
    /\ j \in Explicit
    /\ pc[j] = "ready"
    /\ open \/ Failing
    /\ Goes(j, IF j \in Savers THEN "rollback" ELSE "failed")
    /\ UNCHANGED <<committed, working, open, step, tries, taken, lost>>

\* Mutant: the deletes of a tenant's data commit before the tenant's own.
ExecuteCommits(j) ==
    /\ pc[j] \in (IF j \in Writers THEN {"ready", "run"} ELSE {"run"})
    /\ step[j] < Last(j)
    /\ step' = [step EXCEPT ![j] = @ + 1]
    /\ Goes(j, IF step[j] + 1 \in Closing(j) THEN "commit" ELSE "run")
    /\ IF step[j] = 2
       THEN /\ committed' = committed \cup working \cup {Mark(j, step[j] + 1)}
            /\ working' = {}
            /\ open' = FALSE
       ELSE /\ committed' = committed
            /\ working' = working \cup {Mark(j, step[j] + 1)}
            /\ open' = TRUE
    /\ UNCHANGED <<tries, taken, lost>>

\* Mutant: a plain write without its commit().
ExecuteOnly(j) ==
    /\ pc[j] \in (IF j \in Writers THEN {"ready", "run"} ELSE {"run"})
    /\ step[j] < Last(j)
    /\ open' = TRUE
    /\ working' = working \cup {Mark(j, step[j] + 1)}
    /\ step' = [step EXCEPT ![j] = @ + 1]
    /\ Goes(j, IF j \in Writers THEN "done"
               ELSE IF step[j] + 1 \in Closing(j) THEN "commit" ELSE "run")
    /\ UNCHANGED <<committed, tries, taken, lost>>

(* The next statement; the driver begins a transaction if there is none.   *)
Execute(j) ==
    /\ pc[j] \in (IF j \in Writers THEN {"ready", "run"} ELSE {"run"})
    /\ step[j] < Last(j)
    /\ open' = TRUE
    /\ working' = working \cup {Mark(j, step[j] + 1)}
    /\ step' = [step EXCEPT ![j] = @ + 1]
    /\ Goes(j, IF step[j] + 1 \in Closing(j) THEN "commit" ELSE "run")
    /\ UNCHANGED <<committed, tries, taken, lost>>

\* Mutant: one attempt too many.
MayRetryOnceMore(j) == j \in Retriers /\ tries[j] <= Attempts

(* _with_retry starts over unless this was the last attempt.               *)
MayRetry(j) == j \in Retriers /\ tries[j] + 1 < Attempts

\* Mutant: delete_tenant and save_tenant without their except clause.
FailsQuietly(j) ==
    /\ tries' = [tries EXCEPT ![j] = IF @ < Attempts THEN @ + 1 ELSE @]
    /\ step' = [step EXCEPT ![j] = 0]
    /\ Goes(j, "failed")

(* An error is raised: an explicit transaction is rolled back, a plain     *)
(* write leaves what it began.                                             *)
Fails(j) ==
    /\ step' = [step EXCEPT ![j] = 0]
    /\ tries' = [tries EXCEPT ![j] = 0]
    /\ \/ j \in Explicit /\ Goes(j, "rollback")
       \/ j \in Writers /\ Goes(j, "failed")

(* A transient error (busy or locked) is retried.                          *)
Retries(j) ==
    /\ MayRetry(j)
    /\ step' = [step EXCEPT ![j] = 0]
    /\ tries' = [tries EXCEPT ![j] = @ + 1]
    /\ Goes(j, "run")

(* The statement has no effect, and the transaction stays open.            *)
KeepsOpen(j) ==
    /\ Fails(j) \/ Retries(j)
    /\ open' = TRUE
    /\ UNCHANGED <<working, lost>>

(* The implicit BEGIN has happened when the statement fails.               *)
ExecuteFails(j) ==
    /\ Failing
    /\ pc[j] \in (IF j \in Writers THEN {"ready", "run"} ELSE {"run"})
    /\ step[j] < Last(j)
    /\ KeepsOpen(j) \/ (Fails(j) /\ Discards(j))
    /\ UNCHANGED <<committed, taken>>

(* commit() commits what anybody has written; without a transaction it does *)
(* nothing and succeeds.                                                   *)
Commit(j) ==
    /\ pc[j] = "commit"
    /\ committed' = committed \cup working
    /\ taken' = taken \cup Foreign(j)
    /\ working' = {}
    /\ open' = FALSE
    /\ Goes(j, IF step[j] = Last(j) THEN "done" ELSE "run")
    /\ UNCHANGED <<step, tries, lost>>

(* SQLite refuses a commit because of a lock, or cannot write it.          *)
CommitFails(j) ==
    /\ Failing
    /\ pc[j] = "commit"
    /\ open
    /\ KeepsOpen(j) \/ (Fails(j) /\ Discards(j))
    /\ UNCHANGED <<committed, taken>>

\* Mutant: a rollback that waits for a transaction.
RollbackOpen(j) ==
    /\ pc[j] = "rollback"
    /\ open
    /\ Discards(j)
    /\ Goes(j, "failed")
    /\ UNCHANGED <<committed, step, tries, taken>>

(* ROLLBACK discards what anybody has written; without a transaction it     *)
(* raises, as the job does anyway.                                         *)
Rollback(j) ==
    /\ pc[j] = "rollback"
    /\ Discards(j)
    /\ Goes(j, "failed")
    /\ UNCHANGED <<committed, step, tries, taken>>

(* The server ends, and the jobs with it; SQLite forgets what was not      *)
(* committed.                                                              *)
Crash ==
    LET Cut(old, new) == [j \in Jobs |-> IF pc[j] \in Transit THEN new ELSE old[j]]
    IN  /\ working' = {}
        /\ open' = FALSE
        /\ pc' = Cut(pc, "gone")
        /\ step' = Cut(step, 0)
        /\ tries' = Cut(tries, 0)
        /\ UNCHANGED <<committed, taken, lost>>

-----------------------------------------------------------------------------
Job(j) ==
    \/ Begin(j)
    \/ BeginFails(j)
    \/ Execute(j)
    \/ ExecuteFails(j)
    \/ Commit(j)
    \/ CommitFails(j)
    \/ Rollback(j)

Next == Crash \/ \E j \in Jobs : Job(j)

Spec == Init /\ [][Next]_vars

(* The connection's thread serves every statement it is given.             *)
FairSpec == Spec /\ \A j \in Jobs : WF_vars(pc[j] \in Transit /\ Job(j))

-----------------------------------------------------------------------------
(* A write that was reported as done is in the database, unless another     *)
(* job ended the transaction before its commit(): by ROLLBACK, or by a     *)
(* statement or commit that failed so that SQLite ended it.  Its own        *)
(* failures and retries, the commits of others and a crash lose none.      *)
OnlyOthersLose ==
    \A j \in Jobs : pc[j] = "done" =>
        \A k \in Statements(j) : Mark(j, k) \in committed \cup lost

(* A job that has not succeeded has nothing in the database, except for     *)
(* what another job's commit() has put there half way: also one that fails *)
(* after some of its statements and leaves them in the open transaction.   *)
(* Only delete_tenant_messages commits half way by itself.                 *)
Whole ==
    \A j \in Jobs \ Purgers : pc[j] # "done" =>
        \A k \in Statements(j) : Mark(j, k) \in committed => Mark(j, k) \in taken

(* An open transaction, which makes every save_tenant and delete_tenant     *)
(* fail, belongs to a job that will end it, or a plain write failed in it: *)
(* save_tenant and delete_tenant never leave one behind.                   *)
OpenOwned ==
    open => \/ \E j \in Jobs : pc[j] \in Transit
            \/ \E j \in Writers : pc[j] = "failed"

(* Every job that has begun ends, also one that retries, and one whose      *)
(* ROLLBACK finds that another job has ended the transaction: always again *)
(* nobody is at it, and nobody begins twice.                               *)
JobsEnd == []<>(\A j \in Jobs : pc[j] \notin Transit)

(* "`save_creds` / `load_creds` / `clear_creds` | Auth credential           *)
(* persistence" (ARCHITECTURE_REVIEW.md:250): what was reported as written *)
(* is in the database.                                                     *)
Durable ==
    \A j \in Jobs : pc[j] = "done" =>
        \A k \in Statements(j) : Mark(j, k) \in committed
=============================================================================
