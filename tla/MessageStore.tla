---------------------------- MODULE MessageStore ----------------------------
(***************************************************************************)
(* How a tenant's messages get into the database: one task per live        *)
(* message (add_with_persist), one task per history export                 *)
(* (store_chat_messages), the download of media and the contacts that come *)
(* along (save_message, handle_contacts_sync).  The messages are of one    *)
(* contact.  The deque of the last messages in memory is left out.         *)
(***************************************************************************)
EXTENDS Integers, FiniteSets

CONSTANTS
    Messages,    \* WhatsApp messages of one chat, known by their id
    MaxContacts  \* bound on the contacts events

ASSUME StoreAssumption == IsFiniteSet(Messages) /\ MaxContacts \in Nat

VARIABLES
    backend,   \* "sqlite" or "postgres"
    inserted,  \* SQLite: the connection has inserted a row, so it has a lastrowid
    rows,      \* the messages table
    storing,   \* the task that stores each live message
    hist,      \* where the history job is
    todo,      \* the messages it has still to save
    stats,     \* what it reports
    added,     \* the rows it has added
    missed,    \* those of them whose contact it could not write
    counted,   \* message_count of the contact
    lost,      \* rows whose contact was not counted: the write failed, a crash
    named,     \* contacts events that have been handled
    media,     \* the task that caches the media of each live message
    files      \* the media files

histVars == <<hist, todo, stats, added, missed>>
storeVars == <<backend, inserted, rows, storing, histVars, counted, lost, named,
               media, files>>

NoRow == [kept |-> FALSE, ids |-> FALSE, synced |-> FALSE, local |-> FALSE]
NoStats == [stored |-> 0, duplicates |-> 0]

StoreTypeOK ==
    /\ backend \in {"sqlite", "postgres"}
    /\ inserted \in BOOLEAN
    /\ rows \in [Messages -> [kept : BOOLEAN, ids : BOOLEAN, synced : BOOLEAN,
                              local : BOOLEAN]]
    /\ storing \in [Messages -> {"none", "due", "contact", "stored", "lost"}]
    /\ hist \in {"off", "row", "new", "old", "ended"} /\ todo \subseteq Messages
    /\ stats \in [stored : Nat, duplicates : Nat]
    /\ {added, missed, counted, lost} \subseteq Nat /\ named \in 0 .. MaxContacts
    /\ media \in [Messages -> {"none", "due", "cached", "done"}]
    /\ files \subseteq Messages

StoreInit ==
    /\ inserted = FALSE
    /\ rows = [m \in Messages |-> NoRow]
    /\ storing = [m \in Messages |-> "none"]
    /\ hist = "off" /\ todo = {} /\ stats = NoStats /\ added = 0 /\ missed = 0
    /\ counted = 0 /\ lost = 0 /\ named = 0
    /\ media = [m \in Messages |-> "none"]
    /\ files = {}

(***************************************************************************)
(* save_message: the row, then its contact, each a write of its own.       *)
(***************************************************************************)
(* GivesId(m): the insert leaves an id.  PostgreSQL returns the one of a   *)
(* row that is new; SQLite's lastrowid is that of the last row inserted.   *)
GivesId(m) == ~rows[m].kept \/ (backend = "sqlite" /\ inserted)

(* Insert(m): ON CONFLICT DO NOTHING, or INSERT OR IGNORE.                 *)
Insert(m) ==
    /\ rows' = [rows EXCEPT ![m].kept = TRUE]
    /\ inserted' = (inserted \/ ~rows[m].kept)

(* upsert_contact adds one to message_count, whoever calls it.             *)
UpsertContact == counted' = counted + 1

(* add_with_persist of a live message: an error is logged, no more.        *)
StoreRow(m) ==
    /\ storing[m] = "due"
    /\ \/ Insert(m)
          /\ storing' = [storing EXCEPT ![m] = IF GivesId(m) THEN "contact" ELSE "stored"]
       \/ storing' = [storing EXCEPT ![m] = "lost"] /\ UNCHANGED <<rows, inserted>>
    /\ UNCHANGED <<backend, histVars, counted, lost, named, media, files>>

StoreContact(m) ==
    /\ storing[m] = "contact"
    /\ storing' = [storing EXCEPT ![m] = "stored"]
    /\ \/ UpsertContact /\ UNCHANGED lost
       \/ lost' = lost + 1 /\ UNCHANGED counted
    /\ UNCHANGED <<backend, inserted, rows, histVars, named, media, files>>

(* Every other INSERT of the process uses SQLite's one connection too.     *)
OtherInsert ==
    /\ backend = "sqlite" /\ ~inserted
    /\ inserted' = TRUE
    /\ UNCHANGED <<backend, rows, storing, histVars, counted, lost, named, media, files>>

(***************************************************************************)
(* store_chat_messages.                                                    *)
(***************************************************************************)
BeginHistory ==
    /\ hist = "off"
    /\ hist' = "row"
    /\ todo' \in (SUBSET Messages) \ {{}}
    /\ UNCHANGED <<backend, inserted, rows, storing, stats, added, missed, counted,
                   lost, named, media, files>>

Continues(rest) == hist' = IF rest = {} THEN "ended" ELSE "row"

Stored == stats' = [stats EXCEPT !.stored = @ + 1]

(* Mutant: a save that returns no id is reported as stored.                *)
DuplicateStored == Stored

(* A save that returns no id counts as a duplicate, also when it failed.   *)
Duplicate == stats' = [stats EXCEPT !.duplicates = @ + 1]

HistoryRow ==
    /\ hist = "row"
    /\ \E m \in todo :
          /\ todo' = todo \ {m}
          /\ \/ /\ GivesId(m) /\ Insert(m)
                /\ IF rows[m].kept THEN hist' = "old" /\ UNCHANGED added
                                   ELSE hist' = "new" /\ added' = added + 1
                /\ UNCHANGED stats
             \/ /\ ~GivesId(m) /\ Insert(m)
                /\ Continues(todo \ {m}) /\ Duplicate /\ UNCHANGED added
             \/ /\ Continues(todo \ {m}) /\ Duplicate
                /\ UNCHANGED <<rows, inserted, added>>
    /\ UNCHANGED <<backend, storing, missed, counted, lost, named, media, files>>

HistoryContact ==
    /\ hist \in {"new", "old"}
    /\ Continues(todo)
    /\ \/ UpsertContact /\ Stored /\ UNCHANGED <<lost, missed>>
       \/ /\ lost' = lost + 1
          /\ missed' = IF hist = "new" THEN missed + 1 ELSE missed
          /\ Duplicate
          /\ UNCHANGED counted
    /\ UNCHANGED <<backend, inserted, rows, storing, todo, added, named, media, files>>

(* handle_contacts_sync                                                    *)
ContactsSync ==
    /\ named < MaxContacts
    /\ named' = named + 1
    /\ \/ UpsertContact /\ UNCHANGED lost
       \/ lost' = lost + 1 /\ UNCHANGED counted
    /\ UNCHANGED <<backend, inserted, rows, storing, histVars, media, files>>

(***************************************************************************)
(* _download_and_cache_media, beside the task that inserts the row.        *)
(***************************************************************************)
CacheMedia(m) ==
    /\ media[m] = "due"
    /\ \/ media' = [media EXCEPT ![m] = "cached"] /\ files' = files \cup {m}
       \/ media' = [media EXCEPT ![m] = "done"] /\ UNCHANGED files
    /\ UNCHANGED <<backend, inserted, rows, storing, histVars, counted, lost, named>>

(* The UPDATE finds no row if it comes before the insert.                  *)
SaveMediaUrl(m) ==
    /\ media[m] = "cached"
    /\ media' = [media EXCEPT ![m] = "done"]
    /\ \/ rows' = [rows EXCEPT ![m].local = rows[m].kept]
       \/ UNCHANGED rows
    /\ UNCHANGED <<backend, inserted, storing, histVars, counted, lost, named, files>>

(***************************************************************************)
(* A crash ends the tasks; the next process has a new connection.          *)
(***************************************************************************)
Between == Cardinality({m \in Messages : storing[m] = "contact"})
           + (IF hist \in {"new", "old"} THEN 1 ELSE 0)

StoreCrash ==
    /\ inserted' = FALSE
    /\ storing' = [m \in Messages |-> IF storing[m] = "none" THEN "none"
                                      ELSE IF storing[m] = "stored" THEN "stored"
                                      ELSE "lost"]
    /\ hist' = (IF hist = "off" THEN "off" ELSE "ended")
    /\ todo' = {} /\ stats' = NoStats /\ added' = 0 /\ missed' = 0
    /\ lost' = lost + Between
    /\ media' = [m \in Messages |-> IF media[m] = "none" THEN "none" ELSE "done"]
    /\ UNCHANGED <<backend, rows, counted, named, files>>

StoreWork ==
    \/ \E m \in Messages : \/ StoreRow(m) \/ StoreContact(m)
                           \/ CacheMedia(m) \/ SaveMediaUrl(m)
    \/ HistoryRow \/ HistoryContact \/ OtherInsert

(***************************************************************************)
(* Property.                                                               *)
(***************************************************************************)
(* What is reported of the rows is true, as far as the code makes it so.   *)
(* On PostgreSQL a history job reports as stored the rows it has added,    *)
(* but for those whose contact could not be written, which it reports as   *)
(* duplicates; on SQLite it may report more.  message_count counts every   *)
(* row once and, besides the rows, every contacts event, and SQLite the    *)
(* duplicates too.  A row that names a local file has one.                 *)
StoredIsNew ==
    LET kept == Cardinality({m \in Messages : rows[m].kept})
        known == stats.stored + missed + (IF hist = "new" THEN 1 ELSE 0)
        all == counted + lost + Between
    IN  /\ added <= known
        /\ kept + named <= all
        /\ backend = "postgres" => added = known /\ kept + named = all
        /\ \A m \in Messages : rows[m].local => rows[m].kept /\ m \in files
=============================================================================
