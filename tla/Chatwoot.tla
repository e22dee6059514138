------------------------------ MODULE Chatwoot ------------------------------
(***************************************************************************)
(* The copies of a tenant's messages in Chatwoot.  Everybody who needs the *)
(* conversation of the contact looks for the contact and for the           *)
(* conversation by HTTP and creates what is not found: the task of a live  *)
(* message (ChatwootIntegration.handle_message), of a read receipt         *)
(* (handle_message_read) and the history job of an administrator           *)
(* (ChatwootSyncService).  Caches and conversation locks live in objects   *)
(* that handle_chatwoot_event builds for one event and that no two of them *)
(* share, so that they never hold anybody up, and are not in this model.   *)
(*                                                                         *)
(* Chatwoot may refuse or miss any request, and it may perform one whose   *)
(* answer is lost.                                                         *)
(***************************************************************************)
EXTENDS MessageStore

CONSTANTS
    Receipts,  \* read receipts for the contact's chat
    Jobs,      \* history jobs
    MaxConvs,  \* bound on the conversations of the contact
    MaxCopies  \* bound on the copies of a message that jobs make

ASSUME ChatwootAssumption ==
    /\ {MaxConvs, MaxCopies} \subseteq Nat \ {0}
    /\ Messages \cap Receipts = {} /\ Messages \cap Jobs = {} /\ Receipts \cap Jobs = {}

VARIABLES
    reopen,   \* reopen_conversation
    outgoing, \* live messages that are "sent" events
    at,       \* where each worker is
    left,     \* the messages a job has still to copy
    now,      \* the message, if any, that a job has copied and not marked
    contact,  \* Chatwoot has the contact
    convs,    \* the conversations of the contact
    resolved, \* the conversation is resolved
    live,     \* messages with a copy made by their own task
    copies,   \* the copies made by jobs
    erased,   \* the deletion of each message: its task
    blind,    \* a lookup failed, or two looked before either created
    doubt     \* messages which a job copied without being able to say so

chatVars == <<reopen, outgoing, at, left, now, contact, convs, resolved, live,
              copies, erased, blind, doubt>>

Workers == Messages \cup Receipts \cup Jobs

ChatwootTypeOK ==
    /\ {reopen, contact, resolved, blind} \subseteq BOOLEAN
    /\ {outgoing, live, doubt} \subseteq SUBSET Messages
    /\ at \in [Workers -> {"idle", "find", "create", "look", "new", "open", "post",
                           "note", "done"}]
    /\ left \in [Jobs -> SUBSET Messages]
    /\ now \in [Jobs -> SUBSET Messages]
    /\ convs \in 0 .. MaxConvs
    /\ copies \in [Messages -> 0 .. MaxCopies]
    /\ erased \in [Messages -> {"none", "read", "delete", "done"}]

ChatwootInit ==
    /\ outgoing = {}
    /\ at = [w \in Workers |-> "idle"]
    /\ left = [j \in Jobs |-> {}]
    /\ now = [j \in Jobs |-> {}]
    /\ contact = FALSE /\ convs = 0 /\ resolved = FALSE
    /\ live = {}
    /\ copies = [m \in Messages |-> 0]
    /\ erased = [m \in Messages |-> "none"]
    /\ blind = FALSE
    /\ doubt = {}

(***************************************************************************)
(* Who works with the conversation.                                        *)
(***************************************************************************)
(* A worker goes on, or an exception ends it: a job may be started again.  *)
Goes(w, stage) == at' = [at EXCEPT ![w] = stage]
Ends(w) == Goes(w, IF w \in Jobs THEN "idle" ELSE "done")

(* GET contacts: an error of the API is taken for "not found".             *)
Find(w) ==
    /\ at[w] = "find"
    /\ \/ contact /\ Goes(w, "look")
       \/ Goes(w, "create")
       \/ Ends(w)
    /\ UNCHANGED <<reopen, outgoing, left, now, contact, convs, resolved, live,
                   copies, erased, blind, doubt>>

(* POST contacts: Chatwoot has each phone number once.                     *)
Create(w) ==
    /\ at[w] = "create"
    /\ \/ ~contact /\ contact' = TRUE /\ (Goes(w, "look") \/ Ends(w))
       \/ Ends(w) /\ UNCHANGED contact
    /\ UNCHANGED <<reopen, outgoing, left, now, convs, resolved, live, copies,
                   erased, blind, doubt>>

(* Mutant: only conversations that are open are found.                     *)
FoundUnresolved == convs > 0 /\ ~resolved

(* find_conversation_by_contact asks for conversations of every status.    *)
Found == convs > 0

(* get_or_create_conversation looks for a conversation, if it is to be     *)
(* reopened; here too an error means "not found".                          *)
Look(w) ==
    /\ at[w] = "look"
    /\ \/ reopen /\ Found /\ Goes(w, IF resolved THEN "open" ELSE "post")
          /\ UNCHANGED blind
       \/ /\ ~(reopen /\ Found)
          /\ Goes(w, "new")
          /\ blind' = (blind \/ \E v \in Workers \ {w} : at[v] = "new")
       \/ reopen /\ Goes(w, "new") /\ blind' = TRUE
       \/ Ends(w) /\ UNCHANGED blind
    /\ UNCHANGED <<reopen, outgoing, left, now, contact, convs, resolved, live,
                   copies, erased, doubt>>

(* toggle_conversation_status                                              *)
Open(w) ==
    /\ at[w] = "open"
    /\ \/ resolved' = FALSE /\ (Goes(w, "post") \/ Ends(w))
       \/ Ends(w) /\ UNCHANGED resolved
    /\ UNCHANGED <<reopen, outgoing, left, now, contact, convs, live, copies,
                   erased, blind, doubt>>

(* create_conversation                                                     *)
New(w) ==
    /\ at[w] = "new"
    /\ \/ /\ convs < MaxConvs
          /\ convs' = convs + 1
          /\ resolved' = FALSE
          /\ (Goes(w, "post") \/ Ends(w))
       \/ Ends(w) /\ UNCHANGED <<convs, resolved>>
    /\ UNCHANGED <<reopen, outgoing, left, now, contact, live, copies, erased,
                   blind, doubt>>

(***************************************************************************)
(* What each is there for.                                                 *)
(***************************************************************************)
(* create_message of a live message.  A "sent" event has no `id`, so that  *)
(* its copy is not noted.                                                  *)
PostLive(m) ==
    /\ at[m] = "post"
    /\ \/ live' = live \cup {m} /\ (Goes(m, IF m \in outgoing THEN "done" ELSE "note") \/ Ends(m))
       \/ Ends(m) /\ UNCHANGED live
    /\ UNCHANGED <<reopen, outgoing, left, now, contact, convs, resolved, copies,
                   erased, blind, doubt>>

(* update_message_chatwoot_ids, which finds the row or does not.           *)
NoteIds(m) ==
    /\ at[m] = "note"
    /\ Ends(m)
    /\ \/ rows' = [rows EXCEPT ![m].ids = rows[m].kept]
       \/ UNCHANGED rows
    /\ UNCHANGED <<reopen, outgoing, left, now, contact, convs, resolved, live,
                   copies, erased, blind, doubt>>

(* update_last_seen of a read receipt.                                     *)
SeenUntil(r) ==
    /\ at[r] = "post"
    /\ Ends(r)
    /\ UNCHANGED <<reopen, outgoing, left, now, contact, convs, resolved, live,
                   copies, erased, blind, doubt>>

(* sync_message_history reads the messages no job has marked; the copies   *)
(* their own tasks made do not count.                                      *)
Unsynced == {m \in Messages : rows[m].kept /\ ~rows[m].synced}
Held(j) == left[j] \cup now[j]

BeginSync(j) ==
    /\ at[j] = "idle"
    /\ Unsynced # {}
    /\ left' = [left EXCEPT ![j] = Unsynced]
    /\ Goes(j, "find")
    /\ doubt' = doubt \cup {m \in Unsynced : \E k \in Jobs \ {j} : at[k] # "idle" /\ m \in Held(k)}
    /\ UNCHANGED <<reopen, outgoing, now, contact, convs, resolved, live, copies,
                   erased, blind>>

GoesOn(j, rest) == Goes(j, IF rest = {} THEN "idle" ELSE "post")

(* _sync_single_message: an error is counted and the next one is taken.    *)
PostCopy(j) ==
    /\ at[j] = "post"
    /\ \E m \in left[j] :
          LET rest == left[j] \ {m}
          IN  /\ left' = [left EXCEPT ![j] = rest]
              /\ \/ /\ copies[m] < MaxCopies
                    /\ copies' = [copies EXCEPT ![m] = @ + 1]
                    /\ \/ /\ Goes(j, "note")
                          /\ now' = [now EXCEPT ![j] = {m}]
                          /\ UNCHANGED doubt
                       \/ /\ GoesOn(j, rest)
                          /\ doubt' = doubt \cup {m}
                          /\ UNCHANGED now
                 \/ GoesOn(j, rest) /\ UNCHANGED <<copies, now, doubt>>
    /\ UNCHANGED <<reopen, outgoing, contact, convs, resolved, live, erased, blind>>

(* Mutant: the copy is not marked.                                         *)
MarkCopyNot(j) ==
    /\ at[j] = "note"
    /\ GoesOn(j, left[j])
    /\ now' = [now EXCEPT ![j] = {}]
    /\ UNCHANGED <<rows, reopen, outgoing, left, contact, convs, resolved, live,
                   copies, erased, blind, doubt>>

(* mark_message_chatwoot_synced, or its error.                             *)
MarkCopy(j) ==
    /\ at[j] = "note"
    /\ GoesOn(j, left[j])
    /\ now' = [now EXCEPT ![j] = {}]
    /\ \/ /\ rows' = [m \in Messages |-> [rows[m] EXCEPT !.synced = @ \/ m \in now[j]]]
          /\ UNCHANGED doubt
       \/ doubt' = doubt \cup now[j] /\ UNCHANGED rows
    /\ UNCHANGED <<reopen, outgoing, left, contact, convs, resolved, live, copies,
                   erased, blind>>

(***************************************************************************)
(* handle_message_deleted: the ids are read from the row, then the copy is *)
(* deleted; without ids nothing happens.                                   *)
(***************************************************************************)
ReadIds(m) ==
    /\ erased[m] = "read"
    /\ erased' = [erased EXCEPT ![m] = IF rows[m].ids THEN "delete" ELSE "done"]
    /\ UNCHANGED <<reopen, outgoing, at, left, now, contact, convs, resolved, live,
                   copies, blind, doubt>>

DeleteCopy(m) ==
    /\ erased[m] = "delete"
    /\ erased' = [erased EXCEPT ![m] = "done"]
    /\ \/ live' = live \ {m}
       \/ UNCHANGED live
    /\ UNCHANGED <<reopen, outgoing, at, left, now, contact, convs, resolved,
                   copies, blind, doubt>>

(* An agent resolves the conversation.                                     *)
Resolve ==
    /\ convs > 0 /\ ~resolved
    /\ resolved' = TRUE
    /\ UNCHANGED <<reopen, outgoing, at, left, now, contact, convs, live, copies,
                   erased, blind, doubt>>

(* A crash ends all of it, between any two requests.                       *)
ChatwootCrash ==
    /\ at' = [w \in Workers |-> IF w \in Jobs \/ at[w] = "idle" THEN "idle" ELSE "done"]
    /\ left' = [j \in Jobs |-> {}]
    /\ now' = [j \in Jobs |-> {}]
    /\ doubt' = doubt \cup UNION {now[j] : j \in Jobs}
    /\ erased' = [m \in Messages |-> IF erased[m] = "none" THEN "none" ELSE "done"]
    /\ UNCHANGED <<reopen, outgoing, contact, convs, resolved, live, copies, blind>>

Writes ==
    \/ \E m \in Messages : NoteIds(m)
    \/ \E j \in Jobs : MarkCopy(j)

Requests ==
    \/ \E w \in Workers : Find(w) \/ Create(w) \/ Look(w) \/ Open(w) \/ New(w)
    \/ \E m \in Messages : PostLive(m) \/ ReadIds(m) \/ DeleteCopy(m)
    \/ \E r \in Receipts : SeenUntil(r)
    \/ \E j \in Jobs : PostCopy(j)
    \/ Resolve

(***************************************************************************)
(* Properties.                                                             *)
(***************************************************************************)
(* The contact gets a second conversation only if a lookup failed, or if   *)
(* two workers had looked before either of them created one, and never     *)
(* because the one it has is resolved.  With reopen_conversation off every *)
(* message gets a new one.                                                 *)
OneConversation == reopen /\ ~blind => convs <= 1

(* What the rows say of Chatwoot is true, and jobs copy a message twice    *)
(* only if the first time the answer or the mark was lost, the process     *)
(* ended in between, or two jobs had read it.                              *)
CopiesAccounted ==
    \A m \in Messages :
        /\ rows[m].synced => copies[m] >= 1
        /\ copies[m] > 1 => m \in doubt
        /\ rows[m].ids => rows[m].kept /\ m \notin outgoing
                          /\ (m \in live \/ erased[m] = "done")
=============================================================================
