------------------------------ MODULE Delivery ------------------------------
(***************************************************************************)
(* handle_bridge_event: what follows from an event of the bridge.  It      *)
(* starts tasks, one to store the message, one to cache its media, one to  *)
(* tell the webhook and one to copy it to Chatwoot, that run side by side  *)
(* and share the database; nobody waits for them, and a crash ends them.   *)
(***************************************************************************)
EXTENDS Chatwoot, WebhookDelivery

CONSTANT
    Configs  \* the settings to look at: [backend, reopen, uses]

ASSUME DeliveryAssumption ==
    /\ Events = Messages
    /\ Configs \subseteq [backend : {"sqlite", "postgres"}, reopen : BOOLEAN,
                          uses : SUBSET {"history", "media", "webhook", "chatwoot",
                                         "import"}]

VARIABLE uses  \* what the tenant uses: history, media, webhook, chatwoot, import

deliveryVars == <<storeVars, chatVars, hookVars, uses>>

Init ==
    /\ \E c \in Configs : backend = c.backend /\ reopen = c.reopen /\ uses = c.uses
    /\ StoreInit /\ ChatwootInit /\ WebhookInit

If(setting, yes, no) == IF setting \in uses THEN yes ELSE no

(* A "message" or "sent" event: _store_message, _send_webhook and          *)
(* _handle_chatwoot_integration.                                           *)
Arrive(m) ==
    /\ storing[m] = "none"
    /\ storing' = [storing EXCEPT ![m] = "due"]
    /\ media' = [media EXCEPT ![m] = If("media", "due", "none")]
    /\ hook' = IF "webhook" \in uses THEN Sending(m) ELSE hook
    /\ at' = [at EXCEPT ![m] = If("chatwoot", "find", "idle")]
    /\ outgoing' \in If("chatwoot", {outgoing, outgoing \cup {m}}, {outgoing})
    /\ UNCHANGED <<backend, inserted, rows, histVars, counted, lost, named, files,
                   reopen, left, now, contact, convs, resolved, live, copies,
                   erased, blind, doubt, seen, unsure, told, uses>>

(* "message_read" and "message_deleted": _handle_chatwoot_message_event.   *)
Read(r) ==
    /\ "chatwoot" \in uses
    /\ at[r] = "idle"
    /\ at' = [at EXCEPT ![r] = "find"]
    /\ UNCHANGED <<storeVars, hookVars, uses, reopen, outgoing, left, now, contact,
                   convs, resolved, live, copies, erased, blind, doubt>>

Deleted(m) ==
    /\ "chatwoot" \in uses
    /\ storing[m] # "none" /\ erased[m] = "none"
    /\ erased' = [erased EXCEPT ![m] = "read"]
    /\ UNCHANGED <<storeVars, hookVars, uses, reopen, outgoing, at, left, now,
                   contact, convs, resolved, live, copies, blind, doubt>>

(* "chats_history" and "contacts": _handle_sync_event.                     *)
Sync ==
    /\ "history" \in uses
    /\ BeginHistory \/ ContactsSync
    /\ UNCHANGED <<chatVars, hookVars, uses>>

(* POST .../chatwoot/sync-messages, if import_messages is on.              *)
Import ==
    /\ "import" \in uses
    /\ \E j \in Jobs : BeginSync(j)
    /\ UNCHANGED <<storeVars, hookVars, uses>>

Works ==
    \/ StoreWork /\ UNCHANGED <<chatVars, hookVars, uses>>
    \/ WebhookWork /\ UNCHANGED <<storeVars, chatVars, uses>>
    \/ Requests /\ UNCHANGED <<storeVars, hookVars, uses>>
    \/ /\ Writes
       /\ UNCHANGED <<backend, inserted, storing, histVars, counted, lost, named,
                      media, files, hookVars, uses>>

Crash == StoreCrash /\ ChatwootCrash /\ WebhookCrash /\ UNCHANGED uses

Next ==
    \/ \E m \in Messages : Arrive(m) \/ Deleted(m)
    \/ \E r \in Receipts : Read(r)
    \/ Sync \/ Import \/ Works \/ Crash

Spec == Init /\ [][Next]_deliveryVars

TypeOK ==
    /\ StoreTypeOK /\ ChatwootTypeOK /\ WebhookTypeOK
    /\ uses \subseteq {"history", "media", "webhook", "chatwoot", "import"}
=============================================================================
