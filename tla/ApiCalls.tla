------------------------------ MODULE ApiCalls ------------------------------
(***************************************************************************)
(* The REST routes of a tenant (src/src/api/routes.py), the wrappers of    *)
(* BaileysBridge (src/src/bridge/client.py) and the methods of the Node    *)
(* process (src/bridge/index.mjs): which route calls which method, what    *)
(* that method does with the socket, and what the HTTP client is told.     *)
(*                                                                         *)
(* The bridge is there (get_or_create_bridge is TenantLifecycle's) and a   *)
(* request is begun as it is written: the pipe is BridgeRpc's.             *)
(***************************************************************************)
EXTENDS NodeBridge, TLC

VARIABLE http  \* what the HTTP client of each call has been told

allVars == <<vars, http>>

(***************************************************************************)
(* The methods: the shapes each may take, depending on its parameters.     *)
(***************************************************************************)
Asks(n) == [ops |-> n, needs |-> TRUE, reads |-> FALSE, lenient |-> FALSE,
            answered |-> TRUE, sent |-> FALSE]
(* A message, a receipt or a presence: the socket takes it, nobody answers. *)
Hands == [Asks(1) EXCEPT !.answered = FALSE]
Sends == [Hands EXCEPT !.sent = TRUE]
Reading(shape) == [shape EXCEPT !.reads = TRUE]
Lenient(n) == [Asks(n) EXCEPT !.lenient = TRUE]
Local == [Asks(0) EXCEPT !.needs = FALSE]

Plain(names) == [m \in names |-> {Asks(1)}]
Handed(names) == [m \in names |-> {Hands}]

MessageMethods ==
    [send_message |-> {Sends, Reading(Sends)}, send_poll |-> {Sends}]
    @@ Handed({"send_reaction", "send_typing"})

LocalMethods ==
    [m \in {"auth_exists", "auth_age", "self_id", "get_status"} |-> {Local}]

(* Both read the in-memory stores.                                         *)
StoreMethods == [m \in {"get_contacts", "get_chats_with_messages"} |-> {Asks(0)}]

(* One fetch per chat of the store; the store stands in for one that fails *)
HistoryMethods ==
    [fetch_chat_history |-> {[Lenient(n) EXCEPT !.answered = FALSE] : n \in 0 .. 2}]

ChatMethods ==
    [get_profile_picture |-> {Lenient(1)}] @@ Handed({"delete_message", "mark_read"})

(* group_create sets the description, if there is one, on the new group.   *)
GroupMethods ==
    [group_create |-> {Asks(1), Asks(2)}, group_update_picture |-> {Reading(Asks(1))}]
    @@ Plain({"group_update_subject", "group_update_description", "group_get_info"})

(* group_get_all asks once per group of the store, if participants are     *)
(* wanted.                                                                 *)
GroupReadMethods ==
    [group_get_all |-> {Lenient(n) : n \in 0 .. 2}]
    @@ Plain({"group_get_participants", "group_get_invite_code",
              "group_revoke_invite", "group_accept_invite"})

GroupWriteMethods ==
    Plain({"group_get_invite_info", "group_update_participant",
           "group_update_setting", "group_toggle_ephemeral", "group_leave"})

AdvancedMethods ==
    [m \in {"send_location", "send_contact"} |-> {Sends}]
    @@ Plain({"archive_chat", "block_user"}) @@ Handed({"edit_message"})

(* check_whatsapp asks for one number after the other.                     *)
ProfileMethods ==
    [update_profile_picture |-> {Reading(Asks(1))},
     check_whatsapp |-> {Asks(n) : n \in 0 .. 2}]
    @@ Plain({"update_profile_name", "update_profile_status",
              "remove_profile_picture", "get_profile"})

RichMethods ==
    [send_sticker |-> {Reading(Sends)}, send_buttons |-> {Sends},
     send_list |-> {Sends}, send_status |-> {Sends, Reading(Sends)}]

SettingMethods ==
    [m \in {"get_settings", "update_settings"} |-> {Local}]
    @@ Plain({"fetch_privacy_settings", "update_privacy_settings"})

Methods ==
    MessageMethods @@ LocalMethods @@ StoreMethods @@ HistoryMethods
    @@ ChatMethods @@ GroupMethods @@ GroupReadMethods @@ GroupWriteMethods
    @@ AdvancedMethods @@ ProfileMethods @@ RichMethods @@ SettingMethods

(***************************************************************************)
(* The routes, by the name of the function: the wrapper each one calls.    *)
(***************************************************************************)
StatusRoutes ==
    [get_status |-> "get_status", check_auth_exists |-> "auth_exists",
     get_auth_age |-> "auth_age", get_self_id |-> "self_id"]

SendRoutes ==
    [send_message |-> "send_message", send_reaction |-> "send_reaction",
     send_poll |-> "send_poll", send_typing |-> "send_typing"]

GroupRoutes ==
    [create_group |-> "group_create",
     update_group_subject |-> "group_update_subject",
     update_group_description |-> "group_update_description",
     update_group_picture |-> "group_update_picture",
     get_group_info |-> "group_get_info",
     get_all_groups |-> "group_get_all"]

InviteRoutes ==
    [get_group_participants |-> "group_get_participants",
     get_group_invite_code |-> "group_get_invite_code",
     revoke_group_invite |-> "group_revoke_invite",
     accept_group_invite |-> "group_accept_invite",
     get_group_invite_info |-> "group_get_invite_info",
     update_group_participant |-> "group_update_participant"]

MemberRoutes ==
    [update_group_setting |-> "group_update_setting",
     toggle_group_ephemeral |-> "group_toggle_ephemeral",
     leave_group |-> "group_leave", send_location |-> "send_location",
     send_contact |-> "send_contact"]

ChatRoutes ==
    [archive_chat |-> "archive_chat", block_user |-> "block_user",
     edit_message |-> "edit_message", check_whatsapp_numbers |-> "check_whatsapp",
     update_profile_name |-> "update_profile_name",
     update_profile_status |-> "update_profile_status"]

ProfileRoutes ==
    [update_profile_picture |-> "update_profile_picture",
     remove_profile_picture |-> "remove_profile_picture",
     get_profile |-> "get_profile", delete_message |-> "delete_message",
     mark_messages_read |-> "mark_read", get_contacts |-> "get_contacts"]

HistoryRoutes ==
    [sync_history |-> "fetch_chat_history",
     fetch_profile_picture |-> "get_profile_picture"]

RichRoutes ==
    [send_sticker |-> "send_sticker", send_buttons |-> "send_buttons",
     send_list |-> "send_list", send_status |-> "send_status"]

SettingRoutes ==
    [fetch_privacy_settings |-> "fetch_privacy_settings",
     update_privacy_settings |-> "update_privacy_settings",
     get_settings |-> "get_settings", update_settings |-> "update_settings"]

Routes ==
    StatusRoutes @@ SendRoutes @@ GroupRoutes @@ InviteRoutes @@ MemberRoutes
    @@ ChatRoutes @@ ProfileRoutes @@ HistoryRoutes @@ RichRoutes @@ SettingRoutes

(* The methods BaileysBridge has a wrapper for, besides login and logout.  *)
Wrappers ==
    {"send_message", "send_reaction", "send_poll", "send_typing", "auth_exists",
     "auth_age", "self_id", "get_status", "get_contacts",
     "get_chats_with_messages", "fetch_chat_history", "get_profile_picture",
     "delete_message", "mark_read"}

GroupWrappers ==
    {"group_create", "group_update_subject", "group_update_description",
     "group_update_picture", "group_get_info", "group_get_all",
     "group_get_participants", "group_get_invite_code", "group_revoke_invite",
     "group_accept_invite", "group_get_invite_info", "group_update_participant",
     "group_update_setting", "group_toggle_ephemeral", "group_leave"}

OtherWrappers ==
    {"send_location", "send_contact", "archive_chat", "block_user",
     "edit_message", "check_whatsapp", "update_profile_name",
     "update_profile_status", "update_profile_picture", "remove_profile_picture",
     "get_profile"}

RichWrappers ==
    {"send_sticker", "send_buttons", "send_list", "send_status",
     "fetch_privacy_settings", "update_privacy_settings", "get_settings",
     "update_settings"}

AllWrappers == Wrappers \cup GroupWrappers \cup OtherWrappers \cup RichWrappers

(* The three layers agree: each route has its wrapper, and each wrapper    *)
(* calls a method the bridge knows, so that "Method not found" never       *)
(* answers a route.  No method that passes over failures announces.        *)
ASSUME LayersAgree ==
    /\ \A r \in DOMAIN Routes : Routes[r] \in AllWrappers
    /\ AllWrappers = DOMAIN Methods
    /\ \A m \in DOMAIN Methods : Methods[m] # {} /\ Methods[m] \subseteq Shapes
    /\ \A m \in DOMAIN Methods : \A shape \in Methods[m] : ~(shape.lenient /\ shape.sent)

(* is_safe_webhook_url lets these routes pass http and https URLs only.    *)
UrlRoutes == {"send_message", "update_group_picture", "update_profile_picture"}

(***************************************************************************)
(* The calls.                                                              *)
(***************************************************************************)
Answers == {"idle", "waiting", "200", "refused", "failed", "timeout", "rejected"}

(* Tell(c, a): the route answers: 200, 400 for a URL that was rejected,    *)
(* 500 for a BridgeError with what was wrong.                              *)
Tell(c, a) == http' = [http EXCEPT ![c] = a]

(* A URL is no path: readFileSync on the other side cannot read it.        *)
Readable(r) == IF r \in UrlRoutes THEN {FALSE} ELSE BOOLEAN

(* The process is gone: the write fails, or nothing ever answers.          *)
AskNobody(c) ==
    /\ ~up
    /\ Tell(c, "failed") \/ Tell(c, "waiting")
    /\ UNCHANGED vars

Ask(c) ==
    /\ http[c] = "idle"
    /\ \E r \in DOMAIN Routes :
          \E shape \in Methods[Routes[r]] :
             \/ /\ shape.reads /\ r \in UrlRoutes
                /\ Tell(c, "rejected") /\ UNCHANGED vars
             \/ /\ up
                /\ Tell(c, "waiting")
                /\ \E readable \in Readable(r) : Begin(c, shape, readable)
             \/ AskNobody(c)

AskLogin(c) ==
    /\ http[c] = "idle"
    /\ \/ Tell(c, "waiting") /\ BeginLogin(c)
       \/ AskNobody(c)

(* A tenant without a bridge object is answered by the route itself.       *)
AskLogout(c) ==
    /\ http[c] = "idle"
    /\ \/ Tell(c, "waiting") /\ BeginLogout(c)
       \/ AskNobody(c)
       \/ ~up /\ Tell(c, "200") /\ UNCHANGED vars

(* Mutant: the route passes on the result as it is.                        *)
ReplyRaw(c) ==
    /\ http[c] = "waiting" /\ req[c].at = "done"
    /\ Tell(c, req[c].result)
    /\ UNCHANGED vars

(* The response or the error of the bridge reaches the route.              *)
Reply(c) ==
    /\ http[c] = "waiting" /\ req[c].at = "done"
    /\ Tell(c, IF req[c].result = "ok" THEN "200" ELSE req[c].result)
    /\ UNCHANGED vars

(* bridge_timeout_seconds are over, or stop() has cancelled the call.      *)
TimesOut(c) ==
    /\ http[c] = "waiting"
    /\ Tell(c, "timeout")
    /\ UNCHANGED vars

AllInit == Init /\ http = [c \in Calls |-> "idle"]

Next ==
    \/ \E c \in Calls : Ask(c) \/ AskLogin(c) \/ AskLogout(c) \/ Reply(c) \/ TimesOut(c)
    \/ (Work \/ Library \/ Exit) /\ UNCHANGED http

(* The timer of a process that runs fires.                                 *)
Spec == AllInit /\ [][Next]_allVars /\ WF_allVars(SyncTimeout /\ UNCHANGED http)

(***************************************************************************)
(* Properties.                                                             *)
(***************************************************************************)
TypesOK == TypeOK /\ http \in [Calls -> Answers]

(* What the client is told is as true as the process can know: 200 means   *)
(* that every operation of the method was tried, and performed when        *)
(* WhatsApp answers it (or passed over by a method that says so), and that *)
(* a message the socket took was announced to the store; "Not connected"   *)
(* and a rejected URL mean that nothing was tried; an error, that nothing  *)
(* was announced, that the operations before the failing one were          *)
(* performed and that none behind it was tried, so that it alone is in     *)
(* doubt; only a timeout leaves a call that goes on behind its client.     *)
AnswerIsTrue ==
    \A c \in Calls :
        LET r == req[c]
            method == r.does \in Shapes /\ r.at = "done"
        IN  /\ http[c] = "200" /\ method =>
                  /\ r.does.lenient \/ r.tried = r.does.ops
                  /\ r.does.answered /\ ~r.does.lenient => r.did = r.does.ops
                  /\ r.sent = (IF r.does.sent THEN 1 ELSE 0)
            /\ http[c] = "refused" => r.tried = 0 /\ r.did = 0 /\ r.sent = 0
            /\ http[c] = "rejected" => r = NoRequest
            /\ http[c] = "failed" /\ method =>
                  /\ r.sent = 0 /\ r.did <= r.tried
                  /\ r.does.answered => r.tried <= r.did + 1
            /\ http[c] \notin {"waiting", "timeout"} => r.at \in {"none", "done"}
=============================================================================
