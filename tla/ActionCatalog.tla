----------------------------- MODULE ActionCatalog -----------------------------
(* The tables and pure functions of the web client that say which actions       *)
(* exist, to which targets and chats they apply, and which quick actions the    *)
(* Dialogs screen offers.  Wording (labels, hints) is left out.                 *)
EXTENDS FiniteSets

ActionTypes ==
    {"join_chat", "leave_chat", "send_message", "send_media", "schedule_message",
     "forward_message", "edit_message", "delete_messages", "pin_message",
     "unpin_message", "download_media", "start_bot", "block_user", "unblock_user",
     "archive_chat", "unarchive_chat", "mute_chat", "unmute_chat", "read_chat",
     "delete_chat", "clear_chat", "report_spam"}
TargetKinds ==
    {"invite_link", "public_link", "username", "numeric_id", "bot_link", "unknown"}
DialogKinds == {"bot", "personal", "group", "supergroup", "channel", "unknown"}

\* actionMeta[action].validTargets
ValidTargets(action) ==
    CASE action = "join_chat" -> {"invite_link", "public_link", "username"}
      [] action = "start_bot" -> {"username", "bot_link"}
      [] action \in {"block_user", "unblock_user"} -> {"username", "numeric_id"}
      [] OTHER -> {"username", "numeric_id", "public_link"}
\* actionMeta[action].destructive
Destructive ==
    {"delete_messages", "block_user", "delete_chat", "clear_chat", "report_spam"}
\* The actions with a form of their own: those with an entry in SCHEMAS.
WithForm ==
    {"send_message", "send_media", "schedule_message", "forward_message",
     "edit_message", "delete_messages", "pin_message", "unpin_message",
     "download_media", "start_bot"}

quickActionNeedsInput(action) == action \in WithForm
quickActionNeedsConfirm(action) == action \in Destructive \cup {"leave_chat"}

-------------------------------------------------------------------------------
(* Quick actions by the kind of a chat.                                        *)

Common == {"send_message", "delete_chat", "clear_chat", "mute_chat", "archive_chat"}
ROW_ACTIONS ==
    [bot |-> Common \cup {"start_bot", "schedule_message", "block_user"},
     personal |-> Common \cup {"send_media", "schedule_message", "block_user"},
     group |-> Common \cup {"send_media", "schedule_message", "leave_chat",
                            "read_chat", "report_spam"},
     supergroup |-> Common \cup {"send_media", "schedule_message", "leave_chat",
                                 "read_chat", "report_spam"},
     channel |-> (Common \ {"clear_chat"}) \cup
                    {"send_media", "schedule_message", "leave_chat", "read_chat",
                     "report_spam"},
     unknown |-> Common]

BULK_ELIGIBLE ==
    {"mute_chat", "unmute_chat", "archive_chat", "unarchive_chat", "read_chat",
     "leave_chat", "clear_chat", "delete_chat", "block_user", "report_spam"}
Upkeep == {"mute_chat", "unmute_chat", "archive_chat", "unarchive_chat",
           "read_chat", "delete_chat"}
BULK_VALID_BY_KIND ==
    [bot |-> Upkeep \cup {"clear_chat", "block_user"},
     personal |-> Upkeep \cup {"clear_chat", "block_user"},
     group |-> Upkeep \cup {"leave_chat", "clear_chat", "report_spam"},
     supergroup |-> Upkeep \cup {"leave_chat", "clear_chat", "report_spam"},
     channel |-> Upkeep \cup {"leave_chat", "report_spam"},
     unknown |-> Upkeep \cup {"clear_chat"}]

\* bulkActionsForSelection, of the kinds of the selected dialogs
bulkActionsForSelection(kinds) ==
    IF kinds = {} THEN {}
    ELSE {a \in BULK_ELIGIBLE : \A k \in kinds : a \in BULK_VALID_BY_KIND[k]}

\* KIND_RESTRICTED: the kinds of chat an action makes sense for.
KindsFor(action) ==
    CASE action = "start_bot" -> {"bot"}
      [] action \in {"block_user", "unblock_user"} -> {"personal", "bot"}
      [] action = "leave_chat" -> {"group", "supergroup", "channel"}
      [] OTHER -> DialogKinds

-------------------------------------------------------------------------------
(* Targets.  A written target is abstracted to what the classifier looks at:    *)
(*   form   "tg" (tg://resolve), "tme" (a t.me URL), "name", "digits", "other"  *)
(*   path   of a URL: "none", "invite", "chat", or "app" (a named second        *)
(*          segment); for tg it is "chat" when there is a domain                *)
(*   start  the URL has a start or startapp parameter                           *)
WrittenTargets ==
    [form : {"tg", "tme", "name", "digits", "other"},
     path : {"none", "invite", "chat", "app"}, start : BOOLEAN]

classifyTargetKind(t) ==
    CASE t.form = "name" -> "username"
      [] t.form = "digits" -> "numeric_id"
      [] t.form = "other" -> "unknown"
      [] t.form = "tme" /\ t.path = "invite" -> "invite_link"
      [] OTHER -> IF t.start \/ (t.form = "tme" /\ t.path = "app") THEN "bot_link"
                  ELSE IF t.path = "none" THEN "unknown" ELSE "public_link"

\* analyzeTarget has an error: an unknown format only warns.
TargetFits(kind, action) == kind = "unknown" \/ kind \in ValidTargets(action)
\* partitionTargets(...).valid
Compatible(targets, action) ==
    {t \in targets : TargetFits(classifyTargetKind(t), action)}

\* dialogCompatibility: an unknown kind of chat is not restricted.
dialogCompatibility(kind, targetKind, action) ==
    /\ kind = "unknown" \/ kind \in KindsFor(action)
    /\ TargetFits(targetKind, action)
===============================================================================
