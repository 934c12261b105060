------------------------------ MODULE ActionForm ------------------------------
(* The forms of the actions (SCHEMAS of the web client): their fields, what is   *)
(* required, how a form becomes the message of a step and back, and what the    *)
(* server reads in that message (parse_options and the actions that use it).    *)
(* A message is a sequence of lines, blank ones left out.  A line has an option *)
(* if the server finds one before its first `=`, trimmed and in lower case, and *)
(* a key if the client finds that option spelled like a field of a form; "" is  *)
(* none.  A text field holds such lines, the others one value.                  *)
EXTENDS Naturals, SequencesExt, ActionCatalog

Plain(v) == [key |-> "", opt |-> "", val |-> v]
Line(k, v) == [key |-> k, opt |-> k, val |-> v]

\* The fields written as key=value lines, in the order they are written.
Keyed(a) ==
    CASE a = "send_media" -> <<"file", "parse_mode">>
      [] a = "schedule_message" -> <<"schedule">>
      [] a \in {"edit_message", "unpin_message", "download_media"} -> <<"id">>
      [] a = "pin_message" -> <<"id", "notify">>
      [] a = "delete_messages" -> <<"ids", "revoke">>
      [] OTHER -> <<>>
\* The field that follows them as it was typed.
Body(a) ==
    CASE a \in {"send_message", "schedule_message", "edit_message"} -> {"text"}
      [] a = "send_media" -> {"caption"}
      [] OTHER -> {}
Fields(a) ==
    Range(Keyed(a)) \cup Body(a) \cup
    CASE a = "forward_message" -> {"source"}
      [] a = "start_bot" -> {"referral_mode", "referral_value"}
      [] OTHER -> {}
Required(a) ==
    CASE a = "send_media" -> {"file"}
      [] a \in {"unpin_message", "start_bot"} -> {}
      [] OTHER -> Fields(a) \ {"revoke", "notify"}

Default(n) ==
    CASE n \in {"text", "caption"} -> <<>>
      [] n = "parse_mode" -> "none"
      [] n = "referral_mode" -> "start"
      [] n = "revoke" -> "true"
      [] n = "notify" -> "false"
      [] OTHER -> ""
defaultFieldValues(a) == [n \in Fields(a) |-> Default(n)]
\* A field the new action also has keeps what was typed.
carryFieldValues(a, previous) ==
    [n \in Fields(a) |-> IF n \in DOMAIN previous THEN previous[n] ELSE Default(n)]

\* "bad" stands for a value its validator refuses.
Blank(n, v) == IF n \in {"text", "caption"} THEN v = <<>> ELSE v = ""
Refused(n, v) == n \notin {"text", "caption"} /\ v = "bad"
validateFields(a, values) ==
    {n \in Fields(a) : IF Blank(n, values[n]) THEN n \in Required(a) ELSE Refused(n, values[n])}
isActionFormValid(a, values) == validateFields(a, values) = {}

-------------------------------------------------------------------------------
(* To a message and back.                                                      *)

\* normalizeSchedule and deserializeSchedule: a picked local time becomes ISO.
Normalized(n, v) == IF n = "schedule" /\ v = "local" THEN "iso" ELSE v
Shown(n, v) == IF n = "schedule" /\ v = "iso" THEN "local" ELSE v

\* The parse mode is written only if there is one.
Written(a, values) ==
    IF a = "send_media" /\ values["parse_mode"] = "none" THEN <<"file">> ELSE Keyed(a)
KeyedLines(a, values) ==
    LET written == Written(a, values)
    IN [i \in DOMAIN written |->
            Line(written[i], Normalized(written[i], values[written[i]]))]
TypedText(a, values) == IF Body(a) = {} THEN <<>> ELSE values[CHOOSE n \in Body(a) : TRUE]
\* Mutant: delete_messages does not write `revoke`.
SerializeNoRevoke(a, values) ==
    CASE a = "forward_message" ->
            IF values["source"] = "" THEN <<>> ELSE <<Plain(values["source"])>>
      [] a = "start_bot" ->
            IF values["referral_value"] = "" THEN <<>>
            ELSE <<Line(values["referral_mode"], values["referral_value"])>>
      [] a = "delete_messages" -> <<Line("ids", values["ids"])>>
      [] OTHER -> KeyedLines(a, values) \o TypedText(a, values)
\* An empty message is no message: undefined here, null at the server.
serializeFields(a, values) ==
    CASE a = "forward_message" ->
            IF values["source"] = "" THEN <<>> ELSE <<Plain(values["source"])>>
      [] a = "start_bot" ->
            IF values["referral_value"] = "" THEN <<>>
            ELSE <<Line(values["referral_mode"], values["referral_value"])>>
      [] OTHER -> KeyedLines(a, values) \o TypedText(a, values)

\* splitKeyedLines: the last line with a key gives its value, and the lines with
\* none of the keys are left, in their order.
ByKey(m, k) == {i \in DOMAIN m : m[i].key = k}
LastOf(m, at, otherwise) == IF at = {} THEN otherwise ELSE m[Max(at)].val
Found(m, k, otherwise) == LastOf(m, ByKey(m, k), otherwise)
Kept(m, kept) ==
    LET Nth(k) == CHOOSE i \in kept : Cardinality({j \in kept : j < i}) = k - 1
    IN [k \in 1..Cardinality(kept) |-> m[Nth(k)]]
Rest(m, keys) == Kept(m, {i \in DOMAIN m : m[i].key \notin keys})

\* The mode `parse_mode=` stands for none.
ModeOf(v) == IF v = "" THEN "none" ELSE v
\* Mutant: a box that is off in the saved message comes back on.
DeserializeTicked(a, m) ==
    [n \in Fields(a) |->
        CASE n \in Body(a) -> IF a = "send_message" THEN m ELSE Rest(m, Range(Keyed(a)))
          [] n = "source" -> IF m = <<>> THEN "" ELSE m[1].val
          [] n = "referral_mode" -> IF ByKey(m, "startapp") # {} THEN "startapp" ELSE "start"
          [] n = "referral_value" -> Found(m, "startapp", Found(m, "start", ""))
          [] n = "parse_mode" -> ModeOf(Found(m, n, ""))
          [] n = "revoke" -> "true"
          [] OTHER -> Shown(n, Found(m, n, Default(n)))]
\* deserializeFields, over the defaults of the action
deserializeFields(a, m) ==
    [n \in Fields(a) |->
        CASE n \in Body(a) -> IF a = "send_message" THEN m ELSE Rest(m, Range(Keyed(a)))
          [] n = "source" -> IF m = <<>> THEN "" ELSE m[1].val
          [] n = "referral_mode" -> IF ByKey(m, "startapp") # {} THEN "startapp" ELSE "start"
          [] n = "referral_value" -> Found(m, "startapp", Found(m, "start", ""))
          [] n = "parse_mode" -> ModeOf(Found(m, n, ""))
          [] OTHER -> Shown(n, Found(m, n, Default(n)))]

-------------------------------------------------------------------------------
(* The server.                                                                 *)

\* Every line with `=` gives an option, the last one counts, and no value is none.
ByOption(m, x) == {i \in DOMAIN m : m[i].opt = x}
Option(m, x) == LastOf(m, ByOption(m, x), "")
\* The names under which the actions look for an option, the first given wins.
Names(n) ==
    CASE n = "file" -> <<"file", "path">>
      [] n = "schedule" -> <<"schedule", "at", "when">>
      [] n = "id" -> <<"id", "message_id">>
      [] n = "ids" -> <<"ids", "message_ids", "id">>
      [] OTHER -> <<n>>
\* What an action does without the option.
Unset(n) == IF n \in {"revoke", "notify"} THEN Default(n) ELSE ""
FirstGiven(n, value) ==
    LET given == {i \in DOMAIN Names(n) : value[Names(n)[i]] # ""}
    IN IF given = {} THEN Unset(n) ELSE value[Names(n)[Min(given)]]
OptionRead(m, n) == FirstGiven(n, [x \in Range(Names(n)) |-> Option(m, x)])
\* The other lines are the text, unless a line gives the text as an option.
AsText(v) == IF v = "" THEN <<>> ELSE <<Plain(v)>>
TextRead(m, n) ==
    IF Option(m, n) # "" THEN AsText(Option(m, n))
    ELSE IF ByOption(m, "message") # {} THEN AsText(Option(m, "message"))
    ELSE IF ByOption(m, "text") # {} THEN <<>>
    ELSE Kept(m, ByOption(m, ""))

\* parse_options and the action that calls it; send_message and forward_message
\* read the message as it is.
parse_options(a, m) ==
    [n \in Fields(a) |->
        CASE n \in Body(a) -> IF a = "send_message" THEN m ELSE TextRead(m, n)
          [] n = "source" -> IF m = <<>> THEN "" ELSE m[1].val
          [] n = "referral_mode" ->
                IF ByOption(m, "startapp") # {} THEN "startapp" ELSE "start"
          [] n = "referral_value" ->
                LastOf(m, ByOption(m, "startapp"), Option(m, "start"))
          [] OTHER -> OptionRead(m, n)]
MESSAGE_REQUIRED_ACTIONS == WithForm \ {"start_bot"}

NATIVELY_SCHEDULABLE_ACTIONS == {"send_message", "send_media", "start_bot"}
_step_is_native(step) ==
    /\ step.condition = "none"
    /\ IF step.action = "start_bot" THEN step.message = <<>>
       ELSE step.action \in NATIVELY_SCHEDULABLE_ACTIONS

\* The client decides on its own which engine a queue will get.
NATIVE_MESSAGE_ACTIONS == {"send_message", "send_media"}
\* Mutant: a condition is not looked at.
NativeWhateverTheCondition(step) ==
    \/ step.action \in NATIVE_MESSAGE_ACTIONS
    \/ step.action = "start_bot" /\ step.message = <<>>
stepIsNativeSchedulable(step) ==
    /\ step.condition = "none"
    /\ \/ step.action \in NATIVE_MESSAGE_ACTIONS
       \/ step.action = "start_bot" /\ step.message = <<>>
===============================================================================
