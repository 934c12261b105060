------------------------------ MODULE MCComposer ------------------------------
(* Small instances: the actions whose forms differ in kind, two targets of      *)
(* which one fits only joining, one account, a few values for each field.       *)
EXTENDS Composer
TwoTargets == {"chat", "invite"}
Kinds == [t \in TwoTargets |-> IF t = "chat" THEN "username" ELSE "invite_link"]
\* A line of the text gives an option of the form, or the text itself; a caption has
\* an address with a query, and the parse mode in a spelling the form does not know.
WithId == <<Plain("hello"), Line("id", "9")>>
AsOption == <<Plain("hello"), Line("text", "bye")>>
WithQuery == <<Plain("hello"), [key |-> "", opt |-> "https://x?q", val |-> "1"]>>
WithMode == <<[key |-> "", opt |-> "parse_mode", val |-> "markdown"]>>
WithModes == WithMode \o <<Line("parse_mode", "html")>>
Values ==
    [text |-> {<<>>, WithId, AsOption}, caption |-> {WithQuery, WithMode, WithModes},
     file |-> {"path"}, parse_mode |-> {"html"},
     schedule |-> {"local", "bad"}, id |-> {"7"}, ids |-> {"7"}, revoke |-> {"false"},
     notify |-> {"true"}, source |-> {"chat:7"}, referral_mode |-> {"startapp"},
     referral_value |-> {"ref"}]
Every == [interval |-> "ok", start |-> "interval", startOk |-> TRUE, end |-> "count", endOk |-> TRUE]
Forms == {Every, [Every EXCEPT !.start = "at", !.startOk = FALSE]}
AllForms == WithForm \cup {"join_chat"}
===============================================================================
