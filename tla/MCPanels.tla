------------------------------- MODULE MCPanels -------------------------------
(* Two accounts, two chats; three scheduled messages, of which two share a chat   *)
(* and two an id; three cached lists of dialogs that differ in every way the      *)
(* diff can see, with steps of two targets at most.                             *)
EXTENDS Panels
TwoAccounts == {"A", "B"}
TwoChats == {"c", "d"}
Three == {"m1", "m2", "m3"}
OfThem == [m \in Three |-> IF m = "m3" THEN "B" ELSE "A"]
InThem == [m \in Three |-> "c"]
IdOfThem == [m \in Three |-> IF m = "m2" THEN "2" ELSE "1"]
FromSchedules == {<<"A", "c">>}
Dialog(c, named, archive, mute) ==
    [chat |-> c, named |-> named, archive |-> archive, mute |-> mute]
SomeLists ==
    {<< >>,
     <<Dialog("c", TRUE, TRUE, FALSE), Dialog("d", FALSE, TRUE, TRUE), Dialog("e", TRUE, TRUE, FALSE)>>,
     <<Dialog("e", TRUE, FALSE, TRUE), Dialog("c", TRUE, FALSE, FALSE),
       Dialog("f", TRUE, FALSE, TRUE), Dialog("d", FALSE, FALSE, TRUE)>>,
     <<Dialog("d", TRUE, FALSE, FALSE), Dialog("c", TRUE, FALSE, TRUE)>>}
===============================================================================
