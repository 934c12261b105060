----------------------------- MODULE MCDialogsView -----------------------------
(* Instances of DialogsView for TLC.                                            *)
EXTENDS DialogsView

TwoAccounts == {1, 2}
ThreeChats == {11, 12, 21}
OwnerOf == [c \in ThreeChats |-> c \div 10]
KindOf == [c \in ThreeChats |-> IF c = 11 THEN "group" ELSE "personal"]
LeaveAndBlock == {"leave_chat", "block_user"}
SomeSelections == {{}, {11}, {12}, {11, 12}, {21}}
===============================================================================
