--------------------------- MODULE MCAccountsConsole ---------------------------
(* Two numbers: 1 is logged in, 2 is not and has a Telegram password.          *)
EXTENDS AccountsConsole
TwoAccounts == {1, 2}
SecondOnly == {2}
FirstOnly == {1}
===============================================================================
