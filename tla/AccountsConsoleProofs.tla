-------------------------- MODULE AccountsConsoleProofs --------------------------
(* Proofs about AccountsConsole, for every set of numbers and every bound, and   *)
(* about the query cache of the client, ResourceCache, for every bound.         *)
EXTENDS AccountsConsole, ResourceCache, WellFoundedInduction, TLAPS

\* The handlers that act on one account know which: the others have none.
OfOneAccount == Steps \cup {"validate", "logout", "delete", "edit"}
HandlerHasItsAccount == guard.op \in OfOneAccount => guard.acct \in Accounts
IInv == TypeOK /\ HandlerHasItsAccount /\ ChoicesAreListed

ServerTypes ==
    /\ srv \in [Accounts -> Records] /\ challenge \in [Accounts -> {"none", "code", "password"}]
    /\ tg \subseteq Accounts /\ gone \subseteq Accounts
FleetTypes ==
    /\ list \in [Accounts -> Records] /\ selected \subseteq Accounts /\ staged \subseteq Accounts
    /\ dialog \in Accounts \cup {NoAccount} /\ ChoicesAreListed
LoginTypes == pending \in Accounts \cup {NoAccount} /\ loginError \in Steps \cup {"none"}
GuardTypes == guard \in Guards /\ HandlerHasItsAccount
ReadTypes == reads \in [Readers -> Reads]
SlipTypes == slips \in 0..MaxSlips
FaultTypes == faults \in 0..MaxFaults

LEMMA InvParts == IInv <=> /\ ServerTypes /\ FleetTypes /\ LoginTypes /\ GuardTypes /\ ReadTypes
                           /\ SlipTypes /\ FaultTypes
  BY DEF IInv, TypeOK, ServerTypes, FleetTypes, LoginTypes, GuardTypes, ReadTypes, SlipTypes,
         FaultTypes

-------------------------------------------------------------------------------
(* Values and their types.                                                     *)

\* The first account of a list is on it.
LEMMA FirstIsThere == ASSUME NEW T \in SUBSET Accounts, T # {} PROVE Min(T) \in T
<1>1. T \subseteq Nat
  BY AccountsAssumption
<1>2. PICK n \in T : \A y \in T : ~ (<<y, n>> \in OpToRel(<, Nat))
  BY <1>1, NatLessThanWellFounded, WFMin, Zenon
<1>3. \A y \in T : ~ (y < n)
  BY <1>1, <1>2 DEF OpToRel
<1>4. \A y \in T : n <= y
  BY <1>1, <1>3
<1>. QED  BY <1>4 DEF Min

LEMMA RecordTypes == Absent \in Records /\ Ready \in Records
  BY DEF Absent, Ready, Records, Statuses
LEMMA NoReadTypes == NoRead \in Reads /\ Asked \in Reads
<1>1. [a \in Accounts |-> Absent] \in [Accounts -> Records]
  BY RecordTypes
<1>2. NoRead \in Reads
  BY <1>1 DEF NoRead, Reads
<1>3. Asked \in Reads
  BY <1>2 DEF Asked, Reads
<1>. QED  BY <1>2, <1>3
LEMMA LoggedTypes == ASSUME NEW ids PROVE Logged(ids) \in [Accounts -> Records]
  BY RecordTypes DEF Logged

LEMMA NewGuard ==
    ASSUME NEW op \in Ops, NEW a \in Accounts \cup {NoAccount},
           NEW at \in {"idle", "ask", "post", "reload"}, NEW then \in {"keep", "set", "clear"},
           op \in OfOneAccount => a \in Accounts,
           guard' = [op |-> op, acct |-> a, at |-> at, then |-> then]
    PROVE  GuardTypes'
<1>1. guard' \in Guards
  BY DEF Guards
<1>2. guard'.op = op /\ guard'.acct = a
  OBVIOUS
<1>. QED  BY <1>1, <1>2 DEF GuardTypes, HandlerHasItsAccount
LEMMA IdleGuard == guard' = Idle => GuardTypes'
<1>1. SUFFICES ASSUME guard' = Idle PROVE GuardTypes'
  OBVIOUS
<1>2. guard' \in Guards
  BY <1>1 DEF Idle, Guards
<1>3. guard'.op \notin OfOneAccount
  BY <1>1 DEF Idle, OfOneAccount, Steps
<1>. QED  BY <1>2, <1>3 DEF GuardTypes, HandlerHasItsAccount
\* A handler goes on with its operation and its account.
LEMMA StagedGuard ==
    ASSUME GuardTypes, NEW at \in {"idle", "ask", "post", "reload"},
           NEW then \in {"keep", "set", "clear"},
           guard' = [op |-> guard.op, acct |-> guard.acct, at |-> at, then |-> then]
    PROVE  GuardTypes'
<1>1. guard' \in Guards
  BY DEF GuardTypes, Guards
<1>2. guard'.op = guard.op /\ guard'.acct = guard.acct
  OBVIOUS
<1>. QED  BY <1>1, <1>2 DEF GuardTypes, HandlerHasItsAccount

LEMMA ReadSet == ASSUME ReadTypes, NEW r \in Readers, NEW v \in Reads,
                        reads' = [reads EXCEPT ![r] = v]
                 PROVE  ReadTypes'
  BY DEF ReadTypes

LEMMA ServerKept == ServerTypes /\ UNCHANGED server => ServerTypes'
  BY DEF ServerTypes, server
LEMMA FleetKept == FleetTypes /\ UNCHANGED fleet => FleetTypes'
  BY DEF FleetTypes, ChoicesAreListed, There, fleet
LEMMA LoginKept == LoginTypes /\ UNCHANGED <<pending, loginError>> => LoginTypes'
  BY DEF LoginTypes
LEMMA GuardKept == GuardTypes /\ UNCHANGED guard => GuardTypes'
  BY DEF GuardTypes, HandlerHasItsAccount
LEMMA ConsoleKept == FleetTypes /\ LoginTypes /\ UNCHANGED console => FleetTypes' /\ LoginTypes'
  BY FleetKept, LoginKept DEF console
LEMMA ReadKept == ReadTypes /\ UNCHANGED reads => ReadTypes'
  BY DEF ReadTypes
LEMMA SlipTyped == SlipTypes /\ (Slip \/ UNCHANGED slips) => SlipTypes'
  BY BoundsAssumption DEF SlipTypes, Slip
LEMMA FaultTyped == FaultTypes /\ (Fault \/ UNCHANGED faults) => FaultTypes'
  BY BoundsAssumption DEF FaultTypes, Fault

-------------------------------------------------------------------------------
(* A refresh lands.                                                            *)

LEMMA ApplyStep == ASSUME FleetTypes, NEW snap \in [Accounts -> Records], Apply(snap)
                   PROVE  FleetTypes'
<1>1. /\ list' = snap /\ dialog' = DialogAccount(snap)
      /\ selected' = selected \cap There(snap) /\ staged' = staged \cap There(snap)
  BY DEF Apply, Filtered
<1>2. There(snap) \in SUBSET Accounts
  BY DEF There
<1>3. DialogAccount(snap) \in There(snap) \cup {NoAccount}
  <2>1. CASE dialog \in There(snap)
    BY <2>1 DEF DialogAccount
  <2>2. CASE dialog \notin There(snap) /\ There(snap) = {}
    BY <2>2 DEF DialogAccount
  <2>3. CASE dialog \notin There(snap) /\ There(snap) # {}
    BY <1>2, <2>3, FirstIsThere DEF DialogAccount
  <2>. QED  BY <2>1, <2>2, <2>3
<1>4. There(list') = There(snap) /\ There(list)' = There(snap)
  BY <1>1 DEF There
<1>. QED  BY <1>1, <1>2, <1>3, <1>4 DEF FleetTypes, ChoicesAreListed

LEMMA LandStep ==
    ASSUME FleetTypes, LoginTypes, GuardTypes, ReadTypes, NEW r \in Readers, Lands(r)
    PROVE  FleetTypes' /\ LoginTypes' /\ GuardTypes' /\ ReadTypes'
<1>1. reads[r].snap \in [Accounts -> Records]
  BY DEF ReadTypes, Reads
<1>2. FleetTypes'
  BY <1>1, ApplyStep DEF Lands
<1>3. ReadTypes'
  BY NoReadTypes, ReadSet DEF Lands
<1>4. CASE r = "handler"
  <2>1. Then /\ guard' = Idle /\ loginError' = Cleared
    BY <1>4 DEF Lands
  <2>2. pending' \in Accounts \cup {NoAccount}
    BY <2>1 DEF Then, GuardTypes, Guards, LoginTypes
  <2>3. loginError' \in Steps \cup {"none"}
    BY <2>1 DEF Cleared, LoginTypes
  <2>. QED  BY <1>2, <1>3, <2>1, <2>2, <2>3, IdleGuard DEF LoginTypes
<1>5. CASE r # "handler"
  BY <1>2, <1>3, <1>5, GuardKept, LoginKept DEF Lands
<1>. QED  BY <1>4, <1>5

LEMMA ReadFailStep ==
    ASSUME LoginTypes, GuardTypes, ReadTypes, NEW r \in Readers, ReadFails(r)
    PROVE  LoginTypes' /\ GuardTypes' /\ ReadTypes'
<1>1. ReadTypes'
  BY NoReadTypes, ReadSet DEF ReadFails
<1>2. LoginTypes'
  BY DEF ReadFails, LoginTypes
<1>3. GuardTypes'
  BY GuardKept, IdleGuard DEF ReadFails
<1>. QED  BY <1>1, <1>2, <1>3

LEMMA AnsweredTypes ==
    ASSUME ServerTypes, ReadTypes, NEW r \in Readers,
           reads' = [reads EXCEPT ![r] = [at |-> "answered", snap |-> srv]]
    PROVE  ReadTypes'
<1>1. [at |-> "answered", snap |-> srv] \in Reads
  BY DEF ServerTypes, Reads
<1>. QED  BY <1>1, ReadSet

-------------------------------------------------------------------------------
(* Clicks.                                                                     *)

LEMMA BeginStep ==
    ASSUME ReadTypes, NEW op \in Ops, NEW a \in Accounts \cup {NoAccount},
           op \in OfOneAccount => a \in Accounts, Begin(op, a)
    PROVE  GuardTypes' /\ ReadTypes'
<1>. DEFINE at == IF op \in Asking THEN "ask" ELSE IF op = "refresh" THEN "reload" ELSE "post"
<1>1. guard' = [op |-> op, acct |-> a, at |-> at, then |-> "keep"]
  BY DEF Begin
<1>2. at \in {"idle", "ask", "post", "reload"}
  OBVIOUS
<1>. HIDE DEF at
<1>3. GuardTypes'
  BY <1>1, <1>2, NewGuard
<1>4. ReadTypes'
  BY NoReadTypes, ReadSet, ReadKept DEF Begin, Readers
<1>. QED  BY <1>3, <1>4

\* Every click that begins a handler.
Begins ==
    /\ Slip \/ UNCHANGED slips
    /\ \E op \in Ops, a \in Accounts \cup {NoAccount} :
           Begin(op, a) /\ (op \in OfOneAccount => a \in Accounts)
LEMMA AccountClicks ==
    ASSUME NEW a \in Accounts,
           \/ ClickStart(a) \/ ClickCode(a) \/ ClickPassword(a)
           \/ \E op \in {"validate", "logout", "delete", "edit"} : ClickRow(op, a)
    PROVE  Begins
  BY DEF ClickStart, ClickCode, ClickPassword, ClickRow, Sensibly, Begins, Ops, Steps, Asking
LEMMA FleetClicks ==
    ASSUME NEW op \in {"validateAll", "import", "export", "refresh"}, ClickFleet(op)
    PROVE  Begins
  BY DEF ClickFleet, Begins, Ops, Steps, Asking, OfOneAccount

LEMMA AnswerStep == ASSUME GuardTypes, NEW yes \in BOOLEAN, AnswerDialog(yes) PROVE GuardTypes'
<1>1. CASE yes
  <2>1. guard' = [op |-> guard.op, acct |-> guard.acct, at |-> "post", then |-> guard.then]
    BY <1>1 DEF AnswerDialog, GuardTypes, Guards
  <2>2. guard.then \in {"keep", "set", "clear"}
    BY DEF GuardTypes, Guards
  <2>. QED  BY <2>1, <2>2, StagedGuard
<1>2. CASE ~yes
  BY <1>2, IdleGuard DEF AnswerDialog
<1>. QED  BY <1>1, <1>2

\* The choices of the operator are made from the list that is shown.
LEMMA ChooseStep ==
    ASSUME FleetTypes, NEW sel, NEW stg, NEW dlg, Choose(sel, stg, dlg),
           sel \cup stg \subseteq There(list), dlg \in There(list) \cup {NoAccount}
    PROVE  FleetTypes'
<1>1. selected' = sel /\ staged' = stg /\ dialog' = dlg /\ list' = list
  BY DEF Choose
<1>2. There(list)' = There(list) /\ There(list) \subseteq Accounts
  BY <1>1 DEF There
<1>. QED  BY <1>1, <1>2 DEF FleetTypes, ChoicesAreListed

LEMMA ChoosingStep == ASSUME FleetTypes, Choosing PROVE FleetTypes'
<1>1. /\ selected \cup staged \subseteq There(list) /\ dialog \in There(list) \cup {NoAccount}
      /\ There(list) \in SUBSET Accounts
  BY DEF FleetTypes, ChoicesAreListed, There
<1>2. ReadySelected \subseteq There(list)
  BY <1>1 DEF ReadySelected
<1>3. ASSUME NEW a \in Accounts, ToggleAccount(a) PROVE FleetTypes'
  <2>1. (IF a \in selected THEN selected \ {a} ELSE selected \cup {a}) \cup staged \subseteq There(list)
    BY <1>1, <1>3 DEF ToggleAccount
  <2>. QED  BY <1>1, <1>3, <2>1, ChooseStep DEF ToggleAccount
<1>4. ASSUME NEW shown \in SUBSET Accounts, ToggleAll(shown) PROVE FleetTypes'
  <2>1. (IF shown \subseteq selected THEN {} ELSE shown) \cup staged \subseteq There(list)
    BY <1>1, <1>4 DEF ToggleAll
  <2>. QED  BY <1>1, <1>4, <2>1, ChooseStep DEF ToggleAll
<1>5. CASE runActionWithSelection
  BY <1>1, <1>2, <1>5, ChooseStep DEF runActionWithSelection
<1>6. CASE fetchDialogsForSelection
  <2>. DEFINE ready == {a \in There(list) : list[a].auth /\ ~list[a].err}
              target == IF ReadySelected # {} THEN ReadySelected ELSE ready
  <2>1. target # {} /\ Choose(selected, staged, Min(target))
    BY <1>6 DEF fetchDialogsForSelection
  <2>2. target \subseteq There(list)
    BY <1>2
  <2>3. target \in SUBSET Accounts
    BY <1>1, <2>2
  <2>. HIDE DEF target
  <2>4. Min(target) \in There(list)
    BY <2>1, <2>2, <2>3, FirstIsThere
  <2>. QED  BY <1>1, <2>1, <2>4, ChooseStep
<1>. QED  BY <1>3, <1>4, <1>5, <1>6 DEF Choosing

-------------------------------------------------------------------------------
(* The server carries a request out.                                           *)

HandlerTypes == FleetTypes /\ LoginTypes /\ GuardTypes /\ ReadTypes

LEMMA AcceptedStep ==
    ASSUME HandlerTypes, NEW then \in {"keep", "set", "clear"}, Accepted(then)
    PROVE  HandlerTypes'
<1>1. FleetTypes /\ LoginTypes /\ GuardTypes /\ ReadTypes
  BY DEF HandlerTypes
<1>2. guard' = [op |-> guard.op, acct |-> guard.acct, at |-> "reload", then |-> then]
  BY <1>1 DEF Accepted, GuardTypes, Guards
<1>3. GuardTypes'
  BY <1>1, <1>2, StagedGuard
<1>4. ReadTypes'
  BY <1>1, NoReadTypes, ReadSet DEF Accepted, Readers
<1>5. LoginTypes'
  BY <1>1 DEF Accepted, LoginTypes
<1>6. FleetTypes'
  BY <1>1, FleetKept DEF Accepted
<1>. QED  BY <1>3, <1>4, <1>5, <1>6 DEF HandlerTypes

LEMMA RefusedStep == ASSUME HandlerTypes, Refused PROVE HandlerTypes'
<1>1. FleetTypes /\ LoginTypes /\ GuardTypes /\ ReadTypes
  BY DEF HandlerTypes
<1>2. GuardTypes' /\ ReadTypes' /\ FleetTypes'
  BY <1>1, IdleGuard, ReadKept, FleetKept DEF Refused
<1>3. LoginTypes'
  BY <1>1 DEF Refused, LoginTypes
<1>. QED  BY <1>2, <1>3 DEF HandlerTypes

LEMMA RefusalStep ==
    ASSUME ServerTypes, HandlerTypes, Refusal
    PROVE  ServerTypes' /\ HandlerTypes' /\ UNCHANGED faults
  BY RefusedStep, ServerKept DEF Refusal

\* A record of an account is written.
LEMMA RecordStep ==
    ASSUME srv \in [Accounts -> Records], NEW a \in Accounts, NEW rec \in Records, Record(a, rec)
    PROVE  srv' \in [Accounts -> Records]
  BY DEF Record
LEMMA StatusTypes ==
    ASSUME NEW rec \in Records, NEW st \in Statuses, NEW e \in BOOLEAN
    PROVE  /\ [rec EXCEPT !.st = st] \in Records
           /\ [rec EXCEPT !.st = st, !.err = e] \in Records
<1>1. [rec EXCEPT !.st = st] \in Records
  BY DEF Records
<1>2. [[rec EXCEPT !.st = st] EXCEPT !.err = e] \in Records
  BY <1>1 DEF Records
<1>3. [rec EXCEPT !.st = st, !.err = e] = [[rec EXCEPT !.st = st] EXCEPT !.err = e]
  OBVIOUS
<1>. QED  BY <1>1, <1>2, <1>3

LEMMA CompleteLoginTypes ==
    ASSUME ServerTypes, NEW a \in Accounts, _complete_login(a), UNCHANGED gone
    PROVE  ServerTypes'
<1>1. srv' \in [Accounts -> Records]
  BY RecordStep, RecordTypes DEF _complete_login, ServerTypes
<1>. QED  BY <1>1 DEF _complete_login, ServerTypes

ServeTypes == ServerTypes' /\ HandlerTypes' /\ (Fault \/ UNCHANGED faults)

LEMMA StartLoginStep ==
    ASSUME ServerTypes, HandlerTypes, NEW a \in Accounts, start_login(a)
    PROVE  ServeTypes
<1>1. srv \in [Accounts -> Records] /\ srv[a] \in Records
  BY DEF ServerTypes
<1>2. CASE _complete_login(a) /\ UNCHANGED gone
           /\ Accepted(IF srv'[a].auth THEN "clear" ELSE "set") /\ UNCHANGED faults
  BY <1>2, CompleteLoginTypes, AcceptedStep DEF ServeTypes
<1>3. CASE /\ Record(a, [srv[a] EXCEPT !.st = "login_pending", !.err = FALSE])
           /\ challenge' = [challenge EXCEPT ![a] = "code"]
           /\ UNCHANGED tg /\ UNCHANGED gone
           /\ Accepted(IF srv'[a].auth THEN "clear" ELSE "set") /\ UNCHANGED faults
  <2>1. srv' \in [Accounts -> Records]
    BY <1>1, <1>3, StatusTypes, RecordStep DEF Statuses
  <2>. QED  BY <1>3, <2>1, AcceptedStep DEF ServeTypes, ServerTypes
<1>4. CASE /\ Fault /\ Record(a, [srv[a] EXCEPT !.st = "error", !.err = TRUE])
           /\ Refused /\ UNCHANGED <<challenge, tg, gone>>
  <2>1. srv' \in [Accounts -> Records]
    BY <1>1, <1>4, StatusTypes, RecordStep DEF Statuses
  <2>. QED  BY <1>4, <2>1, RefusedStep DEF ServeTypes, ServerTypes
<1>. QED  BY <1>2, <1>3, <1>4 DEF start_login

LEMMA ConfirmCodeStep ==
    ASSUME ServerTypes, HandlerTypes, NEW a \in Accounts, confirm_code(a)
    PROVE  ServeTypes
<1>1. srv \in [Accounts -> Records] /\ srv[a] \in Records
  BY DEF ServerTypes
<1>2. CASE Refusal
  BY <1>2, RefusalStep DEF ServeTypes
<1>3. CASE /\ Record(a, [srv[a] EXCEPT !.st = "password_pending"])
           /\ challenge' = [challenge EXCEPT ![a] = "password"] /\ UNCHANGED tg
           /\ Accepted(AfterCode(a)) /\ UNCHANGED <<gone, faults>>
  <2>1. srv' \in [Accounts -> Records]
    BY <1>1, <1>3, StatusTypes, RecordStep DEF Statuses
  <2>. QED  BY <1>3, <2>1, AcceptedStep DEF AfterCode, ServeTypes, ServerTypes
<1>4. CASE _complete_login(a) /\ Accepted(AfterCode(a)) /\ UNCHANGED <<gone, faults>>
  BY <1>4, CompleteLoginTypes, AcceptedStep DEF AfterCode, ServeTypes
<1>5. CASE /\ Fault /\ Record(a, [srv[a] EXCEPT !.st = "login_pending", !.err = TRUE])
           /\ Refused /\ UNCHANGED <<challenge, tg, gone>>
  <2>1. srv' \in [Accounts -> Records]
    BY <1>1, <1>5, StatusTypes, RecordStep DEF Statuses
  <2>. QED  BY <1>5, <2>1, RefusedStep DEF ServeTypes, ServerTypes
<1>. QED  BY <1>2, <1>3, <1>4, <1>5 DEF confirm_code

LEMMA ConfirmPasswordStep ==
    ASSUME ServerTypes, HandlerTypes, NEW a \in Accounts, confirm_password(a)
    PROVE  ServeTypes
<1>1. srv \in [Accounts -> Records] /\ srv[a] \in Records
  BY DEF ServerTypes
<1>2. CASE Refusal
  BY <1>2, RefusalStep DEF ServeTypes
<1>3. CASE _complete_login(a) /\ Accepted("keep") /\ UNCHANGED <<gone, faults>>
  BY <1>3, CompleteLoginTypes, AcceptedStep DEF ServeTypes
<1>4. CASE /\ Fault /\ Record(a, [srv[a] EXCEPT !.st = "password_pending", !.err = TRUE])
           /\ Refused /\ UNCHANGED <<challenge, tg, gone>>
  <2>1. srv' \in [Accounts -> Records]
    BY <1>1, <1>4, StatusTypes, RecordStep DEF Statuses
  <2>. QED  BY <1>4, <2>1, RefusedStep DEF ServeTypes, ServerTypes
<1>. QED  BY <1>2, <1>3, <1>4 DEF confirm_password

LEMMA ValidatedTypes == ASSUME NEW a PROVE Validated(a) \in Records
  BY RecordTypes DEF Validated, Records, Statuses

\* A record is written, the account's session comes or goes, and the handler is
\* to refresh.
Written ==
    /\ \E a \in Accounts, rec \in Records : Record(a, rec)
    /\ tg' \subseteq Accounts /\ gone' \subseteq Accounts
    /\ Accepted("keep") /\ UNCHANGED <<challenge, faults>>
LEMMA WrittenStep == ASSUME ServerTypes, HandlerTypes, Written PROVE ServeTypes
<1>1. srv' \in [Accounts -> Records]
  BY RecordStep DEF Written, ServerTypes
<1>. QED  BY <1>1, AcceptedStep DEF Written, ServeTypes, ServerTypes

LEMMA ManageStep ==
    ASSUME ServerTypes, HandlerTypes, NEW a \in Accounts,
           validate_account(a) \/ logout_account(a) \/ delete_local_session(a) \/ edit_account(a)
    PROVE  ServeTypes
<1>1. tg \subseteq Accounts /\ gone \subseteq Accounts
  BY DEF ServerTypes
<1>2. CASE Refusal
  BY <1>2, RefusalStep DEF ServeTypes
<1>3. CASE validate_account(a) /\ ~Refusal
  BY <1>1, <1>3, ValidatedTypes, WrittenStep DEF validate_account, Written
<1>4. CASE /\ Record(a, [st |-> "stopped", auth |-> FALSE, err |-> FALSE])
           /\ tg' = tg \ {a} /\ Accepted("keep") /\ UNCHANGED <<challenge, gone, faults>>
  <2>1. [st |-> "stopped", auth |-> FALSE, err |-> FALSE] \in Records
    BY DEF Records, Statuses
  <2>. QED  BY <1>1, <1>4, <2>1, WrittenStep DEF Written
<1>5. CASE delete_local_session(a) /\ ~Refusal
  BY <1>1, <1>5, RecordTypes, WrittenStep DEF delete_local_session, Written
<1>6. CASE edit_account(a) /\ ~Refusal
  BY <1>6, ServerKept, AcceptedStep DEF edit_account, ServeTypes
<1>7. CASE Fault /\ tg' = tg \ {a} /\ Refused /\ UNCHANGED <<srv, challenge, gone>>
  BY <1>7, RefusedStep DEF ServeTypes, ServerTypes
<1>8. CASE logout_account(a)
  BY <1>2, <1>4, <1>7, <1>8 DEF logout_account
<1>. QED  BY <1>2, <1>3, <1>5, <1>6, <1>8

LEMMA FleetOpStep ==
    ASSUME ServerTypes, HandlerTypes,
           validate_all_accounts \/ import_session_files \/ export_sessions
    PROVE  ServeTypes
<1>1. CASE Refusal
  BY <1>1, RefusalStep DEF ServeTypes
<1>2. CASE validate_all_accounts
  <2>1. srv' \in [Accounts -> Records] /\ Accepted("keep") /\ UNCHANGED <<challenge, tg, gone>>
    BY <1>2, ValidatedTypes DEF validate_all_accounts, ServerTypes
  <2>2. Fault \/ UNCHANGED faults
    BY <1>2 DEF validate_all_accounts
  <2>. QED  BY <2>1, <2>2, AcceptedStep DEF ServeTypes, ServerTypes
<1>3. CASE import_session_files /\ ~Refusal
  <2>1. PICK a \in Unused, live \in BOOLEAN :
            /\ tg' = IF live THEN tg \cup {a} ELSE tg \ {a}
            /\ Record(a, IF live THEN Ready
                         ELSE [st |-> "stopped", auth |-> FALSE, err |-> TRUE])
            /\ Accepted("keep") /\ UNCHANGED <<challenge, gone, faults>>
    BY <1>3 DEF import_session_files
  <2>2. a \in Accounts
    BY DEF Unused
  <2>3. (IF live THEN Ready ELSE [st |-> "stopped", auth |-> FALSE, err |-> TRUE]) \in Records
    BY RecordTypes DEF Records, Statuses
  <2>. QED  BY <2>1, <2>2, <2>3, WrittenStep DEF Written, ServerTypes
<1>. QED  BY <1>1, <1>2, <1>3 DEF export_sessions

LEMMA ServeStep == ASSUME ServerTypes, HandlerTypes, Serve PROVE ServeTypes
<1>1. guard.op \in OfOneAccount => guard.acct \in Accounts
  BY DEF HandlerTypes, GuardTypes, HandlerHasItsAccount
<1>4. CASE RequestFails
  BY <1>4, ServerKept, RefusedStep DEF RequestFails, ServeTypes
<1>2. CASE guard.op \in OfOneAccount /\ ~RequestFails
  <2>1. guard.acct \in Accounts
    BY <1>1, <1>2
  <2>2. \/ start_login(guard.acct) \/ confirm_code(guard.acct) \/ confirm_password(guard.acct)
        \/ validate_account(guard.acct) \/ logout_account(guard.acct)
        \/ delete_local_session(guard.acct) \/ edit_account(guard.acct)
    BY <1>2 DEF Serve, OfOneAccount, Steps
  <2>. QED  BY <2>1, <2>2, StartLoginStep, ConfirmCodeStep, ConfirmPasswordStep, ManageStep
<1>3. CASE guard.op \notin OfOneAccount /\ ~RequestFails
  <2>1. validate_all_accounts \/ import_session_files \/ export_sessions
    BY <1>3 DEF Serve, OfOneAccount, Steps
  <2>. QED  BY <2>1, FleetOpStep
<1>. QED  BY <1>2, <1>3, <1>4

LEMMA RevokedStep == ASSUME ServerTypes, NEW a \in Accounts, SessionRevoked(a) PROVE ServerTypes'
<1>. DEFINE marked == [srv EXCEPT ![a].auth = FALSE, ![a].err = srv[a].st # "absent"]
            rec == [[srv[a] EXCEPT !.auth = FALSE] EXCEPT !.err = srv[a].st # "absent"]
<1>1. srv \in [Accounts -> Records] /\ srv[a] \in Records
  BY DEF ServerTypes
<1>2. rec \in Records
  BY <1>1 DEF Records
<1>3. marked = [srv EXCEPT ![a] = rec]
  BY <1>1
<1>4. srv' = srv \/ srv' = marked
  BY DEF SessionRevoked
<1>5. srv' \in [Accounts -> Records]
  <2>. HIDE DEF rec, marked
  <2>. QED  BY <1>1, <1>2, <1>3, <1>4
<1>. QED  BY <1>5 DEF SessionRevoked, ServerTypes

-------------------------------------------------------------------------------
(* The invariant.                                                              *)

LEMMA InitIInv == Init => IInv
<1>1. SUFFICES ASSUME Init PROVE IInv
  OBVIOUS
<1>2. ServerTypes
  BY <1>1, LoggedTypes, AccountsAssumption DEF Init, ServerTypes
<1>3. FleetTypes
  BY <1>1, RecordTypes DEF Init, FleetTypes, ChoicesAreListed
<1>4. LoginTypes
  BY <1>1 DEF Init, LoginTypes
<1>5. GuardTypes
  <2>1. guard \in Guards
    BY <1>1 DEF Init, Idle, Guards
  <2>2. guard.op \notin OfOneAccount
    BY <1>1 DEF Init, Idle, OfOneAccount, Steps
  <2>. QED  BY <2>1, <2>2 DEF GuardTypes, HandlerHasItsAccount
<1>6. ReadTypes
  <2>1. [at |-> "answered", snap |-> Logged(First)] \in Reads
    BY LoggedTypes DEF Reads
  <2>. QED  BY <1>1, <2>1, NoReadTypes DEF Init, ReadTypes
<1>7. SlipTypes /\ FaultTypes
  BY <1>1, BoundsAssumption DEF Init, SlipTypes, FaultTypes
<1>. QED  BY <1>2, <1>3, <1>4, <1>5, <1>6, <1>7, InvParts

AllKept == ServerTypes /\ HandlerTypes /\ SlipTypes /\ FaultTypes
LEMMA NextStep == IInv /\ [Next]_vars => IInv'
<1>1. SUFFICES ASSUME IInv, [Next]_vars PROVE IInv'
  OBVIOUS
<1>2. /\ ServerTypes /\ FleetTypes /\ LoginTypes /\ GuardTypes /\ ReadTypes
      /\ SlipTypes /\ FaultTypes /\ HandlerTypes
  BY <1>1, InvParts DEF HandlerTypes
<1>3. SUFFICES AllKept'
  BY DEF AllKept, HandlerTypes, IInv, TypeOK, ServerTypes, FleetTypes, LoginTypes, GuardTypes,
         ReadTypes, SlipTypes, FaultTypes
<1>. USE DEF AllKept, HandlerTypes
<1>a. CASE Serve
  <2>1. ServeTypes /\ UNCHANGED slips
    BY <1>2, <1>a, ServeStep DEF Serve
  <2>. QED  BY <1>2, <2>1, SlipTyped, FaultTyped DEF ServeTypes
<1>b. CASE ServerReads
  BY <1>2, <1>b, AnsweredTypes, ServerKept, ConsoleKept, GuardKept, SlipTyped, FaultTyped
  DEF ServerReads, Readers
<1>c. ASSUME NEW r \in Readers, Lands(r) PROVE AllKept'
  BY <1>2, <1>c, LandStep, ServerKept, SlipTyped, FaultTyped DEF Lands
<1>d. ASSUME NEW r \in Readers, ReadFails(r) PROVE AllKept'
  BY <1>2, <1>d, ReadFailStep, ServerKept, FleetKept, SlipTyped, FaultTyped DEF ReadFails
<1>e. CASE CloseSettings
  BY <1>2, <1>e, AnsweredTypes, ServerKept, ConsoleKept, GuardKept, SlipTyped, FaultTyped
  DEF CloseSettings, Readers
<1>f. CASE Choosing
  <2>1. /\ Slip /\ UNCHANGED <<server, pending, loginError, guard, reads, faults>>
    BY <1>f DEF Choosing, ToggleAccount, ToggleAll, runActionWithSelection,
                fetchDialogsForSelection, Choose
  <2>. QED  BY <1>2, <1>f, <2>1, ChoosingStep, ServerKept, LoginKept, GuardKept, ReadKept,
               SlipTyped, FaultTyped
<1>g. CASE Begins
  <2>1. PICK op \in Ops, a \in Accounts \cup {NoAccount} :
            Begin(op, a) /\ (op \in OfOneAccount => a \in Accounts)
    BY <1>g DEF Begins
  <2>2. GuardTypes' /\ ReadTypes'
    BY <1>2, <2>1, BeginStep
  <2>3. UNCHANGED <<server, console, faults>>
    BY <2>1 DEF Begin
  <2>4. Slip \/ UNCHANGED slips
    BY <1>g DEF Begins
  <2>. QED  BY <1>2, <2>2, <2>3, <2>4, ServerKept, ConsoleKept, SlipTyped, FaultTyped
<1>h. ASSUME NEW a \in Accounts, SessionRevoked(a) PROVE AllKept'
  BY <1>2, <1>h, RevokedStep, ConsoleKept, GuardKept, ReadKept, SlipTyped, FaultTyped
  DEF SessionRevoked
<1>i. ASSUME NEW a \in Accounts \cup {NoAccount}, PickPending(a) PROVE AllKept'
  <2>1. LoginTypes'
    BY <1>2, <1>i DEF PickPending, LoginTypes
  <2>. QED  BY <1>2, <1>i, <2>1, ServerKept, FleetKept, GuardKept, ReadKept, SlipTyped, FaultTyped
            DEF PickPending
<1>j. ASSUME NEW yes \in BOOLEAN, AnswerDialog(yes) PROVE AllKept'
  BY <1>2, <1>j, AnswerStep, ServerKept, ConsoleKept, ReadKept, SlipTyped, FaultTyped
  DEF AnswerDialog
<1>k. CASE ServerRestarts
  <2>1. \A rec \in Records : Restarted(rec) \in Records
    BY DEF Restarted, Records, Statuses
  <2>2. srv' \in [Accounts -> Records]
    BY <1>2, <1>k, <2>1 DEF ServerRestarts, ServerTypes
  <2>3. ServerTypes'
    BY <1>2, <1>k, <2>2 DEF ServerRestarts, ServerTypes
  <2>. QED  BY <1>2, <1>k, <2>3, ConsoleKept, GuardKept, ReadKept, SlipTyped, FaultTyped
            DEF ServerRestarts
<1>l. CASE UNCHANGED vars
  BY <1>2, <1>l, ServerKept, ConsoleKept, GuardKept, ReadKept, SlipTyped, FaultTyped DEF vars
<1>. HIDE DEF AllKept, HandlerTypes
<1>m. CASE Network
  BY <1>a, <1>b, <1>c, <1>m DEF Network
<1>n. ASSUME NEW a \in Accounts,
             \/ ClickStart(a) \/ ClickCode(a) \/ ClickPassword(a)
             \/ \E op \in {"validate", "logout", "delete", "edit"} : ClickRow(op, a)
      PROVE AllKept'
  BY <1>g, <1>n, AccountClicks
<1>o. ASSUME NEW op \in {"validateAll", "import", "export", "refresh"}, ClickFleet(op)
      PROVE AllKept'
  BY <1>g, <1>o, FleetClicks
<1>. QED
  BY <1>1, <1>d, <1>e, <1>f, <1>h, <1>i, <1>j, <1>k, <1>l, <1>m, <1>n, <1>o DEF Next

LEMMA Inductive == Spec => []IInv
  BY InitIInv, NextStep, PTL DEF Spec

\* Every variable has its type, and a handler that acts on an account has one.
THEOREM TypeCorrect == Spec => [](TypeOK /\ HandlerHasItsAccount)
<1>1. IInv => TypeOK /\ HandlerHasItsAccount
  BY DEF IInv
<1>. QED  BY <1>1, Inductive, PTL

\* Whatever is selected, staged for Actions or browsed is on the list that is
\* shown, in whatever order refreshes, deletions and imports come.
THEOREM ChoicesStayListed == Spec => []ChoicesAreListed
<1>1. IInv => ChoicesAreListed
  BY DEF IInv
<1>. QED  BY <1>1, Inductive, PTL
-------------------------------------------------------------------------------
(* The query cache from which the other lists of the client are read: proofs    *)
(* about ResourceCache, which shares nothing with the Accounts screen.          *)

\* What a reload can count on that was not handed an old answer: its request has
\* not been read at the server yet, or was read after the save.
FetchIsOwn ==
    \/ fetch.at = "asked"
    \/ fetch.at = "answered" /\ fetch.val >= job.val
ReloadIsCovered ==
    job.at = "reload" => /\ kind \in Lists
                         /\ job.val <= version
                         /\ ~outdated => FetchIsOwn
\* The server has no version of a list that nobody wrote yet.
SrvIsOld == kind \in Lists => version <= newest
CacheInv == CacheTypeOK /\ SrvIsOld /\ ReloadIsCovered

\* The values at rest are of their types.
LEMMA CacheAtRest ==
    0 \in Versions /\ NoFetch \in Fetches /\ NoJob \in Jobs
<1>1. 0 \in Versions
  BY VersionAssumption DEF Versions
<1>2. NoFetch \in Fetches
  BY <1>1 DEF NoFetch, Fetches
<1>3. NoJob \in Jobs
  BY <1>1 DEF NoJob, Jobs
<1>. QED  BY <1>1, <1>2, <1>3

\* The initial state satisfies the invariant.
LEMMA CacheInitInv ==
    CacheInit => CacheInv
<1>1. SUFFICES ASSUME CacheInit PROVE CacheInv
  OBVIOUS
<1>2. /\ kind \in Kinds /\ version = 0 /\ cache = Empty /\ fetch = NoFetch /\ job = NoJob
      /\ outdated = FALSE /\ other = FALSE /\ newest = 0 /\ failures = 0
  BY <1>1 DEF CacheInit
<1>3. version \in Versions /\ cache \in Versions \cup {Empty} /\ newest \in Versions
  BY <1>2, CacheAtRest
<1>4. fetch \in Fetches /\ job \in Jobs /\ failures \in 0..MaxFailures
  BY <1>2, CacheAtRest, VersionAssumption
<1>5. CacheTypeOK
  BY <1>2, <1>3, <1>4 DEF CacheTypeOK
<1>6. version <= newest /\ job.at # "reload"
  BY <1>2 DEF NoJob
<1>. QED  BY <1>5, <1>6 DEF CacheInv, SrvIsOld, ReloadIsCovered

\* A write gets a version of the type.
LEMMA FreshIsVersion ==
    ASSUME newest \in Versions, CanWrite
    PROVE  Fresh \in Versions /\ Fresh > newest
  BY VersionAssumption DEF Versions, CanWrite, Fresh

\* Every variable keeps its type: one step per action.
LEMMA CacheTypeStep ==
    CacheTypeOK /\ [CacheNext]_cacheVars => CacheTypeOK'
<1>1. SUFFICES ASSUME CacheTypeOK, [CacheNext]_cacheVars PROVE CacheTypeOK'
  OBVIOUS
<1>2. /\ kind \in Kinds /\ version \in Versions /\ cache \in Versions \cup {Empty}
      /\ fetch \in Fetches /\ job \in Jobs /\ outdated \in BOOLEAN /\ other \in BOOLEAN
      /\ newest \in Versions /\ failures \in 0..MaxFailures
  BY <1>1 DEF CacheTypeOK
<1>3. fetch.val \in Versions /\ job.val \in Versions /\ job.prev \in Versions \cup {Empty}
  BY <1>2 DEF Fetches, Jobs
<1>4. failures < MaxFailures => failures + 1 \in 0..MaxFailures
  BY <1>2, VersionAssumption
<1>a. CASE AutoFetch
  <2>1. fetch' \in Fetches
    BY <1>a, CacheAtRest DEF AutoFetch, Ask, Fetches
  <2>. QED  BY <1>2, <1>a, <2>1 DEF AutoFetch, Ask, CacheTypeOK
<1>b. CASE ServerAnswers
  <2>1. fetch' \in Fetches
    BY <1>2, <1>b DEF ServerAnswers, Fetches
  <2>. QED  BY <1>2, <1>b, <2>1 DEF ServerAnswers, CacheTypeOK
<1>c. CASE FetchLands
  BY <1>2, <1>3, <1>c, CacheAtRest DEF FetchLands, CacheTypeOK
<1>d. CASE PostSucceeds
  <2>1. CASE kind \in Lists
    <3>1. Fresh \in Versions /\ newest' = Fresh /\ version' = Fresh /\ reload
      BY <1>2, <1>d, <2>1, FreshIsVersion DEF PostSucceeds
    <3>2. job' \in Jobs
      BY <1>2, <1>d, <2>1, <3>1 DEF PostSucceeds, Jobs
    <3>3. fetch' \in Fetches
      BY <1>2, <3>1, CacheAtRest DEF reload, Fetches
    <3>4. outdated' \in BOOLEAN
      BY <3>1 DEF reload, Fetching
    <3>. QED  BY <1>2, <1>d, <3>1, <3>2, <3>3, <3>4 DEF PostSucceeds, CacheTypeOK
  <2>2. CASE kind \notin Lists
    BY <1>2, <1>3, <1>d, <2>2, CacheAtRest DEF PostSucceeds, CacheTypeOK
  <2>. QED  BY <2>1, <2>2
<1>e. CASE FetchFails
  BY <1>2, <1>4, <1>e, CacheAtRest DEF FetchFails, CacheTypeOK
<1>f. CASE ClickSaveList
  <2>1. job' \in Jobs
    BY <1>f, CacheAtRest DEF ClickSaveList, Jobs
  <2>. QED  BY <1>2, <1>f, <2>1 DEF ClickSaveList, CacheTypeOK
<1>g. CASE ClickToggle
  <2>1. Fresh \in Versions
    BY <1>2, <1>g, FreshIsVersion DEF ClickToggle
  <2>2. job' \in Jobs
    BY <1>2, <1>g, <2>1 DEF ClickToggle, Jobs
  <2>. QED  BY <1>2, <1>g, <2>1, <2>2 DEF ClickToggle, CacheTypeOK
<1>h. CASE Edit
  BY <1>2, <1>h, FreshIsVersion DEF Edit, CacheTypeOK
<1>i. CASE ClickSaveForm
  <2>1. job' \in Jobs
    BY <1>2, <1>i DEF ClickSaveForm, Jobs
  <2>. QED  BY <1>2, <1>i, <2>1 DEF ClickSaveForm, CacheTypeOK
<1>j. CASE PostFails
  <2>1. version' \in Versions /\ cache' \in Versions \cup {Empty}
    BY <1>2, <1>3, <1>j DEF PostFails
  <2>. QED  BY <1>2, <1>4, <1>j, <2>1, CacheAtRest DEF PostFails, CacheTypeOK
<1>k. CASE ServerMoves
  <2>1. CanWrite
    BY <1>2, <1>k, VersionAssumption DEF ServerMoves, CanWrite, Versions
  <2>. QED  BY <1>2, <1>k, <2>1, FreshIsVersion DEF ServerMoves, CacheTypeOK
<1>l. CASE OtherHandler
  BY <1>2, <1>l DEF OtherHandler, CacheTypeOK
<1>m. CASE UNCHANGED cacheVars
  BY <1>2, <1>m DEF cacheVars, CacheTypeOK
<1>. QED
  BY <1>1, <1>a, <1>b, <1>c, <1>d, <1>e, <1>f, <1>g, <1>h, <1>i, <1>j, <1>k, <1>l, <1>m
  DEF CacheNext, CacheAnswers

\* The versions of the server and the cover of a reload are kept as well.
LEMMA CoverStep ==
    CacheInv /\ [CacheNext]_cacheVars => (SrvIsOld /\ ReloadIsCovered)'
<1>1. SUFFICES ASSUME CacheInv, [CacheNext]_cacheVars PROVE SrvIsOld' /\ ReloadIsCovered'
  OBVIOUS
<1>2. /\ version \in Nat /\ newest \in Nat /\ job.val \in Nat /\ fetch.val \in Nat
      /\ job \in Jobs /\ fetch \in Fetches
      /\ kind \in Lists => version <= newest
  BY <1>1, VersionAssumption DEF CacheInv, SrvIsOld, CacheTypeOK, Versions, Fetches, Jobs
<1>3. job.at = "reload" => kind \in Lists /\ job.val <= version /\ (~outdated => FetchIsOwn)
  BY <1>1 DEF CacheInv, ReloadIsCovered
<1>. USE DEF SrvIsOld, ReloadIsCovered, FetchIsOwn
<1>a. CASE AutoFetch
  BY <1>2, <1>3, <1>a DEF AutoFetch, Ask, Fetching
<1>b. CASE ServerAnswers
  BY <1>2, <1>3, <1>b DEF ServerAnswers
<1>c. CASE FetchLands
  BY <1>2, <1>3, <1>c DEF FetchLands, NoJob
<1>d. CASE PostSucceeds
  <2>1. CASE kind \in Lists
    <3>1. version' = newest + 1 /\ newest' = newest + 1 /\ kind' = kind /\ reload
      BY <1>d, <2>1 DEF PostSucceeds, Fresh
    <3>2. job'.at = "reload" /\ job'.val = newest + 1
      BY <1>2, <1>d, <2>1 DEF PostSucceeds, Fresh, Jobs
    <3>3. ~outdated' => fetch'.at = "asked"
      BY <1>2, <3>1 DEF reload, Fetching, Fetches
    <3>. QED  BY <1>2, <2>1, <3>1, <3>2, <3>3
  <2>2. CASE kind \notin Lists
    <3>1. job' = NoJob /\ kind' = kind
      BY <1>d, <2>2 DEF PostSucceeds
    <3>. QED  BY <2>2, <3>1 DEF NoJob
  <2>. QED  BY <2>1, <2>2
<1>e. CASE FetchFails
  BY <1>2, <1>3, <1>e DEF FetchFails, NoJob
<1>f. CASE ClickSaveList
  BY <1>2, <1>f DEF ClickSaveList
<1>g. CASE ClickToggle
  BY <1>2, <1>3, <1>g DEF ClickToggle, Fresh, Lists
<1>h. CASE Edit
  BY <1>2, <1>3, <1>h DEF Edit, Fresh
<1>i. CASE ClickSaveForm
  BY <1>2, <1>i DEF ClickSaveForm
<1>j. CASE PostFails
  BY <1>2, <1>3, <1>j DEF PostFails, NoJob
<1>k. CASE ServerMoves
  BY <1>2, <1>3, <1>k DEF ServerMoves, Fresh
<1>l. CASE OtherHandler
  BY <1>2, <1>3, <1>l DEF OtherHandler
<1>m. CASE UNCHANGED cacheVars
  BY <1>2, <1>3, <1>m DEF cacheVars
<1>. QED
  BY <1>1, <1>a, <1>b, <1>c, <1>d, <1>e, <1>f, <1>g, <1>h, <1>i, <1>j, <1>k, <1>l, <1>m
  DEF CacheNext, CacheAnswers

\* The invariant is inductive.
LEMMA CacheInductive ==
    CacheSpec => []CacheInv
<1>1. CacheInit => CacheInv
  BY CacheInitInv
<1>2. CacheInv /\ [CacheNext]_cacheVars => CacheInv'
  BY CacheTypeStep, CoverStep DEF CacheInv
<1>. QED  BY <1>1, <1>2, PTL DEF CacheSpec

\* Every variable of the cache has its type, for every bound.
THEOREM CacheTypeCorrect ==
    CacheSpec => []CacheTypeOK
<1>1. CacheInv => CacheTypeOK
  BY DEF CacheInv
<1>. QED  BY <1>1, CacheInductive, PTL

\* A reload that ends without a failure leaves a list at least as new as the save
\* it follows, however polls, answers and failures interleave, unless it was
\* handed an answer the server had read before that save.
THEOREM OwnReloadShowsTheWrite ==
    CacheSpec => ReloadShowsTheWrite
<1>1. ASSUME CacheInv, [CacheNext]_cacheVars
      PROVE  [(job.at = "reload" /\ job'.at = "idle" /\ ~outdated /\ failures' = failures)
                 => cache' >= job.val]_cacheVars
  <2>1. SUFFICES ASSUME job.at = "reload", job'.at = "idle", ~outdated, failures' = failures
                 PROVE  cache' >= job.val
    OBVIOUS
  <2>2. /\ job \in Jobs /\ fetch \in Fetches /\ failures \in Nat /\ FetchIsOwn
        /\ job.val \in Nat /\ fetch.val \in Nat
    BY <1>1, <2>1, VersionAssumption DEF CacheInv, CacheTypeOK, ReloadIsCovered, Versions, Fetches, Jobs
  <2>3. CASE FetchLands
    BY <2>2, <2>3 DEF FetchLands, FetchIsOwn
  <2>4. CASE PostSucceeds \/ PostFails \/ ClickSaveList \/ ClickSaveForm
    BY <2>1, <2>4
    DEF PostSucceeds, PostFails, ClickSaveList, ClickSaveForm, HandlerFree
  <2>5. CASE FetchFails
    BY <2>1, <2>2, <2>5 DEF FetchFails
  <2>6. CASE \/ AutoFetch \/ ServerAnswers \/ Edit \/ ServerMoves
             \/ OtherHandler \/ UNCHANGED cacheVars
    BY <2>1, <2>6
    DEF AutoFetch, Ask, ServerAnswers, Edit, ServerMoves, OtherHandler, cacheVars
  <2>7. CASE ClickToggle
    BY <2>1, <2>7 DEF ClickToggle, HandlerFree
  <2>. QED  BY <1>1, <2>3, <2>4, <2>5, <2>6, <2>7 DEF CacheNext, CacheAnswers
<1>. QED  BY <1>1, CacheInductive, PTL DEF CacheSpec, ReloadShowsTheWrite
===============================================================================
