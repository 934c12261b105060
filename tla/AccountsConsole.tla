---------------------------- MODULE AccountsConsole ----------------------------
(* The Accounts screen of the web client and what it drives at the server: the  *)
(* fleet list and the choices made from it (useAccountState, FleetTab,          *)
(* AccountsTable, TransferTab), the operations on an account, and the login     *)
(* flow (useAccountLoginFlow) with the challenges AccountManager keeps.  A      *)
(* refresh reads the server at one time and is applied at another, and nothing  *)
(* orders two of them.  Labels, photos and files are left out.                  *)
EXTENDS Naturals, FiniteSetsExt

CONSTANTS
    Accounts, NoAccount,
    TwoFactor,    \* the accounts Telegram asks a password for
    First,        \* the accounts that exist, logged in, at the start
    MaxSlips,     \* bound: clicks that are not a step of a login
    MaxFaults     \* bound: failures, wrong codes, restarts, revoked sessions

ASSUME AccountsAssumption ==
    Accounts \subseteq Nat /\ NoAccount \notin Accounts /\ TwoFactor \subseteq Accounts /\ First \subseteq Accounts
ASSUME BoundsAssumption == MaxSlips \in Nat /\ MaxFaults \in Nat

VARIABLES
    srv,          \* manager.accounts
    challenge,    \* manager.pending_logins, and how far Telegram has come
    tg,           \* the sessions Telegram recognises
    gone,         \* deleted ids: a uuid is not used again
    list,         \* accounts, as the last applied refresh read them
    selected,     \* selectedIds
    staged,       \* actionAccountIds
    dialog,       \* dialogAccountId
    pending,      \* pendingAccountId
    loginError,   \* the step whose error is shown
    guard,        \* the handler inside guarded
    reads,        \* refreshes in flight: the handler's, and one outside guarded
    slips, faults

server == <<srv, challenge, tg, gone>>
fleet == <<list, selected, staged, dialog>>
console == <<fleet, pending, loginError>>
vars == <<server, console, guard, reads, slips, faults>>

Statuses == {"absent", "stopped", "login_pending", "password_pending", "error"}
Records == [st : Statuses, auth : BOOLEAN, err : BOOLEAN]
Absent == [st |-> "absent", auth |-> FALSE, err |-> FALSE]
Ready == [st |-> "stopped", auth |-> TRUE, err |-> FALSE]
There(f) == {a \in Accounts : f[a].st # "absent"}

Steps == {"request", "code", "2fa"}
Asking == {"logout", "delete", "edit", "export"}
Ops == Steps \cup Asking \cup {"validate", "validateAll", "import", "refresh"}
Idle == [op |-> "none", acct |-> NoAccount, at |-> "idle", then |-> "keep"]
Guards == [op : Ops \cup {"none"}, acct : Accounts \cup {NoAccount},
           at : {"idle", "ask", "post", "reload"}, then : {"keep", "set", "clear"}]
Readers == {"handler", "modal"}
Reads == [at : {"none", "asked", "answered"}, snap : [Accounts -> Records]]
NoRead == [at |-> "none", snap |-> [a \in Accounts |-> Absent]]
Asked == [NoRead EXCEPT !.at = "asked"]
Logged(ids) == [a \in Accounts |-> IF a \in ids THEN Ready ELSE Absent]

GuardFree == guard.op = "none"
DialogOpen == guard.at = "ask"
Slip == slips < MaxSlips /\ slips' = slips + 1
Fault == faults < MaxFaults /\ faults' = faults + 1

\* The first refresh is made outside guarded.
Init ==
    /\ srv = Logged(First)
    /\ challenge = [a \in Accounts |-> "none"] /\ tg = First /\ gone = {}
    /\ list = [a \in Accounts |-> Absent]
    /\ selected = {} /\ staged = {} /\ dialog = NoAccount
    /\ pending = NoAccount /\ loginError = "none"
    /\ guard = Idle
    /\ reads = [r \in Readers |-> IF r = "modal" THEN [at |-> "answered", snap |-> Logged(First)] ELSE NoRead]
    /\ slips = 0 /\ faults = 0

-------------------------------------------------------------------------------
(* refresh.                                                                    *)

DialogAccount(snap) ==
    CASE dialog \in There(snap) -> dialog
      [] There(snap) = {} -> NoAccount
      [] OTHER -> Min(There(snap))
Filtered(ids, snap) == ids \cap There(snap)
\* Mutant: the choices are filtered by the list that is shown, not by the answer.
ApplyToShown(snap) ==
    /\ list' = snap
    /\ selected' = Filtered(selected, list) /\ staged' = Filtered(staged, list)
    /\ dialog' = DialogAccount(snap)
\* The answer replaces the list; known ids stay chosen, and the dialogs' account
\* falls back to the first one.
Apply(snap) ==
    /\ list' = snap
    /\ selected' = Filtered(selected, snap) /\ staged' = Filtered(staged, snap)
    /\ dialog' = DialogAccount(snap)

ServerReads ==
    /\ reads["handler"].at = "asked"
    /\ reads' = [reads EXCEPT !["handler"] = [at |-> "answered", snap |-> srv]]
    /\ UNCHANGED <<server, console, guard, slips, faults>>

\* What a handler does with the login after its refresh.
Then ==
    pending' = CASE guard.then = "set" -> guard.acct
                 [] guard.then = "clear" -> NoAccount
                 [] OTHER -> pending
\* runStep clears the error of its own step only.
Cleared == IF loginError = guard.op THEN "none" ELSE loginError

Lands(r) ==
    /\ reads[r].at = "answered"
    /\ Apply(reads[r].snap)
    /\ reads' = [reads EXCEPT ![r] = NoRead]
    /\ IF r = "handler" THEN Then /\ guard' = Idle /\ loginError' = Cleared
                        ELSE UNCHANGED <<pending, guard, loginError>>
    /\ UNCHANGED <<server, slips, faults>>

\* A refresh is refused: its handler ends without the rest.
ReadFails(r) ==
    /\ reads[r].at # "none" /\ Fault
    /\ reads' = [reads EXCEPT ![r] = NoRead]
    /\ IF r = "handler"
       THEN /\ guard' = Idle
            /\ loginError' = IF guard.op \in Steps THEN guard.op ELSE loginError
       ELSE UNCHANGED <<guard, loginError>>
    /\ UNCHANGED <<server, fleet, pending, slips>>

\* Closing the account settings refreshes outside guarded.  Nothing waits for
\* this request, so it is modelled from the moment the server reads.
CloseSettings ==
    /\ reads["modal"].at = "none" /\ There(list) # {} /\ ~DialogOpen /\ Slip
    /\ reads' = [reads EXCEPT !["modal"] = [at |-> "answered", snap |-> srv]]
    /\ UNCHANGED <<server, console, guard, faults>>

-------------------------------------------------------------------------------
(* Clicks.                                                                     *)

Begin(op, a) ==
    /\ GuardFree
    /\ guard' = [op |-> op, acct |-> a, then |-> "keep",
                 at |-> IF op \in Asking THEN "ask"
                        ELSE IF op = "refresh" THEN "reload" ELSE "post"]
    /\ reads' = IF op = "refresh" THEN [reads EXCEPT !["handler"] = Asked] ELSE reads
    /\ UNCHANGED <<server, console, faults>>

\* FinishLoginPanel offers both forms while the pending account is listed.
Offered(a) == pending = a /\ a \in There(list)
NeedsPassword(a) == list[a].st = "password_pending"

\* A step is the operator's next one, or else one of the bounded slips.
Sensibly(right) == IF right THEN UNCHANGED slips ELSE Slip
ClickStart(a) ==
    /\ a \notin gone
    /\ Sensibly(~list[a].auth /\ (~Offered(a) \/ loginError # "none"))
    /\ Begin("request", a)
ClickCode(a) == Offered(a) /\ Sensibly(~NeedsPassword(a)) /\ Begin("code", a)
ClickPassword(a) == Offered(a) /\ Sensibly(NeedsPassword(a)) /\ Begin("2fa", a)

\* The Manage menu of a row, Validate all, Import, Export and Refresh.
ClickRow(op, a) == a \in There(list) /\ Slip /\ Begin(op, a)
Unused == {a \in Accounts : srv[a].st = "absent"} \ gone
ClickFleet(op) ==
    /\ op = "export" => selected # {}
    /\ op = "import" => Unused # {}
    /\ Slip /\ Begin(op, NoAccount)

AnswerDialog(yes) ==
    /\ DialogOpen
    /\ guard' = IF yes THEN [guard EXCEPT !.at = "post"] ELSE Idle
    /\ UNCHANGED <<server, console, reads, slips, faults>>

\* The pending account Select; it stays live while a handler is under way.
PendingAccounts == {a \in Accounts : list[a].st \in {"login_pending", "password_pending"}}
PickPending(a) ==
    /\ ~DialogOpen /\ a # pending /\ a \in PendingAccounts \cup {NoAccount}
    /\ Slip /\ pending' = a
    /\ UNCHANGED <<server, fleet, loginError, guard, reads, faults>>

Choose(sel, stg, dlg) ==
    /\ ~DialogOpen /\ Slip
    /\ selected' = sel /\ staged' = stg /\ dialog' = dlg
    /\ UNCHANGED <<server, list, pending, loginError, guard, reads, faults>>
\* The checkbox of a row and of the list of exports.
ToggleAccount(a) ==
    /\ a \in There(list)
    /\ Choose(IF a \in selected THEN selected \ {a} ELSE selected \cup {a}, staged, dialog)
\* toggleAll works on the rows the filter shows and forgets the others.
ToggleAll(shown) ==
    /\ shown \subseteq There(list) /\ shown # {}
    /\ Choose(IF shown \subseteq selected THEN {} ELSE shown, staged, dialog)
ReadySelected == {a \in selected : list[a].auth /\ ~list[a].err}
runActionWithSelection ==
    ReadySelected # {} /\ Choose(selected, ReadySelected, dialog)
fetchDialogsForSelection ==
    LET ready == {a \in There(list) : list[a].auth /\ ~list[a].err}
        target == IF ReadySelected # {} THEN ReadySelected ELSE ready
    IN target # {} /\ Choose(selected, staged, Min(target))

-------------------------------------------------------------------------------
(* The server carries the post out.                                            *)

\* The answer lets the handler refresh; the password step clears the pending
\* account before that.
Accepted(then) ==
    /\ guard' = [guard EXCEPT !.at = "reload", !.then = then]
    /\ reads' = [reads EXCEPT !["handler"] = Asked]
    /\ pending' = IF guard.op = "2fa" THEN NoAccount ELSE pending
    /\ UNCHANGED <<fleet, loginError>>
\* An error ends the handler without a refresh; a login step pins it.
Refused ==
    /\ guard' = Idle
    /\ loginError' = IF guard.op \in Steps THEN guard.op ELSE loginError
    /\ UNCHANGED <<fleet, pending, reads>>
Refusal == Refused /\ UNCHANGED <<server, faults>>

Record(a, rec) == srv' = [srv EXCEPT ![a] = rec]
_complete_login(a) ==
    /\ Record(a, Ready) /\ challenge' = [challenge EXCEPT ![a] = "none"]
    /\ tg' = tg \cup {a}

\* start_login finds the account of the number, or creates it.  It leaves
\* `authorized` alone when it sends a code.
start_login(a) ==
    /\ UNCHANGED gone
    /\ \/ /\ IF a \in tg THEN _complete_login(a)
             ELSE /\ Record(a, [srv[a] EXCEPT !.st = "login_pending", !.err = FALSE])
                  /\ challenge' = [challenge EXCEPT ![a] = "code"]
                  /\ UNCHANGED tg
          /\ Accepted(IF srv'[a].auth THEN "clear" ELSE "set")
          /\ UNCHANGED faults
       \/ /\ Fault
          /\ Record(a, [srv[a] EXCEPT !.st = "error", !.err = TRUE])
          /\ Refused /\ UNCHANGED <<challenge, tg>>

NoChallenge(a) == srv[a].st = "absent" \/ challenge[a] = "none"
\* Mutant: the pending account is dropped although a password is asked for.
AfterCodeDone(a) == "clear"
\* handleCodeResponse
AfterCode(a) == IF a \in TwoFactor THEN "keep" ELSE "clear"
\* confirm_code: too late, right, or wrong.
confirm_code(a) ==
    \/ NoChallenge(a) /\ Refusal
    \/ /\ ~NoChallenge(a) /\ UNCHANGED <<gone, faults>>
       /\ IF a \in TwoFactor
          THEN /\ Record(a, [srv[a] EXCEPT !.st = "password_pending"])
               /\ challenge' = [challenge EXCEPT ![a] = "password"] /\ UNCHANGED tg
          ELSE _complete_login(a)
       /\ Accepted(AfterCode(a))
    \/ /\ ~NoChallenge(a) /\ Fault
       /\ Record(a, [srv[a] EXCEPT !.st = "login_pending", !.err = TRUE])
       /\ Refused /\ UNCHANGED <<challenge, tg, gone>>

\* confirm_password; Telegram refuses a password while it waits for the code.
confirm_password(a) ==
    \/ (NoChallenge(a) \/ challenge[a] = "code") /\ Refusal
    \/ /\ ~NoChallenge(a) /\ challenge[a] = "password" /\ UNCHANGED <<gone, faults>>
       /\ _complete_login(a) /\ Accepted("keep")
    \/ /\ ~NoChallenge(a) /\ challenge[a] = "password" /\ Fault
       /\ Record(a, [srv[a] EXCEPT !.st = "password_pending", !.err = TRUE])
       /\ Refused /\ UNCHANGED <<challenge, tg, gone>>

\* validate_account also answers 200 for a session that is not authorized, and
\* resets the status while a challenge is open.
Validated(a) == IF a \in tg THEN Ready
                ELSE [st |-> "stopped", auth |-> FALSE, err |-> TRUE]
validate_account(a) ==
    \/ srv[a].st = "absent" /\ Refusal
    \/ /\ srv[a].st # "absent" /\ Record(a, Validated(a)) /\ Accepted("keep")
       /\ UNCHANGED <<challenge, tg, gone, faults>>
\* Validate all answers 200 and leaves the accounts as they were whose check
\* raised: their session is busy, or Telegram does not answer.
validate_all_accounts ==
    \E done \in SUBSET Accounts :
        /\ srv' = [a \in Accounts |-> IF srv[a].auth /\ a \in done THEN Validated(a) ELSE srv[a]]
        /\ IF done = Accounts THEN UNCHANGED faults ELSE Fault
        /\ Accepted("keep") /\ UNCHANGED <<challenge, tg, gone>>

\* logout_account leaves the challenge of the account open.  Telegram may have
\* ended the session when the call raises, and the record does not say so.
logout_account(a) ==
    \/ srv[a].st = "absent" /\ Refusal
    \/ /\ srv[a].st # "absent"
       /\ Record(a, [st |-> "stopped", auth |-> FALSE, err |-> FALSE])
       /\ tg' = tg \ {a} /\ Accepted("keep") /\ UNCHANGED <<challenge, gone, faults>>
    \/ /\ srv[a].st # "absent" /\ Fault
       /\ tg' = tg \ {a} /\ Refused /\ UNCHANGED <<srv, challenge, gone>>

\* delete_local_session does as well.
delete_local_session(a) ==
    \/ srv[a].st = "absent" /\ Refusal
    \/ /\ srv[a].st # "absent"
       /\ Record(a, Absent) /\ gone' = gone \cup {a}
       /\ Accepted("keep") /\ UNCHANGED <<challenge, tg, faults>>

\* rename_account, rename_session_file, set_account_photos_mode, fetch_dialogs:
\* nothing these properties look at.
edit_account(a) ==
    \/ srv[a].st = "absent" /\ Refusal
    \/ srv[a].st # "absent" /\ Accepted("keep") /\ UNCHANGED <<server, faults>>

\* import_session_file registers the account, then validates it.
import_session_files ==
    \/ Refusal
    \/ \E a \in Unused, live \in BOOLEAN :
        /\ tg' = IF live THEN tg \cup {a} ELSE tg \ {a}
        /\ Record(a, IF live THEN Ready
                     ELSE [st |-> "stopped", auth |-> FALSE, err |-> TRUE])
        /\ Accepted("keep") /\ UNCHANGED <<challenge, gone, faults>>

\* The archive is built and no refresh follows.
export_sessions == Refusal

\* An error before anything is written: a run holds the session (accounts.py:203,
\* 230), Telegram does not answer, a request is lost.
RequestFails == Fault /\ Refused /\ UNCHANGED server

Serve ==
    LET a == guard.acct IN
    /\ guard.at = "post"
    /\ \/ guard.op = "request" /\ start_login(a)
       \/ guard.op = "code" /\ confirm_code(a)
       \/ guard.op = "2fa" /\ confirm_password(a)
       \/ guard.op = "validate" /\ validate_account(a)
       \/ guard.op = "validateAll" /\ validate_all_accounts
       \/ guard.op = "logout" /\ logout_account(a)
       \/ guard.op = "delete" /\ delete_local_session(a)
       \/ guard.op = "edit" /\ edit_account(a)
       \/ guard.op = "import" /\ import_session_files
       \/ guard.op = "export" /\ export_sessions
       \/ RequestFails
    /\ UNCHANGED slips

\* A session is revoked elsewhere; a run that meets it marks the account.
SessionRevoked(a) ==
    /\ a \in tg /\ Fault
    /\ tg' = tg \ {a}
    /\ srv' \in {srv, [srv EXCEPT ![a].auth = FALSE, ![a].err = srv[a].st # "absent"]}
    /\ UNCHANGED <<challenge, gone, console, guard, reads, slips>>
\* The challenges are in memory only.  _load_accounts reads the records back and
\* sets every status to "stopped": nothing tells that a login was under way.
Restarted(rec) == IF rec.st = "absent" THEN rec ELSE [rec EXCEPT !.st = "stopped"]
ServerRestarts ==
    /\ Fault
    /\ challenge' = [a \in Accounts |-> "none"]
    /\ srv' = [a \in Accounts |-> Restarted(srv[a])]
    /\ UNCHANGED <<tg, gone, console, guard, reads, slips>>

-------------------------------------------------------------------------------
Network == Serve \/ ServerReads \/ \E r \in Readers : Lands(r)
Choosing ==
    \/ \E a \in Accounts : ToggleAccount(a)
    \/ \E shown \in SUBSET Accounts : ToggleAll(shown)
    \/ runActionWithSelection \/ fetchDialogsForSelection
Next ==
    \/ Network \/ CloseSettings \/ Choosing
    \/ \E r \in Readers : ReadFails(r)
    \/ \E a \in Accounts :
        \/ ClickStart(a) \/ ClickCode(a) \/ ClickPassword(a)
        \/ \E op \in {"validate", "logout", "delete", "edit"} : ClickRow(op, a)
        \/ SessionRevoked(a)
    \/ \E op \in {"validateAll", "import", "export", "refresh"} : ClickFleet(op)
    \/ \E a \in Accounts \cup {NoAccount} : PickPending(a)
    \/ \E yes \in BOOLEAN : AnswerDialog(yes)
    \/ ServerRestarts

\* Requests are answered and dialogs are; an operator who wants an account logged
\* in does the step the page shows next.
Fairness == WF_vars(Network) /\ WF_vars(\E yes \in BOOLEAN : AnswerDialog(yes))
Persistence(a) ==
    /\ SF_vars(UNCHANGED slips /\ ClickStart(a))
    /\ SF_vars(UNCHANGED slips /\ ClickCode(a))
    /\ SF_vars(UNCHANGED slips /\ ClickPassword(a))
Spec == Init /\ [][Next]_vars /\ Fairness
PersistentSpec == Spec /\ \A a \in Accounts \ First : Persistence(a)

-------------------------------------------------------------------------------
(* Properties                                                                  *)

TypeOK ==
    /\ srv \in [Accounts -> Records] /\ list \in [Accounts -> Records]
    /\ challenge \in [Accounts -> {"none", "code", "password"}]
    /\ tg \subseteq Accounts /\ gone \subseteq Accounts
    /\ selected \subseteq Accounts /\ staged \subseteq Accounts
    /\ dialog \in Accounts \cup {NoAccount} /\ pending \in Accounts \cup {NoAccount}
    /\ loginError \in Steps \cup {"none"} /\ guard \in Guards
    /\ reads \in [Readers -> Reads]
    /\ slips \in 0..MaxSlips /\ faults \in 0..MaxFaults

\* Whatever order refreshes land in, the choices stay within the list that is
\* shown: nothing invisible is exported, carried into Actions or browsed.
ChoicesAreListed ==
    /\ selected \cup staged \subseteq There(list)
    /\ dialog \in There(list) \cup {NoAccount}

\* An operator who keeps doing the step the page shows gets the number logged in,
\* through wrong codes, lost refreshes, revoked sessions and restarts.
LoginSucceeds == \A a \in Accounts \ First : <>(srv[a] = Ready \/ a \in gone)
===============================================================================
