------------------------------ MODULE DialogsView ------------------------------
(* The Dialogs screen of the web client: which account's dialogs it shows       *)
(* (useCachedDialogs, useDialogsController.loadDialogs), the selection that is  *)
(* kept per account (useDialogState), the quick actions and the hand-offs to    *)
(* Actions made from what is shown.                                             *)
EXTENDS Naturals, ActionCatalog

CONSTANTS
    Accounts, NoAccount,
    Chats,        \* the chats of all accounts, told apart by account and target
    Owner,        \* whose dialog list a chat is on
    Kind,         \* of a chat
    Offers,       \* bound: the quick actions an operator picks
    Selections,   \* bound: the sets of chats an operator ticks
    MaxSwitches,  \* bound: changes of the account, visits to the screen, fetches
    MaxFaults     \* bound: failed requests

ASSUME ChatsAssumption ==
    /\ Owner \in [Chats -> Accounts]
    /\ Kind \in [Chats -> DialogKinds]
    /\ NoAccount \notin Accounts /\ Offers \subseteq ActionTypes
    /\ Selections \subseteq SUBSET Chats /\ {} \in Selections
ASSUME BoundsAssumption == MaxSwitches \in Nat /\ MaxFaults \in Nat

VARIABLES
    mounted,   \* the view is "dialogs"
    account,   \* dialogAccountId
    current,   \* currentAccountId: whose selection is kept
    shown,     \* dialogs
    chosen,    \* selectedDialogTargets, before it is cut to what is shown
    stored,    \* the selections in sessionStorage
    filter,    \* dialogFilter: a kind or "all"
    due,       \* the effect has set its timeout
    asks,      \* cached reads in flight whose answers will be looked at
    guard,     \* the handler inside guarded
    staged,    \* (history) the last hand-off to Actions: account and chats
    strayed,   \* (history) a read outside the token's protection was made
    moves, faults

list == <<account, current, shown, chosen, stored, filter, due, asks>>
vars == <<mounted, list, guard, staged, strayed, moves, faults>>

ChatsOf(a) == {c \in Chats : Owner[c] = a}
\* A read remembers the account it is for, the currentAccountId its callback
\* closed over, and whether its instance of the screen has been left.
Asks == [acct : Accounts, cur : Accounts \cup {NoAccount}, left : BOOLEAN]
Staged == [acct : Accounts \cup {NoAccount}, chats : SUBSET Chats]
Nothing == [acct |-> NoAccount, chats |-> {}]
\* op is "none", "fetch" or the quick action.
NoWork == [op |-> "none", acct |-> NoAccount, chats |-> {}, at |-> "idle"]
Work == [op : ActionTypes \cup {"none", "fetch"}, acct : Accounts \cup {NoAccount},
         chats : SUBSET Chats, at : {"idle", "ask", "sent"}]
GuardFree == guard.op = "none"
DialogOpen == guard.at = "ask"
CanMove == moves < MaxSwitches /\ moves' = moves + 1

\* filterDialogs, by kind: the "group" filter takes supergroups in, and a title
\* search narrows the list the same way.
Filtered ==
    {c \in shown : \/ filter \in {"all", Kind[c]}
                   \/ filter = "group" /\ Kind[c] = "supergroup"}
\* visibleSelectedDialogTargets
Visible == chosen \cap shown

Init ==
    /\ mounted = FALSE /\ account \in Accounts /\ current = NoAccount
    /\ shown = {} /\ chosen = {} /\ stored = [a \in Accounts |-> {}]
    /\ filter = "all" /\ due = FALSE /\ asks = {}
    /\ guard = NoWork /\ staged = Nothing
    /\ strayed = FALSE /\ moves = 0 /\ faults = 0

-------------------------------------------------------------------------------
(* The dialogs shown.                                                          *)

\* Opening the screen mounts a new useCachedDialogs with a token of its own; a
\* read of an earlier visit is still applied when it lands.
Enter ==
    /\ ~mounted /\ CanMove
    /\ mounted' = TRUE /\ due' = TRUE
    /\ staged' = Nothing
    /\ UNCHANGED <<account, current, shown, chosen, stored, filter, asks>>
    /\ UNCHANGED <<guard, strayed, faults>>
Leave ==
    /\ mounted
    /\ mounted' = FALSE /\ due' = FALSE
    /\ asks' = {[q EXCEPT !.left = TRUE] : q \in asks}
    /\ strayed' = (strayed \/ asks # {})
    /\ UNCHANGED <<account, current, shown, chosen, stored, filter>>
    /\ UNCHANGED <<guard, staged, moves, faults>>

\* The account Select; FleetTab.fetchDialogsForSelection picks an account and
\* opens the screen.
Switch(a) ==
    /\ a # account /\ ~DialogOpen /\ CanMove
    /\ account' = a /\ mounted' = TRUE /\ due' = TRUE
    /\ staged' = Nothing
    /\ UNCHANGED <<current, shown, chosen, stored, filter, asks>>
    /\ UNCHANGED <<guard, strayed, faults>>

\* Mutant: without the request token the reads it supersedes are applied as well.
LoadCachedNoToken ==
    /\ due /\ due' = FALSE
    /\ asks' = asks \cup {[acct |-> account, cur |-> current, left |-> FALSE]}
    /\ UNCHANGED <<mounted, account, current, shown, chosen, stored, filter>>
    /\ UNCHANGED <<guard, staged, strayed, moves, faults>>
\* loadCached: the token makes this the only read of this visit that counts.
LoadCached ==
    /\ due /\ due' = FALSE
    /\ asks' = {q \in asks : q.left}
                 \cup {[acct |-> account, cur |-> current, left |-> FALSE]}
    /\ UNCHANGED <<mounted, account, current, shown, chosen, stored, filter>>
    /\ UNCHANGED <<guard, staged, strayed, moves, faults>>

\* Mutant: another account's dialogs are shown without its selection.
SetDialogsOnly(q, dialogs) ==
    /\ shown' = dialogs /\ current' = q.acct
    /\ stored' = [stored EXCEPT ![q.acct] = chosen]
    /\ UNCHANGED chosen
\* setDialogsWithAccountId, and the effect that persists the selection.
setDialogsWithAccountId(q, dialogs) ==
    /\ shown' = dialogs
    /\ current' = IF q.acct # q.cur THEN q.acct ELSE current
    /\ chosen' = IF q.acct # q.cur THEN stored[q.acct] ELSE chosen
    /\ stored' = IF current' = NoAccount THEN stored
                 ELSE [stored EXCEPT ![current'] = chosen']

\* The answer of a cached read, or [] when it fails.  A new currentAccountId
\* gives loadCached a new identity, and its effect runs again.
CachedLands(q) ==
    /\ \/ setDialogsWithAccountId(q, ChatsOf(q.acct)) /\ UNCHANGED faults
       \/ /\ faults < MaxFaults /\ faults' = faults + 1
          /\ setDialogsWithAccountId(q, {})
    /\ asks' = asks \ {q}
    /\ due' = (due \/ (mounted /\ current' # current))
    /\ UNCHANGED <<mounted, account, filter, guard, staged, strayed, moves>>

\* ErrorState's retry and fetchStatus.reload
Retry ==
    /\ mounted /\ shown = {} /\ ~due /\ ~DialogOpen /\ CanMove
    /\ due' = TRUE
    /\ UNCHANGED <<mounted, account, current, shown, chosen, stored, filter, asks>>
    /\ UNCHANGED <<guard, staged, strayed, faults>>

\* Fetch Live and Load Cache: guarded(loadDialogs), with no token.
ClickFetch ==
    /\ mounted /\ GuardFree /\ account # NoAccount /\ CanMove
    /\ \A q \in asks : q.left
    /\ guard' = [op |-> "fetch", acct |-> account, chats |-> {}, at |-> "sent"]
    /\ strayed' = TRUE
    /\ UNCHANGED <<mounted, list, staged, faults>>
FetchLands ==
    /\ guard.op = "fetch"
    /\ \/ shown' = ChatsOf(guard.acct) /\ UNCHANGED faults
       \/ faults < MaxFaults /\ faults' = faults + 1 /\ UNCHANGED shown
    /\ guard' = NoWork
    /\ UNCHANGED <<account, current, chosen, stored, filter, due, asks>>
    /\ UNCHANGED <<mounted, staged, strayed, moves>>

-------------------------------------------------------------------------------
(* The selection.                                                              *)

Clickable == mounted /\ ~DialogOpen
Choose(s) ==
    /\ s \in Selections /\ s # chosen
    /\ chosen' = s
    /\ stored' = IF current = NoAccount THEN stored ELSE [stored EXCEPT ![current] = s]
    /\ UNCHANGED <<account, current, shown, filter, due, asks>>
    /\ UNCHANGED <<mounted, guard, staged, strayed, moves, faults>>

Toggle(c) ==
    /\ Clickable /\ c \in Filtered
    /\ Choose(IF c \in chosen THEN chosen \ {c} ELSE chosen \cup {c})
\* toggleSelectAll works on the filtered list: all ticked, or else tick the rest.
ToggleSelectAll ==
    /\ Clickable
    /\ Choose(IF Filtered \subseteq chosen THEN chosen \ Filtered
                                           ELSE chosen \cup Filtered)
ClearSelection == Clickable /\ Visible # {} /\ Choose({})
SetFilter(k) ==
    /\ Clickable /\ k # filter
    /\ filter' = k
    /\ UNCHANGED <<account, current, shown, chosen, stored, due, asks>>
    /\ UNCHANGED <<mounted, guard, staged, strayed, moves, faults>>

-------------------------------------------------------------------------------
(* Quick actions and hand-offs.                                                *)

Kinds(chats) == {Kind[c] : c \in chats}
Begin(action, chats) ==
    /\ Clickable /\ GuardFree /\ account # NoAccount /\ action \in Offers
    /\ guard' = [op |-> action, acct |-> account, chats |-> chats,
                 at |-> IF quickActionNeedsConfirm(action) THEN "ask" ELSE "sent"]
    /\ UNCHANGED <<mounted, list, staged, strayed, moves, faults>>
\* runRowQuickAction; an action with a form opens a prompt instead, which runs it
\* on the chat and the account of the click.
RowQuickAction(c) ==
    /\ c \in Filtered
    /\ \E action \in ROW_ACTIONS[Kind[c]] :
           ~quickActionNeedsInput(action) /\ Begin(action, {c})
\* Mutant: the action is run on the whole selection, filtered out or not.
BulkEverything ==
    \E action \in bulkActionsForSelection(Kinds(Filtered \cap chosen)) :
        Begin(action, Visible)
\* The bulk menu and bulkQuickAction: both of what is ticked and listed.
BulkQuickAction ==
    \E action \in bulkActionsForSelection(Kinds(Filtered \cap chosen)) :
        Begin(action, Filtered \cap chosen)

Answer(yes) ==
    /\ DialogOpen
    /\ guard' = IF yes THEN [guard EXCEPT !.at = "sent"] ELSE NoWork
    /\ UNCHANGED <<mounted, list, staged, strayed, moves, faults>>
\* executeQuick ends: the one-step run of the account and chats of the click.
ExecuteQuick ==
    /\ guard.op \in ActionTypes /\ guard.at = "sent"
    /\ guard' = NoWork
    /\ UNCHANGED <<mounted, list, staged, strayed, moves, faults>>

\* useSelectedTargets, scheduleSelected and stageTargetInActions go to Actions
\* and add dialogAccountId to actionAccountIds.
HandOff(chats) ==
    /\ Clickable /\ chats # {}
    /\ staged' = [acct |-> account, chats |-> chats]
    /\ mounted' = FALSE /\ due' = FALSE
    /\ asks' = {[q EXCEPT !.left = TRUE] : q \in asks}
    /\ strayed' = (strayed \/ asks # {})
    /\ UNCHANGED <<account, current, shown, chosen, stored, filter>>
    /\ UNCHANGED <<guard, moves, faults>>
UseSelected == HandOff(Visible)
UseOne(c) == c \in Filtered /\ HandOff({c})

-------------------------------------------------------------------------------
Loading == LoadCached \/ \E q \in asks : CachedLands(q)
Next ==
    \/ Enter \/ Leave \/ \E a \in Accounts : Switch(a)
    \/ Loading \/ Retry \/ ClickFetch \/ FetchLands
    \/ \E c \in Chats : Toggle(c) \/ RowQuickAction(c) \/ UseOne(c)
    \/ ToggleSelectAll \/ ClearSelection
    \/ \E k \in {"all", "group"} : SetFilter(k)
    \/ BulkQuickAction \/ ExecuteQuick \/ UseSelected
    \/ \E yes \in BOOLEAN : Answer(yes)

\* Timeouts fire and requests are answered.
Spec == Init /\ [][Next]_vars /\ WF_vars(Loading)

-------------------------------------------------------------------------------
(* Properties                                                                  *)

TypeOK ==
    /\ mounted \in BOOLEAN /\ account \in Accounts /\ current \in Accounts \cup {NoAccount}
    /\ shown \subseteq Chats /\ chosen \subseteq Chats
    /\ stored \in [Accounts -> SUBSET Chats]
    /\ due \in BOOLEAN /\ asks \subseteq Asks /\ strayed \in BOOLEAN
    /\ guard \in Work
    /\ staged \in Staged
    /\ moves \in 0..MaxSwitches /\ faults \in 0..MaxFaults

\* The list on the screen is not one of the account whose selection is kept.
Mixed == ~(shown \subseteq ChatsOf(current))

\* The selection kept for an account never picks up another account's chats by a
\* switch, a restore or a late answer: only a tick may bring one in, made while the
\* list of another account is on the screen, and only reads that no request token
\* covers (Fetch Live and Load Cache, a visit left behind) put such a list there.
SelectionStaysHome ==
    /\ [](Mixed => strayed)
    /\ [][Mixed \/ \A a \in Accounts : stored'[a] \ stored[a] \subseteq ChatsOf(a)]_vars

\* A quick action is only ever run on chats of a kind it makes sense for, also
\* when part of the selection is filtered out or belongs to another list.
QuickActionsFit ==
    guard.op \in ActionTypes => \A c \in guard.chats :
        Kind[c] = "unknown" \/ Kind[c] \in KindsFor(guard.op)

\* The list settles on the account that is picked, in whatever order the reads
\* of rapid switches are answered.
ListFollowsTheAccount ==
    <>[](strayed \/ ~mounted \/ shown \subseteq ChatsOf(account))

\* The comment of seedActionAccount: "The account used to fetch these dialogs can
\* always act on them, so every handoff into Actions ensures it's selected."
HandOffCarriesTheirAccount == \A c \in staged.chats : Owner[c] = staged.acct
===============================================================================
