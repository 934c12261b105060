--------------------------- MODULE MessageInspector ---------------------------
(* The message inspector of the Dialogs screen (screens/dialogs-screen.tsx,      *)
(* messages-panel.tsx): it shows the recent messages of a dialog and acts on     *)
(* them.  Opening goes through guarded, Retry and Load more do not, and an       *)
(* answer is shown whatever happened to the panel since it was asked for.        *)
EXTENDS Naturals

CONSTANTS Accounts, Chats, None

VARIABLES
    view, job,
    account,     \* dialogAccountId
    listed,      \* the account whose dialogs are listed
    panel,       \* messagePanel
    asks         \* the requests of loadMessages in flight

Dialogs == [acct : Accounts, chat : Chats]
NoJob == [op |-> "none", at |-> "idle", left |-> FALSE]

MessagesInit == \E a \in Accounts : account = a /\ listed = a /\ panel = None /\ asks = {}
\* The list and the account outlive the screen; what its requests set is lost.
MessagesReset == panel' = None /\ asks' = {} /\ UNCHANGED <<account, listed>>

Here == view = "messages" /\ job.at # "ask"

Switch(a) ==
    /\ Here /\ panel = None /\ a # account
    /\ account' = a
    /\ UNCHANGED <<job, listed, panel, asks>>
ListLands ==
    /\ listed # account /\ listed' = account
    /\ UNCHANGED <<job, account, panel, asks>>

\* The messages that stay on display while d is loaded
Kept(d) == IF panel # None /\ panel.dialog = d THEN panel.read ELSE None
\* loadMessages: asked of the account of the moment
loadMessages(d, limit, guarded) ==
    /\ panel' = [dialog |-> d, read |-> Kept(d), limit |-> limit, at |-> "loading"]
    /\ asks' = asks \cup {[dialog |-> d, acct |-> account, limit |-> limit, guarded |-> guarded]}

\* openMessages, while a request of before may still be out
Open(d) ==
    /\ Here /\ panel = None /\ job = NoJob /\ d.acct = listed
    /\ loadMessages(d, "page", TRUE)
    /\ job' = [op |-> "open", at |-> "get", left |-> FALSE]
    /\ UNCHANGED <<account, listed>>
\* Retry after an error, Load more after a full page
Reload ==
    /\ Here /\ panel # None
    /\ \/ panel.at = "error" /\ loadMessages(panel.dialog, panel.limit, FALSE)
       \/ /\ panel.at = "shown" /\ panel.read # None /\ panel.limit = "page"
          /\ loadMessages(panel.dialog, "max", FALSE)
    /\ UNCHANGED <<job, account, listed>>
Close ==
    /\ Here /\ panel # None /\ panel' = None
    /\ UNCHANGED <<job, account, listed, asks>>

Done(q) == /\ asks' = asks \ {q}
           /\ job' = IF q.guarded THEN NoJob ELSE job
           /\ UNCHANGED <<account, listed>>
\* Mutant: an answer updates the panel that is open.
ShownInThePanel(q, read) ==
    [dialog |-> IF panel = None THEN q.dialog ELSE panel.dialog,
     read |-> read, limit |-> q.limit, at |-> "shown"]
\* An answer opens a closed panel again, and takes the place of another dialog.
Shown(q, read) == [dialog |-> q.dialog, read |-> read, limit |-> q.limit, at |-> "shown"]
Lands(q) ==
    /\ \E read \in {None, [acct |-> q.acct, chat |-> q.dialog.chat]} : panel' = Shown(q, read)
    /\ Done(q)
Fails(q) ==
    /\ panel' = [dialog |-> q.dialog, read |-> None, limit |-> q.limit, at |-> "error"]
    /\ Done(q)
\* The screen was left before the answer came.
LeftLands ==
    /\ job.op = "open" /\ job.left /\ job' = NoJob
    /\ UNCHANGED <<account, listed, panel, asks>>
\* stageMessage and runMessageQuickAction: a quick action of the current account
\* on the chat and a message shown, for QuickActionRunner.
Act ==
    /\ Here /\ panel # None /\ panel.read # None /\ panel' = None
    /\ UNCHANGED <<job, account, listed, asks>>

MessageClicks ==
    \/ \E a \in Accounts : Switch(a)
    \/ \E d \in Dialogs : Open(d)
    \/ Reload \/ Close \/ Act
MessageAnswers ==
    \/ ListLands \/ LeftLands
    \/ \E q \in asks : Lands(q) \/ Fails(q)

-------------------------------------------------------------------------------
\* The messages under the title of a dialog are of its chat, in whatever order the
\* answers to opening, retrying and loading more of several dialogs come.
PanelShowsItsChat ==
    panel # None /\ panel.read # None => panel.read.chat = panel.dialog.chat

\* Refuted: a message is acted on with the account it was read by.  A panel closed
\* while it loads opens again when the answer comes, also when another account has
\* been chosen since, and the actions then run with that one.
MessageActsOnItsAccount ==
    [][Act => panel.read.acct = account]_<<view, job, account, listed, panel, asks>>
===============================================================================
