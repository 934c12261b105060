-------------------------- MODULE ScheduledInspector --------------------------
(* The Scheduled inspector tab (components/scheduled-inspector.tsx): a scan of    *)
(* what Telegram holds for every chat a schedule targets, deletions from it, and *)
(* the manual look-up of any chat.  Messages come and go on Telegram meanwhile,  *)
(* and scans overlap.                                                           *)
EXTENDS FiniteSets

CONSTANTS
    Accounts, Chats,
    Messages, Of, In, Id,   \* scheduled messages: account, chat and message id
    Owned,                  \* the ones TeleManager scheduled
    Targeted,               \* the <<account, chat>> pairs schedules reference
    All, None

VARIABLES
    view, job,
    queued, over,   \* the messages Telegram holds, and the ones it held
    overview,       \* the messages of the overview, or None
    scanning, scans,
    filter,
    ticked,         \* the messages ticked, card by card
    manual          \* the state of ManualInspect

NoJob == [op |-> "none", at |-> "idle", left |-> FALSE]
telegram == <<queued, over>>
cards == <<overview, scanning, scans, filter, ticked>>

PlaceOf(m) == <<Of[m], In[m]>>
Held(p) == {m \in queued : PlaceOf(m) = p}
\* scan sets its flag, and the first scan to end takes it back.
NewScan(own) == [seen |-> {}, todo |-> Accounts, own |-> own]
NoManual == [acct |-> None, chat |-> None, result |-> None, ticked |-> {}]

ScheduledInit ==
    /\ queued = {} /\ over = {} /\ overview = None /\ scanning = FALSE
    /\ scans = {} /\ filter = "all" /\ ticked = {} /\ manual = NoManual
\* Mounting scans; what is out when the tab is left lands nowhere.
ScheduledReset(mount) ==
    /\ overview' = None /\ filter' = "all" /\ ticked' = {} /\ manual' = NoManual
    /\ scanning' = mount /\ scans' = IF mount THEN {NewScan(FALSE)} ELSE {}
    /\ UNCHANGED telegram

Here == view = "scheduled" /\ job.at # "ask"

\* The environment: a message is scheduled, delivered or deleted elsewhere.
Queue(m) ==
    /\ m \notin queued \cup over /\ queued' = queued \cup {m}
    /\ UNCHANGED <<job, over, cards, manual>>
Deliver(m) ==
    /\ m \in queued /\ queued' = queued \ {m} /\ over' = over \cup {m}
    /\ UNCHANGED <<job, cards, manual>>

-------------------------------------------------------------------------------
(* The overview                                                                *)

Rescan ==
    /\ Here /\ ~scanning
    /\ scanning' = TRUE /\ scans' = scans \cup {NewScan(FALSE)}
    /\ UNCHANGED <<job, telegram, overview, filter, ticked, manual>>
\* scheduled_overview reads one account after the other; one that fails has no chats.
ScanReads(s, a, fails) ==
    /\ a \in s.todo
    /\ LET read == {m \in queued : Of[m] = a /\ PlaceOf(m) \in Targeted}
       IN scans' = (scans \ {s}) \cup
                       {[s EXCEPT !.todo = @ \ {a}, !.seen = IF fails THEN @ ELSE @ \cup read]}
    /\ UNCHANGED <<job, telegram, overview, scanning, filter, ticked, manual>>
ScanEnds(s) ==
    /\ scans' = scans \ {s} /\ scanning' = FALSE
    /\ job' = IF s.own THEN NoJob ELSE job
    /\ UNCHANGED <<telegram, filter, manual>>
\* The card of a chat that is not in the overview any more loses its ticks.
ScanLands(s) ==
    /\ s.todo = {} /\ overview' = s.seen
    /\ ticked' = {m \in ticked : \E n \in s.seen : PlaceOf(n) = PlaceOf(m)}
    /\ ScanEnds(s)
ScanFails(s) ==
    /\ UNCHANGED <<overview, ticked>>
    /\ ScanEnds(s)

\* Drawn with the cards, those of unreachable accounts too
Filter(f) ==
    /\ Here /\ overview # None /\ f # filter /\ filter' = f
    /\ UNCHANGED <<job, telegram, overview, scanning, scans, ticked, manual>>
\* visibleMessages; a card without any is not drawn, and keeps its ticks.
Visible ==
    IF overview = None THEN {}
    ELSE {m \in overview : filter = "all" \/ (filter = "owned") = (m \in Owned)}
Tick(m) ==
    /\ Here /\ m \in Visible
    /\ ticked' = (ticked \ {m}) \cup ({m} \ ticked)
    /\ UNCHANGED <<job, telegram, overview, scanning, scans, filter, manual>>
\* Folding an account's card away drops the ticks of its chats.
Fold(a) ==
    /\ Here /\ \E m \in ticked : Of[m] = a
    /\ ticked' = {m \in ticked : Of[m] # a}
    /\ UNCHANGED <<job, telegram, overview, scanning, scans, filter, manual>>

Ask(by, place, from, ids) ==
    job' = [op |-> "clear", at |-> "ask", left |-> FALSE, by |-> by, place |-> place,
            from |-> from, ids |-> ids, gone |-> {}, chat |-> None]
\* Delete and Clear all of a card; the ticks of hidden messages count.
ClickCard(p, all) ==
    /\ Here /\ job = NoJob /\ \E m \in Visible : PlaceOf(m) = p
    /\ LET on == {m \in ticked : PlaceOf(m) = p}
       IN /\ all \/ on # {}
          /\ Ask("card", p, p, IF all THEN All ELSE {Id[m] : m \in on})
    /\ UNCHANGED <<telegram, cards, manual>>

Answer(yes) ==
    /\ job.op = "clear" /\ job.at = "ask"
    /\ job' = IF yes THEN [job EXCEPT !.at = "post"] ELSE NoJob
    /\ UNCHANGED <<telegram, cards, manual>>
\* clear_scheduled
Hit == {m \in Held(job.place) : job.ids = All \/ Id[m] \in job.ids}
\* Mutant: a scan that is under way counts as the one that follows the deletion.
ScansAfterJoined ==
    IF job.left THEN scans
    ELSE IF scans # {} THEN {[s EXCEPT !.own = TRUE] : s \in scans} ELSE {NewScan(TRUE)}
\* clearChat awaits the deletion, then a scan of its own.
ScansAfter == IF job.left THEN scans ELSE scans \cup {NewScan(TRUE)}
Clears ==
    /\ job.op = "clear" /\ job.at = "post"
    /\ queued' = queued \ Hit /\ over' = over \cup Hit
    /\ IF job.by = "card"
       THEN /\ scans' = ScansAfter /\ scanning' = (scanning \/ ~job.left)
            /\ job' = [job EXCEPT !.at = "rescan", !.gone = Hit]
       ELSE /\ job' = [job EXCEPT !.at = "recheck", !.gone = Hit]
            /\ UNCHANGED <<scans, scanning>>
    /\ UNCHANGED <<overview, filter, ticked, manual>>
\* The request fails, before it is carried out or after.
ClearFails ==
    /\ job.op = "clear" /\ job.at = "post" /\ job' = NoJob
    /\ \/ queued' = queued \ Hit /\ over' = over \cup Hit
       \/ UNCHANGED telegram
    /\ UNCHANGED <<cards, manual>>
\* What remains of a handler whose tab was left
LeftEnds ==
    /\ job.op \in {"clear", "check"} /\ job.left /\ job.at \in {"rescan", "recheck", "get"}
    /\ job' = NoJob
    /\ UNCHANGED <<telegram, cards, manual>>

-------------------------------------------------------------------------------
(* ManualInspect                                                               *)

PickAccount(a) ==
    /\ Here /\ a # manual.acct
    /\ manual' = [manual EXCEPT !.acct = a, !.result = None]
    /\ UNCHANGED <<job, telegram, cards>>
TypeChat(c) ==
    /\ Here /\ c # manual.chat
    /\ manual' = [manual EXCEPT !.chat = c]
    /\ UNCHANGED <<job, telegram, cards>>
\* fetchScheduled, with the account and the chat of the render that was clicked
Check ==
    /\ Here /\ job = NoJob /\ manual.acct # None /\ manual.chat # None
    /\ job' = [op |-> "check", at |-> "get", left |-> FALSE, by |-> "manual",
               place |-> <<manual.acct, manual.chat>>, gone |-> {}]
    /\ UNCHANGED <<telegram, cards, manual>>
\* The answer is shown under the account that is chosen by now.
CheckLands ==
    /\ ~job.left /\ job.at \in {"get", "recheck"} /\ job.op \in {"check", "clear"}
    /\ LET place == IF job.at = "get" THEN job.place ELSE <<job.place[1], job.chat>>
       IN manual' = [manual EXCEPT !.ticked = {},
                                   !.result = [place |-> place, seen |-> Held(place)]]
    /\ job' = NoJob
    /\ UNCHANGED <<telegram, cards>>
CheckFails ==
    /\ ~job.left /\ job.at \in {"get", "recheck"} /\ job.op \in {"check", "clear"}
    /\ job' = NoJob
    /\ UNCHANGED <<telegram, cards, manual>>
TickManual(m) ==
    /\ Here /\ manual.result # None /\ m \in manual.result.seen
    /\ manual' = [manual EXCEPT !.ticked = (@ \ {Id[m]}) \cup ({Id[m]} \ @)]
    /\ UNCHANGED <<job, telegram, cards>>
\* clear: the chat of the result, with the account that is chosen.  Then the chat
\* that is typed is looked up.
ClickManual(all) ==
    /\ Here /\ job = NoJob /\ manual.result # None /\ manual.result.seen # {}
    /\ all \/ manual.ticked # {}
    /\ job' = [op |-> "clear", at |-> "ask", left |-> FALSE, by |-> "manual",
               place |-> <<manual.acct, manual.result.place[2]>>, from |-> manual.result.place,
               ids |-> IF all THEN All ELSE manual.ticked, gone |-> {}, chat |-> manual.chat]
    /\ UNCHANGED <<telegram, cards, manual>>

Elsewhere == \E m \in Messages : Queue(m) \/ Deliver(m)
ScheduledAnswers ==
    \/ \E s \in scans : \/ \E a \in Accounts, fails \in BOOLEAN : ScanReads(s, a, fails)
                        \/ ScanLands(s) \/ ScanFails(s)
    \/ Clears \/ ClearFails \/ LeftEnds \/ CheckLands \/ CheckFails
ScheduledClicks ==
    \/ Rescan
    \/ \E f \in {"all", "owned", "manual"} : Filter(f)
    \/ \E m \in Messages : Tick(m) \/ TickManual(m)
    \/ \E a \in Accounts : Fold(a) \/ PickAccount(a)
    \/ \E p \in Accounts \X Chats, all \in BOOLEAN : ClickCard(p, all)
    \/ \E yes \in BOOLEAN : Answer(yes)
    \/ \E c \in Chats : TypeChat(c)
    \/ Check \/ \E all \in BOOLEAN : ClickManual(all)

-------------------------------------------------------------------------------
\* Refuted: messages are deleted from the account they were listed under.  A look-up
\* that answers after another account was picked is shown under that one.
DeletesWhereItLooked ==
    job.op = "clear" => job.place = job.from
\* Refuted: the overview that stays is the last one read; scans land in any order.
NothingDeletedIsListed ==
    scans = {} /\ overview # None /\ job = NoJob => overview \cap over = {}
===============================================================================
