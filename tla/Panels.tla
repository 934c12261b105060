-------------------------------- MODULE Panels --------------------------------
(* The panels that read one account's data and then act on it: the message       *)
(* inspector of the Dialogs screen, the Scheduled inspector and the Sync tab of   *)
(* the Actions screen.  One of them is mounted at a time.  Leaving it drops its   *)
(* state, but not the handler it left inside guarded: until that one is done the *)
(* next panel's guarded work is refused.                                        *)
EXTENDS SyncPanel

CONSTANTS
    Chats, All,
    Messages, Of, In, Id, Owned, Targeted,   \* see ScheduledInspector
    MaxClicks,   \* bound: clicks and visits
    MaxNews      \* bound: what happens on Telegram meanwhile

ASSUME MessagesAssumption ==
    /\ Of \in [Messages -> Accounts] /\ In \in [Messages -> Chats]
    /\ Owned \subseteq Messages /\ Targeted \subseteq Accounts \X Chats
    /\ \A m, n \in Messages : <<Of[m], In[m], Id[m]>> = <<Of[n], In[n], Id[n]>> => m = n
ASSUME BoundsAssumption == MaxClicks \in Nat /\ MaxNews \in Nat

VARIABLES
    account, listed, panel, asks,                     \* MessageInspector
    queued, over, overview, scanning, scans, filter,
    ticked, manual,                                   \* ScheduledInspector
    clicks, news

inspector == <<account, listed, panel, asks>>
scheduled == <<queued, over, overview, scanning, scans, filter, ticked, manual>>
sync == <<choice, plan>>
bounds == <<clicks, news>>
vars == <<view, job, inspector, scheduled, sync, bounds>>

M == INSTANCE MessageInspector
S == INSTANCE ScheduledInspector

Click == clicks < MaxClicks /\ clicks' = clicks + 1 /\ news' = news
News == news < MaxNews /\ news' = news + 1 /\ clicks' = clicks

Init ==
    /\ view = "elsewhere" /\ job = NoJob /\ clicks = 0 /\ news = 0
    /\ M!MessagesInit /\ S!ScheduledInit /\ SyncInit

\* The navigation and the tabs; a dialog covers them.
Visit(v) ==
    /\ v # view /\ job.at # "ask" /\ panel = None /\ Click
    /\ view' = v
    /\ job' = IF job = NoJob THEN job ELSE [job EXCEPT !.left = TRUE]
    /\ M!MessagesReset /\ S!ScheduledReset(v = "scheduled") /\ SyncReset

InMessages ==
    /\ \/ Click /\ M!MessageClicks
       \/ UNCHANGED bounds /\ M!MessageAnswers
    /\ UNCHANGED <<view, scheduled, sync>>
InScheduled ==
    /\ \/ Click /\ S!ScheduledClicks
       \/ News /\ S!Elsewhere
       \/ UNCHANGED bounds /\ S!ScheduledAnswers
    /\ UNCHANGED <<view, inspector, sync>>
InSync ==
    /\ \/ Click /\ SyncClicks
       \/ UNCHANGED bounds /\ SyncAnswers
    /\ UNCHANGED <<view, inspector, scheduled>>

Next ==
    \/ \E v \in {"messages", "scheduled", "sync", "elsewhere"} : Visit(v)
    \/ InMessages \/ InScheduled \/ InSync
Spec == Init /\ [][Next]_vars

-------------------------------------------------------------------------------
\* The messages under the title of a dialog are of its chat, in whatever order the
\* answers to opening, retrying and loading more of several dialogs come.
PanelShowsItsChat == M!PanelShowsItsChat

\* What the scheduled inspector shows after a deletion - the scan that follows it,
\* or the second look at the chat - has none of the messages it deleted, whatever
\* scans were out when it began.
ReadsAfterTheDeletion ==
    [][/\ \A s \in scans : S!ScanLands(s) /\ s.own => overview' \cap job.gone = {}
       /\ S!CheckLands => manual'.result.seen \cap job.gone = {}]_vars
===============================================================================
