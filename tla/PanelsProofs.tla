------------------------------ MODULE PanelsProofs ------------------------------
(* Proofs about the panels, for every set of accounts, chats, messages, cached   *)
(* lists and bounds, and about the composer, which shares their screen.          *)
EXTENDS Panels, Composer, FiniteSetTheorems, TLAPS

-------------------------------------------------------------------------------
(* The message inspector.                                                      *)

\* A panel is drawn with the messages of its own chat by every handler.
LEMMA InspectorStep == PanelShowsItsChat /\ [Next]_vars => PanelShowsItsChat'
<1>1. SUFFICES ASSUME PanelShowsItsChat, [Next]_vars,
                      panel' # None, panel'.read # None
               PROVE  panel'.read.chat = panel'.dialog.chat
  BY DEF PanelShowsItsChat, M!PanelShowsItsChat
<1>2. panel # None /\ panel.read # None => panel.read.chat = panel.dialog.chat
  BY <1>1 DEF PanelShowsItsChat, M!PanelShowsItsChat
<1>3. CASE UNCHANGED panel
  BY <1>1, <1>2, <1>3
<1>4. ASSUME NEW d, NEW limit, NEW guarded, M!loadMessages(d, limit, guarded)
      PROVE  panel'.read.chat = panel'.dialog.chat
  <2>1. panel'.dialog = d /\ panel'.read = M!Kept(d)
    BY <1>4 DEF M!loadMessages
  <2>2. panel # None /\ panel.dialog = d /\ panel'.read = panel.read
    BY <1>1, <2>1 DEF M!Kept
  <2>. QED  BY <1>1, <1>2, <2>1, <2>2
<1>5. CASE M!MessageClicks
  <2>1. CASE \E a \in Accounts : M!Switch(a)
    BY <1>3, <2>1 DEF M!Switch
  <2>2. CASE \E d \in M!Dialogs : M!Open(d)
    BY <1>4, <2>2 DEF M!Open
  <2>3. CASE M!Reload
    BY <1>4, <2>3 DEF M!Reload
  <2>4. CASE M!Close \/ M!Act
    BY <1>1, <2>4 DEF M!Close, M!Act
  <2>. QED  BY <1>5, <2>1, <2>2, <2>3, <2>4 DEF M!MessageClicks
<1>6. CASE M!MessageAnswers
  <2>1. CASE M!ListLands \/ M!LeftLands
    BY <1>3, <2>1 DEF M!ListLands, M!LeftLands
  <2>2. ASSUME NEW q \in asks, M!Lands(q) PROVE panel'.read.chat = panel'.dialog.chat
    <3>1. PICK read \in {None, [acct |-> q.acct, chat |-> q.dialog.chat]} : panel' = M!Shown(q, read)
      BY <2>2 DEF M!Lands
    <3>2. panel'.read = read /\ panel'.dialog = q.dialog
      BY <3>1 DEF M!Shown
    <3>. QED  BY <1>1, <3>1, <3>2
  <2>3. ASSUME NEW q \in asks, M!Fails(q) PROVE FALSE
    BY <1>1, <2>3 DEF M!Fails
  <2>. QED  BY <1>6, <2>1, <2>2, <2>3 DEF M!MessageAnswers
<1>7. CASE InMessages
  BY <1>5, <1>6, <1>7 DEF InMessages
<1>8. CASE InScheduled \/ InSync \/ UNCHANGED vars
  BY <1>3, <1>8 DEF InScheduled, InSync, inspector, vars
<1>9. ASSUME NEW v, Visit(v) PROVE FALSE
  BY <1>1, <1>9 DEF Visit, M!MessagesReset
<1>. QED  BY <1>1, <1>7, <1>8, <1>9 DEF Next

\* The messages under the title of a dialog are of its chat, in whatever order the
\* answers to opening, retrying and loading more of several dialogs come.  Of its chat
\* only: they may be those that another account has of it.
THEOREM PanelAlwaysShowsItsChat == Spec => []PanelShowsItsChat
<1>1. Init => PanelShowsItsChat
  BY DEF Init, M!MessagesInit, PanelShowsItsChat, M!PanelShowsItsChat
<1>. QED  BY <1>1, InspectorStep, PTL DEF Spec

-------------------------------------------------------------------------------
(* The scheduled inspector.                                                    *)

Places == (Accounts \cup {None}) \X (Chats \cup {None})
Ids == {Id[m] : m \in Messages}
Scans == [seen : SUBSET Messages, todo : SUBSET Accounts, own : BOOLEAN]
Looks == [place : Places, seen : SUBSET Messages]
Manuals == [acct : Accounts \cup {None}, chat : Chats \cup {None},
            result : Looks \cup {None}, ticked : SUBSET Ids]
ClearJobs == [op : {"clear"}, at : {"ask", "post", "rescan", "recheck"}, left : BOOLEAN,
              by : {"card", "manual"}, place : Places, from : Places,
              ids : (SUBSET Ids) \cup {All}, gone : SUBSET Messages, chat : Chats \cup {None}]
CheckJobs == [op : {"check"}, at : {"get"}, left : BOOLEAN, by : {"manual"},
              place : Places, gone : {{}}]
\* The handlers of the other panels
IsOther(j) ==
    /\ j = [f \in DOMAIN j |-> j[f]] /\ {"op", "at", "left"} \subseteq DOMAIN j
    /\ j.op \notin {"clear", "check"}
ScheduledTypes ==
    /\ queued \subseteq Messages /\ over \subseteq Messages
    /\ overview \in (SUBSET Messages) \cup {None} /\ scanning \in BOOLEAN
    /\ scans \subseteq Scans /\ ticked \subseteq Messages /\ manual \in Manuals
JobTypes == job \in ClearJobs \cup CheckJobs \/ IsOther(job)

\* A message that Telegram no longer holds does not come back; what the handler
\* deleted is such a message.
GoneIsOver ==
    /\ queued \cap over = {}
    /\ job.op \in {"clear", "check"} => job.gone \subseteq over
\* The scan a deletion waits for is the only one of its kind.  It began after the
\* deletion, on the tab that is still mounted, so it never saw a deleted message.
OwnScanFollows ==
    \A s \in scans : s.own =>
        /\ job.op = "clear" /\ job.at = "rescan" /\ ~job.left
        /\ s.seen \cap job.gone = {}
        /\ \A t \in scans : t.own => t = s
\* The panel that is mounted has the answers: those of another land nowhere.
AnswersAreMounted ==
    /\ asks # {} => view = "messages"
    /\ job.op = "clear" /\ ~job.left => view = "scheduled"
SInv == ScheduledTypes /\ JobTypes /\ GoneIsOver /\ OwnScanFollows /\ AnswersAreMounted

\* The handlers of the other panels, and none.
LEMMA OthersAreOther ==
    /\ IsOther(NoJob) /\ IsOther(S!NoJob) /\ IsOther(M!NoJob)
    /\ IsOther([op |-> "open", at |-> "get", left |-> FALSE])
    /\ \A c : IsOther([op |-> "preview", at |-> "get", left |-> FALSE, choice |-> c])
    /\ \A n : IsOther([op |-> "sync", at |-> "post", left |-> FALSE, opCount |-> n])
  BY DEF IsOther, NoJob, S!NoJob, M!NoJob
LEMMA OtherGoesOn ==
    ASSUME IsOther(job), NEW v
    PROVE  IsOther([job EXCEPT !.at = v]) /\ IsOther([job EXCEPT !.left = v])
  BY DEF IsOther

\* Which handler it is tells its type.
LEMMA JobKinds ==
    ASSUME JobTypes
    PROVE  /\ job.op = "clear" => job \in ClearJobs
           /\ job.op = "check" => job \in CheckJobs
           /\ job.op \notin {"clear", "check"} => IsOther(job)
           /\ job = S!NoJob => job.op = "none"
<1>1. job \in ClearJobs => job.op = "clear"
  BY DEF ClearJobs
<1>2. job \in CheckJobs => job.op = "check"
  BY DEF CheckJobs
<1>3. IsOther(job) => job.op \notin {"clear", "check"}
  BY DEF IsOther
<1>4. job = S!NoJob => job.op = "none"
  BY DEF S!NoJob
<1>. QED  BY <1>1, <1>2, <1>3, <1>4 DEF JobTypes
LEMMA ClearStaged ==
    ASSUME job \in ClearJobs, NEW a \in {"ask", "post", "rescan", "recheck"}
    PROVE  LET j == [job EXCEPT !.at = a]
           IN j \in ClearJobs /\ j.op = "clear" /\ j.at = a /\ j.left = job.left /\ j.gone = job.gone
  BY DEF ClearJobs
LEMMA ClearLeft ==
    ASSUME job \in ClearJobs
    PROVE  LET j == [job EXCEPT !.left = TRUE]
           IN j \in ClearJobs /\ j.op = "clear" /\ j.left = TRUE /\ j.gone = job.gone
  BY DEF ClearJobs
LEMMA CheckLeft ==
    ASSUME job \in CheckJobs
    PROVE  LET j == [job EXCEPT !.left = TRUE]
           IN j \in CheckJobs /\ j.op = "check" /\ j.gone = job.gone
  BY DEF CheckJobs
LEMMA ClearDeletes ==
    ASSUME job \in ClearJobs, NEW a \in {"rescan", "recheck"}, NEW g \in SUBSET Messages,
           job' = [[job EXCEPT !.at = a] EXCEPT !.gone = g]
    PROVE  job' \in ClearJobs /\ job'.op = "clear" /\ job'.at = a /\ job'.left = job.left /\ job'.gone = g
  BY DEF ClearJobs

\* A step of another panel, or of another handler, leaves the scheduled inspector
\* as it is.
LEMMA OtherPanelStep ==
    ASSUME SInv, UNCHANGED <<view, scheduled>>, asks' # {} => view = "messages",
           job' = job \/ (IsOther(job') /\ (IsOther(job) \/ view # "scheduled"))
    PROVE  SInv'
<1>1. UNCHANGED <<view, queued, over, overview, scanning, scans, filter, ticked, manual>>
  BY DEF scheduled
<1>2. ScheduledTypes' /\ JobTypes' /\ AnswersAreMounted'
  BY <1>1 DEF SInv, ScheduledTypes, JobTypes, AnswersAreMounted, IsOther
<1>3. GoneIsOver'
  BY <1>1 DEF SInv, GoneIsOver, IsOther
<1>4. OwnScanFollows'
  <2>1. CASE job' = job
    BY <1>1, <2>1 DEF SInv, OwnScanFollows
  <2>2. CASE IsOther(job) \/ view # "scheduled"
    <3>1. \A s \in scans : ~s.own
      BY <2>2 DEF SInv, OwnScanFollows, AnswersAreMounted, IsOther
    <3>. QED  BY <1>1, <3>1 DEF OwnScanFollows
  <2>. QED  BY <2>1, <2>2
<1>. QED  BY <1>2, <1>3, <1>4 DEF SInv

LEMMA MessagesKeep == SInv /\ InMessages => SInv'
<1>1. SUFFICES ASSUME SInv, InMessages PROVE SInv'
  OBVIOUS
<1>2. UNCHANGED <<view, scheduled>> /\ (asks # {} => view = "messages") /\ JobTypes
  BY <1>1 DEF InMessages, SInv, AnswersAreMounted
<1>3. CASE M!MessageClicks
  <2>1. view = "messages"
    BY <1>3 DEF M!MessageClicks, M!Switch, M!Open, M!Reload, M!Close, M!Act, M!Here
  <2>2. job' = job \/ IsOther(job')
    BY <1>3, OthersAreOther
    DEF M!MessageClicks, M!Switch, M!Open, M!Reload, M!Close, M!Act
  <2>. QED  BY <1>1, <1>2, <2>1, <2>2, OtherPanelStep
<1>4. CASE M!ListLands
  <2>1. job' = job /\ asks' = asks
    BY <1>4 DEF M!ListLands
  <2>. QED  BY <1>1, <1>2, <2>1, OtherPanelStep
<1>5. CASE M!LeftLands
  <2>1. IsOther(job) /\ IsOther(job')
    BY <1>2, <1>5, JobKinds, OthersAreOther DEF M!LeftLands
  <2>. QED  BY <1>1, <1>2, <1>5, <2>1, OtherPanelStep DEF M!LeftLands
<1>6. ASSUME NEW q \in asks, M!Lands(q) \/ M!Fails(q) PROVE SInv'
  <2>1. view = "messages" /\ (job' = job \/ IsOther(job'))
    BY <1>2, <1>6, OthersAreOther DEF M!Lands, M!Fails, M!Done
  <2>. QED  BY <1>1, <1>2, <2>1, OtherPanelStep
<1>. QED  BY <1>1, <1>3, <1>4, <1>5, <1>6 DEF InMessages, M!MessageAnswers

LEMMA SyncKeeps == SInv /\ InSync => SInv'
<1>1. SUFFICES ASSUME SInv, InSync PROVE SInv'
  OBVIOUS
<1>2. UNCHANGED <<view, scheduled, asks>> /\ (asks # {} => view = "messages") /\ JobTypes
  BY <1>1 DEF InSync, SInv, AnswersAreMounted, inspector
<1>3. job' = job \/ (IsOther(job) /\ IsOther(job'))
  <2>1. CASE Preview
    BY <2>1, OthersAreOther DEF Preview
  <2>2. CASE Run
    BY <2>2, OthersAreOther DEF Run
  <2>3. CASE \E read \in [Accounts -> Lists] : PreviewLands(read)
    BY <1>2, <2>3, JobKinds, OthersAreOther DEF PreviewLands
  <2>4. CASE PreviewFails \/ RunEnds
    BY <1>2, <2>4, JobKinds, OthersAreOther DEF PreviewFails, RunEnds
  <2>5. CASE RunQueued
    BY <1>2, <2>5, JobKinds, OtherGoesOn DEF RunQueued
  <2>6. CASE \E c \in [source : Accounts \cup {None}, targets : SUBSET Accounts,
                       options : SUBSET States] : Choose(c)
    BY <2>6 DEF Choose
  <2>. QED  BY <1>1, <2>1, <2>2, <2>3, <2>4, <2>5, <2>6 DEF InSync, SyncClicks, SyncAnswers
<1>. QED  BY <1>1, <1>2, <1>3, OtherPanelStep

\* Leaving a tab takes its scans with it.
LEMMA VisitKeeps == ASSUME SInv, NEW v, Visit(v) PROVE SInv'
<1>1. /\ view' = v /\ asks' = {} /\ UNCHANGED <<queued, over>>
      /\ overview' = None /\ ticked' = {} /\ manual' = S!NoManual
      /\ scanning' = (v = "scheduled")
      /\ scans' = IF v = "scheduled" THEN {S!NewScan(FALSE)} ELSE {}
      /\ job' = IF job = NoJob THEN job ELSE [job EXCEPT !.left = TRUE]
  BY DEF Visit, M!MessagesReset, S!ScheduledReset, S!telegram
<1>2. ScheduledTypes'
  <2>1. S!NoManual \in Manuals
    BY DEF S!NoManual, Manuals
  <2>2. S!NewScan(FALSE) \in Scans
    BY DEF S!NewScan, Scans
  <2>. QED  BY <1>1, <2>1, <2>2 DEF SInv, ScheduledTypes
<1>3. OwnScanFollows'
  BY <1>1 DEF OwnScanFollows, S!NewScan
<1>4. JobTypes' /\ GoneIsOver' /\ (job'.op = "clear" => job'.left = TRUE)
  <2>1. CASE job = NoJob
    BY <1>1, <2>1, OthersAreOther DEF SInv, JobTypes, GoneIsOver, NoJob
  <2>2. CASE job # NoJob /\ job.op = "clear"
    BY <1>1, <2>2, JobKinds, ClearLeft DEF SInv, JobTypes, GoneIsOver
  <2>3. CASE job # NoJob /\ job.op = "check"
    BY <1>1, <2>3, JobKinds, CheckLeft DEF SInv, JobTypes, GoneIsOver
  <2>4. CASE job # NoJob /\ job.op \notin {"clear", "check"}
    <3>1. IsOther(job')
      BY <1>1, <2>4, JobKinds, OtherGoesOn DEF SInv
    <3>. QED  BY <1>1, <3>1 DEF SInv, JobTypes, GoneIsOver, IsOther
  <2>. QED  BY <2>1, <2>2, <2>3, <2>4
<1>. QED  BY <1>1, <1>2, <1>3, <1>4 DEF SInv, AnswersAreMounted

\* A step of the tab that neither deletes nor scans.
LEMMA QuietStep ==
    ASSUME SInv, UNCHANGED <<view, asks, job, queued, over, scans>>, ScheduledTypes'
    PROVE  SInv'
  BY DEF SInv, JobTypes, GoneIsOver, OwnScanFollows, AnswersAreMounted, IsOther

\* Messages come and go on Telegram.
LEMMA TelegramStep ==
    ASSUME SInv, UNCHANGED <<view, asks>>, NEW m \in Messages, S!Queue(m) \/ S!Deliver(m)
    PROVE  SInv'
<1>1. UNCHANGED <<job, overview, scanning, scans, ticked, manual>>
  BY DEF S!Queue, S!Deliver, S!cards
<1>2. ScheduledTypes'
  BY <1>1 DEF SInv, ScheduledTypes, S!Queue, S!Deliver
<1>3. over \subseteq over' /\ queued' \cap over' = {}
  BY DEF SInv, GoneIsOver, S!Queue, S!Deliver
<1>4. GoneIsOver' /\ JobTypes'
  BY <1>1, <1>3 DEF SInv, GoneIsOver, JobTypes, IsOther
<1>. QED  BY <1>1, <1>2, <1>4 DEF SInv, OwnScanFollows, AnswersAreMounted

\* What is ticked, filtered, folded or typed.
LEMMA LookStep ==
    ASSUME SInv, UNCHANGED <<view, asks>>,
           \/ \E f \in {"all", "owned", "manual"} : S!Filter(f)
           \/ \E m \in Messages : S!Tick(m) \/ S!TickManual(m)
           \/ \E a \in Accounts : S!Fold(a) \/ S!PickAccount(a)
           \/ \E c \in Chats : S!TypeChat(c)
    PROVE  SInv'
<1>1. UNCHANGED <<job, queued, over, scans, overview, scanning>>
  BY DEF S!Filter, S!Tick, S!TickManual, S!Fold, S!PickAccount, S!TypeChat, S!telegram, S!cards
<1>2. ticked \subseteq Messages /\ manual \in Manuals
  BY DEF SInv, ScheduledTypes
<1>3. ticked' \subseteq Messages
  BY <1>2 DEF S!Filter, S!Tick, S!TickManual, S!Fold, S!PickAccount, S!TypeChat, S!cards
<1>4. manual' \in Manuals
  <2>1. CASE manual' = manual
    BY <1>2, <2>1
  <2>2. ASSUME NEW m \in Messages, S!TickManual(m) PROVE manual' \in Manuals
    <3>. DEFINE t == (manual.ticked \ {Id[m]}) \cup ({Id[m]} \ manual.ticked)
    <3>1. manual' = [manual EXCEPT !.ticked = t]
      BY <2>2 DEF S!TickManual
    <3>2. t \in SUBSET Ids
      BY <1>2 DEF Manuals, Ids
    <3>. HIDE DEF t
    <3>. QED  BY <1>2, <3>1, <3>2 DEF Manuals
  <2>3. ASSUME NEW a \in Accounts, S!PickAccount(a) PROVE manual' \in Manuals
    <3>1. manual' = [[manual EXCEPT !.acct = a] EXCEPT !.result = None]
      BY <2>3 DEF S!PickAccount
    <3>. QED  BY <1>2, <3>1 DEF Manuals
  <2>4. ASSUME NEW c \in Chats, S!TypeChat(c) PROVE manual' \in Manuals
    BY <1>2, <2>4 DEF S!TypeChat, Manuals
  <2>. QED  BY <2>1, <2>2, <2>3, <2>4 DEF S!Filter, S!Tick, S!Fold
<1>5. ScheduledTypes'
  BY <1>1, <1>3, <1>4 DEF SInv, ScheduledTypes
<1>. QED  BY <1>1, <1>5, QuietStep

LEMMA RescanStep == ASSUME SInv, UNCHANGED <<view, asks>>, S!Rescan PROVE SInv'
<1>1. UNCHANGED <<job, queued, over, overview, ticked, manual>>
      /\ scanning' = TRUE /\ scans' = scans \cup {S!NewScan(FALSE)}
  BY DEF S!Rescan, S!telegram
<1>2. S!NewScan(FALSE) \in Scans /\ ~S!NewScan(FALSE).own
  BY DEF S!NewScan, Scans
<1>3. ScheduledTypes' /\ JobTypes' /\ GoneIsOver' /\ AnswersAreMounted'
  BY <1>1, <1>2 DEF SInv, ScheduledTypes, JobTypes, GoneIsOver, AnswersAreMounted, IsOther
<1>4. OwnScanFollows'
  BY <1>1, <1>2 DEF SInv, OwnScanFollows
<1>. QED  BY <1>3, <1>4 DEF SInv

\* What a scan reads is held now, so it is none of the deleted messages.
LEMMA ScanReadStep ==
    ASSUME SInv, UNCHANGED <<view, asks>>, NEW s \in scans, NEW a \in Accounts,
           NEW fails \in BOOLEAN, S!ScanReads(s, a, fails)
    PROVE  SInv'
<1>. DEFINE read == {m \in queued : Of[m] = a /\ S!PlaceOf(m) \in Targeted}
            todo == s.todo \ {a}
            seen == IF fails THEN s.seen ELSE s.seen \cup read
            n == [s EXCEPT !.todo = @ \ {a}, !.seen = IF fails THEN @ ELSE @ \cup read]
            k == [[s EXCEPT !.todo = todo] EXCEPT !.seen = seen]
<1>1. s \in Scans /\ queued \subseteq Messages
  BY DEF SInv, ScheduledTypes
<1>2. n = k
  OBVIOUS
<1>3. UNCHANGED <<job, queued, over, overview, scanning, ticked, manual>>
      /\ scans' = (scans \ {s}) \cup {k}
  BY <1>2 DEF S!ScanReads, S!telegram
<1>4. todo \in SUBSET Accounts /\ seen \in SUBSET Messages /\ seen \subseteq s.seen \cup queued
  BY <1>1 DEF Scans
<1>. HIDE DEF todo, seen, n
<1>5. k \in Scans /\ k.own = s.own /\ k.seen = seen
  <2>1. s \in Scans /\ todo \in SUBSET Accounts /\ seen \in SUBSET Messages
    BY <1>1, <1>4
  <2>. QED  BY <2>1 DEF Scans
<1>. HIDE DEF k, n
<1>7. ScheduledTypes' /\ JobTypes' /\ GoneIsOver' /\ AnswersAreMounted'
  BY <1>3, <1>5 DEF SInv, ScheduledTypes, JobTypes, GoneIsOver, AnswersAreMounted, IsOther
<1>8. OwnScanFollows'
  <2>1. k.own => k.seen \cap job.gone = {}
    BY <1>4, <1>5 DEF SInv, OwnScanFollows, GoneIsOver
  <2>. QED  BY <1>3, <1>5, <2>1 DEF SInv, OwnScanFollows
<1>. QED  BY <1>7, <1>8 DEF SInv

LEMMA ScanEndStep ==
    ASSUME SInv, UNCHANGED <<view, asks>>, NEW s \in scans, S!ScanLands(s) \/ S!ScanFails(s)
    PROVE  SInv'
<1>1. /\ scans' = scans \ {s} /\ scanning' = FALSE
      /\ job' = IF s.own THEN S!NoJob ELSE job
      /\ UNCHANGED <<queued, over, manual>>
  BY DEF S!ScanLands, S!ScanFails, S!ScanEnds, S!telegram
<1>2. ScheduledTypes'
  BY <1>1 DEF SInv, ScheduledTypes, S!ScanLands, S!ScanFails, Scans
<1>3. OwnScanFollows'
  BY <1>1 DEF SInv, OwnScanFollows
<1>4. CASE s.own
  BY <1>1, <1>2, <1>3, <1>4, OthersAreOther
  DEF SInv, JobTypes, GoneIsOver, AnswersAreMounted, IsOther
<1>5. CASE ~s.own
  BY <1>1, <1>2, <1>3, <1>5 DEF SInv, JobTypes, GoneIsOver, AnswersAreMounted, IsOther
<1>. QED  BY <1>4, <1>5

\* A handler begins or ends while no scan is the one of a deletion.
LEMMA JobStep ==
    ASSUME SInv, UNCHANGED <<view, asks, queued, over, scans, overview, scanning, ticked>>,
           manual' \in Manuals, JobTypes',
           \A s \in scans : ~s.own,
           job'.op \in {"clear", "check"} => job'.gone \subseteq over,
           job'.op = "clear" /\ ~job'.left => view = "scheduled"
    PROVE  SInv'
<1>1. ScheduledTypes'
  BY DEF SInv, ScheduledTypes
<1>2. GoneIsOver' /\ OwnScanFollows' /\ AnswersAreMounted'
  BY DEF SInv, GoneIsOver, OwnScanFollows, AnswersAreMounted
<1>. QED  BY <1>1, <1>2 DEF SInv

LEMMA CardStep ==
    ASSUME SInv, UNCHANGED <<view, asks>>, NEW p \in Accounts \X Chats, NEW all \in BOOLEAN,
           S!ClickCard(p, all)
    PROVE  SInv'
<1>. DEFINE on == {m \in ticked : S!PlaceOf(m) = p}
            ids == IF all THEN All ELSE {Id[m] : m \in on}
            j == [op |-> "clear", at |-> "ask", left |-> FALSE, by |-> "card", place |-> p,
                  from |-> p, ids |-> ids, gone |-> {}, chat |-> None]
<1>1. job' = j /\ job = S!NoJob /\ view = "scheduled"
      /\ UNCHANGED <<queued, over, overview, scanning, scans, ticked, manual>>
  BY DEF S!ClickCard, S!Ask, S!Here, S!telegram, S!cards
<1>2. ticked \subseteq Messages /\ manual \in Manuals
  BY DEF SInv, ScheduledTypes
<1>3. ids \in (SUBSET Ids) \cup {All}
  BY <1>2 DEF Ids
<1>4. p \in Places
  BY DEF Places
<1>. HIDE DEF ids
<1>5. j \in ClearJobs /\ j.gone = {}
  BY <1>3, <1>4 DEF ClearJobs
<1>6. \A s \in scans : ~s.own
  BY <1>1, JobKinds DEF SInv, OwnScanFollows
<1>. HIDE DEF j
<1>. QED  BY <1>1, <1>2, <1>5, <1>6, JobStep DEF JobTypes

LEMMA ManualStep ==
    ASSUME SInv, UNCHANGED <<view, asks>>, NEW all \in BOOLEAN, S!ClickManual(all)
    PROVE  SInv'
<1>. DEFINE place == <<manual.acct, manual.result.place[2]>>
            ids == IF all THEN All ELSE manual.ticked
            j == [op |-> "clear", at |-> "ask", left |-> FALSE, by |-> "manual", place |-> place,
                  from |-> manual.result.place, ids |-> ids, gone |-> {}, chat |-> manual.chat]
<1>1. job' = j /\ job = S!NoJob /\ view = "scheduled" /\ manual.result # None
      /\ UNCHANGED <<queued, over, overview, scanning, scans, ticked, manual>>
  BY DEF S!ClickManual, S!Here, S!telegram, S!cards
<1>2. manual \in Manuals
  BY DEF SInv, ScheduledTypes
<1>3. manual.result \in Looks /\ manual.acct \in Accounts \cup {None}
      /\ manual.ticked \in SUBSET Ids /\ manual.chat \in Chats \cup {None}
  BY <1>1, <1>2 DEF Manuals
<1>4. place \in Places /\ manual.result.place \in Places
  BY <1>3 DEF Looks, Places
<1>5. ids \in (SUBSET Ids) \cup {All}
  BY <1>3
<1>. HIDE DEF place, ids
<1>6. j \in ClearJobs /\ j.gone = {}
  BY <1>3, <1>4, <1>5 DEF ClearJobs
<1>7. \A s \in scans : ~s.own
  BY <1>1, JobKinds DEF SInv, OwnScanFollows
<1>. HIDE DEF j
<1>. QED  BY <1>1, <1>2, <1>6, <1>7, JobStep DEF JobTypes

LEMMA CheckStep == ASSUME SInv, UNCHANGED <<view, asks>>, S!Check PROVE SInv'
<1>. DEFINE j == [op |-> "check", at |-> "get", left |-> FALSE, by |-> "manual",
                  place |-> <<manual.acct, manual.chat>>, gone |-> {}]
<1>1. job' = j /\ job = S!NoJob
      /\ UNCHANGED <<queued, over, overview, scanning, scans, ticked, manual>>
  BY DEF S!Check, S!telegram, S!cards
<1>2. manual \in Manuals
  BY DEF SInv, ScheduledTypes
<1>3. <<manual.acct, manual.chat>> \in Places
  BY <1>2 DEF Manuals, Places
<1>4. j \in CheckJobs /\ j.gone = {} /\ j.op = "check"
  BY <1>3 DEF CheckJobs
<1>5. \A s \in scans : ~s.own
  BY <1>1, JobKinds DEF SInv, OwnScanFollows
<1>. HIDE DEF j
<1>. QED  BY <1>1, <1>2, <1>4, <1>5, JobStep DEF JobTypes

LEMMA AnswerStep == ASSUME SInv, UNCHANGED <<view, asks>>, NEW yes, S!Answer(yes) PROVE SInv'
<1>1. job \in ClearJobs /\ job.at = "ask"
      /\ UNCHANGED <<queued, over, overview, scanning, scans, ticked, manual>>
  BY JobKinds DEF S!Answer, SInv, S!telegram, S!cards
<1>2. manual \in Manuals /\ \A s \in scans : ~s.own
  BY <1>1 DEF SInv, ScheduledTypes, OwnScanFollows
<1>3. CASE yes
  <2>1. job' \in ClearJobs /\ job'.left = job.left /\ job'.gone = job.gone
    BY <1>1, <1>3, ClearStaged DEF S!Answer
  <2>2. job.gone \subseteq over /\ (~job.left => view = "scheduled")
    BY <1>1 DEF SInv, GoneIsOver, AnswersAreMounted, ClearJobs
  <2>. QED  BY <1>1, <1>2, <2>1, <2>2, JobStep DEF JobTypes
<1>4. CASE ~yes
  <2>1. job' = S!NoJob
    BY <1>4 DEF S!Answer
  <2>2. job'.op = "none"
    BY <2>1 DEF S!NoJob
  <2>. QED  BY <1>1, <1>2, <2>1, <2>2, JobStep, OthersAreOther DEF JobTypes
<1>. QED  BY <1>3, <1>4

\* Handlers that end: what is left of them, and the looks at a chat.
LEMMA EndStep ==
    ASSUME SInv, UNCHANGED <<view, asks>>, S!LeftEnds \/ S!CheckLands \/ S!CheckFails
    PROVE  SInv'
<1>1. job' = S!NoJob /\ UNCHANGED <<queued, over, overview, scanning, scans, ticked>>
  BY DEF S!LeftEnds, S!CheckLands, S!CheckFails, S!telegram, S!cards
<1>2. manual \in Manuals /\ queued \subseteq Messages
  BY DEF SInv, ScheduledTypes
<1>3. \A s \in scans : ~s.own
  BY DEF SInv, OwnScanFollows, S!LeftEnds, S!CheckLands, S!CheckFails
<1>4. manual' \in Manuals
  <2>1. CASE S!CheckLands
    <3>. DEFINE place == IF job.at = "get" THEN job.place ELSE <<job.place[1], job.chat>>
                look == [place |-> place, seen |-> S!Held(place)]
    <3>1. manual' = [[manual EXCEPT !.ticked = {}] EXCEPT !.result = look]
      BY <2>1 DEF S!CheckLands
    <3>2. place \in Places
      <4>1. CASE job \in CheckJobs
        BY <4>1 DEF CheckJobs
      <4>2. CASE job \in ClearJobs
        BY <2>1, <4>2 DEF S!CheckLands, ClearJobs, Places
      <4>. QED  BY <2>1, <4>1, <4>2, JobKinds DEF S!CheckLands, SInv
    <3>3. S!Held(place) \in SUBSET Messages
      BY <1>2 DEF S!Held
    <3>. HIDE DEF place
    <3>4. look \in Looks
      BY <3>2, <3>3 DEF Looks
    <3>. HIDE DEF look
    <3>. QED  BY <1>2, <3>1, <3>4 DEF Manuals
  <2>2. CASE S!LeftEnds \/ S!CheckFails
    BY <1>2, <2>2 DEF S!LeftEnds, S!CheckFails
  <2>. QED  BY <2>1, <2>2
<1>5. job'.op = "none" /\ IsOther(job')
  BY <1>1, OthersAreOther DEF S!NoJob
<1>. QED  BY <1>1, <1>3, <1>4, <1>5, JobStep DEF JobTypes

\* The deletion: from now on the messages are over, and the scan that follows it
\* has seen nothing yet.
LEMMA ClearStep == ASSUME SInv, UNCHANGED <<view, asks>>, S!Clears PROVE SInv'
<1>1. job \in ClearJobs /\ job.at = "post"
  BY JobKinds DEF S!Clears, SInv
<1>2. S!Hit \subseteq queued /\ S!Hit \in SUBSET Messages
  BY DEF S!Hit, S!Held, SInv, ScheduledTypes
<1>3. /\ queued' = queued \ S!Hit /\ over' = over \cup S!Hit
      /\ UNCHANGED <<overview, ticked, manual>>
  BY DEF S!Clears
<1>4. queued' \cap over' = {} /\ queued' \subseteq Messages /\ over' \subseteq Messages
  BY <1>2, <1>3 DEF SInv, GoneIsOver, ScheduledTypes
<1>5. \A s \in scans : ~s.own
  BY <1>1 DEF SInv, OwnScanFollows
<1>6. ~job.left => view = "scheduled"
  BY <1>1 DEF SInv, AnswersAreMounted, ClearJobs
<1>7. PICK at \in {"rescan", "recheck"} : job' = [[job EXCEPT !.at = at] EXCEPT !.gone = S!Hit]
                                           /\ (job.by = "card" => at = "rescan")
  BY DEF S!Clears
<1>8. /\ job' \in ClearJobs /\ job'.op = "clear" /\ job'.at = at /\ job'.left = job.left
      /\ job'.gone = S!Hit
  BY <1>1, <1>2, <1>7, ClearDeletes
<1>9. JobTypes' /\ GoneIsOver' /\ AnswersAreMounted'
  BY <1>3, <1>4, <1>6, <1>8 DEF SInv, JobTypes, GoneIsOver, AnswersAreMounted
<1>10. CASE job.by = "card"
  <2>1. scans' = S!ScansAfter /\ scanning' = (scanning \/ ~job.left)
    BY <1>10 DEF S!Clears
  <2>2. job'.at = "rescan"
    BY <1>7, <1>8, <1>10
  <2>3. S!NewScan(TRUE) \in Scans /\ S!NewScan(TRUE).seen = {}
    BY DEF S!NewScan, Scans
  <2>4. scans' = scans \/ (~job.left /\ scans' = scans \cup {S!NewScan(TRUE)})
    BY <2>1 DEF S!ScansAfter
  <2>5. OwnScanFollows'
    BY <1>5, <1>8, <2>2, <2>3, <2>4 DEF OwnScanFollows
  <2>6. scanning' \in BOOLEAN
    BY <2>1
  <2>7. ScheduledTypes'
    BY <1>3, <1>4, <2>3, <2>4, <2>6 DEF SInv, ScheduledTypes
  <2>. QED  BY <1>9, <2>5, <2>7 DEF SInv
<1>11. CASE job.by # "card"
  <2>1. UNCHANGED <<scans, scanning>>
    BY <1>11 DEF S!Clears
  <2>2. OwnScanFollows'
    BY <1>5, <2>1 DEF OwnScanFollows
  <2>3. ScheduledTypes'
    BY <1>3, <1>4, <2>1 DEF SInv, ScheduledTypes
  <2>. QED  BY <1>9, <2>2, <2>3 DEF SInv
<1>. QED  BY <1>10, <1>11

LEMMA ClearFailStep == ASSUME SInv, UNCHANGED <<view, asks>>, S!ClearFails PROVE SInv'
<1>1. job' = S!NoJob /\ UNCHANGED <<overview, scanning, scans, ticked, manual>>
      /\ job.op = "clear" /\ job.at = "post"
  BY DEF S!ClearFails, S!cards
<1>2. S!Hit \subseteq queued
  BY DEF S!Hit, S!Held
<1>3. queued' \cap over' = {} /\ queued' \subseteq Messages /\ over' \subseteq Messages
  BY <1>2 DEF S!ClearFails, S!telegram, SInv, GoneIsOver, ScheduledTypes
<1>4. \A s \in scans : ~s.own
  BY <1>1 DEF SInv, OwnScanFollows
<1>5. job'.op = "none" /\ IsOther(job')
  BY <1>1, OthersAreOther DEF S!NoJob
<1>. QED
  BY <1>1, <1>3, <1>4, <1>5
  DEF SInv, ScheduledTypes, JobTypes, GoneIsOver, OwnScanFollows, AnswersAreMounted

LEMMA ScheduledKeeps == SInv /\ InScheduled => SInv'
<1>1. SUFFICES ASSUME SInv, InScheduled PROVE SInv'
  OBVIOUS
<1>2. UNCHANGED <<view, asks>>
  BY <1>1 DEF InScheduled, inspector
<1>3. CASE S!Elsewhere
  BY <1>1, <1>2, <1>3, TelegramStep DEF S!Elsewhere
<1>4. CASE S!ScheduledAnswers
  <2>1. ASSUME NEW s \in scans, \/ \E a \in Accounts, fails \in BOOLEAN : S!ScanReads(s, a, fails)
                                \/ S!ScanLands(s) \/ S!ScanFails(s)
        PROVE  SInv'
    BY <1>1, <1>2, <2>1, ScanReadStep, ScanEndStep
  <2>2. CASE S!Clears \/ S!ClearFails
    BY <1>1, <1>2, <2>2, ClearStep, ClearFailStep
  <2>3. CASE S!LeftEnds \/ S!CheckLands \/ S!CheckFails
    BY <1>1, <1>2, <2>3, EndStep
  <2>. QED  BY <1>4, <2>1, <2>2, <2>3 DEF S!ScheduledAnswers
<1>5. CASE S!ScheduledClicks
  <2>1. CASE S!Rescan \/ S!Check
    BY <1>1, <1>2, <2>1, RescanStep, CheckStep
  <2>2. CASE \/ \E p \in Accounts \X Chats, all \in BOOLEAN : S!ClickCard(p, all)
             \/ \E all \in BOOLEAN : S!ClickManual(all)
    BY <1>1, <1>2, <2>2, CardStep, ManualStep
  <2>3. CASE \E yes \in BOOLEAN : S!Answer(yes)
    BY <1>1, <1>2, <2>3, AnswerStep
  <2>4. CASE \/ \E f \in {"all", "owned", "manual"} : S!Filter(f)
             \/ \E m \in Messages : S!Tick(m) \/ S!TickManual(m)
             \/ \E a \in Accounts : S!Fold(a) \/ S!PickAccount(a)
             \/ \E c \in Chats : S!TypeChat(c)
    BY <1>1, <1>2, <2>4, LookStep
  <2>. QED  BY <1>5, <2>1, <2>2, <2>3, <2>4 DEF S!ScheduledClicks
<1>. QED  BY <1>1, <1>3, <1>4, <1>5 DEF InScheduled

LEMMA InitSInv == Init => SInv
<1>1. SUFFICES ASSUME Init PROVE SInv
  OBVIOUS
<1>2. job = NoJob /\ queued = {} /\ over = {} /\ overview = None /\ scanning = FALSE
      /\ scans = {} /\ ticked = {} /\ manual = S!NoManual /\ asks = {}
  BY <1>1 DEF Init, M!MessagesInit, S!ScheduledInit
<1>3. S!NoManual \in Manuals
  BY DEF S!NoManual, Manuals
<1>4. IsOther(job) /\ job.op = "none"
  BY <1>2, OthersAreOther DEF NoJob
<1>. QED
  BY <1>2, <1>3, <1>4
  DEF SInv, ScheduledTypes, JobTypes, GoneIsOver, OwnScanFollows, AnswersAreMounted

LEMMA SInvStep == SInv /\ [Next]_vars => SInv'
<1>1. SUFFICES ASSUME SInv, [Next]_vars PROVE SInv'
  OBVIOUS
<1>2. CASE UNCHANGED vars
  <2>1. UNCHANGED <<view, scheduled, job, asks>>
    BY <1>2 DEF vars, inspector
  <2>2. asks' # {} => view = "messages"
    BY <1>1, <2>1 DEF SInv, AnswersAreMounted
  <2>. QED  BY <1>1, <2>1, <2>2, OtherPanelStep
<1>. QED  BY <1>1, <1>2, VisitKeeps, MessagesKeep, ScheduledKeeps, SyncKeeps DEF Next

LEMMA Inductive == Spec => []SInv
  BY InitSInv, SInvStep, PTL DEF Spec

\* The state of the scheduled inspector and of the handler inside guarded have
\* their types, and a scan that a deletion waits for is its own, begun after it
\* on the tab that is mounted.
THEOREM DeletionsAreFollowed == Spec => [](ScheduledTypes /\ JobTypes /\ OwnScanFollows)
<1>1. SInv => ScheduledTypes /\ JobTypes /\ OwnScanFollows
  BY DEF SInv
<1>. QED  BY <1>1, Inductive, PTL

\* What the inspector shows after a deletion has none of the messages it deleted,
\* whatever scans were out when it began and whatever happens on Telegram.
THEOREM DeletedAreNotRead == Spec => ReadsAfterTheDeletion
<1>. DEFINE Reads == /\ \A s \in scans : S!ScanLands(s) /\ s.own => overview' \cap job.gone = {}
                     /\ S!CheckLands => manual'.result.seen \cap job.gone = {}
<1>1. ASSUME SInv PROVE Reads
  <2>1. ASSUME NEW s \in scans, S!ScanLands(s), s.own PROVE overview' \cap job.gone = {}
    BY <1>1, <2>1 DEF SInv, OwnScanFollows, S!ScanLands
  <2>2. ASSUME S!CheckLands PROVE manual'.result.seen \cap job.gone = {}
    <3>. DEFINE place == IF job.at = "get" THEN job.place ELSE <<job.place[1], job.chat>>
                look == [place |-> place, seen |-> S!Held(place)]
    <3>1. manual' = [[manual EXCEPT !.ticked = {}] EXCEPT !.result = look]
      BY <2>2 DEF S!CheckLands
    <3>2. manual \in Manuals /\ look.seen \subseteq queued
      BY <1>1 DEF SInv, ScheduledTypes, S!Held
    <3>. HIDE DEF look
    <3>3. manual'.result = look
      BY <3>1, <3>2 DEF Manuals
    <3>4. job.gone \subseteq over /\ queued \cap over = {}
      BY <1>1, <2>2 DEF SInv, GoneIsOver, S!CheckLands
    <3>. QED  BY <3>2, <3>3, <3>4
  <2>. QED  BY <2>1, <2>2
<1>2. SInv /\ [Next]_vars => [Reads]_vars
  BY <1>1
<1>. QED  BY <1>2, Inductive, PTL DEF Spec, ReadsAfterTheDeletion
-------------------------------------------------------------------------------
(* The Sync tab: what the steps of a plan make of a target account.            *)

\* How the hits of a list are numbered: each has fewer before it than there are, and
\* a later one has more.
LEMMA BeforeCounts ==
    ASSUME NEW n \in Nat, NEW hits \in SUBSET (1 .. n)
    PROVE  /\ IsFiniteSet(hits) /\ Cardinality(hits) \in Nat
           /\ \A i \in hits : Before(hits, i) \in 0 .. Cardinality(hits) - 1
           /\ \A i, j \in hits : i < j => Before(hits, i) < Before(hits, j)
<1>0. hits \subseteq Int
  OBVIOUS
<1>1. IsFiniteSet(hits) /\ Cardinality(hits) \in Nat
  <2>1. IsFiniteSet(1 .. n)
    BY FS_Interval
  <2>2. IsFiniteSet(hits)
    BY <2>1, FS_Subset
  <2>. QED  BY <2>2, FS_CardinalityType
<1>2. ASSUME NEW H \in SUBSET hits, NEW L \in SUBSET H, H # L
      PROVE  Cardinality(L) \in Nat /\ Cardinality(H) \in Nat /\ Cardinality(L) < Cardinality(H)
  <2>1. IsFiniteSet(H) /\ IsFiniteSet(L)
    BY <1>1, FS_Subset
  <2>2. Cardinality(H) \in Nat /\ Cardinality(L) \in Nat
    BY <2>1, FS_CardinalityType
  <2>3. Cardinality(L) <= Cardinality(H) /\ Cardinality(L) # Cardinality(H)
    BY <1>2, <2>1, FS_Subset
  <2>. QED  BY <2>2, <2>3
<1>3. ASSUME NEW i \in hits PROVE Before(hits, i) \in 0 .. Cardinality(hits) - 1
  <2>. DEFINE below == {k \in hits : k < i}
  <2>1. below \in SUBSET hits /\ i \notin below
    OBVIOUS
  <2>2. Cardinality(below) \in Nat /\ Cardinality(below) < Cardinality(hits)
    BY <1>2, <2>1
  <2>. QED  BY <1>1, <2>2 DEF Before
<1>4. ASSUME NEW i \in hits, NEW j \in hits, i < j PROVE Before(hits, i) < Before(hits, j)
  <2>. DEFINE low == {k \in hits : k < i}
              high == {k \in hits : k < j}
  <2>1. high \in SUBSET hits /\ low \in SUBSET high /\ i \in high /\ i \notin low
    <3>1. i \in Int /\ j \in Int /\ \A k \in hits : k \in Int
      BY <1>0
    <3>2. i < j /\ ~ (i < i) /\ \A k \in hits : k < i => k < j
      BY <1>4, <3>1
    <3>. QED  BY <3>2
  <2>2. Cardinality(low) < Cardinality(high)
    BY <1>2, <2>1
  <2>. QED  BY <2>2 DEF Before
<1>. QED  BY <1>1, <1>3, <1>4

\* No number is left out.
LEMMA EveryNumberIsTaken ==
    ASSUME NEW n \in Nat, NEW hits \in SUBSET (1 .. n), NEW r \in 0 .. Cardinality(hits) - 1
    PROVE  \E i \in hits : Before(hits, i) = r
<1>. DEFINE numbers == 0 .. Cardinality(hits) - 1
            f == [i \in hits |-> Before(hits, i)]
<1>0. hits \subseteq Int
  OBVIOUS
<1>1. Cardinality(hits) \in Nat
  BY BeforeCounts
<1>2. IsFiniteSet(numbers) /\ Cardinality(numbers) = Cardinality(hits)
  BY <1>1, FS_Interval
<1>3. f \in [hits -> numbers]
  BY BeforeCounts
<1>4. \A i, j \in hits : f[i] = f[j] => i = j
  <2>1. \A i, j \in hits : i < j => Before(hits, i) < Before(hits, j)
    BY BeforeCounts
  <2>2. \A i \in hits : Before(hits, i) \in Int
    <3>1. \A i \in hits : Before(hits, i) \in 0 .. Cardinality(hits) - 1
      BY BeforeCounts
    <3>. QED  BY <1>1, <3>1
  <2>. QED  BY <1>0, <2>1, <2>2
<1>5. f \in Injection(hits, numbers)
  BY <1>3, <1>4 DEF Injection, IsInjective
<1>6. f \in Surjection(hits, numbers)
  BY <1>2, <1>5, FS_Injection
<1>. QED  BY <1>6 DEF Surjection

\* The slices start where a slice ends, so each number is in one.
LEMMA StartsCover ==
    ASSUME NEW c \in Nat, NEW r \in 0 .. c - 1
    PROVE  \E s \in Starts(c) : r \in s .. s + MAX_TARGETS_PER_STEP - 1
<1>. DEFINE d == MAX_TARGETS_PER_STEP
            q == r \div d
            s == d * q
<1>1. d \in Nat \ {0} /\ r \in Nat
  BY CapAssumption
<1>. HIDE DEF d
<1>2. q \in Nat /\ r = d * q + (r % d) /\ r % d \in 0 .. d - 1
  BY <1>1
<1>. HIDE DEF q
<1>3. s \in Nat /\ s <= r /\ r < s + d
  BY <1>1, <1>2
<1>4. s % d = 0
  <2>. DEFINE p == s \div d
              m == s % d
  <2>. HIDE DEF s
  <2>1. p \in Int /\ m \in 0 .. d - 1 /\ s = d * p + m
    BY <1>1, <1>3
  <2>. HIDE DEF p, m
  <2>0. s = d * q
    BY DEF s
  <2>2. d * (q - p) = m
    BY <1>1, <1>2, <2>0, <2>1
  <2>3. CASE q - p >= 1
    <3>1. d * (q - p) >= d
      BY <1>1, <1>2, <2>1, <2>3
    <3>. QED  BY <1>1, <2>1, <2>2, <3>1
  <2>4. CASE q - p <= -1
    <3>1. d * (q - p) <= -d
      BY <1>1, <1>2, <2>1, <2>4
    <3>. QED  BY <1>1, <2>1, <2>2, <3>1
  <2>5. CASE q - p = 0
    BY <1>1, <2>1, <2>2, <2>5 DEF m
  <2>. QED  BY <1>2, <2>1, <2>3, <2>4, <2>5
<1>. HIDE DEF s
<1>5. s \in Starts(c)
  BY <1>3, <1>4 DEF Starts, d
<1>. QED  BY <1>1, <1>3, <1>5 DEF d

\* Every hit is in a slice, and a slice has at least one and at most as many as a step may.
LEMMA SlicesCover ==
    ASSUME NEW n \in Nat, NEW hits \in SUBSET (1 .. n)
    PROVE  \A i \in hits : \E s \in Starts(Cardinality(hits)) : i \in Slice(hits, s)
<1>1. SUFFICES ASSUME NEW i \in hits
               PROVE  \E s \in Starts(Cardinality(hits)) : i \in Slice(hits, s)
  OBVIOUS
<1>2. Cardinality(hits) \in Nat /\ Before(hits, i) \in 0 .. Cardinality(hits) - 1
  BY BeforeCounts
<1>. QED  BY <1>2, StartsCover DEF Slice

LEMMA StepIsWithinTheCap ==
    ASSUME NEW n \in Nat, NEW hits \in SUBSET (1 .. n), NEW source,
           NEW s \in Starts(Cardinality(hits))
    PROVE  Cardinality(Chunk(source, hits, s)) \in 1 .. MAX_TARGETS_PER_STEP
<1>. DEFINE slice == Slice(hits, s)
            numbers == s .. s + MAX_TARGETS_PER_STEP - 1
            f == [i \in slice |-> Before(hits, i)]
            g == [i \in slice |-> dialogTarget(source[i])]
            chunk == Chunk(source, hits, s)
<1>1. Cardinality(hits) \in Nat /\ IsFiniteSet(hits) /\ MAX_TARGETS_PER_STEP \in Nat \ {0}
  BY BeforeCounts, CapAssumption
<1>2. s \in 0 .. Cardinality(hits) - 1
  BY DEF Starts
<1>3. slice \in SUBSET hits
  BY DEF Slice
<1>4. IsFiniteSet(numbers) /\ Cardinality(numbers) = MAX_TARGETS_PER_STEP
  <2>1. s \in Int /\ s + MAX_TARGETS_PER_STEP - 1 \in Int
    BY <1>1, <1>2
  <2>. QED  BY <1>1, <2>1, FS_Interval
<1>5. f \in Injection(slice, numbers)
  <2>1. f \in [slice -> numbers]
    BY DEF Slice
  <2>2. \A i, j \in hits : i < j => Before(hits, i) < Before(hits, j)
    BY BeforeCounts
  <2>3. \A i \in hits : Before(hits, i) \in Int /\ i \in Int
    <3>1. \A i \in hits : Before(hits, i) \in 0 .. Cardinality(hits) - 1
      BY BeforeCounts
    <3>. QED  BY <1>1, <3>1
  <2>4. ASSUME NEW i \in slice, NEW j \in slice, f[i] = f[j] PROVE i = j
    <3>1. i \in hits /\ j \in hits /\ Before(hits, i) = Before(hits, j)
      BY <1>3, <2>4
    <3>. QED  BY <2>2, <2>3, <3>1
  <2>. QED  BY <2>1, <2>4 DEF Injection, IsInjective
<1>6. IsFiniteSet(slice) /\ Cardinality(slice) <= MAX_TARGETS_PER_STEP
  BY <1>4, <1>5, FS_Injection
<1>7. g \in Surjection(slice, chunk)
  BY DEF Surjection, Chunk
<1>8. IsFiniteSet(chunk) /\ Cardinality(chunk) <= Cardinality(slice)
  BY <1>6, <1>7, FS_Surjection
<1>9. chunk # {}
  <2>1. PICK i \in hits : Before(hits, i) = s
    BY <1>2, EveryNumberIsTaken
  <2>2. i \in slice
    BY <1>1, <1>2, <2>1 DEF Slice
  <2>. QED  BY <2>2 DEF Chunk
<1>10. Cardinality(chunk) \in Nat /\ Cardinality(chunk) # 0 /\ Cardinality(slice) \in Nat
  BY <1>6, <1>8, <1>9, FS_CardinalityType, FS_EmptySet
<1>. QED  BY <1>1, <1>6, <1>8, <1>10

\* A cached list has each dialog once.
LEMMA ListFacts ==
    ASSUME NEW list \in Lists
    PROVE  /\ Len(list) \in Nat /\ DOMAIN list = 1 .. Len(list)
           /\ \A d \in Listed(list), state \in States : d[state] \in BOOLEAN
           /\ \A d, e \in Listed(list) : syncKey(d) = syncKey(e) => d = e
<1>1. /\ list \in Seq(Listed(list))
      /\ \A d \in Listed(list) : d.archive \in BOOLEAN /\ d.mute \in BOOLEAN
      /\ \A i, j \in DOMAIN list : syncKey(list[i]) = syncKey(list[j]) => i = j
  BY ListsAssumption
<1>2. \A d, e \in Listed(list) : syncKey(d) = syncKey(e) => d = e
  BY <1>1 DEF Listed
<1>3. \A d \in Listed(list), state \in States : d[state] \in BOOLEAN
  BY <1>1 DEF States
<1>4. Len(list) \in Nat /\ DOMAIN list = 1 .. Len(list)
  BY <1>1
<1>. QED  BY <1>2, <1>3, <1>4

\* Some step sets the state of the dialog with this key.
SomeStepSets(steps, state, on, key) ==
    \E s \in steps : s.action = <<state, on>> /\ key \in s.targets
\* The source has that dialog, and the target has it in the other state.
Differs(source, target, state, on, key) ==
    \E src \in Listed(source) : Needs(src, target, state, on) /\ syncKey(src) = key

\* The steps for an account hit exactly the dialogs that differ, and no step is empty
\* or over the cap.
LEMMA StepsHitTheDifferences ==
    ASSUME NEW a, NEW source \in Lists, NEW target, NEW options \in SUBSET States,
           NEW state, NEW on \in BOOLEAN, NEW key
    PROVE  SomeStepSets(buildSyncSteps(a, source, target, options), state, on, key)
           <=> state \in options /\ Differs(source, target, state, on, key)
<1>. DEFINE hits(st, o) == syncDiff(source, target, st, o)
            steps == buildSyncSteps(a, source, target, options)
            step(st, o, n) == [action |-> <<st, o>>, targets |-> Chunk(source, hits(st, o), n),
                               account |-> a]
<1>1. \A s : s \in steps <=>
           \E st \in options, o \in BOOLEAN : \E n \in Starts(Cardinality(hits(st, o))) :
               s = step(st, o, n)
  <2>. DEFINE of(st, o) == {step(st, o, n) : n \in Starts(Cardinality(hits(st, o)))}
  <2>1. steps = UNION {of(st, o) : st \in options, o \in BOOLEAN}
    BY DEF buildSyncSteps
  <2>2. \A st, o, s : s \in of(st, o) <=>
            \E n \in Starts(Cardinality(hits(st, o))) : s = step(st, o, n)
    OBVIOUS
  <2>. HIDE DEF of, steps, step, hits
  <2>3. \A s : s \in steps <=> \E st \in options, o \in BOOLEAN : s \in of(st, o)
    BY <2>1
  <2>4. ASSUME NEW s, NEW st \in options, NEW o \in BOOLEAN
        PROVE  s \in of(st, o) <=> \E n \in Starts(Cardinality(hits(st, o))) : s = step(st, o, n)
    BY <2>2
  <2>5. SUFFICES ASSUME NEW s
                 PROVE  s \in steps <=>
                            \E st \in options, o \in BOOLEAN :
                                \E n \in Starts(Cardinality(hits(st, o))) : s = step(st, o, n)
    OBVIOUS
  <2>6. ASSUME s \in steps
        PROVE  \E st \in options, o \in BOOLEAN :
                   \E n \in Starts(Cardinality(hits(st, o))) : s = step(st, o, n)
    <3>1. PICK st \in options, o \in BOOLEAN : s \in of(st, o)
      BY <2>3, <2>6
    <3>. QED  BY <2>4, <3>1
  <2>7. ASSUME NEW st \in options, NEW o \in BOOLEAN,
               \E n \in Starts(Cardinality(hits(st, o))) : s = step(st, o, n)
        PROVE  s \in steps
    BY <2>3, <2>4, <2>7
  <2>. QED  BY <2>6, <2>7
<1>2. \A st, o, n : step(st, o, n).action = <<st, o>>
                  /\ step(st, o, n).targets = Chunk(source, hits(st, o), n)
  OBVIOUS
<1>3. Len(source) \in Nat /\ \A st, o : hits(st, o) \in SUBSET (1 .. Len(source))
  BY ListFacts DEF syncDiff
<1>4. ASSUME NEW s \in steps, s.action = <<state, on>>, key \in s.targets
      PROVE  state \in options /\ Differs(source, target, state, on, key)
  <2>0. PICK st \in options, o \in BOOLEAN :
            \E n \in Starts(Cardinality(hits(st, o))) : s = step(st, o, n)
    BY <1>1
  <2>1. PICK n \in Starts(Cardinality(hits(st, o))) : s = step(st, o, n)
    BY <2>0
  <2>2. st = state /\ o = on /\ key \in Chunk(source, hits(state, on), n)
    BY <1>2, <1>4, <2>1
  <2>3. PICK i \in hits(state, on) : key = dialogTarget(source[i])
    BY <2>2 DEF Chunk, Slice
  <2>4. i \in DOMAIN source /\ Needs(source[i], target, state, on) /\ syncKey(source[i]) = key
    BY <2>3 DEF syncDiff, dialogTarget
  <2>5. source[i] \in Listed(source)
    BY <2>4 DEF Listed
  <2>. QED  BY <2>0, <2>2, <2>4, <2>5 DEF Differs
<1>5. ASSUME state \in options, NEW src \in Listed(source), Needs(src, target, state, on),
             syncKey(src) = key
      PROVE  SomeStepSets(steps, state, on, key)
  <2>1. PICK i \in DOMAIN source : source[i] = src
    BY DEF Listed
  <2>2. i \in hits(state, on)
    BY <1>5, <2>1 DEF syncDiff
  <2>3. PICK n \in Starts(Cardinality(hits(state, on))) : i \in Slice(hits(state, on), n)
    BY <1>3, <2>2, SlicesCover
  <2>4. key \in Chunk(source, hits(state, on), n)
    BY <1>5, <2>1, <2>3 DEF Chunk, dialogTarget
  <2>5. step(state, on, n) \in steps
    BY <1>1, <1>5, <2>3
  <2>. QED  BY <1>2, <2>4, <2>5 DEF SomeStepSets
<1>. QED  BY <1>4, <1>5 DEF SomeStepSets, Differs
LEMMA StepsAreSized ==
    ASSUME NEW a, NEW source \in Lists, NEW target, NEW options \in SUBSET States,
           NEW s \in buildSyncSteps(a, source, target, options)
    PROVE  s.account = a /\ Cardinality(s.targets) \in 1 .. MAX_TARGETS_PER_STEP
<1>0. PICK st \in options, o \in BOOLEAN :
          \E n \in Starts(Cardinality(syncDiff(source, target, st, o))) :
              s = [action |-> <<st, o>>,
                   targets |-> Chunk(source, syncDiff(source, target, st, o), n), account |-> a]
  BY DEF buildSyncSteps
<1>1. PICK n \in Starts(Cardinality(syncDiff(source, target, st, o))) :
          s = [action |-> <<st, o>>, targets |-> Chunk(source, syncDiff(source, target, st, o), n),
               account |-> a]
  BY <1>0
<1>2. Len(source) \in Nat /\ syncDiff(source, target, st, o) \in SUBSET (1 .. Len(source))
  BY ListFacts DEF syncDiff
<1>3. Cardinality(Chunk(source, syncDiff(source, target, st, o), n)) \in 1 .. MAX_TARGETS_PER_STEP
  BY <1>2, StepIsWithinTheCap
<1>. QED  BY <1>1, <1>3

\* The choice the plan is made for has a source, which is none of its targets.
SyncChoices ==
    [source : Accounts \cup {None}, targets : SUBSET Accounts, options : SUBSET States]
IsSourced(c) == c \in SyncChoices /\ c.source \in Accounts /\ c.source \notin c.targets
ChoiceTypes == choice \in SyncChoices /\ choice.source \notin choice.targets
PreviewIsSourced == job.op = "preview" => "choice" \in DOMAIN job /\ IsSourced(job.choice)
StepsFor(c, read) ==
    UNION {buildSyncSteps(a, read[c.source], read[a], c.options) : a \in c.targets \ {c.source}}
PlanFollows ==
    plan # None => /\ IsSourced(plan.of) /\ plan.read \in [Accounts -> Lists]
                   /\ plan.steps = StepsFor(plan.of, plan.read)
YInv == ChoiceTypes /\ PreviewIsSourced /\ PlanFollows

\* A plan that follows its choice and what was read copies the source.
LEMMA FollowingCopies == PlanFollows => PlanCopiesTheSource
<1>1. SUFFICES ASSUME PlanFollows, plan # None PROVE PlanCopiesTheSource
  BY DEF PlanCopiesTheSource
<1>. DEFINE c == plan.of
            read == plan.read
            source == read[c.source]
<1>2. /\ c.source \in Accounts /\ c.source \notin c.targets /\ c.targets \subseteq Accounts
      /\ c.options \in SUBSET States /\ read \in [Accounts -> Lists]
  BY <1>1 DEF PlanFollows, IsSourced, SyncChoices
<1>3. /\ source \in Lists /\ \A a \in Accounts : read[a] \in Lists
      /\ plan.steps = StepsFor(c, read)
  BY <1>1, <1>2 DEF PlanFollows
<1>4. ASSUME NEW s \in plan.steps
      PROVE  Cardinality(s.targets) \in 1 .. MAX_TARGETS_PER_STEP
  <2>1. PICK b \in c.targets : s \in buildSyncSteps(b, source, read[b], c.options)
    BY <1>3 DEF StepsFor
  <2>. QED  BY <1>2, <1>3, <2>1, StepsAreSized
<1>5. ASSUME NEW a \in Accounts, NEW d \in Listed(read[a]), NEW state \in States
      PROVE  LET same == {src \in Listed(source) : syncKey(src) = syncKey(d)}
             IN After(plan.steps, a, d, state) =
                    IF a \in c.targets /\ state \in c.options /\ same # {}
                    THEN \E src \in same : src[state] ELSE d[state]
  <2>. DEFINE same == {src \in Listed(source) : syncKey(src) = syncKey(d)}
              chosen == a \in c.targets /\ state \in c.options
              Sets(on) == \E s \in plan.steps : /\ s.account = a /\ s.action = <<state, on>>
                                                /\ dialogTarget(d) \in s.targets
  <2>1. \A on \in BOOLEAN : Sets(on) <=>
            a \in c.targets /\ \E s \in buildSyncSteps(a, source, read[a], c.options) :
                                   s.action = <<state, on>> /\ syncKey(d) \in s.targets
    <3>1. ASSUME NEW on \in BOOLEAN, NEW s \in plan.steps, s.account = a, s.action = <<state, on>>,
                 dialogTarget(d) \in s.targets
          PROVE  a \in c.targets /\ s \in buildSyncSteps(a, source, read[a], c.options)
      <4>1. PICK b \in c.targets : s \in buildSyncSteps(b, source, read[b], c.options)
        BY <1>3 DEF StepsFor
      <4>2. s.account = b
        BY <1>2, <1>3, <4>1, StepsAreSized
      <4>. QED  BY <3>1, <4>1, <4>2
    <3>2. ASSUME NEW on \in BOOLEAN, a \in c.targets,
                 NEW s \in buildSyncSteps(a, source, read[a], c.options)
          PROVE  s \in plan.steps /\ s.account = a
      <4>1. s.account = a
        BY <1>2, <1>3, StepsAreSized
      <4>2. s \in plan.steps
        BY <1>2, <1>3, <3>2 DEF StepsFor
      <4>. QED  BY <4>1, <4>2
    <3>3. dialogTarget(d) = syncKey(d)
      BY DEF dialogTarget
    <3>. QED  BY <3>1, <3>2, <3>3
  <2>2. \A on \in BOOLEAN : Sets(on) <=>
            chosen /\ Differs(source, read[a], state, on, syncKey(d))
    <3>1. source \in Lists /\ c.options \in SUBSET States
      BY <1>2, <1>3
    <3>. DEFINE steps == buildSyncSteps(a, source, read[a], c.options)
    <3>2. \A on \in BOOLEAN : Sets(on) <=>
              a \in c.targets /\ SomeStepSets(steps, state, on, syncKey(d))
      BY <2>1 DEF SomeStepSets
    <3>3. \A on \in BOOLEAN : SomeStepSets(steps, state, on, syncKey(d)) <=>
              state \in c.options /\ Differs(source, read[a], state, on, syncKey(d))
      BY <3>1, StepsHitTheDifferences
    <3>. HIDE DEF Sets, steps
    <3>. QED  BY <3>2, <3>3
  <2>3. \A src \in same, on \in BOOLEAN :
            Needs(src, read[a], state, on) <=> src[state] = on /\ d[state] # on
    <3>1. \A dst \in Listed(read[a]) : syncKey(dst) = syncKey(d) => dst = d
      BY <1>3, ListFacts
    <3>. QED  BY <3>1 DEF Needs
  <2>4. \A on \in BOOLEAN : Sets(on) <=> chosen /\ \E src \in same : src[state] = on /\ d[state] # on
    <3>. HIDE DEF Sets, chosen
    <3>. QED  BY <2>2, <2>3 DEF Differs
  <2>5. \A x, y \in same : x = y
    BY <1>3, ListFacts
  <2>6. d[state] \in BOOLEAN /\ \A src \in same : src[state] \in BOOLEAN
    BY <1>3, ListFacts
  <2>7. After(plan.steps, a, d, state) =
            IF Sets(TRUE) THEN TRUE ELSE IF Sets(FALSE) THEN FALSE ELSE d[state]
    BY DEF After
  <2>. HIDE DEF Sets, chosen, same
  <2>8. CASE ~chosen \/ same = {}
    <3>1. ~Sets(TRUE) /\ ~Sets(FALSE)
      BY <2>4, <2>8
    <3>. QED  BY <2>7, <2>8, <3>1 DEF chosen, same
  <2>9. CASE chosen /\ same # {}
    <3>1. PICK src : src \in same
      BY <2>9
    <3>2. \A x \in same : x = src
      BY <2>5, <3>1
    <3>3. Sets(TRUE) <=> src[state] = TRUE /\ d[state] # TRUE
      BY <2>4, <2>9, <3>1, <3>2
    <3>4. Sets(FALSE) <=> src[state] = FALSE /\ d[state] # FALSE
      BY <2>4, <2>9, <3>1, <3>2
    <3>5. After(plan.steps, a, d, state) = src[state]
      BY <2>6, <2>7, <3>1, <3>3, <3>4
    <3>6. (\E x \in same : x[state]) <=> src[state]
      BY <3>1, <3>2
    <3>7. (\E x \in same : x[state]) = src[state]
      BY <2>6, <3>1, <3>6
    <3>. QED  BY <2>9, <3>5, <3>7 DEF chosen, same
  <2>. QED  BY <2>8, <2>9
<1>. QED  BY <1>4, <1>5 DEF PlanCopiesTheSource

\* Steps of the rest leave the tab as it is, whatever they do to the handler.
LEMMA ElsewhereKeepsThePlan ==
    ASSUME YInv, UNCHANGED sync, job' = job \/ job'.op # "preview"
    PROVE  YInv'
BY DEF YInv, ChoiceTypes, PreviewIsSourced, PlanFollows, sync

\* The message inspector and the scheduled one begin no preview.
LEMMA MessagesKeepThePlan == YInv /\ InMessages => YInv'
<1>1. SUFFICES ASSUME YInv, InMessages PROVE YInv'
  OBVIOUS
<1>2. ASSUME job' = job \/ job'.op # "preview" PROVE YInv'
  BY <1>1, <1>2, ElsewhereKeepsThePlan DEF InMessages
<1>3. CASE M!MessageClicks
  <2>1. job' = job \/ job' = [op |-> "open", at |-> "get", left |-> FALSE]
    BY <1>3 DEF M!MessageClicks, M!Switch, M!Open, M!Reload, M!Close, M!Act
  <2>. QED  BY <1>2, <2>1
<1>4. CASE M!ListLands \/ M!LeftLands
  BY <1>2, <1>4 DEF M!ListLands, M!LeftLands, M!NoJob
<1>5. ASSUME NEW q \in asks, M!Lands(q) \/ M!Fails(q) PROVE YInv'
  BY <1>2, <1>5 DEF M!Lands, M!Fails, M!Done, M!NoJob
<1>. QED  BY <1>1, <1>3, <1>4, <1>5 DEF InMessages, M!MessageAnswers
LEMMA ScheduledKeepsThePlan == SInv /\ YInv /\ InScheduled => YInv'
<1>1. SUFFICES ASSUME SInv, YInv, InScheduled PROVE YInv'
  OBVIOUS
<1>2. JobTypes
  BY <1>1 DEF SInv
<1>3. CASE job' = job
  BY <1>1, <1>3, ElsewhereKeepsThePlan DEF InScheduled
<1>4. CASE job' = S!NoJob
  BY <1>1, <1>4, ElsewhereKeepsThePlan DEF InScheduled, S!NoJob
<1>5. CASE job'.op \in {"clear", "check"}
  BY <1>1, <1>5, ElsewhereKeepsThePlan DEF InScheduled
<1>6. CASE S!Elsewhere
  BY <1>3, <1>6 DEF S!Elsewhere, S!Queue, S!Deliver
<1>7. CASE S!ScheduledAnswers
  <2>1. ASSUME NEW s \in scans, NEW a \in Accounts, NEW fails \in BOOLEAN, S!ScanReads(s, a, fails)
        PROVE  YInv'
    BY <1>3, <2>1 DEF S!ScanReads
  <2>2. ASSUME NEW s \in scans, S!ScanLands(s) \/ S!ScanFails(s) PROVE YInv'
    BY <1>3, <1>4, <2>2 DEF S!ScanLands, S!ScanFails, S!ScanEnds
  <2>3. CASE S!Clears
    <3>1. job \in ClearJobs
      BY <1>2, <2>3, JobKinds DEF S!Clears
    <3>2. PICK at \in {"rescan", "recheck"} : job' = [[job EXCEPT !.at = at] EXCEPT !.gone = S!Hit]
      BY <2>3 DEF S!Clears
    <3>3. job'.op = "clear"
      BY <3>1, <3>2 DEF ClearJobs
    <3>. QED  BY <1>5, <3>3
  <2>4. CASE S!ClearFails \/ S!LeftEnds \/ S!CheckLands \/ S!CheckFails
    BY <1>4, <2>4 DEF S!ClearFails, S!LeftEnds, S!CheckLands, S!CheckFails
  <2>. QED  BY <1>7, <2>1, <2>2, <2>3, <2>4 DEF S!ScheduledAnswers
<1>8. CASE S!ScheduledClicks
  <2>1. CASE S!Rescan
    BY <1>3, <2>1 DEF S!Rescan
  <2>2. CASE S!Check
    BY <1>5, <2>2 DEF S!Check
  <2>3. CASE \/ \E p \in Accounts \X Chats, all \in BOOLEAN : S!ClickCard(p, all)
             \/ \E all \in BOOLEAN : S!ClickManual(all)
    BY <1>5, <2>3 DEF S!ClickCard, S!ClickManual, S!Ask
  <2>4. ASSUME NEW yes \in BOOLEAN, S!Answer(yes) PROVE YInv'
    <3>1. CASE yes
      <4>1. job \in ClearJobs
        BY <1>2, <2>4, JobKinds DEF S!Answer
      <4>2. job' = [job EXCEPT !.at = "post"]
        BY <2>4, <3>1 DEF S!Answer
      <4>3. job'.op = "clear"
        BY <4>1, <4>2 DEF ClearJobs
      <4>. QED  BY <1>5, <4>3
    <3>2. CASE ~yes
      BY <1>4, <2>4, <3>2 DEF S!Answer
    <3>. QED  BY <3>1, <3>2
  <2>5. CASE \/ \E f \in {"all", "owned", "manual"} : S!Filter(f)
             \/ \E m \in Messages : S!Tick(m) \/ S!TickManual(m)
             \/ \E a \in Accounts : S!Fold(a) \/ S!PickAccount(a)
             \/ \E c \in Chats : S!TypeChat(c)
    BY <1>3, <2>5 DEF S!Filter, S!Tick, S!TickManual, S!Fold, S!PickAccount, S!TypeChat
  <2>. QED  BY <1>8, <2>1, <2>2, <2>3, <2>4, <2>5 DEF S!ScheduledClicks
<1>. QED  BY <1>1, <1>6, <1>7, <1>8 DEF InScheduled

\* Leaving the tab drops its plan; a preview that goes on keeps its choice.
LEMMA VisitKeepsThePlan == ASSUME SInv, YInv, NEW v, Visit(v) PROVE YInv'
<1>1. choice' = NoChoice /\ plan' = None
      /\ job' = IF job = NoJob THEN job ELSE [job EXCEPT !.left = TRUE]
  BY DEF Visit, SyncReset
<1>2. ChoiceTypes' /\ PlanFollows'
  BY <1>1 DEF ChoiceTypes, PlanFollows, NoChoice, SyncChoices
<1>3. PreviewIsSourced'
  <2>1. CASE job' = job
    BY <2>1 DEF YInv, PreviewIsSourced
  <2>2. CASE job' = [job EXCEPT !.left = TRUE] /\ job.op \in {"clear", "check"}
    <3>1. job'.op = job.op
      BY <2>2, JobKinds, ClearLeft, CheckLeft DEF SInv
    <3>. QED  BY <2>2, <3>1 DEF PreviewIsSourced
  <2>3. CASE job' = [job EXCEPT !.left = TRUE] /\ job.op \notin {"clear", "check"}
    <3>1. IsOther(job)
      BY <2>3, JobKinds DEF SInv
    <3>2. job'.op = job.op /\ DOMAIN job' = DOMAIN job
          /\ ("choice" \in DOMAIN job => job'.choice = job.choice)
      BY <2>3, <3>1 DEF IsOther
    <3>. QED  BY <3>2 DEF YInv, PreviewIsSourced
  <2>. QED  BY <1>1, <2>1, <2>2, <2>3
<1>. QED  BY <1>2, <1>3 DEF YInv

\* The tab itself.
LEMMA SyncKeepsThePlan == SInv /\ YInv /\ InSync => YInv'
<1>1. SUFFICES ASSUME SInv, YInv, InSync PROVE YInv'
  OBVIOUS
<1>2. ASSUME NEW c \in [source : Accounts \cup {None}, targets : SUBSET Accounts,
                        options : SUBSET States], Choose(c)
      PROVE  YInv'
  <2>1. choice' = c /\ plan' = None /\ job' = job /\ c \in SyncChoices
    BY <1>2 DEF Choose, SyncChoices
  <2>2. choice \in SyncChoices /\ choice.source \notin choice.targets
    BY <1>1 DEF YInv, ChoiceTypes
  <2>3. c.source \notin c.targets
    <3>1. ASSUME NEW a \in Accounts,
                 c = [choice EXCEPT !.source = a, !.targets = @ \ {a}]
          PROVE  c.source \notin c.targets
      <4>1. c = [[choice EXCEPT !.source = a] EXCEPT !.targets = choice.targets \ {a}]
        BY <3>1
      <4>2. c.source = a /\ c.targets = choice.targets \ {a}
        BY <2>2, <4>1 DEF SyncChoices
      <4>. QED  BY <4>2
    <3>2. ASSUME NEW a \in Accounts \ {choice.source},
                 c = [choice EXCEPT !.targets = (@ \ {a}) \cup ({a} \ @)]
          PROVE  c.source \notin c.targets
      <4>1. c.source = choice.source
            /\ c.targets = (choice.targets \ {a}) \cup ({a} \ choice.targets)
        BY <2>2, <3>2 DEF SyncChoices
      <4>. QED  BY <2>2, <4>1
    <3>3. ASSUME NEW s \in States, c = [choice EXCEPT !.options = (@ \ {s}) \cup ({s} \ @)]
          PROVE  c.source \notin c.targets
      <4>1. c.source = choice.source /\ c.targets = choice.targets
        BY <2>2, <3>3 DEF SyncChoices
      <4>. QED  BY <2>2, <4>1
    <3>. QED  BY <1>2, <3>1, <3>2, <3>3 DEF Choose
  <2>. QED  BY <1>1, <2>1, <2>3 DEF YInv, ChoiceTypes, PreviewIsSourced, PlanFollows
<1>3. CASE Preview
  <2>1. choice' = choice /\ plan' = None /\ choice.source # None
    BY <1>3 DEF Preview
  <2>2. IsSourced(choice)
    BY <1>1, <2>1 DEF YInv, ChoiceTypes, IsSourced, SyncChoices
  <2>3. PreviewIsSourced'
    <3>1. CASE job' = job
      BY <1>1, <3>1 DEF YInv, PreviewIsSourced
    <3>2. CASE job' = [op |-> "preview", at |-> "get", left |-> FALSE, choice |-> choice]
      BY <2>2, <3>2 DEF PreviewIsSourced, IsSourced
    <3>. QED  BY <1>3, <3>1, <3>2 DEF Preview
  <2>. QED  BY <1>1, <2>1, <2>3 DEF YInv, ChoiceTypes, PlanFollows
<1>4. ASSUME NEW read \in [Accounts -> Lists], PreviewLands(read) PROVE YInv'
  <2>1. IsSourced(job.choice) /\ choice' = choice /\ job' = NoJob
    BY <1>1, <1>4 DEF YInv, PreviewIsSourced, PreviewLands
  <2>2. PlanFollows'
    <3>1. CASE job.left
      BY <1>1, <1>4, <3>1 DEF YInv, PlanFollows, PreviewLands
    <3>2. CASE ~job.left
      <4>. DEFINE steps == StepsFor(job.choice, read)
      <4>1. plan' = [of |-> job.choice, read |-> read, steps |-> steps,
                     opCount |-> syncOpCount(steps)]
        BY <1>4, <3>2 DEF PreviewLands, StepsFor
      <4>. HIDE DEF steps
      <4>2. plan'.of = job.choice /\ plan'.read = read /\ plan'.steps = steps
        BY <4>1
      <4>. QED  BY <2>1, <4>2 DEF PlanFollows, steps, IsSourced
    <3>. QED  BY <3>1, <3>2
  <2>. QED  BY <1>1, <2>1, <2>2 DEF YInv, ChoiceTypes, PreviewIsSourced, NoJob
<1>5. CASE PreviewFails \/ RunEnds
  BY <1>1, <1>5 DEF PreviewFails, RunEnds, YInv, ChoiceTypes, PreviewIsSourced, PlanFollows, NoJob
<1>6. CASE Run
  BY <1>1, <1>6 DEF Run, YInv, ChoiceTypes, PreviewIsSourced, PlanFollows
<1>7. CASE RunQueued
  <2>1. IsOther(job)
    BY <1>1, <1>7, JobKinds DEF RunQueued, SInv
  <2>2. job'.op = "sync"
    BY <1>7, <2>1 DEF RunQueued, IsOther
  <2>. QED  BY <1>1, <1>7, <2>2
            DEF RunQueued, YInv, ChoiceTypes, PreviewIsSourced, PlanFollows
<1>. QED  BY <1>1, <1>2, <1>3, <1>4, <1>5, <1>6, <1>7 DEF InSync, SyncClicks, SyncAnswers

\* A plan on display, once it has run, brings every chat that a target account shares
\* with the source to the state it has there, and touches nothing else, for any lists
\* the accounts have cached and any cap on the steps.
THEOREM PlansCopyTheSource == Spec => []PlanCopiesTheSource
<1>1. Init => YInv
  BY DEF Init, SyncInit, NoChoice, NoJob, YInv, ChoiceTypes, SyncChoices, PreviewIsSourced,
         PlanFollows
<1>2. YInv /\ UNCHANGED vars => YInv'
  BY DEF vars, sync, YInv, ChoiceTypes, PreviewIsSourced, PlanFollows
<1>3. SInv /\ YInv /\ [Next]_vars => YInv'
  BY <1>2, VisitKeepsThePlan, MessagesKeepThePlan, ScheduledKeepsThePlan, SyncKeepsThePlan DEF Next
<1>4. YInv => PlanCopiesTheSource
  BY FollowingCopies DEF YInv
<1>. QED  BY <1>1, <1>3, <1>4, Inductive, PTL DEF Spec
-------------------------------------------------------------------------------
(* The composer, the first tab of the screen whose other tabs the panels are:   *)
(* proofs about Composer, for every set of actions, targets, values, recurrence *)
(* forms and presets.                                                          *)

\* The preview on display, and the one that is asked for, know whether the draft they
\* were made of is still the one in the panel.
PreviewIsTagged ==
    /\ DOMAIN preview = {"of", "same"}
    /\ preview.same = TRUE => preview.of = draft
AnswerIsTagged ==
    /\ {"op", "at"} \subseteq DOMAIN composing
    /\ composing.op \in {"preview", "create"} => "alive" \in DOMAIN composing
    /\ composing.op = "preview" => {"of", "same"} \subseteq DOMAIN composing
    /\ composing.op = "preview" /\ composing.same = TRUE => composing.of = draft
\* What is asked to run is a draft and its step.
RunIsAsked == run.at # "none" => DOMAIN run = {"at", "of", "step"}
CInv == PreviewIsTagged /\ AnswerIsTagged /\ RunIsAsked /\ EngineIsAsShown

LEMMA ComposerStarts == ComposerInit => CInv
  BY DEF ComposerInit, NoPreview, NoRequest, Idle, CInv, PreviewIsTagged, AnswerIsTagged,
         RunIsAsked, EngineIsAsShown

\* An edit of the draft marks the preview, the one on display and the one to come.
LEMMA EditsTag ==
    ASSUME CInv, NEW d, setActionDraft(d)
    PROVE  CInv'
<1>1. PreviewIsTagged'
  BY DEF CInv, PreviewIsTagged, setActionDraft
<1>2. AnswerIsTagged'
  BY DEF CInv, AnswerIsTagged, setActionDraft, Stale
<1>3. RunIsAsked' /\ EngineIsAsShown'
  BY DEF CInv, RunIsAsked, EngineIsAsShown, setActionDraft, server
<1>. QED  BY <1>1, <1>2, <1>3 DEF CInv

\* Steps that leave the draft and what was asked for alone.
LEMMA QuietSteps ==
    ASSUME CInv, UNCHANGED <<draft, composing, run, sent>>,
           preview' \in {preview, NoPreview}
    PROVE  CInv'
<1>1. PreviewIsTagged'
  BY DEF CInv, PreviewIsTagged, NoPreview
<1>2. AnswerIsTagged' /\ RunIsAsked' /\ EngineIsAsShown'
  BY DEF CInv, AnswerIsTagged, RunIsAsked, EngineIsAsShown
<1>. QED  BY <1>1, <1>2 DEF CInv

\* Steps of the handler inside guarded that do not touch the draft.
LEMMA HandlerSteps ==
    ASSUME CInv, UNCHANGED <<draft, preview, run, sent>>, composing'.op # "preview",
           {"op", "at"} \subseteq DOMAIN composing',
           composing'.op = "create" => "alive" \in DOMAIN composing'
    PROVE  CInv'
BY DEF CInv, PreviewIsTagged, AnswerIsTagged, RunIsAsked, EngineIsAsShown

\* Editing keeps the invariant: one step per action.
LEMMA EditsKeep == CInv /\ Edits => CInv'
<1>1. SUFFICES ASSUME CInv, Edits PROVE CInv'
  OBVIOUS
<1>2. ASSUME NEW a \in Actions, Pick(a) PROVE CInv'
  BY <1>1, <1>2, EditsTag DEF Pick
<1>3. ASSUME NEW n, NEW v, Fill(n, v) PROVE CInv'
  BY <1>1, <1>3, EditsTag DEF Fill
<1>4. ASSUME NEW ts, SetTargets(ts) PROVE CInv'
  BY <1>1, <1>4, EditsTag DEF SetTargets
<1>5. ASSUME NEW c, SetCondition(c) PROVE CInv'
  BY <1>1, <1>5, EditsTag DEF SetCondition
<1>6. ASSUME NEW ids, SetAccounts(ids) PROVE CInv'
  BY <1>1, <1>6, QuietSteps DEF SetAccounts, composer, server
<1>7. ASSUME NEW p, LoadPreset(p) PROVE CInv'
  BY <1>1, <1>7, EditsTag DEF LoadPreset
<1>8. ASSUME NEW ts, NEW a, NEW schedule, Stage(ts, a, schedule) PROVE CInv'
  <2>1. PreviewIsTagged'
    BY <1>8 DEF PreviewIsTagged, Stage, NoPreview
  <2>2. AnswerIsTagged'
    BY <1>1, <1>8 DEF CInv, AnswerIsTagged, Stage, Abandoned, Stale
  <2>3. RunIsAsked' /\ EngineIsAsShown'
    BY <1>1, <1>8 DEF CInv, RunIsAsked, EngineIsAsShown,
                      Stage, server
  <2>. QED  BY <2>1, <2>2, <2>3 DEF CInv
<1>9. ASSUME NEW f, NEW nm, EditSchedule(f, nm) PROVE CInv'
  BY <1>1, <1>9, QuietSteps DEF EditSchedule, server
<1>. QED  BY <1>1, <1>2, <1>3, <1>4, <1>5, <1>6, <1>7, <1>8, <1>9 DEF Edits

\* Clicking and answering the dialogs keeps it.
LEMMA ClicksKeep == CInv /\ Clicks => CInv'
<1>1. SUFFICES ASSUME CInv, Clicks PROVE CInv'
  OBVIOUS
<1>. USE DEF Untouched, composer, server
<1>2. CASE ClickRun
  <2>1. run' = [at |-> "ask", of |-> draft, step |-> Step(draft, accts)]
    BY <1>2 DEF ClickRun
  <2>2. RunIsAsked'
    BY <2>1 DEF RunIsAsked
  <2>3. PreviewIsTagged' /\ AnswerIsTagged' /\ EngineIsAsShown'
    BY <1>1, <1>2 DEF CInv, PreviewIsTagged, AnswerIsTagged, EngineIsAsShown, ClickRun
  <2>. QED  BY <2>2, <2>3 DEF CInv
<1>3. ASSUME NEW yes \in BOOLEAN, AnswerRun(yes) PROVE CInv'
  <2>1. RunIsAsked'
    BY <1>1, <1>3 DEF CInv, RunIsAsked, AnswerRun, Idle
  <2>2. PreviewIsTagged' /\ AnswerIsTagged' /\ EngineIsAsShown'
    BY <1>1, <1>3 DEF CInv, PreviewIsTagged, AnswerIsTagged, EngineIsAsShown, AnswerRun
  <2>. QED  BY <2>1, <2>2 DEF CInv
<1>4. CASE ClickPreview
  <2>1. AnswerIsTagged'
    BY <1>4 DEF AnswerIsTagged, ClickPreview
  <2>2. PreviewIsTagged' /\ RunIsAsked' /\ EngineIsAsShown'
    BY <1>1, <1>4 DEF CInv, PreviewIsTagged, RunIsAsked, EngineIsAsShown, ClickPreview
  <2>. QED  BY <2>1, <2>2 DEF CInv
<1>5. CASE ClickCreate \/ ClickSave
  BY <1>1, <1>5, HandlerSteps DEF ClickCreate, ClickSave
<1>6. ASSUME NEW p, ClickDelete(p) \/ AnswerName(p) PROVE CInv'
  BY <1>1, <1>6, HandlerSteps DEF ClickDelete, AnswerName
<1>7. CASE AnswerDelete \/ Dismiss
  <2>1. composing'.op \notin {"preview", "create"} /\ {"op", "at"} \subseteq DOMAIN composing'
    BY <1>1, <1>7 DEF CInv, AnswerIsTagged, AnswerDelete, Dismiss, NoRequest
  <2>. QED  BY <1>1, <1>7, <2>1, HandlerSteps DEF AnswerDelete, Dismiss
<1>8. CASE OpenModal \/ CloseModal
  BY <1>1, <1>8, QuietSteps DEF OpenModal, CloseModal
<1>. QED  BY <1>1, <1>2, <1>3, <1>4, <1>5, <1>6, <1>7, <1>8 DEF Clicks

\* The two classifiers agree on every step.
LEMMA SameEngine ==
    ASSUME NEW step
    PROVE  stepIsNativeSchedulable(step) <=> _step_is_native(step)
BY DEF stepIsNativeSchedulable, _step_is_native, NATIVE_MESSAGE_ACTIONS,
       NATIVELY_SCHEDULABLE_ACTIONS

\* The answers of the server, in whatever order they come, keep it.
LEMMA AnswersKeep == CInv /\ (Answers \/ RunRefused \/ JobFails) => CInv'
<1>1. SUFFICES ASSUME CInv, Answers \/ RunRefused \/ JobFails PROVE CInv'
  OBVIOUS
<1>. USE DEF Untouched, composer, server
<1>2. CASE RunStarts
  <2>1. EngineIsAsShown' /\ RunIsAsked'
    BY <1>2 DEF EngineIsAsShown, RunIsAsked, RunStarts, Idle
  <2>2. PreviewIsTagged' /\ AnswerIsTagged'
    BY <1>1, <1>2 DEF CInv, PreviewIsTagged, AnswerIsTagged, RunStarts
  <2>. QED  BY <2>1, <2>2 DEF CInv
<1>3. CASE RunRefused
  BY <1>1, <1>3 DEF CInv, PreviewIsTagged, AnswerIsTagged, RunIsAsked, EngineIsAsShown,
                    RunRefused, Idle
<1>4. CASE DatesLand
  <2>1. PreviewIsTagged'
    BY <1>1, <1>4 DEF CInv, PreviewIsTagged, AnswerIsTagged, DatesLand, Tag
  <2>2. AnswerIsTagged' /\ RunIsAsked' /\ EngineIsAsShown'
    BY <1>1, <1>4 DEF CInv, AnswerIsTagged, RunIsAsked, EngineIsAsShown, DatesLand, NoRequest
  <2>. QED  BY <2>1, <2>2 DEF CInv
<1>5. CASE CreateSucceeds
  <2>1. PreviewIsTagged' /\ RunIsAsked'
    BY <1>1, <1>5 DEF CInv, PreviewIsTagged, RunIsAsked, CreateSucceeds, NoPreview
  <2>2. AnswerIsTagged'
    BY <1>1, <1>5 DEF CInv, AnswerIsTagged, CreateSucceeds
  <2>3. EngineIsAsShown'
    BY <1>5, SameEngine
    DEF EngineIsAsShown, CreateSucceeds, Engine
  <2>. QED  BY <2>1, <2>2, <2>3 DEF CInv
<1>6. CASE CreateEnds
  BY <1>1, <1>6, HandlerSteps DEF CreateEnds, NoRequest
<1>7. CASE PresetStored
  <2>1. composing'.op \notin {"preview", "create"} /\ {"op", "at"} \subseteq DOMAIN composing'
    BY <1>1, <1>7 DEF CInv, AnswerIsTagged, PresetStored
  <2>. QED  BY <1>1, <1>7, <2>1, HandlerSteps DEF PresetStored
<1>8. CASE PresetsLand
  BY <1>1, <1>8, HandlerSteps DEF PresetsLand, NoRequest
<1>9. CASE JobFails
  BY <1>1, <1>9, HandlerSteps DEF JobFails, NoRequest
<1>. QED  BY <1>1, <1>2, <1>3, <1>4, <1>5, <1>6, <1>7, <1>8, <1>9 DEF Answers

LEMMA ComposerInductive == ComposerSpec => []CInv
<1>1. ComposerInit => CInv
  BY ComposerStarts
<1>2. CInv /\ UNCHANGED composerVars => CInv'
  BY DEF CInv, PreviewIsTagged, AnswerIsTagged, RunIsAsked, EngineIsAsShown, composerVars,
         composer, server
<1>3. CInv /\ [ComposerNext]_composerVars => CInv'
  BY <1>2, EditsKeep, ClicksKeep, AnswersKeep DEF ComposerNext
<1>. QED  BY <1>1, <1>3, PTL DEF ComposerSpec

\* The dates under the form are those of the draft in the panel: an answer to a preview
\* of an older draft, or of a screen that was left, is never shown as one of this.
THEOREM PreviewIsAlwaysForTheDraft == ComposerSpec => []PreviewIsForTheDraft
<1>1. CInv => PreviewIsForTheDraft
  BY DEF CInv, PreviewIsTagged, PreviewIsForTheDraft, PreviewShown
<1>. QED  BY <1>1, ComposerInductive, PTL

\* A schedule gets the engine that the modal announced for it.
THEOREM EngineWasAnnounced == ComposerSpec => []EngineIsAsShown
<1>1. CInv => EngineIsAsShown
  BY DEF CInv
<1>. QED  BY <1>1, ComposerInductive, PTL

-------------------------------------------------------------------------------
(* Messages: the order of their lines, what is kept of them, and what is read in*)
(* a message that goes on with another.                                        *)

\* The largest of some numbers.
LEMMA MaxIs ==
    ASSUME NEW K \in SUBSET Int, NEW i \in K, \A j \in K : j <= i
    PROVE  Max(K) = i
<1>1. Max(K) \in K /\ \A j \in K : Max(K) >= j
  BY DEF Max
<1>2. Max(K) \in Int /\ i \in Int
  BY <1>1
<1>3. Max(K) >= i /\ Max(K) <= i
  BY <1>1
<1>. QED  BY <1>2, <1>3
LEMMA MaxExists ==
    ASSUME NEW n \in Nat, NEW K \in SUBSET (1 .. n), K # {}
    PROVE  Max(K) \in K /\ \A j \in K : j <= Max(K)
<1>1. Cardinality(K) \in Nat /\ Cardinality(K) # 0
  <2>1. IsFiniteSet(K) /\ Cardinality(K) \in Nat
    BY BeforeCounts
  <2>. QED  BY <2>1, FS_EmptySet
<1>2. PICK i \in K : Before(K, i) = Cardinality(K) - 1
  <2>1. Cardinality(K) - 1 \in 0 .. Cardinality(K) - 1
    BY <1>1
  <2>. QED  BY <2>1, EveryNumberIsTaken
<1>3. ASSUME NEW j \in K PROVE j <= i
  <2>1. i < j => Before(K, i) < Before(K, j)
    BY BeforeCounts
  <2>2. Before(K, j) \in 0 .. Cardinality(K) - 1
    BY BeforeCounts
  <2>. QED  BY <1>1, <1>2, <2>1, <2>2
<1>4. K \subseteq Int
  OBVIOUS
<1>5. Max(K) = i
  BY <1>3, <1>4, MaxIs
<1>. QED  BY <1>3, <1>5

\* Lines that are picked from two messages in the same order: phi takes the places in
\* the one to the places in the other.
InOrder(phi, L, K) ==
    /\ phi \in [L -> K] /\ \A k \in K : \E i \in L : phi[i] = k
    /\ \A i, j \in L : i < j => phi[i] < phi[j]

Positions(K) == \E n \in Nat : K \in SUBSET (1 .. n)

LEMMA SameCounts ==
    ASSUME NEW K, Positions(K), NEW L, Positions(L), NEW phi, InOrder(phi, L, K)
    PROVE  /\ Cardinality(L) = Cardinality(K)
           /\ \A i \in L : Before(L, i) = Before(K, phi[i])
<1>0. PICK n \in Nat, h \in Nat : K \in SUBSET (1 .. n) /\ L \in SUBSET (1 .. h)
  BY DEF Positions
<1>1. \A i, j \in L : phi[i] = phi[j] => i = j
  <2>0. L \subseteq Int /\ K \subseteq Int
    BY <1>0
  <2>1. TAKE i, j \in L
  <2>4. phi[i] \in K /\ phi[j] \in K
    BY DEF InOrder
  <2>2. i \in Int /\ j \in Int /\ phi[i] \in Int /\ phi[j] \in Int
    BY <2>0, <2>4
  <2>3. (i < j => phi[i] < phi[j]) /\ (j < i => phi[j] < phi[i])
    BY DEF InOrder
  <2>. QED  BY <2>2, <2>3
<1>2. IsFiniteSet(L) /\ IsFiniteSet(K)
  BY <1>0, BeforeCounts
<1>3. Cardinality(L) = Cardinality(K)
  <2>1. phi \in Bijection(L, K)
    BY <1>1 DEF InOrder, Bijection, Injection, Surjection, IsInjective
  <2>. QED  BY <1>2, <2>1, FS_Bijection DEF ExistsBijection
<1>4. ASSUME NEW i \in L PROVE Before(L, i) = Before(K, phi[i])
  <2>. DEFINE low == {j \in L : j < i}
              high == {k \in K : k < phi[i]}
              f == [j \in low |-> phi[j]]
  <2>1. f \in [low -> high]
    BY DEF InOrder
  <2>2. ASSUME NEW k \in high PROVE \E j \in low : f[j] = k
    <3>1. PICK j \in L : phi[j] = k
      BY DEF InOrder
    <3>2. j < i
      <4>1. L \subseteq Int /\ K \subseteq Int /\ phi[i] \in K
        BY <1>0 DEF InOrder
      <4>2. i < j => phi[i] < phi[j]
        BY DEF InOrder
      <4>3. k < phi[i] /\ k \in Int /\ phi[i] \in Int /\ i \in Int /\ j \in Int
        BY <4>1
      <4>. QED  BY <3>1, <4>2, <4>3
    <3>. QED  BY <3>1, <3>2
  <2>3. f \in Bijection(low, high)
    BY <1>1, <2>1, <2>2 DEF Bijection, Injection, Surjection, IsInjective
  <2>4. IsFiniteSet(low) /\ IsFiniteSet(high)
    BY <1>2, FS_Subset
  <2>5. Cardinality(low) = Cardinality(high)
    BY <2>3, <2>4, FS_Bijection DEF ExistsBijection
  <2>. QED  BY <2>5 DEF Before
<1>. QED  BY <1>3, <1>4

\* The place of the k-th line that is kept.
NthOf(K, k) == CHOOSE i \in K : Cardinality({j \in K : j < i}) = k - 1
LEMMA NthIs ==
    ASSUME NEW n \in Nat, NEW K \in SUBSET (1 .. n), NEW k \in 1 .. Cardinality(K)
    PROVE  /\ NthOf(K, k) \in K /\ Before(K, NthOf(K, k)) = k - 1
           /\ \A i \in K : Before(K, i) = k - 1 => i = NthOf(K, k)
<1>1. Cardinality(K) \in Nat /\ k - 1 \in 0 .. Cardinality(K) - 1
  <2>1. Cardinality(K) \in Nat
    BY BeforeCounts
  <2>. QED  BY <2>1
<1>2. \E i \in K : Before(K, i) = k - 1
  BY <1>1, EveryNumberIsTaken
<1>3. NthOf(K, k) \in K /\ Before(K, NthOf(K, k)) = k - 1
  BY <1>2 DEF NthOf, Before
<1>4. ASSUME NEW i \in K, NEW j \in K, Before(K, i) = k - 1, Before(K, j) = k - 1 PROVE i = j
  <2>1. (i < j => Before(K, i) < Before(K, j)) /\ (j < i => Before(K, j) < Before(K, i))
    BY BeforeCounts
  <2>2. i \in Int /\ j \in Int /\ k - 1 \in Int
    OBVIOUS
  <2>. QED  BY <1>4, <2>1, <2>2
<1>. QED  BY <1>3, <1>4
LEMMA KeptIs ==
    ASSUME NEW m, NEW K
    PROVE  Kept(m, K) = [k \in 1 .. Cardinality(K) |-> m[NthOf(K, k)]]
BY DEF Kept, NthOf

\* Lines that agree and stand in the same order make the same text, and the last of
\* them is the same.
LEMMA SameLines ==
    ASSUME NEW K, Positions(K), NEW L, Positions(L), NEW phi, InOrder(phi, L, K),
           NEW m, NEW r, \A i \in L : r[i] = m[phi[i]]
    PROVE  /\ Kept(r, L) = Kept(m, K)
           /\ \A o : LastOf(r, L, o) = LastOf(m, K, o)
           /\ L = {} <=> K = {}
<1>0. PICK n \in Nat, h \in Nat : K \in SUBSET (1 .. n) /\ L \in SUBSET (1 .. h)
  BY DEF Positions
<1>1. Cardinality(L) = Cardinality(K) /\ \A i \in L : Before(L, i) = Before(K, phi[i])
  BY SameCounts
<1>2. ASSUME NEW k \in 1 .. Cardinality(L) PROVE r[NthOf(L, k)] = m[NthOf(K, k)]
  <2>1. NthOf(L, k) \in L /\ Before(L, NthOf(L, k)) = k - 1
    BY <1>0, NthIs
  <2>2. phi[NthOf(L, k)] \in K /\ Before(K, phi[NthOf(L, k)]) = k - 1
    BY <1>1, <2>1 DEF InOrder
  <2>3. phi[NthOf(L, k)] = NthOf(K, k)
    BY <1>0, <1>1, <2>2, NthIs
  <2>. QED  BY <2>1, <2>3
<1>3. Kept(r, L) = Kept(m, K)
  BY <1>1, <1>2, KeptIs
<1>4. L = {} <=> K = {}
  BY DEF InOrder
<1>5. ASSUME NEW o PROVE LastOf(r, L, o) = LastOf(m, K, o)
  <2>1. CASE L = {}
    BY <1>4, <2>1 DEF LastOf
  <2>2. CASE L # {}
    <3>1. Max(L) \in L /\ \A j \in L : j <= Max(L)
      BY <1>0, <2>2, MaxExists
    <3>2. phi[Max(L)] \in K
      BY <3>1 DEF InOrder
    <3>3. ASSUME NEW k \in K PROVE k <= phi[Max(L)]
      <4>1. PICK j \in L : phi[j] = k
        BY DEF InOrder
      <4>2. j \in Int /\ Max(L) \in Int /\ k \in Int /\ phi[Max(L)] \in Int
        <5>1. K \subseteq Int /\ L \subseteq Int
          BY <1>0
        <5>. QED  BY <3>1, <3>2, <5>1
      <4>3. j <= Max(L) /\ (j < Max(L) => phi[j] < phi[Max(L)])
        BY <3>1 DEF InOrder
      <4>. QED  BY <4>1, <4>2, <4>3
    <3>4. K \subseteq Int
      BY <1>0
    <3>5. Max(K) = phi[Max(L)]
      BY <3>2, <3>3, <3>4, MaxIs
    <3>. QED  BY <1>4, <2>2, <3>1, <3>5 DEF LastOf
  <2>. QED  BY <2>1, <2>2
<1>. QED  BY <1>3, <1>4, <1>5

\* What is kept of a message: its lines in their order.
LEMMA KeptInOrder ==
    ASSUME NEW n \in Nat, NEW K \in SUBSET (1 .. n), NEW m
    PROVE  /\ Cardinality(K) \in Nat /\ DOMAIN Kept(m, K) = 1 .. Cardinality(K)
           /\ \A k \in 1 .. Cardinality(K) :
                  NthOf(K, k) \in K /\ Kept(m, K)[k] = m[NthOf(K, k)]
           /\ \A i \in K : \E k \in 1 .. Cardinality(K) : NthOf(K, k) = i
           /\ \A k, j \in 1 .. Cardinality(K) : k < j => NthOf(K, k) < NthOf(K, j)
<1>1. Cardinality(K) \in Nat
  BY BeforeCounts
<1>2. \A k \in 1 .. Cardinality(K) : NthOf(K, k) \in K /\ Before(K, NthOf(K, k)) = k - 1
  BY NthIs
<1>3. DOMAIN Kept(m, K) = 1 .. Cardinality(K)
      /\ \A k \in 1 .. Cardinality(K) : Kept(m, K)[k] = m[NthOf(K, k)]
  BY KeptIs
<1>4. ASSUME NEW i \in K PROVE \E k \in 1 .. Cardinality(K) : NthOf(K, k) = i
  <2>1. Before(K, i) \in 0 .. Cardinality(K) - 1
    BY BeforeCounts
  <2>2. Before(K, i) + 1 \in 1 .. Cardinality(K) /\ (Before(K, i) + 1) - 1 = Before(K, i)
    BY <1>1, <2>1
  <2>. DEFINE k == Before(K, i) + 1
  <2>3. k \in 1 .. Cardinality(K) /\ Before(K, i) = k - 1
    BY <2>2
  <2>. HIDE DEF k
  <2>4. i = NthOf(K, k)
    BY <2>3, NthIs
  <2>. QED  BY <2>3, <2>4
<1>5. ASSUME NEW k \in 1 .. Cardinality(K), NEW j \in 1 .. Cardinality(K), k < j
      PROVE  NthOf(K, k) < NthOf(K, j)
  <2>. DEFINE a == NthOf(K, k)
              b == NthOf(K, j)
  <2>1. a \in K /\ b \in K /\ Before(K, a) = k - 1 /\ Before(K, b) = j - 1
    BY <1>2
  <2>. HIDE DEF a, b
  <2>2. b < a => Before(K, b) < Before(K, a)
    BY <2>1, BeforeCounts
  <2>3. k \in Int /\ j \in Int
    OBVIOUS
  <2>4. a \in Int /\ b \in Int
    BY <2>1
  <2>5. ~(j - 1 < k - 1) /\ k - 1 # j - 1
    BY <1>5, <2>3
  <2>6. ~(b < a) /\ a # b
    BY <2>1, <2>2, <2>5
  <2>. QED  BY <2>4, <2>6 DEF a, b
<1>. QED  BY <1>1, <1>2, <1>3, <1>4, <1>5

\* Options all of whose lines are kept are read in what is kept as in the message.
LEMMA OptionsRemain ==
    ASSUME NEW m, NEW n \in Nat, DOMAIN m = 1 .. n, NEW K \in SUBSET (1 .. n), NEW x,
           ByOption(m, x) \subseteq K
    PROVE  LET r == Kept(m, K)
           IN /\ Kept(r, ByOption(r, x)) = Kept(m, ByOption(m, x))
              /\ \A o : LastOf(r, ByOption(r, x), o) = LastOf(m, ByOption(m, x), o)
              /\ ByOption(r, x) = {} <=> ByOption(m, x) = {}
<1>. DEFINE r == Kept(m, K)
            c == Cardinality(K)
            L == ByOption(r, x)
            J == ByOption(m, x)
            phi == [k \in L |-> NthOf(K, k)]
<1>1. /\ c \in Nat /\ DOMAIN r = 1 .. c
      /\ \A k \in 1 .. c : NthOf(K, k) \in K /\ r[k] = m[NthOf(K, k)]
      /\ \A i \in K : \E k \in 1 .. c : NthOf(K, k) = i
      /\ \A k, j \in 1 .. c : k < j => NthOf(K, k) < NthOf(K, j)
  BY KeptInOrder
<1>2. L \in SUBSET (1 .. c) /\ J \in SUBSET (1 .. n)
  BY <1>1 DEF ByOption
<1>. HIDE DEF r, c
<1>3. \A k \in 1 .. c : k \in L <=> NthOf(K, k) \in J
  BY <1>1 DEF ByOption
<1>. HIDE DEF L, J
<1>4. InOrder(phi, L, J)
  <2>1. phi \in [L -> J]
    BY <1>2, <1>3
  <2>2. ASSUME NEW i \in J PROVE \E k \in L : phi[k] = i
    <3>1. i \in K
      BY DEF J
    <3>2. PICK k \in 1 .. c : NthOf(K, k) = i
      BY <1>1, <3>1
    <3>. QED  BY <1>3, <3>2
  <2>3. \A i, j \in L : i < j => phi[i] < phi[j]
    BY <1>1, <1>2
  <2>. QED  BY <2>1, <2>2, <2>3 DEF InOrder
<1>5. \A k \in L : r[k] = m[phi[k]]
  BY <1>1, <1>2
<1>. HIDE DEF phi
<1>7. Positions(L) /\ Positions(J)
  BY <1>1, <1>2 DEF Positions
<1>6. /\ Kept(r, L) = Kept(m, J)
      /\ \A o : LastOf(r, L, o) = LastOf(m, J, o)
      /\ L = {} <=> J = {}
  BY <1>4, <1>5, <1>7, SameLines
<1>. QED  BY <1>6 DEF r, L, J

\* A message that starts with some lines and goes on with a text.
Joined(m, head, text, h, n) ==
    /\ h \in Nat /\ DOMAIN head = 1 .. h
    /\ n \in Nat /\ DOMAIN text = 1 .. n
    /\ DOMAIN m = 1 .. (h + n)
    /\ \A i \in 1 .. h : m[i] = head[i]
    /\ \A i \in 1 .. n : m[h + i] = text[i]
LEMMA JoinedLines ==
    ASSUME NEW H, NEW T, NEW head \in Seq(H), NEW text \in Seq(T)
    PROVE  Joined(head \o text, head, text, Len(head), Len(text))
<1>1. \A i \in 1 .. Len(text) : (head \o text)[Len(head) + i] = text[i]
  <2>1. TAKE i \in 1 .. Len(text)
  <2>2. Len(head) + i \in 1 .. (Len(head) + Len(text)) /\ Len(head) + i > Len(head)
        /\ (Len(head) + i) - Len(head) = i
    OBVIOUS
  <2>. QED  BY <2>2
<1>. QED  BY <1>1 DEF Joined

\* Options that only the text gives are read in the message as in the text.
LEMMA OptionsFollow ==
    ASSUME NEW m, NEW head, NEW text, NEW h, NEW n, Joined(m, head, text, h, n), NEW x,
           ByOption(head, x) = {}
    PROVE  /\ Kept(m, ByOption(m, x)) = Kept(text, ByOption(text, x))
           /\ \A o : LastOf(m, ByOption(m, x), o) = LastOf(text, ByOption(text, x), o)
           /\ ByOption(m, x) = {} <=> ByOption(text, x) = {}
<1>. DEFINE L == ByOption(text, x)
            J == ByOption(m, x)
            phi == [i \in L |-> h + i]
<1>1. h \in Nat /\ n \in Nat /\ h + n \in Nat
  BY DEF Joined
<1>2. L \in SUBSET (1 .. n) /\ J \in SUBSET (1 .. (h + n))
  BY DEF Joined, ByOption
<1>3. \A i \in 1 .. n : i \in L <=> h + i \in J
  BY DEF Joined, ByOption
<1>4. ASSUME NEW i \in J PROVE i - h \in 1 .. n
  <2>1. ~(i \in 1 .. h)
    BY DEF Joined, ByOption
  <2>. QED  BY <1>1, <1>2, <2>1
<1>. HIDE DEF L, J
<1>5. InOrder(phi, L, J)
  <2>1. phi \in [L -> J]
    BY <1>2, <1>3
  <2>2. ASSUME NEW i \in J PROVE \E k \in L : phi[k] = i
    <3>1. h + (i - h) = i
      BY <1>1, <1>2
    <3>. QED  BY <1>3, <1>4, <3>1
  <2>3. \A i, j \in L : i < j => phi[i] < phi[j]
    BY <1>1, <1>2
  <2>. QED  BY <2>1, <2>2, <2>3 DEF InOrder
<1>6. \A k \in L : text[k] = m[phi[k]]
  BY <1>2 DEF Joined
<1>. HIDE DEF phi
<1>8. Positions(L) /\ Positions(J)
  BY <1>1, <1>2 DEF Positions
<1>7. /\ Kept(text, L) = Kept(m, J)
      /\ \A o : LastOf(text, L, o) = LastOf(m, J, o)
      /\ L = {} <=> J = {}
  BY <1>5, <1>6, <1>8, SameLines
<1>. QED  BY <1>7 DEF L, J

\* An option is read in the text first.
LEMMA LastFollows ==
    ASSUME NEW m, NEW head, NEW text, NEW h, NEW n, Joined(m, head, text, h, n), NEW x, NEW o
    PROVE  LastOf(m, ByOption(m, x), o)
               = LastOf(text, ByOption(text, x), LastOf(head, ByOption(head, x), o))
<1>. DEFINE L == ByOption(text, x)
            G == ByOption(head, x)
            J == ByOption(m, x)
<1>1. h \in Nat /\ n \in Nat /\ h + n \in Nat
  BY DEF Joined
<1>2. L \in SUBSET (1 .. n) /\ G \in SUBSET (1 .. h) /\ J \in SUBSET (1 .. (h + n))
  BY DEF Joined, ByOption
<1>3. /\ \A i \in 1 .. n : i \in L <=> h + i \in J
      /\ \A i \in 1 .. h : i \in G <=> i \in J
  BY DEF Joined, ByOption
<1>. HIDE DEF L, G, J
<1>4. CASE L = {}
  <2>1. ASSUME NEW i \in J PROVE i \in 1 .. h
    <3>1. i - h \in 1 .. n => h + (i - h) = i
      BY <1>1, <1>2
    <3>2. ~(i - h \in 1 .. n)
      BY <1>3, <1>4, <3>1
    <3>. QED  BY <1>1, <1>2, <3>2
  <2>2. J = G
    BY <1>2, <1>3, <2>1
  <2>3. G # {} => Max(G) \in G
    BY <1>1, <1>2, MaxExists
  <2>4. LastOf(m, J, o) = LastOf(head, G, o)
    BY <1>2, <2>2, <2>3 DEF LastOf, Joined
  <2>. QED  BY <1>4, <2>4 DEF LastOf, L, G, J
<1>5. CASE L # {}
  <2>. DEFINE top == Max(L)
  <2>1. top \in L /\ \A j \in L : j <= top
    BY <1>1, <1>2, <1>5, MaxExists
  <2>. HIDE DEF top
  <2>2. h + top \in J /\ m[h + top] = text[top]
    BY <1>2, <1>3, <2>1 DEF Joined
  <2>3. ASSUME NEW i \in J PROVE i <= h + top
    <3>1. i \in Int /\ i <= h + n /\ h \in Int /\ top \in Int /\ top >= 1
      BY <1>1, <1>2, <2>1
    <3>2. CASE i <= h
      BY <3>1, <3>2
    <3>3. CASE ~(i <= h)
      <4>1. i - h \in 1 .. n /\ h + (i - h) = i
        BY <1>1, <3>1, <3>3
      <4>2. i - h <= top
        BY <1>3, <2>1, <4>1
      <4>. QED  BY <3>1, <4>2
    <3>. QED  BY <3>2, <3>3
  <2>4. J \subseteq Int
    BY <1>1, <1>2
  <2>5. Max(J) = h + top
    BY <2>2, <2>3, <2>4, MaxIs
  <2>. QED  BY <1>5, <2>2, <2>5 DEF LastOf, L, G, J, top
<1>. QED  BY <1>4, <1>5

-------------------------------------------------------------------------------
(* The forms: what is written of a form, what the server reads in it, and what  *)
(* comes back when it is loaded, for any typed values.                          *)

\* The lines that the operator may type, and the forms that hold such lines.
TypedTexts == UNION {Typed[n] : n \in DOMAIN Typed \cap {"text", "caption"}}
TypedLines == UNION {Range(v) : v \in TypedTexts}
Formed(a, f) ==
    /\ a \in ActionTypes
    /\ f = [n \in Fields(a) |-> f[n]]
    /\ \A n \in Body(a) : f[n] \in Seq(TypedLines)
    /\ a = "start_bot" => f["referral_mode"] \in {"start", "startapp"}
FormKeys == {"file", "parse_mode", "schedule", "id", "ids", "revoke", "notify"}
\* The actions whose message is keyed lines and a text.
Lined == ActionTypes \ {"forward_message", "start_bot"}

LEMMA TypedKeys == \A l \in TypedLines : l.key \in {"", l.opt}
<1>1. TAKE l \in TypedLines
<1>2. PICK v \in TypedTexts : l \in Range(v)
  BY DEF TypedLines
<1>3. PICK n \in DOMAIN Typed \cap {"text", "caption"} : v \in Typed[n]
  BY <1>2 DEF TypedTexts
<1>. QED  BY <1>2, <1>3, TypedAssumption

LEMMA LineParts == \A k, v : Line(k, v).key = k /\ Line(k, v).opt = k /\ Line(k, v).val = v
BY DEF Line

LEMMA RangeOfFew ==
    /\ Range(<<>>) = {}
    /\ \A x : Range(<<x>>) = {x}
    /\ \A x, y : Range(<<x, y>>) = {x, y}
BY DEF Range

LEMMA KeysAndBodies ==
    ASSUME NEW a \in Lined
    PROVE  /\ Keyed(a) \in Seq(FormKeys)
           /\ \A i, j \in DOMAIN Keyed(a) : Keyed(a)[i] = Keyed(a)[j] => i = j
           /\ Body(a) \in {{}, {"text"}, {"caption"}}
           /\ Fields(a) = Range(Keyed(a)) \cup Body(a)
           /\ Range(Keyed(a)) \subseteq FormKeys
<1>1. Fields(a) = Range(Keyed(a)) \cup Body(a)
  BY DEF Fields, Lined
<1>2. Body(a) \in {{}, {"text"}, {"caption"}}
  BY DEF Body
<1>3. Keyed(a) \in {<<>>, <<"file", "parse_mode">>, <<"schedule">>, <<"id">>, <<"id", "notify">>,
                    <<"ids", "revoke">>}
  BY DEF Keyed
<1>4. Keyed(a) \in Seq(FormKeys)
  <2>1. \A x, y \in FormKeys : {<<>>, <<x>>, <<x, y>>} \subseteq Seq(FormKeys)
    OBVIOUS
  <2>. QED  BY <1>3, <2>1 DEF FormKeys
<1>6. Range(Keyed(a)) \subseteq FormKeys
  BY <1>4 DEF Range
<1>5. \A i, j \in DOMAIN Keyed(a) : Keyed(a)[i] = Keyed(a)[j] => i = j
  BY <1>3
<1>. QED  BY <1>1, <1>2, <1>4, <1>5, <1>6

\* What is written of a form: every field once, but a parse mode of none.
LEMMA WrittenFields ==
    ASSUME NEW a \in Lined, NEW f
    PROVE  /\ Written(a, f) \in Seq(FormKeys)
           /\ \A i, j \in DOMAIN Written(a, f) : Written(a, f)[i] = Written(a, f)[j] => i = j
           /\ Range(Written(a, f)) \subseteq Range(Keyed(a))
           /\ \A n \in Range(Keyed(a)) :
                  n \notin Range(Written(a, f)) <=> n = "parse_mode" /\ f[n] = "none"
<1>1. CASE a = "send_media" /\ f["parse_mode"] = "none"
  <2>1. Written(a, f) = <<"file">> /\ Keyed(a) = <<"file", "parse_mode">>
    BY <1>1 DEF Written, Keyed
  <2>. QED  BY <1>1, <2>1, RangeOfFew DEF FormKeys
<1>2. CASE ~(a = "send_media" /\ f["parse_mode"] = "none")
  <2>1. Written(a, f) = Keyed(a)
    BY <1>2 DEF Written
  <2>2. "parse_mode" \in Range(Keyed(a)) => a = "send_media"
    BY RangeOfFew DEF Keyed
  <2>. QED  BY <1>2, <2>1, <2>2, KeysAndBodies
<1>. QED  BY <1>1, <1>2

\* The message is the keyed lines and the text after them.
LEMMA MessageOf ==
    ASSUME NEW a \in Lined, NEW f, Formed(a, f)
    PROVE  /\ \A n \in Body(a) : TypedText(a, f) = f[n]
           /\ TypedText(a, f) \in Seq(TypedLines)
           /\ DOMAIN KeyedLines(a, f) = 1 .. Len(Written(a, f))
           /\ \A i \in 1 .. Len(Written(a, f)) :
                  KeyedLines(a, f)[i] = Line(Written(a, f)[i],
                                             Normalized(Written(a, f)[i], f[Written(a, f)[i]]))
           /\ serializeFields(a, f) = KeyedLines(a, f) \o TypedText(a, f)
           /\ Joined(serializeFields(a, f), KeyedLines(a, f), TypedText(a, f),
                     Len(Written(a, f)), Len(TypedText(a, f)))
<1>. DEFINE w == Written(a, f)
            head == KeyedLines(a, f)
            text == TypedText(a, f)
<1>1. serializeFields(a, f) = head \o text
  BY DEF serializeFields, Lined
<1>2. \A n \in Body(a) : text = f[n]
  BY KeysAndBodies DEF TypedText
<1>3. text \in Seq(TypedLines)
  <2>1. CASE Body(a) = {}
    BY <2>1 DEF TypedText
  <2>2. CASE Body(a) # {}
    BY <1>2, <2>2 DEF Formed
  <2>. QED  BY <2>1, <2>2
<1>4. Len(w) \in Nat /\ DOMAIN w = 1 .. Len(w)
  BY WrittenFields
<1>5. head = [i \in 1 .. Len(w) |-> Line(w[i], Normalized(w[i], f[w[i]]))]
  BY <1>4 DEF KeyedLines
<1>6. head \in Seq(Range(head)) /\ Len(head) = Len(w) /\ DOMAIN head = 1 .. Len(w)
  <2>. HIDE DEF w, head
  <2>1. DOMAIN head = 1 .. Len(w)
    BY <1>5
  <2>2. \A i \in 1 .. Len(w) : head[i] \in Range(head)
    BY <2>1 DEF Range
  <2>3. head = [i \in 1 .. Len(w) |-> head[i]]
    BY <1>5
  <2>. QED  BY <1>4, <2>1, <2>2, <2>3
<1>7. Joined(head \o text, head, text, Len(w), Len(text))
  BY <1>3, <1>6, JoinedLines
<1>. QED  BY <1>1, <1>2, <1>3, <1>5, <1>6, <1>7

\* The options of the keyed lines.
LEMMA HeadOptions ==
    ASSUME NEW a \in Lined, NEW f, Formed(a, f), NEW x
    PROVE  LET head == KeyedLines(a, f)
           IN IF x \in Range(Written(a, f))
              THEN /\ \A o : LastOf(head, ByOption(head, x), o) = Normalized(x, f[x])
                   /\ \E i \in DOMAIN head : head[i].key = x /\ head[i].opt = x
                                             /\ head[i].val = Normalized(x, f[x])
              ELSE ByOption(head, x) = {}
<1>. DEFINE w == Written(a, f)
            head == KeyedLines(a, f)
<1>1. /\ DOMAIN w = 1 .. Len(w) /\ DOMAIN head = 1 .. Len(w)
      /\ \A i, j \in 1 .. Len(w) : w[i] = w[j] => i = j
  BY WrittenFields, MessageOf
<1>2. ASSUME NEW i \in 1 .. Len(w)
      PROVE  head[i].key = w[i] /\ head[i].opt = w[i] /\ head[i].val = Normalized(w[i], f[w[i]])
  BY <1>2, MessageOf, LineParts
<1>. HIDE DEF w, head
<1>3. ByOption(head, x) = {i \in 1 .. Len(w) : w[i] = x}
  BY <1>1, <1>2 DEF ByOption
<1>4. CASE x \in Range(w)
  <2>1. PICK i \in 1 .. Len(w) : w[i] = x
    BY <1>1, <1>4 DEF Range
  <2>2. ByOption(head, x) = {i}
    BY <1>1, <1>3, <2>1
  <2>3. Max({i}) = i
    <3>1. {i} \in SUBSET Int /\ i \in {i} /\ \A j \in {i} : j <= i
      OBVIOUS
    <3>. QED  BY <3>1, MaxIs
  <2>4. \A o : LastOf(head, ByOption(head, x), o) = Normalized(x, f[x])
    BY <1>2, <2>1, <2>2, <2>3 DEF LastOf
  <2>. QED  BY <1>1, <1>2, <1>4, <2>1, <2>4 DEF w, head
<1>5. CASE x \notin Range(w)
  <2>1. ByOption(head, x) = {}
    BY <1>1, <1>3, <1>5 DEF Range
  <2>. QED  BY <1>5, <2>1 DEF w, head
<1>. QED  BY <1>4, <1>5

\* The names of an option that are not its own are of no field of the form.
LEMMA OtherNames ==
    ASSUME NEW a \in Lined, NEW n \in Range(Keyed(a)), NEW x \in Range(Names(n)), x # n
    PROVE  x \notin Range(Keyed(a))
<1>1. n \in FormKeys
  BY KeysAndBodies
<1>2. x \in {"path", "at", "when", "message_id", "message_ids", "id"}
  BY <1>1 DEF FormKeys, Names, Range
<1>3. x = "id" => n = "ids"
  BY <1>1, <1>2 DEF FormKeys, Names, Range
<1>4. n = "ids" => a = "delete_messages"
  BY RangeOfFew DEF Keyed
<1>5. a = "delete_messages" => Range(Keyed(a)) = {"ids", "revoke"}
  BY RangeOfFew DEF Keyed
<1>. QED  BY <1>2, <1>3, <1>4, <1>5, KeysAndBodies DEF FormKeys

\* The text of a form is read in its message as it would be read alone.
LEMMA TextIsRead ==
    ASSUME NEW a \in Lined, NEW f, Formed(a, f), NEW n \in {"text", "caption"}
    PROVE  TextRead(serializeFields(a, f), n) = TextRead(TypedText(a, f), n)
<1>. DEFINE m == serializeFields(a, f)
            text == TypedText(a, f)
<1>1. ASSUME NEW x \in {"text", "caption", "message", ""}
      PROVE  /\ Kept(m, ByOption(m, x)) = Kept(text, ByOption(text, x))
             /\ \A o : LastOf(m, ByOption(m, x), o) = LastOf(text, ByOption(text, x), o)
             /\ ByOption(m, x) = {} <=> ByOption(text, x) = {}
  <2>1. x \notin Range(Written(a, f))
    BY WrittenFields, KeysAndBodies DEF FormKeys
  <2>2. ByOption(KeyedLines(a, f), x) = {}
    BY <2>1, HeadOptions
  <2>3. Joined(m, KeyedLines(a, f), text, Len(Written(a, f)), Len(text))
    BY MessageOf
  <2>. HIDE DEF m, text
  <2>. QED  BY <2>2, <2>3, OptionsFollow
<1>. HIDE DEF m, text
<1>2. \A x \in {"text", "caption", "message", ""} : Option(m, x) = Option(text, x)
  BY <1>1 DEF Option
<1>. QED  BY <1>1, <1>2 DEF TextRead, m, text

\* An option is read in the last line of the text that gives it, else in its field.
LEMMA OptionIsRead ==
    ASSUME NEW d, NEW a \in Lined, a = d.action, NEW f, f = d.fields, Formed(a, f),
           NEW m, m = serializeFields(a, f), NEW n \in Range(Keyed(a)), NEW x \in Range(Names(n))
    PROVE  Option(m, x) = Given(d, n, x)
<1>. DEFINE head == KeyedLines(a, f)
            text == TypedText(a, f)
            field == IF x # n \/ (n = "parse_mode" /\ f[n] = "none") THEN ""
                     ELSE Normalized(n, f[n])
<1>1. LastOf(head, ByOption(head, x), "") = field
  <2>1. CASE x # n \/ (n = "parse_mode" /\ f[n] = "none")
    <3>1. x \notin Range(Written(a, f))
      BY <2>1, WrittenFields, OtherNames
    <3>2. ByOption(head, x) = {}
      BY <3>1, HeadOptions
    <3>. QED  BY <2>1, <3>2 DEF LastOf
  <2>2. CASE x = n /\ ~(n = "parse_mode" /\ f[n] = "none")
    <3>1. x \in Range(Written(a, f))
      BY <2>2, WrittenFields
    <3>. QED  BY <2>2, <3>1, HeadOptions
  <2>. QED  BY <2>1, <2>2
<1>2. Joined(m, head, text, Len(Written(a, f)), Len(text))
  BY MessageOf
<1>3. Given(d, n, x) = LastOf(text, ByOption(text, x), field)
  BY DEF Given
<1>. HIDE DEF head, text, field
<1>4. \A o : LastOf(m, ByOption(m, x), o)
                 = LastOf(text, ByOption(text, x), LastOf(head, ByOption(head, x), o))
  BY <1>2, LastFollows
<1>. QED  BY <1>1, <1>3, <1>4 DEF Option

\* A message of one line.
LEMMA OneLine ==
    ASSUME NEW k, NEW v, NEW m, m = <<Line(k, v)>>
    PROVE  /\ \A x : ByKey(m, x) = IF x = k THEN {1} ELSE {}
           /\ \A x : ByOption(m, x) = IF x = k THEN {1} ELSE {}
           /\ \A o : LastOf(m, {1}, o) = v
<1>1. DOMAIN m = {1} /\ m[1].key = k /\ m[1].opt = k /\ m[1].val = v
  <2>1. DOMAIN m = 1 .. 1 /\ m[1] = Line(k, v)
    BY DEF Line
  <2>. QED  BY <2>1, LineParts
<1>2. Max({1}) = 1
  <2>1. {1} \in SUBSET Int /\ 1 \in {1} /\ \A j \in {1} : j <= 1
    OBVIOUS
  <2>. QED  BY <2>1, MaxIs
<1>. QED  BY <1>1, <1>2 DEF ByKey, ByOption, LastOf
LEMMA NoLine ==
    ASSUME NEW m, m = <<>>, NEW x
    PROVE  ByKey(m, x) = {} /\ ByOption(m, x) = {}
<1>1. DOMAIN m = {}
  OBVIOUS
<1>. QED  BY <1>1 DEF ByKey, ByOption

\* What is read in the message of a bot to start, by the server and by the form.
ReferralRead(f, m) ==
    /\ (ByKey(m, "startapp") # {})
           <=> (f["referral_value"] # "" /\ f["referral_mode"] = "startapp")
    /\ (ByOption(m, "startapp") # {})
           <=> (f["referral_value"] # "" /\ f["referral_mode"] = "startapp")
    /\ Found(m, "startapp", Found(m, "start", "")) = f["referral_value"]
    /\ LastOf(m, ByOption(m, "startapp"), Option(m, "start")) = f["referral_value"]
LEMMA ReferralIsRead ==
    ASSUME NEW f, f["referral_mode"] \in {"start", "startapp"},
           NEW m, m = serializeFields("start_bot", f)
    PROVE  ReferralRead(f, m)
<1>. USE DEF ReferralRead
<1>. DEFINE given == f["referral_mode"]
            value == f["referral_value"]
<1>1. m = IF value = "" THEN <<>> ELSE <<Line(given, value)>>
  BY DEF serializeFields
<1>. HIDE DEF given, value
<1>2. \A o : LastOf(m, {}, o) = o
  BY DEF LastOf
<1>3. CASE value = ""
  <2>1. \A x : ByKey(m, x) = {} /\ ByOption(m, x) = {}
    BY <1>1, <1>3, NoLine
  <2>. QED  BY <1>2, <1>3, <2>1 DEF Found, Option, given, value
<1>4. CASE value # ""
  <2>1. m = <<Line(given, value)>>
    BY <1>1, <1>4
  <2>2. /\ \A x : ByKey(m, x) = IF x = given THEN {1} ELSE {}
        /\ \A x : ByOption(m, x) = IF x = given THEN {1} ELSE {}
        /\ \A o : LastOf(m, {1}, o) = value
    BY <2>1, OneLine
  <2>3. CASE given = "start"
    <3>1. ByKey(m, "start") = {1} /\ ByOption(m, "start") = {1}
          /\ ByKey(m, "startapp") = {} /\ ByOption(m, "startapp") = {}
      BY <2>2, <2>3
    <3>2. Found(m, "start", "") = value /\ Option(m, "start") = value
      BY <2>2, <3>1 DEF Found, Option
    <3>3. Found(m, "startapp", value) = value /\ LastOf(m, ByOption(m, "startapp"), value) = value
      BY <1>2, <3>1 DEF Found
    <3>. QED  BY <2>3, <3>1, <3>2, <3>3 DEF given, value
  <2>4. CASE given = "startapp"
    <3>1. ByKey(m, "startapp") = {1} /\ ByOption(m, "startapp") = {1}
      BY <2>2, <2>4
    <3>2. Found(m, "startapp", Found(m, "start", "")) = value
          /\ LastOf(m, ByOption(m, "startapp"), Option(m, "start")) = value
      BY <2>2, <3>1 DEF Found
    <3>. QED  BY <1>4, <2>4, <3>1, <3>2 DEF given, value
  <2>. QED  BY <2>3, <2>4 DEF given
<1>. QED  BY <1>3, <1>4
\* The same of a message to forward.
LEMMA SourceIsRead ==
    ASSUME NEW f, NEW m, m = serializeFields("forward_message", f)
    PROVE  (IF m = <<>> THEN "" ELSE m[1].val) = f["source"]
<1>. DEFINE v == f["source"]
<1>1. m = IF v = "" THEN <<>> ELSE <<Plain(v)>>
  BY DEF serializeFields
<1>. HIDE DEF v
<1>2. CASE v = ""
  BY <1>1, <1>2 DEF v
<1>3. CASE v # ""
  <2>1. m = <<Plain(v)>>
    BY <1>1, <1>3
  <2>2. m # <<>> /\ m[1] = Plain(v)
    BY <2>1
  <2>3. Plain(v).val = v
    BY DEF Plain
  <2>. QED  BY <2>2, <2>3 DEF v
<1>. QED  BY <1>2, <1>3

\* The fields that the server reads, and those that a form means.
LEMMA TextFields == \A a : \A n \in Body(a) : n \in {"text", "caption"} /\ n \in Fields(a)
BY DEF Body, Fields
LEMMA ReadFields ==
    \A a, m : parse_options(a, m) = [n \in Fields(a) |-> parse_options(a, m)[n]]
BY DEF parse_options
LEMMA ReadText ==
    ASSUME NEW a, NEW m, NEW n \in Body(a)
    PROVE  parse_options(a, m)[n] = IF a = "send_message" THEN m ELSE TextRead(m, n)
BY TextFields DEF parse_options
LEMMA ReadSource ==
    \A a, m : "source" \in Fields(a) /\ "source" \notin Body(a) =>
        parse_options(a, m)["source"] = IF m = <<>> THEN "" ELSE m[1].val
BY DEF parse_options
LEMMA ReadReferral ==
    \A a, m : "referral_mode" \in Fields(a) /\ "referral_mode" \notin Body(a) =>
        parse_options(a, m)["referral_mode"] =
            IF ByOption(m, "startapp") # {} THEN "startapp" ELSE "start"
BY DEF parse_options
LEMMA ReadValue ==
    \A a, m : "referral_value" \in Fields(a) /\ "referral_value" \notin Body(a) =>
        parse_options(a, m)["referral_value"] =
            LastOf(m, ByOption(m, "startapp"), Option(m, "start"))
BY DEF parse_options
LEMMA ReadOption ==
    \A a, m, n : n \in Fields(a) /\ n \notin Body(a)
                 /\ n \notin {"source", "referral_mode", "referral_value"} =>
        parse_options(a, m)[n] = OptionRead(m, n)
BY DEF parse_options
LEMMA MeantFields == \A d : Meant(d) = [n \in Fields(d.action) |-> Meant(d)[n]]
BY DEF Meant
LEMMA MeantText ==
    ASSUME NEW d, NEW n \in Body(d.action)
    PROVE  Meant(d)[n] = LET text == TypedText(d.action, d.fields)
                         IN IF d.action = "send_message" THEN text ELSE TextRead(text, n)
BY TextFields DEF Meant
LEMMA MeantField ==
    ASSUME NEW d, NEW n \in Fields(d.action) \ Body(d.action)
    PROVE  Meant(d)[n] =
               IF n \in {"source", "referral_value"} THEN d.fields[n]
               ELSE IF n = "referral_mode"
               THEN IF d.fields["referral_value"] = "" THEN "start" ELSE d.fields[n]
               ELSE OptionMeant(d, n)
BY DEF Meant, Default

\* What the server reads in the message of a form is what the form meant.
LEMMA ServerReadsTheForm ==
    ASSUME NEW d, NEW a, a = d.action, NEW f, f = d.fields, Formed(a, f),
           NEW m, m = serializeFields(a, f)
    PROVE  parse_options(a, m) = Meant(d)
<1>. DEFINE read == parse_options(a, m)
            meant == Meant(d)
            text == TypedText(a, f)
<1>1. read = [n \in Fields(a) |-> read[n]]
  BY ReadFields
<1>2. meant = [n \in Fields(a) |-> meant[n]]
  BY MeantFields
<1>3. SUFFICES ASSUME NEW n \in Fields(a) PROVE read[n] = meant[n]
  <2>. HIDE DEF read, meant
  <2>. QED  BY <1>1, <1>2 DEF read, meant
<1>4. n \in Body(a) => read[n] = IF a = "send_message" THEN m ELSE TextRead(m, n)
  BY ReadText
<1>5. n \in Body(a) => meant[n] = IF a = "send_message" THEN text ELSE TextRead(text, n)
  BY MeantText
<1>6. ASSUME n \in Fields(a) \ Body(a)
      PROVE meant[n] = IF n \in {"source", "referral_value"} THEN f[n]
                     ELSE IF n = "referral_mode"
                     THEN IF f["referral_value"] = "" THEN "start" ELSE f[n]
                     ELSE OptionMeant(d, n)
  BY <1>6, MeantField
<1>. HIDE DEF read, meant, text
<1>7. CASE a \in Lined
  <2>1. n \notin {"source", "referral_mode", "referral_value"}
    BY <1>7, KeysAndBodies DEF FormKeys
  <2>2. CASE n \in Body(a)
    <3>1. n \in {"text", "caption"}
      BY <2>2, TextFields
    <3>2. CASE a = "send_message"
      <4>1. KeyedLines(a, f) = <<>>
        BY <3>2 DEF KeyedLines, Written, Keyed
      <4>2. m = <<>> \o text /\ text \in Seq(TypedLines)
        BY <1>7, <4>1, MessageOf DEF text
      <4>3. m = text
        BY <4>2
      <4>. QED  BY <1>4, <1>5, <2>2, <3>2, <4>3
    <3>3. CASE a # "send_message"
      <4>1. TextRead(m, n) = TextRead(text, n)
        BY <1>7, <3>1, TextIsRead DEF text
      <4>. QED  BY <1>4, <1>5, <2>2, <3>3, <4>1
    <3>. QED  BY <3>2, <3>3
  <2>3. CASE n \notin Body(a)
    <3>1. n \in Range(Keyed(a))
      BY <1>7, <2>3, KeysAndBodies
    <3>2. ASSUME NEW x \in Range(Names(n)) PROVE Option(m, x) = Given(d, n, x)
      BY <1>7, <3>1, <3>2, OptionIsRead
    <3>3. OptionRead(m, n) = OptionMeant(d, n)
      BY <3>2 DEF OptionRead, OptionMeant
    <3>4. read[n] = OptionRead(m, n)
      BY <2>1, <2>3, ReadOption DEF read
    <3>. QED  BY <1>6, <2>1, <2>3, <3>3, <3>4
  <2>. QED  BY <2>2, <2>3
<1>8. CASE a = "forward_message"
  <2>1. n = "source" /\ n \notin Body(a)
    BY <1>8, RangeOfFew DEF Fields, Body, Keyed
  <2>2. (IF m = <<>> THEN "" ELSE m[1].val) = f["source"]
    BY <1>8, SourceIsRead
  <2>3. read[n] = IF m = <<>> THEN "" ELSE m[1].val
    BY <2>1, ReadSource DEF read
  <2>. QED  BY <1>6, <2>1, <2>2, <2>3
<1>9. CASE a = "start_bot"
  <2>1. n \in {"referral_mode", "referral_value"} /\ n \notin Body(a)
    BY <1>9, RangeOfFew DEF Fields, Body, Keyed
  <2>2. f["referral_mode"] \in {"start", "startapp"}
    BY <1>9 DEF Formed
  <2>3. m = serializeFields("start_bot", f)
    BY <1>9
  <2>4. ReferralRead(f, m)
    BY <2>2, <2>3, ReferralIsRead
  <2>5. CASE n = "referral_mode"
    <3>1. read[n] = IF ByOption(m, "startapp") # {} THEN "startapp" ELSE "start"
      BY <2>1, <2>5, ReadReferral DEF read
    <3>2. meant[n] = IF f["referral_value"] = "" THEN "start" ELSE f["referral_mode"]
      BY <1>6, <2>1, <2>5
    <3>. HIDE DEF read, meant
    <3>. QED  BY <2>2, <2>4, <3>1, <3>2 DEF ReferralRead
  <2>6. CASE n = "referral_value"
    <3>1. read[n] = LastOf(m, ByOption(m, "startapp"), Option(m, "start"))
      BY <2>1, <2>6, ReadValue DEF read
    <3>2. meant[n] = f["referral_value"]
      BY <1>6, <2>1, <2>6
    <3>. QED  BY <2>4, <3>1, <3>2 DEF ReferralRead
  <2>. QED  BY <2>1, <2>5, <2>6
<1>. QED  BY <1>7, <1>8, <1>9 DEF Lined, Formed

\* The lines of a message: the fields that were written, and the lines that were typed.
MadeOf(m, a, f, h, n) ==
    /\ DOMAIN m = 1 .. (h + n)
    /\ \A i \in 1 .. (h + n) :
           IF i <= h THEN m[i].key = m[i].opt /\ m[i].key \in Range(Keyed(a))
           ELSE m[i] \in TypedLines /\ m[i].key \in {"", m[i].opt} /\ Body(a) # {}
    /\ \A x \in Range(Written(a, f)) : \E i \in 1 .. (h + n) :
           m[i].key = x /\ m[i].opt = x /\ m[i].val = Normalized(x, f[x])
LEMMA MessageLines ==
    ASSUME NEW a \in Lined, NEW f, Formed(a, f), NEW m, m = serializeFields(a, f)
    PROVE  \E h, n \in Nat : MadeOf(m, a, f, h, n)
<1>. DEFINE w == Written(a, f)
            head == KeyedLines(a, f)
            text == TypedText(a, f)
            h == Len(w)
            n == Len(text)
<1>1. /\ Joined(m, head, text, h, n)
      /\ \A i \in 1 .. h : head[i] = Line(w[i], Normalized(w[i], f[w[i]]))
      /\ text \in Seq(TypedLines)
  BY MessageOf
<1>2. w \in Seq(FormKeys) /\ Range(w) \subseteq Range(Keyed(a))
  BY WrittenFields
<1>3. \A i \in 1 .. h : w[i] \in Range(Keyed(a))
  <2>. HIDE DEF w
  <2>1. \A i \in 1 .. h : w[i] \in Range(w)
    BY <1>2 DEF Range
  <2>. QED  BY <1>2, <2>1
<1>4. Body(a) = {} => n = 0
  BY DEF TypedText
<1>5. \A i \in 1 .. n : text[i] \in TypedLines /\ text[i].key \in {"", text[i].opt}
  <2>. HIDE DEF text
  <2>1. \A i \in 1 .. n : text[i] \in TypedLines
    BY <1>1
  <2>. QED  BY <2>1, TypedKeys
<1>6. \A x \in Range(w) : \E i \in DOMAIN head :
          head[i].key = x /\ head[i].opt = x /\ head[i].val = Normalized(x, f[x])
  BY HeadOptions
<1>. HIDE DEF w, head, text, h, n
<1>7. h \in Nat /\ n \in Nat /\ DOMAIN m = 1 .. (h + n) /\ DOMAIN head = 1 .. h
  BY <1>1 DEF Joined
<1>8. ASSUME NEW i \in 1 .. (h + n)
      PROVE  IF i <= h THEN m[i].key = m[i].opt /\ m[i].key \in Range(Keyed(a))
             ELSE m[i] \in TypedLines /\ m[i].key \in {"", m[i].opt} /\ Body(a) # {}
  <2>1. CASE i <= h
    <3>1. i \in 1 .. h
      BY <1>7, <2>1
    <3>2. m[i] = Line(w[i], Normalized(w[i], f[w[i]]))
      BY <1>1, <3>1 DEF Joined
    <3>3. m[i].key = w[i] /\ m[i].opt = w[i]
      BY <3>2, LineParts
    <3>. QED  BY <1>3, <2>1, <3>1, <3>3
  <2>2. CASE ~(i <= h)
    <3>1. i - h \in 1 .. n /\ h + (i - h) = i
      BY <1>7, <2>2
    <3>2. m[i] = text[i - h]
      BY <1>1, <3>1 DEF Joined
    <3>3. n # 0
      BY <1>7, <3>1
    <3>. QED  BY <1>4, <1>5, <2>2, <3>1, <3>2, <3>3
  <2>. QED  BY <2>1, <2>2
<1>9. ASSUME NEW x \in Range(w)
      PROVE  \E i \in 1 .. (h + n) :
                 m[i].key = x /\ m[i].opt = x /\ m[i].val = Normalized(x, f[x])
  <2>1. PICK i \in 1 .. h : head[i].key = x /\ head[i].opt = x /\ head[i].val = Normalized(x, f[x])
    BY <1>6, <1>7
  <2>2. m[i] = head[i] /\ i \in 1 .. (h + n)
    BY <1>1, <1>7 DEF Joined
  <2>. QED  BY <2>1, <2>2
<1>. QED  BY <1>7, <1>8, <1>9 DEF MadeOf, w
LEMMA MessageKeys ==
    ASSUME NEW a \in Lined, NEW f, Formed(a, f), NEW m, m = serializeFields(a, f)
    PROVE  /\ \E n \in Nat : DOMAIN m = 1 .. n
           /\ \A i \in DOMAIN m : i \in Int /\ m[i].key \in {"", m[i].opt}
<1>1. PICK h, n \in Nat : MadeOf(m, a, f, h, n)
  BY MessageLines
<1>2. h + n \in Nat
  OBVIOUS
<1>5. DOMAIN m = 1 .. (h + n)
  BY <1>1 DEF MadeOf
<1>3. ASSUME NEW i \in DOMAIN m PROVE i \in Int /\ m[i].key \in {"", m[i].opt}
  <2>1. i \in 1 .. (h + n) /\ i \in Int
    BY <1>2, <1>5
  <2>2. IF i <= h THEN m[i].key = m[i].opt ELSE m[i].key \in {"", m[i].opt}
    BY <1>1, <2>1 DEF MadeOf
  <2>. QED  BY <2>1, <2>2
<1>. QED  BY <1>2, <1>3, <1>5
FieldLine(m, x, v) == \E i \in ByOption(m, x) : m[i].key = x /\ m[i].val = v
LEMMA FieldIsWritten ==
    ASSUME NEW a \in Lined, NEW f, Formed(a, f), NEW m, m = serializeFields(a, f),
           NEW x \in Range(Written(a, f))
    PROVE  FieldLine(m, x, Normalized(x, f[x]))
<1>1. PICK h, n \in Nat : MadeOf(m, a, f, h, n)
  BY MessageLines
<1>2. DOMAIN m = 1 .. (h + n)
  BY <1>1 DEF MadeOf
<1>3. PICK i \in 1 .. (h + n) : m[i].key = x /\ m[i].opt = x /\ m[i].val = Normalized(x, f[x])
  BY <1>1 DEF MadeOf
<1>. QED  BY <1>2, <1>3 DEF FieldLine, ByOption

\* What a form is loaded with.
LEMMA LoadedFields ==
    \A a, m : deserializeFields(a, m) = [n \in Fields(a) |-> deserializeFields(a, m)[n]]
BY DEF deserializeFields
LEMMA LoadedText ==
    ASSUME NEW a, NEW m, NEW n \in Body(a)
    PROVE  deserializeFields(a, m)[n] =
               IF a = "send_message" THEN m ELSE Rest(m, Range(Keyed(a)))
BY TextFields DEF deserializeFields
LEMMA LoadedMode ==
    \A a, m : "parse_mode" \in Fields(a) /\ "parse_mode" \notin Body(a) =>
        deserializeFields(a, m)["parse_mode"] = ModeOf(Found(m, "parse_mode", ""))
BY DEF deserializeFields
LEMMA LoadedOption ==
    \A a, m, n : n \in Fields(a) /\ n \notin Body(a)
                 /\ n \notin {"source", "referral_mode", "referral_value", "parse_mode"} =>
        deserializeFields(a, m)[n] = Shown(n, Found(m, n, Default(n)))
BY DEF deserializeFields

\* The text that is loaded is the lines with no key of the form, in their order.
LEMMA LoadedForm ==
    ASSUME NEW a \in Lined, a # "send_message", NEW f, Formed(a, f),
           NEW m, m = serializeFields(a, f), NEW g, g = deserializeFields(a, m)
    PROVE  Formed(a, g) /\ TypedText(a, g) = Rest(m, Range(Keyed(a)))
<1>. DEFINE keys == Range(Keyed(a))
            K == {i \in DOMAIN m : m[i].key \notin keys}
            c == Cardinality(K)
            rest == Rest(m, keys)
<1>0. PICK h, n \in Nat : MadeOf(m, a, f, h, n)
  BY MessageLines
<1>1. /\ DOMAIN m = 1 .. (h + n)
      /\ \A i \in 1 .. (h + n) :
             m[i].key \in keys \/ (m[i] \in TypedLines /\ Body(a) # {})
  BY <1>0 DEF MadeOf
<1>2. K \in SUBSET (1 .. (h + n)) /\ h + n \in Nat
  BY <1>1
<1>3. \A i \in K : m[i] \in TypedLines /\ Body(a) # {}
  BY <1>1
<1>4. rest = Kept(m, K)
  BY DEF Rest
<1>. HIDE DEF K, c, rest, keys
<1>5. /\ c \in Nat /\ rest = [k \in 1 .. c |-> rest[k]]
      /\ \A k \in 1 .. c : NthOf(K, k) \in K /\ rest[k] = m[NthOf(K, k)]
  BY <1>2, <1>4, KeptInOrder, KeptIs DEF c
<1>6. rest \in Seq(TypedLines)
  BY <1>3, <1>5
<1>7. Body(a) = {} => rest = <<>>
  <2>1. Body(a) = {} => c = 0
    <3>1. Body(a) = {} => K = {}
      BY <1>3
    <3>. QED  BY <3>1, FS_EmptySet DEF c
  <2>. QED  BY <1>5, <2>1
<1>8. \A x \in Body(a) : g[x] = rest
  BY LoadedText DEF rest, keys
<1>9. TypedText(a, g) = rest
  BY <1>7, <1>8 DEF TypedText
<1>10. g = [x \in Fields(a) |-> g[x]]
  BY LoadedFields
<1>. QED  BY <1>6, <1>8, <1>9, <1>10 DEF Formed, Lined, rest, keys

\* Options with no key in the form are read in the form that was loaded as before.
LEMMA OthersRemain ==
    ASSUME NEW a \in Lined, a # "send_message", NEW f, Formed(a, f),
           NEW m, m = serializeFields(a, f), NEW g, g = deserializeFields(a, m),
           NEW back, back = serializeFields(a, g),
           NEW x, x \notin Range(Written(a, g)),
           \A i \in ByOption(m, x) : m[i].key \notin Range(Keyed(a))
    PROVE  /\ Kept(back, ByOption(back, x)) = Kept(m, ByOption(m, x))
           /\ \A o : LastOf(back, ByOption(back, x), o) = LastOf(m, ByOption(m, x), o)
           /\ ByOption(back, x) = {} <=> ByOption(m, x) = {}
<1>. DEFINE head == KeyedLines(a, g)
            K == {i \in DOMAIN m : m[i].key \notin Range(Keyed(a))}
            rest == Kept(m, K)
<1>1. Formed(a, g) /\ TypedText(a, g) = rest
  BY LoadedForm DEF Rest
<1>2. Joined(back, head, rest, Len(Written(a, g)), Len(rest)) /\ ByOption(head, x) = {}
  BY <1>1, MessageOf, HeadOptions
<1>3. PICK n \in Nat : DOMAIN m = 1 .. n
  BY MessageKeys
<1>4. K \in SUBSET (1 .. n) /\ ByOption(m, x) \subseteq K
  BY <1>3 DEF ByOption
<1>. HIDE DEF head, K
<1>5. /\ Kept(rest, ByOption(rest, x)) = Kept(m, ByOption(m, x))
      /\ \A o : LastOf(rest, ByOption(rest, x), o) = LastOf(m, ByOption(m, x), o)
      /\ ByOption(rest, x) = {} <=> ByOption(m, x) = {}
  BY <1>3, <1>4, OptionsRemain
<1>. HIDE DEF rest
<1>6. /\ Kept(back, ByOption(back, x)) = Kept(rest, ByOption(rest, x))
      /\ \A o : LastOf(back, ByOption(back, x), o) = LastOf(rest, ByOption(rest, x), o)
      /\ ByOption(back, x) = {} <=> ByOption(rest, x) = {}
  BY <1>2, OptionsFollow
<1>. QED  BY <1>5, <1>6

\* A name that is no field of the form has no line with a key of the form.
LEMMA OtherKeys ==
    ASSUME NEW a \in Lined, NEW f, Formed(a, f), NEW m, m = serializeFields(a, f),
           NEW x, x \notin Range(Keyed(a)), NEW i \in ByOption(m, x)
    PROVE  m[i].key \notin Range(Keyed(a))
<1>1. i \in DOMAIN m /\ m[i].opt = x
  BY DEF ByOption
<1>2. m[i].key \in {"", x}
  BY <1>1, MessageKeys
<1>3. "" \notin Range(Keyed(a))
  BY KeysAndBodies DEF FormKeys
<1>. QED  BY <1>2, <1>3

\* An option that is not contested is read in the form that was loaded as before.
LEMMA OptionReturns ==
    ASSUME NEW a \in Lined, a # "send_message", NEW f, Formed(a, f),
           NEW m, m = serializeFields(a, f), NEW g, g = deserializeFields(a, m),
           NEW back, back = serializeFields(a, g),
           NEW n \in Range(Keyed(a)), ~Contested(m, n)
    PROVE  Option(back, n) = Option(m, n)
<1>1. /\ n \in Fields(a) /\ n \notin Body(a) /\ n \in FormKeys /\ n # ""
      /\ n \notin {"source", "referral_mode", "referral_value"}
  BY KeysAndBodies DEF FormKeys
<1>2. /\ \A i \in DOMAIN m : m[i].key \in {"", m[i].opt}
      /\ n \in Range(Written(a, f)) => FieldLine(m, n, Normalized(n, f[n]))
  <2>1. \A i \in DOMAIN m : m[i].key \in {"", m[i].opt}
    BY MessageKeys
  <2>2. ASSUME n \in Range(Written(a, f))
        PROVE FieldLine(m, n, Normalized(n, f[n]))
    BY <2>2, FieldIsWritten
  <2>. QED  BY <2>1, <2>2
<1>3. n \notin Range(Written(a, f)) <=> n = "parse_mode" /\ f[n] = "none"
  BY WrittenFields
<1>4. n \notin Range(Written(a, g)) <=> n = "parse_mode" /\ g[n] = "none"
  BY WrittenFields
<1>5. n # "parse_mode" => g[n] = Shown(n, Found(m, n, Default(n)))
  BY <1>1, LoadedOption
<1>6. n = "parse_mode" => g[n] = ModeOf(Found(m, n, ""))
  BY <1>1, LoadedMode
<1>7. ByKey(m, n) \subseteq ByOption(m, n)
  BY <1>1, <1>2 DEF ByKey, ByOption
<1>8. CASE ByKey(m, n) = {}
  <2>1. n = "parse_mode"
    BY <1>2, <1>3, <1>8 DEF ByKey, ByOption, FieldLine
  <2>2. g[n] = "none"
    BY <1>6, <1>8, <2>1 DEF Found, LastOf, ModeOf
  <2>3. n \notin Range(Written(a, g))
    BY <1>4, <2>1, <2>2
  <2>4. ASSUME NEW i \in ByOption(m, n) PROVE m[i].key \notin Range(Keyed(a))
    <3>1. i \in DOMAIN m /\ m[i].opt = n /\ m[i].key # n
      BY <1>8 DEF ByOption, ByKey
    <3>2. m[i].key = ""
      BY <1>2, <3>1
    <3>. QED  BY <3>2, KeysAndBodies DEF FormKeys
  <2>5. \A o : LastOf(back, ByOption(back, n), o) = LastOf(m, ByOption(m, n), o)
    BY <2>3, <2>4, OthersRemain
  <2>. QED  BY <2>5 DEF Option
<1>9. CASE ByKey(m, n) # {}
  <2>1. PICK i \in ByKey(m, n) : TRUE
    BY <1>9
  <2>2. ByOption(m, n) = {i} /\ ByKey(m, n) = {i}
    BY <1>7, <2>1 DEF Contested
  <2>. DEFINE v == m[i].val
  <2>3. i \in Int
    BY <2>1, MessageKeys DEF ByKey
  <2>4. Max({i}) = i
    <3>1. {i} \in SUBSET Int /\ i \in {i} /\ \A j \in {i} : j <= i
      BY <2>3
    <3>. QED  BY <3>1, MaxIs
  <2>5. Option(m, n) = v /\ \A o : Found(m, n, o) = v
    BY <2>2, <2>4 DEF Option, Found, LastOf
  <2>. HIDE DEF v
  <2>6. LET head == KeyedLines(a, g)
        IN Option(back, n) = LastOf(head, ByOption(head, n), "")
    <3>. DEFINE head == KeyedLines(a, g)
                K == {j \in DOMAIN m : m[j].key \notin Range(Keyed(a))}
                rest == Kept(m, K)
    <3>1. Formed(a, g) /\ TypedText(a, g) = rest
      BY LoadedForm DEF Rest
    <3>2. Joined(back, head, rest, Len(Written(a, g)), Len(rest))
      BY <3>1, MessageOf
    <3>3. PICK s \in Nat : DOMAIN m = 1 .. s
      BY MessageKeys
    <3>4. K \in SUBSET (1 .. s) /\ i \notin K
      BY <2>1, <3>3 DEF ByKey
    <3>5. ByOption(rest, n) = {}
      <4>1. ASSUME NEW k \in DOMAIN rest, rest[k].opt = n PROVE FALSE
        <5>0. k \in 1 .. Cardinality(K)
          BY <3>4, <4>1, KeptInOrder
        <5>1. NthOf(K, k) \in K /\ rest[k] = m[NthOf(K, k)]
          BY <3>4, <5>0, KeptInOrder
        <5>2. NthOf(K, k) \in ByOption(m, n)
          BY <4>1, <5>1 DEF ByOption
        <5>. QED  BY <2>2, <3>4, <5>1, <5>2
      <4>. QED  BY <4>1 DEF ByOption
    <3>. HIDE DEF head, rest
    <3>6. \A o : LastOf(back, ByOption(back, n), o)
                     = LastOf(rest, ByOption(rest, n), LastOf(head, ByOption(head, n), o))
      BY <3>2, LastFollows
    <3>. QED  BY <3>5, <3>6 DEF Option, LastOf, head
  <2>7. n \in Range(Written(a, g)) => Option(back, n) = Normalized(n, g[n])
    BY <2>6, LoadedForm, HeadOptions
  <2>8. n \notin Range(Written(a, g)) => Option(back, n) = ""
    <3>1. n \notin Range(Written(a, g)) => ByOption(KeyedLines(a, g), n) = {}
      BY LoadedForm, HeadOptions
    <3>. QED  BY <2>6, <3>1 DEF LastOf
  <2>9. CASE n = "parse_mode"
    <3>1. v # "none"
      BY <2>5, <2>9 DEF Contested
    <3>2. g[n] = ModeOf(v)
      BY <1>6, <2>5, <2>9
    <3>3. CASE v = ""
      BY <1>4, <2>5, <2>8, <2>9, <3>2, <3>3 DEF ModeOf
    <3>4. CASE v # ""
      BY <1>4, <2>5, <2>7, <2>9, <3>1, <3>2, <3>4 DEF ModeOf, Normalized
    <3>. QED  BY <3>3, <3>4
  <2>10. CASE n # "parse_mode"
    <3>1. PICK j \in ByOption(m, n) : m[j].key = n /\ m[j].val = Normalized(n, f[n])
      BY <1>2, <1>3, <2>10 DEF FieldLine
    <3>2. j = i
      BY <2>2, <3>1
    <3>3. v = Normalized(n, f[n])
      BY <3>1, <3>2 DEF v
    <3>4. Normalized(n, Shown(n, v)) = v
      BY <3>3 DEF Normalized, Shown
    <3>. QED  BY <1>4, <1>5, <2>5, <2>7, <2>10, <3>4
  <2>. QED  BY <2>9, <2>10
<1>. QED  BY <1>8, <1>9

\* A form of keyed lines and a text that is written and loaded again.
LEMMA LinedReturns ==
    ASSUME NEW a \in Lined, a # "send_message", NEW f, Formed(a, f),
           NEW m, m = serializeFields(a, f), NEW g, g = deserializeFields(a, m),
           NEW back, back = serializeFields(a, g), NEW n \in Fields(a), ~Contested(m, n)
    PROVE  parse_options(a, back)[n] = parse_options(a, m)[n]
<1>1. ASSUME NEW x, x \notin Range(Keyed(a))
      PROVE  /\ Kept(back, ByOption(back, x)) = Kept(m, ByOption(m, x))
             /\ \A o : LastOf(back, ByOption(back, x), o) = LastOf(m, ByOption(m, x), o)
             /\ ByOption(back, x) = {} <=> ByOption(m, x) = {}
  <2>1. \A i \in ByOption(m, x) : m[i].key \notin Range(Keyed(a))
    BY <1>1, OtherKeys
  <2>2. x \notin Range(Written(a, g))
    BY <1>1, WrittenFields
  <2>. QED  BY <2>1, <2>2, OthersRemain
<1>2. ASSUME NEW x, x \notin Range(Keyed(a)) PROVE Option(back, x) = Option(m, x)
  BY <1>1, <1>2 DEF Option
<1>3. CASE n \in Body(a)
  <2>1. n \in {"text", "caption"}
    BY <1>3, TextFields
  <2>2. \A x \in {n, "message", "text", ""} : x \notin Range(Keyed(a))
    BY <2>1, KeysAndBodies DEF FormKeys
  <2>3. Option(back, n) = Option(m, n) /\ Option(back, "message") = Option(m, "message")
    BY <1>2, <2>2
  <2>4. /\ ByOption(back, "message") = {} <=> ByOption(m, "message") = {}
        /\ ByOption(back, "text") = {} <=> ByOption(m, "text") = {}
        /\ Kept(back, ByOption(back, "")) = Kept(m, ByOption(m, ""))
    BY <1>1, <2>2
  <2>5. TextRead(back, n) = TextRead(m, n)
    BY <2>3, <2>4 DEF TextRead
  <2>. QED  BY <1>3, <2>5, ReadText
<1>4. CASE n \notin Body(a)
  <2>1. n \in Range(Keyed(a)) /\ n \notin {"source", "referral_mode", "referral_value"}
    BY <1>4, KeysAndBodies DEF FormKeys
  <2>2. ASSUME NEW x \in Range(Names(n)) PROVE Option(back, x) = Option(m, x)
    <3>1. CASE x = n
      BY <2>1, <3>1, OptionReturns
    <3>2. CASE x # n
      BY <1>2, <2>1, <3>2, OtherNames
    <3>. QED  BY <3>1, <3>2
  <2>3. OptionRead(back, n) = OptionRead(m, n)
    BY <2>2 DEF OptionRead
  <2>. QED  BY <1>4, <2>1, <2>3, ReadOption
<1>. QED  BY <1>3, <1>4

\* A message to send, to forward or to start a bot with comes back as it is.
LEMMA OthersReturn ==
    ASSUME NEW a \in {"send_message", "forward_message", "start_bot"}, NEW f, Formed(a, f),
           NEW m, m = serializeFields(a, f), NEW g, g = deserializeFields(a, m)
    PROVE  Formed(a, g) /\ serializeFields(a, g) = m
<1>1. g = [n \in Fields(a) |-> g[n]]
  BY LoadedFields
<1>2. CASE a = "send_message"
  <2>1. Body(a) = {"text"} /\ a \in Lined
    BY <1>2 DEF Body, Lined, ActionTypes
  <2>2. \A h : KeyedLines(a, h) = <<>>
    BY <1>2 DEF KeyedLines, Written, Keyed
  <2>3. m = <<>> \o TypedText(a, f) /\ TypedText(a, f) \in Seq(TypedLines)
    BY <2>1, <2>2, MessageOf
  <2>4. m \in Seq(TypedLines)
    BY <2>3
  <2>5. g["text"] = m
    BY <1>2, <2>1, LoadedText
  <2>6. TypedText(a, g) = m
    BY <2>1, <2>5 DEF TypedText
  <2>7. Formed(a, g)
    BY <1>1, <1>2, <2>1, <2>4, <2>5 DEF Formed, Lined
  <2>8. serializeFields(a, g) = <<>> \o m
    BY <2>1, <2>2, <2>6, <2>7, MessageOf
  <2>. QED  BY <2>4, <2>7, <2>8
<1>3. CASE a = "forward_message"
  <2>1. Fields(a) = {"source"} /\ Body(a) = {}
    BY <1>3, RangeOfFew DEF Fields, Body, Keyed
  <2>2. g["source"] = IF m = <<>> THEN "" ELSE m[1].val
    BY <2>1 DEF deserializeFields
  <2>3. g["source"] = f["source"]
    BY <1>3, <2>2, SourceIsRead
  <2>4. \A h : serializeFields(a, h) =
                   IF h["source"] = "" THEN <<>> ELSE <<Plain(h["source"])>>
    BY <1>3 DEF serializeFields
  <2>5. serializeFields(a, g) = m
    BY <2>3, <2>4
  <2>. QED  BY <1>1, <1>3, <2>1, <2>5 DEF Formed
<1>4. CASE a = "start_bot"
  <2>1. Fields(a) = {"referral_mode", "referral_value"} /\ Body(a) = {}
    BY <1>4, RangeOfFew DEF Fields, Body, Keyed
  <2>2. f["referral_mode"] \in {"start", "startapp"} /\ m = serializeFields("start_bot", f)
    BY <1>4 DEF Formed
  <2>3. ReferralRead(f, m)
    BY <2>2, ReferralIsRead
  <2>4. g["referral_mode"] = IF ByKey(m, "startapp") # {} THEN "startapp" ELSE "start"
    BY <2>1 DEF deserializeFields
  <2>5. g["referral_value"] = Found(m, "startapp", Found(m, "start", ""))
    BY <2>1 DEF deserializeFields
  <2>6. g["referral_value"] = f["referral_value"]
    BY <2>3, <2>5 DEF ReferralRead
  <2>7. f["referral_value"] # "" => g["referral_mode"] = f["referral_mode"]
    BY <2>2, <2>3, <2>4 DEF ReferralRead
  <2>8. \A h : serializeFields(a, h) =
                   IF h["referral_value"] = "" THEN <<>>
                   ELSE <<Line(h["referral_mode"], h["referral_value"])>>
    BY <1>4 DEF serializeFields
  <2>9. serializeFields(a, g) = m
    BY <2>6, <2>7, <2>8
  <2>. QED  BY <1>1, <1>4, <2>1, <2>4, <2>9 DEF Formed
<1>. QED  BY <1>2, <1>3, <1>4

\* What the server reads in a message that was loaded and is written again.
LEMMA SavedReads ==
    ASSUME NEW a, NEW f, Formed(a, f), NEW m, m = serializeFields(a, f),
           NEW g, g = deserializeFields(a, m), NEW back, back = serializeFields(a, g)
    PROVE  /\ Formed(a, g)
           /\ \A n \in Fields(a) :
                  Contested(m, n) \/ parse_options(a, back)[n] = parse_options(a, m)[n]
<1>1. CASE a \in {"send_message", "forward_message", "start_bot"}
  BY <1>1, OthersReturn
<1>2. CASE a \notin {"send_message", "forward_message", "start_bot"}
  <2>1. a \in Lined /\ a # "send_message"
    BY <1>2 DEF Formed, Lined
  <2>2. Formed(a, g)
    BY <2>1, LoadedForm
  <2>3. ASSUME NEW n \in Fields(a), ~Contested(m, n)
        PROVE  parse_options(a, back)[n] = parse_options(a, m)[n]
    BY <2>1, <2>3, LinedReturns
  <2>. QED  BY <2>2, <2>3
<1>. QED  BY <1>1, <1>2

\* The defaults of a form, and what it takes over from the form of another action.
LEMMA EmptyTexts ==
    ASSUME NEW b, NEW n \in Body(b)
    PROVE  /\ n \in {"text", "caption"} /\ n \in Fields(b)
           /\ Default(n) \in Seq(TypedLines)
<1>1. n \in {"text", "caption"} /\ n \in Fields(b)
  BY DEF Body, Fields
<1>2. Default(n) = <<>>
  BY <1>1 DEF Default
<1>. QED  BY <1>1, <1>2
LEMMA FormsStart ==
    ASSUME NEW b \in ActionTypes
    PROVE  Formed(b, defaultFieldValues(b))
<1>. DEFINE h == defaultFieldValues(b)
<1>1. h = [n \in Fields(b) |-> h[n]]
  BY DEF defaultFieldValues
<1>2. \A n \in Body(b) : h[n] \in Seq(TypedLines)
  BY EmptyTexts DEF defaultFieldValues
<1>3. b = "start_bot" => h["referral_mode"] = "start"
  BY DEF defaultFieldValues, Fields, Default
<1>. QED  BY <1>1, <1>2, <1>3 DEF Formed
LEMMA FormsCarry ==
    ASSUME NEW a, NEW f, Formed(a, f), NEW b \in ActionTypes
    PROVE  Formed(b, carryFieldValues(b, f))
<1>. DEFINE g == carryFieldValues(b, f)
<1>1. g = [n \in Fields(b) |-> g[n]]
  BY DEF carryFieldValues
<1>2. ASSUME NEW n \in Body(b) PROVE g[n] \in Seq(TypedLines)
  <2>1. n \in {"text", "caption"} /\ n \in Fields(b) /\ Default(n) \in Seq(TypedLines)
    BY EmptyTexts
  <2>2. CASE n \in DOMAIN f
    <3>1. n \in Fields(a)
      BY <2>2 DEF Formed
    <3>2. n \in Body(a)
      <4>1. CASE a \in Lined
        BY <2>1, <3>1, <4>1, KeysAndBodies DEF FormKeys
      <4>2. CASE a \in {"forward_message", "start_bot"}
        BY <2>1, <3>1, <4>2, RangeOfFew DEF Fields, Body, Keyed
      <4>. QED  BY <4>1, <4>2 DEF Lined, Formed
    <3>. QED  BY <2>1, <2>2, <3>2 DEF Formed, carryFieldValues
  <2>3. CASE n \notin DOMAIN f
    BY <2>1, <2>3 DEF carryFieldValues
  <2>. QED  BY <2>2, <2>3
<1>3. b = "start_bot" => g["referral_mode"] \in {"start", "startapp"}
  <2>1. SUFFICES ASSUME b = "start_bot" PROVE g["referral_mode"] \in {"start", "startapp"}
    OBVIOUS
  <2>2. "referral_mode" \in Fields(b) /\ Default("referral_mode") = "start"
    BY <2>1 DEF Fields, Default
  <2>3. "referral_mode" \in DOMAIN f => a = "start_bot"
    BY KeysAndBodies, RangeOfFew DEF Formed, Lined, FormKeys, Fields, Body, Keyed
  <2>. QED  BY <2>2, <2>3 DEF Formed, carryFieldValues
<1>. QED  BY <1>1, <1>2, <1>3 DEF Formed
\* A field that is filled in.
LEMMA FormsFill ==
    ASSUME NEW a, NEW f, Formed(a, f), NEW n \in DOMAIN Typed, NEW v \in Typed[n]
    PROVE  Formed(a, [f EXCEPT ![n] = v])
<1>. DEFINE g == [f EXCEPT ![n] = v]
<1>1. DOMAIN f = Fields(a)
  BY DEF Formed
<1>2. g = [x \in Fields(a) |-> g[x]]
  BY <1>1
<1>3. ASSUME NEW x \in Body(a) PROVE g[x] \in Seq(TypedLines)
  <2>1. x \in {"text", "caption"} /\ f[x] \in Seq(TypedLines)
    BY EmptyTexts DEF Formed
  <2>2. CASE x = n
    <3>1. v \in Seq(Range(v)) /\ v \in TypedTexts
      BY <2>1, <2>2, TypedAssumption DEF TypedTexts
    <3>2. Range(v) \subseteq TypedLines
      BY <3>1 DEF TypedLines
    <3>. HIDE DEF TypedLines
    <3>3. v \in Seq(TypedLines)
      BY <3>1, <3>2
    <3>. QED  BY <1>1, <2>1, <2>2, <3>3
  <2>3. CASE x # n
    BY <2>1, <2>3
  <2>. QED  BY <2>2, <2>3
<1>4. a = "start_bot" => g["referral_mode"] \in {"start", "startapp"}
  <2>1. n = "referral_mode" => v \in {"start", "startapp"}
    BY TypedAssumption
  <2>2. a = "start_bot" => f["referral_mode"] \in {"start", "startapp"}
    BY DEF Formed
  <2>3. CASE n = "referral_mode"
    BY <2>1, <2>2, <2>3
  <2>4. CASE n # "referral_mode"
    BY <2>2, <2>4
  <2>. QED  BY <2>3, <2>4
<1>. QED  BY <1>2, <1>3, <1>4 DEF Formed

-------------------------------------------------------------------------------
(* What the composer holds, sends and stores was made of a form.                *)

\* The drafts, and the steps that are made of them.
IsDraft(d) == /\ DOMAIN d = {"action", "target", "fields", "condition"}
              /\ Formed(d.action, d.fields)
StepOf(step, d) == IsDraft(d) /\ \E ids : step = Step(d, ids)
IsStep(step) == \E d : StepOf(step, d)
Stored(presets) == /\ DOMAIN presets = Presets
                   /\ \A p \in Presets : presets[p] # Nothing => IsStep(presets[p])
\* Whatever is under way, stored or accepted was made of a form.
InFlight ==
    /\ run.at # "none" => StepOf(run.step, run.of)
    /\ composing.op = "create" => StepOf(composing.step, composing.of)
    /\ composing.op = "save" => IsStep(composing.step)
Accounted == sent # Nothing => StepOf(sent.step, sent.of)
FInv == IsDraft(draft) /\ InFlight /\ Stored(saved) /\ Stored(offered) /\ Accounted

\* A preset is loaded as the step it was saved as, but for contested options.
Restored(p) ==
    LET old == offered[p]
        new == Step(draft', accts')
    IN /\ new.action = old.action /\ new.targets = old.targets
       /\ new.accounts = old.accounts
       /\ \A n \in Fields(old.action) :
              \/ Contested(old.message, n)
              \/ parse_options(new.action, new.message)[n] = parse_options(old.action, old.message)[n]
LEMMA PresetsReturn ==
    ASSUME FInv, NEW p \in Presets, LoadPreset(p)
    PROVE  IsDraft(draft') /\ Restored(p)
<1>1. PICK d, ids : IsDraft(d) /\ offered[p] = Step(d, ids)
  BY DEF LoadPreset, FInv, Stored, IsStep, StepOf
<1>. DEFINE a == d.action
            m == serializeFields(a, d.fields)
            g == deserializeFields(a, m)
            back == serializeFields(a, g)
<1>2. offered[p].action = a /\ offered[p].targets = Valid(d) /\ offered[p].accounts = ids
      /\ offered[p].message = m
  BY <1>1 DEF Step
<1>3. /\ Formed(a, g)
      /\ \A n \in Fields(a) :
             Contested(m, n) \/ parse_options(a, back)[n] = parse_options(a, m)[n]
  BY <1>1, SavedReads DEF IsDraft
<1>. HIDE DEF m, g, back
<1>4. draft' = [action |-> a, target |-> Valid(d), fields |-> g, condition |-> "none"]
      /\ accts' = ids
  BY <1>2 DEF LoadPreset, setActionDraft, g
<1>5. IsDraft(draft')
  BY <1>3, <1>4 DEF IsDraft
<1>6. Valid(draft') = Valid(d)
  BY <1>4 DEF Valid
<1>. DEFINE new == Step(draft', accts')
<1>7. new.action = a /\ new.targets = Valid(d) /\ new.accounts = ids /\ new.message = back
  BY <1>4, <1>6 DEF Step, back
<1>. HIDE DEF new, a
<1>8. Restored(p)
  BY <1>2, <1>3, <1>7 DEF Restored, new
<1>. QED  BY <1>5, <1>8

LEMMA FormsInit == ComposerInit => FInv
<1>1. SUFFICES ASSUME ComposerInit PROVE FInv
  OBVIOUS
<1>2. IsDraft(JoinDraft)
  BY FormsStart DEF IsDraft, JoinDraft, ActionTypes
<1>. QED  BY <1>1, <1>2 DEF ComposerInit, FInv, InFlight, Stored, Accounted, Idle, NoRequest

\* An edit of the draft leaves everything else that was made of a form alone.
LEMMA DraftStep ==
    ASSUME FInv, NEW d, setActionDraft(d), IsDraft(d), UNCHANGED offered
    PROVE  FInv'
BY DEF FInv, InFlight, Accounted, setActionDraft, Stale, server

LEMMA EditsForm == CInv /\ FInv /\ Edits => FInv'
<1>1. SUFFICES ASSUME CInv, FInv, Edits PROVE FInv'
  OBVIOUS
<1>0. IsDraft(draft)
  BY <1>1 DEF FInv
<1>2. ASSUME NEW a \in Actions, Pick(a) PROVE FInv'
  <2>. DEFINE d == [draft EXCEPT !.action = a, !.fields = carryFieldValues(a, draft.fields)]
  <2>1. a \in ActionTypes
    BY ActionsAssumption
  <2>2. IsDraft(d)
    BY <1>0, <2>1, FormsCarry DEF IsDraft
  <2>. QED  BY <1>1, <1>2, <2>2, DraftStep DEF Pick
<1>3. ASSUME NEW n \in DOMAIN Typed, NEW v \in Typed[n], Fill(n, v) PROVE FInv'
  <2>. DEFINE d == [draft EXCEPT !.fields[n] = v]
  <2>1. DOMAIN d = DOMAIN draft /\ d.action = draft.action
        /\ d.fields = [draft.fields EXCEPT ![n] = v]
    BY <1>0 DEF IsDraft
  <2>2. Formed(draft.action, [draft.fields EXCEPT ![n] = v])
    BY <1>0, FormsFill DEF IsDraft
  <2>3. IsDraft(d)
    BY <1>0, <2>1, <2>2 DEF IsDraft
  <2>. QED  BY <1>1, <1>3, <2>3, DraftStep DEF Fill
<1>4. ASSUME NEW ts, SetTargets(ts) PROVE FInv'
  <2>1. IsDraft([draft EXCEPT !.target = ts])
    BY <1>0 DEF IsDraft
  <2>. QED  BY <1>1, <1>4, <2>1, DraftStep DEF SetTargets
<1>5. ASSUME NEW c, SetCondition(c) PROVE FInv'
  <2>1. IsDraft([draft EXCEPT !.condition = c])
    BY <1>0 DEF IsDraft
  <2>. QED  BY <1>1, <1>5, <2>1, DraftStep DEF SetCondition
<1>6. ASSUME NEW ids, SetAccounts(ids) PROVE FInv'
  BY <1>1, <1>6 DEF FInv, InFlight, Accounted, SetAccounts, composer, server
<1>7. ASSUME NEW p \in Presets, LoadPreset(p) PROVE FInv'
  <2>1. IsDraft(draft')
    BY <1>1, <1>7, PresetsReturn
  <2>. QED  BY <1>1, <1>7, <2>1, DraftStep DEF LoadPreset, setActionDraft
<1>8. ASSUME NEW ts, NEW a, NEW schedule, Stage(ts, a, schedule) PROVE FInv'
  <2>1. IsDraft(draft')
    <3>1. CASE draft' = [draft EXCEPT !.target = ts]
      BY <1>0, <3>1 DEF IsDraft
    <3>2. CASE draft' = [action |-> "send_message", target |-> ts,
                         fields |-> defaultFieldValues("send_message"), condition |-> "none"]
      BY <3>2, FormsStart DEF IsDraft, ActionTypes
    <3>. QED  BY <1>8, <3>1, <3>2 DEF Stage
  <2>2. InFlight'
    BY <1>1, <1>8 DEF CInv, AnswerIsTagged, FInv, InFlight, Stage, Abandoned, Stale
  <2>. QED  BY <1>1, <1>8, <2>1, <2>2 DEF FInv, Accounted, Stage, server
<1>9. ASSUME NEW f, NEW nm, EditSchedule(f, nm) PROVE FInv'
  BY <1>1, <1>9 DEF FInv, InFlight, Accounted, EditSchedule, server
<1>. QED  BY <1>1, <1>2, <1>3, <1>4, <1>5, <1>6, <1>7, <1>8, <1>9 DEF Edits

\* Clicks take the draft as it is in the panel.
LEMMA ClicksForm == CInv /\ FInv /\ Clicks => FInv'
<1>1. SUFFICES ASSUME CInv, FInv, Clicks PROVE FInv'
  OBVIOUS
<1>. USE DEF Untouched, composer, server, FInv, InFlight, Accounted
<1>0. StepOf(Step(draft, accts), draft)
  BY <1>1 DEF StepOf
<1>. HIDE DEF Step
<1>2. CASE ClickRun
  BY <1>0, <1>1, <1>2 DEF ClickRun
<1>3. ASSUME NEW yes \in BOOLEAN, AnswerRun(yes) PROVE FInv'
  BY <1>1, <1>3 DEF AnswerRun, Idle
<1>4. CASE ClickPreview \/ ClickCreate \/ ClickSave
  <2>1. IsStep(Step(draft, accts))
    BY <1>0 DEF IsStep
  <2>. QED  BY <1>0, <1>1, <1>4, <2>1 DEF ClickPreview, ClickCreate, ClickSave
<1>5. ASSUME NEW p, ClickDelete(p) \/ AnswerName(p) PROVE FInv'
  BY <1>1, <1>5 DEF ClickDelete, AnswerName
<1>6. CASE AnswerDelete \/ Dismiss
  <2>1. composing'.op \notin {"create", "save"}
    BY <1>1, <1>6 DEF AnswerDelete, Dismiss, NoRequest, CInv, AnswerIsTagged
  <2>. QED  BY <1>1, <1>6, <2>1 DEF AnswerDelete, Dismiss
<1>7. CASE OpenModal \/ CloseModal
  BY <1>1, <1>7 DEF OpenModal, CloseModal
<1>. QED  BY <1>1, <1>2, <1>3, <1>4, <1>5, <1>6, <1>7 DEF Clicks

\* The server acts on what it was sent, and the presets are those it has stored.
LEMMA AnswersForm == CInv /\ FInv /\ (Answers \/ RunRefused \/ JobFails) => FInv'
<1>1. SUFFICES ASSUME CInv, FInv, Answers \/ RunRefused \/ JobFails PROVE FInv'
  OBVIOUS
<1>. USE DEF Untouched, composer, server, FInv, InFlight, Accounted
<1>2. CASE RunStarts
  BY <1>1, <1>2 DEF RunStarts, Idle
<1>3. CASE RunRefused
  BY <1>1, <1>3 DEF RunRefused, Idle
<1>4. CASE DatesLand \/ CreateEnds \/ JobFails
  <2>1. composing'.op = "none" /\ UNCHANGED <<draft, run, saved, offered, sent>>
    <3>1. CASE DatesLand
      BY <3>1 DEF DatesLand, NoRequest
    <3>2. CASE CreateEnds
      BY <3>2 DEF CreateEnds, NoRequest
    <3>3. CASE JobFails
      BY <3>3 DEF JobFails, NoRequest
    <3>. QED  BY <1>4, <3>1, <3>2, <3>3
  <2>. QED  BY <1>1, <2>1
<1>5. CASE CreateSucceeds
  <2>1. composing' = [composing EXCEPT !.at = "reload"] /\ DOMAIN composing' = DOMAIN composing
    BY <1>5 DEF CreateSucceeds
  <2>2. composing.op = "create" /\ StepOf(composing.step, composing.of)
    BY <1>1, <1>5 DEF CreateSucceeds
  <2>3. composing'.op = "create" /\ composing'.step = composing.step /\ composing'.of = composing.of
    BY <1>1, <2>1, <2>2 DEF CInv, AnswerIsTagged
  <2>4. InFlight'
    BY <1>1, <1>5, <2>2, <2>3 DEF CreateSucceeds
  <2>5. sent'.step = composing.step /\ sent'.of = composing.of
    BY <1>5 DEF CreateSucceeds
  <2>. QED  BY <1>1, <1>5, <2>2, <2>4, <2>5 DEF CreateSucceeds
<1>6. CASE PresetStored
  <2>1. composing'.op = composing.op /\ composing'.step = composing.step
        /\ composing.op \in {"save", "delete"}
    BY <1>1, <1>6 DEF PresetStored, CInv, AnswerIsTagged
  <2>2. Stored(saved')
    BY <1>1, <1>6 DEF PresetStored, Stored
  <2>. QED  BY <1>1, <1>6, <2>1, <2>2 DEF PresetStored
<1>7. CASE PresetsLand
  BY <1>1, <1>7 DEF PresetsLand, NoRequest
<1>. QED  BY <1>1, <1>2, <1>3, <1>4, <1>5, <1>6, <1>7 DEF Answers

LEMMA FormsInductive == ComposerSpec => []FInv
<1>2. FInv /\ UNCHANGED composerVars => FInv'
  BY DEF FInv, InFlight, Accounted, composerVars, composer, server
<1>3. CInv /\ FInv /\ [ComposerNext]_composerVars => FInv'
  BY <1>2, EditsForm, ClicksForm, AnswersForm DEF ComposerNext
<1>. QED  BY <1>3, FormsInit, ComposerInductive, PTL DEF ComposerSpec

\* The server reads in the message of every step it accepts what was typed in the form,
\* whatever lines were typed: for any actions, forms, edits and presets.
THEOREM TypedIsSent == ComposerSpec => []WhatIsTypedIsSent
<1>1. FInv => WhatIsTypedIsSent
  <2>1. SUFFICES ASSUME FInv, sent # Nothing
                 PROVE  parse_options(sent.step.action, sent.step.message) = Meant(sent.of)
    BY DEF WhatIsTypedIsSent
  <2>2. PICK ids : IsDraft(sent.of) /\ sent.step = Step(sent.of, ids)
    BY <2>1 DEF FInv, Accounted, StepOf
  <2>3. sent.step.action = sent.of.action
        /\ sent.step.message = serializeFields(sent.of.action, sent.of.fields)
    BY <2>2 DEF Step
  <2>4. Formed(sent.of.action, sent.of.fields)
    BY <2>2 DEF IsDraft
  <2>5. parse_options(sent.of.action, serializeFields(sent.of.action, sent.of.fields))
            = Meant(sent.of)
    BY <2>4, ServerReadsTheForm
  <2>. QED  BY <2>3, <2>5
<1>. QED  BY <1>1, FormsInductive, PTL

\* A preset that is loaded gives back the action that was saved, through any number of
\* savings and loadings: only an option that a line of the text contests can differ.
THEOREM PresetsRestore == ComposerSpec => PresetRestoresTheAction
<1>1. FInv => [\A p \in Presets : LoadPreset(p) => Restored(p)]_composerVars
  BY PresetsReturn
<1>. QED  BY <1>1, FormsInductive, PTL
          DEF ComposerSpec, PresetRestoresTheAction, Restored
===============================================================================
