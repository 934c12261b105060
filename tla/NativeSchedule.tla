--------------------------- MODULE NativeSchedule ---------------------------
(***************************************************************************)
(* The native engine of src/telemanager/schedules_service.py: schedules    *)
(* that Telegram delivers itself because the scheduler keeps a buffer of   *)
(* pre-scheduled messages in every chat.  The scheduler task (tick,        *)
(* _tick_native, _reconcile_native, _reconcile_chat), the endpoints that   *)
(* run beside it (create, update, delete with teardown_native,             *)
(* clear_scheduled), schedules.json, Telegram's side of the buffer, the    *)
(* clock, and the loss of the process.                                     *)
(*                                                                         *)
(* Everything runs on one event loop, so an action is the code between two *)
(* awaits.  Two locks order the actions: the scheduler's asyncio lock      *)
(* (schedLock) and the session lock of the account that owns the chats     *)
(* (session), the latter taken as SessionMutex specifies it.               *)
(*                                                                         *)
(* Abstractions.  All chats belong to one account.  A fire is its slot     *)
(* number and the clock counts slots; a slot is at least                   *)
(* NATIVE_RECONCILE_INTERVAL long, so a reconcile is due once per slot.    *)
(* Staggering, coverage_until and the warnings shown to the operator are   *)
(* left out.                                                               *)
(***************************************************************************)
EXTENDS Integers, FiniteSets, FiniteSetsExt, Functions

CONSTANTS
    Schedule,       \* uuids of the native schedules that may be created
    Target,         \* chats; every schedule sends to all of them
    Request,        \* concurrent DELETE requests
    NumFires,       \* end_count: the fires are slots 1 .. NumFires
    Limit,          \* TELEGRAM_SCHEDULED_PER_CHAT_LIMIT
    MaxTime,        \* bound: the clock stops here
    MaxId,          \* bound: message ids are 1 .. MaxId (see FreshId)
    MaxLost,        \* bound: no call fails and no process ends in a way that
                    \* loses ids once so many were lost
    Faults,         \* which calls may fail: a subset of FaultKinds
    ResumeDeleting, \* may a PATCH arrive for a schedule that is being deleted?
    Clears          \* may the operator clear a chat's scheduled messages?

FaultKinds == {"warm", "list", "create", "delete", "crash"}

ASSUME NativeAssumption ==
    /\ NumFires \in Nat \ {0}
    /\ Limit \in Nat \ {0}
    /\ MaxTime \in Nat
    /\ MaxId \in Nat \ {0}
    /\ MaxLost \in Nat
    /\ Faults \subseteq FaultKinds
    /\ ResumeDeleting \in BOOLEAN
    /\ Clears \in BOOLEAN

Fire == 1 .. NumFires
Id == 1 .. MaxId
Never == -1                             \* last_reconcile_at is None
Tracked == [id : Id, fire : Fire]       \* an item of native_chats[key]["ids"]
Message == [id : Id, fire : Fire, owner : Schedule]
Status == {"active", "paused", "error", "completed", "deleting"}
Record == [status : Status, ids : [Target -> SUBSET Tracked],
           lastRec : {Never} \cup 0 .. MaxTime]

VARIABLES
    disk,       \* schedules.json: a function on the ids of the stored schedules
    unborn,     \* uuids not handed out yet
    chat,       \* Telegram: the scheduled messages waiting in each chat
    now,        \* the clock
    schedLock,  \* who holds SchedulerService._lock across an await: the tick, or nobody
    session,    \* who holds the account's session lock
    tick,       \* locals of the running tick
    del,        \* locals of each DELETE request
    clr,        \* locals of clear_scheduled
    lost        \* ids that only a tick knew which did not save them (history)

vars == <<disk, unborn, chat, now, schedLock, session, tick, del, clr, lost>>

NoIds == [t \in Target |-> {}]
EmptyDict == [s \in {} |-> {}]
Idle == [pc |-> "idle"]
NoRequest == [pc |-> "idle", copy |-> NoIds]
IdsOf(items) == {m.id : m \in items}
HasTracked(ids) == \E t \in Target : ids[t] # {}

\* Telegram never reuses the id of a message somebody still remembers; an id
\* nobody remembers cannot be told from a new one, so the least is taken.
StoredIds == UNION {IdsOf(disk[s].ids[t]) : s \in DOMAIN disk, t \in Target}
CarriedIds ==
    (IF tick.pc = "idle" THEN {} ELSE
       UNION {IdsOf(tick.mem[s].ids[t]) : s \in DOMAIN tick.mem, t \in Target})
      \cup (IF tick.pc = "fill" THEN IdsOf(tick.tracked) ELSE {})
WaitingIds == UNION {IdsOf(chat[t]) : t \in Target}
DeletedIds == UNION {IdsOf(del[r].copy[t]) : r \in Request, t \in Target}
ClearedIds == IF clr.pc = "idle" THEN {} ELSE clr.ids
Remembered == WaitingIds \cup StoredIds \cup CarriedIds \cup DeletedIds \cup ClearedIds
MayLose == Cardinality(lost) < MaxLost
FreshId == Min(Id \ Remembered)

Init ==
    /\ disk = EmptyDict
    /\ unborn = Schedule
    /\ chat = NoIds
    /\ now = 0
    /\ schedLock = "none"
    /\ session = "none"
    /\ tick = Idle
    /\ del = [r \in Request |-> NoRequest]
    /\ clr = Idle
    /\ lost = {}

-----------------------------------------------------------------------------
(* POST and PATCH: one step under the scheduler lock.                      *)

Create(s) ==
    /\ s \in unborn
    /\ schedLock = "none"
    /\ unborn' = unborn \ {s}
    /\ disk' = [x \in DOMAIN disk \cup {s} |->
                  IF x = s THEN [status |-> "active", ids |-> NoIds, lastRec |-> Never]
                           ELSE disk[x]]
    /\ UNCHANGED <<chat, now, schedLock, session, tick, del, clr, lost>>

Update(s, status) ==
    /\ schedLock = "none"
    /\ s \in DOMAIN disk
    /\ disk[s].status # "completed"
    /\ disk[s].status = "deleting" => ResumeDeleting
    /\ disk' = [disk EXCEPT ![s].status = status]
    /\ UNCHANGED <<unborn, chat, now, schedLock, session, tick, del, clr, lost>>

-----------------------------------------------------------------------------
(* The scheduler task.  It holds schedLock from TickBegin to TickSave.     *)

TickBegin ==
    /\ tick.pc = "idle"
    /\ schedLock = "none"
    /\ schedLock' = "tick"
    /\ tick' = [pc |-> "next", now |-> now, mem |-> disk,
                todo |-> {s \in DOMAIN disk : disk[s].status = "active"}]
    /\ UNCHANGED <<disk, unborn, chat, now, session, del, clr, lost>>

\* The part of _tick_native after the reconcile, for the schedule as it is in
\* rec: it is completed when no slot is left after the tick's own clock.
AfterReconcile(rec) ==
    [rec EXCEPT !.status = IF tick.now >= NumFires THEN "completed" ELSE @]

TurnTo(s, rec) ==
    tick' = [pc |-> "next", now |-> tick.now, mem |-> [tick.mem EXCEPT ![s] = rec],
             todo |-> tick.todo \ {s}]

ReconcileDue(s) ==
    \/ tick.mem[s].lastRec = Never
    \/ tick.now - tick.mem[s].lastRec >= 1

\* Not due, or deferred because the session is in use: go on without awaiting.
TickSkip(s) ==
    /\ tick.pc = "next"
    /\ s \in tick.todo
    /\ ReconcileDue(s) => session # "none"
    /\ TurnTo(s, AfterReconcile(tick.mem[s]))
    /\ UNCHANGED <<disk, unborn, chat, now, schedLock, session, del, clr, lost>>

\* try_begin_exclusive succeeds; s is the schedule being reconciled from here on.
TickTake(s) ==
    /\ tick.pc = "next"
    /\ s \in tick.todo
    /\ ReconcileDue(s)
    /\ session = "none"
    /\ session' = "tick"
    /\ tick' = [pc |-> "warm", now |-> tick.now, mem |-> tick.mem, todo |-> tick.todo,
                s |-> s, chats |-> Target]
    /\ UNCHANGED <<disk, unborn, chat, now, schedLock, del, clr, lost>>

\* An account that cannot be warmed has its chats skipped for this round.
TickWarm ==
    /\ tick.pc = "warm"
    /\ \/ tick' = [tick EXCEPT !.pc = "chats"]
       \/ /\ "warm" \in Faults
          /\ tick' = [tick EXCEPT !.pc = "chats", !.chats = {}]
    /\ UNCHANGED <<disk, unborn, chat, now, schedLock, session, del, clr, lost>>

\* upcoming_fire_times: the soonest Limit slots after the tick's clock.
Desired == {f \in Fire : f > tick.now /\ f <= tick.now + Limit}

\* Mutant: a reconcile starts from an empty set of tracked ids.
ForgetsKept(s, t) == {}
KnownAlive(s, t) == {m \in tick.mem[s].ids[t] : m.id \in IdsOf(chat[t])}
Room(t) == Limit - Cardinality(chat[t])

TickList(t) ==
    /\ tick.pc = "chats"
    /\ t \in tick.chats
    /\ tick' = [pc |-> "fill", now |-> tick.now, mem |-> tick.mem, todo |-> tick.todo,
                s |-> tick.s, chats |-> tick.chats, t |-> t,
                tracked |-> KnownAlive(tick.s, t), room |-> Room(t)]
    /\ UNCHANGED <<disk, unborn, chat, now, schedLock, session, del, clr, lost>>

Missing == {f \in Desired : \A m \in tick.tracked : m.fire # f}

\* One _create_native.
TickCreate ==
    /\ tick.pc = "fill"
    /\ Missing # {}
    /\ tick.room > 0
    /\ Id \ Remembered # {}    \* bound
    /\ LET fire == Min(Missing) IN
         /\ chat' = [chat EXCEPT ![tick.t] = @ \cup {[id |-> FreshId, fire |-> fire, owner |-> tick.s]}]
         /\ tick' = [tick EXCEPT !.tracked = @ \cup {[id |-> FreshId, fire |-> fire]},
                                 !.room = @ - 1]
    /\ lost' = lost \ {FreshId}    \* an id Telegram could give again is a new one
    /\ UNCHANGED <<disk, unborn, now, schedLock, session, del, clr>>

TickChatDone ==
    /\ tick.pc = "fill"
    /\ Missing = {} \/ tick.room <= 0
    /\ tick' = [pc |-> "chats", now |-> tick.now, todo |-> tick.todo, s |-> tick.s,
                mem |-> [tick.mem EXCEPT ![tick.s].ids[tick.t] = tick.tracked],
                chats |-> tick.chats \ {tick.t}]
    /\ UNCHANGED <<disk, unborn, chat, now, schedLock, session, del, clr, lost>>

TickReconciled ==
    /\ tick.pc = "chats"
    /\ tick.chats = {}
    /\ session' = "none"
    /\ TurnTo(tick.s, AfterReconcile([tick.mem[tick.s] EXCEPT !.lastRec = tick.now]))
    /\ UNCHANGED <<disk, unborn, chat, now, schedLock, del, clr, lost>>

\* An exception in _reconcile_chat: the ids it collected are dropped with its
\* frame, the session is released in the finally, the schedule becomes "error".
TickFails ==
    /\ \/ tick.pc = "chats" /\ tick.chats # {} /\ "list" \in Faults
       \/ tick.pc = "fill" /\ Missing # {} /\ tick.room > 0 /\ "create" \in Faults /\ MayLose
    /\ session' = "none"
    /\ TurnTo(tick.s, [tick.mem[tick.s] EXCEPT !.status = "error"])
    /\ lost' = IF tick.pc = "fill" THEN lost \cup (IdsOf(tick.tracked) \ StoredIds) ELSE lost
    /\ UNCHANGED <<disk, unborn, chat, now, schedLock, del, clr>>

\* The whole mapping is written back; when nothing is dirty it equals disk.
TickSave ==
    /\ tick.pc = "next"
    /\ tick.todo = {}
    /\ disk' = tick.mem
    /\ schedLock' = "none"
    /\ tick' = Idle
    /\ UNCHANGED <<unborn, chat, now, session, del, clr, lost>>

-----------------------------------------------------------------------------
(* DELETE: tombstone under the lock, teardown beside it, removal under it. *)

Forget(s) == Restrict(disk, DOMAIN disk \ {s})

DeleteBegin(r, s) ==
    /\ del[r].pc = "idle"
    /\ schedLock = "none"
    /\ s \in DOMAIN disk
    /\ IF HasTracked(disk[s].ids)
         THEN /\ disk' = [disk EXCEPT ![s].status = "deleting"]
              /\ del' = [del EXCEPT ![r] = [pc |-> "guard", s |-> s, copy |-> disk[s].ids]]
         ELSE /\ disk' = Forget(s)
              /\ UNCHANGED del
    /\ UNCHANGED <<unborn, chat, now, schedLock, session, tick, clr, lost>>

\* session_guard waits for the session.
DeleteGuard(r) ==
    /\ del[r].pc = "guard"
    /\ session = "none"
    /\ session' = r
    /\ del' = [del EXCEPT ![r].pc = "chats"]
    /\ UNCHANGED <<disk, unborn, chat, now, schedLock, tick, clr, lost>>

Without(t, ids) == [chat EXCEPT ![t] = {m \in @ : m.id \notin ids}]

\* The entry's ids are emptied once Telegram's delete call has returned.
DeleteChat(r, t) ==
    /\ del[r].pc = "chats"
    /\ del[r].copy[t] # {}
    /\ chat' = Without(t, IdsOf(del[r].copy[t]))
    /\ del' = [del EXCEPT ![r].copy[t] = {}]
    /\ UNCHANGED <<disk, unborn, now, schedLock, session, tick, clr, lost>>

DeleteTornDown(r) ==
    /\ del[r].pc = "chats"
    /\ ~HasTracked(del[r].copy)
    /\ session' = "none"
    /\ del' = [del EXCEPT ![r].pc = "commit"]
    /\ UNCHANGED <<disk, unborn, chat, now, schedLock, tick, clr, lost>>

\* Mutant: an account that cannot be warmed counts as cleaned up.
FailureCountsAsDone(r) ==
    /\ del[r].pc = "chats"
    /\ "warm" \in Faults /\ HasTracked(del[r].copy)
    /\ session' = "none"
    /\ del' = [del EXCEPT ![r].pc = "commit"]
    /\ UNCHANGED <<disk, unborn, chat, now, schedLock, tick, clr, lost>>

\* Mutant: a failed teardown does not release the session.
FailureKeepsSession(r) ==
    /\ del[r].pc = "chats"
    /\ "warm" \in Faults /\ HasTracked(del[r].copy)
    /\ del' = [del EXCEPT ![r].pc = "retain"]
    /\ UNCHANGED <<disk, unborn, chat, now, schedLock, session, tick, clr, lost>>

\* The account cannot be warmed, or the delete call raises, before or after
\* Telegram carried it out.
DeleteFails(r) ==
    /\ del[r].pc = "chats"
    /\ \E t \in Target :
         /\ del[r].copy[t] # {}
         /\ \/ "warm" \in Faults /\ UNCHANGED chat
            \/ "delete" \in Faults /\ chat' \in {chat, Without(t, IdsOf(del[r].copy[t]))}
    /\ session' = "none"
    /\ del' = [del EXCEPT ![r].pc = "retain"]
    /\ UNCHANGED <<disk, unborn, now, schedLock, tick, clr, lost>>

\* Phase 3: the stored native_chats are replaced by the request's own copy.
DeleteCommit(r) ==
    /\ del[r].pc = "commit"
    /\ schedLock = "none"
    /\ disk' = Forget(del[r].s)     \* also when the schedule disappeared (409)
    /\ del' = [del EXCEPT ![r] = NoRequest]
    /\ UNCHANGED <<unborn, chat, now, schedLock, session, tick, clr, lost>>

\* Mutant: a failed deletion keeps the tombstone and forgets the ids.
RetainsNoIds(r) ==
    /\ del[r].pc = "retain"
    /\ schedLock = "none"
    /\ disk' = [s \in DOMAIN disk |->
                  IF s = del[r].s THEN [disk[s] EXCEPT !.status = "deleting", !.ids = NoIds]
                                  ELSE disk[s]]
    /\ del' = [del EXCEPT ![r] = NoRequest]
    /\ UNCHANGED <<unborn, chat, now, schedLock, session, tick, clr, lost>>

Tombstone(rec, ids) == [rec EXCEPT !.status = "deleting", !.ids = ids]
\* _retain_delete_failure: keep the tombstone so that DELETE can be retried.
DeleteRetain(r) ==
    /\ del[r].pc = "retain"
    /\ schedLock = "none"
    /\ disk' = [s \in DOMAIN disk |->
                  IF s = del[r].s THEN Tombstone(disk[s], del[r].copy) ELSE disk[s]]
    /\ del' = [del EXCEPT ![r] = NoRequest]
    /\ UNCHANGED <<unborn, chat, now, schedLock, session, tick, clr, lost>>

-----------------------------------------------------------------------------
(* clear_scheduled: fetch and delete inside temp_client, prune afterwards. *)

\* All of a chat's messages (ids is None), or one the operator picked.
ClearBegin(t) ==
    /\ Clears
    /\ clr.pc = "idle"
    /\ session = "none"
    /\ session' = "clear"
    /\ \E ids \in {IdsOf(chat[t])} \cup {{i} : i \in IdsOf(chat[t])} :
         clr' = [pc |-> "delete", t |-> t, ids |-> ids]
    /\ UNCHANGED <<disk, unborn, chat, now, schedLock, tick, del, lost>>

ClearDelete ==
    /\ clr.pc = "delete"
    /\ chat' = Without(clr.t, clr.ids)
    /\ clr' = [clr EXCEPT !.pc = "prune"]
    /\ session' = "none"
    /\ UNCHANGED <<disk, unborn, now, schedLock, tick, del, lost>>

ClearFails ==
    /\ clr.pc = "delete"
    /\ "delete" \in Faults
    /\ chat' \in {chat, Without(clr.t, clr.ids)}
    /\ clr' = Idle
    /\ session' = "none"
    /\ UNCHANGED <<disk, unborn, now, schedLock, tick, del, lost>>

\* Mutant: clearing some messages forgets every id of the chat.
PrunesWholeChat ==
    /\ clr.pc = "prune"
    /\ schedLock = "none"
    /\ disk' = [s \in DOMAIN disk |-> [disk[s] EXCEPT !.ids[clr.t] = {}]]
    /\ clr' = Idle
    /\ UNCHANGED <<unborn, chat, now, schedLock, session, tick, del, lost>>

prune_local_native_ids(rec, t, ids) ==
    [rec EXCEPT !.ids[t] = {m \in @ : m.id \notin ids}]
\* Every stored schedule is pruned.
ClearPrune ==
    /\ clr.pc = "prune"
    /\ schedLock = "none"
    /\ disk' = [s \in DOMAIN disk |-> prune_local_native_ids(disk[s], clr.t, clr.ids)]
    /\ clr' = Idle
    /\ UNCHANGED <<unborn, chat, now, schedLock, session, tick, del, lost>>

-----------------------------------------------------------------------------
(* Telegram, the clock, and the process.                                   *)

Deliver(t) ==
    /\ \E m \in chat[t] : m.fire <= now /\ chat' = [chat EXCEPT ![t] = @ \ {m}]
    /\ UNCHANGED <<disk, unborn, now, schedLock, session, tick, del, clr, lost>>

Clock ==
    /\ now < MaxTime
    /\ now' = now + 1
    /\ UNCHANGED <<disk, unborn, chat, schedLock, session, tick, del, clr, lost>>

\* The process ends (stop() cancels the tick, whose frame is lost the same way)
\* and is started again: only schedules.json and Telegram's chats remain.
Crash ==
    /\ "crash" \in Faults /\ MayLose
    /\ schedLock' = "none"
    /\ session' = "none"
    /\ tick' = Idle
    /\ del' = [r \in Request |-> NoRequest]
    /\ clr' = Idle
    /\ lost' = lost \cup (CarriedIds \ StoredIds)
    /\ UNCHANGED <<disk, unborn, chat, now>>

-----------------------------------------------------------------------------
TickStep ==
    \/ TickBegin \/ TickWarm \/ TickCreate \/ TickChatDone \/ TickReconciled
    \/ TickFails \/ TickSave
    \/ \E s \in Schedule : TickSkip(s) \/ TickTake(s)
    \/ \E t \in Target : TickList(t)

DeleteStep(r) ==
    \/ DeleteGuard(r) \/ DeleteTornDown(r) \/ DeleteFails(r) \/ DeleteCommit(r) \/ DeleteRetain(r)
    \/ \E t \in Target : DeleteChat(r, t)

ClearStep == ClearDelete \/ ClearFails \/ ClearPrune

Operator ==
    \/ \E s \in Schedule : Create(s)
    \/ \E s \in Schedule, status \in {"active", "paused"} : Update(s, status)
    \/ \E r \in Request, s \in Schedule : DeleteBegin(r, s)
    \/ \E t \in Target : ClearBegin(t)

World == Clock \/ Crash \/ \E t \in Target : Deliver(t)

Next ==
    \/ TickStep
    \/ \E r \in Request : DeleteStep(r)
    \/ ClearStep
    \/ Operator
    \/ World

Spec == Init /\ [][Next]_vars

\* The event loop keeps running what is ready; asyncio locks are handed over in
\* the order of the waiters, so nobody who waits for one is passed over for ever.
Fairness ==
    /\ WF_vars(TickStep)
    /\ \A r \in Request : SF_vars(DeleteStep(r))
    /\ SF_vars(ClearStep)

FairSpec == Spec /\ Fairness

-----------------------------------------------------------------------------
(* Properties.                                                             *)

Locals ==
    [pc : {"idle"}]
      \cup [pc : {"next"}, now : 0 .. MaxTime, mem : [DOMAIN disk -> Record], todo : SUBSET DOMAIN disk]
      \cup [pc : {"warm", "chats"}, now : 0 .. MaxTime, mem : [DOMAIN disk -> Record],
            todo : SUBSET DOMAIN disk, s : DOMAIN disk, chats : SUBSET Target]
      \cup [pc : {"fill"}, now : 0 .. MaxTime, mem : [DOMAIN disk -> Record],
            todo : SUBSET DOMAIN disk, s : DOMAIN disk, chats : SUBSET Target,
            t : Target, tracked : SUBSET Tracked, room : Int]

Deletion == [pc : {"guard", "chats", "commit", "retain"}, s : Schedule,
             copy : [Target -> SUBSET Tracked]]

\* Every variable has its type.
TypeOK ==
    /\ DOMAIN disk \subseteq Schedule
    /\ disk \in [DOMAIN disk -> Record]
    /\ unborn \subseteq Schedule \ DOMAIN disk
    /\ chat \in [Target -> SUBSET Message] /\ \A t \in Target : IsFiniteSet(chat[t])
    /\ now \in 0 .. MaxTime
    /\ schedLock \in {"none", "tick"}
    /\ tick \in Locals
    /\ session \in {"none", "tick", "clear"} \cup Request
    /\ del \in [Request -> {NoRequest} \cup Deletion]
    /\ clr \in [pc : {"idle"}] \cup [pc : {"delete", "prune"}, t : Target, ids : SUBSET Id]
    /\ lost \subseteq Id

OnDisk(m, t) ==
    /\ m.owner \in DOMAIN disk
    /\ [id |-> m.id, fire |-> m.fire] \in disk[m.owner].ids[t]

InTick(m, t) ==
    /\ tick.pc # "idle"
    /\ m.owner \in DOMAIN tick.mem
    /\ \/ [id |-> m.id, fire |-> m.fire] \in tick.mem[m.owner].ids[t]
       \/ /\ tick.pc = "fill"
          /\ tick.s = m.owner
          /\ tick.t = t
          /\ [id |-> m.id, fire |-> m.fire] \in tick.tracked

\* Every message waiting at Telegram is known to the program: schedules.json
\* lists it, or the running tick carries it and has still to save.  The one way
\* to lose track of a message is a tick that failed or was cut off before saving.
Known(m, t) == OnDisk(m, t) \/ InTick(m, t) \/ m.id \in lost
NothingUntracked == \A t \in Target : \A m \in chat[t] : Known(m, t)

\* docs/ARCHITECTURE.md:118: deleting a native schedule removes the messages it
\* created.  Whatever is still waiting belongs to a schedule that still exists,
\* however deletions, ticks, clears and failed calls interleave, unless a tick
\* lost it.
DeletedLeavesNothing ==
    \A t \in Target : \A m \in chat[t] : m.owner \in DOMAIN disk \/ m.id \in lost

\* A fire is waiting at most once in a chat, although every reconcile recomputes
\* what is missing from Telegram's list and from what it remembers; a fire is
\* only repeated for a message that a tick lost.
OnePendingPerFire ==
    \A t \in Target : \A m, n \in chat[t] :
      (m.owner = n.owner /\ m.fire = n.fire /\ {m.id, n.id} \cap lost = {}) => m = n

\* plans/014: no removal, retry or crash makes schedules.json forget a message
\* it listed while the message is still waiting at Telegram.
TrackedNeverDropped ==
    [][\A t \in Target : \A m \in chat[t] \cap chat'[t] : OnDisk(m, t) => OnDisk(m, t)']_vars

\* No request waits for ever on the two locks, whatever fails.
RequestsAnswered ==
    /\ \A r \in Request : del[r].pc # "idle" ~> del[r].pc = "idle"
    /\ clr.pc # "idle" ~> clr.pc = "idle"
=============================================================================
