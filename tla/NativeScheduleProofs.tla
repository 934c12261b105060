------------------------ MODULE NativeScheduleProofs ------------------------
(* Proofs about NativeSchedule, for any schedules, chats, requests and bounds.  *)
EXTENDS NativeSchedule, FiniteSetTheorems, WellFoundedInduction, TLAPS

(* The parts of the inductive invariant.  A message is listed by its id and its *)
(* fire.                                                                        *)
Item(m) == [id |-> m.id, fire |-> m.fire]
Ticking == tick.pc # "idle"
Reconciling == tick.pc \in {"warm", "chats", "fill"}
InMem(m, t) == m.owner \in DOMAIN tick.mem /\ Item(m) \in tick.mem[m.owner].ids[t]

(* The scheduler lock is held by the tick, and keeps everybody else from the    *)
(* file; the tick leaves alone what is not active.                              *)
LockIsTicks == schedLock = "tick" <=> Ticking
LeavesTheRest ==
    Ticking => \A s \in DOMAIN disk : disk[s].status # "active" =>
        s \notin tick.todo /\ tick.mem[s] = disk[s] /\ (Reconciling => s # tick.s)

(* What the tick carries covers every waiting message, even without the file:   *)
(* it is written back.  Under the call for a chat, the ids it collects do.      *)
CarriesAll ==
    Ticking => \A t \in Target : \A m \in chat[t] :
        /\ InTick(m, t) \/ m.id \in lost
        /\ OnDisk(m, t) => InMem(m, t)
CollectsAll ==
    tick.pc = "fill" => \A m \in chat[tick.t] :
        m.owner = tick.s /\ InMem(m, tick.t) => Item(m) \in tick.tracked
(* What the tick carries and the file does not list is known to the tick alone. *)
NewIsNew ==
    /\ Ticking => \A s \in DOMAIN disk, t \in Target : \A i \in tick.mem[s].ids[t] :
         i \in disk[s].ids[t] \/ i.id \notin StoredIds
    /\ tick.pc = "fill" => \A i \in tick.tracked :
         i \in tick.mem[tick.s].ids[tick.t] \/ i.id \notin StoredIds

(* A deletion under way keeps the tombstone, and its copy lists what the file   *)
(* lists of the messages that are waiting.                                      *)
TombstoneHolds ==
    \A r \in Request : del[r].pc # "idle" =>
        /\ del[r].s \notin unborn
        /\ del[r].s \in DOMAIN disk => disk[del[r].s].status = "deleting"
        /\ del[r].pc = "commit" => ~HasTracked(del[r].copy)
CopyAgrees ==
    \A r \in Request : del[r].pc # "idle" => \A t \in Target : \A m \in chat[t] :
        m.owner = del[r].s /\ m.owner \in DOMAIN disk =>
            (OnDisk(m, t) <=> Item(m) \in del[r].copy[t])
PrunedIsGone == clr.pc = "prune" => \A m \in chat[clr.t] : m.id \notin clr.ids

Locks == LockIsTicks /\ LeavesTheRest
Carried == CarriesAll /\ CollectsAll /\ NewIsNew
Deleting == TombstoneHolds /\ CopyAgrees /\ PrunedIsGone
Safe == NothingUntracked /\ Locks /\ Carried
IInv == TypeOK /\ Safe /\ Deleting

-----------------------------------------------------------------------------
(* Ids.                                                                         *)

LEMMA MinIsIn == ASSUME NEW S \in SUBSET Nat, S # {} PROVE Min(S) \in S
<1>1. PICK n \in S : \A y \in S : ~ (<<y, n>> \in OpToRel(<, Nat))
  BY NatLessThanWellFounded, WFMin, Zenon
<1>2. \A y \in S : ~ (y < n)
  BY <1>1 DEF OpToRel
<1>3. \A y \in S : n <= y
  BY <1>2
<1>. QED  BY <1>3 DEF Min

LEMMA FreshIdIsFree == ASSUME Id \ Remembered # {} PROVE FreshId \in Id \ Remembered
<1>1. Id \ Remembered \in SUBSET Nat
  BY NativeAssumption DEF Id
<1>. QED  BY <1>1, MinIsIn DEF FreshId

LEMMA CarriedInMemory ==
    ASSUME tick.pc # "idle", NEW s \in DOMAIN tick.mem, NEW t \in Target
    PROVE  IdsOf(tick.mem[s].ids[t]) \subseteq CarriedIds
<1>1. IdsOf(tick.mem[s].ids[t]) \subseteq
        UNION {IdsOf(tick.mem[q].ids[u]) : q \in DOMAIN tick.mem, u \in Target}
  OBVIOUS
<1>. QED  BY <1>1 DEF CarriedIds

LEMMA FreshIdIsNew ==
    ASSUME Id \ Remembered # {}
    PROVE  /\ \A t \in Target : \A m \in chat[t] : m.id # FreshId
           /\ FreshId \notin StoredIds
           /\ tick.pc # "idle" => \A s \in DOMAIN tick.mem, t \in Target :
                \A i \in tick.mem[s].ids[t] : i.id # FreshId
           /\ tick.pc = "fill" => \A i \in tick.tracked : i.id # FreshId
           /\ \A r \in Request, t \in Target : \A i \in del[r].copy[t] : i.id # FreshId
           /\ clr.pc # "idle" => FreshId \notin clr.ids
<1>. DEFINE f == FreshId
<1>1. f \notin Remembered
  BY FreshIdIsFree
<1>. HIDE DEF f
<1>2. /\ f \notin WaitingIds /\ f \notin StoredIds /\ f \notin CarriedIds
      /\ f \notin DeletedIds /\ f \notin ClearedIds
  BY <1>1 DEF Remembered
<1>3. \A t \in Target : IdsOf(chat[t]) \subseteq WaitingIds
  BY DEF WaitingIds
<1>4. \A r \in Request, t \in Target : IdsOf(del[r].copy[t]) \subseteq DeletedIds
  BY DEF DeletedIds
<1>5. clr.pc # "idle" => f \notin clr.ids
  BY <1>2 DEF ClearedIds
<1>6. tick.pc # "idle" => \A s \in DOMAIN tick.mem, t \in Target : f \notin IdsOf(tick.mem[s].ids[t])
  BY <1>2, CarriedInMemory
<1>7. tick.pc = "fill" => f \notin IdsOf(tick.tracked)
  BY <1>2 DEF CarriedIds
<1>8. \A S : \A i \in S : i.id \in IdsOf(S)
  BY DEF IdsOf
<1>. QED  BY <1>3, <1>4, <1>5, <1>6, <1>7, <1>8, <1>2 DEF f

LEMMA StoredIdIsStored ==
    ASSUME NEW s \in DOMAIN disk, NEW t \in Target, NEW i \in disk[s].ids[t]
    PROVE  i.id \in StoredIds
<1>1. i.id \in IdsOf(disk[s].ids[t])
  BY DEF IdsOf
<1>. QED  BY <1>1 DEF StoredIds

-----------------------------------------------------------------------------
(* Types.                                                                       *)

LEMMA WithoutRemoves ==
    ASSUME TypeOK, NEW t \in Target, NEW ids
    PROVE  /\ Without(t, ids) \in [Target -> SUBSET Message]
           /\ \A u \in Target : Without(t, ids)[u] \subseteq chat[u] /\ IsFiniteSet(Without(t, ids)[u])
           /\ \A m \in chat[t] : m \in Without(t, ids)[t] <=> m.id \notin ids
           /\ \A u \in Target \ {t} : Without(t, ids)[u] = chat[u]
<1>. DEFINE W == Without(t, ids)
<1>1. chat \in [Target -> SUBSET Message] /\ \A u \in Target : IsFiniteSet(chat[u])
  BY DEF TypeOK
<1>2. W \in [Target -> SUBSET Message]
  BY <1>1 DEF Without
<1>3. \A m \in chat[t] : m \in W[t] <=> m.id \notin ids
  BY <1>1 DEF Without
<1>4. \A u \in Target \ {t} : W[u] = chat[u]
  BY <1>1 DEF Without
<1>5. \A u \in Target : W[u] \subseteq chat[u]
  BY <1>1 DEF Without
<1>6. \A u \in Target : IsFiniteSet(W[u])
  BY <1>1, <1>5, FS_Subset
<1>. HIDE DEF W
<1>7. \A u \in Target : W[u] \subseteq chat[u] /\ IsFiniteSet(W[u])
  BY <1>5, <1>6
<1>. QED  BY <1>2, <1>3, <1>4, <1>7 DEF W

(* What a tick carries, in each of its stages.                                  *)
LEMMA TickShape ==
    ASSUME TypeOK
    PROVE  /\ Ticking => /\ tick.now \in 0..MaxTime /\ tick.mem \in [DOMAIN disk -> Record]
                         /\ tick.todo \subseteq DOMAIN disk
           /\ Reconciling => tick.s \in DOMAIN disk /\ tick.chats \subseteq Target
           /\ tick.pc = "fill" => tick.t \in Target /\ tick.tracked \subseteq Tracked
                                   /\ tick.room \in Int
           /\ tick.pc \in {"idle", "next", "warm", "chats", "fill"}
  BY DEF TypeOK, Locals, Ticking, Reconciling

LEMMA NextStage ==
    ASSUME NEW time \in 0..MaxTime, NEW mem \in [DOMAIN disk -> Record],
           NEW todo \in SUBSET DOMAIN disk
    PROVE  [pc |-> "next", now |-> time, mem |-> mem, todo |-> todo] \in Locals
  BY DEF Locals

LEMMA ChatsStage ==
    ASSUME NEW time \in 0..MaxTime, NEW mem \in [DOMAIN disk -> Record],
           NEW todo \in SUBSET DOMAIN disk, NEW s \in DOMAIN disk, NEW chats \in SUBSET Target,
           NEW pc \in {"warm", "chats"}
    PROVE  [pc |-> pc, now |-> time, mem |-> mem, todo |-> todo, s |-> s, chats |-> chats] \in Locals
  BY DEF Locals

LEMMA RecordsKept ==
    ASSUME NEW mem \in [DOMAIN disk -> Record], NEW s \in DOMAIN disk, NEW rec \in Record
    PROVE  [mem EXCEPT ![s] = rec] \in [DOMAIN disk -> Record]
  OBVIOUS

LEMMA AfterIsRecord ==
    ASSUME NEW rec \in Record
    PROVE  AfterReconcile(rec) \in Record /\ AfterReconcile(rec).ids = rec.ids
  BY DEF AfterReconcile, Record, Status

LEMMA TurnToType ==
    ASSUME TypeOK, Ticking, NEW s \in DOMAIN disk, NEW rec \in Record, TurnTo(s, rec)
    PROVE  tick' \in Locals
<1>1. [tick.mem EXCEPT ![s] = rec] \in [DOMAIN disk -> Record]
  BY TickShape, RecordsKept
<1>. QED  BY <1>1, TickShape, NextStage DEF TurnTo

LEMMA FieldTypes ==
    ASSUME NEW rec \in Record
    PROVE  /\ \A st \in Status : [rec EXCEPT !.status = st] \in Record
           /\ \A time \in 0..MaxTime : [rec EXCEPT !.lastRec = time] \in Record
           /\ \A ids \in [Target -> SUBSET Tracked] : [rec EXCEPT !.ids = ids] \in Record
           /\ rec.ids \in [Target -> SUBSET Tracked]
  BY DEF Record

LEMMA RetainedRecord ==
    ASSUME NEW rec \in Record, NEW ids \in [Target -> SUBSET Tracked]
    PROVE  /\ Tombstone(rec, ids) \in Record
           /\ Tombstone(rec, ids).ids = ids /\ Tombstone(rec, ids).status = "deleting"
<1>1. [rec EXCEPT !.status = "deleting"] \in Record
  BY FieldTypes DEF Status
<1>2. [[rec EXCEPT !.status = "deleting"] EXCEPT !.ids = ids] \in Record
  BY <1>1, FieldTypes
<1>. QED  BY <1>1, <1>2 DEF Tombstone, Record

LEMMA PrunedRecord ==
    ASSUME NEW rec \in Record, NEW t \in Target, NEW ids
    PROVE  /\ prune_local_native_ids(rec, t, ids) \in Record
           /\ prune_local_native_ids(rec, t, ids).status = rec.status
           /\ \A u \in Target : \A i : i \in prune_local_native_ids(rec, t, ids).ids[u]
                <=> i \in rec.ids[u] /\ (u = t => i.id \notin ids)
<1>. DEFINE left == [rec.ids EXCEPT ![t] = {m \in @ : m.id \notin ids}]
<1>1. left \in [Target -> SUBSET Tracked]
  BY FieldTypes
<1>2. [rec EXCEPT !.ids = left] \in Record
  BY <1>1, FieldTypes
<1>3. prune_local_native_ids(rec, t, ids) = [rec EXCEPT !.ids = left]
  BY DEF prune_local_native_ids
<1>4. [rec EXCEPT !.ids = left].ids = left /\ [rec EXCEPT !.ids = left].status = rec.status
  BY DEF Record
<1>5. \A u \in Target : \A i : i \in left[u] <=> i \in rec.ids[u] /\ (u = t => i.id \notin ids)
  BY FieldTypes
<1>. HIDE DEF left
<1>. QED  BY <1>2, <1>3, <1>4, <1>5

LEMMA MarkedFile ==
    ASSUME TypeOK, NEW s \in DOMAIN disk, NEW st \in Status
    PROVE  [disk EXCEPT ![s].status = st] \in [DOMAIN disk -> Record]
<1>1. disk[s] \in Record
  BY DEF TypeOK
<1>2. [disk[s] EXCEPT !.status = st] \in Record
  BY <1>1, FieldTypes
<1>3. [disk EXCEPT ![s] = [disk[s] EXCEPT !.status = st]] \in [DOMAIN disk -> Record]
  BY <1>2 DEF TypeOK
<1>. QED  BY <1>3

LEMMA NoIdsType == NoIds \in [Target -> SUBSET Tracked]
  BY DEF NoIds

LEMMA TickTypes ==
    ASSUME TypeOK, TickStep
    PROVE  TypeOK'
<1>. USE DEF Ticking, Reconciling
<1>1. CASE TickBegin
  <2>1. tick' \in Locals
    BY <1>1, NextStage DEF TickBegin, TypeOK
  <2>. QED  BY <1>1, <2>1 DEF TickBegin, TypeOK, Locals
<1>2. CASE TickWarm
  <2>1. tick' \in Locals
    BY <1>2, TickShape DEF TickWarm, TypeOK, Locals
  <2>. QED  BY <1>2, <2>1 DEF TickWarm, TypeOK, Locals
<1>3. CASE TickCreate
  <2>. DEFINE new == [id |-> FreshId, fire |-> Min(Missing), owner |-> tick.s]
              item == [id |-> FreshId, fire |-> Min(Missing)]
  <2>1. /\ tick.pc = "fill" /\ FreshId \in Id /\ Min(Missing) \in Fire
        /\ tick.t \in Target /\ tick.s \in DOMAIN disk
        /\ tick.tracked \in SUBSET Tracked /\ tick.room \in Int
    <3>1. Missing \in SUBSET Nat /\ Missing # {} /\ Missing \subseteq Fire
      BY <1>3, NativeAssumption DEF TickCreate, Missing, Desired, Fire
    <3>2. Min(Missing) \in Fire
      BY <3>1, MinIsIn
    <3>. QED  BY <1>3, <3>2, FreshIdIsFree, TickShape DEF TickCreate
  <2>2. new \in Message /\ item \in Tracked
    BY <2>1 DEF Message, Tracked, TypeOK
  <2>3. /\ chat' = [chat EXCEPT ![tick.t] = @ \cup {new}]
        /\ tick' = [tick EXCEPT !.tracked = @ \cup {item}, !.room = @ - 1]
    BY <1>3 DEF TickCreate
  <2>. HIDE DEF new, item
  <2>4. chat' \in [Target -> SUBSET Message] /\ \A t \in Target : IsFiniteSet(chat'[t])
    BY <2>1, <2>2, <2>3, FS_AddElement DEF TypeOK
  <2>5. tick' \in Locals
    <3>. DEFINE Filling == [pc : {"fill"}, now : 0 .. MaxTime, mem : [DOMAIN disk -> Record],
                            todo : SUBSET DOMAIN disk, s : DOMAIN disk, chats : SUBSET Target,
                            t : Target, tracked : SUBSET Tracked, room : Int]
    <3>1. tick \in Filling /\ Filling \subseteq Locals
      BY <2>1 DEF TypeOK, Locals
    <3>2. tick.tracked \cup {item} \in SUBSET Tracked /\ tick.room - 1 \in Int
      BY <2>1, <2>2
    <3>3. tick' \in Filling
      BY <2>3, <3>1, <3>2
    <3>. QED  BY <3>1, <3>3
  <2>. QED  BY <1>3, <2>4, <2>5 DEF TickCreate, TypeOK, Locals
<1>4. CASE TickChatDone
  <2>1. [tick.mem EXCEPT ![tick.s].ids[tick.t] = tick.tracked] \in [DOMAIN disk -> Record]
    BY <1>4, TickShape DEF TickChatDone, Record
  <2>2. tick' \in Locals
    BY <1>4, <2>1, TickShape, ChatsStage DEF TickChatDone
  <2>. QED  BY <1>4, <2>2 DEF TickChatDone, TypeOK, Locals
<1>5. CASE TickReconciled
  <2>. DEFINE rec == [tick.mem[tick.s] EXCEPT !.lastRec = tick.now]
  <2>1. tick.mem[tick.s] \in Record /\ tick.now \in 0..MaxTime /\ tick.s \in DOMAIN disk
    BY <1>5, TickShape DEF TickReconciled
  <2>2. AfterReconcile(rec) \in Record
    BY <2>1, FieldTypes, AfterIsRecord
  <2>3. tick' \in Locals
    BY <1>5, <2>1, <2>2, TurnToType DEF TickReconciled
  <2>. QED  BY <1>5, <2>3 DEF TickReconciled, TypeOK, Locals
<1>6. CASE TickFails
  <2>1. tick.mem[tick.s] \in Record /\ tick.s \in DOMAIN disk
    BY <1>6, TickShape DEF TickFails
  <2>2. [tick.mem[tick.s] EXCEPT !.status = "error"] \in Record
    BY <2>1, FieldTypes DEF Status
  <2>3. tick' \in Locals
    BY <1>6, <2>1, <2>2, TurnToType DEF TickFails
  <2>4. lost' \subseteq Id
    BY <1>6, TickShape DEF TickFails, TypeOK, IdsOf, Tracked
  <2>. QED  BY <1>6, <2>3, <2>4 DEF TickFails, TypeOK, Locals
<1>7. CASE TickSave
  <2>1. disk' \in [DOMAIN disk -> Record]
    BY <1>7, TickShape DEF TickSave
  <2>. QED  BY <1>7, <2>1 DEF TickSave, TypeOK, Locals, Idle
<1>8. ASSUME NEW s \in Schedule, TickSkip(s) PROVE TypeOK'
  <2>1. s \in DOMAIN disk /\ tick.mem[s] \in Record
    BY <1>8, TickShape DEF TickSkip
  <2>2. tick' \in Locals
    BY <1>8, <2>1, AfterIsRecord, TurnToType DEF TickSkip
  <2>. QED  BY <1>8, <2>2 DEF TickSkip, TypeOK, Locals
<1>9. ASSUME NEW s \in Schedule, TickTake(s) PROVE TypeOK'
  <2>1. tick' \in Locals
    BY <1>9, TickShape, ChatsStage DEF TickTake
  <2>. QED  BY <1>9, <2>1 DEF TickTake, TypeOK, Locals
<1>10. ASSUME NEW t \in Target, TickList(t) PROVE TypeOK'
  <2>1. /\ tick.mem \in [DOMAIN disk -> Record] /\ tick.now \in 0..MaxTime
        /\ tick.todo \subseteq DOMAIN disk /\ tick.s \in DOMAIN disk /\ tick.chats \subseteq Target
    BY <1>10, TickShape DEF TickList
  <2>2. KnownAlive(tick.s, t) \subseteq Tracked
    BY <2>1 DEF KnownAlive, Record
  <2>3. Room(t) \in Int
    BY FS_CardinalityType, NativeAssumption DEF Room, TypeOK
  <2>4. tick' \in Locals
    BY <1>10, <2>1, <2>2, <2>3 DEF TickList, Locals
  <2>. QED  BY <1>10, <2>4 DEF TickList, TypeOK, Locals
<1>. QED  BY <1>1, <1>2, <1>3, <1>4, <1>5, <1>6, <1>7, <1>8, <1>9, <1>10 DEF TickStep

(* The file changes while no tick carries a copy of it.                         *)
LEMMA TickIsIdle ==
    ASSUME TypeOK, LockIsTicks, schedLock = "none"
    PROVE  tick.pc = "idle" /\ tick \in [pc : {"idle"}]
  BY DEF TypeOK, LockIsTicks, Ticking, Locals

LEMMA DeletionTypes ==
    ASSUME TypeOK, LockIsTicks, NEW r \in Request, DeleteStep(r)
    PROVE  TypeOK'
<1>1. /\ del \in [Request -> {NoRequest} \cup Deletion]
      /\ del[r].pc # "idle" => del[r] \in Deletion
  BY DEF TypeOK, NoRequest
<1>2. CASE DeleteGuard(r)
  <2>1. del' \in [Request -> {NoRequest} \cup Deletion]
    BY <1>1, <1>2 DEF DeleteGuard, Deletion
  <2>. QED  BY <1>2, <2>1 DEF DeleteGuard, TypeOK, Locals
<1>3. CASE DeleteTornDown(r)
  <2>1. del' \in [Request -> {NoRequest} \cup Deletion]
    BY <1>1, <1>3 DEF DeleteTornDown, Deletion
  <2>. QED  BY <1>3, <2>1 DEF DeleteTornDown, TypeOK, Locals
<1>4. CASE DeleteFails(r)
  <2>1. del' \in [Request -> {NoRequest} \cup Deletion]
    BY <1>1, <1>4 DEF DeleteFails, Deletion
  <2>2. \/ chat' = chat
        \/ \E t \in Target : chat' = Without(t, IdsOf(del[r].copy[t]))
    BY <1>4 DEF DeleteFails
  <2>3. chat' \in [Target -> SUBSET Message] /\ \A t \in Target : IsFiniteSet(chat'[t])
    BY <2>2, WithoutRemoves DEF TypeOK
  <2>. QED  BY <1>4, <2>1, <2>3 DEF DeleteFails, TypeOK, Locals
<1>5. CASE DeleteCommit(r)
  <2>1. del' \in [Request -> {NoRequest} \cup Deletion]
    BY <1>1, <1>5 DEF DeleteCommit
  <2>2. disk' \in [DOMAIN disk' -> Record] /\ DOMAIN disk' \subseteq DOMAIN disk
    BY <1>5 DEF DeleteCommit, Forget, Restrict, TypeOK
  <2>3. tick' \in [pc : {"idle"}]
    BY <1>5, TickIsIdle DEF DeleteCommit
  <2>. QED  BY <1>5, <2>1, <2>2, <2>3 DEF DeleteCommit, TypeOK, Locals
<1>6. CASE DeleteRetain(r)
  <2>1. del' \in [Request -> {NoRequest} \cup Deletion]
    BY <1>1, <1>6 DEF DeleteRetain
  <2>2. del[r].copy \in [Target -> SUBSET Tracked]
    BY <1>1, <1>6 DEF DeleteRetain, Deletion
  <2>3. \A s \in DOMAIN disk :
          Tombstone(disk[s], del[r].copy) \in Record
    BY <2>2, RetainedRecord DEF TypeOK
  <2>4. disk' \in [DOMAIN disk -> Record]
    BY <1>6, <2>3 DEF DeleteRetain, TypeOK
  <2>5. tick' \in [pc : {"idle"}]
    BY <1>6, TickIsIdle DEF DeleteRetain
  <2>. QED  BY <1>6, <2>1, <2>4, <2>5 DEF DeleteRetain, TypeOK, Locals
<1>7. ASSUME NEW t \in Target, DeleteChat(r, t) PROVE TypeOK'
  <2>1. del[r] \in Deletion
    BY <1>1, <1>7 DEF DeleteChat
  <2>2. [del[r].copy EXCEPT ![t] = {}] \in [Target -> SUBSET Tracked]
    BY <2>1 DEF Deletion
  <2>3. [del[r] EXCEPT !.copy = [del[r].copy EXCEPT ![t] = {}]] \in Deletion
    BY <2>1, <2>2 DEF Deletion
  <2>4. del' \in [Request -> {NoRequest} \cup Deletion]
    BY <1>1, <1>7, <2>3 DEF DeleteChat
  <2>. QED  BY <1>7, <2>4, WithoutRemoves DEF DeleteChat, TypeOK, Locals
<1>. QED  BY <1>2, <1>3, <1>4, <1>5, <1>6, <1>7 DEF DeleteStep

LEMMA OtherTypes ==
    ASSUME TypeOK, LockIsTicks, ClearStep \/ Operator \/ World
    PROVE  TypeOK'
<1>1. CASE ClearDelete \/ ClearFails
  <2>1. clr.t \in Target /\ clr.ids \subseteq Id /\ clr' \in [pc : {"idle"}] \cup [pc : {"delete", "prune"}, t : Target, ids : SUBSET Id]
    BY <1>1 DEF ClearDelete, ClearFails, TypeOK, Idle
  <2>2. chat' = chat \/ chat' = Without(clr.t, clr.ids)
    BY <1>1 DEF ClearDelete, ClearFails
  <2>3. chat' \in [Target -> SUBSET Message] /\ \A t \in Target : IsFiniteSet(chat'[t])
    BY <2>1, <2>2, WithoutRemoves DEF TypeOK
  <2>. QED  BY <1>1, <2>1, <2>3 DEF ClearDelete, ClearFails, TypeOK, Locals
<1>2. CASE ClearPrune
  <2>1. clr.t \in Target
    BY <1>2 DEF ClearPrune, TypeOK
  <2>2. \A s \in DOMAIN disk :
          prune_local_native_ids(disk[s], clr.t, clr.ids) \in Record
    BY <2>1, PrunedRecord DEF TypeOK
  <2>3. disk' \in [DOMAIN disk -> Record]
    BY <1>2, <2>2 DEF ClearPrune
  <2>4. tick' \in [pc : {"idle"}]
    BY <1>2, TickIsIdle DEF ClearPrune
  <2>. QED  BY <1>2, <2>3, <2>4 DEF ClearPrune, TypeOK, Locals, Idle
<1>3. ASSUME NEW s \in Schedule, Create(s) PROVE TypeOK'
  <2>1. [status |-> "active", ids |-> NoIds, lastRec |-> Never] \in Record
    BY NoIdsType DEF Record, Status
  <2>2. disk' \in [DOMAIN disk' -> Record] /\ DOMAIN disk' = DOMAIN disk \cup {s}
    BY <1>3, <2>1 DEF Create, TypeOK
  <2>3. tick' \in [pc : {"idle"}]
    BY <1>3, TickIsIdle DEF Create
  <2>. QED  BY <1>3, <2>2, <2>3 DEF Create, TypeOK, Locals
<1>4. ASSUME NEW s \in Schedule, NEW st \in {"active", "paused"}, Update(s, st) PROVE TypeOK'
  <2>1. disk' \in [DOMAIN disk -> Record]
    BY <1>4, MarkedFile DEF Update, Status
  <2>2. tick' \in [pc : {"idle"}]
    BY <1>4, TickIsIdle DEF Update
  <2>. QED  BY <1>4, <2>1, <2>2 DEF Update, TypeOK, Locals
<1>5. ASSUME NEW r \in Request, NEW s \in Schedule, DeleteBegin(r, s) PROVE TypeOK'
  <2>1. disk' \in [DOMAIN disk' -> Record] /\ DOMAIN disk' \subseteq DOMAIN disk
    <3>1. CASE disk' = Forget(s)
      BY <3>1 DEF Forget, Restrict, TypeOK
    <3>2. CASE disk' = [disk EXCEPT ![s].status = "deleting"]
      BY <1>5, <3>2, MarkedFile DEF DeleteBegin, Status
    <3>. QED  BY <1>5, <3>1, <3>2 DEF DeleteBegin
  <2>2. disk[s].ids \in [Target -> SUBSET Tracked]
    BY <1>5 DEF DeleteBegin, TypeOK, Record
  <2>3. del' \in [Request -> {NoRequest} \cup Deletion]
    BY <1>5, <2>2 DEF DeleteBegin, Deletion, TypeOK
  <2>4. tick' \in [pc : {"idle"}]
    BY <1>5, TickIsIdle DEF DeleteBegin
  <2>. QED  BY <1>5, <2>1, <2>3, <2>4 DEF DeleteBegin, TypeOK, Locals
<1>6. ASSUME NEW t \in Target, ClearBegin(t) PROVE TypeOK'
  <2>1. \A i \in IdsOf(chat[t]) : i \in Id
    BY DEF IdsOf, TypeOK, Message
  <2>2. clr' \in [pc : {"delete", "prune"}, t : Target, ids : SUBSET Id]
    BY <1>6, <2>1 DEF ClearBegin
  <2>. QED  BY <1>6, <2>2 DEF ClearBegin, TypeOK, Locals
<1>7. CASE Clock
  BY <1>7, NativeAssumption DEF Clock, TypeOK, Locals
<1>8. CASE Crash
  <2>1. CarriedIds \subseteq Id
    <3>1. \A X : X \subseteq Tracked => IdsOf(X) \subseteq Id
      BY DEF IdsOf, Tracked
    <3>2. tick.pc # "idle" => \A s \in DOMAIN tick.mem, t \in Target : tick.mem[s].ids[t] \subseteq Tracked
      BY TickShape, FieldTypes DEF Ticking
    <3>3. tick.pc # "idle" => UNION {IdsOf(tick.mem[s].ids[t]) : s \in DOMAIN tick.mem, t \in Target} \subseteq Id
      BY <3>1, <3>2
    <3>4. tick.pc = "fill" => IdsOf(tick.tracked) \subseteq Id
      BY <3>1, TickShape
    <3>. QED  BY <3>3, <3>4 DEF CarriedIds
  <2>2. tick' \in [pc : {"idle"}]
    BY <1>8 DEF Crash, Idle
  <2>. QED  BY <1>8, <2>1, <2>2 DEF Crash, TypeOK, Locals, Idle
<1>9. ASSUME NEW t \in Target, Deliver(t) PROVE TypeOK'
  <2>1. chat' \in [Target -> SUBSET Message] /\ \A u \in Target : chat'[u] \subseteq chat[u]
    BY <1>9 DEF Deliver, TypeOK
  <2>2. \A u \in Target : IsFiniteSet(chat'[u])
    BY <2>1, FS_Subset DEF TypeOK
  <2>. QED  BY <1>9, <2>1, <2>2 DEF Deliver, TypeOK, Locals
<1>. QED  BY <1>1, <1>2, <1>3, <1>4, <1>5, <1>6, <1>7, <1>8, <1>9
     DEF ClearStep, Operator, World

-----------------------------------------------------------------------------
(* Steps of the tick.                                                           *)

LEMMA InTickIs ==
    ASSUME NEW m, NEW t
    PROVE  InTick(m, t) <=> /\ Ticking
                            /\ \/ InMem(m, t)
                               \/ /\ tick.pc = "fill" /\ tick.s = m.owner /\ tick.t = t
                                  /\ Item(m) \in tick.tracked /\ m.owner \in DOMAIN tick.mem
  BY DEF InTick, Ticking, InMem, Item

LEMMA OnDiskIs ==
    ASSUME NEW m, NEW t
    PROVE  OnDisk(m, t) <=> m.owner \in DOMAIN disk /\ Item(m) \in disk[m.owner].ids[t]
  BY DEF OnDisk, Item

(* A tick that goes on to the next schedule, keeping the ids it carries of this *)
(* one, lost or not.                                                            *)
LEMMA TurnKeeps ==
    ASSUME TypeOK, Safe, Ticking, NEW s \in DOMAIN disk, NEW rec \in Record, TurnTo(s, rec),
           rec.ids = tick.mem[s].ids, disk[s].status = "active",
           UNCHANGED <<disk, chat, schedLock>>, lost \subseteq lost',
           tick.pc = "fill" => \A i \in tick.tracked :
               i \in tick.mem[tick.s].ids[tick.t] \/ i.id \in lost'
    PROVE  Safe'
<1>. DEFINE mem == [tick.mem EXCEPT ![s] = rec]
<1>1. /\ tick.mem \in [DOMAIN disk -> Record] /\ mem \in [DOMAIN disk -> Record]
      /\ \A x \in DOMAIN disk, t \in Target : mem[x].ids[t] = tick.mem[x].ids[t]
      /\ \A x \in DOMAIN disk : x # s => mem[x] = tick.mem[x]
  BY TickShape
<1>2. tick' = [pc |-> "next", now |-> tick.now, mem |-> mem, todo |-> tick.todo \ {s}]
  BY DEF TurnTo
<1>. HIDE DEF mem
<1>3. Locks'
  BY <1>1, <1>2 DEF Safe, Locks, LockIsTicks, LeavesTheRest, Ticking, Reconciling
<1>4. \A t \in Target : \A m \in chat[t] : InTick(m, t)' \/ m.id \in lost'
  <2>. SUFFICES ASSUME NEW t \in Target, NEW m \in chat[t], m.id \notin lost' PROVE InTick(m, t)'
    OBVIOUS
  <2>1. InTick(m, t)
    BY DEF Safe, Carried, CarriesAll
  <2>2. InMem(m, t)
    BY <2>1, <1>1, InTickIs DEF InMem, Item
  <2>. QED  BY <1>1, <1>2, <2>2 DEF InTick, InMem, Item
<1>5. \A t \in Target : \A m \in chat[t] : OnDisk(m, t)' => InMem(m, t)'
  BY <1>1, <1>2 DEF Safe, Carried, CarriesAll, OnDisk, InMem, Item
<1>6. NothingUntracked'
  BY <1>4 DEF NothingUntracked, Known
<1>7. NewIsNew'
  BY <1>1, <1>2 DEF Safe, Carried, NewIsNew, Ticking, StoredIds
<1>8. CarriesAll' /\ CollectsAll'
  BY <1>2, <1>4, <1>5 DEF CarriesAll, CollectsAll
<1>. QED  BY <1>3, <1>6, <1>7, <1>8 DEF Safe, Carried

(* A message is asked for under an id that nobody remembers.                    *)
LEMMA CreateKeeps ==
    ASSUME TypeOK, Safe, TickCreate
    PROVE  Safe'
<1>. DEFINE new == [id |-> FreshId, fire |-> Min(Missing), owner |-> tick.s]
            item == [id |-> FreshId, fire |-> Min(Missing)]
<1>1. /\ tick.pc = "fill" /\ tick'.pc = "fill"
      /\ tick.t \in Target /\ tick.s \in DOMAIN disk /\ tick.mem \in [DOMAIN disk -> Record]
      /\ tick'.t = tick.t /\ tick'.s = tick.s /\ tick'.mem = tick.mem /\ tick'.todo = tick.todo
      /\ tick'.tracked = tick.tracked \cup {item}
  BY TickShape DEF TickCreate, Reconciling, Ticking, TypeOK, Locals
<1>2. /\ chat' = [chat EXCEPT ![tick.t] = @ \cup {new}]
      /\ lost' = lost \ {FreshId} /\ disk' = disk /\ schedLock' = schedLock
  BY DEF TickCreate
<1>3. /\ \A t \in Target : \A m \in chat[t] : m.id # FreshId
      /\ FreshId \notin StoredIds
      /\ \A s \in DOMAIN disk, t \in Target : \A i \in tick.mem[s].ids[t] : i.id # FreshId
  BY <1>1, FreshIdIsNew DEF TickCreate
<1>4. /\ \A t \in Target : \A m \in chat'[t] : m \in chat[t] \/ (t = tick.t /\ m = new)
      /\ new.owner = tick.s /\ new.id = FreshId /\ Item(new) = item /\ item.id = FreshId
  BY <1>2 DEF TypeOK, Item
<1>. HIDE DEF new, item
<1>5. Locks'
  BY <1>1, <1>2 DEF Safe, Locks, LockIsTicks, LeavesTheRest, Ticking, Reconciling
<1>6. \A t \in Target : \A m \in chat'[t] : InTick(m, t)' \/ m.id \in lost'
  <2>. SUFFICES ASSUME NEW t \in Target, NEW m \in chat'[t] PROVE InTick(m, t)' \/ m.id \in lost'
    OBVIOUS
  <2>1. CASE m \in chat[t]
    <3>1. InTick(m, t) \/ m.id \in lost
      BY <1>1, <2>1 DEF Safe, Carried, CarriesAll, Ticking
    <3>2. m.id # FreshId
      BY <1>3, <2>1
    <3>. QED  BY <1>1, <1>2, <3>1, <3>2 DEF InTick
  <2>2. CASE t = tick.t /\ m = new
    BY <1>1, <1>4, <2>2 DEF InTick, Item
  <2>. QED  BY <1>4, <2>1, <2>2
<1>7. \A t \in Target : \A m \in chat'[t] : OnDisk(m, t)' => InMem(m, t)'
  <2>. SUFFICES ASSUME NEW t \in Target, NEW m \in chat'[t], OnDisk(m, t)' PROVE InMem(m, t)'
    OBVIOUS
  <2>1. OnDisk(m, t)
    BY <1>2 DEF OnDisk
  <2>2. m \in chat[t]
    <3>1. CASE t = tick.t /\ m = new
      BY <1>3, <1>4, <2>1, <3>1, OnDiskIs, StoredIdIsStored
    <3>. QED  BY <1>4, <3>1
  <2>3. InMem(m, t)
    BY <1>1, <2>1, <2>2 DEF Safe, Carried, CarriesAll, Ticking
  <2>. QED  BY <1>1, <2>3 DEF InMem
<1>8. CollectsAll'
  BY <1>1, <1>4 DEF Safe, Carried, CollectsAll, InMem
<1>9. NewIsNew'
  BY <1>1, <1>2, <1>3, <1>4 DEF Safe, Carried, NewIsNew, Ticking, StoredIds
<1>10. NothingUntracked'
  BY <1>6 DEF NothingUntracked, Known
<1>. QED  BY <1>5, <1>6, <1>7, <1>8, <1>9, <1>10 DEF Safe, Carried, CarriesAll

(* The ids collected for a chat take the place of those carried for it.         *)
LEMMA ChatDoneKeeps ==
    ASSUME TypeOK, Safe, TickChatDone
    PROVE  Safe'
<1>. DEFINE mem == [tick.mem EXCEPT ![tick.s].ids[tick.t] = tick.tracked]
<1>1. /\ tick.pc = "fill" /\ tick.t \in Target /\ tick.s \in DOMAIN disk
      /\ tick.mem \in [DOMAIN disk -> Record] /\ mem \in [DOMAIN disk -> Record]
      /\ \A s \in DOMAIN disk, t \in Target : mem[s].ids[t] =
            IF s = tick.s /\ t = tick.t THEN tick.tracked ELSE tick.mem[s].ids[t]
      /\ \A s \in DOMAIN disk : s # tick.s => mem[s] = tick.mem[s]
  BY TickShape DEF TickChatDone, Reconciling, Ticking, Record
<1>2. tick' = [pc |-> "chats", now |-> tick.now, todo |-> tick.todo, s |-> tick.s,
               mem |-> mem, chats |-> tick.chats \ {tick.t}]
  BY DEF TickChatDone
<1>3. UNCHANGED <<disk, chat, schedLock, lost>>
  BY DEF TickChatDone
<1>. HIDE DEF mem
<1>4. Locks'
  BY <1>1, <1>2, <1>3 DEF Safe, Locks, LockIsTicks, LeavesTheRest, Ticking, Reconciling
<1>5. \A t \in Target : \A m \in chat[t] : InMem(m, t) => InMem(m, t)'
  BY <1>1, <1>2 DEF Safe, Carried, CollectsAll, InMem
<1>6. \A t \in Target : \A m \in chat[t] : InTick(m, t) => InTick(m, t)'
  <2>. SUFFICES ASSUME NEW t \in Target, NEW m \in chat[t], InTick(m, t) PROVE InTick(m, t)'
    OBVIOUS
  <2>1. CASE InMem(m, t)
    BY <1>1, <1>2, <1>5, <2>1 DEF InTick, InMem, Item
  <2>2. CASE tick.s = m.owner /\ tick.t = t /\ Item(m) \in tick.tracked
    BY <1>1, <1>2, <2>2 DEF InTick, Item
  <2>. QED  BY <2>1, <2>2, InTickIs
<1>7. CarriesAll'
  BY <1>1, <1>2, <1>3, <1>5, <1>6 DEF Safe, Carried, CarriesAll, OnDisk, Ticking
<1>8. NewIsNew'
  BY <1>1, <1>2, <1>3 DEF Safe, Carried, NewIsNew, Ticking, StoredIds
<1>9. CollectsAll'
  BY <1>2 DEF CollectsAll
<1>10. NothingUntracked'
  BY <1>2, <1>3, <1>7 DEF NothingUntracked, Known, CarriesAll, Ticking
<1>. QED  BY <1>4, <1>7, <1>8, <1>9, <1>10 DEF Safe, Carried

(* Telegram's list of a chat is read: what is waiting there and carried is      *)
(* collected.                                                                   *)
LEMMA ListKeeps ==
    ASSUME TypeOK, Safe, NEW t \in Target, TickList(t)
    PROVE  Safe'
<1>1. /\ tick.pc = "chats" /\ tick.s \in DOMAIN disk
      /\ tick.mem \in [DOMAIN disk -> Record]
  BY TickShape DEF TickList, Reconciling, Ticking
<1>2. tick' = [pc |-> "fill", now |-> tick.now, mem |-> tick.mem, todo |-> tick.todo,
               s |-> tick.s, chats |-> tick.chats, t |-> t,
               tracked |-> KnownAlive(tick.s, t), room |-> Room(t)]
  BY DEF TickList
<1>3. UNCHANGED <<disk, chat, schedLock, lost>>
  BY DEF TickList
<1>4. Locks'
  BY <1>1, <1>2, <1>3 DEF Safe, Locks, LockIsTicks, LeavesTheRest, Ticking, Reconciling
<1>5. CarriesAll' /\ NothingUntracked'
  BY <1>1, <1>2, <1>3 DEF Safe, Carried, CarriesAll, NothingUntracked, Known, OnDisk, InTick, InMem, Ticking
<1>6. CollectsAll'
  <2>1. \A m \in chat[t] : m.id \in IdsOf(chat[t]) /\ Item(m).id = m.id
    BY DEF IdsOf, Item
  <2>2. \A m \in chat[t] : m.owner = tick.s /\ InMem(m, t) => Item(m) \in KnownAlive(tick.s, t)
    BY <2>1 DEF InMem, KnownAlive
  <2>. QED  BY <1>2, <1>3, <2>2 DEF CollectsAll, InMem
<1>7. NewIsNew'
  <2>1. KnownAlive(tick.s, t) \subseteq tick.mem[tick.s].ids[t]
    BY DEF KnownAlive
  <2>. QED  BY <1>1, <1>2, <1>3, <2>1 DEF Safe, Carried, NewIsNew, Ticking, StoredIds
<1>. QED  BY <1>4, <1>5, <1>6, <1>7 DEF Safe, Carried

LEMMA TickKeeps ==
    ASSUME TypeOK, Safe, TickStep
    PROVE  Safe'
<1>1. CASE TickBegin
  <2>1. ~Ticking
    BY <1>1 DEF TickBegin, Ticking
  <2>2. tick' = [pc |-> "next", now |-> now, mem |-> disk,
                 todo |-> {s \in DOMAIN disk : disk[s].status = "active"}]
    BY <1>1 DEF TickBegin
  <2>3. schedLock' = "tick" /\ UNCHANGED <<disk, chat, lost>>
    BY <1>1 DEF TickBegin
  <2>4. \A t \in Target : \A m \in chat[t] : OnDisk(m, t) \/ m.id \in lost
    BY <2>1 DEF Safe, NothingUntracked, Known, InTick, Ticking
  <2>5. \A m, t : OnDisk(m, t) <=> InMem(m, t)'
    BY <2>2 DEF OnDisk, InMem, Item
  <2>6. Locks'
    BY <2>2, <2>3 DEF Locks, LockIsTicks, LeavesTheRest, Ticking, Reconciling
  <2>7. CarriesAll'
    BY <2>2, <2>3, <2>4, <2>5 DEF CarriesAll, OnDisk, InTick, InMem, Item
  <2>8. NothingUntracked' /\ CollectsAll' /\ NewIsNew'
    BY <2>2, <2>3, <2>7 DEF NothingUntracked, Known, CarriesAll, CollectsAll, NewIsNew, Ticking
  <2>. QED  BY <2>6, <2>7, <2>8 DEF Safe, Carried
<1>2. CASE TickWarm
  <2>1. /\ tick.pc = "warm" /\ tick'.pc = "chats" /\ tick'.mem = tick.mem
        /\ tick'.todo = tick.todo /\ tick'.s = tick.s
    BY <1>2 DEF TickWarm, TypeOK, Locals
  <2>2. UNCHANGED <<disk, chat, schedLock, lost>>
    BY <1>2 DEF TickWarm
  <2>3. Locks'
    BY <2>1, <2>2 DEF Safe, Locks, LockIsTicks, LeavesTheRest, Ticking, Reconciling
  <2>4. NothingUntracked' /\ CarriesAll'
    BY <2>1, <2>2 DEF Safe, Carried, CarriesAll, NothingUntracked, Known, OnDisk, InTick, InMem, Ticking
  <2>5. CollectsAll' /\ NewIsNew'
    BY <2>1, <2>2 DEF Safe, Carried, CollectsAll, NewIsNew, StoredIds, Ticking
  <2>. QED  BY <2>3, <2>4, <2>5 DEF Safe, Carried
<1>3. CASE TickCreate
  BY <1>3, CreateKeeps
<1>4. CASE TickChatDone
  BY <1>4, ChatDoneKeeps
<1>5. CASE TickReconciled
  <2>. DEFINE rec == [tick.mem[tick.s] EXCEPT !.lastRec = tick.now]
  <2>1. Ticking /\ Reconciling /\ tick.pc # "fill" /\ tick.s \in DOMAIN disk
        /\ tick.mem[tick.s] \in Record /\ tick.now \in 0..MaxTime
    BY <1>5, TickShape DEF TickReconciled, Ticking, Reconciling
  <2>2. rec \in Record /\ rec.ids = tick.mem[tick.s].ids
    BY <2>1, FieldTypes DEF Record
  <2>3. AfterReconcile(rec) \in Record /\ AfterReconcile(rec).ids = tick.mem[tick.s].ids
    BY <2>2, AfterIsRecord
  <2>4. disk[tick.s].status = "active"
    BY <2>1 DEF Safe, Locks, LeavesTheRest
  <2>5. TurnTo(tick.s, AfterReconcile(rec)) /\ UNCHANGED <<disk, chat, schedLock, lost>>
    BY <1>5 DEF TickReconciled
  <2>. HIDE DEF rec
  <2>. QED  BY <2>1, <2>3, <2>4, <2>5, TurnKeeps
<1>6. CASE TickFails
  <2>. DEFINE rec == [tick.mem[tick.s] EXCEPT !.status = "error"]
  <2>1. Ticking /\ Reconciling /\ tick.s \in DOMAIN disk /\ tick.mem[tick.s] \in Record
    BY <1>6, TickShape DEF TickFails, Ticking, Reconciling
  <2>2. rec \in Record /\ rec.ids = tick.mem[tick.s].ids
    BY <2>1, FieldTypes DEF Record, Status
  <2>3. disk[tick.s].status = "active"
    BY <2>1 DEF Safe, Locks, LeavesTheRest
  <2>4. TurnTo(tick.s, rec) /\ UNCHANGED <<disk, chat, schedLock>>
    BY <1>6 DEF TickFails
  <2>5. lost \subseteq lost'
    BY <1>6 DEF TickFails
  <2>6. tick.pc = "fill" => \A i \in tick.tracked :
            i \in tick.mem[tick.s].ids[tick.t] \/ i.id \in lost'
    <3>1. tick.pc = "fill" => lost' = lost \cup (IdsOf(tick.tracked) \ StoredIds)
      BY <1>6 DEF TickFails
    <3>2. tick.pc = "fill" => \A i \in tick.tracked : i.id \in IdsOf(tick.tracked)
      BY DEF IdsOf
    <3>. QED  BY <3>1, <3>2 DEF Safe, Carried, NewIsNew
  <2>. HIDE DEF rec
  <2>. QED  BY <2>1, <2>2, <2>3, <2>4, <2>5, <2>6, TurnKeeps
<1>7. CASE TickSave
  <2>1. /\ tick.pc = "next" /\ tick'.pc = "idle" /\ schedLock' = "none"
        /\ disk' = tick.mem /\ UNCHANGED <<chat, lost>>
    BY <1>7 DEF TickSave, Idle
  <2>2. \A t \in Target : \A m \in chat[t] : OnDisk(m, t)' \/ m.id \in lost
    BY <2>1 DEF Safe, Carried, CarriesAll, Ticking, InTick, OnDisk
  <2>. QED  BY <2>1, <2>2 DEF Safe, Carried, NothingUntracked, Known, CarriesAll, CollectsAll,
            NewIsNew, Locks, LockIsTicks, LeavesTheRest, Ticking
<1>8. ASSUME NEW s \in Schedule, TickSkip(s) PROVE Safe'
  <2>1. Ticking /\ tick.pc # "fill" /\ s \in DOMAIN disk /\ tick.mem[s] \in Record
    BY <1>8, TickShape DEF TickSkip, Ticking
  <2>2. AfterReconcile(tick.mem[s]) \in Record /\ AfterReconcile(tick.mem[s]).ids = tick.mem[s].ids
    BY <2>1, AfterIsRecord
  <2>3. disk[s].status = "active"
    BY <1>8, <2>1 DEF TickSkip, Safe, Locks, LeavesTheRest
  <2>. QED  BY <1>8, <2>1, <2>2, <2>3, TurnKeeps DEF TickSkip
<1>9. ASSUME NEW s \in Schedule, TickTake(s) PROVE Safe'
  <2>1. /\ tick.pc = "next" /\ tick'.pc = "warm" /\ tick'.mem = tick.mem
        /\ tick'.todo = tick.todo /\ tick'.s = s /\ s \in tick.todo
    BY <1>9 DEF TickTake
  <2>2. UNCHANGED <<disk, chat, schedLock, lost>>
    BY <1>9 DEF TickTake
  <2>3. Locks'
    BY <2>1, <2>2 DEF Safe, Locks, LockIsTicks, LeavesTheRest, Ticking, Reconciling
  <2>4. NothingUntracked' /\ CarriesAll'
    BY <2>1, <2>2 DEF Safe, Carried, CarriesAll, NothingUntracked, Known, OnDisk, InTick, InMem, Ticking
  <2>5. CollectsAll' /\ NewIsNew'
    BY <2>1, <2>2 DEF Safe, Carried, CollectsAll, NewIsNew, StoredIds, Ticking
  <2>. QED  BY <2>3, <2>4, <2>5 DEF Safe, Carried
<1>10. ASSUME NEW t \in Target, TickList(t) PROVE Safe'
  BY <1>10, ListKeeps
<1>. QED  BY <1>1, <1>2, <1>3, <1>4, <1>5, <1>6, <1>7, <1>8, <1>9, <1>10 DEF TickStep

(* What is being deleted is out of the tick's reach.                            *)
LEMMA TickKeepsDeletions ==
    ASSUME TypeOK, Safe, Deleting, TickStep
    PROVE  Deleting'
<1>1. UNCHANGED <<unborn, del, clr>>
  BY DEF TickStep, TickBegin, TickWarm, TickCreate, TickChatDone, TickReconciled, TickFails,
         TickSave, TickSkip, TickTake, TickList
<1>2. CASE TickSave
  <2>1. disk' = tick.mem /\ tick.pc = "next" /\ chat' = chat /\ DOMAIN tick.mem = DOMAIN disk
    BY <1>2, TickShape DEF TickSave, Ticking
  <2>2. \A r \in Request : del[r].pc # "idle" /\ del[r].s \in DOMAIN disk =>
            disk'[del[r].s] = disk[del[r].s]
    BY <2>1 DEF Deleting, TombstoneHolds, Safe, Locks, LeavesTheRest, Ticking
  <2>3. TombstoneHolds'
    BY <1>1, <2>1, <2>2 DEF Deleting, TombstoneHolds, HasTracked
  <2>4. CopyAgrees'
    BY <1>1, <2>1, <2>2 DEF Deleting, CopyAgrees, OnDisk, Item
  <2>. QED  BY <1>1, <2>1, <2>3, <2>4 DEF Deleting, PrunedIsGone
<1>3. CASE TickCreate
  <2>. DEFINE new == [id |-> FreshId, fire |-> Min(Missing), owner |-> tick.s]
  <2>1. disk' = disk /\ chat' = [chat EXCEPT ![tick.t] = @ \cup {new}]
    BY <1>3 DEF TickCreate
  <2>2. \A t \in Target : \A m \in chat'[t] : m \in chat[t] \/ m = new
    BY <2>1 DEF TypeOK
  <2>3. \A r \in Request : del[r].pc # "idle" /\ del[r].s \in DOMAIN disk => del[r].s # tick.s
    BY <1>3 DEF TickCreate, Deleting, TombstoneHolds, Safe, Locks, LeavesTheRest, Ticking, Reconciling
  <2>4. new.owner = tick.s /\ new.id = FreshId
    OBVIOUS
  <2>5. clr.pc # "idle" => FreshId \notin clr.ids
    BY <1>3, FreshIdIsNew DEF TickCreate
  <2>6. clr.pc = "prune" => clr.t \in Target
    BY DEF TypeOK
  <2>. HIDE DEF new
  <2>7. TombstoneHolds'
    BY <1>1, <2>1 DEF Deleting, TombstoneHolds, HasTracked
  <2>8. CopyAgrees'
    BY <1>1, <2>1, <2>2, <2>3, <2>4 DEF Deleting, CopyAgrees, OnDisk
  <2>9. PrunedIsGone'
    BY <1>1, <2>2, <2>4, <2>5, <2>6 DEF Deleting, PrunedIsGone
  <2>. QED  BY <2>7, <2>8, <2>9 DEF Deleting
<1>4. CASE UNCHANGED <<disk, chat>>
  <2>1. TombstoneHolds' /\ PrunedIsGone'
    BY <1>1, <1>4 DEF Deleting, TombstoneHolds, PrunedIsGone, HasTracked
  <2>2. CopyAgrees'
    BY <1>1, <1>4 DEF Deleting, CopyAgrees, OnDisk
  <2>. QED  BY <2>1, <2>2 DEF Deleting
<1>. QED
  BY <1>2, <1>3, <1>4
  DEF TickStep, TickBegin, TickWarm, TickChatDone, TickReconciled, TickFails, TickSkip,
      TickTake, TickList

-----------------------------------------------------------------------------
(* Steps beside the tick.                                                       *)

(* What is listed and waiting stays listed.                                     *)
KeepsBooks == \A t \in Target : \A m \in chat[t] \cap chat'[t] : OnDisk(m, t) => OnDisk(m, t)'
Safely == Safe' /\ KeepsBooks

(* Messages may leave Telegram at any time.                                     *)
LEMMA FewerKeep ==
    ASSUME TypeOK, Safe, UNCHANGED <<disk, schedLock, tick, lost>>,
           \A t \in Target : chat'[t] \subseteq chat[t]
    PROVE  Safely
<1>1. NothingUntracked' /\ CarriesAll'
  BY DEF Safe, Carried, NothingUntracked, Known, CarriesAll, OnDisk, InTick, InMem, Ticking
<1>2. Locks'
  BY DEF Safe, Locks, LockIsTicks, LeavesTheRest, Ticking, Reconciling
<1>3. NewIsNew'
  BY DEF Safe, Carried, NewIsNew, StoredIds, Ticking
<1>4. CollectsAll'
  BY TickShape DEF Safe, Carried, CollectsAll, InMem
<1>5. KeepsBooks
  BY DEF KeepsBooks, OnDisk
<1>. QED  BY <1>1, <1>2, <1>3, <1>4, <1>5 DEF Safe, Carried, Safely

LEMMA FewerKeepDeletions ==
    ASSUME Deleting, UNCHANGED <<disk, unborn, del>>, \A t \in Target : chat'[t] \subseteq chat[t]
    PROVE  TombstoneHolds' /\ CopyAgrees'
  BY DEF Deleting, TombstoneHolds, CopyAgrees, OnDisk, HasTracked

(* The file changes under the scheduler lock: what is waiting stays listed.      *)
LEMMA FileKeeps ==
    ASSUME TypeOK, Safe, schedLock = "none", UNCHANGED <<schedLock, tick, lost, chat>>,
           \A t \in Target : \A m \in chat[t] : OnDisk(m, t) => OnDisk(m, t)'
    PROVE  Safely
<1>1. KeepsBooks
  BY DEF KeepsBooks
<1>2. Safe'
  BY TickIsIdle DEF Safe, Locks, LockIsTicks, LeavesTheRest, Carried, CarriesAll, CollectsAll,
     NewIsNew, NothingUntracked, Known, InTick, Ticking
<1>. QED  BY <1>1, <1>2 DEF Safely

LEMMA StageKeeps ==
    ASSUME TypeOK, Safe, Deleting, NEW r \in Request, del[r].pc # "idle",
           UNCHANGED <<disk, schedLock, tick, lost, unborn, clr>>,
           \A t \in Target : chat'[t] \subseteq chat[t],
           NEW pc \in {"chats", "commit", "retain"}, del' = [del EXCEPT ![r].pc = pc],
           pc = "commit" => ~HasTracked(del[r].copy)
    PROVE  Safely /\ Deleting'
<1>1. Safely
  BY FewerKeep
<1>2. \A q \in Request : del'[q].s = del[q].s /\ del'[q].copy = del[q].copy
      /\ (del'[q].pc # "idle" => del[q].pc # "idle")
      /\ (del'[q].pc = "commit" => ~HasTracked(del[q].copy))
  BY DEF TypeOK, Deleting, TombstoneHolds
<1>3. TombstoneHolds'
  BY <1>2 DEF Deleting, TombstoneHolds, HasTracked
<1>4. CopyAgrees'
  BY <1>2 DEF Deleting, CopyAgrees, OnDisk
<1>5. PrunedIsGone'
  BY DEF Deleting, PrunedIsGone, TypeOK
<1>. QED  BY <1>1, <1>3, <1>4, <1>5 DEF Deleting

LEMMA DeletionKeeps ==
    ASSUME TypeOK, Safe, Deleting, NEW r \in Request, DeleteStep(r)
    PROVE  Safely /\ Deleting'
<1>1. /\ del \in [Request -> {NoRequest} \cup Deletion]
      /\ del[r].pc # "idle" => del[r] \in Deletion
      /\ NoRequest.pc = "idle"
  BY DEF TypeOK, NoRequest
<1>2. clr' = clr /\ unborn' = unborn
  BY DEF DeleteStep, DeleteGuard, DeleteTornDown, DeleteFails, DeleteCommit, DeleteRetain, DeleteChat
<1>3. CASE DeleteGuard(r)
  BY <1>3, StageKeeps DEF DeleteGuard
<1>4. CASE DeleteTornDown(r)
  BY <1>4, StageKeeps DEF DeleteTornDown
<1>5. CASE DeleteFails(r)
  <2>1. \A t \in Target : chat'[t] \subseteq chat[t]
    BY <1>5, WithoutRemoves DEF DeleteFails
  <2>. QED  BY <1>5, <2>1, StageKeeps DEF DeleteFails
<1>6. CASE DeleteCommit(r)
  <2>1. /\ schedLock = "none" /\ disk' = Forget(del[r].s) /\ UNCHANGED <<schedLock, tick, lost, chat>>
        /\ del' = [del EXCEPT ![r] = NoRequest] /\ del[r].pc = "commit"
    BY <1>6 DEF DeleteCommit
  <2>2. /\ DOMAIN disk' = DOMAIN disk \ {del[r].s}
        /\ \A s \in DOMAIN disk' : disk'[s] = disk[s]
    BY <2>1 DEF Forget, Restrict
  <2>3. \A t \in Target : \A m \in chat[t] : OnDisk(m, t) => OnDisk(m, t)'
    <3>1. \A t \in Target : del[r].copy[t] = {}
      BY <2>1 DEF Deleting, TombstoneHolds, HasTracked
    <3>2. \A t \in Target : \A m \in chat[t] : OnDisk(m, t) => m.owner # del[r].s
      BY <2>1, <3>1 DEF Deleting, CopyAgrees, OnDisk
    <3>. QED  BY <2>2, <3>2 DEF OnDisk
  <2>4. Safely
    BY <2>1, <2>3, FileKeeps
  <2>5. \A q \in Request : del'[q].pc # "idle" => del'[q] = del[q] /\ q # r
    BY <1>1, <2>1
  <2>6. TombstoneHolds' /\ CopyAgrees'
    BY <1>2, <2>1, <2>2, <2>5 DEF Deleting, TombstoneHolds, CopyAgrees, OnDisk, HasTracked
  <2>. QED  BY <1>2, <2>1, <2>4, <2>6 DEF Deleting, PrunedIsGone
<1>7. CASE DeleteRetain(r)
  <2>1. /\ schedLock = "none" /\ UNCHANGED <<schedLock, tick, lost, chat>>
        /\ del' = [del EXCEPT ![r] = NoRequest] /\ del[r].pc = "retain"
    BY <1>7 DEF DeleteRetain
  <2>2. del[r].copy \in [Target -> SUBSET Tracked]
    BY <1>1, <2>1 DEF Deletion
  <2>3. /\ DOMAIN disk' = DOMAIN disk
        /\ \A s \in DOMAIN disk : s # del[r].s => disk'[s] = disk[s]
        /\ del[r].s \in DOMAIN disk =>
             disk'[del[r].s].ids = del[r].copy /\ disk'[del[r].s].status = "deleting"
    BY <1>7, <2>2, RetainedRecord DEF DeleteRetain, TypeOK
  <2>4. \A t \in Target : \A m \in chat[t] : OnDisk(m, t) <=> OnDisk(m, t)'
    BY <2>1, <2>3 DEF Deleting, CopyAgrees, OnDisk, Item
  <2>5. Safely
    BY <2>1, <2>4, FileKeeps
  <2>6. \A q \in Request : del'[q].pc # "idle" => del'[q] = del[q] /\ q # r
    BY <1>1, <2>1
  <2>7. TombstoneHolds'
    BY <1>2, <2>1, <2>3, <2>6 DEF Deleting, TombstoneHolds, HasTracked
  <2>8. CopyAgrees'
    BY <2>1, <2>3, <2>4, <2>6 DEF Deleting, CopyAgrees
  <2>. QED  BY <1>2, <2>1, <2>5, <2>7, <2>8 DEF Deleting, PrunedIsGone
<1>8. ASSUME NEW t \in Target, DeleteChat(r, t) PROVE Safely /\ Deleting'
  <2>1. /\ UNCHANGED <<disk, unborn, schedLock, tick, lost>>
        /\ chat' = Without(t, IdsOf(del[r].copy[t])) /\ del' = [del EXCEPT ![r].copy[t] = {}]
        /\ del[r].pc = "chats"
    BY <1>8 DEF DeleteChat
  <2>2. /\ \A u \in Target : chat'[u] \subseteq chat[u]
        /\ \A m \in chat'[t] : m.id \notin IdsOf(del[r].copy[t])
    BY <2>1, WithoutRemoves
  <2>3. Safely
    BY <2>1, <2>2, FewerKeep
  <2>4. \A q \in Request : del'[q].s = del[q].s /\ del'[q].pc = del[q].pc
        /\ \A u \in Target : <<q, u>> # <<r, t>> => del'[q].copy[u] = del[q].copy[u]
    BY <1>1, <2>1 DEF Deletion
  <2>5. del'[r].copy[t] = {}
    BY <1>1, <2>1 DEF Deletion
  <2>6. TombstoneHolds'
    BY <1>2, <2>1, <2>4 DEF Deleting, TombstoneHolds, HasTracked
  <2>7. \A m \in chat'[t] : m.owner = del[r].s => ~OnDisk(m, t)
    <3>1. \A m \in chat'[t] : Item(m) \notin del[r].copy[t]
      BY <2>2 DEF IdsOf, Item
    <3>. QED  BY <2>1, <2>2, <3>1, OnDiskIs DEF Deleting, CopyAgrees
  <2>8. CopyAgrees'
    BY <2>1, <2>2, <2>4, <2>5, <2>7 DEF Deleting, CopyAgrees, OnDisk
  <2>9. PrunedIsGone'
    BY <1>2, <2>2 DEF Deleting, PrunedIsGone, TypeOK
  <2>. QED  BY <2>3, <2>6, <2>8, <2>9 DEF Deleting
<1>. QED  BY <1>3, <1>4, <1>5, <1>6, <1>7, <1>8 DEF DeleteStep

LEMMA ClearKeeps ==
    ASSUME TypeOK, Safe, Deleting, ClearStep
    PROVE  Safely /\ Deleting'
<1>1. CASE ClearDelete \/ ClearFails
  <2>1. /\ UNCHANGED <<disk, unborn, schedLock, tick, lost, del>> /\ clr.t \in Target
        /\ chat' = chat \/ chat' = Without(clr.t, clr.ids)
    BY <1>1 DEF ClearDelete, ClearFails, TypeOK
  <2>2. \A t \in Target : chat'[t] \subseteq chat[t]
    BY <2>1, WithoutRemoves
  <2>3. PrunedIsGone'
    <3>1. CASE ClearDelete
      <4>1. clr'.t = clr.t /\ clr'.ids = clr.ids /\ chat' = Without(clr.t, clr.ids)
        BY <3>1 DEF ClearDelete, TypeOK
      <4>2. \A m \in chat'[clr.t] : m.id \notin clr.ids
        BY <2>1, <2>2, <4>1, WithoutRemoves
      <4>. QED  BY <4>1, <4>2 DEF PrunedIsGone
    <3>2. CASE ClearFails
      BY <3>2 DEF ClearFails, PrunedIsGone, Idle
    <3>. QED  BY <1>1, <3>1, <3>2
  <2>. QED  BY <2>1, <2>2, <2>3, FewerKeep, FewerKeepDeletions DEF Deleting
<1>2. CASE ClearPrune
  <2>1. /\ schedLock = "none" /\ clr.pc = "prune" /\ clr'.pc = "idle"
        /\ UNCHANGED <<schedLock, tick, lost, chat, unborn, del>>
    BY <1>2 DEF ClearPrune, Idle
  <2>2. clr.t \in Target
    BY <2>1 DEF TypeOK
  <2>3. /\ DOMAIN disk' = DOMAIN disk
        /\ \A s \in DOMAIN disk : disk'[s].status = disk[s].status
        /\ \A s \in DOMAIN disk, t \in Target : \A i :
             i \in disk'[s].ids[t] <=> i \in disk[s].ids[t] /\ (t = clr.t => i.id \notin clr.ids)
    BY <1>2, <2>2, PrunedRecord DEF ClearPrune, TypeOK
  <2>4. \A t \in Target : \A m \in chat[t] : OnDisk(m, t) <=> OnDisk(m, t)'
    <3>1. \A t \in Target : \A m \in chat[t] : t = clr.t => Item(m).id \notin clr.ids
      BY <2>1 DEF Deleting, PrunedIsGone, Item
    <3>. QED  BY <2>3, <3>1 DEF OnDisk, Item
  <2>5. Safely
    BY <2>1, <2>4, FileKeeps
  <2>6. TombstoneHolds' /\ CopyAgrees'
    BY <2>1, <2>3, <2>4 DEF Deleting, TombstoneHolds, CopyAgrees, HasTracked
  <2>. QED  BY <2>1, <2>5, <2>6 DEF Deleting, PrunedIsGone
<1>. QED  BY <1>1, <1>2 DEF ClearStep

LEMMA OperatorKeeps ==
    ASSUME TypeOK, Safe, Deleting, ~ResumeDeleting, Operator
    PROVE  Safely /\ Deleting'
<1>1. ASSUME NEW s \in Schedule, Create(s) PROVE Safely /\ Deleting'
  <2>1. /\ s \in unborn /\ s \notin DOMAIN disk /\ unborn' = unborn \ {s} /\ schedLock = "none"
        /\ UNCHANGED <<schedLock, tick, lost, chat, del, clr>>
        /\ DOMAIN disk' = DOMAIN disk \cup {s} /\ \A x \in DOMAIN disk : disk'[x] = disk[x]
    BY <1>1 DEF Create, TypeOK
  <2>2. \A t \in Target : \A m \in chat[t] : OnDisk(m, t) => OnDisk(m, t)'
    BY <2>1 DEF OnDisk
  <2>3. Safely
    BY <2>1, <2>2, FileKeeps
  <2>4. \A r \in Request : del[r].pc # "idle" => del[r].s # s
    BY <2>1 DEF Deleting, TombstoneHolds
  <2>5. TombstoneHolds' /\ CopyAgrees'
    BY <2>1, <2>4 DEF Deleting, TombstoneHolds, CopyAgrees, OnDisk, HasTracked
  <2>. QED  BY <2>1, <2>3, <2>5 DEF Deleting, PrunedIsGone
<1>2. ASSUME NEW s \in Schedule, NEW st \in {"active", "paused"}, Update(s, st)
      PROVE  Safely /\ Deleting'
  <2>1. /\ schedLock = "none" /\ s \in DOMAIN disk /\ disk[s].status # "deleting"
        /\ UNCHANGED <<schedLock, tick, lost, chat, del, clr, unborn>>
        /\ disk' = [disk EXCEPT ![s].status = st]
    BY <1>2 DEF Update
  <2>2. /\ DOMAIN disk' = DOMAIN disk /\ \A x \in DOMAIN disk : x # s => disk'[x] = disk[x]
        /\ \A x \in DOMAIN disk : disk'[x].ids = disk[x].ids
    BY <2>1 DEF TypeOK, Record
  <2>3. \A t \in Target : \A m \in chat[t] : OnDisk(m, t) <=> OnDisk(m, t)'
    BY <2>1, <2>2 DEF OnDisk
  <2>4. Safely
    BY <2>1, <2>3, FileKeeps
  <2>5. TombstoneHolds' /\ CopyAgrees'
    BY <2>1, <2>2, <2>3 DEF Deleting, TombstoneHolds, CopyAgrees, HasTracked
  <2>. QED  BY <2>1, <2>4, <2>5 DEF Deleting, PrunedIsGone
<1>3. ASSUME NEW r \in Request, NEW s \in Schedule, DeleteBegin(r, s) PROVE Safely /\ Deleting'
  <2>1. /\ schedLock = "none" /\ s \in DOMAIN disk /\ del[r].pc = "idle"
        /\ UNCHANGED <<schedLock, tick, lost, chat, clr, unborn>>
    BY <1>3 DEF DeleteBegin
  <2>2. s \notin unborn /\ PrunedIsGone'
    BY <2>1 DEF TypeOK, Deleting, PrunedIsGone
  <2>3. CASE HasTracked(disk[s].ids)
    <3>1. /\ disk' = [disk EXCEPT ![s].status = "deleting"]
          /\ del' = [del EXCEPT ![r] = [pc |-> "guard", s |-> s, copy |-> disk[s].ids]]
      BY <1>3, <2>3 DEF DeleteBegin
    <3>2. /\ DOMAIN disk' = DOMAIN disk /\ \A x \in DOMAIN disk : x # s => disk'[x] = disk[x]
          /\ disk'[s].status = "deleting" /\ \A x \in DOMAIN disk : disk'[x].ids = disk[x].ids
      BY <2>1, <3>1 DEF TypeOK, Record
    <3>3. \A t \in Target : \A m \in chat[t] : OnDisk(m, t) <=> OnDisk(m, t)'
      BY <2>1, <3>2 DEF OnDisk
    <3>4. Safely
      BY <2>1, <3>3, FileKeeps
    <3>5. /\ del'[r].pc = "guard" /\ del'[r].s = s /\ del'[r].copy = disk[s].ids
          /\ \A q \in Request : q # r => del'[q] = del[q]
      BY <3>1 DEF TypeOK
    <3>6. TombstoneHolds'
      BY <2>1, <2>2, <3>2, <3>5 DEF Deleting, TombstoneHolds, HasTracked
    <3>7. CopyAgrees'
      BY <2>1, <3>2, <3>3, <3>5 DEF Deleting, CopyAgrees, OnDisk, Item
    <3>. QED  BY <2>2, <3>4, <3>6, <3>7 DEF Deleting
  <2>4. CASE ~HasTracked(disk[s].ids)
    <3>1. disk' = Forget(s) /\ del' = del
      BY <1>3, <2>4 DEF DeleteBegin
    <3>2. DOMAIN disk' = DOMAIN disk \ {s} /\ \A x \in DOMAIN disk' : disk'[x] = disk[x]
      BY <3>1 DEF Forget, Restrict
    <3>3. \A t \in Target : \A m \in chat[t] : OnDisk(m, t) => OnDisk(m, t)'
      BY <2>1, <2>4, <3>2 DEF OnDisk, HasTracked
    <3>4. Safely
      BY <2>1, <3>3, FileKeeps
    <3>5. TombstoneHolds' /\ CopyAgrees'
      BY <2>1, <3>1, <3>2 DEF Deleting, TombstoneHolds, CopyAgrees, OnDisk, HasTracked
    <3>. QED  BY <2>2, <3>4, <3>5 DEF Deleting
  <2>. QED  BY <2>3, <2>4
<1>4. ASSUME NEW t \in Target, ClearBegin(t) PROVE Safely /\ Deleting'
  <2>1. UNCHANGED <<disk, unborn, schedLock, tick, lost, del, chat>> /\ clr'.pc = "delete"
    BY <1>4 DEF ClearBegin
  <2>2. PrunedIsGone'
    BY <2>1 DEF PrunedIsGone
  <2>. QED  BY <2>1, <2>2, FewerKeep, FewerKeepDeletions DEF Deleting
<1>. QED  BY <1>1, <1>2, <1>3, <1>4 DEF Operator

LEMMA WorldKeeps ==
    ASSUME TypeOK, Safe, Deleting, World
    PROVE  Safely /\ Deleting'
<1>1. CASE Clock
  <2>1. UNCHANGED <<disk, unborn, chat, schedLock, tick, del, clr, lost>>
    BY <1>1 DEF Clock
  <2>. QED  BY <2>1, FewerKeep, FewerKeepDeletions DEF Deleting, PrunedIsGone
<1>2. ASSUME NEW t \in Target, Deliver(t) PROVE Safely /\ Deleting'
  <2>1. UNCHANGED <<disk, unborn, schedLock, tick, del, clr, lost>>
    BY <1>2 DEF Deliver
  <2>2. \A u \in Target : chat'[u] \subseteq chat[u]
    BY <1>2 DEF Deliver, TypeOK
  <2>3. PrunedIsGone'
    BY <2>1, <2>2 DEF Deleting, PrunedIsGone, TypeOK
  <2>. QED  BY <2>1, <2>2, <2>3, FewerKeep, FewerKeepDeletions DEF Deleting
<1>3. CASE Crash
  <2>1. /\ UNCHANGED <<disk, chat>> /\ lost' = lost \cup (CarriedIds \ StoredIds)
        /\ schedLock' = "none" /\ tick'.pc = "idle" /\ clr'.pc = "idle"
        /\ \A r \in Request : del'[r].pc = "idle"
    BY <1>3 DEF Crash, Idle, NoRequest
  <2>2. \A t \in Target : \A m \in chat[t] : OnDisk(m, t) \/ m.id \in lost'
    <3>. SUFFICES ASSUME NEW t \in Target, NEW m \in chat[t], ~OnDisk(m, t), m.id \notin lost
                  PROVE  m.id \in CarriedIds \ StoredIds
      BY <2>1
    <3>1. InTick(m, t)
      BY DEF Safe, NothingUntracked, Known
    <3>2. Item(m).id = m.id /\ m.owner \in DOMAIN disk /\ DOMAIN tick.mem = DOMAIN disk
      BY <3>1, TickShape DEF InTick, Ticking, Item
    <3>3. CASE InMem(m, t)
      <4>1. Item(m) \in tick.mem[m.owner].ids[t] /\ Item(m) \notin disk[m.owner].ids[t]
        BY <3>2, <3>3 DEF InMem, OnDisk, Item
      <4>2. m.id \notin StoredIds
        BY <3>1, <3>2, <4>1 DEF Safe, Carried, NewIsNew, InTick, Ticking
      <4>3. m.id \in IdsOf(tick.mem[m.owner].ids[t])
        BY <3>2, <4>1 DEF IdsOf
      <4>. QED  BY <3>1, <3>2, <4>2, <4>3, CarriedInMemory DEF InTick
    <3>4. CASE ~InMem(m, t)
      <4>1. tick.pc = "fill" /\ tick.s = m.owner /\ tick.t = t /\ Item(m) \in tick.tracked
        BY <3>1, <3>4, InTickIs
      <4>2. m.id \notin StoredIds
        BY <3>2, <3>4, <4>1 DEF Safe, Carried, NewIsNew, InMem
      <4>3. m.id \in IdsOf(tick.tracked)
        BY <3>2, <4>1 DEF IdsOf
      <4>. QED  BY <4>1, <4>2, <4>3 DEF CarriedIds
    <3>. QED  BY <3>3, <3>4
  <2>3. Safe' /\ KeepsBooks
    BY <2>1, <2>2 DEF Safe, Locks, LockIsTicks, LeavesTheRest, Carried, CarriesAll, CollectsAll,
       NewIsNew, NothingUntracked, Known, OnDisk, Ticking, KeepsBooks
  <2>4. Deleting'
    BY <2>1 DEF Deleting, TombstoneHolds, CopyAgrees, PrunedIsGone
  <2>. QED  BY <2>3, <2>4 DEF Safely
<1>. QED  BY <1>1, <1>2, <1>3 DEF World

-----------------------------------------------------------------------------
(* The invariant and the theorems.                                              *)

LEMMA TypeStep == TypeOK /\ LockIsTicks /\ [Next]_vars => TypeOK' /\ LockIsTicks'
<1>. SUFFICES ASSUME TypeOK, LockIsTicks, [Next]_vars PROVE TypeOK' /\ LockIsTicks'
  OBVIOUS
<1>1. LockIsTicks'
  <2>1. CASE TickStep
    <3>1. CASE TickBegin \/ TickSave
      BY <3>1 DEF TickBegin, TickSave, LockIsTicks, Ticking, Idle
    <3>2. CASE TickWarm \/ TickCreate
      <4>1. tick.pc \in {"warm", "fill"} /\ tick'.pc # "idle" /\ schedLock' = schedLock
        BY <3>2 DEF TickWarm, TickCreate, TypeOK, Locals
      <4>. QED  BY <4>1 DEF LockIsTicks, Ticking
    <3>3. ASSUME TickChatDone \/ TickReconciled \/ TickFails \/ (\E t \in Target : TickList(t))
                   \/ \E s \in Schedule : TickSkip(s) \/ TickTake(s)
          PROVE  tick.pc # "idle" /\ tick'.pc # "idle" /\ schedLock' = schedLock
      BY <3>3 DEF TickChatDone, TickReconciled, TickFails, TickList, TickSkip, TickTake, TurnTo
    <3>. QED  BY <2>1, <3>1, <3>2, <3>3 DEF TickStep, LockIsTicks, Ticking
  <2>2. CASE World
    BY <2>2 DEF World, Clock, Crash, Deliver, LockIsTicks, Ticking, Idle
  <2>3. CASE UNCHANGED <<tick, schedLock>>
    BY <2>3 DEF LockIsTicks, Ticking
  <2>. QED
    BY <2>1, <2>2, <2>3
    DEF Next, vars, DeleteStep, DeleteGuard, DeleteTornDown, DeleteFails, DeleteCommit, DeleteRetain,
        DeleteChat, ClearStep, ClearDelete, ClearFails, ClearPrune, Operator, Create, Update,
        DeleteBegin, ClearBegin
<1>2. ASSUME UNCHANGED vars PROVE TypeOK'
  BY <1>2 DEF vars, TypeOK, Locals
<1>. QED  BY <1>1, <1>2, TickTypes, DeletionTypes, OtherTypes DEF Next

LEMMA InitIInv == Init => IInv
<1>. SUFFICES ASSUME Init PROVE IInv
  OBVIOUS
<1>1. chat \in [Target -> SUBSET Message] /\ \A t \in Target : chat[t] = {} /\ IsFiniteSet(chat[t])
  BY FS_EmptySet DEF Init, NoIds
<1>2. TypeOK
  BY <1>1, NativeAssumption DEF Init, TypeOK, EmptyDict, Idle, Locals
<1>3. Safe
  BY <1>1 DEF Init, Safe, NothingUntracked, Locks, LockIsTicks, LeavesTheRest, Carried, CarriesAll,
     CollectsAll, NewIsNew, Ticking, Idle
<1>4. Deleting
  BY <1>1 DEF Init, Deleting, TombstoneHolds, CopyAgrees, PrunedIsGone, NoRequest, Idle
<1>. QED  BY <1>2, <1>3, <1>4 DEF IInv

LEMMA StepKeeps ==
    ASSUME ~ResumeDeleting, IInv, [Next]_vars
    PROVE  IInv' /\ KeepsBooks
<1>1. TypeOK /\ Safe /\ Deleting /\ LockIsTicks
  BY DEF IInv, Safe, Locks
<1>2. TypeOK'
  BY <1>1, TypeStep
<1>3. CASE TickStep
  <2>1. Safe' /\ Deleting'
    BY <1>1, <1>3, TickKeeps, TickKeepsDeletions
  <2>2. ASSUME disk' = disk PROVE KeepsBooks
    BY <2>2 DEF KeepsBooks, OnDisk
  <2>3. ASSUME TickSave PROVE KeepsBooks
    BY <1>1, <2>3 DEF TickSave, Safe, Carried, CarriesAll, Ticking, InMem, Item, OnDisk, KeepsBooks
  <2>4. KeepsBooks
    BY <1>3, <2>2, <2>3
    DEF TickStep, TickBegin, TickWarm, TickCreate, TickChatDone, TickReconciled, TickFails, TickSkip,
        TickTake, TickList
  <2>. QED  BY <1>2, <2>1, <2>4 DEF IInv
<1>4. CASE UNCHANGED vars
  <2>1. UNCHANGED <<disk, unborn, schedLock, tick, lost, del, chat, clr>>
    BY <1>4 DEF vars
  <2>. QED  BY <1>1, <1>2, <2>1, FewerKeep, FewerKeepDeletions DEF IInv, Safely, Deleting, PrunedIsGone
<1>5. CASE ~TickStep /\ Next
  BY <1>1, <1>2, <1>5, DeletionKeeps, ClearKeeps, OperatorKeeps, WorldKeeps DEF Next, IInv, Safely
<1>. QED  BY <1>3, <1>4, <1>5

(* Every variable of the scheduler and of what it shares with the endpoints      *)
(* keeps its type.                                                              *)
THEOREM TypeCorrect == Spec => []TypeOK
<1>1. Init => TypeOK /\ LockIsTicks
  BY InitIInv DEF IInv, Safe, Locks
<1>2. TypeOK /\ LockIsTicks /\ [Next]_vars => (TypeOK /\ LockIsTicks)'
  BY TypeStep
<1>. QED  BY <1>1, <1>2, PTL DEF Spec

LEMMA Inductive == ~ResumeDeleting => (Spec => []IInv)
<1>. SUFFICES ASSUME ~ResumeDeleting PROVE Spec => []IInv
  OBVIOUS
<1>1. IInv /\ [Next]_vars => IInv'
  BY StepKeeps
<1>. QED  BY <1>1, InitIInv, PTL DEF Spec

(* Every message waiting at Telegram is listed by the file or carried by the     *)
(* running tick, unless a tick that failed or was cut off lost its id.            *)
THEOREM NoMessageIsUntracked == ~ResumeDeleting => (Spec => []NothingUntracked)
<1>. SUFFICES ASSUME ~ResumeDeleting PROVE Spec => []NothingUntracked
  OBVIOUS
<1>1. IInv => NothingUntracked
  BY DEF IInv, Safe
<1>. QED  BY <1>1, Inductive, PTL

(* A deletion that succeeds leaves nothing of its schedule at Telegram, whatever *)
(* ticks, other deletions, clears, failed calls and restarts come in between.     *)
THEOREM DeletionIsComplete == ~ResumeDeleting => (Spec => []DeletedLeavesNothing)
<1>. SUFFICES ASSUME ~ResumeDeleting PROVE Spec => []DeletedLeavesNothing
  OBVIOUS
<1>1. IInv => DeletedLeavesNothing
  BY TickShape DEF IInv, Safe, NothingUntracked, Known, OnDisk, InTick, Ticking, DeletedLeavesNothing
<1>. QED  BY <1>1, Inductive, PTL

(* No removal, retry or restart makes the file forget a message it listed and    *)
(* that is still waiting.                                                       *)
THEOREM BooksAreKept == ~ResumeDeleting => (Spec => TrackedNeverDropped)
<1>. SUFFICES ASSUME ~ResumeDeleting PROVE Spec => TrackedNeverDropped
  OBVIOUS
<1>1. IInv /\ [Next]_vars => [\A t \in Target : \A m \in chat[t] \cap chat'[t] : OnDisk(m, t) => OnDisk(m, t)']_vars
  BY StepKeeps DEF KeepsBooks
<1>. QED  BY <1>1, Inductive, PTL DEF Spec, TrackedNeverDropped

(* A fire is asked for only when nothing collected in that chat is for it, and    *)
(* everything of the schedule that waits there was collected or lost.            *)
LEMMA OnePendingStep ==
    ASSUME IInv, OnePendingPerFire, [Next]_vars
    PROVE  OnePendingPerFire'
<1>1. TypeOK /\ Safe
  BY DEF IInv
<1>2. CASE TickCreate
  <2>. DEFINE new == [id |-> FreshId, fire |-> Min(Missing), owner |-> tick.s]
  <2>1. /\ tick.pc = "fill" /\ tick.t \in Target
        /\ chat' = [chat EXCEPT ![tick.t] = @ \cup {new}] /\ lost' = lost \ {FreshId}
    BY <1>1, <1>2, TickShape DEF TickCreate
  <2>2. Min(Missing) \in Missing
    <3>1. Missing \in SUBSET Nat /\ Missing # {}
      BY <1>2, NativeAssumption DEF TickCreate, Missing, Desired, Fire
    <3>. QED  BY <3>1, MinIsIn
  <2>3. \A t \in Target : \A m \in chat[t] : m.id # FreshId
    BY <1>2, FreshIdIsNew DEF TickCreate
  <2>4. new.owner = tick.s /\ new.fire = Min(Missing) /\ new.id = FreshId
    OBVIOUS
  <2>5. \A m \in chat[tick.t] : m.owner = tick.s /\ m.fire = Min(Missing) => m.id \in lost
    <3>. SUFFICES ASSUME NEW m \in chat[tick.t], m.owner = tick.s, m.fire = Min(Missing), m.id \notin lost
                  PROVE  FALSE
      OBVIOUS
    <3>1. InTick(m, tick.t)
      BY <1>1, <2>1 DEF Safe, Carried, CarriesAll, Ticking
    <3>2. Item(m) \in tick.tracked
      BY <1>1, <2>1, <3>1, InTickIs DEF Safe, Carried, CollectsAll
    <3>3. Item(m).fire = Min(Missing)
      BY DEF Item
    <3>. QED  BY <2>2, <3>2, <3>3 DEF Missing
  <2>6. \A t \in Target : \A m \in chat'[t] : m \in chat[t] \/ (t = tick.t /\ m = new)
    BY <1>1, <2>1 DEF TypeOK
  <2>. HIDE DEF new
  <2>7. ASSUME NEW t \in Target, NEW m \in chat'[t], NEW n \in chat'[t], m.owner = n.owner,
               m.fire = n.fire, m.id \notin lost', n.id \notin lost'
        PROVE  m = n
    <3>1. CASE m \in chat[t] /\ n \in chat[t]
      BY <2>1, <2>3, <2>7, <3>1 DEF OnePendingPerFire
    <3>2. CASE t = tick.t /\ m = new /\ n \in chat[t]
      BY <2>1, <2>3, <2>4, <2>5, <2>7, <3>2
    <3>3. CASE t = tick.t /\ n = new /\ m \in chat[t]
      BY <2>1, <2>3, <2>4, <2>5, <2>7, <3>3
    <3>. QED  BY <2>6, <3>1, <3>2, <3>3
  <2>. QED  BY <2>7 DEF OnePendingPerFire
<1>3. ASSUME \A t \in Target : chat'[t] \subseteq chat[t], lost \subseteq lost'
      PROVE  OnePendingPerFire'
  BY <1>3 DEF OnePendingPerFire
<1>4. ASSUME ~TickCreate
      PROVE  (\A t \in Target : chat'[t] \subseteq chat[t]) /\ lost \subseteq lost'
  <2>1. CASE TickStep
    BY <1>4, <2>1 DEF TickStep, TickBegin, TickWarm, TickChatDone, TickReconciled, TickFails,
       TickSave, TickSkip, TickTake, TickList
  <2>2. ASSUME NEW r \in Request, DeleteStep(r)
        PROVE  (\A t \in Target : chat'[t] \subseteq chat[t]) /\ lost \subseteq lost'
    <3>1. chat' = chat \/ \E t \in Target, ids \in {IdsOf(del[r].copy[u]) : u \in Target} : chat' = Without(t, ids)
      BY <2>2 DEF DeleteStep, DeleteGuard, DeleteTornDown, DeleteFails, DeleteCommit, DeleteRetain, DeleteChat
    <3>2. lost' = lost
      BY <2>2 DEF DeleteStep, DeleteGuard, DeleteTornDown, DeleteFails, DeleteCommit, DeleteRetain, DeleteChat
    <3>. QED  BY <1>1, <3>1, <3>2, WithoutRemoves
  <2>3. CASE ClearStep
    <3>1. chat' = chat \/ (clr.t \in Target /\ chat' = Without(clr.t, clr.ids))
      BY <1>1, <2>3 DEF ClearStep, ClearDelete, ClearFails, ClearPrune, TypeOK
    <3>2. lost' = lost
      BY <2>3 DEF ClearStep, ClearDelete, ClearFails, ClearPrune
    <3>. QED  BY <1>1, <3>1, <3>2, WithoutRemoves
  <2>4. CASE Operator
    BY <2>4 DEF Operator, Create, Update, DeleteBegin, ClearBegin
  <2>5. CASE World
    BY <1>1, <2>5 DEF World, Clock, Crash, Deliver, TypeOK
  <2>6. CASE UNCHANGED vars
    BY <2>6 DEF vars
  <2>. QED  BY <2>1, <2>2, <2>3, <2>4, <2>5, <2>6 DEF Next
<1>. QED  BY <1>2, <1>3, <1>4

(* A fire waits once in a chat, whatever fails: only a message that a tick lost   *)
(* is sent again.                                                               *)
THEOREM FiresWaitOnce == ~ResumeDeleting => (Spec => []OnePendingPerFire)
<1>. SUFFICES ASSUME ~ResumeDeleting PROVE Spec => []OnePendingPerFire
  OBVIOUS
<1>1. Init => OnePendingPerFire
  BY DEF Init, NoIds, OnePendingPerFire
<1>2. IInv /\ OnePendingPerFire /\ [Next]_vars => OnePendingPerFire'
  BY OnePendingStep
<1>. QED  BY <1>1, <1>2, Inductive, PTL DEF Spec

=============================================================================
