------------------------------- MODULE SyncPanel -------------------------------
(* The Sync tab (screens/actions/sync.tsx): the operator chooses a source, the   *)
(* targets and the states to copy, previews the plan and runs it.  Every edit    *)
(* drops the plan, but not the preview that is under way.                        *)
EXTENDS SyncPlan

CONSTANTS
    Accounts,    \* the authorized accounts
    Lists,       \* the lists of dialogs the server may have cached
    MAX_STEPS, MAX_OPS,
    max_operations,  \* the server's limit, from the safety settings
    None

\* The server caches a row per chat, with both states; keys are of one chat.
ASSUME ListsAssumption ==
    \A list \in Lists :
        /\ list \in Seq(Listed(list))
        /\ \A d \in Listed(list) : d.archive \in BOOLEAN /\ d.mute \in BOOLEAN
        /\ \A i, j \in DOMAIN list : syncKey(list[i]) = syncKey(list[j]) => i = j

VARIABLES
    view, job,   \* the panel that is mounted; the handler inside guarded
    choice,      \* sourceId, targetIds and options
    plan         \* what the preview computed, and from what (history)

NoChoice == [source |-> None, targets |-> {}, options |-> States]
NoJob == [op |-> "none", at |-> "idle", left |-> FALSE]

SyncInit == choice = NoChoice /\ plan = None
SyncReset == choice' = NoChoice /\ plan' = None

Here == view = "sync" /\ job.at # "ask"

\* The Select, the check boxes and toggleTarget
Choose(c) ==
    /\ Here /\ c # choice
    /\ \/ \E a \in Accounts : c = [choice EXCEPT !.source = a, !.targets = @ \ {a}]
       \/ \E a \in Accounts \ {choice.source} :
              /\ choice.source # None
              /\ c = [choice EXCEPT !.targets = (@ \ {a}) \cup ({a} \ @)]
       \/ \E s \in States : c = [choice EXCEPT !.options = (@ \ {s}) \cup ({s} \ @)]
    /\ choice' = c /\ plan' = None
    /\ UNCHANGED job

\* preview: the plan goes even when guarded then refuses the work.
Preview ==
    /\ Here /\ choice.source # None
    /\ plan' = None
    /\ job' = IF job = NoJob /\ choice.targets \ {choice.source} # {} /\ choice.options # {}
              THEN [op |-> "preview", at |-> "get", left |-> FALSE, choice |-> choice]
              ELSE job
    /\ UNCHANGED choice
PreviewLands(read) ==
    /\ job.op = "preview" /\ job' = NoJob
    /\ LET c == job.choice
           steps == UNION {buildSyncSteps(a, read[c.source], read[a], c.options)
                             : a \in c.targets \ {c.source}}
       IN plan' = IF job.left THEN plan
                  ELSE [of |-> c, read |-> read, steps |-> steps, opCount |-> syncOpCount(steps)]
    /\ UNCHANGED choice
PreviewFails ==
    /\ job.op = "preview" /\ job' = NoJob
    /\ UNCHANGED <<choice, plan>>

overLimit == Cardinality(plan.steps) > MAX_STEPS \/ plan.opCount > MAX_OPS
\* run: guarded is held until pollQueueRun has seen the run over.
Run ==
    /\ Here /\ job = NoJob /\ plan # None /\ plan.steps # {} /\ ~overLimit
    /\ job' = [op |-> "sync", at |-> "post", left |-> FALSE, opCount |-> plan.opCount]
    /\ UNCHANGED <<choice, plan>>
RunQueued ==
    /\ job.op = "sync" /\ job.at = "post" /\ job.opCount <= max_operations
    /\ job' = [job EXCEPT !.at = "poll"]
    /\ plan' = IF job.left THEN plan ELSE None
    /\ UNCHANGED choice
\* Over; or refused, or failed, and the plan stays.
RunEnds ==
    /\ job.op = "sync" /\ job' = NoJob
    /\ UNCHANGED <<choice, plan>>

SyncClicks ==
    \/ \E c \in [source : Accounts \cup {None}, targets : SUBSET Accounts, options : SUBSET States] :
           Choose(c)
    \/ Preview \/ Run
SyncAnswers ==
    \/ \E read \in [Accounts -> Lists] : PreviewLands(read)
    \/ PreviewFails \/ RunQueued \/ RunEnds

-------------------------------------------------------------------------------
\* What the steps of a plan make of a state of a dialog.
After(steps, account, d, state) ==
    LET Sets(on) == \E s \in steps : /\ s.account = account /\ s.action = <<state, on>>
                                     /\ dialogTarget(d) \in s.targets
    IN IF Sets(TRUE) THEN TRUE ELSE IF Sets(FALSE) THEN FALSE ELSE d[state]
\* "Only chats both accounts share are touched": a plan, once run, brings each
\* chat of a target that the source has too to the state it has there, in the
\* chosen states, changes nothing else - the source least of all -, and no step of
\* it is over the server's cap or empty.
PlanCopiesTheSource ==
    plan # None =>
        LET of == plan.of IN
        /\ \A a \in Accounts : \A d \in Listed(plan.read[a]) : \A state \in States :
               LET same == {src \in Listed(plan.read[of.source]) : syncKey(src) = syncKey(d)} IN
               After(plan.steps, a, d, state) =
                   IF a \in of.targets /\ state \in of.options /\ same # {}
                   THEN \E src \in same : src[state] ELSE d[state]
        /\ \A s \in plan.steps : Cardinality(s.targets) \in 1 .. MAX_TARGETS_PER_STEP

\* Refuted: the plan shown is for what is chosen; a choice made while the preview
\* is under way leaves the plan of the old choice on display.
PlanIsForTheChoice == plan # None => plan.of = choice
\* Refuted: "Queue hard limits (mirrors ActionQueueRequest)"; the server's limit is
\* the one of the safety settings, 100 unless they are changed.
RunsAreWithinTheLimit ==
    [][Run => plan.opCount <= max_operations]_<<view, job, choice, plan>>
===============================================================================
