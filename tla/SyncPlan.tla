------------------------------- MODULE SyncPlan -------------------------------
(* lib/sync.ts: the archive and mute operations that bring one account's chats  *)
(* to the state of another's, grouped by action and cut into steps of at most   *)
(* MAX_TARGETS_PER_STEP targets.  The order of the steps does not matter to what *)
(* they do and is left out: a plan is a set of steps.                           *)
EXTENDS Integers, Sequences, FiniteSetsExt

CONSTANT MAX_TARGETS_PER_STEP
ASSUME CapAssumption == MAX_TARGETS_PER_STEP \in Nat \ {0}

\* A cached dialog has a chat, whether the cache has a username for it (named), and
\* whether it is in each of the states.
States == {"archive", "mute"}

\* syncKey and dialogTarget: the username or the id; the case of letters aside,
\* both say the same of a dialog.
syncKey(d) == <<d.named, d.chat>>
dialogTarget(d) == syncKey(d)

Listed(list) == {list[i] : i \in DOMAIN list}

\* The test of syncDiff for one dialog of the source and one state: "on" tells
\* archive_chat from unarchive_chat, mute_chat from unmute_chat.
Needs(src, target, state, on) ==
    \E dst \in Listed(target) :
        syncKey(dst) = syncKey(src) /\ src[state] = on /\ dst[state] # on

\* syncDiff, grouped by action type as buildSyncSteps does: the dialogs of one action,
\* by their place in the list of the source.
syncDiff(source, target, state, on) ==
    {i \in DOMAIN source : Needs(source[i], target, state, on)}
\* How many of them were pushed before one of them
Before(hits, i) == Cardinality({j \in hits : j < i})

\* The loop `for (i = 0; i < length; i += MAX) slice(i, i + MAX)`; the order in which
\* a step has its targets is left out as well.
Starts(n) == {i \in 0 .. n - 1 : i % MAX_TARGETS_PER_STEP = 0}
Slice(hits, start) ==
    {i \in hits : Before(hits, i) \in start .. start + MAX_TARGETS_PER_STEP - 1}
Chunk(source, hits, start) == {dialogTarget(source[i]) : i \in Slice(hits, start)}

\* Mutant: the last, short chunk of an action is dropped.
StepsOfFullChunks(account, source, target, options) ==
    UNION {LET hits == syncDiff(source, target, state, on)
           IN {[action |-> <<state, on>>, targets |-> Chunk(source, hits, start), account |-> account]
                 : start \in {k \in Starts(Cardinality(hits)) :
                                 k + MAX_TARGETS_PER_STEP <= Cardinality(hits)}}
             : state \in options, on \in BOOLEAN}
\* buildSyncSteps for one of the target accounts
buildSyncSteps(account, source, target, options) ==
    UNION {LET hits == syncDiff(source, target, state, on)
           IN {[action |-> <<state, on>>, targets |-> Chunk(source, hits, start), account |-> account]
                 : start \in Starts(Cardinality(hits))}
             : state \in options, on \in BOOLEAN}

syncOpCount(steps) == MapThenSumSet(LAMBDA s : Cardinality(s.targets), steps)
===============================================================================
