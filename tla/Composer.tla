------------------------------- MODULE Composer -------------------------------
(* The Actions screen composes one action - its form, its targets, its accounts *)
(* and a condition - and runs it, schedules it or saves it as a preset:         *)
(* useQueueState, RunPanel, ActionPicker, useScheduleComposer, ScheduleModal.   *)
(* The server answers the preview, the creation and the presets at some later   *)
(* time, and the draft goes on being edited.  Names, times and wording are      *)
(* abstract.                                                                   *)
EXTENDS ActionForm

CONSTANTS
    Actions,       \* the actions the operator picks from
    Targets, KindOf,      \* the targets, and the kind of each
    Senders,       \* the accounts to act with
    Typed,         \* Typed[n]: the values put in the field n
    Recurrences,   \* the recurrence forms the operator fills in
    DefaultForm,   \* defaultRecurrenceForm
    Presets,       \* preset names
    Nothing,
    MaxEdits,      \* bound: edits of the draft, the accounts and the recurrence
    MaxPosts       \* bound: requests made

ASSUME ActionsAssumption == Actions \subseteq ActionTypes /\ "send_message" \in Actions
ASSUME TargetsAssumption == KindOf \in [Targets -> TargetKinds]
ASSUME RecurrencesAssumption ==
    Recurrences \cup {DefaultForm} \subseteq
        [interval : {"ok", "bad"}, start : {"interval", "delay", "at"}, startOk : BOOLEAN,
         end : {"count", "until", "forever"}, endOk : BOOLEAN]
\* A text is a sequence of lines, with a key only where the line has it for its
\* option; the referral type is one of the two options.
ASSUME TypedAssumption ==
    \A n \in DOMAIN Typed : \A v \in Typed[n] :
        /\ n \in {"text", "caption"} =>
               v \in Seq(Range(v)) /\ \A l \in Range(v) : l.key \in {"", l.opt}
        /\ n = "referral_mode" => v \in {"start", "startapp"}
ASSUME PostsAssumption == MaxEdits \in Nat /\ MaxPosts \in Nat

VARIABLES
    draft,       \* actionDraft
    accts,       \* actionAccountIds
    open,        \* scheduleOpen
    form, named, \* the recurrence form; whether the schedule has a name
    preview,     \* previewState: the draft it is of; whether that is actionDraft
    composing,   \* the handler inside guarded
    run,         \* the handler inside actionBusy
    saved,       \* the presets document
    offered,     \* presets, as last read
    unlisted,    \* a stored schedule has a step without a message
    sent,        \* the last request to act the server accepted
    edits, posts

composer == <<open, form, named, preview>>
server == <<saved, unlisted, sent>>
composerVars == <<draft, accts, composer, composing, run, server, offered, edits, posts>>

NoPreview == [of |-> Nothing, same |-> FALSE]
NoRequest == [op |-> "none", at |-> "none"]
Idle == [at |-> "none"]
JoinDraft == [action |-> "join_chat", target |-> {}, fields |-> defaultFieldValues("join_chat"),
              condition |-> "none"]

ComposerInit ==
    /\ draft = JoinDraft /\ accts = {}
    /\ open = FALSE /\ form = DefaultForm /\ named = FALSE /\ preview = NoPreview
    /\ composing = NoRequest /\ run = Idle
    /\ saved = [p \in Presets |-> Nothing] /\ offered = [p \in Presets |-> Nothing]
    /\ unlisted = FALSE /\ sent = Nothing
    /\ edits = 0 /\ posts = 0

-------------------------------------------------------------------------------
(* What the screen derives from its state.                                     *)

\* partitionTargets(...).valid
Valid(d) == {t \in d.target : TargetFits(KindOf[t], d.action)}
\* queueStepFromDraft
Step(d, ids) ==
    [action |-> d.action, targets |-> Valid(d), accounts |-> ids,
     message |-> serializeFields(d.action, d.fields), condition |-> d.condition]
\* buildDraftPayload has a step only with a target and an account.
HasStep(d, ids) == Valid(d) # {} /\ ids # {}
\* computeBlocker finds nothing
Unblocked(d, ids) == HasStep(d, ids) /\ isActionFormValid(d.action, d.fields)

validateRecurrence ==
    /\ form.interval = "ok"
    /\ form.start # "interval" => form.startOk
    /\ form.end # "forever" => form.endOk
\* scheduleBlocker finds nothing
Schedulable == HasStep(draft, accts) /\ named /\ validateRecurrence
PreviewShown == preview.of # Nothing /\ preview.same

DialogOpen == run.at = "ask" \/ composing.at = "ask"
\* The schedule modal covers the panel.
PanelLive == ~DialogOpen /\ ~open
ModalLive == ~DialogOpen /\ open

-------------------------------------------------------------------------------
(* Edits.  setActionDraft puts a new object in place of the draft.             *)

Edit == edits < MaxEdits /\ edits' = edits + 1
Stale(j) == IF j.op = "preview" THEN [j EXCEPT !.same = FALSE] ELSE j
setActionDraft(d) ==
    /\ draft' = d
    /\ preview' = [preview EXCEPT !.same = FALSE]
    /\ composing' = Stale(composing)
    /\ UNCHANGED <<open, form, named, run, server, posts>>

Pick(a) ==
    /\ PanelLive /\ Edit /\ a \in Actions /\ a # draft.action
    /\ setActionDraft([draft EXCEPT !.action = a, !.fields = carryFieldValues(a, draft.fields)])
    /\ UNCHANGED <<accts, offered>>
Fill(n, v) ==
    /\ PanelLive /\ Edit /\ n \in Fields(draft.action) /\ draft.fields[n] # v
    /\ setActionDraft([draft EXCEPT !.fields[n] = v])
    /\ UNCHANGED <<accts, offered>>
\* TargetComposer adds, removes and clears.
SetTargets(ts) ==
    /\ PanelLive /\ Edit /\ ts # draft.target
    /\ setActionDraft([draft EXCEPT !.target = ts])
    /\ UNCHANGED <<accts, offered>>
SetCondition(c) ==
    /\ PanelLive /\ Edit /\ c # draft.condition
    /\ setActionDraft([draft EXCEPT !.condition = c])
    /\ UNCHANGED <<accts, offered>>
SetAccounts(ids) ==
    /\ PanelLive /\ Edit /\ ids # accts
    /\ accts' = ids
    /\ UNCHANGED <<draft, composer, composing, run, server, offered, posts>>

\* loadPreset; the client's schema has dropped the condition of the step.
LoadPreset(p) ==
    /\ PanelLive /\ offered[p] # Nothing
    /\ setActionDraft([action |-> offered[p].action, target |-> offered[p].targets,
                       fields |-> deserializeFields(offered[p].action, offered[p].message),
                       condition |-> "none"])
    /\ accts' = offered[p].accounts
    /\ UNCHANGED <<offered, edits>>

\* Away to the Dialogs screen and back with targets: useSelectedTargets, or
\* scheduleSelected, which opens the modal on an empty message.  The screen is
\* mounted anew, and what its old handlers set is lost.
Abandoned(j) == IF j.op \in {"preview", "create"} THEN [j EXCEPT !.alive = FALSE] ELSE j
Stage(ts, a, schedule) ==
    /\ ~DialogOpen /\ ~open /\ Edit /\ ts # {}
    /\ draft' = IF schedule
                THEN [action |-> "send_message", target |-> ts,
                      fields |-> defaultFieldValues("send_message"), condition |-> "none"]
                ELSE [draft EXCEPT !.target = ts]
    /\ accts' = accts \cup {a}
    /\ open' = schedule /\ form' = DefaultForm /\ named' = FALSE /\ preview' = NoPreview
    /\ composing' = Abandoned(Stale(composing)) /\ run' = run
    /\ UNCHANGED <<server, offered, posts>>

\* The modal clears the preview with every edit of its own.
OpenModal ==
    /\ PanelLive /\ Unblocked(draft, accts) /\ open' = TRUE
    /\ UNCHANGED <<draft, accts, form, named, preview, composing, run, server, offered, edits, posts>>
CloseModal ==
    /\ ModalLive /\ open' = FALSE
    /\ UNCHANGED <<draft, accts, form, named, preview, composing, run, server, offered, edits, posts>>
EditSchedule(f, nm) ==
    /\ ModalLive /\ Edit /\ <<f, nm>> # <<form, named>>
    /\ form' = f /\ named' = nm /\ preview' = NoPreview
    /\ UNCHANGED <<draft, accts, open, composing, run, server, offered, posts>>

-------------------------------------------------------------------------------
(* The handlers.                                                               *)

Post == posts < MaxPosts /\ posts' = posts + 1
GuardFree == composing.op = "none"
Untouched == UNCHANGED <<draft, accts, composer, offered, server, edits>>

\* runNow: the payload is the one of the render that was clicked.
ClickRun ==
    /\ PanelLive /\ run.at = "none" /\ Unblocked(draft, accts) /\ Post
    /\ run' = [at |-> "ask", of |-> draft, step |-> Step(draft, accts)]
    /\ UNCHANGED composing /\ Untouched
AnswerRun(yes) ==
    /\ run.at = "ask"
    /\ run' = IF yes THEN [run EXCEPT !.at = "post"] ELSE Idle
    /\ UNCHANGED <<composing, posts>> /\ Untouched

ClickPreview ==
    /\ ModalLive /\ GuardFree /\ Schedulable /\ Post
    /\ composing' = [op |-> "preview", at |-> "post", of |-> draft, same |-> TRUE, alive |-> TRUE]
    /\ UNCHANGED run /\ Untouched
ClickCreate ==
    /\ ModalLive /\ GuardFree /\ Schedulable /\ Post
    /\ composing' = [op |-> "create", at |-> "post", alive |-> TRUE, of |-> draft,
               step |-> Step(draft, accts)]
    /\ UNCHANGED run /\ Untouched
\* saveCurrent asks for a name; it does not look at the form.
ClickSave ==
    /\ PanelLive /\ GuardFree /\ HasStep(draft, accts) /\ Post
    /\ composing' = [op |-> "save", at |-> "ask", step |-> Step(draft, accts)]
    /\ UNCHANGED run /\ Untouched
ClickDelete(p) ==
    /\ PanelLive /\ GuardFree /\ offered[p] # Nothing /\ Post
    /\ composing' = [op |-> "delete", at |-> "ask", name |-> p]
    /\ UNCHANGED run /\ Untouched
\* The name is typed in the dialog of the save.
AnswerName(p) ==
    /\ composing.op = "save" /\ composing.at = "ask"
    /\ composing' = [op |-> "save", at |-> "post", step |-> composing.step, name |-> p]
    /\ UNCHANGED <<run, posts>> /\ Untouched
AnswerDelete ==
    /\ composing.op = "delete" /\ composing.at = "ask"
    /\ composing' = [composing EXCEPT !.at = "post"]
    /\ UNCHANGED <<run, posts>> /\ Untouched
Dismiss ==
    /\ composing.op \in {"save", "delete"} /\ composing.at = "ask"
    /\ composing' = NoRequest
    /\ UNCHANGED <<run, posts>> /\ Untouched

\* validate_step
Accepted(step) == step.action \in MESSAGE_REQUIRED_ACTIONS => step.message # <<>>
\* classifyScheduleEngine and classify_engine, of the one step
Engine(native) == IF native THEN "native" ELSE "runner"

RunStarts ==
    /\ run.at = "post" /\ Accepted(run.step)
    /\ sent' = [kind |-> "run", of |-> run.of, step |-> run.step]
    /\ run' = Idle
    /\ UNCHANGED <<draft, accts, composer, composing, saved, unlisted, offered, edits, posts>>
RunRefused ==
    /\ run.at = "post" /\ run' = Idle
    /\ UNCHANGED <<composing, posts>> /\ Untouched

\* Mutant: the answer is tagged with the draft of the moment it lands.
TagNow(j) == [of |-> j.of, same |-> TRUE]
\* setPreview of the render that was clicked tags the answer with its draft.
Tag(j) == [of |-> j.of, same |-> j.same]
DatesLand ==
    /\ composing.op = "preview"
    /\ preview' = IF composing.alive THEN Tag(composing) ELSE preview
    /\ composing' = NoRequest
    /\ UNCHANGED <<draft, accts, open, form, named, run, server, offered, edits, posts>>

\* The schedule is stored, and the modal is reset before the list is read.
CreateSucceeds ==
    /\ composing.op = "create" /\ composing.at = "post" /\ Accepted(composing.step)
    /\ sent' = [kind |-> "schedule", of |-> composing.of, step |-> composing.step,
                shown |-> Engine(stepIsNativeSchedulable(composing.step)),
                engine |-> Engine(_step_is_native(composing.step))]
    /\ unlisted' = (unlisted \/ composing.step.message = <<>>)
    /\ IF composing.alive THEN form' = DefaultForm /\ named' = FALSE /\ preview' = NoPreview
                    ELSE UNCHANGED <<form, named, preview>>
    /\ composing' = [composing EXCEPT !.at = "reload"]
    /\ UNCHANGED <<draft, accts, open, run, saved, offered, edits, posts>>
\* The list does not parse while a step in it has a null message; then onCreated
\* is not reached and the modal stays open.
CreateEnds ==
    /\ composing.op = "create" /\ composing.at = "reload"
    /\ open' = IF composing.alive /\ ~unlisted THEN FALSE ELSE open
    /\ composing' = NoRequest
    /\ UNCHANGED <<draft, accts, form, named, preview, run, server, offered, edits, posts>>

\* save_action_preset replaces the preset of that name, delete_action_preset
\* removes it; then loadPresets follows.
PresetStored ==
    /\ composing.op \in {"save", "delete"} /\ composing.at = "post"
    /\ composing.op = "save" => Accepted(composing.step)
    /\ saved' = [saved EXCEPT ![composing.name] = IF composing.op = "save" THEN composing.step ELSE Nothing]
    /\ composing' = [composing EXCEPT !.at = "reload"]
    /\ UNCHANGED <<draft, accts, composer, run, unlisted, sent, offered, edits, posts>>
Parses(stored) == \A p \in Presets : stored[p] # Nothing => stored[p].message # <<>>
PresetsLand ==
    /\ composing.op \in {"save", "delete"} /\ composing.at = "reload"
    /\ offered' = IF Parses(saved) THEN saved ELSE offered
    /\ composing' = NoRequest
    /\ UNCHANGED <<draft, accts, composer, run, server, edits, posts>>
\* Any request can fail, before the server has acted or after.
JobFails ==
    /\ composing.at \in {"post", "reload"} /\ composing' = NoRequest
    /\ UNCHANGED <<run, posts>> /\ Untouched

-------------------------------------------------------------------------------
Answers ==
    \/ RunStarts \/ DatesLand \/ CreateSucceeds \/ CreateEnds
    \/ PresetStored \/ PresetsLand
Clicks ==
    \/ ClickRun \/ ClickPreview \/ ClickCreate \/ ClickSave
    \/ \E p \in Presets : ClickDelete(p) \/ AnswerName(p)
    \/ \E yes \in BOOLEAN : AnswerRun(yes)
    \/ AnswerDelete \/ Dismiss \/ OpenModal \/ CloseModal
Edits ==
    \/ \E a \in Actions : Pick(a)
    \/ \E n \in DOMAIN Typed : \E v \in Typed[n] : Fill(n, v)
    \/ \E ts \in SUBSET Targets : SetTargets(ts)
    \/ \E c \in {"none", "set"} : SetCondition(c)
    \/ \E ids \in SUBSET Senders : SetAccounts(ids)
    \/ \E p \in Presets : LoadPreset(p)
    \/ \E ts \in SUBSET Targets, a \in Senders, schedule \in BOOLEAN : Stage(ts, a, schedule)
    \/ \E f \in Recurrences, nm \in BOOLEAN : EditSchedule(f, nm)
ComposerNext == Answers \/ Clicks \/ Edits \/ RunRefused \/ JobFails
ComposerSpec == ComposerInit /\ [][ComposerNext]_composerVars

-------------------------------------------------------------------------------
(* Properties                                                                  *)

\* The preview on display was computed for the action, fields, targets and
\* condition that are in the panel, whatever was edited while it was under way.
PreviewIsForTheDraft == PreviewShown => preview.of = draft

\* What a form gives an option: its field, a parse mode of none and a referral type
\* without a referral aside, or the last line of the text that looks like it.
Given(d, n, x) ==
    LET text == TypedText(d.action, d.fields)
        field == IF x # n \/ (n = "parse_mode" /\ d.fields[n] = "none") THEN ""
                 ELSE Normalized(n, d.fields[n])
    IN LastOf(text, ByOption(text, x), field)
OptionMeant(d, n) == FirstGiven(n, [x \in Range(Names(n)) |-> Given(d, n, x)])
Meant(d) ==
    [n \in Fields(d.action) |->
        CASE n \in Body(d.action) ->
                IF d.action = "send_message" THEN TypedText(d.action, d.fields)
                ELSE TextRead(TypedText(d.action, d.fields), n)
          [] n \in {"source", "referral_value"} -> d.fields[n]
          [] n = "referral_mode" ->
                IF d.fields["referral_value"] = "" THEN Default(n) ELSE d.fields[n]
          [] OTHER -> OptionMeant(d, n)]
\* What the server reads in the message of an accepted step is what was typed in
\* the form: its text as it would be read alone, and its options as they are in
\* their fields, but for one that a line of the text gives as well (a line with
\* `=` is no text, and the one that is last counts).
WhatIsTypedIsSent ==
    sent # Nothing => parse_options(sent.step.action, sent.step.message) = Meant(sent.of)

\* The engine the modal announced for a schedule is the one the server chose: the
\* two classifiers stay in step.
EngineIsAsShown == sent # Nothing /\ sent.kind = "schedule" => sent.shown = sent.engine

\* A line of the text competes with the form for an option, or asks for the parse
\* mode `none`, which the form stands for by writing no line.
Contested(m, n) ==
    \/ \E i, j \in ByOption(m, n) : i # j
    \/ n = "parse_mode" /\ Option(m, n) = "none"
\* A preset that is loaded gives back the action that was saved, its condition
\* aside: the same targets and accounts, and a message in which the server reads the
\* same text and the same options, but for a contested one.
PresetRestoresTheAction ==
    [][\A p \in Presets :
        LoadPreset(p) =>
            LET old == offered[p]
                new == Step(draft', accts')
            IN /\ new.action = old.action /\ new.targets = old.targets
               /\ new.accounts = old.accounts
               /\ \A n \in Fields(old.action) :
                      \/ Contested(old.message, n)
                      \/ parse_options(new.action, new.message)[n]
                             = parse_options(old.action, old.message)[n]]_composerVars

\* "Saved actions appear here for one-click reuse": a list that is read shows what
\* the server has.
SavedActionsAppear == [][PresetsLand => offered' = saved]_composerVars
===============================================================================
