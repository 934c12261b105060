--------------------------- MODULE DialogsViewProofs ---------------------------
(* Proofs about DialogsView, for every set of accounts and chats.               *)
EXTENDS DialogsView, TLAPS

\* As long as no read strayed: the one read in flight, if any, is of this visit
\* and was made with the account whose selection is kept now.
ReadIsCurrent ==
    /\ \A q \in asks : ~q.left /\ q.cur = current
    /\ \A p, q \in asks : p = q
    /\ guard.op # "fetch"
\* What is shown, ticked and stored is of the account whose selection is kept.
ListIsOf(a) == shown \subseteq ChatsOf(a) /\ chosen \subseteq ChatsOf(a)
Home ==
    /\ IF current = NoAccount THEN shown = {} ELSE ListIsOf(current)
    /\ \A a \in Accounts : stored[a] \subseteq ChatsOf(a)
StraysOrHome == ~strayed => ReadIsCurrent /\ Home
\* The selection of the account at hand is stored as it is ticked.
Kept == current # NoAccount => stored[current] = chosen
IInv == TypeOK /\ StraysOrHome /\ Kept /\ QuickActionsFit

LEMMA InitIInv == Init => IInv
<1>1. SUFFICES ASSUME Init PROVE IInv
  OBVIOUS
<1>2. [a \in Accounts |-> {}] \in [Accounts -> SUBSET Chats] /\ NoWork \in Work /\ Nothing \in Staged
  BY DEF NoWork, Work, Nothing, Staged
<1>3. TypeOK
  <2>1. mounted \in BOOLEAN /\ due \in BOOLEAN /\ strayed \in BOOLEAN
    BY <1>1, Zenon DEF Init
  <2>2. moves \in 0..MaxSwitches /\ faults \in 0..MaxFaults
    BY <1>1, BoundsAssumption DEF Init
  <2>3. account \in Accounts /\ current \in Accounts \cup {NoAccount} /\ shown \subseteq Chats
        /\ chosen \subseteq Chats /\ stored \in [Accounts -> SUBSET Chats] /\ asks \subseteq Asks
    BY <1>1, <1>2 DEF Init
  <2>4. guard \in Work /\ staged \in Staged
    BY <1>1, <1>2, Zenon DEF Init
  <2>. QED  BY <2>1, <2>2, <2>3, <2>4 DEF TypeOK
<1>4. StraysOrHome
  BY <1>1 DEF Init, StraysOrHome, ReadIsCurrent, Home, NoWork
<1>5. QuickActionsFit
  BY <1>1 DEF Init, QuickActionsFit, NoWork, ActionTypes
<1>6. Kept
  BY <1>1 DEF Init, Kept
<1>. QED  BY <1>3, <1>4, <1>5, <1>6 DEF IInv

-------------------------------------------------------------------------------
(* Types.                                                                      *)

\* A hand-off, a visit left behind: the reads in flight stay of their type.
LEMMA LeftReadsAreTyped ==
    ASSUME asks \subseteq Asks
    PROVE  {[q EXCEPT !.left = TRUE] : q \in asks} \subseteq Asks
BY DEF Asks

\* What an applied answer leaves behind.
LEMMA AnswerTyped ==
    ASSUME TypeOK, NEW q \in asks, NEW d \in SUBSET Chats, setDialogsWithAccountId(q, d)
    PROVE  /\ shown' \subseteq Chats /\ current' \in Accounts \cup {NoAccount}
           /\ chosen' \subseteq Chats /\ stored' \in [Accounts -> SUBSET Chats]
<1>1. q.acct \in Accounts
  BY DEF TypeOK, Asks
<1>2. shown' \subseteq Chats /\ current' \in Accounts \cup {NoAccount}
  BY <1>1 DEF TypeOK, setDialogsWithAccountId
<1>3. chosen' \subseteq Chats
  BY <1>1 DEF TypeOK, setDialogsWithAccountId
<1>4. stored' \in [Accounts -> SUBSET Chats]
  BY <1>2, <1>3 DEF TypeOK, setDialogsWithAccountId
<1>. QED  BY <1>2, <1>3, <1>4

\* What a tick or a clear leaves behind.
LEMMA ChooseTyped ==
    ASSUME TypeOK, NEW s, Choose(s), s \subseteq Chats
    PROVE  TypeOK'
<1>1. stored' \in [Accounts -> SUBSET Chats]
  BY DEF TypeOK, Choose
<1>. QED  BY <1>1 DEF TypeOK, Choose

LEMMA BeginTyped ==
    ASSUME TypeOK, NEW action, NEW chats \in SUBSET Chats, Begin(action, chats)
    PROVE  TypeOK'
<1>1. action \in ActionTypes
  BY ChatsAssumption DEF Begin
<1>2. guard' \in Work
  BY <1>1 DEF Begin, TypeOK, Work
<1>. QED  BY <1>2 DEF Begin, TypeOK, list

LEMMA TypeStep == TypeOK /\ [Next]_vars => TypeOK'
<1>1. SUFFICES ASSUME TypeOK, [Next]_vars PROVE TypeOK'
  OBVIOUS
<1>2. ASSUME Enter PROVE TypeOK'
  BY <1>1, <1>2, BoundsAssumption DEF TypeOK, Enter, CanMove, Nothing, Staged
<1>3. ASSUME Leave PROVE TypeOK'
  <2>1. asks' \subseteq Asks
    BY <1>1, <1>3, LeftReadsAreTyped DEF TypeOK, Leave
  <2>2. strayed' \in BOOLEAN
    BY <1>1, <1>3, Zenon DEF TypeOK, Leave
  <2>. QED  BY <1>1, <1>3, <2>1, <2>2 DEF TypeOK, Leave
<1>4. ASSUME NEW a \in Accounts, Switch(a) PROVE TypeOK'
  BY <1>1, <1>4, BoundsAssumption DEF TypeOK, Switch, CanMove, Nothing, Staged
<1>5. ASSUME LoadCached PROVE TypeOK'
  <2>1. [acct |-> account, cur |-> current, left |-> FALSE] \in Asks
    BY <1>1 DEF TypeOK, Asks
  <2>2. asks' \subseteq Asks
    BY <1>1, <1>5, <2>1 DEF TypeOK, LoadCached
  <2>. QED  BY <1>1, <1>5, <2>2 DEF TypeOK, LoadCached
<1>6. ASSUME NEW q \in asks, CachedLands(q) PROVE TypeOK'
  <2>1. PICK d \in SUBSET Chats : setDialogsWithAccountId(q, d)
    BY <1>6 DEF CachedLands, ChatsOf
  <2>2. /\ shown' \subseteq Chats /\ current' \in Accounts \cup {NoAccount}
        /\ chosen' \subseteq Chats /\ stored' \in [Accounts -> SUBSET Chats]
    BY <1>1, <2>1, AnswerTyped
  <2>3. faults' \in 0..MaxFaults
    BY <1>1, <1>6, BoundsAssumption DEF TypeOK, CachedLands
  <2>4. asks' \subseteq Asks
    BY <1>1, <1>6 DEF TypeOK, CachedLands
  <2>5. due' \in BOOLEAN
    BY <1>1, <1>6, Zenon DEF TypeOK, CachedLands
  <2>. QED  BY <1>1, <1>6, <2>2, <2>3, <2>4, <2>5 DEF TypeOK, CachedLands
<1>7. ASSUME Retry PROVE TypeOK'
  BY <1>1, <1>7, BoundsAssumption DEF TypeOK, Retry, CanMove
<1>8. ASSUME ClickFetch PROVE TypeOK'
  <2>1. guard' \in Work
    BY <1>1, <1>8 DEF TypeOK, ClickFetch, Work
  <2>. QED  BY <1>1, <1>8, <2>1, BoundsAssumption DEF TypeOK, ClickFetch, CanMove, list
<1>9. ASSUME FetchLands PROVE TypeOK'
  <2>1. shown' \subseteq Chats
    BY <1>1, <1>9 DEF TypeOK, FetchLands, ChatsOf
  <2>2. faults' \in 0..MaxFaults
    BY <1>1, <1>9, BoundsAssumption DEF TypeOK, FetchLands
  <2>3. guard' \in Work
    BY <1>9 DEF FetchLands, NoWork, Work
  <2>. QED  BY <1>1, <1>9, <2>1, <2>2, <2>3 DEF TypeOK, FetchLands
<1>10. ASSUME NEW c \in Chats, Toggle(c) PROVE TypeOK'
  BY <1>1, <1>10, ChooseTyped DEF TypeOK, Toggle
<1>11. ASSUME NEW c \in Chats, RowQuickAction(c) PROVE TypeOK'
  BY <1>1, <1>11, BeginTyped DEF RowQuickAction
<1>12. ASSUME NEW chats \in SUBSET Chats, HandOff(chats) PROVE TypeOK'
  <2>1. asks' \subseteq Asks
    BY <1>1, <1>12, LeftReadsAreTyped DEF TypeOK, HandOff
  <2>2. strayed' \in BOOLEAN
    BY <1>1, <1>12, Zenon DEF TypeOK, HandOff
  <2>3. staged' \in Staged
    BY <1>1, <1>12 DEF TypeOK, HandOff, Staged
  <2>. QED  BY <1>1, <1>12, <2>1, <2>2, <2>3 DEF TypeOK, HandOff
<1>13. ASSUME NEW c \in Chats, UseOne(c) PROVE TypeOK'
  BY <1>12, <1>13 DEF UseOne
<1>14. ASSUME ToggleSelectAll PROVE TypeOK'
  <2>1. Filtered \subseteq Chats
    BY <1>1 DEF TypeOK, Filtered
  <2>. QED  BY <1>1, <1>14, <2>1, ChooseTyped DEF TypeOK, ToggleSelectAll
<1>15. ASSUME ClearSelection PROVE TypeOK'
  BY <1>1, <1>15, ChooseTyped DEF ClearSelection
<1>16. ASSUME NEW k, SetFilter(k) PROVE TypeOK'
  BY <1>1, <1>16 DEF TypeOK, SetFilter
<1>17. ASSUME BulkQuickAction PROVE TypeOK'
  <2>1. Filtered \cap chosen \in SUBSET Chats
    BY <1>1 DEF TypeOK, Filtered
  <2>. QED  BY <1>1, <1>17, <2>1, BeginTyped DEF BulkQuickAction
<1>18. ASSUME ExecuteQuick PROVE TypeOK'
  BY <1>1, <1>18 DEF TypeOK, ExecuteQuick, NoWork, Work, list
<1>19. ASSUME UseSelected PROVE TypeOK'
  <2>1. Visible \in SUBSET Chats
    BY <1>1 DEF TypeOK, Visible
  <2>. QED  BY <1>12, <1>19, <2>1 DEF UseSelected
<1>20. ASSUME NEW yes \in BOOLEAN, Answer(yes) PROVE TypeOK'
  <2>1. guard' \in Work
    BY <1>1, <1>20 DEF TypeOK, Answer, NoWork, Work
  <2>. QED  BY <1>1, <1>20, <2>1 DEF TypeOK, Answer, list
<1>21. ASSUME UNCHANGED vars PROVE TypeOK'
  BY <1>1, <1>21 DEF TypeOK, vars, list
<1>. QED
  BY <1>1, <1>2, <1>3, <1>4, <1>5, <1>6, <1>7, <1>8, <1>9, <1>10, <1>11, <1>13, <1>14,
     <1>15, <1>16, <1>17, <1>18, <1>19, <1>20, <1>21 DEF Next, Loading

-------------------------------------------------------------------------------
(* The selection stays home.                                                   *)

\* What neither the reads nor what is shown or kept is touched by keeps it all.
LEMMA ElsewhereKeepsHome ==
    ASSUME StraysOrHome, strayed' = strayed, guard'.op # "fetch",
           UNCHANGED <<current, shown, chosen, stored, asks>>
    PROVE  StraysOrHome'
BY DEF StraysOrHome, ReadIsCurrent, Home, ListIsOf

\* Leaving with a read in flight strays; leaving without one changes nothing.
LEMMA LeavingKeepsHome ==
    ASSUME StraysOrHome, asks' = {[q EXCEPT !.left = TRUE] : q \in asks},
           strayed' = (strayed \/ asks # {}),
           UNCHANGED <<current, shown, chosen, stored, guard>>
    PROVE  StraysOrHome'
<1>1. ASSUME ~strayed' PROVE (ReadIsCurrent /\ Home)'
  <2>1. ~strayed /\ asks' = {} 
    BY <1>1
  <2>2. ReadIsCurrent /\ Home
    BY <2>1 DEF StraysOrHome
  <2>. QED  BY <2>1, <2>2 DEF ReadIsCurrent, Home, ListIsOf
<1>. QED  BY <1>1 DEF StraysOrHome

\* Ticks are made on what is listed.
LEMMA ChoosingKeepsHome ==
    ASSUME TypeOK, StraysOrHome, NEW s, Choose(s), s \subseteq chosen \cup shown
    PROVE  StraysOrHome'
<1>1. ASSUME ~strayed' PROVE (ReadIsCurrent /\ Home)'
  <2>1. ReadIsCurrent /\ Home /\ stored \in [Accounts -> SUBSET Chats]
    BY <1>1 DEF Choose, StraysOrHome, TypeOK
  <2>2. ReadIsCurrent'
    BY <2>1 DEF Choose, ReadIsCurrent
  <2>3. CASE current = NoAccount
    BY <2>1, <2>2, <2>3 DEF Choose, Home
  <2>4. CASE current # NoAccount
    <3>1. ListIsOf(current) /\ s \subseteq ChatsOf(current)
      BY <2>1, <2>4 DEF Home, ListIsOf
    <3>2. \A a \in Accounts : stored'[a] \subseteq ChatsOf(a)
      BY <2>1, <2>4, <3>1 DEF Choose, Home
    <3>. QED  BY <2>2, <2>4, <3>1, <3>2 DEF Choose, Home, ListIsOf
  <2>. QED  BY <2>3, <2>4
<1>. QED  BY <1>1 DEF StraysOrHome

\* The answer of the one read that is current shows its account's list with the
\* selection that is kept for it.
LEMMA LandingKeepsHome ==
    ASSUME TypeOK, StraysOrHome, NEW q \in asks, CachedLands(q)
    PROVE  StraysOrHome'
<1>1. SUFFICES ASSUME ~strayed PROVE (ReadIsCurrent /\ Home)'
  BY DEF CachedLands, StraysOrHome
<1>2. /\ ReadIsCurrent /\ Home /\ stored \in [Accounts -> SUBSET Chats]
      /\ q.acct \in Accounts /\ q.cur = current /\ asks' = {}
  BY <1>1 DEF StraysOrHome, TypeOK, Asks, ReadIsCurrent, CachedLands
<1>3. ReadIsCurrent'
  BY <1>2 DEF ReadIsCurrent, CachedLands
<1>4. PICK d \in SUBSET ChatsOf(q.acct) : setDialogsWithAccountId(q, d)
  BY DEF CachedLands
<1>5. CASE q.acct # current
  <2>1. current' = q.acct /\ chosen' = stored[q.acct] /\ shown' = d
    BY <1>2, <1>4, <1>5 DEF setDialogsWithAccountId
  <2>2. current' # NoAccount /\ shown' \subseteq ChatsOf(q.acct) /\ chosen' \subseteq ChatsOf(q.acct)
    BY <1>2, <2>1, ChatsAssumption DEF Home
  <2>3. \A a \in Accounts : stored'[a] \subseteq ChatsOf(a)
    BY <1>2, <1>4, <2>1, <2>2 DEF setDialogsWithAccountId, Home
  <2>. QED  BY <1>3, <2>1, <2>2, <2>3 DEF Home, ListIsOf, ChatsOf
<1>6. CASE q.acct = current
  <2>1. current' = current /\ chosen' = chosen /\ shown' = d /\ current # NoAccount
    BY <1>2, <1>4, <1>6, ChatsAssumption DEF setDialogsWithAccountId
  <2>2. chosen \subseteq ChatsOf(current)
    BY <1>2, <2>1 DEF Home, ListIsOf
  <2>3. \A a \in Accounts : stored'[a] \subseteq ChatsOf(a)
    BY <1>2, <1>4, <2>1, <2>2 DEF setDialogsWithAccountId, Home
  <2>. QED  BY <1>3, <1>6, <2>1, <2>2, <2>3 DEF Home, ListIsOf, ChatsOf
<1>. QED  BY <1>5, <1>6

LEMMA HomeStep == TypeOK /\ StraysOrHome /\ [Next]_vars => StraysOrHome'
<1>1. SUFFICES ASSUME TypeOK, StraysOrHome, [Next]_vars PROVE StraysOrHome'
  OBVIOUS
<1>2. ASSUME NEW action, NEW chats, Begin(action, chats) PROVE StraysOrHome'
  <2>1. guard'.op # "fetch"
    BY <1>2, ChatsAssumption DEF Begin, ActionTypes
  <2>. QED  BY <1>1, <1>2, <2>1, ElsewhereKeepsHome DEF Begin, list
<1>3. ASSUME UNCHANGED <<current, shown, chosen, stored, asks, guard, strayed>>
      PROVE StraysOrHome'
  BY <1>1, <1>3 DEF StraysOrHome, ReadIsCurrent, Home, ListIsOf
<1>4. ASSUME LoadCached PROVE StraysOrHome'
  <2>1. ASSUME ~strayed' PROVE (ReadIsCurrent /\ Home)'
    <3>1. ReadIsCurrent /\ Home
      BY <1>1, <1>4, <2>1 DEF LoadCached, StraysOrHome
    <3>2. asks' = {[acct |-> account, cur |-> current, left |-> FALSE]}
      BY <1>4, <3>1 DEF LoadCached, ReadIsCurrent
    <3>3. UNCHANGED <<current, shown, chosen, stored, guard>>
      BY <1>4 DEF LoadCached
    <3>4. ReadIsCurrent'
      BY <3>1, <3>2, <3>3 DEF ReadIsCurrent
    <3>. QED  BY <3>1, <3>3, <3>4 DEF Home, ListIsOf
  <2>. QED  BY <2>1 DEF StraysOrHome
<1>5. ASSUME ClickFetch PROVE StraysOrHome'
  BY <1>5 DEF ClickFetch, StraysOrHome
<1>6. ASSUME FetchLands PROVE StraysOrHome'
  BY <1>1, <1>6 DEF FetchLands, StraysOrHome, ReadIsCurrent
<1>7. ASSUME NEW chats, HandOff(chats) PROVE StraysOrHome'
  BY <1>1, <1>7, LeavingKeepsHome DEF HandOff
<1>8. ASSUME Leave PROVE StraysOrHome'
  BY <1>1, <1>8, LeavingKeepsHome DEF Leave
<1>9. ASSUME Enter \/ (\E a \in Accounts : Switch(a)) \/ Retry \/ \E k \in {"all", "group"} : SetFilter(k)
      PROVE StraysOrHome'
  BY <1>3, <1>9 DEF Enter, Switch, Retry, SetFilter
<1>10. ASSUME NEW c \in Chats, Toggle(c) PROVE StraysOrHome'
  BY <1>1, <1>10, ChoosingKeepsHome DEF Toggle, Filtered
<1>11. ASSUME ToggleSelectAll PROVE StraysOrHome'
  BY <1>1, <1>11, ChoosingKeepsHome DEF ToggleSelectAll, Filtered
<1>12. ASSUME ClearSelection PROVE StraysOrHome'
  BY <1>1, <1>12, ChoosingKeepsHome DEF ClearSelection
<1>13. ASSUME ExecuteQuick PROVE StraysOrHome'
  BY <1>1, <1>13, ElsewhereKeepsHome DEF ExecuteQuick, NoWork, list
<1>14. ASSUME NEW yes \in BOOLEAN, Answer(yes) PROVE StraysOrHome'
  <2>1. guard'.op # "fetch" \/ strayed'
    BY <1>1, <1>14 DEF Answer, NoWork, StraysOrHome, ReadIsCurrent, TypeOK, Work
  <2>. QED  BY <1>1, <1>14, <2>1 DEF Answer, list, StraysOrHome, ReadIsCurrent, Home, ListIsOf
<1>15. ASSUME UNCHANGED vars PROVE StraysOrHome'
  BY <1>3, <1>15 DEF vars, list
<1>. QED
  BY <1>1, <1>2, <1>4, <1>5, <1>6, <1>7, <1>8, <1>9, <1>10, <1>11, <1>12, <1>13, <1>14,
     <1>15, LandingKeepsHome
  DEF Next, Loading, UseOne, UseSelected, RowQuickAction, BulkQuickAction

-------------------------------------------------------------------------------
(* What a selection gains.                                                     *)

\* The lists shown of which the property speaks.
GainsAreHome == \A a \in Accounts : stored'[a] \ stored[a] \subseteq ChatsOf(a)

\* An answer restores a selection, or leaves the one at hand: it adds to none.
LEMMA AnswersAddNothing ==
    ASSUME TypeOK, Kept, NEW q \in asks, CachedLands(q)
    PROVE  Kept' /\ GainsAreHome
<1>1. PICK d : setDialogsWithAccountId(q, d)
  BY DEF CachedLands
<1>2. /\ q.acct \in Accounts /\ current \in Accounts \cup {NoAccount}
      /\ stored \in [Accounts -> SUBSET Chats]
  BY DEF TypeOK, Asks
<1>3. CASE q.acct # q.cur
  BY <1>1, <1>2, <1>3, ChatsAssumption DEF setDialogsWithAccountId, Kept, GainsAreHome
<1>4. CASE q.acct = q.cur
  BY <1>1, <1>2, <1>4, ChatsAssumption DEF setDialogsWithAccountId, Kept, GainsAreHome
<1>. QED  BY <1>3, <1>4

\* A tick adds what is on the screen to the selection of the account at hand.
LEMMA TicksAddWhatIsShown ==
    ASSUME TypeOK, Kept, NEW s, Choose(s), s \subseteq chosen \cup shown
    PROVE  Kept' /\ (Mixed \/ GainsAreHome)
<1>1. current \in Accounts \cup {NoAccount} /\ stored \in [Accounts -> SUBSET Chats]
  BY DEF TypeOK
<1>2. Kept'
  BY <1>1 DEF Choose, Kept
<1>3. Mixed \/ GainsAreHome
  BY <1>1 DEF Choose, Kept, Mixed, GainsAreHome
<1>. QED  BY <1>2, <1>3

LEMMA GainStep ==
    TypeOK /\ Kept /\ [Next]_vars => Kept' /\ (Mixed \/ GainsAreHome)
<1>1. SUFFICES ASSUME TypeOK, Kept, [Next]_vars
               PROVE  Kept' /\ (Mixed \/ GainsAreHome)
  OBVIOUS
<1>2. ASSUME UNCHANGED <<current, chosen, stored>>
      PROVE Kept' /\ (Mixed \/ GainsAreHome)
  BY <1>1, <1>2 DEF Kept, GainsAreHome
<1>3. ASSUME NEW q \in asks, CachedLands(q) PROVE Kept' /\ (Mixed \/ GainsAreHome)
  BY <1>1, <1>3, AnswersAddNothing
<1>4. ASSUME NEW c \in Chats, Toggle(c) PROVE Kept' /\ (Mixed \/ GainsAreHome)
  BY <1>1, <1>4, TicksAddWhatIsShown DEF Toggle, Filtered
<1>5. ASSUME ToggleSelectAll PROVE Kept' /\ (Mixed \/ GainsAreHome)
  BY <1>1, <1>5, TicksAddWhatIsShown DEF ToggleSelectAll, Filtered
<1>6. ASSUME ClearSelection PROVE Kept' /\ (Mixed \/ GainsAreHome)
  BY <1>1, <1>6, TicksAddWhatIsShown DEF ClearSelection
<1>7. ASSUME Enter \/ Leave \/ (\E a \in Accounts : Switch(a)) \/ LoadCached \/ Retry
             \/ ClickFetch \/ FetchLands \/ (\E k \in {"all", "group"} : SetFilter(k))
             \/ ExecuteQuick \/ (\E yes \in BOOLEAN : Answer(yes))
      PROVE Kept' /\ (Mixed \/ GainsAreHome)
  BY <1>2, <1>7
  DEF Enter, Leave, Switch, LoadCached, Retry, ClickFetch, FetchLands, SetFilter,
      ExecuteQuick, Answer, list
<1>8. ASSUME \/ BulkQuickAction \/ UseSelected
             \/ \E c \in Chats : RowQuickAction(c) \/ UseOne(c)
      PROVE Kept' /\ (Mixed \/ GainsAreHome)
  BY <1>2, <1>8
  DEF BulkQuickAction, RowQuickAction, Begin, UseSelected, UseOne, HandOff, list
<1>9. ASSUME UNCHANGED vars PROVE Kept' /\ (Mixed \/ GainsAreHome)
  BY <1>2, <1>9 DEF vars, list
<1>. QED
  BY <1>1, <1>3, <1>4, <1>5, <1>6, <1>7, <1>8, <1>9 DEF Next, Loading

-------------------------------------------------------------------------------
(* Quick actions fit.                                                          *)

\* The tables of the screen offer for a kind only what makes sense for it.
LEMMA OffersFit ==
    /\ \A kind \in DialogKinds : \A action \in ROW_ACTIONS[kind] :
           kind = "unknown" \/ kind \in KindsFor(action)
    /\ \A kind \in DialogKinds : \A action \in BULK_VALID_BY_KIND[kind] :
           kind = "unknown" \/ kind \in KindsFor(action)
BY DEF DialogKinds, ROW_ACTIONS, BULK_VALID_BY_KIND, KindsFor, Common, Upkeep

LEMMA FitStep == TypeOK /\ QuickActionsFit /\ [Next]_vars => QuickActionsFit'
<1>1. SUFFICES ASSUME TypeOK, QuickActionsFit, [Next]_vars PROVE QuickActionsFit'
  OBVIOUS
<1>2. ASSUME NEW c \in Chats, RowQuickAction(c) PROVE QuickActionsFit'
  <2>1. PICK action \in ROW_ACTIONS[Kind[c]] : Begin(action, {c})
    BY <1>2 DEF RowQuickAction
  <2>2. guard'.op = action /\ guard'.chats = {c} /\ Kind[c] \in DialogKinds
    BY <2>1, ChatsAssumption DEF Begin
  <2>. QED  BY <2>1, <2>2, OffersFit DEF QuickActionsFit
<1>3. ASSUME BulkQuickAction PROVE QuickActionsFit'
  <2>1. PICK action \in bulkActionsForSelection(Kinds(Filtered \cap chosen)) :
            Begin(action, Filtered \cap chosen)
    BY <1>3 DEF BulkQuickAction
  <2>2. \A c \in Filtered \cap chosen : action \in BULK_VALID_BY_KIND[Kind[c]]
    BY <2>1 DEF bulkActionsForSelection, Kinds
  <2>3. \A c \in Filtered \cap chosen : Kind[c] \in DialogKinds
    BY <1>1, ChatsAssumption DEF Filtered, TypeOK
  <2>4. guard'.op = action /\ guard'.chats = Filtered \cap chosen
    BY <2>1 DEF Begin
  <2>. QED  BY <2>2, <2>3, <2>4, OffersFit DEF QuickActionsFit
<1>4. ASSUME guard'.op \notin ActionTypes PROVE QuickActionsFit'
  BY <1>4 DEF QuickActionsFit
<1>5. ASSUME guard'.op = guard.op, guard'.chats = guard.chats PROVE QuickActionsFit'
  BY <1>1, <1>5 DEF QuickActionsFit
<1>6. NoWork.op \notin ActionTypes /\ "fetch" \notin ActionTypes
  BY DEF NoWork, ActionTypes
<1>7. ASSUME ClickFetch \/ FetchLands \/ ExecuteQuick PROVE QuickActionsFit'
  BY <1>4, <1>6, <1>7 DEF ClickFetch, FetchLands, ExecuteQuick
<1>8. ASSUME NEW yes \in BOOLEAN, Answer(yes) PROVE QuickActionsFit'
  BY <1>1, <1>4, <1>5, <1>6, <1>8 DEF Answer, TypeOK, Work
<1>9. ASSUME UNCHANGED guard PROVE QuickActionsFit'
  BY <1>5, <1>9
<1>. QED
  BY <1>1, <1>2, <1>3, <1>7, <1>8, <1>9
  DEF Next, Loading, Enter, Leave, Switch, LoadCached, CachedLands, Retry, Toggle,
      ToggleSelectAll, ClearSelection, Choose, SetFilter, UseOne, UseSelected, HandOff, vars

-------------------------------------------------------------------------------
(* The theorems.                                                               *)

LEMMA Inductive == Spec => []IInv
<1>1. IInv /\ [Next]_vars => IInv'
  BY TypeStep, HomeStep, GainStep, FitStep DEF IInv
<1>. QED  BY <1>1, InitIInv, PTL DEF Spec

\* The variables of the screen keep their types.
THEOREM TypeCorrect == Spec => []TypeOK
<1>1. IInv => TypeOK
  BY DEF IInv
<1>. QED  BY <1>1, Inductive, PTL

\* A selection gains another account's chats only by ticks made while a list of
\* another account is on the screen, and only reads without a token bring one there.
THEOREM SelectionsStayHome == Spec => SelectionStaysHome
<1>1. IInv => (Mixed => strayed)
  <2>1. SUFFICES ASSUME IInv, ~strayed PROVE ~Mixed
    OBVIOUS
  <2>. QED  BY <2>1 DEF IInv, StraysOrHome, Home, ListIsOf, Mixed
<1>2. IInv /\ [Next]_vars
        => [Mixed \/ \A a \in Accounts : stored'[a] \ stored[a] \subseteq ChatsOf(a)]_vars
  BY GainStep DEF IInv, GainsAreHome
<1>. QED  BY <1>1, <1>2, Inductive, PTL DEF Spec, SelectionStaysHome

\* Quick actions are run on chats of kinds they make sense for.
THEOREM QuickActionsAlwaysFit == Spec => []QuickActionsFit
<1>1. IInv => QuickActionsFit
  BY DEF IInv
<1>. QED  BY <1>1, Inductive, PTL
===============================================================================
