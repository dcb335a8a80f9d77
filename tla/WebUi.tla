------------------------------- MODULE WebUi -------------------------------
(***************************************************************************)
(* The user-interface slice of the browser's store, ui.reducer.ts, in two   *)
(* tabs: the store's middleware sends every action to the other tab, which  *)
(* applies it to its own slice, and drops actions beyond a rate (store.ts). *)
(* useNotification.ts shows a notice and, when its own timer ends, clears   *)
(* the whole queue, in both tabs.                                           *)
(*                                                                          *)
(* The timers that the reducer itself starts change a draft that immer has  *)
(* revoked: they throw, so a theme's transition never completes and a       *)
(* notice never leaves the queue alone.  They are no action here.           *)
(***************************************************************************)
EXTENDS Naturals, Sequences

CONSTANTS
  Tabs,             \* the tabs of one browser
  MaxSync,          \* bound on the actions on their way to a tab
  MaxTransactions   \* actions a tab applies per minute (10000 in the code)

ASSUME WebUiAssumption == MaxSync \in Nat /\ MaxTransactions \in Nat

MAX_NOTIFICATIONS == 5

VARIABLES
  uiFamily,   \* the kind of action this behaviour dispatches
  uiState,    \* the slice of every tab
  uiInbox,    \* actions on their way to a tab, in the order they were sent
  uiCount,    \* transactionCount of every tab
  uiTimer     \* a notice's timer runs in the tab (timeoutRef of useNotification)

uiVars == <<uiFamily, uiState, uiInbox, uiCount, uiTimer>>

Families == {"loading", "theme", "screen", "notice", "modal"}
Themes == {"light", "dark", "system"}
Screens == {"xs", "lg"}
NoNotice == "null"
Windows == {"m1", "m2"}

initialState ==
  [loading |-> FALSE, queue |-> <<>>, sidebar |-> TRUE, theme |-> "light",
   transitioning |-> FALSE, breakpoint |-> "lg", history |-> <<"lg">>, modals |-> {}]

WebUiInit ==
  /\ uiFamily \in Families /\ uiState = [t \in Tabs |-> initialState]
  /\ uiInbox = [t \in Tabs |-> <<>>] /\ uiCount = [t \in Tabs |-> 0]
  /\ uiTimer = [t \in Tabs |-> FALSE]

-----------------------------------------------------------------------------
\* At most n of the first elements of a sequence.
FirstOf(n, s) == SubSeq(s, 1, IF Len(s) < n THEN Len(s) ELSE n)

SetLoading(s, isLoading) == [s EXCEPT !.loading = isLoading]

SetThemeMode(s, mode) == [s EXCEPT !.theme = mode, !.transitioning = TRUE]

\* A change is noted; the history keeps the last five, a small screen closes the
\* sidebar.
SetBreakpoint(s, b) ==
  IF b = s.breakpoint THEN s
  ELSE [s EXCEPT !.breakpoint = b,
                 !.history = <<b>> \o FirstOf(4, @),
                 !.sidebar = @ /\ b \notin {"xs", "sm"}]

SetSidebarVisible(s, isOpen) == [s EXCEPT !.sidebar = isOpen]

\* Mutant: the queue is never cut.
KeepEveryNotice(s, notice) ==
  [s EXCEPT !.queue = IF notice = NoNotice THEN <<>> ELSE <<notice>> \o @]

\* The newest five are kept, the newest first; null clears them all.
SetNotification(s, notice) ==
  [s EXCEPT !.queue = IF notice = NoNotice THEN <<>>
                      ELSE <<notice>> \o FirstOf(MAX_NOTIFICATIONS - 1, @)]

\* One modal per identifier; a closed one is removed; null closes them all.
SetModal(s, modal) ==
  [s EXCEPT !.modals = IF modal.id = NoNotice THEN {}
                       ELSE IF modal.isOpen THEN @ \cup {modal.id} ELSE @ \ {modal.id}]

\* The actions of a family that ui.actions.ts lets through.
ActionsOf(family) ==
  CASE family = "loading" -> [type : {"SET_LOADING"}, arg : BOOLEAN]
    [] family = "theme"   -> [type : {"SET_THEME_MODE"}, arg : Themes]
    [] family = "screen"  -> [type : {"SET_BREAKPOINT"}, arg : Screens]
                               \cup [type : {"SET_SIDEBAR_VISIBLE"}, arg : BOOLEAN]
    [] family = "notice"  -> [type : {"SET_NOTIFICATION"}, arg : {"notice", NoNotice}]
    [] family = "modal"   -> [type : {"SET_MODAL"},
                              arg : [id : Windows \cup {NoNotice}, isOpen : BOOLEAN]]

uiReducer(s, action) ==
  CASE action.type = "SET_LOADING"         -> SetLoading(s, action.arg)
    [] action.type = "SET_THEME_MODE"      -> SetThemeMode(s, action.arg)
    [] action.type = "SET_BREAKPOINT"      -> SetBreakpoint(s, action.arg)
    [] action.type = "SET_SIDEBAR_VISIBLE" -> SetSidebarVisible(s, action.arg)
    [] action.type = "SET_NOTIFICATION"    -> SetNotification(s, action.arg)
    [] action.type = "SET_MODAL"           -> SetModal(s, action.arg)

-----------------------------------------------------------------------------
\* createPerformanceMiddleware: beyond the limit the action goes no further.
Applied(t, action) ==
  IF uiCount[t] < MaxTransactions
  THEN /\ uiState' = [uiState EXCEPT ![t] = uiReducer(@, action)]
       /\ uiCount' = [uiCount EXCEPT ![t] = @ + 1]
  ELSE UNCHANGED <<uiState, uiCount>>

\* The synchronising middleware comes first, so an action dropped here still
\* reaches the other tab.
UiDispatch(t, action) ==
  /\ \A u \in Tabs \ {t} : Len(uiInbox[u]) < MaxSync
  /\ uiInbox' = [u \in Tabs |-> IF u = t THEN uiInbox[u] ELSE Append(uiInbox[u], action)]
  /\ Applied(t, action)

\* A component dispatches an action of the slice; notices have their hook.
DispatchAny(t) ==
  /\ uiFamily # "notice"
  /\ \E action \in ActionsOf(uiFamily) : UiDispatch(t, action)
  /\ UNCHANGED <<uiFamily, uiTimer>>

\* initMessageListener: the other tab's action, which is not sent on.
Received(t) ==
  /\ uiInbox[t] # <<>>
  /\ uiInbox' = [uiInbox EXCEPT ![t] = Tail(@)] /\ Applied(t, Head(uiInbox[t]))
  /\ UNCHANGED <<uiFamily, uiTimer>>

\* A minute is over.
MinuteOver(t) ==
  /\ uiCount[t] > 0 /\ uiCount' = [uiCount EXCEPT ![t] = 0]
  /\ UNCHANGED <<uiFamily, uiState, uiInbox, uiTimer>>

ShowNotification(t) ==
  /\ uiFamily = "notice"
  /\ UiDispatch(t, [type |-> "SET_NOTIFICATION", arg |-> "notice"])
  /\ uiTimer' = [uiTimer EXCEPT ![t] = TRUE] /\ UNCHANGED uiFamily

\* hideNotification, when the timer ends.  Nothing else calls it: the hook reads
\* ui.notification, which the slice does not have, so no notice is ever shown
\* with a button to close it.
HideNotification(t) ==
  /\ uiTimer[t] /\ uiTimer' = [uiTimer EXCEPT ![t] = FALSE]
  /\ UiDispatch(t, [type |-> "SET_NOTIFICATION", arg |-> NoNotice]) /\ UNCHANGED uiFamily

\* The component goes away, and its timer with it: the notices stay.
NotifierUnmounts(t) ==
  /\ uiTimer[t] /\ uiTimer' = [uiTimer EXCEPT ![t] = FALSE]
  /\ UNCHANGED <<uiFamily, uiState, uiInbox, uiCount>>

WebUiNext ==
  \E t \in Tabs :
    \/ DispatchAny(t) \/ Received(t) \/ MinuteOver(t)
    \/ ShowNotification(t) \/ HideNotification(t) \/ NotifierUnmounts(t)

WebUiSpec == WebUiInit /\ [][WebUiNext]_uiVars

-----------------------------------------------------------------------------
\* Every slice is of its type: at most five notices and five screens are kept.
WebUiTypeOK ==
  /\ uiFamily \in Families
  /\ \A t \in Tabs :
       /\ uiState[t].loading \in BOOLEAN /\ uiState[t].sidebar \in BOOLEAN
       /\ uiState[t].theme \in Themes /\ uiState[t].transitioning \in BOOLEAN
       /\ uiState[t].breakpoint \in Screens /\ uiState[t].modals \subseteq Windows
       /\ uiState[t].history \in Seq(Screens) /\ Len(uiState[t].history) <= 5
       /\ uiState[t].queue \in Seq({"notice"}) /\ Len(uiState[t].queue) <= MAX_NOTIFICATIONS
       /\ uiInbox[t] \in Seq(ActionsOf(uiFamily)) /\ Len(uiInbox[t]) <= MaxSync
  /\ uiCount \in [Tabs -> 0..MaxTransactions] /\ uiTimer \in [Tabs -> BOOLEAN]
=============================================================================
