----------------------------- MODULE WebWidgets -----------------------------
(***************************************************************************)
(* The controls the pages share: the search box of the top bar             *)
(* (SearchBar.tsx in Topbar.tsx), the table DataGrid.tsx, the layout with    *)
(* its sidebar and menus (DashboardLayout.tsx, Sidebar.tsx), and            *)
(* ErrorBoundary.tsx.  A behaviour uses one of them.                        *)
(*                                                                          *)
(* The search box waits before it searches.  A new onSearch makes a new     *)
(* wait, and the old one is neither cancelled nor forgotten: its text is    *)
(* searched for whatever the box shows by then.  The table's handlers write *)
(* over the parameters of the last render.                                  *)
(***************************************************************************)
EXTENDS Naturals

VARIABLES
  wgPart,     \* the control in use
  wgSearch,   \* the box: text, error; the waits of this and of an older onSearch; the search made
  wgGrid,     \* the table: parameters of the page, those of the last render, filters
  wgLayout,   \* the sidebar: open, saved state, permanent, a resize waits; the menus
  wgNav,      \* the navigation: roles known, children kept, the section expanded
  wgBoundary  \* the boundary: hasError, isRetrying

wgVars == <<wgPart, wgSearch, wgGrid, wgLayout, wgNav, wgBoundary>>

Texts == {"claim", "policy"}
Empty == "empty"
NoText == "none"
PageSizes == {10, 25}
FirstGrid == [page |-> 0, limit |-> 25, sort |-> "none"]

SearchInit ==
  wgSearch = [text |-> Empty, error |-> FALSE, waiting |-> NoText, older |-> NoText, made |-> NoText]
GridInit == wgGrid = [params |-> FirstGrid, rendered |-> FirstGrid, filter |-> FALSE, applied |-> FALSE]
LayoutInit ==
  wgLayout = [open |-> TRUE, saved |-> "none", permanent |-> TRUE, resizing |-> FALSE, menu |-> "none"]
NavigationInit == wgNav = [roles |-> FALSE, filtered |-> FALSE, children |-> TRUE, expanded |-> FALSE]
BoundaryInit == wgBoundary = [hasError |-> FALSE, isRetrying |-> FALSE]

WebWidgetsInit ==
  /\ wgPart \in {"search", "grid", "layout", "navigation", "boundary"}
  /\ SearchInit /\ GridInit /\ LayoutInit /\ NavigationInit /\ BoundaryInit

-----------------------------------------------------------------------------
\* handleSearchChange: an emptied box is an error, and starts no new wait; the
\* wait of the text before it goes on.
HandleSearchChange(text) ==
  /\ wgSearch' = IF text = Empty THEN [wgSearch EXCEPT !.text = text, !.error = TRUE]
                 ELSE [wgSearch EXCEPT !.text = text, !.error = FALSE, !.waiting = text]
  /\ UNCHANGED <<wgPart, wgGrid, wgLayout, wgNav, wgBoundary>>

\* The wait is over, or Enter ends it: handleSearch of the top bar navigates.
DebouncedSearch ==
  /\ wgSearch.waiting # NoText
  /\ wgSearch' = [wgSearch EXCEPT !.made = wgSearch.waiting, !.waiting = NoText]
  /\ UNCHANGED <<wgPart, wgGrid, wgLayout, wgNav, wgBoundary>>

\* The wait of an older onSearch is over.
OlderSearch ==
  /\ wgSearch.older # NoText
  /\ wgSearch' = [wgSearch EXCEPT !.made = wgSearch.older, !.older = NoText]
  /\ UNCHANGED <<wgPart, wgGrid, wgLayout, wgNav, wgBoundary>>

\* A new onSearch, as after a navigation, has a wait of its own.
OnSearchChanges ==
  /\ wgSearch.waiting # NoText /\ wgSearch.older = NoText
  /\ wgSearch' = [wgSearch EXCEPT !.older = wgSearch.waiting, !.waiting = NoText]
  /\ UNCHANGED <<wgPart, wgGrid, wgLayout, wgNav, wgBoundary>>

\* Escape cancels the wait of this onSearch only.
ClearSearch ==
  /\ wgSearch' = [wgSearch EXCEPT !.text = Empty, !.error = FALSE, !.waiting = NoText]
  /\ UNCHANGED <<wgPart, wgGrid, wgLayout, wgNav, wgBoundary>>

-----------------------------------------------------------------------------
\* A handler writes the parameters of its render, changed in its own fields.
OnPaginationChange(params) ==
  /\ wgGrid' = [wgGrid EXCEPT !.params = params]
  /\ UNCHANGED <<wgPart, wgSearch, wgLayout, wgNav, wgBoundary>>

HandlePageChange(page, pageSize) ==
  OnPaginationChange([wgGrid.rendered EXCEPT !.page = page, !.limit = pageSize])

\* Clearing the sort tells the page nothing.
HandleSortModelChange(order) ==
  OnPaginationChange([wgGrid.rendered EXCEPT !.sort = order])

\* A filter that is taken away is not reported, and stays applied.
HandleFilterModelChange(filtered) ==
  /\ wgGrid' = [wgGrid EXCEPT !.filter = filtered, !.applied = filtered \/ @]
  /\ UNCHANGED <<wgPart, wgSearch, wgLayout, wgNav, wgBoundary>>

\* The page renders the table with its parameters and filters.
GridRenders ==
  /\ wgGrid' = [wgGrid EXCEPT !.rendered = wgGrid.params, !.filter = wgGrid.applied]
  /\ UNCHANGED <<wgPart, wgSearch, wgLayout, wgNav, wgBoundary>>

-----------------------------------------------------------------------------
SavedAs(open) == IF open THEN "open" ELSE "closed"

\* The menu button, or Ctrl and [; the new state is saved.
HandleSidebarToggle ==
  /\ wgLayout' = [wgLayout EXCEPT !.open = ~wgLayout.open, !.saved = SavedAs(~wgLayout.open)]
  /\ UNCHANGED <<wgPart, wgSearch, wgGrid, wgNav, wgBoundary>>

\* onClose of the drawer saves nothing.
SidebarCloses ==
  /\ wgLayout.open /\ ~wgLayout.permanent /\ wgLayout' = [wgLayout EXCEPT !.open = FALSE]
  /\ UNCHANGED <<wgPart, wgSearch, wgGrid, wgNav, wgBoundary>>

\* The window changes size: handleResize starts its wait again.
HandleResize(permanent) ==
  /\ wgLayout' = [wgLayout EXCEPT !.permanent = permanent, !.resizing = TRUE]
  /\ UNCHANGED <<wgPart, wgSearch, wgGrid, wgNav, wgBoundary>>

\* A quarter of a second later a wide window opens the sidebar, and saves nothing;
\* the wait is cleared if the effect runs again first.
ResizeSettles ==
  /\ wgLayout.resizing
  /\ wgLayout' = [wgLayout EXCEPT !.open = @ \/ wgLayout.permanent, !.resizing = FALSE]
  /\ UNCHANGED <<wgPart, wgSearch, wgGrid, wgNav, wgBoundary>>

ResizeCleared ==
  /\ wgLayout.resizing /\ wgLayout' = [wgLayout EXCEPT !.resizing = FALSE]
  /\ UNCHANGED <<wgPart, wgSearch, wgGrid, wgNav, wgBoundary>>

\* The next page mounts the layout again, with the state that was saved.
LayoutMounts ==
  /\ wgLayout' = [wgLayout EXCEPT !.open = wgLayout.saved # "closed", !.resizing = FALSE, !.menu = "none"]
  /\ UNCHANGED <<wgPart, wgSearch, wgGrid, wgNav, wgBoundary>>

MenuOpens(menu) ==
  /\ wgLayout.menu = "none" /\ wgLayout' = [wgLayout EXCEPT !.menu = menu]
  /\ UNCHANGED <<wgPart, wgSearch, wgGrid, wgNav, wgBoundary>>

\* A click elsewhere, or the end of handleLogout.
MenuCloses ==
  /\ wgLayout.menu # "none" /\ wgLayout' = [wgLayout EXCEPT !.menu = "none"]
  /\ UNCHANGED <<wgPart, wgSearch, wgGrid, wgNav, wgBoundary>>

-----------------------------------------------------------------------------
\* filteredNavItems, made again when the roles change: the children of an item
\* are replaced in the list itself, so those filtered out before the roles are
\* known do not come back with them.
FilteredNavItems ==
  /\ wgNav' = [wgNav EXCEPT !.filtered = TRUE, !.children = @ /\ wgNav.roles]
  /\ UNCHANGED <<wgPart, wgSearch, wgGrid, wgLayout, wgBoundary>>

\* The sections an administrator sees: one whose children are gone is not shown.
Sections ==
  {"dashboard"} \cup (IF wgNav.roles THEN {"claims", "documents"} ELSE {})
                \cup (IF wgNav.roles /\ wgNav.children THEN {"policies", "underwriting"} ELSE {})

RolesKnown(known) ==
  /\ wgNav.roles # known /\ wgNav' = [wgNav EXCEPT !.roles = known]
  /\ UNCHANGED <<wgPart, wgSearch, wgGrid, wgLayout, wgBoundary>>

HandleExpand ==
  /\ wgNav.filtered /\ "policies" \in Sections
  /\ wgNav' = [wgNav EXCEPT !.expanded = ~@]
  /\ UNCHANGED <<wgPart, wgSearch, wgGrid, wgLayout, wgBoundary>>

-----------------------------------------------------------------------------
\* A child throws while it renders.
DerivedStateFromError ==
  /\ ~wgBoundary.hasError /\ wgBoundary' = [hasError |-> TRUE, isRetrying |-> FALSE]
  /\ UNCHANGED <<wgPart, wgSearch, wgGrid, wgLayout, wgNav>>

HandleRetry ==
  /\ wgBoundary.hasError /\ ~wgBoundary.isRetrying
  /\ wgBoundary' = [wgBoundary EXCEPT !.isRetrying = TRUE]
  /\ UNCHANGED <<wgPart, wgSearch, wgGrid, wgLayout, wgNav>>

RetryShown ==
  /\ wgBoundary.isRetrying /\ wgBoundary' = [hasError |-> FALSE, isRetrying |-> FALSE]
  /\ UNCHANGED <<wgPart, wgSearch, wgGrid, wgLayout, wgNav>>

SearchNext ==
  \/ \E text \in Texts \cup {Empty} : HandleSearchChange(text)
  \/ DebouncedSearch \/ OlderSearch \/ OnSearchChanges \/ ClearSearch

GridNext ==
  \/ \E page \in 0..1 : HandlePageChange(page, wgGrid.rendered.limit)
  \/ \E size \in PageSizes : HandlePageChange(wgGrid.rendered.page, size)
  \/ \E order \in {"asc", "desc"} : HandleSortModelChange(order)
  \/ \E filtered \in BOOLEAN : HandleFilterModelChange(filtered)
  \/ GridRenders

LayoutNext ==
  \/ HandleSidebarToggle \/ SidebarCloses \/ ResizeSettles \/ ResizeCleared \/ LayoutMounts
  \/ \E permanent \in BOOLEAN : HandleResize(permanent)
  \/ \E menu \in {"profile", "notifications"} : MenuOpens(menu)
  \/ MenuCloses

NavigationNext == FilteredNavItems \/ HandleExpand \/ \E known \in BOOLEAN : RolesKnown(known)

WebWidgetsNext ==
  \/ wgPart = "search" /\ SearchNext
  \/ wgPart = "grid" /\ GridNext
  \/ wgPart = "layout" /\ LayoutNext
  \/ wgPart = "navigation" /\ NavigationNext
  \/ wgPart = "boundary" /\ (DerivedStateFromError \/ HandleRetry \/ RetryShown)

WebWidgetsSpec == WebWidgetsInit /\ [][WebWidgetsNext]_wgVars

-----------------------------------------------------------------------------
\* Every control is of its type, an emptied search box shows its error or was
\* cleared, and no child of the navigation comes back.
WebWidgetsTypeOK ==
  /\ wgPart \in {"search", "grid", "layout", "navigation", "boundary"}
  /\ wgSearch \in [text : Texts \cup {Empty}, error : BOOLEAN, waiting : Texts \cup {NoText},
                   older : Texts \cup {NoText}, made : Texts \cup {NoText}]
  /\ wgSearch.error => wgSearch.text = Empty
  /\ {wgGrid.params, wgGrid.rendered} \subseteq
       [page : 0..1, limit : PageSizes, sort : {"none", "asc", "desc"}]
  /\ wgGrid.filter \in BOOLEAN /\ wgGrid.applied \in BOOLEAN
  /\ wgLayout \in [open : BOOLEAN, saved : {"none", "open", "closed"}, permanent : BOOLEAN,
                   resizing : BOOLEAN, menu : {"none", "profile", "notifications"}]
  /\ wgNav \in [roles : BOOLEAN, filtered : BOOLEAN, children : BOOLEAN, expanded : BOOLEAN]
  /\ wgBoundary \in [hasError : BOOLEAN, isRetrying : BOOLEAN]
=============================================================================
