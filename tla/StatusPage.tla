----------------------------- MODULE StatusPage -----------------------------
(***************************************************************************)
(* The list of servers of unturned3SL in the browser: scripts.js with the  *)
(* collapse of bootstrap.js, in several pages that share the cookie        *)
(* listTools.  Each page works on a copy of the cookie, taken when it was  *)
(* loaded, and saves the whole copy at each click.                         *)
(*                                                                         *)
(* Without a cookie the page's StatusManager is not built (JSON.parse of   *)
(* undefined throws), no button works and nothing is ever saved: the first *)
(* cookie is one of an earlier version, or there is none.  The answer of   *)
(* getRecentResults.jsp is not JSON ("\'"), so success is never called and *)
(* no list is filled; requestLoop has lost its this when the timer calls   *)
(* it, and throws.                                                         *)
(***************************************************************************)
EXTENDS Naturals

CONSTANTS
    Pages,   \* index.jsp in tabs and windows of one browser
    Panels   \* the servers on the page, each with a panel to expand

Settings == {"expandAll", "hideQuickStatus"}  \* listTools_..., those that are TRUE

VARIABLES
    cookie,  \* <<>>, or <<the settings>>
    page,
    stale,   \* history: pages that have not saved since another changed the cookie
    touched  \* history, per page: panels clicked, or caught moving by the last click on all

pageVars == <<cookie, page, stale, touched>>

\* data is cookieTracker.jsonObj; flags are expandAll_closed and hideQuickStatus_qsShowing,
\* negated, with the labels and the style that change with them.
PageType == [
    phase : {"closed", "dead", "live"},  \* dead: statusManager is undefined
    data  : SUBSET Settings,
    flags : SUBSET Settings,
    panel : [Panels -> {"closed", "opening", "open", "closing"}],
    timer : BOOLEAN]                     \* requestLoop is scheduled

PageTypeOK ==
    /\ cookie \in {<<>>} \cup {<<S>> : S \in SUBSET Settings}
    /\ page \in [Pages -> PageType]
    /\ stale \in SUBSET Pages
    /\ touched \in [Pages -> SUBSET Panels]

NewPage == [phase |-> "closed", data |-> {}, flags |-> {},
            panel |-> [q \in Panels |-> "closed"], timer |-> FALSE]

Live == {p \in Pages : page[p].phase = "live"}

PageInit ==
    /\ cookie \in {<<>>} \cup {<<S>> : S \in SUBSET Settings}
    /\ page = [p \in Pages |-> NewPage]
    /\ stale = {} /\ touched = [p \in Pages |-> {}]

-----------------------------------------------------------------------------
(* Collapse of bootstrap.js: a panel that moves ignores what it is told *)

Moving(state) == state \in {"opening", "closing"}

\* Mutated: .collapse('toggle') for .collapse('show').
Show_Toggle(state) ==
    IF state = "closed" THEN "opening" ELSE IF state = "open" THEN "closing" ELSE state
Show(state) == IF state = "closed" THEN "opening" ELSE state
Hide(state) == IF state = "open" THEN "closing" ELSE state
Toggle(state) == IF state = "open" THEN Hide(state) ELSE Show(state)
Complete(state) == IF state = "opening" THEN "open" ELSE "closed"

-----------------------------------------------------------------------------
(* ListTools *)

Flipped(S, s, on) == IF on THEN S \cup {s} ELSE S \ {s}

\* getData().listTools_... = ...  Mutated: only switching on is recorded; a property that
\* nobody reads.
Recorded_On(data, s, on) == data \cup {s}
Recorded_Misnamed(data, s, on) == Flipped(data, "qsShowing", on)
Recorded(data, s, on) == Flipped(data, s, on)

\* toggleExpandAll and toggleQuickStatus.
ToggleTool(pg, s) ==
    LET on == s \notin pg.flags
    IN  [pg EXCEPT
           !.data = Recorded(@, s, on),
           !.flags = Flipped(@, s, on),
           !.panel = IF s # "expandAll" THEN @
                     ELSE [q \in Panels |-> IF on THEN Show(@[q]) ELSE Hide(@[q])]]

Applied(pg, s) == IF s \in pg.data THEN ToggleTool(pg, s) ELSE pg
ApplyCookieBehaviors(pg) == Applied(Applied(pg, "expandAll"), "hideQuickStatus")

\* saveData of p, with what the others do not know of.
Save(p, data) ==
    /\ cookie' = <<data>>
    /\ stale' = (IF cookie' = cookie THEN stale ELSE stale \cup Live) \ {p}

\* The constructors; loadData is called once.
Loaded(data) == [NewPage EXCEPT !.data = data]

\* The document is ready: the constructors, and the request of requestLoop.
Load(p) ==
    /\ page[p].phase = "closed"
    /\ touched' = [touched EXCEPT ![p] = {}]
    /\ IF cookie = <<>>
       THEN /\ page' = [page EXCEPT ![p].phase = "dead"]
            /\ UNCHANGED <<cookie, stale>>
       ELSE LET loaded == Loaded(cookie[1])
                applied == ApplyCookieBehaviors(loaded)
            IN  /\ page' = [page EXCEPT ![p] = [applied EXCEPT !.phase = "live", !.timer = TRUE]]
                /\ IF applied = loaded THEN cookie' = cookie /\ stale' = stale \ {p}
                   ELSE Save(p, applied.data)

Close(p) ==
    /\ page[p].phase # "closed"
    /\ page' = [page EXCEPT ![p] = NewPage]
    /\ stale' = stale \ {p} /\ touched' = [touched EXCEPT ![p] = {}]
    /\ UNCHANGED cookie

\* A button of the list tools.
ClickTool(p, s) ==
    /\ p \in Live
    /\ page' = [page EXCEPT ![p] = ToggleTool(@, s)]
    /\ Save(p, page'[p].data)
    /\ touched' = IF s # "expandAll" THEN touched
                  ELSE [touched EXCEPT ![p] = {q \in Panels : Moving(page[p].panel[q])}]

\* The title of a server; bootstrap needs no StatusManager.
ClickTitle(p, q) ==
    /\ page[p].phase # "closed"
    /\ page' = [page EXCEPT ![p].panel[q] = Toggle(@)]
    /\ touched' = [touched EXCEPT ![p] = @ \cup {q}]
    /\ UNCHANGED <<cookie, stale>>

TransitionEnd(p, q) ==
    /\ Moving(page[p].panel[q])
    /\ page' = [page EXCEPT ![p].panel[q] = Complete(@)]
    /\ UNCHANGED <<cookie, stale, touched>>

\* this.requestJSON is not a function of the window.
TimerFires(p) ==
    /\ page[p].timer
    /\ page' = [page EXCEPT ![p].timer = FALSE]
    /\ UNCHANGED <<cookie, stale, touched>>

PageNext == \E p \in Pages :
    \/ Load(p) \/ Close(p) \/ TimerFires(p)
    \/ \E s \in Settings : ClickTool(p, s)
    \/ \E q \in Panels : ClickTitle(p, q) \/ TransitionEnd(p, q)

PageSpec == PageInit /\ [][PageNext]_pageVars

-----------------------------------------------------------------------------
\* What a page shows is what the next page would start with, unless another page has
\* saved other settings meanwhile (its whole copy, this page's clicks undone).
OnlyOtherPagesOverwrite ==
    \A p \in Live : cookie = <<page[p].flags>> \/ p \in stale

\* The label of the expand button ("Collapse all") is true of every panel that stood
\* still at the last click on it and was not clicked itself.  A panel that was moving
\* ignored the click, and the label stays wrong of it.
PanelsFollowTheLabel ==
    \A p \in Live : \A q \in Panels \ touched[p] :
        page[p].panel[q] \in {"open", "opening"} <=> "expandAll" \in page[p].flags
=============================================================================
