------------------------------- MODULE Focus -------------------------------
(***************************************************************************)
(* The jump from a card to the WezTerm tab of its devbox (handle_focus in  *)
(* src/src/server.rs, and src/src/wezterm.rs). A request asks WezTerm for  *)
(* its tabs and then to activate one of them by its id, in two commands.   *)
(* Meanwhile the user opens, closes, moves and renames tabs, and quits or  *)
(* starts WezTerm, which numbers the tabs anew. A command may also run     *)
(* into its timeout, the second one after it has been obeyed.              *)
(***************************************************************************)
EXTENDS Integers, SequencesExt

CONSTANTS
    Aliases,    \* what a tab or a card may be called
    OnPage,     \* the hosts of the dashboard
    Untitled,   \* the title of a tab that was opened by hand
    NoTab,      \* no tab
    MaxTabs     \* bound: tabs of one WezTerm, and WezTerms started later

ASSUME AliasAssumption == OnPage \subseteq Aliases /\ Untitled \notin Aliases
ASSUME TabAssumption == MaxTabs \in Nat /\ NoTab \notin Nat

VARIABLES
    installed,  \* WezTerm is on the PATH
    running,    \* WezTerm runs
    rows,       \* its tabs, in the order of the list
    nextTab,    \* the id of the tab opened next
    front,      \* the tab that is shown
    step,       \* where the request is
    wanted,     \* whom it asks for
    tab,        \* the id it has found
    answer,     \* the status it was answered
    starts,     \* starts of WezTerm so far
    owners,     \* history variable: tabs of the WezTerm that runs, or ran last, that
                \* had the title during the request
    restarted   \* history variable: WezTerm was started during it

focusVars == <<installed, running, rows, nextTab, front, step, wanted, tab, answer,
               starts, owners, restarted>>
request == <<step, wanted, tab, answer>>

Row == [id : 0..MaxTabs, title : Aliases \cup {Untitled}]
Titled(list, name) == {row.id : row \in {r \in Range(list) : r.title = name}}

FocusInit ==
    /\ installed \in BOOLEAN
    /\ running = FALSE
    /\ rows = <<>>
    /\ nextTab = 0
    /\ front = NoTab
    /\ step = "idle"
    /\ wanted \in Aliases
    /\ tab = NoTab
    /\ answer = "none"
    /\ starts = 0
    /\ owners = {}
    /\ restarted = FALSE

-----------------------------------------------------------------------------
(* A request *)

AnswerWith(status) == step' = "idle" /\ answer' = status

\* is_watched, and command_exists.
AskToFocus(name) ==
    /\ step = "idle"
    /\ wanted' = name
    /\ \/ name \notin OnPage /\ AnswerWith("404")
       \/ name \in OnPage /\ ~installed /\ AnswerWith("not_installed")
       \/ name \in OnPage /\ installed /\ step' = "list" /\ answer' = "none"
    /\ tab' = NoTab
    /\ owners' = Titled(rows, name)
    /\ restarted' = FALSE
    /\ UNCHANGED <<installed, running, rows, nextTab, front, starts>>

\* (A mistake: the place of the row, which drifts as tabs close.)
IndexForHost(list) == SelectInSeq(list, LAMBDA row : row.title = wanted) - 1
\* tab_id_for_host: the first row that has the title.
TabIdForHost(list) == list[SelectInSeq(list, LAMBDA row : row.title = wanted)].id

\* `wezterm cli list`
ListTabs ==
    /\ step = "list"
    /\ running
    /\ \/ /\ Titled(rows, wanted) = {}
          /\ AnswerWith("no_tab")
          /\ UNCHANGED tab
       \/ /\ Titled(rows, wanted) # {}
          /\ tab' = TabIdForHost(rows)
          /\ step' = "activate"
          /\ UNCHANGED answer
    /\ UNCHANGED <<installed, running, rows, nextTab, front, wanted, starts,
                   owners, restarted>>

Exists(id) == id \in {row.id : row \in Range(rows)}

\* `wezterm cli activate-tab`
ActivateTab ==
    /\ step = "activate"
    /\ running
    /\ Exists(tab)
    /\ front' = tab
    /\ AnswerWith("activated")
    /\ UNCHANGED <<installed, running, rows, nextTab, wanted, tab, starts,
                   owners, restarted>>

\* cli: no WezTerm, no such tab, or the timeout.
CommandFails ==
    /\ \/ step \in {"list", "activate"} /\ UNCHANGED front
       \/ step = "activate" /\ Exists(tab) /\ front' = tab
    /\ AnswerWith("not_running")
    /\ UNCHANGED <<installed, running, rows, nextTab, wanted, tab, starts,
                   owners, restarted>>

-----------------------------------------------------------------------------
(* The user at WezTerm *)

\* What a request under way has lived through, after a change of the tabs.
Witness(list, start) ==
    \/ /\ step # "idle"
       /\ owners' = (IF start THEN {} ELSE owners) \cup Titled(list, wanted)
       /\ restarted' = (restarted \/ start)
    \/ /\ step = "idle"
       /\ UNCHANGED <<owners, restarted>>

OpenTab(title) ==
    /\ running
    /\ nextTab < MaxTabs
    /\ \E i \in 1..Len(rows) + 1 :
          rows' = InsertAt(rows, i, [id |-> nextTab, title |-> title])
    /\ nextTab' = nextTab + 1
    /\ front' = nextTab
    /\ Witness(rows', FALSE)
    /\ UNCHANGED <<installed, running, request, starts>>

CloseTab(i) ==
    /\ running
    /\ rows' = RemoveAt(rows, i)
    /\ front' = IF rows' = <<>> THEN NoTab ELSE rows'[1].id
    /\ running' = (rows' # <<>>)
    /\ Witness(rows', FALSE)
    /\ UNCHANGED <<installed, nextTab, request, starts>>

Retitle(i, title) ==
    /\ running
    /\ rows' = [rows EXCEPT ![i].title = title]
    /\ Witness(rows', FALSE)
    /\ UNCHANGED <<installed, running, nextTab, front, request, starts>>

Quit ==
    /\ running
    /\ running' = FALSE
    /\ rows' = <<>>
    /\ front' = NoTab
    /\ Witness(rows', FALSE)
    /\ UNCHANGED <<installed, nextTab, request, starts>>

\* wezterm.lua opens a tab for each host; ids start again.
StartWezTerm ==
    /\ installed
    /\ ~running
    /\ starts <= MaxTabs
    /\ starts' = starts + 1
    /\ running' = TRUE
    /\ \E title \in Aliases \cup {Untitled} : rows' = <<[id |-> 0, title |-> title]>>
    /\ nextTab' = 1
    /\ front' = 0
    /\ Witness(rows', TRUE)
    /\ UNCHANGED <<installed, request>>

FocusNext ==
    \/ \E name \in Aliases : AskToFocus(name)
    \/ ListTabs
    \/ ActivateTab
    \/ CommandFails
    \/ \E title \in Aliases \cup {Untitled} :
          OpenTab(title) \/ \E i \in 1..Len(rows) : Retitle(i, title)
    \/ \E i \in 1..Len(rows) : CloseTab(i)
    \/ Quit
    \/ StartWezTerm

FocusSpec == FocusInit /\ [][FocusNext]_focusVars

-----------------------------------------------------------------------------

\* "the id is the only safe handle": however tabs come, go, move and change their
\* titles between the two commands, a command that activates a tab, timed out or not,
\* shows one that had the host's title since the click, if WezTerm was not started
\* anew.
RightTabIsShown ==
    [][step = "activate" /\ step' = "idle" /\ front' # front
          => front' \in owners \/ restarted]_focusVars
=============================================================================
