------------------------------- MODULE Viewer -------------------------------
(***************************************************************************)
(* The viewer of served pages (src/src/web/index.html). Over the cards, it *)
(* has a tab for each link of the last message and a frame for each page   *)
(* it has shown; frames are made once and hidden when another is active. A *)
(* page whose link is gone keeps its tab, as the last one, as long as it   *)
(* is active.                                                              *)
(*                                                                         *)
(* No two links have one address. While the viewer is open no edit is, so  *)
(* every message is drawn.                                                 *)
(***************************************************************************)
EXTENDS Integers, Sequences

CONSTANTS
    Addresses,   \* the addresses of links
    LinkLists,   \* the links that a message may have, in the order of the cards
    NoPage       \* no active page

ASSUME LinkAssumption == LinkLists \subseteq Seq(Addresses) /\ NoPage \notin Addresses

VARIABLES
    links,    \* the links of the last message
    open,     \* whether the viewer is open
    active,   \* the page that the user reads
    tabs,     \* the tabs on the page
    frames,   \* the pages with a frame
    visible   \* those whose frame is not hidden

viewerVars == <<links, open, active, tabs, frames, visible>>

Among(list) == {list[i] : i \in 1..Len(list)}

ViewerInit ==
    /\ links \in LinkLists
    /\ open = FALSE
    /\ active = NoPage
    /\ tabs = <<>>
    /\ frames = {}
    /\ visible = {}

\* (A mistake: a page whose link is gone loses its tab.)
TabsOfLinks(list, page) == list
TabsFor(list, page) ==
    IF page \in frames \ Among(list) THEN Append(list, page) ELSE list

\* (A mistake: the frame that was active is not hidden.)
VisibleAdded(list, page) == visible \cup {page}
VisibleAfter(list, page) == (visible \ Among(list)) \cup {page}

\* renderViewer, of the links of a message and the page chosen.
RenderViewer(list, page) ==
    LET shown == TabsFor(list, page) IN
    /\ tabs' = shown
    /\ \/ /\ shown = <<>>
          /\ active' = NoPage
          /\ frames' = {}
          /\ visible' = {}
       \/ /\ shown # <<>>
          /\ active' = IF page \in Among(shown) THEN page ELSE shown[1]
          /\ frames' = frames \cup Among(shown)
          /\ visible' = VisibleAfter(shown, active')

-----------------------------------------------------------------------------

ReceiveLinks ==
    /\ links' \in LinkLists
    /\ \/ open /\ RenderViewer(links', active)
       \/ ~open /\ UNCHANGED <<active, tabs, frames, visible>>
    /\ UNCHANGED open

\* The button of a link on a card, which may be gone from the last message if its
\* render was held.
OpenViewer(page) ==
    /\ ~open
    /\ open' = TRUE
    /\ RenderViewer(links, page)
    /\ UNCHANGED links

\* The button or Escape.
CloseViewer ==
    /\ open
    /\ open' = FALSE
    /\ UNCHANGED <<links, active, tabs, frames, visible>>

\* A click on a tab, or a digit.
ChooseTab(i) ==
    /\ open
    /\ RenderViewer(links, tabs[i])
    /\ UNCHANGED <<links, open>>

Selected == CHOOSE i \in 1..Len(tabs) : tabs[i] = active

\* The arrow keys go round.
Arrow(step) ==
    /\ open
    /\ Len(tabs) >= 2
    /\ RenderViewer(links, tabs[((Selected - 1 + step + Len(tabs)) % Len(tabs)) + 1])
    /\ UNCHANGED <<links, open>>

ViewerNext ==
    \/ ReceiveLinks
    \/ \E page \in Addresses : OpenViewer(page)
    \/ CloseViewer
    \/ \E i \in 1..Len(tabs) : ChooseTab(i)
    \/ \E step \in {-1, 1} : Arrow(step)

ViewerSpec == ViewerInit /\ [][ViewerNext]_viewerVars

-----------------------------------------------------------------------------

\* An open viewer with tabs shows the active page and has its tab; one without is
\* empty: whatever came and went while it was closed. No other page is visible but
\* those that ended while they were active: none that is still served stays over the
\* one chosen.
ActiveIsShown ==
    open =>
        /\ tabs = <<>> <=> active = NoPage
        /\ active # NoPage => active \in Among(tabs) \cap visible
        /\ tabs = <<>> => frames = {}
        /\ Among(tabs) \cup visible \subseteq frames
        /\ \A page \in visible \ {active} : page \notin Among(links)

\* "A page you are reading stays tabbable even after its tunnel goes away": no
\* message takes the page that is read away, nor its tab or its frame.
ReadingIsNotDisturbed ==
    [][links' # links /\ open /\ active # NoPage =>
          active' = active /\ active \in Among(tabs') \cap visible']_viewerVars
=============================================================================
