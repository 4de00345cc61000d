------------------------------- MODULE MCPage -------------------------------
(***************************************************************************)
(* The parts of the web page, in one instance: they share the page and no  *)
(* state of these models, so a behaviour is one of a single part, the      *)
(* others being as they are when the page has loaded.                      *)
(***************************************************************************)
EXTENDS Dismissals, Editing, Viewer, WakeLock, Focus

CONSTANTS p1, s1, s2, a, b, x, y, u1, u2, u3

VARIABLE part

\* Every list of two links or fewer, without repetition.
MCLinkLists ==
    {list \in UNION {[1..n -> Addresses] : n \in 0..2} :
        Len(list) = 2 => list[1] # list[2]}

DismissalsAtRest == Init
EditingAtRest ==
    /\ cards = [host \in CardHosts |-> NoEntry] /\ drawn = cards
    /\ editing = NotEditing /\ input = NoInput /\ saves = 0 /\ escaped = FALSE
ViewerAtRest ==
    /\ links = <<>> /\ open = FALSE /\ active = NoPage
    /\ tabs = <<>> /\ frames = {} /\ visible = {}
WakeAtRest == WakeInit
FocusAtRest ==
    /\ installed = FALSE /\ running = FALSE /\ rows = <<>> /\ nextTab = 0
    /\ front = NoTab /\ step = "idle" /\ wanted = a /\ tab = NoTab /\ answer = "none"
    /\ starts = 0 /\ owners = {} /\ restarted = FALSE

MCInit ==
    \/ part = "rows" /\ Init
       /\ EditingAtRest /\ ViewerAtRest /\ WakeAtRest /\ FocusAtRest
    \/ part = "edit" /\ EditingInit
       /\ DismissalsAtRest /\ ViewerAtRest /\ WakeAtRest /\ FocusAtRest
    \/ part = "viewer" /\ ViewerInit
       /\ DismissalsAtRest /\ EditingAtRest /\ WakeAtRest /\ FocusAtRest
    \/ part = "bulb" /\ WakeInit
       /\ DismissalsAtRest /\ EditingAtRest /\ ViewerAtRest /\ FocusAtRest
    \/ part = "jump" /\ FocusInit
       /\ DismissalsAtRest /\ EditingAtRest /\ ViewerAtRest /\ WakeAtRest

MCNext ==
    /\ UNCHANGED part
    /\ \/ part = "rows" /\ Next
          /\ UNCHANGED <<editingVars, viewerVars, wakeVars, focusVars>>
       \/ part = "edit" /\ EditingNext
          /\ UNCHANGED <<vars, viewerVars, wakeVars, focusVars>>
       \/ part = "viewer" /\ ViewerNext
          /\ UNCHANGED <<vars, editingVars, wakeVars, focusVars>>
       \/ part = "bulb" /\ WakeNext
          /\ UNCHANGED <<vars, editingVars, viewerVars, focusVars>>
       \/ part = "jump" /\ FocusNext
          /\ UNCHANGED <<vars, editingVars, viewerVars, wakeVars>>

MCSpec ==
    MCInit /\ [][MCNext]_<<part, vars, editingVars, viewerVars, wakeVars, focusVars>>
=============================================================================
