------------------------------ MODULE Editing ------------------------------
(***************************************************************************)
(* Typing a label or a pull request into a card of the web page            *)
(* (src/src/web/index.html). Every message redraws all the cards, which    *)
(* would take the input away while the user types. So the renders of       *)
(* messages and of the one-second timer are held while an edit is open,    *)
(* and only forced ones pass: those of the user's own clicks and those of  *)
(* answers to earlier requests (a pull request refused, a tab jumped to).  *)
(*                                                                         *)
(* A forced render builds the open edit's input anew. Browsers differ in   *)
(* whether an input that is removed while it has the focus gets `blur`:    *)
(* here either may happen.                                                 *)
(***************************************************************************)
EXTENDS Naturals

CONSTANTS
    CardHosts,   \* hosts that may be on the page
    Entries,     \* what can be typed, trimmed
    NoEntry,     \* the empty text
    Absent       \* a host that is not on the page

ASSUME EntryAssumption == NoEntry \notin Entries /\ Absent \notin Entries \cup {NoEntry}

VARIABLES
    cards,    \* the label of each host, as the last message says
    drawn,    \* the same, as it is on the page
    editing,  \* which edit is open
    input,    \* the input on the page
    saves,    \* history variable: how often the latest input has been saved
    escaped   \* history variable: the user left it with Escape

editingVars == <<cards, drawn, editing, input, saves, escaped>>

Cards == [CardHosts -> Entries \cup {NoEntry, Absent}]
NotEditing == [host |-> Absent, field |-> "none"]
NoInput == [base |-> Absent, draft |-> Absent, settled |-> FALSE]

EditingInit ==
    /\ cards \in Cards
    /\ drawn = cards
    /\ editing = NotEditing
    /\ input = NoInput
    /\ saves = 0
    /\ escaped = FALSE

\* labelNode, prAddNode: the input of an edit on a page that shows a view.
InputFor(edit, view) ==
    IF edit = NotEditing \/ view[edit.host] = Absent THEN NoInput
    ELSE LET base == IF edit.field = "label" THEN view[edit.host] ELSE NoEntry
         IN  [base |-> base, draft |-> base, settled |-> FALSE]

-----------------------------------------------------------------------------
(* Closing an edit: finish *)

\* (A mistake: the input may be closed again.)
StillOpen(in) == in
Settled(in) == [in EXCEPT !.settled = TRUE]

\* How often closing an input posts what was typed.
SavesOf(in, save) ==
    IF save /\ ~in.settled /\ in.draft # in.base THEN 1 ELSE 0

\* (A mistake: the page is not drawn.)
FinishUndrawn(save) ==
    /\ input # NoInput
    /\ editing' = NotEditing
    /\ saves' = saves + SavesOf(input, save)
    /\ input' = NoInput
    /\ UNCHANGED <<cards, drawn>>

\* The render at its end removes the input, which closes it once more if it blurs.
Finish(save) ==
    /\ input # NoInput
    /\ editing' = NotEditing
    /\ \E blurs \in BOOLEAN :
          saves' = saves + SavesOf(input, save)
                         + (IF blurs THEN SavesOf(Settled(input), TRUE) ELSE 0)
    /\ input' = NoInput
    /\ drawn' = cards
    /\ UNCHANGED cards

\* Enter, or the focus goes elsewhere.
Enter == Finish(TRUE) /\ UNCHANGED escaped
Escape == Finish(FALSE) /\ escaped' = TRUE

-----------------------------------------------------------------------------
(* Drawing: render *)

\* The cards are built before the old ones are removed: an input that blurs then
\* closes the edit, but the new cards still have an input for it.
Draw(view) ==
    LET new == InputFor(editing, view) IN
    /\ drawn' = view
    /\ input' = new
    /\ \E blurs \in BOOLEAN :
          LET closes == blurs /\ input # NoInput IN
          /\ editing' = IF closes THEN NotEditing ELSE editing
          /\ IF new # NoInput
             THEN saves' = 0 /\ escaped' = FALSE
             ELSE /\ saves' = saves + (IF closes THEN SavesOf(input, TRUE) ELSE 0)
                  /\ UNCHANGED escaped

\* (A mistake: no render is held.)
NeverHeld == FALSE
Held == editing # NotEditing

Message ==
    /\ cards' \in Cards
    /\ \/ ~Held /\ Draw(cards')
       \/ Held /\ UNCHANGED <<drawn, editing, input, saves, escaped>>

Timer ==
    /\ ~Held
    /\ Draw(cards)
    /\ UNCHANGED cards

ForcedRender ==
    /\ Draw(cards)
    /\ UNCHANGED cards

\* The user clicks a label, or "+ PR", of a card that is drawn. An input that is open
\* has blurred before.
ClickChip(host, field) ==
    /\ input = NoInput
    /\ drawn[host] # Absent
    /\ editing' = [host |-> host, field |-> field]
    /\ drawn' = cards
    /\ input' = InputFor(editing', cards)
    /\ saves' = 0
    /\ escaped' = FALSE
    /\ UNCHANGED cards

Type(text) ==
    /\ input # NoInput
    /\ input' = [input EXCEPT !.draft = text]
    /\ UNCHANGED <<cards, drawn, editing, saves, escaped>>

EditingNext ==
    \/ Message
    \/ Timer
    \/ ForcedRender
    \/ \E host \in CardHosts, field \in {"label", "pr"} : ClickChip(host, field)
    \/ \E text \in Entries \cup {NoEntry} : Type(text)
    \/ Enter
    \/ Escape

EditingSpec == EditingInit /\ [][EditingNext]_editingVars

-----------------------------------------------------------------------------

\* An input is saved once at most and never after Escape, although Enter, the focus
\* that is lost and the removal of the input may each close it; and only with what
\* the user typed: one that is left as it was built does not write its label over the
\* one another dashboard has set meanwhile.
SavedOnceIfTyped ==
    [][saves' > saves =>
          saves' = 1 /\ ~escaped' /\ input.draft # input.base]_editingVars

\* "background renders are held until the edit settles": no message changes the input
\* of an open edit.
TypingSurvivesMessages ==
    [][editing # NotEditing /\ cards' # cards => UNCHANGED <<input, editing>>]_editingVars

\* A page with no open edit shows the last message: what was held is made up for when
\* the edit closes, however it closes.
HeldIsDrawnLater == editing = NotEditing => drawn = cards
=============================================================================
