--------------------------- MODULE StorageHistory ---------------------------
(***************************************************************************)
(* Storage implements Devbox: although a hook renames two files one after  *)
(* the other, and a snapshot reads two directories one after the other and *)
(* the events file by file, a hook is as good as one step and a snapshot   *)
(* shows one moment. That step is a hook's last write, or the moment it is *)
(* killed between its two writes; that moment is the listing of the events.*)
(*                                                                         *)
(* `last` is a history variable: no guard reads it.                        *)
(***************************************************************************)
EXTENDS Storage

VARIABLE last   \* the latest event recorded of each run, with its turn

historyVars == <<vars, last>>

\* Hook h has written all it ever will of its event.
Completes(h) ==
    \/ pc[h] = "run" /\ pc'[h] = "unlock"
    \/ pc[h] = "log" /\ pc'[h] # "log"

Keep ==
    \/ \E h \in Hooks :
          /\ Completes(h)
          /\ last' = [last EXCEPT ![event[h].run] =
                        [state |-> event[h].state, turn |-> turn]]
    \/ /\ \A h \in Hooks : ~Completes(h)
       /\ UNCHANGED last

HistoryInit == Init /\ last = [id \in RunIds |-> Nothing]
HistoryNext == Next /\ Keep
HistorySpec == HistoryInit /\ [][HistoryNext]_historyVars
HistoryFairSpec == HistorySpec /\ Fairness

-----------------------------------------------------------------------------
(* The devbox this is *)

\* What Devbox knows of a record.
Brief(record) == [state |-> record.state, turn |-> record.turn]

\* A record whose event is still to be logged is not there yet.
StoredRuns ==
    {id \in RunIds :
        runs[id] # Nothing /\ last[id] # Nothing /\ Brief(runs[id]) = last[id]}

NoAnswer == [runs |-> [id \in RunIds |-> Nothing], events |-> {}, unread |-> {}]

\* What reader r has read or has listed.
Seen(r) ==
    [ runs   |-> [id \in RunIds |->
                    IF snap[r].runs[id] # Nothing THEN Brief(snap[r].runs[id])
                                                  ELSE Nothing],
      events |-> snap[r].listed \cup snap[r].events,
      unread |-> snap[r].unread ]

\* A snapshot looks at the devbox when it lists the events.
Answers == [r \in Readers |-> IF pc[r] = "open" THEN Seen(r) ELSE NoAnswer]

AsDevbox ==
    INSTANCE Devbox WITH
        RunStates <- States,
        Times     <- 0..MaxTime,
        stored    <- StoredRuns,
        log       <- events,
        answer    <- Answers

\* Nobody who takes snapshots can tell that hooks write in several steps, run at
\* the same time and are killed anywhere: a snapshot shows records as they were
\* recorded last and the newest events, all of one moment. None is missing but the
\* files that could not be read and the events that expired before they were opened.
IsDevbox == AsDevbox!Spec

-----------------------------------------------------------------------------
(* Why: an inductive invariant, over that of Storage *)

\* What was recorded last is not newer than the latest turn, and older while the
\* holder of that turn writes.
LastInv ==
    /\ last \in [RunIds -> [state : States, turn : Nat] \cup {Nothing}]
    /\ \A id \in RunIds : last[id] # Nothing => last[id].turn <= turn
    /\ \A h \in Hooks : pc[h] \in {"read", "run", "log"} =>
          \A id \in RunIds : last[id] # Nothing => last[id].turn < turn

\* A record on disk is the last one, unless its event is about to be logged.
StoredInv ==
    \A id \in RunIds : runs[id] # Nothing =>
        \/ last[id] = Brief(runs[id])
        \/ \E h \in Hooks : pc[h] = "log" /\ event[h].run = id

\* Until a snapshot lists the events nothing is recorded; records may expire.
HalfReadInv ==
    \A r \in Readers : pc[r] = "list" =>
        /\ snap[r].events = {}
        /\ snap[r].unread \subseteq RunIds
        /\ \A id \in RunIds :
              /\ snap[r].runs[id] # Nothing => last[id] = Brief(snap[r].runs[id])
              /\ runs[id] # Nothing => snap[r].runs[id] # Nothing \/ id \in snap[r].unread

\* An event is opened once, before the snapshot ends.
WindowInv ==
    \A r \in Readers :
        /\ pc[r] # "open" => snap[r].listed = {}
        /\ snap[r].listed \cap snap[r].events = {}

HistoryInv == IInv /\ LastInv /\ StoredInv /\ HalfReadInv /\ WindowInv
=============================================================================
