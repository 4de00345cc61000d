------------------------------- MODULE Devbox -------------------------------
(***************************************************************************)
(* What a devbox promises to those who look at it: an event is recorded    *)
(* and logged in one step, after every event recorded before it, and a     *)
(* snapshot shows the devbox at one moment. No hook is ever seen half done.*)
(*                                                                         *)
(* Files may expire: records that expire while a snapshot is taken may be  *)
(* in it or not, and an event that was seen may have expired before it was *)
(* read. Files that cannot be read are missing from a snapshot.            *)
(***************************************************************************)
EXTENDS Integers, FiniteSets

CONSTANTS
    Readers,     \* those who take snapshots
    RunIds,      \* runs
    RunStates,   \* states a run may be in
    Times,       \* times of day
    EventLimit,  \* events a snapshot returns at most
    Nothing      \* no record

VARIABLES
    turn,      \* the number of the latest event
    last,      \* the latest event recorded of each run: its state and its number
    stored,    \* runs whose record is kept
    log,       \* logged events that are kept
    answer     \* what each reader is told

vars == <<turn, last, stored, log, answer>>

\* Besides records and events: what could not be read.
NoAnswer == [runs |-> [id \in RunIds |-> Nothing], events |-> {}, unread |-> {}]

Init ==
    /\ turn = 0
    /\ last = [id \in RunIds |-> Nothing]
    /\ stored = {}
    /\ log = {}
    /\ answer = [r \in Readers |-> NoAnswer]

\* An event gets its number. It is not recorded if its hook is killed.
TakeTurn ==
    /\ turn' = turn + 1
    /\ UNCHANGED <<last, stored, log, answer>>

\* The event is recorded. A heartbeat is not logged, nor is the event of a hook
\* that is killed; a record that is older than its run may expire at once.
Record(id, state, time) ==
    /\ \A r \in RunIds : last[r] # Nothing => last[r].turn < turn
    /\ last' = [last EXCEPT ![id] = [state |-> state, turn |-> turn]]
    /\ stored' \in {stored \cup {id}, stored \ {id}}
    /\ log' \in {log, log \cup {[run |-> id, state |-> state, mtime |-> time, turn |-> turn]}}
    /\ UNCHANGED <<turn, answer>>

Expire ==
    /\ stored' \subseteq stored
    /\ log' \subseteq log
    /\ UNCHANGED <<turn, last, answer>>

Newest(files) ==
    {e \in files : Cardinality({f \in files : f.turn > e.turn}) < EventLimit}

\* A reader sees every kept record, as recorded last, and the newest events, but for
\* the records it cannot read.
Answer(r) ==
    /\ \E ids, unread \in SUBSET RunIds :
          /\ stored \subseteq ids \cup unread
          /\ answer' = [answer EXCEPT ![r] =
                [ runs   |-> [id \in RunIds |-> IF id \in ids THEN last[id] ELSE Nothing],
                  events |-> Newest(log),
                  unread |-> unread ]]
    /\ UNCHANGED <<turn, last, stored, log>>

\* An event it saw expired before it was read, or cannot be read.
Miss(r) ==
    /\ \E e \in answer[r].events :
          answer' = [answer EXCEPT ![r].events = @ \ {e},
                                   ![r].unread = @ \cup ({e} \cap log)]
    /\ UNCHANGED <<turn, last, stored, log>>

\* A reader has its answer, or is cut off.
Dismiss(r) ==
    /\ answer' = [answer EXCEPT ![r] = NoAnswer]
    /\ UNCHANGED <<turn, last, stored, log>>

Next ==
    \/ TakeTurn
    \/ \E id \in RunIds, state \in RunStates, time \in Times : Record(id, state, time)
    \/ Expire
    \/ \E r \in Readers : Answer(r) \/ Miss(r) \/ Dismiss(r)

Spec == Init /\ [][Next]_vars
=============================================================================
