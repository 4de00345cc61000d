------------------------------ MODULE Storage ------------------------------
(***************************************************************************)
(* The state directory of one devbox (src/src/storage.rs) and the          *)
(* processes that share it: `llm-watch hook`, which the agents run on      *)
(* every lifecycle event, and `llm-watch snapshot`, which the dashboards   *)
(* run over SSH. They are separate processes; all they share is the files  *)
(* and the flock on root/.lock.                                            *)
(*                                                                         *)
(*   hook      normalise the payload, then under the lock read the run's   *)
(*             previous record, write the merged one and, unless the event *)
(*             is a heartbeat, append an event file; then, with the lock   *)
(*             released, prune both directories                            *)
(*   snapshot  under the lock, read the runs, list the events, then open   *)
(*             the newest of them one by one                               *)
(*                                                                         *)
(* A file is written through a temporary and a rename: readers see the old *)
(* file or the new one, or cannot read it at all (an I/O error, or content *)
(* that is no JSON of the kind): to them such a file is not there.         *)
(*                                                                         *)
(* A process may be killed at any step (hooks run under a timeout of the   *)
(* agent) or give up on an I/O error; either way the kernel or with_lock   *)
(* frees the lock.                                                         *)
(***************************************************************************)
EXTENDS HookEvents, Integers, FiniteSets

CONSTANTS
    Hooks,       \* hook processes
    Readers,     \* snapshot processes
    RunIds,      \* runs
    Texts,       \* texts a payload may carry
    Payloads,    \* payloads the agents send
    EventLimit,  \* events a snapshot returns at most
    Retention,   \* how long a file is kept, in units of time
    MaxFires,    \* bound: payloads fired in a behaviour
    MaxTime,     \* bound: units of time in a behaviour
    Free,        \* the lock's value when nobody holds it
    Nothing,     \* no record, no event, no file
    Unread       \* a record that is there and that a hook could not read

Payload ==
    [ name : STRING, source : STRING, ask : STRING, run : RunIds, env : Texts,
      prompt : Texts, inputs : Texts, direct : Texts, transcript : Texts,
      pane : Texts ]

ASSUME TextAssumption == NoText \in Texts
ASSUME PayloadAssumption == Payloads \subseteq Payload
ASSUME BoundAssumption ==
    EventLimit \in Nat /\ Retention \in Nat /\ MaxFires \in Nat /\ MaxTime \in Nat
ASSUME ProcessAssumption ==
    /\ Hooks \cap Readers = {}
    /\ Free \notin Hooks \cup Readers
ASSUME NothingAssumption == Nothing \notin RunIds

VARIABLES
    now,       \* the time of day
    fired,     \* payloads fired so far
    turn,      \* turns of the lock taken by hooks, the order of the events' names
    runs,      \* runs/<id>.json
    events,    \* events/<nanos>-<id>.json
    lock,      \* the holder of the flock
    pc,        \* where each process is
    event,     \* each hook's event
    previous,  \* the record each hook read before writing, or Unread
    cutoff,    \* each hook's prune limit
    doomed,    \* the file each hook found expired and is about to remove
    snap       \* what each reader has read

vars == <<now, fired, turn, runs, events, lock, pc, event, previous, cutoff,
          doomed, snap>>

Procs == Hooks \cup Readers
TextRecord == [Sticky -> Texts]
Event == [ run : RunIds, state : States, activity : BOOLEAN,
           text : TextRecord ]
\* A stored run. mtime is its file's modification time; turn is kept for the
\* properties only: the turn of the lock that wrote it.
RunRecord == [state : States, text : TextRecord, mtime : Int, turn : Nat]
RunFiles == [RunIds -> RunRecord \cup {Nothing}]
\* A logged event. turn stands for the nanoseconds its file's name
\* starts with, taken under the lock.
LoggedEvent == [run : RunIds, state : States, mtime : Int, turn : Nat]

HookSteps == {"idle", "lock", "read", "run", "log", "unlock", "prune",
              "sweep events", "remove event", "sweep runs", "remove run"}
ReaderSteps == {"idle", "runs", "list", "open"}

\* What a reader has: the records and the events it read, the listed events it has
\* still to open and, for the properties only, what it could not read.
SnapRecord == [ runs : RunFiles, listed : SUBSET LoggedEvent, events : SUBSET LoggedEvent,
                unread : SUBSET (RunIds \cup LoggedEvent) ]
EmptySnapshot ==
    [runs |-> [id \in RunIds |-> Nothing], listed |-> {}, events |-> {}, unread |-> {}]

Init ==
    /\ now = 0
    /\ fired = 0
    /\ turn = 0
    /\ runs = [r \in RunIds |-> Nothing]
    /\ events = {}
    /\ lock = Free
    /\ pc = [p \in Procs |-> "idle"]
    /\ event = [h \in Hooks |-> Nothing]
    /\ previous = [h \in Hooks |-> Nothing]
    /\ cutoff = [h \in Hooks |-> 0]
    /\ doomed = [h \in Hooks |-> Nothing]
    /\ snap = [r \in Readers |-> EmptySnapshot]

Goto(p, step) == pc' = [pc EXCEPT ![p] = step]
Release(p) == lock' = IF lock = p THEN Free ELSE lock
\* (A mistake: the lock is not waited for.)
MayAlwaysLock(p) == TRUE
MayLock(p) == lock = Free
Forget(h) ==
    /\ event' = [event EXCEPT ![h] = Nothing]
    /\ previous' = [previous EXCEPT ![h] = Nothing]
    /\ cutoff' = [cutoff EXCEPT ![h] = 0]
    /\ doomed' = [doomed EXCEPT ![h] = Nothing]

-----------------------------------------------------------------------------
(* Writing an event *)

\* An agent runs the hook. Payloads that stand for no state leave no trace.
Fire(h) ==
    /\ pc[h] = "idle"
    /\ fired < MaxFires
    /\ \E p \in Payloads :
          /\ IsRecorded(p)
          /\ event' = [event EXCEPT ![h] = NormalizeEvent(p)]
    /\ fired' = fired + 1
    /\ Goto(h, "lock")
    /\ UNCHANGED <<now, turn, runs, events, lock, previous, cutoff, doomed, snap>>

Acquire(h) ==
    /\ pc[h] = "lock"
    /\ MayLock(h)
    /\ lock' = h
    /\ turn' = turn + 1
    /\ Goto(h, "read")
    /\ UNCHANGED <<now, fired, runs, events, event, previous, cutoff, doomed, snap>>

ReadPrevious(h) ==
    /\ pc[h] = "read"
    /\ previous' = [previous EXCEPT ![h] = runs[event[h].run]]
    /\ Goto(h, "run")
    /\ UNCHANGED <<now, fired, turn, runs, events, lock, event, cutoff, doomed, snap>>

\* read_json_if_exists: a record that cannot be opened or parsed is no record.
ReadPreviousFails(h) ==
    /\ pc[h] = "read"
    /\ runs[event[h].run] # Nothing
    /\ previous' = [previous EXCEPT ![h] = Unread]
    /\ Goto(h, "run")
    /\ UNCHANGED <<now, fired, turn, runs, events, lock, event, cutoff, doomed, snap>>

\* (A mistake: the event's texts replace the record's.)
MergeNothing(e, old) == e.text

\* What the record keeps of the previous one: each text the event leaves empty.
MergeText(e, old) ==
    [field \in Sticky |->
        IF e.text[field] = NoText /\ old \notin {Nothing, Unread}
        THEN old.text[field] ELSE e.text[field]]

\* (A mistake: a record whose state does not change is not written again.)
WriteRunIfChanged(h) ==
    /\ pc[h] = "run"
    /\ runs' =
          IF /\ previous[h] \notin {Nothing, Unread}
             /\ previous[h].state = event[h].state
          THEN runs
          ELSE [runs EXCEPT ![event[h].run] =
                  [ state |-> event[h].state,
                    text  |-> MergeText(event[h], previous[h]),
                    mtime |-> now,
                    turn  |-> turn ]]
    /\ Goto(h, IF event[h].activity THEN "unlock" ELSE "log")
    /\ UNCHANGED <<now, fired, turn, events, lock, event, previous, cutoff, doomed, snap>>

WriteRun(h) ==
    /\ pc[h] = "run"
    /\ runs' = [runs EXCEPT ![event[h].run] =
                  [ state |-> event[h].state,
                    text  |-> MergeText(event[h], previous[h]),
                    mtime |-> now,
                    turn  |-> turn ]]
    /\ Goto(h, IF event[h].activity THEN "unlock" ELSE "log")
    /\ UNCHANGED <<now, fired, turn, events, lock, event, previous, cutoff, doomed, snap>>

WriteEvent(h) ==
    /\ pc[h] = "log"
    /\ events' = events \cup
          {[ run |-> event[h].run, state |-> event[h].state, mtime |-> now,
             turn |-> turn ]}
    /\ Goto(h, "unlock")
    /\ UNCHANGED <<now, fired, turn, runs, lock, event, previous, cutoff, doomed, snap>>

\* A heartbeat ends here; an event goes on to prune, without the lock.
Unlock(h) ==
    /\ pc[h] = "unlock"
    /\ Release(h)
    /\ IF event[h].activity
       THEN Goto(h, "idle") /\ Forget(h)
       ELSE Goto(h, "prune") /\ UNCHANGED <<event, previous, cutoff, doomed>>
    /\ UNCHANGED <<now, fired, turn, runs, events, snap>>

-----------------------------------------------------------------------------
(* Pruning, outside the lock: a file is looked at, then removed by its path *)

\* (A mistake: the limit itself counts as expired.)
ExpiredAtLimit(mtime, limit) == mtime <= limit
Expired(mtime, limit) == mtime < limit

PruneStart(h) ==
    /\ pc[h] = "prune"
    /\ cutoff' = [cutoff EXCEPT ![h] = now - Retention]
    /\ Goto(h, "sweep events")
    /\ UNCHANGED <<now, fired, turn, runs, events, lock, event, previous, doomed, snap>>

FindEvent(h) ==
    /\ pc[h] = "sweep events"
    /\ \E e \in events :
          /\ Expired(e.mtime, cutoff[h])
          /\ doomed' = [doomed EXCEPT ![h] = e.turn]
    /\ Goto(h, "remove event")
    /\ UNCHANGED <<now, fired, turn, runs, events, lock, event, previous, cutoff, snap>>

RemoveEvent(h) ==
    /\ pc[h] = "remove event"
    /\ events' = {e \in events : e.turn # doomed[h]}
    /\ doomed' = [doomed EXCEPT ![h] = Nothing]
    /\ Goto(h, "sweep events")
    /\ UNCHANGED <<now, fired, turn, runs, lock, event, previous, cutoff, snap>>

\* The events directory has been gone through.
NextDirectory(h) ==
    /\ pc[h] = "sweep events"
    /\ \A e \in events : ~Expired(e.mtime, cutoff[h])
    /\ Goto(h, "sweep runs")
    /\ UNCHANGED <<now, fired, turn, runs, events, lock, event, previous, cutoff,
                   doomed, snap>>

ExpiredRun(r, limit) == runs[r] # Nothing /\ Expired(runs[r].mtime, limit)

FindRun(h) ==
    /\ pc[h] = "sweep runs"
    /\ \E r \in RunIds :
          /\ ExpiredRun(r, cutoff[h])
          /\ doomed' = [doomed EXCEPT ![h] = r]
    /\ Goto(h, "remove run")
    /\ UNCHANGED <<now, fired, turn, runs, events, lock, event, previous, cutoff, snap>>

RemoveRun(h) ==
    /\ pc[h] = "remove run"
    /\ runs' = [runs EXCEPT ![doomed[h]] = Nothing]
    /\ doomed' = [doomed EXCEPT ![h] = Nothing]
    /\ Goto(h, "sweep runs")
    /\ UNCHANGED <<now, fired, turn, events, lock, event, previous, cutoff, snap>>

PruneDone(h) ==
    /\ pc[h] = "sweep runs"
    /\ \A r \in RunIds : ~ExpiredRun(r, cutoff[h])
    /\ Goto(h, "idle")
    /\ Forget(h)
    /\ UNCHANGED <<now, fired, turn, runs, events, lock, snap>>

\* (A mistake: a hook that ends early leaves the lock taken.)
AbortHoldingLock(h) ==
    /\ pc[h] # "idle"
    /\ Goto(h, "idle")
    /\ Forget(h)
    /\ UNCHANGED <<now, fired, turn, runs, events, lock, snap>>

\* The hook is killed, or an I/O error ends it: the lock is freed, nothing is
\* undone, and a hook that had not reached the prune skips it.
Abort(h) ==
    /\ pc[h] # "idle"
    /\ Release(h)
    /\ Goto(h, "idle")
    /\ Forget(h)
    /\ UNCHANGED <<now, fired, turn, runs, events, snap>>

-----------------------------------------------------------------------------
(* Taking a snapshot *)

\* (A mistake: a snapshot is read without the lock.)
StartSnapshotUnlocked(r) ==
    /\ pc[r] = "idle"
    /\ Goto(r, "runs")
    /\ UNCHANGED <<now, fired, turn, runs, events, lock, event, previous, cutoff,
                   doomed, snap>>

StartSnapshot(r) ==
    /\ pc[r] = "idle"
    /\ MayLock(r)
    /\ lock' = r
    /\ Goto(r, "runs")
    /\ UNCHANGED <<now, fired, turn, runs, events, event, previous, cutoff, doomed, snap>>

\* The run files are read one by one. Only a prune can touch them meanwhile, and
\* which of the files it removes were read before does not matter below.
ReadRuns(r) ==
    /\ pc[r] = "runs"
    /\ \E lost \in SUBSET {id \in RunIds : runs[id] # Nothing} :
          snap' = [snap EXCEPT ![r] =
            [ runs   |-> [id \in RunIds |-> IF id \in lost THEN Nothing ELSE runs[id]],
              listed |-> {},
              events |-> {},
              unread |-> lost ]]
    /\ Goto(r, "list")
    /\ UNCHANGED <<now, fired, turn, runs, events, lock, event, previous, cutoff, doomed>>

\* (A mistake: the newest files by modification time, which is coarser.)
NewestByTime(files) ==
    {e \in files : Cardinality({f \in files : f.mtime > e.mtime}) < EventLimit}

\* The newest EventLimit files, by name.
Newest(files) ==
    {e \in files : Cardinality({f \in files : f.turn > e.turn}) < EventLimit}

\* The directory is listed and the window fixed.
ListEvents(r) ==
    /\ pc[r] = "list"
    /\ snap' = [snap EXCEPT ![r].listed = Newest(events)]
    /\ Goto(r, "open")
    /\ UNCHANGED <<now, fired, turn, runs, events, lock, event, previous, cutoff, doomed>>

\* The files of the window are opened one by one, the oldest first.
IsNext(e, r) == e \in snap[r].listed /\ \A f \in snap[r].listed : e.turn <= f.turn

ReadEvent(r) ==
    /\ pc[r] = "open"
    /\ \E e \in events :
          /\ IsNext(e, r)
          /\ snap' = [snap EXCEPT ![r].listed = @ \ {e}, ![r].events = @ \cup {e}]
    /\ UNCHANGED <<now, fired, turn, runs, events, lock, pc, event, previous, cutoff,
                   doomed>>

\* A prune, which takes no lock, has removed the file meanwhile, or it cannot be
\* read: the snapshot goes on without it.
SkipEvent(r) ==
    /\ pc[r] = "open"
    /\ \E e \in snap[r].listed :
          /\ IsNext(e, r)
          /\ snap' = [snap EXCEPT ![r].listed = @ \ {e},
                                  ![r].unread = @ \cup ({e} \cap events)]
    /\ UNCHANGED <<now, fired, turn, runs, events, lock, pc, event, previous, cutoff,
                   doomed>>

\* The process prints what it has read, and ends.
EndSnapshot(r) ==
    /\ pc[r] = "open"
    /\ snap[r].listed = {}
    /\ Release(r)
    /\ Goto(r, "idle")
    /\ snap' = [snap EXCEPT ![r] = EmptySnapshot]
    /\ UNCHANGED <<now, fired, turn, runs, events, event, previous, cutoff, doomed>>

\* The SSH session drops: what was read so far reaches nobody.
Drop(r) ==
    /\ pc[r] # "idle"
    /\ Release(r)
    /\ Goto(r, "idle")
    /\ snap' = [snap EXCEPT ![r] = EmptySnapshot]
    /\ UNCHANGED <<now, fired, turn, runs, events, event, previous, cutoff, doomed>>

Tick ==
    /\ now < MaxTime
    /\ now' = now + 1
    /\ UNCHANGED <<fired, turn, runs, events, lock, pc, event, previous, cutoff,
                   doomed, snap>>

-----------------------------------------------------------------------------

Write(h) == \/ Acquire(h) \/ ReadPrevious(h) \/ ReadPreviousFails(h)
            \/ WriteRun(h) \/ WriteEvent(h) \/ Unlock(h)
Prune(h) == \/ PruneStart(h) \/ FindEvent(h) \/ RemoveEvent(h) \/ NextDirectory(h)
            \/ FindRun(h) \/ RemoveRun(h) \/ PruneDone(h)
Read(r) == ReadRuns(r) \/ ListEvents(r) \/ ReadEvent(r) \/ SkipEvent(r) \/ EndSnapshot(r)
Snapshot(r) == StartSnapshot(r) \/ Read(r)

Next ==
    \/ \E h \in Hooks : Fire(h) \/ Write(h) \/ Prune(h) \/ Abort(h)
    \/ \E r \in Readers : Snapshot(r) \/ Drop(r)
    \/ Tick

Spec == Init /\ [][Next]_vars

\* A process that runs keeps running, and flock wakes its waiters in turn: a hook
\* that waits while the lock is freed again and again gets it. A snapshot that
\* was started finishes; none has to be started.
Fairness ==
    /\ \A h \in Hooks : SF_vars(Acquire(h)) /\ WF_vars(Write(h)) /\ WF_vars(Prune(h))
    /\ \A r \in Readers : WF_vars(Read(r))

FairSpec == Spec /\ Fairness

-----------------------------------------------------------------------------
(* Types *)

\* Every variable has its type.
TypeOK ==
    /\ now \in 0..MaxTime
    /\ fired \in 0..MaxFires
    /\ turn \in Nat
    /\ runs \in RunFiles
    /\ events \subseteq LoggedEvent
    /\ lock \in Procs \cup {Free}
    /\ pc \in [Procs -> HookSteps \cup ReaderSteps]
    /\ \A h \in Hooks : pc[h] \in HookSteps
    /\ \A r \in Readers : pc[r] \in ReaderSteps
    /\ event \in [Hooks -> Event \cup {Nothing}]
    /\ previous \in [Hooks -> RunRecord \cup {Nothing, Unread}]
    /\ cutoff \in [Hooks -> Int]
    /\ doomed \in [Hooks -> Nat \cup RunIds \cup {Nothing}]
    /\ snap \in [Readers -> SnapRecord]

-----------------------------------------------------------------------------
(* Safety *)

\* The record a hook is about to merge into is still the one on disk: between
\* its read and its rename no other hook wrote the run. Only a prune, which takes
\* no lock, may have removed it meanwhile. (A hook that could not read the record
\* merges into nothing.)
MergeIsCurrent ==
    \A h \in Hooks :
        pc[h] = "run" /\ previous[h] # Unread
            => runs[event[h].run] \in {previous[h], Nothing}

\* Record r, if there is one, was written with event e or later.
NotBehind(r, e) ==
    r # Nothing => \/ r.turn > e.turn
                   \/ r.turn = e.turn /\ r.state = e.state

\* A run's record is never behind its log: whatever event of the run is on disk,
\* the record was written by that event's hook or by a later one. The dashboard
\* notifies only when both agree, so a record behind its log would lose alerts.
RunNotBehindLog ==
    \A e \in events : NotBehind(runs[e.run], e)

\* The same holds of what a snapshot returns, although it reads the two
\* directories one after the other: no event of a snapshot is newer than the
\* run it is shown with.
SnapshotIsCoherent ==
    \A r \in Readers : \A e \in snap[r].events : NotBehind(snap[r].runs[e.run], e)

\* Hook h is about to replace the record of run r, which it could not read.
Overwrites(h, r) == pc[h] = "run" /\ event[h].run = r /\ previous[h] = Unread

\* A run that stays on disk loses its task, its tmux target or its last message only
\* to a hook that could not read the record it replaces: whichever other hooks run at
\* the same time and wherever they are killed, an event that carries none of them
\* keeps what the record had.
TextIsSticky ==
    [][\A r \in RunIds : \A field \in Sticky :
          (/\ runs[r] # Nothing
           /\ runs'[r] # Nothing
           /\ runs[r].text[field] # NoText
           /\ runs'[r].text[field] = NoText)
              => \E h \in Hooks : lock = h /\ Overwrites(h, r)]_vars

\* A tool-use heartbeat, which fires in the middle of a turn, never replaces the
\* message of the last completed one, although its payload names the transcript,
\* unless it cannot read the record.
HeartbeatKeepsMessage ==
    [][\A h \in Hooks : \A r \in RunIds :
          (/\ lock = h
           /\ event[h].activity
           /\ runs[r] # Nothing
           /\ runs'[r] # Nothing)
              => \/ runs'[r].text["message"] = runs[r].text["message"]
                 \/ Overwrites(h, r)]_vars

\* An event leaves the log only after the retention time.
EventsOutliveRetention ==
    [][\A e \in events : e \in events' \/ now - e.mtime > Retention]_vars

\* README, "Data retention": the files are pruned after 14 days, so a run that
\* was refreshed within the retention time stays.
RunsOutliveRetention ==
    [][\A r \in RunIds :
          (runs[r] # Nothing /\ runs'[r] = Nothing)
              => now - runs[r].mtime > Retention]_vars

-----------------------------------------------------------------------------
(* Why the safety properties hold: an inductive invariant *)

\* What a hook that runs has: its event, until it forgets it.
HookHasEvent ==
    \A h \in Hooks : pc[h] # "idle" =>
        /\ event[h] \in Event
        /\ event[h].activity => event[h].text["message"] = NoText

\* A prune removes a file of the directory it goes through.
DoomedHasType ==
    \A h \in Hooks :
        /\ pc[h] = "remove event" => doomed[h] \in Nat
        /\ pc[h] = "remove run" => doomed[h] \in RunIds

TypeInv == TypeOK /\ HookHasEvent /\ DoomedHasType

\* The steps between acquiring and releasing the lock are the holder's.
LockInv ==
    /\ \A h \in Hooks : pc[h] \in {"read", "run", "log", "unlock"} => lock = h
    /\ \A r \in Readers : pc[r] \in {"runs", "list", "open"} => lock = r

\* A turn is the holder's own until its event is written: nothing on disk, and
\* nothing a prune is about to remove, has its number.
TurnInv ==
    /\ \A r \in RunIds : runs[r] # Nothing => runs[r].turn <= turn
    /\ \A e \in events : e.turn <= turn
    /\ \A e, f \in events : e.turn = f.turn => e = f
    /\ \A h \in Hooks : pc[h] = "remove event" => doomed[h] <= turn
    /\ \A h \in Hooks : pc[h] \in {"read", "run", "log"} =>
          /\ \A e \in events : e.turn < turn
          /\ \A g \in Hooks : pc[g] = "remove event" => doomed[g] < turn

\* Before the event is written, the record already carries it.
RecordInv ==
    \A h \in Hooks : pc[h] = "log" =>
        \A r \in RunIds : (r = event[h].run /\ runs[r] # Nothing) =>
            runs[r].turn = turn /\ runs[r].state = event[h].state

\* The events do not change under a snapshot, except for those that go; the ones it
\* has listed are no newer than the records it has read.
ReadingInv ==
    \A r \in Readers :
        /\ pc[r] = "list" => \A e \in events : NotBehind(snap[r].runs[e.run], e)
        /\ \A e \in snap[r].listed : NotBehind(snap[r].runs[e.run], e)

\* A prune removes events that are old enough.
PruneInv ==
    \A h \in Hooks :
        /\ pc[h] \in {"sweep events", "remove event", "sweep runs", "remove run"}
              => cutoff[h] <= now - Retention
        /\ pc[h] = "remove event"
              => \A e \in events : e.turn = doomed[h] => now - e.mtime > Retention

IInv ==
    /\ TypeInv
    /\ LockInv
    /\ MergeIsCurrent
    /\ TurnInv
    /\ RecordInv
    /\ RunNotBehindLog
    /\ ReadingInv
    /\ SnapshotIsCoherent
    /\ PruneInv

-----------------------------------------------------------------------------
(* Liveness *)

\* Every hook an agent starts comes back: neither the lock nor the prune can
\* hold it for ever, even when other hooks and snapshots are killed meanwhile.
HookReturns ==
    \A h \in Hooks : pc[h] # "idle" ~> pc[h] = "idle"
=============================================================================
