--------------------------- MODULE StorageProofs ---------------------------
(***************************************************************************)
(* What Storage promises for every number of hooks, readers, runs, texts   *)
(* and payloads, and every bound.                                          *)
(***************************************************************************)
EXTENDS StorageHistory, TLAPS

-----------------------------------------------------------------------------
(* The event a payload becomes *)

\* A recorded payload stands for a state.
LEMMA StateOfPayload ==
    ASSUME NEW p \in Payload, IsRecorded(p)
    PROVE  NormalizeState(p) \in States
<1>1. p.name \in DOMAIN NamedState => NamedState[p.name] \in States
  BY DEF NamedState, States
<1>2. p.ask \in DOMAIN AskedState => AskedState[p.ask] \in States
  BY DEF AskedState, States
<1>3. "idle" \in States
  BY DEF States
<1> QED
  BY <1>1, <1>2, <1>3 DEF IsRecorded, NormalizeState

\* The texts of an event are texts, and a heartbeat has no message.
LEMMA TextOfPayload ==
    ASSUME NEW p \in Payload
    PROVE  /\ TextOf(p) \in TextRecord
           /\ IsActivity(p) => TextOf(p)["message"] = NoText
<1>1. \A t \in Texts : Compact(t) \in Texts
  BY TextAssumption DEF Compact
<1>2. \A t, u \in Texts : FirstOf(t, u) \in Texts
  BY DEF FirstOf
<1>3. TaskOf(p) \in Texts
  <2>1. FirstOf(Compact(p.prompt), Compact(p.inputs)) \in Texts
    BY <1>1, <1>2 DEF Payload
  <2>2. Compact(p.env) \in Texts /\ Compact(p.inputs) \in Texts
    BY <1>1 DEF Payload
  <2> QED
    BY <2>1, <2>2, <1>2, TextAssumption DEF TaskOf
<1>4. MessageOf(p) \in Texts
  BY <1>1, TextAssumption DEF MessageOf, LastAssistantMessage, Payload
<1>5. p.pane \in Texts
  BY DEF Payload
<1>6. TextOf(p) \in TextRecord
  BY <1>3, <1>4, <1>5 DEF TextOf, TextRecord, Sticky
<1>7. TextOf(p)["message"] = MessageOf(p)
  BY DEF TextOf, Sticky
<1> QED
  BY <1>6, <1>7 DEF MessageOf

\* A recorded payload becomes an event.
LEMMA EventOfPayload ==
    ASSUME NEW p \in Payloads, IsRecorded(p)
    PROVE  /\ NormalizeEvent(p) \in Event
           /\ NormalizeEvent(p).activity => NormalizeEvent(p).text["message"] = NoText
<1>1. p \in Payload
  BY PayloadAssumption
<1>2. p.run \in RunIds
  BY <1>1 DEF Payload
<1> QED
  BY <1>1, <1>2, StateOfPayload, TextOfPayload DEF NormalizeEvent, Event, IsActivity

\* Merging two records keeps every text one of them has.
LEMMA MergedText ==
    ASSUME NEW e \in Event, NEW old \in RunRecord \cup {Nothing, Unread}
    PROVE  /\ MergeText(e, old) \in TextRecord
           /\ \A field \in Sticky :
                 (old \notin {Nothing, Unread} /\ old.text[field] # NoText)
                     => MergeText(e, old)[field] # NoText
<1>1. e.text \in TextRecord
  BY DEF Event
<1>2. old \notin {Nothing, Unread} => old.text \in TextRecord
  BY DEF RunRecord
<1> QED
  BY <1>1, <1>2 DEF MergeText, TextRecord

-----------------------------------------------------------------------------
(* Type correctness *)

\* A reader that has read nothing is well typed.
LEMMA EmptyType ==
    EmptySnapshot \in SnapRecord
BY DEF EmptySnapshot, RunFiles, SnapRecord

\* The empty directory is well typed.
LEMMA TypeInvInit == Init => TypeInv
BY BoundAssumption, EmptyType
   DEF Init, TypeInv, TypeOK, HookHasEvent, DoomedHasType, RunFiles, HookSteps,
       ReaderSteps, Procs

\* A process is a hook or a reader, and none is the free lock.
LEMMA HooksAreNotReaders ==
    /\ \A h \in Hooks : h \in Procs /\ h \notin Readers /\ h # Free
    /\ \A r \in Readers : r \in Procs /\ r \notin Hooks /\ r # Free
BY ProcessAssumption DEF Procs

\* A step of a hook that moves its program counter.
LEMMA HookGoes ==
    ASSUME TypeOK, NEW h \in Hooks, NEW step \in HookSteps, Goto(h, step)
    PROVE  /\ pc' \in [Procs -> HookSteps \cup ReaderSteps]
           /\ \A g \in Hooks : pc'[g] \in HookSteps
           /\ \A r \in Readers : pc'[r] = pc[r] /\ pc'[r] \in ReaderSteps
           /\ \A g \in Hooks : pc'[g] = IF g = h THEN step ELSE pc[g]
BY HooksAreNotReaders DEF TypeOK, Goto, Procs

\* A step of a reader that moves its program counter.
LEMMA ReaderGoes ==
    ASSUME TypeOK, NEW r \in Readers, NEW step \in ReaderSteps, Goto(r, step)
    PROVE  /\ pc' \in [Procs -> HookSteps \cup ReaderSteps]
           /\ \A h \in Hooks : pc'[h] = pc[h] /\ pc'[h] \in HookSteps
           /\ \A q \in Readers : pc'[q] \in ReaderSteps
           /\ \A q \in Readers : pc'[q] = IF q = r THEN step ELSE pc[q]
BY HooksAreNotReaders DEF TypeOK, Goto, Procs

\* A hook that ends forgets its event and its prune.
LEMMA HookForgets ==
    ASSUME TypeOK, NEW h \in Hooks, Forget(h)
    PROVE  /\ event' \in [Hooks -> Event \cup {Nothing}]
           /\ previous' \in [Hooks -> RunRecord \cup {Nothing, Unread}]
           /\ cutoff' \in [Hooks -> Int]
           /\ doomed' \in [Hooks -> Nat \cup RunIds \cup {Nothing}]
           /\ \A g \in Hooks \ {h} : event'[g] = event[g] /\ doomed'[g] = doomed[g]
BY DEF TypeOK, Forget

\* Releasing the lock leaves it free or with its holder.
LEMMA LockReleased ==
    ASSUME TypeOK, NEW p \in Procs, Release(p)
    PROVE  lock' \in Procs \cup {Free}
BY DEF TypeOK, Release

\* A reader that opens one more file or passes over it is well typed.
LEMMA ReaderOpens ==
    ASSUME TypeOK, NEW r \in Readers, NEW e \in LoggedEvent
    PROVE  /\ [snap[r] EXCEPT !.listed = @ \ {e}, !.events = @ \cup {e}] \in SnapRecord
           /\ [snap[r] EXCEPT !.listed = @ \ {e},
                              !.unread = @ \cup ({e} \cap events)] \in SnapRecord
           /\ [snap[r] EXCEPT !.listed = Newest(events)] \in SnapRecord
<1>1. snap[r] \in SnapRecord
  BY DEF TypeOK
<1>2. events \subseteq LoggedEvent /\ Newest(events) \subseteq LoggedEvent
  BY DEF TypeOK, Newest
<1> QED
  BY <1>1, <1>2 DEF SnapRecord

\* The counters stay within their bounds.
LEMMA Times ==
    ASSUME TypeOK
    PROVE  /\ now \in Int
           /\ now - Retention \in Int
           /\ now < MaxTime => now + 1 \in 0..MaxTime
           /\ fired < MaxFires => fired + 1 \in 0..MaxFires
           /\ turn + 1 \in Nat
<1>1. /\ now \in 0..MaxTime /\ fired \in 0..MaxFires /\ turn \in Nat
      /\ MaxTime \in Nat /\ MaxFires \in Nat /\ Retention \in Nat
  BY BoundAssumption DEF TypeOK
<1> QED
  BY <1>1

\* The hook that ends has nothing left to be typed.
LEMMA HookEnds ==
    ASSUME TypeInv, NEW h \in Hooks, Goto(h, "idle"), Forget(h)
    PROVE  HookHasEvent' /\ DoomedHasType'
<1>1. \A g \in Hooks : pc'[g] = IF g = h THEN "idle" ELSE pc[g]
  BY HookGoes DEF TypeInv, HookSteps
<1>2. \A g \in Hooks \ {h} : event'[g] = event[g] /\ doomed'[g] = doomed[g]
  BY HookForgets DEF TypeInv
<1>3. HookHasEvent'
  BY <1>1, <1>2 DEF TypeInv, HookHasEvent
<1>4. DoomedHasType'
  BY <1>1, <1>2 DEF TypeInv, DoomedHasType
<1> QED
  BY <1>3, <1>4

\* Every step keeps the types.
LEMMA TypeInvStep == TypeInv /\ [Next]_vars => TypeInv'
<1> SUFFICES ASSUME TypeInv, [Next]_vars PROVE TypeInv'
  OBVIOUS
<1> USE BoundAssumption, HooksAreNotReaders
    DEF TypeInv, TypeOK, HookHasEvent, DoomedHasType
<1>1. ASSUME NEW h \in Hooks, Fire(h) PROVE TypeInv'
  <2>1. PICK p \in Payloads :
            IsRecorded(p) /\ event' = [event EXCEPT ![h] = NormalizeEvent(p)]
    BY <1>1 DEF Fire
  <2>2. /\ NormalizeEvent(p) \in Event
        /\ NormalizeEvent(p).activity => NormalizeEvent(p).text["message"] = NoText
    BY <2>1, EventOfPayload
  <2>3. "lock" \in HookSteps /\ Goto(h, "lock")
    BY <1>1 DEF Fire, HookSteps
  <2>4. fired' \in 0..MaxFires
    BY <1>1, Times DEF Fire
  <2>5. event' \in [Hooks -> Event \cup {Nothing}]
    BY <2>1, <2>2
  <2>6. HookHasEvent' /\ DoomedHasType'
    BY <1>1, <2>1, <2>2, <2>3, HookGoes DEF Fire
  <2> QED
    BY <1>1, <2>3, <2>4, <2>5, <2>6, HookGoes DEF Fire
<1>2. ASSUME NEW h \in Hooks, Acquire(h) PROVE TypeInv'
  <2>1. "read" \in HookSteps /\ Goto(h, "read")
    BY <1>2 DEF Acquire, HookSteps
  <2>2. HookHasEvent' /\ DoomedHasType'
    BY <1>2, <2>1, HookGoes DEF Acquire
  <2> QED
    BY <1>2, <2>1, <2>2, Times, HookGoes DEF Acquire, Procs
<1>3. ASSUME NEW h \in Hooks, ReadPrevious(h) PROVE TypeInv'
  <2>1. event[h].run \in RunIds
    BY <1>3 DEF ReadPrevious, Event
  <2>2. runs[event[h].run] \in RunRecord \cup {Nothing}
    BY <2>1 DEF RunFiles
  <2> QED
    BY <1>3, <2>2 DEF ReadPrevious, Goto, HookSteps, Procs
<1>3f. ASSUME NEW h \in Hooks, ReadPreviousFails(h) PROVE TypeInv'
  BY <1>3f DEF ReadPreviousFails, Goto, HookSteps, Procs
<1>4. ASSUME NEW h \in Hooks, WriteRun(h) PROVE TypeInv'
  <2>1. event[h] \in Event /\ event[h].run \in RunIds /\ event[h].state \in States
    BY <1>4 DEF WriteRun, Event
  <2>2. MergeText(event[h], previous[h]) \in TextRecord
    BY <2>1, MergedText
  <2>3. [ state |-> event[h].state, text |-> MergeText(event[h], previous[h]),
          mtime |-> now, turn |-> turn ] \in RunRecord
    <3>1. now \in Int
      BY Times
    <3> QED
      BY <2>1, <2>2, <3>1 DEF RunRecord
  <2>4. runs' \in RunFiles
    BY <1>4, <2>1, <2>3 DEF WriteRun, RunFiles
  <2> QED
    BY <1>4, <2>4 DEF WriteRun, Goto, HookSteps, Procs
<1>5. ASSUME NEW h \in Hooks, WriteEvent(h) PROVE TypeInv'
  <2>1. event[h].run \in RunIds /\ event[h].state \in States
    BY <1>5 DEF WriteEvent, Event
  <2>2. events' \subseteq LoggedEvent
    <3>1. now \in Int
      BY Times
    <3>2. [ run |-> event[h].run, state |-> event[h].state, mtime |-> now,
            turn |-> turn ] \in LoggedEvent
      BY <2>1, <3>1 DEF LoggedEvent
    <3> QED
      BY <1>5, <3>2 DEF WriteEvent
  <2> QED
    BY <1>5, <2>2 DEF WriteEvent, Goto, HookSteps, Procs
<1>6. ASSUME NEW h \in Hooks, Unlock(h) PROVE TypeInv'
  <2>1. lock' \in Procs \cup {Free}
    BY <1>6, LockReleased DEF Unlock
  <2>2. "idle" \in HookSteps /\ "prune" \in HookSteps
    BY DEF HookSteps
  <2>3. CASE event[h].activity
    <3>1. Goto(h, "idle") /\ Forget(h)
      BY <1>6, <2>3 DEF Unlock
    <3>2. HookHasEvent' /\ DoomedHasType'
      BY <3>1, HookEnds
    <3> QED
      BY <1>6, <2>1, <2>2, <3>1, <3>2, HookGoes, HookForgets DEF Unlock
  <2>4. CASE ~event[h].activity
    <3>1. Goto(h, "prune") /\ UNCHANGED <<event, previous, cutoff, doomed>>
      BY <1>6, <2>4 DEF Unlock
    <3>2. HookHasEvent' /\ DoomedHasType'
      BY <1>6, <2>2, <3>1, HookGoes DEF Unlock
    <3> QED
      BY <1>6, <2>1, <2>2, <3>1, <3>2, HookGoes DEF Unlock
  <2> QED
    BY <2>3, <2>4
<1>7. ASSUME NEW h \in Hooks, PruneStart(h) PROVE TypeInv'
  <2>1. "sweep events" \in HookSteps /\ Goto(h, "sweep events")
    BY <1>7 DEF PruneStart, HookSteps
  <2>2. now - Retention \in Int
    BY Times
  <2>3. cutoff' \in [Hooks -> Int]
    BY <1>7, <2>2 DEF PruneStart
  <2>4. HookHasEvent' /\ DoomedHasType'
    BY <1>7, <2>1, HookGoes DEF PruneStart
  <2> QED
    BY <1>7, <2>1, <2>3, <2>4, HookGoes DEF PruneStart
<1>8. ASSUME NEW h \in Hooks, FindEvent(h) PROVE TypeInv'
  <2>1. PICK e \in events : doomed' = [doomed EXCEPT ![h] = e.turn]
    BY <1>8 DEF FindEvent
  <2>2. e.turn \in Nat
    BY <2>1 DEF LoggedEvent
  <2> QED
    BY <1>8, <2>1, <2>2 DEF FindEvent, Goto, HookSteps, Procs
<1>9. ASSUME NEW h \in Hooks, RemoveEvent(h) PROVE TypeInv'
  BY <1>9 DEF RemoveEvent, Goto, HookSteps, Procs
<1>10. ASSUME NEW h \in Hooks, NextDirectory(h) PROVE TypeInv'
  BY <1>10 DEF NextDirectory, Goto, HookSteps, Procs
<1>11. ASSUME NEW h \in Hooks, FindRun(h) PROVE TypeInv'
  BY <1>11 DEF FindRun, Goto, HookSteps, Procs
<1>12. ASSUME NEW h \in Hooks, RemoveRun(h) PROVE TypeInv'
  <2>1. runs' \in RunFiles
    BY <1>12 DEF RemoveRun, RunFiles
  <2> QED
    BY <1>12, <2>1 DEF RemoveRun, Goto, HookSteps, Procs
<1>13. ASSUME NEW h \in Hooks, PruneDone(h) PROVE TypeInv'
  <2>1. "idle" \in HookSteps /\ Goto(h, "idle") /\ Forget(h)
    BY <1>13 DEF PruneDone, HookSteps
  <2>2. HookHasEvent' /\ DoomedHasType'
    BY <2>1, HookEnds
  <2> QED
    BY <1>13, <2>1, <2>2, HookGoes, HookForgets, LockReleased DEF PruneDone
<1>14. ASSUME NEW h \in Hooks, Abort(h) PROVE TypeInv'
  <2>1. "idle" \in HookSteps /\ Goto(h, "idle") /\ Forget(h)
    BY <1>14 DEF Abort, HookSteps
  <2>2. HookHasEvent' /\ DoomedHasType'
    BY <2>1, HookEnds
  <2> QED
    BY <1>14, <2>1, <2>2, HookGoes, HookForgets, LockReleased DEF Abort
<1>15. ASSUME NEW r \in Readers, StartSnapshot(r) PROVE TypeInv'
  BY <1>15 DEF StartSnapshot, Goto, ReaderSteps, Procs
<1>16. ASSUME NEW r \in Readers, ReadRuns(r) PROVE TypeInv'
  <2>1. PICK lost \in SUBSET {id \in RunIds : runs[id] # Nothing} :
            snap' = [snap EXCEPT ![r] =
              [ runs   |-> [id \in RunIds |-> IF id \in lost THEN Nothing ELSE runs[id]],
                listed |-> {}, events |-> {}, unread |-> lost ]]
    BY <1>16 DEF ReadRuns
  <2>2. [id \in RunIds |-> IF id \in lost THEN Nothing ELSE runs[id]] \in RunFiles
    BY DEF RunFiles
  <2> QED
    BY <1>16, <2>1, <2>2 DEF ReadRuns, Goto, ReaderSteps, Procs, SnapRecord
<1>17. ASSUME NEW r \in Readers, ListEvents(r) PROVE TypeInv'
  <2>1. [snap[r] EXCEPT !.listed = Newest(events)] \in SnapRecord
    <3>1. snap[r] \in SnapRecord /\ Newest(events) \subseteq LoggedEvent
      BY DEF Newest
    <3> QED
      BY <3>1 DEF SnapRecord
  <2> QED
    BY <1>17, <2>1 DEF ListEvents, Goto, ReaderSteps, Procs
<1>17r. ASSUME NEW r \in Readers, ReadEvent(r) PROVE TypeInv'
  <2>1. PICK e \in events :
            snap' = [snap EXCEPT ![r].listed = @ \ {e}, ![r].events = @ \cup {e}]
    BY <1>17r DEF ReadEvent
  <2>2. [snap[r] EXCEPT !.listed = @ \ {e}, !.events = @ \cup {e}] \in SnapRecord
    BY ReaderOpens
  <2>3. snap' \in [Readers -> SnapRecord]
    BY <2>1, <2>2
  <2> QED
    BY <1>17r, <2>3 DEF ReadEvent
<1>17s. ASSUME NEW r \in Readers, SkipEvent(r) PROVE TypeInv'
  <2>1. PICK e \in snap[r].listed :
            snap' = [snap EXCEPT ![r].listed = @ \ {e},
                                 ![r].unread = @ \cup ({e} \cap events)]
    BY <1>17s DEF SkipEvent
  <2>2. e \in LoggedEvent
    BY <2>1 DEF SnapRecord
  <2>3. [snap[r] EXCEPT !.listed = @ \ {e},
                        !.unread = @ \cup ({e} \cap events)] \in SnapRecord
    BY <2>2, ReaderOpens
  <2>4. snap' \in [Readers -> SnapRecord]
    BY <2>1, <2>3
  <2> QED
    BY <1>17s, <2>4 DEF SkipEvent
<1>17e. ASSUME NEW r \in Readers, EndSnapshot(r) PROVE TypeInv'
  BY <1>17e, EmptyType DEF EndSnapshot, Release, Goto, ReaderSteps, Procs
<1>18. ASSUME NEW r \in Readers, Drop(r) PROVE TypeInv'
  BY <1>18, EmptyType DEF Drop, Release, Goto, ReaderSteps, Procs
<1>19. CASE Tick
  <2>1. now' \in 0..MaxTime
    BY <1>19, Times DEF Tick
  <2> QED
    BY <1>19, <2>1 DEF Tick
<1>20. CASE UNCHANGED vars
  BY <1>20 DEF vars
<1> QED
  BY <1>1, <1>2, <1>3, <1>3f, <1>4, <1>5, <1>6, <1>7, <1>8, <1>9, <1>10, <1>11,
     <1>12, <1>13, <1>14, <1>15, <1>16, <1>17, <1>17r, <1>17s, <1>17e, <1>18, <1>19,
     <1>20
     DEF Next, Write, Prune, Snapshot, Read

\* Every reachable state is well typed, whatever hooks and snapshots run and
\* wherever they are killed.
THEOREM TypeCorrect == Spec => []TypeOK
<1>1. Spec => []TypeInv
  BY TypeInvInit, TypeInvStep, PTL DEF Spec
<1> QED
  BY <1>1, PTL DEF TypeInv

-----------------------------------------------------------------------------
(* Safety *)

\* The types of the files' contents, field by field.
TypedFiles ==
    /\ turn \in Nat /\ now \in Int /\ Retention \in Int
    /\ \A e \in events : e.turn \in Nat /\ e.mtime \in Int /\ e.run \in RunIds
    /\ \A r \in RunIds : runs[r] # Nothing => runs[r].turn \in Nat
    /\ \A h \in Hooks : cutoff[h] \in Int
    /\ \A h \in Hooks : pc[h] = "remove event" => doomed[h] \in Nat
    /\ \A h \in Hooks : pc[h] # "idle" => event[h].run \in RunIds

\* A well typed state has well typed files.
LEMMA FileTypes == TypeInv => TypedFiles
<1> SUFFICES ASSUME TypeInv PROVE TypedFiles
  OBVIOUS
<1>1. turn \in Nat /\ now \in Int /\ Retention \in Int
  BY Times, BoundAssumption DEF TypeInv, TypeOK
<1>2. \A e \in events : e.turn \in Nat /\ e.mtime \in Int /\ e.run \in RunIds
  BY DEF TypeInv, TypeOK, LoggedEvent
<1>3. \A r \in RunIds : runs[r] # Nothing => runs[r].turn \in Nat
  BY DEF TypeInv, TypeOK, RunFiles, RunRecord
<1>4. \A h \in Hooks : cutoff[h] \in Int
  BY DEF TypeInv, TypeOK
<1>5. \A h \in Hooks : pc[h] # "idle" => event[h].run \in RunIds
  BY DEF TypeInv, HookHasEvent, Event
<1> QED
  BY <1>1, <1>2, <1>3, <1>4, <1>5 DEF TypedFiles, TypeInv, DoomedHasType

\* The arithmetic of turns and times.
LEMMA Turns ==
    /\ \A n \in Nat : n <= n
    /\ \A m, n \in Nat : m <= n => (m <= n + 1 /\ m < n + 1)
    /\ \A m, n \in Nat : m < n => (m <= n /\ m # n)
OBVIOUS

\* A file older than the limit of a prune is older than the retention time.
LEMMA Ages ==
    /\ \A n \in Int : n <= n
    /\ \A n, m, c, k \in Int : (m < c /\ c <= n - k) => n - m > k
    /\ \A n, c, k \in Int : c <= n - k => c <= (n + 1) - k
    /\ \A n, m, k \in Int : n - m > k => (n + 1) - m > k
OBVIOUS

(* What the steps that touch files or the turn do to them *)

\* A hook takes the lock: a new turn, and nobody else is inside one.
LEMMA TurnTaken ==
    ASSUME TypeInv, LockInv, NEW h \in Hooks, Acquire(h)
    PROVE  /\ turn' = turn + 1
           /\ UNCHANGED <<runs, events, event, doomed>>
           /\ \A g \in Hooks : pc'[g] = IF g = h THEN "read" ELSE pc[g]
           /\ \A g \in Hooks : pc[g] \notin {"read", "run", "log"}
BY HooksAreNotReaders DEF Acquire, Goto, TypeInv, TypeOK, LockInv, MayLock, Procs

\* A hook writes its run: that record carries the turn and the event's state.
LEMMA RunWritten ==
    ASSUME TypeInv, LockInv, NEW h \in Hooks, WriteRun(h)
    PROVE  /\ UNCHANGED <<now, turn, events, event, doomed, cutoff, snap>>
           /\ pc[h] = "run" /\ pc'[h] \in {"unlock", "log"}
           /\ \A g \in Hooks : g # h => pc'[g] = pc[g]
           /\ \A r \in RunIds :
                 \/ r # event[h].run /\ runs'[r] = runs[r]
                 \/ r = event[h].run /\ runs'[r].turn = turn
                       /\ runs'[r].state = event[h].state
BY HooksAreNotReaders DEF WriteRun, Goto, TypeInv, TypeOK, RunFiles, Procs

\* A hook writes its event, which carries the turn as well.
LEMMA EventWritten ==
    ASSUME TypeInv, LockInv, NEW h \in Hooks, WriteEvent(h)
    PROVE  /\ UNCHANGED <<now, turn, runs, event, doomed, cutoff, snap>>
           /\ pc[h] = "log"
           /\ \A g \in Hooks : pc'[g] = IF g = h THEN "unlock" ELSE pc[g]
           /\ \A g \in Hooks : g # h => pc[g] \notin {"read", "run", "log"}
           /\ \E new : /\ events' = events \cup {new}
                       /\ new.turn = turn
                       /\ new.run = event[h].run
                       /\ new.state = event[h].state
<1>1. /\ UNCHANGED <<now, turn, runs, event, doomed, cutoff, snap>>
      /\ pc[h] = "log"
      /\ \A g \in Hooks : pc'[g] = IF g = h THEN "unlock" ELSE pc[g]
      /\ \A g \in Hooks : g # h => pc[g] \notin {"read", "run", "log"}
  BY HooksAreNotReaders DEF WriteEvent, Goto, TypeInv, TypeOK, LockInv, Procs
<1>2. \E new : /\ events' = events \cup {new}
               /\ new.turn = turn
               /\ new.run = event[h].run
               /\ new.state = event[h].state
  <2> DEFINE new == [ run |-> event[h].run, state |-> event[h].state, mtime |-> now,
                      turn |-> turn ]
  <2>1. new.turn = turn /\ new.run = event[h].run /\ new.state = event[h].state
    OBVIOUS
  <2>2. events' = events \cup {new}
    BY DEF WriteEvent
  <2> QED
    BY <2>1, <2>2
<1> QED
  BY <1>1, <1>2

\* A prune removes a run and touches no other.
LEMMA RunRemoved ==
    ASSUME TypeInv, NEW h \in Hooks, RemoveRun(h)
    PROVE  /\ UNCHANGED <<now, turn, events, event, previous, snap, lock, cutoff>>
           /\ \A g \in Hooks : g # h => pc'[g] = pc[g] /\ doomed'[g] = doomed[g]
           /\ pc'[h] = "sweep runs"
           /\ \A r \in RunIds : runs'[r] = runs[r] \/ runs'[r] = Nothing
BY HooksAreNotReaders DEF RemoveRun, Goto, TypeInv, TypeOK, RunFiles, Procs

\* The holder of the lock is the only process between acquiring and releasing it.
LEMMA LockInvStep == TypeOK /\ LockInv /\ [Next]_vars => LockInv'
<1> SUFFICES ASSUME TypeOK, LockInv, [Next]_vars PROVE LockInv'
  OBVIOUS
<1>1. ASSUME NEW h \in Hooks, Fire(h) PROVE LockInv'
  BY <1>1, HooksAreNotReaders DEF TypeOK, LockInv, Goto, MayLock, Procs, Fire
<1>2. ASSUME NEW h \in Hooks, Acquire(h) PROVE LockInv'
  BY <1>2, HooksAreNotReaders DEF TypeOK, LockInv, Goto, MayLock, Procs, Acquire
<1>3. ASSUME NEW h \in Hooks, ReadPrevious(h) PROVE LockInv'
  BY <1>3, HooksAreNotReaders DEF TypeOK, LockInv, Goto, MayLock, Procs, ReadPrevious
<1>3f. ASSUME NEW h \in Hooks, ReadPreviousFails(h) PROVE LockInv'
  BY <1>3f, HooksAreNotReaders DEF TypeOK, LockInv, Goto, MayLock, Procs, ReadPreviousFails
<1>4. ASSUME NEW h \in Hooks, WriteRun(h) PROVE LockInv'
  BY <1>4, HooksAreNotReaders DEF TypeOK, LockInv, Goto, MayLock, Procs, WriteRun
<1>5. ASSUME NEW h \in Hooks, WriteEvent(h) PROVE LockInv'
  BY <1>5, HooksAreNotReaders DEF TypeOK, LockInv, Goto, MayLock, Procs, WriteEvent
<1>6. ASSUME NEW h \in Hooks, Unlock(h) PROVE LockInv'
  BY <1>6, HooksAreNotReaders DEF TypeOK, LockInv, Goto, MayLock, Procs, Unlock, Release, Forget
<1>7. ASSUME NEW h \in Hooks, PruneStart(h) PROVE LockInv'
  BY <1>7, HooksAreNotReaders DEF TypeOK, LockInv, Goto, MayLock, Procs, PruneStart
<1>8. ASSUME NEW h \in Hooks, FindEvent(h) PROVE LockInv'
  BY <1>8, HooksAreNotReaders DEF TypeOK, LockInv, Goto, MayLock, Procs, FindEvent
<1>9. ASSUME NEW h \in Hooks, RemoveEvent(h) PROVE LockInv'
  BY <1>9, HooksAreNotReaders DEF TypeOK, LockInv, Goto, MayLock, Procs, RemoveEvent
<1>10. ASSUME NEW h \in Hooks, NextDirectory(h) PROVE LockInv'
  BY <1>10, HooksAreNotReaders DEF TypeOK, LockInv, Goto, MayLock, Procs, NextDirectory
<1>11. ASSUME NEW h \in Hooks, FindRun(h) PROVE LockInv'
  BY <1>11, HooksAreNotReaders DEF TypeOK, LockInv, Goto, MayLock, Procs, FindRun
<1>12. ASSUME NEW h \in Hooks, RemoveRun(h) PROVE LockInv'
  BY <1>12, HooksAreNotReaders DEF TypeOK, LockInv, Goto, MayLock, Procs, RemoveRun
<1>13. ASSUME NEW h \in Hooks, PruneDone(h) PROVE LockInv'
  BY <1>13, HooksAreNotReaders DEF TypeOK, LockInv, Goto, MayLock, Procs, PruneDone, Forget
<1>14. ASSUME NEW h \in Hooks, Abort(h) PROVE LockInv'
  BY <1>14, HooksAreNotReaders DEF TypeOK, LockInv, Goto, MayLock, Procs, Abort, Release, Forget
<1>15. ASSUME NEW r \in Readers, StartSnapshot(r) PROVE LockInv'
  BY <1>15, HooksAreNotReaders DEF TypeOK, LockInv, Goto, MayLock, Procs, StartSnapshot
<1>16. ASSUME NEW r \in Readers, ReadRuns(r) PROVE LockInv'
  BY <1>16, HooksAreNotReaders DEF TypeOK, LockInv, Goto, MayLock, Procs, ReadRuns
<1>17. ASSUME NEW r \in Readers, ListEvents(r) PROVE LockInv'
  BY <1>17, HooksAreNotReaders DEF TypeOK, LockInv, Goto, MayLock, Procs, ListEvents
<1>17r. ASSUME NEW r \in Readers, ReadEvent(r) PROVE LockInv'
  BY <1>17r, HooksAreNotReaders DEF TypeOK, LockInv, Goto, MayLock, Procs, ReadEvent
<1>17s. ASSUME NEW r \in Readers, SkipEvent(r) PROVE LockInv'
  BY <1>17s, HooksAreNotReaders DEF TypeOK, LockInv, Goto, MayLock, Procs, SkipEvent
<1>17e. ASSUME NEW r \in Readers, EndSnapshot(r) PROVE LockInv'
  BY <1>17e, HooksAreNotReaders DEF TypeOK, LockInv, Goto, MayLock, Procs, EndSnapshot, Release, EmptySnapshot
<1>18. ASSUME NEW r \in Readers, Drop(r) PROVE LockInv'
  BY <1>18, HooksAreNotReaders DEF TypeOK, LockInv, Goto, MayLock, Procs, Drop, Release, EmptySnapshot
<1>19. CASE Tick
  BY <1>19, HooksAreNotReaders DEF TypeOK, LockInv, Goto, MayLock, Procs, Tick
<1>20. CASE UNCHANGED vars
  BY <1>20, HooksAreNotReaders DEF TypeOK, LockInv, Goto, MayLock, Procs, vars
<1> QED
  BY <1>1, <1>2, <1>3, <1>3f, <1>4, <1>5, <1>6, <1>7, <1>8, <1>9, <1>10, <1>11,
     <1>12, <1>13, <1>14, <1>15, <1>16, <1>17, <1>17r, <1>17s, <1>17e, <1>18, <1>19,
     <1>20
     DEF Next, Write, Prune, Snapshot, Read

\* Only the holder writes a run, so what it read stays current; a prune may
\* remove the run meanwhile.
LEMMA MergeStep == TypeInv /\ LockInv /\ MergeIsCurrent /\ [Next]_vars => MergeIsCurrent'
<1> SUFFICES ASSUME TypeInv, LockInv, MergeIsCurrent, [Next]_vars PROVE MergeIsCurrent'
  OBVIOUS
<1>t. TypedFiles
  BY FileTypes
<1>1. ASSUME NEW h \in Hooks, Fire(h) PROVE MergeIsCurrent'
  BY <1>1, HooksAreNotReaders DEF TypeInv, TypeOK, LockInv, MergeIsCurrent, Goto, Procs, Fire
<1>2. ASSUME NEW h \in Hooks, Acquire(h) PROVE MergeIsCurrent'
  BY <1>2, HooksAreNotReaders DEF TypeInv, TypeOK, LockInv, MergeIsCurrent, Goto, Procs, Acquire
<1>3. ASSUME NEW h \in Hooks, ReadPrevious(h) PROVE MergeIsCurrent'
  BY <1>3, HooksAreNotReaders DEF TypeInv, TypeOK, LockInv, MergeIsCurrent, Goto, Procs, ReadPrevious
<1>3f. ASSUME NEW h \in Hooks, ReadPreviousFails(h) PROVE MergeIsCurrent'
  BY <1>3f, HooksAreNotReaders DEF TypeInv, TypeOK, LockInv, MergeIsCurrent, Goto, Procs, ReadPreviousFails
<1>4. ASSUME NEW h \in Hooks, WriteRun(h) PROVE MergeIsCurrent'
  BY <1>4, HooksAreNotReaders DEF TypeInv, TypeOK, LockInv, MergeIsCurrent, Goto, Procs, WriteRun
<1>5. ASSUME NEW h \in Hooks, WriteEvent(h) PROVE MergeIsCurrent'
  BY <1>5, HooksAreNotReaders DEF TypeInv, TypeOK, LockInv, MergeIsCurrent, Goto, Procs, WriteEvent
<1>6. ASSUME NEW h \in Hooks, Unlock(h) PROVE MergeIsCurrent'
  BY <1>6, HooksAreNotReaders DEF TypeInv, TypeOK, LockInv, MergeIsCurrent, Goto, Procs, Unlock, Release, Forget
<1>7. ASSUME NEW h \in Hooks, PruneStart(h) PROVE MergeIsCurrent'
  BY <1>7, HooksAreNotReaders DEF TypeInv, TypeOK, LockInv, MergeIsCurrent, Goto, Procs, PruneStart
<1>8. ASSUME NEW h \in Hooks, FindEvent(h) PROVE MergeIsCurrent'
  BY <1>8, HooksAreNotReaders DEF TypeInv, TypeOK, LockInv, MergeIsCurrent, Goto, Procs, FindEvent
<1>9. ASSUME NEW h \in Hooks, RemoveEvent(h) PROVE MergeIsCurrent'
  BY <1>9, HooksAreNotReaders DEF TypeInv, TypeOK, LockInv, MergeIsCurrent, Goto, Procs, RemoveEvent
<1>10. ASSUME NEW h \in Hooks, NextDirectory(h) PROVE MergeIsCurrent'
  BY <1>10, HooksAreNotReaders DEF TypeInv, TypeOK, LockInv, MergeIsCurrent, Goto, Procs, NextDirectory
<1>11. ASSUME NEW h \in Hooks, FindRun(h) PROVE MergeIsCurrent'
  BY <1>11, HooksAreNotReaders DEF TypeInv, TypeOK, LockInv, MergeIsCurrent, Goto, Procs, FindRun
<1>12. ASSUME NEW h \in Hooks, RemoveRun(h) PROVE MergeIsCurrent'
  <2>1. \A g \in Hooks : pc[g] = "run" => event[g].run \in RunIds
    BY <1>t DEF TypedFiles
  <2> QED
    BY <1>12, <2>1, RunRemoved DEF MergeIsCurrent
<1>13. ASSUME NEW h \in Hooks, PruneDone(h) PROVE MergeIsCurrent'
  BY <1>13, HooksAreNotReaders DEF TypeInv, TypeOK, LockInv, MergeIsCurrent, Goto, Procs, PruneDone, Forget
<1>14. ASSUME NEW h \in Hooks, Abort(h) PROVE MergeIsCurrent'
  BY <1>14, HooksAreNotReaders DEF TypeInv, TypeOK, LockInv, MergeIsCurrent, Goto, Procs, Abort, Release, Forget
<1>15. ASSUME NEW r \in Readers, StartSnapshot(r) PROVE MergeIsCurrent'
  BY <1>15, HooksAreNotReaders DEF TypeInv, TypeOK, LockInv, MergeIsCurrent, Goto, Procs, StartSnapshot
<1>16. ASSUME NEW r \in Readers, ReadRuns(r) PROVE MergeIsCurrent'
  BY <1>16, HooksAreNotReaders DEF TypeInv, TypeOK, LockInv, MergeIsCurrent, Goto, Procs, ReadRuns
<1>17. ASSUME NEW r \in Readers, ListEvents(r) PROVE MergeIsCurrent'
  BY <1>17, HooksAreNotReaders DEF TypeInv, TypeOK, LockInv, MergeIsCurrent, Goto, Procs, ListEvents
<1>17r. ASSUME NEW r \in Readers, ReadEvent(r) PROVE MergeIsCurrent'
  BY <1>17r, HooksAreNotReaders DEF TypeInv, TypeOK, LockInv, MergeIsCurrent, Goto, Procs, ReadEvent
<1>17s. ASSUME NEW r \in Readers, SkipEvent(r) PROVE MergeIsCurrent'
  BY <1>17s, HooksAreNotReaders DEF TypeInv, TypeOK, LockInv, MergeIsCurrent, Goto, Procs, SkipEvent
<1>17e. ASSUME NEW r \in Readers, EndSnapshot(r) PROVE MergeIsCurrent'
  BY <1>17e, HooksAreNotReaders DEF TypeInv, TypeOK, LockInv, MergeIsCurrent, Goto, Procs, EndSnapshot, Release, EmptySnapshot
<1>18. ASSUME NEW r \in Readers, Drop(r) PROVE MergeIsCurrent'
  BY <1>18, HooksAreNotReaders DEF TypeInv, TypeOK, LockInv, MergeIsCurrent, Goto, Procs, Drop, Release, EmptySnapshot
<1>19. CASE Tick
  BY <1>19, HooksAreNotReaders DEF TypeInv, TypeOK, LockInv, MergeIsCurrent, Goto, Procs, Tick
<1>20. CASE UNCHANGED vars
  BY <1>20, HooksAreNotReaders DEF TypeInv, TypeOK, LockInv, MergeIsCurrent, Goto, Procs, vars
<1> QED
  BY <1>1, <1>2, <1>3, <1>3f, <1>4, <1>5, <1>6, <1>7, <1>8, <1>9, <1>10, <1>11,
     <1>12, <1>13, <1>14, <1>15, <1>16, <1>17, <1>17r, <1>17s, <1>17e, <1>18, <1>19,
     <1>20
     DEF Next, Write, Prune, Snapshot, Read

\* Only Acquire moves the turn, and only the holder writes under it.
LEMMA TurnStep == TypeInv /\ LockInv /\ TurnInv /\ [Next]_vars => TurnInv'
<1> SUFFICES ASSUME TypeInv, LockInv, TurnInv, [Next]_vars PROVE TurnInv'
  OBVIOUS
<1>t. TypedFiles
  BY FileTypes
<1>1. ASSUME NEW h \in Hooks, Fire(h) PROVE TurnInv'
  BY <1>1, HooksAreNotReaders DEF TypeInv, TypeOK, LockInv, TurnInv, Goto, Procs, Fire
<1>2. ASSUME NEW h \in Hooks, Acquire(h) PROVE TurnInv'
  <2>1. /\ turn' = turn + 1 /\ UNCHANGED <<runs, events, event, doomed>>
        /\ \A g \in Hooks : pc'[g] = "remove event" => pc[g] = "remove event"
    BY <1>2, TurnTaken
  <2>2. \A r \in RunIds : runs[r] # Nothing => runs[r].turn <= turn + 1
    BY <1>t, Turns DEF TypedFiles, TurnInv
  <2>3. \A e \in events : e.turn <= turn + 1 /\ e.turn < turn + 1
    BY <1>t, Turns DEF TypedFiles, TurnInv
  <2>4. \A g \in Hooks : pc[g] = "remove event" =>
            doomed[g] <= turn + 1 /\ doomed[g] < turn + 1
    BY <1>t, Turns DEF TypedFiles, TurnInv
  <2> QED
    BY <2>1, <2>2, <2>3, <2>4 DEF TurnInv
<1>3. ASSUME NEW h \in Hooks, ReadPrevious(h) PROVE TurnInv'
  BY <1>3, HooksAreNotReaders DEF TypeInv, TypeOK, LockInv, TurnInv, Goto, Procs, ReadPrevious
<1>3f. ASSUME NEW h \in Hooks, ReadPreviousFails(h) PROVE TurnInv'
  BY <1>3f, HooksAreNotReaders DEF TypeInv, TypeOK, LockInv, TurnInv, Goto, Procs, ReadPreviousFails
<1>4. ASSUME NEW h \in Hooks, WriteRun(h) PROVE TurnInv'
  <2>1. turn <= turn
    BY <1>t, Turns DEF TypedFiles
  <2> QED
    BY <1>4, <2>1, RunWritten DEF TurnInv
<1>5. ASSUME NEW h \in Hooks, WriteEvent(h) PROVE TurnInv'
  <2>1. PICK new : events' = events \cup {new} /\ new.turn = turn
    BY <1>5, EventWritten
  <2>2. turn <= turn /\ \A e \in events : e.turn \in Nat
    BY <1>t, Turns DEF TypedFiles
  <2>3. \A e \in events : e.turn < turn /\ e.turn # turn
    BY <1>5, <1>t, <2>2, EventWritten, Turns DEF TypedFiles, TurnInv
  <2> QED
    BY <1>5, <2>1, <2>2, <2>3, EventWritten DEF TurnInv
<1>6. ASSUME NEW h \in Hooks, Unlock(h) PROVE TurnInv'
  <2>1. UNCHANGED <<turn, runs, events>> /\ pc'[h] \in {"idle", "prune"}
    BY <1>6, HooksAreNotReaders DEF Unlock, Goto, TypeInv, TypeOK, Procs
  <2>2. \A g \in Hooks : g # h => pc'[g] = pc[g] /\ doomed'[g] = doomed[g]
    BY <1>6, HooksAreNotReaders DEF Unlock, Forget, Goto, TypeInv, TypeOK, Procs
  <2> QED
    BY <2>1, <2>2 DEF TurnInv
<1>7. ASSUME NEW h \in Hooks, PruneStart(h) PROVE TurnInv'
  BY <1>7, HooksAreNotReaders DEF TypeInv, TypeOK, LockInv, TurnInv, Goto, Procs, PruneStart
<1>8. ASSUME NEW h \in Hooks, FindEvent(h) PROVE TurnInv'
  BY <1>8, HooksAreNotReaders DEF TypeInv, TypeOK, LockInv, TurnInv, Goto, Procs, FindEvent
<1>9. ASSUME NEW h \in Hooks, RemoveEvent(h) PROVE TurnInv'
  BY <1>9, HooksAreNotReaders DEF TypeInv, TypeOK, LockInv, TurnInv, Goto, Procs, RemoveEvent
<1>10. ASSUME NEW h \in Hooks, NextDirectory(h) PROVE TurnInv'
  BY <1>10, HooksAreNotReaders DEF TypeInv, TypeOK, LockInv, TurnInv, Goto, Procs, NextDirectory
<1>11. ASSUME NEW h \in Hooks, FindRun(h) PROVE TurnInv'
  BY <1>11, HooksAreNotReaders DEF TypeInv, TypeOK, LockInv, TurnInv, Goto, Procs, FindRun
<1>12. ASSUME NEW h \in Hooks, RemoveRun(h) PROVE TurnInv'
  BY <1>12, RunRemoved DEF TurnInv
<1>13. ASSUME NEW h \in Hooks, PruneDone(h) PROVE TurnInv'
  BY <1>13, HooksAreNotReaders DEF TypeInv, TypeOK, LockInv, TurnInv, Goto, Procs, PruneDone, Forget
<1>14. ASSUME NEW h \in Hooks, Abort(h) PROVE TurnInv'
  BY <1>14, HooksAreNotReaders DEF TypeInv, TypeOK, LockInv, TurnInv, Goto, Procs, Abort, Release, Forget
<1>15. ASSUME NEW r \in Readers, StartSnapshot(r) PROVE TurnInv'
  BY <1>15, HooksAreNotReaders DEF TypeInv, TypeOK, LockInv, TurnInv, Goto, Procs, StartSnapshot
<1>16. ASSUME NEW r \in Readers, ReadRuns(r) PROVE TurnInv'
  BY <1>16, HooksAreNotReaders DEF TypeInv, TypeOK, LockInv, TurnInv, Goto, Procs, ReadRuns
<1>17. ASSUME NEW r \in Readers, ListEvents(r) PROVE TurnInv'
  BY <1>17, HooksAreNotReaders DEF TypeInv, TypeOK, LockInv, TurnInv, Goto, Procs, ListEvents
<1>17r. ASSUME NEW r \in Readers, ReadEvent(r) PROVE TurnInv'
  BY <1>17r, HooksAreNotReaders DEF TypeInv, TypeOK, LockInv, TurnInv, Goto, Procs, ReadEvent
<1>17s. ASSUME NEW r \in Readers, SkipEvent(r) PROVE TurnInv'
  BY <1>17s, HooksAreNotReaders DEF TypeInv, TypeOK, LockInv, TurnInv, Goto, Procs, SkipEvent
<1>17e. ASSUME NEW r \in Readers, EndSnapshot(r) PROVE TurnInv'
  BY <1>17e, HooksAreNotReaders DEF TypeInv, TypeOK, LockInv, TurnInv, Goto, Procs, EndSnapshot, Release, EmptySnapshot
<1>18. ASSUME NEW r \in Readers, Drop(r) PROVE TurnInv'
  BY <1>18, HooksAreNotReaders DEF TypeInv, TypeOK, LockInv, TurnInv, Goto, Procs, Drop, Release, EmptySnapshot
<1>19. CASE Tick
  BY <1>19, HooksAreNotReaders DEF TypeInv, TypeOK, LockInv, TurnInv, Goto, Procs, Tick
<1>20. CASE UNCHANGED vars
  BY <1>20, HooksAreNotReaders DEF TypeInv, TypeOK, LockInv, TurnInv, Goto, Procs, vars
<1> QED
  BY <1>1, <1>2, <1>3, <1>3f, <1>4, <1>5, <1>6, <1>7, <1>8, <1>9, <1>10, <1>11,
     <1>12, <1>13, <1>14, <1>15, <1>16, <1>17, <1>17r, <1>17s, <1>17e, <1>18, <1>19,
     <1>20
     DEF Next, Write, Prune, Snapshot, Read

\* Between the record and the event of a turn, the record can only go.
LEMMA RecordStep == TypeInv /\ LockInv /\ RecordInv /\ [Next]_vars => RecordInv'
<1> SUFFICES ASSUME TypeInv, LockInv, RecordInv, [Next]_vars PROVE RecordInv'
  OBVIOUS
<1>t. TypedFiles
  BY FileTypes
<1>1. ASSUME NEW h \in Hooks, Fire(h) PROVE RecordInv'
  BY <1>1, HooksAreNotReaders DEF TypeInv, TypeOK, HookHasEvent, Event, LockInv, RecordInv, RunFiles, RunRecord, Goto, Procs, Fire
<1>2. ASSUME NEW h \in Hooks, Acquire(h) PROVE RecordInv'
  BY <1>2, TurnTaken DEF RecordInv
<1>3. ASSUME NEW h \in Hooks, ReadPrevious(h) PROVE RecordInv'
  BY <1>3, HooksAreNotReaders DEF TypeInv, TypeOK, HookHasEvent, Event, LockInv, RecordInv, RunFiles, RunRecord, Goto, Procs, ReadPrevious
<1>3f. ASSUME NEW h \in Hooks, ReadPreviousFails(h) PROVE RecordInv'
  BY <1>3f, HooksAreNotReaders DEF TypeInv, TypeOK, HookHasEvent, Event, LockInv, RecordInv, RunFiles, RunRecord, Goto, Procs, ReadPreviousFails
<1>4. ASSUME NEW h \in Hooks, WriteRun(h) PROVE RecordInv'
  BY <1>4, HooksAreNotReaders DEF TypeInv, TypeOK, HookHasEvent, Event, LockInv, RecordInv, RunFiles, RunRecord, Goto, Procs, WriteRun
<1>5. ASSUME NEW h \in Hooks, WriteEvent(h) PROVE RecordInv'
  BY <1>5, HooksAreNotReaders DEF TypeInv, TypeOK, HookHasEvent, Event, LockInv, RecordInv, RunFiles, RunRecord, Goto, Procs, WriteEvent
<1>6. ASSUME NEW h \in Hooks, Unlock(h) PROVE RecordInv'
  BY <1>6, HooksAreNotReaders DEF TypeInv, TypeOK, HookHasEvent, Event, LockInv, RecordInv, RunFiles, RunRecord, Goto, Procs, Unlock, Release, Forget
<1>7. ASSUME NEW h \in Hooks, PruneStart(h) PROVE RecordInv'
  BY <1>7, HooksAreNotReaders DEF TypeInv, TypeOK, HookHasEvent, Event, LockInv, RecordInv, RunFiles, RunRecord, Goto, Procs, PruneStart
<1>8. ASSUME NEW h \in Hooks, FindEvent(h) PROVE RecordInv'
  BY <1>8, HooksAreNotReaders DEF TypeInv, TypeOK, HookHasEvent, Event, LockInv, RecordInv, RunFiles, RunRecord, Goto, Procs, FindEvent
<1>9. ASSUME NEW h \in Hooks, RemoveEvent(h) PROVE RecordInv'
  BY <1>9, HooksAreNotReaders DEF TypeInv, TypeOK, HookHasEvent, Event, LockInv, RecordInv, RunFiles, RunRecord, Goto, Procs, RemoveEvent
<1>10. ASSUME NEW h \in Hooks, NextDirectory(h) PROVE RecordInv'
  BY <1>10, HooksAreNotReaders DEF TypeInv, TypeOK, HookHasEvent, Event, LockInv, RecordInv, RunFiles, RunRecord, Goto, Procs, NextDirectory
<1>11. ASSUME NEW h \in Hooks, FindRun(h) PROVE RecordInv'
  BY <1>11, HooksAreNotReaders DEF TypeInv, TypeOK, HookHasEvent, Event, LockInv, RecordInv, RunFiles, RunRecord, Goto, Procs, FindRun
<1>12. ASSUME NEW h \in Hooks, RemoveRun(h) PROVE RecordInv'
  BY <1>12, HooksAreNotReaders DEF TypeInv, TypeOK, HookHasEvent, Event, LockInv, RecordInv, RunFiles, RunRecord, Goto, Procs, RemoveRun
<1>13. ASSUME NEW h \in Hooks, PruneDone(h) PROVE RecordInv'
  BY <1>13, HooksAreNotReaders DEF TypeInv, TypeOK, HookHasEvent, Event, LockInv, RecordInv, RunFiles, RunRecord, Goto, Procs, PruneDone, Forget
<1>14. ASSUME NEW h \in Hooks, Abort(h) PROVE RecordInv'
  BY <1>14, HooksAreNotReaders DEF TypeInv, TypeOK, HookHasEvent, Event, LockInv, RecordInv, RunFiles, RunRecord, Goto, Procs, Abort, Release, Forget
<1>15. ASSUME NEW r \in Readers, StartSnapshot(r) PROVE RecordInv'
  BY <1>15, HooksAreNotReaders DEF TypeInv, TypeOK, HookHasEvent, Event, LockInv, RecordInv, RunFiles, RunRecord, Goto, Procs, StartSnapshot
<1>16. ASSUME NEW r \in Readers, ReadRuns(r) PROVE RecordInv'
  BY <1>16, HooksAreNotReaders DEF TypeInv, TypeOK, HookHasEvent, Event, LockInv, RecordInv, RunFiles, RunRecord, Goto, Procs, ReadRuns
<1>17. ASSUME NEW r \in Readers, ListEvents(r) PROVE RecordInv'
  BY <1>17, HooksAreNotReaders DEF TypeInv, TypeOK, HookHasEvent, Event, LockInv, RecordInv, RunFiles, RunRecord, Goto, Procs, ListEvents
<1>17r. ASSUME NEW r \in Readers, ReadEvent(r) PROVE RecordInv'
  BY <1>17r, HooksAreNotReaders DEF TypeInv, TypeOK, HookHasEvent, Event, LockInv, RecordInv, RunFiles, RunRecord, Goto, Procs, ReadEvent
<1>17s. ASSUME NEW r \in Readers, SkipEvent(r) PROVE RecordInv'
  BY <1>17s, HooksAreNotReaders DEF TypeInv, TypeOK, HookHasEvent, Event, LockInv, RecordInv, RunFiles, RunRecord, Goto, Procs, SkipEvent
<1>17e. ASSUME NEW r \in Readers, EndSnapshot(r) PROVE RecordInv'
  BY <1>17e, HooksAreNotReaders DEF TypeInv, TypeOK, HookHasEvent, Event, LockInv, RecordInv, RunFiles, RunRecord, Goto, Procs, EndSnapshot, Release, EmptySnapshot
<1>18. ASSUME NEW r \in Readers, Drop(r) PROVE RecordInv'
  BY <1>18, HooksAreNotReaders DEF TypeInv, TypeOK, HookHasEvent, Event, LockInv, RecordInv, RunFiles, RunRecord, Goto, Procs, Drop, Release, EmptySnapshot
<1>19. CASE Tick
  BY <1>19, HooksAreNotReaders DEF TypeInv, TypeOK, HookHasEvent, Event, LockInv, RecordInv, RunFiles, RunRecord, Goto, Procs, Tick
<1>20. CASE UNCHANGED vars
  BY <1>20, HooksAreNotReaders DEF TypeInv, TypeOK, HookHasEvent, Event, LockInv, RecordInv, RunFiles, RunRecord, Goto, Procs, vars
<1> QED
  BY <1>1, <1>2, <1>3, <1>3f, <1>4, <1>5, <1>6, <1>7, <1>8, <1>9, <1>10, <1>11,
     <1>12, <1>13, <1>14, <1>15, <1>16, <1>17, <1>17r, <1>17s, <1>17e, <1>18, <1>19,
     <1>20
     DEF Next, Write, Prune, Snapshot, Read

\* A new record has the highest turn; a new event has the one of its record.
LEMMA LogStep == TypeInv /\ LockInv /\ TurnInv /\ RecordInv /\ RunNotBehindLog /\ [Next]_vars => RunNotBehindLog'
<1> SUFFICES ASSUME TypeInv, LockInv, TurnInv, RecordInv, RunNotBehindLog, [Next]_vars PROVE RunNotBehindLog'
  OBVIOUS
<1>t. TypedFiles
  BY FileTypes
<1>1. ASSUME NEW h \in Hooks, Fire(h) PROVE RunNotBehindLog'
  BY <1>1, HooksAreNotReaders DEF TypeInv, TypeOK, LoggedEvent, RunNotBehindLog, NotBehind, Fire
<1>2. ASSUME NEW h \in Hooks, Acquire(h) PROVE RunNotBehindLog'
  BY <1>2, HooksAreNotReaders DEF TypeInv, TypeOK, LoggedEvent, RunNotBehindLog, NotBehind, Acquire
<1>3. ASSUME NEW h \in Hooks, ReadPrevious(h) PROVE RunNotBehindLog'
  BY <1>3, HooksAreNotReaders DEF TypeInv, TypeOK, LoggedEvent, RunNotBehindLog, NotBehind, ReadPrevious
<1>3f. ASSUME NEW h \in Hooks, ReadPreviousFails(h) PROVE RunNotBehindLog'
  BY <1>3f, HooksAreNotReaders DEF TypeInv, TypeOK, LoggedEvent, RunNotBehindLog, NotBehind, ReadPreviousFails
<1>4. ASSUME NEW h \in Hooks, WriteRun(h) PROVE RunNotBehindLog'
  <2>1. \A e \in events : e.turn < turn /\ e.turn \in Nat /\ e.run \in RunIds /\ turn \in Nat
    BY <1>4, <1>t, RunWritten DEF TypedFiles, TurnInv
  <2> QED
    BY <1>4, <2>1, RunWritten DEF RunNotBehindLog, NotBehind
<1>5. ASSUME NEW h \in Hooks, WriteEvent(h) PROVE RunNotBehindLog'
  <2>1. PICK new : /\ events' = events \cup {new}
                   /\ new.turn = turn
                   /\ new.run = event[h].run
                   /\ new.state = event[h].state
    BY <1>5, EventWritten
  <2>2. event[h].run \in RunIds
    BY <1>5, <1>t, EventWritten DEF TypedFiles
  <2>3. NotBehind(runs[new.run], new)
    BY <1>5, <2>1, <2>2, EventWritten DEF RecordInv, NotBehind
  <2> QED
    BY <1>5, <2>1, <2>3, EventWritten DEF RunNotBehindLog, NotBehind
<1>6. ASSUME NEW h \in Hooks, Unlock(h) PROVE RunNotBehindLog'
  BY <1>6, HooksAreNotReaders DEF TypeInv, TypeOK, LoggedEvent, RunNotBehindLog, NotBehind, Unlock, Release, Forget
<1>7. ASSUME NEW h \in Hooks, PruneStart(h) PROVE RunNotBehindLog'
  BY <1>7, HooksAreNotReaders DEF TypeInv, TypeOK, LoggedEvent, RunNotBehindLog, NotBehind, PruneStart
<1>8. ASSUME NEW h \in Hooks, FindEvent(h) PROVE RunNotBehindLog'
  BY <1>8, HooksAreNotReaders DEF TypeInv, TypeOK, LoggedEvent, RunNotBehindLog, NotBehind, FindEvent
<1>9. ASSUME NEW h \in Hooks, RemoveEvent(h) PROVE RunNotBehindLog'
  BY <1>9, HooksAreNotReaders DEF TypeInv, TypeOK, LoggedEvent, RunNotBehindLog, NotBehind, RemoveEvent
<1>10. ASSUME NEW h \in Hooks, NextDirectory(h) PROVE RunNotBehindLog'
  BY <1>10, HooksAreNotReaders DEF TypeInv, TypeOK, LoggedEvent, RunNotBehindLog, NotBehind, NextDirectory
<1>11. ASSUME NEW h \in Hooks, FindRun(h) PROVE RunNotBehindLog'
  BY <1>11, HooksAreNotReaders DEF TypeInv, TypeOK, LoggedEvent, RunNotBehindLog, NotBehind, FindRun
<1>12. ASSUME NEW h \in Hooks, RemoveRun(h) PROVE RunNotBehindLog'
  <2>1. \A e \in events : e.run \in RunIds
    BY <1>t DEF TypedFiles
  <2> QED
    BY <1>12, <2>1, RunRemoved DEF RunNotBehindLog, NotBehind
<1>13. ASSUME NEW h \in Hooks, PruneDone(h) PROVE RunNotBehindLog'
  BY <1>13, HooksAreNotReaders DEF TypeInv, TypeOK, LoggedEvent, RunNotBehindLog, NotBehind, PruneDone, Forget
<1>14. ASSUME NEW h \in Hooks, Abort(h) PROVE RunNotBehindLog'
  BY <1>14, HooksAreNotReaders DEF TypeInv, TypeOK, LoggedEvent, RunNotBehindLog, NotBehind, Abort, Release, Forget
<1>15. ASSUME NEW r \in Readers, StartSnapshot(r) PROVE RunNotBehindLog'
  BY <1>15, HooksAreNotReaders DEF TypeInv, TypeOK, LoggedEvent, RunNotBehindLog, NotBehind, StartSnapshot
<1>16. ASSUME NEW r \in Readers, ReadRuns(r) PROVE RunNotBehindLog'
  BY <1>16, HooksAreNotReaders DEF TypeInv, TypeOK, LoggedEvent, RunNotBehindLog, NotBehind, ReadRuns
<1>17. ASSUME NEW r \in Readers, ListEvents(r) PROVE RunNotBehindLog'
  BY <1>17, HooksAreNotReaders DEF TypeInv, TypeOK, LoggedEvent, RunNotBehindLog, NotBehind, ListEvents
<1>17r. ASSUME NEW r \in Readers, ReadEvent(r) PROVE RunNotBehindLog'
  BY <1>17r, HooksAreNotReaders DEF TypeInv, TypeOK, LoggedEvent, RunNotBehindLog, NotBehind, ReadEvent
<1>17s. ASSUME NEW r \in Readers, SkipEvent(r) PROVE RunNotBehindLog'
  BY <1>17s, HooksAreNotReaders DEF TypeInv, TypeOK, LoggedEvent, RunNotBehindLog, NotBehind, SkipEvent
<1>17e. ASSUME NEW r \in Readers, EndSnapshot(r) PROVE RunNotBehindLog'
  BY <1>17e, HooksAreNotReaders DEF TypeInv, TypeOK, LoggedEvent, RunNotBehindLog, NotBehind, EndSnapshot, Release, EmptySnapshot
<1>18. ASSUME NEW r \in Readers, Drop(r) PROVE RunNotBehindLog'
  BY <1>18, HooksAreNotReaders DEF TypeInv, TypeOK, LoggedEvent, RunNotBehindLog, NotBehind, Drop, Release, EmptySnapshot
<1>19. CASE Tick
  BY <1>19, HooksAreNotReaders DEF TypeInv, TypeOK, LoggedEvent, RunNotBehindLog, NotBehind, Tick
<1>20. CASE UNCHANGED vars
  BY <1>20, HooksAreNotReaders DEF TypeInv, TypeOK, LoggedEvent, RunNotBehindLog, NotBehind, vars
<1> QED
  BY <1>1, <1>2, <1>3, <1>3f, <1>4, <1>5, <1>6, <1>7, <1>8, <1>9, <1>10, <1>11,
     <1>12, <1>13, <1>14, <1>15, <1>16, <1>17, <1>17r, <1>17s, <1>17e, <1>18, <1>19,
     <1>20
     DEF Next, Write, Prune, Snapshot, Read

\* No event appears under a snapshot, because it holds the lock.
LEMMA ReadingStep == TypeInv /\ LockInv /\ RunNotBehindLog /\ ReadingInv /\ [Next]_vars => ReadingInv'
<1> SUFFICES ASSUME TypeInv, LockInv, RunNotBehindLog, ReadingInv, [Next]_vars PROVE ReadingInv'
  OBVIOUS
<1>t. TypedFiles
  BY FileTypes
<1>1. ASSUME NEW h \in Hooks, Fire(h) PROVE ReadingInv'
  BY <1>1, HooksAreNotReaders DEF TypeInv, TypeOK, LockInv, RunNotBehindLog, ReadingInv, Goto, Procs, Fire
<1>2. ASSUME NEW h \in Hooks, Acquire(h) PROVE ReadingInv'
  BY <1>2, HooksAreNotReaders DEF TypeInv, TypeOK, LockInv, RunNotBehindLog, ReadingInv, Goto, Procs, Acquire
<1>3. ASSUME NEW h \in Hooks, ReadPrevious(h) PROVE ReadingInv'
  BY <1>3, HooksAreNotReaders DEF TypeInv, TypeOK, LockInv, RunNotBehindLog, ReadingInv, Goto, Procs, ReadPrevious
<1>3f. ASSUME NEW h \in Hooks, ReadPreviousFails(h) PROVE ReadingInv'
  BY <1>3f, HooksAreNotReaders DEF TypeInv, TypeOK, LockInv, RunNotBehindLog, ReadingInv, Goto, Procs, ReadPreviousFails
<1>4. ASSUME NEW h \in Hooks, WriteRun(h) PROVE ReadingInv'
  BY <1>4, HooksAreNotReaders DEF TypeInv, TypeOK, LockInv, RunNotBehindLog, ReadingInv, Goto, Procs, WriteRun
<1>5. ASSUME NEW h \in Hooks, WriteEvent(h) PROVE ReadingInv'
  BY <1>5, HooksAreNotReaders DEF TypeInv, TypeOK, LockInv, RunNotBehindLog, ReadingInv, Goto, Procs, WriteEvent
<1>6. ASSUME NEW h \in Hooks, Unlock(h) PROVE ReadingInv'
  BY <1>6, HooksAreNotReaders DEF TypeInv, TypeOK, LockInv, RunNotBehindLog, ReadingInv, Goto, Procs, Unlock, Release, Forget
<1>7. ASSUME NEW h \in Hooks, PruneStart(h) PROVE ReadingInv'
  BY <1>7, HooksAreNotReaders DEF TypeInv, TypeOK, LockInv, RunNotBehindLog, ReadingInv, Goto, Procs, PruneStart
<1>8. ASSUME NEW h \in Hooks, FindEvent(h) PROVE ReadingInv'
  BY <1>8, HooksAreNotReaders DEF TypeInv, TypeOK, LockInv, RunNotBehindLog, ReadingInv, Goto, Procs, FindEvent
<1>9. ASSUME NEW h \in Hooks, RemoveEvent(h) PROVE ReadingInv'
  BY <1>9, HooksAreNotReaders DEF TypeInv, TypeOK, LockInv, RunNotBehindLog, ReadingInv, Goto, Procs, RemoveEvent
<1>10. ASSUME NEW h \in Hooks, NextDirectory(h) PROVE ReadingInv'
  BY <1>10, HooksAreNotReaders DEF TypeInv, TypeOK, LockInv, RunNotBehindLog, ReadingInv, Goto, Procs, NextDirectory
<1>11. ASSUME NEW h \in Hooks, FindRun(h) PROVE ReadingInv'
  BY <1>11, HooksAreNotReaders DEF TypeInv, TypeOK, LockInv, RunNotBehindLog, ReadingInv, Goto, Procs, FindRun
<1>12. ASSUME NEW h \in Hooks, RemoveRun(h) PROVE ReadingInv'
  BY <1>12, HooksAreNotReaders DEF TypeInv, TypeOK, LockInv, RunNotBehindLog, ReadingInv, Goto, Procs, RemoveRun
<1>13. ASSUME NEW h \in Hooks, PruneDone(h) PROVE ReadingInv'
  BY <1>13, HooksAreNotReaders DEF TypeInv, TypeOK, LockInv, RunNotBehindLog, ReadingInv, Goto, Procs, PruneDone, Forget
<1>14. ASSUME NEW h \in Hooks, Abort(h) PROVE ReadingInv'
  BY <1>14, HooksAreNotReaders DEF TypeInv, TypeOK, LockInv, RunNotBehindLog, ReadingInv, Goto, Procs, Abort, Release, Forget
<1>15. ASSUME NEW r \in Readers, StartSnapshot(r) PROVE ReadingInv'
  BY <1>15, HooksAreNotReaders DEF TypeInv, TypeOK, LockInv, RunNotBehindLog, ReadingInv, Goto, Procs, StartSnapshot
<1>16. ASSUME NEW r \in Readers, ReadRuns(r) PROVE ReadingInv'
  <2>1. /\ \A q \in Readers : q # r => pc'[q] = pc[q] /\ snap'[q] = snap[q]
        /\ UNCHANGED events
    BY <1>16, HooksAreNotReaders DEF ReadRuns, Goto, TypeInv, TypeOK, Procs
  <2>2. /\ snap'[r].listed = {}
        /\ \A id \in RunIds : snap'[r].runs[id] \in {Nothing, runs[id]}
    BY <1>16 DEF ReadRuns, TypeInv, TypeOK
  <2>3. \A e \in events : e.run \in RunIds /\ NotBehind(snap'[r].runs[e.run], e)
    BY <1>t, <2>2 DEF TypedFiles, RunNotBehindLog, NotBehind
  <2> QED
    BY <2>1, <2>2, <2>3 DEF ReadingInv, NotBehind
<1>17. ASSUME NEW r \in Readers, ListEvents(r) PROVE ReadingInv'
  <2>1. /\ \A q \in Readers : q # r => pc'[q] = pc[q] /\ snap'[q] = snap[q]
        /\ UNCHANGED events
        /\ pc[r] = "list" /\ pc'[r] = "open"
    BY <1>17, HooksAreNotReaders DEF ListEvents, Goto, TypeInv, TypeOK, Procs
  <2>2. snap[r] \in SnapRecord /\ snap'[r] = [snap[r] EXCEPT !.listed = Newest(events)]
    BY <1>17 DEF ListEvents, TypeInv, TypeOK
  <2>3. snap'[r].listed \subseteq events /\ snap'[r].runs = snap[r].runs
    BY <2>2 DEF SnapRecord, Newest
  <2> QED
    BY <2>1, <2>3 DEF ReadingInv, NotBehind
<1>17r. ASSUME NEW r \in Readers, ReadEvent(r) PROVE ReadingInv'
  BY <1>17r, HooksAreNotReaders DEF TypeInv, TypeOK, LockInv, RunNotBehindLog, ReadingInv, Goto, Procs, ReadEvent, IsNext
<1>17s. ASSUME NEW r \in Readers, SkipEvent(r) PROVE ReadingInv'
  BY <1>17s, HooksAreNotReaders DEF TypeInv, TypeOK, LockInv, RunNotBehindLog, ReadingInv, Goto, Procs, SkipEvent, IsNext
<1>17e. ASSUME NEW r \in Readers, EndSnapshot(r) PROVE ReadingInv'
  BY <1>17e, HooksAreNotReaders DEF TypeInv, TypeOK, LockInv, RunNotBehindLog, ReadingInv, Goto, Procs, EndSnapshot, Release, EmptySnapshot
<1>18. ASSUME NEW r \in Readers, Drop(r) PROVE ReadingInv'
  BY <1>18, HooksAreNotReaders DEF TypeInv, TypeOK, LockInv, RunNotBehindLog, ReadingInv, Goto, Procs, Drop, Release, EmptySnapshot
<1>19. CASE Tick
  BY <1>19, HooksAreNotReaders DEF TypeInv, TypeOK, LockInv, RunNotBehindLog, ReadingInv, Goto, Procs, Tick
<1>20. CASE UNCHANGED vars
  BY <1>20, HooksAreNotReaders DEF TypeInv, TypeOK, LockInv, RunNotBehindLog, ReadingInv, Goto, Procs, vars
<1> QED
  BY <1>1, <1>2, <1>3, <1>3f, <1>4, <1>5, <1>6, <1>7, <1>8, <1>9, <1>10, <1>11,
     <1>12, <1>13, <1>14, <1>15, <1>16, <1>17, <1>17r, <1>17s, <1>17e, <1>18, <1>19,
     <1>20
     DEF Next, Write, Prune, Snapshot, Read

\* What a snapshot returns is a part of the events it could read.
LEMMA SnapshotStep == TypeInv /\ ReadingInv /\ SnapshotIsCoherent /\ [Next]_vars => SnapshotIsCoherent'
<1> SUFFICES ASSUME TypeInv, ReadingInv, SnapshotIsCoherent, [Next]_vars PROVE SnapshotIsCoherent'
  OBVIOUS
<1>t. TypedFiles
  BY FileTypes
<1>1. ASSUME NEW h \in Hooks, Fire(h) PROVE SnapshotIsCoherent'
  BY <1>1, HooksAreNotReaders DEF TypeInv, TypeOK, ReadingInv, SnapshotIsCoherent, Newest, Fire
<1>2. ASSUME NEW h \in Hooks, Acquire(h) PROVE SnapshotIsCoherent'
  BY <1>2, HooksAreNotReaders DEF TypeInv, TypeOK, ReadingInv, SnapshotIsCoherent, Newest, Acquire
<1>3. ASSUME NEW h \in Hooks, ReadPrevious(h) PROVE SnapshotIsCoherent'
  BY <1>3, HooksAreNotReaders DEF TypeInv, TypeOK, ReadingInv, SnapshotIsCoherent, Newest, ReadPrevious
<1>3f. ASSUME NEW h \in Hooks, ReadPreviousFails(h) PROVE SnapshotIsCoherent'
  BY <1>3f, HooksAreNotReaders DEF TypeInv, TypeOK, ReadingInv, SnapshotIsCoherent, Newest, ReadPreviousFails
<1>4. ASSUME NEW h \in Hooks, WriteRun(h) PROVE SnapshotIsCoherent'
  BY <1>4, HooksAreNotReaders DEF TypeInv, TypeOK, ReadingInv, SnapshotIsCoherent, Newest, WriteRun
<1>5. ASSUME NEW h \in Hooks, WriteEvent(h) PROVE SnapshotIsCoherent'
  BY <1>5, HooksAreNotReaders DEF TypeInv, TypeOK, ReadingInv, SnapshotIsCoherent, Newest, WriteEvent
<1>6. ASSUME NEW h \in Hooks, Unlock(h) PROVE SnapshotIsCoherent'
  BY <1>6, HooksAreNotReaders DEF TypeInv, TypeOK, ReadingInv, SnapshotIsCoherent, Newest, Unlock, Release, Forget
<1>7. ASSUME NEW h \in Hooks, PruneStart(h) PROVE SnapshotIsCoherent'
  BY <1>7, HooksAreNotReaders DEF TypeInv, TypeOK, ReadingInv, SnapshotIsCoherent, Newest, PruneStart
<1>8. ASSUME NEW h \in Hooks, FindEvent(h) PROVE SnapshotIsCoherent'
  BY <1>8, HooksAreNotReaders DEF TypeInv, TypeOK, ReadingInv, SnapshotIsCoherent, Newest, FindEvent
<1>9. ASSUME NEW h \in Hooks, RemoveEvent(h) PROVE SnapshotIsCoherent'
  BY <1>9, HooksAreNotReaders DEF TypeInv, TypeOK, ReadingInv, SnapshotIsCoherent, Newest, RemoveEvent
<1>10. ASSUME NEW h \in Hooks, NextDirectory(h) PROVE SnapshotIsCoherent'
  BY <1>10, HooksAreNotReaders DEF TypeInv, TypeOK, ReadingInv, SnapshotIsCoherent, Newest, NextDirectory
<1>11. ASSUME NEW h \in Hooks, FindRun(h) PROVE SnapshotIsCoherent'
  BY <1>11, HooksAreNotReaders DEF TypeInv, TypeOK, ReadingInv, SnapshotIsCoherent, Newest, FindRun
<1>12. ASSUME NEW h \in Hooks, RemoveRun(h) PROVE SnapshotIsCoherent'
  BY <1>12, HooksAreNotReaders DEF TypeInv, TypeOK, ReadingInv, SnapshotIsCoherent, Newest, RemoveRun
<1>13. ASSUME NEW h \in Hooks, PruneDone(h) PROVE SnapshotIsCoherent'
  BY <1>13, HooksAreNotReaders DEF TypeInv, TypeOK, ReadingInv, SnapshotIsCoherent, Newest, PruneDone, Forget
<1>14. ASSUME NEW h \in Hooks, Abort(h) PROVE SnapshotIsCoherent'
  BY <1>14, HooksAreNotReaders DEF TypeInv, TypeOK, ReadingInv, SnapshotIsCoherent, Newest, Abort, Release, Forget
<1>15. ASSUME NEW r \in Readers, StartSnapshot(r) PROVE SnapshotIsCoherent'
  BY <1>15, HooksAreNotReaders DEF TypeInv, TypeOK, ReadingInv, SnapshotIsCoherent, Newest, StartSnapshot
<1>16. ASSUME NEW r \in Readers, ReadRuns(r) PROVE SnapshotIsCoherent'
  BY <1>16, HooksAreNotReaders DEF TypeInv, TypeOK, ReadingInv, SnapshotIsCoherent, Newest, ReadRuns
<1>17. ASSUME NEW r \in Readers, ListEvents(r) PROVE SnapshotIsCoherent'
  BY <1>17, HooksAreNotReaders DEF TypeInv, TypeOK, ReadingInv, SnapshotIsCoherent, Newest, ListEvents
<1>17r. ASSUME NEW r \in Readers, ReadEvent(r) PROVE SnapshotIsCoherent'
  BY <1>17r, HooksAreNotReaders DEF TypeInv, TypeOK, ReadingInv, SnapshotIsCoherent, Newest, ReadEvent, IsNext
<1>17s. ASSUME NEW r \in Readers, SkipEvent(r) PROVE SnapshotIsCoherent'
  BY <1>17s, HooksAreNotReaders DEF TypeInv, TypeOK, ReadingInv, SnapshotIsCoherent, Newest, SkipEvent, IsNext
<1>17e. ASSUME NEW r \in Readers, EndSnapshot(r) PROVE SnapshotIsCoherent'
  BY <1>17e, HooksAreNotReaders DEF TypeInv, TypeOK, ReadingInv, SnapshotIsCoherent, Newest, EndSnapshot, Release, EmptySnapshot
<1>18. ASSUME NEW r \in Readers, Drop(r) PROVE SnapshotIsCoherent'
  BY <1>18, HooksAreNotReaders DEF TypeInv, TypeOK, ReadingInv, SnapshotIsCoherent, Newest, Drop, Release, EmptySnapshot
<1>19. CASE Tick
  BY <1>19, HooksAreNotReaders DEF TypeInv, TypeOK, ReadingInv, SnapshotIsCoherent, Newest, Tick
<1>20. CASE UNCHANGED vars
  BY <1>20, HooksAreNotReaders DEF TypeInv, TypeOK, ReadingInv, SnapshotIsCoherent, Newest, vars
<1> QED
  BY <1>1, <1>2, <1>3, <1>3f, <1>4, <1>5, <1>6, <1>7, <1>8, <1>9, <1>10, <1>11,
     <1>12, <1>13, <1>14, <1>15, <1>16, <1>17, <1>17r, <1>17s, <1>17e, <1>18, <1>19,
     <1>20
     DEF Next, Write, Prune, Snapshot, Read

\* An event found expired is the only one of its turn, and gets no younger.
LEMMA PruneStep == TypeInv /\ LockInv /\ TurnInv /\ PruneInv /\ [Next]_vars => PruneInv'
<1> SUFFICES ASSUME TypeInv, LockInv, TurnInv, PruneInv, [Next]_vars PROVE PruneInv'
  OBVIOUS
<1>t. TypedFiles
  BY FileTypes
<1>1. ASSUME NEW h \in Hooks, Fire(h) PROVE PruneInv'
  BY <1>1, HooksAreNotReaders DEF TypeInv, TypeOK, PruneInv, Goto, Procs, Fire
<1>2. ASSUME NEW h \in Hooks, Acquire(h) PROVE PruneInv'
  BY <1>2, HooksAreNotReaders DEF TypeInv, TypeOK, PruneInv, Goto, Procs, Acquire
<1>3. ASSUME NEW h \in Hooks, ReadPrevious(h) PROVE PruneInv'
  BY <1>3, HooksAreNotReaders DEF TypeInv, TypeOK, PruneInv, Goto, Procs, ReadPrevious
<1>3f. ASSUME NEW h \in Hooks, ReadPreviousFails(h) PROVE PruneInv'
  BY <1>3f, HooksAreNotReaders DEF TypeInv, TypeOK, PruneInv, Goto, Procs, ReadPreviousFails
<1>4. ASSUME NEW h \in Hooks, WriteRun(h) PROVE PruneInv'
  BY <1>4, HooksAreNotReaders DEF TypeInv, TypeOK, PruneInv, Goto, Procs, WriteRun
<1>5. ASSUME NEW h \in Hooks, WriteEvent(h) PROVE PruneInv'
  <2>1. PICK new : events' = events \cup {new} /\ new.turn = turn
    BY <1>5, EventWritten
  <2>2. \A g \in Hooks : pc[g] = "remove event" => doomed[g] # turn
    BY <1>5, <1>t, EventWritten, Turns DEF TypedFiles, TurnInv
  <2> QED
    BY <1>5, <2>1, <2>2, EventWritten DEF PruneInv
<1>6. ASSUME NEW h \in Hooks, Unlock(h) PROVE PruneInv'
  <2>1. UNCHANGED <<now, events>> /\ pc'[h] \in {"idle", "prune"}
    BY <1>6, HooksAreNotReaders DEF Unlock, Goto, TypeInv, TypeOK, Procs
  <2>2. \A g \in Hooks : g # h =>
            pc'[g] = pc[g] /\ cutoff'[g] = cutoff[g] /\ doomed'[g] = doomed[g]
    BY <1>6, HooksAreNotReaders DEF Unlock, Forget, Goto, TypeInv, TypeOK, Procs
  <2> QED
    BY <2>1, <2>2 DEF PruneInv
<1>7. ASSUME NEW h \in Hooks, PruneStart(h) PROVE PruneInv'
  <2>1. /\ UNCHANGED <<now, events, doomed>>
        /\ cutoff'[h] = now - Retention /\ pc'[h] = "sweep events"
        /\ \A g \in Hooks : g # h => pc'[g] = pc[g] /\ cutoff'[g] = cutoff[g]
    BY <1>7, HooksAreNotReaders DEF PruneStart, Goto, TypeInv, TypeOK, Procs
  <2>2. now - Retention \in Int /\ now - Retention <= now - Retention
    <3>1. now \in Int /\ Retention \in Int
      BY <1>t DEF TypedFiles
    <3> QED
      BY <3>1
  <2> QED
    BY <2>1, <2>2 DEF PruneInv
<1>8. ASSUME NEW h \in Hooks, FindEvent(h) PROVE PruneInv'
  <2>1. /\ UNCHANGED <<now, events, cutoff>>
        /\ pc[h] = "sweep events" /\ pc'[h] = "remove event"
        /\ \A g \in Hooks : g # h => pc'[g] = pc[g] /\ doomed'[g] = doomed[g]
    BY <1>8, HooksAreNotReaders DEF FindEvent, Goto, TypeInv, TypeOK, Procs
  <2>2. PICK e \in events : e.mtime < cutoff[h] /\ doomed'[h] = e.turn
    BY <1>8 DEF FindEvent, Expired, TypeInv, TypeOK
  <2>3. cutoff[h] <= now - Retention
    BY <2>1 DEF PruneInv
  <2>4. now - e.mtime > Retention
    BY <2>2, <2>3, <1>t, Ages DEF TypedFiles
  <2>5. \A f \in events : f.turn = e.turn => f = e
    BY <2>2 DEF TurnInv
  <2> QED
    BY <2>1, <2>2, <2>3, <2>4, <2>5 DEF PruneInv
<1>9. ASSUME NEW h \in Hooks, RemoveEvent(h) PROVE PruneInv'
  BY <1>9, HooksAreNotReaders DEF TypeInv, TypeOK, PruneInv, Goto, Procs, RemoveEvent
<1>10. ASSUME NEW h \in Hooks, NextDirectory(h) PROVE PruneInv'
  BY <1>10, HooksAreNotReaders DEF TypeInv, TypeOK, PruneInv, Goto, Procs, NextDirectory
<1>11. ASSUME NEW h \in Hooks, FindRun(h) PROVE PruneInv'
  BY <1>11, HooksAreNotReaders DEF TypeInv, TypeOK, PruneInv, Goto, Procs, FindRun
<1>12. ASSUME NEW h \in Hooks, RemoveRun(h) PROVE PruneInv'
  BY <1>12, HooksAreNotReaders DEF TypeInv, TypeOK, PruneInv, Goto, Procs, RemoveRun
<1>13. ASSUME NEW h \in Hooks, PruneDone(h) PROVE PruneInv'
  BY <1>13, HooksAreNotReaders DEF TypeInv, TypeOK, PruneInv, Goto, Procs, PruneDone, Forget
<1>14. ASSUME NEW h \in Hooks, Abort(h) PROVE PruneInv'
  BY <1>14, HooksAreNotReaders DEF TypeInv, TypeOK, PruneInv, Goto, Procs, Abort, Release, Forget
<1>15. ASSUME NEW r \in Readers, StartSnapshot(r) PROVE PruneInv'
  BY <1>15, HooksAreNotReaders DEF TypeInv, TypeOK, PruneInv, Goto, Procs, StartSnapshot
<1>16. ASSUME NEW r \in Readers, ReadRuns(r) PROVE PruneInv'
  BY <1>16, HooksAreNotReaders DEF TypeInv, TypeOK, PruneInv, Goto, Procs, ReadRuns
<1>17. ASSUME NEW r \in Readers, ListEvents(r) PROVE PruneInv'
  BY <1>17, HooksAreNotReaders DEF TypeInv, TypeOK, PruneInv, Goto, Procs, ListEvents
<1>17r. ASSUME NEW r \in Readers, ReadEvent(r) PROVE PruneInv'
  BY <1>17r, HooksAreNotReaders DEF TypeInv, TypeOK, PruneInv, Goto, Procs, ReadEvent
<1>17s. ASSUME NEW r \in Readers, SkipEvent(r) PROVE PruneInv'
  BY <1>17s, HooksAreNotReaders DEF TypeInv, TypeOK, PruneInv, Goto, Procs, SkipEvent
<1>17e. ASSUME NEW r \in Readers, EndSnapshot(r) PROVE PruneInv'
  BY <1>17e, HooksAreNotReaders DEF TypeInv, TypeOK, PruneInv, Goto, Procs, EndSnapshot, Release, EmptySnapshot
<1>18. ASSUME NEW r \in Readers, Drop(r) PROVE PruneInv'
  BY <1>18, HooksAreNotReaders DEF TypeInv, TypeOK, PruneInv, Goto, Procs, Drop, Release, EmptySnapshot
<1>19. CASE Tick
  <2>1. now' = now + 1 /\ UNCHANGED <<events, pc, cutoff, doomed>>
    BY <1>19 DEF Tick
  <2>2. \A h \in Hooks : cutoff[h] <= now - Retention => cutoff[h] <= now' - Retention
    BY <2>1, <1>t, Ages DEF TypedFiles
  <2>3. \A e \in events : now - e.mtime > Retention => now' - e.mtime > Retention
    BY <2>1, <1>t, Ages DEF TypedFiles
  <2> QED
    BY <2>1, <2>2, <2>3 DEF PruneInv
<1>20. CASE UNCHANGED vars
  BY <1>20, HooksAreNotReaders DEF TypeInv, TypeOK, PruneInv, Goto, Procs, vars
<1> QED
  BY <1>1, <1>2, <1>3, <1>3f, <1>4, <1>5, <1>6, <1>7, <1>8, <1>9, <1>10, <1>11,
     <1>12, <1>13, <1>14, <1>15, <1>16, <1>17, <1>17r, <1>17s, <1>17e, <1>18, <1>19,
     <1>20
     DEF Next, Write, Prune, Snapshot, Read

\* The invariant holds at first and every step keeps it.
THEOREM Invariant == Spec => []IInv
<1>1. Init => IInv
  <2> SUFFICES ASSUME Init PROVE IInv
    OBVIOUS
  <2>1. TypeInv
    BY TypeInvInit
  <2>2. LockInv /\ MergeIsCurrent /\ RecordInv /\ ReadingInv /\ PruneInv
    BY HooksAreNotReaders
       DEF Init, LockInv, MergeIsCurrent, RecordInv, ReadingInv, PruneInv, EmptySnapshot, Procs
  <2>3. TurnInv /\ RunNotBehindLog /\ SnapshotIsCoherent
    BY HooksAreNotReaders
       DEF Init, TurnInv, RunNotBehindLog, SnapshotIsCoherent, EmptySnapshot
  <2> QED
    BY <2>1, <2>2, <2>3 DEF IInv
<1>2. IInv /\ [Next]_vars => IInv'
  <2> SUFFICES ASSUME IInv, [Next]_vars PROVE IInv'
    OBVIOUS
  <2>1. TypeOK /\ TypeInv /\ LockInv /\ MergeIsCurrent /\ TurnInv /\ RecordInv
        /\ RunNotBehindLog /\ ReadingInv /\ SnapshotIsCoherent /\ PruneInv
    BY DEF IInv, TypeInv
  <2>2. TypeInv' /\ LockInv' /\ MergeIsCurrent'
    BY <2>1, TypeInvStep, LockInvStep, MergeStep
  <2>3. TurnInv' /\ RecordInv' /\ RunNotBehindLog'
    BY <2>1, TurnStep, RecordStep, LogStep
  <2>4. ReadingInv' /\ SnapshotIsCoherent' /\ PruneInv'
    BY <2>1, ReadingStep, SnapshotStep, PruneStep
  <2> QED
    BY <2>2, <2>3, <2>4 DEF IInv
<1> QED
  BY <1>1, <1>2, PTL DEF Spec

\* No hook merges into a record another hook has replaced meanwhile.
THEOREM MergesAreCurrent == Spec => []MergeIsCurrent
BY Invariant, PTL DEF IInv

\* A run's record is at least as new as every logged event of the run.
THEOREM RunsKeepUp == Spec => []RunNotBehindLog
BY Invariant, PTL DEF IInv

\* A snapshot shows no event that is newer than the run it is shown with.
THEOREM SnapshotsAreCoherent == Spec => []SnapshotIsCoherent
BY Invariant, PTL DEF IInv

-----------------------------------------------------------------------------
(* What a step may not do *)

\* The steps that write a run leave the others alone.
LEMMA RunsChange ==
    ASSUME IInv, [Next]_vars
    PROVE  \/ runs' = runs
           \/ \E h \in Hooks : WriteRun(h)
           \/ \E h \in Hooks : RemoveRun(h)
BY DEF Next, vars, Write, Prune, Snapshot, Read, Fire, Acquire, ReadPrevious,
       ReadPreviousFails, WriteEvent, Unlock, PruneStart, FindEvent, RemoveEvent,
       NextDirectory, FindRun, PruneDone, Abort, StartSnapshot, ReadRuns, ListEvents,
       ReadEvent, SkipEvent, EndSnapshot, Drop, Tick

\* The record a hook writes, over the one it replaces.
LEMMA RunRewritten ==
    ASSUME IInv, NEW h \in Hooks, WriteRun(h), NEW r \in RunIds, runs[r] # Nothing
    PROVE  \/ r # event[h].run /\ runs'[r] = runs[r]
           \/ /\ r = event[h].run
              /\ event[h] \in Event
              /\ lock = h
              /\ runs'[r].text = MergeText(event[h], previous[h])
              /\ \/ Overwrites(h, r)
                 \/ /\ previous[h] \in RunRecord /\ runs[r] = previous[h]
                    /\ previous[h] \notin {Nothing, Unread}
<1>1. TypeOK /\ HookHasEvent /\ LockInv /\ MergeIsCurrent
  BY DEF IInv, TypeInv
<1>2. pc[h] = "run" /\ event[h] \in Event /\ lock = h
  BY <1>1 DEF WriteRun, HookHasEvent, LockInv
<1>3. CASE r # event[h].run
  BY <1>1, <1>3 DEF WriteRun, TypeOK, RunFiles
<1>4. CASE r = event[h].run
  <2>1. runs'[r].text = MergeText(event[h], previous[h])
    BY <1>1, <1>4 DEF WriteRun, TypeOK, RunFiles
  <2>2. CASE previous[h] = Unread
    BY <1>2, <1>4, <2>1, <2>2 DEF Overwrites
  <2>3. CASE previous[h] # Unread
    <3>1. runs[r] = previous[h]
      BY <1>1, <1>2, <1>4, <2>3 DEF MergeIsCurrent
    <3>2. previous[h] \in RunRecord
      BY <1>1, <2>3, <3>1 DEF TypeOK
    <3> QED
      BY <1>2, <1>4, <2>1, <2>3, <3>1, <3>2
  <2> QED
    BY <2>2, <2>3
<1> QED
  BY <1>3, <1>4

\* A prune changes no record: it removes one or leaves it.
LEMMA RunsOnlyRemoved ==
    ASSUME IInv, NEW h \in Hooks, RemoveRun(h), NEW r \in RunIds
    PROVE  runs'[r] = runs[r] \/ runs'[r] = Nothing
BY RunRemoved DEF IInv

\* A run that stays on disk keeps a task, a target and a message once it has them,
\* unless the hook that holds the lock replaces a record it could not read.
THEOREM TextStays == Spec => TextIsSticky
<1> DEFINE Lost(r) == \E h \in Hooks : lock = h /\ Overwrites(h, r)
<1>1. ASSUME IInv, [Next]_vars, NEW r \in RunIds, NEW field \in Sticky,
             runs[r] # Nothing, runs'[r] # Nothing, runs[r].text[field] # NoText,
             runs'[r].text[field] = NoText
      PROVE  Lost(r)
  <2>1. CASE runs' = runs
    BY <1>1, <2>1
  <2>2. ASSUME NEW h \in Hooks, WriteRun(h) PROVE Lost(r)
    BY <1>1, <2>2, RunRewritten, MergedText
  <2>3. ASSUME NEW h \in Hooks, RemoveRun(h) PROVE Lost(r)
    BY <1>1, <2>3, RunsOnlyRemoved
  <2> QED
    BY <1>1, <2>1, <2>2, <2>3, RunsChange
<1>2. IInv /\ [Next]_vars =>
        [\A r \in RunIds : \A field \in Sticky :
            (/\ runs[r] # Nothing
             /\ runs'[r] # Nothing
             /\ runs[r].text[field] # NoText
             /\ runs'[r].text[field] = NoText)
                => \E h \in Hooks : lock = h /\ Overwrites(h, r)]_vars
  BY <1>1
<1> QED
  BY <1>2, Invariant, PTL DEF Spec, TextIsSticky

\* A heartbeat changes no message of a record it could read.
THEOREM HeartbeatsKeepMessages == Spec => HeartbeatKeepsMessage
<1> DEFINE Kept(h, r) == \/ runs'[r].text["message"] = runs[r].text["message"]
                         \/ Overwrites(h, r)
<1>1. ASSUME IInv, [Next]_vars, NEW h \in Hooks, NEW r \in RunIds,
             lock = h, event[h].activity, runs[r] # Nothing, runs'[r] # Nothing
      PROVE  Kept(h, r)
  <2>1. CASE runs' = runs
    BY <1>1, <2>1
  <2>2. ASSUME NEW g \in Hooks, WriteRun(g) PROVE Kept(h, r)
    <3>1. pc[g] = "run" /\ g = h
      BY <1>1, <2>2 DEF WriteRun, IInv, LockInv
    <3>2. event[h].text["message"] = NoText
      BY <1>1, <3>1 DEF IInv, TypeInv, HookHasEvent
    <3>3. "message" \in Sticky
      BY DEF Sticky
    <3>4. previous[h] \notin {Nothing, Unread} =>
              MergeText(event[h], previous[h])["message"] = previous[h].text["message"]
      BY <3>2, <3>3 DEF MergeText
    <3> QED
      BY <1>1, <2>2, <3>1, <3>4, RunRewritten
  <2>3. ASSUME NEW g \in Hooks, RemoveRun(g) PROVE Kept(h, r)
    BY <1>1, <2>3, RunsOnlyRemoved
  <2> QED
    BY <1>1, <2>1, <2>2, <2>3, RunsChange
<1>2. IInv /\ [Next]_vars =>
        [\A h \in Hooks : \A r \in RunIds :
            (/\ lock = h
             /\ event[h].activity
             /\ runs[r] # Nothing
             /\ runs'[r] # Nothing)
                => \/ runs'[r].text["message"] = runs[r].text["message"]
                   \/ Overwrites(h, r)]_vars
  BY <1>1
<1> QED
  BY <1>2, Invariant, PTL DEF Spec, HeartbeatKeepsMessage

\* An event file is removed only when it is older than the retention time.
THEOREM EventsStay == Spec => EventsOutliveRetention
<1>1. ASSUME IInv, [Next]_vars, NEW e \in events, e \notin events'
      PROVE  now - e.mtime > Retention
  <2>1. PICK h \in Hooks : RemoveEvent(h)
    BY <1>1
       DEF Next, vars, Write, Prune, Snapshot, Read, Fire, Acquire, ReadPrevious,
           ReadPreviousFails, WriteRun, WriteEvent, Unlock, PruneStart, FindEvent,
           NextDirectory, FindRun, RemoveRun, PruneDone, Abort, StartSnapshot, ReadRuns,
           ListEvents, ReadEvent, SkipEvent, EndSnapshot, Drop, Tick
  <2>2. pc[h] = "remove event" /\ e.turn = doomed[h]
    BY <1>1, <2>1 DEF RemoveEvent
  <2> QED
    BY <1>1, <2>2 DEF IInv, PruneInv
<1>2. IInv /\ [Next]_vars =>
        [\A e \in events : e \in events' \/ now - e.mtime > Retention]_vars
  BY <1>1
<1> QED
  BY <1>2, Invariant, PTL DEF Spec, EventsOutliveRetention

-----------------------------------------------------------------------------
(* One step per hook and per snapshot *)

(* Every step is of one of six kinds, as far as Devbox is concerned *)

\* Nothing is recorded or read: files of events may go.
Quiet ==
    /\ UNCHANGED <<turn, runs, snap, last>>
    /\ events' \subseteq events
    /\ \A h \in Hooks :
          /\ pc'[h] \in {"read", "run", "log"} => pc[h] \in {"read", "run", "log"}
          /\ pc[h] = "log" => pc'[h] = "log" /\ event'[h] = event[h]
    /\ \A r \in Readers : /\ pc'[r] = "list" <=> pc[r] = "list"
                          /\ pc'[r] = "open" <=> pc[r] = "open"

\* Hook h takes its turn.
Starts(h) ==
    /\ turn' = turn + 1
    /\ UNCHANGED <<runs, events, snap, last>>
    /\ \A g \in Hooks : pc[g] \notin {"read", "run", "log"} /\ pc'[g] # "log"
    /\ \A r \in Readers : pc'[r] = pc[r]

\* Hook h has written the record of an event that is still to be logged.
HalfWrites(h) ==
    /\ pc[h] = "run" /\ pc'[h] = "log"
    /\ \A p \in Procs : p # h => pc'[p] = pc[p]
    /\ UNCHANGED <<turn, events, event, snap, last>>
    /\ \A id \in RunIds : id # event[h].run => runs'[id] = runs[id]
    /\ runs'[event[h].run].turn = turn

\* Hook h has written all it will.
Records(h) ==
    /\ pc[h] \in {"run", "log"} /\ pc'[h] \notin {"read", "run", "log"}
    /\ \A p \in Procs : p # h => pc'[p] = pc[p]
    /\ UNCHANGED <<turn, snap>>
    /\ last' = [last EXCEPT ![event[h].run] = [state |-> event[h].state, turn |-> turn]]
    /\ \A id \in RunIds : id # event[h].run => runs'[id] = runs[id]
    /\ runs'[event[h].run] # Nothing =>
          Brief(runs'[event[h].run]) = [state |-> event[h].state, turn |-> turn]
    /\ events' \in {events, events \cup
          {[ run |-> event[h].run, state |-> event[h].state, mtime |-> now,
             turn |-> turn ]}}

\* Records go.
Loses ==
    /\ UNCHANGED <<turn, events, event, snap, last>>
    /\ \A h \in Hooks :
          /\ pc'[h] \in {"read", "run", "log"} => pc[h] \in {"read", "run", "log"}
          /\ pc[h] = "log" => pc'[h] = "log"
    /\ \A r \in Readers : pc'[r] = pc[r]
    /\ \A id \in RunIds : runs'[id] = runs[id] \/ runs'[id] = Nothing

\* Reader r goes on.
Reads(r) == (Read(r) \/ Drop(r)) /\ UNCHANGED last

\* Where nobody completes a record, none is kept.
LEMMA NothingKept ==
    ASSUME Keep, \A h \in Hooks : ~Completes(h)
    PROVE  UNCHANGED last
BY DEF Keep

\* Where hook h alone moves, it alone may complete one.
LEMMA OneKept ==
    ASSUME Keep, NEW h \in Hooks, \A g \in Hooks : g # h => pc'[g] = pc[g]
    PROVE  /\ Completes(h) => last' = [last EXCEPT ![event[h].run] =
                                         [state |-> event[h].state, turn |-> turn]]
           /\ ~Completes(h) => UNCHANGED last
<1>1. \A g \in Hooks : Completes(g) => g = h
  BY DEF Completes
<1> QED
  BY <1>1 DEF Keep

\* A hook that moves its program counter moves no other's.
LEMMA HookMoves ==
    ASSUME TypeOK, NEW h \in Hooks, NEW step, Goto(h, step)
    PROVE  /\ pc'[h] = step
           /\ \A p \in Procs : p # h => pc'[p] = pc[p]
           /\ \A g \in Hooks : g # h => pc'[g] = pc[g]
           /\ \A r \in Readers : pc'[r] = pc[r]
BY HooksAreNotReaders DEF TypeOK, Goto, Procs

\* A reader that goes on touches nothing of the hooks, and moves no other reader.
LEMMA ReaderMoves ==
    ASSUME TypeOK, NEW r \in Readers, Read(r) \/ Drop(r)
    PROVE  /\ UNCHANGED <<now, turn, runs, events, event>>
           /\ \A h \in Hooks : pc'[h] = pc[h]
           /\ \A q \in Readers : q # r => pc'[q] = pc[q] /\ snap'[q] = snap[q]
<1>1. CASE ReadRuns(r)
  BY <1>1, ReaderGoes DEF ReadRuns, ReaderSteps, TypeOK
<1>2. CASE ListEvents(r)
  BY <1>2, ReaderGoes DEF ListEvents, ReaderSteps, TypeOK
<1>3. CASE ReadEvent(r)
  BY <1>3 DEF ReadEvent, TypeOK
<1>4. CASE SkipEvent(r)
  BY <1>4 DEF SkipEvent, TypeOK
<1>5. CASE EndSnapshot(r)
  BY <1>5, ReaderGoes DEF EndSnapshot, ReaderSteps, TypeOK
<1>6. CASE Drop(r)
  BY <1>6, ReaderGoes DEF Drop, ReaderSteps, TypeOK
<1> QED
  BY <1>1, <1>2, <1>3, <1>4, <1>5, <1>6 DEF Read

\* A hook that neither takes a turn nor writes nor leaves a record half written is
\* not noticed.
LEMMA QuietHook ==
    ASSUME TypeOK, Keep, NEW h \in Hooks, NEW step, Goto(h, step),
           UNCHANGED <<turn, runs, snap>>, events' \subseteq events,
           pc[h] # "log",
           pc[h] = "run" => step # "unlock",
           step \in {"read", "run", "log"} => pc[h] = "read",
           \A g \in Hooks : g # h => event'[g] = event[g]
    PROVE  Quiet
<1>1. /\ pc'[h] = step
      /\ \A g \in Hooks : g # h => pc'[g] = pc[g]
      /\ \A r \in Readers : pc'[r] = pc[r]
  BY HookMoves
<1>2. UNCHANGED last
  <2>1. ~Completes(h)
    BY <1>1 DEF Completes
  <2> QED
    BY <1>1, <2>1, OneKept
<1> QED
  BY <1>1, <1>2 DEF Quiet

\* A hook that leaves its last step under the lock, by writing its event or by
\* being killed, leaves its record behind.
LEMMA LoggedRecord ==
    ASSUME IInv, Keep, NEW h \in Hooks, pc[h] = "log", NEW step, Goto(h, step),
           step \notin {"read", "run", "log"}, UNCHANGED <<turn, runs, snap>>,
           events' \in {events, events \cup
              {[ run |-> event[h].run, state |-> event[h].state, mtime |-> now,
                 turn |-> turn ]}}
    PROVE  Records(h)
<1> DEFINE id == event[h].run
<1>t. TypeOK /\ TypeInv
  BY DEF IInv, TypeInv
<1>1. /\ pc'[h] = step
      /\ \A p \in Procs : p # h => pc'[p] = pc[p]
      /\ \A g \in Hooks : g # h => pc'[g] = pc[g]
  BY <1>t, HookMoves
<1>2. last' = [last EXCEPT ![id] = [state |-> event[h].state, turn |-> turn]]
  BY <1>1, OneKept DEF Completes
<1>3. id \in RunIds
  BY <1>t, FileTypes DEF TypedFiles
<1>4. runs'[id] # Nothing => Brief(runs'[id]) = [state |-> event[h].state, turn |-> turn]
  BY <1>3 DEF IInv, RecordInv, Brief
<1> QED
  BY <1>1, <1>2, <1>4 DEF Records

\* Every step is of one of the kinds.
LEMMA Kinds ==
    ASSUME IInv, [HistoryNext]_historyVars
    PROVE  \/ Quiet
           \/ \E h \in Hooks : Starts(h) \/ HalfWrites(h) \/ Records(h)
           \/ Loses
           \/ \E r \in Readers : Reads(r)
<1> DEFINE Goal == \/ Quiet
                   \/ \E h \in Hooks : Starts(h) \/ HalfWrites(h) \/ Records(h)
                   \/ Loses
                   \/ \E r \in Readers : Reads(r)
<1> SUFFICES Goal
  OBVIOUS
<1>t. TypeOK /\ TypeInv /\ LockInv
  BY DEF IInv, TypeInv
<1>e. \A h \in Hooks : pc[h] # "idle" => event[h].run \in RunIds
  BY <1>t, FileTypes DEF TypedFiles
<1>0. CASE UNCHANGED historyVars
  <2>1. Quiet
    BY <1>0 DEF historyVars, vars, Quiet
  <2> QED
    BY <2>1
<1>k. CASE Keep /\ Next
  <2> USE <1>k
  <2>1. ASSUME NEW h \in Hooks, Fire(h) PROVE Goal
    <3>1. Quiet
      BY <2>1, <1>t, QuietHook DEF Fire, TypeOK
    <3> QED
      BY <3>1
  <2>2. ASSUME NEW h \in Hooks, ReadPrevious(h) PROVE Goal
    <3>1. Quiet
      BY <2>2, <1>t, QuietHook DEF ReadPrevious
    <3> QED
      BY <3>1
  <2>2f. ASSUME NEW h \in Hooks, ReadPreviousFails(h) PROVE Goal
    <3>1. Quiet
      BY <2>2f, <1>t, QuietHook DEF ReadPreviousFails
    <3> QED
      BY <3>1
  <2>3. ASSUME NEW h \in Hooks, PruneStart(h) PROVE Goal
    <3>1. Quiet
      BY <2>3, <1>t, QuietHook DEF PruneStart
    <3> QED
      BY <3>1
  <2>4. ASSUME NEW h \in Hooks, FindEvent(h) PROVE Goal
    <3>1. Quiet
      BY <2>4, <1>t, QuietHook DEF FindEvent
    <3> QED
      BY <3>1
  <2>5. ASSUME NEW h \in Hooks, RemoveEvent(h) PROVE Goal
    <3>1. Quiet
      BY <2>5, <1>t, QuietHook DEF RemoveEvent
    <3> QED
      BY <3>1
  <2>6. ASSUME NEW h \in Hooks, NextDirectory(h) PROVE Goal
    <3>1. Quiet
      BY <2>6, <1>t, QuietHook DEF NextDirectory
    <3> QED
      BY <3>1
  <2>7. ASSUME NEW h \in Hooks, FindRun(h) PROVE Goal
    <3>1. Quiet
      BY <2>7, <1>t, QuietHook DEF FindRun
    <3> QED
      BY <3>1
  <2>8. ASSUME NEW h \in Hooks, PruneDone(h) PROVE Goal
    <3>1. Quiet
      BY <2>8, <1>t, QuietHook DEF PruneDone, Forget, TypeOK
    <3> QED
      BY <3>1
  <2>9. ASSUME NEW h \in Hooks, Unlock(h) PROVE Goal
    <3>1. CASE event[h].activity
      <4>1. Quiet
        BY <2>9, <3>1, <1>t, QuietHook DEF Unlock, Forget, TypeOK
      <4> QED
        BY <4>1
    <3>2. CASE ~event[h].activity
      <4>1. Quiet
        BY <2>9, <3>2, <1>t, QuietHook DEF Unlock
      <4> QED
        BY <4>1
    <3> QED
      BY <3>1, <3>2
  <2>10. ASSUME NEW h \in Hooks, Acquire(h) PROVE Goal
    <3>1. Starts(h)
      <4>1. /\ turn' = turn + 1 /\ UNCHANGED <<runs, events, snap>>
            /\ \A g \in Hooks : pc'[g] = IF g = h THEN "read" ELSE pc[g]
            /\ \A g \in Hooks : pc[g] \notin {"read", "run", "log"}
        BY <2>10, <1>t, TurnTaken DEF Acquire
      <4>2. \A r \in Readers : pc'[r] = pc[r]
        BY <2>10, <1>t, HookMoves DEF Acquire
      <4>3. UNCHANGED last
        BY <4>1, NothingKept DEF Completes
      <4> QED
        BY <4>1, <4>2, <4>3 DEF Starts
    <3> QED
      BY <3>1
  <2>11. ASSUME NEW h \in Hooks, WriteRun(h) PROVE Goal
    <3> DEFINE id == event[h].run
    <3>1. /\ UNCHANGED <<turn, events, event, snap>> /\ pc[h] = "run"
          /\ Goto(h, IF event[h].activity THEN "unlock" ELSE "log")
      BY <2>11 DEF WriteRun
    <3>2. /\ pc'[h] = IF event[h].activity THEN "unlock" ELSE "log"
          /\ \A p \in Procs : p # h => pc'[p] = pc[p]
          /\ \A g \in Hooks : g # h => pc'[g] = pc[g]
      BY <3>1, <1>t, HookMoves
    <3>3. id \in RunIds
      BY <3>1, <1>e
    <3>4. /\ \A other \in RunIds : other # id => runs'[other] = runs[other]
          /\ runs'[id].turn = turn /\ runs'[id].state = event[h].state
      BY <2>11, <1>t, <3>3, RunWritten
    <3>5. CASE event[h].activity
      <4>1. Completes(h)
        BY <3>1, <3>2, <3>5 DEF Completes
      <4>2. last' = [last EXCEPT ![id] = [state |-> event[h].state, turn |-> turn]]
        BY <3>2, <4>1, OneKept
      <4>3. Brief(runs'[id]) = [state |-> event[h].state, turn |-> turn]
        BY <3>4 DEF Brief
      <4>4. Records(h)
        BY <3>1, <3>2, <3>4, <3>5, <4>2, <4>3 DEF Records
      <4> QED
        BY <4>4
    <3>6. CASE ~event[h].activity
      <4>1. UNCHANGED last
        BY <3>1, <3>2, <3>6, OneKept DEF Completes
      <4>2. HalfWrites(h)
        BY <3>1, <3>2, <3>4, <3>6, <4>1 DEF HalfWrites
      <4> QED
        BY <4>2
    <3> QED
      BY <3>5, <3>6
  <2>12. ASSUME NEW h \in Hooks, WriteEvent(h) PROVE Goal
    <3>1. /\ UNCHANGED <<turn, runs, snap>> /\ pc[h] = "log" /\ Goto(h, "unlock")
          /\ events' = events \cup
                {[ run |-> event[h].run, state |-> event[h].state, mtime |-> now,
                   turn |-> turn ]}
      BY <2>12 DEF WriteEvent
    <3>2. Records(h)
      BY <3>1, <1>t, <1>e, LoggedRecord
    <3> QED
      BY <3>2
  <2>13. ASSUME NEW h \in Hooks, Abort(h) PROVE Goal
    <3>1. UNCHANGED <<turn, runs, events, snap>> /\ Goto(h, "idle")
      BY <2>13 DEF Abort
    <3>2. CASE pc[h] = "log"
      <4>1. Records(h)
        BY <3>1, <3>2, LoggedRecord
      <4> QED
        BY <4>1
    <3>3. CASE pc[h] # "log"
      <4>1. \A g \in Hooks : g # h => event'[g] = event[g]
        BY <2>13, <1>t DEF Abort, Forget, TypeOK
      <4>2. Quiet
        BY <3>1, <3>3, <4>1, <1>t, QuietHook
      <4> QED
        BY <4>2
    <3> QED
      BY <3>2, <3>3
  <2>14. ASSUME NEW h \in Hooks, RemoveRun(h) PROVE Goal
    <3>1. /\ UNCHANGED <<turn, events, event, snap>>
          /\ \A id \in RunIds : runs'[id] = runs[id] \/ runs'[id] = Nothing
      BY <2>14, <1>t, RunRemoved
    <3>2. pc[h] = "remove run" /\ Goto(h, "sweep runs")
      BY <2>14 DEF RemoveRun
    <3>3. /\ pc'[h] = "sweep runs"
          /\ \A g \in Hooks : g # h => pc'[g] = pc[g]
          /\ \A r \in Readers : pc'[r] = pc[r]
      BY <3>2, <1>t, HookMoves
    <3>4. UNCHANGED last
      BY <3>2, <3>3, OneKept DEF Completes
    <3>5. Loses
      BY <3>1, <3>2, <3>3, <3>4 DEF Loses
    <3> QED
      BY <3>5
  <2>15. ASSUME NEW r \in Readers, StartSnapshot(r) PROVE Goal
    <3>1. UNCHANGED <<turn, runs, snap, events, event>> /\ pc[r] = "idle"
      BY <2>15 DEF StartSnapshot
    <3>2. /\ \A h \in Hooks : pc'[h] = pc[h]
          /\ \A q \in Readers : pc'[q] = IF q = r THEN "runs" ELSE pc[q]
      BY <2>15, <1>t, ReaderGoes DEF StartSnapshot, ReaderSteps
    <3>3. UNCHANGED last
      BY <3>2, NothingKept DEF Completes
    <3>4. Quiet
      BY <3>1, <3>2, <3>3 DEF Quiet
    <3> QED
      BY <3>4
  <2>16. ASSUME NEW r \in Readers, Read(r) \/ Drop(r) PROVE Goal
    <3>1. \A h \in Hooks : pc'[h] = pc[h]
      BY <2>16, <1>t, ReaderMoves
    <3>2. UNCHANGED last
      BY <3>1, NothingKept DEF Completes
    <3>3. Reads(r)
      BY <2>16, <3>2 DEF Reads
    <3> QED
      BY <3>3
  <2>17. CASE Tick
    <3>1. UNCHANGED <<turn, runs, snap, events, event, pc>>
      BY <2>17 DEF Tick
    <3>2. UNCHANGED last
      BY <3>1, NothingKept DEF Completes
    <3>3. Quiet
      BY <3>1, <3>2 DEF Quiet
    <3> QED
      BY <3>3
  <2> QED
    BY <2>1, <2>2, <2>2f, <2>3, <2>4, <2>5, <2>6, <2>7, <2>8, <2>9, <2>10, <2>11,
       <2>12, <2>13, <2>14, <2>15, <2>16, <2>17
       DEF Next, Write, Prune, Snapshot
<1> QED
  BY <1>0, <1>k DEF HistoryNext

(* What each kind does to the invariant *)

\* Under the turn of one hook no other hook and no snapshot is inside the lock.
LEMMA Alone ==
    ASSUME LockInv, NEW h \in Hooks, pc[h] \in {"read", "run", "log", "unlock"}
    PROVE  /\ \A g \in Hooks : g # h => pc[g] \notin {"read", "run", "log", "unlock"}
           /\ \A r \in Readers : pc[r] \notin {"runs", "list", "open"}
BY HooksAreNotReaders DEF LockInv

\* Under a snapshot no hook is inside the lock.
LEMMA ReaderAlone ==
    ASSUME LockInv, NEW r \in Readers, pc[r] \in {"runs", "list", "open"}
    PROVE  /\ \A h \in Hooks : pc[h] \notin {"read", "run", "log", "unlock"}
           /\ \A q \in Readers : q # r => pc[q] \notin {"runs", "list", "open"}
BY HooksAreNotReaders DEF LockInv

\* The turns of what was recorded are numbers.
LEMMA LastTurns ==
    ASSUME TypeInv, LastInv
    PROVE  turn \in Nat /\ \A id \in RunIds : last[id] # Nothing => last[id].turn \in Nat
BY DEF TypeInv, TypeOK, LastInv

\* What is recorded gets the turn of its hook, and turns only grow.
LEMMA LastStep ==
    ASSUME HistoryInv, [HistoryNext]_historyVars
    PROVE  LastInv'
<1>t. /\ TypeInv /\ LockInv /\ LastInv /\ turn \in Nat
      /\ \A id \in RunIds : last[id] # Nothing => last[id].turn \in Nat
  BY LastTurns DEF HistoryInv, IInv
<1>1. CASE Quiet
  BY <1>1, <1>t DEF Quiet, LastInv
<1>2. ASSUME NEW h \in Hooks, Starts(h) PROVE LastInv'
  <2>1. \A id \in RunIds : last[id] # Nothing =>
            last[id].turn <= turn + 1 /\ last[id].turn < turn + 1
    BY <1>t, Turns DEF LastInv
  <2> QED
    BY <1>2, <1>t, <2>1 DEF Starts, LastInv
<1>3. ASSUME NEW h \in Hooks, HalfWrites(h) PROVE LastInv'
  <2>1. \A g \in Hooks : pc'[g] \in {"read", "run", "log"} =>
            pc[g] \in {"read", "run", "log"}
    BY <1>3, HooksAreNotReaders DEF HalfWrites
  <2> QED
    BY <1>3, <1>t, <2>1 DEF HalfWrites, LastInv
<1>4. ASSUME NEW h \in Hooks, Records(h) PROVE LastInv'
  <2>1. event[h].run \in RunIds /\ event[h].state \in States
    BY <1>4, <1>t DEF Records, TypeInv, HookHasEvent, Event
  <2>2. last' \in [RunIds -> [state : States, turn : Nat] \cup {Nothing}]
    BY <1>4, <1>t, <2>1 DEF Records, LastInv
  <2>3. turn <= turn
    BY <1>t, Turns
  <2>4. \A id \in RunIds : last'[id] # Nothing => last'[id].turn <= turn
    BY <1>4, <1>t, <2>1, <2>3 DEF Records, LastInv
  <2>5. \A g \in Hooks : pc'[g] \notin {"read", "run", "log"}
    BY <1>4, <1>t, Alone, HooksAreNotReaders DEF Records
  <2> QED
    BY <1>4, <2>2, <2>4, <2>5 DEF Records, LastInv
<1>5. CASE Loses
  BY <1>5, <1>t DEF Loses, LastInv
<1>6. ASSUME NEW r \in Readers, Reads(r) PROVE LastInv'
  <2>1. UNCHANGED <<turn, last>> /\ \A h \in Hooks : pc'[h] = pc[h]
    BY <1>6, <1>t, ReaderMoves DEF Reads, TypeInv
  <2> QED
    BY <1>t, <2>1 DEF LastInv
<1> QED
  BY <1>1, <1>2, <1>3, <1>4, <1>5, <1>6, Kinds DEF HistoryInv

\* A record is on disk from before its event is kept until it is lost.
LEMMA StoredStep ==
    ASSUME HistoryInv, [HistoryNext]_historyVars
    PROVE  StoredInv'
<1>t. TypeInv /\ LockInv /\ LastInv /\ StoredInv
  BY DEF HistoryInv, IInv
<1>1. CASE Quiet
  BY <1>1, <1>t DEF Quiet, StoredInv, Brief
<1>2. ASSUME NEW h \in Hooks, Starts(h) PROVE StoredInv'
  BY <1>2, <1>t DEF Starts, StoredInv, Brief
<1>3. ASSUME NEW h \in Hooks, HalfWrites(h) PROVE StoredInv'
  <2>1. \A g \in Hooks : pc[g] = "log" => pc'[g] = "log"
    BY <1>3, HooksAreNotReaders DEF HalfWrites
  <2> QED
    BY <1>3, <1>t, <2>1 DEF HalfWrites, StoredInv, Brief
<1>4. ASSUME NEW h \in Hooks, Records(h) PROVE StoredInv'
  <2>1. \A g \in Hooks : g # h => pc[g] # "log"
    BY <1>4, <1>t, Alone DEF Records
  <2>2. \A id \in RunIds : id # event[h].run => last'[id] = last[id] /\ runs'[id] = runs[id]
    BY <1>4, <1>t DEF Records, LastInv
  <2>3. event[h].run \in RunIds =>
            last'[event[h].run] = [state |-> event[h].state, turn |-> turn]
    BY <1>4, <1>t DEF Records, LastInv
  <2> QED
    BY <1>4, <1>t, <2>1, <2>2, <2>3 DEF Records, StoredInv, Brief
<1>5. CASE Loses
  BY <1>5, <1>t DEF Loses, StoredInv, Brief
<1>6. ASSUME NEW r \in Readers, Reads(r) PROVE StoredInv'
  <2>1. UNCHANGED <<runs, event, last>> /\ \A h \in Hooks : pc'[h] = pc[h]
    BY <1>6, <1>t, ReaderMoves DEF Reads, TypeInv
  <2> QED
    BY <1>t, <2>1 DEF StoredInv, Brief
<1> QED
  BY <1>1, <1>2, <1>3, <1>4, <1>5, <1>6, Kinds DEF HistoryInv

\* What each step of reader r gets it.
LEMMA ReadingKinds ==
    ASSUME TypeOK, NEW r \in Readers, Reads(r)
    PROVE  \/ /\ pc[r] = "runs" /\ pc'[r] = "list"
              /\ snap'[r].listed = {} /\ snap'[r].events = {}
              /\ snap'[r].unread \subseteq RunIds
              /\ \A id \in RunIds :
                    snap'[r].runs[id] = IF id \in snap'[r].unread THEN Nothing ELSE runs[id]
           \/ /\ pc[r] = "list" /\ pc'[r] = "open"
              /\ snap'[r] = [snap[r] EXCEPT !.listed = Newest(events)]
           \/ /\ pc[r] = "open" /\ pc'[r] = "open"
              /\ \E e \in snap[r].listed :
                    snap'[r] = [snap[r] EXCEPT !.listed = @ \ {e}, !.events = @ \cup {e}]
           \/ /\ pc[r] = "open" /\ pc'[r] = "open"
              /\ \E e \in snap[r].listed :
                    snap'[r] = [snap[r] EXCEPT !.listed = @ \ {e},
                                               !.unread = @ \cup ({e} \cap events)]
           \/ pc'[r] = "idle" /\ snap'[r] = EmptySnapshot
<1>1. CASE ReadRuns(r)
  <2>1. PICK lost \in SUBSET {id \in RunIds : runs[id] # Nothing} :
            snap' = [snap EXCEPT ![r] =
              [ runs   |-> [id \in RunIds |-> IF id \in lost THEN Nothing ELSE runs[id]],
                listed |-> {}, events |-> {}, unread |-> lost ]]
    BY <1>1 DEF ReadRuns
  <2>2. snap'[r] =
            [ runs   |-> [id \in RunIds |-> IF id \in lost THEN Nothing ELSE runs[id]],
              listed |-> {}, events |-> {}, unread |-> lost ]
    BY <2>1 DEF TypeOK
  <2>3. pc[r] = "runs" /\ pc'[r] = "list"
    BY <1>1, ReaderGoes DEF ReadRuns, ReaderSteps
  <2> QED
    BY <2>2, <2>3
<1>2. CASE ListEvents(r)
  BY <1>2, ReaderGoes DEF ListEvents, ReaderSteps, TypeOK
<1>3. CASE ReadEvent(r)
  BY <1>3 DEF ReadEvent, IsNext, TypeOK
<1>4. CASE SkipEvent(r)
  BY <1>4 DEF SkipEvent, TypeOK
<1>5. CASE EndSnapshot(r)
  BY <1>5, ReaderGoes DEF EndSnapshot, ReaderSteps, TypeOK
<1>6. CASE Drop(r)
  BY <1>6, ReaderGoes DEF Drop, ReaderSteps, TypeOK
<1> QED
  BY <1>1, <1>2, <1>3, <1>4, <1>5, <1>6 DEF Reads, Read

\* What was read of the runs is what was recorded last until the events are listed.
LEMMA HalfReadStep ==
    ASSUME HistoryInv, [HistoryNext]_historyVars
    PROVE  HalfReadInv'
<1>t. TypeOK /\ TypeInv /\ LockInv /\ LastInv /\ StoredInv /\ HalfReadInv
  BY DEF HistoryInv, IInv, TypeInv
<1>1. CASE Quiet
  BY <1>1, <1>t DEF Quiet, HalfReadInv, Brief
<1>2. ASSUME NEW h \in Hooks, Starts(h) PROVE HalfReadInv'
  BY <1>2, <1>t DEF Starts, HalfReadInv, Brief
<1>3. ASSUME NEW h \in Hooks, HalfWrites(h) \/ Records(h) PROVE HalfReadInv'
  <2>1. \A r \in Readers : pc[r] # "list"
    BY <1>3, <1>t, Alone DEF HalfWrites, Records
  <2>2. \A r \in Readers : pc'[r] = pc[r]
    BY <1>3, HooksAreNotReaders DEF HalfWrites, Records
  <2> QED
    BY <2>1, <2>2 DEF HalfReadInv
<1>4. CASE Loses
  BY <1>4, <1>t DEF Loses, HalfReadInv, Brief
<1>5. ASSUME NEW r \in Readers, Reads(r) PROVE HalfReadInv'
  <2>k. /\ UNCHANGED <<runs, last>>
        /\ \A q \in Readers : q # r => pc'[q] = pc[q] /\ snap'[q] = snap[q]
        /\ pc'[r] = "list" =>
              /\ pc[r] = "runs"
              /\ snap'[r].events = {} /\ snap'[r].unread \subseteq RunIds
              /\ \A id \in RunIds :
                    snap'[r].runs[id] = IF id \in snap'[r].unread THEN Nothing ELSE runs[id]
    BY <1>5, <1>t, ReadingKinds, ReaderMoves DEF Reads
  <2> SUFFICES ASSUME NEW q \in Readers, pc'[q] = "list"
               PROVE  /\ snap'[q].events = {}
                      /\ snap'[q].unread \subseteq RunIds
                      /\ \A id \in RunIds :
                            /\ snap'[q].runs[id] # Nothing =>
                                  last[id] = Brief(snap'[q].runs[id])
                            /\ runs[id] # Nothing =>
                                  snap'[q].runs[id] # Nothing \/ id \in snap'[q].unread
    BY <2>k DEF HalfReadInv, Brief
  <2>1. CASE q # r
    BY <1>t, <2>k, <2>1 DEF HalfReadInv, Brief
  <2>2. CASE q = r
    <3>1. \A id \in RunIds : runs[id] # Nothing => last[id] = Brief(runs[id])
      BY <1>t, <2>k, <2>2, ReaderAlone DEF StoredInv
    <3> QED
      BY <2>k, <2>2, <3>1 DEF Brief
  <2> QED
    BY <2>1, <2>2
<1> QED
  BY <1>1, <1>2, <1>3, <1>4, <1>5, Kinds DEF HistoryInv

\* Only an open snapshot has files to open, and it has opened none of them.
LEMMA WindowStep ==
    ASSUME HistoryInv, [HistoryNext]_historyVars
    PROVE  WindowInv'
<1>t. TypeOK /\ LockInv /\ HalfReadInv /\ WindowInv
  BY DEF HistoryInv, IInv, TypeInv
<1>1. CASE Quiet
  BY <1>1, <1>t DEF Quiet, WindowInv
<1>2. ASSUME NEW h \in Hooks, Starts(h) \/ HalfWrites(h) \/ Records(h) PROVE WindowInv'
  <2>1. snap' = snap /\ \A r \in Readers : pc'[r] = pc[r]
    BY <1>2, HooksAreNotReaders DEF Starts, HalfWrites, Records
  <2> QED
    BY <1>t, <2>1 DEF WindowInv
<1>3. CASE Loses
  BY <1>3, <1>t DEF Loses, WindowInv
<1>4. ASSUME NEW r \in Readers, Reads(r) PROVE WindowInv'
  <2>1. \A q \in Readers : q # r => pc'[q] = pc[q] /\ snap'[q] = snap[q]
    BY <1>4, <1>t, ReaderMoves DEF Reads
  <2>2. snap[r] \in SnapRecord
    BY <1>t DEF TypeOK
  <2>w. snap[r].listed \cap snap[r].events = {}
    BY <1>t DEF WindowInv
  <2> DEFINE Good == /\ pc'[r] # "open" => snap'[r].listed = {}
                     /\ snap'[r].listed \cap snap'[r].events = {}
  <2>3. Good
    <3>1. CASE snap'[r].listed = {}
      BY <3>1
    <3>2. CASE pc[r] = "list" /\ pc'[r] = "open"
                 /\ snap'[r] = [snap[r] EXCEPT !.listed = Newest(events)]
      <4>1. snap'[r].events = snap[r].events
        BY <2>2, <3>2 DEF SnapRecord
      <4> QED
        BY <1>t, <3>2, <4>1 DEF HalfReadInv
    <3>3. ASSUME NEW e \in snap[r].listed, pc'[r] = "open",
                 snap'[r] = [snap[r] EXCEPT !.listed = @ \ {e}, !.events = @ \cup {e}]
          PROVE  Good
      <4>1. /\ snap'[r].listed = snap[r].listed \ {e}
            /\ snap'[r].events = snap[r].events \cup {e}
        BY <2>2, <3>3 DEF SnapRecord
      <4> QED
        BY <2>w, <3>3, <4>1
    <3>4. ASSUME NEW e \in snap[r].listed, pc'[r] = "open",
                 snap'[r] = [snap[r] EXCEPT !.listed = @ \ {e},
                                            !.unread = @ \cup ({e} \cap events)]
          PROVE  Good
      <4>1. snap'[r].listed = snap[r].listed \ {e} /\ snap'[r].events = snap[r].events
        BY <2>2, <3>4 DEF SnapRecord
      <4> QED
        BY <2>w, <3>4, <4>1
    <3>5. EmptySnapshot.listed = {}
      BY DEF EmptySnapshot
    <3> QED
      BY <1>4, <1>t, <3>1, <3>2, <3>3, <3>4, <3>5, ReadingKinds
  <2> QED
    BY <1>t, <2>1, <2>3 DEF WindowInv
<1> QED
  BY <1>1, <1>2, <1>3, <1>4, Kinds DEF HistoryInv

\* With its history, the directory keeps the invariant.
THEOREM HistoryInvariance == HistorySpec => []HistoryInv
<1>1. HistoryInit => Init
  BY DEF HistoryInit
<1>2. [HistoryNext]_historyVars => [Next]_vars
  BY DEF HistoryNext, historyVars
<1>3. HistorySpec => Spec
  BY <1>1, <1>2, PTL DEF HistorySpec, Spec
<1>4. HistoryInit => LastInv /\ StoredInv /\ HalfReadInv /\ WindowInv
  BY HooksAreNotReaders
     DEF HistoryInit, Init, LastInv, StoredInv, HalfReadInv, WindowInv, EmptySnapshot, Procs
<1>5. HistoryInv /\ IInv' /\ [HistoryNext]_historyVars => HistoryInv'
  BY LastStep, StoredStep, HalfReadStep, WindowStep DEF HistoryInv
<1>6. HistorySpec => []IInv
  BY <1>3, Invariant, PTL
<1>7. IInv /\ HistoryInit => HistoryInv
  BY <1>4 DEF HistoryInv
<1> QED
  BY <1>5, <1>6, <1>7, PTL DEF HistorySpec

(* Each kind is a step of Devbox *)

\* As nobody reads, what readers were told stays.
LEMMA AnswersStay ==
    ASSUME UNCHANGED snap, \A r \in Readers : pc'[r] = "open" <=> pc[r] = "open"
    PROVE  Answers' = Answers
BY DEF Answers, Seen, NoAnswer, Brief

\* Every step is one of Devbox, or is not seen.
LEMMA StepIsDevbox ==
    ASSUME HistoryInv, [HistoryNext]_historyVars
    PROVE  AsDevbox!Next \/ UNCHANGED AsDevbox!vars
<1>t. /\ TypeOK /\ TypeInv /\ LockInv /\ LastInv /\ StoredInv
      /\ HalfReadInv /\ WindowInv
  BY DEF HistoryInv, IInv, TypeInv
<1>1. CASE Quiet
  <2>1. Answers' = Answers
    BY <1>1, AnswersStay DEF Quiet
  <2>2. StoredRuns' = StoredRuns
    BY <1>1 DEF Quiet, StoredRuns, Brief
  <2>3. AsDevbox!Expire
    BY <1>1, <2>1, <2>2 DEF Quiet, AsDevbox!Expire
  <2> QED
    BY <2>3 DEF AsDevbox!Next
<1>2. ASSUME NEW h \in Hooks, Starts(h) PROVE AsDevbox!Next
  <2>1. Answers' = Answers
    BY <1>2, AnswersStay DEF Starts
  <2>2. StoredRuns' = StoredRuns
    BY <1>2 DEF Starts, StoredRuns, Brief
  <2>3. AsDevbox!TakeTurn
    BY <1>2, <2>1, <2>2 DEF Starts, AsDevbox!TakeTurn
  <2> QED
    BY <2>3 DEF AsDevbox!Next
<1>3. ASSUME NEW h \in Hooks, HalfWrites(h) PROVE AsDevbox!Next
  <2> DEFINE id == event[h].run
  <2>1. Answers' = Answers
    BY <1>3, AnswersStay, HooksAreNotReaders DEF HalfWrites
  <2>2. \A other \in RunIds : last[other] # Nothing =>
            last[other].turn # turn
    BY <1>3, <1>t, LastTurns, Turns DEF HalfWrites, LastInv
  <2>3. StoredRuns' \subseteq StoredRuns
    <3> SUFFICES ASSUME NEW other \in RunIds, runs'[other] # Nothing,
                        last'[other] # Nothing, Brief(runs'[other]) = last'[other]
                 PROVE  /\ runs[other] # Nothing
                        /\ last[other] # Nothing /\ Brief(runs[other]) = last[other]
      BY DEF StoredRuns, Brief
    <3>1. last' = last
      BY <1>3 DEF HalfWrites
    <3>2. other # id
      BY <1>3, <2>2, <3>1 DEF HalfWrites, Brief
    <3> QED
      BY <1>3, <3>1, <3>2 DEF HalfWrites
  <2>4. AsDevbox!Expire
    BY <1>3, <2>1, <2>3 DEF HalfWrites, AsDevbox!Expire
  <2> QED
    BY <2>4 DEF AsDevbox!Next
<1>4. ASSUME NEW h \in Hooks, Records(h) PROVE AsDevbox!Next
  <2> DEFINE id == event[h].run
  <2>1. Answers' = Answers
    BY <1>4, AnswersStay, HooksAreNotReaders DEF Records
  <2>2. id \in RunIds /\ event[h].state \in States
    BY <1>4, <1>t DEF Records, TypeInv, HookHasEvent, Event
  <2>3. \A other \in RunIds : last[other] # Nothing => last[other].turn < turn
    BY <1>4, <1>t DEF Records, LastInv
  <2>4. \A other \in RunIds : other # id =>
            last'[other] = last[other] /\ runs'[other] = runs[other]
    BY <1>4, <1>t DEF Records, LastInv
  <2>5. \A other \in RunIds : other # id =>
            (other \in StoredRuns' <=> other \in StoredRuns)
    BY <2>4 DEF StoredRuns, Brief
  <2>6. StoredRuns \subseteq RunIds /\ StoredRuns' \subseteq RunIds
    BY DEF StoredRuns
  <2>7. StoredRuns' \in {StoredRuns \cup {id}, StoredRuns \ {id}}
    BY <2>2, <2>5, <2>6
  <2>8. now \in 0..MaxTime
    BY <1>t DEF TypeOK
  <2>9. AsDevbox!Record(id, event[h].state, now)
    BY <1>4, <2>1, <2>3, <2>7 DEF Records, AsDevbox!Record
  <2> QED
    BY <2>2, <2>8, <2>9 DEF AsDevbox!Next
<1>5. CASE Loses
  <2>1. Answers' = Answers
    BY <1>5, AnswersStay DEF Loses
  <2>2. StoredRuns' \subseteq StoredRuns
    BY <1>5 DEF Loses, StoredRuns, Brief
  <2>3. AsDevbox!Expire
    BY <1>5, <2>1, <2>2 DEF Loses, AsDevbox!Expire
  <2> QED
    BY <2>3 DEF AsDevbox!Next
<1>6. ASSUME NEW r \in Readers, Reads(r) PROVE AsDevbox!Next \/ UNCHANGED AsDevbox!vars
  <2>1. /\ UNCHANGED <<turn, last, events, runs>>
        /\ \A q \in Readers : q # r => pc'[q] = pc[q] /\ snap'[q] = snap[q]
    BY <1>6, <1>t, ReaderMoves DEF Reads
  <2>2. StoredRuns' = StoredRuns
    BY <2>1 DEF StoredRuns, Brief
  <2> DEFINE seen == IF pc'[r] = "open" THEN Seen(r)' ELSE NoAnswer
  <2>3. Answers' = [Answers EXCEPT ![r] = seen]
    <3>1. \A q \in Readers : q # r => Seen(q)' = Seen(q)
      BY <2>1 DEF Seen, Brief
    <3>2. NoAnswer' = NoAnswer
      BY DEF NoAnswer
    <3>3. Answers' = [q \in Readers |-> IF pc'[q] = "open" THEN Seen(q)' ELSE NoAnswer]
      BY <3>2 DEF Answers
    <3>4. \A q \in Readers : q # r => Answers'[q] = Answers[q]
      BY <2>1, <3>1, <3>3 DEF Answers
    <3>5. Answers'[r] = seen
      BY <3>3
    <3> QED
      BY <3>3, <3>4, <3>5 DEF Answers
  <2>4. NoAnswer = AsDevbox!NoAnswer
    BY DEF NoAnswer, AsDevbox!NoAnswer
  <2>r. snap[r] \in SnapRecord
    BY <1>t DEF TypeOK
  <2>5. CASE pc'[r] # "open"
    <3>1. AsDevbox!Dismiss(r)
      BY <2>1, <2>2, <2>3, <2>4, <2>5 DEF AsDevbox!Dismiss
    <3> QED
      BY <3>1 DEF AsDevbox!Next
  <2>6. CASE /\ pc[r] = "list" /\ pc'[r] = "open"
             /\ snap'[r] = [snap[r] EXCEPT !.listed = Newest(events)]
    <3> DEFINE ids == {id \in RunIds : snap[r].runs[id] # Nothing}
    <3>1. /\ \A id \in RunIds : snap[r].runs[id] # Nothing =>
                last[id] = Brief(snap[r].runs[id])
          /\ snap[r].events = {} /\ snap[r].unread \subseteq RunIds
      BY <2>6, <1>t DEF HalfReadInv
    <3>2. StoredRuns \subseteq ids \cup snap[r].unread
      BY <2>6, <1>t DEF HalfReadInv, StoredRuns
    <3>3. seen = [ runs   |-> [id \in RunIds |-> IF id \in ids THEN last[id] ELSE Nothing],
                   events |-> AsDevbox!Newest(events),
                   unread |-> snap[r].unread ]
      <4>1. seen = [ runs   |-> [id \in RunIds |->
                                    IF snap[r].runs[id] # Nothing
                                    THEN Brief(snap[r].runs[id]) ELSE Nothing],
                     events |-> Newest(events),
                     unread |-> snap[r].unread ]
        <5>1. /\ snap'[r].runs = snap[r].runs /\ snap'[r].unread = snap[r].unread
              /\ snap'[r].listed = Newest(events) /\ snap'[r].events = {}
          BY <2>6, <2>r, <3>1 DEF SnapRecord
        <5> QED
          BY <2>6, <5>1 DEF Seen, Brief
      <4>2. \A id \in RunIds :
               (IF snap[r].runs[id] # Nothing THEN Brief(snap[r].runs[id]) ELSE Nothing)
                   = (IF id \in ids THEN last[id] ELSE Nothing)
        BY <3>1
      <4>3. Newest(events) = AsDevbox!Newest(events)
        BY DEF Newest, AsDevbox!Newest, Cardinality, AsDevbox!Cardinality
      <4> QED
        BY <4>1, <4>2, <4>3
    <3>4. AsDevbox!Answer(r)
      <4>1. ids \in SUBSET RunIds /\ snap[r].unread \in SUBSET RunIds
        BY <3>1
      <4>2. Answers' = [Answers EXCEPT ![r] =
                [ runs   |-> [id \in RunIds |-> IF id \in ids THEN last[id] ELSE Nothing],
                  events |-> AsDevbox!Newest(events),
                  unread |-> snap[r].unread ]]
        BY <2>3, <3>3
      <4> HIDE DEF ids
      <4> QED
        BY <2>1, <2>2, <3>2, <4>1, <4>2 DEF AsDevbox!Answer
    <3> QED
      BY <3>4 DEF AsDevbox!Next
  <2>7. ASSUME pc[r] = "open", pc'[r] = "open", NEW e \in snap[r].listed,
               snap'[r] = [snap[r] EXCEPT !.listed = @ \ {e}, !.events = @ \cup {e}]
        PROVE  UNCHANGED AsDevbox!vars
    <3>1. Seen(r)' = Seen(r)
      <4>1. /\ snap'[r].runs = snap[r].runs /\ snap'[r].unread = snap[r].unread
            /\ snap'[r].listed = snap[r].listed \ {e}
            /\ snap'[r].events = snap[r].events \cup {e}
        BY <2>7, <2>r DEF SnapRecord
      <4>2. snap'[r].listed \cup snap'[r].events = snap[r].listed \cup snap[r].events
        BY <2>7, <4>1
      <4> QED
        BY <4>1, <4>2 DEF Seen, Brief
    <3>2. Answers' = Answers
      BY <2>3, <2>7, <3>1 DEF Answers
    <3> QED
      BY <2>1, <2>2, <3>2 DEF AsDevbox!vars
  <2>8. ASSUME pc[r] = "open", pc'[r] = "open", NEW e \in snap[r].listed,
               snap'[r] = [snap[r] EXCEPT !.listed = @ \ {e},
                                          !.unread = @ \cup ({e} \cap events)]
        PROVE  AsDevbox!Next
    <3>1. e \notin snap[r].events
      BY <1>t, <2>8 DEF WindowInv
    <3>2. Seen(r)' = [Seen(r) EXCEPT !.events = @ \ {e},
                                     !.unread = @ \cup ({e} \cap events)]
      <4>1. /\ Seen(r)'.events = Seen(r).events \ {e}
            /\ Seen(r)'.unread = Seen(r).unread \cup ({e} \cap events)
            /\ Seen(r)'.runs = Seen(r).runs
        <5>1. /\ snap'[r].runs = snap[r].runs /\ snap'[r].events = snap[r].events
              /\ snap'[r].listed = snap[r].listed \ {e}
              /\ snap'[r].unread = snap[r].unread \cup ({e} \cap events)
          BY <2>8, <2>r DEF SnapRecord
        <5>2. snap'[r].listed \cup snap'[r].events
                  = (snap[r].listed \cup snap[r].events) \ {e}
          BY <3>1, <5>1
        <5> QED
          BY <5>1, <5>2 DEF Seen, Brief
      <4> QED
        BY <4>1 DEF Seen
    <3>3. Answers[r] = Seen(r) /\ Answers'[r] = Seen(r)' /\ e \in Answers[r].events
      BY <2>8 DEF Answers, Seen
    <3>4. Answers' = [Answers EXCEPT ![r].events = @ \ {e},
                                     ![r].unread = @ \cup ({e} \cap events)]
      BY <2>3, <2>8, <3>2, <3>3 DEF Answers
    <3>5. AsDevbox!Miss(r)
      BY <2>1, <2>2, <3>3, <3>4 DEF AsDevbox!Miss
    <3> QED
      BY <3>5 DEF AsDevbox!Next
  <2> QED
    BY <1>6, <1>t, <2>5, <2>6, <2>7, <2>8, ReadingKinds
<1> QED
  BY <1>1, <1>2, <1>3, <1>4, <1>5, <1>6, Kinds DEF HistoryInv

\* The directory is a devbox: hooks and snapshots are as good as atomic, for any
\* number of them, and wherever they are killed.
THEOREM HooksAreAtomic == HistorySpec => IsDevbox
<1>1. HistoryInit => AsDevbox!Init
  <2> SUFFICES ASSUME HistoryInit PROVE AsDevbox!Init
    OBVIOUS
  <2>1. StoredRuns = {}
    BY DEF HistoryInit, Init, StoredRuns
  <2>2. Answers = [r \in Readers |-> AsDevbox!NoAnswer]
    BY HooksAreNotReaders
       DEF HistoryInit, Init, Answers, NoAnswer, AsDevbox!NoAnswer
  <2> QED
    BY <2>1, <2>2 DEF HistoryInit, Init, AsDevbox!Init
<1>2. HistoryInv /\ [HistoryNext]_historyVars => [AsDevbox!Next]_(AsDevbox!vars)
  BY StepIsDevbox
<1> QED
  BY <1>1, <1>2, HistoryInvariance, PTL DEF HistorySpec, IsDevbox, AsDevbox!Spec

=============================================================================
