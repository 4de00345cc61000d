------------------------------ MODULE Notifier ------------------------------
(***************************************************************************)
(* The pollers on the laptop and the cache they share                      *)
(* (src/src/dashboard.rs, the loops of command_dashboard in main.rs and    *)
(* poll_once in server.rs). A poller is a `dashboard` or a `serve` process *)
(* in a loop:                                                              *)
(*                                                                         *)
(*   fetch_all             one thread per host asks it for a snapshot      *)
(*   process_notifications load dashboard-cache.json, notify for what was  *)
(*                         not seen before, save it                        *)
(*   with_last_known       load the cache again and show, for a host that  *)
(*                         did not answer, the snapshot saved last         *)
(*                                                                         *)
(* Nothing locks the cache: load and save are separate file operations. A  *)
(* cache that cannot be read or parsed is an empty one.                    *)
(*                                                                         *)
(* A devbox is what its snapshots show of it (module Storage): a history   *)
(* of updates to its runs, of which some are in the event log. A heartbeat *)
(* is not, nor the update of a hook that died before it wrote the event.   *)
(* Snapshots are coherent (Storage's SnapshotIsCoherent), so a snapshot is *)
(* the number of updates it was taken after; files that the devbox could   *)
(* not read are missing from it.                                           *)
(***************************************************************************)
EXTENDS Integers, Sequences, FiniteSets, SequencesExt

CONSTANTS
    Hosts,        \* numbers, in the order of the host names
    Pollers,      \* poller processes
    Quiet,        \* the pollers with notifications off
    RunIds,       \* runs of a host
    RunStates,    \* states of a run
    EventLimit,   \* events a snapshot holds at most (200)
    SeenLimit,    \* event ids the cache keeps at most (5000)
    MaxUpdates,   \* bound: updates on all hosts
    MaxFailures   \* bound: crashes of pollers and files that fail

ASSUME HostAssumption == Hosts \subseteq Nat /\ IsFiniteSet(Hosts)
ASSUME LimitAssumption ==
    EventLimit \in Nat /\ SeenLimit \in Nat /\ MaxUpdates \in Nat /\ MaxFailures \in Nat
ASSUME PollerAssumption == Quiet \subseteq Pollers

VARIABLES
    history,    \* each host's updates
    cache,      \* dashboard-cache.json
    pc,         \* where each poller is
    fetched,    \* what each poller got from each host this round
    memory,     \* each poller's copy of the cache
    todo,       \* the events of its snapshots a poller has not gone through
    shown,      \* what each poller shows of each host
    failures,   \* failures so far
    notified,   \* history variable: the events some poller notified
    repeated,   \* history variable: the events that were notified again
    observed,   \* history variable: the hosts some completed round observed
    baseline,   \* history variable: the events shown before a host was observed
    missed,     \* history variable: the events marked without the record of their run
    forgotten,  \* history variable: ids that were marked as seen and lost
    blind       \* history variable: the pollers that could not read the cache

vars == <<history, cache, pc, fetched, memory, todo, shown, failures, notified,
          repeated, observed, baseline, missed, forgotten, blind>>
ghostVars == <<notified, repeated, observed, baseline, missed, forgotten, blind>>

Alerts == {"ready", "approval", "error"}
Update == [run : RunIds, state : RunStates, logged : BOOLEAN]
EventId == Hosts \X (Nat \ {0})
Cache == [initialized : SUBSET Hosts, seen : Seq(EventId), last : [Hosts -> Nat]]

\* What a thread of fetch_all has brought back, besides a snapshot.
Pending == -2
Unreachable == -1

\* No snapshot yet, or one of a host where nothing happened yet: it shows no run.
NoSnapshot == 0
NothingShown == [h \in Hosts |-> NoSnapshot]
NobodyAsked == [h \in Hosts |-> Pending]

EmptyCache == [initialized |-> {}, seen |-> <<>>, last |-> NothingShown]

Init ==
    /\ history = [h \in Hosts |-> <<>>]
    /\ cache = EmptyCache
    /\ pc = [p \in Pollers |-> "idle"]
    /\ fetched = [p \in Pollers |-> NobodyAsked]
    /\ memory = [p \in Pollers |-> EmptyCache]
    /\ todo = [p \in Pollers |-> {}]
    /\ shown = [p \in Pollers |-> NothingShown]
    /\ failures = 0
    /\ notified = {}
    /\ repeated = {}
    /\ observed = {}
    /\ baseline = {}
    /\ missed = {}
    /\ forgotten = {}
    /\ blind = {}

-----------------------------------------------------------------------------
(* The devboxes *)

Total == FoldFunctionOnSet(LAMBDA a, b : a + b, 0, [h \in Hosts |-> Len(history[h])], Hosts)

\* A hook updates a run; `logged` when it gets to write the event too.
Record(h) ==
    /\ Total < MaxUpdates
    /\ \E u \in Update : history' = [history EXCEPT ![h] = Append(@, u)]
    /\ UNCHANGED <<cache, pc, fetched, memory, todo, shown, failures, ghostVars>>

\* The runs and events of the snapshot of host h taken after n updates.
CurrentState(h, n, r) ==
    LET of == {i \in 1..n : history[h][i].run = r}
    IN  IF of = {} THEN "none" ELSE history[h][Max(of)].state

Logged(h, n) == {i \in 1..n : history[h][i].logged}
InWindow(h, n, i) ==
    /\ i \in Logged(h, n)
    /\ Cardinality({j \in Logged(h, n) : j > i}) < EventLimit

-----------------------------------------------------------------------------
(* A round of a poller *)

StartPoll(p) ==
    /\ pc[p] = "idle"
    /\ pc' = [pc EXCEPT ![p] = "fetch"]
    /\ UNCHANGED <<history, cache, fetched, memory, todo, shown, failures, ghostVars>>

\* A host answers with the snapshot it takes now.
Fetch(p, h) ==
    /\ pc[p] = "fetch"
    /\ fetched[p][h] = Pending
    /\ fetched' = [fetched EXCEPT ![p][h] = Len(history[h])]
    /\ UNCHANGED <<history, cache, pc, memory, todo, shown, failures, ghostVars>>

\* SSH fails, times out, or the answer is no snapshot.
FetchFails(p, h) ==
    /\ pc[p] = "fetch"
    /\ fetched[p][h] = Pending
    /\ fetched' = [fetched EXCEPT ![p][h] = Unreachable]
    /\ UNCHANGED <<history, cache, pc, memory, todo, shown, failures, ghostVars>>

Answered(p) == {h \in Hosts : fetched[p][h] >= 0}

\* The events of the snapshots: a pair of the host and the update's number.
EventsOf(p) ==
    {id \in Answered(p) \X (1..MaxUpdates) : InWindow(id[1], fetched[p][id[1]], id[2])}

\* Host by host, in the order of their names; oldest first.
Before(x, y) == x[1] < y[1] \/ (x[1] = y[1] /\ x[2] <= y[2])

AllAnswered(p) == pc[p] = "fetch" /\ \A h \in Hosts : fetched[p][h] # Pending

LoadCache(p) ==
    /\ AllAnswered(p)
    /\ memory' = [memory EXCEPT ![p] = cache]
    /\ todo' = [todo EXCEPT ![p] = EventsOf(p)]
    /\ pc' = [pc EXCEPT ![p] = "notify"]
    /\ UNCHANGED <<history, cache, fetched, shown, failures, ghostVars>>

\* The cache cannot be read, or its content is no cache: every host is a new one.
LoadFails(p) ==
    /\ AllAnswered(p)
    /\ failures < MaxFailures
    /\ failures' = failures + 1
    /\ memory' = [memory EXCEPT ![p] = EmptyCache]
    /\ todo' = [todo EXCEPT ![p] = EventsOf(p)]
    /\ pc' = [pc EXCEPT ![p] = "notify"]
    /\ blind' = blind \cup {p}
    /\ UNCHANGED <<history, cache, fetched, shown, notified, repeated, observed,
                   baseline, missed, forgotten>>

IsSeen(id, seen) == id \in Range(seen)

\* An unseen event is worth a notification when it is an alert its run still
\* stands at.
IsAlert(p, id) ==
    LET e == history[id[1]][id[2]]
    IN  /\ e.state \in Alerts
        /\ CurrentState(id[1], fetched[p][id[1]], e.run) = e.state

\* The next event of the snapshots.
IsNext(p, id) ==
    /\ pc[p] = "notify"
    /\ id \in todo[p]
    /\ \A other \in todo[p] : Before(id, other)

\* Unless it was seen, mark it; what a new host shows is its baseline.
Mark(p, id) ==
    /\ memory' = IF IsSeen(id, memory[p].seen) THEN memory
                 ELSE [memory EXCEPT ![p].seen = Append(@, id)]
    /\ baseline' = IF id[1] \in observed /\ p \notin blind THEN baseline
                   ELSE baseline \cup ({id} \ notified)
    /\ todo' = [todo EXCEPT ![p] = @ \ {id}]
    /\ UNCHANGED <<history, cache, pc, fetched, shown, observed, forgotten, blind>>

\* On a host that was observed before, an unseen event is notified.
ProcessEvent(p) ==
    /\ \E id \in todo[p] :
          /\ IsNext(p, id)
          /\ Mark(p, id)
          /\ LET tell == /\ ~IsSeen(id, memory[p].seen)
                         /\ id[1] \in memory[p].initialized
                         /\ IsAlert(p, id)
                         /\ p \notin Quiet
             IN  /\ notified' = IF tell THEN notified \cup {id} ELSE notified
                 /\ repeated' = IF tell THEN repeated \cup ({id} \cap notified)
                                        ELSE repeated
    /\ UNCHANGED <<failures, missed>>

\* The devbox could not read the record of the event's run, so that the snapshot
\* lacks it: the event is marked, and not notified. (Which files a snapshot lacks
\* makes no difference before they are missed.)
RecordIsMissing(p) ==
    /\ failures < MaxFailures
    /\ failures' = failures + 1
    /\ \E id \in todo[p] :
          /\ IsNext(p, id)
          /\ Mark(p, id)
          /\ missed' = missed \cup {id}
    /\ UNCHANGED <<notified, repeated>>

\* The devbox could not read the event itself.
EventIsMissing(p) ==
    /\ failures < MaxFailures
    /\ failures' = failures + 1
    /\ \E id \in todo[p] :
          /\ IsNext(p, id)
          /\ todo' = [todo EXCEPT ![p] = @ \ {id}]
    /\ UNCHANGED <<history, cache, pc, fetched, memory, shown, ghostVars>>

\* The oldest ids go when there are more than SeenLimit.
Excess(seen) == IF Len(seen) > SeenLimit THEN Len(seen) - SeenLimit ELSE 0
Drained(seen) == Range(SubSeq(seen, 1, Excess(seen)))
\* (A mistake: the newest ids go.)
TrimmedAtTheEnd(seen) == SubSeq(seen, 1, Len(seen) - Excess(seen))
Trimmed(seen) == SubSeq(seen, Excess(seen) + 1, Len(seen))

\* (A mistake: a host that did not answer counts as observed.)
InitializedAll(p) == Hosts
\* (A mistake: what was observed this round is not remembered.)
InitializedBefore(p) == memory[p].initialized
\* The hosts that have had their baseline.
Initialized(p) == memory[p].initialized \cup Answered(p)

\* (A mistake: only this round's snapshots are kept.)
LatestOnly(p, last) ==
    [h \in Hosts |-> IF h \in Answered(p) THEN fetched[p][h] ELSE NoSnapshot]
\* The snapshots of this round over those of the cache as it was loaded.
Latest(p, last) == [h \in Hosts |-> IF h \in Answered(p) THEN fetched[p][h] ELSE last[h]]

Save(p) ==
    /\ pc[p] = "notify"
    /\ todo[p] = {}
    /\ cache' = [ initialized |-> Initialized(p),
                  seen        |-> Trimmed(memory[p].seen),
                  last        |-> Latest(p, memory[p].last) ]
    /\ observed' = IF p \in blind THEN Answered(p) ELSE observed \cup Answered(p)
    /\ forgotten' = forgotten \cup Drained(memory[p].seen)
                              \cup (Range(cache.seen) \ Range(memory[p].seen))
    /\ memory' = [memory EXCEPT ![p] = EmptyCache]
    /\ pc' = [pc EXCEPT ![p] = "show"]
    /\ UNCHANGED <<history, fetched, todo, shown, failures, notified, repeated,
                   baseline, missed, blind>>

\* with_last_known, then the table or the page is rendered from it.
ShowOver(p, last) ==
    /\ pc[p] = "show"
    /\ shown' = [shown EXCEPT ![p] = Latest(p, last)]
    /\ fetched' = [fetched EXCEPT ![p] = NobodyAsked]
    /\ blind' = blind \ {p}
    /\ pc' = [pc EXCEPT ![p] = "idle"]
    /\ UNCHANGED <<history, cache, memory, todo, notified, repeated, observed, baseline,
                   missed, forgotten>>

Show(p) == ShowOver(p, cache.last) /\ UNCHANGED failures

\* The cache just saved cannot be read: a host that did not answer is not shown.
ShowFails(p) ==
    /\ failures < MaxFailures
    /\ failures' = failures + 1
    /\ ShowOver(p, NothingShown)

\* The round ends early: what only the poller's memory holds is lost.
Lose(p) ==
    /\ forgotten' = forgotten \cup (Range(memory[p].seen) \ Range(cache.seen))
    /\ memory' = [memory EXCEPT ![p] = EmptyCache]
    /\ todo' = [todo EXCEPT ![p] = {}]
    /\ fetched' = [fetched EXCEPT ![p] = NobodyAsked]
    /\ failures' = failures + 1
    /\ blind' = blind \ {p}
    /\ pc' = [pc EXCEPT ![p] = "idle"]
    /\ UNCHANGED <<history, cache, notified, repeated, observed, baseline, missed>>

\* The cache cannot be written: `serve` skips the rest of the round and shows
\* what it showed.
SaveFails(p) ==
    /\ pc[p] = "notify"
    /\ todo[p] = {}
    /\ failures < MaxFailures
    /\ Lose(p)
    /\ UNCHANGED shown

\* The poller is killed and started again (`dashboard` also exits when the cache
\* cannot be written).
Crash(p) ==
    /\ failures < MaxFailures
    /\ Lose(p)
    /\ shown' = [shown EXCEPT ![p] = NothingShown]

-----------------------------------------------------------------------------

Poll(p) ==
    \/ StartPoll(p)
    \/ LoadCache(p)
    \/ ProcessEvent(p)
    \/ Save(p)
    \/ Show(p)

Next ==
    \/ \E h \in Hosts : Record(h)
    \/ \E p \in Pollers :
          \/ Poll(p)
          \/ \E h \in Hosts : Fetch(p, h) \/ FetchFails(p, h)
          \/ LoadFails(p)
          \/ RecordIsMissing(p)
          \/ EventIsMissing(p)
          \/ SaveFails(p)
          \/ ShowFails(p)
          \/ Crash(p)

Spec == Init /\ [][Next]_vars

\* A poller keeps polling, every fetch ends (it has a timeout), and no host is
\* unreachable for ever.
Fairness ==
    \A p \in Pollers :
        /\ WF_vars(Poll(p))
        /\ \A h \in Hosts :
              /\ WF_vars(Fetch(p, h) \/ FetchFails(p, h))
              /\ SF_vars(Fetch(p, h))

FairSpec == Spec /\ Fairness

-----------------------------------------------------------------------------
(* Types *)

\* Every variable has its type.
TypeOK ==
    /\ history \in [Hosts -> Seq(Update)]
    /\ cache \in Cache
    /\ pc \in [Pollers -> {"idle", "fetch", "notify", "show"}]
    /\ fetched \in [Pollers -> [Hosts -> Nat \cup {Pending, Unreachable}]]
    /\ memory \in [Pollers -> Cache]
    /\ todo \in [Pollers -> SUBSET EventId]
    /\ shown \in [Pollers -> [Hosts -> Nat]]
    /\ failures \in 0..MaxFailures
    /\ notified \subseteq EventId
    /\ repeated \subseteq notified
    /\ observed \subseteq Hosts
    /\ baseline \subseteq EventId
    /\ missed \subseteq EventId
    /\ forgotten \subseteq EventId
    /\ blind \subseteq Pollers

-----------------------------------------------------------------------------
(* Safety *)

\* README, "Dashboard": "an event notifies once".
NotifiesOnce == repeated = {}

\* What a single poller guarantees: an event notifies again only when the cache
\* lost its id, because the list of seen ids is trimmed, because a round ended before
\* it was saved, or because a cache that could not be read was saved over.
RepeatsOnlyForgotten == repeated \subseteq forgotten

\* The first successful observation of a host establishes a baseline: what it
\* shows is old and notifies never, again unless the cache lost the ids. A cache that
\* cannot be read makes every host a new one.
BaselineIsSilent == notified \cap baseline \subseteq forgotten

\* What is shown of a host never goes back to an older snapshot, also when the host
\* stops answering, when rounds fail and when hosts take turns at failing. It can only
\* disappear: when the poller starts again, or when a host that did not answer is
\* looked up in a cache that cannot be read.
DisplayNeverGoesBack ==
    [][\A p \in Pollers : \A h \in Hosts :
          shown'[p][h] < shown[p][h] =>
              /\ shown'[p][h] = NoSnapshot
              /\ failures' # failures \/ p \in blind
              /\ h \in Answered(p) => shown'[p] = NothingShown]_vars

-----------------------------------------------------------------------------
(* Why a single poller is safe: an inductive invariant *)

\* Only one `dashboard` or `serve` runs.
OnePoller == \A p, q \in Pollers : p = q

\* Between loading and saving, the poller's copy is the cache and more; a cache that
\* could not be read is an empty one.
CopyInv ==
    \A p \in Pollers :
        /\ pc[p] = "notify" /\ p \notin blind =>
              /\ Range(cache.seen) \subseteq Range(memory[p].seen)
              /\ memory[p].initialized = cache.initialized
              /\ memory[p].last = cache.last
        /\ pc[p] = "notify" /\ p \in blind =>
              memory[p].initialized = {} /\ memory[p].last = NothingShown
        /\ pc[p] # "notify" => memory[p].seen = <<>>
        /\ p \in blind => pc[p] \in {"notify", "show"}

\* Whatever was notified, or shown first, is marked as seen or was forgotten.
MarkInv ==
    \A p \in Pollers :
        notified \cup baseline
            \subseteq Range(cache.seen) \cup Range(memory[p].seen) \cup forgotten

\* The cache remembers the hosts observed since it was lost.
ObservedInv == cache.initialized = observed

\* What is shown is saved, except for a moment after the cache was lost; what is saved
\* is old, what is fetched is newer.
AgeInv ==
    \A p \in Pollers : \A h \in Hosts :
        /\ \/ shown[p][h] <= cache.last[h]
           \/ pc[p] = "show" /\ p \in blind /\ h \notin Answered(p)
                 /\ cache.last[h] = NoSnapshot
        /\ cache.last[h] <= Len(history[h])
        /\ fetched[p][h] >= 0 =>
              cache.last[h] <= fetched[p][h] /\ fetched[p][h] <= Len(history[h])
        /\ pc[p] = "show" => Latest(p, cache.last)[h] = cache.last[h]

IInv ==
    /\ TypeOK
    /\ CopyInv
    /\ MarkInv
    /\ ObservedInv
    /\ AgeInv
    /\ RepeatsOnlyForgotten
    /\ BaselineIsSilent

-----------------------------------------------------------------------------
(* Liveness *)

\* An event that should reach the user: an alert of a host observed before, that
\* is still its run's last update and still among the newest EventLimit events, and
\* that was not looked at without its record.
Stands(h, i) ==
    /\ i \in DOMAIN history[h]
    /\ history[h][i].state \in Alerts
    /\ <<h, i>> \notin baseline \cup missed
    /\ InWindow(h, Len(history[h]), i)
    /\ \A j \in i + 1 .. Len(history[h]) : history[h][j].run # history[h][i].run

\* README: "sends a desktop notification when a session is ready, needs approval,
\* or fails". An event that stands long enough is notified, unless the cache or the
\* record of its run could not be read when it was first seen.
AlertIsNotified ==
    \A h \in Hosts : \A i \in 1..MaxUpdates :
        Stands(h, i) ~> (<<h, i>> \in notified \/ ~Stands(h, i))
=============================================================================
