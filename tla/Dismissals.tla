----------------------------- MODULE Dismissals -----------------------------
(***************************************************************************)
(* Dismissed rows of the web page (src/src/web/index.html). A page hides a *)
(* run's row until the run's next event: it remembers the stamp the run    *)
(* had, and hides the row while the run still has it. What it remembers is *)
(* a map that is written to the browser's store on every change, read back *)
(* when the page loads, and rid of runs that are gone on every message. A  *)
(* store that is full, blocked or garbled goes unnoticed: the page works   *)
(* on with its map, and loses it when it is loaded again.                  *)
(*                                                                         *)
(* The runs are those of one devbox. A stamp, `state@updated_at`, is the   *)
(* number of the run's event; events of one second with one state are one. *)
(* The server is what it publishes: the runs at the last poll the devbox   *)
(* answered, and none before its first poll.                               *)
(***************************************************************************)
EXTENDS Naturals

CONSTANTS
    Pages,         \* tabs of one browser
    Runs,          \* runs of the devbox
    Dismissible,   \* the stamps of the states ready and idle
    MaxEvents,     \* bound: events of a run
    MaxRestarts    \* bound: restarts of the server

ASSUME BoundAssumption == MaxEvents \in Nat /\ MaxRestarts \in Nat
ASSUME DismissibleAssumption == Dismissible \subseteq 1..MaxEvents

VARIABLES
    stamp,       \* the latest stamp of each run
    gone,        \* the runs whose record was pruned
    cached,      \* the runs of the last answered poll, in dashboard-cache.json
    published,   \* the view of the server
    state,       \* the view each page received last
    dismissed,   \* each page's map
    store,       \* localStorage
    restarts,    \* restarts so far
    hushed,      \* history variable: what the user dismissed on each page
    saved,       \* history variable: what of it was written to the store
    failed       \* history variable: the store failed when it was used last

storeVars == <<store, saved, failed>>
vars == <<stamp, gone, cached, published, state, dismissed, restarts, hushed, storeVars>>
devbox == <<stamp, gone>>
server == <<cached, published, restarts>>

\* No run, no entry: stamps start at 1.
None == 0
Map == [Runs -> 0..MaxEvents]
Nothing == [r \in Runs |-> None]
\* A page before its first message.
NoView == <<>>

Init ==
    /\ stamp = Nothing
    /\ gone = {}
    /\ cached = Nothing
    /\ published = Nothing
    /\ state = [p \in Pages |-> NoView]
    /\ dismissed = [p \in Pages |-> Nothing]
    /\ store = Nothing
    /\ restarts = 0
    /\ hushed = [p \in Pages |-> {}]
    /\ saved = {}
    /\ failed = FALSE

-----------------------------------------------------------------------------
(* The devbox and the server *)

\* An event of a run that was pruned makes a new record.
Event(r) ==
    /\ stamp[r] < MaxEvents
    /\ stamp' = [stamp EXCEPT ![r] = @ + 1]
    /\ gone' = gone \ {r}
    /\ UNCHANGED <<server, state, dismissed, hushed, storeVars>>

Reap(r) ==
    /\ stamp[r] # None
    /\ r \notin gone
    /\ gone' = gone \cup {r}
    /\ UNCHANGED <<stamp, server, state, dismissed, hushed, storeVars>>

Poll ==
    /\ cached' = [r \in Runs |-> IF r \in gone THEN None ELSE stamp[r]]
    /\ published' = cached'
    /\ UNCHANGED <<devbox, state, dismissed, restarts, hushed, storeVars>>

\* The devbox does not answer: its last known runs are shown.
PollUnanswered ==
    /\ published' = cached
    /\ UNCHANGED <<devbox, cached, state, dismissed, restarts, hushed, storeVars>>

\* The first view has the hosts and no runs.
Restart ==
    /\ restarts < MaxRestarts
    /\ restarts' = restarts + 1
    /\ published' = Nothing
    /\ UNCHANGED <<devbox, cached, state, dismissed, hushed, storeVars>>

-----------------------------------------------------------------------------
(* A page *)

IsAlive(r, view) == view[r] # None

\* (A mistake: nothing is dropped.)
KeepAll(map, view) == map
\* pruneDismissed: entries of runs that the view does not have are dropped.
Pruned(map, view) == [r \in Runs |-> IF IsAlive(r, view) THEN map[r] ELSE None]

\* writeDismissed. The store may refuse, and nobody is told.
Write(map, what) ==
    \/ store' = map /\ saved' = what /\ failed' = FALSE
    \/ failed' = TRUE /\ UNCHANGED <<store, saved>>

\* A message, or the first one after the stream was opened again.
Receive(p) ==
    /\ state' = [state EXCEPT ![p] = published]
    /\ LET map == Pruned(dismissed[p], published)
       IN  /\ dismissed' = [dismissed EXCEPT ![p] = map]
           /\ IF map # dismissed[p] THEN Write(map, hushed[p]) ELSE UNCHANGED storeVars
    /\ UNCHANGED <<devbox, server, hushed>>

HasRow(p, r) == state[p] # NoView /\ state[p][r] # None

\* (A mistake: a run is hidden whatever its stamp.)
IsDismissedForGood(p, r) == dismissed[p][r] # None
IsDismissed(p, r) == dismissed[p][r] = state[p][r]

\* A click on a row that is shown.
Dismiss(p, r) ==
    /\ HasRow(p, r)
    /\ state[p][r] \in Dismissible
    /\ ~IsDismissed(p, r)
    /\ hushed' = [hushed EXCEPT ![p] = @ \cup {<<r, state[p][r]>>}]
    /\ LET map == [dismissed[p] EXCEPT ![r] = state[p][r]]
       IN  dismissed' = [dismissed EXCEPT ![p] = map] /\ Write(map, hushed'[p])
    /\ UNCHANGED <<devbox, server, state>>

\* A click on "n dismissed": every row of the host is shown again.
RestoreHost(p) ==
    /\ \E r \in Runs : HasRow(p, r) /\ IsDismissed(p, r)
    /\ hushed' = [hushed EXCEPT ![p] = {d \in @ : ~HasRow(p, d[1])}]
    /\ LET map == [r \in Runs |-> IF HasRow(p, r) THEN None ELSE dismissed[p][r]]
       IN  dismissed' = [dismissed EXCEPT ![p] = map] /\ Write(map, hushed'[p])
    /\ UNCHANGED <<devbox, server, state>>

\* The page starts again with this map, and takes these rows for dismissed.
Load(p, map, what) ==
    /\ state' = [state EXCEPT ![p] = NoView]
    /\ dismissed' = [dismissed EXCEPT ![p] = map]
    /\ hushed' = [hushed EXCEPT ![p] = what]
    /\ UNCHANGED <<devbox, server, store, saved>>

\* (A mistake: the map is not read back.)
ReloadForgetting(p) == Load(p, Nothing, saved) /\ failed' = FALSE

Reload(p) == Load(p, store, saved) /\ failed' = FALSE

\* readDismissed finds no map in the store: nothing is dismissed.
ReloadUnread(p) == Load(p, Nothing, {}) /\ failed' = TRUE

-----------------------------------------------------------------------------

Next ==
    \/ \E r \in Runs : Event(r) \/ Reap(r)
    \/ Poll
    \/ PollUnanswered
    \/ Restart
    \/ \E p \in Pages :
          \/ Receive(p)
          \/ \E r \in Runs : Dismiss(p, r)
          \/ RestoreHost(p)
          \/ Reload(p)
          \/ ReloadUnread(p)

Spec == Init /\ [][Next]_vars

-----------------------------------------------------------------------------

\* Every variable has its type.
TypeOK ==
    /\ stamp \in Map
    /\ gone \subseteq Runs
    /\ cached \in Map
    /\ published \in Map
    /\ state \in [Pages -> Map \cup {NoView}]
    /\ dismissed \in [Pages -> Map]
    /\ store \in Map
    /\ restarts \in 0..MaxRestarts
    /\ hushed \in [Pages -> SUBSET (Runs \X (1..MaxEvents))]
    /\ saved \subseteq Runs \X (1..MaxEvents)
    /\ failed \in BOOLEAN

\* index.html: "the row comes back the moment that stamp no longer matches, which
\* is to say on its next event. The map survives a reload". However messages,
\* reloads, restores and reaped runs interleave, a dismissed row stays hidden as
\* long as its run has the stamp it was dismissed at. After a reload the dismissed
\* rows are those of the last write that the store took ("a full or blocked store only
\* costs the dismissals their persistence"), and none if the store cannot be read.
HiddenUntilNews ==
    \A p \in Pages : \A r \in Runs :
        HasRow(p, r) /\ <<r, state[p][r]>> \in hushed[p] => IsDismissed(p, r)

\* The same as long as the server is not restarted, for one page.
HiddenWhileServed == restarts = 0 => HiddenUntilNews

\* With one page, nothing else is hidden: no news stays behind an old dismissal, and a
\* restored row disappears again only when the page is loaded again after the store
\* refused every write since.
OnlyDismissedIsHidden ==
    \A p \in Pages : \A r \in Runs :
        HasRow(p, r) /\ IsDismissed(p, r) => <<r, state[p][r]>> \in hushed[p]

\* index.html: pruneDismissed keeps the store from growing "for the life of the
\* browser profile". With one page, the store is what the page remembers, unless it
\* failed when it was used last; after a message the page remembers no run that is gone.
StoreIsPruned ==
    \A p \in Pages :
        /\ ~failed => store = dismissed[p]
        /\ state[p] # NoView =>
              \A r \in Runs : dismissed[p][r] # None => IsAlive(r, state[p])

-----------------------------------------------------------------------------
(* Why a single page keeps its promises: an inductive invariant *)

\* One tab is open.
OnePage == \A p, q \in Pages : p = q

\* What the page remembers was dismissed there, and what the store has was saved.
MemoryInv ==
    \A p \in Pages :
        /\ ~failed => store = dismissed[p]
        /\ \A r \in Runs :
              /\ dismissed[p][r] # None =>
                    /\ <<r, dismissed[p][r]>> \in hushed[p]
                    /\ state[p] # NoView => IsAlive(r, state[p])
              /\ store[r] # None => <<r, store[r]>> \in saved

\* The page shows, or the user has dismissed there, the run at this stamp.
Sighted(p, r, n) ==
    (HasRow(p, r) /\ state[p][r] = n) \/ <<r, n>> \in hushed[p] \cup saved

\* Views only get newer: a sighted stamp is none of the future, and a run that the
\* server no longer has is gone, or comes back with a new stamp.
PastInv ==
    \A p \in Pages : \A r \in Runs : \A n \in 1..MaxEvents :
        Sighted(p, r, n) =>
            /\ n <= stamp[r]
            /\ HasRow(p, r) => n <= state[p][r]
            /\ cached[r] # None => n <= cached[r]
            /\ cached[r] = None => r \in gone \/ n < stamp[r]

\* No view, present or future, has the run at this stamp.
IsOver(p, r, n) ==
    /\ HasRow(p, r) => n < state[p][r]
    /\ cached[r] # None => n < cached[r]
    /\ r \in gone \/ n < stamp[r]

\* A dismissal is remembered until its stamp is over, by the page and by the store.
HushedInv ==
    \A p \in Pages : \A r \in Runs : \A n \in 1..MaxEvents :
        /\ <<r, n>> \in hushed[p] => dismissed[p][r] = n \/ IsOver(p, r, n)
        /\ <<r, n>> \in saved => store[r] = n \/ IsOver(p, r, n)

\* What the server publishes until it is restarted.
ServerInv ==
    /\ published = cached
    /\ \A r \in Runs : cached[r] <= stamp[r]

IInv ==
    /\ TypeOK
    /\ MemoryInv
    /\ restarts = 0 => ServerInv /\ PastInv /\ HushedInv
=============================================================================
