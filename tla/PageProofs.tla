----------------------------- MODULE PageProofs -----------------------------
(***************************************************************************)
(* Proofs about the parts of the web page.                                 *)
(*                                                                         *)
(* Dismissals, for every number of runs, events and restarts, as long as   *)
(* one tab is open: a row stays hidden until news while the server is up,  *)
(* nothing else is hidden, and the store is what is hidden unless it fails.*)
(*                                                                         *)
(* Editing, Viewer, WakeLock and Focus each have an inductive invariant    *)
(* here, and what they promise follows from it.                            *)
(***************************************************************************)
EXTENDS Dismissals, Editing, Viewer, WakeLock, Focus, Induction, TLAPS

-----------------------------------------------------------------------------
(* Dismissals: types *)

\* Pruning a map gives a map.
LEMMA PrunedIsMap ==
    ASSUME NEW map \in Map, NEW view \in Map
    PROVE  Pruned(map, view) \in Map
BY BoundAssumption DEF Map, Pruned, None

\* The initial state is well typed.
LEMMA InitType == Init => TypeOK
<1>1. Nothing \in Map
  BY BoundAssumption DEF Map, Nothing, None
<1>2. 0 \in 0..MaxRestarts
  BY BoundAssumption
<1> QED
  BY <1>1, <1>2 DEF Init, TypeOK

\* Every step of the system keeps the types.
LEMMA NextType == TypeOK /\ [Next]_vars => TypeOK'
<1> SUFFICES ASSUME TypeOK, [Next]_vars
             PROVE  TypeOK'
  OBVIOUS
<1> USE BoundAssumption
<1>1. ASSUME NEW r \in Runs, Event(r)
      PROVE  TypeOK'
  BY <1>1 DEF Event, server, storeVars, TypeOK, Map
<1>2. ASSUME NEW r \in Runs, Reap(r)
      PROVE  TypeOK'
  BY <1>2 DEF Reap, server, storeVars, TypeOK
<1>3. CASE Poll
  BY <1>3 DEF Poll, devbox, storeVars, TypeOK, Map, None
<1>4. CASE PollUnanswered
  BY <1>4 DEF PollUnanswered, devbox, storeVars, TypeOK
<1>5. CASE Restart
  BY <1>5 DEF Restart, devbox, storeVars, TypeOK, Map, Nothing, None
<1>6. ASSUME NEW p \in Pages, Receive(p)
      PROVE  TypeOK'
  <2>1. Pruned(dismissed[p], published) \in Map
    BY PrunedIsMap DEF TypeOK
  <2> QED
    BY <1>6, <2>1 DEF Receive, Write, devbox, server, storeVars, TypeOK
<1>7. ASSUME NEW p \in Pages, NEW r \in Runs, Dismiss(p, r)
      PROVE  TypeOK'
  <2>1. state[p] \in Map /\ state[p][r] \in 1..MaxEvents
    BY <1>7 DEF Dismiss, HasRow, TypeOK, Map, None
  <2>2. [dismissed[p] EXCEPT ![r] = state[p][r]] \in Map
    BY <2>1 DEF TypeOK, Map
  <2>3. hushed[p] \cup {<<r, state[p][r]>>} \in SUBSET (Runs \X (1..MaxEvents))
    BY <2>1 DEF TypeOK
  <2> QED
    BY <1>7, <2>2, <2>3 DEF Dismiss, Write, devbox, server, storeVars, TypeOK
<1>8. ASSUME NEW p \in Pages, RestoreHost(p)
      PROVE  TypeOK'
  <2>1. [r \in Runs |-> IF HasRow(p, r) THEN None ELSE dismissed[p][r]] \in Map
    BY DEF TypeOK, Map, None
  <2>2. {d \in hushed[p] : ~HasRow(p, d[1])} \in SUBSET (Runs \X (1..MaxEvents))
    BY DEF TypeOK
  <2> QED
    BY <1>8, <2>1, <2>2 DEF RestoreHost, Write, devbox, server, storeVars, TypeOK
<1>9. ASSUME NEW p \in Pages, Reload(p) \/ ReloadUnread(p)
      PROVE  TypeOK'
  <2>1. Nothing \in Map
    BY DEF Nothing, Map, None
  <2> QED
    BY <1>9, <2>1 DEF Reload, ReloadUnread, Load, devbox, server, TypeOK
<1>10. CASE UNCHANGED vars
  BY <1>10 DEF vars, storeVars, TypeOK
<1> QED
  BY <1>1, <1>2, <1>3, <1>4, <1>5, <1>6, <1>7, <1>8, <1>9, <1>10 DEF Next

-----------------------------------------------------------------------------
(* The effects of a page's steps *)

\* What a page's step does to the store: it is written, it refuses, or it is not used.
StoreEffect(p) ==
    \/ store' = dismissed'[p] /\ saved' = hushed'[p] /\ failed' = FALSE
    \/ failed' = TRUE /\ UNCHANGED <<store, saved>>
    \/ UNCHANGED storeVars /\ dismissed'[p] = dismissed[p]

\* What a message changes.
LEMMA ReceiveEffect ==
    ASSUME TypeOK, NEW p \in Pages, Receive(p)
    PROVE  /\ state'[p] = published
           /\ \A r \in Runs :
                 dismissed'[p][r] = IF published[r] # None THEN dismissed[p][r] ELSE None
           /\ StoreEffect(p)
           /\ UNCHANGED <<stamp, gone, cached, published, restarts, hushed>>
<1>1. /\ state'[p] = published
      /\ dismissed'[p] = Pruned(dismissed[p], published)
      /\ UNCHANGED <<stamp, gone, cached, published, restarts, hushed>>
  BY DEF Receive, TypeOK, devbox, server
<1>2. StoreEffect(p)
  BY <1>1 DEF Receive, Write, StoreEffect
<1> QED
  BY <1>1, <1>2 DEF Pruned, IsAlive

\* What dismissing a row changes.
LEMMA DismissEffect ==
    ASSUME TypeOK, NEW p \in Pages, NEW r \in Runs, Dismiss(p, r)
    PROVE  /\ HasRow(p, r)
           /\ state[p][r] \in 1..MaxEvents
           /\ dismissed[p][r] # state[p][r]
           /\ dismissed'[p][r] = state[p][r]
           /\ \A s \in Runs \ {r} : dismissed'[p][s] = dismissed[p][s]
           /\ StoreEffect(p)
           /\ hushed'[p] = hushed[p] \cup {<<r, state[p][r]>>}
           /\ UNCHANGED <<stamp, gone, cached, published, restarts, state>>
<1>1. HasRow(p, r) /\ dismissed[p][r] # state[p][r]
  BY DEF Dismiss, IsDismissed
<1>2. state[p][r] \in 1..MaxEvents
  BY <1>1, BoundAssumption DEF HasRow, TypeOK, Map, None
<1>3. dismissed'[p] = [dismissed[p] EXCEPT ![r] = state[p][r]] /\ StoreEffect(p)
  BY DEF Dismiss, Write, StoreEffect, TypeOK
<1>4. dismissed'[p][r] = state[p][r] /\ \A s \in Runs \ {r} : dismissed'[p][s] = dismissed[p][s]
  BY <1>3 DEF TypeOK, Map
<1>5. hushed'[p] = hushed[p] \cup {<<r, state[p][r]>>}
  BY DEF Dismiss, TypeOK
<1> QED
  BY <1>1, <1>2, <1>3, <1>4, <1>5 DEF Dismiss, devbox, server

\* What restoring the dismissed rows changes.
LEMMA RestoreEffect ==
    ASSUME TypeOK, NEW p \in Pages, RestoreHost(p)
    PROVE  /\ \A r \in Runs :
                 dismissed'[p][r] = IF HasRow(p, r) THEN None ELSE dismissed[p][r]
           /\ StoreEffect(p)
           /\ \A r \in Runs, n \in 1..MaxEvents :
                 <<r, n>> \in hushed'[p] <=> <<r, n>> \in hushed[p] /\ ~HasRow(p, r)
           /\ UNCHANGED <<stamp, gone, cached, published, restarts, state>>
<1>1. /\ dismissed'[p] = [r \in Runs |-> IF HasRow(p, r) THEN None ELSE dismissed[p][r]]
      /\ StoreEffect(p)
  BY DEF RestoreHost, Write, StoreEffect, TypeOK
<1>2. hushed'[p] = {d \in hushed[p] : ~HasRow(p, d[1])}
  BY DEF RestoreHost, TypeOK
<1>3. UNCHANGED <<stamp, gone, cached, published, restarts, state>>
  BY DEF RestoreHost, devbox, server
<1> QED
  BY <1>1, <1>2, <1>3

\* What loading the page again changes.
LEMMA ReloadEffect ==
    ASSUME TypeOK, NEW p \in Pages, Reload(p) \/ ReloadUnread(p)
    PROVE  /\ state'[p] = NoView
           /\ \/ dismissed'[p] = store /\ hushed'[p] = saved
              \/ dismissed'[p] = Nothing /\ hushed'[p] = {} /\ failed' = TRUE
           /\ UNCHANGED <<stamp, gone, cached, published, restarts, store, saved>>
BY DEF Reload, ReloadUnread, Load, TypeOK, devbox, server

\* What the other steps leave alone.
LEMMA OutsideEffect ==
    ASSUME \/ \E r \in Runs : Event(r) \/ Reap(r)
           \/ Poll
           \/ PollUnanswered
           \/ Restart
           \/ UNCHANGED vars
    PROVE  UNCHANGED <<state, dismissed, hushed, store, saved, failed>>
BY DEF Event, Reap, Poll, PollUnanswered, Restart, vars, storeVars

-----------------------------------------------------------------------------
(* The page's memory *)

\* Initially nothing is remembered.
LEMMA InitMemory == Init => MemoryInv
BY DEF Init, MemoryInv, Nothing

\* Every step keeps the memory a record of what was dismissed.
LEMMA NextMemory ==
    ASSUME OnePage, TypeOK, MemoryInv, [Next]_vars
    PROVE  MemoryInv'
<1>1. CASE \/ \E r \in Runs : Event(r) \/ Reap(r)
           \/ Poll
           \/ PollUnanswered
           \/ Restart
           \/ UNCHANGED vars
  BY <1>1, OutsideEffect DEF MemoryInv, IsAlive
<1>2. ASSUME NEW p \in Pages, StoreEffect(p),
             \A r \in Runs : dismissed'[p][r] # None =>
                 /\ <<r, dismissed'[p][r]>> \in hushed'[p]
                 /\ state'[p] # NoView => state'[p][r] # None
      PROVE  MemoryInv'
  <2>1. \A q \in Pages : q = p
    BY DEF OnePage
  <2>2. ~failed' => store' = dismissed'[p]
    BY <1>2 DEF StoreEffect, storeVars, MemoryInv
  <2>3. \A r \in Runs : store'[r] # None => <<r, store'[r]>> \in saved'
    BY <1>2 DEF StoreEffect, storeVars, MemoryInv
  <2> QED
    BY <1>2, <2>1, <2>2, <2>3 DEF MemoryInv, IsAlive
<1>3. ASSUME NEW p \in Pages, Receive(p)
      PROVE  MemoryInv'
  <2>1. \A r \in Runs : dismissed'[p][r] # None =>
            /\ <<r, dismissed'[p][r]>> \in hushed'[p]
            /\ state'[p] # NoView => state'[p][r] # None
    BY <1>3, ReceiveEffect DEF MemoryInv
  <2> QED
    BY <1>2, <1>3, <2>1, ReceiveEffect
<1>4. ASSUME NEW p \in Pages, NEW r \in Runs, Dismiss(p, r)
      PROVE  MemoryInv'
  <2>1. /\ HasRow(p, r)
        /\ dismissed'[p][r] = state[p][r]
        /\ \A s \in Runs \ {r} : dismissed'[p][s] = dismissed[p][s]
        /\ hushed'[p] = hushed[p] \cup {<<r, state[p][r]>>}
        /\ state' = state
    BY <1>4, DismissEffect
  <2>2. \A s \in Runs : dismissed'[p][s] # None =>
            /\ <<s, dismissed'[p][s]>> \in hushed'[p]
            /\ state'[p] # NoView => state'[p][s] # None
    BY <2>1 DEF MemoryInv, HasRow, IsAlive
  <2> QED
    BY <1>2, <1>4, <2>2, DismissEffect
<1>5. ASSUME NEW p \in Pages, RestoreHost(p)
      PROVE  MemoryInv'
  <2>1. /\ \A r \in Runs :
              dismissed'[p][r] = IF HasRow(p, r) THEN None ELSE dismissed[p][r]
        /\ \A r \in Runs, n \in 1..MaxEvents :
              <<r, n>> \in hushed'[p] <=> <<r, n>> \in hushed[p] /\ ~HasRow(p, r)
        /\ state' = state
    BY <1>5, RestoreEffect
  <2>2. \A r \in Runs : dismissed[p][r] # None => dismissed[p][r] \in 1..MaxEvents
    BY BoundAssumption DEF TypeOK, Map, None
  <2>3. \A r \in Runs : dismissed'[p][r] # None =>
            /\ <<r, dismissed'[p][r]>> \in hushed'[p]
            /\ state'[p] # NoView => state'[p][r] # None
    BY <2>1, <2>2 DEF MemoryInv, IsAlive
  <2> QED
    BY <1>2, <1>5, <2>3, RestoreEffect
<1>6. ASSUME NEW p \in Pages, Reload(p) \/ ReloadUnread(p)
      PROVE  MemoryInv'
  <2>1. \A q \in Pages : q = p
    BY DEF OnePage
  <2>2. \A r \in Runs : Nothing[r] = None
    BY DEF Nothing
  <2>3. ~failed' => store' = dismissed'[p]
    BY <1>6, ReloadEffect
  <2> QED
    BY <1>6, <2>1, <2>2, <2>3, ReloadEffect DEF MemoryInv
<1> QED
  BY <1>1, <1>3, <1>4, <1>5, <1>6 DEF Next

-----------------------------------------------------------------------------
(* Until the server is restarted *)

\* Until then, it stays unrestarted.
LEMMA NotRestarted == TypeOK /\ [Next]_vars /\ restarts' = 0 => restarts = 0 /\ ~Restart
<1> SUFFICES ASSUME TypeOK, [Next]_vars, restarts' = 0
             PROVE  restarts = 0 /\ ~Restart
  OBVIOUS
<1>1. ~Restart
  BY BoundAssumption DEF Restart, TypeOK
<1>2. CASE UNCHANGED vars
  BY <1>1, <1>2 DEF vars
<1>3. CASE Next
  BY <1>1, <1>3 DEF Next, Event, Reap, Poll, PollUnanswered, Receive, Dismiss, RestoreHost,
                    Reload, ReloadUnread, Load, devbox, server
<1> QED
  BY <1>2, <1>3

\* Initially the server has nothing, and nothing is hidden.
LEMMA InitServer == Init => ServerInv /\ PastInv /\ HushedInv
BY DEF Init, ServerInv, PastInv, HushedInv, Sighted, HasRow, Nothing, None

\* The server publishes what it has cached, and nothing of the future.
LEMMA NextServer ==
    ASSUME TypeOK, ServerInv, [Next]_vars, ~Restart
    PROVE  ServerInv'
<1>1. ASSUME NEW r \in Runs, Event(r)
      PROVE  ServerInv'
  BY <1>1 DEF Event, server, ServerInv, TypeOK, Map
<1>2. CASE Poll
  BY <1>2 DEF Poll, devbox, ServerInv, TypeOK, Map, None
<1>3. CASE PollUnanswered
  BY <1>3 DEF PollUnanswered, devbox, ServerInv
<1>4. CASE UNCHANGED <<stamp, cached, published>>
  BY <1>4 DEF ServerInv
<1>5. \/ \E r \in Runs : Event(r)
      \/ Poll
      \/ PollUnanswered
      \/ UNCHANGED <<stamp, cached, published>>
  BY DEF Next, Reap, Receive, Dismiss, RestoreHost, Reload, ReloadUnread, Load, vars, devbox,
         server
<1> QED
  BY <1>1, <1>2, <1>3, <1>4, <1>5

\* The numbers that views and stamps are made of.
LEMMA Numbers ==
    ASSUME TypeOK, NEW r \in Runs
    PROVE  /\ stamp[r] \in 0..MaxEvents
           /\ cached[r] \in 0..MaxEvents
           /\ published[r] \in 0..MaxEvents
           /\ \A p \in Pages : HasRow(p, r) => state[p][r] \in 1..MaxEvents
           /\ \A p \in Pages : dismissed[p][r] \in 0..MaxEvents
BY BoundAssumption DEF TypeOK, Map, HasRow, None

\* What an event, a prune or a poll do to one run.
LEMMA RunEffect ==
    ASSUME TypeOK, ServerInv, NEW r \in Runs,
           \/ \E s \in Runs : Event(s) \/ Reap(s)
           \/ Poll
           \/ PollUnanswered
           \/ UNCHANGED vars
    PROVE  \/ UNCHANGED <<stamp[r], cached[r]>> /\ (r \in gone => r \in gone')
           \/ stamp'[r] = stamp[r] + 1 /\ cached'[r] = cached[r]
           \/ /\ stamp'[r] = stamp[r] /\ (r \in gone => r \in gone')
              /\ cached'[r] = IF r \in gone THEN None ELSE stamp[r]
<1>1. ASSUME NEW s \in Runs, Event(s)
      PROVE  \/ UNCHANGED <<stamp[r], cached[r]>> /\ (r \in gone => r \in gone')
             \/ stamp'[r] = stamp[r] + 1 /\ cached'[r] = cached[r]
  <2>1. CASE s = r
    BY <1>1, <2>1 DEF Event, server, TypeOK, Map
  <2>2. CASE s # r
    BY <1>1, <2>2 DEF Event, server, TypeOK, Map
  <2> QED
    BY <2>1, <2>2
<1>2. ASSUME NEW s \in Runs, Reap(s)
      PROVE  UNCHANGED <<stamp[r], cached[r]>> /\ (r \in gone => r \in gone')
  BY <1>2 DEF Reap, server
<1>3. CASE Poll
  BY <1>3 DEF Poll, devbox
<1>4. CASE PollUnanswered \/ UNCHANGED vars
  BY <1>4 DEF PollUnanswered, devbox, vars
<1> QED
  BY <1>1, <1>2, <1>3, <1>4

\* Views only get newer.
LEMMA NextPast ==
    ASSUME OnePage, TypeOK, MemoryInv, ServerInv, PastInv, [Next]_vars, ~Restart
    PROVE  PastInv'
<1> SUFFICES ASSUME NEW p \in Pages, NEW r \in Runs, NEW n \in 1..MaxEvents, Sighted(p, r, n)'
             PROVE  /\ n <= stamp'[r]
                    /\ HasRow(p, r)' => n <= state'[p][r]
                    /\ cached'[r] # None => n <= cached'[r]
                    /\ cached'[r] = None => r \in gone' \/ n < stamp'[r]
  BY DEF PastInv
<1>1. \A q \in Pages : q = p
  BY DEF OnePage
<1>2. Sighted(p, r, n) =>
          /\ n <= stamp[r]
          /\ HasRow(p, r) => n <= state[p][r]
          /\ cached[r] # None => n <= cached[r]
          /\ cached[r] = None => r \in gone \/ n < stamp[r]
  BY DEF PastInv
<1>3. CASE \/ \E s \in Runs : Event(s) \/ Reap(s)
           \/ Poll
           \/ PollUnanswered
           \/ UNCHANGED vars
  <2>1. UNCHANGED <<state, dismissed, hushed, store, saved>>
    BY <1>3, OutsideEffect
  <2>2. Sighted(p, r, n) /\ HasRow(p, r)' = HasRow(p, r)
    BY <2>1 DEF Sighted, HasRow
  <2>3. stamp'[r] = stamp[r] + 1 => n < stamp'[r]
    BY <1>2, <2>2, Numbers, BoundAssumption
  <2> QED
    BY <1>2, <1>3, <2>1, <2>2, <2>3, RunEffect, Numbers, BoundAssumption DEF None
<1>4. CASE Receive(p)
  <2>1. state'[p] = published /\ UNCHANGED <<stamp, gone, cached, published, restarts, hushed>>
    BY <1>4, ReceiveEffect
  <2>2. published = cached /\ cached[r] <= stamp[r]
    BY DEF ServerInv
  <2>3. CASE <<r, n>> \in hushed[p] \cup saved
    <3>1. Sighted(p, r, n)
      BY <2>3 DEF Sighted
    <3> QED
      BY <1>2, <2>1, <2>2, <3>1 DEF HasRow
  <2>4. CASE HasRow(p, r)' /\ state'[p][r] = n
    <3>1. cached[r] = n /\ n # None
      BY <2>1, <2>2, <2>4, BoundAssumption DEF None
    <3> QED
      BY <2>1, <2>2, <2>4, <3>1, Numbers, BoundAssumption
  <2>5. hushed'[p] \cup saved' \subseteq hushed[p] \cup saved
    BY <1>4, ReceiveEffect DEF StoreEffect, storeVars
  <2> QED
    BY <2>3, <2>4, <2>5 DEF Sighted
<1>5. ASSUME NEW s \in Runs, Dismiss(p, s)
      PROVE  /\ Sighted(p, r, n)
             /\ UNCHANGED <<stamp, gone, cached, state>>
  <2>1. /\ HasRow(p, s)
        /\ hushed'[p] = hushed[p] \cup {<<s, state[p][s]>>}
        /\ UNCHANGED <<stamp, gone, cached, state>>
    BY <1>5, DismissEffect
  <2>2. saved' \subseteq hushed'[p] \cup saved
    BY <1>5, DismissEffect DEF StoreEffect, storeVars
  <2> QED
    BY <2>1, <2>2 DEF Sighted, HasRow
<1>6. ASSUME RestoreHost(p)
      PROVE  /\ Sighted(p, r, n)
             /\ UNCHANGED <<stamp, gone, cached, state>>
  <2>1. saved' \subseteq hushed'[p] \cup saved
    BY <1>6, RestoreEffect DEF StoreEffect, storeVars
  <2> QED
    BY <1>6, <2>1, RestoreEffect DEF Sighted, HasRow
<1>7. CASE Reload(p) \/ ReloadUnread(p)
  <2>1. /\ state'[p] = NoView /\ UNCHANGED <<stamp, gone, cached, saved>>
        /\ hushed'[p] \subseteq saved
    BY <1>7, ReloadEffect
  <2>2. Sighted(p, r, n) /\ ~HasRow(p, r)'
    BY <2>1 DEF Sighted, HasRow
  <2> QED
    BY <1>2, <2>1, <2>2
<1>8. (Sighted(p, r, n) /\ UNCHANGED <<stamp, gone, cached, state>>)
          => /\ n <= stamp'[r]
             /\ HasRow(p, r)' => n <= state'[p][r]
             /\ cached'[r] # None => n <= cached'[r]
             /\ cached'[r] = None => r \in gone' \/ n < stamp'[r]
  BY <1>2 DEF HasRow
<1> QED
  BY <1>1, <1>3, <1>4, <1>5, <1>6, <1>7, <1>8 DEF Next

\* What is over stays over.
LEMMA OverStays ==
    ASSUME OnePage, TypeOK, ServerInv, PastInv, [Next]_vars, ~Restart,
           NEW p \in Pages, NEW r \in Runs, NEW n \in 1..MaxEvents,
           Sighted(p, r, n), IsOver(p, r, n)
    PROVE  IsOver(p, r, n)'
<1>1. \A q \in Pages : q = p
  BY DEF OnePage
<1>2. /\ HasRow(p, r) => n < state[p][r]
      /\ cached[r] # None => n < cached[r]
      /\ r \in gone \/ n < stamp[r]
  BY DEF IsOver
<1>3. CASE \/ \E s \in Runs : Event(s) \/ Reap(s)
           \/ Poll
           \/ PollUnanswered
           \/ UNCHANGED vars
  <2>1. HasRow(p, r)' => n < state'[p][r]
    BY <1>2, <1>3, OutsideEffect DEF HasRow
  <2>2. stamp[r] \in Nat /\ n <= stamp[r]
    BY Numbers, BoundAssumption DEF PastInv
  <2>3. CASE UNCHANGED <<stamp[r], cached[r]>> /\ (r \in gone => r \in gone')
    BY <1>2, <2>1, <2>3 DEF IsOver
  <2>4. CASE stamp'[r] = stamp[r] + 1 /\ cached'[r] = cached[r]
    <3>1. n < stamp'[r]
      BY <2>2, <2>4
    <3> QED
      BY <1>2, <2>1, <2>4, <3>1 DEF IsOver
  <2>5. CASE /\ stamp'[r] = stamp[r] /\ (r \in gone => r \in gone')
             /\ cached'[r] = IF r \in gone THEN None ELSE stamp[r]
    BY <1>2, <2>1, <2>5 DEF IsOver
  <2> QED
    BY <1>3, <2>3, <2>4, <2>5, RunEffect
<1>4. CASE Receive(p)
  <2>1. state'[p] = cached /\ UNCHANGED <<stamp, gone, cached>>
    BY <1>4, ReceiveEffect DEF ServerInv
  <2> QED
    BY <1>2, <2>1 DEF IsOver, HasRow
<1>5. CASE RestoreHost(p) \/ \E s \in Runs : Dismiss(p, s)
  <2>1. UNCHANGED <<stamp, gone, cached, state>>
    BY <1>5, DismissEffect, RestoreEffect
  <2> QED
    BY <1>2, <2>1 DEF IsOver, HasRow
<1>6. CASE Reload(p) \/ ReloadUnread(p)
  <2>1. state'[p] = NoView /\ UNCHANGED <<stamp, gone, cached>>
    BY <1>6, ReloadEffect
  <2> QED
    BY <1>2, <2>1 DEF IsOver, HasRow
<1> QED
  BY <1>1, <1>3, <1>4, <1>5, <1>6 DEF Next

\* A dismissal is remembered by the page until its stamp is over.
LEMMA NextHushed ==
    ASSUME OnePage, TypeOK, ServerInv, PastInv, HushedInv, [Next]_vars, ~Restart,
           NEW p \in Pages, NEW r \in Runs, NEW n \in 1..MaxEvents,
           <<r, n>> \in hushed'[p]
    PROVE  dismissed'[p][r] = n \/ IsOver(p, r, n)'
<1>1. \A q \in Pages : q = p
  BY DEF OnePage
<1>2. <<r, n>> \in hushed[p] =>
          /\ dismissed[p][r] = n \/ IsOver(p, r, n)
          /\ n <= stamp[r]
          /\ HasRow(p, r) => n <= state[p][r]
          /\ cached[r] # None => n <= cached[r]
          /\ cached[r] = None => r \in gone \/ n < stamp[r]
  BY DEF HushedInv, PastInv, Sighted
<1>3. CASE \/ \E s \in Runs : Event(s) \/ Reap(s)
           \/ Poll
           \/ PollUnanswered
           \/ UNCHANGED vars
  <2>1. UNCHANGED <<state, dismissed, hushed, store, saved>>
    BY <1>3, OutsideEffect
  <2>2. dismissed[p][r] = n \/ IsOver(p, r, n)
    BY <1>2, <2>1
  <2>3. Sighted(p, r, n)
    BY <2>1 DEF Sighted
  <2> QED
    BY <2>1, <2>2, <2>3, OverStays
<1>4. CASE Receive(p)
  <2>1. /\ state'[p] = published /\ published = cached
        /\ dismissed'[p][r] = IF published[r] # None THEN dismissed[p][r] ELSE None
        /\ UNCHANGED <<stamp, gone, cached, published, restarts, hushed>>
    BY <1>4, ReceiveEffect DEF ServerInv
  <2>2. CASE published[r] # None
    BY <1>2, <2>1, <2>2 DEF IsOver, HasRow
  <2>3. CASE published[r] = None
    BY <1>2, <2>1, <2>3 DEF IsOver, HasRow
  <2> QED
    BY <2>2, <2>3
<1>5. ASSUME NEW s \in Runs, Dismiss(p, s)
      PROVE  dismissed'[p][r] = n \/ IsOver(p, r, n)'
  <2>1. /\ HasRow(p, s)
        /\ dismissed[p][s] # state[p][s]
        /\ dismissed'[p][s] = state[p][s]
        /\ \A t \in Runs \ {s} : dismissed'[p][t] = dismissed[p][t]
        /\ hushed'[p] = hushed[p] \cup {<<s, state[p][s]>>}
        /\ UNCHANGED <<stamp, gone, cached, published, restarts, state>>
    BY <1>5, DismissEffect
  <2>2. CASE s # r
    <3>1. <<r, n>> \in hushed[p]
      BY <2>1, <2>2
    <3> QED
      BY <1>2, <2>1, <2>2, <3>1 DEF IsOver, HasRow
  <2>3. CASE s = r /\ <<r, n>> \in hushed[p] /\ n # state[p][r]
    <3>1. state[p][r] \in 1..MaxEvents /\ Sighted(p, r, state[p][r])
      BY <2>1, <2>3, Numbers DEF Sighted
    <3>2. /\ n < state[p][r]
          /\ state[p][r] <= stamp[r]
          /\ cached[r] # None => state[p][r] <= cached[r]
      BY <1>2, <2>1, <2>3, <3>1, Numbers, BoundAssumption DEF PastInv
    <3>3. stamp[r] \in Nat /\ cached[r] \in Nat
      BY Numbers, BoundAssumption
    <3>4. IsOver(p, r, n)
      BY <3>1, <3>2, <3>3, BoundAssumption DEF IsOver
    <3> QED
      BY <2>1, <3>4 DEF IsOver, HasRow
  <2>4. CASE s = r /\ n = state[p][r]
    BY <2>1, <2>4
  <2> QED
    BY <2>1, <2>2, <2>3, <2>4
<1>6. CASE RestoreHost(p)
  <2>1. /\ dismissed'[p][r] = IF HasRow(p, r) THEN None ELSE dismissed[p][r]
        /\ <<r, n>> \in hushed[p] /\ ~HasRow(p, r)
        /\ UNCHANGED <<stamp, gone, cached, published, restarts, state>>
    BY <1>6, RestoreEffect
  <2> QED
    BY <1>2, <2>1 DEF IsOver, HasRow
<1>7. CASE Reload(p) \/ ReloadUnread(p)
  <2>1. dismissed'[p] = store /\ <<r, n>> \in saved
    BY <1>7, ReloadEffect
  <2>2. Sighted(p, r, n) /\ (store[r] = n \/ IsOver(p, r, n))
    BY <2>1 DEF HushedInv, Sighted
  <2> QED
    BY <2>1, <2>2, OverStays
<1> QED
  BY <1>1, <1>3, <1>4, <1>5, <1>6, <1>7 DEF Next

\* And by the store.
LEMMA NextSaved ==
    ASSUME OnePage, TypeOK, ServerInv, PastInv, HushedInv, [Next]_vars, ~Restart
    PROVE  HushedInv'
<1> SUFFICES ASSUME NEW p \in Pages, NEW r \in Runs, NEW n \in 1..MaxEvents,
                    <<r, n>> \in saved'
             PROVE  store'[r] = n \/ IsOver(p, r, n)'
  BY NextHushed DEF HushedInv
<1>1. \A q \in Pages : q = p
  BY DEF OnePage
<1>2. CASE UNCHANGED <<store, saved>>
  <2>1. Sighted(p, r, n) /\ (store[r] = n \/ IsOver(p, r, n))
    BY <1>2 DEF HushedInv, Sighted
  <2> QED
    BY <1>2, <2>1, OverStays
<1>3. CASE store' = dismissed'[p] /\ saved' = hushed'[p]
  BY <1>3, NextHushed
<1>4. CASE \/ \E s \in Runs : Event(s) \/ Reap(s)
           \/ Poll
           \/ PollUnanswered
           \/ UNCHANGED vars
  BY <1>2, <1>4, OutsideEffect
<1>5. CASE Receive(p) \/ RestoreHost(p) \/ \E s \in Runs : Dismiss(p, s)
  <2>1. StoreEffect(p)
    BY <1>5, ReceiveEffect, RestoreEffect, DismissEffect
  <2> QED
    BY <1>2, <1>3, <2>1 DEF StoreEffect, storeVars
<1>6. CASE Reload(p) \/ ReloadUnread(p)
  BY <1>2, <1>6, ReloadEffect
<1> QED
  BY <1>1, <1>4, <1>5, <1>6 DEF Next

-----------------------------------------------------------------------------
(* Theorems *)

\* Every reachable state is well typed, with any number of tabs.
THEOREM TypeCorrect == Spec => []TypeOK
<1>1. Init => TypeOK
  BY InitType
<1>2. TypeOK /\ [Next]_vars => TypeOK'
  BY NextType
<1> QED
  BY <1>1, <1>2, PTL DEF Spec

\* The inductive invariant of a single tab.
THEOREM Invariant == ASSUME OnePage PROVE Spec => []IInv
<1>1. Init => IInv
  BY InitType, InitMemory, InitServer DEF IInv
<1>2. IInv /\ [Next]_vars => IInv'
  <2> SUFFICES ASSUME IInv, [Next]_vars
               PROVE  IInv'
    OBVIOUS
  <2>1. TypeOK /\ MemoryInv /\ (restarts = 0 => ServerInv /\ PastInv /\ HushedInv)
    BY DEF IInv
  <2>2. TypeOK' /\ MemoryInv'
    BY <2>1, NextType, NextMemory
  <2>3. restarts' = 0 => restarts = 0 /\ ~Restart
    BY <2>1, NotRestarted
  <2>4. restarts' = 0 => ServerInv' /\ PastInv' /\ HushedInv'
    BY <2>1, <2>3, NextServer, NextPast, NextSaved
  <2> QED
    BY <2>2, <2>4 DEF IInv
<1> QED
  BY <1>1, <1>2, PTL DEF Spec

\* As long as the server is not restarted, a dismissed row stays hidden while its
\* run has the stamp it was dismissed at; over a reload, if the store took it
\* (dismissRun, pruneDismissed, writeDismissed, readDismissed).
THEOREM StaysHidden == ASSUME OnePage PROVE Spec => []HiddenWhileServed
<1>1. IInv => HiddenWhileServed
  <2> SUFFICES ASSUME IInv, restarts = 0, NEW p \in Pages, NEW r \in Runs,
                      HasRow(p, r), <<r, state[p][r]>> \in hushed[p]
               PROVE  dismissed[p][r] = state[p][r]
    BY DEF HiddenWhileServed, HiddenUntilNews, IsDismissed
  <2>1. state[p][r] \in 1..MaxEvents
    BY Numbers DEF IInv
  <2>2. dismissed[p][r] = state[p][r] \/ IsOver(p, r, state[p][r])
    BY <2>1 DEF IInv, HushedInv
  <2> QED
    BY <2>1, <2>2, BoundAssumption DEF IsOver
<1> QED
  BY <1>1, Invariant, PTL

\* Nothing but what the user dismissed is hidden (isDismissed).
THEOREM NothingElseHidden == ASSUME OnePage PROVE Spec => []OnlyDismissedIsHidden
<1>1. IInv => OnlyDismissedIsHidden
  BY DEF IInv, OnlyDismissedIsHidden, MemoryInv, HasRow, IsDismissed
<1> QED
  BY <1>1, Invariant, PTL

\* The store is the page's memory unless it failed when it was used last, and the page
\* remembers no run that its view lacks (writeDismissed, pruneDismissed).
THEOREM StorePruned == ASSUME OnePage PROVE Spec => []StoreIsPruned
<1>1. IInv => StoreIsPruned
  BY DEF IInv, StoreIsPruned, MemoryInv
<1> QED
  BY <1>1, Invariant, PTL

-----------------------------------------------------------------------------
(* Editing *)

Texts == Entries \cup {NoEntry}

EditingTypeOK ==
    /\ cards \in Cards
    /\ drawn \in Cards
    /\ editing \in {NotEditing} \cup [host : CardHosts, field : {"label", "pr"}]
    /\ input \in {NoInput} \cup [base : Texts, draft : Texts, settled : {FALSE}]
    /\ saves \in Nat
    /\ escaped \in BOOLEAN

\* An input that is on the page has neither been saved nor left.
OpenInputInv == input # NoInput => saves = 0 /\ ~escaped

EditingIInv == EditingTypeOK /\ OpenInputInv /\ HeldIsDrawnLater

LEMMA InputForTypes ==
    ASSUME NEW edit \in {NotEditing} \cup [host : CardHosts, field : {"label", "pr"}],
           NEW page \in Cards
    PROVE  InputFor(edit, page) \in {NoInput} \cup [base : Texts, draft : Texts, settled : {FALSE}]
<1>1. CASE edit = NotEditing \/ page[edit.host] = Absent
  BY <1>1 DEF InputFor
<1>2. CASE edit # NotEditing /\ page[edit.host] # Absent
  <2> DEFINE base == IF edit.field = "label" THEN page[edit.host] ELSE NoEntry
  <2>1. edit.host \in CardHosts
    BY <1>2
  <2>2. base \in Texts
    BY <1>2, <2>1 DEF Cards, Texts
  <2>3. InputFor(edit, page) = [base |-> base, draft |-> base, settled |-> FALSE]
    BY <1>2 DEF InputFor
  <2> QED  BY <2>2, <2>3
<1> QED  BY <1>1, <1>2

\* Closing an open input posts what the user typed, once at most.
LEMMA FinishSaves ==
    ASSUME EditingIInv, NEW save \in BOOLEAN, Finish(save)
    PROVE  /\ saves = 0 /\ ~escaped
           /\ saves' = 0 \/ (saves' = 1 /\ save /\ input.draft # input.base)
<1>1. saves = 0 /\ ~escaped /\ input \in [base : Texts, draft : Texts, settled : {FALSE}]
  BY DEF Finish, EditingIInv, EditingTypeOK, OpenInputInv
<1>2. Settled(input).settled
  BY <1>1 DEF Settled
<1>3. PICK blurs \in BOOLEAN :
         saves' = saves + SavesOf(input, save)
                        + (IF blurs THEN SavesOf(Settled(input), TRUE) ELSE 0)
  BY DEF Finish
<1>4. saves' = saves + (IF save /\ ~input.settled /\ input.draft # input.base THEN 1 ELSE 0) + 0
  BY <1>2, <1>3 DEF SavesOf
<1> QED  BY <1>1, <1>4

\* So does drawing, when it removes the input.
LEMMA DrawSaves ==
    ASSUME EditingIInv, NEW page, Draw(page)
    PROVE  \/ saves' \in {0, saves}
           \/ saves = 0 /\ saves' = 1 /\ ~escaped' /\ input.draft # input.base
<1>1. saves \in Nat /\ (input # NoInput => saves = 0 /\ ~escaped)
  BY DEF EditingIInv, EditingTypeOK, OpenInputInv
<1>2. PICK blurs \in BOOLEAN :
         LET closes == blurs /\ input # NoInput IN
         IF InputFor(editing, page) # NoInput
         THEN saves' = 0 /\ escaped' = FALSE
         ELSE /\ saves' = saves + (IF closes THEN SavesOf(input, TRUE) ELSE 0)
              /\ UNCHANGED escaped
  BY DEF Draw
<1>3. CASE InputFor(editing, page) # NoInput
  BY <1>2, <1>3
<1>4. CASE InputFor(editing, page) = NoInput
  BY <1>1, <1>2, <1>4 DEF SavesOf
<1> QED  BY <1>3, <1>4

\* Drawing shows the cards and keeps the invariant, whatever was open.
LEMMA DrawKeeps ==
    ASSUME EditingIInv, NEW page \in Cards, Draw(page), cards' = page
    PROVE  EditingIInv'
<1> DEFINE new == InputFor(editing, page)
<1>1. PICK blurs \in BOOLEAN :
         LET closes == blurs /\ input # NoInput IN
         /\ editing' = IF closes THEN NotEditing ELSE editing
         /\ IF new # NoInput
            THEN saves' = 0 /\ escaped' = FALSE
            ELSE /\ saves' = saves + (IF closes THEN SavesOf(input, TRUE) ELSE 0)
                 /\ UNCHANGED escaped
  BY DEF Draw
<1>2. drawn' = page /\ input' = new
  BY DEF Draw
<1>3. new \in {NoInput} \cup [base : Texts, draft : Texts, settled : {FALSE}]
  BY InputForTypes DEF EditingIInv, EditingTypeOK
<1> HIDE DEF new
<1>4. /\ editing' \in {NotEditing} \cup [host : CardHosts, field : {"label", "pr"}]
      /\ escaped' \in BOOLEAN
  BY <1>1 DEF EditingIInv, EditingTypeOK
<1>5. saves' \in Nat
  <2>1. saves \in Nat
    BY DEF EditingIInv, EditingTypeOK
  <2> QED  BY <2>1, DrawSaves
<1>6. EditingTypeOK'
  BY <1>2, <1>3, <1>4, <1>5 DEF EditingTypeOK
<1>7. OpenInputInv'
  BY <1>1, <1>2 DEF OpenInputInv
<1>8. HeldIsDrawnLater'
  BY <1>2 DEF HeldIsDrawnLater
<1> QED  BY <1>6, <1>7, <1>8 DEF EditingIInv

LEMMA FinishKeeps ==
    ASSUME EditingIInv, NEW save \in BOOLEAN, Finish(save), escaped' \in BOOLEAN
    PROVE  EditingIInv'
<1>1. saves' \in Nat
  BY FinishSaves
<1>2. EditingTypeOK'
  BY <1>1 DEF Finish, EditingIInv, EditingTypeOK
<1> QED  BY <1>2 DEF Finish, OpenInputInv, HeldIsDrawnLater, EditingIInv

LEMMA ClickChipKeeps ==
    ASSUME EditingIInv, NEW host \in CardHosts, NEW field \in {"label", "pr"},
           ClickChip(host, field)
    PROVE  EditingIInv'
<1>1. editing' \in [host : CardHosts, field : {"label", "pr"}] /\ cards \in Cards
  BY DEF ClickChip, EditingIInv, EditingTypeOK
<1>2. InputFor(editing', cards) \in {NoInput} \cup [base : Texts, draft : Texts, settled : {FALSE}]
  BY <1>1, InputForTypes
<1>3. EditingTypeOK'
  BY <1>1, <1>2 DEF ClickChip, EditingIInv, EditingTypeOK
<1> QED  BY <1>3 DEF ClickChip, OpenInputInv, HeldIsDrawnLater, EditingIInv

LEMMA EditingKeeps == ASSUME EditingIInv, [EditingNext]_editingVars PROVE EditingIInv'
<1>1. CASE Message
  <2>1. cards' \in Cards
    BY <1>1 DEF Message
  <2>2. CASE Draw(cards')
    BY <2>1, <2>2, DrawKeeps
  <2>3. CASE Held /\ UNCHANGED <<drawn, editing, input, saves, escaped>>
    BY <2>1, <2>3 DEF Held, EditingIInv, EditingTypeOK, OpenInputInv, HeldIsDrawnLater
  <2> QED  BY <1>1, <2>2, <2>3 DEF Message
<1>2. CASE Timer \/ ForcedRender
  <2>1. cards \in Cards /\ Draw(cards) /\ cards' = cards
    BY <1>2 DEF Timer, ForcedRender, EditingIInv, EditingTypeOK
  <2> QED  BY <2>1, DrawKeeps
<1>3. ASSUME NEW host \in CardHosts, NEW field \in {"label", "pr"}, ClickChip(host, field)
      PROVE  EditingIInv'
  BY <1>3, ClickChipKeeps
<1>4. ASSUME NEW text \in Entries \cup {NoEntry}, Type(text) PROVE EditingIInv'
  <2>1. input \in [base : Texts, draft : Texts, settled : {FALSE}]
    BY <1>4 DEF Type, EditingIInv, EditingTypeOK
  <2>2. input' \in [base : Texts, draft : Texts, settled : {FALSE}]
    BY <1>4, <2>1 DEF Type, Texts
  <2>3. EditingTypeOK'
    BY <1>4, <2>2 DEF Type, EditingIInv, EditingTypeOK
  <2> QED  BY <1>4, <2>3 DEF Type, OpenInputInv, HeldIsDrawnLater, EditingIInv
<1>5. CASE Enter
  BY <1>5, FinishKeeps DEF Enter, EditingIInv, EditingTypeOK
<1>6. CASE Escape
  BY <1>6, FinishKeeps DEF Escape
<1>7. CASE UNCHANGED editingVars
  BY <1>7 DEF editingVars, EditingIInv, EditingTypeOK, OpenInputInv, HeldIsDrawnLater
<1> QED  BY <1>1, <1>2, <1>3, <1>4, <1>5, <1>6, <1>7 DEF EditingNext

\* The inductive invariant of an edit, for any hosts and texts.
THEOREM EditingInvariance == EditingSpec => []EditingIInv
<1>1. ASSUME EditingInit PROVE EditingIInv
  BY <1>1 DEF EditingInit, EditingIInv, EditingTypeOK, OpenInputInv, HeldIsDrawnLater
<1>2. EditingIInv /\ [EditingNext]_editingVars => EditingIInv'
  BY EditingKeeps
<1> QED  BY <1>1, <1>2, PTL DEF EditingSpec

\* index.html holds the renders of messages while an edit is open: however the edit
\* closes, what was held is on the page then.
THEOREM HeldRendersAreMadeUp == EditingSpec => []HeldIsDrawnLater
<1>1. EditingIInv => HeldIsDrawnLater
  BY DEF EditingIInv
<1> QED  BY EditingInvariance, <1>1, PTL

\* finish is called by Enter, by Escape and by a lost focus, and the render at its end may
\* call it once more: an input is posted once at most, never after Escape, and only if
\* something else was typed than it was built with.
THEOREM SavesAreSingle == EditingSpec => SavedOnceIfTyped
<1> DEFINE Single == saves' > saves =>
                        saves' = 1 /\ ~escaped' /\ input.draft # input.base
<1>1. ASSUME EditingIInv, EditingNext, saves' > saves PROVE Single
  <2>1. saves \in Nat
    BY <1>1 DEF EditingIInv, EditingTypeOK
  <2>2. ASSUME NEW page, Draw(page) PROVE Single
    BY <1>1, <2>1, <2>2, DrawSaves
  <2>3. ASSUME NEW save \in BOOLEAN, Finish(save), save => escaped' = escaped PROVE Single
    BY <1>1, <2>1, <2>3, FinishSaves
  <2>4. CASE Message
    BY <1>1, <2>1, <2>2, <2>4 DEF Message
  <2>5. CASE Timer \/ ForcedRender
    BY <2>2, <2>5 DEF Timer, ForcedRender
  <2>6. CASE Enter
    BY <2>3, <2>6 DEF Enter
  <2>7. CASE Escape
    BY <2>3, <2>7 DEF Escape
  <2>8. ASSUME NEW host \in CardHosts, NEW field \in {"label", "pr"}, ClickChip(host, field)
        PROVE  Single
    BY <1>1, <2>1, <2>8 DEF ClickChip
  <2>9. ASSUME NEW text \in Entries \cup {NoEntry}, Type(text) PROVE Single
    BY <1>1, <2>1, <2>9 DEF Type
  <2> QED  BY <1>1, <2>4, <2>5, <2>6, <2>7, <2>8, <2>9 DEF EditingNext
<1>2. EditingIInv /\ [EditingNext]_editingVars => [Single]_editingVars
  BY <1>1
<1> QED  BY EditingInvariance, <1>2, PTL DEF EditingSpec, SavedOnceIfTyped

\* A message that comes while an edit is open leaves the edit and its input alone.
THEOREM TypingIsNotDisturbed == EditingSpec => TypingSurvivesMessages
<1> DEFINE Calm == editing # NotEditing /\ cards' # cards => UNCHANGED <<input, editing>>
<1>1. ASSUME EditingNext, editing # NotEditing, cards' # cards PROVE UNCHANGED <<input, editing>>
  <2>1. Message
    BY <1>1 DEF EditingNext, Timer, ForcedRender, ClickChip, Type, Enter, Escape, Finish
  <2> QED  BY <1>1, <2>1 DEF Message, Held
<1>2. [EditingNext]_editingVars => [Calm]_editingVars
  BY <1>1
<1> QED  BY <1>2, PTL DEF EditingSpec, TypingSurvivesMessages

-----------------------------------------------------------------------------
(* Viewer *)

ViewerTypeOK ==
    /\ links \in LinkLists
    /\ open \in BOOLEAN
    /\ active \in Addresses \cup {NoPage}
    /\ tabs \in Seq(Addresses)
    /\ frames \in SUBSET Addresses
    /\ visible \in SUBSET frames

\* Closed or open, a page that is visible has a frame; open, it is as promised.
ViewerIInv == ViewerTypeOK /\ ActiveIsShown

\* What is drawn of a list of links and a page, whatever page it is.
LEMMA Drawn ==
    ASSUME ViewerTypeOK, NEW list \in LinkLists, NEW page, RenderViewer(list, page),
           links' = list, open' \in BOOLEAN
    PROVE  ViewerIInv'
<1> DEFINE shown == TabsFor(list, page)
<1>1. list \in Seq(Addresses) /\ NoPage \notin Addresses
  BY LinkAssumption
<1>2. frames \in SUBSET Addresses /\ visible \in SUBSET frames
  BY DEF ViewerTypeOK
<1>3. shown \in Seq(Addresses) /\ Among(list) \subseteq Among(shown)
  <2>1. CASE page \in frames \ Among(list)
    <3>1. shown = Append(list, page) /\ page \in Addresses
      BY <1>2, <2>1 DEF TabsFor
    <3>2. \A i \in 1..Len(list) : i \in 1..Len(shown) /\ shown[i] = list[i]
      BY <1>1, <3>1
    <3> QED  BY <1>1, <3>1, <3>2 DEF Among
  <2>2. CASE page \notin frames \ Among(list)
    BY <1>1, <2>2 DEF TabsFor
  <2> QED  BY <2>1, <2>2
<1>4. tabs' = shown
  BY DEF RenderViewer
<1>5. CASE shown = <<>>
  <2>1. active' = NoPage /\ frames' = {} /\ visible' = {}
    BY <1>5 DEF RenderViewer
  <2>2. Among(<<>>) = {}
    BY DEF Among
  <2> QED  BY <1>4, <1>5, <2>1, <2>2 DEF ViewerIInv, ViewerTypeOK, ActiveIsShown
<1>6. CASE shown # <<>>
  <2>1. /\ active' = IF page \in Among(shown) THEN page ELSE shown[1]
        /\ frames' = frames \cup Among(shown)
        /\ visible' = (visible \ Among(shown)) \cup {active'}
    BY <1>6 DEF RenderViewer, VisibleAfter
  <2> HIDE DEF shown
  <2>2. Among(shown) \subseteq Addresses /\ shown[1] \in Among(shown)
    BY <1>3, <1>6 DEF Among
  <2>3. active' \in Among(shown)
    BY <2>1, <2>2
  <2>4. ViewerTypeOK'
    BY <1>2, <1>3, <1>4, <2>1, <2>2, <2>3 DEF ViewerTypeOK
  <2>5. ActiveIsShown'
    BY <1>1, <1>2, <1>3, <1>4, <1>6, <2>1, <2>2, <2>3 DEF ActiveIsShown
  <2> QED  BY <2>4, <2>5 DEF ViewerIInv
<1> QED  BY <1>5, <1>6

\* A page that has a frame keeps being the active one when it is drawn.
LEMMA ChosenStays ==
    ASSUME ViewerTypeOK, NEW list \in LinkLists, NEW page \in frames, RenderViewer(list, page)
    PROVE  active' = page /\ page \in Among(tabs') \cap visible'
<1> DEFINE shown == TabsFor(list, page)
<1>1. list \in Seq(Addresses)
  BY LinkAssumption
<1>2. page \in Among(shown)
  <2>1. CASE page \in Among(list)
    BY <2>1 DEF TabsFor
  <2>2. CASE page \notin Among(list)
    <3>1. shown = Append(list, page)
      BY <2>2 DEF TabsFor
    <3>2. Len(shown) \in 1..Len(shown) /\ shown[Len(shown)] = page
      BY <1>1, <3>1
    <3> QED  BY <3>2 DEF Among
  <2> QED  BY <2>1, <2>2
<1>3. shown # <<>>
  BY <1>2 DEF Among
<1> QED  BY <1>2, <1>3 DEF RenderViewer, VisibleAfter

LEMMA ViewerKeeps == ASSUME ViewerIInv, [ViewerNext]_viewerVars PROVE ViewerIInv'
<1>1. ViewerTypeOK /\ links \in LinkLists
  BY DEF ViewerIInv, ViewerTypeOK
<1>2. CASE ReceiveLinks
  <2>1. CASE open /\ RenderViewer(links', active)
    BY <1>1, <1>2, <2>1, Drawn DEF ReceiveLinks, ViewerTypeOK
  <2>2. CASE ~open /\ UNCHANGED <<active, tabs, frames, visible>>
    BY <1>1, <1>2, <2>2 DEF ReceiveLinks, ViewerIInv, ViewerTypeOK, ActiveIsShown
  <2> QED  BY <1>2, <2>1, <2>2 DEF ReceiveLinks
<1>3. ASSUME NEW page, RenderViewer(links, page), links' = links, open' \in BOOLEAN
      PROVE  ViewerIInv'
  BY <1>1, <1>3, Drawn
<1>4. CASE CloseViewer
  BY <1>1, <1>4 DEF CloseViewer, ViewerIInv, ViewerTypeOK, ActiveIsShown
<1>5. CASE UNCHANGED viewerVars
  BY <1>1, <1>5 DEF viewerVars, ViewerIInv, ViewerTypeOK, ActiveIsShown
<1>6. ASSUME NEW page \in Addresses, OpenViewer(page) PROVE ViewerIInv'
  BY <1>3, <1>6 DEF OpenViewer
<1>7. ASSUME NEW i \in 1..Len(tabs), ChooseTab(i) PROVE ViewerIInv'
  BY <1>1, <1>3, <1>7 DEF ChooseTab, ViewerTypeOK
<1>8. ASSUME NEW d \in {-1, 1}, Arrow(d) PROVE ViewerIInv'
  BY <1>1, <1>3, <1>8 DEF Arrow, ViewerTypeOK
<1> QED  BY <1>2, <1>4, <1>5, <1>6, <1>7, <1>8 DEF ViewerNext

\* The inductive invariant of the viewer, for any number of links.
THEOREM ViewerInvariance == ViewerSpec => []ViewerIInv
<1>1. ASSUME ViewerInit PROVE ViewerIInv
  <2>1. ViewerTypeOK
    <3>1. tabs \in Seq(Addresses) /\ frames \in SUBSET Addresses /\ visible \in SUBSET frames
      BY <1>1 DEF ViewerInit
    <3> QED  BY <1>1, <3>1 DEF ViewerInit, ViewerTypeOK
  <2>2. ActiveIsShown
    BY <1>1 DEF ViewerInit, ActiveIsShown
  <2> QED  BY <2>1, <2>2 DEF ViewerIInv
<1>2. ViewerIInv /\ [ViewerNext]_viewerVars => ViewerIInv'
  BY ViewerKeeps
<1> QED  BY <1>1, <1>2, PTL DEF ViewerSpec

\* An open viewer shows the active page, has a tab and a frame for it, and has no other
\* page that is still served over it.
THEOREM ActivePageIsShown == ViewerSpec => []ActiveIsShown
<1>1. ViewerIInv => ActiveIsShown
  BY DEF ViewerIInv
<1> QED  BY ViewerInvariance, <1>1, PTL

\* No message takes the page that the user reads away, its link gone or not.
THEOREM ReadersStay == ViewerSpec => ReadingIsNotDisturbed
<1> DEFINE Stays == links' # links /\ open /\ active # NoPage =>
                       active' = active /\ active \in Among(tabs') \cap visible'
<1>1. ASSUME ViewerIInv, ViewerNext, links' # links, open, active # NoPage
      PROVE  active' = active /\ active \in Among(tabs') \cap visible'
  <2>1. ReceiveLinks
    BY <1>1 DEF ViewerNext, OpenViewer, CloseViewer, ChooseTab, Arrow
  <2>2. links' \in LinkLists /\ RenderViewer(links', active)
    BY <1>1, <2>1 DEF ReceiveLinks
  <2>3. ViewerTypeOK /\ active \in frames
    BY <1>1 DEF ViewerIInv, ActiveIsShown, ViewerTypeOK
  <2> QED  BY <2>2, <2>3, ChosenStays
<1>2. ViewerIInv /\ [ViewerNext]_viewerVars => [Stays]_viewerVars
  BY <1>1
<1> QED  BY ViewerInvariance, <1>2, PTL DEF ViewerSpec, ReadingIsNotDisturbed

-----------------------------------------------------------------------------
(* WakeLock *)

WakeTypeOK ==
    /\ want \in BOOLEAN
    /\ lock \in 0..MaxAsked
    /\ asked \in SUBSET (1..MaxAsked)
    /\ requests \in 0..MaxAsked
    /\ held \in SUBSET (1..MaxAsked)
    /\ telling \in SUBSET (1..MaxAsked)
    /\ onScreen \in BOOLEAN
    /\ hurried \in BOOLEAN
    /\ taken \in BOOLEAN

\* The lock that the page knows of is held, or its event is on its way; that of a tab
\* on screen is held, unless the browser took one.
LockInv ==
    lock # NoLock => /\ lock \in held \cup telling
                     /\ onScreen /\ ~taken => lock \in held

\* A hidden tab holds nothing.
HiddenInv == ~onScreen => held = {}

\* A lit bulb has a lock or is waiting for one.
LitInv == want /\ onScreen /\ ~taken => held \cup asked # {}

\* As long as no click has come between a request and its answer, or a release and its
\* event, there is one lock at most: asked for, held, or released.
CalmInv ==
    ~hurried =>
        /\ held \subseteq {lock}
        /\ ~want => held = {}
        /\ telling # {} => held = {}
        /\ asked # {} => /\ want /\ lock = NoLock /\ held = {} /\ telling = {}
                         /\ \E id \in 1..MaxAsked : asked = {id}

WakeIInv == WakeTypeOK /\ LockInv /\ HiddenInv /\ LitInv /\ CalmInv

\* Asking for a lock: only a page that knows of none does.
LEMMA AcquireEffect ==
    ASSUME WakeTypeOK, AcquireWake, requests < MaxAsked
    PROVE  /\ requests' \in 0..MaxAsked
           /\ asked' \in SUBSET (1..MaxAsked)
           /\ lock # NoLock => asked' = asked
           /\ lock = NoLock => \E id \in 1..MaxAsked : asked' = asked \cup {id}
<1>1. requests \in 0..MaxAsked /\ asked \in SUBSET (1..MaxAsked)
  BY DEF WakeTypeOK
<1>2. CASE lock # NoLock
  BY <1>1, <1>2 DEF AcquireWake
<1>3. CASE lock = NoLock
  <2>1. requests + 1 \in 1..MaxAsked
    BY <1>1, AskedAssumption
  <2>2. requests' = requests + 1 /\ asked' = asked \cup {requests'}
    BY <1>3 DEF AcquireWake
  <2> QED  BY <1>1, <1>3, <2>1, <2>2
<1> QED  BY <1>2, <1>3

LEMMA TurnOnKeeps == ASSUME WakeIInv, TurnOn PROVE WakeIInv'
<1>1. /\ requests' \in 0..MaxAsked
      /\ asked' \in SUBSET (1..MaxAsked)
      /\ lock # NoLock => asked' = asked
      /\ lock = NoLock => \E id \in 1..MaxAsked : asked' = asked \cup {id}
  BY AcquireEffect DEF TurnOn, WakeIInv
<1>2. WakeTypeOK'
  BY <1>1 DEF TurnOn, WakeIInv, WakeTypeOK
<1>3. onScreen' /\ ~taken' /\ lock # NoLock => lock \in held
  BY DEF TurnOn, WakeIInv, LockInv, WakeTypeOK
<1>4. LockInv'
  BY <1>3 DEF TurnOn, WakeIInv, LockInv
<1>5. LitInv'
  BY <1>1, <1>3 DEF TurnOn, LitInv
<1>6. CalmInv'
  <2> SUFFICES ASSUME ~hurried' PROVE CalmInv'
    BY DEF CalmInv
  <2>1. ~hurried /\ asked = {} /\ telling = {} /\ held = {}
    BY DEF TurnOn, AtRest, WakeIInv, CalmInv
  <2>2. lock = NoLock
    BY <2>1 DEF WakeIInv, LockInv
  <2> QED  BY <1>1, <2>1, <2>2 DEF TurnOn, CalmInv
<1> QED  BY <1>2, <1>4, <1>5, <1>6 DEF TurnOn, WakeIInv, HiddenInv

LEMMA TurnOffKeeps == ASSUME WakeIInv, TurnOff PROVE WakeIInv'
<1>1. WakeTypeOK'
  <2>1. lock' \in 0..MaxAsked
    BY AskedAssumption DEF TurnOff, ReleaseWake, NoLock
  <2>2. held' \in SUBSET (1..MaxAsked) /\ telling' \in SUBSET (1..MaxAsked)
    BY DEF TurnOff, ReleaseWake, WakeIInv, WakeTypeOK
  <2> QED  BY <2>1, <2>2 DEF TurnOff, WakeIInv, WakeTypeOK
<1>2. LockInv' /\ HiddenInv' /\ LitInv'
  BY DEF TurnOff, ReleaseWake, WakeIInv, LockInv, HiddenInv, LitInv
<1>3. CalmInv'
  <2> SUFFICES ASSUME ~hurried' PROVE CalmInv'
    BY DEF CalmInv
  <2>1. ~hurried /\ asked = {} /\ telling = {} /\ held \subseteq {lock}
    BY DEF TurnOff, AtRest, WakeIInv, CalmInv
  <2> QED  BY <2>1 DEF TurnOff, ReleaseWake, CalmInv
<1> QED  BY <1>1, <1>2, <1>3 DEF WakeIInv

LEMMA ComeBackKeeps == ASSUME WakeIInv, ComeBack PROVE WakeIInv'
<1>1. lock = NoLock /\ held = {} /\ telling = {}
  BY DEF ComeBack, WakeIInv, LockInv, HiddenInv
<1>2. /\ requests' \in 0..MaxAsked
      /\ asked' \in SUBSET (1..MaxAsked)
      /\ want => \E id \in 1..MaxAsked : asked' = asked \cup {id}
      /\ ~want => asked' = asked
  <2>1. CASE want
    BY <1>1, <2>1, AcquireEffect DEF ComeBack, WakeIInv
  <2>2. CASE ~want
    BY <2>2 DEF ComeBack, WakeIInv, WakeTypeOK
  <2> QED  BY <2>1, <2>2
<1>3. WakeTypeOK'
  BY <1>2 DEF ComeBack, WakeIInv, WakeTypeOK
<1>4. LockInv' /\ HiddenInv'
  BY <1>1 DEF ComeBack, LockInv, HiddenInv
<1>5. LitInv'
  BY <1>2 DEF ComeBack, LitInv
<1>6. CalmInv'
  <2> SUFFICES ASSUME ~hurried' PROVE CalmInv'
    BY DEF CalmInv
  <2>1. asked = {}
    BY DEF ComeBack, AtRest
  <2> QED  BY <1>1, <1>2, <2>1 DEF ComeBack, CalmInv
<1> QED  BY <1>3, <1>4, <1>5, <1>6 DEF WakeIInv

LEMMA HideKeeps == ASSUME WakeIInv, Hide PROVE WakeIInv'
<1>1. WakeTypeOK'
  BY DEF Hide, WakeIInv, WakeTypeOK
<1>2. LockInv' /\ HiddenInv' /\ LitInv'
  BY DEF Hide, WakeIInv, LockInv, HiddenInv, LitInv
<1>3. CalmInv'
  BY DEF Hide, WakeIInv, CalmInv
<1> QED  BY <1>1, <1>2, <1>3 DEF WakeIInv

LEMMA GrantedKeeps == ASSUME WakeIInv, NEW id \in 1..MaxAsked, Granted(id) PROVE WakeIInv'
<1>1. WakeTypeOK'
  BY DEF Granted, WakeIInv, WakeTypeOK
<1>2. LockInv' /\ HiddenInv' /\ LitInv'
  BY DEF Granted, WakeIInv, LockInv, HiddenInv, LitInv
<1>3. CalmInv'
  <2> SUFFICES ASSUME ~hurried PROVE CalmInv'
    BY DEF Granted, CalmInv
  <2>1. held = {} /\ telling = {} /\ want /\ asked = {id}
    BY DEF Granted, WakeIInv, CalmInv
  <2> QED  BY <2>1 DEF Granted, CalmInv
<1> QED  BY <1>1, <1>2, <1>3 DEF WakeIInv

LEMMA RefusedKeeps == ASSUME WakeIInv, NEW id \in 1..MaxAsked, Refused(id) PROVE WakeIInv'
<1>1. WakeTypeOK'
  BY DEF Refused, WakeIInv, WakeTypeOK
<1>2. LockInv' /\ HiddenInv' /\ LitInv'
  BY DEF Refused, WakeIInv, LockInv, HiddenInv, LitInv
<1>3. CalmInv'
  <2> SUFFICES ASSUME ~hurried PROVE CalmInv'
    BY DEF Refused, CalmInv
  <2>1. held = {} /\ telling = {} /\ asked = {id}
    BY DEF Refused, WakeIInv, CalmInv
  <2> QED  BY <2>1 DEF Refused, CalmInv
<1> QED  BY <1>1, <1>2, <1>3 DEF WakeIInv

LEMMA ToldKeeps == ASSUME WakeIInv, NEW id \in 1..MaxAsked, Told(id) PROVE WakeIInv'
<1>1. WakeTypeOK'
  BY AskedAssumption DEF Told, NoLock, WakeIInv, WakeTypeOK
<1>2. LockInv' /\ HiddenInv' /\ LitInv'
  BY DEF Told, WakeIInv, LockInv, HiddenInv, LitInv
<1>3. CalmInv'
  <2> SUFFICES ASSUME ~hurried PROVE CalmInv'
    BY DEF Told, CalmInv
  <2>1. held = {} /\ asked = {}
    BY DEF Told, WakeIInv, CalmInv
  <2> QED  BY <2>1 DEF Told, CalmInv
<1> QED  BY <1>1, <1>2, <1>3 DEF WakeIInv

LEMMA TakeLockKeeps == ASSUME WakeIInv, NEW id \in 1..MaxAsked, TakeLock(id) PROVE WakeIInv'
<1>1. WakeTypeOK'
  BY DEF TakeLock, WakeIInv, WakeTypeOK
<1>2. LockInv' /\ HiddenInv' /\ LitInv'
  BY DEF TakeLock, WakeIInv, LockInv, HiddenInv, LitInv
<1>3. CalmInv'
  <2> SUFFICES ASSUME ~hurried PROVE CalmInv'
    BY DEF TakeLock, CalmInv
  <2>1. held = {id} /\ asked = {}
    BY DEF TakeLock, WakeIInv, CalmInv
  <2> QED  BY <2>1 DEF TakeLock, CalmInv
<1> QED  BY <1>1, <1>2, <1>3 DEF WakeIInv

\* The inductive invariant of the bulb, for any number of requests.
THEOREM WakeInvariance == WakeSpec => []WakeIInv
<1>1. ASSUME WakeInit PROVE WakeIInv
  <2>1. 0 \in 0..MaxAsked
    BY AskedAssumption
  <2>2. WakeTypeOK
    BY <1>1, <2>1 DEF WakeInit, NoLock, WakeTypeOK
  <2>3. LockInv /\ HiddenInv /\ LitInv /\ CalmInv
    BY <1>1 DEF WakeInit, LockInv, HiddenInv, LitInv, CalmInv
  <2> QED  BY <2>2, <2>3 DEF WakeIInv
<1>2. ASSUME WakeIInv, [WakeNext]_wakeVars PROVE WakeIInv'
  <2>1. CASE UNCHANGED wakeVars
    BY <1>2, <2>1 DEF wakeVars, WakeIInv, WakeTypeOK, LockInv, HiddenInv, LitInv, CalmInv
  <2>2. CASE WakeNext
    BY <1>2, <2>2, TurnOnKeeps, TurnOffKeeps, ComeBackKeeps, HideKeeps, GrantedKeeps,
       RefusedKeeps, ToldKeeps, TakeLockKeeps DEF WakeNext
  <2> QED  BY <1>2, <2>1, <2>2
<1> QED  BY <1>1, <1>2, PTL DEF WakeSpec

\* A lit bulb on screen has a lock behind it once requests and events have come, unless
\* the browser took it; one that is not lit has none, if no click came in between.
THEOREM BulbTells == WakeSpec => []BulbIsTrue
<1>1. WakeIInv => BulbIsTrue
  BY DEF WakeIInv, LitInv, CalmInv, BulbIsTrue, AtRest
<1> QED  BY WakeInvariance, <1>1, PTL

-----------------------------------------------------------------------------
(* Focus *)

FocusTypeOK ==
    /\ rows \in Seq(Row)
    /\ nextTab \in Nat

\* Whoever has the title while the request is under way is among the owners.
OwnersInv == step # "idle" => Titled(rows, wanted) \subseteq owners

\* The tab that was found is one of them.
FoundTabInv == step = "activate" => tab \in owners \/ restarted

FocusIInv == FocusTypeOK /\ OwnersInv /\ FoundTabInv

\* tab_id_for_host gives the id of a row that has the title.
LEMMA FoundHasTitle ==
    ASSUME NEW list \in Seq(Row), Titled(list, wanted) # {}
    PROVE  TabIdForHost(list) \in Titled(list, wanted)
<1> DEFINE places == {i \in 1..Len(list) : list[i].title = wanted}
           place == SelectInSeq(list, LAMBDA row : row.title = wanted)
<1>1. DOMAIN list = 1..Len(list)
  OBVIOUS
<1>2. places \in SUBSET Nat /\ places # {}
  BY <1>1 DEF Titled, Range
<1>3. PICK i \in places : \A j \in places : i <= j
  BY <1>2, Least
<1>4. place \in places
  BY <1>2, <1>3 DEF SelectInSeq, Min
<1> HIDE DEF place
<1>5. list[place] \in Range(list) /\ list[place].title = wanted
  BY <1>1, <1>4 DEF Range
<1>6. list[place].id \in Titled(list, wanted)
  BY <1>5 DEF Titled
<1> QED  BY <1>6 DEF TabIdForHost, place

\* A change of the tabs that leaves the request alone.
LEMMA WitnessKeeps ==
    ASSUME FocusIInv, NEW start \in BOOLEAN, rows' \in Seq(Row), nextTab' \in Nat,
           Witness(rows', start), UNCHANGED request
    PROVE  FocusIInv'
<1>1. OwnersInv'
  BY DEF Witness, request, OwnersInv
<1>2. FoundTabInv'
  BY DEF Witness, request, FocusIInv, FoundTabInv
<1> QED  BY <1>1, <1>2 DEF FocusIInv, FocusTypeOK

LEMMA OpenTabKeeps ==
    ASSUME FocusIInv, NEW title \in Aliases \cup {Untitled}, OpenTab(title)
    PROVE  FocusIInv'
<1>1. rows \in Seq(Row) /\ nextTab \in Nat
  BY DEF FocusIInv, FocusTypeOK
<1>2. nextTab' \in Nat
  BY <1>1 DEF OpenTab
<1> DEFINE new == [id |-> nextTab, title |-> title]
<1>3. new \in Row
  BY <1>1, TabAssumption DEF OpenTab, Row
<1>4. PICK i \in 1..Len(rows) + 1 : rows' = InsertAt(rows, i, new)
  BY DEF OpenTab
<1> HIDE DEF new
<1>5. rows' \in Seq(Row)
  <2> DEFINE front1 == SubSeq(rows, 1, i - 1)
             back1 == SubSeq(rows, i, Len(rows))
  <2>1. front1 \in Seq(Row) /\ back1 \in Seq(Row) /\ <<new>> \in Seq(Row)
    BY <1>1, <1>3
  <2>2. rows' = front1 \o <<new>> \o back1
    BY <1>4 DEF InsertAt
  <2> HIDE DEF front1, back1
  <2> QED  BY <2>1, <2>2
<1> QED  BY <1>2, <1>5, WitnessKeeps DEF OpenTab

LEMMA CloseTabKeeps ==
    ASSUME FocusIInv, NEW i \in 1..Len(rows), CloseTab(i)
    PROVE  FocusIInv'
<1>1. rows \in Seq(Row) /\ nextTab \in Nat
  BY DEF FocusIInv, FocusTypeOK
<1>2. rows' \in Seq(Row)
  <2> DEFINE front1 == SubSeq(rows, 1, i - 1)
             back1 == SubSeq(rows, i + 1, Len(rows))
  <2>1. front1 \in Seq(Row) /\ back1 \in Seq(Row)
    BY <1>1
  <2>2. rows' = front1 \o back1
    BY DEF CloseTab, RemoveAt
  <2> HIDE DEF front1, back1
  <2> QED  BY <2>1, <2>2
<1> QED  BY <1>1, <1>2, WitnessKeeps DEF CloseTab

LEMMA RetitleKeeps ==
    ASSUME FocusIInv, NEW i \in 1..Len(rows), NEW title \in Aliases \cup {Untitled},
           Retitle(i, title)
    PROVE  FocusIInv'
<1>1. rows \in Seq(Row) /\ nextTab \in Nat
  BY DEF FocusIInv, FocusTypeOK
<1>2. rows[i] \in Row
  BY <1>1
<1> DEFINE new == [rows[i] EXCEPT !.title = title]
<1>3. new \in Row
  BY <1>2 DEF Row
<1>4. rows' = [rows EXCEPT ![i] = new]
  BY DEF Retitle
<1> HIDE DEF new
<1>5. rows' \in Seq(Row)
  BY <1>1, <1>3, <1>4
<1> QED  BY <1>1, <1>5, WitnessKeeps DEF Retitle

LEMMA StartKeeps == ASSUME FocusIInv, StartWezTerm PROVE FocusIInv'
<1>1. PICK title \in Aliases \cup {Untitled} : rows' = <<[id |-> 0, title |-> title]>>
  BY DEF StartWezTerm
<1>2. [id |-> 0, title |-> title] \in Row
  BY TabAssumption DEF Row
<1>3. rows' \in Seq(Row) /\ nextTab' \in Nat
  BY <1>1, <1>2 DEF StartWezTerm
<1> QED  BY <1>3, WitnessKeeps DEF StartWezTerm

LEMMA RequestKeeps ==
    ASSUME FocusIInv,
           ListTabs \/ ActivateTab \/ CommandFails \/ \E name \in Aliases : AskToFocus(name)
    PROVE  FocusIInv'
<1>1. FocusTypeOK'
  BY DEF ListTabs, ActivateTab, CommandFails, AskToFocus, FocusIInv, FocusTypeOK
<1>2. CASE ListTabs
  <2>1. OwnersInv'
    BY <1>2 DEF ListTabs, AnswerWith, FocusIInv, OwnersInv
  <2>2. FoundTabInv'
    <3> SUFFICES ASSUME step' = "activate" PROVE tab' \in owners'
      BY DEF FoundTabInv
    <3>1. Titled(rows, wanted) # {} /\ tab' = TabIdForHost(rows)
      BY <1>2 DEF ListTabs, AnswerWith
    <3>2. tab' \in Titled(rows, wanted)
      BY <3>1, FoundHasTitle DEF FocusIInv, FocusTypeOK
    <3> QED  BY <1>2, <3>2 DEF ListTabs, FocusIInv, OwnersInv
  <2> QED  BY <1>1, <2>1, <2>2 DEF FocusIInv
<1>3. CASE ActivateTab \/ CommandFails
  BY <1>1, <1>3 DEF ActivateTab, CommandFails, AnswerWith, FocusIInv, OwnersInv, FoundTabInv
<1>4. ASSUME NEW name \in Aliases, AskToFocus(name) PROVE FocusIInv'
  BY <1>1, <1>4 DEF AskToFocus, AnswerWith, FocusIInv, OwnersInv, FoundTabInv
<1> QED  BY <1>2, <1>3, <1>4

\* The inductive invariant of a jump, for any number of tabs.
THEOREM FocusInvariance == FocusSpec => []FocusIInv
<1>1. ASSUME FocusInit PROVE FocusIInv
  BY <1>1 DEF FocusInit, FocusIInv, FocusTypeOK, OwnersInv, FoundTabInv
<1>2. ASSUME FocusIInv, [FocusNext]_focusVars PROVE FocusIInv'
  <2>1. CASE UNCHANGED focusVars
    BY <1>2, <2>1 DEF focusVars, FocusIInv, FocusTypeOK, OwnersInv, FoundTabInv
  <2>2. CASE Quit
    <3>1. rows' \in Seq(Row) /\ nextTab' \in Nat
      BY <1>2, <2>2 DEF Quit, FocusIInv, FocusTypeOK
    <3> QED  BY <1>2, <2>2, <3>1, WitnessKeeps DEF Quit
  <2>3. CASE FocusNext
    BY <1>2, <2>2, <2>3, OpenTabKeeps, CloseTabKeeps, RetitleKeeps, StartKeeps, RequestKeeps
       DEF FocusNext
  <2> QED  BY <1>2, <2>1, <2>3
<1> QED  BY <1>1, <1>2, PTL DEF FocusSpec

\* The id that was found is the only safe handle: whatever the user does to the tabs
\* between the two commands, the tab that is shown is one that had the title since the
\* click, unless WezTerm was started anew and numbers its tabs again.
THEOREM JumpsAreRight == FocusSpec => RightTabIsShown
<1> DEFINE Right == step = "activate" /\ step' = "idle" /\ front' # front
                       => front' \in owners \/ restarted
<1>1. ASSUME FocusIInv, FocusNext, step = "activate", step' = "idle", front' # front
      PROVE  front' \in owners \/ restarted
  <2>1. tab \in owners \/ restarted
    BY <1>1 DEF FocusIInv, FoundTabInv
  <2>2. ActivateTab \/ CommandFails
    BY <1>1 DEF FocusNext, AskToFocus, ListTabs, OpenTab, CloseTab, Retitle, Quit,
                StartWezTerm, request
  <2> QED  BY <1>1, <2>1, <2>2 DEF ActivateTab, CommandFails
<1>2. FocusIInv /\ [FocusNext]_focusVars => [Right]_focusVars
  BY <1>1
<1> QED  BY FocusInvariance, <1>2, PTL DEF FocusSpec, RightTabIsShown
=============================================================================
