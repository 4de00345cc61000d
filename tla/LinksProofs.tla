---------------------------- MODULE LinksProofs ----------------------------
(***************************************************************************)
(* Theorems about Links, for every number of servers, ids and seconds: its *)
(* type invariant, that no dead link is returned, and that a link which is *)
(* refreshed in time is.                                                   *)
(***************************************************************************)
EXTENDS Links, TLAPS

-----------------------------------------------------------------------------
(* Types *)

LEMMA InitTypeOK == Init => TypeOK
BY TTLAssumption, FreeAssumption
   DEF Init, TypeOK, Age, Old, Procs, Snapshot, Link

LockOK(l, at) ==
    /\ l \in Procs \cup {Free}
    /\ at \in [Procs -> {"idle", "lock", "locked", "sent"}]
    /\ \A p \in Procs : at[p] = "locked" <=> l = p

\* A command ends or goes on without the lock.
LEMMA Leaves ==
    ASSUME LockOK(lock, pc), NEW p \in Procs, NEW step \in {"idle", "sent"},
           Release(p), Goto(p, step)
    PROVE  LockOK(lock', pc')
BY FreeAssumption DEF LockOK, Release, Goto

\* A command starts to wait.
LEMMA Waits ==
    ASSUME LockOK(lock, pc), NEW p \in Procs, pc[p] = "idle", Goto(p, "lock"), lock' = lock
    PROVE  LockOK(lock', pc')
BY FreeAssumption DEF LockOK, Goto

LEMMA Gets ==
    ASSUME LockOK(lock, pc), NEW p \in Procs, Acquire(p)
    PROVE  LockOK(lock', pc')
BY FreeAssumption DEF LockOK, Acquire, Goto

LEMMA OlderIsAge ==
    ASSUME NEW age \in Age
    PROVE  Older(age) \in Age /\ Older(age) >= age /\ (age < TTL => Older(age) <= TTL)
BY TTLAssumption DEF Older, Age, Old

LEMMA CommandsAreProcs ==
    /\ \A s \in Servers : <<s, "set">> \in Procs /\ <<s, "clear">> \in Procs
    /\ Snapshot \in Procs
    /\ Commands \subseteq Procs
    /\ \A s \in Servers : <<s, "set">> \in Setters
    /\ \A c \in Setters : c[1] \in Servers
BY DEF Procs, Commands, Setters, Clearers, Snapshot

LEMMA NextTypeOK == TypeOK /\ [Next]_vars => TypeOK'
<1> SUFFICES ASSUME TypeOK, [Next]_vars PROVE TypeOK'
  OBVIOUS
<1> USE TTLAssumption, CommandsAreProcs
<1>0. LockOK(lock, pc)
  BY DEF TypeOK, LockOK
<1>z. ASSUME LockOK(lock', pc'),
             id' \in [Servers -> Ids],
             status' \in [Servers -> {"off", "up", "down"}],
             downFor' \in [Servers -> Age],
             files' \in [Ids -> Link \cup {NoLink}],
             stamp' \in [Servers -> Age],
             answer' \subseteq Servers, view' \subseteq Servers,
             published' \subseteq Servers, unread' \subseteq Ids
      PROVE  TypeOK'
  BY <1>z DEF TypeOK, LockOK
<1>1. ASSUME NEW s \in Servers, Start(s) PROVE TypeOK'
  BY <1>1 DEF TypeOK, Start
<1>2. ASSUME NEW s \in Servers, Die(s) PROVE TypeOK'
  BY <1>2 DEF TypeOK, Die
<1>3. ASSUME NEW s \in Servers, Stop(s) PROVE TypeOK'
  <2>1. LockOK(lock', pc')
    BY <1>0, <1>3, Waits DEF Stop
  <2> QED BY <1>3, <2>1, <1>z DEF TypeOK, Stop
<1>4. ASSUME NEW s \in Servers, Refresh(s) PROVE TypeOK'
  <2>1. LockOK(lock', pc')
    BY <1>0, <1>4, Waits DEF Refresh
  <2> QED BY <1>4, <2>1, <1>z DEF TypeOK, Refresh, Age, Old
<1>5. ASSUME NEW s \in Servers, WriteLink(s) PROVE TypeOK'
  <2>1. LockOK(lock', pc')
    BY <1>0, <1>5, Leaves DEF WriteLink
  <2>2. NewLink(s) \in Link
    BY DEF TypeOK, NewLink, Link
  <2> QED BY <1>5, <2>1, <2>2, <1>z DEF TypeOK, WriteLink, Age, Old
<1>6. ASSUME NEW s \in Servers, ClearLink(s) PROVE TypeOK'
  <2>1. LockOK(lock', pc')
    BY <1>0, <1>6, Leaves DEF ClearLink
  <2> QED BY <1>6, <2>1, <1>z DEF TypeOK, ClearLink, Cleared
<1>7. ASSUME NEW p \in Procs, Acquire(p) PROVE TypeOK'
  <2>1. LockOK(lock', pc')
    BY <1>0, <1>7, Gets
  <2> QED BY <1>7, <2>1, <1>z DEF TypeOK, Acquire
<1>8. ASSUME NEW c \in Commands, Abort(c) PROVE TypeOK'
  <2>1. LockOK(lock', pc')
    BY <1>0, <1>8, Leaves DEF Abort
  <2>2. stamp' \in [Servers -> Age]
    BY <1>8 DEF TypeOK, Abort, Age, Old
  <2> QED BY <1>8, <2>1, <2>2, <1>z DEF TypeOK, Abort
<1>9. ASSUME Tick PROVE TypeOK'
  <2>1. downFor' \in [Servers -> Age] /\ stamp' \in [Servers -> Age]
    BY <1>9, OlderIsAge DEF TypeOK, Tick, Age, Old
  <2>2. files' \in [Ids -> Link \cup {NoLink}]
    <3>1. ASSUME NEW i \in Ids, files[i] # NoLink
          PROVE  [files[i] EXCEPT !.age = Older(@)] \in Link
      BY <3>1, OlderIsAge DEF TypeOK, Link
    <3> QED BY <1>9, <3>1 DEF Tick, TypeOK
  <2> QED BY <1>9, <1>0, <2>1, <2>2, <1>z DEF TypeOK, Tick
<1>10. ASSUME Poll PROVE TypeOK'
  <2>1. LockOK(lock', pc')
    BY <1>0, <1>10, Waits DEF Poll
  <2> QED BY <1>10, <2>1, <1>z DEF TypeOK, Poll
<1>11. ASSUME ReadLinks PROVE TypeOK'
  <2>1. LockOK(lock', pc')
    BY <1>0, <1>11, Leaves DEF ReadLinks
  <2>2. answer' \subseteq Servers
    BY <1>11 DEF ReadLinks, TypeOK, IsLive, Link
  <2>3. unread' \subseteq Ids
    BY <1>11 DEF ReadLinks
  <2> QED BY <1>11, <2>1, <2>2, <2>3, <1>z DEF TypeOK, ReadLinks
<1>12. ASSUME Publish PROVE TypeOK'
  <2>1. LockOK(lock', pc')
    BY <1>0, <1>12, FreeAssumption DEF Publish, LockOK, Goto
  <2> QED BY <1>12, <2>1, <1>z DEF TypeOK, Publish
<1>13. ASSUME PublishUnreached PROVE TypeOK'
  <2>1. LockOK(lock', pc')
    BY <1>0, <1>13, Leaves DEF PublishUnreached
  <2> QED BY <1>13, <2>1, <1>z DEF TypeOK, PublishUnreached
<1>14. ASSUME UNCHANGED vars PROVE TypeOK'
  BY <1>14 DEF TypeOK, vars
<1> QED
  BY <1>1, <1>2, <1>3, <1>4, <1>5, <1>6, <1>7, <1>8, <1>9, <1>10, <1>11, <1>12,
     <1>13, <1>14 DEF Next

-----------------------------------------------------------------------------
(* Stamps are of their time *)

\* A server that goes down has been down for no time.
LEMMA StaysOfItsTime ==
    ASSUME TypeOK, StampInv, NEW s \in Servers, NEW age \in Age,
           IsOfItsTime(s, age), downFor' = downFor,
           status'[s] = status[s] \/ (status[s] = "up" /\ status'[s] = "down")
    PROVE  IsOfItsTime(s, age)'
BY TTLAssumption DEF TypeOK, StampInv, IsOfItsTime, Age, Old

\* What does not touch the servers keeps the stamps that were there.
LEMMA SameStamps ==
    ASSUME TypeOK, StampInv, UNCHANGED <<status, downFor>>,
           \A i \in Ids : files'[i] # NoLink =>
              \/ files'[i] = files[i]
              \/ files'[i] \in Link /\ IsOfItsTime(files'[i].owner, files'[i].age),
           \A s \in Servers : pc'[<<s, "set">>] # "idle" =>
              \/ pc[<<s, "set">>] # "idle" /\ stamp'[s] = stamp[s]
              \/ status[s] = "up" /\ stamp'[s] = 0
    PROVE  StampInv'
BY TTLAssumption DEF TypeOK, StampInv, IsOfItsTime, Age, Old, Link

LEMMA NextStampInv == TypeOK /\ StampInv /\ [Next]_vars => StampInv'
<1> SUFFICES ASSUME TypeOK, StampInv, [Next]_vars PROVE StampInv'
  OBVIOUS
<1> USE CommandsAreProcs
<1>a. ASSUME NEW s \in Servers, status[s] \in {"off", "up"},
             status' = [status EXCEPT ![s] = IF status[s] = "off" THEN "up" ELSE "down"],
             UNCHANGED <<downFor, files, stamp>>,
             \A t \in Servers : pc'[<<t, "set">>] = pc[<<t, "set">>]
      PROVE  StampInv'
  <2>1. ASSUME NEW t \in Servers, status'[t] # "down" PROVE downFor'[t] = 0
    BY <1>a, <2>1 DEF TypeOK, StampInv
  <2>2. ASSUME NEW t \in Servers, NEW age \in Age, IsOfItsTime(t, age)
        PROVE  IsOfItsTime(t, age)'
    <3>1. status'[t] = status[t] \/ (status[t] = "up" /\ status'[t] = "down")
      BY <1>a, <2>2 DEF TypeOK, IsOfItsTime
    <3> QED BY <1>a, <2>2, <3>1, StaysOfItsTime
  <2>3. \A t \in Servers : pc'[<<t, "set">>] # "idle" => IsOfItsTime(t, stamp[t])'
    BY <1>a, <2>2 DEF TypeOK, StampInv
  <2>4. \A i \in Ids : files'[i] # NoLink => IsOfItsTime(files[i].owner, files[i].age)'
    BY <1>a, <2>2 DEF TypeOK, StampInv, Link
  <2> QED BY <2>1, <2>3, <2>4 DEF StampInv
<1>1. ASSUME NEW s \in Servers, Start(s) PROVE StampInv'
  BY <1>1, <1>a DEF Start, TypeOK
<1>2. ASSUME NEW s \in Servers, Die(s) PROVE StampInv'
  BY <1>2, <1>a DEF Die, TypeOK
<1>3. ASSUME NEW s \in Servers, Stop(s) PROVE StampInv'
  <2>1. \A t \in Servers : pc'[<<t, "set">>] = pc[<<t, "set">>]
    BY <1>3 DEF Stop, Goto, TypeOK
  <2> QED BY <1>3, <1>a, <2>1 DEF Stop, TypeOK
<1>4. ASSUME NEW s \in Servers, Refresh(s) PROVE StampInv'
  BY <1>4, SameStamps DEF Refresh, Goto, TypeOK
<1>5. ASSUME NEW s \in Servers, WriteLink(s) PROVE StampInv'
  <2>1. NewLink(s) \in Link /\ IsOfItsTime(NewLink(s).owner, NewLink(s).age)
    BY <1>5 DEF WriteLink, NewLink, Link, TypeOK, StampInv
  <2> QED BY <1>5, <2>1, SameStamps DEF WriteLink, Goto, TypeOK
<1>6. ASSUME NEW s \in Servers, ClearLink(s) PROVE StampInv'
  BY <1>6, SameStamps DEF ClearLink, Cleared, Goto, TypeOK
<1>7. ASSUME NEW p \in Procs, Acquire(p) PROVE StampInv'
  BY <1>7, SameStamps DEF Acquire, Goto, TypeOK
<1>8. ASSUME NEW c \in Commands, Abort(c) PROVE StampInv'
  <2>1. \A s \in Servers : pc'[<<s, "set">>] # "idle" =>
            pc[<<s, "set">>] # "idle" /\ stamp'[s] = stamp[s]
    BY <1>8 DEF Abort, Goto, TypeOK, Setters
  <2> QED BY <1>8, <2>1, SameStamps DEF Abort
<1>9. ASSUME Tick PROVE StampInv'
  <2>1. ASSUME NEW s \in Servers, status'[s] # "down" PROVE downFor'[s] = 0
    BY <1>9, <2>1 DEF Tick
  <2>2. ASSUME NEW s \in Servers, NEW age \in Age, IsOfItsTime(s, age)
        PROVE  status'[s] = "up" \/ (status'[s] = "down" /\ downFor'[s] <= Older(age))
    BY <1>9, <2>2, TTLAssumption DEF Tick, TypeOK, IsOfItsTime, Age, Old, Older
  <2>3. \A s \in Servers : pc'[<<s, "set">>] # "idle" => IsOfItsTime(s, stamp[s])'
    BY <1>9, <2>2 DEF Tick, TypeOK, StampInv, IsOfItsTime
  <2>4. ASSUME NEW i \in Ids, files'[i] # NoLink
        PROVE  IsOfItsTime(files[i].owner, files[i].age)'
    <3>1. files[i] \in Link /\ files'[i] = [files[i] EXCEPT !.age = Older(@)]
      BY <1>9, <2>4 DEF Tick, TypeOK
    <3>2. files'[i].owner = files[i].owner /\ files'[i].age = Older(files[i].age)
      BY <3>1 DEF Link
    <3>3. IsOfItsTime(files[i].owner, files[i].age)
      BY <2>4, <3>1, NoLinkAssumption DEF StampInv, Link, Age, Old
    <3> QED BY <2>2, <3>1, <3>2, <3>3 DEF IsOfItsTime, Link
  <2> QED BY <2>1, <2>3, <2>4 DEF StampInv
<1>10. ASSUME Poll PROVE StampInv'
  BY <1>10, SameStamps DEF Poll, Goto, Snapshot, TypeOK
<1>11. ASSUME ReadLinks PROVE StampInv'
  BY <1>11, SameStamps DEF ReadLinks, Goto, Snapshot, TypeOK
<1>12. ASSUME Publish PROVE StampInv'
  BY <1>12, SameStamps DEF Publish, Goto, Snapshot, TypeOK
<1>13. ASSUME PublishUnreached PROVE StampInv'
  BY <1>13, SameStamps DEF PublishUnreached, Goto, Snapshot, TypeOK
<1>14. ASSUME UNCHANGED vars PROVE StampInv'
  BY <1>14, SameStamps DEF vars
<1> QED
  BY <1>1, <1>2, <1>3, <1>4, <1>5, <1>6, <1>7, <1>8, <1>9, <1>10, <1>11, <1>12,
     <1>13, <1>14 DEF Next

-----------------------------------------------------------------------------
(* What was published last is in the file *)

\* What neither writes nor clears a link keeps what is published.
LEMMA SamePublished ==
    ASSUME TypeOK, PublishedInv, UNCHANGED <<id, files, published>>,
           \A s \in Servers : status'[s] = "up" => status[s] = "up" \/ s \notin published,
           \A s \in Servers : pc'[<<s, "set">>] # "idle" /\ status'[s] = "up" =>
              stamp'[s] = 0 \/ (stamp'[s] = stamp[s] /\ pc[<<s, "set">>] # "idle"
                                                      /\ status[s] = "up")
    PROVE  PublishedInv'
BY TTLAssumption, IdAssumption DEF TypeOK, PublishedInv

LEMMA NextPublishedInv ==
    TypeOK /\ StampInv /\ PublishedInv /\ [Next]_vars => PublishedInv'
<1> SUFFICES ASSUME TypeOK, StampInv, PublishedInv, [Next]_vars PROVE PublishedInv'
  OBVIOUS
<1> USE CommandsAreProcs
<1>1. ASSUME NEW s \in Servers, Start(s) PROVE PublishedInv'
  <2>1. ~IsOfItsTime(s, stamp[s]) /\ ~IsOfItsTime(s, files[id[s]].age)
    BY <1>1 DEF Start, IsOfItsTime
  <2>2. s \notin published /\ pc[<<s, "set">>] = "idle"
    BY <2>1 DEF StampInv, PublishedInv, TypeOK
  <2> QED BY <1>1, <2>2, SamePublished DEF Start, TypeOK
<1>2. ASSUME NEW s \in Servers, Die(s) PROVE PublishedInv'
  BY <1>2, SamePublished DEF Die, TypeOK
<1>3. ASSUME NEW s \in Servers, Stop(s) PROVE PublishedInv'
  BY <1>3, SamePublished DEF Stop, Goto, TypeOK
<1>4. ASSUME NEW s \in Servers, Refresh(s) PROVE PublishedInv'
  BY <1>4, SamePublished DEF Refresh, Goto, TypeOK
<1>5. ASSUME NEW s \in Servers, WriteLink(s) PROVE PublishedInv'
  <2>1. /\ files'[id[s]] = NewLink(s)
        /\ \A i \in Ids : i # id[s] => files'[i] = files[i]
        /\ NewLink(s) \in Link /\ NewLink(s).owner = s /\ NewLink(s).age = stamp[s]
    BY <1>5 DEF WriteLink, NewLink, Link, TypeOK
  <2>2. files'[id[s]] # NoLink
    BY <2>1, NoLinkAssumption DEF Link, Age, Old
  <2>3. s \in Punctual /\ status[s] = "up" => stamp[s] <= TTL
    BY <1>5 DEF WriteLink, PublishedInv
  <2>4. /\ published' = (published \ SharesId(s)) \cup {s}
        /\ UNCHANGED <<id, status>>
        /\ \A t \in published' \ {s} : t \in published /\ id[t] # id[s]
    BY <1>5 DEF WriteLink, SharesId, TypeOK
  <2>5. \A t \in Servers : pc'[<<t, "set">>] # "idle" =>
            pc[<<t, "set">>] # "idle" /\ stamp'[t] = stamp[t]
    BY <1>5 DEF WriteLink, Goto, TypeOK
  <2> QED BY <2>1, <2>2, <2>3, <2>4, <2>5, IdAssumption DEF PublishedInv, TypeOK
<1>6. ASSUME NEW s \in Servers, ClearLink(s) PROVE PublishedInv'
  <2>1. /\ \A i \in Ids : i # id[s] => files'[i] = files[i]
        /\ \A t \in published' : t \in published /\ id[t] # id[s]
        /\ UNCHANGED <<id, status, stamp>>
    BY <1>6 DEF ClearLink, Cleared, SharesId, TypeOK
  <2>2. \A t \in Servers : pc'[<<t, "set">>] # "idle" => pc[<<t, "set">>] # "idle"
    BY <1>6 DEF ClearLink, Goto, TypeOK
  <2> QED BY <2>1, <2>2, IdAssumption DEF PublishedInv, TypeOK
<1>7. ASSUME NEW p \in Procs, Acquire(p) PROVE PublishedInv'
  BY <1>7, SamePublished DEF Acquire, Goto, TypeOK
<1>8. ASSUME NEW c \in Commands, Abort(c) PROVE PublishedInv'
  <2>1. \A s \in Servers : pc'[<<s, "set">>] # "idle" =>
            pc[<<s, "set">>] # "idle" /\ stamp'[s] = stamp[s]
    BY <1>8 DEF Abort, Goto, TypeOK, Setters
  <2> QED BY <1>8, <2>1, SamePublished DEF Abort
<1>9. ASSUME Tick PROVE PublishedInv'
  <2>1. UNCHANGED <<id, status, published, pc>>
    BY <1>9 DEF Tick
  <2>2. ASSUME NEW i \in Ids, files[i] # NoLink
        PROVE  /\ files'[i] # NoLink /\ files'[i].owner = files[i].owner
               /\ files'[i].age = Older(files[i].age) /\ files[i].age \in Age
    BY <1>9, <2>2, NoLinkAssumption, OlderIsAge DEF Tick, TypeOK, Link, Age, Old
  <2>3. ASSUME NEW s \in Punctual, s \in published, status[s] = "up"
        PROVE  files'[id[s]].age <= TTL
    <3>1. files[id[s]] # NoLink /\ id[s] \in Ids
      BY <2>3, IdAssumption DEF PublishedInv, TypeOK
    <3>2. ~(files[id[s]].age >= TTL)
      BY <1>9, <2>3, <3>1, IdAssumption DEF Tick, Overdue
    <3> QED BY <2>2, <3>1, <3>2, OlderIsAge, TTLAssumption DEF Age, Old
  <2>4. ASSUME NEW s \in Punctual, status[s] = "up", pc[<<s, "set">>] # "idle"
        PROVE  stamp'[s] <= TTL
    <3>1. ~(stamp[s] >= TTL) /\ stamp[s] \in Age
      BY <1>9, <2>4, IdAssumption DEF Tick, Overdue, TypeOK
    <3> QED BY <1>9, <2>4, <3>1, IdAssumption, OlderIsAge, TTLAssumption DEF Tick, Age, Old
  <2> QED BY <2>1, <2>2, <2>3, <2>4, IdAssumption DEF PublishedInv, TypeOK
<1>10. ASSUME Poll PROVE PublishedInv'
  BY <1>10, SamePublished DEF Poll, Goto, Snapshot, TypeOK
<1>11. ASSUME ReadLinks PROVE PublishedInv'
  BY <1>11, SamePublished DEF ReadLinks, Goto, Snapshot, TypeOK
<1>12. ASSUME Publish PROVE PublishedInv'
  BY <1>12, SamePublished DEF Publish, Goto, Snapshot, TypeOK
<1>13. ASSUME PublishUnreached PROVE PublishedInv'
  BY <1>13, SamePublished DEF PublishUnreached, Goto, Snapshot, TypeOK
<1>14. ASSUME UNCHANGED vars PROVE PublishedInv'
  BY <1>14, SamePublished DEF vars
<1> QED
  BY <1>1, <1>2, <1>3, <1>4, <1>5, <1>6, <1>7, <1>8, <1>9, <1>10, <1>11, <1>12,
     <1>13, <1>14 DEF Next

-----------------------------------------------------------------------------
(* The theorems *)

LEMMA InitIInv == Init => IInv
<1>1. Init => StampInv /\ PublishedInv
  BY CommandsAreProcs, IdAssumption DEF Init, StampInv, PublishedInv, Procs
<1> QED BY <1>1, InitTypeOK DEF IInv

LEMMA NextIInv == IInv /\ [Next]_vars => IInv'
BY NextTypeOK, NextStampInv, NextPublishedInv DEF IInv

\* Every variable has its type, every stamp is one that its server took while it was
\* up, and the file of an id has the link that was published last under it
\* (`link set`, `link clear` and the snapshot's read_live_links).
THEOREM Invariance == Spec => []IInv
<1> QED BY InitIInv, NextIInv, PTL DEF Spec

\* No snapshot returns the link of a server that has been down for more than TTL
\* seconds, whatever the commands and their order (storage.rs: read_live_links).
THEOREM DeadLinksAreDropped == Spec => NoDeadLink
<1>1. ASSUME IInv, [Next]_vars, NEW s \in answer' \ answer PROVE IsOfItsTime(s, TTL)
  <2>1. ReadLinks
    <3>1. answer' # answer
      BY <1>1
    <3>2. ~Publish /\ ~PublishUnreached
      BY <1>1 DEF Publish, PublishUnreached
    <3> QED BY <1>1, <3>1, <3>2 DEF Next, vars, Start, Die, Stop, Refresh, WriteLink,
                ClearLink, Acquire, Abort, Tick, Poll
  <2>2. PICK i \in Ids : IsLive(files[i]) /\ s = files[i].owner
    BY <1>1, <2>1 DEF ReadLinks
  <2>3. files[i] \in Link /\ files[i].age <= TTL /\ IsOfItsTime(s, files[i].age)
    BY <1>1, <2>2 DEF IInv, TypeOK, StampInv, IsLive
  <2>4. files[i].age \in Int /\ s \in Servers
    BY <2>2, <2>3, TTLAssumption DEF Link, Age, Old
  <2>5. downFor[s] \in Int
    BY <1>1, <2>4, TTLAssumption DEF IInv, TypeOK, Age, Old
  <2> QED BY <2>3, <2>4, <2>5, TTLAssumption DEF IsOfItsTime
<1>2. IInv /\ [Next]_vars => [\A s \in answer' \ answer : IsOfItsTime(s, TTL)]_vars
  BY <1>1
<1> QED BY <1>2, Invariance, PTL DEF Spec, NoDeadLink

\* Every snapshot that can read the file has the link of a server that refreshes it at
\* least every TTL seconds and whose id nobody else used since (storage.rs:
\* read_live_links).
THEOREM RefreshedIsKept == Spec => RefreshedIsReturned
<1>1. ASSUME IInv, [Next]_vars, pc[Snapshot] = "locked", pc'[Snapshot] = "sent",
             NEW s \in Punctual \cap published, status[s] = "up"
      PROVE  s \in answer' \/ id[s] \in unread'
  <2>1. ReadLinks
    <3>1. Snapshot \notin Commands /\ Snapshot \in Procs
      BY DEF Snapshot, Commands, Setters, Clearers, Procs
    <3>2. pc \in [Procs -> {"idle", "lock", "locked", "sent"}]
      BY <1>1 DEF IInv, TypeOK
    <3>3. ASSUME NEW p \in Procs, NEW step, Goto(p, step), p # Snapshot \/ step # "sent"
          PROVE  FALSE
      BY <1>1, <3>1, <3>2, <3>3 DEF Goto
    <3>4. pc' # pc
      BY <1>1
    <3> QED BY <1>1, <3>1, <3>3, <3>4, CommandsAreProcs
            DEF Next, vars, Start, Die, Stop, Refresh, WriteLink, ClearLink, Acquire,
                Abort, Tick, Poll, Publish, PublishUnreached
  <2>2. /\ files[id[s]] # NoLink /\ files[id[s]].owner = s
        /\ files[id[s]].age <= TTL /\ id[s] \in Ids
    BY <1>1, IdAssumption DEF IInv, PublishedInv, TypeOK
  <2> QED BY <2>1, <2>2 DEF ReadLinks, IsLive
<1>2. IInv /\ [Next]_vars =>
        [pc[Snapshot] = "locked" /\ pc'[Snapshot] = "sent" =>
            \A s \in Punctual \cap published : status[s] = "up" =>
                s \in answer' \/ id[s] \in unread']_vars
  BY <1>1
<1> QED BY <1>2, Invariance, PTL DEF Spec, RefreshedIsReturned
=============================================================================
