--------------------------- MODULE NotifierProofs ---------------------------
(***************************************************************************)
(* What Notifier promises for every number of hosts, runs, states and      *)
(* failures, every window and every limit of the seen list, as long as one *)
(* poller runs. With two the promises are broken: the run notifier_race    *)
(* shows how.                                                              *)
(***************************************************************************)
EXTENDS Notifier, TLAPS

-----------------------------------------------------------------------------
(* The list of seen ids *)

\* Marking an id adds it to the ids seen.
LEMMA RangeOfAppend ==
    ASSUME NEW S, NEW s \in Seq(S), NEW e \in S
    PROVE  /\ Append(s, e) \in Seq(S)
           /\ Range(Append(s, e)) = Range(s) \cup {e}
<1>1. Append(s, e) \in Seq(S)
  OBVIOUS
<1>2. DOMAIN Append(s, e) = 1 .. Len(s) + 1 /\ DOMAIN s = 1 .. Len(s) /\ Len(s) \in Nat
  OBVIOUS
<1>3. \A i \in 1 .. Len(s) : Append(s, e)[i] = s[i]
  OBVIOUS
<1>4. Append(s, e)[Len(s) + 1] = e
  OBVIOUS
<1>5. Range(Append(s, e)) \subseteq Range(s) \cup {e}
  BY <1>2, <1>3, <1>4 DEF Range
<1>6. Range(s) \cup {e} \subseteq Range(Append(s, e))
  BY <1>2, <1>3, <1>4 DEF Range
<1> QED
  BY <1>1, <1>5, <1>6

\* Trimming splits the ids seen into those that stay and those that are drained.
LEMMA RangeOfTrimmed ==
    ASSUME NEW S, NEW s \in Seq(S)
    PROVE  /\ Trimmed(s) \in Seq(S)
           /\ Range(s) = Range(Trimmed(s)) \cup Drained(s)
           /\ Range(s) \subseteq S
           /\ Drained(s) \subseteq S
<1> DEFINE k == Excess(s)
<1>1. k \in 0 .. Len(s)
  BY LimitAssumption DEF Excess
<1>2. DOMAIN s = 1 .. Len(s) /\ Len(s) \in Nat /\ \A i \in 1 .. Len(s) : s[i] \in S
  OBVIOUS
<1> HIDE DEF k
<1>3. /\ SubSeq(s, k + 1, Len(s)) \in Seq(S)
      /\ DOMAIN SubSeq(s, k + 1, Len(s)) = 1 .. Len(s) - k
      /\ \A i \in 1 .. Len(s) - k : SubSeq(s, k + 1, Len(s))[i] = s[k + i]
  BY <1>1, <1>2
<1>4. /\ DOMAIN SubSeq(s, 1, k) = 1 .. k
      /\ \A i \in 1 .. k : SubSeq(s, 1, k)[i] = s[i]
  BY <1>1, <1>2
<1>5. Range(SubSeq(s, k + 1, Len(s))) \cup Range(SubSeq(s, 1, k)) \subseteq Range(s)
  BY <1>1, <1>2, <1>3, <1>4 DEF Range
<1>6. ASSUME NEW i \in 1 .. Len(s)
      PROVE  s[i] \in Range(SubSeq(s, k + 1, Len(s))) \cup Range(SubSeq(s, 1, k))
  <2>1. CASE i <= k
    BY <1>1, <1>4, <2>1 DEF Range
  <2>2. CASE i > k
    <3>1. i - k \in 1 .. Len(s) - k /\ k + (i - k) = i
      BY <1>1, <1>2, <2>2
    <3>2. SubSeq(s, k + 1, Len(s))[i - k] = s[i]
      BY <1>3, <3>1
    <3> QED
      BY <1>3, <3>1, <3>2 DEF Range
  <2> QED
    BY <1>1, <1>2, <2>1, <2>2
<1>7. Range(s) \subseteq Range(SubSeq(s, k + 1, Len(s))) \cup Range(SubSeq(s, 1, k))
  BY <1>2, <1>6 DEF Range
<1>8. Range(s) \subseteq S
  BY <1>2 DEF Range
<1> QED
  BY <1>3, <1>5, <1>7, <1>8 DEF k, Trimmed, Drained

-----------------------------------------------------------------------------
(* Types *)

\* What a poller has left to go through are ids of events.
LEMMA EventsAreIds ==
    ASSUME NEW p \in Pollers
    PROVE  EventsOf(p) \subseteq EventId
<1>1. Answered(p) \subseteq Hosts
  BY DEF Answered
<1>2. 1 .. MaxUpdates \subseteq Nat \ {0}
  BY LimitAssumption
<1> QED
  BY <1>1, <1>2 DEF EventsOf, EventId

\* What is saved, and shown, are snapshots of the hosts.
LEMMA LatestAreSnapshots ==
    ASSUME TypeOK, NEW p \in Pollers, NEW last \in [Hosts -> Nat]
    PROVE  Latest(p, last) \in [Hosts -> Nat]
<1>1. fetched[p] \in [Hosts -> Nat \cup {Pending, Unreachable}]
  BY DEF TypeOK
<1>2. ASSUME NEW h \in Answered(p) PROVE fetched[p][h] \in Nat
  BY <1>1 DEF Answered, Pending, Unreachable
<1> QED
  BY <1>2 DEF Latest

\* An empty cache is a cache.
LEMMA EmptyIsCache == EmptyCache \in Cache /\ NothingShown \in [Hosts -> Nat]
BY DEF EmptyCache, Cache, NothingShown, NoSnapshot

\* What a poller does with one event, also when the record of its run is missing.
ProcessId(p, id) ==
    /\ pc[p] = "notify"
    /\ memory' = IF IsSeen(id, memory[p].seen) THEN memory
                 ELSE [memory EXCEPT ![p] =
                         [memory[p] EXCEPT !.seen = Append(memory[p].seen, id)]]
    /\ baseline' = IF id[1] \in observed /\ p \notin blind THEN baseline
                   ELSE baseline \cup ({id} \ notified)
    /\ todo' = [todo EXCEPT ![p] = todo[p] \ {id}]
    /\ \/ notified' = notified /\ repeated' = repeated
       \/ /\ ~IsSeen(id, memory[p].seen) /\ id[1] \in memory[p].initialized
          /\ notified' = notified \cup {id}
          /\ repeated' = repeated \cup ({id} \cap notified)
    /\ missed' = missed \/ missed' = missed \cup {id}
    /\ failures' \in 0 .. MaxFailures
    /\ UNCHANGED <<history, cache, pc, fetched, shown, observed, forgotten, blind>>

\* Processing takes one event of the list.
LEMMA ProcessesOne ==
    ASSUME TypeOK, NEW p \in Pollers, ProcessEvent(p) \/ RecordIsMissing(p)
    PROVE  \E id \in todo[p] : ProcessId(p, id)
<1> DEFINE Tell(id) == /\ ~IsSeen(id, memory[p].seen)
                       /\ id[1] \in memory[p].initialized
                       /\ IsAlert(p, id)
                       /\ p \notin Quiet
<1>1. PICK id \in todo[p] :
         /\ IsNext(p, id) /\ Mark(p, id)
         /\ missed' = missed \/ missed' = missed \cup {id}
         /\ failures' = failures \/ (failures < MaxFailures /\ failures' = failures + 1)
         /\ \/ notified' = notified /\ repeated' = repeated
            \/ /\ notified' = IF Tell(id) THEN notified \cup {id} ELSE notified
               /\ repeated' = IF Tell(id) THEN repeated \cup ({id} \cap notified)
                                          ELSE repeated
  <2>1. CASE ProcessEvent(p)
    BY <2>1 DEF ProcessEvent
  <2>2. CASE RecordIsMissing(p)
    BY <2>2 DEF RecordIsMissing
  <2> QED
    BY <2>1, <2>2
<1>2. failures' \in 0 .. MaxFailures
  BY <1>1, LimitAssumption DEF TypeOK
<1>3. pc[p] = "notify"
  BY <1>1 DEF IsNext
<1>4. /\ memory' = IF IsSeen(id, memory[p].seen) THEN memory
                   ELSE [memory EXCEPT ![p] =
                           [memory[p] EXCEPT !.seen = Append(memory[p].seen, id)]]
      /\ todo' = [todo EXCEPT ![p] = todo[p] \ {id}]
  BY <1>1 DEF Mark, TypeOK
<1>5. \/ notified' = notified /\ repeated' = repeated
      \/ /\ ~IsSeen(id, memory[p].seen) /\ id[1] \in memory[p].initialized
         /\ notified' = notified \cup {id}
         /\ repeated' = repeated \cup ({id} \cap notified)
  BY <1>1
<1> QED
  BY <1>1, <1>2, <1>3, <1>4, <1>5 DEF ProcessId, Mark

\* Showing takes what is not fetched from the cache, or from nothing.
LEMMA ShowsOver ==
    ASSUME NEW p \in Pollers, Show(p) \/ ShowFails(p)
    PROVE  \/ ShowOver(p, cache.last) /\ failures' = failures
           \/ /\ ShowOver(p, NothingShown)
              /\ failures < MaxFailures /\ failures' = failures + 1
BY DEF Show, ShowFails

\* Every step keeps the types.
LEMMA TypeStep ==
    ASSUME TypeOK, Next
    PROVE  TypeOK'
<1>1. ASSUME NEW h \in Hosts, Record(h) PROVE TypeOK'
  <2>1. PICK u \in Update : history' = [history EXCEPT ![h] = Append(history[h], u)]
    BY <1>1 DEF Record, TypeOK
  <2>2. history[h] \in Seq(Update) /\ Append(history[h], u) \in Seq(Update)
    BY DEF TypeOK
  <2>3. history' \in [Hosts -> Seq(Update)]
    BY <2>1, <2>2 DEF TypeOK
  <2> QED
    BY <1>1, <2>3 DEF Record, ghostVars, TypeOK
<1>2. ASSUME NEW p \in Pollers, StartPoll(p) PROVE TypeOK'
  BY <1>2 DEF StartPoll, ghostVars, TypeOK
<1>3. ASSUME NEW p \in Pollers, NEW h \in Hosts, Fetch(p, h) PROVE TypeOK'
  <2>1. Len(history[h]) \in Nat
    BY DEF TypeOK
  <2> QED
    BY <1>3, <2>1 DEF Fetch, ghostVars, TypeOK
<1>4. ASSUME NEW p \in Pollers, NEW h \in Hosts, FetchFails(p, h) PROVE TypeOK'
  BY <1>4 DEF FetchFails, ghostVars, TypeOK
<1>5. ASSUME NEW p \in Pollers, LoadCache(p) PROVE TypeOK'
  BY <1>5, EventsAreIds DEF LoadCache, ghostVars, TypeOK
<1>6. ASSUME NEW p \in Pollers, LoadFails(p) PROVE TypeOK'
  <2>1. failures' \in 0 .. MaxFailures
    BY <1>6, LimitAssumption DEF LoadFails, TypeOK
  <2> QED
    BY <1>6, <2>1, EventsAreIds, EmptyIsCache DEF LoadFails, TypeOK
<1>7. ASSUME NEW p \in Pollers, NEW id \in todo[p], ProcessId(p, id) PROVE TypeOK'
  <2>2. id \in EventId /\ memory[p] \in Cache /\ memory[p].seen \in Seq(EventId)
    BY DEF TypeOK, Cache
  <2>3. Append(memory[p].seen, id) \in Seq(EventId)
    BY <2>2
  <2>4. [memory[p] EXCEPT !.seen = Append(memory[p].seen, id)] \in Cache
    BY <2>2, <2>3 DEF Cache
  <2>5. memory' \in [Pollers -> Cache]
    BY <1>7, <2>4 DEF TypeOK, ProcessId
  <2>6. todo' \in [Pollers -> SUBSET EventId]
    BY <1>7 DEF TypeOK, ProcessId
  <2>7. /\ notified' \subseteq EventId /\ repeated' \subseteq notified'
        /\ baseline' \subseteq EventId /\ missed' \subseteq EventId
    BY <1>7, <2>2 DEF TypeOK, ProcessId
  <2> QED
    BY <1>7, <2>5, <2>6, <2>7 DEF ProcessId, TypeOK
<1>8. ASSUME NEW p \in Pollers, EventIsMissing(p) PROVE TypeOK'
  <2>1. failures' \in 0 .. MaxFailures
    BY <1>8, LimitAssumption DEF EventIsMissing, TypeOK
  <2>2. todo' \in [Pollers -> SUBSET EventId]
    BY <1>8 DEF EventIsMissing, TypeOK
  <2> QED
    BY <1>8, <2>1, <2>2 DEF EventIsMissing, ghostVars, TypeOK
<1>9. ASSUME NEW p \in Pollers, Save(p) PROVE TypeOK'
  <2>1. memory[p] \in Cache /\ memory[p].seen \in Seq(EventId) /\ memory[p].last \in [Hosts -> Nat]
    BY DEF TypeOK, Cache
  <2>2. Trimmed(memory[p].seen) \in Seq(EventId) /\ Drained(memory[p].seen) \subseteq EventId
    BY <2>1, RangeOfTrimmed
  <2>3. Initialized(p) \in SUBSET Hosts
    BY <2>1 DEF Initialized, Answered, Cache
  <2>4. cache' \in Cache
    BY <1>9, <2>1, <2>2, <2>3, LatestAreSnapshots DEF Save, Cache
  <2>5. Range(cache.seen) \subseteq EventId
    BY RangeOfTrimmed DEF TypeOK, Cache
  <2>6. observed' \subseteq Hosts /\ forgotten' \subseteq EventId
    BY <1>9, <2>2, <2>5 DEF Save, TypeOK, Answered
  <2> QED
    BY <1>9, <2>4, <2>6, EmptyIsCache DEF Save, TypeOK
<1>10. ASSUME NEW p \in Pollers, NEW last, last \in {cache.last, NothingShown},
             failures' \in 0 .. MaxFailures,
             ShowOver(p, last) PROVE TypeOK'
  <2>1. Latest(p, last) \in [Hosts -> Nat]
    BY <1>10, LatestAreSnapshots, EmptyIsCache DEF TypeOK, Cache
  <2> QED
    BY <1>10, <2>1 DEF ShowOver, TypeOK, NobodyAsked, Pending
<1>11. ASSUME NEW p \in Pollers, SaveFails(p) PROVE TypeOK'
  <2>1. Range(memory[p].seen) \subseteq EventId
    BY RangeOfTrimmed DEF TypeOK, Cache
  <2> QED
    BY <1>11, <2>1, EmptyIsCache, LimitAssumption
       DEF SaveFails, Lose, TypeOK, NobodyAsked, Pending
<1>12. ASSUME NEW p \in Pollers, Crash(p) PROVE TypeOK'
  <2>1. Range(memory[p].seen) \subseteq EventId
    BY RangeOfTrimmed DEF TypeOK, Cache
  <2> QED
    BY <1>12, <2>1, EmptyIsCache, LimitAssumption
       DEF Crash, Lose, TypeOK, NobodyAsked, Pending
<1>13. ASSUME NEW p \in Pollers, ProcessEvent(p) \/ RecordIsMissing(p) PROVE TypeOK'
  BY <1>7, <1>13, ProcessesOne
<1>14. ASSUME NEW p \in Pollers, Show(p) \/ ShowFails(p) PROVE TypeOK'
  <2>1. failures' \in 0 .. MaxFailures
    BY <1>14, ShowsOver, LimitAssumption DEF TypeOK
  <2> QED
    BY <1>10, <1>14, <2>1, ShowsOver
<1> QED
  BY <1>1, <1>2, <1>3, <1>4, <1>5, <1>6, <1>7,
     <1>8, <1>9, <1>10, <1>11, <1>12, <1>13, <1>14 DEF Next, Poll
-----------------------------------------------------------------------------
(* Marks: the ids a single poller knows *)

\* Processing an event adds it to the marks of the copy, and to nothing else but the
\* events notified or shown first.
LEMMA ProcessMarks ==
    ASSUME TypeOK, NEW p \in Pollers, NEW id \in todo[p], ProcessId(p, id)
    PROVE  /\ Range(memory'[p].seen) = Range(memory[p].seen) \cup {id}
           /\ memory'[p].initialized = memory[p].initialized
           /\ memory'[p].last = memory[p].last
           /\ notified' \subseteq notified \cup {id}
           /\ baseline' \subseteq baseline \cup {id}
<1>1. memory[p] \in Cache /\ memory[p].seen \in Seq(EventId) /\ id \in EventId
  BY DEF TypeOK, Cache
<1>2. CASE IsSeen(id, memory[p].seen)
  BY <1>2 DEF ProcessId, IsSeen
<1>3. CASE ~IsSeen(id, memory[p].seen)
  <2>1. memory'[p] = [memory[p] EXCEPT !.seen = Append(memory[p].seen, id)]
    BY <1>3 DEF ProcessId, TypeOK
  <2>2. /\ memory'[p].seen = Append(memory[p].seen, id)
        /\ memory'[p].initialized = memory[p].initialized
        /\ memory'[p].last = memory[p].last
    BY <1>1, <2>1 DEF Cache
  <2>3. Range(memory'[p].seen) = Range(memory[p].seen) \cup {id}
    BY <1>1, <2>2, RangeOfAppend
  <2> QED
    BY <2>2, <2>3 DEF ProcessId
<1> QED
  BY <1>2, <1>3

\* The poller's copy starts as the cache, or empty, and only grows, as nobody else
\* saves.
LEMMA CopyStep ==
    ASSUME TypeOK, CopyInv, OnePoller, Next
    PROVE  CopyInv'
<1>1. ASSUME NEW h \in Hosts, Record(h) PROVE CopyInv'
  BY <1>1 DEF Record, ghostVars, OnePoller, TypeOK, CopyInv
<1>2. ASSUME NEW p \in Pollers, StartPoll(p) PROVE CopyInv'
  BY <1>2 DEF StartPoll, ghostVars, OnePoller, TypeOK, CopyInv
<1>3. ASSUME NEW p \in Pollers, NEW h \in Hosts, Fetch(p, h) PROVE CopyInv'
  BY <1>3 DEF Fetch, ghostVars, OnePoller, TypeOK, CopyInv
<1>4. ASSUME NEW p \in Pollers, NEW h \in Hosts, FetchFails(p, h) PROVE CopyInv'
  BY <1>4 DEF FetchFails, ghostVars, OnePoller, TypeOK, CopyInv
<1>5. ASSUME NEW p \in Pollers, LoadCache(p) PROVE CopyInv'
  <2>1. memory'[p] = cache /\ pc'[p] = "notify" /\ UNCHANGED <<cache, blind>>
    BY <1>5 DEF LoadCache, TypeOK, ghostVars
  <2>2. p \notin blind
    BY <1>5 DEF LoadCache, AllAnswered, CopyInv
  <2> QED
    BY <2>1, <2>2 DEF OnePoller, CopyInv
<1>6. ASSUME NEW p \in Pollers, LoadFails(p) PROVE CopyInv'
  <2>1. memory'[p] = EmptyCache /\ pc'[p] = "notify" /\ blind' = blind \cup {p}
    BY <1>6 DEF LoadFails, TypeOK
  <2> QED
    BY <2>1 DEF OnePoller, CopyInv, EmptyCache
<1>7. ASSUME NEW p \in Pollers, NEW id \in todo[p], ProcessId(p, id) PROVE CopyInv'
  <2>1. pc[p] = "notify" /\ UNCHANGED <<pc, cache, blind>>
    BY <1>7 DEF ProcessId
  <2>2. /\ memory'[p].initialized = memory[p].initialized
        /\ memory'[p].last = memory[p].last
        /\ Range(memory[p].seen) \subseteq Range(memory'[p].seen)
    BY <1>7, ProcessMarks
  <2> QED
    BY <2>1, <2>2 DEF OnePoller, CopyInv
<1>8. ASSUME NEW p \in Pollers, EventIsMissing(p) PROVE CopyInv'
  BY <1>8 DEF EventIsMissing, ghostVars, OnePoller, TypeOK, CopyInv
<1>9. ASSUME NEW p \in Pollers, Save(p) PROVE CopyInv'
  <2>1. pc'[p] = "show" /\ memory'[p].seen = <<>>
    BY <1>9 DEF Save, TypeOK, EmptyCache
  <2> QED
    BY <2>1 DEF OnePoller, CopyInv
<1>10. ASSUME NEW p \in Pollers, NEW last, last \in {cache.last, NothingShown},
             failures' \in 0 .. MaxFailures,
             ShowOver(p, last) PROVE CopyInv'
  <2>1. pc[p] = "show" /\ pc'[p] = "idle" /\ p \notin blind' /\ memory' = memory
    BY <1>10 DEF ShowOver, TypeOK
  <2> QED
    BY <2>1 DEF OnePoller, CopyInv
<1>11. ASSUME NEW p \in Pollers, SaveFails(p) PROVE CopyInv'
  <2>1. pc'[p] = "idle" /\ memory'[p].seen = <<>> /\ p \notin blind'
    BY <1>11 DEF SaveFails, Lose, TypeOK, EmptyCache
  <2> QED
    BY <2>1 DEF OnePoller, CopyInv
<1>12. ASSUME NEW p \in Pollers, Crash(p) PROVE CopyInv'
  <2>1. pc'[p] = "idle" /\ memory'[p].seen = <<>> /\ p \notin blind'
    BY <1>12 DEF Crash, Lose, TypeOK, EmptyCache
  <2> QED
    BY <2>1 DEF OnePoller, CopyInv
<1>13. ASSUME NEW p \in Pollers, ProcessEvent(p) \/ RecordIsMissing(p) PROVE CopyInv'
  BY <1>7, <1>13, ProcessesOne
<1>14. ASSUME NEW p \in Pollers, Show(p) \/ ShowFails(p) PROVE CopyInv'
  <2>1. failures' \in 0 .. MaxFailures
    BY <1>14, ShowsOver, LimitAssumption DEF TypeOK
  <2> QED
    BY <1>10, <1>14, <2>1, ShowsOver
<1> QED
  BY <1>1, <1>2, <1>3, <1>4, <1>5, <1>6, <1>7,
     <1>8, <1>9, <1>10, <1>11, <1>12, <1>13, <1>14 DEF Next, Poll

\* No mark is lost without being counted as forgotten.
LEMMA MarkStep ==
    ASSUME TypeOK, CopyInv, MarkInv, OnePoller, Next
    PROVE  MarkInv'
<1>1. ASSUME NEW h \in Hosts, Record(h) PROVE MarkInv'
  BY <1>1 DEF Record, ghostVars, MarkInv
<1>2. ASSUME NEW p \in Pollers, StartPoll(p) PROVE MarkInv'
  BY <1>2 DEF StartPoll, ghostVars, MarkInv
<1>3. ASSUME NEW p \in Pollers, NEW h \in Hosts, Fetch(p, h) PROVE MarkInv'
  BY <1>3 DEF Fetch, ghostVars, MarkInv
<1>4. ASSUME NEW p \in Pollers, NEW h \in Hosts, FetchFails(p, h) PROVE MarkInv'
  BY <1>4 DEF FetchFails, ghostVars, MarkInv
<1>5. ASSUME NEW p \in Pollers, LoadCache(p) PROVE MarkInv'
  <2>1. memory'[p] = cache /\ UNCHANGED <<cache, notified, baseline, forgotten>>
    BY <1>5 DEF LoadCache, TypeOK, ghostVars
  <2>2. Range(memory[p].seen) = {}
    BY <1>5 DEF LoadCache, AllAnswered, CopyInv, Range
  <2> QED
    BY <2>1, <2>2 DEF OnePoller, MarkInv
<1>6. ASSUME NEW p \in Pollers, LoadFails(p) PROVE MarkInv'
  <2>1. UNCHANGED <<cache, notified, baseline, forgotten>>
    BY <1>6 DEF LoadFails
  <2>2. Range(memory[p].seen) = {}
    BY <1>6 DEF LoadFails, AllAnswered, CopyInv, Range
  <2> QED
    BY <2>1, <2>2 DEF OnePoller, MarkInv
<1>7. ASSUME NEW p \in Pollers, NEW id \in todo[p], ProcessId(p, id) PROVE MarkInv'
  <2>1. UNCHANGED <<cache, forgotten>>
    BY <1>7 DEF ProcessId
  <2>2. /\ Range(memory'[p].seen) = Range(memory[p].seen) \cup {id}
        /\ notified' \subseteq notified \cup {id}
        /\ baseline' \subseteq baseline \cup {id}
    BY <1>7, ProcessMarks
  <2> QED
    BY <2>1, <2>2 DEF OnePoller, MarkInv
<1>8. ASSUME NEW p \in Pollers, EventIsMissing(p) PROVE MarkInv'
  BY <1>8 DEF EventIsMissing, ghostVars, MarkInv
<1>9. ASSUME NEW p \in Pollers, Save(p) PROVE MarkInv'
  <2>1. memory[p].seen \in Seq(EventId)
    BY DEF TypeOK, Cache
  <2>2. Range(memory[p].seen) = Range(Trimmed(memory[p].seen)) \cup Drained(memory[p].seen)
    BY <2>1, RangeOfTrimmed
  <2>3. /\ cache'.seen = Trimmed(memory[p].seen)
        /\ forgotten' = forgotten \cup Drained(memory[p].seen)
                                  \cup (Range(cache.seen) \ Range(memory[p].seen))
        /\ UNCHANGED <<notified, baseline>>
    BY <1>9 DEF Save
  <2> QED
    BY <2>2, <2>3 DEF OnePoller, MarkInv
<1>10. ASSUME NEW p \in Pollers, NEW last, last \in {cache.last, NothingShown},
             failures' \in 0 .. MaxFailures,
             ShowOver(p, last) PROVE MarkInv'
  BY <1>10 DEF ShowOver, MarkInv
<1>11. ASSUME NEW p \in Pollers, SaveFails(p) PROVE MarkInv'
  <2>1. /\ forgotten' = forgotten \cup (Range(memory[p].seen) \ Range(cache.seen))
        /\ UNCHANGED <<cache, notified, baseline>>
    BY <1>11 DEF SaveFails, Lose
  <2> QED
    BY <2>1 DEF OnePoller, MarkInv
<1>12. ASSUME NEW p \in Pollers, Crash(p) PROVE MarkInv'
  <2>1. /\ forgotten' = forgotten \cup (Range(memory[p].seen) \ Range(cache.seen))
        /\ UNCHANGED <<cache, notified, baseline>>
    BY <1>12 DEF Crash, Lose
  <2> QED
    BY <2>1 DEF OnePoller, MarkInv
<1>13. ASSUME NEW p \in Pollers, ProcessEvent(p) \/ RecordIsMissing(p) PROVE MarkInv'
  BY <1>7, <1>13, ProcessesOne
<1>14. ASSUME NEW p \in Pollers, Show(p) \/ ShowFails(p) PROVE MarkInv'
  <2>1. failures' \in 0 .. MaxFailures
    BY <1>14, ShowsOver, LimitAssumption DEF TypeOK
  <2> QED
    BY <1>10, <1>14, <2>1, ShowsOver
<1> QED
  BY <1>1, <1>2, <1>3, <1>4, <1>5, <1>6, <1>7,
     <1>8, <1>9, <1>10, <1>11, <1>12, <1>13, <1>14 DEF Next, Poll

\* A host is observed when a round that it answered is saved, and no longer when the
\* cache is saved over unread.
LEMMA ObservedStep ==
    ASSUME TypeOK, CopyInv, ObservedInv, Next
    PROVE  ObservedInv'
<1>1. ASSUME NEW h \in Hosts, Record(h) PROVE ObservedInv'
  BY <1>1 DEF Record, ghostVars, ObservedInv
<1>2. ASSUME NEW p \in Pollers, StartPoll(p) PROVE ObservedInv'
  BY <1>2 DEF StartPoll, ghostVars, ObservedInv
<1>3. ASSUME NEW p \in Pollers, NEW h \in Hosts, Fetch(p, h) PROVE ObservedInv'
  BY <1>3 DEF Fetch, ghostVars, ObservedInv
<1>4. ASSUME NEW p \in Pollers, NEW h \in Hosts, FetchFails(p, h) PROVE ObservedInv'
  BY <1>4 DEF FetchFails, ghostVars, ObservedInv
<1>5. ASSUME NEW p \in Pollers, LoadCache(p) PROVE ObservedInv'
  BY <1>5 DEF LoadCache, ghostVars, ObservedInv
<1>6. ASSUME NEW p \in Pollers, LoadFails(p) PROVE ObservedInv'
  BY <1>6 DEF LoadFails, ghostVars, ObservedInv
<1>7. ASSUME NEW p \in Pollers, NEW id \in todo[p], ProcessId(p, id) PROVE ObservedInv'
  BY <1>7 DEF ProcessId, ObservedInv
<1>8. ASSUME NEW p \in Pollers, EventIsMissing(p) PROVE ObservedInv'
  BY <1>8 DEF EventIsMissing, ghostVars, ObservedInv
<1>9. ASSUME NEW p \in Pollers, Save(p) PROVE ObservedInv'
  <2>1. CASE p \in blind
    <3>1. memory[p].initialized = {}
      BY <1>9, <2>1 DEF Save, CopyInv
    <3> QED
      BY <1>9, <2>1, <3>1 DEF Save, Initialized, ObservedInv
  <2>2. CASE p \notin blind
    <3>1. memory[p].initialized = cache.initialized
      BY <1>9, <2>2 DEF Save, CopyInv
    <3> QED
      BY <1>9, <2>2, <3>1 DEF Save, Initialized, ObservedInv
  <2> QED
    BY <2>1, <2>2
<1>10. ASSUME NEW p \in Pollers, NEW last, last \in {cache.last, NothingShown},
             failures' \in 0 .. MaxFailures,
             ShowOver(p, last) PROVE ObservedInv'
  BY <1>10 DEF ShowOver, ObservedInv
<1>11. ASSUME NEW p \in Pollers, SaveFails(p) PROVE ObservedInv'
  BY <1>11 DEF SaveFails, Lose, ObservedInv
<1>12. ASSUME NEW p \in Pollers, Crash(p) PROVE ObservedInv'
  BY <1>12 DEF Crash, Lose, ObservedInv
<1>13. ASSUME NEW p \in Pollers, ProcessEvent(p) \/ RecordIsMissing(p) PROVE ObservedInv'
  BY <1>7, <1>13, ProcessesOne
<1>14. ASSUME NEW p \in Pollers, Show(p) \/ ShowFails(p) PROVE ObservedInv'
  <2>1. failures' \in 0 .. MaxFailures
    BY <1>14, ShowsOver, LimitAssumption DEF TypeOK
  <2> QED
    BY <1>10, <1>14, <2>1, ShowsOver
<1> QED
  BY <1>1, <1>2, <1>3, <1>4, <1>5, <1>6, <1>7,
     <1>8, <1>9, <1>10, <1>11, <1>12, <1>13, <1>14 DEF Next, Poll

\* What is notified again was forgotten: else its mark would be in the copy. Who could
\* not read the cache notifies nothing.
LEMMA RepeatStep ==
    ASSUME TypeOK, CopyInv, MarkInv, RepeatsOnlyForgotten, Next
    PROVE  RepeatsOnlyForgotten'
<1>1. ASSUME NEW h \in Hosts, Record(h) PROVE RepeatsOnlyForgotten'
  BY <1>1 DEF Record, ghostVars, RepeatsOnlyForgotten
<1>2. ASSUME NEW p \in Pollers, StartPoll(p) PROVE RepeatsOnlyForgotten'
  BY <1>2 DEF StartPoll, ghostVars, RepeatsOnlyForgotten
<1>3. ASSUME NEW p \in Pollers, NEW h \in Hosts, Fetch(p, h) PROVE RepeatsOnlyForgotten'
  BY <1>3 DEF Fetch, ghostVars, RepeatsOnlyForgotten
<1>4. ASSUME NEW p \in Pollers, NEW h \in Hosts, FetchFails(p, h) PROVE RepeatsOnlyForgotten'
  BY <1>4 DEF FetchFails, ghostVars, RepeatsOnlyForgotten
<1>5. ASSUME NEW p \in Pollers, LoadCache(p) PROVE RepeatsOnlyForgotten'
  BY <1>5 DEF LoadCache, ghostVars, RepeatsOnlyForgotten
<1>6. ASSUME NEW p \in Pollers, LoadFails(p) PROVE RepeatsOnlyForgotten'
  BY <1>6 DEF LoadFails, ghostVars, RepeatsOnlyForgotten
<1>7. ASSUME NEW p \in Pollers, NEW id \in todo[p], ProcessId(p, id) PROVE RepeatsOnlyForgotten'
  <2>1. CASE repeated' = repeated
    BY <1>7, <2>1 DEF ProcessId, RepeatsOnlyForgotten
  <2>2. CASE /\ ~IsSeen(id, memory[p].seen) /\ id[1] \in memory[p].initialized
             /\ repeated' = repeated \cup ({id} \cap notified)
    <3>1. p \notin blind
      BY <1>7, <2>2 DEF ProcessId, CopyInv
    <3>2. Range(cache.seen) \subseteq Range(memory[p].seen)
      BY <1>7, <3>1 DEF ProcessId, CopyInv
    <3> QED
      BY <1>7, <2>2, <3>2 DEF ProcessId, IsSeen, MarkInv, RepeatsOnlyForgotten
  <2> QED
    BY <1>7, <2>1, <2>2 DEF ProcessId
<1>8. ASSUME NEW p \in Pollers, EventIsMissing(p) PROVE RepeatsOnlyForgotten'
  BY <1>8 DEF EventIsMissing, ghostVars, RepeatsOnlyForgotten
<1>9. ASSUME NEW p \in Pollers, Save(p) PROVE RepeatsOnlyForgotten'
  BY <1>9 DEF Save, RepeatsOnlyForgotten
<1>10. ASSUME NEW p \in Pollers, NEW last, last \in {cache.last, NothingShown},
             failures' \in 0 .. MaxFailures,
             ShowOver(p, last) PROVE RepeatsOnlyForgotten'
  BY <1>10 DEF ShowOver, RepeatsOnlyForgotten
<1>11. ASSUME NEW p \in Pollers, SaveFails(p) PROVE RepeatsOnlyForgotten'
  BY <1>11 DEF SaveFails, Lose, RepeatsOnlyForgotten
<1>12. ASSUME NEW p \in Pollers, Crash(p) PROVE RepeatsOnlyForgotten'
  BY <1>12 DEF Crash, Lose, RepeatsOnlyForgotten
<1>13. ASSUME NEW p \in Pollers, ProcessEvent(p) \/ RecordIsMissing(p) PROVE RepeatsOnlyForgotten'
  BY <1>7, <1>13, ProcessesOne
<1>14. ASSUME NEW p \in Pollers, Show(p) \/ ShowFails(p) PROVE RepeatsOnlyForgotten'
  <2>1. failures' \in 0 .. MaxFailures
    BY <1>14, ShowsOver, LimitAssumption DEF TypeOK
  <2> QED
    BY <1>10, <1>14, <2>1, ShowsOver
<1> QED
  BY <1>1, <1>2, <1>3, <1>4, <1>5, <1>6, <1>7,
     <1>8, <1>9, <1>10, <1>11, <1>12, <1>13, <1>14 DEF Next, Poll

\* An event is in the baseline only while its host is not observed, and only
\* observed hosts notify.
LEMMA BaselineStep ==
    ASSUME TypeOK, CopyInv, MarkInv, ObservedInv, BaselineIsSilent, Next
    PROVE  BaselineIsSilent'
<1>1. ASSUME NEW h \in Hosts, Record(h) PROVE BaselineIsSilent'
  BY <1>1 DEF Record, ghostVars, BaselineIsSilent
<1>2. ASSUME NEW p \in Pollers, StartPoll(p) PROVE BaselineIsSilent'
  BY <1>2 DEF StartPoll, ghostVars, BaselineIsSilent
<1>3. ASSUME NEW p \in Pollers, NEW h \in Hosts, Fetch(p, h) PROVE BaselineIsSilent'
  BY <1>3 DEF Fetch, ghostVars, BaselineIsSilent
<1>4. ASSUME NEW p \in Pollers, NEW h \in Hosts, FetchFails(p, h) PROVE BaselineIsSilent'
  BY <1>4 DEF FetchFails, ghostVars, BaselineIsSilent
<1>5. ASSUME NEW p \in Pollers, LoadCache(p) PROVE BaselineIsSilent'
  BY <1>5 DEF LoadCache, ghostVars, BaselineIsSilent
<1>6. ASSUME NEW p \in Pollers, LoadFails(p) PROVE BaselineIsSilent'
  BY <1>6 DEF LoadFails, ghostVars, BaselineIsSilent
<1>7. ASSUME NEW p \in Pollers, NEW id \in todo[p], ProcessId(p, id) PROVE BaselineIsSilent'
  <2>1. pc[p] = "notify" /\ forgotten' = forgotten
    BY <1>7 DEF ProcessId
  <2>2. CASE id[1] \in observed /\ p \notin blind
    <3>1. baseline' = baseline
      BY <1>7, <2>2 DEF ProcessId
    <3>2. CASE notified' = notified
      BY <2>1, <3>1, <3>2 DEF BaselineIsSilent
    <3>3. CASE ~IsSeen(id, memory[p].seen) /\ notified' = notified \cup {id}
      <4>1. Range(cache.seen) \subseteq Range(memory[p].seen)
        BY <2>1, <2>2 DEF CopyInv
      <4> QED
        BY <2>1, <3>1, <3>3, <4>1 DEF MarkInv, BaselineIsSilent, IsSeen
    <3> QED
      BY <1>7, <3>2, <3>3 DEF ProcessId
  <2>3. CASE id[1] \notin observed \/ p \in blind
    <3>1. id[1] \notin memory[p].initialized
      BY <2>1, <2>3 DEF CopyInv, ObservedInv
    <3>2. notified' = notified /\ baseline' = baseline \cup ({id} \ notified)
      BY <1>7, <2>3, <3>1 DEF ProcessId
    <3> QED
      BY <2>1, <3>2 DEF BaselineIsSilent
  <2> QED
    BY <2>2, <2>3
<1>8. ASSUME NEW p \in Pollers, EventIsMissing(p) PROVE BaselineIsSilent'
  BY <1>8 DEF EventIsMissing, ghostVars, BaselineIsSilent
<1>9. ASSUME NEW p \in Pollers, Save(p) PROVE BaselineIsSilent'
  BY <1>9 DEF Save, BaselineIsSilent
<1>10. ASSUME NEW p \in Pollers, NEW last, last \in {cache.last, NothingShown},
             failures' \in 0 .. MaxFailures,
             ShowOver(p, last) PROVE BaselineIsSilent'
  BY <1>10 DEF ShowOver, BaselineIsSilent
<1>11. ASSUME NEW p \in Pollers, SaveFails(p) PROVE BaselineIsSilent'
  BY <1>11 DEF SaveFails, Lose, BaselineIsSilent
<1>12. ASSUME NEW p \in Pollers, Crash(p) PROVE BaselineIsSilent'
  BY <1>12 DEF Crash, Lose, BaselineIsSilent
<1>13. ASSUME NEW p \in Pollers, ProcessEvent(p) \/ RecordIsMissing(p) PROVE BaselineIsSilent'
  BY <1>7, <1>13, ProcessesOne
<1>14. ASSUME NEW p \in Pollers, Show(p) \/ ShowFails(p) PROVE BaselineIsSilent'
  <2>1. failures' \in 0 .. MaxFailures
    BY <1>14, ShowsOver, LimitAssumption DEF TypeOK
  <2> QED
    BY <1>10, <1>14, <2>1, ShowsOver
<1> QED
  BY <1>1, <1>2, <1>3, <1>4, <1>5, <1>6, <1>7,
     <1>8, <1>9, <1>10, <1>11, <1>12, <1>13, <1>14 DEF Next, Poll
-----------------------------------------------------------------------------
(* Ages: what a single poller shows, saves and fetches only gets newer *)

\* Once a round is saved, its snapshots are those of the cache.
LEMMA SavedIsLatest ==
    ASSUME TypeOK, NEW p \in Pollers, Save(p)
    PROVE  /\ cache'.last = Latest(p, memory[p].last)
           /\ fetched' = fetched
           /\ Latest(p, cache.last)' = cache'.last
<1>1. cache'.last = Latest(p, memory[p].last) /\ fetched' = fetched
  BY DEF Save
<1>2. Answered(p)' = Answered(p)
  BY <1>1 DEF Answered
<1>3. Latest(p, cache.last)' = Latest(p, cache'.last)
  BY <1>1, <1>2 DEF Latest
<1>4. Latest(p, Latest(p, memory[p].last)) = Latest(p, memory[p].last)
  BY DEF Latest, Answered
<1> QED
  BY <1>1, <1>3, <1>4

\* Before a poller shows, what it showed is saved.
LEMMA ShownIsSaved ==
    ASSUME AgeInv, NEW p \in Pollers, pc[p] # "show", NEW h \in Hosts
    PROVE  shown[p][h] <= cache.last[h]
BY DEF AgeInv

\* What is shown is saved, unless the cache was lost, and what is fetched is newer
\* than what is saved.
LEMMA AgeStep ==
    ASSUME TypeOK, CopyInv, AgeInv, OnePoller, Next
    PROVE  AgeInv'
<1>1. ASSUME NEW h \in Hosts, Record(h) PROVE AgeInv'
  <2>1. PICK u \in Update : history' = [history EXCEPT ![h] = Append(history[h], u)]
    BY <1>1 DEF Record, TypeOK
  <2>2. \A i \in Hosts : Len(history[i]) \in Nat /\ Len(history'[i]) \in Nat
    BY <2>1 DEF TypeOK
  <2>3. \A i \in Hosts : Len(history[i]) <= Len(history'[i])
    BY <2>1 DEF TypeOK
  <2>4. UNCHANGED <<cache, pc, fetched, shown, blind>>
    BY <1>1 DEF Record, ghostVars
  <2>5. \A q \in Pollers : /\ Latest(q, cache.last)' = Latest(q, cache.last)
                           /\ Answered(q)' = Answered(q)
    BY <2>4 DEF Latest, Answered
  <2>6. \A q \in Pollers : \A i \in Hosts :
           /\ cache.last[i] \in Nat
           /\ fetched[q][i] \in Nat \cup {-2, -1}
    BY DEF TypeOK, Cache, Pending, Unreachable
  <2>7. ASSUME NEW q \in Pollers, NEW i \in Hosts
        PROVE  /\ cache.last[i] <= Len(history'[i])
               /\ fetched[q][i] >= 0 =>
                     cache.last[i] <= fetched[q][i] /\ fetched[q][i] <= Len(history'[i])
    BY <2>2, <2>3, <2>6 DEF AgeInv
  <2>8. ASSUME NEW q \in Pollers, NEW i \in Hosts
        PROVE  /\ \/ shown[q][i] <= cache.last[i]
                  \/ pc[q] = "show" /\ q \in blind /\ i \notin Answered(q)
                        /\ cache.last[i] = NoSnapshot
               /\ pc[q] = "show" => Latest(q, cache.last)[i] = cache.last[i]
    BY DEF AgeInv
  <2> QED
    BY <2>4, <2>5, <2>7, <2>8 DEF AgeInv
<1>2. ASSUME NEW p \in Pollers, StartPoll(p) PROVE AgeInv'
  <2>1. pc[p] = "idle" /\ pc'[p] = "fetch" /\ UNCHANGED <<history, cache, fetched, shown>>
    BY <1>2 DEF StartPoll, TypeOK
  <2> QED
    BY <2>1 DEF OnePoller, AgeInv
<1>3. ASSUME NEW p \in Pollers, NEW h \in Hosts, Fetch(p, h) PROVE AgeInv'
  <2>1. /\ fetched' = [fetched EXCEPT ![p][h] = Len(history[h])]
        /\ pc[p] = "fetch"
        /\ UNCHANGED <<history, cache, pc, shown>>
    BY <1>3 DEF Fetch
  <2>2. \A q \in Pollers : pc[q] # "show"
    BY <2>1 DEF OnePoller
  <2>3. \A q \in Pollers, i \in Hosts :
           fetched'[q][i] = IF q = p /\ i = h THEN Len(history[h]) ELSE fetched[q][i]
    BY <2>1 DEF TypeOK
  <2>4. \A i \in Hosts : Len(history[i]) \in Nat
    BY DEF TypeOK
  <2> QED
    BY <2>1, <2>2, <2>3, <2>4 DEF AgeInv
<1>4. ASSUME NEW p \in Pollers, NEW h \in Hosts, FetchFails(p, h) PROVE AgeInv'
  <2>1. /\ fetched' = [fetched EXCEPT ![p][h] = Unreachable]
        /\ pc[p] = "fetch"
        /\ UNCHANGED <<history, cache, pc, shown>>
    BY <1>4 DEF FetchFails
  <2>2. \A q \in Pollers : pc[q] # "show"
    BY <2>1 DEF OnePoller
  <2>3. \A q \in Pollers, i \in Hosts :
           fetched'[q][i] = IF q = p /\ i = h THEN Unreachable ELSE fetched[q][i]
    BY <2>1 DEF TypeOK
  <2> QED
    BY <2>1, <2>2, <2>3 DEF AgeInv, Unreachable
<1>5. ASSUME NEW p \in Pollers, LoadCache(p) PROVE AgeInv'
  <2>1. pc[p] = "fetch" /\ pc'[p] = "notify" /\ UNCHANGED <<history, cache, fetched, shown>>
    BY <1>5 DEF LoadCache, AllAnswered, TypeOK
  <2> QED
    BY <2>1 DEF OnePoller, AgeInv
<1>6. ASSUME NEW p \in Pollers, LoadFails(p) PROVE AgeInv'
  <2>1. pc[p] = "fetch" /\ pc'[p] = "notify" /\ UNCHANGED <<history, cache, fetched, shown>>
    BY <1>6 DEF LoadFails, AllAnswered, TypeOK
  <2> QED
    BY <2>1 DEF OnePoller, AgeInv
<1>7. ASSUME NEW p \in Pollers, NEW id \in todo[p], ProcessId(p, id) PROVE AgeInv'
  <2>1. pc[p] = "notify" /\ UNCHANGED <<history, cache, pc, fetched, shown>>
    BY <1>7 DEF ProcessId
  <2> QED
    BY <2>1 DEF OnePoller, AgeInv
<1>8. ASSUME NEW p \in Pollers, EventIsMissing(p) PROVE AgeInv'
  <2>1. pc[p] = "notify" /\ UNCHANGED <<history, cache, pc, fetched, shown>>
    BY <1>8 DEF EventIsMissing, IsNext
  <2> QED
    BY <2>1 DEF OnePoller, AgeInv
<1>9. ASSUME NEW p \in Pollers, Save(p) PROVE AgeInv'
  <2>1. /\ cache'.last = Latest(p, memory[p].last)
        /\ fetched' = fetched
        /\ Latest(p, cache.last)' = cache'.last
    BY <1>9, SavedIsLatest
  <2>2. /\ pc[p] = "notify" /\ pc'[p] = "show"
        /\ UNCHANGED <<history, shown, blind>>
    BY <1>9 DEF Save, TypeOK
  <2>3. cache.last \in [Hosts -> Nat] /\ shown[p] \in [Hosts -> Nat]
    BY DEF TypeOK, Cache
  <2>4. \A h \in Hosts : Len(history[h]) \in Nat
    BY DEF TypeOK
  <2>5. Answered(p)' = Answered(p)
    BY <2>1 DEF Answered
  <2>6. ASSUME NEW h \in Hosts
        PROVE  /\ \/ shown[p][h] <= cache'.last[h]
                  \/ p \in blind /\ h \notin Answered(p) /\ cache'.last[h] = NoSnapshot
               /\ cache'.last[h] <= Len(history[h])
               /\ fetched[p][h] >= 0 =>
                     cache'.last[h] = fetched[p][h] /\ fetched[p][h] <= Len(history[h])
    <3>1. fetched[p][h] \in Nat \cup {Pending, Unreachable}
      BY DEF TypeOK
    <3>2. cache'.last[h] = IF h \in Answered(p) THEN fetched[p][h] ELSE memory[p].last[h]
      BY <2>1 DEF Latest
    <3>3. /\ shown[p][h] <= cache.last[h]
          /\ cache.last[h] <= Len(history[h])
          /\ fetched[p][h] >= 0 =>
                cache.last[h] <= fetched[p][h] /\ fetched[p][h] <= Len(history[h])
      BY <2>2, ShownIsSaved DEF AgeInv
    <3>4. CASE h \in Answered(p)
      <4>1. cache'.last[h] = fetched[p][h] /\ fetched[p][h] >= 0
        BY <3>2, <3>4 DEF Answered
      <4> QED
        BY <2>3, <2>4, <3>1, <3>3, <4>1 DEF Pending, Unreachable
    <3>5. CASE h \notin Answered(p) /\ p \in blind
      <4>1. cache'.last[h] = NoSnapshot
        BY <2>2, <3>2, <3>5 DEF CopyInv, NothingShown
      <4>2. ~(fetched[p][h] >= 0)
        BY <3>5 DEF Answered
      <4> QED
        BY <2>4, <3>5, <4>1, <4>2 DEF NoSnapshot
    <3>6. CASE h \notin Answered(p) /\ p \notin blind
      <4>1. cache'.last[h] = cache.last[h]
        BY <2>2, <3>2, <3>6 DEF CopyInv
      <4>2. ~(fetched[p][h] >= 0)
        BY <3>6 DEF Answered
      <4> QED
        BY <3>3, <4>1, <4>2
    <3> QED
      BY <3>4, <3>5, <3>6
  <2>7. ASSUME NEW h \in Hosts
        PROVE  fetched[p][h] >= 0 => cache'.last[h] <= fetched[p][h]
    <3>1. fetched[p][h] \in Nat \cup {Pending, Unreachable}
      BY DEF TypeOK
    <3> QED
      BY <2>6, <3>1 DEF Pending, Unreachable
  <2>8. \A q \in Pollers : q = p
    BY DEF OnePoller
  <2> QED
    BY <2>1, <2>2, <2>5, <2>6, <2>7, <2>8 DEF AgeInv
<1>10. ASSUME NEW p \in Pollers, NEW last, last \in {cache.last, NothingShown},
             failures' \in 0 .. MaxFailures,
             ShowOver(p, last) PROVE AgeInv'
  <2>1. /\ shown'[p] = Latest(p, last)
        /\ pc[p] = "show"
        /\ pc'[p] = "idle"
        /\ fetched'[p] = NobodyAsked
        /\ UNCHANGED <<history, cache>>
    BY <1>10 DEF ShowOver, TypeOK
  <2>2. cache.last \in [Hosts -> Nat]
    BY DEF TypeOK, Cache
  <2>3. ASSUME NEW h \in Hosts PROVE shown'[p][h] <= cache.last[h]
    <3>1. Latest(p, cache.last)[h] = cache.last[h]
      BY <2>1 DEF AgeInv
    <3>2. CASE last = cache.last
      BY <2>1, <2>2, <3>1, <3>2
    <3>3. CASE last = NothingShown
      BY <2>1, <2>2, <3>1, <3>3 DEF Latest, NothingShown, NoSnapshot
    <3> QED
      BY <1>10, <3>2, <3>3
  <2> QED
    BY <2>1, <2>2, <2>3 DEF OnePoller, AgeInv, NobodyAsked, Pending
<1>11. ASSUME NEW p \in Pollers, SaveFails(p) PROVE AgeInv'
  <2>1. /\ fetched'[p] = NobodyAsked
        /\ pc[p] = "notify"
        /\ pc'[p] = "idle"
        /\ UNCHANGED <<history, cache, shown>>
    BY <1>11 DEF SaveFails, Lose, TypeOK
  <2> QED
    BY <2>1 DEF OnePoller, AgeInv, NobodyAsked, Pending
<1>12. ASSUME NEW p \in Pollers, Crash(p) PROVE AgeInv'
  <2>1. /\ fetched'[p] = NobodyAsked
        /\ pc'[p] = "idle"
        /\ shown'[p] = NothingShown
        /\ UNCHANGED <<history, cache>>
    BY <1>12 DEF Crash, Lose, TypeOK
  <2>2. cache.last \in [Hosts -> Nat]
    BY DEF TypeOK, Cache
  <2> QED
    BY <2>1, <2>2 DEF OnePoller, AgeInv, NobodyAsked, Pending, NothingShown, NoSnapshot
<1>13. ASSUME NEW p \in Pollers, ProcessEvent(p) \/ RecordIsMissing(p) PROVE AgeInv'
  BY <1>7, <1>13, ProcessesOne
<1>14. ASSUME NEW p \in Pollers, Show(p) \/ ShowFails(p) PROVE AgeInv'
  <2>1. failures' \in 0 .. MaxFailures
    BY <1>14, ShowsOver, LimitAssumption DEF TypeOK
  <2> QED
    BY <1>10, <1>14, <2>1, ShowsOver
<1> QED
  BY <1>1, <1>2, <1>3, <1>4, <1>5, <1>6, <1>7,
     <1>8, <1>9, <1>10, <1>11, <1>12, <1>13, <1>14 DEF Next, Poll

-----------------------------------------------------------------------------
(* The theorems *)

\* The initial state is in the invariant.
LEMMA InitInv == Init => IInv
<1> SUFFICES ASSUME Init PROVE IInv
  OBVIOUS
<1>1. Range(<<>>) = {}
  BY DEF Range
<1>2. TypeOK
  BY EmptyIsCache, LimitAssumption DEF Init, TypeOK, NobodyAsked, Update
<1>3. CopyInv
  BY <1>1 DEF Init, CopyInv, EmptyCache
<1>4. MarkInv /\ ObservedInv
  BY DEF Init, MarkInv, ObservedInv, EmptyCache
<1>5. AgeInv
  BY DEF Init, AgeInv, EmptyCache, NothingShown, NoSnapshot, NobodyAsked, Pending
<1>6. RepeatsOnlyForgotten /\ BaselineIsSilent
  BY DEF Init, RepeatsOnlyForgotten, BaselineIsSilent
<1> QED
  BY <1>2, <1>3, <1>4, <1>5, <1>6 DEF IInv

\* Every step keeps the invariant, when one poller runs.
LEMMA NextInv ==
    ASSUME IInv, [Next]_vars, OnePoller
    PROVE  IInv'
<1>1. CASE Next
  <2>1. TypeOK' /\ CopyInv' /\ ObservedInv'
    BY <1>1, TypeStep, CopyStep, ObservedStep DEF IInv
  <2>2. MarkInv' /\ AgeInv'
    BY <1>1, MarkStep, AgeStep DEF IInv
  <2>3. RepeatsOnlyForgotten' /\ BaselineIsSilent'
    BY <1>1, RepeatStep, BaselineStep DEF IInv
  <2> QED
    BY <2>1, <2>2, <2>3 DEF IInv
<1>2. CASE UNCHANGED vars
  BY <1>2 DEF vars, IInv, TypeOK, CopyInv, MarkInv, ObservedInv, AgeInv, Latest, Answered,
              RepeatsOnlyForgotten, BaselineIsSilent
<1> QED
  BY <1>1, <1>2

\* The pollers are well typed, whatever their number.
THEOREM TypeCorrect == Spec => []TypeOK
<1>1. Init => TypeOK
  BY InitInv DEF IInv
<1>2. TypeOK /\ [Next]_vars => TypeOK'
  <2>1. ASSUME TypeOK, UNCHANGED vars PROVE TypeOK'
    BY <2>1 DEF vars, TypeOK
  <2> QED
    BY <2>1, TypeStep
<1> QED
  BY <1>1, <1>2, PTL DEF Spec

\* The inductive invariant of a single poller.
THEOREM Invariant ==
    ASSUME OnePoller
    PROVE  Spec => []IInv
<1>1. Init => IInv
  BY InitInv
<1>2. IInv /\ [Next]_vars => IInv'
  BY NextInv
<1> QED
  BY <1>1, <1>2, PTL DEF Spec

\* A single poller notifies an event again only when the cache lost its id.
THEOREM RepeatsAreForgotten ==
    ASSUME OnePoller
    PROVE  Spec => []RepeatsOnlyForgotten
<1>1. IInv => RepeatsOnlyForgotten
  BY DEF IInv
<1>2. Spec => []IInv
  BY Invariant
<1> QED
  BY <1>1, <1>2, PTL

\* What a host shows before it is observed is never notified by a single poller,
\* unless the cache lost its id.
THEOREM BaselinesAreSilent ==
    ASSUME OnePoller
    PROVE  Spec => []BaselineIsSilent
<1>1. IInv => BaselineIsSilent
  BY DEF IInv
<1>2. Spec => []IInv
  BY Invariant
<1> QED
  BY <1>1, <1>2, PTL

\* What a single poller shows of a host goes back only by disappearing, and of a host
\* that answers only when the poller starts again.
LEMMA DisplayStep ==
    ASSUME IInv, [Next]_vars, OnePoller
    PROVE  \A p \in Pollers : \A h \in Hosts :
              shown'[p][h] < shown[p][h] =>
                  /\ shown'[p][h] = NoSnapshot
                  /\ failures' # failures \/ p \in blind
                  /\ h \in Answered(p) => shown'[p] = NothingShown
<1>1. \A p \in Pollers : \A h \in Hosts : shown[p][h] \in Nat /\ cache.last[h] \in Nat
  BY DEF IInv, TypeOK, Cache
<1>2. failures \in Nat
  BY LimitAssumption DEF IInv, TypeOK
<1> DEFINE Goes(p, h) ==
      shown'[p][h] < shown[p][h] =>
          /\ shown'[p][h] = NoSnapshot
          /\ failures' # failures \/ p \in blind
          /\ h \in Answered(p) => shown'[p] = NothingShown
<1>3. ASSUME NEW p \in Pollers, Show(p) \/ ShowFails(p), NEW h \in Hosts
      PROVE  Goes(p, h)
  <2>1. /\ pc[p] = "show"
        /\ \/ shown'[p] = Latest(p, cache.last)
           \/ shown'[p] = Latest(p, NothingShown) /\ failures' # failures
    BY <1>2, <1>3, ShowsOver DEF ShowOver, IInv, TypeOK
  <2>2. /\ Latest(p, cache.last)[h] = cache.last[h]
        /\ \/ shown[p][h] <= cache.last[h]
           \/ p \in blind /\ h \notin Answered(p) /\ cache.last[h] = NoSnapshot
    BY <2>1 DEF IInv, AgeInv
  <2>3. CASE shown'[p] = Latest(p, cache.last)
    BY <1>1, <2>2, <2>3
  <2>4. CASE shown'[p] = Latest(p, NothingShown) /\ failures' # failures
    <3>1. CASE h \in Answered(p)
      <4>1. shown'[p][h] = cache.last[h]
        BY <2>2, <2>4, <3>1 DEF Latest
      <4> QED
        BY <1>1, <2>2, <3>1, <4>1
    <3>2. CASE h \notin Answered(p)
      BY <2>4, <3>2 DEF Latest, NothingShown
    <3> QED
      BY <3>1, <3>2
  <2> QED
    BY <2>1, <2>3, <2>4
<1>4. ASSUME NEW p \in Pollers, Crash(p), NEW h \in Hosts PROVE Goes(p, h)
  <2>1. shown'[p] = NothingShown /\ failures' # failures
    BY <1>2, <1>4 DEF Crash, Lose, IInv, TypeOK
  <2> QED
    BY <2>1 DEF NothingShown
<1>5. ASSUME NEW p \in Pollers,
             \/ StartPoll(p) \/ LoadCache(p) \/ LoadFails(p) \/ ProcessEvent(p)
             \/ RecordIsMissing(p) \/ EventIsMissing(p) \/ Save(p) \/ SaveFails(p)
      PROVE  shown' = shown
  BY <1>5 DEF StartPoll, LoadCache, LoadFails, ProcessEvent, RecordIsMissing, Mark,
              EventIsMissing, Save, SaveFails
<1>6. ASSUME NEW h \in Hosts,
             Record(h) \/ \E p \in Pollers : Fetch(p, h) \/ FetchFails(p, h)
      PROVE  shown' = shown
  BY <1>6 DEF Record, Fetch, FetchFails
<1>7. CASE shown' = shown
  BY <1>1, <1>7
<1>8. CASE \E p \in Pollers : Show(p) \/ ShowFails(p) \/ Crash(p)
  <2>1. PICK p \in Pollers : Show(p) \/ ShowFails(p) \/ Crash(p)
    BY <1>8
  <2>2. \A q \in Pollers : q = p
    BY DEF OnePoller
  <2>3. \A h \in Hosts : Goes(p, h)
    BY <1>3, <1>4, <2>1
  <2> QED
    BY <2>2, <2>3
<1>9. CASE UNCHANGED vars
  BY <1>7, <1>9 DEF vars
<1> QED
  BY <1>5, <1>6, <1>7, <1>8, <1>9 DEF Next, Poll

\* With a single poller, what is shown of a host never goes back to an older
\* snapshot. It disappears only when the poller starts again, or when a cache that
\* cannot be read meets a host that did not answer.
THEOREM DisplayGoesForward ==
    ASSUME OnePoller
    PROVE  Spec => DisplayNeverGoesBack
<1>1. IInv /\ [Next]_vars =>
         [\A p \in Pollers : \A h \in Hosts :
             shown'[p][h] < shown[p][h] =>
                 /\ shown'[p][h] = NoSnapshot
                 /\ failures' # failures \/ p \in blind
                 /\ h \in Answered(p) => shown'[p] = NothingShown]_vars
  BY DisplayStep
<1>2. Spec => []IInv
  BY Invariant
<1> QED
  BY <1>1, <1>2, PTL DEF Spec, DisplayNeverGoesBack
=============================================================================
