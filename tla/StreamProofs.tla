---------------------------- MODULE StreamProofs ----------------------------
(***************************************************************************)
(* What Stream promises for every number of connections and slots.         *)
(***************************************************************************)
EXTENDS Stream, FiniteSetTheorems, TLAPS

-----------------------------------------------------------------------------
(* Types and places *)

\* The threads are finitely many.
LEMMA ThreadsFinite == IsFiniteSet(Threads) /\ IsFiniteSet(Threads')
<1>1. Threads \subseteq Clients /\ Threads' \subseteq Clients
  BY DEF Threads
<1> QED
  BY <1>1, ClientAssumption, FS_Subset

\* A thread that runs is counted.
LEMMA ThreadsCount ==
    ASSUME SlotsAreCounted, NEW c \in Clients, thread[c] # "none"
    PROVE  /\ connections \in Nat \ {0}
           /\ Cardinality(Threads \ {c}) = connections - 1
<1>1. c \in Threads
  BY DEF Threads
<1>2. Cardinality(Threads) \in Nat /\ Cardinality(Threads \ {c}) \in Nat
  BY ThreadsFinite, FS_CardinalityType, FS_RemoveElement
<1>3. Cardinality(Threads \ {c}) = Cardinality(Threads) - 1
  BY <1>1, ThreadsFinite, FS_RemoveElement
<1> QED
  BY <1>2, <1>3 DEF SlotsAreCounted

\* Every step keeps the types.
LEMMA TypeStep ==
    ASSUME TypeOK, SlotsAreCounted, PlaceInv, Next
    PROVE  TypeOK'
<1>1. ASSUME NEW c \in Clients, Connect(c) PROVE TypeOK'
  BY <1>1, ClientAssumption, LimitAssumption DEF Connect, clientVars, acceptVars, TypeOK, Steps, StreamSteps, Requests
<1>2. ASSUME NEW c \in Clients, Ask(c) PROVE TypeOK'
  BY <1>2, ClientAssumption, LimitAssumption DEF Ask, Requests, clientVars, acceptVars, TypeOK, Steps, StreamSteps
<1>3. ASSUME NEW c \in Clients, Leave(c) PROVE TypeOK'
  BY <1>3, ClientAssumption, LimitAssumption DEF Leave, clientVars, acceptVars, TypeOK, Steps, StreamSteps, Requests
<1>4. ASSUME NEW c \in Clients, Admit(c) PROVE TypeOK'
  BY <1>4, ClientAssumption, LimitAssumption DEF Admit, HasSlot, clientVars, acceptVars, TypeOK, Steps, StreamSteps, Requests
<1>5. ASSUME NEW c \in Clients, Refuse(c) PROVE TypeOK'
  BY <1>5, ClientAssumption, LimitAssumption DEF Refuse, HasSlot, Close, clientVars, acceptVars, TypeOK, Steps, StreamSteps, Requests
<1>6. ASSUME NEW c \in Clients, Spawn(c) PROVE TypeOK'
  BY <1>6, ClientAssumption, LimitAssumption DEF Spawn, Goto, clientVars, acceptVars, TypeOK, Steps, StreamSteps, Requests
<1>7. ASSUME NEW c \in Clients, SpawnFails(c) PROVE TypeOK'
  BY <1>7, ClientAssumption, LimitAssumption DEF SpawnFails, Close, clientVars, acceptVars, TypeOK, Steps, StreamSteps, Requests
<1>8. ASSUME NEW c \in Clients, ReadRequest(c) PROVE TypeOK'
  BY <1>8, ClientAssumption, LimitAssumption DEF ReadRequest, Goto, clientVars, acceptVars, TypeOK, Steps, StreamSteps, Requests
<1>9. ASSUME NEW c \in Clients, Edit(c) PROVE TypeOK'
  BY <1>9, ClientAssumption, LimitAssumption DEF Edit, Goto, clientVars, acceptVars, TypeOK, Steps, StreamSteps, Requests
<1>10. ASSUME NEW c \in Clients, EditUnknownHost(c) PROVE TypeOK'
  BY <1>10, ClientAssumption, LimitAssumption DEF EditUnknownHost, Goto, clientVars, acceptVars, TypeOK, Steps, StreamSteps, Requests
<1>11. ASSUME NEW c \in Clients, NotifyEdit(c) PROVE TypeOK'
  BY <1>11, ClientAssumption, LimitAssumption DEF NotifyEdit, Woken, clientVars, acceptVars, TypeOK, Steps, StreamSteps, Requests
<1>12. ASSUME NEW c \in Clients, Answer(c) PROVE TypeOK'
  BY <1>12, ClientAssumption, LimitAssumption DEF Answer, Goto, clientVars, acceptVars, TypeOK, Steps, StreamSteps, Requests
<1>13. ASSUME NEW c \in Clients, Finish(c) PROVE TypeOK'
  <2>1. connections \in Nat \ {0}
    BY <1>13, ThreadsCount DEF Finish
  <2> QED
    BY <1>13, <2>1, LimitAssumption DEF Finish, Goto, Close, TypeOK, Steps
<1>14. ASSUME NEW c \in Clients, First(c) PROVE TypeOK'
  BY <1>14, ClientAssumption, LimitAssumption DEF First, Take, Goto, clientVars, acceptVars, TypeOK, Steps, StreamSteps, Requests
<1>15. ASSUME NEW c \in Clients, Send(c) PROVE TypeOK'
  BY <1>15, ClientAssumption, LimitAssumption DEF Send, Goto, clientVars, acceptVars, TypeOK, Steps, StreamSteps, Requests
<1>16. ASSUME NEW c \in Clients, Check(c) PROVE TypeOK'
  BY <1>16, ClientAssumption, LimitAssumption DEF Check, Take, Goto, clientVars, acceptVars, TypeOK, Steps, StreamSteps, Requests
<1>17. ASSUME NEW c \in Clients, TimeOut(c) PROVE TypeOK'
  BY <1>17, ClientAssumption, LimitAssumption DEF TimeOut, Goto, clientVars, acceptVars, TypeOK, Steps, StreamSteps, Requests
<1>18. ASSUME NEW c \in Clients, Recheck(c) PROVE TypeOK'
  BY <1>18, ClientAssumption, LimitAssumption DEF Recheck, Take, Goto, clientVars, acceptVars, TypeOK, Steps, StreamSteps, Requests
<1>19. ASSUME NEW c \in Clients, Ping(c) PROVE TypeOK'
  BY <1>19, ClientAssumption, LimitAssumption DEF Ping, Goto, clientVars, acceptVars, TypeOK, Steps, StreamSteps, Requests
<1>20. ASSUME NEW c \in Clients, WriteFails(c) PROVE TypeOK'
  BY <1>20, ClientAssumption, LimitAssumption DEF WriteFails, Goto, clientVars, acceptVars, TypeOK, Steps, StreamSteps, Requests
<1>21. ASSUME Publish PROVE TypeOK'
  BY <1>21, ClientAssumption, LimitAssumption DEF Publish, clientVars, acceptVars, TypeOK, Steps, StreamSteps, Requests
<1>22. ASSUME NotifyAll PROVE TypeOK'
  BY <1>22, ClientAssumption, LimitAssumption DEF NotifyAll, Woken, clientVars, acceptVars, TypeOK, Steps, StreamSteps, Requests
<1> QED
  BY <1>1, <1>2, <1>3, <1>4, <1>5, <1>6, <1>7, <1>8, <1>9, <1>10, <1>11, <1>12, <1>13, <1>14, <1>15, <1>16, <1>17, <1>18, <1>19, <1>20, <1>21, <1>22
  DEF Next, Client, Accept, Serve, Write

\* A connection stays in one place.
LEMMA PlaceStep ==
    ASSUME TypeOK, PlaceInv, Next
    PROVE  PlaceInv'
<1>1. ASSUME NEW c \in Clients, Connect(c) PROVE PlaceInv'
  BY <1>1, ClientAssumption, LimitAssumption DEF Connect, clientVars, acceptVars, TypeOK, PlaceInv
<1>2. ASSUME NEW c \in Clients, Ask(c) PROVE PlaceInv'
  BY <1>2, ClientAssumption, LimitAssumption DEF Ask, Requests, clientVars, acceptVars, TypeOK, PlaceInv
<1>3. ASSUME NEW c \in Clients, Leave(c) PROVE PlaceInv'
  BY <1>3, ClientAssumption, LimitAssumption DEF Leave, clientVars, acceptVars, TypeOK, PlaceInv
<1>4. ASSUME NEW c \in Clients, Admit(c) PROVE PlaceInv'
  BY <1>4, ClientAssumption, LimitAssumption DEF Admit, HasSlot, clientVars, acceptVars, TypeOK, PlaceInv
<1>5. ASSUME NEW c \in Clients, Refuse(c) PROVE PlaceInv'
  BY <1>5, ClientAssumption, LimitAssumption DEF Refuse, HasSlot, Close, clientVars, acceptVars, TypeOK, PlaceInv
<1>6. ASSUME NEW c \in Clients, Spawn(c) PROVE PlaceInv'
  BY <1>6, ClientAssumption, LimitAssumption DEF Spawn, Goto, clientVars, acceptVars, TypeOK, PlaceInv
<1>7. ASSUME NEW c \in Clients, SpawnFails(c) PROVE PlaceInv'
  BY <1>7, ClientAssumption, LimitAssumption DEF SpawnFails, Close, clientVars, acceptVars, TypeOK, PlaceInv
<1>8. ASSUME NEW c \in Clients, ReadRequest(c) PROVE PlaceInv'
  BY <1>8, ClientAssumption, LimitAssumption DEF ReadRequest, Goto, clientVars, acceptVars, TypeOK, PlaceInv
<1>9. ASSUME NEW c \in Clients, Edit(c) PROVE PlaceInv'
  BY <1>9, ClientAssumption, LimitAssumption DEF Edit, Goto, clientVars, acceptVars, TypeOK, PlaceInv
<1>10. ASSUME NEW c \in Clients, EditUnknownHost(c) PROVE PlaceInv'
  BY <1>10, ClientAssumption, LimitAssumption DEF EditUnknownHost, Goto, clientVars, acceptVars, TypeOK, PlaceInv
<1>11. ASSUME NEW c \in Clients, NotifyEdit(c) PROVE PlaceInv'
  BY <1>11, ClientAssumption, LimitAssumption DEF NotifyEdit, Woken, clientVars, acceptVars, TypeOK, PlaceInv
<1>12. ASSUME NEW c \in Clients, Answer(c) PROVE PlaceInv'
  BY <1>12, ClientAssumption, LimitAssumption DEF Answer, Goto, clientVars, acceptVars, TypeOK, PlaceInv
<1>13. ASSUME NEW c \in Clients, Finish(c) PROVE PlaceInv'
  BY <1>13, ClientAssumption, LimitAssumption DEF Finish, Goto, Close, clientVars, acceptVars, TypeOK, PlaceInv
<1>14. ASSUME NEW c \in Clients, First(c) PROVE PlaceInv'
  BY <1>14, ClientAssumption, LimitAssumption DEF First, Take, Goto, clientVars, acceptVars, TypeOK, PlaceInv
<1>15. ASSUME NEW c \in Clients, Send(c) PROVE PlaceInv'
  BY <1>15, ClientAssumption, LimitAssumption DEF Send, Goto, clientVars, acceptVars, TypeOK, PlaceInv
<1>16. ASSUME NEW c \in Clients, Check(c) PROVE PlaceInv'
  BY <1>16, ClientAssumption, LimitAssumption DEF Check, Take, Goto, clientVars, acceptVars, TypeOK, PlaceInv
<1>17. ASSUME NEW c \in Clients, TimeOut(c) PROVE PlaceInv'
  BY <1>17, ClientAssumption, LimitAssumption DEF TimeOut, Goto, clientVars, acceptVars, TypeOK, PlaceInv
<1>18. ASSUME NEW c \in Clients, Recheck(c) PROVE PlaceInv'
  BY <1>18, ClientAssumption, LimitAssumption DEF Recheck, Take, Goto, clientVars, acceptVars, TypeOK, PlaceInv
<1>19. ASSUME NEW c \in Clients, Ping(c) PROVE PlaceInv'
  BY <1>19, ClientAssumption, LimitAssumption DEF Ping, Goto, clientVars, acceptVars, TypeOK, PlaceInv
<1>20. ASSUME NEW c \in Clients, WriteFails(c) PROVE PlaceInv'
  BY <1>20, ClientAssumption, LimitAssumption DEF WriteFails, Goto, clientVars, acceptVars, TypeOK, PlaceInv
<1>21. ASSUME Publish PROVE PlaceInv'
  BY <1>21, ClientAssumption, LimitAssumption DEF Publish, clientVars, acceptVars, TypeOK, PlaceInv
<1>22. ASSUME NotifyAll PROVE PlaceInv'
  BY <1>22, ClientAssumption, LimitAssumption DEF NotifyAll, Woken, clientVars, acceptVars, TypeOK, PlaceInv
<1> QED
  BY <1>1, <1>2, <1>3, <1>4, <1>5, <1>6, <1>7, <1>8, <1>9, <1>10, <1>11, <1>12, <1>13, <1>14, <1>15, <1>16, <1>17, <1>18, <1>19, <1>20, <1>21, <1>22
  DEF Next, Client, Accept, Serve, Write

-----------------------------------------------------------------------------
(* The slots *)

\* Only Spawn and Finish change the threads, and they change the counter alike.
LEMMA SlotsStep ==
    ASSUME TypeOK, PlaceInv, SlotsAreCounted, Next
    PROVE  SlotsAreCounted'
<1>1. ASSUME NEW c \in Clients, Connect(c) PROVE SlotsAreCounted'
  <2>1. Threads' = Threads
    BY <1>1 DEF Threads, TypeOK, Connect, clientVars, acceptVars
  <2> QED
    BY <1>1, <2>1 DEF SlotsAreCounted, Connect, clientVars, acceptVars
<1>2. ASSUME NEW c \in Clients, Ask(c) PROVE SlotsAreCounted'
  <2>1. Threads' = Threads
    BY <1>2 DEF Threads, TypeOK, Ask, Requests, clientVars, acceptVars
  <2> QED
    BY <1>2, <2>1 DEF SlotsAreCounted, Ask, Requests, clientVars, acceptVars
<1>3. ASSUME NEW c \in Clients, Leave(c) PROVE SlotsAreCounted'
  <2>1. Threads' = Threads
    BY <1>3 DEF Threads, TypeOK, Leave, clientVars, acceptVars
  <2> QED
    BY <1>3, <2>1 DEF SlotsAreCounted, Leave, clientVars, acceptVars
<1>4. ASSUME NEW c \in Clients, Admit(c) PROVE SlotsAreCounted'
  <2>1. Threads' = Threads
    BY <1>4 DEF Threads, TypeOK, Admit, HasSlot, clientVars, acceptVars
  <2> QED
    BY <1>4, <2>1 DEF SlotsAreCounted, Admit, HasSlot, clientVars, acceptVars
<1>5. ASSUME NEW c \in Clients, Refuse(c) PROVE SlotsAreCounted'
  <2>1. Threads' = Threads
    BY <1>5 DEF Threads, TypeOK, Refuse, HasSlot, Close, clientVars, acceptVars
  <2> QED
    BY <1>5, <2>1 DEF SlotsAreCounted, Refuse, HasSlot, Close, clientVars, acceptVars
<1>6. ASSUME NEW c \in Clients, Spawn(c) PROVE SlotsAreCounted'
  <2>1. Threads' = Threads \cup {c}
    BY <1>6 DEF Threads, TypeOK, Spawn, Goto
  <2>2. c \notin Threads /\ connections < MaxConnections
    BY <1>6, ClientAssumption DEF Threads, PlaceInv, Spawn
  <2>3. Cardinality(Threads') = Cardinality(Threads) + 1
    BY <2>1, <2>2, ThreadsFinite, FS_AddElement
  <2>4. connections \in Nat
    BY DEF TypeOK
  <2> QED
    BY <1>6, <2>2, <2>3, <2>4, LimitAssumption DEF SlotsAreCounted, Spawn
<1>7. ASSUME NEW c \in Clients, SpawnFails(c) PROVE SlotsAreCounted'
  <2>1. Threads' = Threads
    BY <1>7 DEF Threads, TypeOK, SpawnFails, Close, clientVars, acceptVars
  <2> QED
    BY <1>7, <2>1 DEF SlotsAreCounted, SpawnFails, Close, clientVars, acceptVars
<1>8. ASSUME NEW c \in Clients, ReadRequest(c) PROVE SlotsAreCounted'
  <2>1. Threads' = Threads
    BY <1>8 DEF Threads, TypeOK, ReadRequest, Goto, clientVars, acceptVars
  <2> QED
    BY <1>8, <2>1 DEF SlotsAreCounted, ReadRequest, Goto, clientVars, acceptVars
<1>9. ASSUME NEW c \in Clients, Edit(c) PROVE SlotsAreCounted'
  <2>1. Threads' = Threads
    BY <1>9 DEF Threads, TypeOK, Edit, Goto, clientVars, acceptVars
  <2> QED
    BY <1>9, <2>1 DEF SlotsAreCounted, Edit, Goto, clientVars, acceptVars
<1>10. ASSUME NEW c \in Clients, EditUnknownHost(c) PROVE SlotsAreCounted'
  <2>1. Threads' = Threads
    BY <1>10 DEF Threads, TypeOK, EditUnknownHost, Goto, clientVars, acceptVars
  <2> QED
    BY <1>10, <2>1 DEF SlotsAreCounted, EditUnknownHost, Goto, clientVars, acceptVars
<1>11. ASSUME NEW c \in Clients, NotifyEdit(c) PROVE SlotsAreCounted'
  <2>1. Threads' = Threads
    BY <1>11 DEF Threads, TypeOK, NotifyEdit, Woken, clientVars, acceptVars
  <2> QED
    BY <1>11, <2>1 DEF SlotsAreCounted, NotifyEdit, Woken, clientVars, acceptVars
<1>12. ASSUME NEW c \in Clients, Answer(c) PROVE SlotsAreCounted'
  <2>1. Threads' = Threads
    BY <1>12 DEF Threads, TypeOK, Answer, Goto, clientVars, acceptVars
  <2> QED
    BY <1>12, <2>1 DEF SlotsAreCounted, Answer, Goto, clientVars, acceptVars
<1>13. ASSUME NEW c \in Clients, Finish(c) PROVE SlotsAreCounted'
  <2>1. Threads' = Threads \ {c}
    BY <1>13 DEF Threads, TypeOK, Finish, Goto
  <2>2. thread[c] # "none"
    BY <1>13 DEF Finish
  <2>3. Cardinality(Threads') = connections - 1
    BY <2>1, <2>2, ThreadsCount
  <2>4. connections \in Nat
    BY DEF TypeOK
  <2> QED
    BY <1>13, <2>3, <2>4, LimitAssumption DEF SlotsAreCounted, Finish
<1>14. ASSUME NEW c \in Clients, First(c) PROVE SlotsAreCounted'
  <2>1. Threads' = Threads
    BY <1>14 DEF Threads, TypeOK, First, Take, Goto, clientVars, acceptVars
  <2> QED
    BY <1>14, <2>1 DEF SlotsAreCounted, First, Take, Goto, clientVars, acceptVars
<1>15. ASSUME NEW c \in Clients, Send(c) PROVE SlotsAreCounted'
  <2>1. Threads' = Threads
    BY <1>15 DEF Threads, TypeOK, Send, Goto, clientVars, acceptVars
  <2> QED
    BY <1>15, <2>1 DEF SlotsAreCounted, Send, Goto, clientVars, acceptVars
<1>16. ASSUME NEW c \in Clients, Check(c) PROVE SlotsAreCounted'
  <2>1. Threads' = Threads
    BY <1>16 DEF Threads, TypeOK, Check, Take, Goto, clientVars, acceptVars
  <2> QED
    BY <1>16, <2>1 DEF SlotsAreCounted, Check, Take, Goto, clientVars, acceptVars
<1>17. ASSUME NEW c \in Clients, TimeOut(c) PROVE SlotsAreCounted'
  <2>1. Threads' = Threads
    BY <1>17 DEF Threads, TypeOK, TimeOut, Goto, clientVars, acceptVars
  <2> QED
    BY <1>17, <2>1 DEF SlotsAreCounted, TimeOut, Goto, clientVars, acceptVars
<1>18. ASSUME NEW c \in Clients, Recheck(c) PROVE SlotsAreCounted'
  <2>1. Threads' = Threads
    BY <1>18 DEF Threads, TypeOK, Recheck, Take, Goto, clientVars, acceptVars
  <2> QED
    BY <1>18, <2>1 DEF SlotsAreCounted, Recheck, Take, Goto, clientVars, acceptVars
<1>19. ASSUME NEW c \in Clients, Ping(c) PROVE SlotsAreCounted'
  <2>1. Threads' = Threads
    BY <1>19 DEF Threads, TypeOK, Ping, Goto, clientVars, acceptVars
  <2> QED
    BY <1>19, <2>1 DEF SlotsAreCounted, Ping, Goto, clientVars, acceptVars
<1>20. ASSUME NEW c \in Clients, WriteFails(c) PROVE SlotsAreCounted'
  <2>1. Threads' = Threads
    BY <1>20 DEF Threads, TypeOK, WriteFails, Goto, clientVars, acceptVars
  <2> QED
    BY <1>20, <2>1 DEF SlotsAreCounted, WriteFails, Goto, clientVars, acceptVars
<1>21. ASSUME Publish PROVE SlotsAreCounted'
  <2>1. Threads' = Threads
    BY <1>21 DEF Threads, TypeOK, Publish, clientVars, acceptVars
  <2> QED
    BY <1>21, <2>1 DEF SlotsAreCounted, Publish, clientVars, acceptVars
<1>22. ASSUME NotifyAll PROVE SlotsAreCounted'
  <2>1. Threads' = Threads
    BY <1>22 DEF Threads, TypeOK, NotifyAll, Woken, clientVars, acceptVars
  <2> QED
    BY <1>22, <2>1 DEF SlotsAreCounted, NotifyAll, Woken, clientVars, acceptVars
<1> QED
  BY <1>1, <1>2, <1>3, <1>4, <1>5, <1>6, <1>7, <1>8, <1>9, <1>10, <1>11, <1>12, <1>13, <1>14, <1>15, <1>16, <1>17, <1>18, <1>19, <1>20, <1>21, <1>22
  DEF Next, Client, Accept, Serve, Write

-----------------------------------------------------------------------------
(* Waking and order *)

\* No step loses a wake-up.
LEMMA WakeupStep ==
    ASSUME TypeOK, PlaceInv, NoLostWakeup, Next
    PROVE  NoLostWakeup'
<1>1. ASSUME NEW c \in Clients, Connect(c) PROVE NoLostWakeup'
  BY <1>1, ClientAssumption DEF Connect, clientVars, acceptVars, TypeOK, NoLostWakeup
<1>2. ASSUME NEW c \in Clients, Ask(c) PROVE NoLostWakeup'
  BY <1>2, ClientAssumption DEF Ask, Requests, clientVars, acceptVars, TypeOK, NoLostWakeup
<1>3. ASSUME NEW c \in Clients, Leave(c) PROVE NoLostWakeup'
  BY <1>3, ClientAssumption DEF Leave, clientVars, acceptVars, TypeOK, NoLostWakeup
<1>4. ASSUME NEW c \in Clients, Admit(c) PROVE NoLostWakeup'
  BY <1>4, ClientAssumption DEF Admit, HasSlot, clientVars, acceptVars, TypeOK, NoLostWakeup
<1>5. ASSUME NEW c \in Clients, Refuse(c) PROVE NoLostWakeup'
  BY <1>5, ClientAssumption DEF Refuse, HasSlot, Close, clientVars, acceptVars, TypeOK, NoLostWakeup
<1>6. ASSUME NEW c \in Clients, Spawn(c) PROVE NoLostWakeup'
  <2>1. thread[c] = "none"
    BY <1>6, ClientAssumption DEF Spawn, PlaceInv
  <2> QED
    BY <1>6, <2>1 DEF Spawn, Goto, clientVars, TypeOK, NoLostWakeup
<1>7. ASSUME NEW c \in Clients, SpawnFails(c) PROVE NoLostWakeup'
  BY <1>7, ClientAssumption DEF SpawnFails, Close, clientVars, acceptVars, TypeOK, NoLostWakeup
<1>8. ASSUME NEW c \in Clients, ReadRequest(c) PROVE NoLostWakeup'
  BY <1>8, ClientAssumption DEF ReadRequest, Goto, clientVars, acceptVars, TypeOK, NoLostWakeup
<1>9. ASSUME NEW c \in Clients, Edit(c) PROVE NoLostWakeup'
  BY <1>9, ClientAssumption DEF Edit, Goto, clientVars, acceptVars, TypeOK, NoLostWakeup
<1>10. ASSUME NEW c \in Clients, EditUnknownHost(c) PROVE NoLostWakeup'
  BY <1>10, ClientAssumption DEF EditUnknownHost, Goto, clientVars, acceptVars, TypeOK, NoLostWakeup
<1>11. ASSUME NEW c \in Clients, NotifyEdit(c) PROVE NoLostWakeup'
  BY <1>11, ClientAssumption DEF NotifyEdit, Woken, clientVars, acceptVars, TypeOK, NoLostWakeup
<1>12. ASSUME NEW c \in Clients, Answer(c) PROVE NoLostWakeup'
  BY <1>12, ClientAssumption DEF Answer, Goto, clientVars, acceptVars, TypeOK, NoLostWakeup
<1>13. ASSUME NEW c \in Clients, Finish(c) PROVE NoLostWakeup'
  BY <1>13, ClientAssumption DEF Finish, Goto, Close, clientVars, acceptVars, TypeOK, NoLostWakeup
<1>14. ASSUME NEW c \in Clients, First(c) PROVE NoLostWakeup'
  BY <1>14, ClientAssumption DEF First, Take, Goto, clientVars, acceptVars, TypeOK, NoLostWakeup
<1>15. ASSUME NEW c \in Clients, Send(c) PROVE NoLostWakeup'
  BY <1>15, ClientAssumption DEF Send, Goto, clientVars, acceptVars, TypeOK, NoLostWakeup
<1>16. ASSUME NEW c \in Clients, Check(c) PROVE NoLostWakeup'
  BY <1>16, ClientAssumption DEF Check, Take, Goto, clientVars, acceptVars, TypeOK, NoLostWakeup
<1>17. ASSUME NEW c \in Clients, TimeOut(c) PROVE NoLostWakeup'
  BY <1>17, ClientAssumption DEF TimeOut, Goto, clientVars, acceptVars, TypeOK, NoLostWakeup
<1>18. ASSUME NEW c \in Clients, Recheck(c) PROVE NoLostWakeup'
  BY <1>18, ClientAssumption DEF Recheck, Take, Goto, clientVars, acceptVars, TypeOK, NoLostWakeup
<1>19. ASSUME NEW c \in Clients, Ping(c) PROVE NoLostWakeup'
  BY <1>19, ClientAssumption DEF Ping, Goto, clientVars, acceptVars, TypeOK, NoLostWakeup
<1>20. ASSUME NEW c \in Clients, WriteFails(c) PROVE NoLostWakeup'
  BY <1>20, ClientAssumption DEF WriteFails, Goto, clientVars, acceptVars, TypeOK, NoLostWakeup
<1>21. ASSUME Publish PROVE NoLostWakeup'
  BY <1>21, ClientAssumption DEF Publish, clientVars, acceptVars, TypeOK, NoLostWakeup
<1>22. ASSUME NotifyAll PROVE NoLostWakeup'
  BY <1>22, ClientAssumption DEF NotifyAll, Woken, clientVars, acceptVars, TypeOK, NoLostWakeup
<1> QED
  BY <1>1, <1>2, <1>3, <1>4, <1>5, <1>6, <1>7, <1>8, <1>9, <1>10, <1>11, <1>12, <1>13, <1>14, <1>15, <1>16, <1>17, <1>18, <1>19, <1>20, <1>21, <1>22
  DEF Next, Client, Accept, Serve, Write

\* Versions only grow, and a stream takes the latest.
LEMMA OrderStep ==
    ASSUME TypeOK, PlaceInv, OrderInv, Next
    PROVE  OrderInv'
<1>1. ASSUME NEW c \in Clients, Connect(c) PROVE OrderInv'
  BY <1>1, ClientAssumption DEF Connect, clientVars, acceptVars, TypeOK, PlaceInv, OrderInv
<1>2. ASSUME NEW c \in Clients, Ask(c) PROVE OrderInv'
  BY <1>2, ClientAssumption DEF Ask, Requests, clientVars, acceptVars, TypeOK, PlaceInv, OrderInv
<1>3. ASSUME NEW c \in Clients, Leave(c) PROVE OrderInv'
  BY <1>3, ClientAssumption DEF Leave, clientVars, acceptVars, TypeOK, PlaceInv, OrderInv
<1>4. ASSUME NEW c \in Clients, Admit(c) PROVE OrderInv'
  BY <1>4, ClientAssumption DEF Admit, HasSlot, clientVars, acceptVars, TypeOK, PlaceInv, OrderInv
<1>5. ASSUME NEW c \in Clients, Refuse(c) PROVE OrderInv'
  BY <1>5, ClientAssumption DEF Refuse, HasSlot, Close, clientVars, acceptVars, TypeOK, PlaceInv, OrderInv
<1>6. ASSUME NEW c \in Clients, Spawn(c) PROVE OrderInv'
  BY <1>6, ClientAssumption DEF Spawn, Goto, clientVars, acceptVars, TypeOK, PlaceInv, OrderInv
<1>7. ASSUME NEW c \in Clients, SpawnFails(c) PROVE OrderInv'
  BY <1>7, ClientAssumption DEF SpawnFails, Close, clientVars, acceptVars, TypeOK, PlaceInv, OrderInv
<1>8. ASSUME NEW c \in Clients, ReadRequest(c) PROVE OrderInv'
  BY <1>8, ClientAssumption DEF ReadRequest, Goto, clientVars, acceptVars, TypeOK, PlaceInv, OrderInv
<1>9. ASSUME NEW c \in Clients, Edit(c) PROVE OrderInv'
  BY <1>9, ClientAssumption DEF Edit, Goto, clientVars, acceptVars, TypeOK, PlaceInv, OrderInv
<1>10. ASSUME NEW c \in Clients, EditUnknownHost(c) PROVE OrderInv'
  BY <1>10, ClientAssumption DEF EditUnknownHost, Goto, clientVars, acceptVars, TypeOK, PlaceInv, OrderInv
<1>11. ASSUME NEW c \in Clients, NotifyEdit(c) PROVE OrderInv'
  BY <1>11, ClientAssumption DEF NotifyEdit, Woken, clientVars, acceptVars, TypeOK, PlaceInv, OrderInv
<1>12. ASSUME NEW c \in Clients, Answer(c) PROVE OrderInv'
  BY <1>12, ClientAssumption DEF Answer, Goto, clientVars, acceptVars, TypeOK, PlaceInv, OrderInv
<1>13. ASSUME NEW c \in Clients, Finish(c) PROVE OrderInv'
  BY <1>13, ClientAssumption DEF Finish, Goto, Close, clientVars, acceptVars, TypeOK, PlaceInv, OrderInv
<1>14. ASSUME NEW c \in Clients, First(c) PROVE OrderInv'
  BY <1>14, ClientAssumption DEF First, Take, Goto, clientVars, acceptVars, TypeOK, PlaceInv, OrderInv
<1>15. ASSUME NEW c \in Clients, Send(c) PROVE OrderInv'
  BY <1>15, ClientAssumption DEF Send, Goto, clientVars, acceptVars, TypeOK, PlaceInv, OrderInv
<1>16. ASSUME NEW c \in Clients, Check(c) PROVE OrderInv'
  BY <1>16, ClientAssumption DEF Check, Take, Goto, clientVars, acceptVars, TypeOK, PlaceInv, OrderInv
<1>17. ASSUME NEW c \in Clients, TimeOut(c) PROVE OrderInv'
  BY <1>17, ClientAssumption DEF TimeOut, Goto, clientVars, acceptVars, TypeOK, PlaceInv, OrderInv
<1>18. ASSUME NEW c \in Clients, Recheck(c) PROVE OrderInv'
  BY <1>18, ClientAssumption DEF Recheck, Take, Goto, clientVars, acceptVars, TypeOK, PlaceInv, OrderInv
<1>19. ASSUME NEW c \in Clients, Ping(c) PROVE OrderInv'
  BY <1>19, ClientAssumption DEF Ping, Goto, clientVars, acceptVars, TypeOK, PlaceInv, OrderInv
<1>20. ASSUME NEW c \in Clients, WriteFails(c) PROVE OrderInv'
  BY <1>20, ClientAssumption DEF WriteFails, Goto, clientVars, acceptVars, TypeOK, PlaceInv, OrderInv
<1>21. ASSUME Publish PROVE OrderInv'
  BY <1>21, ClientAssumption DEF Publish, clientVars, acceptVars, TypeOK, PlaceInv, OrderInv
<1>22. ASSUME NotifyAll PROVE OrderInv'
  BY <1>22, ClientAssumption DEF NotifyAll, Woken, clientVars, acceptVars, TypeOK, PlaceInv, OrderInv
<1> QED
  BY <1>1, <1>2, <1>3, <1>4, <1>5, <1>6, <1>7, <1>8, <1>9, <1>10, <1>11, <1>12, <1>13, <1>14, <1>15, <1>16, <1>17, <1>18, <1>19, <1>20, <1>21, <1>22
  DEF Next, Client, Accept, Serve, Write

-----------------------------------------------------------------------------
(* The invariant *)

\* The inductive invariant of the threads of a server.
THEOREM Invariant == Spec => []IInv
<1>1. Init => IInv
  <2> SUFFICES ASSUME Init PROVE IInv
    OBVIOUS
  <2>1. TypeOK
    BY LimitAssumption DEF Init, TypeOK, Steps, Requests
  <2>2. PlaceInv
    BY ClientAssumption DEF Init, PlaceInv
  <2>3. SlotsAreCounted
    <3>1. Threads = {}
      BY DEF Init, Threads
    <3> QED
      BY <3>1, FS_EmptySet, LimitAssumption DEF Init, SlotsAreCounted
  <2>4. NoLostWakeup
    BY DEF Init, NoLostWakeup
  <2>5. OrderInv
    BY DEF Init, OrderInv
  <2> QED
    BY <2>1, <2>2, <2>3, <2>4, <2>5 DEF IInv
<1>2. IInv /\ [Next]_vars => IInv'
  <2> SUFFICES ASSUME IInv, [Next]_vars PROVE IInv'
    OBVIOUS
  <2>1. CASE Next
    BY <2>1, TypeStep, PlaceStep, SlotsStep, WakeupStep, OrderStep DEF IInv
  <2>2. CASE UNCHANGED vars
    BY <2>2 DEF vars, clientVars, acceptVars, IInv, TypeOK, PlaceInv, SlotsAreCounted,
       Threads, NoLostWakeup, OrderInv
  <2> QED
    BY <2>1, <2>2
<1> QED
  BY <1>1, <1>2, PTL DEF Spec

\* Every reachable state of a server is well typed.
THEOREM TypeCorrect == Spec => []TypeOK
<1>1. IInv => TypeOK
  BY DEF IInv
<1> QED
  BY <1>1, Invariant, PTL

\* The counter of connections is the number of threads and stays in its limit.
THEOREM SlotsCounted == Spec => []SlotsAreCounted
<1>1. IInv => SlotsAreCounted
  BY DEF IInv
<1> QED
  BY <1>1, Invariant, PTL

\* No stream sleeps through a state.
THEOREM WakeupsArrive == Spec => []NoLostWakeup
<1>1. IInv => NoLostWakeup
  BY DEF IInv
<1> QED
  BY <1>1, Invariant, PTL

-----------------------------------------------------------------------------
(* A stream implements Subscription *)

\* Every step of a server is a step of Subscription or changes nothing it sees:
\* a request for the stream joins, a send delivers, a page that leaves leaves.
LEMMA StepImplements ==
    ASSUME IInv, Next
    PROVE  Promise!Next \/ UNCHANGED Promise!vars
<1>1. ASSUME NEW c \in Clients, Connect(c) PROVE Promise!Next \/ UNCHANGED Promise!vars
  <2>1. Open' = Open
    BY <1>1, ClientAssumption DEF Open, Connect, clientVars, acceptVars, IInv, TypeOK, PlaceInv, OrderInv, StreamSteps
  <2>2. Received' = Received /\ version' = version
    BY <1>1, <2>1 DEF Received, Open, Connect, clientVars, acceptVars, IInv, TypeOK, PlaceInv, OrderInv, StreamSteps
  <2> QED
    BY <2>1, <2>2 DEF Promise!vars
<1>2. ASSUME NEW c \in Clients, Ask(c) PROVE Promise!Next \/ UNCHANGED Promise!vars
  <2>1. Open' = Open
    BY <1>2, ClientAssumption DEF Open, Ask, Requests, clientVars, acceptVars, IInv, TypeOK, PlaceInv, OrderInv, StreamSteps
  <2>2. Received' = Received /\ version' = version
    BY <1>2, <2>1 DEF Received, Open, Ask, Requests, clientVars, acceptVars, IInv, TypeOK, PlaceInv, OrderInv, StreamSteps
  <2> QED
    BY <2>1, <2>2 DEF Promise!vars
<1>3. ASSUME NEW c \in Clients, Leave(c) PROVE Promise!Next \/ UNCHANGED Promise!vars
  <2>1. Open' = Open \ {c} /\ version' = version /\ received' = received
    BY <1>3 DEF Open, Leave, clientVars, acceptVars, IInv, TypeOK, StreamSteps
  <2>2. CASE c \in Open
    <3>1. Received' = [Received EXCEPT ![c] = 0]
      BY <2>1, <2>2 DEF Received
    <3> QED
      BY <2>1, <2>2, <3>1 DEF Promise!Next, Promise!Leave
  <2>3. CASE c \notin Open
    <3>1. Open' = Open /\ Received' = Received
      BY <2>1, <2>3 DEF Received
    <3> QED
      BY <2>1, <3>1 DEF Promise!vars
  <2> QED
    BY <2>2, <2>3
<1>4. ASSUME NEW c \in Clients, Admit(c) PROVE Promise!Next \/ UNCHANGED Promise!vars
  <2>1. Open' = Open
    BY <1>4, ClientAssumption DEF Open, Admit, HasSlot, clientVars, acceptVars, IInv, TypeOK, PlaceInv, OrderInv, StreamSteps
  <2>2. Received' = Received /\ version' = version
    BY <1>4, <2>1 DEF Received, Open, Admit, HasSlot, clientVars, acceptVars, IInv, TypeOK, PlaceInv, OrderInv, StreamSteps
  <2> QED
    BY <2>1, <2>2 DEF Promise!vars
<1>5. ASSUME NEW c \in Clients, Refuse(c) PROVE Promise!Next \/ UNCHANGED Promise!vars
  <2>1. Open' = Open
    BY <1>5, ClientAssumption DEF Open, Refuse, HasSlot, Close, clientVars, acceptVars, IInv, TypeOK, PlaceInv, OrderInv, StreamSteps
  <2>2. Received' = Received /\ version' = version
    BY <1>5, <2>1 DEF Received, Open, Refuse, HasSlot, Close, clientVars, acceptVars, IInv, TypeOK, PlaceInv, OrderInv, StreamSteps
  <2> QED
    BY <2>1, <2>2 DEF Promise!vars
<1>6. ASSUME NEW c \in Clients, Spawn(c) PROVE Promise!Next \/ UNCHANGED Promise!vars
  <2>1. Open' = Open
    BY <1>6, ClientAssumption DEF Open, Spawn, Goto, clientVars, acceptVars, IInv, TypeOK, PlaceInv, OrderInv, StreamSteps
  <2>2. Received' = Received /\ version' = version
    BY <1>6, <2>1 DEF Received, Open, Spawn, Goto, clientVars, acceptVars, IInv, TypeOK, PlaceInv, OrderInv, StreamSteps
  <2> QED
    BY <2>1, <2>2 DEF Promise!vars
<1>7. ASSUME NEW c \in Clients, SpawnFails(c) PROVE Promise!Next \/ UNCHANGED Promise!vars
  <2>1. Open' = Open
    BY <1>7, ClientAssumption DEF Open, SpawnFails, Close, clientVars, acceptVars, IInv, TypeOK, PlaceInv, OrderInv, StreamSteps
  <2>2. Received' = Received /\ version' = version
    BY <1>7, <2>1 DEF Received, Open, SpawnFails, Close, clientVars, acceptVars, IInv, TypeOK, PlaceInv, OrderInv, StreamSteps
  <2> QED
    BY <2>1, <2>2 DEF Promise!vars
<1>8. ASSUME NEW c \in Clients, ReadRequest(c) PROVE Promise!Next \/ UNCHANGED Promise!vars
  <2>1. CASE socket[c] = "connected" /\ ask[c] = "stream"
    <3>1. Open' = Open \cup {c} /\ c \notin Open /\ version' = version
      BY <1>8, <2>1 DEF Open, ReadRequest, Goto, clientVars, acceptVars, IInv, TypeOK, StreamSteps
    <3>2. received' = received /\ received[c] = 0
      BY <1>8 DEF ReadRequest, Goto, clientVars, acceptVars, IInv, OrderInv
    <3>3. Received' = Received
      BY <3>1, <3>2 DEF Received
    <3> QED
      BY <3>1, <3>3 DEF Promise!Next, Promise!Join
  <2>2. CASE ~(socket[c] = "connected" /\ ask[c] = "stream")
    <3>1. Open' = Open /\ Received' = Received /\ version' = version
      BY <1>8, <2>2 DEF Open, Received, ReadRequest, Goto, clientVars, acceptVars, IInv, TypeOK, StreamSteps
    <3> QED
      BY <3>1 DEF Promise!vars
  <2> QED
    BY <2>1, <2>2
<1>9. ASSUME NEW c \in Clients, Edit(c) PROVE Promise!Next \/ UNCHANGED Promise!vars
  <2>1. Open' = Open /\ Received' = Received
    BY <1>9 DEF Open, Received, Edit, Goto, clientVars, acceptVars, IInv, TypeOK, StreamSteps
  <2> QED
    BY <1>9, <2>1 DEF Edit, Promise!Next, Promise!Publish
<1>10. ASSUME NEW c \in Clients, EditUnknownHost(c) PROVE Promise!Next \/ UNCHANGED Promise!vars
  <2>1. Open' = Open
    BY <1>10, ClientAssumption DEF Open, EditUnknownHost, Goto, clientVars, acceptVars, IInv, TypeOK, PlaceInv, OrderInv, StreamSteps
  <2>2. Received' = Received /\ version' = version
    BY <1>10, <2>1 DEF Received, Open, EditUnknownHost, Goto, clientVars, acceptVars, IInv, TypeOK, PlaceInv, OrderInv, StreamSteps
  <2> QED
    BY <2>1, <2>2 DEF Promise!vars
<1>11. ASSUME NEW c \in Clients, NotifyEdit(c) PROVE Promise!Next \/ UNCHANGED Promise!vars
  <2>1. Open' = Open
    BY <1>11, ClientAssumption DEF Open, NotifyEdit, Woken, clientVars, acceptVars, IInv, TypeOK, PlaceInv, OrderInv, StreamSteps
  <2>2. Received' = Received /\ version' = version
    BY <1>11, <2>1 DEF Received, Open, NotifyEdit, Woken, clientVars, acceptVars, IInv, TypeOK, PlaceInv, OrderInv, StreamSteps
  <2> QED
    BY <2>1, <2>2 DEF Promise!vars
<1>12. ASSUME NEW c \in Clients, Answer(c) PROVE Promise!Next \/ UNCHANGED Promise!vars
  <2>1. Open' = Open
    BY <1>12, ClientAssumption DEF Open, Answer, Goto, clientVars, acceptVars, IInv, TypeOK, PlaceInv, OrderInv, StreamSteps
  <2>2. Received' = Received /\ version' = version
    BY <1>12, <2>1 DEF Received, Open, Answer, Goto, clientVars, acceptVars, IInv, TypeOK, PlaceInv, OrderInv, StreamSteps
  <2> QED
    BY <2>1, <2>2 DEF Promise!vars
<1>13. ASSUME NEW c \in Clients, Finish(c) PROVE Promise!Next \/ UNCHANGED Promise!vars
  <2>1. Open' = Open
    BY <1>13, ClientAssumption DEF Open, Finish, Goto, Close, clientVars, acceptVars, IInv, TypeOK, PlaceInv, OrderInv, StreamSteps
  <2>2. Received' = Received /\ version' = version
    BY <1>13, <2>1 DEF Received, Open, Finish, Goto, Close, clientVars, acceptVars, IInv, TypeOK, PlaceInv, OrderInv, StreamSteps
  <2> QED
    BY <2>1, <2>2 DEF Promise!vars
<1>14. ASSUME NEW c \in Clients, First(c) PROVE Promise!Next \/ UNCHANGED Promise!vars
  <2>1. Open' = Open
    BY <1>14, ClientAssumption DEF Open, First, Take, Goto, clientVars, acceptVars, IInv, TypeOK, PlaceInv, OrderInv, StreamSteps
  <2>2. Received' = Received /\ version' = version
    BY <1>14, <2>1 DEF Received, Open, First, Take, Goto, clientVars, acceptVars, IInv, TypeOK, PlaceInv, OrderInv, StreamSteps
  <2> QED
    BY <2>1, <2>2 DEF Promise!vars
<1>15. ASSUME NEW c \in Clients, Send(c) PROVE Promise!Next \/ UNCHANGED Promise!vars
  <2>1. CASE socket[c] = "connected"
    <3>1. Open' = Open /\ c \in Open /\ version' = version
      BY <1>15, <2>1 DEF Open, Send, Goto, clientVars, acceptVars, IInv, TypeOK, StreamSteps
    <3>2. Received' = [Received EXCEPT ![c] = seen[c]] /\ Received[c] = received[c]
      BY <1>15, <2>1, <3>1 DEF Received, Send, IInv, TypeOK
    <3>3. seen[c] \in received[c] + 1 .. version
      BY <1>15 DEF Send, IInv, TypeOK, OrderInv
    <3> QED
      BY <3>1, <3>2, <3>3 DEF Promise!Next, Promise!Deliver
  <2>2. CASE socket[c] = "left"
    <3>1. Open' = Open /\ Received' = Received /\ version' = version
      BY <1>15, <2>2 DEF Open, Received, Send, Goto, clientVars, acceptVars, IInv, TypeOK, StreamSteps
    <3> QED
      BY <3>1 DEF Promise!vars
  <2> QED
    BY <1>15, <2>1, <2>2 DEF Send
<1>16. ASSUME NEW c \in Clients, Check(c) PROVE Promise!Next \/ UNCHANGED Promise!vars
  <2>1. Open' = Open
    BY <1>16, ClientAssumption DEF Open, Check, Take, Goto, clientVars, acceptVars, IInv, TypeOK, PlaceInv, OrderInv, StreamSteps
  <2>2. Received' = Received /\ version' = version
    BY <1>16, <2>1 DEF Received, Open, Check, Take, Goto, clientVars, acceptVars, IInv, TypeOK, PlaceInv, OrderInv, StreamSteps
  <2> QED
    BY <2>1, <2>2 DEF Promise!vars
<1>17. ASSUME NEW c \in Clients, TimeOut(c) PROVE Promise!Next \/ UNCHANGED Promise!vars
  <2>1. Open' = Open
    BY <1>17, ClientAssumption DEF Open, TimeOut, Goto, clientVars, acceptVars, IInv, TypeOK, PlaceInv, OrderInv, StreamSteps
  <2>2. Received' = Received /\ version' = version
    BY <1>17, <2>1 DEF Received, Open, TimeOut, Goto, clientVars, acceptVars, IInv, TypeOK, PlaceInv, OrderInv, StreamSteps
  <2> QED
    BY <2>1, <2>2 DEF Promise!vars
<1>18. ASSUME NEW c \in Clients, Recheck(c) PROVE Promise!Next \/ UNCHANGED Promise!vars
  <2>1. Open' = Open
    BY <1>18, ClientAssumption DEF Open, Recheck, Take, Goto, clientVars, acceptVars, IInv, TypeOK, PlaceInv, OrderInv, StreamSteps
  <2>2. Received' = Received /\ version' = version
    BY <1>18, <2>1 DEF Received, Open, Recheck, Take, Goto, clientVars, acceptVars, IInv, TypeOK, PlaceInv, OrderInv, StreamSteps
  <2> QED
    BY <2>1, <2>2 DEF Promise!vars
<1>19. ASSUME NEW c \in Clients, Ping(c) PROVE Promise!Next \/ UNCHANGED Promise!vars
  <2>1. Open' = Open
    BY <1>19, ClientAssumption DEF Open, Ping, Goto, clientVars, acceptVars, IInv, TypeOK, PlaceInv, OrderInv, StreamSteps
  <2>2. Received' = Received /\ version' = version
    BY <1>19, <2>1 DEF Received, Open, Ping, Goto, clientVars, acceptVars, IInv, TypeOK, PlaceInv, OrderInv, StreamSteps
  <2> QED
    BY <2>1, <2>2 DEF Promise!vars
<1>20. ASSUME NEW c \in Clients, WriteFails(c) PROVE Promise!Next \/ UNCHANGED Promise!vars
  <2>1. Open' = Open
    BY <1>20, ClientAssumption DEF Open, WriteFails, Goto, clientVars, acceptVars, IInv, TypeOK, PlaceInv, OrderInv, StreamSteps
  <2>2. Received' = Received /\ version' = version
    BY <1>20, <2>1 DEF Received, Open, WriteFails, Goto, clientVars, acceptVars, IInv, TypeOK, PlaceInv, OrderInv, StreamSteps
  <2> QED
    BY <2>1, <2>2 DEF Promise!vars
<1>21. ASSUME Publish PROVE Promise!Next \/ UNCHANGED Promise!vars
  <2>1. Open' = Open /\ Received' = Received
    BY <1>21 DEF Open, Received, Publish, clientVars, acceptVars, IInv, TypeOK, StreamSteps
  <2> QED
    BY <1>21, <2>1 DEF Publish, Promise!Next, Promise!Publish
<1>22. ASSUME NotifyAll PROVE Promise!Next \/ UNCHANGED Promise!vars
  <2>1. Open' = Open
    BY <1>22, ClientAssumption DEF Open, NotifyAll, Woken, clientVars, acceptVars, IInv, TypeOK, PlaceInv, OrderInv, StreamSteps
  <2>2. Received' = Received /\ version' = version
    BY <1>22, <2>1 DEF Received, Open, NotifyAll, Woken, clientVars, acceptVars, IInv, TypeOK, PlaceInv, OrderInv, StreamSteps
  <2> QED
    BY <2>1, <2>2 DEF Promise!vars
<1> QED
  BY <1>1, <1>2, <1>3, <1>4, <1>5, <1>6, <1>7, <1>8, <1>9, <1>10, <1>11, <1>12, <1>13, <1>14, <1>15, <1>16, <1>17, <1>18, <1>19, <1>20, <1>21, <1>22
  DEF Next, Client, Accept, Serve, Write

\* A server implements Subscription, up to liveness: whatever a page is sent is
\* newer than what it was sent before and not newer than the latest state.
THEOREM Implements == Spec => Promise!Spec
<1>1. Init => Promise!Init
  <2> SUFFICES ASSUME Init PROVE Promise!Init
    OBVIOUS
  <2>1. Open = {}
    BY DEF Init, Open
  <2>2. Received = [c \in Clients |-> 0]
    BY <2>1 DEF Received
  <2> QED
    BY <2>1, <2>2 DEF Init, Promise!Init
<1>2. IInv /\ [Next]_vars => [Promise!Next]_(Promise!vars)
  <2> SUFFICES ASSUME IInv, [Next]_vars PROVE Promise!Next \/ UNCHANGED Promise!vars
    OBVIOUS
  <2>1. CASE Next
    BY <2>1, StepImplements
  <2>2. CASE UNCHANGED vars
    BY <2>2 DEF vars, clientVars, acceptVars, Promise!vars, Open, Received
  <2> QED
    BY <2>1, <2>2
<1> QED
  BY <1>1, <1>2, Invariant, PTL DEF Spec, Promise!Spec
=============================================================================
