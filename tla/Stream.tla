------------------------------- MODULE Stream -------------------------------
(***************************************************************************)
(* The threads of `llm-watch serve` (src/src/server.rs): the accept loop,  *)
(* one thread per connection, and the poller. They share the Broadcast, a  *)
(* mutex and a condition variable around the latest state, and the counter *)
(* of connections.                                                         *)
(*                                                                         *)
(*   accept loop  refuse with 503 at MaxConnections, else count the        *)
(*                connection and spawn its thread                          *)
(*   connection   read the request, then answer it; a stream sends the     *)
(*                latest state, then waits for the next one; when the wait *)
(*                times out it sends a ping, which is how it finds out     *)
(*                that its client is gone                                  *)
(*   poller       publish a state; wake all who wait                       *)
(*                                                                         *)
(* A section under the mutex is one step; notify_all comes after it, with  *)
(* the mutex released, and is a step of its own. A state is its version.   *)
(* Sockets: a write to a client that left may still succeed once.          *)
(***************************************************************************)
EXTENDS Integers, FiniteSets

CONSTANTS
    Clients,          \* connections
    MaxConnections,   \* connections served at a time (64)
    Nobody,           \* no client
    MaxVersion        \* bound: states published

ASSUME ClientAssumption == IsFiniteSet(Clients) /\ Nobody \notin Clients
ASSUME LimitAssumption == MaxConnections \in Nat /\ MaxVersion \in Nat \ {0}

VARIABLES
    socket,        \* each client's end of its connection
    ask,           \* what each client asked for
    received,      \* the latest state each stream was sent
    backlog,       \* the connections the listener has not accepted
    acceptor,      \* the connection being accepted
    connections,   \* the counter
    thread,        \* where each connection's thread is
    seen,          \* `version` of each stream
    version,       \* Published.version
    poller         \* where the poller is

vars == <<socket, ask, received, backlog, acceptor, connections, thread, seen,
          version, poller>>
clientVars == <<socket, ask, received>>
acceptVars == <<backlog, acceptor, connections>>

Requests == {"stream", "state", "label"}
StreamSteps == {"first", "send", "check", "wait", "woken", "ping"}
Steps == {"none", "read", "edit", "notify", "answer", "done"} \cup StreamSteps

Init ==
    /\ socket = [c \in Clients |-> "away"]
    /\ ask = [c \in Clients |-> "nothing"]
    /\ received = [c \in Clients |-> 0]
    /\ backlog = {}
    /\ acceptor = Nobody
    /\ connections = 0
    /\ thread = [c \in Clients |-> "none"]
    /\ seen = [c \in Clients |-> 0]
    /\ version = 1
    /\ poller = "poll"

Goto(c, step) == thread' = [thread EXCEPT ![c] = step]

\* The server drops the connection.
Close(c) ==
    /\ socket' = [socket EXCEPT ![c] = "away"]
    /\ ask' = [ask EXCEPT ![c] = "nothing"]
    /\ received' = [received EXCEPT ![c] = 0]

\* notify_all.
Woken == [c \in Clients |-> IF thread[c] = "wait" THEN "woken" ELSE thread[c]]

-----------------------------------------------------------------------------
(* Clients *)

Connect(c) ==
    /\ socket[c] = "away"
    /\ socket' = [socket EXCEPT ![c] = "connected"]
    /\ backlog' = backlog \cup {c}
    /\ UNCHANGED <<ask, received, acceptor, connections, thread, seen, version, poller>>

Ask(c) ==
    /\ socket[c] = "connected"
    /\ ask[c] = "nothing"
    /\ \E request \in Requests : ask' = [ask EXCEPT ![c] = request]
    /\ UNCHANGED <<socket, received, acceptVars, thread, seen, version, poller>>

Leave(c) ==
    /\ socket[c] = "connected"
    /\ socket' = [socket EXCEPT ![c] = "left"]
    /\ UNCHANGED <<ask, received, acceptVars, thread, seen, version, poller>>

-----------------------------------------------------------------------------
(* The accept loop *)

\* (A mistake: one connection too many.)
HasSlotOffByOne == connections <= MaxConnections
HasSlot == connections < MaxConnections

Admit(c) ==
    /\ acceptor = Nobody
    /\ c \in backlog
    /\ HasSlot
    /\ backlog' = backlog \ {c}
    /\ acceptor' = c
    /\ UNCHANGED <<clientVars, connections, thread, seen, version, poller>>

\* "503 Service Unavailable"
Refuse(c) ==
    /\ acceptor = Nobody
    /\ c \in backlog
    /\ ~HasSlot
    /\ backlog' = backlog \ {c}
    /\ Close(c)
    /\ UNCHANGED <<acceptor, connections, thread, seen, version, poller>>

Spawn(c) ==
    /\ acceptor = c
    /\ acceptor' = Nobody
    /\ connections' = connections + 1
    /\ Goto(c, "read")
    /\ UNCHANGED <<clientVars, backlog, seen, version, poller>>

\* No thread can be had: the count is taken back and the stream dropped.
SpawnFails(c) ==
    /\ acceptor = c
    /\ acceptor' = Nobody
    /\ Close(c)
    /\ UNCHANGED <<backlog, connections, thread, seen, version, poller>>

-----------------------------------------------------------------------------
(* A connection's thread *)

\* The request, or the end of the stream if the client left without one.
ReadRequest(c) ==
    /\ thread[c] = "read"
    /\ \/ ask[c] = "stream" /\ Goto(c, "first")
       \/ ask[c] = "label" /\ Goto(c, "edit")
       \/ ask[c] = "state" /\ Goto(c, "answer")
       \/ ask[c] = "nothing" /\ socket[c] = "left" /\ Goto(c, "done")
    /\ UNCHANGED <<clientVars, acceptVars, seen, version, poller>>

\* apply_label, apply_prs: an edit of a host that is watched is a new state.
Edit(c) ==
    /\ thread[c] = "edit"
    /\ version < MaxVersion
    /\ version' = version + 1
    /\ Goto(c, "notify")
    /\ UNCHANGED <<clientVars, acceptVars, seen, poller>>

EditUnknownHost(c) ==
    /\ thread[c] = "edit"
    /\ Goto(c, "answer")
    /\ UNCHANGED <<clientVars, acceptVars, seen, version, poller>>

NotifyEdit(c) ==
    /\ thread[c] = "notify"
    /\ thread' = [Woken EXCEPT ![c] = "answer"]
    /\ UNCHANGED <<clientVars, acceptVars, seen, version, poller>>

\* Whether the answer can be written makes no difference.
Answer(c) ==
    /\ thread[c] = "answer"
    /\ Goto(c, "done")
    /\ UNCHANGED <<clientVars, acceptVars, seen, version, poller>>

Finish(c) ==
    /\ thread[c] = "done"
    /\ connections' = connections - 1
    /\ Goto(c, "none")
    /\ Close(c)
    /\ UNCHANGED <<backlog, acceptor, seen, version, poller>>

\* The latest state, under the mutex, is what the stream sends next.
Take(c) ==
    /\ seen' = [seen EXCEPT ![c] = version]
    /\ Goto(c, "send")

First(c) ==
    /\ thread[c] = "first"
    /\ Take(c)
    /\ UNCHANGED <<clientVars, acceptVars, version, poller>>

Send(c) ==
    /\ thread[c] = "send"
    /\ \/ /\ socket[c] = "connected"
          /\ received' = [received EXCEPT ![c] = seen[c]]
          /\ UNCHANGED socket
       \/ /\ socket[c] = "left"
          /\ socket' = [socket EXCEPT ![c] = "reset"]
          /\ UNCHANGED received
    /\ Goto(c, "check")
    /\ UNCHANGED <<ask, acceptVars, seen, version, poller>>

\* (A mistake: wait_after waits without looking first.)
CheckNothing(c) ==
    /\ thread[c] = "check"
    /\ Goto(c, "wait")
    /\ UNCHANGED <<clientVars, acceptVars, seen, version, poller>>

\* wait_after, up to the wait.
Check(c) ==
    /\ thread[c] = "check"
    /\ IF version # seen[c] THEN Take(c) ELSE Goto(c, "wait") /\ UNCHANGED seen
    /\ UNCHANGED <<clientVars, acceptVars, version, poller>>

\* The heartbeat elapses, or the wait ends for no reason.
TimeOut(c) ==
    /\ thread[c] = "wait"
    /\ Goto(c, "woken")
    /\ UNCHANGED <<clientVars, acceptVars, seen, version, poller>>

\* (A mistake: a stream that has nothing to send goes back to wait.)
RecheckSilently(c) ==
    /\ thread[c] = "woken"
    /\ IF version # seen[c] THEN Take(c) ELSE Goto(c, "check") /\ UNCHANGED seen
    /\ UNCHANGED <<clientVars, acceptVars, version, poller>>

\* (A mistake: what is new is marked as seen, and a ping is sent.)
RecheckForgetting(c) ==
    /\ thread[c] = "woken"
    /\ seen' = [seen EXCEPT ![c] = version]
    /\ Goto(c, "ping")
    /\ UNCHANGED <<clientVars, acceptVars, version, poller>>

\* wait_after, from the wait on.
Recheck(c) ==
    /\ thread[c] = "woken"
    /\ IF version # seen[c] THEN Take(c) ELSE Goto(c, "ping") /\ UNCHANGED seen
    /\ UNCHANGED <<clientVars, acceptVars, version, poller>>

Ping(c) ==
    /\ thread[c] = "ping"
    /\ \/ socket[c] = "connected" /\ UNCHANGED socket
       \/ socket[c] = "left" /\ socket' = [socket EXCEPT ![c] = "reset"]
    /\ Goto(c, "check")
    /\ UNCHANGED <<ask, received, acceptVars, seen, version, poller>>

\* Neither the state nor the ping can be written.
WriteFails(c) ==
    /\ thread[c] \in {"send", "ping"}
    /\ socket[c] \in {"left", "reset"}
    /\ Goto(c, "done")
    /\ UNCHANGED <<clientVars, acceptVars, seen, version, poller>>

-----------------------------------------------------------------------------
(* The poller. A poll that fails publishes nothing. *)

Publish ==
    /\ poller = "poll"
    /\ version < MaxVersion
    /\ version' = version + 1
    /\ poller' = "notify"
    /\ UNCHANGED <<clientVars, acceptVars, thread, seen>>

NotifyAll ==
    /\ poller = "notify"
    /\ thread' = Woken
    /\ poller' = "poll"
    /\ UNCHANGED <<clientVars, acceptVars, seen, version>>

-----------------------------------------------------------------------------

Client(c) == Connect(c) \/ Ask(c) \/ Leave(c)
Accept(c) == Admit(c) \/ Refuse(c) \/ Spawn(c) \/ SpawnFails(c)
Write(c) == Send(c) \/ Ping(c) \/ WriteFails(c)
Serve(c) ==
    \/ ReadRequest(c) \/ Edit(c) \/ EditUnknownHost(c) \/ NotifyEdit(c) \/ Answer(c)
    \/ First(c) \/ Check(c) \/ TimeOut(c) \/ Recheck(c) \/ Write(c)
    \/ Finish(c)

Next ==
    \/ \E c \in Clients : Client(c) \/ Accept(c) \/ Serve(c)
    \/ Publish
    \/ NotifyAll

Spec == Init /\ [][Next]_vars

\* Threads run, waits time out, the backlog is a queue, and writing to a client
\* that left fails in the end. Nobody has to connect, ask or leave, and a poll
\* need not succeed.
Fairness ==
    /\ \A c \in Clients :
          /\ SF_vars(Admit(c) \/ Refuse(c))
          /\ WF_vars(Spawn(c) \/ SpawnFails(c))
          /\ WF_vars(Serve(c))
    /\ WF_vars(NotifyAll)

FairSpec == Spec /\ Fairness

-----------------------------------------------------------------------------
(* Types *)

\* Every variable has its type.
TypeOK ==
    /\ socket \in [Clients -> {"away", "connected", "left", "reset"}]
    /\ ask \in [Clients -> Requests \cup {"nothing"}]
    /\ received \in [Clients -> 0..MaxVersion]
    /\ backlog \subseteq Clients
    /\ acceptor \in Clients \cup {Nobody}
    /\ connections \in Nat
    /\ thread \in [Clients -> Steps]
    /\ seen \in [Clients -> 0..MaxVersion]
    /\ version \in 1..MaxVersion
    /\ poller \in {"poll", "notify"}

-----------------------------------------------------------------------------
(* Safety *)

Threads == {c \in Clients : thread[c] # "none"}

\* The counter counts the threads, however connections come and go while the
\* accept loop is between reading it and adding to it, and stays in its limit.
SlotsAreCounted ==
    /\ connections = Cardinality(Threads)
    /\ connections <= MaxConnections

\* No stream sleeps through a state: one that waits has sent the latest, unless
\* whoever published it is about to wake it.
NoLostWakeup ==
    \A c \in Clients :
        (thread[c] = "wait" /\ seen[c] # version)
            => (poller = "notify" \/ \E d \in Clients : thread[d] = "notify")

-----------------------------------------------------------------------------
(* Why the safety properties hold: an inductive invariant *)

\* A connection is in one place: away, in the backlog, being accepted, or a thread's.
PlaceInv ==
    /\ \A c \in Clients : socket[c] = "away" =>
          thread[c] = "none" /\ c \notin backlog /\ acceptor # c
    /\ \A c \in backlog : thread[c] = "none" /\ acceptor # c
    /\ acceptor # Nobody => thread[acceptor] = "none" /\ connections < MaxConnections

\* A stream has sent nothing yet, or what it last took, or is about to.
OrderInv ==
    \A c \in Clients :
        /\ seen[c] <= version
        /\ thread[c] \in {"none", "read", "first"} => received[c] = 0
        /\ thread[c] = "send" => received[c] < seen[c]
        /\ thread[c] \in {"check", "wait", "woken", "ping"} => received[c] <= seen[c]

IInv ==
    /\ TypeOK
    /\ PlaceInv
    /\ SlotsAreCounted
    /\ NoLostWakeup
    /\ OrderInv

-----------------------------------------------------------------------------
(* What a page is promised *)

Open == {c \in Clients : socket[c] = "connected" /\ thread[c] \in StreamSteps}
Received == [c \in Clients |-> IF c \in Open THEN received[c] ELSE 0]

Promise == INSTANCE Subscription WITH open <- Open, received <- Received

\* A stream implements Subscription: pushes come in order, none twice, and as
\* long as a page stays it is sent the latest state in the end.
StreamKeepsPromise == Promise!FairSpec

\* The slot of a client that left comes back, also when no poll ever succeeds.
SlotsComeBack ==
    \A c \in Clients : socket[c] \in {"left", "reset"} ~> socket[c] = "away"
=============================================================================
