------------------------------- MODULE Links -------------------------------
(***************************************************************************)
(* The links of one devbox: the web pages it serves, published for the     *)
(* dashboard (src/src/storage.rs, src/src/main.rs, src/src/server.rs).     *)
(*                                                                         *)
(* Whoever serves a page runs `llm-watch link set` again and again while   *)
(* the page is up and, if it ends in good order, `llm-watch link clear`.   *)
(* Both write links/<id>.json under the lock of the state directory. A     *)
(* snapshot returns the links whose stamp is at most TTL seconds old; the  *)
(* dashboard shows those of the last poll, and none when it failed.        *)
(*                                                                         *)
(* There is no clock: a stamp is replaced by its age, which Tick raises up *)
(* to Old, the first age at which a link is dead. So time is not bounded.  *)
(* A stamp has whole seconds, and the code compares whole seconds; one     *)
(* unit of time here is a second of the devbox, or any number of them.     *)
(***************************************************************************)
EXTENDS Integers

CONSTANTS
    Servers,    \* servers of pages, each with a URL of its own
    Ids,        \* ids of links
    IdsOf,      \* the ids each server may publish under
    Punctual,   \* servers whose `link set` ends at least every TTL seconds
    TTL,        \* LINK_TTL_SECONDS
    Poller,     \* the snapshot that a dashboard's poll runs
    Free,       \* the lock's value when nobody holds it
    NoLink      \* no file

ASSUME TTLAssumption == TTL \in Nat
ASSUME IdAssumption == IdsOf \in [Servers -> SUBSET Ids] /\ Punctual \subseteq Servers
ASSUME NoLinkAssumption == NoLink \notin [owner : Servers, age : 0..(TTL + 1)]

VARIABLES
    id,         \* the id of each server's kind, directory and pane
    status,     \* "off", "up" or "down": whether each server serves its page
    downFor,    \* history variable: how long each server has been down
    files,      \* links/<id>.json
    lock,       \* the holder of the flock
    pc,         \* where each command is
    stamp,      \* the age of the stamp in each `link set`
    answer,     \* the servers whose links the snapshot returned
    view,       \* the servers whose links the dashboard shows
    published,  \* history variable: the servers whose `link set` was the last
                \* command that ended for their id
    unread      \* history variable: the ids whose file the snapshot could not read

vars == <<id, status, downFor, files, lock, pc, stamp, answer, view, published, unread>>

Old == TTL + 1
Age == 0..Old
Setters == {<<s, "set">> : s \in Servers}
Clearers == {<<s, "clear">> : s \in Servers}
Commands == Setters \cup Clearers
Procs == Commands \cup {<<Poller, "poll">>}
Snapshot == <<Poller, "poll">>

ASSUME FreeAssumption == Free \notin Procs

Link == [owner : Servers, age : Age]

Init ==
    /\ id \in {f \in [Servers -> Ids] : \A s \in Servers : f[s] \in IdsOf[s]}
    /\ status = [s \in Servers |-> "off"]
    /\ downFor = [s \in Servers |-> 0]
    /\ files = [i \in Ids |-> NoLink]
    /\ lock = Free
    /\ pc = [p \in Procs |-> "idle"]
    /\ stamp = [s \in Servers |-> 0]
    /\ answer = {}
    /\ view = {}
    /\ published = {}
    /\ unread = {}

Goto(p, step) == pc' = [pc EXCEPT ![p] = step]
Release(p) == lock' = IF lock = p THEN Free ELSE lock

-----------------------------------------------------------------------------
(* The servers, which the repository does not contain *)

Start(s) ==
    /\ status[s] = "off"
    /\ status' = [status EXCEPT ![s] = "up"]
    /\ UNCHANGED <<id, downFor, files, lock, pc, stamp, answer, view, published, unread>>

\* The server is killed, its tunnel dies, or the devbox restarts.
Die(s) ==
    /\ status[s] = "up"
    /\ status' = [status EXCEPT ![s] = "down"]
    /\ UNCHANGED <<id, downFor, files, lock, pc, stamp, answer, view, published, unread>>

\* The server ends and its exit trap runs `link clear`. A `link set` that it
\* started may still wait for the lock.
Stop(s) ==
    /\ status[s] = "up"
    /\ pc[<<s, "clear">>] = "idle"
    /\ status' = [status EXCEPT ![s] = "down"]
    /\ Goto(<<s, "clear">>, "lock")
    /\ UNCHANGED <<id, downFor, files, lock, stamp, answer, view, published, unread>>

Older(age) == IF age < Old THEN age + 1 ELSE Old

\* A punctual server does not let its link, or the one it is about to write,
\* become too old.
Overdue(s) ==
    /\ s \in Punctual
    /\ status[s] = "up"
    /\ \/ s \in published /\ files[id[s]] # NoLink /\ files[id[s]].age >= TTL
       \/ pc[<<s, "set">>] # "idle" /\ stamp[s] >= TTL

Tick ==
    /\ ~ \E s \in Servers : Overdue(s)
    /\ downFor' = [s \in Servers |->
                      IF status[s] = "down" THEN Older(downFor[s]) ELSE 0]
    /\ files' = [i \in Ids |-> IF files[i] = NoLink THEN NoLink
                               ELSE [files[i] EXCEPT !.age = Older(@)]]
    /\ stamp' = [s \in Servers |->
                    IF pc[<<s, "set">>] = "idle" THEN 0 ELSE Older(stamp[s])]
    /\ UNCHANGED <<id, status, lock, pc, answer, view, published, unread>>

-----------------------------------------------------------------------------
(* link set, link clear *)

\* The command stamps its link, then waits for the lock.
Refresh(s) ==
    /\ status[s] = "up"
    /\ pc[<<s, "set">>] = "idle"
    /\ Goto(<<s, "set">>, "lock")
    /\ stamp' = [stamp EXCEPT ![s] = 0]
    /\ UNCHANGED <<id, status, downFor, files, lock, answer, view, published, unread>>

Acquire(p) ==
    /\ pc[p] = "lock"
    /\ lock = Free
    /\ lock' = p
    /\ Goto(p, "locked")
    /\ UNCHANGED <<id, status, downFor, files, stamp, answer, view, published, unread>>

SharesId(s) == {t \in Servers : id[t] = id[s]}

\* (A mistake: the link is stamped when it is written.)
StampWhenWritten(s) == [owner |-> s, age |-> 0]
NewLink(s) == [owner |-> s, age |-> stamp[s]]

WriteLink(s) ==
    LET c == <<s, "set">> IN
    /\ pc[c] = "locked"
    /\ files' = [files EXCEPT ![id[s]] = NewLink(s)]
    /\ stamp' = [stamp EXCEPT ![s] = 0]
    /\ published' = (published \ SharesId(s)) \cup {s}
    /\ Release(c)
    /\ Goto(c, "idle")
    /\ UNCHANGED <<id, status, downFor, answer, view, unread>>

\* That the file is not there is no error.
Cleared(s) == [files EXCEPT ![id[s]] = NoLink]

ClearLink(s) ==
    LET c == <<s, "clear">> IN
    /\ pc[c] = "locked"
    /\ files' = Cleared(s)
    /\ published' = published \ SharesId(s)
    /\ Release(c)
    /\ Goto(c, "idle")
    /\ UNCHANGED <<id, status, downFor, stamp, answer, view, unread>>

\* The command is killed or meets an I/O error: it leaves the file as it was. The
\* `link set` of a punctual server is killed with the server only.
Abort(c) ==
    /\ pc[c] # "idle"
    /\ c \in Setters /\ c[1] \in Punctual => status[c[1]] = "down"
    /\ Release(c)
    /\ Goto(c, "idle")
    /\ stamp' = IF c \in Setters THEN [stamp EXCEPT ![c[1]] = 0] ELSE stamp
    /\ UNCHANGED <<id, status, downFor, files, answer, view, published, unread>>

-----------------------------------------------------------------------------
(* A poll *)

Poll ==
    /\ pc[Snapshot] = "idle"
    /\ Goto(Snapshot, "lock")
    /\ UNCHANGED <<id, status, downFor, files, lock, stamp, answer, view, published, unread>>

\* (A mistake: a link of exactly TTL seconds is dead.)
IsLiveBefore(link) == link # NoLink /\ link.age < TTL
IsLive(link) == link # NoLink /\ link.age <= TTL

\* read_live_links. The lock is held: the files are the ones read before. One that
\* cannot be read is skipped.
ReadLinks ==
    /\ pc[Snapshot] = "locked"
    /\ \E bad \in SUBSET {i \in Ids : IsLive(files[i])} :
          /\ answer' = {files[i].owner : i \in {j \in Ids \ bad : IsLive(files[j])}}
          /\ unread' = bad
    /\ Release(Snapshot)
    /\ Goto(Snapshot, "sent")
    /\ UNCHANGED <<id, status, downFor, files, stamp, view, published>>

Publish ==
    /\ pc[Snapshot] = "sent"
    /\ view' = answer
    /\ answer' = {}
    /\ unread' = {}
    /\ Goto(Snapshot, "idle")
    /\ UNCHANGED <<id, status, downFor, files, lock, stamp, published>>

\* (A mistake: the links of the last answer are shown.)
PublishLastKnown ==
    /\ pc[Snapshot] # "idle"
    /\ answer' = {}
    /\ unread' = {}
    /\ Release(Snapshot)
    /\ Goto(Snapshot, "idle")
    /\ UNCHANGED <<id, status, downFor, files, stamp, view, published>>

\* The devbox cannot be reached, or answers too late: no snapshot, no links.
PublishUnreached ==
    /\ pc[Snapshot] # "idle"
    /\ view' = {}
    /\ answer' = {}
    /\ unread' = {}
    /\ Release(Snapshot)
    /\ Goto(Snapshot, "idle")
    /\ UNCHANGED <<id, status, downFor, files, stamp, published>>

-----------------------------------------------------------------------------

Next ==
    \/ \E s \in Servers :
          Start(s) \/ Die(s) \/ Stop(s) \/ Refresh(s) \/ WriteLink(s) \/ ClearLink(s)
    \/ \E p \in Procs : Acquire(p)
    \/ \E c \in Commands : Abort(c)
    \/ Tick
    \/ Poll
    \/ ReadLinks
    \/ Publish
    \/ PublishUnreached

Spec == Init /\ [][Next]_vars

SetEnds(s) == pc[<<s, "set">>] = "locked" /\ (WriteLink(s) \/ Abort(<<s, "set">>))
ClearEnds(s) == pc[<<s, "clear">>] = "locked" /\ (ClearLink(s) \/ Abort(<<s, "clear">>))

\* The clock runs and the dashboard polls; a snapshot that waits for the lock
\* gets it, since whoever holds it lets go. No command need be run or get the lock,
\* except the `link set` of the punctual servers.
Fairness ==
    /\ WF_vars(Tick)
    /\ WF_vars(Poll)
    /\ SF_vars(Acquire(Snapshot))
    /\ WF_vars(ReadLinks)
    /\ WF_vars(Publish)
    /\ \A s \in Servers : WF_vars(SetEnds(s)) /\ WF_vars(ClearEnds(s))
    /\ \A s \in Punctual :
          WF_vars(Refresh(s)) /\ SF_vars(Acquire(<<s, "set">>))

FairSpec == Spec /\ Fairness

-----------------------------------------------------------------------------

\* Every variable has its type, and whoever is past the lock is alone there.
TypeOK ==
    /\ id \in [Servers -> Ids]
    /\ status \in [Servers -> {"off", "up", "down"}]
    /\ downFor \in [Servers -> Age]
    /\ files \in [Ids -> Link \cup {NoLink}]
    /\ lock \in Procs \cup {Free}
    /\ pc \in [Procs -> {"idle", "lock", "locked", "sent"}]
    /\ stamp \in [Servers -> Age]
    /\ answer \subseteq Servers
    /\ view \subseteq Servers
    /\ published \subseteq Servers
    /\ unread \subseteq Ids
    /\ \A p \in Procs : pc[p] = "locked" <=> lock = p

\* A stamp of this age was taken while its server was up.
IsOfItsTime(s, age) ==
    status[s] = "up" \/ (status[s] = "down" /\ downFor[s] <= age)

\* model.rs: "A published link is dropped once its owner stops refreshing it, so a
\* crashed tunnel cannot leave a dead URL on the dashboard". However long a
\* `link set` waited for the lock, and whether or not the trap cleared the link
\* before it, no snapshot returns the link of a server that has been down for
\* more than TTL seconds.
NoDeadLink == [][\A s \in answer' \ answer : IsOfItsTime(s, TTL)]_vars

\* README: "Re-run `link set` at least every three minutes to keep a link alive".
\* While the link of a punctual server is not replaced or cleared under the same id,
\* every snapshot that can read its file has it, at exactly TTL seconds too.
RefreshedIsReturned ==
    [][pc[Snapshot] = "locked" /\ pc'[Snapshot] = "sent" =>
          \A s \in Punctual \cap published :
             status[s] = "up" => s \in answer' \/ id[s] \in unread']_vars

\* "one that stops being refreshed disappears": the link of a server that is down
\* leaves the dashboard for good, with no `link clear`, with one that ran before the
\* last `link set`, and with polls that fail.
DeadLinksLeave == \A s \in Servers : status[s] = "down" ~> [](s \notin view)

-----------------------------------------------------------------------------
(* Why no dead link is returned: an inductive invariant *)

StampInv ==
    /\ \A s \in Servers : status[s] # "down" => downFor[s] = 0
    /\ \A s \in Servers : pc[<<s, "set">>] # "idle" => IsOfItsTime(s, stamp[s])
    /\ \A i \in Ids : files[i] # NoLink => IsOfItsTime(files[i].owner, files[i].age)

\* The last `link set` of an id is in its file; a punctual one is not too old.
PublishedInv ==
    /\ \A s \in published : files[id[s]] # NoLink /\ files[id[s]].owner = s
    /\ \A s \in Punctual : status[s] = "up" =>
          /\ s \in published => files[id[s]].age <= TTL
          /\ pc[<<s, "set">>] # "idle" => stamp[s] <= TTL

IInv ==
    /\ TypeOK
    /\ StampInv
    /\ PublishedInv
=============================================================================
