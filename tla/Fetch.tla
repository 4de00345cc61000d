------------------------------- MODULE Fetch -------------------------------
(***************************************************************************)
(* How a poll asks the hosts (src/src/dashboard.rs). fetch_all starts one  *)
(* thread per host and joins them all. A thread runs                       *)
(* `ssh <host> llm-watch snapshot` through output_with_timeout: two        *)
(* readers take what the command writes to its two pipes while the thread  *)
(* waits for its end, for a limited time; then the thread joins the        *)
(* readers, which end when nobody has the pipe open any more.              *)
(*                                                                         *)
(* Nobody is not only the command: what it leaves running in the           *)
(* background (the ControlPersist master, a ProxyCommand) may have         *)
(* inherited a pipe. Here it is the helper.                                *)
(***************************************************************************)
EXTENDS Integers

CONSTANTS
    Hosts,      \* hosts of the poll
    Local,      \* those whose state directory is on this machine
    Capacity,   \* what a pipe holds
    MaxOutput   \* bound: what a command writes to a pipe

ASSUME FetchAssumption ==
    /\ Local \subseteq Hosts
    /\ Capacity \in Nat \ {0}
    /\ MaxOutput \in Nat

VARIABLES
    poll,     \* "idle" or "join": where fetch_all is
    thread,   \* where the thread of each host is
    outcome,  \* what each thread brought back
    child,    \* the command: "none", "running", "zombie", "reaped"
    success,  \* its exit status
    total,    \* what it writes to each pipe, if nothing keeps it from that
    left,     \* what it has not written yet
    pipe,     \* what is in each pipe
    helper,   \* the pipes that its helper has open
    reader,   \* "none", "reading" or "done": the reader of each pipe
    got,      \* what each reader has read
    late      \* the time of each thread's wait is over

vars == <<poll, thread, outcome, child, success, total, left, pipe, helper,
          reader, got, late>>
childVars == <<child, success, total, left, helper>>
readerVars == <<pipe, reader, got>>

Streams == {"out", "err"}
Each(value) == [s \in Streams |-> value]
Output == [Streams -> 0..MaxOutput]

Init ==
    /\ poll = "idle"
    /\ thread = [h \in Hosts |-> "none"]
    /\ outcome = [h \in Hosts |-> "none"]
    /\ child = [h \in Hosts |-> "none"]
    /\ success = [h \in Hosts |-> FALSE]
    /\ total = [h \in Hosts |-> Each(0)]
    /\ left = [h \in Hosts |-> Each(0)]
    /\ pipe = [h \in Hosts |-> Each(0)]
    /\ helper = [h \in Hosts |-> {}]
    /\ reader = [h \in Hosts |-> Each("none")]
    /\ got = [h \in Hosts |-> Each(0)]
    /\ late = [h \in Hosts |-> FALSE]

-----------------------------------------------------------------------------
(* fetch_all *)

\* Every host gets its thread. What a poll before this one left is forgotten.
StartPoll ==
    /\ poll = "idle"
    /\ poll' = "join"
    /\ thread' = [h \in Hosts |-> "start"]
    /\ outcome' = [h \in Hosts |-> "none"]
    /\ child' = [h \in Hosts |-> "none"]
    /\ success' = [h \in Hosts |-> FALSE]
    /\ total' = [h \in Hosts |-> Each(0)]
    /\ left' = total'
    /\ pipe' = total'
    /\ helper' = [h \in Hosts |-> {}]
    /\ reader' = [h \in Hosts |-> Each("none")]
    /\ got' = total'
    /\ late' = [h \in Hosts |-> FALSE]

\* The threads are joined one after the other: the poll ends with the last.
EndPoll ==
    /\ poll = "join"
    /\ \A h \in Hosts : thread[h] = "done"
    /\ poll' = "idle"
    /\ UNCHANGED <<thread, outcome, childVars, readerVars, late>>

Return(h, result) ==
    /\ thread' = [thread EXCEPT ![h] = "done"]
    /\ outcome' = [outcome EXCEPT ![h] = result]

-----------------------------------------------------------------------------
(* A thread: fetch_snapshot *)

\* The local state directory is read without a command.
ReadLocal(h) ==
    /\ h \in Local
    /\ thread[h] = "start"
    /\ \E result \in {"snapshot", "error"} : Return(h, result)
    /\ UNCHANGED <<poll, childVars, readerVars, late>>

SpawnFails(h) ==
    /\ h \notin Local
    /\ thread[h] = "start"
    /\ Return(h, "error")
    /\ UNCHANGED <<poll, childVars, readerVars, late>>

\* (A mistake: stderr is read once the command has ended.)
FirstReaders == [out |-> "reading", err |-> "none"]
\* Both readers run before the thread waits.
Readers == Each("reading")

Spawn(h) ==
    /\ h \notin Local
    /\ thread[h] = "start"
    /\ thread' = [thread EXCEPT ![h] = "wait"]
    /\ child' = [child EXCEPT ![h] = "running"]
    /\ \E output \in Output :
          /\ total' = [total EXCEPT ![h] = output]
          /\ left' = [left EXCEPT ![h] = output]
    /\ \E open \in SUBSET Streams : helper' = [helper EXCEPT ![h] = open]
    /\ reader' = [reader EXCEPT ![h] = Readers]
    /\ UNCHANGED <<poll, outcome, success, pipe, got, late>>

\* The timeout of the poll and two seconds more.
TimePasses(h) ==
    /\ thread[h] = "wait"
    /\ ~late[h]
    /\ late' = [late EXCEPT ![h] = TRUE]
    /\ UNCHANGED <<poll, thread, outcome, childVars, readerVars>>

\* wait_timeout returns an exit status.
Waited(h) ==
    /\ thread[h] = "wait"
    /\ child[h] = "zombie"
    /\ child' = [child EXCEPT ![h] = "reaped"]
    /\ thread' = [thread EXCEPT ![h] = "collect"]
    /\ UNCHANGED <<poll, outcome, success, total, left, helper, readerVars, late>>

\* wait_timeout fails: the thread returns at once, and leaves everything behind.
WaitFails(h) ==
    /\ thread[h] = "wait"
    /\ Return(h, "wait failed")
    /\ UNCHANGED <<poll, childVars, readerVars, late>>

\* (A mistake: the command is waited for and not killed.)
TimeOutWithoutKill(h) ==
    /\ thread[h] = "wait"
    /\ late[h]
    /\ child[h] = "zombie"
    /\ child' = [child EXCEPT ![h] = "reaped"]
    /\ thread' = [thread EXCEPT ![h] = "drain"]
    /\ UNCHANGED <<poll, outcome, success, total, left, helper, readerVars, late>>

\* wait_timeout returns none, perhaps while the command ends: it is killed and
\* waited for.
TimeOut(h) ==
    /\ thread[h] = "wait"
    /\ late[h]
    /\ child' = [child EXCEPT ![h] = "reaped"]
    /\ thread' = [thread EXCEPT ![h] = "drain"]
    /\ UNCHANGED <<poll, outcome, success, total, left, helper, readerVars, late>>

Drained(h) == \A s \in Streams : reader[h][s] = "done"

\* (A mistake: the readers are left to themselves.)
TimedOutAtOnce(h) ==
    /\ thread[h] = "drain"
    /\ Return(h, "timed out")
    /\ UNCHANGED <<poll, childVars, readerVars, late>>

TimedOut(h) ==
    /\ thread[h] = "drain"
    /\ Drained(h)
    /\ Return(h, "timed out")
    /\ UNCHANGED <<poll, childVars, readerVars, late>>

\* (A mistake: the output is taken as soon as the command has ended.)
CollectAtOnce(h) ==
    /\ thread[h] = "collect"
    /\ Return(h, IF success[h] THEN "snapshot" ELSE "error")
    /\ UNCHANGED <<poll, childVars, readerVars, late>>

\* The output of a command that succeeded is a snapshot, or cannot be parsed; of
\* one that failed, its last words are the error.
Collect(h) ==
    /\ thread[h] = "collect"
    /\ Drained(h)
    /\ \E result \in {"snapshot", "error"} :
          /\ result = "snapshot" => success[h]
          /\ Return(h, result)
    /\ UNCHANGED <<poll, childVars, readerVars, late>>

-----------------------------------------------------------------------------
(* The command, its helper and the pipes, which the repository does not contain *)

\* A full pipe blocks the command.
Write(h, s) ==
    /\ child[h] = "running"
    /\ left[h][s] > 0
    /\ pipe[h][s] < Capacity
    /\ left' = [left EXCEPT ![h][s] = @ - 1]
    /\ pipe' = [pipe EXCEPT ![h][s] = @ + 1]
    /\ UNCHANGED <<poll, thread, outcome, child, success, total, helper, reader, got, late>>

\* The command ends when it has written everything, or fails before.
Exit(h) ==
    /\ child[h] = "running"
    /\ child' = [child EXCEPT ![h] = "zombie"]
    /\ \E ok \in BOOLEAN :
          /\ ok => \A s \in Streams : left[h][s] = 0
          /\ success' = [success EXCEPT ![h] = ok]
    /\ UNCHANGED <<poll, thread, outcome, total, left, helper, readerVars, late>>

\* The helper ends, or closes what it inherited.
HelperEnds(h) ==
    /\ helper[h] # {}
    /\ helper' = [helper EXCEPT ![h] = {}]
    /\ UNCHANGED <<poll, thread, outcome, child, success, total, left, readerVars, late>>

Read(h, s) ==
    /\ reader[h][s] = "reading"
    /\ pipe[h][s] > 0
    /\ pipe' = [pipe EXCEPT ![h][s] = @ - 1]
    /\ got' = [got EXCEPT ![h][s] = @ + 1]
    /\ UNCHANGED <<poll, thread, outcome, childVars, reader, late>>

\* read_to_end returns when the pipe is empty and closed at the other end.
EndOfFile(h, s) ==
    /\ reader[h][s] = "reading"
    /\ pipe[h][s] = 0
    /\ child[h] # "running"
    /\ s \notin helper[h]
    /\ reader' = [reader EXCEPT ![h][s] = "done"]
    /\ UNCHANGED <<poll, thread, outcome, childVars, pipe, got, late>>

-----------------------------------------------------------------------------

Thread(h) ==
    \/ ReadLocal(h)
    \/ SpawnFails(h)
    \/ Spawn(h)
    \/ Waited(h)
    \/ TimeOut(h)
    \/ TimedOut(h)
    \/ Collect(h)

Reader(h, s) == Read(h, s) \/ EndOfFile(h, s)

Next ==
    \/ StartPoll
    \/ EndPoll
    \/ \E h \in Hosts :
          \/ Thread(h)
          \/ WaitFails(h)
          \/ TimePasses(h)
          \/ Exit(h)
          \/ HelperEnds(h)
          \/ \E s \in Streams : Write(h, s) \/ Reader(h, s)

Spec == Init /\ [][Next]_vars

\* The threads run, time passes, and no helper has a pipe open for ever: a master
\* whose connection is gone ends on its own, any other after ten idle minutes.
\* Nothing is assumed of the command.
Fairness ==
    /\ WF_vars(EndPoll)
    /\ \A h \in Hosts :
          /\ WF_vars(Thread(h))
          /\ WF_vars(TimePasses(h))
          /\ WF_vars(HelperEnds(h))
          /\ \A s \in Streams : WF_vars(Reader(h, s))

FairSpec == Spec /\ Fairness

-----------------------------------------------------------------------------

\* Every variable has its type.
TypeOK ==
    /\ poll \in {"idle", "join"}
    /\ thread \in [Hosts -> {"none", "start", "wait", "collect", "drain", "done"}]
    /\ outcome \in [Hosts -> {"none", "snapshot", "error", "timed out", "wait failed"}]
    /\ child \in [Hosts -> {"none", "running", "zombie", "reaped"}]
    /\ success \in [Hosts -> BOOLEAN]
    /\ total \in [Hosts -> Output]
    /\ left \in [Hosts -> Output]
    /\ pipe \in [Hosts -> [Streams -> 0..Capacity]]
    /\ helper \in [Hosts -> SUBSET Streams]
    /\ reader \in [Hosts -> [Streams -> {"none", "reading", "done"}]]
    /\ got \in [Hosts -> Output]
    /\ late \in [Hosts -> BOOLEAN]

\* What is parsed as a snapshot is all that the command wrote, also when the end of
\* the command, the readers and a helper come in any order.
AnswerIsWhole ==
    \A h \in Hosts \ Local :
        outcome[h] = "snapshot" => \A s \in Streams : got[h][s] = total[h][s]

\* A thread that ends leaves no command, no zombie and no reader behind, however it
\* ends; only when the wait itself fails it does.
NothingLeftBehind ==
    \A h \in Hosts :
        thread[h] = "done" /\ outcome[h] # "wait failed" =>
            /\ child[h] \in {"none", "reaped"}
            /\ \A s \in Streams : reader[h][s] # "reading" /\ pipe[h][s] = 0

\* The thread never waits for a command that waits for the thread: as long as the
\* command may write, somebody reads both pipes.
NobodyWaitsForEachOther ==
    \A h \in Hosts : child[h] = "running" =>
        \A s \in Streams : pipe[h][s] = Capacity => reader[h][s] = "reading"

\* Every poll ends, also when a command hangs, floods a pipe or ends without
\* closing its pipes; no host can keep the others from being shown for ever.
PollsEnd == poll = "join" ~> poll = "idle"

-----------------------------------------------------------------------------
(* An inductive invariant *)

\* Nothing that is written gets lost on its way to the reader.
Conserved(h) ==
    \A s \in Streams : got[h][s] + pipe[h][s] + left[h][s] = total[h][s]

\* Where a thread is says how far its command is; a thread has ended with an outcome.
CommandInv(h) ==
    /\ h \in Local => child[h] = "none"
    /\ thread[h] \in {"none", "start"} => child[h] = "none"
    /\ thread[h] = "wait" => child[h] \in {"running", "zombie"}
    /\ thread[h] \in {"collect", "drain"} => child[h] = "reaped"
    /\ thread[h] = "done" /\ outcome[h] # "wait failed" =>
          child[h] \in {"none", "reaped"} /\ (child[h] = "reaped" => Drained(h))
    /\ thread[h] # "done" => outcome[h] = "none"
    /\ success[h] =>
          child[h] \in {"zombie", "reaped"} /\ \A s \in Streams : left[h][s] = 0

\* There are readers as soon as there is a command, and they outlive it.
ReaderInv(h) ==
    \A s \in Streams :
        /\ child[h] = "none" => reader[h][s] = "none" /\ pipe[h][s] = 0 /\ got[h][s] = 0
        /\ child[h] # "none" => reader[h][s] # "none"
        /\ reader[h][s] = "done" => pipe[h][s] = 0 /\ child[h] # "running"

SnapshotInv(h) ==
    h \notin Local /\ outcome[h] = "snapshot" => success[h] /\ Drained(h)

HostInv(h) == Conserved(h) /\ CommandInv(h) /\ ReaderInv(h) /\ SnapshotInv(h)

IInv == TypeOK /\ \A h \in Hosts : HostInv(h)
=============================================================================
