--------------------------- MODULE PollingProofs ---------------------------
(***************************************************************************)
(* Proofs about the parts of a poll: Fetch, Glob and SshConfig.            *)
(*                                                                         *)
(* Fetching, for any hosts, any size of pipe and any output: what a poll   *)
(* shows is whole, a thread leaves nothing behind, and thread and command  *)
(* never wait for each other. IInv of Fetch is inductive: a step is of one *)
(* host at most, so each lemma shows that host's part and cites Untouched  *)
(* for the others'.                                                        *)
(*                                                                         *)
(* The matcher is right for every pattern and every value, of any length:  *)
(* GlobIInv of Glob is inductive. Its heart is PossibleInv: what a cut of  *)
(* the whole must satisfy, whatever cut it is.                             *)
(*                                                                         *)
(* Discovery finds every host that is configured and no other, for any     *)
(* files that include one another in any way. SshIInv of SshConfig is      *)
(* inductive: a line of an opened file has been followed or is ahead, so   *)
(* when nothing is ahead the opened files are closed under inclusion.      *)
(*                                                                         *)
(* Liveness is out of reach, but not what it rests on besides fairness: in *)
(* each of the three every step leaves less to do.                         *)
(***************************************************************************)
EXTENDS Fetch, Glob, SshConfig, FiniteSetTheorems, TLAPS

-----------------------------------------------------------------------------
(* Fetch: what the invariant says *)

\* What the invariant says of one host.
LEMMA OfHost ==
    ASSUME IInv, NEW h \in Hosts
    PROVE  /\ child[h] \in {"none", "running", "zombie", "reaped"}
           /\ total[h] \in Output
           /\ left[h] \in Output
           /\ pipe[h] \in [Streams -> 0..Capacity]
           /\ reader[h] \in [Streams -> {"none", "reading", "done"}]
           /\ got[h] \in Output
           /\ Conserved(h)
           /\ CommandInv(h)
           /\ ReaderInv(h)
           /\ SnapshotInv(h)
BY DEF IInv, TypeOK, HostInv

\* A host that a step does not touch is as it was.
LEMMA Untouched ==
    ASSUME NEW k \in Hosts, HostInv(k),
           thread'[k] = thread[k], outcome'[k] = outcome[k], child'[k] = child[k],
           success'[k] = success[k], total'[k] = total[k], left'[k] = left[k],
           pipe'[k] = pipe[k], reader'[k] = reader[k], got'[k] = got[k]
    PROVE  HostInv(k)'
BY DEF HostInv, Conserved, CommandInv, ReaderInv, SnapshotInv, Drained

LEMMA InitEstablishes == Init => IInv
BY FetchAssumption
   DEF Init, IInv, TypeOK, HostInv, Conserved, CommandInv, ReaderInv, SnapshotInv,
       Each, Streams, Output, Drained

-----------------------------------------------------------------------------
(* Fetch: the poll *)

LEMMA StartPollKeeps == ASSUME IInv, StartPoll PROVE IInv'
<1>1. TypeOK'
  <2>1. Each(0) \in Output /\ Each(0) \in [Streams -> 0..Capacity]
    BY FetchAssumption DEF Each, Output
  <2>2. Each("none") \in [Streams -> {"none", "reading", "done"}]
    BY DEF Each
  <2> QED  BY <2>1, <2>2 DEF StartPoll, TypeOK
<1>2. ASSUME NEW k \in Hosts PROVE HostInv(k)'
  BY DEF StartPoll, HostInv, Conserved, CommandInv, ReaderInv, SnapshotInv, Each, Drained
<1> QED  BY <1>1, <1>2 DEF IInv

LEMMA EndPollKeeps == ASSUME IInv, EndPoll PROVE IInv'
<1>1. TypeOK'
  BY DEF EndPoll, IInv, TypeOK, childVars, readerVars
<1>2. ASSUME NEW k \in Hosts PROVE HostInv(k)'
  BY Untouched DEF EndPoll, IInv, childVars, readerVars
<1> QED  BY <1>1, <1>2 DEF IInv

-----------------------------------------------------------------------------
(* Fetch: a thread *)

\* A thread that returns: nothing else changes.
LEMMA ReturnKeeps ==
    ASSUME IInv, NEW h \in Hosts,
           NEW result \in {"snapshot", "error", "timed out", "wait failed"},
           Return(h, result), UNCHANGED <<poll, childVars, readerVars, late>>,
           result # "wait failed" =>
              child[h] \in {"none", "reaped"} /\ (child[h] = "reaped" => Drained(h)),
           result = "snapshot" => h \in Local \/ (success[h] /\ Drained(h))
    PROVE  IInv'
<1>1. TypeOK'
  <2>1. thread' \in [Hosts -> {"none", "start", "wait", "collect", "drain", "done"}]
    BY DEF Return, IInv, TypeOK
  <2>2. outcome' \in [Hosts -> {"none", "snapshot", "error", "timed out", "wait failed"}]
    BY DEF Return, IInv, TypeOK
  <2> QED  BY <2>1, <2>2 DEF IInv, TypeOK, childVars, readerVars
<1>2. thread'[h] = "done" /\ outcome'[h] = result
  BY DEF Return, IInv, TypeOK
<1>3. UNCHANGED <<child, success, total, left, pipe, reader, got>>
  BY DEF childVars, readerVars
<1>4. HostInv(h)'
  <2>1. Conserved(h)' /\ ReaderInv(h)'
    BY <1>3, OfHost DEF Conserved, ReaderInv
  <2>2. CommandInv(h)'
    BY <1>2, <1>3, OfHost DEF CommandInv, Drained
  <2>3. SnapshotInv(h)'
    BY <1>2, <1>3 DEF SnapshotInv, Drained
  <2> QED  BY <2>1, <2>2, <2>3 DEF HostInv
<1>5. ASSUME NEW k \in Hosts, k # h PROVE HostInv(k)'
  BY <1>3, <1>5, Untouched DEF Return, IInv, TypeOK
<1> QED  BY <1>1, <1>4, <1>5 DEF IInv

LEMMA ReadLocalKeeps == ASSUME IInv, NEW h \in Hosts, ReadLocal(h) PROVE IInv'
<1>1. child[h] = "none"
  BY OfHost DEF CommandInv, ReadLocal
<1>2. PICK result \in {"snapshot", "error"} : Return(h, result)
  BY DEF ReadLocal
<1>3. h \in Local /\ UNCHANGED <<poll, childVars, readerVars, late>>
  BY DEF ReadLocal
<1>4. child[h] \in {"none", "reaped"} /\ (child[h] = "reaped" => Drained(h))
  BY <1>1
<1> QED  BY <1>2, <1>3, <1>4, ReturnKeeps

LEMMA SpawnFailsKeeps == ASSUME IInv, NEW h \in Hosts, SpawnFails(h) PROVE IInv'
<1>1. child[h] = "none"
  BY OfHost DEF CommandInv, SpawnFails
<1> QED  BY <1>1, ReturnKeeps DEF SpawnFails

LEMMA WaitFailsKeeps == ASSUME IInv, NEW h \in Hosts, WaitFails(h) PROVE IInv'
BY ReturnKeeps DEF WaitFails

LEMMA TimedOutKeeps == ASSUME IInv, NEW h \in Hosts, TimedOut(h) PROVE IInv'
<1>1. child[h] = "reaped"
  BY OfHost DEF CommandInv, TimedOut
<1> QED  BY <1>1, ReturnKeeps DEF TimedOut

LEMMA CollectKeeps == ASSUME IInv, NEW h \in Hosts, Collect(h) PROVE IInv'
<1>1. child[h] = "reaped"
  BY OfHost DEF CommandInv, Collect
<1>2. PICK result \in {"snapshot", "error"} :
          (result = "snapshot" => success[h]) /\ Return(h, result)
  BY DEF Collect
<1> QED  BY <1>1, <1>2, ReturnKeeps DEF Collect

LEMMA SpawnKeeps == ASSUME IInv, NEW h \in Hosts, Spawn(h) PROVE IInv'
<1>1. PICK output \in Output : /\ total' = [total EXCEPT ![h] = output]
                               /\ left' = [left EXCEPT ![h] = output]
  BY DEF Spawn
<1>2. TypeOK'
  <2>1. Readers \in [Streams -> {"none", "reading", "done"}]
    BY DEF Readers, Each
  <2>2. total' \in [Hosts -> Output] /\ left' \in [Hosts -> Output]
    BY <1>1 DEF IInv, TypeOK
  <2>3. helper' \in [Hosts -> SUBSET Streams]
    BY DEF Spawn, IInv, TypeOK
  <2>4. thread' \in [Hosts -> {"none", "start", "wait", "collect", "drain", "done"}]
    BY DEF Spawn, IInv, TypeOK
  <2>5. child' \in [Hosts -> {"none", "running", "zombie", "reaped"}]
    BY DEF Spawn, IInv, TypeOK
  <2>6. reader' \in [Hosts -> [Streams -> {"none", "reading", "done"}]]
    BY <2>1 DEF Spawn, IInv, TypeOK
  <2> QED  BY <2>2, <2>3, <2>4, <2>5, <2>6 DEF Spawn, IInv, TypeOK
<1>3. HostInv(h)'
  <2>1. /\ thread'[h] = "wait"
        /\ child'[h] = "running"
        /\ total'[h] = output
        /\ left'[h] = output
        /\ \A s \in Streams : reader'[h][s] = "reading"
    BY <1>1 DEF Spawn, IInv, TypeOK, Readers, Each
  <2>2. UNCHANGED <<outcome, success, pipe, got>> /\ h \notin Local /\ thread[h] = "start"
    BY DEF Spawn
  <2>3. child[h] = "none" /\ ~success[h] /\ outcome[h] = "none"
    BY <2>2, OfHost DEF CommandInv, IInv, TypeOK
  <2>4. \A s \in Streams : pipe[h][s] = 0 /\ got[h][s] = 0
    BY <2>3, OfHost DEF ReaderInv
  <2>5. Conserved(h)'
    <3>1. \A s \in Streams : output[s] \in Nat
      BY FetchAssumption DEF Output
    <3> QED  BY <2>1, <2>2, <2>4, <3>1 DEF Conserved
  <2>6. CommandInv(h)'
    BY <2>1, <2>2, <2>3 DEF CommandInv
  <2>7. ReaderInv(h)'
    BY <2>1 DEF ReaderInv
  <2>8. SnapshotInv(h)'
    BY <2>2, <2>3 DEF SnapshotInv
  <2> QED  BY <2>5, <2>6, <2>7, <2>8 DEF HostInv
<1>4. ASSUME NEW k \in Hosts, k # h PROVE HostInv(k)'
  BY <1>1, <1>4, Untouched DEF Spawn, IInv, TypeOK
<1> QED  BY <1>2, <1>3, <1>4 DEF IInv

LEMMA TimePassesKeeps == ASSUME IInv, NEW h \in Hosts, TimePasses(h) PROVE IInv'
<1>1. TypeOK'
  BY DEF TimePasses, IInv, TypeOK, childVars, readerVars
<1>2. ASSUME NEW k \in Hosts PROVE HostInv(k)'
  BY Untouched DEF TimePasses, IInv, childVars, readerVars
<1> QED  BY <1>1, <1>2 DEF IInv

\* The command has ended and its thread goes on to the readers.
LEMMA ReapKeeps ==
    ASSUME IInv, NEW h \in Hosts, NEW next \in {"collect", "drain"}, thread[h] = "wait",
           child' = [child EXCEPT ![h] = "reaped"],
           thread' = [thread EXCEPT ![h] = next],
           UNCHANGED <<poll, outcome, success, total, left, helper, readerVars, late>>
    PROVE  IInv'
<1>1. TypeOK'
  <2>1. child' \in [Hosts -> {"none", "running", "zombie", "reaped"}]
    BY DEF IInv, TypeOK
  <2>2. thread' \in [Hosts -> {"none", "start", "wait", "collect", "drain", "done"}]
    BY DEF IInv, TypeOK
  <2> QED  BY <2>1, <2>2 DEF IInv, TypeOK, readerVars
<1>2. thread'[h] = next /\ child'[h] = "reaped"
  BY DEF IInv, TypeOK
<1>3. UNCHANGED <<outcome, success, total, left, pipe, reader, got>>
  BY DEF readerVars
<1>4. HostInv(h)'
  <2>1. Conserved(h)' /\ SnapshotInv(h)'
    BY <1>3, OfHost DEF Conserved, SnapshotInv, Drained
  <2>2. child[h] # "none" /\ h \notin Local /\ outcome[h] = "none"
    BY OfHost DEF CommandInv
  <2>3. ReaderInv(h)'
    BY <1>2, <1>3, <2>2, OfHost DEF ReaderInv
  <2>4. CommandInv(h)'
    <3>1. outcome'[h] = "none" /\ success'[h] = success[h] /\ left'[h] = left[h]
      BY <1>3, <2>2
    <3>2. success[h] => \A s \in Streams : left[h][s] = 0
      BY OfHost DEF CommandInv
    <3>3. success'[h] => \A s \in Streams : left'[h][s] = 0
      BY <3>1, <3>2
    <3> QED  BY <1>2, <2>2, <3>1, <3>3 DEF CommandInv
  <2> QED  BY <2>1, <2>3, <2>4 DEF HostInv
<1>5. ASSUME NEW k \in Hosts, k # h PROVE HostInv(k)'
  BY <1>3, <1>5, Untouched DEF IInv, TypeOK
<1> QED  BY <1>1, <1>4, <1>5 DEF IInv

LEMMA WaitedKeeps == ASSUME IInv, NEW h \in Hosts, Waited(h) PROVE IInv'
BY ReapKeeps DEF Waited

LEMMA TimeOutKeeps == ASSUME IInv, NEW h \in Hosts, TimeOut(h) PROVE IInv'
BY ReapKeeps DEF TimeOut

-----------------------------------------------------------------------------
(* Fetch: the command, its helper and the readers *)

LEMMA WriteKeeps ==
    ASSUME IInv, NEW h \in Hosts, NEW s \in Streams, Write(h, s) PROVE IInv'
<1>1. /\ left[h] \in Output
      /\ pipe[h] \in [Streams -> 0..Capacity]
      /\ left[h][s] \in 1..MaxOutput
      /\ pipe[h][s] \in 0..(Capacity - 1)
  BY FetchAssumption, OfHost DEF Output, Write
<1>2. /\ left'[h] = [left[h] EXCEPT ![s] = left[h][s] - 1]
      /\ pipe'[h] = [pipe[h] EXCEPT ![s] = pipe[h][s] + 1]
  BY DEF Write, IInv, TypeOK
<1>3. left'[h] \in Output /\ pipe'[h] \in [Streams -> 0..Capacity]
  BY <1>1, <1>2, FetchAssumption DEF Output
<1>4. TypeOK'
  <2>1. left' \in [Hosts -> Output] /\ pipe' \in [Hosts -> [Streams -> 0..Capacity]]
    BY <1>2, <1>3 DEF Write, IInv, TypeOK
  <2> QED  BY <2>1 DEF Write, IInv, TypeOK
<1>5. HostInv(h)'
  <2>1. UNCHANGED <<thread, outcome, child, success, total, reader, got>>
    BY DEF Write
  <2>2. child[h] = "running"
    BY DEF Write
  <2>3. Conserved(h)'
    <3> SUFFICES ASSUME NEW r \in Streams
                 PROVE got[h][r] + pipe'[h][r] + left'[h][r] = total[h][r]
      BY <2>1 DEF Conserved
    <3>1. got[h][r] \in Nat /\ pipe[h][r] \in Nat /\ left[h][r] \in Nat
      BY FetchAssumption, OfHost DEF Output
    <3>2. got[h][r] + pipe[h][r] + left[h][r] = total[h][r]
      BY OfHost DEF Conserved
    <3> QED  BY <1>1, <1>2, <3>1, <3>2 DEF Output
  <2>4. CommandInv(h)'
    BY <2>1, <2>2, OfHost DEF CommandInv, Drained
  <2>5. ReaderInv(h)'
    BY <2>1, <2>2, OfHost DEF ReaderInv
  <2>6. SnapshotInv(h)'
    BY <2>1, OfHost DEF SnapshotInv, Drained
  <2> QED  BY <2>3, <2>4, <2>5, <2>6 DEF HostInv
<1>6. ASSUME NEW k \in Hosts, k # h PROVE HostInv(k)'
  BY <1>6, Untouched DEF Write, IInv, TypeOK
<1> QED  BY <1>4, <1>5, <1>6 DEF IInv

LEMMA ExitKeeps == ASSUME IInv, NEW h \in Hosts, Exit(h) PROVE IInv'
<1>1. PICK ok \in BOOLEAN : /\ ok => \A s \in Streams : left[h][s] = 0
                            /\ success' = [success EXCEPT ![h] = ok]
  BY DEF Exit
<1>2. TypeOK'
  <2>1. child' \in [Hosts -> {"none", "running", "zombie", "reaped"}]
    BY DEF Exit, IInv, TypeOK
  <2>2. success' \in [Hosts -> BOOLEAN]
    BY <1>1 DEF IInv, TypeOK
  <2> QED  BY <2>1, <2>2 DEF Exit, IInv, TypeOK, readerVars
<1>3. child'[h] = "zombie" /\ success'[h] = ok /\ child[h] = "running"
  BY <1>1 DEF Exit, IInv, TypeOK
<1>4. UNCHANGED <<thread, outcome, total, left, pipe, reader, got>>
  BY DEF Exit, readerVars
<1>5. HostInv(h)'
  <2>1. Conserved(h)'
    BY <1>4, OfHost DEF Conserved
  <2>2. CommandInv(h)'
    BY <1>1, <1>3, <1>4, OfHost DEF CommandInv
  <2>3. ReaderInv(h)'
    BY <1>3, <1>4, OfHost DEF ReaderInv
  <2>4. SnapshotInv(h)'
    <3>1. ~success[h]
      BY <1>3, OfHost DEF CommandInv
    <3> QED  BY <1>4, <3>1, OfHost DEF SnapshotInv
  <2> QED  BY <2>1, <2>2, <2>3, <2>4 DEF HostInv
<1>6. ASSUME NEW k \in Hosts, k # h PROVE HostInv(k)'
  BY <1>1, <1>4, <1>6, Untouched DEF Exit, IInv, TypeOK
<1> QED  BY <1>2, <1>5, <1>6 DEF IInv

LEMMA HelperEndsKeeps == ASSUME IInv, NEW h \in Hosts, HelperEnds(h) PROVE IInv'
<1>1. TypeOK'
  BY DEF HelperEnds, IInv, TypeOK, readerVars
<1>2. ASSUME NEW k \in Hosts PROVE HostInv(k)'
  BY Untouched DEF HelperEnds, IInv, readerVars
<1> QED  BY <1>1, <1>2 DEF IInv

LEMMA ReadKeeps ==
    ASSUME IInv, NEW h \in Hosts, NEW s \in Streams, Read(h, s) PROVE IInv'
<1>1. /\ got[h] \in Output
      /\ pipe[h] \in [Streams -> 0..Capacity]
      /\ pipe[h][s] \in 1..Capacity
      /\ got[h][s] \in 0..(MaxOutput - 1)
  <2>1. got[h] \in Output /\ pipe[h] \in [Streams -> 0..Capacity] /\ pipe[h][s] \in 1..Capacity
    BY FetchAssumption, OfHost DEF Output, Read
  <2>2. left[h][s] \in Nat /\ got[h][s] \in Nat /\ total[h][s] \in 0..MaxOutput
    BY FetchAssumption, OfHost DEF Output
  <2>3. got[h][s] + pipe[h][s] + left[h][s] = total[h][s]
    BY OfHost DEF Conserved
  <2> QED  BY <2>1, <2>2, <2>3, FetchAssumption
<1>2. /\ got'[h] = [got[h] EXCEPT ![s] = got[h][s] + 1]
      /\ pipe'[h] = [pipe[h] EXCEPT ![s] = pipe[h][s] - 1]
  BY DEF Read, IInv, TypeOK
<1>3. got'[h] \in Output /\ pipe'[h] \in [Streams -> 0..Capacity]
  BY <1>1, <1>2, FetchAssumption DEF Output
<1>4. TypeOK'
  <2>1. got' \in [Hosts -> Output] /\ pipe' \in [Hosts -> [Streams -> 0..Capacity]]
    BY <1>2, <1>3 DEF Read, IInv, TypeOK
  <2> QED  BY <2>1 DEF Read, IInv, TypeOK, childVars
<1>5. HostInv(h)'
  <2>1. UNCHANGED <<thread, outcome, child, success, total, left, reader>>
    BY DEF Read, childVars
  <2>2. reader[h][s] = "reading"
    BY DEF Read
  <2>3. Conserved(h)'
    <3> SUFFICES ASSUME NEW r \in Streams
                 PROVE got'[h][r] + pipe'[h][r] + left[h][r] = total[h][r]
      BY <2>1 DEF Conserved
    <3>1. got[h][r] \in Nat /\ pipe[h][r] \in Nat /\ left[h][r] \in Nat
      BY FetchAssumption, OfHost DEF Output
    <3>2. got[h][r] + pipe[h][r] + left[h][r] = total[h][r]
      BY OfHost DEF Conserved
    <3> QED  BY <1>1, <1>2, <3>1, <3>2 DEF Output
  <2>4. CommandInv(h)'
    BY <2>1, OfHost DEF CommandInv, Drained
  <2>5. ReaderInv(h)'
    <3> SUFFICES ASSUME NEW r \in Streams
                 PROVE /\ child[h] = "none" =>
                             reader[h][r] = "none" /\ pipe'[h][r] = 0 /\ got'[h][r] = 0
                       /\ child[h] # "none" => reader[h][r] # "none"
                       /\ reader[h][r] = "done" => pipe'[h][r] = 0 /\ child[h] # "running"
      BY <2>1 DEF ReaderInv
    <3>1. child[h] # "none"
      BY <2>2, OfHost DEF ReaderInv
    <3>2. r = s => reader[h][r] = "reading"
      BY <2>2
    <3>3. r # s => pipe'[h][r] = pipe[h][r]
      BY <1>1, <1>2
    <3> QED  BY <3>1, <3>2, <3>3, OfHost DEF ReaderInv
  <2>6. SnapshotInv(h)'
    BY <2>1, OfHost DEF SnapshotInv, Drained
  <2> QED  BY <2>3, <2>4, <2>5, <2>6 DEF HostInv
<1>6. ASSUME NEW k \in Hosts, k # h PROVE HostInv(k)'
  BY <1>6, Untouched DEF Read, IInv, TypeOK, childVars
<1> QED  BY <1>4, <1>5, <1>6 DEF IInv

LEMMA EndOfFileKeeps ==
    ASSUME IInv, NEW h \in Hosts, NEW s \in Streams, EndOfFile(h, s) PROVE IInv'
<1>1. reader[h] \in [Streams -> {"none", "reading", "done"}]
  BY OfHost
<1>2. reader'[h] = [reader[h] EXCEPT ![s] = "done"]
  BY DEF EndOfFile, IInv, TypeOK
<1>3. TypeOK'
  <2>1. reader' \in [Hosts -> [Streams -> {"none", "reading", "done"}]]
    BY <1>1, <1>2 DEF EndOfFile, IInv, TypeOK
  <2> QED  BY <2>1 DEF EndOfFile, IInv, TypeOK, childVars
<1>4. HostInv(h)'
  <2>1. UNCHANGED <<thread, outcome, child, success, total, left, pipe, got>>
    BY DEF EndOfFile, childVars
  <2>2. reader[h][s] = "reading" /\ pipe[h][s] = 0 /\ child[h] # "running"
    BY DEF EndOfFile
  <2>3. child[h] # "none"
    BY <2>2, OfHost DEF ReaderInv
  <2>4. \A r \in Streams : reader'[h][r] = IF r = s THEN "done" ELSE reader[h][r]
    BY <1>1, <1>2
  <2>5. Drained(h) => Drained(h)'
    BY <2>4 DEF Drained
  <2>6. Conserved(h)'
    BY <2>1, OfHost DEF Conserved
  <2>7. CommandInv(h)'
    BY <2>1, <2>5, OfHost DEF CommandInv
  <2>8. ReaderInv(h)'
    BY <2>1, <2>2, <2>3, <2>4, OfHost DEF ReaderInv
  <2>9. SnapshotInv(h)'
    BY <2>1, <2>5, OfHost DEF SnapshotInv
  <2> QED  BY <2>6, <2>7, <2>8, <2>9 DEF HostInv
<1>5. ASSUME NEW k \in Hosts, k # h PROVE HostInv(k)'
  BY <1>5, Untouched DEF EndOfFile, IInv, TypeOK, childVars
<1> QED  BY <1>3, <1>4, <1>5 DEF IInv

-----------------------------------------------------------------------------

\* The invariant of fetching holds after any number of polls.
THEOREM FetchInvariance == Spec => []IInv
<1>1. IInv /\ [Next]_vars => IInv'
  <2> SUFFICES ASSUME IInv, [Next]_vars PROVE IInv'
    OBVIOUS
  <2>1. CASE UNCHANGED vars
    <3>1. TypeOK'
      BY <2>1 DEF vars, IInv, TypeOK
    <3>2. ASSUME NEW k \in Hosts PROVE HostInv(k)'
      BY <2>1, Untouched DEF vars, IInv
    <3> QED  BY <3>1, <3>2 DEF IInv
  <2>2. ASSUME NEW h \in Hosts, Thread(h) PROVE IInv'
    BY <2>2, ReadLocalKeeps, SpawnFailsKeeps, SpawnKeeps, WaitedKeeps, TimeOutKeeps,
       TimedOutKeeps, CollectKeeps DEF Thread
  <2>3. ASSUME NEW h \in Hosts, NEW s \in Streams, Reader(h, s) PROVE IInv'
    BY <2>3, ReadKeeps, EndOfFileKeeps DEF Reader
  <2> QED  BY <2>1, <2>2, <2>3, StartPollKeeps, EndPollKeeps, WaitFailsKeeps,
              TimePassesKeeps, ExitKeeps, HelperEndsKeeps, WriteKeeps DEF Next
<1> QED  BY <1>1, InitEstablishes, PTL DEF Spec

\* A snapshot that a poll shows is all that the command wrote, in whatever order the
\* command, its helper and the readers end.
THEOREM AnswersAreWhole == Spec => []AnswerIsWhole
<1>1. IInv => AnswerIsWhole
  <2> SUFFICES ASSUME IInv, NEW h \in Hosts \ Local, outcome[h] = "snapshot",
                      NEW s \in Streams
               PROVE got[h][s] = total[h][s]
    BY DEF AnswerIsWhole
  <2>1. success[h] /\ reader[h][s] = "done"
    BY OfHost DEF SnapshotInv, Drained
  <2>2. left[h][s] = 0 /\ pipe[h][s] = 0
    BY <2>1, OfHost DEF CommandInv, ReaderInv
  <2>3. got[h][s] + pipe[h][s] + left[h][s] = total[h][s] /\ got[h][s] \in Nat
    BY FetchAssumption, OfHost DEF Conserved, Output
  <2> QED  BY <2>2, <2>3
<1> QED  BY <1>1, FetchInvariance, PTL

\* A thread leaves neither a command nor a reader behind.
THEOREM ThreadsCleanUp == Spec => []NothingLeftBehind
<1>1. IInv => NothingLeftBehind
  <2> SUFFICES ASSUME IInv, NEW h \in Hosts, thread[h] = "done", outcome[h] # "wait failed"
               PROVE /\ child[h] \in {"none", "reaped"}
                     /\ \A s \in Streams : reader[h][s] # "reading" /\ pipe[h][s] = 0
    BY DEF NothingLeftBehind
  <2>1. child[h] \in {"none", "reaped"} /\ (child[h] = "reaped" => Drained(h))
    BY OfHost DEF CommandInv
  <2> QED  BY <2>1, OfHost DEF ReaderInv, Drained
<1> QED  BY <1>1, FetchInvariance, PTL

\* As long as a command may write, a full pipe has a reader: the thread that waits
\* for the command and the command that waits for the pipe cannot lock each other up.
THEOREM NoMutualWait == Spec => []NobodyWaitsForEachOther
<1>1. IInv => NobodyWaitsForEachOther
  <2> SUFFICES ASSUME IInv, NEW h \in Hosts, child[h] = "running", NEW s \in Streams
               PROVE reader[h][s] = "reading"
    BY DEF NobodyWaitsForEachOther
  <2> QED  BY OfHost DEF ReaderInv
<1> QED  BY <1>1, FetchInvariance, PTL

-----------------------------------------------------------------------------
(* Fetch: every step leaves less to do *)

\* What is still to be done for a thread that is at t: a command that starts may bring
\* as much as MaxOutput to each pipe.
ThreadWork(t) ==
    [none |-> 0, start |-> 4 * MaxOutput + 7, wait |-> 2, collect |-> 1, drain |-> 1,
     done |-> 0][t]
CommandWork(c) == IF c = "running" THEN 1 ELSE 0
HelperWork(open) == IF open = {} THEN 0 ELSE 1
TimeWork(over) == IF over THEN 0 ELSE 1
\* Every byte is written and read, and every reader comes to the end.
StreamWork(unwritten, unread, r) ==
    2 * unwritten + unread + (IF r = "reading" THEN 1 ELSE 0)

StreamLeft(h, s) == StreamWork(left[h][s], pipe[h][s], reader[h][s])
WorkLeft(h) ==
    ThreadWork(thread[h]) + CommandWork(child[h]) + HelperWork(helper[h]) + TimeWork(late[h])
        + StreamLeft(h, "out") + StreamLeft(h, "err")

Places == {"none", "start", "wait", "collect", "drain", "done"}

\* All of these are numbers.
LEMMA Amounts ==
    /\ \A t \in Places : ThreadWork(t) \in Nat
    /\ \A c : CommandWork(c) \in {0, 1}
    /\ \A open : HelperWork(open) \in {0, 1}
    /\ \A over : TimeWork(over) \in {0, 1}
    /\ \A unwritten, unread \in Nat : \A r : StreamWork(unwritten, unread, r) \in Nat
BY FetchAssumption DEF ThreadWork, CommandWork, HelperWork, TimeWork, StreamWork, Places

\* Of one host.
LEMMA TypesOfHost ==
    ASSUME TypeOK, NEW h \in Hosts
    PROVE  /\ thread[h] \in Places
           /\ child[h] \in {"none", "running", "zombie", "reaped"}
           /\ late[h] \in BOOLEAN
           /\ \A s \in Streams : /\ left[h][s] \in 0..MaxOutput
                                 /\ pipe[h][s] \in Nat
                                 /\ StreamLeft(h, s) \in Nat
<1>1. /\ thread[h] \in Places
      /\ child[h] \in {"none", "running", "zombie", "reaped"}
      /\ late[h] \in BOOLEAN
  BY DEF TypeOK, Places
<1>2. ASSUME NEW s \in Streams PROVE left[h][s] \in 0..MaxOutput /\ pipe[h][s] \in 0..Capacity
  BY DEF TypeOK, Output
<1>3. ASSUME NEW s \in Streams PROVE left[h][s] \in Nat /\ pipe[h][s] \in Nat
  BY <1>2, FetchAssumption
<1> QED  BY <1>1, <1>2, <1>3, Amounts DEF StreamLeft

LEMMA WorkIsCounted == ASSUME TypeOK, NEW h \in Hosts PROVE WorkLeft(h) \in Nat
<1>1. StreamLeft(h, "out") \in Nat /\ StreamLeft(h, "err") \in Nat /\ thread[h] \in Places
  BY TypesOfHost DEF Streams
<1>2. /\ ThreadWork(thread[h]) \in Nat /\ CommandWork(child[h]) \in Nat
      /\ HelperWork(helper[h]) \in Nat /\ TimeWork(late[h]) \in Nat
  BY <1>1, Amounts
<1> QED  BY <1>1, <1>2 DEF WorkLeft

\* A thread that has begun goes on by one place.
LEMMA ThreadGoes ==
    ASSUME TypeOK, TypeOK', NEW h \in Hosts,
           Waited(h) \/ WaitFails(h) \/ TimeOut(h) \/ TimedOut(h) \/ Collect(h)
             \/ ReadLocal(h) \/ SpawnFails(h)
    PROVE  /\ ThreadWork(thread'[h]) < ThreadWork(thread[h])
           /\ CommandWork(child'[h]) <= CommandWork(child[h])
           /\ UNCHANGED <<helper, late, left, pipe, reader>>
<1>1. /\ thread[h] \in Places \ {"none", "done"}
      /\ thread'[h] \in {"done", "collect", "drain"}
      /\ thread'[h] # "done" => thread[h] = "wait"
  BY DEF Waited, WaitFails, TimeOut, TimedOut, Collect, ReadLocal, SpawnFails, Return,
         TypeOK, Places
<1>2. child'[h] \in {child[h], "reaped"}
  BY DEF Waited, WaitFails, TimeOut, TimedOut, Collect, ReadLocal, SpawnFails, childVars,
         TypeOK
<1>3. UNCHANGED <<helper, late, left, pipe, reader>>
  BY DEF Waited, WaitFails, TimeOut, TimedOut, Collect, ReadLocal, SpawnFails, childVars,
         readerVars
<1> QED  BY <1>1, <1>2, <1>3, FetchAssumption DEF ThreadWork, CommandWork, Places

\* A command that starts is what the thread had counted on.
LEMMA SpawnWork ==
    ASSUME TypeOK, TypeOK', NEW h \in Hosts, Spawn(h)
    PROVE  WorkLeft(h)' < WorkLeft(h)
<1>1. thread[h] = "start" /\ thread'[h] = "wait" /\ late'[h] = late[h]
  BY DEF Spawn, TypeOK
<1>2. \A s \in Streams : /\ left'[h][s] \in 0..MaxOutput
                         /\ StreamLeft(h, s)' <= StreamLeft(h, s) + 2 * MaxOutput + 1
  <2> SUFFICES ASSUME NEW s \in Streams
               PROVE  /\ left'[h][s] \in 0..MaxOutput
                      /\ StreamLeft(h, s)' <= StreamLeft(h, s) + 2 * MaxOutput + 1
    OBVIOUS
  <2>1. left'[h][s] \in 0..MaxOutput
    <3>1. left'[h] \in Output
      BY DEF TypeOK
    <3> QED  BY <3>1 DEF Output
  <2>2. pipe'[h][s] = pipe[h][s] /\ pipe[h][s] \in Nat /\ left[h][s] \in Nat
    BY TypesOfHost DEF Spawn
  <2> QED  BY <2>1, <2>2, FetchAssumption DEF StreamLeft, StreamWork
<1>3. \A s \in Streams : StreamLeft(h, s) \in Nat /\ StreamLeft(h, s)' \in Nat
  <2>1. \A s \in Streams : left'[h][s] \in Nat /\ pipe'[h][s] \in Nat
    BY <1>2, TypesOfHost DEF Spawn
  <2> QED  BY <2>1, TypesOfHost, Amounts DEF StreamLeft
<1>4. ThreadWork(thread[h]) = 4 * MaxOutput + 7 /\ ThreadWork(thread'[h]) = 2
  BY <1>1 DEF ThreadWork
<1>5. /\ CommandWork(child[h]) \in {0, 1} /\ CommandWork(child'[h]) \in {0, 1}
      /\ HelperWork(helper[h]) \in {0, 1} /\ HelperWork(helper'[h]) \in {0, 1}
      /\ TimeWork(late[h]) \in {0, 1} /\ TimeWork(late'[h]) = TimeWork(late[h])
  BY <1>1, Amounts
<1>6. /\ StreamLeft(h, "out") \in Nat /\ StreamLeft(h, "out")' \in Nat
      /\ StreamLeft(h, "err") \in Nat /\ StreamLeft(h, "err")' \in Nat
      /\ StreamLeft(h, "out")' <= StreamLeft(h, "out") + 2 * MaxOutput + 1
      /\ StreamLeft(h, "err")' <= StreamLeft(h, "err") + 2 * MaxOutput + 1
  BY <1>2, <1>3 DEF Streams
<1> QED  BY <1>4, <1>5, <1>6, FetchAssumption DEF WorkLeft

\* A byte is written or read, or a reader comes to the end.
LEMMA StreamGoes ==
    ASSUME TypeOK, NEW h \in Hosts, NEW s \in Streams,
           Write(h, s) \/ Read(h, s) \/ EndOfFile(h, s)
    PROVE  /\ StreamLeft(h, s)' < StreamLeft(h, s)
           /\ \A r \in Streams : StreamLeft(h, r)' <= StreamLeft(h, r)
           /\ UNCHANGED <<thread, child, helper, late>>
<1>1. UNCHANGED <<thread, child, helper, late>>
  BY DEF Write, Read, EndOfFile, childVars
<1>2. /\ left[h] \in [Streams -> 0..MaxOutput] /\ pipe[h] \in [Streams -> 0..Capacity]
      /\ reader[h] \in [Streams -> {"none", "reading", "done"}]
  BY DEF TypeOK, Output
<1>3. /\ left'[h] = left[h] \/ left'[h] = [left[h] EXCEPT ![s] = @ - 1]
      /\ \/ pipe'[h] = pipe[h]
         \/ pipe'[h] = [pipe[h] EXCEPT ![s] = @ - 1]
         \/ pipe'[h] = [pipe[h] EXCEPT ![s] = @ + 1]
      /\ reader'[h] = reader[h] \/ reader'[h] = [reader[h] EXCEPT ![s] = "done"]
  BY DEF Write, Read, EndOfFile, childVars, TypeOK
<1>4. \A r \in Streams \ {s} : /\ left'[h][r] = left[h][r] /\ pipe'[h][r] = pipe[h][r]
                               /\ reader'[h][r] = reader[h][r]
  BY <1>2, <1>3
<1>5. \A r \in Streams : StreamLeft(h, r) \in Nat /\ left[h][r] \in Nat /\ pipe[h][r] \in Nat
  BY TypesOfHost
<1>6. StreamLeft(h, s)' < StreamLeft(h, s)
  <2>1. CASE Write(h, s)
    <3>1. left'[h][s] = left[h][s] - 1 /\ pipe'[h][s] = pipe[h][s] + 1 /\ reader' = reader
      BY <1>2, <2>1 DEF Write, TypeOK
    <3> QED  BY <1>5, <3>1 DEF StreamLeft, StreamWork
  <2>2. CASE Read(h, s)
    <3>1. left' = left /\ pipe'[h][s] = pipe[h][s] - 1 /\ reader' = reader
      BY <1>2, <2>2 DEF Read, TypeOK, childVars
    <3> QED  BY <1>5, <3>1 DEF StreamLeft, StreamWork
  <2>3. CASE EndOfFile(h, s)
    <3>1. left' = left /\ pipe' = pipe /\ reader[h][s] = "reading" /\ reader'[h][s] = "done"
      BY <1>2, <2>3 DEF EndOfFile, TypeOK, childVars
    <3> QED  BY <1>5, <3>1 DEF StreamLeft, StreamWork
  <2> QED  BY <2>1, <2>2, <2>3
<1>7. \A r \in Streams \ {s} : StreamLeft(h, r)' = StreamLeft(h, r)
  BY <1>4 DEF StreamLeft
<1>8. StreamLeft(h, s)' <= StreamLeft(h, s)
  <2>1. StreamLeft(h, s)' \in Int
    BY <1>2, <1>3, <1>5 DEF StreamLeft, StreamWork
  <2> QED  BY <1>5, <1>6, <2>1
<1>9. \A r \in Streams : StreamLeft(h, r)' <= StreamLeft(h, r)
  BY <1>5, <1>7, <1>8
<1> QED  BY <1>1, <1>6, <1>9

\* Time passes, the command ends or its helper does.
LEMMA RestGoes ==
    ASSUME TypeOK, NEW h \in Hosts, TimePasses(h) \/ Exit(h) \/ HelperEnds(h)
    PROVE  /\ CommandWork(child'[h]) <= CommandWork(child[h])
           /\ HelperWork(helper'[h]) <= HelperWork(helper[h])
           /\ TimeWork(late'[h]) <= TimeWork(late[h])
           /\ \/ CommandWork(child'[h]) < CommandWork(child[h])
              \/ HelperWork(helper'[h]) < HelperWork(helper[h])
              \/ TimeWork(late'[h]) < TimeWork(late[h])
           /\ UNCHANGED <<thread, left, pipe, reader>>
<1>1. UNCHANGED <<thread, left, pipe, reader>>
  BY DEF TimePasses, Exit, HelperEnds, childVars, readerVars
<1>2. /\ CommandWork(child[h]) \in {0, 1} /\ HelperWork(helper[h]) \in {0, 1}
      /\ TimeWork(late[h]) \in {0, 1}
  BY Amounts
<1>3. CASE TimePasses(h)
  <2>1. child' = child /\ helper' = helper
    BY <1>3 DEF TimePasses, childVars
  <2>2. TimeWork(late[h]) = 1 /\ TimeWork(late'[h]) = 0
    BY <1>3 DEF TimePasses, TypeOK, TimeWork
  <2> QED  BY <1>1, <1>2, <2>1, <2>2
<1>4. CASE Exit(h)
  <2>1. child[h] = "running" /\ child'[h] = "zombie" /\ helper' = helper /\ late' = late
    BY <1>4 DEF Exit, TypeOK
  <2>2. CommandWork(child[h]) = 1 /\ CommandWork(child'[h]) = 0
    BY <2>1 DEF CommandWork
  <2> QED  BY <1>1, <1>2, <2>1, <2>2
<1>5. CASE HelperEnds(h)
  <2>1. helper[h] # {} /\ helper'[h] = {} /\ child' = child /\ late' = late
    BY <1>5 DEF HelperEnds, TypeOK
  <2>2. HelperWork(helper[h]) = 1 /\ HelperWork(helper'[h]) = 0
    BY <2>1 DEF HelperWork
  <2> QED  BY <1>1, <1>2, <2>1, <2>2
<1> QED  BY <1>3, <1>4, <1>5

LEMMA AmountsBeforeAndAfter ==
    ASSUME TypeOK, TypeOK', NEW h \in Hosts
    PROVE  /\ ThreadWork(thread[h]) \in Nat /\ ThreadWork(thread'[h]) \in Nat
           /\ CommandWork(child[h]) \in Nat /\ CommandWork(child'[h]) \in Nat
           /\ HelperWork(helper[h]) \in Nat /\ HelperWork(helper'[h]) \in Nat
           /\ TimeWork(late[h]) \in Nat /\ TimeWork(late'[h]) \in Nat
           /\ StreamLeft(h, "out") \in Nat /\ StreamLeft(h, "out")' \in Nat
           /\ StreamLeft(h, "err") \in Nat /\ StreamLeft(h, "err")' \in Nat
<1>1. thread[h] \in Places /\ thread'[h] \in Places
  BY DEF TypeOK, Places
<1>2. StreamLeft(h, "out") \in Nat /\ StreamLeft(h, "err") \in Nat
  BY TypesOfHost DEF Streams
<1>3. left'[h] \in [Streams -> 0..MaxOutput] /\ pipe'[h] \in [Streams -> 0..Capacity]
  BY DEF TypeOK, Output
<1>4. ASSUME NEW s \in Streams PROVE StreamLeft(h, s)' \in Nat
  <2>1. left'[h][s] \in Nat /\ pipe'[h][s] \in Nat
    BY <1>3, FetchAssumption
  <2> QED  BY <2>1, Amounts DEF StreamLeft
<1>5. StreamLeft(h, "out")' \in Nat /\ StreamLeft(h, "err")' \in Nat
  BY <1>4 DEF Streams
<1> QED  BY <1>1, <1>2, <1>5, Amounts

\* Every step at a host leaves less to do there, and the same elsewhere.
LEMMA WorkGoes ==
    ASSUME TypeOK, TypeOK', NEW h \in Hosts,
           \/ Thread(h) \/ WaitFails(h) \/ TimePasses(h) \/ Exit(h) \/ HelperEnds(h)
           \/ \E s \in Streams : Write(h, s) \/ Reader(h, s)
    PROVE  WorkLeft(h)' < WorkLeft(h)
<1>1. CASE Spawn(h)
  BY <1>1, SpawnWork
<1>2. CASE (Thread(h) /\ ~Spawn(h)) \/ WaitFails(h)
  <2>1. /\ ThreadWork(thread'[h]) < ThreadWork(thread[h])
        /\ CommandWork(child'[h]) <= CommandWork(child[h])
        /\ UNCHANGED <<helper, late, left, pipe, reader>>
    BY <1>2, ThreadGoes DEF Thread
  <2>2. /\ HelperWork(helper'[h]) = HelperWork(helper[h]) /\ TimeWork(late'[h]) = TimeWork(late[h])
        /\ StreamLeft(h, "out")' = StreamLeft(h, "out")
        /\ StreamLeft(h, "err")' = StreamLeft(h, "err")
    BY <2>1 DEF StreamLeft
  <2> QED  BY <2>1, <2>2, AmountsBeforeAndAfter DEF WorkLeft
<1>3. CASE \E s \in Streams : Write(h, s) \/ Reader(h, s)
  <2>1. PICK s \in Streams : Write(h, s) \/ Read(h, s) \/ EndOfFile(h, s)
    BY <1>3 DEF Reader
  <2>2. /\ StreamLeft(h, s)' < StreamLeft(h, s)
        /\ StreamLeft(h, "out")' <= StreamLeft(h, "out")
        /\ StreamLeft(h, "err")' <= StreamLeft(h, "err")
        /\ UNCHANGED <<thread, child, helper, late>>
        /\ s = "out" \/ s = "err"
    BY <2>1, StreamGoes DEF Streams
  <2> QED  BY <2>2, AmountsBeforeAndAfter DEF WorkLeft
<1>4. CASE TimePasses(h) \/ Exit(h) \/ HelperEnds(h)
  <2>1. /\ CommandWork(child'[h]) <= CommandWork(child[h])
        /\ HelperWork(helper'[h]) <= HelperWork(helper[h])
        /\ TimeWork(late'[h]) <= TimeWork(late[h])
        /\ \/ CommandWork(child'[h]) < CommandWork(child[h])
           \/ HelperWork(helper'[h]) < HelperWork(helper[h])
           \/ TimeWork(late'[h]) < TimeWork(late[h])
        /\ UNCHANGED <<thread, left, pipe, reader>>
    BY <1>4, RestGoes
  <2>2. /\ ThreadWork(thread'[h]) = ThreadWork(thread[h])
        /\ StreamLeft(h, "out")' = StreamLeft(h, "out")
        /\ StreamLeft(h, "err")' = StreamLeft(h, "err")
    BY <2>1 DEF StreamLeft
  <2> QED  BY <2>1, <2>2, AmountsBeforeAndAfter DEF WorkLeft
<1> QED  BY <1>1, <1>2, <1>3, <1>4

LEMMA OthersWorkStays ==
    ASSUME TypeOK, NEW h \in Hosts, NEW g \in Hosts, g # h,
           \/ Thread(h) \/ WaitFails(h) \/ TimePasses(h) \/ Exit(h) \/ HelperEnds(h)
           \/ \E s \in Streams : Write(h, s) \/ Reader(h, s)
    PROVE  WorkLeft(g)' = WorkLeft(g)
<1>1. /\ thread'[g] = thread[g] /\ child'[g] = child[g] /\ helper'[g] = helper[g]
      /\ late'[g] = late[g] /\ left'[g] = left[g] /\ pipe'[g] = pipe[g]
      /\ reader'[g] = reader[g]
  <2>1. CASE Thread(h) \/ WaitFails(h)
    BY <2>1 DEF Thread, ReadLocal, SpawnFails, Spawn, Waited, TimeOut, TimedOut, Collect,
                WaitFails, Return, childVars, readerVars, TypeOK
  <2>2. CASE TimePasses(h) \/ Exit(h) \/ HelperEnds(h)
    BY <2>2 DEF TimePasses, Exit, HelperEnds, childVars, readerVars, TypeOK
  <2>3. CASE \E s \in Streams : Write(h, s) \/ Reader(h, s)
    BY <2>3 DEF Write, Reader, Read, EndOfFile, childVars, TypeOK
  <2> QED  BY <2>1, <2>2, <2>3
<1> QED  BY <1>1 DEF WorkLeft, StreamLeft

\* A step between the start and the end of a poll.
WorksAt(h) ==
    /\ WorkLeft(h) \in Nat /\ WorkLeft(h)' < WorkLeft(h)
    /\ \A g \in Hosts \ {h} : WorkLeft(g)' = WorkLeft(g)

\* Between its start and its end a poll has no more steps than there is work: readers,
\* commands, helpers and threads cannot keep each other busy for ever, for any output.
THEOREM PollsAreFinite ==
    Spec => [][StartPoll \/ EndPoll \/ \E h \in Hosts : WorksAt(h)]_vars
<1>1. TypeOK /\ TypeOK' /\ [Next]_vars =>
         [StartPoll \/ EndPoll \/ \E h \in Hosts : WorksAt(h)]_vars
  <2> SUFFICES ASSUME TypeOK, TypeOK', Next, ~StartPoll, ~EndPoll
               PROVE \E h \in Hosts : WorksAt(h)
    OBVIOUS
  <2>1. PICK h \in Hosts :
           \/ Thread(h) \/ WaitFails(h) \/ TimePasses(h) \/ Exit(h) \/ HelperEnds(h)
           \/ \E s \in Streams : Write(h, s) \/ Reader(h, s)
    BY DEF Next
  <2>2. WorkLeft(h)' < WorkLeft(h) /\ WorkLeft(h) \in Nat
    BY <2>1, WorkGoes, WorkIsCounted
  <2>3. \A g \in Hosts \ {h} : WorkLeft(g)' = WorkLeft(g)
    BY <2>1, OthersWorkStays
  <2> QED  BY <2>2, <2>3 DEF WorksAt
<1>2. IInv => TypeOK
  BY DEF IInv
<1> QED  BY <1>1, <1>2, FetchInvariance, PTL DEF Spec

\* The guards of the steps of host h that fairness is assumed of.
CanGoOn(h) ==
    \/ thread[h] \in {"start", "wait"}
    \/ thread[h] \in {"collect", "drain"} /\ Drained(h)
    \/ helper[h] # {}
    \/ \E s \in Streams :
          /\ reader[h][s] = "reading"
          /\ pipe[h][s] > 0 \/ (child[h] # "running" /\ s \notin helper[h])

\* A poll has given a thread to every host.
JoinInv == poll = "join" => \A h \in Hosts : thread[h] # "none"

\* As long as a poll waits for a thread, one of these steps can be taken at its host: with
\* PollsAreFinite, the poll ends as soon as they are.
THEOREM PollsGoOn ==
    Spec => [](poll = "join" => \A h \in Hosts : thread[h] = "done" \/ CanGoOn(h))
<1>1. Init => JoinInv
  BY DEF Init, JoinInv
<1>2. TypeOK /\ JoinInv /\ [Next]_vars => JoinInv'
  <2> SUFFICES ASSUME TypeOK, JoinInv, [Next]_vars PROVE JoinInv'
    OBVIOUS
  <2>1. CASE UNCHANGED vars \/ EndPoll
    BY <2>1 DEF vars, EndPoll, JoinInv
  <2>2. CASE StartPoll
    BY <2>2 DEF StartPoll, JoinInv
  <2>3. ASSUME NEW h \in Hosts, Thread(h) \/ WaitFails(h) PROVE JoinInv'
    BY <2>3 DEF Thread, ReadLocal, SpawnFails, Spawn, Waited, TimeOut, TimedOut, Collect,
                WaitFails, Return, TypeOK, JoinInv
  <2>4. ASSUME NEW h \in Hosts,
               \/ TimePasses(h) \/ Exit(h) \/ HelperEnds(h)
               \/ \E s \in Streams : Write(h, s) \/ Reader(h, s)
        PROVE JoinInv'
    BY <2>4 DEF TimePasses, Exit, HelperEnds, Write, Reader, Read, EndOfFile, JoinInv
  <2> QED  BY <2>1, <2>2, <2>3, <2>4 DEF Next
<1>3. IInv /\ JoinInv => (poll = "join" => \A h \in Hosts : thread[h] = "done" \/ CanGoOn(h))
  <2> SUFFICES ASSUME IInv, JoinInv, poll = "join", NEW h \in Hosts,
                      thread[h] # "done", ~CanGoOn(h)
               PROVE FALSE
    OBVIOUS
  <2>1. thread[h] \in {"collect", "drain"} /\ ~Drained(h) /\ helper[h] = {}
    BY DEF CanGoOn, JoinInv, IInv, TypeOK
  <2>2. PICK s \in Streams : reader[h][s] # "done"
    BY <2>1 DEF Drained
  <2>3. child[h] = "reaped"
    BY <2>1, OfHost DEF CommandInv
  <2>4. reader[h][s] = "reading"
    BY <2>2, <2>3, OfHost DEF ReaderInv
  <2> QED  BY <2>1, <2>3, <2>4 DEF CanGoOn
<1>4. IInv => TypeOK
  BY DEF IInv
<1> QED  BY <1>1, <1>2, <1>3, <1>4, FetchInvariance, PTL DEF Spec

-----------------------------------------------------------------------------
(* Glob: where the matcher starts *)

\* What the code's variables are when it starts: nothing has been passed.
LEMMA MatcherInitEstablishes == GlobInit => GlobIInv
<1> SUFFICES ASSUME GlobInit PROVE GlobIInv
  OBVIOUS
<1>1. GlobTypeOK
  BY GlobAssumption DEF GlobInit, GlobTypeOK, NoStar
<1>2. FoundInv
  <2> DEFINE cut == [i \in 1..(Len(pattern) + 1) |-> 1]
  <2>1. cut \in Cuts(pattern, value)
    BY <1>1 DEF GlobTypeOK, Cuts
  <2>2. IsCut(pattern, value, cut, 0, 1)
    BY <1>1 DEF GlobTypeOK, IsCut
  <2> QED  BY <2>1, <2>2 DEF FoundInv, HasCut, GlobInit
<1>3. PossibleInv
  BY DEF PossibleInv, FullCut, IsCut, GlobInit, NoStar
<1>4. VerdictIsRight
  BY DEF VerdictIsRight, GlobInit
<1> QED  BY <1>1, <1>2, <1>3, <1>4 DEF GlobIInv

-----------------------------------------------------------------------------
(* Glob: what the patterns and the values are *)

\* Lengths are naturals; a place that fits is not a `*`, as values have none.
LEMMA Lengths ==
    ASSUME GlobTypeOK
    PROVE  Len(pattern) \in Nat /\ Len(value) \in Nat
BY GlobAssumption DEF GlobTypeOK

LEMMA FittingIsNoStar ==
    ASSUME GlobTypeOK, ValueLeft, Fits
    PROVE  pattern[p] # Star
<1>1. value[v] # Star
  BY Lengths, GlobAssumption DEF GlobTypeOK, ValueLeft
<1> QED  BY <1>1 DEF Fits, Any, Star

\* A cut of what was passed goes on over one place more, which stands for the bytes
\* from v up to w.
LEMMA CutGoesOn ==
    ASSUME GlobTypeOK, HasCut(p - 1, v), PatternLeft,
           NEW w \in 1..(Len(value) + 1),
           \/ pattern[p] = Star /\ v <= w
           \/ pattern[p] # Star /\ w = v + 1 /\ pattern[p] \in {Any, value[v]}
    PROVE  HasCut(p, w)
<1>1. PICK cut \in Cuts(pattern, value) : IsCut(pattern, value, cut, p - 1, v)
  BY DEF HasCut
<1> DEFINE longer == [cut EXCEPT ![p + 1] = w]
<1>2. p \in 1..Len(pattern) /\ Len(pattern) \in Nat /\ Len(value) \in Nat
  BY Lengths DEF GlobTypeOK, PatternLeft
<1>3. longer \in Cuts(pattern, value)
  BY <1>2 DEF Cuts
<1>4. \A i \in 1..p : longer[i] = cut[i]
  BY <1>2 DEF Cuts
<1>5. longer[p + 1] = w
  BY <1>2 DEF Cuts
<1>6. cut[p] = v
  BY <1>1, <1>2 DEF IsCut
<1>7. \A i \in 1..p : StandsFor(pattern, value, longer, i)
  <2> SUFFICES ASSUME NEW i \in 1..p PROVE StandsFor(pattern, value, longer, i)
    OBVIOUS
  <2>1. CASE i = p
    BY <2>1, <1>2, <1>4, <1>5, <1>6 DEF StandsFor
  <2>2. CASE i # p
    <3>1. i \in 1..(p - 1) /\ i + 1 \in 1..p
      BY <2>2, <1>2
    <3>2. StandsFor(pattern, value, cut, i)
      BY <3>1, <1>1 DEF IsCut
    <3> QED  BY <3>1, <3>2, <1>4 DEF StandsFor
  <2> QED  BY <2>1, <2>2
<1>8. longer[1] = 1
  BY <1>1, <1>2, <1>4 DEF IsCut
<1> HIDE DEF longer
<1>9. IsCut(pattern, value, longer, p, w)
  BY <1>5, <1>7, <1>8 DEF IsCut
<1> QED  BY <1>3, <1>9 DEF HasCut

\* What a cut of the whole says of one place.
LEMMA PlaceOfCut ==
    ASSUME GlobTypeOK, NEW cut \in Cuts(pattern, value), FullCut(cut),
           NEW i \in 1..Len(pattern)
    PROVE  /\ cut[i] \in 1..(Len(value) + 1)
           /\ cut[i + 1] \in 1..(Len(value) + 1)
           /\ pattern[i] = Star => cut[i] <= cut[i + 1]
           /\ pattern[i] # Star => cut[i + 1] = cut[i] + 1
           /\ pattern[i] # Star => pattern[i] \in {Any, value[cut[i]]}
<1>1. StandsFor(pattern, value, cut, i)
  BY DEF FullCut, IsCut
<1> QED  BY <1>1, Lengths DEF Cuts, StandsFor

\* A place that does not fit and is no `*` is in no cut at v.
LEMMA MismatchIsInNoCut ==
    ASSUME GlobTypeOK, ValueLeft, ~Fits, ~(PatternLeft /\ pattern[p] = Star),
           NEW cut \in Cuts(pattern, value), FullCut(cut)
    PROVE  cut[p] # v
<1> SUFFICES ASSUME cut[p] = v PROVE FALSE
  OBVIOUS
<1>1. CASE PatternLeft
  <2>1. p \in 1..Len(pattern)
    BY <1>1, Lengths DEF PatternLeft, GlobTypeOK
  <2> QED  BY <1>1, <2>1, PlaceOfCut DEF Fits
<1>2. CASE ~PatternLeft
  <2>1. p = Len(pattern) + 1
    BY <1>2, Lengths DEF PatternLeft, GlobTypeOK
  <2> QED  BY <2>1, Lengths DEF FullCut, IsCut, ValueLeft, GlobTypeOK
<1> QED  BY <1>1, <1>2

-----------------------------------------------------------------------------
(* Glob: each round keeps the invariant *)

LEMMA AdvanceKeeps == ASSUME GlobIInv, Advance PROVE GlobIInv'
<1>1. GlobTypeOK /\ FoundInv /\ PossibleInv
  BY DEF GlobIInv, Advance
<1>2. Len(pattern) \in Nat /\ Len(value) \in Nat /\ p \in 1..Len(pattern) /\ v \in 1..Len(value)
  BY <1>1, Lengths DEF Advance, Fits, PatternLeft, ValueLeft, GlobTypeOK
<1>3. GlobTypeOK'
  BY <1>1, <1>2 DEF GlobTypeOK, Advance
<1>4. pattern[p] # Star /\ pattern[p] \in {Any, value[v]}
  BY <1>1, FittingIsNoStar DEF Advance, Fits
<1>5. HasCut(p, v + 1)
  BY <1>1, <1>2, <1>4, CutGoesOn DEF FoundInv, Advance, Fits
<1>6. FoundInv'
  <2>1. (p + 1) - 1 = p
    BY <1>2
  <2> QED  BY <1>1, <1>5, <2>1 DEF FoundInv, HasCut, Advance
<1>7. PossibleInv'
  <2> SUFFICES ASSUME NEW cut \in Cuts(pattern, value), FullCut(cut)
               PROVE IF star = NoStar
                     THEN cut[p + 1] = v + 1
                     ELSE /\ cut[star + 1] >= checkpoint
                          /\ cut[p + 1] - (v + 1) = cut[star + 1] - checkpoint
    BY DEF PossibleInv, FullCut, Advance
  <2>1. cut[p + 1] = cut[p] + 1 /\ cut[p] \in Nat
    BY <1>1, <1>2, <1>4, PlaceOfCut
  <2>2. star # NoStar => cut[star + 1] \in Nat /\ checkpoint \in Nat
    BY <1>1, <1>2 DEF GlobTypeOK, Cuts, NoStar
  <2>3. IF star = NoStar
        THEN cut[p] = v
        ELSE cut[star + 1] >= checkpoint /\ cut[p] - v = cut[star + 1] - checkpoint
    BY <1>1 DEF PossibleInv
  <2>4. CASE star = NoStar
    BY <2>1, <2>3, <2>4
  <2>5. CASE star # NoStar
    <3>1. cut[star + 1] >= checkpoint /\ cut[p] - v = cut[star + 1] - checkpoint
      BY <2>3, <2>5
    <3>2. v \in Nat
      BY <1>2
    <3>3. (cut[p] + 1) - (v + 1) = cut[p] - v
      BY <2>1, <3>2
    <3> QED  BY <2>1, <2>5, <3>1, <3>3
  <2> QED  BY <2>4, <2>5
<1>8. VerdictIsRight'
  BY DEF VerdictIsRight, Advance
<1> QED  BY <1>3, <1>6, <1>7, <1>8 DEF GlobIInv

LEMMA MeetStarKeeps == ASSUME GlobIInv, MeetStar PROVE GlobIInv'
<1>1. GlobTypeOK /\ FoundInv /\ PossibleInv
  BY DEF GlobIInv, MeetStar
<1>2. Len(pattern) \in Nat /\ Len(value) \in Nat /\ p \in 1..Len(pattern) /\ v \in 1..Len(value)
  BY <1>1, Lengths DEF MeetStar, PatternLeft, ValueLeft, GlobTypeOK
<1>3. GlobTypeOK'
  BY <1>1, <1>2 DEF GlobTypeOK, MeetStar, NoStar
<1>4. HasCut(p, v)
  BY <1>1, <1>2, CutGoesOn DEF FoundInv, MeetStar
<1>5. FoundInv'
  <2>1. (p + 1) - 1 = p
    BY <1>2
  <2> QED  BY <1>4, <2>1 DEF FoundInv, HasCut, MeetStar
<1>6. PossibleInv'
  <2> SUFFICES ASSUME NEW cut \in Cuts(pattern, value), FullCut(cut)
               PROVE  cut[p + 1] >= v /\ cut[p + 1] - v = cut[p + 1] - v
    BY <1>2 DEF PossibleInv, FullCut, MeetStar, NoStar
  <2>1. cut[p] <= cut[p + 1] /\ cut[p] \in Nat /\ cut[p + 1] \in Nat
    BY <1>1, <1>2, PlaceOfCut DEF MeetStar
  <2>2. star # NoStar => cut[star + 1] \in Nat /\ checkpoint \in Nat
    BY <1>1, <1>2 DEF GlobTypeOK, Cuts, NoStar
  <2>3. v <= cut[p]
    BY <1>1, <1>2, <2>1, <2>2 DEF PossibleInv
  <2> QED  BY <1>2, <2>1, <2>3
<1>7. VerdictIsRight'
  BY DEF VerdictIsRight, MeetStar
<1> QED  BY <1>3, <1>5, <1>6, <1>7 DEF GlobIInv

LEMMA BacktrackKeeps == ASSUME GlobIInv, Backtrack PROVE GlobIInv'
<1>1. GlobTypeOK /\ FoundInv /\ PossibleInv
  BY DEF GlobIInv, Backtrack
<1>2. /\ Len(pattern) \in Nat
      /\ Len(value) \in Nat
      /\ v \in 1..Len(value)
      /\ star \in 1..Len(pattern)
      /\ pattern[star] = Star
      /\ checkpoint \in 1..Len(value)
  BY <1>1, Lengths DEF Backtrack, ValueLeft, GlobTypeOK, NoStar
<1>3. GlobTypeOK'
  BY <1>1, <1>2 DEF GlobTypeOK, Backtrack, NoStar
<1>4. HasCut(star, checkpoint + 1)
  <2>1. PICK cut \in Cuts(pattern, value) : IsCut(pattern, value, cut, star, checkpoint)
    BY <1>1, <1>2 DEF FoundInv, HasCut, NoStar
  <2> DEFINE later == [cut EXCEPT ![star + 1] = checkpoint + 1]
  <2>2. later \in Cuts(pattern, value)
    BY <1>2 DEF Cuts
  <2>3. (\A i \in 1..star : later[i] = cut[i]) /\ later[star + 1] = checkpoint + 1
    BY <1>2 DEF Cuts
  <2>4. \A i \in 1..star : StandsFor(pattern, value, later, i)
    <3> SUFFICES ASSUME NEW i \in 1..star PROVE StandsFor(pattern, value, later, i)
      OBVIOUS
    <3>1. StandsFor(pattern, value, cut, i)
      BY <2>1 DEF IsCut
    <3>2. CASE i = star
      <4>1. cut[star] <= checkpoint /\ cut[star] \in Nat
        BY <3>1, <3>2, <1>2, <2>1 DEF StandsFor, IsCut, Cuts
      <4> QED  BY <3>2, <4>1, <1>2, <2>3 DEF StandsFor
    <3>3. CASE i # star
      <4>1. i + 1 \in 1..star
        BY <3>3, <1>2
      <4> QED  BY <3>1, <4>1, <2>3 DEF StandsFor
    <3> QED  BY <3>2, <3>3
  <2>5. later[1] = 1
    BY <1>2, <2>1, <2>3 DEF IsCut
  <2> HIDE DEF later
  <2>6. IsCut(pattern, value, later, star, checkpoint + 1)
    BY <2>3, <2>4, <2>5 DEF IsCut
  <2> QED  BY <1>2, <2>2, <2>6 DEF HasCut
<1>5. FoundInv'
  <2>1. (star + 1) - 1 = star
    BY <1>2
  <2> QED  BY <1>4, <2>1 DEF FoundInv, HasCut, Backtrack
<1>6. PossibleInv'
  <2> SUFFICES ASSUME NEW cut \in Cuts(pattern, value), FullCut(cut)
               PROVE  /\ cut[star + 1] >= checkpoint + 1
                      /\ cut[star + 1] - (checkpoint + 1) = cut[star + 1] - (checkpoint + 1)
    BY <1>2 DEF PossibleInv, FullCut, Backtrack, NoStar
  <2>1. cut[star + 1] \in Nat /\ cut[p] \in Nat
    BY <1>1, <1>2 DEF GlobTypeOK, Cuts
  <2>2. cut[star + 1] >= checkpoint /\ cut[p] - v = cut[star + 1] - checkpoint
    BY <1>1, <1>2 DEF PossibleInv, NoStar
  <2>3. cut[p] # v
    BY <1>1, MismatchIsInNoCut DEF Backtrack
  <2> QED  BY <1>2, <2>1, <2>2, <2>3
<1>7. VerdictIsRight'
  BY DEF VerdictIsRight, Backtrack
<1> QED  BY <1>3, <1>5, <1>6, <1>7 DEF GlobIInv

LEMMA GiveUpKeeps == ASSUME GlobIInv, GiveUp PROVE GlobIInv'
<1>1. GlobTypeOK /\ FoundInv /\ PossibleInv
  BY DEF GlobIInv, GiveUp
<1>2. GlobTypeOK'
  BY <1>1 DEF GlobTypeOK, GiveUp
<1>3. FoundInv'
  BY <1>1 DEF FoundInv, HasCut, GiveUp
<1>4. ~Matches(pattern, value)
  BY <1>1, MismatchIsInNoCut DEF GiveUp, PossibleInv, Matches, FullCut
<1>5. VerdictIsRight'
  BY <1>4 DEF VerdictIsRight, GiveUp
<1> QED  BY <1>2, <1>3, <1>5 DEF GlobIInv, GiveUp

LEMMA SkipStarKeeps == ASSUME GlobIInv, SkipStar PROVE GlobIInv'
<1>1. GlobTypeOK /\ FoundInv /\ PossibleInv
  BY DEF GlobIInv, SkipStar
<1>2. /\ Len(pattern) \in Nat
      /\ Len(value) \in Nat
      /\ p \in 1..Len(pattern)
      /\ v = Len(value) + 1
  BY <1>1, Lengths DEF SkipStar, PatternLeft, ValueLeft, GlobTypeOK
<1>3. GlobTypeOK'
  BY <1>1, <1>2 DEF GlobTypeOK, SkipStar
<1>4. HasCut(p, v)
  BY <1>1, <1>2, CutGoesOn DEF FoundInv, SkipStar
<1>5. FoundInv'
  <2>1. (p + 1) - 1 = p
    BY <1>2
  <2> QED  BY <1>1, <1>4, <2>1 DEF FoundInv, HasCut, SkipStar
<1>6. PossibleInv'
  <2> SUFFICES ASSUME NEW cut \in Cuts(pattern, value), FullCut(cut)
               PROVE IF star = NoStar
                     THEN cut[p + 1] = v
                     ELSE /\ cut[star + 1] >= checkpoint
                          /\ cut[p + 1] - v = cut[star + 1] - checkpoint
    BY DEF PossibleInv, FullCut, SkipStar
  <2>1. /\ cut[p] <= cut[p + 1]
        /\ cut[p] \in 1..(Len(value) + 1)
        /\ cut[p + 1] \in 1..(Len(value) + 1)
    BY <1>1, <1>2, PlaceOfCut DEF SkipStar
  <2>2. star # NoStar => cut[star + 1] \in Nat /\ checkpoint \in Nat
    BY <1>1, <1>2 DEF GlobTypeOK, Cuts, NoStar
  <2>3. v <= cut[p]
    BY <1>1, <1>2, <2>1, <2>2 DEF PossibleInv
  <2>4. cut[p + 1] = cut[p]
    BY <1>2, <2>1, <2>3
  <2> QED  BY <1>1, <2>4 DEF PossibleInv
<1>7. VerdictIsRight'
  BY DEF VerdictIsRight, SkipStar
<1> QED  BY <1>3, <1>5, <1>6, <1>7 DEF GlobIInv

LEMMA AnswerKeeps == ASSUME GlobIInv, Answer PROVE GlobIInv'
<1>1. GlobTypeOK /\ FoundInv /\ PossibleInv
  BY DEF GlobIInv, Answer
<1>2. Len(pattern) \in Nat /\ Len(value) \in Nat /\ v = Len(value) + 1
  BY <1>1, Lengths DEF Answer, ValueLeft, GlobTypeOK
<1>3. GlobTypeOK'
  BY <1>1 DEF GlobTypeOK, Answer
<1>4. FoundInv'
  BY <1>1 DEF FoundInv, HasCut, Answer
<1>5. CASE PatternLeft
  <2>1. p \in 1..Len(pattern) /\ pattern[p] # Star
    BY <1>1, <1>2, <1>5 DEF PatternLeft, GlobTypeOK, Answer
  <2>2. ~Matches(pattern, value)
    <3> SUFFICES ASSUME NEW cut \in Cuts(pattern, value), FullCut(cut) PROVE FALSE
      BY DEF Matches, FullCut
    <3>1. /\ cut[p + 1] = cut[p] + 1
          /\ cut[p] \in 1..(Len(value) + 1)
          /\ cut[p + 1] \in 1..(Len(value) + 1)
      BY <1>1, <2>1, PlaceOfCut
    <3>2. star # NoStar => cut[star + 1] \in Nat /\ checkpoint \in Nat
      BY <1>1, <1>2 DEF GlobTypeOK, Cuts, NoStar
    <3>3. v <= cut[p]
      BY <1>1, <1>2, <3>1, <3>2 DEF PossibleInv
    <3> QED  BY <1>2, <3>1, <3>3
  <2> QED  BY <1>3, <1>4, <1>5, <2>2 DEF GlobIInv, VerdictIsRight, Answer
<1>6. CASE ~PatternLeft
  <2>1. p - 1 = Len(pattern)
    BY <1>1, <1>2, <1>6 DEF PatternLeft, GlobTypeOK
  <2>2. Matches(pattern, value)
    BY <1>1, <1>2, <2>1 DEF FoundInv, HasCut, Matches
  <2> QED  BY <1>3, <1>4, <1>6, <2>2 DEF GlobIInv, VerdictIsRight, Answer
<1> QED  BY <1>5, <1>6

-----------------------------------------------------------------------------

\* What the matcher has tried and what it has given up on are as GlobIInv says,
\* after any number of rounds.
THEOREM MatcherInvariance == GlobSpec => []GlobIInv
<1>1. GlobIInv /\ [GlobNext]_globVars => GlobIInv'
  <2> SUFFICES ASSUME GlobIInv, [GlobNext]_globVars PROVE GlobIInv'
    OBVIOUS
  <2>1. CASE UNCHANGED globVars
    BY <2>1 DEF globVars, GlobIInv, GlobTypeOK, FoundInv, HasCut, PossibleInv, FullCut,
                VerdictIsRight
  <2> QED  BY <2>1, AdvanceKeeps, MeetStarKeeps, BacktrackKeeps, GiveUpKeeps,
              SkipStarKeeps, AnswerKeeps DEF GlobNext
<1> QED  BY <1>1, MatcherInitEstablishes, PTL DEF GlobSpec

\* The matcher answers yes exactly for the values that match: the last `*` is
\* enough to come back to, for patterns and values of every length.
THEOREM MatcherIsRight == GlobSpec => []VerdictIsRight
<1>1. GlobIInv => VerdictIsRight
  BY DEF GlobIInv
<1> QED  BY <1>1, MatcherInvariance, PTL

-----------------------------------------------------------------------------
(* Glob: every round leaves fewer *)

\* What the rounds of the matcher may still be: the checkpoint only goes up, and between
\* two checkpoints the place in the pattern does.
Undecided == IF verdict = "open" THEN 1 ELSE 0

RoundsLeft ==
    (Len(value) + 1 - checkpoint) * (Len(pattern) + 2) + (Len(pattern) + 1 - p) + Undecided

\* A product of naturals does not grow when a factor goes down, and loses the other
\* factor when it goes down by one.
LEMMA Products ==
    ASSUME NEW a \in Nat, NEW b \in Nat, NEW n \in Nat
    PROVE  /\ a * n \in Nat
           /\ a <= b => a * n <= b * n
           /\ (a + 1) * n = a * n + n
<1>1. a * n \in Nat /\ (a + 1) * n = a * n + n
  OBVIOUS
<1>2. ASSUME a <= b PROVE a * n <= b * n
  <2>1. b - a \in Nat /\ b = a + (b - a)
    BY <1>2
  <2>2. (b - a) * n \in Nat
    BY <2>1
  <2>3. b * n = a * n + (b - a) * n
    BY <2>1
  <2> QED  BY <1>1, <2>2, <2>3
<1> QED  BY <1>1, <1>2

\* A number with two digits goes down when the first one does, or the second alone.
LEMMA TwoDigits ==
    ASSUME NEW high \in Nat, NEW width \in Nat, NEW low \in Nat,
           NEW high2 \in Nat, NEW low2 \in Nat,
           \/ high2 <= high /\ low2 < low
           \/ high = high2 + 1 /\ low2 < low + width
    PROVE  high2 * width + low2 < high * width + low
<1>1. high * width \in Nat /\ high2 * width \in Nat
  BY Products
<1>2. CASE high2 <= high /\ low2 < low
  <2>1. high2 * width <= high * width
    BY <1>2, Products
  <2> QED  BY <1>1, <1>2, <2>1
<1>3. CASE high = high2 + 1 /\ low2 < low + width
  <2>1. high * width = high2 * width + width
    BY <1>3, Products
  <2> QED  BY <1>1, <1>3, <2>1
<1> QED  BY <1>2, <1>3

RoundLess == RoundsLeft \in Nat /\ RoundsLeft' < RoundsLeft

\* A round leaves fewer.
LEMMA RoundIsLess ==
    ASSUME GlobTypeOK, GlobTypeOK', GlobNext
    PROVE  RoundsLeft \in Nat /\ RoundsLeft' < RoundsLeft
<1> DEFINE rest == Len(value) + 1 - checkpoint
           width == Len(pattern) + 2
           places == Len(pattern) + 1 - p
<1>1. UNCHANGED <<pattern, value>>
  BY DEF GlobNext, Advance, MeetStar, Backtrack, GiveUp, SkipStar, Answer
<1>2. /\ Len(pattern) \in Nat /\ Len(value) \in Nat
      /\ Len(value)' = Len(value) /\ Len(pattern)' = Len(pattern)
  BY <1>1, Lengths
<1>3. Undecided \in {0, 1} /\ Undecided' \in {0, 1}
  BY DEF Undecided
<1>4. /\ p \in 1..(Len(pattern) + 1) /\ p' \in 1..(Len(pattern) + 1)
      /\ checkpoint \in 1..(Len(value) + 1) /\ checkpoint' \in 1..(Len(value) + 1)
      /\ v \in Nat /\ checkpoint <= v
  BY <1>2 DEF GlobTypeOK
<1>5. /\ rest \in Nat /\ width \in Nat /\ places \in Nat /\ places < width
      /\ rest' \in Nat /\ places' \in Nat /\ places' < width /\ width' = width
  BY <1>2, <1>4
<1>6. rest * width \in Nat /\ rest' * width \in Nat
  BY <1>5, Products
<1>7. /\ RoundsLeft = rest * width + (places + Undecided)
      /\ RoundsLeft' = rest' * width + (places' + Undecided')
  BY <1>2, <1>3, <1>5, <1>6 DEF RoundsLeft
<1>8. \/ rest' <= rest /\ places' + Undecided' < places + Undecided
      \/ rest = rest' + 1 /\ places' + Undecided' < places + Undecided + width
  <2>1. CASE Advance \/ MeetStar \/ SkipStar
    <3>1. rest' <= rest /\ places' < places /\ Undecided' = Undecided
      BY <1>2, <1>4, <2>1 DEF Advance, MeetStar, SkipStar, Undecided
    <3> QED  BY <1>3, <1>5, <3>1
  <2>2. CASE Backtrack
    <3>1. rest = rest' + 1 /\ Undecided' = Undecided
      BY <1>2, <1>4, <2>2 DEF Backtrack, Undecided
    <3> QED  BY <1>3, <1>5, <3>1
  <2>3. CASE GiveUp \/ Answer
    <3>1. rest' = rest /\ places' = places /\ Undecided = 1 /\ Undecided' = 0
      BY <2>3 DEF GiveUp, Answer, Undecided
    <3> QED  BY <1>3, <1>5, <3>1
  <2> QED  BY <2>1, <2>2, <2>3 DEF GlobNext
<1>9. places + Undecided \in Nat /\ places' + Undecided' \in Nat
  BY <1>3, <1>5
<1> HIDE DEF rest, width, places
<1>10. rest' * width + (places' + Undecided') < rest * width + (places + Undecided)
  BY <1>5, <1>8, <1>9, TwoDigits
<1>11. rest * width + (places + Undecided) \in Nat
  BY <1>6, <1>9
<1> QED  BY <1>7, <1>10, <1>11

\* The matcher ends, after (Len(value) + 1) * (Len(pattern) + 2) rounds at most: each
\* leaves fewer. Coming back to a `*` takes quadratic time and never more.
THEOREM MatcherIsQuadratic ==
    GlobSpec =>
        /\ RoundsLeft < (Len(value) + 1) * (Len(pattern) + 2)
        /\ [][RoundLess]_globVars
<1>1. GlobInit => RoundsLeft < (Len(value) + 1) * (Len(pattern) + 2)
  <2> SUFFICES ASSUME GlobInit PROVE RoundsLeft < (Len(value) + 1) * (Len(pattern) + 2)
    OBVIOUS
  <2>1. /\ Len(value) \in Nat /\ Len(pattern) + 2 \in Nat
        /\ checkpoint = 1 /\ p = 1 /\ verdict = "open"
    BY GlobAssumption DEF GlobInit
  <2>2. RoundsLeft = Len(value) * (Len(pattern) + 2) + Len(pattern) + 1
    BY <2>1, Products DEF RoundsLeft, Undecided
  <2>3. /\ Len(value) * (Len(pattern) + 2) \in Nat
        /\ (Len(value) + 1) * (Len(pattern) + 2)
              = Len(value) * (Len(pattern) + 2) + (Len(pattern) + 2)
    BY <2>1, Products
  <2> QED  BY <2>1, <2>2, <2>3
<1>2. GlobIInv /\ GlobIInv' /\ [GlobNext]_globVars =>
         [RoundLess]_globVars
  BY RoundIsLess DEF GlobIInv, RoundLess
<1> QED  BY <1>1, <1>2, MatcherInvariance, PTL DEF GlobSpec

-----------------------------------------------------------------------------
(* SshConfig: what is in a tail, and in a concatenation *)

LEMMA HeadAndTail ==
    ASSUME NEW S, NEW s \in Seq(S), s # <<>>
    PROVE  /\ Head(s) \in S
           /\ Tail(s) \in Seq(S)
           /\ \A x : Has(s, x) <=> (x = Head(s) \/ Has(Tail(s), x))
<1>1. Len(s) \in Nat /\ Len(s) >= 1
  OBVIOUS
<1>2. Head(s) \in S /\ Head(s) = s[1]
  BY <1>1
<1>3. Tail(s) \in Seq(S) /\ Len(Tail(s)) = Len(s) - 1
  OBVIOUS
<1>4. \A i \in 1..(Len(s) - 1) : Tail(s)[i] = s[i + 1]
  OBVIOUS
<1>5. ASSUME NEW x, Has(s, x) PROVE x = Head(s) \/ Has(Tail(s), x)
  <2>1. PICK i \in 1..Len(s) : s[i] = x
    BY <1>5 DEF Has
  <2>2. CASE i = 1
    BY <2>1, <2>2, <1>2
  <2>3. CASE i # 1
    <3>1. i - 1 \in 1..(Len(s) - 1) /\ (i - 1) + 1 = i
      BY <2>3, <1>1
    <3>2. Tail(s)[i - 1] = x
      BY <2>1, <3>1, <1>4
    <3> QED  BY <3>1, <3>2, <1>3 DEF Has
  <2> QED  BY <2>2, <2>3
<1>6. ASSUME NEW x, x = Head(s) \/ Has(Tail(s), x) PROVE Has(s, x)
  <2>1. CASE x = Head(s)
    BY <2>1, <1>1, <1>2 DEF Has
  <2>2. CASE Has(Tail(s), x)
    <3>1. PICK i \in 1..(Len(s) - 1) : Tail(s)[i] = x
      BY <2>2, <1>3 DEF Has
    <3>2. i + 1 \in 1..Len(s) /\ s[i + 1] = x
      BY <3>1, <1>1, <1>4
    <3> QED  BY <3>2 DEF Has
  <2> QED  BY <1>6, <2>1, <2>2
<1> QED  BY <1>2, <1>3, <1>5, <1>6

LEMMA Concatenation ==
    ASSUME NEW S, NEW s \in Seq(S), NEW t \in Seq(S)
    PROVE  /\ s \o t \in Seq(S)
           /\ \A x : Has(s \o t, x) <=> (Has(s, x) \/ Has(t, x))
<1>1. Len(s) \in Nat /\ Len(t) \in Nat /\ Len(s \o t) = Len(s) + Len(t)
  OBVIOUS
<1>2. s \o t \in Seq(S)
  OBVIOUS
<1>3. \A i \in 1..Len(s) : (s \o t)[i] = s[i]
  BY <1>1
<1>4. \A i \in 1..Len(t) : (s \o t)[Len(s) + i] = t[i]
  BY <1>1
<1>5. ASSUME NEW x, Has(s \o t, x) PROVE Has(s, x) \/ Has(t, x)
  <2>1. PICK i \in 1..(Len(s) + Len(t)) : (s \o t)[i] = x
    BY <1>5, <1>1 DEF Has
  <2>2. CASE i <= Len(s)
    <3>1. i \in 1..Len(s)
      BY <2>2, <1>1
    <3> QED  BY <2>1, <3>1, <1>3 DEF Has
  <2>3. CASE i > Len(s)
    <3>1. i - Len(s) \in 1..Len(t) /\ Len(s) + (i - Len(s)) = i
      BY <2>3, <1>1
    <3>2. t[i - Len(s)] = x
      BY <2>1, <3>1, <1>4
    <3> QED  BY <3>1, <3>2 DEF Has
  <2> QED  BY <2>2, <2>3, <1>1
<1>6. ASSUME NEW x, Has(s, x) \/ Has(t, x) PROVE Has(s \o t, x)
  <2>1. CASE Has(s, x)
    <3>1. PICK i \in 1..Len(s) : s[i] = x
      BY <2>1 DEF Has
    <3>2. i \in 1..(Len(s) + Len(t)) /\ (s \o t)[i] = x
      BY <3>1, <1>1, <1>3
    <3> QED  BY <3>2, <1>1 DEF Has
  <2>2. CASE Has(t, x)
    <3>1. PICK i \in 1..Len(t) : t[i] = x
      BY <2>2 DEF Has
    <3>2. Len(s) + i \in 1..(Len(s) + Len(t)) /\ (s \o t)[Len(s) + i] = x
      BY <3>1, <1>1, <1>4
    <3> QED  BY <3>2, <1>1 DEF Has
  <2> QED  BY <1>6, <2>1, <2>2
<1> QED  BY <1>2, <1>5, <1>6

LEMMA NothingInEmpty == \A x : ~Has(<<>>, x)
BY DEF Has

-----------------------------------------------------------------------------
(* SshConfig: the files that are included *)

LEMMA RootIsIncluded == FileOf[Root] \in Included
BY SshAssumption DEF Included

LEMMA IncludedIsClosed ==
    ASSUME NEW file \in Included \cap Readable, NEW path \in Paths, InLines(file, path)
    PROVE  FileOf[path] \in Included
<1>1. FileOf[path] \in Files
  BY SshAssumption
<1>2. ASSUME NEW files \in SUBSET Files, FileOf[Root] \in files, Closed(files)
      PROVE FileOf[path] \in files
  <2>1. file \in files
    BY <1>2 DEF Included
  <2> QED  BY <1>2, <2>1 DEF Closed
<1> QED  BY <1>1, <1>2 DEF Included

LEMMA IncludedIsLeast ==
    ASSUME NEW files \in SUBSET Files, FileOf[Root] \in files, Closed(files)
    PROVE  Included \subseteq files
BY DEF Included

\* What is included stays so: it depends on the lines alone.
LEMMA IncludedStays ==
    ASSUME lines' = lines
    PROVE  Included' = Included /\ Declared' = Declared
BY DEF Included, Declared, Closed, InLines

LEMMA LinesOfFile ==
    ASSUME SshTypeOK, NEW file \in Readable
    PROVE  lines[file] \in Seq(Names \cup Paths)
<1>1. lines \in [Readable -> Seq(Names \cup Paths)]
  BY SshAssumption DEF SshTypeOK
<1> QED  BY <1>1

\* When nothing is ahead, what was opened is what is included.
LEMMA AllOpened ==
    ASSUME SshTypeOK, SoundInv, CompleteInv, agenda = <<>>
    PROVE  seen = Included
<1>1. \A x : ~Ahead(x)
  BY NothingInEmpty DEF Ahead
<1>2. FileOf[Root] \in seen /\ Closed(seen)
  BY <1>1 DEF CompleteInv, Closed
<1> QED  BY <1>2, IncludedIsLeast DEF SshTypeOK, SoundInv

-----------------------------------------------------------------------------
(* SshConfig: each step keeps the invariant *)

LEMMA DiscoveryInitEstablishes == SshInit => SshIInv
<1> SUFFICES ASSUME SshInit PROVE SshIInv
  OBVIOUS
<1>1. SshTypeOK
  BY SshAssumption DEF SshInit, SshTypeOK
<1>2. Ahead(Root) /\ \A x : Ahead(x) => x = Root
  BY DEF SshInit, Ahead, Has
<1>3. SoundInv /\ CompleteInv
  BY <1>2, RootIsIncluded, SshAssumption DEF SoundInv, CompleteInv, SshInit
<1> QED  BY <1>1, <1>3 DEF SshIInv, PhaseInv, FindsAll, SshInit

LEMMA ReadHostsKeeps == ASSUME SshIInv, ReadHosts PROVE SshIInv'
<1>1. PICK names \in SUBSET Names : listed' = names /\ hosts' = names
  BY DEF ReadHosts
<1>2. UNCHANGED <<lines, agenda, seen>> /\ seen = {}
  BY DEF ReadHosts, SshIInv, PhaseInv
<1>3. Included' = Included /\ Declared' = Declared
  BY <1>2, IncludedStays
<1>4. SoundInv /\ CompleteInv
  BY DEF SshIInv, ReadHosts
<1>5. SoundInv' /\ CompleteInv'
  BY <1>2, <1>3, <1>4 DEF SoundInv, CompleteInv, Ahead
<1>6. SshTypeOK'
  BY <1>1 DEF SshIInv, SshTypeOK, ReadHosts
<1>7. PhaseInv' /\ FindsAll'
  BY <1>1 DEF PhaseInv, FindsAll, ReadHosts
<1> QED  BY <1>5, <1>6, <1>7 DEF SshIInv

\* What the steps of parsing have in common.
LEMMA WhileParsing ==
    ASSUME SshIInv, Parsing
    PROVE  /\ SshTypeOK /\ SoundInv /\ CompleteInv
           /\ phase = "ssh"
           /\ listed \subseteq hosts /\ hosts \subseteq listed \cup Declared
           /\ Head(agenda) \in Names \cup Paths
           /\ Tail(agenda) \in Seq(Names \cup Paths)
           /\ \A x : Ahead(x) <=> (x = Head(agenda) \/ Has(Tail(agenda), x))
<1>1. agenda \in Seq(Names \cup Paths) /\ agenda # <<>> /\ phase = "ssh"
  BY DEF SshIInv, SshTypeOK, Parsing
<1>2. SshTypeOK /\ SoundInv /\ CompleteInv /\ listed \subseteq hosts
      /\ hosts \subseteq listed \cup Declared
  BY <1>1 DEF SshIInv, PhaseInv
<1>3. /\ Head(agenda) \in Names \cup Paths
      /\ Tail(agenda) \in Seq(Names \cup Paths)
      /\ \A x : Ahead(x) <=> (x = Head(agenda) \/ Has(Tail(agenda), x))
  BY <1>1, HeadAndTail DEF Ahead
<1> QED  BY <1>1, <1>2, <1>3

LEMMA OpenKeeps == ASSUME SshIInv, Open PROVE SshIInv'
<1> DEFINE file == FileOf[Head(agenda)]
           opened == IF file \in Readable THEN lines[file] ELSE <<>>
<1>1. Parsing /\ Head(agenda) \in Paths
  BY DEF Open
<1>2. /\ seen' = seen \cup {file}
      /\ agenda' = opened \o Tail(agenda)
      /\ UNCHANGED <<lines, phase, hosts, listed, workspaces, ignored>>
  BY DEF Open
<1>3. Included' = Included /\ Declared' = Declared
  BY <1>2, IncludedStays
<1>4. file \in Files /\ file \in Included
  BY <1>1, WhileParsing, SshAssumption DEF SoundInv
<1>5. opened \in Seq(Names \cup Paths)
  BY <1>1, WhileParsing, LinesOfFile
<1>6. agenda' \in Seq(Names \cup Paths)
      /\ \A x : Ahead(x)' <=> (Has(opened, x) \/ Has(Tail(agenda), x))
  BY <1>1, <1>2, <1>5, WhileParsing, Concatenation DEF Ahead
<1>7. \A x : Has(opened, x) <=> (file \in Readable /\ InLines(file, x))
  BY NothingInEmpty DEF InLines
<1> HIDE DEF file, opened
<1>8. SshTypeOK'
  BY <1>1, <1>2, <1>4, <1>6, WhileParsing DEF SshTypeOK
<1>9. SoundInv'
  <2>1. seen' \subseteq Included
    BY <1>1, <1>2, <1>4, WhileParsing DEF SoundInv
  <2>2. ASSUME NEW path \in Paths, Ahead(path)' PROVE FileOf[path] \in Included
    <3>1. CASE Has(opened, path)
      BY <3>1, <1>4, <1>7, IncludedIsClosed
    <3>2. CASE Has(Tail(agenda), path)
      BY <3>2, <1>1, WhileParsing DEF SoundInv
    <3> QED  BY <2>2, <3>1, <3>2, <1>6
  <2>3. ASSUME NEW name \in Eligible, Ahead(name)' PROVE name \in Declared
    <3>1. CASE Has(opened, name)
      BY <3>1, <1>4, <1>7 DEF Declared
    <3>2. CASE Has(Tail(agenda), name)
      BY <3>2, <1>1, WhileParsing DEF SoundInv
    <3> QED  BY <2>3, <3>1, <3>2, <1>6
  <2> QED  BY <2>1, <2>2, <2>3, <1>3 DEF SoundInv
<1>10. \A path \in Paths : FileOf[path] \in seen \/ Ahead(path)
                          => FileOf[path] \in seen' \/ Ahead(path)'
  <2> SUFFICES ASSUME NEW path \in Paths, FileOf[path] \in seen \/ Ahead(path)
               PROVE  FileOf[path] \in seen' \/ Ahead(path)'
    OBVIOUS
  <2>1. CASE path = Head(agenda)
    BY <2>1, <1>2 DEF file
  <2>2. CASE path # Head(agenda)
    BY <2>2, <1>1, <1>2, <1>6, WhileParsing
  <2> QED  BY <2>1, <2>2
<1>11. \A name \in Eligible : name \in hosts \/ Ahead(name) => name \in hosts' \/ Ahead(name)'
  <2>1. \A name \in Eligible : name # Head(agenda)
    BY <1>1, SshAssumption
  <2> QED  BY <2>1, <1>1, <1>2, <1>6, WhileParsing
<1>12. CompleteInv'
  <2>1. FileOf[Root] \in seen' \/ Ahead(Root)'
    BY <1>1, <1>10, WhileParsing, SshAssumption DEF CompleteInv
  <2>2. ASSUME NEW k \in seen' \cap Readable
        PROVE /\ \A path \in Paths : InLines(k, path) => FileOf[path] \in seen' \/ Ahead(path)'
              /\ \A name \in Eligible : InLines(k, name) => name \in hosts' \/ Ahead(name)'
    <3>1. CASE k \in seen
      BY <3>1, <1>1, <1>10, <1>11, WhileParsing DEF CompleteInv
    <3>2. CASE k = file
      BY <3>2, <1>6, <1>7
    <3> QED  BY <3>1, <3>2, <1>2
  <2>3. \A k, x : InLines(k, x)' <=> InLines(k, x)
    BY <1>2 DEF InLines
  <2> QED  BY <2>1, <2>2, <2>3 DEF CompleteInv
<1>13. PhaseInv' /\ FindsAll'
  BY <1>1, <1>2, <1>3, WhileParsing DEF PhaseInv, FindsAll
<1> QED  BY <1>8, <1>9, <1>12, <1>13 DEF SshIInv

\* A line that needs no file to be opened: it leaves the agenda, and what it names is
\* seen, or added, or not eligible.
LEMMA FollowKeeps ==
    ASSUME SshIInv, Parsing, agenda' = Tail(agenda),
           UNCHANGED <<lines, phase, seen, listed, workspaces, ignored>>,
           hosts \subseteq hosts', hosts' \subseteq Names,
           hosts' \subseteq listed \cup Declared,
           Head(agenda) \in Paths => FileOf[Head(agenda)] \in seen,
           Head(agenda) \in Eligible => Head(agenda) \in hosts'
    PROVE  SshIInv'
<1>1. Included' = Included /\ Declared' = Declared
  BY IncludedStays
<1>2. \A x : Ahead(x) <=> (x = Head(agenda) \/ Ahead(x)')
  BY WhileParsing DEF Ahead
<1>3. \A k, x : InLines(k, x)' <=> InLines(k, x)
  BY DEF InLines
<1>4. SshTypeOK'
  BY WhileParsing DEF SshTypeOK
<1>5. SoundInv'
  BY <1>1, <1>2, WhileParsing DEF SoundInv
<1>6. CompleteInv'
  <2>1. \A path \in Paths : FileOf[path] \in seen \/ Ahead(path)
                           => FileOf[path] \in seen \/ Ahead(path)'
    BY <1>2
  <2>2. \A name \in Eligible : name \in hosts \/ Ahead(name) => name \in hosts' \/ Ahead(name)'
    BY <1>2
  <2>3. Root \in Paths
    BY SshAssumption
  <2>4. CompleteInv
    BY WhileParsing
  <2> QED  BY <1>3, <2>1, <2>2, <2>3, <2>4 DEF CompleteInv
<1>7. PhaseInv' /\ FindsAll'
  BY <1>1, WhileParsing DEF PhaseInv, FindsAll
<1> QED  BY <1>4, <1>5, <1>6, <1>7 DEF SshIInv

LEMMA PassSeenKeeps == ASSUME SshIInv, PassSeen PROVE SshIInv'
<1>1. Parsing /\ Head(agenda) \notin Eligible
  BY SshAssumption DEF PassSeen
<1>2. hosts \subseteq Names /\ hosts \subseteq listed \cup Declared
  BY <1>1, WhileParsing DEF SshTypeOK
<1> QED  BY <1>1, <1>2, FollowKeeps DEF PassSeen

LEMMA DeclareKeeps == ASSUME SshIInv, Declare PROVE SshIInv'
<1>1. Parsing /\ Head(agenda) \notin Paths /\ Head(agenda) \in Names
  BY SshAssumption DEF Declare
<1>2. hosts \subseteq Names /\ hosts \subseteq listed \cup Declared
  BY <1>1, WhileParsing DEF SshTypeOK
<1>3. Head(agenda) \in Eligible => Head(agenda) \in Declared
  BY <1>1, WhileParsing DEF SoundInv
<1>4. hosts' = hosts \cup ({Head(agenda)} \cap Eligible)
  BY DEF Declare
<1>5. hosts' \subseteq Names /\ hosts' \subseteq listed \cup Declared
  BY <1>1, <1>2, <1>3, <1>4
<1> QED  BY <1>1, <1>4, <1>5, FollowKeeps DEF Declare

LEMMA EndOfSshKeeps == ASSUME SshIInv, EndOfSsh PROVE SshIInv'
<1>1. phase = "ssh" /\ agenda = <<>> /\ phase' = "coder"
      /\ UNCHANGED <<lines, agenda, seen, hosts, listed, workspaces, ignored>>
  BY DEF EndOfSsh
<1>2. SshTypeOK /\ SoundInv /\ CompleteInv
  BY <1>1 DEF SshIInv
<1>3. listed \subseteq hosts /\ hosts \subseteq listed \cup Declared
  BY <1>1 DEF SshIInv, PhaseInv
<1>4. Declared \subseteq hosts
  <2>1. \A x : ~Ahead(x)
    BY <1>1, NothingInEmpty DEF Ahead
  <2>2. seen = Included
    BY <1>1, <1>2, AllOpened
  <2> QED  BY <1>2, <2>1, <2>2 DEF Declared, CompleteInv
<1>5. Declared' = Declared
  BY <1>1, IncludedStays
<1>6. SshTypeOK'
  BY <1>1, <1>2 DEF SshTypeOK
<1> QED  BY <1>1, <1>3, <1>4, <1>5, <1>6 DEF SshIInv, PhaseInv, FindsAll

LEMMA AskCoderKeeps == ASSUME SshIInv, AskCoder PROVE SshIInv'
<1>1. PICK names \in SUBSET Names : workspaces' = names /\ hosts' = hosts \cup names
  BY DEF AskCoder
<1>2. /\ phase = "coder" /\ phase' = "ignore"
      /\ UNCHANGED <<lines, agenda, seen, listed, ignored>>
  BY DEF AskCoder
<1>3. Declared' = Declared
  BY <1>2, IncludedStays
<1>4. SshTypeOK'
  BY <1>1, <1>2 DEF SshIInv, SshTypeOK
<1>5. hosts = listed \cup Declared /\ agenda = <<>>
  BY <1>2 DEF SshIInv, PhaseInv
<1> QED  BY <1>1, <1>2, <1>3, <1>4, <1>5 DEF SshIInv, PhaseInv, FindsAll

LEMMA IgnoreKeeps == ASSUME SshIInv, Ignore PROVE SshIInv'
<1>1. PICK names \in SUBSET Names : ignored' = names /\ hosts' = hosts \ names
  BY DEF Ignore
<1>2. /\ phase = "ignore" /\ phase' = "found"
      /\ UNCHANGED <<lines, agenda, seen, listed, workspaces>>
  BY DEF Ignore
<1>3. Declared' = Declared
  BY <1>2, IncludedStays
<1>4. SshTypeOK'
  BY <1>1, <1>2 DEF SshIInv, SshTypeOK
<1>5. hosts = listed \cup Declared \cup workspaces /\ agenda = <<>>
  BY <1>2 DEF SshIInv, PhaseInv
<1> QED  BY <1>1, <1>2, <1>3, <1>4, <1>5 DEF SshIInv, PhaseInv, FindsAll

-----------------------------------------------------------------------------

\* The invariant of discovery holds after any number of lines.
THEOREM DiscoveryInvariance == SshSpec => []SshIInv
<1>1. SshIInv /\ [SshNext]_sshVars => SshIInv'
  <2> SUFFICES ASSUME SshIInv, [SshNext]_sshVars PROVE SshIInv'
    OBVIOUS
  <2>1. CASE UNCHANGED sshVars
    <3>1. Included' = Included /\ Declared' = Declared
      BY <2>1, IncludedStays DEF sshVars
    <3>2. SshTypeOK' /\ PhaseInv' /\ FindsAll'
      BY <2>1, <3>1 DEF sshVars, SshIInv, SshTypeOK, PhaseInv, FindsAll
    <3>3. (SoundInv <=> SoundInv') /\ (CompleteInv <=> CompleteInv')
      BY <2>1, <3>1 DEF sshVars, SoundInv, CompleteInv, Ahead, InLines
    <3> QED  BY <2>1, <3>2, <3>3 DEF sshVars, SshIInv
  <2> QED  BY <2>1, ReadHostsKeeps, OpenKeeps, PassSeenKeeps, DeclareKeeps, EndOfSshKeeps,
              AskCoderKeeps, IgnoreKeeps DEF SshNext
<1> QED  BY <1>1, DiscoveryInitEstablishes, PTL DEF SshSpec

\* Discovery finds exactly the hosts that the hosts file, the files included from the
\* root and Coder name, without the ignored ones.
THEOREM DiscoveryIsExact == SshSpec => []FindsAll
<1>1. SshIInv => FindsAll
  BY DEF SshIInv
<1> QED  BY <1>1, DiscoveryInvariance, PTL

-----------------------------------------------------------------------------
(* SshConfig: every step leaves less *)

\* What is left of discovery: phases, files that were not opened, and lines ahead.
PhasesLeft == [list |-> 4, ssh |-> 3, coder |-> 2, ignore |-> 1, found |-> 0][phase]

Unopened == Cardinality(Files \ seen)

\* The order of a dictionary, in which nothing goes down for ever.
Before(a, b) ==
    \/ a[1] < b[1]
    \/ a[1] = b[1] /\ a[2] < b[2]
    \/ a[1] = b[1] /\ a[2] = b[2] /\ a[3] < b[3]

Left == <<PhasesLeft, Unopened, Len(agenda)>>
LeftLess == Left \in Nat \X Nat \X Nat /\ Before(Left', Left)

\* A step takes a phase, a file or a line away; opening a file may bring many lines.
LEMMA LeftIsLess ==
    ASSUME IsFiniteSet(Files), SshTypeOK, SshTypeOK', SshNext
    PROVE  Left \in Nat \X Nat \X Nat /\ Before(Left', Left)
<1>1. /\ PhasesLeft \in 0..4 /\ PhasesLeft' \in 0..4
  BY DEF SshTypeOK, PhasesLeft
<1>2. Unopened \in Nat /\ Unopened' \in Nat
  <2>1. IsFiniteSet(Files \ seen) /\ IsFiniteSet(Files \ seen')
    BY FS_Difference
  <2> QED  BY <2>1, FS_CardinalityType DEF Unopened
<1>3. Len(agenda) \in Nat
  BY DEF SshTypeOK
<1>4. CASE ReadHosts \/ EndOfSsh \/ AskCoder \/ Ignore
  <2>1. PhasesLeft' < PhasesLeft
    BY <1>4 DEF ReadHosts, EndOfSsh, AskCoder, Ignore, PhasesLeft
  <2> QED  BY <1>1, <1>2, <1>3, <2>1 DEF Left, Before
<1>5. CASE Open
  <2>1. phase' = phase /\ Head(agenda) \in Paths
    BY <1>5 DEF Open
  <2> DEFINE file == FileOf[Head(agenda)]
  <2>2. file \in Files \ seen /\ seen' = seen \cup {file}
    BY <1>5, SshAssumption DEF Open
  <2>3. Files \ seen' = (Files \ seen) \ {file}
    BY <2>2
  <2>4. Unopened' = Unopened - 1
    <3>1. IsFiniteSet(Files \ seen)
      BY FS_Difference
    <3> QED  BY <2>2, <2>3, <3>1, FS_RemoveElement DEF Unopened
  <2>5. PhasesLeft' = PhasesLeft
    BY <2>1 DEF PhasesLeft
  <2> QED  BY <1>1, <1>2, <1>3, <2>4, <2>5 DEF Left, Before
<1>6. CASE PassSeen \/ Declare
  <2>1. phase' = phase /\ seen' = seen /\ agenda # <<>> /\ agenda' = Tail(agenda)
    BY <1>6 DEF PassSeen, Declare, Parsing
  <2>2. Len(agenda') < Len(agenda)
    BY <2>1 DEF SshTypeOK
  <2>3. PhasesLeft' = PhasesLeft /\ Unopened' = Unopened
    BY <2>1 DEF PhasesLeft, Unopened
  <2> QED  BY <1>1, <1>2, <1>3, <2>2, <2>3 DEF Left, Before
<1> QED  BY <1>4, <1>5, <1>6 DEF SshNext

\* Discovery ends, for any files that include one another in any way, as long as there
\* are finitely many: every step goes down in an order where nothing does for ever.
THEOREM DiscoveryGoesDown ==
    ASSUME IsFiniteSet(Files)
    PROVE  SshSpec => [][LeftLess]_sshVars
<1>1. SshIInv /\ SshIInv' /\ [SshNext]_sshVars =>
         [LeftLess]_sshVars
  BY LeftIsLess DEF SshIInv, LeftLess
<1> QED  BY <1>1, DiscoveryInvariance, PTL DEF SshSpec
=============================================================================
