----------------------------- MODULE MCPolling -----------------------------
(***************************************************************************)
(* Three parts of a poll that share no state, in one instance: a behaviour *)
(* is one of fetching, of the matcher or of discovery, the two others      *)
(* being where they are before they begin or after they have ended.        *)
(***************************************************************************)
EXTENDS Fetch, Glob, SshConfig

CONSTANTS h1, l1, dev1, web1, config, extra, alias, gone, f1, f2, none

VARIABLE job

SeqsUpTo(S, n) == UNION {[1..k -> S] : k \in 0..n}

MCPatterns == SeqsUpTo({"a", "b", "?", "*"}, 4)
MCValues == SeqsUpTo({"a", "b"}, 4)

\* Two files, one of them with two paths, and a path of none.
MCFileOf ==
    [path \in Paths |-> CASE path = config -> f1
                          [] path \in {extra, alias} -> f2
                          [] path = gone -> none]
MCContents == [Readable -> SeqsUpTo(Names \cup Paths, 2)]

FetchIsIdle == Init

MatcherHasEnded ==
    /\ pattern = <<>> /\ value = <<>>
    /\ p = 1 /\ v = 1 /\ star = NoStar /\ checkpoint = 1
    /\ verdict = "yes"

DiscoveryHasEnded ==
    /\ lines = [file \in Readable |-> <<>>]
    /\ phase = "found"
    /\ agenda = <<>> /\ seen = {FileOf[Root]}
    /\ hosts = {} /\ listed = {} /\ workspaces = {} /\ ignored = {}

MCInit ==
    \/ job = "fetch" /\ Init /\ MatcherHasEnded /\ DiscoveryHasEnded
    \/ job = "match" /\ GlobInit /\ FetchIsIdle /\ DiscoveryHasEnded
    \/ job = "discover" /\ SshInit /\ FetchIsIdle /\ MatcherHasEnded

MCNext ==
    /\ UNCHANGED job
    /\ \/ job = "fetch" /\ Next /\ UNCHANGED <<globVars, sshVars>>
       \/ job = "match" /\ GlobNext /\ UNCHANGED <<vars, sshVars>>
       \/ job = "discover" /\ SshNext /\ UNCHANGED <<vars, globVars>>

MCSpec ==
    /\ MCInit /\ [][MCNext]_<<job, vars, globVars, sshVars>>
    /\ Fairness
    /\ WF_globVars(job = "match" /\ GlobNext)
    /\ WF_sshVars(job = "discover" /\ SshNext)
=============================================================================
