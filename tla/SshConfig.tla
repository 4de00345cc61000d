----------------------------- MODULE SshConfig -----------------------------
(***************************************************************************)
(* Which hosts a poll asks (discover_hosts of src/src/discovery.rs): those *)
(* of the hosts file, those that the SSH configuration and the files it    *)
(* includes declare, and the running Coder workspaces, without those that  *)
(* the ignore list names.                                                  *)
(*                                                                         *)
(* Files include one another, also in a circle or by several paths. What   *)
(* the recursion of parse_ssh_file has still to do is the agenda: the      *)
(* lines of the file it is in, then the rest of the file that included it. *)
(* A line is a host it declares or the path of a file it includes; a line  *)
(* with several, or a pattern of paths, is as many lines. The files do not *)
(* change meanwhile.                                                       *)
(***************************************************************************)
EXTENDS Integers, Sequences

CONSTANTS
    Names,      \* names of hosts, as `Host` lines, lists and Coder give them
    Eligible,   \* those that a `Host` line may add: `dev...`, and no pattern
    Paths,      \* paths of configuration files
    Root,       \* the path that parsing begins with
    Files,      \* what a path names once it is canonical
    FileOf,     \* the file that each path names
    Readable,   \* the files that can be read
    Contents    \* the lines that the readable files may have

ASSUME SshAssumption ==
    /\ Eligible \subseteq Names
    /\ Names \cap Paths = {}
    /\ Root \in Paths
    /\ FileOf \in [Paths -> Files]
    /\ Readable \subseteq Files
    /\ Contents \subseteq [Readable -> Seq(Names \cup Paths)]

VARIABLES
    lines,      \* the lines of each readable file
    phase,      \* "list", "ssh", "coder", "ignore" or "found"
    agenda,     \* what is still to be parsed
    seen,       \* the files that were opened
    hosts,      \* the hosts so far
    listed,     \* what the hosts file named
    workspaces, \* what Coder named
    ignored     \* what the ignore list named

sshVars == <<lines, phase, agenda, seen, hosts, listed, workspaces, ignored>>

SshInit ==
    /\ lines \in Contents
    /\ phase = "list"
    /\ agenda = <<Root>>
    /\ seen = {}
    /\ hosts = {}
    /\ listed = {}
    /\ workspaces = {}
    /\ ignored = {}

-----------------------------------------------------------------------------

\* A hosts file that cannot be read is empty.
ReadHosts ==
    /\ phase = "list"
    /\ \E names \in SUBSET Names : listed' = names /\ hosts' = names
    /\ phase' = "ssh"
    /\ UNCHANGED <<lines, agenda, seen, workspaces, ignored>>

Parsing == phase = "ssh" /\ agenda # <<>>

\* (A mistake: nothing stops a file from being opened again.)
OpenAgain ==
    /\ Parsing
    /\ Head(agenda) \in Paths
    /\ LET file == FileOf[Head(agenda)] IN
          /\ seen' = seen \cup {file}
          /\ agenda' = (IF file \in Readable THEN lines[file] ELSE <<>>) \o Tail(agenda)
    /\ UNCHANGED <<lines, phase, hosts, listed, workspaces, ignored>>

\* (A mistake: the rest of the file that included it is forgotten.)
OpenInstead ==
    /\ Parsing
    /\ Head(agenda) \in Paths
    /\ LET file == FileOf[Head(agenda)] IN
          /\ file \notin seen
          /\ seen' = seen \cup {file}
          /\ agenda' = IF file \in Readable THEN lines[file] ELSE Tail(agenda)
    /\ UNCHANGED <<lines, phase, hosts, listed, workspaces, ignored>>

\* A file is opened for the first time. One that cannot be read has no lines.
Open ==
    /\ Parsing
    /\ Head(agenda) \in Paths
    /\ LET file == FileOf[Head(agenda)] IN
          /\ file \notin seen
          /\ seen' = seen \cup {file}
          /\ agenda' = (IF file \in Readable THEN lines[file] ELSE <<>>) \o Tail(agenda)
    /\ UNCHANGED <<lines, phase, hosts, listed, workspaces, ignored>>

PassSeen ==
    /\ Parsing
    /\ Head(agenda) \in Paths
    /\ FileOf[Head(agenda)] \in seen
    /\ agenda' = Tail(agenda)
    /\ UNCHANGED <<lines, phase, seen, hosts, listed, workspaces, ignored>>

Declare ==
    /\ Parsing
    /\ Head(agenda) \in Names
    /\ hosts' = hosts \cup ({Head(agenda)} \cap Eligible)
    /\ agenda' = Tail(agenda)
    /\ UNCHANGED <<lines, phase, seen, listed, workspaces, ignored>>

EndOfSsh ==
    /\ phase = "ssh"
    /\ agenda = <<>>
    /\ phase' = "coder"
    /\ UNCHANGED <<lines, agenda, seen, hosts, listed, workspaces, ignored>>

\* Coder is not asked, or fails, or names the workspaces that run.
AskCoder ==
    /\ phase = "coder"
    /\ \E names \in SUBSET Names : workspaces' = names /\ hosts' = hosts \cup names
    /\ phase' = "ignore"
    /\ UNCHANGED <<lines, agenda, seen, listed, ignored>>

Ignore ==
    /\ phase = "ignore"
    /\ \E names \in SUBSET Names : ignored' = names /\ hosts' = hosts \ names
    /\ phase' = "found"
    /\ UNCHANGED <<lines, agenda, seen, listed, workspaces>>

SshNext ==
    \/ ReadHosts
    \/ Open
    \/ PassSeen
    \/ Declare
    \/ EndOfSsh
    \/ AskCoder
    \/ Ignore

SshSpec == SshInit /\ [][SshNext]_sshVars

SshFairSpec == SshSpec /\ WF_sshVars(SshNext)

-----------------------------------------------------------------------------
(* What is to be found *)

Has(seq, x) == \E i \in 1..Len(seq) : seq[i] = x
InLines(file, x) == Has(lines[file], x)

Closed(files) ==
    \A file \in files \cap Readable, path \in Paths :
        InLines(file, path) => FileOf[path] \in files

\* The files that the root includes, those that these include, and so on.
Included ==
    {file \in Files : \A files \in SUBSET Files :
        FileOf[Root] \in files /\ Closed(files) => file \in files}

Declared ==
    {name \in Eligible : \E file \in Included \cap Readable : InLines(file, name)}

\* What is found are the listed hosts, those that any included file declares and the
\* workspaces, and nothing that is ignored: whatever the order of the lines, by
\* however many paths a file is included, and although none is opened twice.
FindsAll ==
    phase = "found" => hosts = (listed \cup Declared \cup workspaces) \ ignored

\* Discovery ends, also when files include one another in a circle.
DiscoveryEnds == <>(phase = "found")

-----------------------------------------------------------------------------
(* An inductive invariant *)

Ahead(x) == Has(agenda, x)

SshTypeOK ==
    /\ lines \in Contents
    /\ phase \in {"list", "ssh", "coder", "ignore", "found"}
    /\ agenda \in Seq(Names \cup Paths)
    /\ seen \subseteq Files
    /\ hosts \subseteq Names
    /\ listed \subseteq Names
    /\ workspaces \subseteq Names
    /\ ignored \subseteq Names

\* Only what is included is opened, and only what it declares is added.
SoundInv ==
    /\ seen \subseteq Included
    /\ \A path \in Paths : Ahead(path) => FileOf[path] \in Included
    /\ \A name \in Eligible : Ahead(name) => name \in Declared

\* A line of an opened file has been followed, or is ahead.
CompleteInv ==
    /\ FileOf[Root] \in seen \/ Ahead(Root)
    /\ \A file \in seen \cap Readable :
          /\ \A path \in Paths : InLines(file, path) => FileOf[path] \in seen \/ Ahead(path)
          /\ \A name \in Eligible : InLines(file, name) => name \in hosts \/ Ahead(name)

PhaseInv ==
    /\ phase = "list" => seen = {} /\ hosts = {}
    /\ phase \in {"list", "ssh"} => listed \subseteq hosts /\ hosts \subseteq listed \cup Declared
    /\ phase \notin {"list", "ssh"} => agenda = <<>>
    /\ phase = "coder" => hosts = listed \cup Declared
    /\ phase = "ignore" => hosts = listed \cup Declared \cup workspaces

SshIInv ==
    /\ SshTypeOK
    /\ phase \in {"list", "ssh"} => SoundInv /\ CompleteInv
    /\ PhaseInv
    /\ FindsAll
=============================================================================
