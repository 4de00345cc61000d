-------------------------------- MODULE Edits --------------------------------
(***************************************************************************)
(* Editing labels and pull requests from the web dashboard                 *)
(* (src/src/labels.rs, src/src/prs.rs, and the handlers and the poller of  *)
(* src/src/server.rs). The entries live in two files, `labels` and `prs`,  *)
(* which every `serve` process of the user reads and rewrites, and in the  *)
(* view each `serve` publishes.                                            *)
(*                                                                         *)
(*   label   change the view, then read the file and write it back with    *)
(*           one host changed                                              *)
(*   PR      ask the view whether the host has room, read the file and     *)
(*           write it back with one host changed, then change the view     *)
(*   poll    read both files, then publish a view made from them           *)
(*                                                                         *)
(* Nothing locks the files. Writing is a rename: a reader sees the file    *)
(* before or after it. An editor is a connection's thread; a file that     *)
(* cannot be read counts as empty; a label or PR is a name for it.         *)
(***************************************************************************)
EXTENDS Integers, FiniteSets, SequencesExt

CONSTANTS
    Servers,       \* `serve` processes
    Editors,       \* connections that post edits
    Home,          \* the server of each editor
    Hosts,         \* hosts with an entry in a file
    Watched,       \* the hosts on the dashboards
    Labels, Urls,  \* labels and pull requests
    NoLabel,       \* no label
    PrLimit,       \* pull requests per host (8)
    Requests,      \* what the pages post
    MaxEdits,      \* bound: posts
    HandLists,     \* bound: the pull requests the user may list for each host
    MaxHandEdits,  \* bound: edits of a file by hand
    MaxFailures    \* bound: restarts, and reads and writes that fail

LabelRequest == [kind : {"label"}, host : Hosts, label : Labels \cup {NoLabel}]
PrRequest == [kind : {"add", "remove"}, host : Hosts, url : Urls]

ASSUME HomeAssumption == Home \in [Editors -> Servers]
ASSUME HostAssumption == Watched \subseteq Hosts
ASSUME HandAssumption == HandLists \in [Hosts -> SUBSET Seq(Urls)]
ASSUME RequestAssumption == Requests \subseteq LabelRequest \cup PrRequest
ASSUME BoundAssumption ==
    PrLimit \in Nat /\ MaxEdits \in Nat /\ MaxHandEdits \in Nat /\ MaxFailures \in Nat

VARIABLES
    labelFile,   \* the file `labels`
    prFile,      \* the file `prs`
    view,        \* what each server publishes
    polled,      \* what each server's poller has read
    poller,      \* where each server's poller is
    step,        \* where each editor is
    request,     \* what each editor was posted
    copy,        \* the file each editor has read, or written
    edits,       \* posts so far
    handEdits,   \* edits by hand so far
    failures     \* failures so far

vars == <<labelFile, prFile, view, polled, poller, step, request, copy, edits,
          handEdits, failures>>
files == <<labelFile, prFile>>
editorVars == <<step, request, copy, edits>>
boundVars == <<handEdits, failures>>

LabelFile == [Hosts -> Labels \cup {NoLabel}]
PrFile == [Hosts -> Seq(Urls)]
View == [labels : [Watched -> Labels \cup {NoLabel}], prs : [Watched -> Seq(Urls)]]

NoLabels == [h \in Hosts |-> NoLabel]
NoPrs == [h \in Hosts |-> <<>>]
NoRequest == [kind |-> "none"]

\* (A mistake: one pull request too many.)
WithPrOffByOne(list, url) ==
    IF Len(list) <= PrLimit /\ ~Contains(list, url) THEN Append(list, url) ELSE list
\* A list with one pull request more, unless it is there or the list is full.
WithPr(list, url) ==
    IF Len(list) < PrLimit /\ ~Contains(list, url) THEN Append(list, url) ELSE list

\* What read_prs makes of the lines of a host, and of a file.
ReadList(lines) ==
    LET list[n \in 0..Len(lines)] ==
            IF n = 0 THEN <<>> ELSE WithPr(list[n - 1], lines[n])
    IN  list[Len(lines)]
ReadPrs(file) == [h \in Hosts |-> ReadList(file[h])]

\* The view made from the files as they were read.
ViewOf(labels, prs) ==
    [ labels |-> [h \in Watched |-> labels[h]], prs |-> [h \in Watched |-> prs[h]] ]
NoView == ViewOf(NoLabels, NoPrs)

Init ==
    /\ labelFile = NoLabels
    /\ prFile = NoPrs
    /\ view = [s \in Servers |-> NoView]
    /\ polled = [s \in Servers |-> NoView]
    /\ poller = [s \in Servers |-> "fetch"]
    /\ step = [e \in Editors |-> "idle"]
    /\ request = [e \in Editors |-> NoRequest]
    /\ copy = [e \in Editors |-> NoLabels]
    /\ edits = 0
    /\ handEdits = 0
    /\ failures = 0

Goto(e, next) == step' = [step EXCEPT ![e] = next]
End(e) ==
    /\ Goto(e, "idle")
    /\ request' = [request EXCEPT ![e] = NoRequest]
    /\ copy' = [copy EXCEPT ![e] = NoLabels]
Accepted(e, post) ==
    /\ step[e] = "idle"
    /\ edits < MaxEdits
    /\ post \in Requests
    /\ post.host \in Watched
    /\ edits' = edits + 1
    /\ request' = [request EXCEPT ![e] = post]

-----------------------------------------------------------------------------
(* Posting a label: handle_label, set_label *)

PostLabel(e) ==
    /\ \E post \in LabelRequest :
          /\ Accepted(e, post)
          /\ view' = [view EXCEPT ![Home[e]].labels[post.host] = post.label]
    /\ Goto(e, "read labels")
    /\ UNCHANGED <<files, polled, poller, copy, boundVars>>

ReadLabels(e) ==
    /\ step[e] = "read labels"
    /\ copy' = [copy EXCEPT ![e] = labelFile]
    /\ Goto(e, "write labels")
    /\ UNCHANGED <<files, view, polled, poller, request, edits, boundVars>>

\* (A mistake: the file is rewritten with the label alone.)
WriteOneLabel(e) ==
    /\ step[e] = "write labels"
    /\ labelFile' = [NoLabels EXCEPT ![request[e].host] = request[e].label]
    /\ End(e)
    /\ UNCHANGED <<prFile, view, polled, poller, edits, boundVars>>

WriteLabels(e) ==
    /\ step[e] = "write labels"
    /\ labelFile' = [copy[e] EXCEPT ![request[e].host] = request[e].label]
    /\ End(e)
    /\ UNCHANGED <<prFile, view, polled, poller, edits, boundVars>>

-----------------------------------------------------------------------------
(* Posting a pull request: handle_pr, add_pr, remove_pr *)

\* accepts_pr
HasRoom(s, post) ==
    \/ Len(view[s].prs[post.host]) < PrLimit
    \/ Contains(view[s].prs[post.host], post.url)

PostPr(e) ==
    /\ \E post \in PrRequest :
          /\ Accepted(e, post)
          /\ post.kind = "remove" \/ HasRoom(Home[e], post)
    /\ Goto(e, "read prs")
    /\ UNCHANGED <<files, view, polled, poller, copy, boundVars>>

ReadPrFile(e) ==
    /\ step[e] = "read prs"
    /\ copy' = [copy EXCEPT ![e] = ReadPrs(prFile)]
    /\ Goto(e, "write prs")
    /\ UNCHANGED <<files, view, polled, poller, request, edits, boundVars>>

\* A list that was read has a pull request once at most, so what retain removes is
\* the first (RemoveFirstIsList in EditsProofs).
Changed(list, post) ==
    IF post.kind = "add" THEN WithPr(list, post.url) ELSE RemoveFirst(list, post.url)

WritePrs(e) ==
    /\ step[e] = "write prs"
    /\ LET host == request[e].host
           new == [copy[e] EXCEPT ![host] = Changed(@, request[e])]
       IN  prFile' = new /\ copy' = [copy EXCEPT ![e] = new]
    /\ Goto(e, "apply prs")
    /\ UNCHANGED <<labelFile, view, polled, poller, request, edits, boundVars>>

\* apply_prs
ApplyPrs(e) ==
    /\ step[e] = "apply prs"
    /\ LET host == request[e].host
       IN  view' = [view EXCEPT ![Home[e]].prs[host] = copy[e][host]]
    /\ End(e)
    /\ UNCHANGED <<files, polled, poller, edits, boundVars>>

-----------------------------------------------------------------------------
(* The poller *)

PollLabels(s) ==
    /\ poller[s] = "fetch"
    /\ polled' = [polled EXCEPT ![s].labels = [h \in Watched |-> labelFile[h]]]
    /\ poller' = [poller EXCEPT ![s] = "prs"]
    /\ UNCHANGED <<files, view, editorVars, boundVars>>

PollPrs(s) ==
    /\ poller[s] = "prs"
    /\ polled' = [polled EXCEPT ![s].prs = [h \in Watched |-> ReadPrs(prFile)[h]]]
    /\ poller' = [poller EXCEPT ![s] = "publish"]
    /\ UNCHANGED <<files, view, editorVars, boundVars>>

\* (A mistake: the labels are those of the view, read when the server started.)
PublishOldLabels(s) ==
    /\ poller[s] = "publish"
    /\ view' = [view EXCEPT ![s].prs = polled[s].prs]
    /\ poller' = [poller EXCEPT ![s] = "fetch"]
    /\ polled' = [polled EXCEPT ![s] = NoView]
    /\ UNCHANGED <<files, editorVars, boundVars>>

Publish(s) ==
    /\ poller[s] = "publish"
    /\ view' = [view EXCEPT ![s] = polled[s]]
    /\ poller' = [poller EXCEPT ![s] = "fetch"]
    /\ polled' = [polled EXCEPT ![s] = NoView]
    /\ UNCHANGED <<files, editorVars, boundVars>>

-----------------------------------------------------------------------------
(* What else happens *)

\* The file cannot be read: it counts as empty.
ReadFails(e) ==
    /\ step[e] \in {"read labels", "read prs"}
    /\ failures < MaxFailures
    /\ failures' = failures + 1
    /\ IF step[e] = "read labels"
       THEN copy' = [copy EXCEPT ![e] = NoLabels] /\ Goto(e, "write labels")
       ELSE copy' = [copy EXCEPT ![e] = NoPrs] /\ Goto(e, "write prs")
    /\ UNCHANGED <<files, view, polled, poller, request, edits, handEdits>>

\* The file cannot be written: the page gets an error.
WriteFails(e) ==
    /\ step[e] \in {"write labels", "write prs"}
    /\ failures < MaxFailures
    /\ failures' = failures + 1
    /\ End(e)
    /\ UNCHANGED <<files, view, polled, poller, edits, handEdits>>

\* The poller cannot read a file: what it has read stays without its entries.
PollReadFails(s) ==
    /\ poller[s] \in {"fetch", "prs"}
    /\ failures < MaxFailures
    /\ failures' = failures + 1
    /\ poller' = [poller EXCEPT ![s] = IF @ = "fetch" THEN "prs" ELSE "publish"]
    /\ UNCHANGED <<files, view, polled, editorVars, handEdits>>

\* A server dies with its threads and starts again from the files, as far as it can
\* read them.
Restart(s) ==
    /\ failures < MaxFailures
    /\ failures' = failures + 1
    /\ step' = [e \in Editors |-> IF Home[e] = s THEN "idle" ELSE step[e]]
    /\ request' = [e \in Editors |-> IF Home[e] = s THEN NoRequest ELSE request[e]]
    /\ copy' = [e \in Editors |-> IF Home[e] = s THEN NoLabels ELSE copy[e]]
    /\ poller' = [poller EXCEPT ![s] = "fetch"]
    /\ polled' = [polled EXCEPT ![s] = NoView]
    /\ \E labels \in {labelFile, NoLabels}, prs \in {ReadPrs(prFile), NoPrs} :
          view' = [view EXCEPT ![s] = ViewOf(labels, prs)]
    /\ UNCHANGED <<files, edits, handEdits>>

\* The user writes one host's lines.
HandEdit ==
    /\ handEdits < MaxHandEdits
    /\ handEdits' = handEdits + 1
    /\ \E h \in Hosts :
          \/ /\ \E label \in Labels \cup {NoLabel} :
                   labelFile' = [labelFile EXCEPT ![h] = label]
             /\ UNCHANGED prFile
          \/ /\ \E list \in HandLists[h] :
                   prFile' = [prFile EXCEPT ![h] = list]
             /\ UNCHANGED labelFile
    /\ UNCHANGED <<view, polled, poller, editorVars, failures>>

-----------------------------------------------------------------------------

Edit(e) ==
    \/ ReadLabels(e) \/ WriteLabels(e)
    \/ ReadPrFile(e) \/ WritePrs(e) \/ ApplyPrs(e)
Poll(s) == PollLabels(s) \/ PollPrs(s) \/ Publish(s)

Next ==
    \/ \E e \in Editors :
          PostLabel(e) \/ PostPr(e) \/ Edit(e) \/ ReadFails(e) \/ WriteFails(e)
    \/ \E s \in Servers : Poll(s) \/ PollReadFails(s) \/ Restart(s)
    \/ HandEdit

Spec == Init /\ [][Next]_vars

\* Threads run, and a server's polls succeed again and again.
FairSpec ==
    /\ Spec
    /\ \A e \in Editors : WF_vars(Edit(e))
    /\ \A s \in Servers : WF_vars(Poll(s))

-----------------------------------------------------------------------------
(* Types *)

\* Every variable has its type.
TypeOK ==
    /\ labelFile \in LabelFile
    /\ prFile \in PrFile
    /\ view \in [Servers -> View]
    /\ polled \in [Servers -> View]
    /\ poller \in [Servers -> {"fetch", "prs", "publish"}]
    /\ step \in [Editors -> {"idle", "read labels", "write labels", "read prs",
                             "write prs", "apply prs"}]
    /\ request \in [Editors -> Requests \cup {NoRequest}]
    /\ copy \in [Editors -> LabelFile \cup PrFile]
    /\ edits \in 0..MaxEdits
    /\ handEdits \in 0..MaxHandEdits
    /\ failures \in 0..MaxFailures

-----------------------------------------------------------------------------
(* Safety *)

\* prs.rs: the limit "bounds one card's row of chips". No card ever holds more,
\* nor one pull request twice, although the view that accepts an edit, the file
\* it goes to and the edits of other servers and of the user are all out of step.
CardsAreBounded ==
    \A s \in Servers : \A h \in Watched :
        /\ Len(view[s].prs[h]) <= PrLimit
        /\ IsInjective(view[s].prs[h])

\* labels.rs and prs.rs: "Other hosts keep theirs, so two dashboards editing
\* different hosts cannot erase each other": what an editor writes differs from
\* the file it replaces in its own host only.
OthersKept ==
    [][\A e \in Editors : step[e] \in {"write labels", "write prs"} =>
          \A h \in Hosts \ {request[e].host} :
              /\ step'[e] # step[e] => labelFile'[h] = labelFile[h]
              /\ step'[e] # step[e] => ReadPrs(prFile')[h] = ReadPrs(prFile)[h]]_vars

\* The editor's copy is what readers see in the file now: nobody has written since,
\* and it could be read.
IsCurrent(e) ==
    copy[e] = IF step[e] = "write labels" THEN labelFile ELSE ReadPrs(prFile)
WritesOverOthers(e) ==
    step[e] \in {"write labels", "write prs"} /\ ~IsCurrent(e) /\ step'[e] # step[e]

\* The files as their readers see them implement Config, with any number of servers,
\* edits that fail, servers that die and pull requests listed twice or too often by
\* hand: but for edits by hand, and for writes over what somebody else wrote since.
AsConfig == INSTANCE Config WITH labels <- labelFile, prs <- ReadPrs(prFile)
FilesImplementConfig ==
    /\ AsConfig!Init
    /\ [][\/ AsConfig!Next
          \/ UNCHANGED <<labelFile, ReadPrs(prFile)>>
          \/ handEdits' # handEdits
          \/ \E e \in Editors : WritesOverOthers(e)]_vars

-----------------------------------------------------------------------------
(* Liveness *)

\* README: "it is re-read on every poll, so changes appear without restarting the
\* server". However edits, failures and polls overlap, in the end every dashboard
\* shows the files.
ViewsCatchUp ==
    <>[](\A s \in Servers : view[s] = ViewOf(labelFile, ReadPrs(prFile)))
=============================================================================
