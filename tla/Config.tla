------------------------------- MODULE Config -------------------------------
(***************************************************************************)
(* What the files `labels` and `prs` promise to whoever edits them from a  *)
(* dashboard: an edit changes the entry of one host in one step, and the   *)
(* other hosts keep theirs.                                                *)
(***************************************************************************)
EXTENDS Naturals, Sequences, SequencesExt

CONSTANTS Hosts, Labels, NoLabel, Urls, PrLimit

VARIABLES
    labels,   \* each host's label
    prs       \* each host's pull requests

vars == <<labels, prs>>

Init ==
    /\ labels = [h \in Hosts |-> NoLabel]
    /\ prs = [h \in Hosts |-> <<>>]

SetLabel(h, label) ==
    /\ labels' = [labels EXCEPT ![h] = label]
    /\ UNCHANGED prs

Attach(h, url) ==
    /\ Len(prs[h]) < PrLimit
    /\ ~Contains(prs[h], url)
    /\ prs' = [prs EXCEPT ![h] = Append(@, url)]
    /\ UNCHANGED labels

Detach(h, url) ==
    /\ prs' = [prs EXCEPT ![h] = RemoveFirst(@, url)]
    /\ UNCHANGED labels

Next ==
    \E h \in Hosts :
        \/ \E label \in Labels \cup {NoLabel} : SetLabel(h, label)
        \/ \E url \in Urls : Attach(h, url) \/ Detach(h, url)

Spec == Init /\ [][Next]_vars
=============================================================================
