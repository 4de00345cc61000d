------------------------------ MODULE MCEdits ------------------------------
(* Edits on small instances. *)
EXTENDS Edits

CONSTANTS a, b, e1, e2, s1, s2, x, u1, u2

OneServer == [e \in Editors |-> s1]
TwoServers == [e \in Editors |-> IF e = e1 THEN s1 ELSE s2]

SetLabels == [kind : {"label"}, host : {a, b}, label : {x, NoLabel}]
OneOfEach ==
    [kind : {"label"}, host : {a}, label : {x}]
        \cup [kind : {"add", "remove"}, host : {a}, url : {u1}]

\* The user may list a pull request of one host twice, or one too many.
MCHandLists == [h \in Hosts |-> IF h = a THEN BoundedSeq(Urls, PrLimit + 1) ELSE {}]
=============================================================================
