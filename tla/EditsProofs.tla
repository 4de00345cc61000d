---------------------------- MODULE EditsProofs ----------------------------
(***************************************************************************)
(* Proofs about Edits: what reading a list of pull requests gives, for a   *)
(* list of any length; that no card ever exceeds the limit; and that the   *)
(* files implement Config, for any number of servers and editors.          *)
(***************************************************************************)
EXTENDS Edits, Induction, TLAPS

-----------------------------------------------------------------------------
(* Lists of pull requests *)

\* A list as read: no longer than the limit, and nothing in it twice.
Lists == {list \in Seq(Urls) : Len(list) <= PrLimit /\ IsInjective(list)}

LEMMA EmptyList == <<>> \in Lists
BY BoundAssumption DEF Lists, IsInjective

LEMMA WithPrIsList ==
    ASSUME NEW list \in Lists, NEW url \in Urls
    PROVE  WithPr(list, url) \in Lists
<1>1. CASE Len(list) < PrLimit /\ ~Contains(list, url)
  <2> DEFINE new == Append(list, url)
  <2>1. new \in Seq(Urls) /\ Len(new) = Len(list) + 1 /\ Len(list) \in Nat
    BY DEF Lists
  <2>2. Len(new) <= PrLimit
    BY <1>1, <2>1, BoundAssumption
  <2>3. \A i \in 1..Len(list) : new[i] = list[i] /\ list[i] # url
    BY <1>1 DEF Lists, Contains
  <2>4. new[Len(list) + 1] = url
    BY DEF Lists
  <2>5. DOMAIN new = 1..(Len(list) + 1) /\ DOMAIN list = 1..Len(list)
    BY <2>1 DEF Lists
  <2>6. IsInjective(new)
    <3> SUFFICES ASSUME NEW i \in DOMAIN new, NEW j \in DOMAIN new, new[i] = new[j]
                 PROVE  i = j
      BY DEF IsInjective
    <3> HIDE DEF new
    <3>1. CASE i \in 1..Len(list) /\ j \in 1..Len(list)
      BY <2>3, <2>5, <3>1 DEF Lists, IsInjective
    <3>2. CASE i = Len(list) + 1 \/ j = Len(list) + 1
      BY <2>1, <2>3, <2>4, <2>5, <3>2
    <3> QED  BY <2>1, <2>5, <3>1, <3>2
  <2> QED  BY <1>1, <2>1, <2>2, <2>6 DEF Lists, WithPr
<1>2. CASE ~(Len(list) < PrLimit /\ ~Contains(list, url))
  BY <1>2 DEF WithPr
<1> QED  BY <1>1, <1>2

\* The first place of a pull request, if it has one.
LEMMA FirstPlace ==
    ASSUME NEW list \in Lists, NEW url, Contains(list, url)
    PROVE  \E i \in 1..Len(list) :
              list[i] = url /\ RemoveFirst(list, url) = RemoveAt(list, i)
<1> DEFINE places == {i \in 1..Len(list) : list[i] = url}
<1>1. places \in SUBSET Nat /\ places # {}
  BY DEF Lists, Contains
<1>2. PICK i \in places : \A j \in places : i <= j
  BY <1>1, Least
<1>3. SelectInSeq(list, LAMBDA v : v = url) \in places
  BY <1>1, <1>2 DEF SelectInSeq, Min
<1> QED  BY <1>3 DEF RemoveFirst, Contains

\* A list without its i-th place.
LEMMA RemoveAtPlace ==
    ASSUME NEW list \in Lists, NEW i \in 1..Len(list)
    PROVE  LET new == RemoveAt(list, i)
           IN  /\ new \in Seq(Urls)
               /\ Len(new) = Len(list) - 1
               /\ \A j \in 1..(Len(list) - 1) :
                     new[j] = IF j < i THEN list[j] ELSE list[j + 1]
<1> DEFINE new == RemoveAt(list, i)
           front == SubSeq(list, 1, i - 1)
           back == SubSeq(list, i + 1, Len(list))
<1>0. list \in Seq(Urls) /\ Len(list) \in Nat /\ i \in Nat
  BY DEF Lists
<1>1. front \in Seq(Urls) /\ Len(front) = i - 1 /\ \A j \in 1..(i - 1) : front[j] = list[j]
  BY <1>0
<1>2. /\ back \in Seq(Urls)
      /\ Len(back) = Len(list) - i
      /\ \A j \in 1..(Len(list) - i) : back[j] = list[i + j]
  BY <1>0
<1>3. new = front \o back
  BY DEF RemoveAt
<1> HIDE DEF front, back, new
<1>4. new \in Seq(Urls) /\ Len(new) = Len(list) - 1
  BY <1>0, <1>1, <1>2, <1>3
<1>5. ASSUME NEW j \in 1..(Len(list) - 1)
      PROVE  new[j] = IF j < i THEN list[j] ELSE list[j + 1]
  <2>1. CASE j < i
    BY <1>0, <1>1, <1>2, <1>3, <2>1
  <2>2. CASE j >= i
    <3>1. j - (i - 1) \in 1..(Len(list) - i) /\ i + (j - (i - 1)) = j + 1
      BY <1>0, <2>2
    <3>2. new[j] = back[j - (i - 1)]
      BY <1>0, <1>1, <1>2, <1>3, <2>2
    <3> QED  BY <1>0, <1>2, <2>2, <3>1, <3>2
  <2> QED  BY <1>0, <2>1, <2>2
<1> QED  BY <1>4, <1>5 DEF new

\* Removing the first place of a pull request leaves a list, without that pull request:
\* as retain does, since it has no other place.
LEMMA RemoveFirstIsList ==
    ASSUME NEW list \in Lists, NEW url
    PROVE  /\ RemoveFirst(list, url) \in Lists
           /\ ~Contains(RemoveFirst(list, url), url)
<1>1. CASE ~Contains(list, url)
  BY <1>1 DEF RemoveFirst, Contains
<1>2. CASE Contains(list, url)
  <2>1. PICK i \in 1..Len(list) :
            list[i] = url /\ RemoveFirst(list, url) = RemoveAt(list, i)
    BY <1>2, FirstPlace
  <2> DEFINE new == RemoveAt(list, i)
  <2>2. list \in Seq(Urls) /\ Len(list) \in Nat /\ i \in Nat
    BY DEF Lists
  <2>3. /\ new \in Seq(Urls)
        /\ Len(new) = Len(list) - 1
        /\ \A j \in 1..(Len(list) - 1) : new[j] = IF j < i THEN list[j] ELSE list[j + 1]
    BY RemoveAtPlace
  <2> HIDE DEF new
  <2>4. Len(new) <= PrLimit
    BY <2>2, <2>3, BoundAssumption DEF Lists
  <2> DEFINE From(n) == IF n < i THEN n ELSE n + 1
  <2>5. IsInjective(new)
    <3> SUFFICES ASSUME NEW j \in DOMAIN new, NEW k \in DOMAIN new, new[j] = new[k]
                 PROVE  j = k
      BY DEF IsInjective
    <3>1. j \in 1..(Len(list) - 1) /\ k \in 1..(Len(list) - 1)
      BY <2>2, <2>3
    <3>2. From(j) \in 1..Len(list) /\ From(k) \in 1..Len(list)
      BY <2>2, <3>1
    <3>3. list[From(j)] = list[From(k)]
      BY <2>3, <3>1
    <3>4. From(j) = From(k)
      BY <2>2, <3>2, <3>3 DEF Lists, IsInjective
    <3> QED  BY <2>2, <3>1, <3>4
  <2>6. ~Contains(new, url)
    <3> SUFFICES ASSUME NEW j \in 1..Len(new), new[j] = url PROVE FALSE
      BY DEF Contains
    <3>1. j \in 1..(Len(list) - 1)
      BY <2>3
    <3>2. From(j) \in 1..Len(list) /\ From(j) # i
      BY <2>2, <3>1
    <3>3. list[From(j)] = list[i]
      BY <2>1, <2>3, <3>1
    <3> QED  BY <2>2, <3>2, <3>3 DEF Lists, IsInjective
  <2> QED  BY <2>1, <2>3, <2>4, <2>5, <2>6 DEF Lists, new
<1> QED  BY <1>1, <1>2

\* The lists read after each line are those that the recursion says.
LEMMA ReadingExists ==
    ASSUME NEW lines \in Seq(Urls)
    PROVE  \E read \in [0..Len(lines) -> Lists] :
              /\ read[0] = <<>>
              /\ \A n \in 1..Len(lines) : read[n] = WithPr(read[n - 1], lines[n])
              /\ ReadList(lines) = read[Len(lines)]
<1> DEFINE N == Len(lines)
           Next1(f, n) == IF n = 0 THEN <<>> ELSE WithPr(f[n - 1], lines[n])
           IsReading(f, n) == f \in [0..n -> Lists] /\ \A m \in 0..n : f[m] = Next1(f, m)
           T == {n \in Nat : n <= N => \E f : IsReading(f, n)}
<1>0. N \in Nat
  OBVIOUS
<1>1. 0 \in T
  <2>1. IsReading([m \in 0..0 |-> <<>>], 0)
    BY EmptyList
  <2> QED  BY <2>1
<1>2. ASSUME NEW n \in Nat, n \in T PROVE n + 1 \in T
  <2> SUFFICES ASSUME n + 1 <= N PROVE \E f : IsReading(f, n + 1)
    OBVIOUS
  <2>1. PICK f : IsReading(f, n)
    BY <1>0, <1>2
  <2>2. n + 1 \in 1..N /\ lines[n + 1] \in Urls
    BY <1>0
  <2>3. f[n] \in Lists /\ WithPr(f[n], lines[n + 1]) \in Lists
    BY <2>1, <2>2, WithPrIsList
  <2> DEFINE g == [m \in 0..(n + 1) |-> IF m = n + 1 THEN WithPr(f[n], lines[n + 1]) ELSE f[m]]
  <2>4. g \in [0..(n + 1) -> Lists]
    <3>1. \A m \in 0..(n + 1) : m # n + 1 => m \in 0..n
      OBVIOUS
    <3> QED  BY <2>1, <2>3, <3>1
  <2>5. ASSUME NEW m \in 0..(n + 1) PROVE g[m] = Next1(g, m)
    <3>1. CASE m = 0
      <4>1. g[0] = f[0] /\ f[0] = <<>>
        BY <2>1
      <4> QED  BY <3>1, <4>1
    <3>2. CASE m \in 1..n
      <4>1. g[m] = f[m] /\ g[m - 1] = f[m - 1] /\ m # 0 /\ m \in 0..n
        BY <3>2
      <4> QED  BY <2>1, <4>1
    <3>3. CASE m = n + 1
      <4>1. g[m] = WithPr(f[n], lines[n + 1]) /\ g[m - 1] = f[n] /\ m # 0
        BY <3>3
      <4> QED  BY <3>3, <4>1
    <3> QED  BY <2>5, <3>1, <3>2, <3>3
  <2> QED  BY <2>4, <2>5
<1> HIDE DEF T
<1>3. N \in T
  BY <1>0, <1>1, <1>2, SetInduction
<1>4. PICK f : IsReading(f, N)
  BY <1>0, <1>3 DEF T
<1> DEFINE Solves(g) == g = [n \in 0..N |-> IF n = 0 THEN <<>> ELSE WithPr(g[n - 1], lines[n])]
           list == CHOOSE g : Solves(g)
<1>5. Solves(f)
  BY <1>4
<1>6. Solves(list)
  BY <1>5
<1>7. ReadList(lines) = list[N]
  BY DEF ReadList
<1> HIDE DEF list
<1> DEFINE U == {n \in Nat : n <= N => list[n] = f[n]}
<1>8. 0 \in U
  BY <1>0, <1>4, <1>6
<1>9. ASSUME NEW n \in Nat, n \in U PROVE n + 1 \in U
  <2> SUFFICES ASSUME n + 1 <= N PROVE list[n + 1] = f[n + 1]
    OBVIOUS
  <2>1. n + 1 \in 0..N /\ n + 1 # 0 /\ (n + 1) - 1 = n /\ list[n] = f[n]
    BY <1>0, <1>9
  <2> QED  BY <1>4, <1>6, <2>1
<1> HIDE DEF U
<1>10. N \in U
  BY <1>0, <1>8, <1>9, SetInduction
<1>11. ReadList(lines) = f[N]
  BY <1>0, <1>7, <1>10 DEF U
<1>12. f[0] = <<>> /\ \A n \in 1..N : f[n] = WithPr(f[n - 1], lines[n])
  BY <1>0, <1>4
<1> QED  BY <1>4, <1>11, <1>12

\* Whatever lines a file has for a host, no more than the limit are read, none twice.
LEMMA ReadListIsList ==
    ASSUME NEW lines \in Seq(Urls)
    PROVE  ReadList(lines) \in Lists
<1>1. PICK read \in [0..Len(lines) -> Lists] : ReadList(lines) = read[Len(lines)]
  BY ReadingExists
<1> QED  BY <1>1

\* What was read and written again is read as it is.
LEMMA ReadListOfList ==
    ASSUME NEW lines \in Lists
    PROVE  ReadList(lines) = lines
<1> DEFINE N == Len(lines)
<1>1. lines \in Seq(Urls) /\ N \in Nat /\ N <= PrLimit
  BY DEF Lists
<1>2. PICK read \in [0..N -> Lists] :
         /\ read[0] = <<>>
         /\ \A n \in 1..N : read[n] = WithPr(read[n - 1], lines[n])
         /\ ReadList(lines) = read[N]
  BY <1>1, ReadingExists
<1> DEFINE T == {n \in Nat : n <= N => read[n] = SubSeq(lines, 1, n)}
<1>3. 0 \in T
  <2>1. SubSeq(lines, 1, 0) = <<>>
    BY <1>1
  <2>2. read[0] = SubSeq(lines, 1, 0)
    BY <1>2, <2>1
  <2> QED  BY <2>2
<1>4. ASSUME NEW n \in Nat, n \in T PROVE n + 1 \in T
  <2> SUFFICES ASSUME n + 1 <= N PROVE read[n + 1] = SubSeq(lines, 1, n + 1)
    OBVIOUS
  <2> DEFINE front == SubSeq(lines, 1, n)
  <2>1. read[n] = front /\ n + 1 \in 1..N /\ (n + 1) - 1 = n
    BY <1>1, <1>4
  <2>2. front \in Seq(Urls) /\ Len(front) = n /\ \A i \in 1..n : front[i] = lines[i]
    BY <1>1, <2>1
  <2>3. ~Contains(front, lines[n + 1])
    <3>1. \A i \in 1..n : i \in DOMAIN lines /\ n + 1 \in DOMAIN lines /\ i # n + 1
      BY <1>1, <2>1
    <3> QED  BY <2>2, <3>1 DEF Contains, Lists, IsInjective
  <2>4. Len(front) < PrLimit
    BY <1>1, <2>1, <2>2, BoundAssumption
  <2>5. read[n + 1] = Append(front, lines[n + 1])
    BY <1>2, <2>1, <2>3, <2>4 DEF WithPr
  <2>6. Append(front, lines[n + 1]) = SubSeq(lines, 1, n + 1)
    BY <1>1, <2>1
  <2> QED  BY <2>5, <2>6
<1> HIDE DEF T
<1>5. N \in T
  BY <1>1, <1>3, <1>4, SetInduction
<1>6. SubSeq(lines, 1, N) = lines
  BY <1>1
<1> QED  BY <1>1, <1>2, <1>5, <1>6 DEF T

-----------------------------------------------------------------------------
(* The inductive invariant *)

\* Every list that a server shows, or is going to show, was read.
ListsInv ==
    \A s \in Servers : \A h \in Watched :
        view[s].prs[h] \in Lists /\ polled[s].prs[h] \in Lists

\* What an editor does is what it was posted, to what it has read.
EditorInv(e) ==
    /\ step[e] \in {"read labels", "write labels"} => request[e] \in LabelRequest
    /\ step[e] \in {"read prs", "write prs", "apply prs"} => request[e] \in PrRequest
    /\ step[e] # "idle" => request[e].host \in Watched
    /\ step[e] = "write labels" => copy[e] \in LabelFile
    /\ step[e] \in {"write prs", "apply prs"} => copy[e] \in [Hosts -> Lists]

IInv == TypeOK /\ ListsInv /\ \A e \in Editors : EditorInv(e)

LEMMA ReadPrsIsLists ==
    ASSUME NEW file \in PrFile
    PROVE  ReadPrs(file) \in [Hosts -> Lists]
BY ReadListIsList DEF ReadPrs, PrFile

LEMMA ListsArePrFiles == [Hosts -> Lists] \subseteq PrFile
BY DEF Lists, PrFile

LEMMA EmptyFiles == NoLabels \in LabelFile /\ NoPrs \in [Hosts -> Lists] /\ NoPrs \in PrFile
BY EmptyList DEF NoLabels, NoPrs, LabelFile, PrFile, Lists

LEMMA ViewOfFiles ==
    ASSUME NEW labels \in LabelFile, NEW prs \in [Hosts -> Lists]
    PROVE  /\ ViewOf(labels, prs) \in View
           /\ \A h \in Watched : ViewOf(labels, prs).prs[h] \in Lists
BY HostAssumption DEF ViewOf, View, LabelFile, Lists

LEMMA NoViewIsView == NoView \in View /\ \A h \in Watched : NoView.prs[h] \in Lists
BY EmptyFiles, ViewOfFiles DEF NoView

\* An editor that a step leaves alone.
LEMMA Untouched ==
    ASSUME NEW e \in Editors, EditorInv(e),
           step'[e] = step[e], request'[e] = request[e], copy'[e] = copy[e]
    PROVE  EditorInv(e)'
BY DEF EditorInv

\* A step of one editor that leaves the servers' views alone.
LEMMA EditorStep ==
    ASSUME IInv, NEW e \in Editors,
           NEW next \in {"idle", "read labels", "write labels", "read prs", "write prs",
                         "apply prs"},
           NEW post \in Requests \cup {NoRequest}, NEW new \in LabelFile \cup PrFile,
           step' = [step EXCEPT ![e] = next],
           request' = [request EXCEPT ![e] = post],
           copy' = [copy EXCEPT ![e] = new],
           EditorInv(e)'
    PROVE  /\ \A f \in Editors : EditorInv(f)'
           /\ step' \in [Editors -> {"idle", "read labels", "write labels", "read prs",
                                     "write prs", "apply prs"}]
           /\ request' \in [Editors -> Requests \cup {NoRequest}]
           /\ copy' \in [Editors -> LabelFile \cup PrFile]
<1>1. ASSUME NEW f \in Editors, f # e PROVE EditorInv(f)'
  BY <1>1, Untouched DEF IInv, TypeOK
<1> QED  BY <1>1 DEF IInv, TypeOK

\* One host's label, or list, changes in one server's view.
LEMMA LabelChanges ==
    ASSUME view \in [Servers -> View], NEW s \in Servers, NEW h \in Watched,
           NEW label \in Labels \cup {NoLabel},
           view' = [view EXCEPT ![s].labels[h] = label]
    PROVE  view' \in [Servers -> View] /\ \A t \in Servers : view'[t].prs = view[t].prs
<1> DEFINE new == [view[s] EXCEPT !.labels[h] = label]
<1>1. view[s] \in View
  OBVIOUS
<1>2. new \in View /\ new.prs = view[s].prs
  BY <1>1 DEF View
<1>3. view' = [view EXCEPT ![s] = new]
  OBVIOUS
<1> HIDE DEF new
<1> QED  BY <1>2, <1>3

LEMMA ListChanges ==
    ASSUME view \in [Servers -> View], NEW s \in Servers, NEW h \in Watched,
           NEW list \in Seq(Urls),
           view' = [view EXCEPT ![s].prs[h] = list]
    PROVE  /\ view' \in [Servers -> View]
           /\ \A t \in Servers : \A g \in Watched :
                 view'[t].prs[g] \in {list, view[t].prs[g]}
<1> DEFINE new == [view[s] EXCEPT !.prs[h] = list]
<1>1. view[s] \in View
  OBVIOUS
<1>2. new \in View /\ \A g \in Watched : new.prs[g] \in {list, view[s].prs[g]}
  BY <1>1 DEF View
<1>3. view' = [view EXCEPT ![s] = new]
  OBVIOUS
<1> HIDE DEF new
<1> QED  BY <1>2, <1>3

LEMMA PostsAreCounted ==
    ASSUME IInv, NEW e, NEW post, Accepted(e, post)
    PROVE  edits' \in 0..MaxEdits
<1>1. edits \in 0..MaxEdits /\ edits < MaxEdits /\ edits' = edits + 1
  BY DEF Accepted, IInv, TypeOK
<1> QED  BY <1>1, BoundAssumption

LEMMA InitEstablishes == Init => IInv
<1> SUFFICES ASSUME Init PROVE IInv
  OBVIOUS
<1>1. TypeOK
  BY EmptyFiles, NoViewIsView, BoundAssumption DEF Init, TypeOK
<1>2. ListsInv
  BY NoViewIsView DEF Init, ListsInv
<1>3. \A e \in Editors : EditorInv(e)
  BY DEF Init, EditorInv
<1> QED  BY <1>1, <1>2, <1>3 DEF IInv

-----------------------------------------------------------------------------
(* Each action keeps it *)

LEMMA PostLabelKeeps == ASSUME IInv, NEW e \in Editors, PostLabel(e) PROVE IInv'
<1>1. PICK post \in LabelRequest :
         /\ Accepted(e, post)
         /\ view' = [view EXCEPT ![Home[e]].labels[post.host] = post.label]
  BY DEF PostLabel
<1>2. /\ post \in Requests /\ post.host \in Watched /\ post.label \in Labels \cup {NoLabel}
      /\ Home[e] \in Servers
  BY <1>1, HomeAssumption DEF Accepted, LabelRequest
<1>3. /\ step' = [step EXCEPT ![e] = "read labels"]
      /\ request' = [request EXCEPT ![e] = post]
      /\ copy' = [copy EXCEPT ![e] = copy[e]]
  <2>1. copy' = copy /\ copy \in [Editors -> LabelFile \cup PrFile]
    BY DEF PostLabel, IInv, TypeOK
  <2>2. copy' = [copy EXCEPT ![e] = copy[e]]
    BY <2>1, Zenon
  <2> QED  BY <1>1, <2>2 DEF PostLabel, Goto, Accepted
<1>4. edits' \in 0..MaxEdits
  BY <1>1, PostsAreCounted
<1>5. EditorInv(e)'
  BY <1>1, <1>2, <1>3 DEF EditorInv, IInv, TypeOK
<1>6. view' \in [Servers -> View] /\ \A s \in Servers : view'[s].prs = view[s].prs
  BY <1>1, <1>2, LabelChanges DEF IInv, TypeOK
<1>7. copy[e] \in LabelFile \cup PrFile
  BY DEF IInv, TypeOK
<1>8. TypeOK'
  BY <1>2, <1>3, <1>4, <1>5, <1>6, <1>7, EditorStep
     DEF PostLabel, files, boundVars, IInv, TypeOK
<1>9. ListsInv'
  BY <1>6 DEF PostLabel, ListsInv, IInv
<1> QED  BY <1>2, <1>3, <1>5, <1>7, <1>8, <1>9, EditorStep DEF IInv

LEMMA ReadLabelsKeeps == ASSUME IInv, NEW e \in Editors, ReadLabels(e) PROVE IInv'
<1>1. /\ step' = [step EXCEPT ![e] = "write labels"]
      /\ request' = [request EXCEPT ![e] = request[e]]
      /\ copy' = [copy EXCEPT ![e] = labelFile]
      /\ request[e] \in Requests \cup {NoRequest}
      /\ labelFile \in LabelFile
  BY DEF ReadLabels, Goto, IInv, TypeOK
<1>2. EditorInv(e)'
  BY <1>1 DEF ReadLabels, EditorInv, IInv, TypeOK
<1>3. TypeOK'
  BY <1>1, <1>2, EditorStep DEF ReadLabels, files, boundVars, IInv, TypeOK
<1>4. ListsInv'
  BY DEF ReadLabels, ListsInv, IInv
<1> QED  BY <1>1, <1>2, <1>3, <1>4, EditorStep DEF IInv

LEMMA EndIsRest ==
    ASSUME IInv, NEW e \in Editors, End(e)
    PROVE  /\ EditorInv(e)'
           /\ step' = [step EXCEPT ![e] = "idle"]
           /\ request' = [request EXCEPT ![e] = NoRequest]
           /\ copy' = [copy EXCEPT ![e] = NoLabels]
           /\ NoLabels \in LabelFile
BY EmptyFiles DEF End, Goto, EditorInv, IInv, TypeOK

LEMMA WriteLabelsKeeps == ASSUME IInv, NEW e \in Editors, WriteLabels(e) PROVE IInv'
<1>1. End(e)
  BY DEF WriteLabels
<1>2. labelFile' \in LabelFile
  BY DEF WriteLabels, EditorInv, LabelFile, LabelRequest, IInv
<1>3. TypeOK'
  BY <1>1, <1>2, EndIsRest, EditorStep DEF WriteLabels, boundVars, IInv, TypeOK
<1>4. ListsInv'
  BY DEF WriteLabels, ListsInv, IInv
<1> QED  BY <1>1, <1>3, <1>4, EndIsRest, EditorStep DEF IInv

LEMMA PostPrKeeps == ASSUME IInv, NEW e \in Editors, PostPr(e) PROVE IInv'
<1>1. PICK post \in PrRequest : Accepted(e, post)
  BY DEF PostPr
<1>2. post \in Requests /\ post.host \in Watched
  BY <1>1 DEF Accepted
<1>3. /\ step' = [step EXCEPT ![e] = "read prs"]
      /\ request' = [request EXCEPT ![e] = post]
      /\ copy' = [copy EXCEPT ![e] = copy[e]]
  <2>1. copy' = copy /\ copy \in [Editors -> LabelFile \cup PrFile]
    BY DEF PostPr, IInv, TypeOK
  <2>2. copy' = [copy EXCEPT ![e] = copy[e]]
    BY <2>1, Zenon
  <2> QED  BY <1>1, <2>2 DEF PostPr, Goto, Accepted
<1>4. edits' \in 0..MaxEdits
  BY <1>1, PostsAreCounted
<1>5. EditorInv(e)'
  BY <1>1, <1>2, <1>3 DEF EditorInv, IInv, TypeOK
<1>6. copy[e] \in LabelFile \cup PrFile
  BY DEF IInv, TypeOK
<1>7. TypeOK'
  BY <1>2, <1>3, <1>4, <1>5, <1>6, EditorStep DEF PostPr, files, boundVars, IInv, TypeOK
<1>8. ListsInv'
  BY DEF PostPr, ListsInv, IInv
<1> QED  BY <1>2, <1>3, <1>5, <1>6, <1>7, <1>8, EditorStep DEF IInv

LEMMA ReadPrFileKeeps == ASSUME IInv, NEW e \in Editors, ReadPrFile(e) PROVE IInv'
<1>1. /\ step' = [step EXCEPT ![e] = "write prs"]
      /\ request' = [request EXCEPT ![e] = request[e]]
      /\ copy' = [copy EXCEPT ![e] = ReadPrs(prFile)]
      /\ request[e] \in Requests \cup {NoRequest}
  BY DEF ReadPrFile, Goto, IInv, TypeOK
<1>2. ReadPrs(prFile) \in [Hosts -> Lists]
  BY ReadPrsIsLists DEF IInv, TypeOK
<1>3. EditorInv(e)'
  BY <1>1, <1>2 DEF ReadPrFile, EditorInv, IInv, TypeOK
<1>4. TypeOK'
  BY <1>1, <1>2, <1>3, ListsArePrFiles, EditorStep DEF ReadPrFile, files, boundVars, IInv, TypeOK
<1>5. ListsInv'
  BY DEF ReadPrFile, ListsInv, IInv
<1> QED  BY <1>1, <1>2, <1>3, <1>4, <1>5, ListsArePrFiles, EditorStep DEF IInv

\* What an editor writes to the file are lists that are read back as they are.
LEMMA ChangedIsLists ==
    ASSUME IInv, NEW e \in Editors, step[e] = "write prs"
    PROVE  /\ request[e] \in PrRequest
           /\ copy[e] \in [Hosts -> Lists]
           /\ [copy[e] EXCEPT ![request[e].host] = Changed(@, request[e])] \in [Hosts -> Lists]
<1>1. request[e] \in PrRequest /\ copy[e] \in [Hosts -> Lists]
  BY DEF EditorInv, IInv
<1>2. request[e].host \in Hosts /\ request[e].url \in Urls
  BY <1>1 DEF PrRequest
<1>3. Changed(copy[e][request[e].host], request[e]) \in Lists
  BY <1>1, <1>2, WithPrIsList, RemoveFirstIsList DEF Changed
<1> QED  BY <1>1, <1>3

LEMMA WritePrsKeeps == ASSUME IInv, NEW e \in Editors, WritePrs(e) PROVE IInv'
<1> DEFINE new == [copy[e] EXCEPT ![request[e].host] = Changed(@, request[e])]
<1>1. /\ step' = [step EXCEPT ![e] = "apply prs"]
      /\ request' = [request EXCEPT ![e] = request[e]]
      /\ copy' = [copy EXCEPT ![e] = new]
      /\ prFile' = new
      /\ request[e] \in Requests \cup {NoRequest}
  BY DEF WritePrs, Goto, IInv, TypeOK
<1>2. new \in [Hosts -> Lists] /\ new \in PrFile
  BY ChangedIsLists, ListsArePrFiles DEF WritePrs
<1> HIDE DEF new
<1>3. EditorInv(e)'
  BY <1>1, <1>2 DEF WritePrs, EditorInv, IInv, TypeOK
<1>4. TypeOK'
  BY <1>1, <1>2, <1>3, EditorStep DEF WritePrs, boundVars, IInv, TypeOK
<1>5. ListsInv'
  BY DEF WritePrs, ListsInv, IInv
<1> QED  BY <1>1, <1>2, <1>3, <1>4, <1>5, EditorStep DEF IInv

LEMMA ApplyPrsKeeps == ASSUME IInv, NEW e \in Editors, ApplyPrs(e) PROVE IInv'
<1> DEFINE s == Home[e]
           h == request[e].host
           list == copy[e][h]
<1>1. End(e)
  BY DEF ApplyPrs
<1>2. s \in Servers /\ h \in Watched /\ list \in Lists
  BY HomeAssumption, HostAssumption DEF ApplyPrs, EditorInv, IInv
<1>3. view' = [view EXCEPT ![s].prs[h] = list]
  BY DEF ApplyPrs
<1> HIDE DEF s, h, list
<1>4. view \in [Servers -> View] /\ list \in Seq(Urls)
  BY <1>2 DEF IInv, TypeOK, Lists
<1>5. view' \in [Servers -> View]
  BY <1>2, <1>3, <1>4, ListChanges
<1>6. \A t \in Servers : \A g \in Watched :
         view'[t].prs[g] \in {list, view[t].prs[g]}
  BY <1>2, <1>3, <1>4, ListChanges
<1>7. TypeOK'
  BY <1>1, <1>5, EndIsRest, EditorStep DEF ApplyPrs, files, boundVars, IInv, TypeOK
<1>8. ListsInv'
  BY <1>2, <1>6 DEF ApplyPrs, ListsInv, IInv
<1> QED  BY <1>1, <1>7, <1>8, EndIsRest, EditorStep DEF IInv

-----------------------------------------------------------------------------
(* The poller's steps, and the rest *)

\* A step that leaves the editors alone.
LEMMA EditorsRest ==
    ASSUME IInv, step' = step, request' = request, copy' = copy
    PROVE  \A e \in Editors : EditorInv(e)'
BY Untouched DEF IInv

LEMMA PollLabelsKeeps == ASSUME IInv, NEW s \in Servers, PollLabels(s) PROVE IInv'
<1> DEFINE new == [polled[s] EXCEPT !.labels = [h \in Watched |-> labelFile[h]]]
<1>1. polled' = [polled EXCEPT ![s] = new]
  BY DEF PollLabels
<1>2. polled[s] \in View /\ polled \in [Servers -> View] /\ labelFile \in LabelFile
  BY DEF IInv, TypeOK
<1>3. new \in View /\ new.prs = polled[s].prs
  BY <1>2, HostAssumption DEF View, LabelFile
<1> HIDE DEF new
<1>4. polled' \in [Servers -> View] /\ \A t \in Servers : polled'[t].prs = polled[t].prs
  BY <1>1, <1>2, <1>3
<1>5. TypeOK'
  BY <1>4 DEF PollLabels, files, editorVars, boundVars, IInv, TypeOK
<1>6. ListsInv'
  BY <1>4 DEF PollLabels, ListsInv, IInv
<1> QED  BY <1>5, <1>6, EditorsRest DEF PollLabels, editorVars, IInv

LEMMA PollPrsKeeps == ASSUME IInv, NEW s \in Servers, PollPrs(s) PROVE IInv'
<1> DEFINE lists == [h \in Watched |-> ReadPrs(prFile)[h]]
           new == [polled[s] EXCEPT !.prs = lists]
<1>1. polled' = [polled EXCEPT ![s] = new]
  BY DEF PollPrs
<1>2. polled[s] \in View /\ polled \in [Servers -> View] /\ prFile \in PrFile
  BY DEF IInv, TypeOK
<1>3. lists \in [Watched -> Lists] /\ lists \in [Watched -> Seq(Urls)]
  BY <1>2, ReadPrsIsLists, HostAssumption DEF Lists
<1> HIDE DEF lists
<1>4. new \in View /\ new.prs = lists
  BY <1>2, <1>3 DEF View
<1> HIDE DEF new
<1>5. /\ polled' \in [Servers -> View]
      /\ \A t \in Servers : polled'[t].prs = IF t = s THEN lists ELSE polled[t].prs
  BY <1>1, <1>2, <1>4
<1>6. TypeOK'
  BY <1>5 DEF PollPrs, files, editorVars, boundVars, IInv, TypeOK
<1>7. ListsInv'
  BY <1>3, <1>5 DEF PollPrs, ListsInv, IInv
<1> QED  BY <1>6, <1>7, EditorsRest DEF PollPrs, editorVars, IInv

LEMMA PublishKeeps == ASSUME IInv, NEW s \in Servers, Publish(s) PROVE IInv'
<1>1. view' = [view EXCEPT ![s] = polled[s]] /\ polled' = [polled EXCEPT ![s] = NoView]
  BY DEF Publish
<1>2. TypeOK'
  BY <1>1, NoViewIsView DEF Publish, files, editorVars, boundVars, IInv, TypeOK
<1>3. ListsInv'
  BY <1>1, NoViewIsView DEF ListsInv, IInv, TypeOK
<1> QED  BY <1>2, <1>3, EditorsRest DEF Publish, editorVars, IInv

\* One more of what failures bounds.
LEMMA FailuresAreCounted ==
    ASSUME IInv, failures < MaxFailures, failures' = failures + 1
    PROVE  failures' \in 0..MaxFailures
<1>1. failures \in 0..MaxFailures
  BY DEF IInv, TypeOK
<1> QED  BY <1>1, BoundAssumption

LEMMA ReadFailsKeeps == ASSUME IInv, NEW e \in Editors, ReadFails(e) PROVE IInv'
<1>1. request' = [request EXCEPT ![e] = request[e]] /\ request[e] \in Requests \cup {NoRequest}
  BY DEF ReadFails, IInv, TypeOK
<1>2. failures' \in 0..MaxFailures
  BY FailuresAreCounted DEF ReadFails
<1>3. ListsInv'
  BY DEF ReadFails, ListsInv, IInv
<1>4. CASE step[e] = "read labels"
  <2>1. /\ step' = [step EXCEPT ![e] = "write labels"]
        /\ copy' = [copy EXCEPT ![e] = NoLabels]
    BY <1>4 DEF ReadFails, Goto
  <2>2. EditorInv(e)'
    BY <1>1, <1>4, <2>1, EmptyFiles DEF EditorInv, IInv, TypeOK
  <2>3. TypeOK'
    BY <1>1, <1>2, <2>1, <2>2, EmptyFiles, EditorStep DEF ReadFails, files, IInv, TypeOK
  <2> QED  BY <1>1, <1>3, <2>1, <2>2, <2>3, EmptyFiles, EditorStep DEF IInv
<1>5. CASE step[e] = "read prs"
  <2>1. /\ step' = [step EXCEPT ![e] = "write prs"]
        /\ copy' = [copy EXCEPT ![e] = NoPrs]
    BY <1>5 DEF ReadFails, Goto
  <2>2. EditorInv(e)'
    BY <1>1, <1>5, <2>1, EmptyFiles DEF EditorInv, IInv, TypeOK
  <2>3. TypeOK'
    BY <1>1, <1>2, <2>1, <2>2, EmptyFiles, EditorStep DEF ReadFails, files, IInv, TypeOK
  <2> QED  BY <1>1, <1>3, <2>1, <2>2, <2>3, EmptyFiles, EditorStep DEF IInv
<1> QED  BY <1>4, <1>5 DEF ReadFails

LEMMA WriteFailsKeeps == ASSUME IInv, NEW e \in Editors, WriteFails(e) PROVE IInv'
<1>1. End(e)
  BY DEF WriteFails
<1>2. failures' \in 0..MaxFailures
  BY FailuresAreCounted DEF WriteFails
<1>3. TypeOK'
  BY <1>1, <1>2, EndIsRest, EditorStep DEF WriteFails, files, IInv, TypeOK
<1>4. ListsInv'
  BY DEF WriteFails, ListsInv, IInv
<1> QED  BY <1>1, <1>3, <1>4, EndIsRest, EditorStep DEF IInv

LEMMA PollReadFailsKeeps == ASSUME IInv, NEW s \in Servers, PollReadFails(s) PROVE IInv'
<1>1. failures' \in 0..MaxFailures
  BY FailuresAreCounted DEF PollReadFails
<1>2. TypeOK'
  BY <1>1 DEF PollReadFails, files, editorVars, IInv, TypeOK
<1>3. ListsInv'
  BY DEF PollReadFails, ListsInv, IInv
<1> QED  BY <1>2, <1>3, EditorsRest DEF PollReadFails, editorVars, IInv

LEMMA RestartKeeps == ASSUME IInv, NEW s \in Servers, Restart(s) PROVE IInv'
<1>1. failures' \in 0..MaxFailures
  BY FailuresAreCounted DEF Restart
<1>2. PICK new \in View : /\ \A h \in Watched : new.prs[h] \in Lists
                          /\ view' = [view EXCEPT ![s] = new]
  <2>1. PICK labels \in {labelFile, NoLabels}, prs \in {ReadPrs(prFile), NoPrs} :
            view' = [view EXCEPT ![s] = ViewOf(labels, prs)]
    BY DEF Restart
  <2>2. labels \in LabelFile /\ prs \in [Hosts -> Lists]
    BY ReadPrsIsLists, EmptyFiles DEF IInv, TypeOK
  <2> QED  BY <2>1, <2>2, ViewOfFiles
<1>3. polled' = [polled EXCEPT ![s] = NoView]
  BY DEF Restart
<1>4. ListsInv'
  BY <1>2, <1>3, NoViewIsView DEF ListsInv, IInv, TypeOK
<1>5. ASSUME NEW e \in Editors PROVE EditorInv(e)'
  <2>1. CASE Home[e] = s
    BY <2>1 DEF Restart, EditorInv
  <2>2. CASE Home[e] # s
    <3>1. step'[e] = step[e] /\ request'[e] = request[e] /\ copy'[e] = copy[e]
      BY <2>2 DEF Restart
    <3> QED  BY <3>1, Untouched DEF IInv
  <2> QED  BY <2>1, <2>2
<1>6. /\ step' \in [Editors -> {"idle", "read labels", "write labels", "read prs",
                                "write prs", "apply prs"}]
      /\ request' \in [Editors -> Requests \cup {NoRequest}]
      /\ copy' \in [Editors -> LabelFile \cup PrFile]
  BY EmptyFiles DEF Restart, IInv, TypeOK
<1>7. /\ poller' \in [Servers -> {"fetch", "prs", "publish"}]
      /\ view' \in [Servers -> View]
      /\ polled' \in [Servers -> View]
  BY <1>2, <1>3, NoViewIsView DEF Restart, IInv, TypeOK
<1>8. TypeOK'
  BY <1>1, <1>6, <1>7 DEF Restart, files, IInv, TypeOK
<1> QED  BY <1>4, <1>5, <1>8 DEF IInv

LEMMA HandEditKeeps == ASSUME IInv, HandEdit PROVE IInv'
<1>1. handEdits' \in 0..MaxHandEdits
  <2>1. handEdits \in 0..MaxHandEdits /\ handEdits < MaxHandEdits /\ handEdits' = handEdits + 1
    BY DEF HandEdit, IInv, TypeOK
  <2> QED  BY <2>1, BoundAssumption
<1>2. labelFile' \in LabelFile /\ prFile' \in PrFile
  BY HandAssumption DEF HandEdit, LabelFile, PrFile, IInv, TypeOK
<1>3. TypeOK'
  BY <1>1, <1>2 DEF HandEdit, editorVars, IInv, TypeOK
<1>4. ListsInv'
  BY DEF HandEdit, ListsInv, IInv
<1> QED  BY <1>3, <1>4, EditorsRest DEF HandEdit, editorVars, IInv

-----------------------------------------------------------------------------
(* The theorems *)

LEMMA NextKeeps == ASSUME IInv, Next PROVE IInv'
<1>1. ASSUME NEW e \in Editors,
             PostLabel(e) \/ PostPr(e) \/ Edit(e) \/ ReadFails(e) \/ WriteFails(e)
      PROVE  IInv'
  BY <1>1, PostLabelKeeps, PostPrKeeps, ReadLabelsKeeps, WriteLabelsKeeps, ReadPrFileKeeps,
     WritePrsKeeps, ApplyPrsKeeps, ReadFailsKeeps, WriteFailsKeeps DEF Edit
<1>2. ASSUME NEW s \in Servers, Poll(s) \/ PollReadFails(s) \/ Restart(s) PROVE IInv'
  BY <1>2, PollLabelsKeeps, PollPrsKeeps, PublishKeeps, PollReadFailsKeeps, RestartKeeps
     DEF Poll
<1> QED  BY <1>1, <1>2, HandEditKeeps DEF Next

LEMMA StutterKeeps == ASSUME IInv, UNCHANGED vars PROVE IInv'
<1>1. TypeOK'
  BY DEF vars, IInv, TypeOK
<1>2. ListsInv'
  BY DEF vars, ListsInv, IInv
<1> QED  BY <1>1, <1>2, EditorsRest DEF vars, IInv

\* The inductive invariant, for any number of servers, editors and hosts.
THEOREM Invariance == Spec => []IInv
<1>1. IInv /\ [Next]_vars => IInv'
  BY NextKeeps, StutterKeeps
<1> QED  BY InitEstablishes, <1>1, PTL DEF Spec

\* Every variable has its type, whatever the files hold and whatever fails.
THEOREM TypeCorrect == Spec => []TypeOK
<1>1. IInv => TypeOK
  BY DEF IInv
<1> QED  BY Invariance, <1>1, PTL

\* prs.rs: the limit bounds one card's row of chips. Whatever lists the user has written
\* to the file, and however edits, polls and restarts overlap, no view has more for a
\* host, nor one pull request twice.
THEOREM CardsStayBounded == Spec => []CardsAreBounded
<1>1. IInv => CardsAreBounded
  BY DEF IInv, ListsInv, Lists, CardsAreBounded
<1> QED  BY Invariance, <1>1, PTL

-----------------------------------------------------------------------------
(* The files implement Config *)

LEMMA InitIsConfig == Init => AsConfig!Init
<1> SUFFICES ASSUME Init PROVE AsConfig!Init
  OBVIOUS
<1>1. \A h \in Hosts : ReadList(NoPrs[h]) = <<>>
  BY EmptyList, ReadListOfList DEF NoPrs
<1>2. ReadPrs(prFile) = [h \in Hosts |-> <<>>]
  BY <1>1 DEF Init, ReadPrs
<1> QED  BY <1>2 DEF Init, NoLabels, AsConfig!Init

\* A label written over the file as it is: Config's SetLabel.
LEMMA WriteLabelsSets ==
    ASSUME IInv, NEW e \in Editors, WriteLabels(e), IsCurrent(e)
    PROVE  AsConfig!Next
<1> DEFINE h == request[e].host
           label == request[e].label
<1>1. h \in Hosts /\ label \in Labels \cup {NoLabel} /\ copy[e] = labelFile
  BY DEF WriteLabels, IsCurrent, EditorInv, LabelRequest, IInv
<1>2. labelFile' = [labelFile EXCEPT ![h] = label] /\ prFile' = prFile
  BY <1>1 DEF WriteLabels
<1> HIDE DEF h, label
<1>3. AsConfig!SetLabel(h, label)
  BY <1>2 DEF AsConfig!SetLabel
<1> QED  BY <1>1, <1>3 DEF AsConfig!Next

\* Config's operators on sequences are those of this module.
LEMMA SameOperators ==
    /\ \A list, url : AsConfig!Contains(list, url) = Contains(list, url)
    /\ \A list, url : AsConfig!RemoveFirst(list, url) = RemoveFirst(list, url)
<1>1. \A list, url : AsConfig!Contains(list, url) = Contains(list, url)
  BY DEF AsConfig!Contains, Contains
<1>2. ASSUME NEW list, NEW url PROVE AsConfig!RemoveFirst(list, url) = RemoveFirst(list, url)
  BY DEF AsConfig!RemoveFirst, AsConfig!SelectInSeq, AsConfig!Min, AsConfig!RemoveAt,
         RemoveFirst, SelectInSeq, Min, RemoveAt
<1> QED  BY <1>1, <1>2

\* A list written over the file as it is: Config's Attach or Detach, or no change.
LEMMA WritePrsEdits ==
    ASSUME IInv, NEW e \in Editors, WritePrs(e), IsCurrent(e)
    PROVE  AsConfig!Next \/ UNCHANGED <<labelFile, ReadPrs(prFile)>>
<1> DEFINE h == request[e].host
           url == request[e].url
           old == ReadPrs(prFile)
           new == [copy[e] EXCEPT ![h] = Changed(@, request[e])]
<1>1. step[e] = "write prs" /\ labelFile' = labelFile /\ prFile' = new
  BY DEF WritePrs
<1>2. copy[e] = old
  BY <1>1 DEF IsCurrent
<1>3. /\ request[e] \in PrRequest /\ h \in Hosts /\ url \in Urls
      /\ old \in [Hosts -> Lists]
      /\ new \in [Hosts -> Lists]
  BY <1>1, <1>2, ChangedIsLists DEF PrRequest
<1>4. ReadPrs(prFile') = new
  BY <1>1, <1>3, ReadListOfList DEF ReadPrs
<1>5. new = [old EXCEPT ![h] = Changed(old[h], request[e])]
  BY <1>2
<1>6. CASE request[e].kind = "remove"
  <2>1. ReadPrs(prFile') = [old EXCEPT ![h] = RemoveFirst(old[h], url)]
    BY <1>4, <1>5, <1>6 DEF Changed
  <2>2. AsConfig!Detach(h, url)
    BY <1>1, <2>1, SameOperators DEF AsConfig!Detach
  <2> QED  BY <1>3, <2>2 DEF AsConfig!Next
<1>7. CASE request[e].kind = "add" /\ Len(old[h]) < PrLimit /\ ~Contains(old[h], url)
  <2>1. ReadPrs(prFile') = [old EXCEPT ![h] = Append(old[h], url)]
    BY <1>4, <1>5, <1>7 DEF Changed, WithPr
  <2>2. AsConfig!Attach(h, url)
    BY <1>1, <1>7, <2>1, SameOperators DEF AsConfig!Attach
  <2> QED  BY <1>3, <2>2 DEF AsConfig!Next
<1>8. CASE request[e].kind = "add" /\ ~(Len(old[h]) < PrLimit /\ ~Contains(old[h], url))
  <2>1. Changed(old[h], request[e]) = old[h]
    BY <1>8 DEF Changed, WithPr
  <2>2. new = old
    BY <1>3, <1>5, <2>1
  <2> QED  BY <1>1, <1>4, <2>2
<1> QED  BY <1>3, <1>6, <1>7, <1>8 DEF PrRequest

\* labels.rs and prs.rs: whoever reads the files sees each edit from a dashboard as one
\* step that changes one host's entry, unless the editor's copy was out of date or the
\* user wrote the file by hand.
THEOREM FilesAreConfig == Spec => FilesImplementConfig
<1> DEFINE Same == UNCHANGED <<labelFile, ReadPrs(prFile)>>
           Over == \E e \in Editors : WritesOverOthers(e)
           Step == AsConfig!Next \/ Same \/ handEdits' # handEdits \/ Over
<1>1. ASSUME IInv, Next PROVE Step
  <2>1. UNCHANGED files => Same
    BY DEF files
  <2>2. ASSUME NEW e \in Editors,
               PostLabel(e) \/ PostPr(e) \/ ReadLabels(e) \/ ReadPrFile(e) \/ ApplyPrs(e)
                  \/ ReadFails(e) \/ WriteFails(e)
        PROVE  Step
    BY <2>1, <2>2 DEF PostLabel, PostPr, ReadLabels, ReadPrFile, ApplyPrs, ReadFails, WriteFails
  <2>3. ASSUME NEW e \in Editors, WriteLabels(e) PROVE Step
    <3>1. CASE IsCurrent(e)
      BY <2>3, <3>1, <1>1, WriteLabelsSets
    <3>2. CASE ~IsCurrent(e)
      <4>1. step[e] = "write labels" /\ step'[e] # step[e]
        BY <1>1, <2>3 DEF WriteLabels, End, Goto, IInv, TypeOK
      <4> QED  BY <3>2, <4>1 DEF WritesOverOthers
    <3> QED  BY <3>1, <3>2
  <2>4. ASSUME NEW e \in Editors, WritePrs(e) PROVE Step
    <3>1. CASE IsCurrent(e)
      BY <2>4, <3>1, <1>1, WritePrsEdits
    <3>2. CASE ~IsCurrent(e)
      <4>1. step[e] = "write prs" /\ step'[e] # step[e]
        BY <1>1, <2>4 DEF WritePrs, Goto, IInv, TypeOK
      <4> QED  BY <3>2, <4>1 DEF WritesOverOthers
    <3> QED  BY <3>1, <3>2
  <2>5. ASSUME NEW s \in Servers, Poll(s) \/ PollReadFails(s) \/ Restart(s) PROVE Step
    BY <2>1, <2>5 DEF Poll, PollLabels, PollPrs, Publish, PollReadFails, Restart
  <2>6. ASSUME HandEdit PROVE Step
    <3>1. handEdits \in 0..MaxHandEdits
      BY <1>1 DEF IInv, TypeOK
    <3>2. handEdits' = handEdits + 1
      BY <2>6 DEF HandEdit
    <3> QED  BY <3>1, <3>2
  <2> QED  BY <1>1, <2>2, <2>3, <2>4, <2>5, <2>6 DEF Next, Edit
<1>2. IInv /\ [Next]_vars => [Step]_vars
  BY <1>1
<1>3. Spec => [][Step]_vars
  BY Invariance, <1>2, PTL DEF Spec
<1> QED  BY InitIsConfig, <1>3, PTL DEF Spec, FilesImplementConfig
=============================================================================
