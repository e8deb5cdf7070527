--------------------------- MODULE JobMatchProofs ---------------------------
(***************************************************************************)
(* What a posting demands and what a resume earns against it, for every    *)
(* posting, answer of a provider and resume, and for every table of terms, *)
(* tools and signals: nothing below the end of the role counts, what is    *)
(* stated is demanded, a provider only adds, a rung is held by facts that  *)
(* affirm it, and a resume that says more stands no lower.                 *)
(***************************************************************************)
EXTENDS JobMatch, SequenceFolds

-----------------------------------------------------------------------------
(* Lists of lines and of terms *)

\* An element is added unless it is there.
LEMMA OneMore ==
    ASSUME NEW X, NEW s \in Seq(X), NEW x \in X
    PROVE  AddNew(s, x) \in Seq(X) /\ ToSet(AddNew(s, x)) = ToSet(s) \cup {x}
<1>1. Append(s, x) \in Seq(X) /\ ToSet(Append(s, x)) = ToSet(s) \cup {x} BY ElementsOfAppend
<1> QED BY <1>1 DEF AddNew

\* The lists that a merge goes through.
MergeRun(trace, X, one, two) ==
    /\ trace[0] = one
    /\ \A k \in 1..Len(two) : trace[k] = AddNew(trace[k - 1], two[k])
    /\ \A k \in 0..Len(two) : trace[k] \in Seq(X)
    /\ Merge(one, two) = trace[Len(two)]

\* A merge adds one element after the other (_dedupe_text).
LEMMA MergeStepwise ==
    ASSUME NEW X, NEW one \in Seq(X), NEW two \in Seq(X)
    PROVE  \E trace : MergeRun(trace, X, one, two)
<1> DEFINE n == Len(two)
           S == Seq(X)
           F == [p \in S \X (1..n) |-> AddNew(p[1], two[p[2]])]
           Rec(it) == [s \in SUBSET (1..n) |->
                         IF s = {} THEN one ELSE AddNew(it[s \ {Max(s)}], two[Max(s)])]
           it == CHOOSE i : i = Rec(i)
<1>1. n \in Nat /\ DOMAIN two = 1..n OBVIOUS
<1>2. one \in S OBVIOUS
<1>3. \A a \in S, i \in 1..n : AddNew(a, two[i]) \in S
  <2>1. \A i \in 1..n : two[i] \in X BY <1>1
  <2> QED BY <2>1 DEF AddNew
<1>4. Merge(one, two) = it[1..n]
  BY <1>1 DEF Merge, FoldLeft, MapThenFoldSet
<1> HIDE DEF n, S
<1>5. \A a \in S, i \in 1..n : F[<<a, i>>] = AddNew(a, two[i]) /\ F[<<a, i>>] \in S
  BY <1>3
<1> HIDE DEF F
<1>6. PICK w : Solves(w, n, S, one, F) BY <1>1, <1>2, <1>5, FoldExists
<1>7. w = Rec(w)
  <2>1. ASSUME NEW s \in SUBSET (1..n)
        PROVE  w[s] = IF s = {} THEN one ELSE AddNew(w[s \ {Max(s)}], two[Max(s)])
    <3>1. CASE s = {} BY <1>6, <3>1 DEF Solves
    <3>2. CASE s # {}
      <4>1. Max(s) \in 1..n /\ w[s \ {Max(s)}] \in S BY <1>1, <1>6, <3>2, SolvesTyped
      <4>2. w[s] = F[<<w[s \ {Max(s)}], Max(s)>>] BY <1>6, <3>2 DEF Solves
      <4> QED BY <1>5, <3>2, <4>1, <4>2
    <3> QED BY <3>1, <3>2
  <2>2. w = [s \in SUBSET (1..n) |-> w[s]] BY <1>6 DEF Solves
  <2> QED BY <2>1, <2>2
<1>8. it = Rec(it) BY <1>7
<1> HIDE DEF it
<1> DEFINE trace == [k \in 0..n |-> it[1..k]]
<1>9. trace[0] = one BY <1>1, <1>8, IntervalPrefixes
<1>10. ASSUME NEW k \in 1..n PROVE trace[k] = AddNew(trace[k - 1], two[k])
  <2>1. 1..k \in SUBSET (1..n) /\ 1..k # {} /\ Max(1..k) = k /\ (1..k) \ {k} = 1..(k - 1)
    BY <1>1, IntervalPrefixes
  <2>2. it[1..k] = AddNew(it[(1..k) \ {Max(1..k)}], two[Max(1..k)]) BY <1>8, <2>1
  <2>3. k \in 0..n /\ k - 1 \in 0..n BY <1>1
  <2> QED BY <2>1, <2>2, <2>3
<1>11. n \in 0..n BY <1>1
<1>12. trace[n] = it[1..n] BY <1>11
<1> HIDE DEF trace
<1> DEFINE P == {k \in 0..n : trace[k] \in S}
<1>13. 0 \in P BY <1>1, <1>2, <1>9
<1>14. ASSUME NEW k \in 1..n, k - 1 \in P PROVE k \in P
  BY <1>3, <1>10, <1>14
<1> HIDE DEF P
<1>15. 0..n \subseteq P BY <1>1, <1>13, <1>14, BoundedInduction
<1>16. \A k \in 0..n : trace[k] \in S BY <1>15 DEF P
<1>17. MergeRun(trace, X, one, two) BY <1>4, <1>9, <1>10, <1>12, <1>16 DEF MergeRun, n, S
<1> QED BY <1>17

\* A merge has the elements of both lists, those of the first one first.
LEMMA MergeGains ==
    ASSUME NEW X, NEW one \in Seq(X), NEW two \in Seq(X)
    PROVE  /\ Merge(one, two) \in Seq(X)
           /\ ToSet(Merge(one, two)) = ToSet(one) \cup ToSet(two)
           /\ IsPrefix(one, Merge(one, two))
<1> DEFINE n == Len(two)
<1>0. PICK trace : MergeRun(trace, X, one, two) BY MergeStepwise
<1>1. /\ trace[0] = one
      /\ \A k \in 1..n : trace[k] = AddNew(trace[k - 1], two[k])
      /\ \A k \in 0..n : trace[k] \in Seq(X)
      /\ Merge(one, two) = trace[n]
  BY <1>0 DEF MergeRun
<1>2. n \in Nat /\ DOMAIN two = 1..n /\ \A k \in 1..n : two[k] \in X OBVIOUS
<1> HIDE DEF n
<1> DEFINE upto(k) == {x \in X : \E j \in 1..k : two[j] = x}
           P == {k \in 0..n : ToSet(trace[k]) = ToSet(one) \cup upto(k) /\ IsPrefix(one, trace[k])}
<1>3. 0 \in P
  <2>1. upto(0) = {} OBVIOUS
  <2>2. IsPrefix(one, one) BY PrefixPointwise
  <2> QED BY <1>1, <1>2, <2>1, <2>2
<1>4. ASSUME NEW k \in 1..n, k - 1 \in P PROVE k \in P
  <2>1. k \in 0..n /\ k - 1 \in 0..n /\ k \in 1..k /\ \A j \in 1..k : j = k \/ j \in 1..(k - 1) BY <1>2
  <2>2. \A j \in 1..(k - 1) : j \in 1..k BY <1>2
  <2>3. trace[k] = AddNew(trace[k - 1], two[k]) /\ trace[k - 1] \in Seq(X) /\ trace[k] \in Seq(X)
    BY <1>1, <2>1
  <2>4. upto(k) = upto(k - 1) \cup {two[k]} BY <1>2, <2>1, <2>2
  <2> HIDE DEF upto
  <2>5. ToSet(trace[k - 1]) = ToSet(one) \cup upto(k - 1) /\ IsPrefix(one, trace[k - 1]) BY <1>4
  <2>6. CASE two[k] \in ToSet(trace[k - 1])
    <3>1. trace[k] = trace[k - 1] BY <2>3, <2>6 DEF AddNew
    <3> QED BY <2>1, <2>4, <2>5, <2>6, <3>1
  <2>7. CASE two[k] \notin ToSet(trace[k - 1])
    <3>1. trace[k] = Append(trace[k - 1], two[k]) BY <2>3, <2>7 DEF AddNew
    <3>2. ToSet(trace[k]) = ToSet(trace[k - 1]) \cup {two[k]} BY <1>2, <2>3, <3>1, ElementsOfAppend
    <3>3. IsPrefix(trace[k - 1], trace[k]) BY <1>2, <2>3, <3>1, PrefixOfAppend
    <3>4. IsPrefix(one, trace[k]) BY <2>3, <2>5, <3>3, PrefixTransitive
    <3> QED BY <2>1, <2>4, <2>5, <3>2, <3>4
  <2> QED BY <2>6, <2>7
<1> HIDE DEF P
<1>5. 0..n \subseteq P BY <1>2, <1>3, <1>4, BoundedInduction
<1>6. n \in P BY <1>2, <1>5
<1>7. ToSet(Merge(one, two)) = ToSet(one) \cup upto(n) /\ IsPrefix(one, Merge(one, two))
  BY <1>1, <1>6 DEF P
<1>8. upto(n) = ToSet(two) BY <1>2 DEF ToSet
<1>9. Merge(one, two) \in Seq(X) BY <1>1, <1>2
<1> QED BY <1>7, <1>8, <1>9

\* The elements at the first positions of a list.
Leading(s, limit) == {x \in ToSet(s) : \E i \in 1..Len(s) : i <= limit /\ s[i] = x}

\* The beginning of a list is a list of some of its elements.
LEMMA LimitedPart ==
    ASSUME NEW X, NEW s \in Seq(X), NEW limit \in Nat
    PROVE  /\ Limited(s, limit) \in Seq(X)
           /\ ToSet(Limited(s, limit)) = Leading(s, limit)
           /\ ToSet(Limited(s, limit)) \subseteq ToSet(s)
           /\ Len(s) <= limit => ToSet(Limited(s, limit)) = ToSet(s)
           /\ Len(Limited(s, limit)) <= limit
<1> DEFINE n == Len(s)
           m == IF n < limit THEN n ELSE limit
           t == SubSeq(s, 1, m)
<1>1. n \in Nat /\ DOMAIN s = 1..n /\ \A i \in 1..n : s[i] \in X OBVIOUS
<1>2. Limited(s, limit) = t BY DEF Limited
<1> HIDE DEF n
<1>3. m \in Nat /\ m <= limit /\ \A i : i \in 1..m <=> i \in 1..n /\ i <= limit BY <1>1
<1> HIDE DEF m
<1>4. \A i \in 1..m : s[i] \in X BY <1>1, <1>3
<1>5. t \in Seq(X) /\ Len(t) = m /\ \A i \in 1..m : t[i] = s[i] BY <1>3, <1>4, SubSeqProperties
<1> HIDE DEF t
<1>6. DOMAIN t = 1..m BY <1>5
<1>7. ToSet(t) = {x \in X : \E i \in 1..n : i <= limit /\ s[i] = x}
  BY <1>3, <1>4, <1>5, <1>6 DEF ToSet
<1>8. ToSet(s) = {x \in X : \E i \in 1..n : s[i] = x} BY <1>1 DEF ToSet
<1>9. n <= limit => \A i \in 1..n : i <= limit BY <1>1
<1>10. ToSet(t) = Leading(s, limit) BY <1>7, <1>8 DEF Leading, n
<1>11. ToSet(t) \subseteq ToSet(s) /\ (n <= limit => ToSet(t) = ToSet(s)) BY <1>7, <1>8, <1>9
<1> QED BY <1>2, <1>3, <1>5, <1>10, <1>11 DEF n

\* The beginning of a list that comes first in a merge is not pushed out of it,
\* repeated or not.
LEMMA FirstListStays ==
    ASSUME NEW X, NEW one \in Seq(X), NEW two \in Seq(X), NEW limit \in Nat
    PROVE  /\ MergedList(one, two, limit) \in Seq(X)
           /\ ToSet(MergedList(one, two, limit)) \subseteq ToSet(one) \cup ToSet(two)
           /\ ToSet(Limited(one, limit)) \subseteq ToSet(MergedList(one, two, limit))
<1> DEFINE n == Len(one)
           none == <<>>
           m == Merge(none, one)
           all == Merge(m, two)
<1>0. ToSet(none) = {} /\ Len(none) = 0 BY DEF ToSet
<1>15. none \in Seq(X) OBVIOUS
<1>5. MergedList(one, two, limit) = Limited(all, limit) BY DEF MergedList
<1> HIDE DEF none
<1>16. PICK trace : MergeRun(trace, X, none, one) BY <1>15, MergeStepwise
<1>1. /\ trace[0] = none
      /\ \A k \in 1..n : trace[k] = AddNew(trace[k - 1], one[k])
      /\ \A k \in 0..n : trace[k] \in Seq(X)
      /\ m = trace[n]
  BY <1>16 DEF MergeRun
<1>2. n \in Nat /\ DOMAIN one = 1..n /\ \A k \in 1..n : one[k] \in X OBVIOUS
<1>3. m \in Seq(X) /\ ToSet(m) = ToSet(one)
  <2>1. m \in Seq(X) /\ ToSet(m) = ToSet(none) \cup ToSet(one) BY <1>15, MergeGains
  <2> QED BY <1>0, <2>1
<1>4. all \in Seq(X) /\ ToSet(all) = ToSet(m) \cup ToSet(two) /\ IsPrefix(m, all)
  <2> HIDE DEF m
  <2> QED BY <1>3, MergeGains
<1> HIDE DEF n, m, all
<1> DEFINE early(k, i) == \E j \in 1..i : j <= Len(trace[k]) /\ trace[k][j] = one[i]
           P == {k \in 0..n : Len(trace[k]) <= k /\ \A i \in 1..k : early(k, i)}
<1>6. 0 \in P
  <2>1. Len(trace[0]) = 0 BY <1>0, <1>1
  <2> QED BY <1>2, <2>1
<1>7. ASSUME NEW k \in 1..n, k - 1 \in P PROVE k \in P
  <2> DEFINE old == trace[k - 1]
             new == trace[k]
  <2>1. k \in Nat /\ k - 1 \in Nat /\ k \in 0..n /\ k - 1 \in 0..n /\ \A i \in 1..k : i = k \/ i \in 1..(k - 1)
    BY <1>2
  <2>2. old \in Seq(X) /\ new \in Seq(X) /\ new = AddNew(old, one[k]) BY <1>1, <2>1
  <2>3. Len(old) <= k - 1 /\ \A i \in 1..(k - 1) : \E j \in 1..i : j <= Len(old) /\ old[j] = one[i] BY <1>7
  <2> HIDE DEF old, new
  <2>4. Len(old) \in Nat /\ DOMAIN old = 1..Len(old) BY <2>2
  <2>5. CASE one[k] \in ToSet(old)
    <3>1. new = old BY <2>2, <2>5 DEF AddNew
    <3>2. PICK j \in 1..Len(old) : old[j] = one[k] BY <2>4, <2>5 DEF ToSet
    <3>3. j \in 1..k /\ j <= Len(old) BY <2>1, <2>3, <2>4
    <3>4. \A i \in 1..k : \E h \in 1..i : h <= Len(new) /\ new[h] = one[i]
      BY <2>1, <2>3, <3>1, <3>2, <3>3
    <3>5. Len(new) <= k BY <2>1, <2>3, <2>4, <3>1
    <3> QED BY <2>1, <3>4, <3>5 DEF new
  <2>6. CASE one[k] \notin ToSet(old)
    <3>1. new = Append(old, one[k]) BY <2>2, <2>6 DEF AddNew
    <3>2. /\ Len(new) = Len(old) + 1 /\ new[Len(old) + 1] = one[k]
          /\ \A j \in 1..Len(old) : new[j] = old[j]
      BY <1>2, <2>2, <3>1
    <3>3. Len(old) + 1 \in 1..k /\ Len(new) <= k BY <2>1, <2>3, <2>4, <3>2
    <3>4. ASSUME NEW i \in 1..(k - 1) PROVE \E h \in 1..i : h <= Len(new) /\ new[h] = one[i]
      <4>1. PICK h \in 1..i : h <= Len(old) /\ old[h] = one[i] BY <2>3
      <4>2. h \in 1..Len(old) /\ h <= Len(new) BY <2>4, <3>2, <4>1
      <4> QED BY <3>2, <4>1, <4>2
    <3>5. \E h \in 1..k : h <= Len(new) /\ new[h] = one[k] BY <2>4, <3>2, <3>3
    <3>6. \A i \in 1..k : \E h \in 1..i : h <= Len(new) /\ new[h] = one[i] BY <2>1, <3>4, <3>5
    <3> QED BY <2>1, <3>3, <3>6 DEF new
  <2> QED BY <2>5, <2>6
<1> HIDE DEF P
<1>8. 0..n \subseteq P BY <1>2, <1>6, <1>7, BoundedInduction
<1>9. n \in P BY <1>2, <1>8
<1>10. \A i \in 1..n : \E j \in 1..i : j <= Len(m) /\ m[j] = one[i] BY <1>1, <1>9 DEF P
<1>11. Len(m) <= Len(all) /\ \A j \in 1..Len(m) : m[j] = all[j] BY <1>3, <1>4, PrefixPointwise
<1>12. ASSUME NEW i \in 1..n, i <= limit
       PROVE  \E j \in 1..Len(all) : j <= limit /\ all[j] = one[i]
  <2>1. PICK j \in 1..i : j <= Len(m) /\ m[j] = one[i] BY <1>10
  <2>2. Len(m) \in Nat /\ Len(all) \in Nat BY <1>3, <1>4
  <2>3. j \in 1..Len(m) /\ j \in 1..Len(all) /\ j <= limit BY <1>2, <1>11, <1>12, <2>1, <2>2
  <2> QED BY <1>11, <2>1, <2>3
<1>13. ToSet(Limited(one, limit)) \subseteq ToSet(Limited(all, limit))
  <2>1. ToSet(Limited(one, limit)) = Leading(one, limit) BY LimitedPart
  <2>2. ToSet(Limited(all, limit)) = Leading(all, limit) BY <1>4, LimitedPart
  <2>3. DOMAIN all = 1..Len(all) BY <1>4
  <2>4. \A x \in Leading(one, limit) : \E i \in 1..n : i <= limit /\ one[i] = x BY DEF Leading, n
  <2>5. \A x : (\E j \in 1..Len(all) : j <= limit /\ all[j] = x) => x \in Leading(all, limit)
    BY <2>3 DEF Leading, ToSet
  <2> QED BY <1>12, <2>1, <2>2, <2>4, <2>5
<1>14. Limited(all, limit) \in Seq(X) /\ ToSet(Limited(all, limit)) \subseteq ToSet(one) \cup ToSet(two)
  BY <1>3, <1>4, LimitedPart
<1> QED BY <1>5, <1>13, <1>14

-----------------------------------------------------------------------------
(* The view of a posting ends where the role does *)

Opened(lines, i) == \E k \in 1..i : OpensRole(Lines[lines[k]])

Closed(lines, i) ==
    \E j, k \in 1..i : k <= j /\ OpensRole(Lines[lines[k]]) /\ ClosesRole(Lines[lines[j]])

\* The lines that stand before the end of the role.
InRole(lines) == {n \in ToSet(lines) : \E i \in DOMAIN lines : lines[i] = n /\ ~Closed(lines, i)}

Views ==
    [roleSeen : BOOLEAN, stopped : BOOLEAN, target : Seq(DOMAIN Lines), scoring : Seq(DOMAIN Lines),
     domain : {None} \cup {Lines[n].name : n \in DOMAIN Lines}]

\* One turn of the loop of sanitize_jd_for_parsing, field by field.
LEMMA ViewWithTyped ==
    ASSUME NEW view \in Views, NEW n \in DOMAIN Lines
    PROVE  /\ ViewWith(view, n) \in Views
           /\ ViewWith(view, n).roleSeen <=> view.roleSeen \/ OpensRole(Lines[n])
           /\ ViewWith(view, n).stopped <=>
                 view.stopped \/ (ViewWith(view, n).roleSeen /\ ClosesRole(Lines[n]))
           /\ ViewWith(view, n).target =
                 IF ~Lines[n].contact /\ ~ViewWith(view, n).stopped THEN AddNew(view.target, n) ELSE view.target
           /\ \/ ViewWith(view, n).scoring = view.scoring
              \/ /\ ViewWith(view, n).scoring = AddNew(view.scoring, n)
                 /\ ViewWith(view, n).target = AddNew(view.target, n)
<1> DEFINE l == Lines[n]
           seen == view.roleSeen \/ OpensRole(l)
           stop == view.stopped \/ (seen /\ ClosesRole(l))
           open == ~l.contact /\ ~stop
           target == IF open THEN AddNew(view.target, n) ELSE view.target
           scoring == IF open /\ ~OnlyContext(l) THEN AddNew(view.scoring, n) ELSE view.scoring
           domain == IF view.domain = None /\ l.company = "domain" THEN l.name ELSE view.domain
<1>1. ViewWith(view, n) =
        [roleSeen |-> seen, stopped |-> stop, target |-> target, scoring |-> scoring, domain |-> domain]
  BY DEF ViewWith
<1>2. /\ view.roleSeen \in BOOLEAN /\ view.stopped \in BOOLEAN
      /\ view.target \in Seq(DOMAIN Lines) /\ view.scoring \in Seq(DOMAIN Lines)
      /\ view.domain \in {None} \cup {Lines[m].name : m \in DOMAIN Lines}
  BY DEF Views
<1>3. OpensRole(l) \in BOOLEAN /\ ClosesRole(l) \in BOOLEAN
  BY PostingAssumption DEF OpensRole, ClosesRole
<1>4. AddNew(view.target, n) \in Seq(DOMAIN Lines) /\ AddNew(view.scoring, n) \in Seq(DOMAIN Lines)
  BY <1>2, OneMore
<1>5. target \in Seq(DOMAIN Lines) /\ scoring \in Seq(DOMAIN Lines) BY <1>2, <1>4
<1>6. domain \in {None} \cup {Lines[m].name : m \in DOMAIN Lines} BY <1>2
<1>7. seen \in BOOLEAN /\ stop \in BOOLEAN BY <1>2, <1>3
<1>8. /\ target = IF ~Lines[n].contact /\ ~stop THEN AddNew(view.target, n) ELSE view.target
      /\ scoring = view.scoring \/ (scoring = AddNew(view.scoring, n) /\ target = AddNew(view.target, n))
  OBVIOUS
<1>9. (seen <=> view.roleSeen \/ OpensRole(Lines[n])) /\ (stop <=> view.stopped \/ (seen /\ ClosesRole(Lines[n])))
  OBVIOUS
<1> HIDE DEF seen, stop, target, scoring, domain
<1>10. ViewWith(view, n) \in Views BY <1>1, <1>5, <1>6, <1>7 DEF Views
<1>11. /\ ViewWith(view, n).roleSeen = seen /\ ViewWith(view, n).stopped = stop
       /\ ViewWith(view, n).target = target /\ ViewWith(view, n).scoring = scoring
  BY <1>1
<1> QED BY <1>8, <1>9, <1>10, <1>11

\* The views that the loop of sanitize_jd_for_parsing goes through.
ViewRun(trace, lines) ==
    /\ trace[0] = EmptyView
    /\ \A k \in 1..Len(lines) : trace[k] = ViewWith(trace[k - 1], lines[k])
    /\ \A k \in 0..Len(lines) : trace[k] \in Views
    /\ ViewOf(lines) = trace[Len(lines)]

\* The view is read line by line (sanitize_jd_for_parsing).
LEMMA ViewStepwise ==
    ASSUME NEW lines \in Seq(DOMAIN Lines)
    PROVE  \E trace : ViewRun(trace, lines)
<1> DEFINE n == Len(lines)
           S == Views
           F == [p \in S \X (1..n) |-> ViewWith(p[1], lines[p[2]])]
           Rec(it) == [s \in SUBSET (1..n) |->
                         IF s = {} THEN EmptyView ELSE ViewWith(it[s \ {Max(s)}], lines[Max(s)])]
           it == CHOOSE i : i = Rec(i)
<1>1. n \in Nat /\ DOMAIN lines = 1..n OBVIOUS
<1>2. EmptyView \in S BY DEF EmptyView, Views
<1>3. \A a \in S, i \in 1..n : ViewWith(a, lines[i]) \in S
  <2>1. \A i \in 1..n : lines[i] \in DOMAIN Lines BY <1>1
  <2> QED BY <2>1, ViewWithTyped
<1>4. ViewOf(lines) = it[1..n]
  BY <1>1 DEF ViewOf, FoldLeft, MapThenFoldSet
<1> HIDE DEF n, S
<1>5. \A a \in S, i \in 1..n : F[<<a, i>>] = ViewWith(a, lines[i]) /\ F[<<a, i>>] \in S
  BY <1>3
<1> HIDE DEF F
<1>6. PICK w : Solves(w, n, S, EmptyView, F) BY <1>1, <1>2, <1>5, FoldExists
<1>7. w = Rec(w)
  <2>1. ASSUME NEW s \in SUBSET (1..n)
        PROVE  w[s] = IF s = {} THEN EmptyView ELSE ViewWith(w[s \ {Max(s)}], lines[Max(s)])
    <3>1. CASE s = {} BY <1>6, <3>1 DEF Solves
    <3>2. CASE s # {}
      <4>1. Max(s) \in 1..n /\ w[s \ {Max(s)}] \in S BY <1>1, <1>6, <3>2, SolvesTyped
      <4>2. w[s] = F[<<w[s \ {Max(s)}], Max(s)>>] BY <1>6, <3>2 DEF Solves
      <4> QED BY <1>5, <3>2, <4>1, <4>2
    <3> QED BY <3>1, <3>2
  <2>2. w = [s \in SUBSET (1..n) |-> w[s]] BY <1>6 DEF Solves
  <2> QED BY <2>1, <2>2
<1>8. it = Rec(it) BY <1>7
<1> HIDE DEF it
<1> DEFINE trace == [k \in 0..n |-> it[1..k]]
<1>9. trace[0] = EmptyView BY <1>1, <1>8, IntervalPrefixes
<1>10. ASSUME NEW k \in 1..n PROVE trace[k] = ViewWith(trace[k - 1], lines[k])
  <2>1. 1..k \in SUBSET (1..n) /\ 1..k # {} /\ Max(1..k) = k /\ (1..k) \ {k} = 1..(k - 1)
    BY <1>1, IntervalPrefixes
  <2>2. it[1..k] = ViewWith(it[(1..k) \ {Max(1..k)}], lines[Max(1..k)]) BY <1>8, <2>1
  <2>3. k \in 0..n /\ k - 1 \in 0..n BY <1>1
  <2> QED BY <2>1, <2>2, <2>3
<1>11. n \in 0..n BY <1>1
<1>12. trace[n] = it[1..n] BY <1>11
<1> HIDE DEF trace
<1> DEFINE P == {k \in 0..n : trace[k] \in S}
<1>13. 0 \in P BY <1>1, <1>2, <1>9
<1>14. ASSUME NEW k \in 1..n, k - 1 \in P PROVE k \in P
  BY <1>3, <1>10, <1>14
<1> HIDE DEF P
<1>15. 0..n \subseteq P BY <1>1, <1>13, <1>14, BoundedInduction
<1>16. \A k \in 0..n : trace[k] \in S BY <1>15 DEF P
<1>17. ViewRun(trace, lines) BY <1>4, <1>9, <1>10, <1>12, <1>16 DEF ViewRun, n, S
<1> QED BY <1>17

\* The role is closed by the lines up to the one before, or by this one.
LEMMA ClosedByStep ==
    ASSUME NEW lines, NEW k \in Nat \ {0}
    PROVE  /\ Opened(lines, k) <=> Opened(lines, k - 1) \/ OpensRole(Lines[lines[k]])
           /\ Closed(lines, k) <=>
                 Closed(lines, k - 1) \/ (Opened(lines, k) /\ ClosesRole(Lines[lines[k]]))
<1>1. /\ k \in 1..k /\ \A j \in 1..k : j = k \/ j \in 1..(k - 1)
      /\ \A j \in 1..(k - 1) : j \in 1..k
      /\ \A j \in 1..k : j <= k
  OBVIOUS
<1>2. \A j \in 1..(k - 1) : ~(k <= j) OBVIOUS
<1>3. Opened(lines, k) <=> Opened(lines, k - 1) \/ OpensRole(Lines[lines[k]])
  BY <1>1 DEF Opened
<1>4. ASSUME Closed(lines, k) PROVE Closed(lines, k - 1) \/ (Opened(lines, k) /\ ClosesRole(Lines[lines[k]]))
  <2>1. PICK j \in 1..k, h \in 1..k :
          h <= j /\ OpensRole(Lines[lines[h]]) /\ ClosesRole(Lines[lines[j]])
    BY <1>4 DEF Closed
  <2>2. CASE j = k BY <2>1, <2>2 DEF Opened
  <2>3. CASE j \in 1..(k - 1)
    <3>1. h \in 1..(k - 1) BY <2>1, <2>3
    <3> QED BY <2>1, <2>3, <3>1 DEF Closed
  <2> QED BY <1>1, <2>2, <2>3
<1>5. ASSUME Closed(lines, k - 1) PROVE Closed(lines, k) BY <1>1, <1>5 DEF Closed
<1>6. ASSUME Opened(lines, k), ClosesRole(Lines[lines[k]]) PROVE Closed(lines, k)
  BY <1>1, <1>6 DEF Opened, Closed
<1> QED BY <1>3, <1>4, <1>5, <1>6

\* What may be read of a posting, and what is scored of that, stands before the
\* end of the role.
LEMMA ViewInRole ==
    ASSUME NEW lines \in Seq(DOMAIN Lines)
    PROVE  /\ ViewOf(lines) \in Views
           /\ ToSet(ViewOf(lines).target) \subseteq InRole(lines)
           /\ ToSet(ViewOf(lines).scoring) \subseteq ToSet(ViewOf(lines).target)
<1> DEFINE n == Len(lines)
<1>1. PICK trace : ViewRun(trace, lines) BY ViewStepwise
<1>2. /\ trace[0] = EmptyView
      /\ \A k \in 1..n : trace[k] = ViewWith(trace[k - 1], lines[k])
      /\ \A k \in 0..n : trace[k] \in Views
      /\ ViewOf(lines) = trace[n]
  BY <1>1 DEF ViewRun
<1>3. n \in Nat /\ DOMAIN lines = 1..n /\ \A k \in 1..n : lines[k] \in DOMAIN Lines OBVIOUS
<1>4. \A x : x \in InRole(lines) <=> \E i \in 1..n : lines[i] = x /\ ~Closed(lines, i)
  BY <1>3 DEF InRole, ToSet
<1> HIDE DEF n
<1> DEFINE open(k) == {x \in DOMAIN Lines : \E i \in 1..k : lines[i] = x /\ ~Closed(lines, i)}
           P == {k \in 0..n : /\ trace[k].roleSeen <=> Opened(lines, k)
                              /\ trace[k].stopped <=> Closed(lines, k)
                              /\ ToSet(trace[k].target) \subseteq open(k)
                              /\ ToSet(trace[k].scoring) \subseteq ToSet(trace[k].target)}
<1>5. 0 \in P
  <2>1. /\ trace[0].roleSeen = FALSE /\ trace[0].stopped = FALSE
        /\ ToSet(trace[0].target) = {} /\ ToSet(trace[0].scoring) = {}
    BY <1>2 DEF EmptyView, ToSet
  <2>2. ~Opened(lines, 0) /\ ~Closed(lines, 0) BY DEF Opened, Closed
  <2> QED BY <1>3, <2>1, <2>2
<1>6. ASSUME NEW k \in 1..n, k - 1 \in P PROVE k \in P
  <2> DEFINE old == trace[k - 1]
             new == trace[k]
             x == lines[k]
  <2>1. k \in Nat \ {0} /\ k \in 0..n /\ k - 1 \in 0..n /\ k \in 1..k /\ \A i \in 1..(k - 1) : i \in 1..k
    BY <1>3
  <2>2. old \in Views /\ new \in Views /\ new = ViewWith(old, x) /\ x \in DOMAIN Lines
    BY <1>2, <1>3, <2>1
  <2>3. /\ old.roleSeen <=> Opened(lines, k - 1)
        /\ old.stopped <=> Closed(lines, k - 1)
        /\ ToSet(old.target) \subseteq open(k - 1)
        /\ ToSet(old.scoring) \subseteq ToSet(old.target)
    BY <1>6
  <2> HIDE DEF old, new, x
  <2>4. /\ new.roleSeen <=> old.roleSeen \/ OpensRole(Lines[x])
        /\ new.stopped <=> old.stopped \/ (new.roleSeen /\ ClosesRole(Lines[x]))
        /\ new.target = IF ~Lines[x].contact /\ ~new.stopped THEN AddNew(old.target, x) ELSE old.target
        /\ \/ new.scoring = old.scoring
           \/ new.scoring = AddNew(old.scoring, x) /\ new.target = AddNew(old.target, x)
    BY <2>2, ViewWithTyped
  <2>5. (new.roleSeen <=> Opened(lines, k)) /\ (new.stopped <=> Closed(lines, k))
    BY <2>1, <2>3, <2>4, ClosedByStep DEF x
  <2>6. old.target \in Seq(DOMAIN Lines) /\ old.scoring \in Seq(DOMAIN Lines) BY <2>2 DEF Views
  <2>7. /\ ToSet(AddNew(old.target, x)) = ToSet(old.target) \cup {x}
        /\ ToSet(AddNew(old.scoring, x)) = ToSet(old.scoring) \cup {x}
    BY <2>2, <2>6, OneMore
  <2>8. open(k - 1) \subseteq open(k) BY <2>1
  <2>9. ~Closed(lines, k) => x \in open(k) BY <2>1, <2>2 DEF x
  <2> HIDE DEF open
  <2>10. ToSet(new.target) \subseteq open(k) BY <2>3, <2>4, <2>5, <2>7, <2>8, <2>9
  <2>11. ToSet(new.scoring) \subseteq ToSet(new.target)
    <3>1. ToSet(old.target) \subseteq ToSet(new.target) BY <2>4, <2>7
    <3> QED BY <2>3, <2>4, <2>7, <3>1
  <2> QED BY <2>1, <2>5, <2>10, <2>11 DEF new
<1> HIDE DEF P
<1>7. 0..n \subseteq P BY <1>3, <1>5, <1>6, BoundedInduction
<1>8. n \in P BY <1>3, <1>7
<1>9. ToSet(ViewOf(lines).target) \subseteq open(n) /\ ToSet(ViewOf(lines).scoring) \subseteq ToSet(ViewOf(lines).target)
  BY <1>2, <1>8 DEF P
<1>10. open(n) \subseteq InRole(lines) BY <1>4
<1>11. ViewOf(lines) \in Views BY <1>2, <1>3
<1> QED BY <1>9, <1>10, <1>11

-----------------------------------------------------------------------------
(* Lines that may state a requirement *)

\* The first line of a list is one of it.
LEMMA FirstOfList ==
    ASSUME NEW X, NEW s \in Seq(X)
    PROVE  First(s) \in ToSet(s) \cup {0} /\ (s # <<>> => Head(s) \in ToSet(s))
<1>1. CASE s = <<>> BY <1>1 DEF First
<1>2. CASE s # <<>>
  <2>1. 1 \in DOMAIN s /\ Head(s) = s[1] BY <1>2
  <2>2. Head(s) \in ToSet(s) BY <2>1 DEF ToSet
  <2>3. First(s) = Head(s) BY <1>2 DEF First
  <2> QED BY <2>2, <2>3
<1> QED BY <1>1, <1>2

\* The title stands in a line that may be read (_extract_title).
LEMMA TitleIsRead ==
    ASSUME NEW view, NEW X, view.target \in Seq(X)
    PROVE  TitleLine(view) \in ToSet(view.target) \cup {0}
<1> DEFINE named(how) == Only(view.target, {n \in ToSet(view.target) : Lines[n].title = how})
           headings == named("heading")
           best == {n \in ToSet(headings) : Lines[n].rank = Min({Lines[m].rank : m \in ToSet(headings)})}
<1>1. TitleLine(view) = IF named("label") # <<>> THEN First(named("label"))
                        ELSE IF headings # <<>> THEN First(Only(headings, best))
                        ELSE First(named("announced"))
  BY DEF TitleLine
<1>2. \A how : named(how) \in Seq(X) /\ ToSet(named(how)) \subseteq ToSet(view.target)
  BY OnlyFromSequence
<1>3. headings \in Seq(X) /\ ToSet(headings) \subseteq ToSet(view.target) BY <1>2
<1> HIDE DEF headings, best
<1>4. Only(headings, best) \in Seq(X) /\ ToSet(Only(headings, best)) \subseteq ToSet(view.target)
  BY <1>3, OnlyFromSequence
<1>5. \A how : First(named(how)) \in ToSet(view.target) \cup {0} BY <1>2, FirstOfList
<1>6. First(Only(headings, best)) \in ToSet(view.target) \cup {0} BY <1>4, FirstOfList
<1> HIDE DEF named
<1> QED BY <1>1, <1>5, <1>6

SectionNames == {"required", "preferred", "responsibility", "boilerplate", "other"}

Segments(X) == [active : SectionNames, found : Seq([line : X, section : SectionNames])]

\* One turn of the loop of _segment_sections.
LEMMA SegmentTyped ==
    ASSUME NEW X, NEW acc \in Segments(X), NEW n \in X
    PROVE  Segment(acc, n) \in Segments(X)
<1> DEFINE l == Lines[n]
           found(section) == Append(acc.found, [line |-> n, section |-> section])
<1>1. acc.active \in SectionNames /\ acc.found \in Seq([line : X, section : SectionNames]) BY DEF Segments
<1>2. \A section \in SectionNames : found(section) \in Seq([line : X, section : SectionNames])
  BY <1>1
<1>3. Inferred(l, acc.active) \in SectionNames BY <1>1 DEF Inferred, SectionNames
<1>4. l.heading \in DOMAIN SectionOf => SectionOf[l.heading] \in SectionNames BY DEF SectionOf, SectionNames
<1>5. acc = [active |-> acc.active, found |-> acc.found] BY DEF Segments
<1> DEFINE set(a, f) == [active |-> a, found |-> f]
<1>6. \A a \in SectionNames, f \in Seq([line : X, section : SectionNames]) : set(a, f) \in Segments(X)
  BY DEF Segments
<1>7. CASE l.heading \in DOMAIN SectionOf
  <2>1. Segment(acc, n) = set(SectionOf[l.heading], IF l.inline THEN found(SectionOf[l.heading]) ELSE acc.found)
    BY <1>7 DEF Segment
  <2> HIDE DEF set, found
  <2> QED BY <1>1, <1>2, <1>4, <1>6, <1>7, <2>1
<1>8. CASE l.heading \notin DOMAIN SectionOf /\ (l.boilerplate \/ l.heading # None)
  <2>1. Segment(acc, n) = set("boilerplate", acc.found) \/ Segment(acc, n) = set("other", acc.found)
    BY <1>5, <1>8 DEF Segment
  <2>2. "boilerplate" \in SectionNames /\ "other" \in SectionNames BY DEF SectionNames
  <2> HIDE DEF set, found
  <2> QED BY <1>1, <1>6, <2>1, <2>2
<1>9. CASE l.heading \notin DOMAIN SectionOf /\ ~l.boilerplate /\ l.heading = None
  <2>1. Segment(acc, n) = set(acc.active, found(Inferred(l, acc.active))) BY <1>5, <1>9 DEF Segment
  <2> HIDE DEF set, found
  <2> QED BY <1>1, <1>2, <1>3, <1>6, <2>1
<1> QED BY <1>7, <1>8, <1>9

\* What the loop of _segment_sections goes through.
SegmentRun(trace, X, scoring) ==
    /\ trace[0] = [active |-> "other", found |-> <<>>]
    /\ \A k \in 1..Len(scoring) : trace[k] = Segment(trace[k - 1], scoring[k])
    /\ \A k \in 0..Len(scoring) : trace[k] \in Segments(X)
    /\ FoldLeft(Segment, [active |-> "other", found |-> <<>>], scoring) = trace[Len(scoring)]

\* The scoring lines are cut into sections one after the other (_segment_sections).
LEMMA SegmentStepwise ==
    ASSUME NEW X, NEW scoring \in Seq(X)
    PROVE  \E trace : SegmentRun(trace, X, scoring)
<1> DEFINE n == Len(scoring)
           S == Segments(X)
           F == [p \in S \X (1..n) |-> Segment(p[1], scoring[p[2]])]
           Rec(it) == [s \in SUBSET (1..n) |->
                         IF s = {} THEN [active |-> "other", found |-> <<>>] ELSE Segment(it[s \ {Max(s)}], scoring[Max(s)])]
           it == CHOOSE i : i = Rec(i)
<1>1. n \in Nat /\ DOMAIN scoring = 1..n OBVIOUS
<1>2. [active |-> "other", found |-> <<>>] \in S BY DEF Segments, SectionNames
<1>3. \A a \in S, i \in 1..n : Segment(a, scoring[i]) \in S
  <2>1. \A i \in 1..n : scoring[i] \in X BY <1>1
  <2> QED BY <2>1, SegmentTyped
<1>4. FoldLeft(Segment, [active |-> "other", found |-> <<>>], scoring) = it[1..n]
  BY <1>1 DEF FoldLeft, MapThenFoldSet
<1> HIDE DEF n, S
<1>5. \A a \in S, i \in 1..n : F[<<a, i>>] = Segment(a, scoring[i]) /\ F[<<a, i>>] \in S
  BY <1>3
<1> HIDE DEF F
<1>6. PICK w : Solves(w, n, S, [active |-> "other", found |-> <<>>], F) BY <1>1, <1>2, <1>5, FoldExists
<1>7. w = Rec(w)
  <2>1. ASSUME NEW s \in SUBSET (1..n)
        PROVE  w[s] = IF s = {} THEN [active |-> "other", found |-> <<>>] ELSE Segment(w[s \ {Max(s)}], scoring[Max(s)])
    <3>1. CASE s = {} BY <1>6, <3>1 DEF Solves
    <3>2. CASE s # {}
      <4>1. Max(s) \in 1..n /\ w[s \ {Max(s)}] \in S BY <1>1, <1>6, <3>2, SolvesTyped
      <4>2. w[s] = F[<<w[s \ {Max(s)}], Max(s)>>] BY <1>6, <3>2 DEF Solves
      <4> QED BY <1>5, <3>2, <4>1, <4>2
    <3> QED BY <3>1, <3>2
  <2>2. w = [s \in SUBSET (1..n) |-> w[s]] BY <1>6 DEF Solves
  <2> QED BY <2>1, <2>2
<1>8. it = Rec(it) BY <1>7
<1> HIDE DEF it
<1> DEFINE trace == [k \in 0..n |-> it[1..k]]
<1>9. trace[0] = [active |-> "other", found |-> <<>>] BY <1>1, <1>8, IntervalPrefixes
<1>10. ASSUME NEW k \in 1..n PROVE trace[k] = Segment(trace[k - 1], scoring[k])
  <2>1. 1..k \in SUBSET (1..n) /\ 1..k # {} /\ Max(1..k) = k /\ (1..k) \ {k} = 1..(k - 1)
    BY <1>1, IntervalPrefixes
  <2>2. it[1..k] = Segment(it[(1..k) \ {Max(1..k)}], scoring[Max(1..k)]) BY <1>8, <2>1
  <2>3. k \in 0..n /\ k - 1 \in 0..n BY <1>1
  <2> QED BY <2>1, <2>2, <2>3
<1>11. n \in 0..n BY <1>1
<1>12. trace[n] = it[1..n] BY <1>11
<1> HIDE DEF trace
<1> DEFINE P == {k \in 0..n : trace[k] \in S}
<1>13. 0 \in P BY <1>1, <1>2, <1>9
<1>14. ASSUME NEW k \in 1..n, k - 1 \in P PROVE k \in P
  BY <1>3, <1>10, <1>14
<1> HIDE DEF P
<1>15. 0..n \subseteq P BY <1>1, <1>13, <1>14, BoundedInduction
<1>16. \A k \in 0..n : trace[k] \in S BY <1>15 DEF P
<1>17. SegmentRun(trace, X, scoring) BY <1>4, <1>9, <1>10, <1>12, <1>16 DEF SegmentRun, n, S
<1> QED BY <1>17

SectionLines(view) == [line : ToSet(view.scoring), section : Mined]

\* Sections are made of scoring lines (_extract_requirements_cached).
LEMMA SectionsTyped ==
    ASSUME NEW view, NEW Y, view.scoring \in Seq(Y)
    PROVE  Sections(view) \in Seq(SectionLines(view))
<1> DEFINE X == ToSet(view.scoring)
           start == [active |-> "other", found |-> <<>>]
           end == FoldLeft(Segment, start, view.scoring)
           found == end.found
           All == [line : X, section : SectionNames]
<1>1. view.scoring \in Seq(X) BY ListOver
<1>2. PICK trace : SegmentRun(trace, X, view.scoring) BY <1>1, SegmentStepwise
<1>3. end \in Segments(X)
  <2>1. Len(view.scoring) \in 0..Len(view.scoring) OBVIOUS
  <2> QED BY <1>2, <2>1 DEF SegmentRun
<1>4. found \in Seq(All) BY <1>3 DEF Segments
<1>5. Sections(view) = Only(found, {s \in ToSet(found) : s.section \in Mined}) BY DEF Sections
<1> HIDE DEF found, All
<1>6. /\ Sections(view) \in Seq(All)
      /\ ToSet(Sections(view)) = ToSet(found) \cap {s \in ToSet(found) : s.section \in Mined}
  BY <1>4, <1>5, OnlyFromSequence
<1>7. ToSet(found) \subseteq All BY <1>4 DEF ToSet
<1>8. ToSet(Sections(view)) \subseteq SectionLines(view) BY <1>6, <1>7 DEF SectionLines, All
<1> QED BY <1>6, <1>8, ListOver

-----------------------------------------------------------------------------
(* Candidates *)

CandidateRecords ==
    [term : DOMAIN Terms, section : Mined \cup {"title"}, weight : Nat, line : DOMAIN Lines,
     index : Nat, start : Nat]

\* What a mention in a section, or in the title, is a candidate for.
FromSection(view, i, k) ==
    LET s == Sections(view)[i]
        t == Lines[s.line].says[k].term
    IN  Candidate(t, s.section, IF Kind(t) = "soft" THEN 1 ELSE Weight[s.section], s.line, i, k)

FromTitle(view, k) ==
    Candidate(Lines[TitleLine(view)].says[k].term, "title", 4, TitleLine(view), 0, k)

Mentions(n) == DOMAIN Lines[n].says

\* A line is a list of mentions of terms.
LEMMA LineSays ==
    ASSUME NEW n \in DOMAIN Lines
    PROVE  /\ Len(Lines[n].says) \in Nat /\ Mentions(n) = 1..Len(Lines[n].says)
           /\ \A k \in Mentions(n) : /\ k \in Nat /\ Lines[n].says[k] \in ToSet(Lines[n].says)
                                     /\ Lines[n].says[k].term \in DOMAIN Terms
<1> DEFINE says == Lines[n].says
           M == [term : DOMAIN Terms, at : Places]
<1>1. says \in Seq(M) BY PostingAssumption
<1> HIDE DEF says, M
<1>2. Len(says) \in Nat /\ DOMAIN says = 1..Len(says) BY <1>1
<1>3. \A k \in DOMAIN says : says[k] \in M BY <1>1, <1>2
<1>4. \A k \in DOMAIN says : k \in Nat /\ says[k] \in ToSet(says) BY <1>2 DEF ToSet
<1>5. \A k \in DOMAIN says : says[k].term \in DOMAIN Terms BY <1>3 DEF M
<1> QED BY <1>2, <1>4, <1>5 DEF says, Mentions

\* A section is made of numbered lines of the posting.
LEMMA SectionFacts ==
    ASSUME NEW view \in Views
    PROVE  /\ Len(Sections(view)) \in Nat /\ DOMAIN Sections(view) = 1..Len(Sections(view))
           /\ \A i \in DOMAIN Sections(view) :
                 /\ i \in Nat \ {0}
                 /\ Sections(view)[i].line \in ToSet(view.scoring) /\ Sections(view)[i].line \in DOMAIN Lines
                 /\ Sections(view)[i].section \in Mined
<1> DEFINE s == Sections(view)
<1>1. view.scoring \in Seq(DOMAIN Lines) BY DEF Views
<1>2. s \in Seq(SectionLines(view)) BY <1>1, SectionsTyped
<1>3. ToSet(view.scoring) \subseteq DOMAIN Lines BY <1>1 DEF ToSet
<1> HIDE DEF s
<1>4. Len(s) \in Nat /\ DOMAIN s = 1..Len(s) BY <1>2
<1>5. \A i \in DOMAIN s : i \in Nat \ {0} /\ s[i] \in SectionLines(view) BY <1>2, <1>4
<1>6. \A i \in DOMAIN s : s[i].line \in ToSet(view.scoring) /\ s[i].section \in Mined
  BY <1>5 DEF SectionLines
<1> QED BY <1>3, <1>4, <1>5, <1>6 DEF s

\* Every candidate is a mention in a section or in the title.
LEMMA CandidateOrigin ==
    ASSUME NEW view \in Views, NEW c \in Candidates(view)
    PROVE  \/ /\ TitleLine(view) \in ToSet(view.target)
              /\ \E k \in Mentions(TitleLine(view)) : c = FromTitle(view, k)
           \/ \E i \in DOMAIN Sections(view) : \E k \in Mentions(Sections(view)[i].line) :
                 c = FromSection(view, i, k)
<1>1. CASE c \in TitleCandidates(TitleLine(view), Sections(view))
  <2>1. TitleLine(view) # 0 BY <1>1 DEF TitleCandidates
  <2>2. TitleLine(view) \in ToSet(view.target) BY <2>1, TitleIsRead DEF Views
  <2>3. \E k \in Mentions(TitleLine(view)) : c = FromTitle(view, k)
    BY <1>1, <2>1 DEF TitleCandidates, Mentions, FromTitle
  <2> QED BY <2>2, <2>3
<1>2. CASE \E i \in DOMAIN Sections(view) : c \in LineCandidates(Sections(view), i, Organizations(view))
  <2>1. PICK i \in DOMAIN Sections(view) : c \in LineCandidates(Sections(view), i, Organizations(view))
    BY <1>2
  <2>2. \E k \in Mentions(Sections(view)[i].line) : c = FromSection(view, i, k)
    BY <2>1 DEF LineCandidates, Mentions, FromSection
  <2> QED BY <2>2
<1> QED BY <1>1, <1>2 DEF Candidates

\* A candidate is a mention of its term by its line, which may be read, and is
\* scored unless it is the title.
LEMMA CandidateFacts ==
    ASSUME NEW view \in Views, NEW c \in Candidates(view)
    PROVE  /\ c \in CandidateRecords
           /\ c.line \in ToSet(view.target) \cup ToSet(view.scoring)
           /\ c.section # "title" => c.line \in ToSet(view.scoring)
           /\ Names(c.line, c.term)
<1>0. ToSet(view.target) \subseteq DOMAIN Lines BY DEF Views, ToSet
<1>1. CASE /\ TitleLine(view) \in ToSet(view.target)
           /\ \E k \in Mentions(TitleLine(view)) : c = FromTitle(view, k)
  <2> DEFINE n == TitleLine(view)
  <2>1. PICK k \in Mentions(n) : c = FromTitle(view, k) BY <1>1
  <2>2. n \in DOMAIN Lines /\ n \in ToSet(view.target) BY <1>0, <1>1
  <2>3. k \in Nat /\ Lines[n].says[k] \in ToSet(Lines[n].says) /\ Lines[n].says[k].term \in DOMAIN Terms
    BY <2>1, <2>2, LineSays
  <2>4. c = Candidate(Lines[n].says[k].term, "title", 4, n, 0, k) BY <2>1 DEF FromTitle
  <2> HIDE DEF n
  <2>5. /\ c \in CandidateRecords /\ c.line = n /\ c.section = "title"
        /\ c.term = Lines[n].says[k].term
    BY <2>2, <2>3, <2>4 DEF Candidate, CandidateRecords
  <2>6. Names(c.line, c.term) BY <2>3, <2>5 DEF Names
  <2> QED BY <2>2, <2>5, <2>6
<1>2. CASE \E i \in DOMAIN Sections(view) : \E k \in Mentions(Sections(view)[i].line) :
              c = FromSection(view, i, k)
  <2>1. PICK i \in DOMAIN Sections(view) : \E k \in Mentions(Sections(view)[i].line) :
          c = FromSection(view, i, k)
    BY <1>2
  <2> DEFINE s == Sections(view)[i]
             n == s.line
  <2>2. PICK k \in Mentions(n) : c = FromSection(view, i, k) BY <2>1
  <2>3. i \in Nat /\ n \in ToSet(view.scoring) /\ n \in DOMAIN Lines /\ s.section \in Mined BY SectionFacts
  <2>4. k \in Nat /\ Lines[n].says[k] \in ToSet(Lines[n].says) /\ Lines[n].says[k].term \in DOMAIN Terms
    BY <2>2, <2>3, LineSays
  <2> DEFINE t == Lines[n].says[k].term
             w == IF Kind(t) = "soft" THEN 1 ELSE Weight[s.section]
  <2>5. c = Candidate(t, s.section, w, n, i, k) BY <2>2 DEF FromSection
  <2>6. w \in Nat BY <2>3 DEF Weight, Mined
  <2> HIDE DEF s, n, t, w
  <2>7. /\ c \in CandidateRecords /\ c.line = n /\ c.section \in Mined /\ c.term = t
    BY <2>3, <2>4, <2>5, <2>6 DEF Candidate, CandidateRecords, t
  <2>8. Names(c.line, c.term) BY <2>4, <2>7 DEF Names, t
  <2> QED BY <2>3, <2>7, <2>8
<1> QED BY <1>1, <1>2, CandidateOrigin

\* Where a mention stands tells it from all others.
LEMMA CandidateByPlace ==
    ASSUME NEW view \in Views, NEW c \in Candidates(view), NEW d \in Candidates(view),
           c.index = d.index, c.start = d.start
    PROVE  c = d
<1> DEFINE title(x) == \E k \in Mentions(TitleLine(view)) : x = FromTitle(view, k)
           section(x) == \E i \in DOMAIN Sections(view) : \E k \in Mentions(Sections(view)[i].line) :
                            x = FromSection(view, i, k)
<1>1. /\ title(c) \/ section(c)
      /\ title(d) \/ section(d)
  BY CandidateOrigin
<1>2. ASSUME NEW x, title(x) PROVE x.index = 0 /\ x = FromTitle(view, x.start)
  <2>1. PICK k \in Mentions(TitleLine(view)) : x = FromTitle(view, k) BY <1>2
  <2>2. x.index = 0 /\ x.start = k BY <2>1 DEF FromTitle, Candidate
  <2> QED BY <2>1, <2>2
<1>3. ASSUME NEW x, section(x) PROVE x.index # 0 /\ x = FromSection(view, x.index, x.start)
  <2>1. PICK i \in DOMAIN Sections(view) : \E k \in Mentions(Sections(view)[i].line) :
          x = FromSection(view, i, k)
    BY <1>3
  <2>2. PICK k \in Mentions(Sections(view)[i].line) : x = FromSection(view, i, k) BY <2>1
  <2>3. i # 0 BY SectionFacts
  <2>4. x.index = i /\ x.start = k BY <2>2 DEF FromSection, Candidate
  <2> QED BY <2>2, <2>3, <2>4
<1> HIDE DEF title, section
<1>4. CASE title(c) /\ title(d)
  <2>1. c = FromTitle(view, c.start) /\ d = FromTitle(view, d.start) BY <1>2, <1>4
  <2> QED BY <2>1
<1>5. CASE section(c) /\ section(d)
  <2>1. c = FromSection(view, c.index, c.start) /\ d = FromSection(view, d.index, d.start) BY <1>3, <1>5
  <2> QED BY <2>1
<1>6. CASE (title(c) /\ section(d)) \/ (section(c) /\ title(d)) BY <1>2, <1>3, <1>6
<1> QED BY <1>1, <1>4, <1>5, <1>6

\* A posting has finitely many candidates.
LEMMA CandidatesFinite ==
    ASSUME NEW view \in Views
    PROVE  IsFiniteSet(Candidates(view))
<1> DEFINE sections == Sections(view)
           title == TitleLine(view)
           perLine == [i \in DOMAIN sections |-> LineCandidates(sections, i, Organizations(view))]
<1>1. IsFiniteSet(TitleCandidates(title, sections))
  <2>1. CASE title = 0 BY <2>1, FS_EmptySet DEF TitleCandidates
  <2>2. CASE title # 0
    <3>1. title \in ToSet(view.target) BY <2>2, TitleIsRead DEF Views
    <3>2. title \in DOMAIN Lines BY <3>1 DEF Views, ToSet
    <3> DEFINE f == [k \in Mentions(title) |-> FromTitle(view, k)]
    <3>3. Len(Lines[title].says) \in Nat /\ Mentions(title) = 1..Len(Lines[title].says) BY <3>2, LineSays
    <3>4. IsFiniteSet(Mentions(title)) BY <3>3, FS_Interval
    <3>5. DOMAIN f = Mentions(title) OBVIOUS
    <3>6. \A c \in TitleCandidates(title, sections) : \E k \in Mentions(title) : c = FromTitle(view, k)
      BY <2>2 DEF TitleCandidates, Mentions, FromTitle
    <3>7. \A k \in Mentions(title) : f[k] = FromTitle(view, k) OBVIOUS
    <3> HIDE DEF f
    <3>8. IsFiniteSet({f[k] : k \in Mentions(title)}) BY <3>4, <3>5, FiniteImage
    <3>9. TitleCandidates(title, sections) \in SUBSET {f[k] : k \in Mentions(title)} BY <3>6, <3>7
    <3> QED BY <3>8, <3>9, FS_Subset
  <2> QED BY <2>1, <2>2
<1>2. ASSUME NEW i \in DOMAIN sections PROVE IsFiniteSet(perLine[i])
  <2> DEFINE n == sections[i].line
             f == [k \in Mentions(n) |-> FromSection(view, i, k)]
  <2>1. n \in DOMAIN Lines BY SectionFacts
  <2>2. Len(Lines[n].says) \in Nat /\ Mentions(n) = 1..Len(Lines[n].says) BY <2>1, LineSays
  <2>3. IsFiniteSet(Mentions(n)) BY <2>2, FS_Interval
  <2>4. DOMAIN f = Mentions(n) OBVIOUS
  <2>5. \A c \in perLine[i] : \E k \in Mentions(n) : c = FromSection(view, i, k)
    BY DEF LineCandidates, Mentions, FromSection
  <2>6. \A k \in Mentions(n) : f[k] = FromSection(view, i, k) OBVIOUS
  <2> HIDE DEF f
  <2>7. IsFiniteSet({f[k] : k \in Mentions(n)}) BY <2>3, <2>4, FiniteImage
  <2>8. perLine[i] \in SUBSET {f[k] : k \in Mentions(n)} BY <2>5, <2>6
  <2> QED BY <2>7, <2>8, FS_Subset
<1>3. IsFiniteSet(DOMAIN sections)
  <2>1. Len(sections) \in Nat /\ DOMAIN sections = 1..Len(sections) BY SectionFacts
  <2> QED BY <2>1, FS_Interval
<1>4. Candidates(view) = TitleCandidates(title, sections) \cup UNION {perLine[i] : i \in DOMAIN sections}
  BY DEF Candidates
<1>5. DOMAIN perLine = DOMAIN sections OBVIOUS
<1> HIDE DEF sections, title, perLine
<1>6. IsFiniteSet({perLine[i] : i \in DOMAIN sections}) BY <1>3, <1>5, FiniteImage
<1>7. IsFiniteSet(UNION {perLine[i] : i \in DOMAIN sections}) BY <1>2, <1>6, FS_UNION
<1> QED BY <1>1, <1>4, <1>7, FS_Union

\* A mention that counts is a candidate.
LEMMA MentionIsCandidate ==
    ASSUME NEW view \in Views, NEW i \in DOMAIN Sections(view),
           NEW k \in Mentions(Sections(view)[i].line),
           Counts(Lines[Sections(view)[i].line].says[k], Lines[Sections(view)[i].line],
                  Sections(view), Organizations(view))
    PROVE  FromSection(view, i, k) \in Candidates(view)
<1>1. FromSection(view, i, k) \in LineCandidates(Sections(view), i, Organizations(view))
  BY DEF LineCandidates, Mentions, FromSection
<1> QED BY <1>1 DEF Candidates

-----------------------------------------------------------------------------
(* The strongest mention of every term *)

\* The sections of candidates are ranked, each on a rank of its own.
LEMMA RanksOfSections ==
    /\ \A s \in Mined \cup {"title"} : SectionRank[s] \in Nat
    /\ \A s, u \in Mined \cup {"title"} : SectionRank[s] = SectionRank[u] => s = u
BY DEF SectionRank, Mined

\* _candidate_precedes orders what stands in different places, and has no cycle.
LEMMA PrecedesOrders ==
    ASSUME NEW c \in CandidateRecords, NEW d \in CandidateRecords, NEW e \in CandidateRecords
    PROVE  /\ ~(Precedes(c, d) /\ Precedes(d, c))
           /\ Precedes(c, d) /\ Precedes(d, e) => Precedes(c, e)
           /\ Precedes(c, d) \/ Precedes(d, c) \/ (c.index = d.index /\ c.start = d.start)
           /\ Precedes(c, d) => c.weight >= d.weight
<1> DEFINE r(x) == SectionRank[x.section]
<1>1. /\ c.weight \in Nat /\ c.index \in Nat /\ c.start \in Nat /\ r(c) \in Nat
      /\ d.weight \in Nat /\ d.index \in Nat /\ d.start \in Nat /\ r(d) \in Nat
      /\ e.weight \in Nat /\ e.index \in Nat /\ e.start \in Nat /\ r(e) \in Nat
  BY RanksOfSections DEF CandidateRecords
<1>2. \A x, y : Precedes(x, y) <=>
                  IF x.weight # y.weight THEN x.weight > y.weight
                  ELSE IF r(x) # r(y) THEN r(x) > r(y)
                  ELSE x.index < y.index \/ (x.index = y.index /\ x.start < y.start)
  BY DEF Precedes, Earlier
<1> HIDE DEF r
<1> QED BY <1>1, <1>2

\* Every term has one mention chosen, which weighs no less than the others.
LEMMA ChosenFacts ==
    ASSUME NEW view \in Views
    PROVE  LET all == Candidates(view)
           IN  /\ Chosen(all) \subseteq all /\ IsFiniteSet(Chosen(all))
               /\ \A c, d \in Chosen(all) : c.term = d.term => c = d
               /\ \A c \in all : \E d \in Chosen(all) : d.term = c.term
               /\ \A c \in all, d \in Chosen(all) : c.term = d.term => d.weight >= c.weight
<1> DEFINE all == Candidates(view)
<1>1. all \subseteq CandidateRecords BY CandidateFacts
<1>2. IsFiniteSet(all) BY CandidatesFinite
<1>3. \A c, d \in all : c.index = d.index /\ c.start = d.start => c = d BY CandidateByPlace
<1> HIDE DEF all
<1>4. Chosen(all) \subseteq all BY DEF Chosen
<1>5. IsFiniteSet(Chosen(all)) BY <1>2, <1>4, FS_Subset
<1>6. ASSUME NEW c \in Chosen(all), NEW d \in Chosen(all), c.term = d.term PROVE c = d
  <2>1. d = c \/ (Precedes(c, d) /\ Precedes(d, c)) BY <1>4, <1>6 DEF Chosen
  <2>2. c \in CandidateRecords /\ d \in CandidateRecords BY <1>1, <1>4
  <2> QED BY <2>1, <2>2, PrecedesOrders
<1>7. ASSUME NEW c \in all PROVE \E d \in Chosen(all) : d.term = c.term
  <2> DEFINE T == {d \in all : d.term = c.term}
             R == {p \in T \X T : Precedes(p[1], p[2])}
  <2>1. T \in SUBSET all /\ T # {} OBVIOUS
  <2>2. \A x, y \in T : <<x, y>> \in R <=> Precedes(x, y) OBVIOUS
  <2>3. IsFiniteSet(T) BY <1>2, <2>1, FS_Subset
  <2>4. T \subseteq CandidateRecords BY <1>1, <2>1
  <2>5. T \subseteq all /\ \A d \in all : d.term = c.term => d \in T OBVIOUS
  <2>6. \A d \in T : d.term = c.term OBVIOUS
  <2> HIDE DEF T, R
  <2>7. ASSUME NEW x \in T, NEW y \in T PROVE x = y \/ <<x, y>> \in R \/ <<y, x>> \in R
    <3>1. Precedes(x, y) \/ Precedes(y, x) \/ (x.index = y.index /\ x.start = y.start)
      BY <2>4, PrecedesOrders
    <3> QED BY <1>3, <2>2, <2>5, <3>1
  <2>8. ASSUME NEW x \in T, NEW y \in T, NEW z \in T PROVE <<x, y>> \in R /\ <<y, z>> \in R => <<x, z>> \in R
    <3>1. Precedes(x, y) /\ Precedes(y, z) => Precedes(x, z) BY <2>4, PrecedesOrders
    <3> QED BY <2>2, <3>1
  <2>9. PICK x \in T : \A y \in T : y = x \/ <<x, y>> \in R BY <2>1, <2>3, <2>7, <2>8, FirstOfOrdered
  <2>10. x \in Chosen(all) BY <2>2, <2>5, <2>6, <2>9 DEF Chosen
  <2> QED BY <2>6, <2>10
<1>8. ASSUME NEW c \in all, NEW d \in Chosen(all), c.term = d.term PROVE d.weight >= c.weight
  <2>1. c = d \/ Precedes(d, c) BY <1>8 DEF Chosen
  <2>2. c \in CandidateRecords /\ d \in CandidateRecords BY <1>1, <1>4
  <2>3. d.weight \in Nat /\ c.weight \in Nat BY <2>2 DEF CandidateRecords
  <2> QED BY <2>1, <2>2, <2>3, PrecedesOrders
<1> QED BY <1>4, <1>5, <1>6, <1>7, <1>8 DEF all

-----------------------------------------------------------------------------
(* The cap on soft skills *)

Within(w, hard, total) == w * (hard + total) <= total * (hard + w) \/ 4 * w <= hard + w

Take(acc, c, hard, total) ==
    IF Within(acc.weight + c.weight, hard, total)
    THEN [weight |-> acc.weight + c.weight, taken |-> acc.taken \cup {c}]
    ELSE acc

Nothing == [weight |-> 0, taken |-> {}]

\* The loop of _cap_soft_weight.
Taken(soft, hard, total) == FoldLeft(LAMBDA acc, c : Take(acc, c, hard, total), Nothing, soft)

Loads(X) == [weight : Nat, taken : SUBSET X]

\* What the loop of _cap_soft_weight goes through.
TakeRun(trace, X, soft, hard, total) ==
    /\ trace[0] = Nothing
    /\ \A k \in 1..Len(soft) : trace[k] = Take(trace[k - 1], soft[k], hard, total)
    /\ \A k \in 0..Len(soft) : trace[k] \in Loads(X)
    /\ Taken(soft, hard, total) = trace[Len(soft)]

\* Soft skills are taken one after the other (_cap_soft_weight).
LEMMA TakeStepwise ==
    ASSUME NEW X \in SUBSET CandidateRecords, NEW soft \in Seq(X), NEW hard, NEW total
    PROVE  \E trace : TakeRun(trace, X, soft, hard, total)
<1> DEFINE n == Len(soft)
           S == Loads(X)
           F == [p \in S \X (1..n) |-> Take(p[1], soft[p[2]], hard, total)]
           Rec(it) == [s \in SUBSET (1..n) |->
                         IF s = {} THEN Nothing ELSE Take(it[s \ {Max(s)}], soft[Max(s)], hard, total)]
           it == CHOOSE i : i = Rec(i)
<1>1. n \in Nat /\ DOMAIN soft = 1..n OBVIOUS
<1>2. Nothing \in S BY DEF Nothing, Loads
<1>3. \A a \in S, i \in 1..n : Take(a, soft[i], hard, total) \in S
  <2> TAKE a \in S, i \in 1..n
  <2>1. soft[i] \in X BY <1>1
  <2>2. soft[i].weight \in Nat BY <2>1 DEF CandidateRecords
  <2>3. a.weight \in Nat /\ a.taken \in SUBSET X BY DEF Loads
  <2> DEFINE w == a.weight + soft[i].weight
             t == a.taken \cup {soft[i]}
  <2>4. w \in Nat /\ t \in SUBSET X BY <2>1, <2>2, <2>3
  <2>5. Take(a, soft[i], hard, total) \in {[weight |-> w, taken |-> t], a} BY DEF Take
  <2> HIDE DEF w, t
  <2> QED BY <2>4, <2>5 DEF Loads
<1>4. Taken(soft, hard, total) = it[1..n]
  BY <1>1 DEF Taken, FoldLeft, MapThenFoldSet
<1> HIDE DEF n, S
<1>5. \A a \in S, i \in 1..n : F[<<a, i>>] = Take(a, soft[i], hard, total) /\ F[<<a, i>>] \in S
  BY <1>3
<1> HIDE DEF F
<1>6. PICK w : Solves(w, n, S, Nothing, F) BY <1>1, <1>2, <1>5, FoldExists
<1>7. w = Rec(w)
  <2>1. ASSUME NEW s \in SUBSET (1..n)
        PROVE  w[s] = IF s = {} THEN Nothing ELSE Take(w[s \ {Max(s)}], soft[Max(s)], hard, total)
    <3>1. CASE s = {} BY <1>6, <3>1 DEF Solves
    <3>2. CASE s # {}
      <4>1. Max(s) \in 1..n /\ w[s \ {Max(s)}] \in S BY <1>1, <1>6, <3>2, SolvesTyped
      <4>2. w[s] = F[<<w[s \ {Max(s)}], Max(s)>>] BY <1>6, <3>2 DEF Solves
      <4> QED BY <1>5, <3>2, <4>1, <4>2
    <3> QED BY <3>1, <3>2
  <2>2. w = [s \in SUBSET (1..n) |-> w[s]] BY <1>6 DEF Solves
  <2> QED BY <2>1, <2>2
<1>8. it = Rec(it) BY <1>7
<1> HIDE DEF it
<1> DEFINE trace == [k \in 0..n |-> it[1..k]]
<1>9. trace[0] = Nothing BY <1>1, <1>8, IntervalPrefixes
<1>10. ASSUME NEW k \in 1..n PROVE trace[k] = Take(trace[k - 1], soft[k], hard, total)
  <2>1. 1..k \in SUBSET (1..n) /\ 1..k # {} /\ Max(1..k) = k /\ (1..k) \ {k} = 1..(k - 1)
    BY <1>1, IntervalPrefixes
  <2>2. it[1..k] = Take(it[(1..k) \ {Max(1..k)}], soft[Max(1..k)], hard, total) BY <1>8, <2>1
  <2>3. k \in 0..n /\ k - 1 \in 0..n BY <1>1
  <2> QED BY <2>1, <2>2, <2>3
<1>11. n \in 0..n BY <1>1
<1>12. trace[n] = it[1..n] BY <1>11
<1> HIDE DEF trace
<1> DEFINE P == {k \in 0..n : trace[k] \in S}
<1>13. 0 \in P BY <1>1, <1>2, <1>9
<1>14. ASSUME NEW k \in 1..n, k - 1 \in P PROVE k \in P
  BY <1>3, <1>10, <1>14
<1> HIDE DEF P
<1>15. 0..n \subseteq P BY <1>1, <1>13, <1>14, BoundedInduction
<1>16. \A k \in 0..n : trace[k] \in S BY <1>15 DEF P
<1>17. TakeRun(trace, X, soft, hard, total) BY <1>4, <1>9, <1>10, <1>12, <1>16 DEF TakeRun, n, S
<1> QED BY <1>17

\* A share of a sum is no more than the share of the sum itself.
LEMMA ShareWithin ==
    ASSUME NEW w \in Nat, NEW hard \in Nat, NEW total \in Nat, w <= total
    PROVE  Within(w, hard, total)
<1>1. w * hard <= total * hard OBVIOUS
<1>2. w * (hard + total) = w * hard + w * total /\ total * (hard + w) = total * hard + w * total OBVIOUS
<1>3. w * hard \in Nat /\ total * hard \in Nat /\ w * total \in Nat OBVIOUS
<1> QED BY <1>1, <1>2, <1>3 DEF Within

\* The weight of a set of candidates is a sum.
LEMMA WeightIsSum ==
    ASSUME NEW set \in SUBSET CandidateRecords, IsFiniteSet(set)
    PROVE  \E it : Sums(it, set, [c \in set |-> c.weight]) /\ WeightOf(set) = it[set]
<1> DEFINE f == [c \in set |-> c.weight]
           Rec(it) == [s \in SUBSET set |-> IF s = {} THEN 0 ELSE Member(s).weight + it[s \ {Member(s)}]]
           it == CHOOSE i : i = Rec(i)
<1>1. WeightOf(set) = it[set] BY DEF WeightOf, MapThenSumSet, MapThenFoldSet, Member
<1>2. \A c \in set : f[c] = c.weight /\ f[c] \in Nat BY DEF CandidateRecords
<1> HIDE DEF f
<1>3. \A s \in SUBSET set : s # {} => Member(s) \in set BY OneLess
<1>4. PICK w : Sums(w, set, f) BY <1>2, SumExists
<1>5. ASSUME NEW s \in SUBSET set
      PROVE  w[s] = IF s = {} THEN 0 ELSE Member(s).weight + w[s \ {Member(s)}]
  <2>1. w[s] = IF s = {} THEN 0 ELSE f[Member(s)] + w[s \ {Member(s)}] BY <1>4 DEF Sums
  <2> QED BY <1>2, <1>3, <2>1
<1>6. w = [s \in SUBSET set |-> w[s]] BY <1>4 DEF Sums
<1>7. w = Rec(w) BY <1>5, <1>6
<1>8. it = Rec(it) BY <1>7
<1> HIDE DEF it
<1>9. it = [s \in SUBSET set |-> IF s = {} THEN 0 ELSE f[Member(s)] + it[s \ {Member(s)}]]
  BY <1>2, <1>3, <1>8
<1>10. Sums(it, set, f) BY <1>2, <1>9, SumTyped
<1> QED BY <1>1, <1>10 DEF f

\* The loop takes every soft skill: what it has taken is part of the share it is
\* measured against.
LEMMA AllAreTaken ==
    ASSUME NEW soft \in SUBSET CandidateRecords, IsFiniteSet(soft), NEW hard \in Nat, NEW list \in Seq(soft),
           ToSet(list) = soft, Distinct(list)
    PROVE  Taken(list, hard, WeightOf(soft)).taken = soft
<1> DEFINE total == WeightOf(soft)
           f == [c \in soft |-> c.weight]
           n == Len(list)
<1>1. PICK it : Sums(it, soft, f) /\ total = it[soft] BY WeightIsSum
<1>2. \A c \in soft : f[c] = c.weight /\ f[c] \in Nat BY DEF CandidateRecords
<1>3. PICK trace : TakeRun(trace, soft, list, hard, total) BY TakeStepwise
<1>4. /\ trace[0] = Nothing
      /\ \A k \in 1..n : trace[k] = Take(trace[k - 1], list[k], hard, total)
      /\ Taken(list, hard, total) = trace[n]
  BY <1>3 DEF TakeRun
<1>5. n \in Nat /\ DOMAIN list = 1..n /\ \A k \in 1..n : list[k] \in soft OBVIOUS
<1>6. \A j, k \in 1..n : list[j] = list[k] => j = k BY <1>5 DEF Distinct
<1> HIDE DEF total, f, n
<1> DEFINE upto(k) == {c \in soft : \E j \in 1..k : list[j] = c}
           P == {k \in 0..n : trace[k].taken = upto(k) /\ trace[k].weight = it[upto(k)]}
<1>7. 0 \in P
  <2>1. upto(0) = {} OBVIOUS
  <2>2. it[{}] = 0 BY <1>1 DEF Sums
  <2>3. trace[0].taken = {} /\ trace[0].weight = 0 BY <1>4 DEF Nothing
  <2> HIDE DEF upto
  <2>4. trace[0].taken = upto(0) /\ trace[0].weight = it[upto(0)] BY <2>1, <2>2, <2>3
  <2> QED BY <1>5, <2>4
<1>8. ASSUME NEW k \in 1..n, k - 1 \in P PROVE k \in P
  <2> DEFINE old == trace[k - 1]
             c == list[k]
  <2>1. k \in 0..n /\ k \in 1..k /\ (\A j \in 1..k : j = k \/ j \in 1..(k - 1)) /\ \A j \in 1..(k - 1) : j \in 1..k /\ j # k /\ j \in 1..n
    BY <1>5
  <2>2. old.taken = upto(k - 1) /\ old.weight = it[upto(k - 1)] BY <1>8
  <2>3. c \in soft /\ c \notin upto(k - 1) BY <1>5, <1>6, <2>1
  <2>4. upto(k) = upto(k - 1) \cup {c} /\ upto(k) \in SUBSET soft BY <2>1, <2>3
  <2>5. trace[k] = Take(old, c, hard, total) BY <1>4
  <2> HIDE DEF old, c, upto
  <2>6. upto(k) \ {c} = upto(k - 1) /\ c \in upto(k) BY <2>3, <2>4
  <2>7. it[upto(k)] = f[c] + it[upto(k) \ {c}] BY <1>1, <1>2, <2>4, <2>6, SumWithout
  <2>8. it[upto(k)] \in Nat /\ total \in Nat /\ it[upto(k)] <= total BY <1>1, <1>2, <2>4, SumOfPart
  <2>9. it[upto(k - 1)] \in Nat
    <3>1. upto(k - 1) \in SUBSET soft BY <2>4
    <3> QED BY <1>1, <3>1 DEF Sums
  <2>10. old.weight + c.weight = it[upto(k)]
    <3>1. f[c] = c.weight /\ c.weight \in Nat BY <1>2, <2>3
    <3>2. it[upto(k)] = c.weight + old.weight BY <2>2, <2>6, <2>7, <3>1
    <3> QED BY <2>2, <2>9, <3>1, <3>2
  <2>11. Within(old.weight + c.weight, hard, total) BY <2>8, <2>10, ShareWithin
  <2>12. trace[k] = [weight |-> it[upto(k)], taken |-> upto(k)] BY <2>2, <2>4, <2>5, <2>10, <2>11 DEF Take
  <2>13. trace[k].weight = it[upto(k)] /\ trace[k].taken = upto(k) BY <2>12
  <2> QED BY <2>1, <2>13
<1> HIDE DEF P
<1>9. 0..n \subseteq P BY <1>5, <1>7, <1>8, BoundedInduction
<1>10. n \in P BY <1>5, <1>9
<1>11. trace[n].taken = upto(n) BY <1>10 DEF P
<1>12. upto(n) = soft BY <1>5 DEF ToSet
<1> QED BY <1>4, <1>11, <1>12 DEF total

\* The cap cuts no soft skill off a posting that asks for anything else, as the
\* comment of _cap_soft_weight says of itself; a posting that asks for nothing
\* else has no requirement.
THEOREM CapCutsNothing ==
    ASSUME NEW set \in SUBSET CandidateRecords, IsFiniteSet(set)
    PROVE  CapSoftWeight(set) = IF \A c \in set : Kind(c.term) = "soft" THEN {} ELSE set
<1> DEFINE soft == {c \in set : Kind(c.term) = "soft"}
           hard == WeightOf(set \ soft)
           total == WeightOf(soft)
<1>1. CapSoftWeight(set) = IF soft = set THEN {} ELSE (set \ soft) \cup Taken(Ordered(soft), hard, total).taken
  BY DEF CapSoftWeight, Taken, Take, Within, Nothing, FoldLeft, MapThenFoldSet
<1>2. soft \in SUBSET CandidateRecords /\ soft \in SUBSET set /\ set \ soft \in SUBSET CandidateRecords
  OBVIOUS
<1>3. soft = set <=> \A c \in set : Kind(c.term) = "soft" OBVIOUS
<1>4. IsFiniteSet(soft) /\ IsFiniteSet(set \ soft)
  <2>1. set \ soft \in SUBSET set OBVIOUS
  <2> HIDE DEF soft
  <2> QED BY <1>2, <2>1, FS_Subset
<1> HIDE DEF soft
<1>5. hard \in Nat
  <2>1. PICK it : Sums(it, set \ soft, [c \in set \ soft |-> c.weight]) /\ hard = it[set \ soft]
    BY <1>2, <1>4, WeightIsSum
  <2> QED BY <2>1 DEF Sums
<1>6. Ordered(soft) \in Seq(soft) /\ ToSet(Ordered(soft)) = soft /\ Distinct(Ordered(soft))
  BY <1>4, SortedEnumerates DEF Ordered
<1> HIDE DEF hard
<1>7. Taken(Ordered(soft), hard, total).taken = soft BY <1>2, <1>4, <1>5, <1>6, AllAreTaken
<1> QED BY <1>1, <1>2, <1>3, <1>7

-----------------------------------------------------------------------------
(* Requirements *)

\* What is left of the chosen mentions when standards cover their bare forms.
KeptMentions(view) == DropStandardPrefixes(Chosen(Candidates(view)))

OnlySoft(view) == \A c \in KeptMentions(view) : Kind(c.term) = "soft"

\* The requirements are the kept mentions, each once, unless all are soft
\* (_to_requirements).
LEMMA RequirementsFacts ==
    ASSUME NEW view \in Views
    PROVE  /\ KeptMentions(view) \subseteq Candidates(view)
           /\ Requirements(view) \in Seq(Candidates(view))
           /\ ToSet(Requirements(view)) = IF OnlySoft(view) THEN {} ELSE KeptMentions(view)
           /\ Distinct(Requirements(view))
           /\ OnlySoft(view) => Requirements(view) = <<>>
<1> DEFINE kept == KeptMentions(view)
           capped == CapSoftWeight(kept)
           reqs == Requirements(view)
<1>1. Chosen(Candidates(view)) \subseteq Candidates(view) /\ IsFiniteSet(Chosen(Candidates(view)))
  BY ChosenFacts
<1>2. kept \in SUBSET Chosen(Candidates(view)) BY DEF KeptMentions, DropStandardPrefixes
<1>3. reqs = Ordered(capped) BY DEF Requirements, ToRequirements, KeptMentions
<1> HIDE DEF kept
<1>4. IsFiniteSet(kept) /\ kept \subseteq Candidates(view) BY <1>1, <1>2, FS_Subset
<1>5. kept \in SUBSET CandidateRecords BY <1>4, CandidateFacts
<1>6. capped = IF \A c \in kept : Kind(c.term) = "soft" THEN {} ELSE kept
  BY <1>4, <1>5, CapCutsNothing
<1> HIDE DEF capped, reqs
<1>7. IsFiniteSet(capped) /\ capped \subseteq kept BY <1>4, <1>6, FS_EmptySet
<1>8. reqs \in Seq(capped) /\ ToSet(reqs) = capped /\ Distinct(reqs)
  BY <1>3, <1>7, SortedEnumerates DEF Ordered
<1>9. reqs \in Seq(Candidates(view)) BY <1>4, <1>7, <1>8, ListOver
<1>10. ASSUME capped = {} PROVE reqs = <<>>
  <2>1. Len(reqs) \in Nat /\ DOMAIN reqs = 1..Len(reqs) BY <1>8
  <2>2. DOMAIN reqs = {} BY <1>8, <1>10 DEF ToSet
  <2>3. Len(reqs) = 0 BY <2>1, <2>2
  <2> QED BY <1>8, <2>3
<1>11. OnlySoft(view) <=> \A c \in kept : Kind(c.term) = "soft" BY DEF OnlySoft, kept
<1> HIDE DEF OnlySoft
<1>12. ToSet(reqs) = IF OnlySoft(view) THEN {} ELSE kept BY <1>6, <1>8, <1>11
<1>13. OnlySoft(view) => reqs = <<>> BY <1>6, <1>10, <1>11
<1> QED BY <1>4, <1>8, <1>9, <1>12, <1>13 DEF kept, reqs

\* What a section states of the vocabulary or of standards is a candidate with
\* the weight of the section.
LEMMA StatedIsCandidate ==
    ASSUME NEW view \in Views, NEW t \in DOMAIN Terms, Kind(t) \in Vocabulary \cup {"standard"},
           NEW w \in StatedWeights(Sections(view), t)
    PROVE  \E c \in Candidates(view) : c.term = t /\ c.weight = w
<1> DEFINE sections == Sections(view)
<1>1. PICK s \in ToSet(sections) :
        /\ w = (IF Kind(t) = "soft" THEN 1 ELSE Weight[s.section])
        /\ \E m \in ToSet(Lines[s.line].says) : m.term = t /\ (m.at # "announced" \/ Kind(t) = "standard")
  BY DEF StatedWeights
<1>2. PICK i \in DOMAIN sections : sections[i] = s BY <1>1 DEF ToSet
<1>3. PICK k \in DOMAIN Lines[s.line].says :
        /\ Lines[s.line].says[k].term = t
        /\ Lines[s.line].says[k].at # "announced" \/ Kind(t) = "standard"
  BY <1>1 DEF ToSet
<1> DEFINE m == Lines[s.line].says[k]
<1>4. m.term = t /\ (m.at # "announced" \/ Kind(t) = "standard") BY <1>3
<1>5. Counts(m, Lines[s.line], sections, Organizations(view))
  <2> HIDE DEF m, sections
  <2>1. "standard" \notin Vocabulary BY DEF Vocabulary
  <2>2. CASE Kind(t) \in Vocabulary BY <1>4, <2>1, <2>2 DEF Counts
  <2>3. CASE Kind(t) = "standard" BY <1>4, <2>1, <2>3 DEF Counts
  <2> QED BY <2>2, <2>3
<1>6. k \in Mentions(Sections(view)[i].line) BY <1>2, <1>3 DEF Mentions
<1>7. FromSection(view, i, k) \in Candidates(view) BY <1>2, <1>5, <1>6, MentionIsCandidate
<1>8. FromSection(view, i, k).term = t /\ FromSection(view, i, k).weight = w
  BY <1>1, <1>2, <1>3 DEF FromSection, Candidate
<1> QED BY <1>7, <1>8

\* Every term stated is demanded with its strongest weight, or covered, or all
\* that is asked for is soft.
LEMMA StatedIsDemanded ==
    ASSUME NEW view \in Views, NEW t \in DOMAIN Terms, Kind(t) \in Vocabulary \cup {"standard"},
           StatedWeights(Sections(view), t) # {}
    PROVE  \/ \E r \in ToSet(Requirements(view)) :
                 r.term = t /\ \A w \in StatedWeights(Sections(view), t) : r.weight >= w
           \/ \E r \in ToSet(Requirements(view)) : Covers(r.term, t)
           \/ Requirements(view) = <<>> /\ Kind(t) = "soft"
<1> DEFINE all == Candidates(view)
           kept == KeptMentions(view)
           weights == StatedWeights(Sections(view), t)
<1>1. \A w \in weights : \E c \in all : c.term = t /\ c.weight = w BY StatedIsCandidate
<1>2. /\ Chosen(all) \subseteq all
      /\ \A c \in all : \E d \in Chosen(all) : d.term = c.term
      /\ \A c \in all, d \in Chosen(all) : c.term = d.term => d.weight >= c.weight
  BY ChosenFacts
<1>3. /\ ToSet(Requirements(view)) = IF OnlySoft(view) THEN {} ELSE kept
      /\ OnlySoft(view) => Requirements(view) = <<>>
  BY RequirementsFacts
<1>4. PICK b \in Chosen(all) : b.term = t BY <1>1, <1>2
<1>5. \A w \in weights : b.weight >= w BY <1>1, <1>2, <1>4
<1>6. \A c : c \in kept <=> c \in Chosen(all) /\ ~\E d \in Chosen(all) : Covers(d.term, c.term)
  BY DEF KeptMentions, DropStandardPrefixes
<1>7. OnlySoft(view) <=> \A c \in kept : Kind(c.term) = "soft" BY DEF OnlySoft
<1> HIDE DEF all, kept, weights
<1>8. CASE b \in kept
  <2>1. CASE OnlySoft(view) BY <1>3, <1>4, <1>7, <1>8, <2>1
  <2>2. CASE ~OnlySoft(view) BY <1>3, <1>4, <1>5, <1>8, <2>2 DEF weights
  <2> QED BY <2>1, <2>2
<1>9. CASE b \notin kept
  <2>1. PICK d \in Chosen(all) : Covers(d.term, t) BY <1>4, <1>6, <1>9
  <2>2. Kind(d.term) = "standard" BY <2>1 DEF Covers
  <2>3. \A e : ~Covers(e, d.term) BY <2>2 DEF Covers
  <2>4. d \in kept BY <1>6, <2>3
  <2>5. ~OnlySoft(view) BY <1>7, <2>2, <2>4
  <2> QED BY <1>3, <2>1, <2>4, <2>5
<1> QED BY <1>8, <1>9

\* No term is demanded twice.
LEMMA DemandedOnce ==
    ASSUME NEW view \in Views, NEW i \in DOMAIN Requirements(view), NEW j \in DOMAIN Requirements(view),
           Requirements(view)[i].term = Requirements(view)[j].term
    PROVE  i = j
<1> DEFINE reqs == Requirements(view)
<1>1. KeptMentions(view) \subseteq Chosen(Candidates(view)) BY DEF KeptMentions, DropStandardPrefixes
<1>2. /\ ToSet(reqs) \subseteq KeptMentions(view) /\ Distinct(reqs)
  BY RequirementsFacts
<1>3. reqs[i] \in ToSet(reqs) /\ reqs[j] \in ToSet(reqs) BY DEF ToSet
<1>4. \A c, d \in Chosen(Candidates(view)) : c.term = d.term => c = d BY ChosenFacts
<1>5. reqs[i] = reqs[j] BY <1>1, <1>2, <1>3, <1>4
<1> HIDE DEF reqs
<1> QED BY <1>2, <1>5 DEF Distinct, reqs

-----------------------------------------------------------------------------
(* The lists of a profile *)

ItemStep(acc, n, starts, stops) ==
    IF acc.state = "done" THEN acc
    ELSE IF acc.state = "on" /\ Lines[n].heading \in stops THEN [acc EXCEPT !.state = "off"]
    ELSE IF Lines[n].heading \in starts THEN [acc EXCEPT !.state = "on"]
    ELSE IF acc.state = "on" /\ Lines[n].shaped THEN [acc EXCEPT !.state = "done"]
    ELSE IF acc.state = "on" THEN [acc EXCEPT !.items = Append(acc.items, n)]
    ELSE acc

NoItems == [state |-> "off", items |-> <<>>]

\* The loop of _extract_section_items.
Collected(scoring, starts, stops) ==
    FoldLeft(LAMBDA acc, n : ItemStep(acc, n, starts, stops), NoItems, scoring)

Collections(X) == [state : {"off", "on", "done"}, items : Seq(X)]

\* One turn of the loop.
LEMMA ItemStepTyped ==
    ASSUME NEW X, NEW acc \in Collections(X), NEW n \in X, NEW starts, NEW stops
    PROVE  ItemStep(acc, n, starts, stops) \in Collections(X)
<1> DEFINE set(s, items) == [state |-> s, items |-> items]
           more == Append(acc.items, n)
<1>1. acc.state \in {"off", "on", "done"} /\ acc.items \in Seq(X) /\ acc = set(acc.state, acc.items)
  BY DEF Collections
<1>2. more \in Seq(X) BY <1>1
<1>3. \A s \in {"off", "on", "done"}, items \in Seq(X) : set(s, items) \in Collections(X) BY DEF Collections
<1>4. ItemStep(acc, n, starts, stops) \in
        {acc, set("off", acc.items), set("on", acc.items), set("done", acc.items), set(acc.state, more)}
  BY <1>1 DEF ItemStep
<1> HIDE DEF set, more
<1> QED BY <1>1, <1>2, <1>3, <1>4

\* What the loop of _extract_section_items goes through.
ItemRun(trace, X, scoring, starts, stops) ==
    /\ trace[0] = NoItems
    /\ \A k \in 1..Len(scoring) : trace[k] = ItemStep(trace[k - 1], scoring[k], starts, stops)
    /\ \A k \in 0..Len(scoring) : trace[k] \in Collections(X)
    /\ Collected(scoring, starts, stops) = trace[Len(scoring)]

\* The scoring lines are read one after the other (_extract_section_items).
LEMMA ItemStepwise ==
    ASSUME NEW X, NEW scoring \in Seq(X), NEW starts, NEW stops
    PROVE  \E trace : ItemRun(trace, X, scoring, starts, stops)
<1> DEFINE n == Len(scoring)
           S == Collections(X)
           F == [p \in S \X (1..n) |-> ItemStep(p[1], scoring[p[2]], starts, stops)]
           Rec(it) == [s \in SUBSET (1..n) |->
                         IF s = {} THEN NoItems ELSE ItemStep(it[s \ {Max(s)}], scoring[Max(s)], starts, stops)]
           it == CHOOSE i : i = Rec(i)
<1>1. n \in Nat /\ DOMAIN scoring = 1..n OBVIOUS
<1>2. NoItems \in S BY DEF NoItems, Collections
<1>3. \A a \in S, i \in 1..n : ItemStep(a, scoring[i], starts, stops) \in S
  <2>1. \A i \in 1..n : scoring[i] \in X BY <1>1
  <2> QED BY <2>1, ItemStepTyped
<1>4. Collected(scoring, starts, stops) = it[1..n]
  BY <1>1 DEF Collected, FoldLeft, MapThenFoldSet
<1> HIDE DEF n, S
<1>5. \A a \in S, i \in 1..n : F[<<a, i>>] = ItemStep(a, scoring[i], starts, stops) /\ F[<<a, i>>] \in S
  BY <1>3
<1> HIDE DEF F
<1>6. PICK w : Solves(w, n, S, NoItems, F) BY <1>1, <1>2, <1>5, FoldExists
<1>7. w = Rec(w)
  <2>1. ASSUME NEW s \in SUBSET (1..n)
        PROVE  w[s] = IF s = {} THEN NoItems ELSE ItemStep(w[s \ {Max(s)}], scoring[Max(s)], starts, stops)
    <3>1. CASE s = {} BY <1>6, <3>1 DEF Solves
    <3>2. CASE s # {}
      <4>1. Max(s) \in 1..n /\ w[s \ {Max(s)}] \in S BY <1>1, <1>6, <3>2, SolvesTyped
      <4>2. w[s] = F[<<w[s \ {Max(s)}], Max(s)>>] BY <1>6, <3>2 DEF Solves
      <4> QED BY <1>5, <3>2, <4>1, <4>2
    <3> QED BY <3>1, <3>2
  <2>2. w = [s \in SUBSET (1..n) |-> w[s]] BY <1>6 DEF Solves
  <2> QED BY <2>1, <2>2
<1>8. it = Rec(it) BY <1>7
<1> HIDE DEF it
<1> DEFINE trace == [k \in 0..n |-> it[1..k]]
<1>9. trace[0] = NoItems BY <1>1, <1>8, IntervalPrefixes
<1>10. ASSUME NEW k \in 1..n PROVE trace[k] = ItemStep(trace[k - 1], scoring[k], starts, stops)
  <2>1. 1..k \in SUBSET (1..n) /\ 1..k # {} /\ Max(1..k) = k /\ (1..k) \ {k} = 1..(k - 1)
    BY <1>1, IntervalPrefixes
  <2>2. it[1..k] = ItemStep(it[(1..k) \ {Max(1..k)}], scoring[Max(1..k)], starts, stops) BY <1>8, <2>1
  <2>3. k \in 0..n /\ k - 1 \in 0..n BY <1>1
  <2> QED BY <2>1, <2>2, <2>3
<1>11. n \in 0..n BY <1>1
<1>12. trace[n] = it[1..n] BY <1>11
<1> HIDE DEF trace
<1> DEFINE P == {k \in 0..n : trace[k] \in S}
<1>13. 0 \in P BY <1>1, <1>2, <1>9
<1>14. ASSUME NEW k \in 1..n, k - 1 \in P PROVE k \in P
  BY <1>3, <1>10, <1>14
<1> HIDE DEF P
<1>15. 0..n \subseteq P BY <1>1, <1>13, <1>14, BoundedInduction
<1>16. \A k \in 0..n : trace[k] \in S BY <1>15 DEF P
<1>17. ItemRun(trace, X, scoring, starts, stops) BY <1>4, <1>9, <1>10, <1>12, <1>16 DEF ItemRun, n, S
<1> QED BY <1>17

\* The items of a section are lines that are scored.
LEMMA ItemsTyped ==
    ASSUME NEW X, NEW scoring \in Seq(X), NEW starts, NEW stops
    PROVE  SectionItems(scoring, starts, stops) \in Seq(X)
<1>1. PICK trace : ItemRun(trace, X, scoring, starts, stops) BY ItemStepwise
<1>2. Collected(scoring, starts, stops) \in Collections(X)
  <2>1. Len(scoring) \in 0..Len(scoring) OBVIOUS
  <2> QED BY <1>1, <2>1 DEF ItemRun
<1>3. SectionItems(scoring, starts, stops) = Collected(scoring, starts, stops).items
  BY DEF SectionItems, Collected, ItemStep, NoItems, FoldLeft, MapThenFoldSet
<1> QED BY <1>2, <1>3 DEF Collections

\* The keywords found so far, word by word.
DiscoveryRun(trace, X, one, two) ==
    /\ trace[0] = one
    /\ \A k \in 1..Len(two) : trace[k] = Discovered(trace[k - 1], two[k])
    /\ \A k \in 0..Len(two) : trace[k] \in Seq(X)
    /\ FoldLeft(Discovered, one, two) = trace[Len(two)]

\* A word after the other is discovered (_extract_keywords).
LEMMA DiscoveryStepwise ==
    ASSUME NEW X, NEW one \in Seq(X), NEW two \in Seq(X)
    PROVE  \E trace : DiscoveryRun(trace, X, one, two)
<1> DEFINE n == Len(two)
           S == Seq(X)
           F == [p \in S \X (1..n) |-> Discovered(p[1], two[p[2]])]
           Rec(it) == [s \in SUBSET (1..n) |->
                         IF s = {} THEN one ELSE Discovered(it[s \ {Max(s)}], two[Max(s)])]
           it == CHOOSE i : i = Rec(i)
<1>1. n \in Nat /\ DOMAIN two = 1..n OBVIOUS
<1>2. one \in S OBVIOUS
<1>3. \A a \in S, i \in 1..n : Discovered(a, two[i]) \in S
  <2>1. \A i \in 1..n : two[i] \in X BY <1>1
  <2> QED BY <2>1 DEF Discovered
<1>4. FoldLeft(Discovered, one, two) = it[1..n]
  BY <1>1 DEF FoldLeft, MapThenFoldSet
<1> HIDE DEF n, S
<1>5. \A a \in S, i \in 1..n : F[<<a, i>>] = Discovered(a, two[i]) /\ F[<<a, i>>] \in S
  BY <1>3
<1> HIDE DEF F
<1>6. PICK w : Solves(w, n, S, one, F) BY <1>1, <1>2, <1>5, FoldExists
<1>7. w = Rec(w)
  <2>1. ASSUME NEW s \in SUBSET (1..n)
        PROVE  w[s] = IF s = {} THEN one ELSE Discovered(w[s \ {Max(s)}], two[Max(s)])
    <3>1. CASE s = {} BY <1>6, <3>1 DEF Solves
    <3>2. CASE s # {}
      <4>1. Max(s) \in 1..n /\ w[s \ {Max(s)}] \in S BY <1>1, <1>6, <3>2, SolvesTyped
      <4>2. w[s] = F[<<w[s \ {Max(s)}], Max(s)>>] BY <1>6, <3>2 DEF Solves
      <4> QED BY <1>5, <3>2, <4>1, <4>2
    <3> QED BY <3>1, <3>2
  <2>2. w = [s \in SUBSET (1..n) |-> w[s]] BY <1>6 DEF Solves
  <2> QED BY <2>1, <2>2
<1>8. it = Rec(it) BY <1>7
<1> HIDE DEF it
<1> DEFINE trace == [k \in 0..n |-> it[1..k]]
<1>9. trace[0] = one BY <1>1, <1>8, IntervalPrefixes
<1>10. ASSUME NEW k \in 1..n PROVE trace[k] = Discovered(trace[k - 1], two[k])
  <2>1. 1..k \in SUBSET (1..n) /\ 1..k # {} /\ Max(1..k) = k /\ (1..k) \ {k} = 1..(k - 1)
    BY <1>1, IntervalPrefixes
  <2>2. it[1..k] = Discovered(it[(1..k) \ {Max(1..k)}], two[Max(1..k)]) BY <1>8, <2>1
  <2>3. k \in 0..n /\ k - 1 \in 0..n BY <1>1
  <2> QED BY <2>1, <2>2, <2>3
<1>11. n \in 0..n BY <1>1
<1>12. trace[n] = it[1..n] BY <1>11
<1> HIDE DEF trace
<1> DEFINE P == {k \in 0..n : trace[k] \in S}
<1>13. 0 \in P BY <1>1, <1>2, <1>9
<1>14. ASSUME NEW k \in 1..n, k - 1 \in P PROVE k \in P
  BY <1>3, <1>10, <1>14
<1> HIDE DEF P
<1>15. 0..n \subseteq P BY <1>1, <1>13, <1>14, BoundedInduction
<1>16. \A k \in 0..n : trace[k] \in S BY <1>15 DEF P
<1>17. DiscoveryRun(trace, X, one, two) BY <1>4, <1>9, <1>10, <1>12, <1>16 DEF DiscoveryRun, n, S
<1> QED BY <1>17

\* The keywords found are terms that scoring lines name (_extract_keywords).
LEMMA ToolsNamed ==
    ASSUME NEW Y, NEW scoring \in Seq(Y), NEW excluded
    PROVE  /\ KnownTools(scoring, excluded) \in Seq(DOMAIN Terms)
           /\ \A t \in ToSet(KnownTools(scoring, excluded)) : \E n \in ToSet(scoring) : Names(n, t)
<1> DEFINE at(n, t) == {k \in DOMAIN Lines[n].says : Lines[n].says[k].term = t}
           places(t) == UNION {{n} \X at(n, t) : n \in ToSet(scoring)}
           X == {t \in DOMAIN Terms : \E n \in ToSet(scoring) : Names(n, t)}
           said == [t \in DOMAIN Terms |-> TimesSaid(scoring, t)]
           tools == {t \in DOMAIN Terms : Terms[t].known /\ said[t] > 0}
           words == {t \in DOMAIN Terms \ excluded : Terms[t].single /\ ~Terms[t].known /\ said[t] > 1}
           longest == Sorted(tools, {p \in tools \X tools : Terms[p[1]].size > Terms[p[2]].size})
           commonest == Sorted(words, {p \in words \X words : said[p[1]] > said[p[2]]})
<1>1. KnownTools(scoring, excluded) = FoldLeft(Discovered, longest, commonest) BY DEF KnownTools
<1>2. ASSUME NEW t \in DOMAIN Terms, said[t] > 0 \/ said[t] > 1 PROVE t \in X
  <2>1. said[t] = Cardinality(places(t)) BY DEF TimesSaid
  <2>2. Cardinality({}) = 0 BY FS_EmptySet
  <2>3. places(t) # {}
    <3> HIDE DEF places, said
    <3> SUFFICES ASSUME places(t) = {} PROVE FALSE OBVIOUS
    <3>1. said[t] = 0 BY <2>1, <2>2
    <3> QED BY <1>2, <3>1
  <2>4. PICK n \in ToSet(scoring) : at(n, t) # {} BY <2>3
  <2>5. Names(n, t) BY <2>4 DEF Names, ToSet
  <2> QED BY <2>5
<1>3. tools \subseteq X /\ words \subseteq X /\ tools \subseteq DOMAIN Terms /\ words \subseteq DOMAIN Terms
  <2> HIDE DEF said, X
  <2> QED BY <1>2
<1>4. X \subseteq DOMAIN Terms OBVIOUS
<1> DEFINE bySize == {p \in tools \X tools : Terms[p[1]].size > Terms[p[2]].size}
           byCount == {p \in words \X words : said[p[1]] > said[p[2]]}
<1>5. longest = Sorted(tools, bySize) /\ commonest = Sorted(words, byCount) OBVIOUS
<1> HIDE DEF tools, words, X, bySize, byCount, longest, commonest
<1>6. IsFiniteSet(tools) /\ IsFiniteSet(words) BY <1>3, PostingAssumption, FS_Subset
<1>7. longest \in Seq(tools) /\ ToSet(longest) = tools BY <1>5, <1>6, SortedEnumerates
<1>8. commonest \in Seq(words) /\ ToSet(commonest) = words BY <1>5, <1>6, SortedEnumerates
<1>9. longest \in Seq(X) /\ commonest \in Seq(X) BY <1>3, <1>7, <1>8, ListOver
<1>10. FoldLeft(Discovered, longest, commonest) \in Seq(X)
  <2>1. PICK trace : DiscoveryRun(trace, X, longest, commonest) BY <1>9, DiscoveryStepwise
  <2>2. Len(commonest) \in 0..Len(commonest) BY <1>9
  <2> QED BY <2>1, <2>2 DEF DiscoveryRun
<1> DEFINE found == KnownTools(scoring, excluded)
<1>11. found \in Seq(X) BY <1>1, <1>10
<1> HIDE DEF found
<1>12. ToSet(found) \subseteq X BY <1>11 DEF ToSet
<1>13. found \in Seq(DOMAIN Terms) BY <1>4, <1>11, <1>12, ListOver
<1> QED BY <1>12, <1>13 DEF X, found

\* Keywords put first are the same keywords (_prioritize_required_keywords).
LEMMA PrioritizedKeeps ==
    ASSUME NEW X, NEW terms \in Seq(X), NEW required
    PROVE  Prioritized(terms, required) \in Seq(X) /\ ToSet(Prioritized(terms, required)) \subseteq ToSet(terms)
<1> DEFINE named == {t \in ToSet(terms) : \E n \in ToSet(required) : Names(n, t)}
           T == ToSet(terms)
           one == Only(terms, named)
           two == Only(terms, T \ named)
<1>1. Prioritized(terms, required) = one \o two BY DEF Prioritized
<1>2. T \subseteq X /\ terms \in Seq(T)
  <2>1. T \subseteq X BY DEF ToSet
  <2> QED BY <2>1, ListOver
<1> HIDE DEF T
<1>3. one \in Seq(T) /\ two \in Seq(T) BY <1>2, OnlyFromSequence
<1> HIDE DEF one, two
<1>4. one \o two \in Seq(T) BY <1>3
<1> DEFINE all == one \o two
<1>5. ToSet(all) \subseteq T
  <2> HIDE DEF all
  <2> QED BY <1>4 DEF ToSet, all
<1>6. all \in Seq(X) BY <1>2, <1>4, <1>5, ListOver
<1> QED BY <1>1, <1>5, <1>6 DEF T

\* The lines of the requirements of a section stand in that section.
LEMMA LinesOfTyped ==
    ASSUME NEW view \in Views, NEW section, section # "title"
    PROVE  LinesOf(Requirements(view), section) \in Seq(ToSet(view.scoring))
<1> DEFINE reqs == Requirements(view)
           X == ToSet(view.scoring)
           All == Candidates(view)
           chosen == {r \in ToSet(reqs) : r.section = section}
           stating == Only(reqs, chosen)
           lines == [i \in DOMAIN stating |-> stating[i].line]
           none == <<>>
<1>1. LinesOf(reqs, section) = Merge(none, lines) BY DEF LinesOf
<1>2. reqs \in Seq(All) BY RequirementsFacts
<1> HIDE DEF reqs
<1>3. \A r \in chosen : r.section = section OBVIOUS
<1> HIDE DEF chosen
<1>4. stating \in Seq(All) /\ ToSet(stating) = ToSet(reqs) \cap chosen BY <1>2, OnlyFromSequence
<1> HIDE DEF stating
<1>5. Len(stating) \in Nat /\ DOMAIN stating = 1..Len(stating) BY <1>4
<1>6. \A i \in DOMAIN stating : stating[i] \in All /\ stating[i].section = section
  BY <1>3, <1>4, <1>5 DEF ToSet
<1> HIDE DEF All
<1>7. \A i \in DOMAIN stating : stating[i].line \in X BY <1>6, CandidateFacts DEF All
<1> HIDE DEF X
<1>8. lines \in Seq(X) BY <1>5, <1>7
<1>9. none \in Seq(X) OBVIOUS
<1> HIDE DEF none, lines
<1>10. Merge(none, lines) \in Seq(X) BY <1>8, <1>9, MergeGains
<1> QED BY <1>1, <1>10 DEF reqs, X

\* The keywords are terms, and a line that may be read names each of them.
InPosting(terms, view) ==
    /\ terms \in Seq(DOMAIN Terms)
    /\ \A t \in ToSet(terms) : \E n \in ToSet(view.target) \cup ToSet(view.scoring) : Names(n, t)

\* What the parser finds without a provider is in the part of the posting that
\* may be read, its lists in the part that is scored (parse_jd).
Found(jd, view) ==
    /\ jd.title \in ToSet(view.target) \cup {0}
    /\ \A list \in AnswerLists : jd[list] \in Seq(ToSet(view.scoring))
    /\ InPosting(jd.keywords, view)

\* It keeps a limited number of keywords.
LEMMA ProfileFound ==
    ASSUME NEW view \in Views, NEW lines
    PROVE  LET p == Profile(lines, view, Requirements(view))
           IN  Found(p, view) /\ Len(p.keywords) <= KeywordLimit
<1> DEFINE X == ToSet(view.scoring)
           reqs == Requirements(view)
           p == Profile(lines, view, reqs)
           title == TitleLine(view)
           names == Organizations(view) \cup {CompanyOf(lines, view)}
           tools == KnownTools(view.scoring, WordsOfHiring(title, names))
           items(starts, stops) == SectionItems(view.scoring, starts, stops)
           some(limit) == WithKeywords(view.scoring, Limited(tools, limit))
           stated == OrElse(items({"required"}, {"preferred"}), some(6))
           wished == items({"preferred"}, {})
           duties == OrElse(items({"responsibility", "overview"}, {}), some(5))
           terms == OrElse(TermsOf(reqs), Prioritized(tools, stated))
<1>1. view.scoring \in Seq(DOMAIN Lines) /\ view.target \in Seq(DOMAIN Lines) BY DEF Views
<1>2. view.scoring \in Seq(X) BY <1>1, ListOver
<1>3. /\ p.title = title
      /\ p.required = OrElse(LinesOf(reqs, "required"), Limited(stated, ListLimit))
      /\ p.preferred = OrElse(LinesOf(reqs, "preferred"), Limited(wished, ListLimit))
      /\ p.responsibilities = OrElse(LinesOf(reqs, "responsibility"), Limited(duties, ListLimit))
      /\ p.keywords = Limited(terms, KeywordLimit)
  BY DEF Profile
<1>4. ListLimit \in Nat /\ KeywordLimit \in Nat BY PostingAssumption
<1>5. \A limit : some(limit) \in Seq(X)
  <2> TAKE limit
  <2> DEFINE set == {n \in ToSet(view.scoring) : \E t \in ToSet(Limited(tools, limit)) : Names(n, t)}
  <2>1. some(limit) = Only(view.scoring, set) BY DEF WithKeywords
  <2> HIDE DEF set, X
  <2> QED BY <1>2, <2>1, OnlyFromSequence
<1>6. \A section \in Mined : LinesOf(reqs, section) \in Seq(X)
  <2>1. "title" \notin Mined BY DEF Mined
  <2> QED BY <2>1, LinesOfTyped
<1>7. tools \in Seq(DOMAIN Terms) /\ \A t \in ToSet(tools) : \E n \in X : Names(n, t) BY <1>1, ToolsNamed
<1>8. reqs \in Seq(Candidates(view)) BY RequirementsFacts
<1> HIDE DEF p, reqs, X, tools, some, title
<1>9. \A starts, stops : items(starts, stops) \in Seq(X) BY <1>2, ItemsTyped
<1> HIDE DEF items
<1>10. stated \in Seq(X) /\ wished \in Seq(X) /\ duties \in Seq(X) BY <1>5, <1>9 DEF OrElse
<1> HIDE DEF stated, wished, duties
<1>11. /\ Limited(stated, ListLimit) \in Seq(X) /\ Limited(wished, ListLimit) \in Seq(X)
       /\ Limited(duties, ListLimit) \in Seq(X)
  BY <1>4, <1>10, LimitedPart
<1>12. \A list \in AnswerLists : p[list] \in Seq(X) BY <1>3, <1>6, <1>11 DEF OrElse, Mined, AnswerLists
<1>13. InPosting(TermsOf(reqs), view)
  <2> DEFINE stating == TermsOf(reqs)
  <2>1. Len(reqs) \in Nat /\ DOMAIN reqs = 1..Len(reqs) BY <1>8
  <2>2. \A i \in DOMAIN reqs : /\ reqs[i].term \in DOMAIN Terms
                               /\ reqs[i].line \in ToSet(view.target) \cup ToSet(view.scoring)
                               /\ Names(reqs[i].line, reqs[i].term)
    <3> TAKE i \in DOMAIN reqs
    <3>1. reqs[i] \in Candidates(view) BY <1>8, <2>1
    <3> QED BY <3>1, CandidateFacts DEF CandidateRecords
  <2>3. DOMAIN stating = DOMAIN reqs /\ \A i \in DOMAIN reqs : stating[i] = reqs[i].term BY DEF TermsOf
  <2>4. stating \in Seq(DOMAIN Terms)
    <3>1. stating = [i \in 1..Len(reqs) |-> reqs[i].term] BY <2>1 DEF TermsOf
    <3>2. \A i \in 1..Len(reqs) : reqs[i].term \in DOMAIN Terms BY <2>1, <2>2
    <3> HIDE DEF stating
    <3> QED BY <2>1, <3>1, <3>2
  <2>5. \A t \in ToSet(stating) : \E i \in DOMAIN reqs : t = reqs[i].term BY <2>3 DEF ToSet
  <2> HIDE DEF stating
  <2> QED BY <2>2, <2>4, <2>5 DEF InPosting, stating
<1>14. InPosting(Prioritized(tools, stated), view)
  <2>1. /\ Prioritized(tools, stated) \in Seq(DOMAIN Terms)
        /\ ToSet(Prioritized(tools, stated)) \subseteq ToSet(tools)
    BY <1>7, PrioritizedKeeps
  <2> QED BY <1>7, <2>1 DEF InPosting, X
<1>15. InPosting(terms, view) BY <1>13, <1>14 DEF OrElse
<1> HIDE DEF terms
<1>16. InPosting(p.keywords, view) /\ Len(p.keywords) <= KeywordLimit
  <2>1. terms \in Seq(DOMAIN Terms) BY <1>15 DEF InPosting
  <2>2. /\ p.keywords \in Seq(DOMAIN Terms) /\ ToSet(p.keywords) \subseteq ToSet(terms)
        /\ Len(p.keywords) <= KeywordLimit
    BY <1>3, <1>4, <2>1, LimitedPart
  <2> QED BY <1>15, <2>2 DEF InPosting
<1>17. p.title \in ToSet(view.target) \cup {0} BY <1>1, <1>3, TitleIsRead DEF title
<1> QED BY <1>12, <1>16, <1>17 DEF Found, p, reqs, X

-----------------------------------------------------------------------------
(* What a provider adds *)

\* What is accepted of an answer is some of what it gives (list_field).
LEMMA AcceptedPart ==
    ASSUME NEW X, NEW values \in Seq(X)
    PROVE  Accepted(values) \in Seq(X) /\ ToSet(Accepted(values)) \subseteq ToSet(values)
<1> DEFINE none == <<>>
           all == Merge(none, values)
<1>1. Accepted(values) = Limited(all, AnswerLimit) BY DEF Accepted
<1>2. none \in Seq(X) /\ ToSet(none) = {} BY DEF ToSet
<1> HIDE DEF none
<1>3. all \in Seq(X) /\ ToSet(all) = ToSet(none) \cup ToSet(values)
  <2>1. none \in Seq(X) BY <1>2
  <2>2. /\ Merge(none, values) \in Seq(X)
        /\ ToSet(Merge(none, values)) = ToSet(none) \cup ToSet(values)
    BY <2>1, MergeGains
  <2> QED BY <2>2
<1> HIDE DEF all
<1>4. AnswerLimit \in Nat BY PostingAssumption
<1>5. Limited(all, AnswerLimit) \in Seq(X) /\ ToSet(Limited(all, AnswerLimit)) \subseteq ToSet(all)
  BY <1>3, <1>4, LimitedPart
<1> QED BY <1>1, <1>2, <1>3, <1>5

\* What an answer gives is in the part of the posting that is scored
\* (filter_hygienic_jd_values).
LEMMA GivenIsScored ==
    ASSUME NEW view \in Views, NEW answer \in Answers, NEW field \in AnswerLists
    PROVE  Given(answer, field, view) \in Seq(ToSet(view.scoring))
<1> DEFINE X == ToSet(view.scoring)
           retyped == answer.retyped[field]
           numbers == Only(answer[field], DOMAIN view.scoring)
           resolved == [i \in DOMAIN numbers |-> view.scoring[numbers[i]]]
           lines == IF retyped # <<>> THEN retyped ELSE resolved
           clean == {n \in X : ~Lines[n].contact /\ ~ClosesRole(Lines[n])}
<1>1. view.scoring \in Seq(DOMAIN Lines) BY DEF Views
<1>2. answer[field] \in Seq(Int) /\ retyped \in Seq(DOMAIN Lines) BY AnswersAssumption
<1>3. Given(answer, field, view) = Accepted(Only(lines, clean)) BY DEF Given, Hygienic, Resolved
<1>4. resolved \in Seq(DOMAIN Lines)
  <2>1. numbers \in Seq(Int) /\ ToSet(numbers) = ToSet(answer[field]) \cap DOMAIN view.scoring
    BY <1>2, OnlyFromSequence
  <2> HIDE DEF numbers
  <2>2. Len(numbers) \in Nat /\ DOMAIN numbers = 1..Len(numbers) BY <2>1
  <2>3. \A i \in DOMAIN numbers : numbers[i] \in DOMAIN view.scoring BY <2>1, <2>2 DEF ToSet
  <2>4. \A i \in DOMAIN numbers : view.scoring[numbers[i]] \in DOMAIN Lines BY <1>1, <2>3
  <2> QED BY <2>2, <2>4
<1> HIDE DEF resolved, retyped
<1>5. lines \in Seq(DOMAIN Lines) BY <1>2, <1>4
<1>6. clean \subseteq X OBVIOUS
<1> HIDE DEF lines, clean
<1> DEFINE kept == Only(lines, clean)
<1>7. kept \in Seq(DOMAIN Lines) /\ ToSet(kept) = ToSet(lines) \cap clean
  BY <1>5, OnlyFromSequence
<1>8. kept \in Seq(X) BY <1>6, <1>7, ListOver
<1> HIDE DEF kept
<1>9. Accepted(kept) \in Seq(X) BY <1>8, AcceptedPart
<1> QED BY <1>3, <1>9 DEF X, kept

\* What a provider completes is found in the posting as well, and the parser's
\* findings stay (_merge_jd_profile).
Completed(new, old, view) ==
    /\ Found(new, view)
    /\ \A list \in AnswerLists \ {"preferred"} : ToSet(Limited(old[list], ListLimit)) \subseteq ToSet(new[list])
    /\ ToSet(new.required) \cap ToSet(new.preferred) = {}
    /\ ToSet(old.keywords) \subseteq ToSet(new.keywords)
    /\ old.title # 0 => new.title = old.title
    /\ old.company # None => new.company = old.company

LEMMA MergedIsCompleted ==
    ASSUME NEW view \in Views, NEW lines, NEW answer \in Answers
    PROVE  LET old == Profile(lines, view, Requirements(view))
           IN  Completed(MergedProfile(old, answer, view), old, view)
<1> DEFINE X == ToSet(view.scoring)
           old == Profile(lines, view, Requirements(view))
           new == MergedProfile(old, answer, view)
           required == MergedList(old.required, Given(answer, "required", view), ListLimit)
           preferred == MergedList(old.preferred, Given(answer, "preferred", view), 2 * ListLimit)
           duties == MergedList(old.responsibilities, Given(answer, "responsibilities", view), ListLimit)
           free == ToSet(preferred) \ ToSet(required)
           said == {t \in ToSet(answer.keywords) :
                      /\ ~NamesEmployer(t, Organizations(view) \cup {old.company})
                      /\ \E n \in ToSet(view.scoring) : Names(n, t)}
           terms == Accepted(Only(answer.keywords, said))
<1>1. Found(old, view) /\ Len(old.keywords) <= KeywordLimit BY ProfileFound
<1>2. /\ new.title = IF old.title = 0 /\ SafeTitle(answer.title, view) THEN answer.title ELSE old.title
      /\ new.company = IF old.company = None /\ SafeCompany(answer.company, view)
                       THEN answer.company ELSE old.company
      /\ new.required = required
      /\ new.preferred = Limited(Only(preferred, free), ListLimit)
      /\ new.responsibilities = duties
      /\ new.keywords = MergedList(old.keywords, terms, KeywordLimit)
  <2> DEFINE a == old.title
             b == old.company
             c == old.required
             d == old.preferred
             e == old.responsibilities
             f == old.keywords
  <2>1. old = [title |-> a, company |-> b, required |-> c, preferred |-> d,
               responsibilities |-> e, keywords |-> f]
    BY DEF Profile
  <2> HIDE DEF old
  <2> QED BY <2>1 DEF MergedProfile, HygienicTerms
<1>3. ListLimit \in Nat /\ 2 * ListLimit \in Nat /\ KeywordLimit \in Nat BY PostingAssumption
<1>4. /\ old.title \in ToSet(view.target) \cup {0}
      /\ old.required \in Seq(X) /\ old.preferred \in Seq(X) /\ old.responsibilities \in Seq(X)
      /\ old.keywords \in Seq(DOMAIN Terms)
      /\ \A t \in ToSet(old.keywords) : \E n \in ToSet(view.target) \cup ToSet(view.scoring) : Names(n, t)
  BY <1>1 DEF Found, InPosting, AnswerLists
<1>5. /\ Given(answer, "required", view) \in Seq(X)
      /\ Given(answer, "preferred", view) \in Seq(X)
      /\ Given(answer, "responsibilities", view) \in Seq(X)
  BY GivenIsScored DEF AnswerLists
<1> HIDE DEF old, new, X, terms
<1>6. required \in Seq(X) /\ ToSet(Limited(old.required, ListLimit)) \subseteq ToSet(required)
  BY <1>3, <1>4, <1>5, FirstListStays
<1>7. preferred \in Seq(X) BY <1>3, <1>4, <1>5, FirstListStays
<1>8. duties \in Seq(X) /\ ToSet(Limited(old.responsibilities, ListLimit)) \subseteq ToSet(duties)
  BY <1>3, <1>4, <1>5, FirstListStays
<1> HIDE DEF required, preferred, duties
<1>9. free \cap ToSet(required) = {} OBVIOUS
<1> HIDE DEF free
<1>10. /\ Limited(Only(preferred, free), ListLimit) \in Seq(X)
       /\ ToSet(Limited(Only(preferred, free), ListLimit)) \cap ToSet(required) = {}
  <2> DEFINE some == Only(preferred, free)
  <2>1. some \in Seq(X) /\ ToSet(some) = ToSet(preferred) \cap free BY <1>7, OnlyFromSequence
  <2> HIDE DEF some
  <2>2. Limited(some, ListLimit) \in Seq(X) /\ ToSet(Limited(some, ListLimit)) \subseteq ToSet(some)
    BY <1>3, <2>1, LimitedPart
  <2> QED BY <1>9, <2>1, <2>2 DEF some
<1>11. terms \in Seq(DOMAIN Terms) /\ \A t \in ToSet(terms) : \E n \in ToSet(view.scoring) : Names(n, t)
  <2> DEFINE kept == Only(answer.keywords, said)
  <2>1. answer.keywords \in Seq(DOMAIN Terms) BY AnswersAssumption
  <2>2. \A t \in said : \E n \in ToSet(view.scoring) : Names(n, t) OBVIOUS
  <2>3. terms = Accepted(kept) BY DEF terms
  <2> HIDE DEF said
  <2>4. kept \in Seq(DOMAIN Terms) /\ ToSet(kept) = ToSet(answer.keywords) \cap said
    BY <2>1, OnlyFromSequence
  <2> HIDE DEF kept
  <2>5. terms \in Seq(DOMAIN Terms) /\ ToSet(terms) \subseteq ToSet(kept) BY <2>3, <2>4, AcceptedPart
  <2> QED BY <2>2, <2>4, <2>5
<1>12. /\ new.keywords \in Seq(DOMAIN Terms)
       /\ ToSet(new.keywords) \subseteq ToSet(old.keywords) \cup ToSet(terms)
       /\ ToSet(Limited(old.keywords, KeywordLimit)) \subseteq ToSet(new.keywords)
  <2> DEFINE found == old.keywords
             all == MergedList(found, terms, KeywordLimit)
  <2>1. new.keywords = all BY <1>2
  <2>2. found \in Seq(DOMAIN Terms) /\ terms \in Seq(DOMAIN Terms) BY <1>4, <1>11
  <2> HIDE DEF found, said
  <2>3. /\ all \in Seq(DOMAIN Terms) /\ ToSet(all) \subseteq ToSet(found) \cup ToSet(terms)
        /\ ToSet(Limited(found, KeywordLimit)) \subseteq ToSet(all)
    BY <1>3, <2>2, FirstListStays
  <2> HIDE DEF all
  <2> QED BY <2>1, <2>3 DEF found
<1>13. InPosting(new.keywords, view) BY <1>4, <1>11, <1>12 DEF InPosting
<1>14. ToSet(old.keywords) \subseteq ToSet(new.keywords)
  <2>1. ToSet(Limited(old.keywords, KeywordLimit)) = ToSet(old.keywords) BY <1>1, <1>3, <1>4, LimitedPart
  <2> QED BY <1>12, <2>1
<1>15. new.title \in ToSet(view.target) \cup {0} /\ (old.title # 0 => new.title = old.title)
  BY <1>2, <1>4 DEF SafeTitle
<1>16. old.company # None => new.company = old.company BY <1>2
<1>17. Found(new, view) BY <1>2, <1>6, <1>8, <1>10, <1>13, <1>15 DEF Found, AnswerLists, X
<1>18. Completed(new, old, view)
  BY <1>2, <1>6, <1>8, <1>10, <1>14, <1>15, <1>16, <1>17 DEF Completed, AnswerLists
<1> QED BY <1>18 DEF old, new

-----------------------------------------------------------------------------
(* Every posting *)

Before(lines) == Profile(lines, ViewOf(lines), Requirements(ViewOf(lines)))

\* What was parsed is a function of the lines read, which is how the answer of a
\* provider, later, can be held against the same view (parse_jd).
ParsedInv ==
    /\ opening \subseteq DOMAIN Lines
    /\ posting \in Seq(DOMAIN Lines)
    /\ Parsed => requirements = Requirements(ViewOf(posting))
    /\ stage = "parsed" => profile = Before(posting)
    /\ stage = "asked" => \E answer \in Answers :
                             profile = MergedProfile(Before(posting), answer, ViewOf(posting))
    /\ IsFiniteSet(demands)

\* The lists of a posting that was parsed, asked about or not, are found in it.
LEMMA ParsedIsFound ==
    ASSUME ParsedInv, Parsed
    PROVE  /\ ViewOf(posting) \in Views
           /\ Found(profile, ViewOf(posting))
<1>1. ViewOf(posting) \in Views BY ViewInRole DEF ParsedInv
<1> DEFINE view == ViewOf(posting)
<1>2. Before(posting) = Profile(posting, view, Requirements(view)) BY DEF Before
<1> HIDE DEF view
<1>3. CASE stage = "parsed" BY <1>1, <1>2, <1>3, ProfileFound DEF ParsedInv, view
<1>4. CASE stage = "asked"
  <2>1. PICK answer \in Answers : profile = MergedProfile(Before(posting), answer, view)
    BY <1>4 DEF ParsedInv, view
  <2>2. Completed(profile, Before(posting), view) BY <1>1, <1>2, <2>1, MergedIsCompleted DEF view
  <2> QED BY <1>1, <2>2 DEF Completed, view
<1> QED BY <1>3, <1>4 DEF Parsed

\* A profile has finitely many demands (build_evidence_matrix).
LEMMA MatrixFinite ==
    ASSUME NEW X, NEW reqs \in Seq(X), NEW jd, jd.keywords \in Seq(DOMAIN Terms)
    PROVE  IsFiniteSet(Matrix(reqs, jd))
<1> DEFINE f == [r \in ToSet(reqs) |-> Demand(r.term, r.section # "preferred", TRUE)]
           K == ToSet(jd.keywords)
           on(required) == [t \in K |-> Demand(t, required, FALSE)]
           some(required, set) == {Demand(t, required, FALSE) : t \in set}
<1>1. IsFiniteSet(ToSet(reqs)) /\ IsFiniteSet(K) BY FinitelyManyElements
<1>2. IsFiniteSet({Demand(r.term, r.section # "preferred", TRUE) : r \in ToSet(reqs)})
  <2>1. IsFiniteSet({f[r] : r \in ToSet(reqs)}) BY <1>1, FiniteImage
  <2>2. {f[r] : r \in ToSet(reqs)} = {Demand(r.term, r.section # "preferred", TRUE) : r \in ToSet(reqs)}
    OBVIOUS
  <2> QED BY <2>1, <2>2
<1>3. ASSUME NEW required, NEW set \in SUBSET K PROVE IsFiniteSet(some(required, set))
  <2>1. IsFiniteSet(set) BY <1>1, FS_Subset
  <2> DEFINE g == on(required)
  <2>2. set \subseteq DOMAIN g /\ \A t \in set : g[t] = Demand(t, required, FALSE) OBVIOUS
  <2> HIDE DEF g
  <2>3. IsFiniteSet({g[t] : t \in set}) BY <2>1, <2>2, FiniteImage
  <2>4. some(required, set) = {g[t] : t \in set} BY <2>2
  <2> QED BY <2>3, <2>4
<1>4. ListLimit \in Nat BY PostingAssumption
<1>5. ToSet(Limited(jd.keywords, ListLimit)) \subseteq K BY <1>4, LimitedPart
<1>6. \A lines : ToSet(Named(jd.keywords, lines)) \subseteq K
  <2> TAKE lines
  <2> DEFINE set == {t \in ToSet(jd.keywords) : \E n \in ToSet(lines) : Names(n, t)}
  <2>1. Named(jd.keywords, lines) = Only(jd.keywords, set) BY DEF Named
  <2> HIDE DEF set
  <2>2. ToSet(Only(jd.keywords, set)) = K \cap set BY OnlyFromSequence
  <2> QED BY <2>1, <2>2
<1> HIDE DEF K, some
<1>7. \A a, b \in SUBSET K : IsFiniteSet(some(TRUE, a) \cup some(FALSE, b \ a))
  <2> TAKE a, b \in SUBSET K
  <2>1. b \ a \in SUBSET K OBVIOUS
  <2>2. IsFiniteSet(some(TRUE, a)) /\ IsFiniteSet(some(FALSE, b \ a)) BY <1>3, <2>1
  <2> QED BY <2>2, FS_Union
<1>8. CASE reqs # <<>> BY <1>2, <1>8 DEF Matrix
<1>9. CASE reqs = <<>>
  <2> DEFINE stated == ToSet(Named(jd.keywords, jd.required))
             preferred == ToSet(Named(jd.keywords, jd.preferred))
             duties == ToSet(Named(jd.keywords, jd.responsibilities)) \ (stated \cup preferred)
             required == IF stated \cup duties # {} THEN stated \cup duties
                         ELSE ToSet(Limited(jd.keywords, ListLimit)) \ preferred
  <2>1. Matrix(reqs, jd) = some(TRUE, required) \cup some(FALSE, preferred \ required)
    BY <1>9 DEF Matrix, some
  <2>2. required \in SUBSET K /\ preferred \in SUBSET K BY <1>5, <1>6
  <2> HIDE DEF required, preferred
  <2> QED BY <1>7, <2>1, <2>2
<1> QED BY <1>8, <1>9

LEMMA ParsedInit == Init => ParsedInv
BY AnswersAssumption, FS_EmptySet DEF Init, ParsedInv, Parsed

LEMMA ParsedStep == ParsedInv /\ [Next]_vars => ParsedInv'
<1> SUFFICES ASSUME ParsedInv, [Next]_vars PROVE ParsedInv' OBVIOUS
<1>1. ASSUME NEW n \in opening, Read(n) PROVE ParsedInv'
  <2>1. n \in DOMAIN Lines BY DEF ParsedInv
  <2>2. posting' \in Seq(DOMAIN Lines) BY <1>1, <2>1 DEF ParsedInv, Read
  <2> QED BY <1>1, <2>2 DEF ParsedInv, Parsed, Read
<1>2. CASE Parse
  <2>1. /\ requirements' = Requirements(ViewOf(posting)) /\ posting' = posting /\ stage' = "parsed"
        /\ profile' = Before(posting) /\ opening' = opening /\ demands' = demands
    BY <1>2 DEF Parse, Before
  <2> QED BY <2>1 DEF ParsedInv, Parsed
<1>3. ASSUME NEW answer \in Answers, Ask(answer) PROVE ParsedInv'
  <2>1. /\ posting' = posting /\ stage' = "asked" /\ stage = "parsed" /\ requirements' = requirements
        /\ profile' = MergedProfile(profile, answer, ViewOf(posting))
        /\ opening' = opening /\ demands' = demands
    BY <1>3 DEF Ask
  <2>2. profile = Before(posting) BY <2>1 DEF ParsedInv
  <2> QED BY <2>1, <2>2 DEF ParsedInv, Parsed
<1>4. CASE Match
  <2>1. Parsed BY <1>4 DEF Match, Parsed
  <2>2. ViewOf(posting) \in Views /\ Found(profile, ViewOf(posting)) BY <2>1, ParsedIsFound
  <2>3. profile.keywords \in Seq(DOMAIN Terms) BY <2>2 DEF Found, InPosting
  <2>4. requirements \in Seq(Candidates(ViewOf(posting))) BY <2>1, <2>2, RequirementsFacts DEF ParsedInv
  <2>5. IsFiniteSet(Matrix(requirements, profile)) BY <2>3, <2>4, MatrixFinite
  <2>6. demands' = Matrix(requirements, profile) /\ opening' = {} /\ posting' = <<>> /\ stage' = "matching"
    BY <1>4 DEF Match
  <2> QED BY <2>5, <2>6 DEF ParsedInv, Parsed
<1>5. ASSUME NEW f \in DOMAIN Facts, Add(f) PROVE ParsedInv' BY <1>5 DEF ParsedInv, Parsed, Add
<1>6. CASE UNCHANGED vars BY <1>6 DEF ParsedInv, Parsed, vars
<1> QED BY <1>1, <1>2, <1>3, <1>4, <1>5, <1>6 DEF Next

\* What was parsed is what the lines read say, at every step.
LEMMA ParsedHolds == Spec => []ParsedInv
BY ParsedInit, ParsedStep, PTL DEF Spec

\* No line below the end of the role contributes to anything, whatever the
\* posting and the answer of the provider (sanitize_jd_for_parsing).
THEOREM NothingReadAfterClosing == Spec => []NothingAfterClosing
<1>1. ASSUME ParsedInv PROVE NothingAfterClosing
  <2> SUFFICES ASSUME Parsed PROVE NothingAfterClosing BY DEF NothingAfterClosing
  <2> DEFINE view == ViewOf(posting)
             role == InRole(posting)
  <2>1. RoleLines = role BY DEF RoleLines, InRole, Closed
  <2>2. view \in Views /\ Found(profile, view) BY <1>1, ParsedIsFound
  <2>3. ToSet(view.target) \subseteq role /\ ToSet(view.scoring) \subseteq role
    BY <1>1, ViewInRole DEF ParsedInv
  <2>4. requirements = Requirements(view) BY <1>1 DEF ParsedInv
  <2> HIDE DEF view, role
  <2>5. \A r \in ToSet(requirements) : r.line \in role
    <3>1. requirements \in Seq(Candidates(view)) BY <2>2, <2>4, RequirementsFacts
    <3>2. \A r \in ToSet(requirements) : r \in Candidates(view) BY <3>1 DEF ToSet
    <3> QED BY <2>2, <2>3, <3>2, CandidateFacts
  <2>6. /\ profile.required \in Seq(ToSet(view.scoring)) /\ profile.preferred \in Seq(ToSet(view.scoring))
        /\ profile.responsibilities \in Seq(ToSet(view.scoring))
        /\ \A t \in ToSet(profile.keywords) :
              \E n \in ToSet(view.target) \cup ToSet(view.scoring) : Names(n, t)
        /\ profile.title \in ToSet(view.target) \cup {0}
    BY <2>2 DEF Found, InPosting, AnswerLists
  <2>7. \A list \in {profile.required, profile.preferred, profile.responsibilities} : ToSet(list) \subseteq role
    <3>1. \A list \in Seq(ToSet(view.scoring)) : ToSet(list) \subseteq ToSet(view.scoring) BY DEF ToSet
    <3> QED BY <2>3, <2>6, <3>1
  <2> QED BY <2>1, <2>3, <2>5, <2>6, <2>7 DEF NothingAfterClosing
<1> QED BY <1>1, ParsedHolds, PTL

\* What a provider answers completes what the parser found and takes nothing of
\* it back, whatever it answers (_merge_jd_profile).
THEOREM ProviderOnlyCompletes == Spec => ProviderAddsFromSource
<1>1. ASSUME ParsedInv, [Next]_vars, stage = "parsed", stage' = "asked"
      PROVE  /\ \A list \in AnswerLists : ToSet(profile'[list]) \subseteq ToSet(ViewOf(posting).scoring)
             /\ \A list \in AnswerLists \ {"preferred"} :
                   ToSet(Limited(profile[list], ListLimit)) \subseteq ToSet(profile'[list])
             /\ ToSet(profile'.required) \cap ToSet(profile'.preferred) = {}
             /\ ToSet(profile.keywords) \subseteq ToSet(profile'.keywords)
             /\ profile.title # 0 => profile'.title = profile.title
             /\ profile.company # None => profile'.company = profile.company
  <2> DEFINE view == ViewOf(posting)
  <2>1. view \in Views BY <1>1, ViewInRole DEF ParsedInv
  <2>2. requirements = Requirements(view) /\ profile = Profile(posting, view, Requirements(view))
    BY <1>1 DEF ParsedInv, Parsed, Before
  <2>3. PICK answer \in Answers : profile' = MergedProfile(profile, answer, view)
    BY <1>1 DEF Next, vars, Read, Parse, Ask, Match, Add
  <2> HIDE DEF view
  <2>4. Completed(profile', profile, view) BY <2>1, <2>2, <2>3, MergedIsCompleted
  <2>5. \A list \in AnswerLists : ToSet(profile'[list]) \subseteq ToSet(view.scoring)
    <3>1. \A list \in AnswerLists : profile'[list] \in Seq(ToSet(view.scoring)) BY <2>4 DEF Completed, Found
    <3>2. \A lines \in Seq(ToSet(view.scoring)) : ToSet(lines) \subseteq ToSet(view.scoring) BY DEF ToSet
    <3> QED BY <3>1, <3>2
  <2> QED BY <2>4, <2>5 DEF Completed, view
<1> QED BY <1>1, ParsedHolds, PTL DEF Spec, ProviderAddsFromSource

\* Every term the sections of any posting state is demanded, with the weight of
\* its strongest mention, and no term twice (_extract_requirements_cached).
THEOREM DemandStands == Spec => []DemandIsKept
<1>1. ASSUME ParsedInv PROVE DemandIsKept
  <2> SUFFICES ASSUME stage = "parsed" PROVE DemandIsKept BY DEF DemandIsKept
  <2> DEFINE view == ViewOf(posting)
  <2>1. view \in Views BY <1>1, ViewInRole DEF ParsedInv
  <2>2. requirements = Requirements(view) BY <1>1 DEF ParsedInv, Parsed
  <2> HIDE DEF view
  <2>3. ASSUME NEW t \in {u \in DOMAIN Terms : Kind(u) \in Vocabulary \cup {"standard"}},
               StatedWeights(Sections(view), t) # {}
        PROVE  \/ \E r \in ToSet(requirements) :
                     r.term = t /\ \A w \in StatedWeights(Sections(view), t) : r.weight >= w
               \/ \E r \in ToSet(requirements) : Covers(r.term, t)
               \/ requirements = <<>> /\ Kind(t) = "soft"
    BY <2>1, <2>2, <2>3, StatedIsDemanded
  <2>4. \A i, j \in DOMAIN requirements : requirements[i].term = requirements[j].term => i = j
    BY <2>1, <2>2, DemandedOnce
  <2> QED BY <2>3, <2>4 DEF DemandIsKept, view
<1> QED BY <1>1, ParsedHolds, PTL

\* A posting makes finitely many demands, so that the scores are sums.
THEOREM DemandsAreFinite == Spec => []IsFiniteSet(demands)
<1>1. ParsedInv => IsFiniteSet(demands) BY DEF ParsedInv
<1> QED BY <1>1, ParsedHolds, PTL

\* Facts are numbered.
LEMMA NumberedFacts == DOMAIN Facts \subseteq Nat
BY LadderAssumption

USE NumberedFacts

-----------------------------------------------------------------------------
(* First facts and first rungs *)

\* The first of some facts is one of them, and there is one if there are any.
LEMMA FirstOfSome ==
    ASSUME NEW facts \in SUBSET Nat
    PROVE  /\ FirstOf(facts) \subseteq facts
           /\ FirstOf(facts) = {} <=> facts = {}
           /\ facts = {} \/ \E f \in facts : FirstOf(facts) = {f}
<1>1. CASE facts = {} BY <1>1 DEF FirstOf
<1>2. CASE facts # {}
  <2>1. \E f \in facts : \A g \in facts : f <= g BY <1>2, LeastElement
  <2>2. (CHOOSE f \in facts : \A g \in facts : f <= g) \in facts BY <2>1
  <2> QED BY <1>2, <2>2 DEF FirstOf
<1> QED BY <1>1, <1>2

\* The tools of a term are numbered.
LEMMA ToolsAreNumbered == \A t : DOMAIN ToolsOf(t) \in SUBSET Nat
<1> TAKE t
<1>1. CASE t \in DOMAIN Knowledge BY <1>1, LadderAssumption DEF ToolsOf, Known
<1>2. CASE t \notin DOMAIN Knowledge
  <2>1. ToolsOf(t) = <<>> BY <1>2 DEF ToolsOf, Known
  <2> QED BY <2>1
<1> QED BY <1>1, <1>2

\* The first rung with evidence, of seven.
LEMMA FirstOfSeven ==
    ASSUME NEW a, NEW b, NEW c, NEW d, NEW e, NEW g, NEW h
    PROVE  Standing(<<a, b, c, d, e, g, h>>) =
             IF a.shown # {} THEN a
             ELSE IF b.shown # {} THEN b
             ELSE IF c.shown # {} THEN c
             ELSE IF d.shown # {} THEN d
             ELSE IF e.shown # {} THEN e
             ELSE IF g.shown # {} THEN g
             ELSE IF h.shown # {} THEN h
             ELSE [rung |-> "missing", shown |-> {}]
<1> DEFINE ladder == <<a, b, c, d, e, g, h>>
           held == {i \in DOMAIN ladder : ladder[i].shown # {}}
<1>1. /\ DOMAIN ladder = 1..7
      /\ ladder[1] = a /\ ladder[2] = b /\ ladder[3] = c /\ ladder[4] = d
      /\ ladder[5] = e /\ ladder[6] = g /\ ladder[7] = h
  OBVIOUS
<1>2. Standing(ladder) = IF held = {} THEN [rung |-> "missing", shown |-> {}] ELSE ladder[Min(held)]
  BY DEF Standing
<1> HIDE DEF ladder
<1>3. held = {i \in 1..7 : ladder[i].shown # {}} BY <1>1
<1>4. \A i \in 1..7 : i = 1 \/ i = 2 \/ i = 3 \/ i = 4 \/ i = 5 \/ i = 6 \/ i = 7 OBVIOUS
<1> HIDE DEF held
<1>5. held = {} <=> \A i \in 1..7 : ladder[i].shown = {} BY <1>3
<1>6. CASE held = {}
  <2>1. /\ a.shown = {} /\ b.shown = {} /\ c.shown = {} /\ d.shown = {}
        /\ e.shown = {} /\ g.shown = {} /\ h.shown = {}
    BY <1>1, <1>5, <1>6
  <2> QED BY <1>2, <1>6, <2>1 DEF ladder
<1>7. CASE held # {}
  <2> DEFINE m == Min(held)
  <2>1. held \in SUBSET Nat BY <1>3
  <2>2. m \in held /\ \A y \in held : m <= y BY <1>7, <2>1, MinIsLeast
  <2> HIDE DEF m
  <2>3. m \in 1..7 /\ ladder[m].shown # {} BY <1>3, <2>2
  <2>4. \A i \in 1..7 : i < m => ladder[i].shown = {} BY <1>3, <2>2
  <2>5. Standing(ladder) = ladder[m] BY <1>2, <1>7 DEF m
  <2>6. CASE m = 1 BY <1>1, <2>3, <2>4, <2>5, <2>6 DEF ladder
  <2>7. CASE m = 2 BY <1>1, <2>3, <2>4, <2>5, <2>7 DEF ladder
  <2>8. CASE m = 3 BY <1>1, <2>3, <2>4, <2>5, <2>8 DEF ladder
  <2>9. CASE m = 4 BY <1>1, <2>3, <2>4, <2>5, <2>9 DEF ladder
  <2>10. CASE m = 5 BY <1>1, <2>3, <2>4, <2>5, <2>10 DEF ladder
  <2>11. CASE m = 6 BY <1>1, <2>3, <2>4, <2>5, <2>11 DEF ladder
  <2>12. CASE m = 7 BY <1>1, <2>3, <2>4, <2>5, <2>12 DEF ladder
  <2> QED BY <1>4, <2>3, <2>6, <2>7, <2>8, <2>9, <2>10, <2>11, <2>12
<1> QED BY <1>6, <1>7

\* The first rung with evidence, of six.
LEMMA FirstOfSix ==
    ASSUME NEW a, NEW b, NEW c, NEW d, NEW e, NEW g
    PROVE  Standing(<<a, b, c, d, e, g>>) =
             IF a.shown # {} THEN a
             ELSE IF b.shown # {} THEN b
             ELSE IF c.shown # {} THEN c
             ELSE IF d.shown # {} THEN d
             ELSE IF e.shown # {} THEN e
             ELSE IF g.shown # {} THEN g
             ELSE [rung |-> "missing", shown |-> {}]
<1> DEFINE ladder == <<a, b, c, d, e, g>>
           held == {i \in DOMAIN ladder : ladder[i].shown # {}}
<1>1. /\ DOMAIN ladder = 1..6
      /\ ladder[1] = a /\ ladder[2] = b /\ ladder[3] = c /\ ladder[4] = d
      /\ ladder[5] = e /\ ladder[6] = g
  OBVIOUS
<1>2. Standing(ladder) = IF held = {} THEN [rung |-> "missing", shown |-> {}] ELSE ladder[Min(held)]
  BY DEF Standing
<1> HIDE DEF ladder
<1>3. held = {i \in 1..6 : ladder[i].shown # {}} BY <1>1
<1>4. \A i \in 1..6 : i = 1 \/ i = 2 \/ i = 3 \/ i = 4 \/ i = 5 \/ i = 6 OBVIOUS
<1> HIDE DEF held
<1>5. held = {} <=> \A i \in 1..6 : ladder[i].shown = {} BY <1>3
<1>6. CASE held = {}
  <2>1. /\ a.shown = {} /\ b.shown = {} /\ c.shown = {} /\ d.shown = {}
        /\ e.shown = {} /\ g.shown = {}
    BY <1>1, <1>5, <1>6
  <2> QED BY <1>2, <1>6, <2>1 DEF ladder
<1>7. CASE held # {}
  <2> DEFINE m == Min(held)
  <2>1. held \in SUBSET Nat BY <1>3
  <2>2. m \in held /\ \A y \in held : m <= y BY <1>7, <2>1, MinIsLeast
  <2> HIDE DEF m
  <2>3. m \in 1..6 /\ ladder[m].shown # {} BY <1>3, <2>2
  <2>4. \A i \in 1..6 : i < m => ladder[i].shown = {} BY <1>3, <2>2
  <2>5. Standing(ladder) = ladder[m] BY <1>2, <1>7 DEF m
  <2>6. CASE m = 1 BY <1>1, <2>3, <2>4, <2>5, <2>6 DEF ladder
  <2>7. CASE m = 2 BY <1>1, <2>3, <2>4, <2>5, <2>7 DEF ladder
  <2>8. CASE m = 3 BY <1>1, <2>3, <2>4, <2>5, <2>8 DEF ladder
  <2>9. CASE m = 4 BY <1>1, <2>3, <2>4, <2>5, <2>9 DEF ladder
  <2>10. CASE m = 5 BY <1>1, <2>3, <2>4, <2>5, <2>10 DEF ladder
  <2>11. CASE m = 6 BY <1>1, <2>3, <2>4, <2>5, <2>11 DEF ladder
  <2> QED BY <1>4, <2>3, <2>6, <2>7, <2>8, <2>9, <2>10, <2>11
<1> QED BY <1>6, <1>7

\* The ladder of a typed requirement, rung by rung.
LEMMA ResolveByRung ==
    ASSUME NEW t, NEW r
    PROVE  Resolve(t, r) =
             IF BridgedBullet(t, r) # {} THEN Rung("A", BridgedBullet(t, r))
             ELSE IF DirectBullet(t, r) # {} THEN Rung("A", DirectBullet(t, r))
             ELSE IF InSummary(t, r) # {} THEN Rung("B", InSummary(t, r))
             ELSE IF BridgedSkill(t, r) # {} THEN Rung("C", BridgedSkill(t, r))
             ELSE IF InSkills(t, r) # {} THEN Rung("C", InSkills(t, r))
             ELSE IF Certified(t, r) # {} THEN Rung("cert", Certified(t, r))
             ELSE IF Adjacent(t, r) # {} THEN Rung("adjacency", Adjacent(t, r))
             ELSE Rung("missing", {})
BY FirstOfSeven DEF Resolve, Rung

\* The ladder of a plain keyword.
LEMMA ClassifyByRung ==
    ASSUME NEW t, NEW r
    PROVE  LET lifted == FirstOf(Matching(TierA(r), t))
               summed == FirstOf(Matching(TierB(r), t))
               worked == FirstOf(Affirming(Bullets(r), t))
               listed == FirstOf(Entries(TierC(r), t))
           IN  Classify(t, r) =
                 IF lifted # {} THEN Rung("A", lifted)
                 ELSE IF summed # {} THEN Rung("B", summed)
                 ELSE IF worked # {} THEN Rung("A", worked)
                 ELSE IF OtherTool(t, r) # {} THEN Rung("adjacency", OtherTool(t, r))
                 ELSE IF Transferred(t, r) # {} THEN Rung("adjacency", Transferred(t, r))
                 ELSE IF listed # {} THEN Rung("C", listed)
                 ELSE Rung("missing", {})
<1> DEFINE lifted == FirstOf(Matching(TierA(r), t))
           summed == FirstOf(Matching(TierB(r), t))
           worked == FirstOf(Affirming(Bullets(r), t))
           listed == FirstOf(Entries(TierC(r), t))
           six(a, b, c, d, e, g) ==
             IF a.shown # {} THEN a
             ELSE IF b.shown # {} THEN b
             ELSE IF c.shown # {} THEN c
             ELSE IF d.shown # {} THEN d
             ELSE IF e.shown # {} THEN e
             ELSE IF g.shown # {} THEN g
             ELSE [rung |-> "missing", shown |-> {}]
<1>1. \A a, b, c, d, e, g : Standing(<<a, b, c, d, e, g>>) = six(a, b, c, d, e, g) BY FirstOfSix
<1>2. Classify(t, r) = six(Rung("A", lifted), Rung("B", summed), Rung("A", worked),
                           Rung("adjacency", OtherTool(t, r)), Rung("adjacency", Transferred(t, r)),
                           Rung("C", listed))
  <2> DEFINE a == Rung("A", lifted)
             b == Rung("B", summed)
             c == Rung("A", worked)
             d == Rung("adjacency", OtherTool(t, r))
             e == Rung("adjacency", Transferred(t, r))
             g == Rung("C", listed)
  <2>1. Classify(t, r) = Standing(<<a, b, c, d, e, g>>) BY DEF Classify
  <2> HIDE DEF six, a, b, c, d, e, g
  <2>2. Standing(<<a, b, c, d, e, g>>) = six(a, b, c, d, e, g) BY ONLY <1>1
  <2> QED BY ONLY <2>1, <2>2 DEF a, b, c, d, e, g
<1>3. \A name, shown : Rung(name, shown).shown = shown BY DEF Rung
<1>4. Rung("missing", {}) = [rung |-> "missing", shown |-> {}] BY DEF Rung
<1> HIDE DEF lifted, summed, worked, listed
<1>5. Classify(t, r) =
        IF lifted # {} THEN Rung("A", lifted)
        ELSE IF summed # {} THEN Rung("B", summed)
        ELSE IF worked # {} THEN Rung("A", worked)
        ELSE IF OtherTool(t, r) # {} THEN Rung("adjacency", OtherTool(t, r))
        ELSE IF Transferred(t, r) # {} THEN Rung("adjacency", Transferred(t, r))
        ELSE IF listed # {} THEN Rung("C", listed)
        ELSE Rung("missing", {})
  BY <1>2, <1>3, <1>4
<1> QED BY <1>5 DEF lifted, summed, worked, listed

-----------------------------------------------------------------------------
(* Every rung is earned *)

\* Facts of a resume that affirm what carries a demand, in one of some places.
Carried(d, facts, r, places) ==
    /\ facts \subseteq r
    /\ \A f \in facts : Facts[f].affirms \cap Carrying(d) # {} /\ Facts[f].place \in places

\* A bullet that affirms what carries a demand.
ShownAtWork(d, r) == \E f \in Bullets(r) : Facts[f].affirms \cap Carrying(d) # {}

\* Facts in given places that affirm a word are carried by it.
LEMMA AffirmedIsCarried ==
    ASSUME NEW d, NEW r \in SUBSET DOMAIN Facts, NEW places, NEW word \in Carrying(d)
    PROVE  Carried(d, Affirming(In(r, places), word), r, places)
BY DEF Carried, Affirming, In

\* The first of carried facts is carried.
LEMMA FirstIsCarried ==
    ASSUME NEW d, NEW r \in SUBSET DOMAIN Facts, NEW facts, NEW places, Carried(d, facts, r, places)
    PROVE  Carried(d, FirstOf(facts), r, places) /\ FirstOf(facts) \subseteq facts
<1>1. facts \in SUBSET Nat BY DEF Carried
<1> QED BY <1>1, FirstOfSome DEF Carried

\* The tiers hold skills of the resume.
LEMMA TiersAreSkills ==
    ASSUME NEW r
    PROVE  TierA(r) \subseteq Skills(r) /\ TierB(r) \subseteq Skills(r) /\ TierC(r) \subseteq Skills(r)
BY DEF TierA, TierB, TierC

\* A bridge is crossed with bullets, or a listed ETL skill next to one (_bridge_from_experience).
LEMMA BridgedBulletEarned ==
    ASSUME NEW d, NEW r \in SUBSET DOMAIN Facts, BridgedBullet(d.term, r) # {}
    PROVE  Carried(d, BridgedBullet(d.term, r), r, {"bullet", "skill"}) /\ ShownAtWork(d, r)
<1> DEFINE t == d.term
<1>0. \A places : In(r, places) \in SUBSET Nat BY DEF In
<1>1. CASE t = "data_pipelines"
  <2> DEFINE fits(f) == /\ Cardinality(Facts[f].affirms \cap SourceSystems) >= 2
                        /\ "pipeline" \in Facts[f].affirms
             able == {f \in Bullets(r) : fits(f)}
             atWork == Affirming(Bullets(r), "etl")
             listed == Affirming(Skills(r), "etl")
  <2>1. /\ able \in SUBSET Nat /\ atWork \in SUBSET Nat /\ listed \in SUBSET Nat
    BY <1>0 DEF Bullets, Skills, Affirming
  <2>2. /\ BridgedBullet(t, r) = EtlEvidence(r) \cup FirstOf(able)
        /\ FirstOf(able) # {}
        /\ EtlEvidence(r) = FirstOf(atWork) \/ EtlEvidence(r) = FirstOf(listed)
    BY <1>1 DEF BridgedBullet, EtlEvidence
  <2>3. "etl" \in Carrying(d) /\ "pipeline" \in Carrying(d) BY <1>1 DEF Carrying
  <2>4. Carried(d, atWork, r, {"bullet"}) /\ Carried(d, listed, r, {"skill"})
    BY <2>3, AffirmedIsCarried DEF Bullets, Skills
  <2>5. Carried(d, able, r, {"bullet"}) BY <2>3 DEF Carried, Bullets, In
  <2> HIDE DEF able, atWork, listed
  <2>6. EtlEvidence(r) \subseteq atWork \/ EtlEvidence(r) \subseteq listed BY <2>1, <2>2, FirstOfSome
  <2>7. FirstOf(able) \subseteq able BY <2>1, FirstOfSome
  <2>8. Carried(d, BridgedBullet(t, r), r, {"bullet", "skill"})
    BY <2>2, <2>4, <2>5, <2>6, <2>7 DEF Carried
  <2>9. ShownAtWork(d, r) BY <2>2, <2>5, <2>7 DEF Carried, ShownAtWork, Bullets, In
  <2> QED BY <2>8, <2>9
<1>2. CASE t # "data_pipelines"
  <2> DEFINE able == {f \in Bullets(r) : Bridges[t] \subseteq Facts[f].affirms}
  <2>1. t \in DOMAIN Bridges /\ BridgedBullet(t, r) = FirstOf(able) BY <1>2 DEF BridgedBullet
  <2>2. Bridges[t] \subseteq Carrying(d) BY <2>1 DEF Carrying
  <2>3. Bridges[t] # {} BY <2>1 DEF Bridges
  <2>4. Carried(d, able, r, {"bullet"}) BY <2>2, <2>3 DEF Carried, Bullets, In
  <2>5. able \in SUBSET Nat BY <1>0 DEF Bullets
  <2> HIDE DEF able
  <2>6. FirstOf(able) \subseteq able /\ FirstOf(able) # {} BY <2>1, <2>5, FirstOfSome
  <2> QED BY <2>1, <2>4, <2>6 DEF Carried, ShownAtWork, Bullets, In
<1> QED BY <1>1, <1>2

\* A bullet that shows the term affirms it.
LEMMA DirectBulletEarned ==
    ASSUME NEW d, NEW r \in SUBSET DOMAIN Facts, DirectBullet(d.term, r) # {}
    PROVE  Carried(d, DirectBullet(d.term, r), r, {"bullet", "skill"}) /\ ShownAtWork(d, r)
<1> DEFINE t == d.term
           able == {f \in Affirming(Bullets(r), t) : t = "dashboards" => "built" \in Facts[f].affirms}
<1>1. t \in Carrying(d) BY DEF Carrying
<1>2. able \in SUBSET Nat BY DEF Affirming, Bullets, In
<1>3. Carried(d, able, r, {"bullet"}) BY <1>1 DEF Carried, Affirming, Bullets, In
<1>4. DirectBullet(t, r) = FirstOf(able) BY DEF DirectBullet
<1> HIDE DEF able
<1>5. FirstOf(able) \subseteq able BY <1>2, FirstOfSome
<1> QED BY <1>3, <1>4, <1>5 DEF Carried, ShownAtWork, Bullets, In

\* Skills that affirm what carries a demand.
LEMMA SkillsEarned ==
    ASSUME NEW d, NEW r \in SUBSET DOMAIN Facts, NEW listed \in SUBSET Skills(r), NEW word \in Carrying(d)
    PROVE  /\ Carried(d, Affirming(listed, word), r, {"skill"})
           /\ Carried(d, FirstOf(Affirming(listed, word)), r, {"skill"})
           /\ Carried(d, Entries(listed, word), r, {"skill"})
           /\ Carried(d, FirstOf(Entries(listed, word)), r, {"skill"})
<1>1. \A f \in listed : f \in r /\ f \in DOMAIN Facts /\ Facts[f].place = "skill" BY DEF Skills, In
<1>2. Carried(d, Affirming(listed, word), r, {"skill"}) BY <1>1 DEF Carried, Affirming
<1>3. \A f \in listed : word \in Facts[f].entry => word \in Facts[f].affirms
  BY <1>1, LadderAssumption
<1>4. Carried(d, Entries(listed, word), r, {"skill"}) BY <1>1, <1>3 DEF Carried, Entries
<1> QED BY <1>2, <1>4, FirstIsCarried

\* A certificate carries what it implies, and what its service contains.
LEMMA CertifiedEarned ==
    ASSUME NEW d, NEW r \in SUBSET DOMAIN Facts
    PROVE  Carried(d, Certified(d.term, r), r, {"certificate"})
<1> DEFINE t == d.term
           child == t \in {"workspaces", "refresh_cycles"} /\ Known(t).reporting
           inherited == IF child THEN Implying(r, "power_bi_service") ELSE {}
           own == Implying(r, t)
<1>1. Carried(d, inherited, r, {"certificate"})
  <2>1. CASE child
    <3>1. "power_bi_service" \in Carrying(d) BY <2>1 DEF Carrying
    <3> QED BY <2>1, <3>1, AffirmedIsCarried DEF Implying
  <2>2. CASE ~child BY <2>2 DEF Carried
  <2> QED BY <2>1, <2>2
<1>2. Carried(d, own, r, {"certificate"})
  <2>1. t \in Carrying(d) BY DEF Carrying
  <2> QED BY <2>1, AffirmedIsCarried DEF Implying
<1>3. Certified(t, r) = FirstOf(inherited) \/ Certified(t, r) = FirstOf(own) BY DEF Certified
<1> HIDE DEF inherited, own
<1> QED BY <1>1, <1>2, <1>3, FirstIsCarried

\* A tool of the category, by its entries or by bullets (_adjacent_evidence,
\* _adjacency_lookup).
LEMMA FirstToolEarned ==
    ASSUME NEW d, NEW r \in SUBSET DOMAIN Facts, NEW without, NEW listed \in SUBSET Skills(r)
    PROVE  Carried(d, FirstTool(d.term, without, listed, r), r, FactPlaces)
<1> DEFINE tools == ToolsOf(d.term)
           shown(tool) == IF Entries(listed, tool) # {} THEN Entries(listed, tool)
                          ELSE Affirming(Bullets(r), tool)
           known == {i \in DOMAIN tools : tools[i] \notin without /\ shown(tools[i]) # {}}
<1>1. FirstTool(d.term, without, listed, r) =
        IF known = {} THEN {} ELSE FirstOf(shown(tools[Min(known)]))
  BY DEF FirstTool
<1>2. ASSUME NEW i \in DOMAIN tools PROVE Carried(d, FirstOf(shown(tools[i])), r, FactPlaces)
  <2>1. tools[i] \in Carrying(d) BY DEF Carrying, ToSet
  <2>2. Carried(d, Entries(listed, tools[i]), r, {"skill"}) BY <2>1, SkillsEarned
  <2>3. Carried(d, Affirming(Bullets(r), tools[i]), r, {"bullet"}) BY <2>1, AffirmedIsCarried DEF Bullets
  <2>4. {"skill"} \subseteq FactPlaces /\ {"bullet"} \subseteq FactPlaces BY DEF FactPlaces
  <2>5. Carried(d, shown(tools[i]), r, FactPlaces) BY <2>2, <2>3, <2>4 DEF Carried
  <2> HIDE DEF shown
  <2> QED BY <2>5, FirstIsCarried
<1> HIDE DEF shown
<1>3. known \in SUBSET Nat BY ToolsAreNumbered
<1>4. CASE known = {} BY <1>1, <1>4 DEF Carried
<1>5. CASE known # {}
  <2> DEFINE i == Min(known)
  <2>1. i \in DOMAIN tools BY <1>3, <1>5, MinIsLeast
  <2>2. FirstTool(d.term, without, listed, r) = FirstOf(shown(tools[i])) BY <1>1, <1>5
  <2> HIDE DEF i, known, tools
  <2> QED BY <1>2, <2>1, <2>2
<1> QED BY <1>4, <1>5

\* A signal is affirmed, or named by the skills section in whatever clause.
LEMMA TransferredEarned ==
    ASSUME NEW d, NEW r \in SUBSET DOMAIN Facts
    PROVE  /\ Transferred(d.term, r) \subseteq r
           /\ \A f \in Transferred(d.term, r) :
                 \/ Facts[f].affirms \cap Carrying(d) # {}
                 \/ Facts[f].place = "skill" /\ Facts[f].denies \cap SignalsOf(d.term) # {}
<1> DEFINE t == d.term
           able == {f \in Bullets(r) \cup Skills(r) : Facts[f].affirms \cap SignalsOf(t) # {}}
           named == {f \in Skills(r) : Facts[f].denies \cap SignalsOf(t) # {}}
           both == able \cup named
<1>1. both \in SUBSET Nat /\ both \subseteq r BY DEF Bullets, Skills, In
<1>2. Transferred(t, r) = {} \/ Transferred(t, r) = FirstOf(both) BY DEF Transferred
<1>3. SignalsOf(t) \subseteq Carrying(d) BY DEF Carrying
<1>4. \A f \in both : \/ Facts[f].affirms \cap Carrying(d) # {}
                      \/ Facts[f].place = "skill" /\ Facts[f].denies \cap SignalsOf(t) # {}
  BY <1>3 DEF Skills, In
<1> HIDE DEF both
<1>5. Transferred(t, r) \subseteq both BY <1>1, <1>2, FirstOfSome
<1> QED BY <1>1, <1>4, <1>5

\* A skill that stands for a plain keyword carries it, and if a bullet shows the
\* skill, the bullet says what the skill says (_term_matches).
LEMMA MatchingEarned ==
    ASSUME NEW d, ~d.typed, NEW r \in SUBSET DOMAIN Facts, NEW listed \in SUBSET Skills(r)
    PROVE  /\ Carried(d, FirstOf(Matching(listed, d.term)), r, {"skill"})
           /\ \A f \in Matching(listed, d.term) : f \in TierA(r) => ShownAtWork(d, r)
<1> DEFINE t == d.term
           able == Matching(listed, t)
<1>1. t \in Carrying(d) /\ PartsOf(t) \subseteq Carrying(d) BY DEF Carrying
<1>2. \A f \in listed : f \in r /\ f \in DOMAIN Facts /\ Facts[f].place = "skill" BY DEF Skills, In
<1>3. \A f \in listed : Facts[f].entry \subseteq Facts[f].affirms BY <1>2, LadderAssumption
<1>4. \A f \in able : f \in listed /\ Facts[f].affirms \cap Carrying(d) # {}
  BY <1>1, <1>3 DEF Matching
<1> HIDE DEF able
<1>5. Carried(d, able, r, {"skill"}) BY <1>2, <1>4 DEF Carried
<1>6. Carried(d, FirstOf(able), r, {"skill"}) BY <1>5, FirstIsCarried
<1>7. ASSUME NEW f \in able, f \in TierA(r) PROVE ShownAtWork(d, r)
  <2>1. PICK w \in Facts[f].entry : Affirming(Bullets(r), w) # {} BY <1>7 DEF TierA, Said
  <2>2. PICK g \in Bullets(r) : w \in Facts[g].affirms BY <2>1 DEF Affirming
  <2>3. f \in DOMAIN Facts /\ g \in DOMAIN Facts BY <1>2, <1>4 DEF Bullets, In
  <2>4. Facts[f].entry \cap Facts[g].affirms # {} BY <2>1, <2>2
  <2>5. Facts[f].affirms \subseteq Facts[g].affirms BY <2>3, <2>4, LadderAssumption
  <2> QED BY <1>4, <2>5 DEF ShownAtWork
<1> QED BY <1>6, <1>7 DEF able

\* What the invariant says of one link.
Earned(d, link, r) ==
    /\ link.rung # "missing" => link.shown # {} /\ link.shown \subseteq r
    /\ \A f \in link.shown :
          \/ Facts[f].affirms \cap Carrying(d) # {}
          \/ /\ ~d.typed /\ link.rung = "adjacency" /\ Facts[f].place = "skill"
             /\ Facts[f].denies \cap SignalsOf(d.term) # {}
    /\ link.rung \in DOMAIN RungPlace =>
          \A f \in link.shown : Facts[f].place \in RungPlace[link.rung]
    /\ link.rung = "A" => ShownAtWork(d, r)

\* A rung with facts that carry the demand, in the places of the rung.
LEMMA RungEarned ==
    ASSUME NEW d, NEW r, NEW name \in {"A", "B", "C", "cert", "adjacency"}, NEW shown, shown # {},
           Carried(d, shown, r, IF name = "adjacency" THEN FactPlaces ELSE RungPlace[name]),
           name = "A" => ShownAtWork(d, r)
    PROVE  Earned(d, Rung(name, shown), r)
<1>1. DOMAIN RungPlace = {"A", "B", "C", "cert"} BY DEF RungPlace
<1> QED BY <1>1 DEF Earned, Rung, Carried

\* Nothing has to be earned for a term that is missing.
LEMMA MissingEarned ==
    ASSUME NEW d, NEW r PROVE Earned(d, Rung("missing", {}), r)
BY DEF Earned, Rung

\* The places of the rungs, spelled out.
LEMMA PlacesOfRungs ==
    /\ RungPlace["A"] = {"bullet", "skill"} /\ RungPlace["B"] = {"skill"}
    /\ RungPlace["C"] = {"skill"} /\ RungPlace["cert"] = {"certificate"}
BY DEF RungPlace

\* Every rung of the ladder of typed requirements is earned.
LEMMA ResolveEarned ==
    ASSUME NEW d, NEW r \in SUBSET DOMAIN Facts
    PROVE  Earned(d, Resolve(d.term, r), r)
<1> DEFINE t == d.term
<1>1. BridgedBullet(t, r) # {} =>
        Carried(d, BridgedBullet(t, r), r, {"bullet", "skill"}) /\ ShownAtWork(d, r)
  BY BridgedBulletEarned
<1>2. DirectBullet(t, r) # {} =>
        Carried(d, DirectBullet(t, r), r, {"bullet", "skill"}) /\ ShownAtWork(d, r)
  BY DirectBulletEarned
<1> USE PlacesOfRungs
<1>3. t \in Carrying(d) /\ Skills(r) \in SUBSET Skills(r) /\ TierB(r) \in SUBSET Skills(r)
  BY TiersAreSkills DEF Carrying
<1>4. BridgedBullet(t, r) # {} => Earned(d, Rung("A", BridgedBullet(t, r)), r)
  <2> SUFFICES ASSUME BridgedBullet(t, r) # {} PROVE Earned(d, Rung("A", BridgedBullet(t, r)), r) OBVIOUS
  <2>1. Carried(d, BridgedBullet(t, r), r, RungPlace["A"]) /\ ShownAtWork(d, r) BY <1>1
  <2> QED BY <2>1, RungEarned
<1>5. DirectBullet(t, r) # {} => Earned(d, Rung("A", DirectBullet(t, r)), r)
  <2> SUFFICES ASSUME DirectBullet(t, r) # {} PROVE Earned(d, Rung("A", DirectBullet(t, r)), r) OBVIOUS
  <2>1. Carried(d, DirectBullet(t, r), r, RungPlace["A"]) /\ ShownAtWork(d, r) BY <1>2
  <2> QED BY <2>1, RungEarned
<1>6. InSummary(t, r) # {} => Earned(d, Rung("B", InSummary(t, r)), r)
  <2>1. Carried(d, InSummary(t, r), r, {"skill"}) BY <1>3, SkillsEarned DEF InSummary
  <2> QED BY <2>1, RungEarned
<1>7. BridgedSkill(t, r) # {} => Earned(d, Rung("C", BridgedSkill(t, r)), r)
  <2>1. SUFFICES ASSUME t = "version_control"
                 PROVE  Carried(d, FirstOf(Affirming(Skills(r), "git")), r, {"skill"})
    BY RungEarned DEF BridgedSkill
  <2>2. "git" \in Carrying(d) BY <2>1 DEF Carrying, Bridges
  <2> QED BY <1>3, <2>2, SkillsEarned
<1>8. InSkills(t, r) # {} => Earned(d, Rung("C", InSkills(t, r)), r)
  <2>1. Carried(d, InSkills(t, r), r, {"skill"}) BY <1>3, SkillsEarned DEF InSkills
  <2> QED BY <2>1, RungEarned
<1>9. Certified(t, r) # {} => Earned(d, Rung("cert", Certified(t, r)), r)
  <2>1. Carried(d, Certified(t, r), r, RungPlace["cert"]) BY CertifiedEarned
  <2> QED BY <2>1, RungEarned
<1>10. Adjacent(t, r) # {} => Earned(d, Rung("adjacency", Adjacent(t, r)), r)
  <2>1. Carried(d, Adjacent(t, r), r, FactPlaces) BY <1>3, FirstToolEarned DEF Adjacent
  <2> QED BY <2>1, RungEarned
<1> QED BY <1>4, <1>5, <1>6, <1>7, <1>8, <1>9, <1>10, MissingEarned, ResolveByRung

\* So is every rung of the ladder of plain keywords.
LEMMA ClassifyEarned ==
    ASSUME NEW d, ~d.typed, NEW r \in SUBSET DOMAIN Facts
    PROVE  Earned(d, Classify(d.term, r), r)
<1> DEFINE t == d.term
           lifted == FirstOf(Matching(TierA(r), t))
           summed == FirstOf(Matching(TierB(r), t))
           worked == FirstOf(Affirming(Bullets(r), t))
           listed == FirstOf(Entries(TierC(r), t))
<1> USE PlacesOfRungs
<1>0. /\ t \in Carrying(d)
      /\ TierA(r) \in SUBSET Skills(r) /\ TierB(r) \in SUBSET Skills(r) /\ TierC(r) \in SUBSET Skills(r)
      /\ TierA(r) \cup TierB(r) \in SUBSET Skills(r)
  BY TiersAreSkills DEF Carrying
<1>1. ASSUME lifted # {} PROVE Earned(d, Rung("A", lifted), r)
  <2>1. /\ Carried(d, lifted, r, {"skill"})
        /\ \A f \in Matching(TierA(r), t) : f \in TierA(r) => ShownAtWork(d, r)
    BY <1>0, MatchingEarned
  <2>2. Matching(TierA(r), t) \in SUBSET Nat BY <1>0 DEF Matching, Skills, In
  <2>3. Matching(TierA(r), t) # {} BY <1>1, <2>2, FirstOfSome
  <2>4. ShownAtWork(d, r) BY <2>1, <2>3 DEF Matching
  <2>5. Carried(d, lifted, r, RungPlace["A"]) BY <2>1 DEF Carried
  <2> HIDE DEF lifted
  <2> QED BY <1>1, <2>4, <2>5, RungEarned
<1>2. summed # {} => Earned(d, Rung("B", summed), r)
  <2>1. Carried(d, summed, r, {"skill"}) BY <1>0, MatchingEarned
  <2> HIDE DEF summed
  <2> QED BY <2>1, RungEarned
<1>3. ASSUME worked # {} PROVE Earned(d, Rung("A", worked), r)
  <2> DEFINE able == Affirming(Bullets(r), t)
  <2>1. Carried(d, able, r, {"bullet"}) BY <1>0, AffirmedIsCarried DEF Bullets
  <2> HIDE DEF able
  <2>2. Carried(d, FirstOf(able), r, {"bullet"}) BY <2>1, FirstIsCarried
  <2>3. worked = FirstOf(able) BY DEF able
  <2> HIDE DEF worked
  <2>4. Carried(d, worked, r, RungPlace["A"]) BY <2>2, <2>3 DEF Carried
  <2>5. ShownAtWork(d, r) BY <1>3, <2>2, <2>3 DEF Carried, ShownAtWork, Bullets, In
  <2> QED BY <1>3, <2>4, <2>5, RungEarned
<1>4. OtherTool(t, r) # {} => Earned(d, Rung("adjacency", OtherTool(t, r)), r)
  <2>1. Carried(d, OtherTool(t, r), r, FactPlaces) BY <1>0, FirstToolEarned DEF OtherTool
  <2> QED BY <2>1, RungEarned
<1>5. Transferred(t, r) # {} => Earned(d, Rung("adjacency", Transferred(t, r)), r)
  <2>1. "adjacency" \notin DOMAIN RungPlace BY DEF RungPlace
  <2> QED BY <2>1, TransferredEarned DEF Earned, Rung
<1>6. listed # {} => Earned(d, Rung("C", listed), r)
  <2>1. Carried(d, listed, r, {"skill"}) BY <1>0, SkillsEarned
  <2> HIDE DEF listed
  <2> QED BY <2>1, RungEarned
<1>7. Classify(t, r) =
        IF lifted # {} THEN Rung("A", lifted)
        ELSE IF summed # {} THEN Rung("B", summed)
        ELSE IF worked # {} THEN Rung("A", worked)
        ELSE IF OtherTool(t, r) # {} THEN Rung("adjacency", OtherTool(t, r))
        ELSE IF Transferred(t, r) # {} THEN Rung("adjacency", Transferred(t, r))
        ELSE IF listed # {} THEN Rung("C", listed)
        ELSE Rung("missing", {})
  BY ClassifyByRung
<1> HIDE DEF lifted, summed, worked, listed
<1> QED BY <1>1, <1>2, <1>3, <1>4, <1>5, <1>6, <1>7, MissingEarned

-----------------------------------------------------------------------------
(* The matrix follows the resume *)

\* The inductive invariant: the resume is made of known facts, and every link
\* is the one its demand has for the resume as it stands, which is empty until
\* the matrix is built.
Inv ==
    /\ resume \subseteq DOMAIN Facts
    /\ DOMAIN links \subseteq demands
    /\ IF stage = "matching" THEN DOMAIN links = demands ELSE resume = {}
    /\ \A d \in DOMAIN links : links[d] = Linked(d, resume)

\* The invariant holds of an unread posting ...
LEMMA InitInv == Init => Inv
BY DEF Init, Inv

\* ... and every step keeps it.
LEMMA StepInv == Inv /\ [Next]_vars => Inv'
<1> SUFFICES ASSUME Inv, [Next]_vars PROVE Inv' OBVIOUS
<1> USE DEF Inv
<1>1. CASE UNCHANGED vars BY <1>1 DEF vars
<1>2. ASSUME NEW n \in opening, Read(n) PROVE Inv' BY <1>2 DEF Read
<1>3. CASE Parse BY <1>3 DEF Parse
<1>4. ASSUME NEW answer \in Answers, Ask(answer) PROVE Inv' BY <1>4 DEF Ask
<1>5. CASE Match
  <2>1. links' = [d \in demands' |-> Linked(d, {})] /\ resume' = {} /\ stage' = "matching"
    BY <1>5 DEF Match
  <2>2. DOMAIN links' = demands' /\ \A d \in demands' : links'[d] = Linked(d, resume') BY <2>1
  <2> QED BY <2>1, <2>2
<1>6. ASSUME NEW f \in DOMAIN Facts, Add(f) PROVE Inv' BY <1>6 DEF Add
<1> QED BY <1>1, <1>2, <1>3, <1>4, <1>5, <1>6 DEF Next

\* Whatever is added to a resume, in every reachable state each rung is held by
\* facts that affirm the term or what stands for it, in the place of the rung
\* (_resolve_one, classify_keyword).
THEOREM EveryRungEarned == Spec => []RungsAreEarned
<1>1. Inv => RungsAreEarned
  <2> SUFFICES ASSUME Inv, NEW d \in DOMAIN links PROVE Earned(d, links[d], resume)
    BY DEF RungsAreEarned, Earned, ShownAtWork
  <2>1. links[d] = Linked(d, resume) /\ resume \in SUBSET DOMAIN Facts BY DEF Inv
  <2> QED BY <2>1, ResolveEarned, ClassifyEarned DEF Linked
<1> QED BY <1>1, InitInv, StepInv, PTL DEF Spec

-----------------------------------------------------------------------------
(* A resume that says more *)

\* s says all that r says.
Extends(s, r) == s \in SUBSET DOMAIN Facts /\ r \subseteq s

\* More facts have a first one if fewer have.
LEMMA FirstOfGrows ==
    ASSUME NEW a \in SUBSET Nat, NEW b \in SUBSET Nat, a \subseteq b, FirstOf(a) # {}
    PROVE  FirstOf(b) # {}
BY FirstOfSome

\* What a resume affirms, lists and implies grows with it; a skill never falls
\* below the summary again.
LEMMA TiersGrow ==
    ASSUME NEW r, NEW s, Extends(s, r)
    PROVE  /\ \A places : In(r, places) \subseteq In(s, places) /\ In(s, places) \in SUBSET Nat
           /\ Skills(r) \subseteq Skills(s)
           /\ TierA(r) \subseteq TierA(s)
           /\ TierB(r) \subseteq TierA(s) \cup TierB(s)
<1>1. \A places : In(r, places) \subseteq In(s, places) /\ In(s, places) \in SUBSET Nat
  BY DEF In, Extends
<1>2. Skills(r) \subseteq Skills(s) BY <1>1 DEF Skills
<1>3. \A f, places : Said(f, In(r, places)) => Said(f, In(s, places))
  BY <1>1 DEF Said, Affirming
<1>4. TierA(r) \subseteq TierA(s) BY <1>2, <1>3 DEF TierA, Bullets
<1>5. TierB(r) \subseteq TierA(s) \cup TierB(s) BY <1>2, <1>3 DEF TierB
<1> QED BY <1>1, <1>2, <1>4, <1>5

\* What a resume holds is numbered, and has a first fact when it has any.
LEMMA HeldFirst ==
    ASSUME NEW t, NEW r \in SUBSET DOMAIN Facts
    PROVE  /\ FirstOf(Matching(TierA(r), t)) # {} <=> \E f \in TierA(r) : f \in Matching(TierA(r), t)
           /\ FirstOf(Matching(TierB(r), t)) # {} <=> \E f \in TierB(r) : f \in Matching(TierB(r), t)
           /\ FirstOf(Affirming(Bullets(r), t)) # {} <=> \E f \in Bullets(r) : t \in Facts[f].affirms
           /\ FirstOf(Entries(TierC(r), t)) # {} <=> \E f \in TierC(r) : t \in Facts[f].entry
           /\ InSummary(t, r) # {} <=> \E f \in TierB(r) : t \in Facts[f].affirms
           /\ InSkills(t, r) # {} <=> \E f \in Skills(r) : t \in Facts[f].affirms
<1>1. /\ Skills(r) \in SUBSET Nat /\ Bullets(r) \in SUBSET Nat
      /\ TierA(r) \in SUBSET Nat /\ TierB(r) \in SUBSET Nat /\ TierC(r) \in SUBSET Nat
  BY TiersAreSkills DEF Skills, Bullets, In
<1>2. /\ Matching(TierA(r), t) \in SUBSET TierA(r) /\ Matching(TierB(r), t) \in SUBSET TierB(r)
  BY DEF Matching
<1>3. \A facts \in SUBSET Nat : Affirming(facts, t) \in SUBSET Nat /\ Entries(facts, t) \in SUBSET Nat
  BY DEF Affirming, Entries
<1>4. FirstOf(Matching(TierA(r), t)) # {} <=> \E f \in TierA(r) : f \in Matching(TierA(r), t)
  BY <1>1, <1>2, FirstOfSome
<1>5. FirstOf(Matching(TierB(r), t)) # {} <=> \E f \in TierB(r) : f \in Matching(TierB(r), t)
  BY <1>1, <1>2, FirstOfSome
<1>6. \A facts \in SUBSET Nat :
         /\ FirstOf(Affirming(facts, t)) # {} <=> \E f \in facts : t \in Facts[f].affirms
         /\ FirstOf(Entries(facts, t)) # {} <=> \E f \in facts : t \in Facts[f].entry
  <2> TAKE facts \in SUBSET Nat
  <2>1. /\ FirstOf(Affirming(facts, t)) # {} <=> Affirming(facts, t) # {}
        /\ FirstOf(Entries(facts, t)) # {} <=> Entries(facts, t) # {}
    BY <1>3, FirstOfSome
  <2> QED BY <2>1 DEF Affirming, Entries
<1> QED BY <1>1, <1>4, <1>5, <1>6 DEF InSummary, InSkills

\* When a tool of the category is found.
LEMMA FirstToolFound ==
    ASSUME NEW t, NEW r \in SUBSET DOMAIN Facts, NEW without, NEW listed \in SUBSET Skills(r)
    PROVE  FirstTool(t, without, listed, r) # {} <=>
             \E i \in DOMAIN ToolsOf(t) :
                /\ ToolsOf(t)[i] \notin without
                /\ \/ \E f \in listed : ToolsOf(t)[i] \in Facts[f].entry
                   \/ \E f \in Bullets(r) : ToolsOf(t)[i] \in Facts[f].affirms
<1> DEFINE tools == ToolsOf(t)
           shown(tool) == IF Entries(listed, tool) # {} THEN Entries(listed, tool)
                          ELSE Affirming(Bullets(r), tool)
           known == {i \in DOMAIN tools : tools[i] \notin without /\ shown(tools[i]) # {}}
<1>1. FirstTool(t, without, listed, r) = IF known = {} THEN {} ELSE FirstOf(shown(tools[Min(known)]))
  BY DEF FirstTool
<1>2. \A tool : shown(tool) \in SUBSET Nat BY DEF Entries, Affirming, Skills, Bullets, In
<1>3. \A tool : shown(tool) # {} <=> \/ \E f \in listed : tool \in Facts[f].entry
                                     \/ \E f \in Bullets(r) : tool \in Facts[f].affirms
  BY DEF Entries, Affirming
<1> HIDE DEF shown
<1>4. known \in SUBSET Nat BY ToolsAreNumbered
<1>5. CASE known = {} BY <1>1, <1>3, <1>5
<1>6. CASE known # {}
  <2> DEFINE i == Min(known)
  <2>1. i \in known BY <1>4, <1>6, MinIsLeast
  <2>2. i \in DOMAIN tools /\ tools[i] \notin without /\ shown(tools[i]) # {} BY <2>1
  <2>3. FirstTool(t, without, listed, r) = FirstOf(shown(tools[i])) BY <1>1, <1>6
  <2> HIDE DEF i, known
  <2>4. FirstTool(t, without, listed, r) # {} BY <1>2, <2>2, <2>3, FirstOfSome
  <2> QED BY <1>3, <2>2, <2>4
<1> QED BY <1>5, <1>6

\* Bridges and bullets that show a term stay.
LEMMA BulletsGrow ==
    ASSUME NEW t, NEW r, NEW s, Extends(s, r)
    PROVE  /\ BridgedBullet(t, r) # {} => BridgedBullet(t, s) # {}
           /\ DirectBullet(t, r) # {} => DirectBullet(t, s) # {}
           /\ \A w : Affirming(Bullets(r), w) # {} => Affirming(Bullets(s), w) # {}
           /\ FirstOf(Affirming(Bullets(r), t)) # {} => FirstOf(Affirming(Bullets(s), t)) # {}
           /\ FirstOf(Affirming(Skills(r), t)) # {} => FirstOf(Affirming(Skills(s), t)) # {}
<1>0. \A places : In(r, places) \subseteq In(s, places) /\ In(s, places) \in SUBSET Nat
  BY TiersGrow
<1>1. /\ Bullets(r) \subseteq Bullets(s) /\ Bullets(s) \in SUBSET Nat /\ Bullets(r) \in SUBSET Nat
      /\ Skills(r) \subseteq Skills(s) /\ Skills(s) \in SUBSET Nat /\ Skills(r) \in SUBSET Nat
  BY <1>0 DEF Bullets, Skills
<1>2. \A w : /\ Affirming(Bullets(r), w) \subseteq Affirming(Bullets(s), w)
             /\ Affirming(Bullets(s), w) \in SUBSET Nat /\ Affirming(Bullets(r), w) \in SUBSET Nat
             /\ Affirming(Skills(r), w) \subseteq Affirming(Skills(s), w)
             /\ Affirming(Skills(s), w) \in SUBSET Nat /\ Affirming(Skills(r), w) \in SUBSET Nat
  BY <1>1 DEF Affirming
<1>3. \A w : FirstOf(Affirming(Bullets(r), w)) # {} => FirstOf(Affirming(Bullets(s), w)) # {}
  BY <1>2, FirstOfGrows
<1>4. \A w : FirstOf(Affirming(Skills(r), w)) # {} => FirstOf(Affirming(Skills(s), w)) # {}
  BY <1>2, FirstOfGrows
<1>5. DirectBullet(t, r) # {} => DirectBullet(t, s) # {}
  <2> DEFINE able(x) == {f \in Affirming(Bullets(x), t) : t = "dashboards" => "built" \in Facts[f].affirms}
  <2>1. able(r) \subseteq able(s) /\ able(s) \in SUBSET Nat /\ able(r) \in SUBSET Nat BY <1>2
  <2>2. DirectBullet(t, r) = FirstOf(able(r)) /\ DirectBullet(t, s) = FirstOf(able(s)) BY DEF DirectBullet
  <2> HIDE DEF able
  <2> QED BY <2>1, <2>2, FirstOfGrows
<1>6. EtlEvidence(r) # {} => EtlEvidence(s) # {}
  <2>1. \A x \in {r, s} : EtlEvidence(x) # {} <=> \/ FirstOf(Affirming(Bullets(x), "etl")) # {}
                                                  \/ FirstOf(Affirming(Skills(x), "etl")) # {}
    BY <1>2, FirstOfSome DEF EtlEvidence
  <2> QED BY <2>1, <1>3, <1>4
<1>7. BridgedBullet(t, r) # {} => BridgedBullet(t, s) # {}
  <2>1. CASE t = "data_pipelines"
    <3> DEFINE able(x) == {f \in Bullets(x) : /\ Cardinality(Facts[f].affirms \cap SourceSystems) >= 2
                                             /\ "pipeline" \in Facts[f].affirms}
    <3>1. able(r) \subseteq able(s) /\ able(s) \in SUBSET Nat /\ able(r) \in SUBSET Nat BY <1>1
    <3>2. \A x : BridgedBullet(t, x) = IF FirstOf(able(x)) = {} \/ EtlEvidence(x) = {} THEN {}
                                       ELSE EtlEvidence(x) \cup FirstOf(able(x))
      BY <2>1 DEF BridgedBullet
    <3> HIDE DEF able
    <3>3. FirstOf(able(r)) # {} => FirstOf(able(s)) # {} BY <3>1, FirstOfGrows
    <3> QED BY <1>6, <3>2, <3>3
  <2>2. CASE t # "data_pipelines" /\ t \in DOMAIN Bridges
    <3> DEFINE able(x) == {f \in Bullets(x) : Bridges[t] \subseteq Facts[f].affirms}
    <3>1. able(r) \subseteq able(s) /\ able(s) \in SUBSET Nat /\ able(r) \in SUBSET Nat BY <1>1
    <3>2. \A x : BridgedBullet(t, x) = FirstOf(able(x)) BY <2>2 DEF BridgedBullet
    <3> HIDE DEF able
    <3> QED BY <3>1, <3>2, FirstOfGrows
  <2>3. CASE t # "data_pipelines" /\ t \notin DOMAIN Bridges BY <2>3 DEF BridgedBullet
  <2> QED BY <2>1, <2>2, <2>3
<1>8. \A w : Affirming(Bullets(r), w) # {} => Affirming(Bullets(s), w) # {} BY <1>2
<1> QED BY <1>3, <1>4, <1>5, <1>7, <1>8

\* So do what is listed, certified, near, or signalled.
LEMMA RestGrows ==
    ASSUME NEW t, NEW r, NEW s, Extends(s, r)
    PROVE  /\ BridgedSkill(t, r) # {} => BridgedSkill(t, s) # {}
           /\ InSkills(t, r) # {} => InSkills(t, s) # {}
           /\ Certified(t, r) # {} => Certified(t, s) # {}
           /\ Adjacent(t, r) # {} => Adjacent(t, s) # {}
           /\ OtherTool(t, r) # {} => OtherTool(t, s) # {}
           /\ Transferred(t, r) # {} => Transferred(t, s) # {}
<1>0. r \in SUBSET DOMAIN Facts /\ s \in SUBSET DOMAIN Facts BY DEF Extends
<1>1. \A places : In(r, places) \subseteq In(s, places) /\ In(s, places) \in SUBSET Nat
  BY TiersGrow
<1>2. BridgedSkill(t, r) # {} => BridgedSkill(t, s) # {}
  <2>1. FirstOf(Affirming(Skills(r), "git")) # {} => FirstOf(Affirming(Skills(s), "git")) # {}
    BY BulletsGrow
  <2> QED BY <2>1 DEF BridgedSkill
<1>3. InSkills(t, r) # {} => InSkills(t, s) # {}
  BY BulletsGrow DEF InSkills
<1>4. Certified(t, r) # {} => Certified(t, s) # {}
  <2> DEFINE child == t \in {"workspaces", "refresh_cycles"} /\ Known(t).reporting
             inherited(x) == IF child THEN Implying(x, "power_bi_service") ELSE {}
  <2>1. \A x : Certified(t, x) = IF inherited(x) # {} THEN FirstOf(inherited(x)) ELSE FirstOf(Implying(x, t))
    BY DEF Certified
  <2>2. \A w : /\ Implying(r, w) \subseteq Implying(s, w)
               /\ Implying(s, w) \in SUBSET Nat /\ Implying(r, w) \in SUBSET Nat
    BY <1>1 DEF Implying, Affirming
  <2>3. inherited(r) \subseteq inherited(s) /\ inherited(s) \in SUBSET Nat /\ inherited(r) \in SUBSET Nat
    BY <2>2
  <2> HIDE DEF inherited
  <2>4. \A x \in {r, s} : Certified(t, x) # {} <=> inherited(x) # {} \/ Implying(x, t) # {}
    BY <2>1, <2>2, <2>3, FirstOfSome
  <2> QED BY <2>2, <2>3, <2>4
<1>5. /\ Skills(r) \subseteq Skills(s) /\ TierA(r) \cup TierB(r) \subseteq TierA(s) \cup TierB(s)
      /\ Bullets(r) \subseteq Bullets(s)
      /\ TierA(r) \cup TierB(r) \in SUBSET Skills(r) /\ TierA(s) \cup TierB(s) \in SUBSET Skills(s)
  BY <1>1, TiersGrow, TiersAreSkills DEF Bullets
<1>6. /\ Adjacent(t, r) # {} => Adjacent(t, s) # {}
      /\ OtherTool(t, r) # {} => OtherTool(t, s) # {}
  <2>1. ASSUME NEW without, NEW a \in SUBSET Skills(r), NEW b \in SUBSET Skills(s), a \subseteq b,
               FirstTool(t, without, a, r) # {}
        PROVE  FirstTool(t, without, b, s) # {}
    <3>1. PICK i \in DOMAIN ToolsOf(t) :
             /\ ToolsOf(t)[i] \notin without
             /\ \/ \E f \in a : ToolsOf(t)[i] \in Facts[f].entry
                \/ \E f \in Bullets(r) : ToolsOf(t)[i] \in Facts[f].affirms
      BY <1>0, <2>1, FirstToolFound
    <3>2. \/ \E f \in b : ToolsOf(t)[i] \in Facts[f].entry
          \/ \E f \in Bullets(s) : ToolsOf(t)[i] \in Facts[f].affirms
      BY <1>5, <2>1, <3>1
    <3> QED BY <1>0, <3>1, <3>2, FirstToolFound
  <2> QED BY <1>5, <2>1 DEF Adjacent, OtherTool
<1>7. Transferred(t, r) # {} => Transferred(t, s) # {}
  <2> DEFINE able(x) == {f \in Bullets(x) \cup Skills(x) : Facts[f].affirms \cap SignalsOf(t) # {}}
             named(x) == {f \in Skills(x) : Facts[f].denies \cap SignalsOf(t) # {}}
             both(x) == able(x) \cup named(x)
  <2>1. \A x : Transferred(t, x) = IF Specific(t) THEN {} ELSE FirstOf(both(x)) BY DEF Transferred
  <2>2. both(r) \subseteq both(s) /\ both(s) \in SUBSET Nat /\ both(r) \in SUBSET Nat
    BY <1>1 DEF Bullets, Skills
  <2> HIDE DEF both
  <2> QED BY <2>1, <2>2, FirstOfGrows
<1> QED BY <1>2, <1>3, <1>4, <1>5, <1>6, <1>7

\* The order of the rungs.
LEMMA Ranks ==
    ASSUME NEW d
    PROVE  /\ d.typed => /\ Rank(d, "missing") = 1 /\ Rank(d, "adjacency") = 2 /\ Rank(d, "cert") = 3
                         /\ Rank(d, "C") = 4 /\ Rank(d, "B") = 5 /\ Rank(d, "A") = 6
           /\ ~d.typed => /\ Rank(d, "missing") = 1 /\ Rank(d, "C") = 2 /\ Rank(d, "adjacency") = 3
                          /\ Rank(d, "B") = 4 /\ Rank(d, "A") = 5
<1>1. CASE d.typed
  <2> DEFINE order == <<"missing", "adjacency", "cert", "C", "B", "A">>
  <2>1. \A rung : Rank(d, rung) = CHOOSE i \in DOMAIN order : order[i] = rung BY <1>1 DEF Rank
  <2>2. /\ DOMAIN order = 1..6 /\ order[1] = "missing" /\ order[2] = "adjacency" /\ order[3] = "cert"
        /\ order[4] = "C" /\ order[5] = "B" /\ order[6] = "A"
    OBVIOUS
  <2> HIDE DEF order
  <2>3. \A i, j \in DOMAIN order : order[i] = order[j] => i = j
    <3>1. \A i \in 1..6 : i = 1 \/ i = 2 \/ i = 3 \/ i = 4 \/ i = 5 \/ i = 6 OBVIOUS
    <3> QED BY <2>2, <3>1
  <2>4. \A i \in DOMAIN order : Rank(d, order[i]) = i BY <2>1, <2>3
  <2>5. \A i \in 1..6 : Rank(d, order[i]) = i BY <2>2, <2>4
  <2> QED BY <1>1, <2>2, <2>5
<1>2. CASE ~d.typed
  <2> DEFINE order == <<"missing", "C", "adjacency", "B", "A">>
  <2>1. \A rung : Rank(d, rung) = CHOOSE i \in DOMAIN order : order[i] = rung BY <1>2 DEF Rank
  <2>2. /\ DOMAIN order = 1..5 /\ order[1] = "missing" /\ order[2] = "C" /\ order[3] = "adjacency"
        /\ order[4] = "B" /\ order[5] = "A"
    OBVIOUS
  <2> HIDE DEF order
  <2>3. \A i, j \in DOMAIN order : order[i] = order[j] => i = j
    <3>1. \A i \in 1..5 : i = 1 \/ i = 2 \/ i = 3 \/ i = 4 \/ i = 5 OBVIOUS
    <3> QED BY <2>2, <3>1
  <2>4. \A i \in DOMAIN order : Rank(d, order[i]) = i BY <2>1, <2>3
  <2>5. \A i \in 1..5 : Rank(d, order[i]) = i BY <2>2, <2>4
  <2> QED BY <1>2, <2>2, <2>5
<1> QED BY <1>1, <1>2

\* The names of the rungs.
LEMMA ResolveRung ==
    ASSUME NEW t, NEW r
    PROVE  Resolve(t, r).rung =
             IF BridgedBullet(t, r) # {} \/ DirectBullet(t, r) # {} THEN "A"
             ELSE IF InSummary(t, r) # {} THEN "B"
             ELSE IF BridgedSkill(t, r) # {} \/ InSkills(t, r) # {} THEN "C"
             ELSE IF Certified(t, r) # {} THEN "cert"
             ELSE IF Adjacent(t, r) # {} THEN "adjacency"
             ELSE "missing"
<1>1. \A name, shown : Rung(name, shown).rung = name BY DEF Rung
<1> QED BY <1>1, ResolveByRung

\* The same for plain keywords.
LEMMA ClassifyRung ==
    ASSUME NEW t, NEW r
    PROVE  Classify(t, r).rung =
             IF FirstOf(Matching(TierA(r), t)) # {} THEN "A"
             ELSE IF FirstOf(Matching(TierB(r), t)) # {} THEN "B"
             ELSE IF FirstOf(Affirming(Bullets(r), t)) # {} THEN "A"
             ELSE IF OtherTool(t, r) # {} \/ Transferred(t, r) # {} THEN "adjacency"
             ELSE IF FirstOf(Entries(TierC(r), t)) # {} THEN "C"
             ELSE "missing"
<1>1. \A name, shown : Rung(name, shown).rung = name BY DEF Rung
<1> QED BY <1>1, ClassifyByRung

\* Nothing new merely looks at a dashboard.
NoGlance(d, s, r) == \A f \in s \ r : ~OnlyLookedAt(d, f)

\* A skill that leaves the summary's tier does so by a bullet that says it, and
\* all that it says.
LEMMA TierLeft ==
    ASSUME NEW r, NEW s, Extends(s, r), NEW g \in TierB(r), g \notin TierB(s)
    PROVE  /\ g \in TierA(s)
           /\ \E f \in s \ r : Facts[f].place = "bullet" /\ Facts[g].affirms \subseteq Facts[f].affirms
<1>1. g \in TierA(s) BY TiersGrow
<1>2. PICK w \in Facts[g].entry : Affirming(Bullets(s), w) # {} BY <1>1 DEF TierA, Said
<1>3. PICK f \in Bullets(s) : w \in Facts[f].affirms BY <1>2 DEF Affirming
<1>4. g \in Skills(r) /\ ~Said(g, Bullets(r)) BY DEF TierB, TierA
<1>5. f \notin r BY <1>2, <1>3, <1>4 DEF Said, Affirming, Bullets, In
<1>6. f \in s /\ f \in DOMAIN Facts /\ Facts[f].place = "bullet" BY <1>3 DEF Bullets, In, Extends
<1>7. g \in DOMAIN Facts BY <1>4 DEF Skills, In, Extends
<1>8. Facts[g].entry \cap Facts[f].affirms # {} BY <1>2, <1>3
<1>9. Facts[g].affirms \subseteq Facts[f].affirms BY <1>6, <1>7, <1>8, LadderAssumption
<1> QED BY <1>1, <1>5, <1>6, <1>9

\* A typed term that leaves the summary's rung stands on such a bullet.
LEMMA SummaryKept ==
    ASSUME NEW d, d.typed, NEW r, NEW s, Extends(s, r), NoGlance(d, s, r), InSummary(d.term, r) # {}
    PROVE  DirectBullet(d.term, s) # {} \/ InSummary(d.term, s) # {}
<1> DEFINE t == d.term
<1>0. r \in SUBSET DOMAIN Facts /\ s \in SUBSET DOMAIN Facts BY DEF Extends
<1>1. PICK g \in TierB(r) : t \in Facts[g].affirms BY <1>0, HeldFirst
<1>2. CASE g \in TierB(s) BY <1>0, <1>1, <1>2, HeldFirst
<1>3. CASE g \notin TierB(s)
  <2>1. PICK f \in s \ r : Facts[f].place = "bullet" /\ Facts[g].affirms \subseteq Facts[f].affirms
    BY <1>3, TierLeft
  <2>2. f \in Bullets(s) /\ t \in Facts[f].affirms BY <1>1, <2>1 DEF Bullets, In
  <2>3. t = "dashboards" => "built" \in Facts[f].affirms BY <2>1, <2>2 DEF NoGlance, OnlyLookedAt
  <2> DEFINE able == {x \in Affirming(Bullets(s), t) : t = "dashboards" => "built" \in Facts[x].affirms}
  <2>4. f \in able BY <2>2, <2>3 DEF Affirming
  <2>5. able \in SUBSET Nat BY <1>0 DEF Affirming, Bullets, In
  <2>6. DirectBullet(t, s) = FirstOf(able) BY DEF DirectBullet
  <2> HIDE DEF able
  <2> QED BY <2>4, <2>5, <2>6, FirstOfSome
<1> QED BY <1>2, <1>3

\* A typed demand stands no lower with more facts ...
LEMMA ResolveGrows ==
    ASSUME NEW d, d.typed, NEW r, NEW s, Extends(s, r), NoGlance(d, s, r)
    PROVE  Rank(d, Resolve(d.term, s).rung) >= Rank(d, Resolve(d.term, r).rung)
<1> DEFINE t == d.term
<1>1. /\ BridgedBullet(t, r) # {} => BridgedBullet(t, s) # {}
      /\ DirectBullet(t, r) # {} => DirectBullet(t, s) # {}
  BY BulletsGrow
<1>2. InSummary(t, r) # {} => DirectBullet(t, s) # {} \/ InSummary(t, s) # {} BY SummaryKept
<1>3. /\ BridgedSkill(t, r) # {} => BridgedSkill(t, s) # {}
      /\ InSkills(t, r) # {} => InSkills(t, s) # {}
      /\ Certified(t, r) # {} => Certified(t, s) # {}
      /\ Adjacent(t, r) # {} => Adjacent(t, s) # {}
  BY RestGrows
<1>4. /\ Rank(d, "missing") = 1 /\ Rank(d, "adjacency") = 2 /\ Rank(d, "cert") = 3
      /\ Rank(d, "C") = 4 /\ Rank(d, "B") = 5 /\ Rank(d, "A") = 6
  BY Ranks
<1> HIDE DEF t
<1> DEFINE of(x) == IF BridgedBullet(t, x) # {} \/ DirectBullet(t, x) # {} THEN 6
                    ELSE IF InSummary(t, x) # {} THEN 5
                    ELSE IF BridgedSkill(t, x) # {} \/ InSkills(t, x) # {} THEN 4
                    ELSE IF Certified(t, x) # {} THEN 3
                    ELSE IF Adjacent(t, x) # {} THEN 2
                    ELSE 1
<1>5. \A x : Rank(d, Resolve(t, x).rung) = of(x) BY <1>4, ResolveRung
<1>6. of(s) >= of(r) BY <1>1, <1>2, <1>3
<1> HIDE DEF of
<1> QED BY <1>5, <1>6 DEF t

\* A keyword that a bullet shows is taken to the summary's rung only by a longer
\* skill: the bullet that says the keyword says what is inside it, and the skills
\* that are the keyword, or a part of it, are then shown by the bullet.
LEMMA OnlyOutranked ==
    ASSUME NEW d, ~d.typed, NEW r \in SUBSET DOMAIN Facts,
           FirstOf(Affirming(Bullets(r), d.term)) # {}, FirstOf(Matching(TierB(r), d.term)) # {}
    PROVE  Outranked(d, r)
<1> DEFINE t == d.term
<1>1. PICK h \in Bullets(r) : t \in Facts[h].affirms BY HeldFirst
<1>2. PICK g \in TierB(r) : g \in Matching(TierB(r), t) BY HeldFirst
<1>3. h \in DOMAIN Facts /\ g \in DOMAIN Facts /\ ~Said(g, Bullets(r))
  BY DEF TierB, TierA, Skills, Bullets, In
<1>4. Facts[g].entry \cap Facts[h].affirms = {} BY <1>1, <1>3 DEF Said, Affirming
<1>5. t \notin Facts[g].entry BY <1>1, <1>4
<1>6. Facts[g].entry \cap PartsOf(t) = {}
  <2>1. CASE t \in DOMAIN Knowledge
    <3>1. PartsOf(t) = Knowledge[t].parts BY <2>1 DEF PartsOf, Known
    <3>2. Knowledge[t].parts \subseteq Facts[h].affirms BY <1>1, <1>3, <2>1, LadderAssumption
    <3> QED BY <1>4, <3>1, <3>2
  <2>2. CASE t \notin DOMAIN Knowledge
    <3>1. PartsOf(t) = {} BY <2>2 DEF PartsOf, Known
    <3> QED BY <3>1
  <2> QED BY <2>1, <2>2
<1>7. t \in Facts[g].affirms BY <1>2, <1>6 DEF Matching
<1>8. Affirming(Bullets(r), t) # {} BY <1>1 DEF Affirming
<1> QED BY <1>5, <1>7, <1>8 DEF Outranked

\* How the tiers that hold a keyword move when facts are added.
LEMMA MatchingGrows ==
    ASSUME NEW t, NEW r, NEW s, Extends(s, r)
    PROVE  /\ FirstOf(Matching(TierA(r), t)) # {} => FirstOf(Matching(TierA(s), t)) # {}
           /\ FirstOf(Matching(TierB(r), t)) # {} =>
                FirstOf(Matching(TierA(s), t)) # {} \/ FirstOf(Matching(TierB(s), t)) # {}
           /\ FirstOf(Entries(TierC(r), t)) # {} =>
                \/ FirstOf(Matching(TierA(s), t)) # {}
                \/ FirstOf(Matching(TierB(s), t)) # {}
                \/ FirstOf(Entries(TierC(s), t)) # {}
<1>0. r \in SUBSET DOMAIN Facts /\ s \in SUBSET DOMAIN Facts BY DEF Extends
<1>1. /\ Skills(r) \subseteq Skills(s) /\ TierA(r) \subseteq TierA(s)
      /\ TierB(r) \subseteq TierA(s) \cup TierB(s)
  BY TiersGrow
<1>2. Skills(s) = TierA(s) \cup TierB(s) \cup TierC(s) BY TiersAreSkills DEF TierC
<1>3. \A facts, f : f \in facts /\ t \in Facts[f].entry /\ f \in DOMAIN Facts => f \in Matching(facts, t)
  BY LadderAssumption DEF Matching
<1>4. \A one, two, f : f \in Matching(one, t) /\ f \in two => f \in Matching(two, t) BY DEF Matching
<1>5. FirstOf(Matching(TierA(r), t)) # {} => FirstOf(Matching(TierA(s), t)) # {}
  BY <1>0, <1>1, <1>4, HeldFirst
<1>6. FirstOf(Matching(TierB(r), t)) # {} =>
        FirstOf(Matching(TierA(s), t)) # {} \/ FirstOf(Matching(TierB(s), t)) # {}
  BY <1>0, <1>1, <1>4, HeldFirst
<1>7. ASSUME FirstOf(Entries(TierC(r), t)) # {}
      PROVE  \/ FirstOf(Matching(TierA(s), t)) # {}
             \/ FirstOf(Matching(TierB(s), t)) # {}
             \/ FirstOf(Entries(TierC(s), t)) # {}
  <2>1. PICK f \in TierC(r) : t \in Facts[f].entry BY <1>0, <1>7, HeldFirst
  <2>2. f \in Skills(s) /\ f \in DOMAIN Facts BY <1>0, <1>1, TiersAreSkills DEF Skills, In
  <2> QED BY <1>0, <1>2, <1>3, <2>1, <2>2, HeldFirst
<1> QED BY <1>5, <1>6, <1>7

\* ... nor does a plain keyword, but for a longer skill the summary says.
LEMMA ClassifyGrows ==
    ASSUME NEW d, ~d.typed, NEW r, NEW s, Extends(s, r)
    PROVE  \/ Rank(d, Classify(d.term, s).rung) >= Rank(d, Classify(d.term, r).rung)
           \/ Outranked(d, s) /\ Classify(d.term, s).rung = "B"
<1> DEFINE t == d.term
           lifted(x) == FirstOf(Matching(TierA(x), t)) # {}
           summed(x) == FirstOf(Matching(TierB(x), t)) # {}
           worked(x) == FirstOf(Affirming(Bullets(x), t)) # {}
           near(x) == OtherTool(t, x) # {} \/ Transferred(t, x) # {}
           listed(x) == FirstOf(Entries(TierC(x), t)) # {}
<1>1. /\ lifted(r) => lifted(s)
      /\ summed(r) => lifted(s) \/ summed(s)
      /\ listed(r) => lifted(s) \/ summed(s) \/ listed(s)
  BY MatchingGrows
<1>2. worked(r) => worked(s) BY BulletsGrow
<1>3. near(r) => near(s) BY RestGrows
<1>4. worked(s) /\ summed(s) => Outranked(d, s) BY OnlyOutranked DEF Extends
<1>5. /\ Rank(d, "missing") = 1 /\ Rank(d, "C") = 2 /\ Rank(d, "adjacency") = 3
      /\ Rank(d, "B") = 4 /\ Rank(d, "A") = 5
  BY Ranks
<1> HIDE DEF t
<1> DEFINE of(x) == IF lifted(x) THEN "A"
                    ELSE IF summed(x) THEN "B"
                    ELSE IF worked(x) THEN "A"
                    ELSE IF near(x) THEN "adjacency"
                    ELSE IF listed(x) THEN "C"
                    ELSE "missing"
<1>6. \A x : Classify(t, x).rung = of(x) BY ClassifyRung
<1> HIDE DEF lifted, summed, worked, near, listed
<1>7. Rank(d, of(s)) >= Rank(d, of(r)) \/ (worked(s) /\ summed(s) /\ of(s) = "B")
  BY <1>1, <1>2, <1>3, <1>5
<1> HIDE DEF of
<1> QED BY <1>4, <1>6, <1>7 DEF t

\* A resume that says more stands no lower for any demand, but for such a skill.
LEMMA RankGrows ==
    ASSUME NEW d, NEW r, NEW s, Extends(s, r), NoGlance(d, s, r)
    PROVE  \/ Rank(d, Linked(d, s).rung) >= Rank(d, Linked(d, r).rung)
           \/ Outranked(d, s) /\ Linked(d, s).rung = "B"
BY ResolveGrows, ClassifyGrows DEF Linked

\* What is missing with more facts was missing with fewer.
LEMMA GapsShrink ==
    ASSUME NEW d, NEW r, NEW s, Extends(s, r), NoGlance(d, s, r), Linked(d, s).rung = "missing"
    PROVE  Linked(d, r).rung = "missing"
<1>1. CASE d.typed
  <2>1. Linked(d, r).rung \in {"missing", "adjacency", "cert", "C", "B", "A"}
    BY <1>1, ResolveRung DEF Linked
  <2>2. Rank(d, "missing") >= Rank(d, Linked(d, r).rung) BY RankGrows
  <2> QED BY <1>1, <2>1, <2>2, Ranks
<1>2. CASE ~d.typed
  <2>1. Linked(d, r).rung \in {"missing", "adjacency", "C", "B", "A"}
    BY <1>2, ClassifyRung DEF Linked
  <2>2. Rank(d, "missing") >= Rank(d, Linked(d, r).rung) BY RankGrows
  <2> QED BY <1>2, <2>1, <2>2, Ranks
<1> QED BY <1>1, <1>2

-----------------------------------------------------------------------------
(* One more bullet *)

\* s says more than r in bullets only.
MoreBullets(s, r) == Extends(s, r) /\ \A f \in s \ r : Facts[f].place = "bullet"

\* Bullets list nothing and certify nothing; they only lift what is listed.
LEMMA BulletsListNothing ==
    ASSUME NEW t, NEW r, NEW s, MoreBullets(s, r)
    PROVE  /\ Skills(s) = Skills(r) /\ TierB(s) \subseteq TierB(r) /\ TierC(s) \subseteq TierC(r)
           /\ BridgedSkill(t, s) = BridgedSkill(t, r) /\ InSkills(t, s) = InSkills(t, r)
           /\ Certified(t, s) = Certified(t, r)
<1>1. Extends(s, r) BY DEF MoreBullets
<1>2. \A places : "bullet" \notin places => In(s, places) = In(r, places)
  BY DEF In, MoreBullets, Extends
<1>3. Skills(s) = Skills(r) BY <1>2 DEF Skills
<1>4. TierA(r) \subseteq TierA(s) /\ TierB(r) \subseteq TierA(s) \cup TierB(s) BY <1>1, TiersGrow
<1>5. TierB(s) \subseteq TierB(r)
  <2>1. In(s, {"summary"}) = In(r, {"summary"}) BY <1>2
  <2> QED BY <1>3, <1>4, <2>1 DEF TierB
<1>6. TierC(s) \subseteq TierC(r) BY <1>3, <1>4 DEF TierC
<1>7. BridgedSkill(t, s) = BridgedSkill(t, r) /\ InSkills(t, s) = InSkills(t, r)
  BY <1>3 DEF BridgedSkill, InSkills
<1>8. Certified(t, s) = Certified(t, r)
  <2>1. In(s, {"certificate"}) = In(r, {"certificate"}) BY <1>2
  <2>2. \A w : Implying(s, w) = Implying(r, w) BY <2>1 DEF Implying
  <2> QED BY <2>2 DEF Certified
<1> QED BY <1>3, <1>5, <1>6, <1>7, <1>8

\* A bullet leaves a demand on its rung, lifts it to the top, or makes a listed
\* or missing term adjacent.
LEMMA BulletLifts ==
    ASSUME NEW d, NEW r, NEW s, MoreBullets(s, r), NoGlance(d, s, r)
    PROVE  \/ Linked(d, s).rung = Linked(d, r).rung
           \/ Linked(d, s).rung = "A"
           \/ Linked(d, s).rung = "adjacency" /\ Linked(d, r).rung \in {"missing", "C"}
<1> DEFINE t == d.term
<1>1. Extends(s, r) BY DEF MoreBullets
<1>2. /\ TierB(s) \subseteq TierB(r) /\ TierC(s) \subseteq TierC(r)
      /\ BridgedSkill(t, s) = BridgedSkill(t, r) /\ InSkills(t, s) = InSkills(t, r)
      /\ Certified(t, s) = Certified(t, r)
  BY BulletsListNothing
<1>3. r \in SUBSET DOMAIN Facts /\ s \in SUBSET DOMAIN Facts BY <1>1 DEF Extends
<1>4. CASE d.typed
  <2>1. /\ BridgedBullet(t, r) # {} => BridgedBullet(t, s) # {}
        /\ DirectBullet(t, r) # {} => DirectBullet(t, s) # {}
        /\ Adjacent(t, r) # {} => Adjacent(t, s) # {}
    BY <1>1, BulletsGrow, RestGrows
  <2>2. InSummary(t, r) # {} => DirectBullet(t, s) # {} \/ InSummary(t, s) # {}
    BY <1>1, <1>4, SummaryKept
  <2>3. InSummary(t, s) # {} => InSummary(t, r) # {} BY <1>2, <1>3, HeldFirst
  <2>4. Linked(d, s) = Resolve(t, s) /\ Linked(d, r) = Resolve(t, r) BY <1>4 DEF Linked
  <2> HIDE DEF t
  <2> DEFINE of(x) == IF BridgedBullet(t, x) # {} \/ DirectBullet(t, x) # {} THEN "A"
                      ELSE IF InSummary(t, x) # {} THEN "B"
                      ELSE IF BridgedSkill(t, x) # {} \/ InSkills(t, x) # {} THEN "C"
                      ELSE IF Certified(t, x) # {} THEN "cert"
                      ELSE IF Adjacent(t, x) # {} THEN "adjacency"
                      ELSE "missing"
  <2>5. Linked(d, s).rung = of(s) /\ Linked(d, r).rung = of(r) BY <2>4, ResolveRung
  <2>6. of(s) \in {of(r), "A"} \/ (of(s) = "adjacency" /\ of(r) \in {"missing", "C"})
    BY <1>2, <2>1, <2>2, <2>3
  <2> HIDE DEF of
  <2> QED BY <2>5, <2>6
<1>5. CASE ~d.typed
  <2> DEFINE lifted(x) == FirstOf(Matching(TierA(x), t)) # {}
             summed(x) == FirstOf(Matching(TierB(x), t)) # {}
             worked(x) == FirstOf(Affirming(Bullets(x), t)) # {}
             near(x) == OtherTool(t, x) # {} \/ Transferred(t, x) # {}
             listed(x) == FirstOf(Entries(TierC(x), t)) # {}
  <2>1. /\ lifted(r) => lifted(s)
        /\ summed(r) => lifted(s) \/ summed(s)
        /\ listed(r) => lifted(s) \/ summed(s) \/ listed(s)
    BY <1>1, MatchingGrows
  <2>2. worked(r) => worked(s) BY <1>1, BulletsGrow
  <2>3. near(r) => near(s) BY <1>1, RestGrows
  <2>4. summed(s) => summed(r)
    <3>1. \A one, two, f : f \in Matching(one, t) /\ f \in two => f \in Matching(two, t) BY DEF Matching
    <3> QED BY <1>2, <1>3, <3>1, HeldFirst
  <2>5. listed(s) => listed(r) BY <1>2, <1>3, HeldFirst
  <2>6. Linked(d, s) = Classify(t, s) /\ Linked(d, r) = Classify(t, r) BY <1>5 DEF Linked
  <2> HIDE DEF t
  <2> DEFINE of(x) == IF lifted(x) THEN "A"
                      ELSE IF summed(x) THEN "B"
                      ELSE IF worked(x) THEN "A"
                      ELSE IF near(x) THEN "adjacency"
                      ELSE IF listed(x) THEN "C"
                      ELSE "missing"
  <2>7. Linked(d, s).rung = of(s) /\ Linked(d, r).rung = of(r) BY <2>6, ClassifyRung
  <2> HIDE DEF lifted, summed, worked, near, listed
  <2>8. of(s) \in {of(r), "A"} \/ (of(s) = "adjacency" /\ of(r) \in {"missing", "C"})
    BY <2>1, <2>2, <2>3, <2>4, <2>5
  <2> HIDE DEF of
  <2> QED BY <2>7, <2>8
<1> QED BY <1>4, <1>5

\* The rungs there are.
RungNames == {"missing", "adjacency", "cert", "C", "B", "A"}

\* Whatever the demand, its rung is one of these.
LEMMA LinkedRung == ASSUME NEW d, NEW r PROVE Linked(d, r).rung \in RungNames
<1>1. CASE d.typed BY <1>1, ResolveRung DEF Linked, RungNames
<1>2. CASE ~d.typed BY <1>2, ClassifyRung DEF Linked, RungNames
<1> QED BY <1>1, <1>2

\* What a rung earns.
LEMMA Credits ==
    /\ Credit[Projected("missing")] = 0 /\ Credit[Projected("adjacency")] = 55
    /\ Credit[Projected("cert")] = 35 /\ Credit[Projected("C")] = 35
    /\ Credit[Projected("B")] = 80 /\ Credit[Projected("A")] = 100
BY DEF Credit, Projected

\* Coverage is a quotient of two sums over the demands.
LEMMA CoverageIsQuotient ==
    ASSUME NEW wanted, IsFiniteSet(wanted), wanted # {}, NEW shown,
           \A d \in wanted : shown[d].rung \in RungNames
    PROVE  LET weight == [d \in wanted |-> IF d.required THEN 2 ELSE 1]
               earned == [d \in wanted |-> weight[d] * Credit[Projected(shown[d].rung)]]
           IN  /\ \A d \in wanted : weight[d] \in Nat \ {0} /\ earned[d] \in Nat
               /\ \E one, two : /\ Sums(one, wanted, earned) /\ Sums(two, wanted, weight)
                                /\ Coverage(wanted, shown) = one[wanted] \div two[wanted]
<1> DEFINE wt(d) == IF d.required THEN 2 ELSE 1
           en(d) == wt(d) * Credit[Projected(shown[d].rung)]
           weight == [d \in wanted |-> wt(d)]
           earned == [d \in wanted |-> weight[d] * Credit[Projected(shown[d].rung)]]
           RecE(it) == [s \in SUBSET wanted |-> IF s = {} THEN 0 ELSE en(Member(s)) + it[s \ {Member(s)}]]
           RecW(it) == [s \in SUBSET wanted |-> IF s = {} THEN 0 ELSE wt(Member(s)) + it[s \ {Member(s)}]]
           one == CHOOSE it : it = RecE(it)
           two == CHOOSE it : it = RecW(it)
<1>1. \A d \in wanted : weight[d] \in Nat \ {0} /\ earned[d] \in Nat /\ earned[d] = en(d) /\ weight[d] = wt(d)
  <2> TAKE d \in wanted
  <2>1. weight[d] \in Nat \ {0} /\ weight[d] = wt(d) /\ earned[d] = en(d) OBVIOUS
  <2>2. Credit[Projected(shown[d].rung)] \in Nat BY Credits DEF RungNames
  <2>3. earned[d] = wt(d) * Credit[Projected(shown[d].rung)] BY <2>1
  <2>4. wt(d) \in Nat OBVIOUS
  <2> HIDE DEF wt, earned
  <2> QED BY <2>1, <2>2, <2>3, <2>4
<1>2. Coverage(wanted, shown) = one[wanted] \div two[wanted]
  BY DEF Coverage, MapThenSumSet, MapThenFoldSet, Member
<1> HIDE DEF wt, en, weight, earned
<1>3. \A s \in SUBSET wanted : s # {} => Member(s) \in wanted BY OneLess
<1>4. Sums(one, wanted, earned)
  <2>1. PICK w : Sums(w, wanted, earned) BY <1>1, SumExists
  <2>2. ASSUME NEW s \in SUBSET wanted
        PROVE  w[s] = IF s = {} THEN 0 ELSE en(Member(s)) + w[s \ {Member(s)}]
    <3>1. w[s] = IF s = {} THEN 0 ELSE earned[Member(s)] + w[s \ {Member(s)}] BY <2>1 DEF Sums
    <3> QED BY <1>1, <1>3, <3>1
  <2>3. w = [s \in SUBSET wanted |-> w[s]] BY <2>1 DEF Sums
  <2>4. w = RecE(w) BY <2>2, <2>3
  <2>5. one = RecE(one) BY <2>4
  <2> HIDE DEF one
  <2>6. one = [s \in SUBSET wanted |-> IF s = {} THEN 0 ELSE earned[Member(s)] + one[s \ {Member(s)}]]
    BY <1>1, <1>3, <2>5
  <2> QED BY <1>1, <2>6, SumTyped
<1>5. Sums(two, wanted, weight)
  <2>1. PICK w : Sums(w, wanted, weight) BY <1>1, SumExists
  <2>2. ASSUME NEW s \in SUBSET wanted
        PROVE  w[s] = IF s = {} THEN 0 ELSE wt(Member(s)) + w[s \ {Member(s)}]
    <3>1. w[s] = IF s = {} THEN 0 ELSE weight[Member(s)] + w[s \ {Member(s)}] BY <2>1 DEF Sums
    <3> QED BY <1>1, <1>3, <3>1
  <2>3. w = [s \in SUBSET wanted |-> w[s]] BY <2>1 DEF Sums
  <2>4. w = RecW(w) BY <2>2, <2>3
  <2>5. two = RecW(two) BY <2>4
  <2> HIDE DEF two
  <2>6. two = [s \in SUBSET wanted |-> IF s = {} THEN 0 ELSE weight[Member(s)] + two[s \ {Member(s)}]]
    BY <1>1, <1>3, <2>5
  <2> QED BY <1>1, <2>6, SumTyped
<1> HIDE DEF one, two
<1>6. \E x, y : /\ Sums(x, wanted, earned) /\ Sums(y, wanted, weight)
                /\ Coverage(wanted, shown) = x[wanted] \div y[wanted]
  BY <1>2, <1>4, <1>5
<1>7. \A d \in wanted : weight[d] \in Nat \ {0} /\ earned[d] \in Nat BY <1>1
<1> QED BY <1>6, <1>7 DEF weight, earned, wt

\* Links that earn no less cover no less.
LEMMA CoverageGrows ==
    ASSUME NEW wanted, IsFiniteSet(wanted), wanted # {}, NEW one, NEW two,
           \A d \in wanted : /\ one[d].rung \in RungNames /\ two[d].rung \in RungNames
                             /\ Credit[Projected(one[d].rung)] <= Credit[Projected(two[d].rung)]
    PROVE  /\ Coverage(wanted, one) \in Nat /\ Coverage(wanted, two) \in Nat
           /\ Coverage(wanted, one) <= Coverage(wanted, two)
<1> DEFINE weight == [d \in wanted |-> IF d.required THEN 2 ELSE 1]
           earned(shown) == [d \in wanted |-> weight[d] * Credit[Projected(shown[d].rung)]]
<1>1. /\ \A d \in wanted : weight[d] \in Nat \ {0} /\ earned(one)[d] \in Nat
      /\ \E x, y : /\ Sums(x, wanted, earned(one)) /\ Sums(y, wanted, weight)
                   /\ Coverage(wanted, one) = x[wanted] \div y[wanted]
  BY CoverageIsQuotient
<1>2. /\ \A d \in wanted : weight[d] \in Nat \ {0} /\ earned(two)[d] \in Nat
      /\ \E x, y : /\ Sums(x, wanted, earned(two)) /\ Sums(y, wanted, weight)
                   /\ Coverage(wanted, two) = x[wanted] \div y[wanted]
  BY CoverageIsQuotient
<1>3. \A d \in wanted : earned(one)[d] <= earned(two)[d]
  <2> TAKE d \in wanted
  <2> DEFINE a == Credit[Projected(one[d].rung)]
             b == Credit[Projected(two[d].rung)]
  <2>1. a \in Nat /\ b \in Nat /\ a <= b BY Credits DEF RungNames
  <2>2. weight[d] = 1 \/ weight[d] = 2 OBVIOUS
  <2>3. earned(one)[d] = weight[d] * a /\ earned(two)[d] = weight[d] * b OBVIOUS
  <2> HIDE DEF a, b, weight, earned
  <2>4. CASE weight[d] = 1 BY <2>1, <2>3, <2>4
  <2>5. CASE weight[d] = 2 BY <2>1, <2>3, <2>5
  <2> QED BY <2>2, <2>4, <2>5
<1> HIDE DEF weight, earned
<1>4. PICK x1, y1 : /\ Sums(x1, wanted, earned(one)) /\ Sums(y1, wanted, weight)
                    /\ Coverage(wanted, one) = x1[wanted] \div y1[wanted]
  BY <1>1
<1>5. PICK x2, y2 : /\ Sums(x2, wanted, earned(two)) /\ Sums(y2, wanted, weight)
                    /\ Coverage(wanted, two) = x2[wanted] \div y2[wanted]
  BY <1>2
<1>6. \A d \in wanted : weight[d] \in Nat /\ weight[d] <= weight[d] BY <1>1
<1>7. y1[wanted] <= y2[wanted] /\ y2[wanted] <= y1[wanted] BY <1>4, <1>5, <1>6, SumsCompare
<1>8. y1[wanted] \in Nat \ {0} /\ y2[wanted] \in Nat \ {0} BY <1>1, <1>4, <1>5, SumPositive
<1>9. y1[wanted] = y2[wanted] BY <1>7, <1>8
<1>10. x1[wanted] \in Nat /\ x2[wanted] \in Nat BY <1>4, <1>5 DEF Sums
<1>11. x1[wanted] <= x2[wanted] BY <1>1, <1>2, <1>3, <1>4, <1>5, SumsCompare
<1> QED BY <1>4, <1>5, <1>8, <1>9, <1>10, <1>11, QuotientsCompare

\* Fewer of the demands are missing, and none of what decides the chance of an
\* interview is new.
LEMMA ChanceGrows ==
    ASSUME NEW wanted, IsFiniteSet(wanted), NEW one, NEW two,
           \A d \in wanted :
              /\ one[d].rung \in RungNames
              /\ \/ two[d].rung = one[d].rung
                 \/ two[d].rung = "A"
                 \/ two[d].rung = "adjacency" /\ one[d].rung \in {"missing", "C"}
    PROVE  InterviewChance(wanted, two) >= InterviewChance(wanted, one)
<1> DEFINE preferred == {d \in wanted : ~d.required}
           judged == IF preferred = wanted THEN wanted ELSE wanted \ preferred
           On(set, rung, shown) == {d \in set : Projected(shown[d].rung) = rung}
           chance(shown) == IF Cardinality(On(judged, "missing", shown)) >= 2 THEN 52
                            ELSE IF On(judged, "missing", shown) \cup On(judged, "C", shown) # {} THEN 68
                            ELSE IF \/ On(judged, "adjacency", shown) # {}
                                    \/ On(preferred, "missing", shown) # {} THEN 82
                            ELSE 91
<1>1. InterviewChance(wanted, one) = chance(one) /\ InterviewChance(wanted, two) = chance(two)
  BY DEF InterviewChance
<1>2. judged \subseteq wanted /\ preferred \subseteq wanted OBVIOUS
<1> HIDE DEF judged, preferred
<1>3. \A d \in wanted :
         LET p == Projected(one[d].rung)
             q == Projected(two[d].rung)
         IN  /\ q = "missing" => p = "missing"
             /\ q = "C" => p = "C"
             /\ q = "adjacency" => p \in {"adjacency", "missing", "C"}
  BY DEF Projected, RungNames
<1>4. /\ On(judged, "missing", two) \subseteq On(judged, "missing", one)
      /\ On(judged, "C", two) \subseteq On(judged, "C", one)
      /\ On(preferred, "missing", two) \subseteq On(preferred, "missing", one)
      /\ On(judged, "adjacency", two) \subseteq
           On(judged, "adjacency", one) \cup On(judged, "missing", one) \cup On(judged, "C", one)
  BY <1>2, <1>3
<1>5. /\ IsFiniteSet(On(judged, "missing", one))
      /\ On(judged, "missing", two) \in SUBSET On(judged, "missing", one)
  BY <1>2, <1>4, FS_Subset
<1>6. /\ Cardinality(On(judged, "missing", two)) <= Cardinality(On(judged, "missing", one))
      /\ Cardinality(On(judged, "missing", one)) \in Nat
      /\ Cardinality(On(judged, "missing", two)) \in Nat
  BY <1>5, FS_Subset, FS_CardinalityType
<1> HIDE DEF On
<1>7. chance(two) >= chance(one) BY <1>4, <1>6
<1> HIDE DEF chance
<1> QED BY <1>1, <1>7

\* More coverage and fewer gaps lose no good or strong fit.
LEMMA FitGrows ==
    ASSUME NEW a \in Nat, NEW b \in Nat, a <= b, NEW m \in Nat, NEW n \in Nat, n <= m
    PROVE  /\ FitCategory(a, m) = "strong_fit" => FitCategory(b, n) = "strong_fit"
           /\ FitCategory(a, m) = "good_fit" => FitCategory(b, n) \in {"good_fit", "strong_fit"}
BY DEF FitCategory

\* A bullet lowers no rank.
LEMMA BulletLowersNothing ==
    ASSUME NEW d, NEW r, NEW s, MoreBullets(s, r), NoGlance(d, s, r)
    PROVE  Rank(d, Linked(d, s).rung) >= Rank(d, Linked(d, r).rung)
<1> DEFINE one == Linked(d, r).rung
           two == Linked(d, s).rung
<1>1. \/ two = one
      \/ two = "A"
      \/ two = "adjacency" /\ one \in {"missing", "C"}
  BY BulletLifts
<1>2. /\ d.typed => /\ one \in {"missing", "adjacency", "cert", "C", "B", "A"}
                    /\ two \in {"missing", "adjacency", "cert", "C", "B", "A"}
      /\ ~d.typed => /\ one \in {"missing", "adjacency", "C", "B", "A"}
                     /\ two \in {"missing", "adjacency", "C", "B", "A"}
  BY ResolveRung, ClassifyRung DEF Linked
<1>3. Rank(d, two) >= Rank(d, one) \/ (Outranked(d, s) /\ two = "B")
  <2>1. Extends(s, r) BY DEF MoreBullets
  <2>2. \/ Rank(d, Linked(d, s).rung) >= Rank(d, Linked(d, r).rung)
        \/ Outranked(d, s) /\ Linked(d, s).rung = "B"
    BY <2>1, RankGrows
  <2> QED BY <2>2
<1> HIDE DEF one, two
<1>4. two = "B" => Rank(d, two) >= Rank(d, one)
  BY <1>1, <1>2, Ranks
<1> QED BY <1>3, <1>4 DEF one, two

\* One more fact, as far as the ranks and the gaps go.
LEMMA AddKeepsRanks ==
    ASSUME Inv, NEW f \in DOMAIN Facts, Add(f), \A d \in demands : ~OnlyLookedAt(d, f)
    PROVE  /\ \A d \in demands :
                 /\ links[d] = Linked(d, resume) /\ links'[d] = Linked(d, resume')
                 /\ Extends(resume', resume) /\ NoGlance(d, resume', resume)
                 /\ \/ Rank(d, links'[d].rung) >= Rank(d, links[d].rung)
                    \/ Facts[f].place # "bullet" /\ Outranked(d, resume') /\ links'[d].rung = "B"
           /\ MustHaveGaps(demands, links') \subseteq MustHaveGaps(demands, links)
<1>1. /\ resume' = resume \cup {f} /\ stage = "matching"
      /\ links' = [d \in demands |-> Linked(d, resume')]
  BY DEF Add
<1>2. \A d \in demands : links[d] = Linked(d, resume) /\ links'[d] = Linked(d, resume')
  BY <1>1 DEF Inv
<1>3. Extends(resume', resume) BY <1>1 DEF Extends, Inv
<1>4. \A d \in demands : NoGlance(d, resume', resume) BY <1>1 DEF NoGlance
<1>5. ASSUME NEW d \in demands
      PROVE  \/ Rank(d, links'[d].rung) >= Rank(d, links[d].rung)
             \/ Facts[f].place # "bullet" /\ Outranked(d, resume') /\ links'[d].rung = "B"
  <2>1. CASE Facts[f].place = "bullet"
    <3>1. MoreBullets(resume', resume) BY <1>1, <1>3, <2>1 DEF MoreBullets
    <3>2. Rank(d, Linked(d, resume').rung) >= Rank(d, Linked(d, resume).rung)
      BY <1>4, <3>1, BulletLowersNothing
    <3> QED BY <1>2, <3>2
  <2>2. CASE Facts[f].place # "bullet"
    <3>1. \/ Rank(d, Linked(d, resume').rung) >= Rank(d, Linked(d, resume).rung)
          \/ Outranked(d, resume') /\ Linked(d, resume').rung = "B"
      BY <1>3, <1>4, RankGrows
    <3> QED BY <1>2, <2>2, <3>1
  <2> QED BY <2>1, <2>2
<1>6. \A d \in demands : links'[d].rung = "missing" => links[d].rung = "missing"
  BY <1>2, <1>3, <1>4, GapsShrink
<1>7. MustHaveGaps(demands, links') \subseteq MustHaveGaps(demands, links) BY <1>6 DEF MustHaveGaps
<1> QED BY <1>2, <1>3, <1>4, <1>5, <1>7

\* One more bullet, as far as the scores go.
LEMMA AddKeepsScores ==
    ASSUME Inv, NEW f \in DOMAIN Facts, Add(f), \A d \in demands : ~OnlyLookedAt(d, f),
           Facts[f].place = "bullet", IsFiniteSet(demands)
    PROVE  /\ Coverage(demands, links) \in Nat /\ Coverage(demands, links') \in Nat
           /\ Coverage(demands, links') >= Coverage(demands, links)
           /\ InterviewChance(demands, links') >= InterviewChance(demands, links)
<1>1. \A d \in demands :
         /\ links[d] = Linked(d, resume) /\ links'[d] = Linked(d, resume')
         /\ Extends(resume', resume) /\ NoGlance(d, resume', resume)
  BY AddKeepsRanks
<1>2. demands # {} /\ \A g \in resume' \ resume : g = f BY DEF Add
<1>3. MoreBullets(resume', resume) BY <1>1, <1>2 DEF MoreBullets
<1>4. \A d \in demands :
         /\ links[d].rung \in RungNames /\ links'[d].rung \in RungNames
         /\ \/ links'[d].rung = links[d].rung
            \/ links'[d].rung = "A"
            \/ links'[d].rung = "adjacency" /\ links[d].rung \in {"missing", "C"}
  BY <1>1, <1>3, BulletLifts, LinkedRung
<1>5. \A d \in demands : Credit[Projected(links[d].rung)] <= Credit[Projected(links'[d].rung)]
  BY <1>4, Credits DEF RungNames
<1> DEFINE new == links'
<1>6. /\ Coverage(demands, links) \in Nat /\ Coverage(demands, new) \in Nat
      /\ Coverage(demands, links) <= Coverage(demands, new)
  BY <1>2, <1>4, <1>5, CoverageGrows
<1>7. InterviewChance(demands, new) >= InterviewChance(demands, links)
  BY <1>4, ChanceGrows
<1> QED BY <1>6, <1>7

\* What a step with one more fact may never do.
NoLoss(f) ==
    (\A d \in demands : ~OnlyLookedAt(d, f)) =>
        /\ \A d \in demands :
              \/ Rank(d, links'[d].rung) >= Rank(d, links[d].rung)
              \/ Facts[f].place # "bullet" /\ Outranked(d, resume') /\ links'[d].rung = "B"
        /\ MustHaveGaps(demands, links') \subseteq MustHaveGaps(demands, links)
        /\ Facts[f].place = "bullet" =>
              /\ Coverage(demands, links') >= Coverage(demands, links)
              /\ InterviewChance(demands, links') >= InterviewChance(demands, links)
              /\ Fit(resume, links) = "strong_fit" => Fit(resume', links') = "strong_fit"
              /\ Fit(resume, links) = "good_fit" => Fit(resume', links') \in {"good_fit", "strong_fit"}

\* Adding a fact is such a step.
LEMMA AddLosesNothing ==
    ASSUME Inv, IsFiniteSet(demands), NEW f \in DOMAIN Facts, Add(f)
    PROVE  NoLoss(f)
<1> SUFFICES ASSUME \A d \in demands : ~OnlyLookedAt(d, f) PROVE NoLoss(f) BY DEF NoLoss
<1>1. /\ \A d \in demands :
            \/ Rank(d, links'[d].rung) >= Rank(d, links[d].rung)
            \/ Facts[f].place # "bullet" /\ Outranked(d, resume') /\ links'[d].rung = "B"
      /\ MustHaveGaps(demands, links') \subseteq MustHaveGaps(demands, links)
  BY AddKeepsRanks
<1>2. ASSUME Facts[f].place = "bullet"
      PROVE  /\ Coverage(demands, links') >= Coverage(demands, links)
             /\ InterviewChance(demands, links') >= InterviewChance(demands, links)
             /\ Fit(resume, links) = "strong_fit" => Fit(resume', links') = "strong_fit"
             /\ Fit(resume, links) = "good_fit" => Fit(resume', links') \in {"good_fit", "strong_fit"}
  <2>1. /\ Coverage(demands, links) \in Nat /\ Coverage(demands, links') \in Nat
        /\ Coverage(demands, links') >= Coverage(demands, links)
        /\ InterviewChance(demands, links') >= InterviewChance(demands, links)
    BY <1>2, AddKeepsScores
  <2> DEFINE gaps == MustHaveGaps(demands, links)
             left == MustHaveGaps(demands, links')
  <2>2. gaps \in SUBSET demands /\ left \in SUBSET gaps BY <1>1 DEF MustHaveGaps
  <2> HIDE DEF gaps, left
  <2>3. /\ Cardinality(left) <= Cardinality(gaps)
        /\ Cardinality(gaps) \in Nat /\ Cardinality(left) \in Nat
    BY <2>2, FS_Subset, FS_CardinalityType
  <2> DEFINE a == Coverage(demands, links)
             b == Coverage(demands, links')
             fit == FitCategory(a, Cardinality(gaps))
             then == FitCategory(b, Cardinality(left))
  <2>4. Fit(resume, links) = fit /\ Fit(resume', links') = then BY DEF Fit, gaps, left, Add
  <2>5. a \in Nat /\ b \in Nat /\ a <= b BY <2>1
  <2> HIDE DEF a, b
  <2>6. /\ fit = "strong_fit" => then = "strong_fit"
        /\ fit = "good_fit" => then \in {"good_fit", "strong_fit"}
    BY <2>3, <2>5, FitGrows
  <2> HIDE DEF fit, then
  <2> QED BY <2>1, <2>4, <2>6
<1> QED BY <1>1, <1>2 DEF NoLoss

\* For every posting and resume, one more fact lowers no rung, unless a longer
\* skill takes a keyword that a bullet shows to the summary's rung, and opens no
\* gap; one more bullet lowers no rung and neither score, and loses no good or
\* strong fit
\* (resolve_requirements, requirement_coverage_score, fit_category,
\* interview_probability).
THEOREM MoreEvidenceStandsNoLower == Spec => MoreEvidenceNeverHurts
<1>1. ASSUME Inv, IsFiniteSet(demands), [Next]_vars
      PROVE  [\A f \in resume' \ resume : NoLoss(f)]_vars
  <2> SUFFICES ASSUME vars' # vars, NEW f \in resume' \ resume PROVE NoLoss(f) OBVIOUS
  <2>1. Next BY <1>1
  <2>2. Add(f)
    <3>1. \A n \in opening : ~Read(n) BY DEF Read
    <3>2. ~Parse BY DEF Parse
    <3>3. \A answer \in Answers : ~Ask(answer) BY DEF Ask
    <3>4. ~Match BY DEF Match
    <3>5. PICK g \in DOMAIN Facts : Add(g) BY <2>1, <3>1, <3>2, <3>3, <3>4 DEF Next
    <3>6. g = f BY <3>5 DEF Add
    <3> QED BY <3>5, <3>6
  <2>3. f \in DOMAIN Facts
    <3>1. Inv' BY <1>1, StepInv
    <3> QED BY <3>1 DEF Inv
  <2> QED BY <1>1, <2>2, <2>3, AddLosesNothing
<1>2. Spec => []Inv BY InitInv, StepInv, PTL DEF Spec
<1>3. Spec => [][\A f \in resume' \ resume : NoLoss(f)]_vars
  BY <1>1, <1>2, DemandsAreFinite, PTL DEF Spec
<1> QED BY <1>3 DEF MoreEvidenceNeverHurts, NoLoss
=============================================================================
