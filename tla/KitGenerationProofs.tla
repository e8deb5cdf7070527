------------------------- MODULE KitGenerationProofs --------------------------
(***************************************************************************)
(* Generation of kits, for any number of kits, any resumes, readings and   *)
(* provider behaviours: the parse of a provider stays on the floor of the  *)
(* deterministic one, what a provider wrote is accounted for, and nothing  *)
(* unsupported is delivered.                                               *)
(***************************************************************************)
EXTENDS KitGeneration, SequenceFolds

-----------------------------------------------------------------------------
(* The folds of ProfileFloor *)

\* One turn of AddBullets.
Added(known, b, context) == IF b \in context /\ b \notin Range(known) THEN Append(known, b) ELSE known

\* The bullets of an entry are added one by one (_merge_provider_entries).
LEMMA AddBulletsStepwise ==
    ASSUME NEW X, NEW bullets \in Seq(X), NEW proposed \in Seq(X), NEW context
    PROVE  \E trace :
              /\ trace[0] = bullets
              /\ \A k \in 1..Len(proposed) : trace[k] = Added(trace[k - 1], proposed[k], context)
              /\ AddBullets(bullets, proposed, context) = trace[Len(proposed)]
<1> DEFINE n == Len(proposed)
           S == Seq(X)
           F == [p \in S \X (1..n) |-> Added(p[1], proposed[p[2]], context)]
           Rec(it) == [s \in SUBSET (1..n) |->
                         IF s = {} THEN bullets
                         ELSE Added(it[s \ {Max(s)}], proposed[Max(s)], context)]
           it == CHOOSE i : i = Rec(i)
<1>1. n \in Nat /\ DOMAIN proposed = 1..n OBVIOUS
<1>2. \A a \in S, i \in 1..n : F[<<a, i>>] = Added(a, proposed[i], context) /\ F[<<a, i>>] \in S
  BY DEF Added
<1>3. AddBullets(bullets, proposed, context) = it[1..n]
  BY <1>1 DEF AddBullets, FoldLeft, MapThenFoldSet, Added
<1> HIDE DEF n, S, F
<1>4. PICK w : Solves(w, n, S, bullets, F) BY <1>1, <1>2, FoldExists DEF S
<1>5. w = Rec(w)
  <2>1. ASSUME NEW s \in SUBSET (1..n)
        PROVE  w[s] = IF s = {} THEN bullets ELSE Added(w[s \ {Max(s)}], proposed[Max(s)], context)
    <3>1. CASE s = {} BY <1>4, <3>1 DEF Solves
    <3>2. CASE s # {}
      <4>1. Max(s) \in 1..n /\ w[s \ {Max(s)}] \in S BY <1>1, <1>4, <3>2, SolvesTyped
      <4>2. w[s] = F[<<w[s \ {Max(s)}], Max(s)>>] BY <1>4, <3>2 DEF Solves
      <4> QED BY <1>2, <3>2, <4>1, <4>2
    <3> QED BY <3>1, <3>2
  <2>2. w = [s \in SUBSET (1..n) |-> w[s]] BY <1>4 DEF Solves
  <2> QED BY <2>1, <2>2
<1>6. it = Rec(it) BY <1>5
<1> HIDE DEF it
<1> DEFINE trace == [k \in 0..n |-> it[1..k]]
<1>7. trace[0] = bullets BY <1>1, <1>6, IntervalPrefixes
<1>8. ASSUME NEW k \in 1..n
      PROVE  trace[k] = Added(trace[k - 1], proposed[k], context)
  <2>1. 1..k \in SUBSET (1..n) /\ 1..k # {} /\ Max(1..k) = k /\ (1..k) \ {k} = 1..(k - 1)
    BY <1>1, IntervalPrefixes
  <2>2. it[1..k] = Added(it[(1..k) \ {Max(1..k)}], proposed[Max(1..k)], context)
    BY <1>6, <2>1
  <2>3. k \in 0..n /\ k - 1 \in 0..n BY <1>1
  <2> QED BY <2>1, <2>2, <2>3
<1>9. n \in 0..n BY <1>1
<1> QED BY <1>3, <1>7, <1>8, <1>9 DEF n

\* The entries of a provider are merged one by one (_merge_provider_data).
LEMMA MergeStepwise ==
    ASSUME NEW resume, NEW reading, NEW S, NEW contexts,
           contexts = Contexts(resume.lines, resume.baseline),
           resume.baseline \in S, reading.records \in Seq(Records),
           \A records \in S, entry \in Records : MergeEntry(resume, records, entry, contexts) \in S
    PROVE  Merge(resume, reading) \in S
<1> DEFINE entries == reading.records
           n == Len(entries)
           F == [p \in S \X (1..n) |-> MergeEntry(resume, p[1], entries[p[2]], contexts)]
           Rec(it) == [s \in SUBSET (1..n) |->
                         IF s = {} THEN resume.baseline
                         ELSE MergeEntry(resume, it[s \ {Max(s)}], entries[Max(s)], contexts)]
           it == CHOOSE i : i = Rec(i)
<1>1. n \in Nat /\ DOMAIN entries = 1..n /\ \A i \in 1..n : entries[i] \in Records OBVIOUS
<1>2. \A a \in S, i \in 1..n :
         /\ F[<<a, i>>] = MergeEntry(resume, a, entries[i], contexts)
         /\ MergeEntry(resume, a, entries[i], contexts) \in S
  BY <1>1
<1>3. Merge(resume, reading) = it[1..n]
  BY <1>1 DEF Merge, FoldLeft, MapThenFoldSet
<1> HIDE DEF n, F, entries
<1>4. PICK w : Solves(w, n, S, resume.baseline, F) BY <1>1, <1>2, FoldExists
<1>5. w = Rec(w)
  <2>1. ASSUME NEW s \in SUBSET (1..n)
        PROVE  w[s] = IF s = {} THEN resume.baseline
                      ELSE MergeEntry(resume, w[s \ {Max(s)}], entries[Max(s)], contexts)
    <3>1. CASE s = {} BY <1>4, <3>1 DEF Solves
    <3>2. CASE s # {}
      <4>1. Max(s) \in 1..n /\ w[s \ {Max(s)}] \in S BY <1>1, <1>4, <3>2, SolvesTyped
      <4>2. w[s] = F[<<w[s \ {Max(s)}], Max(s)>>] BY <1>4, <3>2 DEF Solves
      <4> QED BY <1>2, <3>2, <4>1, <4>2
    <3> QED BY <3>1, <3>2
  <2>2. w = [s \in SUBSET (1..n) |-> w[s]] BY <1>4 DEF Solves
  <2> QED BY <2>1, <2>2
<1>6. it = Rec(it) BY <1>5
<1> HIDE DEF it
<1> DEFINE P == {k \in 0..n : it[1..k] \in S}
<1>7. 0 \in P BY <1>1, <1>6, IntervalPrefixes
<1>8. ASSUME NEW k \in 1..n, k - 1 \in P PROVE k \in P
  <2>1. 1..k \in SUBSET (1..n) /\ 1..k # {} /\ Max(1..k) = k /\ (1..k) \ {k} = 1..(k - 1)
    BY <1>1, IntervalPrefixes
  <2>2. it[1..k] = MergeEntry(resume, it[1..(k - 1)], entries[k], contexts)
    BY <1>6, <2>1
  <2>3. it[1..k] \in S BY <1>2, <1>8, <2>2
  <2> QED BY <1>1, <2>3
<1> HIDE DEF P
<1>9. 0..n \subseteq P BY <1>1, <1>7, <1>8, BoundedInduction
<1>10. n \in 0..n BY <1>1
<1> QED BY <1>3, <1>9, <1>10 DEF P

\* AddBullets only adds, behind what is there.
LEMMA AddBulletsExtends ==
    ASSUME NEW X, NEW bullets \in Seq(X), NEW proposed \in Seq(X), NEW context
    PROVE  /\ AddBullets(bullets, proposed, context) \in Seq(X)
           /\ IsPrefix(bullets, AddBullets(bullets, proposed, context))
<1> DEFINE n == Len(proposed)
<1>1. PICK trace :
        /\ trace[0] = bullets
        /\ \A k \in 1..n : trace[k] = Added(trace[k - 1], proposed[k], context)
        /\ AddBullets(bullets, proposed, context) = trace[n]
  BY AddBulletsStepwise
<1>2. n \in Nat /\ \A k \in 1..n : proposed[k] \in X OBVIOUS
<1> HIDE DEF n
<1> DEFINE P == {k \in 0..n : trace[k] \in Seq(X) /\ IsPrefix(bullets, trace[k])}
<1>3. 0 \in P
  <2>1. IsPrefix(bullets, bullets) BY PrefixPointwise
  <2> QED BY <1>1, <1>2, <2>1
<1>4. ASSUME NEW k \in 1..n, k - 1 \in P PROVE k \in P
  <2>1. trace[k - 1] \in Seq(X) /\ IsPrefix(bullets, trace[k - 1]) BY <1>4
  <2>2. trace[k] = trace[k - 1] \/ trace[k] = Append(trace[k - 1], proposed[k])
    BY <1>1 DEF Added
  <2>3. CASE trace[k] = trace[k - 1] BY <1>2, <2>1, <2>3
  <2>4. CASE trace[k] = Append(trace[k - 1], proposed[k])
    <3>1. trace[k] \in Seq(X) BY <1>2, <2>1, <2>4
    <3>2. IsPrefix(trace[k - 1], trace[k]) BY <1>2, <2>1, <2>4, PrefixOfAppend
    <3>3. IsPrefix(bullets, trace[k]) BY <2>1, <3>1, <3>2, PrefixTransitive
    <3> QED BY <1>2, <3>1, <3>3
  <2> QED BY <2>2, <2>3, <2>4
<1> HIDE DEF P
<1>5. 0..n \subseteq P BY <1>2, <1>3, <1>4, BoundedInduction
<1>6. n \in P BY <1>2, <1>5
<1> QED BY <1>1, <1>6 DEF P

\* A provider's entry changes no identity and drops nothing.
LEMMA MergeEntryStaysOnFloor ==
    ASSUME NEW resume, NEW floor \in Seq(Records), NEW records \in Seq(Records),
           NEW entry \in Records, NEW contexts, OnFloor(records, floor)
    PROVE  /\ MergeEntry(resume, records, entry, contexts) \in Seq(Records)
           /\ OnFloor(MergeEntry(resume, records, entry, contexts), floor)
<1> DEFINE i == Match(resume, entry, records, contexts)
           new == Fill(resume, records[i], entry, contexts[i])
<1>1. CASE i = 0 BY <1>1 DEF MergeEntry
<1>2. CASE i # 0
  <2>1. i \in DOMAIN records
    <3> DEFINE score == [j \in DOMAIN records |-> Score(resume, entry, records[j], contexts[j])]
               best == {j \in DOMAIN records :
                          score[j] > 0 /\ \A k \in DOMAIN records : score[j] >= score[k]}
    <3>1. i = IF best = {} THEN 0 ELSE Min(best) BY DEF Match
    <3>2. best \in SUBSET Nat OBVIOUS
    <3> QED BY <1>2, <3>1, <3>2, MinIsLeast
  <2>2. DOMAIN floor = DOMAIN records /\ DOMAIN records = 1..Len(records) /\ Len(records) \in Nat
    BY DEF OnFloor
  <2>3. records[i] \in Records /\ floor[i] \in Records BY <2>1, <2>2
  <2> HIDE DEF i
  <2>4. /\ AddBullets(records[i].bullets, entry.bullets, contexts[i]) \in Seq(STRING)
        /\ IsPrefix(records[i].bullets, AddBullets(records[i].bullets, entry.bullets, contexts[i]))
    BY <2>3, AddBulletsExtends DEF Records
  <2>5. /\ new \in Records
        /\ \A f \in IdentityFields : new[f] = records[i][f]
        /\ IsPrefix(records[i].bullets, new.bullets)
        /\ records[i].location # Blank => new.location = records[i].location
    BY <2>3, <2>4 DEF Fill, Place, Records, IdentityFields, Blank
  <2> HIDE DEF new
  <2>6. /\ \A f \in IdentityFields : new[f] = floor[i][f]
        /\ floor[i].location # Blank => new.location = floor[i].location
        /\ IsPrefix(floor[i].bullets, new.bullets)
    <3>1. floor[i].bullets \in Seq(STRING) /\ records[i].bullets \in Seq(STRING) /\ new.bullets \in Seq(STRING)
      BY <2>3, <2>5 DEF Records
    <3>2. IsPrefix(floor[i].bullets, records[i].bullets) BY <2>1, <2>2 DEF OnFloor
    <3>3. IsPrefix(floor[i].bullets, new.bullets) BY <2>5, <3>1, <3>2, PrefixTransitive
    <3> QED BY <2>1, <2>2, <2>5, <3>3 DEF OnFloor
  <2>7. MergeEntry(resume, records, entry, contexts) = [records EXCEPT ![i] = new]
    BY <1>2 DEF MergeEntry, i, new
  <2>8. /\ [records EXCEPT ![i] = new] \in Seq(Records)
        /\ OnFloor([records EXCEPT ![i] = new], floor)
    BY <2>1, <2>2, <2>5, <2>6 DEF OnFloor
  <2> QED BY <2>7, <2>8
<1> QED BY <1>1, <1>2

\* Append, position by position.
LEMMA Grown ==
    ASSUME NEW X, NEW s \in Seq(X), NEW x \in X
    PROVE  /\ Append(s, x) \in Seq(X) /\ DOMAIN Append(s, x) = 1..(Len(s) + 1)
           /\ \A i \in 1..Len(s) : Append(s, x)[i] = s[i]
           /\ Append(s, x)[Len(s) + 1] = x
OBVIOUS

\* A sequence is a prefix of itself.
LEMMA PrefixOfItself ==
    ASSUME NEW X, NEW s \in Seq(X)
    PROVE  IsPrefix(s, s)
<1>1. Len(s) \in Nat OBVIOUS
<1> QED BY <1>1, PrefixPointwise

\* What Only keeps of a longer sequence begins with what it keeps of its prefix.
LEMMA OnlyKeepsPrefixes ==
    ASSUME NEW X, NEW s \in Seq(X), NEW t \in Seq(X), NEW set, IsPrefix(s, t)
    PROVE  /\ Only(s, set) \in Seq(X) /\ Only(t, set) \in Seq(X)
           /\ IsPrefix(Only(s, set), Only(t, set))
<1> DEFINE n == Len(t)
           m == Len(s)
<1>1. PICK a :
        /\ a[0] = <<>>
        /\ \A k \in 1..m : a[k] = Sieved(a[k - 1], s[k], set)
        /\ Only(s, set) = a[m]
  BY OnlyStepwise
<1>2. PICK b :
        /\ b[0] = <<>>
        /\ \A k \in 1..n : b[k] = Sieved(b[k - 1], t[k], set)
        /\ Only(t, set) = b[n]
  BY OnlyStepwise
<1>3. /\ n \in Nat /\ m \in Nat /\ m <= n
      /\ \A k \in 1..m : s[k] = t[k]
      /\ \A k \in 1..n : t[k] \in X
  BY PrefixPointwise
<1> HIDE DEF n, m
<1> DEFINE Good(k) == /\ b[k] \in Seq(X)
                      /\ k <= m => a[k] = b[k]
                      /\ k >= m => a[m] \in Seq(X) /\ IsPrefix(a[m], b[k])
           P == {k \in 0..n : Good(k)}
<1>4. 0 \in P
  <2> DEFINE e == <<>>
  <2>1. e \in Seq(X) /\ Len(e) = 0 OBVIOUS
  <2> HIDE DEF e
  <2>2. IsPrefix(e, e) BY <2>1, PrefixOfItself
  <2>3. 0 >= m => m = 0 BY <1>3
  <2>4. a[0] = e /\ b[0] = e BY <1>1, <1>2 DEF e
  <2>5. CASE m = 0
    <3>1. Good(0) BY <2>1, <2>2, <2>4, <2>5
    <3> QED BY <1>3, <3>1
  <2>6. CASE m # 0
    <3>1. Good(0) BY <2>1, <2>3, <2>4, <2>6
    <3> HIDE DEF Good
    <3> QED BY <1>3, <3>1
  <2> QED BY <2>5, <2>6
<1>5. ASSUME NEW k \in 1..n, k - 1 \in P PROVE k \in P
  <2>1. b[k] = b[k - 1] \/ b[k] = Append(b[k - 1], t[k]) BY <1>2 DEF Sieved
  <2>2. b[k - 1] \in Seq(X) /\ t[k] \in X BY <1>3, <1>5
  <2>3. b[k] \in Seq(X) /\ IsPrefix(b[k - 1], b[k]) /\ IsPrefix(b[k], b[k])
    <3>1. b[k] \in Seq(X)
      <4>1. Append(b[k - 1], t[k]) \in Seq(X) BY <2>2, Grown
      <4> QED BY <2>1, <2>2, <4>1
    <3>2. IsPrefix(b[k], b[k]) BY <3>1, PrefixOfItself
    <3>3. IsPrefix(b[k - 1], b[k])
      <4>1. IsPrefix(b[k - 1], b[k - 1]) /\ IsPrefix(b[k - 1], Append(b[k - 1], t[k]))
        BY <2>2, PrefixOfAppend
      <4> QED BY <2>1, <4>1
    <3> QED BY <3>1, <3>2, <3>3
  <2>4. CASE k <= m
    <3>1. k \in 1..m /\ k - 1 <= m BY <1>3, <2>4
    <3>2. a[k - 1] = b[k - 1] BY <1>5, <3>1
    <3>3. a[k] = b[k] BY <1>1, <1>2, <1>3, <3>1, <3>2
    <3>4. k >= m => k = m BY <1>3, <2>4
    <3> QED BY <1>3, <2>3, <3>3, <3>4
  <2>5. CASE ~(k <= m)
    <3>1. k - 1 >= m BY <1>3, <2>5
    <3>2. a[m] \in Seq(X) /\ IsPrefix(a[m], b[k - 1]) BY <1>5, <3>1
    <3>3. IsPrefix(a[m], b[k]) BY <2>2, <2>3, <3>2, PrefixTransitive
    <3> QED BY <1>3, <2>3, <2>5, <3>2, <3>3
  <2> QED BY <2>4, <2>5
<1> HIDE DEF P
<1>6. 0..n \subseteq P BY <1>3, <1>4, <1>5, BoundedInduction
<1>7. n \in P BY <1>3, <1>6
<1> QED BY <1>1, <1>2, <1>3, <1>7 DEF P

\* Records that differ in more than their identity are named in both parses or
\* in neither, so the filter of _clean_experiences keeps positions aligned.
LEMMA FilterStaysOnFloor ==
    ASSUME NEW floor \in Seq(Records), NEW records \in Seq(Records), OnFloor(records, floor),
           NEW A, A = {r \in Range(floor) : {r.company, r.title} \ {Blank} # {}},
           NEW B, B = {r \in Range(records) : {r.company, r.title} \ {Blank} # {}}
    PROVE  /\ Only(floor, A) \in Seq(Records) /\ Only(records, B) \in Seq(Records)
           /\ OnFloor(Only(records, B), Only(floor, A))
<1> DEFINE n == Len(floor)
<1>1. PICK a :
        /\ a[0] = <<>>
        /\ \A k \in 1..n : a[k] = Sieved(a[k - 1], floor[k], A)
        /\ Only(floor, A) = a[n]
  BY OnlyStepwise
<1>2. n \in Nat /\ Len(records) = n /\ DOMAIN floor = 1..n /\ DOMAIN records = 1..n
  BY DEF OnFloor
<1>3. PICK b :
        /\ b[0] = <<>>
        /\ \A k \in 1..n : b[k] = Sieved(b[k - 1], records[k], B)
        /\ Only(records, B) = b[n]
  <2>1. PICK b :
          /\ b[0] = <<>>
          /\ \A k \in 1..Len(records) : b[k] = Sieved(b[k - 1], records[k], B)
          /\ Only(records, B) = b[Len(records)]
    BY OnlyStepwise
  <2> QED BY <1>2, <2>1
<1>4. ASSUME NEW k \in 1..n
      PROVE  /\ floor[k] \in Records /\ records[k] \in Records
             /\ \A f \in IdentityFields : records[k][f] = floor[k][f]
             /\ IsPrefix(floor[k].bullets, records[k].bullets)
             /\ floor[k].location # Blank => records[k].location = floor[k].location
             /\ floor[k] \in A <=> records[k] \in B
  <2>1. /\ floor[k] \in Records /\ records[k] \in Records
        /\ floor[k] \in Range(floor) /\ records[k] \in Range(records)
        /\ \A f \in IdentityFields : records[k][f] = floor[k][f]
        /\ IsPrefix(floor[k].bullets, records[k].bullets)
        /\ floor[k].location # Blank => records[k].location = floor[k].location
    BY <1>2 DEF OnFloor, Range
  <2>2. records[k].company = floor[k].company /\ records[k].title = floor[k].title
    BY <2>1 DEF IdentityFields
  <2> QED BY <2>1, <2>2
<1> HIDE DEF n
<1> DEFINE P == {k \in 0..n : a[k] \in Seq(Records) /\ b[k] \in Seq(Records) /\ OnFloor(b[k], a[k])}
<1>5. 0 \in P
  <2> DEFINE e == <<>>
  <2>1. e \in Seq(Records) /\ DOMAIN e = {} OBVIOUS
  <2> HIDE DEF e
  <2>2. OnFloor(e, e) BY <2>1 DEF OnFloor
  <2>3. a[0] = e /\ b[0] = e BY <1>1, <1>3 DEF e
  <2>4. 0 \in 0..n BY <1>2
  <2> QED BY <2>1, <2>2, <2>3, <2>4
<1>6. ASSUME NEW k \in 1..n, k - 1 \in P PROVE k \in P
  <2>1. a[k - 1] \in Seq(Records) /\ b[k - 1] \in Seq(Records) /\ OnFloor(b[k - 1], a[k - 1])
    BY <1>6
  <2>2. CASE floor[k] \in A
    <3>1. a[k] = Append(a[k - 1], floor[k]) /\ b[k] = Append(b[k - 1], records[k])
      BY <1>1, <1>3, <1>4, <2>2 DEF Sieved
    <3> DEFINE x == floor[k]
               y == records[k]
               l == Len(a[k - 1])
    <3>2. /\ x \in Records /\ y \in Records
          /\ \A f \in IdentityFields : y[f] = x[f]
          /\ IsPrefix(x.bullets, y.bullets)
          /\ x.location # Blank => y.location = x.location
      BY <1>4
    <3>3. l \in Nat /\ Len(b[k - 1]) = l /\ DOMAIN a[k - 1] = 1..l /\ DOMAIN b[k - 1] = 1..l
      BY <2>1 DEF OnFloor
    <3> HIDE DEF x, y, l
    <3>4. /\ a[k] \in Seq(Records) /\ DOMAIN a[k] = 1..(l + 1)
          /\ \A i \in 1..l : a[k][i] = a[k - 1][i]
          /\ a[k][l + 1] = x
      BY <2>1, <3>1, <3>2, <3>3, Grown DEF x, l
    <3>5. /\ b[k] \in Seq(Records) /\ DOMAIN b[k] = 1..(l + 1)
          /\ \A i \in 1..l : b[k][i] = b[k - 1][i]
          /\ b[k][l + 1] = y
      <4>1. /\ Append(b[k - 1], y) \in Seq(Records) /\ DOMAIN Append(b[k - 1], y) = 1..(Len(b[k - 1]) + 1)
            /\ \A i \in 1..Len(b[k - 1]) : Append(b[k - 1], y)[i] = b[k - 1][i]
            /\ Append(b[k - 1], y)[Len(b[k - 1]) + 1] = y
        BY <2>1, <3>2, Grown
      <4>2. b[k] = Append(b[k - 1], y) BY <3>1 DEF y
      <4> QED BY <3>3, <4>1, <4>2
    <3>6. ASSUME NEW i \in 1..(l + 1)
          PROVE  /\ \A f \in IdentityFields : b[k][i][f] = a[k][i][f]
                 /\ IsPrefix(a[k][i].bullets, b[k][i].bullets)
                 /\ a[k][i].location # Blank => b[k][i].location = a[k][i].location
      <4>1. CASE i \in 1..l
        <5>1. a[k][i] = a[k - 1][i] /\ b[k][i] = b[k - 1][i] /\ i \in DOMAIN b[k - 1]
          BY <3>3, <3>4, <3>5, <4>1
        <5>2. /\ \A f \in IdentityFields : b[k - 1][i][f] = a[k - 1][i][f]
              /\ IsPrefix(a[k - 1][i].bullets, b[k - 1][i].bullets)
              /\ a[k - 1][i].location # Blank => b[k - 1][i].location = a[k - 1][i].location
          BY <2>1, <3>3, <5>1 DEF OnFloor
        <5> QED BY <5>1, <5>2
      <4>2. CASE i = l + 1 BY <3>2, <3>4, <3>5, <4>2
      <4> QED BY <3>3, <4>1, <4>2
    <3>7. OnFloor(b[k], a[k]) BY <3>4, <3>5, <3>6 DEF OnFloor
    <3> QED BY <1>2, <3>4, <3>5, <3>7
  <2>3. CASE floor[k] \notin A
    <3>1. a[k] = a[k - 1] /\ b[k] = b[k - 1] BY <1>1, <1>3, <1>4, <2>3 DEF Sieved
    <3> QED BY <1>2, <2>1, <3>1
  <2> QED BY <2>2, <2>3
<1> HIDE DEF P
<1>7. 0..n \subseteq P BY <1>2, <1>5, <1>6, BoundedInduction
<1>8. n \in P BY <1>2, <1>7
<1> QED BY <1>1, <1>3, <1>8 DEF P

\* _clean_experiences of a parse that is on the floor is on the cleaned floor.
LEMMA CleanedStaysOnFloor ==
    ASSUME NEW resume, NEW floor \in Seq(Records), NEW records \in Seq(Records), OnFloor(records, floor)
    PROVE  OnFloor(Cleaned(resume, records), Cleaned(resume, floor))
<1> DEFINE text == UNION Range(resume.lines)
           a == Only(floor, {r \in Range(floor) : {r.company, r.title} \ {Blank} # {}})
           b == Only(records, {r \in Range(records) : {r.company, r.title} \ {Blank} # {}})
           Clean(r) == [r EXCEPT !.company = IF @ = Blank THEN r.title ELSE @,
                                 !.bullets = Only(@, text)]
<1>1. a \in Seq(Records) /\ b \in Seq(Records) /\ OnFloor(b, a) BY FilterStaysOnFloor
<1>2. /\ Cleaned(resume, floor) = [i \in DOMAIN a |-> Clean(a[i])]
      /\ Cleaned(resume, records) = [i \in DOMAIN b |-> Clean(b[i])]
  BY DEF Cleaned
<1> HIDE DEF a, b, text
<1>3. DOMAIN a = DOMAIN b BY <1>1 DEF OnFloor
<1>4. ASSUME NEW i \in DOMAIN a
      PROVE  /\ \A f \in IdentityFields : Clean(b[i])[f] = Clean(a[i])[f]
             /\ IsPrefix(Clean(a[i]).bullets, Clean(b[i]).bullets)
             /\ Clean(a[i]).location # Blank => Clean(b[i]).location = Clean(a[i]).location
  <2>1. a[i] \in Records /\ b[i] \in Records BY <1>1, <1>3
  <2>2. /\ \A f \in IdentityFields : b[i][f] = a[i][f]
        /\ IsPrefix(a[i].bullets, b[i].bullets)
        /\ a[i].location # Blank => b[i].location = a[i].location
    BY <1>1 DEF OnFloor
  <2>3. a[i].bullets \in Seq(STRING) /\ b[i].bullets \in Seq(STRING) BY <2>1 DEF Records
  <2>4. IsPrefix(Only(a[i].bullets, text), Only(b[i].bullets, text)) BY <2>2, <2>3, OnlyKeepsPrefixes
  <2>5. \A r \in Records :
          /\ Clean(r).company = IF r.company = Blank THEN r.title ELSE r.company
          /\ Clean(r).title = r.title /\ Clean(r).dates = r.dates
          /\ Clean(r).location = r.location /\ Clean(r).bullets = Only(r.bullets, text)
    BY DEF Records
  <2>6. b[i].company = a[i].company /\ b[i].title = a[i].title /\ b[i].dates = a[i].dates
    BY <2>2 DEF IdentityFields
  <2> HIDE DEF Clean
  <2>7. /\ Clean(b[i]).company = Clean(a[i]).company /\ Clean(b[i]).title = Clean(a[i]).title
        /\ Clean(b[i]).dates = Clean(a[i]).dates
    BY <2>1, <2>5, <2>6
  <2>8. \A f \in IdentityFields : Clean(b[i])[f] = Clean(a[i])[f] BY <2>7 DEF IdentityFields
  <2> QED BY <2>1, <2>2, <2>4, <2>5, <2>8
<1> HIDE DEF Clean
<1> QED BY <1>2, <1>3, <1>4 DEF OnFloor

\* A parse is on its own floor.
LEMMA OnOwnFloor ==
    ASSUME NEW records \in Seq(Records)
    PROVE  OnFloor(records, records)
<1>1. ASSUME NEW i \in DOMAIN records PROVE IsPrefix(records[i].bullets, records[i].bullets)
  <2>0. records[i] \in Records OBVIOUS
  <2>1. records[i].bullets \in Seq(STRING) BY <2>0 DEF Records
  <2> QED BY <2>1, PrefixPointwise
<1> QED BY <1>1 DEF OnFloor

\* extract_profile: with an answer of a provider and without one.
LEMMA ProfilesOnFloor ==
    ASSUME NEW resume, resume.baseline \in Seq(Records), NEW reading, reading.records \in Seq(Records)
    PROVE  /\ OnFloor(HeuristicProfile(resume), HeuristicProfile(resume))
           /\ OnFloor(ProviderProfile(resume, reading), HeuristicProfile(resume))
<1> DEFINE floor == resume.baseline
           S == {records \in Seq(Records) : OnFloor(records, floor)}
           contexts == Contexts(resume.lines, resume.baseline)
<1>1. floor \in S BY OnOwnFloor
<1>2. OnFloor(HeuristicProfile(resume), HeuristicProfile(resume))
  BY <1>1, CleanedStaysOnFloor DEF HeuristicProfile
<1>3. \A records \in S, entry \in Records : MergeEntry(resume, records, entry, contexts) \in S
  BY MergeEntryStaysOnFloor
<1>4. Merge(resume, reading) \in S
  <2> HIDE DEF S
  <2> QED BY <1>1, <1>3, MergeStepwise
<1>5. OnFloor(Cleaned(resume, Merge(resume, reading)), HeuristicProfile(resume))
  BY <1>4, CleanedStaysOnFloor DEF HeuristicProfile
<1> QED BY <1>2, <1>5 DEF ProviderProfile


-----------------------------------------------------------------------------
(* What a provider adds to a record *)

\* Where names stand in headings only, a record is found at its heading, and one
\* without a name is not found (_entry_source_contexts).
LEMMA StartsAtHeadings ==
    ASSUME NEW resume, ReadInOrder(resume), NamesInHeadings(resume), NEW i \in DOMAIN resume.baseline
    PROVE  /\ DOMAIN Starts(resume.lines, resume.baseline) = DOMAIN resume.baseline
           /\ Starts(resume.lines, resume.baseline)[i] =
                 IF Anchors(resume.baseline[i]) = {} THEN 0 ELSE resume.heading[i]
<1> DEFINE lines == resume.lines
           records == resume.baseline
           heading == resume.heading
           D == DOMAIN records
           From(f, k) == {m \in DOMAIN lines :
                            /\ \A j \in 1..(k - 1) : m > f[j]
                            /\ Anchors(records[k]) \cap lines[m] # {}}
           Rec(f) == [k \in D |-> IF From(f, k) = {} THEN 0 ELSE Min(From(f, k))]
           start == CHOOSE f : f = Rec(f)
           w == [k \in D |-> IF Anchors(records[k]) = {} THEN 0 ELSE heading[k]]
           N == Len(records)
<1>1. Starts(lines, records) = start BY DEF Starts
<1>2. D = 1..N /\ N \in Nat /\ DOMAIN lines = 1..Len(lines) /\ Len(lines) \in Nat BY DEF ReadInOrder
<1>3. ASSUME NEW k \in D
      PROVE  /\ heading[k] \in DOMAIN lines /\ heading[k] \in Nat /\ heading[k] > 0
             /\ \A j \in 1..(k - 1) : j \in D /\ heading[j] < heading[k]
             /\ Anchors(records[k]) \cap lines[heading[k]] = {} => k = 1 /\ Anchors(records[k]) = {}
  <2>1. heading[k] \in DOMAIN lines BY DEF ReadInOrder
  <2>2. heading[k] \in Nat /\ heading[k] > 0 BY <1>2, <2>1
  <2>3. /\ \A j \in 1..(k - 1) : heading[j] < heading[k]
        /\ Anchors(records[k]) \cap lines[heading[k]] = {} => k = 1 /\ Anchors(records[k]) = {}
    BY DEF ReadInOrder
  <2>4. \A j \in 1..(k - 1) : j \in D BY <1>2
  <2> QED BY <2>1, <2>2, <2>3, <2>4
<1>4. ASSUME NEW k \in D, NEW f, \A j \in 1..(k - 1) : f[j] = w[j]
      PROVE  (IF From(f, k) = {} THEN 0 ELSE Min(From(f, k))) = w[k]
  <2>1. CASE Anchors(records[k]) = {} BY <2>1
  <2>2. CASE Anchors(records[k]) # {}
    <3>1. heading[k] \in From(f, k)
      <4>1. \A j \in 1..(k - 1) : heading[k] > f[j]
        <5> TAKE j \in 1..(k - 1)
        <5>1. j \in D /\ heading[j] < heading[k] /\ heading[k] > 0 BY <1>3
        <5>2. f[j] = 0 \/ f[j] = heading[j] BY <1>4, <5>1
        <5> QED BY <1>3, <5>1, <5>2
      <4> QED BY <1>3, <2>2, <4>1
    <3>2. ASSUME NEW m \in From(f, k) PROVE m >= heading[k]
      <4> SUFFICES ASSUME m < heading[k] PROVE FALSE BY <1>2, <1>3
      <4>1. m \in DOMAIN lines /\ m \in Nat /\ Anchors(records[k]) \cap lines[m] # {} BY <1>2
      <4>2. k > 1 /\ Anchors(records[k - 1]) # {} /\ ~(m > heading[k - 1])
        BY <4>1 DEF NamesInHeadings
      <4>3. k - 1 \in 1..(k - 1) /\ k - 1 \in D
        <5>1. k \in 1..N /\ k > 1 BY <1>2, <4>2
        <5> HIDE DEF N
        <5>2. k - 1 \in 1..(k - 1) /\ k - 1 \in 1..N BY <1>2, <5>1
        <5> QED BY <1>2, <5>2
      <4>4. f[k - 1] = heading[k - 1] BY <1>4, <4>2, <4>3
      <4>5. m > f[k - 1] BY <4>3
      <4> QED BY <4>2, <4>4, <4>5
    <3>3. From(f, k) \in SUBSET Nat BY <1>2
    <3> HIDE DEF From
    <3>4. Min(From(f, k)) \in From(f, k) /\ \A m \in From(f, k) : Min(From(f, k)) <= m
      BY <3>1, <3>3, MinIsLeast
    <3>5. Min(From(f, k)) = heading[k] BY <1>3, <3>1, <3>2, <3>3, <3>4
    <3> QED BY <2>2, <3>1, <3>5
  <2> QED BY <2>1, <2>2
<1>5. w = Rec(w)
  <2>1. \A k \in D : (IF From(w, k) = {} THEN 0 ELSE Min(From(w, k))) = w[k] BY <1>4
  <2> HIDE DEF From
  <2>2. w = [k \in D |-> w[k]] OBVIOUS
  <2> HIDE DEF w
  <2> QED BY <2>1, <2>2
<1>6. start = Rec(start) BY <1>5
<1> HIDE DEF start, w, From
<1>7. \A k \in D : start[k] = IF From(start, k) = {} THEN 0 ELSE Min(From(start, k)) BY <1>6
<1> DEFINE P == {k \in 0..N : \A j \in 1..k : start[j] = w[j]}
<1>8. 0 \in P BY <1>2
<1>9. ASSUME NEW k \in 1..N, k - 1 \in P PROVE k \in P
  <2>1. k \in D /\ \A j \in 1..(k - 1) : start[j] = w[j] BY <1>2, <1>9
  <2>2. start[k] = w[k] BY <1>4, <1>7, <2>1
  <2>3. \A j \in 1..k : j \in 1..(k - 1) \/ j = k BY <1>2
  <2> QED BY <1>2, <2>1, <2>2, <2>3
<1> HIDE DEF P
<1>10. 0..N \subseteq P BY <1>2, <1>8, <1>9, BoundedInduction
<1>11. N \in P /\ i \in 1..N BY <1>2, <1>10
<1>12. start[i] = w[i] BY <1>11 DEF P
<1>13. DOMAIN start = D BY <1>6
<1> QED BY <1>1, <1>12, <1>13 DEF w

\* So the text of a record is made of its own lines.
LEMMA ContextsAreOwn ==
    ASSUME NEW resume, ReadInOrder(resume), NamesInHeadings(resume), NEW i \in DOMAIN resume.baseline
    PROVE  Contexts(resume.lines, resume.baseline)[i] \subseteq Own(resume, i)
<1> DEFINE starts == Starts(resume.lines, resume.baseline)
           D == DOMAIN resume.baseline
<1>1. \A j \in D : starts[j] = IF Anchors(resume.baseline[j]) = {} THEN 0 ELSE resume.heading[j]
  BY StartsAtHeadings
<1>2. \A j \in D : j > i => Anchors(resume.baseline[j]) # {} BY DEF ReadInOrder
<1>3. /\ DOMAIN resume.heading = D /\ \A j \in D : resume.heading[j] \in DOMAIN resume.lines
      /\ DOMAIN resume.lines \in SUBSET (Nat \ {0})
  BY DEF ReadInOrder
<1>4. DOMAIN starts = D BY StartsAtHeadings
<1> HIDE DEF starts, D
<1>5. ASSUME NEW n \in ContextLines(resume.lines, starts, i)
      PROVE  /\ n \in DOMAIN resume.lines /\ n >= resume.heading[i]
             /\ \A j \in DOMAIN resume.heading : j > i => n < resume.heading[j]
  <2>1. /\ n \in DOMAIN resume.lines /\ starts[i] # 0 /\ n >= starts[i]
        /\ \A j \in DOMAIN starts : j > i /\ starts[j] # 0 => n < starts[j]
    BY DEF ContextLines
  <2>2. starts[i] = resume.heading[i] BY <1>1, <2>1 DEF D
  <2>3. ASSUME NEW j \in D, j > i PROVE n < resume.heading[j]
    <3>1. starts[j] = resume.heading[j] /\ starts[j] # 0 BY <1>1, <1>2, <1>3, <2>3
    <3> QED BY <1>4, <2>1, <2>3, <3>1
  <2> QED BY <1>3, <2>1, <2>2, <2>3
<1>6. Contexts(resume.lines, resume.baseline)[i] = UNION {resume.lines[n] : n \in ContextLines(resume.lines, starts, i)}
  BY DEF Contexts, starts
<1> QED BY <1>5, <1>6 DEF Own

\* AddBullets adds what stands in the context.
LEMMA AddBulletsFromContext ==
    ASSUME NEW X, NEW bullets \in Seq(X), NEW proposed \in Seq(X), NEW context
    PROVE  Range(AddBullets(bullets, proposed, context)) \subseteq Range(bullets) \cup context
<1> DEFINE n == Len(proposed)
<1>1. PICK trace :
        /\ trace[0] = bullets
        /\ \A k \in 1..n : trace[k] = Added(trace[k - 1], proposed[k], context)
        /\ AddBullets(bullets, proposed, context) = trace[n]
  BY AddBulletsStepwise
<1>2. n \in Nat /\ \A k \in 1..n : proposed[k] \in X OBVIOUS
<1>3. \A s : Range(s) = ToSet(s) BY DEF Range, ToSet
<1> HIDE DEF n
<1> DEFINE P == {k \in 0..n : trace[k] \in Seq(X) /\ ToSet(trace[k]) \subseteq ToSet(bullets) \cup context}
<1>4. 0 \in P BY <1>1, <1>2
<1>5. ASSUME NEW k \in 1..n, k - 1 \in P PROVE k \in P
  <2>1. trace[k - 1] \in Seq(X) /\ ToSet(trace[k - 1]) \subseteq ToSet(bullets) \cup context BY <1>5
  <2>2. CASE trace[k] = trace[k - 1] BY <1>2, <2>1, <2>2
  <2>3. CASE trace[k] = Append(trace[k - 1], proposed[k]) /\ proposed[k] \in context
    <3>1. ToSet(trace[k]) = ToSet(trace[k - 1]) \cup {proposed[k]} BY <1>2, <2>1, <2>3, ElementsOfAppend
    <3>2. trace[k] \in Seq(X) BY <1>2, <2>1, <2>3, Grown
    <3>3. ToSet(trace[k]) \subseteq ToSet(bullets) \cup context BY <2>1, <2>3, <3>1
    <3>4. k \in 0..n BY <1>2
    <3> QED BY <3>2, <3>3, <3>4
  <2> QED BY <1>1, <2>2, <2>3 DEF Added
<1> HIDE DEF P
<1>6. 0..n \subseteq P BY <1>2, <1>4, <1>5, BoundedInduction
<1>7. n \in P BY <1>2, <1>6
<1> QED BY <1>1, <1>3, <1>7 DEF P

\* Records, before they are cleaned, that gained only what stands in their lines.
InPlace(resume, records) ==
    /\ DOMAIN records = DOMAIN resume.baseline
    /\ \A i \in DOMAIN records :
        /\ \A f \in IdentityFields : records[i][f] = resume.baseline[i][f]
        /\ records[i].location \in {resume.baseline[i].location} \cup Own(resume, i)
        /\ Range(records[i].bullets) \subseteq Range(resume.baseline[i].bullets) \cup Own(resume, i)

\* A provider's entry adds nothing from the text of another record.
LEMMA MergeEntryInPlace ==
    ASSUME NEW resume, ReadInOrder(resume), NamesInHeadings(resume),
           NEW records \in Seq(Records), InPlace(resume, records), NEW entry \in Records,
           NEW contexts, contexts = Contexts(resume.lines, resume.baseline)
    PROVE  /\ MergeEntry(resume, records, entry, contexts) \in Seq(Records)
           /\ InPlace(resume, MergeEntry(resume, records, entry, contexts))
<1> DEFINE i == Match(resume, entry, records, contexts)
           new == Fill(resume, records[i], entry, contexts[i])
<1>1. CASE i = 0 BY <1>1 DEF MergeEntry
<1>2. CASE i # 0
  <2>1. i \in DOMAIN records
    <3> DEFINE score == [j \in DOMAIN records |-> Score(resume, entry, records[j], contexts[j])]
               best == {j \in DOMAIN records :
                          score[j] > 0 /\ \A k \in DOMAIN records : score[j] >= score[k]}
    <3>1. i = IF best = {} THEN 0 ELSE Min(best) BY DEF Match
    <3>2. best \in SUBSET Nat OBVIOUS
    <3> QED BY <1>2, <3>1, <3>2, MinIsLeast
  <2>2. MergeEntry(resume, records, entry, contexts) = [records EXCEPT ![i] = new]
    BY <1>2 DEF MergeEntry
  <2> HIDE DEF i
  <2>3. records[i] \in Records /\ DOMAIN records = DOMAIN resume.baseline /\ i \in DOMAIN resume.baseline
    BY <2>1 DEF InPlace
  <2>4. contexts[i] \subseteq Own(resume, i) BY <2>3, ContextsAreOwn
  <2>5. /\ AddBullets(records[i].bullets, entry.bullets, contexts[i]) \in Seq(STRING)
        /\ Range(AddBullets(records[i].bullets, entry.bullets, contexts[i]))
              \subseteq Range(records[i].bullets) \cup contexts[i]
    BY <2>3, AddBulletsExtends, AddBulletsFromContext DEF Records
  <2>6. /\ new \in Records
        /\ \A f \in IdentityFields : new[f] = records[i][f]
        /\ new.location \in {records[i].location} \cup contexts[i]
        /\ new.bullets = AddBullets(records[i].bullets, entry.bullets, contexts[i])
    <3> DEFINE place == Place(resume, entry.location, contexts[i])
               bullets == AddBullets(records[i].bullets, entry.bullets, contexts[i])
               location == IF records[i].location = Blank THEN place ELSE records[i].location
    <3>0. entry.location \in STRING BY DEF Records
    <3>1. place = Blank \/ (place = entry.location /\ entry.location \in contexts[i]) BY DEF Place
    <3>2. new = [records[i] EXCEPT !.location = location, !.bullets = bullets] BY <2>3 DEF Fill, Records
    <3>3. records[i].location \in STRING BY <2>3 DEF Records
    <3> HIDE DEF place, bullets, new
    <3>4. location \in STRING /\ location \in {records[i].location} \cup contexts[i] BY <3>0, <3>1, <3>3
    <3> HIDE DEF location
    <3>5. /\ new \in Records /\ new.location = location /\ new.bullets = bullets
          /\ \A f \in IdentityFields : new[f] = records[i][f]
      BY <2>3, <2>5, <3>2, <3>4 DEF Records, IdentityFields, bullets
    <3> QED BY <3>4, <3>5 DEF bullets
  <2> HIDE DEF new
  <2>7. /\ \A f \in IdentityFields : new[f] = resume.baseline[i][f]
        /\ new.location \in {resume.baseline[i].location} \cup Own(resume, i)
        /\ Range(new.bullets) \subseteq Range(resume.baseline[i].bullets) \cup Own(resume, i)
    BY <2>1, <2>4, <2>5, <2>6 DEF InPlace
  <2>8. /\ [records EXCEPT ![i] = new] \in Seq(Records)
        /\ InPlace(resume, [records EXCEPT ![i] = new])
    <3> DEFINE next == [records EXCEPT ![i] = new]
    <3>1. DOMAIN next = DOMAIN resume.baseline /\ next \in Seq(Records) BY <2>1, <2>3, <2>6
    <3>2. ASSUME NEW j \in DOMAIN next
          PROVE  /\ \A f \in IdentityFields : next[j][f] = resume.baseline[j][f]
                 /\ next[j].location \in {resume.baseline[j].location} \cup Own(resume, j)
                 /\ Range(next[j].bullets) \subseteq Range(resume.baseline[j].bullets) \cup Own(resume, j)
      <4>1. CASE j = i
        <5>1. next[j] = new BY <2>1, <4>1
        <5> QED BY <2>7, <4>1, <5>1
      <4>2. CASE j # i
        <5>1. next[j] = records[j] /\ j \in DOMAIN records BY <4>2
        <5> HIDE DEF next
        <5> QED BY <5>1 DEF InPlace
      <4> QED BY <4>1, <4>2
    <3> HIDE DEF next
    <3>3. InPlace(resume, next) BY <3>1, <3>2 DEF InPlace
    <3> QED BY <3>1, <3>3 DEF next
  <2> QED BY <2>2, <2>8
<1> QED BY <1>1, <1>2

\* _clean_experiences adds nothing to the records it keeps.
LEMMA CleanedInPlace ==
    ASSUME NEW resume, NEW records \in Seq(Records), InPlace(resume, records),
           ReadInOrder(resume)
    PROVE  GainedInPlace(resume, Cleaned(resume, records))
<1> DEFINE text == UNION Range(resume.lines)
           named == Only(records, {r \in Range(records) : {r.company, r.title} \ {Blank} # {}})
           Clean(r) == [r EXCEPT !.company = IF @ = Blank THEN r.title ELSE @,
                                 !.bullets = Only(@, text)]
<1>1. named \in Seq(Records) /\ Range(named) \subseteq Range(records) BY OnlyFromSequence
<1>2. Cleaned(resume, records) = [n \in DOMAIN named |-> Clean(named[n])] BY DEF Cleaned
<1> HIDE DEF named, text
<1>3. ASSUME NEW n \in DOMAIN named
      PROVE  \E i \in DOMAIN resume.baseline : GainedFrom(resume, Clean(named[n]), i)
  <2>1. named[n] \in Range(records) BY <1>1 DEF Range
  <2>2. PICK i \in DOMAIN records : named[n] = records[i] BY <2>1 DEF Range
  <2> DEFINE r == records[i]
             source == resume.baseline[i]
  <2>3. r \in Records /\ i \in DOMAIN resume.baseline BY DEF InPlace
  <2>4. /\ r.company = source.company /\ r.title = source.title /\ r.dates = source.dates
        /\ r.location \in {source.location} \cup Own(resume, i)
        /\ Range(r.bullets) \subseteq Range(source.bullets) \cup Own(resume, i)
    BY DEF InPlace, IdentityFields
  <2> HIDE DEF r, source
  <2>5. /\ Clean(r).company = IF r.company = Blank THEN r.title ELSE r.company
        /\ Clean(r).title = r.title /\ Clean(r).dates = r.dates
        /\ Clean(r).location = r.location /\ Clean(r).bullets = Only(r.bullets, text)
    BY <2>3 DEF Records
  <2>6. Range(Only(r.bullets, text)) \subseteq Range(r.bullets)
    <3>1. r.bullets \in Seq(STRING) BY <2>3 DEF Records
    <3> QED BY <3>1, OnlyFromSequence
  <2> HIDE DEF Clean
  <2>7. GainedFrom(resume, Clean(r), i) BY <2>4, <2>5, <2>6 DEF GainedFrom, source
  <2> QED BY <2>2, <2>3, <2>7 DEF r
<1> HIDE DEF Clean
<1> QED BY <1>2, <1>3 DEF GainedInPlace

\* extract_profile, with an answer of a provider and without one.
LEMMA ProfilesInPlace ==
    ASSUME NEW resume, ReadInOrder(resume), NamesInHeadings(resume),
           NEW reading, reading.records \in Seq(Records)
    PROVE  /\ GainedInPlace(resume, HeuristicProfile(resume))
           /\ GainedInPlace(resume, ProviderProfile(resume, reading))
<1> DEFINE S == {records \in Seq(Records) : InPlace(resume, records)}
           contexts == Contexts(resume.lines, resume.baseline)
<1>1. resume.baseline \in S BY DEF ReadInOrder, InPlace
<1>2. \A records \in S, entry \in Records : MergeEntry(resume, records, entry, contexts) \in S
  BY MergeEntryInPlace
<1>3. Merge(resume, reading) \in S
  <2> HIDE DEF S
  <2> QED BY <1>1, <1>2, MergeStepwise
<1>4. GainedInPlace(resume, HeuristicProfile(resume)) BY <1>1, CleanedInPlace DEF HeuristicProfile
<1>5. GainedInPlace(resume, Cleaned(resume, Merge(resume, reading))) BY <1>3, CleanedInPlace
<1> QED BY <1>4, <1>5 DEF ProviderProfile

-----------------------------------------------------------------------------
(* The invariant *)

Texts == [from : Writers, by : Kits \cup {Nobody}, defects : SUBSET Defects]
TaskStates == [at : {"todo", "primary", "fallback", "done"}, attempt : Nat, text : Texts]
Ends == {"running", "delivered", "suspect", "late_suspect"}
Jobs ==
    [stage : Nat, end : Ends, calls : Nat, fallbackUsed : BOOLEAN,
     task : [scenario.tasks -> TaskStates],
     reports : [scenario.asked -> [report : Delivery!DocumentStates, text : SUBSET Defects]]]

Typed ==
    /\ setting \in DOMAIN Scenarios
    /\ job \in [scenario.kits -> Jobs]
    /\ \A key \in DOMAIN disk :
        /\ disk[key] \in Texts
        /\ key = ProfileKey \/ (key.task \in scenario.tasks /\ key.attempt \in Nat)

\* A task that is not settled has no text of a provider yet.
Pending ==
    \A k \in scenario.kits, t \in scenario.tasks :
        job[k].task[t].at # "done" => job[k].task[t].text = EngineText

\* The tasks of kit k a call of its own was spent on that is not void.
Spent(k) ==
    {t \in scenario.tasks :
        job[k].task[t].at \in {"primary", "fallback"} \/ job[k].task[t].text.by = k}

Counted == \A k \in scenario.kits : Cardinality(Spent(k)) <= job[k].calls

\* The kit that paid for a text says so.
Honest(text) ==
    IF text.from = "engine" THEN text.by = Nobody
    ELSE /\ text.by \in scenario.kits
         /\ job[text.by].calls > 0
         /\ text.from = "fallback" => job[text.by].fallbackUsed

Disclosed ==
    /\ \A k \in scenario.kits, t \in scenario.tasks :
        /\ Honest(job[k].task[t].text)
        /\ job[k].task[t].at = "fallback" => job[k].fallbackUsed
    /\ \A key \in DOMAIN disk : Honest(disk[key])

\* Only a cache shares texts.
Shared ==
    /\ DOMAIN disk # {} => scenario.cached
    /\ \A k \in scenario.kits, t \in scenario.tasks :
        job[k].task[t].text.by \notin {k, Nobody} => scenario.cached

\* A kit is past the prompts of the texts it wrote into the cache, so it never
\* takes one of its own for free.
PastIt(key, text) ==
    LET task == job[text.by].task
    IN  IF key = ProfileKey THEN "profile" \in scenario.tasks /\ task["profile"].at = "done"
        ELSE \/ task[key.task].at = "done"
             \/ task[key.task].attempt > key.attempt /\ text.defects \cap Refused(key.task) # {}

Consumed == \A key \in DOMAIN disk : disk[key].by # Nobody => PastIt(key, disk[key])

\* What planner and readers can have let through.
LetThrough(t, text) ==
    /\ t = "headline" => text.defects = {}
    /\ t \notin Narratives => "clash" \notin text.defects

Filtered ==
    /\ \A k \in scenario.kits, t \in scenario.tasks : LetThrough(t, job[k].task[t].text)
    /\ \A key \in DOMAIN disk :
        key = ProfileKey \/ key.task \notin Narratives => "clash" \notin disk[key].defects

Inv ==
    /\ Typed /\ Pending /\ Counted /\ Disclosed /\ Shared /\ Consumed /\ Filtered
    /\ SuspectRefusedEarly /\ DeliveredSupported /\ NarrativeSurvives

-----------------------------------------------------------------------------
(* Scenarios and tasks *)

\* The stages and their tasks, written out.
LEMMA TasksListed ==
    /\ Len(Stages) = 7 /\ DOMAIN Stages = 1..7
    /\ Tasks = {"profile", "jd", "headline", "summary", "bullets", "cover_letter", "answers",
                "job_fit", "interview_prep", "linkedin_outreach"}
<1>1. Len(Stages) = 7 /\ DOMAIN Stages = 1..7 BY DEF Stages
<1>2. /\ Stages[1] = {"profile", "jd"} /\ Stages[2] = {"headline", "summary", "bullets"}
      /\ Stages[3] = {"cover_letter"} /\ Stages[4] = {"answers"} /\ Stages[5] = {"job_fit"}
      /\ Stages[6] = {"interview_prep"} /\ Stages[7] = {"linkedin_outreach"}
  BY DEF Stages, Extraction, PlanTasks
<1>3. Tasks = Stages[1] \cup Stages[2] \cup Stages[3] \cup Stages[4] \cup Stages[5] \cup Stages[6] \cup Stages[7]
  <2>1. \A x : x \in Tasks <=> \E i \in 1..7 : x \in Stages[i] BY <1>1 DEF Tasks, Range
  <2>2. \A i \in 1..7 : i = 1 \/ i = 2 \/ i = 3 \/ i = 4 \/ i = 5 \/ i = 6 \/ i = 7 OBVIOUS
  <2>3. /\ 1 \in 1..7 /\ 2 \in 1..7 /\ 3 \in 1..7 /\ 4 \in 1..7 /\ 5 \in 1..7 /\ 6 \in 1..7 /\ 7 \in 1..7
    OBVIOUS
  <2>4. \A x : (\E i \in 1..7 : x \in Stages[i]) <=>
                  (\/ x \in Stages[1] \/ x \in Stages[2] \/ x \in Stages[3] \/ x \in Stages[4]
                   \/ x \in Stages[5] \/ x \in Stages[6] \/ x \in Stages[7])
    BY <2>2, <2>3
  <2> QED BY <2>1, <2>4
<1> QED BY <1>1, <1>2, <1>3

\* There are finitely many.
LEMMA TasksFinite == IsFiniteSet(Tasks)
<1>2. IsFiniteSet({"profile"} \cup {"jd"} \cup {"headline"}) BY FS_Singleton, FS_Union
<1>3. IsFiniteSet({"summary"} \cup {"bullets"} \cup {"cover_letter"}) BY FS_Singleton, FS_Union
<1>4. IsFiniteSet({"answers"} \cup {"job_fit"}) BY FS_Singleton, FS_Union
<1>5. IsFiniteSet({"interview_prep"} \cup {"linkedin_outreach"}) BY FS_Singleton, FS_Union
<1> DEFINE A == {"profile"} \cup {"jd"} \cup {"headline"}
           B == {"summary"} \cup {"bullets"} \cup {"cover_letter"}
           C == {"answers"} \cup {"job_fit"}
           D == {"interview_prep"} \cup {"linkedin_outreach"}
<1>6. Tasks = A \cup B \cup C \cup D BY TasksListed
<1>7. IsFiniteSet(A) /\ IsFiniteSet(B) /\ IsFiniteSet(C) /\ IsFiniteSet(D) BY <1>2, <1>3, <1>4, <1>5
<1> HIDE DEF A, B, C, D
<1> QED BY <1>6, <1>7, FS_Union

\* The scenario a state is in.
LEMMA ScenarioFacts ==
    ASSUME setting \in DOMAIN Scenarios
    PROVE  /\ Nobody \notin Kits /\ scenario.kits \subseteq Kits /\ Nobody \notin scenario.kits
           /\ scenario.tasks \subseteq Tasks /\ IsFiniteSet(scenario.tasks)
           /\ scenario.asked \subseteq Delivery!Kinds
           /\ scenario.own \in [Delivery!Kinds -> SUBSET Defects]
           /\ scenario.structure \in [Delivery!Kinds -> SUBSET Defects]
           /\ ReadInOrder(scenario.resume) /\ scenario.resume.baseline \in Seq(Records)
           /\ \A w \in {"primary", "fallback"} : scenario.reading[w].records \in Seq(Records)
           /\ \A t \in scenario.tasks : \A defects \in scenario.answers[t] :
                 defects \subseteq Defects /\ (t \notin Narratives => "clash" \notin defects)
<1>1. /\ Nobody \notin Kits /\ scenario.kits \subseteq Kits /\ scenario.tasks \subseteq Tasks
      /\ scenario.asked \subseteq Delivery!Kinds
      /\ {scenario.own, scenario.structure} \subseteq [Delivery!Kinds -> SUBSET Defects]
      /\ ReadInOrder(scenario.resume)
      /\ \A w \in {"primary", "fallback"} : scenario.reading[w].records \in Seq(Records)
      /\ \A t \in scenario.tasks : \A defects \in scenario.answers[t] :
            defects \subseteq IF t \in Narratives THEN Defects ELSE Defects \ {"clash"}
  BY ScenarioAssumption DEF scenario
<1>2. IsFiniteSet(scenario.tasks) BY <1>1, TasksFinite, FS_Subset
<1>3. scenario.resume.baseline \in Seq(Records) BY <1>1 DEF ReadInOrder
<1> QED BY <1>1, <1>2, <1>3

\* A task at one of the given places belongs to a running kit of the scenario.
LEMMA TaskOfRunning ==
    ASSUME NEW k, NEW places, NEW t \in TasksAt(k, places)
    PROVE  /\ k \in scenario.kits /\ t \in scenario.tasks /\ job[k].end = "running"
           /\ job[k].task[t].at \in places
BY DEF TasksAt

\* The text the engine makes itself.
LEMMA EngineTextFacts ==
    /\ EngineText \in Texts /\ EngineText.from = "engine" /\ EngineText.by = Nobody
    /\ EngineText.defects = {}
BY DEF EngineText, Texts, Writers

-----------------------------------------------------------------------------
(* The floor *)

\* The profile of a kit is the deterministic one or that of a provider's reading.
LEMMA ProfileOfWriter ==
    ASSUME Typed, NEW k \in scenario.kits
    PROVE  /\ ReadInOrder(scenario.resume)
           /\ Floor = HeuristicProfile(scenario.resume)
           /\ \/ Profile(k) = Floor
              \/ \E reading : /\ reading.records \in Seq(Records)
                              /\ Profile(k) = ProviderProfile(scenario.resume, reading)
<1> DEFINE w == Text(k, "profile").from
<1>1. w \in Writers
  <2>1. job[k] \in Jobs BY DEF Typed
  <2>2. CASE "profile" \in scenario.tasks
    <3>1. job[k].task["profile"] \in TaskStates BY <2>1, <2>2 DEF Jobs
    <3>2. job[k].task["profile"].text \in Texts BY <3>1 DEF TaskStates
    <3> QED BY <2>2, <3>2 DEF Text, Texts
  <2>3. CASE "profile" \notin scenario.tasks BY <2>3, EngineTextFacts DEF Text, Writers
  <2> QED BY <2>2, <2>3
<1>2. setting \in DOMAIN Scenarios BY DEF Typed
<1>3. /\ Floor = HeuristicProfile(scenario.resume)
      /\ Profile(k) = IF w = "engine" THEN HeuristicProfile(scenario.resume)
                      ELSE ProviderProfile(scenario.resume, scenario.reading[w])
  BY <1>1, <1>2 DEF Floor, Profile, Profiles, Writers, scenario
<1>4. ReadInOrder(scenario.resume) BY <1>2, ScenarioFacts
<1> HIDE DEF w
<1>5. CASE w = "engine" BY <1>3, <1>4, <1>5
<1>6. CASE w # "engine"
  <2>1. w \in {"primary", "fallback"} BY <1>1, <1>6 DEF Writers
  <2>2. scenario.reading[w].records \in Seq(Records) BY <1>2, <2>1, ScenarioFacts
  <2> QED BY <1>3, <1>4, <1>6, <2>2
<1> QED BY <1>5, <1>6

\* Whoever wrote the extraction, the profile of a kit is on the floor.
LEMMA ProfileOnFloor ==
    ASSUME Typed, NEW k \in scenario.kits
    PROVE  OnFloor(Profile(k), Floor)
<1>1. scenario.resume.baseline \in Seq(Records) BY ProfileOfWriter DEF ReadInOrder
<1>2. OnFloor(Floor, Floor)
  <2>1. OnFloor(scenario.resume.baseline, scenario.resume.baseline) BY <1>1, OnOwnFloor
  <2> QED BY <1>1, <2>1, CleanedStaysOnFloor, ProfileOfWriter DEF HeuristicProfile
<1>3. ASSUME NEW reading, reading.records \in Seq(Records),
             Profile(k) = ProviderProfile(scenario.resume, reading)
      PROVE  OnFloor(Profile(k), Floor)
  BY <1>1, <1>3, ProfilesOnFloor, ProfileOfWriter
<1> QED BY <1>2, <1>3, ProfileOfWriter

\* A provider cannot make a suspect employer plausible, or the other way round.
LEMMA SuspectWithoutProvider ==
    ASSUME Typed, NEW k \in scenario.kits
    PROVE  Suspect(scenario.resume, Profile(k)) <=> Suspect(scenario.resume, Floor)
<1>1. OnFloor(Profile(k), Floor) BY ProfileOnFloor
<1>2. /\ DOMAIN Profile(k) = DOMAIN Floor
      /\ \A i \in DOMAIN Floor : Profile(k)[i].company = Floor[i].company
  BY <1>1 DEF OnFloor, IdentityFields
<1> QED BY <1>2 DEF Suspect


-----------------------------------------------------------------------------
(* A step of one task *)

\* Task t of kit k becomes new; c calls are counted, f: the fallback was used.
Moved(k, t, new, c, f) ==
    job' = [job EXCEPT ![k] =
        [stage |-> job[k].stage, end |-> job[k].end, calls |-> c, fallbackUsed |-> f,
         task |-> [job[k].task EXCEPT ![t] = new], reports |-> job[k].reports]]

\* What an entry of the cache is after task t of kit k became new by reading text.
Stays(key) == key \in DOMAIN disk /\ disk'[key] = disk[key]
Profiled(k, t, new, key) ==
    /\ key = ProfileKey /\ t = "profile" /\ new.at = "done" /\ disk'[key] = new.text
    /\ new.text.by \in {k, Nobody} \/ PastIt(ProfileKey, new.text)
Cached(k, t, new, text, key) ==
    /\ key # ProfileKey /\ key.task = t /\ key.attempt = job[k].task[t].attempt
    /\ disk'[key] = text /\ text.by = k
    /\ new.at = "done" \/ (new.attempt > job[k].task[t].attempt /\ text.defects \cap Refused(t) # {})
    /\ t \notin Narratives => "clash" \notin text.defects

\* Everything the invariant needs to know of such a step.
TaskStep(k, t, new, c, f, text) ==
    /\ setting' = setting /\ Moved(k, t, new, c, f)
    /\ k \in scenario.kits /\ t \in scenario.tasks
    /\ job[k].end = "running" /\ job[k].task[t].at # "done"
    /\ new \in TaskStates /\ c \in Nat /\ f \in BOOLEAN /\ text \in Texts
    /\ c >= job[k].calls /\ (job[k].fallbackUsed => f)
    /\ new.attempt >= job[k].task[t].attempt
    /\ new.at # "done" => new.text = EngineText
    /\ new.at = "fallback" => f
    /\ LetThrough(t, new.text)
    /\ \/ new.text.from = "engine" /\ new.text.by = Nobody
       \/ new.text.from = text.from /\ new.text.by = text.by
    /\ Honest(text)
    /\ text.by \in {k, Nobody} \/ scenario.cached
    /\ \/ t \in Spent(k)
       \/ new.text.by # k /\ new.at \notin {"primary", "fallback"}
       \/ c = job[k].calls + 1
    /\ DOMAIN disk' # {} => scenario.cached
    /\ \A key \in DOMAIN disk' : Stays(key) \/ Profiled(k, t, new, key) \/ Cached(k, t, new, text, key)

\* Nothing but the kit changes, and of the kit the task and two counters.
LEMMA StepPointwise ==
    ASSUME Typed, NEW k, NEW t, NEW new, NEW c, NEW f, NEW text, TaskStep(k, t, new, c, f, text)
    PROVE  /\ scenario' = scenario
           /\ job' \in [scenario.kits -> Jobs]
           /\ \A k2 \in scenario.kits :
                 /\ job'[k2].stage = job[k2].stage /\ job'[k2].end = job[k2].end
                 /\ job'[k2].reports = job[k2].reports
                 /\ job'[k2].calls >= job[k2].calls
                 /\ job[k2].fallbackUsed => job'[k2].fallbackUsed
                 /\ k2 # k => job'[k2] = job[k2]
                 /\ \A t2 \in scenario.tasks : k2 # k \/ t2 # t => job'[k2].task[t2] = job[k2].task[t2]
           /\ job'[k].task[t] = new /\ job'[k].calls = c /\ job'[k].fallbackUsed = f
<1>1. scenario' = scenario BY DEF TaskStep, scenario
<1> DEFINE j == [stage |-> job[k].stage, end |-> job[k].end, calls |-> c, fallbackUsed |-> f,
                 task |-> [job[k].task EXCEPT ![t] = new], reports |-> job[k].reports]
<1>2. job \in [scenario.kits -> Jobs] /\ k \in scenario.kits /\ t \in scenario.tasks
  BY DEF Typed, TaskStep
<1>3. job[k] \in Jobs BY <1>2
<1>4. [job[k].task EXCEPT ![t] = new] \in [scenario.tasks -> TaskStates]
  BY <1>2, <1>3 DEF Jobs, TaskStep
<1>5. j \in Jobs
  BY <1>3, <1>4 DEF Jobs, TaskStep
<1>6. job' = [job EXCEPT ![k] = j] BY DEF TaskStep, Moved
<1>7. /\ j.stage = job[k].stage /\ j.end = job[k].end /\ j.reports = job[k].reports
      /\ j.calls = c /\ j.fallbackUsed = f
      /\ j.task[t] = new
      /\ \A t2 \in scenario.tasks : t2 # t => j.task[t2] = job[k].task[t2]
  BY <1>2, <1>3 DEF Jobs
<1> HIDE DEF j
<1>8. job' \in [scenario.kits -> Jobs] BY <1>2, <1>5, <1>6
<1>9. job'[k] = j /\ \A k2 \in scenario.kits : k2 # k => job'[k2] = job[k2]
  BY <1>2, <1>6
<1>10. c >= job[k].calls /\ (job[k].fallbackUsed => f) BY DEF TaskStep
<1>11. \A k2 \in scenario.kits : job[k2].calls \in Nat BY <1>2 DEF Jobs
<1>12. ASSUME NEW k2 \in scenario.kits
       PROVE  /\ job'[k2].stage = job[k2].stage /\ job'[k2].end = job[k2].end
              /\ job'[k2].reports = job[k2].reports
              /\ job'[k2].calls >= job[k2].calls
              /\ job[k2].fallbackUsed => job'[k2].fallbackUsed
              /\ k2 # k => job'[k2] = job[k2]
              /\ \A t2 \in scenario.tasks : k2 # k \/ t2 # t => job'[k2].task[t2] = job[k2].task[t2]
  <2>1. CASE k2 = k BY <1>7, <1>9, <1>10, <2>1
  <2>2. CASE k2 # k BY <1>9, <1>11, <2>2
  <2> QED BY <2>1, <2>2
<1> QED BY <1>1, <1>7, <1>8, <1>9, <1>12

\* Honest, of a text there is before the step, as it is after the step.
HonestAfter(text) ==
    IF text.from = "engine" THEN text.by = Nobody
    ELSE /\ text.by \in scenario.kits
         /\ job'[text.by].calls > 0
         /\ text.from = "fallback" => job'[text.by].fallbackUsed

\* Who wrote a text and paid for it stays on record.
LEMMA HonestStays ==
    ASSUME Typed,
           \A k \in scenario.kits :
              /\ job'[k].calls \in Nat /\ job'[k].calls >= job[k].calls
              /\ job[k].fallbackUsed => job'[k].fallbackUsed,
           NEW text, Honest(text)
    PROVE  HonestAfter(text)
<1>1. \A k \in scenario.kits : job[k].calls \in Nat BY DEF Typed, Jobs
<1>2. CASE text.from = "engine" BY <1>2 DEF Honest, HonestAfter
<1>3. CASE text.from # "engine" BY <1>1, <1>3 DEF Honest, HonestAfter
<1> QED BY <1>2, <1>3

\* A step of one task leaves everything well typed.
LEMMA StepTyped ==
    ASSUME Typed, NEW k, NEW t, NEW new, NEW c, NEW f, NEW text, TaskStep(k, t, new, c, f, text)
    PROVE  Typed'
<1>1. scenario' = scenario /\ job' \in [scenario.kits -> Jobs] BY StepPointwise
<1>2. Jobs' = Jobs BY <1>1 DEF Jobs
<1>3. setting' \in DOMAIN Scenarios BY DEF Typed, TaskStep
<1>4. ASSUME NEW key \in DOMAIN disk'
      PROVE  disk'[key] \in Texts /\ (key = ProfileKey \/ (key.task \in scenario.tasks /\ key.attempt \in Nat))
  <2>1. Stays(key) \/ Profiled(k, t, new, key) \/ Cached(k, t, new, text, key) BY <1>4 DEF TaskStep
  <2>2. CASE Stays(key) BY <2>2 DEF Stays, Typed
  <2>3. CASE Profiled(k, t, new, key)
    <3>1. new.text \in Texts BY DEF TaskStep, TaskStates
    <3> QED BY <2>3, <3>1 DEF Profiled
  <2>4. CASE Cached(k, t, new, text, key)
    <3>1. job[k].task[t] \in TaskStates BY DEF TaskStep, Typed, Jobs
    <3>2. job[k].task[t].attempt \in Nat BY <3>1 DEF TaskStates
    <3> QED BY <2>4, <3>2 DEF Cached, TaskStep
  <2> QED BY <2>1, <2>2, <2>3, <2>4
<1> QED BY <1>1, <1>2, <1>3, <1>4 DEF Typed

\* A task that is not done has no text yet.
LEMMA StepPending ==
    ASSUME Typed, Pending, NEW k, NEW t, NEW new, NEW c, NEW f, NEW text, TaskStep(k, t, new, c, f, text)
    PROVE  Pending'
<1>1. ASSUME NEW k2 \in scenario.kits, NEW t2 \in scenario.tasks, job'[k2].task[t2].at # "done"
      PROVE  job'[k2].task[t2].text = EngineText
  <2>1. CASE k2 = k /\ t2 = t
    <3>1. job'[k2].task[t2] = new BY <2>1, StepPointwise
    <3> QED BY <1>1, <3>1 DEF TaskStep
  <2>2. CASE k2 # k \/ t2 # t
    <3>1. job'[k2].task[t2] = job[k2].task[t2] BY <2>2, StepPointwise
    <3> QED BY <1>1, <3>1 DEF Pending
  <2> QED BY <2>1, <2>2
<1>2. scenario' = scenario BY StepPointwise
<1> QED BY <1>1, <1>2 DEF Pending

\* Every call is counted before its text is there.
LEMMA StepCounted ==
    ASSUME Typed, Pending, Counted,
           NEW k, NEW t, NEW new, NEW c, NEW f, NEW text, TaskStep(k, t, new, c, f, text)
    PROVE  Counted'
<1>1. setting \in DOMAIN Scenarios /\ scenario' = scenario BY StepPointwise DEF Typed
<1>2. ASSUME NEW k2 \in scenario.kits PROVE Cardinality(Spent(k2))' <= job'[k2].calls
  <2>1. Spent(k2)' = {t2 \in scenario.tasks :
            \/ job'[k2].task[t2].at \in {"primary", "fallback"} \/ job'[k2].task[t2].text.by = k2}
    BY <1>1 DEF Spent
  <2>2. /\ Spent(k2) \subseteq scenario.tasks /\ IsFiniteSet(scenario.tasks)
        /\ Cardinality(Spent(k2)) <= job[k2].calls
    BY <1>1, ScenarioFacts DEF Spent, Counted
  <2>3. IsFiniteSet(Spent(k2)) /\ Cardinality(Spent(k2)) \in Nat
    BY <2>2, FS_Subset, FS_CardinalityType
  <2>4. job[k2].calls \in Nat BY DEF Typed, Jobs
  <2>5. \A t2 \in scenario.tasks : k2 # k \/ t2 # t => job'[k2].task[t2] = job[k2].task[t2]
    BY StepPointwise
  <2>6. CASE Spent(k2)' \subseteq Spent(k2)
    <3>1. Cardinality(Spent(k2)') <= Cardinality(Spent(k2)) /\ Cardinality(Spent(k2)') \in Nat
      BY <2>3, <2>6, FS_Subset, FS_CardinalityType
    <3>2. job'[k2].calls \in Nat /\ job'[k2].calls >= job[k2].calls
      <4>1. job' \in [scenario.kits -> Jobs] /\ job'[k2].calls >= job[k2].calls BY StepPointwise
      <4> QED BY <4>1 DEF Jobs
    <3> QED BY <2>2, <2>3, <2>4, <3>1, <3>2
  <2>7. CASE k2 # k
    <3>1. Spent(k2)' = Spent(k2) BY <2>1, <2>5, <2>7 DEF Spent
    <3> QED BY <2>6, <3>1
  <2>8. CASE k2 = k
    <3>1. job'[k].task[t] = new BY StepPointwise
    <3>2. \A t2 \in Spent(k)' : t2 \in Spent(k) \/ t2 = t BY <2>1, <2>5, <2>8 DEF Spent
    <3>3. CASE t \in Spent(k) BY <2>6, <2>8, <3>2, <3>3
    <3>4. CASE new.text.by # k /\ new.at \notin {"primary", "fallback"}
      <4>1. t \notin Spent(k)' BY <2>1, <2>8, <3>1, <3>4
      <4> QED BY <2>6, <2>8, <3>2, <4>1
    <3>5. CASE t \notin Spent(k) /\ c = job[k].calls + 1
      <4>1. IsFiniteSet(Spent(k) \cup {t}) /\ Cardinality(Spent(k) \cup {t}) = Cardinality(Spent(k)) + 1
        BY <2>3, <2>8, <3>5, FS_AddElement
      <4>2. Spent(k)' \subseteq Spent(k) \cup {t} BY <3>2
      <4>3. IsFiniteSet(Spent(k)') /\ Cardinality(Spent(k)') <= Cardinality(Spent(k) \cup {t})
        BY <4>1, <4>2, FS_Subset
      <4>4. Cardinality(Spent(k)') \in Nat BY <4>3, FS_CardinalityType
      <4>5. job'[k].calls = c BY StepPointwise
      <4> QED BY <2>2, <2>3, <2>4, <2>8, <3>5, <4>1, <4>3, <4>4, <4>5
    <3> QED BY <3>3, <3>4, <3>5 DEF TaskStep
  <2> QED BY <2>7, <2>8
<1> QED BY <1>1, <1>2 DEF Counted

\* Also what comes out of the cache is accounted for.
LEMMA StepDisclosed ==
    ASSUME Typed, Disclosed,
           NEW k, NEW t, NEW new, NEW c, NEW f, NEW text, TaskStep(k, t, new, c, f, text)
    PROVE  Disclosed'
<1>1. /\ scenario' = scenario
      /\ \A k2 \in scenario.kits :
            /\ job'[k2].calls \in Nat /\ job'[k2].calls >= job[k2].calls
            /\ job[k2].fallbackUsed => job'[k2].fallbackUsed
  <2>1. job' \in [scenario.kits -> Jobs] BY StepPointwise
  <2>2. \A k2 \in scenario.kits :
            job'[k2].calls >= job[k2].calls /\ (job[k2].fallbackUsed => job'[k2].fallbackUsed)
    BY StepPointwise
  <2>3. scenario' = scenario BY StepPointwise
  <2> QED BY <2>1, <2>2, <2>3 DEF Jobs
<1>2. HonestAfter(text)
  <2>1. Honest(text) BY DEF TaskStep
  <2> QED BY <1>1, <2>1, HonestStays
<1>3. HonestAfter(new.text)
  <2>1. CASE new.text.from = "engine" /\ new.text.by = Nobody BY <2>1 DEF HonestAfter
  <2>2. CASE new.text.from = text.from /\ new.text.by = text.by BY <1>2, <2>2 DEF HonestAfter
  <2> QED BY <2>1, <2>2 DEF TaskStep
<1>4. ASSUME NEW k2 \in scenario.kits, NEW t2 \in scenario.tasks
      PROVE  /\ HonestAfter(job'[k2].task[t2].text)
             /\ job'[k2].task[t2].at = "fallback" => job'[k2].fallbackUsed
  <2>1. CASE k2 = k /\ t2 = t
    <3>1. job'[k2].task[t2] = new /\ job'[k2].fallbackUsed = f BY <2>1, StepPointwise
    <3>2. new.at = "fallback" => f BY DEF TaskStep
    <3> QED BY <1>3, <3>1, <3>2
  <2>2. CASE k2 # k \/ t2 # t
    <3>1. job'[k2].task[t2] = job[k2].task[t2] BY <2>2, StepPointwise
    <3>2. Honest(job[k2].task[t2].text) /\ (job[k2].task[t2].at = "fallback" => job[k2].fallbackUsed)
      BY DEF Disclosed
    <3>3. HonestAfter(job[k2].task[t2].text) BY <1>1, <3>2, HonestStays
    <3> QED BY <1>1, <3>1, <3>2, <3>3
  <2> QED BY <2>1, <2>2
<1>5. ASSUME NEW key \in DOMAIN disk' PROVE HonestAfter(disk'[key])
  <2>1. CASE Stays(key)
    <3>1. Honest(disk[key]) BY <2>1 DEF Stays, Disclosed
    <3>2. HonestAfter(disk[key]) BY <1>1, <3>1, HonestStays
    <3> QED BY <2>1, <3>2 DEF Stays
  <2>2. CASE Profiled(k, t, new, key) BY <1>3, <2>2 DEF Profiled
  <2>3. CASE Cached(k, t, new, text, key) BY <1>2, <2>3 DEF Cached
  <2> QED BY <1>5, <2>1, <2>2, <2>3 DEF TaskStep
<1>6. scenario' = scenario BY <1>1
<1> QED BY <1>4, <1>5, <1>6 DEF Disclosed, Honest, HonestAfter

\* Text of another kit is only seen where answers are cached.
LEMMA StepShared ==
    ASSUME Typed, Shared,
           NEW k, NEW t, NEW new, NEW c, NEW f, NEW text, TaskStep(k, t, new, c, f, text)
    PROVE  Shared'
<1>1. scenario' = scenario BY StepPointwise
<1>2. DOMAIN disk' # {} => scenario.cached BY DEF TaskStep
<1>3. ASSUME NEW k2 \in scenario.kits, NEW t2 \in scenario.tasks,
             job'[k2].task[t2].text.by \notin {k2, Nobody}
      PROVE  scenario.cached
  <2>1. CASE k2 = k /\ t2 = t
    <3>1. job'[k2].task[t2] = new BY <2>1, StepPointwise
    <3> QED BY <1>3, <2>1, <3>1 DEF TaskStep
  <2>2. CASE k2 # k \/ t2 # t
    <3>1. job'[k2].task[t2] = job[k2].task[t2] BY <2>2, StepPointwise
    <3> QED BY <1>3, <3>1 DEF Shared
  <2> QED BY <2>1, <2>2
<1> QED BY <1>1, <1>2, <1>3 DEF Shared

\* PastIt, of an entry there is before the step, as it is after the step.
PastAfter(key, text) ==
    LET task == job'[text.by].task
    IN  IF key = ProfileKey THEN "profile" \in scenario.tasks /\ task["profile"].at = "done"
        ELSE \/ task[key.task].at = "done"
             \/ task[key.task].attempt > key.attempt /\ text.defects \cap Refused(key.task) # {}

\* A kit does not go back behind a prompt: settled tasks stay, attempts only grow.
LEMMA PastItStays ==
    ASSUME Typed, NEW k, NEW t, NEW new, NEW c, NEW f, NEW read, TaskStep(k, t, new, c, f, read),
           NEW key, key = ProfileKey \/ (key.task \in scenario.tasks /\ key.attempt \in Nat),
           NEW text, text.by \in scenario.kits, PastIt(key, text)
    PROVE  PastAfter(key, text)
<1> DEFINE Later(a, b) == a = b \/ (a.at # "done" /\ b.attempt >= a.attempt)
<1>1. ASSUME NEW t2 \in scenario.tasks
      PROVE  /\ Later(job[text.by].task[t2], job'[text.by].task[t2])
             /\ job[text.by].task[t2].attempt \in Nat /\ job'[text.by].task[t2].attempt \in Nat
  <2>1. job \in [scenario.kits -> Jobs] /\ job' \in [scenario.kits -> Jobs] BY StepPointwise DEF Typed
  <2>2. job[text.by].task[t2] \in TaskStates /\ job'[text.by].task[t2] \in TaskStates
    BY <2>1 DEF Jobs
  <2>3. CASE text.by = k /\ t2 = t
    <3>1. job'[text.by].task[t2] = new BY <2>3, StepPointwise
    <3>2. new.attempt >= job[k].task[t].attempt /\ job[k].task[t].at # "done" BY DEF TaskStep
    <3> QED BY <2>2, <2>3, <3>1, <3>2 DEF TaskStates
  <2>4. CASE text.by # k \/ t2 # t
    <3>1. job'[text.by].task[t2] = job[text.by].task[t2] BY <2>4, StepPointwise
    <3> QED BY <2>2, <3>1 DEF TaskStates
  <2> QED BY <2>3, <2>4
<1>2. CASE key = ProfileKey
  <2>1. "profile" \in scenario.tasks /\ job[text.by].task["profile"].at = "done" BY <1>2 DEF PastIt
  <2>2. job'[text.by].task["profile"].at = "done" BY <1>1, <2>1
  <2> QED BY <1>2, <2>1, <2>2 DEF PastAfter
<1>3. CASE key # ProfileKey
  <2>1. key.task \in scenario.tasks /\ key.attempt \in Nat BY <1>3
  <2>2. CASE job[text.by].task[key.task].at = "done"
    <3>1. job'[text.by].task[key.task].at = "done" BY <1>1, <2>1, <2>2
    <3> QED BY <1>3, <3>1 DEF PastAfter
  <2>3. CASE /\ job[text.by].task[key.task].attempt > key.attempt
             /\ text.defects \cap Refused(key.task) # {}
    <3>1. job'[text.by].task[key.task].attempt >= job[text.by].task[key.task].attempt
      BY <1>1, <2>1
    <3>2. job'[text.by].task[key.task].attempt > key.attempt BY <1>1, <2>1, <2>3, <3>1
    <3> QED BY <1>3, <2>3, <3>2 DEF PastAfter
  <2> QED BY <1>3, <2>2, <2>3 DEF PastIt
<1> QED BY <1>2, <1>3

\* Who paid for a text is remembered.
LEMMA StepConsumed ==
    ASSUME Typed, Disclosed, Consumed,
           NEW k, NEW t, NEW new, NEW c, NEW f, NEW text, TaskStep(k, t, new, c, f, text)
    PROVE  Consumed'
<1>1. scenario' = scenario /\ Nobody \notin scenario.kits /\ k \in scenario.kits /\ t \in scenario.tasks
  BY StepPointwise, ScenarioFacts DEF Typed, TaskStep
<1>2. job'[k].task[t] = new BY StepPointwise
<1>3. Honest(text) /\ (new.text.by = Nobody \/ (new.text.from = text.from /\ new.text.by = text.by))
  BY DEF TaskStep
<1>4. new.text.by = Nobody \/ new.text.by \in scenario.kits BY <1>3 DEF Honest
<1>5. ASSUME NEW key \in DOMAIN disk', disk'[key].by # Nobody
      PROVE  PastAfter(key, disk'[key])
  <2>1. CASE Stays(key)
    <3>1. disk[key].by # Nobody /\ key \in DOMAIN disk BY <1>5, <2>1 DEF Stays
    <3>2. PastIt(key, disk[key]) BY <3>1 DEF Consumed
    <3>3. disk[key].by \in scenario.kits BY <3>1 DEF Disclosed, Honest
    <3>4. key = ProfileKey \/ (key.task \in scenario.tasks /\ key.attempt \in Nat)
      BY <3>1 DEF Typed
    <3>5. PastAfter(key, disk[key]) BY <3>2, <3>3, <3>4, PastItStays
    <3> QED BY <2>1, <3>5 DEF Stays
  <2>2. CASE Profiled(k, t, new, key)
    <3>1. key = ProfileKey /\ t = "profile" /\ new.at = "done" /\ disk'[key] = new.text
      BY <2>2 DEF Profiled
    <3>2. CASE new.text.by = k BY <1>1, <1>2, <3>1, <3>2 DEF PastAfter
    <3>3. CASE PastIt(ProfileKey, new.text)
      <4>1. new.text.by \in scenario.kits BY <1>4, <1>5, <3>1
      <4>2. PastAfter(ProfileKey, new.text) BY <3>3, <4>1, PastItStays
      <4> QED BY <3>1, <4>2
    <3> QED BY <1>5, <2>2, <3>1, <3>2, <3>3 DEF Profiled
  <2>3. CASE Cached(k, t, new, text, key)
    <3>1. /\ key # ProfileKey /\ key.task = t /\ key.attempt = job[k].task[t].attempt
          /\ disk'[key] = text /\ text.by = k
          /\ new.at = "done" \/ (new.attempt > job[k].task[t].attempt /\ text.defects \cap Refused(t) # {})
      BY <2>3 DEF Cached
    <3> QED BY <1>2, <3>1 DEF PastAfter
  <2> QED BY <1>5, <2>1, <2>2, <2>3 DEF TaskStep
<1> QED BY <1>1, <1>5 DEF Consumed, PastIt, PastAfter

\* No text passes a filter it should not.
LEMMA StepFiltered ==
    ASSUME Typed, Filtered,
           NEW k, NEW t, NEW new, NEW c, NEW f, NEW text, TaskStep(k, t, new, c, f, text)
    PROVE  Filtered'
<1>1. scenario' = scenario BY StepPointwise
<1>2. LetThrough(t, new.text) BY DEF TaskStep
<1>3. ASSUME NEW k2 \in scenario.kits, NEW t2 \in scenario.tasks
      PROVE  LetThrough(t2, job'[k2].task[t2].text)
  <2>1. CASE k2 = k /\ t2 = t
    <3>1. job'[k2].task[t2] = new BY <2>1, StepPointwise
    <3> QED BY <1>2, <2>1, <3>1
  <2>2. CASE k2 # k \/ t2 # t
    <3>1. job'[k2].task[t2] = job[k2].task[t2] BY <2>2, StepPointwise
    <3> QED BY <3>1 DEF Filtered
  <2> QED BY <2>1, <2>2
<1>4. ASSUME NEW key \in DOMAIN disk', key = ProfileKey \/ key.task \notin Narratives
      PROVE  "clash" \notin disk'[key].defects
  <2>1. CASE Stays(key) BY <1>4, <2>1 DEF Stays, Filtered
  <2>2. CASE Profiled(k, t, new, key)
    <3>1. "clash" \notin new.text.defects BY <1>2, <2>2 DEF LetThrough, Narratives, Profiled
    <3> QED BY <2>2, <3>1 DEF Profiled
  <2>3. CASE Cached(k, t, new, text, key) BY <1>4, <2>3 DEF Cached
  <2> QED BY <1>4, <2>1, <2>2, <2>3 DEF TaskStep
<1> QED BY <1>1, <1>3, <1>4 DEF Filtered, LetThrough

\* A generation that has ended is not touched by its tasks any more.
LEMMA StepOutcome ==
    ASSUME Typed, SuspectRefusedEarly, DeliveredSupported, NarrativeSurvives,
           NEW k, NEW t, NEW new, NEW c, NEW f, NEW text, TaskStep(k, t, new, c, f, text)
    PROVE  SuspectRefusedEarly' /\ DeliveredSupported' /\ NarrativeSurvives'
<1>1. /\ scenario' = scenario /\ setting' = setting
      /\ DOMAIN job = scenario.kits /\ DOMAIN job' = scenario.kits
      /\ job[k].end = "running"
  BY StepPointwise DEF Typed, TaskStep
<1>2. \A k2 \in scenario.kits :
         /\ job'[k2].stage = job[k2].stage /\ job'[k2].end = job[k2].end
         /\ job'[k2].reports = job[k2].reports
         /\ k2 # k => job'[k2] = job[k2]
  BY StepPointwise
<1>3. Floor' = Floor BY <1>1 DEF Floor, Profiles, HeuristicProfile, ProviderProfile
<1>4. SuspectRefusedEarly' BY <1>1, <1>2, <1>3 DEF SuspectRefusedEarly
<1>5. DeliveredKits' = DeliveredKits /\ k \notin DeliveredKits /\ DeliveredKits \subseteq scenario.kits
  BY <1>1, <1>2 DEF DeliveredKits
<1>6. DeliveredSupported' BY <1>1, <1>2, <1>5 DEF DeliveredSupported
<1>7. \A k2 \in DeliveredKits : job'[k2] = job[k2] BY <1>2, <1>5
<1>8. \A k2 \in DeliveredKits, kind \in scenario.asked : Prose(k2, kind)' = Prose(k2, kind)
  BY <1>1, <1>7 DEF Prose, Text
<1>9. NarrativeSurvives' BY <1>1, <1>5, <1>7, <1>8 DEF NarrativeSurvives
<1> QED BY <1>4, <1>6, <1>9

\* The step of a task keeps the invariant.
LEMMA TaskStepKeepsInv ==
    ASSUME Inv, NEW k, NEW t, NEW new, NEW c, NEW f, NEW text, TaskStep(k, t, new, c, f, text)
    PROVE  Inv'
BY StepTyped, StepPending, StepCounted, StepDisclosed, StepShared, StepConsumed, StepFiltered, StepOutcome
   DEF Inv

-----------------------------------------------------------------------------
(* What becomes of an answer *)

\* What the proofs need of the task an answer or a failure leaves behind: it is
\* settled, or asked again because the text was refused, and lets nothing through.
Resolved(t, task, new, text) ==
    /\ new \in TaskStates /\ new.at \in {"todo", "done"} /\ new.attempt >= task.attempt
    /\ new.at # "done" => new.text = EngineText
    /\ LetThrough(t, new.text)
    /\ new.text = EngineText \/ (new.text.from = text.from /\ new.text.by = text.by
                                 /\ text.defects \cap Refused(t) = {})
    /\ t = "profile" => new.text \in {EngineText, text}
    /\ \/ new.at = "done"
       \/ text = EngineText
       \/ new.attempt > task.attempt /\ text.defects \cap Refused(t) # {}

\* A task that is asked again.
LEMMA AgainFacts ==
    ASSUME NEW task \in TaskStates
    PROVE  /\ Again(task) \in TaskStates /\ Again(task).at = "todo"
           /\ Again(task).attempt = task.attempt + 1 /\ Again(task).text = task.text
<1> DEFINE S == {"todo", "primary", "fallback", "done"}
<1>1. task \in [at : S, attempt : Nat, text : Texts] BY DEF TaskStates
<1> HIDE DEF S
<1>2. /\ Again(task).at = "todo" /\ Again(task).attempt = task.attempt + 1
      /\ Again(task).text = task.text
  BY <1>1 DEF Again
<1>3. "todo" \in S BY DEF S
<1>4. task.attempt + 1 \in Nat BY <1>1
<1>5. Again(task) \in [at : S, attempt : Nat, text : Texts] BY <1>1, <1>3, <1>4 DEF Again
<1> QED BY <1>2, <1>5 DEF TaskStates, S

\* An answer that reaches its task leaves a resolved state behind.
LEMMA AnswerResolved ==
    ASSUME NEW t \in Tasks, NEW task \in TaskStates, task.at # "done", task.text = EngineText,
           NEW text \in Texts, t \notin Narratives => "clash" \notin text.defects
    PROVE  Resolved(t, task, AfterAnswer(t, task, text), text)
<1> DEFINE new == AfterAnswer(t, task, text)
           kept == IF t = "bullets" THEN [text EXCEPT !.defects = @ \ BulletRefuses] ELSE text
<1>1. /\ kept \in Texts /\ kept.from = text.from /\ kept.by = text.by
      /\ kept.defects \subseteq text.defects /\ (t # "bullets" => kept = text)
  BY DEF Texts
<1>2. /\ Settled(task, kept) \in TaskStates /\ Settled(task, EngineText) \in TaskStates
      /\ Settled(task, kept).at = "done" /\ Settled(task, EngineText).at = "done"
      /\ Settled(task, kept).text = kept /\ Settled(task, EngineText).text = EngineText
      /\ Settled(task, kept).attempt = task.attempt /\ Settled(task, EngineText).attempt = task.attempt
      /\ task.attempt \in Nat
  BY <1>1, EngineTextFacts DEF Settled, TaskStates
<1>3. /\ Again(task) \in TaskStates /\ Again(task).at = "todo"
      /\ Again(task).attempt = task.attempt + 1 /\ Again(task).text = EngineText
  BY AgainFacts
<1> HIDE DEF kept
<1>4. LetThrough(t, EngineText) BY EngineTextFacts DEF LetThrough
<1>5. CASE text.defects \cap Refused(t) = {}
  <2>1. new = Settled(task, kept) BY <1>5 DEF AfterAnswer, kept
  <2>2. t = "headline" => kept.defects = {}
    <3> SUFFICES ASSUME t = "headline" PROVE kept.defects = {} OBVIOUS
    <3>1. Refused(t) = Defects BY DEF Refused, HeadlineRefuses
    <3>2. text.defects \subseteq Defects BY DEF Texts
    <3> QED BY <1>1, <1>5, <3>1, <3>2
  <2>3. LetThrough(t, kept) BY <1>1, <2>2 DEF LetThrough
  <2> HIDE DEF new
  <2> QED BY <1>1, <1>2, <1>5, <2>1, <2>3 DEF Resolved, new
<1>6. CASE text.defects \cap Refused(t) # {}
  <2>1. new = Again(task) \/ new = Settled(task, EngineText) BY <1>6 DEF AfterAnswer
  <2> HIDE DEF new
  <2> QED BY <1>2, <1>3, <1>4, <1>6, <2>1 DEF Resolved, new
<1> QED BY <1>5, <1>6

\* So does a provider that failed for good.
LEMMA FailureResolved ==
    ASSUME NEW t \in Tasks, NEW task \in TaskStates, task.at # "done", task.text = EngineText
    PROVE  /\ Resolved(t, task, AfterFailure(t, task), EngineText)
           /\ Resolved(t, task, Settled(task, EngineText), EngineText)
<1>1. /\ Settled(task, EngineText) \in TaskStates
      /\ Settled(task, EngineText).at = "done" /\ Settled(task, EngineText).text = EngineText
      /\ Settled(task, EngineText).attempt = task.attempt /\ task.attempt \in Nat
  BY EngineTextFacts DEF Settled, TaskStates
<1>2. /\ Again(task) \in TaskStates /\ Again(task).at = "todo"
      /\ Again(task).attempt = task.attempt + 1 /\ Again(task).text = EngineText
  BY AgainFacts
<1>3. LetThrough(t, EngineText) /\ EngineText.defects \cap Refused(t) = {}
  BY EngineTextFacts DEF LetThrough
<1>4. AfterFailure(t, task) = Again(task) \/ AfterFailure(t, task) = Settled(task, EngineText)
  BY DEF AfterFailure
<1> QED BY <1>1, <1>2, <1>3, <1>4 DEF Resolved

\* The entries after Stored: those of before, the answer, and the profile.
LEMMA StoredEntries ==
    ASSUME Shared, NEW k, NEW t \in Tasks, NEW prompt, prompt = Prompt(k, t), NEW text, NEW new,
           disk' = Stored(t, prompt, text, new)
    PROVE  /\ prompt # ProfileKey /\ prompt.task = t /\ prompt.attempt = job[k].task[t].attempt
           /\ DOMAIN disk' # {} => scenario.cached
           /\ \A key \in DOMAIN disk' :
                 \/ key \in DOMAIN disk /\ disk'[key] = disk[key]
                 \/ key = ProfileKey /\ t = "profile" /\ new.at = "done" /\ disk'[key] = new.text
                 \/ key = prompt /\ disk'[key] = text /\ text # EngineText
<1> DEFINE answered == "garbage" \notin text.defects /\ text # EngineText
           settled == t = "profile" /\ new.at = "done" /\ ~Suspect(scenario.resume, Floor)
           added == IF scenario.cached THEN {key \in {prompt, ProfileKey} :
                                                IF key = ProfileKey THEN settled ELSE answered}
                    ELSE {}
<1>1. disk' = [key \in DOMAIN disk \cup added |->
                  IF key \notin added THEN disk[key] ELSE IF key = ProfileKey THEN new.text ELSE text]
  BY DEF Stored
<1>2. prompt.task = t /\ prompt.attempt = job[k].task[t].attempt BY DEF Prompt
<1>3. ProfileKey.task = "parsed profile" /\ t # "parsed profile"
  <2>1. ProfileKey.task = "parsed profile" BY DEF ProfileKey
  <2> QED BY <2>1, TasksListed
<1>4. prompt # ProfileKey BY <1>2, <1>3
<1>5. added # {} => scenario.cached OBVIOUS
<1>6. \A key \in added : \/ key = ProfileKey /\ settled
                         \/ key = prompt /\ answered
  BY <1>4
<1> HIDE DEF added
<1>7. DOMAIN disk' = DOMAIN disk \cup added BY <1>1
<1>8. DOMAIN disk' # {} => scenario.cached BY <1>5, <1>7 DEF Shared
<1>9. ASSUME NEW key \in DOMAIN disk'
      PROVE  \/ key \in DOMAIN disk /\ disk'[key] = disk[key]
             \/ key = ProfileKey /\ t = "profile" /\ new.at = "done" /\ disk'[key] = new.text
             \/ key = prompt /\ disk'[key] = text /\ text # EngineText
  <2>1. CASE key \notin added BY <1>1, <1>7, <2>1
  <2>2. CASE key \in added
    <3>1. disk'[key] = IF key = ProfileKey THEN new.text ELSE text BY <1>1, <1>7, <2>2
    <3> QED BY <1>4, <1>6, <2>2, <3>1
  <2> QED BY <2>1, <2>2
<1> QED BY <1>2, <1>4, <1>8, <1>9

-----------------------------------------------------------------------------
(* The actions on a task *)

\* A task at the head of a call: what is known of it, and of what follows.
LEMMA TaskFacts ==
    ASSUME Inv, NEW k, NEW places, NEW t \in TasksAt(k, places), "done" \notin places
    PROVE  /\ k \in scenario.kits /\ t \in scenario.tasks /\ t \in Tasks /\ k # Nobody
           /\ job[k] \in Jobs /\ job[k].end = "running"
           /\ job[k].task[t] \in TaskStates /\ job[k].task[t].at \in places
           /\ job[k].task[t].at # "done" /\ job[k].task[t].text = EngineText
           /\ job[k].calls \in Nat /\ job[k].fallbackUsed \in BOOLEAN
           /\ Prompt(k, t) # ProfileKey
<1>1. /\ k \in scenario.kits /\ t \in scenario.tasks /\ job[k].end = "running"
      /\ job[k].task[t].at \in places
  BY TaskOfRunning
<1>2. job[k].task[t].at # "done" BY <1>1
<1>3. Typed /\ Pending BY DEF Inv
<1>4. /\ Nobody \notin scenario.kits /\ scenario.tasks \subseteq Tasks
  BY <1>3, ScenarioFacts DEF Typed
<1>5. job[k] \in Jobs BY <1>1, <1>3 DEF Typed
<1>6. job[k].task[t] \in TaskStates /\ job[k].calls \in Nat /\ job[k].fallbackUsed \in BOOLEAN
  BY <1>1, <1>5 DEF Jobs
<1>7. job[k].task[t].text = EngineText BY <1>1, <1>2, <1>3 DEF Pending
<1>8. t \in Tasks BY <1>1, <1>4
<1>9. Prompt(k, t) # ProfileKey
  <2>1. Prompt(k, t).task = t /\ ProfileKey.task = "parsed profile" BY DEF Prompt, ProfileKey
  <2> QED BY <1>8, <2>1, TasksListed
<1>10. k # Nobody BY <1>1, <1>4
<1> HIDE DEF Inv
<1> QED BY <1>1, <1>2, <1>5, <1>6, <1>7, <1>8, <1>9, <1>10

\* A record of a job, with a new task and nothing else new.
LEMMA JobWithTask ==
    ASSUME NEW j \in Jobs, NEW t, NEW new
    PROVE  [j EXCEPT !.task = [@ EXCEPT ![t] = new]]
            = [stage |-> j.stage, end |-> j.end, calls |-> j.calls, fallbackUsed |-> j.fallbackUsed,
               task |-> [j.task EXCEPT ![t] = new], reports |-> j.reports]
<1> DEFINE T == [scenario.tasks -> TaskStates]
           R == [scenario.asked -> [report : Delivery!DocumentStates, text : SUBSET Defects]]
<1>1. j \in [stage : Nat, end : Ends, calls : Nat, fallbackUsed : BOOLEAN, task : T, reports : R]
  BY DEF Jobs
<1> HIDE DEF T, R
<1> QED BY <1>1

\* The same for the record of the fallback.
LEMMA JobWithFallback ==
    ASSUME NEW s, NEW e, NEW c, NEW f, NEW g, NEW tasks, NEW r
    PROVE  [[stage |-> s, end |-> e, calls |-> c, fallbackUsed |-> f, task |-> tasks, reports |-> r]
                EXCEPT !.fallbackUsed = g]
            = [stage |-> s, end |-> e, calls |-> c, fallbackUsed |-> g, task |-> tasks, reports |-> r]
OBVIOUS

\* Task t of kit k is settled, or asked again, by reading text.  The text is of a
\* call of its own, of none, or of another kit that is past this prompt.
Reply(k, t, new, text) ==
    /\ text \in Texts /\ Honest(text) /\ (t \notin Narratives => "clash" \notin text.defects)
    /\ Resolved(t, job[k].task[t], new, text)
    /\ setting' = setting /\ job' = [job EXCEPT ![k].task[t] = new]
    /\ \/ text.by = k /\ t \in Spent(k)
       \/ text.by = Nobody
       \/ text.by # k /\ scenario.cached /\ PastIt(Prompt(k, t), text)
    /\ DOMAIN disk' # {} => scenario.cached
    /\ \A key \in DOMAIN disk' :
          \/ Stays(key)
          \/ key = ProfileKey /\ t = "profile" /\ new.at = "done" /\ disk'[key] = new.text
          \/ key = Prompt(k, t) /\ disk'[key] = text /\ text # EngineText /\ text.by = k

\* A task that goes on with a reply keeps the invariant.
LEMMA ReplyKeepsInv ==
    ASSUME Inv, NEW k, NEW places, NEW t \in TasksAt(k, places), "done" \notin places,
           NEW new, NEW text, Reply(k, t, new, text)
    PROVE  Inv'
<1>1. /\ k \in scenario.kits /\ t \in scenario.tasks /\ t \in Tasks /\ k # Nobody
      /\ job[k] \in Jobs /\ job[k].end = "running"
      /\ job[k].task[t] \in TaskStates /\ job[k].task[t].at # "done"
      /\ job[k].calls \in Nat /\ job[k].fallbackUsed \in BOOLEAN
      /\ Prompt(k, t) # ProfileKey
  BY TaskFacts
<1>2. Prompt(k, t).task = t /\ Prompt(k, t).attempt = job[k].task[t].attempt BY DEF Prompt
<1>3. Moved(k, t, new, job[k].calls, job[k].fallbackUsed)
  <2> DEFINE a == [job[k] EXCEPT !.task = [@ EXCEPT ![t] = new]]
             b == [stage |-> job[k].stage, end |-> job[k].end, calls |-> job[k].calls,
                   fallbackUsed |-> job[k].fallbackUsed,
                   task |-> [job[k].task EXCEPT ![t] = new], reports |-> job[k].reports]
  <2>1. job' = [job EXCEPT ![k] = a] BY DEF Reply
  <2>2. a = b BY <1>1, JobWithTask
  <2>3. Moved(k, t, new, job[k].calls, job[k].fallbackUsed) <=> job' = [job EXCEPT ![k] = b]
    BY DEF Moved
  <2> HIDE DEF a, b
  <2> QED BY <2>1, <2>2, <2>3
<1>4. /\ new \in TaskStates /\ new.at \in {"todo", "done"}
      /\ new.attempt >= job[k].task[t].attempt
      /\ new.at # "done" => new.text = EngineText
      /\ LetThrough(t, new.text)
  BY DEF Reply, Resolved
<1>5. \/ new.text = EngineText
      \/ new.text.from = text.from /\ new.text.by = text.by /\ text.defects \cap Refused(t) = {}
  BY DEF Reply, Resolved
<1>6. \/ new.text.from = "engine" /\ new.text.by = Nobody
      \/ new.text.from = text.from /\ new.text.by = text.by
  BY <1>5, EngineTextFacts
<1>7. new.text.by \in {Nobody, text.by} BY <1>6
<1>8. \/ t \in Spent(k)
      \/ new.text.by # k /\ new.at \notin {"primary", "fallback"}
  BY <1>1, <1>4, <1>7 DEF Reply
<1>9. text.by \in {k, Nobody} \/ scenario.cached BY DEF Reply
<1>10. ASSUME NEW key \in DOMAIN disk'
       PROVE  Stays(key) \/ Profiled(k, t, new, key) \/ Cached(k, t, new, text, key)
  <2>1. CASE key = ProfileKey /\ t = "profile" /\ new.at = "done" /\ disk'[key] = new.text
    <3>1. new.text.by \in {k, Nobody} \/ PastIt(ProfileKey, new.text)
      <4>1. CASE new.text.by = Nobody \/ text.by = k \/ text.by = Nobody BY <1>7, <4>1
      <4>2. CASE new.text.by # Nobody /\ text.by # k /\ text.by # Nobody
        <5>1. PastIt(Prompt(k, t), text) BY <4>2 DEF Reply
        <5>2. new.text.by = text.by /\ text.defects \cap Refused(t) = {}
          BY <1>5, <4>2, EngineTextFacts
        <5>3. job[text.by].task["profile"].at = "done" BY <1>1, <1>2, <2>1, <5>1, <5>2 DEF PastIt
        <5> QED BY <1>1, <2>1, <5>2, <5>3 DEF PastIt
      <4> QED BY <4>1, <4>2
    <3> QED BY <2>1, <3>1 DEF Profiled
  <2>2. CASE key = Prompt(k, t) /\ disk'[key] = text /\ text # EngineText /\ text.by = k
    <3>1. new.at = "done" \/ (new.attempt > job[k].task[t].attempt /\ text.defects \cap Refused(t) # {})
      BY <2>2 DEF Reply, Resolved
    <3> QED BY <1>1, <1>2, <2>2, <3>1 DEF Cached, Reply
  <2> QED BY <1>10, <2>1, <2>2 DEF Reply
<1>11. new.at = "fallback" => job[k].fallbackUsed BY <1>4
<1>12. job[k].calls >= job[k].calls BY <1>1
<1> HIDE DEF Inv
<1>13. TaskStep(k, t, new, job[k].calls, job[k].fallbackUsed, text)
  BY <1>1, <1>3, <1>4, <1>6, <1>8, <1>9, <1>10, <1>11, <1>12 DEF TaskStep, Reply
<1> QED BY <1>13, TaskStepKeepsInv

\* A task without a provider keeps the invariant.
LEMMA AskNobodyKeepsInv ==
    ASSUME Inv, NEW k, AskNobody(k)
    PROVE  Inv'
<1>1. PICK t \in TasksAt(k, {"todo"}) : job' = [job EXCEPT ![k].task[t] = Settled(@, EngineText)]
  BY DEF AskNobody
<1> DEFINE new == Settled(job[k].task[t], EngineText)
<1>2. t \in Tasks /\ job[k].task[t] \in TaskStates /\ job[k].task[t].at # "done"
      /\ job[k].task[t].text = EngineText
  BY TaskFacts
<1>3. Resolved(t, job[k].task[t], new, EngineText) BY <1>2, FailureResolved
<1>4. job' = [job EXCEPT ![k].task[t] = new] BY <1>1
<1>5. setting' = setting /\ disk' = disk BY DEF AskNobody
<1>6. Honest(EngineText) BY EngineTextFacts DEF Honest
<1>7. DOMAIN disk' # {} => scenario.cached BY <1>5 DEF Inv, Shared
<1>8. \A key \in DOMAIN disk' : Stays(key) BY <1>5 DEF Stays
<1>9. EngineText.defects = {} BY EngineTextFacts
<1> HIDE DEF new, Inv
<1>10. Reply(k, t, new, EngineText)
  BY <1>3, <1>4, <1>5, <1>6, <1>7, <1>8, <1>9, EngineTextFacts DEF Reply
<1> QED BY <1>10, ReplyKeepsInv

\* The call is counted and the task is with the primary provider.
LEMMA AskKeepsInv ==
    ASSUME Inv, NEW k, Ask(k)
    PROVE  Inv'
<1>1. PICK t \in TasksAt(k, {"todo"}) :
        job' = [job EXCEPT ![k].task[t].at = "primary", ![k].calls = @ + 1]
  BY DEF Ask
<1> DEFINE task == job[k].task[t]
           new == [task EXCEPT !.at = "primary"]
           c == job[k].calls + 1
           f == job[k].fallbackUsed
<1>2. /\ k \in scenario.kits /\ t \in scenario.tasks /\ t \in Tasks /\ job[k] \in Jobs
      /\ job[k].end = "running" /\ task \in TaskStates /\ task.at # "done" /\ task.text = EngineText
      /\ job[k].calls \in Nat /\ f \in BOOLEAN
  BY TaskFacts
<1>3. /\ new \in TaskStates /\ new.at = "primary" /\ new.attempt = task.attempt /\ new.text = EngineText
      /\ task.attempt \in Nat
  BY <1>2 DEF TaskStates
<1>4. Moved(k, t, new, c, f)
  <2> DEFINE a == [job[k] EXCEPT !.task = [@ EXCEPT ![t] = new]]
             b == [stage |-> job[k].stage, end |-> job[k].end, calls |-> job[k].calls,
                   fallbackUsed |-> job[k].fallbackUsed,
                   task |-> [job[k].task EXCEPT ![t] = new], reports |-> job[k].reports]
             e == [stage |-> job[k].stage, end |-> job[k].end, calls |-> c, fallbackUsed |-> f,
                   task |-> [job[k].task EXCEPT ![t] = new], reports |-> job[k].reports]
  <2>1. job' = [job EXCEPT ![k] = [a EXCEPT !.calls = c]]
    BY <1>1, <1>2 DEF Jobs, Typed, Inv
  <2>2. a = b BY <1>2, JobWithTask
  <2>3. [b EXCEPT !.calls = c] = e BY <1>2
  <2>4. Moved(k, t, new, c, f) <=> job' = [job EXCEPT ![k] = e] BY DEF Moved
  <2> HIDE DEF a, b, c, e
  <2> QED BY <2>1, <2>2, <2>3, <2>4
<1>5. setting' = setting /\ disk' = disk BY DEF Ask
<1>6. Honest(EngineText) BY EngineTextFacts DEF Honest
<1>7. DOMAIN disk' # {} => scenario.cached BY <1>5 DEF Inv, Shared
<1>8. \A key \in DOMAIN disk' : Stays(key) BY <1>5 DEF Stays
<1>9. LetThrough(t, new.text) BY <1>3, EngineTextFacts DEF LetThrough
<1>10. c \in Nat /\ c >= job[k].calls /\ c = job[k].calls + 1 /\ new.attempt >= task.attempt
  BY <1>2, <1>3
<1>11. /\ EngineText \in Texts /\ EngineText.by = Nobody /\ EngineText.from = "engine"
  BY EngineTextFacts
<1> HIDE DEF new, c, f, Inv
<1>12. TaskStep(k, t, new, c, f, EngineText)
  BY <1>2, <1>3, <1>4, <1>5, <1>6, <1>7, <1>8, <1>9, <1>10, <1>11 DEF TaskStep, c, f
<1> QED BY <1>12, TaskStepKeepsInv

\* A provider that is asked has been counted, and the fallback disclosed.
LEMMA AskedIsCounted ==
    ASSUME Inv, NEW k, NEW t \in TasksAt(k, {"primary", "fallback"})
    PROVE  /\ t \in Spent(k) /\ job[k].calls > 0
           /\ job[k].task[t].at = "fallback" => job[k].fallbackUsed
<1>1. /\ k \in scenario.kits /\ t \in scenario.tasks /\ job[k].task[t].at \in {"primary", "fallback"}
      /\ job[k].calls \in Nat
  BY TaskFacts
<1>2. t \in Spent(k) BY <1>1 DEF Spent
<1>3. IsFiniteSet(scenario.tasks) BY ScenarioFacts DEF Inv, Typed
<1>4. IsFiniteSet(Spent(k)) BY <1>3, FS_Subset DEF Spent
<1>5. Cardinality(Spent(k)) \in Nat /\ Cardinality(Spent(k)) # 0
  BY <1>2, <1>4, FS_CardinalityType, FS_EmptySet
<1>6. Cardinality(Spent(k)) <= job[k].calls BY <1>1 DEF Inv, Counted
<1>7. job[k].task[t].at = "fallback" => job[k].fallbackUsed BY <1>1 DEF Inv, Disclosed
<1> QED BY <1>1, <1>2, <1>5, <1>6, <1>7

\* The effect of a text on task t of kit k.
Answered(k, t, text) ==
    LET new == AfterAnswer(t, job[k].task[t], text)
    IN  /\ job' = [job EXCEPT ![k].task[t] = new]
        /\ disk' = Stored(t, Prompt(k, t), text, new)

\* An answer of the provider keeps the invariant.
LEMMA AnswerKeepsInv ==
    ASSUME Inv, NEW k, Answer(k)
    PROVE  Inv'
<1> DEFINE places == {"primary", "fallback"}
<1>0. PICK t \in TasksAt(k, places) : \E defects \in scenario.answers[t] :
        Answered(k, t, [from |-> job[k].task[t].at, by |-> k, defects |-> defects])
  BY DEF Answer, Answered
<1>1. PICK defects \in scenario.answers[t] :
        Answered(k, t, [from |-> job[k].task[t].at, by |-> k, defects |-> defects])
  BY <1>0
<1> DEFINE task == job[k].task[t]
           text == [from |-> task.at, by |-> k, defects |-> defects]
           new == AfterAnswer(t, task, text)
<1>2. /\ job' = [job EXCEPT ![k].task[t] = new] /\ disk' = Stored(t, Prompt(k, t), text, new)
      /\ setting' = setting
  BY <1>1 DEF Answer, Answered
<1>3. /\ k \in scenario.kits /\ t \in scenario.tasks /\ t \in Tasks /\ task \in TaskStates
      /\ task.at # "done" /\ task.text = EngineText /\ task.at \in places
  BY TaskFacts
<1>4. scenario.kits \subseteq Kits /\ Nobody \notin Kits BY ScenarioFacts DEF Inv, Typed
<1>5. defects \subseteq Defects /\ (t \notin Narratives => "clash" \notin defects)
  BY <1>3, ScenarioFacts DEF Inv, Typed
<1>6. /\ text \in Texts /\ text.from = task.at /\ text.by = k /\ text.defects = defects
      /\ text.from # "engine"
  BY <1>3, <1>4, <1>5 DEF Texts, Writers
<1>7. t \in Spent(k) /\ Honest(text)
  <2>1. /\ t \in Spent(k) /\ job[k].calls > 0 /\ (task.at = "fallback" => job[k].fallbackUsed)
    BY AskedIsCounted
  <2> HIDE DEF text, task
  <2> QED BY <1>3, <1>6, <2>1 DEF Honest
<1> HIDE DEF text, task
<1>8. Resolved(t, task, new, text) BY <1>3, <1>5, <1>6, AnswerResolved
<1> HIDE DEF new
<1>9. Shared BY DEF Inv
<1> DEFINE prompt == Prompt(k, t)
<1>10. /\ DOMAIN disk' # {} => scenario.cached
       /\ \A key \in DOMAIN disk' :
             \/ key \in DOMAIN disk /\ disk'[key] = disk[key]
             \/ key = ProfileKey /\ t = "profile" /\ new.at = "done" /\ disk'[key] = new.text
             \/ key = prompt /\ disk'[key] = text /\ text # EngineText
  BY <1>2, <1>3, <1>9, StoredEntries
<1>11. ASSUME NEW key \in DOMAIN disk'
       PROVE  \/ Stays(key)
              \/ key = ProfileKey /\ t = "profile" /\ new.at = "done" /\ disk'[key] = new.text
              \/ key = Prompt(k, t) /\ disk'[key] = text /\ text # EngineText /\ text.by = k
  BY <1>6, <1>10 DEF Stays
<1>12. Resolved(t, job[k].task[t], new, text) BY <1>8 DEF task
<1>13. t \notin Narratives => "clash" \notin text.defects BY <1>5, <1>6
<1> HIDE DEF Inv
<1>14. Reply(k, t, new, text)
  BY <1>2, <1>6, <1>7, <1>10, <1>11, <1>12, <1>13 DEF Reply
<1> QED BY <1>14, ReplyKeepsInv

\* A call that raises leaves the engine's text, or the same task once more.
LEMMA FailKeepsInv ==
    ASSUME Inv, NEW k, NEW places, NEW t \in TasksAt(k, places), "done" \notin places,
           Fail(k, t), setting' = setting
    PROVE  Inv'
<1> DEFINE task == job[k].task[t]
           new == AfterFailure(t, task)
           prompt == Prompt(k, t)
<1>1. job' = [job EXCEPT ![k].task[t] = new] /\ disk' = Stored(t, prompt, EngineText, new)
  BY DEF Fail
<1>2. t \in Tasks /\ task \in TaskStates /\ task.at # "done" /\ task.text = EngineText
  BY TaskFacts
<1>3. Resolved(t, task, new, EngineText) BY <1>2, FailureResolved
<1> HIDE DEF new
<1>4. Shared BY DEF Inv
<1>5. /\ DOMAIN disk' # {} => scenario.cached
      /\ \A key \in DOMAIN disk' :
            \/ key \in DOMAIN disk /\ disk'[key] = disk[key]
            \/ key = ProfileKey /\ t = "profile" /\ new.at = "done" /\ disk'[key] = new.text
            \/ key = prompt /\ disk'[key] = EngineText /\ EngineText # EngineText
  BY <1>1, <1>2, <1>4, StoredEntries
<1>6. ASSUME NEW key \in DOMAIN disk'
      PROVE  \/ Stays(key)
             \/ key = ProfileKey /\ t = "profile" /\ new.at = "done" /\ disk'[key] = new.text
  BY <1>5 DEF Stays
<1>7. Honest(EngineText) BY EngineTextFacts DEF Honest
<1>8. EngineText.defects = {} BY EngineTextFacts
<1> HIDE DEF Inv
<1>9. Reply(k, t, new, EngineText)
  BY <1>1, <1>3, <1>5, <1>6, <1>7, <1>8, EngineTextFacts DEF Reply
<1> QED BY <1>9, ReplyKeepsInv

\* The primary provider fails: the fallback is asked and that is recorded, or
\* the call has failed.
LEMMA PrimaryRaisesKeepsInv ==
    ASSUME Inv, NEW k, PrimaryRaises(k)
    PROVE  Inv'
<1>1. PICK t \in TasksAt(k, {"primary"}) :
        IF scenario.provider = "backed"
        THEN /\ job' = [job EXCEPT ![k].task[t].at = "fallback", ![k].fallbackUsed = TRUE]
             /\ UNCHANGED disk
        ELSE Fail(k, t)
  BY DEF PrimaryRaises
<1>2. setting' = setting BY DEF PrimaryRaises
<1>3. CASE scenario.provider # "backed"
  <2>1. Fail(k, t) BY <1>1, <1>3
  <2> QED BY <1>2, <2>1, FailKeepsInv
<1>4. CASE scenario.provider = "backed"
  <2> DEFINE task == job[k].task[t]
             new == [task EXCEPT !.at = "fallback"]
  <2>1. job' = [job EXCEPT ![k].task[t].at = "fallback", ![k].fallbackUsed = TRUE] /\ disk' = disk
    BY <1>1, <1>4
  <2>2. /\ k \in scenario.kits /\ t \in scenario.tasks /\ t \in Tasks /\ job[k] \in Jobs
        /\ job[k].end = "running" /\ task \in TaskStates /\ task.at # "done" /\ task.text = EngineText
        /\ job[k].calls \in Nat /\ job[k].fallbackUsed \in BOOLEAN
    BY TaskFacts
  <2>3. /\ new \in TaskStates /\ new.at = "fallback" /\ new.attempt = task.attempt
        /\ new.text = EngineText /\ task.attempt \in Nat
    BY <2>2 DEF TaskStates
  <2>4. Moved(k, t, new, job[k].calls, TRUE)
    <3> DEFINE used == TRUE
               a == [job[k] EXCEPT !.task = [@ EXCEPT ![t] = new]]
               b == [stage |-> job[k].stage, end |-> job[k].end, calls |-> job[k].calls,
                     fallbackUsed |-> job[k].fallbackUsed,
                     task |-> [job[k].task EXCEPT ![t] = new], reports |-> job[k].reports]
               e == [stage |-> job[k].stage, end |-> job[k].end, calls |-> job[k].calls,
                     fallbackUsed |-> used,
                     task |-> [job[k].task EXCEPT ![t] = new], reports |-> job[k].reports]
    <3>1. job' = [job EXCEPT ![k] = [a EXCEPT !.fallbackUsed = used]]
      BY <2>1, <2>2 DEF Jobs, Typed, Inv
    <3>2. a = b BY <2>2, JobWithTask
    <3>3. [b EXCEPT !.fallbackUsed = used] = e
      <4> HIDE DEF used
      <4> QED BY JobWithFallback
    <3>4. Moved(k, t, new, job[k].calls, TRUE) <=> job' = [job EXCEPT ![k] = e] BY DEF Moved
    <3> HIDE DEF a, b, e, used
    <3> QED BY <3>1, <3>2, <3>3, <3>4
  <2>5. Honest(EngineText) BY EngineTextFacts DEF Honest
  <2>6. DOMAIN disk' # {} => scenario.cached BY <2>1 DEF Inv, Shared
  <2>7. \A key \in DOMAIN disk' : Stays(key) BY <2>1 DEF Stays
  <2>8. LetThrough(t, new.text) BY <2>3, EngineTextFacts DEF LetThrough
  <2>9. t \in Spent(k)
    <3>1. job[k].task[t].at \in {"primary"} BY TaskFacts
    <3> QED BY <2>2, <3>1 DEF Spent
  <2>10. job[k].calls >= job[k].calls /\ new.attempt >= task.attempt BY <2>2, <2>3
  <2>11. /\ EngineText \in Texts /\ EngineText.by = Nobody /\ EngineText.from = "engine"
    BY EngineTextFacts
  <2>12. TRUE \in BOOLEAN OBVIOUS
  <2> HIDE DEF new, Inv
  <2>13. TaskStep(k, t, new, job[k].calls, TRUE, EngineText)
    BY <1>2, <2>2, <2>3, <2>4, <2>5, <2>6, <2>7, <2>8, <2>9, <2>10, <2>11, <2>12 DEF TaskStep
  <2> QED BY <2>13, TaskStepKeepsInv
<1> QED BY <1>3, <1>4

\* A fallback that raises keeps the invariant.
LEMMA FallbackRaisesKeepsInv ==
    ASSUME Inv, NEW k, FallbackRaises(k)
    PROVE  Inv'
<1>1. PICK t \in TasksAt(k, {"fallback"}) : Fail(k, t) BY DEF FallbackRaises
<1>2. setting' = setting BY DEF FallbackRaises
<1> QED BY <1>1, <1>2, FailKeepsInv

\* An entry a kit can read was not written by itself: for that it is past it.
LEMMA NeverItsOwn ==
    ASSUME Inv, NEW k, NEW t \in TasksAt(k, {"todo"}), Key(k, t) \in DOMAIN disk
    PROVE  /\ disk[Key(k, t)] \in Texts /\ Honest(disk[Key(k, t)])
           /\ disk[Key(k, t)].by # k
           /\ disk[Key(k, t)].by # Nobody => PastIt(Key(k, t), disk[Key(k, t)])
           /\ t \notin Narratives => "clash" \notin disk[Key(k, t)].defects
           /\ scenario.cached
           /\ Key(k, t) = ProfileKey => t = "profile"
           /\ Key(k, t) # ProfileKey => Key(k, t) = Prompt(k, t)
<1> DEFINE key == Key(k, t)
<1>1. /\ k \in scenario.kits /\ t \in scenario.tasks /\ t \in Tasks /\ k # Nobody
      /\ job[k].task[t] \in TaskStates /\ job[k].task[t].at # "done" /\ Prompt(k, t) # ProfileKey
  BY TaskFacts
<1>2. /\ key = ProfileKey => t = "profile"
      /\ key # ProfileKey => key = Prompt(k, t)
  BY <1>1 DEF Key
<1>3. Prompt(k, t).task = t /\ Prompt(k, t).attempt = job[k].task[t].attempt BY DEF Prompt
<1>4. key \in DOMAIN disk OBVIOUS
<1> HIDE DEF key
<1>5. disk[key] \in Texts /\ Honest(disk[key]) BY <1>4 DEF Inv, Typed, Disclosed
<1>6. disk[key].by # Nobody => PastIt(key, disk[key]) BY <1>4 DEF Inv, Consumed
<1>7. disk[key].by # k
  <2> SUFFICES ASSUME disk[key].by = k PROVE FALSE OBVIOUS
  <2>1. PastIt(key, disk[key]) BY <1>1, <1>6
  <2>2. job[k].task[t].attempt \in Nat BY <1>1 DEF TaskStates
  <2>3. CASE key = ProfileKey BY <1>1, <1>2, <2>1, <2>3 DEF PastIt
  <2>4. CASE key # ProfileKey BY <1>1, <1>2, <1>3, <2>1, <2>2, <2>4 DEF PastIt
  <2> QED BY <2>3, <2>4
<1>8. scenario.cached BY <1>4 DEF Inv, Shared
<1>9. key = ProfileKey \/ key.task \notin Narratives => "clash" \notin disk[key].defects
  BY <1>4 DEF Inv, Filtered
<1>10. t \notin Narratives => "clash" \notin disk[key].defects
  <2>1. CASE key = ProfileKey BY <1>9, <2>1
  <2>2. CASE key # ProfileKey BY <1>2, <1>3, <1>9, <2>2
  <2> QED BY <2>1, <2>2
<1> QED BY <1>2, <1>5, <1>6, <1>7, <1>8, <1>10 DEF key

\* A cached answer keeps the invariant.
LEMMA ReuseKeepsInv ==
    ASSUME Inv, NEW k, Reuse(k)
    PROVE  Inv'
<1>1. PICK t \in TasksAt(k, {"todo"}) :
        LET key == Key(k, t)
            task == job[k].task[t]
            new == IF key = ProfileKey THEN Settled(task, disk[key]) ELSE AfterAnswer(t, task, disk[key])
        IN  /\ key \in DOMAIN disk
            /\ job' = [job EXCEPT ![k].task[t] = new]
            /\ disk' = IF key = ProfileKey THEN disk ELSE Stored(t, key, disk[key], new)
  BY DEF Reuse
<1>2. setting' = setting BY DEF Reuse
<1> DEFINE key == Key(k, t)
           task == job[k].task[t]
           text == disk[key]
<1>3. key \in DOMAIN disk BY <1>1
<1>4. /\ text \in Texts /\ Honest(text) /\ text.by # k
      /\ text.by # Nobody => PastIt(key, text)
      /\ t \notin Narratives => "clash" \notin text.defects
      /\ scenario.cached
      /\ key = ProfileKey => t = "profile"
      /\ key # ProfileKey => key = Prompt(k, t)
  BY <1>3, NeverItsOwn
<1>5. /\ k \in scenario.kits /\ t \in scenario.tasks /\ t \in Tasks /\ k # Nobody
      /\ job[k] \in Jobs /\ job[k].end = "running"
      /\ task \in TaskStates /\ task.at # "done" /\ task.text = EngineText
      /\ job[k].calls \in Nat /\ job[k].fallbackUsed \in BOOLEAN
  BY TaskFacts
<1>6. CASE key = ProfileKey
  <2> DEFINE new == Settled(task, text)
  <2>1. job' = [job EXCEPT ![k].task[t] = new] /\ disk' = disk BY <1>1, <1>6
  <2> HIDE DEF text
  <2>2. /\ new \in TaskStates /\ new.at = "done" /\ new.text = text /\ new.attempt = task.attempt
        /\ task.attempt \in Nat
    BY <1>4, <1>5 DEF Settled, TaskStates
  <2>3. LetThrough(t, text) BY <1>4, <1>6 DEF LetThrough, Narratives
  <2>4. Moved(k, t, new, job[k].calls, job[k].fallbackUsed)
    <3> DEFINE a == [job[k] EXCEPT !.task = [@ EXCEPT ![t] = new]]
               b == [stage |-> job[k].stage, end |-> job[k].end, calls |-> job[k].calls,
                     fallbackUsed |-> job[k].fallbackUsed,
                     task |-> [job[k].task EXCEPT ![t] = new], reports |-> job[k].reports]
    <3>1. job' = [job EXCEPT ![k] = a] BY <2>1
    <3>2. a = b BY <1>5, JobWithTask
    <3>3. Moved(k, t, new, job[k].calls, job[k].fallbackUsed) <=> job' = [job EXCEPT ![k] = b]
      BY DEF Moved
    <3> HIDE DEF a, b
    <3> QED BY <3>1, <3>2, <3>3
  <2>5. \A any \in DOMAIN disk' : Stays(any) BY <2>1 DEF Stays
  <2>6. job[k].calls >= job[k].calls /\ new.attempt >= task.attempt BY <1>5, <2>2
  <2> HIDE DEF new, key, Inv
  <2>7. TaskStep(k, t, new, job[k].calls, job[k].fallbackUsed, text)
    BY <1>2, <1>4, <1>5, <2>2, <2>3, <2>4, <2>5, <2>6 DEF TaskStep
  <2> QED BY <2>7, TaskStepKeepsInv
<1>7. CASE key # ProfileKey
  <2> DEFINE new == AfterAnswer(t, task, text)
             prompt == Prompt(k, t)
  <2>1. /\ job' = [job EXCEPT ![k].task[t] = new]
        /\ key = prompt /\ disk' = Stored(t, prompt, text, new)
    BY <1>1, <1>4, <1>7
  <2>2. Resolved(t, task, new, text) BY <1>4, <1>5, AnswerResolved
  <2> HIDE DEF new
  <2>3. Shared BY DEF Inv
  <2>4. /\ DOMAIN disk' # {} => scenario.cached
        /\ \A any \in DOMAIN disk' :
              \/ any \in DOMAIN disk /\ disk'[any] = disk[any]
              \/ any = ProfileKey /\ t = "profile" /\ new.at = "done" /\ disk'[any] = new.text
              \/ any = prompt /\ disk'[any] = text /\ text # EngineText
    BY <1>5, <2>1, <2>3, StoredEntries
  <2>5. ASSUME NEW any \in DOMAIN disk'
        PROVE  \/ Stays(any)
               \/ any = ProfileKey /\ t = "profile" /\ new.at = "done" /\ disk'[any] = new.text
    BY <1>3, <2>1, <2>4 DEF Stays
  <2>6. PastIt(Prompt(k, t), text) \/ text.by = Nobody BY <1>4, <2>1
  <2>7. Resolved(t, job[k].task[t], new, text) BY <2>2
  <2> HIDE DEF text, key, task, Inv
  <2>8. Reply(k, t, new, text)
    BY <1>2, <1>4, <2>1, <2>4, <2>5, <2>6, <2>7 DEF Reply
  <2> QED BY <2>8, ReplyKeepsInv
<1> QED BY <1>6, <1>7

-----------------------------------------------------------------------------
(* The actions on a kit *)

\* Kit k gets another stage, end or reports; its tasks and counters stay.
KitStep(k) ==
    /\ setting' = setting /\ disk' = disk /\ k \in scenario.kits
    /\ job' \in [scenario.kits -> Jobs]
    /\ \A other \in scenario.kits :
          /\ job'[other].task = job[other].task /\ job'[other].calls = job[other].calls
          /\ job'[other].fallbackUsed = job[other].fallbackUsed
          /\ other # k => job'[other] = job[other]

\* What is said of tasks and cache does not depend on stages, ends and reports.
LEMMA KitStepKeepsTasks ==
    ASSUME Inv, NEW k, KitStep(k)
    PROVE  Typed' /\ Pending' /\ Counted' /\ Disclosed' /\ Shared' /\ Consumed' /\ Filtered'
<1>1. setting' = setting /\ disk' = disk /\ scenario' = scenario BY DEF KitStep, scenario
<1>2. \A other \in scenario.kits :
         /\ job'[other].task = job[other].task /\ job'[other].calls = job[other].calls
         /\ job'[other].fallbackUsed = job[other].fallbackUsed
  BY DEF KitStep
<1>3. Jobs' = Jobs BY <1>1 DEF Jobs
<1>4. Typed'
  <2>1. job' \in [scenario.kits -> Jobs] BY DEF KitStep
  <2> QED BY <1>1, <1>3, <2>1 DEF Inv, Typed
<1>5. Pending' BY <1>1, <1>2 DEF Inv, Pending
<1>6. Counted'
  <2>1. \A other \in scenario.kits : Spent(other)' = Spent(other) BY <1>1, <1>2 DEF Spent
  <2> QED BY <1>1, <1>2, <2>1 DEF Inv, Counted
<1>7. Disclosed'
  <2>1. \A text : Honest(text)' <=> Honest(text) BY <1>1, <1>2 DEF Honest
  <2> QED BY <1>1, <1>2, <2>1 DEF Inv, Disclosed
<1>8. Shared' BY <1>1, <1>2 DEF Inv, Shared
<1>9. Consumed'
  <2>1. ASSUME NEW key \in DOMAIN disk, disk[key].by # Nobody PROVE PastIt(key, disk[key])'
    <3>1. PastIt(key, disk[key]) /\ disk[key].by \in scenario.kits
      BY <2>1 DEF Inv, Consumed, Disclosed, Honest
    <3> QED BY <1>1, <1>2, <3>1 DEF PastIt
  <2> QED BY <1>1, <2>1 DEF Consumed
<1>10. Filtered' BY <1>1, <1>2 DEF Inv, Filtered
<1> QED BY <1>4, <1>5, <1>6, <1>7, <1>8, <1>9, <1>10

\* The text of a task, asked for or not.
LEMMA TextFacts ==
    ASSUME Inv, NEW k \in scenario.kits, NEW t
    PROVE  Text(k, t) \in Texts /\ LetThrough(t, Text(k, t))
<1>1. CASE t \in scenario.tasks
  <2>1. Text(k, t) = job[k].task[t].text BY <1>1 DEF Text
  <2>2. job[k] \in Jobs BY DEF Inv, Typed
  <2>3. job[k].task[t] \in TaskStates BY <1>1, <2>2 DEF Jobs
  <2>4. Text(k, t) \in Texts BY <2>1, <2>3 DEF TaskStates
  <2>5. LetThrough(t, job[k].task[t].text) BY <1>1 DEF Inv, Filtered
  <2> QED BY <2>1, <2>4, <2>5
<1>2. CASE t \notin scenario.tasks
  <2>1. Text(k, t) = EngineText BY <1>2 DEF Text
  <2> QED BY <2>1, EngineTextFacts DEF LetThrough
<1> QED BY <1>1, <1>2

\* Grounding leaves nothing unsupported but what cannot be removed.
LEMMA GroundedSupported ==
    ASSUME NEW text \in SUBSET Defects, "stuck" \notin text, "clash" \notin text
    PROVE  Grounded(text) \in SUBSET Defects /\ Grounded(text) \cap Unsupported = {}
BY DEF Grounded, Unsupported, Removable

\* An artifact that is not withheld has nothing unsupported in it.
LEMMA NarrativeSupported ==
    ASSUME NEW kind \in Narratives, NEW prose \in SUBSET Defects, NEW own \in SUBSET Defects,
           NEW structure \in SUBSET Defects
    PROVE  LET built == Narrative(kind, prose, own, structure)
           IN  /\ built.fatal \in BOOLEAN /\ built.text \in SUBSET Defects
               /\ ~built.fatal => built.text \cap Unsupported = {}
<1> DEFINE built == Narrative(kind, prose, own, structure)
<1>1. CASE kind = "job_fit"
  <2> DEFINE errors == "clash" \in prose
             final == IF errors THEN own ELSE prose
             fatal == GroundFatal(prose) \/ "clash" \in final \/ (errors /\ GroundFatal(own))
  <2>1. /\ built.fatal = fatal
        /\ built.text = IF fatal THEN {} ELSE Grounded(final)
    BY <1>1 DEF Narrative, JobFit, Artifact
  <2>2. ~fatal => "stuck" \notin final /\ "clash" \notin final /\ final \in SUBSET Defects
    BY DEF GroundFatal
  <2> HIDE DEF built, final
  <2>3. ~fatal => Grounded(final) \in SUBSET Defects /\ Grounded(final) \cap Unsupported = {}
    BY <2>2, GroundedSupported
  <2>4. fatal \in BOOLEAN BY DEF GroundFatal
  <2> HIDE DEF fatal
  <2> QED BY <2>1, <2>3, <2>4 DEF built
<1>2. CASE kind = "interview_prep"
  <2> DEFINE errors == "clash" \in prose \cup structure
             replaced == errors \/ GroundFatal(prose)
             final == IF replaced THEN own ELSE prose
             fatal == \/ GroundFatal(structure)
                      \/ "clash" \in final \cup structure
                      \/ replaced /\ GroundFatal(own)
  <2>1. /\ built.fatal = fatal
        /\ built.text = IF fatal THEN {} ELSE Grounded(final \cup structure)
    BY <1>2 DEF Narrative, InterviewPrep, Artifact
  <2>2. ~fatal => /\ "stuck" \notin final \cup structure /\ "clash" \notin final \cup structure
                  /\ final \cup structure \in SUBSET Defects
    BY DEF GroundFatal
  <2>4. fatal \in BOOLEAN BY DEF GroundFatal
  <2> HIDE DEF built, final, fatal
  <2>3. ~fatal => /\ Grounded(final \cup structure) \in SUBSET Defects
                  /\ Grounded(final \cup structure) \cap Unsupported = {}
    BY <2>2, GroundedSupported
  <2> QED BY <2>1, <2>3, <2>4 DEF built
<1>3. CASE kind = "linkedin_outreach"
  <2> DEFINE errors == "clash" \in prose \cup structure \/ "length" \in prose
             replaced == errors \/ GroundFatal(prose)
             final == IF replaced THEN own ELSE prose
             fatal == \/ GroundFatal(structure) \/ (Repaired(structure) /\ "thin" \in structure)
                      \/ "clash" \in final \cup structure \/ "length" \in final
                      \/ replaced /\ GroundFatal(own)
  <2>1. /\ built.fatal = fatal
        /\ built.text = IF fatal THEN {} ELSE Grounded(final \cup structure)
    BY <1>3 DEF Narrative, LinkedInOutreach, Artifact
  <2>2. ~fatal => /\ "stuck" \notin final \cup structure /\ "clash" \notin final \cup structure
                  /\ final \cup structure \in SUBSET Defects
    BY DEF GroundFatal
  <2>4. fatal \in BOOLEAN BY DEF GroundFatal
  <2> HIDE DEF built, final, fatal
  <2>3. ~fatal => /\ Grounded(final \cup structure) \in SUBSET Defects
                  /\ Grounded(final \cup structure) \cap Unsupported = {}
    BY <2>2, GroundedSupported
  <2> QED BY <2>1, <2>3, <2>4 DEF built
<1> QED BY <1>1, <1>2, <1>3 DEF Narratives

\* What is withheld because of a provider's prose would be withheld without it.
LEMMA NarrativeNotLost ==
    ASSUME NEW kind \in Narratives, NEW prose, NEW own, NEW structure,
           Narrative(kind, prose, own, structure).fatal
    PROVE  \/ Narrative(kind, own, own, structure).fatal
           \/ kind = "job_fit" /\ GroundFatal(prose)
<1>1. CASE kind = "job_fit"
  <2>1. /\ JobFit(prose, own).fatal => GroundFatal(prose) \/ JobFit(own, own).fatal
    BY DEF JobFit, Artifact, GroundFatal
  <2> QED BY <1>1, <2>1 DEF Narrative
<1>2. CASE kind = "interview_prep"
  <2>1. InterviewPrep(prose, own, structure).fatal => InterviewPrep(own, own, structure).fatal
    BY DEF InterviewPrep, Artifact, GroundFatal
  <2> QED BY <1>2, <2>1 DEF Narrative
<1>3. CASE kind = "linkedin_outreach"
  <2>1. LinkedInOutreach(prose, own, structure).fatal => LinkedInOutreach(own, own, structure).fatal
    BY DEF LinkedInOutreach, Artifact, GroundFatal
  <2> QED BY <1>3, <2>1 DEF Narrative
<1> QED BY <1>1, <1>2, <1>3 DEF Narratives

\* The prose of a narrative, of the provider or the engine's own.
LEMMA ProseFacts ==
    ASSUME Inv, NEW k \in scenario.kits, NEW kind \in scenario.asked
    PROVE  /\ Prose(k, kind) \in SUBSET Defects /\ scenario.own[kind] \in SUBSET Defects
           /\ scenario.structure[kind] \in SUBSET Defects /\ kind \in Delivery!Kinds
<1>1. /\ kind \in Delivery!Kinds /\ scenario.own \in [Delivery!Kinds -> SUBSET Defects]
      /\ scenario.structure \in [Delivery!Kinds -> SUBSET Defects]
  BY ScenarioFacts DEF Inv, Typed
<1>2. Text(k, kind).defects \in SUBSET Defects
  <2>1. Text(k, kind) \in Texts BY TextFacts
  <2> QED BY <2>1 DEF Texts
<1> QED BY <1>1, <1>2 DEF Prose

\* The same for what grounding makes of the other documents.
LEMMA BuiltSupported ==
    ASSUME Inv, NEW k \in scenario.kits, NEW kind \in scenario.asked, NEW kept
    PROVE  /\ Built(k, kind, kept).fatal \in BOOLEAN
           /\ Built(k, kind, kept).text \in SUBSET Defects
           /\ ~Built(k, kind, kept).fatal => Built(k, kind, kept).text \cap Unsupported = {}
           /\ kind \in Narratives =>
                 Built(k, kind, kept) = Narrative(kind, Prose(k, kind), scenario.own[kind], scenario.structure[kind])
<1>1. \A t : /\ Text(k, t).defects \in SUBSET Defects
             /\ t = "headline" => Text(k, t).defects = {}
             /\ t \notin Narratives => "clash" \notin Text(k, t).defects
  <2> TAKE t
  <2>1. Text(k, t) \in Texts /\ LetThrough(t, Text(k, t)) BY TextFacts
  <2> QED BY <2>1 DEF Texts, LetThrough
<1>2. kind \in Delivery!Kinds BY ProseFacts
<1> HIDE DEF Inv
<1>3. CASE kind = "resume"
  <2> DEFINE summary == IF "summary" \in kept THEN Text(k, "summary").defects ELSE {}
             bullets == IF "bullets" \in kept THEN Text(k, "bullets").defects ELSE {}
             dropped == IF "summary" \in kept THEN {} ELSE Text(k, "summary").defects
             both == summary \cup bullets
             fatal == GroundFatal(both)
  <2>1. Built(k, kind, kept) = Resume(Text(k, "headline").defects, summary, bullets, dropped)
    BY <1>3 DEF Built
  <2>2. Text(k, "headline").defects = {} BY <1>1
  <2>3. both \in SUBSET Defects /\ "clash" \notin both BY <1>1 DEF Narratives
  <2> HIDE DEF summary, bullets, dropped
  <2>4. Built(k, kind, kept) = Artifact(fatal, Repaired(both \cup dropped), {} \cup Grounded(both))
    BY <2>1, <2>2 DEF Resume
  <2>5. fatal \in BOOLEAN BY DEF GroundFatal
  <2>6. ~fatal => Grounded(both) \in SUBSET Defects /\ Grounded(both) \cap Unsupported = {}
    <3>1. ~fatal => "stuck" \notin both BY DEF GroundFatal
    <3> HIDE DEF both, fatal
    <3> QED BY <2>3, <3>1, GroundedSupported
  <2> HIDE DEF both, fatal
  <2> QED BY <1>3, <2>4, <2>5, <2>6 DEF Artifact, Narratives
<1>4. CASE kind = "cover_letter"
  <2> DEFINE body == Text(k, "cover_letter").defects
             fatal == GroundFatal(body) \/ (Repaired(body) /\ "thin" \in body)
  <2>1. Built(k, kind, kept) = Artifact(fatal, Repaired(body), Grounded(body))
    BY <1>4 DEF Built, CoverLetter
  <2>2. body \in SUBSET Defects /\ "clash" \notin body BY <1>1 DEF Narratives
  <2>3. fatal \in BOOLEAN BY DEF GroundFatal
  <2>4. ~fatal => Grounded(body) \in SUBSET Defects /\ Grounded(body) \cap Unsupported = {}
    <3>1. ~fatal => "stuck" \notin body BY DEF GroundFatal
    <3> HIDE DEF body, fatal
    <3> QED BY <2>2, <3>1, GroundedSupported
  <2> HIDE DEF body, fatal
  <2> QED BY <1>4, <2>1, <2>3, <2>4 DEF Artifact, Narratives
<1>5. CASE kind = "answers"
  <2> DEFINE body == Text(k, "answers").defects
             fatal == GroundFatal(body)
  <2>1. Built(k, kind, kept) = Artifact(fatal, Repaired(body), Grounded(body))
    BY <1>5 DEF Built, Answers
  <2>2. body \in SUBSET Defects /\ "clash" \notin body BY <1>1 DEF Narratives
  <2>3. fatal \in BOOLEAN BY DEF GroundFatal
  <2>4. ~fatal => Grounded(body) \in SUBSET Defects /\ Grounded(body) \cap Unsupported = {}
    <3>1. ~fatal => "stuck" \notin body BY DEF GroundFatal
    <3> HIDE DEF body, fatal
    <3> QED BY <2>2, <3>1, GroundedSupported
  <2> HIDE DEF body, fatal
  <2> QED BY <1>5, <2>1, <2>3, <2>4 DEF Artifact, Narratives
<1>6. CASE kind \in Narratives
  <2>1. Built(k, kind, kept) = Narrative(kind, Prose(k, kind), scenario.own[kind], scenario.structure[kind])
    BY <1>6 DEF Built, Narratives
  <2>2. /\ Prose(k, kind) \in SUBSET Defects /\ scenario.own[kind] \in SUBSET Defects
        /\ scenario.structure[kind] \in SUBSET Defects
    BY ProseFacts
  <2> DEFINE n == Narrative(kind, Prose(k, kind), scenario.own[kind], scenario.structure[kind])
  <2>3. /\ n.fatal \in BOOLEAN /\ n.text \in SUBSET Defects
        /\ ~n.fatal => n.text \cap Unsupported = {}
    BY <1>6, <2>2, NarrativeSupported
  <2>4. Built(k, kind, kept) = n BY <2>1
  <2> HIDE DEF n
  <2>5. /\ Built(k, kind, kept).fatal \in BOOLEAN /\ Built(k, kind, kept).text \in SUBSET Defects
        /\ ~Built(k, kind, kept).fatal => Built(k, kind, kept).text \cap Unsupported = {}
    BY <2>3, <2>4
  <2> QED BY <2>1, <2>5
<1>7. kind \in {"resume", "cover_letter", "answers"} \cup Narratives
  BY <1>2 DEF Delivery!Kinds, Delivery!Primary, Narratives
<1> QED BY <1>3, <1>4, <1>5, <1>6, <1>7

\* The next stage is a later one.
LEMMA AfterIsLater ==
    ASSUME NEW stage \in Nat
    PROVE  After(stage) \in Nat /\ (stage \in DOMAIN Stages => After(stage) > stage)
<1> DEFINE S == {n \in (stage + 1)..Len(Stages) : Stages[n] \cap scenario.tasks # {}} \cup {Len(Stages) + 1}
<1>1. Len(Stages) = 7 /\ DOMAIN Stages = 1..7 BY TasksListed
<1>2. S \in SUBSET Nat /\ S # {} /\ \A n \in S : n >= stage + 1 \/ n = 8 BY <1>1
<1>3. After(stage) = Min(S) BY DEF After
<1> HIDE DEF S
<1>4. After(stage) \in S BY <1>2, <1>3, MinIsLeast
<1>5. /\ After(stage) \in Nat /\ (After(stage) >= stage + 1 \/ After(stage) = 8)
  BY <1>2, <1>4
<1>6. stage \in DOMAIN Stages => stage < 8 BY <1>1
<1> HIDE DEF After
<1> QED BY <1>5, <1>6

\* A step of a kit that is not delivered by it leaves the deliveries alone.
LEMMA DeliveriesStay ==
    ASSUME Inv, NEW k, KitStep(k), job[k].end # "delivered", job'[k].end # "delivered"
    PROVE  DeliveredSupported' /\ NarrativeSurvives'
<1>1. /\ scenario' = scenario /\ setting' = setting /\ k \in scenario.kits
      /\ DOMAIN job = scenario.kits /\ DOMAIN job' = scenario.kits
      /\ \A other \in scenario.kits : other # k => job'[other] = job[other]
  BY DEF KitStep, Inv, Typed, scenario
<1>2. /\ DeliveredKits' = DeliveredKits /\ k \notin DeliveredKits /\ DeliveredKits \subseteq scenario.kits
  BY <1>1 DEF DeliveredKits
<1>3. \A other \in DeliveredKits : job'[other] = job[other] BY <1>1, <1>2
<1>4. \A other \in DeliveredKits, kind \in scenario.asked : Prose(other, kind)' = Prose(other, kind)
  BY <1>1, <1>3 DEF Prose, Text
<1>5. DeliveredSupported' BY <1>1, <1>2, <1>3 DEF Inv, DeliveredSupported
<1>6. NarrativeSurvives' BY <1>1, <1>2, <1>3, <1>4 DEF Inv, NarrativeSurvives
<1> QED BY <1>5, <1>6

\* The beginning of a generation keeps the invariant.
LEMMA BeginKeepsInv ==
    ASSUME Inv, NEW k, Begin(k)
    PROVE  Inv'
<1>1. /\ k \in scenario.kits /\ job[k].stage = 0 /\ job' = [job EXCEPT ![k].stage = 1]
      /\ setting' = setting /\ disk' = disk
  BY DEF Begin
<1>2. job \in [scenario.kits -> Jobs] /\ job[k] \in Jobs BY <1>1 DEF Inv, Typed
<1> DEFINE j == [job[k] EXCEPT !.stage = 1]
<1>3. /\ j \in Jobs /\ j.stage = 1 /\ j.end = job[k].end /\ j.task = job[k].task /\ j.calls = job[k].calls
      /\ j.fallbackUsed = job[k].fallbackUsed /\ j.reports = job[k].reports
  BY <1>2 DEF Jobs
<1>4. job' = [job EXCEPT ![k] = j] BY <1>1
<1> HIDE DEF j
<1>5. /\ job' \in [scenario.kits -> Jobs] /\ job'[k] = j
      /\ \A other \in scenario.kits : other # k => job'[other] = job[other]
  BY <1>1, <1>2, <1>3, <1>4
<1>6. KitStep(k) BY <1>1, <1>3, <1>5 DEF KitStep
<1>7. scenario' = scenario /\ Floor' = Floor BY <1>1 DEF scenario, Floor, Profiles, HeuristicProfile, ProviderProfile
<1>8. SuspectRefusedEarly'
  <2>1. DOMAIN job = scenario.kits /\ DOMAIN job' = scenario.kits BY <1>2, <1>5
  <2> QED BY <1>1, <1>3, <1>5, <1>7, <2>1 DEF Inv, SuspectRefusedEarly
<1>9. DeliveredSupported' /\ NarrativeSurvives'
  <2>1. scenario' = scenario /\ DOMAIN job = scenario.kits /\ DOMAIN job' = scenario.kits
    BY <1>2, <1>5, <1>7
  <2>2. \A other \in scenario.kits :
          /\ job'[other].end = job[other].end /\ job'[other].reports = job[other].reports
          /\ job'[other].task = job[other].task
    BY <1>3, <1>5
  <2>3. DeliveredKits' = DeliveredKits /\ DeliveredKits \subseteq scenario.kits
    BY <2>1, <2>2 DEF DeliveredKits
  <2>4. \A other \in DeliveredKits, kind \in scenario.asked : Prose(other, kind)' = Prose(other, kind)
    BY <2>1, <2>2, <2>3 DEF Prose, Text
  <2>5. DeliveredSupported' BY <2>1, <2>2, <2>3 DEF Inv, DeliveredSupported
  <2>6. NarrativeSurvives' BY <2>1, <2>2, <2>3, <2>4 DEF Inv, NarrativeSurvives
  <2> QED BY <2>5, <2>6
<1>10. Typed' /\ Pending' /\ Counted' /\ Disclosed' /\ Shared' /\ Consumed' /\ Filtered'
  BY <1>6, KitStepKeepsTasks
<1> QED BY <1>8, <1>9, <1>10 DEF Inv

\* The end of a stage: what is suspect has been found out in the first.
LEMMA EndStageKeepsInv ==
    ASSUME Inv, NEW k, EndStage(k)
    PROVE  Inv'
<1> DEFINE next == After(job[k].stage)
           suspect == [job EXCEPT ![k].end = "suspect"]
           onwards == [job EXCEPT ![k].stage = next]
<1>1. /\ k \in scenario.kits /\ job[k].end = "running" /\ job[k].stage \in DOMAIN Stages
      /\ setting' = setting /\ disk' = disk
      /\ \/ job' = suspect
         \/ Suspect(scenario.resume, Floor) /\ ~(job[k].stage = 1 /\ Suspect(scenario.resume, Profile(k)))
         \/ ~(job[k].stage = 1 /\ Suspect(scenario.resume, Profile(k))) /\ job' = onwards
  BY DEF EndStage
<1>2. job \in [scenario.kits -> Jobs] /\ job[k] \in Jobs /\ Typed BY <1>1 DEF Inv, Typed
<1>3. Suspect(scenario.resume, Profile(k)) <=> Suspect(scenario.resume, Floor)
  BY <1>1, <1>2, SuspectWithoutProvider
<1>4. job[k].stage \in Nat /\ next \in Nat /\ next > job[k].stage /\ job[k].stage >= 1
  <2>1. job[k].stage \in Nat BY <1>2 DEF Jobs
  <2>2. DOMAIN Stages = 1..7 BY TasksListed
  <2> QED BY <1>1, <2>1, <2>2, AfterIsLater
<1>5. DOMAIN job = scenario.kits BY <1>2
<1>6. job[k].stage > 1 => ~Suspect(scenario.resume, Floor)
  BY <1>1, <1>5 DEF Inv, SuspectRefusedEarly
<1>7. \/ job' = suspect
      \/ ~Suspect(scenario.resume, Floor) /\ job' = onwards
  BY <1>1, <1>3, <1>4, <1>6
<1> HIDE DEF next
<1>8. scenario' = scenario /\ Floor' = Floor
  BY <1>1 DEF scenario, Floor, Profiles, HeuristicProfile, ProviderProfile
<1>9. CASE job' = suspect
  <2> DEFINE j == [job[k] EXCEPT !.end = "suspect"]
  <2>1. /\ j \in Jobs /\ j.stage = job[k].stage /\ j.end = "suspect" /\ j.task = job[k].task
        /\ j.calls = job[k].calls /\ j.fallbackUsed = job[k].fallbackUsed
    BY <1>2 DEF Jobs, Ends
  <2>2. job' = [job EXCEPT ![k] = j] BY <1>9
  <2> HIDE DEF j
  <2>3. /\ job' \in [scenario.kits -> Jobs] /\ job'[k] = j
        /\ \A other \in scenario.kits : other # k => job'[other] = job[other]
    BY <1>1, <1>2, <2>1, <2>2
  <2>4. KitStep(k) BY <1>1, <2>1, <2>3 DEF KitStep
  <2>5. SuspectRefusedEarly'
    <3>1. DOMAIN job' = scenario.kits BY <2>3
    <3> QED BY <1>1, <1>5, <1>8, <2>1, <2>3, <3>1 DEF Inv, SuspectRefusedEarly
  <2>6. DeliveredSupported' /\ NarrativeSurvives' BY <1>1, <2>1, <2>3, <2>4, DeliveriesStay
  <2>7. Typed' /\ Pending' /\ Counted' /\ Disclosed' /\ Shared' /\ Consumed' /\ Filtered'
    BY <2>4, KitStepKeepsTasks
  <2> QED BY <2>5, <2>6, <2>7 DEF Inv
<1>10. CASE ~Suspect(scenario.resume, Floor) /\ job' = onwards
  <2> DEFINE j == [job[k] EXCEPT !.stage = next]
  <2>1. /\ j \in Jobs /\ j.stage = next /\ j.end = job[k].end /\ j.task = job[k].task
        /\ j.calls = job[k].calls /\ j.fallbackUsed = job[k].fallbackUsed
    BY <1>2, <1>4 DEF Jobs
  <2>2. job' = [job EXCEPT ![k] = j] BY <1>10
  <2> HIDE DEF j
  <2>3. /\ job' \in [scenario.kits -> Jobs] /\ job'[k] = j
        /\ \A other \in scenario.kits : other # k => job'[other] = job[other]
    BY <1>1, <1>2, <2>1, <2>2
  <2>4. KitStep(k) BY <1>1, <2>1, <2>3 DEF KitStep
  <2>5. SuspectRefusedEarly'
    <3>1. DOMAIN job' = scenario.kits BY <2>3
    <3> QED BY <1>1, <1>5, <1>8, <1>10, <2>1, <2>3, <3>1 DEF Inv, SuspectRefusedEarly
  <2>6. DeliveredSupported' /\ NarrativeSurvives' BY <1>1, <2>1, <2>3, <2>4, DeliveriesStay
  <2>7. Typed' /\ Pending' /\ Counted' /\ Disclosed' /\ Shared' /\ Consumed' /\ Filtered'
    BY <2>4, KitStepKeepsTasks
  <2> QED BY <2>5, <2>6, <2>7 DEF Inv
<1> QED BY <1>7, <1>9, <1>10

\* A report says whether the artifact was withheld.
LEMMA ReportFacts ==
    ASSUME NEW fatal \in BOOLEAN, NEW repaired
    PROVE  LET report == Delivery!Report(TRUE, Delivery!ValidationStatus(fatal, repaired), "generated")
           IN  /\ report \in Delivery!DocumentStates
               /\ report \in Delivery!Delivered => ~fatal
               /\ report = "failed" => fatal
BY DEF Delivery!Report, Delivery!ValidationStatus, Delivery!DocumentStates, Delivery!Delivered

\* The documents of a kit and their reports are consistent when they are made.
LEMMA AssembleKeepsInv ==
    ASSUME Inv, NEW k, Assemble(k)
    PROVE  Inv'
<1> DEFINE report(kept, kind) ==
             Delivery!Report(TRUE, Delivery!ValidationStatus(Built(k, kind, kept).fatal,
                                                             Built(k, kind, kept).repaired), "generated")
           made(kept) == [kind \in scenario.asked |-> Built(k, kind, kept)]
           said(kept) == [kind \in scenario.asked |->
                            [report |-> Delivery!Report(TRUE, Delivery!ValidationStatus(made(kept)[kind].fatal,
                                                                 made(kept)[kind].repaired), "generated"),
                             text |-> made(kept)[kind].text]]
<1>0. PICK kept : job' = [job EXCEPT ![k].end = "delivered", ![k].reports = said(kept)]
  BY DEF Assemble
<1>1. job' = [job EXCEPT ![k].end = "delivered",
                        ![k].reports = [kind \in scenario.asked |->
                            [report |-> report(kept, kind), text |-> Built(k, kind, kept).text]]]
  <2> DEFINE all == [kind \in scenario.asked |->
                       [report |-> report(kept, kind), text |-> Built(k, kind, kept).text]]
  <2>1. \A kind \in scenario.asked : made(kept)[kind] = Built(k, kind, kept) OBVIOUS
  <2> HIDE DEF made
  <2>2. said(kept) = all BY <2>1
  <2> HIDE DEF said, all
  <2>3. job' = [job EXCEPT ![k].end = "delivered", ![k].reports = all] BY <1>0, <2>2
  <2> QED BY <2>3 DEF all
<1> DEFINE reports == [kind \in scenario.asked |->
                         [report |-> report(kept, kind), text |-> Built(k, kind, kept).text]]
<1>2. /\ k \in scenario.kits /\ job[k].end = "running" /\ setting' = setting /\ disk' = disk
      /\ scenario' = scenario
  BY DEF Assemble, scenario
<1>3. job \in [scenario.kits -> Jobs] /\ job[k] \in Jobs BY <1>2 DEF Inv, Typed
<1>4. ASSUME NEW kind \in scenario.asked
      PROVE  /\ reports[kind].report \in Delivery!DocumentStates
             /\ reports[kind].text \in SUBSET Defects
             /\ reports[kind].report \in Delivery!Delivered => reports[kind].text \cap Unsupported = {}
             /\ reports[kind].report = "failed" /\ kind \in Narratives =>
                   \/ Narrative(kind, scenario.own[kind], scenario.own[kind], scenario.structure[kind]).fatal
                   \/ kind = "job_fit" /\ GroundFatal(Prose(k, kind))
             /\ reports[kind] = [report |-> reports[kind].report, text |-> reports[kind].text]
  <2> DEFINE built == Built(k, kind, kept)
             r == report(kept, kind)
  <2>1. /\ built.fatal \in BOOLEAN /\ built.text \in SUBSET Defects
        /\ ~built.fatal => built.text \cap Unsupported = {}
        /\ kind \in Narratives =>
              built = Narrative(kind, Prose(k, kind), scenario.own[kind], scenario.structure[kind])
    BY <1>2, BuiltSupported
  <2>2. reports[kind].report = r /\ reports[kind].text = built.text OBVIOUS
  <2>3. reports[kind] = [report |-> reports[kind].report, text |-> reports[kind].text] OBVIOUS
  <2> HIDE DEF built
  <2>4. /\ r \in Delivery!DocumentStates
        /\ r \in Delivery!Delivered => ~built.fatal
        /\ r = "failed" => built.fatal
    BY <2>1, ReportFacts DEF built
  <2>5. kind \in Narratives /\ built.fatal =>
          \/ Narrative(kind, scenario.own[kind], scenario.own[kind], scenario.structure[kind]).fatal
          \/ kind = "job_fit" /\ GroundFatal(Prose(k, kind))
    BY <2>1, NarrativeNotLost
  <2> HIDE DEF r, reports
  <2> QED BY <2>1, <2>2, <2>3, <2>4, <2>5
<1>5. DOMAIN reports = scenario.asked OBVIOUS
<1> DEFINE R == [report : Delivery!DocumentStates, text : SUBSET Defects]
<1>6. reports \in [scenario.asked -> R]
  <2>1. reports = [kind \in scenario.asked |-> reports[kind]] OBVIOUS
  <2> HIDE DEF reports
  <2>2. ASSUME NEW kind \in scenario.asked PROVE reports[kind] \in R
    <3> DEFINE a == reports[kind].report
               b == reports[kind].text
    <3>1. a \in Delivery!DocumentStates /\ b \in SUBSET Defects /\ reports[kind] = [report |-> a, text |-> b]
      BY <1>4
    <3> HIDE DEF a, b
    <3> QED BY <3>1
  <2> HIDE DEF R
  <2> QED BY <2>1, <2>2
<1> DEFINE j == [[job[k] EXCEPT !.end = "delivered"] EXCEPT !.reports = reports]
<1>7. job' = [job EXCEPT ![k] = j] BY <1>1, <1>3 DEF Jobs
<1> HIDE DEF reports, report
<1>8. /\ j \in Jobs /\ j.stage = job[k].stage /\ j.end = "delivered" /\ j.task = job[k].task
      /\ j.calls = job[k].calls /\ j.fallbackUsed = job[k].fallbackUsed /\ j.reports = reports
  BY <1>3, <1>6 DEF Jobs, Ends
<1> HIDE DEF j
<1>9. /\ job' \in [scenario.kits -> Jobs] /\ job'[k] = j
      /\ \A other \in scenario.kits : other # k => job'[other] = job[other]
  BY <1>2, <1>3, <1>7, <1>8
<1>10. KitStep(k) BY <1>2, <1>8, <1>9 DEF KitStep
<1>11. Floor' = Floor BY <1>2 DEF Floor, Profiles, HeuristicProfile, ProviderProfile
<1>12. DOMAIN job = scenario.kits /\ DOMAIN job' = scenario.kits BY <1>3, <1>9
<1>13. SuspectRefusedEarly' BY <1>2, <1>8, <1>9, <1>11, <1>12 DEF Inv, SuspectRefusedEarly
<1>14. \A other \in DeliveredKits' : other = k \/ (other \in DeliveredKits /\ job'[other] = job[other])
  BY <1>9, <1>12 DEF DeliveredKits
<1>15. \A other \in scenario.kits, kind \in scenario.asked : Prose(other, kind)' = Prose(other, kind)
  <2>1. \A other \in scenario.kits : job'[other].task = job[other].task BY <1>8, <1>9
  <2> QED BY <1>2, <2>1 DEF Prose, Text
<1>16. DeliveredKits' \subseteq scenario.kits BY <1>12 DEF DeliveredKits
<1>17. DeliveredSupported'
  <2>1. ASSUME NEW other \in DeliveredKits', NEW kind \in scenario.asked,
               job'[other].reports[kind].report \in Delivery!Delivered
        PROVE  job'[other].reports[kind].text \cap Unsupported = {}
    <3>1. CASE other = k BY <1>4, <1>8, <1>9, <2>1, <3>1
    <3>2. CASE other # k BY <1>14, <2>1, <3>2 DEF Inv, DeliveredSupported
    <3> QED BY <3>1, <3>2
  <2> QED BY <1>2, <2>1 DEF DeliveredSupported
<1>18. NarrativeSurvives'
  <2>1. ASSUME NEW other \in DeliveredKits', NEW kind \in scenario.asked \cap Narratives,
               job'[other].reports[kind].report = "failed"
        PROVE  \/ Narrative(kind, scenario.own[kind], scenario.own[kind], scenario.structure[kind]).fatal
               \/ kind = "job_fit" /\ GroundFatal(Prose(other, kind))
    <3>1. CASE other = k BY <1>4, <1>8, <1>9, <2>1, <3>1
    <3>2. CASE other # k BY <1>14, <2>1, <3>2 DEF Inv, NarrativeSurvives
    <3> QED BY <3>1, <3>2
  <2>2. \A other \in DeliveredKits' : other \in scenario.kits BY <1>16
  <2> QED BY <1>2, <1>15, <2>1, <2>2 DEF NarrativeSurvives
<1>19. Typed' /\ Pending' /\ Counted' /\ Disclosed' /\ Shared' /\ Consumed' /\ Filtered'
  BY <1>10, KitStepKeepsTasks
<1> QED BY <1>13, <1>17, <1>18, <1>19 DEF Inv

\* An entry less in the cache.
LEMMA EvictKeepsInv ==
    ASSUME Inv, Evict
    PROVE  Inv'
<1>1. PICK key \in DOMAIN disk : disk' = [other \in DOMAIN disk \ {key} |-> disk[other]] BY DEF Evict
<1>2. setting' = setting /\ job' = job /\ scenario' = scenario BY DEF Evict, scenario
<1>3. DOMAIN disk' \subseteq DOMAIN disk /\ \A other \in DOMAIN disk' : disk'[other] = disk[other]
  BY <1>1
<1>4. Typed'
  <2>1. Jobs' = Jobs BY <1>2 DEF Jobs
  <2> QED BY <1>2, <1>3, <2>1 DEF Inv, Typed
<1>5. Pending' BY <1>2 DEF Inv, Pending
<1>6. Counted' BY <1>2 DEF Inv, Counted, Spent
<1>7. Disclosed' BY <1>2, <1>3 DEF Inv, Disclosed, Honest
<1>8. Shared' BY <1>2, <1>3 DEF Inv, Shared
<1>9. Consumed' BY <1>2, <1>3 DEF Inv, Consumed, PastIt
<1>10. Filtered' BY <1>2, <1>3 DEF Inv, Filtered
<1>11. SuspectRefusedEarly'
  <2>1. Floor' = Floor BY <1>2 DEF Floor, Profiles, HeuristicProfile, ProviderProfile
  <2> QED BY <1>2, <2>1 DEF Inv, SuspectRefusedEarly
<1>12. DeliveredSupported' BY <1>2 DEF Inv, DeliveredSupported, DeliveredKits
<1>13. NarrativeSurvives' BY <1>2 DEF Inv, NarrativeSurvives, DeliveredKits, Prose, Text
<1> QED BY <1>4, <1>5, <1>6, <1>7, <1>8, <1>9, <1>10, <1>11, <1>12, <1>13 DEF Inv

-----------------------------------------------------------------------------
(* The invariant of the specification *)

\* Nothing has been asked and the cache is empty.
LEMMA InitInv == Init => Inv
<1> SUFFICES ASSUME Init PROVE Inv OBVIOUS
<1>1. setting \in DOMAIN Scenarios /\ job = [k \in scenario.kits |-> NewJob] /\ DOMAIN disk = {}
  BY DEF Init
<1>2. /\ NewTask \in TaskStates /\ NewTask.at = "todo" /\ NewTask.text = EngineText
  BY EngineTextFacts DEF NewTask, TaskStates
<1>3. NoReports \in [scenario.asked -> [report : Delivery!DocumentStates, text : SUBSET Defects]]
  BY DEF NoReports, Delivery!DocumentStates
<1>4. /\ NewJob \in Jobs /\ NewJob.stage = 0 /\ NewJob.end = "running" /\ NewJob.calls = 0
      /\ NewJob.fallbackUsed = FALSE /\ \A t \in scenario.tasks : NewJob.task[t] = NewTask
  BY <1>2, <1>3 DEF NewJob, Jobs, Ends
<1>5. \A k \in scenario.kits : job[k] = NewJob BY <1>1
<1>6. Typed BY <1>1, <1>4 DEF Typed
<1>7. Nobody \notin scenario.kits /\ IsFiniteSet(scenario.tasks) BY <1>1, ScenarioFacts
<1>8. Pending BY <1>2, <1>4, <1>5 DEF Pending
<1>9. Counted
  <2>1. ASSUME NEW k \in scenario.kits PROVE Cardinality(Spent(k)) <= job[k].calls
    <3>1. Spent(k) = {} BY <1>2, <1>4, <1>5, <1>7, EngineTextFacts DEF Spent
    <3>2. Cardinality(Spent(k)) = 0 BY <3>1, FS_EmptySet
    <3> QED BY <1>4, <1>5, <3>2
  <2> QED BY <2>1 DEF Counted
<1>10. Disclosed BY <1>1, <1>2, <1>4, <1>5, EngineTextFacts DEF Disclosed, Honest
<1>11. Shared BY <1>1, <1>2, <1>4, <1>5, EngineTextFacts DEF Shared
<1>12. Consumed BY <1>1 DEF Consumed
<1>13. Filtered BY <1>1, <1>2, <1>4, <1>5, EngineTextFacts DEF Filtered, LetThrough
<1>14. DOMAIN job = scenario.kits BY <1>1
<1>15. SuspectRefusedEarly BY <1>4, <1>5, <1>14 DEF SuspectRefusedEarly
<1>16. DeliveredKits = {} BY <1>4, <1>5, <1>14 DEF DeliveredKits
<1>17. DeliveredSupported /\ NarrativeSurvives BY <1>16 DEF DeliveredSupported, NarrativeSurvives
<1> QED BY <1>6, <1>8, <1>9, <1>10, <1>11, <1>12, <1>13, <1>15, <1>17 DEF Inv

\* Every step keeps it.
LEMMA NextInv == Inv /\ [Next]_vars => Inv'
<1> SUFFICES ASSUME Inv, [Next]_vars PROVE Inv' OBVIOUS
<1>1. CASE Evict BY <1>1, EvictKeepsInv
<1>2. ASSUME NEW k \in Kits, Begin(k) \/ Step(k) PROVE Inv'
  <2>1. CASE Begin(k) BY <2>1, BeginKeepsInv
  <2>2. CASE AskNobody(k) BY <2>2, AskNobodyKeepsInv
  <2>3. CASE Reuse(k) BY <2>3, ReuseKeepsInv
  <2>4. CASE Ask(k) BY <2>4, AskKeepsInv
  <2>5. CASE Answer(k) BY <2>5, AnswerKeepsInv
  <2>6. CASE PrimaryRaises(k) BY <2>6, PrimaryRaisesKeepsInv
  <2>7. CASE FallbackRaises(k) BY <2>7, FallbackRaisesKeepsInv
  <2>8. CASE EndStage(k) BY <2>8, EndStageKeepsInv
  <2>9. CASE Assemble(k) BY <2>9, AssembleKeepsInv
  <2> QED BY <1>2, <2>1, <2>2, <2>3, <2>4, <2>5, <2>6, <2>7, <2>8, <2>9 DEF Step
<1>3. CASE UNCHANGED vars
  <2>1. setting' = setting /\ job' = job /\ disk' = disk /\ scenario' = scenario
    BY <1>3 DEF vars, scenario
  <2>2. Typed'
    <3>1. Jobs' = Jobs BY <2>1 DEF Jobs
    <3> QED BY <2>1, <3>1 DEF Inv, Typed
  <2>3. Pending' /\ Shared' /\ Consumed' /\ Filtered'
    BY <2>1 DEF Inv, Pending, Shared, Consumed, Filtered, PastIt
  <2>4. Counted' /\ Disclosed' BY <2>1 DEF Inv, Counted, Disclosed, Spent, Honest
  <2>5. SuspectRefusedEarly'
    <3>1. Floor' = Floor BY <2>1 DEF Floor, Profiles, HeuristicProfile, ProviderProfile
    <3> QED BY <2>1, <3>1 DEF Inv, SuspectRefusedEarly
  <2>6. DeliveredSupported' BY <2>1 DEF Inv, DeliveredSupported, DeliveredKits
  <2>7. NarrativeSurvives' BY <2>1 DEF Inv, NarrativeSurvives, DeliveredKits, Prose, Text
  <2> QED BY <2>2, <2>3, <2>4, <2>5, <2>6, <2>7 DEF Inv
<1> QED BY <1>1, <1>2, <1>3 DEF Next

\* The invariant holds in every reachable state.
THEOREM InvHolds == Spec => []Inv
BY InitInv, NextInv, PTL DEF Spec

-----------------------------------------------------------------------------
(* What the runs check *)

\* A provider's text in a kit was paid for by a kit that counted a call and
\* disclosed the fallback (CountingProvider, FallbackProvider, the shared cache).
THEOREM ProseAccountedFor == Spec => []ProseIsAccounted
<1>1. Inv => ProseIsAccounted
  <2> SUFFICES ASSUME Inv PROVE ProseIsAccounted OBVIOUS
  <2>1. DOMAIN job = scenario.kits BY DEF Inv, Typed
  <2>2. IsFiniteSet(scenario.tasks) /\ Nobody \notin scenario.kits BY ScenarioFacts DEF Inv, Typed
  <2>3. \A k \in scenario.kits, t \in scenario.tasks : Text(k, t) = job[k].task[t].text BY DEF Text
  <2>4. ASSUME NEW k \in scenario.kits
        PROVE  Cardinality({t \in scenario.tasks : Text(k, t).by = k}) <= job[k].calls
    <3> DEFINE mine == {t \in scenario.tasks : Text(k, t).by = k}
    <3>1. mine \subseteq Spent(k) /\ Spent(k) \subseteq scenario.tasks BY <2>3 DEF Spent
    <3>2. IsFiniteSet(Spent(k)) BY <2>2, <3>1, FS_Subset
    <3> HIDE DEF mine
    <3>3. IsFiniteSet(mine) /\ Cardinality(mine) <= Cardinality(Spent(k)) BY <3>1, <3>2, FS_Subset
    <3>4. Cardinality(mine) \in Nat /\ Cardinality(Spent(k)) \in Nat
      BY <3>2, <3>3, FS_CardinalityType
    <3>5. Cardinality(Spent(k)) <= job[k].calls /\ job[k].calls \in Nat
      BY DEF Inv, Counted, Typed, Jobs
    <3> QED BY <3>3, <3>4, <3>5 DEF mine
  <2>5. ASSUME NEW k \in scenario.kits, NEW t \in scenario.tasks, Text(k, t).from # "engine"
        PROVE  /\ job[Text(k, t).by].calls > 0
               /\ Text(k, t).from = "fallback" => job[Text(k, t).by].fallbackUsed
               /\ Text(k, t).by # k => scenario.cached
    <3>1. Honest(Text(k, t)) BY <2>3 DEF Inv, Disclosed
    <3>2. Text(k, t).by # Nobody BY <2>2, <2>5, <3>1 DEF Honest
    <3> QED BY <2>3, <2>5, <3>1, <3>2 DEF Honest, Inv, Shared
  <2> QED BY <2>1, <2>4, <2>5 DEF ProseIsAccounted
<1> QED BY <1>1, InvHolds, PTL

\* A position names the same record and bullet in the parse of a provider and in
\* the one the orchestrator grounds against, for every resume and every reading.
THEOREM ProviderStaysOnFloor == Spec => []FloorStands
<1>1. Inv => FloorStands
  <2> SUFFICES ASSUME Inv PROVE FloorStands OBVIOUS
  <2>1. Typed /\ DOMAIN job = scenario.kits BY DEF Inv, Typed
  <2> QED BY <2>1, ProfileOnFloor DEF FloorStands
<1> QED BY <1>1, InvHolds, PTL

\* Where the names of records stand in their headings, whatever a provider reads
\* into a record stands in the text of that record, for every resume.
THEOREM AdditionsStayInPlace == Spec => []AddedInPlace
<1>1. Inv => AddedInPlace
  <2> SUFFICES ASSUME Inv, NamesInHeadings(scenario.resume), NEW k \in DOMAIN job
               PROVE  GainedInPlace(scenario.resume, Profile(k))
    BY DEF AddedInPlace
  <2>1. Typed /\ k \in scenario.kits BY DEF Inv, Typed
  <2>2. ReadInOrder(scenario.resume) BY <2>1, ProfileOfWriter
  <2>3. ASSUME NEW reading, reading.records \in Seq(Records)
        PROVE  /\ GainedInPlace(scenario.resume, Floor)
               /\ GainedInPlace(scenario.resume, ProviderProfile(scenario.resume, reading))
    BY <2>1, <2>2, <2>3, ProfilesInPlace, ProfileOfWriter
  <2>4. GainedInPlace(scenario.resume, Floor)
    <3>1. [records |-> <<>>].records \in Seq(Records) OBVIOUS
    <3> QED BY <2>3, <3>1
  <2> QED BY <2>1, <2>3, <2>4, ProfileOfWriter
<1> QED BY <1>1, InvHolds, PTL

\* A resume that has to be reviewed ends the generation after the first stage,
\* whatever the provider read: run_pipeline never returns with such a profile.
THEOREM SuspectEndsEarly == Spec => []SuspectRefusedEarly
<1>1. Inv => SuspectRefusedEarly BY DEF Inv
<1> QED BY <1>1, InvHolds, PTL

\* Nothing unsupported is in a delivered document, whatever the providers wrote,
\* and also when the text came out of the cache of another kit.
THEOREM NothingUnsupportedDelivered == Spec => []DeliveredSupported
<1>1. Inv => DeliveredSupported BY DEF Inv
<1> QED BY <1>1, InvHolds, PTL

\* A provider's prose costs no narrative the engine could have delivered alone,
\* but the one of the job fit.
THEOREM NarrativesSurviveProse == Spec => []NarrativeSurvives
<1>1. Inv => NarrativeSurvives BY DEF Inv
<1> QED BY <1>1, InvHolds, PTL
=============================================================================
