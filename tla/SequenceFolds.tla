--------------------------- MODULE SequenceFolds ----------------------------
(***************************************************************************)
(* What FoldLeft and FoldFunction compute, step by step.  The recursion of *)
(* MapThenFoldSet chooses a function on the subsets of a domain; that this *)
(* function exists, and what holds of it after every step, is shown here   *)
(* by induction, for an operation given as a function.                     *)
(***************************************************************************)
EXTENDS Integers, SequencesExt, Lists, FiniteSetTheorems, SequenceTheorems,
        NaturalsInduction, WellFoundedInduction, TLAPS

-----------------------------------------------------------------------------
(* Induction on the naturals, for sets *)

Less == {p \in Nat \X Nat : p[1] < p[2]}

\* The order of the naturals has no infinite descent.
LEMMA LessWellFounded == IsWellFoundedOn(Less, Nat)
BY NatLessThanWellFounded DEF Less, OpToRel

\* A set of naturals has a least element.
LEMMA LeastElement ==
    ASSUME NEW T \in SUBSET Nat, T # {}
    PROVE  \E x \in T : \A y \in T : x <= y
<1>1. PICK x \in T : \A y \in T : ~ (<<y, x>> \in Less)
  BY LessWellFounded, WFMin
<1>2. ASSUME NEW y \in T PROVE x <= y
  <2>1. x \in Nat /\ y \in Nat OBVIOUS
  <2>2. <<y, x>> \in Nat \X Nat /\ <<y, x>>[1] = y /\ <<y, x>>[2] = x BY <2>1
  <2>3. ~(y < x) BY <1>1, <2>2 DEF Less
  <2> QED BY <2>1, <2>3
<1> QED BY <1>2

\* What holds at 0 and passes from n to n + 1 holds everywhere.
LEMMA SetInduction ==
    ASSUME NEW S, 0 \in S, \A n \in Nat : n \in S => n + 1 \in S
    PROVE  Nat \subseteq S
<1> DEFINE T == Nat \ S
<1> SUFFICES ASSUME T # {} PROVE FALSE OBVIOUS
<1>1. PICK x \in T : \A y \in T : x <= y BY LeastElement
<1>2. x # 0 /\ x - 1 \in Nat /\ x - 1 \notin T BY <1>1
<1> QED BY <1>1, <1>2

\* The same up to a bound.
LEMMA BoundedInduction ==
    ASSUME NEW n \in Nat, NEW S, 0 \in S, \A k \in 1..n : k - 1 \in S => k \in S
    PROVE  0..n \subseteq S
<1> DEFINE T == {k \in Nat : k <= n => k \in S}
<1>1. 0 \in T OBVIOUS
<1>2. ASSUME NEW k \in Nat, k \in T PROVE k + 1 \in T
  <2>1. CASE k + 1 <= n
    <3>1. k \in S /\ k + 1 \in 1..n /\ (k + 1) - 1 = k BY <1>2, <2>1
    <3> QED BY <3>1
  <2>2. CASE ~(k + 1 <= n) BY <2>2
  <2> QED BY <2>1, <2>2
<1> HIDE DEF T
<1>3. Nat \subseteq T BY <1>1, <1>2, SetInduction
<1> QED BY <1>3 DEF T

-----------------------------------------------------------------------------
(* Least and greatest elements *)

\* Min is the least element.
LEMMA MinIsLeast ==
    ASSUME NEW T \in SUBSET Nat, T # {}
    PROVE  Min(T) \in T /\ \A y \in T : Min(T) <= y
BY LeastElement DEF Min

\* Max of positions is the greatest of them.
LEMMA MaxIsGreatest ==
    ASSUME NEW n \in Nat, NEW T \in SUBSET (1..n), T # {}
    PROVE  Max(T) \in T /\ \A y \in T : y <= Max(T)
<1> DEFINE U == {n - y : y \in T}
<1>1. U \in SUBSET Nat /\ U # {}
  <2>1. \A y \in T : y \in 1..n /\ n - y \in Nat OBVIOUS
  <2> QED BY <2>1
<1>2. PICK u \in U : \A v \in U : u <= v BY <1>1, LeastElement
<1>3. PICK x \in T : u = n - x OBVIOUS
<1>4. \A y \in T : x >= y
  <2> TAKE y \in T
  <2>1. n - y \in U OBVIOUS
  <2>2. n - x <= n - y BY <1>2, <1>3, <2>1
  <2> QED BY <2>2
<1>5. \A y \in T : Max(T) >= y /\ Max(T) \in T BY <1>4 DEF Max
<1> QED BY <1>5

\* Taking the greatest position away shortens an interval by one.
LEMMA MaxOfInterval ==
    ASSUME NEW n \in Nat, NEW k \in 1..n
    PROVE  Max(1..k) = k /\ (1..k) \ {k} = 1..(k - 1)
<1>1. k \in Nat /\ 1..k \in SUBSET (1..k) /\ k \in 1..k OBVIOUS
<1>2. Max(1..k) \in 1..k /\ \A y \in 1..k : y <= Max(1..k) BY <1>1, MaxIsGreatest
<1> QED BY <1>1, <1>2

-----------------------------------------------------------------------------
(* FoldLeft *)

\* it solves the recursion of FoldLeft on the positions up to k, for an operation
\* F on S and positions.
Solves(it, k, S, base, F) ==
    /\ it \in [SUBSET (1..k) -> S]
    /\ \A s \in SUBSET (1..k) :
          it[s] = IF s = {} THEN base ELSE F[<<it[s \ {Max(s)}], Max(s)>>]

\* The recursion of FoldLeft has a solution with values in S.
LEMMA FoldExists ==
    ASSUME NEW n \in Nat, NEW S, NEW base \in S, NEW F,
           \A a \in S, i \in 1..n : F[<<a, i>>] \in S
    PROVE  \E it : Solves(it, n, S, base, F)
<1> DEFINE T == {k \in Nat : k <= n => \E it : Solves(it, k, S, base, F)}
<1>1. 0 \in T
  <2> DEFINE it == [s \in SUBSET (1..0) |-> base]
  <2>1. \A s \in SUBSET (1..0) : s = {}
    <3>1. 1..0 = {} OBVIOUS
    <3> QED BY <3>1
  <2>2. Solves(it, 0, S, base, F) BY <2>1 DEF Solves
  <2> QED BY <2>2
<1>2. ASSUME NEW k \in Nat, k \in T PROVE k + 1 \in T
  <2> SUFFICES ASSUME k + 1 <= n PROVE \E it : Solves(it, k + 1, S, base, F) OBVIOUS
  <2>0. k <= n /\ k + 1 \in Nat /\ k + 1 \in 1..n /\ \A y \in 1..(k + 1) : y \in 1..k \/ y = k + 1
    OBVIOUS
  <2>1. PICK old : Solves(old, k, S, base, F) BY <1>2, <2>0
  <2> DEFINE it == [s \in SUBSET (1..(k + 1)) |->
                      IF k + 1 \in s THEN F[<<old[s \ {k + 1}], k + 1>>] ELSE old[s]]
  <2>2. ASSUME NEW s \in SUBSET (1..(k + 1)), k + 1 \in s
        PROVE  /\ Max(s) = k + 1 /\ s \ {k + 1} \in SUBSET (1..k)
               /\ it[s] = F[<<old[s \ {k + 1}], k + 1>>] /\ it[s] \in S
               /\ it[s \ {k + 1}] = old[s \ {k + 1}]
    <3>1. Max(s) \in s /\ \A y \in s : y <= Max(s) BY <2>0, <2>2, MaxIsGreatest
    <3>2. Max(s) \in 1..(k + 1) /\ k + 1 <= Max(s) BY <2>2, <3>1
    <3>3. Max(s) = k + 1 BY <3>2
    <3>4. s \ {k + 1} \in SUBSET (1..k) BY <2>0
    <3>5. it[s] = F[<<old[s \ {k + 1}], k + 1>>] BY <2>2
    <3>6. old[s \ {k + 1}] \in S BY <2>1, <3>4 DEF Solves
    <3>7. s \ {k + 1} \in SUBSET (1..(k + 1)) /\ k + 1 \notin s \ {k + 1} OBVIOUS
    <3>8. it[s \ {k + 1}] = old[s \ {k + 1}] BY <3>7
    <3> QED BY <2>0, <3>3, <3>4, <3>5, <3>6, <3>8
  <2>3. ASSUME NEW s \in SUBSET (1..(k + 1)), k + 1 \notin s
        PROVE  /\ s \in SUBSET (1..k) /\ it[s] = old[s] /\ it[s] \in S
               /\ s # {} => it[s \ {Max(s)}] = old[s \ {Max(s)}]
    <3>1. s \in SUBSET (1..k) BY <2>0, <2>3
    <3>2. it[s] = old[s] BY <2>3
    <3>3. old[s] \in S BY <2>1, <3>1 DEF Solves
    <3>4. s \ {Max(s)} \in SUBSET (1..(k + 1)) /\ k + 1 \notin s \ {Max(s)} BY <2>3
    <3>5. it[s \ {Max(s)}] = old[s \ {Max(s)}] BY <3>4
    <3> QED BY <3>1, <3>2, <3>3, <3>5
  <2>4. it \in [SUBSET (1..(k + 1)) -> S]
    <3>1. \A s \in SUBSET (1..(k + 1)) : it[s] \in S BY <2>2, <2>3
    <3> HIDE DEF Solves
    <3>2. it = [s \in SUBSET (1..(k + 1)) |-> it[s]] OBVIOUS
    <3> HIDE DEF it
    <3> QED BY <3>1, <3>2
  <2> HIDE DEF it
  <2>5. ASSUME NEW s \in SUBSET (1..(k + 1))
        PROVE  it[s] = IF s = {} THEN base ELSE F[<<it[s \ {Max(s)}], Max(s)>>]
    <3>1. CASE k + 1 \in s BY <2>2, <3>1
    <3>2. CASE k + 1 \notin s
      <4>1. /\ s \in SUBSET (1..k) /\ it[s] = old[s]
            /\ s # {} => it[s \ {Max(s)}] = old[s \ {Max(s)}]
        BY <2>3, <3>2
      <4>2. old[s] = IF s = {} THEN base ELSE F[<<old[s \ {Max(s)}], Max(s)>>]
        BY <2>1, <4>1 DEF Solves
      <4> QED BY <4>1, <4>2
    <3> QED BY <3>1, <3>2
  <2>6. Solves(it, k + 1, S, base, F) BY <2>4, <2>5 DEF Solves
  <2> QED BY <2>6
<1> HIDE DEF T
<1>3. Nat \subseteq T BY <1>1, <1>2, SetInduction
<1>4. n \in T BY <1>3
<1> QED BY <1>4 DEF T

\* What the recursion looks up is defined.
LEMMA SolvesTyped ==
    ASSUME NEW n \in Nat, NEW S, NEW base, NEW F, NEW it, Solves(it, n, S, base, F),
           NEW s \in SUBSET (1..n), s # {}
    PROVE  Max(s) \in 1..n /\ it[s \ {Max(s)}] \in S
<1>1. Max(s) \in s BY MaxIsGreatest
<1>2. s \ {Max(s)} \in SUBSET (1..n) OBVIOUS
<1> QED BY <1>1, <1>2 DEF Solves

\* The prefixes of the domain, from none to all.
LEMMA IntervalPrefixes ==
    ASSUME NEW n \in Nat
    PROVE  /\ 1..0 = {} /\ {} \in SUBSET (1..n)
           /\ \A k \in 1..n : /\ 1..k \in SUBSET (1..n) /\ 1..k # {}
                              /\ Max(1..k) = k /\ (1..k) \ {k} = 1..(k - 1)
<1>1. 1..0 = {} /\ {} \in SUBSET (1..n) OBVIOUS
<1>2. ASSUME NEW k \in 1..n
      PROVE  1..k \in SUBSET (1..n) /\ 1..k # {} /\ Max(1..k) = k /\ (1..k) \ {k} = 1..(k - 1)
  <2>1. k \in 1..k /\ \A y \in 1..k : y \in 1..n OBVIOUS
  <2> QED BY <2>1, MaxOfInterval
<1> QED BY <1>1, <1>2

-----------------------------------------------------------------------------
(* Prefixes of sequences *)

\* A prefix is shorter and agrees position by position.
LEMMA PrefixPointwise ==
    ASSUME NEW X, NEW s \in Seq(X), NEW t \in Seq(X)
    PROVE  IsPrefix(s, t) <=> Len(s) <= Len(t) /\ \A i \in 1..Len(s) : s[i] = t[i]
<1>1. ASSUME Len(s) <= Len(t)
      PROVE  SubSeq(s, 1, Len(s)) = SubSeq(t, 1, Len(s)) <=> \A i \in 1..Len(s) : s[i] = t[i]
  <2> DEFINE n == Len(s)
             a == SubSeq(s, 1, n)
             b == SubSeq(t, 1, n)
  <2>1. n \in Nat /\ \A i \in 1..n : s[i] \in X /\ t[i] \in X BY <1>1
  <2>2. a \in Seq(X) /\ Len(a) = n /\ \A i \in 1..n : a[i] = s[i] BY <2>1, SubSeqProperties
  <2>3. b \in Seq(X) /\ Len(b) = n /\ \A i \in 1..n : b[i] = t[i] BY <2>1, SubSeqProperties
  <2> HIDE DEF n, a, b
  <2>4. a = b <=> \A i \in 1..n : a[i] = b[i] BY <2>2, <2>3, SeqEqual
  <2>5. a = b <=> \A i \in 1..n : s[i] = t[i] BY <2>2, <2>3, <2>4
  <2> QED BY <2>5 DEF a, b, n
<1> QED BY <1>1 DEF IsPrefix

\* A prefix of a prefix is a prefix.
LEMMA PrefixTransitive ==
    ASSUME NEW X, NEW s \in Seq(X), NEW t \in Seq(X), NEW u \in Seq(X),
           IsPrefix(s, t), IsPrefix(t, u)
    PROVE  IsPrefix(s, u)
BY PrefixPointwise

\* A sequence is a prefix of itself and of what appends to it.
LEMMA PrefixOfAppend ==
    ASSUME NEW X, NEW s \in Seq(X), NEW x \in X
    PROVE  IsPrefix(s, s) /\ IsPrefix(s, Append(s, x))
<1> DEFINE t == Append(s, x)
<1>1. t \in Seq(X) /\ Len(t) = Len(s) + 1 /\ Len(s) \in Nat OBVIOUS
<1>2. \A i \in 1..Len(s) : t[i] = s[i] OBVIOUS
<1> HIDE DEF t
<1>3. IsPrefix(s, t) BY <1>1, <1>2, PrefixPointwise
<1>4. IsPrefix(s, s) BY <1>1, PrefixPointwise
<1> QED BY <1>3, <1>4 DEF t

-----------------------------------------------------------------------------
(* Elements of sequences *)

\* The elements of a sequence with one more at its end.
LEMMA ElementsOfAppend ==
    ASSUME NEW X, NEW s \in Seq(X), NEW x \in X
    PROVE  ToSet(Append(s, x)) = ToSet(s) \cup {x}
<1> DEFINE t == Append(s, x)
<1>1. t \in Seq(X) /\ Len(t) = Len(s) + 1 /\ Len(s) \in Nat OBVIOUS
<1>2. DOMAIN t = 1..(Len(s) + 1) /\ DOMAIN s = 1..Len(s) BY <1>1
<1>3. \A i \in 1..Len(s) : t[i] = s[i] OBVIOUS
<1>4. t[Len(s) + 1] = x OBVIOUS
<1> HIDE DEF t
<1>5. \A i \in 1..(Len(s) + 1) : i \in 1..Len(s) \/ i = Len(s) + 1 BY <1>1
<1>6. Len(s) + 1 \in 1..(Len(s) + 1) /\ \A i \in 1..Len(s) : i \in 1..(Len(s) + 1) BY <1>1
<1>7. \A y : y \in ToSet(t) <=> \E i \in 1..(Len(s) + 1) : t[i] = y BY <1>2 DEF ToSet
<1>8. \A y : y \in ToSet(s) <=> \E i \in 1..Len(s) : s[i] = y BY <1>2 DEF ToSet
<1>9. \A y : y \in ToSet(t) <=> y \in ToSet(s) \/ y = x BY <1>3, <1>4, <1>5, <1>6, <1>7, <1>8
<1> QED BY <1>9 DEF t

\* A sequence has finitely many elements.
LEMMA FinitelyManyElements ==
    ASSUME NEW X, NEW s \in Seq(X)
    PROVE  IsFiniteSet(ToSet(s))
<1>1. Len(s) \in Nat /\ DOMAIN s = 1..Len(s) OBVIOUS
<1>2. IsFiniteSet(1..Len(s)) BY <1>1, FS_Interval
<1> DEFINE f == [i \in 1..Len(s) |-> s[i]]
<1>3. f \in Surjection(1..Len(s), ToSet(s)) BY <1>1 DEF Surjection, ToSet
<1> QED BY <1>2, <1>3, FS_Surjection

\* A list of elements of a set is a list over that set.
LEMMA ListOver ==
    ASSUME NEW X, NEW s \in Seq(X), NEW Y, ToSet(s) \subseteq Y
    PROVE  s \in Seq(Y)
<1>1. Len(s) \in Nat /\ DOMAIN s = 1..Len(s) /\ s = [i \in 1..Len(s) |-> s[i]] OBVIOUS
<1>2. \A i \in 1..Len(s) : s[i] \in Y BY <1>1 DEF ToSet
<1> QED BY <1>1, <1>2

\* An element put in at a position pushes those from there on back by one.
LEMMA InsertedElement ==
    ASSUME NEW X, NEW s \in Seq(X), NEW x \in X, NEW i \in 1..(Len(s) + 1)
    PROVE  /\ InsertAt(s, i, x) \in Seq(X) /\ Len(InsertAt(s, i, x)) = Len(s) + 1
           /\ \A j \in 1..(i - 1) : InsertAt(s, i, x)[j] = s[j]
           /\ InsertAt(s, i, x)[i] = x
           /\ \A j \in (i + 1)..(Len(s) + 1) : InsertAt(s, i, x)[j] = s[j - 1]
<1> DEFINE n == Len(s)
           a == SubSeq(s, 1, i - 1)
           b == SubSeq(s, i, n)
           ax == a \o <<x>>
<1>1. n \in Nat /\ i \in 1..(n + 1) /\ i \in Int /\ i - 1 \in Int /\ \A j \in 1..n : s[j] \in X OBVIOUS
<1>2. a \in Seq(X) /\ Len(a) = i - 1 /\ \A j \in 1..(i - 1) : a[j] = s[j]
  <2>1. \A j \in 1..(i - 1) : s[j] \in X BY <1>1
  <2> QED BY <1>1, <2>1, SubSeqProperties
<1>3. b \in Seq(X) /\ Len(b) = n - i + 1 /\ \A j \in 1..(n - i + 1) : b[j] = s[i + j - 1]
  <2>1. \A j \in i..n : s[j] \in X BY <1>1
  <2> QED BY <1>1, <2>1, SubSeqProperties
<1>4. <<x>> \in Seq(X) /\ Len(<<x>>) = 1 /\ <<x>>[1] = x OBVIOUS
<1> HIDE DEF a, b, n
<1>5. /\ ax \in Seq(X) /\ Len(ax) = i
      /\ \A j \in 1..i : ax[j] = IF j <= i - 1 THEN a[j] ELSE <<x>>[j - (i - 1)]
  BY <1>1, <1>2, <1>4, ConcatProperties
<1>6. ax[i] = x /\ \A j \in 1..(i - 1) : ax[j] = s[j]
  BY <1>1, <1>2, <1>4, <1>5
<1> HIDE DEF ax
<1>7. /\ ax \o b \in Seq(X) /\ Len(ax \o b) = n + 1
      /\ \A j \in 1..(n + 1) : (ax \o b)[j] = IF j <= i THEN ax[j] ELSE b[j - i]
  <2>1. Len(ax) + Len(b) = n + 1 BY <1>1, <1>3, <1>5
  <2> QED BY <1>3, <1>5, <2>1, ConcatProperties
<1>8. InsertAt(s, i, x) = ax \o b BY DEF InsertAt, ax, a, b, n
<1>9. \A j \in (i + 1)..(n + 1) : (ax \o b)[j] = s[j - 1]
  <2> TAKE j \in (i + 1)..(n + 1)
  <2>1. j - i \in 1..(n - i + 1) /\ i + (j - i) - 1 = j - 1 BY <1>1
  <2>2. j \in 1..(n + 1) /\ ~(j <= i) BY <1>1
  <2> QED BY <1>3, <1>7, <2>1, <2>2
<1>10. i \in 1..(n + 1) /\ i <= i /\ \A j \in 1..(i - 1) : j \in 1..(n + 1) /\ j <= i BY <1>1
<1>11. (ax \o b)[i] = x BY <1>6, <1>7, <1>10
<1>12. \A j \in 1..(i - 1) : (ax \o b)[j] = s[j]
  <2> TAKE j \in 1..(i - 1)
  <2>1. j \in 1..(n + 1) /\ j <= i BY <1>10
  <2> QED BY <1>6, <1>7, <2>1
<1> HIDE DEF b
<1>13. ax \o b \in Seq(X) /\ Len(ax \o b) = n + 1 BY <1>7
<1> QED BY ONLY <1>8, <1>9, <1>11, <1>12, <1>13 DEF n

-----------------------------------------------------------------------------
(* Filters *)

\* One turn of Only.
Sieved(seq, x, set) == IF x \in set THEN Append(seq, x) ELSE seq

\* A filter keeps or drops one element after the other.
LEMMA OnlyStepwise ==
    ASSUME NEW X, NEW seq \in Seq(X), NEW set
    PROVE  \E trace :
              /\ trace[0] = <<>>
              /\ \A k \in 1..Len(seq) : trace[k] = Sieved(trace[k - 1], seq[k], set)
              /\ Only(seq, set) = trace[Len(seq)]
<1> DEFINE n == Len(seq)
           S == Seq(X)
           F == [p \in S \X (1..n) |-> Sieved(p[1], seq[p[2]], set)]
           Rec(it) == [s \in SUBSET (1..n) |->
                         IF s = {} THEN <<>>
                         ELSE Sieved(it[s \ {Max(s)}], seq[Max(s)], set)]
           it == CHOOSE i : i = Rec(i)
<1>1. n \in Nat /\ DOMAIN seq = 1..n /\ <<>> \in S OBVIOUS
<1>2. \A a \in S, i \in 1..n : F[<<a, i>>] = Sieved(a, seq[i], set) /\ F[<<a, i>>] \in S
  BY DEF Sieved
<1>3. Only(seq, set) = it[1..n]
  BY <1>1 DEF Only, FoldLeft, MapThenFoldSet, Sieved
<1> HIDE DEF n, S, F
<1>4. PICK w : Solves(w, n, S, <<>>, F) BY <1>1, <1>2, FoldExists DEF S
<1>5. w = Rec(w)
  <2>1. ASSUME NEW s \in SUBSET (1..n)
        PROVE  w[s] = IF s = {} THEN <<>> ELSE Sieved(w[s \ {Max(s)}], seq[Max(s)], set)
    <3>1. CASE s = {} BY <1>4, <3>1 DEF Solves
    <3>2. CASE s # {}
      <4>1. Max(s) \in 1..n /\ w[s \ {Max(s)}] \in S BY <1>1, <1>4, <3>2, SolvesTyped
      <4>2. w[s] = F[<<w[s \ {Max(s)}], Max(s)>>] BY <1>4, <3>2 DEF Solves
      <4> QED BY <1>2, <3>2, <4>1, <4>2
    <3> QED BY <3>1, <3>2
  <2>2. w = [s \in SUBSET (1..n) |-> w[s]] BY <1>4 DEF Solves
  <2> QED BY <2>1, <2>2
<1>6. it = Rec(it) BY <1>5
<1> HIDE DEF it
<1> DEFINE trace == [k \in 0..n |-> it[1..k]]
<1>7. trace[0] = <<>> BY <1>1, <1>6, IntervalPrefixes
<1>8. ASSUME NEW k \in 1..n
      PROVE  trace[k] = Sieved(trace[k - 1], seq[k], set)
  <2>1. 1..k \in SUBSET (1..n) /\ 1..k # {} /\ Max(1..k) = k /\ (1..k) \ {k} = 1..(k - 1)
    BY <1>1, IntervalPrefixes
  <2>2. it[1..k] = Sieved(it[(1..k) \ {Max(1..k)}], seq[Max(1..k)], set)
    BY <1>6, <2>1
  <2>3. k \in 0..n /\ k - 1 \in 0..n BY <1>1
  <2> QED BY <2>1, <2>2, <2>3
<1>9. n \in 0..n BY <1>1
<1> QED BY <1>3, <1>7, <1>8, <1>9 DEF n

\* A filter keeps the elements of the set, and makes up none.
LEMMA OnlyFromSequence ==
    ASSUME NEW X, NEW seq \in Seq(X), NEW set
    PROVE  /\ Only(seq, set) \in Seq(X)
           /\ ToSet(Only(seq, set)) = ToSet(seq) \cap set
           /\ Range(Only(seq, set)) \subseteq Range(seq)
<1> DEFINE n == Len(seq)
<1>1. PICK trace :
        /\ trace[0] = <<>>
        /\ \A k \in 1..n : trace[k] = Sieved(trace[k - 1], seq[k], set)
        /\ Only(seq, set) = trace[n]
  BY OnlyStepwise
<1>2. n \in Nat /\ DOMAIN seq = 1..n /\ \A k \in 1..n : seq[k] \in X OBVIOUS
<1>3. \A s : Range(s) = ToSet(s) BY DEF Range, ToSet
<1> HIDE DEF n
<1> DEFINE upto(k) == {x \in set : \E j \in 1..k : seq[j] = x}
           P == {k \in 0..n : trace[k] \in Seq(X) /\ ToSet(trace[k]) = upto(k)}
<1>4. 0 \in P
  <2>1. trace[0] \in Seq(X) /\ ToSet(trace[0]) = {} BY <1>1 DEF ToSet
  <2>2. upto(0) = {} OBVIOUS
  <2> QED BY <1>2, <2>1, <2>2
<1>5. ASSUME NEW k \in 1..n, k - 1 \in P PROVE k \in P
  <2>1. trace[k - 1] \in Seq(X) /\ ToSet(trace[k - 1]) = upto(k - 1) BY <1>5
  <2>2. k \in 0..n /\ k \in 1..k /\ \A j \in 1..k : j = k \/ j \in 1..(k - 1) BY <1>2
  <2>3. \A j \in 1..(k - 1) : j \in 1..k BY <1>2
  <2>4. trace[k] = Sieved(trace[k - 1], seq[k], set) BY <1>1
  <2>5. CASE seq[k] \in set
    <3>1. trace[k] = Append(trace[k - 1], seq[k]) BY <2>4, <2>5 DEF Sieved
    <3>2. ToSet(trace[k]) = ToSet(trace[k - 1]) \cup {seq[k]} BY <1>2, <2>1, <3>1, ElementsOfAppend
    <3>3. trace[k] \in Seq(X) BY <1>2, <2>1, <3>1
    <3>4. upto(k) = upto(k - 1) \cup {seq[k]} BY <2>2, <2>3, <2>5
    <3> HIDE DEF upto
    <3> QED BY <2>1, <2>2, <3>2, <3>3, <3>4
  <2>6. CASE seq[k] \notin set
    <3>1. trace[k] = trace[k - 1] BY <2>4, <2>6 DEF Sieved
    <3>2. upto(k) = upto(k - 1) BY <2>2, <2>3, <2>6
    <3> HIDE DEF upto
    <3> QED BY <2>1, <2>2, <3>1, <3>2
  <2> QED BY <2>5, <2>6
<1> HIDE DEF P
<1>6. 0..n \subseteq P BY <1>2, <1>4, <1>5, BoundedInduction
<1>7. n \in P BY <1>2, <1>6
<1>8. Only(seq, set) \in Seq(X) /\ ToSet(Only(seq, set)) = upto(n) BY <1>1, <1>7 DEF P
<1>9. upto(n) = ToSet(seq) \cap set BY <1>2 DEF ToSet
<1>10. ToSet(Only(seq, set)) = ToSet(seq) \cap set BY <1>8, <1>9
<1> QED BY <1>3, <1>8, <1>10

-----------------------------------------------------------------------------
(* Folds over finite sets *)

Member(s) == CHOOSE x \in s : TRUE

\* it solves the recursion of FoldSet on the subsets of T, for an operation F on
\* elements and S.
SetSolves(it, T, S, base, F) ==
    /\ it \in [SUBSET T -> S]
    /\ \A s \in SUBSET T : it[s] = IF s = {} THEN base ELSE F[<<Member(s), it[s \ {Member(s)}]>>]

\* Taking the chosen element away leaves a smaller set.
LEMMA OneLess ==
    ASSUME NEW S, IsFiniteSet(S), NEW s \in SUBSET S, s # {}
    PROVE  /\ Member(s) \in s /\ s \ {Member(s)} \in SUBSET S
           /\ Cardinality(s) \in Nat
           /\ Cardinality(s \ {Member(s)}) = Cardinality(s) - 1
<1>1. Member(s) \in s BY DEF Member
<1>2. IsFiniteSet(s) BY FS_Subset
<1>3. Cardinality(s) \in Nat BY <1>2, FS_CardinalityType
<1>4. Cardinality(s \ {Member(s)}) = Cardinality(s) - 1 BY <1>1, <1>2, FS_RemoveElement
<1> QED BY <1>1, <1>3, <1>4

\* What holds of the empty set, and of a set whenever it holds of the set without
\* its chosen element, holds of every subset of a finite set.
LEMMA SubsetInduction ==
    ASSUME NEW T, IsFiniteSet(T), NEW P, {} \in P,
           \A s \in SUBSET T : s # {} /\ s \ {Member(s)} \in P => s \in P
    PROVE  SUBSET T \subseteq P
<1> DEFINE N == {k \in Nat : \A s \in SUBSET T : Cardinality(s) = k => s \in P}
<1>0. \A s \in SUBSET T : IsFiniteSet(s) /\ Cardinality(s) \in Nat BY FS_Subset, FS_CardinalityType
<1>1. 0 \in N
  <2>1. \A s \in SUBSET T : Cardinality(s) = 0 => s = {} BY <1>0, FS_EmptySet
  <2> QED BY <2>1
<1>2. ASSUME NEW k \in Nat, k \in N PROVE k + 1 \in N
  <2>1. ASSUME NEW s \in SUBSET T, Cardinality(s) = k + 1 PROVE s \in P
    <3>1. s # {}
      <4>1. k + 1 # 0 OBVIOUS
      <4> QED BY <2>1, <4>1, FS_EmptySet
    <3>2. s \ {Member(s)} \in SUBSET T /\ Cardinality(s \ {Member(s)}) = k BY <2>1, <3>1, OneLess
    <3>3. s \ {Member(s)} \in P BY <1>2, <3>2
    <3> QED BY <3>1, <3>3
  <2> QED BY <2>1
<1> HIDE DEF N
<1>3. Nat \subseteq N BY <1>1, <1>2, SetInduction
<1>4. ASSUME NEW s \in SUBSET T PROVE s \in P
  <2>1. Cardinality(s) \in N BY <1>0, <1>3
  <2> QED BY <2>1 DEF N
<1> QED BY <1>4

\* What a function has on a finite set is finite.
LEMMA FiniteImage ==
    ASSUME NEW T, IsFiniteSet(T), NEW f, T \subseteq DOMAIN f
    PROVE  IsFiniteSet({f[x] : x \in T})
<1> DEFINE g == [x \in T |-> f[x]]
<1>1. g \in Surjection(T, {f[x] : x \in T}) BY DEF Surjection
<1> QED BY <1>1, FS_Surjection

\* Of a finite set that a transitive relation orders, there is a first element.
LEMMA FirstOfOrdered ==
    ASSUME NEW T, IsFiniteSet(T), NEW R,
           \A x, y \in T : x = y \/ <<x, y>> \in R \/ <<y, x>> \in R,
           \A x, y, z \in T : <<x, y>> \in R /\ <<y, z>> \in R => <<x, z>> \in R,
           T # {}
    PROVE  \E x \in T : \A y \in T : y = x \/ <<x, y>> \in R
<1> DEFINE P == {s \in SUBSET T : s # {} => \E x \in s : \A y \in s : y = x \/ <<x, y>> \in R}
<1>1. {} \in P OBVIOUS
<1>2. ASSUME NEW s \in SUBSET T, s # {}, s \ {Member(s)} \in P PROVE s \in P
  <2> DEFINE m == Member(s)
  <2>1. m \in s BY <1>2, OneLess
  <2>2. CASE s \ {m} = {}
    <3>1. \A y \in s : y = m BY <2>2
    <3> QED BY <2>1, <3>1
  <2>3. CASE s \ {m} # {}
    <3>1. PICK x \in s \ {m} : \A y \in s \ {m} : y = x \/ <<x, y>> \in R BY <1>2, <2>3
    <3> HIDE DEF m
    <3>2. x \in T /\ m \in T /\ x # m BY <2>1
    <3>3. CASE <<x, m>> \in R
      <4>1. \A y \in s : y = x \/ <<x, y>> \in R BY <3>1, <3>3
      <4> QED BY <3>1, <4>1
    <3>4. CASE <<m, x>> \in R
      <4>1. \A y \in s : y = m \/ <<m, y>> \in R BY <3>1, <3>2, <3>4
      <4> QED BY <2>1, <4>1
    <3> QED BY <3>2, <3>3, <3>4
  <2> QED BY <2>2, <2>3
<1> HIDE DEF P
<1>3. SUBSET T \subseteq P BY <1>1, <1>2, SubsetInduction
<1>4. T \in P BY <1>3
<1> QED BY <1>4 DEF P

\* The recursion of FoldSet has a solution with values in S.
LEMMA SetFoldExists ==
    ASSUME NEW T, IsFiniteSet(T), NEW S, NEW base \in S, NEW F,
           \A x \in T, a \in S : F[<<x, a>>] \in S
    PROVE  \E it : SetSolves(it, T, S, base, F)
<1> DEFINE Upto(k) == {s \in SUBSET T : Cardinality(s) <= k}
           Value(it, s) == IF s = {} THEN base ELSE F[<<Member(s), it[s \ {Member(s)}]>>]
           Good(it, k) == it \in [Upto(k) -> S] /\ \A s \in Upto(k) : it[s] = Value(it, s)
           N == {k \in Nat : \E it : Good(it, k)}
<1>0. /\ \A s \in SUBSET T : Cardinality(s) \in Nat
      /\ \A s \in SUBSET T : s # {} => /\ Member(s) \in T /\ s \ {Member(s)} \in SUBSET T
                                       /\ Cardinality(s \ {Member(s)}) = Cardinality(s) - 1
      /\ \A s \in SUBSET T : Cardinality(s) = 0 => s = {}
  <2>1. \A s \in SUBSET T : IsFiniteSet(s) /\ Cardinality(s) \in Nat BY FS_Subset, FS_CardinalityType
  <2>2. ASSUME NEW s \in SUBSET T, s # {}
        PROVE  Member(s) \in T /\ s \ {Member(s)} \in SUBSET T /\ Cardinality(s \ {Member(s)}) = Cardinality(s) - 1
    <3>1. Member(s) \in s /\ s \ {Member(s)} \in SUBSET T /\ Cardinality(s \ {Member(s)}) = Cardinality(s) - 1
      BY <2>2, OneLess
    <3> QED BY <3>1
  <2> QED BY <2>1, <2>2, FS_EmptySet
<1>1. 0 \in N
  <2> DEFINE it == [s \in Upto(0) |-> base]
  <2>1. \A s \in Upto(0) : s = {} BY <1>0
  <2>2. Good(it, 0) BY <2>1
  <2> QED BY <2>2
<1>2. ASSUME NEW k \in Nat, k \in N PROVE k + 1 \in N
  <2>1. PICK old : Good(old, k) BY <1>2
  <2> DEFINE it == [s \in Upto(k + 1) |-> Value(old, s)]
  <2>2. ASSUME NEW s \in Upto(k + 1), s # {}
        PROVE  /\ it[s \ {Member(s)}] = old[s \ {Member(s)}]
               /\ old[s \ {Member(s)}] \in S /\ Member(s) \in T
    <3> DEFINE u == s \ {Member(s)}
    <3>1. u \in SUBSET T /\ Cardinality(u) = Cardinality(s) - 1 /\ Cardinality(s) \in Nat /\ Member(s) \in T
      BY <1>0, <2>2
    <3>2. u \in Upto(k) /\ u \in Upto(k + 1) BY <3>1
    <3> HIDE DEF u
    <3>3. it[u] = Value(old, u) BY <3>2
    <3>4. old[u] = Value(old, u) /\ old[u] \in S BY <2>1, <3>2
    <3> HIDE DEF it, Value
    <3> QED BY <3>1, <3>3, <3>4 DEF u
  <2>3. ASSUME NEW s \in Upto(k + 1) PROVE it[s] = Value(it, s) /\ it[s] \in S
    <3>1. it[s] = Value(old, s) OBVIOUS
    <3> HIDE DEF it, Upto
    <3>2. CASE s = {} BY <3>1, <3>2
    <3>3. CASE s # {}
      <4>1. it[s] = F[<<Member(s), old[s \ {Member(s)}]>>] BY <3>1, <3>3
      <4>2. it[s \ {Member(s)}] = old[s \ {Member(s)}] /\ old[s \ {Member(s)}] \in S /\ Member(s) \in T
        BY <2>2, <3>3
      <4> QED BY <3>3, <4>1, <4>2
    <3> QED BY <3>2, <3>3
  <2>4. it = [s \in Upto(k + 1) |-> it[s]] OBVIOUS
  <2> HIDE DEF it, Value, Upto
  <2>5. it \in [Upto(k + 1) -> S] BY <2>3, <2>4
  <2> QED BY <2>3, <2>5
<1> HIDE DEF N
<1>3. Nat \subseteq N BY <1>1, <1>2, SetInduction
<1>4. Cardinality(T) \in N BY <1>3, FS_CardinalityType
<1>5. PICK it : Good(it, Cardinality(T)) BY <1>4 DEF N
<1>6. Upto(Cardinality(T)) = SUBSET T BY FS_Subset
<1>7. SetSolves(it, T, S, base, F) BY <1>5, <1>6 DEF SetSolves
<1> QED BY <1>7

-----------------------------------------------------------------------------
(* Sums over finite sets *)

\* it solves the recursion of MapThenSumSet on the subsets of S.
Sums(it, S, f) ==
    /\ it \in [SUBSET S -> Nat]
    /\ \A s \in SUBSET S : it[s] = IF s = {} THEN 0 ELSE f[Member(s)] + it[s \ {Member(s)}]

\* The recursion of MapThenSumSet has a solution.
LEMMA SumExists ==
    ASSUME NEW S, IsFiniteSet(S), NEW f, \A x \in S : f[x] \in Nat
    PROVE  \E it : Sums(it, S, f)
<1> DEFINE F == [p \in S \X Nat |-> f[p[1]] + p[2]]
<1>1. \A x \in S, a \in Nat : F[<<x, a>>] = f[x] + a /\ F[<<x, a>>] \in Nat OBVIOUS
<1> HIDE DEF F
<1>2. PICK it : SetSolves(it, S, Nat, 0, F) BY <1>1, SetFoldExists
<1>3. ASSUME NEW s \in SUBSET S, s # {} PROVE it[s] = f[Member(s)] + it[s \ {Member(s)}]
  <2>1. Member(s) \in S /\ s \ {Member(s)} \in SUBSET S BY <1>3, OneLess
  <2>2. it[s \ {Member(s)}] \in Nat /\ it[s] = F[<<Member(s), it[s \ {Member(s)}]>>]
    BY <1>2, <1>3, <2>1 DEF SetSolves
  <2> QED BY <1>1, <2>1, <2>2
<1>4. Sums(it, S, f) BY <1>2, <1>3 DEF SetSolves, Sums
<1> QED BY <1>4

\* Whatever solves the recursion is a sum.
LEMMA SumTyped ==
    ASSUME NEW S, IsFiniteSet(S), NEW f, \A x \in S : f[x] \in Nat, NEW it,
           it = [s \in SUBSET S |-> IF s = {} THEN 0 ELSE f[Member(s)] + it[s \ {Member(s)}]]
    PROVE  Sums(it, S, f)
<1> DEFINE T == {k \in Nat : \A s \in SUBSET S : Cardinality(s) = k => it[s] \in Nat}
<1>0. \A s \in SUBSET S : it[s] = IF s = {} THEN 0 ELSE f[Member(s)] + it[s \ {Member(s)}]
  OBVIOUS
<1>1. 0 \in T
  <2>1. ASSUME NEW s \in SUBSET S, Cardinality(s) = 0 PROVE it[s] \in Nat
    <3>1. IsFiniteSet(s) BY FS_Subset
    <3>2. s = {} BY <2>1, <3>1, FS_EmptySet
    <3> QED BY <1>0, <3>2
  <2> QED BY <2>1
<1>2. ASSUME NEW k \in Nat, k \in T PROVE k + 1 \in T
  <2>1. ASSUME NEW s \in SUBSET S, Cardinality(s) = k + 1 PROVE it[s] \in Nat
    <3> DEFINE u == s \ {Member(s)}
    <3>0. Cardinality({}) = 0 BY FS_EmptySet
    <3>1. s # {}
      <4>1. k + 1 # 0 OBVIOUS
      <4>2. Cardinality(s) # 0 BY <2>1, <4>1
      <4> QED BY <3>0, <4>2
    <3>2. Member(s) \in S /\ u \in SUBSET S /\ Cardinality(u) = k BY <2>1, <3>1, OneLess
    <3>3. it[s] = f[Member(s)] + it[u] BY <1>0, <3>1
    <3>4. it[u] \in Nat BY <1>2, <3>2
    <3> HIDE DEF u
    <3> QED BY <3>2, <3>3, <3>4
  <2>2. k + 1 \in Nat OBVIOUS
  <2> QED BY <2>1, <2>2
<1> HIDE DEF T
<1>3. Nat \subseteq T BY <1>1, <1>2, SetInduction
<1>4. \A s \in SUBSET S : it[s] \in Nat
  <2> TAKE s \in SUBSET S
  <2>1. Cardinality(s) \in Nat BY FS_Subset, FS_CardinalityType
  <2>2. Cardinality(s) \in T BY <1>3, <2>1
  <2> QED BY <2>2 DEF T
<1>5. it = [s \in SUBSET S |-> it[s]] BY <1>0
<1>6. it \in [SUBSET S -> Nat] BY <1>4, <1>5
<1> QED BY <1>0, <1>6 DEF Sums

\* A sum of larger terms is no smaller; one of positive terms is positive.
LEMMA SumsCompare ==
    ASSUME NEW S, IsFiniteSet(S), NEW f, NEW g,
           \A x \in S : f[x] \in Nat /\ g[x] \in Nat /\ f[x] <= g[x],
           NEW one, Sums(one, S, f), NEW two, Sums(two, S, g)
    PROVE  one[S] <= two[S]
<1> DEFINE T == {k \in Nat : \A s \in SUBSET S : Cardinality(s) = k => one[s] <= two[s]}
<1>0. \A s \in SUBSET S : one[s] \in Nat /\ two[s] \in Nat BY DEF Sums
<1>1. 0 \in T
  <2>1. ASSUME NEW s \in SUBSET S, Cardinality(s) = 0 PROVE one[s] <= two[s]
    <3>1. IsFiniteSet(s) BY FS_Subset
    <3>2. s = {} BY <2>1, <3>1, FS_EmptySet
    <3>3. one[s] = 0 /\ two[s] = 0 BY <3>2 DEF Sums
    <3> QED BY <3>3
  <2> QED BY <2>1
<1>2. ASSUME NEW k \in Nat, k \in T PROVE k + 1 \in T
  <2>1. ASSUME NEW s \in SUBSET S, Cardinality(s) = k + 1 PROVE one[s] <= two[s]
    <3> DEFINE u == s \ {Member(s)}
    <3>0. Cardinality({}) = 0 BY FS_EmptySet
    <3>1. s # {}
      <4>1. k + 1 # 0 OBVIOUS
      <4>2. Cardinality(s) # 0 BY <2>1, <4>1
      <4> QED BY <3>0, <4>2
    <3>2. Member(s) \in S /\ u \in SUBSET S /\ Cardinality(u) = k BY <2>1, <3>1, OneLess
    <3>3. one[s] = f[Member(s)] + one[u] /\ two[s] = g[Member(s)] + two[u] BY <3>1 DEF Sums
    <3>4. one[u] <= two[u] BY <1>2, <3>2
    <3> HIDE DEF u
    <3>5. f[Member(s)] \in Nat /\ g[Member(s)] \in Nat /\ f[Member(s)] <= g[Member(s)] BY <3>2
    <3>6. one[u] \in Nat /\ two[u] \in Nat BY <1>0, <3>2
    <3> QED BY <3>3, <3>4, <3>5, <3>6
  <2> QED BY <2>1
<1> HIDE DEF T
<1>3. Nat \subseteq T BY <1>1, <1>2, SetInduction
<1>4. Cardinality(S) \in T BY <1>3, FS_CardinalityType
<1> QED BY <1>4 DEF T

\* A sum of positive terms over a set that is not empty is positive.
LEMMA SumPositive ==
    ASSUME NEW S, IsFiniteSet(S), S # {}, NEW f, \A x \in S : f[x] \in Nat \ {0},
           NEW it, Sums(it, S, f)
    PROVE  it[S] \in Nat \ {0}
<1>1. Member(S) \in S /\ S \ {Member(S)} \in SUBSET S BY OneLess
<1>2. it[S] = f[Member(S)] + it[S \ {Member(S)}] BY DEF Sums
<1>3. it[S \ {Member(S)}] \in Nat BY <1>1 DEF Sums
<1> QED BY <1>1, <1>2, <1>3

\* Any element may be taken out of a sum first.
LEMMA SumWithout ==
    ASSUME NEW S, IsFiniteSet(S), NEW f, \A x \in S : f[x] \in Nat, NEW it, Sums(it, S, f),
           NEW s \in SUBSET S, NEW x \in s
    PROVE  it[s] = f[x] + it[s \ {x}]
<1> DEFINE P == {u \in SUBSET S : \A y \in u : it[u] = f[y] + it[u \ {y}]}
           N == {k \in Nat : \A u \in SUBSET S : Cardinality(u) = k => u \in P}
<1>0. /\ \A u \in SUBSET S : IsFiniteSet(u) /\ Cardinality(u) \in Nat /\ it[u] \in Nat
      /\ \A u \in SUBSET S : u # {} => it[u] = f[Member(u)] + it[u \ {Member(u)}]
  BY FS_Subset, FS_CardinalityType DEF Sums
<1>1. 0 \in N
  <2>1. \A u \in SUBSET S : Cardinality(u) = 0 => u = {} BY <1>0, FS_EmptySet
  <2> QED BY <2>1
<1>2. ASSUME NEW k \in Nat, k \in N PROVE k + 1 \in N
  <2>1. ASSUME NEW u \in SUBSET S, Cardinality(u) = k + 1, NEW y \in u
        PROVE  it[u] = f[y] + it[u \ {y}]
    <3> DEFINE m == Member(u)
    <3>1. m \in u BY OneLess
    <3>2. it[u] = f[m] + it[u \ {m}] BY <1>0, <2>1
    <3>3. CASE y = m BY <3>2, <3>3
    <3>4. CASE y # m
      <4> HIDE DEF m
      <4>1. u \ {m} \in SUBSET S /\ u \ {y} \in SUBSET S /\ y \in u \ {m} /\ m \in u \ {y}
        BY <3>1, <3>4
      <4>2. Cardinality(u \ {m}) = k /\ Cardinality(u \ {y}) = k
        <5>1. /\ Cardinality(u \ {m}) = Cardinality(u) - 1
              /\ Cardinality(u \ {y}) = Cardinality(u) - 1
          BY <1>0, <3>1, FS_RemoveElement
        <5>2. (k + 1) - 1 = k OBVIOUS
        <5> QED BY <2>1, <5>1, <5>2
      <4>3. u \ {m} \in P /\ u \ {y} \in P BY <1>2, <4>1, <4>2
      <4> DEFINE rest == (u \ {m}) \ {y}
      <4>4. rest = (u \ {y}) \ {m} /\ rest \in SUBSET S BY <4>1
      <4>5. it[u \ {m}] = f[y] + it[rest] BY <4>1, <4>3
      <4>6. it[u \ {y}] = f[m] + it[rest] BY <4>1, <4>3, <4>4
      <4>7. f[y] \in Nat /\ f[m] \in Nat /\ it[rest] \in Nat BY <1>0, <3>1, <4>4
      <4> HIDE DEF rest
      <4> QED BY <3>2, <4>5, <4>6, <4>7
    <3> QED BY <3>3, <3>4
  <2> QED BY <2>1
<1> HIDE DEF N
<1>3. Nat \subseteq N BY <1>1, <1>2, SetInduction
<1>4. Cardinality(s) \in N BY <1>0, <1>3
<1>5. s \in P BY <1>4 DEF N
<1> QED BY <1>5

\* Part of a sum is no more than the sum.
LEMMA SumOfPart ==
    ASSUME NEW S, IsFiniteSet(S), NEW f, \A x \in S : f[x] \in Nat, NEW it, Sums(it, S, f),
           NEW s \in SUBSET S
    PROVE  it[s] \in Nat /\ it[S] \in Nat /\ it[s] <= it[S]
<1> DEFINE P == {u \in SUBSET S : \A v \in SUBSET u : it[v] <= it[u]}
<1>0. \A u \in SUBSET S : it[u] \in Nat BY DEF Sums
<1>1. {} \in P
  <2>1. \A v \in SUBSET {} : v = {} OBVIOUS
  <2>2. it[{}] <= it[{}] BY <1>0
  <2> QED BY <2>1, <2>2
<1>2. ASSUME NEW u \in SUBSET S, u # {}, u \ {Member(u)} \in P PROVE u \in P
  <2> DEFINE m == Member(u)
  <2>1. m \in u BY <1>2, OneLess
  <2>2. u \ {m} \in P BY <1>2
  <2> HIDE DEF m
  <2>3. it[u] = f[m] + it[u \ {m}] BY <2>1, SumWithout
  <2>4. it[u] \in Nat /\ it[u \ {m}] \in Nat /\ f[m] \in Nat BY <1>0, <2>1
  <2>5. ASSUME NEW v \in SUBSET u PROVE it[v] <= it[u]
    <3>1. v \in SUBSET S /\ v \ {m} \in SUBSET (u \ {m}) OBVIOUS
    <3>2. it[v \ {m}] <= it[u \ {m}] BY <2>2, <3>1
    <3>3. it[v] \in Nat /\ it[v \ {m}] \in Nat BY <1>0, <3>1
    <3>4. CASE m \in v
      <4>1. it[v] = f[m] + it[v \ {m}] BY <3>1, <3>4, SumWithout
      <4> QED BY <2>3, <2>4, <3>2, <3>3, <4>1
    <3>5. CASE m \notin v
      <4>1. v \ {m} = v BY <3>5
      <4>2. it[v] <= it[u \ {m}] BY <3>2, <4>1
      <4> QED BY <2>3, <2>4, <3>3, <4>2
    <3> QED BY <3>4, <3>5
  <2> QED BY <2>5
<1> HIDE DEF P
<1>3. SUBSET S \subseteq P BY <1>1, <1>2, SubsetInduction
<1>4. S \in P BY <1>3
<1> QED BY <1>0, <1>4 DEF P

\* Division rounds down, and so keeps the order.
LEMMA QuotientsCompare ==
    ASSUME NEW a \in Nat, NEW b \in Nat, a <= b, NEW n \in Nat \ {0}
    PROVE  a \div n \in Nat /\ b \div n \in Nat /\ a \div n <= b \div n
OBVIOUS

-----------------------------------------------------------------------------
(* Sorts *)

\* No element stands in a sequence twice.
Distinct(seq) == \A i, j \in DOMAIN seq : seq[i] = seq[j] => i = j

\* An element put in its place is one more, and stands there once.
LEMMA PutInPlaceAdds ==
    ASSUME NEW X, NEW s \in Seq(X), NEW x \in X, NEW before
    PROVE  /\ PutInPlace(x, s, before) \in Seq(X)
           /\ ToSet(PutInPlace(x, s, before)) = ToSet(s) \cup {x}
           /\ x \notin ToSet(s) /\ Distinct(s) => Distinct(PutInPlace(x, s, before))
<1> DEFINE behind == {i \in DOMAIN s : <<x, s[i]>> \in before}
           at == IF behind = {} THEN Len(s) + 1 ELSE Min(behind)
           t == InsertAt(s, at, x)
           n == Len(s)
<1>1. PutInPlace(x, s, before) = t BY DEF PutInPlace
<1>2. n \in Nat /\ DOMAIN s = 1..n OBVIOUS
<1>3. behind \in SUBSET (1..n) BY <1>2
<1> HIDE DEF behind
<1>4. at \in 1..(n + 1)
  <2>1. CASE behind = {} BY <1>2, <2>1
  <2>2. CASE behind # {}
    <3>1. behind \in SUBSET Nat BY <1>2, <1>3
    <3>2. Min(behind) \in 1..n BY <1>3, <2>2, <3>1, MinIsLeast
    <3>3. at = Min(behind) BY <2>2
    <3>4. Min(behind) \in 1..(n + 1) BY <1>2, <3>2
    <3> QED BY <3>3, <3>4
  <2> QED BY <2>1, <2>2
<1> HIDE DEF at
<1>5. /\ t \in Seq(X) /\ Len(t) = n + 1
      /\ \A j \in 1..(at - 1) : t[j] = s[j]
      /\ t[at] = x
      /\ \A j \in (at + 1)..(n + 1) : t[j] = s[j - 1]
  BY <1>4, InsertedElement
<1> HIDE DEF t, n
<1>6. DOMAIN t = 1..(n + 1) BY <1>5
<1> DEFINE from(j) == IF j < at THEN j ELSE j - 1
<1>7. ASSUME NEW j \in 1..(n + 1), j # at PROVE from(j) \in 1..n /\ t[j] = s[from(j)]
  <2>1. CASE j < at
    <3>1. j \in 1..(at - 1) /\ j \in 1..n BY <1>2, <1>4, <2>1
    <3> QED BY <1>5, <2>1, <3>1
  <2>2. CASE j > at
    <3>1. j \in (at + 1)..(n + 1) /\ j - 1 \in 1..n /\ ~(j < at) BY <1>2, <1>4, <2>2
    <3> QED BY <1>5, <3>1
  <2> QED BY <1>2, <1>4, <1>7, <2>1, <2>2
<1>8. ASSUME NEW i \in 1..n PROVE \E j \in 1..(n + 1) : j # at /\ from(j) = i
  <2>1. CASE i < at
    <3>1. i \in 1..(n + 1) /\ i # at /\ from(i) = i BY <1>2, <1>4, <2>1
    <3> QED BY <3>1
  <2>2. CASE ~(i < at)
    <3>1. i + 1 \in 1..(n + 1) /\ i + 1 # at /\ from(i + 1) = i BY <1>2, <1>4, <2>2
    <3> QED BY <3>1
  <2> QED BY <2>1, <2>2
<1>9. ASSUME NEW i \in 1..(n + 1), NEW j \in 1..(n + 1), i # at, j # at, from(i) = from(j) PROVE i = j
  BY <1>2, <1>4, <1>9
<1> HIDE DEF from
<1>10. ToSet(t) = ToSet(s) \cup {x}
  <2>1. ASSUME NEW y \in ToSet(t) PROVE y \in ToSet(s) \cup {x}
    <3>1. PICK j \in 1..(n + 1) : t[j] = y BY <1>6 DEF ToSet
    <3>2. CASE j = at BY <1>5, <3>1, <3>2
    <3>3. CASE j # at BY <1>2, <1>7, <3>1, <3>3 DEF ToSet
    <3> QED BY <3>2, <3>3
  <2>2. ASSUME NEW y \in ToSet(s) PROVE y \in ToSet(t)
    <3>1. PICK i \in 1..n : s[i] = y BY <1>2 DEF ToSet
    <3>2. PICK j \in 1..(n + 1) : j # at /\ from(j) = i BY <1>8
    <3> QED BY <1>6, <1>7, <3>1, <3>2 DEF ToSet
  <2>3. x \in ToSet(t) BY <1>4, <1>5, <1>6 DEF ToSet
  <2> QED BY <2>1, <2>2, <2>3
<1>11. ASSUME x \notin ToSet(s), Distinct(s) PROVE Distinct(t)
  <2> SUFFICES ASSUME NEW i \in 1..(n + 1), NEW j \in 1..(n + 1), t[i] = t[j] PROVE i = j
    BY <1>6 DEF Distinct
  <2>1. \A k \in 1..n : s[k] # x BY <1>2, <1>11 DEF ToSet
  <2>2. CASE i = at \/ j = at BY <1>5, <1>7, <2>1, <2>2
  <2>3. CASE i # at /\ j # at
    <3>1. from(i) \in 1..n /\ from(j) \in 1..n /\ s[from(i)] = s[from(j)] BY <1>7, <2>3
    <3>2. from(i) = from(j) BY <1>2, <1>11, <3>1 DEF Distinct
    <3> QED BY <1>9, <2>3, <3>2
  <2> QED BY <2>2, <2>3
<1> QED BY <1>1, <1>5, <1>10, <1>11

\* A sort has the elements of the set, each once.
LEMMA SortedEnumerates ==
    ASSUME NEW T, IsFiniteSet(T), NEW before
    PROVE  /\ Sorted(T, before) \in Seq(T)
           /\ ToSet(Sorted(T, before)) = T
           /\ Distinct(Sorted(T, before))
<1> DEFINE S == Seq(T)
           F == [p \in T \X S |-> PutInPlace(p[1], p[2], before)]
           Rec(it) == [s \in SUBSET T |->
                         IF s = {} THEN <<>> ELSE PutInPlace(Member(s), it[s \ {Member(s)}], before)]
           it == CHOOSE i : i = Rec(i)
<1>1. \A x \in T, a \in S : F[<<x, a>>] = PutInPlace(x, a, before) /\ F[<<x, a>>] \in S
  BY PutInPlaceAdds
<1>2. Sorted(T, before) = it[T]
  BY DEF Sorted, FoldSet, MapThenFoldSet, Member
<1>3. <<>> \in S OBVIOUS
<1> HIDE DEF S, F
<1>4. PICK w : SetSolves(w, T, S, <<>>, F) BY <1>1, <1>3, SetFoldExists
<1>5. \A s \in SUBSET T : s # {} => Member(s) \in s /\ s \ {Member(s)} \in SUBSET T BY OneLess
<1>6. w = Rec(w)
  <2>1. ASSUME NEW s \in SUBSET T
        PROVE  w[s] = IF s = {} THEN <<>> ELSE PutInPlace(Member(s), w[s \ {Member(s)}], before)
    <3>1. CASE s = {} BY <1>4, <3>1 DEF SetSolves
    <3>2. CASE s # {}
      <4>1. Member(s) \in T /\ w[s \ {Member(s)}] \in S BY <1>4, <1>5, <3>2 DEF SetSolves
      <4>2. w[s] = F[<<Member(s), w[s \ {Member(s)}]>>] BY <1>4, <3>2 DEF SetSolves
      <4> QED BY <1>1, <3>2, <4>1, <4>2
    <3> QED BY <3>1, <3>2
  <2>2. w = [s \in SUBSET T |-> w[s]] BY <1>4 DEF SetSolves
  <2> QED BY <2>1, <2>2
<1>7. it = Rec(it) BY <1>6
<1> HIDE DEF it
<1> DEFINE P == {s \in SUBSET T : it[s] \in Seq(T) /\ ToSet(it[s]) = s /\ Distinct(it[s])}
<1>8. {} \in P
  <2>1. it[{}] = <<>> BY <1>7
  <2>2. <<>> \in Seq(T) /\ ToSet(<<>>) = {} /\ Distinct(<<>>) BY DEF ToSet, Distinct
  <2> QED BY <2>1, <2>2
<1>9. ASSUME NEW s \in SUBSET T, s # {}, s \ {Member(s)} \in P PROVE s \in P
  <2> DEFINE m == Member(s)
             u == s \ {m}
  <2>1. m \in s /\ m \in T BY <1>5, <1>9
  <2>2. it[u] \in Seq(T) /\ ToSet(it[u]) = u /\ Distinct(it[u]) BY <1>9
  <2>3. it[s] = PutInPlace(m, it[u], before) BY <1>7, <1>9
  <2>4. m \notin u /\ u \cup {m} = s BY <2>1
  <2> HIDE DEF m, u
  <2>5. /\ it[s] \in Seq(T) /\ ToSet(it[s]) = ToSet(it[u]) \cup {m}
        /\ m \notin ToSet(it[u]) /\ Distinct(it[u]) => Distinct(it[s])
    BY <2>1, <2>2, <2>3, PutInPlaceAdds
  <2> QED BY <2>2, <2>4, <2>5
<1> HIDE DEF P
<1>10. SUBSET T \subseteq P BY <1>8, <1>9, SubsetInduction
<1>11. T \in P BY <1>10
<1> QED BY <1>2, <1>11 DEF P
=============================================================================
