----------------------------- MODULE ListLemmas -----------------------------
(***************************************************************************)
(* Facts about the command lists of the manager: taking one command out of *)
(* a list that holds no command twice, and appending one; how often an     *)
(* item stands in a list, and how these steps change that number.          *)
(***************************************************************************)
EXTENDS SequencesExt, WellFoundedInduction, SequenceTheorems, FiniteSetTheorems, TLAPS

\* A nonempty set of natural numbers has a least element, and Min finds it.
LEMMA MinIsLeast ==
  ASSUME NEW T \in SUBSET Nat, T # {}
  PROVE  Min(T) \in T /\ \A j \in T : Min(T) <= j
<1> DEFINE R == {ss \in Nat \X Nat : ss[1] < ss[2]}
<1>1. IsWellFoundedOn(R, Nat)
  BY NatLessThanWellFounded DEF OpToRel
<1>2. \E x \in T : \A y \in T : <<y, x>> \notin R
  <2> HIDE DEF R
  <2> QED BY <1>1, WFMin
<1>3. PICK x \in T : \A y \in T : <<y, x>> \notin R
  BY <1>2
<1>4. ASSUME NEW y \in T PROVE x =< y
  <2>1. <<y, x>> \in Nat \X Nat /\ <<y, x>>[1] = y /\ <<y, x>>[2] = x
    OBVIOUS
  <2>2. ~ (y < x)
    BY <1>3, <2>1
  <2> QED BY <2>2
<1> QED BY <1>3, <1>4 DEF Min

\* Removing position i closes the gap and keeps everything else in order.
LEMMA RemoveAtProperties ==
  ASSUME NEW S, NEW s \in Seq(S), NEW i \in 1..Len(s)
  PROVE  /\ RemoveAt(s, i) \in Seq(S)
         /\ Len(RemoveAt(s, i)) = Len(s) - 1
         /\ \A j \in 1..Len(s) - 1 : RemoveAt(s, i)[j] = IF j < i THEN s[j] ELSE s[j + 1]
<1> DEFINE a == SubSeq(s, 1, i - 1)
           b == SubSeq(s, i + 1, Len(s))
<1>1. /\ a \in Seq(S) /\ Len(a) = i - 1
      /\ \A j \in 1..i - 1 : a[j] = s[j]
  <2>1. \A j \in 1..i - 1 : s[j] \in S
    OBVIOUS
  <2> QED BY <2>1, SubSeqProperties
<1>2. /\ b \in Seq(S) /\ Len(b) = Len(s) - i
      /\ \A j \in 1..Len(s) - i : b[j] = s[j + i]
  <2>1. \A j \in i + 1..Len(s) : s[j] \in S
    OBVIOUS
  <2> QED BY <2>1, SubSeqProperties
<1> HIDE DEF a, b
<1>3. /\ a \o b \in Seq(S)
      /\ Len(a \o b) = Len(a) + Len(b)
      /\ \A j \in 1..Len(a) + Len(b) :
           (a \o b)[j] = IF j <= Len(a) THEN a[j] ELSE b[j - Len(a)]
  BY <1>1, <1>2, ConcatProperties
<1>4. ASSUME NEW j \in 1..Len(s) - 1
      PROVE  (a \o b)[j] = IF j < i THEN s[j] ELSE s[j + 1]
  <2>1. CASE j < i
    BY <2>1, <1>1, <1>2, <1>3
  <2>2. CASE ~ (j < i)
    <3>1. j - (i - 1) \in 1..Len(s) - i /\ (j - (i - 1)) + i = j + 1
      BY <2>2
    <3>2. b[j - (i - 1)] = s[j + 1]
      BY <3>1, <1>2
    <3> QED BY <2>2, <3>2, <1>1, <1>2, <1>3
  <2> QED BY <2>1, <2>2
<1>5. Len(a \o b) = Len(s) - 1
  BY <1>1, <1>2, <1>3
<1>6. RemoveAt(s, i) = a \o b
  BY DEF RemoveAt, a, b
<1> QED BY <1>3, <1>4, <1>5, <1>6

\* The position popLockCmd and PopItem remove is one of the positions searched.
LEMMA RemoveFoundType ==
  ASSUME NEW S, NEW s \in Seq(S), NEW T \in SUBSET DOMAIN s, T # {}
  PROVE  RemoveAt(s, Min(T)) \in Seq(S)
<1>1. T \in SUBSET Nat /\ DOMAIN s = 1..Len(s)
  OBVIOUS
<1>2. Min(T) \in 1..Len(s)
  BY <1>1, MinIsLeast
<1> QED BY <1>2, RemoveAtProperties

\* x occurs in the list s.
Occurs(s, x) == \E i \in DOMAIN s : s[i] = x

\* Taking the only occurrence of x out of a list without repetitions.
LEMMA RemoveOnly ==
  ASSUME NEW S, NEW s \in Seq(S), IsInjective(s), NEW x, Occurs(s, x),
         NEW t, t = RemoveAt(s, Min({i \in DOMAIN s : s[i] = x}))
  PROVE  /\ t \in Seq(S)
         /\ IsInjective(t)
         /\ ~ Occurs(t, x)
         /\ \A y : y # x => (Occurs(t, y) <=> Occurs(s, y))
<1> DEFINE T == {i \in DOMAIN s : s[i] = x}
           k == Min(T)
<1>1. k \in 1..Len(s) /\ s[k] = x
  <2>1. T # {} /\ T \in SUBSET Nat /\ DOMAIN s = 1..Len(s)
    BY DEF Occurs
  <2>2. k \in T
    BY <2>1, MinIsLeast
  <2> QED BY <2>1, <2>2
<1> HIDE DEF k, T
<1>2. /\ t \in Seq(S) /\ Len(t) = Len(s) - 1
      /\ \A j \in 1..Len(s) - 1 : t[j] = IF j < k THEN s[j] ELSE s[j + 1]
  BY <1>1, RemoveAtProperties DEF k, T
<1>3. DOMAIN s = 1..Len(s) /\ DOMAIN t = 1..Len(s) - 1
  BY <1>2
<1>4. \A i, j \in 1..Len(s) : s[i] = s[j] => i = j
  BY <1>3 DEF IsInjective
<1>5. IsInjective(t)
  <2>1. ASSUME NEW i \in 1..Len(s) - 1, NEW j \in 1..Len(s) - 1, t[i] = t[j]
        PROVE  i = j
    BY <1>1, <1>2, <1>4, <2>1
  <2> QED BY <2>1, <1>3 DEF IsInjective
<1>6. ~ Occurs(t, x)
  <2>1. ASSUME NEW j \in 1..Len(s) - 1 PROVE t[j] # x
    <3>1. j \in 1..Len(s) /\ j + 1 \in 1..Len(s)
      OBVIOUS
    <3>2. CASE j < k
      BY <1>1, <1>2, <1>4, <3>1, <3>2
    <3>3. CASE ~ (j < k)
      BY <1>1, <1>2, <1>4, <3>1, <3>3
    <3> QED BY <3>2, <3>3
  <2> QED BY <2>1, <1>3 DEF Occurs
<1>7. ASSUME NEW y, y # x PROVE Occurs(t, y) <=> Occurs(s, y)
  <2>1. ASSUME NEW j \in 1..Len(s) - 1, t[j] = y PROVE Occurs(s, y)
    <3>1. j \in 1..Len(s) /\ j + 1 \in 1..Len(s)
      OBVIOUS
    <3>2. s[j] = y \/ s[j + 1] = y
      BY <1>2, <2>1
    <3> QED BY <3>1, <3>2, <1>3 DEF Occurs
  <2>2. ASSUME NEW j \in 1..Len(s), s[j] = y PROVE Occurs(t, y)
    <3>1. CASE j < k
      <4>1. j \in 1..Len(s) - 1 /\ t[j] = y
        BY <1>1, <1>2, <2>2, <3>1
      <4> QED BY <4>1, <1>3 DEF Occurs
    <3>2. CASE j > k
      <4>1. j - 1 \in 1..Len(s) - 1 /\ t[j - 1] = y
        BY <1>1, <1>2, <2>2, <3>2
      <4> QED BY <4>1, <1>3 DEF Occurs
    <3> QED BY <3>1, <3>2, <1>1, <1>7, <2>2
  <2> QED BY <2>1, <2>2, <1>3 DEF Occurs
<1> QED BY <1>2, <1>5, <1>6, <1>7

\* Appending a value a list does not hold yet.
LEMMA AppendNew ==
  ASSUME NEW S, NEW s \in Seq(S), IsInjective(s), NEW x \in S, ~ Occurs(s, x)
  PROVE  /\ Append(s, x) \in Seq(S)
         /\ IsInjective(Append(s, x))
         /\ Occurs(Append(s, x), x)
         /\ \A y : y # x => (Occurs(Append(s, x), y) <=> Occurs(s, y))
<1> DEFINE t == Append(s, x)
<1>1. /\ t \in Seq(S) /\ Len(t) = Len(s) + 1
      /\ DOMAIN s = 1..Len(s) /\ DOMAIN t = 1..Len(s) + 1
      /\ \A j \in 1..Len(s) : t[j] = s[j]
      /\ t[Len(s) + 1] = x
  OBVIOUS
<1> HIDE DEF t
<1>2. IsInjective(t)
  BY <1>1 DEF IsInjective, Occurs
<1>3. Occurs(t, x)
  BY <1>1 DEF Occurs
<1>4. ASSUME NEW y, y # x PROVE Occurs(t, y) <=> Occurs(s, y)
  BY <1>1, <1>4 DEF Occurs
<1> QED BY <1>1, <1>2, <1>3, <1>4 DEF t

\* Moving the next item out of the list of what remains.
LEMMA TakeHead ==
  ASSUME NEW S, NEW b \in Seq(S), NEW s \in Seq(S), s # <<>>
  PROVE  b \o <<>> \o s = b \o <<Head(s)>> \o Tail(s)
<1>1. b \o <<>> = b
  BY ConcatEmptySeq
<1>2. <<Head(s)>> \in Seq(S) /\ Tail(s) \in Seq(S) /\ <<Head(s)>> \o Tail(s) = s
  OBVIOUS
<1> QED BY <1>1, <1>2, ConcatAssociative

\* Moving an item to the end of the list of what is done.
LEMMA PutLast ==
  ASSUME NEW S, NEW b \in Seq(S), NEW s \in Seq(S), NEW c \in S
  PROVE  b \o <<c>> \o s = Append(b, c) \o <<>> \o s
<1>1. Append(b, c) \in Seq(S)
  OBVIOUS
<1>2. Append(b, c) \o <<>> = Append(b, c)
  BY <1>1, ConcatEmptySeq
<1>3. Append(b, c) = b \o <<c>>
  BY AppendIsConcat
<1> QED BY <1>2, <1>3

\* Nothing done, and nothing left to do.
LEMMA OnlyOnePart ==
  ASSUME NEW S, NEW b \in Seq(S)
  PROVE  <<>> \o <<>> \o b = b /\ b \o <<>> \o <<>> = b
<1>1. b \o <<>> = b /\ <<>> \o b = b
  BY ConcatEmptySeq
<1>2. <<>> \o <<>> = <<>>
  OBVIOUS
<1> QED BY <1>1, <1>2

\* A nonempty finite set of natural numbers has a greatest element, and Max
\* finds it.
LEMMA MaxIsGreatest ==
  ASSUME NEW T \in SUBSET Nat, T # {}, IsFiniteSet(T)
  PROVE  Max(T) \in T /\ \A j \in T : Max(T) >= j
<1> DEFINE bounded(X) == \E x \in X : \A y \in X : x >= y
           bad == {X \in FiniteSubsetsOf(Nat) : X # {} /\ ~ bounded(X)}
           R == StrictSubsetOrdering(Nat)
<1>1. bad = {}
  <2> SUFFICES ASSUME bad # {} PROVE FALSE
    OBVIOUS
  <2>1. IsWellFoundedOn(R, FiniteSubsetsOf(Nat))
    BY FS_StrictSubsetOrderingWellFounded
  <2>2. bad \subseteq FiniteSubsetsOf(Nat)
    OBVIOUS
  <2>3. PICK X \in bad : \A Y \in bad : <<Y, X>> \notin R
    <3> HIDE DEF bad, R
    <3> QED BY <2>1, <2>2, WFMin
  <2>4. X \in SUBSET Nat /\ IsFiniteSet(X) /\ X # {} /\ ~ bounded(X)
    BY DEF FiniteSubsetsOf
  <2>5. PICK x \in X : TRUE
    BY <2>4
  <2> DEFINE Y == X \ {x}
  <2>6. Y \in SUBSET Nat /\ IsFiniteSet(Y) /\ Y \subseteq X /\ Y # X
    BY <2>4, <2>5, FS_RemoveElement
  <2>7. <<Y, X>> \in R
    BY <2>4, <2>6 DEF StrictSubsetOrdering
  <2>8. Y = {} \/ bounded(Y)
    <3>1. Y \notin bad
      BY <2>3, <2>7
    <3> QED BY <3>1, <2>6 DEF FiniteSubsetsOf
  <2>9. bounded(X)
    <3>1. CASE Y = {}
      <4>1. \A y \in X : y = x
        BY <3>1
      <4> QED BY <4>1, <2>4, <2>5
    <3>2. CASE bounded(Y)
      <4>1. PICK m \in Y : \A y \in Y : m >= y
        BY <3>2
      <4>2. x \in Nat /\ m \in Nat /\ m \in X /\ \A y \in X : y \in Nat /\ (y = x \/ y \in Y)
        BY <2>4, <2>5, <4>1
      <4>3. CASE m >= x
        BY <4>1, <4>2, <4>3
      <4>4. CASE ~ (m >= x)
        <5>1. \A y \in X : x >= y
          BY <4>1, <4>2, <4>4
        <5> QED BY <5>1
      <4> QED BY <4>3, <4>4
    <3> QED BY <2>8, <3>1, <3>2
  <2> QED BY <2>4, <2>9
<1>2. bounded(T)
  <2>1. T \in FiniteSubsetsOf(Nat)
    BY DEF FiniteSubsetsOf
  <2> QED BY <1>1, <2>1
<1> QED BY <1>2 DEF Max

\* A list without repetitions of as many members of a finite set as it has
\* holds all of them.
LEMMA FullList ==
  ASSUME NEW S, IsFiniteSet(S), NEW s \in Seq(S), IsInjective(s),
         Len(s) >= Cardinality(S)
  PROVE  \A x \in S : Occurs(s, x)
<1> DEFINE D == 1..Len(s)
<1>1. DOMAIN s = D /\ s \in [D -> S] /\ Len(s) \in Nat
  OBVIOUS
<1>2. s \in Injection(D, S)
  BY <1>1 DEF Injection, IsInjective
<1>3. Cardinality(D) = Len(s)
  <2>1. \A n \in Nat : Cardinality(1..n) = IF 1 > n THEN 0 ELSE n - 1 + 1
    <3>1. \A a, b \in Int : Cardinality(a..b) = IF a > b THEN 0 ELSE b - a + 1
      BY FS_Interval
    <3> QED BY <3>1
  <2> QED BY <1>1, <2>1
<1>4. /\ Cardinality(D) <= Cardinality(S)
      /\ Cardinality(D) = Cardinality(S) => s \in Surjection(D, S)
  BY <1>2, FS_Injection
<1>5. Cardinality(S) \in Nat
  BY FS_CardinalityType
<1>6. s \in Surjection(D, S)
  BY <1>1, <1>3, <1>4, <1>5
<1> QED BY <1>1, <1>6 DEF Surjection, Occurs

\* In a list without repetitions a member is at one position.
LEMMA OncePosition ==
  ASSUME NEW S, NEW s \in Seq(S), IsInjective(s), NEW x, Occurs(s, x)
  PROVE  Cardinality({i \in DOMAIN s : s[i] = x}) = 1
<1>1. PICK k \in DOMAIN s : s[k] = x
  BY DEF Occurs
<1>2. {i \in DOMAIN s : s[i] = x} = {k}
  BY <1>1 DEF IsInjective
<1> QED BY <1>2, FS_Singleton
-----------------------------------------------------------------------------
(* How often an item occurs in a list.                                     *)

One(b) == IF b THEN 1 ELSE 0
PlacesIn(x, s) == {i \in DOMAIN s : s[i] = x}
TimesIn(x, s) == Cardinality(PlacesIn(x, s))

\* The number is a number.
LEMMA PlacesFinite ==
  ASSUME NEW S, NEW s \in Seq(S), NEW m
  PROVE  IsFiniteSet(PlacesIn(m, s)) /\ TimesIn(m, s) \in Nat
<1>1. IsFiniteSet(1..Len(s)) /\ DOMAIN s = 1..Len(s)
  BY FS_Interval
<1>2. IsFiniteSet(PlacesIn(m, s))
  BY <1>1, FS_Subset DEF PlacesIn
<1> QED BY <1>2, FS_CardinalityType DEF TimesIn

\* One item more.
LEMMA TimesAppend ==
  ASSUME NEW S, NEW s \in Seq(S), NEW x \in S, NEW m
  PROVE  TimesIn(m, Append(s, x)) = TimesIn(m, s) + One(x = m)
<1> DEFINE n == Len(s) + 1
<1>1. IsFiniteSet(PlacesIn(m, s)) /\ TimesIn(m, s) \in Nat
  BY PlacesFinite
<1>2. /\ DOMAIN Append(s, x) = DOMAIN s \cup {n}
      /\ \A i \in DOMAIN s : Append(s, x)[i] = s[i]
      /\ Append(s, x)[n] = x
  BY AppendProperties
<1>3. n \notin PlacesIn(m, s)
  BY DEF PlacesIn
<1>4. CASE x = m
  <2>1. PlacesIn(m, Append(s, x)) = PlacesIn(m, s) \cup {n}
    BY <1>2, <1>4 DEF PlacesIn
  <2>2. Cardinality(PlacesIn(m, Append(s, x))) = Cardinality(PlacesIn(m, s)) + 1
    <3> HIDE DEF n
    <3> QED BY <1>1, <1>3, <2>1, FS_AddElement
  <2> QED BY <1>4, <2>2 DEF TimesIn, One
<1>5. CASE x # m
  <2>1. PlacesIn(m, Append(s, x)) = PlacesIn(m, s)
    BY <1>2, <1>5 DEF PlacesIn
  <2> QED BY <1>1, <1>5, <2>1 DEF TimesIn, One
<1> QED BY <1>4, <1>5

\* One item less.
LEMMA TimesTail ==
  ASSUME NEW S, NEW s \in Seq(S), s # <<>>, NEW m
  PROVE  TimesIn(m, s) = TimesIn(m, Tail(s)) + One(Head(s) = m)
<1> DEFINE P == PlacesIn(m, s)
           Q == PlacesIn(m, Tail(s))
           f == [i \in Q |-> i + 1]
<1>1. /\ DOMAIN s = 1..Len(s) /\ Len(s) \in Nat \ {0} /\ DOMAIN Tail(s) = 1..(Len(s) - 1)
      /\ Tail(s) \in Seq(S) /\ Head(s) = s[1]
      /\ \A i \in 1..(Len(s) - 1) : Tail(s)[i] = s[i + 1]
  BY HeadTailProperties
<1>2. /\ IsFiniteSet(P) /\ IsFiniteSet(Q) /\ TimesIn(m, s) \in Nat /\ TimesIn(m, Tail(s)) \in Nat
  BY <1>1, PlacesFinite
<1>3. \A i \in Q : i \in Nat /\ i + 1 \in P \ {1}
  BY <1>1 DEF PlacesIn
<1>4. \A j \in P \ {1} : j - 1 \in Q /\ f[j - 1] = j
  BY <1>1 DEF PlacesIn
<1>5. f \in Bijection(Q, P \ {1})
  <2>1. f \in [Q -> P \ {1}]
    BY <1>3
  <2>2. \A i, j \in Q : f[i] = f[j] => i = j
    BY <1>3
  <2>3. \A j \in P \ {1} : \E i \in Q : f[i] = j
    BY <1>4
  <2> HIDE DEF f, P, Q
  <2> QED BY <2>1, <2>2, <2>3 DEF Bijection, Injection, Surjection, IsInjective
<1>6. Cardinality(P \ {1}) = Cardinality(Q)
  <2> HIDE DEF f, P, Q
  <2> QED BY <1>2, <1>5, FS_Bijection DEF ExistsBijection
<1>7. Cardinality(P \ {1}) = IF 1 \in P THEN Cardinality(P) - 1 ELSE Cardinality(P)
  <2> HIDE DEF P
  <2> QED BY <1>2, FS_RemoveElement
<1>8. 1 \in P <=> Head(s) = m
  BY <1>1 DEF PlacesIn
<1> HIDE DEF P, Q
<1> QED BY <1>2, <1>6, <1>7, <1>8 DEF TimesIn, One, P, Q

\* Removing the first item found by a search that the head satisfies.
LEMMA RemoveHead ==
  ASSUME NEW S, NEW s \in Seq(S), s # <<>>, NEW T \in SUBSET DOMAIN s, 1 \in T
  PROVE  RemoveAt(s, Min(T)) = Tail(s)
<1>1. T \in SUBSET Nat /\ T # {} /\ DOMAIN s = 1..Len(s)
  OBVIOUS
<1>2. Min(T) = 1
  BY <1>1, MinIsLeast
<1>3. /\ RemoveAt(s, 1) \in Seq(S) /\ Len(RemoveAt(s, 1)) = Len(s) - 1
      /\ \A j \in 1..Len(s) - 1 : RemoveAt(s, 1)[j] = s[j + 1]
  <2>1. 1 \in 1..Len(s)
    BY <1>1
  <2>2. /\ RemoveAt(s, 1) \in Seq(S) /\ Len(RemoveAt(s, 1)) = Len(s) - 1
        /\ \A j \in 1..Len(s) - 1 : RemoveAt(s, 1)[j] = IF j < 1 THEN s[j] ELSE s[j + 1]
    BY <2>1, RemoveAtProperties
  <2>3. \A j \in 1..Len(s) - 1 : ~ (j < 1)
    OBVIOUS
  <2> QED BY <2>2, <2>3
<1>4. /\ Tail(s) \in Seq(S) /\ Len(Tail(s)) = Len(s) - 1
      /\ \A j \in 1..Len(s) - 1 : Tail(s)[j] = s[j + 1]
  OBVIOUS
<1>5. RemoveAt(s, 1) = Tail(s)
  BY <1>3, <1>4, SeqEqual
<1> QED BY <1>2, <1>5

\* An empty list holds nothing, and a list that holds nothing is empty.
LEMMA TimesEmpty == \A x : TimesIn(x, <<>>) = 0
<1> SUFFICES ASSUME NEW x PROVE TimesIn(x, <<>>) = 0
  OBVIOUS
<1>1. PlacesIn(x, <<>>) = {}
  BY DEF PlacesIn
<1> QED BY <1>1, FS_EmptySet DEF TimesIn

LEMMA TimesNone ==
  ASSUME NEW S, NEW s \in Seq(S), \A x \in S : TimesIn(x, s) = 0
  PROVE  s = <<>>
<1> SUFFICES ASSUME s # <<>> PROVE FALSE
  OBVIOUS
<1>1. Head(s) \in S /\ Tail(s) \in Seq(S)
  OBVIOUS
<1>2. TimesIn(Head(s), s) = TimesIn(Head(s), Tail(s)) + One(Head(s) = Head(s))
  BY TimesTail
<1>3. TimesIn(Head(s), Tail(s)) \in Nat
  BY <1>1, PlacesFinite
<1> QED BY <1>1, <1>2, <1>3 DEF One
=============================================================================
