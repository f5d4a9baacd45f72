------------------------- MODULE TweetScoringProofs -------------------------
(* What holds of the scoring of tweets whatever the accounts, sources,       *)
(* feeds, tweets, answers, limits and bounds.                                *)
(* Base is inductive: types, the free ids are the last, what a log or an     *)
(* action names was a row.  On top of it: Traced (NothingDangles,            *)
(* ReusedIsTold), AllAccounted (DecidedIsActedOn), Latest (RowsAgree).       *)
(* CollectsNewest is about the folds of one step: they are unfolded with the *)
(* least counterexample of a number, in place of induction.                  *)
EXTENDS TweetScoring, SequenceTheorems, FiniteSetTheorems, TLAPS

(* Every nonempty set of numbers has a least member, and a bounded one a     *)
(* greatest.                                                                 *)
LEMMA LeastNumber ==
    ASSUME NEW S \in SUBSET Nat, S # {} PROVE \E m \in S : \A n \in S : m <= n
<1>1. IsWellFoundedOn(OpToRel(<, Nat), Nat)
  BY NatLessThanWellFounded
<1>2. PICK m \in S : \A n \in S : ~ (<<n, m>> \in OpToRel(<, Nat))
  BY <1>1, WFMin
<1>3. \A n \in S : ~ (n < m)
  BY <1>2 DEF OpToRel
<1> QED BY <1>3

LEMMA MinFacts ==
    ASSUME NEW S \in SUBSET Nat, S # {} PROVE Min(S) \in S /\ \A n \in S : Min(S) <= n
BY LeastNumber DEF Min

LEMMA MaxFacts ==
    ASSUME NEW S \in SUBSET Nat, S # {}, NEW b \in Nat, \A n \in S : n <= b
    PROVE  Max(S) \in S /\ \A n \in S : n <= Max(S)
<1> DEFINE B == {c \in Nat : \A n \in S : n <= c}
<1>1. PICK m \in B : \A c \in B : m <= c
  BY LeastNumber
<1>2. m \in S
  <2>1. SUFFICES ASSUME m \notin S PROVE FALSE
    OBVIOUS
  <2>2. \A n \in S : n <= m - 1
    BY <1>1, <2>1
  <2>3. PICK n \in S : n <= m - 1
    BY <2>2
  <2>4. m - 1 \in B
    BY <1>1, <2>2, <2>3
  <2> QED BY <1>1, <2>4
<1> QED BY <1>1, <1>2 DEF Max

(* The enumeration of a finite set of numbers is increasing, and complete.   *)
LEMMA InOrderFacts ==
    ASSUME NEW S \in SUBSET Nat, IsFiniteSet(S)
    PROVE  /\ Cardinality(S) \in Nat /\ InOrder(S) \in [1 .. Cardinality(S) -> S]
           /\ \A i, j \in 1 .. Cardinality(S) : i < j => InOrder(S)[i] < InOrder(S)[j]
           /\ \A n \in S : \E i \in 1 .. Cardinality(S) : InOrder(S)[i] = n
           /\ \A n \in S, i \in 1 .. Cardinality(S) :
                 Cardinality({m \in S : m < n}) = i - 1 <=> InOrder(S)[i] = n
<1> DEFINE Below(n) == {m \in S : m < n}
           rank == [n \in S |-> Cardinality(Below(n)) + 1]
           N == Cardinality(S)
<1>1. N \in Nat
  BY FS_CardinalityType
<1>2. \A n \in S : /\ IsFiniteSet(Below(n)) /\ Cardinality(Below(n)) \in Nat
                   /\ Cardinality(Below(n)) < N
  <2>1. SUFFICES ASSUME NEW n \in S
                 PROVE  /\ IsFiniteSet(Below(n)) /\ Cardinality(Below(n)) \in Nat
                        /\ Cardinality(Below(n)) < N
    OBVIOUS
  <2>2. Below(n) \in SUBSET S /\ Below(n) # S
    OBVIOUS
  <2>3. /\ IsFiniteSet(Below(n)) /\ Cardinality(Below(n)) <= N
        /\ Cardinality(Below(n)) # N /\ Cardinality(Below(n)) \in Nat
    BY <2>2, FS_Subset, FS_CardinalityType
  <2> HIDE DEF Below, N
  <2> QED BY <1>1, <2>3
<1>3. \A n, k \in S : n < k => rank[n] < rank[k]
  <2>1. SUFFICES ASSUME NEW n \in S, NEW k \in S, n < k
                 PROVE  Cardinality(Below(n)) < Cardinality(Below(k))
    BY <1>2
  <2>2. Below(n) \in SUBSET Below(k) /\ Below(n) # Below(k)
    <3>1. n \in Below(k) /\ n \notin Below(n) /\ n \in Nat /\ k \in Nat
      BY <2>1
    <3>2. \A m \in S : m \in Nat /\ (m < n => m < k)
      BY <2>1, <3>1
    <3> QED BY <3>1, <3>2
  <2>3. Cardinality(Below(n)) <= Cardinality(Below(k)) /\ Cardinality(Below(n)) # Cardinality(Below(k))
    BY <1>2, <2>2, FS_Subset
  <2>4. Cardinality(Below(n)) \in Nat /\ Cardinality(Below(k)) \in Nat
    BY <1>2
  <2> HIDE DEF Below
  <2> QED BY <2>3, <2>4
<1>4. rank \in [S -> 1 .. N]
  <2> HIDE DEF Below, N
  <2> QED BY <1>1, <1>2
<1>5. \A n, k \in S : rank[n] = rank[k] => n = k
  <2> HIDE DEF rank
  <2>1. \A n, k \in S : n < k \/ k < n \/ n = k
    OBVIOUS
  <2> QED BY <1>3, <1>4, <2>1
<1>6. \A i \in 1 .. N : \E n \in S : rank[n] = i
  <2>1. rank \in Injection(S, 1 .. N)
    BY <1>4, <1>5 DEF Injection, IsInjective
  <2>2. IsFiniteSet(1 .. N) /\ Cardinality(1 .. N) = N
    BY <1>1, FS_Interval
  <2>3. rank \in Surjection(S, 1 .. N)
    BY <2>1, <2>2, FS_Injection
  <2> QED BY <2>3 DEF Surjection
<1>7. \A i \in 1 .. N : InOrder(S)[i] \in S /\ rank[InOrder(S)[i]] = i
  <2>1. SUFFICES ASSUME NEW i \in 1 .. N PROVE InOrder(S)[i] \in S /\ rank[InOrder(S)[i]] = i
    OBVIOUS
  <2>2. InOrder(S)[i] = CHOOSE n \in S : Cardinality(Below(n)) = i - 1
    BY DEF InOrder
  <2>3. PICK n \in S : Cardinality(Below(n)) + 1 = i
    BY <1>6
  <2>4. Cardinality(Below(n)) = i - 1
    BY <1>2, <2>3
  <2>5. InOrder(S)[i] \in S /\ Cardinality(Below(InOrder(S)[i])) = i - 1
    BY <2>2, <2>4
  <2> QED BY <2>5
<1>8. InOrder(S) \in [1 .. N -> S]
  BY <1>7 DEF InOrder
<1>9. \A i, j \in 1 .. N : i < j => InOrder(S)[i] < InOrder(S)[j]
  <2> HIDE DEF rank
  <2>1. SUFFICES ASSUME NEW i \in 1 .. N, NEW j \in 1 .. N, i < j,
                        ~ (InOrder(S)[i] < InOrder(S)[j])
                 PROVE  FALSE
    OBVIOUS
  <2>2. PICK x \in S, y \in S : x = InOrder(S)[i] /\ y = InOrder(S)[j] /\ rank[x] = i /\ rank[y] = j
    BY <1>7
  <2>3. x \in Nat /\ y \in Nat /\ ~ (x < y)
    BY <2>1, <2>2
  <2>4. y < x \/ y = x
    BY <2>3
  <2>5. y < x => j < i
    BY <1>3, <2>2
  <2> QED BY <2>1, <2>2, <2>4, <2>5
<1>10. \A n \in S : \E i \in 1 .. N : InOrder(S)[i] = n
  <2> HIDE DEF rank
  <2> QED BY <1>4, <1>5, <1>7
<1>11. \A n \in S, i \in 1 .. N : Cardinality(Below(n)) = i - 1 <=> InOrder(S)[i] = n
  <2>1. SUFFICES ASSUME NEW n \in S, NEW i \in 1 .. N
                 PROVE  Cardinality(Below(n)) = i - 1 <=> InOrder(S)[i] = n
    OBVIOUS
  <2>2. rank[n] = i <=> Cardinality(Below(n)) = i - 1
    BY <1>2
  <2> HIDE DEF rank, Below
  <2> QED BY <1>5, <1>7, <2>2
<1> QED BY <1>1, <1>8, <1>9, <1>10, <1>11

(* Part of a sequence: an increasing enumeration of its places.              *)
LEMMA PartFacts ==
    ASSUME NEW E, NEW seq \in Seq(E), NEW ks \in SUBSET DOMAIN seq
    PROVE  /\ Part(seq, ks) \in Seq(E) /\ Len(Part(seq, ks)) = Cardinality(ks)
           /\ Cardinality(ks) \in Nat /\ Cardinality(ks) <= Len(seq)
           /\ \E at \in [1 .. Len(Part(seq, ks)) -> ks] :
                 /\ \A i, j \in 1 .. Len(Part(seq, ks)) : i < j => at[i] < at[j]
                 /\ \A n \in ks : \E i \in 1 .. Len(Part(seq, ks)) : at[i] = n
                 /\ \A i \in 1 .. Len(Part(seq, ks)) : Part(seq, ks)[i] = seq[at[i]]
<1> DEFINE at == InOrder(ks)
           N == Cardinality(ks)
           part == Part(seq, ks)
<1>1. /\ ks \in SUBSET Nat /\ IsFiniteSet(ks) /\ Cardinality(ks) <= Len(seq)
      /\ Len(seq) \in Nat /\ DOMAIN seq = 1 .. Len(seq)
  <2>1. Len(seq) \in Nat /\ DOMAIN seq = 1 .. Len(seq)
    BY LenProperties
  <2>2. \A n \in Nat : IsFiniteSet(1 .. n) /\ Cardinality(1 .. n) = n
    BY FS_Interval
  <2> QED BY <2>1, <2>2, FS_Subset
<1>2. /\ N \in Nat /\ at \in [1 .. N -> ks]
      /\ \A i, j \in 1 .. N : i < j => at[i] < at[j]
      /\ \A n \in ks : \E i \in 1 .. N : at[i] = n
  BY <1>1, InOrderFacts
<1>3. part = [i \in 1 .. N |-> seq[at[i]]]
  BY <1>2 DEF Part
<1>4. \A n \in ks : seq[n] \in E
  BY <1>1, ElementOfSeq
<1> HIDE DEF at, N, part
<1>5. part \in [1 .. N -> E]
  BY <1>2, <1>3, <1>4
<1>6. part \in Seq(E) /\ Len(part) = N
  <2>1. part \in Seq(E)
    BY <1>2, <1>5, SeqDef
  <2> QED BY <1>2, <1>5, <2>1, LenProperties
<1> QED BY <1>1, <1>2, <1>3, <1>6 DEF N, part

-----------------------------------------------------------------------------
LEMMA MaxOfPrefix ==
    ASSUME NEW n \in Nat, NEW x \in SUBSET (1 .. n), x # {}
    PROVE  Max(x) \in x /\ (n \in x => Max(x) = n)
<1>1. Max(x) \in x /\ \A k \in x : k <= Max(x)
  <2>1. x \in SUBSET Nat /\ \A k \in x : k <= n
    OBVIOUS
  <2> QED BY <2>1, MaxFacts
<1>2. Max(x) \in 1 .. n
  BY <1>1
<1> QED BY <1>1, <1>2

(* The fold of a function over the places of a sequence, from the last down. *)
IsFold(it, D, f, b, s) ==
    /\ it \in [SUBSET (1 .. Len(s)) -> D]
    /\ \A x \in SUBSET (1 .. Len(s)) :
          it[x] = IF x = {} THEN b ELSE f[<<it[x \ {Max(x)}], s[Max(x)]>>]

(* FoldLeft goes over the places of a sequence, from the last one down: the  *)
(* function that it chooses exists ...                                       *)
LEMMA FoldExists ==
    ASSUME NEW D, NEW E, NEW f \in [D \X E -> D], NEW b \in D, NEW s \in Seq(E)
    PROVE  \E it : IsFold(it, D, f, b, s)
<1> DEFINE Ok(n) == \E it \in [SUBSET (1 .. n) -> D] :
                       \A x \in SUBSET (1 .. n) :
                          it[x] = IF x = {} THEN b ELSE f[<<it[x \ {Max(x)}], s[Max(x)]>>]
           Bad == {n \in 0 .. Len(s) : ~ Ok(n)}
<1>1. Len(s) \in Nat /\ \A n \in 1 .. Len(s) : s[n] \in E
  BY LenProperties, ElementOfSeq
<1>2. SUFFICES ASSUME Bad # {} PROVE FALSE
  <2>1. Len(s) \in 0 .. Len(s)
    BY <1>1
  <2>2. Bad = {} => \E it : IsFold(it, D, f, b, s)
    <3>1. Ok(Len(s)) => \E it : IsFold(it, D, f, b, s)
      BY DEF IsFold
    <3> HIDE DEF Ok
    <3> QED BY <2>1, <3>1
  <2> QED BY <2>2
<1>3. PICK m \in Bad : \A n \in Bad : m <= n
  <2>1. Bad \in SUBSET Nat
    BY <1>1
  <2> HIDE DEF Bad
  <2> QED BY <1>2, <2>1, LeastNumber
<1>4. m \in 0 .. Len(s) /\ ~ Ok(m)
  BY <1>3
<1>5. m # 0
  <2>1. SUFFICES ASSUME m = 0 PROVE Ok(m)
    BY <1>4
  <2>2. \A x \in SUBSET (1 .. m) : x = {}
    BY <2>1
  <2> DEFINE it == [x \in SUBSET (1 .. m) |-> b]
  <2>3. it \in [SUBSET (1 .. m) -> D]
    OBVIOUS
  <2>4. \A x \in SUBSET (1 .. m) :
           it[x] = IF x = {} THEN b ELSE f[<<it[x \ {Max(x)}], s[Max(x)]>>]
    BY <2>2
  <2> QED BY <2>3, <2>4
<1>6. m - 1 \in 0 .. Len(s) /\ m \in Nat /\ m \in 1 .. Len(s) /\ m - 1 < m
  BY <1>1, <1>4, <1>5
<1>7. Ok(m - 1)
  <2>1. m - 1 \notin Bad
    <3> HIDE DEF Bad
    <3> QED BY <1>3, <1>6
  <2> QED BY <1>6, <2>1
<1>8. PICK it \in [SUBSET (1 .. m - 1) -> D] :
        \A x \in SUBSET (1 .. m - 1) :
           it[x] = IF x = {} THEN b ELSE f[<<it[x \ {Max(x)}], s[Max(x)]>>]
  BY <1>7
<1> DEFINE jt == [x \in SUBSET (1 .. m) |->
                    IF m \in x THEN f[<<it[x \ {m}], s[m]>>] ELSE it[x]]
<1>9. \A x \in SUBSET (1 .. m) : /\ x \ {m} \in SUBSET (1 .. m - 1)
                                 /\ m \notin x => x \in SUBSET (1 .. m - 1)
                                 /\ \A k : x \ {k} \in SUBSET (1 .. m)
  <2>1. \A k \in 1 .. m : k # m => k \in 1 .. m - 1
    BY <1>6
  <2> QED BY <2>1
<1>10. s[m] \in E
  BY <1>1, <1>6
<1>11. jt \in [SUBSET (1 .. m) -> D]
  BY <1>8, <1>9, <1>10
<1>12. ASSUME NEW x \in SUBSET (1 .. m)
       PROVE  jt[x] = IF x = {} THEN b ELSE f[<<jt[x \ {Max(x)}], s[Max(x)]>>]
  <2>1. CASE m \in x
    <3>1. Max(x) = m
      BY <1>6, <2>1, MaxOfPrefix
    <3>2. jt[x \ {m}] = it[x \ {m}]
      BY <1>9
    <3>3. jt[x] = f[<<it[x \ {m}], s[m]>>]
      BY <2>1
    <3> QED BY <2>1, <3>1, <3>2, <3>3
  <2>2. CASE m \notin x
    <3>1. x \in SUBSET (1 .. m - 1) /\ jt[x] = it[x]
      BY <1>9, <2>2
    <3>2. CASE x = {}
      BY <1>8, <3>1, <3>2
    <3>3. CASE x # {}
      <4>1. jt[x \ {Max(x)}] = it[x \ {Max(x)}]
        BY <1>9, <2>2
      <4>2. it[x] = f[<<it[x \ {Max(x)}], s[Max(x)]>>]
        BY <1>8, <3>1, <3>3
      <4> HIDE DEF jt
      <4> QED BY <3>1, <3>3, <4>1, <4>2
    <3> QED BY <3>2, <3>3
  <2> QED BY <2>1, <2>2
<1> QED BY <1>4, <1>11, <1>12

-----------------------------------------------------------------------------
(* ... and is followed from the empty prefix to the whole sequence.          *)
LEMMA PrefixMax ==
    ASSUME NEW n \in Nat \ {0}
    PROVE  1 .. n # {} /\ Max(1 .. n) = n /\ (1 .. n) \ {Max(1 .. n)} = 1 .. n - 1
<1>1. n \in 1 .. n
  OBVIOUS
<1>2. 1 .. n # {} /\ Max(1 .. n) = n
  BY <1>1, MaxOfPrefix
<1>3. (1 .. n) \ {n} = 1 .. n - 1
  OBVIOUS
<1> QED BY <1>2, <1>3

LEMMA PrefixesIn ==
    ASSUME NEW D, NEW h, NEW l \in Nat, h[0] \in D,
           \A n \in 1 .. l : h[n - 1] \in D => h[n] \in D
    PROVE  \A n \in 0 .. l : h[n] \in D
<1> DEFINE Bad == {n \in 0 .. l : h[n] \notin D}
<1>1. SUFFICES ASSUME Bad # {} PROVE FALSE
  OBVIOUS
<1>2. PICK m \in Bad : \A n \in Bad : m <= n
  <2>1. Bad \in SUBSET Nat
    OBVIOUS
  <2> HIDE DEF Bad
  <2> QED BY <1>1, <2>1, LeastNumber
<1>3. m \in 0 .. l /\ h[m] \notin D /\ m # 0
  BY <1>2
<1>4. m \in 1 .. l /\ m - 1 \in 0 .. l /\ m - 1 < m
  BY <1>3
<1>5. m - 1 \notin Bad
  <2> HIDE DEF Bad
  <2> QED BY <1>2, <1>3, <1>4
<1> QED BY <1>3, <1>4, <1>5

LEMMA AddItemType ==
    ASSUME NEW k \in Seq(Tweets), NEW t \in Tweets PROVE AddItem(k, t) \in Seq(Tweets)
BY AppendProperties DEF AddItem

LEMMA ItemsFold ==
    ASSUME NEW base \in Seq(Tweets), NEW seq \in Seq(Tweets)
    PROVE  \E h \in [0 .. Len(seq) -> Seq(Tweets)] :
              /\ h[0] = base /\ \A n \in 1 .. Len(seq) : h[n] = AddItem(h[n - 1], seq[n])
              /\ FoldLeft(AddItem, base, seq) = h[Len(seq)]
<1> DEFINE D == Seq(Tweets)
           Eq(it) == it = [x \in SUBSET DOMAIN seq |->
                             IF x = {} THEN base ELSE AddItem(it[x \ {Max(x)}], seq[Max(x)])]
           f == [p \in D \X Tweets |-> AddItem(p[1], p[2])]
<1>1. /\ Len(seq) \in Nat /\ DOMAIN seq = 1 .. Len(seq)
      /\ \A n \in 1 .. Len(seq) : seq[n] \in Tweets
  BY LenProperties, ElementOfSeq
<1>2. \E it : Eq(it)
  <2>1. f \in [D \X Tweets -> D]
    BY AddItemType
  <2>2. \A k \in D, t \in Tweets : f[<<k, t>>] = AddItem(k, t)
    OBVIOUS
  <2>a. base \in D
    OBVIOUS
  <2> HIDE DEF f, D
  <2>b. PICK it : IsFold(it, D, f, base, seq)
    BY <2>1, <2>a, FoldExists
  <2>3. /\ it \in [SUBSET (1 .. Len(seq)) -> D]
        /\ \A x \in SUBSET (1 .. Len(seq)) :
              it[x] = IF x = {} THEN base ELSE f[<<it[x \ {Max(x)}], seq[Max(x)]>>]
    BY <2>b DEF IsFold
  <2>4. ASSUME NEW x \in SUBSET (1 .. Len(seq))
        PROVE  it[x] = IF x = {} THEN base ELSE AddItem(it[x \ {Max(x)}], seq[Max(x)])
    <3>1. CASE x = {}
      BY <2>3, <3>1
    <3>2. CASE x # {}
      <4>1. Max(x) \in 1 .. Len(seq) /\ x \ {Max(x)} \in SUBSET (1 .. Len(seq))
        BY <1>1, <3>2, MaxOfPrefix
      <4>2. seq[Max(x)] \in Tweets /\ it[x \ {Max(x)}] \in D
        BY <1>1, <2>3, <4>1
      <4> QED BY <2>2, <2>3, <3>2, <4>2
    <3> QED BY <3>1, <3>2
  <2> QED BY <1>1, <2>3, <2>4
<1> DEFINE it == CHOOSE it : Eq(it)
<1>3. Eq(it)
  BY <1>2, Zenon
<1>4. FoldLeft(AddItem, base, seq) = it[DOMAIN seq]
  BY DEF FoldLeft, MapThenFoldSet
<1> HIDE DEF it
<1> DEFINE h == [n \in 0 .. Len(seq) |-> it[1 .. n]]
<1>5. h[0] = base
  <2>1. 1 .. 0 = {} /\ 0 \in 0 .. Len(seq) /\ {} \in SUBSET DOMAIN seq
    BY <1>1
  <2>2. it[{}] = base
    BY <1>3, <2>1
  <2> QED BY <2>1, <2>2
<1>6. ASSUME NEW n \in 1 .. Len(seq) PROVE h[n] = AddItem(h[n - 1], seq[n])
  <2>1. n \in Nat \ {0} /\ n \in 0 .. Len(seq) /\ n - 1 \in 0 .. Len(seq)
        /\ 1 .. n \in SUBSET DOMAIN seq
    BY <1>1
  <2>2. it[1 .. n] = AddItem(it[1 .. n - 1], seq[n])
    BY <1>3, <2>1, PrefixMax
  <2> QED BY <2>1, <2>2
<1>7. \A n \in 0 .. Len(seq) : h[n] \in D
  <2>1. \A n \in 1 .. Len(seq) : h[n - 1] \in D => h[n] \in D
    BY <1>1, <1>6, AddItemType
  <2> HIDE DEF h, D
  <2>2. h[0] \in D
    BY <1>5 DEF D
  <2> QED BY <1>1, <2>1, <2>2, PrefixesIn
<1>8. h \in [0 .. Len(seq) -> Seq(Tweets)]
  BY <1>7
<1>9. FoldLeft(AddItem, base, seq) = h[Len(seq)]
  BY <1>1, <1>4
<1> HIDE DEF h
<1> QED BY <1>5, <1>6, <1>8, <1>9

-----------------------------------------------------------------------------
(* What has been collected, and what one more page makes of it.              *)
Sofar == [kept : Seq(Tweets), done : BOOLEAN]

LEMMA FilterPasses ==
    ASSUME NEW s, NEW page \in Seq(Tweets)
    PROVE  Filter(page, LAMBDA t : Passes(s, t)) \in Seq(Tweets)
<1> DEFINE ks == {n \in DOMAIN page : Passes(s, page[n])}
<1>1. Filter(page, LAMBDA t : Passes(s, t)) = Part(page, ks)
  BY DEF Filter
<1>2. ks \in SUBSET DOMAIN page
  OBVIOUS
<1> HIDE DEF ks
<1> QED BY <1>1, <1>2, PartFacts

LEMMA AddPageType ==
    ASSUME NEW s, NEW c \in Sofar, NEW page \in Seq(Tweets)
    PROVE  AddPage(s, c, page) \in Sofar
<1> DEFINE filtered == Filter(page, LAMBDA t : Passes(s, t))
           kept == FoldLeft(AddItem, c.kept, filtered)
<1>1. filtered \in Seq(Tweets)
  BY FilterPasses DEF Filter
<1>2. c.kept \in Seq(Tweets) /\ [c EXCEPT !.done = TRUE] \in Sofar
  BY DEF Sofar
<1>3. kept \in Seq(Tweets)
  <2> HIDE DEF filtered
  <2>1. PICK h \in [0 .. Len(filtered) -> Seq(Tweets)] : kept = h[Len(filtered)]
    BY <1>1, <1>2, ItemsFold
  <2> QED BY <1>1, <2>1, LenProperties
<1>4. AddPage(s, c, page) =
        IF c.done \/ page = <<>> THEN [c EXCEPT !.done = TRUE]
        ELSE [kept |-> kept,
              done |-> Len(kept) = Limit \/ \E t \in Range(page) : ~Item[t].recent]
  BY DEF AddPage
<1> HIDE DEF kept, filtered
<1>5. ASSUME NEW b \in BOOLEAN PROVE [kept |-> kept, done |-> b] \in Sofar
  BY <1>3 DEF Sofar
<1>6. (Len(kept) = Limit \/ \E t \in Range(page) : ~Item[t].recent) \in BOOLEAN
  OBVIOUS
<1> QED BY <1>2, <1>4, <1>5, <1>6, Zenon

(* The pages of a source are gone over one by one.                           *)
LEMMA PagesFold ==
    ASSUME NEW s, NEW pages \in Seq(Seq(Tweets))
    PROVE  \E h \in [0 .. Len(pages) -> Sofar] :
              /\ h[0] = [kept |-> <<>>, done |-> FALSE]
              /\ \A n \in 1 .. Len(pages) : h[n] = AddPage(s, h[n - 1], pages[n])
              /\ Collected(s, pages) = h[Len(pages)].kept
<1> DEFINE base == [kept |-> <<>>, done |-> FALSE]
           Eq(it) == it = [x \in SUBSET DOMAIN pages |->
                             IF x = {} THEN base
                             ELSE AddPage(s, it[x \ {Max(x)}], pages[Max(x)])]
           f == [p \in Sofar \X Seq(Tweets) |-> AddPage(s, p[1], p[2])]
<1>1. /\ Len(pages) \in Nat /\ DOMAIN pages = 1 .. Len(pages)
      /\ \A n \in 1 .. Len(pages) : pages[n] \in Seq(Tweets)
  BY LenProperties, ElementOfSeq
<1>b. base \in Sofar
  <2>1. <<>> \in Seq(Tweets)
    BY EmptySeq
  <2> QED BY <2>1 DEF Sofar
<1>2. \E it : Eq(it)
  <2>1. f \in [Sofar \X Seq(Tweets) -> Sofar]
    BY AddPageType
  <2>2. \A k \in Sofar, page \in Seq(Tweets) : f[<<k, page>>] = AddPage(s, k, page)
    OBVIOUS
  <2> HIDE DEF f, base
  <2>3. PICK it : IsFold(it, Sofar, f, base, pages)
    BY <1>b, <2>1, FoldExists
  <2>4. /\ it \in [SUBSET (1 .. Len(pages)) -> Sofar]
        /\ \A x \in SUBSET (1 .. Len(pages)) :
              it[x] = IF x = {} THEN base ELSE f[<<it[x \ {Max(x)}], pages[Max(x)]>>]
    BY <2>3 DEF IsFold
  <2>5. ASSUME NEW x \in SUBSET (1 .. Len(pages))
        PROVE  it[x] = IF x = {} THEN base ELSE AddPage(s, it[x \ {Max(x)}], pages[Max(x)])
    <3>1. CASE x = {}
      BY <2>4, <3>1
    <3>2. CASE x # {}
      <4>1. Max(x) \in 1 .. Len(pages) /\ x \ {Max(x)} \in SUBSET (1 .. Len(pages))
        BY <1>1, <3>2, MaxOfPrefix
      <4>2. pages[Max(x)] \in Seq(Tweets) /\ it[x \ {Max(x)}] \in Sofar
        BY <1>1, <2>4, <4>1
      <4> QED BY <2>2, <2>4, <3>2, <4>2
    <3> QED BY <3>1, <3>2
  <2> QED BY <1>1, <2>4, <2>5
<1> DEFINE it == CHOOSE it : Eq(it)
<1>3. Eq(it)
  BY <1>2, Zenon
<1>4. Collected(s, pages) = it[DOMAIN pages].kept
  BY DEF Collected, FoldLeft, MapThenFoldSet
<1> HIDE DEF it
<1> DEFINE h == [n \in 0 .. Len(pages) |-> it[1 .. n]]
<1>5. h[0] = base
  <2>1. 1 .. 0 = {} /\ 0 \in 0 .. Len(pages) /\ {} \in SUBSET DOMAIN pages
    BY <1>1
  <2> HIDE DEF base
  <2>2. it[{}] = base
    BY <1>3, <2>1
  <2> QED BY <2>1, <2>2
<1>6. ASSUME NEW n \in 1 .. Len(pages) PROVE h[n] = AddPage(s, h[n - 1], pages[n])
  <2>1. n \in Nat \ {0} /\ n \in 0 .. Len(pages) /\ n - 1 \in 0 .. Len(pages)
        /\ 1 .. n \in SUBSET DOMAIN pages
    BY <1>1
  <2> HIDE DEF base
  <2>2. it[1 .. n] = AddPage(s, it[1 .. n - 1], pages[n])
    BY <1>3, <2>1, PrefixMax
  <2> QED BY <2>1, <2>2
<1>7. \A n \in 0 .. Len(pages) : h[n] \in Sofar
  <2>1. \A n \in 1 .. Len(pages) : h[n - 1] \in Sofar => h[n] \in Sofar
    <3> HIDE DEF h
    <3> QED BY <1>1, <1>6, AddPageType
  <2> HIDE DEF h
  <2>2. h[0] \in Sofar
    BY <1>5, <1>b
  <2> QED BY <1>1, <2>1, <2>2, PrefixesIn
<1>8. h \in [0 .. Len(pages) -> Sofar]
  BY <1>7
<1>9. Collected(s, pages) = h[Len(pages)].kept
  BY <1>1, <1>4
<1> HIDE DEF h
<1> QED BY <1>5, <1>6, <1>8, <1>9

LEMMA CollectedType ==
    ASSUME NEW s, NEW pages \in Seq(Seq(Tweets)) PROVE Collected(s, pages) \in Seq(Tweets)
<1>1. PICK h \in [0 .. Len(pages) -> Sofar] : Collected(s, pages) = h[Len(pages)].kept
  BY PagesFold
<1>2. Len(pages) \in 0 .. Len(pages)
  BY LenProperties
<1>3. h[Len(pages)] \in Sofar
  BY <1>2
<1> QED BY <1>1, <1>3 DEF Sofar

-----------------------------------------------------------------------------
LEMMA MinOfTwo ==
    ASSUME NEW a \in Nat, NEW b \in Nat
    PROVE  Min({a, b}) \in {a, b} /\ Min({a, b}) \in Nat /\ Min({a, b}) <= a /\ Min({a, b}) <= b
<1>1. {a, b} \in SUBSET Nat /\ {a, b} # {}
  OBVIOUS
<1>2. Min({a, b}) \in {a, b} /\ \A n \in {a, b} : Min({a, b}) <= n
  BY <1>1, MinFacts
<1> QED BY <1>2

LEMMA FunctionIsSeq ==
    ASSUME NEW S, NEW n \in Nat, NEW f \in [1 .. n -> S]
    PROVE  f \in Seq(S) /\ Len(f) = n
<1>1. f \in Seq(S)
  BY SeqDef
<1> QED BY <1>1, LenProperties

(* The first n members of a sequence.                                        *)
LEMMA PrefixFacts ==
    ASSUME NEW S, NEW seq \in Seq(S), NEW n \in Nat
    PROVE  /\ Prefix(seq, n) \in Seq(S) /\ Len(Prefix(seq, n)) = Min({n, Len(seq)})
           /\ Len(Prefix(seq, n)) <= n /\ Len(Prefix(seq, n)) <= Len(seq)
           /\ \A i \in 1 .. Len(Prefix(seq, n)) : Prefix(seq, n)[i] = seq[i]
<1> DEFINE m == Min({n, Len(seq)})
<1>1. /\ Len(seq) \in Nat /\ m \in Nat /\ m <= n /\ m <= Len(seq)
      /\ \A i \in 1 .. Len(seq) : seq[i] \in S
  <2>1. Len(seq) \in Nat /\ \A i \in 1 .. Len(seq) : seq[i] \in S
    BY LenProperties, ElementOfSeq
  <2> QED BY <2>1, MinOfTwo
<1> HIDE DEF m
<1>2. SubSeq(seq, 1, m) = [i \in 1 .. m |-> seq[i]]
  <2>1. SubSeq(seq, 1, m) = [i \in 1 .. (1 + m) - 1 |-> seq[(i + 1) - 1]]
    BY <1>1
  <2>2. (1 + m) - 1 = m /\ \A i \in 1 .. m : (i + 1) - 1 = i
    BY <1>1
  <2> QED BY <2>1, <2>2
<1>3. SubSeq(seq, 1, m) \in [1 .. m -> S]
  <2>1. \A i \in 1 .. m : seq[i] \in S
    BY <1>1
  <2>2. [i \in 1 .. m |-> seq[i]] \in [1 .. m -> S]
    BY <2>1
  <2> QED BY <1>2, <2>2
<1>4. SubSeq(seq, 1, m) \in Seq(S) /\ Len(SubSeq(seq, 1, m)) = m
  BY <1>1, <1>3, FunctionIsSeq
<1>5. Prefix(seq, n) = SubSeq(seq, 1, m)
  BY DEF Prefix, m
<1> QED BY <1>1, <1>2, <1>4, <1>5 DEF m

(* What a backfill goes over are rows.                                       *)
LEMMA CandidatesType ==
    ASSUME live \subseteq Ids, NEW a, NEW old
    PROVE  Candidates(a, old) \in Seq(Ids)
<1> DEFINE mine == {r \in live : key[r].account = a}
           order == InOrder(mine)
           first == Prefix(NewestFirst(a), 4 * Limit)
           ks == {n \in DOMAIN first : first[n] \notin old /\ NeedsScoring(first[n])}
<1>1. mine \in SUBSET Nat /\ IsFiniteSet(mine) /\ mine \subseteq Ids
  <2>1. IsFiniteSet(Ids) /\ Ids \subseteq Nat
    BY FS_Interval, ScoringAssumption DEF Ids
  <2> QED BY <2>1, FS_Subset
<1>2. Cardinality(mine) \in Nat /\ order \in [1 .. Cardinality(mine) -> mine]
  BY <1>1, InOrderFacts
<1>3. order \in Seq(Ids)
  <2>1. order \in [1 .. Cardinality(mine) -> Ids]
    BY <1>1, <1>2
  <2> QED BY <1>2, <2>1, FunctionIsSeq
<1>4. NewestFirst(a) \in Seq(Ids)
  <2> HIDE DEF order
  <2>1. Len(order) \in Nat /\ \A i \in 1 .. Len(order) : order[i] \in Ids
    BY <1>3, LenProperties, ElementOfSeq
  <2>2. \A i \in 1 .. Len(order) : (Len(order) - i) + 1 \in 1 .. Len(order)
    BY <2>1
  <2>3. Reverse(order) \in [1 .. Len(order) -> Ids]
    BY <2>1, <2>2 DEF Reverse
  <2>4. Reverse(order) \in Seq(Ids)
    BY <2>1, <2>3, FunctionIsSeq
  <2> QED BY <2>4 DEF NewestFirst, order
<1>5. first \in Seq(Ids)
  <2>1. 4 * Limit \in Nat
    BY ScoringAssumption
  <2> QED BY <1>4, <2>1, PrefixFacts
<1>6. Part(first, ks) \in Seq(Ids)
  <2>1. ks \in SUBSET DOMAIN first
    OBVIOUS
  <2> HIDE DEF first, ks
  <2> QED BY <1>5, <2>1, PartFacts
<1>7. Candidates(a, old) = Prefix(Part(first, ks), Limit)
  BY DEF Candidates, Filter
<1> HIDE DEF first, ks
<1> QED BY <1>6, <1>7, PrefixFacts, ScoringAssumption

(* Ids are handed out in order.                                              *)
RoomLast == \A r, x \in Ids : r \in Room /\ r < x => x \in Room

LEMMA RoomFacts ==
    ASSUME RoomLast, NEW l \in Nat
    PROVE  LET n == Min({l, Cardinality(Room)})
               ids == [k \in 1 .. n |-> Min(Room) + k - 1]
           IN  /\ ids \in Seq(Ids) /\ Range(ids) \subseteq Room
               /\ \A r \in Range(ids) : r - Min(Room) + 1 \in 1 .. l
               /\ \A r \in Range(ids), x \in Room : x < r => x \in Range(ids)
<1> DEFINE n == Min({l, Cardinality(Room)})
           low == Min(Room)
           ids == [k \in 1 .. n |-> low + k - 1]
<1>1. MaxRows \in Nat /\ Ids = 1 .. MaxRows /\ Room \in SUBSET Ids /\ Room \in SUBSET Nat
  BY ScoringAssumption DEF Ids, Room
<1>2. CASE Room = {}
  <2>1. Cardinality(Room) = 0
    BY <1>2, FS_EmptySet
  <2>2. n = 0
    <3>1. 0 \in Nat /\ n = Min({l, 0})
      BY <2>1
    <3>2. Min({l, 0}) \in Nat /\ Min({l, 0}) <= 0
      BY <3>1, MinOfTwo
    <3> HIDE DEF n
    <3> QED BY <3>1, <3>2
  <2> HIDE DEF n, low
  <2>3. ids = [k \in 1 .. 0 |-> low + k - 1] /\ 1 .. 0 = {}
    BY <2>2
  <2>4. ids \in [1 .. 0 -> Ids] /\ DOMAIN ids = {}
    BY <2>3
  <2>5. ids \in Seq(Ids) /\ Range(ids) = {}
    BY <2>4, FunctionIsSeq DEF Range
  <2> HIDE DEF ids
  <2> QED BY <2>5 DEF ids, n, low
<1>3. CASE Room # {}
  <2>1. low \in Room /\ low \in 1 .. MaxRows /\ \A x \in Room : low <= x
    BY <1>1, <1>3, MinFacts
  <2> HIDE DEF low
  <2>2. Room = low .. MaxRows
    <3>1. \A x \in low .. MaxRows : x \in Room
      <4>1. \A x \in low .. MaxRows : x \in Ids /\ (x = low \/ low < x)
        BY <1>1, <2>1
      <4> QED BY <1>1, <2>1, <4>1 DEF RoomLast
    <3>2. \A x \in Room : x \in low .. MaxRows
      BY <1>1, <2>1
    <3> QED BY <3>1, <3>2
  <2>3. Cardinality(Room) = MaxRows - low + 1
    BY <1>1, <2>1, <2>2, FS_Interval
  <2>4. n \in Nat /\ n <= l /\ n <= MaxRows - low + 1
    <3>1. Cardinality(Room) \in Nat
      BY <1>1, <2>1, <2>3
    <3> QED BY <2>3, <3>1, MinOfTwo
  <2> HIDE DEF n
  <2>5. \A k \in 1 .. n : low + k - 1 \in low .. MaxRows /\ low + k - 1 \in Nat
    BY <1>1, <2>1, <2>4
  <2>6. ids \in [1 .. n -> Ids]
    BY <1>1, <2>2, <2>5
  <2>7. ids \in Seq(Ids)
    BY <2>4, <2>6, FunctionIsSeq
  <2>8. Range(ids) = low .. low + n - 1
    <3>1. \A r \in Range(ids) : r \in low .. low + n - 1
      <4>1. \A k \in 1 .. n : low + k - 1 \in low .. low + n - 1
        BY <2>1, <2>4
      <4> QED BY <4>1 DEF Range
    <3>2. ASSUME NEW r \in low .. low + n - 1 PROVE r \in Range(ids)
      <4>1. r - low + 1 \in 1 .. n /\ low + (r - low + 1) - 1 = r
        BY <2>1, <2>4
      <4>2. ids[r - low + 1] = r
        BY <4>1
      <4> QED BY <4>1, <4>2 DEF Range
    <3> QED BY <3>1, <3>2
  <2> HIDE DEF ids
  <2>9. Range(ids) \subseteq Room
    BY <1>1, <2>1, <2>2, <2>4, <2>8
  <2>10. \A r \in Range(ids) : r - low + 1 \in 1 .. l
    BY <2>1, <2>4, <2>8
  <2>11. \A r \in Range(ids), x \in Room : x < r => x \in Range(ids)
    BY <2>1, <2>2, <2>4, <2>8
  <2> QED BY <2>7, <2>9, <2>10, <2>11 DEF ids, low, n
<1> QED BY <1>2, <1>3

-----------------------------------------------------------------------------
(* An actor comes to a place with these locals; the others do not move.      *)
Enters(g, p, l) == pc' = [pc EXCEPT ![g] = p] /\ my' = [my EXCEPT ![g] = l]

LEMMA EntersFits ==
    ASSUME ActorsOK, NEW g \in Actors, NEW p \in Places, NEW l \in Local, Fits(p, l),
           Enters(g, p, l)
    PROVE  /\ ActorsOK' /\ pc'[g] = p /\ my'[g] = l
           /\ \A h \in Actors \ {g} : pc'[h] = pc[h] /\ my'[h] = my[h]
<1>1. pc \in [Actors -> Places] /\ my \in [Actors -> Local] /\ \A h \in Actors : Fits(pc[h], my[h])
  BY DEF ActorsOK
<1>2. /\ pc' \in [Actors -> Places] /\ my' \in [Actors -> Local]
      /\ pc'[g] = p /\ my'[g] = l
      /\ \A h \in Actors \ {g} : pc'[h] = pc[h] /\ my'[h] = my[h]
  BY <1>1 DEF Enters
<1>3. \A h \in Actors : Fits(pc'[h], my'[h])
  BY <1>1, <1>2
<1>4. ActorsOK'
  BY <1>2, <1>3 DEF ActorsOK, Fits
<1> QED BY <1>2, <1>4

LEMMA AtRestFits ==
    AtRest \in Local /\ Fits("idle", AtRest) /\ AtRest.found = None /\ AtRest.todo = <<>>
<1>1. <<>> \in Seq(Sources) /\ <<>> \in Seq(Ids)
  BY EmptySeq
<1>2. AtRest \in Local
  BY <1>1 DEF AtRest, Local
<1>3. AtRest.todo = <<>> /\ AtRest.then = "idle" /\ AtRest.found = None
  BY DEF AtRest
<1> QED BY <1>2, <1>3 DEF Fits, Deciding

(* What is in hand, and the locals around it.                                *)
LEMMA LocalFacts ==
    ASSUME ActorsOK, NEW g \in Actors
    PROVE  /\ my[g] \in Local /\ pc[g] \in Places /\ Fits(pc[g], my[g])
           /\ my[g].sources \in Seq(Sources) /\ my[g].todo \in Seq(Ids)
           /\ my[g].pages \in Feeds \union {<<>>} /\ my[g].gone \in SUBSET Ids
           /\ my[g].decision \in SUBSET Kinds /\ my[g].then \in {"idle", "source"}
           /\ my[g].account \in Accounts \union {None} /\ my[g].found \in Logs \union {None}
           /\ my[g].answer \in Answers \union {None}
           /\ pc[g] \in Deciding \union {"score"} => Hand(g) \in Ids /\ my[g].todo # <<>>
<1>1. my[g] \in Local /\ pc[g] \in Places /\ Fits(pc[g], my[g])
  BY DEF ActorsOK
<1>2. /\ my[g].sources \in Seq(Sources) /\ my[g].todo \in Seq(Ids)
      /\ my[g].pages \in Feeds \union {<<>>} /\ my[g].gone \in SUBSET Ids
      /\ my[g].decision \in SUBSET Kinds /\ my[g].then \in {"idle", "source"}
      /\ my[g].account \in Accounts \union {None} /\ my[g].found \in Logs \union {None}
      /\ my[g].answer \in Answers \union {None}
  BY <1>1 DEF Local
<1>3. pc[g] \in Deciding \union {"score"} => Hand(g) \in Ids /\ my[g].todo # <<>>
  <2>1. SUFFICES ASSUME my[g].todo # <<>> PROVE Hand(g) \in Ids
    BY <1>1 DEF Fits
  <2>2. my[g].todo[1] \in Ids
    BY <1>2, <2>1, ElementOfSeq, EmptySeq, LenProperties
  <2> QED BY <2>2 DEF Hand
<1> QED BY <1>1, <1>2, <1>3

(* The row in hand is done with ...                                          *)
LEMMA EndedFacts ==
    ASSUME ActorsOK, NEW g \in Actors, pc[g] \in Deciding \union {"score"}, Ended(g)
    PROVE  \E p \in {"idle", "source", "score"}, l \in Local :
              Enters(g, p, l) /\ Fits(p, l) /\ l.found = None
<1> DEFINE rest == Tail(my[g].todo)
           place == IF rest = <<>> THEN my[g].then ELSE "score"
           next == [my[g] EXCEPT !.todo = rest, !.found = None, !.answer = None, !.decision = {}]
           l == IF place = "idle" THEN AtRest ELSE next
<1>1. /\ my[g] \in Local /\ Fits(pc[g], my[g]) /\ my[g].todo \in Seq(Ids) /\ my[g].todo # <<>>
      /\ my[g].then \in {"idle", "source"}
  BY LocalFacts
<1>2. rest \in Seq(Ids)
  BY <1>1, HeadTailProperties
<1> HIDE DEF rest
<1>3. /\ next \in Local /\ next.todo = rest /\ next.found = None /\ next.then = my[g].then
      /\ next.account = my[g].account
  BY <1>1, <1>2 DEF Local
<1>4. place \in {"idle", "source", "score"} /\ (place = "score" <=> rest # <<>>)
      /\ (place # "idle" => next.then = "source" \/ place = "score")
      /\ (next.then = "source" => next.account # None)
  BY <1>1, <1>3 DEF Fits
<1>5. Enters(g, place, l)
  <2>1. Goes(g, place)
    BY DEF Ended, rest
  <2>2. my' = [my EXCEPT ![g] = l]
    BY DEF Ended, rest, ActorsOK
  <2> QED BY <2>1, <2>2 DEF Goes, Enters
<1>6. l \in Local /\ l.found = None
  BY <1>3, AtRestFits
<1> HIDE DEF next
<1>7. Fits(place, l)
  <2>1. CASE place = "idle"
    BY <2>1, AtRestFits
  <2>2. CASE place # "idle"
    BY <1>3, <1>4, <2>2 DEF Fits, Deciding
  <2> QED BY <2>1, <2>2
<1> HIDE DEF place, l
<1> QED BY <1>4, <1>5, <1>6, <1>7

(* ... or everything is.                                                     *)
LEMMA RestsFacts ==
    ASSUME NEW g \in Actors, Rests(g) PROVE Enters(g, "idle", AtRest)
BY DEF Rests, Goes, Enters

LEMMA ScoresFacts ==
    ASSUME ActorsOK, NEW g \in Actors, NEW todo \in Seq(Ids), my[g].found = None,
           Scores(g, todo, "idle")
    PROVE  \E p \in {"idle", "score"}, l \in Local :
              Enters(g, p, l) /\ Fits(p, l) /\ l.found = None
<1> DEFINE place == IF todo = <<>> THEN "idle" ELSE "score"
           next == [my[g] EXCEPT !.pages = <<>>, !.todo = todo, !.then = "idle"]
           l == IF todo = <<>> THEN AtRest ELSE next
<1>1. my[g] \in Local /\ my \in [Actors -> Local]
  BY DEF ActorsOK
<1>2. next \in Local /\ next.todo = todo /\ next.found = None /\ next.then = "idle"
  BY <1>1 DEF Local
<1>3. Enters(g, place, l)
  BY <1>1 DEF Scores, Goes, Enters
<1>4. Fits(place, l) /\ l \in Local /\ l.found = None
  <2> HIDE DEF next
  <2>1. CASE todo = <<>>
    BY <2>1, AtRestFits
  <2>2. CASE todo # <<>>
    BY <1>2, <2>2 DEF Fits, Deciding
  <2> QED BY <2>1, <2>2
<1> HIDE DEF l
<1> QED BY <1>3, <1>4

(* The newest of some logs; the decision that is found for a row.            *)
LEMMA NewestOf ==
    ASSUME NEW E, NEW seq \in Seq(E), NEW ks \in SUBSET DOMAIN seq, ks # {}
    PROVE  Max(ks) \in ks /\ Max(ks) \in Nat /\ \A n \in ks : n \in Nat /\ n <= Max(ks)
<1>1. Len(seq) \in Nat /\ DOMAIN seq = 1 .. Len(seq)
  BY LenProperties
<1>2. ks \in SUBSET Nat /\ \A n \in ks : n <= Len(seq)
  BY <1>1
<1> QED BY <1>1, <1>2, MaxFacts

LEMMA ReusableFacts ==
    ASSUME DataOK, NEW r
    PROVE  LET found == {n \in DOMAIN logs : /\ logs[n].row \in live /\ logs[n].row # r
                                             /\ TweetOf(logs[n].row) = TweetOf(r)}
           IN  /\ Reusable(r) \in Logs \union {None}
               /\ Reusable(r) = None <=> found = {}
               /\ found # {} => Reusable(r) = logs[Max(found)] /\ Max(found) \in found
                                /\ \A n \in found : n <= Max(found)
<1> DEFINE found == {n \in DOMAIN logs : /\ logs[n].row \in live /\ logs[n].row # r
                                         /\ TweetOf(logs[n].row) = TweetOf(r)}
<1>1. logs \in Seq(Logs) /\ found \in SUBSET DOMAIN logs
  BY DEF DataOK
<1>2. Reusable(r) = IF found = {} THEN None ELSE logs[Max(found)]
  BY DEF Reusable
<1> HIDE DEF found
<1>3. found # {} => Max(found) \in found /\ \A n \in found : n <= Max(found)
  BY <1>1, NewestOf
<1>4. found # {} => logs[Max(found)] \in Logs
  BY <1>1, <1>3, ElementOfSeq, LenProperties
<1>5. None \notin Logs
  BY ScoringAssumption
<1> QED BY <1>2, <1>3, <1>4, <1>5 DEF found

-----------------------------------------------------------------------------
(* The steps that only move their actor.                                     *)
Quiet(g) ==
    \/ FetchBegins(g) \/ Requests(g) \/ FetchFails(g) \/ WorkerBackfills(g)
    \/ HandlerBackfills(g) \/ HandlerGenerates(g) \/ DeleteSelects(g)
    \/ GenerateRefuses(g) \/ GenerateReuses(g) \/ GenerateAsks(g)
    \/ LLMAnswers(g) \/ DecisionFails(g)
Moves(g, p, l) ==
    /\ Enters(g, p, l) /\ Fits(p, l)
    /\ pc[g] \notin {"like", "reply"} /\ p \notin {"like", "reply"}
    /\ p \in Deciding => l.todo = my[g].todo /\ (pc[g] \in Deciding \/ Hand(g) \in live)
    /\ p = "reuse" => l.found = Reusable(Hand(g))

LEMMA QuietMoves ==
    ASSUME DataOK, ActorsOK, NEW g \in Actors, Quiet(g)
    PROVE  \E p \in Places, l \in Local : Moves(g, p, l)
<1>0. /\ my[g] \in Local /\ pc[g] \in Places /\ Fits(pc[g], my[g])
      /\ my \in [Actors -> Local] /\ pc \in [Actors -> Places]
      /\ live \subseteq Ids
  BY LocalFacts DEF ActorsOK, DataOK
<1> DEFINE Goal == \E p \in Places, l \in Local : Moves(g, p, l)
<1>r. ASSUME NEW p \in {"idle", "source", "score"}, NEW l \in Local, Enters(g, p, l), Fits(p, l),
             pc[g] \notin {"like", "reply"}
      PROVE  Goal
  <2>1. p \in Places
    BY DEF Places
  <2>2. p \notin Deciding /\ p \notin {"like", "reply"} /\ p # "reuse"
    BY DEF Deciding
  <2>3. Moves(g, p, l)
    BY <1>r, <2>2 DEF Moves
  <2> QED BY <2>1, <2>3
<1>1. ASSUME FetchBegins(g) PROVE Goal
  <2>1. PICK a \in Accounts :
           my' = [my EXCEPT ![g] = [AtRest EXCEPT !.account = a, !.sources = SourcesOf[a]]]
    BY <1>1 DEF FetchBegins
  <2> DEFINE l == [AtRest EXCEPT !.account = a, !.sources = SourcesOf[a]]
  <2>2. SourcesOf[a] \in Seq(Sources)
    <3>1. SourcesOf[a] \in Seq(Range(SourcesOf[a])) /\ Range(SourcesOf[a]) \subseteq Sources
      BY ScoringAssumption DEF Sources
    <3>2. /\ Len(SourcesOf[a]) \in Nat
          /\ SourcesOf[a] \in [1 .. Len(SourcesOf[a]) -> Range(SourcesOf[a])]
      BY <3>1, LenProperties
    <3>3. SourcesOf[a] \in [1 .. Len(SourcesOf[a]) -> Sources]
      BY <3>1, <3>2
    <3> QED BY <3>2, <3>3, FunctionIsSeq
  <2>3. l \in Local /\ l.todo = <<>> /\ l.account = a /\ l.found = None /\ l.then = "idle"
    BY <2>2, AtRestFits DEF Local, AtRest
  <2>4. Enters(g, "source", l)
    BY <1>1, <2>1 DEF FetchBegins, Goes, Enters
  <2>5. a # None
    BY ScoringAssumption
  <2> HIDE DEF l
  <2>6. Fits("source", l)
    BY <2>3, <2>5 DEF Fits, Deciding
  <2>7. pc[g] = "idle"
    BY <1>1 DEF FetchBegins
  <2> QED BY <1>r, <2>3, <2>4, <2>6, <2>7
<1>2. ASSUME Requests(g) PROVE Goal
  <2>1. PICK pages \in Feeds : my' = [my EXCEPT ![g].pages = pages]
    BY <1>2 DEF Requests
  <2> DEFINE l == [my[g] EXCEPT !.pages = pages]
  <2>2. /\ l \in Local /\ l.todo = my[g].todo /\ l.account = my[g].account /\ l.found = my[g].found
        /\ l.then = my[g].then /\ l.sources = my[g].sources
    BY <1>0 DEF Local
  <2>3. Enters(g, "persist", l)
    BY <1>0, <1>2, <2>1 DEF Requests, Goes, Enters
  <2>4. pc[g] = "source" /\ my[g].sources # <<>>
    BY <1>2 DEF Requests
  <2> HIDE DEF l
  <2>5. Fits("persist", l)
    BY <1>0, <2>2, <2>4 DEF Fits, Deciding
  <2>6. Moves(g, "persist", l) /\ "persist" \in Places
    BY <2>2, <2>3, <2>4, <2>5 DEF Moves, Deciding, Places
  <2> QED BY <2>2, <2>6
<1>3. ASSUME FetchFails(g) PROVE Goal
  <2>1. Enters(g, "idle", AtRest) /\ pc[g] \in {"source", "persist"}
    BY <1>3, RestsFacts DEF FetchFails
  <2> QED BY <1>r, <2>1, AtRestFits
<1>4. ASSUME NEW todo \in Seq(Ids), Scores(g, todo, "idle"), pc[g] \in {"source", "idle"} PROVE Goal
  <2>1. my[g].found = None
    BY <1>0, <1>4 DEF Fits
  <2>2. PICK p \in {"idle", "score"}, l \in Local : Enters(g, p, l) /\ Fits(p, l)
    BY <1>4, <2>1, ScoresFacts
  <2> QED BY <1>4, <1>r, <2>2
<1>5. ASSUME WorkerBackfills(g) PROVE Goal
  <2>1. PICK old : Scores(g, Candidates(my[g].account, old), "idle")
    BY <1>5 DEF WorkerBackfills
  <2> QED BY <1>0, <1>4, <1>5, <2>1, CandidatesType DEF WorkerBackfills
<1>6. ASSUME HandlerBackfills(g) PROVE Goal
  <2>1. PICK a, old : Scores(g, Candidates(a, old), "idle")
    BY <1>6 DEF HandlerBackfills
  <2> QED BY <1>0, <1>4, <1>6, <2>1, CandidatesType DEF HandlerBackfills
<1>7. ASSUME HandlerGenerates(g) PROVE Goal
  <2>1. PICK r \in live : Scores(g, <<r>>, "idle")
    BY <1>7 DEF HandlerGenerates
  <2>2. <<r>> \in Seq(Ids)
    BY <1>0
  <2> QED BY <1>4, <1>7, <2>1, <2>2 DEF HandlerGenerates
<1>8. ASSUME DeleteSelects(g) PROVE Goal
  <2>1. PICK gone \in SUBSET live : my' = [my EXCEPT ![g].gone = gone]
    BY <1>8 DEF DeleteSelects
  <2> DEFINE l == [my[g] EXCEPT !.gone = gone]
  <2>2. gone \in SUBSET Ids
    BY <1>0
  <2>3. /\ l \in Local /\ l.todo = my[g].todo /\ l.account = my[g].account /\ l.found = my[g].found
        /\ l.then = my[g].then /\ l.sources = my[g].sources
    BY <1>0, <2>2 DEF Local
  <2>4. Enters(g, "delete", l)
    BY <1>0, <1>8, <2>1 DEF DeleteSelects, Goes, Enters
  <2>5. pc[g] = "idle" /\ my[g].todo = <<>> /\ my[g].then = "idle"
    BY <1>0, <1>8 DEF DeleteSelects, Fits, AtRest
  <2> HIDE DEF l
  <2>6. Fits("delete", l)
    BY <1>0, <2>3, <2>5 DEF Fits, Deciding
  <2>7. Moves(g, "delete", l) /\ "delete" \in Places
    BY <2>4, <2>5, <2>6 DEF Moves, Deciding, Places
  <2> QED BY <2>3, <2>7
<1>9. ASSUME Ended(g), pc[g] \in {"score", "ask", "answered"} PROVE Goal
  <2>1. PICK p \in {"idle", "source", "score"}, l \in Local : Enters(g, p, l) /\ Fits(p, l)
    BY <1>9, EndedFacts DEF Deciding
  <2> QED BY <1>9, <1>r, <2>1
<1>10. GenerateRefuses(g) => Goal
  BY <1>9 DEF GenerateRefuses
<1>11. ASSUME GenerateReuses(g) PROVE Goal
  <2> DEFINE f == Reusable(Hand(g))
             l == [my[g] EXCEPT !.found = f]
  <2>1. f \in Logs /\ f # None
    BY <1>11, ReusableFacts DEF GenerateReuses
  <2>2. Enters(g, "reuse", l) /\ pc[g] = "score" /\ Hand(g) \in live
    BY <1>0, <1>11 DEF GenerateReuses, Goes, Enters
  <2> HIDE DEF f
  <2>3. /\ l \in Local /\ l.todo = my[g].todo /\ l.account = my[g].account /\ l.found = f
        /\ l.then = my[g].then /\ l.sources = my[g].sources
    BY <1>0, <2>1 DEF Local
  <2> HIDE DEF l
  <2>4. Fits("reuse", l)
    BY <1>0, <2>1, <2>2, <2>3 DEF Fits, Deciding
  <2>5. Moves(g, "reuse", l) /\ "reuse" \in Places
    BY <2>2, <2>3, <2>4 DEF Moves, Deciding, Places, f
  <2> QED BY <2>3, <2>5
<1>12. ASSUME GenerateAsks(g) PROVE Goal
  <2>1. Enters(g, "ask", my[g]) /\ pc[g] = "score" /\ Hand(g) \in live
    BY <1>0, <1>12 DEF GenerateAsks, Goes, Enters
  <2>2. Fits("ask", my[g])
    BY <1>0, <2>1 DEF Fits, Deciding
  <2>3. Moves(g, "ask", my[g]) /\ "ask" \in Places
    BY <2>1, <2>2 DEF Moves, Deciding, Places
  <2> QED BY <1>0, <2>3
<1>13. ASSUME LLMAnswers(g) PROVE Goal
  <2>1. PICK answer \in Answers : my' = [my EXCEPT ![g].answer = answer]
    BY <1>13 DEF LLMAnswers
  <2> DEFINE l == [my[g] EXCEPT !.answer = answer]
  <2>2. /\ l \in Local /\ l.todo = my[g].todo /\ l.account = my[g].account /\ l.found = my[g].found
        /\ l.then = my[g].then /\ l.sources = my[g].sources /\ l.answer = answer
    BY <1>0 DEF Local
  <2>3. Enters(g, "answered", l) /\ pc[g] = "ask"
    BY <1>0, <1>13, <2>1 DEF LLMAnswers, Goes, Enters
  <2>4. answer # None
    BY ScoringAssumption
  <2> HIDE DEF l
  <2>5. Fits("answered", l)
    BY <1>0, <2>2, <2>3, <2>4 DEF Fits, Deciding
  <2>6. Moves(g, "answered", l) /\ "answered" \in Places
    BY <2>2, <2>3, <2>5 DEF Moves, Deciding, Places
  <2> QED BY <2>2, <2>6
<1>14. DecisionFails(g) => Goal
  BY <1>9 DEF DecisionFails
<1> HIDE DEF Goal
<1>15. Goal
  BY <1>1, <1>2, <1>3, <1>5, <1>6, <1>7, <1>8, <1>10, <1>11, <1>12, <1>13, <1>14 DEF Quiet
<1> QED BY <1>15 DEF Goal

-----------------------------------------------------------------------------
(* What is stored gets the first ids that are left.                          *)
Stored(fresh) ==
    /\ live' = live \union fresh /\ key' \in [Ids -> Rows \union {None}]
    /\ \A r \in Ids \ fresh : key'[r] = key[r]
    /\ \A r \in fresh : key'[r] \in Rows
    /\ \A r \in fresh, x \in Room : x < r => x \in fresh

LEMMA PersistsFacts ==
    ASSUME DataOK, ActorsOK, RoomLast, NEW w \in Actors, Persists(w)
    PROVE  /\ \E fresh \in SUBSET Room : Stored(fresh)
           /\ \E p \in {"source", "score"}, l \in Local :
                 Enters(w, p, l) /\ Fits(p, l) /\ pc[w] = "persist"
<1> DEFINE a == my[w].account
           s == Head(my[w].sources)
           all == Collected(s, my[w].pages)
           ks == {n \in DOMAIN all :
                    [account |-> a, source |-> s, tweet |-> all[n]] \notin {key[r] : r \in live}}
           new == Part(all, ks)
           ids == [n \in 1 .. Min({Len(new), Cardinality(Room)}) |-> Min(Room) + n - 1]
           next(todo) == [my[w] EXCEPT !.pages = <<>>, !.sources = Tail(@),
                                       !.todo = todo, !.then = "source"]
<1>1. /\ pc[w] = "persist"
      /\ key' = [r \in Ids |->
                   IF r \in Range(ids)
                   THEN [account |-> a, source |-> s, tweet |-> new[r - Min(Room) + 1]]
                   ELSE key[r]]
      /\ live' = live \union Range(ids)
      /\ \E todo \in {ids, <<>>} :
            /\ Goes(w, IF todo = <<>> THEN "source" ELSE "score")
            /\ my' = [my EXCEPT ![w] = next(todo)]
  <2>1. pc[w] = "persist"
    BY DEF Persists
  <2>2. live' = live \union Range(ids)
    BY DEF Persists, Filter
  <2>3. key' = [r \in Ids |->
                   IF r \in Range(ids)
                   THEN [account |-> a, source |-> s, tweet |-> new[r - Min(Room) + 1]]
                   ELSE key[r]]
    BY DEF Persists, Filter
  <2>4. \E todo \in {ids, <<>>} :
            /\ Goes(w, IF todo = <<>> THEN "source" ELSE "score")
            /\ my' = [my EXCEPT ![w].pages = <<>>, ![w].sources = Tail(@),
                                ![w].todo = todo, ![w].then = "source"]
    BY DEF Persists, Filter
  <2>5. ASSUME NEW todo
        PROVE  [my EXCEPT ![w].pages = <<>>, ![w].sources = Tail(@),
                          ![w].todo = todo, ![w].then = "source"]
               = [my EXCEPT ![w] = next(todo)]
    BY DEF ActorsOK
  <2> HIDE DEF ids, next
  <2>6. \E todo \in {ids, <<>>} :
            /\ Goes(w, IF todo = <<>> THEN "source" ELSE "score")
            /\ my' = [my EXCEPT ![w] = next(todo)]
    BY <2>4, <2>5
  <2> QED BY <2>1, <2>2, <2>3, <2>6
<1>2. /\ my[w] \in Local /\ Fits("persist", my[w]) /\ my[w].sources \in Seq(Sources)
      /\ my[w].sources # <<>> /\ a \in Accounts /\ my[w].pages \in Seq(Seq(Tweets))
      /\ my[w].found = None
  <2>1. /\ my[w] \in Local /\ Fits("persist", my[w]) /\ my[w].sources \in Seq(Sources)
        /\ a \in Accounts \union {None} /\ my[w].pages \in Feeds \union {<<>>}
    BY <1>1, LocalFacts
  <2>2. my[w].sources # <<>> /\ a # None /\ my[w].found = None
    BY <2>1 DEF Fits
  <2>3. <<>> \in Seq(Seq(Tweets)) /\ Feeds \subseteq Seq(Seq(Tweets))
    BY EmptySeq, ScoringAssumption
  <2> QED BY <2>1, <2>2, <2>3
<1>3. s \in Sources /\ Tail(my[w].sources) \in Seq(Sources)
  BY <1>2, HeadTailProperties
<1>4. all \in Seq(Tweets) /\ new \in Seq(Tweets) /\ Len(new) \in Nat
  <2>1. all \in Seq(Tweets)
    BY <1>2, CollectedType
  <2>2. ks \in SUBSET DOMAIN all
    OBVIOUS
  <2> HIDE DEF all, ks
  <2>3. new \in Seq(Tweets)
    BY <2>1, <2>2, PartFacts
  <2> QED BY <2>1, <2>3, LenProperties
<1> HIDE DEF new, a, s
<1>5. /\ ids \in Seq(Ids) /\ Range(ids) \subseteq Room
      /\ \A r \in Range(ids) : r - Min(Room) + 1 \in 1 .. Len(new)
      /\ \A r \in Range(ids), x \in Room : x < r => x \in Range(ids)
  BY <1>4, RoomFacts
<1> HIDE DEF ids
<1>6. Stored(Range(ids))
  <2>1. ASSUME NEW r \in Range(ids)
        PROVE  [account |-> a, source |-> s, tweet |-> new[r - Min(Room) + 1]] \in Rows
    <3>1. new[r - Min(Room) + 1] \in Tweets
      BY <1>4, <1>5, ElementOfSeq
    <3> QED BY <1>2, <1>3, <3>1 DEF Rows
  <2>2. Range(ids) \subseteq Ids
    BY <1>5 DEF Room
  <2>3. \A r \in Range(ids) :
           key'[r] = [account |-> a, source |-> s, tweet |-> new[r - Min(Room) + 1]]
    BY <1>1, <2>2
  <2>4. \A r \in Ids \ Range(ids) : key'[r] = key[r]
    BY <1>1
  <2>5. \A r \in Range(ids) : key'[r] \in Rows
    BY <2>1, <2>3
  <2>6. \A r \in Ids : key'[r] \in Rows \union {None}
    BY <2>4, <2>5 DEF DataOK
  <2>7. key' = [r \in Ids |-> key'[r]]
    BY <1>1
  <2>8. key' \in [Ids -> Rows \union {None}]
    BY <2>6, <2>7
  <2> QED BY <1>1, <1>5, <2>4, <2>5, <2>8 DEF Stored
<1>7. PICK todo \in {ids, <<>>} :
            /\ Goes(w, IF todo = <<>> THEN "source" ELSE "score")
            /\ my' = [my EXCEPT ![w] = next(todo)]
  BY <1>1
<1>8. todo \in Seq(Ids)
  BY <1>5, <1>7, EmptySeq
<1>9. /\ next(todo) \in Local /\ next(todo).todo = todo /\ next(todo).account = my[w].account
      /\ next(todo).found = my[w].found
  BY <1>2, <1>3, <1>8 DEF Local
<1>10. Enters(w, IF todo = <<>> THEN "source" ELSE "score", next(todo))
  BY <1>7 DEF Enters, Goes
<1> HIDE DEF next
<1>11. Fits(IF todo = <<>> THEN "source" ELSE "score", next(todo))
  <2>1. my[w].account # None
    BY <1>1, <1>2 DEF Fits
  <2> QED BY <1>2, <1>9, <2>1 DEF Fits, Deciding
<1>12. \E p \in {"source", "score"}, l \in Local : Enters(w, p, l) /\ Fits(p, l)
  BY <1>9, <1>10, <1>11
<1> QED BY <1>1, <1>5, <1>6, <1>12

LEMMA DecidesFacts ==
    ASSUME DataOK, ActorsOK, NEW g \in Actors, pc[g] \in {"reuse", "answered"},
           NEW d \in SUBSET Kinds, NEW origin \in Ids \union {None}, Decides(g, d, origin)
    PROVE  /\ Hand(g) \in Ids /\ [row |-> Hand(g), decision |-> d, origin |-> origin] \in Logs
           /\ logs' = Append(logs, [row |-> Hand(g), decision |-> d, origin |-> origin])
           /\ logs' \in Seq(Logs)
           /\ \E l \in Local : /\ Enters(g, "like", l) /\ Fits("like", l)
                               /\ l.todo = my[g].todo /\ l.decision = d
<1>1. /\ my[g] \in Local /\ Fits(pc[g], my[g]) /\ Hand(g) \in Ids /\ my[g].todo # <<>>
      /\ my \in [Actors -> Local]
  BY LocalFacts DEF Deciding, ActorsOK
<1>2. [row |-> Hand(g), decision |-> d, origin |-> origin] \in Logs
  BY <1>1 DEF Logs
<1>3. logs' = Append(logs, [row |-> Hand(g), decision |-> d, origin |-> origin])
  BY DEF Decides
<1>4. logs' \in Seq(Logs)
  BY <1>2, <1>3, AppendProperties DEF DataOK
<1> DEFINE l == [my[g] EXCEPT !.decision = d, !.answer = None]
<1>5. /\ l \in Local /\ l.todo = my[g].todo /\ l.decision = d /\ l.then = my[g].then
      /\ l.account = my[g].account
  BY <1>1 DEF Local
<1>6. Enters(g, "like", l)
  BY <1>1 DEF Decides, Goes, Enters
<1> HIDE DEF l
<1>7. Fits("like", l)
  BY <1>1, <1>5 DEF Fits, Deciding
<1> QED BY <1>1, <1>2, <1>3, <1>4, <1>5, <1>6, <1>7

(* An origin is a row.                                                       *)
LEMMA OriginType ==
    ASSUME NEW found \in Logs PROVE Origin(found) \in Ids
BY DEF Origin, Logs

LEMMA WantedType ==
    ASSUME NEW answer PROVE Wanted(answer) \in SUBSET Kinds
BY DEF Wanted

LEMMA ReuseFacts ==
    ASSUME DataOK, ActorsOK, NEW g \in Actors, pc[g] = "reuse"
    PROVE  /\ my[g].found \in Logs /\ my[g].found.decision \in SUBSET Kinds
           /\ my[g].found.row \in Ids /\ Origin(my[g].found) \in Ids
<1>1. my[g].found \in Logs
  BY LocalFacts DEF Fits
<1> QED BY <1>1, OriginType DEF Logs

LEMMA RequestedType ==
    ASSUME DataOK, ActorsOK, NEW g \in Actors, pc[g] \in Deciding,
           Hand(g) \notin Room, NEW kind \in Kinds, acts' \in Requested(g, kind)
    PROVE  LET k == key[Hand(g)]
               new == [row |-> Hand(g), account |-> k.account, tweet |-> k.tweet, kind |-> kind]
           IN  /\ acts' \subseteq Actions /\ new \in Actions
               /\ acts' \in {acts, acts \union {new}}
               /\ kind \in my[g].decision => acts' = acts \union {new} \/ Has(k, kind)
<1> DEFINE k == key[Hand(g)]
           new == [row |-> Hand(g), account |-> k.account, tweet |-> k.tweet, kind |-> kind]
<1>1. Hand(g) \in Ids
  BY LocalFacts
<1>2. k \in Rows
  BY <1>1 DEF DataOK, Room
<1>3. new \in Actions
  BY <1>1, <1>2 DEF Rows, Actions
<1>4. /\ acts' \in {acts, acts \union {new}}
      /\ kind \in my[g].decision => acts' = acts \union {new} \/ Has(k, kind)
  BY DEF Requested
<1>5. acts' \subseteq Actions
  <2> HIDE DEF new
  <2> QED BY <1>3, <1>4 DEF DataOK
<1> QED BY <1>3, <1>4, <1>5

-----------------------------------------------------------------------------
(* Rows that were ever stored; a row in hand is there, or was deleted so.    *)
Known == doomed \intersect Room = {}
Holding == \A g \in Actors : InHand(g) => Hand(g) \in live \union doomed
Base == TypeOK /\ RoomLast /\ Known /\ Holding

LEMMA NextSteps ==
    ASSUME Next
    PROVE  \E g \in Actors :
              \/ Quiet(g) /\ UNCHANGED <<data, history>>
              \/ Persists(g) \/ ReuseRecords(g) \/ DecisionRecords(g)
              \/ LikeRequests(g) \/ ReplyRequests(g) \/ RequestRaises(g) \/ Stops(g) \/ Deletes(g)
<1> DEFINE Goal(g) ==
              \/ Quiet(g) /\ UNCHANGED <<data, history>>
              \/ Persists(g) \/ ReuseRecords(g) \/ DecisionRecords(g)
              \/ LikeRequests(g) \/ ReplyRequests(g) \/ RequestRaises(g) \/ Stops(g) \/ Deletes(g)
<1>1. ASSUME NEW g, Generation(g) PROVE Goal(g)
  BY <1>1 DEF Generation, Quiet, GenerateRefuses, GenerateReuses, GenerateAsks, LLMAnswers,
     DecisionFails
<1>2. ASSUME NEW w, WorkerStep(w) PROVE Goal(w)
  <2>1. CASE Generation(w)
    BY <1>1, <2>1
  <2>2. CASE Persists(w)
    BY <2>2
  <2>3. CASE FetchBegins(w) \/ Requests(w) \/ FetchFails(w) \/ WorkerBackfills(w)
    BY <2>3 DEF Quiet, FetchBegins, Requests, FetchFails, WorkerBackfills
  <2> QED BY <1>2, <2>1, <2>2, <2>3 DEF WorkerStep
<1>3. ASSUME NEW h, HandlerStep(h) PROVE Goal(h)
  <2>1. CASE Generation(h)
    BY <1>1, <2>1
  <2>2. CASE Deletes(h)
    BY <2>2
  <2>3. CASE HandlerBackfills(h) \/ HandlerGenerates(h) \/ DeleteSelects(h)
    BY <2>3 DEF Quiet, HandlerBackfills, HandlerGenerates, DeleteSelects
  <2> QED BY <1>3, <2>1, <2>2, <2>3 DEF HandlerStep
<1>4. ASSUME NEW g, Stops(g) PROVE Goal(g)
  BY <1>4
<1> HIDE DEF Goal
<1>5. \E g \in Actors : Goal(g)
  BY <1>2, <1>3, <1>4 DEF Next, Actors
<1> QED BY <1>5 DEF Goal

LEMMA HoldingKept ==
    ASSUME ActorsOK, Holding, NEW g \in Actors, NEW p \in Places, NEW l \in Local, Fits(p, l),
           Enters(g, p, l),
           \A h \in Actors : InHand(h) /\ Hand(h) \in live \union doomed
                                => Hand(h) \in live' \union doomed',
           p \in Deciding => /\ l.todo = my[g].todo
                             /\ pc[g] \in Deciding \/ Hand(g) \in live \intersect live'
    PROVE  Holding'
<1>1. /\ pc'[g] = p /\ my'[g] = l
      /\ \A h \in Actors \ {g} : pc'[h] = pc[h] /\ my'[h] = my[h]
  BY EntersFits
<1>2. \A h \in Actors : InHand(h) => Hand(h) \in live' \union doomed'
  BY DEF Holding
<1>3. \A h \in Actors \ {g} : InHand(h)' => (Hand(h))' \in live' \union doomed'
  BY <1>1, <1>2 DEF InHand, Hand
<1>4. InHand(g)' => (Hand(g))' \in live' \union doomed'
  <2>1. SUFFICES ASSUME p \in Deciding PROVE Hand(g) \in live' \union doomed'
    BY <1>1 DEF InHand, Hand
  <2> QED BY <1>2, <2>1 DEF InHand
<1> QED BY <1>3, <1>4 DEF Holding

LEMMA BaseQuiet ==
    ASSUME Base, NEW g \in Actors, Quiet(g), UNCHANGED <<data, history>>
    PROVE  Base'
<1>1. DataOK /\ ActorsOK /\ HistoryOK /\ RoomLast /\ Known /\ Holding
  BY DEF Base, TypeOK
<1>2. PICK p \in Places, l \in Local : Moves(g, p, l)
  BY <1>1, QuietMoves
<1>3. /\ key' = key /\ live' = live /\ logs' = logs /\ acts' = acts
      /\ told' = told /\ interrupted' = interrupted /\ doomed' = doomed /\ bereft' = bereft
      /\ crossed' = crossed
  BY DEF data, history
<1>4. ActorsOK'
  BY <1>1, <1>2, EntersFits DEF Moves
<1>5. DataOK' /\ HistoryOK' /\ RoomLast' /\ Known'
  BY <1>1, <1>3 DEF DataOK, HistoryOK, RoomLast, Known, Room
<1>6. Holding'
  <2>1. /\ Enters(g, p, l) /\ Fits(p, l)
        /\ p \in Deciding => l.todo = my[g].todo /\ (pc[g] \in Deciding \/ Hand(g) \in live)
    BY <1>2 DEF Moves
  <2> QED BY <1>1, <1>3, <2>1, HoldingKept
<1> QED BY <1>4, <1>5, <1>6 DEF Base, TypeOK

LEMMA BasePersists ==
    ASSUME Base, NEW g \in Actors, Persists(g) PROVE Base'
<1>1. DataOK /\ ActorsOK /\ HistoryOK /\ RoomLast /\ Known /\ Holding
  BY DEF Base, TypeOK
<1>2. PICK fresh \in SUBSET Room : Stored(fresh)
  BY <1>1, PersistsFacts
<1>3. PICK p \in {"source", "score"}, l \in Local : Enters(g, p, l) /\ Fits(p, l)
  BY <1>1, PersistsFacts
<1>4. /\ logs' = logs /\ acts' = acts
      /\ told' = told /\ interrupted' = interrupted /\ doomed' = doomed /\ bereft' = bereft
      /\ crossed' = crossed
  BY DEF Persists, history
<1>5. p \in Places /\ p \notin Deciding
  BY DEF Places, Deciding
<1>6. ActorsOK'
  BY <1>1, <1>3, <1>5, EntersFits
<1>7. /\ live' = live \union fresh /\ key' \in [Ids -> Rows \union {None}]
      /\ \A r \in Ids \ fresh : key'[r] = key[r]
      /\ \A r \in fresh : key'[r] \in Rows
      /\ \A r \in fresh, x \in Room : x < r => x \in fresh
  BY <1>2 DEF Stored
<1>8. Room' = Room \ fresh
  <2>1. \A r \in fresh : key'[r] # None
    BY <1>7, ScoringAssumption
  <2> QED BY <1>7, <2>1 DEF Room
<1>9. DataOK'
  BY <1>1, <1>4, <1>7, <1>8 DEF DataOK, Room
<1>10. HistoryOK'
  BY <1>1, <1>4 DEF HistoryOK
<1>11. RoomLast'
  <2>1. \A r, x \in Ids : r \in Room \ fresh /\ r < x => x \in Room \ fresh
    BY <1>1, <1>7 DEF RoomLast
  <2> QED BY <1>8, <2>1 DEF RoomLast
<1>12. Known'
  BY <1>1, <1>4, <1>8 DEF Known
<1>13. Holding'
  BY <1>1, <1>3, <1>4, <1>5, <1>7, HoldingKept
<1> QED BY <1>6, <1>9, <1>10, <1>11, <1>12, <1>13 DEF Base, TypeOK

(* A decision is recorded: told is all that differs.                         *)
LEMMA BaseDecides ==
    ASSUME Base, NEW g \in Actors, pc[g] \in {"reuse", "answered"},
           NEW d \in SUBSET Kinds, NEW origin \in Ids \union {None}, Decides(g, d, origin),
           told' \subseteq Ids \X SUBSET Kinds,
           UNCHANGED <<key, live, acts, interrupted, bereft, doomed>>
    PROVE  Base'
<1>1. DataOK /\ ActorsOK /\ HistoryOK /\ RoomLast /\ Known /\ Holding
  BY DEF Base, TypeOK
<1>2. Hand(g) \in Ids /\ logs' \in Seq(Logs)
  BY <1>1, DecidesFacts
<1>3. PICK l \in Local : Enters(g, "like", l) /\ Fits("like", l) /\ l.todo = my[g].todo
  BY <1>1, DecidesFacts
<1>4. "like" \in Places /\ pc[g] \in Deciding
  BY DEF Places, Deciding
<1>5. ActorsOK'
  BY <1>1, <1>3, <1>4, EntersFits
<1>6. DataOK' /\ RoomLast' /\ Known'
  BY <1>1, <1>2 DEF DataOK, RoomLast, Known, Room
<1>7. crossed' \subseteq Tweets
  <2>1. Hand(g) \in live \union doomed
    BY <1>1, <1>4 DEF Holding, InHand
  <2>2. key[Hand(g)] \in Rows
    BY <1>1, <1>2, <2>1 DEF DataOK, HistoryOK, Known, Room
  <2>3. TweetOf(Hand(g)) \in Tweets
    BY <2>2 DEF TweetOf, Rows
  <2>4. crossed' \subseteq crossed \union {TweetOf(Hand(g))}
    BY DEF Decides
  <2> QED BY <1>1, <2>3, <2>4 DEF HistoryOK
<1>8. HistoryOK'
  BY <1>1, <1>7 DEF HistoryOK
<1>9. Holding'
  BY <1>1, <1>3, <1>4, HoldingKept
<1> QED BY <1>5, <1>6, <1>8, <1>9 DEF Base, TypeOK

LEMMA BaseRecords ==
    ASSUME Base, NEW g \in Actors, ReuseRecords(g) \/ DecisionRecords(g)
    PROVE  Base'
<1>1. DataOK /\ ActorsOK /\ HistoryOK
  BY DEF Base, TypeOK
<1>2. CASE ReuseRecords(g)
  <2>1. /\ pc[g] = "reuse" /\ Decides(g, my[g].found.decision, Origin(my[g].found))
        /\ UNCHANGED <<key, live, acts, told, interrupted, bereft, doomed>>
    BY <1>2 DEF ReuseRecords
  <2>2. my[g].found.decision \in SUBSET Kinds /\ Origin(my[g].found) \in Ids
    BY <1>1, <2>1, ReuseFacts
  <2>3. told' \subseteq Ids \X SUBSET Kinds
    BY <1>1, <2>1 DEF HistoryOK
  <2> QED BY <2>1, <2>2, <2>3, BaseDecides
<1>3. CASE DecisionRecords(g)
  <2>1. /\ pc[g] = "answered" /\ Decides(g, Wanted(my[g].answer), None)
        /\ told' = told \union {<<Hand(g), Wanted(my[g].answer)>>}
        /\ UNCHANGED <<key, live, acts, interrupted, bereft, doomed>>
    BY <1>3 DEF DecisionRecords
  <2>2. Wanted(my[g].answer) \in SUBSET Kinds /\ Hand(g) \in Ids
    BY <1>1, <2>1, WantedType, LocalFacts DEF Deciding
  <2>3. told' \subseteq Ids \X SUBSET Kinds
    BY <1>1, <2>1, <2>2 DEF HistoryOK
  <2> QED BY <2>1, <2>2, <2>3, BaseDecides
<1> QED BY <1>2, <1>3

LEMMA BaseRequests ==
    ASSUME Base, NEW g \in Actors, LikeRequests(g) \/ ReplyRequests(g)
    PROVE  Base'
<1>1. DataOK /\ ActorsOK /\ HistoryOK /\ RoomLast /\ Known /\ Holding
  BY DEF Base, TypeOK
<1>2. pc[g] \in {"like", "reply"} /\ pc[g] \in Deciding
  BY DEF LikeRequests, ReplyRequests, Deciding
<1>3. PICK kind \in Kinds : acts' \in Requested(g, kind)
  BY DEF LikeRequests, ReplyRequests, Kinds
<1>4. /\ key' = key /\ live' = live /\ logs' = logs
      /\ told' = told /\ interrupted' = interrupted /\ doomed' = doomed /\ bereft' = bereft
      /\ crossed' = crossed
  BY DEF LikeRequests, ReplyRequests, history
<1>5. Hand(g) \notin Room
  BY <1>1, <1>2 DEF Holding, InHand, Known, DataOK
<1>6. acts' \subseteq Actions
  BY <1>1, <1>2, <1>3, <1>5, RequestedType
<1>7. PICK p \in Places, l \in Local :
         /\ Enters(g, p, l) /\ Fits(p, l)
         /\ p \in Deciding => l.todo = my[g].todo
  <2>1. CASE LikeRequests(g)
    <3>1. Enters(g, "reply", my[g]) /\ pc[g] = "like"
      BY <1>1, <2>1 DEF LikeRequests, Goes, Enters, ActorsOK
    <3>2. Fits("like", my[g]) /\ my[g] \in Local
      BY <1>1, <3>1, LocalFacts
    <3>3. Fits("reply", my[g]) /\ "reply" \in Places
      BY <3>2 DEF Fits, Deciding, Places
    <3> QED BY <3>1, <3>2, <3>3
  <2>2. CASE ReplyRequests(g)
    <3>1. PICK p \in {"idle", "source", "score"}, l \in Local : Enters(g, p, l) /\ Fits(p, l)
      BY <1>1, <1>2, <2>2, EndedFacts DEF ReplyRequests
    <3>2. p \in Places /\ p \notin Deciding
      BY DEF Places, Deciding
    <3> QED BY <3>1, <3>2
  <2> QED BY <2>1, <2>2
<1>8. ActorsOK'
  BY <1>1, <1>7, EntersFits
<1>9. DataOK' /\ RoomLast' /\ Known' /\ HistoryOK'
  BY <1>1, <1>4, <1>6 DEF DataOK, RoomLast, Known, Room, HistoryOK
<1>10. Holding'
  BY <1>1, <1>2, <1>4, <1>7, HoldingKept
<1> QED BY <1>8, <1>9, <1>10 DEF Base, TypeOK

LEMMA BaseCut ==
    ASSUME Base, NEW g \in Actors, RequestRaises(g) \/ Stops(g)
    PROVE  Base'
<1>1. DataOK /\ ActorsOK /\ HistoryOK /\ RoomLast /\ Known /\ Holding
  BY DEF Base, TypeOK
<1>2. /\ key' = key /\ live' = live /\ logs' = logs /\ acts' = acts
      /\ told' = told /\ doomed' = doomed /\ bereft' = bereft /\ crossed' = crossed
  BY DEF RequestRaises, Stops, data
<1>3. interrupted' \subseteq interrupted \union live
  BY DEF RequestRaises, Stops, Cut
<1>4. PICK p \in {"idle", "source", "score"}, l \in Local : Enters(g, p, l) /\ Fits(p, l)
  <2>1. CASE RequestRaises(g)
    <3>1. Ended(g) /\ pc[g] \in Deciding
      BY <2>1 DEF RequestRaises, Deciding
    <3> QED BY <1>1, <3>1, EndedFacts
  <2>2. CASE Stops(g)
    BY <2>2, RestsFacts, AtRestFits DEF Stops
  <2> QED BY <2>1, <2>2
<1>5. p \in Places /\ p \notin Deciding
  BY DEF Places, Deciding
<1>6. ActorsOK'
  BY <1>1, <1>4, <1>5, EntersFits
<1>7. DataOK' /\ RoomLast' /\ Known' /\ HistoryOK'
  BY <1>1, <1>2, <1>3 DEF DataOK, RoomLast, Known, Room, HistoryOK
<1>8. Holding'
  BY <1>1, <1>2, <1>4, <1>5, HoldingKept
<1> QED BY <1>6, <1>7, <1>8 DEF Base, TypeOK

LEMMA BaseDeletes ==
    ASSUME Base, NEW g \in Actors, Deletes(g) PROVE Base'
<1> DEFINE gone == my[g].gone
           lost == {a \in acts : a.row \in gone}
           ks == {n \in DOMAIN logs : logs[n].row \notin gone}
<1>1. DataOK /\ ActorsOK /\ HistoryOK /\ RoomLast /\ Known /\ Holding
  BY DEF Base, TypeOK
<1>2. /\ key' = key /\ told' = told /\ live' = live \ gone /\ acts' = acts \ lost
      /\ interrupted' = interrupted \ gone /\ crossed' \subseteq crossed
      /\ doomed' = doomed \union {r \in gone : \E h \in Actors : InHand(h) /\ Hand(h) = r}
  BY DEF Deletes
<1>3. bereft' \subseteq bereft \union {<<a.account, a.tweet, a.kind>> : a \in lost}
  BY DEF Deletes
<1>4. logs' = Part(logs, ks)
  BY DEF Deletes, Filter
<1>5. Rests(g)
  BY DEF Deletes
<1>6. gone \subseteq Ids
  BY <1>1, LocalFacts
<1>7. Enters(g, "idle", AtRest) /\ "idle" \in Places /\ "idle" \notin Deciding
  BY <1>5, RestsFacts DEF Places, Deciding
<1>8. ActorsOK'
  BY <1>1, <1>7, AtRestFits, EntersFits
<1>9. logs' \in Seq(Logs)
  <2>1. ks \in SUBSET DOMAIN logs /\ logs \in Seq(Logs)
    BY <1>1 DEF DataOK
  <2> HIDE DEF ks
  <2> QED BY <1>4, <2>1, PartFacts
<1>10. bereft' \subseteq Accounts \X Tweets \X Kinds
  <2>1. \A a \in lost : <<a.account, a.tweet, a.kind>> \in Accounts \X Tweets \X Kinds
    BY <1>1 DEF DataOK, Actions
  <2> HIDE DEF lost
  <2> QED BY <1>1, <1>3, <2>1 DEF HistoryOK
<1> HIDE DEF lost, ks
<1>11. \A h \in Actors : InHand(h) /\ Hand(h) \in live \union doomed
                            => Hand(h) \in live' \union doomed'
  <2> HIDE DEF gone
  <2> QED BY <1>2
<1>12. Holding'
  BY <1>1, <1>7, <1>11, AtRestFits, HoldingKept
<1> HIDE DEF gone
<1>13. DataOK' /\ RoomLast'
  BY <1>1, <1>2, <1>9 DEF DataOK, RoomLast, Room
<1>14. Known'
  <2>1. \A h \in Actors : InHand(h) => Hand(h) \notin Room
    BY <1>1 DEF Holding, Known, DataOK
  <2> QED BY <1>1, <1>2, <2>1 DEF Known, Room
<1>15. HistoryOK'
  BY <1>1, <1>2, <1>6, <1>10 DEF HistoryOK
<1> QED BY <1>8, <1>12, <1>13, <1>14, <1>15 DEF Base, TypeOK

LEMMA BaseHolds == Spec => []Base
<1>1. Init => Base
  <2> SUFFICES ASSUME Init PROVE Base
    OBVIOUS
  <2>1. ActorsOK
    BY AtRestFits DEF Init, ActorsOK, Places
  <2>2. DataOK
    BY EmptySeq DEF Init, DataOK
  <2>3. HistoryOK
    BY DEF Init, HistoryOK
  <2>4. RoomLast /\ Known
    BY DEF Init, RoomLast, Known, Room
  <2>5. Holding
    BY DEF Init, Holding, InHand, Deciding
  <2> QED BY <2>1, <2>2, <2>3, <2>4, <2>5 DEF Base, TypeOK
<1>2. ASSUME Base, [Next]_vars PROVE Base'
  <2>1. CASE Next
    <3>1. PICK g \in Actors :
              \/ Quiet(g) /\ UNCHANGED <<data, history>>
              \/ Persists(g) \/ ReuseRecords(g) \/ DecisionRecords(g)
              \/ LikeRequests(g) \/ ReplyRequests(g) \/ RequestRaises(g) \/ Stops(g) \/ Deletes(g)
      BY <2>1, NextSteps
    <3> QED BY <1>2, <3>1, BaseQuiet, BasePersists, BaseRecords, BaseRequests,
               BaseCut, BaseDeletes
  <2>2. CASE UNCHANGED vars
    BY <1>2, <2>2 DEF vars, data, history, Base, TypeOK, DataOK, ActorsOK, HistoryOK, RoomLast,
       Known, Holding, InHand, Hand, Room, Fits
  <2> QED BY <1>2, <2>1, <2>2
<1> QED BY <1>1, <1>2, PTL DEF Spec

(* TypeOK: every row, log, action and local keeps its shape, whatever the    *)
(* actors do to one another.                                                 *)
THEOREM TypeCorrect == Spec => []TypeOK
<1>1. Base => TypeOK
  BY DEF Base
<1> QED BY <1>1, BaseHolds, PTL

-----------------------------------------------------------------------------
(* One more log; and what a deletion leaves of them, in the same order.      *)
Recorded(log) ==
    /\ DOMAIN logs = 1 .. Len(logs) /\ DOMAIN logs' = 1 .. Len(logs) + 1 /\ Len(logs) \in Nat
    /\ logs'[Len(logs) + 1] = log /\ \A n \in DOMAIN logs : logs'[n] = logs[n]

LEMMA RecordsFacts ==
    ASSUME Base, NEW g \in Actors, ReuseRecords(g) \/ DecisionRecords(g)
    PROVE  \E d \in SUBSET Kinds, origin \in Ids \union {None} :
              /\ Recorded([row |-> Hand(g), decision |-> d, origin |-> origin])
              /\ Decides(g, d, origin) /\ Hand(g) \in live \union doomed
              /\ pc[g] \in Deciding
              /\ \/ /\ pc[g] = "reuse" /\ my[g].found \in Logs
                    /\ d = my[g].found.decision /\ origin = Origin(my[g].found) /\ told' = told
                    /\ origin # None
                 \/ /\ pc[g] = "answered" /\ my[g].found = None
                    /\ origin = None /\ told' = told \union {<<Hand(g), d>>}
              /\ UNCHANGED <<key, live, acts, interrupted, bereft, doomed>>
<1>1. DataOK /\ ActorsOK /\ Holding
  BY DEF Base, TypeOK
<1>2. ASSUME NEW d \in SUBSET Kinds, NEW origin \in Ids \union {None}, Decides(g, d, origin),
             pc[g] \in {"reuse", "answered"}
      PROVE  /\ Recorded([row |-> Hand(g), decision |-> d, origin |-> origin])
             /\ Hand(g) \in live \union doomed /\ pc[g] \in Deciding
  <2>1. /\ logs' = Append(logs, [row |-> Hand(g), decision |-> d, origin |-> origin])
        /\ [row |-> Hand(g), decision |-> d, origin |-> origin] \in Logs
    BY <1>1, <1>2, DecidesFacts
  <2>2. Recorded([row |-> Hand(g), decision |-> d, origin |-> origin])
    BY <1>1, <2>1, AppendProperties, LenProperties DEF Recorded, DataOK
  <2>3. pc[g] \in Deciding
    BY <1>2 DEF Deciding
  <2> QED BY <1>1, <2>2, <2>3 DEF Holding, InHand
<1>3. CASE ReuseRecords(g)
  <2>1. /\ pc[g] = "reuse" /\ Decides(g, my[g].found.decision, Origin(my[g].found))
        /\ UNCHANGED <<key, live, acts, told, interrupted, bereft, doomed>>
    BY <1>3 DEF ReuseRecords
  <2>2. /\ my[g].found \in Logs /\ my[g].found.decision \in SUBSET Kinds
        /\ Origin(my[g].found) \in Ids
    BY <1>1, <2>1, ReuseFacts
  <2>3. Origin(my[g].found) # None
    BY <2>2, ScoringAssumption
  <2> QED BY <1>2, <2>1, <2>2, <2>3
<1>4. CASE DecisionRecords(g)
  <2>1. /\ pc[g] = "answered" /\ Decides(g, Wanted(my[g].answer), None)
        /\ told' = told \union {<<Hand(g), Wanted(my[g].answer)>>}
        /\ UNCHANGED <<key, live, acts, interrupted, bereft, doomed>>
    BY <1>4 DEF DecisionRecords
  <2>2. Wanted(my[g].answer) \in SUBSET Kinds
    BY WantedType
  <2>3. my[g].found = None
    BY <1>1, <2>1 DEF ActorsOK, Fits
  <2> QED BY <1>2, <2>1, <2>2, <2>3
<1> QED BY <1>3, <1>4

Left(gone, at) ==
    /\ at \in [DOMAIN logs' -> DOMAIN logs]
    /\ \A i, k \in DOMAIN logs' : i < k => at[i] < at[k]
    /\ \A i \in DOMAIN logs' : logs'[i] = logs[at[i]] /\ logs[at[i]].row \notin gone
    /\ \A n \in DOMAIN logs : logs[n].row \notin gone => \E i \in DOMAIN logs' : at[i] = n

LEMMA DeletesLogs ==
    ASSUME Base, NEW h \in Actors, Deletes(h)
    PROVE  \E at : Left(my[h].gone, at)
<1> DEFINE gone == my[h].gone
           ks == {n \in DOMAIN logs : logs[n].row \notin gone}
<1>1. logs \in Seq(Logs) /\ ks \in SUBSET DOMAIN logs
  BY DEF Base, TypeOK, DataOK
<1>2. logs' = Part(logs, ks)
  BY DEF Deletes, Filter
<1>3. \A n \in ks : n \in DOMAIN logs /\ logs[n].row \notin gone
  OBVIOUS
<1>4. \A n \in DOMAIN logs : logs[n].row \notin gone => n \in ks
  OBVIOUS
<1> HIDE DEF ks
<1>5. /\ logs' \in Seq(Logs)
      /\ \E at \in [1 .. Len(logs') -> ks] :
            /\ \A i, j \in 1 .. Len(logs') : i < j => at[i] < at[j]
            /\ \A n \in ks : \E i \in 1 .. Len(logs') : at[i] = n
            /\ \A i \in 1 .. Len(logs') : logs'[i] = logs[at[i]]
  <2> DEFINE part == Part(logs, ks)
  <2>1. /\ part \in Seq(Logs)
        /\ \E at \in [1 .. Len(part) -> ks] :
              /\ \A i, j \in 1 .. Len(part) : i < j => at[i] < at[j]
              /\ \A n \in ks : \E i \in 1 .. Len(part) : at[i] = n
              /\ \A i \in 1 .. Len(part) : part[i] = logs[at[i]]
    BY <1>1, PartFacts
  <2>2. logs' = part
    BY <1>2
  <2> HIDE DEF part
  <2> QED BY <2>1, <2>2
<1>6. DOMAIN logs' = 1 .. Len(logs')
  BY <1>5, LenProperties
<1>7. PICK at \in [DOMAIN logs' -> ks] :
            /\ \A i, j \in DOMAIN logs' : i < j => at[i] < at[j]
            /\ \A n \in ks : \E i \in DOMAIN logs' : at[i] = n
            /\ \A i \in DOMAIN logs' : logs'[i] = logs[at[i]]
  BY <1>5, <1>6
<1>8. at \in [DOMAIN logs' -> DOMAIN logs] /\ \A i \in DOMAIN logs' : logs[at[i]].row \notin gone
  BY <1>1, <1>3, <1>7
<1> HIDE DEF gone
<1>9. Left(gone, at)
  BY <1>4, <1>7, <1>8 DEF Left
<1> QED BY <1>9 DEF gone

(* What is reused is told, from when it is found.                            *)
FoundTold ==
    \A g \in Actors :
        pc[g] = "reuse" => <<Origin(my[g].found), my[g].found.decision>> \in told
Traced == NothingDangles /\ ReusedIsTold /\ FoundTold

LEMMA FoundToldKept ==
    ASSUME ActorsOK, FoundTold, NEW g \in Actors, NEW p \in Places, NEW l \in Local, Fits(p, l),
           Enters(g, p, l), told \subseteq told',
           p = "reuse" => <<Origin(l.found), l.found.decision>> \in told
    PROVE  FoundTold'
<1>1. /\ pc'[g] = p /\ my'[g] = l
      /\ \A h \in Actors \ {g} : pc'[h] = pc[h] /\ my'[h] = my[h]
  BY EntersFits
<1>2. \A h \in Actors : pc'[h] = "reuse"
                            => <<Origin(my'[h].found), my'[h].found.decision>> \in told'
  BY <1>1 DEF FoundTold
<1> QED BY <1>2 DEF FoundTold, Origin

LEMMA TracedQuiet ==
    ASSUME Base, Traced, NEW g \in Actors, Quiet(g), UNCHANGED <<data, history>> PROVE Traced'
<1>1. DataOK /\ ActorsOK /\ NothingDangles /\ ReusedIsTold /\ FoundTold
  BY DEF Base, TypeOK, Traced
<1>2. PICK p \in Places, l \in Local : Moves(g, p, l)
  BY <1>1, QuietMoves
<1>3. /\ live' = live /\ logs' = logs /\ acts' = acts /\ told' = told /\ doomed' = doomed
  BY DEF data, history
<1>4. NothingDangles' /\ ReusedIsTold'
  BY <1>1, <1>3 DEF NothingDangles, ReusedIsTold
<1>5. p = "reuse" => <<Origin(l.found), l.found.decision>> \in told
  <2>1. SUFFICES ASSUME p = "reuse" PROVE <<Origin(l.found), l.found.decision>> \in told
    OBVIOUS
  <2>2. l.found = Reusable(Hand(g)) /\ l.found # None
    BY <1>2, <2>1 DEF Moves, Fits
  <2>3. PICK n \in DOMAIN logs : l.found = logs[n]
    BY <1>1, <2>2, ReusableFacts
  <2> QED BY <1>1, <2>3 DEF ReusedIsTold, Origin
<1>6. FoundTold'
  BY <1>1, <1>2, <1>3, <1>5, FoundToldKept DEF Moves
<1> QED BY <1>4, <1>6 DEF Traced

(* Steps that end a generation or store rows, and leave the logs alone.      *)
LEMMA TracedOthers ==
    ASSUME Base, Traced, NEW g \in Actors,
           Persists(g) \/ LikeRequests(g) \/ ReplyRequests(g) \/ RequestRaises(g) \/ Stops(g)
    PROVE  Traced'
<1>1. DataOK /\ ActorsOK /\ NothingDangles /\ ReusedIsTold /\ FoundTold /\ Holding /\ Known /\ RoomLast
  BY DEF Base, TypeOK, Traced
<1>2. logs' = logs /\ told' = told /\ doomed' = doomed /\ live \subseteq live'
  BY DEF Persists, LikeRequests, ReplyRequests, RequestRaises, Stops, data, history
<1>3. PICK p \in Places, l \in Local : Enters(g, p, l) /\ Fits(p, l) /\ p # "reuse"
  <2>1. CASE Persists(g)
    <3>1. PICK p \in {"source", "score"}, l \in Local : Enters(g, p, l) /\ Fits(p, l)
      BY <1>1, <2>1, PersistsFacts
    <3> QED BY <3>1 DEF Places
  <2>2. CASE LikeRequests(g)
    <3>1. Enters(g, "reply", my[g]) /\ pc[g] = "like"
      BY <1>1, <2>2 DEF LikeRequests, Goes, Enters, ActorsOK
    <3>2. Fits("like", my[g]) /\ my[g] \in Local
      BY <1>1, <3>1, LocalFacts
    <3>3. Fits("reply", my[g]) /\ "reply" \in Places
      BY <3>2 DEF Fits, Deciding, Places
    <3> QED BY <3>1, <3>2, <3>3
  <2>3. CASE ReplyRequests(g) \/ RequestRaises(g)
    <3>1. Ended(g) /\ pc[g] \in Deciding
      BY <2>3 DEF ReplyRequests, RequestRaises, Deciding
    <3>2. PICK p \in {"idle", "source", "score"}, l \in Local : Enters(g, p, l) /\ Fits(p, l)
      BY <1>1, <3>1, EndedFacts
    <3> QED BY <3>2 DEF Places
  <2>4. CASE Stops(g)
    BY <2>4, RestsFacts, AtRestFits DEF Stops, Places
  <2> QED BY <2>1, <2>2, <2>3, <2>4
<1>4. FoundTold'
  BY <1>1, <1>2, <1>3, FoundToldKept
<1>5. ReusedIsTold'
  BY <1>1, <1>2 DEF ReusedIsTold
<1>6. \A a \in acts' : a \in acts \/ a.row \in live \union doomed
  <2>1. CASE LikeRequests(g) \/ ReplyRequests(g)
    <3>1. PICK kind \in Kinds : acts' \in Requested(g, kind)
      BY <2>1 DEF LikeRequests, ReplyRequests, Kinds
    <3>2. pc[g] \in Deciding
      BY <2>1 DEF LikeRequests, ReplyRequests, Deciding
    <3>3. Hand(g) \in live \union doomed
      BY <1>1, <3>2 DEF Holding, InHand
    <3>4. \A a \in acts' : a \in acts \/ a.row = Hand(g)
      BY <3>1 DEF Requested
    <3> QED BY <3>3, <3>4
  <2>2. CASE Persists(g) \/ RequestRaises(g) \/ Stops(g)
    BY <2>2 DEF Persists, RequestRaises, Stops, data
  <2> QED BY <2>1, <2>2
<1>7. NothingDangles'
  <2>1. \A n \in DOMAIN logs : logs[n].row \in live \union doomed
    BY <1>1 DEF NothingDangles
  <2>2. \A a \in acts : a.row \in live \union doomed
    BY <1>1 DEF NothingDangles
  <2>3. \A n \in DOMAIN logs' : logs'[n].row \in live' \union doomed'
    BY <1>2, <2>1
  <2>4. \A a \in acts' : a.row \in live' \union doomed'
    BY <1>2, <1>6, <2>2
  <2> QED BY <2>3, <2>4 DEF NothingDangles
<1> QED BY <1>4, <1>5, <1>7 DEF Traced

LEMMA TracedRecords ==
    ASSUME Base, Traced, NEW g \in Actors, ReuseRecords(g) \/ DecisionRecords(g) PROVE Traced'
<1>1. DataOK /\ ActorsOK /\ NothingDangles /\ ReusedIsTold /\ FoundTold
  BY DEF Base, TypeOK, Traced
<1>2. PICK d \in SUBSET Kinds, origin \in Ids \union {None} :
              /\ Recorded([row |-> Hand(g), decision |-> d, origin |-> origin])
              /\ Decides(g, d, origin) /\ Hand(g) \in live \union doomed
              /\ \/ /\ pc[g] = "reuse" /\ my[g].found \in Logs
                    /\ d = my[g].found.decision /\ origin = Origin(my[g].found) /\ told' = told
                    /\ origin # None
                 \/ /\ pc[g] = "answered" /\ my[g].found = None
                    /\ origin = None /\ told' = told \union {<<Hand(g), d>>}
              /\ UNCHANGED <<key, live, acts, interrupted, bereft, doomed>>
  BY RecordsFacts
<1> DEFINE log == [row |-> Hand(g), decision |-> d, origin |-> origin]
           by(x) == IF x.origin = None THEN x.row ELSE x.origin
<1>3. \A n \in DOMAIN logs' : (n \in DOMAIN logs /\ logs'[n] = logs[n]) \/ logs'[n] = log
  BY <1>2 DEF Recorded
<1>4. NothingDangles'
  <2>1. \A n \in DOMAIN logs : logs[n].row \in live \union doomed
    BY <1>1 DEF NothingDangles
  <2>2. \A n \in DOMAIN logs' : logs'[n].row \in live' \union doomed'
    BY <1>2, <1>3, <2>1
  <2>3. \A a \in acts' : a.row \in live' \union doomed'
    BY <1>1, <1>2 DEF NothingDangles
  <2> QED BY <2>2, <2>3 DEF NothingDangles
<1>5. told \subseteq told' /\ <<by(log), d>> \in told'
  <2>1. CASE pc[g] = "reuse"
    BY <1>1, <1>2, <2>1 DEF FoundTold
  <2>2. CASE pc[g] = "answered"
    BY <1>2, <2>2
  <2> QED BY <1>2, <2>1, <2>2
<1>6. ReusedIsTold'
  <2>1. \A n \in DOMAIN logs : <<by(logs[n]), logs[n].decision>> \in told
    BY <1>1 DEF ReusedIsTold
  <2>2. log.decision = d
    OBVIOUS
  <2> HIDE DEF log
  <2>3. \A n \in DOMAIN logs' : <<by(logs'[n]), logs'[n].decision>> \in told'
    BY <1>3, <1>5, <2>1, <2>2
  <2> QED BY <2>3 DEF ReusedIsTold
<1>7. PICK l \in Local : Enters(g, "like", l) /\ Fits("like", l)
  BY <1>1, <1>2, DecidesFacts
<1>8. "like" \in Places
  BY DEF Places
<1>9. FoundTold'
  BY <1>1, <1>5, <1>7, <1>8, FoundToldKept
<1> QED BY <1>4, <1>6, <1>9 DEF Traced

LEMMA TracedDeletes ==
    ASSUME Base, Traced, NEW h \in Actors, Deletes(h) PROVE Traced'
<1> DEFINE gone == my[h].gone
<1>1. DataOK /\ ActorsOK /\ NothingDangles /\ ReusedIsTold /\ FoundTold
  BY DEF Base, TypeOK, Traced
<1>2. PICK at : Left(gone, at)
  BY DeletesLogs
<1>3. /\ live' = live \ gone /\ acts' = {a \in acts : a.row \notin gone}
      /\ doomed \subseteq doomed' /\ told' = told /\ Rests(h)
  BY DEF Deletes
<1> HIDE DEF gone
<1>4. \A i \in DOMAIN logs' : /\ at[i] \in DOMAIN logs /\ logs'[i] = logs[at[i]]
                              /\ logs'[i].row \notin gone
  BY <1>2 DEF Left
<1>5. NothingDangles'
  <2>1. \A n \in DOMAIN logs : logs[n].row \in live \union doomed
    BY <1>1 DEF NothingDangles
  <2>2. \A a \in acts : a.row \in live \union doomed
    BY <1>1 DEF NothingDangles
  <2>3. \A n \in DOMAIN logs' : logs'[n].row \in live' \union doomed'
    BY <1>3, <1>4, <2>1
  <2>4. \A a \in acts' : a.row \in live' \union doomed'
    BY <1>3, <2>2
  <2> QED BY <2>3, <2>4 DEF NothingDangles
<1>6. ReusedIsTold'
  BY <1>1, <1>3, <1>4 DEF ReusedIsTold
<1>7. Enters(h, "idle", AtRest) /\ "idle" \in Places
  BY <1>3, RestsFacts DEF Places
<1>8. FoundTold'
  BY <1>1, <1>3, <1>7, AtRestFits, FoundToldKept
<1> QED BY <1>5, <1>6, <1>8 DEF Traced

LEMMA TracedHolds == Spec => []Traced
<1>1. Init => Traced
  <2> SUFFICES ASSUME Init PROVE Traced
    OBVIOUS
  <2>1. DOMAIN logs = {} /\ acts = {}
    BY DEF Init
  <2>2. \A g \in Actors : pc[g] # "reuse"
    BY DEF Init
  <2> QED BY <2>1, <2>2 DEF Traced, NothingDangles, ReusedIsTold, FoundTold
<1>2. ASSUME Base, Traced, [Next]_vars PROVE Traced'
  <2>1. CASE Next
    <3>1. PICK g \in Actors :
              \/ Quiet(g) /\ UNCHANGED <<data, history>>
              \/ Persists(g) \/ ReuseRecords(g) \/ DecisionRecords(g)
              \/ LikeRequests(g) \/ ReplyRequests(g) \/ RequestRaises(g) \/ Stops(g) \/ Deletes(g)
      BY <2>1, NextSteps
    <3> QED BY <1>2, <3>1, TracedQuiet, TracedOthers, TracedRecords, TracedDeletes
  <2>2. CASE UNCHANGED vars
    BY <1>2, <2>2 DEF vars, data, history, Traced, NothingDangles, ReusedIsTold, FoundTold, Origin
  <2> QED BY <1>2, <2>1, <2>2
<1> QED BY <1>1, <1>2, BaseHolds, PTL DEF Spec

(* NothingDangles: logs and actions name rows that are stored, or rows that  *)
(* a generation had in hand when they were deleted.                          *)
THEOREM NothingDanglesHolds == Spec => []NothingDangles
<1>1. Traced => NothingDangles
  BY DEF Traced
<1> QED BY <1>1, TracedHolds, PTL

(* ReusedIsTold: through any number of reuses, across deletions of the rows  *)
(* in between, a decision is the LLM's own about the row it names.           *)
THEOREM ReusedHolds == Spec => []ReusedIsTold
<1>1. Traced => ReusedIsTold
  BY DEF Traced
<1> QED BY <1>1, TracedHolds, PTL

-----------------------------------------------------------------------------
(* An action that a stored row's log asks for, and what has become of it.    *)
Asked(r, kind) == r \in live /\ \E n \in DOMAIN logs : logs[n].row = r /\ kind \in logs[n].decision
Accounted(r, kind) ==
    \/ Has(key[r], kind) \/ Coming(r, kind) \/ r \in interrupted
    \/ <<key[r].account, key[r].tweet, kind>> \in bereft
AllAccounted == \A r \in Ids, kind \in Kinds : Asked(r, kind) => Accounted(r, kind)

LEMMA AllAccountedIs ==
    ASSUME DataOK PROVE AllAccounted <=> DecidedIsActedOn
<1>1. \A n \in DOMAIN logs : logs[n].row \in Ids /\ logs[n].decision \in SUBSET Kinds
  <2>1. logs \in Seq(Logs)
    BY DEF DataOK
  <2>2. \A n \in DOMAIN logs : logs[n] \in Logs
    BY <2>1, ElementOfSeq, LenProperties
  <2> QED BY <2>2 DEF Logs
<1>2. ASSUME AllAccounted PROVE DecidedIsActedOn
  BY <1>1, <1>2 DEF AllAccounted, Asked, Accounted, DecidedIsActedOn
<1>3. ASSUME DecidedIsActedOn PROVE AllAccounted
  BY <1>1, <1>3 DEF AllAccounted, Asked, Accounted, DecidedIsActedOn
<1> QED BY <1>2, <1>3

(* What others are about to request is not touched.                          *)
Requesting(g, r, kind) ==
    /\ pc[g] \in {"like", "reply"} /\ Hand(g) = r /\ kind \in my[g].decision
    /\ pc[g] = "like" \/ kind = "reply"

LEMMA ComingKept ==
    ASSUME ActorsOK, NEW g \in Actors, NEW p \in Places, NEW l \in Local, Fits(p, l),
           Enters(g, p, l), NEW r, NEW kind, Coming(r, kind), ~Requesting(g, r, kind)
    PROVE  Coming(r, kind)'
<1>1. \A h \in Actors \ {g} : pc'[h] = pc[h] /\ my'[h] = my[h]
  BY EntersFits
<1>2. PICK h \in Actors : /\ InHand(h) /\ Hand(h) = r /\ kind \in my[h].decision
                          /\ pc[h] = "like" \/ (pc[h] = "reply" /\ kind = "reply")
  BY DEF Coming
<1>3. h # g
  BY <1>2 DEF Requesting
<1>4. pc'[h] = pc[h] /\ my'[h] = my[h]
  BY <1>1, <1>3
<1> QED BY <1>2, <1>4 DEF Coming, InHand, Hand

LEMMA AccountedKept ==
    ASSUME ActorsOK, NEW g \in Actors, NEW p \in Places, NEW l \in Local, Fits(p, l),
           Enters(g, p, l), NEW r, NEW kind, Accounted(r, kind), ~Requesting(g, r, kind),
           key'[r] = key[r], acts \subseteq acts', interrupted \subseteq interrupted',
           bereft \subseteq bereft'
    PROVE  Accounted(r, kind)'
<1>1. Has(key[r], kind) => Has(key[r], kind)'
  BY DEF Has
<1>2. Coming(r, kind) => Coming(r, kind)'
  BY ComingKept
<1> QED BY <1>1, <1>2 DEF Accounted

LEMMA ActedQuiet ==
    ASSUME Base, AllAccounted, NEW g \in Actors, Quiet(g), UNCHANGED <<data, history>>
    PROVE  AllAccounted'
<1>1. DataOK /\ ActorsOK
  BY DEF Base, TypeOK
<1>2. PICK p \in Places, l \in Local : Moves(g, p, l)
  BY <1>1, QuietMoves
<1>3. /\ key' = key /\ live' = live /\ logs' = logs /\ acts' = acts
      /\ interrupted' = interrupted /\ bereft' = bereft
  BY DEF data, history
<1>4. ASSUME NEW r \in Ids, NEW kind \in Kinds, Asked(r, kind)' PROVE Accounted(r, kind)'
  <2>1. Asked(r, kind)
    BY <1>3, <1>4 DEF Asked
  <2>2. Accounted(r, kind)
    BY <2>1 DEF AllAccounted
  <2>3. Enters(g, p, l) /\ Fits(p, l) /\ ~Requesting(g, r, kind)
    BY <1>2 DEF Moves, Requesting
  <2> QED BY <1>1, <1>3, <2>2, <2>3, AccountedKept
<1> QED BY <1>4 DEF AllAccounted

LEMMA ActedPersists ==
    ASSUME Base, Traced, AllAccounted, NEW g \in Actors, Persists(g) PROVE AllAccounted'
<1>1. DataOK /\ ActorsOK /\ RoomLast /\ Known /\ NothingDangles
  BY DEF Base, TypeOK, Traced
<1>2. PICK fresh \in SUBSET Room : Stored(fresh)
  BY <1>1, PersistsFacts
<1>3. PICK p \in {"source", "score"}, l \in Local : Enters(g, p, l) /\ Fits(p, l) /\ pc[g] = "persist"
  BY <1>1, PersistsFacts
<1>4. logs' = logs /\ acts' = acts /\ interrupted' = interrupted /\ bereft' = bereft /\ p \in Places
  BY DEF Persists, history, Places
<1>5. /\ live' = live \union fresh /\ \A r \in Ids \ fresh : key'[r] = key[r]
  BY <1>2 DEF Stored
<1>6. ASSUME NEW r \in Ids, NEW kind \in Kinds, Asked(r, kind)' PROVE Accounted(r, kind)'
  <2>1. \E n \in DOMAIN logs : logs[n].row = r /\ kind \in logs[n].decision
    BY <1>4, <1>6 DEF Asked
  <2>2. r \in live \union doomed
    BY <1>1, <2>1 DEF NothingDangles
  <2>3. r \notin Room
    BY <1>1, <2>2 DEF DataOK, Known
  <2>4. r \notin fresh /\ key'[r] = key[r] /\ r \in live
    BY <1>5, <1>6, <2>3 DEF Asked
  <2>5. Accounted(r, kind)
    BY <2>1, <2>4 DEF AllAccounted, Asked
  <2>6. ~Requesting(g, r, kind)
    BY <1>3 DEF Requesting
  <2> QED BY <1>1, <1>3, <1>4, <2>4, <2>5, <2>6, AccountedKept
<1> QED BY <1>6 DEF AllAccounted

LEMMA ActedRecords ==
    ASSUME Base, AllAccounted, NEW g \in Actors, ReuseRecords(g) \/ DecisionRecords(g)
    PROVE  AllAccounted'
<1>1. DataOK /\ ActorsOK
  BY DEF Base, TypeOK
<1>2. PICK d \in SUBSET Kinds, origin \in Ids \union {None} :
              /\ Recorded([row |-> Hand(g), decision |-> d, origin |-> origin])
              /\ Decides(g, d, origin) /\ pc[g] \in {"reuse", "answered"}
              /\ UNCHANGED <<key, live, acts, interrupted, bereft, doomed>>
  BY RecordsFacts
<1>3. PICK l \in Local : /\ Enters(g, "like", l) /\ Fits("like", l)
                         /\ l.todo = my[g].todo /\ l.decision = d
  BY <1>1, <1>2, DecidesFacts
<1>4. "like" \in Places /\ "like" \in Deciding
  BY DEF Places, Deciding
<1>5. pc'[g] = "like" /\ my'[g] = l
  BY <1>1, <1>3, <1>4, EntersFits
<1>6. ASSUME NEW r \in Ids, NEW kind \in Kinds, Asked(r, kind)' PROVE Accounted(r, kind)'
  <2>1. CASE Asked(r, kind)
    <3>1. Accounted(r, kind)
      BY <2>1 DEF AllAccounted
    <3>2. ~Requesting(g, r, kind)
      BY <1>2 DEF Requesting
    <3> QED BY <1>1, <1>2, <1>3, <1>4, <3>1, <3>2, AccountedKept
  <2>2. CASE ~Asked(r, kind)
    <3>1. r = Hand(g) /\ kind \in d
      BY <1>2, <1>6, <2>2 DEF Asked, Recorded
    <3>2. Coming(r, kind)'
      BY <1>3, <1>4, <1>5, <3>1 DEF Coming, InHand, Hand
    <3> QED BY <3>2 DEF Accounted
  <2> QED BY <2>1, <2>2
<1> QED BY <1>6 DEF AllAccounted

LEMMA ActedRequests ==
    ASSUME Base, AllAccounted, NEW g \in Actors, LikeRequests(g) \/ ReplyRequests(g)
    PROVE  AllAccounted'
<1>1. DataOK /\ ActorsOK /\ Holding /\ Known
  BY DEF Base, TypeOK
<1>2. pc[g] \in Deciding
  BY DEF LikeRequests, ReplyRequests, Deciding
<1>3. Hand(g) \in Ids /\ Hand(g) \notin Room
  BY <1>1, <1>2, LocalFacts DEF Holding, InHand, Known, DataOK
<1>h. PICK it \in Ids : it = Hand(g)
  BY <1>3
<1>4. key' = key /\ live' = live /\ logs' = logs /\ interrupted' = interrupted /\ bereft' = bereft
  BY DEF LikeRequests, ReplyRequests, history
<1>5. ASSUME NEW kind \in Kinds, acts' \in Requested(g, kind)
      PROVE  acts \subseteq acts' /\ (kind \in my[g].decision => Has(key[it], kind)')
  <2> DEFINE k == key[Hand(g)]
             new == [row |-> Hand(g), account |-> k.account, tweet |-> k.tweet, kind |-> kind]
  <2>1. /\ acts' \in {acts, acts \union {new}}
        /\ kind \in my[g].decision => acts' = acts \union {new} \/ Has(k, kind)
    BY <1>1, <1>2, <1>3, <1>5, RequestedType
  <2>2. new.account = k.account /\ new.tweet = k.tweet /\ new.kind = kind
    OBVIOUS
  <2> HIDE DEF new
  <2>3. acts \subseteq acts'
    BY <2>1
  <2>4. ASSUME kind \in my[g].decision
        PROVE  \E a \in acts' : a.account = k.account /\ a.tweet = k.tweet /\ a.kind = kind
    BY <2>1, <2>2, <2>3, <2>4 DEF Has
  <2> QED BY <1>h, <1>4, <2>3, <2>4 DEF Has
<1>6. PICK p \in Places, l \in Local :
         /\ Enters(g, p, l) /\ Fits(p, l) /\ acts \subseteq acts'
         /\ \A kind \in Kinds : \A r : Requesting(g, r, kind) =>
               \/ Has(key[it], kind)'
               \/ p = "reply" /\ l = my[g] /\ kind = "reply"
  <2>1. CASE LikeRequests(g)
    <3>1. Enters(g, "reply", my[g]) /\ pc[g] = "like" /\ acts' \in Requested(g, "like")
      BY <1>1, <2>1 DEF LikeRequests, Goes, Enters, ActorsOK
    <3>2. Fits("like", my[g]) /\ my[g] \in Local
      BY <1>1, <3>1, LocalFacts
    <3>3. Fits("reply", my[g]) /\ "reply" \in Places
      BY <3>2 DEF Fits, Deciding, Places
    <3>4. acts \subseteq acts' /\ ("like" \in my[g].decision => Has(key[it], "like")')
      BY <1>5, <3>1 DEF Kinds
    <3>5. \A kind \in Kinds : \A r : Requesting(g, r, kind) =>
               Has(key[it], kind)' \/ kind = "reply"
      BY <3>4 DEF Requesting, Kinds
    <3> QED BY <3>1, <3>2, <3>3, <3>4, <3>5
  <2>2. CASE ReplyRequests(g)
    <3>1. Ended(g) /\ pc[g] = "reply" /\ acts' \in Requested(g, "reply")
      BY <2>2 DEF ReplyRequests
    <3>2. PICK p \in {"idle", "source", "score"}, l \in Local : Enters(g, p, l) /\ Fits(p, l)
      BY <1>1, <1>2, <3>1, EndedFacts
    <3>3. acts \subseteq acts' /\ ("reply" \in my[g].decision => Has(key[it], "reply")')
      BY <1>5, <3>1 DEF Kinds
    <3>4. \A kind \in Kinds : \A r : Requesting(g, r, kind) => Has(key[it], kind)'
      BY <3>1, <3>3 DEF Requesting, Kinds
    <3> QED BY <3>2, <3>3, <3>4 DEF Places
  <2> QED BY <2>1, <2>2
<1>7. /\ pc'[g] = p /\ my'[g] = l
  BY <1>1, <1>6, EntersFits
<1>8. ASSUME NEW r \in Ids, NEW kind \in Kinds, Asked(r, kind)' PROVE Accounted(r, kind)'
  <2>1. Asked(r, kind)
    BY <1>4, <1>8 DEF Asked
  <2>2. Accounted(r, kind)
    BY <2>1 DEF AllAccounted
  <2>3. CASE ~Requesting(g, r, kind)
    BY <1>1, <1>4, <1>6, <2>2, <2>3, AccountedKept
  <2>4. CASE Requesting(g, r, kind)
    <3>1. Hand(g) = r /\ kind \in my[g].decision
      BY <2>4 DEF Requesting
    <3>2. CASE Has(key[it], kind)'
      <4>1. r = it
        BY <1>h, <3>1
      <4> QED BY <3>2, <4>1 DEF Accounted
    <3>3. CASE p = "reply" /\ l = my[g] /\ kind = "reply"
      <4>1. Coming(r, kind)'
        BY <1>7, <3>1, <3>3 DEF Coming, InHand, Hand, Deciding
      <4> QED BY <4>1 DEF Accounted
    <3> QED BY <1>6, <2>4, <3>2, <3>3
  <2> QED BY <2>3, <2>4
<1> QED BY <1>8 DEF AllAccounted

LEMMA ActedCut ==
    ASSUME Base, AllAccounted, NEW g \in Actors, RequestRaises(g) \/ Stops(g) PROVE AllAccounted'
<1>1. DataOK /\ ActorsOK
  BY DEF Base, TypeOK
<1>2. key' = key /\ live' = live /\ logs' = logs /\ acts' = acts /\ bereft' = bereft
  BY DEF RequestRaises, Stops, data
<1>3. /\ interrupted \subseteq interrupted'
      /\ pc[g] \in {"like", "reply"} /\ Hand(g) \in live => Hand(g) \in interrupted'
  BY DEF RequestRaises, Stops, Cut
<1>4. PICK p \in {"idle", "source", "score"}, l \in Local : Enters(g, p, l) /\ Fits(p, l)
  <2>1. CASE RequestRaises(g)
    <3>1. Ended(g) /\ pc[g] \in Deciding
      BY <2>1 DEF RequestRaises, Deciding
    <3> QED BY <1>1, <3>1, EndedFacts
  <2>2. CASE Stops(g)
    BY <2>2, RestsFacts, AtRestFits DEF Stops
  <2> QED BY <2>1, <2>2
<1>5. p \in Places
  BY DEF Places
<1>6. ASSUME NEW r \in Ids, NEW kind \in Kinds, Asked(r, kind)' PROVE Accounted(r, kind)'
  <2>1. Asked(r, kind)
    BY <1>2, <1>6 DEF Asked
  <2>2. Accounted(r, kind)
    BY <2>1 DEF AllAccounted
  <2>3. CASE ~Requesting(g, r, kind)
    BY <1>1, <1>2, <1>3, <1>4, <1>5, <2>2, <2>3, AccountedKept
  <2>4. CASE Requesting(g, r, kind)
    BY <1>3, <2>1, <2>4 DEF Requesting, Asked, Accounted
  <2> QED BY <2>3, <2>4
<1> QED BY <1>6 DEF AllAccounted

LEMMA ActedDeletes ==
    ASSUME Base, AllAccounted, NEW h \in Actors, Deletes(h) PROVE AllAccounted'
<1> DEFINE gone == my[h].gone
           lost == {a \in acts : a.row \in gone}
<1>1. DataOK /\ ActorsOK
  BY DEF Base, TypeOK
<1>2. PICK at : Left(gone, at)
  BY DeletesLogs
<1>3. /\ key' = key /\ live' = live \ gone /\ acts' = acts \ lost
      /\ interrupted' = interrupted \ gone /\ Rests(h) /\ pc[h] = "delete"
  BY DEF Deletes
<1>4. bereft' = {b \in bereft \union {<<a.account, a.tweet, a.kind>> : a \in lost} :
                    \E r \in live' : key[r].account = b[1] /\ key[r].tweet = b[2]}
  BY DEF Deletes
<1>5. Enters(h, "idle", AtRest) /\ "idle" \in Places
  BY <1>3, RestsFacts DEF Places
<1> HIDE DEF gone, lost
<1>6. ASSUME NEW r \in Ids, NEW kind \in Kinds, Asked(r, kind)' PROVE Accounted(r, kind)'
  <2>1. r \in live /\ r \in live' /\ r \notin gone
    BY <1>3, <1>6 DEF Asked
  <2>2. Asked(r, kind)
    <3>1. PICK i \in DOMAIN logs' : logs'[i].row = r /\ kind \in logs'[i].decision
      BY <1>6 DEF Asked
    <3>2. at[i] \in DOMAIN logs /\ logs'[i] = logs[at[i]]
      BY <1>2, <3>1 DEF Left
    <3> QED BY <2>1, <3>1, <3>2 DEF Asked
  <2>3. Accounted(r, kind)
    BY <2>2 DEF AllAccounted
  <2> DEFINE b == <<key[r].account, key[r].tweet, kind>>
  <2>4. b \in bereft \union {<<a.account, a.tweet, a.kind>> : a \in lost} => b \in bereft'
    BY <1>4, <2>1
  <2>5. CASE Has(key[r], kind)
    <3>1. PICK a \in acts : a.account = key[r].account /\ a.tweet = key[r].tweet /\ a.kind = kind
      BY <2>5 DEF Has
    <3>2. CASE a \in lost
      <4>1. <<a.account, a.tweet, a.kind>> = b
        BY <3>1
      <4>2. b \in bereft'
        BY <2>4, <3>2, <4>1
      <4> QED BY <1>3, <4>2 DEF Accounted
    <3>3. CASE a \notin lost
      <4>1. a \in acts'
        BY <1>3, <3>3
      <4>2. Has(key[r], kind)'
        BY <1>3, <3>1, <4>1 DEF Has
      <4> QED BY <4>2 DEF Accounted
    <3> QED BY <3>2, <3>3
  <2>6. CASE Coming(r, kind)
    <3>1. ~Requesting(h, r, kind)
      BY <1>3 DEF Requesting
    <3>2. Coming(r, kind)'
      BY <1>1, <1>5, <2>6, <3>1, AtRestFits, ComingKept
    <3> QED BY <3>2 DEF Accounted
  <2>7. CASE r \in interrupted
    BY <1>3, <2>1, <2>7 DEF Accounted
  <2>8. CASE b \in bereft
    BY <1>3, <2>4, <2>8 DEF Accounted
  <2> QED BY <2>3, <2>5, <2>6, <2>7, <2>8 DEF Accounted
<1> QED BY <1>6 DEF AllAccounted

LEMMA ActedHolds == Spec => []AllAccounted
<1>1. Init => AllAccounted
  <2> SUFFICES ASSUME Init PROVE AllAccounted
    OBVIOUS
  <2>1. live = {}
    BY DEF Init
  <2> QED BY <2>1 DEF AllAccounted, Asked
<1>2. ASSUME Base, Traced, AllAccounted, [Next]_vars PROVE AllAccounted'
  <2>1. CASE Next
    <3>1. PICK g \in Actors :
              \/ Quiet(g) /\ UNCHANGED <<data, history>>
              \/ Persists(g) \/ ReuseRecords(g) \/ DecisionRecords(g)
              \/ LikeRequests(g) \/ ReplyRequests(g) \/ RequestRaises(g) \/ Stops(g) \/ Deletes(g)
      BY <2>1, NextSteps
    <3> QED BY <1>2, <3>1, ActedQuiet, ActedPersists, ActedRecords, ActedRequests, ActedCut,
               ActedDeletes
  <2>2. CASE UNCHANGED vars
    BY <1>2, <2>2 DEF vars, data, history, AllAccounted, Asked, Accounted, Has, Coming, InHand, Hand
  <2> QED BY <1>2, <2>1, <2>2
<1> QED BY <1>1, <1>2, BaseHolds, TracedHolds, PTL DEF Spec

(* DecidedIsActedOn: no decision of a stored row is without its actions but  *)
(* for a generation cut short or a deletion that took the action with it.    *)
THEOREM DecidedHolds == Spec => []DecidedIsActedOn
<1>1. Base /\ AllAccounted => DecidedIsActedOn
  BY AllAccountedIs DEF Base, TypeOK
<1> QED BY <1>1, BaseHolds, ActedHolds, PTL

-----------------------------------------------------------------------------
(* The last decision of a row.                                               *)
Latest(lg, r) == lg[Max(Decided(lg, r))].decision

LEMMA AgreedIs ==
    ASSUME NEW t, NEW rows, NEW lg
    PROVE  Agreed(t, rows, lg) <=>
              \A r, x \in rows : key[r].tweet = t /\ Decided(lg, r) # {}
                                 /\ key[x].tweet = t /\ Decided(lg, x) # {}
                                 => Latest(lg, r) = Latest(lg, x)
BY DEF Agreed, Latest

LEMMA LastFacts ==
    ASSUME NEW lg \in Seq(Logs), NEW r, Decided(lg, r) # {}
    PROVE  /\ Max(Decided(lg, r)) \in Decided(lg, r) /\ Max(Decided(lg, r)) \in Nat
           /\ \A n \in Decided(lg, r) : n \in Nat /\ n <= Max(Decided(lg, r))
BY NewestOf DEF Decided

(* A log appended is the last one of its row, and none of another row's.     *)
LEMMA RecordedLast ==
    ASSUME logs \in Seq(Logs), logs' \in Seq(Logs), NEW log, Recorded(log), NEW r
    PROVE  /\ r # log.row => Decided(logs', r) = Decided(logs, r)
           /\ r # log.row /\ Decided(logs, r) # {} => Latest(logs', r) = Latest(logs, r)
           /\ r = log.row => Latest(logs', r) = log.decision
<1> DEFINE top == Len(logs) + 1
<1>1. /\ DOMAIN logs = 1 .. Len(logs) /\ DOMAIN logs' = 1 .. top /\ Len(logs) \in Nat
      /\ logs'[top] = log /\ \A n \in DOMAIN logs : logs'[n] = logs[n]
  BY DEF Recorded
<1>2. \A n \in DOMAIN logs' : n \in DOMAIN logs \/ n = top
  BY <1>1
<1>3. DOMAIN logs \subseteq DOMAIN logs' /\ top \in DOMAIN logs' /\ top \in Nat
  BY <1>1
<1>4. ASSUME r # log.row
      PROVE  /\ Decided(logs', r) = Decided(logs, r)
             /\ Decided(logs, r) # {} => Latest(logs', r) = Latest(logs, r)
  <2>1. Decided(logs', r) = Decided(logs, r)
    BY <1>1, <1>2, <1>3, <1>4 DEF Decided
  <2>2. ASSUME Decided(logs, r) # {} PROVE Latest(logs', r) = Latest(logs, r)
    <3>1. Max(Decided(logs, r)) \in DOMAIN logs
      BY <2>2, LastFacts DEF Decided
    <3> QED BY <1>1, <2>1, <3>1 DEF Latest
  <2> QED BY <2>1, <2>2
<1>5. ASSUME r = log.row PROVE Latest(logs', r) = log.decision
  <2>1. top \in Decided(logs', r)
    BY <1>1, <1>3, <1>5 DEF Decided
  <2> DEFINE m == Max(Decided(logs', r))
  <2>2. m \in Decided(logs', r) /\ m \in Nat /\ top <= m
    BY <2>1, LastFacts
  <2>3. m \in 1 .. top
    BY <1>1, <2>2 DEF Decided
  <2> HIDE DEF m
  <2>4. m = top
    BY <1>3, <2>2, <2>3
  <2> QED BY <1>1, <2>4 DEF Latest, m
<1> QED BY <1>4, <1>5

(* A deletion leaves the last decisions of the rows it leaves.               *)
LEMMA LeftLast ==
    ASSUME logs \in Seq(Logs), logs' \in Seq(Logs), NEW gone, NEW at, Left(gone, at),
           NEW r, r \notin gone, Decided(logs', r) # {}
    PROVE  Decided(logs, r) # {} /\ Latest(logs', r) = Latest(logs, r)
<1> DEFINE i == Max(Decided(logs', r))
           m == Max(Decided(logs, r))
<1>1. /\ at \in [DOMAIN logs' -> DOMAIN logs]
      /\ \A j, k \in DOMAIN logs' : j < k => at[j] < at[k]
      /\ \A j \in DOMAIN logs' : logs'[j] = logs[at[j]]
      /\ \A n \in DOMAIN logs : logs[n].row \notin gone => \E j \in DOMAIN logs' : at[j] = n
  BY DEF Left
<1>2. i \in Decided(logs', r) /\ \A n \in Decided(logs', r) : n \in Nat /\ n <= i
  BY LastFacts
<1>3. at[i] \in Decided(logs, r)
  BY <1>1, <1>2 DEF Decided
<1>4. m \in Decided(logs, r) /\ m \in Nat /\ at[i] \in Nat /\ at[i] <= m
  BY <1>3, LastFacts
<1>5. PICK j \in DOMAIN logs' : at[j] = m
  BY <1>1, <1>4 DEF Decided
<1>6. j \in Decided(logs', r)
  BY <1>1, <1>4, <1>5 DEF Decided
<1>7. j = i
  <2>1. j \in Nat /\ i \in Nat /\ j <= i /\ i \in DOMAIN logs'
    BY <1>2, <1>6 DEF Decided
  <2>2. j < i => m < at[i]
    BY <1>1, <1>5, <2>1
  <2> HIDE DEF i, m
  <2> QED BY <1>4, <2>1, <2>2
<1>8. logs'[i] = logs[m]
  BY <1>1, <1>5, <1>7
<1> QED BY <1>3, <1>8 DEF Latest

LEMMA AgreeRecords ==
    ASSUME Base, RowsAgree, NEW g \in Actors, ReuseRecords(g) \/ DecisionRecords(g)
    PROVE  RowsAgree'
<1>1. DataOK /\ DataOK' /\ ActorsOK /\ logs \in Seq(Logs) /\ logs' \in Seq(Logs)
  <2>1. Base'
    BY BaseRecords
  <2> QED BY <2>1 DEF Base, TypeOK, DataOK
<1>2. PICK d \in SUBSET Kinds, origin \in Ids \union {None} :
              /\ Recorded([row |-> Hand(g), decision |-> d, origin |-> origin])
              /\ Decides(g, d, origin) /\ Hand(g) \in live \union doomed
              /\ \/ /\ pc[g] = "reuse" /\ my[g].found \in Logs
                    /\ d = my[g].found.decision
                 \/ /\ pc[g] = "answered" /\ my[g].found = None
              /\ UNCHANGED <<key, live, acts, interrupted, bereft, doomed>>
  BY RecordsFacts
<1> DEFINE log == [row |-> Hand(g), decision |-> d, origin |-> origin]
<1>a. PICK it : it = Hand(g)
  OBVIOUS
<1>b. PICK found : found = my[g].found
  OBVIOUS
<1>3. key' = key /\ live' = live
  BY <1>2
<1>4. \A r : /\ r # it => Decided(logs', r) = Decided(logs, r)
             /\ r # it /\ Decided(logs, r) # {} => Latest(logs', r) = Latest(logs, r)
             /\ r = it => Latest(logs', r) = d
  <2>1. log.row = it /\ log.decision = d
    BY <1>a
  <2>2. Recorded(log)
    BY <1>2
  <2> HIDE DEF log
  <2> QED BY <1>1, <2>1, <2>2, RecordedLast
<1>5. crossed' = {x \in crossed \union (IF Reusable(it) # found THEN {TweetOf(it)} ELSE {}) :
                    ~Agreed(x, live, logs')}
  BY <1>2, <1>a, <1>b DEF Decides
<1>6. ASSUME NEW t \in Tweets \ crossed'
      PROVE  \A r, x \in live : key[r].tweet = t /\ Decided(logs', r) # {}
                                /\ key[x].tweet = t /\ Decided(logs', x) # {}
                                => Latest(logs', r) = Latest(logs', x)
  <2>1. CASE Agreed(t, live, logs')
    BY <2>1, AgreedIs
  <2>2. CASE ~Agreed(t, live, logs')
    <3>1. t \notin crossed /\ (t = TweetOf(it) => Reusable(it) = found)
      BY <1>5, <1>6, <2>2
    <3>2. \A r, x \in live : key[r].tweet = t /\ Decided(logs, r) # {}
                             /\ key[x].tweet = t /\ Decided(logs, x) # {}
                             => Latest(logs, r) = Latest(logs, x)
      BY <3>1, AgreedIs DEF RowsAgree
    <3>3. ASSUME NEW x \in live, key[x].tweet = t, x # it, Decided(logs, x) # {}, t = TweetOf(it)
          PROVE  Latest(logs, x) = d
      <4> DEFINE F == {n \in DOMAIN logs : /\ logs[n].row \in live /\ logs[n].row # it
                                           /\ TweetOf(logs[n].row) = TweetOf(it)}
      <4>1. /\ Reusable(it) = None <=> F = {}
            /\ F # {} => /\ Reusable(it) = logs[Max(F)] /\ Max(F) \in F
                         /\ \A n \in F : n <= Max(F)
        BY <1>1, ReusableFacts
      <4>2. Decided(logs, x) \subseteq F
        BY <3>3 DEF Decided, TweetOf
      <4>3. F # {} /\ found # None /\ found = logs[Max(F)] /\ Max(F) \in F
        BY <3>1, <3>3, <4>1, <4>2
      <4>4. d = logs[Max(F)].decision
        BY <1>2, <1>b, <4>3
      <4>5. PICK y \in live : y = logs[Max(F)].row /\ key[y].tweet = t
        BY <3>3, <4>3 DEF TweetOf
      <4>6. Max(F) \in Decided(logs, y)
        BY <4>3, <4>5 DEF Decided
      <4>7. Max(Decided(logs, y)) = Max(F)
        <5>1. /\ Max(Decided(logs, y)) \in Decided(logs, y) /\ Max(Decided(logs, y)) \in Nat
              /\ Max(F) \in Nat /\ Max(F) <= Max(Decided(logs, y))
          BY <1>1, <4>6, LastFacts
        <5>2. y # it
          BY <4>3, <4>5
        <5>3. Max(Decided(logs, y)) \in F
          BY <3>3, <4>5, <5>1, <5>2 DEF Decided, TweetOf
        <5>4. Max(Decided(logs, y)) <= Max(F)
          BY <4>1, <4>3, <5>3
        <5> HIDE DEF F
        <5> QED BY <5>1, <5>4
      <4>8. Latest(logs, y) = d
        BY <4>4, <4>7 DEF Latest
      <4> QED BY <3>2, <3>3, <4>5, <4>6, <4>8
    <3>4. ASSUME NEW r \in live, NEW x \in live,
                 key[r].tweet = t /\ Decided(logs', r) # {},
                 key[x].tweet = t /\ Decided(logs', x) # {}
          PROVE  Latest(logs', r) = Latest(logs', x)
      <4>1. CASE r # it /\ x # it
        BY <1>4, <3>2, <3>4, <4>1
      <4>2. CASE r = it /\ x # it
        <5>1. t = TweetOf(it)
          BY <3>4, <4>2 DEF TweetOf
        <5> QED BY <1>4, <3>3, <3>4, <4>2, <5>1
      <4>3. CASE r # it /\ x = it
        <5>1. t = TweetOf(it)
          BY <3>4, <4>3 DEF TweetOf
        <5> QED BY <1>4, <3>3, <3>4, <4>3, <5>1
      <4>4. CASE r = it /\ x = it
        BY <4>4
      <4> QED BY <4>1, <4>2, <4>3, <4>4
    <3> QED BY <3>4
  <2> QED BY <2>1, <2>2
<1>7. \A t \in Tweets \ crossed' : Agreed(t, live, logs')
  BY <1>6, AgreedIs
<1> QED BY <1>3, <1>7 DEF RowsAgree, Agreed

LEMMA AgreePersists ==
    ASSUME Base, Traced, RowsAgree, NEW g \in Actors, Persists(g) PROVE RowsAgree'
<1>1. DataOK /\ ActorsOK /\ RoomLast /\ Known /\ NothingDangles
  BY DEF Base, TypeOK, Traced
<1>2. PICK fresh \in SUBSET Room : Stored(fresh)
  BY <1>1, PersistsFacts
<1>3. logs' = logs /\ crossed' = crossed
  BY DEF Persists, history
<1>4. /\ live' = live \union fresh /\ \A r \in Ids \ fresh : key'[r] = key[r]
  BY <1>2 DEF Stored
<1>5. \A r \in fresh : Decided(logs, r) = {}
  <2>1. \A n \in DOMAIN logs : logs[n].row \in live \union doomed
    BY <1>1 DEF NothingDangles
  <2>2. \A n \in DOMAIN logs : logs[n].row \notin Room
    BY <1>1, <2>1 DEF DataOK, Known
  <2> QED BY <2>2 DEF Decided
<1>6. \A r \in live : key'[r] = key[r]
  BY <1>1, <1>4 DEF DataOK
<1>7. ASSUME NEW t \in Tweets \ crossed' PROVE Agreed(t, live, logs)'
  <2>1. Agreed(t, live, logs)
    BY <1>3 DEF RowsAgree
  <2> QED BY <1>3, <1>4, <1>5, <1>6, <2>1 DEF Agreed, Decided
<1> QED BY <1>7 DEF RowsAgree

LEMMA AgreeDeletes ==
    ASSUME Base, RowsAgree, NEW h \in Actors, Deletes(h) PROVE RowsAgree'
<1>1. DataOK /\ DataOK' /\ logs \in Seq(Logs) /\ logs' \in Seq(Logs)
  <2>1. Base'
    BY BaseDeletes
  <2> QED BY <2>1 DEF Base, TypeOK, DataOK
<1>2. PICK gone : gone = my[h].gone
  OBVIOUS
<1>3. PICK at : Left(gone, at)
  BY <1>2, DeletesLogs
<1>4. /\ key' = key /\ live' = live \ gone
      /\ crossed' = {t \in crossed : ~Agreed(t, live', logs')}
  BY <1>2 DEF Deletes
<1>5. ASSUME NEW t \in Tweets \ crossed' PROVE Agreed(t, live', logs')
  <2>1. CASE t \in crossed
    BY <1>4, <1>5, <2>1
  <2>2. CASE t \notin crossed
    <3>1. \A r, x \in live : key[r].tweet = t /\ Decided(logs, r) # {}
                             /\ key[x].tweet = t /\ Decided(logs, x) # {}
                             => Latest(logs, r) = Latest(logs, x)
      BY <2>2, AgreedIs DEF RowsAgree
    <3>2. \A r \in live' : Decided(logs', r) # {} =>
             r \in live /\ Decided(logs, r) # {} /\ Latest(logs', r) = Latest(logs, r)
      BY <1>1, <1>3, <1>4, LeftLast
    <3>3. \A r, x \in live' : key[r].tweet = t /\ Decided(logs', r) # {}
                              /\ key[x].tweet = t /\ Decided(logs', x) # {}
                              => Latest(logs', r) = Latest(logs', x)
      BY <3>1, <3>2
    <3> QED BY <3>3, AgreedIs
  <2> QED BY <2>1, <2>2
<1> QED BY <1>4, <1>5 DEF RowsAgree, Agreed

LEMMA AgreeOthers ==
    ASSUME RowsAgree, key' = key, live' = live, logs' = logs, crossed' = crossed PROVE RowsAgree'
BY DEF RowsAgree, Agreed, Decided

(* RowsAgree: the rows of a tweet that no two generations decided at once    *)
(* have the same last decision, across reuses, deletions and new rows.       *)
THEOREM AgreeHolds == Spec => []RowsAgree
<1>1. Init => RowsAgree
  <2> SUFFICES ASSUME Init PROVE RowsAgree
    OBVIOUS
  <2>1. live = {}
    BY DEF Init
  <2> QED BY <2>1 DEF RowsAgree, Agreed
<1>2. ASSUME Base, Traced, RowsAgree, [Next]_vars PROVE RowsAgree'
  <2>1. CASE Next
    <3>1. PICK g \in Actors :
              \/ Quiet(g) /\ UNCHANGED <<data, history>>
              \/ Persists(g) \/ ReuseRecords(g) \/ DecisionRecords(g)
              \/ LikeRequests(g) \/ ReplyRequests(g) \/ RequestRaises(g) \/ Stops(g) \/ Deletes(g)
      BY <2>1, NextSteps
    <3>2. CASE \/ Quiet(g) /\ UNCHANGED <<data, history>>
               \/ LikeRequests(g) \/ ReplyRequests(g) \/ RequestRaises(g) \/ Stops(g)
      <4>1. key' = key /\ live' = live /\ logs' = logs /\ crossed' = crossed
        BY <3>2 DEF LikeRequests, ReplyRequests, RequestRaises, Stops, data, history
      <4> QED BY <1>2, <4>1, AgreeOthers
    <3> QED BY <1>2, <3>1, <3>2, AgreeRecords, AgreePersists, AgreeDeletes
  <2>2. CASE UNCHANGED vars
    BY <1>2, <2>2, AgreeOthers DEF vars, data, history
  <2> QED BY <1>2, <2>1, <2>2
<1> QED BY <1>1, <1>2, BaseHolds, TracedHolds, PTL DEF Spec

(* FormDoesNotMatter: two answers that differ in their form alone are taken  *)
(* for the same decision, but for a confidence that is not a number.         *)
THEOREM FormHolds == Spec => []FormDoesNotMatter
<1>1. ASSUME NEW x \in Answers, x.confidence # Words
      PROVE  Normalised([x EXCEPT !.form = "json"]) = Normalised([x EXCEPT !.form = "lines"])
  <2> DEFINE j == [x EXCEPT !.form = "json"]
             k == [x EXCEPT !.form = "lines"]
  <2>1. x = [form |-> x.form, like |-> x.like, draft |-> x.draft, score |-> x.score,
             confidence |-> x.confidence, unknown |-> x.unknown]
    BY ScoringAssumption
  <2>2. /\ j.form = "json" /\ j.like = x.like /\ j.draft = x.draft /\ j.score = x.score
        /\ j.confidence = x.confidence
    BY <2>1
  <2>3. Fields(j) = j
    BY <2>2 DEF Fields
  <2>4. Fields(k) = [k EXCEPT !.score = FromLines(@), !.confidence = FromLines(@)]
    BY <2>1 DEF Fields
  <2>5. /\ Fields(k).like = x.like /\ Fields(k).draft = x.draft
        /\ Fields(k).score = FromLines(x.score) /\ Fields(k).confidence = FromLines(x.confidence)
    BY <2>1, <2>4
  <2>6. FromLines(x.confidence) = x.confidence /\ Number(FromLines(x.score)) = Number(x.score)
    BY <1>1 DEF FromLines, Number
  <2> HIDE DEF j, k
  <2>7. Normalised(j) = Normalised(k)
    BY <2>2, <2>3, <2>5, <2>6 DEF Normalised
  <2> QED BY <2>7 DEF j, k
<1>2. Base => FormDoesNotMatter
  <2> SUFFICES ASSUME Base PROVE FormDoesNotMatter
    OBVIOUS
  <2>1. \A g \in Actors : pc[g] = "answered" => my[g].answer \in Answers
    BY LocalFacts DEF Base, TypeOK, Fits
  <2> QED BY <1>1, <2>1 DEF FormDoesNotMatter
<1> QED BY <1>2, BaseHolds, PTL

-----------------------------------------------------------------------------
(* A part with one more place, behind the others.                            *)
LEMMA InOrderMore ==
    ASSUME NEW S \in SUBSET Nat, IsFiniteSet(S), NEW m \in Nat, \A k \in S : k < m
    PROVE  /\ Cardinality(S) \in Nat /\ Cardinality(S \union {m}) = Cardinality(S) + 1
           /\ \A i \in 1 .. Cardinality(S) : InOrder(S \union {m})[i] = InOrder(S)[i]
           /\ InOrder(S \union {m})[Cardinality(S) + 1] = m
<1> DEFINE M == S \union {m}
           N == Cardinality(S)
<1>1. N \in Nat /\ m \notin S
  BY FS_CardinalityType
<1>2. IsFiniteSet(M) /\ Cardinality(M) = N + 1 /\ M \in SUBSET Nat
  BY <1>1, FS_AddElement
<1>3. \A n \in M, i \in 1 .. N + 1 : Cardinality({k \in M : k < n}) = i - 1 => InOrder(M)[i] = n
  <2> HIDE DEF M, N
  <2> QED BY <1>2, InOrderFacts
<1>4. InOrder(M)[N + 1] = m
  <2>1. {k \in M : k < m} = S
    <3>1. ~ (m < m)
      OBVIOUS
    <3>2. \A k : k \in M <=> k \in S \/ k = m
      OBVIOUS
    <3> HIDE DEF M
    <3> QED BY <3>1, <3>2
  <2>2. N + 1 \in 1 .. N + 1 /\ (N + 1) - 1 = N /\ m \in M
    BY <1>1
  <2>3. Cardinality({k \in M : k < m}) = (N + 1) - 1
    BY <2>1, <2>2
  <2> HIDE DEF M, N
  <2> QED BY <1>3, <2>2, <2>3
<1>5. ASSUME NEW i \in 1 .. N PROVE InOrder(M)[i] = InOrder(S)[i]
  <2>1. PICK n \in S : n = InOrder(S)[i] /\ Cardinality({k \in S : k < n}) = i - 1
    <3>1. InOrder(S) \in [1 .. N -> S]
      BY InOrderFacts
    <3>2. InOrder(S)[i] \in S
      BY <3>1
    <3>3. \A n \in S, j \in 1 .. N : Cardinality({k \in S : k < n}) = j - 1 <=> InOrder(S)[j] = n
      BY InOrderFacts
    <3> QED BY <3>2, <3>3
  <2>2. {k \in M : k < n} = {k \in S : k < n}
    <3>1. n < m /\ n \in Nat /\ ~ (m < n)
      BY <2>1
    <3> QED BY <3>1
  <2>3. i \in 1 .. N + 1 /\ n \in M
    BY <1>1
  <2> HIDE DEF M, N
  <2> QED BY <1>3, <2>1, <2>2, <2>3
<1> QED BY <1>1, <1>2, <1>4, <1>5

LEMMA PartMore ==
    ASSUME NEW E, NEW seq \in Seq(E), NEW ks \in SUBSET DOMAIN seq, NEW m \in DOMAIN seq,
           \A k \in ks : k < m
    PROVE  Part(seq, ks \union {m}) = Append(Part(seq, ks), seq[m])
<1> DEFINE more == Part(seq, ks \union {m})
           part == Part(seq, ks)
           N == Cardinality(ks)
<1>1. /\ ks \in SUBSET Nat /\ IsFiniteSet(ks) /\ m \in Nat /\ ks \union {m} \in SUBSET DOMAIN seq
      /\ IsFiniteSet(ks \union {m}) /\ ks \union {m} \in SUBSET Nat
  <2>1. Len(seq) \in Nat /\ DOMAIN seq = 1 .. Len(seq)
    BY LenProperties
  <2>2. IsFiniteSet(1 .. Len(seq))
    BY <2>1, FS_Interval
  <2> QED BY <2>1, <2>2, FS_Subset
<1>2. /\ N \in Nat /\ Cardinality(ks \union {m}) = N + 1
      /\ \A i \in 1 .. N : InOrder(ks \union {m})[i] = InOrder(ks)[i]
      /\ InOrder(ks \union {m})[N + 1] = m
  BY <1>1, InOrderMore
<1>3. /\ DOMAIN InOrder(ks) = 1 .. N /\ DOMAIN InOrder(ks \union {m}) = 1 .. N + 1
  BY <1>2 DEF InOrder
<1>4. /\ part \in Seq(E) /\ Len(part) = N /\ more \in Seq(E) /\ Len(more) = N + 1
  BY <1>1, <1>2, PartFacts
<1>5. /\ \A i \in 1 .. N : part[i] = seq[InOrder(ks)[i]]
      /\ \A i \in 1 .. N + 1 : more[i] = seq[InOrder(ks \union {m})[i]]
  BY <1>3 DEF Part
<1>6. seq[m] \in E
  BY ElementOfSeq, LenProperties
<1> HIDE DEF part, more, N
<1>7. /\ Append(part, seq[m]) \in Seq(E) /\ Len(Append(part, seq[m])) = N + 1
      /\ \A i \in 1 .. N : Append(part, seq[m])[i] = part[i]
      /\ Append(part, seq[m])[N + 1] = seq[m]
  BY <1>4, <1>6, AppendProperties
<1>8. \A i \in 1 .. N + 1 : more[i] = Append(part, seq[m])[i]
  <2>1. \A i \in 1 .. N + 1 : i \in 1 .. N \/ i = N + 1
    BY <1>2
  <2>2. ASSUME NEW i \in 1 .. N PROVE more[i] = part[i]
    <3>1. i \in 1 .. N + 1
      BY <1>2
    <3> QED BY <1>2, <1>5, <3>1
  <2>3. N + 1 \in 1 .. N + 1
    BY <1>2
  <2>4. more[N + 1] = seq[m]
    BY <1>2, <1>5, <2>3
  <2> QED BY <1>7, <2>1, <2>2, <2>4
<1> QED BY <1>4, <1>7, <1>8, SeqEqual DEF part, more

(* Its members.                                                              *)
LEMMA PartHas ==
    ASSUME NEW E, NEW seq \in Seq(E), NEW ks \in SUBSET DOMAIN seq
    PROVE  Range(Part(seq, ks)) = {seq[k] : k \in ks}
<1> DEFINE part == Part(seq, ks)
<1>1. part \in Seq(E) /\ \E at \in [1 .. Len(part) -> ks] :
                 /\ \A n \in ks : \E i \in 1 .. Len(part) : at[i] = n
                 /\ \A i \in 1 .. Len(part) : part[i] = seq[at[i]]
  BY PartFacts
<1>2. PICK at \in [1 .. Len(part) -> ks] :
                 /\ \A n \in ks : \E i \in 1 .. Len(part) : at[i] = n
                 /\ \A i \in 1 .. Len(part) : part[i] = seq[at[i]]
  BY <1>1
<1> HIDE DEF part
<1>3. DOMAIN part = 1 .. Len(part)
  BY <1>1, LenProperties
<1>4. Range(part) = {seq[k] : k \in ks}
  BY <1>2, <1>3 DEF Range
<1> QED BY <1>4 DEF part

LEMMA PrefixWhole ==
    ASSUME NEW S, NEW seq \in Seq(S), NEW n \in Nat, Len(seq) <= n
    PROVE  Prefix(seq, n) = seq
<1>1. /\ Prefix(seq, n) \in Seq(S) /\ Len(Prefix(seq, n)) = Min({n, Len(seq)})
      /\ \A i \in 1 .. Len(Prefix(seq, n)) : Prefix(seq, n)[i] = seq[i]
  BY PrefixFacts
<1>2. Len(seq) \in Nat /\ Min({n, Len(seq)}) = Len(seq)
  <2>1. Len(seq) \in Nat
    BY LenProperties
  <2>2. Min({n, Len(seq)}) \in {n, Len(seq)} /\ Min({n, Len(seq)}) <= Len(seq)
    BY <2>1, MinOfTwo
  <2> QED BY <2>1, <2>2
<1> QED BY <1>1, <1>2, SeqEqual

LEMMA PrefixSame ==
    ASSUME NEW S, NEW seq \in Seq(S), NEW e \in S, NEW n \in Nat, n <= Len(seq)
    PROVE  Prefix(Append(seq, e), n) = Prefix(seq, n) /\ Len(Prefix(seq, n)) = n
<1> DEFINE more == Append(seq, e)
<1>1. /\ more \in Seq(S) /\ Len(more) = Len(seq) + 1 /\ Len(seq) \in Nat
      /\ \A i \in 1 .. Len(seq) : more[i] = seq[i]
  BY AppendProperties, LenProperties
<1> HIDE DEF more
<1>2. ASSUME NEW q \in Seq(S), n <= Len(q)
      PROVE  /\ Prefix(q, n) \in Seq(S) /\ Len(Prefix(q, n)) = n
             /\ \A i \in 1 .. n : Prefix(q, n)[i] = q[i]
  <2>1. /\ Prefix(q, n) \in Seq(S) /\ Len(Prefix(q, n)) = Min({n, Len(q)})
        /\ \A i \in 1 .. Len(Prefix(q, n)) : Prefix(q, n)[i] = q[i]
    BY PrefixFacts
  <2>2. Len(q) \in Nat
    BY LenProperties
  <2>3. Min({n, Len(q)}) \in {n, Len(q)} /\ Min({n, Len(q)}) <= n
    BY <2>2, MinOfTwo
  <2>4. Min({n, Len(q)}) = n
    BY <1>2, <2>2, <2>3
  <2> QED BY <2>1, <2>4
<1>3. n <= Len(more)
  BY <1>1
<1>4. /\ Prefix(more, n) \in Seq(S) /\ Len(Prefix(more, n)) = n
      /\ \A i \in 1 .. n : Prefix(more, n)[i] = more[i]
  BY <1>1, <1>2, <1>3
<1>5. /\ Prefix(seq, n) \in Seq(S) /\ Len(Prefix(seq, n)) = n
      /\ \A i \in 1 .. n : Prefix(seq, n)[i] = seq[i]
  BY <1>2
<1>6. \A i \in 1 .. n : Prefix(more, n)[i] = Prefix(seq, n)[i]
  BY <1>1, <1>4, <1>5
<1> QED BY <1>4, <1>5, <1>6, SeqEqual DEF more

-----------------------------------------------------------------------------
(* What is kept of the first m tweets that are shown.                        *)
Wanting(s, seen, m) == {n \in 1 .. m : Wants(s, seen, n)}
Taken(s, seen, m) == Prefix(Part(seen, Wanting(s, seen, m)), Limit)

LEMMA UpTo ==
    ASSUME NEW l \in Nat, NEW T, 0 \in T, \A n \in 1 .. l : n - 1 \in T => n \in T
    PROVE  \A n \in 0 .. l : n \in T
<1> DEFINE Bad == {n \in 0 .. l : n \notin T}
<1>1. SUFFICES ASSUME Bad # {} PROVE FALSE
  OBVIOUS
<1>2. PICK m \in Bad : \A n \in Bad : m <= n
  <2>1. Bad \in SUBSET Nat
    OBVIOUS
  <2> HIDE DEF Bad
  <2> QED BY <1>1, <2>1, LeastNumber
<1>3. m \in 1 .. l /\ m - 1 \in 0 .. l /\ m - 1 < m /\ m \notin T
  BY <1>2
<1>4. m - 1 \notin Bad
  <2> HIDE DEF Bad
  <2> QED BY <1>2, <1>3
<1> QED BY <1>3, <1>4

LEMMA TakenType ==
    ASSUME NEW s, NEW seen \in Seq(Tweets), NEW m \in 0 .. Len(seen)
    PROVE  /\ Wanting(s, seen, m) \in SUBSET DOMAIN seen
           /\ Part(seen, Wanting(s, seen, m)) \in Seq(Tweets)
           /\ Taken(s, seen, m) \in Seq(Tweets) /\ Limit \in Nat
<1>1. DOMAIN seen = 1 .. Len(seen) /\ Len(seen) \in Nat
  BY LenProperties
<1>2. Wanting(s, seen, m) \in SUBSET DOMAIN seen
  BY <1>1 DEF Wanting
<1>3. Part(seen, Wanting(s, seen, m)) \in Seq(Tweets)
  BY <1>2, PartFacts
<1> QED BY <1>2, <1>3, ScoringAssumption, PrefixFacts DEF Taken

(* One more tweet.                                                           *)
LEMMA TakenStep ==
    ASSUME NEW s, NEW seen \in Seq(Tweets), NEW m \in 1 .. Len(seen)
    PROVE  Taken(s, seen, m) = IF Passes(s, seen[m]) THEN AddItem(Taken(s, seen, m - 1), seen[m])
                               ELSE Taken(s, seen, m - 1)
<1> DEFINE K == Wanting(s, seen, m - 1)
           t == seen[m]
           part == Part(seen, K)
           kept == Taken(s, seen, m - 1)
<1>1. /\ m \in Nat /\ m - 1 \in 0 .. Len(seen) /\ m \in DOMAIN seen /\ Len(seen) \in Nat
      /\ DOMAIN seen = 1 .. Len(seen) /\ t \in Tweets
      /\ \A n : n \in 1 .. m <=> n \in 1 .. m - 1 \/ n = m
  <2>1. DOMAIN seen = 1 .. Len(seen) /\ Len(seen) \in Nat /\ t \in Tweets
    BY LenProperties, ElementOfSeq
  <2> QED BY <2>1
<1>2. /\ K \in SUBSET DOMAIN seen /\ part \in Seq(Tweets) /\ kept \in Seq(Tweets) /\ Limit \in Nat
      /\ kept = Prefix(part, Limit) /\ Len(part) \in Nat
  <2>1. /\ K \in SUBSET DOMAIN seen /\ part \in Seq(Tweets) /\ kept \in Seq(Tweets) /\ Limit \in Nat
    BY <1>1, TakenType
  <2>2. kept = Prefix(part, Limit)
    BY DEF Taken
  <2> QED BY <2>1, <2>2, LenProperties
<1>3. \A k \in K : k \in 1 .. m - 1 /\ k < m
  BY <1>1 DEF Wanting
<1>4. Range(part) = {seen[k] : k \in K}
  BY <1>2, PartHas
<1>5. Limit <= Len(part) => Len(kept) = Limit
  BY <1>1, <1>2, PrefixSame
<1>6. Len(part) < Limit => kept = part
  BY <1>2, PrefixWhole
<1>7. CASE Wants(s, seen, m)
  <2>1. Wanting(s, seen, m) = K \union {m}
    BY <1>1, <1>7 DEF Wanting
  <2>2. Taken(s, seen, m) = Prefix(Append(part, t), Limit)
    <3>1. Part(seen, K \union {m}) = Append(part, t)
      <4> HIDE DEF K
      <4> QED BY <1>1, <1>2, <1>3, PartMore
    <3> QED BY <2>1, <3>1 DEF Taken
  <2>3. Passes(s, t) /\ Item[t].recent /\ \A k \in 1 .. m - 1 : seen[k] # t
    BY <1>7 DEF Wants
  <2> HIDE DEF K, part, kept, t
  <2>4. CASE Limit <= Len(part)
    <3>1. Prefix(Append(part, t), Limit) = kept
      BY <1>1, <1>2, <2>4, PrefixSame
    <3>2. AddItem(kept, t) = kept
      BY <1>5, <2>4 DEF AddItem
    <3> QED BY <2>2, <2>3, <3>1, <3>2 DEF kept, t
  <2>5. CASE ~ (Limit <= Len(part))
    <3>1. kept = part /\ Len(part) < Limit
      BY <1>2, <1>6, <2>5
    <3>2. Append(part, t) \in Seq(Tweets) /\ Len(Append(part, t)) <= Limit
      BY <1>1, <1>2, <3>1, AppendProperties
    <3>3. Prefix(Append(part, t), Limit) = Append(part, t)
      BY <1>2, <3>2, PrefixWhole
    <3>4. t \notin Range(kept)
      BY <1>3, <1>4, <2>3, <3>1
    <3>5. AddItem(kept, t) = Append(part, t)
      BY <1>2, <2>3, <3>1, <3>4 DEF AddItem
    <3> QED BY <2>2, <2>3, <3>3, <3>5 DEF kept, t
  <2> QED BY <2>4, <2>5
<1>8. CASE ~Wants(s, seen, m)
  <2>1. Wanting(s, seen, m) = K
    BY <1>1, <1>8 DEF Wanting
  <2>2. Taken(s, seen, m) = kept
    BY <2>1 DEF Taken
  <2>3. SUFFICES ASSUME Passes(s, t) PROVE AddItem(kept, t) = kept
    BY <2>2
  <2>4. SUFFICES ASSUME Item[t].recent, Len(part) < Limit PROVE t \in Range(part)
    <3> HIDE DEF part, kept, t
    <3> QED BY <1>2, <1>5, <1>6, <2>4 DEF AddItem
  <2> DEFINE J == {k \in 1 .. m - 1 : seen[k] = t}
  <2>5. J # {} /\ J \in SUBSET Nat
    BY <1>8, <2>3, <2>4 DEF Wants
  <2>6. PICK k \in J : \A j \in J : k <= j
    <3> HIDE DEF J
    <3> QED BY <2>5, LeastNumber
  <2>7. \A j \in 1 .. k - 1 : seen[j] # seen[k]
    BY <1>1, <2>6
  <2>8. Wants(s, seen, k)
    BY <2>3, <2>4, <2>6, <2>7 DEF Wants
  <2>9. k \in K /\ seen[k] = t
    BY <2>6, <2>8 DEF Wanting
  <2> HIDE DEF K, part, t
  <2> QED BY <1>4, <2>9
<1> QED BY <1>7, <1>8

LEMMA TakenNone ==
    ASSUME NEW s, NEW seen \in Seq(Tweets) PROVE Taken(s, seen, 0) = <<>>
<1> DEFINE part == Part(seen, {})
<1>1. Wanting(s, seen, 0) = {}
  BY DEF Wanting
<1>2. {} \in SUBSET DOMAIN seen
  OBVIOUS
<1>3. part \in Seq(Tweets) /\ Len(part) = 0
  BY <1>2, PartFacts, FS_EmptySet
<1> HIDE DEF part
<1>4. part = <<>>
  BY <1>3, EmptySeq
<1>5. 0 <= Limit /\ Limit \in Nat
  BY ScoringAssumption
<1>6. Prefix(part, Limit) = part
  BY <1>3, <1>5, PrefixWhole
<1> QED BY <1>1, <1>4, <1>6 DEF Taken, part

(* A full batch stays as it is.                                              *)
LEMMA TakenFull ==
    ASSUME NEW s, NEW seen \in Seq(Tweets), NEW a \in 0 .. Len(seen), NEW b \in a .. Len(seen),
           Len(Taken(s, seen, a)) = Limit
    PROVE  Taken(s, seen, b) = Taken(s, seen, a)
<1> DEFINE T == {d \in 0 .. b - a : Taken(s, seen, a + d) = Taken(s, seen, a)}
<1>1. Len(seen) \in Nat /\ b - a \in Nat /\ a \in Nat /\ a + 0 = a /\ b = a + (b - a)
  BY LenProperties
<1>2. 0 \in T
  BY <1>1
<1>3. ASSUME NEW d \in 1 .. b - a, d - 1 \in T PROVE d \in T
  <2>1. a + d \in 1 .. Len(seen) /\ (a + d) - 1 = a + (d - 1)
    BY <1>1
  <2>2. Taken(s, seen, a + (d - 1)) = Taken(s, seen, a)
    BY <1>3
  <2>3. \A t : AddItem(Taken(s, seen, a), t) = Taken(s, seen, a)
    BY DEF AddItem
  <2>4. Taken(s, seen, a + d) = Taken(s, seen, a)
    BY <2>1, <2>2, <2>3, TakenStep
  <2> QED BY <1>1, <2>4
<1>4. \A d \in 0 .. b - a : d \in T
  <2> HIDE DEF T
  <2> QED BY <1>1, <1>2, <1>3, UpTo
<1>5. b - a \in T
  <2>1. b - a \in 0 .. b - a
    BY <1>1
  <2> QED BY <1>4, <2>1
<1> QED BY <1>1, <1>5

(* A page that is shown from place o on.                                     *)
LEMMA PageTaken ==
    ASSUME NEW s, NEW seen \in Seq(Tweets), NEW o \in Nat, NEW page \in Seq(Tweets),
           o + Len(page) <= Len(seen), \A k \in 1 .. Len(page) : seen[o + k] = page[k]
    PROVE  FoldLeft(AddItem, Taken(s, seen, o), Filter(page, LAMBDA t : Passes(s, t)))
              = Taken(s, seen, o + Len(page))
<1> DEFINE ks == {n \in DOMAIN page : Passes(s, page[n])}
           f == Part(page, ks)
           base == Taken(s, seen, o)
<1>1. /\ Len(page) \in Nat /\ DOMAIN page = 1 .. Len(page) /\ Len(seen) \in Nat
      /\ o \in 0 .. Len(seen) /\ ks \in SUBSET DOMAIN page
  <2>1. Len(page) \in Nat /\ DOMAIN page = 1 .. Len(page) /\ Len(seen) \in Nat
    BY LenProperties
  <2> QED BY <2>1
<1>2. base \in Seq(Tweets)
  BY <1>1, TakenType
<1>k. \A n \in 1 .. Len(page) : n \in ks <=> Passes(s, page[n])
  BY <1>1
<1>f. Filter(page, LAMBDA t : Passes(s, t)) = f
  BY DEF Filter
<1> HIDE DEF ks
<1>3. f \in Seq(Tweets) /\ \E at \in [1 .. Len(f) -> ks] :
                 /\ \A i, j \in 1 .. Len(f) : i < j => at[i] < at[j]
                 /\ \A n \in ks : \E i \in 1 .. Len(f) : at[i] = n
                 /\ \A i \in 1 .. Len(f) : f[i] = page[at[i]]
  BY <1>1, PartFacts
<1> HIDE DEF f
<1>4. PICK at \in [1 .. Len(f) -> ks] :
                 /\ \A i, j \in 1 .. Len(f) : i < j => at[i] < at[j]
                 /\ \A n \in ks : \E i \in 1 .. Len(f) : at[i] = n
                 /\ \A i \in 1 .. Len(f) : f[i] = page[at[i]]
  BY <1>3
<1> HIDE DEF base
<1>5. PICK h \in [0 .. Len(f) -> Seq(Tweets)] :
              /\ h[0] = base /\ \A n \in 1 .. Len(f) : h[n] = AddItem(h[n - 1], f[n])
              /\ FoldLeft(AddItem, base, f) = h[Len(f)]
  BY <1>2, <1>3, ItemsFold
<1>6. Len(f) \in Nat /\ \A j \in 1 .. Len(f) : at[j] \in 1 .. Len(page)
  BY <1>1, <1>3, <1>4, LenProperties
<1> DEFINE Upto(n, i) == \A j \in 1 .. Len(f) : at[j] <= n <=> j <= i
           T == {n \in 0 .. Len(page) :
                   \A i \in 0 .. Len(f) : Upto(n, i) => Taken(s, seen, o + n) = h[i]}
<1>7. 0 \in T
  <2>1. \A i \in 0 .. Len(f) : Upto(0, i) => i = 0
    <3>1. ASSUME NEW i \in 1 .. Len(f), Upto(0, i) PROVE FALSE
      <4>1. at[i] <= 0
        BY <1>6, <3>1
      <4> QED BY <1>6, <4>1
    <3>2. \A i \in 0 .. Len(f) : i = 0 \/ i \in 1 .. Len(f)
      BY <1>6
    <3> HIDE DEF Upto
    <3> QED BY <3>1, <3>2
  <2>2. o + 0 = o /\ 0 \in 0 .. Len(page)
    BY <1>1
  <2> HIDE DEF Upto
  <2> QED BY <1>5, <2>1, <2>2 DEF base
<1>8. ASSUME NEW n \in 1 .. Len(page), n - 1 \in T PROVE n \in T
  <2>1. SUFFICES ASSUME NEW i \in 0 .. Len(f), Upto(n, i) PROVE Taken(s, seen, o + n) = h[i]
    <3>1. n \in 0 .. Len(page)
      BY <1>1
    <3> HIDE DEF Upto
    <3> QED BY <3>1
  <2>2. /\ o + n \in 1 .. Len(seen) /\ (o + n) - 1 = o + (n - 1) /\ seen[o + n] = page[n]
        /\ n - 1 \in Nat /\ n \in Nat
    BY <1>1
  <2>3. \A j \in 0 .. Len(f) : Upto(n - 1, j) => Taken(s, seen, o + (n - 1)) = h[j]
    BY <1>8
  <2>4. CASE Passes(s, page[n])
    <3>1. PICK j \in 1 .. Len(f) : at[j] = n
      BY <1>4, <1>k, <2>4
    <3>2. j <= i
      BY <2>1, <2>2, <3>1
    <3>3. i \in 1 .. Len(f)
      BY <1>6, <3>1, <3>2
    <3>4. at[i] <= n
      BY <1>6, <2>1, <3>3
    <3>5. at[i] = n
      <4>1. j < i => n < at[i]
        BY <1>4, <3>1, <3>3
      <4>2. at[i] \in Nat
        BY <1>6, <3>3
      <4> QED BY <2>2, <3>1, <3>2, <3>3, <3>4, <4>1, <4>2
    <3>6. Upto(n - 1, i - 1)
      <4>1. SUFFICES ASSUME NEW k \in 1 .. Len(f) PROVE at[k] <= n - 1 <=> k <= i - 1
        OBVIOUS
      <4>2. at[k] \in Nat /\ (at[k] <= n <=> k <= i)
        BY <1>6, <2>1
      <4>3. k < i => at[k] < n
        BY <1>4, <3>3, <3>5
      <4>4. at[k] < n => k # i
        BY <3>5, <2>2
      <4> QED BY <2>2, <3>3, <4>2, <4>3, <4>4
    <3>7. i - 1 \in 0 .. Len(f)
      BY <1>6, <3>3
    <3>8. Taken(s, seen, o + (n - 1)) = h[i - 1]
      BY <2>3, <3>6, <3>7
    <3>9. h[i] = AddItem(h[i - 1], page[n])
      BY <1>4, <1>5, <3>3, <3>5
    <3> HIDE DEF Upto, T
    <3> QED BY <2>2, <2>4, <3>8, <3>9, TakenStep
  <2>5. CASE ~Passes(s, page[n])
    <3>1. \A j \in 1 .. Len(f) : at[j] # n
      BY <1>4, <1>k, <2>5
    <3>2. Upto(n - 1, i)
      <4>1. SUFFICES ASSUME NEW k \in 1 .. Len(f) PROVE at[k] <= n - 1 <=> k <= i
        OBVIOUS
      <4>2. at[k] \in Nat /\ at[k] # n /\ (at[k] <= n <=> k <= i)
        BY <1>6, <2>1, <3>1
      <4> QED BY <2>2, <4>2
    <3>3. Taken(s, seen, o + (n - 1)) = h[i]
      BY <2>3, <3>2
    <3> HIDE DEF Upto, T
    <3> QED BY <2>2, <2>5, <3>3, TakenStep
  <2> QED BY <2>4, <2>5
<1>9. \A n \in 0 .. Len(page) : n \in T
  <2> HIDE DEF T
  <2> QED BY <1>1, <1>7, <1>8, UpTo
<1>10. Len(page) \in T /\ Len(f) \in 0 .. Len(f)
  <2>1. Len(page) \in 0 .. Len(page)
    BY <1>1
  <2> HIDE DEF T
  <2> QED BY <1>6, <1>9, <2>1
<1>11. Upto(Len(page), Len(f))
  BY <1>6
<1>12. Taken(s, seen, o + Len(page)) = h[Len(f)]
  <2> HIDE DEF Upto
  <2> QED BY <1>10, <1>11
<1> HIDE DEF Upto, T
<1>13. FoldLeft(AddItem, Taken(s, seen, o), f) = Taken(s, seen, o + Len(page))
  BY <1>5, <1>12 DEF base
<1> QED BY <1>13 DEF Filter, f, ks

-----------------------------------------------------------------------------
(* Sequences laid end to end: where each begins, and that its members follow.*)
LEMMA FlattenFacts ==
    ASSUME NEW E, NEW ss \in Seq(Seq(E))
    PROVE  /\ FlattenSeq(ss) \in Seq(E)
           /\ \E off \in [0 .. Len(ss) -> Nat] :
                 /\ off[0] = 0 /\ \A n \in 1 .. Len(ss) : off[n] = off[n - 1] + Len(ss[n])
                 /\ Len(FlattenSeq(ss)) = off[Len(ss)]
                 /\ \A n \in 1 .. Len(ss) : off[n] <= off[Len(ss)]
                 /\ \A n \in 1 .. Len(ss) : \A k \in 1 .. Len(ss[n]) :
                       FlattenSeq(ss)[off[n - 1] + k] = ss[n][k]
<1> DEFINE l == Len(ss)
           Is(f, n) == \A i \in 1 .. n : f[i] = IF i = 1 THEN ss[i] ELSE f[i - 1] \o ss[i]
           Eq(f) == f = [i \in 1 .. l |-> IF i = 1 THEN ss[i] ELSE f[i - 1] \o ss[i]]
<1>1. l \in Nat /\ \A i \in 1 .. l : ss[i] \in Seq(E)
  BY LenProperties, ElementOfSeq
<1>2. CASE l = 0
  <2>1. ss = <<>> /\ FlattenSeq(ss) = <<>> /\ <<>> \in Seq(E) /\ Len(<<>>) = 0
    BY <1>2, EmptySeq DEF FlattenSeq
  <2> DEFINE off == [n \in 0 .. 0 |-> 0]
  <2>2. off \in [0 .. l -> Nat] /\ off[0] = 0 /\ off[l] = 0
    BY <1>2
  <2>3. 1 .. l = {}
    BY <1>2
  <2> HIDE DEF off
  <2> QED BY <2>1, <2>2, <2>3
<1>3. CASE l # 0
  <2>0. l \in Nat \ {0}
    BY <1>1, <1>3
  <2>1. \E f : Eq(f)
    <3> DEFINE T == {n \in 0 .. l : \E f \in [1 .. n -> Seq(E)] : Is(f, n)}
    <3>1. 0 \in T
      <4> DEFINE f == [i \in 1 .. 0 |-> <<>>]
      <4>1. f \in [1 .. 0 -> Seq(E)] /\ Is(f, 0)
        BY EmptySeq
      <4>2. 0 \in 0 .. l
        BY <1>1
      <4> HIDE DEF f, Is
      <4> QED BY <4>1, <4>2
    <3>2. ASSUME NEW n \in 1 .. l, n - 1 \in T PROVE n \in T
      <4>1. PICK f \in [1 .. n - 1 -> Seq(E)] : Is(f, n - 1)
        BY <3>2
      <4> DEFINE g == [i \in 1 .. n |-> IF i = n THEN IF n = 1 THEN ss[n] ELSE f[n - 1] \o ss[n]
                                        ELSE f[i]]
      <4>2. n \in Nat /\ \A i \in 1 .. n : i = n \/ i \in 1 .. n - 1
        OBVIOUS
      <4>3. n # 1 => f[n - 1] \o ss[n] \in Seq(E)
        <5>1. n # 1 => n - 1 \in 1 .. n - 1
          BY <4>2
        <5> QED BY <1>1, <5>1, ConcatProperties
      <4>4. g \in [1 .. n -> Seq(E)]
        <5>1. \A i \in 1 .. n : g[i] \in Seq(E)
          BY <1>1, <4>2, <4>3
        <5> QED BY <5>1
      <4>5. Is(g, n)
        <5>1. SUFFICES ASSUME NEW i \in 1 .. n
                       PROVE  g[i] = IF i = 1 THEN ss[i] ELSE g[i - 1] \o ss[i]
          OBVIOUS
        <5>2. i # 1 => g[i - 1] = f[i - 1]
          <6>1. i # 1 => i - 1 \in 1 .. n /\ i - 1 # n
            BY <4>2
          <6> QED BY <6>1
        <5>3. CASE i = n
          BY <5>2, <5>3
        <5>4. CASE i # n
          <6>1. i \in 1 .. n - 1
            BY <4>2, <5>4
          <6>2. g[i] = f[i]
            BY <5>4
          <6> HIDE DEF g
          <6> QED BY <4>1, <5>2, <6>1, <6>2
        <5> QED BY <5>3, <5>4
      <4> HIDE DEF g, Is
      <4> QED BY <1>1, <4>4, <4>5
    <3>3. \A n \in 0 .. l : n \in T
      <4> HIDE DEF T
      <4> QED BY <1>1, <3>1, <3>2, UpTo
    <3>4. l \in T
      <4>1. l \in 0 .. l
        BY <1>1
      <4> QED BY <3>3, <4>1
    <3>5. PICK f \in [1 .. l -> Seq(E)] : Is(f, l)
      BY <3>4
    <3> HIDE DEF l
    <3> QED BY <3>5
  <2> DEFINE fl == CHOOSE f : Eq(f)
  <2>2. Eq(fl)
    BY <2>1, Zenon
  <2>3. FlattenSeq(ss) = fl[l]
    BY <1>3 DEF FlattenSeq
  <2> HIDE DEF fl, l
  <2>4. fl[1] = ss[1] /\ \A i \in 1 .. l : i # 1 => fl[i] = fl[i - 1] \o ss[i]
    <3>1. 1 \in 1 .. l
      BY <2>0
    <3>2. \A i \in 1 .. l : fl[i] = IF i = 1 THEN ss[i] ELSE fl[i - 1] \o ss[i]
      BY <2>2
    <3> HIDE DEF Eq
    <3> QED BY <3>1, <3>2
  <2> HIDE DEF Eq
  <2> DEFINE off == [n \in 0 .. l |-> IF n = 0 THEN 0 ELSE Len(fl[n])]
  <2>5. \A n \in 1 .. l : fl[n] \in Seq(E)
    <3> DEFINE T == {n \in 0 .. l : n = 0 \/ fl[n] \in Seq(E)}
    <3>1. 0 \in T
      BY <1>1
    <3>2. ASSUME NEW n \in 1 .. l, n - 1 \in T PROVE n \in T
      <4>1. CASE n = 1
        BY <1>1, <2>4, <4>1
      <4>2. CASE n # 1
        <5>1. fl[n - 1] \in Seq(E)
          BY <3>2, <4>2
        <5>2. fl[n] = fl[n - 1] \o ss[n] /\ ss[n] \in Seq(E)
          BY <1>1, <2>4, <4>2
        <5>3. fl[n] \in Seq(E)
          BY <5>1, <5>2, ConcatProperties
        <5> QED BY <1>1, <5>3
      <4> QED BY <4>1, <4>2
    <3>3. \A n \in 0 .. l : n \in T
      <4> HIDE DEF T
      <4> QED BY <1>1, <3>1, <3>2, UpTo
    <3>4. \A n \in 1 .. l : n \in 0 .. l /\ n # 0
      BY <1>1
    <3> QED BY <3>3, <3>4
  <2>6. /\ off \in [0 .. l -> Nat] /\ off[0] = 0 /\ \A n \in 1 .. l : off[n] = Len(fl[n])
    <3>1. \A n \in 0 .. l : n = 0 \/ n \in 1 .. l
      BY <1>1
    <3>2. \A n \in 1 .. l : Len(fl[n]) \in Nat /\ n \in 0 .. l /\ n # 0
      BY <1>1, <2>5, LenProperties
    <3>3. \A n \in 0 .. l : off[n] \in Nat
      BY <3>1, <3>2
    <3>4. 0 \in 0 .. l
      BY <1>1
    <3> QED BY <3>2, <3>3, <3>4
  <2> HIDE DEF off
  <2>7. ASSUME NEW n \in 1 .. l
        PROVE  /\ off[n] = off[n - 1] + Len(ss[n]) /\ off[n - 1] \in Nat /\ Len(ss[n]) \in Nat
               /\ \A k \in 1 .. Len(ss[n]) : fl[n][off[n - 1] + k] = ss[n][k]
               /\ n # 1 => \A k \in 1 .. off[n - 1] : fl[n][k] = fl[n - 1][k]
    <3>1. Len(ss[n]) \in Nat /\ ss[n] \in Seq(E)
      BY <1>1, LenProperties
    <3>2. CASE n = 1
      BY <2>4, <2>6, <3>1, <3>2
    <3>3. CASE n # 1
      <4>1. n - 1 \in 1 .. l
        BY <1>1, <3>3
      <4>2. fl[n - 1] \in Seq(E) /\ off[n - 1] = Len(fl[n - 1]) /\ Len(fl[n - 1]) \in Nat
        BY <2>5, <2>6, <4>1, LenProperties
      <4>3. fl[n] = fl[n - 1] \o ss[n]
        BY <2>4, <3>3
      <4>a. PICK a \in Nat, b \in Nat : a = off[n - 1] /\ b = Len(ss[n])
        BY <3>1, <4>2
      <4>4. Len(fl[n]) = a + b /\ \A i \in 1 .. a + b :
                  fl[n][i] = IF i <= a THEN fl[n - 1][i] ELSE ss[n][i - a]
        <5>1. \A x, y \in Seq(E) :
                 /\ Len(x \o y) = Len(x) + Len(y)
                 /\ \A i \in 1 .. Len(x) + Len(y) :
                       (x \o y)[i] = IF i <= Len(x) THEN x[i] ELSE y[i - Len(x)]
          BY ConcatProperties
        <5>2. PICK x \in Seq(E), y \in Seq(E) : x = fl[n - 1] /\ y = ss[n]
          BY <3>1, <4>2
        <5>3. Len(x) = a /\ Len(y) = b /\ fl[n] = x \o y
          BY <4>2, <4>3, <4>a, <5>2
        <5>4. Len(x \o y) = a + b /\ \A i \in 1 .. a + b :
                  (x \o y)[i] = IF i <= a THEN x[i] ELSE y[i - a]
          BY <5>1, <5>3
        <5> QED BY <5>2, <5>3, <5>4
      <4>5. \A k \in 1 .. Len(ss[n]) : fl[n][off[n - 1] + k] = ss[n][k]
        <5>1. ASSUME NEW k \in 1 .. b PROVE fl[n][a + k] = ss[n][k]
          <6>1. PICK i : i = a + k
            OBVIOUS
          <6>2. i \in 1 .. a + b /\ ~ (i <= a) /\ i - a = k
            BY <6>1
          <6>3. fl[n][i] = ss[n][k]
            BY <4>4, <6>2
          <6> QED BY <6>1, <6>3
        <5> QED BY <4>a, <5>1
      <4>6. \A k \in 1 .. off[n - 1] : fl[n][k] = fl[n - 1][k]
        <5>1. \A k \in 1 .. a : k \in 1 .. a + b /\ k <= a
          OBVIOUS
        <5> QED BY <4>4, <4>a, <5>1
      <4>7. off[n] = off[n - 1] + Len(ss[n])
        BY <2>6, <4>4, <4>a
      <4> QED BY <3>1, <4>2, <4>5, <4>6, <4>7
    <3> QED BY <3>2, <3>3
  <2>8. \A m \in 1 .. l : \A n \in 1 .. m :
           /\ off[n] <= off[m]
           /\ \A k \in 1 .. Len(ss[n]) : fl[m][off[n - 1] + k] = ss[n][k]
    <3> DEFINE Good(m, n) == /\ off[n] <= off[m]
                             /\ \A k \in 1 .. Len(ss[n]) : fl[m][off[n - 1] + k] = ss[n][k]
               T == {m \in 0 .. l : \A n \in 1 .. m : Good(m, n)}
    <3>1. 0 \in T
      BY <1>1
    <3>2. ASSUME NEW m \in 1 .. l, m - 1 \in T PROVE m \in T
      <4>1. SUFFICES ASSUME NEW n \in 1 .. m PROVE Good(m, n)
        <5> HIDE DEF Good
        <5> QED BY <1>1
      <4>2. n \in 1 .. l /\ off[m] \in Nat
        BY <1>1, <2>6
      <4>3. CASE n = m
        BY <2>7, <4>2, <4>3
      <4>4. CASE n # m
        <5>1. n \in 1 .. m - 1 /\ m # 1
          BY <4>2, <4>4
        <5>2. Good(m - 1, n)
          BY <3>2, <5>1
        <5>3. /\ off[m] = off[m - 1] + Len(ss[m]) /\ off[m - 1] \in Nat /\ Len(ss[m]) \in Nat
              /\ \A k \in 1 .. off[m - 1] : fl[m][k] = fl[m - 1][k]
          BY <2>7, <5>1
        <5>4. /\ off[n] = off[n - 1] + Len(ss[n]) /\ off[n - 1] \in Nat /\ Len(ss[n]) \in Nat
          BY <2>7, <4>2
        <5>5. off[n] <= off[m]
          BY <5>2, <5>3, <5>4
        <5>6. ASSUME NEW k \in 1 .. Len(ss[n]) PROVE fl[m][off[n - 1] + k] = ss[n][k]
          <6>1. off[n - 1] + k \in 1 .. off[m - 1]
            BY <5>2, <5>3, <5>4
          <6> QED BY <5>2, <5>3, <6>1
        <5> QED BY <5>5, <5>6
      <4> QED BY <4>3, <4>4
    <3>3. \A m \in 0 .. l : m \in T
      <4> HIDE DEF T
      <4> QED BY <1>1, <3>1, <3>2, UpTo
    <3>4. \A m \in 1 .. l : m \in 0 .. l
      BY <1>1
    <3> QED BY <3>3, <3>4
  <2>10. l \in 1 .. l
    BY <2>0
  <2>11. fl[l] \in Seq(E) /\ Len(fl[l]) = off[l]
    BY <2>5, <2>6, <2>10
  <2>9. \A n \in 1 .. l : off[n] <= off[l]
    BY <2>8, <2>10
  <2>12. \A n \in 1 .. l : \A k \in 1 .. Len(ss[n]) : fl[l][off[n - 1] + k] = ss[n][k]
    BY <2>8, <2>10
  <2>13. \A n \in 1 .. l : off[n] = off[n - 1] + Len(ss[n])
    BY <2>7
  <2>14. off \in [0 .. Len(ss) -> Nat] /\ off[0] = 0
    BY <2>6 DEF l
  <2> QED BY <2>3, <2>9, <2>11, <2>12, <2>13, <2>14 DEF l
<1> QED BY <1>2, <1>3

-----------------------------------------------------------------------------
(* The pages that are looked at end with the first that closes the loop.     *)
Closes(page) == page = <<>> \/ \E t \in Range(page) : ~Item[t].recent

LEMMA LookedAt ==
    ASSUME NEW pages \in Seq(Seq(Tweets))
    PROVE  \E l \in 0 .. Len(pages) :
              /\ Seen(pages) = FlattenSeq(SubSeq(pages, 1, l))
              /\ \A n \in 1 .. l - 1 : ~Closes(pages[n])
              /\ l < Len(pages) => l \in Nat \ {0} /\ Closes(pages[l])
<1> DEFINE last == {n \in DOMAIN pages : \A m \in 1 .. n - 1 : ~Closes(pages[m])}
           missed == (1 .. Len(pages)) \ last
<1>1. /\ Len(pages) \in Nat /\ DOMAIN pages = 1 .. Len(pages)
      /\ \A n \in Nat : IsFiniteSet(1 .. n) /\ Cardinality(1 .. n) = n
  BY LenProperties, FS_Interval
<1>2. Seen(pages) = FlattenSeq(SubSeq(pages, 1, Cardinality(last)))
  BY DEF Seen, Closes
<1>3. CASE missed = {}
  <2>1. last = 1 .. Len(pages) /\ Len(pages) \in 0 .. Len(pages)
    BY <1>1, <1>3
  <2>2. \A n \in 1 .. Len(pages) - 1 : ~Closes(pages[n])
    <3>1. ASSUME NEW n \in 1 .. Len(pages) - 1 PROVE ~Closes(pages[n])
      <4>1. Len(pages) \in 1 .. Len(pages)
        BY <1>1
      <4>2. Len(pages) \in last
        <5> HIDE DEF last
        <5> QED BY <2>1, <4>1
      <4> QED BY <4>2
    <3> QED BY <3>1
  <2>3. Seen(pages) = FlattenSeq(SubSeq(pages, 1, Len(pages)))
    BY <1>1, <1>2, <2>1
  <2> QED BY <1>1, <2>1, <2>2, <2>3
<1>4. CASE missed # {}
  <2>1. PICK n \in missed : \A m \in missed : n <= m
    <3>1. missed \in SUBSET Nat
      OBVIOUS
    <3> HIDE DEF missed
    <3> QED BY <1>4, <3>1, LeastNumber
  <2>2. n \in 1 .. Len(pages) /\ n \notin last
    BY <2>1
  <2>3. PICK j \in 1 .. n - 1 : Closes(pages[j])
    BY <1>1, <2>2
  <2>4. n - 1 \in 1 .. Len(pages) /\ n - 1 < Len(pages) /\ n - 1 \in Nat \ {0}
    BY <1>1, <2>2, <2>3
  <2>5. \A m \in 1 .. n - 1 : m \in last
    <3>1. ASSUME NEW m \in 1 .. n - 1, m \notin last PROVE FALSE
      <4>1. m \in missed
        BY <1>1, <2>2, <3>1
      <4>2. n <= m
        BY <2>1, <4>1
      <4> QED BY <2>2, <4>2
    <3> QED BY <3>1
  <2>6. \A m \in last : m \in 1 .. n - 1
    <3>1. ASSUME NEW m \in last, m \notin 1 .. n - 1 PROVE FALSE
      <4>1. m \in 1 .. Len(pages) /\ j \in 1 .. m - 1
        BY <1>1, <2>2, <3>1
      <4> QED BY <2>3, <3>1, <4>1
    <3> QED BY <3>1
  <2>7. last = 1 .. n - 1
    <3> HIDE DEF last
    <3> QED BY <2>5, <2>6
  <2>8. \A m \in 1 .. (n - 1) - 1 : ~Closes(pages[m])
    <3>1. n - 1 \in last
      BY <2>4, <2>5
    <3> QED BY <3>1
  <2>9. Closes(pages[n - 1])
    <3>1. j = n - 1
      BY <2>2, <2>3, <2>8
    <3> QED BY <2>3, <3>1
  <2>10. Seen(pages) = FlattenSeq(SubSeq(pages, 1, n - 1))
    <3>1. Cardinality(last) = n - 1
      BY <1>1, <2>4, <2>7
    <3> QED BY <1>2, <3>1
  <2>11. n - 1 \in 0 .. Len(pages)
    BY <1>1, <2>4
  <2> QED BY <2>4, <2>8, <2>9, <2>10, <2>11
<1> QED BY <1>3, <1>4

(* Where the tweets of each of these pages are shown.                        *)
Laid(off, l, pages, seen) ==
    /\ off \in [0 .. l -> Nat] /\ off[0] = 0 /\ off[l] = Len(seen)
    /\ \A n \in 1 .. l :
          /\ off[n] = off[n - 1] + Len(pages[n]) /\ off[n] <= Len(seen)
          /\ \A k \in 1 .. Len(pages[n]) : seen[off[n - 1] + k] = pages[n][k]
LEMMA ShownFacts ==
    ASSUME NEW pages \in Seq(Seq(Tweets)), NEW l \in 0 .. Len(pages),
           NEW seen, seen = FlattenSeq(SubSeq(pages, 1, l))
    PROVE  /\ seen \in Seq(Tweets)
           /\ \E off : Laid(off, l, pages, seen)
<1> DEFINE ss == SubSeq(pages, 1, l)
<1>1. Len(pages) \in Nat /\ \A i \in 1 .. l : pages[i] \in Seq(Tweets)
  BY LenProperties, ElementOfSeq
<1>2. ss = [i \in 1 .. l |-> pages[i]]
  <2>1. ss = [i \in 1 .. (1 + l) - 1 |-> pages[(i + 1) - 1]]
    BY <1>1
  <2>2. (1 + l) - 1 = l /\ \A i \in 1 .. l : (i + 1) - 1 = i
    BY <1>1
  <2> QED BY <2>1, <2>2
<1>3. ss \in Seq(Seq(Tweets)) /\ Len(ss) = l
  <2>1. ss \in [1 .. l -> Seq(Tweets)]
    BY <1>1, <1>2
  <2>2. l \in Nat
    OBVIOUS
  <2> HIDE DEF ss
  <2> QED BY <2>1, <2>2, FunctionIsSeq
<1> HIDE DEF ss
<1>4. PICK off \in [0 .. Len(ss) -> Nat] :
         /\ off[0] = 0 /\ \A n \in 1 .. Len(ss) : off[n] = off[n - 1] + Len(ss[n])
         /\ Len(FlattenSeq(ss)) = off[Len(ss)]
         /\ \A n \in 1 .. Len(ss) : off[n] <= off[Len(ss)]
         /\ \A n \in 1 .. Len(ss) : \A k \in 1 .. Len(ss[n]) :
               FlattenSeq(ss)[off[n - 1] + k] = ss[n][k]
  BY <1>3, FlattenFacts
<1>5. FlattenSeq(ss) \in Seq(Tweets) /\ seen = FlattenSeq(ss)
  BY <1>3, FlattenFacts DEF ss
<1>6. \A n \in 1 .. l : ss[n] = pages[n]
  BY <1>2
<1>7. \A n \in 1 .. l :
         /\ off[n] = off[n - 1] + Len(pages[n]) /\ off[n] <= Len(seen)
         /\ \A k \in 1 .. Len(pages[n]) : seen[off[n - 1] + k] = pages[n][k]
  <2>1. SUFFICES ASSUME NEW n \in 1 .. l
                 PROVE  /\ off[n] = off[n - 1] + Len(pages[n]) /\ off[n] <= Len(seen)
                        /\ \A k \in 1 .. Len(pages[n]) : seen[off[n - 1] + k] = pages[n][k]
    OBVIOUS
  <2>2. ss[n] = pages[n] /\ n \in 1 .. Len(ss)
    BY <1>3, <1>6
  <2>3. off[n] = off[n - 1] + Len(ss[n]) /\ off[n] <= Len(seen)
    BY <1>4, <1>5, <2>2
  <2>4. \A k \in 1 .. Len(ss[n]) : seen[off[n - 1] + k] = ss[n][k]
    BY <1>4, <1>5, <2>2
  <2> QED BY <2>2, <2>3, <2>4
<1>8. off \in [0 .. l -> Nat] /\ off[0] = 0 /\ off[l] = Len(seen)
  BY <1>3, <1>4, <1>5
<1>9. Laid(off, l, pages, seen)
  BY <1>7, <1>8 DEF Laid
<1> QED BY <1>5, <1>9

(* What the loop has kept when it has gone over some of the pages.           *)
LEMMA Collects ==
    ASSUME NEW s, NEW pages \in Seq(Seq(Tweets)), NEW seen, seen = Seen(pages)
    PROVE  /\ seen \in Seq(Tweets)
           /\ Collected(s, pages)
                = Prefix(Part(seen, {n \in DOMAIN seen : Wants(s, seen, n)}), Limit)
<1>1. PICK l \in 0 .. Len(pages) :
              /\ seen = FlattenSeq(SubSeq(pages, 1, l))
              /\ \A n \in 1 .. l - 1 : ~Closes(pages[n])
              /\ l < Len(pages) => l \in Nat \ {0} /\ Closes(pages[l])
  BY LookedAt
<1>2. seen \in Seq(Tweets)
  BY <1>1, ShownFacts
<1>o. PICK off : Laid(off, l, pages, seen)
  BY <1>1, ShownFacts
<1>3. /\ off \in [0 .. l -> Nat] /\ off[0] = 0 /\ off[l] = Len(seen)
      /\ \A n \in 1 .. l :
            /\ off[n] = off[n - 1] + Len(pages[n]) /\ off[n] <= Len(seen)
            /\ \A k \in 1 .. Len(pages[n]) : seen[off[n - 1] + k] = pages[n][k]
  BY <1>o DEF Laid
<1>4. PICK h \in [0 .. Len(pages) -> Sofar] :
              /\ h[0] = [kept |-> <<>>, done |-> FALSE]
              /\ \A n \in 1 .. Len(pages) : h[n] = AddPage(s, h[n - 1], pages[n])
              /\ Collected(s, pages) = h[Len(pages)].kept
  BY PagesFold
<1>5. /\ Len(pages) \in Nat /\ l \in Nat /\ Limit \in Nat /\ Len(seen) \in Nat
      /\ DOMAIN seen = 1 .. Len(seen)
      /\ \A n \in 1 .. Len(pages) : pages[n] \in Seq(Tweets) /\ Len(pages[n]) \in Nat
      /\ \A n \in 0 .. l : n \in 0 .. Len(pages)
  <2>1. /\ Len(pages) \in Nat /\ Len(seen) \in Nat /\ DOMAIN seen = 1 .. Len(seen)
        /\ \A n \in 1 .. Len(pages) : pages[n] \in Seq(Tweets)
    BY <1>2, LenProperties, ElementOfSeq
  <2> QED BY <2>1, ScoringAssumption, LenProperties
<1>6. \A n \in 0 .. l : off[n] \in 0 .. Len(seen)
  <2>1. \A n \in 0 .. l : n = 0 \/ n \in 1 .. l
    BY <1>5
  <2> QED BY <1>3, <1>5, <2>1
<1> DEFINE Good(n) == /\ h[n].kept = Taken(s, seen, off[n])
                      /\ h[n].done => Len(h[n].kept) = Limit \/ n = l
                      /\ n # 0 /\ Closes(pages[n]) => h[n].done
<1>7. Good(0)
  <2>1. h[0].kept = <<>> /\ h[0].done = FALSE
    BY <1>4
  <2>2. Taken(s, seen, 0) = <<>>
    BY <1>2, TakenNone
  <2> QED BY <1>3, <2>1, <2>2
<1>8. ASSUME NEW n \in 1 .. l, Good(n - 1) PROVE Good(n)
  <2>1. /\ n \in 1 .. Len(pages) /\ n - 1 \in 0 .. l /\ n - 1 \in 0 .. Len(pages) /\ n - 1 # l
        /\ n \in 0 .. l /\ n \in Nat
    BY <1>5
  <2> DEFINE c == h[n - 1]
             page == pages[n]
             o == off[n - 1]
             kept == FoldLeft(AddItem, c.kept, Filter(page, LAMBDA t : Passes(s, t)))
  <2>2. /\ c \in Sofar /\ page \in Seq(Tweets) /\ o \in 0 .. Len(seen) /\ off[n] = o + Len(page)
        /\ off[n] \in 0 .. Len(seen) /\ Len(page) \in Nat /\ off[n] <= Len(seen)
        /\ \A k \in 1 .. Len(page) : seen[o + k] = page[k]
    BY <1>3, <1>5, <1>6, <2>1
  <2>3. h[n] = IF c.done \/ page = <<>> THEN [c EXCEPT !.done = TRUE]
               ELSE [kept |-> kept,
                     done |-> Len(kept) = Limit \/ \E t \in Range(page) : ~Item[t].recent]
    BY <1>4, <2>1 DEF AddPage
  <2>4. c.kept = Taken(s, seen, o) /\ (c.done => Len(c.kept) = Limit)
    BY <1>8, <2>1
  <2>5. c = [kept |-> c.kept, done |-> c.done]
    BY <2>2 DEF Sofar
  <2> HIDE DEF c
  <2>6. CASE c.done
    <3>1. h[n].kept = c.kept /\ h[n].done = TRUE
      BY <2>3, <2>5, <2>6
    <3>2. Taken(s, seen, off[n]) = Taken(s, seen, o)
      <4>1. Len(Taken(s, seen, o)) = Limit
        BY <2>4, <2>6
      <4>2. off[n] \in o .. Len(seen)
        BY <1>5, <2>2
      <4> HIDE DEF o
      <4> QED BY <1>2, <2>2, <4>1, <4>2, TakenFull
    <3> QED BY <2>4, <2>6, <3>1, <3>2
  <2>7. CASE ~c.done /\ page = <<>>
    <3>1. h[n].kept = c.kept /\ h[n].done = TRUE
      BY <2>3, <2>5, <2>7
    <3>2. off[n] = o
      BY <2>2, <2>7, EmptySeq
    <3>3. Closes(page)
      BY <2>7 DEF Closes
    <3>4. n = l
      BY <1>1, <1>5, <3>3
    <3> QED BY <2>4, <3>1, <3>2, <3>4
  <2>8. CASE ~c.done /\ page # <<>>
    <3> DEFINE full == Len(kept) = Limit
               old == \E t \in Range(page) : ~Item[t].recent
               done == full \/ old
    <3>1. h[n] = [kept |-> kept, done |-> done] /\ done \in BOOLEAN
      BY <2>3, <2>8
    <3>2. kept = Taken(s, seen, off[n])
      <4>1. o \in Nat /\ o + Len(page) <= Len(seen)
        BY <2>2
      <4>2. FoldLeft(AddItem, Taken(s, seen, o), Filter(page, LAMBDA t : Passes(s, t)))
              = Taken(s, seen, o + Len(page))
        <5> HIDE DEF o, page
        <5> QED BY <1>2, <2>2, <4>1, PageTaken DEF Filter
      <4> QED BY <2>2, <2>4, <4>2
    <3> HIDE DEF kept
    <3>3. h[n].kept = kept /\ (h[n].done <=> full \/ old)
      <4>1. h[n].done = done
        <5> HIDE DEF done
        <5> QED BY <3>1
      <4>2. h[n].kept = kept
        <5> HIDE DEF done
        <5> QED BY <3>1
      <4>3. h[n].done <=> done
        <5> HIDE DEF full, old
        <5> QED BY <4>1, Zenon
      <4> HIDE DEF full, old
      <4> QED BY <4>2, <4>3
    <3>4. Closes(page) <=> old
      BY <2>8 DEF Closes
    <3>5. Closes(page) => n = l
      BY <1>1, <1>5
    <3>6. full <=> Len(kept) = Limit
      OBVIOUS
    <3> HIDE DEF page, full, old
    <3> QED BY <3>2, <3>3, <3>4, <3>5, <3>6 DEF page
  <2> QED BY <2>6, <2>7, <2>8
<1> HIDE DEF Good
<1>9. Good(l)
  <2> DEFINE T == {n \in 0 .. l : Good(n)}
  <2>1. 0 \in T
    BY <1>5, <1>7
  <2>2. ASSUME NEW n \in 1 .. l, n - 1 \in T PROVE n \in T
    BY <1>5, <1>8, <2>2
  <2>3. \A n \in 0 .. l : n \in T
    <3> HIDE DEF T
    <3> QED BY <1>5, <2>1, <2>2, UpTo
  <2> QED BY <1>5, <2>3
<1>10. h[Len(pages)].kept = h[l].kept
  <2>1. CASE l = Len(pages)
    BY <2>1
  <2>2. CASE l # Len(pages)
    <3>1. l < Len(pages) /\ l # 0 /\ h[l].done /\ h[l] \in Sofar
      <4>1. l < Len(pages) /\ l # 0 /\ Closes(pages[l])
        BY <1>1, <1>5, <2>2
      <4>2. h[l] \in Sofar
        BY <1>5
      <4> QED BY <1>9, <4>1, <4>2 DEF Good
    <3> DEFINE T == {n \in 0 .. Len(pages) : n >= l => h[n] = h[l]}
    <3>2. 0 \in T
      BY <1>5, <3>1
    <3>3. ASSUME NEW n \in 1 .. Len(pages), n - 1 \in T PROVE n \in T
      <4>1. CASE n <= l
        BY <1>5, <4>1
      <4>2. CASE ~ (n <= l)
        <5>1. h[n - 1] = h[l]
          BY <1>5, <3>3, <4>2
        <5>2. h[n] = [h[l] EXCEPT !.done = TRUE]
          BY <1>4, <3>1, <5>1 DEF AddPage
        <5>3. [h[l] EXCEPT !.done = TRUE] = h[l]
          BY <3>1 DEF Sofar
        <5>4. h[n] = h[l]
          BY <5>2, <5>3
        <5> QED BY <1>5, <5>4
      <4> QED BY <4>1, <4>2
    <3>4. \A n \in 0 .. Len(pages) : n \in T
      <4> HIDE DEF T
      <4> QED BY <1>5, <3>2, <3>3, UpTo
    <3>5. Len(pages) \in T
      BY <1>5, <3>4
    <3> QED BY <1>5, <3>5
  <2> QED BY <2>1, <2>2
<1>11. Collected(s, pages) = Taken(s, seen, Len(seen))
  BY <1>3, <1>4, <1>9, <1>10 DEF Good
<1>12. Wanting(s, seen, Len(seen)) = {n \in DOMAIN seen : Wants(s, seen, n)}
  BY <1>5 DEF Wanting
<1> QED BY <1>2, <1>11, <1>12 DEF Taken

(* What is stored of a source is the first of what it shows, up to the       *)
(* limit, whatever it answers: the filters, the recent window, the doubles   *)
(* and the three ways to leave the loop over the pages lose nothing          *)
(* (_fetch_source_latest_first, app/fetching/service.py).                    *)
THEOREM CollectsHolds == Spec => []CollectsNewest
<1>1. Base => CollectsNewest
  <2>1. SUFFICES ASSUME Base, NEW w \in Workers, pc[w] = "persist", NEW s, NEW seen,
                        seen = Seen(my[w].pages)
                 PROVE  Collected(s, my[w].pages)
                          = Prefix(Part(seen, {n \in DOMAIN seen : Wants(s, seen, n)}), Limit)
    BY DEF CollectsNewest
  <2>2. my[w].pages \in Feeds \union {<<>>}
    BY <2>1, LocalFacts DEF Base, TypeOK, Actors
  <2>3. my[w].pages \in Seq(Seq(Tweets))
    BY <2>2, ScoringAssumption, EmptySeq
  <2> QED BY <2>1, <2>3, Collects
<1> QED BY <1>1, BaseHolds, PTL
=============================================================================
