------------------------- MODULE RuntimeQueueProofs -------------------------
(* What the commands of RuntimeQueue do to the contents of its list.         *)
EXTENDS RuntimeQueue, SequenceTheorems, TLAPS

Distinct(q) == \A j, k \in DOMAIN q : q[j] = q[k] => j = k

(* What Append does to the contents of the list, and that it keeps a list of *)
(* distinct items so when the item is new.                                   *)
LEMMA AppendQueued ==
    ASSUME NEW S, NEW q \in Seq(S), NEW i \in S
    PROVE  /\ Append(q, i) \in Seq(S)
           /\ Range(Append(q, i)) = Range(q) \union {i}
           /\ Distinct(q) /\ i \notin Range(q) => Distinct(Append(q, i))
<1> DEFINE r == Append(q, i)
<1>1. /\ r \in Seq(S) /\ DOMAIN r = 1 .. Len(q) + 1 /\ DOMAIN q = 1 .. Len(q) /\ Len(q) \in Nat
      /\ r[Len(q) + 1] = i /\ \A k \in 1 .. Len(q) : r[k] = q[k]
  BY AppendProperties, LenProperties
<1>2. Range(r) = Range(q) \union {i}
  BY <1>1 DEF Range
<1>3. Distinct(q) /\ i \notin Range(q) => Distinct(r)
  BY <1>1 DEF Range, Distinct
<1> QED BY <1>1, <1>2, <1>3

(* What Tail does: of a list of distinct items it removes exactly the head.  *)
LEMMA TailQueued ==
    ASSUME NEW S, NEW q \in Seq(S), q # <<>>
    PROVE  /\ Head(q) \in S /\ Tail(q) \in Seq(S)
           /\ Range(q) = Range(Tail(q)) \union {Head(q)}
           /\ Distinct(q) => Distinct(Tail(q)) /\ Head(q) \notin Range(Tail(q))
<1> DEFINE r == Tail(q)
<1>1. /\ r \in Seq(S) /\ Head(q) \in S /\ Head(q) = q[1] /\ Len(q) \in Nat \ {0}
      /\ DOMAIN r = 1 .. Len(q) - 1 /\ DOMAIN q = 1 .. Len(q)
      /\ \A k \in 1 .. Len(q) - 1 : r[k] = q[k + 1]
  BY HeadTailProperties, LenProperties, EmptySeq
<1>2. \A k \in 2 .. Len(q) : k - 1 \in DOMAIN r /\ r[k - 1] = q[k]
  BY <1>1
<1>3. Range(q) = Range(r) \union {Head(q)}
  <2>1. \A x \in Range(q) : x \in Range(r) \union {Head(q)}
    <3>1. SUFFICES ASSUME NEW k \in 1 .. Len(q) PROVE q[k] \in Range(r) \union {Head(q)}
      BY <1>1 DEF Range
    <3>2. CASE k = 1
      BY <1>1, <3>2
    <3>3. CASE k # 1
      <4>1. k - 1 \in DOMAIN r /\ r[k - 1] = q[k]
        BY <1>1, <1>2, <3>3
      <4> QED BY <4>1 DEF Range
    <3> QED BY <3>2, <3>3
  <2>2. \A x \in Range(r) : x \in Range(q)
    BY <1>1 DEF Range
  <2>3. Head(q) \in Range(q)
    BY <1>1 DEF Range
  <2> QED BY <2>1, <2>2, <2>3
<1>4. Distinct(q) => Distinct(r) /\ Head(q) \notin Range(r)
  BY <1>1 DEF Range, Distinct
<1> QED BY <1>1, <1>3, <1>4
=============================================================================
