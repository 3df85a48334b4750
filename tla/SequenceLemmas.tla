--------------------------- MODULE SequenceLemmas ---------------------------
(***************************************************************************)
(* What the operators on sequences that the models use return.             *)
(***************************************************************************)
EXTENDS SequencesExt, SequenceTheorems, TLAPS

LEMMA ToSetEmpty == ToSet(<<>>) = {}
  BY DEF ToSet

\* Membership of a sequence, in terms of its positions.
LEMMA ToSetMember ==
  ASSUME NEW S, NEW s \in Seq(S), NEW e
  PROVE  e \in ToSet(s) <=> \E i \in 1 .. Len(s) : s[i] = e
  BY LenProperties DEF ToSet

LEMMA ToSetType == ASSUME NEW S, NEW s \in Seq(S) PROVE ToSet(s) \subseteq S
  BY DEF ToSet

LEMMA ToSetAppend ==
  ASSUME NEW S, NEW s \in Seq(S), NEW e \in S
  PROVE  ToSet(Append(s, e)) = ToSet(s) \cup {e}
  <1> DEFINE t == Append(s, e)
  <1>1. /\ t \in Seq(S) /\ Len(s) \in Nat /\ Len(t) = Len(s) + 1
        /\ \A i \in 1 .. Len(s) : t[i] = s[i]
        /\ t[Len(s) + 1] = e
    BY AppendProperties, LenProperties
  <1> HIDE DEF t
  <1>2. ASSUME NEW x PROVE x \in ToSet(t) <=> x \in ToSet(s) \cup {e}
    <2>1. x \in ToSet(s) <=> \E i \in 1 .. Len(s) : s[i] = x
      BY ToSetMember
    <2>2. x \in ToSet(t) <=> \E i \in 1 .. Len(s) + 1 : t[i] = x
      BY <1>1, ToSetMember
    <2> QED
      BY <1>1, <2>1, <2>2
  <1> QED
    BY <1>2 DEF t

LEMMA ToSetTail ==
  ASSUME NEW S, NEW s \in Seq(S), s # <<>>
  PROVE  ToSet(s) = {Head(s)} \cup ToSet(Tail(s))
  <1> DEFINE t == Tail(s)
  <1>1. /\ t \in Seq(S) /\ Len(s) \in Nat \ {0} /\ Len(t) = Len(s) - 1
        /\ \A i \in 1 .. Len(t) : t[i] = s[i + 1]
        /\ Head(s) = s[1]
    BY HeadTailProperties, EmptySeq
  <1> HIDE DEF t
  <1>2. ASSUME NEW x PROVE x \in ToSet(s) <=> x \in {Head(s)} \cup ToSet(t)
    <2>1. x \in ToSet(s) <=> \E i \in 1 .. Len(s) : s[i] = x
      BY ToSetMember
    <2>2. x \in ToSet(t) <=> \E i \in 1 .. Len(s) - 1 : s[i + 1] = x
      BY <1>1, ToSetMember, SMTT(60)
    <2>3. (\E i \in 1 .. Len(s) : s[i] = x) <=> s[1] = x \/ \E i \in 1 .. Len(s) - 1 : s[i + 1] = x
      <3>1. ASSUME NEW i \in 1 .. Len(s), s[i] = x, i # 1
            PROVE  \E j \in 1 .. Len(s) - 1 : s[j + 1] = x
        <4>1. i - 1 \in 1 .. Len(s) - 1 /\ (i - 1) + 1 = i
          BY <1>1, <3>1
        <4> QED
          BY <3>1, <4>1
      <3>2. ASSUME NEW i \in 1 .. Len(s) - 1 PROVE i + 1 \in 1 .. Len(s)
        BY <1>1
      <3>3. 1 \in 1 .. Len(s)
        BY <1>1
      <3> QED
        BY <3>1, <3>2, <3>3
    <2> QED
      BY <1>1, <2>1, <2>2, <2>3
  <1> QED
    BY <1>2 DEF t

LEMMA ToSetConcat ==
  ASSUME NEW S, NEW s \in Seq(S), NEW t \in Seq(S)
  PROVE  ToSet(s \o t) = ToSet(s) \cup ToSet(t)
  <1>1. /\ s \o t \in Seq(S) /\ Len(s) \in Nat /\ Len(t) \in Nat /\ Len(s \o t) = Len(s) + Len(t)
        /\ \A i \in 1 .. Len(s) + Len(t) : (s \o t)[i] = IF i <= Len(s) THEN s[i] ELSE t[i - Len(s)]
    BY ConcatProperties, LenProperties
  <1>2. ASSUME NEW x PROVE x \in ToSet(s \o t) <=> x \in ToSet(s) \cup ToSet(t)
    <2>1. /\ x \in ToSet(s) <=> \E i \in 1 .. Len(s) : s[i] = x
          /\ x \in ToSet(t) <=> \E i \in 1 .. Len(t) : t[i] = x
      BY ToSetMember
    <2>2. x \in ToSet(s \o t) <=> \E i \in 1 .. Len(s) + Len(t) : (s \o t)[i] = x
      BY <1>1, ToSetMember
    <2>3. ASSUME NEW i \in 1 .. Len(s) + Len(t), (s \o t)[i] = x
          PROVE  (\E j \in 1 .. Len(s) : s[j] = x) \/ \E j \in 1 .. Len(t) : t[j] = x
      BY <1>1, <2>3
    <2>4. ASSUME NEW i \in 1 .. Len(s), s[i] = x PROVE \E j \in 1 .. Len(s) + Len(t) : (s \o t)[j] = x
      BY <1>1, <2>4
    <2>5. ASSUME NEW i \in 1 .. Len(t), t[i] = x PROVE \E j \in 1 .. Len(s) + Len(t) : (s \o t)[j] = x
      <3>1. Len(s) + i \in 1 .. Len(s) + Len(t) /\ ~(Len(s) + i <= Len(s)) /\ (Len(s) + i) - Len(s) = i
        BY <1>1
      <3> QED
        BY <1>1, <2>5, <3>1
    <2> QED
      BY <2>1, <2>2, <2>3, <2>4, <2>5
  <1> QED
    BY <1>2

LEMMA OnceAppend ==
  ASSUME NEW S, NEW s \in Seq(S), NEW e \in S, IsInjective(s), e \notin ToSet(s)
  PROVE  IsInjective(Append(s, e))
  <1> DEFINE t == Append(s, e)
  <1>1. /\ t \in Seq(S) /\ Len(s) \in Nat /\ Len(t) = Len(s) + 1
        /\ \A i \in 1 .. Len(s) : t[i] = s[i]
        /\ t[Len(s) + 1] = e
    BY AppendProperties, LenProperties
  <1> HIDE DEF t
  <1>2. DOMAIN t = 1 .. Len(s) + 1 /\ DOMAIN s = 1 .. Len(s)
    BY <1>1, LenProperties
  <1>3. \A i \in 1 .. Len(s) : s[i] # e
    BY ToSetMember
  <1> SUFFICES ASSUME NEW a \in DOMAIN t, NEW b \in DOMAIN t, t[a] = t[b] PROVE a = b
    BY DEF t, IsInjective
  <1>4. CASE a \in 1 .. Len(s) /\ b \in 1 .. Len(s)
    BY <1>1, <1>2, <1>4 DEF IsInjective
  <1>5. CASE a = Len(s) + 1 \/ b = Len(s) + 1
    BY <1>1, <1>2, <1>3, <1>5
  <1> QED
    BY <1>1, <1>2, <1>4, <1>5

LEMMA OnceConcat ==
  ASSUME NEW S, NEW s \in Seq(S), NEW t \in Seq(S),
         IsInjective(s), IsInjective(t), ToSet(s) \cap ToSet(t) = {}
  PROVE  IsInjective(s \o t)
  <1> DEFINE u == s \o t
  <1>1. /\ u \in Seq(S) /\ Len(s) \in Nat /\ Len(t) \in Nat /\ Len(u) = Len(s) + Len(t)
        /\ \A i \in 1 .. Len(s) + Len(t) : u[i] = IF i <= Len(s) THEN s[i] ELSE t[i - Len(s)]
    BY ConcatProperties, LenProperties
  <1> HIDE DEF u
  <1>2. DOMAIN u = 1 .. Len(s) + Len(t) /\ DOMAIN s = 1 .. Len(s) /\ DOMAIN t = 1 .. Len(t)
    BY <1>1, LenProperties
  <1>3. \A i \in 1 .. Len(s), j \in 1 .. Len(t) : s[i] # t[j]
    BY ToSetMember
  <1> SUFFICES ASSUME NEW a \in DOMAIN u, NEW b \in DOMAIN u, u[a] = u[b] PROVE a = b
    BY DEF u, IsInjective
  <1>4. CASE a <= Len(s) /\ b <= Len(s)
    BY <1>1, <1>2, <1>4 DEF IsInjective
  <1>5. CASE ~(a <= Len(s)) /\ ~(b <= Len(s))
    <2>1. a - Len(s) \in 1 .. Len(t) /\ b - Len(s) \in 1 .. Len(t)
      BY <1>1, <1>2, <1>5
    <2>2. a - Len(s) = b - Len(s)
      BY <1>1, <1>2, <1>5, <2>1 DEF IsInjective
    <2> QED
      BY <1>1, <1>2, <2>2
  <1>6. CASE ~(a <= Len(s) <=> b <= Len(s))
    <2>1. \A i \in DOMAIN u : i <= Len(s) => u[i] = s[i] /\ i \in 1 .. Len(s)
      BY <1>1, <1>2
    <2>2. \A i \in DOMAIN u : ~(i <= Len(s)) => u[i] = t[i - Len(s)] /\ i - Len(s) \in 1 .. Len(t)
      BY <1>1, <1>2
    <2> QED
      BY <1>3, <1>6, <2>1, <2>2
  <1> QED
    BY <1>4, <1>5, <1>6
=============================================================================
