-------------------------- MODULE ContactListProofs --------------------------
(***************************************************************************)
(* Theorems about ContactList for any number of contacts, groups and edits. *)
(***************************************************************************)
EXTENDS ContactList, SequenceLemmas, FiniteSetTheorems, WellFoundedInduction

-----------------------------------------------------------------------------
(* Numbers *)

\* A set of numbers has a least one.
LEMMA LeastIs ==
  ASSUME NEW S, S \subseteq Nat, S # {}
  PROVE  \E i \in S : \A j \in S : i <= j
  <1> DEFINE R == {ss \in Nat \X Nat : ss[1] < ss[2]}
  <1>1. IsWellFoundedOn(R, Nat)
    BY NatLessThanWellFounded, Zenon DEF OpToRel
  <1>2. \A i, j \in Nat : <<j, i>> \notin R => i <= j
    OBVIOUS
  <1> HIDE DEF R
  <1>3. PICK i \in S : \A j \in S : <<j, i>> \notin R
    BY <1>1, WFMin
  <1> QED
    BY <1>2, <1>3

\* Induction: what holds of 0, and of every successor, holds of all numbers.
LEMMA AllNumbers ==
  ASSUME NEW S, 0 \in S, \A n \in Nat : n \in S => n + 1 \in S
  PROVE  Nat \subseteq S
  <1> SUFFICES ASSUME Nat \ S # {} PROVE FALSE
    OBVIOUS
  <1>1. PICK i \in Nat \ S : \A j \in Nat \ S : i <= j
    BY LeastIs
  <1>2. i # 0 /\ i - 1 \in Nat /\ i - 1 \notin Nat \ S
    BY <1>1
  <1>3. (i - 1) + 1 \in S
    BY <1>2
  <1> QED
    BY <1>1, <1>3

LEMMA LowestIs ==
  ASSUME NEW S, S \subseteq Nat
  PROVE  IF S = {} THEN Lowest(S) = 0 ELSE Lowest(S) \in S
  BY LeastIs DEF Lowest

-----------------------------------------------------------------------------
(* Sequences without some of their elements *)

\* The recursive function of Without.
Upto(s, gone, n, f) ==
  f = [i \in 0 .. n |->
         IF i = 0 THEN <<>> ELSE IF i \in gone THEN f[i - 1] ELSE Append(f[i - 1], s[i])]

LEMMA UptoExists ==
  ASSUME NEW s, NEW gone, NEW n \in Nat
  PROVE  \E f : Upto(s, gone, n, f)
  <1> DEFINE S == {m \in Nat : \E f : Upto(s, gone, m, f)}
  <1>1. 0 \in S
    <2> DEFINE f == [i \in 0 .. 0 |-> <<>>]
    <2>1. Upto(s, gone, 0, f)
      BY DEF Upto
    <2> QED
      BY <2>1
  <1>2. ASSUME NEW m \in Nat, m \in S PROVE m + 1 \in S
    <2>1. PICK f : Upto(s, gone, m, f)
      BY <1>2
    <2> DEFINE x == IF m + 1 \in gone THEN f[m] ELSE Append(f[m], s[m + 1])
               g == [i \in 0 .. m + 1 |-> IF i <= m THEN f[i] ELSE x]
    <2>2. \A i \in 0 .. m + 1 : IF i <= m THEN g[i] = f[i] ELSE g[i] = x
      OBVIOUS
    <2>3. ASSUME NEW i \in 0 .. m + 1
          PROVE  g[i] = IF i = 0 THEN <<>> ELSE IF i \in gone THEN g[i - 1] ELSE Append(g[i - 1], s[i])
      <3>1. CASE i = m + 1
        <4>1. g[m] = f[m] /\ g[i] = x /\ i # 0 /\ i - 1 = m
          BY <2>2, <3>1
        <4> QED
          BY <3>1, <4>1
      <3>2. CASE i <= m
        <4>1. f[i] = IF i = 0 THEN <<>> ELSE IF i \in gone THEN f[i - 1] ELSE Append(f[i - 1], s[i])
          <5>1. i \in 0 .. m
            BY <3>2
          <5> QED
            BY <2>1, <5>1 DEF Upto
        <4>2. g[i] = f[i] /\ (i # 0 => g[i - 1] = f[i - 1])
          BY <2>2, <3>2
        <4> QED
          BY <4>1, <4>2
      <3> QED
        BY <3>1, <3>2
    <2>4. g = [i \in 0 .. m + 1 |-> g[i]]
      OBVIOUS
    <2> HIDE DEF g
    <2>5. Upto(s, gone, m + 1, g)
      BY <2>3, <2>4 DEF Upto
    <2> QED
      BY <2>5
  <1> HIDE DEF S
  <1>3. Nat \subseteq S
    BY <1>1, <1>2, AllNumbers
  <1> QED
    BY <1>3 DEF S

\* w is s without what is at gone: at[k] is the place in s of the kth of w.
Thins(s, gone, n, w, at) ==
  /\ at \in [1 .. Len(w) -> (1 .. n) \ gone]
  /\ \A k \in 1 .. Len(w) : w[k] = s[at[k]]
  /\ \A k, l \in 1 .. Len(w) : k < l => at[k] < at[l]
  /\ \A i \in (1 .. n) \ gone : \E k \in 1 .. Len(w) : at[k] = i

LEMMA WithoutIs ==
  ASSUME NEW T, NEW s \in Seq(T), NEW gone
  PROVE  /\ Without(s, gone) \in Seq(T)
         /\ \E at : Thins(s, gone, Len(s), Without(s, gone), at)
  <1>1. PICK n \in Nat : n = Len(s)
    BY LenProperties
  <1>2. PICK f : Upto(s, gone, n, f) /\ Without(s, gone) = f[n]
    <2> DEFINE g == CHOOSE h : Upto(s, gone, Len(s), h)
    <2>1. Without(s, gone) = g[Len(s)]
      BY Zenon DEF Without, Upto
    <2>2. Upto(s, gone, Len(s), g)
      BY <1>1, UptoExists
    <2> QED
      BY <1>1, <2>1, <2>2
  <1> DEFINE S == {m \in Nat : m <= n => f[m] \in Seq(T) /\ \E at : Thins(s, gone, m, f[m], at)}
  <1>3. 0 \in S
    <2>1. f[0] = <<>>
      BY <1>2 DEF Upto
    <2>2. <<>> \in Seq(T) /\ Len(<<>>) = 0
      BY EmptySeq
    <2>3. Thins(s, gone, 0, <<>>, <<>>)
      BY <2>2 DEF Thins
    <2> QED
      BY <2>1, <2>2, <2>3
  <1>4. ASSUME NEW m \in Nat, m \in S PROVE m + 1 \in S
    <2> SUFFICES ASSUME m + 1 <= n
                 PROVE  f[m + 1] \in Seq(T) /\ \E at : Thins(s, gone, m + 1, f[m + 1], at)
      OBVIOUS
    <2>1. f[m] \in Seq(T) /\ \E at : Thins(s, gone, m, f[m], at)
      BY <1>4
    <2>2. PICK w, at : w \in Seq(T) /\ w = f[m] /\ Thins(s, gone, m, w, at)
      BY <2>1
    <2>3. f[m + 1] = IF m + 1 \in gone THEN w ELSE Append(w, s[m + 1])
      <3>1. m + 1 \in 0 .. n /\ m + 1 # 0 /\ (m + 1) - 1 = m
        OBVIOUS
      <3> QED
        BY <1>2, <2>2, <3>1 DEF Upto
    <2>4. CASE m + 1 \in gone
      <3>1. Thins(s, gone, m + 1, w, at)
        BY <2>2, <2>4 DEF Thins
      <3> QED
        BY <2>2, <2>3, <2>4, <3>1
    <2>5. CASE m + 1 \notin gone
      <3>1. s[m + 1] \in T
        BY <1>1, ElementOfSeq
      <3>2. PICK v : v = Append(w, s[m + 1])
        OBVIOUS
      <3>3. /\ v \in Seq(T) /\ Len(w) \in Nat /\ Len(v) = Len(w) + 1
            /\ \A i \in 1 .. Len(w) : v[i] = w[i]
            /\ v[Len(w) + 1] = s[m + 1]
        BY <2>2, <3>1, <3>2, AppendProperties, LenProperties
      <3> DEFINE b == [k \in 1 .. Len(w) + 1 |-> IF k <= Len(w) THEN at[k] ELSE m + 1]
      <3>4. /\ \A k \in 1 .. Len(w) : b[k] = at[k]
            /\ b[Len(w) + 1] = m + 1
        BY <3>3
      <3>5. b \in [1 .. Len(v) -> (1 .. m + 1) \ gone]
        BY <2>2, <2>5, <3>3 DEF Thins
      <3> HIDE DEF b
      <3>6. \A k \in 1 .. Len(v) : k \in 1 .. Len(w) \/ k = Len(w) + 1
        BY <3>3
      <3>7. \A k \in 1 .. Len(v) : v[k] = s[b[k]]
        BY <2>2, <3>3, <3>4, <3>6 DEF Thins
      <3>8. ASSUME NEW k \in 1 .. Len(v), NEW l \in 1 .. Len(v), k < l PROVE b[k] < b[l]
        <4>1. k \in 1 .. Len(w) /\ b[k] = at[k] /\ at[k] \in 1 .. m
          BY <2>2, <3>3, <3>4, <3>8 DEF Thins
        <4>2. CASE l \in 1 .. Len(w)
          BY <2>2, <3>4, <3>8, <4>1, <4>2 DEF Thins
        <4>3. CASE l = Len(w) + 1
          BY <3>4, <4>1, <4>3
        <4> QED
          BY <3>6, <4>2, <4>3
      <3>9. ASSUME NEW i \in (1 .. m + 1) \ gone PROVE \E k \in 1 .. Len(v) : b[k] = i
        <4>1. CASE i = m + 1
          BY <3>3, <3>4, <4>1
        <4>2. CASE i # m + 1
          <5>1. i \in (1 .. m) \ gone
            BY <4>2
          <5>2. PICK k \in 1 .. Len(w) : at[k] = i
            BY <2>2, <5>1 DEF Thins
          <5> QED
            BY <3>3, <3>4, <5>2
        <4> QED
          BY <4>1, <4>2
      <3>10. Thins(s, gone, m + 1, v, b)
        BY <3>5, <3>7, <3>8, <3>9 DEF Thins
      <3> QED
        BY <2>3, <2>5, <3>2, <3>3, <3>10
    <2> QED
      BY <2>4, <2>5
  <1> HIDE DEF S
  <1>5. n \in S
    BY <1>3, <1>4, AllNumbers
  <1> QED
    BY <1>1, <1>2, <1>5 DEF S

-----------------------------------------------------------------------------
(* What the operators of the model return *)

LEMMA AllInOrder ==
  ASSUME NEW S, IsFiniteSet(S), NEW s \in SetToSeqs(S)
  PROVE  /\ s \in Seq(S) /\ ToSet(s) = S
         /\ \A i, j \in DOMAIN s : s[i] = s[j] => i = j
  <1>1. PICK n \in Nat : n = Cardinality(S)
    BY FS_CardinalityType
  <1>2. s \in [1 .. n -> S] /\ \A i, j \in 1 .. n : s[i] = s[j] => i = j
    BY <1>1 DEF SetToSeqs
  <1>3. s \in Injection(1 .. n, S)
    BY <1>2 DEF Injection, IsInjective
  <1>4. Cardinality(1 .. n) = n
    BY FS_Interval
  <1>5. s \in Surjection(1 .. n, S)
    BY <1>1, <1>3, <1>4, FS_Injection
  <1>6. \A t \in S : \E i \in 1 .. n : s[i] = t
    BY <1>5 DEF Surjection
  <1>7. s \in Seq(S)
    BY <1>2, SeqDef
  <1> QED
    BY <1>2, <1>6, <1>7 DEF ToSet

LEMMA MinIs ==
  ASSUME NEW S, S \subseteq Nat, S # {}
  PROVE  Min(S) \in S /\ \A j \in S : Min(S) <= j
  <1>1. \E i \in S : \A j \in S : i <= j
    BY LeastIs
  <1> QED
    BY <1>1 DEF Min

\* The first of the places S of what is looked for.
First(S, i) == IF S = {} THEN i = 0 ELSE i \in S /\ \A j \in S : i <= j

LEMMA FirstIs ==
  ASSUME NEW S, S \subseteq Nat
  PROVE  First(S, IF S # {} THEN Min(S) ELSE 0)
  BY MinIs DEF First

LEMMA FirstOfGroup ==
  ASSUME NEW n
  PROVE  First({i \in 1 .. Len(ContactListGroups) : ContactListGroups[i].name = n}, findCLGroup(n))
  <1> DEFINE S == {i \in 1 .. Len(ContactListGroups) : ContactListGroups[i].name = n}
  <1>1. findCLGroup(n) = IF S # {} THEN Min(S) ELSE 0
    BY DEF findCLGroup, SelectInSeq
  <1>2. S \subseteq Nat
    OBVIOUS
  <1> HIDE DEF S
  <1>3. First(S, findCLGroup(n))
    BY <1>1, <1>2, FirstIs
  <1> QED
    BY <1>3 DEF S

LEMMA FirstOfUin ==
  ASSUME NEW u
  PROVE  First({i \in 1 .. Len(ContactListUins) : ContactListUins[i].uin = u}, findCLUIN(u))
  <1> DEFINE S == {i \in 1 .. Len(ContactListUins) : ContactListUins[i].uin = u}
  <1>1. findCLUIN(u) = IF S # {} THEN Min(S) ELSE 0
    BY DEF findCLUIN, SelectInSeq
  <1>2. S \subseteq Nat
    OBVIOUS
  <1> HIDE DEF S
  <1>3. First(S, findCLUIN(u))
    BY <1>1, <1>2, FirstIs
  <1> QED
    BY <1>3 DEF S

\* An element is taken out of a sequence.
LEMMA RemoveIs ==
  ASSUME NEW T, NEW s \in Seq(T), NEW i \in 1 .. Len(s)
  PROVE  /\ RemoveAt(s, i) \in Seq(T) /\ Len(RemoveAt(s, i)) = Len(s) - 1
         /\ \A k \in 1 .. Len(s) - 1 : RemoveAt(s, i)[k] = IF k < i THEN s[k] ELSE s[k + 1]
  <1>1. PICK n \in Nat : n = Len(s)
    BY LenProperties
  <1>2. PICK a : a = SubSeq(s, 1, i - 1)
    OBVIOUS
  <1>3. PICK b : b = SubSeq(s, i + 1, n)
    OBVIOUS
  <1>4. /\ a \in Seq(T) /\ Len(a) = i - 1
        /\ \A k \in 1 .. i - 1 : a[k] = s[k]
    BY <1>1, <1>2, SubSeqProperties
  <1>5. /\ b \in Seq(T) /\ Len(b) = n - i
        /\ \A k \in 1 .. n - i : b[k] = s[i + k]
    BY <1>1, <1>3, SubSeqProperties
  <1>6. PICK c : c = a \o b
    OBVIOUS
  <1>7. /\ c \in Seq(T) /\ Len(c) = n - 1
        /\ \A k \in 1 .. n - 1 : c[k] = IF k <= i - 1 THEN a[k] ELSE b[k - (i - 1)]
    BY <1>1, <1>4, <1>5, <1>6, ConcatProperties
  <1>8. ASSUME NEW k \in 1 .. n - 1 PROVE c[k] = IF k < i THEN s[k] ELSE s[k + 1]
    <2>1. CASE k < i
      <3>1. k \in 1 .. i - 1 /\ k <= i - 1
        BY <1>1, <2>1
      <3> QED
        BY <1>4, <1>7, <2>1, <3>1
    <2>2. CASE ~(k < i)
      <3>1. k - (i - 1) \in 1 .. n - i /\ i + (k - (i - 1)) = k + 1 /\ ~(k <= i - 1)
        BY <1>1, <2>2
      <3> QED
        BY <1>5, <1>7, <2>2, <3>1
    <2> QED
      BY <2>1, <2>2
  <1> QED
    BY <1>1, <1>2, <1>3, <1>6, <1>7, <1>8 DEF RemoveAt

LEMMA ErasedType ==
  ASSUME NEW T, NEW s \in Seq(T), s # <<>>, NEW i \in Nat
  PROVE  Erased(s, i) \in Seq(T)
  <1>1. Len(s) \in Nat /\ Len(s) # 0
    BY LenProperties, EmptySeq
  <1>2. CASE i \in 1 .. Len(s)
    BY <1>1, <1>2, RemoveIs DEF Erased
  <1>3. CASE i = 0
    <2>1. SubSeq(s, 1, 0 - 1) \in Seq(T) /\ SubSeq(s, 0 + 1, Len(s)) \in Seq(T)
      BY <1>1, SubSeqProperties
    <2> QED
      BY <1>1, <1>3, <2>1, ConcatProperties DEF Erased, RemoveAt
  <1>4. CASE i > Len(s)
    BY <1>1, <1>4, SubSeqProperties DEF Erased, Front
  <1> QED
    BY <1>1, <1>2, <1>3, <1>4

LEMMA PutType ==
  ASSUME NEW T, NEW s \in Seq(T), NEW e \in T, NEW i, i = 0 \/ i \in 1 .. Len(s)
  PROVE  Put(s, i, e) \in Seq(T)
  BY AppendProperties, ExceptSeq DEF Put, ReplaceAt

-----------------------------------------------------------------------------
(* The types *)

SrvT ==
  /\ srv_buddies \subseteq Buddies /\ IsFiniteSet(srv_buddies)
  /\ srv_groups \subseteq Groups /\ IsFiniteSet(srv_groups)
  /\ srv_members \in [GroupIds \cup {0} -> SUBSET Nat]
LinkT == trans \in BOOLEAN /\ inbox \in Seq(Messages) /\ up \in BOOLEAN
ListT ==
  /\ ContactListUins \in Seq(Buddies) /\ ContactListGroups \in Seq(Groups)
  /\ unknown_item_ids \subseteq ItemIds
PrivT == srv_privacy \in Privacy /\ privacy \in Privacy /\ wish \in Privacy
JobT  == uen \in Buddies /\ gen \in Groups /\ uen_ind \in Nat /\ gr_ind \in Nat
AckT  == waiting \in BOOLEAN /\ got \in Answers /\ retflag \in Answers
CountT == calls \in 0 .. MaxCalls /\ foreign \in 0 .. MaxForeign /\ logins \in 0 .. MaxLogins
FaultT == faults \subseteq Faults

\* There is a contact for each step that removes one.
PlanFits ==
  /\ \A i \in DOMAIN plan :
       plan[i] = "each" => i <= Len(uins) + (IF plan[1] = "start" THEN 1 ELSE 0)
  /\ \A i \in DOMAIN plan : plan[i] = "remove" => uins # <<>> /\ \A j \in DOMAIN plan : plan[j] # "each"
PlanT == plan \in Seq(Steps) /\ uins \in Seq(Uins) /\ PlanFits

TypeInv ==
  SrvT /\ LinkT /\ ListT /\ PrivT /\ JobT /\ AckT /\ CountT /\ FaultT /\ PlanT

LEMMA NumbersAre == GroupIds \subseteq Nat \ {0} /\ ItemIds \subseteq Nat \ {0}
  BY ContactListAssumption

LEMMA TypeInvIs == TypeInv => TypeOK
  BY DEF TypeInv, SrvT, LinkT, ListT, PrivT, JobT, AckT, CountT, FaultT, PlanT, TypeOK

LEMMA FitsEmpty == ASSUME plan = <<>> PROVE PlanFits
  BY DEF PlanFits

LEMMA TypeInit == Init => TypeInv
  <1> SUFFICES ASSUME Init PROVE TypeInv
    OBVIOUS
  <1> USE ContactListAssumption
  <1>1. SrvT
    <2>1. ASSUME NEW g \in GroupIds PROVE Members(Roster, g) \subseteq Nat
      <3>1. \A b \in Roster : b.item \in Nat
        BY DEF Buddies
      <3> QED
        BY <3>1 DEF Members
    <2>2. {h.id : h \in srv_groups} \subseteq Nat
      BY DEF Init, Groups
    <2> QED
      BY <2>1, <2>2 DEF Init, SrvT
  <1>2. LinkT
    BY EmptySeq DEF Init, LinkT
  <1>3. ListT
    BY EmptySeq DEF Init, ListT
  <1>4. PrivT
    BY DEF Init, PrivT, Privacy
  <1>5. JobT
    BY DEF Init, JobT
  <1>6. AckT /\ CountT /\ FaultT
    BY DEF Init, AckT, CountT, FaultT, Answers
  <1>7. PlanT
    BY EmptySeq, FitsEmpty DEF Init, PlanT
  <1> QED
    BY <1>1, <1>2, <1>3, <1>4, <1>5, <1>6, <1>7 DEF TypeInv

LEMMA PlanStops ==
  ASSUME PlanT, plan' \in {<<>>, <<"end">>, <<"content", "end">>}, uins' \in Seq(Uins)
  PROVE  PlanT'
  <1>1. /\ <<>> \in Seq(Steps) /\ <<"end">> \in Seq(Steps) /\ <<"content", "end">> \in Seq(Steps)
    BY EmptySeq DEF Steps
  <1>2. \A i \in DOMAIN plan' : plan'[i] \notin {"each", "remove"}
    OBVIOUS
  <1> QED
    BY <1>1, <1>2 DEF PlanT, PlanFits

\* What the step of the plan that is next tells.
LEMMA AtIs ==
  ASSUME PlanT, NEW step, At(step)
  PROVE  /\ plan # <<>> /\ Len(plan) \in Nat \ {0} /\ 1 \in DOMAIN plan /\ plan[1] = step
         /\ step \in {"each", "remove"} => uins # <<>>
  <1>1. plan # <<>> /\ plan \in Seq(Steps) /\ Head(plan) = step /\ uins \in Seq(Uins)
    BY DEF At, PlanT
  <1>2. Len(plan) \in Nat \ {0} /\ Head(plan) = plan[1] /\ DOMAIN plan = 1 .. Len(plan)
    BY <1>1, EmptySeq, LenProperties
  <1>3. step = "each" => Len(uins) >= 1
    BY <1>1, <1>2, LenProperties DEF PlanT, PlanFits
  <1> QED
    BY <1>1, <1>2, <1>3, EmptySeq DEF PlanT, PlanFits

LEMMA PlanGoes ==
  ASSUME PlanT, plan # <<>>, plan' = Tail(plan),
         \/ ~At("each") /\ uins' = uins
         \/ At("each") /\ uins' = Tail(uins)
  PROVE  PlanT'
  <1>1. PICK q, n : q = Tail(plan) /\ n = Len(plan)
    OBVIOUS
  <1>2. /\ n \in Nat \ {0} /\ q \in Seq(Steps) /\ Len(q) = n - 1 /\ Head(plan) = plan[1]
        /\ \A i \in 1 .. n - 1 : q[i] = plan[i + 1]
        /\ DOMAIN q = 1 .. n - 1 /\ DOMAIN plan = 1 .. n
    BY <1>1, HeadTailProperties, LenProperties, EmptySeq DEF PlanT
  <1>3. /\ uins \in Seq(Uins) /\ Len(uins) \in Nat /\ PlanFits
    BY LenProperties DEF PlanT
  <1>4. ASSUME NEW i \in DOMAIN q
        PROVE  i + 1 \in DOMAIN plan /\ plan[i + 1] = q[i]
    BY <1>2
  <1>5. ASSUME NEW i \in DOMAIN q, q[i] = "each"
        PROVE  i \in Nat /\ i + 1 <= Len(uins) + (IF plan[1] = "start" THEN 1 ELSE 0)
    BY <1>2, <1>3, <1>4, <1>5 DEF PlanFits
  <1>6. CASE ~At("each") /\ uins' = uins
    <2>1. plan[1] # "each"
      BY <1>2, <1>6 DEF At
    <2>2. ASSUME NEW i \in DOMAIN q, q[i] = "each"
          PROVE  i <= Len(uins) + (IF q[1] = "start" THEN 1 ELSE 0)
      BY <1>3, <1>5, <2>2
    <2>3. \A i \in DOMAIN q : q[i] = "remove" => uins # <<>> /\ \A j \in DOMAIN q : q[j] # "each"
      BY <1>3, <1>4 DEF PlanFits
    <2> QED
      BY <1>1, <1>2, <1>3, <1>6, <2>2, <2>3 DEF PlanT, PlanFits
  <1>7. CASE At("each") /\ uins' = Tail(uins)
    <2>1. plan[1] = "each" /\ uins # <<>> /\ 1 \in DOMAIN plan
      BY <1>7, AtIs
    <2>2. uins' \in Seq(Uins) /\ Len(uins') = Len(uins) - 1 /\ Len(uins') \in Nat
      BY <1>3, <1>7, <2>1, HeadTailProperties, LenProperties
    <2>3. PICK m \in Nat : m = Len(uins')
      BY <2>2
    <2>4. ASSUME NEW i \in DOMAIN q, q[i] = "each"
          PROVE  i <= m + (IF q[1] = "start" THEN 1 ELSE 0)
      <3>1. i + 1 <= Len(uins) + 0 /\ i \in Nat
        BY <1>5, <2>1, <2>4
      <3> QED
        BY <1>3, <2>2, <2>3, <3>1
    <2>5. \A i \in DOMAIN q : q[i] # "remove"
      BY <1>3, <1>4, <2>1 DEF PlanFits
    <2> QED
      BY <1>1, <1>2, <2>2, <2>3, <2>4, <2>5 DEF PlanT, PlanFits
  <1> QED
    BY <1>6, <1>7

LEMMA MessagesAre ==
  /\ \A answer \in Answers \ {"none"} : [type |-> "ack", answer |-> answer] \in Messages
  /\ \A b \in Buddies : /\ [type |-> "buddy", buddy |-> b] \in Messages
                        /\ [type |-> "nobuddy", buddy |-> b] \in Messages
  /\ \A g \in Groups : /\ [type |-> "group", group |-> g] \in Messages
                       /\ [type |-> "nogroup", group |-> g] \in Messages
  /\ [type |-> "privacy"] \in Messages
  BY DEF Messages

LEMMA OfMessages ==
  ASSUME NEW m \in Messages
  PROVE  /\ m.type = "ack" => m.answer \in Answers \ {"none"}
         /\ m.type \in {"buddy", "nobuddy"} => m.buddy \in Buddies
         /\ m.type \in {"group", "nogroup"} => m.group \in Groups
  BY DEF Messages

LEMMA IdsAre ==
  ASSUME TypeInv
  PROVE  getUnusedItemID \in ItemIds \cup {0} /\ getUnusedGroupID \in GroupIds \cup {0}
  <1>1. ItemIds \ Taken \subseteq Nat /\ GroupIds \ {g.id : g \in ToSet(ContactListGroups)} \subseteq Nat
    BY ContactListAssumption
  <1> QED
    BY <1>1, LowestIs DEF getUnusedItemID, getUnusedGroupID

\* An edit that fails.
LEMMA FailTypes ==
  ASSUME TypeInv, Fail
  PROVE  PlanT' /\ waiting' = FALSE
  <1>1. PlanT /\ uins \in Seq(Uins)
    BY DEF TypeInv, PlanT
  <1>2. CASE At("each")
    <2>1. plan # <<>> /\ plan' = Tail(plan) /\ uins' = Tail(uins)
      BY <1>2 DEF Fail, AfterFailure, At
    <2> QED
      BY <1>1, <1>2, <2>1, PlanGoes DEF Fail
  <1>3. CASE ~At("each")
    <2>1. plan' \in {<<>>, <<"end">>} /\ uins' = uins
      BY <1>3 DEF Fail, AfterFailure
    <2> QED
      BY <1>1, <2>1, PlanStops DEF Fail
  <1> QED
    BY <1>2, <1>3

\* A request that cannot be sent.
LEMMA FailToSendTypes == ASSUME TypeInv, FailToSend PROVE TypeInv'
  <1>1. PlanT' /\ waiting' = FALSE
    BY FailTypes DEF FailToSend
  <1> QED
    BY <1>1 DEF FailToSend, server, client, found, bounds, TypeInv, SrvT, LinkT, ListT, PrivT, JobT,
         AckT, CountT, FaultT

\* A request and its answer.
LEMMA AskTypes ==
  ASSUME TypeInv, NEW answer \in Answers \ {"none"}, Ask(answer)
  PROVE  /\ LinkT' /\ ListT' /\ AckT' /\ CountT' /\ plan' = plan /\ privacy' \in Privacy
  <1>1. inbox' \in Seq(Messages)
    BY MessagesAre, AppendProperties DEF Ask, TypeInv, LinkT
  <1> QED
    BY <1>1 DEF Ask, client, bounds, TypeInv, LinkT, ListT, AckT, CountT, PrivT, Answers

LEMMA LoginTypes == ASSUME TypeInv, Login PROVE TypeInv'
  <1>1. ListT'
    <2>1. ContactListUins' \in SetToSeqs(srv_buddies) /\ ContactListGroups' \in SetToSeqs(srv_groups)
          /\ unknown_item_ids' = unknown_item_ids \cup OtherItems
      BY DEF Login
    <2>2. ContactListUins' \in Seq(srv_buddies) /\ ContactListGroups' \in Seq(srv_groups)
      BY <2>1, AllInOrder DEF TypeInv, SrvT
    <2>3. ContactListUins' \in Seq(Buddies) /\ ContactListGroups' \in Seq(Groups)
      BY <2>2, SeqMonotonic DEF TypeInv, SrvT
    <2> QED
      BY <2>1, <2>3, ContactListAssumption DEF TypeInv, ListT
  <1>2. LinkT' /\ CountT' /\ PrivT' /\ FaultT'
    BY ContactListAssumption DEF Login, server, found, TypeInv, LinkT, CountT, PrivT, FaultT, Faults
  <1> QED
    BY <1>1, <1>2 DEF Login, server, job, found, ack, TypeInv, SrvT, JobT, AckT, PlanT, PlanFits

LEMMA DisconnectTypes == ASSUME TypeInv, Disconnect PROVE TypeInv'
  <1>1. LinkT' /\ FaultT'
    BY EmptySeq DEF Disconnect, TypeInv, LinkT, FaultT, Faults
  <1> QED
    BY <1>1 DEF Disconnect, server, client, job, found, ack, bounds, TypeInv, SrvT, ListT, PrivT, JobT,
         AckT, CountT, PlanT, PlanFits

\* A call of the menu, with a plan that fits.
LEMMA CallTypes ==
  ASSUME TypeInv, NEW steps, Call(steps), uen' \in Buddies, gen' \in Groups, gr_ind' \in Nat,
         wish' \in Privacy, PlanT'
  PROVE  TypeInv'
  <1>1. CountT'
    BY ContactListAssumption DEF Call, TypeInv, CountT
  <1> QED
    BY <1>1 DEF Call, server, client, ack, TypeInv, SrvT, LinkT, ListT, PrivT, JobT, AckT, FaultT

LEMMA addContactTypes ==
  ASSUME TypeInv, NEW u \in Uins, NEW n \in Names, addContact(u, n)
  PROVE  TypeInv'
  <1>1. /\ plan' = <<"start", "add">> /\ uins' = uins /\ Call(<<"start", "add">>)
        /\ UNCHANGED <<gr_ind, wish>> /\ uen' = [uen EXCEPT !.uin = u] /\ gen' = [gen EXCEPT !.name = n]
    BY DEF addContact, Call
  <1>2. uen' \in Buddies /\ gen' \in Groups /\ gr_ind' \in Nat /\ wish' \in Privacy
    BY <1>1 DEF TypeInv, JobT, PrivT, Buddies, Groups
  <1>3. <<"start", "add">> \in Seq(Steps)
    BY DEF Steps
  <1>4. PlanFits'
    BY <1>1 DEF PlanFits
  <1>5. PlanT'
    BY <1>1, <1>3, <1>4 DEF TypeInv, PlanT
  <1> QED
    BY <1>1, <1>2, <1>5, CallTypes

LEMMA removeContactTypes ==
  ASSUME TypeInv, NEW u \in Uins, removeContact(u)
  PROVE  TypeInv'
  <1>1. /\ plan' = <<"start", "remove">> /\ uins' = <<u>> /\ Call(<<"start", "remove">>)
        /\ UNCHANGED <<uen, gen, gr_ind, wish>>
    BY DEF removeContact, Call
  <1>2. uen' \in Buddies /\ gen' \in Groups /\ gr_ind' \in Nat /\ wish' \in Privacy
    BY <1>1 DEF TypeInv, JobT, PrivT
  <1>3. <<"start", "remove">> \in Seq(Steps) /\ <<u>> \in Seq(Uins) /\ <<u>> # <<>>
    BY DEF Steps
  <1>4. PlanFits'
    BY <1>1, <1>3 DEF PlanFits
  <1>5. PlanT'
    BY <1>1, <1>3, <1>4 DEF PlanT
  <1> QED
    BY <1>1, <1>2, <1>5, CallTypes

LEMMA addGroupTypes ==
  ASSUME TypeInv, NEW n \in Names, addGroup(n)
  PROVE  TypeInv'
  <1> DEFINE steps == <<"start", "addgroup", "master", "end", "push">>
  <1>1. /\ plan' = steps /\ uins' = uins /\ Call(steps) /\ UNCHANGED <<uen, gr_ind, wish>>
        /\ gen' = [id |-> getUnusedGroupID, name |-> n] /\ getUnusedGroupID # 0
    BY DEF addGroup, Call
  <1>2. uen' \in Buddies /\ gr_ind' \in Nat /\ wish' \in Privacy
    BY <1>1 DEF TypeInv, JobT, PrivT
  <1>3. gen' \in Groups
    BY <1>1, IdsAre DEF Groups
  <1>4. steps \in Seq(Steps) /\ \A i \in DOMAIN steps : steps[i] \notin {"each", "remove"}
    BY DEF Steps
  <1> HIDE DEF steps
  <1>5. PlanT'
    BY <1>1, <1>4 DEF TypeInv, PlanT, PlanFits
  <1> QED
    BY <1>1, <1>2, <1>3, <1>5, CallTypes

LEMMA setMyPrivacyStatusTypes ==
  ASSUME TypeInv, NEW stat \in Privacies, setMyPrivacyStatus(stat)
  PROVE  TypeInv'
  <1>1. /\ plan' = <<"privacy">> /\ Call(<<"privacy">>) /\ UNCHANGED <<uen, gen, uins, gr_ind>>
        /\ wish' = [wish EXCEPT !.stat = stat]
    BY DEF setMyPrivacyStatus, Call, job
  <1>2. uen' \in Buddies /\ gen' \in Groups /\ gr_ind' \in Nat /\ wish' \in Privacy
    BY <1>1 DEF TypeInv, JobT, PrivT, Privacy
  <1>3. <<"privacy">> \in Seq(Steps)
    BY DEF Steps
  <1>4. PlanT'
    BY <1>1, <1>3 DEF TypeInv, PlanT, PlanFits
  <1> QED
    BY <1>1, <1>2, <1>4, CallTypes

\* The plan of removeGroup, for n contacts of the group.
LEMMA PlanOfGroup ==
  ASSUME NEW n \in Nat, NEW c \in {<<>>, <<"content">>}, NEW p,
         p = <<"start">> \o [i \in 1 .. n |-> "each"] \o c
             \o <<"end", "start", "delgroup", "master", "end", "erase">>
  PROVE  /\ p \in Seq(Steps) /\ p # <<>> /\ p[1] = "start"
         /\ \A i \in DOMAIN p : (p[i] = "each" => i <= n + 1) /\ p[i] # "remove"
  <1>0. PICK e, z, k :
          /\ e = [i \in 1 .. n |-> "each"] /\ k = Len(c)
          /\ z = <<"end", "start", "delgroup", "master", "end", "erase">>
    OBVIOUS
  <1>1. <<"start">> \in Seq(Steps) /\ Len(<<"start">>) = 1 /\ <<"start">>[1] = "start"
    BY DEF Steps
  <1>2. e \in Seq(Steps) /\ Len(e) = n /\ \A i \in 1 .. n : e[i] = "each"
    <2>1. e \in [1 .. n -> Steps] /\ \A i \in 1 .. n : e[i] = "each"
      BY <1>0 DEF Steps
    <2>2. e \in Seq(Steps)
      BY <2>1, SeqDef
    <2> QED
      BY <2>1, <2>2, LenProperties
  <1>3. c \in Seq(Steps) /\ k \in {0, 1} /\ \A i \in 1 .. k : c[i] = "content"
    <2>1. CASE c = <<>>
      BY <1>0, <2>1, EmptySeq
    <2>2. CASE c = <<"content">>
      <3>1. c \in Seq(Steps) /\ Len(c) = 1 /\ c[1] = "content"
        BY <2>2 DEF Steps
      <3> QED
        BY <1>0, <3>1
    <2> QED
      BY <2>1, <2>2
  <1>4. /\ z \in Seq(Steps) /\ Len(z) = 6
        /\ \A i \in 1 .. 6 : z[i] \notin {"each", "remove"}
    BY <1>0 DEF Steps
  <1>5. PICK a : a = <<"start">> \o e
    OBVIOUS
  <1>6. /\ a \in Seq(Steps) /\ Len(a) = n + 1
        /\ \A i \in 1 .. n + 1 : a[i] = IF i <= 1 THEN <<"start">>[i] ELSE e[i - 1]
    BY <1>1, <1>2, <1>5, ConcatProperties
  <1>7. a[1] = "start" /\ \A i \in 1 .. n + 1 : a[i] # "remove"
    BY <1>1, <1>2, <1>6, SMTT(60)
  <1>8. PICK b, m : b = a \o c /\ m = n + 1 + k
    OBVIOUS
  <1>9. /\ b \in Seq(Steps) /\ Len(b) = m /\ m \in Nat
        /\ \A i \in 1 .. m : b[i] = IF i <= n + 1 THEN a[i] ELSE c[i - (n + 1)]
    <2>1. /\ b \in Seq(Steps) /\ Len(b) = Len(a) + Len(c)
          /\ \A i \in 1 .. Len(a) + Len(c) : b[i] = IF i <= Len(a) THEN a[i] ELSE c[i - Len(a)]
      BY <1>3, <1>6, <1>8, ConcatProperties, ZenonT(60)
    <2>2. Len(a) + Len(c) = m /\ m \in Nat
      BY <1>0, <1>3, <1>6, <1>8
    <2> QED
      BY <1>6, <2>1, <2>2
  <1>10. /\ b[1] = "start" /\ \A i \in 1 .. m : (b[i] = "each" => i <= n + 1) /\ b[i] # "remove"
    <2>1. ASSUME NEW i \in 1 .. m, i > n + 1 PROVE b[i] = "content"
      <3>1. i - (n + 1) \in 1 .. k
        BY <1>3, <1>8, <2>1
      <3> QED
        BY <1>3, <1>9, <2>1, <3>1
    <2>2. ASSUME NEW i \in 1 .. m, i <= n + 1 PROVE b[i] = a[i]
      BY <1>9, <2>2
    <2>3. 1 \in 1 .. m /\ 1 <= n + 1
      BY <1>3, <1>8
    <2>4. ASSUME NEW i \in 1 .. m PROVE (b[i] = "each" => i <= n + 1) /\ b[i] # "remove"
      <3>1. CASE i <= n + 1
        <4>1. i \in 1 .. n + 1
          BY <1>9, <3>1
        <4> QED
          BY <1>7, <2>2, <3>1, <4>1
      <3>2. CASE i > n + 1
        BY <2>1, <3>2
      <3> QED
        BY <1>9, <3>1, <3>2
    <2> QED
      BY <1>7, <2>2, <2>3, <2>4
  <1>11. PICK q : q = b \o z
    OBVIOUS
  <1>12. m \in Nat /\ m >= n + 1
    BY <1>3, <1>8
  <1>13. /\ q \in Seq(Steps) /\ Len(q) = m + 6
         /\ \A i \in 1 .. m + 6 : q[i] = IF i <= m THEN b[i] ELSE z[i - m]
    <2>1. /\ q \in Seq(Steps) /\ Len(q) = Len(b) + Len(z)
          /\ \A i \in 1 .. Len(b) + Len(z) : q[i] = IF i <= Len(b) THEN b[i] ELSE z[i - Len(b)]
      BY <1>4, <1>9, <1>11, ConcatProperties, ZenonT(60)
    <2> QED
      BY <1>4, <1>9, <2>1
  <1>14. ASSUME NEW i \in 1 .. m + 6, i > m PROVE q[i] \notin {"each", "remove"}
    <2>1. i - m \in 1 .. 6 /\ ~(i <= m)
      BY <1>9, <1>14
    <2> QED
      BY <1>4, <1>13, <1>14, <2>1
  <1>15. \A i \in 1 .. m + 6 : (q[i] = "each" => i <= n + 1) /\ q[i] # "remove"
    <2>1. ASSUME NEW i \in 1 .. m + 6 PROVE (q[i] = "each" => i <= n + 1) /\ q[i] # "remove"
      <3>1. CASE i <= m
        <4>1. i \in 1 .. m
          BY <1>9, <3>1
        <4> QED
          BY <1>10, <1>13, <3>1, <4>1
      <3>2. CASE i > m
        BY <1>14, <3>2
      <3> QED
        BY <1>12, <3>1, <3>2
    <2> QED
      BY <2>1
  <1>16. q[1] = "start" /\ DOMAIN q = 1 .. m + 6
    BY <1>9, <1>10, <1>12, <1>13, LenProperties
  <1>17. q # <<>>
    BY <1>12, <1>13, EmptySeq
  <1>18. q = p
    BY <1>0, <1>5, <1>8, <1>11
  <1> QED
    BY <1>13, <1>15, <1>16, <1>17, <1>18

LEMMA removeGroupTypes ==
  ASSUME TypeInv, NEW n \in Names, removeGroup(n)
  PROVE  TypeInv'
  <1>1. ContactListUins \in Seq(Buddies) /\ ContactListGroups \in Seq(Groups)
        /\ Len(ContactListGroups) \in Nat
    BY LenProperties DEF TypeInv, ListT
  <1> DEFINE out == {i \in DOMAIN ContactListUins : ContactListUins[i].group # gen'.id}
             in  == Without(ContactListUins, out)
             c   == IF in = <<>> THEN <<>> ELSE <<"content">>
             steps == <<"start">> \o [i \in DOMAIN in |-> "each"] \o c
                      \o <<"end", "start", "delgroup", "master", "end", "erase">>
  <1>2. /\ gr_ind' = findCLGroup(n) /\ gr_ind' # 0 /\ gen' = ContactListGroups[gr_ind']
        /\ UNCHANGED <<uen, wish>>
    BY DEF removeGroup
  <1>3. uins' = [i \in DOMAIN in |-> in[i].uin] /\ Call(steps)
    BY DEF removeGroup
  <1>4. plan' = steps
    BY <1>3 DEF Call
  <1>5. gr_ind' \in 1 .. Len(ContactListGroups)
    BY <1>2, FirstOfGroup DEF First
  <1>6. gen' \in Groups /\ gr_ind' \in Nat
    BY <1>1, <1>2, <1>5, ElementOfSeq
  <1>7. in \in Seq(Buddies)
    BY <1>1, WithoutIs
  <1> HIDE DEF in
  <1>8. PICK k \in Nat : k = Len(in) /\ DOMAIN in = 1 .. k
    BY <1>7, LenProperties
  <1>9. uins' \in Seq(Uins) /\ Len(uins') = k
    <2>1. \A i \in 1 .. k : in[i].uin \in Uins
      <3>1. \A i \in 1 .. k : in[i] \in Buddies
        BY <1>7, <1>8, ElementOfSeq
      <3> QED
        BY <3>1 DEF Buddies
    <2>2. uins' \in [1 .. k -> Uins]
      BY <1>3, <1>8, <2>1
    <2>3. uins' \in Seq(Uins)
      BY <2>2, SeqDef
    <2> QED
      BY <2>2, <2>3, LenProperties
  <1>10. c \in {<<>>, <<"content">>}
    OBVIOUS
  <1>11. steps = <<"start">> \o [i \in 1 .. k |-> "each"] \o c
                \o <<"end", "start", "delgroup", "master", "end", "erase">>
    BY <1>8
  <1> HIDE DEF c, steps
  <1>12. /\ steps \in Seq(Steps) /\ steps # <<>> /\ steps[1] = "start"
         /\ \A i \in DOMAIN steps : (steps[i] = "each" => i <= k + 1) /\ steps[i] # "remove"
    BY <1>10, <1>11, PlanOfGroup
  <1>13. PlanT'
    BY <1>4, <1>9, <1>12 DEF PlanT, PlanFits
  <1>14. uen' \in Buddies /\ wish' \in Privacy
    BY <1>2 DEF TypeInv, JobT, PrivT
  <1> QED
    BY <1>3, <1>6, <1>13, <1>14, CallTypes

LEMMA TransactTypes == ASSUME TypeInv, Transact PROVE TypeInv'
  <1>1. /\ At("start") \/ At("end")
        /\ plan' = (IF up THEN Tail(plan) ELSE <<>>) /\ uins' = uins
        /\ trans' = IF up THEN At("start") ELSE trans
    BY DEF Transact, job
  <1>2. PlanT /\ uins \in Seq(Uins) /\ plan # <<>> /\ ~At("each")
    BY <1>1 DEF TypeInv, PlanT, At
  <1>3. PlanT'
    BY <1>1, <1>2, PlanGoes, PlanStops
  <1>4. LinkT'
    BY <1>1 DEF Transact, TypeInv, LinkT, At
  <1> QED
    BY <1>3, <1>4 DEF Transact, server, client, job, found, ack, bounds, TypeInv, SrvT, ListT, PrivT,
         JobT, AckT, CountT, FaultT

LEMMA AskAddTypes == ASSUME TypeInv, NEW e \in Buddies, AskAdd(e) PROVE TypeInv'
  <1>1. PICK answer \in {"ok", "needauth", "refused"} :
          /\ Ask(answer) /\ uen' = e
          /\ srv_buddies' = IF answer = "ok" THEN srv_buddies \cup {e} ELSE srv_buddies
          /\ UNCHANGED <<srv_groups, srv_members, srv_privacy, uins, gen, found, faults>>
    BY DEF AskAdd
  <1>2. LinkT' /\ ListT' /\ AckT' /\ CountT' /\ plan' = plan /\ privacy' \in Privacy
    BY <1>1, AskTypes DEF Answers
  <1>3. SrvT'
    BY <1>1, FS_AddElement DEF TypeInv, SrvT
  <1> QED
    BY <1>1, <1>2, <1>3 DEF found, TypeInv, PrivT, JobT, PlanT, PlanFits, FaultT

LEMMA sub_ssi_addContactTypes == ASSUME TypeInv, sub_ssi_addContact PROVE TypeInv'
  <1>1. PICK g : g = findCLGroup(gen.name)
    OBVIOUS
  <1>2. /\ At("add")
        /\ IF up /\ g # 0 /\ getUnusedItemID # 0
           THEN AskAdd([uin |-> uen.uin, group |-> ContactListGroups[g].id,
                        item |-> getUnusedItemID, wait |-> FALSE])
           ELSE FailToSend
    BY <1>1 DEF sub_ssi_addContact
  <1>3. CASE up /\ g # 0 /\ getUnusedItemID # 0
    <2>1. g \in 1 .. Len(ContactListGroups)
      BY <1>1, <1>3, FirstOfGroup DEF First
    <2>2. ContactListGroups[g] \in Groups
      BY <2>1, ElementOfSeq DEF TypeInv, ListT
    <2>3. [uin |-> uen.uin, group |-> ContactListGroups[g].id,
           item |-> getUnusedItemID, wait |-> FALSE] \in Buddies
      BY <1>3, <2>2, IdsAre DEF Buddies, Groups, TypeInv, JobT
    <2> QED
      BY <1>2, <1>3, <2>3, AskAddTypes
  <1>4. CASE ~(up /\ g # 0 /\ getUnusedItemID # 0)
    BY <1>2, <1>4, FailToSendTypes DEF At
  <1> QED
    BY <1>3, <1>4

LEMMA sub_ssi_removeContactTypes == ASSUME TypeInv, sub_ssi_removeContact PROVE TypeInv'
  <1>1. PICK i : i = findCLUIN(Head(uins))
    OBVIOUS
  <1>2. PICK known \in BOOLEAN :
        /\ At("remove") \/ At("each")
        /\ IF up /\ i # 0
           THEN /\ uen_ind' = i
                /\ gen' = IF At("remove") THEN [gen EXCEPT !.id = ContactListUins[i].group] ELSE gen
                /\ srv_buddies' = IF known THEN {b \in srv_buddies : b.item # ContactListUins[i].item}
                                  ELSE srv_buddies
                /\ Ask(IF known THEN "ok" ELSE "refused")
                /\ faults' \in {faults, faults \cup {"moved"}}
                /\ UNCHANGED <<srv_groups, srv_members, srv_privacy, uins, uen, gr_ind, wish>>
           ELSE FailToSend
    <2> DEFINE known == \E b \in srv_buddies :
                 /\ b.uin = ContactListUins[i].uin /\ b.group = ContactListUins[i].group
                 /\ b.item = ContactListUins[i].item
    <2>1. known \in BOOLEAN
      OBVIOUS
    <2> QED
      BY <1>1, <2>1 DEF sub_ssi_removeContact
  <1>3. CASE up /\ i # 0
    <2>1. i \in 1 .. Len(ContactListUins)
      BY <1>1, <1>3, FirstOfUin DEF First
    <2>2. PICK e \in Buddies : e = ContactListUins[i]
      BY <2>1, ElementOfSeq DEF TypeInv, ListT
    <2>3. PICK answer \in {"ok", "refused"} : Ask(answer)
      BY <1>2, <1>3
    <2>4. LinkT' /\ ListT' /\ AckT' /\ CountT' /\ plan' = plan /\ privacy' \in Privacy
      BY <2>3, AskTypes DEF Answers
    <2>5. SrvT'
      <3>1. {b \in srv_buddies : b.item # e.item} \in SUBSET srv_buddies
        OBVIOUS
      <3>2. IsFiniteSet({b \in srv_buddies : b.item # e.item})
        BY <3>1, FS_Subset DEF TypeInv, SrvT
      <3> QED
        BY <1>2, <1>3, <2>2, <3>1, <3>2 DEF TypeInv, SrvT
    <2>6. gen' \in Groups /\ uen_ind' \in Nat
      BY <1>2, <1>3, <2>1, <2>2 DEF TypeInv, JobT, Groups, Buddies
    <2>7. FaultT'
      BY <1>2, <1>3 DEF TypeInv, FaultT, Faults
    <2> QED
      BY <1>2, <1>3, <2>4, <2>5, <2>6, <2>7 DEF TypeInv, PrivT, JobT, PlanT, PlanFits
  <1>4. CASE ~(up /\ i # 0)
    BY <1>2, <1>4, FailToSendTypes DEF At
  <1> QED
    BY <1>3, <1>4

LEMMA updateSSIGroupContentTypes == ASSUME TypeInv, updateSSIGroupContent PROVE TypeInv'
  <1>1. PICK known \in BOOLEAN :
        /\ At("content")
        /\ IF up /\ HasGroupId(ContactListGroups, gen.id)
           THEN /\ srv_members' = IF known
                     THEN [srv_members EXCEPT ![gen.id] = Members(ToSet(ContactListUins), gen.id)]
                     ELSE srv_members
                /\ Ask(IF known THEN "ok" ELSE "refused")
                /\ faults' \in {faults, faults \cup {"crossed"}}
                /\ UNCHANGED <<srv_buddies, srv_groups, srv_privacy, job, found>>
           ELSE FailToSend
    <2> DEFINE known == \E g \in srv_groups : g.id = gen.id
    <2>1. known \in BOOLEAN
      OBVIOUS
    <2> QED
      BY <2>1 DEF updateSSIGroupContent
  <1>2. CASE up /\ HasGroupId(ContactListGroups, gen.id)
    <2>1. PICK answer \in {"ok", "refused"} : Ask(answer)
      BY <1>1, <1>2
    <2>2. LinkT' /\ ListT' /\ AckT' /\ CountT' /\ plan' = plan /\ privacy' \in Privacy
      BY <2>1, AskTypes DEF Answers
    <2>3. ToSet(ContactListUins) \subseteq Buddies
      BY ToSetType DEF TypeInv, ListT
    <2>4. PICK M \in SUBSET Nat : M = Members(ToSet(ContactListUins), gen.id)
      <3>1. \A e \in ToSet(ContactListUins) : e.item \in Nat
        BY <2>3, NumbersAre DEF Buddies
      <3> QED
        BY <3>1 DEF Members
    <2>5. SrvT'
      BY <1>1, <1>2, <2>4 DEF TypeInv, SrvT
    <2>6. FaultT'
      BY <1>1, <1>2 DEF TypeInv, FaultT, Faults
    <2> QED
      BY <1>1, <1>2, <2>2, <2>5, <2>6 DEF job, found, TypeInv, PrivT, JobT, PlanT, PlanFits
  <1>3. CASE ~(up /\ HasGroupId(ContactListGroups, gen.id))
    BY <1>1, <1>3, FailToSendTypes DEF At
  <1> QED
    BY <1>2, <1>3

LEMMA updateMasterGroupTypes == ASSUME TypeInv, updateMasterGroup PROVE TypeInv'
  <1>1. CASE up
    <2>1. /\ srv_members' = [srv_members EXCEPT ![0] = {g.id : g \in ToSet(ContactListGroups)}]
          /\ Ask("ok") /\ UNCHANGED <<srv_buddies, srv_groups, srv_privacy, job, found, faults>>
      BY <1>1 DEF updateMasterGroup
    <2>2. LinkT' /\ ListT' /\ AckT' /\ CountT' /\ plan' = plan /\ privacy' \in Privacy
      BY <2>1, AskTypes DEF Answers
    <2>3. ToSet(ContactListGroups) \subseteq Groups
      BY ToSetType DEF TypeInv, ListT
    <2>4. {g.id : g \in ToSet(ContactListGroups)} \subseteq Nat
      BY <2>3, NumbersAre DEF Groups
    <2>5. SrvT'
      BY <2>1, <2>4 DEF TypeInv, SrvT
    <2> QED
      BY <2>1, <2>2, <2>5 DEF job, found, TypeInv, PrivT, JobT, PlanT, PlanFits, FaultT
  <1>2. CASE ~up
    BY <1>2, FailToSendTypes DEF updateMasterGroup, At
  <1> QED
    BY <1>1, <1>2

LEMMA askAddGroupTypes == ASSUME TypeInv, askAddGroup PROVE TypeInv'
  <1>1. CASE up
    <2>1. PICK answer \in {"ok", "refused"} :
            /\ Ask(answer)
            /\ srv_groups' = IF answer = "ok" THEN srv_groups \cup {gen} ELSE srv_groups
            /\ srv_members' = IF answer = "ok" THEN [srv_members EXCEPT ![gen.id] = {}]
                              ELSE srv_members
            /\ UNCHANGED <<srv_buddies, srv_privacy, job, found, faults>>
      BY <1>1 DEF askAddGroup
    <2>2. LinkT' /\ ListT' /\ AckT' /\ CountT' /\ plan' = plan /\ privacy' \in Privacy
      BY <2>1, AskTypes DEF Answers
    <2>3. SrvT'
      BY <2>1, FS_AddElement DEF TypeInv, SrvT, JobT
    <2> QED
      BY <2>1, <2>2, <2>3 DEF job, found, TypeInv, PrivT, JobT, PlanT, PlanFits, FaultT
  <1>2. CASE ~up
    BY <1>2, FailToSendTypes DEF askAddGroup, At
  <1> QED
    BY <1>1, <1>2

LEMMA askDeleteGroupTypes == ASSUME TypeInv, askDeleteGroup PROVE TypeInv'
  <1>1. CASE up
    <2>1. PICK answer \in {"ok", "refused"} :
            /\ Ask(answer) /\ srv_groups' \in {srv_groups, srv_groups \ {gen}}
            /\ UNCHANGED <<srv_buddies, srv_members, srv_privacy, job, found, faults>>
      BY <1>1 DEF askDeleteGroup
    <2>2. LinkT' /\ ListT' /\ AckT' /\ CountT' /\ plan' = plan /\ privacy' \in Privacy
      BY <2>1, AskTypes DEF Answers
    <2>3. SrvT'
      BY <2>1, FS_RemoveElement DEF TypeInv, SrvT
    <2> QED
      BY <2>1, <2>2, <2>3 DEF job, found, TypeInv, PrivT, JobT, PlanT, PlanFits, FaultT
  <1>2. CASE ~up
    BY <1>2, FailToSendTypes DEF askDeleteGroup, At
  <1> QED
    BY <1>1, <1>2

LEMMA askPrivacyTypes == ASSUME TypeInv, askPrivacy PROVE TypeInv'
  <1>1. CASE up
    <2>1. PICK answer \in {"ok", "refused"}, item \in {privacy.item, getUnusedItemID} :
            /\ Ask(answer) /\ wish' = [wish EXCEPT !.item = item]
            /\ srv_privacy' \in {wish', srv_privacy}
            /\ UNCHANGED <<srv_buddies, srv_groups, srv_members, job, uen_ind, gr_ind, faults>>
      BY <1>1 DEF askPrivacy
    <2>2. LinkT' /\ ListT' /\ AckT' /\ CountT' /\ plan' = plan /\ privacy' \in Privacy
      BY <2>1, AskTypes DEF Answers
    <2>3. item \in ItemIds \cup {0}
      BY <2>1, IdsAre DEF TypeInv, PrivT, Privacy
    <2>4. wish' \in Privacy /\ srv_privacy' \in Privacy
      BY <2>1, <2>3 DEF TypeInv, PrivT, Privacy
    <2> QED
      BY <2>1, <2>2, <2>4 DEF job, TypeInv, SrvT, PrivT, JobT, PlanT, PlanFits, FaultT
  <1>2. CASE ~up
    BY <1>2, FailToSendTypes DEF askPrivacy, At
  <1> QED
    BY <1>1, <1>2

LEMMA ackAddTypes == ASSUME TypeInv, ackAdd PROVE TypeInv'
  <1>1. At("add") /\ plan # <<>>
    BY DEF ackAdd, At
  <1>2. CASE got = "needauth" /\ ~uen.wait
    <2>1. [uen EXCEPT !.wait = TRUE] \in Buddies
      BY DEF TypeInv, JobT, Buddies
    <2>2. AskAdd([uen EXCEPT !.wait = TRUE]) \/ FailToSend
      BY <1>2 DEF ackAdd
    <2> QED
      BY <1>1, <2>1, <2>2, AskAddTypes, FailToSendTypes
  <1>3. CASE ~(got = "needauth" /\ ~uen.wait)
    <2>1. /\ retflag' = got /\ waiting' = FALSE
          /\ ContactListUins' = IF got = "ok" THEN Append(ContactListUins, uen) ELSE ContactListUins
          /\ \E i \in {SelectInSeq(ContactListUins', LAMBDA e : e.uin = uen.uin)} :
               IF i = 0 THEN plan' = <<"end">> /\ UNCHANGED gen
               ELSE /\ plan' = <<"content", "end">>
                    /\ gen' = [gen EXCEPT !.id = ContactListUins'[i].group]
          /\ UNCHANGED <<server, trans, inbox, up, ContactListGroups, unknown_item_ids, privacy,
                         uins, uen, found, got, bounds, faults>>
      BY <1>3 DEF ackAdd
    <2>2. ContactListUins' \in Seq(Buddies)
      BY <2>1, AppendProperties DEF TypeInv, ListT, JobT
    <2>3. PICK s, i : /\ s \in Seq(Buddies) /\ s = ContactListUins'
                         /\ i = SelectInSeq(s, LAMBDA e : e.uin = uen.uin)
                         /\ IF i = 0 THEN plan' = <<"end">> /\ UNCHANGED gen
                            ELSE plan' = <<"content", "end">> /\ gen' = [gen EXCEPT !.id = s[i].group]
      BY <2>1, <2>2
    <2>4. First({k \in 1 .. Len(s) : s[k].uin = uen.uin}, i)
      <3> DEFINE S == {k \in 1 .. Len(s) : s[k].uin = uen.uin}
      <3>1. i = IF S # {} THEN Min(S) ELSE 0
        BY <2>3 DEF SelectInSeq
      <3>2. S \subseteq Nat
        OBVIOUS
      <3> HIDE DEF S
      <3>3. First(S, i)
        BY <3>1, <3>2, FirstIs
      <3> QED
        BY <3>3 DEF S
    <2>5. gen' \in Groups /\ plan' \in {<<"end">>, <<"content", "end">>}
      <3>1. CASE i = 0
        BY <2>3, <3>1 DEF TypeInv, JobT
      <3>2. CASE i # 0
        <4>1. s[i] \in Buddies
          BY <2>3, <2>4, <3>2, ElementOfSeq DEF First
        <4> QED
          BY <2>3, <3>2, <4>1 DEF TypeInv, JobT, Groups, Buddies
      <3> QED
        BY <3>1, <3>2
    <2>6. PlanT'
      BY <2>1, <2>5, PlanStops DEF TypeInv, PlanT
    <2>7. AckT' /\ ListT'
      BY <2>1, <2>2 DEF TypeInv, AckT, ListT
    <2> QED
      BY <2>1, <2>5, <2>6, <2>7 DEF server, found, bounds, TypeInv, SrvT, LinkT, PrivT, JobT, CountT, FaultT
  <1> QED
    BY <1>2, <1>3

LEMMA ackRemoveTypes == ASSUME TypeInv, ackRemove PROVE TypeInv'
  <1>1. PlanT /\ plan # <<>> /\ uins \in Seq(Uins) /\ uins # <<>>
    BY AtIs DEF ackRemove, TypeInv, PlanT
  <1>2. uins' = Tail(uins) /\ uins' \in Seq(Uins)
    BY <1>1, HeadTailProperties DEF ackRemove
  <1>3. PlanT'
    <2>1. CASE At("remove")
      BY <1>1, <1>2, <2>1, PlanStops DEF ackRemove, AfterRemove
    <2>2. CASE ~At("remove")
      BY <1>1, <1>2, <2>2, PlanGoes DEF ackRemove, AfterRemove
    <2> QED
      BY <2>1, <2>2
  <1>4. ContactListUins' \in Seq(Buddies)
    BY ErasedType DEF ackRemove, TypeInv, ListT, JobT
  <1>5. AckT' /\ ListT'
    BY <1>4 DEF ackRemove, TypeInv, AckT, ListT
  <1> QED
    BY <1>3, <1>5 DEF ackRemove, server, found, bounds, TypeInv, SrvT, LinkT, PrivT, JobT, CountT, FaultT

LEMMA ackGroupTypes == ASSUME TypeInv, ackGroup PROVE TypeInv'
  <1>1. PlanT /\ plan # <<>> /\ ~At("each") /\ plan' = Tail(plan) /\ uins' = uins
    BY DEF ackGroup, At, TypeInv, job
  <1>2. PlanT'
    BY <1>1, PlanGoes
  <1>3. FaultT' /\ AckT'
    BY DEF ackGroup, TypeInv, FaultT, Faults, AckT
  <1> QED
    BY <1>2, <1>3 DEF ackGroup, server, client, job, found, bounds, TypeInv, SrvT, LinkT, ListT, PrivT,
         JobT, CountT

LEMMA endGroupTypes == ASSUME TypeInv, endGroup PROVE TypeInv'
  <1>1. ContactListGroups' \in Seq(Groups)
    <2>1. CASE retflag # "ok"
      BY <2>1 DEF endGroup, TypeInv, ListT
    <2>2. CASE retflag = "ok" /\ At("push")
      BY <2>2, AppendProperties DEF endGroup, TypeInv, ListT, JobT
    <2>3. CASE retflag = "ok" /\ ~At("push")
      BY <2>3, ErasedType DEF endGroup, TypeInv, ListT, JobT
    <2> QED
      BY <2>1, <2>2, <2>3
  <1>2. PlanT'
    BY PlanStops DEF endGroup, job, TypeInv, PlanT
  <1> QED
    BY <1>1, <1>2 DEF endGroup, server, job, found, ack, bounds, TypeInv, SrvT, LinkT, ListT, PrivT,
         JobT, AckT, CountT, FaultT

LEMMA ackPrivacyTypes == ASSUME TypeInv, ackPrivacy PROVE TypeInv'
  <1>1. PlanT' /\ PrivT' /\ AckT'
    BY PlanStops DEF ackPrivacy, Confirmed, server, job, found, TypeInv, PlanT, PrivT, AckT
  <1> QED
    BY <1>1 DEF ackPrivacy, server, job, found, bounds, TypeInv, SrvT, LinkT, ListT, JobT, CountT, FaultT

LEMMA crashTypes == ASSUME TypeInv, crash PROVE TypeInv'
  <1>1. PlanT' /\ LinkT' /\ ListT'
    BY PlanStops, EmptySeq DEF crash, job, TypeInv, PlanT, LinkT, ListT
  <1>2. PrivT' /\ AckT' /\ FaultT'
    BY ContactListAssumption DEF crash, server, found, TypeInv, PrivT, Privacy, AckT, FaultT, Faults
  <1> QED
    BY <1>1, <1>2 DEF crash, server, job, found, bounds, TypeInv, SrvT, JobT, CountT

LEMMA giveUpTypes == ASSUME TypeInv, giveUp PROVE TypeInv'
  <1>1. PlanT' /\ waiting' = FALSE
    BY FailTypes DEF giveUp
  <1>2. LinkT' /\ FaultT'
    BY WithoutIs DEF giveUp, TypeInv, LinkT, FaultT, Faults
  <1> QED
    BY <1>1, <1>2 DEF giveUp, server, client, found, bounds, TypeInv, SrvT, ListT, PrivT, JobT, AckT, CountT

-----------------------------------------------------------------------------
(* The reader, and the other client *)

LEMMA readAckTypes == ASSUME TypeInv, readAck PROVE TypeInv'
  <1>1. Head(inbox) \in Messages /\ inbox' \in Seq(Messages)
    BY HeadTailProperties DEF readAck, TypeInv, LinkT
  <1>2. LinkT' /\ AckT'
    BY <1>1, OfMessages DEF readAck, TypeInv, LinkT, AckT
  <1> QED
    BY <1>2 DEF readAck, server, client, job, found, bounds, TypeInv, SrvT, ListT, PrivT, JobT, CountT,
         FaultT, PlanT, PlanFits

\* A notification leaves the rest to what is made of it.
LEMMA NotifiedTypes ==
  ASSUME TypeInv, NEW type, Notified(type), FaultT',
         ContactListUins' \in Seq(Buddies), ContactListGroups' \in Seq(Groups)
  PROVE  TypeInv'
  <1>1. LinkT' /\ ListT'
    BY HeadTailProperties DEF Notified, TypeInv, LinkT, ListT
  <1> QED
    BY <1>1 DEF Notified, server, job, found, ack, bounds, TypeInv, SrvT, PrivT, JobT, AckT, CountT,
         PlanT, PlanFits

LEMMA NotifiedIs ==
  ASSUME TypeInv, NEW type, Notified(type)
  PROVE  Head(inbox) \in Messages /\ Head(inbox).type = type
  BY HeadTailProperties DEF Notified, TypeInv, LinkT

LEMMA OvertakenTypes == ASSUME TypeInv, NEW is, Overtaken(is) PROVE FaultT'
  BY DEF Overtaken, TypeInv, FaultT, Faults

LEMMA parseSSIAddNotifyTypes == ASSUME TypeInv, parseSSIAddNotify PROVE TypeInv'
  <1>0. ContactListUins \in Seq(Buddies) /\ ContactListGroups \in Seq(Groups)
    BY DEF TypeInv, ListT
  <1>1. CASE Notified("buddy") /\ ContactListGroups' = ContactListGroups
             /\ LET b == Head(inbox).buddy
                    i == SelectInSeq(ContactListUins, LAMBDA e : e.item = b.item)
                IN /\ ContactListUins' = Put(ContactListUins, i, b)
                   /\ Overtaken(OvertakesContact(b.item, IF i = uen_ind THEN {i} ELSE {}))
    <2>1. PICK b \in Buddies : b = Head(inbox).buddy
      BY <1>1, NotifiedIs, OfMessages
    <2>2. PICK i : i = SelectInSeq(ContactListUins, LAMBDA e : e.item = b.item)
      OBVIOUS
    <2>3. i = 0 \/ i \in 1 .. Len(ContactListUins)
      <3> DEFINE S == {k \in 1 .. Len(ContactListUins) : ContactListUins[k].item = b.item}
      <3>1. i = IF S # {} THEN Min(S) ELSE 0
        BY <2>2 DEF SelectInSeq
      <3>2. S \subseteq Nat /\ S \subseteq 1 .. Len(ContactListUins)
        OBVIOUS
      <3> HIDE DEF S
      <3> QED
        BY <3>1, <3>2, MinIs
    <2>4. ContactListUins' = Put(ContactListUins, i, b)
      BY <1>1, <2>1, <2>2
    <2>5. ContactListUins' \in Seq(Buddies)
      BY <1>0, <2>3, <2>4, PutType
    <2>6. FaultT'
      BY <1>1, OvertakenTypes
    <2> QED
      BY <1>0, <1>1, <2>5, <2>6, NotifiedTypes
  <1>2. CASE Notified("group") /\ ContactListUins' = ContactListUins
             /\ LET g == Head(inbox).group
                    i == SelectInSeq(ContactListGroups, LAMBDA h : h.id = g.id)
                IN /\ ContactListGroups' = Put(ContactListGroups, i, g)
                   /\ Overtaken(OvertakesGroup(g.id, IF i = gr_ind THEN {i} ELSE {}))
    <2>1. PICK g \in Groups : g = Head(inbox).group
      BY <1>2, NotifiedIs, OfMessages
    <2>2. PICK i : i = SelectInSeq(ContactListGroups, LAMBDA h : h.id = g.id)
      OBVIOUS
    <2>3. i = 0 \/ i \in 1 .. Len(ContactListGroups)
      <3> DEFINE S == {k \in 1 .. Len(ContactListGroups) : ContactListGroups[k].id = g.id}
      <3>1. i = IF S # {} THEN Min(S) ELSE 0
        BY <2>2 DEF SelectInSeq
      <3>2. S \subseteq Nat /\ S \subseteq 1 .. Len(ContactListGroups)
        OBVIOUS
      <3> HIDE DEF S
      <3> QED
        BY <3>1, <3>2, MinIs
    <2>4. ContactListGroups' = Put(ContactListGroups, i, g)
      BY <1>2, <2>1, <2>2
    <2>5. ContactListGroups' \in Seq(Groups)
      BY <1>0, <2>3, <2>4, PutType
    <2>6. FaultT'
      BY <1>2, OvertakenTypes
    <2> QED
      BY <1>0, <1>2, <2>5, <2>6, NotifiedTypes
  <1>3. CASE /\ Notified("privacy")
             /\ faults' = faults \cup {"unread"}
             /\ UNCHANGED <<ContactListUins, ContactListGroups>>
    <2>1. FaultT'
      BY <1>3 DEF TypeInv, FaultT, Faults
    <2> QED
      BY <1>0, <1>3, <2>1, NotifiedTypes
  <1> QED
    BY <1>1, <1>2, <1>3 DEF parseSSIAddNotify

LEMMA parseSSIDeleteNotifyTypes == ASSUME TypeInv, parseSSIDeleteNotify PROVE TypeInv'
  <1>0. ContactListUins \in Seq(Buddies) /\ ContactListGroups \in Seq(Groups)
    BY DEF TypeInv, ListT
  <1>1. PICK gone, places, type :
          /\ Notified(type)
          /\ ContactListUins' = Without(ContactListUins, gone)
          /\ ContactListGroups' \in {ContactListGroups, Without(ContactListGroups, places)}
          /\ FaultT'
    <2>1. CASE /\ Notified("nobuddy")
               /\ LET b == Head(inbox).buddy
                      gone == {i \in DOMAIN ContactListUins : ContactListUins[i].item = b.item}
                  IN /\ ContactListUins' = Without(ContactListUins, gone)
                     /\ Overtaken(OvertakesContact(b.item, gone))
               /\ UNCHANGED ContactListGroups
      <3>1. FaultT'
        BY <2>1, OvertakenTypes
      <3> QED
        BY <2>1, <3>1
    <2>2. CASE /\ Notified("nogroup")
               /\ LET g == Head(inbox).group
                      gone == {i \in DOMAIN ContactListUins : ContactListUins[i].group = g.id}
                      places == {i \in DOMAIN ContactListGroups : ContactListGroups[i].id = g.id}
                  IN /\ ContactListUins' = Without(ContactListUins, gone)
                     /\ ContactListGroups' = Without(ContactListGroups, places)
                     /\ faults' = faults \cup {"vanished"} \cup
                          IF OvertakesContact(0, gone) \/ OvertakesGroup(g.id, places)
                          THEN {"overtaken"} ELSE {}
      <3>1. FaultT'
        BY <2>2 DEF TypeInv, FaultT, Faults
      <3> QED
        BY <2>2, <3>1
    <2> QED
      BY <2>1, <2>2 DEF parseSSIDeleteNotify
  <1>2. ContactListUins' \in Seq(Buddies) /\ ContactListGroups' \in Seq(Groups)
    BY <1>0, <1>1, WithoutIs
  <1> QED
    BY <1>1, <1>2, NotifiedTypes

\* A change by the other client, with what it announces.
LEMMA ForeignTypes ==
  ASSUME TypeInv, Foreign, NEW m \in Messages, Notify(m), SrvT', srv_privacy' \in Privacy
  PROVE  TypeInv'
  <1>1. LinkT'
    BY AppendProperties DEF Foreign, Notify, TypeInv, LinkT
  <1>2. CountT'
    BY ContactListAssumption DEF Foreign, TypeInv, CountT
  <1> QED
    BY <1>1, <1>2 DEF Foreign, client, job, found, ack, TypeInv, ListT, PrivT, JobT, AckT, FaultT,
         PlanT, PlanFits

LEMMA otherAddsTypes == ASSUME TypeInv, NEW b \in Buddies, otherAdds(b) PROVE TypeInv'
  <1>1. b.item \in Nat
    BY ContactListAssumption DEF Buddies
  <1>2. SrvT'
    BY <1>1, FS_AddElement DEF otherAdds, TypeInv, SrvT
  <1> QED
    BY <1>2, ForeignTypes, MessagesAre DEF otherAdds, TypeInv, PrivT

LEMMA otherGrantsTypes == ASSUME TypeInv, NEW b \in srv_buddies, otherGrants(b) PROVE TypeInv'
  <1>1. PICK c \in Buddies : c = [b EXCEPT !.wait = FALSE]
    BY DEF TypeInv, SrvT, Buddies
  <1>2. srv_buddies' = (srv_buddies \ {b}) \cup {c} /\ Notify([type |-> "buddy", buddy |-> c])
    BY <1>1 DEF otherGrants
  <1>3. IsFiniteSet(srv_buddies \ {b})
    BY FS_RemoveElement DEF TypeInv, SrvT
  <1>4. IsFiniteSet((srv_buddies \ {b}) \cup {c})
    BY <1>3, FS_AddElement
  <1>5. SrvT'
    BY <1>2, <1>4 DEF otherGrants, TypeInv, SrvT
  <1> QED
    BY <1>2, <1>5, ForeignTypes, MessagesAre DEF otherGrants, TypeInv, PrivT

LEMMA otherDeletesTypes == ASSUME TypeInv, NEW b \in srv_buddies, otherDeletes(b) PROVE TypeInv'
  <1>1. SrvT' /\ b \in Buddies
    BY FS_RemoveElement DEF otherDeletes, TypeInv, SrvT
  <1> QED
    BY <1>1, ForeignTypes, MessagesAre DEF otherDeletes, TypeInv, PrivT

LEMMA otherAddsGroupTypes == ASSUME TypeInv, NEW g \in Groups, otherAddsGroup(g) PROVE TypeInv'
  <1>1. g.id \in Nat
    BY ContactListAssumption DEF Groups
  <1>2. SrvT'
    BY <1>1, FS_AddElement DEF otherAddsGroup, TypeInv, SrvT
  <1> QED
    BY <1>2, ForeignTypes, MessagesAre DEF otherAddsGroup, TypeInv, PrivT

LEMMA otherDeletesGroupTypes ==
  ASSUME TypeInv, NEW g \in srv_groups, otherDeletesGroup(g)
  PROVE  TypeInv'
  <1>1. SrvT' /\ g \in Groups
    BY FS_RemoveElement DEF otherDeletesGroup, TypeInv, SrvT
  <1> QED
    BY <1>1, ForeignTypes, MessagesAre DEF otherDeletesGroup, TypeInv, PrivT

LEMMA otherSetsPrivacyTypes == ASSUME TypeInv, NEW p \in Privacy, otherSetsPrivacy(p) PROVE TypeInv'
  <1>1. SrvT'
    BY DEF otherSetsPrivacy, TypeInv, SrvT
  <1> QED
    BY <1>1, ForeignTypes, MessagesAre DEF otherSetsPrivacy

-----------------------------------------------------------------------------
LEMMA TypeNext == TypeInv /\ [Next]_vars => TypeInv'
  <1> SUFFICES ASSUME TypeInv, [Next]_vars PROVE TypeInv'
    OBVIOUS
  <1>1. CASE Menu
    BY <1>1, addContactTypes, removeContactTypes, addGroupTypes, removeGroupTypes,
       setMyPrivacyStatusTypes DEF Menu
  <1>2. CASE Edit
    BY <1>2, TransactTypes, sub_ssi_addContactTypes, sub_ssi_removeContactTypes,
       updateSSIGroupContentTypes, updateMasterGroupTypes, askAddGroupTypes, askDeleteGroupTypes,
       askPrivacyTypes, ackAddTypes, ackRemoveTypes, ackGroupTypes, ackPrivacyTypes, endGroupTypes,
       crashTypes, giveUpTypes DEF Edit
  <1>3. CASE Reader
    BY <1>3, readAckTypes, parseSSIAddNotifyTypes, parseSSIDeleteNotifyTypes DEF Reader
  <1>4. CASE Others
    BY <1>4, otherAddsTypes, otherGrantsTypes, otherDeletesTypes, otherAddsGroupTypes,
       otherDeletesGroupTypes, otherSetsPrivacyTypes DEF Others
  <1>5. CASE UNCHANGED vars
    BY <1>5 DEF vars, server, client, job, found, ack, bounds, TypeInv, SrvT, LinkT, ListT, PrivT,
       JobT, AckT, CountT, FaultT, PlanT, PlanFits
  <1> QED
    BY <1>1, <1>2, <1>3, <1>4, <1>5, LoginTypes, DisconnectTypes DEF Next

\* Every variable keeps to its values: the lists of the client are lists of contacts and
\* of groups whatever is erased from them, overwritten in them or read into them, and an
\* edit has a contact left for each step that removes one.
THEOREM TypeCorrect == Spec => []TypeOK
  <1>1. Init => TypeInv
    BY TypeInit
  <1>2. TypeInv /\ [Next]_vars => TypeInv'
    BY TypeNext
  <1>3. TypeInv => TypeOK
    BY TypeInvIs
  <1> QED
    BY <1>1, <1>2, <1>3, PTL DEF Spec
=============================================================================
