--------------------------- MODULE RepoLaneProofs ---------------------------
(***************************************************************************)
(* Proofs about RepoLane for any number of acquisitions and repositories.  *)
(*                                                                         *)
(* ExclusiveGrant is not inductive by itself: whether the daemon may hand  *)
(* a lane on depends on who released it, and the release travelled through *)
(* the socket and the channel.  ExclusionInv follows it there: a RELEASE,  *)
(* wherever it is, belongs to an acquisition that is over.  WedgeInv adds  *)
(* that whoever is in line still has a release to come, by itself or by    *)
(* its connection, so that no lane is left to nobody.  With both, every    *)
(* step is a step of LaneSpec.                                             *)
(***************************************************************************)
EXTENDS RepoLane, SequenceTheorems, TLAPS

-----------------------------------------------------------------------------
(* Lines: what Append, Tail and Retain do to them. *)

Distinct(q) == \A i, k \in DOMAIN q : q[i] = q[k] => i = k

Elements(q) == {q[k] : k \in DOMAIN q}

LEMMA AppendElements ==
    ASSUME NEW S, NEW s \in Seq(S), NEW e \in S
    PROVE  /\ Append(s, e) \in Seq(S)
           /\ \A k \in DOMAIN Append(s, e) :
                 \/ k \in DOMAIN s /\ Append(s, e)[k] = s[k]
                 \/ k = Len(s) + 1 /\ Append(s, e)[k] = e
           /\ \A k \in DOMAIN s : k \in DOMAIN Append(s, e) /\ Append(s, e)[k] = s[k]
           /\ Len(s) + 1 \in DOMAIN Append(s, e) /\ Append(s, e)[Len(s) + 1] = e
  OBVIOUS

LEMMA TailElements ==
    ASSUME NEW S, NEW s \in Seq(S), s # <<>>
    PROVE  /\ Tail(s) \in Seq(S)
           /\ 1 \in DOMAIN s /\ Head(s) = s[1] /\ Head(s) \in S
           /\ \A k \in DOMAIN Tail(s) : k + 1 \in DOMAIN s /\ Tail(s)[k] = s[k + 1]
           /\ \A k \in DOMAIN s : k # 1 => k - 1 \in DOMAIN Tail(s) /\ Tail(s)[k - 1] = s[k]
  OBVIOUS

LEMMA RetainElements ==
    ASSUME NEW S, NEW q \in Seq(S), NEW c
    PROVE  /\ Retain(q, c) \in Seq(S)
           /\ \A k \in DOMAIN Retain(q, c) : \E m \in DOMAIN q : Retain(q, c)[k] = q[m]
  <1>1. CASE \E k \in DOMAIN q : q[k] = c
    <2> DEFINE at == CHOOSE k \in DOMAIN q : q[k] = c
    <2>1. at \in DOMAIN q
      BY <1>1
    <2>2. Retain(q, c) = [k \in 1 .. (Len(q) - 1) |-> IF k < at THEN q[k] ELSE q[k + 1]]
      BY <1>1 DEF Retain
    <2>3. Len(q) - 1 \in Nat
      BY <2>1
    <2> HIDE DEF at
    <2>4. \A k \in 1 .. (Len(q) - 1) : k \in DOMAIN q /\ k + 1 \in DOMAIN q
      BY <2>3
    <2> QED
      BY <2>1, <2>2, <2>3, <2>4, SMTT(40)
  <1>2. CASE ~ \E k \in DOMAIN q : q[k] = c
    BY <1>2 DEF Retain
  <1> QED
    BY <1>1, <1>2

(* The tail of a line without repetitions. *)
LEMMA TailDistinct ==
    ASSUME NEW S, NEW q \in Seq(S), q # <<>>, Distinct(q)
    PROVE  /\ Distinct(Tail(q))
           /\ Elements(Tail(q)) = Elements(q) \ {Head(q)}
<1>1. \A k \in DOMAIN Tail(q) : k + 1 \in DOMAIN q /\ Tail(q)[k] = q[k + 1]
  BY TailElements
<1>2. \A k \in DOMAIN q : k # 1 => k - 1 \in DOMAIN Tail(q) /\ Tail(q)[k - 1] = q[k]
  BY TailElements
<1>3. 1 \in DOMAIN q /\ Head(q) = q[1] /\ DOMAIN q \subseteq Nat /\ DOMAIN Tail(q) \subseteq Nat \ {0}
  OBVIOUS
<1>4. Distinct(Tail(q))
  BY <1>1, <1>3 DEF Distinct
<1>5. Elements(Tail(q)) = Elements(q) \ {Head(q)}
  <2>1. ASSUME NEW x \in Elements(Tail(q)) PROVE x \in Elements(q) \ {Head(q)}
    BY <1>1, <1>3, <2>1 DEF Elements, Distinct
  <2>2. ASSUME NEW x \in Elements(q) \ {Head(q)} PROVE x \in Elements(Tail(q))
    BY <1>2, <1>3, <2>2 DEF Elements
  <2> QED BY <2>1, <2>2
<1> QED BY <1>4, <1>5

(* A newcomer at the end of a line without repetitions. *)
LEMMA AppendDistinct ==
    ASSUME NEW S, NEW q \in Seq(S), NEW e \in S
    PROVE  /\ Elements(Append(q, e)) = Elements(q) \cup {e}
           /\ Distinct(q) /\ e \notin Elements(q) => Distinct(Append(q, e))
<1>1. \A k \in DOMAIN Append(q, e) :
         \/ k \in DOMAIN q /\ Append(q, e)[k] = q[k]
         \/ k = Len(q) + 1 /\ Append(q, e)[k] = e
  BY AppendElements
<1>2. \A k \in DOMAIN q : k \in DOMAIN Append(q, e) /\ Append(q, e)[k] = q[k]
  BY AppendElements
<1>3. Len(q) + 1 \in DOMAIN Append(q, e) /\ Append(q, e)[Len(q) + 1] = e
  BY AppendElements
<1> HIDE DEF Elements
<1>4. Elements(Append(q, e)) = Elements(q) \cup {e}
  BY <1>1, <1>2, <1>3, Zenon DEF Elements
<1>5. ASSUME Distinct(q), e \notin Elements(q) PROVE Distinct(Append(q, e))
  BY <1>1, <1>5 DEF Elements, Distinct
<1> QED BY <1>4, <1>5

(* Where the elements of a line without repetitions are when c has left it. *)
LEMMA RetainFrom ==
    ASSUME NEW S, NEW q \in Seq(S), Distinct(q), NEW at \in DOMAIN q
    PROVE  /\ Len(q) - 1 \in Nat
           /\ Retain(q, q[at]) = [k \in 1 .. (Len(q) - 1) |-> IF k < at THEN q[k] ELSE q[k + 1]]
<1> DEFINE c == q[at]
           found == CHOOSE k \in DOMAIN q : q[k] = c
<1>1. found \in DOMAIN q /\ q[found] = c
  OBVIOUS
<1>2. found = at
  BY <1>1 DEF Distinct
<1>3. Retain(q, c) = [k \in 1 .. (Len(q) - 1) |-> IF k < found THEN q[k] ELSE q[k + 1]]
  BY DEF Retain
<1>4. Len(q) - 1 \in Nat
  OBVIOUS
<1> HIDE DEF found, c
<1>5. Retain(q, c) = [k \in 1 .. (Len(q) - 1) |-> IF k < at THEN q[k] ELSE q[k + 1]]
  BY <1>2, <1>3
<1> QED BY <1>4, <1>5 DEF c

(* Only c leaves. *)
LEMMA RetainDistinct ==
    ASSUME NEW S, NEW q \in Seq(S), Distinct(q), NEW c
    PROVE  /\ Distinct(Retain(q, c))
           /\ Elements(Retain(q, c)) = Elements(q) \ {c}
<1>1. CASE c \notin Elements(q)
  BY <1>1 DEF Retain, Elements
<1>2. CASE c \in Elements(q)
  <2>1. PICK at \in DOMAIN q : q[at] = c
    BY <1>2 DEF Elements
  <2> DEFINE rest == [k \in 1 .. (Len(q) - 1) |-> IF k < at THEN q[k] ELSE q[k + 1]]
  <2>2. Retain(q, c) = rest /\ Len(q) - 1 \in Nat
    BY <2>1, RetainFrom
  <2>3. DOMAIN q = 1 .. Len(q) /\ Len(q) \in Nat
    OBVIOUS
  <2>4. \A k \in DOMAIN rest : rest[k] = IF k < at THEN q[k] ELSE q[k + 1]
    OBVIOUS
  <2>5. DOMAIN rest = 1 .. (Len(q) - 1)
    OBVIOUS
  <2> HIDE DEF rest
  <2>6. \A k \in DOMAIN rest : k \in DOMAIN q /\ k + 1 \in DOMAIN q
    BY <2>2, <2>3, <2>5
  <2>7. Distinct(rest)
    BY <2>3, <2>4, <2>5, <2>6 DEF Distinct
  <2>8. ASSUME NEW x \in Elements(rest) PROVE x \in Elements(q) \ {c}
    <3>1. PICK k \in DOMAIN rest : x = rest[k]
      BY <2>8 DEF Elements
    <3>2. PICK m \in DOMAIN q : m # at /\ x = q[m]
      BY <2>3, <2>4, <2>5, <2>6, <3>1
    <3> QED BY <2>1, <3>2 DEF Elements, Distinct
  <2>9. ASSUME NEW x \in Elements(q) \ {c} PROVE x \in Elements(rest)
    <3>1. PICK m \in DOMAIN q : x = q[m] /\ m # at
      BY <2>1, <2>9 DEF Elements
    <3>2. CASE m < at
      <4>1. m \in DOMAIN rest
        BY <2>1, <2>3, <2>5, <3>2
      <4> QED BY <2>4, <3>1, <3>2, <4>1 DEF Elements
    <3>3. CASE m > at
      <4>1. m - 1 \in DOMAIN rest /\ ~(m - 1 < at) /\ (m - 1) + 1 = m
        BY <2>1, <2>3, <2>5, <3>3
      <4> QED BY <2>4, <3>1, <4>1 DEF Elements
    <3> QED BY <2>1, <2>3, <3>1, <3>2, <3>3
  <2> QED BY <2>2, <2>7, <2>8, <2>9
<1> QED BY <1>1, <1>2

(* The line without c is what stands before it and what stands behind it. *)
LEMMA RetainBehind ==
    ASSUME NEW S, NEW q \in Seq(S), Distinct(q), NEW at \in DOMAIN q
    PROVE  Retain(q, q[at]) = SubSeq(q, 1, at - 1) \o SubSeq(q, at + 1, Len(q))
<1> DEFINE rest == [k \in 1 .. (Len(q) - 1) |-> IF k < at THEN q[k] ELSE q[k + 1]]
           front == SubSeq(q, 1, at - 1)
           back == SubSeq(q, at + 1, Len(q))
<1>1. Retain(q, q[at]) = rest /\ Len(q) - 1 \in Nat
  BY RetainFrom
<1>2. at \in 1 .. Len(q) /\ Len(q) \in Nat
  OBVIOUS
<1>3. front \in Seq(S) /\ Len(front) = at - 1 /\ \A k \in 1 .. (at - 1) : front[k] = q[k]
  BY <1>2
<1>4. back \in Seq(S) /\ Len(back) = Len(q) - at /\ \A k \in 1 .. (Len(q) - at) : back[k] = q[at + k]
  BY <1>2
<1>5. rest \in Seq(S) /\ Len(rest) = Len(q) - 1
  BY <1>1, <1>2
<1>6. \A k \in 1 .. (Len(q) - 1) : rest[k] = IF k < at THEN q[k] ELSE q[k + 1]
  OBVIOUS
<1> HIDE DEF rest, front, back
<1>7. (front \o back) \in Seq(S) /\ Len(front \o back) = Len(q) - 1
  BY <1>2, <1>3, <1>4
<1>8. \A k \in 1 .. (Len(q) - 1) : (front \o back)[k] = IF k < at THEN q[k] ELSE q[k + 1]
  <2> SUFFICES ASSUME NEW k \in 1 .. (Len(q) - 1)
               PROVE  (front \o back)[k] = IF k < at THEN q[k] ELSE q[k + 1]
    OBVIOUS
  <2>1. k \in 1 .. (Len(front) + Len(back))
    BY <1>2, <1>3, <1>4
  <2>2. (front \o back)[k] = IF k <= Len(front) THEN front[k] ELSE back[k - Len(front)]
    BY <1>3, <1>4, <2>1, ConcatProperties
  <2>3. CASE k < at
    BY <1>2, <1>3, <2>2, <2>3
  <2>4. CASE ~(k < at)
    <3>1. k - (at - 1) \in 1 .. (Len(q) - at) /\ at + (k - (at - 1)) = k + 1
      BY <1>2, <2>4
    <3>2. (front \o back)[k] = back[k - (at - 1)]
      BY <1>2, <1>3, <2>2, <2>4
    <3>3. back[k - (at - 1)] = q[k + 1]
      BY <1>4, <3>1
    <3> QED BY <2>4, <3>2, <3>3
  <2> QED BY <2>3, <2>4
<1>9. rest = front \o back
  <2>1. \A k \in 1 .. Len(rest) : rest[k] = (front \o back)[k]
    BY <1>5, <1>6, <1>8
  <2> QED BY <1>5, <1>7, <2>1, SeqEqual
<1> QED BY <1>1, <1>9 DEF rest, front, back

(* A line with h put in front of it. *)
LEMMA ConsElements ==
    ASSUME NEW S, NEW q \in Seq(S), NEW h \in S
    PROVE  /\ <<h>> \o q \in Seq(S) /\ Len(<<h>> \o q) = Len(q) + 1 /\ <<h>> \o q # <<>>
           /\ Head(<<h>> \o q) = h /\ (<<h>> \o q)[1] = h
           /\ \A k \in 1 .. Len(q) : (<<h>> \o q)[k + 1] = q[k]
<1>1. <<h>> \in Seq(S) /\ Len(<<h>>) = 1 /\ <<h>>[1] = h
  OBVIOUS
<1>2. /\ <<h>> \o q \in Seq(S) /\ Len(<<h>> \o q) = 1 + Len(q)
      /\ \A i \in 1 .. 1 + Len(q) : (<<h>> \o q)[i] = IF i <= 1 THEN <<h>>[i] ELSE q[i - 1]
  BY <1>1, ConcatProperties
<1>3. Len(q) \in Nat
  OBVIOUS
<1>4. (<<h>> \o q)[1] = h
  BY <1>1, <1>2, <1>3
<1>5. \A k \in 1 .. Len(q) : (<<h>> \o q)[k + 1] = q[k]
  BY <1>2, <1>3
<1>6. <<h>> \o q # <<>> /\ Head(<<h>> \o q) = h
  BY <1>2, <1>3, <1>4
<1> QED BY <1>2, <1>3, <1>4, <1>5, <1>6

LEMMA ConsDistinct ==
    ASSUME NEW S, NEW q \in Seq(S), NEW h \in S, Distinct(q), h \notin Elements(q)
    PROVE  Distinct(<<h>> \o q) /\ Elements(<<h>> \o q) = Elements(q) \cup {h}
<1> DEFINE s == <<h>> \o q
<1>1. /\ DOMAIN s = 1 .. Len(q) + 1 /\ DOMAIN q = 1 .. Len(q) /\ Len(q) \in Nat
      /\ s[1] = h /\ \A k \in 1 .. Len(q) : s[k + 1] = q[k]
  BY ConsElements
<1> HIDE DEF s
<1>2. \A k \in DOMAIN s : k = 1 \/ (k - 1 \in DOMAIN q /\ s[k] = q[k - 1])
  BY <1>1
<1>3. \A k \in DOMAIN q : k + 1 \in DOMAIN s /\ s[k + 1] = q[k]
  BY <1>1
<1>4. Elements(s) = Elements(q) \cup {h}
  <2>1. \A x \in Elements(q) : x \in Elements(s)
    BY <1>3 DEF Elements
  <2>2. h \in Elements(s)
    BY <1>1 DEF Elements
  <2>3. \A x \in Elements(s) : x = h \/ x \in Elements(q)
    BY <1>1, <1>2 DEF Elements
  <2> QED BY <2>1, <2>2, <2>3
<1>5. ASSUME NEW i \in DOMAIN s, NEW k \in DOMAIN s, s[i] = s[k] PROVE i = k
  <2>1. CASE i = 1 /\ k = 1
    BY <2>1
  <2>2. CASE i # 1 /\ k # 1
    <3>1. i - 1 = k - 1
      BY <1>2, <1>5, <2>2 DEF Distinct
    <3> QED BY <1>1, <3>1
  <2>3. CASE (i = 1) # (k = 1)
    BY <1>1, <1>2, <1>5, <2>3 DEF Elements
  <2> QED BY <2>1, <2>2, <2>3
<1>6. Distinct(s)
  BY <1>5 DEF Distinct
<1> QED BY <1>4, <1>6 DEF s

(* The head leaves, or somebody behind it. *)
LEMMA RetainCons ==
    ASSUME NEW S, NEW q \in Seq(S), NEW h \in S, Distinct(q), h \notin Elements(q)
    PROVE  /\ Retain(<<h>> \o q, h) = q
           /\ \A c \in Elements(q) : Retain(<<h>> \o q, c) = <<h>> \o Retain(q, c)
<1> DEFINE s == <<h>> \o q
<1>1. s \in Seq(S) /\ Distinct(s)
  BY ConsElements, ConsDistinct
<1>2. /\ Len(s) = Len(q) + 1 /\ Len(q) \in Nat /\ DOMAIN q = 1 .. Len(q) /\ s[1] = h
      /\ DOMAIN s = 1 .. Len(s)
      /\ \A k \in 1 .. Len(q) : s[k + 1] = q[k]
  BY <1>1, ConsElements
<1> HIDE DEF s
<1>3. Retain(s, h) = q
  <2>1. Retain(s, h) = [k \in 1 .. (Len(s) - 1) |-> IF k < 1 THEN s[k] ELSE s[k + 1]]
    BY <1>1, <1>2, RetainFrom
  <2>2. Retain(s, h) = [k \in 1 .. Len(q) |-> q[k]]
    BY <1>2, <2>1
  <2> QED BY <1>2, <2>2
<1>4. ASSUME NEW c \in Elements(q) PROVE Retain(s, c) = <<h>> \o Retain(q, c)
  <2>1. PICK at \in 1 .. Len(q) : q[at] = c
    BY <1>2 DEF Elements
  <2> DEFINE rest == Retain(q, c)
             joined == <<h>> \o rest
  <2>2. rest = [k \in 1 .. (Len(q) - 1) |-> IF k < at THEN q[k] ELSE q[k + 1]] /\ Len(q) - 1 \in Nat
    BY <1>2, <2>1, RetainFrom
  <2>3. rest \in Seq(S) /\ Len(rest) = Len(q) - 1
    BY <1>2, <2>2, RetainElements
  <2>4. /\ joined \in Seq(S) /\ Len(joined) = Len(q) /\ joined[1] = h
        /\ \A k \in 1 .. Len(rest) : joined[k + 1] = rest[k]
    <3> HIDE DEF rest
    <3>1. /\ joined \in Seq(S) /\ Len(joined) = Len(rest) + 1 /\ joined[1] = h
          /\ \A k \in 1 .. Len(rest) : joined[k + 1] = rest[k]
      BY <2>3, ConsElements
    <3> HIDE DEF joined
    <3> QED BY <1>2, <2>3, <3>1
  <2>5. Retain(s, c) = [k \in 1 .. Len(q) |-> IF k < at + 1 THEN s[k] ELSE s[k + 1]]
    <3>1. at + 1 \in DOMAIN s /\ s[at + 1] = c
      BY <1>2, <2>1
    <3>2. Retain(s, s[at + 1]) = [k \in 1 .. (Len(s) - 1) |-> IF k < at + 1 THEN s[k] ELSE s[k + 1]]
      BY <1>1, <3>1, RetainFrom
    <3> QED BY <1>2, <3>1, <3>2
  <2> HIDE DEF rest, joined
  <2>6. ASSUME NEW k \in 1 .. Len(q)
        PROVE  joined[k] = IF k < at + 1 THEN s[k] ELSE s[k + 1]
    <3>1. CASE k = 1
      BY <1>2, <2>1, <2>4, <3>1
    <3>2. CASE k # 1
      <4>1. k - 1 \in 1 .. (Len(q) - 1) /\ (k - 1) + 1 = k /\ k - 1 \in 1 .. Len(q)
        BY <1>2, <3>2
      <4>2. joined[k] = rest[k - 1]
        BY <2>3, <2>4, <4>1
      <4>3. rest[k - 1] = IF k - 1 < at THEN q[k - 1] ELSE q[k]
        BY <2>2, <4>1
      <4> QED BY <1>2, <2>1, <4>1, <4>2, <4>3
    <3> QED BY <3>1, <3>2
  <2>7. joined = [k \in 1 .. Len(q) |-> IF k < at + 1 THEN s[k] ELSE s[k + 1]]
    BY <1>2, <2>4, <2>6
  <2> QED BY <2>5, <2>7 DEF rest, joined
<1> QED BY <1>3, <1>4 DEF s

LEMMA ConsAppend ==
    ASSUME NEW S, NEW q \in Seq(S), NEW h \in S, NEW e \in S
    PROVE  <<h>> \o Append(q, e) = Append(<<h>> \o q, e)
<1> DEFINE s == <<h>> \o q
           p == Append(q, e)
<1>1. s \in Seq(S) /\ Len(s) = Len(q) + 1 /\ s[1] = h /\ Len(q) \in Nat
      /\ \A k \in 1 .. Len(q) : s[k + 1] = q[k]
  BY ConsElements
<1>2. p \in Seq(S) /\ Len(p) = Len(q) + 1 /\ p[Len(q) + 1] = e /\ \A k \in 1 .. Len(q) : p[k] = q[k]
  OBVIOUS
<1> HIDE DEF s, p
<1>3. /\ <<h>> \o p \in Seq(S) /\ Len(<<h>> \o p) = Len(p) + 1 /\ (<<h>> \o p)[1] = h
      /\ \A k \in 1 .. Len(p) : (<<h>> \o p)[k + 1] = p[k]
  BY <1>2, ConsElements
<1>4. /\ Append(s, e) \in Seq(S) /\ Len(Append(s, e)) = Len(s) + 1 /\ Append(s, e)[Len(s) + 1] = e
      /\ \A k \in 1 .. Len(s) : Append(s, e)[k] = s[k]
  BY <1>1
<1>5. ASSUME NEW k \in 1 .. Len(q) + 2 PROVE (<<h>> \o p)[k] = Append(s, e)[k]
  <2>1. CASE k = 1
    BY <1>1, <1>3, <1>4, <2>1
  <2>2. CASE k # 1
    <3>1. k - 1 \in 1 .. Len(p) /\ (k - 1) + 1 = k
      BY <1>1, <1>2, <2>2
    <3>2. (<<h>> \o p)[k] = p[k - 1]
      BY <1>3, <3>1
    <3>3. CASE k = Len(q) + 2
      BY <1>1, <1>2, <1>4, <3>2, <3>3
    <3>4. CASE k # Len(q) + 2
      <4>1. k - 1 \in 1 .. Len(q) /\ k \in 1 .. Len(s)
        BY <1>1, <2>2, <3>4
      <4> QED BY <1>1, <1>2, <1>4, <3>1, <3>2, <4>1
    <3> QED BY <3>3, <3>4
  <2> QED BY <2>1, <2>2
<1>6. <<h>> \o p = Append(s, e)
  <2>1. Len(<<h>> \o p) = Len(q) + 2 /\ Len(Append(s, e)) = Len(q) + 2
    BY <1>1, <1>2, <1>3, <1>4
  <2> QED BY <1>3, <1>4, <1>5, <2>1, SeqEqual
<1> QED BY <1>6 DEF s, p

LEMMA HeadThenTail ==
    ASSUME NEW S, NEW q \in Seq(S), q # <<>>
    PROVE  <<Head(q)>> \o Tail(q) = q
<1>1. Len(q) \in Nat /\ Len(q) >= 1
  OBVIOUS
<1>2. q = SubSeq(q, 1, Len(q))
  BY SubSeqFull
<1>3. SubSeq(q, 1, Len(q)) = <<q[1]>> \o SubSeq(q, 2, Len(q))
  <2>1. 1 \in 1 .. Len(q) /\ Len(q) \in 1 .. Len(q)
    BY <1>1
  <2>2. SubSeq(q, 1, Len(q)) = <<q[1]>> \o SubSeq(q, 1 + 1, Len(q))
    BY <2>1, SubSeqRecursiveFirst
  <2> QED BY <2>2
<1>4. Tail(q) = SubSeq(q, 2, Len(q)) /\ Head(q) = q[1]
  BY TailIsSubSeq
<1> QED BY <1>2, <1>3, <1>4

-----------------------------------------------------------------------------
(* A release under way, as a line or as a command, means its client is done. *)
ReleaseMeansClosed ==
    /\ \A k \in DOMAIN chan : chan[k].op = "RELEASE" => phase[chan[k].id] = "closed"
    /\ \A c \in Client : \A k \in DOMAIN wire[c] : wire[c][k] = "RELEASE" => phase[c] = "closed"

(* Nothing has been said to or by an acquisition that has not asked. *)
IdleIsSilent ==
    \A c \in Client : phase[c] = "idle" => inbox[c] = <<>>

GrantedHolds ==
    daemon = "up" => \A c \in Client : Granted(c) => holder[RepoOf[c]] = c

(* Nobody waits in another repository's queue. *)
QueuedAtHome ==
    \A r \in Repo : \A k \in DOMAIN queue[r] : RepoOf[queue[r][k]] = r

ExclusionInv ==
    /\ TypeOK
    /\ QueuedAtHome
    /\ ReleaseMeansClosed
    /\ IdleIsSilent
    /\ GrantedHolds
    /\ ExclusiveGrant

(* One-line tests of the worker and of the connection threads. *)
USE DEF Free, Owns, Enqueue, WithRelease

-----------------------------------------------------------------------------
(* Type correctness. *)

(* RepoLane's variables always have the types their Rust counterparts have: *)
(* every queue and every lane entry holds acquisitions, every line and      *)
(* reply is one of the protocol's.                                          *)
THEOREM TypeCorrect == Spec => []TypeOK
<1>1. Init => TypeOK
  BY LaneAssumption DEF Init, TypeOK, Phase
<1>2. TypeOK /\ [Next]_vars => TypeOK'
  <2> SUFFICES ASSUME TypeOK, [Next]_vars
               PROVE  TypeOK'
    OBVIOUS
  <2> USE LaneAssumption DEF TypeOK
  <2>0. /\ \A c \in Client, op \in Line : [op |-> op, id |-> c] \in Cmd
        /\ {"idle", "waiting", "trying", "held", "closed", "fallback"} = Phase
        /\ {"ACQUIRE", "TRYACQUIRE", "RELEASE"} = Line
        /\ {"GRANTED", "BUSY"} = Reply
    BY DEF Cmd, Phase, Line, Reply
  <2>1. ASSUME NEW c \in Client, ClientNext(c)
        PROVE  TypeOK'
    <3>1. CASE Acquire(c)
      BY <2>0, <3>1 DEF Acquire, Request, laneVars
    <3>2. CASE TryAcquire(c)
      BY <2>0, <3>2 DEF TryAcquire, Request, laneVars
    <3>3. CASE ConnectFails(c) \/ ReadEof(c) \/ Kill(c)
      BY <2>0, <3>3 DEF ConnectFails, ReadEof, Kill, connVars, laneVars
    <3>4. CASE ReadGranted(c) \/ ReadBusy(c)
      <4>1. Tail(inbox[c]) \in Seq(Reply)
        BY <3>4 DEF ReadGranted, ReadBusy
      <4>2. inbox' = [inbox EXCEPT ![c] = Tail(inbox[c])]
        BY <3>4 DEF ReadGranted, ReadBusy
      <4>3. inbox' \in [Client -> Seq(Reply)]
        BY <4>1, <4>2
      <4>4. phase' \in [Client -> Phase]
        BY <2>0, <3>4 DEF ReadGranted, ReadBusy
      <4> QED
        BY <3>4, <4>3, <4>4 DEF ReadGranted, ReadBusy, connVars, laneVars
    <3>5. CASE DropGuard(c)
      <4>1. Append(wire[c], "RELEASE") \in Seq(Line)
        BY <2>0
      <4>2. wire' \in [Client -> Seq(Line)] /\ phase' \in [Client -> Phase]
        BY <2>0, <3>5, <4>1 DEF DropGuard
      <4> QED
        BY <3>5, <4>2 DEF DropGuard, laneVars
    <3> QED
      BY <2>1, <3>1, <3>2, <3>3, <3>4, <3>5 DEF ClientNext
  <2>2. ASSUME NEW c \in Client, ConnNext(c)
        PROVE  TypeOK'
    <3>1. wire[c] # <<>> => Tail(wire[c]) \in Seq(Line) /\ Head(wire[c]) \in Line
      OBVIOUS
    <3>2. \A op \in Line : Append(chan, [op |-> op, id |-> c]) \in Seq(Cmd)
      BY <2>0
    <3>3. chan' \in Seq(Cmd)
      <4>1. CASE ConnRequest(c)
        BY <3>1, <3>2, <4>1 DEF ConnRequest
      <4>2. CASE ConnRelease(c) \/ ConnEof(c)
        <5>1. "RELEASE" \in Line
          BY <2>0
        <5> QED
          BY <3>2, <4>2, <5>1 DEF ConnRelease, ConnEof
      <4> QED
        BY <2>2, <4>1, <4>2 DEF ConnNext
    <3>4. wire' \in [Client -> Seq(Line)]
      BY <2>2, <3>1 DEF ConnNext, ConnRequest, ConnRelease, ConnEof
    <3> QED
      BY <2>2, <3>3, <3>4
      DEF ConnNext, ConnRequest, ConnRelease, ConnEof, clientVars, laneVars
  <2>3. ASSUME NEW c \in Client, NEW op, Receive(op, c)
        PROVE  chan' \in Seq(Cmd)
    BY <2>3 DEF Receive
  <2>4. ASSUME NEW c \in Client, NEW reply \in Reply, Send(c, reply)
        PROVE  inbox' \in [Client -> Seq(Reply)]
    <3>1. Append(inbox[c], reply) \in Seq(Reply)
      OBVIOUS
    <3> QED
      BY <2>4, <3>1 DEF Send
  <2>5. ASSUME NEW c \in Client,
               WorkerAcquire(c) \/ WorkerTryAcquire(c) \/ WorkerRelease(c)
        PROVE  TypeOK'
    <3> DEFINE r == RepoOf[c]
    <3>1. r \in Repo /\ Retain(queue[r], c) \in Seq(Client)
      BY RetainElements
    <3>2. Append(queue[r], c) \in Seq(Client)
      BY <3>1
    <3>3. queue[r] # <<>> => Head(queue[r]) \in Client /\ Tail(queue[r]) \in Seq(Client)
      BY <3>1
    <3>4. chan' \in Seq(Cmd)
      BY <2>3, <2>5 DEF WorkerAcquire, WorkerTryAcquire, WorkerRelease
    <3>5. inbox' \in [Client -> Seq(Reply)]
      BY <2>0, <2>4, <2>5, <3>3 DEF WorkerAcquire, WorkerTryAcquire, WorkerRelease
    <3>6. holder' \in [Repo -> Client \cup {NoClient}]
      BY <2>5, <3>1, <3>3 DEF WorkerAcquire, WorkerTryAcquire, WorkerRelease
    <3>7. queue' \in [Repo -> Seq(Client)]
      BY <2>5, <3>1, <3>2, <3>3 DEF WorkerAcquire, WorkerTryAcquire, WorkerRelease
    <3> QED
      BY <2>5, <3>4, <3>5, <3>6, <3>7
      DEF WorkerAcquire, WorkerTryAcquire, WorkerRelease, connVars
  <2>6. ASSUME NEW r \in Repo, JobsChange(r)
        PROVE  TypeOK'
    BY <2>6 DEF JobsChange, clientVars, connVars, laneVars
  <2>7. CASE DaemonExit
    BY <2>7 DEF DaemonExit, clientVars
  <2>8. CASE UNCHANGED vars
    BY <2>8 DEF vars
  <2> QED
    BY <2>1, <2>2, <2>5, <2>6, <2>7, <2>8 DEF Next, Worker
<1> QED
  BY <1>1, <1>2, PTL DEF Spec

-----------------------------------------------------------------------------
(* Mutual exclusion. *)

(* An acquisition that is over stays over. *)
LEMMA ClosedForGood ==
    ASSUME TypeOK, [Next]_vars, NEW c \in Client, phase[c] = "closed"
    PROVE  phase'[c] = "closed"
<1> USE DEF TypeOK
<1>1. ASSUME NEW d \in Client, ClientNext(d)
      PROVE  phase'[c] = "closed"
  BY <1>1 DEF ClientNext, Acquire, TryAcquire, Request, ConnectFails, ReadGranted,
              ReadBusy, ReadEof, DropGuard, Kill
<1>2. ASSUME NEW d \in Client, ConnNext(d)
      PROVE  phase' = phase
  BY <1>2 DEF ConnNext, ConnRequest, ConnRelease, ConnEof, clientVars
<1>3. ASSUME NEW d \in Client,
             WorkerAcquire(d) \/ WorkerTryAcquire(d) \/ WorkerRelease(d)
      PROVE  phase' = phase
  BY <1>3 DEF WorkerAcquire, WorkerTryAcquire, WorkerRelease
<1>4. ASSUME (\E r \in Repo : JobsChange(r)) \/ DaemonExit \/ UNCHANGED vars
      PROVE  phase' = phase
  BY <1>4 DEF JobsChange, DaemonExit, vars, clientVars
<1> QED
  BY <1>1, <1>2, <1>3, <1>4 DEF Next, Worker

(* Only the worker grants: whatever a client, a connection thread or the    *)
(* end of the daemon does, nobody has the lane who did not have it before.  *)
LEMMA OnlyWorkerGrants ==
    ASSUME TypeOK, IdleIsSilent, NEW d \in Client, Granted(d)',
           \/ \E c \in Client : ClientNext(c) \/ ConnNext(c)
           \/ \E r \in Repo : JobsChange(r)
           \/ DaemonExit
           \/ UNCHANGED vars
    PROVE  Granted(d)
<1> USE DEF TypeOK
<1>1. ASSUME NEW c \in Client, Acquire(c) \/ TryAcquire(c)
      PROVE  Granted(d)
  <2>1. inbox' = inbox /\ inbox[c] = <<>>
    BY <1>1 DEF Acquire, TryAcquire, Request, IdleIsSilent
  <2>2. d # c => phase'[d] = phase[d]
    BY <1>1 DEF Acquire, TryAcquire, Request
  <2>3. phase'[c] \in {"waiting", "trying"}
    BY <1>1 DEF Acquire, TryAcquire, Request
  <2> QED
    BY <2>1, <2>2, <2>3 DEF Granted
<1>2. ASSUME NEW c \in Client,
             ConnectFails(c) \/ ReadEof(c) \/ DropGuard(c) \/ Kill(c)
      PROVE  Granted(d)
  BY <1>2 DEF ConnectFails, ReadEof, DropGuard, Kill, Granted
<1>3. ASSUME NEW c \in Client, ReadGranted(c)
      PROVE  Granted(d)
  <2>1. CASE d = c
    <3>1. 1 \in DOMAIN inbox[c] /\ inbox[c][1] = "GRANTED"
      BY <1>3 DEF ReadGranted
    <3> QED
      BY <1>3, <2>1, <3>1 DEF ReadGranted, Granted
  <2>2. CASE d # c
    BY <1>3, <2>2 DEF ReadGranted, Granted
  <2> QED
    BY <2>1, <2>2
<1>4. ASSUME NEW c \in Client, ReadBusy(c)
      PROVE  Granted(d)
  BY <1>4 DEF ReadBusy, Granted
<1>5. ASSUME phase' = phase, inbox' = inbox
      PROVE  Granted(d)
  BY <1>5 DEF Granted
<1>6. ASSUME NEW c \in Client, ConnNext(c)
      PROVE  Granted(d)
  BY <1>5, <1>6 DEF ConnNext, ConnRequest, ConnRelease, ConnEof, clientVars
<1>7. ASSUME (\E r \in Repo : JobsChange(r)) \/ DaemonExit \/ UNCHANGED vars
      PROVE  Granted(d)
  BY <1>5, <1>7 DEF JobsChange, DaemonExit, vars, clientVars
<1> QED
  BY <1>1, <1>2, <1>3, <1>4, <1>6, <1>7 DEF ClientNext

(* The command received is the first element of the channel. *)
LEMMA ReceivedFirst ==
    ASSUME TypeOK, NEW op, NEW c, Receive(op, c)
    PROVE  1 \in DOMAIN chan /\ chan[1].op = op /\ chan[1].id = c
<1>1. 1 \in DOMAIN chan /\ Head(chan) = chan[1]
  BY DEF TypeOK, Receive
<1>2. Head(chan) = [op |-> op, id |-> c]
  BY DEF Receive
<1> QED
  BY <1>1, <1>2

(* A worker step keeps the lane and its grants in agreement: the release it *)
(* acts on was sent by an acquisition that is over, so the lane it frees or *)
(* hands on has no live owner left.                                         *)
LEMMA WorkerKeepsGrantedHolds ==
    ASSUME ExclusionInv, NEW c \in Client,
           WorkerAcquire(c) \/ WorkerTryAcquire(c) \/ WorkerRelease(c)
    PROVE  GrantedHolds'
<1> USE LaneAssumption DEF ExclusionInv, TypeOK
<1> DEFINE r == RepoOf[c]
<1> SUFFICES ASSUME NEW d \in Client, Granted(d)'
             PROVE  holder'[RepoOf[d]] = d
  BY DEF GrantedHolds
<1>1. daemon = "up" /\ phase' = phase
  BY DEF WorkerAcquire, WorkerTryAcquire, WorkerRelease, Receive
<1>2. Granted(d) => holder[RepoOf[d]] = d
  BY <1>1 DEF GrantedHolds
<1>3. ASSUME NEW x \in Client, NEW m \in Reply, Send(x, m), m = "GRANTED" => d # x
      PROVE  Granted(d)
  <2>1. CASE d = x /\ Alive(x)
    <3>1. inbox'[x] = Append(inbox[x], m)
      BY <1>3, <2>1 DEF Send
    <3>2. \A k \in DOMAIN inbox'[x] : inbox'[x][k] = "GRANTED" =>
             k \in DOMAIN inbox[x] /\ inbox[x][k] = "GRANTED"
      BY <1>3, <2>1, <3>1
    <3> QED
      BY <1>1, <2>1, <3>2 DEF Granted
  <2>2. CASE d # x \/ ~Alive(x)
    <3>1. inbox'[d] = inbox[d]
      BY <1>3, <2>2 DEF Send
    <3> QED
      BY <1>1, <3>1 DEF Granted
  <2> QED
    BY <2>1, <2>2
<1>4. "GRANTED" \in Reply /\ "BUSY" \in Reply
  BY DEF Reply
<1>5. CASE WorkerAcquire(c)
  <2>1. CASE holder[r] = NoClient
    BY <1>2, <1>3, <1>4, <1>5, <2>1 DEF WorkerAcquire
  <2>2. CASE holder[r] # NoClient
    <3>1. inbox' = inbox /\ holder' = holder
      BY <1>5, <2>2 DEF WorkerAcquire
    <3> QED
      BY <1>1, <1>2, <3>1 DEF Granted
  <2> QED
    BY <2>1, <2>2
<1>6. CASE WorkerTryAcquire(c)
  BY <1>2, <1>3, <1>4, <1>6 DEF WorkerTryAcquire
<1>7. CASE WorkerRelease(c)
  <2>1. ~Granted(c)
    <3>1. 1 \in DOMAIN chan /\ chan[1].op = "RELEASE" /\ chan[1].id = c
      BY <1>7, ReceivedFirst DEF WorkerRelease
    <3>2. phase[c] = "closed"
      BY <3>1 DEF ReleaseMeansClosed
    <3> QED
      BY <3>2 DEF Granted
  <2>2. CASE holder[r] = c /\ queue[r] # <<>>
    <3> DEFINE x == Head(queue[r])
    <3>1. x \in Client /\ RepoOf[x] = r
      <4>1. 1 \in DOMAIN queue[r] /\ x = queue[r][1]
        BY <2>2
      <4> QED
        BY <4>1 DEF QueuedAtHome
    <3>2. Send(x, "GRANTED") /\ holder' = [holder EXCEPT ![r] = x]
      BY <1>7, <2>2 DEF WorkerRelease
    <3>3. CASE d = x
      BY <3>1, <3>2, <3>3
    <3>4. CASE d # x
      <4>1. Granted(d)
        BY <1>3, <1>4, <3>1, <3>2, <3>4
      <4> QED
        BY <1>2, <2>1, <2>2, <3>2, <4>1
    <3> QED
      BY <3>3, <3>4
  <2>3. CASE holder[r] = c /\ queue[r] = <<>>
    <3>1. inbox' = inbox /\ holder' = [holder EXCEPT ![r] = NoClient]
      BY <1>7, <2>3 DEF WorkerRelease
    <3>2. Granted(d)
      BY <1>1, <3>1 DEF Granted
    <3> QED
      BY <1>2, <2>1, <2>3, <3>1, <3>2
  <2>4. CASE holder[r] # c
    <3>1. inbox' = inbox /\ holder' = holder
      BY <1>7, <2>4 DEF WorkerRelease
    <3> QED
      BY <1>1, <1>2, <3>1 DEF Granted
  <2> QED
    BY <2>2, <2>3, <2>4
<1> QED
  BY <1>5, <1>6, <1>7

(* The daemon's queues stay sorted by repository. *)
LEMMA StaysAtHome ==
    ASSUME TypeOK, QueuedAtHome, [Next]_vars
    PROVE  QueuedAtHome'
<1> USE LaneAssumption DEF TypeOK
<1>1. ASSUME queue' = queue
      PROVE  QueuedAtHome'
  BY <1>1 DEF QueuedAtHome
<1>2. ASSUME NEW c \in Client, ClientNext(c) \/ ConnNext(c)
      PROVE  QueuedAtHome'
  BY <1>1, <1>2 DEF ClientNext, ConnNext, Acquire, TryAcquire, Request, ConnectFails,
     ReadGranted, ReadBusy, ReadEof, DropGuard, Kill, ConnRequest, ConnRelease, ConnEof,
     laneVars
<1>3. ASSUME (\E r \in Repo : JobsChange(r)) \/ UNCHANGED vars
      PROVE  QueuedAtHome'
  BY <1>1, <1>3 DEF JobsChange, vars, laneVars
<1>4. CASE DaemonExit
  BY <1>4 DEF DaemonExit, QueuedAtHome
<1>5. ASSUME NEW c \in Client, WorkerAcquire(c)
      PROVE  QueuedAtHome'
  <2> DEFINE r == RepoOf[c]
  <2>1. CASE queue' = queue
    BY <1>1, <2>1
  <2>2. CASE queue' = [queue EXCEPT ![r] = Append(@, c)]
    <3>1. \A k \in DOMAIN Append(queue[r], c) : RepoOf[Append(queue[r], c)[k]] = r
      BY AppendElements, SMTT(40) DEF QueuedAtHome
    <3> QED
      BY <2>2, <3>1 DEF QueuedAtHome
  <2> QED
    BY <1>5, <2>1, <2>2 DEF WorkerAcquire
<1>6. ASSUME NEW c \in Client, WorkerTryAcquire(c)
      PROVE  QueuedAtHome'
  BY <1>1, <1>6 DEF WorkerTryAcquire
<1>7. ASSUME NEW c \in Client, WorkerRelease(c)
      PROVE  QueuedAtHome'
  <2> DEFINE r == RepoOf[c]
  <2>1. CASE queue' = queue
    BY <1>1, <2>1
  <2>2. CASE queue[r] # <<>> /\ queue' = [queue EXCEPT ![r] = Tail(@)]
    <3>1. \A k \in DOMAIN Tail(queue[r]) : RepoOf[Tail(queue[r])[k]] = r
      <4>1. queue[r] \in Seq(Client) /\ r \in Repo
        OBVIOUS
      <4>2. \A k \in DOMAIN Tail(queue[r]) :
               k + 1 \in DOMAIN queue[r] /\ Tail(queue[r])[k] = queue[r][k + 1]
        BY <2>2, <4>1, TailElements
      <4> QED
        BY <4>1, <4>2 DEF QueuedAtHome
    <3> QED
      BY <2>2, <3>1 DEF QueuedAtHome
  <2>3. CASE queue' = [queue EXCEPT ![r] = Retain(@, c)]
    <3>1. \A k \in DOMAIN Retain(queue[r], c) : RepoOf[Retain(queue[r], c)[k]] = r
      <4>1. queue[r] \in Seq(Client) /\ r \in Repo
        OBVIOUS
      <4>2. \A k \in DOMAIN Retain(queue[r], c) :
               \E m \in DOMAIN queue[r] : Retain(queue[r], c)[k] = queue[r][m]
        BY <4>1, RetainElements
      <4> QED
        BY <4>1, <4>2 DEF QueuedAtHome
    <3> QED
      BY <2>3, <3>1 DEF QueuedAtHome
  <2> QED
    BY <1>7, <2>1, <2>2, <2>3 DEF WorkerRelease
<1> QED
  BY <1>2, <1>3, <1>4, <1>5, <1>6, <1>7 DEF Next, Worker

(* RELEASE is only ever sent for an acquisition that is over. *)
LEMMA ReleaseStaysClosed ==
    ASSUME TypeOK, ReleaseMeansClosed, [Next]_vars
    PROVE  ReleaseMeansClosed'
<1> USE LaneAssumption DEF TypeOK
<1> DEFINE Chan == \A k \in DOMAIN chan : chan[k].op = "RELEASE" => phase[chan[k].id] = "closed"
           Wire == \A c \in Client : \A k \in DOMAIN wire[c] :
                       wire[c][k] = "RELEASE" => phase[c] = "closed"
<1>0. \A k \in DOMAIN chan : chan[k].id \in Client
  <2>1. \A k \in DOMAIN chan : chan[k] \in Cmd
    OBVIOUS
  <2> QED
    BY <2>1 DEF Cmd
<1>1. \A c \in Client : phase[c] = "closed" => phase'[c] = "closed"
  BY ClosedForGood
<1>2. ASSUME chan' = chan
      PROVE  Chan'
  BY <1>0, <1>1, <1>2 DEF ReleaseMeansClosed
<1>3. ASSUME wire' = wire
      PROVE  Wire'
  BY <1>1, <1>3 DEF ReleaseMeansClosed
<1>4. ASSUME NEW c \in Client, ClientNext(c)
      PROVE  Chan' /\ Wire'
  <2>1. chan' = chan
    BY <1>4 DEF ClientNext, Acquire, TryAcquire, Request, ConnectFails,
       ReadGranted, ReadBusy, ReadEof, DropGuard, Kill
  <2>2. CASE Acquire(c) \/ TryAcquire(c)
    <3>1. PICK verb \in {"ACQUIRE", "TRYACQUIRE"} : wire' = [wire EXCEPT ![c] = Append(@, verb)]
      BY <2>2 DEF Acquire, TryAcquire, Request
    <3>2. verb \in Line
      BY DEF Line
    <3>3. \A k \in DOMAIN Append(wire[c], verb) : Append(wire[c], verb)[k] = "RELEASE" =>
             k \in DOMAIN wire[c] /\ wire[c][k] = "RELEASE"
      BY <3>2
    <3>4. Wire'
      BY <1>1, <3>1, <3>3 DEF ReleaseMeansClosed
    <3> QED
      BY <1>2, <2>1, <3>4
  <2>3. CASE DropGuard(c)
    <3>1. phase'[c] = "closed" /\ \A d \in Client : d # c => wire'[d] = wire[d]
      BY <2>3 DEF DropGuard
    <3>2. Wire'
      BY <1>1, <3>1 DEF ReleaseMeansClosed
    <3> QED
      BY <1>2, <2>1, <3>2
  <2>4. CASE ConnectFails(c) \/ ReadGranted(c) \/ ReadBusy(c) \/ ReadEof(c) \/ Kill(c)
    <3>1. wire' = wire
      BY <2>4 DEF ConnectFails, ReadGranted, ReadBusy, ReadEof, Kill, connVars
    <3> QED
      BY <1>2, <1>3, <2>1, <3>1
  <2> QED
    BY <1>4, <2>2, <2>3, <2>4 DEF ClientNext
<1>5. ASSUME NEW c \in Client, ConnNext(c)
      PROVE  Chan' /\ Wire'
  <2>1. \/ wire' = wire
        \/ wire[c] # <<>> /\ wire' = [wire EXCEPT ![c] = Tail(@)]
    BY <1>5 DEF ConnNext, ConnRequest, ConnRelease, ConnEof
  <2>2. Wire'
    <3>1. CASE wire' = wire
      BY <1>3, <3>1
    <3>2. CASE wire[c] # <<>> /\ wire' = [wire EXCEPT ![c] = Tail(@)]
      <4>1. \A k \in DOMAIN Tail(wire[c]) :
               k + 1 \in DOMAIN wire[c] /\ Tail(wire[c])[k] = wire[c][k + 1]
        <5>1. wire[c] \in Seq(Line)
          OBVIOUS
        <5> QED
          BY <3>2, <5>1, TailElements
      <4>2. wire'[c] = Tail(wire[c]) /\ \A d \in Client : d # c => wire'[d] = wire[d]
        BY <3>2
      <4>3. ASSUME NEW d \in Client, NEW k \in DOMAIN wire'[d], wire'[d][k] = "RELEASE"
            PROVE  phase'[d] = "closed"
        <5>1. \E m \in DOMAIN wire[d] : wire[d][m] = "RELEASE"
          <6>1. CASE d = c
            <7>1. k \in DOMAIN Tail(wire[c]) /\ Tail(wire[c])[k] = "RELEASE"
              BY <4>2, <4>3, <6>1
            <7> QED
              BY <4>1, <6>1, <7>1
          <6>2. CASE d # c
            BY <4>2, <4>3, <6>2
          <6> QED
            BY <6>1, <6>2
        <5> QED
          BY <1>1, <5>1 DEF ReleaseMeansClosed
      <4> QED
        BY <4>3
    <3> QED
      BY <2>1, <3>1, <3>2
  <2>3. ASSUME NEW op \in Line, chan' = Append(chan, [op |-> op, id |-> c]),
               op = "RELEASE" => phase[c] = "closed"
        PROVE  Chan'
    <3> DEFINE e == [op |-> op, id |-> c]
    <3>1. e \in Cmd /\ e.op = op /\ e.id = c
      BY DEF Cmd
    <3>2. \A k \in DOMAIN chan' : (k \in DOMAIN chan /\ chan'[k] = chan[k]) \/ chan'[k] = e
      <4> HIDE DEF e
      <4>1. chan' = Append(chan, e) /\ chan \in Seq(Cmd)
        BY <2>3 DEF e
      <4> QED
        BY <3>1, <4>1, AppendElements
    <3> HIDE DEF e
    <3> QED
      BY <1>0, <1>1, <2>3, <3>1, <3>2 DEF ReleaseMeansClosed
  <2>4. CASE ConnRequest(c)
    <3>1. Head(wire[c]) \in Line /\ Head(wire[c]) # "RELEASE"
      BY <2>4 DEF ConnRequest
    <3> QED
      BY <2>2, <2>3, <2>4, <3>1 DEF ConnRequest
  <2>5. CASE ConnRelease(c) \/ ConnEof(c)
    <3>1. phase[c] = "closed"
      <4>1. ConnRelease(c) => 1 \in DOMAIN wire[c] /\ wire[c][1] = "RELEASE"
        BY DEF ConnRelease
      <4> QED
        BY <2>5, <4>1 DEF ConnEof, ReleaseMeansClosed
    <3>2. "RELEASE" \in Line
      BY DEF Line
    <3>3. chan' = chan \/ chan' = Append(chan, [op |-> "RELEASE", id |-> c])
      BY <2>5 DEF ConnRelease, ConnEof
    <3> QED
      BY <1>2, <2>2, <2>3, <3>1, <3>2, <3>3
  <2> QED
    BY <1>5, <2>4, <2>5 DEF ConnNext
<1>6. ASSUME NEW c \in Client,
             WorkerAcquire(c) \/ WorkerTryAcquire(c) \/ WorkerRelease(c)
      PROVE  Chan' /\ Wire'
  <2>1. wire' = wire /\ chan # <<>> /\ chan' = Tail(chan)
    BY <1>6 DEF WorkerAcquire, WorkerTryAcquire, WorkerRelease, Receive, connVars
  <2>2. \A k \in DOMAIN chan' : k + 1 \in DOMAIN chan /\ chan'[k] = chan[k + 1]
    BY <2>1
  <2>3. Chan'
    BY <1>0, <1>1, <2>2 DEF ReleaseMeansClosed
  <2> QED
    BY <1>3, <2>1, <2>3
<1>7. ASSUME DaemonExit
      PROVE  Chan' /\ Wire'
  <2>1. chan' = <<>> /\ \A c \in Client : wire'[c] = <<>>
    BY <1>7 DEF DaemonExit
  <2> QED
    BY <2>1
<1>8. ASSUME (\E r \in Repo : JobsChange(r)) \/ UNCHANGED vars
      PROVE  Chan' /\ Wire'
  BY <1>2, <1>3, <1>8 DEF JobsChange, vars, connVars
<1> HIDE DEF Chan, Wire
<1>9. Chan' /\ Wire'
  BY <1>4, <1>5, <1>6, <1>7, <1>8 DEF Next, Worker
<1> QED
  BY <1>9 DEF ReleaseMeansClosed, Chan, Wire

(* An acquisition that has not asked is never answered. *)
LEMMA IdleStaysSilent ==
    ASSUME TypeOK, IdleIsSilent, [Next]_vars
    PROVE  IdleIsSilent'
<1> USE LaneAssumption DEF TypeOK
<1> SUFFICES ASSUME NEW d \in Client, phase'[d] = "idle"
             PROVE  inbox'[d] = <<>>
  BY DEF IdleIsSilent
<1>1. ASSUME phase[d] = "idle", inbox'[d] = inbox[d]
      PROVE  inbox'[d] = <<>>
  BY <1>1 DEF IdleIsSilent
<1>2. ASSUME NEW c \in Client, ClientNext(c)
      PROVE  inbox'[d] = <<>>
  <2>1. phase[d] = "idle" /\ d # c
    BY <1>2 DEF ClientNext, Acquire, TryAcquire, Request, ConnectFails,
       ReadGranted, ReadBusy, ReadEof, DropGuard, Kill
  <2>2. inbox'[d] = inbox[d]
    BY <1>2, <2>1 DEF ClientNext, Acquire, TryAcquire, Request, ConnectFails,
       ReadGranted, ReadBusy, ReadEof, DropGuard, Kill
  <2> QED
    BY <1>1, <2>1, <2>2
<1>3. ASSUME NEW c \in Client, ConnNext(c)
      PROVE  inbox'[d] = <<>>
  BY <1>1, <1>3 DEF ConnNext, ConnRequest, ConnRelease, ConnEof, clientVars
<1>4. ASSUME NEW c \in Client,
             WorkerAcquire(c) \/ WorkerTryAcquire(c) \/ WorkerRelease(c)
      PROVE  inbox'[d] = <<>>
  <2>1. phase[d] = "idle"
    BY <1>4 DEF WorkerAcquire, WorkerTryAcquire, WorkerRelease
  <2>2. inbox' = inbox \/ \E x : \E m : Send(x, m)
    BY <1>4 DEF WorkerAcquire, WorkerTryAcquire, WorkerRelease
  <2>3. inbox'[d] = inbox[d]
    BY <2>1, <2>2 DEF Send, Alive
  <2> QED
    BY <1>1, <2>1, <2>3
<1>5. ASSUME (\E r \in Repo : JobsChange(r)) \/ DaemonExit \/ UNCHANGED vars
      PROVE  inbox'[d] = <<>>
  BY <1>1, <1>5 DEF JobsChange, DaemonExit, vars, clientVars
<1> QED
  BY <1>2, <1>3, <1>4, <1>5 DEF Next, Worker

(* The inductive invariant behind mutual exclusion. *)
LEMMA ExclusionInductive ==
    ASSUME ExclusionInv, [Next]_vars, TypeOK'
    PROVE  ExclusionInv'
<1> USE LaneAssumption
<1>1. ReleaseMeansClosed' /\ IdleIsSilent' /\ QueuedAtHome'
  BY ReleaseStaysClosed, IdleStaysSilent, StaysAtHome DEF ExclusionInv
<1>2. ASSUME NEW c \in Client,
             WorkerAcquire(c) \/ WorkerTryAcquire(c) \/ WorkerRelease(c)
      PROVE  GrantedHolds' /\ ExclusiveGrant'
  <2>1. GrantedHolds'
    BY <1>2, WorkerKeepsGrantedHolds
  <2>2. daemon' = "up"
    BY <1>2 DEF WorkerAcquire, WorkerTryAcquire, WorkerRelease, Receive
  <2> QED
    BY <2>1, <2>2 DEF GrantedHolds, ExclusiveGrant
<1>3. ASSUME \/ \E c \in Client : ClientNext(c) \/ ConnNext(c)
             \/ \E r \in Repo : JobsChange(r)
             \/ DaemonExit
             \/ UNCHANGED vars
      PROVE  GrantedHolds' /\ ExclusiveGrant'
  <2>1. \A d \in Client : Granted(d)' => Granted(d)
    BY <1>3, OnlyWorkerGrants DEF ExclusionInv
  <2>2. daemon' = "up" => daemon = "up" /\ holder' = holder
    BY <1>3 DEF ClientNext, ConnNext, Acquire, TryAcquire, Request, ConnectFails,
       ReadGranted, ReadBusy, ReadEof, DropGuard, Kill, ConnRequest, ConnRelease,
       ConnEof, JobsChange, DaemonExit, vars, laneVars
  <2> QED
    BY <2>1, <2>2 DEF GrantedHolds, ExclusiveGrant, ExclusionInv
<1>4. GrantedHolds' /\ ExclusiveGrant'
  BY <1>2, <1>3 DEF Next, Worker
<1> QED
  BY <1>1, <1>4 DEF ExclusionInv

LEMMA ExclusionStarts == Init => ExclusionInv
<1> SUFFICES ASSUME Init
             PROVE  ExclusionInv
  OBVIOUS
<1>1. TypeOK
  BY LaneAssumption DEF Init, TypeOK, Phase
<1>2. \A c \in Client : ~Granted(c)
  BY DEF Init, Granted
<1>3. chan = <<>> /\ (\A c \in Client : wire[c] = <<>>) /\ (\A r \in Repo : queue[r] = <<>>)
  BY DEF Init
<1>4. IdleIsSilent
  BY DEF Init, IdleIsSilent
<1> QED
  BY <1>1, <1>2, <1>3, <1>4
  DEF ExclusionInv, QueuedAtHome, ReleaseMeansClosed, GrantedHolds, ExclusiveGrant

LEMMA ExclusionAlways == Spec => []ExclusionInv
<1>1. ExclusionInv /\ [Next]_vars /\ TypeOK' => ExclusionInv'
  BY ExclusionInductive
<1> QED
  BY <1>1, ExclusionStarts, TypeCorrect, PTL DEF Spec

(* At any moment at most one live acquisition per repository has the lane:  *)
(* "sole writer the daemon has granted" (lock.rs), for any number of        *)
(* clients and repositories, crashes and the end of the daemon included.    *)
THEOREM Exclusion == Spec => []ExclusiveGrant
<1>1. ExclusionInv => ExclusiveGrant
  BY DEF ExclusionInv
<1> QED
  BY <1>1, ExclusionAlways, PTL

-----------------------------------------------------------------------------
(* The worker's lane and the clients agree. *)

FreeIsEmpty == \A r \in Repo : holder[r] = NoClient => queue[r] = <<>>

(* A lane becomes free only with an empty queue, and nobody queues behind a *)
(* free one.                                                                *)
LEMMA FreeStaysEmpty ==
    ASSUME TypeOK, FreeIsEmpty, [Next]_vars
    PROVE  FreeIsEmpty'
<1> USE LaneAssumption DEF TypeOK, FreeIsEmpty
<1>1. ASSUME UNCHANGED laneVars PROVE FreeIsEmpty'
  BY <1>1 DEF laneVars
<1>2. ASSUME NEW c \in Client, ClientNext(c) \/ ConnNext(c) PROVE FreeIsEmpty'
  BY <1>1, <1>2 DEF ClientNext, ConnNext, Acquire, TryAcquire, Request, ConnectFails,
     ReadGranted, ReadBusy, ReadEof, DropGuard, Kill, ConnRequest, ConnRelease, ConnEof
<1>3. ASSUME (\E r \in Repo : JobsChange(r)) \/ UNCHANGED vars PROVE FreeIsEmpty'
  BY <1>1, <1>3 DEF JobsChange, vars
<1>4. CASE DaemonExit
  BY <1>4 DEF DaemonExit
<1>5. ASSUME NEW c \in Client, WorkerAcquire(c) PROVE FreeIsEmpty'
  BY <1>5 DEF WorkerAcquire
<1>6. ASSUME NEW c \in Client, WorkerTryAcquire(c) PROVE FreeIsEmpty'
  BY <1>6 DEF WorkerTryAcquire
<1>7. ASSUME NEW c \in Client, WorkerRelease(c) PROVE FreeIsEmpty'
  <2> DEFINE r == RepoOf[c]
  <2>1. CASE queue[r] # <<>> /\ holder' = [holder EXCEPT ![r] = Head(queue[r])] /\ queue' = [queue EXCEPT ![r] = Tail(@)]
    <3>1. r \in Repo /\ queue[r] \in Seq(Client)
      OBVIOUS
    <3>2. Head(queue[r]) # NoClient
      BY <2>1, <3>1, TailElements
    <3> QED BY <2>1, <3>2
  <2>2. CASE queue[r] = <<>> /\ holder' = [holder EXCEPT ![r] = NoClient] /\ UNCHANGED queue
    BY <2>2
  <2>3. CASE queue' = [queue EXCEPT ![r] = Retain(@, c)] /\ UNCHANGED holder
    <3>1. r \in Repo /\ queue[r] \in Seq(Client)
      OBVIOUS
    <3>2. queue[r] = <<>> => Retain(queue[r], c) = <<>>
      BY DEF Retain
    <3> QED BY <2>3, <3>1, <3>2
  <2> QED BY <1>7, <2>1, <2>2, <2>3 DEF WorkerRelease
<1> QED
  BY <1>2, <1>3, <1>4, <1>5, <1>6, <1>7 DEF Next, Worker

(* As long as the daemon lives, a client that was granted the lane is its   *)
(* holder in the worker's books, and nobody is queued behind a free lane:   *)
(* what the clients believe and what worker_loop decides by never part.     *)
THEOREM BooksAgree == Spec => []LaneMatchesClients
<1>1. Init => FreeIsEmpty
  BY DEF Init, FreeIsEmpty
<1>2. TypeOK /\ FreeIsEmpty /\ [Next]_vars => FreeIsEmpty'
  BY FreeStaysEmpty
<1>3. ExclusionInv /\ FreeIsEmpty => LaneMatchesClients
  BY DEF ExclusionInv, GrantedHolds, FreeIsEmpty, LaneMatchesClients
<1> QED
  BY <1>1, <1>2, <1>3, ExclusionAlways, TypeCorrect, PTL DEF Spec

-----------------------------------------------------------------------------
(* Nobody wedges a lane. *)

Requests == {"ACQUIRE", "TRYACQUIRE"}

(* A request on its way to the worker: in the socket, or on the channel. *)
OnWire(c) == \E k \in DOMAIN wire[c] : wire[c][k] \in Requests
OnChan(c) == \E k \in DOMAIN chan : chan[k].op \in Requests /\ chan[k].id = c

(* In the worker's books. *)
Listed(c) == \E r \in Repo : holder[r] = c \/ c \in Elements(queue[r])

(* An acquisition asks once: its request is in at most one place, and in    *)
(* that place once.                                                         *)
AskedOnce ==
    /\ \A c \in Client : phase[c] = "idle" => wire[c] = <<>> /\ c \notin held /\ ~OnChan(c) /\ ~Listed(c)
    /\ \A c \in Client : OnWire(c) => ~OnChan(c) /\ ~Listed(c)
    /\ \A c \in Client : OnChan(c) => ~Listed(c)
    /\ \A c \in Client : \A k \in DOMAIN wire[c] : wire[c][k] \in Requests => k = 1
    /\ \A i, k \in DOMAIN chan :
          chan[i].op \in Requests /\ chan[k].op \in Requests /\ chan[i].id = chan[k].id => i = k

(* Nobody is twice in a lane, and each is in the lane of his repository. *)
LanesInOrder ==
    \A r \in Repo :
        /\ Distinct(queue[r])
        /\ holder[r] \notin Elements(queue[r])
        /\ holder[r] # NoClient => RepoOf[holder[r]] = r
        /\ \A c \in Elements(queue[r]) : RepoOf[c] = r

Release(c) == [op |-> "RELEASE", id |-> c]

(* Whoever is in the books, or will be when the worker comes to his         *)
(* request, has a release that comes after it.                              *)
ReleaseFollows ==
    /\ \A c \in Client : Listed(c) => ReleaseComing(c)
    /\ \A c \in Client : \A k \in DOMAIN chan :
          chan[k].op \in Requests /\ chan[k].id = c =>
             c \in held \/ \E m \in DOMAIN chan : m > k /\ chan[m] = Release(c)

WedgeInv == AskedOnce /\ LanesInOrder /\ ReleaseFollows

LEMMA ChanTyped ==
    ASSUME TypeOK
    PROVE  \A k \in DOMAIN chan : chan[k].id \in Client /\ chan[k].op \in Line /\ k \in Nat
<1>1. \A k \in DOMAIN chan : chan[k] \in Cmd /\ k \in Nat
  BY DEF TypeOK
<1> QED BY <1>1 DEF Cmd

(* Steps that move no line, no command and nobody in the books. *)
LEMMA WedgeIdleStep ==
    ASSUME TypeOK, WedgeInv, UNCHANGED <<connVars, chan, laneVars>>,
           \A c \in Client : phase'[c] = "idle" => phase[c] = "idle"
    PROVE  WedgeInv'
BY DEF WedgeInv, AskedOnce, LanesInOrder, ReleaseFollows, OnWire, OnChan, Listed, ReleaseComing,
       connVars, laneVars

LEMMA WedgeClient ==
    ASSUME TypeOK, WedgeInv, NEW c \in Client, ClientNext(c)
    PROVE  WedgeInv'
<1> USE DEF TypeOK
<1>1. CASE ConnectFails(c) \/ ReadGranted(c) \/ ReadBusy(c) \/ ReadEof(c) \/ Kill(c)
  <2>1. UNCHANGED <<connVars, chan, laneVars>>
    BY <1>1 DEF ConnectFails, ReadGranted, ReadBusy, ReadEof, Kill
  <2>2. \A d \in Client : phase'[d] = "idle" => phase[d] = "idle"
    BY <1>1 DEF ConnectFails, ReadGranted, ReadBusy, ReadEof, Kill
  <2> QED BY <2>1, <2>2, WedgeIdleStep
<1>2. CASE Acquire(c) \/ TryAcquire(c)
  <2>1. PICK verb \in Requests : wire' = [wire EXCEPT ![c] = Append(@, verb)]
    BY <1>2 DEF Acquire, TryAcquire, Request, Requests
  <2>2. /\ phase[c] = "idle" /\ phase'[c] # "idle"
        /\ \A d \in Client : d # c => phase'[d] = phase[d]
        /\ UNCHANGED <<held, chan, laneVars>>
    BY <1>2 DEF Acquire, TryAcquire, Request
  <2>3. wire[c] = <<>> /\ c \notin held /\ ~OnChan(c) /\ ~Listed(c)
    BY <2>2 DEF WedgeInv, AskedOnce
  <2>4. wire'[c] = <<verb>> /\ \A d \in Client : d # c => wire'[d] = wire[d]
    BY <2>1, <2>3
  <2>5. \A d \in Client : Listed(d)' = Listed(d) /\ OnChan(d)' = OnChan(d) /\ ReleaseComing(d)' = ReleaseComing(d)
    BY <2>2 DEF Listed, OnChan, ReleaseComing, laneVars
  <2>6. \A d \in Client : d # c => OnWire(d)' = OnWire(d)
    BY <2>4 DEF OnWire
  <2>7. AskedOnce'
    <3>1. \A k \in DOMAIN wire'[c] : k = 1
      BY <2>4
    <3>2. chan' = chan /\ held' = held
      BY <2>2
    <3> QED BY <2>2, <2>3, <2>4, <2>5, <2>6, <3>1, <3>2 DEF WedgeInv, AskedOnce
  <2>8. LanesInOrder' /\ ReleaseFollows'
    BY <2>2, <2>5 DEF WedgeInv, LanesInOrder, ReleaseFollows, laneVars
  <2> QED BY <2>7, <2>8 DEF WedgeInv
<1>3. CASE DropGuard(c)
  <2>1. /\ phase[c] # "idle" /\ phase'[c] # "idle"
        /\ \A d \in Client : d # c => phase'[d] = phase[d] /\ wire'[d] = wire[d]
        /\ UNCHANGED <<held, chan, laneVars>>
    BY <1>3 DEF DropGuard
  <2>2. \A k \in DOMAIN wire'[c] : wire'[c][k] \in Requests => k \in DOMAIN wire[c] /\ wire[c][k] \in Requests
    <3>1. CASE wire'[c] = wire[c]
      BY <3>1
    <3>2. CASE wire'[c] = Append(wire[c], "RELEASE")
      <4>1. "RELEASE" \in Line /\ wire[c] \in Seq(Line)
        BY DEF Line
      <4> QED BY <3>2, <4>1, AppendElements DEF Requests
    <3> QED BY <1>3, <3>1, <3>2 DEF DropGuard
  <2>3. \A d \in Client : Listed(d)' = Listed(d) /\ OnChan(d)' = OnChan(d) /\ ReleaseComing(d)' = ReleaseComing(d)
    BY <2>1 DEF Listed, OnChan, ReleaseComing, laneVars
  <2>4. \A d \in Client : OnWire(d)' => OnWire(d)
    BY <2>1, <2>2 DEF OnWire
  <2>5. AskedOnce'
    BY <2>1, <2>2, <2>3, <2>4 DEF WedgeInv, AskedOnce
  <2>6. LanesInOrder' /\ ReleaseFollows'
    BY <2>1, <2>3 DEF WedgeInv, LanesInOrder, ReleaseFollows, laneVars
  <2> QED BY <2>5, <2>6 DEF WedgeInv
<1> QED BY <1>1, <1>2, <1>3 DEF ClientNext

(* The line a connection thread takes from its socket. *)
LEMMA LineRead ==
    ASSUME TypeOK, WedgeInv, NEW c \in Client, wire[c] # <<>>, wire' = [wire EXCEPT ![c] = Tail(@)]
    PROVE  /\ Head(wire[c]) \in Line /\ (Head(wire[c]) \in Requests => OnWire(c))
           /\ ~OnWire(c)'
           /\ \A d \in Client : d # c => wire'[d] = wire[d] /\ OnWire(d)' = OnWire(d)
<1> USE DEF TypeOK
<1>1. wire[c] \in Seq(Line)
  OBVIOUS
<1>2. /\ 1 \in DOMAIN wire[c] /\ Head(wire[c]) = wire[c][1] /\ Head(wire[c]) \in Line
      /\ \A k \in DOMAIN Tail(wire[c]) : k + 1 \in DOMAIN wire[c] /\ Tail(wire[c])[k] = wire[c][k + 1]
  BY <1>1, TailElements
<1>3. \A k \in DOMAIN Tail(wire[c]) : k \in Nat /\ k # 0
  BY <1>1
<1>4. wire'[c] = Tail(wire[c]) /\ \A d \in Client : d # c => wire'[d] = wire[d]
  OBVIOUS
<1>5. ~OnWire(c)'
  BY <1>2, <1>3, <1>4 DEF OnWire, WedgeInv, AskedOnce
<1> QED BY <1>2, <1>4, <1>5 DEF OnWire

LEMMA WedgeConn ==
    ASSUME TypeOK, WedgeInv, NEW c \in Client, ConnNext(c)
    PROVE  WedgeInv'
<1> USE DEF TypeOK
<1>1. /\ UNCHANGED <<phase, laneVars>>
      /\ \A d \in Client : Listed(d)' = Listed(d)
  BY DEF ConnNext, ConnRequest, ConnRelease, ConnEof, clientVars, laneVars, Listed
<1>2. LanesInOrder'
  BY <1>1 DEF WedgeInv, LanesInOrder, laneVars
<1>3. \A k \in DOMAIN chan : chan[k].id \in Client /\ chan[k].op \in Line /\ k \in Nat
  BY ChanTyped
<1>4. chan \in Seq(Cmd)
  OBVIOUS
<1>5. CASE ConnRequest(c)
  <2> DEFINE e == [op |-> Head(wire[c]), id |-> c]
  <2>1. wire[c] # <<>> /\ wire' = [wire EXCEPT ![c] = Tail(@)] /\ Head(wire[c]) \in Requests
    BY <1>5 DEF ConnRequest, Requests
  <2>2. OnWire(c) /\ ~OnWire(c)' /\ \A d \in Client : d # c => wire'[d] = wire[d] /\ OnWire(d)' = OnWire(d)
    BY <2>1, LineRead
  <2>3. ~OnChan(c) /\ ~Listed(c) /\ phase[c] # "idle"
    BY <2>1, <2>2 DEF WedgeInv, AskedOnce
  <2>4. e \in Cmd /\ e.op \in Requests /\ e.id = c /\ chan' = Append(chan, e) /\ held' = held \cup {c}
    BY <1>5, <2>1, LineRead DEF ConnRequest, Cmd
  <2> HIDE DEF e
  <2>5. /\ \A k \in DOMAIN chan' : (k \in DOMAIN chan /\ chan'[k] = chan[k]) \/ (k = Len(chan) + 1 /\ chan'[k] = e)
        /\ \A k \in DOMAIN chan : k \in DOMAIN chan' /\ chan'[k] = chan[k]
    <3>1. e \in Cmd /\ chan' = Append(chan, e)
      BY <2>4
    <3> QED BY <1>4, <3>1, AppendElements
  <2>6. /\ OnChan(c)'
        /\ \A d \in Client : d # c => OnChan(d)' = OnChan(d)
    <3>1. Len(chan) + 1 \in DOMAIN chan' /\ chan'[Len(chan) + 1] = e
      BY <1>4, <2>4, AppendElements
    <3> QED BY <2>4, <2>5, <3>1 DEF OnChan
  <2>7. \A k \in DOMAIN wire'[c] : wire'[c][k] \notin Requests
    BY <2>2 DEF OnWire
  <2>8. AskedOnce'
    <3>1. \A i, k \in DOMAIN chan' :
            chan'[i].op \in Requests /\ chan'[k].op \in Requests /\ chan'[i].id = chan'[k].id => i = k
      BY <2>3, <2>4, <2>5 DEF WedgeInv, AskedOnce, OnChan
    <3> QED BY <1>1, <2>2, <2>3, <2>4, <2>6, <2>7, <3>1 DEF WedgeInv, AskedOnce
  <2>9. \A d \in Client : ReleaseComing(d) => ReleaseComing(d)'
    BY <2>4, <2>5 DEF ReleaseComing
  <2>10. ReleaseFollows'
    <3>1. ASSUME NEW d \in Client, NEW k \in DOMAIN chan', chan'[k].op \in Requests, chan'[k].id = d
          PROVE  d \in held' \/ \E m \in DOMAIN chan' : m > k /\ chan'[m] = Release(d)
      <4>1. CASE k \in DOMAIN chan /\ chan'[k] = chan[k]
        BY <2>4, <2>5, <3>1, <4>1 DEF WedgeInv, ReleaseFollows
      <4>2. CASE chan'[k] = e
        BY <2>4, <3>1, <4>2
      <4> QED BY <2>5, <4>1, <4>2
    <3> QED BY <1>1, <2>9, <3>1 DEF WedgeInv, ReleaseFollows, Release
  <2> QED BY <1>2, <2>8, <2>10 DEF WedgeInv
<1>6. CASE ConnRelease(c) \/ ConnEof(c)
  <2>1. \A d \in Client : d # c => wire'[d] = wire[d] /\ OnWire(d)' = OnWire(d)
    BY <1>6, LineRead DEF ConnRelease, ConnEof, OnWire
  <2>2. \A k \in DOMAIN wire'[c] : wire'[c][k] \notin Requests
    <3>1. CASE ConnRelease(c)
      BY <3>1, LineRead DEF ConnRelease, OnWire
    <3>2. CASE ConnEof(c)
      BY <3>2 DEF ConnEof
    <3> QED BY <1>6, <3>1, <3>2
  <2>3. phase[c] = "idle" => wire'[c] = <<>>
    BY <1>6 DEF ConnRelease, ConnEof, WedgeInv, AskedOnce
  <2>4. held' = held \ {c} /\ chan' = WithRelease(c)
    BY <1>6 DEF ConnRelease, ConnEof
  <2>5. Release(c) \in Cmd /\ Release(c).op = "RELEASE" /\ Release(c).id = c /\ "RELEASE" \notin Requests
    BY DEF Release, Cmd, Line, Requests
  <2>6. chan' = IF c \in held THEN Append(chan, Release(c)) ELSE chan
    BY <2>4 DEF Release
  <2>7. /\ \A k \in DOMAIN chan' : (k \in DOMAIN chan /\ chan'[k] = chan[k]) \/ (k = Len(chan) + 1 /\ chan'[k] = Release(c))
        /\ \A k \in DOMAIN chan : k \in DOMAIN chan' /\ chan'[k] = chan[k]
        /\ c \in held => Len(chan) + 1 \in DOMAIN chan' /\ chan'[Len(chan) + 1] = Release(c)
    <3>1. CASE c \in held
      <4>1. chan' = Append(chan, Release(c)) /\ Release(c) \in Cmd
        BY <2>5, <2>6, <3>1
      <4> QED BY <1>4, <4>1, AppendElements
    <3>2. CASE c \notin held
      BY <2>6, <3>2
    <3> QED BY <3>1, <3>2
  <2>8. \A d \in Client : OnChan(d)' = OnChan(d)
    BY <2>5, <2>7 DEF OnChan
  <2>9. AskedOnce'
    <3>1. ~OnWire(c)'
      BY <2>2 DEF OnWire
    <3>2. \A i, k \in DOMAIN chan' :
            chan'[i].op \in Requests /\ chan'[k].op \in Requests /\ chan'[i].id = chan'[k].id => i = k
      BY <2>5, <2>7 DEF WedgeInv, AskedOnce
    <3> QED BY <1>1, <2>1, <2>2, <2>3, <2>4, <2>8, <3>1, <3>2 DEF WedgeInv, AskedOnce
  <2>10. \A d \in Client : ReleaseComing(d) => ReleaseComing(d)'
    BY <2>4, <2>7 DEF ReleaseComing, Release
  <2>11. ReleaseFollows'
    <3>1. ASSUME NEW d \in Client, NEW k \in DOMAIN chan', chan'[k].op \in Requests, chan'[k].id = d
          PROVE  d \in held' \/ \E m \in DOMAIN chan' : m > k /\ chan'[m] = Release(d)
      <4>1. k \in DOMAIN chan /\ chan[k].op \in Requests /\ chan[k].id = d
        BY <2>5, <2>7, <3>1
      <4>2. k <= Len(chan) /\ k \in Nat /\ Len(chan) \in Nat
        BY <1>4, <4>1
      <4>3. CASE \E m \in DOMAIN chan : m > k /\ chan[m] = Release(d)
        BY <2>7, <4>3
      <4>4. CASE d \in held /\ d = c
        BY <2>7, <4>2, <4>4
      <4>5. CASE d \in held /\ d # c
        BY <2>4, <4>5
      <4>6. d \in held \/ \E m \in DOMAIN chan : m > k /\ chan[m] = Release(d)
        BY <4>1 DEF WedgeInv, ReleaseFollows
      <4> QED BY <4>3, <4>4, <4>5, <4>6
    <3> QED BY <1>1, <2>10, <3>1 DEF WedgeInv, ReleaseFollows
  <2> QED BY <1>2, <2>9, <2>11 DEF WedgeInv
<1> QED BY <1>5, <1>6 DEF ConnNext

(* What the channel says after the worker has taken its first command. *)
LEMMA ChanAfterReceive ==
    ASSUME TypeOK, WedgeInv, NEW c \in Client, NEW op \in Line, Receive(op, c), held' = held
    PROVE  /\ \A d \in Client : OnChan(d)' => OnChan(d)
           /\ op \in Requests => OnChan(c) /\ ~OnChan(c)' /\ ReleaseComing(c)'
           /\ \A i, k \in DOMAIN chan' :
                 chan'[i].op \in Requests /\ chan'[k].op \in Requests /\ chan'[i].id = chan'[k].id => i = k
           /\ \A d \in Client : \A k \in DOMAIN chan' :
                 chan'[k].op \in Requests /\ chan'[k].id = d =>
                    d \in held' \/ \E m \in DOMAIN chan' : m > k /\ chan'[m] = Release(d)
           /\ \A d \in Client : ReleaseComing(d) => ReleaseComing(d)' \/ (op = "RELEASE" /\ d = c)
<1> USE DEF TypeOK
<1>1. chan \in Seq(Cmd) /\ chan # <<>> /\ chan' = Tail(chan)
  BY DEF Receive
<1>2. /\ 1 \in DOMAIN chan /\ Head(chan) = chan[1]
      /\ \A k \in DOMAIN chan' : k + 1 \in DOMAIN chan /\ chan'[k] = chan[k + 1]
      /\ \A k \in DOMAIN chan : k # 1 => k - 1 \in DOMAIN chan' /\ chan'[k - 1] = chan[k]
  BY <1>1, TailElements
<1>3. \A k \in DOMAIN chan' : k \in Nat /\ k > 0
  BY <1>1
<1>4. \A k \in DOMAIN chan : k \in Nat /\ k > 0
  BY <1>1
<1>5. Head(chan) = [op |-> op, id |-> c]
  BY DEF Receive
<1>6. chan[1].op = op /\ chan[1].id = c
  BY <1>2, <1>5
<1>7. \A d \in Client : OnChan(d)' => OnChan(d)
  BY <1>2 DEF OnChan
<1>8. \A i, k \in DOMAIN chan' :
        chan'[i].op \in Requests /\ chan'[k].op \in Requests /\ chan'[i].id = chan'[k].id => i = k
  <2> SUFFICES ASSUME NEW i \in DOMAIN chan', NEW k \in DOMAIN chan',
                      chan'[i].op \in Requests, chan'[k].op \in Requests, chan'[i].id = chan'[k].id
               PROVE  i = k
    OBVIOUS
  <2>1. /\ i + 1 \in DOMAIN chan /\ chan[i + 1] = chan'[i]
        /\ k + 1 \in DOMAIN chan /\ chan[k + 1] = chan'[k]
    BY <1>2
  <2>2. i + 1 = k + 1
    BY <2>1 DEF WedgeInv, AskedOnce
  <2> QED BY <1>3, <2>2
<1>9. ASSUME NEW d \in Client, NEW k \in DOMAIN chan, chan[k].op \in Requests, chan[k].id = d
      PROVE  d \in held' \/ \E m \in DOMAIN chan' : m > k - 1 /\ chan'[m] = Release(d)
  <2>1. CASE d \in held
    BY <2>1
  <2>2. CASE d \notin held
    <3>1. PICK m \in DOMAIN chan : m > k /\ chan[m] = Release(d)
      BY <1>9, <2>2 DEF WedgeInv, ReleaseFollows
    <3>2. m - 1 \in DOMAIN chan' /\ chan'[m - 1] = Release(d) /\ m - 1 > k - 1
      BY <1>2, <1>4, <3>1
    <3> QED BY <3>2
  <2> QED BY <2>1, <2>2
<1>10. ASSUME NEW d \in Client, NEW k \in DOMAIN chan', chan'[k].op \in Requests, chan'[k].id = d
       PROVE  d \in held' \/ \E m \in DOMAIN chan' : m > k /\ chan'[m] = Release(d)
  <2>1. k + 1 \in DOMAIN chan /\ chan[k + 1].op \in Requests /\ chan[k + 1].id = d /\ (k + 1) - 1 = k
    BY <1>2, <1>3, <1>10
  <2> QED BY <1>9, <2>1
<1>11. ASSUME op \in Requests PROVE OnChan(c) /\ ~OnChan(c)' /\ ReleaseComing(c)'
  <2>1. OnChan(c)
    BY <1>2, <1>6, <1>11 DEF OnChan
  <2>2. ~OnChan(c)'
    <3> SUFFICES ASSUME NEW k \in DOMAIN chan', chan'[k].op \in Requests, chan'[k].id = c PROVE FALSE
      BY DEF OnChan
    <3>1. k + 1 \in DOMAIN chan /\ chan[k + 1].op \in Requests /\ chan[k + 1].id = c /\ k + 1 # 1
      BY <1>2, <1>3
    <3> QED BY <1>2, <1>6, <1>11, <3>1 DEF WedgeInv, AskedOnce
  <2>3. c \in held' \/ \E m \in DOMAIN chan' : chan'[m] = Release(c)
    BY <1>2, <1>6, <1>9, <1>11
  <2> QED BY <2>1, <2>2, <2>3 DEF ReleaseComing, Release
<1>12. ASSUME NEW d \in Client, ReleaseComing(d), ~(op = "RELEASE" /\ d = c) PROVE ReleaseComing(d)'
  <2>1. CASE d \in held
    BY <2>1 DEF ReleaseComing
  <2>2. CASE d \notin held
    <3>1. PICK k \in DOMAIN chan : chan[k] = Release(d)
      BY <1>12, <2>2 DEF ReleaseComing, Release
    <3>2. k # 1
      BY <1>6, <1>12, <3>1 DEF Release
    <3>3. k - 1 \in DOMAIN chan' /\ chan'[k - 1] = Release(d)
      BY <1>2, <3>1, <3>2
    <3> QED BY <3>3 DEF ReleaseComing, Release
  <2> QED BY <2>1, <2>2
<1> QED BY <1>7, <1>8, <1>10, <1>11, <1>12

(* What the worker's books say after a step. *)
LEMMA BooksAfterAcquire ==
    ASSUME TypeOK, LanesInOrder, NEW c \in Client, WorkerAcquire(c) \/ WorkerTryAcquire(c), ~Listed(c)
    PROVE  LanesInOrder' /\ \A d \in Client : Listed(d)' => Listed(d) \/ d = c
<1> USE LaneAssumption DEF TypeOK
<1> DEFINE r == RepoOf[c]
<1>1. r \in Repo /\ queue[r] \in Seq(Client)
  OBVIOUS
<1>2. CASE holder[r] = NoClient /\ holder' = [holder EXCEPT ![r] = c] /\ queue' = queue
  BY <1>1, <1>2 DEF LanesInOrder, Listed
<1>3. CASE holder' = holder /\ queue' = queue
  BY <1>3 DEF LanesInOrder, Listed
<1>4. CASE holder[r] # NoClient /\ holder' = holder /\ queue' = [queue EXCEPT ![r] = Append(@, c)]
  <2>1. queue'[r] = Append(queue[r], c) /\ \A x \in Repo : x # r => queue'[x] = queue[x]
    BY <1>1, <1>4
  <2>2. c \notin Elements(queue[r]) /\ holder[r] # c
    BY <1>1 DEF Listed
  <2>3. Elements(queue'[r]) = Elements(queue[r]) \cup {c} /\ Distinct(queue'[r])
    BY <1>1, <2>1, <2>2, AppendDistinct DEF LanesInOrder
  <2> QED BY <1>1, <1>4, <2>1, <2>2, <2>3 DEF LanesInOrder, Listed
<1> QED BY <1>2, <1>3, <1>4 DEF WorkerAcquire, WorkerTryAcquire

LEMMA BooksAfterRelease ==
    ASSUME TypeOK, LanesInOrder, NEW c \in Client, WorkerRelease(c)
    PROVE  LanesInOrder' /\ \A d \in Client : Listed(d)' => Listed(d) /\ d # c
<1> USE LaneAssumption DEF TypeOK
<1> DEFINE r == RepoOf[c]
<1>1. r \in Repo /\ queue[r] \in Seq(Client) /\ Distinct(queue[r]) /\ holder[r] \notin Elements(queue[r])
  BY DEF LanesInOrder
<1>2. \A x \in Repo : x # r => holder[x] # c /\ c \notin Elements(queue[x])
  BY DEF LanesInOrder
<1>3. CASE holder[r] = c /\ queue[r] # <<>> /\ holder' = [holder EXCEPT ![r] = Head(queue[r])]
           /\ queue' = [queue EXCEPT ![r] = Tail(@)]
  <2>1. /\ queue'[r] = Tail(queue[r]) /\ holder'[r] = Head(queue[r])
        /\ \A x \in Repo : x # r => queue'[x] = queue[x] /\ holder'[x] = holder[x]
    BY <1>1, <1>3
  <2>2. Distinct(queue'[r]) /\ Elements(queue'[r]) = Elements(queue[r]) \ {Head(queue[r])}
    BY <1>1, <1>3, <2>1, TailDistinct
  <2>3. Head(queue[r]) \in Elements(queue[r])
    BY <1>1, <1>3, TailElements DEF Elements
  <2> QED BY <1>1, <1>2, <1>3, <2>1, <2>2, <2>3 DEF LanesInOrder, Listed
<1>4. CASE holder[r] = c /\ queue[r] = <<>> /\ holder' = [holder EXCEPT ![r] = NoClient] /\ queue' = queue
  <2>1. NoClient \notin Elements(queue[r])
    BY <1>4 DEF Elements
  <2> QED BY <1>1, <1>2, <1>4, <2>1 DEF LanesInOrder, Listed
<1>5. CASE holder[r] # c /\ holder' = holder /\ queue' = [queue EXCEPT ![r] = Retain(@, c)]
  <2>1. queue'[r] = Retain(queue[r], c) /\ \A x \in Repo : x # r => queue'[x] = queue[x]
    BY <1>1, <1>5
  <2>2. Distinct(queue'[r]) /\ Elements(queue'[r]) = Elements(queue[r]) \ {c}
    BY <1>1, <2>1, RetainDistinct
  <2> QED BY <1>1, <1>2, <1>5, <2>1, <2>2 DEF LanesInOrder, Listed
<1> QED BY <1>3, <1>4, <1>5 DEF WorkerRelease

LEMMA WedgeWorker ==
    ASSUME TypeOK, WedgeInv, NEW c \in Client,
           WorkerAcquire(c) \/ WorkerTryAcquire(c) \/ WorkerRelease(c)
    PROVE  WedgeInv'
<1>1. UNCHANGED <<phase, wire, held>>
  BY DEF WorkerAcquire, WorkerTryAcquire, WorkerRelease, connVars
<1>2. \A d \in Client : OnWire(d)' = OnWire(d)
  BY <1>1 DEF OnWire
<1>3. ASSUME NEW op \in Line, Receive(op, c), LanesInOrder',
             \A d \in Client : Listed(d)' => (Listed(d) /\ ~(op = "RELEASE" /\ d = c)) \/ (d = c /\ op \in Requests)
      PROVE  WedgeInv'
  <2>1. op \in Requests => OnChan(c) /\ ~OnChan(c)' /\ ~OnWire(c) /\ phase[c] # "idle"
    BY <1>1, <1>3, ChanAfterReceive DEF WedgeInv, AskedOnce
  <2>2. AskedOnce'
    BY <1>1, <1>2, <1>3, <2>1, ChanAfterReceive DEF WedgeInv, AskedOnce
  <2>3. ReleaseFollows'
    BY <1>1, <1>3, ChanAfterReceive DEF WedgeInv, ReleaseFollows
  <2> QED BY <1>3, <2>2, <2>3 DEF WedgeInv
<1>4. CASE WorkerAcquire(c) \/ WorkerTryAcquire(c)
  <2>1. PICK op \in Requests : Receive(op, c)
    BY <1>4 DEF WorkerAcquire, WorkerTryAcquire, Requests
  <2>2. op \in Line /\ op # "RELEASE"
    BY DEF Requests, Line
  <2>3. ~Listed(c)
    BY <1>1, <2>1, <2>2, ChanAfterReceive DEF WedgeInv, AskedOnce
  <2> QED BY <1>3, <1>4, <2>1, <2>2, <2>3, BooksAfterAcquire DEF WedgeInv
<1>5. CASE WorkerRelease(c)
  <2>1. Receive("RELEASE", c) /\ "RELEASE" \in Line
    BY <1>5 DEF WorkerRelease, Line
  <2> QED BY <1>3, <1>5, <2>1, BooksAfterRelease DEF WedgeInv
<1> QED BY <1>4, <1>5

LEMMA WedgeInductive ==
    ASSUME TypeOK, WedgeInv, [Next]_vars
    PROVE  WedgeInv'
<1> USE DEF TypeOK
<1>1. ASSUME (\E r \in Repo : JobsChange(r)) \/ UNCHANGED vars PROVE WedgeInv'
  <2>1. UNCHANGED <<connVars, chan, laneVars>> /\ phase' = phase
    BY <1>1 DEF JobsChange, vars, clientVars, connVars, laneVars
  <2> QED BY <2>1, WedgeIdleStep
<1>2. CASE DaemonExit
  <2>1. /\ \A c \in Client : wire'[c] = <<>>
        /\ held' = {} /\ chan' = <<>>
        /\ \A r \in Repo : holder'[r] = NoClient /\ queue'[r] = <<>>
    BY <1>2 DEF DaemonExit
  <2>2. \A c \in Client : ~OnWire(c)' /\ ~OnChan(c)' /\ ~Listed(c)'
    BY <2>1, LaneAssumption DEF OnWire, OnChan, Listed, Elements
  <2>3. AskedOnce'
    BY <2>1, <2>2 DEF AskedOnce
  <2>4. LanesInOrder'
    BY <2>1 DEF LanesInOrder, Distinct, Elements
  <2>5. ReleaseFollows'
    BY <2>1, <2>2 DEF ReleaseFollows
  <2> QED BY <2>3, <2>4, <2>5 DEF WedgeInv
<1> QED BY <1>1, <1>2, WedgeClient, WedgeConn, WedgeWorker DEF Next, Worker

LEMMA WedgeStarts == Init => WedgeInv
<1> SUFFICES ASSUME Init PROVE WedgeInv
  OBVIOUS
<1>1. /\ \A c \in Client : wire[c] = <<>>
      /\ held = {} /\ chan = <<>>
      /\ \A r \in Repo : holder[r] = NoClient /\ queue[r] = <<>>
  BY DEF Init
<1>2. \A c \in Client : ~OnWire(c) /\ ~OnChan(c) /\ ~Listed(c)
  BY <1>1, LaneAssumption DEF OnWire, OnChan, Listed, Elements
<1>3. AskedOnce
  BY <1>1, <1>2 DEF AskedOnce
<1>4. LanesInOrder
  BY <1>1 DEF LanesInOrder, Distinct, Elements
<1>5. ReleaseFollows
  BY <1>1, <1>2 DEF ReleaseFollows
<1> QED BY <1>3, <1>4, <1>5 DEF WedgeInv

LEMMA WedgeAlways == Spec => []WedgeInv
<1>1. TypeOK /\ WedgeInv /\ [Next]_vars => WedgeInv'
  BY WedgeInductive
<1> QED
  BY <1>1, WedgeStarts, TypeCorrect, PTL DEF Spec

(* "A crashed holder can never wedge its repo" (zdaemon.rs, handle_conn):   *)
(* whoever is in the worker's books, dead or alive, has a release the       *)
(* daemon will still see, for any number of clients and repositories.       *)
THEOREM NeverWedged == Spec => []NoWedge
<1>1. TypeOK /\ WedgeInv => NoWedge
  <2> SUFFICES ASSUME TypeOK, WedgeInv PROVE NoWedge
    OBVIOUS
  <2>1. \A r \in Repo : holder[r] # NoClient => holder[r] \in Client /\ Listed(holder[r])
    BY DEF TypeOK, Listed
  <2>2. \A r \in Repo : \A k \in DOMAIN queue[r] : queue[r][k] \in Client /\ Listed(queue[r][k])
    BY DEF TypeOK, Listed, Elements
  <2> QED BY <2>1, <2>2 DEF NoWedge, WedgeInv, ReleaseFollows
<1> QED
  BY <1>1, WedgeAlways, TypeCorrect, PTL

-----------------------------------------------------------------------------
(* The protocol implements LaneSpec. *)

(* Any two functions on Repo that differ at r only. *)
LEMMA LaneLineAt ==
    ASSUME TypeOK, NEW r \in Repo,
           \A x \in Repo : x # r => holder'[x] = holder[x] /\ queue'[x] = queue[x]
    PROVE  LaneLine' = [LaneLine EXCEPT ![r] = LaneLine'[r]]
BY DEF LaneLine

LEMMA LaneLineTyped ==
    ASSUME TypeOK, NEW r \in Repo
    PROVE  /\ LaneLine[r] \in Seq(Client)
           /\ holder[r] = NoClient => LaneLine[r] = <<>>
           /\ holder[r] # NoClient => LaneLine[r] = <<holder[r]>> \o queue[r]
<1>1. holder[r] # NoClient => <<holder[r]>> \o queue[r] \in Seq(Client)
  BY ConsElements DEF TypeOK
<1> QED BY <1>1 DEF LaneLine

(* LaneSpec's removal and the worker's are the same. *)
LEMMA RemovedIsRetain ==
    ASSUME NEW s \in Seq(Client), Distinct(s), NEW c \in Elements(s)
    PROVE  Abstract!Removed(s, c) = Retain(s, c)
<1> DEFINE at == CHOOSE k \in DOMAIN s : s[k] = c
<1>1. at \in DOMAIN s /\ s[at] = c
  BY DEF Elements
<1>2. Abstract!Removed(s, c) = SubSeq(s, 1, at - 1) \o SubSeq(s, at + 1, Len(s))
  BY DEF Abstract!Removed
<1> HIDE DEF at
<1> QED BY <1>1, <1>2, RetainBehind

(* An occupied lane seen by LaneSpec: its holder, then its queue. *)
LEMMA LaneLineHeld ==
    ASSUME TypeOK, LanesInOrder, NEW r \in Repo, holder[r] # NoClient
    PROVE  /\ Distinct(LaneLine[r])
           /\ Elements(LaneLine[r]) = Elements(queue[r]) \cup {holder[r]}
           /\ Head(LaneLine[r]) = holder[r]
           /\ Abstract!Removed(LaneLine[r], holder[r]) = queue[r]
           /\ \A c \in Elements(queue[r]) :
                 Abstract!Removed(LaneLine[r], c) = <<holder[r]>> \o Retain(queue[r], c)
<1>1. queue[r] \in Seq(Client) /\ holder[r] \in Client /\ Distinct(queue[r]) /\ holder[r] \notin Elements(queue[r])
  BY DEF TypeOK, LanesInOrder
<1>2. LaneLine[r] = <<holder[r]>> \o queue[r] /\ LaneLine[r] \in Seq(Client)
  BY LaneLineTyped
<1>3. Distinct(LaneLine[r]) /\ Elements(LaneLine[r]) = Elements(queue[r]) \cup {holder[r]}
  BY <1>1, <1>2, ConsDistinct
<1>4. Head(LaneLine[r]) = holder[r]
  BY <1>1, <1>2, ConsElements
<1>5. \A c \in Elements(LaneLine[r]) : Abstract!Removed(LaneLine[r], c) = Retain(LaneLine[r], c)
  BY <1>2, <1>3, RemovedIsRetain
<1>6. /\ Retain(LaneLine[r], holder[r]) = queue[r]
      /\ \A c \in Elements(queue[r]) : Retain(LaneLine[r], c) = <<holder[r]>> \o Retain(queue[r], c)
  <2> DEFINE h == holder[r]
             q == queue[r]
  <2>1. q \in Seq(Client) /\ h \in Client /\ Distinct(q) /\ h \notin Elements(q) /\ LaneLine[r] = <<h>> \o q
    BY <1>1, <1>2
  <2> HIDE DEF h, q
  <2>2. Retain(<<h>> \o q, h) = q /\ \A c \in Elements(q) : Retain(<<h>> \o q, c) = <<h>> \o Retain(q, c)
    BY <2>1, RetainCons
  <2> QED BY <2>1, <2>2 DEF h, q
<1> QED BY <1>3, <1>4, <1>5, <1>6

(* Being in the line is being in the worker's books. *)
LEMMA LaneLineListed ==
    ASSUME TypeOK, LanesInOrder, NEW c \in Client
    PROVE  /\ Abstract!InLine(c) => Listed(c)
           /\ Abstract!InLine(c) <=> c \in Elements(LaneLine[RepoOf[c]])
<1> DEFINE r == RepoOf[c]
<1>1. r \in Repo
  BY LaneAssumption
<1>2. Abstract!InLine(c) <=> c \in Elements(LaneLine[r])
  BY DEF Abstract!InLine, Elements
<1>3. CASE holder[r] = NoClient
  <2>1. LaneLine[r] = <<>>
    BY <1>1, <1>3, LaneLineTyped
  <2>2. DOMAIN LaneLine[r] = {}
    BY <2>1
  <2> QED BY <1>2, <2>2 DEF Elements
<1>4. CASE holder[r] # NoClient
  <2>1. Elements(LaneLine[r]) = Elements(queue[r]) \cup {holder[r]}
    BY <1>1, <1>4, LaneLineHeld
  <2> QED BY <1>1, <1>2, <2>1 DEF Listed
<1> QED BY <1>2, <1>3, <1>4

(* What a reply changes for LaneSpec: GRANTED lets a living client in. *)
LEMMA InsideAfterSend ==
    ASSUME TypeOK, NEW c \in Client, NEW m \in Reply, Send(c, m), phase' = phase
    PROVE  /\ m = "BUSY" => Inside' = Inside
           /\ Inside' \in {Inside, Inside \cup {c}}
<1> USE DEF TypeOK
<1>1. \A d \in Client : d # c => Granted(d)' = Granted(d)
  BY DEF Send, Granted
<1>2. Granted(c) => Granted(c)'
  <2>1. CASE Alive(c)
    <3>1. inbox'[c] = Append(inbox[c], m)
      BY <2>1 DEF Send
    <3>2. \A k \in DOMAIN inbox[c] : k \in DOMAIN inbox'[c] /\ inbox'[c][k] = inbox[c][k]
      BY <3>1, AppendElements
    <3> QED BY <3>2 DEF Granted
  <2> QED BY <2>1 DEF Send, Granted
<1>3. m = "BUSY" /\ Granted(c)' => Granted(c)
  <2>1. CASE Alive(c)
    <3>1. inbox'[c] = Append(inbox[c], m)
      BY <2>1 DEF Send
    <3>2. \A k \in DOMAIN inbox'[c] :
             (k \in DOMAIN inbox[c] /\ inbox'[c][k] = inbox[c][k]) \/ inbox'[c][k] = m
      BY <3>1, AppendElements
    <3> QED BY <3>2 DEF Granted
  <2> QED BY <2>1 DEF Send, Granted
<1> QED BY <1>1, <1>2, <1>3 DEF Inside

LEMMA InsideUnchanged ==
    ASSUME UNCHANGED <<phase, inbox>>
    PROVE  Inside' = Inside
BY DEF Inside, Granted

LEMMA StepStutters ==
    ASSUME UNCHANGED <<phase, inbox, holder, queue, daemon>>
    PROVE  UNCHANGED Abstract!specVars
<1>1. Inside' = Inside
  BY InsideUnchanged
<1>2. LaneLine' = LaneLine
  BY DEF LaneLine
<1> QED BY <1>1, <1>2 DEF Abstract!specVars

(* A client's own steps leave the critical section, or are not seen. *)
LEMMA ClientImplements ==
    ASSUME TypeOK, IdleIsSilent, NEW c \in Client, ClientNext(c)
    PROVE  Abstract!Leave(c) \/ UNCHANGED Abstract!specVars
<1>1. /\ UNCHANGED <<holder, queue, daemon>>
      /\ \A d \in Client : d # c => phase'[d] = phase[d] /\ inbox'[d] = inbox[d]
  BY DEF TypeOK, ClientNext, Acquire, TryAcquire, Request, ConnectFails, ReadGranted, ReadBusy,
         ReadEof, DropGuard, Kill, laneVars
<1>2. LaneLine' = LaneLine
  BY <1>1 DEF LaneLine
<1>3. \A d \in Client : d # c => Granted(d)' = Granted(d)
  BY <1>1 DEF Granted
<1>4. Granted(c)' => Granted(c)
  BY OnlyWorkerGrants
<1>5. CASE Granted(c) /\ ~Granted(c)'
  <2>1. c \in Inside /\ Inside' = Inside \ {c}
    BY <1>3, <1>5 DEF Inside
  <2> QED BY <1>1, <1>2, <2>1 DEF Abstract!Leave
<1>6. CASE Granted(c)' <=> Granted(c)
  <2>1. Inside' = Inside
    BY <1>3, <1>6 DEF Inside
  <2> QED BY <1>1, <1>2, <2>1 DEF Abstract!specVars
<1> QED BY <1>4, <1>5, <1>6

(* The worker puts c at the tail of its line. *)
LEMMA JoinStep ==
    ASSUME TypeOK, LanesInOrder, FreeIsEmpty, NEW c \in Client, ~Listed(c), UNCHANGED daemon, daemon = "up",
           \/ /\ holder[RepoOf[c]] = NoClient
              /\ holder' = [holder EXCEPT ![RepoOf[c]] = c]
              /\ queue' = queue
              /\ Inside' \in {Inside, Inside \cup {c}}
           \/ /\ holder[RepoOf[c]] # NoClient
              /\ holder' = holder
              /\ queue' = [queue EXCEPT ![RepoOf[c]] = Append(@, c)]
              /\ Inside' = Inside
    PROVE  Abstract!Join(c)
<1> USE LaneAssumption DEF TypeOK
<1> DEFINE r == RepoOf[c]
<1>1. r \in Repo /\ queue[r] \in Seq(Client) /\ c # NoClient
  OBVIOUS
<1>2. ~Abstract!InLine(c)
  BY LaneLineListed
<1>3. LaneLine' = [LaneLine EXCEPT ![r] = LaneLine'[r]]
  BY <1>1, LaneLineAt
<1>4. CASE holder[r] = NoClient /\ holder' = [holder EXCEPT ![r] = c] /\ queue' = queue
           /\ Inside' \in {Inside, Inside \cup {c}}
  <2>1. LaneLine[r] = <<>> /\ queue[r] = <<>>
    BY <1>1, <1>4, LaneLineTyped DEF FreeIsEmpty
  <2>2. LaneLine'[r] = <<c>>
    <3>1. LaneLine'[r] = <<c>> \o <<>>
      BY <1>1, <1>4, <2>1 DEF LaneLine
    <3> QED BY <3>1
  <2>3. LaneLine'[r] = Append(LaneLine[r], c) /\ Abstract!HeadOf(LaneLine'[r]) = {c}
    BY <2>1, <2>2 DEF Abstract!HeadOf
  <2> QED BY <1>2, <1>3, <1>4, <2>1, <2>3 DEF Abstract!Join
<1>5. CASE holder[r] # NoClient /\ holder' = holder /\ queue' = [queue EXCEPT ![r] = Append(@, c)]
           /\ Inside' = Inside
  <2>1. LaneLine[r] = <<holder[r]>> \o queue[r] /\ LaneLine'[r] = <<holder[r]>> \o Append(queue[r], c)
    BY <1>1, <1>5 DEF LaneLine
  <2>2. holder[r] \in Client
    BY <1>1, <1>5
  <2>3. LaneLine'[r] = Append(LaneLine[r], c)
    <3> DEFINE h == holder[r]
               q == queue[r]
    <3>1. q \in Seq(Client) /\ h \in Client /\ c \in Client /\ LaneLine[r] = <<h>> \o q /\ LaneLine'[r] = <<h>> \o Append(q, c)
      BY <1>1, <2>1, <2>2
    <3> HIDE DEF h, q, r
    <3>2. <<h>> \o Append(q, c) = Append(<<h>> \o q, c)
      BY ONLY <3>1, ConsAppend, Zenon
    <3> QED BY <3>1, <3>2
  <2> QED BY <1>2, <1>3, <1>5, <2>3 DEF Abstract!Join
<1> QED BY <1>4, <1>5

(* A release takes c out of its line, or finds nothing to take. *)
LEMMA DepartStep ==
    ASSUME TypeOK, LanesInOrder, FreeIsEmpty, ReleaseMeansClosed, NEW c \in Client, WorkerRelease(c)
    PROVE  Abstract!Depart(c) \/ UNCHANGED Abstract!specVars
<1> DEFINE r == RepoOf[c]
<1>1. /\ r \in Repo /\ queue[r] \in Seq(Client) /\ c # NoClient
      /\ holder \in [Repo -> Client \cup {NoClient}] /\ queue \in [Repo -> Seq(Client)]
  BY LaneAssumption DEF TypeOK
<1>2. /\ Receive("RELEASE", c) /\ phase' = phase /\ daemon' = daemon /\ daemon = "up"
      /\ \A x \in Repo : x # r => holder'[x] = holder[x] /\ queue'[x] = queue[x]
  BY <1>1 DEF WorkerRelease, Receive
<1>3. c \notin Inside
  <2>1. 1 \in DOMAIN chan /\ chan[1].op = "RELEASE" /\ chan[1].id = c
    BY <1>2, ReceivedFirst
  <2>2. phase[c] = "closed"
    BY <2>1 DEF ReleaseMeansClosed
  <2> QED BY <2>2 DEF Inside, Granted
<1>4. LaneLine' = [LaneLine EXCEPT ![r] = LaneLine'[r]]
  BY <1>1, <1>2, LaneLineAt
<1>5. CASE holder[r] = c
  <2>1. /\ Abstract!Removed(LaneLine[r], c) = queue[r] /\ Head(LaneLine[r]) = c
        /\ Abstract!InLine(c)
    <3>1. holder[r] # NoClient
      BY <1>1, <1>5
    <3> QED BY <1>1, <1>5, <3>1, LaneLineHeld, LaneLineListed
  <2>2. CASE queue[r] = <<>> /\ holder' = [holder EXCEPT ![r] = NoClient] /\ UNCHANGED <<inbox, queue>>
    <3>1. LaneLine'[r] = queue[r] /\ Inside' = Inside
      BY <1>1, <1>2, <2>2, InsideUnchanged DEF LaneLine
    <3> QED BY <1>2, <1>3, <1>4, <2>1, <3>1 DEF Abstract!Depart
  <2>3. CASE queue[r] # <<>> /\ Send(Head(queue[r]), "GRANTED") /\ holder' = [holder EXCEPT ![r] = Head(queue[r])]
             /\ queue' = [queue EXCEPT ![r] = Tail(@)]
    <3>1. Head(queue[r]) \in Client /\ Head(queue[r]) # NoClient
      <4>1. Head(queue[r]) \in Client
        BY <1>1, <2>3, TailElements
      <4> QED BY <4>1, LaneAssumption
    <3>2. LaneLine'[r] = <<Head(queue[r])>> \o Tail(queue[r])
      BY <1>1, <2>3, <3>1 DEF LaneLine
    <3>3. <<Head(queue[r])>> \o Tail(queue[r]) = queue[r]
      BY <1>1, <2>3, HeadThenTail
    <3>4. Inside' \in {Inside, Inside \cup {Head(queue[r])}}
      BY <1>2, <2>3, <3>1, InsideAfterSend DEF Reply
    <3>5. Abstract!HeadOf(LaneLine'[r]) = {Head(queue[r])}
      BY <2>3, <3>2, <3>3 DEF Abstract!HeadOf
    <3> QED BY <1>2, <1>3, <1>4, <2>1, <3>2, <3>3, <3>4, <3>5 DEF Abstract!Depart
  <2> QED BY <1>5, <2>2, <2>3 DEF WorkerRelease
<1>6. CASE holder[r] # c
  <2>1. holder' = holder /\ inbox' = inbox /\ queue' = [queue EXCEPT ![r] = Retain(@, c)]
    BY <1>6 DEF WorkerRelease
  <2>2. Inside' = Inside
    BY <1>2, <2>1, InsideUnchanged
  <2>3. CASE c \notin Elements(queue[r])
    <3>1. Retain(queue[r], c) = queue[r]
      BY <2>3 DEF Retain, Elements
    <3>2. queue' = queue
      BY <1>1, <2>1, <3>1
    <3> QED BY <1>2, <2>1, <3>2, StepStutters
  <2>4. CASE c \in Elements(queue[r])
    <3>1. holder[r] # NoClient
      <4>1. queue[r] # <<>>
        BY <2>4 DEF Elements
      <4> QED BY <1>1, <4>1 DEF FreeIsEmpty
    <3>2. LaneLine'[r] = <<holder[r]>> \o Retain(queue[r], c)
      BY <1>1, <2>1, <3>1 DEF LaneLine
    <3>3. Abstract!Removed(LaneLine[r], c) = LaneLine'[r] /\ Head(LaneLine[r]) # c
      BY <1>1, <1>6, <2>4, <3>1, <3>2, LaneLineHeld
    <3>4. Abstract!InLine(c)
      BY <1>1, <2>4, <3>1, LaneLineHeld, LaneLineListed
    <3> QED BY <1>2, <1>3, <1>4, <2>2, <3>3, <3>4 DEF Abstract!Depart
  <2> QED BY <2>3, <2>4
<1> QED BY <1>5, <1>6

LEMMA WorkerImplements ==
    ASSUME ExclusionInv, FreeIsEmpty, WedgeInv, NEW c \in Client,
           WorkerAcquire(c) \/ WorkerTryAcquire(c) \/ WorkerRelease(c)
    PROVE  Abstract!Join(c) \/ Abstract!Depart(c) \/ UNCHANGED Abstract!specVars
<1>1. TypeOK /\ LanesInOrder /\ ReleaseMeansClosed
  BY DEF ExclusionInv, WedgeInv
<1>2. ASSUME NEW op \in Requests, Receive(op, c) PROVE ~Listed(c)
  <2>1. OnChan(c)
    BY <1>1, <1>2, ReceivedFirst DEF OnChan
  <2> QED BY <2>1 DEF WedgeInv, AskedOnce
<1>3. CASE WorkerAcquire(c)
  <2>1. Receive("ACQUIRE", c) /\ daemon = "up" /\ daemon' = daemon /\ phase' = phase
    BY <1>3 DEF WorkerAcquire, Receive
  <2>2. ~Listed(c)
    BY <1>2, <2>1 DEF Requests
  <2>3. Send(c, "GRANTED") => Inside' \in {Inside, Inside \cup {c}}
    BY <1>1, <2>1, InsideAfterSend DEF Reply
  <2>4. inbox' = inbox => Inside' = Inside
    BY <2>1, InsideUnchanged
  <2> QED BY <1>1, <1>3, <2>1, <2>2, <2>3, <2>4, JoinStep DEF WorkerAcquire
<1>4. CASE WorkerTryAcquire(c)
  <2>1. Receive("TRYACQUIRE", c) /\ daemon = "up" /\ daemon' = daemon /\ phase' = phase /\ queue' = queue
    BY <1>4 DEF WorkerTryAcquire, Receive
  <2>2. ~Listed(c)
    BY <1>2, <2>1 DEF Requests
  <2>3. CASE holder[RepoOf[c]] = NoClient /\ Send(c, "GRANTED") /\ holder' = [holder EXCEPT ![RepoOf[c]] = c]
    <3>1. Inside' \in {Inside, Inside \cup {c}}
      BY <1>1, <2>1, <2>3, InsideAfterSend DEF Reply
    <3> QED BY <1>1, <2>1, <2>2, <2>3, <3>1, JoinStep
  <2>4. CASE Send(c, "BUSY") /\ holder' = holder
    <3>1. Inside' = Inside
      BY <1>1, <2>1, <2>4, InsideAfterSend DEF Reply
    <3>2. LaneLine' = LaneLine
      BY <2>1, <2>4 DEF LaneLine
    <3> QED BY <2>1, <3>1, <3>2 DEF Abstract!specVars
  <2> QED BY <1>4, <2>3, <2>4 DEF WorkerTryAcquire
<1>5. CASE WorkerRelease(c)
  BY <1>1, <1>5, DepartStep
<1> QED BY <1>3, <1>4, <1>5

LEMMA CollapseStep ==
    ASSUME DaemonExit
    PROVE  Abstract!Collapse
<1>1. LaneLine' = [r \in Repo |-> <<>>]
  BY DEF DaemonExit, LaneLine
<1>2. Inside' = Inside
  BY InsideUnchanged DEF DaemonExit, clientVars
<1> QED BY <1>1, <1>2 DEF Abstract!Collapse, DaemonExit

(* First come, first served, and only the head of the line inside: every    *)
(* step of clients, sockets, connection threads, channel and worker is a    *)
(* step of LaneSpec or is not seen by it, for any number of acquisitions    *)
(* and repositories.                                                        *)
THEOREM Refinement == Spec => ImplementsLaneSpec
<1>1. Init => Abstract!SpecInit
  <2> SUFFICES ASSUME Init PROVE Abstract!SpecInit
    OBVIOUS
  <2>1. LaneLine = [r \in Repo |-> <<>>]
    BY DEF Init, LaneLine
  <2>2. Inside = {}
    BY DEF Init, Inside, Granted
  <2> QED BY <2>1, <2>2 DEF Init, Abstract!SpecInit
<1>2. ExclusionInv /\ FreeIsEmpty /\ WedgeInv /\ [Next]_vars => [Abstract!SpecNext]_(Abstract!specVars)
  <2> SUFFICES ASSUME ExclusionInv, FreeIsEmpty, WedgeInv, [Next]_vars
               PROVE  [Abstract!SpecNext]_(Abstract!specVars)
    OBVIOUS
  <2>1. ASSUME NEW c \in Client, ClientNext(c) PROVE Abstract!SpecNext \/ UNCHANGED Abstract!specVars
    BY <2>1, ClientImplements DEF ExclusionInv, Abstract!SpecNext
  <2>2. ASSUME NEW c \in Client, ConnNext(c) PROVE UNCHANGED Abstract!specVars
    BY <2>2, StepStutters DEF ConnNext, ConnRequest, ConnRelease, ConnEof, clientVars, laneVars
  <2>3. CASE Worker
    BY <2>3, WorkerImplements DEF Worker, Abstract!SpecNext
  <2>4. CASE (\E r \in Repo : JobsChange(r)) \/ UNCHANGED vars
    BY <2>4, StepStutters DEF JobsChange, clientVars, laneVars, vars
  <2>5. CASE DaemonExit
    BY <2>5, CollapseStep DEF Abstract!SpecNext
  <2> QED BY <2>1, <2>2, <2>3, <2>4, <2>5 DEF Next
<1>3. Init => FreeIsEmpty
  BY DEF Init, FreeIsEmpty
<1>4. TypeOK /\ FreeIsEmpty /\ [Next]_vars => FreeIsEmpty'
  BY FreeStaysEmpty
<1> QED
  BY <1>1, <1>2, <1>3, <1>4, ExclusionAlways, WedgeAlways, TypeCorrect, PTL
  DEF Spec, ImplementsLaneSpec, Abstract!LaneSpecification

=============================================================================
