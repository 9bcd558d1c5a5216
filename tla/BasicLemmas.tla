---------------------------- MODULE BasicLemmas -----------------------------
(***************************************************************************)
(* What the proofs need to know of the sequences that queues and histories *)
(* are modelled with, and of sets of naturals.                             *)
(***************************************************************************)
EXTENDS Integers, Sequences, SequencesExt, SequenceTheorems, WellFoundedInduction,
        NaturalsInduction, TLAPS

(* Removing an entry moves the later ones up.                               *)
LEMMA RemovingShifts ==
    ASSUME NEW S, NEW s \in Seq(S), NEW i \in DOMAIN s
    PROVE  /\ RemoveAt(s, i) \in Seq(S) /\ Len(RemoveAt(s, i)) = Len(s) - 1
           /\ \A k \in 1 .. Len(RemoveAt(s, i)) : RemoveAt(s, i)[k] = s[IF k < i THEN k ELSE k + 1]
<1> DEFINE front == SubSeq(s, 1, i - 1)
           back == SubSeq(s, i + 1, Len(s))
<1>1. i \in 1 .. Len(s) /\ Len(s) \in Nat /\ \A j \in 1 .. Len(s) : s[j] \in S
  OBVIOUS
<1>2. front \in Seq(S) /\ Len(front) = i - 1 /\ \A k \in 1 .. i - 1 : front[k] = s[k]
  BY <1>1
<1>3. back \in Seq(S) /\ Len(back) = Len(s) - i /\ \A k \in 1 .. Len(s) - i : back[k] = s[i + k]
  BY <1>1
<1> HIDE DEF front, back
<1>4. /\ front \o back \in Seq(S) /\ Len(front \o back) = Len(front) + Len(back)
      /\ \A k \in 1 .. Len(front) + Len(back) :
            (front \o back)[k] = IF k <= Len(front) THEN front[k] ELSE back[k - Len(front)]
  BY <1>2, <1>3, ConcatProperties
<1> DEFINE removed == front \o back
<1> HIDE DEF removed
<1>5. /\ removed \in Seq(S) /\ Len(removed) = (i - 1) + (Len(s) - i)
      /\ \A k \in 1 .. (i - 1) + (Len(s) - i) :
            removed[k] = IF k <= i - 1 THEN front[k] ELSE back[k - (i - 1)]
  BY <1>2, <1>3, <1>4 DEF removed
<1>6. Len(removed) = Len(s) - 1
  BY <1>1, <1>5
<1>7. ASSUME NEW k \in 1 .. Len(s) - 1 PROVE removed[k] = s[IF k < i THEN k ELSE k + 1]
  <2>1. k \in 1 .. (i - 1) + (Len(s) - i)
    BY <1>1
  <2>2. CASE k < i
    <3>1. k <= i - 1 /\ k \in 1 .. i - 1
      BY <2>2, <1>1
    <3>2. removed[k] = front[k]
      BY <2>1, <3>1, <1>5
    <3>3. front[k] = s[k]
      BY <3>1, <1>2
    <3> QED
      BY <2>2, <3>2, <3>3
  <2>3. CASE ~(k < i)
    <3>1. ~(k <= i - 1) /\ k - (i - 1) \in 1 .. Len(s) - i /\ i + (k - (i - 1)) = k + 1
      BY <2>3, <1>1
    <3>2. removed[k] = back[k - (i - 1)]
      BY <2>1, <3>1, <1>5
    <3>3. back[k - (i - 1)] = s[i + (k - (i - 1))]
      BY <3>1, <1>3
    <3> QED
      BY <2>3, <3>1, <3>2, <3>3
  <2> QED
    BY <2>2, <2>3
<1>8. RemoveAt(s, i) = removed
  BY DEF RemoveAt, front, back, removed
<1> QED
  BY <1>5, <1>6, <1>7, <1>8

(* So it leaves entries that were there.                                    *)
LEMMA RemovingKeepsOthers ==
    ASSUME NEW S, NEW s \in Seq(S), NEW i \in DOMAIN s
    PROVE  /\ RemoveAt(s, i) \in Seq(S)
           /\ \A k \in DOMAIN RemoveAt(s, i) : \E j \in DOMAIN s : RemoveAt(s, i)[k] = s[j]
<1> DEFINE removed == RemoveAt(s, i)
<1>1. /\ removed \in Seq(S) /\ Len(removed) = Len(s) - 1
      /\ \A k \in 1 .. Len(removed) : removed[k] = s[IF k < i THEN k ELSE k + 1]
  BY RemovingShifts
<1> HIDE DEF removed
<1>2. i \in 1 .. Len(s) /\ Len(s) \in Nat
  OBVIOUS
<1>3. \A k \in 1 .. Len(removed) : (IF k < i THEN k ELSE k + 1) \in 1 .. Len(s)
  BY <1>1, <1>2
<1>4. \A k \in DOMAIN removed : \E j \in DOMAIN s : removed[k] = s[j]
  <2>1. DOMAIN removed = 1 .. Len(removed)
    BY <1>1
  <2>2. DOMAIN s = 1 .. Len(s)
    OBVIOUS
  <2>3. TAKE k \in DOMAIN removed
  <2>4. removed[k] = s[IF k < i THEN k ELSE k + 1]
    BY <1>1, <2>1
  <2>5. (IF k < i THEN k ELSE k + 1) \in DOMAIN s
    BY <1>3, <2>1, <2>2
  <2> QED
    BY <2>4, <2>5
<1> QED
  BY <1>1, <1>4 DEF removed

(* No element is twice in the sequence.                                     *)
NoRepetition(s) == \A i, j \in 1 .. Len(s) : s[i] = s[j] => i = j

(* A new element at the end.                                                *)
LEMMA AppendingOne ==
    ASSUME NEW S, NEW s \in Seq(S), NEW e \in S
    PROVE  /\ Append(s, e) \in Seq(S) /\ Append(s, e) # <<>>
           /\ ToSet(Append(s, e)) = ToSet(s) \cup {e}
           /\ NoRepetition(s) /\ e \notin ToSet(s) => NoRepetition(Append(s, e))
<1> DEFINE longer == Append(s, e)
<1>1. /\ longer \in Seq(S) /\ longer # <<>> /\ Len(longer) = Len(s) + 1 /\ Len(s) \in Nat
      /\ \A i \in 1 .. Len(s) : longer[i] = s[i]
      /\ longer[Len(s) + 1] = e
  OBVIOUS
<1> HIDE DEF longer
<1>2. ToSet(longer) = {longer[i] : i \in 1 .. Len(s) + 1} /\ ToSet(s) = {s[i] : i \in 1 .. Len(s)}
  BY <1>1 DEF ToSet
<1>3. \A i \in 1 .. Len(s) + 1 : i \in 1 .. Len(s) \/ i = Len(s) + 1
  BY <1>1
<1>4. 1 .. Len(s) \subseteq 1 .. Len(s) + 1 /\ Len(s) + 1 \in 1 .. Len(s) + 1
  BY <1>1
<1>5. ToSet(longer) = ToSet(s) \cup {e}
  BY <1>1, <1>2, <1>3, <1>4
<1>6. ASSUME NoRepetition(s), e \notin ToSet(s) PROVE NoRepetition(longer)
  BY <1>1, <1>2, <1>3, <1>6 DEF NoRepetition
<1> QED
  BY <1>1, <1>5, <1>6 DEF longer

(* The first element goes.                                                  *)
LEMMA DroppingFirst ==
    ASSUME NEW S, NEW s \in Seq(S), s # <<>>
    PROVE  /\ Tail(s) \in Seq(S) /\ Head(s) \in S /\ Head(s) \in ToSet(s)
           /\ ToSet(s) = ToSet(Tail(s)) \cup {Head(s)}
           /\ Len(s) = 1 => Tail(s) = <<>>
           /\ Len(s) # 1 => Tail(s) # <<>>
           /\ NoRepetition(s) => NoRepetition(Tail(s)) /\ Head(s) \notin ToSet(Tail(s))
<1> DEFINE rest == Tail(s)
<1>1. /\ rest \in Seq(S) /\ Len(s) \in Nat /\ Len(s) > 0 /\ Len(rest) = Len(s) - 1
      /\ \A i \in 1 .. Len(s) - 1 : rest[i] = s[i + 1]
      /\ Head(s) = s[1] /\ s[1] \in S
  <2>1. Len(s) \in Nat /\ Len(s) > 0
    OBVIOUS
  <2>2. rest \in Seq(S) /\ Len(rest) = Len(s) - 1
    BY HeadTailProperties
  <2>3. \A i \in 1 .. Len(s) - 1 : rest[i] = s[i + 1]
    BY <2>1, <2>2, HeadTailProperties
  <2>4. Head(s) = s[1] /\ s[1] \in S
    BY <2>1
  <2> QED
    BY <2>1, <2>2, <2>3, <2>4
<1> HIDE DEF rest
<1>2. (Len(s) = 1 => rest = <<>>) /\ (Len(s) # 1 => rest # <<>>)
  <2>1. Len(rest) = 0 <=> Len(s) = 1
    BY <1>1
  <2>2. Len(rest) = 0 <=> rest = <<>>
    BY <1>1, EmptySeq
  <2> QED
    BY <2>1, <2>2
<1>3. ToSet(rest) = {rest[i] : i \in 1 .. Len(s) - 1} /\ ToSet(s) = {s[i] : i \in 1 .. Len(s)}
  BY <1>1 DEF ToSet
<1>4. /\ \A i \in 1 .. Len(s) : i # 1 => i - 1 \in 1 .. Len(s) - 1 /\ (i - 1) + 1 = i
      /\ \A i \in 1 .. Len(s) - 1 : i + 1 \in 1 .. Len(s) /\ i + 1 # 1
      /\ 1 \in 1 .. Len(s)
  BY <1>1
<1>5. Head(s) \in ToSet(s)
  BY <1>1, <1>3, <1>4
<1>6. \A i \in 1 .. Len(s) : i # 1 => s[i] = rest[i - 1]
  BY <1>1, <1>4
<1>7. ToSet(s) = ToSet(rest) \cup {Head(s)}
  <2>1. ToSet(s) \subseteq ToSet(rest) \cup {Head(s)}
    BY <1>1, <1>3, <1>4, <1>6
  <2>2. ToSet(rest) \subseteq ToSet(s)
    BY <1>1, <1>3, <1>4
  <2> QED
    BY <1>5, <2>1, <2>2
<1>8. ASSUME NoRepetition(s) PROVE NoRepetition(rest) /\ Head(s) \notin ToSet(rest)
  <2>1. NoRepetition(rest)
    BY <1>1, <1>4, <1>8 DEF NoRepetition
  <2>2. \A i \in 1 .. Len(s) - 1 : rest[i] # Head(s)
    BY <1>1, <1>4, <1>8 DEF NoRepetition
  <2> QED
    BY <1>3, <2>1, <2>2
<1> QED
  BY <1>1, <1>2, <1>5, <1>7, <1>8 DEF rest

(* Inserting an entry keeps the others and makes room for it.               *)
LEMMA InsertingOne ==
    ASSUME NEW S, NEW s \in Seq(S), NEW e \in S, NEW i \in 1 .. Len(s) + 1
    PROVE  InsertAt(s, i, e) \in Seq(S) /\ InsertAt(s, i, e) # <<>>
<1> DEFINE front == SubSeq(s, 1, i - 1)
           back == SubSeq(s, i, Len(s))
<1>1. front \in Seq(S) /\ back \in Seq(S) /\ <<e>> \in Seq(S) /\ Len(<<e>>) = 1
  OBVIOUS
<1> HIDE DEF front, back
<1>2. front \o <<e>> \in Seq(S) /\ Len(front \o <<e>>) = Len(front) + 1
  BY <1>1, ConcatProperties
<1> DEFINE part == front \o <<e>>
<1> HIDE DEF part
<1>3. /\ part \in Seq(S) /\ Len(part) = Len(front) + 1
      /\ Len(front) \in Nat /\ Len(back) \in Nat
  BY <1>1, <1>2 DEF part
<1>4. part \o back \in Seq(S) /\ Len(part \o back) = Len(part) + Len(back)
  BY <1>1, <1>3, ConcatProperties
<1>5. part \o back # <<>>
  BY <1>3, <1>4
<1> QED
  BY <1>4, <1>5 DEF InsertAt, front, back, part

(* Removing an entry: the others stay, the last one last.                   *)
LEMMA RemovingOne ==
    ASSUME NEW S, NEW s \in Seq(S), NEW i \in DOMAIN s
    PROVE  /\ RemoveAt(s, i) \in Seq(S)
           /\ NoRepetition(s) => /\ NoRepetition(RemoveAt(s, i))
                                 /\ ToSet(RemoveAt(s, i)) = ToSet(s) \ {s[i]}
           /\ s[Len(s)] # s[i] => /\ RemoveAt(s, i) # <<>>
                                  /\ RemoveAt(s, i)[Len(RemoveAt(s, i))] = s[Len(s)]
<1> DEFINE rest == RemoveAt(s, i)
<1>1. /\ rest \in Seq(S) /\ Len(rest) = Len(s) - 1 /\ Len(s) \in Nat /\ i \in 1 .. Len(s)
      /\ \A k \in 1 .. Len(rest) : rest[k] = s[IF k < i THEN k ELSE k + 1]
  BY RemovingShifts
<1> HIDE DEF rest
<1>2. \A k \in 1 .. Len(rest) : \E j \in 1 .. Len(s) : /\ rest[k] = s[j] /\ j # i
                                                       /\ (k < i => j = k) /\ (~(k < i) => j = k + 1)
  <2> TAKE k \in 1 .. Len(rest)
  <2>1. CASE k < i
    BY <1>1, <2>1
  <2>2. CASE ~(k < i)
    <3>1. k + 1 \in 1 .. Len(s) /\ k + 1 # i /\ rest[k] = s[k + 1]
      BY <1>1, <2>2
    <3> QED
      BY <2>2, <3>1
  <2> QED
    BY <2>1, <2>2
<1>3. \A j \in 1 .. Len(s) : j # i => \E k \in 1 .. Len(rest) : rest[k] = s[j]
  <2> TAKE j \in 1 .. Len(s)
  <2>1. CASE j < i
    BY <1>1, <2>1
  <2>2. CASE j > i
    <3>1. j - 1 \in 1 .. Len(rest) /\ ~(j - 1 < i) /\ (j - 1) + 1 = j
      BY <1>1, <2>2
    <3> QED
      BY <1>1, <3>1
  <2> QED
    BY <1>1, <2>1, <2>2
<1>4. DOMAIN rest = 1 .. Len(rest) /\ DOMAIN s = 1 .. Len(s)
  BY <1>1
<1>5. ASSUME NoRepetition(s) PROVE NoRepetition(rest)
  <2> SUFFICES ASSUME NEW k \in 1 .. Len(rest), NEW l \in 1 .. Len(rest), rest[k] = rest[l]
               PROVE  k = l
    BY DEF NoRepetition
  <2>1. PICK j \in 1 .. Len(s) : rest[k] = s[j] /\ (k < i => j = k) /\ (~(k < i) => j = k + 1)
    BY <1>2
  <2>2. PICK h \in 1 .. Len(s) : rest[l] = s[h] /\ (l < i => h = l) /\ (~(l < i) => h = l + 1)
    BY <1>2
  <2>3. j = h
    BY <1>5, <2>1, <2>2 DEF NoRepetition
  <2> QED
    BY <1>1, <2>1, <2>2, <2>3
<1>6. ASSUME NoRepetition(s) PROVE ToSet(rest) = ToSet(s) \ {s[i]}
  <2>1. \A j \in 1 .. Len(s) : s[j] = s[i] => j = i
    BY <1>1, <1>6 DEF NoRepetition
  <2>2. ASSUME NEW x \in ToSet(rest) PROVE x \in ToSet(s) \ {s[i]}
    <3>1. PICK k \in 1 .. Len(rest) : x = rest[k]
      BY <1>4, <2>2 DEF ToSet
    <3>2. PICK j \in 1 .. Len(s) : x = s[j] /\ j # i
      BY <1>2, <3>1
    <3> QED
      BY <1>4, <2>1, <3>2 DEF ToSet
  <2>3. ASSUME NEW x \in ToSet(s) \ {s[i]} PROVE x \in ToSet(rest)
    <3>1. PICK j \in 1 .. Len(s) : x = s[j]
      BY <1>4, <2>3 DEF ToSet
    <3>2. PICK k \in 1 .. Len(rest) : x = rest[k]
      BY <1>3, <2>3, <3>1
    <3> QED
      BY <1>4, <3>2 DEF ToSet
  <2> QED
    BY <2>2, <2>3
<1>7. ASSUME s[Len(s)] # s[i] PROVE rest # <<>> /\ rest[Len(rest)] = s[Len(s)]
  <2> DEFINE n == Len(s)
             m == Len(rest)
  <2>1. i # n /\ m = n - 1 /\ n \in Nat /\ i \in 1 .. n
    BY <1>1, <1>7
  <2>2. m \in 1 .. m /\ ~(m < i) /\ m + 1 = n
    BY <2>1
  <2> HIDE DEF n, m
  <2>3. rest[m] = s[n]
    BY <1>1, <2>2 DEF m
  <2>4. Len(rest) # 0
    BY <2>1, <2>2 DEF m
  <2> QED
    BY <1>1, <2>3, <2>4 DEF n, m
<1> QED
  BY <1>1, <1>5, <1>6, <1>7 DEF rest

-----------------------------------------------------------------------------
(* A set of naturals that is not empty has a least element.                 *)
LEMMA LeastOfNaturals ==
    ASSUME NEW T \in SUBSET Nat, T # {}
    PROVE  \E s \in T : \A t \in T : s <= t
<1> DEFINE less == OpToRel(<, Nat)
<1>1. less = {ss \in Nat \X Nat : ss[1] < ss[2]}
  BY DEF OpToRel
<1>2. IsWellFoundedOn(less, Nat)
  BY NatLessThanWellFounded
<1>3. \A s, t \in Nat : t < s => <<t, s>> \in less
  BY <1>1
<1> HIDE DEF less
<1>4. PICK s \in T : \A t \in T : ~(<<t, s>> \in less)
  BY <1>2, WFMin
<1>5. \A t \in T : ~(t < s)
  BY <1>3, <1>4
<1> QED
  BY <1>5

(* Induction over the naturals, for the set of those that have a property.  *)
LEMMA AllNaturals ==
    ASSUME NEW T \in SUBSET Nat, 0 \in T, \A n \in T : n + 1 \in T
    PROVE  \A n \in Nat : n \in T
<1> SUFFICES ASSUME Nat \ T # {} PROVE FALSE
  OBVIOUS
<1>1. PICK s \in Nat \ T : \A t \in Nat \ T : s <= t
  BY LeastOfNaturals
<1>2. s # 0 /\ s - 1 \in Nat /\ s - 1 \in T
  BY <1>1
<1> QED
  BY <1>1, <1>2

(* A set of naturals that is bounded and not empty has a greatest element.  *)
LEMMA GreatestOfNaturals ==
    ASSUME NEW T \in SUBSET Nat, T # {}, NEW b \in Nat, \A t \in T : t <= b
    PROVE  \E s \in T : \A t \in T : t <= s
<1> DEFINE D == {d \in 0 .. b : b - d \in T}
<1>1. D \in SUBSET Nat /\ D # {}
  <2>1. PICK t \in T : TRUE
    OBVIOUS
  <2>2. t \in Nat /\ b - t \in 0 .. b /\ b - (b - t) = t
    BY <2>1
  <2> QED
    BY <2>1, <2>2
<1>2. \A t \in T : b - t \in D
  BY DEF D
<1>3. \A d \in D : d \in 0 .. b /\ b - d \in T
  OBVIOUS
<1> HIDE DEF D
<1>4. PICK d \in D : \A e \in D : d <= e
  BY <1>1, LeastOfNaturals
<1>5. \A t \in T : t <= b - d
  BY <1>2, <1>3, <1>4
<1> QED
  BY <1>3, <1>4, <1>5

(* A loop of n turns has a result.                                          *)
Turns(f, v0, step, n) == f[0] = v0 /\ \A k \in 1 .. n : f[k] = step[k][f[k - 1]]

LEMMA TurnsExist ==
    ASSUME NEW V, NEW v0 \in V, NEW n \in Nat, NEW step \in [1 .. n -> [V -> V]]
    PROVE  \E f \in [0 .. n -> V] : Turns(f, v0, step, n)
<1> DEFINE N == {m \in Nat : m <= n => \E f \in [0 .. m -> V] : Turns(f, v0, step, m)}
<1>1. 0 \in N
  <2> DEFINE f == [k \in 0 .. 0 |-> v0]
  <2>1. f \in [0 .. 0 -> V] /\ Turns(f, v0, step, 0)
    BY DEF Turns
  <2> QED
    BY <2>1
<1>2. ASSUME NEW m \in N PROVE m + 1 \in N
  <2> SUFFICES ASSUME m + 1 <= n PROVE \E f \in [0 .. m + 1 -> V] : Turns(f, v0, step, m + 1)
    OBVIOUS
  <2>1. m \in Nat /\ m <= n
    OBVIOUS
  <2>2. PICK f \in [0 .. m -> V] : Turns(f, v0, step, m)
    BY <2>1
  <2> DEFINE g == [k \in 0 .. m + 1 |-> IF k = m + 1 THEN step[m + 1][f[m]] ELSE f[k]]
  <2>3. f[m] \in V /\ m + 1 \in 1 .. n /\ step[m + 1][f[m]] \in V
    BY <2>1
  <2>4. g \in [0 .. m + 1 -> V]
    BY <2>1, <2>3
  <2>5. \A k \in 0 .. m : g[k] = f[k]
    BY <2>1
  <2>6. g[m + 1] = step[m + 1][f[m]] /\ g[m] = f[m] /\ g[0] = f[0]
    BY <2>1
  <2> HIDE DEF g
  <2>7. Turns(g, v0, step, m + 1)
    <3>1. g[0] = v0
      BY <2>2, <2>6 DEF Turns
    <3>2. ASSUME NEW k \in 1 .. m + 1 PROVE g[k] = step[k][g[k - 1]]
      <4>1. CASE k = m + 1
        <5>1. k - 1 = m
          BY <2>1, <4>1
        <5> QED
          BY <2>6, <4>1, <5>1
      <4>2. CASE k # m + 1
        <5>1. k \in 1 .. m /\ k \in 0 .. m /\ k - 1 \in 0 .. m
          BY <2>1, <4>2
        <5> QED
          BY <2>2, <2>5, <5>1 DEF Turns
      <4> QED
        BY <4>1, <4>2
    <3> QED
      BY <3>1, <3>2 DEF Turns
  <2> QED
    BY <2>4, <2>7
<1>3. n \in N
  <2>1. N \in SUBSET Nat
    OBVIOUS
  <2> HIDE DEF N
  <2> QED
    BY <1>1, <1>2, <2>1, AllNaturals
<1> QED
  BY <1>3
=============================================================================
