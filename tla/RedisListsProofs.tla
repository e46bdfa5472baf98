-------------------------- MODULE RedisListsProofs --------------------------
(***************************************************************************)
(* What the list commands do to the elements of a list without repeats:    *)
(* the facts about sequences on which the custody proofs rest.             *)
(***************************************************************************)
EXTENDS RedisLists, SequenceTheorems, WellFoundedInduction, TLAPS

\* RPUSH adds one element at the end and, if it was absent, no repeat.
LEMMA AppendIn ==
    ASSUME NEW S, NEW s \in Seq(S), NEW e \in S
    PROVE  /\ Append(s, e) \in Seq(S)
           /\ Len(Append(s, e)) = Len(s) + 1
           /\ \A f : In(Append(s, e), f) <=> In(s, f) \/ f = e
           /\ IsInjective(s) /\ ~In(s, e) => IsInjective(Append(s, e))
<1> DEFINE t == Append(s, e)
<1>1. /\ t \in Seq(S)
      /\ Len(t) = Len(s) + 1
      /\ DOMAIN t = 1 .. Len(s) + 1
      /\ \A i \in 1 .. Len(s) : t[i] = s[i]
      /\ t[Len(s) + 1] = e
  BY AppendProperties
<1>2. /\ DOMAIN s = 1 .. Len(s)
      /\ Len(s) \in Nat
  BY LenProperties
<1>3. ASSUME NEW f PROVE In(t, f) <=> In(s, f) \/ f = e
  <2>1. CASE f = e
    BY <2>1, <1>1, <1>2 DEF In
  <2>2. CASE f # e
    BY <2>2, <1>1, <1>2 DEF In
  <2> QED BY <2>1, <2>2
<1>4. ASSUME IsInjective(s), ~In(s, e) PROVE IsInjective(t)
  BY <1>1, <1>2, <1>4 DEF In, IsInjective
<1> QED BY <1>1, <1>3, <1>4

\* LREM removes exactly its element from a list without repeats.
LEMMA LRemIn ==
    ASSUME NEW S, NEW s \in Seq(S), NEW e, In(s, e), IsInjective(s)
    PROVE  /\ LRem(s, e) \in Seq(S)
           /\ Len(LRem(s, e)) = Len(s) - 1
           /\ \A f : In(LRem(s, e), f) <=> In(s, f) /\ f # e
           /\ IsInjective(LRem(s, e))
<1>1. PICK k \in DOMAIN s : s[k] = e
  BY DEF In
<1>2. /\ DOMAIN s = 1 .. Len(s)
      /\ Len(s) \in Nat
      /\ k \in 1 .. Len(s)
  BY LenProperties
<1> DEFINE I == {i \in 1 .. Len(s) : s[i] = e}
<1>3. I = {k}
  BY <1>1, <1>2 DEF IsInjective
<1>4. LRem(s, e) = RemoveAt(s, k)
  <2>1. SelectInSeq(s, LAMBDA v : v = e) = IF I # {} THEN Min(I) ELSE 0
    BY DEF SelectInSeq
  <2>2. Min(I) = k
    BY <1>2, <1>3 DEF Min
  <2>3. SelectInSeq(s, LAMBDA v : v = e) = k
    BY <1>3, <2>1, <2>2
  <2>4. \E i \in 1 .. Len(s) : s[i] = e
    BY <1>1, <1>2
  <2> QED BY <2>3, <2>4 DEF LRem, RemoveFirst
<1> DEFINE a == SubSeq(s, 1, k - 1)
           b == SubSeq(s, k + 1, Len(s))
           t == a \o b
<1>5. LRem(s, e) = t
  BY <1>4 DEF RemoveAt
<1>6. /\ a \in Seq(S)
      /\ Len(a) = k - 1
      /\ \A i \in 1 .. k - 1 : a[i] = s[i]
  BY <1>2, SubSeqProperties
<1>7. /\ b \in Seq(S)
      /\ Len(b) = Len(s) - k
      /\ \A i \in 1 .. Len(s) - k : b[i] = s[k + i]
  BY <1>2, SubSeqProperties
<1> HIDE DEF a, b
<1>8. /\ t \in Seq(S)
      /\ Len(t) = Len(s) - 1
      /\ DOMAIN t = 1 .. Len(s) - 1
      /\ \A i \in 1 .. Len(s) - 1 : t[i] = IF i < k THEN s[i] ELSE s[i + 1]
  <2>1. /\ t \in Seq(S)
        /\ Len(t) = Len(a) + Len(b)
        /\ \A i \in 1 .. Len(a) + Len(b) :
             t[i] = IF i <= Len(a) THEN a[i] ELSE b[i - Len(a)]
    BY <1>6, <1>7, ConcatProperties
  <2> HIDE DEF t
  <2>2. Len(t) = Len(s) - 1
    BY <1>2, <1>6, <1>7, <2>1
  <2>3. DOMAIN t = 1 .. Len(s) - 1
    BY <2>1, <2>2, LenProperties
  <2>4. ASSUME NEW i \in 1 .. Len(s) - 1
        PROVE  t[i] = IF i < k THEN s[i] ELSE s[i + 1]
    <3>1. t[i] = IF i <= k - 1 THEN a[i] ELSE b[i - (k - 1)]
      BY <1>2, <1>6, <1>7, <2>1, <2>4
    <3>2. CASE i < k
      BY <3>1, <3>2, <1>2, <1>6
    <3>3. CASE i >= k
      <4>1. i - (k - 1) \in 1 .. Len(s) - k
        BY <1>2, <2>4, <3>3
      <4>2. b[i - (k - 1)] = s[k + (i - (k - 1))]
        BY <1>7, <4>1
      <4>3. k + (i - (k - 1)) = i + 1
        BY <1>2, <2>4
      <4> QED BY <3>1, <3>3, <4>2, <4>3, <1>2
    <3> QED BY <3>2, <3>3, <1>2
  <2> QED BY <2>1, <2>2, <2>3, <2>4
<1> HIDE DEF t
<1>9. ASSUME NEW f PROVE In(t, f) <=> In(s, f) /\ f # e
  <2>1. ASSUME In(t, f) PROVE In(s, f) /\ f # e
    <3>1. PICK i \in 1 .. Len(s) - 1 : t[i] = f
      BY <1>8, <2>1 DEF In
    <3>2. PICK j \in 1 .. Len(s) : j # k /\ s[j] = f
      BY <1>2, <1>8, <3>1
    <3> QED BY <1>1, <1>2, <3>2 DEF In, IsInjective
  <2>2. ASSUME In(s, f), f # e PROVE In(t, f)
    <3>1. PICK j \in 1 .. Len(s) : s[j] = f
      BY <1>2, <2>2 DEF In
    <3>2. j # k
      BY <1>1, <2>2, <3>1
    <3>3. CASE j < k
      <4>1. j \in 1 .. Len(s) - 1 /\ t[j] = f
        BY <1>2, <1>8, <3>1, <3>3
      <4> QED BY <1>8, <4>1 DEF In
    <3>4. CASE j > k
      <4>1. j - 1 \in 1 .. Len(s) - 1 /\ t[j - 1] = s[(j - 1) + 1]
        BY <1>2, <1>8, <3>1, <3>4
      <4> QED BY <1>8, <3>1, <4>1 DEF In
    <3> QED BY <1>2, <3>2, <3>3, <3>4
  <2> QED BY <2>1, <2>2
<1>10. IsInjective(t)
  <2> SUFFICES ASSUME NEW i \in DOMAIN t, NEW j \in DOMAIN t, t[i] = t[j]
               PROVE  i = j
    BY DEF IsInjective
  <2> DEFINE up(n) == IF n < k THEN n ELSE n + 1
  <2>1. /\ up(i) \in 1 .. Len(s) /\ t[i] = s[up(i)]
        /\ up(j) \in 1 .. Len(s) /\ t[j] = s[up(j)]
    BY <1>2, <1>8
  <2>2. up(i) = up(j)
    BY <1>2, <2>1 DEF IsInjective
  <2> QED BY <1>2, <1>8, <2>2
<1> USE DEF t
<1> QED BY <1>5, <1>8, <1>9, <1>10

\* LMOVE ... LEFT takes the head and leaves the rest.
LEMMA TailIn ==
    ASSUME NEW S, NEW s \in Seq(S), s # <<>>
    PROVE  /\ Head(s) \in S
           /\ In(s, Head(s))
           /\ Tail(s) \in Seq(S)
           /\ Len(Tail(s)) = Len(s) - 1
           /\ IsInjective(s) =>
                /\ \A f : In(Tail(s), f) <=> In(s, f) /\ f # Head(s)
                /\ IsInjective(Tail(s))
<1> DEFINE t == Tail(s)
<1>1. /\ Len(s) \in Nat \ {0}
      /\ DOMAIN s = 1 .. Len(s)
      /\ Head(s) = s[1]
      /\ Head(s) \in S
  BY EmptySeq, LenProperties, HeadTailProperties, ElementOfSeq
<1>2. /\ t \in Seq(S)
      /\ Len(t) = Len(s) - 1
      /\ DOMAIN t = 1 .. Len(s) - 1
      /\ \A i \in 1 .. Len(s) - 1 : t[i] = s[i + 1]
  BY <1>1, HeadTailProperties, LenProperties
<1>3. In(s, Head(s))
  BY <1>1 DEF In
<1> HIDE DEF t
<1>4. ASSUME IsInjective(s)
      PROVE  /\ \A f : In(t, f) <=> In(s, f) /\ f # Head(s)
             /\ IsInjective(t)
  <2>1. ASSUME NEW f PROVE In(t, f) <=> In(s, f) /\ f # Head(s)
    <3>1. ASSUME In(t, f) PROVE In(s, f) /\ f # Head(s)
      <4>1. PICK i \in 1 .. Len(s) - 1 : t[i] = f
        BY <1>2, <3>1 DEF In
      <4>2. i + 1 \in 1 .. Len(s) /\ i + 1 # 1 /\ s[i + 1] = f
        BY <1>1, <1>2, <4>1
      <4> QED BY <1>1, <1>4, <4>2 DEF In, IsInjective
    <3>2. ASSUME In(s, f), f # Head(s) PROVE In(t, f)
      <4>1. PICK j \in 1 .. Len(s) : s[j] = f
        BY <1>1, <3>2 DEF In
      <4>2. j # 1
        BY <1>1, <3>2, <4>1
      <4>3. j - 1 \in 1 .. Len(s) - 1 /\ t[j - 1] = s[(j - 1) + 1]
        BY <1>1, <1>2, <4>2
      <4> QED BY <1>2, <4>1, <4>3 DEF In
    <3> QED BY <3>1, <3>2
  <2>2. IsInjective(t)
    <3> SUFFICES ASSUME NEW i \in DOMAIN t, NEW j \in DOMAIN t, t[i] = t[j]
                 PROVE  i = j
      BY DEF IsInjective
    <3>1. /\ i + 1 \in DOMAIN s /\ s[i + 1] = t[i]
          /\ j + 1 \in DOMAIN s /\ s[j + 1] = t[j]
      BY <1>1, <1>2
    <3>2. i + 1 = j + 1
      BY <1>4, <3>1 DEF IsInjective
    <3> QED BY <1>2, <3>2
  <2> QED BY <2>1, <2>2
<1> USE DEF t
<1> QED BY <1>1, <1>2, <1>3, <1>4

\* The stop script appends one whole list to another.
LEMMA ConcatIn ==
    ASSUME NEW S, NEW s \in Seq(S), NEW t \in Seq(S)
    PROVE  /\ s \o t \in Seq(S)
           /\ \A f : In(s \o t, f) <=> In(s, f) \/ In(t, f)
           /\ /\ IsInjective(s)
              /\ IsInjective(t)
              /\ \A f : ~(In(s, f) /\ In(t, f))
              => IsInjective(s \o t)
<1> DEFINE u == s \o t
<1>1. /\ u \in Seq(S)
      /\ Len(u) = Len(s) + Len(t)
      /\ \A i \in 1 .. Len(s) + Len(t) :
           u[i] = IF i <= Len(s) THEN s[i] ELSE t[i - Len(s)]
  BY ConcatProperties
<1> HIDE DEF u
<1>2. /\ Len(s) \in Nat /\ DOMAIN s = 1 .. Len(s)
      /\ Len(t) \in Nat /\ DOMAIN t = 1 .. Len(t)
      /\ DOMAIN u = 1 .. Len(s) + Len(t)
  BY <1>1, LenProperties
<1>3. ASSUME NEW f PROVE In(u, f) <=> In(s, f) \/ In(t, f)
  <2>1. ASSUME In(u, f) PROVE In(s, f) \/ In(t, f)
    <3>1. PICK i \in 1 .. Len(s) + Len(t) : u[i] = f
      BY <1>2, <2>1 DEF In
    <3>2. CASE i <= Len(s)
      BY <1>1, <1>2, <3>1, <3>2 DEF In
    <3>3. CASE i > Len(s)
      <4>1. i - Len(s) \in 1 .. Len(t) /\ t[i - Len(s)] = f
        BY <1>1, <1>2, <3>1, <3>3
      <4> QED BY <1>2, <4>1 DEF In
    <3> QED BY <1>2, <3>2, <3>3
  <2>2. ASSUME In(s, f) PROVE In(u, f)
    BY <1>1, <1>2, <2>2 DEF In
  <2>3. ASSUME In(t, f) PROVE In(u, f)
    <3>1. PICK j \in 1 .. Len(t) : t[j] = f
      BY <1>2, <2>3 DEF In
    <3>2. /\ Len(s) + j \in 1 .. Len(s) + Len(t)
          /\ ~(Len(s) + j <= Len(s))
          /\ (Len(s) + j) - Len(s) = j
      BY <1>2
    <3>3. u[Len(s) + j] = f
      BY <1>1, <3>1, <3>2
    <3> QED BY <1>2, <3>2, <3>3 DEF In
  <2> QED BY <2>1, <2>2, <2>3
<1>4. ASSUME IsInjective(s), IsInjective(t), \A f : ~(In(s, f) /\ In(t, f))
      PROVE  IsInjective(u)
  <2> SUFFICES ASSUME NEW i \in 1 .. Len(s) + Len(t), NEW j \in 1 .. Len(s) + Len(t),
                      u[i] = u[j]
               PROVE  i = j
    BY <1>2 DEF IsInjective
  <2> DEFINE left(n) == n <= Len(s)
  <2>1. ASSUME NEW n \in 1 .. Len(s) + Len(t)
        PROVE  /\ left(n) => n \in DOMAIN s /\ u[n] = s[n]
               /\ ~left(n) => n - Len(s) \in DOMAIN t /\ u[n] = t[n - Len(s)]
    BY <1>1, <1>2
  <2>2. CASE left(i) /\ left(j)
    BY <1>4, <2>1, <2>2 DEF IsInjective
  <2>3. CASE ~left(i) /\ ~left(j)
    <3>1. i - Len(s) = j - Len(s)
      BY <1>4, <2>1, <2>3 DEF IsInjective
    <3> QED BY <1>2, <3>1
  <2>4. CASE left(i) # left(j)
    <3>1. In(s, u[i]) /\ In(t, u[i])
      <4>1. CASE left(i) /\ ~left(j)
        BY <2>1, <4>1 DEF In
      <4>2. CASE ~left(i) /\ left(j)
        BY <2>1, <4>2 DEF In
      <4> QED BY <2>4, <4>1, <4>2
    <3> QED BY <1>4, <3>1
  <2> QED BY <2>2, <2>3, <2>4
<1> USE DEF u
<1> QED BY <1>1, <1>3, <1>4

\* LTRIM keeps a suffix: at most cap elements, none that was not there, and it
\* drops elements only from a list longer than cap.
LEMMA LTrimIn ==
    ASSUME NEW S, NEW s \in Seq(S), NEW cap \in Nat \ {0}
    PROVE  /\ LTrim(s, cap) \in Seq(S)
           /\ Len(LTrim(s, cap)) = IF Len(s) > cap THEN cap ELSE Len(s)
           /\ \A f : In(LTrim(s, cap), f) => In(s, f)
           /\ IsInjective(s) => IsInjective(LTrim(s, cap))
           /\ s # <<>> => In(LTrim(s, cap), s[Len(s)])
           /\ Len(s) <= cap => LTrim(s, cap) = s
<1>1. Len(s) \in Nat /\ DOMAIN s = 1 .. Len(s)
  BY LenProperties
<1>2. CASE Len(s) <= cap
  <2>1. LTrim(s, cap) = s
    BY <1>1, <1>2 DEF LTrim
  <2>2. s # <<>> => Len(s) \in DOMAIN s
    BY <1>1, EmptySeq
  <2>3. s # <<>> => In(s, s[Len(s)])
    BY <2>2 DEF In
  <2>4. ~(Len(s) > cap)
    BY <1>1, <1>2
  <2>5. Len(LTrim(s, cap)) = IF Len(s) > cap THEN cap ELSE Len(s)
    BY <2>1, <2>4
  <2> QED BY <2>1, <2>3, <2>5
<1>3. CASE Len(s) > cap
  <2> DEFINE m == Len(s) - cap
             t == SubSeq(s, m + 1, Len(s))
  <2>1. /\ t \in Seq(S)
        /\ Len(t) = cap
        /\ \A i \in 1 .. cap : t[i] = s[m + i]
    <3>1. m + 1 \in 1 .. Len(s) + 1 /\ Len(s) \in (m + 1) - 1 .. Len(s)
      BY <1>1, <1>3
    <3>2. /\ t \in Seq(S)
          /\ Len(t) = IF m + 1 <= Len(s) THEN Len(s) - (m + 1) + 1 ELSE 0
          /\ \A i \in 1 .. Len(s) - (m + 1) + 1 : t[i] = s[(m + 1) + i - 1]
      BY <3>1, <1>1, <1>3, SubSeqProperties
    <3> HIDE DEF t
    <3> QED BY <1>1, <1>3, <3>2
  <2>2. LTrim(s, cap) = t
    BY <1>3 DEF LTrim
  <2> HIDE DEF t
  <2>3. DOMAIN t = 1 .. cap
    BY <2>1, LenProperties
  <2>4. \A i \in 1 .. cap : m + i \in 1 .. Len(s)
    BY <1>1, <1>3
  <2>5. \A f : In(t, f) => In(s, f)
    BY <1>1, <2>1, <2>3, <2>4 DEF In
  <2>6. IsInjective(s) => IsInjective(t)
    <3> SUFFICES ASSUME IsInjective(s), NEW i \in 1 .. cap, NEW j \in 1 .. cap,
                        t[i] = t[j]
                 PROVE  i = j
      BY <2>3 DEF IsInjective
    <3>0. /\ m + i \in DOMAIN s /\ t[i] = s[m + i]
          /\ m + j \in DOMAIN s /\ t[j] = s[m + j]
      BY <1>1, <2>1, <2>4
    <3>1. m + i = m + j
      BY <3>0 DEF IsInjective
    <3> QED BY <1>1, <3>1
  <2>7. In(t, s[Len(s)])
    <3>1. t[cap] = s[m + cap] /\ m + cap = Len(s)
      BY <1>1, <2>1
    <3> QED BY <2>3, <3>1 DEF In
  <2> QED BY <1>1, <1>3, <2>1, <2>2, <2>5, <2>6, <2>7
<1> QED BY <1>1, <1>2, <1>3

\* What the head of a sequence is after an element was put in front.
LEMMA FrontFacts ==
    ASSUME NEW S, NEW s \in Seq(S), NEW e \in S
    PROVE  /\ <<e>> \o s # <<>>
           /\ Head(<<e>> \o s) = e
           /\ Tail(<<e>> \o s) = s
           /\ \A f \in S : Append(<<e>> \o s, f) = <<e>> \o Append(s, f)
<1> DEFINE t == <<e>> \o s
<1>1. /\ <<e>> \in Seq(S)
      /\ Len(<<e>>) = 1
      /\ <<e>>[1] = e
  OBVIOUS
<1>2. /\ t \in Seq(S)
      /\ Len(t) = 1 + Len(s)
      /\ \A i \in 1 .. 1 + Len(s) : t[i] = IF i <= 1 THEN <<e>>[i] ELSE s[i - 1]
  BY <1>1, ConcatProperties
<1>3. Len(s) \in Nat
  BY LenProperties
<1> HIDE DEF t
<1>4. t # <<>> /\ t[1] = e
  BY <1>1, <1>2, <1>3, EmptySeq
<1>5. Head(t) = e
  BY <1>2, <1>4, HeadTailProperties
<1>6. Tail(t) = s
  <2>1. /\ Tail(t) \in Seq(S)
        /\ Len(Tail(t)) = Len(t) - 1
        /\ \A i \in 1 .. Len(Tail(t)) : Tail(t)[i] = t[i + 1]
    BY <1>2, <1>4, HeadTailProperties
  <2>2. Len(Tail(t)) = Len(s)
    BY <1>2, <1>3, <2>1
  <2>3. \A i \in 1 .. Len(s) : Tail(t)[i] = s[i]
    BY <1>2, <1>3, <2>1, <2>2
  <2> QED BY <2>1, <2>2, <2>3, SeqEqual
<1>7. ASSUME NEW f \in S PROVE Append(t, f) = <<e>> \o Append(s, f)
  <2>1. Append(t, f) = t \o <<f>> /\ Append(s, f) = s \o <<f>>
    BY <1>2, AppendIsConcat
  <2>2. <<f>> \in Seq(S)
    OBVIOUS
  <2> QED BY <1>1, <2>1, <2>2, ConcatAssociative DEF t
<1> QED BY <1>4, <1>5, <1>6, <1>7 DEF t

\* A queue is its head in front of its tail.
LEMMA FrontBack ==
    ASSUME NEW S, NEW s \in Seq(S), s # <<>>
    PROVE  <<Head(s)>> \o Tail(s) = s
<1>1. /\ Head(s) \in S /\ Tail(s) \in Seq(S)
      /\ Len(Tail(s)) = Len(s) - 1
      /\ \A i \in 1 .. Len(Tail(s)) : Tail(s)[i] = s[i + 1]
  BY HeadTailProperties
<1>2. Len(s) \in Nat /\ Head(s) = s[1]
  BY LenProperties
<1>3. <<Head(s)>> \in Seq(S) /\ Len(<<Head(s)>>) = 1 /\ <<Head(s)>>[1] = Head(s)
  BY <1>1
<1>4. Len(s) # 0
  BY EmptySeq
<1> DEFINE h == <<Head(s)>>
           t == Tail(s)
<1> HIDE DEF h, t
<1>5. /\ h \o t \in Seq(S)
      /\ Len(h \o t) = 1 + Len(t)
      /\ \A i \in 1 .. 1 + Len(t) : (h \o t)[i] = IF i <= 1 THEN h[i] ELSE t[i - 1]
  BY <1>1, <1>3, ConcatProperties DEF h, t
<1>6. Len(h \o t) = Len(s)
  BY <1>1, <1>2, <1>4, <1>5 DEF t
<1>7. \A i \in 1 .. Len(s) : (h \o t)[i] = s[i]
  <2> SUFFICES ASSUME NEW i \in 1 .. Len(s) PROVE (h \o t)[i] = s[i]
    OBVIOUS
  <2>1. CASE i = 1
    BY <1>1, <1>2, <1>3, <1>5, <2>1 DEF h, t
  <2>2. CASE i # 1
    <3>1. i - 1 \in 1 .. Len(t) /\ (h \o t)[i] = t[i - 1]
      BY <1>1, <1>2, <1>5, <2>2 DEF t
    <3>2. t[i - 1] = s[(i - 1) + 1]
      BY <1>1, <3>1 DEF t
    <3> QED BY <1>2, <3>1, <3>2
  <2> QED BY <2>1, <2>2
<1> QED BY <1>5, <1>6, <1>7, SeqEqual DEF h, t

\* Which elements LTRIM keeps: those of the last cap positions.
LEMMA LTrimPlaces ==
    ASSUME NEW S, NEW s \in Seq(S), NEW cap \in Nat \ {0}, Len(s) > cap
    PROVE  \A f : In(LTrim(s, cap), f) <=> \E i \in Len(s) - cap + 1 .. Len(s) : s[i] = f
<1> DEFINE m == Len(s) - cap
           t == SubSeq(s, m + 1, Len(s))
<1>1. Len(s) \in Nat /\ DOMAIN s = 1 .. Len(s)
  BY LenProperties
<1>2. /\ t \in Seq(S)
      /\ Len(t) = cap
      /\ \A i \in 1 .. cap : t[i] = s[m + i]
  <2>1. m + 1 \in 1 .. Len(s) + 1 /\ Len(s) \in (m + 1) - 1 .. Len(s)
    BY <1>1
  <2>2. /\ t \in Seq(S)
        /\ Len(t) = IF m + 1 <= Len(s) THEN Len(s) - (m + 1) + 1 ELSE 0
        /\ \A i \in 1 .. Len(s) - (m + 1) + 1 : t[i] = s[(m + 1) + i - 1]
    BY <2>1, <1>1, SubSeqProperties
  <2> HIDE DEF t
  <2> QED BY <1>1, <2>2
<1>3. LTrim(s, cap) = t
  BY DEF LTrim
<1> HIDE DEF t
<1>4. DOMAIN t = 1 .. cap
  BY <1>2, LenProperties
<1>5. ASSUME NEW f PROVE In(t, f) <=> \E i \in m + 1 .. Len(s) : s[i] = f
  <2>1. ASSUME In(t, f) PROVE \E i \in m + 1 .. Len(s) : s[i] = f
    <3>1. PICK i \in 1 .. cap : t[i] = f
      BY <1>4, <2>1 DEF In
    <3>2. m + i \in m + 1 .. Len(s) /\ s[m + i] = f
      BY <1>1, <1>2, <3>1
    <3> QED BY <3>2
  <2>2. ASSUME NEW i \in m + 1 .. Len(s), s[i] = f PROVE In(t, f)
    <3>1. i - m \in 1 .. cap /\ m + (i - m) = i
      BY <1>1
    <3>2. t[i - m] = f
      BY <1>2, <2>2, <3>1
    <3> QED BY <1>4, <3>1, <3>2 DEF In
  <2> QED BY <2>1, <2>2
<1> QED BY <1>3, <1>5

\* A set of naturals that is not empty has a least element.
LEMMA LeastNatural ==
    ASSUME NEW T \in SUBSET Nat, T # {}
    PROVE  Min(T) \in T /\ \A m \in T : Min(T) <= m
<1> DEFINE R == {ss \in Nat \X Nat : ss[1] < ss[2]}
<1>1. IsWellFoundedOn(R, Nat)
  BY NatLessThanWellFounded DEF OpToRel
<1>2. PICK n \in T : \A m \in T : <<m, n>> \notin R
  <2> HIDE DEF R
  <2> QED BY <1>1, WFMin
<1>3. \A m \in T : n <= m
  <2> SUFFICES ASSUME NEW m \in T PROVE n <= m
    OBVIOUS
  <2>1. ~(m < n)
    BY <1>2
  <2> QED BY <2>1
<1> QED BY <1>3 DEF Min

\* The suffix of a sequence from one of its positions on.
LEMMA SuffixFacts ==
    ASSUME NEW S, NEW s \in Seq(S), NEW k \in DOMAIN s
    PROVE  /\ SubSeq(s, k, Len(s)) \in Seq(S)
           /\ SubSeq(s, k, Len(s)) # <<>>
           /\ Head(SubSeq(s, k, Len(s))) = s[k]
<1> DEFINE t == SubSeq(s, k, Len(s))
<1>1. Len(s) \in Nat /\ k \in 1 .. Len(s)
  BY LenProperties
<1>2. /\ t \in Seq(S)
      /\ Len(t) = Len(s) - k + 1
      /\ \A i \in 1 .. Len(s) - k + 1 : t[i] = s[k + i - 1]
  BY <1>1, SubSeqProperties
<1> HIDE DEF t
<1>3. t # <<>> /\ t[1] = s[k]
  BY <1>1, <1>2, EmptySeq
<1>4. Head(t) = t[1]
  BY <1>2, <1>3, HeadTailProperties
<1> QED BY <1>2, <1>3, <1>4 DEF t
=============================================================================
