------------------------------ MODULE SeqLemmas ------------------------------
(***************************************************************************)
(* What the operators on sequences that the modules use do to them: the    *)
(* queues, rings and stacks of the guest are sequences; and what is first  *)
(* of a set of naturals.                                                   *)
(***************************************************************************)
EXTENDS Integers, Sequences, SequencesExt, SequenceTheorems, WellFoundedInduction, TLAPS

\* A set of naturals has a smallest.
LEMMA SmallestOf ==
  ASSUME NEW T, T \subseteq Nat, T # {}
  PROVE  \E x \in T : \A y \in T : x <= y
<1>1. PICK x \in T : \A y \in T : ~ (<<y, x>> \in OpToRel(<, Nat))
  BY WFMin, NatLessThanWellFounded, Zenon
<1>2. \A y \in T : ~ (y < x)
  BY <1>1, Zenon DEF OpToRel
<1>3. \A y \in T : x <= y
  BY <1>2
<1> QED BY <1>3

LEMMA MinIs ==
  ASSUME NEW S, S \subseteq Nat, S # {} PROVE Min(S) \in S /\ \A i \in S : Min(S) <= i
<1>1. \E x \in S : \A y \in S : x <= y
  BY SmallestOf
<1> QED BY <1>1 DEF Min

LEMMA MaxIs ==
  ASSUME NEW n \in Nat, NEW S, S \subseteq 0 .. n, S # {}
  PROVE  Max(S) \in S /\ \A i \in S : i <= Max(S)
<1> DEFINE T == {k \in Nat : \A i \in S : i <= k}
<1>1. n \in T
  OBVIOUS
<1>2. PICK m \in T : \A k \in T : m <= k
  <2> HIDE DEF T
  <2>1. T \subseteq Nat
    BY DEF T
  <2> QED BY <1>1, <2>1, SmallestOf
<1>3. m \in S
  <2> SUFFICES ASSUME m \notin S PROVE FALSE
    OBVIOUS
  <2>1. \A i \in S : i < m /\ i \in Nat
    BY <1>2
  <2>2. m - 1 \in Nat
    <3>1. PICK i \in S : TRUE
      OBVIOUS
    <3>2. i \in Nat /\ i < m /\ m \in Nat
      BY <1>2, <2>1
    <3> QED BY <3>2
  <2>3. m - 1 \in T
    BY <1>2, <2>1, <2>2
  <2> QED BY <1>2, <2>3
<1>4. \E x \in S : \A y \in S : x >= y
  BY <1>2, <1>3
<1> QED BY <1>4 DEF Max

\* RemoveAt leaves out the element at k.
LEMMA RemoveAtElements ==
  ASSUME NEW S, NEW s \in Seq(S), NEW k \in DOMAIN s
  PROVE  /\ RemoveAt(s, k) \in Seq(S)
         /\ Len(RemoveAt(s, k)) = Len(s) - 1
         /\ \A i \in 1 .. Len(s) - 1 : RemoveAt(s, k)[i] = IF i < k THEN s[i] ELSE s[i + 1]
<1> DEFINE a == SubSeq(s, 1, k - 1)
           c == SubSeq(s, k + 1, Len(s))
<1>1. /\ a \in Seq(S) /\ Len(a) = k - 1
      /\ \A i \in 1 .. k - 1 : a[i] = s[i]
  OBVIOUS
<1>2. /\ c \in Seq(S) /\ Len(c) = Len(s) - k
      /\ \A i \in 1 .. Len(s) - k : c[i] = s[i + k]
  OBVIOUS
<1> HIDE DEF a, c
<1>3. /\ a \o c \in Seq(S) /\ Len(a \o c) = Len(s) - 1
      /\ \A i \in 1 .. Len(s) - 1 :
           (a \o c)[i] = IF i < k THEN a[i] ELSE c[i - (k - 1)]
  BY SMTT(60), <1>1, <1>2
<1>4. RemoveAt(s, k) = a \o c
  BY DEF RemoveAt, a, c
<1>5. \A i \in 1 .. Len(s) - 1 : i >= k => c[i - (k - 1)] = s[i + 1]
  BY <1>2
<1> QED BY <1>1, <1>3, <1>4, <1>5

\* InsertAt puts an element before that at k, or behind the last.
LEMMA InsertAtElements ==
  ASSUME NEW S, NEW s \in Seq(S), NEW k \in 1 .. Len(s) + 1, NEW e \in S
  PROVE  /\ InsertAt(s, k, e) \in Seq(S)
         /\ Len(InsertAt(s, k, e)) = Len(s) + 1
         /\ \A i \in 1 .. Len(s) + 1 :
              InsertAt(s, k, e)[i] = IF i < k THEN s[i] ELSE IF i = k THEN e ELSE s[i - 1]
<1> DEFINE a == SubSeq(s, 1, k - 1)
           c == SubSeq(s, k, Len(s))
<1>1. /\ a \in Seq(S) /\ Len(a) = k - 1
      /\ \A i \in 1 .. k - 1 : a[i] = s[i]
  OBVIOUS
<1>2. /\ c \in Seq(S) /\ Len(c) = Len(s) - k + 1
      /\ \A i \in 1 .. Len(s) - k + 1 : c[i] = s[i + k - 1]
  OBVIOUS
<1> HIDE DEF a, c
<1>3. /\ a \o <<e>> \in Seq(S) /\ Len(a \o <<e>>) = k
      /\ \A i \in 1 .. k : (a \o <<e>>)[i] = IF i < k THEN s[i] ELSE e
  BY <1>1
<1> DEFINE b == a \o <<e>>
<1>4. b \in Seq(S) /\ Len(b) = k /\ \A i \in 1 .. k : b[i] = IF i < k THEN s[i] ELSE e
  BY <1>3
<1>5. k \in 1 .. Len(s) + 1 /\ Len(s) \in Nat
  OBVIOUS
<1> HIDE DEF b
<1>6. /\ b \o c \in Seq(S) /\ Len(b \o c) = k + Len(c)
      /\ \A i \in 1 .. k + Len(c) : (b \o c)[i] = IF i <= k THEN b[i] ELSE c[i - k]
  <2>1. b \in Seq(S) /\ c \in Seq(S) /\ Len(b) = k
    BY <1>2, <1>4
  <2> QED BY <2>1, ConcatProperties
<1>7. InsertAt(s, k, e) = b \o c
  BY DEF InsertAt, a, b, c
<1>8. \A i \in 1 .. Len(s) + 1 : i > k => c[i - k] = s[i - 1]
  BY <1>2, <1>5
<1>9. k + Len(c) = Len(s) + 1
  BY <1>2, <1>5
<1> QED BY <1>4, <1>5, <1>6, <1>7, <1>8, <1>9

LEMMA InsertAtLen ==
  ASSUME NEW S, NEW s \in Seq(S), NEW k \in 1 .. Len(s) + 1, NEW e \in S
  PROVE  InsertAt(s, k, e) \in Seq(S) /\ Len(InsertAt(s, k, e)) = Len(s) + 1
<1> DEFINE a == SubSeq(s, 1, k - 1)
           c == SubSeq(s, k, Len(s))
<1>1. a \in Seq(S) /\ Len(a) = k - 1
  OBVIOUS
<1>2. c \in Seq(S) /\ Len(c) = Len(s) - k + 1
  OBVIOUS
<1>3. Len(s) \in Nat
  OBVIOUS
<1> HIDE DEF a, c
<1>4. InsertAt(s, k, e) = a \o <<e>> \o c
  BY DEF InsertAt, a, c
<1>5. a \o <<e>> \in Seq(S) /\ Len(a \o <<e>>) = k
  BY <1>1
<1> DEFINE b == a \o <<e>>
<1>6. b \in Seq(S) /\ Len(b) = k
  BY <1>5
<1> HIDE DEF b
<1>7. b \o c \in Seq(S) /\ Len(b \o c) = Len(b) + Len(c)
  BY <1>2, <1>6
<1>8. Len(b) + Len(c) = Len(s) + 1
  BY <1>2, <1>3, <1>6
<1>9. InsertAt(s, k, e) = b \o c
  BY <1>4 DEF b
<1> QED BY <1>7, <1>8, <1>9

LEMMA ConsElements ==
  ASSUME NEW S, NEW s \in Seq(S), NEW b \in S
  PROVE  /\ <<b>> \o s \in Seq(S)
         /\ Len(<<b>> \o s) = Len(s) + 1
         /\ (<<b>> \o s)[1] = b
         /\ \A i \in 1 .. Len(s) : (<<b>> \o s)[i + 1] = s[i]
  OBVIOUS

\* The last call of a stack, and the stack without it.
LEMMA FrontElements ==
  ASSUME NEW S, NEW s \in Seq(S), s # <<>>
  PROVE  /\ Len(s) \in DOMAIN s /\ Len(s) \in Nat \ {0}
         /\ Last(s) = s[Len(s)] /\ Last(s) \in S
         /\ Front(s) \in Seq(S) /\ Len(Front(s)) = Len(s) - 1
         /\ \A i \in 1 .. Len(s) - 1 : Front(s)[i] = s[i]
<1>1. Len(s) \in Nat \ {0} /\ DOMAIN s = 1 .. Len(s)
  OBVIOUS
<1>2. Front(s) = SubSeq(s, 1, Len(s) - 1)
  BY DEF Front
<1> QED BY <1>1, <1>2 DEF Last

\* The last call of a stack becomes another, calls, or returns to the one below it.
LEMMA BecomeElements ==
  ASSUME NEW S, NEW s \in Seq(S), s # <<>>, NEW e \in S
  PROVE  /\ Append(Front(s), e) \in Seq(S) /\ Len(Append(Front(s), e)) = Len(s)
         /\ Append(Front(s), e)[Len(s)] = e
         /\ \A i \in 1 .. Len(s) - 1 : Append(Front(s), e)[i] = s[i]
<1> DEFINE f == Front(s)
<1>1. /\ f \in Seq(S) /\ Len(f) = Len(s) - 1 /\ Len(s) \in Nat \ {0}
      /\ \A i \in 1 .. Len(s) - 1 : f[i] = s[i]
  BY FrontElements
<1> HIDE DEF f
<1>2. /\ Append(f, e) \in Seq(S) /\ Len(Append(f, e)) = Len(s)
      /\ Append(f, e)[Len(s)] = e
      /\ \A i \in 1 .. Len(s) - 1 : Append(f, e)[i] = f[i]
  BY <1>1
<1> QED BY <1>1, <1>2 DEF f

LEMMA CallElements ==
  ASSUME NEW S, NEW s \in Seq(S), s # <<>>, NEW d \in S, NEW e \in S
  PROVE  /\ Front(s) \o <<d, e>> \in Seq(S) /\ Len(Front(s) \o <<d, e>>) = Len(s) + 1
         /\ (Front(s) \o <<d, e>>)[Len(s)] = d /\ (Front(s) \o <<d, e>>)[Len(s) + 1] = e
         /\ \A i \in 1 .. Len(s) - 1 : (Front(s) \o <<d, e>>)[i] = s[i]
<1> DEFINE f == Front(s)
<1>1. /\ f \in Seq(S) /\ Len(f) = Len(s) - 1 /\ Len(s) \in Nat \ {0}
      /\ \A i \in 1 .. Len(s) - 1 : f[i] = s[i]
  BY FrontElements
<1> HIDE DEF f
<1>2. /\ f \o <<d, e>> \in Seq(S) /\ Len(f \o <<d, e>>) = Len(s) + 1
      /\ (f \o <<d, e>>)[Len(s)] = d /\ (f \o <<d, e>>)[Len(s) + 1] = e
      /\ \A i \in 1 .. Len(s) - 1 : (f \o <<d, e>>)[i] = f[i]
  BY <1>1
<1> QED BY <1>1, <1>2 DEF f

LEMMA ReturnElements ==
  ASSUME NEW S, NEW s \in Seq(S), Len(s) > 1, NEW e \in S
  PROVE  /\ Append(SubSeq(s, 1, Len(s) - 2), e) \in Seq(S)
         /\ Len(Append(SubSeq(s, 1, Len(s) - 2), e)) = Len(s) - 1
         /\ Append(SubSeq(s, 1, Len(s) - 2), e)[Len(s) - 1] = e
         /\ \A i \in 1 .. Len(s) - 2 : Append(SubSeq(s, 1, Len(s) - 2), e)[i] = s[i]
<1> DEFINE f == SubSeq(s, 1, Len(s) - 2)
<1>1. /\ f \in Seq(S) /\ Len(f) = Len(s) - 2 /\ Len(s) \in Nat
      /\ \A i \in 1 .. Len(s) - 2 : f[i] = s[i]
  OBVIOUS
<1> HIDE DEF f
<1>2. /\ Append(f, e) \in Seq(S) /\ Len(Append(f, e)) = Len(s) - 1
      /\ Append(f, e)[Len(s) - 1] = e
      /\ \A i \in 1 .. Len(s) - 2 : Append(f, e)[i] = f[i]
  BY <1>1
<1> QED BY <1>1, <1>2 DEF f

\* Append puts an element behind the others.
LEMMA AppendElements ==
  ASSUME NEW S, NEW s \in Seq(S), NEW e \in S
  PROVE  /\ Append(s, e) \in Seq(S) /\ Append(s, e) # <<>>
         /\ Len(Append(s, e)) = Len(s) + 1 /\ Len(s) \in Nat
         /\ DOMAIN s = 1 .. Len(s) /\ DOMAIN Append(s, e) = 1 .. Len(s) + 1
         /\ \A i \in 1 .. Len(s) : Append(s, e)[i] = s[i]
         /\ Append(s, e)[Len(s) + 1] = e /\ Last(Append(s, e)) = e
  BY DEF Last
=============================================================================
