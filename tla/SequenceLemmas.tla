---------------------------- MODULE SequenceLemmas ----------------------------
(***************************************************************************)
(* What the proofs about buffers and connections share: sequences cut in    *)
(* two, taken from at one end, extended at the other, compared as prefixes, *)
(* and the sequence 1, 2, 3, ... that numbers the bytes somebody sends.     *)
(* The last sections prove by induction what FlattenSeq of the community    *)
(* modules makes of a sequence of sequences, and what SetToSeq makes of a   *)
(* finite set.                                                              *)
(***************************************************************************)
EXTENDS Integers, SequencesExt, SequenceTheorems, FiniteSetTheorems, TLAPS

LEMMA PrefixInSeq ==
    ASSUME NEW S, NEW s \in Seq(S), NEW n \in Int, n <= Len(s)
    PROVE  /\ SubSeq(s, 1, n) \in Seq(S)
           /\ n >= 0 => Len(SubSeq(s, 1, n)) = n
<1>1. \A i \in 1 .. n : s[i] \in S
    BY LenProperties, ElementOfSeq
<1>2. QED
    BY <1>1, SubSeqProperties

LEMMA SuffixInSeq ==
    ASSUME NEW S, NEW s \in Seq(S), NEW n \in Nat
    PROVE  /\ SubSeq(s, n + 1, Len(s)) \in Seq(S)
           /\ n <= Len(s) => Len(SubSeq(s, n + 1, Len(s))) = Len(s) - n
<1>1. Len(s) \in Nat
    BY LenProperties
<1>2. \A i \in n + 1 .. Len(s) : s[i] \in S
    BY <1>1, ElementOfSeq
<1>3. QED
    BY <1>1, <1>2, SubSeqProperties

(* What is taken from the front, and what is left. *)
LEMMA CutInTwo ==
    ASSUME NEW S, NEW s \in Seq(S), NEW n \in 0 .. Len(s)
    PROVE  SubSeq(s, 1, n) \o SubSeq(s, n + 1, Len(s)) = s
<1>1. Len(s) \in Nat
    BY LenProperties
<1>2. 1 \in 1 .. Len(s) + 1 /\ n \in 1 - 1 .. Len(s) /\ Len(s) \in n .. Len(s)
    BY <1>1
<1>3. SubSeq(s, 1, n) \o SubSeq(s, n + 1, Len(s)) = SubSeq(s, 1, Len(s))
    BY <1>2, ConcatAdjacentSubSeq
<1>4. QED
    BY <1>3, SubSeqFull

LEMMA FirstAndRest ==
    ASSUME NEW S, NEW s \in Seq(S), s # <<>>
    PROVE  /\ Head(s) \in S /\ Tail(s) \in Seq(S)
           /\ <<Head(s)>> \o Tail(s) = s
<1>1. Head(s) \in S /\ Tail(s) \in Seq(S) /\ Len(s) \in Nat \ {0}
    BY HeadTailProperties, EmptySeq
<1>2. SubSeq(s, 1, 1) = <<Head(s)>>
  <2>1. SubSeq(s, 1, 1) \in Seq(S) /\ Len(SubSeq(s, 1, 1)) = 1
      BY <1>1, PrefixInSeq
  <2>2. SubSeq(s, 1, 1)[1] = s[1]
    <3>1. \A i \in 1 .. 1 : s[i] \in S
        BY <1>1, ElementOfSeq
    <3>2. QED
        BY <3>1, SubSeqProperties
  <2>3. <<Head(s)>> \in Seq(S) /\ Len(<<Head(s)>>) = 1 /\ <<Head(s)>>[1] = s[1]
      BY <1>1
  <2> DEFINE p == SubSeq(s, 1, 1)
             q == <<Head(s)>>
  <2>4. p \in Seq(S) /\ q \in Seq(S) /\ Len(p) = 1 /\ Len(q) = 1 /\ p[1] = q[1]
      BY <2>1, <2>2, <2>3
  <2> HIDE DEF p, q
  <2>5. p = q
      BY <2>4, SeqEqual
  <2>6. QED
      BY <2>5 DEF p, q
<1>3. Tail(s) = SubSeq(s, 1 + 1, Len(s))
    BY TailIsSubSeq, SMTT(60)
<1>4. QED
    BY <1>1, <1>2, <1>3, CutInTwo

LEMMA FrontAndLast ==
    ASSUME NEW S, NEW s \in Seq(S), s # <<>>
    PROVE  /\ Front(s) \in Seq(S) /\ Last(s) \in S
           /\ Front(s) \o <<Last(s)>> = s
<1>1. Len(s) \in Nat \ {0}
    BY EmptySeq
<1>2. Front(s) \in Seq(S) /\ Last(s) \in S
    BY <1>1, PrefixInSeq, ElementOfSeq DEF Front, Last
<1>3. SubSeq(s, Len(s), Len(s)) = <<Last(s)>>
  <2>1. \A i \in Len(s) .. Len(s) : s[i] \in S
      BY <1>1, ElementOfSeq
  <2>2. /\ SubSeq(s, Len(s), Len(s)) \in Seq(S) /\ Len(SubSeq(s, Len(s), Len(s))) = 1
        /\ SubSeq(s, Len(s), Len(s))[1] = s[Len(s)]
      BY <1>1, <2>1, SubSeqProperties
  <2>3. <<Last(s)>> \in Seq(S) /\ Len(<<Last(s)>>) = 1 /\ <<Last(s)>>[1] = s[Len(s)]
      BY <1>2 DEF Last
  <2> DEFINE p == SubSeq(s, Len(s), Len(s))
             q == <<Last(s)>>
  <2>4. p \in Seq(S) /\ q \in Seq(S) /\ Len(p) = 1 /\ Len(q) = 1 /\ p[1] = q[1]
      BY <2>2, <2>3
  <2> HIDE DEF p, q
  <2>5. p = q
      BY <2>4, SeqEqual
  <2>6. QED
      BY <2>5 DEF p, q
<1>4. SubSeq(s, 1, Len(s) - 1) \o SubSeq(s, (Len(s) - 1) + 1, Len(s)) = s
    BY <1>1, CutInTwo
<1>5. (Len(s) - 1) + 1 = Len(s)
    BY <1>1
<1>6. QED
    BY <1>2, <1>3, <1>4, <1>5 DEF Front

LEMMA ConcatInSeq ==
    ASSUME NEW S, NEW s \in Seq(S), NEW t \in Seq(S)
    PROVE  s \o t \in Seq(S) /\ Len(s \o t) = Len(s) + Len(t)
BY ConcatProperties

LEMMA ConcatAppend ==
    ASSUME NEW S, NEW s \in Seq(S), NEW t \in Seq(S), NEW e \in S
    PROVE  s \o Append(t, e) = Append(s \o t, e)
<1> DEFINE u == <<e>>
<1>1. u \in Seq(S) /\ s \o t \in Seq(S)
    BY ConcatProperties
<1>2. Append(t, e) = t \o u /\ Append(s \o t, e) = (s \o t) \o u
    BY <1>1, AppendIsConcat
<1> HIDE DEF u
<1>3. u \in Seq(S)
    BY <1>1
<1>4. (s \o t) \o u = s \o (t \o u)
    BY <1>3, ConcatAssociative
<1>5. QED
    BY <1>2, <1>4

(* An element moves from the head of what follows to the end of what precedes. *)
LEMMA MoveHead ==
    ASSUME NEW S, NEW s \in Seq(S), NEW t \in Seq(S), t # <<>>
    PROVE  Append(s, Head(t)) \in Seq(S) /\ Append(s, Head(t)) \o Tail(t) = s \o t
<1> DEFINE u == <<Head(t)>>
<1>1. Head(t) \in S /\ Tail(t) \in Seq(S) /\ u \o Tail(t) = t
    BY FirstAndRest
<1>2. u \in Seq(S) /\ Append(s, Head(t)) = s \o u /\ Append(s, Head(t)) \in Seq(S)
    BY <1>1, AppendIsConcat, AppendProperties
<1> DEFINE r == Tail(t)
<1>3. r \in Seq(S) /\ u \in Seq(S)
    BY <1>1, <1>2
<1> HIDE DEF u, r
<1>4. (s \o u) \o r = s \o (u \o r)
    BY <1>3, ConcatAssociative
<1>5. QED
    BY <1>1, <1>2, <1>4 DEF r

------------------------------------------------------------------------------
(* Prefixes. *)

LEMMA PrefixOfConcat ==
    ASSUME NEW S, NEW s \in Seq(S), NEW t \in Seq(S)
    PROVE  IsPrefix(s, s \o t)
<1>1. /\ s \o t \in Seq(S)
      /\ Len(s) \in Nat /\ Len(t) \in Nat
      /\ Len(s \o t) = Len(s) + Len(t)
      /\ \A i \in 1 .. Len(s) : (s \o t)[i] = s[i]
    BY ConcatProperties, LenProperties
<1>2. SubSeq(s, 1, Len(s)) \in Seq(S) /\ SubSeq(s \o t, 1, Len(s)) \in Seq(S)
    BY <1>1, PrefixInSeq
<1>3. /\ Len(SubSeq(s, 1, Len(s))) = Len(s)
      /\ Len(SubSeq(s \o t, 1, Len(s))) = Len(s)
    BY <1>1, PrefixInSeq
<1>4. \A i \in 1 .. Len(s) : s[i] \in S /\ (s \o t)[i] \in S
    BY <1>1, ElementOfSeq
<1>5. \A i \in 1 .. Len(s) : SubSeq(s, 1, Len(s))[i] = s[i] /\ SubSeq(s \o t, 1, Len(s))[i] = s[i]
    BY <1>1, <1>4, SubSeqProperties
<1>6. SubSeq(s, 1, Len(s)) = SubSeq(s \o t, 1, Len(s))
    BY <1>1, <1>2, <1>3, <1>5, SeqEqual
<1>7. QED
    BY <1>1, <1>6 DEF IsPrefix

(* The other way: a prefix is the sequence without a suffix. *)
LEMMA PrefixHasRest ==
    ASSUME NEW S, NEW s \in Seq(S), NEW t \in Seq(S), IsPrefix(s, t)
    PROVE  \E rest \in Seq(S) : t = s \o rest
<1> DEFINE rest == SubSeq(t, Len(s) + 1, Len(t))
<1>1. Len(s) \in Nat /\ Len(t) \in Nat /\ Len(s) <= Len(t) /\ SubSeq(t, 1, Len(s)) = s
    BY LenProperties, SubSeqFull DEF IsPrefix
<1>2. rest \in Seq(S)
    BY <1>1, SuffixInSeq
<1>3. s \o rest = t
    BY <1>1, CutInTwo
<1>4. QED
    BY <1>2, <1>3

LEMMA PrefixOfLonger ==
    ASSUME NEW S, NEW s \in Seq(S), NEW t \in Seq(S), NEW u \in Seq(S), IsPrefix(s, t)
    PROVE  IsPrefix(s, t \o u)
<1>1. PICK rest \in Seq(S) : t = s \o rest
    BY PrefixHasRest
<1>2. t \o u = s \o (rest \o u) /\ rest \o u \in Seq(S)
    BY <1>1, ConcatAssociative, ConcatProperties
<1>3. QED
    BY <1>2, PrefixOfConcat

LEMMA PrefixLength ==
    ASSUME NEW s, NEW t, IsPrefix(s, t)
    PROVE  Len(s) <= Len(t)
BY DEF IsPrefix

(* Prefixes and suffixes, element by element. *)
LEMMA PrefixElements ==
    ASSUME NEW S, NEW s \in Seq(S), NEW t \in Seq(S)
    PROVE  IsPrefix(s, t) <=> /\ Len(s) <= Len(t)
                              /\ \A i \in 1 .. Len(s) : s[i] = t[i]
<1>. DEFINE p == SubSeq(t, 1, Len(s))
<1>1. Len(s) \in Nat /\ Len(t) \in Nat
    BY LenProperties
<1>2. SubSeq(s, 1, Len(s)) = s
    BY SubSeqFull
<1>3. ASSUME Len(s) <= Len(t)
      PROVE  p \in Seq(S) /\ Len(p) = Len(s) /\ \A i \in 1 .. Len(s) : p[i] = t[i]
  <2>1. p \in Seq(S) /\ Len(p) = Len(s)
      BY <1>1, <1>3, PrefixInSeq
  <2>2. \A i \in 1 .. Len(s) : t[i] \in S
      BY <1>1, <1>3, ElementOfSeq
  <2>3. \A i \in 1 .. Len(s) : p[i] = t[i]
      BY <1>1, <2>2, SubSeqProperties
  <2>4. QED
      BY <2>1, <2>3
<1>4. ASSUME IsPrefix(s, t)
      PROVE  Len(s) <= Len(t) /\ \A i \in 1 .. Len(s) : s[i] = t[i]
  <2>1. Len(s) <= Len(t) /\ s = p
      BY <1>2, <1>4 DEF IsPrefix
  <2>2. QED
      BY <1>3, <2>1
<1>5. ASSUME Len(s) <= Len(t), \A i \in 1 .. Len(s) : s[i] = t[i]
      PROVE  IsPrefix(s, t)
  <2>1. p \in Seq(S) /\ Len(p) = Len(s) /\ \A i \in 1 .. Len(s) : p[i] = t[i]
      BY <1>3, <1>5
  <2>. HIDE DEF p
  <2>2. s = p
      BY <1>5, <2>1, SeqEqual
  <2>3. QED
      BY <1>2, <1>5, <2>2 DEF IsPrefix, p
<1>6. QED
    BY <1>4, <1>5

LEMMA SuffixElements ==
    ASSUME NEW S, NEW s \in Seq(S), NEW t \in Seq(S)
    PROVE  IsSuffix(s, t) <=> /\ Len(s) <= Len(t)
                              /\ \A i \in 1 .. Len(s) : s[i] = t[Len(t) - Len(s) + i]
<1>. DEFINE r(q) == Reverse(q)
<1>1. ASSUME NEW q \in Seq(S)
      PROVE  /\ Len(q) \in Nat /\ r(q) \in Seq(S) /\ Len(r(q)) = Len(q)
             /\ \A i \in 1 .. Len(q) : r(q)[i] = q[Len(q) - i + 1]
  <2>1. Len(q) \in Nat
      BY LenProperties
  <2>2. \A i \in 1 .. Len(q) : q[Len(q) - i + 1] \in S
      BY <2>1, ElementOfSeq
  <2>3. QED
      BY <2>1, <2>2 DEF Reverse
<1>2. IsSuffix(s, t) <=> IsPrefix(r(s), r(t))
    BY DEF IsSuffix
<1>3. /\ Len(s) \in Nat /\ r(s) \in Seq(S) /\ Len(r(s)) = Len(s)
      /\ \A i \in 1 .. Len(s) : r(s)[i] = s[Len(s) - i + 1]
      /\ Len(t) \in Nat /\ r(t) \in Seq(S) /\ Len(r(t)) = Len(t)
      /\ \A i \in 1 .. Len(t) : r(t)[i] = t[Len(t) - i + 1]
    BY <1>1
<1>. HIDE DEF r
<1>4. IsPrefix(r(s), r(t)) <=> /\ Len(s) <= Len(t)
                               /\ \A i \in 1 .. Len(s) : r(s)[i] = r(t)[i]
    BY <1>3, PrefixElements
<1>5. ASSUME Len(s) <= Len(t)
      PROVE  (\A i \in 1 .. Len(s) : r(s)[i] = r(t)[i])
                <=> (\A i \in 1 .. Len(s) : s[i] = t[Len(t) - Len(s) + i])
  <2>1. ASSUME \A i \in 1 .. Len(s) : r(s)[i] = r(t)[i], NEW i \in 1 .. Len(s)
        PROVE  s[i] = t[Len(t) - Len(s) + i]
    <3>1. PICK j \in 1 .. Len(s) : j = Len(s) - i + 1
        BY <1>3
    <3>2. j \in 1 .. Len(t) /\ Len(s) - j + 1 = i /\ Len(t) - j + 1 = Len(t) - Len(s) + i
        BY <1>3, <1>5, <3>1
    <3>3. r(s)[j] = s[i] /\ r(t)[j] = t[Len(t) - Len(s) + i]
        BY <1>3, <3>2
    <3>4. QED
        BY <2>1, <3>3
  <2>2. ASSUME \A i \in 1 .. Len(s) : s[i] = t[Len(t) - Len(s) + i], NEW j \in 1 .. Len(s)
        PROVE  r(s)[j] = r(t)[j]
    <3>1. PICK i \in 1 .. Len(s) : i = Len(s) - j + 1
        BY <1>3
    <3>2. j \in 1 .. Len(t) /\ Len(s) - j + 1 = i /\ Len(t) - j + 1 = Len(t) - Len(s) + i
        BY <1>3, <1>5, <3>1
    <3>3. r(s)[j] = s[i] /\ r(t)[j] = t[Len(t) - Len(s) + i]
        BY <1>3, <3>2
    <3>4. QED
        BY <2>2, <3>3
  <2>3. QED
      BY <2>1, <2>2
<1>6. QED
    BY <1>2, <1>4, <1>5

LEMMA PrefixOfPrefix ==
    ASSUME NEW S, NEW s \in Seq(S), NEW t \in Seq(S), NEW u \in Seq(S),
           IsPrefix(s, t), IsPrefix(t, u)
    PROVE  IsPrefix(s, u)
<1>1. PICK rest \in Seq(S) : u = t \o rest
    BY PrefixHasRest
<1>2. QED
    BY <1>1, PrefixOfLonger

------------------------------------------------------------------------------
(* The numbered sequence. *)

CountTo(n) == [i \in 1 .. n |-> i]

LEMMA CountIsSeq ==
    ASSUME NEW n \in Nat
    PROVE  /\ CountTo(n) \in Seq(Nat)
           /\ CountTo(n) \in Seq(1 .. n)
           /\ Len(CountTo(n)) = n
BY DEF CountTo

LEMMA CountAppend ==
    ASSUME NEW n \in Nat
    PROVE  CountTo(n + 1) = Append(CountTo(n), n + 1)
<1>1. CountTo(n) \in Seq(Nat) /\ Len(CountTo(n)) = n
    BY CountIsSeq
<1>2. /\ Append(CountTo(n), n + 1) \in Seq(Nat)
      /\ Len(Append(CountTo(n), n + 1)) = n + 1
      /\ \A i \in 1 .. n : Append(CountTo(n), n + 1)[i] = CountTo(n)[i]
      /\ Append(CountTo(n), n + 1)[n + 1] = n + 1
    BY <1>1, AppendProperties
<1>3. CountTo(n + 1) \in Seq(Nat) /\ Len(CountTo(n + 1)) = n + 1
    BY CountIsSeq
<1>4. \A i \in 1 .. n + 1 : CountTo(n + 1)[i] = Append(CountTo(n), n + 1)[i]
    BY <1>2 DEF CountTo
<1>5. QED
    BY <1>2, <1>3, <1>4, SeqEqual

LEMMA CountEmpty == CountTo(0) = <<>>
BY DEF CountTo

------------------------------------------------------------------------------
(* The elements of a sequence. *)

LEMMA SetOfConcat ==
    ASSUME NEW S, NEW s \in Seq(S), NEW t \in Seq(S)
    PROVE  ToSet(s \o t) = ToSet(s) \union ToSet(t)
<1>1. Range(s \o t) = Range(s) \union Range(t)
    BY RangeConcatenation
<1>2. ToSet(s \o t) = Range(s \o t) /\ ToSet(s) = Range(s) /\ ToSet(t) = Range(t)
    BY DEF ToSet, Range
<1>3. QED
    BY <1>1, <1>2

LEMMA SetOfOne ==
    ASSUME NEW e
    PROVE  ToSet(<<e>>) = {e}
BY DEF ToSet

LEMMA SetOfAppend ==
    ASSUME NEW S, NEW s \in Seq(S), NEW e \in S
    PROVE  ToSet(Append(s, e)) = ToSet(s) \union {e}
<1> DEFINE u == <<e>>
<1>1. u \in Seq(S) /\ Append(s, e) = s \o u /\ ToSet(u) = {e}
    BY AppendIsConcat, SetOfOne
<1> HIDE DEF u
<1>2. QED
    BY <1>1, SetOfConcat

(* A sequence without repetitions, taken apart and put together. *)
LEMMA HeadOnce ==
    ASSUME NEW S, NEW s \in Seq(S), s # <<>>, IsInjective(s)
    PROVE  /\ IsInjective(Tail(s)) /\ Head(s) \notin ToSet(Tail(s))
           /\ ToSet(s) = ToSet(Tail(s)) \union {Head(s)}
<1>1. /\ Head(s) \in S /\ Tail(s) \in Seq(S) /\ Len(s) \in Nat \ {0}
      /\ DOMAIN s = 1 .. Len(s) /\ DOMAIN Tail(s) = 1 .. Len(s) - 1
      /\ Head(s) = s[1] /\ \A i \in 1 .. Len(s) - 1 : Tail(s)[i] = s[i + 1]
  BY HeadTailProperties, LenProperties, EmptySeq
<1>2. IsInjective(Tail(s))
  <2>. SUFFICES ASSUME NEW i \in 1 .. Len(s) - 1, NEW j \in 1 .. Len(s) - 1, s[i + 1] = s[j + 1]
                PROVE  i = j
    BY <1>1 DEF IsInjective
  <2>1. i + 1 \in 1 .. Len(s) /\ j + 1 \in 1 .. Len(s)
    BY <1>1
  <2>2. i + 1 = j + 1
    BY <1>1, <2>1 DEF IsInjective
  <2>. QED BY <2>2
<1>3. Head(s) \notin ToSet(Tail(s))
  <2>1. \A i \in 1 .. Len(s) - 1 : i + 1 \in 1 .. Len(s) /\ i + 1 # 1 /\ 1 \in 1 .. Len(s)
    BY <1>1
  <2>. QED BY <1>1, <2>1 DEF IsInjective, ToSet
<1>4. ToSet(s) = ToSet(<<Head(s)>>) \union ToSet(Tail(s))
  <2>. DEFINE u == <<Head(s)>>
  <2>1. u \in Seq(S) /\ u \o Tail(s) = s /\ Tail(s) \in Seq(S)
    BY <1>1, FirstAndRest
  <2>. HIDE DEF u
  <2>2. ToSet(u \o Tail(s)) = ToSet(u) \union ToSet(Tail(s))
    BY <2>1, SetOfConcat, ZenonT(60)
  <2>. QED BY <2>1, <2>2 DEF u
<1>. QED BY <1>2, <1>3, <1>4, SetOfOne

LEMMA AppendOnce ==
    ASSUME NEW S, NEW s \in Seq(S), NEW e \in S, IsInjective(s), e \notin ToSet(s)
    PROVE  IsInjective(Append(s, e))
<1>1. /\ Len(s) \in Nat /\ DOMAIN s = 1 .. Len(s) /\ DOMAIN Append(s, e) = 1 .. Len(s) + 1
      /\ \A i \in 1 .. Len(s) : Append(s, e)[i] = s[i]
      /\ Append(s, e)[Len(s) + 1] = e
  BY LenProperties, AppendProperties
<1>2. \A i \in 1 .. Len(s) : s[i] # e
  BY <1>1 DEF ToSet
<1>3. \A i \in 1 .. Len(s) + 1 : i \in 1 .. Len(s) \/ i = Len(s) + 1
  BY <1>1
<1>. QED BY <1>1, <1>2, <1>3 DEF IsInjective

------------------------------------------------------------------------------
(***************************************************************************)
(* Induction.  A set of naturals has a least element: the intervals 0 .. n, *)
(* ordered by inclusion, are well-founded.  A statement about every n holds *)
(* if there is no least n for which it fails, which needs no theorem that   *)
(* takes the statement as a parameter.                                      *)
(***************************************************************************)
LEMMA LeastNatural ==
    ASSUME NEW A \in SUBSET Nat, A # {}
    PROVE  \E n \in A : \A m \in A : n <= m
<1>. DEFINE T == {0 .. n : n \in A}
<1>1. IsWellFoundedOn(StrictSubsetOrdering(Nat), FiniteSubsetsOf(Nat))
  BY FS_StrictSubsetOrderingWellFounded
<1>2. T \subseteq FiniteSubsetsOf(Nat) /\ T # {}
  <2>1. \A n \in A : IsFiniteSet(0 .. n) /\ 0 .. n \in SUBSET Nat
    BY FS_Interval
  <2>. QED BY <2>1 DEF FiniteSubsetsOf
<1>3. \E x \in T : \A y \in T : ~(<<y, x>> \in StrictSubsetOrdering(Nat))
  <2>. HIDE DEF T
  <2>. QED BY <1>1, <1>2, WFMin
<1>4. PICK n \in A : \A m \in A : ~(<<0 .. m, 0 .. n>> \in StrictSubsetOrdering(Nat))
  BY <1>3
<1>5. ASSUME NEW m \in A, m < n
      PROVE  FALSE
  <2>1. 0 .. m \in SUBSET Nat /\ 0 .. n \in SUBSET Nat /\ 0 .. m \subseteq 0 .. n
    BY <1>5
  <2>2. n \in 0 .. n /\ n \notin 0 .. m
    BY <1>5
  <2>3. <<0 .. m, 0 .. n>> \in StrictSubsetOrdering(Nat)
    BY <2>1, <2>2 DEF StrictSubsetOrdering
  <2>. QED BY <1>4, <2>3
<1>. QED BY <1>5

(* The recursive function that FlattenSeq is defined with; it exists. *)
Joins(g, s, n) == g = [i \in 1 .. n |-> IF i = 1 THEN s[i] ELSE g[i - 1] \o s[i]]

LEMMA JoinExists ==
    ASSUME NEW s
    PROVE  \A n \in Nat : \E g : Joins(g, s, n)
<1>. DEFINE A == {n \in Nat : ~ \E g : Joins(g, s, n)}
<1>. SUFFICES ASSUME A # {} PROVE FALSE
  OBVIOUS
<1>1. PICK n \in A : \A m \in A : n <= m
  <2>. A \in SUBSET Nat
    OBVIOUS
  <2>. HIDE DEF A
  <2>. QED BY LeastNatural
<1>2. CASE n = 0
  <2>1. Joins(<<>>, s, 0)
    BY DEF Joins
  <2>. QED BY <1>1, <1>2, <2>1
<1>3. CASE n # 0
  <2>1. n - 1 \in Nat /\ n - 1 \notin A
    BY <1>1, <1>3
  <2>2. PICK g : Joins(g, s, n - 1)
    BY <2>1
  <2>. DEFINE e == IF n = 1 THEN s[n] ELSE g[n - 1] \o s[n]
              h == [i \in 1 .. n |-> IF i = n THEN e ELSE g[i]]
  <2>3. /\ h[n] = e
        /\ \A i \in 1 .. n - 1 : h[i] = g[i]
    <3>1. n \in Nat /\ n \in 1 .. n
      BY <1>3
    <3>2. \A i \in 1 .. n - 1 : i \in 1 .. n /\ i # n
      BY <3>1
    <3>. HIDE DEF e
    <3>. QED BY <3>1, <3>2
  <2>4. \A i \in 1 .. n - 1 : g[i] = IF i = 1 THEN s[i] ELSE g[i - 1] \o s[i]
    BY <2>2 DEF Joins
  <2>5. \A i \in 1 .. n : h[i] = IF i = 1 THEN s[i] ELSE h[i - 1] \o s[i]
    <3>1. ASSUME NEW i \in 1 .. n - 1 PROVE h[i] = IF i = 1 THEN s[i] ELSE h[i - 1] \o s[i]
      <4>1. i # 1 => i - 1 \in 1 .. n - 1
        BY <1>1
      <4>2. h[i] = g[i] /\ (i # 1 => h[i - 1] = g[i - 1])
        BY <2>3, <4>1
      <4>. HIDE DEF h
      <4>. QED BY <2>4, <4>2
    <3>2. h[n] = IF n = 1 THEN s[n] ELSE h[n - 1] \o s[n]
      <4>1. n # 1 => n - 1 \in 1 .. n - 1
        BY <1>1, <1>3
      <4>2. n # 1 => h[n - 1] = g[n - 1]
        BY <2>3, <4>1
      <4>. HIDE DEF h
      <4>. QED BY <2>3, <4>2
    <3>. HIDE DEF h
    <3>3. \A i \in 1 .. n : i \in 1 .. n - 1 \/ i = n
      BY <1>1
    <3>. QED BY <3>1, <3>2, <3>3
  <2>6. h = [i \in 1 .. n |-> h[i]]
    OBVIOUS
  <2>7. Joins(h, s, n)
    <3>. HIDE DEF h
    <3>. QED BY <2>5, <2>6 DEF Joins
  <2>. QED BY <1>1, <2>7
<1>. QED BY <1>2, <1>3

(* What FlattenSeq returns is its last value. *)
LEMMA FlattenIs ==
    ASSUME NEW s, Len(s) \in Nat, Len(s) # 0
    PROVE  \E g : Joins(g, s, Len(s)) /\ FlattenSeq(s) = g[Len(s)]
<1>. DEFINE f == CHOOSE g : Joins(g, s, Len(s))
<1>1. Joins(f, s, Len(s))
  BY JoinExists
<1>2. FlattenSeq(s) = f[Len(s)]
  BY DEF FlattenSeq, Joins
<1>. QED BY <1>1, <1>2

(* It is the only one, also where it is cut off. *)
LEMMA JoinUnique ==
    ASSUME NEW s, NEW t, NEW n \in Nat, NEW m \in Nat, NEW g, NEW h,
           Joins(g, s, n), Joins(h, t, m), n <= m, \A i \in 1 .. n : s[i] = t[i]
    PROVE  \A i \in 1 .. n : g[i] = h[i]
<1>. DEFINE A == {k \in Nat : k \in 1 .. n /\ g[k] # h[k]}
<1>. SUFFICES ASSUME A # {} PROVE FALSE
  OBVIOUS
<1>1. PICK k \in A : \A j \in A : k <= j
  <2>. A \in SUBSET Nat
    OBVIOUS
  <2>. HIDE DEF A
  <2>. QED BY LeastNatural
<1>2. k \in 1 .. n /\ k \in 1 .. m /\ g[k] # h[k]
  OBVIOUS
<1>3. k # 1 => k - 1 \in 1 .. n /\ g[k - 1] = h[k - 1]
  BY <1>1
<1>4. /\ g[k] = IF k = 1 THEN s[k] ELSE g[k - 1] \o s[k]
      /\ h[k] = IF k = 1 THEN t[k] ELSE h[k - 1] \o t[k]
      /\ s[k] = t[k]
  BY <1>2 DEF Joins
<1>. QED BY <1>2, <1>3, <1>4

(* Its values are sequences of the same elements. *)
LEMMA JoinInSeq ==
    ASSUME NEW S, NEW s, NEW n \in Nat, NEW g, Joins(g, s, n), \A i \in 1 .. n : s[i] \in Seq(S)
    PROVE  \A i \in 1 .. n : g[i] \in Seq(S)
<1>. DEFINE A == {k \in Nat : k \in 1 .. n /\ g[k] \notin Seq(S)}
<1>. SUFFICES ASSUME A # {} PROVE FALSE
  OBVIOUS
<1>1. PICK k \in A : \A j \in A : k <= j
  <2>. A \in SUBSET Nat
    OBVIOUS
  <2>. HIDE DEF A
  <2>. QED BY LeastNatural
<1>2. k \in 1 .. n /\ g[k] \notin Seq(S) /\ s[k] \in Seq(S)
  OBVIOUS
<1>3. k # 1 => k - 1 \in 1 .. n /\ g[k - 1] \in Seq(S)
  BY <1>1
<1>4. g[k] = IF k = 1 THEN s[k] ELSE g[k - 1] \o s[k]
  BY <1>2 DEF Joins
<1>5. k # 1 => g[k - 1] \o s[k] \in Seq(S)
  BY <1>2, <1>3, ConcatInSeq
<1>. QED BY <1>2, <1>4, <1>5

(* What the proofs use: FlattenSeq of nothing, of sequences, of one more. *)
LEMMA FlattenEmpty == FlattenSeq(<<>>) = <<>>
BY DEF FlattenSeq

LEMMA FlattenInSeq ==
    ASSUME NEW S, NEW s \in Seq(Seq(S))
    PROVE  FlattenSeq(s) \in Seq(S)
<1>1. CASE Len(s) = 0
  BY <1>1, FlattenEmpty, EmptySeq
<1>2. CASE Len(s) # 0
  <2>1. Len(s) \in Nat /\ Len(s) \in 1 .. Len(s)
    BY <1>2, LenProperties
  <2>2. PICK g : Joins(g, s, Len(s)) /\ FlattenSeq(s) = g[Len(s)]
    BY <1>2, <2>1, FlattenIs
  <2>3. \A i \in 1 .. Len(s) : s[i] \in Seq(S)
    BY ElementOfSeq
  <2>4. \A i \in 1 .. Len(s) : g[i] \in Seq(S)
    BY <2>1, <2>2, <2>3, JoinInSeq
  <2>. QED BY <2>1, <2>2, <2>4
<1>. QED BY <1>1, <1>2

LEMMA FlattenAppend ==
    ASSUME NEW S, NEW s \in Seq(Seq(S)), NEW x \in Seq(S)
    PROVE  FlattenSeq(Append(s, x)) = FlattenSeq(s) \o x
<1>. DEFINE u == Append(s, x)
            len == Len(s)
<1>1. /\ len \in Nat /\ u \in Seq(Seq(S)) /\ Len(u) = len + 1 /\ u[len + 1] = x
      /\ \A i \in 1 .. len : u[i] = s[i]
  BY LenProperties, AppendProperties
<1>. HIDE DEF u
<1>2. PICK h : Joins(h, u, len + 1) /\ FlattenSeq(u) = h[len + 1]
  <2>1. Len(u) \in Nat /\ Len(u) # 0
    BY <1>1
  <2>2. \E h : Joins(h, u, Len(u)) /\ FlattenSeq(u) = h[Len(u)]
    BY <2>1, FlattenIs
  <2>. QED BY <1>1, <2>2
<1>3. h[len + 1] = IF len + 1 = 1 THEN u[len + 1] ELSE h[(len + 1) - 1] \o u[len + 1]
  <2>1. len + 1 \in 1 .. len + 1
    BY <1>1
  <2>. QED BY <1>2, <2>1 DEF Joins
<1>4. CASE len = 0
  <2>1. s = <<>> /\ FlattenSeq(s) = <<>>
    BY <1>4, EmptySeq, FlattenEmpty
  <2>2. <<>> \o x = x
    BY ConcatEmptySeq
  <2>3. FlattenSeq(u) = x
    BY <1>1, <1>2, <1>3, <1>4
  <2>. QED BY <2>1, <2>2, <2>3 DEF u
<1>5. CASE len # 0
  <2>1. PICK g : Joins(g, s, len) /\ FlattenSeq(s) = g[len]
    BY <1>1, <1>5, FlattenIs
  <2>2. len \in 1 .. len /\ len <= len + 1 /\ len + 1 \in Nat /\ (len + 1) - 1 = len /\ len + 1 # 1
    BY <1>1, <1>5
  <2>3. \A i \in 1 .. len : g[i] = h[i]
    <3>. DEFINE more == len + 1
    <3>1. /\ len \in Nat /\ more \in Nat /\ len <= more
          /\ Joins(g, s, len) /\ Joins(h, u, more)
          /\ \A i \in 1 .. len : s[i] = u[i]
      BY <1>1, <1>2, <2>1, <2>2
    <3>. HIDE DEF len, more
    <3>. QED BY <3>1, JoinUnique
  <2>4. h[len + 1] = h[len] \o x
    BY <1>1, <1>3, <2>2
  <2>. QED BY <1>2, <2>1, <2>2, <2>3, <2>4 DEF u
<1>. QED BY <1>4, <1>5

(* What it holds, and that it holds nothing twice if no two of them share an *)
(* element.                                                                  *)
LEMMA ConcatInjective ==
    ASSUME NEW S, NEW s \in Seq(S), NEW t \in Seq(S),
           IsInjective(s), IsInjective(t), ToSet(s) \intersect ToSet(t) = {}
    PROVE  IsInjective(s \o t)
<1>. DEFINE u == s \o t
<1>1. /\ Len(s) \in Nat /\ Len(t) \in Nat /\ DOMAIN s = 1 .. Len(s) /\ DOMAIN t = 1 .. Len(t)
      /\ \A i \in 1 .. Len(s) + Len(t) : u[i] = IF i <= Len(s) THEN s[i] ELSE t[i - Len(s)]
  BY LenProperties, ConcatProperties
<1>2. DOMAIN u = 1 .. Len(s) + Len(t)
  <2>1. u \in Seq(S) /\ Len(u) = Len(s) + Len(t)
    BY ConcatProperties
  <2>. QED BY <2>1, LenProperties
<1>. HIDE DEF u
<1>3. ASSUME NEW i \in 1 .. Len(s), NEW j \in 1 .. Len(t) PROVE s[i] # t[j]
  BY <1>1 DEF ToSet
<1>4. ASSUME NEW i \in 1 .. Len(s) + Len(t), NEW j \in 1 .. Len(s) + Len(t), u[i] = u[j]
      PROVE  i = j
  <2>1. CASE i <= Len(s) /\ j <= Len(s)
    <3>1. i \in 1 .. Len(s) /\ j \in 1 .. Len(s) /\ s[i] = s[j]
      BY <1>1, <1>4, <2>1
    <3>. QED BY <1>1, <3>1 DEF IsInjective
  <2>2. CASE i <= Len(s) /\ ~(j <= Len(s))
    <3>1. i \in 1 .. Len(s) /\ j - Len(s) \in 1 .. Len(t) /\ s[i] = t[j - Len(s)]
      BY <1>1, <1>4, <2>2
    <3>. QED BY <1>3, <3>1
  <2>3. CASE ~(i <= Len(s)) /\ j <= Len(s)
    <3>1. j \in 1 .. Len(s) /\ i - Len(s) \in 1 .. Len(t) /\ s[j] = t[i - Len(s)]
      BY <1>1, <1>4, <2>3
    <3>. QED BY <1>3, <3>1
  <2>4. CASE ~(i <= Len(s)) /\ ~(j <= Len(s))
    <3>1. /\ i - Len(s) \in 1 .. Len(t) /\ j - Len(s) \in 1 .. Len(t)
          /\ t[i - Len(s)] = t[j - Len(s)]
      BY <1>1, <1>4, <2>4
    <3>2. i - Len(s) = j - Len(s)
      BY <1>1, <3>1 DEF IsInjective
    <3>. QED BY <1>1, <3>2
  <2>. QED BY <2>1, <2>2, <2>3, <2>4
<1>. QED BY <1>2, <1>4 DEF IsInjective, u

(* The elements of the first k of some sequences. *)
Elements(s, k) == UNION {ToSet(s[i]) : i \in 1 .. k}

LEMMA JoinElements ==
    ASSUME NEW S, NEW s, NEW n \in Nat, NEW g, Joins(g, s, n), \A i \in 1 .. n : s[i] \in Seq(S)
    PROVE  \A k \in 1 .. n : ToSet(g[k]) = Elements(s, k)
<1>. DEFINE All(k) == Elements(s, k)
            A == {k \in Nat : k \in 1 .. n /\ ToSet(g[k]) # All(k)}
<1>. SUFFICES ASSUME A # {} PROVE FALSE
  OBVIOUS
<1>1. PICK k \in A : \A j \in A : k <= j
  <2>. A \in SUBSET Nat
    OBVIOUS
  <2>. HIDE DEF A
  <2>. QED BY LeastNatural
<1>2. k \in 1 .. n /\ k \in Nat /\ ToSet(g[k]) # All(k)
  OBVIOUS
<1>3. k # 1 => k - 1 \in 1 .. n /\ k - 1 \in Nat /\ ToSet(g[k - 1]) = All(k - 1)
  <2>. SUFFICES ASSUME k # 1 PROVE k - 1 \in 1 .. n /\ k - 1 \in Nat /\ ToSet(g[k - 1]) = All(k - 1)
    OBVIOUS
  <2>1. k - 1 \in 1 .. n /\ k - 1 \in Nat /\ ~(k <= k - 1)
    BY <1>2
  <2>2. k - 1 \notin A
    <3>. HIDE DEF A
    <3>. QED BY <1>1, <2>1
  <2>. QED BY <2>1, <2>2
<1>4. g[k] = IF k = 1 THEN s[k] ELSE g[k - 1] \o s[k]
  BY <1>2 DEF Joins
<1>5. s[k] \in Seq(S) /\ (k # 1 => g[k - 1] \in Seq(S))
  BY <1>2, <1>3, JoinInSeq
<1>6. k # 1 => ToSet(g[k - 1] \o s[k]) = ToSet(g[k - 1]) \union ToSet(s[k])
  BY <1>5, SetOfConcat
<1>7. k # 1 => All(k) = All(k - 1) \union ToSet(s[k])
  <2>. SUFFICES ASSUME k # 1 PROVE All(k) = All(k - 1) \union ToSet(s[k])
    OBVIOUS
  <2>1. 1 .. k = (1 .. k - 1) \union {k}
    BY <1>2
  <2>. QED BY <2>1 DEF Elements
<1>8. k = 1 => All(k) = ToSet(s[k])
  <2>1. 1 .. 1 = {1}
    OBVIOUS
  <2>. QED BY <2>1 DEF Elements
<1>. HIDE DEF All, A
<1>. QED BY <1>2, <1>3, <1>4, <1>6, <1>7, <1>8

LEMMA JoinInjective ==
    ASSUME NEW S, NEW s, NEW n \in Nat, NEW g, Joins(g, s, n),
           \A i \in 1 .. n : s[i] \in Seq(S) /\ IsInjective(s[i]),
           \A i, j \in 1 .. n : i # j => ToSet(s[i]) \intersect ToSet(s[j]) = {}
    PROVE  \A k \in 1 .. n : IsInjective(g[k])
<1>0. \A k \in 1 .. n : ToSet(g[k]) = Elements(s, k)
  <2>1. \A i \in 1 .. n : s[i] \in Seq(S)
    OBVIOUS
  <2>2. n \in Nat /\ Joins(g, s, n)
    OBVIOUS
  <2>. QED BY <2>1, <2>2, JoinElements, SMTT(60)
<1>. DEFINE A == {k \in Nat : k \in 1 .. n /\ ~IsInjective(g[k])}
<1>. SUFFICES ASSUME A # {} PROVE FALSE
  OBVIOUS
<1>1. PICK k \in A : \A j \in A : k <= j
  <2>. A \in SUBSET Nat
    OBVIOUS
  <2>. HIDE DEF A
  <2>. QED BY LeastNatural
<1>2. k \in 1 .. n /\ k \in Nat /\ ~IsInjective(g[k])
  OBVIOUS
<1>3. k # 1 => k - 1 \in 1 .. n /\ k - 1 \in Nat /\ IsInjective(g[k - 1])
  BY <1>1
<1>4. g[k] = IF k = 1 THEN s[k] ELSE g[k - 1] \o s[k]
  BY <1>2 DEF Joins
<1>5. s[k] \in Seq(S) /\ IsInjective(s[k]) /\ (k # 1 => g[k - 1] \in Seq(S))
  BY <1>2, <1>3, JoinInSeq
<1>6. ASSUME k # 1 PROVE ToSet(g[k - 1]) \intersect ToSet(s[k]) = {}
  <2>1. ToSet(g[k - 1]) = Elements(s, k - 1)
    BY <1>0, <1>3, <1>6
  <2>2. \A i \in 1 .. k - 1 : ToSet(s[i]) \intersect ToSet(s[k]) = {}
    <3>1. \A i \in 1 .. k - 1 : i \in 1 .. n /\ i # k
      BY <1>2
    <3>. QED BY <1>2, <3>1
  <2>. QED BY <2>1, <2>2 DEF Elements
<1>7. k # 1 => IsInjective(g[k - 1] \o s[k])
  BY <1>3, <1>5, <1>6, ConcatInjective
<1>. HIDE DEF A
<1>. QED BY <1>2, <1>4, <1>5, <1>7

LEMMA FlattenElements ==
    ASSUME NEW S, NEW s \in Seq(Seq(S))
    PROVE  /\ ToSet(FlattenSeq(s)) = Elements(s, Len(s))
           /\ /\ \A i \in 1 .. Len(s) : IsInjective(s[i])
              /\ \A i, j \in 1 .. Len(s) : i # j => ToSet(s[i]) \intersect ToSet(s[j]) = {}
              => IsInjective(FlattenSeq(s))
<1>1. Len(s) \in Nat /\ \A i \in 1 .. Len(s) : s[i] \in Seq(S)
  BY LenProperties, ElementOfSeq
<1>2. CASE Len(s) = 0
  <2>1. FlattenSeq(s) = <<>>
    BY <1>2, EmptySeq, FlattenEmpty
  <2>2. ToSet(<<>>) = {} /\ IsInjective(<<>>)
    BY DEF ToSet, IsInjective
  <2>3. Elements(s, 0) = {}
    BY DEF Elements
  <2>. QED BY <1>2, <2>1, <2>2, <2>3
<1>3. CASE Len(s) # 0
  <2>1. PICK g : Joins(g, s, Len(s)) /\ FlattenSeq(s) = g[Len(s)]
    BY <1>1, <1>3, FlattenIs
  <2>2. Len(s) \in 1 .. Len(s)
    BY <1>1, <1>3
  <2>3. ToSet(FlattenSeq(s)) = Elements(s, Len(s))
    <3>. DEFINE n == Len(s)
    <3>1. n \in Nat /\ Joins(g, s, n) /\ \A i \in 1 .. n : s[i] \in Seq(S)
      BY <1>1, <2>1
    <3>. HIDE DEF n
    <3>2. \A m \in 1 .. n : ToSet(g[m]) = Elements(s, m)
      BY <3>1, JoinElements
    <3>. QED BY <2>1, <2>2, <3>2 DEF n
  <2>4. ASSUME \A i \in 1 .. Len(s) : IsInjective(s[i]),
               \A i, j \in 1 .. Len(s) : i # j => ToSet(s[i]) \intersect ToSet(s[j]) = {}
        PROVE  IsInjective(FlattenSeq(s))
    BY <1>1, <2>1, <2>2, <2>4, JoinInjective
  <2>. QED BY <2>3, <2>4
<1>. QED BY <1>2, <1>3

------------------------------------------------------------------------------
(* The sequence that lists a finite set. *)
LEMMA ListOfSet ==
    ASSUME NEW S, IsFiniteSet(S)
    PROVE  SetToSeq(S) \in Seq(S) /\ ToSet(SetToSeq(S)) = S
<1>. DEFINE n == Cardinality(S)
            f == SetToSeq(S)
<1>1. n \in Nat /\ ExistsBijection(1 .. n, S)
  BY FS_CardinalityType
<1>2. \E g \in [1 .. n -> S] : IsInjective(g)
  BY <1>1 DEF ExistsBijection, Bijection, Injection
<1>3. f \in [1 .. n -> S] /\ IsInjective(f)
  BY <1>2 DEF SetToSeq
<1>. HIDE DEF f
<1>4. f \in Seq(S)
  <2>1. Len(f) = n /\ DOMAIN f = 1 .. n
    BY <1>1, <1>3
  <2>. QED BY <1>1, <1>3, <2>1
<1>5. f \in Injection(1 .. n, S)
  BY <1>3 DEF Injection
<1>6. Cardinality(1 .. n) = n /\ IsFiniteSet(1 .. n)
  BY <1>1, FS_Interval
<1>7. f \in Surjection(1 .. n, S)
  <2>. DEFINE I == 1 .. n
  <2>1. f \in Injection(I, S) /\ IsFiniteSet(I) /\ Cardinality(I) = Cardinality(S)
    BY <1>5, <1>6
  <2>. HIDE DEF I
  <2>2. f \in Surjection(I, S)
    BY <2>1, FS_Injection
  <2>. QED BY <2>2 DEF I
<1>8. ToSet(f) = S
  BY <1>3, <1>7 DEF ToSet, Surjection
<1>. QED BY <1>4, <1>8 DEF f

==============================================================================
