------------------------------ MODULE QueueLemmas ------------------------------
(***************************************************************************)
(* Queues in which no entry occurs twice: what taking the head, joining at *)
(* the end, removing an entry and putting one in front do to the entries   *)
(* and to their order.                                                     *)
(***************************************************************************)
EXTENDS Integers, SequencesExt, SequenceTheorems, TLAPS

(* The empty queue has no entries. *)
LEMMA EmptyQueue ==
    ASSUME NEW S
    PROVE  <<>> \in Seq(S) /\ Range(<<>>) = {} /\ IsInjective(<<>>)
BY DEF Range, IsInjective

(* Taking the head of a queue takes that entry and no other. *)
LEMMA TailOfQueue ==
    ASSUME NEW S, NEW s \in Seq(S), s # <<>>, IsInjective(s)
    PROVE  /\ Head(s) \in Range(s) /\ Range(s) \subseteq S
           /\ Tail(s) \in Seq(S) /\ IsInjective(Tail(s))
           /\ Range(Tail(s)) = Range(s) \ {Head(s)}
<1>1. Len(s) \in Nat \ {0} /\ DOMAIN s = 1..Len(s) /\ \A i \in 1..Len(s) : s[i] \in S
  BY LenProperties, ElementOfSeq, EmptySeq
<1>2. /\ Tail(s) \in Seq(S) /\ Len(Tail(s)) = Len(s) - 1
      /\ DOMAIN Tail(s) = 1..(Len(s) - 1)
      /\ \A i \in 1..(Len(s) - 1) : Tail(s)[i] = s[i + 1]
  BY HeadTailProperties, LenProperties
<1>3. Head(s) = s[1]
  OBVIOUS
<1>4. Range(s) \subseteq S /\ Head(s) \in Range(s)
  BY <1>1, <1>3 DEF Range
<1>5. IsInjective(Tail(s))
  <2>1. ASSUME NEW i \in 1..(Len(s) - 1), NEW j \in 1..(Len(s) - 1),
               Tail(s)[i] = Tail(s)[j]
        PROVE  i = j
    <3>1. i + 1 \in DOMAIN s /\ j + 1 \in DOMAIN s /\ s[i + 1] = s[j + 1]
      BY <1>1, <1>2, <2>1
    <3>2. i + 1 = j + 1
      BY <3>1 DEF IsInjective
    <3>. QED  BY <3>2, <1>1
  <2>. QED  BY <2>1, <1>2 DEF IsInjective
<1>6. ASSUME NEW e \in Range(Tail(s))  PROVE  e \in Range(s) \ {Head(s)}
  <2>1. PICK i \in 1..(Len(s) - 1) : e = Tail(s)[i]
    BY <1>6, <1>2 DEF Range
  <2>2. i + 1 \in DOMAIN s /\ e = s[i + 1] /\ 1 \in DOMAIN s /\ i + 1 # 1
    BY <2>1, <1>1, <1>2
  <2>. QED  BY <2>2, <1>3 DEF Range, IsInjective
<1>7. ASSUME NEW e \in Range(s), e # Head(s)  PROVE  e \in Range(Tail(s))
  <2>1. PICK i \in 1..Len(s) : e = s[i]
    BY <1>7, <1>1 DEF Range
  <2>2. i - 1 \in 1..(Len(s) - 1) /\ Tail(s)[i - 1] = e
    BY <2>1, <1>1, <1>2, <1>3, <1>7
  <2>. QED  BY <2>2, <1>2 DEF Range
<1>. QED  BY <1>2, <1>4, <1>5, <1>6, <1>7

(* An entry that is not in the queue joins at its end. *)
LEMMA AppendToQueue ==
    ASSUME NEW S, NEW s \in Seq(S), NEW e \in S, e \notin Range(s), IsInjective(s)
    PROVE  /\ Append(s, e) \in Seq(S) /\ IsInjective(Append(s, e))
           /\ Range(Append(s, e)) = Range(s) \cup {e}
<1>1. Len(s) \in Nat /\ DOMAIN s = 1..Len(s)
  BY LenProperties
<1>2. /\ Append(s, e) \in Seq(S) /\ DOMAIN Append(s, e) = 1..(Len(s) + 1)
      /\ \A i \in 1..Len(s) : Append(s, e)[i] = s[i]
      /\ Append(s, e)[Len(s) + 1] = e
  BY AppendProperties, LenProperties
<1>3. \A i \in 1..Len(s) : s[i] # e
  BY <1>1 DEF Range
<1>4. ASSUME NEW i \in 1..(Len(s) + 1), NEW j \in 1..(Len(s) + 1),
             Append(s, e)[i] = Append(s, e)[j]
      PROVE  i = j
  <2>1. CASE i \in 1..Len(s) /\ j \in 1..Len(s)
    BY <2>1, <1>1, <1>2, <1>4 DEF IsInjective
  <2>2. CASE ~(i \in 1..Len(s) /\ j \in 1..Len(s))
    BY <2>2, <1>1, <1>2, <1>3, <1>4
  <2>. QED  BY <2>1, <2>2
<1>5. IsInjective(Append(s, e))
  BY <1>2, <1>4 DEF IsInjective
<1>6. ASSUME NEW x  PROVE  x \in Range(Append(s, e)) <=> x \in Range(s) \cup {e}
  <2>1. x \in Range(Append(s, e)) <=> \E i \in 1..(Len(s) + 1) : x = Append(s, e)[i]
    BY <1>2 DEF Range
  <2>2. x \in Range(s) <=> \E i \in 1..Len(s) : x = s[i]
    BY <1>1 DEF Range
  <2>3. 1..(Len(s) + 1) = 1..Len(s) \cup {Len(s) + 1}
    BY <1>1
  <2>. QED  BY <2>1, <2>2, <2>3, <1>2
<1>. QED  BY <1>2, <1>5, <1>6

(* The entry at place i is taken out, and the later ones move up. *)
LEMMA RemoveAtPlace ==
    ASSUME NEW S, NEW s \in Seq(S), NEW i \in 1..Len(s)
    PROVE  /\ RemoveAt(s, i) \in Seq(S) /\ Len(RemoveAt(s, i)) = Len(s) - 1
           /\ \A j \in 1..(Len(s) - 1) :
                RemoveAt(s, i)[j] = IF j < i THEN s[j] ELSE s[j + 1]
<1>1. Len(s) \in Nat /\ \A k \in 1..Len(s) : s[k] \in S
  BY LenProperties, ElementOfSeq
<1>2. /\ SubSeq(s, 1, i - 1) \in Seq(S) /\ Len(SubSeq(s, 1, i - 1)) = i - 1
      /\ \A j \in 1..(i - 1) : SubSeq(s, 1, i - 1)[j] = s[j]
  <2>1. \A k \in 1..(i - 1) : s[k] \in S
    BY <1>1
  <2>2. 1 \in Int /\ i - 1 \in Int
    OBVIOUS
  <2>. QED  BY <1>1, <2>1, <2>2, SubSeqProperties
<1>3. /\ SubSeq(s, i + 1, Len(s)) \in Seq(S)
      /\ Len(SubSeq(s, i + 1, Len(s))) = Len(s) - i
      /\ \A j \in 1..(Len(s) - i) : SubSeq(s, i + 1, Len(s))[j] = s[i + j]
  <2>1. \A k \in (i + 1)..Len(s) : s[k] \in S
    BY <1>1
  <2>2. i + 1 \in Int /\ Len(s) \in Int
    BY <1>1
  <2>3. /\ SubSeq(s, i + 1, Len(s)) \in Seq(S)
        /\ Len(SubSeq(s, i + 1, Len(s))) =
               IF i + 1 <= Len(s) THEN Len(s) - (i + 1) + 1 ELSE 0
        /\ \A j \in 1..(Len(s) - (i + 1) + 1) :
               SubSeq(s, i + 1, Len(s))[j] = s[i + 1 + j - 1]
    BY <2>1, <2>2, SubSeqProperties
  <2>4. Len(SubSeq(s, i + 1, Len(s))) = Len(s) - i
    BY <2>3, <1>1
  <2>5. ASSUME NEW j \in 1..(Len(s) - i)
        PROVE  SubSeq(s, i + 1, Len(s))[j] = s[i + j]
    <3>1. j \in 1..(Len(s) - (i + 1) + 1) /\ i + 1 + j - 1 = i + j
      BY <1>1
    <3>. QED  BY <3>1, <2>3
  <2>. QED  BY <2>3, <2>4, <2>5
<1>4. (i - 1) + (Len(s) - i) = Len(s) - 1
  BY <1>1
<1> DEFINE a == SubSeq(s, 1, i - 1)
           b == SubSeq(s, i + 1, Len(s))
<1>5. /\ RemoveAt(s, i) \in Seq(S) /\ Len(RemoveAt(s, i)) = Len(s) - 1
      /\ \A j \in 1..(Len(s) - 1) :
            RemoveAt(s, i)[j] = IF j <= i - 1 THEN SubSeq(s, 1, i - 1)[j]
                                ELSE SubSeq(s, i + 1, Len(s))[j - (i - 1)]
  <2>1. RemoveAt(s, i) = a \o b
    BY DEF RemoveAt
  <2>2. a \in Seq(S) /\ b \in Seq(S) /\ Len(a) = i - 1 /\ Len(a) + Len(b) = Len(s) - 1
    BY <1>2, <1>3, <1>4
  <2> HIDE DEF a, b
  <2>3. /\ a \o b \in Seq(S) /\ Len(a \o b) = Len(s) - 1
        /\ \A j \in 1..(Len(s) - 1) :
              (a \o b)[j] = IF j <= i - 1 THEN a[j] ELSE b[j - (i - 1)]
    <3>1. /\ a \o b \in Seq(S) /\ Len(a \o b) = Len(a) + Len(b)
          /\ \A j \in 1..(Len(a) + Len(b)) :
                (a \o b)[j] = IF j <= Len(a) THEN a[j] ELSE b[j - Len(a)]
      BY <2>2, ConcatProperties
    <3>. QED  BY <3>1, <2>2
  <2>. QED  BY Zenon, <2>1, <2>3 DEF a, b
<1>6. ASSUME NEW j \in 1..(Len(s) - 1)
      PROVE  RemoveAt(s, i)[j] = IF j < i THEN s[j] ELSE s[j + 1]
  <2>1. CASE j < i
    BY <2>1, <1>1, <1>2, <1>5
  <2>2. CASE ~(j < i)
    <3>1. j - (i - 1) \in 1..(Len(s) - i) /\ i + (j - (i - 1)) = j + 1 /\ ~(j <= i - 1)
      BY <2>2, <1>1
    <3>2. RemoveAt(s, i)[j] = SubSeq(s, i + 1, Len(s))[j - (i - 1)]
      BY <3>1, <1>5
    <3>. QED  BY <3>1, <3>2, <1>3, <2>2
  <2>. QED  BY <2>1, <2>2
<1>. QED  BY <1>5, <1>6

(* Removing an entry of a queue takes it out at its one place. *)
LEMMA RemoveFromQueue ==
    ASSUME NEW S, NEW s \in Seq(S), NEW e \in Range(s), IsInjective(s)
    PROVE  /\ RemoveFirst(s, e) \in Seq(S) /\ IsInjective(RemoveFirst(s, e))
           /\ Range(RemoveFirst(s, e)) = Range(s) \ {e}
           /\ \E i \in 1..Len(s) : s[i] = e /\ RemoveFirst(s, e) = RemoveAt(s, i)
<1>1. Len(s) \in Nat /\ DOMAIN s = 1..Len(s)
  BY LenProperties
<1>2. PICK i \in 1..Len(s) : s[i] = e
  BY <1>1 DEF Range
<1>3. RemoveFirst(s, e) = RemoveAt(s, i)
  <2>1. {k \in 1..Len(s) : s[k] = e} = {i}
    BY <1>1, <1>2 DEF IsInjective
  <2>2. Min({i}) = i
    BY <1>1 DEF Min
  <2>3. SelectInSeq(s, LAMBDA v : v = e) = i
    BY <2>1, <2>2 DEF SelectInSeq
  <2>. QED  BY <2>3, <1>2 DEF RemoveFirst
<1>4. /\ RemoveAt(s, i) \in Seq(S) /\ DOMAIN RemoveAt(s, i) = 1..(Len(s) - 1)
      /\ \A j \in 1..(Len(s) - 1) :
            RemoveAt(s, i)[j] = IF j < i THEN s[j] ELSE s[j + 1]
  BY RemoveAtPlace, LenProperties
<1>5. IsInjective(RemoveAt(s, i))
  <2>1. ASSUME NEW j \in 1..(Len(s) - 1), NEW k \in 1..(Len(s) - 1),
               RemoveAt(s, i)[j] = RemoveAt(s, i)[k]
        PROVE  j = k
    <3>1. PICK a \in 1..Len(s) : a = IF j < i THEN j ELSE j + 1
      BY <1>1
    <3>2. PICK b \in 1..Len(s) : b = IF k < i THEN k ELSE k + 1
      BY <1>1
    <3>3. s[a] = s[b]
      BY <2>1, <3>1, <3>2, <1>4
    <3>4. a = b
      BY <3>3, <1>1 DEF IsInjective
    <3>. QED  BY <3>1, <3>2, <3>4
  <2>. QED  BY <2>1, <1>4 DEF IsInjective
<1>6. ASSUME NEW x \in Range(RemoveAt(s, i))  PROVE  x \in Range(s) \ {e}
  <2>1. PICK j \in 1..(Len(s) - 1) : x = RemoveAt(s, i)[j]
    BY <1>6, <1>4 DEF Range
  <2>2. PICK a \in 1..Len(s) : a = IF j < i THEN j ELSE j + 1
    BY <1>1
  <2>3. x = s[a] /\ a # i
    BY <2>1, <2>2, <1>4
  <2>. QED  BY <2>3, <1>1, <1>2 DEF Range, IsInjective
<1>7. ASSUME NEW x \in Range(s), x # e  PROVE  x \in Range(RemoveAt(s, i))
  <2>1. PICK a \in 1..Len(s) : x = s[a] /\ a # i
    BY <1>7, <1>1, <1>2 DEF Range
  <2>2. PICK j \in 1..(Len(s) - 1) : a = IF j < i THEN j ELSE j + 1
    <3>1. CASE a < i
      BY <3>1, <1>1
    <3>2. CASE a > i
      <4>1. a - 1 \in 1..(Len(s) - 1) /\ ~(a - 1 < i) /\ a = (a - 1) + 1
        BY <3>2, <1>1
      <4>. QED  BY <4>1
    <3>. QED  BY <3>1, <3>2, <2>1, <1>1
  <2>3. x = RemoveAt(s, i)[j]
    BY <2>1, <2>2, <1>4
  <2>. QED  BY <2>3, <1>4 DEF Range
<1>. QED  BY <1>2, <1>3, <1>4, <1>5, <1>6, <1>7

(* An entry before a queue, its head, its rest and its entries. *)
LEMMA EntryBefore ==
    ASSUME NEW S, NEW e \in S, NEW s \in Seq(S)
    PROVE  /\ <<e>> \o s \in Seq(S) /\ <<e>> \o s # <<>>
           /\ Len(<<e>> \o s) = Len(s) + 1 /\ (<<e>> \o s)[1] = e
           /\ \A i \in 1..Len(s) : (<<e>> \o s)[i + 1] = s[i]
           /\ Head(<<e>> \o s) = e /\ Tail(<<e>> \o s) = s
           /\ Range(<<e>> \o s) = {e} \cup Range(s)
<1>1. <<e>> \in Seq(S) /\ Len(<<e>>) = 1 /\ <<e>>[1] = e /\ Len(s) \in Nat
  BY LenProperties
<1> DEFINE a == <<e>>
           c == a \o s
<1> HIDE DEF a
<1>2. c \in Seq(S) /\ Len(c) = Len(s) + 1 /\ c[1] = e /\ \A i \in 1..Len(s) : c[i + 1] = s[i]
  <2>1. a \in Seq(S) /\ Len(a) = 1 /\ a[1] = e
    BY <1>1 DEF a
  <2>2. /\ a \o s \in Seq(S) /\ Len(a \o s) = Len(a) + Len(s)
        /\ \A i \in 1..(Len(a) + Len(s)) :
              (a \o s)[i] = IF i <= Len(a) THEN a[i] ELSE s[i - Len(a)]
    BY <2>1, ConcatProperties
  <2>3. ASSUME NEW i \in 1..Len(s)  PROVE c[i + 1] = s[i]
    <3>1. i + 1 \in 1..(Len(a) + Len(s)) /\ ~(i + 1 <= Len(a)) /\ (i + 1) - Len(a) = i
      BY <1>1, <2>1
    <3>. QED  BY <2>2, <3>1
  <2>. QED  BY <1>1, <2>1, <2>2, <2>3
<1> HIDE DEF c
<1>3. c # <<>> /\ Head(c) = e
  <2>1. c # <<>>
    BY <1>1, <1>2, EmptySeq
  <2>. QED  BY <1>2, <2>1
<1>4. Tail(c) = s
  <2>1. /\ Tail(c) \in Seq(S) /\ Len(Tail(c)) = Len(c) - 1
        /\ \A i \in 1..Len(Tail(c)) : Tail(c)[i] = c[i + 1]
    BY <1>2, <1>3, HeadTailProperties
  <2>2. Len(Tail(c)) = Len(s)
    BY <1>1, <1>2, <2>1
  <2>. QED  BY <1>2, <2>1, <2>2, SeqEqual
<1>5. Range(c) = {e} \cup Range(s)
  <2>1. DOMAIN c = 1..(Len(s) + 1) /\ DOMAIN s = 1..Len(s)
    BY <1>2, LenProperties
  <2>2. ASSUME NEW x \in Range(c)  PROVE x \in {e} \cup Range(s)
    <3>1. PICK i \in 1..(Len(s) + 1) : x = c[i]
      BY <2>1, <2>2 DEF Range
    <3>2. CASE i = 1
      BY <1>2, <3>1, <3>2
    <3>3. CASE i # 1
      <4>1. i - 1 \in 1..Len(s) /\ c[(i - 1) + 1] = s[i - 1] /\ (i - 1) + 1 = i
        BY <1>1, <1>2, <3>3
      <4>. QED  BY <2>1, <3>1, <4>1 DEF Range
    <3>. QED  BY <3>2, <3>3
  <2>3. ASSUME NEW x \in Range(s)  PROVE x \in Range(c)
    <3>1. PICK i \in 1..Len(s) : x = s[i]
      BY <2>1, <2>3 DEF Range
    <3>2. i + 1 \in 1..(Len(s) + 1) /\ x = c[i + 1]
      BY <1>1, <1>2, <3>1
    <3>. QED  BY <2>1, <3>2 DEF Range
  <2>4. e \in Range(c)
    <3>1. 1 \in DOMAIN c /\ c[1] = e
      BY <1>1, <1>2, <2>1
    <3>. QED  BY <3>1 DEF Range
  <2>. QED  BY <2>2, <2>3, <2>4
<1>. QED  BY <1>2, <1>3, <1>4, <1>5 DEF a, c

(* Removing the i-th of a queue removes the next one behind a first entry. *)
LEMMA RemoveBehind ==
    ASSUME NEW S, NEW e \in S, NEW s \in Seq(S), NEW i \in 1..Len(s)
    PROVE  /\ i + 1 \in 1..Len(<<e>> \o s)
           /\ RemoveAt(<<e>> \o s, i + 1) = <<e>> \o RemoveAt(s, i)
<1> DEFINE c == <<e>> \o s
           r == RemoveAt(s, i)
           d == <<e>> \o r
<1>1. Len(s) \in Nat
  BY LenProperties
<1>2. /\ c \in Seq(S) /\ Len(c) = Len(s) + 1 /\ c[1] = e
      /\ \A j \in 1..Len(s) : c[j + 1] = s[j]
  BY EntryBefore
<1>3. /\ r \in Seq(S) /\ Len(r) = Len(s) - 1
      /\ \A j \in 1..(Len(s) - 1) : r[j] = IF j < i THEN s[j] ELSE s[j + 1]
  BY RemoveAtPlace
<1>4. /\ d \in Seq(S) /\ Len(d) = Len(r) + 1 /\ d[1] = e
      /\ \A j \in 1..Len(r) : d[j + 1] = r[j]
  BY <1>3, EntryBefore
<1> HIDE DEF c, r, d
<1>5. i + 1 \in 1..Len(c)
  BY <1>1, <1>2
<1>6. /\ RemoveAt(c, i + 1) \in Seq(S) /\ Len(RemoveAt(c, i + 1)) = Len(c) - 1
      /\ \A j \in 1..(Len(c) - 1) :
            RemoveAt(c, i + 1)[j] = IF j < i + 1 THEN c[j] ELSE c[j + 1]
  BY <1>2, <1>5, RemoveAtPlace
<1>7. ASSUME NEW j \in 1..Len(s)  PROVE RemoveAt(c, i + 1)[j] = d[j]
  <2>1. RemoveAt(c, i + 1)[j] = IF j < i + 1 THEN c[j] ELSE c[j + 1]
    BY <1>1, <1>2, <1>6
  <2>2. CASE j = 1
    BY <1>2, <1>4, <2>1, <2>2
  <2>3. CASE j # 1
    <3>1. PICK k \in 1..(Len(s) - 1) : j = k + 1
      <4>1. j - 1 \in 1..(Len(s) - 1) /\ j = (j - 1) + 1
        BY <1>1, <2>3
      <4>. QED  BY <4>1
    <3>2. d[j] = IF k < i THEN s[k] ELSE s[k + 1]
      BY <1>1, <1>3, <1>4, <3>1
    <3>3. c[j] = s[k] /\ c[j + 1] = s[k + 1] /\ (j < i + 1 <=> k < i)
      BY <1>1, <1>2, <3>1
    <3>. QED  BY <2>1, <3>2, <3>3
  <2>. QED  BY <2>2, <2>3
<1>8. RemoveAt(c, i + 1) = d
  <2>1. Len(RemoveAt(c, i + 1)) = Len(s) /\ Len(d) = Len(s)
    BY <1>1, <1>2, <1>3, <1>4, <1>6
  <2>. QED  BY <1>4, <1>6, <1>7, <2>1, SeqEqual
<1>. QED  BY <1>5, <1>8 DEF c, d, r

(* Dropping an entry, if it is there, keeps the others and their order. *)
LEMMA DropFromQueue ==
    ASSUME NEW S, NEW s \in Seq(S), NEW e, IsInjective(s)
    PROVE  /\ RemoveFirst(s, e) \in Seq(S) /\ IsInjective(RemoveFirst(s, e))
           /\ Range(RemoveFirst(s, e)) = Range(s) \ {e}
           /\ Head(s) \in Range(s) \ {e} => Head(RemoveFirst(s, e)) = Head(s)
<1>1. Len(s) \in Nat /\ DOMAIN s = 1..Len(s)
  BY LenProperties
<1>2. CASE e \notin Range(s)
  <2>1. RemoveFirst(s, e) = s
    BY <1>1, <1>2 DEF RemoveFirst, Range
  <2>. QED  BY <1>2, <2>1
<1>3. CASE e \in Range(s)
  <2>1. /\ RemoveFirst(s, e) \in Seq(S) /\ IsInjective(RemoveFirst(s, e))
        /\ Range(RemoveFirst(s, e)) = Range(s) \ {e}
    BY <1>3, RemoveFromQueue
  <2>2. PICK i \in 1..Len(s) : s[i] = e /\ RemoveFirst(s, e) = RemoveAt(s, i)
    BY <1>3, RemoveFromQueue
  <2>3. PICK r : r = RemoveFirst(s, e)
    OBVIOUS
  <2>4. /\ r \in Seq(S) /\ Len(r) = Len(s) - 1
        /\ \A j \in 1..(Len(s) - 1) : r[j] = IF j < i THEN s[j] ELSE s[j + 1]
    BY <2>2, <2>3, RemoveAtPlace
  <2>5. ASSUME Head(s) \in Range(s) \ {e}  PROVE Head(r) = Head(s)
    <3>1. s # <<>> /\ Head(s) = s[1]
      BY <2>2
    <3>2. i # 1
      BY <2>2, <2>5, <3>1
    <3>3. 1 \in 1..(Len(s) - 1) /\ 1 < i
      BY <1>1, <3>2
    <3>4. r[1] = s[1] /\ r # <<>>
      BY <2>4, <3>3, EmptySeq
    <3>. QED  BY <2>4, <3>1, <3>4
  <2>. QED  BY <2>1, <2>3, <2>5
<1>. QED  BY <1>2, <1>3

(* Joining at the end leaves the head where it is. *)
LEMMA HeadOfAppend ==
    ASSUME NEW S, NEW s \in Seq(S), NEW e \in S, s # <<>>
    PROVE  Head(Append(s, e)) = Head(s)
BY HeadTailAppend

================================================================================
