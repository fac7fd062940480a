----------------------------- MODULE Mccp2Proofs -----------------------------
(***************************************************************************)
(* Proofs about MCCP2, for any network of ends and proxies, buffers and    *)
(* chunks of any size and any number of messages and compressed streams.   *)
(* First the streams of units: what is left of a stream that is read or    *)
(* cut, where it is compressed, and which messages it holds.               *)
(***************************************************************************)
EXTENDS Mccp2, SequenceTheorems, WellFoundedInduction, TLAPS

-----------------------------------------------------------------------------
(* Numbers and sequences.                                                  *)

\* The least of some numbers.
LEMMA MinMember ==
    ASSUME NEW S \in SUBSET Nat, S # {}
    PROVE  Min(S) \in S /\ \A x \in S : Min(S) <= x
<1> DEFINE R == OpToRel(<, Nat)
<1>1. IsWellFoundedOn(R, Nat)
  BY NatLessThanWellFounded
<1>2. \A x, y \in Nat : <<x, y>> \in R <=> x < y
  BY DEF OpToRel
<1> HIDE DEF R
<1>3. PICK x \in S : \A y \in S : ~(<<y, x>> \in R)
  BY <1>1, WFMin
<1>4. ASSUME NEW y \in S
      PROVE  x <= y
  <2>1. x \in Nat /\ y \in Nat /\ ~(y < x)
    BY <1>2, <1>3
  <2> QED
    BY <2>1
<1> QED
  BY <1>3, <1>4 DEF Min

LEMMA MinOfTwo ==
    ASSUME NEW a \in Nat, NEW b \in Nat
    PROVE  Min({a, b}) = IF a <= b THEN a ELSE b
BY DEF Min

\* The greatest, if there is one.
LEMMA MaxIs ==
    ASSUME NEW S \in SUBSET Nat, NEW m \in S, \A x \in S : x <= m
    PROVE  Max(S) = m
<1>1. Max(S) \in S /\ \A x \in S : Max(S) >= x
  BY DEF Max
<1>2. Max(S) \in Nat /\ m \in Nat /\ Max(S) <= m /\ m <= Max(S)
  BY <1>1
<1> QED
  BY <1>2

\* A stream cut in two.
LEMMA Cut ==
    ASSUME NEW S, NEW s \in Seq(S), NEW k \in 0 .. Len(s)
    PROVE  /\ SubSeq(s, 1, k) \in Seq(S) /\ SubSeq(s, k + 1, Len(s)) \in Seq(S)
           /\ SubSeq(s, 1, k) \o SubSeq(s, k + 1, Len(s)) = s
           /\ k > 0 => SubSeq(s, 1, k) # <<>>
           /\ Len(SubSeq(s, k + 1, Len(s))) = Len(s) - k
           /\ \A i \in 1 .. Len(s) - k : SubSeq(s, k + 1, Len(s))[i] = s[k + i]
<1>1. Len(s) \in Nat /\ k \in Nat /\ k <= Len(s) /\ \A i \in 1 .. Len(s) : s[i] \in S
  BY LenProperties, ElementOfSeq
<1>2. /\ SubSeq(s, 1, k) \in Seq(S) /\ Len(SubSeq(s, 1, k)) = IF 1 <= k THEN k ELSE 0
  BY <1>1, SubSeqProperties
<1>3. /\ SubSeq(s, k + 1, Len(s)) \in Seq(S)
      /\ Len(SubSeq(s, k + 1, Len(s))) = Len(s) - k
      /\ \A i \in 1 .. Len(s) - k : SubSeq(s, k + 1, Len(s))[i] = s[k + i]
  <2> DEFINE a == k + 1
             n == Len(s)
  <2>1. /\ a \in Int /\ n \in Int /\ \A i \in a .. n : s[i] \in S
        /\ n - a + 1 = n - k /\ (IF a <= n THEN n - a + 1 ELSE 0) = n - k
        /\ \A i \in 1 .. n - k : a + i - 1 = k + i
    BY <1>1
  <2> HIDE DEF a, n
  <2>2. /\ SubSeq(s, a, n) \in Seq(S) /\ Len(SubSeq(s, a, n)) = IF a <= n THEN n - a + 1 ELSE 0
        /\ \A i \in 1 .. n - a + 1 : SubSeq(s, a, n)[i] = s[a + i - 1]
    BY <2>1, SubSeqProperties
  <2> QED
    BY <2>1, <2>2 DEF a, n
<1>4. SubSeq(s, 1, k) \o SubSeq(s, k + 1, Len(s)) = s
  <2> DEFINE n == Len(s)
  <2>1. 1 \in 1 .. n + 1 /\ k \in 1 - 1 .. n /\ n \in k .. n /\ SubSeq(s, 1, n) = s
    BY <1>1, SubSeqFull
  <2> QED
    BY <2>1, ConcatAdjacentSubSeq
<1>5. k > 0 => SubSeq(s, 1, k) # <<>>
  BY <1>1, <1>2, EmptySeq
<1> QED
  BY <1>2, <1>3, <1>4, <1>5

\* A stream and its first unit.
LEMMA HeadThenTail ==
    ASSUME NEW S, NEW s \in Seq(S), s # <<>>
    PROVE  s = <<Head(s)>> \o Tail(s)
<1>1. Len(s) \in Nat /\ Len(s) # 0
  BY EmptySeq, LenProperties
<1>2. SubSeq(s, 1, Len(s)) = <<s[1]>> \o SubSeq(s, 1 + 1, Len(s))
  <2>1. 1 \in 1 .. Len(s) /\ Len(s) \in 1 .. Len(s)
    BY <1>1
  <2> QED
    BY <2>1, SubSeqRecursiveFirst
<1>3. SubSeq(s, 1, Len(s)) = s /\ Tail(s) = SubSeq(s, 1 + 1, Len(s)) /\ Head(s) = s[1]
  BY SubSeqFull, TailIsSubSeq
<1> QED
  BY <1>2, <1>3

-----------------------------------------------------------------------------
(* Units, and streams of them.                                             *)

\* What is not compressed, and what is.
Plain == [kind : {"data", "environ"}, n : Nat] \cup {Marker, Garbage}

PackedUnit == {Packed(u) : u \in Plain \cup {End}}

Unit == Plain \cup PackedUnit

\* What turns compression on and off.
Switch == {Marker, Packed(End)}

LEMMA PlainFacts ==
    /\ \A u \in Plain : u.kind # "packed" /\ u # End /\ u \in Unit /\ (u \in Switch <=> u = Marker)
    /\ Marker \in Plain /\ Garbage \in Plain /\ Garbage # Marker
BY DEF Plain, Unit, Switch, Marker, Garbage, End, Packed

LEMMA PackedFacts ==
    ASSUME NEW u \in Plain \cup {End}
    PROVE  /\ Packed(u) \in PackedUnit /\ Packed(u) \in Unit
           /\ Packed(u).kind = "packed" /\ Packed(u).unit = u
           /\ Packed(u) # Marker /\ (Packed(u) \in Switch <=> u = End)
<1>1. Packed(u).kind = "packed" /\ Packed(u).unit = u /\ Packed(End).unit = End
  BY DEF Packed
<1>2. Packed(u) # Marker
  BY <1>1 DEF Marker
<1> QED
  BY <1>1, <1>2 DEF PackedUnit, Unit, Switch

LEMMA UnitFacts ==
    ASSUME NEW u \in Unit
    PROVE  /\ u.kind # "packed" => u \in Plain
           /\ u.kind = "packed" => /\ u \in PackedUnit /\ u.unit \in Plain \cup {End}
                                   /\ u # Marker /\ (u \in Switch <=> u.unit = End)
<1>1. CASE u \in Plain
  BY <1>1, PlainFacts
<1>2. CASE u \in PackedUnit
  <2>1. PICK v \in Plain \cup {End} : u = Packed(v)
    BY <1>2 DEF PackedUnit
  <2> QED
    BY <1>2, <2>1, PackedFacts
<1> QED
  BY <1>1, <1>2 DEF Unit

\* The stream is, or is not, compressed after its first k units, if it is, or
\* is not, before them.
After(s, before, k, after) ==
    \/ /\ \A i \in 1 .. k : s[i] \notin Switch
       /\ after <=> before
    \/ \E j \in 1 .. k : /\ s[j] \in Switch
                         /\ \A i \in j + 1 .. k : s[i] \notin Switch
                         /\ after <=> s[j] = Marker

\* Each unit of the stream is compressed if and only if the stream is there.
InFrame(s, before, after) ==
    /\ \A i \in 1 .. Len(s) : After(s, before, i - 1, s[i].kind = "packed")
    /\ After(s, before, Len(s), after)

LEMMA FrameEmpty ==
    ASSUME NEW b \in BOOLEAN
    PROVE  InFrame(<<>>, b, b)
BY DEF InFrame, After

\* Streams one after the other.
LEMMA FrameConcat ==
    ASSUME NEW s \in Seq(Unit), NEW t \in Seq(Unit),
           NEW a \in BOOLEAN, NEW b \in BOOLEAN, NEW c \in BOOLEAN,
           InFrame(s, a, b), InFrame(t, b, c)
    PROVE  InFrame(s \o t, a, c)
<1> DEFINE v == s \o t
           n == Len(s)
           m == Len(t)
<1>1. /\ n \in Nat /\ m \in Nat /\ Len(v) = n + m
      /\ \A i \in 1 .. n : v[i] = s[i]
      /\ \A i \in 1 .. m : v[n + i] = t[i]
  <2>1. n \in Nat /\ m \in Nat
    BY LenProperties
  <2>2. /\ Len(v) = n + m
        /\ \A i \in 1 .. n + m : v[i] = IF i <= n THEN s[i] ELSE t[i - n]
    BY ConcatProperties
  <2> HIDE DEF v, n, m
  <2>3. ASSUME NEW i \in 1 .. m
        PROVE  v[n + i] = t[i]
    <3>1. n + i \in 1 .. n + m /\ ~(n + i <= n) /\ (n + i) - n = i
      BY <2>1
    <3> QED
      BY <2>2, <3>1
  <2> QED
    BY <2>1, <2>2, <2>3
<1>2. /\ \A i \in 1 .. n : After(s, a, i - 1, s[i].kind = "packed")
      /\ After(s, a, n, b)
      /\ \A i \in 1 .. m : After(t, b, i - 1, t[i].kind = "packed")
      /\ After(t, b, m, c)
  BY DEF InFrame
<1> HIDE DEF v, n, m
<1>3. ASSUME NEW k \in 0 .. n, NEW x \in BOOLEAN, After(s, a, k, x)
      PROVE  After(v, a, k, x)
  <2>1. \A i \in 1 .. k : v[i] = s[i]
    BY <1>1
  <2>2. \A j \in 1 .. k : \A i \in j + 1 .. k : i \in 1 .. k
    BY <1>1
  <2> QED
    BY <1>3, <2>1, <2>2 DEF After
<1>4. ASSUME NEW k \in 0 .. m, NEW x \in BOOLEAN, After(t, b, k, x)
      PROVE  After(v, a, n + k, x)
  <2>1. \A i \in 1 .. k : n + i \in 1 .. n + k /\ v[n + i] = t[i]
    BY <1>1
  <2>2. ASSUME NEW i \in 1 .. n + k
        PROVE  \/ i \in 1 .. n /\ v[i] = s[i]
               \/ i - n \in 1 .. k /\ v[i] = t[i - n]
    <3>1. CASE i <= n
      BY <1>1, <3>1
    <3>2. CASE ~(i <= n)
      <4>1. i - n \in 1 .. k /\ n + (i - n) = i
        BY <1>1, <3>2
      <4> QED
        BY <2>1, <4>1
    <3> QED
      BY <3>1, <3>2
  <2>3. CASE (\A i \in 1 .. k : t[i] \notin Switch) /\ (x <=> b)
    <3>1. CASE (\A i \in 1 .. n : s[i] \notin Switch) /\ (b <=> a)
      <4>1. \A i \in 1 .. n + k : v[i] \notin Switch
        BY <2>2, <2>3, <3>1
      <4> QED
        BY <2>3, <3>1, <4>1 DEF After
    <3>2. ASSUME NEW j \in 1 .. n, s[j] \in Switch, \A i \in j + 1 .. n : s[i] \notin Switch,
                 b <=> s[j] = Marker
          PROVE  After(v, a, n + k, x)
      <4>1. j \in 1 .. n + k /\ v[j] = s[j]
        BY <1>1
      <4>2. ASSUME NEW i \in j + 1 .. n + k
            PROVE  v[i] \notin Switch
        <5>1. i \in 1 .. n + k /\ (i \in 1 .. n => i \in j + 1 .. n)
          BY <1>1
        <5> QED
          BY <2>2, <2>3, <3>2, <5>1
      <4> QED
        BY <2>3, <3>2, <4>1, <4>2 DEF After
    <3> QED
      BY <1>2, <3>1, <3>2 DEF After
  <2>4. ASSUME NEW j \in 1 .. k, t[j] \in Switch, \A i \in j + 1 .. k : t[i] \notin Switch,
               x <=> t[j] = Marker
        PROVE  After(v, a, n + k, x)
    <3>1. n + j \in 1 .. n + k /\ v[n + j] = t[j]
      BY <2>1
    <3>2. ASSUME NEW i \in (n + j) + 1 .. n + k
          PROVE  v[i] \notin Switch
      <4>1. i \in 1 .. n + k /\ i \notin 1 .. n /\ (i - n \in 1 .. k => i - n \in j + 1 .. k)
        BY <1>1
      <4> QED
        BY <2>2, <2>4, <4>1
    <3> QED
      BY <2>4, <3>1, <3>2 DEF After
  <2> QED
    BY <1>4, <2>3, <2>4 DEF After
<1>5. ASSUME NEW i \in 1 .. n + m
      PROVE  After(v, a, i - 1, v[i].kind = "packed")
  <2>1. CASE i <= n
    <3>1. i \in 1 .. n /\ i - 1 \in 0 .. n /\ v[i] = s[i]
      BY <1>1, <2>1
    <3>2. After(s, a, i - 1, s[i].kind = "packed")
      BY <1>2, <3>1
    <3> QED
      BY <1>3, <3>1, <3>2
  <2>2. CASE ~(i <= n)
    <3>1. i - n \in 1 .. m /\ (i - n) - 1 \in 0 .. m /\ n + (i - n) = i /\ n + ((i - n) - 1) = i - 1
      BY <1>1, <2>2
    <3>2. v[i] = t[i - n] /\ After(t, b, (i - n) - 1, t[i - n].kind = "packed")
      BY <1>1, <1>2, <3>1
    <3>3. After(v, a, n + ((i - n) - 1), t[i - n].kind = "packed")
      BY <1>4, <3>1, <3>2
    <3> QED
      BY <3>1, <3>2, <3>3
  <2> QED
    BY <2>1, <2>2
<1>6. After(v, a, n + m, c)
  <2>1. m \in 0 .. m
    BY <1>1
  <2> QED
    BY <1>2, <1>4, <2>1
<1> QED
  BY <1>1, <1>5, <1>6 DEF InFrame, v

\* What is left of a stream after its first k units.
LEMMA FrameCut ==
    ASSUME NEW s \in Seq(Unit), NEW a \in BOOLEAN, NEW c \in BOOLEAN, NEW b \in BOOLEAN,
           NEW k \in 0 .. Len(s), InFrame(s, a, c), After(s, a, k, b)
    PROVE  InFrame(SubSeq(s, k + 1, Len(s)), b, c)
<1> DEFINE n == Len(s)
           v == SubSeq(s, k + 1, n)
<1>1. /\ n \in Nat /\ k \in Nat /\ k <= n /\ Len(v) = n - k
      /\ \A i \in 1 .. n - k : v[i] = s[k + i]
  BY Cut, LenProperties
<1>2. /\ \A i \in 1 .. n : After(s, a, i - 1, s[i].kind = "packed")
      /\ After(s, a, n, c)
  BY DEF InFrame
<1> HIDE DEF n, v
<1>3. ASSUME NEW l \in 0 .. n - k, NEW x \in BOOLEAN, After(s, a, k + l, x)
      PROVE  After(v, b, l, x)
  <2>1. ASSUME NEW i \in 1 .. l
        PROVE  k + i \in 1 .. k + l /\ v[i] = s[k + i]
    BY <1>1
  <2>2. CASE (\A i \in 1 .. k + l : s[i] \notin Switch) /\ (x <=> a)
    <3>1. \A i \in 1 .. k : i \in 1 .. k + l
      BY <1>1
    <3>2. b <=> a
      BY <2>2, <3>1 DEF After
    <3>3. \A i \in 1 .. l : v[i] \notin Switch
      BY <2>1, <2>2
    <3> QED
      BY <2>2, <3>2, <3>3 DEF After
  <2>3. ASSUME NEW j \in 1 .. k + l, s[j] \in Switch, \A i \in j + 1 .. k + l : s[i] \notin Switch,
               x <=> s[j] = Marker
        PROVE  After(v, b, l, x)
    <3>1. CASE j <= k
      <4>1. j \in 1 .. k /\ \A i \in j + 1 .. k : i \in j + 1 .. k + l
        BY <1>1, <3>1
      <4>2. ~ \A i \in 1 .. k : s[i] \notin Switch
        BY <2>3, <4>1
      <4>3. PICK h \in 1 .. k : /\ s[h] \in Switch /\ \A i \in h + 1 .. k : s[i] \notin Switch
                                /\ b <=> s[h] = Marker
        BY <4>2 DEF After
      <4>4. h = j
        <5>1. ~(h < j)
          <6> SUFFICES ASSUME h < j
                       PROVE  j \in h + 1 .. k
            BY <2>3, <4>3
          <6> QED
            BY <4>1
        <5>2. ~(j < h)
          <6> SUFFICES ASSUME j < h
                       PROVE  h \in j + 1 .. k + l
            BY <2>3, <4>3
          <6> QED
            BY <1>1
        <5> QED
          BY <5>1, <5>2
      <4>5. b <=> x
        BY <2>3, <4>3, <4>4
      <4>6. ASSUME NEW i \in 1 .. l
            PROVE  v[i] \notin Switch
        <5>1. k + i \in j + 1 .. k + l
          BY <1>1, <3>1
        <5> QED
          BY <2>1, <2>3, <5>1
      <4> QED
        BY <4>5, <4>6 DEF After
    <3>2. CASE ~(j <= k)
      <4>1. j - k \in 1 .. l /\ k + (j - k) = j
        BY <1>1, <3>2
      <4>2. v[j - k] = s[j]
        BY <2>1, <4>1
      <4>3. ASSUME NEW i \in (j - k) + 1 .. l
            PROVE  v[i] \notin Switch
        <5>1. i \in 1 .. l /\ k + i \in j + 1 .. k + l
          BY <1>1, <4>1
        <5> QED
          BY <2>1, <2>3, <5>1
      <4> QED
        BY <2>3, <4>1, <4>2, <4>3 DEF After
    <3> QED
      BY <3>1, <3>2
  <2> QED
    BY <1>3, <2>2, <2>3 DEF After
<1>4. ASSUME NEW i \in 1 .. n - k
      PROVE  After(v, b, i - 1, v[i].kind = "packed")
  <2>1. /\ i - 1 \in 0 .. n - k /\ k + i \in 1 .. n /\ (k + i) - 1 = k + (i - 1)
        /\ v[i] = s[k + i]
    BY <1>1
  <2>2. After(s, a, k + (i - 1), s[k + i].kind = "packed")
    BY <1>2, <2>1
  <2>3. After(v, b, i - 1, s[k + i].kind = "packed")
    BY <1>3, <2>1, <2>2
  <2> QED
    BY <2>1, <2>3
<1>5. After(v, b, n - k, c)
  <2>1. n - k \in 0 .. n - k /\ k + (n - k) = n
    BY <1>1
  <2> QED
    BY <1>2, <1>3, <2>1
<1> QED
  BY <1>1, <1>4, <1>5 DEF InFrame, v, n

\* Messages, compressed or not, do not change it.
LEMMA FrameRun ==
    ASSUME NEW s \in Seq(Unit), NEW b \in BOOLEAN,
           \A i \in 1 .. Len(s) : s[i] \notin Switch /\ (s[i].kind = "packed" <=> b)
    PROVE  InFrame(s, b, b)
<1>1. Len(s) \in Nat /\ \A i \in 1 .. Len(s) : \A j \in 1 .. i - 1 : j \in 1 .. Len(s)
  BY LenProperties
<1> QED
  BY <1>1 DEF InFrame, After

\* The marker starts compression, and the end ends it.
LEMMA FrameSwitch ==
    /\ InFrame(<<Marker>>, FALSE, TRUE)
    /\ InFrame(<<Packed(End)>>, TRUE, FALSE)
<1>1. Packed(End) # Marker /\ Packed(End).kind = "packed" /\ Marker.kind # "packed"
  BY PackedFacts, PlainFacts
<1>2. /\ Len(<<Marker>>) = 1 /\ <<Marker>>[1] = Marker
      /\ Len(<<Packed(End)>>) = 1 /\ <<Packed(End)>>[1] = Packed(End)
      /\ \A i : i \in 1 .. 1 <=> i = 1
      /\ \A i : i \notin 1 .. 1 - 1
      /\ \A i : i \notin 1 + 1 .. 1
  OBVIOUS
<1> QED
  BY <1>1, <1>2 DEF InFrame, After, Switch


\* What is left when the first k units of the stream s, w are read.
LEMMA FrameRest ==
    ASSUME NEW s \in Seq(Unit), NEW w \in Seq(Unit),
           NEW a \in BOOLEAN, NEW b \in BOOLEAN, NEW c \in BOOLEAN,
           NEW k \in 0 .. Len(s), InFrame(s \o w, a, c), After(s, a, k, b)
    PROVE  InFrame(SubSeq(s, k + 1, Len(s)) \o w, b, c)
<1> DEFINE v == s \o w
           n == Len(s)
           m == Len(w)
           r == SubSeq(s, k + 1, n)
           t == SubSeq(v, k + 1, Len(v))
<1>1. n \in Nat /\ m \in Nat /\ k \in Nat /\ k <= n
  BY LenProperties
<1>2. /\ v \in Seq(Unit) /\ Len(v) = n + m
      /\ \A i \in 1 .. n + m : v[i] = IF i <= n THEN s[i] ELSE w[i - n]
  BY ConcatProperties
<1>3. r \in Seq(Unit) /\ Len(r) = n - k /\ \A i \in 1 .. n - k : r[i] = s[k + i]
  BY Cut
<1>4. k \in 0 .. Len(v)
  BY <1>1, <1>2
<1>5. InFrame(v, a, c)
  OBVIOUS
<1> HIDE DEF v, r
<1>6. t \in Seq(Unit) /\ Len(t) = n + m - k /\ \A i \in 1 .. n + m - k : t[i] = v[k + i]
  BY <1>2, <1>4, Cut
<1>7. After(v, a, k, b)
  <2> HIDE DEF n
  <2>1. \A i \in 1 .. k : v[i] = s[i]
    BY <1>1, <1>2
  <2>2. \A j \in 1 .. k : \A i \in j + 1 .. k : i \in 1 .. k
    BY <1>1
  <2> QED
    BY <2>1, <2>2 DEF After
<1>8. InFrame(t, b, c)
  BY <1>2, <1>4, <1>5, <1>7, FrameCut
<1> HIDE DEF t, n, m
<1>9. t = r \o w
  <2>1. /\ r \o w \in Seq(Unit) /\ Len(r \o w) = (n - k) + m
        /\ \A i \in 1 .. (n - k) + m : (r \o w)[i] = IF i <= n - k THEN r[i] ELSE w[i - (n - k)]
    <3>1. Len(w) = m
      BY DEF m
    <3>2. Len(r \o w) = Len(r) + Len(w) /\ r \o w \in Seq(Unit)
          /\ \A i \in 1 .. Len(r) + Len(w) : (r \o w)[i] = IF i <= Len(r) THEN r[i] ELSE w[i - Len(r)]
      BY <1>3, ConcatProperties
    <3> QED
      BY <1>3, <3>1, <3>2
  <2>2. ASSUME NEW i \in 1 .. n + m - k
        PROVE  t[i] = (r \o w)[i]
    <3>1. /\ i \in 1 .. (n - k) + m /\ k + i \in 1 .. n + m /\ (k + i) - n = i - (n - k)
          /\ (k + i <= n <=> i <= n - k) /\ (i <= n - k => i \in 1 .. n - k)
      BY <1>1
    <3> QED
      BY <1>2, <1>3, <1>6, <2>1, <3>1
  <2>3. Len(r \o w) = n + m - k
    BY <1>1, <2>1
  <2> QED
    BY <1>6, <2>1, <2>2, <2>3, SeqEqual
<1> QED
  BY <1>8, <1>9 DEF r, n

\* What is left when the first unit is read.
LEMMA FrameHead ==
    ASSUME NEW s \in Seq(Unit), s # <<>>, NEW w \in Seq(Unit),
           NEW a \in BOOLEAN, NEW c \in BOOLEAN, InFrame(s \o w, a, c)
    PROVE  /\ Head(s).kind = "packed" <=> a
           /\ InFrame(Tail(s) \o w, IF Head(s) \in Switch THEN Head(s) = Marker ELSE a, c)
<1> DEFINE b == IF Head(s) \in Switch THEN Head(s) = Marker ELSE a
<1>1. Len(s) \in Nat /\ Len(s) # 0 /\ Head(s) = s[1] /\ Len(w) \in Nat
  BY LenProperties, EmptySeq
<1>2. Len(s \o w) = Len(s) + Len(w) /\ (s \o w)[1] = s[1]
  BY <1>1, ConcatProperties
<1>3. After(s \o w, a, 1 - 1, s[1].kind = "packed")
  BY <1>1, <1>2 DEF InFrame
<1>4. s[1].kind = "packed" <=> a
  <2>1. \A i : i \notin 1 .. 1 - 1
    OBVIOUS
  <2> QED
    BY <1>3, <2>1 DEF After
<1>5. After(s, a, 1, b)
  <2>1. \A i : (i \in 1 .. 1 <=> i = 1) /\ i \notin 1 + 1 .. 1
    OBVIOUS
  <2> QED
    BY <1>1, <2>1 DEF After
<1>6. b \in BOOLEAN /\ 1 \in 0 .. Len(s)
  <2>1. CASE Head(s) \in Switch
    BY <1>1, <2>1
  <2>2. CASE Head(s) \notin Switch
    BY <1>1, <2>2
  <2> QED
    BY <2>1, <2>2
<1> HIDE DEF b
<1>7. InFrame(SubSeq(s, 1 + 1, Len(s)) \o w, b, c)
  BY <1>5, <1>6, FrameRest
<1>8. Tail(s) = SubSeq(s, 1 + 1, Len(s))
  BY TailIsSubSeq
<1> QED
  BY <1>1, <1>4, <1>7, <1>8 DEF b

\* A relation, so that a citation matches only what it is for.
Assoc(a, b, c) == a \o (b \o c) = (a \o b) \o c

LEMMA Regroup ==
    ASSUME NEW s \in Seq(Unit), NEW t \in Seq(Unit), NEW u \in Seq(Unit)
    PROVE  Assoc(s, t, u)
<1>1. (s \o t) \o u = s \o (t \o u)
  BY ConcatAssociative
<1> QED
  BY <1>1 DEF Assoc

\* What some full buffers and one more hold.
LEMMA Buffers ==
    ASSUME NEW a \in Nat, NEW b \in Nat, b > 0
    PROVE  (a \div b) * b + b \in Nat
<1>1. a \div b \in Nat
  OBVIOUS
<1> DEFINE d == a \div b
<1>2. d \in Nat
  BY <1>1
<1> HIDE DEF d
<1>3. d * b \in Nat
  BY <1>2
<1> QED
  BY <1>3 DEF d

\* Compressed units.
Pack(units) == [i \in DOMAIN units |-> Packed(units[i])]

LEMMA PackedRun ==
    ASSUME NEW units \in Seq(Plain)
    PROVE  Pack(units) \in Seq(Unit) /\ InFrame(Pack(units), TRUE, TRUE)
<1>1. Len(units) \in Nat /\ DOMAIN units = 1 .. Len(units) /\ \A i \in 1 .. Len(units) : units[i] \in Plain
  BY LenProperties, ElementOfSeq
<1>2. \A i \in 1 .. Len(units) :
         /\ Packed(units[i]) \in Unit /\ Packed(units[i]) \notin Switch
         /\ Packed(units[i]).kind = "packed"
  BY <1>1, PackedFacts, PlainFacts
<1>3. Pack(units) = [i \in 1 .. Len(units) |-> Packed(units[i])]
  BY <1>1 DEF Pack
<1> DEFINE n == Len(units)
           e(i) == Packed(units[i])
<1>4. [i \in 1 .. n |-> e(i)] \in Seq(Unit)
  <2> HIDE DEF n
  <2>1. n \in Nat /\ \A i \in 1 .. n : e(i) \in Unit
    BY <1>1, <1>2 DEF n
  <2> HIDE DEF e
  <2> QED
    BY <2>1, IsASeq
<1>5. Pack(units) \in Seq(Unit) /\ Len(Pack(units)) = Len(units)
  BY <1>1, <1>3, <1>4
<1>6. \A i \in 1 .. Len(Pack(units)) : Pack(units)[i] \notin Switch /\ (Pack(units)[i].kind = "packed" <=> TRUE)
  BY <1>2, <1>3, <1>5
<1> QED
  BY <1>5, <1>6, FrameRun

LEMMA PackOne ==
    ASSUME NEW u
    PROVE  Pack(<<u>>) = <<Packed(u)>>
BY DEF Pack

LEMMA PlainRun ==
    ASSUME NEW units \in Seq(Plain), \A i \in 1 .. Len(units) : units[i] # Marker
    PROVE  units \in Seq(Unit) /\ InFrame(units, FALSE, FALSE)
<1>1. units \in Seq(Unit)
  BY PlainFacts, SeqMonotonic
<1>2. \A i \in 1 .. Len(units) : units[i] \notin Switch /\ (units[i].kind = "packed" <=> FALSE)
  BY PlainFacts, ElementOfSeq
<1> QED
  BY <1>1, <1>2, FrameRun

-----------------------------------------------------------------------------
(* The messages of a stream.                                               *)

Message(u) == IF u.kind = "packed" THEN u.unit ELSE u

\* The messages seen so far, and one more unit.
Added(a, u) == IF Message(u) \in {Marker, End} THEN a ELSE Append(a, Message(u))

LEMMA AddedFacts ==
    ASSUME NEW u \in Unit, NEW a \in Seq(Plain), NEW b \in Seq(Plain)
    PROVE  Added(a, u) \in Seq(Plain) /\ Added(a \o b, u) = a \o Added(b, u)
<1>1. Message(u) \in Plain \cup {End}
  <2>1. CASE u.kind = "packed"
    BY <2>1, UnitFacts DEF Message
  <2>2. CASE u.kind # "packed"
    BY <2>2, UnitFacts DEF Message
  <2> QED
    BY <2>1, <2>2
<1>2. a \o b \in Seq(Plain)
  BY ConcatProperties
<1>3. CASE Message(u) \in {Marker, End}
  BY <1>3 DEF Added
<1>4. CASE Message(u) \notin {Marker, End}
  <2> DEFINE m == Message(u)
  <2>1. m \in Plain
    BY <1>1, <1>4
  <2> HIDE DEF m
  <2>2. Append(a, m) \in Seq(Plain) /\ <<m>> \in Seq(Plain)
    BY <2>1, AppendProperties
  <2>3. Append(a \o b, m) = (a \o b) \o <<m>> /\ Append(b, m) = b \o <<m>>
    BY <1>2, <2>1, AppendIsConcat
  <2>4. (a \o b) \o <<m>> = a \o (b \o <<m>>)
    BY <2>2, ConcatAssociative
  <2>5. Added(a, u) = Append(a, m) /\ Added(a \o b, u) = Append(a \o b, m) /\ Added(b, u) = Append(b, m)
    BY <1>4 DEF Added, m
  <2> QED
    BY <2>2, <2>3, <2>4, <2>5
<1> QED
  BY <1>3, <1>4

\* g[i] is what the first i units of s hold.
Collects(g, s, n) ==
    /\ g \in [0 .. n -> Seq(Plain)] /\ g[0] = <<>>
    /\ \A i \in 1 .. n : g[i] = Added(g[i - 1], s[i])

LEMMA Collected ==
    ASSUME NEW s \in Seq(Unit)
    PROVE  \E g : Collects(g, s, Len(s))
<1> DEFINE l == Len(s)
           Bad == {n \in 0 .. l : ~ \E g : Collects(g, s, n)}
<1>1. l \in Nat /\ \A i \in 1 .. l : s[i] \in Unit
  BY LenProperties, ElementOfSeq
<1> HIDE DEF l
<1> SUFFICES ASSUME Bad # {}
             PROVE  FALSE
  BY <1>1 DEF l
<1>2. Bad \in SUBSET Nat
  BY <1>1
<1> DEFINE m == Min(Bad)
<1>3. m \in Bad /\ \A n \in Bad : m <= n
  BY <1>2, MinMember
<1> HIDE DEF m
<1>4. m \in 0 .. l /\ ~ \E g : Collects(g, s, m)
  BY <1>3
<1>5. m # 0
  <2>1. Collects([i \in 0 .. 0 |-> <<>>], s, 0)
    BY DEF Collects
  <2> QED
    BY <1>4, <2>1
<1>6. m - 1 \in 0 .. l /\ ~(m <= m - 1) /\ m \in 1 .. l
  BY <1>1, <1>4, <1>5
<1>7. PICK g : Collects(g, s, m - 1)
  BY <1>3, <1>6
<1> DEFINE h == [i \in 0 .. m |-> IF i = m THEN Added(g[m - 1], s[m]) ELSE g[i]]
<1>8. g \in [0 .. m - 1 -> Seq(Plain)] /\ g[0] = <<>> /\ \A i \in 1 .. m - 1 : g[i] = Added(g[i - 1], s[i])
  BY <1>7 DEF Collects
<1>9. Added(g[m - 1], s[m]) \in Seq(Plain)
  <2>1. g[m - 1] \in Seq(Plain) /\ s[m] \in Unit
    BY <1>1, <1>6, <1>8
  <2> QED
    BY <2>1, AddedFacts
<1>10. h \in [0 .. m -> Seq(Plain)]
  <2>1. ASSUME NEW i \in 0 .. m, i # m
        PROVE  g[i] \in Seq(Plain)
    <3>1. i \in 0 .. m - 1
      BY <1>1, <1>6, <2>1
    <3> QED
      BY <1>8, <3>1
  <2> QED
    BY <1>9, <2>1
<1>11. h[0] = <<>>
  BY <1>5, <1>6, <1>8
<1>12. ASSUME NEW i \in 1 .. m
       PROVE  h[i] = Added(h[i - 1], s[i])
  <2>1. i - 1 \in 0 .. m - 1 /\ i - 1 # m /\ i - 1 \in 0 .. m /\ i \in 0 .. m /\ (i # m => i \in 1 .. m - 1)
    BY <1>1, <1>6
  <2>2. h[i - 1] = g[i - 1]
    BY <2>1
  <2>3. CASE i = m
    BY <2>1, <2>2, <2>3
  <2>4. CASE i # m
    BY <1>8, <2>1, <2>2, <2>4
  <2> QED
    BY <2>3, <2>4
<1> HIDE DEF h
<1> QED
  BY <1>4, <1>10, <1>11, <1>12 DEF Collects

LEMMA ContentIs ==
    ASSUME NEW s \in Seq(Unit), NEW g, Collects(g, s, Len(s))
    PROVE  Content(s) = g[Len(s)] /\ Content(s) \in Seq(Plain)
<1> DEFINE l == Len(s)
           R(f) == f = [i \in 0 .. l |->
                          IF i = 0 THEN <<>>
                          ELSE IF Message(s[i]) \in {Marker, End} THEN f[i - 1]
                          ELSE Append(f[i - 1], Message(s[i]))]
           h == CHOOSE f : R(f)
<1>1. l \in Nat
  BY LenProperties
<1>2. Content(s) = h[l]
  BY DEF Content, Message
<1>3. g \in [0 .. l -> Seq(Plain)] /\ g[0] = <<>> /\ \A i \in 1 .. l : g[i] = Added(g[i - 1], s[i])
  BY DEF Collects
<1> HIDE DEF l
<1>4. R(g)
  <2> DEFINE e == [i \in 0 .. l |->
                     IF i = 0 THEN <<>>
                     ELSE IF Message(s[i]) \in {Marker, End} THEN g[i - 1]
                     ELSE Append(g[i - 1], Message(s[i]))]
  <2>1. ASSUME NEW i \in 0 .. l
        PROVE  g[i] = e[i]
    <3>1. i # 0 => i \in 1 .. l
      BY <1>1
    <3> QED
      BY <1>3, <3>1 DEF Added
  <2> QED
    BY <1>3, <2>1
<1>5. R(h)
  BY <1>4
<1>6. /\ h[0] = <<>>
      /\ \A i \in 1 .. l : h[i] = Added(h[i - 1], s[i])
  <2>1. \A i \in 0 .. l : h[i] = IF i = 0 THEN <<>>
                                 ELSE IF Message(s[i]) \in {Marker, End} THEN h[i - 1]
                                 ELSE Append(h[i - 1], Message(s[i]))
    BY <1>5
  <2>2. 0 \in 0 .. l /\ \A i \in 1 .. l : i \in 0 .. l /\ i # 0
    BY <1>1
  <2> QED
    BY <2>1, <2>2 DEF Added
<1> HIDE DEF h
<1> DEFINE Bad == {i \in 0 .. l : h[i] # g[i]}
<1>7. Bad = {}
  <2> SUFFICES ASSUME Bad # {}
               PROVE  FALSE
    OBVIOUS
  <2>1. Bad \in SUBSET Nat
    BY <1>1
  <2> DEFINE m == Min(Bad)
  <2>2. m \in Bad /\ \A n \in Bad : m <= n
    BY <2>1, MinMember
  <2> HIDE DEF m
  <2>3. m \in 0 .. l /\ h[m] # g[m]
    BY <2>2
  <2>4. m # 0
    BY <1>3, <1>6, <2>3
  <2>5. m \in 1 .. l /\ m - 1 \in 0 .. l /\ ~(m <= m - 1)
    BY <1>1, <2>3, <2>4
  <2>6. h[m - 1] = g[m - 1]
    BY <2>2, <2>5
  <2> QED
    BY <1>3, <1>6, <2>3, <2>5, <2>6
<1>8. l \in 0 .. l
  BY <1>1
<1>9. h[l] = g[l] /\ g[l] \in Seq(Plain)
  BY <1>3, <1>7, <1>8
<1> QED
  BY <1>2, <1>9 DEF l

LEMMA ContentType ==
    ASSUME NEW s \in Seq(Unit)
    PROVE  Content(s) \in Seq(Plain)
BY Collected, ContentIs

\* The content of one stream after the other.
LEMMA ContentConcat ==
    ASSUME NEW s \in Seq(Unit), NEW t \in Seq(Unit)
    PROVE  Content(s \o t) = Content(s) \o Content(t)
<1> DEFINE v == s \o t
           n == Len(s)
           m == Len(t)
<1>1. /\ v \in Seq(Unit) /\ n \in Nat /\ m \in Nat /\ Len(v) = n + m
      /\ \A i \in 1 .. n + m : v[i] = IF i <= n THEN s[i] ELSE t[i - n]
  BY ConcatProperties, LenProperties
<1>2. PICK a : Collects(a, s, n)
  BY Collected
<1>3. PICK b : Collects(b, t, m)
  BY Collected
<1>4. Content(s) = a[n] /\ Content(t) = b[m] /\ \A i \in 1 .. m : t[i] \in Unit
  BY <1>2, <1>3, ContentIs, ElementOfSeq
<1> HIDE DEF n, m, v
<1>5. /\ a \in [0 .. n -> Seq(Plain)] /\ a[0] = <<>> /\ \A i \in 1 .. n : a[i] = Added(a[i - 1], s[i])
      /\ b \in [0 .. m -> Seq(Plain)] /\ b[0] = <<>> /\ \A i \in 1 .. m : b[i] = Added(b[i - 1], t[i])
  BY <1>2, <1>3 DEF Collects
<1>6. a[n] \in Seq(Plain)
  <2>1. n \in 0 .. n
    BY <1>1
  <2> QED
    BY <1>5, <2>1
<1> DEFINE g == [i \in 0 .. n + m |-> IF i <= n THEN a[i] ELSE a[n] \o b[i - n]]
\* From n on, whether or not t has begun.
<1>7. \A i \in 0 .. m : n + i \in 0 .. n + m /\ g[n + i] = a[n] \o b[i]
  <2> SUFFICES ASSUME NEW i \in 0 .. m
               PROVE  n + i \in 0 .. n + m /\ g[n + i] = a[n] \o b[i]
    OBVIOUS
  <2>1. n + i \in 0 .. n + m /\ (n + i) - n = i /\ (n + i <= n <=> i = 0)
    BY <1>1
  <2>2. CASE i = 0
    <3>1. a[n] \o <<>> = a[n]
      BY <1>6, ConcatEmptySeq
    <3>2. n \in 0 .. n + m /\ n + i = n
      BY <1>1, <2>2
    <3>3. g[n] = a[n]
      BY <1>1, <3>2
    <3> QED
      BY <1>5, <2>1, <2>2, <3>1, <3>2, <3>3
  <2>3. CASE i # 0
    BY <2>1, <2>3
  <2> QED
    BY <2>2, <2>3
<1>8. g \in [0 .. n + m -> Seq(Plain)]
  <2>1. ASSUME NEW i \in 0 .. n + m
        PROVE  (IF i <= n THEN a[i] ELSE a[n] \o b[i - n]) \in Seq(Plain)
    <3>1. CASE i <= n
      <4>1. i \in 0 .. n
        BY <1>1, <3>1
      <4> QED
        BY <1>5, <3>1, <4>1
    <3>2. CASE ~(i <= n)
      <4>1. i - n \in 0 .. m
        BY <1>1, <3>2
      <4>2. b[i - n] \in Seq(Plain)
        BY <1>5, <4>1
      <4>3. a[n] \o b[i - n] \in Seq(Plain)
        BY <1>6, <4>2, ConcatProperties
      <4> QED
        BY <3>2, <4>3
    <3> QED
      BY <3>1, <3>2
  <2> QED
    BY <2>1
<1>9. g[0] = <<>>
  BY <1>1, <1>5
<1>10. ASSUME NEW i \in 1 .. n + m
       PROVE  g[i] = Added(g[i - 1], v[i])
  <2>1. CASE i <= n
    <3>1. i \in 1 .. n /\ i - 1 <= n /\ i \in 0 .. n + m /\ i - 1 \in 0 .. n + m
      BY <1>1, <2>1
    <3> QED
      BY <1>1, <1>5, <2>1, <3>1
  <2>2. CASE ~(i <= n)
    <3> DEFINE j == i - n
    <3>1. j \in 1 .. m /\ j \in 0 .. m /\ j - 1 \in 0 .. m /\ n + j = i /\ n + (j - 1) = i - 1
      BY <1>1, <2>2
    <3> HIDE DEF g
    <3>2. g[i] = a[n] \o b[j] /\ g[i - 1] = a[n] \o b[j - 1] /\ v[i] = t[j] /\ b[j] = Added(b[j - 1], t[j])
      BY <1>1, <1>5, <1>7, <2>2, <3>1
    <3> HIDE DEF j
    <3>3. b[j - 1] \in Seq(Plain) /\ t[j] \in Unit
      BY <1>4, <1>5, <3>1
    <3>4. Added(a[n] \o b[j - 1], t[j]) = a[n] \o Added(b[j - 1], t[j])
      BY <1>6, <3>3, AddedFacts
    <3> QED
      BY <3>2, <3>4
  <2> QED
    BY <2>1, <2>2
<1> HIDE DEF g
<1>11. Collects(g, v, Len(v))
  BY <1>1, <1>8, <1>9, <1>10 DEF Collects
<1>12. Content(v) = g[n + m]
  BY <1>1, <1>11, ContentIs
<1>13. g[n + m] = a[n] \o b[m]
  <2>1. m \in 0 .. m
    BY <1>1
  <2> QED
    BY <1>7, <2>1 DEF g
<1> QED
  BY <1>4, <1>12, <1>13 DEF v

LEMMA ContentEmpty == Content(<<>>) = <<>>
<1> DEFINE g == [i \in 0 .. 0 |-> <<>>]
<1>1. <<>> \in Seq(Unit) /\ Len(<<>>) = 0
  OBVIOUS
<1>2. Collects(g, <<>>, 0) /\ g[0] = <<>>
  BY DEF Collects
<1> HIDE DEF g
<1> QED
  BY <1>1, <1>2, ContentIs

\* The content of one unit.
LEMMA ContentOne ==
    ASSUME NEW u \in Unit
    PROVE  Content(<<u>>) = Added(<<>>, u)
<1> DEFINE a == Added(<<>>, u)
           one == <<u>>
           g == [i \in 0 .. 1 |-> IF i = 0 THEN <<>> ELSE a]
<1>1. a \in Seq(Plain)
  <2>1. <<>> \in Seq(Plain)
    OBVIOUS
  <2> QED
    BY <2>1, AddedFacts
<1>2. one \in Seq(Unit) /\ Len(one) = 1 /\ one[1] = u
  OBVIOUS
<1> HIDE DEF one
<1>3. g[0] = <<>> /\ g[1] = Added(g[0], one[1])
  BY <1>2
<1>4. \A i \in 1 .. 1 : i = 1 /\ i - 1 = 0
  OBVIOUS
<1>5. g \in [0 .. 1 -> Seq(Plain)]
  <2> HIDE DEF a
  <2> QED
    BY <1>1
<1>6. Collects(g, one, 1) /\ g[1] = a
  <2>1. g[1] = a
    OBVIOUS
  <2> HIDE DEF g, a
  <2> QED
    BY <1>3, <1>4, <1>5, <2>1 DEF Collects
<1> HIDE DEF g, a
<1> QED
  BY <1>2, <1>6, ContentIs DEF a, one

\* A switch has none; a message has itself, compressed or not.
LEMMA ContentOfUnit ==
    /\ Content(<<Marker>>) = <<>> /\ Content(<<Packed(End)>>) = <<>>
    /\ \A u \in Plain :
          /\ Content(<<u>>) = IF u = Marker THEN <<>> ELSE <<u>>
          /\ Content(<<Packed(u)>>) = Content(<<u>>)
<1>1. ASSUME NEW u \in Plain
      PROVE  /\ Content(<<u>>) = IF u = Marker THEN <<>> ELSE <<u>>
             /\ Content(<<Packed(u)>>) = Content(<<u>>)
  <2>1. u \in Unit /\ u.kind # "packed" /\ u # End /\ Packed(u) \in Unit
        /\ Packed(u).kind = "packed" /\ Packed(u).unit = u
    BY PlainFacts, PackedFacts
  <2>2. Message(u) = u /\ Message(Packed(u)) = u
    BY <2>1 DEF Message
  <2>3. Added(<<>>, u) = (IF u = Marker THEN <<>> ELSE <<u>>) /\ Added(<<>>, Packed(u)) = Added(<<>>, u)
    BY <2>1, <2>2 DEF Added
  <2> QED
    BY <2>1, <2>3, ContentOne
<1>2. Content(<<Packed(End)>>) = <<>>
  <2>1. Packed(End) \in Unit /\ Message(Packed(End)) = End
    BY PackedFacts DEF Message
  <2> QED
    BY <2>1, ContentOne DEF Added
<1>3. Content(<<Marker>>) = <<>>
  BY <1>1, PlainFacts
<1> QED
  BY <1>1, <1>2, <1>3

\* Compression does not change it.
LEMMA ContentSame ==
    ASSUME NEW s \in Seq(Unit), NEW t \in Seq(Unit), Len(s) = Len(t),
           \A i \in 1 .. Len(s) : Message(s[i]) = Message(t[i])
    PROVE  Content(s) = Content(t)
<1>1. PICK g : Collects(g, s, Len(s))
  BY Collected
<1>2. Collects(g, t, Len(t))
  BY <1>1 DEF Collects, Added
<1> QED
  BY <1>1, <1>2, ContentIs

\* Messages are their own content.
LEMMA ContentOfMessages ==
    ASSUME NEW units \in Seq(Plain), \A i \in 1 .. Len(units) : units[i] # Marker
    PROVE  Content(units) = units
<1> DEFINE n == Len(units)
           g == [i \in 0 .. n |-> SubSeq(units, 1, i)]
<1>1. n \in Nat /\ units \in Seq(Unit) /\ \A i \in 1 .. n : units[i] \in Plain
  <2>1. units \in Seq(Unit)
    BY PlainFacts, SeqMonotonic
  <2> QED
    BY <2>1, LenProperties, ElementOfSeq
<1> HIDE DEF n
<1>2. ASSUME NEW i \in 0 .. n
      PROVE  g[i] \in Seq(Plain)
  BY Cut DEF n
<1>3. g[0] = <<>>
  <2>1. SubSeq(units, 1, 0) = <<>>
    BY SubSeqEmpty
  <2> QED
    BY <1>1, <2>1
<1>4. ASSUME NEW i \in 1 .. n
      PROVE  g[i] = Added(g[i - 1], units[i])
  <2>1. i \in 0 .. n /\ i - 1 \in 0 .. n /\ 1 \in 1 .. n /\ i \in 1 .. i
    BY <1>1
  <2>2. SubSeq(units, 1, i) = SubSeq(units, 1, i - 1) \o <<units[i]>>
    <3>1. 1 \in 1 .. Len(units) /\ i \in 1 .. Len(units)
      BY <2>1 DEF n
    <3> QED
      BY <3>1, SubSeqRecursiveSecond
  <2>3. g[i] = g[i - 1] \o <<units[i]>>
    BY <2>1, <2>2
  <2>4. units[i] \in Plain /\ units[i] # Marker /\ g[i - 1] \in Seq(Plain)
    BY <1>1, <1>2, <2>1 DEF n
  <2> HIDE DEF g
  <2>5. Message(units[i]) = units[i] /\ units[i] # End
    BY <2>4, PlainFacts DEF Message
  <2>6. Added(g[i - 1], units[i]) = Append(g[i - 1], units[i])
    BY <2>4, <2>5 DEF Added
  <2> QED
    BY <2>3, <2>4, <2>6, AppendIsConcat
<1>5. Collects(g, units, n)
  <2>1. g \in [0 .. n -> Seq(Plain)]
    BY <1>2
  <2> HIDE DEF g
  <2> QED
    BY <1>3, <1>4, <2>1 DEF Collects
<1>6. g[n] = units
  <2>1. SubSeq(units, 1, n) = units
    BY SubSeqFull DEF n
  <2> QED
    BY <1>1, <2>1
<1> HIDE DEF g
<1> QED
  BY <1>1, <1>5, <1>6, ContentIs DEF n

LEMMA ContentOfPacked ==
    ASSUME NEW units \in Seq(Plain)
    PROVE  Content(Pack(units)) = Content(units)
<1>1. units \in Seq(Unit) /\ Pack(units) \in Seq(Unit)
  BY PlainFacts, SeqMonotonic, PackedRun
<1>2. /\ DOMAIN units = 1 .. Len(units) /\ Len(units) \in Nat
      /\ \A i \in 1 .. Len(units) : units[i] \in Plain
  BY LenProperties, ElementOfSeq
<1>3. Len(Pack(units)) = Len(units) /\ \A i \in 1 .. Len(units) : Pack(units)[i] = Packed(units[i])
  BY <1>2 DEF Pack
<1>4. \A i \in 1 .. Len(units) : Message(Pack(units)[i]) = Message(units[i])
  <2>1. \A u \in Plain : Message(Packed(u)) = Message(u)
    BY PlainFacts, PackedFacts DEF Message
  <2> QED
    BY <1>2, <1>3, <2>1
<1> QED
  BY <1>1, <1>3, <1>4, ContentSame

\* Nor does inflating the first m units of a stream.
LEMMA UnpackedRun ==
    ASSUME NEW v \in Seq(Unit), NEW m \in 0 .. Len(v),
           \A i \in 1 .. m : v[i].kind = "packed" /\ v[i].unit # End
    PROVE  LET units == [i \in 1 .. m |-> v[i].unit]
           IN  units \in Seq(Plain) /\ Content(units) = Content(SubSeq(v, 1, m))
<1> DEFINE e(i) == v[i].unit
           units == [i \in 1 .. m |-> e(i)]
           first == SubSeq(v, 1, m)
<1>1. Len(v) \in Nat /\ m \in Nat /\ \A i \in 1 .. Len(v) : v[i] \in Unit
  BY LenProperties, ElementOfSeq
<1>2. \A i \in 1 .. m : /\ v[i] \in Unit /\ v[i].kind = "packed" /\ e(i) \in Plain
                        /\ Message(v[i]) = e(i) /\ Message(e(i)) = e(i)
  <2> SUFFICES ASSUME NEW i \in 1 .. m
               PROVE  /\ v[i] \in Unit /\ v[i].kind = "packed" /\ e(i) \in Plain
                      /\ Message(v[i]) = e(i) /\ Message(e(i)) = e(i)
    OBVIOUS
  <2>1. v[i] \in Unit /\ v[i].kind = "packed" /\ v[i].unit # End
    BY <1>1
  <2>2. v[i].unit \in Plain
    BY <2>1, UnitFacts
  <2> QED
    BY <2>1, <2>2, PlainFacts DEF Message
<1>3. units \in Seq(Plain) /\ Len(units) = m /\ \A i \in 1 .. m : units[i] = e(i)
  <2> HIDE DEF e
  <2>1. \A i \in 1 .. m : e(i) \in Plain
    BY <1>2
  <2>2. [i \in 1 .. m |-> e(i)] \in Seq(Plain)
    BY <1>1, <2>1, IsASeq
  <2> QED
    BY <1>1, <2>2
<1>4. first \in Seq(Unit) /\ Len(first) = m /\ \A i \in 1 .. m : first[i] = v[i]
  <2>1. first \in Seq(Unit)
    BY Cut
  <2>2. Len(first) = (IF 1 <= m THEN m - 1 + 1 ELSE 0) /\ \A i \in 1 .. m - 1 + 1 : first[i] = v[1 + i - 1]
    <3>1. 1 \in Int /\ m \in Int /\ \A i \in 1 .. m : v[i] \in Unit
      BY <1>1
    <3> QED
      BY <3>1, SubSeqProperties
  <2> QED
    BY <1>1, <2>1, <2>2
<1>5. units \in Seq(Unit)
  BY <1>3, PlainFacts, SeqMonotonic
<1>6. \A i \in 1 .. m : Message(units[i]) = Message(first[i])
  <2> HIDE DEF e, units, first
  <2> QED
    BY <1>2, <1>3, <1>4
<1>7. Content(units) = Content(first)
  <2> HIDE DEF units, first
  <2> QED
    BY <1>3, <1>4, <1>5, <1>6, ContentSame
<1> QED
  BY <1>3, <1>7

\* inflate() of k units, the last of which may be the end.
LEMMA Unpacked ==
    ASSUME NEW v \in Seq(Unit), NEW k \in 1 .. Len(v), v[k].kind = "packed",
           \A i \in 1 .. k - 1 : v[i].kind = "packed" /\ v[i].unit # End,
           NEW e \in BOOLEAN, e <=> v[k].unit = End
    PROVE  LET units == [i \in 1 .. (IF e THEN k - 1 ELSE k) |-> v[i].unit]
           IN  units \in Seq(Plain) /\ Content(units \o SubSeq(v, k + 1, Len(v))) = Content(v)
<1> DEFINE m == IF e THEN k - 1 ELSE k
           units == [i \in 1 .. m |-> v[i].unit]
           rest == SubSeq(v, k + 1, Len(v))
<1>1. Len(v) \in Nat /\ k \in Nat /\ k > 0 /\ k <= Len(v) /\ v[k] \in Unit
  BY LenProperties, ElementOfSeq
<1>2. m \in 0 .. Len(v) /\ \A i \in 1 .. m : i \in 1 .. k - 1 \/ (i = k /\ ~e)
  BY <1>1
<1>3. \A i \in 1 .. m : v[i].kind = "packed" /\ v[i].unit # End
  BY <1>2
<1>4. units \in Seq(Plain) /\ Content(units) = Content(SubSeq(v, 1, m))
  <2> HIDE DEF m
  <2> QED
    BY <1>2, <1>3, UnpackedRun
<1>5. /\ rest \in Seq(Unit) /\ SubSeq(v, 1, k) \in Seq(Unit) /\ SubSeq(v, 1, k) \o rest = v
  BY <1>1, Cut
<1>6. Content(SubSeq(v, 1, k)) = Content(units)
  <2>1. CASE ~e
    BY <1>4, <2>1
  <2>2. CASE e
    <3>1. SubSeq(v, 1, k) = SubSeq(v, 1, k - 1) \o <<v[k]>>
      <4>1. 1 \in 1 .. Len(v) /\ k \in 1 .. Len(v)
        BY <1>1
      <4> QED
        BY <4>1, SubSeqRecursiveSecond
    <3>2. Content(<<v[k]>>) = <<>>
      <4>1. Message(v[k]) = End
        BY <2>2 DEF Message
      <4> QED
        BY <1>1, <4>1, ContentOne DEF Added
    <3> DEFINE a == SubSeq(v, 1, k - 1)
               b == <<v[k]>>
    <3>3. a \in Seq(Unit) /\ b \in Seq(Unit)
      <4>1. k - 1 \in 0 .. Len(v)
        BY <1>1
      <4> QED
        BY <1>1, <4>1, Cut
    <3>4. Content(units) = Content(a)
      BY <1>4, <2>2
    <3>5. Content(SubSeq(v, 1, k)) = Content(a \o b)
      BY <3>1
    <3>6. Content(b) = <<>>
      BY <3>2
    <3> HIDE DEF a, b, units
    <3>7. Content(a \o b) = Content(a) \o <<>>
      BY <3>3, <3>6, ContentConcat
    <3>8. Content(a) \in Seq(Plain)
      BY <3>3, ContentType
    <3> QED
      BY <3>4, <3>5, <3>7, <3>8, ConcatEmptySeq
  <2> QED
    BY <2>1, <2>2
<1>7. units \in Seq(Unit)
  <2> HIDE DEF units
  <2> QED
    BY <1>4, PlainFacts, SeqMonotonic
<1>8. Content(units \o rest) = Content(v)
  <2> DEFINE first == SubSeq(v, 1, k)
  <2>1. first \o rest = v /\ Content(first) = Content(units) /\ first \in Seq(Unit)
    BY <1>5, <1>6
  <2> HIDE DEF units, rest, first
  <2>2. Content(first \o rest) = Content(first) \o Content(rest)
    BY <1>5, <2>1, ContentConcat
  <2>3. Content(units \o rest) = Content(units) \o Content(rest)
    BY <1>5, <1>7, ContentConcat
  <2> QED
    BY <2>1, <2>2, <2>3
<1> QED
  BY <1>4, <1>8

-----------------------------------------------------------------------------
(* The inductive invariant, of a function from the nodes to their states.  *)

Tracker == [
    z : {"none", "deflate", "inflate"},
    pending : Seq(Unit),
    damaged : BOOLEAN,
    told : BOOLEAN,
    wire : Seq(Unit),
    loop : {"none", "process", "inflate"},
    input : Seq(Unit),
    batch : Seq(Plain),
    ended : BOOLEAN,
    failed : BOOLEAN,
    crashed : BOOLEAN,
    lost : SUBSET {"environ", "end"},
    sent : Seq(Plain),
    got : Seq(Plain),
    starts : Nat]

\* What holds of each tracker.  In the inflate() loop z is gone only after a
\* NEW-ENVIRON; while _process() reads plain input there is nothing to inflate
\* with.
Sane(r) ==
    /\ r.pending # <<>> => r.z = "deflate"
    /\ r.loop = "none" => r.batch = <<>> /\ r.input = <<>> /\ ~r.ended
    /\ r.loop = "process" => r.input # <<>> /\ r.batch = <<>> /\ ~r.ended /\ r.z # "inflate"
    /\ r.loop = "inflate" => r.z # "deflate" /\ (r.z = "none" => "environ" \in r.lost)
    /\ (r.told <=> r.z # "none") \/ Down(r)
    /\ r.crashed => "environ" \in r.lost

Typed(nodes) == nodes \in [Node -> Tracker]

AllSane(nodes) == \A n \in Node : Sane(nodes[n])

\* A call of telnet_recv() ends before another one begins.
OneLoop(nodes) ==
    \A m, n \in Node : nodes[m].loop # "none" /\ nodes[n].loop # "none" => m = n

SoundOne(r) == ~Down(r) /\ r.lost = {}

Reading(r) == r.z = "inflate" /\ ~r.ended

Writing(r) == r.z = "deflate"

Out(r) == r.wire \o r.pending

\* What is under way to n is framed, from what n takes it for to what its peer
\* will send next.
Framing(nodes) ==
    \A n \in Node :
        LET p == Peer[n]
        IN  SoundOne(nodes[n]) /\ SoundOne(nodes[p]) =>
                InFrame(nodes[n].input \o Out(nodes[p]), Reading(nodes[n]), Writing(nodes[p]))

IInv(nodes) == Typed(nodes) /\ AllSane(nodes) /\ OneLoop(nodes) /\ Framing(nodes)

-----------------------------------------------------------------------------
(* What a step of a tracker from r to s does to the streams.               *)

\* While it is sound, it reads of what is under way to it what framing allows,
\* and adds to what it sends what framing allows.
Moves(r, s) ==
    SoundOne(s) =>
        /\ SoundOne(r)
        /\ \A w \in Seq(Unit), c \in BOOLEAN :
              InFrame(r.input \o w, Reading(r), c) => InFrame(s.input \o w, Reading(s), c)
        /\ \E t \in Seq(Unit) : Out(s) = Out(r) \o t /\ InFrame(t, Writing(r), Writing(s))

LEMMA TrackerFacts ==
    ASSUME NEW r \in Tracker
    PROVE  /\ r.pending \in Seq(Unit) /\ r.wire \in Seq(Unit) /\ r.input \in Seq(Unit)
           /\ r.batch \in Seq(Plain) /\ Out(r) \in Seq(Unit)
           /\ Reading(r) \in BOOLEAN /\ Writing(r) \in BOOLEAN /\ SoundOne(r) \in BOOLEAN
           /\ r.lost \subseteq {"environ", "end"} /\ r.failed \in BOOLEAN /\ r.crashed \in BOOLEAN
           /\ r.told \in BOOLEAN /\ r.ended \in BOOLEAN
           /\ r.z \in {"none", "deflate", "inflate"} /\ r.loop \in {"none", "process", "inflate"}
<1>1. r.pending \in Seq(Unit) /\ r.wire \in Seq(Unit)
  BY DEF Tracker
<1>2. Out(r) \in Seq(Unit)
  BY <1>1, ConcatProperties DEF Out
<1> QED
  BY <1>1, <1>2 DEF Tracker, Reading, Writing, SoundOne, Down

\* A step that adds t to what is sent and reads nothing.
LEMMA MovesBySending ==
    ASSUME NEW r, NEW s, NEW t \in Seq(Unit), s.input = r.input, Reading(s) <=> Reading(r),
           Reading(r) \in BOOLEAN, Reading(s) \in BOOLEAN,
           Out(s) = Out(r) \o t, InFrame(t, Writing(r), Writing(s)),
           SoundOne(s) => SoundOne(r)
    PROVE  Moves(r, s)
<1>1. Reading(s) = Reading(r)
  OBVIOUS
<1> QED
  BY <1>1 DEF Moves

\* A step that sends nothing.
LEMMA MovesByReading ==
    ASSUME NEW r \in Tracker, NEW s, Out(s) = Out(r), Writing(s) <=> Writing(r),
           SoundOne(s) =>
              /\ SoundOne(r)
              /\ \A w \in Seq(Unit), c \in BOOLEAN :
                    InFrame(r.input \o w, Reading(r), c) => InFrame(s.input \o w, Reading(s), c)
    PROVE  Moves(r, s)
<1>1. Out(r) \in Seq(Unit) /\ Writing(r) \in BOOLEAN
  BY TrackerFacts
<1>2. Writing(s) = Writing(r)
  BY <1>1 DEF Writing
<1>3. Out(s) = Out(r) \o <<>> /\ <<>> \in Seq(Unit)
  BY <1>1, ConcatEmptySeq
<1>4. InFrame(<<>>, Writing(r), Writing(s))
  BY <1>1, <1>2, FrameEmpty
<1> QED
  BY <1>3, <1>4 DEF Moves

\* Neither.
LEMMA MovesStill ==
    ASSUME NEW r \in Tracker, NEW s, Out(s) = Out(r), Writing(s) <=> Writing(r),
           s.input = r.input, Reading(s) <=> Reading(r), SoundOne(s) => SoundOne(r)
    PROVE  Moves(r, s)
<1>1. Reading(s) = Reading(r)
  BY DEF Reading
<1>2. \A w \in Seq(Unit), c \in BOOLEAN :
         InFrame(r.input \o w, Reading(r), c) => InFrame(s.input \o w, Reading(s), c)
  BY <1>1
<1> QED
  BY <1>2, MovesByReading

\* Steps of several trackers keep all streams framed.
LEMMA MovesFrame ==
    ASSUME NEW before, NEW after, Typed(before), Typed(after), Framing(before),
           \A n \in Node : Moves(before[n], after[n])
    PROVE  Framing(after)
<1> SUFFICES ASSUME NEW n \in Node, SoundOne(after[n]), SoundOne(after[Peer[n]])
             PROVE  InFrame(after[n].input \o Out(after[Peer[n]]),
                            Reading(after[n]), Writing(after[Peer[n]]))
  BY DEF Framing
<1> DEFINE p == Peer[n]
<1>1. p \in Node
  BY Mccp2Assumption
<1>2. before[n] \in Tracker /\ before[p] \in Tracker /\ after[n] \in Tracker /\ after[p] \in Tracker
  BY <1>1 DEF Typed
<1> DEFINE i == before[n].input
           j == after[n].input
           o == Out(before[p])
           a == Reading(before[n])
           b == Writing(before[p])
           c == Writing(after[p])
<1>3. /\ i \in Seq(Unit) /\ o \in Seq(Unit) /\ j \in Seq(Unit) /\ a \in BOOLEAN /\ b \in BOOLEAN /\ c \in BOOLEAN
      /\ Reading(after[n]) \in BOOLEAN
  BY <1>2, TrackerFacts
<1>4. /\ SoundOne(before[n]) /\ SoundOne(before[p])
      /\ \A w \in Seq(Unit), d \in BOOLEAN :
            InFrame(i \o w, a, d) => InFrame(j \o w, Reading(after[n]), d)
      /\ \E t \in Seq(Unit) : Out(after[p]) = o \o t /\ InFrame(t, b, c)
  BY <1>1 DEF Moves
<1>5. InFrame(i \o o, a, b)
  BY <1>1, <1>4 DEF Framing
<1>6. PICK t \in Seq(Unit) : Out(after[p]) = o \o t /\ InFrame(t, b, c)
  BY <1>4
<1> HIDE DEF i, j, o, a, b, c, p
<1>7. InFrame((i \o o) \o t, a, c)
  <2>1. i \o o \in Seq(Unit)
    BY <1>3, ConcatProperties
  <2> QED
    BY <1>3, <1>5, <1>6, <2>1, FrameConcat
<1>8. (i \o o) \o t = i \o (o \o t) /\ o \o t \in Seq(Unit)
  BY <1>3, ConcatAssociative, ConcatProperties
<1>9. InFrame(j \o (o \o t), Reading(after[n]), c)
  BY <1>3, <1>4, <1>7, <1>8
<1> QED
  BY <1>6, <1>9 DEF j, p, c

-----------------------------------------------------------------------------
(* What a step from r to s does to the messages.                           *)

\* What it has still to read of the chunk.
Held(r) == Content(r.batch \o r.input)

\* While n is sound and takes its input for what it is, it reads the messages
\* taken, which an application at an end gets, and sends on those given, which
\* at an end its application sent.
Carries(n, r, s, taken, given) ==
    SoundOne(s) =>
        /\ IsEnd(n) => s.got = r.got \o taken /\ s.sent = r.sent \o given
        /\ Content(Out(s)) = Content(Out(r)) \o given
        /\ \A w \in Seq(Unit), c \in BOOLEAN :
              InFrame(r.input \o w, Reading(r), c) => Held(r) = taken \o Held(s)

LEMMA TrackerContent ==
    ASSUME NEW r \in Tracker
    PROVE  /\ Held(r) \in Seq(Plain) /\ Content(Out(r)) \in Seq(Plain)
           /\ r.sent \in Seq(Plain) /\ r.got \in Seq(Plain)
           /\ <<>> \o Held(r) = Held(r) /\ Content(Out(r)) \o <<>> = Content(Out(r))
           /\ r.sent \o <<>> = r.sent /\ r.got \o <<>> = r.got
<1>1. r.batch \in Seq(Unit) /\ r.input \in Seq(Unit) /\ Out(r) \in Seq(Unit)
  <2>1. r.batch \in Seq(Plain)
    BY TrackerFacts
  <2>2. r.batch \in Seq(Unit)
    BY <2>1, PlainFacts, SeqMonotonic
  <2> QED
    BY <2>2, TrackerFacts
<1>2. Held(r) \in Seq(Plain) /\ Content(Out(r)) \in Seq(Plain)
  <2>1. r.batch \o r.input \in Seq(Unit)
    BY <1>1, ConcatProperties
  <2> QED
    BY <1>1, <2>1, ContentType DEF Held
<1>3. r.sent \in Seq(Plain) /\ r.got \in Seq(Plain)
  BY DEF Tracker
<1> QED
  BY <1>2, <1>3, ConcatEmptySeq

\* A step that sends the messages given.
LEMMA CarriesSending ==
    ASSUME NEW n, NEW r \in Tracker, NEW s, NEW given, s.input = r.input, s.batch = r.batch,
           s.got = r.got, s.sent = r.sent \o given,
           SoundOne(s) => Content(Out(s)) = Content(Out(r)) \o given
    PROVE  Carries(n, r, s, <<>>, given)
BY TrackerContent DEF Carries, Held

\* One that sends a switch, or no unit.
LEMMA CarriesSwitch ==
    ASSUME NEW n, NEW r \in Tracker, NEW s, s.input = r.input, s.batch = r.batch,
           s.got = r.got, s.sent = r.sent, Content(Out(s)) = Content(Out(r)) \o <<>>
    PROVE  Carries(n, r, s, <<>>, <<>>)
BY TrackerContent, CarriesSending

LEMMA CarriesNothing ==
    ASSUME NEW n, NEW r \in Tracker, NEW s, s.input = r.input, s.batch = r.batch,
           s.got = r.got, s.sent = r.sent, Out(s) = Out(r)
    PROVE  Carries(n, r, s, <<>>, <<>>)
BY TrackerContent, CarriesSwitch

-----------------------------------------------------------------------------
(* What the library's functions do to a tracker.                           *)

\* What a function that sends, or makes z, leaves alone.
Kept(r, s) ==
    /\ s.loop = r.loop /\ s.input = r.input /\ s.batch = r.batch /\ s.ended = r.ended
    /\ s.crashed = r.crashed /\ s.lost = r.lost /\ s.sent = r.sent /\ s.got = r.got

\* The loop of _send() keeps the units in order.
LEMMA DeflatedIs ==
    ASSUME NEW r \in Tracker, NEW units \in Seq(Plain)
    PROVE  /\ Deflated(r, units) \in Tracker
           /\ Out(Deflated(r, units)) = Out(r) \o Pack(units)
           /\ Kept(r, Deflated(r, units))
           /\ \A x \in {"z", "told", "failed"} : Deflated(r, units)[x] = r[x]
<1> DEFINE full == (Len(r.pending) \div OutMax) * OutMax
           queue == r.pending \o Pack(units)
           most == full + OutMax
           k == Min({most, Len(queue)})
           out == SubSeq(queue, 1, k)
           rest == SubSeq(queue, k + 1, Len(queue))
           s == [r EXCEPT !.wire = @ \o out, !.pending = rest]
<1>1. s = Deflated(r, units)
  BY DEF Deflated, Pack
<1>2. r.wire \in Seq(Unit) /\ r.pending \in Seq(Unit) /\ Pack(units) \in Seq(Unit)
  BY TrackerFacts, PackedRun
<1>3. queue \in Seq(Unit) /\ Len(queue) \in Nat
  BY <1>2, ConcatProperties, LenProperties
<1>4. most \in Nat
  <2>1. Len(r.pending) \in Nat /\ OutMax \in Nat /\ OutMax > 0
    BY <1>2, LenProperties, Mccp2Assumption
  <2> QED
    BY <2>1, Buffers
<1> HIDE DEF queue, most
<1>5. k \in 0 .. Len(queue)
  BY <1>3, <1>4, MinOfTwo
<1> HIDE DEF k
<1>6. out \in Seq(Unit) /\ rest \in Seq(Unit) /\ out \o rest = queue
  BY <1>3, <1>5, Cut
<1> HIDE DEF out, rest
<1>7. r.wire \o out \in Seq(Unit)
  BY <1>2, <1>6, ConcatProperties
<1>8. s \in Tracker
  BY <1>6, <1>7 DEF Tracker
<1>9. s.wire = r.wire \o out /\ s.pending = rest
  BY DEF Tracker
<1>10. Out(s) = Out(r) \o Pack(units)
  <2> HIDE DEF s
  <2>1. (r.wire \o out) \o rest = r.wire \o (out \o rest)
    <3>1. r.wire \in Seq(Unit) /\ out \in Seq(Unit) /\ rest \in Seq(Unit)
      BY <1>2, <1>6
    <3> QED
      BY <3>1, Regroup DEF Assoc
  <2>2. (r.wire \o r.pending) \o Pack(units) = r.wire \o (r.pending \o Pack(units))
    BY <1>2, Regroup DEF Assoc
  <2> QED
    BY <1>6, <1>9, <2>1, <2>2 DEF Out, queue
<1>11. Kept(r, s) /\ \A x \in {"z", "told", "failed"} : s[x] = r[x]
  BY DEF Tracker, Kept
<1> HIDE DEF s
<1> QED
  BY <1>1, <1>8, <1>10, <1>11

LEMMA SendIs ==
    ASSUME NEW r \in Tracker, r.pending # <<>> => r.z = "deflate",
           NEW units \in Seq(Plain), NEW s \in Send(r, units)
    PROVE  /\ s \in Tracker /\ Kept(r, s) /\ (s.pending # <<>> => s.z = "deflate")
           /\ \/ s.failed
              \/ /\ s.z = r.z /\ s.told = r.told /\ s.failed = r.failed
                 /\ Out(s) = Out(r) \o (IF r.z = "deflate" THEN Pack(units) ELSE units)
<1>1. CASE r.z = "deflate" /\ s = Deflated(r, units)
  <2> DEFINE d == Deflated(r, units)
  <2>1. d \in Tracker /\ Out(d) = Out(r) \o Pack(units) /\ Kept(r, d)
        /\ d.z = r.z /\ d.told = r.told /\ d.failed = r.failed
    BY DeflatedIs
  <2> HIDE DEF d
  <2> QED
    BY <1>1, <2>1 DEF d
<1>2. CASE r.z = "deflate" /\ s = DeflateFailed(r)
  <2>1. <<>> \in Seq(Unit)
    OBVIOUS
  <2> QED
    BY <1>2, <2>1 DEF DeflateFailed, Tracker, Kept
<1>3. CASE r.z # "deflate" /\ s = [r EXCEPT !.wire = @ \o units]
  <2> DEFINE w == r.wire \o units
  <2>1. r.pending = <<>> /\ r.wire \in Seq(Unit) /\ units \in Seq(Unit)
    <3>1. units \in Seq(Unit)
      BY PlainFacts, SeqMonotonic
    <3> QED
      BY <1>3, <3>1, TrackerFacts
  <2>2. w \in Seq(Unit)
    BY <2>1, ConcatProperties
  <2>3. w \o <<>> = w /\ r.wire \o <<>> = r.wire
    BY <2>1, <2>2, ConcatEmptySeq
  <2> HIDE DEF w
  <2>4. s = [r EXCEPT !.wire = w]
    BY <1>3 DEF w
  <2>5. /\ s \in Tracker /\ s.wire = w /\ s.pending = r.pending /\ Kept(r, s)
        /\ s.z = r.z /\ s.told = r.told /\ s.failed = r.failed
    BY <2>2, <2>4 DEF Tracker, Kept
  <2>6. Out(s) = Out(r) \o units
    BY <2>1, <2>3, <2>5 DEF Out, w
  <2> QED
    BY <1>3, <2>1, <2>5, <2>6
<1> QED
  BY <1>1, <1>2, <1>3 DEF Send

LEMMA InitZlibIs ==
    ASSUME NEW r \in Tracker, NEW d \in {"deflate", "inflate"}, NEW e \in BOOLEAN,
           NEW s \in InitZlib(r, d, e)
    PROVE  /\ s \in Tracker /\ Kept(r, s) /\ s.wire = r.wire /\ s.pending = r.pending
           /\ s.told = r.told
           /\ \/ s.z = r.z /\ (s.failed <=> r.failed \/ e)
              \/ r.z = "none" /\ s.z = d /\ s.failed = r.failed
<1>1. CASE s = [r EXCEPT !.failed = @ \/ e]
  BY <1>1 DEF Tracker, Kept
<1>2. CASE r.z = "none" /\ s = [r EXCEPT !.z = d]
  BY <1>2 DEF Tracker, Kept
<1> QED
  BY <1>1, <1>2 DEF InitZlib

\* What a sender is left with.
Sender(r, s) == s \in Tracker /\ Sane(s) /\ s.loop = r.loop /\ Moves(r, s)

LEMMA KeptSane ==
    ASSUME NEW r \in Tracker, Sane(r), r.loop = "none", NEW s \in Tracker, Kept(r, s),
           s.pending # <<>> => s.z = "deflate", (s.told <=> s.z # "none") \/ Down(s)
    PROVE  Sane(s)
BY DEF Sane, Kept

LEMMA KeptSound ==
    ASSUME NEW r \in Tracker, NEW s \in Tracker, Kept(r, s), r.failed => s.failed
    PROVE  SoundOne(s) => SoundOne(r)
BY DEF Kept, SoundOne, Down

LEMMA FailedMoves ==
    ASSUME NEW r, NEW s, s.failed
    PROVE  Moves(r, s)
BY DEF Moves, SoundOne, Down

\* Sending messages.
LEMMA SendSends ==
    ASSUME NEW r \in Tracker, Sane(r), r.loop = "none", NEW units \in Seq(Plain),
           \A i \in 1 .. Len(units) : units[i] # Marker, NEW s \in Send(r, units)
    PROVE  Sender(r, s)
<1>1. r.pending # <<>> => r.z = "deflate"
  BY DEF Sane
<1>2. s \in Tracker /\ Kept(r, s) /\ (s.pending # <<>> => s.z = "deflate")
  BY <1>1, SendIs
<1>3. s.loop = r.loop /\ s.input = r.input
  BY <1>2 DEF Kept
<1>4. CASE s.failed
  <2>1. Sane(s)
    BY <1>2, <1>4, KeptSane DEF Down
  <2> QED
    BY <1>2, <1>3, <1>4, <2>1, FailedMoves DEF Sender
<1>5. CASE ~s.failed
  <2> DEFINE t == IF r.z = "deflate" THEN Pack(units) ELSE units
  <2>1. s.z = r.z /\ s.told = r.told /\ s.failed = r.failed /\ Out(s) = Out(r) \o t
    BY <1>1, <1>5, SendIs
  <2>2. t \in Seq(Unit) /\ InFrame(t, Writing(r), Writing(s))
    <3>1. CASE r.z = "deflate"
      BY <2>1, <3>1, PackedRun DEF Writing
    <3>2. CASE r.z # "deflate"
      <4>1. Writing(r) = FALSE /\ Writing(s) = FALSE
        BY <2>1, <3>2 DEF Writing
      <4> QED
        BY <3>2, <4>1, PlainRun
    <3> QED
      BY <3>1, <3>2
  <2> HIDE DEF t
  <2>3. Reading(s) <=> Reading(r)
    BY <1>2, <2>1 DEF Kept, Reading
  <2>4. SoundOne(s) => SoundOne(r)
    BY <1>2, <2>1, KeptSound
  <2>5. Reading(r) \in BOOLEAN /\ Reading(s) \in BOOLEAN
    BY <1>2, TrackerFacts
  <2>6. Moves(r, s)
    BY <1>3, <2>1, <2>2, <2>3, <2>4, <2>5, MovesBySending
  <2>7. (s.told <=> s.z # "none") \/ Down(s)
    BY <1>2, <2>1 DEF Sane, Kept, Down
  <2>8. Sane(s)
    BY <1>2, <2>7, KeptSane
  <2> QED
    BY <1>2, <1>3, <2>6, <2>8 DEF Sender
<1> QED
  BY <1>2, <1>4, <1>5 DEF Tracker

\* The unit follows what was sent before, plain or compressed, unless that failed.
Forwarded(r, s, u) ==
    /\ s \in Tracker /\ Kept(r, s) /\ (r.failed => s.failed)
    /\ s.failed \/ \E v \in {u, Packed(u)} : Out(s) = Out(r) \o <<v>>

LEMMA SendForwards ==
    ASSUME NEW r \in Tracker, Sane(r), NEW u \in Plain, NEW s \in Send(r, <<u>>)
    PROVE  Forwarded(r, s, u)
<1>1. r.pending # <<>> => r.z = "deflate"
  BY DEF Sane
<1>2. <<u>> \in Seq(Plain)
  OBVIOUS
<1>3. /\ s \in Tracker /\ Kept(r, s)
      /\ \/ s.failed
         \/ /\ s.failed = r.failed
            /\ Out(s) = Out(r) \o (IF r.z = "deflate" THEN Pack(<<u>>) ELSE <<u>>)
  BY <1>1, <1>2, SendIs
<1> QED
  BY <1>3, PackOne DEF Forwarded

\* A record told of compression.
LEMMA ToldIs ==
    ASSUME NEW r \in Tracker
    PROVE  LET s == [r EXCEPT !.told = TRUE]
           IN  /\ s \in Tracker /\ Kept(r, s) /\ s.z = r.z /\ s.told /\ s.failed = r.failed
               /\ s.wire = r.wire /\ s.pending = r.pending
BY DEF Tracker, Kept

\* Compression starts with the marker, the last unit that is sent plain.
LEMMA MarkerMoves ==
    ASSUME NEW r \in Tracker, NEW s \in Tracker, Kept(r, s), r.z = "none", s.z = "deflate",
           s.failed = r.failed, Out(s) = Out(r) \o <<Marker>>
    PROVE  Moves(r, s)
<1>1. s.input = r.input
  BY DEF Kept
<1>2. Reading(r) = FALSE /\ Reading(s) = FALSE /\ Writing(r) = FALSE /\ Writing(s) = TRUE
  BY DEF Reading, Writing
<1>3. <<Marker>> \in Seq(Unit)
  BY PlainFacts
<1>4. SoundOne(s) => SoundOne(r)
  BY KeptSound
<1>5. InFrame(<<Marker>>, Writing(r), Writing(s))
  BY <1>2, FrameSwitch
<1> QED
  BY <1>1, <1>2, <1>3, <1>4, <1>5, MovesBySending

\* A proxy passing the marker on.
LEMMA ProxyMarkerSends ==
    ASSUME NEW r \in Tracker, Sane(r), r.loop = "none", NEW s \in SendMarkerAsProxy(r)
    PROVE  Sender(r, s) /\ Forwarded(r, s, Marker)
<1>1. PICK a \in Send(r, <<Marker>>) :
         \E b \in InitZlib(a, "deflate", TRUE) : s = IF b.z = a.z THEN b ELSE [b EXCEPT !.told = TRUE]
  BY DEF SendMarkerAsProxy
<1>2. PICK b \in InitZlib(a, "deflate", TRUE) : s = IF b.z = a.z THEN b ELSE [b EXCEPT !.told = TRUE]
  BY <1>1
<1>3. r.pending # <<>> => r.z = "deflate"
  BY DEF Sane
<1>4. <<Marker>> \in Seq(Plain)
  BY PlainFacts
<1>5. /\ a \in Tracker /\ Kept(r, a) /\ (a.pending # <<>> => a.z = "deflate")
      /\ \/ a.failed
         \/ /\ a.z = r.z /\ a.told = r.told /\ a.failed = r.failed
            /\ Out(a) = Out(r) \o (IF r.z = "deflate" THEN Pack(<<Marker>>) ELSE <<Marker>>)
  BY <1>3, <1>4, SendIs
<1>6. /\ b \in Tracker /\ Kept(a, b) /\ b.wire = a.wire /\ b.pending = a.pending
      /\ b.told = a.told
      /\ \/ b.z = a.z /\ b.failed
         \/ a.z = "none" /\ b.z = "deflate" /\ b.failed = a.failed
  <2>1. /\ b \in Tracker /\ Kept(a, b) /\ b.wire = a.wire /\ b.pending = a.pending
        /\ b.told = a.told
        /\ \/ b.z = a.z /\ (b.failed <=> a.failed \/ TRUE)
           \/ a.z = "none" /\ b.z = "deflate" /\ b.failed = a.failed
    BY <1>2, <1>5, InitZlibIs
  <2> QED
    BY <2>1
<1>7. CASE b.z = a.z
  <2>1. s = b /\ b.failed
    BY <1>2, <1>6, <1>7
  <2>2. Kept(r, b) /\ (b.pending # <<>> => b.z = "deflate") /\ Down(b)
    BY <1>5, <1>6, <1>7, <2>1 DEF Kept, Down
  <2>3. Sane(b)
    BY <1>6, <2>2, KeptSane
  <2>4. Moves(r, b)
    BY <2>1, FailedMoves
  <2> QED
    BY <1>6, <2>1, <2>2, <2>3, <2>4 DEF Sender, Kept, Forwarded
<1>8. CASE b.z # a.z
  <2>1. /\ s = [b EXCEPT !.told = TRUE]
        /\ a.z = "none" /\ b.z = "deflate" /\ b.failed = a.failed
    BY <1>2, <1>6, <1>8
  <2>2. /\ s \in Tracker /\ Kept(b, s) /\ s.z = b.z /\ s.told /\ s.failed = b.failed
        /\ s.wire = b.wire /\ s.pending = b.pending
    BY <1>6, <2>1, ToldIs
  <2>3. Kept(r, s) /\ s.z = "deflate"
    BY <1>5, <1>6, <2>1, <2>2 DEF Kept
  <2>4. Sane(s)
    BY <2>2, <2>3, KeptSane
  <2>5. Moves(r, s) /\ Forwarded(r, s, Marker)
    <3>1. CASE a.failed
      BY <2>1, <2>2, <2>3, <3>1, FailedMoves DEF Forwarded
    <3>2. CASE ~a.failed
      <4>1. r.z = "none" /\ s.failed = r.failed /\ Out(a) = Out(r) \o <<Marker>>
        BY <1>5, <2>1, <2>2, <3>2
      <4>2. Out(s) = Out(a)
        BY <1>6, <2>2 DEF Out
      <4> QED
        BY <2>2, <2>3, <4>1, <4>2, MarkerMoves DEF Forwarded
    <3> QED
      BY <3>1, <3>2
  <2> QED
    BY <2>2, <2>3, <2>4, <2>5 DEF Sender, Kept
<1> QED
  BY <1>7, <1>8

\* The marker received: z is made, or an ERROR given.
LEMMA StartInflatingIs ==
    ASSUME NEW r \in Tracker, NEW s \in StartInflating(r)
    PROVE  /\ s \in Tracker /\ Kept(r, s) /\ s.wire = r.wire /\ s.pending = r.pending
           /\ \/ s.z = r.z /\ s.failed
              \/ r.z = "none" /\ s.z = "inflate" /\ s.told /\ s.failed = r.failed
<1>1. PICK b \in InitZlib(r, "inflate", TRUE) : s = IF b.z = r.z THEN b ELSE [b EXCEPT !.told = TRUE]
  BY DEF StartInflating
<1>2. /\ b \in Tracker /\ Kept(r, b) /\ b.wire = r.wire /\ b.pending = r.pending
      /\ \/ b.z = r.z /\ (b.failed <=> r.failed \/ TRUE)
         \/ r.z = "none" /\ b.z = "inflate" /\ b.failed = r.failed
  BY <1>1, InitZlibIs
<1>3. CASE b.z = r.z
  BY <1>1, <1>2, <1>3
<1>4. CASE b.z # r.z
  <2>1. s = [b EXCEPT !.told = TRUE] /\ r.z = "none" /\ b.z = "inflate" /\ b.failed = r.failed
    BY <1>1, <1>2, <1>4
  <2>2. /\ s \in Tracker /\ Kept(b, s) /\ s.z = b.z /\ s.told /\ s.failed = b.failed
        /\ s.wire = b.wire /\ s.pending = b.pending
    BY <1>2, <2>1, ToldIs
  <2> QED
    BY <1>2, <2>1, <2>2 DEF Kept
<1> QED
  BY <1>3, <1>4

-----------------------------------------------------------------------------
(* Each action preserves the inductive invariant.                          *)

\* One tracker moves, and enters no loop unless it was in one.
LEMMA OneMoves ==
    ASSUME NEW nodes, IInv(nodes), NEW n \in Node, NEW s \in Tracker, Sane(s),
           s.loop # "none" => nodes[n].loop # "none", Moves(nodes[n], s)
    PROVE  IInv([nodes EXCEPT ![n] = s])
<1> DEFINE after == [nodes EXCEPT ![n] = s]
<1>1. nodes \in [Node -> Tracker]
  BY DEF IInv, Typed
<1>2. after[n] = s /\ \A m \in Node : m # n => after[m] = nodes[m]
  BY <1>1
<1>3. Typed(after)
  BY <1>1 DEF Typed
<1> HIDE DEF after
<1>4. AllSane(after)
  BY <1>2 DEF IInv, AllSane
<1>5. OneLoop(after)
  <2>1. \A m \in Node : after[m].loop # "none" => nodes[m].loop # "none"
    BY <1>2
  <2> QED
    BY <2>1 DEF IInv, OneLoop
<1>6. ASSUME NEW m \in Node
      PROVE  Moves(nodes[m], after[m])
  <2>1. CASE m = n
    BY <1>2, <2>1
  <2>2. CASE m # n
    <3>1. nodes[m] \in Tracker /\ after[m] = nodes[m]
      BY <1>1, <1>2, <2>2
    <3> QED
      BY <3>1, MovesStill
  <2> QED
    BY <2>1, <2>2
<1>7. Framing(after)
  BY <1>1, <1>3, <1>6, MovesFrame DEF IInv, Typed
<1> QED
  BY <1>3, <1>4, <1>5, <1>7 DEF IInv, after

\* A step of n by which nothing is read and no other tracker changes.
Alone(n, s, given) ==
    /\ s \in Tracker /\ Sane(s) /\ (s.loop # "none" => node[n].loop # "none")
    /\ Moves(node[n], s) /\ Carries(n, node[n], s, <<>>, given)
    /\ given \in Seq(Plain) /\ (given = <<>> \/ IsEnd(n))
    /\ node' = [node EXCEPT ![n] = s]

LEMMA AloneStep ==
    ASSUME IInv(node), NEW n \in Node, NEW s, NEW given, Alone(n, s, given)
    PROVE  IInv(node')
BY OneMoves DEF Alone

LEMMA SenderAlone ==
    ASSUME NEW n \in Node, NEW s, Sender(node[n], s), NEW given \in Seq(Plain),
           given = <<>> \/ IsEnd(n), Carries(n, node[n], s, <<>>, given),
           node' = [node EXCEPT ![n] = s]
    PROVE  Alone(n, s, given)
BY DEF Alone, Sender

LEMMA SilentAlone ==
    ASSUME NEW n \in Node, NEW s, Sender(node[n], s), Carries(n, node[n], s, <<>>, <<>>),
           node' = [node EXCEPT ![n] = s]
    PROVE  Alone(n, s, <<>>)
<1>1. <<>> \in Seq(Plain)
  OBVIOUS
<1> QED
  BY <1>1, SenderAlone

LEMMA SenderMoves ==
    ASSUME NEW nodes, IInv(nodes), NEW n \in Node, NEW s, Sender(nodes[n], s)
    PROVE  IInv([nodes EXCEPT ![n] = s])
<1>1. s \in Tracker /\ Sane(s) /\ s.loop = nodes[n].loop /\ Moves(nodes[n], s)
  BY DEF Sender
<1> QED
  BY <1>1, OneMoves

\* The record of a node.
LEMMA NodeFacts ==
    ASSUME NEW nodes, IInv(nodes), NEW n \in Node
    PROVE  nodes[n] \in Tracker /\ Sane(nodes[n]) /\ nodes \in [Node -> Tracker]
BY DEF IInv, Typed, AllSane

LEMMA UnitsFacts ==
    ASSUME IInv(node), NEW n \in Node, NEW units \in Units(n)
    PROVE  units \in Seq(Plain) /\ \A i \in 1 .. Len(units) : units[i] # Marker
<1> DEFINE k == Len(node[n].sent)
           Numbered(kind, i) == [kind |-> kind, n |-> k + i]
<1>1. k \in Nat /\ OutMax \in Nat
  <2>1. node[n].sent \in Seq(Plain)
    BY NodeFacts DEF Tracker
  <2> QED
    BY <2>1, LenProperties, Mccp2Assumption
<1> HIDE DEF k
<1>2. \A i \in Nat : /\ Numbered("data", i) \in Plain /\ Numbered("environ", i) \in Plain
                     /\ Numbered("data", i) # Marker /\ Numbered("environ", i) # Marker
  BY <1>1 DEF Plain, Marker
<1>3. units \in {<<Numbered("data", 1)>>, <<Numbered("environ", 1)>>,
                 [i \in 1 .. OutMax + 1 |-> Numbered("data", i)]}
  BY DEF Units, k
<1> HIDE DEF Numbered
<1>4. CASE units = <<Numbered("data", 1)>>
  BY <1>2, <1>4
<1>5. CASE units = <<Numbered("environ", 1)>>
  BY <1>2, <1>5
<1>6. CASE units = [i \in 1 .. OutMax + 1 |-> Numbered("data", i)]
  <2> DEFINE l == OutMax + 1
             e(i) == Numbered("data", i)
  <2>1. l \in Nat /\ \A i \in 1 .. l : e(i) \in Plain /\ e(i) # Marker
    BY <1>1, <1>2
  <2>2. units = [i \in 1 .. l |-> e(i)]
    BY <1>6
  <2> HIDE DEF l, e
  <2>3. units \in Seq(Plain)
    BY <2>1, <2>2, IsASeq
  <2>4. Len(units) = l
    BY <2>1, <2>2
  <2> QED
    BY <2>1, <2>2, <2>3, <2>4
<1> QED
  BY <1>3, <1>4, <1>5, <1>6

\* What was sent is what it was sent for, plain or compressed.
LEMMA SentContent ==
    ASSUME NEW r \in Tracker, Sane(r), NEW units \in Seq(Plain),
           \A i \in 1 .. Len(units) : units[i] # Marker, NEW s \in Send(r, units)
    PROVE  Kept(r, s) /\ (SoundOne(s) => Content(Out(s)) = Content(Out(r)) \o units)
<1>1. r.pending # <<>> => r.z = "deflate"
  BY DEF Sane
<1> DEFINE t == IF r.z = "deflate" THEN Pack(units) ELSE units
<1>2. t \in Seq(Unit) /\ Content(t) = units
  <2>1. units \in Seq(Unit) /\ Pack(units) \in Seq(Unit)
    BY PlainFacts, SeqMonotonic, PackedRun
  <2>2. Content(units) = units /\ Content(Pack(units)) = Content(units)
    BY ContentOfMessages, ContentOfPacked
  <2> QED
    BY <2>1, <2>2
<1>3. Kept(r, s) /\ (s.failed \/ Out(s) = Out(r) \o t)
  BY <1>1, SendIs
<1> HIDE DEF t
<1>4. Content(Out(r) \o t) = Content(Out(r)) \o units
  BY <1>2, TrackerFacts, ContentConcat
<1> QED
  BY <1>3, <1>4 DEF SoundOne, Down

LEMMA AppSendAlone ==
    ASSUME IInv(node), Idle, NEW n \in Node, NEW units \in Units(n), AppSend(n, units)
    PROVE  \E s : Alone(n, s, units)
<1> DEFINE q == [node[n] EXCEPT !.sent = @ \o units]
<1>1. PICK s \in Send(q, units) : node' = [node EXCEPT ![n] = s]
  BY DEF AppSend
<1>2. units \in Seq(Plain) /\ \A i \in 1 .. Len(units) : units[i] # Marker
  BY UnitsFacts
<1>3. node[n] \in Tracker /\ Sane(node[n]) /\ node[n].loop = "none" /\ ~Down(node[n])
  BY NodeFacts DEF Idle
<1>4. q \in Tracker /\ Sane(q) /\ q.loop = "none" /\ node[n].input = q.input
      /\ node[n].loop = q.loop /\ Reading(q) = Reading(node[n]) /\ Writing(q) = Writing(node[n])
      /\ SoundOne(q) = SoundOne(node[n]) /\ Out(q) = Out(node[n])
      /\ q.batch = node[n].batch /\ q.got = node[n].got /\ q.sent = node[n].sent \o units
  <2>1. node[n].sent \o units \in Seq(Plain)
    BY <1>2, <1>3, ConcatProperties DEF Tracker
  <2> DEFINE c == node[n].sent \o units
  <2> HIDE DEF c
  <2>2. q = [node[n] EXCEPT !.sent = c] /\ c \in Seq(Plain)
    BY <2>1 DEF c
  <2> HIDE DEF q
  <2> QED
    BY <1>3, <2>2 DEF Tracker, Sane, Down, Reading, Writing, SoundOne, Out, c
<1> HIDE DEF q
<1>5. Sender(q, s)
  BY <1>2, <1>4, SendSends
<1>6. Sender(node[n], s)
  BY <1>4, <1>5 DEF Sender, Moves
<1>7. Kept(q, s) /\ (SoundOne(s) => Content(Out(s)) = Content(Out(q)) \o units)
  BY <1>2, <1>4, SentContent
<1>8. Carries(n, node[n], s, <<>>, units)
  BY <1>3, <1>4, <1>7, CarriesSending DEF Kept
<1>9. IsEnd(n)
  BY DEF AppSend
<1> QED
  BY <1>1, <1>2, <1>6, <1>8, <1>9, SenderAlone

\* The records telnet_begin_compress2() leaves.
LEMMA CalledIs ==
    ASSUME NEW b \in Tracker, NEW k \in Nat
    PROVE  LET s == [b EXCEPT !.starts = k]
           IN  /\ s \in Tracker /\ Kept(b, s) /\ s.wire = b.wire /\ s.pending = b.pending
               /\ s.told = b.told /\ s.z = b.z /\ s.failed = b.failed
BY DEF Tracker, Kept

LEMMA StartedIs ==
    ASSUME NEW b \in Tracker, NEW w \in Seq(Unit)
    PROVE  LET s == [b EXCEPT !.wire = w]
           IN  /\ s \in Tracker /\ Kept(b, s) /\ s.wire = w /\ s.pending = b.pending
               /\ s.z = b.z /\ s.failed = b.failed
BY DEF Tracker, Kept

LEMMA BeginCompress2Alone ==
    ASSUME IInv(node), Idle, NEW n \in Node, BeginCompress2(n)
    PROVE  \E s : Alone(n, s, <<>>)
<1> DEFINE r == node[n]
<1>1. PICK b \in InitZlib(r, "deflate", FALSE) :
         node' = [node EXCEPT ![n] =
            IF b.z = r.z THEN [b EXCEPT !.starts = @ + 1]
            ELSE [b EXCEPT !.starts = @ + 1, !.wire = Append(@, Marker), !.told = TRUE]]
  BY DEF BeginCompress2
<1>2. r \in Tracker /\ Sane(r) /\ r.loop = "none"
  BY NodeFacts DEF Idle
<1> HIDE DEF r
<1>3. /\ b \in Tracker /\ Kept(r, b) /\ b.wire = r.wire /\ b.pending = r.pending
      /\ b.told = r.told
      /\ \/ b.z = r.z /\ (b.failed <=> r.failed \/ FALSE)
         \/ r.z = "none" /\ b.z = "deflate" /\ b.failed = r.failed
  BY <1>1, <1>2, InitZlibIs
<1>4. CASE b.z = r.z
  <2> DEFINE k == b.starts + 1
             s == [b EXCEPT !.starts = k]
  <2>1. b.failed = r.failed /\ k \in Nat
    BY <1>2, <1>3, <1>4 DEF Tracker
  <2>2. /\ s \in Tracker /\ Kept(r, s) /\ s.wire = r.wire /\ s.pending = r.pending
        /\ s.told = r.told /\ s.z = r.z /\ s.failed = r.failed
    <3> HIDE DEF k
    <3>1. /\ s \in Tracker /\ Kept(b, s) /\ s.wire = b.wire /\ s.pending = b.pending
          /\ s.told = b.told /\ s.z = b.z /\ s.failed = b.failed
      BY <1>3, <2>1, CalledIs
    <3> HIDE DEF s
    <3> QED
      BY <1>3, <1>4, <2>1, <3>1 DEF Kept
  <2>3. node' = [node EXCEPT ![n] = s]
    BY <1>1, <1>4
  <2> HIDE DEF s
  <2>4. (s.pending # <<>> => s.z = "deflate") /\ ((s.told <=> s.z # "none") \/ Down(s))
    BY <1>2, <2>2 DEF Sane, Kept, Down
  <2>5. Sane(s)
    BY <1>2, <2>2, <2>4, KeptSane
  <2>6. SoundOne(s) => SoundOne(r)
    BY <1>2, <2>2, KeptSound
  <2>7. /\ Out(s) = Out(r) /\ (Writing(s) <=> Writing(r)) /\ s.input = r.input
        /\ (Reading(s) <=> Reading(r)) /\ s.loop = r.loop
    BY <2>2 DEF Out, Writing, Reading, Kept
  <2>8. Moves(r, s)
    BY <1>2, <2>6, <2>7, MovesStill
  <2>9. Sender(node[n], s)
    BY <2>2, <2>5, <2>7, <2>8 DEF Sender, r
  <2>10. Carries(n, node[n], s, <<>>, <<>>)
    BY <1>2, <2>2, <2>7, CarriesNothing DEF Kept, r
  <2> QED
    BY <2>3, <2>9, <2>10, SilentAlone
<1>5. CASE b.z # r.z
  <2> DEFINE w == Append(r.wire, Marker)
             k == b.starts + 1
             s == [b EXCEPT !.starts = k, !.wire = w, !.told = TRUE]
  <2>1. r.z = "none" /\ b.z = "deflate" /\ b.failed = r.failed /\ k \in Nat /\ r.pending = <<>>
    BY <1>2, <1>3, <1>5 DEF Tracker, Sane
  <2>2. r.wire \in Seq(Unit) /\ Marker \in Unit /\ <<Marker>> \in Seq(Unit)
    BY <1>2, PlainFacts, TrackerFacts
  <2>3. w \in Seq(Unit) /\ w = r.wire \o <<Marker>>
    BY <2>2, AppendProperties, AppendIsConcat
  <2>4. node' = [node EXCEPT ![n] = s]
    BY <1>1, <1>3, <1>5
  <2> HIDE DEF w
  <2>5. /\ s \in Tracker /\ Kept(r, s) /\ s.wire = w /\ s.pending = <<>>
        /\ s.told /\ s.z = "deflate" /\ s.failed = r.failed
    <3> HIDE DEF k
    <3> DEFINE c == [b EXCEPT !.wire = w]
               d == [c EXCEPT !.starts = k]
    <3>1. /\ c \in Tracker /\ Kept(b, c) /\ c.wire = w /\ c.pending = b.pending
          /\ c.z = b.z /\ c.failed = b.failed
      BY <1>3, <2>3, StartedIs
    <3>2. s = [d EXCEPT !.told = TRUE]
      OBVIOUS
    <3> HIDE DEF c, s
    <3>3. /\ d \in Tracker /\ Kept(c, d) /\ d.wire = c.wire /\ d.pending = c.pending
          /\ d.z = c.z /\ d.failed = c.failed
      BY <2>1, <3>1, CalledIs
    <3> HIDE DEF d
    <3>4. /\ s \in Tracker /\ Kept(d, s) /\ s.wire = d.wire /\ s.pending = d.pending
          /\ s.told /\ s.z = d.z /\ s.failed = d.failed
      BY <3>2, <3>3, ToldIs
    <3> QED
      BY <1>3, <2>1, <3>1, <3>3, <3>4 DEF Kept
  <2> HIDE DEF s
  <2>6. Sane(s)
    BY <1>2, <2>5, KeptSane
  <2>7. Out(s) = Out(r) \o <<Marker>>
    <3>1. w \o <<>> = w /\ r.wire \o <<>> = r.wire
      BY <2>2, <2>3, ConcatEmptySeq
    <3> QED
      BY <2>1, <2>3, <2>5, <3>1 DEF Out
  <2>8. Moves(r, s)
    BY <1>2, <2>1, <2>5, <2>7, MarkerMoves
  <2>9. Sender(node[n], s)
    BY <2>5, <2>6, <2>8 DEF Sender, Kept, r
  <2>10. Carries(n, node[n], s, <<>>, <<>>)
    <3>1. Content(Out(s)) = Content(Out(r)) \o <<>>
      <4> DEFINE one == <<Marker>>
                 o == Out(r)
      <4>1. o \in Seq(Unit) /\ one \in Seq(Unit)
        BY <1>2, <2>2, TrackerFacts
      <4>2. Content(Out(s)) = Content(o \o one)
        BY <2>7
      <4>3. Content(one) = <<>>
        BY ContentOfUnit
      <4> HIDE DEF one, o
      <4>4. Content(o \o one) = Content(o) \o Content(one)
        BY <4>1, ContentConcat
      <4> QED
        BY <4>2, <4>3, <4>4 DEF o
    <3> QED
      BY <1>2, <2>5, <3>1, CarriesSwitch DEF Kept, r
  <2> QED
    BY <2>4, <2>9, <2>10, SilentAlone
<1> QED
  BY <1>4, <1>5

LEMMA EndCompressionAlone ==
    ASSUME IInv(node), Idle, NEW n \in Node, EndCompression(n)
    PROVE  \E s : Alone(n, s, <<>>)
<1> DEFINE r == node[n]
           w == r.wire \o r.pending \o <<Packed(End)>>
           s == [r EXCEPT !.wire = w, !.pending = <<>>, !.z = "none", !.told = FALSE]
<1>1. r \in Tracker /\ Sane(r) /\ r.loop = "none" /\ r.z = "deflate" /\ node \in [Node -> Tracker]
  BY NodeFacts DEF Idle, EndCompression
<1>2. node' = [node EXCEPT ![n] = s]
  BY <1>1 DEF EndCompression
<1>3. <<Packed(End)>> \in Seq(Unit)
  BY PackedFacts
<1> DEFINE e == <<Packed(End)>>
<1> HIDE DEF r, e
<1>4. w = Out(r) \o e /\ w \in Seq(Unit) /\ w \o <<>> = w /\ e \in Seq(Unit)
  <2>1. Out(r) \in Seq(Unit) /\ e \in Seq(Unit) /\ w = Out(r) \o e
    BY <1>1, <1>3, TrackerFacts DEF Out, e
  <2> HIDE DEF w
  <2>2. w \in Seq(Unit)
    BY <2>1, ConcatProperties
  <2> QED
    BY <2>1, <2>2, ConcatEmptySeq
<1> HIDE DEF w
<1>5. /\ s \in Tracker /\ Kept(r, s) /\ s.wire = w /\ s.pending = <<>>
      /\ s.told = FALSE /\ s.z = "none" /\ s.failed = r.failed
  <2>1. <<>> \in Seq(Unit)
    OBVIOUS
  <2> QED
    BY <1>1, <1>4, <2>1 DEF Tracker, Kept
<1> HIDE DEF s
<1>6. Sane(s)
  BY <1>1, <1>5, KeptSane
<1>7. Moves(r, s)
  <2>1. Out(s) = Out(r) \o e
    BY <1>4, <1>5 DEF Out
  <2>2. Reading(s) = FALSE /\ Reading(r) = FALSE /\ Writing(r) = TRUE /\ Writing(s) = FALSE
    BY <1>1, <1>5 DEF Reading, Writing
  <2>3. SoundOne(s) => SoundOne(r)
    BY <1>1, <1>5, KeptSound
  <2>4. InFrame(e, Writing(r), Writing(s))
    BY <2>2, FrameSwitch DEF e
  <2>5. s.input = r.input
    BY <1>5 DEF Kept
  <2> QED
    BY <1>4, <2>1, <2>2, <2>3, <2>4, <2>5, MovesBySending
<1>8. Sender(node[n], s)
  BY <1>1, <1>5, <1>6, <1>7 DEF Sender, Kept, r
<1>9. Carries(n, node[n], s, <<>>, <<>>)
  <2>1. Out(s) = Out(r) \o e
    BY <1>4, <1>5 DEF Out
  <2>2. Content(Out(s)) = Content(Out(r)) \o <<>>
    <3>1. Content(e) = <<>>
      BY ContentOfUnit DEF e
    <3>2. Out(r) \in Seq(Unit) /\ e \in Seq(Unit)
      BY <1>1, <1>4, TrackerFacts
    <3>3. Content(Out(r) \o e) = Content(Out(r)) \o Content(e)
      BY <3>2, ContentConcat
    <3> QED
      BY <2>1, <3>1, <3>3
  <2> QED
    BY <1>1, <1>5, <2>2, CarriesSwitch DEF Kept, r
<1> QED
  BY <1>2, <1>8, <1>9, SilentAlone

\* What a unit leaves of the record x of the tracker n that gives it to its
\* application.
Given(n, x, r, u) ==
    /\ r \in Tracker /\ r.wire = x.wire /\ r.pending = x.pending
    /\ r.loop = x.loop /\ r.input = x.input /\ r.batch = x.batch /\ r.ended = x.ended
    /\ r.crashed = x.crashed /\ r.lost = x.lost /\ r.sent = x.sent
    /\ r.got = IF IsEnd(n) /\ u # Marker THEN Append(x.got, u) ELSE x.got
    /\ IF u = Marker
         THEN \/ r.z = x.z /\ r.failed
              \/ x.z = "none" /\ r.z = "inflate" /\ r.told /\ r.failed = x.failed
         ELSE r.z = x.z /\ r.told = x.told /\ r.failed = x.failed

LEMMA EndGiven ==
    ASSUME NEW n, IsEnd(n), NEW x \in Tracker, NEW u \in Plain, u # Marker
    PROVE  Given(n, x, [x EXCEPT !.got = Append(@, u)], u)
<1> DEFINE g == Append(x.got, u)
<1>1. g \in Seq(Plain)
  BY AppendProperties DEF Tracker
<1> HIDE DEF g
<1> DEFINE r == [x EXCEPT !.got = g]
<1>2. /\ r \in Tracker /\ r.wire = x.wire /\ r.pending = x.pending
      /\ r.loop = x.loop /\ r.input = x.input /\ r.batch = x.batch /\ r.ended = x.ended
      /\ r.crashed = x.crashed /\ r.lost = x.lost /\ r.sent = x.sent /\ r.got = g
      /\ r.z = x.z /\ r.told = x.told /\ r.failed = x.failed
  BY <1>1 DEF Tracker
<1> HIDE DEF r
<1>3. Given(n, x, r, u)
  BY <1>2 DEF Given, g
<1> QED
  BY <1>3 DEF r, g

LEMMA SameGiven ==
    ASSUME NEW n, ~IsEnd(n), NEW x \in Tracker, NEW u \in Plain, u # Marker
    PROVE  Given(n, x, x, u)
BY DEF Given

LEMMA MarkerGiven ==
    ASSUME NEW n, NEW x \in Tracker, NEW r \in StartInflating(x)
    PROVE  Given(n, x, r, Marker)
BY StartInflatingIs DEF Given, Kept

\* The other trackers, after n gave u to its application: a proxy has sent u on.
Elsewhere(n, base, u) ==
    /\ IInv(base)
    /\ \A m \in Node : m # Twin[n] => base[m] = node[m]
    /\ ~IsEnd(n) => Forwarded(node[Twin[n]], base[Twin[n]], u)

\* A unit taken from n, whose record is x without it, and handled: what the
\* proxy sends on keeps the invariant, whatever n does meanwhile.
LEMMA HandledIs ==
    ASSUME IInv(node), NEW n \in Node, node[n].loop # "none", NEW x \in Tracker,
           NEW u \in Plain, NEW ns \in Handled([node EXCEPT ![n] = x], n, u)
    PROVE  \E base : /\ Elsewhere(n, base, u) /\ base[n] = node[n]
                     /\ ns = [base EXCEPT ![n] = ns[n]] /\ Given(n, x, ns[n], u)
<1> DEFINE t == Twin[n]
           taken == [node EXCEPT ![n] = x]
<1>1. node \in [Node -> Tracker]
  BY DEF IInv, Typed
<1>2. taken[n] = x /\ taken \in [Node -> Tracker]
  BY <1>1
<1>3. ASSUME ~IsEnd(n)
      PROVE  /\ t \in Node /\ t # n /\ node[t].loop = "none" /\ taken[t] = node[t]
             /\ node[t] \in Tracker /\ Sane(node[t])
  <2>1. t \in Node /\ t # n
    BY <1>3, Mccp2Assumption DEF IsEnd
  <2>2. node[t].loop = "none"
    BY <2>1 DEF IInv, OneLoop
  <2> QED
    BY <1>1, <2>1, <2>2, NodeFacts
\* What a proxy has sent.
<1>4. ASSUME ~IsEnd(n), NEW s, Sender(node[t], s), Forwarded(node[t], s, u)
      PROVE  /\ Elsewhere(n, [node EXCEPT ![t] = s], u) /\ [node EXCEPT ![t] = s][n] = node[n]
             /\ [taken EXCEPT ![t] = s] = [[node EXCEPT ![t] = s] EXCEPT ![n] = x]
             /\ [taken EXCEPT ![t] = s][n] = x
  <2>1. t \in Node /\ t # n
    BY <1>3, <1>4
  <2> HIDE DEF t
  <2>2. [node EXCEPT ![t] = s][n] = node[n] /\ [taken EXCEPT ![t] = s][n] = x
    BY <1>1, <2>1
  <2>3. [taken EXCEPT ![t] = s] = [[node EXCEPT ![t] = s] EXCEPT ![n] = x]
    BY <1>1, <2>1
  <2>4. IInv([node EXCEPT ![t] = s])
    BY <1>4, <2>1, SenderMoves
  <2> DEFINE base == [node EXCEPT ![t] = s]
  <2>5. base[t] = s /\ \A m \in Node : m # t => base[m] = node[m]
    BY <1>1, <2>1
  <2> HIDE DEF base
  <2>6. Forwarded(node[t], base[t], u)
    BY <1>4, <2>5
  <2>7. Elsewhere(n, base, u)
    BY <2>4, <2>5, <2>6 DEF Elsewhere, t, base
  <2> QED
    BY <2>2, <2>3, <2>7 DEF base
<1>10. IsEnd(n) => Elsewhere(n, node, u)
  BY DEF Elsewhere
<1>5. ASSUME NEW base, base \in [Node -> Tracker], NEW r
      PROVE  /\ [[base EXCEPT ![n] = x] EXCEPT ![n] = r] = [base EXCEPT ![n] = r]
             /\ [base EXCEPT ![n] = r][n] = r
  BY <1>5
<1>6. CASE u = Marker
  <2>1. PICK m : /\ (m = taken /\ IsEnd(n)) \/ (~IsEnd(n) /\ \E s \in SendMarkerAsProxy(taken[t]) : m = [taken EXCEPT ![t] = s])
                 /\ ns \in {[m EXCEPT ![n] = s] : s \in StartInflating(m[n])}
    BY <1>6 DEF Handled
  <2>2. PICK base : /\ Elsewhere(n, base, u) /\ base[n] = node[n]
                    /\ m = [base EXCEPT ![n] = x] /\ m[n] = x
    <3>1. CASE m = taken /\ IsEnd(n)
      BY <1>2, <1>10, <3>1
    <3>2. CASE ~IsEnd(n) /\ \E s \in SendMarkerAsProxy(taken[t]) : m = [taken EXCEPT ![t] = s]
      <4>1. PICK s \in SendMarkerAsProxy(node[t]) : m = [taken EXCEPT ![t] = s]
        BY <1>3, <3>2
      <4>2. Sender(node[t], s) /\ Forwarded(node[t], s, u)
        BY <1>3, <1>6, <3>2, ProxyMarkerSends
      <4> QED
        BY <1>4, <3>2, <4>1, <4>2
    <3> QED
      BY <2>1, <3>1, <3>2
  <2>3. PICK r \in StartInflating(x) : ns = [m EXCEPT ![n] = r]
    BY <2>1, <2>2
  <2>4. base \in [Node -> Tracker]
    BY <2>2 DEF Elsewhere, IInv, Typed
  <2>5. ns = [base EXCEPT ![n] = r] /\ ns[n] = r
    BY <1>5, <2>2, <2>3, <2>4
  <2>6. Given(n, x, r, u)
    BY <1>6, MarkerGiven
  <2> QED
    BY <2>2, <2>5, <2>6
<1>7. CASE u # Marker /\ IsEnd(n)
  <2> DEFINE r == [x EXCEPT !.got = Append(@, u)]
  <2>1. ns = [taken EXCEPT ![n].got = Append(@, u)]
    BY <1>7 DEF Handled
  <2>2. ns = [taken EXCEPT ![n] = r]
    BY <1>2, <2>1
  <2>3. Given(n, x, r, u)
    BY <1>7, EndGiven
  <2> HIDE DEF r
  <2>4. ns = [node EXCEPT ![n] = r] /\ ns[n] = r
    BY <1>1, <1>5, <2>2
  <2> QED
    BY <1>7, <1>10, <2>3, <2>4
<1>8. CASE u # Marker /\ ~IsEnd(n)
  <2>1. PICK s \in Send(node[t], <<u>>) : ns = [taken EXCEPT ![t] = s]
    BY <1>3, <1>8 DEF Handled
  <2>2. <<u>> \in Seq(Plain) /\ \A i \in 1 .. Len(<<u>>) : <<u>>[i] # Marker
    BY <1>8
  <2>3. Sender(node[t], s) /\ Forwarded(node[t], s, u)
    BY <1>3, <1>8, <2>2, SendSends, SendForwards
  <2>4. /\ Elsewhere(n, [node EXCEPT ![t] = s], u) /\ [node EXCEPT ![t] = s][n] = node[n]
        /\ ns = [[node EXCEPT ![t] = s] EXCEPT ![n] = x] /\ ns[n] = x
    BY <1>4, <1>8, <2>1, <2>3
  <2>5. Given(n, x, x, u)
    BY <1>8, SameGiven
  <2> QED
    BY <2>4, <2>5
<1> QED
  BY <1>6, <1>7, <1>8

\* What n has read when it is left with s: while it is sound and takes its
\* input for what it is, u, the first unit it had.
Took(n, r, s, u) ==
    /\ Out(s) = Out(r) /\ s.sent = r.sent
    /\ s.got = IF IsEnd(n) /\ u # Marker THEN Append(r.got, u) ELSE r.got
    /\ SoundOne(s) =>
          \A w \in Seq(Unit), c \in BOOLEAN :
              InFrame(r.input \o w, Reading(r), c) =>
                  r.batch \o r.input = <<u>> \o (s.batch \o s.input)

InputIs(r, i, x) ==
    /\ x \in Tracker /\ x.input = i /\ x.z = r.z /\ x.told = r.told /\ x.failed = r.failed
    /\ x.batch = r.batch /\ x.ended = r.ended /\ x.crashed = r.crashed /\ x.lost = r.lost
    /\ x.wire = r.wire /\ x.pending = r.pending /\ x.sent = r.sent /\ x.got = r.got

LEMMA InputSet ==
    ASSUME NEW r \in Tracker, NEW i \in Seq(Unit), NEW x, x = [r EXCEPT !.input = i]
    PROVE  InputIs(r, i, x)
BY DEF Tracker, InputIs

LoopIs(g, l, s) ==
    /\ s \in Tracker /\ s.loop = l /\ s.input = g.input /\ s.batch = g.batch /\ s.ended = g.ended
    /\ s.z = g.z /\ s.told = g.told /\ s.failed = g.failed /\ s.crashed = g.crashed
    /\ s.lost = g.lost /\ s.wire = g.wire /\ s.pending = g.pending
    /\ s.sent = g.sent /\ s.got = g.got

LEMMA LoopSet ==
    ASSUME NEW g \in Tracker, NEW l \in {"none", "process", "inflate"}, NEW s, s = [g EXCEPT !.loop = l]
    PROVE  LoopIs(g, l, s)
BY DEF Tracker, LoopIs

\* _process() reads a unit of plain input.
LEMMA ProcessMoves ==
    ASSUME NEW n, NEW r \in Tracker, Sane(r), r.loop = "process", NEW x,
           x = [r EXCEPT !.input = Tail(r.input)],
           NEW u, u = (IF Head(r.input).kind = "packed" THEN Garbage ELSE Head(r.input)),
           NEW g, Given(n, x, g, u), NEW s,
           s = [g EXCEPT !.loop =
                  IF x.input = <<>> THEN "none" ELSE IF g.z = "inflate" THEN "inflate" ELSE "process"]
    PROVE  s \in Tracker /\ Sane(s) /\ Moves(r, s) /\ Took(n, r, s, u)
<1> DEFINE h == Head(r.input)
           rest == Tail(r.input)
           l == IF x.input = <<>> THEN "none" ELSE IF g.z = "inflate" THEN "inflate" ELSE "process"
<1>1. r.input \in Seq(Unit) /\ r.input # <<>> /\ r.batch = <<>> /\ ~r.ended /\ r.z # "inflate"
  BY TrackerFacts DEF Sane
<1>2. h \in Unit /\ rest \in Seq(Unit)
  BY <1>1, HeadTailProperties
<1>3. /\ x \in Tracker /\ x.input = rest /\ x.z = r.z /\ x.told = r.told /\ x.failed = r.failed
      /\ x.batch = <<>> /\ ~x.ended /\ x.crashed = r.crashed /\ x.lost = r.lost
      /\ x.wire = r.wire /\ x.pending = r.pending /\ x.sent = r.sent /\ x.got = r.got
  <2> HIDE DEF rest
  <2>1. x = [r EXCEPT !.input = rest]
    BY DEF rest
  <2>2. rest \in Seq(Unit)
    BY <1>2
  <2>3. InputIs(r, rest, x)
    BY <2>1, <2>2, InputSet
  <2> QED
    BY <1>1, <2>3 DEF InputIs
<1>4. /\ g \in Tracker /\ g.wire = x.wire /\ g.pending = x.pending
      /\ g.input = x.input /\ g.batch = x.batch /\ g.ended = x.ended
      /\ g.crashed = x.crashed /\ g.lost = x.lost /\ g.sent = x.sent
      /\ g.got = IF IsEnd(n) /\ u # Marker THEN Append(x.got, u) ELSE x.got
      /\ \/ u = Marker /\ g.z = x.z /\ g.failed
         \/ u = Marker /\ x.z = "none" /\ g.z = "inflate" /\ g.told /\ g.failed = x.failed
         \/ u # Marker /\ g.z = x.z /\ g.told = x.told /\ g.failed = x.failed
  BY DEF Given
<1> HIDE DEF h, rest, l
<1>5. s = [g EXCEPT !.loop = l] /\ l \in {"none", "process", "inflate"}
  BY DEF l
<1>6. /\ s \in Tracker /\ s.loop = l /\ s.input = g.input /\ s.batch = g.batch /\ s.ended = g.ended
      /\ s.z = g.z /\ s.told = g.told /\ s.failed = g.failed /\ s.crashed = g.crashed
      /\ s.lost = g.lost /\ s.wire = g.wire /\ s.pending = g.pending
      /\ s.sent = g.sent /\ s.got = g.got
  <2>1. g \in Tracker
    BY <1>4
  <2>2. LoopIs(g, l, s)
    BY <1>5, <2>1, LoopSet
  <2> QED
    BY <2>2 DEF LoopIs
<1>7. /\ s.input = rest /\ s.batch = <<>> /\ ~s.ended /\ s.crashed = r.crashed /\ s.lost = r.lost
      /\ s.wire = r.wire /\ s.pending = r.pending /\ s.sent = r.sent
      /\ s.got = IF IsEnd(n) /\ u # Marker THEN Append(r.got, u) ELSE r.got
      /\ l = IF rest = <<>> THEN "none" ELSE IF s.z = "inflate" THEN "inflate" ELSE "process"
      /\ \/ u = Marker /\ s.z = r.z /\ s.failed
         \/ u = Marker /\ r.z = "none" /\ s.z = "inflate" /\ s.told /\ s.failed = r.failed
         \/ u # Marker /\ s.z = r.z /\ s.told = r.told /\ s.failed = r.failed
  <2>1. /\ s.input = rest /\ s.batch = <<>> /\ ~s.ended /\ s.crashed = r.crashed /\ s.lost = r.lost
        /\ s.wire = r.wire /\ s.pending = r.pending /\ s.sent = r.sent
    BY <1>3, <1>4, <1>6
  <2>2. s.got = IF IsEnd(n) /\ u # Marker THEN Append(r.got, u) ELSE r.got
    BY <1>3, <1>4, <1>6
  <2>3. l = IF rest = <<>> THEN "none" ELSE IF s.z = "inflate" THEN "inflate" ELSE "process"
    BY <1>3, <1>6 DEF l
  <2>4. \/ u = Marker /\ s.z = r.z /\ s.failed
        \/ u = Marker /\ r.z = "none" /\ s.z = "inflate" /\ s.told /\ s.failed = r.failed
        \/ u # Marker /\ s.z = r.z /\ s.told = r.told /\ s.failed = r.failed
    BY <1>3, <1>4, <1>6
  <2> QED
    BY <2>1, <2>2, <2>3, <2>4
<1>8. Sane(s)
  <2>1. (s.told <=> s.z # "none") \/ Down(s)
    BY <1>7 DEF Sane, Down
  <2>2. s.pending # <<>> => s.z = "deflate"
    BY <1>7 DEF Sane
  <2> QED
    BY <1>6, <1>7, <2>1, <2>2 DEF Sane
<1>9. Out(s) = Out(r) /\ (Writing(s) <=> Writing(r))
  BY <1>7 DEF Out, Writing
<1>10. ASSUME SoundOne(s)
       PROVE  SoundOne(r)
  BY <1>1, <1>7, <1>10 DEF SoundOne, Down
<1>11. ASSUME NEW w \in Seq(Unit), NEW c \in BOOLEAN, InFrame(r.input \o w, Reading(r), c)
       PROVE  /\ h \in Plain /\ u = h
              /\ InFrame(rest \o w, h = Marker, c)
  <2>1. Reading(r) = FALSE
    BY <1>1 DEF Reading
  <2>2. /\ h.kind = "packed" <=> FALSE
        /\ InFrame(rest \o w, IF h \in Switch THEN h = Marker ELSE FALSE, c)
    <3> DEFINE i == r.input
    <3>1. i \in Seq(Unit) /\ i # <<>> /\ InFrame(i \o w, FALSE, c)
      BY <1>1, <1>11, <2>1
    <3> HIDE DEF i
    <3>2. /\ Head(i).kind = "packed" <=> FALSE
          /\ InFrame(Tail(i) \o w, IF Head(i) \in Switch THEN Head(i) = Marker ELSE FALSE, c)
      BY <3>1, FrameHead
    <3> QED
      BY <3>2 DEF h, rest, i
  <2>3. h \in Plain /\ u = h
    BY <1>2, <2>2, UnitFacts DEF h
  <2>4. (IF h \in Switch THEN h = Marker ELSE FALSE) = (h = Marker)
    BY <2>3, PlainFacts
  <2> QED
    BY <2>2, <2>3, <2>4
<1>12. Moves(r, s)
  <2>1. ASSUME SoundOne(s), NEW w \in Seq(Unit), NEW c \in BOOLEAN,
               InFrame(r.input \o w, Reading(r), c)
        PROVE  InFrame(s.input \o w, Reading(s), c)
    <3>1. Reading(s) = (h = Marker)
      <4>1. ~s.failed
        BY <2>1 DEF SoundOne, Down
      <4>2. u = h
        BY <1>11, <2>1
      <4> QED
        BY <1>1, <1>7, <4>1, <4>2 DEF Reading
    <3> QED
      BY <1>7, <1>11, <2>1, <3>1
  <2> QED
    BY <1>9, <1>10, <2>1, MovesByReading
<1>13. Took(n, r, s, u)
  <2>1. r.batch \o r.input = <<h>> \o (s.batch \o s.input)
    <3>1. r.input = <<h>> \o rest
      BY <1>1, HeadThenTail DEF h, rest
    <3>2. <<>> \o r.input = r.input /\ <<>> \o rest = rest
      BY <1>1, <1>2, ConcatEmptySeq
    <3> QED
      BY <1>1, <1>7, <3>1, <3>2
  <2> QED
    BY <1>7, <1>9, <1>11, <2>1 DEF Took
<1> QED
  BY <1>6, <1>8, <1>12, <1>13

\* One step of _process(), of n: it reads u and is left with s.
Reads(n, u, base, s) ==
    /\ u \in Plain /\ Elsewhere(n, base, u) /\ base[n] = node[n] /\ node[n].loop # "none"
    /\ s \in Tracker /\ Sane(s) /\ Moves(node[n], s) /\ Took(n, node[n], s, u)
    /\ node' = [base EXCEPT ![n] = s]

LEMMA ReadsStep ==
    ASSUME NEW n \in Node, NEW u, NEW base, NEW s, Reads(n, u, base, s)
    PROVE  IInv(node')
<1>1. /\ IInv(base) /\ s \in Tracker /\ Sane(s) /\ base[n].loop # "none" /\ Moves(base[n], s)
      /\ node' = [base EXCEPT ![n] = s]
  BY DEF Reads, Elsewhere
<1> QED
  BY <1>1, OneMoves

LEMMA ProcessReads ==
    ASSUME IInv(node), NEW n \in Node, Process(n)
    PROVE  \E u, base, s : Reads(n, u, base, s)
<1> DEFINE r == node[n]
           x == [r EXCEPT !.input = Tail(r.input)]
           u == IF Head(r.input).kind = "packed" THEN Garbage ELSE Head(r.input)
           l(g) == IF x.input = <<>> THEN "none" ELSE IF g.z = "inflate" THEN "inflate" ELSE "process"
<1>1. r \in Tracker /\ Sane(r) /\ r.loop = "process" /\ node \in [Node -> Tracker]
  BY NodeFacts DEF Process
<1>2. r.input \in Seq(Unit) /\ r.input # <<>>
  BY <1>1, TrackerFacts DEF Sane
<1>3. Head(r.input) \in Unit /\ Tail(r.input) \in Seq(Unit)
  BY <1>2, HeadTailProperties
<1>4. u \in Plain
  BY <1>3, UnitFacts, PlainFacts
<1>5. x \in Tracker /\ x.input = Tail(r.input)
  <2> DEFINE y == Tail(r.input)
  <2> HIDE DEF y
  <2>1. [r EXCEPT !.input = y] \in Tracker /\ [r EXCEPT !.input = y].input = y
    BY <1>1, <1>3 DEF Tracker, y
  <2> QED
    BY <2>1 DEF y
<1>6. PICK ns \in Handled([node EXCEPT ![n] = x], n, u) :
         node' = [ns EXCEPT ![n].loop = l(ns[n])]
  <2>1. [node EXCEPT ![n].input = Tail(r.input)] = [node EXCEPT ![n] = x]
    BY <1>1
  <2>2. PICK ns \in Handled([node EXCEPT ![n].input = Tail(r.input)], n, u) :
           node' = [ns EXCEPT ![n].loop =
              IF Tail(r.input) = <<>> THEN "none"
              ELSE IF ns[n].z = "inflate" THEN "inflate" ELSE "process"]
    BY DEF Process
  <2> QED
    BY <1>5, <2>1, <2>2
<1> HIDE DEF x, u, r
<1>7. \E base : /\ Elsewhere(n, base, u) /\ base[n] = node[n]
                /\ ns = [base EXCEPT ![n] = ns[n]] /\ Given(n, x, ns[n], u)
  <2>1. node[n].loop # "none"
    BY <1>1 DEF r
  <2> QED
    BY <1>4, <1>5, <1>6, <2>1, HandledIs
<1>8. PICK base : /\ Elsewhere(n, base, u) /\ base[n] = node[n]
                  /\ ns = [base EXCEPT ![n] = ns[n]] /\ Given(n, x, ns[n], u)
  BY <1>7
<1> DEFINE g == ns[n]
           m == l(g)
           s == [g EXCEPT !.loop = m]
<1>9. s \in Tracker /\ Sane(s) /\ Moves(r, s) /\ Took(n, r, s, u)
  <2> DEFINE h == g
  <2>1. Given(n, x, h, u) /\ x = [r EXCEPT !.input = Tail(r.input)]
        /\ u = (IF Head(r.input).kind = "packed" THEN Garbage ELSE Head(r.input))
    BY <1>8 DEF x, u
  <2>2. s = [h EXCEPT !.loop =
               IF x.input = <<>> THEN "none" ELSE IF h.z = "inflate" THEN "inflate" ELSE "process"]
    OBVIOUS
  <2> HIDE DEF h, s
  <2> QED
    BY <1>1, <2>1, <2>2, ProcessMoves
<1>10. node' = [base EXCEPT ![n] = s]
  <2>1. base \in [Node -> Tracker]
    BY <1>8 DEF Elsewhere, IInv, Typed
  <2>2. node' = [ns EXCEPT ![n].loop = m]
    BY <1>6
  <2> HIDE DEF m
  <2>3. node' = [ns EXCEPT ![n] = s]
    BY <2>2
  <2> HIDE DEF s
  <2> QED
    BY <1>8, <2>1, <2>3
<1> HIDE DEF s
<1>11. Reads(n, u, base, s)
  <2>1. node[n].loop # "none" /\ r = node[n]
    BY <1>1 DEF r
  <2> QED
    BY <1>4, <1>8, <1>9, <1>10, <2>1 DEF Reads
<1> QED
  BY <1>11


\* What _environ_telnet() leaves of the loop: the chunk is gone.
LEMMA ReinflatedIs ==
    ASSUME NEW g \in Tracker, NEW s \in Reinflated(g)
    PROVE  /\ s \in Tracker /\ s.loop = g.loop /\ s.batch = <<>> /\ s.input = <<>>
           /\ s.ended = g.ended /\ s.crashed = g.crashed /\ s.wire = g.wire /\ s.pending = g.pending
           /\ s.sent = g.sent /\ s.got = g.got
           /\ g.lost \subseteq s.lost /\ (s.lost = {} => g.input = <<>> /\ g.batch = <<>>)
           /\ (g.failed => s.failed)
           /\ \/ s.z = g.z /\ s.told = g.told
              \/ s.z = "none" /\ s.told = FALSE /\ "environ" \in s.lost
<1> DEFINE left == g.input # <<>> /\ ~g.ended
           consumed == [g EXCEPT !.input = <<>>, !.batch = <<>>]
           missing == [consumed EXCEPT !.damaged = ~g.ended, !.lost = @ \cup {"environ"}]
           freed == [StopInflating(missing) EXCEPT !.failed = @ \/ ~g.ended]
           dropped == [consumed EXCEPT !.lost = @ \cup {"end"}]
<1>1. <<>> \in Seq(Unit) /\ <<>> \in Seq(Plain) /\ g.lost \subseteq {"environ", "end"}
  BY TrackerFacts
<1>2. /\ consumed \in Tracker /\ consumed.loop = g.loop /\ consumed.batch = <<>> /\ consumed.input = <<>>
      /\ consumed.ended = g.ended /\ consumed.crashed = g.crashed /\ consumed.wire = g.wire
      /\ consumed.sent = g.sent /\ consumed.got = g.got
      /\ consumed.pending = g.pending /\ consumed.lost = g.lost /\ consumed.failed = g.failed
      /\ consumed.z = g.z /\ consumed.told = g.told
  BY <1>1 DEF Tracker
<1> HIDE DEF consumed
<1>3. /\ missing \in Tracker /\ missing.loop = g.loop /\ missing.batch = <<>> /\ missing.input = <<>>
      /\ missing.ended = g.ended /\ missing.crashed = g.crashed /\ missing.wire = g.wire
      /\ missing.sent = g.sent /\ missing.got = g.got
      /\ missing.pending = g.pending /\ missing.lost = g.lost \cup {"environ"} /\ missing.failed = g.failed
      /\ missing.z = g.z /\ missing.told = g.told
  BY <1>1, <1>2 DEF Tracker
<1>4. /\ dropped \in Tracker /\ dropped.loop = g.loop /\ dropped.batch = <<>> /\ dropped.input = <<>>
      /\ dropped.ended = g.ended /\ dropped.crashed = g.crashed /\ dropped.wire = g.wire
      /\ dropped.sent = g.sent /\ dropped.got = g.got
      /\ dropped.pending = g.pending /\ dropped.lost = g.lost \cup {"end"} /\ dropped.failed = g.failed
      /\ dropped.z = g.z /\ dropped.told = g.told
  BY <1>1, <1>2 DEF Tracker
<1> HIDE DEF missing, dropped
<1>5. /\ freed \in Tracker /\ freed.loop = g.loop /\ freed.batch = <<>> /\ freed.input = <<>>
      /\ freed.ended = g.ended /\ freed.crashed = g.crashed /\ freed.wire = g.wire
      /\ freed.sent = g.sent /\ freed.got = g.got
      /\ freed.pending = g.pending /\ freed.lost = g.lost \cup {"environ"} /\ (g.failed => freed.failed)
      /\ freed.z = "none" /\ freed.told = FALSE
  BY <1>3 DEF Tracker, StopInflating
<1> HIDE DEF freed
<1>6. s = missing \/ s = freed \/ s = dropped \/ (s = consumed /\ g.input = <<>> /\ g.batch = <<>>)
  <2>1. Reinflated(g) =
           IF g.batch = <<>>
             THEN {IF left THEN missing ELSE IF g.input # <<>> THEN dropped ELSE consumed}
           ELSE IF g.ended THEN {freed}
           ELSE {freed, missing}
    BY DEF Reinflated, consumed, missing, freed, dropped
  <2>2. s \in IF g.batch = <<>>
               THEN {IF left THEN missing ELSE IF g.input # <<>> THEN dropped ELSE consumed}
             ELSE IF g.ended THEN {freed}
             ELSE {freed, missing}
    BY <2>1
  <2> HIDE DEF left
  <2> QED
    BY <2>2
<1>7. CASE s = missing
  BY <1>3, <1>7
<1>8. CASE s = freed
  BY <1>5, <1>8
<1>9. CASE s = dropped
  BY <1>4, <1>9
<1>10. CASE s = consumed /\ g.input = <<>> /\ g.batch = <<>>
  BY <1>2, <1>10
<1> QED
  BY <1>6, <1>7, <1>8, <1>9, <1>10

\* _process() reads a unit of inflate_buffer.
LEMMA InflatedMoves ==
    ASSUME NEW n, NEW r \in Tracker, Sane(r), r.batch # <<>>, NEW x,
           x = [r EXCEPT !.batch = Tail(r.batch)], NEW u, u = Head(r.batch),
           NEW g, Given(n, x, g, u), NEW s,
           IF u.kind = "environ" THEN s \in Reinflated(g) ELSE s = g
    PROVE  s \in Tracker /\ Sane(s) /\ Moves(r, s) /\ Took(n, r, s, u)
<1> DEFINE rest == Tail(r.batch)
<1>1. r.loop = "inflate" /\ r.z # "deflate" /\ r.pending = <<>> /\ (r.z = "none" => "environ" \in r.lost)
  BY TrackerFacts DEF Sane
<1>2. u \in Plain /\ rest \in Seq(Plain)
  BY TrackerFacts, HeadTailProperties
<1> HIDE DEF rest
<1>3. /\ x \in Tracker /\ x.loop = r.loop /\ x.input = r.input /\ x.z = r.z /\ x.told = r.told
      /\ x.failed = r.failed /\ x.ended = r.ended /\ x.crashed = r.crashed /\ x.lost = r.lost
      /\ x.wire = r.wire /\ x.pending = r.pending /\ x.sent = r.sent /\ x.got = r.got
      /\ x.batch = rest
  <2>1. x = [r EXCEPT !.batch = rest]
    BY DEF rest
  <2> QED
    BY <1>2, <2>1 DEF Tracker
<1>4. /\ g \in Tracker /\ g.loop = r.loop /\ g.input = r.input /\ g.ended = r.ended
      /\ g.crashed = r.crashed /\ g.lost = r.lost /\ g.wire = r.wire /\ g.pending = r.pending
      /\ g.batch = rest /\ g.sent = r.sent
      /\ g.got = IF IsEnd(n) /\ u # Marker THEN Append(r.got, u) ELSE r.got
      /\ \/ u = Marker /\ g.z = r.z /\ g.failed
         \/ u = Marker /\ r.z = "none" /\ g.z = "inflate" /\ g.told /\ g.failed = r.failed
         \/ g.z = r.z /\ g.told = r.told /\ g.failed = r.failed
  BY <1>3 DEF Given
<1>5. /\ g.z # "deflate" /\ (g.z = "none" => "environ" \in g.lost)
      /\ (g.told <=> g.z # "none") \/ Down(g)
      /\ SoundOne(g) => SoundOne(r) /\ (Reading(g) <=> Reading(r))
  BY <1>1, <1>4 DEF Sane, Down, SoundOne, Reading
<1>6. r.crashed => "environ" \in r.lost
  BY DEF Sane
\* What u is the first of.
<1>10. r.batch \o r.input = <<u>> \o (rest \o r.input)
  <2>1. r.batch = <<u>> \o rest
    <3>1. r.batch \in Seq(Plain)
      BY TrackerFacts
    <3> QED
      BY <3>1, HeadThenTail DEF rest
  <2>2. <<u>> \in Seq(Unit) /\ rest \in Seq(Unit) /\ r.input \in Seq(Unit)
    <3>1. u \in Unit
      BY <1>2, PlainFacts
    <3>2. rest \in Seq(Unit)
      BY <1>2, PlainFacts, SeqMonotonic
    <3> QED
      BY <3>1, <3>2, TrackerFacts
  <2>3. (<<u>> \o rest) \o r.input = <<u>> \o (rest \o r.input)
    <3> DEFINE one == <<u>>
    <3> HIDE DEF one
    <3>1. one \in Seq(Unit)
      BY <2>2 DEF one
    <3>2. Assoc(one, rest, r.input)
      BY <2>2, <3>1, Regroup
    <3> QED
      BY <3>2 DEF one, Assoc
  <2> QED
    BY <2>1, <2>3
<1>7. CASE u.kind # "environ"
  <2>1. s = g
    BY <1>7
  <2>2. Sane(s)
    BY <1>1, <1>4, <1>5, <1>6, <2>1 DEF Sane
  <2>3. Out(s) = Out(r) /\ (Writing(s) <=> Writing(r))
    BY <1>1, <1>4, <1>5, <2>1 DEF Out, Writing
  <2>4. SoundOne(s) => SoundOne(r) /\ s.input = r.input /\ (Reading(s) <=> Reading(r))
    BY <1>4, <1>5, <2>1
  <2>5. Moves(r, s)
    <3>1. SoundOne(s) => Reading(s) = Reading(r)
      BY <2>4 DEF Reading
    <3> QED
      BY <2>3, <2>4, <3>1, MovesByReading
  <2>6. Took(n, r, s, u)
    BY <1>4, <1>10, <2>1, <2>3 DEF Took
  <2> QED
    BY <1>4, <2>1, <2>2, <2>5, <2>6
<1>8. CASE u.kind = "environ"
  <2>1. u # Marker /\ g.z = r.z /\ g.told = r.told /\ g.failed = r.failed
    BY <1>4, <1>8 DEF Marker
  <2>2. /\ s \in Tracker /\ s.loop = g.loop /\ s.batch = <<>> /\ s.input = <<>>
        /\ s.ended = g.ended /\ s.crashed = g.crashed /\ s.wire = g.wire /\ s.pending = g.pending
        /\ s.sent = g.sent /\ s.got = g.got
        /\ g.lost \subseteq s.lost /\ (s.lost = {} => g.input = <<>> /\ g.batch = <<>>)
        /\ (g.failed => s.failed)
        /\ \/ s.z = g.z /\ s.told = g.told
           \/ s.z = "none" /\ s.told = FALSE /\ "environ" \in s.lost
    BY <1>4, <1>8, ReinflatedIs
  <2>3. Sane(s)
    <3>1. (s.told <=> s.z # "none") \/ Down(s)
      BY <1>5, <2>2 DEF Down
    <3>2. s.z # "deflate" /\ (s.z = "none" => "environ" \in s.lost) /\ (s.crashed => "environ" \in s.lost)
      BY <1>4, <1>5, <1>6, <2>2
    <3> QED
      BY <1>1, <1>4, <2>2, <3>1, <3>2 DEF Sane
  <2>4. Out(s) = Out(r) /\ (Writing(s) <=> Writing(r))
    BY <1>1, <1>4, <1>5, <2>2 DEF Out, Writing
  <2>5. SoundOne(s) => SoundOne(r) /\ s.input = r.input /\ (Reading(s) <=> Reading(r))
    BY <1>4, <2>1, <2>2 DEF SoundOne, Down, Reading
  <2>6. Moves(r, s)
    <3>1. SoundOne(s) => Reading(s) = Reading(r)
      BY <2>5 DEF Reading
    <3> QED
      BY <2>4, <2>5, <3>1, MovesByReading
  <2>7. Took(n, r, s, u)
    <3>1. SoundOne(s) => s.batch = rest /\ s.input = r.input
      BY <1>4, <2>2 DEF SoundOne
    <3> QED
      BY <1>4, <1>10, <2>2, <2>4, <3>1 DEF Took
  <2> QED
    BY <2>2, <2>3, <2>6, <2>7
<1> QED
  BY <1>7, <1>8

LEMMA ProcessInflatedReads ==
    ASSUME IInv(node), NEW n \in Node, ProcessInflated(n)
    PROVE  \E u, base, s : Reads(n, u, base, s)
<1> DEFINE r == node[n]
           x == [r EXCEPT !.batch = Tail(r.batch)]
           u == Head(r.batch)
<1>1. r \in Tracker /\ Sane(r) /\ r.batch # <<>> /\ node \in [Node -> Tracker]
  BY NodeFacts DEF ProcessInflated
<1>2. r.loop # "none" /\ r.batch \in Seq(Plain)
  BY <1>1, TrackerFacts DEF Sane
<1>3. u \in Plain /\ Tail(r.batch) \in Seq(Plain)
  BY <1>1, <1>2, HeadTailProperties
<1>4. x \in Tracker
  <2> DEFINE y == Tail(r.batch)
  <2> HIDE DEF y
  <2>1. [r EXCEPT !.batch = y] \in Tracker
    BY <1>1, <1>3 DEF Tracker, y
  <2> QED
    BY <2>1 DEF y
<1>5. PICK ns \in Handled([node EXCEPT ![n] = x], n, u) :
         IF u.kind = "environ" THEN \E s \in Reinflated(ns[n]) : node' = [ns EXCEPT ![n] = s]
         ELSE node' = ns
  <2>1. [node EXCEPT ![n].batch = Tail(@)] = [node EXCEPT ![n] = x]
    BY <1>1
  <2>2. \E ns \in Handled([node EXCEPT ![n].batch = Tail(@)], n, u) :
           IF u.kind = "environ" THEN \E s \in Reinflated(ns[n]) : node' = [ns EXCEPT ![n] = s]
           ELSE node' = ns
    BY DEF ProcessInflated
  <2> QED
    BY <2>1, <2>2
<1> HIDE DEF x, u, r
<1>6. \E base : /\ Elsewhere(n, base, u) /\ base[n] = node[n]
                /\ ns = [base EXCEPT ![n] = ns[n]] /\ Given(n, x, ns[n], u)
  <2>1. node[n].loop # "none"
    BY <1>2 DEF r
  <2> QED
    BY <1>3, <1>4, <1>5, <2>1, HandledIs
<1>7. PICK base : /\ Elsewhere(n, base, u) /\ base[n] = node[n]
                  /\ ns = [base EXCEPT ![n] = ns[n]] /\ Given(n, x, ns[n], u)
  BY <1>6
<1>8. PICK s : /\ IF u.kind = "environ" THEN s \in Reinflated(ns[n]) ELSE s = ns[n]
               /\ node' = [base EXCEPT ![n] = s]
  <2>1. base \in [Node -> Tracker]
    BY <1>7 DEF Elsewhere, IInv, Typed
  <2>2. CASE u.kind = "environ"
    <3>1. PICK s \in Reinflated(ns[n]) : node' = [ns EXCEPT ![n] = s]
      BY <1>5, <2>2
    <3>2. [ns EXCEPT ![n] = s] = [base EXCEPT ![n] = s]
      BY <1>7, <2>1
    <3> QED
      BY <2>2, <3>1, <3>2
  <2>3. CASE u.kind # "environ"
    BY <1>5, <1>7, <2>3
  <2> QED
    BY <2>2, <2>3
<1>9. s \in Tracker /\ Sane(s) /\ Moves(r, s) /\ Took(n, r, s, u)
  <2> DEFINE g == ns[n]
  <2>1. /\ Given(n, x, g, u) /\ x = [r EXCEPT !.batch = Tail(r.batch)] /\ u = Head(r.batch)
        /\ IF u.kind = "environ" THEN s \in Reinflated(g) ELSE s = g
    BY <1>7, <1>8 DEF x, u
  <2> HIDE DEF g
  <2> QED
    BY <1>1, <2>1, InflatedMoves
<1>10. Reads(n, u, base, s)
  <2>1. node[n].loop # "none" /\ r = node[n]
    BY <1>2 DEF r
  <2> QED
    BY <1>3, <1>7, <1>8, <1>9, <2>1 DEF Reads
<1> QED
  BY <1>10

\* inflate() gets somewhere, and not past the end or a byte it cannot take.
LEMMA InflatesIs ==
    ASSUME NEW r \in Tracker, r.input # <<>>
    PROVE  /\ Inflates(r) \in 1 .. Len(r.input)
           /\ \A i \in 1 .. Inflates(r) - 1 : r.input[i].kind = "packed" /\ r.input[i].unit # End
<1> DEFINE l == Len(r.input)
           room == Min({InMax, l})
           stops == {i \in 1 .. room : r.input[i].kind # "packed" \/ r.input[i].unit = End}
<1>1. l \in Nat /\ l > 0 /\ InMax \in Nat /\ InMax > 0
  <2>1. r.input \in Seq(Unit)
    BY TrackerFacts
  <2> QED
    BY <2>1, LenProperties, EmptySeq, Mccp2Assumption
<1>2. Inflates(r) = IF stops = {} THEN room ELSE Min(stops)
  BY DEF Inflates
<1> HIDE DEF l
<1>3. room \in 1 .. l
  BY <1>1, MinOfTwo
<1> HIDE DEF room
<1>4. stops \in SUBSET Nat
  BY <1>1, <1>3
<1>5. CASE stops = {}
  <2>1. \A i \in 1 .. room : r.input[i].kind = "packed" /\ r.input[i].unit # End
    BY <1>5
  <2>2. \A i \in 1 .. room - 1 : i \in 1 .. room
    BY <1>1, <1>3
  <2> QED
    BY <1>2, <1>3, <1>5, <2>1, <2>2 DEF l
<1>6. CASE stops # {}
  <2> DEFINE k == Min(stops)
  <2>1. k \in stops /\ \A i \in stops : k <= i
    BY <1>4, <1>6, MinMember
  <2>2. k \in 1 .. room /\ \A i \in 1 .. room : i \notin stops => r.input[i].kind = "packed" /\ r.input[i].unit # End
    BY <2>1
  <2> HIDE DEF k
  <2>3. ASSUME NEW i \in 1 .. k - 1
        PROVE  r.input[i].kind = "packed" /\ r.input[i].unit # End
    <3> HIDE DEF stops
    <3>1. i \in 1 .. room /\ ~(k <= i)
      BY <1>1, <1>3, <2>2
    <3> QED
      BY <2>1, <2>2, <3>1
  <2>4. k \in 1 .. l
    BY <1>1, <1>3, <2>2
  <2>5. Inflates(r) = k
    BY <1>2, <1>6 DEF k
  <2> QED
    BY <2>3, <2>4, <2>5 DEF l
<1> QED
  BY <1>5, <1>6

LEMMA StoppedIs ==
    ASSUME NEW r \in Tracker, Sane(r), r.z = "inflate"
    PROVE  LET s == [Leave(StopInflating(r)) EXCEPT !.failed = TRUE]
           IN  s \in Tracker /\ Sane(s) /\ s.failed
<1>1. <<>> \in Seq(Unit) /\ <<>> \in Seq(Plain)
  OBVIOUS
<1>2. r.pending = <<>> /\ (r.crashed => "environ" \in r.lost)
  BY DEF Sane
<1> DEFINE s == [Leave(StopInflating(r)) EXCEPT !.failed = TRUE]
<1>3. /\ s \in Tracker /\ s.failed /\ s.pending = r.pending /\ s.loop = "none" /\ s.batch = <<>>
      /\ s.input = <<>> /\ s.ended = FALSE /\ s.crashed = r.crashed /\ s.lost = r.lost
  BY <1>1 DEF Tracker, Leave, StopInflating
<1> HIDE DEF s
<1>4. Sane(s)
  BY <1>2, <1>3 DEF Sane, Down
<1> QED
  BY <1>3, <1>4 DEF s

\* Whether unit k is the end of the stream.
AtEnd(r, k, e) == e <=> r.input[k].unit = End

\* What is left then: k units, but not the end, are in inflate_buffer.
Inflated(r, k, e) ==
    [r EXCEPT !.input = SubSeq(r.input, k + 1, Len(r.input)),
              !.batch = [i \in 1 .. (IF e THEN k - 1 ELSE k) |-> r.input[i].unit],
              !.ended = e]

Filled(r, rest, units, e) == [r EXCEPT !.input = rest, !.batch = units, !.ended = e]

LEMMA FilledIs ==
    ASSUME NEW r \in Tracker, NEW rest \in Seq(Unit), NEW units \in Seq(Plain), NEW e \in BOOLEAN
    PROVE  LET s == Filled(r, rest, units, e)
           IN  /\ s \in Tracker /\ s.input = rest /\ s.ended = e /\ s.z = r.z /\ s.told = r.told
               /\ s.batch = units /\ s.sent = r.sent /\ s.got = r.got
               /\ s.loop = r.loop /\ s.failed = r.failed /\ s.crashed = r.crashed /\ s.lost = r.lost
               /\ s.wire = r.wire /\ s.pending = r.pending
BY DEF Tracker, Filled

\* The first k compressed units of the input go into inflate_buffer.
LEMMA InflatedIs ==
    ASSUME NEW n, NEW r \in Tracker, Sane(r), r.loop = "inflate", r.z = "inflate", ~r.ended,
           r.batch = <<>>, NEW k \in 1 .. Len(r.input),
           \A i \in 1 .. k - 1 : r.input[i].kind = "packed" /\ r.input[i].unit # End,
           r.input[k].kind = "packed",
           NEW e \in BOOLEAN, AtEnd(r, k, e)
    PROVE  /\ Inflated(r, k, e) \in Tracker /\ Sane(Inflated(r, k, e))
           /\ Moves(r, Inflated(r, k, e)) /\ Carries(n, r, Inflated(r, k, e), <<>>, <<>>)
<1> DEFINE s == Inflated(r, k, e)
           v == r.input
           rest == SubSeq(v, k + 1, Len(v))
           m == IF e THEN k - 1 ELSE k
           units == [i \in 1 .. m |-> v[i].unit]
<1>1. v \in Seq(Unit) /\ Len(v) \in Nat /\ \A i \in 1 .. Len(v) : v[i] \in Unit
  BY TrackerFacts, LenProperties, ElementOfSeq
<1>2. k \in 0 .. Len(v) /\ m \in Nat /\ \A i \in 1 .. m : i \in 1 .. Len(v) /\ (i \in 1 .. k - 1 \/ (i = k /\ ~e))
  <2> HIDE DEF v
  <2>1. k \in Nat /\ k > 0 /\ k <= Len(v)
    BY <1>1 DEF v
  <2>2. CASE e
    BY <1>1, <2>1, <2>2
  <2>3. CASE ~e
    BY <1>1, <2>1, <2>3
  <2> QED
    BY <2>2, <2>3
<1>3. e <=> v[k].unit = End
  BY DEF AtEnd
<1>4. rest \in Seq(Unit)
  BY <1>1, <1>2, Cut
<1>5. units \in Seq(Plain) /\ Content(units \o rest) = Content(v)
  <2>1. /\ \A i \in 1 .. k - 1 : v[i].kind = "packed" /\ v[i].unit # End
        /\ v[k].kind = "packed" /\ k \in 1 .. Len(v)
    OBVIOUS
  <2> HIDE DEF v
  <2> QED
    BY <1>1, <1>3, <2>1, Unpacked
<1>6. s = Filled(r, rest, units, e)
  BY DEF Inflated, Filled
<1> HIDE DEF rest, units, s
<1>7. /\ s \in Tracker /\ s.input = rest /\ s.ended = e /\ s.z = r.z /\ s.told = r.told /\ s.loop = r.loop
      /\ s.failed = r.failed /\ s.crashed = r.crashed /\ s.lost = r.lost /\ s.wire = r.wire
      /\ s.pending = r.pending /\ s.batch = units /\ s.sent = r.sent /\ s.got = r.got
  BY <1>4, <1>5, <1>6, FilledIs
<1>8. Sane(s)
  BY <1>7 DEF Sane, Down
<1>9. After(v, TRUE, k, ~e)
  <2>1. ASSUME NEW i \in 1 .. k - 1
        PROVE  v[i] \notin Switch
    <3>1. i \in 1 .. Len(v)
      BY <1>1
    <3> QED
      BY <1>1, <3>1, UnitFacts
  <2>2. v[k] \in Unit /\ v[k] # Marker /\ (v[k] \in Switch <=> e)
    <3>1. v[k] \in Unit
      BY <1>1
    <3> QED
      BY <1>3, <3>1, UnitFacts
  <2>3. k \in 1 .. k /\ \A i \in 1 .. k : i \in 1 .. k - 1 \/ i = k
    BY <1>1
  <2>4. \A i : i \notin k + 1 .. k
    BY <1>1
  <2>5. CASE e
    BY <2>2, <2>3, <2>4, <2>5 DEF After
  <2>6. CASE ~e
    BY <2>1, <2>2, <2>3, <2>6 DEF After
  <2> QED
    BY <2>5, <2>6
<1>10. Moves(r, s)
  <2>1. Reading(r) = TRUE /\ Reading(s) = ~e
    BY <1>7 DEF Reading
  <2>2. ASSUME NEW w \in Seq(Unit), NEW c \in BOOLEAN, InFrame(v \o w, TRUE, c)
        PROVE  InFrame(rest \o w, ~e, c)
    <3> DEFINE b == ~e
    <3>1. b \in BOOLEAN /\ After(v, TRUE, k, b)
      BY <1>9
    <3> HIDE DEF b, v
    <3>2. InFrame(SubSeq(v, k + 1, Len(v)) \o w, b, c)
      BY <1>1, <1>2, <2>2, <3>1, FrameRest
    <3> QED
      BY <3>2 DEF b, rest
  <2>3. SoundOne(s) => SoundOne(r)
    BY <1>7 DEF SoundOne, Down
  <2>4. Out(s) = Out(r) /\ (Writing(s) <=> Writing(r))
    BY <1>7 DEF Out, Writing
  <2>5. \A w \in Seq(Unit), c \in BOOLEAN :
           InFrame(r.input \o w, Reading(r), c) => InFrame(s.input \o w, Reading(s), c)
    BY <1>7, <2>1, <2>2
  <2> QED
    BY <2>3, <2>4, <2>5, MovesByReading
<1>11. Carries(n, r, s, <<>>, <<>>)
  <2>1. Held(s) = Held(r)
    <3>1. <<>> \o v = v
      BY <1>1, ConcatEmptySeq
    <3> QED
      BY <1>5, <1>7, <3>1 DEF Held
  <2>2. Out(s) = Out(r)
    BY <1>7 DEF Out
  <2> QED
    BY <1>7, <2>1, <2>2, TrackerContent DEF Carries
<1> QED
  BY <1>7, <1>8, <1>10, <1>11 DEF s

LEMMA InflateCallAlone ==
    ASSUME IInv(node), NEW n \in Node, InflateCall(n)
    PROVE  \E s : Alone(n, s, <<>>)
<1> DEFINE r == node[n]
           k == Inflates(r)
           bad == r.damaged \/ r.input[k].kind # "packed"
           ended == ~bad /\ r.input[k].unit = End
           stopped == [Leave(StopInflating(r)) EXCEPT !.failed = TRUE]
           e == (r.input[k].unit = End)
           inflated == Inflated(r, k, e)
<1>1. /\ r \in Tracker /\ Sane(r) /\ r.loop = "inflate" /\ r.z = "inflate" /\ ~r.ended
      /\ r.input # <<>> /\ r.batch = <<>>
  BY NodeFacts DEF InflateCall
<1>2. /\ k \in 1 .. Len(r.input)
      /\ \A i \in 1 .. k - 1 : r.input[i].kind = "packed" /\ r.input[i].unit # End
  BY <1>1, InflatesIs
<1>3. CASE bad
  <2>1. node' = [node EXCEPT ![n] = stopped]
    BY <1>3 DEF InflateCall
  <2>2. stopped \in Tracker /\ Sane(stopped) /\ stopped.failed
    BY <1>1, StoppedIs
  <2> HIDE DEF stopped
  <2>3. Moves(r, stopped) /\ Carries(n, r, stopped, <<>>, <<>>)
    BY <2>2, FailedMoves DEF Carries, SoundOne, Down
  <2>4. <<>> \in Seq(Plain)
    OBVIOUS
  <2> QED
    BY <1>1, <2>1, <2>2, <2>3, <2>4 DEF Alone
<1>4. CASE ~bad
  <2>1. node' = [node EXCEPT ![n] =
           [r EXCEPT !.input = SubSeq(@, k + 1, Len(@)),
                     !.batch = [i \in 1 .. (IF ended THEN k - 1 ELSE k) |-> r.input[i].unit],
                     !.ended = ended]]
    BY <1>4 DEF InflateCall
  <2>2. ended <=> e
    BY <1>4
  <2>3. node' = [node EXCEPT ![n] = inflated]
    <3> DEFINE d == ended
    <3>1. d = e
      BY <2>2
    <3>2. node' = [node EXCEPT ![n] =
             [r EXCEPT !.input = SubSeq(r.input, k + 1, Len(r.input)),
                       !.batch = [i \in 1 .. (IF d THEN k - 1 ELSE k) |-> r.input[i].unit],
                       !.ended = d]]
      BY <2>1
    <3> HIDE DEF d, e, k, r
    <3> QED
      BY <3>1, <3>2 DEF Inflated
  <2>4. /\ inflated \in Tracker /\ Sane(inflated) /\ Moves(r, inflated)
        /\ Carries(n, r, inflated, <<>>, <<>>)
    <3>1. r.input[k].kind = "packed"
      BY <1>4
    <3>2. e \in BOOLEAN /\ AtEnd(r, k, e)
      BY DEF AtEnd
    <3> HIDE DEF e, k, r
    <3> QED
      BY <1>1, <1>2, <3>1, <3>2, InflatedIs
  <2> HIDE DEF inflated
  <2>5. <<>> \in Seq(Plain)
    OBVIOUS
  <2> QED
    BY <1>1, <2>3, <2>4, <2>5 DEF Alone
<1> QED
  BY <1>3, <1>4

LostIs(d, lost, s) ==
    /\ s \in Tracker /\ s.loop = d.loop /\ s.input = d.input /\ s.batch = d.batch
    /\ s.ended = d.ended /\ s.z = d.z /\ s.told = d.told /\ s.failed = d.failed
    /\ s.crashed = d.crashed /\ s.lost = lost /\ s.wire = d.wire
    /\ s.pending = d.pending /\ s.sent = d.sent /\ s.got = d.got

LEMMA LostSet ==
    ASSUME NEW d \in Tracker, NEW lost \in SUBSET {"environ", "end"}, NEW s, s = [d EXCEPT !.lost = lost]
    PROVE  LostIs(d, lost, s)
BY DEF Tracker, LostIs

\* telnet_recv() leaves the inflate() loop.
LEMMA InflateEndsMoves ==
    ASSUME NEW n, NEW r \in Tracker, Sane(r), r.loop = "inflate", r.batch = <<>>,
           r.z = "none" \/ r.ended \/ r.input = <<>>, NEW s,
           s = (LET v == Leave(r)
                IN  IF v.z = "none" THEN [v EXCEPT !.crashed = TRUE]
                    ELSE IF ~r.ended THEN v
                    ELSE [StopInflating(v) EXCEPT !.lost = IF r.input # <<>> THEN @ \cup {"end"} ELSE @])
    PROVE  /\ s \in Tracker /\ Sane(s) /\ s.loop = "none" /\ Moves(r, s)
           /\ Carries(n, r, s, <<>>, <<>>)
<1> DEFINE v == Leave(r)
<1>1. <<>> \in Seq(Unit) /\ <<>> \in Seq(Plain)
  OBVIOUS
<1>2. /\ r.z # "deflate" /\ r.pending = <<>> /\ (r.z = "none" => "environ" \in r.lost)
      /\ (r.crashed => "environ" \in r.lost) /\ ((r.told <=> r.z # "none") \/ Down(r))
  BY TrackerFacts DEF Sane
<1>3. /\ v \in Tracker /\ v.loop = "none" /\ v.input = <<>> /\ v.batch = <<>> /\ v.ended = FALSE
      /\ v.z = r.z /\ v.told = r.told /\ v.failed = r.failed /\ v.crashed = r.crashed
      /\ v.lost = r.lost /\ v.wire = r.wire /\ v.pending = r.pending
      /\ v.sent = r.sent /\ v.got = r.got
  BY <1>1 DEF Tracker, Leave
<1> HIDE DEF v
<1>4. CASE r.z = "none"
  <2>1. s = [v EXCEPT !.crashed = TRUE]
    BY <1>3, <1>4 DEF v
  <2>2. /\ s \in Tracker /\ s.loop = "none" /\ s.input = <<>> /\ s.batch = <<>> /\ s.ended = FALSE
        /\ s.crashed /\ s.lost = r.lost /\ s.pending = r.pending
    BY <1>3, <2>1 DEF Tracker
  <2>3. Sane(s)
    BY <1>2, <1>4, <2>2 DEF Sane, Down
  <2>4. Moves(r, s)
    BY <2>2 DEF Moves, SoundOne, Down
  <2>5. Carries(n, r, s, <<>>, <<>>)
    BY <2>2 DEF Carries, SoundOne, Down
  <2> QED
    BY <2>2, <2>3, <2>4, <2>5
<1>5. CASE r.z # "none" /\ ~r.ended
  <2>1. s = v /\ r.input = <<>>
    BY <1>3, <1>5 DEF v
  <2>2. Sane(s)
    BY <1>2, <1>3, <2>1 DEF Sane, Down
  <2>3. /\ Out(s) = Out(r) /\ (Writing(s) <=> Writing(r)) /\ s.input = r.input
        /\ (Reading(s) <=> Reading(r)) /\ (SoundOne(s) => SoundOne(r))
    BY <1>3, <1>5, <2>1 DEF Out, Writing, Reading, SoundOne, Down
  <2>4. Moves(r, s)
    BY <2>3, MovesStill
  <2>5. Carries(n, r, s, <<>>, <<>>)
    BY <1>3, <2>1, <2>3, CarriesNothing
  <2> QED
    BY <1>3, <2>1, <2>2, <2>4, <2>5
<1>6. CASE r.z # "none" /\ r.ended
  <2> DEFINE d == StopInflating(v)
             lost == IF r.input # <<>> THEN r.lost \cup {"end"} ELSE r.lost
  <2>1. lost \subseteq {"environ", "end"} /\ r.lost \subseteq lost /\ (lost = {} => r.input = <<>> /\ r.lost = {})
    BY TrackerFacts
  <2>2. /\ d \in Tracker /\ d.loop = "none" /\ d.input = <<>> /\ d.batch = <<>> /\ d.ended = FALSE
        /\ d.z = "none" /\ d.told = FALSE /\ d.failed = r.failed /\ d.crashed = r.crashed
        /\ d.lost = r.lost /\ d.wire = r.wire /\ d.pending = r.pending
        /\ d.sent = r.sent /\ d.got = r.got
    BY <1>3 DEF Tracker, StopInflating
  <2>3. s = [d EXCEPT !.lost = IF r.input # <<>> THEN @ \cup {"end"} ELSE @]
    BY <1>3, <1>6 DEF v
  <2> HIDE DEF d, lost
  <2>4. s = [d EXCEPT !.lost = lost]
    BY <2>2, <2>3 DEF lost
  <2>5. /\ s \in Tracker /\ s.loop = "none" /\ s.input = <<>> /\ s.batch = <<>> /\ s.ended = FALSE
        /\ s.z = "none" /\ s.told = FALSE /\ s.failed = r.failed /\ s.crashed = r.crashed
        /\ s.lost = lost /\ s.wire = r.wire /\ s.pending = r.pending
        /\ s.sent = r.sent /\ s.got = r.got
    <3>1. d \in Tracker /\ lost \in SUBSET {"environ", "end"}
      BY <2>1, <2>2
    <3>2. LostIs(d, lost, s)
      BY <2>4, <3>1, LostSet
    <3> QED
      BY <2>2, <3>2 DEF LostIs
  <2>6. Sane(s)
    BY <1>2, <2>1, <2>5 DEF Sane
  <2>7. Out(s) = Out(r) /\ (Writing(s) <=> Writing(r))
    BY <1>2, <2>5 DEF Out, Writing
  <2>8. SoundOne(s) => SoundOne(r) /\ s.input = r.input /\ Reading(s) = FALSE /\ Reading(r) = FALSE
    BY <1>6, <2>1, <2>5 DEF SoundOne, Down, Reading
  <2>9. Moves(r, s)
    BY <2>7, <2>8, MovesByReading
  <2>10. Carries(n, r, s, <<>>, <<>>)
    <3>1. SoundOne(s) => Held(s) = Held(r)
      BY <2>5, <2>8 DEF Held
    <3> QED
      BY <2>5, <2>7, <3>1, TrackerContent DEF Carries
  <2> QED
    BY <2>5, <2>6, <2>9, <2>10
<1> QED
  BY <1>4, <1>5, <1>6

LEMMA InflateEndsAlone ==
    ASSUME IInv(node), NEW n \in Node, InflateEnds(n)
    PROVE  \E s : Alone(n, s, <<>>)
<1> DEFINE r == node[n]
           s == LET v == Leave(r)
                IN  IF v.z = "none" THEN [v EXCEPT !.crashed = TRUE]
                    ELSE IF ~r.ended THEN v
                    ELSE [StopInflating(v) EXCEPT !.lost = IF r.input # <<>> THEN @ \cup {"end"} ELSE @]
<1>1. /\ r \in Tracker /\ Sane(r) /\ r.loop = "inflate" /\ r.batch = <<>>
      /\ r.z = "none" \/ r.ended \/ r.input = <<>>
  BY NodeFacts DEF InflateEnds
<1>2. node' = [node EXCEPT ![n] = s]
  BY DEF InflateEnds
<1>3. s = (LET v == Leave(r)
           IN  IF v.z = "none" THEN [v EXCEPT !.crashed = TRUE]
               ELSE IF ~r.ended THEN v
               ELSE [StopInflating(v) EXCEPT !.lost = IF r.input # <<>> THEN @ \cup {"end"} ELSE @])
  OBVIOUS
<1> HIDE DEF s
<1>4. /\ s \in Tracker /\ Sane(s) /\ s.loop = "none" /\ Moves(r, s)
      /\ Carries(n, r, s, <<>>, <<>>)
  <2> HIDE DEF r
  <2> QED
    BY <1>1, <1>3, InflateEndsMoves
<1>5. <<>> \in Seq(Plain)
  OBVIOUS
<1> QED
  BY <1>2, <1>4, <1>5 DEF Alone

\* telnet_recv() is called: a chunk goes from the wire to its input.
Aside(r, s) ==
    /\ s.z = r.z /\ s.told = r.told /\ s.batch = r.batch /\ s.ended = r.ended
    /\ s.failed = r.failed /\ s.crashed = r.crashed /\ s.lost = r.lost
    /\ s.pending = r.pending /\ s.sent = r.sent /\ s.got = r.got

Received(n, chunk, rest) ==
    LET p == Peer[n]
    IN  /\ chunk \in Seq(Unit) /\ rest \in Seq(Unit) /\ chunk # <<>>
        /\ chunk \o rest = node[p].wire
        /\ node' \in [Node -> Tracker] /\ Aside(node[n], node'[n]) /\ Aside(node[p], node'[p])
        /\ node'[n].input = chunk /\ node'[n].wire = node[n].wire
        /\ node'[n].loop = IF node[n].z = "inflate" THEN "inflate" ELSE "process"
        /\ node'[p].input = node[p].input /\ node'[p].wire = rest /\ node'[p].loop = "none"
        /\ \A m \in Node : m # n /\ m # p => node'[m] = node[m]

LEMMA RecvIs ==
    ASSUME IInv(node), Idle, NEW n \in Node, Recv(n)
    PROVE  \E chunk, rest : Received(n, chunk, rest)
<1> DEFINE p == Peer[n]
           r == node[n]
           w == node[p].wire
           l == IF r.z = "inflate" THEN "inflate" ELSE "process"
<1>1. /\ p \in Node /\ p # n /\ Peer[p] = n
      /\ \A m \in Node : Peer[m] \in Node /\ (m # n => Peer[m] # p) /\ (m # p => Peer[m] # n)
  BY Mccp2Assumption
<1>2. /\ node \in [Node -> Tracker] /\ r \in Tracker /\ node[p] \in Tracker
      /\ Sane(r) /\ Sane(node[p]) /\ \A m \in Node : node[m].loop = "none"
  BY <1>1, NodeFacts DEF Idle
<1>3. PICK k \in 1 .. Min({ChunkMax, Len(w)}) :
         node' = [node EXCEPT ![n].loop = l, ![n].input = SubSeq(w, 1, k),
                              ![p].wire = SubSeq(@, k + 1, Len(@))]
  BY DEF Recv
<1>4. w \in Seq(Unit) /\ Len(w) \in Nat
  BY <1>2, TrackerFacts, LenProperties
<1> DEFINE chunk == SubSeq(w, 1, k)
           rest == SubSeq(w, k + 1, Len(w))
           a == [r EXCEPT !.loop = l, !.input = chunk]
           b == [node[p] EXCEPT !.wire = rest]
<1>5. /\ chunk \in Seq(Unit) /\ rest \in Seq(Unit) /\ chunk \o rest = w /\ chunk # <<>>
  <2>1. k \in 0 .. Len(w) /\ k > 0
    <3> DEFINE d == Len(w)
    <3>1. d \in Nat /\ ChunkMax \in Nat
      BY <1>4, Mccp2Assumption
    <3> HIDE DEF d
    <3>2. Min({ChunkMax, d}) \in Nat /\ Min({ChunkMax, d}) <= d
      BY <3>1, MinOfTwo
    <3>3. k \in 1 .. Min({ChunkMax, d})
      BY DEF d
    <3> QED
      BY <3>1, <3>2, <3>3 DEF d
  <2> QED
    BY <1>4, <2>1, Cut
<1>6. node' = [node EXCEPT ![n] = a, ![p] = b]
  <2> HIDE DEF l, chunk
  <2>1. node' = [node EXCEPT ![n].loop = l, ![n].input = chunk, ![p].wire = SubSeq(@, k + 1, Len(@))]
    BY <1>3 DEF chunk
  <2>2. node' = [[[node EXCEPT ![n].loop = l] EXCEPT ![n].input = chunk]
                   EXCEPT ![p].wire = SubSeq(@, k + 1, Len(@))]
    BY <2>1
  <2> DEFINE c == [[node EXCEPT ![n].loop = l] EXCEPT ![n].input = chunk]
  <2>3. c = [node EXCEPT ![n] = a]
    BY <1>2
  <2> HIDE DEF a, p, c
  <2>4. c \in [Node -> Tracker \cup {a}] /\ c[p] = node[p]
    BY <1>1, <1>2, <2>3
  <2>5. node' = [c EXCEPT ![p] = b]
    BY <1>1, <2>2, <2>4 DEF c
  <2> HIDE DEF b
  <2> QED
    BY <2>3, <2>5
<1> HIDE DEF chunk, rest, p
<1>7. l \in {"process", "inflate"} /\ (l = "inflate" <=> r.z = "inflate")
  OBVIOUS
<1> HIDE DEF l
<1>8. /\ a \in Tracker /\ a.loop = l /\ a.input = chunk /\ a.batch = r.batch /\ a.ended = r.ended
      /\ a.z = r.z /\ a.told = r.told /\ a.failed = r.failed /\ a.crashed = r.crashed
      /\ a.lost = r.lost /\ a.wire = r.wire /\ a.pending = r.pending
      /\ a.sent = r.sent /\ a.got = r.got
  BY <1>2, <1>5, <1>7 DEF Tracker
<1> DEFINE q == node[p]
<1>9. /\ b \in Tracker /\ b.loop = "none" /\ b.input = q.input /\ b.batch = q.batch /\ b.ended = q.ended
      /\ b.z = q.z /\ b.told = q.told /\ b.failed = q.failed /\ b.crashed = q.crashed
      /\ b.lost = q.lost /\ b.wire = rest /\ b.pending = q.pending
      /\ b.sent = q.sent /\ b.got = q.got
  <2>1. q \in Tracker /\ q.loop = "none"
    BY <1>1, <1>2
  <2> HIDE DEF q
  <2>2. b = [q EXCEPT !.wire = rest]
    BY DEF q
  <2> HIDE DEF b
  <2> QED
    BY <1>5, <2>1, <2>2 DEF Tracker
<1> HIDE DEF a, b
<1>10. /\ node' \in [Node -> Tracker] /\ node'[n] = a /\ node'[p] = b
       /\ \A m \in Node : m # n /\ m # p => node'[m] = node[m]
  BY <1>1, <1>2, <1>6, <1>8, <1>9
<1>11. Aside(r, a) /\ Aside(q, b)
  BY <1>8, <1>9 DEF Aside
<1>12. Received(n, chunk, rest)
  BY <1>5, <1>7, <1>8, <1>9, <1>10, <1>11 DEF Received, p, l
<1> QED
  BY <1>12

LEMMA RecvStep ==
    ASSUME IInv(node), Idle, NEW n \in Node, NEW chunk, NEW rest, Received(n, chunk, rest)
    PROVE  IInv(node')
<1> DEFINE p == Peer[n]
           r == node[n]
           a == node'[n]
           b == node'[p]
<1>1. /\ p \in Node /\ p # n /\ Peer[p] = n
      /\ \A m \in Node : Peer[m] \in Node /\ (m # n => Peer[m] # p) /\ (m # p => Peer[m] # n)
  BY Mccp2Assumption
<1>2. /\ node \in [Node -> Tracker] /\ r \in Tracker /\ node[p] \in Tracker
      /\ Sane(r) /\ Sane(node[p]) /\ \A m \in Node : node[m].loop = "none"
  BY <1>1, NodeFacts DEF Idle
<1>3. /\ chunk \in Seq(Unit) /\ rest \in Seq(Unit) /\ chunk # <<>>
      /\ chunk \o rest = node[p].wire /\ node' \in [Node -> Tracker]
      /\ \A m \in Node : m # n /\ m # p => node'[m] = node[m]
  BY DEF Received
<1>4. /\ a.input = chunk /\ a.batch = r.batch /\ a.ended = r.ended
      /\ a.loop = (IF r.z = "inflate" THEN "inflate" ELSE "process")
      /\ a.z = r.z /\ a.told = r.told /\ a.failed = r.failed /\ a.crashed = r.crashed
      /\ a.lost = r.lost /\ a.wire = r.wire /\ a.pending = r.pending
  BY DEF Received, Aside
<1> DEFINE q == node[p]
<1>5. /\ b.loop = "none" /\ b.input = q.input /\ b.batch = q.batch /\ b.ended = q.ended
      /\ b.z = q.z /\ b.told = q.told /\ b.failed = q.failed /\ b.crashed = q.crashed
      /\ b.lost = q.lost /\ b.wire = rest /\ b.pending = q.pending
  BY DEF Received, Aside
<1>6. AllSane(node')
  <2>1. Sane(a)
    <3>1. r.batch = <<>> /\ ~r.ended /\ ((a.told <=> a.z # "none") \/ Down(a))
      BY <1>2, <1>4 DEF Sane, Down
    <3> QED
      BY <1>2, <1>3, <1>4, <3>1 DEF Sane
  <2>2. Sane(b)
    BY <1>1, <1>2, <1>5 DEF Sane, Down
  <2> QED
    BY <1>2, <1>3, <2>1, <2>2, NodeFacts DEF AllSane
<1>7. OneLoop(node')
  <2>1. \A m \in Node : node'[m].loop # "none" => m = n
    BY <1>1, <1>2, <1>3, <1>5
  <2> QED
    BY <2>1 DEF OneLoop
<1>8. Framing(node')
  <2> SUFFICES ASSUME NEW m \in Node, SoundOne(node'[m]), SoundOne(node'[Peer[m]])
               PROVE  InFrame(node'[m].input \o Out(node'[Peer[m]]),
                              Reading(node'[m]), Writing(node'[Peer[m]]))
    BY DEF Framing
  <2>1. ASSUME NEW e \in Node
        PROVE  /\ Reading(node'[e]) = Reading(node[e]) /\ Writing(node'[e]) = Writing(node[e])
               /\ SoundOne(node'[e]) = SoundOne(node[e])
               /\ e # n => node'[e].input = node[e].input
               /\ e # p => Out(node'[e]) = Out(node[e])
    <3>1. CASE e = n
      BY <1>1, <1>4, <3>1 DEF Reading, Writing, SoundOne, Down, Out
    <3>2. CASE e = p
      BY <1>1, <1>5, <3>2 DEF Reading, Writing, SoundOne, Down, Out
    <3>3. CASE e # n /\ e # p
      BY <1>3, <3>3
    <3> QED
      BY <3>1, <3>2, <3>3
  <2>2. InFrame(node[m].input \o Out(node[Peer[m]]), Reading(node[m]), Writing(node[Peer[m]]))
    BY <1>1, <2>1 DEF IInv, Framing
  <2>3. node'[m].input \o Out(node'[Peer[m]]) = node[m].input \o Out(node[Peer[m]])
    <3>1. CASE m = n
      <4>1. node[n].input = <<>> /\ node[p].pending \in Seq(Unit)
        BY <1>2, TrackerFacts DEF Sane
      <4>2. node[n].input \o Out(node[p]) = node[p].wire \o node[p].pending
        <5>1. Out(node[p]) \in Seq(Unit) /\ Out(node[p]) = node[p].wire \o node[p].pending
          BY <1>2, TrackerFacts DEF Out
        <5> QED
          BY <4>1, <5>1, ConcatEmptySeq
      <4>3. node'[n].input = chunk /\ Out(node'[p]) = rest \o node[p].pending
        BY <1>4, <1>5 DEF Out
      <4>4. chunk \o (rest \o node[p].pending) = (chunk \o rest) \o node[p].pending
        <5>1. chunk \in Seq(Unit) /\ rest \in Seq(Unit) /\ node[p].pending \in Seq(Unit)
          BY <1>3, <4>1
        <5> QED
          BY <5>1, Regroup DEF Assoc
      <4> QED
        BY <1>3, <3>1, <4>2, <4>3, <4>4
    <3>2. CASE m # n
      BY <1>1, <2>1, <3>2
    <3> QED
      BY <3>1, <3>2
  <2> QED
    BY <1>1, <2>1, <2>2, <2>3
<1> QED
  BY <1>3, <1>6, <1>7, <1>8 DEF IInv, Typed

-----------------------------------------------------------------------------
(* The theorems.                                                           *)

LEMMA Initially ==
    ASSUME Init
    PROVE  IInv(node)
<1>1. /\ <<>> \in Seq(Unit) /\ <<>> \in Seq(Plain)
  OBVIOUS
<1>2. Fresh \in Tracker /\ Sane(Fresh) /\ Fresh.loop = "none" /\ Fresh.input = <<>>
      /\ Fresh.z = "none" /\ Fresh.wire = <<>> /\ Fresh.pending = <<>>
  BY <1>1 DEF Fresh, Tracker, Sane
<1>3. \A n \in Node : node[n] = Fresh /\ Peer[n] \in Node
  BY Mccp2Assumption DEF Init
<1>4. Typed(node)
  BY <1>2 DEF Init, Typed
<1>5. AllSane(node) /\ OneLoop(node)
  BY <1>2, <1>3 DEF AllSane, OneLoop
<1>6. Framing(node)
  <2>1. Out(Fresh) = <<>> /\ <<>> \o <<>> = <<>>
    BY <1>1, <1>2, ConcatEmptySeq DEF Out
  <2>2. Reading(Fresh) = FALSE /\ Writing(Fresh) = FALSE
    BY <1>2 DEF Reading, Writing
  <2>3. InFrame(<<>>, FALSE, FALSE)
    BY FrameEmpty
  <2> QED
    BY <1>2, <1>3, <2>1, <2>2, <2>3 DEF Framing
<1> QED
  BY <1>4, <1>5, <1>6 DEF IInv

LEMMA Inductive == Spec => []IInv(node)
<1>1. Init => IInv(node)
  BY Initially
<1>2. IInv(node) /\ [Next]_node => IInv(node)'
  <2> SUFFICES ASSUME IInv(node), [Next]_node
               PROVE  IInv(node')
    OBVIOUS
  <2>1. CASE UNCHANGED node
    BY <2>1
  <2>2. ASSUME NEW n \in Node, Idle, NEW units \in Units(n), AppSend(n, units)
        PROVE  IInv(node')
    BY <2>2, AppSendAlone, AloneStep
  <2>3. ASSUME NEW n \in Node, Idle, BeginCompress2(n)
        PROVE  IInv(node')
    BY <2>3, BeginCompress2Alone, AloneStep
  <2>4. ASSUME NEW n \in Node, Idle, EndCompression(n)
        PROVE  IInv(node')
    BY <2>4, EndCompressionAlone, AloneStep
  <2>5. ASSUME NEW n \in Node, Idle, Recv(n)
        PROVE  IInv(node')
    BY <2>5, RecvIs, RecvStep
  <2>6. ASSUME NEW n \in Node, Process(n)
        PROVE  IInv(node')
    BY <2>6, ProcessReads, ReadsStep
  <2>7. ASSUME NEW n \in Node, InflateCall(n)
        PROVE  IInv(node')
    BY <2>7, InflateCallAlone, AloneStep
  <2>8. ASSUME NEW n \in Node, ProcessInflated(n)
        PROVE  IInv(node')
    BY <2>8, ProcessInflatedReads, ReadsStep
  <2>9. ASSUME NEW n \in Node, InflateEnds(n)
        PROVE  IInv(node')
    BY <2>9, InflateEndsAlone, AloneStep
  <2> QED
    BY <2>1, <2>2, <2>3, <2>4, <2>5, <2>6, <2>7, <2>8, <2>9 DEF Next
<1> QED
  BY <1>1, <1>2, PTL DEF Spec

\* Whatever is sent and however it is cut, a tracker has deflated bytes pending
\* only while it deflates, telnet_recv() leaves nothing of a chunk behind, and
\* the inflate() loop never runs while z deflates.
THEOREM TypeCorrect == Spec => []TypeOK
<1>1. IInv(node) => TypeOK
  <2> SUFFICES ASSUME IInv(node), NEW n \in Node
               PROVE  LET r == node[n] IN
                        /\ r.z \in {"none", "deflate", "inflate"}
                        /\ r.loop \in {"none", "process", "inflate"}
                        /\ r.pending # <<>> => r.z = "deflate"
                        /\ r.loop = "none" => r.batch = <<>> /\ r.input = <<>> /\ ~r.ended
                        /\ r.loop = "process" => r.input # <<>> /\ r.batch = <<>>
                        /\ r.loop = "inflate" => r.z # "deflate"
    BY DEF TypeOK
  <2> QED
    BY NodeFacts, TrackerFacts DEF Sane
<1> QED
  BY <1>1, Inductive, PTL

\* The application is told truly of compression, until it gets an ERROR.
THEOREM ToldTrulyHolds == Spec => []ToldTruly
<1>1. IInv(node) => ToldTruly
  <2> SUFFICES ASSUME IInv(node), NEW n \in Node
               PROVE  node[n].told = (node[n].z # "none") \/ Down(node[n])
    BY DEF ToldTruly
  <2>1. (node[n].told <=> node[n].z # "none") \/ Down(node[n])
    BY NodeFacts DEF Sane
  <2>2. node[n].told \in BOOLEAN
    BY NodeFacts, TrackerFacts
  <2> QED
    BY <2>1, <2>2
<1> QED
  BY <1>1, Inductive, PTL

\* No loop of telnet_recv() uses a z_stream that was freed below it, but for
\* NEW-ENVIRON in a compressed stream.
THEOREM NoUseAfterFreeHolds == Spec => []NoUseAfterFree
<1>1. IInv(node) => NoUseAfterFree
  BY NodeFacts DEF NoUseAfterFree, Sane
<1> QED
  BY <1>1, Inductive, PTL

\* What a stream is before its unit i depends on the last switch before it.
LEMMA FrameOfUnit ==
    ASSUME NEW s \in Seq(Unit), NEW a \in BOOLEAN, NEW c \in BOOLEAN, InFrame(s, a, c),
           NEW i \in DOMAIN s
    PROVE  LET before == {j \in 1 .. i - 1 : s[j] \in Switch}
           IN  (s[i].kind = "packed") = (IF before = {} THEN a ELSE s[Max(before)] = Marker)
<1> DEFINE before == {j \in 1 .. i - 1 : s[j] \in Switch}
           b == (s[i].kind = "packed")
<1>1. i \in 1 .. Len(s) /\ Len(s) \in Nat
  BY LenProperties
<1>2. After(s, a, i - 1, b)
  BY <1>1 DEF InFrame
<1> HIDE DEF b
<1>3. CASE (\A j \in 1 .. i - 1 : s[j] \notin Switch) /\ (b <=> a)
  <2>1. before = {}
    BY <1>3
  <2> QED
    BY <1>3, <2>1 DEF b
<1>4. ASSUME NEW j \in 1 .. i - 1, s[j] \in Switch,
             \A h \in j + 1 .. i - 1 : s[h] \notin Switch, b <=> s[j] = Marker
      PROVE  before # {} /\ b = (s[Max(before)] = Marker)
  <2>1. j \in before /\ before \in SUBSET Nat
    BY <1>1, <1>4
  <2>2. \A h \in before : h <= j
    <3> SUFFICES ASSUME NEW h \in 1 .. i - 1, s[h] \in Switch, ~(h <= j)
                 PROVE  FALSE
      OBVIOUS
    <3>1. h \in j + 1 .. i - 1
      BY <1>1
    <3> QED
      BY <1>4, <3>1
  <2> HIDE DEF before
  <2>3. Max(before) = j
    BY <2>1, <2>2, MaxIs
  <2> QED
    BY <1>4, <2>1, <2>3 DEF b
<1> QED
  BY <1>2, <1>3, <1>4 DEF After, b

\* While neither end was given an ERROR and nothing was lost, a receiver that
\* reads on from where it is takes no compressed byte for a plain one and no
\* plain one for a compressed one, for any cut of the stream into chunks and
\* any size of zlib's buffers.
THEOREM FramedHolds == Spec => []Framed
<1>1. IInv(node) => Framed
  <2> SUFFICES ASSUME IInv(node), NEW n \in Node, Sound({n, Peer[n]}),
                      NEW i \in DOMAIN (node[n].input \o node[Peer[n]].wire \o node[Peer[n]].pending)
               PROVE  LET r == node[n]
                          s == r.input \o node[Peer[n]].wire \o node[Peer[n]].pending
                          before == {j \in 1 .. i - 1 : s[j] \in {Marker, Packed(End)}}
                      IN  (s[i].kind = "packed") =
                             (IF before = {} THEN r.z = "inflate" /\ ~r.ended ELSE s[Max(before)] = Marker)
    BY DEF Framed
  <2> DEFINE p == Peer[n]
             r == node[n]
             s == r.input \o node[p].wire \o node[p].pending
  <2>1. p \in Node
    BY Mccp2Assumption
  <2>2. r \in Tracker /\ node[p] \in Tracker
    BY <2>1, NodeFacts
  <2>3. SoundOne(r) /\ SoundOne(node[p])
    BY DEF Sound, SoundOne
  <2>4. InFrame(r.input \o Out(node[p]), Reading(r), Writing(node[p]))
    BY <2>3 DEF IInv, Framing
  <2>5. s = r.input \o Out(node[p]) /\ s \in Seq(Unit)
    <3>1. r.input \in Seq(Unit) /\ node[p].wire \in Seq(Unit) /\ node[p].pending \in Seq(Unit)
      BY <2>2, TrackerFacts
    <3> DEFINE q == r.input
               w == node[p].wire
               o == node[p].pending
    <3>2. q \in Seq(Unit) /\ w \in Seq(Unit) /\ o \in Seq(Unit) /\ s = (q \o w) \o o
      BY <3>1
    <3> HIDE DEF q, w, o, s
    <3>3. Assoc(q, w, o)
      BY <3>2, Regroup
    <3>4. q \o w \in Seq(Unit)
      BY <3>2, ConcatProperties
    <3>5. s \in Seq(Unit)
      BY <3>2, <3>4, ConcatProperties
    <3> QED
      BY <3>2, <3>3, <3>5 DEF Assoc, Out, q, w, o
  <2>6. i \in DOMAIN s
    OBVIOUS
  <2> HIDE DEF s, r, p
  <2>7. Reading(r) \in BOOLEAN /\ Writing(node[p]) \in BOOLEAN
    BY <2>2, TrackerFacts
  <2>8. LET before == {j \in 1 .. i - 1 : s[j] \in Switch}
        IN  (s[i].kind = "packed") = (IF before = {} THEN Reading(r) ELSE s[Max(before)] = Marker)
    BY <2>4, <2>5, <2>6, <2>7, FrameOfUnit
  <2> QED
    BY <2>8 DEF Switch, Reading, s, r, p
<1> QED
  BY <1>1, Inductive, PTL

-----------------------------------------------------------------------------
(* What is sent arrives.                                                   *)

\* The messages under way to a tracker.
Under(nodes, n) == Held(nodes[n]) \o Content(Out(nodes[Peer[n]]))

Flow(nodes, n) ==
    LET q == Twin[Peer[n]]
    IN  IF q = "none" THEN Under(nodes, n) ELSE Under(nodes, n) \o Under(nodes, q)

Delivered(nodes) ==
    \A n \in Node : IsEnd(n) /\ IsEnd(Source(n)) /\ (\A m \in Path(n) : SoundOne(nodes[m])) =>
        nodes[n].got \o Flow(nodes, n) = nodes[Source(n)].sent

LEMMA Joined ==
    ASSUME NEW a \in Seq(Plain), NEW b \in Seq(Plain), NEW c \in Seq(Plain)
    PROVE  Assoc(a, b, c)
<1>1. (a \o b) \o c = a \o (b \o c)
  BY ConcatAssociative
<1> QED
  BY <1>1 DEF Assoc

LEMMA JoinedType ==
    ASSUME NEW a \in Seq(Plain), NEW b \in Seq(Plain)
    PROVE  a \o b \in Seq(Plain)
BY ConcatProperties

\* got, the messages under way before a step and after it, and those sent.
Arrival(got, taken, v, u, given) == (got \o taken) \o v = (got \o u) \o given

\* Over one connection.
LEMMA Arrives ==
    ASSUME NEW got \in Seq(Plain), NEW taken \in Seq(Plain), NEW given \in Seq(Plain),
           NEW u \in Seq(Plain), NEW v \in Seq(Plain), u \o given = taken \o v
    PROVE  Arrival(got, taken, v, u, given)
<1>1. Assoc(got, taken, v) /\ Assoc(got, u, given)
  BY Joined
<1> QED
  BY <1>1 DEF Assoc, Arrival

\* Through a proxy that sends on what it takes.
LEMMA ArrivesThrough ==
    ASSUME NEW got \in Seq(Plain), NEW taken \in Seq(Plain), NEW on \in Seq(Plain),
           NEW given \in Seq(Plain), NEW u \in Seq(Plain), NEW v \in Seq(Plain),
           NEW w \in Seq(Plain), NEW x \in Seq(Plain),
           u \o on = taken \o v, w \o given = on \o x
    PROVE  Arrival(got, taken, v \o x, u \o w, given)
<1>1. got \o u \in Seq(Plain) /\ got \o taken \in Seq(Plain)
  BY JoinedType
<1>2. Arrival(got, taken, v, u, on)
  BY Arrives
<1>3. Arrival(got \o u, on, x, w, given)
  BY <1>1, Arrives
<1>4. Assoc(got \o taken, v, x) /\ Assoc(got, u, w)
  BY <1>1, Joined
<1> QED
  BY <1>2, <1>3, <1>4 DEF Assoc, Arrival
UnderMoved(before, after, m, taken, given) ==
    /\ Under(before, m) \in Seq(Plain) /\ Under(after, m) \in Seq(Plain)
    /\ Under(before, m) \o given = taken \o Under(after, m)

\* The messages taken are the first, and those given the last, of a connection
\* whose ends are sound.
LEMMA UnderMoves ==
    ASSUME NEW before, NEW after, Typed(before), Typed(after), Framing(before),
           NEW m \in Node, NEW taken \in Seq(Plain), NEW given \in Seq(Plain),
           \E none : Carries(m, before[m], after[m], taken, none),
           \E none : Carries(Peer[m], before[Peer[m]], after[Peer[m]], none, given),
           SoundOne(after[m]), SoundOne(after[Peer[m]]),
           SoundOne(before[m]), SoundOne(before[Peer[m]])
    PROVE  UnderMoved(before, after, m, taken, given)
<1> DEFINE p == Peer[m]
           h == Held(before[m])
           i == Held(after[m])
           o == Content(Out(before[p]))
           x == Content(Out(after[p]))
<1>1. /\ p \in Node /\ before[m] \in Tracker /\ before[p] \in Tracker
      /\ after[m] \in Tracker /\ after[p] \in Tracker
  BY Mccp2Assumption DEF Typed
<1>2. h \in Seq(Plain) /\ i \in Seq(Plain) /\ o \in Seq(Plain) /\ x \in Seq(Plain)
  BY <1>1, TrackerContent
<1>3. InFrame(before[m].input \o Out(before[p]), Reading(before[m]), Writing(before[p]))
  BY DEF Framing
<1>4. h = taken \o i
  <2>1. Out(before[p]) \in Seq(Unit) /\ Writing(before[p]) \in BOOLEAN
    BY <1>1, TrackerFacts
  <2> QED
    BY <1>3, <2>1 DEF Carries
<1>5. x = o \o given
  BY DEF Carries
<1>6. Under(before, m) = h \o o /\ Under(after, m) = i \o x
  BY DEF Under
<1> HIDE DEF h, i, o, x, p
<1>7. Assoc(h, o, given) /\ Assoc(taken, i, x)
  BY <1>2, Joined
<1>8. h \o o \in Seq(Plain) /\ i \o x \in Seq(Plain)
  BY <1>2, JoinedType
<1> QED
  BY <1>4, <1>5, <1>6, <1>7, <1>8 DEF Assoc, UnderMoved

\* Who is on the way of the messages to n.
LEMMA PathFacts ==
    ASSUME NEW n \in Node
    PROVE  /\ Peer[n] \in Node /\ n \in Path(n) /\ Peer[n] \in Path(n)
           /\ Twin[Peer[n]] = "none" => Source(n) = Peer[n]
           /\ LET q == Twin[Peer[n]]
              IN  q # "none" =>
                    /\ q \in Node /\ q \in Path(n) /\ Twin[q] = Peer[n] /\ ~IsEnd(q)
                    /\ Source(n) = Peer[q] /\ Peer[q] \in Node /\ Peer[q] \in Path(n)
<1>1. Peer[n] \in Node /\ Twin[Peer[n]] \in Node \cup {"none"} /\ "none" \notin Node
  BY Mccp2Assumption
<1>2. ASSUME Twin[Peer[n]] # "none"
      PROVE  /\ Twin[Peer[n]] \in Node /\ Twin[Twin[Peer[n]]] = Peer[n]
             /\ Peer[Twin[Peer[n]]] \in Node /\ Peer[n] # "none"
  <2>1. Twin[Peer[n]] \in Node /\ Twin[Twin[Peer[n]]] = Peer[n]
    BY <1>1, <1>2, Mccp2Assumption
  <2> QED
    BY <1>1, <2>1, Mccp2Assumption
<1> QED
  BY <1>1, <1>2 DEF Path, Source, IsEnd

LEMMA PathNodes ==
    ASSUME NEW n \in Node
    PROVE  Path(n) \subseteq Node /\ Source(n) \in Path(n) /\ Source(n) \in Node
<1> DEFINE p == Peer[n]
           q == Twin[p]
           src == Source(n)
<1>1. CASE q = "none"
  <2>1. p \in Node /\ src = p
    BY <1>1, PathFacts
  <2> QED
    BY <1>1, <2>1 DEF Path
<1>2. CASE q # "none"
  <2>1. p \in Node /\ q \in Node /\ src = Peer[q] /\ Peer[q] \in Node
    BY <1>2, PathFacts
  <2> QED
    BY <1>2, <2>1 DEF Path
<1> QED
  BY <1>1, <1>2

\* Steps of several trackers deliver what was delivered before.
AllCarry(before, after, taken, given) ==
    /\ taken \in [Node -> Seq(Plain)] /\ given \in [Node -> Seq(Plain)]
    /\ \A m \in Node : Carries(m, before[m], after[m], taken[m], given[m])
    /\ \A m \in Node : SoundOne(after[m]) => SoundOne(before[m])
    /\ \A m \in Node : ~IsEnd(m) => given[Twin[m]] = taken[m]

LEMMA CarriesDeliver ==
    ASSUME NEW before, NEW after, Typed(before), Typed(after), Framing(before),
           NEW taken, NEW given, AllCarry(before, after, taken, given), Delivered(before)
    PROVE  Delivered(after)
<1>0. /\ taken \in [Node -> Seq(Plain)] /\ given \in [Node -> Seq(Plain)]
      /\ \A m \in Node : Carries(m, before[m], after[m], taken[m], given[m])
      /\ \A m \in Node : SoundOne(after[m]) => SoundOne(before[m])
      /\ \A m \in Node : ~IsEnd(m) => given[Twin[m]] = taken[m]
  BY DEF AllCarry
<1> SUFFICES ASSUME NEW n \in Node, IsEnd(n), IsEnd(Source(n)),
                    \A m \in Path(n) : SoundOne(after[m])
             PROVE  after[n].got \o Flow(after, n) = after[Source(n)].sent
  BY DEF Delivered
<1> DEFINE p == Peer[n]
           q == Twin[p]
           src == Source(n)
<1>1. p \in Node /\ n \in Path(n) /\ p \in Path(n) /\ Path(n) \subseteq Node /\ src \in Path(n)
  BY PathFacts, PathNodes
<1>2. \A m \in Path(n) : SoundOne(before[m])
  BY <1>0, <1>1
<1>3. before[n].got \o Flow(before, n) = before[src].sent
  BY <1>2 DEF Delivered
<1>4. before[n].got \in Seq(Plain) /\ before[src].sent \in Seq(Plain)
  BY <1>1, TrackerContent DEF Typed
<1>5. after[n].got = before[n].got \o taken[n] /\ after[src].sent = before[src].sent \o given[src]
  BY <1>0, <1>1 DEF Carries
<1>6. ASSUME NEW m \in Path(n), Peer[m] \in Path(n)
      PROVE  /\ taken[m] \in Seq(Plain) /\ given[Peer[m]] \in Seq(Plain)
             /\ Under(before, m) \in Seq(Plain) /\ Under(after, m) \in Seq(Plain)
             /\ Under(before, m) \o given[Peer[m]] = taken[m] \o Under(after, m)
  <2> DEFINE t == taken[m]
             g == given[Peer[m]]
  <2>1. m \in Node /\ Peer[m] \in Node
    BY <1>1, <1>6
  <2>2. t \in Seq(Plain) /\ g \in Seq(Plain)
    BY <1>0, <2>1
  <2>3. /\ \E none : Carries(m, before[m], after[m], t, none)
        /\ \E none : Carries(Peer[m], before[Peer[m]], after[Peer[m]], none, g)
    BY <1>0, <2>1
  <2>4. /\ SoundOne(after[m]) /\ SoundOne(after[Peer[m]])
        /\ SoundOne(before[m]) /\ SoundOne(before[Peer[m]])
    BY <1>2, <1>6
  <2> HIDE DEF t, g
  <2>5. UnderMoved(before, after, m, t, g)
    BY <2>1, <2>2, <2>3, <2>4, UnderMoves
  <2> QED
    BY <2>2, <2>5 DEF t, g, UnderMoved
<1>7. /\ taken[n] \in Seq(Plain) /\ given[p] \in Seq(Plain) /\ given[src] \in Seq(Plain)
      /\ Under(before, n) \in Seq(Plain) /\ Under(after, n) \in Seq(Plain)
      /\ Under(before, n) \o given[p] = taken[n] \o Under(after, n)
  <2>1. given[src] \in Seq(Plain)
    BY <1>0, <1>1
  <2>2. n \in Path(n) /\ Peer[n] \in Path(n)
    BY <1>1
  <2>3. /\ taken[n] \in Seq(Plain) /\ given[Peer[n]] \in Seq(Plain)
        /\ Under(before, n) \in Seq(Plain) /\ Under(after, n) \in Seq(Plain)
        /\ Under(before, n) \o given[Peer[n]] = taken[n] \o Under(after, n)
    BY <1>6, <2>2
  <2> QED
    BY <2>1, <2>3
<1> DEFINE got == before[n].got
           t == taken[n]
           g == given[src]
           on == given[p]
           u == Under(before, n)
           v == Under(after, n)
<1>8. CASE q = "none"
  <2>1. src = p /\ Flow(before, n) = Under(before, n) /\ Flow(after, n) = Under(after, n)
    BY <1>8, PathFacts DEF Flow
  <2>2. got \in Seq(Plain) /\ t \in Seq(Plain) /\ on \in Seq(Plain) /\ u \in Seq(Plain)
        /\ v \in Seq(Plain) /\ u \o on = t \o v
    BY <1>4, <1>7
  <2>3. got \o u = before[src].sent /\ after[n].got = got \o t /\ after[src].sent = before[src].sent \o on
    BY <1>3, <1>5, <2>1
  <2>4. Flow(after, n) = v
    BY <2>1
  <2> HIDE DEF got, t, on, u, v
  <2>5. Arrival(got, t, v, u, on)
    BY <2>2, Arrives
  <2> QED
    BY <2>3, <2>4, <2>5 DEF Arrival
<1>9. CASE q # "none"
  <2> DEFINE w == Under(before, q)
             x == Under(after, q)
  <2>1. /\ q \in Node /\ q \in Path(n) /\ Twin[q] = p /\ ~IsEnd(q) /\ src = Peer[q]
        /\ Flow(before, n) = u \o w /\ Flow(after, n) = v \o x
    BY <1>9, PathFacts DEF Flow
  <2>2. on = taken[q]
    BY <1>0, <2>1
  <2>3. w \in Seq(Plain) /\ x \in Seq(Plain) /\ w \o g = on \o x
    BY <1>1, <1>6, <2>1, <2>2
  <2>4. got \in Seq(Plain) /\ t \in Seq(Plain) /\ on \in Seq(Plain) /\ u \in Seq(Plain)
        /\ v \in Seq(Plain) /\ g \in Seq(Plain) /\ u \o on = t \o v
    BY <1>4, <1>7
  <2>5. /\ got \o (u \o w) = before[src].sent
        /\ after[n].got = got \o t /\ after[src].sent = before[src].sent \o g
    BY <1>3, <1>5, <2>1
  <2>6. Flow(after, n) = v \o x
    BY <2>1
  <2> HIDE DEF got, t, g, on, u, v, w, x
  <2>7. Arrival(got, t, v \o x, u \o w, g)
    BY <2>3, <2>4, ArrivesThrough
  <2> QED
    BY <2>5, <2>6, <2>7 DEF Arrival
<1> QED
  BY <1>8, <1>9

LEMMA CarriesStill ==
    ASSUME NEW n, NEW r \in Tracker
    PROVE  Carries(n, r, r, <<>>, <<>>)
BY CarriesNothing

\* A step of n, with the other tracker of a proxy that sends on what n takes.
Exchange(after, n, a, b) ==
    /\ a \in Seq(Plain) /\ b \in Seq(Plain)
    /\ Carries(n, node[n], after[n], a, b) /\ (SoundOne(after[n]) => SoundOne(node[n]))
    /\ \A m \in Node : m # n /\ m # Twin[n] => after[m] = node[m]
    /\ ~IsEnd(n) => /\ b = <<>>
                    /\ Carries(Twin[n], node[Twin[n]], after[Twin[n]], <<>>, a)
                    /\ SoundOne(after[Twin[n]]) => SoundOne(node[Twin[n]])

LEMMA TwoDeliver ==
    ASSUME NEW after, IInv(node), Typed(after), Delivered(node), NEW n \in Node, NEW a, NEW b,
           Exchange(after, n, a, b)
    PROVE  Delivered(after)
<1> DEFINE t == Twin[n]
           taken == [m \in Node |-> IF m = n THEN a ELSE <<>>]
           given == [m \in Node |-> IF m = n THEN b ELSE IF m = t THEN a ELSE <<>>]
<1>0. /\ a \in Seq(Plain) /\ b \in Seq(Plain)
      /\ Carries(n, node[n], after[n], a, b) /\ (SoundOne(after[n]) => SoundOne(node[n]))
      /\ \A m \in Node : m # n /\ m # t => after[m] = node[m]
      /\ ~IsEnd(n) => /\ b = <<>>
                      /\ Carries(t, node[t], after[t], <<>>, a)
                      /\ SoundOne(after[t]) => SoundOne(node[t])
  BY DEF Exchange
<1>1. /\ Typed(node) /\ Framing(node) /\ \A m \in Node : node[m] \in Tracker
      /\ <<>> \in Seq(Plain)
  BY NodeFacts DEF IInv
<1>2. /\ \A m \in Node : Twin[m] # "none" => Twin[m] \in Node /\ Twin[Twin[m]] = m /\ Twin[m] # m
      /\ "none" \notin Node
  BY Mccp2Assumption
<1>3. taken \in [Node -> Seq(Plain)] /\ given \in [Node -> Seq(Plain)]
  BY <1>0, <1>1
<1>4. /\ taken[n] = a /\ given[n] = b
      /\ \A m \in Node : m # n => taken[m] = <<>>
      /\ \A m \in Node : m # n /\ m # t => given[m] = <<>>
      /\ t \in Node => given[t] = a
  BY <1>2 DEF IsEnd
<1> HIDE DEF taken, given
<1>5. ASSUME NEW m \in Node
      PROVE  /\ Carries(m, node[m], after[m], taken[m], given[m])
             /\ SoundOne(after[m]) => SoundOne(node[m])
  <2>1. CASE m = n
    BY <1>0, <1>4, <2>1
  <2>2. CASE m # n /\ m = t
    <3>1. ~IsEnd(n)
      BY <1>2, <2>2 DEF IsEnd
    <3> QED
      BY <1>0, <1>4, <2>2, <3>1
  <2>3. CASE m # n /\ m # t
    <3>1. after[m] = node[m] /\ taken[m] = <<>> /\ given[m] = <<>>
      BY <1>0, <1>4, <2>3
    <3>2. Carries(m, node[m], node[m], <<>>, <<>>)
      BY <1>1, CarriesStill
    <3> QED
      BY <3>1, <3>2
  <2> QED
    BY <2>1, <2>2, <2>3
<1>6. ASSUME NEW m \in Node, ~IsEnd(m)
      PROVE  given[Twin[m]] = taken[m]
  <2>1. Twin[m] \in Node /\ Twin[Twin[m]] = m /\ Twin[m] # m
    BY <1>2, <1>6 DEF IsEnd
  <2>2. CASE m = n
    BY <1>4, <2>1, <2>2
  <2>3. CASE m # n /\ Twin[m] = n
    <3>1. ~IsEnd(n)
      BY <1>2, <2>1, <2>3 DEF IsEnd
    <3> QED
      BY <1>0, <1>4, <2>3, <3>1
  <2>4. CASE m # n /\ Twin[m] # n
    <3>1. Twin[m] # t
      BY <1>2, <2>1, <2>4
    <3> QED
      BY <1>4, <2>1, <2>4, <3>1
  <2> QED
    BY <2>2, <2>3, <2>4
<1>7. AllCarry(node, after, taken, given)
  BY <1>3, <1>5, <1>6 DEF AllCarry
<1> QED
  BY <1>1, <1>7, CarriesDeliver

LEMMA AloneDelivers ==
    ASSUME IInv(node), Delivered(node), NEW n \in Node, NEW s, NEW given, Alone(n, s, given)
    PROVE  Delivered(node')
<1>1. /\ node' = [node EXCEPT ![n] = s] /\ node \in [Node -> Tracker] /\ s \in Tracker
      /\ Carries(n, node[n], s, <<>>, given) /\ (SoundOne(s) => SoundOne(node[n]))
      /\ given \in Seq(Plain) /\ (given = <<>> \/ IsEnd(n)) /\ <<>> \in Seq(Plain)
  BY NodeFacts DEF Alone, Moves
<1>2. /\ Typed(node') /\ node'[n] = s /\ \A m \in Node : m # n => node'[m] = node[m]
  BY <1>1 DEF Typed
<1>3. ASSUME ~IsEnd(n)
      PROVE  /\ given = <<>>
             /\ Carries(Twin[n], node[Twin[n]], node'[Twin[n]], <<>>, <<>>)
             /\ SoundOne(node'[Twin[n]]) => SoundOne(node[Twin[n]])
  <2>1. Twin[n] \in Node /\ Twin[n] # n
    BY <1>3, Mccp2Assumption DEF IsEnd
  <2>2. node'[Twin[n]] = node[Twin[n]] /\ node[Twin[n]] \in Tracker
    BY <1>1, <1>2, <2>1
  <2> QED
    BY <1>1, <1>3, <2>2, CarriesStill
<1>4. Exchange(node', n, <<>>, given)
  BY <1>1, <1>2, <1>3 DEF Exchange
<1> QED
  BY <1>2, <1>4, TwoDeliver

\* The message in the unit read goes to the application, or on.
LEMMA ReadsDelivers ==
    ASSUME IInv(node), Delivered(node), NEW n \in Node, NEW u, NEW base, NEW s,
           Reads(n, u, base, s)
    PROVE  Delivered(node')
<1> DEFINE t == Twin[n]
           a == Content(<<u>>)
<1>1. /\ u \in Plain /\ Elsewhere(n, base, u) /\ s \in Tracker /\ Took(n, node[n], s, u)
      /\ SoundOne(s) => SoundOne(node[n])
      /\ node' = [base EXCEPT ![n] = s] /\ node \in [Node -> Tracker]
      /\ <<>> \in Seq(Plain)
  BY NodeFacts DEF Reads, Moves
<1>2. base \in [Node -> Tracker] /\ \A m \in Node : m # t => base[m] = node[m]
  BY <1>1 DEF Elsewhere, IInv, Typed
<1>3. /\ Typed(node') /\ node'[n] = s
      /\ \A m \in Node : m # n => node'[m] = base[m]
      /\ \A m \in Node : m # n /\ m # t => node'[m] = node[m]
  BY <1>1, <1>2 DEF Typed
<1>4. /\ a \in Seq(Plain) /\ a = (IF u = Marker THEN <<>> ELSE <<u>>)
      /\ u \in Unit /\ Packed(u) \in Unit /\ Content(<<Packed(u)>>) = a
  <2>1. u \in Unit /\ Packed(u) \in Unit
    BY <1>1, PlainFacts, PackedFacts
  <2>2. Content(<<u>>) = (IF u = Marker THEN <<>> ELSE <<u>>) /\ Content(<<Packed(u)>>) = Content(<<u>>)
    BY <1>1, ContentOfUnit
  <2>3. <<u>> \in Seq(Plain)
    BY <1>1
  <2> QED
    BY <1>1, <2>1, <2>2, <2>3
<1> HIDE DEF a
<1>5. Carries(n, node[n], s, a, <<>>)
  <2> DEFINE r == node[n]
  <2>1. /\ Out(s) = Out(r) /\ s.sent = r.sent
        /\ s.got = IF IsEnd(n) /\ u # Marker THEN Append(r.got, u) ELSE r.got
    BY <1>1 DEF Took
  <2>2. r \in Tracker
    BY <1>1
  <2> HIDE DEF r
  <2>3. IsEnd(n) => s.got = r.got \o a /\ s.sent = r.sent \o <<>>
    BY <1>1, <1>4, <2>1, <2>2, TrackerContent, AppendIsConcat
  <2>4. Content(Out(s)) = Content(Out(r)) \o <<>>
    BY <2>1, <2>2, TrackerContent
  <2>5. ASSUME r.batch \o r.input = <<u>> \o (s.batch \o s.input)
        PROVE  Held(r) = a \o Held(s)
    <3>1. <<u>> \in Seq(Unit) /\ s.batch \o s.input \in Seq(Unit)
      <4>1. s.batch \in Seq(Plain) /\ s.input \in Seq(Unit)
        BY <1>1, TrackerFacts
      <4>2. s.batch \in Seq(Unit)
        BY <4>1, PlainFacts, SeqMonotonic
      <4> QED
        BY <1>4, <4>1, <4>2, ConcatProperties
    <3> DEFINE v == s.batch \o s.input
               one == <<u>>
    <3> HIDE DEF v, one
    <3>2. Content(one \o v) = Content(one) \o Content(v)
      BY <3>1, ContentConcat DEF v, one
    <3> QED
      BY <2>5, <3>2 DEF v, one, Held, a
  <2> QED
    BY <1>1, <2>3, <2>4, <2>5 DEF Carries, Took, r
<1>6. ASSUME ~IsEnd(n)
      PROVE  /\ Carries(t, node[t], node'[t], <<>>, a)
             /\ SoundOne(node'[t]) => SoundOne(node[t])
  <2>1. t \in Node /\ t # n /\ Twin[t] = n
    BY <1>6, Mccp2Assumption DEF IsEnd
  <2>2. node'[t] = base[t] /\ node[t] \in Tracker /\ ~IsEnd(t)
    <3>1. n # "none"
      BY Mccp2Assumption
    <3> QED
      BY <1>1, <1>3, <2>1, <3>1 DEF IsEnd
  <2> DEFINE r == node[t]
             x == base[t]
  <2>3. Forwarded(r, x, u)
    BY <1>1, <1>6 DEF Elsewhere
  <2>4. r \in Tracker
    BY <2>2
  <2> HIDE DEF r, x, t
  <2>5. SoundOne(x) => SoundOne(r)
    BY <2>3, <2>4, KeptSound DEF Forwarded
  <2>6. SoundOne(x) => Content(Out(x)) = Content(Out(r)) \o a
    <3> SUFFICES ASSUME SoundOne(x)
                 PROVE  Content(Out(x)) = Content(Out(r)) \o a
      OBVIOUS
    <3>1. PICK v \in {u, Packed(u)} : Out(x) = Out(r) \o <<v>>
      BY <2>3 DEF Forwarded, SoundOne, Down
    <3>2. v \in Unit /\ Content(<<v>>) = a
      BY <1>4 DEF a
    <3>3. Content(Out(r) \o <<v>>) = Content(Out(r)) \o Content(<<v>>)
      <4> DEFINE one == <<v>>
      <4>1. one \in Seq(Unit) /\ Out(r) \in Seq(Unit)
        BY <2>4, <3>2, TrackerFacts
      <4> HIDE DEF one
      <4>2. Content(Out(r) \o one) = Content(Out(r)) \o Content(one)
        BY <4>1, ContentConcat
      <4> QED
        BY <4>2 DEF one
    <3> QED
      BY <3>1, <3>2, <3>3
  <2>7. Carries(t, r, x, <<>>, a)
    <3>1. x.input = r.input /\ x.batch = r.batch
      BY <2>3 DEF Forwarded, Kept
    <3> QED
      BY <2>2, <2>4, <2>6, <3>1, TrackerContent DEF Carries, Held, t
  <2> QED
    BY <2>2, <2>5, <2>7 DEF r, x, t
<1>7. Exchange(node', n, a, <<>>)
  BY <1>1, <1>3, <1>4, <1>5, <1>6 DEF Exchange
<1> QED
  BY <1>3, <1>7, TwoDeliver

\* What is under way is what the receiver has still to handle.
LEMMA UnderIs ==
    ASSUME NEW nodes, Typed(nodes), NEW n \in Node
    PROVE  LET r == nodes[n]
               held == r.batch \o r.input
               out == Out(nodes[Peer[n]])
           IN  /\ held \in Seq(Unit) /\ out \in Seq(Unit) /\ held \o out \in Seq(Unit)
               /\ Under(nodes, n) = Content(held \o out)
<1> DEFINE r == nodes[n]
           held == r.batch \o r.input
           out == Out(nodes[Peer[n]])
<1>1. r \in Tracker /\ nodes[Peer[n]] \in Tracker
  BY Mccp2Assumption DEF Typed
<1>2. r.batch \in Seq(Unit) /\ r.input \in Seq(Unit) /\ out \in Seq(Unit)
  <2>1. r.batch \in Seq(Plain)
    BY <1>1, TrackerFacts
  <2>2. r.batch \in Seq(Unit)
    BY <2>1, PlainFacts, SeqMonotonic
  <2> QED
    BY <1>1, <2>2, TrackerFacts
<1>3. held \in Seq(Unit)
  BY <1>2, ConcatProperties
<1>4. Under(nodes, n) = Content(held) \o Content(out)
  BY DEF Under, Held
<1> HIDE DEF held, out
<1>5. Content(held \o out) = Content(held) \o Content(out) /\ held \o out \in Seq(Unit)
  BY <1>2, <1>3, ContentConcat, ConcatProperties
<1> QED
  BY <1>2, <1>3, <1>4, <1>5 DEF held, out

LEMMA RecvDelivers ==
    ASSUME IInv(node), Idle, Delivered(node), NEW n \in Node, NEW chunk, NEW rest,
           Received(n, chunk, rest)
    PROVE  Delivered(node')
<1> DEFINE p == Peer[n]
<1>1. /\ p \in Node /\ p # n /\ Peer[p] = n
      /\ \A m \in Node : Peer[m] \in Node /\ (m # n => Peer[m] # p)
  BY Mccp2Assumption
<1>2. Typed(node) /\ Typed(node')
  BY DEF IInv, Typed, Received
<1>3. ASSUME NEW m \in Node
      PROVE  /\ SoundOne(node'[m]) <=> SoundOne(node[m])
             /\ node'[m].sent = node[m].sent /\ node'[m].got = node[m].got
             /\ node'[m].batch = node[m].batch
             /\ m # n => node'[m].input = node[m].input
             /\ m # p => Out(node'[m]) = Out(node[m])
  <2>1. CASE m = n
    BY <1>1, <2>1 DEF Received, Aside, SoundOne, Down, Out
  <2>2. CASE m = p
    BY <1>1, <2>2 DEF Received, Aside, SoundOne, Down, Out
  <2>3. CASE m # n /\ m # p
    BY <2>3 DEF Received
  <2> QED
    BY <2>1, <2>2, <2>3
<1>4. ASSUME NEW m \in Node
      PROVE  Under(node', m) = Under(node, m)
  <2>1. CASE m # n
    BY <1>1, <1>3, <2>1 DEF Under, Held
  <2>2. CASE m = n
    <3> DEFINE q == node[p].pending
               w == node[p].wire
    <3>1. node[n] \in Tracker /\ node[p] \in Tracker /\ Sane(node[n]) /\ node[n].loop = "none"
      BY <1>1, NodeFacts DEF Idle
    <3>2. q \in Seq(Unit) /\ w \in Seq(Unit) /\ chunk \in Seq(Unit) /\ rest \in Seq(Unit)
          /\ chunk \o rest = w
      BY <3>1, TrackerFacts DEF Received
    <3>3. node[n].batch = <<>> /\ node[n].input = <<>> /\ node'[n].batch = <<>>
          /\ node'[n].input = chunk
      BY <1>3, <3>1 DEF Sane, Received
    <3>4. Out(node[p]) = w \o q /\ Out(node'[p]) = rest \o q
      BY DEF Out, Received, Aside
    <3>5. Under(node, n) = Content((<<>> \o <<>>) \o (w \o q))
      BY <1>2, <3>3, <3>4, UnderIs
    <3>6. Under(node', n) = Content((<<>> \o chunk) \o (rest \o q))
      BY <1>2, <3>3, <3>4, UnderIs
    <3> HIDE DEF p, q, w
    <3>7. (<<>> \o <<>>) \o (w \o q) = w \o q
      <4>1. w \o q \in Seq(Unit) /\ <<>> \in Seq(Unit)
        BY <3>2, ConcatProperties
      <4> QED
        BY <4>1, ConcatEmptySeq
    <3>8. (<<>> \o chunk) \o (rest \o q) = (chunk \o rest) \o q
      <4>1. <<>> \o chunk = chunk
        BY <3>2, ConcatEmptySeq
      <4>2. (chunk \o rest) \o q = chunk \o (rest \o q)
        <5>1. chunk \in Seq(Unit) /\ rest \in Seq(Unit) /\ q \in Seq(Unit)
          BY <3>2
        <5> QED
          BY <5>1, Regroup DEF Assoc
      <4> QED
        BY <4>1, <4>2
    <3> QED
      BY <2>2, <3>2, <3>5, <3>6, <3>7, <3>8
  <2> QED
    BY <2>1, <2>2
<1> SUFFICES ASSUME NEW m \in Node, IsEnd(m), IsEnd(Source(m)),
                    \A e \in Path(m) : SoundOne(node'[e])
             PROVE  node'[m].got \o Flow(node', m) = node'[Source(m)].sent
  BY DEF Delivered
<1>5. Path(m) \subseteq Node /\ Source(m) \in Node
  BY PathNodes
<1>6. Flow(node', m) = Flow(node, m)
  <2>1. Twin[Peer[m]] # "none" => Twin[Peer[m]] \in Node
    BY PathFacts
  <2> QED
    BY <1>4, <2>1 DEF Flow
<1>7. \A e \in Path(m) : SoundOne(node[e])
  BY <1>3, <1>5
<1> QED
  BY <1>3, <1>5, <1>6, <1>7 DEF Delivered

LEMMA InitiallyDelivered ==
    ASSUME Init
    PROVE  Delivered(node)
<1>1. \A n \in Node : node[n] = Fresh
  BY DEF Init
<1>2. Held(Fresh) = <<>> /\ Content(Out(Fresh)) = <<>> /\ Fresh.got = <<>> /\ Fresh.sent = <<>>
  <2>1. /\ Fresh.batch = <<>> /\ Fresh.input = <<>> /\ Fresh.wire = <<>> /\ Fresh.pending = <<>>
        /\ Fresh.got = <<>> /\ Fresh.sent = <<>>
    BY DEF Fresh
  <2>2. <<>> \o <<>> = <<>>
    OBVIOUS
  <2> QED
    BY <2>1, <2>2, ContentEmpty DEF Held, Out
<1>3. \A n \in Node : Under(node, n) = <<>>
  BY <1>1, <1>2, Mccp2Assumption DEF Under
<1>4. ASSUME NEW n \in Node
      PROVE  Flow(node, n) = <<>> /\ Source(n) \in Node
  <2>1. Twin[Peer[n]] # "none" => Twin[Peer[n]] \in Node
    BY PathFacts
  <2> QED
    BY <1>3, <2>1, PathNodes DEF Flow
<1>5. <<>> \o <<>> = <<>>
  OBVIOUS
<1>6. \A n \in Node : node[n].got \o Flow(node, n) = node[Source(n)].sent
  BY <1>1, <1>2, <1>4, <1>5
<1> QED
  BY <1>6 DEF Delivered

LEMMA InductiveDelivered == Spec => []Delivered(node)
<1>1. Init => Delivered(node)
  BY InitiallyDelivered
<1>2. IInv(node) /\ Delivered(node) /\ [Next]_node => Delivered(node)'
  <2> SUFFICES ASSUME IInv(node), Delivered(node), [Next]_node
               PROVE  Delivered(node')
    OBVIOUS
  <2>1. CASE UNCHANGED node
    BY <2>1
  <2>2. ASSUME NEW n \in Node, Idle, NEW units \in Units(n), AppSend(n, units)
        PROVE  Delivered(node')
    BY <2>2, AppSendAlone, AloneDelivers
  <2>3. ASSUME NEW n \in Node, Idle, BeginCompress2(n)
        PROVE  Delivered(node')
    BY <2>3, BeginCompress2Alone, AloneDelivers
  <2>4. ASSUME NEW n \in Node, Idle, EndCompression(n)
        PROVE  Delivered(node')
    BY <2>4, EndCompressionAlone, AloneDelivers
  <2>5. ASSUME NEW n \in Node, Idle, Recv(n)
        PROVE  Delivered(node')
    BY <2>5, RecvIs, RecvDelivers
  <2>6. ASSUME NEW n \in Node, Process(n)
        PROVE  Delivered(node')
    BY <2>6, ProcessReads, ReadsDelivers
  <2>7. ASSUME NEW n \in Node, InflateCall(n)
        PROVE  Delivered(node')
    BY <2>7, InflateCallAlone, AloneDelivers
  <2>8. ASSUME NEW n \in Node, ProcessInflated(n)
        PROVE  Delivered(node')
    BY <2>8, ProcessInflatedReads, ReadsDelivers
  <2>9. ASSUME NEW n \in Node, InflateEnds(n)
        PROVE  Delivered(node')
    BY <2>9, InflateEndsAlone, AloneDelivers
  <2> QED
    BY <2>1, <2>2, <2>3, <2>4, <2>5, <2>6, <2>7, <2>8, <2>9 DEF Next
<1> QED
  BY <1>1, <1>2, Inductive, PTL DEF Spec

\* What an end sends reaches the other end whole, once and in order, plain,
\* compressed or recompressed by the proxy between them, however the stream is
\* cut into chunks, whatever the sizes of zlib's buffers and whenever and as
\* often as compression starts and ends, while no tracker on the way has given
\* an ERROR event and nothing was lost in the two ways there are.
THEOREM NothingLostHolds == Spec => []NothingLost
<1>1. IInv(node) /\ Delivered(node) => NothingLost
  <2> SUFFICES ASSUME IInv(node), Delivered(node),
                      NEW n \in Node, IsEnd(n), IsEnd(Source(n)), Sound(Path(n))
               PROVE  node[n].got \o InTransit(n) = node[Source(n)].sent
    BY DEF NothingLost
  <2>1. node[n].got \o Flow(node, n) = node[Source(n)].sent
    <3>1. \A m \in Path(n) : SoundOne(node[m])
      BY DEF Sound, SoundOne
    <3> QED
      BY <3>1 DEF Delivered
  <2>2. ASSUME NEW m \in Node
        PROVE  Coming(m) \in Seq(Unit) /\ Under(node, m) = Content(Coming(m))
    <3> DEFINE held == node[m].batch \o node[m].input
               w == node[Peer[m]].wire
               q == node[Peer[m]].pending
    <3>1. held \in Seq(Unit) /\ held \o (w \o q) \in Seq(Unit)
          /\ Under(node, m) = Content(held \o (w \o q))
      BY UnderIs DEF IInv, Out
    <3>2. w \in Seq(Unit) /\ q \in Seq(Unit)
      BY NodeFacts, TrackerFacts, Mccp2Assumption
    <3>3. Coming(m) = (held \o w) \o q
      BY DEF Coming
    <3> HIDE DEF held, w, q
    <3>4. (held \o w) \o q = held \o (w \o q)
      BY <3>1, <3>2, Regroup DEF Assoc
    <3> QED
      BY <3>1, <3>3, <3>4
  <2>3. InTransit(n) = Flow(node, n)
    <3> DEFINE q == Twin[Peer[n]]
    <3>1. CASE q = "none"
      BY <2>2, <3>1 DEF InTransit, Flow
    <3>2. CASE q # "none"
      <4>1. q \in Node
        BY <3>2, PathFacts
      <4>2. InTransit(n) = Content(Coming(n) \o Coming(q)) /\ Flow(node, n) = Under(node, n) \o Under(node, q)
        BY <3>2 DEF InTransit, Flow
      <4>3. Content(Coming(n) \o Coming(q)) = Content(Coming(n)) \o Content(Coming(q))
        BY <2>2, <4>1, ContentConcat
      <4> QED
        BY <2>2, <4>1, <4>2, <4>3
    <3> QED
      BY <3>1, <3>2
  <2> QED
    BY <2>1, <2>3
<1> QED
  BY <1>1, Inductive, InductiveDelivered, PTL

=============================================================================
