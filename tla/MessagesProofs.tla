--------------------------- MODULE MessagesProofs ---------------------------
(***************************************************************************)
(* Proofs about the sending functions and the subnegotiation parsers, for  *)
(* texts, payloads and variables of any number and length.                 *)
(***************************************************************************)
EXTENDS Messages, FiniteSetTheorems, SequenceTheorems, NaturalsInduction, WellFoundedInduction, TLAPS

-----------------------------------------------------------------------------
(* Induction and recursion along a sequence.                               *)

LEMMA SetInduction ==
    ASSUME NEW n \in Nat, NEW T, 0 \in T, \A i \in 1 .. n : i - 1 \in T => i \in T
    PROVE  \A i \in 0 .. n : i \in T
<1> DEFINE S == {i \in 0 .. n : i \notin T}
           R == OpToRel(<, Nat)
<1> SUFFICES ASSUME S # {}
             PROVE  FALSE
  OBVIOUS
<1>1. IsWellFoundedOn(R, Nat)
  BY NatLessThanWellFounded
<1>2. \A x, y \in Nat : <<x, y>> \in R <=> x < y
  BY DEF OpToRel
<1>3. S \subseteq Nat
  OBVIOUS
<1> HIDE DEF R
<1>4. PICK x \in S : \A y \in S : ~(<<y, x>> \in R)
  BY <1>1, <1>3, WFMin
<1>5. x \in 0 .. n /\ x \notin T /\ x # 0
  BY <1>4
<1>6. x \in 1 .. n /\ x - 1 \in 0 .. n /\ x - 1 \notin T /\ x - 1 < x
  BY <1>5
<1>7. x - 1 \in S
  BY <1>6
<1> QED
  BY <1>2, <1>3, <1>4, <1>6, <1>7

-----------------------------------------------------------------------------
(* The first pass of _environ_telnet().                                    *)

CountFrom(f, buf, i) ==
    IF i >= Len(buf) THEN 0
    ELSE IF At(buf, i) \in {VAR, USERVAR} THEN 1 + f[i + 1]
    ELSE IF At(buf, i) = ESC THEN f[i + 2]
    ELSE f[i + 1]

Counts(f, buf) ==
    /\ f \in [1 .. Len(buf) + 1 -> Nat]
    /\ \A i \in 1 .. Len(buf) + 1 : f[i] = CountFrom(f, buf, i)

LEMMA CountExists ==
    ASSUME NEW buf \in Seq(Byte)
    PROVE  \E f : Counts(f, buf)
<1> DEFINE n == Len(buf)
           Run(f, m) == /\ f \in [n + 1 - m .. n + 1 -> Nat]
                        /\ \A i \in n + 1 - m .. n + 1 : f[i] = CountFrom(f, buf, i)
           T == {m \in 0 .. n : \E f : Run(f, m)}
<1>1. n \in Nat
  OBVIOUS
<1>2. 0 \in T
  <2> DEFINE e == [i \in n + 1 .. n + 1 |-> 0]
  <2>1. e \in [n + 1 - 0 .. n + 1 -> Nat]
    BY <1>1
  <2>2. ASSUME NEW i \in n + 1 - 0 .. n + 1
        PROVE  e[i] = CountFrom(e, buf, i)
    BY <1>1 DEF CountFrom
  <2> HIDE DEF e
  <2>3. Run(e, 0)
    BY <2>1, <2>2
  <2> HIDE DEF Run
  <2>4. \E f : Run(f, 0)
    BY <2>3
  <2> QED
    BY <1>1, <2>4
<1>3. ASSUME NEW m \in 1 .. n, m - 1 \in T
      PROVE  m \in T
  <2> HIDE DEF n
  <2>1. PICK g : Run(g, m - 1)
    BY <1>3
  <2> DEFINE k == n + 1 - m
             h == [i \in k .. n + 1 |-> IF i = k THEN CountFrom(g, buf, k) ELSE g[i]]
  <2>2. /\ k \in Nat /\ k + 1 \in k + 1 .. n + 1 /\ k <= n /\ k \in 1 .. n + 1
        /\ n + 1 - (m - 1) = k + 1
        /\ \A i \in k .. n + 1 : i # k => i \in k + 1 .. n + 1
        /\ k < n => k + 2 \in k + 1 .. n + 1
    BY <1>1
  <2> HIDE DEF k
  <2>3. /\ g \in [k + 1 .. n + 1 -> Nat]
        /\ \A i \in k + 1 .. n + 1 : g[i] = CountFrom(g, buf, i)
    BY <2>1, <2>2
  <2>4. CountFrom(g, buf, k) \in Nat
    BY SMTT(60), <2>2, <2>3 DEF CountFrom, n
  <2>5. h \in [k .. n + 1 -> Nat]
    BY <2>2, <2>3, <2>4
  <2>6. \A i \in k + 1 .. n + 1 : h[i] = g[i]
    BY <2>2
  <2>7. ASSUME NEW i \in k .. n + 1
        PROVE  h[i] = CountFrom(h, buf, i)
    <3>1. i < n => i + 1 \in k + 1 .. n + 1 /\ i + 2 \in k + 1 .. n + 1
      BY <1>1, <2>2
    <3>2. i < n => h[i + 1] = g[i + 1] /\ h[i + 2] = g[i + 2]
      BY <2>6, <3>1
    <3>3. i \in Int /\ n \in Int
      BY <1>1, <2>2
    <3> HIDE DEF h
    <3>4. CountFrom(h, buf, i) = CountFrom(g, buf, i)
      BY <3>2, <3>3 DEF CountFrom, n
    <3>5. h[i] = CountFrom(g, buf, i)
      BY <2>2, <2>3, <2>6 DEF h
    <3> QED
      BY <3>4, <3>5
  <2> HIDE DEF h
  <2>8. Run(h, m)
    BY <2>5, <2>7 DEF k
  <2> HIDE DEF Run
  <2>9. \E f : Run(f, m)
    BY <2>8
  <2> QED
    BY <1>1, <2>9
<1> HIDE DEF T, Run
<1>4. \A m \in 0 .. n : m \in T
  BY <1>1, <1>2, <1>3, SetInduction
<1>5. n \in 0 .. n
  BY <1>1
<1>6. PICK f : Run(f, n)
  BY <1>4, <1>5 DEF T
<1>7. Counts(f, buf)
  <2>1. n + 1 - n = 1
    BY <1>1
  <2> QED
    BY <1>6, <2>1 DEF Run, Counts
<1> QED
  BY <1>7

LEMMA VariablesCount ==
    ASSUME NEW buf \in Seq(Byte)
    PROVE  Counts(Variables(buf), buf)
<1> DEFINE R(f) == f = [i \in 1 .. Len(buf) + 1 |->
                          IF i >= Len(buf) THEN 0
                          ELSE IF At(buf, i) \in {VAR, USERVAR} THEN 1 + f[i + 1]
                          ELSE IF At(buf, i) = ESC THEN f[i + 2]
                          ELSE f[i + 1]]
           h == CHOOSE f : R(f)
           n == Len(buf)
<1>1. Variables(buf) = h
  BY DEF Variables
<1>2. PICK g : Counts(g, buf)
  BY CountExists
<1>3. R(g)
  <2>1. g = [i \in 1 .. Len(buf) + 1 |-> CountFrom(g, buf, i)]
    BY <1>2 DEF Counts
  <2> QED
    BY <2>1 DEF CountFrom
<1>4. R(h)
  BY <1>3
<1>5. n \in Nat
  OBVIOUS
<1>6. /\ DOMAIN h = 1 .. n + 1
      /\ \A i \in 1 .. n + 1 : h[i] = CountFrom(h, buf, i)
  BY <1>4 DEF CountFrom
<1> HIDE DEF h, n
\* Two functions that count are the same, from the end on.
<1> DEFINE T == {m \in 0 .. n : \A i \in 1 .. n + 1 : i >= n + 1 - m => h[i] = g[i]}
<1>7. g \in [1 .. n + 1 -> Nat] /\ \A i \in 1 .. n + 1 : g[i] = CountFrom(g, buf, i)
  BY <1>2 DEF Counts, n
<1>8. 0 \in T
  <2>1. n + 1 \in 1 .. n + 1 /\ ~(n + 1 < Len(buf)) /\ \A i \in 1 .. n + 1 : i >= n + 1 - 0 => i = n + 1
    BY <1>5 DEF n
  <2>2. CountFrom(h, buf, n + 1) = 0 /\ CountFrom(g, buf, n + 1) = 0
    BY <1>5 DEF CountFrom, n
  <2> QED
    BY <1>5, <1>6, <1>7, <2>1, <2>2
<1>9. ASSUME NEW m \in 1 .. n, m - 1 \in T
      PROVE  m \in T
  <2>1. ASSUME NEW i \in 1 .. n + 1, i >= n + 1 - m
        PROVE  h[i] = g[i]
    <3>1. i < n => /\ i + 1 \in 1 .. n + 1 /\ i + 1 >= n + 1 - (m - 1)
                   /\ i + 2 \in 1 .. n + 1 /\ i + 2 >= n + 1 - (m - 1)
      BY <1>5, <2>1
    <3>2. i < n => h[i + 1] = g[i + 1] /\ h[i + 2] = g[i + 2]
      BY <1>9, <3>1
    <3>3. CountFrom(h, buf, i) = CountFrom(g, buf, i)
      BY <1>5, <3>2 DEF CountFrom, n
    <3> QED
      BY <1>6, <1>7, <3>3
  <2> QED
    BY <2>1
<1> HIDE DEF T
<1>10. \A m \in 0 .. n : m \in T
  BY <1>5, <1>8, <1>9, SetInduction
<1>11. \A i \in 1 .. n + 1 : h[i] = g[i]
  <2>1. n \in T
    BY <1>5, <1>10
  <2>2. \A i \in 1 .. n + 1 : i >= n + 1 - n
    BY <1>5
  <2> QED
    BY <2>1, <2>2 DEF T
<1>12. h = g
  <2>1. DOMAIN g = 1 .. n + 1 /\ h = [i \in DOMAIN h |-> h[i]] /\ g = [i \in DOMAIN g |-> g[i]]
    BY <1>4, <1>7 DEF h
  <2> QED
    BY <1>6, <1>11, <2>1
<1> QED
  BY <1>1, <1>2, <1>12

\* What is counted depends on the bytes that are still to be read only.
LEMMA VariablesAgree ==
    ASSUME NEW a \in Seq(Byte), NEW b \in Seq(Byte), Len(a) = Len(b),
           NEW k \in Nat, \A i \in 1 .. Len(a) : i > k => a[i] = b[i]
    PROVE  \A i \in 1 .. Len(a) + 1 : i >= k => Variables(a)[i] = Variables(b)[i]
<1> DEFINE n == Len(a)
           h == Variables(a)
           g == Variables(b)
           T == {m \in 0 .. n : \A i \in 1 .. n + 1 : i >= n + 1 - m /\ i >= k => h[i] = g[i]}
<1>1. n \in Nat
  OBVIOUS
<1>2. /\ \A i \in 1 .. n + 1 : h[i] = CountFrom(h, a, i)
      /\ \A i \in 1 .. n + 1 : g[i] = CountFrom(g, b, i)
  BY VariablesCount DEF Counts
<1>3. \A i \in 1 .. n + 1 : i < n /\ i >= k => At(a, i) = At(b, i)
  BY DEF At
<1> HIDE DEF h, g
<1>4. 0 \in T
  <2>1. n + 1 \in 1 .. n + 1 /\ \A i \in 1 .. n + 1 : i >= n + 1 - 0 => i = n + 1
    BY <1>1
  <2>2. CountFrom(h, a, n + 1) = 0 /\ CountFrom(g, b, n + 1) = 0
    BY <1>1 DEF CountFrom, n
  <2>3. h[n + 1] = 0 /\ g[n + 1] = 0
    BY <1>2, <2>1, <2>2
  <2> QED
    BY <1>1, <2>1, <2>3
<1>5. ASSUME NEW m \in 1 .. n, m - 1 \in T
      PROVE  m \in T
  <2>1. ASSUME NEW i \in 1 .. n + 1, i >= n + 1 - m, i >= k
        PROVE  h[i] = g[i]
    <3>1. i < n => /\ i + 1 \in 1 .. n + 1 /\ i + 1 >= n + 1 - (m - 1) /\ i + 1 >= k
                   /\ i + 2 \in 1 .. n + 1 /\ i + 2 >= n + 1 - (m - 1) /\ i + 2 >= k
      BY <1>1, <2>1
    <3>2. i < n => h[i + 1] = g[i + 1] /\ h[i + 2] = g[i + 2]
      BY <1>5, <3>1
    <3>3. i < n => At(a, i) = At(b, i)
      BY <1>3, <2>1
    <3>4. CountFrom(h, a, i) = CountFrom(g, b, i)
      BY <1>1, <3>2, <3>3 DEF CountFrom, n
    <3> QED
      BY <1>2, <3>4
  <2> QED
    BY <2>1
<1> HIDE DEF T, n
<1>6. \A m \in 0 .. n : m \in T
  BY <1>1, <1>4, <1>5, SetInduction
<1>7. n \in T /\ \A i \in 1 .. n + 1 : i >= n + 1 - n
  BY <1>1, <1>6
<1> QED
  BY <1>7 DEF T, n, h, g

-----------------------------------------------------------------------------
(* What holds in the loops of the parsers.                                 *)

Entry == [type : Byte, var : Nat \cup {Null}, value : Nat \cup {Null, EmptyLiteral}]

\* The bytes that are counted again, from position i on.
From(buf, i, b) == {k \in DOMAIN buf : k > i /\ buf[k] = b}

\* Types, and pointers that are inside the payload.
Bounded ==
    /\ pc \in {"idle", "environ", "mssp", "zmp", "ttype"} \cup Looping
    /\ c \in Nat /\ out \in Nat /\ last \in Nat /\ index \in Nat
    /\ buffer \in Seq(Byte)
    /\ values \in Seq(Entry)
    /\ \A k \in DOMAIN values : values[k].var <= size /\ values[k].value <= size
    /\ var \in Nat \cup {Null} /\ var <= size
    /\ index <= Len(values)
    /\ next_type = "beyond" => pc \in {"parts", "idle"}

\* The loop of _environ_telnet() is at the start of a variable as often as the
\* first pass counted one, and never at an ESC that is the last byte.
EnvironLoop ==
    /\ c \in 1 .. size /\ out < c
    /\ c < size => At(buffer, size - 1) # ESC
    /\ IF pc = "entry"
         THEN /\ c < size => At(buffer, c) \in {VAR, USERVAR}
              /\ Len(values) = index + Variables(buffer)[c]
         ELSE /\ out + 1 < c /\ last <= out
              /\ Len(values) = index + 1 + Variables(buffer)[c]

MsspLoop ==
    /\ c \in 1 .. size /\ out < c /\ last <= out
    /\ next_type \in {MSSP_VAR, MSSP_VAL}
    /\ Len(values) = index + Cardinality(From(buffer, c, MSSP_VAL))
                           + (IF next_type = MSSP_VAL THEN 1 ELSE 0)

ZmpLoop ==
    /\ c <= size
    /\ c < size => At(buffer, size - 1) = "NUL"
    /\ Len(values) = index + Cardinality(From(buffer, c, "NUL"))

ParserInv ==
    /\ Bounded
    /\ pc \in {"entry", "name", "value"} => EnvironLoop
    /\ pc = "part" => MsspLoop
    /\ pc = "parts" => c <= size + 1 /\ out <= size /\ out < c
    /\ pc = "argument" => ZmpLoop

LEMMA ParserInvBounds ==
    ASSUME ParserInv, "beyond" \notin Byte
    PROVE  InBounds /\ ParserTypeOK
<1>1. \A k \in DOMAIN values : values[k] \in Entry
  BY ElementOfSeq DEF ParserInv, Bounded
<1>2. /\ pc \in {"entry", "name", "value", "part", "parts"} => out < c
      /\ pc \in {"entry", "name", "value", "argument"} => c <= size
      /\ pc = "part" => c <= size
      /\ pc = "parts" => c <= size + 1 /\ out <= size
  BY DEF ParserInv, Bounded, EnvironLoop, MsspLoop, ZmpLoop, size
<1>3. pc \in {"name", "value"} => index < Len(values)
  <2>1. ASSUME EnvironLoop, pc \in {"name", "value"}
        PROVE  index < Len(values)
    <3>1. buffer \in Seq(Byte) /\ c \in 1 .. Len(buffer) + 1
      BY <2>1 DEF ParserInv, Bounded, EnvironLoop, size
    <3>2. Variables(buffer)[c] \in Nat
      BY <3>1, VariablesCount DEF Counts
    <3> QED
      BY <2>1, <3>2 DEF ParserInv, Bounded, EnvironLoop
  <2> QED
    BY <2>1 DEF ParserInv
<1>4. \A i \in DOMAIN buffer : buffer[i] # "beyond"
  BY ElementOfSeq DEF ParserInv, Bounded
<1>5. \A k \in DOMAIN values : values[k].type # "beyond"
  BY <1>1 DEF Entry
<1>6. ParserTypeOK
  BY <1>1 DEF ParserInv, Bounded, ParserTypeOK, Entry
<1> QED
  BY <1>2, <1>3, <1>4, <1>5, <1>6 DEF ParserInv, Bounded, InBounds

LEMMA AtFacts ==
    ASSUME NEW buf \in Seq(Byte), NEW i \in Nat
    PROVE  /\ i < Len(buf) => At(buf, i) = buf[i + 1] /\ At(buf, i) \in Byte
           /\ i >= Len(buf) => At(buf, i) = "beyond"
<1>1. Len(buf) \in Nat /\ (i < Len(buf) => i + 1 \in 1 .. Len(buf) /\ i \in 0 .. Len(buf) - 1)
  OBVIOUS
<1>2. i >= Len(buf) => i \notin 0 .. Len(buf) - 1
  BY <1>1
<1> QED
  BY <1>1, <1>2, ElementOfSeq DEF At

LEMMA WriteFacts ==
    ASSUME buffer \in Seq(Byte), NEW i \in Nat, i < size, NEW b \in Byte
    PROVE  /\ Write(i, b) \in Seq(Byte) /\ Len(Write(i, b)) = Len(buffer)
           /\ Write(i, b)[i + 1] = b
           /\ \A k \in 1 .. Len(buffer) : k # i + 1 => Write(i, b)[k] = buffer[k]
           /\ \A k \in Nat : k # i => At(Write(i, b), k) = At(buffer, k)
           /\ At(Write(i, b), i) = b
<1>1. i + 1 \in 1 .. Len(buffer) /\ Len(buffer) \in Nat
  BY DEF size
<1>2. /\ Write(i, b) \in Seq(Byte) /\ Len(Write(i, b)) = Len(buffer)
      /\ Write(i, b)[i + 1] = b
      /\ \A k \in 1 .. Len(buffer) : k # i + 1 => Write(i, b)[k] = buffer[k]
  BY <1>1, ExceptSeq DEF Write
<1>3. ASSUME NEW k \in Nat, k # i
      PROVE  At(Write(i, b), k) = At(buffer, k)
  <2>1. k < Len(buffer) => k + 1 \in 1 .. Len(buffer) /\ k + 1 # i + 1
    BY <1>1, <1>3
  <2> QED
    BY <1>1, <1>2, <2>1, AtFacts
<1>4. At(Write(i, b), i) = b
  BY <1>1, <1>2, AtFacts
<1> QED
  BY <1>2, <1>3, <1>4

LEMMA FromFacts ==
    ASSUME NEW buf \in Seq(Byte), NEW i \in Nat, NEW b
    PROVE  /\ IsFiniteSet(From(buf, i, b)) /\ Cardinality(From(buf, i, b)) \in Nat
           /\ i >= Len(buf) => Cardinality(From(buf, i, b)) = 0
           /\ i < Len(buf) => Cardinality(From(buf, i, b)) =
                 IF At(buf, i) = b THEN Cardinality(From(buf, i + 1, b)) + 1
                                   ELSE Cardinality(From(buf, i + 1, b))
<1>1. DOMAIN buf = 1 .. Len(buf) /\ Len(buf) \in Nat /\ IsFiniteSet(1 .. Len(buf))
  BY FS_Interval
<1>2. \A j \in Nat : IsFiniteSet(From(buf, j, b)) /\ Cardinality(From(buf, j, b)) \in Nat
  <2> TAKE j \in Nat
  <2>1. From(buf, j, b) \subseteq 1 .. Len(buf)
    BY <1>1 DEF From
  <2> QED
    BY <1>1, <2>1, FS_Subset, FS_CardinalityType
<1>3. ASSUME i >= Len(buf)
      PROVE  Cardinality(From(buf, i, b)) = 0
  <2>1. From(buf, i, b) = {}
    BY <1>1, <1>3 DEF From
  <2> QED
    BY <2>1, FS_EmptySet
<1>4. ASSUME i < Len(buf), At(buf, i) = b
      PROVE  Cardinality(From(buf, i, b)) = Cardinality(From(buf, i + 1, b)) + 1
  <2>1. i + 1 \in DOMAIN buf /\ buf[i + 1] = b
    BY <1>1, <1>4, AtFacts
  <2>2. From(buf, i, b) = From(buf, i + 1, b) \cup {i + 1}
    BY <1>1, <2>1 DEF From
  <2>3. i + 1 \notin From(buf, i + 1, b)
    BY <1>1 DEF From
  <2> DEFINE S == From(buf, i + 1, b)
  <2>4. IsFiniteSet(S) /\ i + 1 \notin S
    BY <1>2, <2>3
  <2> HIDE DEF S
  <2>5. Cardinality(S \cup {i + 1}) = Cardinality(S) + 1
    BY <2>4, FS_AddElement
  <2> QED
    BY <2>2, <2>5 DEF S
<1>5. ASSUME i < Len(buf), At(buf, i) # b
      PROVE  From(buf, i, b) = From(buf, i + 1, b)
  <2>1. i + 1 \in DOMAIN buf /\ buf[i + 1] # b
    BY <1>1, <1>5, AtFacts
  <2> QED
    BY <1>1, <2>1 DEF From
<1> QED
  BY <1>2, <1>3, <1>4, <1>5

\* A write below i leaves what is counted from i on.
LEMMA FromAgree ==
    ASSUME NEW a \in Seq(Byte), NEW b \in Seq(Byte), Len(a) = Len(b), NEW e,
           NEW k \in Nat, \A i \in 1 .. Len(a) : i > k => a[i] = b[i]
    PROVE  From(a, k, e) = From(b, k, e)
<1>1. DOMAIN a = 1 .. Len(a) /\ DOMAIN b = 1 .. Len(a)
  OBVIOUS
<1> QED
  BY <1>1 DEF From

LEMMA Coded ==
    /\ {"IAC", "SB", "SE", "CR", "LF", "NUL", "SOH", "NEW_ENVIRON", "TTYPE", "ZMP"} \subseteq Byte
    /\ "none" \notin Byte /\ "beyond" \notin Byte
    /\ {IS, SEND, VAR, VALUE, MSSP_VAR} \subseteq Byte
BY MessagesAssumption DEF Added, IS, SEND, VAR, VALUE, MSSP_VAR

LEMMA NullFacts ==
    /\ Null = 0 - 1 /\ EmptyLiteral = 0 - 2
    /\ NullEntry \in Entry
    /\ NullEntry.var = Null /\ NullEntry.value = Null
BY Coded DEF Null, EmptyLiteral, NullEntry, Entry

\* A fresh array.
LEMMA Allocated ==
    ASSUME NEW n \in Nat
    PROVE  /\ [k \in 1 .. n |-> NullEntry] \in Seq(Entry)
           /\ Len([k \in 1 .. n |-> NullEntry]) = n
           /\ \A k \in DOMAIN [j \in 1 .. n |-> NullEntry] : [j \in 1 .. n |-> NullEntry][k] = NullEntry
<1> DEFINE s == [k \in 1 .. n |-> NullEntry]
<1>1. \A k \in 1 .. n : NullEntry \in Entry
  BY NullFacts
<1>2. s \in [1 .. n -> Entry] /\ DOMAIN s = 1 .. n
  BY <1>1
<1>3. s \in Seq(Entry)
  BY <1>2, IsASeq
<1> QED
  BY <1>2, <1>3

\* An entry with a string in it.
LEMMA EntrySet ==
    ASSUME NEW v \in Seq(Entry), NEW i \in Nat, i < Len(v), NEW e \in Entry
    PROVE  /\ [v EXCEPT ![i + 1] = e] \in Seq(Entry)
           /\ Len([v EXCEPT ![i + 1] = e]) = Len(v)
           /\ [v EXCEPT ![i + 1] = e][i + 1] = e
           /\ \A k \in 1 .. Len(v) : k # i + 1 => [v EXCEPT ![i + 1] = e][k] = v[k]
<1>1. i + 1 \in 1 .. Len(v)
  OBVIOUS
<1> QED
  BY <1>1, ExceptSeq

-----------------------------------------------------------------------------
(* The steps of the parsers keep it.                                       *)

LEMMA ParserInvStutters ==
    ASSUME ParserInv, UNCHANGED parser
    PROVE  ParserInv'
<1>1. /\ pc' = pc /\ telopt' = telopt /\ buffer' = buffer /\ c' = c /\ out' = out
      /\ last' = last /\ values' = values /\ index' = index /\ var' = var
      /\ next_type' = next_type /\ event' = event
  BY DEF parser
<1> QED
  BY <1>1 DEF ParserInv, Bounded, EnvironLoop, MsspLoop, ZmpLoop, size

LEMMA BeginInv ==
    ASSUME NEW o, NEW s \in Seq(Byte), Begin(o, s)
    PROVE  ParserInv'
<1>1. Null \in Int /\ ~(0 < Null) /\ Null <= 0 /\ Len(s) \in Nat
  BY NullFacts
<1>2. Bounded'
  BY <1>1, Coded DEF Begin, Bounded, size, Looping
<1>3. pc' \notin Looping
  BY DEF Begin, Looping
<1> QED
  BY <1>2, <1>3 DEF ParserInv, Looping

\* A parser that returns leaves nothing to be kept but what holds of all of them.
LEMMA Returns ==
    ASSUME ParserInv, pc' = "idle", NothingRead
    PROVE  ParserInv'
<1>1. buffer' = buffer /\ c' = c /\ out' = out /\ last' = last /\ values' = values
      /\ index' = index /\ var' = var /\ next_type' = next_type
  BY DEF NothingRead
<1> QED
  BY <1>1 DEF ParserInv, Bounded, size

LEMMA EnvironStartInv ==
    ASSUME ParserInv, EnvironStart
    PROVE  ParserInv'
<1>1. ASSUME NothingRead, pc' = "idle"
      PROVE  ParserInv'
  BY <1>1, Returns
<1>2. ASSUME EnvironRefusal.kind = "parse", Allocate(Variables(buffer)[1], NullEntry), pc' = "entry",
             out' = 0, c' = 1, next_type' = At(buffer, 0), UNCHANGED <<buffer, last, var, event>>
      PROVE  ParserInv'
  <2>1. buffer \in Seq(Byte) /\ size \in Nat /\ size = Len(buffer)
    BY DEF ParserInv, Bounded, size
  <2>2. /\ size # 0 /\ size # 1
        /\ At(buffer, 1) \in {VAR, USERVAR} /\ At(buffer, size - 1) # ESC
    BY <1>2 DEF EnvironRefusal, NoEvent, Warning
  <2>3. 1 \in 1 .. size /\ 1 \in 1 .. Len(buffer) + 1 /\ size > 1
    BY <2>1, <2>2
  <2>4. Variables(buffer)[1] \in Nat
    BY <2>1, <2>3, VariablesCount DEF Counts
  <2>5. /\ values' \in Seq(Entry) /\ Len(values') = Variables(buffer)[1]
        /\ \A k \in DOMAIN values' : values'[k] = NullEntry
        /\ index' = 0
    BY <1>2, <2>4, Allocated DEF Allocate
  <2>6. \A k \in DOMAIN values' : values'[k].var <= size /\ values'[k].value <= size
    BY <2>1, <2>5, NullFacts
  <2>7. At(buffer, 0) # "beyond"
    BY <2>1, <2>3, AtFacts, Coded
  <2>8. buffer' = buffer /\ var' = var /\ last' = last
    BY <1>2
  <2>9. Bounded'
    BY <1>2, <2>1, <2>5, <2>6, <2>7, <2>8 DEF ParserInv, Bounded, size, Looping
  <2>10. EnvironLoop'
    <3>1. /\ size' = size /\ At(buffer, c)' = At(buffer, 1) /\ At(buffer, size - 1)' = At(buffer, size - 1)
          /\ (Variables(buffer)[c])' = Variables(buffer)[1]
      BY <1>2, <2>8 DEF size
    <3> QED
      BY <1>2, <2>2, <2>3, <2>4, <2>5, <3>1 DEF EnvironLoop
  <2> QED
    BY <1>2, <2>9, <2>10 DEF ParserInv
<1> QED
  BY <1>1, <1>2 DEF EnvironStart, Give

LEMMA EnvironEntryInv ==
    ASSUME ParserInv, EnvironEntry
    PROVE  ParserInv'
<1>1. /\ Bounded /\ EnvironLoop /\ pc = "entry"
      /\ buffer \in Seq(Byte) /\ size = Len(buffer) /\ size \in Nat /\ c \in 1 .. size
      /\ c \in Nat /\ index \in Nat /\ Len(values) \in Nat
  BY DEF EnvironEntry, ParserInv, Bounded, EnvironLoop, size
<1>2. Variables(buffer)[c] = CountFrom(Variables(buffer), buffer, c)
  <2>1. c \in 1 .. Len(buffer) + 1
    BY <1>1
  <2> QED
    BY <1>1, <2>1, VariablesCount DEF Counts
<1>3. CASE index # Len(values)
  <2>1. /\ values' = [values EXCEPT ![index + 1].type = At(buffer, c)]
        /\ c' = c + 1 /\ last' = out /\ pc' = "name"
        /\ buffer' = buffer /\ out' = out /\ index' = index /\ var' = var /\ next_type' = next_type
    BY <1>3 DEF EnvironEntry
  \* Since the count is not used up, there is a variable here.
  <2>2. c < size /\ At(buffer, c) \in {VAR, USERVAR}
    BY <1>1, <1>2, <1>3 DEF EnvironLoop, CountFrom
  <2>3. Variables(buffer)[c] = 1 + Variables(buffer)[c + 1] /\ Variables(buffer)[c + 1] \in Nat
    <3>1. c + 1 \in 1 .. Len(buffer) + 1
      BY <1>1, <2>2
    <3> QED
      BY SMTT(60), <1>1, <1>2, <2>2, <3>1, VariablesCount DEF CountFrom, Counts
  <2>4. At(buffer, c) \in Byte
    BY <1>1, <2>2, AtFacts
  <2>5. index < Len(values) /\ values \in Seq(Entry)
    BY <1>1, <1>3 DEF Bounded
  <2> DEFINE e == [values[index + 1] EXCEPT !.type = At(buffer, c)]
  <2>6. /\ values[index + 1] \in Entry /\ index + 1 \in 1 .. Len(values)
        /\ values[index + 1].var <= size /\ values[index + 1].value <= size
    <3>1. index + 1 \in 1 .. Len(values)
      BY <1>1, <2>5
    <3>2. index + 1 \in DOMAIN values
      BY <2>5, <3>1
    <3> QED
      BY <1>1, <2>5, <3>1, <3>2, ElementOfSeq DEF Bounded
  <2>7. e \in Entry /\ e.var = values[index + 1].var /\ e.value = values[index + 1].value
    BY <2>4, <2>6 DEF Entry
  <2>8. values' = [values EXCEPT ![index + 1] = e]
    BY <2>1
  <2> HIDE DEF e
  <2>9. /\ values' \in Seq(Entry) /\ Len(values') = Len(values)
        /\ values'[index + 1] = e
        /\ \A k \in 1 .. Len(values) : k # index + 1 => values'[k] = values[k]
    BY <1>1, <2>5, <2>7, <2>8, EntrySet
  <2>10. \A k \in DOMAIN values' : values'[k].var <= size /\ values'[k].value <= size
    <3> TAKE k \in DOMAIN values'
    <3>1. k \in 1 .. Len(values) /\ k \in DOMAIN values
      BY <2>5, <2>9
    <3> QED
      BY <1>1, <2>6, <2>7, <2>9, <3>1 DEF Bounded
  <2>11. Bounded'
    <3>1. out \in Nat
      BY <1>1 DEF Bounded
    <3> QED
      BY <1>1, <2>1, <2>9, <2>10, <3>1 DEF Bounded, size, Looping
  <2>12. EnvironLoop'
    <3>1. /\ size' = size /\ At(buffer, size - 1)' = At(buffer, size - 1)
          /\ (Variables(buffer)[c])' = Variables(buffer)[c + 1]
      BY <2>1 DEF size
    <3>2. out \in Nat
      BY <1>1 DEF Bounded
    <3> QED
      BY SMTT(60), <1>1, <2>1, <2>2, <2>3, <2>9, <3>1, <3>2 DEF EnvironLoop
  <2> QED
    BY <2>1, <2>11, <2>12 DEF ParserInv
<1>4. CASE index = Len(values)
  BY <1>1, <1>4 DEF EnvironEntry, Give, ParserInv, Bounded, size
<1> QED
  BY <1>3, <1>4

LEMMA EnvironCopyInv ==
    ASSUME ParserInv, EnvironCopy
    PROVE  ParserInv'
<1>1. /\ Bounded /\ EnvironLoop /\ pc \in {"name", "value"}
      /\ buffer \in Seq(Byte) /\ size = Len(buffer) /\ size \in Nat /\ c \in 1 .. size
      /\ c \in Nat /\ out \in Nat /\ last \in Nat /\ index \in Nat /\ Len(values) \in Nat
      /\ out + 1 < c /\ last <= out
      /\ Len(values) = index + 1 + Variables(buffer)[c]
      /\ c < size => At(buffer, size - 1) # ESC
  BY DEF EnvironCopy, ParserInv, Bounded, EnvironLoop, size
<1>2. At(buffer, c) \notin {"beyond", VAR, USERVAR}
  BY DEF EnvironCopy
<1>3. c < size
  BY <1>1, <1>2, AtFacts
<1> DEFINE from == IF At(buffer, c) = ESC THEN c + 1 ELSE c
<1>4. /\ buffer' = Write(out, At(buffer, from)) /\ out' = out + 1 /\ c' = from + 1
      /\ pc' = pc /\ last' = last /\ values' = values /\ index' = index /\ var' = var
      /\ next_type' = next_type
  BY DEF EnvironCopy, CopyUnescaped
<1>5. from \in Nat /\ from < size /\ from >= c
  BY <1>1, <1>3
<1>6. /\ Variables(buffer)[c] = Variables(buffer)[from + 1]
      /\ from + 1 \in 1 .. Len(buffer) + 1
      /\ Variables(buffer)[from + 1] \in Nat
  <2>1. c \in 1 .. Len(buffer) + 1 /\ from + 1 \in 1 .. Len(buffer) + 1
    BY <1>1, <1>5
  <2>2. Variables(buffer)[c] = CountFrom(Variables(buffer), buffer, c) /\ Variables(buffer)[from + 1] \in Nat
    BY <1>1, <2>1, VariablesCount DEF Counts
  <2>3. c + 1 + 1 = c + 2
    BY <1>1
  <2> QED
    BY <1>1, <1>2, <1>3, <2>1, <2>2, <2>3 DEF CountFrom
<1> HIDE DEF from
<1>7. At(buffer, from) \in Byte
  BY <1>1, <1>5, AtFacts
<1>8. /\ buffer' \in Seq(Byte) /\ Len(buffer') = Len(buffer)
      /\ \A k \in 1 .. Len(buffer) : k # out + 1 => buffer'[k] = buffer[k]
      /\ \A k \in Nat : k # out => At(buffer', k) = At(buffer, k)
  <2>1. out < size
    BY <1>1
  <2> QED
    BY SMTT(60), <1>1, <1>4, <1>7, <2>1, WriteFacts
<1>9. Variables(buffer')[from + 1] = Variables(buffer)[from + 1]
  <2>1. \A i \in 1 .. Len(buffer) : i > from + 1 => buffer[i] = buffer'[i]
    BY <1>1, <1>5, <1>8
  <2>2. from + 1 \in Nat /\ from + 1 >= from + 1
    BY <1>5
  <2> QED
    BY <1>1, <1>6, <1>8, <2>1, <2>2, VariablesAgree
<1>10. Bounded'
  BY <1>1, <1>4, <1>5, <1>8 DEF Bounded, size
<1>11. EnvironLoop'
  <2>1. size' = size /\ (Variables(buffer)[c])' = Variables(buffer')[from + 1]
    BY <1>4, <1>8 DEF size
  <2>2. from + 1 < size => At(buffer', size - 1) = At(buffer, size - 1)
    <3>1. size - 1 \in Nat /\ size - 1 # out
      BY <1>1, <1>5
    <3> QED
      BY <1>8, <3>1
  <2>3. At(buffer, size - 1)' = At(buffer', size - 1)
    BY <2>1
  <2> QED
    BY <1>1, <1>4, <1>5, <1>6, <1>9, <2>1, <2>2, <2>3 DEF EnvironLoop
<1> QED
  BY <1>1, <1>4, <1>10, <1>11 DEF ParserInv

\* The string that ends becomes the name or the value of the entry.
LEMMA EnvironEnds ==
    ASSUME ParserInv, pc \in {"name", "value"}, At(buffer, c) \in {"beyond", VAR, VALUE, USERVAR}
    PROVE  /\ Write(out, "NUL") \in Seq(Byte) /\ Len(Write(out, "NUL")) = Len(buffer)
           /\ \A k \in Nat : k # out => At(Write(out, "NUL"), k) = At(buffer, k)
           /\ \A i \in 1 .. Len(buffer) + 1 : i > out =>
                 Variables(Write(out, "NUL"))[i] = Variables(buffer)[i]
           /\ index < Len(values) /\ last <= size
           /\ c < size => At(buffer, c) # "beyond"
           /\ c < size /\ At(buffer, c) = VALUE =>
                 c + 1 \in 1 .. size /\ Variables(buffer)[c + 1] = Variables(buffer)[c]
           /\ Variables(buffer)[c] \in Nat
<1>1. /\ Bounded /\ EnvironLoop
      /\ buffer \in Seq(Byte) /\ size = Len(buffer) /\ size \in Nat /\ c \in 1 .. size
      /\ c \in Nat /\ out \in Nat /\ last \in Nat /\ index \in Nat /\ Len(values) \in Nat
      /\ out + 1 < c /\ last <= out
      /\ Len(values) = index + 1 + Variables(buffer)[c]
  BY DEF ParserInv, Bounded, EnvironLoop, size
<1>2. Variables(buffer)[c] = CountFrom(Variables(buffer), buffer, c) /\ Variables(buffer)[c] \in Nat
  <2>1. c \in 1 .. Len(buffer) + 1
    BY <1>1
  <2> QED
    BY <1>1, <2>1, VariablesCount DEF Counts
<1>3. out < size /\ "NUL" \in Byte
  BY <1>1, Coded
<1>4. /\ Write(out, "NUL") \in Seq(Byte) /\ Len(Write(out, "NUL")) = Len(buffer)
      /\ \A k \in 1 .. Len(buffer) : k # out + 1 => Write(out, "NUL")[k] = buffer[k]
      /\ \A k \in Nat : k # out => At(Write(out, "NUL"), k) = At(buffer, k)
  BY <1>1, <1>3, WriteFacts
<1>5. ASSUME NEW i \in 1 .. Len(buffer) + 1, i > out
      PROVE  Variables(Write(out, "NUL"))[i] = Variables(buffer)[i]
  <2>1. out + 1 \in Nat /\ \A k \in 1 .. Len(buffer) : k > out + 1 => buffer[k] = Write(out, "NUL")[k]
    BY <1>1, <1>4
  <2>2. i >= out + 1
    BY <1>1, <1>5
  <2> QED
    BY <1>1, <1>4, <2>1, <2>2, VariablesAgree
<1>6. index < Len(values) /\ last <= size
  BY <1>1, <1>2
<1>7. ASSUME c < size, At(buffer, c) = VALUE
      PROVE  c + 1 \in 1 .. size /\ Variables(buffer)[c + 1] = Variables(buffer)[c]
  <2>1. VALUE \notin {VAR, USERVAR, ESC}
    BY DEF VALUE, VAR, USERVAR, ESC
  <2> QED
    BY <1>1, <1>2, <1>7, <2>1 DEF CountFrom
<1>8. c < size => At(buffer, c) # "beyond"
  BY <1>1, AtFacts, Coded
<1> QED
  BY <1>2, <1>4, <1>5, <1>6, <1>7, <1>8

\* Pointers set in one entry.
LEMMA PointersSet ==
    ASSUME values \in Seq(Entry), index \in Nat, index < Len(values), size \in Nat,
           \A k \in DOMAIN values : values[k].var <= size /\ values[k].value <= size,
           NEW e \in Entry, e.var <= size, e.value <= size,
           values' = [values EXCEPT ![index + 1] = e]
    PROVE  /\ values' \in Seq(Entry) /\ Len(values') = Len(values)
           /\ \A k \in DOMAIN values' : values'[k].var <= size /\ values'[k].value <= size
<1>1. /\ values' \in Seq(Entry) /\ Len(values') = Len(values)
      /\ values'[index + 1] = e
      /\ \A k \in 1 .. Len(values) : k # index + 1 => values'[k] = values[k]
  BY EntrySet
<1>2. DOMAIN values' = 1 .. Len(values) /\ DOMAIN values = 1 .. Len(values)
  BY <1>1
<1> QED
  BY <1>1, <1>2

WithStrings(v, i, p, s) == [v EXCEPT ![i + 1].var = p, ![i + 1].value = s]

WithValue(v, i, s) == [v EXCEPT ![i + 1].value = s]

LEMMA StringsSet ==
    ASSUME NEW v \in Seq(Entry), NEW i \in Nat, i < Len(v),
           NEW p \in Nat \cup {Null}, NEW s \in Nat \cup {Null, EmptyLiteral}
    PROVE  \E e \in Entry :
              /\ e.var = p /\ e.value = s /\ e.type = v[i + 1].type
              /\ WithStrings(v, i, p, s) = [v EXCEPT ![i + 1] = e]
<1>1. v[i + 1] \in Entry /\ i + 1 \in DOMAIN v
  BY ElementOfSeq
<1> DEFINE e == [v[i + 1] EXCEPT !.var = p, !.value = s]
<1>2. e \in Entry /\ e.var = p /\ e.value = s /\ e.type = v[i + 1].type
  BY <1>1 DEF Entry
<1>3. WithStrings(v, i, p, s) = [v EXCEPT ![i + 1] = e]
  BY <1>1 DEF WithStrings
<1> HIDE DEF e
<1> QED
  BY <1>2, <1>3

LEMMA ValueSet ==
    ASSUME NEW v \in Seq(Entry), NEW i \in Nat, i < Len(v),
           NEW s \in Nat \cup {Null, EmptyLiteral}
    PROVE  \E e \in Entry :
              /\ e.var = v[i + 1].var /\ e.value = s /\ e.type = v[i + 1].type
              /\ WithValue(v, i, s) = [v EXCEPT ![i + 1] = e]
<1>1. v[i + 1] \in Entry /\ i + 1 \in DOMAIN v
  BY ElementOfSeq
<1> DEFINE e == [v[i + 1] EXCEPT !.value = s]
<1>2. e \in Entry /\ e.var = v[i + 1].var /\ e.value = s /\ e.type = v[i + 1].type
  BY <1>1 DEF Entry
<1>3. WithValue(v, i, s) = [v EXCEPT ![i + 1] = e]
  BY <1>1 DEF WithValue
<1> HIDE DEF e
<1> QED
  BY <1>2, <1>3

LEMMA EnvironNameInv ==
    ASSUME ParserInv, EnvironName
    PROVE  ParserInv'
<1>1. /\ Bounded /\ EnvironLoop /\ pc = "name" /\ At(buffer, c) \in {"beyond", VAR, VALUE, USERVAR}
      /\ buffer \in Seq(Byte) /\ size = Len(buffer) /\ size \in Nat /\ c \in 1 .. size
      /\ c \in Nat /\ out \in Nat /\ last \in Nat /\ index \in Nat /\ Len(values) \in Nat
      /\ out + 1 < c /\ last <= out
      /\ Len(values) = index + 1 + Variables(buffer)[c]
      /\ c < size => At(buffer, size - 1) # ESC
      /\ values \in Seq(Entry)
      /\ \A k \in DOMAIN values : values[k].var <= size /\ values[k].value <= size
  BY DEF EnvironName, ParserInv, Bounded, EnvironLoop, size
<1>2. /\ Write(out, "NUL") \in Seq(Byte) /\ Len(Write(out, "NUL")) = Len(buffer)
      /\ \A k \in Nat : k # out => At(Write(out, "NUL"), k) = At(buffer, k)
      /\ \A i \in 1 .. Len(buffer) + 1 : i > out =>
            Variables(Write(out, "NUL"))[i] = Variables(buffer)[i]
      /\ index < Len(values) /\ last <= size
      /\ c < size => At(buffer, c) # "beyond"
      /\ c < size /\ At(buffer, c) = VALUE =>
            c + 1 \in 1 .. size /\ Variables(buffer)[c + 1] = Variables(buffer)[c]
      /\ Variables(buffer)[c] \in Nat
  BY <1>1, EnvironEnds
<1>3. /\ buffer' = Write(out, "NUL") /\ out' = out + 1
      /\ values' = [values EXCEPT ![index + 1].var = last, ![index + 1].value = EmptyLiteral]
      /\ var' = var /\ next_type' = next_type
      /\ IF At(buffer', c) = VALUE
           THEN pc' = "value" /\ c' = c + 1 /\ last' = out + 1 /\ index' = index
           ELSE pc' = "entry" /\ index' = index + 1 /\ c' = c /\ last' = last
  BY DEF EnvironName
<1>4. /\ values' \in Seq(Entry) /\ Len(values') = Len(values)
      /\ \A k \in DOMAIN values' : values'[k].var <= size /\ values'[k].value <= size
  <2>1. PICK e \in Entry : /\ e.var = last /\ e.value = EmptyLiteral
                           /\ values' = [values EXCEPT ![index + 1] = e]
    <3>1. \E e \in Entry : /\ e.var = last /\ e.value = EmptyLiteral /\ e.type = values[index + 1].type
            /\ WithStrings(values, index, last, EmptyLiteral) = [values EXCEPT ![index + 1] = e]
      <4> DEFINE s == EmptyLiteral
      <4>1. /\ values \in Seq(Entry) /\ index \in Nat /\ index < Len(values)
            /\ last \in Nat \cup {Null} /\ s \in Nat \cup {Null, EmptyLiteral}
        BY <1>1, <1>2
      <4> HIDE DEF s
      <4>2. \E e \in Entry : /\ e.var = last /\ e.value = s /\ e.type = values[index + 1].type
                /\ WithStrings(values, index, last, s) = [values EXCEPT ![index + 1] = e]
        BY SMTT(60), <4>1, StringsSet
      <4> QED
        BY <4>2 DEF s
    <3> QED
      BY <1>3, <3>1 DEF WithStrings, WithValue
  <2>2. e.var <= size /\ e.value <= size
    BY <1>1, <1>2, <2>1, NullFacts
  <2> QED
    BY <1>1, <1>2, <2>1, <2>2, PointersSet
<1>5. /\ size' = size /\ At(buffer', c) = At(buffer, c)
      /\ At(buffer', size - 1) = At(buffer, size - 1)
      /\ Variables(buffer')[c] = Variables(buffer)[c]
  <2>1. c # out /\ size - 1 \in Nat /\ size - 1 # out /\ c > out /\ c \in 1 .. Len(buffer) + 1
    BY <1>1
  <2> QED
    BY <1>1, <1>2, <1>3, <2>1 DEF size
<1>6. CASE At(buffer', c) = VALUE
  <2>1. pc' = "value" /\ c' = c + 1 /\ last' = out + 1 /\ index' = index
    BY <1>3, <1>6
  <2>2. c < size
    <3>1. At(buffer, c) # "beyond"
      BY <1>5, <1>6 DEF VALUE
    <3>2. c >= Len(buffer) => At(buffer, c) = "beyond"
      BY <1>1, AtFacts
    <3> QED
      BY <1>1, <3>1, <3>2
  <2>3. c + 1 \in 1 .. size /\ Variables(buffer)[c + 1] = Variables(buffer)[c]
    BY <1>2, <1>5, <1>6, <2>2
  <2>4. Variables(buffer')[c + 1] = Variables(buffer)[c]
    <3>1. c + 1 > out /\ c + 1 \in 1 .. Len(buffer) + 1
      BY <1>1, <2>3
    <3> QED
      BY <1>2, <1>3, <2>3, <3>1
  <2>5. Bounded'
    BY SMTT(60), <1>1, <1>2, <1>3, <1>4, <1>5, <2>1 DEF Bounded, size, Looping
  <2>6. EnvironLoop'
    <3>1. (Variables(buffer)[c])' = Variables(buffer')[c + 1] /\ At(buffer, size - 1)' = At(buffer', size - 1)
      BY <1>5, <2>1
    <3> QED
      BY <1>1, <1>2, <1>3, <1>4, <1>5, <2>1, <2>2, <2>3, <2>4, <3>1 DEF EnvironLoop
  <2> QED
    BY <2>1, <2>5, <2>6 DEF ParserInv
<1>7. CASE At(buffer', c) # VALUE
  <2>1. pc' = "entry" /\ c' = c /\ last' = last /\ index' = index + 1
    BY <1>3, <1>7
  <2>2. c < size => At(buffer, c) \in {VAR, USERVAR}
    BY <1>1, <1>2, <1>5, <1>7
  <2>3. Bounded'
    BY <1>1, <1>2, <1>3, <1>4, <1>5, <2>1 DEF Bounded, size, Looping
  <2>4. EnvironLoop'
    <3>1. /\ (Variables(buffer)[c])' = Variables(buffer')[c] /\ At(buffer, size - 1)' = At(buffer', size - 1)
          /\ At(buffer, c)' = At(buffer', c)
      BY <1>5, <2>1
    <3> QED
      BY <1>1, <1>2, <1>3, <1>4, <1>5, <2>1, <2>2, <3>1 DEF EnvironLoop
  <2> QED
    BY <2>1, <2>3, <2>4 DEF ParserInv
<1> QED
  BY <1>6, <1>7

LEMMA EnvironValueInv ==
    ASSUME ParserInv, EnvironValue
    PROVE  ParserInv'
<1>1. /\ Bounded /\ EnvironLoop /\ pc = "value" /\ At(buffer, c) \in {"beyond", VAR, USERVAR}
      /\ buffer \in Seq(Byte) /\ size = Len(buffer) /\ size \in Nat /\ c \in 1 .. size
      /\ c \in Nat /\ out \in Nat /\ last \in Nat /\ index \in Nat /\ Len(values) \in Nat
      /\ out + 1 < c /\ last <= out
      /\ Len(values) = index + 1 + Variables(buffer)[c]
      /\ c < size => At(buffer, size - 1) # ESC
      /\ values \in Seq(Entry)
      /\ \A k \in DOMAIN values : values[k].var <= size /\ values[k].value <= size
  BY DEF EnvironValue, ParserInv, Bounded, EnvironLoop, size
<1>2. /\ Write(out, "NUL") \in Seq(Byte) /\ Len(Write(out, "NUL")) = Len(buffer)
      /\ \A k \in Nat : k # out => At(Write(out, "NUL"), k) = At(buffer, k)
      /\ \A i \in 1 .. Len(buffer) + 1 : i > out =>
            Variables(Write(out, "NUL"))[i] = Variables(buffer)[i]
      /\ index < Len(values) /\ last <= size
      /\ c < size => At(buffer, c) # "beyond"
      /\ Variables(buffer)[c] \in Nat
  BY <1>1, EnvironEnds
<1>3. /\ buffer' = Write(out, "NUL") /\ out' = out + 1
      /\ values' = [values EXCEPT ![index + 1].value = last]
      /\ index' = index + 1 /\ pc' = "entry"
      /\ c' = c /\ last' = last /\ var' = var /\ next_type' = next_type
  BY DEF EnvironValue
<1>4. /\ values' \in Seq(Entry) /\ Len(values') = Len(values)
      /\ \A k \in DOMAIN values' : values'[k].var <= size /\ values'[k].value <= size
  <2>1. PICK e \in Entry : /\ e.var = values[index + 1].var /\ e.value = last
                           /\ values' = [values EXCEPT ![index + 1] = e]
    <3>1. \E e \in Entry :
            /\ e.var = values[index + 1].var /\ e.value = last /\ e.type = values[index + 1].type
            /\ WithValue(values, index, last) = [values EXCEPT ![index + 1] = e]
      <4>1. last \in Nat \cup {Null, EmptyLiteral}
        BY <1>1
      <4> QED
        BY SMTT(60), <1>1, <1>2, <4>1, ValueSet
    <3> QED
      BY <1>3, <3>1 DEF WithStrings, WithValue
  <2>2. index + 1 \in DOMAIN values
    BY <1>1, <1>2
  <2>3. e.var <= size /\ e.value <= size
    BY <1>1, <1>2, <2>1, <2>2
  <2> QED
    BY <1>1, <1>2, <2>1, <2>3, PointersSet
<1>5. /\ size' = size /\ At(buffer', c) = At(buffer, c)
      /\ At(buffer', size - 1) = At(buffer, size - 1)
      /\ Variables(buffer')[c] = Variables(buffer)[c]
  <2>1. c # out /\ size - 1 \in Nat /\ size - 1 # out /\ c > out /\ c \in 1 .. Len(buffer) + 1
    BY <1>1
  <2> QED
    BY <1>1, <1>2, <1>3, <2>1 DEF size
<1>6. Bounded'
  BY <1>1, <1>2, <1>3, <1>4, <1>5 DEF Bounded, size, Looping
<1>7. EnvironLoop'
  <2>1. /\ (Variables(buffer)[c])' = Variables(buffer')[c] /\ At(buffer, size - 1)' = At(buffer', size - 1)
        /\ At(buffer, c)' = At(buffer', c)
    BY <1>3, <1>5
  <2> QED
    BY <1>1, <1>2, <1>3, <1>4, <1>5, <2>1 DEF EnvironLoop
<1> QED
  BY <1>3, <1>6, <1>7 DEF ParserInv

LEMMA MsspStartInv ==
    ASSUME ParserInv, MsspStart
    PROVE  ParserInv'
<1>1. ASSUME NothingRead, pc' = "idle"
      PROVE  ParserInv'
  BY <1>1, Returns
<1>2. ASSUME At(buffer, 0) = MSSP_VAR,
             Allocate(Cardinality({i \in DOMAIN buffer : buffer[i] = MSSP_VAL}), NullEntry),
             out' = 0, last' = 0, c' = 1, next_type' = At(buffer, 0),
             pc' = IF size > 1 THEN "part" ELSE "parts",
             UNCHANGED <<buffer, var, event>>
      PROVE  ParserInv'
  <2>1. buffer \in Seq(Byte) /\ size \in Nat /\ size = Len(buffer)
    BY DEF ParserInv, Bounded, size
  <2>2. 0 < size /\ At(buffer, 0) = buffer[1] /\ MSSP_VAR # "beyond" /\ MSSP_VAR # MSSP_VAL
    <3>1. MSSP_VAR # "beyond" /\ MSSP_VAR # MSSP_VAL
      BY DEF MSSP_VAR, MSSP_VAL
    <3>2. 0 \in Nat
      OBVIOUS
    <3> QED
      BY <1>2, <2>1, <3>1, <3>2, AtFacts
  <2> DEFINE m == Cardinality(From(buffer, 1, MSSP_VAL))
  <2>3. {i \in DOMAIN buffer : buffer[i] = MSSP_VAL} = From(buffer, 1, MSSP_VAL)
    <3>1. \A i \in DOMAIN buffer : buffer[i] = MSSP_VAL => i > 1
      BY <1>2, <2>1, <2>2
    <3> QED
      BY <3>1 DEF From
  <2>4. m \in Nat
    <3>1. 1 \in Nat
      OBVIOUS
    <3> QED
      BY <2>1, <3>1, FromFacts
  <2>5. /\ values' \in Seq(Entry) /\ Len(values') = m
        /\ \A k \in DOMAIN values' : values'[k] = NullEntry
        /\ index' = 0
    BY <1>2, <2>3, <2>4, Allocated DEF Allocate
  <2>6. \A k \in DOMAIN values' : values'[k].var <= size /\ values'[k].value <= size
    BY <2>1, <2>5, NullFacts
  <2> HIDE DEF m
  <2>7. Bounded'
    BY <1>2, <2>1, <2>2, <2>4, <2>5, <2>6 DEF ParserInv, Bounded, size, Looping
  <2>8. CASE size > 1
    <3>1. /\ size' = size /\ Cardinality(From(buffer, c, MSSP_VAL))' = m
          /\ pc' = "part"
      BY <1>2, <2>8 DEF size, m
    <3>2. MsspLoop'
      BY <1>2, <2>1, <2>2, <2>4, <2>5, <2>8, <3>1 DEF MsspLoop
    <3> QED
      BY <2>7, <3>1, <3>2 DEF ParserInv
  <2>9. CASE ~(size > 1)
    <3>1. size' = size /\ pc' = "parts"
      BY <1>2, <2>9 DEF size
    <3> QED
      BY <1>2, <2>1, <2>7, <3>1 DEF ParserInv
  <2> QED
    BY <2>8, <2>9
<1> QED
  BY <1>1, <1>2 DEF MsspStart, Give

LEMMA MsspCopyInv ==
    ASSUME ParserInv, MsspCopy
    PROVE  ParserInv'
<1>1. /\ Bounded /\ MsspLoop /\ pc = "part"
      /\ buffer \in Seq(Byte) /\ size = Len(buffer) /\ size \in Nat /\ c \in 1 .. size
      /\ c \in Nat /\ out \in Nat /\ last \in Nat /\ index \in Nat /\ Len(values) \in Nat
      /\ out < c /\ last <= out
      /\ At(buffer, c) \notin {"beyond", MSSP_VAR, MSSP_VAL}
  BY DEF MsspCopy, ParserInv, Bounded, MsspLoop, size
<1>2. c < size /\ At(buffer, c) \in Byte
  BY <1>1, AtFacts
<1>3. /\ buffer' = Write(out, At(buffer, c)) /\ out' = out + 1 /\ c' = c + 1
      /\ pc' = pc /\ last' = last /\ values' = values /\ index' = index /\ var' = var
      /\ next_type' = next_type
  BY DEF MsspCopy
<1>4. /\ buffer' \in Seq(Byte) /\ Len(buffer') = Len(buffer)
      /\ \A k \in 1 .. Len(buffer) : k # out + 1 => buffer'[k] = buffer[k]
  <2> DEFINE b == At(buffer, c)
  <2>1. out < size /\ b \in Byte /\ buffer' = Write(out, b)
    BY <1>1, <1>2, <1>3
  <2> HIDE DEF b
  <2> QED
    BY <1>1, <2>1, WriteFacts
<1>5. From(buffer', c + 1, MSSP_VAL) = From(buffer, c + 1, MSSP_VAL)
  <2>1. \A i \in 1 .. Len(buffer) : i > c + 1 => buffer'[i] = buffer[i]
    BY <1>1, <1>4
  <2>2. c + 1 \in Nat
    BY <1>1
  <2> QED
    BY <1>1, <1>4, <2>1, <2>2, FromAgree
<1>6. Cardinality(From(buffer, c, MSSP_VAL)) = Cardinality(From(buffer, c + 1, MSSP_VAL))
  BY <1>1, <1>2, FromFacts
<1>7. Bounded'
  BY <1>1, <1>3, <1>4 DEF Bounded, size
<1>8. MsspLoop'
  <2>1. size' = size /\ Cardinality(From(buffer, c, MSSP_VAL))' = Cardinality(From(buffer', c + 1, MSSP_VAL))
    BY <1>3, <1>4 DEF size
  <2> QED
    BY <1>1, <1>2, <1>3, <1>5, <1>6, <2>1 DEF MsspLoop
<1> QED
  BY <1>1, <1>3, <1>7, <1>8 DEF ParserInv

LEMMA MsspPartInv ==
    ASSUME ParserInv, MsspPart
    PROVE  ParserInv'
<1>1. /\ Bounded /\ MsspLoop /\ pc = "part"
      /\ buffer \in Seq(Byte) /\ size = Len(buffer) /\ size \in Nat /\ c \in 1 .. size
      /\ c \in Nat /\ out \in Nat /\ last \in Nat /\ index \in Nat /\ Len(values) \in Nat
      /\ out < c /\ last <= out
      /\ At(buffer, c) \in {"beyond", MSSP_VAR, MSSP_VAL}
      /\ next_type \in {MSSP_VAR, MSSP_VAL}
      /\ values \in Seq(Entry)
      /\ \A k \in DOMAIN values : values[k].var <= size /\ values[k].value <= size
      /\ var \in Nat \cup {Null} /\ var <= size
      /\ index <= Len(values)
  BY DEF MsspPart, ParserInv, Bounded, MsspLoop, size
<1> DEFINE m == Cardinality(From(buffer, c, MSSP_VAL))
<1>2. m \in Nat /\ Len(values) = index + m + (IF next_type = MSSP_VAL THEN 1 ELSE 0)
  BY <1>1, FromFacts DEF MsspLoop
<1>3. buffer' = Write(out, "NUL") /\ out' = out + 1
  BY DEF MsspPart
<1>4. /\ buffer' \in Seq(Byte) /\ Len(buffer') = Len(buffer)
      /\ \A k \in 1 .. Len(buffer) : k # out + 1 => buffer'[k] = buffer[k]
      /\ At(buffer', c) = At(buffer, c)
  <2>1. out < size /\ "NUL" \in Byte /\ c # out
    BY <1>1, Coded
  <2> DEFINE w == Write(out, "NUL")
  <2>2. /\ w \in Seq(Byte) /\ Len(w) = Len(buffer) /\ At(w, c) = At(buffer, c)
        /\ \A k \in 1 .. Len(buffer) : k # out + 1 => w[k] = buffer[k]
    BY <1>1, <2>1, WriteFacts
  <2>3. buffer' = w
    BY <1>3
  <2> HIDE DEF w
  <2> QED
    BY <2>2, <2>3
<1>5. size' = size
  BY <1>4 DEF size
<1>6. CASE ~(next_type = MSSP_VAR \/ (next_type = MSSP_VAL /\ var # Null))
  <2>1. pc' = "idle" /\ c' = c /\ last' = last /\ values' = values /\ index' = index
        /\ var' = var /\ next_type' = next_type
    BY <1>6 DEF MsspPart, Give
  <2> QED
    BY <1>1, <1>3, <1>4, <1>5, <2>1 DEF ParserInv, Bounded, size
<1>7. CASE next_type = MSSP_VAR \/ (next_type = MSSP_VAL /\ var # Null)
  <2>1. /\ last' = out + 1 /\ next_type' = At(buffer', c) /\ c' = c + 1
        /\ pc' = IF c + 1 < size THEN "part" ELSE "parts"
    BY <1>7 DEF MsspPart
  <2>2. /\ values' \in Seq(Entry) /\ Len(values') = Len(values)
        /\ \A k \in DOMAIN values' : values'[k].var <= size /\ values'[k].value <= size
        /\ var' \in Nat \cup {Null} /\ var' <= size
        /\ index' \in Nat /\ index' <= Len(values)
        /\ Len(values') = index' + m
    <3>1. CASE next_type = MSSP_VAR
      <4>1. var' = last /\ values' = values /\ index' = index
        BY <1>7, <3>1 DEF MsspPart
      <4>2. next_type # MSSP_VAL /\ last <= size
        BY <1>1, <3>1 DEF MSSP_VAR, MSSP_VAL
      <4> HIDE DEF m
      <4> QED
        BY <1>1, <1>2, <4>1, <4>2
    <3>2. CASE next_type = MSSP_VAL
      <4>1. /\ values' = [values EXCEPT ![index + 1].var = var, ![index + 1].value = last]
            /\ index' = index + 1 /\ var' = var
        BY <1>7, <3>2 DEF MsspPart, MSSP_VAR, MSSP_VAL
      <4> HIDE DEF m
      <4>2. index < Len(values) /\ last <= size /\ last \in Nat \cup {Null, EmptyLiteral}
        BY <1>1, <1>2, <3>2
      <4>3. PICK e \in Entry : /\ e.var = var /\ e.value = last
                               /\ values' = [values EXCEPT ![index + 1] = e]
        <5>1. \E e \in Entry : /\ e.var = var /\ e.value = last /\ e.type = values[index + 1].type
                /\ WithStrings(values, index, var, last) = [values EXCEPT ![index + 1] = e]
          BY <1>1, <4>2, StringsSet
        <5> QED
          BY <4>1, <5>1 DEF WithStrings
      <4>4. e.var <= size /\ e.value <= size
        BY <1>1, <4>2, <4>3
      <4>5. /\ values' \in Seq(Entry) /\ Len(values') = Len(values)
            /\ \A k \in DOMAIN values' : values'[k].var <= size /\ values'[k].value <= size
        BY <1>1, <4>2, <4>3, <4>4, PointersSet
      <4> QED
        BY <1>1, <1>2, <3>2, <4>1, <4>2, <4>5
    <3> QED
      BY <1>1, <3>1, <3>2
  <2>3. At(buffer', c) = "beyond" => ~(c + 1 < size)
    <3>1. c < size => At(buffer, c) # "beyond"
      BY <1>1, AtFacts, Coded
    <3> QED
      BY <1>1, <1>4, <3>1
  <2> HIDE DEF m
  <2>4. Bounded'
    BY <1>1, <1>3, <1>4, <1>5, <2>1, <2>2, <2>3 DEF Bounded, size, Looping
  <2>5. CASE c + 1 < size
    <3>1. pc' = "part" /\ next_type' \in {MSSP_VAR, MSSP_VAL} /\ next_type' = At(buffer, c)
      BY <1>1, <1>4, <2>1, <2>3, <2>5
    <3>2. m = Cardinality(From(buffer', c + 1, MSSP_VAL)) + (IF next_type' = MSSP_VAL THEN 1 ELSE 0)
      <4>1. c < Len(buffer)
        BY <1>1, <2>5
      <4>2. m = IF At(buffer, c) = MSSP_VAL THEN Cardinality(From(buffer, c + 1, MSSP_VAL)) + 1
                                            ELSE Cardinality(From(buffer, c + 1, MSSP_VAL))
        BY <1>1, <4>1, FromFacts DEF m
      <4>3. From(buffer', c + 1, MSSP_VAL) = From(buffer, c + 1, MSSP_VAL)
        <5>1. c + 1 \in Nat /\ \A i \in 1 .. Len(buffer) : i > c + 1 => buffer'[i] = buffer[i]
          BY <1>1, <1>4
        <5> QED
          BY <1>1, <1>4, <5>1, FromAgree
      <4>4. Cardinality(From(buffer, c + 1, MSSP_VAL)) \in Nat
        <5>1. c + 1 \in Nat
          BY <1>1
        <5> QED
          BY <1>1, <5>1, FromFacts
      <4> QED
        BY <3>1, <4>2, <4>3, <4>4
    <3>3. Cardinality(From(buffer, c, MSSP_VAL))' = Cardinality(From(buffer', c + 1, MSSP_VAL))
      BY <2>1
    <3>4. Cardinality(From(buffer', c + 1, MSSP_VAL)) \in Nat
      <4>1. c + 1 \in Nat
        BY <1>1
      <4> QED
        BY <1>4, <4>1, FromFacts
    <3>5. MsspLoop'
      BY SMTT(60), <1>1, <1>3, <1>5, <2>1, <2>2, <2>5, <3>1, <3>2, <3>3, <3>4 DEF MsspLoop
    <3> QED
      BY <2>4, <3>1, <3>5 DEF ParserInv
  <2>6. CASE ~(c + 1 < size)
    <3>1. pc' = "parts"
      BY <2>1, <2>6
    <3> QED
      BY <1>1, <1>3, <1>5, <2>1, <2>4, <3>1 DEF ParserInv
  <2> QED
    BY <2>5, <2>6
<1> QED
  BY <1>6, <1>7

LEMMA MsspEventInv ==
    ASSUME ParserInv, MsspEvent
    PROVE  ParserInv'
BY Returns DEF MsspEvent, Give

-----------------------------------------------------------------------------
(* C strings.                                                              *)

\* The string at p ends at the first NUL from there on.
LEMMA CStringEnds ==
    ASSUME NEW buf \in Seq(Byte), NEW p \in Nat, NEW e \in Nat, p <= e, e < Len(buf),
           At(buf, e) = "NUL", \A i \in Nat : p <= i /\ i < e => At(buf, i) # "NUL"
    PROVE  CString(buf, p) = SubSeq(buf, p + 1, e) /\ Len(CString(buf, p)) = e - p
<1> DEFINE ends == {i \in p .. Len(buf) - 1 : At(buf, i) = "NUL"}
           end == IF ends = {} THEN Len(buf) ELSE CHOOSE i \in ends : \A j \in ends : i <= j
<1>1. p # Null /\ p # EmptyLiteral /\ Len(buf) \in Nat
  BY NullFacts
<1>2. CString(buf, p) = SubSeq(buf, p + 1, end)
  BY <1>1 DEF CString
<1>3. e \in ends /\ \A j \in ends : e <= j
  <2>1. e \in p .. Len(buf) - 1
    BY <1>1
  <2>2. \A j \in ends : j \in Nat /\ p <= j /\ At(buf, j) = "NUL"
    BY <1>1
  <2> QED
    BY <2>1, <2>2
<1>4. \A i \in ends : (\A j \in ends : i <= j) => i = e
  <2>1. \A i \in ends : i \in Nat
    BY <1>1
  <2> HIDE DEF ends
  <2> QED
    BY <1>3, <2>1
<1> HIDE DEF ends
<1>5. end = e
  BY <1>3, <1>4
<1> HIDE DEF end
<1> QED
  BY <1>1, <1>2, <1>5

\* There is one if there is any NUL.
LEMMA FirstEnd ==
    ASSUME NEW buf \in Seq(Byte), NEW p \in Nat, NEW k \in Nat, p <= k, k < Len(buf), At(buf, k) = "NUL"
    PROVE  \E e \in Nat : /\ p <= e /\ e <= k /\ At(buf, e) = "NUL"
                          /\ \A i \in Nat : p <= i /\ i < e => At(buf, i) # "NUL"
<1> DEFINE S == {i \in Nat : p <= i /\ At(buf, i) = "NUL"}
           R == OpToRel(<, Nat)
<1>1. IsWellFoundedOn(R, Nat)
  BY NatLessThanWellFounded
<1>2. \A x, y \in Nat : <<x, y>> \in R <=> x < y
  BY DEF OpToRel
<1>3. S \subseteq Nat /\ k \in S
  OBVIOUS
<1> HIDE DEF R
<1>4. PICK e \in S : \A y \in S : ~(<<y, e>> \in R)
  BY <1>1, <1>3, WFMin
<1>5. \A y \in S : ~(y < e)
  BY <1>2, <1>3, <1>4
<1> QED
  BY <1>3, <1>4, <1>5

-----------------------------------------------------------------------------
(* The rest of the parsers.                                                *)

LEMMA ZmpStartInv ==
    ASSUME ParserInv, ZmpStart
    PROVE  ParserInv'
<1>1. ASSUME NothingRead, pc' = "idle"
      PROVE  ParserInv'
  BY <1>1, Returns
<1>2. ASSUME At(buffer, size - 1) = "NUL", size # 0,
             Allocate(Cardinality({i \in DOMAIN buffer : buffer[i] = "NUL"}), NullEntry),
             c' = 0, pc' = "argument", UNCHANGED <<buffer, out, last, var, next_type, event>>
      PROVE  ParserInv'
  <2>1. buffer \in Seq(Byte) /\ size \in Nat /\ size = Len(buffer)
    BY DEF ParserInv, Bounded, size
  <2> DEFINE m == Cardinality(From(buffer, 0, "NUL"))
  <2>2. {i \in DOMAIN buffer : buffer[i] = "NUL"} = From(buffer, 0, "NUL") /\ m \in Nat
    <3>1. \A i \in DOMAIN buffer : i > 0
      BY <2>1
    <3>2. 0 \in Nat
      OBVIOUS
    <3> QED
      BY <2>1, <3>1, <3>2, FromFacts DEF From
  <2>3. /\ values' \in Seq(Entry) /\ Len(values') = m
        /\ \A k \in DOMAIN values' : values'[k] = NullEntry
        /\ index' = 0
    BY <1>2, <2>2, Allocated DEF Allocate
  <2>4. \A k \in DOMAIN values' : values'[k].var <= size /\ values'[k].value <= size
    BY <2>1, <2>3, NullFacts
  <2>5. Cardinality(From(buffer, c, "NUL"))' = m /\ size' = size /\ At(buffer, size - 1)' = At(buffer, size - 1)
    BY <1>2 DEF size
  <2> HIDE DEF m
  <2>6. Bounded'
    <3>1. buffer' = buffer /\ out' = out /\ last' = last /\ var' = var /\ next_type' = next_type /\ pc # "parts"
      BY <1>2 DEF ZmpStart
    <3>2. (next_type = "beyond" => pc = "idle") /\ pc = "zmp"
      BY <3>1 DEF ParserInv, Bounded, ZmpStart
    <3> QED
      BY <1>2, <2>1, <2>2, <2>3, <2>4, <2>5, <3>1, <3>2 DEF ParserInv, Bounded, size, Looping
  <2>7. ZmpLoop'
    BY <1>2, <2>1, <2>2, <2>3, <2>5 DEF ZmpLoop
  <2> QED
    BY <1>2, <2>6, <2>7 DEF ParserInv
<1>3. At(buffer, size - 1) = "NUL" => size # 0
  <2>1. buffer \in Seq(Byte)
    BY DEF ParserInv, Bounded
  <2> QED
    BY <2>1 DEF At, size
<1> QED
  BY <1>1, <1>2, <1>3 DEF ZmpStart, Give

\* One argument is up to the next NUL.
LEMMA ZmpAdvances ==
    ASSUME ParserInv, pc = "argument", index # Len(values)
    PROVE  \E e \in Nat : /\ c <= e /\ e < size /\ At(buffer, e) = "NUL"
                          /\ \A i \in Nat : c <= i /\ i < e => At(buffer, i) # "NUL"
                          /\ CString(buffer, c) = SubSeq(buffer, c + 1, e)
                          /\ c + Len(CString(buffer, c)) + 1 = e + 1
                          /\ Len(values) = index + 1 + Cardinality(From(buffer, e + 1, "NUL"))
<1>1. /\ buffer \in Seq(Byte) /\ size = Len(buffer) /\ size \in Nat /\ c \in Nat /\ c <= size
      /\ index \in Nat /\ Len(values) \in Nat
      /\ Len(values) = index + Cardinality(From(buffer, c, "NUL"))
      /\ c < size => At(buffer, size - 1) = "NUL"
  BY DEF ParserInv, Bounded, ZmpLoop, size
<1>2. c < size
  BY <1>1, FromFacts
<1>3. size - 1 \in Nat /\ c <= size - 1 /\ size - 1 < Len(buffer) /\ At(buffer, size - 1) = "NUL"
  BY <1>1, <1>2
<1>4. PICK e \in Nat : /\ c <= e /\ e <= size - 1 /\ At(buffer, e) = "NUL"
                       /\ \A i \in Nat : c <= i /\ i < e => At(buffer, i) # "NUL"
  BY <1>1, <1>3, FirstEnd
<1>5. CString(buffer, c) = SubSeq(buffer, c + 1, e) /\ Len(CString(buffer, c)) = e - c
  <2>1. e < Len(buffer)
    BY <1>1, <1>4
  <2> QED
    BY <1>1, <1>4, <2>1, CStringEnds
<1>6. Cardinality(From(buffer, c, "NUL")) = Cardinality(From(buffer, e + 1, "NUL")) + 1
  <2>1. From(buffer, c, "NUL") = From(buffer, e, "NUL")
    <3>1. ASSUME NEW k \in 1 .. Len(buffer), k > c, buffer[k] = "NUL"
          PROVE  k > e
      <4>1. k - 1 \in Nat /\ c <= k - 1 /\ k - 1 < Len(buffer) /\ (k - 1) + 1 = k
        BY <1>1, <3>1
      <4>2. At(buffer, k - 1) = "NUL"
        BY <1>1, <3>1, <4>1, AtFacts
      <4>3. ~(k - 1 < e)
        BY <1>4, <4>1, <4>2
      <4> QED
        BY <1>4, <3>1, <4>3
    <3>2. DOMAIN buffer = 1 .. Len(buffer)
      BY <1>1
    <3>3. \A k \in 1 .. Len(buffer) : k > e => k > c
      BY <1>1, <1>4
    <3> QED
      BY <3>1, <3>2, <3>3 DEF From
  <2>2. e < Len(buffer)
    BY <1>1, <1>4
  <2> QED
    BY <1>1, <1>4, <2>1, <2>2, FromFacts
<1>7. Cardinality(From(buffer, e + 1, "NUL")) \in Nat
  <2>1. e + 1 \in Nat
    OBVIOUS
  <2> QED
    BY <1>1, <2>1, FromFacts
<1>8. /\ e < size /\ c + Len(CString(buffer, c)) + 1 = e + 1
      /\ Len(values) = index + 1 + Cardinality(From(buffer, e + 1, "NUL"))
  BY <1>1, <1>4, <1>5, <1>6, <1>7
<1> QED
  BY <1>4, <1>5, <1>8

LEMMA ZmpArgumentInv ==
    ASSUME ParserInv, ZmpArgument
    PROVE  ParserInv'
<1>1. /\ Bounded /\ ZmpLoop /\ pc = "argument"
      /\ buffer \in Seq(Byte) /\ size = Len(buffer) /\ size \in Nat /\ c \in Nat /\ c <= size
      /\ index \in Nat /\ Len(values) \in Nat /\ values \in Seq(Entry) /\ index <= Len(values)
      /\ \A k \in DOMAIN values : values[k].var <= size /\ values[k].value <= size
      /\ c < size => At(buffer, size - 1) = "NUL"
  BY DEF ZmpArgument, ParserInv, Bounded, ZmpLoop, size
<1>2. CASE index # Len(values)
  <2>1. PICK e \in Nat : /\ c <= e /\ e < size /\ c + Len(CString(buffer, c)) + 1 = e + 1
                         /\ Len(values) = index + 1 + Cardinality(From(buffer, e + 1, "NUL"))
    BY <1>1, <1>2, ZmpAdvances
  <2>2. /\ values' = [values EXCEPT ![index + 1].var = c] /\ c' = e + 1 /\ index' = index + 1
        /\ pc' = pc /\ buffer' = buffer /\ out' = out /\ last' = last /\ var' = var /\ next_type' = next_type
    BY <1>2, <2>1 DEF ZmpArgument
  <2> DEFINE v == [values[index + 1] EXCEPT !.var = c]
  <2>3. index < Len(values) /\ index + 1 \in DOMAIN values /\ values[index + 1] \in Entry
    BY <1>1, <1>2, ElementOfSeq
  <2>4. v \in Entry /\ v.var = c /\ v.value = values[index + 1].value
    BY <1>1, <2>3 DEF Entry
  <2>5. values' = [values EXCEPT ![index + 1] = v]
    BY <2>2
  <2> HIDE DEF v
  <2>6. v.var <= size /\ v.value <= size
    BY <1>1, <2>3, <2>4
  <2>7. /\ values' \in Seq(Entry) /\ Len(values') = Len(values)
        /\ \A k \in DOMAIN values' : values'[k].var <= size /\ values'[k].value <= size
    BY <1>1, <2>3, <2>4, <2>5, <2>6, PointersSet
  <2>8. /\ size' = size /\ At(buffer, size - 1)' = At(buffer, size - 1)
        /\ Cardinality(From(buffer, c, "NUL"))' = Cardinality(From(buffer, e + 1, "NUL"))
    BY <2>2 DEF size
  <2>9. Bounded'
    BY <1>1, <2>1, <2>2, <2>3, <2>7, <2>8 DEF Bounded, size
  <2>10. ZmpLoop'
    BY <1>1, <2>1, <2>2, <2>7, <2>8 DEF ZmpLoop
  <2> QED
    BY <1>1, <2>2, <2>9, <2>10 DEF ParserInv
<1>3. CASE index = Len(values)
  BY <1>1, <1>3, Returns DEF ZmpArgument, Give, NothingRead
<1> QED
  BY <1>2, <1>3

LEMMA ParseInv ==
    ASSUME ParserInv, Parse
    PROVE  ParserInv'
<1>1. CASE TtypeEvent
  BY <1>1, Returns DEF TtypeEvent, Give
<1> QED
  BY <1>1, EnvironStartInv, EnvironEntryInv, EnvironCopyInv, EnvironNameInv, EnvironValueInv,
     MsspStartInv, MsspCopyInv, MsspPartInv, MsspEventInv, ZmpStartInv, ZmpArgumentInv DEF Parse

-----------------------------------------------------------------------------
(* Sequences that are joined.                                              *)

\* g[i] is what the first i of the sequences in t give.
Joins(g, t, B) ==
    /\ g \in [0 .. Len(t) -> Seq(B)] /\ g[0] = <<>>
    /\ \A i \in 1 .. Len(t) : g[i] = g[i - 1] \o t[i]

LEMMA JoinExists ==
    ASSUME NEW B, NEW t \in Seq(Seq(B))
    PROVE  \E g : Joins(g, t, B)
<1> DEFINE n == Len(t)
           Run(f, m) == /\ f \in [0 .. m -> Seq(B)] /\ f[0] = <<>>
                        /\ \A i \in 1 .. m : f[i] = f[i - 1] \o t[i]
           T == {m \in 0 .. n : \E f : Run(f, m)}
<1>1. n \in Nat /\ <<>> \in Seq(B) /\ \A i \in 1 .. n : t[i] \in Seq(B)
  BY ElementOfSeq
<1> HIDE DEF n
<1>2. 0 \in T
  <2> DEFINE e == [i \in 0 .. 0 |-> <<>>]
  <2>1. Run(e, 0)
    BY <1>1
  <2> HIDE DEF e, Run
  <2>2. \E f : Run(f, 0)
    BY <2>1
  <2> QED
    BY <1>1, <2>2
<1>3. ASSUME NEW m \in 1 .. n, m - 1 \in T
      PROVE  m \in T
  <2>1. PICK g : Run(g, m - 1)
    BY <1>3
  <2> DEFINE h == [i \in 0 .. m |-> IF i = m THEN g[m - 1] \o t[m] ELSE g[i]]
  <2>2. /\ m \in Nat /\ m # 0 /\ m - 1 \in 0 .. m - 1 /\ 0 \in 0 .. m
        /\ \A i \in 0 .. m : i # m => i \in 0 .. m - 1
    OBVIOUS
  <2>3. g[m - 1] \o t[m] \in Seq(B)
    <3>1. g[m - 1] \in Seq(B) /\ t[m] \in Seq(B)
      BY <1>1, <2>1, <2>2
    <3> QED
      BY <3>1, ConcatProperties
  <2>4. h \in [0 .. m -> Seq(B)] /\ h[0] = <<>>
    BY <2>1, <2>2, <2>3
  <2>5. ASSUME NEW i \in 1 .. m
        PROVE  h[i] = h[i - 1] \o t[i]
    <3>1. i \in 0 .. m /\ i - 1 \in 0 .. m /\ i - 1 # m /\ (i # m => i \in 1 .. m - 1)
      BY <2>2
    <3>2. h[i - 1] = g[i - 1]
      BY <3>1
    <3>3. CASE i = m
      BY <3>1, <3>2, <3>3
    <3>4. CASE i # m
      BY <2>1, <3>1, <3>2, <3>4
    <3> QED
      BY <3>3, <3>4
  <2> HIDE DEF h
  <2>6. Run(h, m)
    BY <2>4, <2>5
  <2> HIDE DEF Run
  <2>7. \E f : Run(f, m)
    BY <2>6
  <2> QED
    BY <1>1, <2>7
<1> HIDE DEF Run, T
<1>4. \A m \in 0 .. n : m \in T
  BY <1>1, <1>2, <1>3, SetInduction
<1>5. n \in T
  BY <1>1, <1>4
<1>6. PICK g : Run(g, n)
  BY <1>5 DEF T
<1>7. Joins(g, t, B)
  BY <1>6 DEF Run, Joins, n
<1> QED
  BY <1>7

LEMMA FlattenIs ==
    ASSUME NEW B, NEW t \in Seq(Seq(B)), NEW g, Joins(g, t, B)
    PROVE  FlattenSeq(t) = g[Len(t)]
<1> DEFINE n == Len(t)
           R(f) == f = [i \in 1 .. n |-> IF i = 1 THEN t[i] ELSE f[i - 1] \o t[i]]
           h == CHOOSE f : R(f)
<1>1. n \in Nat /\ \A i \in 1 .. n : t[i] \in Seq(B)
  BY ElementOfSeq
<1>2. g \in [0 .. n -> Seq(B)] /\ g[0] = <<>> /\ \A i \in 1 .. n : g[i] = g[i - 1] \o t[i]
  BY DEF Joins
<1>3. CASE n = 0
  <2>1. t = <<>>
    BY <1>3, EmptySeq
  <2> QED
    BY <1>2, <1>3, <2>1 DEF FlattenSeq
<1>4. CASE n # 0
  <2>1. FlattenSeq(t) = h[n]
    BY <1>4 DEF FlattenSeq
  <2>2. g[1] = t[1]
    <3>1. 1 \in 1 .. n /\ 1 - 1 = 0 /\ t[1] \in Seq(B)
      BY <1>1, <1>4
    <3>2. <<>> \o t[1] = t[1]
      BY <3>1, ConcatEmptySeq
    <3> QED
      BY <1>2, <3>1, <3>2
  <2> HIDE DEF n
  <2> DEFINE e == [i \in 1 .. n |-> g[i]]
  <2>3. R(e)
    <3>1. ASSUME NEW i \in 1 .. n
          PROVE  e[i] = IF i = 1 THEN t[i] ELSE e[i - 1] \o t[i]
      <4>1. i # 1 => i - 1 \in 1 .. n
        BY <1>1
      <4> QED
        BY <1>2, <2>2, <4>1
    <3> QED
      BY <3>1
  <2>4. R(h)
    <3> HIDE DEF e
    <3> QED
      BY <2>3
  <2>5. \A i \in 1 .. n : h[i] = IF i = 1 THEN t[i] ELSE h[i - 1] \o t[i]
    BY <2>4
  <2> HIDE DEF h, R, e
  <2> DEFINE T == {i \in 0 .. n : i # 0 => h[i] = g[i]}
  <2>6. 0 \in T
    BY <1>1
  <2>7. ASSUME NEW i \in 1 .. n, i - 1 \in T
        PROVE  i \in T
    <3>1. i # 1 => h[i - 1] = g[i - 1]
      BY <2>7
    <3>2. h[i] = g[i]
      BY <1>2, <2>2, <2>5, <3>1
    <3> QED
      BY <3>2
  <2> HIDE DEF T
  <2>8. \A i \in 0 .. n : i \in T
    BY <1>1, <2>6, <2>7, SetInduction
  <2>9. h[n] = g[n]
    <3>1. n \in 0 .. n
      BY <1>1
    <3> QED
      BY <1>4, <2>8, <3>1 DEF T
  <2> QED
    BY <2>1, <2>9 DEF n
<1> QED
  BY <1>3, <1>4

LEMMA FlattenType ==
    ASSUME NEW B, NEW t \in Seq(Seq(B))
    PROVE  FlattenSeq(t) \in Seq(B)
<1>1. PICK g : Joins(g, t, B)
  BY JoinExists
<1>2. FlattenSeq(t) = g[Len(t)] /\ Len(t) \in 0 .. Len(t)
  BY <1>1, FlattenIs
<1> QED
  BY <1>1, <1>2 DEF Joins

LEMMA FlattenEmpty ==
    FlattenSeq(<<>>) = <<>>
BY DEF FlattenSeq

LEMMA FlattenConcat ==
    ASSUME NEW B, NEW s \in Seq(Seq(B)), NEW t \in Seq(Seq(B))
    PROVE  FlattenSeq(s \o t) = FlattenSeq(s) \o FlattenSeq(t)
<1> DEFINE m == Len(s)
           n == Len(t)
           u == s \o t
<1>1. PICK f : Joins(f, s, B)
  BY JoinExists
<1>2. PICK g : Joins(g, t, B)
  BY JoinExists
<1>3. /\ m \in Nat /\ n \in Nat
      /\ \A i \in 1 .. m : s[i] \in Seq(B)
      /\ \A i \in 1 .. n : t[i] \in Seq(B)
  BY ElementOfSeq
<1>4. u \in Seq(Seq(B)) /\ Len(u) = m + n
  BY ConcatProperties
<1>5. (\A i \in 1 .. m : u[i] = s[i]) /\ (\A i \in 1 .. n : u[m + i] = t[i])
  BY <1>3, ConcatProperties
<1> HIDE DEF u
<1>6. /\ f \in [0 .. m -> Seq(B)] /\ f[0] = <<>> /\ \A i \in 1 .. m : f[i] = f[i - 1] \o s[i]
      /\ g \in [0 .. n -> Seq(B)] /\ g[0] = <<>> /\ \A i \in 1 .. n : g[i] = g[i - 1] \o t[i]
  BY <1>1, <1>2 DEF Joins
<1>7. FlattenSeq(s) = f[m] /\ FlattenSeq(t) = g[n]
  BY <1>1, <1>2, FlattenIs
<1> HIDE DEF m, n
<1> DEFINE h == [i \in 0 .. m + n |-> IF i <= m THEN f[i] ELSE f[m] \o g[i - m]]
<1>8. f[m] \in Seq(B)
  BY <1>3, <1>6
<1>9. h \in [0 .. m + n -> Seq(B)]
  <2>1. ASSUME NEW i \in 0 .. m + n
        PROVE  h[i] \in Seq(B)
    <3>1. CASE i <= m
      BY <1>3, <1>6, <3>1
    <3>2. CASE ~(i <= m)
      <4>1. i - m \in 0 .. n
        BY <1>3, <3>2
      <4>2. g[i - m] \in Seq(B)
        BY <1>6, <4>1
      <4>3. f[m] \o g[i - m] \in Seq(B)
        BY <1>8, <4>2, ConcatProperties
      <4> QED
        BY <3>2, <4>3
    <3> QED
      BY <3>1, <3>2
  <2> QED
    BY <2>1
<1>10. ASSUME NEW i \in 1 .. m + n
       PROVE  h[i] = h[i - 1] \o u[i]
  <2>1. i \in 0 .. m + n /\ i - 1 \in 0 .. m + n
    BY <1>3
  <2>2. CASE i <= m
    <3>1. i \in 1 .. m /\ i - 1 <= m
      BY <1>3, <2>2
    <3> QED
      BY <1>5, <1>6, <2>1, <2>2, <3>1
  <2>3. CASE ~(i <= m)
    <3>1. i - m \in 1 .. n /\ m + (i - m) = i /\ (i - 1) - m = (i - m) - 1 /\ (i - m) - 1 \in 0 .. n
      BY <1>3, <2>3
    <3>2. u[i] = t[i - m] /\ g[i - m] = g[(i - m) - 1] \o t[i - m]
      BY <1>5, <1>6, <3>1
    <3>3. h[i] = f[m] \o g[i - m]
      BY <2>1, <2>3
    <3>4. h[i - 1] = f[m] \o g[(i - m) - 1]
      <4>1. CASE i - 1 <= m
        <5>1. i - 1 = m /\ (i - m) - 1 = 0
          BY <1>3, <2>3, <4>1
        <5>2. f[m] \o <<>> = f[m]
          BY <1>8, ConcatEmptySeq
        <5> QED
          BY <1>6, <2>1, <4>1, <5>1, <5>2
      <4>2. CASE ~(i - 1 <= m)
        BY <2>1, <3>1, <4>2
      <4> QED
        BY <4>1, <4>2
    <3>5. g[(i - m) - 1] \in Seq(B) /\ t[i - m] \in Seq(B)
      BY <1>3, <1>6, <3>1
    <3>6. (f[m] \o g[(i - m) - 1]) \o t[i - m] = f[m] \o (g[(i - m) - 1] \o t[i - m])
      <4> DEFINE x == f[m]
                 y == g[(i - m) - 1]
                 z == t[i - m]
      <4>1. x \in Seq(B) /\ y \in Seq(B) /\ z \in Seq(B)
        BY <1>8, <3>5
      <4> HIDE DEF x, y, z
      <4>2. (x \o y) \o z = x \o (y \o z)
        BY SMTT(60), <4>1, ConcatAssociative
      <4> QED
        BY <4>2 DEF x, y, z
    <3> HIDE DEF h
    <3> QED
      BY <3>2, <3>3, <3>4, <3>6
  <2> QED
    BY <2>2, <2>3
<1>11. h[0] = <<>>
  BY <1>3, <1>6
<1>12. h[m + n] = f[m] \o g[n]
  <2>1. m + n \in 0 .. m + n /\ (m + n) - m = n
    BY <1>3
  <2>2. CASE n = 0
    <3>1. f[m] \o <<>> = f[m]
      BY <1>8, ConcatEmptySeq
    <3> QED
      BY <1>3, <1>6, <2>1, <2>2, <3>1
  <2>3. CASE n # 0
    <3>1. ~(m + n <= m)
      BY <1>3, <2>3
    <3>2. h[m + n] = f[m] \o g[(m + n) - m]
      BY <2>1, <3>1
    <3> QED
      BY <2>1, <3>2
  <2> QED
    BY <2>2, <2>3
<1> HIDE DEF h
<1>13. Joins(h, u, B)
  BY <1>4, <1>9, <1>10, <1>11 DEF Joins
<1>14. FlattenSeq(u) = h[m + n]
  BY <1>4, <1>13, FlattenIs
<1> QED
  BY <1>7, <1>12, <1>14 DEF u

LEMMA FlattenOne ==
    ASSUME NEW B, NEW x \in Seq(B)
    PROVE  FlattenSeq(<<x>>) = x
BY DEF FlattenSeq

LEMMA FlattenHead ==
    ASSUME NEW B, NEW t \in Seq(Seq(B)), t # <<>>
    PROVE  FlattenSeq(t) = Head(t) \o FlattenSeq(Tail(t))
<1>1. Head(t) \in Seq(B) /\ Tail(t) \in Seq(Seq(B)) /\ t = <<Head(t)>> \o Tail(t)
  BY HeadTailProperties
<1> DEFINE h == <<Head(t)>>
           r == Tail(t)
<1>2. h \in Seq(Seq(B)) /\ r \in Seq(Seq(B)) /\ t = h \o r
  BY <1>1
<1>3. FlattenSeq(h) = Head(t)
  BY <1>1, FlattenOne
<1> HIDE DEF h, r
<1>4. FlattenSeq(h \o r) = FlattenSeq(h) \o FlattenSeq(r)
  BY <1>2, FlattenConcat
<1> QED
  BY <1>2, <1>3, <1>4 DEF r

-----------------------------------------------------------------------------
(* What the sending functions put on the wire, byte by byte.               *)

Code(b, nvt) == IF Instead(b, nvt) = <<>> THEN <<b>> ELSE Instead(b, nvt)

Codes(s, nvt) == [i \in DOMAIN s |-> Code(s[i], nvt)]

Encoding(s, nvt) == FlattenSeq(Codes(s, nvt))

LEMMA AddedBytes ==
    Added \subseteq Byte
BY MessagesAssumption

LEMMA InsteadType ==
    ASSUME NEW b \in Byte, NEW nvt \in BOOLEAN
    PROVE  Instead(b, nvt) \in Seq(Byte) /\ Code(b, nvt) \in Seq(Byte)
<1>1. {"IAC", "CR", "LF", "NUL"} \subseteq Byte
  BY AddedBytes DEF Added
<1>2. /\ <<>> \in Seq(Byte) /\ <<b>> \in Seq(Byte) /\ <<"IAC", "IAC">> \in Seq(Byte)
      /\ <<"CR", "NUL">> \in Seq(Byte) /\ <<"CR", "LF">> \in Seq(Byte)
  BY <1>1
<1>3. Instead(b, nvt) \in Seq(Byte)
  BY <1>2 DEF Instead, NvtEscape, Escape, CRNUL, CRLF, telnet_iac
<1> QED
  BY <1>2, <1>3 DEF Code

LEMMA CodesType ==
    ASSUME NEW s \in Seq(Byte), NEW nvt \in BOOLEAN
    PROVE  /\ Codes(s, nvt) \in Seq(Seq(Byte)) /\ Len(Codes(s, nvt)) = Len(s)
           /\ \A i \in 1 .. Len(s) : Codes(s, nvt)[i] = Code(s[i], nvt)
<1>1. Len(s) \in Nat /\ DOMAIN s = 1 .. Len(s) /\ \A i \in 1 .. Len(s) : s[i] \in Byte
  BY ElementOfSeq
<1>2. \A i \in 1 .. Len(s) : Code(s[i], nvt) \in Seq(Byte)
  BY <1>1, InsteadType
<1>3. Codes(s, nvt) \in [1 .. Len(s) -> Seq(Byte)]
  BY <1>1, <1>2 DEF Codes
<1>4. Codes(s, nvt) \in Seq(Seq(Byte)) /\ Len(Codes(s, nvt)) = Len(s)
  BY <1>1, <1>3
<1> QED
  BY <1>1, <1>4 DEF Codes

Turn(s, nvt, i, before) ==
    IF Instead(s[i], nvt) = <<>> THEN before
    ELSE [l |-> i,
          wire |-> before.wire \o SubSeq(s, before.l + 1, i - 1) \o Instead(s[i], nvt)]

\* What i turns of the loop come to.
Turns(f, s, nvt, n) ==
    /\ DOMAIN f = 0 .. n
    /\ f[0] = [l |-> 0, wire |-> <<>>]
    /\ \A i \in 1 .. n : f[i] = Turn(s, nvt, i, f[i - 1])

LEMMA PortionsTurns ==
    ASSUME NEW s \in Seq(Byte), NEW nvt
    PROVE  Turns(Portions(s, nvt), s, nvt, Len(s))
<1> DEFINE n == Len(s)
           R(f) == f = [i \in 0 .. n |->
                        IF i = 0 THEN [l |-> 0, wire |-> <<>>]
                        ELSE LET before == f[i - 1]
                             IN  IF Instead(s[i], nvt) = <<>> THEN before
                                 ELSE [l |-> i,
                                       wire |-> before.wire \o SubSeq(s, before.l + 1, i - 1)
                                                            \o Instead(s[i], nvt)]]
           h == CHOOSE f : R(f)
           T == {m \in 0 .. n : \E f : Turns(f, s, nvt, m)}
<1>1. Portions(s, nvt) = h
  BY DEF Portions
<1>2. n \in Nat
  OBVIOUS
<1>3. 0 \in T
  <2> DEFINE e == [i \in 0 .. 0 |-> [l |-> 0, wire |-> <<>>]]
  <2>1. Turns(e, s, nvt, 0)
    BY DEF Turns
  <2> HIDE DEF e
  <2>2. \E f : Turns(f, s, nvt, 0)
    BY <2>1
  <2> QED
    BY <1>2, <2>2
<1>4. ASSUME NEW m \in 1 .. n, m - 1 \in T
      PROVE  m \in T
  <2> HIDE DEF n
  <2>1. PICK g : Turns(g, s, nvt, m - 1)
    BY <1>4
  <2> DEFINE f == [i \in 0 .. m |-> IF i = m THEN Turn(s, nvt, m, g[m - 1]) ELSE g[i]]
  <2>2. /\ m \in Nat /\ m # 0 /\ m - 1 \in 0 .. m - 1 /\ 0 \in 0 .. m
        /\ \A i \in 0 .. m : i # m => i \in 0 .. m - 1
    BY <1>2
  <2>3. f[0] = [l |-> 0, wire |-> <<>>] /\ DOMAIN f = 0 .. m
    BY <2>1, <2>2 DEF Turns
  <2>4. ASSUME NEW i \in 1 .. m
        PROVE  f[i] = Turn(s, nvt, i, f[i - 1])
    <3>1. i \in 0 .. m /\ i - 1 \in 0 .. m /\ i - 1 # m /\ (i # m => i \in 1 .. m - 1)
      BY <2>2
    <3>2. f[i - 1] = g[i - 1]
      BY <3>1
    <3>3. CASE i = m
      BY <3>1, <3>2, <3>3
    <3>4. CASE i # m
      BY <2>1, <3>1, <3>2, <3>4 DEF Turns
    <3> QED
      BY <3>3, <3>4
  <2> HIDE DEF f
  <2>5. Turns(f, s, nvt, m)
    BY <2>3, <2>4 DEF Turns
  <2>6. \E e : Turns(e, s, nvt, m)
    BY <2>5
  <2> QED
    BY <1>2, <2>6
<1> HIDE DEF T
<1>5. \A m \in 0 .. n : m \in T
  BY <1>2, <1>3, <1>4, SetInduction
<1>6. n \in T
  BY <1>2, <1>5
<1>7. PICK g : Turns(g, s, nvt, n)
  BY <1>6 DEF T
<1>8. \E f : R(f)
  <2> DEFINE f == [i \in 0 .. n |-> g[i]]
  <2>1. \A i \in 1 .. n : i \in 0 .. n /\ i - 1 \in 0 .. n
    BY <1>2
  <2>2. \A i \in 1 .. n : f[i - 1] = g[i - 1]
    BY <2>1
  <2>3. ASSUME NEW i \in 0 .. n
        PROVE  g[i] = IF i = 0 THEN [l |-> 0, wire |-> <<>>] ELSE Turn(s, nvt, i, f[i - 1])
    <3>1. i # 0 => i \in 1 .. n
      BY <1>2
    <3> QED
      BY <1>7, <2>2, <3>1 DEF Turns
  <2>4. R(f)
    BY <2>3 DEF Turn
  <2> HIDE DEF f, R
  <2> QED
    BY <2>4
<1>9. R(h)
  <2> HIDE DEF R
  <2> QED
    BY <1>8
<1>10. h = [i \in 0 .. n |-> IF i = 0 THEN [l |-> 0, wire |-> <<>>] ELSE Turn(s, nvt, i, h[i - 1])]
  <2> HIDE DEF h
  <2> QED
    BY <1>9 DEF Turn
<1> HIDE DEF h, n
<1>11. Turns(h, s, nvt, n)
  <2>1. DOMAIN h = 0 .. n /\ h[0] = [l |-> 0, wire |-> <<>>]
    BY <1>2, <1>10
  <2>2. ASSUME NEW i \in 1 .. n
        PROVE  h[i] = Turn(s, nvt, i, h[i - 1])
    BY <1>2, <1>10
  <2> QED
    BY <2>1, <2>2 DEF Turns
<1> QED
  BY <1>1, <1>11 DEF n

\* The portions and what is sent between them are the codes of the bytes.
LEMMA SendsCodes ==
    ASSUME NEW s \in Seq(Byte), NEW nvt \in BOOLEAN
    PROVE  SendPortions(s, nvt) = Encoding(s, nvt)
<1> DEFINE n == Len(s)
           h == Portions(s, nvt)
<1>1. /\ n \in Nat /\ DOMAIN s = 1 .. n
      /\ \A i \in 1 .. n : s[i] \in Byte
  BY ElementOfSeq
<1>2. Turns(h, s, nvt, n)
  BY PortionsTurns
<1>3. PICK g : Joins(g, Codes(s, nvt), Byte)
  BY CodesType, JoinExists
<1>4. /\ g \in [0 .. n -> Seq(Byte)] /\ g[0] = <<>>
      /\ \A i \in 1 .. n : g[i] = g[i - 1] \o Code(s[i], nvt)
  BY <1>3, CodesType DEF Joins
<1>5. Encoding(s, nvt) = g[n]
  BY <1>3, CodesType, FlattenIs DEF Encoding
<1> DEFINE Sent(i) == /\ h[i].l \in 0 .. i /\ h[i].wire \in Seq(Byte)
                      /\ h[i].wire \o SubSeq(s, h[i].l + 1, i) = g[i]
           T == {i \in 0 .. n : Sent(i)}
<1> HIDE DEF n, h
<1>6. 0 \in T
  <2>1. h[0].l = 0 /\ h[0].wire = <<>>
    BY <1>2 DEF Turns
  <2>2. SubSeq(s, 0 + 1, 0) = <<>>
    BY SubSeqEmpty
  <2>3. <<>> \o <<>> = <<>> /\ <<>> \in Seq(Byte)
    BY EmptySeq, ConcatEmptySeq
  <2>4. SubSeq(s, h[0].l + 1, 0) = <<>>
    BY <2>1, <2>2
  <2>5. h[0].wire \o SubSeq(s, h[0].l + 1, 0) = g[0]
    BY <1>4, <2>1, <2>3, <2>4
  <2>6. h[0].l \in 0 .. 0 /\ h[0].wire \in Seq(Byte)
    BY <2>1, <2>3
  <2> QED
    BY <1>1, <2>5, <2>6
<1>7. ASSUME NEW i \in 1 .. n, i - 1 \in T
      PROVE  i \in T
  <2> DEFINE w == h[i - 1].wire
             k == h[i - 1].l
             p == SubSeq(s, k + 1, i - 1)
             q == Instead(s[i], nvt)
             o == <<s[i]>>
  <2>1. k \in 0 .. i - 1 /\ w \in Seq(Byte) /\ w \o p = g[i - 1]
    BY <1>7
  <2>2. h[i] = IF q = <<>> THEN h[i - 1] ELSE [l |-> i, wire |-> (w \o p) \o q]
    BY <1>2 DEF Turns, Turn
  <2>3. p \in Seq(Byte) /\ q \in Seq(Byte) /\ o \in Seq(Byte)
    <3>1. \A j \in k + 1 .. i - 1 : s[j] \in Byte
      BY <1>1, <2>1
    <3>2. k + 1 \in Int /\ i - 1 \in Int
      BY <2>1
    <3>3. p \in Seq(Byte)
      <4> HIDE DEF k
      <4> QED
        BY <3>1, <3>2, SubSeqProperties
    <3>4. s[i] \in Byte
      BY <1>1
    <3> QED
      BY <3>3, <3>4, InsteadType
  <2>4. g[i] = (w \o p) \o Code(s[i], nvt)
    BY <1>4, <2>1
  <2>5. SubSeq(s, k + 1, i) = p \o o
    <3>1. k + 1 \in 1 .. Len(s) /\ i \in k + 1 .. Len(s)
      BY <1>1, <2>1 DEF n
    <3> HIDE DEF k
    <3> QED
      BY <3>1, SubSeqRecursiveSecond
  <2>6. SubSeq(s, i + 1, i) = <<>>
    BY SubSeqEmpty
  <2> HIDE DEF w, k, p, q, o
  <2>7. Sent(i)
    <3>1. CASE q = <<>>
      <4>1. h[i].l = k /\ h[i].wire = w /\ k \in 0 .. i
        BY <2>1, <2>2, <3>1 DEF w, k
      <4>2. w \o (p \o o) = (w \o p) \o o
        <5>1. w \in Seq(Byte) /\ p \in Seq(Byte) /\ o \in Seq(Byte)
          BY <2>1, <2>3
        <5>2. (w \o p) \o o = w \o (p \o o)
          BY SMTT(60), <5>1, ConcatAssociative
        <5> QED
          BY <5>2
      <4>3. Code(s[i], nvt) = o
        BY <3>1 DEF Code, q, o
      <4> QED
        BY <2>1, <2>4, <2>5, <4>1, <4>2, <4>3
    <3>2. CASE q # <<>>
      <4>1. h[i].l = i /\ h[i].wire = (w \o p) \o q
        BY <2>2, <3>2
      <4>2. (w \o p) \o q \in Seq(Byte)
        BY <2>1, <2>3, ConcatProperties
      <4>3. ((w \o p) \o q) \o <<>> = (w \o p) \o q
        BY <4>2, ConcatEmptySeq
      <4>4. Code(s[i], nvt) = q
        BY <3>2 DEF Code, q
      <4>5. i \in 0 .. i
        OBVIOUS
      <4> QED
        BY <2>4, <2>6, <4>1, <4>2, <4>3, <4>4, <4>5
    <3> QED
      BY <3>1, <3>2
  <2> HIDE DEF Sent
  <2> QED
    BY <1>1, <2>7
<1> HIDE DEF T
<1>8. \A i \in 0 .. n : i \in T
  BY <1>1, <1>6, <1>7, SetInduction
<1>9. n \in 0 .. n /\ n \in T
  BY <1>1, <1>8
<1>10. h[n].wire \o SubSeq(s, h[n].l + 1, n) = g[n]
  BY <1>9 DEF T
<1> QED
  BY <1>5, <1>10 DEF SendPortions, n, h

LEMMA EncodingType ==
    ASSUME NEW s \in Seq(Byte), NEW nvt \in BOOLEAN
    PROVE  Encoding(s, nvt) \in Seq(Byte) /\ SendPortions(s, nvt) \in Seq(Byte)
BY CodesType, FlattenType, SendsCodes DEF Encoding

LEMMA CodeNotEmpty ==
    ASSUME NEW b, NEW nvt
    PROVE  Code(b, nvt) # <<>>
BY DEF Code

LEMMA EncodingEmpty ==
    ASSUME NEW nvt
    PROVE  Encoding(<<>>, nvt) = <<>>
<1>1. Codes(<<>>, nvt) = <<>>
  BY DEF Codes
<1> QED
  BY <1>1, FlattenEmpty DEF Encoding

LEMMA EncodingConcat ==
    ASSUME NEW s \in Seq(Byte), NEW t \in Seq(Byte), NEW nvt \in BOOLEAN
    PROVE  Encoding(s \o t, nvt) = Encoding(s, nvt) \o Encoding(t, nvt)
<1> DEFINE u == s \o t
           x == Codes(s, nvt)
           y == Codes(t, nvt)
           z == Codes(u, nvt)
           m == Len(s)
           n == Len(t)
<1>1. /\ m \in Nat /\ n \in Nat /\ u \in Seq(Byte) /\ Len(u) = m + n
      /\ \A i \in 1 .. m + n : u[i] = IF i <= m THEN s[i] ELSE t[i - m]
  BY ConcatProperties
<1>2. /\ x \in Seq(Seq(Byte)) /\ Len(x) = m /\ \A i \in 1 .. m : x[i] = Code(s[i], nvt)
      /\ y \in Seq(Seq(Byte)) /\ Len(y) = n /\ \A i \in 1 .. n : y[i] = Code(t[i], nvt)
  BY CodesType
<1> HIDE DEF u
<1>3. z \in Seq(Seq(Byte)) /\ Len(z) = m + n /\ \A i \in 1 .. m + n : z[i] = Code(u[i], nvt)
  BY <1>1, CodesType
<1> HIDE DEF x, y, z, m, n
<1>4. /\ x \o y \in Seq(Seq(Byte)) /\ Len(x \o y) = m + n
      /\ \A i \in 1 .. m + n : (x \o y)[i] = IF i <= m THEN x[i] ELSE y[i - m]
  BY <1>2, ConcatProperties
<1>5. ASSUME NEW i \in 1 .. m + n
      PROVE  z[i] = (x \o y)[i]
  <2>1. i <= m => i \in 1 .. m
    BY <1>1
  <2>2. ~(i <= m) => i - m \in 1 .. n
    BY <1>1
  <2>3. CASE i <= m
    <3>1. (x \o y)[i] = x[i] /\ x[i] = Code(s[i], nvt)
      BY <1>2, <1>4, <2>1, <2>3
    <3>2. z[i] = Code(u[i], nvt) /\ u[i] = s[i]
      BY <1>1, <1>3, <2>3
    <3> QED
      BY <3>1, <3>2
  <2>4. CASE ~(i <= m)
    <3>1. (x \o y)[i] = y[i - m] /\ y[i - m] = Code(t[i - m], nvt)
      BY <1>2, <1>4, <2>2, <2>4
    <3>2. z[i] = Code(u[i], nvt) /\ u[i] = t[i - m]
      BY <1>1, <1>3, <2>4
    <3> QED
      BY <3>1, <3>2
  <2> QED
    BY <2>3, <2>4
<1>6. z = x \o y
  <2> DEFINE w == x \o y
  <2>1. w \in Seq(Seq(Byte)) /\ Len(z) = Len(w) /\ \A i \in 1 .. Len(z) : z[i] = w[i]
    BY <1>3, <1>4, <1>5
  <2> HIDE DEF w
  <2>2. z = w
    BY <1>3, <2>1, SeqEqual
  <2> QED
    BY <2>2 DEF w
<1>7. FlattenSeq(x \o y) = FlattenSeq(x) \o FlattenSeq(y)
  BY <1>2, FlattenConcat
<1> QED
  BY <1>6, <1>7 DEF Encoding, u, x, y, z

LEMMA EncodingOne ==
    ASSUME NEW b \in Byte, NEW nvt \in BOOLEAN
    PROVE  Encoding(<<b>>, nvt) = Code(b, nvt)
<1>1. Codes(<<b>>, nvt) = <<Code(b, nvt)>>
  BY DEF Codes
<1>2. FlattenSeq(<<Code(b, nvt)>>) = Code(b, nvt)
  BY InsteadType, FlattenOne
<1> QED
  BY <1>1, <1>2 DEF Encoding

LEMMA EncodingHead ==
    ASSUME NEW s \in Seq(Byte), NEW nvt \in BOOLEAN, s # <<>>
    PROVE  Encoding(s, nvt) = Code(Head(s), nvt) \o Encoding(Tail(s), nvt)
<1> DEFINE h == <<Head(s)>>
           t == Tail(s)
<1>1. Head(s) \in Byte /\ h \in Seq(Byte) /\ t \in Seq(Byte) /\ s = h \o t
  BY HeadTailProperties
<1>2. Encoding(h, nvt) = Code(Head(s), nvt)
  BY <1>1, EncodingOne
<1> HIDE DEF h, t
<1>3. Encoding(h \o t, nvt) = Encoding(h, nvt) \o Encoding(t, nvt)
  BY <1>1, EncodingConcat
<1> QED
  BY <1>1, <1>2, <1>3 DEF t

\* What telnet_vprintf() sends is what telnet_send() makes of the text with its
\* line ends written out.
Uncoded(b) == IF b = "CR" THEN <<"CR", "NUL">> ELSE IF b = "LF" THEN <<"CR", "LF">> ELSE <<b>>

LEMMA PairIs ==
    ASSUME NEW B, NEW x \in B, NEW y \in B
    PROVE  <<x, y>> = <<x>> \o <<y>>
<1> DEFINE p == <<x>>
           q == <<y>>
           w == p \o q
           v == <<x, y>>
<1>1. /\ p \in Seq(B) /\ Len(p) = 1 /\ p[1] = x /\ q \in Seq(B) /\ Len(q) = 1 /\ q[1] = y
      /\ v \in Seq(B) /\ Len(v) = 2 /\ v[1] = x /\ v[2] = y
  OBVIOUS
<1> HIDE DEF p, q, v
<1>2. p \in Seq(B) /\ q \in Seq(B)
  BY <1>1
<1>5. /\ w \in Seq(B) /\ Len(w) = Len(p) + Len(q)
      /\ \A i \in 1 .. Len(p) + Len(q) : w[i] = IF i <= Len(p) THEN p[i] ELSE q[i - Len(p)]
  BY <1>2, ConcatProperties
<1> HIDE DEF w
<1>3. \A i \in 1 .. Len(w) : w[i] = v[i]
  <2>1. w[1] = p[1] /\ w[2] = q[1]
    BY <1>1, <1>5
  <2> QED
    BY <1>1, <1>5, <2>1
<1>4. w = v
  BY <1>1, <1>3, <1>5, SeqEqual
<1> QED
  BY <1>4 DEF p, q, v, w

LEMMA TripleIs ==
    ASSUME NEW B, NEW x \in B, NEW y \in B, NEW z \in B
    PROVE  <<x, y, z>> = <<x, y>> \o <<z>>
<1> DEFINE p == <<x, y>>
           q == <<z>>
           w == p \o q
           v == <<x, y, z>>
<1>1. /\ p \in Seq(B) /\ Len(p) = 2 /\ p[1] = x /\ p[2] = y
      /\ q \in Seq(B) /\ Len(q) = 1 /\ q[1] = z
      /\ v \in Seq(B) /\ Len(v) = 3 /\ v[1] = x /\ v[2] = y /\ v[3] = z
  OBVIOUS
<1> HIDE DEF p, q, v
<1>2. p \in Seq(B) /\ q \in Seq(B)
  BY <1>1
<1>3. /\ w \in Seq(B) /\ Len(w) = Len(p) + Len(q)
      /\ \A i \in 1 .. Len(p) + Len(q) : w[i] = IF i <= Len(p) THEN p[i] ELSE q[i - Len(p)]
  BY <1>2, ConcatProperties
<1> HIDE DEF w
<1>4. \A i \in 1 .. Len(w) : w[i] = v[i]
  <2>1. w[1] = p[1] /\ w[2] = p[2] /\ w[3] = q[1]
    BY <1>1, <1>3
  <2> QED
    BY <1>1, <1>3, <2>1
<1>5. w = v
  BY <1>1, <1>3, <1>4, SeqEqual
<1> QED
  BY <1>5 DEF p, q, v, w

LEMMA UncodedEncoding ==
    ASSUME NEW b \in Byte
    PROVE  Uncoded(b) \in Seq(Byte) /\ Encoding(Uncoded(b), FALSE) = Code(b, TRUE)
<1>1. "CR" \in Byte /\ "LF" \in Byte /\ "NUL" \in Byte
  BY AddedBytes DEF Added
<1>2. Uncoded(b) \in Seq(Byte)
  BY <1>1 DEF Uncoded
<1>3. \A x, y \in Byte \ {"IAC"} : Encoding(<<x, y>>, FALSE) = <<x, y>>
  <2> SUFFICES ASSUME NEW x \in Byte \ {"IAC"}, NEW y \in Byte \ {"IAC"}
               PROVE  Encoding(<<x, y>>, FALSE) = <<x, y>>
    OBVIOUS
  <2> DEFINE p == <<x>>
             q == <<y>>
  <2>1. p \in Seq(Byte) /\ q \in Seq(Byte) /\ <<x, y>> = p \o q
    <3>1. p \in Seq(Byte) /\ q \in Seq(Byte)
      OBVIOUS
    <3> QED
      BY <3>1, PairIs
  <2>2. Encoding(p, FALSE) = p /\ Encoding(q, FALSE) = q
    BY EncodingOne DEF Code, Instead, Escape
  <2> HIDE DEF p, q
  <2>3. Encoding(p \o q, FALSE) = Encoding(p, FALSE) \o Encoding(q, FALSE)
    BY <2>1, EncodingConcat
  <2> QED
    BY <2>1, <2>2, <2>3
<1>4. CASE b = "CR" \/ b = "LF"
  <2>1. Encoding(<<"CR", "NUL">>, FALSE) = <<"CR", "NUL">>
        /\ Encoding(<<"CR", "LF">>, FALSE) = <<"CR", "LF">>
    BY <1>1, <1>3
  <2> QED
    BY <1>2, <1>4, <2>1 DEF Uncoded, Code, Instead, NvtEscape, CRNUL, CRLF
<1>5. CASE b # "CR" /\ b # "LF"
  <2>1. Code(b, FALSE) = Code(b, TRUE)
    BY <1>5 DEF Code, Instead, NvtEscape
  <2>2. Uncoded(b) = <<b>>
    BY <1>5 DEF Uncoded
  <2> QED
    BY <1>2, <2>1, <2>2, EncodingOne
<1> QED
  BY <1>4, <1>5

LEMMA UntranslatedHead ==
    ASSUME NEW s \in Seq(Byte)
    PROVE  /\ Untranslated(s) \in Seq(Byte)
           /\ s = <<>> => Untranslated(s) = <<>>
           /\ s # <<>> => Untranslated(s) = Uncoded(Head(s)) \o Untranslated(Tail(s))
<1> DEFINE U(t) == [i \in DOMAIN t |-> Uncoded(t[i])]
<1>1. ASSUME NEW t \in Seq(Byte)
      PROVE  /\ Untranslated(t) = FlattenSeq(U(t)) /\ U(t) \in Seq(Seq(Byte)) /\ Len(U(t)) = Len(t)
             /\ \A i \in 1 .. Len(t) : U(t)[i] = Uncoded(t[i])
  <2>1. Len(t) \in Nat /\ DOMAIN t = 1 .. Len(t) /\ \A i \in 1 .. Len(t) : t[i] \in Byte
    BY ElementOfSeq
  <2>2. \A i \in 1 .. Len(t) : Uncoded(t[i]) \in Seq(Byte)
    BY <2>1, UncodedEncoding
  <2>3. U(t) \in [1 .. Len(t) -> Seq(Byte)]
    BY <2>1, <2>2
  <2>4. U(t) \in Seq(Seq(Byte)) /\ Len(U(t)) = Len(t)
    BY <2>1, <2>3
  <2>5. Untranslated(t) = FlattenSeq(U(t))
    BY DEF Untranslated, Uncoded
  <2> QED
    BY <2>1, <2>4, <2>5
<1>2. Untranslated(s) \in Seq(Byte)
  <2>1. U(s) \in Seq(Seq(Byte)) /\ Untranslated(s) = FlattenSeq(U(s))
    BY <1>1
  <2> HIDE DEF U
  <2> QED
    BY <2>1, FlattenType
<1>3. CASE s = <<>>
  <2>1. U(<<>>) = <<>>
    OBVIOUS
  <2> QED
    BY <1>1, <1>2, <1>3, <2>1, FlattenEmpty
<1>4. CASE s # <<>>
  <2> DEFINE r == Tail(s)
  <2>1. /\ r \in Seq(Byte) /\ Len(r) = Len(s) - 1 /\ Len(s) \in Nat \ {0}
        /\ \A i \in 1 .. Len(r) : r[i] = s[i + 1]
        /\ Head(s) = s[1]
    BY <1>4, HeadTailProperties, EmptySeq
  <2>2. /\ U(s) \in Seq(Seq(Byte)) /\ Len(U(s)) = Len(s) /\ \A i \in 1 .. Len(s) : U(s)[i] = Uncoded(s[i])
        /\ U(r) \in Seq(Seq(Byte)) /\ Len(U(r)) = Len(r) /\ \A i \in 1 .. Len(r) : U(r)[i] = Uncoded(r[i])
        /\ Untranslated(s) = FlattenSeq(U(s)) /\ Untranslated(r) = FlattenSeq(U(r))
    <3> HIDE DEF U, r
    <3> QED
      BY <1>1, <2>1
  <2> HIDE DEF U, r
  <2>3. U(s) # <<>>
    BY <2>1, <2>2, EmptySeq
  <2>4. Head(U(s)) = Uncoded(Head(s))
    BY <2>1, <2>2, <2>3
  <2>5. Tail(U(s)) = U(r)
    <3> DEFINE x == Tail(U(s))
    <3>1. /\ x \in Seq(Seq(Byte)) /\ Len(x) = Len(U(s)) - 1
          /\ \A i \in 1 .. Len(x) : x[i] = U(s)[i + 1]
      BY <2>2, <2>3, HeadTailProperties
    <3> HIDE DEF x
    <3>2. ASSUME NEW i \in 1 .. Len(x)
          PROVE  x[i] = U(r)[i]
      <4>1. Len(x) = Len(r) /\ Len(s) = Len(r) + 1 /\ Len(r) \in Nat
        BY <2>1, <2>2, <3>1
      <4>2. i \in 1 .. Len(r) /\ i + 1 \in 1 .. Len(s)
        BY <4>1
      <4>3. U(s)[i + 1] = Uncoded(s[i + 1]) /\ U(r)[i] = Uncoded(r[i]) /\ r[i] = s[i + 1]
        BY <2>1, <2>2, <4>2
      <4> QED
        BY <3>1, <4>3
    <3>3. Len(x) = Len(U(r))
      BY <2>1, <2>2, <3>1
    <3>4. x = U(r)
      BY <2>2, <3>1, <3>2, <3>3, SeqEqual
    <3> QED
      BY <3>4 DEF x
  <2>6. FlattenSeq(U(s)) = Head(U(s)) \o FlattenSeq(Tail(U(s)))
    BY <2>2, <2>3, FlattenHead
  <2> QED
    BY <1>2, <1>4, <2>2, <2>4, <2>5, <2>6 DEF r
<1> QED
  BY <1>3, <1>4

LEMMA UntranslatedEncoding ==
    ASSUME NEW s \in Seq(Byte)
    PROVE  Encoding(s, TRUE) = Encoding(Untranslated(s), FALSE)
<1> DEFINE P(k) == \A t \in Seq(Byte) : Len(t) = k => Encoding(t, TRUE) = Encoding(Untranslated(t), FALSE)
           T == {k \in 0 .. Len(s) : P(k)}
<1>1. Len(s) \in Nat
  OBVIOUS
<1>2. 0 \in T
  <2>1. ASSUME NEW t \in Seq(Byte), Len(t) = 0
        PROVE  Encoding(t, TRUE) = Encoding(Untranslated(t), FALSE)
    <3>1. t = <<>>
      BY <2>1, EmptySeq
    <3> QED
      BY <3>1, UntranslatedHead, EncodingEmpty
  <2>2. P(0)
    BY <2>1
  <2> HIDE DEF P
  <2> QED
    BY <1>1, <2>2
<1>3. ASSUME NEW k \in 1 .. Len(s), k - 1 \in T
      PROVE  k \in T
  <2>1. ASSUME NEW t \in Seq(Byte), Len(t) = k
        PROVE  Encoding(t, TRUE) = Encoding(Untranslated(t), FALSE)
    <3> DEFINE h == Head(t)
               r == Tail(t)
               x == Uncoded(h)
               y == Untranslated(r)
    <3>1. t # <<>> /\ h \in Byte /\ r \in Seq(Byte) /\ Len(r) = k - 1
      BY <2>1, EmptySeq, HeadTailProperties
    <3>2. Encoding(t, TRUE) = Code(h, TRUE) \o Encoding(r, TRUE)
      BY <3>1, EncodingHead
    <3>3. Encoding(r, TRUE) = Encoding(y, FALSE)
      BY <1>3, <3>1
    <3>4. x \in Seq(Byte) /\ Encoding(x, FALSE) = Code(h, TRUE)
      BY <3>1, UncodedEncoding
    <3>5. y \in Seq(Byte) /\ Untranslated(t) = x \o y
      BY <3>1, UntranslatedHead
    <3> HIDE DEF x, y
    <3>6. Encoding(x \o y, FALSE) = Encoding(x, FALSE) \o Encoding(y, FALSE)
      BY <3>4, <3>5, EncodingConcat
    <3> QED
      BY <3>2, <3>3, <3>4, <3>5, <3>6
  <2>2. P(k)
    BY <2>1
  <2> HIDE DEF P
  <2> QED
    BY <1>1, <2>2
<1> HIDE DEF T, P
<1>4. \A k \in 0 .. Len(s) : k \in T
  BY <1>1, <1>2, <1>3, SetInduction
<1>5. P(Len(s))
  BY <1>1, <1>4 DEF T
<1> QED
  BY <1>5 DEF P

LEMMA ConcatThree ==
    ASSUME NEW B, NEW x \in Seq(B), NEW y \in Seq(B), NEW z \in Seq(B)
    PROVE  x \o y \o z \in Seq(B)
<1>1. x \o y \in Seq(B)
  BY ConcatProperties
<1> QED
  BY <1>1, ConcatProperties

LEMMA StringType ==
    ASSUME NEW s \in Strings
    PROVE  s \in Seq(Byte)
<1>1. s \in Seq(Byte \ {"NUL"}) /\ Byte \ {"NUL"} \subseteq Byte
  BY DEF Strings
<1> QED
  BY <1>1, SeqMonotonic

\* Sequences of what an operator gives for 1 to n are joined.
LEMMA FlattenOfFunction ==
    ASSUME NEW n \in Nat, NEW f \in [1 .. n -> Seq(Byte)]
    PROVE  FlattenSeq(f) \in Seq(Byte)
<1>1. f \in Seq(Seq(Byte))
  OBVIOUS
<1> QED
  BY <1>1, FlattenType

LEMMA ZmpArgType ==
    ASSUME NEW s \in Strings
    PROVE  telnet_zmp_arg(s) \in Seq(Byte)
<1>1. "NUL" \in Byte
  BY AddedBytes DEF Added
<1>2. Append(s, "NUL") \in Seq(Byte)
  BY <1>1, StringType
<1> QED
  BY <1>2, EncodingType DEF telnet_zmp_arg, telnet_send

LEMMA BeginType ==
    ASSUME NEW o \in Byte
    PROVE  telnet_begin_sb(o) \in Seq(Byte) /\ telnet_finish_sb \in Seq(Byte)
<1>1. "IAC" \in Byte /\ "SB" \in Byte /\ "SE" \in Byte
  BY AddedBytes DEF Added
<1> QED
  BY <1>1 DEF telnet_begin_sb, telnet_finish_sb, telnet_iac

LEMMA EncodedType ==
    ASSUME NEW m \in Calls, NEW mem \in BOOLEAN, binary \in BOOLEAN
    PROVE  Encoded(m, mem) \in Seq(Byte)
<1>1. /\ "IAC" \in Byte /\ "SB" \in Byte /\ "SE" \in Byte /\ "NUL" \in Byte /\ "SOH" \in Byte
      /\ "STX" \in Byte /\ "ETX" \in Byte
      /\ "NEW_ENVIRON" \in Byte /\ "TTYPE" \in Byte /\ "ZMP" \in Byte
  BY AddedBytes DEF Added
<1>2. <<>> \in Seq(Byte)
  OBVIOUS
<1>3. CASE m \in [call : {"send", "send_text", "printf", "raw_printf"}, bytes : Seq(Byte)]
  <2>1. m.call \in {"send", "send_text", "printf", "raw_printf"} /\ m.bytes \in Seq(Byte)
    BY <1>3
  <2>2. \A nvt \in BOOLEAN : SendPortions(m.bytes, nvt) \in Seq(Byte)
    BY <2>1, EncodingType
  <2>3. /\ telnet_send(m.bytes) \in Seq(Byte) /\ telnet_send_text(m.bytes, binary) \in Seq(Byte)
        /\ telnet_vprintf(m.bytes, mem) \in Seq(Byte) /\ telnet_raw_vprintf(m.bytes, mem) \in Seq(Byte)
    BY <1>2, <2>2 DEF telnet_send, telnet_send_text, telnet_vprintf, telnet_raw_vprintf
  <2> QED
    BY <2>1, <2>3 DEF Encoded
<1>4. CASE m \in [call : {"iac"}, cmd : Byte \ ({"IAC", "SB"} \cup Stream!Negotiations)]
  <2>1. m.call = "iac" /\ m.cmd \in Byte
    BY <1>4
  <2> QED
    BY <1>1, <2>1 DEF Encoded, telnet_iac
<1>5. CASE m \in [call : {"subnegotiation"}, telopt : Byte, bytes : Seq(Byte)]
  <2>1. m.call = "subnegotiation" /\ m.telopt \in Byte /\ m.bytes \in Seq(Byte)
    BY <1>5
  <2>2. telnet_send(m.bytes) \in Seq(Byte)
    BY <2>1, EncodingType DEF telnet_send
  <2>3. telnet_subnegotiation(m.telopt, m.bytes) \in Seq(Byte)
    BY <2>1, <2>2, BeginType, ConcatThree DEF telnet_subnegotiation
  <2> QED
    BY <2>1, <2>3 DEF Encoded
<1>6. CASE m \in [call : {"newenviron"}, cmd : {IS, SEND, INFO},
                  vars : Seq([type : {VAR, USERVAR}, var : Strings, value : Strings])]
  <2> DEFINE v == m.vars
             x == telnet_begin_newenviron(m.cmd)
             f == [k \in DOMAIN v |->
                        telnet_newenviron_value(v[k].type, v[k].var)
                            \o telnet_newenviron_value(VALUE, v[k].value)]
  <2>1. /\ m.call = "newenviron" /\ m.cmd \in Byte /\ Len(v) \in Nat /\ DOMAIN v = 1 .. Len(v)
        /\ v \in Seq([type : {VAR, USERVAR}, var : Strings, value : Strings])
    BY <1>1, <1>6 DEF IS, SEND, INFO
  <2>2. ASSUME NEW b \in Byte
        PROVE  telnet_send(<<b>>) \in Seq(Byte)
    <3>1. <<b>> \in Seq(Byte)
      OBVIOUS
    <3> QED
      BY <3>1, EncodingType DEF telnet_send
  <2>3. \A b \in Byte : \A s \in Strings : telnet_newenviron_value(b, s) \in Seq(Byte)
    <3>1. \A s \in Strings : telnet_send(s) \in Seq(Byte)
      BY StringType, EncodingType DEF telnet_send
    <3> QED
      BY <2>2, <3>1, ConcatProperties DEF telnet_newenviron_value
  <2>4. ASSUME NEW k \in 1 .. Len(v)
        PROVE  telnet_newenviron_value(v[k].type, v[k].var)
                 \o telnet_newenviron_value(VALUE, v[k].value) \in Seq(Byte)
    <3>1. v[k] \in [type : {VAR, USERVAR}, var : Strings, value : Strings]
      BY <2>1, ElementOfSeq
    <3>2. v[k].type \in Byte /\ VALUE \in Byte /\ v[k].var \in Strings /\ v[k].value \in Strings
      BY <1>1, <3>1 DEF VAR, USERVAR, VALUE
    <3>3. /\ telnet_newenviron_value(v[k].type, v[k].var) \in Seq(Byte)
          /\ telnet_newenviron_value(VALUE, v[k].value) \in Seq(Byte)
      BY <2>3, <3>2
    <3> QED
      BY <3>3, ConcatProperties
  <2>5. FlattenSeq(f) \in Seq(Byte)
    <3>1. f \in [1 .. Len(v) -> Seq(Byte)]
      BY <2>1, <2>4
    <3> HIDE DEF f, v
    <3> QED
      BY <2>1, <3>1, FlattenOfFunction
  <2>6. x \in Seq(Byte)
    <3>1. telnet_begin_sb("NEW_ENVIRON") \in Seq(Byte) /\ telnet_send(<<m.cmd>>) \in Seq(Byte)
      BY <1>1, <2>1, <2>2, BeginType
    <3> QED
      BY <3>1, ConcatProperties DEF telnet_begin_newenviron
  <2>7. telnet_finish_sb \in Seq(Byte)
    BY <1>1, BeginType
  <2>8. Encoded(m, mem) = x \o FlattenSeq(f) \o telnet_finish_sb
    BY <2>1 DEF Encoded
  <2> HIDE DEF x, f
  <2> QED
    BY <2>5, <2>6, <2>7, <2>8, ConcatThree
<1>7. CASE m \in [call : {"ttype_send"}]
  BY <1>1, <1>7 DEF Encoded, telnet_ttype_send
<1>8. CASE m \in [call : {"ttype_is"}, bytes : Strings]
  <2> DEFINE x == <<"IAC", "SB", "TTYPE", "NUL">>
  <2>1. m.call = "ttype_is" /\ m.bytes \in Seq(Byte)
    BY <1>8, StringType
  <2>2. x \in Seq(Byte) /\ telnet_finish_sb \in Seq(Byte)
    BY <1>1, BeginType
  <2>3. Encoded(m, mem) = x \o m.bytes \o telnet_finish_sb
    BY <2>1 DEF Encoded, telnet_ttype_is
  <2> HIDE DEF x
  <2> QED
    BY <2>1, <2>2, <2>3, ConcatThree
<1>9. CASE m \in [call : {"send_zmp", "send_vzmpv"}, argv : Seq(Strings) \ {<<>>}]
  <2> DEFINE a == m.argv
             f == [i \in 1 .. Len(a) - 1 |-> telnet_zmp_arg(a[i + 1])]
             g == [i \in DOMAIN a |-> telnet_zmp_arg(a[i])]
  <2>1. /\ m.call \in {"send_zmp", "send_vzmpv"} /\ Len(a) \in Nat \ {0} /\ DOMAIN a = 1 .. Len(a)
        /\ \A i \in 1 .. Len(a) : a[i] \in Strings
    <3>1. m.call \in {"send_zmp", "send_vzmpv"} /\ a \in Seq(Strings) /\ a # <<>>
      BY <1>9
    <3> QED
      BY <3>1, EmptySeq, ElementOfSeq
  <2>2. \A i \in 1 .. Len(a) : telnet_zmp_arg(a[i]) \in Seq(Byte)
    BY <2>1, ZmpArgType
  <2>3. /\ telnet_begin_sb("ZMP") \in Seq(Byte) /\ telnet_finish_sb \in Seq(Byte)
        /\ telnet_begin_zmp(a[1]) \in Seq(Byte)
    <3>1. telnet_begin_sb("ZMP") \in Seq(Byte) /\ telnet_finish_sb \in Seq(Byte)
      BY <1>1, BeginType
    <3>2. telnet_zmp_arg(a[1]) \in Seq(Byte)
      BY <2>1, <2>2
    <3> QED
      BY <3>1, <3>2, ConcatProperties DEF telnet_begin_zmp
  <2>4. FlattenSeq(f) \in Seq(Byte) /\ FlattenSeq(g) \in Seq(Byte)
    <3>1. \A i \in 1 .. Len(a) - 1 : i + 1 \in 1 .. Len(a)
      BY <2>1
    <3>2. f \in [1 .. Len(a) - 1 -> Seq(Byte)] /\ g \in [1 .. Len(a) -> Seq(Byte)]
      BY <2>1, <2>2, <3>1
    <3>3. Len(a) - 1 \in Nat /\ Len(a) \in Nat
      BY <2>1
    <3> HIDE DEF f, g, a
    <3> QED
      BY <3>2, <3>3, FlattenOfFunction
  <2>5. /\ m.call = "send_zmp" => Encoded(m, mem) = telnet_begin_zmp(a[1]) \o FlattenSeq(f) \o telnet_finish_sb
        /\ m.call = "send_vzmpv" => Encoded(m, mem) = telnet_begin_sb("ZMP") \o FlattenSeq(g) \o telnet_finish_sb
    BY <2>1 DEF Encoded, telnet_send_zmp, telnet_send_vzmpv
  <2> HIDE DEF f, g, a
  <2>6. /\ telnet_begin_zmp(a[1]) \o FlattenSeq(f) \o telnet_finish_sb \in Seq(Byte)
        /\ telnet_begin_sb("ZMP") \o FlattenSeq(g) \o telnet_finish_sb \in Seq(Byte)
    BY <2>3, <2>4, ConcatThree
  <2> QED
    BY <2>1, <2>5, <2>6
<1> QED
  BY <1>3, <1>4, <1>5, <1>6, <1>7, <1>8, <1>9 DEF Calls

-----------------------------------------------------------------------------
(* The two ends and the wire between them.                                 *)

HeardEvent ==
    [kind : {"data"}, byte : Byte]
    \cup [kind : {"iac"}, cmd : Byte]
    \cup [kind : {"negotiation"}, cmd : Stream!Negotiations, opt : Byte]
    \cup [kind : {"subnegotiation"}, opt : Byte \cup {"none"}, payload : Seq(Byte)]
    \cup [kind : {"warning"}, about : {"overflow", "memory", "protocol"}]

StreamTyped ==
    /\ payload \in Seq(Byte) /\ opt \in Byte \cup {"none"}
    /\ translate \in BOOLEAN
    /\ heard \in Seq(HeardEvent)

\* The events that are not handled yet are of the payload that is in the buffer.
HeardCurrent ==
    \A i \in DOMAIN heard :
        heard[i].kind = "subnegotiation" => heard[i].opt = opt /\ heard[i].payload = payload

CallTyped ==
    /\ message \in Messages \cup {NoMessage}
    /\ memory \in BOOLEAN /\ binary \in BOOLEAN
    /\ wire \in Seq(Byte)
    /\ message = NoMessage => Idle /\ mode = "data" /\ translate = ~binary
    /\ pc # "idle" => telopt = opt

Typed == StreamTyped /\ HeardCurrent /\ CallTyped /\ ParserInv

LEMMA CallKinds ==
    ASSUME NEW m \in Messages
    PROVE  m \in Calls /\ m.call # "none" /\ m # NoMessage
<1>1. m \in Calls
  BY MessagesAssumption
<1>2. m.call # "none"
  BY <1>1 DEF Calls
<1> QED
  BY <1>1, <1>2 DEF NoMessage

LEMMA EmitIs ==
    ASSUME heard = <<>>, NEW e \in Seq(HeardEvent), Stream!Emit(e)
    PROVE  heard' = e
BY ConcatEmptySeq DEF Stream!Emit

LEMMA DecodeTyped ==
    ASSUME StreamTyped, heard = <<>>, NEW b \in Byte, Stream!Decode(b)
    PROVE  StreamTyped' /\ HeardCurrent'
<1> DEFINE Current(e, o, s) == \A i \in DOMAIN e : e[i].kind = "subnegotiation" => e[i].opt = o /\ e[i].payload = s
           Good(e, o, s) == e \in Seq(HeardEvent) /\ Current(e, o, s)
<1>1. payload \in Seq(Byte) /\ opt \in Byte \cup {"none"} /\ translate \in BOOLEAN /\ "IAC" \in Byte /\ "CR" \in Byte /\ "LF" \in Byte
  BY AddedBytes DEF StreamTyped, Added
<1>2. \A x, y \in HeardEvent : <<>> \in Seq(HeardEvent) /\ <<x>> \in Seq(HeardEvent) /\ <<x, y>> \in Seq(HeardEvent)
  OBVIOUS
<1>3. /\ \A x \in Byte : Stream!Data(x) \in HeardEvent /\ Stream!Iac(x) \in HeardEvent
      /\ \A x \in Stream!Negotiations, y \in Byte : Stream!Negotiation(x, y) \in HeardEvent
      /\ \A x \in {"overflow", "memory", "protocol"} : Stream!Warning(x) \in HeardEvent
      /\ Stream!Subnegotiation(opt, payload) \in HeardEvent
  BY <1>1 DEF HeardEvent, Stream!Data, Stream!Iac, Stream!Negotiation, Stream!Warning, Stream!Subnegotiation
<1>4. /\ \A x : Stream!Data(x).kind # "subnegotiation" /\ Stream!Iac(x).kind # "subnegotiation"
      /\ \A x : Stream!Warning(x).kind # "subnegotiation"
      /\ \A x, y : Stream!Negotiation(x, y).kind # "subnegotiation"
      /\ Stream!Subnegotiation(opt, payload).opt = opt
      /\ Stream!Subnegotiation(opt, payload).payload = payload
  BY DEF Stream!Data, Stream!Iac, Stream!Negotiation, Stream!Warning, Stream!Subnegotiation
<1>5. ASSUME NEW o, NEW s
      PROVE  Good(<<>>, o, s)
  OBVIOUS
<1>6. ASSUME NEW o, NEW s, NEW x \in HeardEvent, x.kind # "subnegotiation"
      PROVE  Good(<<x>>, o, s)
  BY <1>6
<1>7. ASSUME NEW e, Good(e, opt', payload'), Stream!Emit(e),
             payload' \in Seq(Byte), opt' \in Byte \cup {"none"}, translate' \in BOOLEAN
      PROVE  StreamTyped' /\ HeardCurrent'
  <2>1. heard' = e
    BY <1>7, EmitIs
  <2> QED
    BY <1>7, <2>1 DEF StreamTyped, HeardCurrent
<1> HIDE DEF Good
<1>8. ASSUME NEW e \in {<<>>, <<Stream!Warning("protocol"), Stream!Subnegotiation(opt, payload)>>},
             Stream!Command(b, e), UNCHANGED <<opt, payload, translate>>
      PROVE  StreamTyped' /\ HeardCurrent'
  <2> DEFINE w == Stream!Warning("protocol")
             s == Stream!Subnegotiation(opt, payload)
             x == <<w, s>>
             d == Stream!Data("IAC")
             i == Stream!Iac(b)
  <2>1. w \in HeardEvent /\ s \in HeardEvent /\ d \in HeardEvent /\ i \in HeardEvent
    BY <1>1, <1>3
  <2>2. opt' = opt /\ payload' = payload /\ translate' = translate
    BY <1>8
  <2>3. w.kind # "subnegotiation" /\ d.kind # "subnegotiation" /\ i.kind # "subnegotiation" /\ s.opt = opt /\ s.payload = payload
    BY <1>4
  <2>4. \/ Stream!Emit(e)
        \/ Stream!Emit(e \o <<d>>)
        \/ Stream!Emit(e \o <<i>>)
    BY <1>8 DEF Stream!Command
  <2> HIDE DEF w, s, d, i
  <2>5. ASSUME NEW y \in {d, i}
        PROVE  <<>> \o <<y>> = <<y>> /\ x \o <<y>> = <<w, s, y>>
    <3>1. y \in HeardEvent /\ <<y>> \in Seq(HeardEvent)
      BY <2>1
    <3>2. <<>> \o <<y>> = <<y>>
      BY <3>1, ConcatEmptySeq
    <3>3. <<w, s, y>> = <<w, s>> \o <<y>>
      BY <2>1, <3>1, TripleIs
    <3> QED
      BY <3>2, <3>3
  <2>6. /\ Good(<<>>, opt, payload) /\ Good(<<w, s>>, opt, payload)
        /\ \A y \in {d, i} : Good(<<y>>, opt, payload) /\ Good(<<w, s, y>>, opt, payload)
    BY <2>1, <2>3 DEF Good
  <2>7. e \in {<<>>, x}
    BY <1>8 DEF w, s
  <2> QED
    BY <1>1, <1>7, <2>2, <2>4, <2>5, <2>6, <2>7
<1>9. ASSUME Stream!Keep(b), UNCHANGED <<opt, translate>>
      PROVE  StreamTyped' /\ HeardCurrent'
  <2>1. payload' \in Seq(Byte)
    BY <1>1, <1>9 DEF Stream!Keep
  <2>2. \/ Stream!Emit(<<>>)
        \/ Stream!Emit(<<Stream!Warning("overflow")>>)
        \/ Stream!Emit(<<Stream!Warning("memory")>>)
    BY <1>9 DEF Stream!Keep
  <2> QED
    BY <1>1, <1>3, <1>4, <1>5, <1>6, <1>7, <1>9, <2>1, <2>2
<1>10. CASE Stream!InData(b)
  BY <1>1, <1>3, <1>4, <1>5, <1>6, <1>7, <1>10 DEF Stream!InData
<1>11. CASE Stream!InCr(b)
  <2> DEFINE x == Stream!Data("CR")
             y == Stream!Data(b)
  <2>1. x \in HeardEvent /\ y \in HeardEvent /\ x.kind # "subnegotiation" /\ y.kind # "subnegotiation"
    BY <1>1, <1>3, <1>4
  <2>2. opt' = opt /\ payload' = payload /\ translate' = translate
    BY <1>11 DEF Stream!InCr
  <2>3. \/ Stream!Emit(<<Stream!Data("LF")>>) \/ Stream!Emit(<<x>>) \/ Stream!Emit(<<x, y>>)
    BY <1>11 DEF Stream!InCr
  <2> HIDE DEF x, y
  <2>4. Good(<<x, y>>, opt, payload)
    BY <2>1 DEF Good
  <2> QED
    BY <1>1, <1>3, <1>4, <1>6, <1>7, <2>1, <2>2, <2>3, <2>4
<1>12. CASE Stream!InIac(b)
  BY <1>8, <1>12 DEF Stream!InIac
<1>13. CASE Stream!InNegotiation(b)
  <2>1. mode \in Stream!Negotiations /\ opt' = opt /\ payload' = payload /\ translate' \in BOOLEAN
    BY <1>1, <1>13 DEF Stream!InNegotiation
  <2>2. Stream!Emit(<<Stream!Negotiation(mode, b)>>)
    BY <1>13 DEF Stream!InNegotiation
  <2> QED
    BY <1>1, <1>3, <1>4, <1>6, <1>7, <2>1, <2>2
<1>14. CASE Stream!InOption(b)
  BY <1>1, <1>5, <1>7, <1>14 DEF Stream!InOption
<1>15. CASE Stream!InPayload(b)
  <2>1. \/ Stream!Emit(<<>>) /\ UNCHANGED payload
        \/ Stream!Keep(b)
    BY <1>15 DEF Stream!InPayload
  <2>2. opt' = opt /\ translate' = translate
    BY <1>15 DEF Stream!InPayload
  <2> QED
    BY <1>1, <1>5, <1>7, <1>9, <2>1, <2>2
<1>16. CASE Stream!InDiscard(b)
  BY <1>1, <1>5, <1>7, <1>16 DEF Stream!InDiscard
<1>17. CASE Stream!InPayloadIac(b)
  <2> DEFINE s == Stream!Subnegotiation(opt, payload)
             x == <<Stream!Warning("protocol"), s>>
  <2>1. opt' = opt /\ translate' = translate
    BY <1>17 DEF Stream!InPayloadIac
  <2>2. \/ Stream!Emit(<<s>>) /\ UNCHANGED payload
        \/ Stream!Keep(b)
        \/ Stream!Command(b, x) /\ UNCHANGED payload
    BY <1>17 DEF Stream!InPayloadIac
  <2>3. s \in HeardEvent /\ s.opt = opt /\ s.payload = payload
    BY <1>3, <1>4
  <2> HIDE DEF s
  <2>4. Good(<<s>>, opt, payload)
    BY <2>3 DEF Good
  <2>5. CASE Stream!Emit(<<s>>) /\ UNCHANGED payload
    BY <1>1, <1>7, <2>1, <2>4, <2>5
  <2>6. CASE Stream!Keep(b)
    BY <1>9, <2>1, <2>6
  <2>7. CASE Stream!Command(b, x) /\ UNCHANGED payload
    BY <1>8, <2>1, <2>7 DEF s
  <2> QED
    BY <2>2, <2>5, <2>6, <2>7
<1> QED
  BY <1>10, <1>11, <1>12, <1>13, <1>14, <1>15, <1>16, <1>17 DEF Stream!Decode

LEMMA TypedInit ==
    ASSUME Init
    PROVE  Typed
<1>1. StreamTyped /\ HeardCurrent
  BY DEF Init, Stream!Init, StreamTyped, HeardCurrent
<1>2. CallTyped
  BY DEF Init, Stream!Init, ParserInit, CallTyped, Idle
<1>3. ParserInv
  <2>1. Null \in Int /\ ~(0 < Null) /\ Null <= 0
    BY NullFacts
  <2>2. Bounded
    BY <2>1, Coded DEF Init, ParserInit, Bounded, size, Looping
  <2> QED
    BY <2>2 DEF Init, ParserInit, ParserInv
<1> QED
  BY <1>1, <1>2, <1>3 DEF Typed

LEMMA StreamStutters ==
    ASSUME StreamTyped, HeardCurrent, UNCHANGED stream
    PROVE  StreamTyped' /\ HeardCurrent'
<1>1. mode' = mode /\ opt' = opt /\ payload' = payload /\ translate' = translate /\ heard' = heard
  BY DEF stream
<1> QED
  BY <1>1 DEF StreamTyped, HeardCurrent

LEMMA CallStep ==
    ASSUME Typed, message = NoMessage, NEW m \in Messages, Call(m)
    PROVE  Typed'
<1>1. UNCHANGED stream /\ UNCHANGED parser /\ binary' = binary /\ message' = m /\ memory' \in BOOLEAN
  BY DEF Call
<1>2. StreamTyped' /\ HeardCurrent' /\ ParserInv'
  BY <1>1, StreamStutters, ParserInvStutters DEF Typed
<1>3. wire' \in Seq(Byte)
  <2>1. wire' = Encoded(m, memory') /\ binary \in BOOLEAN /\ m \in Calls
    BY CallKinds DEF Call, Typed, CallTyped
  <2> QED
    BY <1>1, <2>1, EncodedType
<1>4. pc' = pc /\ telopt' = telopt /\ opt' = opt
  BY <1>1 DEF stream, parser
<1>5. message' # NoMessage
  BY <1>1, CallKinds
<1> QED
  BY <1>1, <1>2, <1>3, <1>4, <1>5 DEF Typed, CallTyped

LEMMA ReceiveStep ==
    ASSUME Typed, Receive
    PROVE  Typed'
<1>1. /\ wire # <<>> /\ heard = <<>> /\ Stream!Decode(Head(wire)) /\ wire' = Tail(wire)
      /\ message' = message /\ memory' = memory /\ binary' = binary /\ UNCHANGED parser
  BY DEF Receive
<1>2. Head(wire) \in Byte /\ Tail(wire) \in Seq(Byte)
  BY <1>1, HeadTailProperties DEF Typed, CallTyped
<1>3. StreamTyped' /\ HeardCurrent' /\ ParserInv'
  BY <1>1, <1>2, DecodeTyped, ParserInvStutters DEF Typed
<1>4. message # NoMessage
  BY <1>1 DEF Typed, CallTyped, Idle
<1>5. pc' = "idle"
  BY DEF Receive, parser
<1> QED
  BY <1>1, <1>2, <1>3, <1>4, <1>5 DEF Typed, CallTyped

LEMMA HandleStep ==
    ASSUME Typed, Handle
    PROVE  Typed'
<1>1. /\ heard # <<>> /\ heard' = Tail(heard)
      /\ message' = message /\ memory' = memory /\ binary' = binary /\ wire' = wire
      /\ mode' = mode /\ opt' = opt /\ payload' = payload /\ translate' = translate
      /\ pc = "idle"
  BY DEF Handle
<1>2. /\ heard \in Seq(HeardEvent) /\ heard' \in Seq(HeardEvent)
      /\ Len(heard') = Len(heard) - 1 /\ Len(heard) \in Nat \ {0}
      /\ \A i \in 1 .. Len(heard') : heard'[i] = heard[i + 1]
      /\ Head(heard) = heard[1] /\ DOMAIN heard = 1 .. Len(heard) /\ DOMAIN heard' = 1 .. Len(heard')
  BY <1>1, HeadTailProperties, EmptySeq DEF Typed, StreamTyped
<1>3. StreamTyped' /\ HeardCurrent'
  <2>1. \A i \in 1 .. Len(heard') : i + 1 \in 1 .. Len(heard)
    BY <1>2
  <2> QED
    BY <1>1, <1>2, <2>1 DEF Typed, StreamTyped, HeardCurrent
<1>4. ParserInv' /\ (pc' # "idle" => telopt' = opt)
  <2>1. CASE Head(heard).kind = "subnegotiation"
    <3>1. Head(heard).opt = opt /\ Head(heard).payload = payload
      <4>1. 1 \in DOMAIN heard
        BY <1>2
      <4> QED
        BY <1>2, <2>1, <4>1 DEF Typed, HeardCurrent
    <3>2. Begin(opt, payload) /\ payload \in Seq(Byte)
      BY <2>1, <3>1 DEF Handle, Typed, StreamTyped
    <3> QED
      BY <3>2, BeginInv DEF Begin
  <2>2. CASE Head(heard).kind # "subnegotiation"
    <3>1. UNCHANGED parser
      BY <2>2 DEF Handle
    <3> QED
      BY <1>1, <3>1, ParserInvStutters DEF Typed, parser
  <2> QED
    BY <2>1, <2>2
<1>5. message # NoMessage
  BY <1>1 DEF Typed, CallTyped, Idle
<1> QED
  BY <1>1, <1>3, <1>4, <1>5 DEF Typed, CallTyped

LEMMA ParseKeeps ==
    ASSUME Parse
    PROVE  pc # "idle" /\ telopt' = telopt /\ (pc' = "idle" \/ event' = event)
BY DEF Parse, EnvironStart, EnvironEntry, EnvironCopy, EnvironName, EnvironValue, MsspStart,
       MsspCopy, MsspPart, MsspEvent, ZmpStart, ZmpArgument, TtypeEvent, Give

LEMMA ParsingStep ==
    ASSUME Typed, Parsing
    PROVE  Typed'
<1>1. /\ Parse /\ UNCHANGED stream
      /\ message' = message /\ memory' = memory /\ binary' = binary /\ wire' = wire
  BY DEF Parsing
<1>2. StreamTyped' /\ HeardCurrent' /\ ParserInv'
  BY <1>1, StreamStutters, ParseInv DEF Typed
<1>3. pc # "idle" /\ telopt' = telopt
  BY <1>1, ParseKeeps
<1>4. message # NoMessage /\ opt' = opt
  BY <1>1, <1>3 DEF Typed, CallTyped, Idle, stream
<1> QED
  BY <1>1, <1>2, <1>3, <1>4 DEF Typed, CallTyped

LEMMA ForgetStep ==
    ASSUME Typed, Forget
    PROVE  Typed'
<1>1. /\ wire = <<>> /\ heard = <<>> /\ wire' = wire /\ heard' = heard /\ binary' = binary
      /\ message' = NoMessage /\ memory' = TRUE /\ mode' = "data" /\ opt' = "none"
      /\ payload' = <<>> /\ translate' = ~binary /\ Begin("none", <<>>)
  BY DEF Forget, Idle
<1>2. binary \in BOOLEAN /\ <<>> \in Seq(Byte)
  BY DEF Typed, CallTyped
<1>3. StreamTyped' /\ HeardCurrent'
  BY <1>1, <1>2 DEF StreamTyped, HeardCurrent
<1>4. ParserInv'
  BY <1>1, <1>2, BeginInv
<1>5. pc' = "idle"
  BY <1>1 DEF Begin
<1>6. translate' = ~binary'
  BY <1>1, Zenon
<1> QED
  BY <1>1, <1>2, <1>3, <1>4, <1>5, <1>6 DEF Typed, CallTyped, Idle

LEMMA TypedStep ==
    ASSUME Typed, [Next]_vars
    PROVE  Typed'
<1>1. CASE message = NoMessage /\ \E m \in Messages : Call(m)
  BY <1>1, CallStep
<1>2. CASE UNCHANGED vars
  <2>1. UNCHANGED stream /\ UNCHANGED parser
    BY <1>2 DEF vars
  <2>2. StreamTyped' /\ HeardCurrent' /\ ParserInv'
    BY <2>1, StreamStutters, ParserInvStutters DEF Typed
  <2>3. /\ message' = message /\ memory' = memory /\ binary' = binary /\ wire' = wire
        /\ mode' = mode /\ opt' = opt /\ translate' = translate /\ heard' = heard
        /\ pc' = pc /\ telopt' = telopt
    BY <1>2 DEF vars, stream, parser
  <2> QED
    BY <2>2, <2>3 DEF Typed, CallTyped, Idle
<1> QED
  BY <1>1, <1>2, ReceiveStep, HandleStep, ParsingStep, ForgetStep DEF Next

THEOREM AlwaysTyped ==
    Spec => []Typed
<1>1. Init => Typed
  BY TypedInit
<1>2. Typed /\ [Next]_vars => Typed'
  BY TypedStep
<1> QED
  BY <1>1, <1>2, PTL DEF Spec

\* The variables have their types, and between two calls nothing is left over.
THEOREM TypeCorrect ==
    Spec => []TypeOK
<1>1. Typed => TypeOK
  <2> SUFFICES ASSUME Typed
               PROVE  TypeOK
    OBVIOUS
  <2>1. ParserTypeOK
    BY MessagesAssumption, ParserInvBounds DEF Typed
  <2> QED
    BY <2>1 DEF Typed, StreamTyped, CallTyped, TypeOK
<1> QED
  BY <1>1, AlwaysTyped, PTL

\* The parsers stay in the payload and in the array they counted the entries of,
\* whatever the payload is: the two passes of _environ_telnet() and of
\* _zmp_telnet() agree on every buffer, although the second writes into it.
THEOREM InBoundsHolds ==
    Spec => []InBounds
<1>1. Typed => InBounds
  BY MessagesAssumption, ParserInvBounds DEF Typed
<1> QED
  BY <1>1, AlwaysTyped, PTL

-----------------------------------------------------------------------------
(* What is sent arrives.                                                   *)

LEMMA ConsFacts ==
    ASSUME NEW B, NEW x \in B, NEW s \in Seq(B)
    PROVE  /\ <<x>> \o s \in Seq(B) /\ <<x>> \o s # <<>>
           /\ Head(<<x>> \o s) = x /\ Tail(<<x>> \o s) = s
<1> DEFINE p == <<x>>
           w == p \o s
<1>1. p \in Seq(B) /\ Len(p) = 1 /\ p[1] = x /\ Len(s) \in Nat
  OBVIOUS
<1> HIDE DEF p
<1>2. p \in Seq(B)
  BY <1>1
<1>3. /\ w \in Seq(B) /\ Len(w) = Len(p) + Len(s)
      /\ \A i \in 1 .. Len(p) + Len(s) : w[i] = IF i <= Len(p) THEN p[i] ELSE s[i - Len(p)]
  BY <1>2, ConcatProperties
<1> HIDE DEF w
<1>4. Len(w) = Len(s) + 1 /\ w # <<>> /\ w[1] = x
  BY <1>1, <1>3, EmptySeq
<1> DEFINE t == Tail(w)
<1>5. t \in Seq(B) /\ Len(t) = Len(w) - 1 /\ \A i \in 1 .. Len(t) : t[i] = w[i + 1]
  BY <1>3, <1>4, HeadTailProperties
<1> HIDE DEF t
<1>6. ASSUME NEW i \in 1 .. Len(t)
      PROVE  t[i] = s[i]
  <2>1. i + 1 \in 1 .. Len(p) + Len(s) /\ ~(i + 1 <= Len(p)) /\ (i + 1) - Len(p) = i
    BY <1>1, <1>4, <1>5
  <2>2. t[i] = w[i + 1]
    BY <1>5
  <2> QED
    BY <1>3, <2>1, <2>2
<1>7. t = s
  BY <1>1, <1>4, <1>5, <1>6, SeqEqual
<1> QED
  BY <1>3, <1>4, <1>7 DEF p, w, t

\* A first element, and then a rest, instead of a sequence.
LEMMA Regroup ==
    ASSUME NEW B, NEW d \in Seq(B), NEW x \in B, NEW r \in Seq(B)
    PROVE  d \o (<<x>> \o r) = (d \o <<x>>) \o r
<1> DEFINE p == <<x>>
<1>1. p \in Seq(B)
  OBVIOUS
<1> HIDE DEF p
<1>2. (d \o p) \o r = d \o (p \o r)
  BY SMTT(60), <1>1, ConcatAssociative
<1> QED
  BY <1>2 DEF p

LEMMA BytesFacts ==
    ASSUME NEW d \in Seq(Byte), NEW b \in Byte
    PROVE  /\ Bytes(d) \in Seq(HeardEvent) /\ Len(Bytes(d)) = Len(d)
           /\ \A i \in 1 .. Len(d) : Bytes(d)[i] = Stream!Data(d[i])
           /\ Bytes(d \o <<b>>) = Bytes(d) \o <<Stream!Data(b)>>
<1>1. ASSUME NEW s \in Seq(Byte)
      PROVE  /\ Bytes(s) \in Seq(HeardEvent) /\ Len(Bytes(s)) = Len(s)
             /\ \A i \in 1 .. Len(s) : Bytes(s)[i] = Stream!Data(s[i])
  <2>1. Len(s) \in Nat /\ DOMAIN s = 1 .. Len(s) /\ \A i \in 1 .. Len(s) : s[i] \in Byte
    BY ElementOfSeq
  <2>2. \A i \in 1 .. Len(s) : Stream!Data(s[i]) \in HeardEvent
    BY <2>1 DEF Stream!Data, HeardEvent
  <2>3. Bytes(s) \in [1 .. Len(s) -> HeardEvent]
    BY <2>1, <2>2 DEF Bytes
  <2>4. Bytes(s) \in Seq(HeardEvent) /\ Len(Bytes(s)) = Len(s)
    BY <2>1, <2>3
  <2> QED
    BY <2>1, <2>4 DEF Bytes
<1> DEFINE p == <<b>>
           q == <<Stream!Data(b)>>
           e == d \o p
           x == Bytes(d)
           y == Bytes(e)
           z == x \o q
           n == Len(d)
<1>2. /\ p \in Seq(Byte) /\ Len(p) = 1 /\ p[1] = b
      /\ q \in Seq(HeardEvent) /\ Len(q) = 1 /\ q[1] = Stream!Data(b) /\ n \in Nat
  <2>1. Stream!Data(b) \in HeardEvent
    BY DEF Stream!Data, HeardEvent
  <2> HIDE DEF HeardEvent
  <2> QED
    BY <2>1
<1> HIDE DEF p, q
<1>3. p \in Seq(Byte) /\ q \in Seq(HeardEvent)
  BY <1>2
<1>4. /\ e \in Seq(Byte) /\ Len(e) = Len(d) + Len(p)
      /\ \A i \in 1 .. Len(d) + Len(p) : e[i] = IF i <= Len(d) THEN d[i] ELSE p[i - Len(d)]
  BY <1>3, ConcatProperties
<1> HIDE DEF e
<1>5. /\ x \in Seq(HeardEvent) /\ Len(x) = n /\ \A i \in 1 .. n : x[i] = Stream!Data(d[i])
      /\ y \in Seq(HeardEvent) /\ Len(y) = Len(e) /\ \A i \in 1 .. Len(e) : y[i] = Stream!Data(e[i])
  BY <1>1, <1>4
<1> HIDE DEF x, y
<1>6. /\ z \in Seq(HeardEvent) /\ Len(z) = Len(x) + Len(q)
      /\ \A i \in 1 .. Len(x) + Len(q) : z[i] = IF i <= Len(x) THEN x[i] ELSE q[i - Len(x)]
  <2>1. x \in Seq(HeardEvent) /\ q \in Seq(HeardEvent)
    BY <1>3, <1>5
  <2> QED
    BY <2>1, ConcatProperties
<1> HIDE DEF z
<1>7. Len(y) = n + 1 /\ Len(z) = n + 1
  BY <1>2, <1>4, <1>5, <1>6
<1>8. ASSUME NEW i \in 1 .. n + 1
      PROVE  y[i] = z[i]
  <2>1. CASE i <= n
    <3>1. e[i] = d[i] /\ y[i] = Stream!Data(e[i]) /\ z[i] = x[i] /\ x[i] = Stream!Data(d[i])
      BY <1>2, <1>4, <1>5, <1>6, <1>7, <2>1
    <3> QED
      BY <3>1
  <2>2. CASE ~(i <= n)
    <3>1. i = n + 1 /\ i - n = 1
      BY <1>2, <2>2
    <3>2. e[i] = b /\ y[i] = Stream!Data(e[i]) /\ z[i] = Stream!Data(b)
      BY <1>2, <1>4, <1>5, <1>6, <1>7, <2>2, <3>1
    <3> QED
      BY <3>2
  <2> QED
    BY <2>1, <2>2
<1>9. y = z
  BY <1>5, <1>6, <1>7, <1>8, SeqEqual
<1> QED
  BY <1>1, <1>9 DEF p, q, e, x, y, z

TextCalls == {"send", "send_text", "printf", "raw_printf"}

\* The text of a call, and whether its line ends are written out.
Text(m) == IF m.call = "printf" /\ binary THEN Untranslated(m.bytes) ELSE m.bytes

Nvt(m) == m.call \in {"send_text", "printf"} /\ ~binary

\* Nothing in the text is taken for something else.
Readable(t, nvt) ==
    IF nvt THEN translate ELSE translate => \A i \in DOMAIN t : t[i] # "CR"

LEMMA TextSent ==
    ASSUME NEW m \in Messages, m.call \in TextCalls, NEW mem \in BOOLEAN, binary \in BOOLEAN
    PROVE  /\ Text(m) \in Seq(Byte) /\ Nvt(m) \in BOOLEAN
           /\ Expected(m) = Bytes(Text(m))
           /\ Encoded(m, mem) = IF m.call \in {"printf", "raw_printf"} /\ NeedsMemory(m.bytes) /\ ~mem
                                  THEN <<>> ELSE Encoding(Text(m), Nvt(m))
           /\ ~RawCr(m) /\ translate = ~binary => Readable(Text(m), Nvt(m))
<1>1. m \in Calls
  BY CallKinds
<1>2. m.bytes \in Seq(Byte)
  BY <1>1 DEF Calls, TextCalls
<1>3. Untranslated(m.bytes) \in Seq(Byte)
  BY <1>2, UntranslatedHead
<1>4. Text(m) \in Seq(Byte) /\ Nvt(m) \in BOOLEAN
  BY <1>2, <1>3 DEF Text, Nvt
<1>5. \A nvt \in BOOLEAN : SendPortions(m.bytes, nvt) = Encoding(m.bytes, nvt)
  BY <1>2, SendsCodes
<1>6. Encoding(m.bytes, TRUE) = Encoding(Untranslated(m.bytes), FALSE)
  BY <1>2, UntranslatedEncoding
<1>7. CASE m.call = "send"
  <2>1. Encoded(m, mem) = SendPortions(m.bytes, FALSE)
    BY <1>7 DEF Encoded, telnet_send
  <2>2. Text(m) = m.bytes /\ Nvt(m) = FALSE
    BY <1>7 DEF Text, Nvt
  <2>3. Expected(m) = Bytes(m.bytes)
    BY <1>7 DEF Expected
  <2>4. ~RawCr(m) /\ translate = ~binary => Readable(Text(m), Nvt(m))
    BY <1>7, <2>2 DEF RawCr, HasAny, Readable
  <2> QED
    BY <1>4, <1>5, <1>7, <2>1, <2>2, <2>3, <2>4
<1>8. CASE m.call = "raw_printf"
  <2>1. Encoded(m, mem) = IF NeedsMemory(m.bytes) /\ ~mem THEN <<>> ELSE SendPortions(m.bytes, FALSE)
    BY <1>8 DEF Encoded, telnet_raw_vprintf, telnet_send
  <2>2. Text(m) = m.bytes /\ Nvt(m) = FALSE
    BY <1>8 DEF Text, Nvt
  <2>3. Expected(m) = Bytes(m.bytes)
    BY <1>8 DEF Expected
  <2>4. ~RawCr(m) /\ translate = ~binary => Readable(Text(m), Nvt(m))
    BY <1>8, <2>2 DEF RawCr, HasAny, Readable
  <2> QED
    BY <1>4, <1>5, <1>8, <2>1, <2>2, <2>3, <2>4
<1>9. CASE m.call = "send_text"
  <2>1. Encoded(m, mem) = SendPortions(m.bytes, ~binary)
    BY <1>9 DEF Encoded, telnet_send_text
  <2>2. Text(m) = m.bytes /\ Nvt(m) = ~binary
    BY <1>9 DEF Text, Nvt
  <2>3. Expected(m) = Bytes(m.bytes)
    BY <1>9 DEF Expected
  <2>4. translate = ~binary => Readable(Text(m), Nvt(m))
    BY <2>2 DEF Readable
  <2>5. SendPortions(m.bytes, ~binary) = Encoding(m.bytes, ~binary)
    BY <1>5
  <2> QED
    BY <1>4, <1>9, <2>1, <2>2, <2>3, <2>4, <2>5
<1>10. CASE m.call = "printf"
  <2>1. Encoded(m, mem) = IF NeedsMemory(m.bytes) /\ ~mem THEN <<>> ELSE SendPortions(m.bytes, TRUE)
    BY <1>10 DEF Encoded, telnet_vprintf
  <2>2. Text(m) = (IF binary THEN Untranslated(m.bytes) ELSE m.bytes) /\ Nvt(m) = ~binary
    BY <1>10 DEF Text, Nvt
  <2>3. Expected(m) = Bytes(Text(m))
    BY <1>10, <2>2 DEF Expected
  <2>4. translate = ~binary => Readable(Text(m), Nvt(m))
    BY <2>2 DEF Readable
  <2>5. SendPortions(m.bytes, TRUE) = Encoding(Text(m), Nvt(m))
    BY <1>5, <1>6, <2>2
  <2> QED
    BY <1>4, <1>10, <2>1, <2>3, <2>4, <2>5
<1> QED
  BY <1>7, <1>8, <1>9, <1>10 DEF TextCalls

LEMMA CodeCases ==
    ASSUME NEW b \in Byte, NEW nvt \in BOOLEAN
    PROVE  \/ Code(b, nvt) = <<b>> /\ b # "IAC" /\ (nvt => b # "CR")
           \/ b = "IAC" /\ Code(b, nvt) = <<"IAC", "IAC">>
           \/ nvt /\ b = "CR" /\ Code(b, nvt) = <<"CR", "NUL">>
           \/ nvt /\ b = "LF" /\ Code(b, nvt) = <<"CR", "LF">>
BY DEF Code, Instead, NvtEscape, Escape, CRNUL, CRLF, telnet_iac

LEMMA PairCons ==
    ASSUME NEW B, NEW x \in B, NEW y \in B, NEW s \in Seq(B)
    PROVE  <<x, y>> \o s = <<x>> \o (<<y>> \o s)
<1> DEFINE p == <<x>>
           q == <<y>>
<1>1. p \in Seq(B) /\ q \in Seq(B)
  OBVIOUS
<1>2. <<x, y>> = p \o q
  BY PairIs
<1> HIDE DEF p, q
<1>3. (p \o q) \o s = p \o (q \o s)
  BY <1>1, ConcatAssociative
<1> QED
  BY <1>2, <1>3 DEF p, q

LEMMA MiddleElement ==
    ASSUME NEW B, NEW d \in Seq(B), NEW b \in B, NEW r \in Seq(B)
    PROVE  /\ Len(d) + 1 \in DOMAIN (d \o (<<b>> \o r))
           /\ (d \o (<<b>> \o r))[Len(d) + 1] = b
<1> DEFINE s == <<b>> \o r
           t == d \o s
<1>1. s \in Seq(B) /\ s # <<>> /\ Head(s) = b
  BY ConsFacts
<1> HIDE DEF s
<1>2. s[1] = b /\ Len(s) \in Nat \ {0} /\ Len(d) \in Nat
  BY <1>1, EmptySeq
<1>3. /\ t \in Seq(B) /\ Len(t) = Len(d) + Len(s)
      /\ \A i \in 1 .. Len(d) + Len(s) : t[i] = IF i <= Len(d) THEN d[i] ELSE s[i - Len(d)]
  BY <1>1, ConcatProperties
<1> HIDE DEF t
<1>4. /\ Len(d) + 1 \in 1 .. Len(d) + Len(s) /\ ~(Len(d) + 1 <= Len(d))
      /\ (Len(d) + 1) - Len(d) = 1
  BY <1>2
<1>5. DOMAIN t = 1 .. Len(t)
  BY <1>3
<1>6. t[Len(d) + 1] = b
  BY <1>2, <1>3, <1>4
<1> QED
  BY <1>3, <1>4, <1>5, <1>6 DEF s, t

\* What the other end makes of a byte, mode by mode.
LEMMA DecodesData ==
    ASSUME heard = <<>>, mode = "data", NEW b \in Byte, Stream!Decode(b)
    PROVE  /\ opt' = opt /\ payload' = payload /\ translate' = translate
           /\ b = "IAC" => mode' = "iac" /\ heard' = <<>>
           /\ b = "CR" /\ translate => mode' = "cr" /\ heard' = <<>>
           /\ b # "IAC" /\ ~(b = "CR" /\ translate) => mode' = "data" /\ heard' = <<Stream!Data(b)>>
<1>1. Stream!InData(b)
  BY DEF Stream!Decode, Stream!InCr, Stream!InIac, Stream!InNegotiation, Stream!InOption,
         Stream!InPayload, Stream!InDiscard, Stream!InPayloadIac, Stream!Negotiations
<1>2. \A x \in HeardEvent : <<>> \o <<x>> = <<x>>
  <2> SUFFICES ASSUME NEW x \in HeardEvent
               PROVE  <<>> \o <<x>> = <<x>>
    OBVIOUS
  <2>1. <<x>> \in Seq(HeardEvent)
    OBVIOUS
  <2> QED
    BY <2>1, ConcatEmptySeq
<1>3. Stream!Data(b) \in HeardEvent
  BY DEF Stream!Data, HeardEvent
<1>4. <<>> \o <<>> = <<>>
  BY EmptySeq, ConcatEmptySeq
<1> QED
  BY <1>1, <1>2, <1>3, <1>4 DEF Stream!InData, Stream!Emit

LEMMA DecodesCr ==
    ASSUME heard = <<>>, mode = "cr", NEW b \in {"LF", "NUL"}, Stream!Decode(b)
    PROVE  /\ opt' = opt /\ payload' = payload /\ translate' = translate /\ mode' = "data"
           /\ heard' = <<Stream!Data(IF b = "LF" THEN "LF" ELSE "CR")>>
<1>1. Stream!InCr(b)
  BY DEF Stream!Decode, Stream!InData, Stream!InIac, Stream!InNegotiation, Stream!InOption,
         Stream!InPayload, Stream!InDiscard, Stream!InPayloadIac, Stream!Negotiations
<1> DEFINE x == Stream!Data(IF b = "LF" THEN "LF" ELSE "CR")
           e == <<x>>
<1>2. e \in Seq(HeardEvent)
  <2>1. x \in HeardEvent
    BY AddedBytes DEF Stream!Data, HeardEvent, Added
  <2> HIDE DEF x
  <2> QED
    BY <2>1
<1>3. Stream!Emit(e)
  BY <1>1 DEF Stream!InCr
<1> HIDE DEF e
<1>4. heard' = e
  BY <1>2, <1>3, EmitIs
<1> QED
  BY <1>1, <1>4 DEF Stream!InCr, e

LEMMA DecodesIac ==
    ASSUME heard = <<>>, mode = "iac", NEW b \in Byte \ Stream!Negotiations, Stream!Decode(b)
    PROVE  /\ opt' = opt /\ payload' = payload /\ translate' = translate
           /\ b = "SB" => mode' = "option" /\ heard' = <<>>
           /\ b = "IAC" => mode' = "data" /\ heard' = <<Stream!Data("IAC")>>
           /\ b \notin {"SB", "IAC"} => mode' = "data" /\ heard' = <<Stream!Iac(b)>>
<1>1. Stream!InIac(b)
  BY DEF Stream!Decode, Stream!InData, Stream!InCr, Stream!InNegotiation, Stream!InOption,
         Stream!InPayload, Stream!InDiscard, Stream!InPayloadIac, Stream!Negotiations
<1>2. \A x \in HeardEvent : <<>> \o <<x>> = <<x>>
  <2> SUFFICES ASSUME NEW x \in HeardEvent
               PROVE  <<>> \o <<x>> = <<x>>
    OBVIOUS
  <2>1. <<x>> \in Seq(HeardEvent)
    OBVIOUS
  <2> QED
    BY <2>1, ConcatEmptySeq
<1>3. Stream!Data("IAC") \in HeardEvent /\ Stream!Iac(b) \in HeardEvent
  BY AddedBytes DEF Stream!Data, Stream!Iac, HeardEvent, Added
<1>4. <<>> \o <<>> = <<>>
  BY EmptySeq, ConcatEmptySeq
<1> QED
  BY <1>1, <1>2, <1>3, <1>4 DEF Stream!InIac, Stream!Command, Stream!Emit, Stream!Negotiations

\* The second byte of a code of two.
Second(b) == IF b = "CR" THEN "NUL" ELSE b

\* The other end has d of the text, and the rest is on the wire; or it has read
\* the first byte of the code of the byte b that comes next.
Between(t, nvt, d, u) ==
    mode = "data" /\ t = d \o u /\ wire = Encoding(u, nvt)

Within(t, nvt, d, b, u) ==
    /\ mode = IF b = "IAC" THEN "iac" ELSE "cr"
    /\ t = d \o (<<b>> \o u)
    /\ wire = <<Second(b)>> \o Encoding(u, nvt)

InText(t, nvt) ==
    /\ Readable(t, nvt) /\ pc = "idle"
    /\ got \in Seq(HeardEvent)
    /\ \E d, u \in Seq(Byte) :
        /\ got \o heard = Bytes(d)
        /\ Between(t, nvt, d, u) \/ \E b \in {"IAC", "CR", "LF"} : Within(t, nvt, d, b, u)

LEMMA TextReceive ==
    ASSUME Typed, NEW t \in Seq(Byte), NEW nvt \in BOOLEAN, InText(t, nvt), Receive
    PROVE  InText(t, nvt)' /\ translate' = translate
<1>1. /\ wire \in Seq(Byte) /\ wire # <<>> /\ heard = <<>> /\ Stream!Decode(Head(wire))
      /\ wire' = Tail(wire) /\ got' = got /\ pc' = "idle" /\ got \in Seq(HeardEvent)
      /\ Head(wire) \in Byte
  BY HeadTailProperties DEF Receive, parser, Typed, CallTyped, InText
<1>2. PICK d \in Seq(Byte), u \in Seq(Byte) :
        /\ got \o heard = Bytes(d)
        /\ Between(t, nvt, d, u) \/ \E b \in {"IAC", "CR", "LF"} : Within(t, nvt, d, b, u)
  BY DEF InText
<1>3. got = Bytes(d)
  BY <1>1, <1>2, ConcatEmptySeq
<1>4. Readable(t, nvt)
  BY DEF InText
<1>5. {"IAC", "CR", "LF", "NUL"} \subseteq Byte
  BY AddedBytes DEF Added
\* A byte is read to its end.
<1>6. ASSUME NEW b \in Byte, NEW r \in Seq(Byte), t = d \o (<<b>> \o r), wire' = Encoding(r, nvt),
             mode' = "data", heard' = <<Stream!Data(b)>>, translate' = translate
      PROVE  InText(t, nvt)' /\ translate' = translate
  <2> DEFINE e == d \o <<b>>
  <2>1. e \in Seq(Byte)
    OBVIOUS
  <2>2. Bytes(e) = Bytes(d) \o <<Stream!Data(b)>>
    BY BytesFacts
  <2>3. t = e \o r
    BY <1>6, Regroup
  <2> HIDE DEF e
  <2>4. got' \o heard' = Bytes(e)
    BY <1>1, <1>3, <1>6, <2>2
  <2>5. Between(t, nvt, e, r)'
    BY <1>6, <2>3 DEF Between
  <2>6. Readable(t, nvt)'
    BY <1>4, <1>6 DEF Readable
  <2>7. Bytes(e)' = Bytes(e)
    OBVIOUS
  <2> QED
    BY <1>1, <1>6, <2>1, <2>4, <2>5, <2>6 DEF InText
\* The first byte of a code of two is read.
<1>7. ASSUME NEW b \in {"IAC", "CR", "LF"}, NEW r \in Seq(Byte), t = d \o (<<b>> \o r),
             wire' = <<Second(b)>> \o Encoding(r, nvt), mode' = IF b = "IAC" THEN "iac" ELSE "cr",
             heard' = <<>>, translate' = translate
      PROVE  InText(t, nvt)' /\ translate' = translate
  <2>1. Within(t, nvt, d, b, r)'
    BY <1>7 DEF Within
  <2>2. Readable(t, nvt)'
    BY <1>4, <1>7 DEF Readable
  <2>3. got' \o heard' = Bytes(d)
    BY <1>1, <1>2, <1>7
  <2> QED
    BY <1>1, <1>7, <2>1, <2>2, <2>3 DEF InText
<1>8. CASE Between(t, nvt, d, u)
  <2> DEFINE b == Head(u)
             r == Tail(u)
             w == Encoding(r, nvt)
  <2>1. u # <<>>
    BY <1>1, <1>8, EncodingEmpty DEF Between
  <2>2. b \in Byte /\ r \in Seq(Byte) /\ u = <<b>> \o r /\ w \in Seq(Byte)
    <3>1. b \in Byte /\ r \in Seq(Byte) /\ u = <<b>> \o r
      BY <2>1, HeadTailProperties
    <3> HIDE DEF r
    <3> QED
      BY <3>1, EncodingType
  <2>3. wire = Code(b, nvt) \o w /\ t = d \o (<<b>> \o r) /\ mode = "data"
    BY <1>8, <2>1, <2>2, EncodingHead DEF Between
  <2> HIDE DEF b, r
  <2>4. nvt => translate
    BY <1>4 DEF Readable
  <2>5. ~nvt /\ b = "CR" => ~translate
    <3>1. Len(d) + 1 \in DOMAIN t /\ t[Len(d) + 1] = b
      BY <2>2, <2>3, MiddleElement
    <3> QED
      BY <1>4, <3>1 DEF Readable
  <2>6. CASE Code(b, nvt) = <<b>> /\ b # "IAC" /\ (nvt => b # "CR")
    <3>1. Head(wire) = b /\ Tail(wire) = w
      BY <2>2, <2>3, <2>6, ConsFacts
    <3>2. b # "IAC" /\ ~(b = "CR" /\ translate)
      BY <2>5, <2>6
    <3> QED
      BY <1>1, <1>6, <2>2, <2>3, <3>1, <3>2, DecodesData
  <2>7. ASSUME NEW x \in Byte, NEW y \in Byte, Code(b, nvt) = <<x, y>>
        PROVE  Head(wire) = x /\ Tail(wire) = <<y>> \o w
    <3>1. wire = <<x>> \o (<<y>> \o w)
      <4>1. w \in Seq(Byte)
        BY <2>2
      <4>2. wire = <<x, y>> \o w
        BY <2>3, <2>7
      <4> HIDE DEF w
      <4>3. <<x, y>> \o w = <<x>> \o (<<y>> \o w)
        BY SMTT(60), <4>1, PairCons
      <4> QED
        BY <4>2, <4>3
    <3>2. <<y>> \o w \in Seq(Byte)
      BY <2>2, ConsFacts
    <3> QED
      BY <3>1, <3>2, ConsFacts
  <2> HIDE DEF w
  <2>8. CASE b = "IAC" /\ Code(b, nvt) = <<"IAC", "IAC">>
    <3>1. Head(wire) = "IAC" /\ Tail(wire) = <<Second(b)>> \o w
      BY <1>5, <2>7, <2>8 DEF Second
    <3> QED
      BY <1>1, <1>5, <1>7, <2>2, <2>3, <2>8, <3>1, DecodesData DEF w
  <2>9. CASE nvt /\ b = "CR" /\ Code(b, nvt) = <<"CR", "NUL">>
    <3>1. Head(wire) = "CR" /\ Tail(wire) = <<Second(b)>> \o w
      BY <1>5, <2>7, <2>9 DEF Second
    <3> QED
      BY <1>1, <1>5, <1>7, <2>2, <2>3, <2>4, <2>9, <3>1, DecodesData DEF w
  <2>10. CASE nvt /\ b = "LF" /\ Code(b, nvt) = <<"CR", "LF">>
    <3>1. Head(wire) = "CR" /\ Tail(wire) = <<Second(b)>> \o w
      BY <1>5, <2>7, <2>10 DEF Second
    <3> QED
      BY <1>1, <1>5, <1>7, <2>2, <2>3, <2>4, <2>10, <3>1, DecodesData DEF w
  <2> QED
    BY <2>2, <2>6, <2>8, <2>9, <2>10, CodeCases
<1>9. CASE \E b \in {"IAC", "CR", "LF"} : Within(t, nvt, d, b, u)
  <2>1. PICK b \in {"IAC", "CR", "LF"} : Within(t, nvt, d, b, u)
    BY <1>9
  <2>2. Encoding(u, nvt) \in Seq(Byte)
    BY EncodingType
  <2>3. Second(b) \in Byte /\ b \in Byte
    BY <1>5 DEF Second
  <2>4. Head(wire) = Second(b) /\ wire' = Encoding(u, nvt)
    BY <1>1, <2>1, <2>2, <2>3, ConsFacts DEF Within
  <2>5. t = d \o (<<b>> \o u)
    BY <2>1 DEF Within
  <2>6. translate' = translate /\ mode' = "data" /\ heard' = <<Stream!Data(b)>>
    <3>1. CASE b = "IAC"
      <4>1. mode = "iac" /\ Head(wire) = "IAC"
        BY <2>1, <2>4, <3>1 DEF Within, Second
      <4>2. "IAC" \in Byte \ Stream!Negotiations
        BY <1>5 DEF Stream!Negotiations
      <4> QED
        BY <1>1, <3>1, <4>1, <4>2, DecodesIac
    <3>2. CASE b # "IAC"
      <4>1. mode = "cr" /\ Head(wire) \in {"LF", "NUL"} /\ (Head(wire) = "LF" <=> b = "LF")
        BY <2>1, <2>4, <3>2 DEF Within, Second
      <4> QED
        BY <1>1, <3>2, <4>1, DecodesCr
    <3> QED
      BY <3>1, <3>2
  <2> QED
    BY <1>6, <2>3, <2>4, <2>5, <2>6
<1> QED
  BY <1>2, <1>8, <1>9

LEMMA HandleMoves ==
    ASSUME Typed, Handle, got \in Seq(HeardEvent)
    PROVE  /\ Head(heard) \in HeardEvent /\ Tail(heard) \in Seq(HeardEvent)
           /\ heard = <<Head(heard)>> \o Tail(heard)
           /\ got' \in Seq(HeardEvent) /\ got' \o heard' = got \o heard
<1> DEFINE h == Head(heard)
           r == Tail(heard)
<1>1. heard \in Seq(HeardEvent) /\ heard # <<>> /\ got' = Append(got, h) /\ heard' = r
  BY DEF Typed, StreamTyped, Handle
<1>2. h \in HeardEvent /\ r \in Seq(HeardEvent) /\ heard = <<h>> \o r
  BY <1>1, HeadTailProperties
<1> HIDE DEF h, r
<1>3. got' = got \o <<h>> /\ got' \in Seq(HeardEvent)
  BY <1>1, <1>2
<1>4. got \o (<<h>> \o r) = (got \o <<h>>) \o r
  BY <1>2, Regroup
<1> QED
  BY <1>1, <1>2, <1>3, <1>4 DEF h, r

LEMMA TextHandle ==
    ASSUME Typed, NEW t \in Seq(Byte), NEW nvt \in BOOLEAN, InText(t, nvt), Handle
    PROVE  InText(t, nvt)' /\ translate' = translate
<1> DEFINE h == Head(heard)
           r == Tail(heard)
<1>1. got \in Seq(HeardEvent) /\ Readable(t, nvt) /\ pc = "idle"
  BY DEF InText
<1>2. PICK d \in Seq(Byte), u \in Seq(Byte) :
        /\ got \o heard = Bytes(d)
        /\ Between(t, nvt, d, u) \/ \E b \in {"IAC", "CR", "LF"} : Within(t, nvt, d, b, u)
  BY DEF InText
<1>3. /\ h \in HeardEvent /\ r \in Seq(HeardEvent) /\ heard = <<h>> \o r
      /\ got' \in Seq(HeardEvent) /\ got' \o heard' = got \o heard
  BY <1>1, HandleMoves
<1>4. h.kind # "subnegotiation"
  <2> HIDE DEF h, r
  <2>1. /\ Len(got) + 1 \in DOMAIN (got \o (<<h>> \o r))
        /\ (got \o (<<h>> \o r))[Len(got) + 1] = h
    BY <1>1, <1>3, MiddleElement
  <2>2. Len(got) + 1 \in DOMAIN Bytes(d) /\ Bytes(d)[Len(got) + 1] = h
    BY <1>2, <1>3, <2>1
  <2> QED
    BY <2>2 DEF Bytes, Stream!Data
<1>5. /\ mode' = mode /\ wire' = wire /\ translate' = translate /\ UNCHANGED parser
  BY <1>4 DEF Handle
<1>6. pc' = "idle"
  BY <1>1, <1>5 DEF parser
<1>7. Readable(t, nvt)'
  BY <1>1, <1>5 DEF Readable
<1>8. got' \o heard' = Bytes(d)
  BY <1>2, <1>3
<1>9. Between(t, nvt, d, u)' \/ \E b \in {"IAC", "CR", "LF"} : Within(t, nvt, d, b, u)'
  BY <1>2, <1>5 DEF Between, Within
<1> QED
  BY <1>3, <1>5, <1>6, <1>7, <1>8, <1>9 DEF InText

LEMMA TextCalled ==
    ASSUME NEW t \in Seq(Byte), NEW nvt \in BOOLEAN, mode' = "data", heard' = <<>>, got' = <<>>,
           pc' = "idle", wire' = Encoding(t, nvt), Readable(t, nvt)'
    PROVE  InText(t, nvt)'
<1> DEFINE d == <<>>
<1>1. d \in Seq(Byte) /\ t = d \o t /\ got' \in Seq(HeardEvent)
  BY ConcatEmptySeq
<1>2. got' \o heard' = Bytes(d)
  BY EmptySeq, ConcatEmptySeq DEF Bytes
<1> HIDE DEF d
<1>3. Between(t, nvt, d, t)'
  BY <1>1 DEF Between
<1> QED
  BY <1>1, <1>2, <1>3 DEF InText

LEMMA TextArrived ==
    ASSUME NEW t \in Seq(Byte), NEW nvt \in BOOLEAN, InText(t, nvt), wire = <<>>, heard = <<>>
    PROVE  mode = "data" /\ got = Bytes(t)
<1>1. PICK d \in Seq(Byte), u \in Seq(Byte) :
        /\ got \o heard = Bytes(d)
        /\ Between(t, nvt, d, u) \/ \E b \in {"IAC", "CR", "LF"} : Within(t, nvt, d, b, u)
  BY DEF InText
<1>2. got = Bytes(d)
  <2>1. got \in Seq(HeardEvent)
    BY DEF InText
  <2> QED
    BY <1>1, <2>1, ConcatEmptySeq
<1>3. ASSUME NEW b \in {"IAC", "CR", "LF"}
      PROVE  ~Within(t, nvt, d, b, u)
  <2>1. Second(b) \in Byte
    BY AddedBytes DEF Added, Second
  <2>2. Encoding(u, nvt) \in Seq(Byte)
    BY EncodingType
  <2>3. <<Second(b)>> \o Encoding(u, nvt) # <<>>
    BY <2>1, <2>2, ConsFacts
  <2> QED
    BY <2>3 DEF Within
<1>4. Between(t, nvt, d, u)
  BY <1>1, <1>3
<1>5. u = <<>>
  <2>1. ASSUME u # <<>>
        PROVE  FALSE
    <3> DEFINE k == Code(Head(u), nvt)
               z == Encoding(Tail(u), nvt)
    <3>1. Head(u) \in Byte /\ Tail(u) \in Seq(Byte)
      BY <2>1, HeadTailProperties
    <3>2. k \in Seq(Byte) /\ z \in Seq(Byte) /\ k # <<>>
      BY <3>1, InsteadType, EncodingType, CodeNotEmpty
    <3>3. Encoding(u, nvt) = k \o z
      BY <2>1, EncodingHead
    <3> HIDE DEF k, z
    <3>4. k \o z # <<>>
      BY <3>2, ConcatEqualIffEmpty
    <3> QED
      BY <1>4, <3>3, <3>4 DEF Between
  <2> QED
    BY <2>1
<1>6. d = t
  BY <1>4, <1>5, ConcatEmptySeq DEF Between
<1> QED
  BY <1>2, <1>4, <1>6 DEF Between

\* A command.
InCommand(cmd) ==
    /\ pc = "idle" /\ got \in Seq(HeardEvent)
    /\ \/ mode = "data" /\ wire = <<"IAC", cmd>> /\ got = <<>> /\ heard = <<>>
       \/ mode = "iac" /\ wire = <<cmd>> /\ got = <<>> /\ heard = <<>>
       \/ mode = "data" /\ wire = <<>> /\ got \o heard = <<Stream!Iac(cmd)>>

LEMMA CommandReceive ==
    ASSUME Typed, NEW cmd \in Byte \ ({"IAC", "SB"} \cup Stream!Negotiations),
           InCommand(cmd), Receive
    PROVE  InCommand(cmd)'
<1>1. /\ wire # <<>> /\ heard = <<>> /\ Stream!Decode(Head(wire)) /\ wire' = Tail(wire)
      /\ got' = got /\ pc' = "idle" /\ got \in Seq(HeardEvent)
  BY DEF Receive, parser, InCommand
<1>2. "IAC" \in Byte
  BY AddedBytes DEF Added
<1>3. CASE mode = "data" /\ wire = <<"IAC", cmd>> /\ got = <<>>
  <2>1. Head(wire) = "IAC" /\ wire' = <<cmd>>
    BY <1>1, <1>3
  <2>2. mode' = "iac" /\ heard' = <<>>
    BY <1>1, <1>2, <1>3, <2>1, DecodesData
  <2> QED
    BY <1>1, <1>3, <2>1, <2>2 DEF InCommand
<1>4. CASE mode = "iac" /\ wire = <<cmd>> /\ got = <<>>
  <2>1. Head(wire) = cmd /\ wire' = <<>>
    BY <1>1, <1>4
  <2>2. mode' = "data" /\ heard' = <<Stream!Iac(cmd)>>
    BY <1>1, <1>4, <2>1, DecodesIac
  <2>3. got' \o heard' = <<Stream!Iac(cmd)>>
    <3> DEFINE e == <<Stream!Iac(cmd)>>
    <3>1. e \in Seq(HeardEvent)
      <4>1. Stream!Iac(cmd) \in HeardEvent
        BY DEF Stream!Iac, HeardEvent
      <4> QED
        BY <4>1
    <3> HIDE DEF e
    <3>2. <<>> \o e = e
      BY <3>1, ConcatEmptySeq
    <3> QED
      BY <1>1, <1>4, <2>2, <3>2 DEF e
  <2> QED
    BY <1>1, <2>1, <2>2, <2>3 DEF InCommand
<1> QED
  BY <1>1, <1>3, <1>4 DEF InCommand

LEMMA CommandHandle ==
    ASSUME Typed, NEW cmd, InCommand(cmd), Handle
    PROVE  InCommand(cmd)'
<1> DEFINE h == Head(heard)
           r == Tail(heard)
<1>1. got \in Seq(HeardEvent) /\ heard # <<>> /\ mode = "data" /\ wire = <<>> /\ pc = "idle"
      /\ got \o heard = <<Stream!Iac(cmd)>>
  BY DEF InCommand, Handle
<1>2. /\ h \in HeardEvent /\ r \in Seq(HeardEvent) /\ heard = <<h>> \o r
      /\ got' \in Seq(HeardEvent) /\ got' \o heard' = got \o heard
  BY <1>1, HandleMoves
<1>3. h.kind # "subnegotiation"
  <2> HIDE DEF h, r
  <2>1. /\ Len(got) + 1 \in DOMAIN (got \o (<<h>> \o r))
        /\ (got \o (<<h>> \o r))[Len(got) + 1] = h
    BY <1>1, <1>2, MiddleElement
  <2>2. Len(got) + 1 \in DOMAIN <<Stream!Iac(cmd)>> /\ <<Stream!Iac(cmd)>>[Len(got) + 1] = h
    BY <1>1, <1>2, <2>1
  <2>3. h = Stream!Iac(cmd)
    BY <2>2
  <2> QED
    BY <2>3 DEF Stream!Iac
<1>4. mode' = mode /\ wire' = wire /\ UNCHANGED parser
  BY <1>3 DEF Handle
<1>5. pc' = "idle"
  BY <1>1, <1>4 DEF parser
<1> QED
  BY <1>1, <1>2, <1>4, <1>5 DEF InCommand

LEMMA CommandArrived ==
    ASSUME NEW cmd, InCommand(cmd), wire = <<>>, heard = <<>>
    PROVE  mode = "data" /\ got = <<Stream!Iac(cmd)>>
BY ConcatEmptySeq DEF InCommand

\* A subnegotiation.
End == <<"IAC", "SE">>

Rest(u) == Encoding(u, FALSE) \o End

LEMMA RestFacts ==
    ASSUME NEW u \in Seq(Byte)
    PROVE  /\ End \in Seq(Byte) /\ Rest(u) \in Seq(Byte)
           /\ u = <<>> => Rest(u) = End
           /\ u # <<>> => Rest(u) = Code(Head(u), FALSE) \o Rest(Tail(u))
<1>1. End \in Seq(Byte)
  BY AddedBytes DEF Added, End
<1>2. Encoding(u, FALSE) \in Seq(Byte)
  BY EncodingType
<1>3. Rest(u) \in Seq(Byte)
  BY <1>1, <1>2, ConcatProperties DEF Rest
<1>4. u = <<>> => Rest(u) = End
  BY <1>1, EncodingEmpty, ConcatEmptySeq DEF Rest
<1>5. CASE u # <<>>
  <2> DEFINE x == Code(Head(u), FALSE)
             y == Encoding(Tail(u), FALSE)
  <2>1. Head(u) \in Byte /\ Tail(u) \in Seq(Byte)
    BY <1>5, HeadTailProperties
  <2>2. x \in Seq(Byte) /\ y \in Seq(Byte)
    BY <2>1, InsteadType, EncodingType
  <2>3. Encoding(u, FALSE) = x \o y
    BY <1>5, EncodingHead
  <2> HIDE DEF x, y
  <2>4. (x \o y) \o End = x \o (y \o End)
    BY SMTT(60), <1>1, <2>2, ConcatAssociative
  <2> QED
    BY <1>1, <1>3, <1>5, <2>3, <2>4 DEF Rest, x, y
<1> QED
  BY <1>1, <1>3, <1>4, <1>5

\* What is sent before the payload has arrived.
InHeader(o, s) ==
    \/ mode = "data" /\ wire = <<"IAC">> \o (<<"SB">> \o (<<o>> \o Rest(s)))
    \/ mode = "iac" /\ wire = <<"SB">> \o (<<o>> \o Rest(s))
    \/ mode = "option" /\ wire = <<o>> \o Rest(s)

InPayloadOf(o, s) ==
    /\ opt = o
    /\ \/ mode = "payload" /\ \E u \in Seq(Byte) : s = payload \o u /\ wire = Rest(u)
       \/ /\ mode = "payload_iac"
          /\ \E u \in Seq(Byte) : s = payload \o (<<"IAC">> \o u) /\ wire = <<"IAC">> \o Rest(u)
       \/ mode = "payload_iac" /\ s = payload /\ wire = <<"SE">>

InSubnegotiation(o, s) ==
    \/ got = <<>> /\ heard = <<>> /\ pc = "idle" /\ (InHeader(o, s) \/ InPayloadOf(o, s))
    \/ /\ mode = "data" /\ wire = <<>> /\ pc = "idle"
       /\ got = <<>> /\ heard = <<Stream!Subnegotiation(o, s)>>
    \/ /\ mode = "data" /\ wire = <<>> /\ heard = <<>>
       /\ pc # "idle" => event = NoEvent
       /\ got = <<Stream!Subnegotiation(o, s)>> \o ParsedEvent

LEMMA DecodesOption ==
    ASSUME heard = <<>>, mode = "option", NEW b, Stream!Decode(b)
    PROVE  opt' = b /\ payload' = <<>> /\ mode' = "payload" /\ heard' = <<>>
<1>1. Stream!InOption(b)
  BY DEF Stream!Decode, Stream!InData, Stream!InCr, Stream!InIac, Stream!InNegotiation,
         Stream!InPayload, Stream!InDiscard, Stream!InPayloadIac, Stream!Negotiations
<1>2. <<>> \o <<>> = <<>>
  BY EmptySeq, ConcatEmptySeq
<1> QED
  BY <1>1, <1>2 DEF Stream!InOption, Stream!Emit

LEMMA DecodesPayload ==
    ASSUME heard = <<>>, mode = "payload", NEW b, Stream!Decode(b), payload \in Seq(Byte)
    PROVE  /\ opt' = opt
           /\ b = "IAC" => mode' = "payload_iac" /\ payload' = payload /\ heard' = <<>>
           /\ b # "IAC" /\ ~(opt = "COMPRESS" /\ b = "WILL") /\ Len(payload) < Payload
                => mode' = "payload" /\ payload' = Append(payload, b) /\ heard' = <<>>
<1>1. Stream!InPayload(b)
  BY DEF Stream!Decode, Stream!InData, Stream!InCr, Stream!InIac, Stream!InNegotiation,
         Stream!InOption, Stream!InDiscard, Stream!InPayloadIac, Stream!Negotiations
<1>2. <<>> \o <<>> = <<>>
  BY EmptySeq, ConcatEmptySeq
<1>3. Len(payload) < Payload => Len(payload) # Payload
  <2> DEFINE l == Len(payload)
  <2>1. l \in Nat /\ Payload \in Nat
    BY MessagesAssumption
  <2> HIDE DEF l
  <2>2. l < Payload => l # Payload
    BY <2>1
  <2> QED
    BY <2>2 DEF l
<1> QED
  BY <1>1, <1>2, <1>3 DEF Stream!InPayload, Stream!Keep, Stream!Emit

LEMMA DecodesPayloadIac ==
    ASSUME heard = <<>>, mode = "payload_iac", NEW b, Stream!Decode(b), StreamTyped
    PROVE  /\ opt' = opt
           /\ b = "SE" => mode' = "data" /\ heard' = <<Stream!Subnegotiation(opt, payload)>>
           /\ b = "IAC" /\ Len(payload) < Payload
                => mode' = "payload" /\ payload' = Append(payload, "IAC") /\ heard' = <<>>
<1>1. Stream!InPayloadIac(b)
  BY DEF Stream!Decode, Stream!InData, Stream!InCr, Stream!InIac, Stream!InNegotiation,
         Stream!InOption, Stream!InDiscard, Stream!InPayload, Stream!Negotiations
<1>2. <<>> \o <<>> = <<>>
  BY EmptySeq, ConcatEmptySeq
<1>3. Len(payload) < Payload => Len(payload) # Payload
  <2> DEFINE l == Len(payload)
  <2>1. l \in Nat /\ Payload \in Nat
    BY MessagesAssumption DEF StreamTyped
  <2> HIDE DEF l
  <2>2. l < Payload => l # Payload
    BY <2>1
  <2> QED
    BY <2>2 DEF l
<1>4. <<>> \o <<Stream!Subnegotiation(opt, payload)>> = <<Stream!Subnegotiation(opt, payload)>>
  <2> DEFINE x == Stream!Subnegotiation(opt, payload)
             e == <<x>>
  <2>1. x \in HeardEvent
    BY DEF Stream!Subnegotiation, HeardEvent, StreamTyped
  <2> HIDE DEF x
  <2>2. e \in Seq(HeardEvent)
    BY <2>1
  <2> HIDE DEF e
  <2>3. <<>> \o e = e
    BY <2>2, ConcatEmptySeq
  <2> QED
    BY <2>3 DEF e, x
<1> QED
  BY <1>1, <1>2, <1>3, <1>4 DEF Stream!InPayloadIac, Stream!Keep, Stream!Emit

LEMMA SubnegotiationReceive ==
    ASSUME Typed, NEW o \in Byte, NEW s \in Seq(Byte), InSubnegotiation(o, s), Receive,
           Len(s) <= Payload, o = "COMPRESS" => \A i \in DOMAIN s : s[i] # "WILL"
    PROVE  InSubnegotiation(o, s)'
<1>1. /\ wire # <<>> /\ heard = <<>> /\ Stream!Decode(Head(wire)) /\ wire' = Tail(wire)
      /\ got' = got /\ pc' = pc /\ pc = "idle" /\ event' = event
      /\ payload \in Seq(Byte) /\ opt \in Byte \cup {"none"}
  BY DEF Receive, parser, Typed, StreamTyped
<1>13. StreamTyped
  BY DEF Typed
<1>2. got = <<>> /\ (InHeader(o, s) \/ InPayloadOf(o, s))
  BY <1>1 DEF InSubnegotiation
<1>3. "IAC" \in Byte /\ "SB" \in Byte /\ "SE" \in Byte
  BY AddedBytes DEF Added
<1>4. Rest(s) \in Seq(Byte) /\ <<o>> \o Rest(s) \in Seq(Byte) /\ <<"SB">> \o (<<o>> \o Rest(s)) \in Seq(Byte)
  <2>1. Rest(s) \in Seq(Byte)
    BY RestFacts
  <2>2. <<o>> \o Rest(s) \in Seq(Byte)
    BY <2>1, ConsFacts
  <2> QED
    BY <1>3, <2>1, <2>2, ConsFacts
<1>5. ASSUME heard' = <<>>, InHeader(o, s)' \/ InPayloadOf(o, s)'
      PROVE  InSubnegotiation(o, s)'
  BY <1>1, <1>2, <1>5 DEF InSubnegotiation
<1>6. CASE mode = "data" /\ wire = <<"IAC">> \o (<<"SB">> \o (<<o>> \o Rest(s)))
  <2>1. Head(wire) = "IAC" /\ Tail(wire) = <<"SB">> \o (<<o>> \o Rest(s))
    BY <1>3, <1>4, <1>6, ConsFacts
  <2>2. mode' = "iac" /\ heard' = <<>>
    BY <1>1, <1>3, <1>6, <2>1, DecodesData
  <2> QED
    BY <1>1, <1>5, <2>1, <2>2 DEF InHeader
<1>7. CASE mode = "iac" /\ wire = <<"SB">> \o (<<o>> \o Rest(s))
  <2>1. Head(wire) = "SB" /\ Tail(wire) = <<o>> \o Rest(s)
    BY <1>3, <1>4, <1>7, ConsFacts
  <2>2. "SB" \notin Stream!Negotiations
    BY DEF Stream!Negotiations
  <2>3. mode' = "option" /\ heard' = <<>>
    BY <1>1, <1>3, <1>7, <2>1, <2>2, DecodesIac
  <2> QED
    BY <1>1, <1>5, <2>1, <2>3 DEF InHeader
<1>8. CASE mode = "option" /\ wire = <<o>> \o Rest(s)
  <2>1. Head(wire) = o /\ Tail(wire) = Rest(s)
    BY <1>4, <1>8, ConsFacts
  <2>2. opt' = o /\ payload' = <<>> /\ mode' = "payload" /\ heard' = <<>>
    BY <1>1, <1>8, <2>1, DecodesOption
  <2>3. s = payload' \o s /\ wire' = Rest(s)
    BY <1>1, <2>1, <2>2, ConcatEmptySeq
  <2>4. InPayloadOf(o, s)'
    BY <2>2, <2>3 DEF InPayloadOf
  <2> QED
    BY <1>5, <2>2, <2>4
\* The length that is left.
<1>9. ASSUME NEW b \in Byte, NEW r \in Seq(Byte), s = payload \o (<<b>> \o r)
      PROVE  /\ Len(payload) < Payload /\ ~(o = "COMPRESS" /\ b = "WILL")
             /\ Append(payload, b) \in Seq(Byte) /\ s = Append(payload, b) \o r
  <2>1. Len(payload) + 1 \in DOMAIN s /\ s[Len(payload) + 1] = b
    BY <1>1, <1>9, MiddleElement
  <2>2. Len(payload) < Payload
    BY <1>1, <2>1, MessagesAssumption
  <2>3. s = (payload \o <<b>>) \o r
    BY <1>1, <1>9, Regroup
  <2>4. Append(payload, b) = payload \o <<b>> /\ Append(payload, b) \in Seq(Byte)
    BY <1>1
  <2> QED
    BY <2>1, <2>2, <2>3, <2>4
<1>10. CASE opt = o /\ mode = "payload" /\ \E u \in Seq(Byte) : s = payload \o u /\ wire = Rest(u)
  <2>1. PICK u \in Seq(Byte) : s = payload \o u /\ wire = Rest(u)
    BY <1>10
  <2>2. CASE u = <<>>
    <3>1. wire = <<"IAC", "SE">>
      BY <2>1, <2>2, RestFacts DEF End
    <3>2. Head(wire) = "IAC" /\ wire' = <<"SE">>
      BY <1>1, <3>1
    <3>3. mode' = "payload_iac" /\ payload' = payload /\ heard' = <<>> /\ opt' = o
      BY <1>1, <1>10, <3>2, DecodesPayload
    <3>4. s = payload'
      BY <1>1, <2>1, <2>2, <3>3, ConcatEmptySeq
    <3> QED
      BY <1>5, <3>2, <3>3, <3>4 DEF InPayloadOf
  <2>3. CASE u # <<>>
    <3> DEFINE b == Head(u)
               r == Tail(u)
    <3>1. b \in Byte /\ r \in Seq(Byte) /\ u = <<b>> \o r
      BY <2>3, HeadTailProperties
    <3>2. wire = Code(b, FALSE) \o Rest(r)
      BY <2>1, <2>3, RestFacts
    <3> HIDE DEF b, r
    <3>3. Rest(r) \in Seq(Byte) /\ s = payload \o (<<b>> \o r)
      BY <2>1, <3>1, RestFacts
    <3>4. CASE b = "IAC" /\ Code(b, FALSE) = <<"IAC", "IAC">>
      <4>1. <<"IAC", "IAC">> \o Rest(r) = <<"IAC">> \o (<<"IAC">> \o Rest(r))
        <5>1. "IAC" \in Byte /\ Rest(r) \in Seq(Byte)
          BY <1>3, <3>3
        <5> QED
          BY <5>1, PairCons
      <4>2. <<"IAC">> \o Rest(r) \in Seq(Byte)
        BY <1>3, <3>3, ConsFacts
      <4>3. Head(wire) = "IAC" /\ wire' = <<"IAC">> \o Rest(r)
        <5> DEFINE z == <<"IAC">> \o Rest(r)
        <5>1. wire = <<"IAC">> \o z
          BY <3>2, <3>4, <4>1
        <5>2. z \in Seq(Byte)
          BY <4>2
        <5> HIDE DEF z
        <5>3. Head(wire) = "IAC" /\ Tail(wire) = z
          BY <1>3, <5>1, <5>2, ConsFacts
        <5> QED
          BY <1>1, <5>3 DEF z
      <4>4. mode' = "payload_iac" /\ payload' = payload /\ heard' = <<>> /\ opt' = o
        BY <1>1, <1>10, <4>3, DecodesPayload
      <4>5. s = payload' \o (<<"IAC">> \o r)
        BY <3>3, <3>4, <4>4
      <4>6. InPayloadOf(o, s)'
        BY <3>1, <4>3, <4>4, <4>5 DEF InPayloadOf
      <4> QED
        BY <1>5, <4>4, <4>6
    <3>5. CASE b # "IAC" /\ Code(b, FALSE) = <<b>>
      <4>1. Head(wire) = b /\ wire' = Rest(r)
        BY <1>1, <3>1, <3>2, <3>3, <3>5, ConsFacts
      <4>2. /\ Len(payload) < Payload /\ ~(o = "COMPRESS" /\ b = "WILL")
            /\ s = Append(payload, b) \o r
        BY <1>9, <3>1, <3>3
      <4>3. mode' = "payload" /\ payload' = Append(payload, b) /\ heard' = <<>> /\ opt' = o
        <5>1. Stream!Decode(b) /\ heard = <<>> /\ payload \in Seq(Byte)
          BY <1>1, <4>1
        <5>2. b # "IAC" /\ ~(opt = "COMPRESS" /\ b = "WILL") /\ Len(payload) < Payload
          BY <1>10, <3>5, <4>2
        <5> QED
          BY <1>10, <5>1, <5>2, DecodesPayload
      <4>4. s = payload' \o r
        BY <4>2, <4>3
      <4>5. InPayloadOf(o, s)'
        BY <3>1, <4>1, <4>3, <4>4 DEF InPayloadOf
      <4> QED
        BY <1>5, <4>3, <4>5
    <3> QED
      BY <3>1, <3>4, <3>5, CodeCases
  <2> QED
    BY <2>2, <2>3
<1>11. CASE /\ opt = o /\ mode = "payload_iac"
            /\ \E u \in Seq(Byte) : s = payload \o (<<"IAC">> \o u) /\ wire = <<"IAC">> \o Rest(u)
  <2>1. PICK u \in Seq(Byte) : s = payload \o (<<"IAC">> \o u) /\ wire = <<"IAC">> \o Rest(u)
    BY <1>11
  <2>2. Head(wire) = "IAC" /\ wire' = Rest(u)
    <3>1. Rest(u) \in Seq(Byte)
      BY RestFacts
    <3>2. Head(wire) = "IAC" /\ Tail(wire) = Rest(u)
      BY <1>3, <2>1, <3>1, ConsFacts
    <3> QED
      BY <1>1, <3>2
  <2>3. Len(payload) < Payload /\ s = Append(payload, "IAC") \o u
    BY <1>3, <1>9, <2>1
  <2>4. mode' = "payload" /\ payload' = Append(payload, "IAC") /\ heard' = <<>> /\ opt' = o
    BY <1>1, <1>11, <1>13, <2>2, <2>3, DecodesPayloadIac
  <2>5. s = payload' \o u
    BY <2>3, <2>4
  <2>6. InPayloadOf(o, s)'
    BY <2>2, <2>4, <2>5 DEF InPayloadOf
  <2> QED
    BY <1>5, <2>4, <2>6
<1>12. CASE opt = o /\ mode = "payload_iac" /\ s = payload /\ wire = <<"SE">>
  <2>1. Head(wire) = "SE" /\ wire' = <<>>
    <3>1. Head(<<"SE">>) = "SE" /\ Tail(<<"SE">>) = <<>>
      OBVIOUS
    <3>2. wire = <<"SE">> /\ wire' = Tail(wire)
      BY <1>1, <1>12
    <3> QED
      BY <3>1, <3>2
  <2>2. mode' = "data" /\ heard' = <<Stream!Subnegotiation(o, s)>>
    BY <1>1, <1>12, <1>13, <2>1, DecodesPayloadIac
  <2> QED
    BY <1>1, <1>2, <2>1, <2>2 DEF InSubnegotiation
<1> QED
  BY <1>2, <1>6, <1>7, <1>8, <1>10, <1>11, <1>12 DEF InHeader, InPayloadOf

LEMMA SubnegotiationHandle ==
    ASSUME Typed, NEW o \in Byte, NEW s \in Seq(Byte), InSubnegotiation(o, s), Handle
    PROVE  InSubnegotiation(o, s)'
<1> DEFINE x == Stream!Subnegotiation(o, s)
<1>1. /\ mode = "data" /\ wire = <<>> /\ got = <<>> /\ heard = <<x>>
      /\ got' = Append(got, Head(heard)) /\ heard' = Tail(heard) /\ mode' = mode /\ wire' = wire
  BY DEF InSubnegotiation, Handle
<1>2. Head(heard) = x /\ heard' = <<>>
  BY <1>1
<1>3. got' = <<x>>
  BY <1>1, <1>2
<1>4. Begin(x.opt, x.payload)
  BY <1>2 DEF Handle, Stream!Subnegotiation
<1>5. event' = NoEvent
  BY <1>4 DEF Begin
<1>6. ParsedEvent' = <<>>
  BY <1>5 DEF ParsedEvent
<1>7. got' = <<x>> \o ParsedEvent'
  <2>1. <<x>> \in Seq({x})
    OBVIOUS
  <2>2. <<x>> \o <<>> = <<x>>
    BY <2>1, ConcatEmptySeq
  <2> QED
    BY <1>3, <1>6, <2>2
<1> QED
  BY <1>1, <1>2, <1>5, <1>7 DEF InSubnegotiation

LEMMA SubnegotiationParsing ==
    ASSUME NEW o, NEW s, InSubnegotiation(o, s), Parsing
    PROVE  InSubnegotiation(o, s)'
<1> DEFINE x == <<Stream!Subnegotiation(o, s)>>
<1>1. /\ pc # "idle" /\ (pc' = "idle" \/ event' = event)
      /\ got' = (IF event' # event THEN Append(got, event') ELSE got)
      /\ mode' = mode /\ wire' = wire /\ heard' = heard
  BY ParseKeeps DEF Parsing, stream
<1>2. mode = "data" /\ wire = <<>> /\ heard = <<>> /\ event = NoEvent /\ got = x \o ParsedEvent
  BY <1>1 DEF InSubnegotiation
<1>3. got = x
  <2>1. x \in Seq({Stream!Subnegotiation(o, s)})
    OBVIOUS
  <2>2. x \o <<>> = x
    BY <2>1, ConcatEmptySeq
  <2> HIDE DEF x
  <2> QED
    BY <1>2, <2>2 DEF ParsedEvent
<1>4. got' = x \o ParsedEvent'
  <2>1. CASE event' = NoEvent
    BY <1>1, <1>2, <2>1 DEF ParsedEvent
  <2>2. CASE event' # NoEvent
    <3>1. got' = Append(x, event')
      BY <1>1, <1>2, <1>3, <2>2
    <3>2. Append(x, event') = x \o <<event'>>
      <4> DEFINE B == {Stream!Subnegotiation(o, s), event'}
      <4>1. x \in Seq(B) /\ event' \in B
        OBVIOUS
      <4> HIDE DEF x, B
      <4> QED
        BY <4>1
    <3>3. ParsedEvent' = <<event'>>
      BY <2>2 DEF ParsedEvent, NoEvent
    <3> QED
      BY <3>1, <3>2, <3>3
  <2> QED
    BY <2>1, <2>2
<1> QED
  BY <1>1, <1>2, <1>4 DEF InSubnegotiation

LEMMA SubnegotiationCalled ==
    ASSUME NEW o \in Byte, NEW s \in Seq(Byte), mode' = "data", heard' = <<>>, got' = <<>>,
           pc' = "idle", wire' = telnet_subnegotiation(o, s)
    PROVE  InSubnegotiation(o, s)'
<1> DEFINE w == Encoding(s, FALSE)
           h == <<"IAC", "SB", o>>
           r == <<"SB">> \o (<<o>> \o Rest(s))
<1>1. "IAC" \in Byte /\ "SB" \in Byte /\ w \in Seq(Byte) /\ End \in Seq(Byte) /\ Rest(s) \in Seq(Byte)
  BY AddedBytes, EncodingType, RestFacts DEF Added
<1>2. wire' = (h \o w) \o End
  BY SendsCodes DEF telnet_subnegotiation, telnet_begin_sb, telnet_finish_sb, telnet_iac, telnet_send, End
<1>3. (h \o w) \o End = h \o (w \o End)
  <2>1. h \in Seq(Byte)
    BY <1>1
  <2>2. w \in Seq(Byte) /\ End \in Seq(Byte)
    BY <1>1
  <2> HIDE DEF h, w
  <2> QED
    BY <2>1, <2>2, ConcatAssociative
<1>4. h \o Rest(s) = <<"IAC">> \o r
  <2> DEFINE i == "IAC"
             b == "SB"
             y == Rest(s)
             p == <<o>>
             q == <<i, b>>
  <2>1. i \in Byte /\ b \in Byte /\ y \in Seq(Byte)
    BY <1>1
  <2> HIDE DEF i, b, y
  <2>2. <<i, b, o>> = q \o p
    BY <2>1, TripleIs
  <2>3. q \in Seq(Byte) /\ p \in Seq(Byte)
    BY <2>1
  <2> HIDE DEF p, q
  <2>4. (q \o p) \o y = q \o (p \o y)
    BY SMTT(60), <2>1, <2>3, ConcatAssociative
  <2>5. p \o y \in Seq(Byte)
    BY <2>1, <2>3, ConcatProperties
  <2> DEFINE z == p \o y
  <2>6. z \in Seq(Byte)
    BY <2>5
  <2> HIDE DEF z
  <2>7. <<i, b>> \o z = <<i>> \o (<<b>> \o z)
    BY SMTT(60), <2>1, <2>6, PairCons
  <2> QED
    BY <2>2, <2>4, <2>7 DEF i, b, y, p, q, z
<1>5. wire' = <<"IAC">> \o r
  BY <1>2, <1>3, <1>4 DEF Rest
<1>6. InHeader(o, s)'
  BY <1>5 DEF InHeader
<1> QED
  BY <1>6 DEF InSubnegotiation

LEMMA SubnegotiationArrived ==
    ASSUME NEW o \in Byte, NEW s \in Seq(Byte), InSubnegotiation(o, s), Idle
    PROVE  mode = "data" /\ got = <<Stream!Subnegotiation(o, s)>> \o ParsedEvent
<1>1. wire = <<>> /\ heard = <<>>
  BY DEF Idle
<1>2. heard # <<Stream!Subnegotiation(o, s)>>
  BY <1>1
<1>3. ~InHeader(o, s)
  <2>1. "IAC" \in Byte /\ "SB" \in Byte /\ Rest(s) \in Seq(Byte)
    BY AddedBytes, RestFacts DEF Added
  <2>2. <<o>> \o Rest(s) \in Seq(Byte) /\ <<o>> \o Rest(s) # <<>>
    BY <2>1, ConsFacts
  <2>3. <<"SB">> \o (<<o>> \o Rest(s)) \in Seq(Byte) /\ <<"SB">> \o (<<o>> \o Rest(s)) # <<>>
    BY <2>1, <2>2, ConsFacts
  <2>4. <<"IAC">> \o (<<"SB">> \o (<<o>> \o Rest(s))) # <<>>
    BY <2>1, <2>3, ConsFacts
  <2> QED
    BY <1>1, <2>2, <2>3, <2>4 DEF InHeader
<1>4. ~InPayloadOf(o, s)
  <2>1. ASSUME NEW u \in Seq(Byte)
        PROVE  Rest(u) # <<>> /\ <<"IAC">> \o Rest(u) # <<>>
    <3>1. Encoding(u, FALSE) \in Seq(Byte) /\ End \in Seq(Byte) /\ Rest(u) \in Seq(Byte) /\ "IAC" \in Byte
      BY EncodingType, RestFacts, AddedBytes DEF Added
    <3>2. End # <<>>
      BY DEF End
    <3>3. Rest(u) # <<>>
      <4> DEFINE w == Encoding(u, FALSE)
      <4>1. w \in Seq(Byte) /\ End \in Seq(Byte)
        BY <3>1
      <4> HIDE DEF w
      <4>2. w \o End # <<>>
        BY <3>2, <4>1, ConcatEqualIffEmpty
      <4> QED
        BY <4>2 DEF Rest, w
    <3> QED
      BY <3>1, <3>3, ConsFacts
  <2>2. <<"SE">> # <<>>
    OBVIOUS
  <2> QED
    BY <1>1, <2>1, <2>2 DEF InPayloadOf
<1> QED
  BY <1>2, <1>3, <1>4 DEF InSubnegotiation

-----------------------------------------------------------------------------
(* The call that is under way.                                             *)

Arriving ==
    /\ message.call \in TextCalls /\ ~RawCr(message) =>
        /\ translate = ~binary
        /\ IF NothingSent(message)
             THEN Idle /\ mode = "data" /\ got = <<>>
             ELSE InText(Text(message), Nvt(message))
    /\ message.call = "iac" => InCommand(message.cmd)
    /\ message.call = "subnegotiation" /\ Kept(message) =>
        InSubnegotiation(message.telopt, message.bytes)

DeliveredInv == Typed /\ Arriving

\* While a call is under way, what its invariant is about does not change.
SameCall == message' = message /\ memory' = memory /\ binary' = binary

LEMMA InTextNext ==
    ASSUME NEW t, NEW nvt, InText(t, nvt)', Text(message)' = t, Nvt(message)' = nvt
    PROVE  InText(Text(message), Nvt(message))'
BY DEF InText, Readable, Between, Within

LEMMA ArrivingSame ==
    ASSUME DeliveredInv, message # NoMessage, SameCall,
           \A t \in Seq(Byte), nvt \in BOOLEAN :
               InText(t, nvt) => InText(t, nvt)' /\ translate' = translate,
           ~Idle,
           \A cmd \in Byte \ ({"IAC", "SB"} \cup Stream!Negotiations) : InCommand(cmd) => InCommand(cmd)',
           \A o \in Byte, s \in Seq(Byte) :
               /\ Len(s) <= Payload /\ (o = "COMPRESS" => \A i \in DOMAIN s : s[i] # "WILL")
               /\ InSubnegotiation(o, s)
               => InSubnegotiation(o, s)'
    PROVE  Arriving'
<1>1. message \in Messages /\ message \in Calls /\ binary \in BOOLEAN /\ memory \in BOOLEAN
  BY CallKinds DEF DeliveredInv, Typed, CallTyped
<1>2. ASSUME message.call \in TextCalls, ~RawCr(message)'
      PROVE  /\ translate' = ~binary'
             /\ IF NothingSent(message)' THEN (Idle /\ mode = "data" /\ got = <<>>)'
                                         ELSE InText(Text(message), Nvt(message))'
  <2>1. ~RawCr(message)
    BY <1>2 DEF RawCr, SameCall
  <2>2. NothingSent(message)' = NothingSent(message)
    BY DEF NothingSent, SameCall
  <2>3. PICK t \in Seq(Byte), nvt \in BOOLEAN : t = Text(message) /\ nvt = Nvt(message)
    BY <1>1, <1>2, TextSent
  <2>4. Text(message)' = t /\ Nvt(message)' = nvt
    BY <2>3 DEF Text, Nvt, SameCall
  <2>5. translate = ~binary
    BY <1>2, <2>1 DEF DeliveredInv, Arriving
  <2>6. ~NothingSent(message) /\ InText(t, nvt)
    BY <1>2, <2>1, <2>3 DEF DeliveredInv, Arriving
  <2>7. InText(t, nvt)'
    BY <2>6
  <2>10. translate' = translate
    BY <2>6
  <2>8. InText(Text(message), Nvt(message))'
    BY <2>4, <2>7, InTextNext
  <2>9. translate' = ~binary'
    BY <2>5, <2>10, Zenon DEF SameCall
  <2> QED
    BY <2>2, <2>6, <2>8, <2>9
<1>3. ASSUME message.call = "iac"
      PROVE  InCommand(message.cmd)'
  <2>1. message.cmd \in Byte \ ({"IAC", "SB"} \cup Stream!Negotiations)
    BY <1>1, <1>3 DEF Calls
  <2>2. PICK cmd \in Byte \ ({"IAC", "SB"} \cup Stream!Negotiations) : cmd = message.cmd
    BY <2>1
  <2>3. InCommand(cmd)'
    BY <1>3, <2>2 DEF DeliveredInv, Arriving
  <2> QED
    BY <2>2, <2>3 DEF InCommand, SameCall
<1>4. ASSUME message.call = "subnegotiation", Kept(message)'
      PROVE  InSubnegotiation(message.telopt, message.bytes)'
  <2>1. message.telopt \in Byte /\ message.bytes \in Seq(Byte)
    BY <1>1, <1>4 DEF Calls
  <2>2. PICK o \in Byte, s \in Seq(Byte) : o = message.telopt /\ s = message.bytes
    BY <2>1
  <2>3. Kept(message)
    BY <1>4 DEF Kept, SameCall
  <2>4. Len(s) <= Payload /\ (o = "COMPRESS" => \A i \in DOMAIN s : s[i] # "WILL")
    BY <1>4, <2>2, <2>3 DEF Kept, HasAny
  <2>5. InSubnegotiation(o, s)'
    BY <1>4, <2>2, <2>3, <2>4 DEF DeliveredInv, Arriving
  <2> QED
    BY <2>2, <2>5 DEF InSubnegotiation, InHeader, InPayloadOf, SameCall
<1> QED
  BY <1>2, <1>3, <1>4 DEF Arriving, SameCall

LEMMA ArrivingCall ==
    ASSUME DeliveredInv, message = NoMessage, NEW m \in Messages, Call(m)
    PROVE  Arriving'
<1>1. /\ message' = m /\ memory' \in BOOLEAN /\ wire' = Encoded(m, memory') /\ got' = <<>>
      /\ binary' = binary /\ UNCHANGED stream /\ UNCHANGED parser
      /\ Idle /\ mode = "data" /\ translate = ~binary /\ binary \in BOOLEAN
  BY DEF Call, DeliveredInv, Typed, CallTyped
<1>2. mode' = "data" /\ heard' = <<>> /\ pc' = "idle" /\ translate' = translate
  BY <1>1 DEF stream, parser, Idle
<1>3. m \in Calls
  BY CallKinds
<1>4. translate' = ~binary'
  BY <1>1, <1>2, Zenon
<1>5. ASSUME m.call \in TextCalls, ~RawCr(message)'
      PROVE  IF NothingSent(message)' THEN (Idle /\ mode = "data" /\ got = <<>>)'
                                      ELSE InText(Text(message), Nvt(message))'
  <2>1. ~RawCr(m)
    BY <1>1, <1>5 DEF RawCr
  <2>2. NothingSent(message)' <=> m.call \in {"printf", "raw_printf"} /\ NeedsMemory(m.bytes) /\ ~memory'
    BY <1>1 DEF NothingSent
  <2>3. /\ Text(m) \in Seq(Byte) /\ Nvt(m) \in BOOLEAN /\ Readable(Text(m), Nvt(m))
        /\ wire' = IF NothingSent(message)' THEN <<>> ELSE Encoding(Text(m), Nvt(m))
    BY <1>1, <1>5, <2>1, <2>2, TextSent
  <2>4. PICK t \in Seq(Byte), nvt \in BOOLEAN : t = Text(m) /\ nvt = Nvt(m)
    BY <2>3
  <2>5. Text(message)' = t /\ Nvt(message)' = nvt
    BY <1>1, <2>4 DEF Text, Nvt
  <2>6. CASE NothingSent(message)'
    BY <1>1, <1>2, <2>3, <2>6 DEF Idle
  <2>7. CASE ~NothingSent(message)'
    <3>1. Readable(t, nvt)'
      BY <1>2, <2>3, <2>4 DEF Readable
    <3>2. InText(t, nvt)'
      BY <1>1, <1>2, <2>3, <2>4, <2>7, <3>1, TextCalled
    <3> QED
      BY <2>5, <2>7, <3>2, InTextNext
  <2> QED
    BY <2>6, <2>7
<1>6. ASSUME m.call = "iac"
      PROVE  InCommand(message.cmd)'
  <2>1. wire' = <<"IAC", m.cmd>>
    BY <1>1, <1>6 DEF Encoded, telnet_iac
  <2> QED
    BY <1>1, <1>2, <2>1 DEF InCommand
<1>7. ASSUME m.call = "subnegotiation"
      PROVE  InSubnegotiation(message.telopt, message.bytes)'
  <2>1. m.telopt \in Byte /\ m.bytes \in Seq(Byte)
    BY <1>3, <1>7 DEF Calls
  <2>2. wire' = telnet_subnegotiation(m.telopt, m.bytes)
    BY <1>1, <1>7 DEF Encoded
  <2>3. InSubnegotiation(m.telopt, m.bytes)'
    BY <1>1, <1>2, <2>1, <2>2, SubnegotiationCalled
  <2> QED
    BY <1>1, <2>3
<1> QED
  BY <1>1, <1>4, <1>5, <1>6, <1>7 DEF Arriving


LEMMA ArrivingReceive ==
    ASSUME DeliveredInv, Receive
    PROVE  Arriving'
<1>1. Typed /\ SameCall /\ ~Idle
  BY DEF DeliveredInv, Receive, SameCall, Idle
<1>2. message # NoMessage
  BY <1>1 DEF Typed, CallTyped
<1>3. ASSUME NEW t \in Seq(Byte), NEW nvt \in BOOLEAN, InText(t, nvt)
      PROVE  InText(t, nvt)' /\ translate' = translate
  BY <1>1, <1>3, TextReceive
<1>4. ASSUME NEW cmd \in Byte \ ({"IAC", "SB"} \cup Stream!Negotiations), InCommand(cmd)
      PROVE  InCommand(cmd)'
  BY <1>1, <1>4, CommandReceive
<1>5. ASSUME NEW o \in Byte, NEW s \in Seq(Byte), InSubnegotiation(o, s), Len(s) <= Payload,
             o = "COMPRESS" => \A i \in DOMAIN s : s[i] # "WILL"
      PROVE  InSubnegotiation(o, s)'
  BY <1>1, <1>5, SubnegotiationReceive
<1> QED
  BY <1>1, <1>2, <1>3, <1>4, <1>5, ArrivingSame

LEMMA ArrivingHandle ==
    ASSUME DeliveredInv, Handle
    PROVE  Arriving'
<1>1. Typed /\ SameCall /\ ~Idle
  BY DEF DeliveredInv, Handle, SameCall, Idle
<1>2. message # NoMessage
  BY <1>1 DEF Typed, CallTyped
<1>3. ASSUME NEW t \in Seq(Byte), NEW nvt \in BOOLEAN, InText(t, nvt)
      PROVE  InText(t, nvt)' /\ translate' = translate
  BY <1>1, <1>3, TextHandle
<1>4. ASSUME NEW cmd \in Byte \ ({"IAC", "SB"} \cup Stream!Negotiations), InCommand(cmd)
      PROVE  InCommand(cmd)'
  BY <1>1, <1>4, CommandHandle
<1>5. ASSUME NEW o \in Byte, NEW s \in Seq(Byte), InSubnegotiation(o, s)
      PROVE  InSubnegotiation(o, s)'
  BY <1>1, <1>5, SubnegotiationHandle
<1> QED
  BY <1>1, <1>2, <1>3, <1>4, <1>5, ArrivingSame

LEMMA ArrivingParsing ==
    ASSUME DeliveredInv, Parsing
    PROVE  Arriving'
<1>1. Typed /\ SameCall /\ pc # "idle" /\ ~Idle
  BY ParseKeeps DEF DeliveredInv, Parsing, SameCall, Idle
<1>2. message # NoMessage
  BY <1>1 DEF Typed, CallTyped
<1>3. ASSUME NEW t \in Seq(Byte), NEW nvt \in BOOLEAN, InText(t, nvt)
      PROVE  InText(t, nvt)' /\ translate' = translate
  BY <1>1, <1>3 DEF InText
<1>4. ASSUME NEW cmd \in Byte \ ({"IAC", "SB"} \cup Stream!Negotiations), InCommand(cmd)
      PROVE  InCommand(cmd)'
  BY <1>1, <1>4 DEF InCommand
<1>5. ASSUME NEW o \in Byte, NEW s \in Seq(Byte), InSubnegotiation(o, s)
      PROVE  InSubnegotiation(o, s)'
  BY <1>5, SubnegotiationParsing
<1> QED
  BY <1>1, <1>2, <1>3, <1>4, <1>5, ArrivingSame

LEMMA ArrivingStep ==
    ASSUME DeliveredInv, [Next]_vars
    PROVE  Arriving'
<1>1. CASE message = NoMessage /\ \E m \in Messages : Call(m)
  BY <1>1, ArrivingCall
<1>2. CASE Forget
  <2>1. message'.call \notin TextCalls \cup {"iac", "subnegotiation"}
    BY <1>2 DEF Forget, NoMessage, TextCalls
  <2> QED
    BY <2>1 DEF Arriving
<1>3. CASE UNCHANGED vars
  <2>1. /\ message' = message /\ memory' = memory /\ binary' = binary /\ wire' = wire
        /\ mode' = mode /\ opt' = opt /\ payload' = payload /\ translate' = translate
        /\ heard' = heard /\ got' = got /\ pc' = pc /\ event' = event
    BY <1>3 DEF vars, stream, parser
  <2> QED
    BY <2>1 DEF DeliveredInv, Arriving, RawCr, NothingSent, Kept, Idle, Text, Nvt, InText, Readable,
       Between, Within, InCommand, InSubnegotiation, InHeader, InPayloadOf, ParsedEvent
<1> QED
  BY <1>1, <1>2, <1>3, ArrivingReceive, ArrivingHandle, ArrivingParsing DEF Next

\* What telnet_send(), telnet_send_text(), telnet_vprintf(), telnet_raw_vprintf(),
\* telnet_iac() and telnet_subnegotiation() are given is what the other end's
\* application gets, whatever the text or the payload is.
THEOREM DeliveredHolds ==
    Spec => []Delivered
<1>1. Init => DeliveredInv
  <2> SUFFICES ASSUME Init
               PROVE  DeliveredInv
    OBVIOUS
  <2>1. message.call \notin TextCalls \cup {"iac", "subnegotiation"}
    BY DEF Init, NoMessage, TextCalls
  <2> QED
    BY <2>1, TypedInit DEF DeliveredInv, Arriving
<1>2. DeliveredInv /\ [Next]_vars => DeliveredInv'
  BY TypedStep, ArrivingStep DEF DeliveredInv
<1>3. DeliveredInv => Delivered
  <2> SUFFICES ASSUME DeliveredInv, Settled, ~RawCr(message), Kept(message),
                      message.call \in TextCalls \cup {"iac", "subnegotiation"}
               PROVE  mode = "data" /\ got = IF NothingSent(message) THEN <<>> ELSE Expected(message)
    BY DEF Delivered, TextCalls
  <2>1. message \in Messages /\ message \in Calls /\ binary \in BOOLEAN /\ memory \in BOOLEAN
    BY CallKinds DEF DeliveredInv, Typed, CallTyped, Settled
  <2>2. Idle /\ wire = <<>> /\ heard = <<>>
    BY DEF Settled, Idle
  <2>3. CASE message.call \in TextCalls
    <3>1. Text(message) \in Seq(Byte) /\ Nvt(message) \in BOOLEAN /\ Expected(message) = Bytes(Text(message))
      BY <2>1, <2>3, TextSent
    <3>2. CASE NothingSent(message)
      BY <2>3, <3>2 DEF DeliveredInv, Arriving
    <3>3. CASE ~NothingSent(message)
      <4>1. PICK t \in Seq(Byte), nvt \in BOOLEAN : t = Text(message) /\ nvt = Nvt(message)
        BY <3>1
      <4>2. InText(t, nvt)
        BY <2>3, <3>3, <4>1 DEF DeliveredInv, Arriving
      <4>3. mode = "data" /\ got = Bytes(t)
        BY <2>2, <4>2, TextArrived
      <4> QED
        BY <3>1, <3>3, <4>1, <4>3
    <3> QED
      BY <3>2, <3>3
  <2>4. CASE message.call = "iac"
    <3>1. mode = "data" /\ got = <<Stream!Iac(message.cmd)>>
      BY <2>2, <2>4, CommandArrived DEF DeliveredInv, Arriving
    <3>2. ~NothingSent(message) /\ Expected(message) = <<Stream!Iac(message.cmd)>>
      BY <2>4 DEF NothingSent, Expected
    <3> QED
      BY <3>1, <3>2
  <2>5. CASE message.call = "subnegotiation"
    <3>1. message.telopt \in Byte /\ message.bytes \in Seq(Byte)
      BY <2>1, <2>5 DEF Calls
    <3>2. InSubnegotiation(message.telopt, message.bytes)
      BY <2>5 DEF DeliveredInv, Arriving
    <3>3. mode = "data" /\ got = <<Stream!Subnegotiation(message.telopt, message.bytes)>> \o ParsedEvent
      BY <2>2, <3>1, <3>2, SubnegotiationArrived
    <3>4. /\ ~NothingSent(message)
          /\ Expected(message) = <<Stream!Subnegotiation(message.telopt, message.bytes)>> \o ParsedEvent
      BY <2>5 DEF NothingSent, Expected
    <3> QED
      BY <3>3, <3>4
  <2> QED
    BY <2>3, <2>4, <2>5
<1> QED
  BY <1>1, <1>2, <1>3, PTL DEF Spec

-----------------------------------------------------------------------------
(* The grammar of the payloads.                                            *)

\* What a grammar does with each byte.
Steps(S) == [S -> [Byte -> S]]

\* What i bytes of s come to, by the grammar of step.
ReadBy(f, S, x, step, s) ==
    /\ f \in [0 .. Len(s) -> S] /\ f[0] = x
    /\ \A i \in 1 .. Len(s) : f[i] = step[f[i - 1]][s[i]]

\* A grammar read byte by byte is a function: every sequence has its meaning.
LEMMA ReadExists ==
    ASSUME NEW S, NEW x \in S, NEW step \in Steps(S), NEW s \in Seq(Byte)
    PROVE  \E f : ReadBy(f, S, x, step, s)
<1> DEFINE n == Len(s)
           Read(f, m) == f[0] = x /\ \A i \in 1 .. m : f[i] = step[f[i - 1]][s[i]]
           T == {m \in 0 .. n : \E f \in [0 .. m -> S] : Read(f, m)}
<1>1. n \in Nat /\ \A i \in 1 .. n : s[i] \in Byte
  BY ElementOfSeq
<1> HIDE DEF n
<1>2. 0 \in T
  <2> DEFINE e == [i \in 0 .. 0 |-> x]
  <2>1. e \in [0 .. 0 -> S] /\ Read(e, 0)
    OBVIOUS
  <2> HIDE DEF e, Read
  <2>2. \E f \in [0 .. 0 -> S] : Read(f, 0)
    BY <2>1
  <2> QED
    BY <1>1, <2>2
<1>3. ASSUME NEW m \in 1 .. n, m - 1 \in T
      PROVE  m \in T
  <2>1. PICK g \in [0 .. m - 1 -> S] : Read(g, m - 1)
    BY <1>3
  <2>2. /\ m \in Nat /\ m # 0 /\ m - 1 \in 0 .. m - 1 /\ 0 \in 0 .. m - 1 /\ s[m] \in Byte
        /\ \A i \in 0 .. m : i # m => i \in 0 .. m - 1
    BY <1>1
  <2> DEFINE y == step[g[m - 1]][s[m]]
             f == [i \in 0 .. m |-> IF i = m THEN y ELSE g[i]]
  <2>3. g[m - 1] \in S /\ y \in S
    BY <2>2 DEF Steps
  <2> HIDE DEF y
  <2>4. f \in [0 .. m -> S] /\ f[0] = x
    BY <2>1, <2>2, <2>3
  <2>5. ASSUME NEW i \in 1 .. m
        PROVE  f[i] = step[f[i - 1]][s[i]]
    <3>1. i \in 0 .. m /\ i - 1 \in 0 .. m /\ i - 1 # m /\ (i # m => i \in 1 .. m - 1)
      BY <2>2
    <3>2. f[i - 1] = g[i - 1]
      BY <3>1
    <3>3. CASE i = m
      BY <3>1, <3>2, <3>3 DEF y
    <3>4. CASE i # m
      BY <2>1, <3>1, <3>2, <3>4
    <3> QED
      BY <3>3, <3>4
  <2> HIDE DEF f
  <2>6. Read(f, m)
    BY <2>4, <2>5
  <2> HIDE DEF Read
  <2>7. \E e \in [0 .. m -> S] : Read(e, m)
    BY <2>4, <2>6
  <2> QED
    BY <1>1, <2>7
<1> HIDE DEF T
<1>4. n \in T
  <2>1. \A m \in 0 .. n : m \in T
    BY <1>1, <1>2, <1>3, SetInduction
  <2> QED
    BY <1>1, <2>1
<1>5. \E f \in [0 .. n -> S] : Read(f, n)
  BY <1>4 DEF T
<1> QED
  BY <1>5 DEF n, ReadBy

\* A variable as the grammar keeps it.
Described == [type : Byte, var : Seq(Byte), value : Seq(Byte)]

\* An entry described so far is a type and two texts.
LEMMA VariableType ==
    ASSUME NEW b \in Byte, NEW s \in Seq(Byte), NEW t \in Seq(Byte)
    PROVE  /\ Grammar!Variable(b, s, t) \in Described
           /\ Grammar!Variable(b, s, t).type = b
           /\ Grammar!Variable(b, s, t).var = s
           /\ Grammar!Variable(b, s, t).value = t
BY DEF Grammar!Variable, Described

\* The last variable gets a byte more, the others stay.
LEMMA ExtendedFacts ==
    ASSUME NEW v \in Seq(Described), NEW side \in {"var", "value"}, NEW b \in Byte
    PROVE  /\ Grammar!Extended(v, side, b) \in Seq(Described)
           /\ Len(Grammar!Extended(v, side, b)) = Len(v)
           /\ \A k \in 1 .. Len(v) - 1 : Grammar!Extended(v, side, b)[k] = v[k]
           /\ Len(v) > 0 =>
                 /\ Grammar!Extended(v, side, b)[Len(v)].type = v[Len(v)].type
                 /\ Grammar!Extended(v, side, b)[Len(v)].var =
                       IF side = "var" THEN Append(v[Len(v)].var, b) ELSE v[Len(v)].var
                 /\ Grammar!Extended(v, side, b)[Len(v)].value =
                       IF side = "value" THEN Append(v[Len(v)].value, b) ELSE v[Len(v)].value
<1> DEFINE k == Len(v)
           w == Grammar!Extended(v, side, b)
           d == IF side = "var" THEN [v[k] EXCEPT !.var = Append(@, b)]
                                ELSE [v[k] EXCEPT !.value = Append(@, b)]
<1>1. k \in Nat /\ DOMAIN v = 1 .. k
  OBVIOUS
<1>2. w = [v EXCEPT ![k] = d]
  BY DEF Grammar!Extended
<1>3. CASE k = 0
  <2>1. v = <<>>
    BY <1>3, EmptySeq
  <2>2. k \notin DOMAIN v
    BY <1>1, <1>3
  <2>3. w = v
    BY <1>2, <2>2
  <2> QED
    BY <1>1, <1>3, <2>3
<1>4. CASE k # 0
  <2>1. k \in 1 .. k /\ v[k] \in Described
    BY <1>1, <1>4, ElementOfSeq
  <2>2. /\ d \in Described /\ d.type = v[k].type
        /\ d.var = IF side = "var" THEN Append(v[k].var, b) ELSE v[k].var
        /\ d.value = IF side = "value" THEN Append(v[k].value, b) ELSE v[k].value
    <3>1. v[k].var \in Seq(Byte) /\ v[k].value \in Seq(Byte) /\ v[k].type \in Byte
      BY <2>1 DEF Described
    <3>2. Append(v[k].var, b) \in Seq(Byte) /\ Append(v[k].value, b) \in Seq(Byte)
      BY <3>1
    <3> QED
      BY <2>1, <3>1, <3>2 DEF Described
  <2> HIDE DEF d
  <2>3. /\ w \in Seq(Described) /\ Len(w) = k /\ w[k] = d
        /\ \A j \in 1 .. k : j # k => w[j] = v[j]
    BY <1>1, <1>2, <2>1, <2>2, ExceptSeq
  <2> HIDE DEF k, w
  <2>4. \A j \in 1 .. k - 1 : j \in 1 .. k /\ j # k
    BY <1>1
  <2> QED
    BY <2>2, <2>3, <2>4 DEF k, w
<1> QED
  BY <1>3, <1>4

LEMMA ReadTyped ==
    ASSUME NEW S, NEW n \in Nat, NEW h, DOMAIN h = 0 .. n, h = [i \in DOMAIN h |-> h[i]],
           h[0] \in S, \A i \in 1 .. n : h[i - 1] \in S => h[i] \in S
    PROVE  h \in [0 .. n -> S]
<1> DEFINE T == {i \in 0 .. n : h[i] \in S}
<1>1. 0 \in T
  OBVIOUS
<1>2. ASSUME NEW i \in 1 .. n, i - 1 \in T
      PROVE  i \in T
  BY <1>2
<1> HIDE DEF T
<1>3. \A i \in 0 .. n : i \in T
  BY <1>1, <1>2, SetInduction
<1>4. \A i \in 0 .. n : h[i] \in S
  BY <1>3 DEF T
<1> QED
  BY <1>4

EnvironState == [vars : Seq(Described), side : {"var", "value"}, escaped : BOOLEAN]

EnvironFirst == [vars |-> <<>>, side |-> "var", escaped |-> FALSE]

LEMMA EnvironByteTyped ==
    ASSUME NEW a \in EnvironState, NEW b \in Byte
    PROVE  Grammar!EnvironByte(a, b) \in EnvironState
<1>1. a.vars \in Seq(Described) /\ a.side \in {"var", "value"} /\ a.escaped \in BOOLEAN
  BY DEF EnvironState
<1>2. Grammar!Extended(a.vars, a.side, b) \in Seq(Described)
  BY <1>1, ExtendedFacts
<1>3. Append(a.vars, Grammar!Variable(b, <<>>, <<>>)) \in Seq(Described)
  <2>1. <<>> \in Seq(Byte)
    OBVIOUS
  <2>2. Grammar!Variable(b, <<>>, <<>>) \in Described
    BY <2>1, VariableType
  <2> QED
    BY <1>1, <2>2
<1> QED
  BY <1>1, <1>2, <1>3 DEF Grammar!EnvironByte, EnvironState

\* Environ, Mssp and Zmp below are the recursive functions of SbGrammar: what
\* they come to after i bytes is one step of the grammar from i - 1.
LEMMA EnvironReadFacts ==
    ASSUME NEW s \in Seq(Byte)
    PROVE  /\ Grammar!EnvironRead(s) \in [0 .. Len(s) -> EnvironState]
           /\ Grammar!EnvironRead(s)[0] = EnvironFirst
           /\ \A i \in 1 .. Len(s) :
                 Grammar!EnvironRead(s)[i] = Grammar!EnvironByte(Grammar!EnvironRead(s)[i - 1], s[i])
<1> DEFINE n == Len(s)
           h == Grammar!EnvironRead(s)
           step == [a \in EnvironState |-> [b \in Byte |-> Grammar!EnvironByte(a, b)]]
           R(f) == f = [i \in 0 .. n |-> IF i = 0 THEN EnvironFirst ELSE Grammar!EnvironByte(f[i - 1], s[i])]
<1>1. n \in Nat /\ EnvironFirst \in EnvironState /\ \A i \in 1 .. n : s[i] \in Byte
  BY ElementOfSeq DEF EnvironFirst, EnvironState
<1>2. step \in Steps(EnvironState)
  BY EnvironByteTyped DEF Steps
<1>3. \A a \in EnvironState, b \in Byte : step[a][b] = Grammar!EnvironByte(a, b)
  OBVIOUS
<1>4. h = CHOOSE f : R(f)
  BY DEF Grammar!EnvironRead, EnvironFirst
<1> HIDE DEF n, step, h
<1>5. PICK g : ReadBy(g, EnvironState, EnvironFirst, step, s)
  BY <1>1, <1>2, ReadExists
<1>6. R(g)
  <2>1. ASSUME NEW i \in 0 .. n
        PROVE  g[i] = IF i = 0 THEN EnvironFirst ELSE Grammar!EnvironByte(g[i - 1], s[i])
    <3>1. i # 0 => i \in 1 .. n /\ i - 1 \in 0 .. n
      BY <1>1
    <3> QED
      BY <1>1, <1>3, <1>5, <3>1 DEF ReadBy, n
  <2>2. g = [i \in 0 .. n |-> g[i]]
    BY <1>5 DEF ReadBy, n
  <2> QED
    BY <2>1, <2>2
<1>7. R(h)
  <2> HIDE DEF R
  <2> QED
    BY <1>4, <1>6
<1>8. /\ h[0] = EnvironFirst /\ DOMAIN h = 0 .. n /\ h = [i \in DOMAIN h |-> h[i]]
      /\ \A i \in 1 .. n : h[i] = Grammar!EnvironByte(h[i - 1], s[i])
  <2>1. 0 \in 0 .. n /\ \A i \in 1 .. n : i \in 0 .. n /\ i # 0
    BY <1>1
  <2>2. DOMAIN h = 0 .. n /\ h = [i \in DOMAIN h |-> h[i]]
    BY <1>7
  <2> QED
    BY <1>7, <2>1, <2>2
<1>9. h \in [0 .. n -> EnvironState]
  <2>1. \A i \in 1 .. n : h[i - 1] \in EnvironState => h[i] \in EnvironState
    BY <1>1, <1>8, EnvironByteTyped
  <2> HIDE DEF R
  <2> QED
    BY <1>1, <1>8, <2>1, ReadTyped
<1> QED
  BY <1>8, <1>9 DEF n, h

MsspState == [vars : Seq(Described), name : Seq(Byte), side : {"name", "value"}]

MsspFirst == [vars |-> <<>>, name |-> <<>>, side |-> "name"]

LEMMA MsspByteTyped ==
    ASSUME NEW a \in MsspState, NEW b \in Byte
    PROVE  Grammar!MsspByte(a, b) \in MsspState
<1>1. a.vars \in Seq(Described) /\ a.name \in Seq(Byte) /\ a.side \in {"name", "value"}
  BY DEF MsspState
<1>2. Grammar!Extended(a.vars, "value", b) \in Seq(Described)
  BY <1>1, ExtendedFacts
<1>3. Append(a.vars, Grammar!Variable("NUL", a.name, <<>>)) \in Seq(Described)
  <2>1. <<>> \in Seq(Byte) /\ "NUL" \in Byte
    BY Coded
  <2>2. Grammar!Variable("NUL", a.name, <<>>) \in Described
    BY <1>1, <2>1, VariableType
  <2> QED
    BY <1>1, <2>2
<1>4. Append(a.name, b) \in Seq(Byte) /\ <<>> \in Seq(Byte)
  BY <1>1
<1> QED
  BY <1>1, <1>2, <1>3, <1>4 DEF Grammar!MsspByte, MsspState

LEMMA MsspReadFacts ==
    ASSUME NEW s \in Seq(Byte)
    PROVE  /\ Grammar!MsspRead(s) \in [0 .. Len(s) -> MsspState]
           /\ Grammar!MsspRead(s)[0] = MsspFirst
           /\ \A i \in 1 .. Len(s) :
                 Grammar!MsspRead(s)[i] = Grammar!MsspByte(Grammar!MsspRead(s)[i - 1], s[i])
<1> DEFINE n == Len(s)
           h == Grammar!MsspRead(s)
           step == [a \in MsspState |-> [b \in Byte |-> Grammar!MsspByte(a, b)]]
           R(f) == f = [i \in 0 .. n |-> IF i = 0 THEN MsspFirst ELSE Grammar!MsspByte(f[i - 1], s[i])]
<1>1. n \in Nat /\ MsspFirst \in MsspState /\ \A i \in 1 .. n : s[i] \in Byte
  BY ElementOfSeq DEF MsspFirst, MsspState
<1>2. step \in Steps(MsspState)
  BY MsspByteTyped DEF Steps
<1>3. \A a \in MsspState, b \in Byte : step[a][b] = Grammar!MsspByte(a, b)
  OBVIOUS
<1>4. h = CHOOSE f : R(f)
  BY DEF Grammar!MsspRead, MsspFirst
<1> HIDE DEF n, step, h
<1>5. PICK g : ReadBy(g, MsspState, MsspFirst, step, s)
  BY <1>1, <1>2, ReadExists
<1>6. R(g)
  <2>1. ASSUME NEW i \in 0 .. n
        PROVE  g[i] = IF i = 0 THEN MsspFirst ELSE Grammar!MsspByte(g[i - 1], s[i])
    <3>1. i # 0 => i \in 1 .. n /\ i - 1 \in 0 .. n
      BY <1>1
    <3> QED
      BY <1>1, <1>3, <1>5, <3>1 DEF ReadBy, n
  <2>2. g = [i \in 0 .. n |-> g[i]]
    BY <1>5 DEF ReadBy, n
  <2> QED
    BY <2>1, <2>2
<1>7. R(h)
  <2> HIDE DEF R
  <2> QED
    BY <1>4, <1>6
<1>8. /\ h[0] = MsspFirst /\ DOMAIN h = 0 .. n /\ h = [i \in DOMAIN h |-> h[i]]
      /\ \A i \in 1 .. n : h[i] = Grammar!MsspByte(h[i - 1], s[i])
  <2>1. 0 \in 0 .. n /\ \A i \in 1 .. n : i \in 0 .. n /\ i # 0
    BY <1>1
  <2>2. DOMAIN h = 0 .. n /\ h = [i \in DOMAIN h |-> h[i]]
    BY <1>7
  <2> QED
    BY <1>7, <2>1, <2>2
<1>9. h \in [0 .. n -> MsspState]
  <2>1. \A i \in 1 .. n : h[i - 1] \in MsspState => h[i] \in MsspState
    BY <1>1, <1>8, MsspByteTyped
  <2> HIDE DEF R
  <2> QED
    BY <1>1, <1>8, <2>1, ReadTyped
<1> QED
  BY <1>8, <1>9 DEF n, h

ZmpState == [argv : Seq(Seq(Byte)), arg : Seq(Byte)]

ZmpFirst == [argv |-> <<>>, arg |-> <<>>]

LEMMA ZmpByteTyped ==
    ASSUME NEW a \in ZmpState, NEW b \in Byte
    PROVE  Grammar!ZmpByte(a, b) \in ZmpState
<1>1. a.argv \in Seq(Seq(Byte)) /\ a.arg \in Seq(Byte)
  BY DEF ZmpState
<1>2. Append(a.argv, a.arg) \in Seq(Seq(Byte)) /\ Append(a.arg, b) \in Seq(Byte) /\ <<>> \in Seq(Byte)
  BY <1>1
<1> QED
  BY <1>1, <1>2 DEF Grammar!ZmpByte, ZmpState

LEMMA ZmpReadFacts ==
    ASSUME NEW s \in Seq(Byte)
    PROVE  /\ Grammar!ZmpRead(s) \in [0 .. Len(s) -> ZmpState]
           /\ Grammar!ZmpRead(s)[0] = ZmpFirst
           /\ \A i \in 1 .. Len(s) :
                 Grammar!ZmpRead(s)[i] = Grammar!ZmpByte(Grammar!ZmpRead(s)[i - 1], s[i])
<1> DEFINE n == Len(s)
           h == Grammar!ZmpRead(s)
           step == [a \in ZmpState |-> [b \in Byte |-> Grammar!ZmpByte(a, b)]]
           R(f) == f = [i \in 0 .. n |-> IF i = 0 THEN ZmpFirst ELSE Grammar!ZmpByte(f[i - 1], s[i])]
<1>1. n \in Nat /\ ZmpFirst \in ZmpState /\ \A i \in 1 .. n : s[i] \in Byte
  BY ElementOfSeq DEF ZmpFirst, ZmpState
<1>2. step \in Steps(ZmpState)
  BY ZmpByteTyped DEF Steps
<1>3. \A a \in ZmpState, b \in Byte : step[a][b] = Grammar!ZmpByte(a, b)
  OBVIOUS
<1>4. h = CHOOSE f : R(f)
  BY DEF Grammar!ZmpRead, ZmpFirst
<1> HIDE DEF n, step, h
<1>5. PICK g : ReadBy(g, ZmpState, ZmpFirst, step, s)
  BY <1>1, <1>2, ReadExists
<1>6. R(g)
  <2>1. ASSUME NEW i \in 0 .. n
        PROVE  g[i] = IF i = 0 THEN ZmpFirst ELSE Grammar!ZmpByte(g[i - 1], s[i])
    <3>1. i # 0 => i \in 1 .. n /\ i - 1 \in 0 .. n
      BY <1>1
    <3> QED
      BY <1>1, <1>3, <1>5, <3>1 DEF ReadBy, n
  <2>2. g = [i \in 0 .. n |-> g[i]]
    BY <1>5 DEF ReadBy, n
  <2> QED
    BY <2>1, <2>2
<1>7. R(h)
  <2> HIDE DEF R
  <2> QED
    BY <1>4, <1>6
<1>8. /\ h[0] = ZmpFirst /\ DOMAIN h = 0 .. n /\ h = [i \in DOMAIN h |-> h[i]]
      /\ \A i \in 1 .. n : h[i] = Grammar!ZmpByte(h[i - 1], s[i])
  <2>1. 0 \in 0 .. n /\ \A i \in 1 .. n : i \in 0 .. n /\ i # 0
    BY <1>1
  <2>2. DOMAIN h = 0 .. n /\ h = [i \in DOMAIN h |-> h[i]]
    BY <1>7
  <2> QED
    BY <1>7, <2>1, <2>2
<1>9. h \in [0 .. n -> ZmpState]
  <2>1. \A i \in 1 .. n : h[i - 1] \in ZmpState => h[i] \in ZmpState
    BY <1>1, <1>8, ZmpByteTyped
  <2> HIDE DEF R
  <2> QED
    BY <1>1, <1>8, <2>1, ReadTyped
<1> QED
  BY <1>8, <1>9 DEF n, h

-----------------------------------------------------------------------------
(* Strings in a buffer.                                                    *)

\* There is a t with a NUL behind it at p, before position n.
Held(buf, p, t, n) ==
    /\ p \in Nat /\ t \in Seq(Byte) /\ p + Len(t) < n
    /\ \A j \in 1 .. Len(t) : buf[p + j] = t[j]
    /\ buf[p + Len(t) + 1] = "NUL"

HeldOrEmpty(buf, p, t, n) ==
    Held(buf, p, t, n) \/ (p = EmptyLiteral /\ t = <<>>)

\* An entry that points to what the grammar says.
Means(buf, e, v, n) ==
    e.type = v.type /\ Held(buf, e.var, v.var, n) /\ HeldOrEmpty(buf, e.value, v.value, n)

\* From a up to n there is a t.
Writing(buf, a, t, n) ==
    /\ t \in Seq(Byte) /\ n = a + Len(t)
    /\ \A j \in 1 .. Len(t) : buf[a + j] = t[j]

Same(buf, other, n) == \A k \in 1 .. n : other[k] = buf[k]

LEMMA HeldKept ==
    ASSUME NEW buf, NEW other, NEW n \in Nat, NEW m \in Nat, n <= m, Same(buf, other, n),
           NEW p, NEW t, Held(buf, p, t, n)
    PROVE  Held(other, p, t, m)
<1>1. p \in Nat /\ t \in Seq(Byte) /\ Len(t) \in Nat /\ p + Len(t) < n
  BY DEF Held
<1>2. \A j \in 1 .. Len(t) + 1 : p + j \in 1 .. n
  BY <1>1
<1>3. \A j \in 1 .. Len(t) + 1 : other[p + j] = buf[p + j]
  BY <1>2 DEF Same
<1>4. /\ \A j \in 1 .. Len(t) : j \in 1 .. Len(t) + 1
      /\ Len(t) + 1 \in 1 .. Len(t) + 1 /\ p + (Len(t) + 1) = p + Len(t) + 1
  BY <1>1
<1>5. \A j \in 1 .. Len(t) : other[p + j] = t[j]
  BY <1>3, <1>4 DEF Held
<1>6. other[p + Len(t) + 1] = "NUL"
  BY <1>3, <1>4 DEF Held
<1> QED
  BY <1>1, <1>5, <1>6 DEF Held

\* What a pointer stands for survives the writes above the end of its text.
LEMMA MeansKept ==
    ASSUME NEW buf, NEW other, NEW n \in Nat, NEW m \in Nat, n <= m, Same(buf, other, n),
           NEW e, NEW v, Means(buf, e, v, n)
    PROVE  Means(other, e, v, m)
<1>1. Held(other, e.var, v.var, m)
  BY HeldKept DEF Means
<1>2. HeldOrEmpty(other, e.value, v.value, m)
  BY HeldKept DEF Means, HeldOrEmpty
<1> QED
  BY <1>1, <1>2 DEF Means

LEMMA WritingBegins ==
    ASSUME NEW buf, NEW n \in Nat
    PROVE  Writing(buf, n, <<>>, n)
BY DEF Writing

LEMMA WritingAppend ==
    ASSUME NEW buf, NEW other, NEW n \in Nat, NEW a \in Nat, Same(buf, other, n),
           NEW t, Writing(buf, a, t, n), NEW b \in Byte, other[n + 1] = b
    PROVE  Writing(other, a, Append(t, b), n + 1)
<1>1. t \in Seq(Byte) /\ Len(t) \in Nat /\ n = a + Len(t)
  BY DEF Writing
<1>2. /\ Append(t, b) \in Seq(Byte) /\ Len(Append(t, b)) = Len(t) + 1
      /\ \A j \in 1 .. Len(t) : Append(t, b)[j] = t[j]
      /\ Append(t, b)[Len(t) + 1] = b
  BY <1>1
<1>3. ASSUME NEW j \in 1 .. Len(t) + 1
      PROVE  other[a + j] = Append(t, b)[j]
  <2>1. CASE j = Len(t) + 1
    <3>1. a + j = n + 1
      BY <1>1, <2>1
    <3> QED
      BY <1>2, <2>1, <3>1
  <2>2. CASE j # Len(t) + 1
    <3>1. j \in 1 .. Len(t) /\ a + j \in 1 .. n
      BY <1>1, <2>2
    <3> QED
      BY <1>2, <3>1 DEF Writing, Same
  <2> QED
    BY <2>1, <2>2
<1>4. n + 1 = a + Len(Append(t, b))
  BY <1>1, <1>2
<1> QED
  BY <1>2, <1>3, <1>4 DEF Writing

\* A NUL ends the text being written, which from then on is held.
LEMMA WritingEnds ==
    ASSUME NEW buf, NEW other, NEW n \in Nat, NEW a \in Nat, Same(buf, other, n),
           NEW t, Writing(buf, a, t, n), other[n + 1] = "NUL"
    PROVE  Held(other, a, t, n + 1)
<1>1. t \in Seq(Byte) /\ Len(t) \in Nat /\ n = a + Len(t)
  BY DEF Writing
<1>2. \A j \in 1 .. Len(t) : a + j \in 1 .. n
  BY <1>1
<1>3. \A j \in 1 .. Len(t) : other[a + j] = t[j]
  BY <1>2 DEF Writing, Same
<1>4. a + Len(t) < n + 1 /\ a + Len(t) + 1 = n + 1
  BY <1>1
<1> QED
  BY <1>1, <1>3, <1>4 DEF Held

\* Where a string ends for C it ends for the grammar.
LEMMA FirstNulIs ==
    ASSUME NEW t \in Seq(Byte), NEW i \in 1 .. Len(t), t[i] = "NUL",
           \A j \in 1 .. i - 1 : t[j] # "NUL"
    PROVE  Grammar!Truncated(t) = SubSeq(t, 1, i - 1)
<1>1. DOMAIN t = 1 .. Len(t) /\ Len(t) \in Nat
  OBVIOUS
<1>2. \A j \in DOMAIN t : t[j] = "NUL" => i <= j
  <2> SUFFICES ASSUME NEW j \in DOMAIN t, t[j] = "NUL", ~(i <= j)
               PROVE  FALSE
    OBVIOUS
  <2>1. j \in 1 .. i - 1
    BY <1>1
  <2> QED
    BY <2>1
<1> DEFINE P(k) == t[k] = "NUL" /\ \A j \in DOMAIN t : t[j] = "NUL" => k <= j
<1>3. \A k \in DOMAIN t : P(k) => k = i
  BY <1>1, <1>2
<1>4. Grammar!FirstNul(t) = CHOOSE k \in DOMAIN t : P(k)
  BY DEF Grammar!FirstNul
<1>5. i \in DOMAIN t /\ P(i)
  BY <1>1, <1>2
<1> HIDE DEF P
<1>6. Grammar!FirstNul(t) = i
  BY <1>3, <1>4, <1>5
<1>7. \E k \in DOMAIN t : t[k] = "NUL"
  BY <1>1
<1> QED
  BY <1>6, <1>7 DEF Grammar!Truncated

LEMMA NoNul ==
    ASSUME NEW t \in Seq(Byte), \A j \in 1 .. Len(t) : t[j] # "NUL"
    PROVE  Grammar!Truncated(t) = t
<1>1. ~ \E k \in DOMAIN t : t[k] = "NUL"
  OBVIOUS
<1> QED
  BY <1>1 DEF Grammar!Truncated

LEMMA SubSeqCut ==
    ASSUME NEW s \in Seq(Byte), NEW a \in Nat, NEW b \in Nat, a <= b, b <= Len(s)
    PROVE  /\ SubSeq(s, a + 1, b) \in Seq(Byte) /\ Len(SubSeq(s, a + 1, b)) = b - a
           /\ \A j \in 1 .. b - a : SubSeq(s, a + 1, b)[j] = s[a + j]
<1>1. \A j \in a + 1 .. b : s[j] \in Byte
  BY ElementOfSeq
<1>2. a + 1 \in Int /\ b \in Int /\ b - (a + 1) + 1 = b - a
  OBVIOUS
<1>3. SubSeq(s, a + 1, b) \in Seq(Byte)
  BY <1>1, <1>2, SubSeqProperties
<1>4. Len(SubSeq(s, a + 1, b)) = IF a + 1 <= b THEN b - (a + 1) + 1 ELSE 0
  BY <1>1, <1>2, SubSeqProperties
<1>5. \A j \in 1 .. b - (a + 1) + 1 : SubSeq(s, a + 1, b)[j] = s[a + 1 + j - 1]
  BY <1>1, <1>2, SubSeqProperties
<1>6. \A j \in 1 .. b - a : a + 1 + j - 1 = a + j
  OBVIOUS
<1> QED
  BY <1>2, <1>3, <1>4, <1>5, <1>6

LEMMA SubSeqFirst ==
    ASSUME NEW s \in Seq(Byte), NEW b \in Nat, b <= Len(s)
    PROVE  /\ SubSeq(s, 1, b) \in Seq(Byte) /\ Len(SubSeq(s, 1, b)) = b
           /\ \A j \in 1 .. b : SubSeq(s, 1, b)[j] = s[j]
<1>1. 0 \in Nat /\ 0 <= b /\ 0 + 1 = 1 /\ b - 0 = b /\ \A j \in 1 .. b : 0 + j = j
  OBVIOUS
<1>2. /\ SubSeq(s, 0 + 1, b) \in Seq(Byte) /\ Len(SubSeq(s, 0 + 1, b)) = b - 0
      /\ \A j \in 1 .. b - 0 : SubSeq(s, 0 + 1, b)[j] = s[0 + j]
  BY <1>1, SubSeqCut
<1> QED
  BY <1>1, <1>2

\* A string held at a pointer is what the listener reads there.
LEMMA HeldReads ==
    ASSUME NEW buf \in Seq(Byte), NEW n \in Nat, n <= Len(buf), NEW p, NEW t, Held(buf, p, t, n)
    PROVE  CString(buf, p) = Grammar!Truncated(t)
<1>1. /\ p \in Nat /\ t \in Seq(Byte) /\ Len(t) \in Nat /\ p + Len(t) < n /\ Len(buf) \in Nat
      /\ buf[p + Len(t) + 1] = "NUL"
      /\ \A j \in 1 .. Len(t) : buf[p + j] = t[j]
  BY DEF Held
<1>2. p + Len(t) \in Nat /\ p + Len(t) < Len(buf)
  BY <1>1
<1>3. At(buf, p + Len(t)) = "NUL" /\ p <= p + Len(t)
  BY <1>1, <1>2, AtFacts
<1>4. PICK e \in Nat : /\ p <= e /\ e <= p + Len(t) /\ At(buf, e) = "NUL"
                       /\ \A i \in Nat : p <= i /\ i < e => At(buf, i) # "NUL"
  BY <1>1, <1>2, <1>3, FirstEnd
<1>5. e < Len(buf) /\ e - p \in Nat /\ e - p <= Len(t)
  BY <1>1, <1>2, <1>4
<1>6. CString(buf, p) = SubSeq(buf, p + 1, e)
  BY <1>1, <1>4, <1>5, CStringEnds
<1>7. \A j \in 1 .. e - p : t[j] # "NUL" /\ buf[p + j] = t[j]
  <2> TAKE j \in 1 .. e - p
  <2>1. j \in 1 .. Len(t) /\ p + j - 1 \in Nat /\ p <= p + j - 1 /\ p + j - 1 < e /\ p + j - 1 + 1 = p + j
    BY <1>1, <1>4, <1>5
  <2>2. At(buf, p + j - 1) = buf[p + j]
    BY <1>5, <2>1, AtFacts
  <2> QED
    BY <1>1, <1>4, <2>1, <2>2
<1>8. SubSeq(buf, p + 1, e) = SubSeq(t, 1, e - p)
  <2> DEFINE x == SubSeq(buf, p + 1, e)
             y == SubSeq(t, 1, e - p)
  <2>1. x \in Seq(Byte) /\ Len(x) = e - p /\ \A j \in 1 .. e - p : x[j] = buf[p + j]
    BY <1>1, <1>4, <1>5, SubSeqCut
  <2>2. y \in Seq(Byte) /\ Len(y) = e - p /\ \A j \in 1 .. e - p : y[j] = t[j]
    BY <1>1, <1>5, SubSeqFirst
  <2>3. Len(x) = Len(y) /\ \A j \in 1 .. Len(x) : x[j] = y[j]
    BY <1>7, <2>1, <2>2
  <2> HIDE DEF x, y
  <2>4. x = y
    BY <2>1, <2>2, <2>3, SeqEqual
  <2> QED
    BY <2>4 DEF x, y
<1>9. CASE e - p = Len(t)
  <2>1. SubSeq(t, 1, e - p) = t
    BY <1>1, <1>9, SubSeqFull
  <2>2. Grammar!Truncated(t) = t
    BY <1>1, <1>7, <1>9, NoNul
  <2> QED
    BY <1>6, <1>8, <2>1, <2>2
<1>10. CASE e - p # Len(t)
  <2> DEFINE k == e - p + 1
  <2>1. k \in 1 .. Len(t) /\ p + k = e + 1 /\ k - 1 = e - p
    BY <1>1, <1>4, <1>5, <1>10
  <2>2. t[k] = "NUL"
    BY <1>1, <1>4, <1>5, <2>1, AtFacts
  <2> HIDE DEF k
  <2>3. \A j \in 1 .. k - 1 : t[j] # "NUL"
    BY <1>7, <2>1
  <2>4. Grammar!Truncated(t) = SubSeq(t, 1, k - 1)
    BY <1>1, <2>1, <2>2, <2>3, FirstNulIs
  <2> QED
    BY <1>6, <1>8, <2>1, <2>4
<1> QED
  BY <1>9, <1>10

\* Entries that stand for the described variables give the event's variables.
LEMMA EntriesRead ==
    ASSUME buffer \in Seq(Byte), NEW n \in Nat, n <= Len(buffer), NEW v \in Seq(Described),
           values \in Seq(Entry), Len(values) = Len(v),
           \A k \in 1 .. Len(v) : Means(buffer, values[k], v[k], n)
    PROVE  Entries(buffer) = Grammar!TruncatedVariables(v)
<1>1. DOMAIN values = 1 .. Len(v) /\ DOMAIN v = 1 .. Len(v)
  OBVIOUS
<1>2. ASSUME NEW k \in 1 .. Len(v)
      PROVE  /\ CString(buffer, values[k].var) = Grammar!Truncated(v[k].var)
             /\ CString(buffer, values[k].value) = Grammar!Truncated(v[k].value)
             /\ values[k].type = v[k].type
  <2>1. /\ values[k].type = v[k].type
        /\ Held(buffer, values[k].var, v[k].var, n)
        /\ Held(buffer, values[k].value, v[k].value, n)
             \/ (values[k].value = EmptyLiteral /\ v[k].value = <<>>)
    BY DEF Means, HeldOrEmpty
  <2>2. CString(buffer, values[k].var) = Grammar!Truncated(v[k].var)
    BY <2>1, HeldReads
  <2>3. CASE Held(buffer, values[k].value, v[k].value, n)
    <3>1. CString(buffer, values[k].value) = Grammar!Truncated(v[k].value)
      BY <2>3, HeldReads
    <3> QED
      BY <2>1, <2>2, <3>1
  <2>4. CASE values[k].value = EmptyLiteral /\ v[k].value = <<>>
    <3>1. CString(buffer, values[k].value) = <<>>
      BY <2>4, NullFacts DEF CString
    <3>2. Grammar!Truncated(<<>>) = <<>>
      BY DEF Grammar!Truncated
    <3> QED
      BY <2>1, <2>2, <2>4, <3>1, <3>2
  <2> QED
    BY <2>1, <2>3, <2>4
<1>3. \A k \in 1 .. Len(v) :
          [type |-> values[k].type, var |-> CString(buffer, values[k].var),
                                    value |-> CString(buffer, values[k].value)]
             = Grammar!Variable(v[k].type, Grammar!Truncated(v[k].var), Grammar!Truncated(v[k].value))
  BY <1>2 DEF Grammar!Variable
<1> QED
  BY <1>1, <1>3 DEF Entries, Grammar!TruncatedVariables

LEMMA TailIs ==
    ASSUME NEW s \in Seq(Byte), s # <<>>
    PROVE  /\ Tail(s) \in Seq(Byte) /\ Len(Tail(s)) = Len(s) - 1 /\ Head(s) = s[1]
           /\ \A i \in 1 .. Len(s) - 1 : Tail(s)[i] = s[i + 1]
           /\ Len(s) \in Nat \ {0}
<1>1. /\ Tail(s) \in Seq(Byte) /\ Len(Tail(s)) = Len(s) - 1
      /\ \A i \in 1 .. Len(Tail(s)) : Tail(s)[i] = s[i + 1]
  BY HeadTailProperties
<1>2. Len(s) \in Nat \ {0}
  BY EmptySeq
<1>3. Head(s) = s[1]
  OBVIOUS
<1> QED
  BY <1>1, <1>2, <1>3

-----------------------------------------------------------------------------
(* NEW-ENVIRON.                                                            *)

\* What i bytes after the command come to.
Environ(s, i) == Grammar!EnvironRead(Tail(s))[i]

LEMMA EnvironFacts ==
    ASSUME NEW s \in Seq(Byte), Len(s) > 1
    PROVE  /\ Environ(s, 0) = EnvironFirst
           /\ \A i \in 0 .. Len(s) - 1 : Environ(s, i) \in EnvironState
           /\ \A i \in 1 .. Len(s) - 1 : Environ(s, i) = Grammar!EnvironByte(Environ(s, i - 1), s[i + 1])
<1>1. s # <<>>
  OBVIOUS
<1>2. /\ Tail(s) \in Seq(Byte) /\ Len(Tail(s)) = Len(s) - 1
      /\ \A i \in 1 .. Len(s) - 1 : Tail(s)[i] = s[i + 1]
  BY <1>1, TailIs
<1>3. /\ Grammar!EnvironRead(Tail(s)) \in [0 .. Len(Tail(s)) -> EnvironState]
      /\ Grammar!EnvironRead(Tail(s))[0] = EnvironFirst
      /\ \A i \in 1 .. Len(Tail(s)) :
            Grammar!EnvironRead(Tail(s))[i] = Grammar!EnvironByte(Grammar!EnvironRead(Tail(s))[i - 1], Tail(s)[i])
  BY <1>2, EnvironReadFacts
<1> QED
  BY <1>2, <1>3 DEF Environ

LEMMA EnvironVariable ==
    ASSUME NEW a \in EnvironState, ~a.escaped, NEW b \in {VAR, USERVAR}
    PROVE  Grammar!EnvironByte(a, b) =
              [vars |-> Append(a.vars, Grammar!Variable(b, <<>>, <<>>)), side |-> "var", escaped |-> FALSE]
<1>1. b \in {"NUL", "ETX"} /\ b # "STX"
  BY DEF VAR, USERVAR
<1> QED
  BY <1>1 DEF Grammar!EnvironByte, EnvironState

LEMMA EnvironSeparates ==
    ASSUME NEW a \in EnvironState, ~a.escaped, a.side = "var"
    PROVE  Grammar!EnvironByte(a, VALUE) = [vars |-> a.vars, side |-> "value", escaped |-> FALSE]
BY DEF Grammar!EnvironByte, EnvironState, VALUE

LEMMA EnvironText ==
    ASSUME NEW a \in EnvironState, ~a.escaped, NEW b, b \notin {VAR, USERVAR, ESC},
           a.side = "var" => b # VALUE
    PROVE  Grammar!EnvironByte(a, b) =
              [vars |-> Grammar!Extended(a.vars, a.side, b), side |-> a.side, escaped |-> FALSE]
BY DEF Grammar!EnvironByte, EnvironState, VALUE, VAR, USERVAR, ESC

LEMMA EnvironEscape ==
    ASSUME NEW a \in EnvironState, ~a.escaped, NEW b
    PROVE  Grammar!EnvironByte(Grammar!EnvironByte(a, ESC), b) =
              [vars |-> Grammar!Extended(a.vars, a.side, b), side |-> a.side, escaped |-> FALSE]
BY DEF Grammar!EnvironByte, EnvironState, ESC

\* What is still to be read is as it arrived.
Unread(s) ==
    /\ s \in Seq(Byte) /\ size = Len(s)
    /\ \A i \in 1 .. Len(s) : i > c => buffer[i] = s[i]

\* The loop has read c bytes of s right.
ReadsEnviron(s) ==
    LET r == Environ(s, c - 1)
    IN  /\ Unread(s)
        /\ Len(s) > 1 /\ s[1] \in {IS, SEND, INFO} /\ s[2] \in {VAR, USERVAR} /\ s[Len(s)] # ESC
        /\ next_type = s[1]
        /\ ~r.escaped
        /\ Len(r.vars) = IF pc = "entry" THEN index ELSE index + 1
        /\ \A k \in 1 .. index : Means(buffer, values[k], r.vars[k], out)
        /\ pc = "name" =>
              /\ r.side = "var"
              /\ values[index + 1].type = r.vars[index + 1].type
              /\ r.vars[index + 1].value = <<>>
              /\ Writing(buffer, last, r.vars[index + 1].var, out)
        /\ pc = "value" =>
              /\ r.side = "value"
              /\ values[index + 1].type = r.vars[index + 1].type
              /\ Held(buffer, values[index + 1].var, r.vars[index + 1].var, out)
              /\ Writing(buffer, last, r.vars[index + 1].value, out)

\* The payloads that end in the value of ESC and MSSP_VAL, and the event these give.
Odd(o, s) == o \in {"ENVIRON", "NEW_ENVIRON", "MSSP"} /\ Grammar!EndsInEsc(s)

OddReading(o, s, ev) ==
    IF o = "MSSP" /\ ev.kind = "mssp"
      THEN [ev EXCEPT !.values[Len(ev.values)] =
                [type |-> VAR, var |-> "NULL", value |-> "NULL"]]
    ELSE IF o # "MSSP" /\ Len(s) > 1 THEN Grammar!Malformed
    ELSE ev

\* The event is what the payload means, but where Odd says.
Answered(o, s, ev) ==
    LET meant == Grammar!Meaning(o, s)
    IN  \/ ev = IF Odd(o, s) THEN OddReading(o, s, meant) ELSE meant
        \/ MemoryFails /\ ev = Warning("memory")

\* What the grammar gives a payload of the option once all of it is read.
LEMMA MeaningOfEnviron ==
    ASSUME NEW o \in {"ENVIRON", "NEW_ENVIRON"}, NEW s
    PROVE  Grammar!Meaning(o, s) =
              IF s = <<>> THEN NoEvent
              ELSE IF Grammar!WellFormedEnviron(s)
                THEN [kind |-> "environ", cmd |-> Head(s), values |-> Grammar!EnvironVariables(Tail(s))]
                ELSE Grammar!Malformed
BY DEF Grammar!Meaning, NoEvent

\* The payloads _environ_telnet refuses are those the grammar refuses.
LEMMA EnvironRefuses ==
    ASSUME NEW o \in {"ENVIRON", "NEW_ENVIRON"}, buffer \in Seq(Byte), EnvironRefusal.kind # "parse"
    PROVE  Answered(o, buffer, EnvironRefusal)
<1> DEFINE meant == Grammar!Meaning(o, buffer)
           m == Len(buffer)
           read == IF Odd(o, buffer) THEN OddReading(o, buffer, meant) ELSE meant
<1>1. /\ m \in Nat /\ size = m /\ (m = 0 <=> buffer = <<>>) /\ o # "MSSP"
      /\ Grammar!Malformed = Warning("protocol")
  BY EmptySeq DEF size, Grammar!Malformed, Warning
<1>2. Odd(o, buffer) <=> m # 0 /\ buffer[m] = ESC
  BY <1>1 DEF Odd, Grammar!EndsInEsc, ESC
<1>3. OddReading(o, buffer, meant) = IF m > 1 THEN Warning("protocol") ELSE meant
  BY <1>1 DEF OddReading
<1>4. m # 0 => At(buffer, 0) = buffer[1] /\ At(buffer, m - 1) = buffer[m] /\ Head(buffer) = buffer[1]
  <2>1. m # 0 => m - 1 \in Nat /\ m - 1 < m /\ m - 1 + 1 = m /\ 0 < m
    BY <1>1
  <2> QED
    BY <1>1, <2>1, AtFacts
<1>5. m > 1 => At(buffer, 1) = buffer[2]
  BY <1>1, AtFacts
<1>6. CASE m = 0
  <2>1. EnvironRefusal = NoEvent
    BY <1>1, <1>6 DEF EnvironRefusal
  <2>2. read = NoEvent
    BY <1>1, <1>2, <1>6, MeaningOfEnviron
  <2> QED
    BY <2>1, <2>2 DEF Answered
<1>7. CASE m # 0 /\ buffer[1] \notin {IS, SEND, INFO}
  <2>1. EnvironRefusal = Warning("protocol")
    BY <1>1, <1>4, <1>7 DEF EnvironRefusal
  <2>2. ~Grammar!WellFormedEnviron(buffer)
    BY <1>7 DEF Grammar!WellFormedEnviron, IS, SEND, INFO
  <2>3. read = Warning("protocol")
    BY <1>1, <1>3, <1>7, <2>2, MeaningOfEnviron
  <2> QED
    BY <2>1, <2>3 DEF Answered
<1>8. CASE m = 1 /\ buffer[1] \in {IS, SEND, INFO}
  <2>1. EnvironRefusal = [kind |-> "environ", cmd |-> buffer[1], values |-> <<>>]
    BY <1>1, <1>4, <1>8 DEF EnvironRefusal
  <2>2. Grammar!WellFormedEnviron(buffer)
    BY <1>8 DEF Grammar!WellFormedEnviron, IS, SEND, INFO
  <2>3. Grammar!EnvironVariables(Tail(buffer)) = <<>>
    <3>1. Tail(buffer) \in Seq(Byte) /\ Len(Tail(buffer)) = 0
      BY <1>1, <1>8, TailIs
    <3>2. Grammar!EnvironRead(Tail(buffer))[Len(Tail(buffer))].vars = <<>>
      BY <3>1, EnvironReadFacts DEF EnvironFirst
    <3> QED
      BY <3>2 DEF Grammar!EnvironVariables, Grammar!TruncatedVariables
  <2>4. read = [kind |-> "environ", cmd |-> buffer[1], values |-> <<>>]
    BY <1>1, <1>3, <1>4, <1>8, <2>2, <2>3, MeaningOfEnviron
  <2> QED
    BY <2>1, <2>4 DEF Answered
<1>9. CASE m > 1 /\ buffer[1] \in {IS, SEND, INFO} /\ buffer[2] \notin {VAR, USERVAR}
  <2>1. EnvironRefusal = Warning("protocol")
    BY <1>1, <1>4, <1>5, <1>9 DEF EnvironRefusal
  <2>2. ~Grammar!WellFormedEnviron(buffer)
    BY <1>9 DEF Grammar!WellFormedEnviron, VAR, USERVAR
  <2>3. read = Warning("protocol")
    BY <1>1, <1>3, <1>9, <2>2, MeaningOfEnviron
  <2> QED
    BY <2>1, <2>3 DEF Answered
<1>10. CASE m > 1 /\ buffer[1] \in {IS, SEND, INFO} /\ buffer[2] \in {VAR, USERVAR}
  <2>1. EnvironRefusal = Warning("protocol") /\ buffer[m] = ESC
    BY <1>1, <1>4, <1>5, <1>10 DEF EnvironRefusal
  <2>2. read = Warning("protocol")
    BY <1>2, <1>3, <1>10, <2>1
  <2> QED
    BY <2>1, <2>2 DEF Answered
<1> QED
  BY <1>1, <1>6, <1>7, <1>8, <1>9, <1>10

\* The step that begins a payload establishes the invariant of its parser:
\* the buffer is as received, and nothing is read of it yet.
LEMMA EnvironStartReads ==
    ASSUME ParserInv, telopt \in {"ENVIRON", "NEW_ENVIRON"}, NEW s, s = buffer, EnvironStart
    PROVE  \/ pc' = "idle" /\ Answered(telopt, s, event')
           \/ pc' = "entry" /\ ReadsEnviron(s)'
<1>1. s \in Seq(Byte) /\ size = Len(s) /\ Len(s) \in Nat
  BY DEF ParserInv, Bounded, size
<1>2. CASE EnvironRefusal.kind # "parse"
  <2>1. pc' = "idle" /\ event' = EnvironRefusal
    BY <1>2 DEF EnvironStart, Give
  <2> QED
    BY <1>1, <1>2, <2>1, EnvironRefuses
<1>3. CASE MemoryFails /\ pc' = "idle" /\ event' = Warning("memory")
  BY <1>3 DEF Answered
<1>4. CASE /\ EnvironRefusal.kind = "parse" /\ Allocate(Variables(buffer)[1], NullEntry)
           /\ pc' = "entry" /\ out' = 0 /\ c' = 1 /\ next_type' = At(buffer, 0) /\ buffer' = buffer
  <2>1. /\ size # 0 /\ size # 1 /\ At(buffer, 0) \in {IS, SEND, INFO}
        /\ At(buffer, 1) \in {VAR, USERVAR} /\ At(buffer, size - 1) # ESC
    BY <1>4 DEF EnvironRefusal, NoEvent, Warning
  <2>2. Len(s) > 1 /\ size - 1 \in Nat /\ size - 1 < Len(s) /\ size - 1 + 1 = Len(s)
    BY <1>1, <2>1
  <2>3. At(buffer, 0) = s[1] /\ At(buffer, 1) = s[2] /\ At(buffer, size - 1) = s[Len(s)]
    BY <1>1, <2>2, AtFacts
  <2>4. c' - 1 = 0 /\ index' = 0
    BY <1>4 DEF Allocate
  <2>5. ~Environ(s, 0).escaped /\ Environ(s, 0).vars = <<>>
    BY <1>1, <2>2, EnvironFacts DEF EnvironFirst
  <2>6. Unread(s)'
    BY <1>1, <1>4 DEF Unread, size
  <2> QED
    BY <1>4, <2>1, <2>2, <2>3, <2>4, <2>5, <2>6 DEF ReadsEnviron
<1> QED
  BY <1>2, <1>3, <1>4 DEF EnvironStart, Give

LEMMA ReadsEnvironFacts ==
    ASSUME ParserInv, NEW s, ReadsEnviron(s), pc \in {"entry", "name", "value"}
    PROVE  /\ s \in Seq(Byte) /\ buffer \in Seq(Byte) /\ size = Len(s) /\ Len(buffer) = Len(s)
           /\ Len(s) \in Nat /\ Len(s) > 1
           /\ c \in 1 .. Len(s) /\ c \in Nat /\ out \in Nat /\ out < c /\ last \in Nat
           /\ index \in Nat /\ values \in Seq(Entry) /\ Len(values) \in Nat
           /\ Environ(s, c - 1) \in EnvironState /\ ~Environ(s, c - 1).escaped
           /\ c < Len(s) => At(buffer, c) = s[c + 1] /\ s[c + 1] \in Byte
                            /\ Environ(s, c) = Grammar!EnvironByte(Environ(s, c - 1), s[c + 1])
           /\ c = Len(s) => At(buffer, c) = "beyond"
           /\ IF pc = "entry" THEN index <= Len(values) ELSE index < Len(values) /\ out + 1 < c
<1>1. /\ EnvironLoop /\ buffer \in Seq(Byte) /\ size = Len(buffer) /\ Len(buffer) \in Nat
      /\ c \in Nat /\ out \in Nat /\ last \in Nat /\ index \in Nat
      /\ values \in Seq(Entry) /\ Len(values) \in Nat /\ index <= Len(values)
  BY DEF ParserInv, Bounded, size
<1>2. s \in Seq(Byte) /\ size = Len(s) /\ Len(s) > 1 /\ ~Environ(s, c - 1).escaped
  BY DEF ReadsEnviron, Unread
<1>3. c \in 1 .. Len(s) /\ out < c /\ c - 1 \in 0 .. Len(s) - 1
  BY <1>1, <1>2 DEF EnvironLoop
<1>4. Environ(s, c - 1) \in EnvironState
  BY <1>2, <1>3, EnvironFacts
<1>5. ASSUME c < Len(s)
      PROVE  /\ At(buffer, c) = s[c + 1] /\ s[c + 1] \in Byte
             /\ Environ(s, c) = Grammar!EnvironByte(Environ(s, c - 1), s[c + 1])
  <2>1. c + 1 \in 1 .. Len(s) /\ c + 1 > c /\ c \in 1 .. Len(s) - 1 /\ c < Len(buffer)
    BY <1>1, <1>2, <1>3, <1>5
  <2>2. At(buffer, c) = buffer[c + 1] /\ buffer[c + 1] = s[c + 1]
    BY <1>1, <2>1, AtFacts DEF ReadsEnviron, Unread
  <2>3. s[c + 1] \in Byte
    BY <1>2, <2>1, ElementOfSeq
  <2> QED
    BY <1>2, <2>1, <2>2, <2>3, EnvironFacts
<1>6. ASSUME c = Len(s)
      PROVE  At(buffer, c) = "beyond"
  <2>1. c >= Len(buffer)
    BY <1>1, <1>2, <1>6
  <2> QED
    BY <1>1, <2>1, AtFacts
<1>7. pc # "entry" => index < Len(values) /\ out + 1 < c
  <2>1. CASE pc # "entry"
    <3>1. c \in 1 .. Len(buffer) + 1
      BY <1>1, <1>2, <1>3
    <3>2. Variables(buffer)[c] \in Nat
      BY <1>1, <3>1, VariablesCount DEF Counts
    <3> QED
      BY <1>1, <2>1, <3>2 DEF EnvironLoop
  <2> QED
    BY <2>1
<1> QED
  BY <1>1, <1>2, <1>3, <1>4, <1>5, <1>6, <1>7

\* Another variable begins as often as one was counted.
LEMMA EnvironCounted ==
    ASSUME ParserInv, NEW s, ReadsEnviron(s), pc = "entry"
    PROVE  IF index # Len(values) THEN c < Len(s) /\ s[c + 1] \in {VAR, USERVAR} ELSE c = Len(s)
<1>1. /\ buffer \in Seq(Byte) /\ Len(buffer) = Len(s) /\ size = Len(s) /\ Len(s) \in Nat
      /\ c \in 1 .. Len(s) /\ c \in Nat /\ index \in Nat /\ Len(values) \in Nat
      /\ c < Len(s) => At(buffer, c) = s[c + 1]
  BY ReadsEnvironFacts
<1>2. /\ c < size => At(buffer, c) \in {VAR, USERVAR}
      /\ Len(values) = index + Variables(buffer)[c]
  BY DEF ParserInv, EnvironLoop
<1>3. c \in 1 .. Len(buffer) + 1 /\ (c < Len(s) => c + 1 \in 1 .. Len(buffer) + 1)
  BY <1>1
<1>4. /\ Variables(buffer)[c] = CountFrom(Variables(buffer), buffer, c) /\ Variables(buffer)[c] \in Nat
      /\ c < Len(s) => Variables(buffer)[c + 1] \in Nat
  BY <1>1, <1>3, VariablesCount DEF Counts
<1>5. c < Len(s) => Variables(buffer)[c] > 0
  BY <1>1, <1>2, <1>4 DEF CountFrom
<1>6. c >= Len(s) => Variables(buffer)[c] = 0
  BY <1>1, <1>4 DEF CountFrom
<1> QED
  BY <1>1, <1>2, <1>4, <1>5, <1>6

\* The type byte of the next variable ends the value before it.
LEMMA EnvironEntryReads ==
    ASSUME ParserInv, telopt \in {"ENVIRON", "NEW_ENVIRON"}, NEW s, ReadsEnviron(s), EnvironEntry
    PROVE  \/ pc' = "idle" /\ Answered(telopt, s, event')
           \/ pc' = "name" /\ ReadsEnviron(s)'
<1>1. pc = "entry"
  BY DEF EnvironEntry
<1>2. /\ s \in Seq(Byte) /\ buffer \in Seq(Byte) /\ size = Len(s) /\ Len(buffer) = Len(s)
      /\ Len(s) \in Nat /\ Len(s) > 1
      /\ c \in 1 .. Len(s) /\ c \in Nat /\ out \in Nat /\ out < c /\ index \in Nat
      /\ values \in Seq(Entry) /\ Len(values) \in Nat /\ index <= Len(values)
  BY <1>1, ReadsEnvironFacts
<1> DEFINE r == Environ(s, c - 1)
<1>3. r \in EnvironState /\ ~r.escaped /\ r.vars \in Seq(Described)
  BY <1>1, ReadsEnvironFacts DEF EnvironState
<1>4. Len(r.vars) = index /\ \A k \in 1 .. index : Means(buffer, values[k], r.vars[k], out)
  BY <1>1 DEF ReadsEnviron
<1>5. CASE index = Len(values)
  <2>1. c = Len(s)
    BY <1>1, <1>5, EnvironCounted
  <2>2. pc' = "idle" /\ event' = [kind |-> "environ", cmd |-> s[1], values |-> Entries(buffer)]
    BY <1>5 DEF EnvironEntry, Give, ReadsEnviron
  <2>3. Entries(buffer) = Grammar!TruncatedVariables(r.vars)
    <3>1. out <= Len(buffer)
      BY <1>2
    <3> HIDE DEF r
    <3> QED
      BY <1>2, <1>3, <1>4, <1>5, <3>1, EntriesRead
  <2>4. s # <<>> /\ Head(s) = s[1] /\ Len(Tail(s)) = c - 1
    <3>1. s # <<>>
      BY <1>2
    <3> QED
      BY <1>2, <2>1, <3>1, TailIs
  <2>5. Grammar!EnvironRead(Tail(s))[Len(Tail(s))] = r
    BY <2>4 DEF Environ
  <2>6. Grammar!WellFormedEnviron(s)
    <3>1. s[1] \in {"NUL", "SOH", "STX"} /\ s[2] \in {"NUL", "ETX"}
      BY DEF ReadsEnviron, IS, SEND, INFO, VAR, USERVAR
    <3> QED
      BY <1>3, <2>5, <3>1 DEF Grammar!WellFormedEnviron, Grammar!EndsEscaping
  <2>7. Grammar!EnvironVariables(Tail(s)) = Entries(buffer)
    BY <2>3, <2>5 DEF Grammar!EnvironVariables
  <2>8. ~Odd(telopt, s)
    <3>1. s[Len(s)] # "STX"
      BY DEF ReadsEnviron, ESC
    <3> QED
      BY <3>1 DEF Odd, Grammar!EndsInEsc
  <2> QED
    BY <2>2, <2>4, <2>6, <2>7, <2>8, MeaningOfEnviron DEF Answered
<1>6. CASE index # Len(values)
  <2>1. c < Len(s) /\ s[c + 1] \in {VAR, USERVAR}
    BY <1>1, <1>6, EnvironCounted
  <2> DEFINE b == s[c + 1]
             q == Environ(s, c)
  <2>2. At(buffer, c) = b /\ b \in Byte /\ q = Grammar!EnvironByte(r, b)
    BY <1>1, <2>1, ReadsEnvironFacts
  <2>3. q = [vars |-> Append(r.vars, Grammar!Variable(b, <<>>, <<>>)), side |-> "var", escaped |-> FALSE]
    BY <1>3, <2>1, <2>2, EnvironVariable
  <2>4. /\ pc' = "name" /\ c' = c + 1 /\ last' = out /\ buffer' = buffer /\ out' = out
        /\ index' = index /\ next_type' = next_type
        /\ values' = [values EXCEPT ![index + 1].type = b]
    BY <1>6, <2>2 DEF EnvironEntry
  <2> HIDE DEF b
  <2>5. /\ values'[index + 1].type = b
        /\ \A k \in 1 .. index : values'[k] = values[k]
    <3>1. index + 1 \in 1 .. Len(values)
      BY <1>2, <1>6
    <3>2. values[index + 1] \in Entry /\ DOMAIN values = 1 .. Len(values)
      BY <1>2, <3>1, ElementOfSeq
    <3>3. values'[index + 1] = [values[index + 1] EXCEPT !.type = b]
      BY <2>4, <3>1, <3>2
    <3>4. \A k \in 1 .. index : k \in 1 .. Len(values) /\ k # index + 1
      BY <1>2
    <3> QED
      BY <2>4, <3>2, <3>3, <3>4 DEF Entry
  <2>6. c' - 1 = c
    BY <1>2, <2>4
  <2>7. /\ q.vars[index + 1] = Grammar!Variable(b, <<>>, <<>>) /\ Len(q.vars) = index + 1
        /\ \A k \in 1 .. index : q.vars[k] = r.vars[k]
        /\ ~q.escaped /\ q.side = "var"
    <3>1. <<>> \in Seq(Byte)
      OBVIOUS
    <3>2. Grammar!Variable(b, <<>>, <<>>) \in Described
      BY <2>2, <3>1, VariableType
    <3> DEFINE w == Append(r.vars, Grammar!Variable(b, <<>>, <<>>))
    <3>3. /\ w[index + 1] = Grammar!Variable(b, <<>>, <<>>) /\ Len(w) = index + 1
          /\ \A k \in 1 .. index : w[k] = r.vars[k]
      BY <1>2, <1>3, <1>4, <3>2
    <3> HIDE DEF w
    <3>4. q.vars = w /\ ~q.escaped /\ q.side = "var"
      BY <2>3 DEF w
    <3> QED
      BY <3>3, <3>4
  <2> HIDE DEF q, r
  <2>8. q.vars[index + 1].type = b /\ q.vars[index + 1].var = <<>> /\ q.vars[index + 1].value = <<>>
    <3>1. /\ Grammar!Variable(b, <<>>, <<>>).type = b /\ Grammar!Variable(b, <<>>, <<>>).var = <<>>
          /\ Grammar!Variable(b, <<>>, <<>>).value = <<>>
      BY DEF Grammar!Variable
    <3> QED
      BY <2>7, <3>1
  <2>9. \A k \in 1 .. index : Means(buffer, values'[k], q.vars[k], out)
    BY <1>4, <2>5, <2>7
  <2>10. Writing(buffer, out, <<>>, out)
    BY <1>2, WritingBegins
  <2>11. Unread(s)'
    BY <1>2, <2>4 DEF ReadsEnviron, Unread, size
  <2>12. ReadsEnviron(s)'
    BY <2>4, <2>5, <2>6, <2>7, <2>8, <2>9, <2>10, <2>11 DEF ReadsEnviron, q
  <2> QED
    BY <2>4, <2>12
<1> QED
  BY <1>5, <1>6

\* A byte written behind what is read.
LEMMA WriteKeeps ==
    ASSUME buffer \in Seq(Byte), out \in Nat, out < size, NEW b \in Byte
    PROVE  /\ Same(buffer, Write(out, b), out) /\ Write(out, b)[out + 1] = b
           /\ Write(out, b) \in Seq(Byte) /\ Len(Write(out, b)) = Len(buffer)
           /\ \A i \in 1 .. Len(buffer) : i > out + 1 => Write(out, b)[i] = buffer[i]
<1>1. /\ Write(out, b) \in Seq(Byte) /\ Len(Write(out, b)) = Len(buffer)
      /\ Write(out, b)[out + 1] = b
      /\ \A k \in 1 .. Len(buffer) : k # out + 1 => Write(out, b)[k] = buffer[k]
  BY WriteFacts
<1>2. \A k \in 1 .. out : k \in 1 .. Len(buffer) /\ k # out + 1
  BY DEF size
<1> QED
  BY <1>1, <1>2 DEF Same

\* The byte of the text that is copied, from where it is.
LEMMA EnvironCopies ==
    ASSUME ParserInv, NEW s, ReadsEnviron(s), EnvironCopy
    PROVE  \E from \in Nat, b \in Byte :
              /\ from >= c /\ from < Len(s)
              /\ buffer' = Write(out, b) /\ out' = out + 1 /\ c' = from + 1
              /\ Environ(s, from) = [vars |-> Grammar!Extended(Environ(s, c - 1).vars, Environ(s, c - 1).side, b),
                                     side |-> Environ(s, c - 1).side, escaped |-> FALSE]
<1>1. /\ pc \in {"name", "value"}
      /\ At(buffer, c) \notin {"beyond", VAR, USERVAR} /\ (pc = "name" => At(buffer, c) # VALUE)
  BY DEF EnvironCopy
<1>2. /\ s \in Seq(Byte) /\ buffer \in Seq(Byte) /\ size = Len(s) /\ Len(buffer) = Len(s)
      /\ Len(s) \in Nat /\ Len(s) > 1 /\ c \in 1 .. Len(s) /\ c \in Nat
  BY <1>1, ReadsEnvironFacts
<1>3. c < Len(s)
  <2>1. c = Len(s) => At(buffer, c) = "beyond"
    BY <1>1, ReadsEnvironFacts
  <2> QED
    BY <1>1, <1>2, <2>1
<1> DEFINE r == Environ(s, c - 1)
<1>4. r \in EnvironState /\ ~r.escaped /\ (r.side = "var" => pc = "name")
  <2>1. r \in EnvironState /\ ~r.escaped
    BY <1>1, ReadsEnvironFacts
  <2>2. pc = "value" => r.side # "var"
    BY DEF ReadsEnviron
  <2> QED
    BY <1>1, <2>1, <2>2
<1>5. /\ At(buffer, c) = s[c + 1] /\ s[c + 1] \in Byte
      /\ Environ(s, c) = Grammar!EnvironByte(r, s[c + 1])
  BY <1>1, <1>3, ReadsEnvironFacts
<1>6. CASE At(buffer, c) # ESC
  <2>1. buffer' = Write(out, s[c + 1]) /\ out' = out + 1 /\ c' = c + 1
    BY <1>5, <1>6 DEF EnvironCopy, CopyUnescaped
  <2>2. Environ(s, c) = [vars |-> Grammar!Extended(r.vars, r.side, s[c + 1]), side |-> r.side, escaped |-> FALSE]
    BY <1>1, <1>4, <1>5, <1>6, EnvironText
  <2> QED
    BY <1>2, <1>3, <1>5, <2>1, <2>2
<1>7. CASE At(buffer, c) = ESC
  <2>1. c + 1 < Len(s)
    <3>1. s[Len(s)] # ESC
      BY DEF ReadsEnviron
    <3>2. s[c + 1] = ESC
      BY <1>5, <1>7
    <3>3. c + 1 # Len(s)
      BY <3>1, <3>2
    <3> QED
      BY <1>2, <1>3, <3>3
  <2>2. /\ c + 1 + 1 \in 1 .. Len(s) /\ c + 1 \in Nat /\ c + 1 + 1 > c /\ c + 1 < Len(buffer)
        /\ c + 1 \in 1 .. Len(s) - 1 /\ (c + 1) - 1 = c
    BY <1>2, <2>1
  <2>3. At(buffer, c + 1) = s[c + 1 + 1] /\ s[c + 1 + 1] \in Byte
    <3>1. At(buffer, c + 1) = buffer[c + 1 + 1]
      BY <1>2, <2>2, AtFacts
    <3>2. buffer[c + 1 + 1] = s[c + 1 + 1]
      BY <2>2 DEF ReadsEnviron, Unread
    <3> QED
      BY <1>2, <2>2, <3>1, <3>2, ElementOfSeq
  <2>4. buffer' = Write(out, s[c + 1 + 1]) /\ out' = out + 1 /\ c' = c + 1 + 1
    BY <1>7, <2>3 DEF EnvironCopy, CopyUnescaped
  <2>5. Environ(s, c + 1) = Grammar!EnvironByte(Environ(s, c), s[c + 1 + 1])
    <3>1. Environ(s, c + 1) = Grammar!EnvironByte(Environ(s, (c + 1) - 1), s[c + 1 + 1])
      BY <1>2, <2>2, EnvironFacts
    <3> QED
      BY <2>2, <3>1
  <2>6. Environ(s, c + 1) = [vars |-> Grammar!Extended(r.vars, r.side, s[c + 1 + 1]), side |-> r.side, escaped |-> FALSE]
    BY <1>4, <1>5, <1>7, <2>5, EnvironEscape
  <2>7. c + 1 >= c
    BY <1>2
  <2> QED
    BY <2>1, <2>2, <2>3, <2>4, <2>6, <2>7
<1> QED
  BY <1>6, <1>7

\* A byte copied, or unescaped, is a byte the grammar appends.
LEMMA EnvironCopyReads ==
    ASSUME ParserInv, NEW s, ReadsEnviron(s), EnvironCopy
    PROVE  pc' \in {"name", "value"} /\ ReadsEnviron(s)'
<1>1. /\ pc \in {"name", "value"} /\ pc' = pc /\ last' = last /\ values' = values /\ index' = index
      /\ next_type' = next_type
  BY DEF EnvironCopy
<1>2. /\ s \in Seq(Byte) /\ buffer \in Seq(Byte) /\ size = Len(s) /\ Len(buffer) = Len(s)
      /\ Len(s) \in Nat /\ Len(s) > 1
      /\ c \in 1 .. Len(s) /\ c \in Nat /\ out \in Nat /\ out + 1 < c /\ index \in Nat /\ last \in Nat
  BY <1>1, ReadsEnvironFacts
<1> DEFINE r == Environ(s, c - 1)
<1>3. r \in EnvironState /\ r.vars \in Seq(Described) /\ r.side \in {"var", "value"}
  BY <1>1, ReadsEnvironFacts DEF EnvironState
<1>4. /\ Len(r.vars) = index + 1 /\ \A k \in 1 .. index : Means(buffer, values[k], r.vars[k], out)
      /\ values[index + 1].type = r.vars[index + 1].type
      /\ pc = "name" => /\ r.side = "var" /\ r.vars[index + 1].value = <<>>
                        /\ Writing(buffer, last, r.vars[index + 1].var, out)
      /\ pc = "value" => /\ r.side = "value"
                         /\ Held(buffer, values[index + 1].var, r.vars[index + 1].var, out)
                         /\ Writing(buffer, last, r.vars[index + 1].value, out)
  BY <1>1 DEF ReadsEnviron
<1>5. PICK from \in Nat, b \in Byte :
          /\ from >= c /\ from < Len(s)
          /\ buffer' = Write(out, b) /\ out' = out + 1 /\ c' = from + 1
          /\ Environ(s, from) = [vars |-> Grammar!Extended(r.vars, r.side, b), side |-> r.side, escaped |-> FALSE]
  BY EnvironCopies
<1>6. /\ Same(buffer, buffer', out) /\ buffer'[out + 1] = b
      /\ Len(buffer') = Len(buffer)
      /\ \A i \in 1 .. Len(buffer) : i > out + 1 => buffer'[i] = buffer[i]
  <2>1. out < size
    BY <1>2
  <2> QED
    BY <1>2, <1>5, <2>1, WriteKeeps
<1> DEFINE q == Environ(s, from)
           v == Grammar!Extended(r.vars, r.side, b)
<1>7. q.vars = v /\ q.side = r.side /\ ~q.escaped
  BY <1>5
<1>8. /\ Len(v) = index + 1 /\ \A k \in 1 .. index : v[k] = r.vars[k]
      /\ v[index + 1].type = r.vars[index + 1].type
      /\ v[index + 1].var = IF r.side = "var" THEN Append(r.vars[index + 1].var, b) ELSE r.vars[index + 1].var
      /\ v[index + 1].value = IF r.side = "value" THEN Append(r.vars[index + 1].value, b) ELSE r.vars[index + 1].value
  <2> DEFINE w == r.vars
             z == r.side
             n == index + 1
  <2>1. /\ w \in Seq(Described) /\ z \in {"var", "value"} /\ Len(w) = n /\ n \in Nat /\ n > 0
        /\ n - 1 = index
    BY <1>2, <1>3, <1>4
  <2> HIDE DEF w, z, n
  <2>2. /\ Len(Grammar!Extended(w, z, b)) = n
        /\ \A k \in 1 .. n - 1 : Grammar!Extended(w, z, b)[k] = w[k]
        /\ Grammar!Extended(w, z, b)[n].type = w[n].type
        /\ Grammar!Extended(w, z, b)[n].var = IF z = "var" THEN Append(w[n].var, b) ELSE w[n].var
        /\ Grammar!Extended(w, z, b)[n].value = IF z = "value" THEN Append(w[n].value, b) ELSE w[n].value
    BY <1>5, <2>1, ExtendedFacts
  <2> QED
    BY <2>1, <2>2 DEF w, z, n
<1> HIDE DEF r, v, q
<1>9. \A k \in 1 .. index : Means(buffer', values'[k], q.vars[k], out')
  <2> TAKE k \in 1 .. index
  <2>1. Means(buffer, values[k], r.vars[k], out)
    BY <1>4
  <2>2. out + 1 \in Nat /\ out <= out + 1
    BY <1>2
  <2>3. Means(buffer', values[k], r.vars[k], out + 1)
    BY <1>2, <1>6, <2>1, <2>2, MeansKept
  <2> QED
    BY <1>1, <1>5, <1>7, <1>8, <2>3
<1>10. Unread(s)' /\ c' - 1 = from
  <2>1. size' = Len(s) /\ c' = from + 1 /\ from + 1 > out + 1
    BY <1>2, <1>5, <1>6 DEF size
  <2>2. ASSUME NEW i \in 1 .. Len(s), i > from + 1
        PROVE  buffer'[i] = s[i]
    <3>1. i > c /\ i > out + 1 /\ i \in 1 .. Len(buffer)
      BY <1>2, <1>5, <2>2
    <3>2. buffer[i] = s[i]
      BY <3>1 DEF ReadsEnviron, Unread
    <3> QED
      BY <1>6, <3>1, <3>2
  <2> QED
    BY <1>2, <1>5, <2>1, <2>2 DEF Unread
<1>11. s[1] \in {IS, SEND, INFO} /\ s[2] \in {VAR, USERVAR} /\ s[Len(s)] # ESC /\ next_type = s[1]
  BY DEF ReadsEnviron
<1>12. values'[index + 1].type = q.vars[index + 1].type /\ Len(q.vars) = index + 1
  BY <1>1, <1>4, <1>7, <1>8
<1>13. CASE pc = "name"
  <2>1. q.vars[index + 1].var = Append(r.vars[index + 1].var, b) /\ q.vars[index + 1].value = <<>>
    BY <1>4, <1>7, <1>8, <1>13
  <2>2. Writing(buffer', last, Append(r.vars[index + 1].var, b), out + 1)
    BY <1>2, <1>4, <1>5, <1>6, <1>13, WritingAppend
  <2> QED
    BY <1>1, <1>2, <1>4, <1>5, <1>7, <1>9, <1>13, <1>10, <1>11, <1>12, <2>1, <2>2 DEF ReadsEnviron, q
<1>14. CASE pc = "value"
  <2>1. q.vars[index + 1].value = Append(r.vars[index + 1].value, b) /\ q.vars[index + 1].var = r.vars[index + 1].var
    BY <1>4, <1>7, <1>8, <1>14
  <2>2. Writing(buffer', last, Append(r.vars[index + 1].value, b), out + 1)
    BY <1>2, <1>4, <1>5, <1>6, <1>14, WritingAppend
  <2>3. Held(buffer', values[index + 1].var, r.vars[index + 1].var, out + 1)
    <3>1. out + 1 \in Nat /\ out <= out + 1
      BY <1>2
    <3> QED
      BY <1>2, <1>4, <1>6, <1>14, <3>1, HeldKept
  <2> QED
    BY <1>1, <1>2, <1>4, <1>5, <1>7, <1>9, <1>14, <1>10, <1>11, <1>12, <2>1, <2>2, <2>3 DEF ReadsEnviron, q
<1> QED
  BY <1>1, <1>13, <1>14

LEMMA StringsKept ==
    ASSUME NEW v \in Seq(Entry), NEW i \in Nat, i < Len(v),
           NEW p \in Nat \cup {Null}, NEW s \in Nat \cup {Null, EmptyLiteral}
    PROVE  /\ WithStrings(v, i, p, s)[i + 1].type = v[i + 1].type
           /\ WithStrings(v, i, p, s)[i + 1].var = p
           /\ WithStrings(v, i, p, s)[i + 1].value = s
           /\ \A k \in 1 .. i : WithStrings(v, i, p, s)[k] = v[k]
           /\ Len(WithStrings(v, i, p, s)) = Len(v)
           /\ \A k \in 1 .. Len(v) : k # i + 1 => WithStrings(v, i, p, s)[k] = v[k]
<1>1. PICK e \in Entry : /\ e.var = p /\ e.value = s /\ e.type = v[i + 1].type
                         /\ WithStrings(v, i, p, s) = [v EXCEPT ![i + 1] = e]
  BY SMTT(60), StringsSet
<1>2. /\ [v EXCEPT ![i + 1] = e][i + 1] = e /\ Len([v EXCEPT ![i + 1] = e]) = Len(v)
      /\ \A k \in 1 .. Len(v) : k # i + 1 => [v EXCEPT ![i + 1] = e][k] = v[k]
  BY EntrySet
<1>3. \A k \in 1 .. i : k \in 1 .. Len(v) /\ k # i + 1
  OBVIOUS
<1> QED
  BY <1>1, <1>2, <1>3

LEMMA ValueKept ==
    ASSUME NEW v \in Seq(Entry), NEW i \in Nat, i < Len(v),
           NEW s \in Nat \cup {Null, EmptyLiteral}
    PROVE  /\ WithValue(v, i, s)[i + 1].type = v[i + 1].type
           /\ WithValue(v, i, s)[i + 1].var = v[i + 1].var
           /\ WithValue(v, i, s)[i + 1].value = s
           /\ \A k \in 1 .. i : WithValue(v, i, s)[k] = v[k]
<1>1. PICK e \in Entry : /\ e.var = v[i + 1].var /\ e.value = s /\ e.type = v[i + 1].type
                         /\ WithValue(v, i, s) = [v EXCEPT ![i + 1] = e]
  BY ValueSet
<1>2. /\ [v EXCEPT ![i + 1] = e][i + 1] = e
      /\ \A k \in 1 .. Len(v) : k # i + 1 => [v EXCEPT ![i + 1] = e][k] = v[k]
  BY EntrySet
<1>3. \A k \in 1 .. i : k \in 1 .. Len(v) /\ k # i + 1
  OBVIOUS
<1> QED
  BY <1>1, <1>2, <1>3

\* The NUL behind a name or a value: what is written stays, what is to be read too.
LEMMA EnvironTerminates ==
    ASSUME ParserInv, NEW s, ReadsEnviron(s), pc \in {"name", "value"}, buffer' = Write(out, "NUL")
    PROVE  /\ Same(buffer, buffer', out) /\ buffer'[out + 1] = "NUL" /\ Len(buffer') = Len(s)
           /\ \A i \in 1 .. Len(s) : i > c => buffer'[i] = s[i]
           /\ At(buffer', c) = At(buffer, c)
           /\ \A k \in 1 .. index : Means(buffer', values[k], Environ(s, c - 1).vars[k], out + 1)
<1>1. /\ buffer \in Seq(Byte) /\ size = Len(s) /\ Len(buffer) = Len(s) /\ Len(s) \in Nat
      /\ c \in Nat /\ out \in Nat /\ out + 1 < c /\ c <= Len(s)
  BY ReadsEnvironFacts
<1>2. "NUL" \in Byte /\ out < size
  BY <1>1, Coded
<1> DEFINE w == Write(out, "NUL")
<1>3. /\ Same(buffer, w, out) /\ w[out + 1] = "NUL" /\ Len(w) = Len(buffer)
      /\ \A i \in 1 .. Len(buffer) : i > out + 1 => w[i] = buffer[i]
  BY <1>1, <1>2, WriteKeeps
<1>4. At(w, c) = At(buffer, c)
  <2>1. c # out /\ c \in Nat
    BY <1>1
  <2> QED
    BY <1>1, <1>2, <2>1, WriteFacts
<1>5. buffer' = w
  OBVIOUS
<1> HIDE DEF w
<1>6. \A i \in 1 .. Len(s) : i > c => w[i] = s[i]
  <2> SUFFICES ASSUME NEW i \in 1 .. Len(s), i > c PROVE w[i] = s[i]
    OBVIOUS
  <2>1. buffer[i] = s[i]
    BY DEF ReadsEnviron, Unread
  <2>2. i > out + 1 /\ i \in 1 .. Len(buffer)
    BY <1>1
  <2> QED
    BY <1>3, <2>1, <2>2
<1>7. \A k \in 1 .. index : Means(w, values[k], Environ(s, c - 1).vars[k], out + 1)
  <2> TAKE k \in 1 .. index
  <2>1. Means(buffer, values[k], Environ(s, c - 1).vars[k], out)
    BY DEF ReadsEnviron
  <2>2. out + 1 \in Nat /\ out <= out + 1
    BY <1>1
  <2> QED
    BY <1>1, <1>3, <2>1, <2>2, MeansKept
<1> QED
  BY <1>1, <1>3, <1>4, <1>5, <1>6, <1>7

\* The NUL that ends a name lands below the byte that is read next.
LEMMA EnvironNameReads ==
    ASSUME ParserInv, NEW s, ReadsEnviron(s), EnvironName
    PROVE  pc' \in {"entry", "value"} /\ ReadsEnviron(s)'
<1>1. /\ pc = "name" /\ buffer' = Write(out, "NUL") /\ out' = out + 1 /\ next_type' = next_type
      /\ values' = WithStrings(values, index, last, EmptyLiteral)
  BY DEF EnvironName, WithStrings
<1>2. /\ s \in Seq(Byte) /\ buffer \in Seq(Byte) /\ size = Len(s) /\ Len(buffer) = Len(s)
      /\ Len(s) \in Nat /\ Len(s) > 1 /\ c \in 1 .. Len(s) /\ c \in Nat
      /\ out \in Nat /\ out + 1 < c /\ index \in Nat /\ last \in Nat
      /\ values \in Seq(Entry) /\ index < Len(values)
  BY <1>1, ReadsEnvironFacts
<1> DEFINE r == Environ(s, c - 1)
<1>3. r \in EnvironState /\ r.vars \in Seq(Described) /\ ~r.escaped
  BY <1>1, ReadsEnvironFacts DEF EnvironState
<1>4. /\ Len(r.vars) = index + 1 /\ r.side = "var"
      /\ values[index + 1].type = r.vars[index + 1].type
      /\ r.vars[index + 1].value = <<>>
      /\ Writing(buffer, last, r.vars[index + 1].var, out)
      /\ s[1] \in {IS, SEND, INFO} /\ s[2] \in {VAR, USERVAR} /\ s[Len(s)] # ESC /\ next_type = s[1]
  BY <1>1 DEF ReadsEnviron
<1>5. /\ Same(buffer, buffer', out) /\ buffer'[out + 1] = "NUL" /\ Len(buffer') = Len(s)
      /\ \A i \in 1 .. Len(s) : i > c => buffer'[i] = s[i]
      /\ At(buffer', c) = At(buffer, c)
      /\ \A k \in 1 .. index : Means(buffer', values[k], r.vars[k], out + 1)
  BY <1>1, EnvironTerminates
<1> HIDE DEF r
<1>6. /\ values'[index + 1].type = values[index + 1].type
      /\ values'[index + 1].var = last /\ values'[index + 1].value = EmptyLiteral
      /\ \A k \in 1 .. index : values'[k] = values[k]
  <2> DEFINE empty == EmptyLiteral
  <2>1. last \in Nat \cup {Null} /\ empty \in Nat \cup {Null, EmptyLiteral}
    BY <1>2
  <2> DEFINE w == WithStrings(values, index, last, empty)
  <2>e. values' = w /\ empty = EmptyLiteral
    BY <1>1
  <2> HIDE DEF empty
  <2>2. /\ w[index + 1].type = values[index + 1].type
        /\ w[index + 1].var = last /\ w[index + 1].value = empty
        /\ \A k \in 1 .. index : w[k] = values[k]
    BY <1>2, <2>1, StringsKept
  <2> HIDE DEF w
  <2> QED
    BY <2>e, <2>2
<1>7. Held(buffer', last, r.vars[index + 1].var, out + 1)
  BY <1>2, <1>4, <1>5, WritingEnds
<1>8. \A k \in 1 .. index : Means(buffer', values'[k], r.vars[k], out + 1)
  BY <1>5, <1>6
<1>9. CASE At(buffer, c) = VALUE
  <2>1. pc' = "value" /\ c' = c + 1 /\ last' = out + 1 /\ index' = index
    BY <1>5, <1>9 DEF EnvironName
  <2>2. c < Len(s)
    <3>1. c = Len(s) => At(buffer, c) = "beyond"
      BY <1>1, ReadsEnvironFacts
    <3> QED
      BY <1>2, <1>9, <3>1 DEF VALUE
  <2>3. s[c + 1] = VALUE /\ Environ(s, c) = Grammar!EnvironByte(r, VALUE)
    BY <1>1, <1>9, <2>2, ReadsEnvironFacts DEF r
  <2>4. Environ(s, c) = [vars |-> r.vars, side |-> "value", escaped |-> FALSE]
    BY <1>3, <1>4, <2>3, EnvironSeparates
  <2>5. Environ(s, c).vars = r.vars /\ Environ(s, c).side = "value" /\ ~Environ(s, c).escaped
    BY <2>4
  <2>6. Writing(buffer', out + 1, <<>>, out + 1)
    BY <1>2, WritingBegins
  <2>7. c' - 1 = c
    BY <1>2, <2>1
  <2>8. \A i \in 1 .. Len(s) : i > c' => buffer'[i] = s[i]
    BY <1>2, <1>5, <2>1
  <2> QED
    BY SMTT(60), <1>1, <1>2, <1>4, <1>5, <1>6, <1>7, <1>8, <2>1, <2>5, <2>6, <2>7, <2>8 DEF ReadsEnviron, Unread, size
<1>10. CASE At(buffer, c) # VALUE
  <2>1. pc' = "entry" /\ c' = c /\ index' = index + 1
    BY <1>5, <1>10 DEF EnvironName
  <2>2. HeldOrEmpty(buffer', EmptyLiteral, <<>>, out + 1)
    BY DEF HeldOrEmpty
  <2>3. Means(buffer', values'[index + 1], r.vars[index + 1], out + 1)
    BY <1>4, <1>6, <1>7, <2>2 DEF Means
  <2>4. \A k \in 1 .. index + 1 : k \in 1 .. index \/ k = index + 1
    BY <1>2
  <2>5. \A k \in 1 .. index + 1 : Means(buffer', values'[k], r.vars[k], out + 1)
    BY <1>8, <2>3, <2>4
  <2> QED
    BY <1>1, <1>2, <1>3, <1>4, <1>5, <2>1, <2>5 DEF ReadsEnviron, Unread, size, r
<1> QED
  BY <1>9, <1>10, <1>1 DEF EnvironName

\* The NUL that ends a value lands below the byte that is read next.
LEMMA EnvironValueReads ==
    ASSUME ParserInv, NEW s, ReadsEnviron(s), EnvironValue
    PROVE  pc' = "entry" /\ ReadsEnviron(s)'
<1>1. /\ pc = "value" /\ buffer' = Write(out, "NUL") /\ out' = out + 1 /\ next_type' = next_type
      /\ values' = WithValue(values, index, last)
      /\ pc' = "entry" /\ c' = c /\ index' = index + 1
  BY DEF EnvironValue, WithValue
<1>2. /\ s \in Seq(Byte) /\ buffer \in Seq(Byte) /\ size = Len(s) /\ Len(buffer) = Len(s)
      /\ Len(s) \in Nat /\ Len(s) > 1 /\ c \in 1 .. Len(s) /\ c \in Nat
      /\ out \in Nat /\ out + 1 < c /\ index \in Nat /\ last \in Nat
      /\ values \in Seq(Entry) /\ index < Len(values)
  BY <1>1, ReadsEnvironFacts
<1> DEFINE r == Environ(s, c - 1)
<1>3. r \in EnvironState /\ r.vars \in Seq(Described) /\ ~r.escaped
  BY <1>1, ReadsEnvironFacts DEF EnvironState
<1>4. /\ Len(r.vars) = index + 1
      /\ values[index + 1].type = r.vars[index + 1].type
      /\ Held(buffer, values[index + 1].var, r.vars[index + 1].var, out)
      /\ Writing(buffer, last, r.vars[index + 1].value, out)
      /\ s[1] \in {IS, SEND, INFO} /\ s[2] \in {VAR, USERVAR} /\ s[Len(s)] # ESC /\ next_type = s[1]
  BY <1>1 DEF ReadsEnviron
<1>5. /\ Same(buffer, buffer', out) /\ buffer'[out + 1] = "NUL" /\ Len(buffer') = Len(s)
      /\ \A i \in 1 .. Len(s) : i > c => buffer'[i] = s[i]
      /\ \A k \in 1 .. index : Means(buffer', values[k], r.vars[k], out + 1)
  BY <1>1, EnvironTerminates
<1> HIDE DEF r
<1>6. /\ values'[index + 1].type = values[index + 1].type
      /\ values'[index + 1].var = values[index + 1].var /\ values'[index + 1].value = last
      /\ \A k \in 1 .. index : values'[k] = values[k]
  <2>1. last \in Nat \cup {Null, EmptyLiteral}
    BY <1>2
  <2> QED
    BY <1>1, <1>2, <2>1, ValueKept
<1>7. HeldOrEmpty(buffer', last, r.vars[index + 1].value, out + 1)
  <2>1. Held(buffer', last, r.vars[index + 1].value, out + 1)
    BY <1>2, <1>4, <1>5, WritingEnds
  <2> QED
    BY <2>1 DEF HeldOrEmpty
<1>8. Held(buffer', values[index + 1].var, r.vars[index + 1].var, out + 1)
  <2>1. out + 1 \in Nat /\ out <= out + 1
    BY <1>2
  <2> QED
    BY <1>2, <1>4, <1>5, <2>1, HeldKept
<1>9. Means(buffer', values'[index + 1], r.vars[index + 1], out + 1)
  BY <1>4, <1>6, <1>7, <1>8 DEF Means
<1>10. \A k \in 1 .. index + 1 : k \in 1 .. index \/ k = index + 1
  BY <1>2
<1>11. \A k \in 1 .. index + 1 : Means(buffer', values'[k], r.vars[k], out + 1)
  BY <1>5, <1>6, <1>9, <1>10
<1> QED
  BY <1>1, <1>2, <1>3, <1>4, <1>5, <1>11 DEF ReadsEnviron, Unread, size, r

-----------------------------------------------------------------------------
(* MSSP.                                                                   *)

\* What i bytes come to.
Mssp(s, i) == Grammar!MsspRead(s)[i]

LEMMA MsspFacts ==
    ASSUME NEW s \in Seq(Byte)
    PROVE  /\ Mssp(s, 0) = MsspFirst
           /\ \A i \in 0 .. Len(s) : Mssp(s, i) \in MsspState
           /\ \A i \in 1 .. Len(s) : Mssp(s, i) = Grammar!MsspByte(Mssp(s, i - 1), s[i])
BY MsspReadFacts DEF Mssp

LEMMA MsspNames ==
    ASSUME NEW a \in MsspState
    PROVE  Grammar!MsspByte(a, MSSP_VAR) = [vars |-> a.vars, name |-> <<>>, side |-> "name"]
BY DEF Grammar!MsspByte, MsspState, MSSP_VAR

LEMMA MsspValues ==
    ASSUME NEW a \in MsspState
    PROVE  Grammar!MsspByte(a, MSSP_VAL) =
              [vars |-> Append(a.vars, Grammar!Variable("NUL", a.name, <<>>)),
               name |-> a.name, side |-> "value"]
BY DEF Grammar!MsspByte, MsspState, MSSP_VAL

LEMMA MsspText ==
    ASSUME NEW a \in MsspState, NEW b, b \notin {MSSP_VAR, MSSP_VAL}
    PROVE  /\ a.side = "name" =>
                 Grammar!MsspByte(a, b) = [vars |-> a.vars, name |-> Append(a.name, b), side |-> "name"]
           /\ a.side = "value" =>
                 Grammar!MsspByte(a, b) =
                    [vars |-> Grammar!Extended(a.vars, "value", b), name |-> a.name, side |-> "value"]
BY DEF Grammar!MsspByte, MsspState, MSSP_VAR, MSSP_VAL

\* The loop has read c bytes of s right: the parts that ended are entries or
\* the name, the one being read is written from last on.
ReadsMssp(s) ==
    LET r == Mssp(s, c)
    IN  /\ Unread(s)
        /\ s # <<>> /\ s[1] = MSSP_VAR
        /\ c < Len(s) \/ s[c] # MSSP_VAL
        /\ \A k \in 1 .. index : Means(buffer, values[k], r.vars[k], out)
        /\ \A k \in 1 .. Len(values) : k > index => values[k] = NullEntry
        /\ IF next_type = MSSP_VAR
             THEN /\ r.side = "name" /\ Len(r.vars) = index
                  /\ Writing(buffer, last, r.name, out)
             ELSE /\ r.side = "value" /\ Len(r.vars) = index + 1
                  /\ Held(buffer, var, r.name, out)
                  /\ r.vars[index + 1].type = VAR /\ r.vars[index + 1].var = r.name
                  /\ Writing(buffer, last, r.vars[index + 1].value, out)

\* All of s is read, a MSSP_VAL at its end to no avail.
HasRead(s) ==
    LET v == Mssp(s, Len(s)).vars
    IN  /\ s \in Seq(Byte) /\ s # <<>> /\ s[1] = MSSP_VAR /\ size = Len(s)
        /\ Len(values) = Len(v)
        /\ IF s[Len(s)] = MSSP_VAL
             THEN /\ Len(v) > 0 /\ values[Len(v)] = NullEntry
                  /\ \A k \in 1 .. Len(v) - 1 : Means(buffer, values[k], v[k], out)
             ELSE \A k \in 1 .. Len(v) : Means(buffer, values[k], v[k], out)

LEMMA MeaningOfMssp ==
    ASSUME NEW s
    PROVE  Grammar!Meaning("MSSP", s) =
              IF s = <<>> THEN NoEvent
              ELSE IF Head(s) = "SOH" THEN [kind |-> "mssp", values |-> Grammar!MsspVariables(s)]
              ELSE Grammar!Malformed
BY DEF Grammar!Meaning, NoEvent

\* The payloads _mssp_telnet refuses are those the grammar refuses.
LEMMA MsspRefuses ==
    ASSUME buffer \in Seq(Byte), size = 0 \/ At(buffer, 0) # MSSP_VAR
    PROVE  Answered("MSSP", buffer, IF size = 0 THEN NoEvent ELSE Warning("protocol"))
<1> DEFINE meant == Grammar!Meaning("MSSP", buffer)
<1>1. /\ Len(buffer) \in Nat /\ size = Len(buffer) /\ (Len(buffer) = 0 <=> buffer = <<>>)
      /\ Grammar!Malformed = Warning("protocol")
  BY EmptySeq DEF size, Grammar!Malformed, Warning
<1>2. CASE size = 0
  <2>1. meant = NoEvent /\ ~Odd("MSSP", buffer)
    BY <1>1, <1>2, MeaningOfMssp DEF Odd, Grammar!EndsInEsc
  <2> QED
    BY <1>2, <2>1 DEF Answered
<1>3. CASE size # 0
  <2>1. At(buffer, 0) = buffer[1] /\ Head(buffer) = buffer[1]
    <3>1. 0 \in Nat /\ 0 < Len(buffer)
      BY <1>1, <1>3
    <3> QED
      BY <3>1, AtFacts
  <2>2. meant = Warning("protocol")
    BY <1>1, <1>3, <2>1, MeaningOfMssp DEF MSSP_VAR
  <2>3. OddReading("MSSP", buffer, meant) = meant
    BY <2>2 DEF OddReading, Warning
  <2> QED
    BY <1>3, <2>2, <2>3 DEF Answered
<1> QED
  BY <1>2, <1>3

LEMMA MsspStartReads ==
    ASSUME ParserInv, telopt = "MSSP", NEW s, s = buffer, MsspStart
    PROVE  \/ pc' = "idle" /\ Answered(telopt, s, event')
           \/ pc' = "part" /\ ReadsMssp(s)'
           \/ pc' = "parts" /\ HasRead(s)'
<1>1. s \in Seq(Byte) /\ size = Len(s) /\ Len(s) \in Nat
  BY DEF ParserInv, Bounded, size
<1>2. CASE /\ size = 0 \/ At(buffer, 0) # MSSP_VAR
           /\ pc' = "idle" /\ event' = IF size = 0 THEN NoEvent ELSE Warning("protocol")
  BY <1>1, <1>2, MsspRefuses
<1>3. CASE MemoryFails /\ pc' = "idle" /\ event' = Warning("memory")
  BY <1>3 DEF Answered
<1>4. CASE /\ At(buffer, 0) = MSSP_VAR
           /\ Allocate(Cardinality({i \in DOMAIN buffer : buffer[i] = MSSP_VAL}), NullEntry)
           /\ out' = 0 /\ last' = 0 /\ c' = 1 /\ next_type' = At(buffer, 0)
           /\ pc' = IF size > 1 THEN "part" ELSE "parts"
           /\ buffer' = buffer
  <2>1. 0 < Len(s) /\ s[1] = MSSP_VAR /\ MSSP_VAR # MSSP_VAL
    <3>1. MSSP_VAR # "beyond" /\ MSSP_VAR # MSSP_VAL
      BY DEF MSSP_VAR, MSSP_VAL
    <3>2. 0 \in Nat
      OBVIOUS
    <3> QED
      BY <1>1, <1>4, <3>1, <3>2, AtFacts
  <2>2. Mssp(s, 1) = [vars |-> <<>>, name |-> <<>>, side |-> "name"]
    <3>1. 1 \in 1 .. Len(s) /\ 1 - 1 = 0 /\ 0 \in 0 .. Len(s)
      BY <1>1, <2>1
    <3>2. Mssp(s, 1) = Grammar!MsspByte(MsspFirst, MSSP_VAR) /\ MsspFirst \in MsspState
      BY <1>1, <2>1, <3>1, MsspFacts
    <3>3. MsspFirst.vars = <<>>
      BY DEF MsspFirst
    <3> QED
      BY <3>2, <3>3, MsspNames
  <2>3. Mssp(s, 1).vars = <<>> /\ Mssp(s, 1).name = <<>> /\ Mssp(s, 1).side = "name"
    BY <2>2
  <2> DEFINE m == Cardinality({i \in DOMAIN buffer : buffer[i] = MSSP_VAL})
  <2>4. m \in Nat /\ (Len(s) = 1 => m = 0)
    <3>1. {i \in DOMAIN buffer : buffer[i] = MSSP_VAL} = From(buffer, 1, MSSP_VAL)
      <4>1. \A i \in DOMAIN buffer : buffer[i] = MSSP_VAL => i > 1
        BY <1>1, <2>1
      <4> QED
        BY <4>1 DEF From
    <3>2. 1 \in Nat /\ (Len(s) = 1 => 1 >= Len(buffer))
      BY <1>1
    <3>3. /\ Cardinality(From(buffer, 1, MSSP_VAL)) \in Nat
          /\ Len(s) = 1 => Cardinality(From(buffer, 1, MSSP_VAL)) = 0
      BY <1>1, <3>2, FromFacts
    <3> QED
      BY <3>1, <3>3
  <2>5. /\ values' \in Seq(Entry) /\ Len(values') = m
        /\ \A k \in DOMAIN values' : values'[k] = NullEntry
        /\ index' = 0
    BY <1>4, <2>4, Allocated DEF Allocate
  <2>6. CASE Len(s) > 1
    <3>1. Writing(buffer, 0, <<>>, 0)
      BY WritingBegins
    <3>2. pc' = "part" /\ Unread(s)'
      BY <1>1, <1>4, <2>6 DEF Unread, size
    <3>3. \A k \in 1 .. Len(values') : values'[k] = NullEntry
      BY <2>5
    <3>4. s # <<>> /\ Len(<<>>) = 0
      BY <1>1, <2>1
    <3> QED
      BY <1>4, <2>1, <2>3, <2>5, <2>6, <3>1, <3>2, <3>3, <3>4 DEF ReadsMssp
  <2>7. CASE ~(Len(s) > 1)
    <3>1. Len(s) = 1 /\ m = 0 /\ s # <<>> /\ Len(<<>>) = 0
      BY <1>1, <2>1, <2>4, <2>7
    <3>2. pc' = "parts" /\ size' = Len(s)
      BY <1>1, <1>4, <2>7 DEF size
    <3>3. \A k \in 1 .. 0 : Means(buffer', values'[k], Mssp(s, 1).vars[k], out')
      OBVIOUS
    <3> QED
      BY <1>1, <2>1, <2>3, <2>5, <3>1, <3>2, <3>3 DEF HasRead
  <2> QED
    BY <2>6, <2>7
<1> QED
  BY <1>2, <1>3, <1>4 DEF MsspStart, Give

LEMMA ReadsMsspFacts ==
    ASSUME ParserInv, NEW s, ReadsMssp(s), pc = "part"
    PROVE  /\ s \in Seq(Byte) /\ buffer \in Seq(Byte) /\ size = Len(s) /\ Len(buffer) = Len(s)
           /\ Len(s) \in Nat /\ c \in 1 .. Len(s) /\ c \in Nat /\ out \in Nat /\ out < c /\ last \in Nat
           /\ index \in Nat /\ values \in Seq(Entry) /\ Len(values) \in Nat
           /\ next_type \in {MSSP_VAR, MSSP_VAL} /\ MSSP_VAR # MSSP_VAL
           /\ Mssp(s, c) \in MsspState
           /\ c < Len(s) => At(buffer, c) = s[c + 1] /\ s[c + 1] \in Byte
                            /\ Mssp(s, c + 1) = Grammar!MsspByte(Mssp(s, c), s[c + 1])
           /\ c = Len(s) => At(buffer, c) = "beyond"
<1>1. /\ MsspLoop /\ buffer \in Seq(Byte) /\ size = Len(buffer) /\ Len(buffer) \in Nat
      /\ c \in Nat /\ out \in Nat /\ last \in Nat /\ index \in Nat
      /\ values \in Seq(Entry) /\ Len(values) \in Nat
  BY DEF ParserInv, Bounded, size
<1>2. s \in Seq(Byte) /\ size = Len(s)
  BY DEF ReadsMssp, Unread
<1>3. c \in 1 .. Len(s) /\ out < c /\ c \in 0 .. Len(s) /\ next_type \in {MSSP_VAR, MSSP_VAL}
  BY <1>1, <1>2 DEF MsspLoop
<1>4. Mssp(s, c) \in MsspState
  BY <1>2, <1>3, MsspFacts
<1>5. ASSUME c < Len(s)
      PROVE  /\ At(buffer, c) = s[c + 1] /\ s[c + 1] \in Byte
             /\ Mssp(s, c + 1) = Grammar!MsspByte(Mssp(s, c), s[c + 1])
  <2>1. c + 1 \in 1 .. Len(s) /\ c + 1 > c /\ (c + 1) - 1 = c /\ c < Len(buffer)
    BY <1>1, <1>2, <1>3, <1>5
  <2>2. At(buffer, c) = buffer[c + 1] /\ buffer[c + 1] = s[c + 1]
    BY <1>1, <2>1, AtFacts DEF ReadsMssp, Unread
  <2>3. s[c + 1] \in Byte
    BY <1>2, <2>1, ElementOfSeq
  <2>4. Mssp(s, c + 1) = Grammar!MsspByte(Mssp(s, (c + 1) - 1), s[c + 1])
    BY <1>2, <2>1, MsspFacts
  <2> QED
    BY <2>1, <2>2, <2>3, <2>4
<1>6. ASSUME c = Len(s)
      PROVE  At(buffer, c) = "beyond"
  <2>1. c >= Len(buffer)
    BY <1>1, <1>2, <1>6
  <2> QED
    BY <1>1, <2>1, AtFacts
<1>7. MSSP_VAR # MSSP_VAL
  BY DEF MSSP_VAR, MSSP_VAL
<1> QED
  BY <1>1, <1>2, <1>3, <1>4, <1>5, <1>6, <1>7

LEMMA ValueExtended ==
    ASSUME NEW v \in Seq(Described), NEW n \in Nat, n > 0, Len(v) = n, NEW b \in Byte
    PROVE  LET x == Grammar!Extended(v, "value", b)
           IN  /\ Len(x) = n /\ \A k \in 1 .. n - 1 : x[k] = v[k]
               /\ x[n].type = v[n].type /\ x[n].var = v[n].var
               /\ x[n].value = Append(v[n].value, b)
<1> DEFINE side == "value"
<1>1. side \in {"var", "value"} /\ side # "var" /\ side = "value"
  OBVIOUS
<1> HIDE DEF side
<1>2. /\ Len(Grammar!Extended(v, side, b)) = Len(v)
      /\ \A k \in 1 .. Len(v) - 1 : Grammar!Extended(v, side, b)[k] = v[k]
      /\ Len(v) > 0 =>
            /\ Grammar!Extended(v, side, b)[Len(v)].type = v[Len(v)].type
            /\ Grammar!Extended(v, side, b)[Len(v)].var =
                  IF side = "var" THEN Append(v[Len(v)].var, b) ELSE v[Len(v)].var
            /\ Grammar!Extended(v, side, b)[Len(v)].value =
                  IF side = "value" THEN Append(v[Len(v)].value, b) ELSE v[Len(v)].value
  BY <1>1, ExtendedFacts
<1> QED
  BY <1>1, <1>2

\* A byte copied is a byte the grammar appends to the name or the value.
LEMMA MsspCopyReads ==
    ASSUME ParserInv, NEW s, ReadsMssp(s), MsspCopy
    PROVE  pc' = "part" /\ ReadsMssp(s)'
<1>1. /\ pc = "part" /\ pc' = pc /\ last' = last /\ values' = values /\ index' = index
      /\ var' = var /\ next_type' = next_type
      /\ buffer' = Write(out, At(buffer, c)) /\ out' = out + 1 /\ c' = c + 1
      /\ At(buffer, c) \notin {"beyond", MSSP_VAR, MSSP_VAL}
  BY DEF MsspCopy
<1>2. /\ s \in Seq(Byte) /\ buffer \in Seq(Byte) /\ size = Len(s) /\ Len(buffer) = Len(s)
      /\ Len(s) \in Nat /\ c \in 1 .. Len(s) /\ c \in Nat /\ out \in Nat /\ out < c /\ last \in Nat
      /\ index \in Nat /\ next_type \in {MSSP_VAR, MSSP_VAL} /\ MSSP_VAR # MSSP_VAL
  BY <1>1, ReadsMsspFacts
<1>3. c < Len(s)
  <2>1. c = Len(s) => At(buffer, c) = "beyond"
    BY <1>1, ReadsMsspFacts
  <2> QED
    BY <1>1, <1>2, <2>1
<1> DEFINE r == Mssp(s, c)
           q == Mssp(s, c + 1)
           b == s[c + 1]
<1>4. /\ r \in MsspState /\ r.vars \in Seq(Described) /\ r.name \in Seq(Byte)
      /\ At(buffer, c) = b /\ b \in Byte /\ q = Grammar!MsspByte(r, b)
      /\ b \notin {MSSP_VAR, MSSP_VAL}
  BY <1>1, <1>3, ReadsMsspFacts DEF MsspState
<1>5. /\ \A k \in 1 .. index : Means(buffer, values[k], r.vars[k], out)
      /\ \A k \in 1 .. Len(values) : k > index => values[k] = NullEntry
      /\ next_type = MSSP_VAR => /\ r.side = "name" /\ Len(r.vars) = index
                                 /\ Writing(buffer, last, r.name, out)
      /\ next_type # MSSP_VAR =>
            /\ r.side = "value" /\ Len(r.vars) = index + 1
            /\ Held(buffer, var, r.name, out)
            /\ r.vars[index + 1].type = VAR /\ r.vars[index + 1].var = r.name
            /\ Writing(buffer, last, r.vars[index + 1].value, out)
      /\ s # <<>> /\ s[1] = MSSP_VAR
      /\ \A i \in 1 .. Len(s) : i > c => buffer[i] = s[i]
  BY <1>1 DEF ReadsMssp, Unread
<1> HIDE DEF r, q, b
<1>6. /\ Same(buffer, buffer', out) /\ buffer'[out + 1] = b
      /\ Len(buffer') = Len(buffer)
      /\ \A i \in 1 .. Len(buffer) : i > out + 1 => buffer'[i] = buffer[i]
  <2>1. out < size
    BY <1>2
  <2> QED
    BY <1>1, <1>2, <1>4, <2>1, WriteKeeps
<1>7. Unread(s)'
  BY <1>1, <1>2, <1>5, <1>6 DEF Unread, size
<1>8. out + 1 \in Nat /\ out <= out + 1
  BY <1>2
<1>9. \A k \in 1 .. index : Means(buffer', values[k], r.vars[k], out + 1)
  BY <1>2, <1>5, <1>6, <1>8, MeansKept
<1>10. c + 1 < Len(s) \/ s[c + 1] # MSSP_VAL
  BY <1>4 DEF b
<1>11. CASE next_type = MSSP_VAR
  <2>1. q = [vars |-> r.vars, name |-> Append(r.name, b), side |-> "name"]
    BY <1>4, <1>5, <1>11, MsspText
  <2>2. q.vars = r.vars /\ q.name = Append(r.name, b) /\ q.side = "name"
    BY <2>1
  <2>3. Writing(buffer', last, Append(r.name, b), out + 1)
    BY <1>2, <1>4, <1>5, <1>6, <1>11, WritingAppend
  <2> QED
    BY <1>1, <1>5, <1>7, <1>9, <1>10, <1>11, <2>2, <2>3 DEF ReadsMssp, q
<1>12. CASE next_type # MSSP_VAR
  <2> DEFINE w == r.vars
             n == index + 1
             x == Grammar!Extended(w, "value", b)
  <2>1. w \in Seq(Described) /\ Len(w) = n /\ n \in Nat /\ n > 0 /\ n - 1 = index /\ b \in Byte
    BY <1>2, <1>4, <1>5, <1>12
  <2>2. q = [vars |-> x, name |-> r.name, side |-> "value"]
    BY <1>4, <1>5, <1>12, MsspText
  <2> HIDE DEF w, n
  <2>3. /\ Len(x) = n /\ \A k \in 1 .. n - 1 : x[k] = w[k]
        /\ x[n].type = w[n].type /\ x[n].var = w[n].var
        /\ x[n].value = Append(w[n].value, b)
    BY <2>1, ValueExtended
  <2> HIDE DEF x
  <2>4. /\ Len(q.vars) = n /\ \A k \in 1 .. index : q.vars[k] = w[k]
        /\ q.vars[n].type = w[n].type /\ q.vars[n].var = w[n].var
        /\ q.vars[n].value = Append(w[n].value, b)
        /\ q.name = r.name /\ q.side = "value"
    BY <2>1, <2>2, <2>3
  <2>5. Writing(buffer', last, Append(w[n].value, b), out + 1)
    BY <1>2, <1>4, <1>5, <1>6, <1>12, WritingAppend DEF w, n
  <2>6. Held(buffer', var, r.name, out + 1)
    BY <1>2, <1>5, <1>6, <1>8, <1>12, HeldKept
  <2>7. \A k \in 1 .. index : Means(buffer', values[k], q.vars[k], out + 1)
    BY <1>9, <2>4 DEF w
  <2>8. q.vars[n].type = VAR /\ q.vars[n].var = q.name
    BY <1>5, <1>12, <2>4 DEF w, n
  <2> QED
    BY <1>1, <1>5, <1>7, <1>10, <1>12, <2>4, <2>5, <2>6, <2>7, <2>8 DEF ReadsMssp, q, n
<1> QED
  BY <1>1, <1>11, <1>12

\* The part that ends is an entry, or the name of those that follow.
LEMMA MsspPartCloses ==
    ASSUME ParserInv, NEW s, ReadsMssp(s), MsspPart
    PROVE  /\ Len(Mssp(s, c).vars) = index' /\ index' \in Nat
           /\ \A k \in 1 .. index' : Means(buffer', values'[k], Mssp(s, c).vars[k], out + 1)
           /\ \A k \in 1 .. Len(values') : k > index' => values'[k] = NullEntry
           /\ Held(buffer', var', Mssp(s, c).name, out + 1)
           /\ Len(buffer') = Len(s) /\ \A i \in 1 .. Len(s) : i > c => buffer'[i] = s[i]
           /\ Len(values') = index' + Cardinality(From(buffer, c, MSSP_VAL))
           /\ last' = out + 1 /\ out' = out + 1 /\ next_type' = At(buffer, c) /\ c' = c + 1
           /\ pc' = IF c + 1 < size THEN "part" ELSE "parts"
<1>1. pc = "part" /\ buffer' = Write(out, "NUL") /\ out' = out + 1
  BY DEF MsspPart
<1>2. /\ s \in Seq(Byte) /\ buffer \in Seq(Byte) /\ size = Len(s) /\ Len(buffer) = Len(s)
      /\ Len(s) \in Nat /\ c \in 1 .. Len(s) /\ c \in Nat /\ out \in Nat /\ out < c /\ last \in Nat
      /\ index \in Nat /\ values \in Seq(Entry) /\ Len(values) \in Nat
      /\ next_type \in {MSSP_VAR, MSSP_VAL} /\ MSSP_VAR # MSSP_VAL
  BY <1>1, ReadsMsspFacts
<1> DEFINE r == Mssp(s, c)
           m == Cardinality(From(buffer, c, MSSP_VAL))
<1>3. r \in MsspState /\ r.vars \in Seq(Described)
  BY <1>1, ReadsMsspFacts DEF MsspState
<1>4. /\ \A k \in 1 .. index : Means(buffer, values[k], r.vars[k], out)
      /\ \A k \in 1 .. Len(values) : k > index => values[k] = NullEntry
      /\ next_type = MSSP_VAR => /\ r.side = "name" /\ Len(r.vars) = index
                                 /\ Writing(buffer, last, r.name, out)
      /\ next_type # MSSP_VAR =>
            /\ r.side = "value" /\ Len(r.vars) = index + 1
            /\ Held(buffer, var, r.name, out)
            /\ r.vars[index + 1].type = VAR /\ r.vars[index + 1].var = r.name
            /\ Writing(buffer, last, r.vars[index + 1].value, out)
      /\ \A i \in 1 .. Len(s) : i > c => buffer[i] = s[i]
  BY <1>1 DEF ReadsMssp, Unread
<1>5. m \in Nat /\ Len(values) = index + m + (IF next_type = MSSP_VAL THEN 1 ELSE 0)
  BY <1>1, <1>2, FromFacts DEF ParserInv, MsspLoop
<1>6. next_type # MSSP_VAR => var # Null
  <2>1. next_type # MSSP_VAR => var \in Nat
    BY <1>4 DEF Held
  <2> QED
    BY <2>1, NullFacts
<1> HIDE DEF r, m
<1>7. /\ Same(buffer, buffer', out) /\ buffer'[out + 1] = "NUL" /\ Len(buffer') = Len(buffer)
      /\ \A i \in 1 .. Len(buffer) : i > out + 1 => buffer'[i] = buffer[i]
      /\ At(buffer', c) = At(buffer, c)
  <2>1. out < size /\ "NUL" \in Byte /\ c # out
    BY <1>2, Coded
  <2> DEFINE w == Write(out, "NUL")
  <2>2. /\ Same(buffer, w, out) /\ w[out + 1] = "NUL" /\ Len(w) = Len(buffer)
        /\ \A i \in 1 .. Len(buffer) : i > out + 1 => w[i] = buffer[i]
    BY <1>2, <2>1, WriteKeeps
  <2>3. At(w, c) = At(buffer, c)
    BY <1>2, <2>1, WriteFacts
  <2>4. buffer' = w
    BY <1>1
  <2> HIDE DEF w
  <2> QED
    BY <2>2, <2>3, <2>4
<1>8. /\ last' = out + 1 /\ next_type' = At(buffer, c) /\ c' = c + 1
      /\ pc' = IF c + 1 < size THEN "part" ELSE "parts"
  BY <1>2, <1>6, <1>7 DEF MsspPart
<1>9. out + 1 \in Nat /\ out <= out + 1
  BY <1>2
<1>10. \A i \in 1 .. Len(s) : i > c => buffer'[i] = s[i]
  BY <1>2, <1>4, <1>7
<1>11. \A k \in 1 .. index : Means(buffer', values[k], r.vars[k], out + 1)
  BY <1>2, <1>4, <1>7, <1>9, MeansKept
<1>12. CASE next_type = MSSP_VAR
  <2>1. var' = last /\ values' = values /\ index' = index
    BY <1>12 DEF MsspPart
  <2>2. Held(buffer', last, r.name, out + 1)
    BY <1>2, <1>4, <1>7, <1>12, WritingEnds
  <2> QED
    BY <1>1, <1>2, <1>4, <1>5, <1>7, <1>8, <1>10, <1>11, <1>12, <2>1, <2>2 DEF r, m
<1>13. CASE next_type # MSSP_VAR
  <2>1. /\ values' = WithStrings(values, index, var, last) /\ index' = index + 1 /\ var' = var
        /\ next_type = MSSP_VAL
    BY <1>2, <1>6, <1>13 DEF MsspPart, WithStrings
  <2>2. /\ index < Len(values) /\ last \in Nat \cup {Null, EmptyLiteral} /\ var \in Nat \cup {Null}
        /\ index + 1 \in 1 .. Len(values)
    BY <1>2, <1>5, <2>1 DEF ParserInv, Bounded
  <2>3. /\ values'[index + 1].type = values[index + 1].type
        /\ values'[index + 1].var = var /\ values'[index + 1].value = last
        /\ \A k \in 1 .. index : values'[k] = values[k]
        /\ Len(values') = Len(values)
        /\ \A k \in 1 .. Len(values) : k # index + 1 => values'[k] = values[k]
    <3> DEFINE w == WithStrings(values, index, var, last)
    <3>1. /\ w[index + 1].type = values[index + 1].type
          /\ w[index + 1].var = var /\ w[index + 1].value = last
          /\ \A k \in 1 .. index : w[k] = values[k]
          /\ Len(w) = Len(values)
          /\ \A k \in 1 .. Len(values) : k # index + 1 => w[k] = values[k]
      BY <1>2, <2>2, StringsKept
    <3> HIDE DEF w
    <3> QED
      BY <2>1, <3>1 DEF w
  <2>4. values[index + 1] = NullEntry /\ NullEntry.type = VAR
    BY <1>2, <1>4, <2>2 DEF NullEntry
  <2>5. Held(buffer', var, r.name, out + 1)
    BY <1>2, <1>4, <1>7, <1>9, <1>13, HeldKept
  <2>6. HeldOrEmpty(buffer', last, r.vars[index + 1].value, out + 1)
    <3>1. Held(buffer', last, r.vars[index + 1].value, out + 1)
      BY <1>2, <1>4, <1>7, <1>13, WritingEnds
    <3> QED
      BY <3>1 DEF HeldOrEmpty
  <2>7. Means(buffer', values'[index + 1], r.vars[index + 1], out + 1)
    BY <1>4, <1>13, <2>3, <2>4, <2>5, <2>6 DEF Means
  <2>8. \A k \in 1 .. index + 1 : k \in 1 .. index \/ k = index + 1
    BY <1>2
  <2>9. \A k \in 1 .. index + 1 : Means(buffer', values'[k], r.vars[k], out + 1)
    BY <1>11, <2>3, <2>7, <2>8
  <2>10. \A k \in 1 .. Len(values') : k > index + 1 => values'[k] = NullEntry
    BY <1>2, <1>4, <2>3
  <2>11. Len(r.vars) = index + 1 /\ Len(values') = index + 1 + m /\ index + 1 \in Nat
    BY <1>2, <1>4, <1>5, <1>13, <2>1, <2>3
  <2> QED
    BY <1>1, <1>2, <1>7, <1>8, <1>10, <2>1, <2>5, <2>9, <2>10, <2>11 DEF r, m
<1> QED
  BY <1>12, <1>13

\* A separator ends the part being written and begins the next one.
LEMMA MsspPartReads ==
    ASSUME ParserInv, NEW s, ReadsMssp(s), MsspPart
    PROVE  \/ pc' = "part" /\ ReadsMssp(s)'
           \/ pc' = "parts" /\ HasRead(s)'
<1>1. pc = "part" /\ At(buffer, c) \in {"beyond", MSSP_VAR, MSSP_VAL}
  BY DEF MsspPart
<1>2. /\ s \in Seq(Byte) /\ buffer \in Seq(Byte) /\ size = Len(s) /\ Len(buffer) = Len(s)
      /\ Len(s) \in Nat /\ c \in 1 .. Len(s) /\ c \in Nat /\ out \in Nat
      /\ MSSP_VAR # MSSP_VAL
      /\ c < Len(s) => At(buffer, c) = s[c + 1] /\ s[c + 1] \in Byte
                       /\ Mssp(s, c + 1) = Grammar!MsspByte(Mssp(s, c), s[c + 1])
      /\ c = Len(s) => At(buffer, c) = "beyond"
  BY <1>1, ReadsMsspFacts
<1>3. s # <<>> /\ s[1] = MSSP_VAR /\ (c < Len(s) \/ s[c] # MSSP_VAL)
  BY DEF ReadsMssp
<1> DEFINE r == Mssp(s, c)
           n == index'
           v == values'
           w == buffer'
           p == var'
           m == Cardinality(From(buffer, c, MSSP_VAL))
<1>4. /\ r \in MsspState /\ r.vars \in Seq(Described) /\ r.name \in Seq(Byte)
  BY <1>1, ReadsMsspFacts DEF MsspState
<1>5. /\ Len(r.vars) = n /\ n \in Nat
      /\ \A k \in 1 .. n : Means(w, v[k], r.vars[k], out + 1)
      /\ \A k \in 1 .. Len(v) : k > n => v[k] = NullEntry
      /\ Held(w, p, r.name, out + 1)
      /\ Len(w) = Len(s) /\ \A i \in 1 .. Len(s) : i > c => w[i] = s[i]
      /\ Len(v) = n + m
      /\ last' = out + 1 /\ out' = out + 1 /\ next_type' = At(buffer, c) /\ c' = c + 1
      /\ pc' = IF c + 1 < size THEN "part" ELSE "parts"
  BY MsspPartCloses
<1>6. size' = Len(s)
  BY <1>5 DEF size
<1>7. c < Len(s) => s[c + 1] \in {MSSP_VAR, MSSP_VAL}
  <2>1. s[c + 1] = "beyond" => s[c + 1] \notin Byte
    BY Coded
  <2> QED
    BY <1>1, <1>2, <2>1
<1>8. /\ m \in Nat /\ (c = Len(s) => m = 0)
      /\ c + 1 = Len(s) => m = IF s[c + 1] = MSSP_VAL THEN 1 ELSE 0
  <2>1. c + 1 \in Nat /\ (c = Len(s) => c >= Len(buffer))
        /\ (c + 1 = Len(s) => c < Len(buffer) /\ c + 1 >= Len(buffer))
    BY <1>2
  <2>2. c + 1 = Len(s) => Cardinality(From(buffer, c + 1, MSSP_VAL)) = 0
    BY <1>2, <2>1, FromFacts
  <2>3. c + 1 = Len(s) => m = IF At(buffer, c) = MSSP_VAL THEN Cardinality(From(buffer, c + 1, MSSP_VAL)) + 1
                                                          ELSE Cardinality(From(buffer, c + 1, MSSP_VAL))
    BY <1>2, <2>1, FromFacts
  <2>4. m \in Nat /\ (c = Len(s) => m = 0)
    BY <1>2, <2>1, FromFacts
  <2>5. c + 1 = Len(s) => c < Len(s)
    BY <1>2
  <2> HIDE DEF m
  <2> QED
    BY <1>2, <2>2, <2>3, <2>4, <2>5
<1> HIDE DEF r, n, v, w, p, m
\* What the separator, if there is one, comes to.
<1> DEFINE q == Mssp(s, c + 1)
<1>9. ASSUME c < Len(s), s[c + 1] = MSSP_VAR
      PROVE  q.vars = r.vars /\ q.name = <<>> /\ q.side = "name"
  <2>1. q = [vars |-> r.vars, name |-> <<>>, side |-> "name"]
    BY <1>2, <1>4, <1>9, MsspNames DEF r
  <2> QED
    BY <2>1
<1>10. ASSUME c < Len(s), s[c + 1] = MSSP_VAL
       PROVE  /\ Len(q.vars) = n + 1 /\ \A k \in 1 .. n : q.vars[k] = r.vars[k]
              /\ q.vars[n + 1].type = VAR /\ q.vars[n + 1].var = r.name
              /\ q.vars[n + 1].value = <<>> /\ q.name = r.name /\ q.side = "value"
  <2> DEFINE d == Grammar!Variable("NUL", r.name, <<>>)
             x == Append(r.vars, d)
  <2>1. d \in Described
    <3>1. <<>> \in Seq(Byte) /\ "NUL" \in Byte
      BY Coded
    <3> QED
      BY <1>4, <3>1, VariableType
  <2>2. d.type = VAR /\ d.var = r.name /\ d.value = <<>>
    BY DEF Grammar!Variable, VAR
  <2>3. q = [vars |-> x, name |-> r.name, side |-> "value"]
    BY <1>2, <1>4, <1>10, MsspValues DEF r
  <2> HIDE DEF d
  <2>4. Len(x) = n + 1 /\ x[n + 1] = d /\ \A k \in 1 .. n : x[k] = r.vars[k]
    BY <1>4, <1>5, <2>1
  <2> HIDE DEF x
  <2>5. q.vars = x /\ q.name = r.name /\ q.side = "value"
    BY <2>3
  <2> QED
    BY <2>2, <2>4, <2>5
<1> HIDE DEF q
<1>11. CASE c + 1 < Len(s)
  <2>1. /\ pc' = "part" /\ c' < Len(s) /\ next_type' = s[c + 1] /\ c < Len(s)
        /\ s[c + 1] \in {MSSP_VAR, MSSP_VAL}
    BY <1>2, <1>5, <1>7, <1>11
  <2>2. Unread(s)'
    <3>1. \A i \in 1 .. Len(s) : i > c + 1 => w[i] = s[i]
      <4>1. c \in Nat /\ Len(s) \in Nat
        BY <1>2
      <4>2. \A i \in 1 .. Len(s) : i > c => w[i] = s[i]
        BY <1>5
      <4>3. \A i \in 1 .. Len(s) : i > c + 1 => i > c
        BY <4>1
      <4> QED
        BY <4>2, <4>3
    <3> QED
      BY <1>2, <1>5, <1>6, <3>1 DEF Unread, w
  <2>3. Writing(w, out + 1, <<>>, out + 1)
    BY <1>2, WritingBegins
  <2>4. CASE s[c + 1] = MSSP_VAR
    <3>1. q.vars = r.vars /\ q.name = <<>> /\ q.side = "name"
      BY <1>9, <2>1, <2>4
    <3> QED
      BY <1>3, <1>5, <2>1, <2>2, <2>3, <2>4, <3>1 DEF ReadsMssp, q, n, v, w
  <2>5. CASE s[c + 1] = MSSP_VAL
    <3>1. /\ Len(q.vars) = n + 1 /\ \A k \in 1 .. n : q.vars[k] = r.vars[k]
          /\ q.vars[n + 1].type = VAR /\ q.vars[n + 1].var = r.name
          /\ q.vars[n + 1].value = <<>> /\ q.name = r.name /\ q.side = "value"
      BY <1>10, <2>1, <2>5
    <3>2. \A k \in 1 .. n : Means(w, v[k], q.vars[k], out + 1)
      BY <1>5, <3>1
    <3> QED
      BY <1>2, <1>3, <1>5, <2>1, <2>2, <2>3, <2>5, <3>1, <3>2 DEF ReadsMssp, q, n, v, w, p
  <2> QED
    BY <2>1, <2>4, <2>5
<1>12. CASE ~(c + 1 < Len(s))
  <2>1. pc' = "parts"
    BY <1>2, <1>5, <1>12
  <2>2. CASE c = Len(s)
    <3>1. Len(v) = n /\ s[Len(s)] # MSSP_VAL /\ Mssp(s, Len(s)) = r
      BY <1>2, <1>3, <1>5, <1>8, <2>2 DEF r
    <3>2. HasRead(s)'
      BY <1>2, <1>3, <1>5, <1>6, <3>1 DEF HasRead, v, w
    <3> QED
      BY <2>1, <3>2
  <2>3. CASE c + 1 = Len(s)
    <3>1. c < Len(s) /\ Mssp(s, Len(s)) = q /\ s[Len(s)] = s[c + 1]
      BY <1>2, <2>3 DEF q
    <3>2. CASE s[c + 1] = MSSP_VAR
      <4>1. q.vars = r.vars /\ Len(v) = n
        BY <1>2, <1>5, <1>8, <1>9, <2>3, <3>1, <3>2
      <4>2. HasRead(s)'
        BY <1>2, <1>3, <1>5, <1>6, <3>1, <3>2, <4>1 DEF HasRead, v, w
      <4> QED
        BY <2>1, <4>2
    <3>3. CASE s[c + 1] = MSSP_VAL
      <4>1. Len(q.vars) = n + 1 /\ (\A k \in 1 .. n : q.vars[k] = r.vars[k]) /\ Len(v) = n + 1
        BY <1>2, <1>5, <1>8, <1>10, <2>3, <3>1, <3>3
      <4>2. v[n + 1] = NullEntry
        BY <1>5, <4>1
      <4>3. \A k \in 1 .. n : Means(w, v[k], q.vars[k], out + 1)
        BY <1>5, <4>1
      <4>4. n + 1 > 0 /\ (n + 1) - 1 = n
        BY <1>5
      <4>5. HasRead(s)'
        BY <1>2, <1>3, <1>5, <1>6, <3>1, <3>3, <4>1, <4>2, <4>3, <4>4 DEF HasRead, v, w
      <4> QED
        BY <2>1, <4>5
    <3> QED
      BY <1>7, <3>1, <3>2, <3>3
  <2> QED
    BY <1>2, <1>12, <2>2, <2>3
<1> QED
  BY <1>11, <1>12

\* The entry of null pointers, as the application reads it.
NullRead == [type |-> VAR, var |-> "NULL", value |-> "NULL"]

\* The last value is stored when the event is made, not before.
LEMMA EntriesButTheLast ==
    ASSUME buffer \in Seq(Byte), NEW m \in Nat, m <= Len(buffer), NEW v \in Seq(Described), Len(v) > 0,
           values \in Seq(Entry), Len(values) = Len(v), values[Len(v)] = NullEntry,
           \A k \in 1 .. Len(v) - 1 : Means(buffer, values[k], v[k], m)
    PROVE  Entries(buffer) = [Grammar!TruncatedVariables(v) EXCEPT ![Len(v)] = NullRead]
<1> DEFINE n == Len(v)
           u == Grammar!TruncatedVariables(v)
           E1(k) == [type |-> values[k].type, var |-> CString(buffer, values[k].var),
                                             value |-> CString(buffer, values[k].value)]
<1>1. DOMAIN values = 1 .. n /\ DOMAIN v = 1 .. n /\ n \in 1 .. n /\ n \in Nat
  OBVIOUS
<1>2. DOMAIN u = 1 .. n
  BY <1>1 DEF Grammar!TruncatedVariables
<1>3. ASSUME NEW k \in 1 .. n - 1
      PROVE  E1(k) = u[k]
  <2>1. Means(buffer, values[k], v[k], m) /\ k \in 1 .. n
    BY <1>1
  <2>2. CString(buffer, values[k].var) = Grammar!Truncated(v[k].var)
    BY <2>1, HeldReads DEF Means
  <2>3. CString(buffer, values[k].value) = Grammar!Truncated(v[k].value)
    <3>1. CASE Held(buffer, values[k].value, v[k].value, m)
      BY <3>1, HeldReads
    <3>2. CASE values[k].value = EmptyLiteral /\ v[k].value = <<>>
      <4>1. CString(buffer, values[k].value) = <<>>
        BY <3>2, NullFacts DEF CString
      <4>2. Grammar!Truncated(<<>>) = <<>>
        BY DEF Grammar!Truncated
      <4> QED
        BY <3>2, <4>1, <4>2
    <3> QED
      BY <2>1, <3>1, <3>2 DEF Means, HeldOrEmpty
  <2>4. values[k].type = v[k].type
    BY <2>1 DEF Means
  <2>5. u[k] = Grammar!Variable(v[k].type, Grammar!Truncated(v[k].var), Grammar!Truncated(v[k].value))
    BY <1>1, <2>1 DEF Grammar!TruncatedVariables
  <2> QED
    BY <2>2, <2>3, <2>4, <2>5 DEF Grammar!Variable
<1>4. E1(n) = NullRead
  <2>1. values[n].type = VAR /\ values[n].var = Null /\ values[n].value = Null
    BY DEF NullEntry
  <2>2. CString(buffer, Null) = "NULL"
    BY DEF CString
  <2> QED
    BY <2>1, <2>2 DEF NullRead
<1>5. \A k \in 1 .. n : E1(k) = IF k = n THEN NullRead ELSE u[k]
  <2>0. n \in Nat
    BY <1>1
  <2> HIDE DEF E1, u, n
  <2>1. \A k \in 1 .. n : k = n \/ k \in 1 .. n - 1
    BY <2>0
  <2>2. n \notin 1 .. n - 1
    BY <2>0
  <2> QED
    BY <1>3, <1>4, <2>1, <2>2
<1>6. Entries(buffer) = [k \in 1 .. n |-> E1(k)]
  BY <1>1 DEF Entries
<1>7. [u EXCEPT ![n] = NullRead] = [k \in 1 .. n |-> IF k = n THEN NullRead ELSE u[k]]
  BY <1>1, <1>2
<1> HIDE DEF E1, u
<1> QED
  BY <1>5, <1>6, <1>7 DEF u

\* The event carries every pair of the grammar's reading.
LEMMA MsspEventReads ==
    ASSUME ParserInv, telopt = "MSSP", NEW s, HasRead(s), MsspEvent
    PROVE  pc' = "idle" /\ Answered(telopt, s, event')
<1> DEFINE v == Mssp(s, Len(s)).vars
           meant == Grammar!Meaning("MSSP", s)
<1>1. pc = "parts" /\ pc' = "idle" /\ event' = [kind |-> "mssp", values |-> Entries(buffer)]
  BY DEF MsspEvent, Give
<1>2. /\ s \in Seq(Byte) /\ s # <<>> /\ s[1] = MSSP_VAR /\ size = Len(s) /\ Len(buffer) = Len(s)
      /\ buffer \in Seq(Byte) /\ out \in Nat /\ out <= Len(buffer) /\ values \in Seq(Entry)
      /\ Len(values) = Len(v) /\ Len(s) \in Nat
      /\ IF s[Len(s)] = MSSP_VAL
           THEN /\ Len(v) > 0 /\ values[Len(v)] = NullEntry
                /\ \A k \in 1 .. Len(v) - 1 : Means(buffer, values[k], v[k], out)
           ELSE \A k \in 1 .. Len(v) : Means(buffer, values[k], v[k], out)
  BY <1>1 DEF HasRead, ParserInv, Bounded, size
<1>3. v \in Seq(Described)
  <2>1. Len(s) \in 0 .. Len(s)
    BY <1>2
  <2> QED
    BY <1>2, <2>1, MsspFacts DEF MsspState
<1>4. meant = [kind |-> "mssp", values |-> Grammar!TruncatedVariables(v)]
  <2>1. Head(s) = s[1]
    BY <1>2, TailIs
  <2> QED
    BY <1>2, <2>1, MeaningOfMssp DEF Grammar!MsspVariables, Mssp, MSSP_VAR
<1>5. Odd("MSSP", s) <=> s[Len(s)] = MSSP_VAL
  BY <1>2 DEF Odd, Grammar!EndsInEsc, MSSP_VAL
<1> HIDE DEF v
<1>6. CASE s[Len(s)] # MSSP_VAL
  <2>1. Entries(buffer) = Grammar!TruncatedVariables(v)
    BY <1>2, <1>3, <1>6, EntriesRead
  <2> QED
    BY <1>1, <1>4, <1>5, <1>6, <2>1 DEF Answered
<1>7. CASE s[Len(s)] = MSSP_VAL
  <2> DEFINE u == Grammar!TruncatedVariables(v)
  <2>1. Entries(buffer) = [u EXCEPT ![Len(v)] = NullRead]
    BY <1>2, <1>3, <1>7, EntriesButTheLast
  <2>2. Len(u) = Len(v)
    <3>1. DOMAIN v = 1 .. Len(v) /\ Len(v) \in Nat
      BY <1>3
    <3>2. u \in [1 .. Len(v) -> {u[k] : k \in 1 .. Len(v)}]
      BY <3>1 DEF Grammar!TruncatedVariables
    <3> HIDE DEF u
    <3> QED
      BY <3>1, <3>2
  <2> HIDE DEF u
  <2>3. OddReading("MSSP", s, meant) = [meant EXCEPT !.values[Len(meant.values)] = NullRead]
    <3>1. meant.kind = "mssp"
      BY <1>4
    <3> HIDE DEF meant
    <3> QED
      BY <3>1 DEF OddReading, NullRead
  <2>4. [meant EXCEPT !.values[Len(meant.values)] = NullRead]
          = [kind |-> "mssp", values |-> [u EXCEPT ![Len(v)] = NullRead]]
    <3>1. meant = [kind |-> "mssp", values |-> u]
      BY <1>4 DEF u
    <3> HIDE DEF meant
    <3>2. meant.values = u
      BY <3>1
    <3>3. [meant EXCEPT !.values[Len(meant.values)] = NullRead]
            = [kind |-> "mssp", values |-> [u EXCEPT ![Len(u)] = NullRead]]
      BY <3>1, <3>2
    <3> QED
      BY <2>2, <3>3
  <2> HIDE DEF meant
  <2>5. event' = OddReading("MSSP", s, meant)
    BY <1>1, <2>1, <2>3, <2>4
  <2> QED
    BY <1>1, <1>5, <1>7, <2>5 DEF Answered, meant
<1> QED
  BY <1>6, <1>7

-----------------------------------------------------------------------------
(* ZMP.                                                                    *)

\* What i bytes come to.
Zmp(s, i) == Grammar!ZmpRead(s)[i]

LEMMA ZmpFacts ==
    ASSUME NEW s \in Seq(Byte)
    PROVE  /\ Zmp(s, 0) = ZmpFirst
           /\ \A i \in 0 .. Len(s) : Zmp(s, i) \in ZmpState
           /\ \A i \in 1 .. Len(s) : Zmp(s, i) = Grammar!ZmpByte(Zmp(s, i - 1), s[i])
BY ZmpReadFacts DEF Zmp

LEMMA ZmpText ==
    ASSUME NEW a \in ZmpState, NEW b, b # "NUL"
    PROVE  Grammar!ZmpByte(a, b) = [argv |-> a.argv, arg |-> Append(a.arg, b)]
BY DEF Grammar!ZmpByte, ZmpState

\* The bytes between two NUL are one argument.
LEMMA ZmpRun ==
    ASSUME NEW s \in Seq(Byte), NEW a \in Nat, NEW e \in Nat, a <= e, e < Len(s), s[e + 1] = "NUL",
           Zmp(s, a).arg = <<>>, \A i \in 1 .. e - a : s[a + i] # "NUL"
    PROVE  /\ Zmp(s, e + 1).argv = Append(Zmp(s, a).argv, SubSeq(s, a + 1, e))
           /\ Zmp(s, e + 1).arg = <<>>
<1> DEFINE n == e - a
           r == Zmp(s, a)
           text(i) == SubSeq(s, a + 1, a + i)
           T == {i \in 0 .. n : Zmp(s, a + i).argv = r.argv /\ Zmp(s, a + i).arg = text(i)}
<1>1. n \in Nat /\ Len(s) \in Nat /\ a + n = e
  OBVIOUS
<1>2. \A i \in 0 .. n : /\ text(i) \in Seq(Byte) /\ Len(text(i)) = i
                        /\ \A j \in 1 .. i : text(i)[j] = s[a + j]
  <2> SUFFICES ASSUME NEW i \in 0 .. n
               PROVE  /\ text(i) \in Seq(Byte) /\ Len(text(i)) = i
                      /\ \A j \in 1 .. i : text(i)[j] = s[a + j]
    OBVIOUS
  <2> DEFINE b == a + i
  <2>1. b \in Nat /\ a <= b /\ b <= Len(s) /\ b - a = i
    BY <1>1
  <2> HIDE DEF b
  <2>2. /\ SubSeq(s, a + 1, b) \in Seq(Byte) /\ Len(SubSeq(s, a + 1, b)) = b - a
        /\ \A j \in 1 .. b - a : SubSeq(s, a + 1, b)[j] = s[a + j]
    BY <2>1, SubSeqCut
  <2> QED
    BY <2>1, <2>2 DEF b
<1> HIDE DEF text, r
<1>3. 0 \in T
  <2>1. text(0) = <<>>
    <3>1. text(0) \in Seq(Byte) /\ Len(text(0)) = 0
      BY <1>1, <1>2
    <3> QED
      BY <3>1, EmptySeq
  <2> QED
    BY <1>1, <2>1 DEF r
<1>4. ASSUME NEW i \in 1 .. n, i - 1 \in T
      PROVE  i \in T
  <2> DEFINE q == Zmp(s, a + (i - 1))
             b == s[a + i]
  <2>1. /\ i - 1 \in 0 .. n /\ i \in 0 .. n /\ q.argv = r.argv /\ q.arg = text(i - 1)
        /\ a + i \in 1 .. Len(s) /\ (a + i) - 1 = a + (i - 1) /\ a + (i - 1) \in 0 .. Len(s)
    BY <1>1, <1>4
  <2>2. q \in ZmpState /\ b # "NUL" /\ b \in Byte
    BY <1>1, <2>1, ZmpFacts, ElementOfSeq
  <2>3. Zmp(s, a + i) = Grammar!ZmpByte(q, b)
    BY <2>1, ZmpFacts
  <2> HIDE DEF q
  <2>4. Zmp(s, a + i) = [argv |-> q.argv, arg |-> Append(q.arg, b)]
    BY <2>2, <2>3, ZmpText
  <2>5. Append(text(i - 1), b) = text(i)
    <3> DEFINE x == text(i - 1)
               y == text(i)
    <3>1. /\ x \in Seq(Byte) /\ Len(x) = i - 1 /\ \A j \in 1 .. i - 1 : x[j] = s[a + j]
          /\ y \in Seq(Byte) /\ Len(y) = i /\ \A j \in 1 .. i : y[j] = s[a + j]
      BY <1>2, <2>1
    <3> HIDE DEF x, y
    <3> DEFINE z == Append(x, b)
    <3>2. z \in Seq(Byte) /\ Len(z) = i /\ z[i] = b /\ \A j \in 1 .. i - 1 : z[j] = x[j]
      BY <2>2, <3>1
    <3> HIDE DEF z
    <3>3. \A j \in 1 .. i : j = i \/ j \in 1 .. i - 1
      BY <2>1
    <3>4. Len(z) = Len(y) /\ \A j \in 1 .. Len(z) : z[j] = y[j]
      BY <3>1, <3>2, <3>3
    <3>5. z = y
      BY <3>1, <3>2, <3>4, SeqEqual
    <3> QED
      BY <3>5 DEF x, y, z
  <2> HIDE DEF b
  <2>6. Zmp(s, a + i).argv = r.argv /\ Zmp(s, a + i).arg = text(i)
    <3>1. Zmp(s, a + i).argv = q.argv /\ Zmp(s, a + i).arg = Append(q.arg, b)
      BY <2>4
    <3> QED
      BY <2>1, <2>5, <3>1
  <2> QED
    BY <2>1, <2>6
<1>5. n \in T
  <2> HIDE DEF T
  <2>1. \A i \in 0 .. n : i \in T
    BY <1>1, <1>3, <1>4, SetInduction
  <2> QED
    BY <1>1, <2>1
<1>6. Zmp(s, e).argv = r.argv /\ Zmp(s, e).arg = SubSeq(s, a + 1, e)
  BY <1>1, <1>5 DEF text
<1>7. Zmp(s, e + 1) = Grammar!ZmpByte(Zmp(s, e), "NUL")
  <2>1. e + 1 \in 1 .. Len(s) /\ (e + 1) - 1 = e
    BY <1>1
  <2> QED
    BY <2>1, ZmpFacts
<1>8. Grammar!ZmpByte(Zmp(s, e), "NUL") = [argv |-> Append(Zmp(s, e).argv, Zmp(s, e).arg), arg |-> <<>>]
  BY DEF Grammar!ZmpByte
<1> QED
  BY <1>6, <1>7, <1>8 DEF r

\* The loop has read c bytes of s, which is in the buffer as it arrived.
ReadsZmp(s) ==
    LET r == Zmp(s, c)
    IN  /\ s \in Seq(Byte) /\ buffer = s /\ s # <<>> /\ s[Len(s)] = "NUL"
        /\ r.arg = <<>> /\ Len(r.argv) = index
        /\ \A k \in 1 .. index : CString(s, values[k].var) = r.argv[k]

LEMMA MeaningOfZmp ==
    ASSUME NEW s
    PROVE  /\ Grammar!Meaning("ZMP", s) =
                 IF s # <<>> /\ s[Len(s)] = "NUL"
                   THEN [kind |-> "zmp", argv |-> Grammar!ZmpArguments(s)] ELSE Grammar!Malformed
           /\ ~Odd("ZMP", s)
BY DEF Grammar!Meaning, Odd

LEMMA ZmpStartReads ==
    ASSUME ParserInv, telopt = "ZMP", NEW s, s = buffer, ZmpStart
    PROVE  \/ pc' = "idle" /\ Answered(telopt, s, event')
           \/ pc' = "argument" /\ ReadsZmp(s)'
<1>1. /\ s \in Seq(Byte) /\ size = Len(s) /\ Len(s) \in Nat /\ (Len(s) = 0 <=> s = <<>>)
  BY EmptySeq DEF ParserInv, Bounded, size
<1>2. size # 0 => At(buffer, size - 1) = s[Len(s)]
  <2>1. size # 0 => size - 1 \in Nat /\ size - 1 < Len(s) /\ size - 1 + 1 = Len(s)
    BY <1>1
  <2> QED
    BY <1>1, <2>1, AtFacts
<1>3. CASE /\ size = 0 \/ At(buffer, size - 1) # "NUL"
           /\ pc' = "idle" /\ event' = Warning("protocol")
  <2>1. Grammar!Malformed = Warning("protocol")
    BY DEF Grammar!Malformed, Warning
  <2> QED
    BY <1>1, <1>2, <1>3, <2>1, MeaningOfZmp DEF Answered
<1>4. CASE MemoryFails /\ pc' = "idle" /\ event' = Warning("memory")
  BY <1>4 DEF Answered
<1>5. CASE /\ At(buffer, size - 1) = "NUL" /\ pc' = "argument" /\ c' = 0 /\ buffer' = buffer /\ index' = 0
  <2>1. size # 0
    BY <1>1, <1>5, Coded DEF At, size
  <2>2. Zmp(s, 0).arg = <<>> /\ Zmp(s, 0).argv = <<>> /\ Len(<<>>) = 0
    BY <1>1, ZmpFacts DEF ZmpFirst
  <2> QED
    BY <1>1, <1>2, <1>5, <2>1, <2>2 DEF ReadsZmp
<1> QED
  BY <1>3, <1>4, <1>5 DEF ZmpStart, Give, Allocate

\* Each argument found in place is the grammar's next argument.
LEMMA ZmpArgumentReads ==
    ASSUME ParserInv, telopt = "ZMP", NEW s, ReadsZmp(s), ZmpArgument
    PROVE  \/ pc' = "idle" /\ Answered(telopt, s, event')
           \/ pc' = "argument" /\ ReadsZmp(s)'
<1>1. /\ pc = "argument" /\ buffer' = buffer /\ buffer = s /\ s \in Seq(Byte) /\ size = Len(s)
      /\ Len(s) \in Nat /\ s # <<>> /\ s[Len(s)] = "NUL"
      /\ c \in Nat /\ c <= Len(s) /\ index \in Nat /\ values \in Seq(Entry) /\ Len(values) \in Nat
      /\ index <= Len(values)
  BY DEF ZmpArgument, ReadsZmp, ParserInv, Bounded, ZmpLoop, size
<1> DEFINE r == Zmp(s, c)
<1>2. /\ r.arg = <<>> /\ Len(r.argv) = index
      /\ \A k \in 1 .. index : CString(s, values[k].var) = r.argv[k]
  BY DEF ReadsZmp
<1>3. r \in ZmpState /\ r.argv \in Seq(Seq(Byte))
  <2>1. c \in 0 .. Len(s)
    BY <1>1
  <2> QED
    BY <1>1, <2>1, ZmpFacts DEF ZmpState
<1>4. CASE index # Len(values)
  <2>1. PICK e \in Nat : /\ c <= e /\ e < size /\ At(buffer, e) = "NUL"
                         /\ \A i \in Nat : c <= i /\ i < e => At(buffer, i) # "NUL"
                         /\ CString(buffer, c) = SubSeq(buffer, c + 1, e)
                         /\ c + Len(CString(buffer, c)) + 1 = e + 1
    BY <1>1, <1>4, ZmpAdvances
  <2>2. /\ values' = [values EXCEPT ![index + 1].var = c] /\ c' = e + 1 /\ index' = index + 1 /\ pc' = pc
    BY <1>4, <2>1 DEF ZmpArgument
  <2>3. /\ values'[index + 1].var = c /\ \A k \in 1 .. index : values'[k] = values[k]
    <3>1. index + 1 \in 1 .. Len(values)
      BY <1>1, <1>4
    <3>2. values[index + 1] \in Entry /\ DOMAIN values = 1 .. Len(values)
      BY <1>1, <3>1, ElementOfSeq
    <3>3. values'[index + 1] = [values[index + 1] EXCEPT !.var = c]
      BY <2>2, <3>1, <3>2
    <3>4. \A k \in 1 .. index : k \in 1 .. Len(values) /\ k # index + 1
      BY <1>1
    <3> QED
      BY <2>2, <3>2, <3>3, <3>4 DEF Entry
  <2>4. s[e + 1] = "NUL" /\ e < Len(s)
    BY <1>1, <2>1, AtFacts
  <2>5. \A i \in 1 .. e - c : s[c + i] # "NUL"
    <3> TAKE i \in 1 .. e - c
    <3>1. c + i - 1 \in Nat /\ c <= c + i - 1 /\ c + i - 1 < e /\ (c + i - 1) + 1 = c + i
      BY <1>1, <2>1
    <3>2. c + i - 1 < Len(s)
      BY <1>1, <2>4, <3>1
    <3> QED
      BY <1>1, <2>1, <3>1, <3>2, AtFacts
  <2> DEFINE t == SubSeq(s, c + 1, e)
  <2>6. Zmp(s, e + 1).argv = Append(r.argv, t) /\ Zmp(s, e + 1).arg = <<>>
    BY <1>1, <1>2, <2>1, <2>4, <2>5, ZmpRun
  <2>7. t \in Seq(Byte) /\ CString(s, c) = t
    BY <1>1, <2>1, <2>4, SubSeqCut
  <2> HIDE DEF t, r
  <2> DEFINE w == Append(r.argv, t)
  <2>8. Len(w) = index + 1 /\ w[index + 1] = t /\ \A k \in 1 .. index : w[k] = r.argv[k]
    BY <1>1, <1>2, <1>3, <2>7
  <2> HIDE DEF w
  <2>9. \A k \in 1 .. index + 1 : k \in 1 .. index \/ k = index + 1
    BY <1>1
  <2>10. \A k \in 1 .. index + 1 : CString(s, values'[k].var) = w[k]
    BY <1>2, <2>3, <2>7, <2>8, <2>9
  <2> QED
    BY <1>1, <2>2, <2>6, <2>8, <2>10 DEF ReadsZmp, w
<1>5. CASE index = Len(values)
  <2>1. /\ pc' = "idle"
        /\ event' = [kind |-> "zmp", argv |-> [k \in DOMAIN values |-> CString(buffer, values[k].var)]]
    BY <1>5 DEF ZmpArgument, Give
  <2>2. c = Len(s)
    <3>1. Cardinality(From(buffer, c, "NUL")) = 0
      <4>1. Cardinality(From(buffer, c, "NUL")) \in Nat
        BY <1>1, FromFacts
      <4>2. Len(values) = index + Cardinality(From(buffer, c, "NUL"))
        BY <1>1 DEF ParserInv, ZmpLoop
      <4> QED
        BY <1>1, <1>5, <4>1, <4>2
    <3>2. From(buffer, c, "NUL") = {}
      <4>1. IsFiniteSet(From(buffer, c, "NUL"))
        BY <1>1, FromFacts
      <4> QED
        BY <3>1, <4>1, FS_EmptySet
    <3>3. c < Len(s) => Len(s) \in From(buffer, c, "NUL")
      <4>1. DOMAIN s = 1 .. Len(s)
        BY <1>1
      <4> QED
        BY <1>1, <4>1 DEF From
    <3> QED
      BY <1>1, <3>2, <3>3
  <2>3. [k \in DOMAIN values |-> CString(buffer, values[k].var)] = r.argv
    <3> DEFINE w == [k \in DOMAIN values |-> CString(buffer, values[k].var)]
    <3>1. DOMAIN values = 1 .. index
      BY <1>1, <1>5
    <3>2. \A k \in 1 .. index : w[k] = r.argv[k]
      BY <1>1, <1>2, <3>1
    <3>3. DOMAIN w = 1 .. index /\ DOMAIN r.argv = 1 .. index
      BY <1>2, <1>3, <3>1
    <3>4. w = [k \in 1 .. index |-> w[k]]
      BY <3>1
    <3>5. r.argv = [k \in 1 .. index |-> r.argv[k]]
      <4> DEFINE x == r.argv
      <4>1. x \in [1 .. index -> Seq(Byte)]
        BY <1>2, <1>3, LenProperties
      <4> HIDE DEF x
      <4>2. x = [k \in 1 .. index |-> x[k]]
        BY <4>1
      <4> QED
        BY <4>2 DEF x
    <3> HIDE DEF w, r
    <3>6. w = r.argv
      BY <3>2, <3>4, <3>5
    <3> QED
      BY <3>6 DEF w
  <2>4. Grammar!ZmpArguments(s) = r.argv
    BY <2>2 DEF Grammar!ZmpArguments, Zmp
  <2>5. Grammar!Meaning("ZMP", s) = [kind |-> "zmp", argv |-> r.argv]
    BY <1>1, <2>4, MeaningOfZmp
  <2> HIDE DEF r
  <2> QED
    BY <2>1, <2>3, <2>5, MeaningOfZmp DEF Answered
<1> QED
  BY <1>4, <1>5

-----------------------------------------------------------------------------
(* TERMINAL-TYPE.                                                          *)

LEMMA MeaningOfTtype ==
    ASSUME NEW s
    PROVE  /\ Grammar!Meaning("TTYPE", s) =
                 IF s # <<>> /\ Head(s) = "NUL"
                   THEN [kind |-> "ttype", cmd |-> "NUL", name |-> Grammar!Truncated(Tail(s))]
                 ELSE IF s # <<>> /\ Head(s) = "SOH"
                   THEN [kind |-> "ttype", cmd |-> "SOH", name |-> "NULL"]
                 ELSE Grammar!Malformed
           /\ ~Odd("TTYPE", s)
BY DEF Grammar!Meaning, Odd

\* The name that is copied is what lies behind the command, up to a NUL.
LEMMA TtypeName ==
    ASSUME NEW s \in Seq(Byte), s # <<>>
    PROVE  CString(s, 1) = Grammar!Truncated(Tail(s))
<1> DEFINE t == Tail(s)
           n == Len(s)
<1>1. /\ t \in Seq(Byte) /\ Len(t) = n - 1 /\ n \in Nat /\ n > 0
      /\ \A i \in 1 .. n - 1 : t[i] = s[i + 1]
  BY TailIs
<1> HIDE DEF t
<1>2. CASE \E k \in 1 .. n - 1 : t[k] = "NUL"
  <2>1. PICK k \in 1 .. n - 1 : t[k] = "NUL"
    BY <1>2
  <2>2. 1 \in Nat /\ k \in Nat /\ 1 <= k /\ k < Len(s) /\ At(s, k) = "NUL"
    BY <1>1, <2>1, AtFacts
  <2>3. PICK e \in Nat : /\ 1 <= e /\ e <= k /\ At(s, e) = "NUL"
                         /\ \A i \in Nat : 1 <= i /\ i < e => At(s, i) # "NUL"
    BY <2>2, FirstEnd
  <2>4. e < Len(s) /\ e \in 1 .. n - 1 /\ e \in 1 .. Len(t) /\ e - 1 \in Nat /\ e - 1 <= Len(t) /\ 1 <= e /\ e <= Len(s)
    BY <1>1, <2>1, <2>3
  <2>5. CString(s, 1) = SubSeq(s, 1 + 1, e)
    BY <2>2, <2>3, <2>4, CStringEnds
  <2>6. t[e] = "NUL"
    BY <1>1, <2>3, <2>4, AtFacts
  <2>7. \A j \in 1 .. e - 1 : t[j] # "NUL"
    <3> TAKE j \in 1 .. e - 1
    <3>1. j \in Nat /\ 1 <= j /\ j < e /\ j < Len(s) /\ j \in 1 .. n - 1
      BY <1>1, <2>4
    <3> QED
      BY <1>1, <2>3, <3>1, AtFacts
  <2>8. Grammar!Truncated(t) = SubSeq(t, 1, e - 1)
    BY <1>1, <2>4, <2>6, <2>7, FirstNulIs
  <2>9. SubSeq(s, 1 + 1, e) = SubSeq(t, 1, e - 1)
    <3> DEFINE x == SubSeq(s, 1 + 1, e)
               y == SubSeq(t, 1, e - 1)
    <3>1. x \in Seq(Byte) /\ Len(x) = e - 1 /\ \A j \in 1 .. e - 1 : x[j] = s[1 + j]
      BY <2>2, <2>4, SubSeqCut
    <3>2. y \in Seq(Byte) /\ Len(y) = e - 1 /\ \A j \in 1 .. e - 1 : y[j] = t[j]
      BY <1>1, <2>4, SubSeqFirst
    <3>3. \A j \in 1 .. e - 1 : j \in 1 .. n - 1 /\ 1 + j = j + 1
      BY <1>1, <2>4
    <3> HIDE DEF x, y
    <3>4. Len(x) = Len(y) /\ \A j \in 1 .. Len(x) : x[j] = y[j]
      BY <1>1, <3>1, <3>2, <3>3
    <3>5. x = y
      BY <3>1, <3>2, <3>4, SeqEqual
    <3> QED
      BY <3>5 DEF x, y
  <2> QED
    BY <2>5, <2>8, <2>9 DEF t
<1>3. CASE \A k \in 1 .. n - 1 : t[k] # "NUL"
  <2>1. {i \in 1 .. Len(s) - 1 : At(s, i) = "NUL"} = {}
    <3> SUFFICES ASSUME NEW i \in 1 .. Len(s) - 1
                 PROVE  At(s, i) # "NUL"
      OBVIOUS
    <3>1. i \in Nat /\ i < Len(s) /\ i \in 1 .. n - 1
      BY <1>1
    <3> QED
      BY <1>1, <1>3, <3>1, AtFacts
  <2>2. CString(s, 1) = SubSeq(s, 1 + 1, Len(s))
    BY <2>1, NullFacts DEF CString
  <2>3. SubSeq(s, 1 + 1, Len(s)) = t
    <3> DEFINE x == SubSeq(s, 1 + 1, n)
    <3>1. 1 \in Nat /\ 1 <= n /\ n <= Len(s)
      BY <1>1
    <3>2. x \in Seq(Byte) /\ Len(x) = n - 1 /\ \A j \in 1 .. n - 1 : x[j] = s[1 + j]
      BY <1>1, <3>1, SubSeqCut
    <3> HIDE DEF x
    <3>3. Len(x) = Len(t) /\ \A j \in 1 .. Len(x) : x[j] = t[j]
      <4>1. \A j \in 1 .. n - 1 : 1 + j = j + 1
        BY <1>1
      <4> QED
        BY <1>1, <3>2, <4>1
    <3>4. x = t
      BY <1>1, <3>2, <3>3, SeqEqual
    <3> QED
      BY <3>4 DEF x
  <2>4. Grammar!Truncated(t) = t
    BY <1>1, <1>3, NoNul
  <2> QED
    BY <2>2, <2>3, <2>4 DEF t
<1> QED
  BY <1>2, <1>3

\* _ttype_telnet makes its event in one step, from the payload as received.
LEMMA TtypeReads ==
    ASSUME ParserInv, telopt = "TTYPE", NEW s, s = buffer, TtypeEvent
    PROVE  pc' = "idle" /\ Answered(telopt, s, event')
<1>1. s \in Seq(Byte) /\ size = Len(s) /\ Len(s) \in Nat /\ (Len(s) = 0 <=> s = <<>>)
  BY EmptySeq DEF ParserInv, Bounded, size
<1>2. /\ s # <<>> => At(buffer, 0) = s[1] /\ Head(s) = s[1]
      /\ s = <<>> => At(buffer, 0) = "beyond"
      /\ IS = "NUL" /\ SEND = "SOH" /\ "NUL" # "beyond" /\ "SOH" # "beyond"
  <2>1. 0 \in Nat /\ (s # <<>> => 0 < Len(s)) /\ (s = <<>> => 0 >= Len(s))
    BY <1>1
  <2> QED
    BY <1>1, <2>1, AtFacts, TailIs DEF IS, SEND
<1>3. CASE /\ size = 0 \/ At(buffer, 0) \notin {IS, SEND}
           /\ pc' = "idle" /\ event' = Warning("protocol")
  <2>1. Grammar!Malformed = Warning("protocol")
    BY DEF Grammar!Malformed, Warning
  <2> QED
    BY <1>1, <1>2, <1>3, <2>1, MeaningOfTtype DEF Answered
<1>4. CASE MemoryFails /\ pc' = "idle" /\ event' = Warning("memory")
  BY <1>4 DEF Answered
<1>5. CASE /\ At(buffer, 0) = IS /\ pc' = "idle"
           /\ event' = [kind |-> "ttype", cmd |-> IS, name |-> CString(buffer, 1)]
  <2>1. s # <<>> /\ Head(s) = "NUL"
    BY <1>2, <1>5
  <2>2. CString(buffer, 1) = Grammar!Truncated(Tail(s))
    BY <1>1, <2>1, TtypeName
  <2> QED
    BY <1>2, <1>5, <2>1, <2>2, MeaningOfTtype DEF Answered
<1>6. CASE /\ At(buffer, 0) = SEND /\ pc' = "idle"
           /\ event' = [kind |-> "ttype", cmd |-> SEND, name |-> "NULL"]
  BY <1>2, <1>6, MeaningOfTtype DEF Answered
<1> QED
  BY <1>3, <1>4, <1>5, <1>6 DEF TtypeEvent, Give

-----------------------------------------------------------------------------
(* The parsers read what the payload means.                                *)

\* Where the parser of the option is in the payload it was handed.
Reading ==
    /\ pc \in {"environ", "entry", "name", "value"} => telopt \in {"ENVIRON", "NEW_ENVIRON"}
    /\ pc \in {"mssp", "part", "parts"} => telopt = "MSSP"
    /\ pc \in {"zmp", "argument"} => telopt = "ZMP"
    /\ pc = "ttype" => telopt = "TTYPE"
    /\ pc \in {"environ", "mssp", "zmp", "ttype"} => parsed = buffer
    /\ pc \in {"entry", "name", "value"} => ReadsEnviron(parsed)
    /\ pc = "part" => ReadsMssp(parsed)
    /\ pc = "parts" => HasRead(parsed)
    /\ pc = "argument" => ReadsZmp(parsed)
    /\ pc = "idle" /\ telopt # "none" => Answered(telopt, parsed, event)

ReadsInv == Typed /\ Reading

\* Every step of a parser keeps what it has read the grammar's reading.
LEMMA ParseReads ==
    ASSUME ParserInv, Reading, Parse, parsed' = parsed
    PROVE  Reading'
<1>1. PICK s : s = parsed
  OBVIOUS
<1>2. parsed' = s
  BY <1>1
<1>3. telopt' = telopt
  BY ParseKeeps
<1>4. CASE EnvironStart
  <2>1. telopt \in {"ENVIRON", "NEW_ENVIRON"} /\ s = buffer
    BY <1>1, <1>4 DEF Reading, EnvironStart
  <2>2. \/ pc' = "idle" /\ Answered(telopt, s, event')
        \/ pc' = "entry" /\ ReadsEnviron(s)'
    BY <1>4, <2>1, EnvironStartReads
  <2> QED
    BY <1>2, <1>3, <2>1, <2>2 DEF Reading
<1>5. CASE EnvironEntry \/ EnvironCopy \/ EnvironName \/ EnvironValue
  <2>1. telopt \in {"ENVIRON", "NEW_ENVIRON"} /\ ReadsEnviron(s)
    BY <1>1, <1>5 DEF Reading, EnvironEntry, EnvironCopy, EnvironName, EnvironValue
  <2>2. \/ pc' = "idle" /\ Answered(telopt, s, event')
        \/ pc' \in {"entry", "name", "value"} /\ ReadsEnviron(s)'
    BY <1>5, <2>1, EnvironEntryReads, EnvironCopyReads, EnvironNameReads, EnvironValueReads
  <2> QED
    BY <1>2, <1>3, <2>1, <2>2 DEF Reading
<1>6. CASE MsspStart
  <2>1. telopt = "MSSP" /\ s = buffer
    BY <1>1, <1>6 DEF Reading, MsspStart
  <2>2. \/ pc' = "idle" /\ Answered(telopt, s, event')
        \/ pc' = "part" /\ ReadsMssp(s)'
        \/ pc' = "parts" /\ HasRead(s)'
    BY <1>6, <2>1, MsspStartReads
  <2> QED
    BY <1>2, <1>3, <2>1, <2>2 DEF Reading
<1>7. CASE MsspCopy \/ MsspPart
  <2>1. telopt = "MSSP" /\ ReadsMssp(s)
    BY <1>1, <1>7 DEF Reading, MsspCopy, MsspPart
  <2>2. \/ pc' = "part" /\ ReadsMssp(s)'
        \/ pc' = "parts" /\ HasRead(s)'
    BY <1>7, <2>1, MsspCopyReads, MsspPartReads
  <2> QED
    BY <1>2, <1>3, <2>1, <2>2 DEF Reading
<1>8. CASE MsspEvent
  <2>1. telopt = "MSSP" /\ HasRead(s)
    BY <1>1, <1>8 DEF Reading, MsspEvent
  <2>2. pc' = "idle" /\ Answered(telopt, s, event')
    BY <1>8, <2>1, MsspEventReads
  <2> QED
    BY <1>2, <1>3, <2>2 DEF Reading
<1>9. CASE ZmpStart
  <2>1. telopt = "ZMP" /\ s = buffer
    BY <1>1, <1>9 DEF Reading, ZmpStart
  <2>2. \/ pc' = "idle" /\ Answered(telopt, s, event')
        \/ pc' = "argument" /\ ReadsZmp(s)'
    BY <1>9, <2>1, ZmpStartReads
  <2> QED
    BY <1>2, <1>3, <2>1, <2>2 DEF Reading
<1>10. CASE ZmpArgument
  <2>1. telopt = "ZMP" /\ ReadsZmp(s)
    BY <1>1, <1>10 DEF Reading, ZmpArgument
  <2>2. \/ pc' = "idle" /\ Answered(telopt, s, event')
        \/ pc' = "argument" /\ ReadsZmp(s)'
    BY <1>10, <2>1, ZmpArgumentReads
  <2> QED
    BY <1>2, <1>3, <2>1, <2>2 DEF Reading
<1>11. CASE TtypeEvent
  <2>1. telopt = "TTYPE" /\ s = buffer
    BY <1>1, <1>11 DEF Reading, TtypeEvent
  <2>2. pc' = "idle" /\ Answered(telopt, s, event')
    BY <1>11, <2>1, TtypeReads
  <2> QED
    BY <1>2, <1>3, <2>2 DEF Reading
<1> QED
  BY <1>4, <1>5, <1>6, <1>7, <1>8, <1>9, <1>10, <1>11 DEF Parse

\* The steps outside the parser leave its reading alone.
LEMMA ReadingStutters ==
    ASSUME Reading, UNCHANGED parser, parsed' = parsed
    PROVE  Reading'
<1>1. PICK s : s = parsed
  OBVIOUS
<1>2. parsed' = s
  BY <1>1
<1>3. /\ pc' = pc /\ telopt' = telopt /\ buffer' = buffer /\ c' = c /\ out' = out /\ last' = last
      /\ values' = values /\ index' = index /\ var' = var /\ next_type' = next_type /\ event' = event
  BY DEF parser
<1>4. ReadsEnviron(s)' <=> ReadsEnviron(s)
  BY <1>3 DEF ReadsEnviron, Unread, size
<1>5. ReadsMssp(s)' <=> ReadsMssp(s)
  BY <1>3 DEF ReadsMssp, Unread, size
<1>6. HasRead(s)' <=> HasRead(s)
  BY <1>3 DEF HasRead, size
<1>7. ReadsZmp(s)' <=> ReadsZmp(s)
  BY <1>3 DEF ReadsZmp
<1> QED
  BY <1>1, <1>2, <1>3, <1>4, <1>5, <1>6, <1>7 DEF Reading

\* An option without a parser: there is no event.
LEMMA BeginReads ==
    ASSUME NEW o, NEW s, Begin(o, s), parsed' = s
    PROVE  Reading'
<1>1. /\ telopt' = o /\ buffer' = s /\ event' = NoEvent
      /\ pc' = IF o \in {"ENVIRON", "NEW_ENVIRON"} THEN "environ"
               ELSE IF o = "MSSP" THEN "mssp"
               ELSE IF o = "ZMP" THEN "zmp"
               ELSE IF o = "TTYPE" THEN "ttype"
               ELSE "idle"
  BY DEF Begin
<1>2. CASE o \in {"ENVIRON", "NEW_ENVIRON", "MSSP", "ZMP", "TTYPE"}
  BY <1>1, <1>2 DEF Reading
<1>3. CASE o \notin {"ENVIRON", "NEW_ENVIRON", "MSSP", "ZMP", "TTYPE"}
  <2>1. Grammar!Meaning(o, s) = NoEvent /\ ~Odd(o, s)
    BY <1>3 DEF Grammar!Meaning, NoEvent, Odd
  <2>2. Answered(o, s, NoEvent)
    BY <2>1 DEF Answered
  <2> QED
    BY <1>1, <1>3, <2>2 DEF Reading
<1> QED
  BY <1>2, <1>3

\* The invariant is inductive: each step keeps the parser's reading right.
LEMMA ReadingStep ==
    ASSUME Typed, Reading, [Next]_vars
    PROVE  Reading'
<1>1. CASE Parsing
  BY <1>1, ParseReads DEF Parsing, Typed
<1>2. CASE Handle
  <2>1. CASE Head(heard).kind = "subnegotiation"
    BY <1>2, <2>1, BeginReads DEF Handle
  <2>2. CASE Head(heard).kind # "subnegotiation"
    BY <1>2, <2>2, ReadingStutters DEF Handle
  <2> QED
    BY <2>1, <2>2
<1>3. CASE Forget
  BY <1>3, BeginReads DEF Forget
<1>4. CASE Receive \/ (\E m \in Messages : Call(m)) \/ UNCHANGED vars
  <2>1. parsed' = parsed /\ UNCHANGED parser
    BY <1>4 DEF Receive, Call, vars
  <2> QED
    BY <2>1, ReadingStutters
<1> QED
  BY <1>1, <1>2, <1>3, <1>4 DEF Next

\* The in-place parsers give the event of the grammar for every payload, of
\* whatever bytes and however long, but for the two kinds Misread names.
THEOREM ReadsGrammarHolds ==
    Spec => []ReadsGrammar
<1>1. Init => ReadsInv
  <2>1. Init => Reading
    BY DEF Init, ParserInit, Reading
  <2> QED
    BY <2>1, TypedInit DEF ReadsInv
<1>2. ReadsInv /\ [Next]_vars => ReadsInv'
  BY TypedStep, ReadingStep DEF ReadsInv
<1>3. ASSUME NEW o, NEW s, NEW ev, Answered(o, s, ev), ~Misread(o, s)
      PROVE  ev = Grammar!Meaning(o, s) \/ (MemoryFails /\ ev = Warning("memory"))
  <2> SUFFICES ASSUME Odd(o, s), ev = OddReading(o, s, Grammar!Meaning(o, s))
               PROVE  ev = Grammar!Meaning(o, s)
    BY <1>3 DEF Answered
  <2>1. CASE o \in {"ENVIRON", "NEW_ENVIRON"}
    <3>1. s # <<>> /\ (Len(s) > 1 => ~Grammar!WellFormedEnviron(s))
      BY <1>3, <2>1 DEF Odd, Misread, Grammar!EndsInEsc
    <3>2. Len(s) > 1 => Grammar!Meaning(o, s) = Grammar!Malformed
      BY <2>1, <3>1, MeaningOfEnviron
    <3> QED
      BY <2>1, <3>2 DEF OddReading
  <2>2. CASE o = "MSSP"
    <3>1. s # <<>> /\ Head(s) # "SOH"
      BY <1>3, <2>2 DEF Odd, Misread, Grammar!EndsInEsc
    <3>2. Grammar!Meaning(o, s) = Grammar!Malformed
      BY <2>2, <3>1 DEF Grammar!Meaning
    <3>3. Grammar!Malformed.kind # "mssp"
      BY DEF Grammar!Malformed
    <3> QED
      BY <2>2, <3>2, <3>3 DEF OddReading
  <2> QED
    BY <2>1, <2>2 DEF Odd
<1>4. ReadsInv => ReadsGrammar
  <2> SUFFICES ASSUME ReadsInv, pc = "idle", telopt # "none", ~Misread(telopt, parsed)
               PROVE  \/ event = Grammar!Meaning(telopt, parsed)
                      \/ MemoryFails /\ event = Warning("memory")
    BY DEF ReadsGrammar
  <2>1. Answered(telopt, parsed, event)
    BY DEF ReadsInv, Reading
  <2> QED
    BY <1>3, <2>1
<1> QED
  BY <1>1, <1>2, <1>4, PTL DEF Spec

-----------------------------------------------------------------------------
(* What the helpers send is a subnegotiation like any other.               *)

\* A variable an application passes to telnet_newenviron_value(), in two calls.
Given == [type : {VAR, USERVAR}, var : Strings, value : Strings]

\* The part of the payload that is about one variable.
Part(v) == <<v.type>> \o v.var \o <<VALUE>> \o v.value

Parts(v) == [k \in DOMAIN v |-> Part(v[k])]

\* The part of it that is about an argument ends in a NUL.
Arguments(argv) == [i \in DOMAIN argv |-> Append(argv[i], "NUL")]

\* The encodings of sequences that are joined are joined as well.
LEMMA EncodingFlatten ==
    ASSUME NEW t \in Seq(Seq(Byte)), NEW e \in Seq(Seq(Byte)), Len(e) = Len(t),
           \A i \in 1 .. Len(t) : e[i] = Encoding(t[i], FALSE)
    PROVE  Encoding(FlattenSeq(t), FALSE) = FlattenSeq(e)
<1>1. PICK g : Joins(g, t, Byte)
  BY JoinExists
<1> DEFINE n == Len(t)
           h == [i \in 0 .. n |-> Encoding(g[i], FALSE)]
<1>2. n \in Nat /\ \A i \in 1 .. n : t[i] \in Seq(Byte)
  BY ElementOfSeq
<1>3. /\ g \in [0 .. n -> Seq(Byte)] /\ g[0] = <<>>
      /\ \A i \in 1 .. n : g[i] = g[i - 1] \o t[i]
  BY <1>1 DEF Joins
<1>4. FlattenSeq(t) = g[n]
  BY <1>1, FlattenIs
<1> HIDE DEF n
<1>5. h \in [0 .. n -> Seq(Byte)]
  <2>1. \A i \in 0 .. n : Encoding(g[i], FALSE) \in Seq(Byte)
    BY <1>3, EncodingType
  <2> QED
    BY <2>1
<1>6. h[0] = <<>>
  <2>1. h[0] = Encoding(g[0], FALSE)
    BY <1>2
  <2> HIDE DEF h
  <2> QED
    BY <1>3, <2>1, EncodingEmpty
<1>7. ASSUME NEW i \in 1 .. n
      PROVE  h[i] = h[i - 1] \o e[i]
  <2>1. i \in 0 .. n /\ i - 1 \in 0 .. n
    BY <1>2
  <2>2. g[i - 1] \in Seq(Byte) /\ t[i] \in Seq(Byte) /\ g[i] = g[i - 1] \o t[i]
    BY <1>2, <1>3, <2>1
  <2> DEFINE x == g[i - 1]
             y == t[i]
  <2>3. x \in Seq(Byte) /\ y \in Seq(Byte) /\ g[i] = x \o y
    BY <2>2
  <2>4. h[i] = Encoding(g[i], FALSE) /\ h[i - 1] = Encoding(x, FALSE) /\ e[i] = Encoding(y, FALSE)
    BY <2>1 DEF n
  <2> HIDE DEF x, y, h
  <2>5. Encoding(x \o y, FALSE) = Encoding(x, FALSE) \o Encoding(y, FALSE)
    BY <2>3, EncodingConcat
  <2> QED
    BY <2>3, <2>4, <2>5
<1> HIDE DEF h
<1>8. Joins(h, e, Byte)
  BY <1>5, <1>6, <1>7 DEF Joins, n
<1>9. FlattenSeq(e) = h[n]
  BY <1>8, FlattenIs DEF n
<1>10. h[n] = Encoding(g[n], FALSE)
  BY <1>2 DEF h
<1> QED
  BY <1>4, <1>9, <1>10

\* Four joined sequences are joined in any order.
LEMMA ConcatFour ==
    ASSUME NEW B, NEW x \in Seq(B), NEW y \in Seq(B), NEW z \in Seq(B), NEW w \in Seq(B)
    PROVE  /\ ((x \o y) \o z) \o w \in Seq(B)
           /\ ((x \o y) \o z) \o w = (x \o y) \o (z \o w)
           /\ ((x \o y) \o z) \o w = (x \o (y \o z)) \o w
<1> DEFINE p == x \o y
           q == p \o z
<1>1. p \in Seq(B)
  BY ConcatProperties
<1>2. (x \o y) \o z = x \o (y \o z)
  BY SMTT(60), ConcatAssociative
<1>3. (p \o z) \o w \in Seq(B) /\ (p \o z) \o w = p \o (z \o w)
  <2> HIDE DEF p
  <2>1. q \in Seq(B)
    BY <1>1, ConcatProperties
  <2>2. q \o w \in Seq(B)
    BY <2>1, ConcatProperties
  <2> QED
    BY SMTT(60), <1>1, <2>2, ConcatAssociative
<1> QED
  BY <1>2, <1>3

\* A variable is sent as its parts are, one after the other.
LEMMA PartSent ==
    ASSUME NEW v \in Given
    PROVE  /\ Part(v) \in Seq(Byte)
           /\ telnet_newenviron_value(v.type, v.var) \o telnet_newenviron_value(VALUE, v.value)
                = Encoding(Part(v), FALSE)
<1> DEFINE x == <<v.type>>
           y == v.var
           z == <<VALUE>>
           w == v.value
<1>1. x \in Seq(Byte) /\ y \in Seq(Byte) /\ z \in Seq(Byte) /\ w \in Seq(Byte)
  <2>1. "NUL" \in Byte /\ "SOH" \in Byte /\ "ETX" \in Byte
    BY AddedBytes DEF Added
  <2>2. v.type \in Byte /\ VALUE \in Byte
    BY <2>1 DEF Given, VAR, USERVAR, VALUE
  <2>3. v.var \in Strings /\ v.value \in Strings
    BY DEF Given
  <2> QED
    BY <2>2, <2>3, StringType
<1>2. Part(v) = ((x \o y) \o z) \o w
  BY DEF Part
<1>3. telnet_newenviron_value(v.type, v.var) \o telnet_newenviron_value(VALUE, v.value)
        = (Encoding(x, FALSE) \o Encoding(y, FALSE)) \o (Encoding(z, FALSE) \o Encoding(w, FALSE))
  BY <1>1, SendsCodes DEF telnet_newenviron_value, telnet_send
<1> HIDE DEF x, y, z, w
<1>4. x \o y \in Seq(Byte) /\ (x \o y) \o z \in Seq(Byte) /\ ((x \o y) \o z) \o w \in Seq(Byte)
  BY <1>1, ConcatThree, ConcatFour, ConcatProperties
<1> DEFINE a == Encoding(x, FALSE)
           b == Encoding(y, FALSE)
           d == Encoding(z, FALSE)
           e == Encoding(w, FALSE)
<1>5. a \in Seq(Byte) /\ b \in Seq(Byte) /\ d \in Seq(Byte) /\ e \in Seq(Byte)
  BY <1>1, EncodingType
<1>6. Encoding(x \o y, FALSE) = a \o b
  BY <1>1, EncodingConcat
<1>7. Encoding((x \o y) \o z, FALSE) = (a \o b) \o d
  <2> DEFINE p == x \o y
  <2>1. p \in Seq(Byte) /\ Encoding(p, FALSE) = a \o b
    BY <1>4, <1>6
  <2> HIDE DEF p
  <2>2. Encoding(p \o z, FALSE) = Encoding(p, FALSE) \o Encoding(z, FALSE)
    BY <1>1, <2>1, EncodingConcat
  <2> QED
    BY <2>1, <2>2 DEF p
<1>8. Encoding(((x \o y) \o z) \o w, FALSE) = ((a \o b) \o d) \o e
  <2> DEFINE p == (x \o y) \o z
  <2>1. p \in Seq(Byte) /\ Encoding(p, FALSE) = (a \o b) \o d
    BY <1>4, <1>7
  <2> HIDE DEF p
  <2>2. Encoding(p \o w, FALSE) = Encoding(p, FALSE) \o Encoding(w, FALSE)
    BY <1>1, <2>1, EncodingConcat
  <2> QED
    BY <2>1, <2>2 DEF p
<1>9. ((a \o b) \o d) \o e = (a \o b) \o (d \o e)
  <2> HIDE DEF a, b, d, e
  <2> DEFINE p == a \o b
  <2>1. p \in Seq(Byte)
    BY <1>5, ConcatProperties
  <2> HIDE DEF p
  <2>2. (p \o d) \o e = p \o (d \o e)
    BY SMTT(60), <1>5, <2>1, ConcatAssociative
  <2> QED
    BY <2>2 DEF p
<1> QED
  BY <1>2, <1>3, <1>4, <1>8, <1>9

\* An IAC is all that is sent as something else in a payload.
LEMMA EncodingPlain ==
    ASSUME NEW s \in Seq(Byte), \A i \in 1 .. Len(s) : s[i] # "IAC"
    PROVE  Encoding(s, FALSE) = s
<1> DEFINE n == Len(s)
           t == Codes(s, FALSE)
           g == [i \in 0 .. n |-> SubSeq(s, 1, i)]
<1>1. n \in Nat /\ DOMAIN s = 1 .. n /\ \A i \in 1 .. n : s[i] \in Byte
  BY ElementOfSeq
<1>2. /\ t \in Seq(Seq(Byte)) /\ Len(t) = n
      /\ \A i \in 1 .. n : t[i] = Code(s[i], FALSE)
  BY CodesType
<1>3. \A i \in 1 .. n : t[i] = <<s[i]>>
  BY <1>2 DEF Code, Instead, Escape
<1>4. g \in [0 .. n -> Seq(Byte)] /\ g[0] = <<>> /\ g[n] = s
  <2>1. \A i \in 0 .. n : SubSeq(s, 1, i) \in Seq(Byte)
    BY <1>1, SubSeqProperties
  <2>2. SubSeq(s, 1, 0) = <<>> /\ SubSeq(s, 1, n) = s
    BY <1>1
  <2> QED
    BY <1>1, <2>1, <2>2
<1>5. ASSUME NEW i \in 1 .. n
      PROVE  g[i] = g[i - 1] \o t[i]
  <2>1. i \in 0 .. n /\ i - 1 \in 0 .. n /\ s[i] \in Byte
    BY <1>1
  <2>2. SubSeq(s, 1, i) = Append(SubSeq(s, 1, i - 1), s[i])
    BY <1>1, <2>1
  <2>3. Append(SubSeq(s, 1, i - 1), s[i]) = SubSeq(s, 1, i - 1) \o <<s[i]>>
    <3> DEFINE p == SubSeq(s, 1, i - 1)
               b == s[i]
    <3>1. p \in Seq(Byte) /\ b \in Byte
      BY <1>1, <2>1, SubSeqProperties
    <3> HIDE DEF p, b
    <3>2. Append(p, b) = p \o <<b>>
      BY <3>1
    <3> QED
      BY <3>2 DEF p, b
  <2> QED
    BY <1>3, <2>1, <2>2, <2>3
<1> HIDE DEF g, t
<1>6. Joins(g, t, Byte)
  BY <1>2, <1>4, <1>5 DEF Joins
<1>7. FlattenSeq(t) = g[Len(t)]
  BY <1>2, <1>6, FlattenIs
<1> QED
  BY <1>2, <1>4, <1>7 DEF Encoding, t

\* The calls that write a payload a parser reads, and its option.
HelperCalls == {"newenviron", "ttype_send", "ttype_is", "send_zmp", "send_vzmpv"}

HelperOpt(m) ==
    IF m.call = "newenviron" THEN "NEW_ENVIRON"
    ELSE IF m.call \in {"ttype_send", "ttype_is"} THEN "TTYPE" ELSE "ZMP"

\* What these calls are given.
LEMMA HelperCases ==
    ASSUME NEW m \in Calls, m.call \in HelperCalls
    PROVE  \/ m.call = "newenviron" /\ m.cmd \in {IS, SEND, INFO} /\ m.vars \in Seq(Given)
           \/ m.call = "ttype_send"
           \/ m.call = "ttype_is" /\ m.bytes \in Strings
           \/ m.call \in {"send_zmp", "send_vzmpv"} /\ m.argv \in Seq(Strings) /\ m.argv # <<>>
BY DEF Calls, HelperCalls, Given

\* The parts and the arguments are payload bytes.
LEMMA PartsFacts ==
    ASSUME NEW v \in Seq(Given)
    PROVE  /\ Parts(v) \in Seq(Seq(Byte)) /\ Len(Parts(v)) = Len(v)
           /\ \A k \in 1 .. Len(v) : Parts(v)[k] = Part(v[k]) /\ v[k] \in Given
<1>1. Len(v) \in Nat /\ DOMAIN v = 1 .. Len(v) /\ \A k \in 1 .. Len(v) : v[k] \in Given
  BY ElementOfSeq
<1>2. \A k \in 1 .. Len(v) : Part(v[k]) \in Seq(Byte)
  BY <1>1, PartSent
<1>3. Parts(v) \in [1 .. Len(v) -> Seq(Byte)] /\ \A k \in 1 .. Len(v) : Parts(v)[k] = Part(v[k])
  BY <1>1, <1>2 DEF Parts
<1> DEFINE w == Parts(v)
           n == Len(v)
<1>4. w \in [1 .. n -> Seq(Byte)] /\ n \in Nat
  BY <1>1, <1>3
<1> HIDE DEF w, n
<1>5. w \in Seq(Seq(Byte)) /\ Len(w) = n
  BY <1>4
<1> QED
  BY <1>1, <1>3, <1>5 DEF w, n

LEMMA ArgumentsFacts ==
    ASSUME NEW a \in Seq(Strings)
    PROVE  /\ Arguments(a) \in Seq(Seq(Byte)) /\ Len(Arguments(a)) = Len(a)
           /\ \A k \in 1 .. Len(a) : Arguments(a)[k] = Append(a[k], "NUL") /\ a[k] \in Strings
<1>1. Len(a) \in Nat /\ DOMAIN a = 1 .. Len(a) /\ \A k \in 1 .. Len(a) : a[k] \in Strings
  BY ElementOfSeq
<1>2. \A k \in 1 .. Len(a) : Append(a[k], "NUL") \in Seq(Byte)
  <2>1. "NUL" \in Byte
    BY AddedBytes DEF Added
  <2> QED
    BY <1>1, <2>1, StringType
<1>3. Arguments(a) \in [1 .. Len(a) -> Seq(Byte)]
      /\ \A k \in 1 .. Len(a) : Arguments(a)[k] = Append(a[k], "NUL")
  BY <1>1, <1>2 DEF Arguments
<1> DEFINE w == Arguments(a)
           n == Len(a)
<1>4. w \in [1 .. n -> Seq(Byte)] /\ n \in Nat
  BY <1>1, <1>3
<1> HIDE DEF w, n
<1>5. w \in Seq(Seq(Byte)) /\ Len(w) = n
  BY <1>4
<1> QED
  BY <1>1, <1>3, <1>5 DEF w, n

\* telnet_begin_newenviron(), a pair of telnet_newenviron_value() for each
\* variable, and telnet_finish_sb().
LEMMA EnvironSent ==
    ASSUME NEW m \in Calls, m.call = "newenviron", NEW mem
    PROVE  /\ Carried(m) = <<m.cmd>> \o FlattenSeq(Parts(m.vars)) /\ Carried(m) \in Seq(Byte)
           /\ Encoded(m, mem) = telnet_subnegotiation("NEW_ENVIRON", Carried(m))
<1> DEFINE v == m.vars
           n == Len(v)
           x == <<m.cmd>>
           p == FlattenSeq(Parts(v))
           e == [k \in DOMAIN v |-> telnet_newenviron_value(v[k].type, v[k].var)
                                        \o telnet_newenviron_value(VALUE, v[k].value)]
           b == telnet_begin_sb("NEW_ENVIRON")
<1>1. m.cmd \in {IS, SEND, INFO} /\ v \in Seq(Given)
  BY HelperCases DEF HelperCalls
<1>2. x \in Seq(Byte)
  <2>1. m.cmd \in Byte
    BY <1>1, AddedBytes DEF Added, IS, SEND, INFO
  <2> QED
    BY <2>1
<1>3. Carried(m) = x \o p
  BY DEF Carried, Parts, Part
<1>4. Encoded(m, mem) = ((b \o telnet_send(x)) \o FlattenSeq(e)) \o telnet_finish_sb
  BY DEF Encoded, telnet_begin_newenviron
<1>5. n \in Nat /\ DOMAIN v = 1 .. n
  BY <1>1
<1>6. /\ Parts(v) \in Seq(Seq(Byte)) /\ Len(Parts(v)) = n
      /\ \A k \in 1 .. n : Parts(v)[k] = Part(v[k]) /\ v[k] \in Given
  BY <1>1, PartsFacts
<1>7. \A k \in 1 .. n : e[k] = Encoding(Part(v[k]), FALSE) /\ e[k] \in Seq(Byte)
  <2> TAKE k \in 1 .. n
  <2>1. /\ Part(v[k]) \in Seq(Byte)
        /\ telnet_newenviron_value(v[k].type, v[k].var) \o telnet_newenviron_value(VALUE, v[k].value)
             = Encoding(Part(v[k]), FALSE)
    BY <1>6, PartSent
  <2>2. e[k] = Encoding(Part(v[k]), FALSE)
    BY <1>5, <2>1
  <2> QED
    BY <2>1, <2>2, EncodingType
<1>8. e \in Seq(Seq(Byte)) /\ Len(e) = n
  <2>1. e \in [1 .. n -> Seq(Byte)]
    <3>1. DOMAIN e = 1 .. n /\ e = [k \in 1 .. n |-> e[k]]
      BY <1>5
    <3> HIDE DEF e, n
    <3> QED
      BY <1>7, <3>1
  <2> HIDE DEF e, n
  <2> QED
    BY <1>5, <2>1
<1> HIDE DEF e, v, n, x
<1>9. p \in Seq(Byte) /\ Encoding(p, FALSE) = FlattenSeq(e)
  <2>1. \A k \in 1 .. Len(Parts(v)) : e[k] = Encoding(Parts(v)[k], FALSE)
    BY <1>6, <1>7
  <2> QED
    BY <1>6, <1>8, <2>1, EncodingFlatten, FlattenType
<1> HIDE DEF p
<1>10. x \o p \in Seq(Byte)
  BY <1>2, <1>9, ConcatProperties
<1>11. telnet_send(x \o p) = telnet_send(x) \o FlattenSeq(e)
  <2>1. Encoding(x \o p, FALSE) = Encoding(x, FALSE) \o Encoding(p, FALSE)
    BY <1>2, <1>9, EncodingConcat
  <2> QED
    BY <1>2, <1>9, <1>10, <2>1, SendsCodes DEF telnet_send
<1>12. (b \o telnet_send(x)) \o FlattenSeq(e) = b \o telnet_send(x \o p)
  <2> DEFINE s == telnet_send(x)
             f == FlattenSeq(e)
  <2>1. b \in Seq(Byte) /\ s \in Seq(Byte) /\ f \in Seq(Byte)
    <3>1. b \in Seq(Byte)
      BY AddedBytes, BeginType DEF Added
    <3>2. s \in Seq(Byte)
      BY <1>2, EncodingType DEF telnet_send
    <3> QED
      BY <1>8, <3>1, <3>2, FlattenType
  <2>2. telnet_send(x \o p) = s \o f
    BY <1>11
  <2> HIDE DEF s, f, b
  <2>3. (b \o s) \o f = b \o (s \o f)
    BY SMTT(60), <2>1, ConcatAssociative
  <2> QED
    BY <2>2, <2>3 DEF s, f
<1>13. Encoded(m, mem) = telnet_subnegotiation("NEW_ENVIRON", x \o p)
  BY <1>4, <1>12 DEF telnet_subnegotiation, b
<1> QED
  BY <1>3, <1>10, <1>13 DEF x, p, v

\* telnet_ttype_send() and telnet_ttype_is().
LEMMA TtypeSent ==
    ASSUME NEW m \in Calls, m.call \in {"ttype_send", "ttype_is"}, Encodable(m), NEW mem
    PROVE  /\ Carried(m) \in Seq(Byte)
           /\ m.call = "ttype_send" => Carried(m) = <<SEND>>
           /\ m.call = "ttype_is" => Carried(m) = <<IS>> \o m.bytes
           /\ Encoded(m, mem) = telnet_subnegotiation("TTYPE", Carried(m))
<1> DEFINE b == telnet_begin_sb("TTYPE")
<1>1. /\ "IAC" \in Byte /\ "SB" \in Byte /\ "SE" \in Byte /\ "TTYPE" \in Byte
      /\ "NUL" \in Byte /\ "SOH" \in Byte
  BY AddedBytes DEF Added
<1>2. b \in Seq(Byte) /\ telnet_finish_sb = <<"IAC", "SE">>
  BY <1>1, BeginType DEF telnet_finish_sb, telnet_iac
<1>3. ASSUME NEW y \in Byte
      PROVE  <<"IAC", "SB", "TTYPE", y>> = b \o <<y>>
  <2> DEFINE i == "IAC"
             k == "SB"
             o == "TTYPE"
             w == <<i, k, o>>
             z == <<y>>
             u == w \o z
             q == <<i, k, o, y>>
  <2>1. /\ w \in Seq(Byte) /\ Len(w) = 3 /\ w[1] = i /\ w[2] = k /\ w[3] = o
        /\ z \in Seq(Byte) /\ Len(z) = 1 /\ z[1] = y
        /\ q \in Seq(Byte) /\ Len(q) = 4 /\ q[1] = i /\ q[2] = k /\ q[3] = o /\ q[4] = y
    BY <1>1
  <2>2. w = b
    BY DEF telnet_begin_sb
  <2> HIDE DEF i, k, o, w, z, q, b
  <2>3. /\ u \in Seq(Byte) /\ Len(u) = Len(w) + Len(z)
        /\ \A j \in 1 .. Len(w) + Len(z) : u[j] = IF j <= Len(w) THEN w[j] ELSE z[j - Len(w)]
    BY <2>1, ConcatProperties
  <2> HIDE DEF u
  <2>4. u[1] = w[1] /\ u[2] = w[2] /\ u[3] = w[3] /\ u[4] = z[1]
    BY <2>1, <2>3
  <2>5. \A j \in 1 .. Len(u) : u[j] = q[j]
    BY <2>1, <2>3, <2>4
  <2>6. u = q
    BY <2>1, <2>3, <2>5, SeqEqual
  <2> QED
    BY <2>2, <2>6 DEF u, q, w, z, i, k, o
<1>4. CASE m.call = "ttype_send"
  <2>1. Carried(m) = <<"SOH">> /\ Encoded(m, mem) = <<"IAC", "SB", "TTYPE", "SOH", "IAC", "SE">>
    BY <1>4 DEF Carried, Encoded, telnet_ttype_send, SEND
  <2> DEFINE s == <<"SOH">>
             y == "SOH"
  <2>2. s \in Seq(Byte) /\ telnet_send(s) = s
    <3>1. s \in Seq(Byte)
      BY <1>1
    <3>2. Encoding(s, FALSE) = s
      BY <1>1, EncodingOne DEF Code, Instead, Escape
    <3> QED
      BY <3>1, <3>2, SendsCodes DEF telnet_send
  <2>3. <<"IAC", "SB", "TTYPE", "SOH", "IAC", "SE">> = <<"IAC", "SB", "TTYPE", "SOH">> \o <<"IAC", "SE">>
    OBVIOUS
  <2>4. <<"IAC", "SB", "TTYPE", "SOH">> = b \o s
    BY <1>1, <1>3
  <2>5. Encoded(m, mem) = telnet_subnegotiation("TTYPE", s)
    BY <1>2, <2>1, <2>2, <2>3, <2>4 DEF telnet_subnegotiation
  <2> QED
    BY <1>4, <2>1, <2>2, <2>5 DEF SEND
<1>5. CASE m.call = "ttype_is"
  <2> DEFINE t == m.bytes
             s == <<"NUL">>
  <2>1. t \in Strings /\ ~HasAny(t, {"IAC"})
    BY <1>5, HelperCases DEF HelperCalls, Encodable
  <2>2. t \in Seq(Byte) /\ s \in Seq(Byte) /\ \A i \in 1 .. Len(t) : t[i] # "IAC"
    <3>1. t \in Seq(Byte)
      BY <2>1, StringType
    <3>2. DOMAIN t = 1 .. Len(t)
      BY <3>1
    <3> QED
      BY <1>1, <2>1, <3>1, <3>2 DEF HasAny
  <2>3. Carried(m) = s \o t
    BY <1>5 DEF Carried, IS
  <2>4. Encoded(m, mem) = (<<"IAC", "SB", "TTYPE", "NUL">> \o t) \o telnet_finish_sb
    BY <1>5 DEF Encoded, telnet_ttype_is
  <2>5. <<"IAC", "SB", "TTYPE", "NUL">> = b \o s
    BY <1>1, <1>3
  <2>6. Encoding(s, FALSE) = s
    BY <1>1, EncodingOne DEF Code, Instead, Escape
  <2> HIDE DEF s, t, b
  <2>7. s \o t \in Seq(Byte) /\ telnet_send(s \o t) = s \o t
    <3>1. s \o t \in Seq(Byte)
      BY <2>2, ConcatProperties
    <3>2. Encoding(s \o t, FALSE) = Encoding(s, FALSE) \o Encoding(t, FALSE)
      BY <2>2, EncodingConcat
    <3>3. Encoding(t, FALSE) = t
      BY <2>2, EncodingPlain
    <3> QED
      BY <2>6, <3>1, <3>2, <3>3, SendsCodes DEF telnet_send
  <2>8. (b \o s) \o t = b \o (s \o t)
    BY SMTT(60), <1>2, <2>2, ConcatAssociative
  <2>9. Encoded(m, mem) = telnet_subnegotiation("TTYPE", s \o t)
    BY <2>4, <2>5, <2>7, <2>8 DEF telnet_subnegotiation, b
  <2> QED
    BY <1>5, <2>3, <2>7, <2>9 DEF s, t, IS
<1> QED
  BY <1>4, <1>5

\* telnet_send_zmp() and telnet_send_vzmpv().
LEMMA ZmpSent ==
    ASSUME NEW m \in Calls, m.call \in {"send_zmp", "send_vzmpv"}, NEW mem
    PROVE  /\ Carried(m) = FlattenSeq(Arguments(m.argv)) /\ Carried(m) \in Seq(Byte)
           /\ Encoded(m, mem) = telnet_subnegotiation("ZMP", Carried(m))
<1> DEFINE a == m.argv
           n == Len(a)
           g == Arguments(a)
           e == [k \in DOMAIN a |-> telnet_zmp_arg(a[k])]
           r == [i \in 1 .. Len(a) - 1 |-> telnet_zmp_arg(a[i + 1])]
           b == telnet_begin_sb("ZMP")
           p == FlattenSeq(g)
<1>1. a \in Seq(Strings) /\ a # <<>>
  BY HelperCases DEF HelperCalls
<1>2. n \in Nat \ {0} /\ DOMAIN a = 1 .. n
  BY <1>1, EmptySeq
<1>3. Carried(m) = p
  BY DEF Carried, Arguments
<1>4. /\ m.call = "send_zmp" => Encoded(m, mem) = ((b \o telnet_zmp_arg(a[1])) \o FlattenSeq(r)) \o telnet_finish_sb
      /\ m.call = "send_vzmpv" => Encoded(m, mem) = (b \o FlattenSeq(e)) \o telnet_finish_sb
  BY DEF Encoded, telnet_send_zmp, telnet_send_vzmpv, telnet_begin_zmp
<1>5. /\ g \in Seq(Seq(Byte)) /\ Len(g) = n
      /\ \A k \in 1 .. n : g[k] = Append(a[k], "NUL") /\ a[k] \in Strings
  BY <1>1, ArgumentsFacts
<1>6. \A k \in 1 .. n : telnet_zmp_arg(a[k]) = Encoding(g[k], FALSE) /\ telnet_zmp_arg(a[k]) \in Seq(Byte)
  <2> TAKE k \in 1 .. n
  <2>1. g[k] \in Seq(Byte) /\ a[k] \in Strings
    BY <1>5, ElementOfSeq
  <2> QED
    BY <1>5, <2>1, ZmpArgType, SendsCodes DEF telnet_zmp_arg, telnet_send
<1>7. /\ e \in [1 .. n -> Seq(Byte)] /\ \A k \in 1 .. n : e[k] = telnet_zmp_arg(a[k])
  BY <1>2, <1>6
<1>8. /\ r \in [1 .. n - 1 -> Seq(Byte)] /\ \A k \in 1 .. n - 1 : r[k] = telnet_zmp_arg(a[k + 1])
  <2>1. \A k \in 1 .. n - 1 : k + 1 \in 1 .. n
    BY <1>2
  <2> QED
    BY <1>6, <2>1
<1> HIDE DEF a, n, g, e, r
<1>9. /\ e \in Seq(Seq(Byte)) /\ Len(e) = n /\ r \in Seq(Seq(Byte)) /\ Len(r) = n - 1
  BY <1>2, <1>7, <1>8
<1>10. p \in Seq(Byte) /\ Encoding(p, FALSE) = FlattenSeq(e)
  <2>1. \A k \in 1 .. Len(g) : e[k] = Encoding(g[k], FALSE)
    BY <1>5, <1>6, <1>7
  <2> QED
    BY <1>5, <1>9, <2>1, EncodingFlatten, FlattenType
<1> HIDE DEF p
<1>11. telnet_send(p) = FlattenSeq(e)
  BY <1>10, SendsCodes DEF telnet_send
<1>12. Head(e) = telnet_zmp_arg(a[1]) /\ Tail(e) = r /\ e # <<>>
  <2>1. e # <<>> /\ Head(e) = e[1] /\ 1 \in 1 .. n
    BY <1>2, <1>9, EmptySeq
  <2> DEFINE t == Tail(e)
  <2>2. t \in Seq(Seq(Byte)) /\ Len(t) = n - 1 /\ \A k \in 1 .. Len(t) : t[k] = e[k + 1]
    BY <1>9, <2>1, HeadTailProperties
  <2> HIDE DEF t
  <2>3. \A k \in 1 .. Len(t) : t[k] = r[k]
    <3>1. \A k \in 1 .. Len(t) : k + 1 \in 1 .. n
      BY <1>2, <2>2
    <3> QED
      BY <1>7, <1>8, <2>2, <3>1
  <2>4. t = r
    BY <1>9, <2>2, <2>3, SeqEqual
  <2> QED
    BY <1>7, <2>1, <2>4 DEF t
<1>13. FlattenSeq(e) = telnet_zmp_arg(a[1]) \o FlattenSeq(r)
  BY <1>9, <1>12, FlattenHead
<1>14. (b \o telnet_zmp_arg(a[1])) \o FlattenSeq(r) = b \o telnet_send(p)
  <2> DEFINE s == telnet_zmp_arg(a[1])
             f == FlattenSeq(r)
  <2>1. b \in Seq(Byte) /\ s \in Seq(Byte) /\ f \in Seq(Byte)
    <3>1. b \in Seq(Byte)
      BY AddedBytes, BeginType DEF Added
    <3>2. s \in Seq(Byte)
      <4>1. 1 \in 1 .. n
        BY <1>2
      <4> QED
        BY <1>6, <4>1
    <3> QED
      BY <1>9, <3>1, <3>2, FlattenType
  <2>2. telnet_send(p) = s \o f
    BY <1>11, <1>13
  <2> HIDE DEF s, f, b
  <2>3. (b \o s) \o f = b \o (s \o f)
    BY SMTT(60), <2>1, ConcatAssociative
  <2> QED
    BY <2>2, <2>3 DEF s, f
<1>15. Encoded(m, mem) = telnet_subnegotiation("ZMP", p)
  BY <1>4, <1>11, <1>14 DEF telnet_subnegotiation, b
<1> QED
  BY <1>3, <1>10, <1>15 DEF p, g, a

\* The helpers send a payload as telnet_subnegotiation() would.
LEMMA HelperSent ==
    ASSUME NEW m \in Calls, m.call \in HelperCalls, Encodable(m), NEW mem
    PROVE  /\ HelperOpt(m) \in Byte \ {"COMPRESS"} /\ Carried(m) \in Seq(Byte)
           /\ Encoded(m, mem) = telnet_subnegotiation(HelperOpt(m), Carried(m))
<1>1. "NEW_ENVIRON" \in Byte /\ "TTYPE" \in Byte /\ "ZMP" \in Byte
  BY AddedBytes DEF Added
<1> QED
  BY <1>1, EnvironSent, TtypeSent, ZmpSent DEF HelperCalls, HelperOpt

-----------------------------------------------------------------------------
(* What the grammar makes of a payload that a helper wrote.                *)

\* Two passes that begin alike go on alike over the same bytes.
Alike(f, g, n) ==
    f[0] = g[0] /\ \A i \in 1 .. n : f[i - 1] = g[i - 1] => f[i] = g[i]

LEMMA AlikeFromTheStart ==
    ASSUME NEW n \in Nat, NEW f, NEW g, Alike(f, g, n)
    PROVE  f[n] = g[n]
<1> DEFINE T == {i \in 0 .. n : f[i] = g[i]}
<1>1. 0 \in T
  BY DEF Alike
<1>2. ASSUME NEW i \in 1 .. n, i - 1 \in T
      PROVE  i \in T
  BY <1>2 DEF Alike
<1> HIDE DEF T
<1>3. n \in T
  <2>1. \A i \in 0 .. n : i \in T
    BY <1>1, <1>2, SetInduction
  <2> QED
    BY <2>1
<1> QED
  BY <1>3 DEF T

\* What the grammar has read depends on nothing behind it.
LEMMA ZmpPrefix ==
    ASSUME NEW s \in Seq(Byte), NEW t \in Seq(Byte)
    PROVE  Zmp(s \o t, Len(s)) = Zmp(s, Len(s))
<1> DEFINE u == s \o t
           f == Grammar!ZmpRead(u)
           g == Grammar!ZmpRead(s)
           n == Len(s)
<1>1. /\ u \in Seq(Byte) /\ Len(u) = n + Len(t) /\ n \in Nat /\ Len(t) \in Nat
      /\ \A i \in 1 .. n : u[i] = s[i]
  BY ConcatProperties
<1>2. /\ f[0] = ZmpFirst
      /\ \A i \in 1 .. Len(u) : f[i] = Grammar!ZmpByte(f[i - 1], u[i])
  <2> HIDE DEF u
  <2> QED
    BY <1>1, ZmpReadFacts
<1>3. /\ g[0] = ZmpFirst
      /\ \A i \in 1 .. n : g[i] = Grammar!ZmpByte(g[i - 1], s[i])
  BY ZmpReadFacts
<1> HIDE DEF f, g, n, u
<1>4. ASSUME NEW i \in 1 .. n, f[i - 1] = g[i - 1]
      PROVE  f[i] = g[i]
  <2>1. i \in 1 .. Len(u)
    BY <1>1
  <2> QED
    BY <1>1, <1>2, <1>3, <1>4, <2>1
<1>5. Alike(f, g, n)
  BY <1>2, <1>3, <1>4 DEF Alike
<1>6. f[n] = g[n]
  BY <1>1, <1>5, AlikeFromTheStart
<1> QED
  BY <1>6 DEF Zmp, f, g, n, u

LEMMA EnvironPrefix ==
    ASSUME NEW s \in Seq(Byte), NEW t \in Seq(Byte)
    PROVE  Grammar!EnvironRead(s \o t)[Len(s)] = Grammar!EnvironRead(s)[Len(s)]
<1> DEFINE u == s \o t
           f == Grammar!EnvironRead(u)
           g == Grammar!EnvironRead(s)
           n == Len(s)
<1>1. /\ u \in Seq(Byte) /\ Len(u) = n + Len(t) /\ n \in Nat /\ Len(t) \in Nat
      /\ \A i \in 1 .. n : u[i] = s[i]
  BY ConcatProperties
<1>2. /\ f[0] = EnvironFirst
      /\ \A i \in 1 .. Len(u) : f[i] = Grammar!EnvironByte(f[i - 1], u[i])
  <2> HIDE DEF u
  <2> QED
    BY <1>1, EnvironReadFacts
<1>3. /\ g[0] = EnvironFirst
      /\ \A i \in 1 .. n : g[i] = Grammar!EnvironByte(g[i - 1], s[i])
  BY EnvironReadFacts
<1> HIDE DEF f, g, n, u
<1>4. ASSUME NEW i \in 1 .. n, f[i - 1] = g[i - 1]
      PROVE  f[i] = g[i]
  <2>1. i \in 1 .. Len(u)
    BY <1>1
  <2> QED
    BY <1>1, <1>2, <1>3, <1>4, <2>1
<1>5. Alike(f, g, n)
  BY <1>2, <1>3, <1>4 DEF Alike
<1>6. f[n] = g[n]
  BY <1>1, <1>5, AlikeFromTheStart
<1> QED
  BY <1>6 DEF f, g, n, u

\* The bytes of an argument behind those before it.
LEMMA ArgumentAt ==
    ASSUME NEW s \in Seq(Byte), NEW t \in Seq(Byte)
    PROVE  /\ s \o Append(t, "NUL") \in Seq(Byte)
           /\ Len(s \o Append(t, "NUL")) = Len(s) + Len(t) + 1
           /\ \A i \in 1 .. Len(t) : (s \o Append(t, "NUL"))[Len(s) + i] = t[i]
           /\ (s \o Append(t, "NUL"))[Len(s) + Len(t) + 1] = "NUL"
<1> DEFINE w == Append(t, "NUL")
           u == s \o w
<1>1. "NUL" \in Byte
  BY AddedBytes DEF Added
<1>2. /\ w \in Seq(Byte) /\ Len(w) = Len(t) + 1 /\ w[Len(t) + 1] = "NUL"
      /\ \A i \in 1 .. Len(t) : w[i] = t[i]
      /\ Len(s) \in Nat /\ Len(t) \in Nat
  BY <1>1
<1> HIDE DEF w
<1>3. /\ u \in Seq(Byte) /\ Len(u) = Len(s) + Len(w)
      /\ \A i \in 1 .. Len(s) + Len(w) : u[i] = IF i <= Len(s) THEN s[i] ELSE w[i - Len(s)]
  BY <1>2, ConcatProperties
<1> HIDE DEF u
<1>4. ASSUME NEW i \in 1 .. Len(w)
      PROVE  u[Len(s) + i] = w[i]
  <2>1. Len(s) + i \in 1 .. Len(s) + Len(w) /\ ~(Len(s) + i <= Len(s)) /\ (Len(s) + i) - Len(s) = i
    BY <1>2
  <2> QED
    BY <1>3, <2>1
<1>5. Len(t) + 1 \in 1 .. Len(w) /\ \A i \in 1 .. Len(t) : i \in 1 .. Len(w)
  BY <1>2
<1>6. u[Len(s) + (Len(t) + 1)] = "NUL"
  BY <1>2, <1>4, <1>5
<1>7. Len(s) + (Len(t) + 1) = Len(s) + Len(t) + 1
  BY <1>2
<1>8. \A i \in 1 .. Len(t) : u[Len(s) + i] = t[i]
  BY <1>2, <1>4, <1>5
<1> QED
  BY <1>2, <1>3, <1>6, <1>7, <1>8 DEF u, w

\* The arguments that end in a NUL each are read as they were written.
LEMMA ZmpInverse ==
    ASSUME NEW a \in Seq(Strings), a # <<>>
    PROVE  Grammar!Meaning("ZMP", FlattenSeq(Arguments(a))) = [kind |-> "zmp", argv |-> a]
<1> DEFINE t == Arguments(a)
           n == Len(a)
           s == FlattenSeq(t)
<1>1. /\ t \in Seq(Seq(Byte)) /\ Len(t) = n /\ n \in Nat \ {0}
      /\ \A k \in 1 .. n : t[k] = Append(a[k], "NUL") /\ a[k] \in Seq(Byte \ {"NUL"}) /\ a[k] \in Seq(Byte)
  BY ArgumentsFacts, StringType, EmptySeq DEF Strings
<1>2. PICK g : Joins(g, t, Byte)
  BY <1>1, JoinExists
<1> HIDE DEF t
<1>3. /\ g \in [0 .. n -> Seq(Byte)] /\ g[0] = <<>>
      /\ \A k \in 1 .. n : g[k] = g[k - 1] \o Append(a[k], "NUL")
  BY <1>1, <1>2 DEF Joins
<1>4. s = g[n] /\ s \in Seq(Byte)
  <2>1. s = g[n]
    BY <1>1, <1>2, FlattenIs
  <2>2. n \in 0 .. n
    BY <1>1
  <2> HIDE DEF s, n
  <2>3. g[n] \in Seq(Byte)
    BY <1>3, <2>2
  <2> QED
    BY <2>1, <2>3
<1> DEFINE T == {k \in 0 .. n : /\ Zmp(g[k], Len(g[k])).argv = SubSeq(a, 1, k)
                                /\ Zmp(g[k], Len(g[k])).arg = <<>>
                                /\ k > 0 => Len(g[k]) > 0 /\ g[k][Len(g[k])] = "NUL"}
<1> HIDE DEF s, n
<1>5. 0 \in T
  <2>1. Len(g[0]) = 0 /\ g[0] \in Seq(Byte)
    BY <1>1, <1>3
  <2>2. Zmp(g[0], 0) = ZmpFirst
    BY <2>1, ZmpFacts
  <2>3. SubSeq(a, 1, 0) = <<>>
    OBVIOUS
  <2> QED
    BY <1>1, <2>1, <2>2, <2>3 DEF ZmpFirst
<1>6. ASSUME NEW k \in 1 .. n, k - 1 \in T
      PROVE  k \in T
  <2> DEFINE p == g[k - 1]
             b == a[k]
             q == p \o Append(b, "NUL")
             e == Len(p) + Len(b)
  <2>1. /\ k - 1 \in 0 .. n /\ k \in 0 .. n /\ p \in Seq(Byte) /\ b \in Seq(Byte)
        /\ b \in Seq(Byte \ {"NUL"}) /\ g[k] = q
    <3>1. k - 1 \in 0 .. n /\ k \in 0 .. n
      BY <1>1
    <3>2. b \in Seq(Byte) /\ b \in Seq(Byte \ {"NUL"})
      BY <1>1
    <3>3. g[k] = q
      BY <1>3
    <3>4. p \in Seq(Byte)
      BY <1>3, <3>1
    <3> QED
      BY <3>1, <3>2, <3>3, <3>4
  <2>2. Zmp(p, Len(p)).argv = SubSeq(a, 1, k - 1) /\ Zmp(p, Len(p)).arg = <<>>
    BY <1>6
  <2>3. SubSeq(a, 1, k) = Append(SubSeq(a, 1, k - 1), b)
    BY <1>1, <2>1 DEF n
  <2> HIDE DEF p, b
  <2>4. /\ q \in Seq(Byte) /\ Len(q) = Len(p) + Len(b) + 1 /\ q[e + 1] = "NUL"
        /\ \A i \in 1 .. Len(b) : q[Len(p) + i] = b[i]
    BY <2>1, ArgumentAt
  <2>5. Zmp(q, Len(p)) = Zmp(p, Len(p))
    <3> DEFINE w == Append(b, "NUL")
    <3>1. w \in Seq(Byte)
      <4>1. "NUL" \in Byte
        BY AddedBytes DEF Added
      <4> QED
        BY <2>1, <4>1
    <3> HIDE DEF w
    <3>2. Zmp(p \o w, Len(p)) = Zmp(p, Len(p))
      BY <2>1, <3>1, ZmpPrefix
    <3> QED
      BY <3>2 DEF w
  <2> HIDE DEF q
  <2>6. /\ Len(p) \in Nat /\ Len(b) \in Nat /\ e \in Nat /\ Len(p) <= e /\ e < Len(q)
        /\ e - Len(p) = Len(b) /\ e + 1 = Len(q)
    BY <2>1, <2>4
  <2> HIDE DEF e
  <2>7. \A i \in 1 .. Len(b) : b[i] # "NUL"
    BY <2>1, ElementOfSeq
  <2>8. /\ Zmp(q, e + 1).argv = Append(Zmp(q, Len(p)).argv, SubSeq(q, Len(p) + 1, e))
        /\ Zmp(q, e + 1).arg = <<>>
    <3>1. \A i \in 1 .. e - Len(p) : q[Len(p) + i] # "NUL"
      BY <2>4, <2>6, <2>7
    <3>2. Zmp(q, Len(p)).arg = <<>>
      BY <2>2, <2>5
    <3> QED
      BY <2>4, <2>6, <3>1, <3>2, ZmpRun
  <2>9. SubSeq(q, Len(p) + 1, e) = b
    <3> DEFINE w == SubSeq(q, Len(p) + 1, e)
    <3>1. w \in Seq(Byte) /\ Len(w) = Len(b) /\ \A j \in 1 .. Len(b) : w[j] = q[Len(p) + j]
      BY <2>4, <2>6, SubSeqCut
    <3> HIDE DEF w
    <3>2. w = b
      BY <2>1, <2>4, <3>1, SeqEqual
    <3> QED
      BY <3>2 DEF w
  <2>10. Zmp(q, Len(q)).argv = SubSeq(a, 1, k) /\ Zmp(q, Len(q)).arg = <<>>
    BY <2>2, <2>3, <2>5, <2>6, <2>8, <2>9
  <2>11. Len(q) > 0 /\ q[Len(q)] = "NUL"
    BY <2>4, <2>6
  <2> QED
    BY <2>1, <2>10, <2>11
<1> HIDE DEF T
<1>7. \A k \in 0 .. n : k \in T
  BY <1>1, <1>5, <1>6, SetInduction
<1>8. n \in 0 .. n /\ n > 0
  BY <1>1
<1>9. Zmp(s, Len(s)).argv = SubSeq(a, 1, n) /\ Len(s) > 0 /\ s[Len(s)] = "NUL"
  BY <1>4, <1>7, <1>8 DEF T
<1>10. SubSeq(a, 1, n) = a
  BY DEF n
<1>11. s # <<>>
  BY <1>4, <1>9
<1>12. Grammar!ZmpArguments(s) = a
  BY <1>9, <1>10 DEF Grammar!ZmpArguments, Zmp
<1> QED
  BY <1>9, <1>11, <1>12, MeaningOfZmp DEF s, t

\* The bytes of a variable's part of a payload.
LEMMA PartAt ==
    ASSUME NEW v \in Given
    PROVE  /\ Part(v) \in Seq(Byte) /\ Len(Part(v)) = Len(v.var) + Len(v.value) + 2
           /\ v.var \in Seq(Byte) /\ v.value \in Seq(Byte) /\ v.type \in {VAR, USERVAR}
           /\ Part(v)[1] = v.type /\ Part(v)[Len(v.var) + 2] = VALUE
           /\ \A i \in 1 .. Len(v.var) : Part(v)[i + 1] = v.var[i]
           /\ \A i \in 1 .. Len(v.value) : Part(v)[Len(v.var) + 2 + i] = v.value[i]
<1> DEFINE x == <<v.type>>
           y == v.var
           z == <<VALUE>>
           w == v.value
           p == x \o y
           q == p \o z
           u == q \o w
           m == Len(y)
<1>1. /\ v.type \in {VAR, USERVAR} /\ v.var \in Strings /\ v.value \in Strings
      /\ v.type \in Byte /\ VALUE \in Byte
  <2>1. "NUL" \in Byte /\ "SOH" \in Byte /\ "ETX" \in Byte
    BY AddedBytes DEF Added
  <2> QED
    BY <2>1 DEF Given, VAR, USERVAR, VALUE
<1>2. /\ x \in Seq(Byte) /\ Len(x) = 1 /\ x[1] = v.type
      /\ z \in Seq(Byte) /\ Len(z) = 1 /\ z[1] = VALUE
      /\ y \in Seq(Byte) /\ w \in Seq(Byte) /\ m \in Nat /\ Len(w) \in Nat
  BY <1>1, StringType
<1>3. Part(v) = u
  BY DEF Part
<1> HIDE DEF x, y, z, w, m
<1>4. /\ p \in Seq(Byte) /\ Len(p) = 1 + m
      /\ \A i \in 1 .. 1 + m : p[i] = IF i <= 1 THEN x[i] ELSE y[i - 1]
  <2>1. /\ p \in Seq(Byte) /\ Len(p) = Len(x) + Len(y)
        /\ \A i \in 1 .. Len(x) + Len(y) : p[i] = IF i <= Len(x) THEN x[i] ELSE y[i - Len(x)]
    BY <1>2, ConcatProperties
  <2> HIDE DEF p
  <2> QED
    BY <1>2, <2>1 DEF m
<1> HIDE DEF p
<1>5. /\ q \in Seq(Byte) /\ Len(q) = m + 2
      /\ \A i \in 1 .. m + 2 : q[i] = IF i <= 1 + m THEN p[i] ELSE z[i - (1 + m)]
  <2>1. /\ q \in Seq(Byte) /\ Len(q) = Len(p) + Len(z)
        /\ \A i \in 1 .. Len(p) + Len(z) : q[i] = IF i <= Len(p) THEN p[i] ELSE z[i - Len(p)]
    BY <1>2, <1>4, ConcatProperties
  <2> HIDE DEF q
  <2>2. (1 + m) + 1 = m + 2
    BY <1>2
  <2> QED
    BY <1>2, <1>4, <2>1, <2>2
<1> HIDE DEF q
<1>6. /\ u \in Seq(Byte) /\ Len(u) = (m + 2) + Len(w)
      /\ \A i \in 1 .. (m + 2) + Len(w) : u[i] = IF i <= m + 2 THEN q[i] ELSE w[i - (m + 2)]
  <2>1. /\ u \in Seq(Byte) /\ Len(u) = Len(q) + Len(w)
        /\ \A i \in 1 .. Len(q) + Len(w) : u[i] = IF i <= Len(q) THEN q[i] ELSE w[i - Len(q)]
    BY <1>2, <1>5, ConcatProperties
  <2> HIDE DEF u
  <2> QED
    BY <1>2, <1>5, <2>1
<1> HIDE DEF u
<1>7. u[1] = v.type
  <2>1. 1 \in 1 .. 1 + m /\ 1 \in 1 .. m + 2 /\ 1 <= 1 + m /\ 1 <= m + 2 /\ 1 \in 1 .. (m + 2) + Len(w)
    BY <1>2
  <2> QED
    BY <1>2, <1>4, <1>5, <1>6, <2>1
<1>8. u[m + 2] = VALUE
  <2>1. /\ m + 2 \in 1 .. m + 2 /\ m + 2 <= m + 2 /\ m + 2 \in 1 .. (m + 2) + Len(w)
        /\ ~(m + 2 <= 1 + m) /\ (m + 2) - (1 + m) = 1
    BY <1>2
  <2> QED
    BY <1>2, <1>5, <1>6, <2>1
<1>9. ASSUME NEW i \in 1 .. m
      PROVE  u[i + 1] = y[i]
  <2>1. /\ i + 1 \in 1 .. 1 + m /\ i + 1 \in 1 .. m + 2 /\ i + 1 <= 1 + m /\ i + 1 <= m + 2
        /\ i + 1 \in 1 .. (m + 2) + Len(w) /\ ~(i + 1 <= 1) /\ (i + 1) - 1 = i
    BY <1>2
  <2> QED
    BY <1>4, <1>5, <1>6, <2>1
<1>10. ASSUME NEW i \in 1 .. Len(w)
       PROVE  u[(m + 2) + i] = w[i]
  <2>1. /\ (m + 2) + i \in 1 .. (m + 2) + Len(w) /\ ~((m + 2) + i <= m + 2) /\ ((m + 2) + i) - (m + 2) = i
    BY <1>2
  <2> QED
    BY <1>6, <2>1
<1>11. Len(u) = m + Len(w) + 2
  BY <1>2, <1>6
<1> QED
  BY <1>1, <1>2, <1>3, <1>6, <1>7, <1>8, <1>9, <1>10, <1>11 DEF m, y, w

\* A description with the text s on one side; on the other is x, or nothing yet.
Grown(type, side, x, s) ==
    IF side = "var" THEN Grammar!Variable(type, s, <<>>) ELSE Grammar!Variable(type, x, s)

LEMMA GrownType ==
    ASSUME NEW type \in Byte, NEW side \in {"var", "value"}, NEW x \in Seq(Byte), NEW s \in Seq(Byte)
    PROVE  Grown(type, side, x, s) \in Described
<1>1. <<>> \in Seq(Byte)
  OBVIOUS
<1> QED
  BY <1>1, VariableType DEF Grown

\* A byte more for the variable that is described last.
LEMMA ExtendedLast ==
    ASSUME NEW u \in Seq(Described), NEW type \in Byte, NEW side \in {"var", "value"},
           NEW x \in Seq(Byte), NEW s \in Seq(Byte), NEW b \in Byte
    PROVE  Grammar!Extended(Append(u, Grown(type, side, x, s)), side, b)
              = Append(u, Grown(type, side, x, Append(s, b)))
<1> DEFINE d == Grown(type, side, x, s)
           e == Grown(type, side, x, Append(s, b))
           v == Append(u, d)
           w == Append(u, e)
           n == Len(u) + 1
           r == Grammar!Extended(v, side, b)
<1>1. Append(s, b) \in Seq(Byte) /\ <<>> \in Seq(Byte)
  OBVIOUS
<1>2. /\ d \in Described /\ e \in Described
      /\ d.type = e.type
      /\ e.var = IF side = "var" THEN Append(d.var, b) ELSE d.var
      /\ e.value = IF side = "value" THEN Append(d.value, b) ELSE d.value
  <2>1. d \in Described /\ e \in Described
    BY <1>1, GrownType
  <2> DEFINE y == Append(s, b)
             o == <<>>
  <2>2. y \in Seq(Byte) /\ o \in Seq(Byte)
    BY <1>1
  <2>3. CASE side = "var"
    <3>1. d = Grammar!Variable(type, s, o) /\ e = Grammar!Variable(type, y, o)
      BY <2>3 DEF Grown
    <3> HIDE DEF d, e, y, o
    <3>2. d.type = type /\ d.var = s /\ d.value = o /\ e.type = type /\ e.var = y /\ e.value = o
      BY <2>2, <3>1, VariableType
    <3> QED
      BY <2>1, <2>3, <3>2 DEF y
  <2>4. CASE side = "value"
    <3>1. d = Grammar!Variable(type, x, s) /\ e = Grammar!Variable(type, x, y) /\ side # "var"
      BY <2>4 DEF Grown
    <3> HIDE DEF d, e, y
    <3>2. d.type = type /\ d.var = x /\ d.value = s /\ e.type = type /\ e.var = x /\ e.value = y
      BY <2>2, <3>1, VariableType
    <3> QED
      BY <2>1, <2>4, <3>1, <3>2 DEF y
  <2> QED
    BY <2>3, <2>4
<1> HIDE DEF d, e
<1>3. /\ v \in Seq(Described) /\ Len(v) = n /\ v[n] = d /\ \A k \in 1 .. n - 1 : v[k] = u[k]
      /\ w \in Seq(Described) /\ Len(w) = n /\ w[n] = e /\ \A k \in 1 .. n - 1 : w[k] = u[k]
      /\ n \in Nat \ {0}
  BY <1>2
<1> HIDE DEF v, w, n
<1>4. /\ r \in Seq(Described) /\ Len(r) = n
      /\ \A k \in 1 .. n - 1 : r[k] = v[k]
      /\ r[n].type = d.type
      /\ r[n].var = IF side = "var" THEN Append(d.var, b) ELSE d.var
      /\ r[n].value = IF side = "value" THEN Append(d.value, b) ELSE d.value
  <2>1. Len(v) > 0 /\ v \in Seq(Described)
    BY <1>3
  <2>2. /\ r \in Seq(Described) /\ Len(r) = Len(v)
        /\ \A k \in 1 .. Len(v) - 1 : r[k] = v[k]
        /\ r[Len(v)].type = v[Len(v)].type
        /\ r[Len(v)].var = IF side = "var" THEN Append(v[Len(v)].var, b) ELSE v[Len(v)].var
        /\ r[Len(v)].value = IF side = "value" THEN Append(v[Len(v)].value, b) ELSE v[Len(v)].value
    BY <2>1, ExtendedFacts
  <2> HIDE DEF r
  <2> QED
    BY <1>3, <2>2
<1> HIDE DEF r
<1>5. r[n] = e
  <2>1. r[n] \in Described
    <3>1. n \in 1 .. n
      BY <1>3
    <3> QED
      BY <1>4, <3>1, ElementOfSeq
  <2>2. r[n].type = e.type /\ r[n].var = e.var /\ r[n].value = e.value
    BY <1>2, <1>4
  <2> DEFINE f == r[n]
  <2>3. f \in Described /\ f.type = e.type /\ f.var = e.var /\ f.value = e.value
    BY <2>1, <2>2
  <2> HIDE DEF f
  <2>4. f = e
    <3>1. f = [type |-> f.type, var |-> f.var, value |-> f.value]
      BY <2>3 DEF Described
    <3>2. e = [type |-> e.type, var |-> e.var, value |-> e.value]
      BY <1>2 DEF Described
    <3> QED
      BY <2>3, <3>1, <3>2
  <2> QED
    BY <2>4 DEF f
<1>6. \A k \in 1 .. Len(r) : r[k] = w[k]
  <2>1. \A k \in 1 .. n : k \in 1 .. n - 1 \/ k = n
    BY <1>3
  <2> QED
    BY <1>3, <1>4, <1>5, <2>1
<1>7. r = w
  BY <1>3, <1>4, <1>6, SeqEqual
<1> QED
  BY <1>7 DEF r, v, w, d, e

\* The grammar between two codes, without an escape.
State(v, side) == [vars |-> v, side |-> side, escaped |-> FALSE]

\* Behind i bytes of s there is a t.
TextAt(s, i, t) == i + Len(t) <= Len(s) /\ \A j \in 1 .. Len(t) : s[i + j] = t[j]

\* A text without the codes that end or escape.
Textual(t, side) ==
    \A j \in 1 .. Len(t) : t[j] \notin {VAR, USERVAR, ESC} /\ (side = "var" => t[j] # VALUE)

\* Such a text is read into the side that is being read.
LEMMA EnvironReadsText ==
    ASSUME NEW s \in Seq(Byte), NEW i \in Nat, NEW t \in Seq(Byte), TextAt(s, i, t),
           NEW u \in Seq(Described), NEW type \in Byte, NEW side \in {"var", "value"}, NEW x \in Seq(Byte),
           Grammar!EnvironRead(s)[i] = State(Append(u, Grown(type, side, x, <<>>)), side),
           Textual(t, side)
    PROVE  Grammar!EnvironRead(s)[i + Len(t)] = State(Append(u, Grown(type, side, x, t)), side)
<1> DEFINE h == Grammar!EnvironRead(s)
           n == Len(t)
           text(j) == SubSeq(t, 1, j)
           after(j) == State(Append(u, Grown(type, side, x, text(j))), side)
           T == {j \in 0 .. n : h[i + j] = after(j)}
<1>1. n \in Nat /\ Len(s) \in Nat /\ i + n <= Len(s) /\ \A j \in 1 .. n : s[i + j] = t[j]
  BY DEF TextAt
<1>2. \A j \in 1 .. Len(s) : h[j] = Grammar!EnvironByte(h[j - 1], s[j])
  BY EnvironReadFacts
<1>3. text(0) = <<>> /\ text(n) = t
  OBVIOUS
<1>4. ASSUME NEW j \in 1 .. n
      PROVE  /\ text(j) = Append(text(j - 1), t[j]) /\ text(j - 1) \in Seq(Byte) /\ t[j] \in Byte
             /\ i + j \in 1 .. Len(s) /\ (i + j) - 1 = i + (j - 1)
  <2>1. t[j] \in Byte /\ i + j \in 1 .. Len(s) /\ (i + j) - 1 = i + (j - 1)
    BY <1>1, ElementOfSeq
  <2>2. text(j) = Append(text(j - 1), t[j])
    BY <1>1
  <2>3. text(j - 1) \in Seq(Byte)
    <3>1. \A k \in 1 .. j - 1 : t[k] \in Byte
      BY <1>1, ElementOfSeq
    <3> QED
      BY <1>1, <3>1, SubSeqProperties
  <2> QED
    BY <2>1, <2>2, <2>3
<1> HIDE DEF h, n, text
<1>5. 0 \in T
  <2>1. i + 0 = i /\ h[i] = State(Append(u, Grown(type, side, x, <<>>)), side)
    BY DEF h
  <2> QED
    BY <1>1, <1>3, <2>1
<1>6. ASSUME NEW j \in 1 .. n, j - 1 \in T
      PROVE  j \in T
  <2> DEFINE y == text(j - 1)
             b == t[j]
             a == State(Append(u, Grown(type, side, x, y)), side)
  <2>1. y \in Seq(Byte) /\ b \in Byte /\ text(j) = Append(y, b)
    BY <1>4
  <2>2. h[i + (j - 1)] = a
    BY <1>6
  <2>3. h[i + j] = Grammar!EnvironByte(a, s[i + j]) /\ s[i + j] = b
    BY <1>1, <1>2, <1>4, <2>2
  <2>4. b \notin {VAR, USERVAR, ESC} /\ (side = "var" => b # VALUE)
    BY DEF Textual, n
  <2> HIDE DEF y, b
  <2> DEFINE v == Append(u, Grown(type, side, x, y))
  <2>5. v \in Seq(Described)
    <3>1. Grown(type, side, x, y) \in Described
      BY <2>1, GrownType
    <3> QED
      BY <3>1
  <2>6. Grammar!Extended(v, side, b) = Append(u, Grown(type, side, x, Append(y, b)))
    BY SMTT(60), <2>1, ExtendedLast
  <2> HIDE DEF v
  <2>7. a = State(v, side)
    BY DEF v
  <2>8. /\ a \in EnvironState /\ ~a.escaped /\ a.side = side /\ a.vars = v
    BY <2>5, <2>7 DEF State, EnvironState
  <2> HIDE DEF a
  <2>9. Grammar!EnvironByte(a, b) = State(Grammar!Extended(v, side, b), side)
    BY <2>4, <2>8, EnvironText DEF State
  <2>10. h[i + j] = after(j)
    BY <2>1, <2>3, <2>6, <2>9
  <2> QED
    BY <1>1, <2>10
<1> HIDE DEF T
<1>7. \A j \in 0 .. n : j \in T
  BY <1>1, <1>5, <1>6, SetInduction
<1>8. h[i + n] = after(n)
  <2>1. n \in 0 .. n
    BY <1>1
  <2> QED
    BY <1>7, <2>1 DEF T
<1> QED
  BY <1>3, <1>8 DEF h, n

\* The strings of a variable hold no code that would be read as such.
Clean(v) ==
    /\ v \in Given
    /\ ~HasAny(v.var, {VALUE, ESC, USERVAR}) /\ ~HasAny(v.value, {ESC, USERVAR})

LEMMA CleanFacts ==
    ASSUME NEW v, Clean(v)
    PROVE  /\ \A j \in 1 .. Len(v.var) : v.var[j] \notin {VAR, USERVAR, ESC} /\ v.var[j] # VALUE
           /\ \A j \in 1 .. Len(v.value) : v.value[j] \notin {VAR, USERVAR, ESC}
           /\ v = Grammar!Variable(v.type, v.var, v.value) /\ v \in Described
           /\ \A j \in 1 .. Len(v.var) : v.var[j] # "NUL"
           /\ \A j \in 1 .. Len(v.value) : v.value[j] # "NUL"
<1>1. /\ v \in Given /\ v.type \in Byte /\ v.var \in Seq(Byte \ {"NUL"}) /\ v.value \in Seq(Byte \ {"NUL"})
      /\ v.var \in Seq(Byte) /\ v.value \in Seq(Byte)
  <2>1. "NUL" \in Byte /\ "ETX" \in Byte
    BY AddedBytes DEF Added
  <2>2. v \in Given /\ v.type \in Byte /\ v.var \in Strings /\ v.value \in Strings
    BY <2>1 DEF Clean, Given, VAR, USERVAR
  <2> QED
    BY <2>2, StringType DEF Strings
<1>2. \A j \in 1 .. Len(v.var) : v.var[j] # "NUL" /\ j \in DOMAIN v.var
  BY <1>1, ElementOfSeq
<1>3. \A j \in 1 .. Len(v.value) : v.value[j] # "NUL" /\ j \in DOMAIN v.value
  BY <1>1, ElementOfSeq
<1>4. v = [type |-> v.type, var |-> v.var, value |-> v.value]
  BY <1>1 DEF Given
<1>5. v \in Described
  BY <1>1, <1>4 DEF Described
<1>6. v = Grammar!Variable(v.type, v.var, v.value)
  BY <1>4 DEF Grammar!Variable
<1>7. \A j \in 1 .. Len(v.var) : v.var[j] \notin {VALUE, ESC, USERVAR}
  BY <1>2 DEF Clean, HasAny
<1>8. \A j \in 1 .. Len(v.value) : v.value[j] \notin {ESC, USERVAR}
  BY <1>3 DEF Clean, HasAny
<1> QED
  BY <1>2, <1>3, <1>5, <1>6, <1>7, <1>8 DEF VAR

\* A part of the payload adds its variable to those read before.
LEMMA EnvironReadsPart ==
    ASSUME NEW p \in Seq(Byte), NEW v, Clean(v), NEW u \in Seq(Described), NEW side \in {"var", "value"},
           Grammar!EnvironRead(p)[Len(p)] = State(u, side)
    PROVE  LET q == p \o Part(v)
           IN  /\ q \in Seq(Byte) /\ Len(q) = Len(p) + Len(Part(v))
               /\ Grammar!EnvironRead(q)[Len(q)] = State(Append(u, v), "value")
<1> DEFINE q == p \o Part(v)
           h == Grammar!EnvironRead(q)
           n == Len(p)
           x == v.var
           y == v.value
           m == Len(x)
           l == Len(y)
           type == v.type
           w == Part(v)
           o == <<>>
<1>1. /\ w \in Seq(Byte) /\ Len(w) = m + l + 2
      /\ x \in Seq(Byte) /\ y \in Seq(Byte) /\ type \in {VAR, USERVAR}
      /\ w[1] = type /\ w[m + 2] = VALUE
      /\ \A i \in 1 .. m : w[i + 1] = x[i]
      /\ \A i \in 1 .. l : w[m + 2 + i] = y[i]
  BY PartAt DEF Clean
<1>2. n \in Nat /\ m \in Nat /\ l \in Nat /\ type \in Byte /\ o \in Seq(Byte) /\ VALUE \in Byte
  <2>1. "NUL" \in Byte /\ "ETX" \in Byte /\ "SOH" \in Byte
    BY AddedBytes DEF Added
  <2> QED
    BY <1>1, <2>1 DEF VAR, USERVAR, VALUE
<1>3. /\ \A j \in 1 .. m : x[j] \notin {VAR, USERVAR, ESC} /\ x[j] # VALUE
      /\ \A j \in 1 .. l : y[j] \notin {VAR, USERVAR, ESC}
      /\ v = Grammar!Variable(type, x, y)
  BY CleanFacts
<1> HIDE DEF w, x, y, type, m, l, o
<1>4. /\ q \in Seq(Byte) /\ Len(q) = n + Len(w)
      /\ \A i \in 1 .. n + Len(w) : q[i] = IF i <= n THEN p[i] ELSE w[i - n]
  <2> DEFINE z == p \o w
  <2>1. z \in Seq(Byte) /\ Len(z) = n + Len(w)
        /\ \A i \in 1 .. n + Len(w) : z[i] = IF i <= n THEN p[i] ELSE w[i - n]
    BY <1>1, ConcatProperties
  <2>2. q = z
    BY DEF w
  <2> HIDE DEF q, z
  <2> QED
    BY <2>1, <2>2
<1>5. h[n] = State(u, side)
  <2>1. Grammar!EnvironRead(p \o w)[Len(p)] = Grammar!EnvironRead(p)[Len(p)]
    BY <1>1, EnvironPrefix
  <2> QED
    BY <2>1 DEF w
<1>6. \A i \in 1 .. Len(q) : h[i] = Grammar!EnvironByte(h[i - 1], q[i])
  <2> HIDE DEF q
  <2> QED
    BY <1>4, EnvironReadFacts
<1> HIDE DEF h, q, n
<1>7. \A i \in 1 .. Len(w) : q[n + i] = w[i] /\ n + i \in 1 .. Len(q)
  <2> TAKE i \in 1 .. Len(w)
  <2>1. n + i \in 1 .. n + Len(w) /\ ~(n + i <= n) /\ (n + i) - n = i
    BY <1>1, <1>2
  <2> QED
    BY <1>4, <2>1
<1>8. h[n + 1] = State(Append(u, Grown(type, "var", o, o)), "var")
  <2> DEFINE a == State(u, side)
  <2>1. a \in EnvironState /\ ~a.escaped /\ a.vars = u
    BY DEF State, EnvironState
  <2>2. q[n + 1] = type /\ n + 1 \in 1 .. Len(q) /\ (n + 1) - 1 = n
    <3>1. 1 \in 1 .. Len(w)
      BY <1>1, <1>2
    <3> QED
      BY <1>1, <1>2, <1>7, <3>1
  <2>3. h[n + 1] = Grammar!EnvironByte(a, type)
    BY <1>5, <1>6, <2>2
  <2> HIDE DEF a
  <2>4. Grammar!EnvironByte(a, type) =
           [vars |-> Append(a.vars, Grammar!Variable(type, o, o)), side |-> "var", escaped |-> FALSE]
    BY <1>1, <2>1, EnvironVariable DEF o
  <2> QED
    BY <2>1, <2>3, <2>4 DEF State, Grown, o
<1>9. h[n + 1 + m] = State(Append(u, Grown(type, "var", o, x)), "var")
  <2>1. n + 1 \in Nat /\ (n + 1) + m <= Len(q) /\ n + 1 + m = (n + 1) + m
    BY <1>1, <1>2, <1>4
  <2>2. \A j \in 1 .. m : q[(n + 1) + j] = x[j]
    <3> TAKE j \in 1 .. m
    <3>1. j + 1 \in 1 .. Len(w) /\ (n + 1) + j = n + (j + 1)
      BY <1>1, <1>2
    <3> QED
      BY <1>1, <1>7, <3>1
  <2> DEFINE k == n + 1
             var_side == "var"
  <2>3. /\ k \in Nat /\ TextAt(q, k, x) /\ Textual(x, var_side)
        /\ Grammar!EnvironRead(q)[k] = State(Append(u, Grown(type, var_side, o, <<>>)), var_side)
        /\ var_side \in {"var", "value"}
    BY <1>3, <1>8, <2>1, <2>2 DEF o, m, h, TextAt, Textual
  <2>5. n + 1 + m = k + Len(x)
    BY <2>1 DEF m
  <2> HIDE DEF k, var_side
  <2>4. Grammar!EnvironRead(q)[k + Len(x)] = State(Append(u, Grown(type, var_side, o, x)), var_side)
    BY <1>1, <1>2, <1>4, <2>3, EnvironReadsText
  <2> QED
    BY <2>4, <2>5 DEF h, var_side
<1>10. h[n + m + 2] = State(Append(u, Grown(type, "value", x, o)), "value")
  <2> DEFINE r == Append(u, Grammar!Variable(type, x, o))
             a == State(r, "var")
  <2>1. r \in Seq(Described)
    <3>1. Grammar!Variable(type, x, o) \in Described
      BY <1>1, <1>2, VariableType
    <3> QED
      BY <3>1
  <2>2. h[n + 1 + m] = a
    BY <1>9 DEF Grown, o
  <2>3. State(Append(u, Grown(type, "value", x, o)), "value") = State(r, "value")
    BY DEF Grown
  <2> HIDE DEF r
  <2>4. a \in EnvironState /\ ~a.escaped /\ a.side = "var" /\ a.vars = r
    BY <2>1 DEF State, EnvironState
  <2>5. q[n + m + 2] = VALUE /\ n + m + 2 \in 1 .. Len(q) /\ (n + m + 2) - 1 = n + 1 + m
    <3>1. m + 2 \in 1 .. Len(w) /\ n + (m + 2) = n + m + 2
      BY <1>1, <1>2
    <3>2. (n + m + 2) - 1 = n + 1 + m
      BY <1>2
    <3> QED
      BY <1>1, <1>7, <3>1, <3>2
  <2>6. h[n + m + 2] = Grammar!EnvironByte(a, VALUE)
    BY <1>6, <2>2, <2>5
  <2> HIDE DEF a
  <2>7. Grammar!EnvironByte(a, VALUE) = [vars |-> a.vars, side |-> "value", escaped |-> FALSE]
    BY <2>4, EnvironSeparates
  <2> QED
    BY <2>3, <2>4, <2>6, <2>7 DEF State
<1>11. h[n + m + 2 + l] = State(Append(u, Grown(type, "value", x, y)), "value")
  <2>1. n + m + 2 \in Nat /\ (n + m + 2) + l <= Len(q) /\ n + m + 2 + l = (n + m + 2) + l
    BY <1>1, <1>2, <1>4
  <2>2. \A j \in 1 .. l : q[(n + m + 2) + j] = y[j]
    <3> TAKE j \in 1 .. l
    <3>1. m + 2 + j \in 1 .. Len(w) /\ (n + m + 2) + j = n + (m + 2 + j)
      BY <1>1, <1>2
    <3> QED
      BY <1>1, <1>7, <3>1
  <2> DEFINE k == n + m + 2
             value_side == "value"
  <2>3. /\ k \in Nat /\ TextAt(q, k, y) /\ Textual(y, value_side)
        /\ Grammar!EnvironRead(q)[k] = State(Append(u, Grown(type, value_side, x, <<>>)), value_side)
        /\ value_side \in {"var", "value"}
    BY <1>3, <1>10, <2>1, <2>2 DEF o, l, h, TextAt, Textual
  <2>5. n + m + 2 + l = k + Len(y)
    BY <2>1 DEF l
  <2> HIDE DEF k, value_side
  <2>4. Grammar!EnvironRead(q)[k + Len(y)] = State(Append(u, Grown(type, value_side, x, y)), value_side)
    BY <1>1, <1>2, <1>4, <2>3, EnvironReadsText
  <2> QED
    BY <2>4, <2>5 DEF h, value_side
<1>12. n + m + 2 + l = Len(q)
  BY <1>1, <1>2, <1>4
<1>13. Grown(type, "value", x, y) = v
  BY <1>3 DEF Grown
<1>14. Grammar!EnvironRead(q)[Len(q)] = State(Append(u, v), "value")
  BY <1>11, <1>12, <1>13 DEF h
<1> QED
  BY <1>4, <1>14 DEF q, w, n

AllClean(v) == \A k \in 1 .. Len(v) : Clean(v[k])

\* Joined, the parts are read as the variables they were written from.
LEMMA EnvironReadsParts ==
    ASSUME NEW v \in Seq(Given), AllClean(v)
    PROVE  LET s == FlattenSeq(Parts(v))
           IN  /\ s \in Seq(Byte) /\ v \in Seq(Described)
               /\ Grammar!EnvironRead(s)[Len(s)].vars = v
               /\ ~Grammar!EnvironRead(s)[Len(s)].escaped
               /\ Len(s) > 0 => s[1] \in {VAR, USERVAR} /\ s[Len(s)] # ESC
<1> DEFINE t == Parts(v)
           n == Len(v)
           s == FlattenSeq(t)
<1>1. /\ t \in Seq(Seq(Byte)) /\ Len(t) = n /\ n \in Nat
      /\ \A k \in 1 .. n : t[k] = Part(v[k]) /\ Clean(v[k])
  BY PartsFacts DEF AllClean
<1>2. PICK g : Joins(g, t, Byte)
  BY <1>1, JoinExists
<1>3. v \in Seq(Described)
  <2>1. \A k \in 1 .. n : v[k] \in Described
    BY <1>1, CleanFacts
  <2>2. v = [k \in 1 .. n |-> v[k]]
    OBVIOUS
  <2> HIDE DEF n, t
  <2>3. v \in [1 .. n -> Described]
    BY <2>1, <2>2
  <2> QED
    BY <1>1, <2>3
<1> HIDE DEF t
<1>4. /\ g \in [0 .. n -> Seq(Byte)] /\ g[0] = <<>>
      /\ \A k \in 1 .. n : g[k] = g[k - 1] \o Part(v[k])
  BY <1>1, <1>2 DEF Joins
<1>5. s = g[n] /\ s \in Seq(Byte)
  <2>1. s = g[n]
    BY <1>1, <1>2, FlattenIs
  <2>2. n \in 0 .. n
    BY <1>1
  <2> HIDE DEF s, n
  <2>3. g[n] \in Seq(Byte)
    BY <1>4, <2>2
  <2> QED
    BY <2>1, <2>3
<1> DEFINE Good(k) == /\ \E side \in {"var", "value"} :
                            Grammar!EnvironRead(g[k])[Len(g[k])] = State(SubSeq(v, 1, k), side)
                      /\ Len(g[k]) > 0 => g[k][1] \in {VAR, USERVAR} /\ g[k][Len(g[k])] # ESC
           T == {k \in 0 .. n : Good(k)}
<1> HIDE DEF s, n
<1>6. 0 \in T
  <2> DEFINE e == g[0]
  <2>1. Len(e) = 0 /\ e \in Seq(Byte)
    BY <1>1, <1>4
  <2> HIDE DEF e
  <2>2. Grammar!EnvironRead(e)[0] = EnvironFirst
    BY <2>1, EnvironReadFacts
  <2>3. SubSeq(v, 1, 0) = <<>>
    OBVIOUS
  <2>4. Grammar!EnvironRead(e)[Len(e)] = State(SubSeq(v, 1, 0), "var")
    BY <2>1, <2>2, <2>3 DEF State, EnvironFirst
  <2>5. Good(0)
    BY <2>1, <2>4 DEF e
  <2> QED
    BY <1>1, <2>5
<1>7. ASSUME NEW k \in 1 .. n, k - 1 \in T
      PROVE  k \in T
  <2> DEFINE p == g[k - 1]
             b == v[k]
             u == SubSeq(v, 1, k - 1)
             w == Part(b)
             q == p \o w
  <2>1. /\ k - 1 \in 0 .. n /\ k \in 0 .. n /\ p \in Seq(Byte) /\ g[k] = q /\ Clean(b) /\ b \in Described
        /\ b \in Given
    <3>1. k - 1 \in 0 .. n /\ k \in 0 .. n
      BY <1>1
    <3>2. Clean(b) /\ b \in Described /\ b \in Given
      BY <1>1, CleanFacts DEF Clean
    <3>3. g[k] = q
      BY <1>4
    <3>4. p \in Seq(Byte)
      BY <1>4, <3>1
    <3> QED
      BY <3>1, <3>2, <3>3, <3>4
  <2>2. SubSeq(v, 1, k) = Append(u, b) /\ u \in Seq(Described)
    <3>1. SubSeq(v, 1, k) = Append(u, b)
      BY <1>1, <1>3, <2>1 DEF n
    <3>2. \A j \in 1 .. k - 1 : v[j] \in Described
      <4>1. \A j \in 1 .. k - 1 : j \in 1 .. n
        BY <1>1
      <4> QED
        BY <1>1, <4>1, CleanFacts
    <3>3. u \in Seq(Described)
      BY <1>1, <3>2, SubSeqProperties
    <3> QED
      BY <3>1, <3>3
  <2>3. Good(k - 1)
    BY <1>7
  <2> HIDE DEF b, p, u
  <2>4. PICK side \in {"var", "value"} : Grammar!EnvironRead(p)[Len(p)] = State(u, side)
    BY <2>3 DEF p, u
  <2>5. /\ q \in Seq(Byte) /\ Len(q) = Len(p) + Len(w)
        /\ Grammar!EnvironRead(q)[Len(q)] = State(Append(u, b), "value")
    BY <2>1, <2>2, <2>4, EnvironReadsPart
  <2>6. /\ w \in Seq(Byte) /\ Len(w) = Len(b.var) + Len(b.value) + 2 /\ Len(w) \in Nat
        /\ w[1] \in {VAR, USERVAR} /\ w[Len(w)] # ESC /\ Len(w) > 0
    <3> DEFINE x == b.var
               y == b.value
    <3>1. /\ w \in Seq(Byte) /\ Len(w) = Len(x) + Len(y) + 2
          /\ x \in Seq(Byte) /\ y \in Seq(Byte) /\ b.type \in {VAR, USERVAR}
          /\ w[1] = b.type /\ w[Len(x) + 2] = VALUE
          /\ \A i \in 1 .. Len(y) : w[Len(x) + 2 + i] = y[i]
      BY <2>1, PartAt
    <3>2. \A j \in 1 .. Len(y) : y[j] # ESC
      BY <2>1, CleanFacts
    <3> HIDE DEF w, x, y
    <3>3. Len(x) \in Nat /\ Len(y) \in Nat
      BY <3>1
    <3>4. w[Len(w)] # ESC
      <4>1. CASE Len(y) = 0
        <5>1. Len(w) = Len(x) + 2
          BY <3>1, <3>3, <4>1
        <5> QED
          BY <3>1, <5>1 DEF VALUE, ESC
      <4>2. CASE Len(y) # 0
        <5>1. Len(y) \in 1 .. Len(y) /\ Len(w) = Len(x) + 2 + Len(y)
          BY <3>1, <3>3, <4>2
        <5> QED
          BY <3>1, <3>2, <5>1
      <4> QED
        BY <4>1, <4>2
    <3>5. Len(w) \in Nat /\ Len(w) > 0
      BY <3>1, <3>3
    <3>6. Len(w) = Len(b.var) + Len(b.value) + 2
      BY <3>1 DEF x, y
    <3> QED
      BY <3>1, <3>4, <3>5, <3>6
  <2> HIDE DEF w
  <2>7. \A i \in 1 .. Len(p) + Len(w) : q[i] = IF i <= Len(p) THEN p[i] ELSE w[i - Len(p)]
    BY <2>1, <2>6, ConcatProperties
  <2> HIDE DEF q
  <2>8. q[1] \in {VAR, USERVAR}
    <3>0. Len(p) \in Nat
      BY <2>1
    <3>1. 1 \in 1 .. Len(p) + Len(w) /\ Len(p) \in Nat
      <4>1. Len(w) \in Nat /\ Len(w) > 0
        BY <2>6
      <4> QED
        BY <3>0, <4>1
    <3>2. CASE Len(p) = 0
      <4>1. ~(1 <= Len(p)) /\ 1 - Len(p) = 1
        BY <3>2
      <4> QED
        BY <2>6, <2>7, <3>1, <4>1
    <3>3. CASE Len(p) > 0
      <4>1. p[1] \in {VAR, USERVAR} /\ 1 <= Len(p)
        BY <2>3, <3>1, <3>3 DEF p
      <4> QED
        BY <2>7, <3>1, <4>1
    <3> QED
      BY <3>1, <3>2, <3>3
  <2>9. q[Len(q)] # ESC
    <3>0. Len(p) \in Nat
      BY <2>1
    <3>1. Len(q) \in 1 .. Len(p) + Len(w) /\ ~(Len(q) <= Len(p)) /\ Len(q) - Len(p) = Len(w)
      <4>1. Len(w) \in Nat /\ Len(w) > 0
        BY <2>6
      <4>2. Len(q) = Len(p) + Len(w)
        BY <2>5
      <4> QED
        BY <3>0, <4>1, <4>2
    <3> QED
      BY <2>6, <2>7, <3>1
  <2>10. Good(k)
    <3>1. Grammar!EnvironRead(g[k])[Len(g[k])] = State(SubSeq(v, 1, k), "value")
      BY <2>1, <2>2, <2>5
    <3> QED
      BY <2>1, <2>8, <2>9, <3>1
  <2> QED
    BY <2>1, <2>10
<1> HIDE DEF T, Good
<1>8. \A k \in 0 .. n : k \in T
  BY <1>1, <1>6, <1>7, SetInduction
<1>9. Good(n)
  <2>1. n \in 0 .. n
    BY <1>1
  <2> QED
    BY <1>8, <2>1 DEF T
<1>10. SubSeq(v, 1, n) = v
  BY DEF n
<1>11. PICK side \in {"var", "value"} : Grammar!EnvironRead(s)[Len(s)] = State(v, side)
  BY <1>5, <1>9, <1>10 DEF Good
<1>12. Len(s) > 0 => s[1] \in {VAR, USERVAR} /\ s[Len(s)] # ESC
  BY <1>5, <1>9 DEF Good
<1>13. Grammar!EnvironRead(s)[Len(s)].vars = v /\ ~Grammar!EnvironRead(s)[Len(s)].escaped
  BY <1>11 DEF State
<1> QED
  BY <1>3, <1>5, <1>12, <1>13 DEF s, t

\* The payload for some variables, and what the event of it says.
EnvironBytes(cmd, v) == <<cmd>> \o FlattenSeq(Parts(v))

EnvironSays(cmd, v, ev) ==
    \/ ev = [kind |-> "environ", cmd |-> cmd, values |-> v]
    \/ MemoryFails /\ ev = Warning("memory")

\* What telnet_newenviron_value() writes the grammar gives back.
LEMMA EnvironInverse ==
    ASSUME NEW v \in Seq(Given), AllClean(v), NEW cmd \in {IS, SEND, INFO}, NEW ev
    PROVE  Answered("NEW_ENVIRON", EnvironBytes(cmd, v), ev) => EnvironSays(cmd, v, ev)
<1> SUFFICES ASSUME Answered("NEW_ENVIRON", EnvironBytes(cmd, v), ev)
             PROVE  EnvironSays(cmd, v, ev)
  OBVIOUS
<1> DEFINE s == EnvironBytes(cmd, v)
<1> DEFINE t == FlattenSeq(Parts(v))
           o == "NEW_ENVIRON"
<1>1. /\ t \in Seq(Byte) /\ v \in Seq(Described)
      /\ Grammar!EnvironRead(t)[Len(t)].vars = v
      /\ ~Grammar!EnvironRead(t)[Len(t)].escaped
      /\ Len(t) > 0 => t[1] \in {VAR, USERVAR} /\ t[Len(t)] # ESC
  BY EnvironReadsParts
<1> HIDE DEF t
<1>2. cmd \in Byte
  BY AddedBytes DEF Added, IS, SEND, INFO
<1>3. s \in Seq(Byte) /\ s # <<>> /\ Head(s) = cmd /\ Tail(s) = t
  BY <1>1, <1>2, ConsFacts DEF t, EnvironBytes
<1> HIDE DEF s
<1>4. /\ Len(s) \in Nat \ {0} /\ s[1] = cmd /\ Len(t) = Len(s) - 1
      /\ \A i \in 1 .. Len(s) - 1 : t[i] = s[i + 1]
  BY <1>3, TailIs
<1>5. Len(s) > 1 => s[2] = t[1] /\ s[Len(s)] = t[Len(t)] /\ Len(t) > 0
  <2> SUFFICES ASSUME Len(s) > 1
               PROVE  s[2] = t[1] /\ s[Len(s)] = t[Len(t)] /\ Len(t) > 0
    OBVIOUS
  <2>1. 1 \in 1 .. Len(s) - 1 /\ Len(s) - 1 \in 1 .. Len(s) - 1 /\ (Len(s) - 1) + 1 = Len(s) /\ 1 + 1 = 2
    BY <1>4
  <2> QED
    BY <1>4, <2>1
<1>6. Grammar!WellFormedEnviron(s)
  BY <1>1, <1>3, <1>4, <1>5 DEF Grammar!WellFormedEnviron, Grammar!EndsEscaping, IS, SEND, INFO, VAR, USERVAR
<1>7. Grammar!EnvironVariables(t) = v
  <2>1. \A k \in DOMAIN v : Grammar!Variable(v[k].type, Grammar!Truncated(v[k].var), Grammar!Truncated(v[k].value))
                              = v[k]
    <3> SUFFICES ASSUME NEW k \in 1 .. Len(v)
                 PROVE  Grammar!Variable(v[k].type, Grammar!Truncated(v[k].var), Grammar!Truncated(v[k].value))
                          = v[k]
      BY <1>1
    <3> DEFINE d == v[k]
               x == d.var
               y == d.value
    <3>1. d \in Described /\ Clean(d)
      BY <1>1, ElementOfSeq DEF AllClean
    <3>2. x \in Seq(Byte) /\ y \in Seq(Byte)
      BY <3>1 DEF Described
    <3> HIDE DEF d
    <3>3. /\ d = Grammar!Variable(d.type, d.var, d.value)
          /\ \A j \in 1 .. Len(d.var) : d.var[j] # "NUL"
          /\ \A j \in 1 .. Len(d.value) : d.value[j] # "NUL"
      BY <3>1, CleanFacts
    <3> HIDE DEF x, y
    <3>4. Grammar!Truncated(x) = x /\ Grammar!Truncated(y) = y
      BY <3>2, <3>3, NoNul DEF x, y
    <3> QED
      BY <3>3, <3>4 DEF x, y, d
  <2>2. v = [k \in DOMAIN v |-> v[k]]
    BY <1>1
  <2>3. Grammar!TruncatedVariables(v) = v
    BY <2>1, <2>2 DEF Grammar!TruncatedVariables
  <2> QED
    BY <1>1, <2>3 DEF Grammar!EnvironVariables
<1>8. Grammar!Meaning(o, s) = [kind |-> "environ", cmd |-> cmd, values |-> v]
  BY <1>3, <1>6, <1>7, MeaningOfEnviron
<1>9. Odd(o, s) => Len(s) = 1
  <2>1. Odd(o, s) => s[Len(s)] = ESC
    BY DEF Odd, Grammar!EndsInEsc, ESC
  <2> QED
    BY <1>1, <1>4, <1>5, <2>1
<1>10. \A m : Len(s) = 1 => OddReading(o, s, m) = m
  BY DEF OddReading
<1> QED
  BY <1>8, <1>9, <1>10 DEF Answered, EnvironSays, s

\* What telnet_ttype_send() and telnet_ttype_is() write.
LEMMA TtypeInverse ==
    ASSUME NEW s, NEW ev, Answered("TTYPE", s, ev)
    PROVE  /\ s = <<SEND>> => \/ ev = [kind |-> "ttype", cmd |-> SEND, name |-> "NULL"]
                              \/ MemoryFails /\ ev = Warning("memory")
           /\ \A t \in Strings : s = <<IS>> \o t =>
                  \/ ev = [kind |-> "ttype", cmd |-> IS, name |-> t]
                  \/ MemoryFails /\ ev = Warning("memory")
<1>1. /\ Answered("TTYPE", s, ev) <=> \/ ev = Grammar!Meaning("TTYPE", s)
                                      \/ MemoryFails /\ ev = Warning("memory")
  BY MeaningOfTtype DEF Answered
<1>2. ASSUME s = <<SEND>>
      PROVE  Grammar!Meaning("TTYPE", s) = [kind |-> "ttype", cmd |-> SEND, name |-> "NULL"]
  <2>1. s # <<>> /\ Head(s) = "SOH"
    BY <1>2 DEF SEND
  <2> QED
    BY <2>1, MeaningOfTtype DEF SEND
<1>3. ASSUME NEW t \in Strings, s = <<IS>> \o t
      PROVE  Grammar!Meaning("TTYPE", s) = [kind |-> "ttype", cmd |-> IS, name |-> t]
  <2>1. t \in Seq(Byte) /\ t \in Seq(Byte \ {"NUL"}) /\ IS \in Byte
    BY StringType, AddedBytes DEF Added, IS, Strings
  <2>2. s # <<>> /\ Head(s) = IS /\ Tail(s) = t
    BY <1>3, <2>1, ConsFacts
  <2>3. \A j \in 1 .. Len(t) : t[j] # "NUL"
    BY <2>1, ElementOfSeq
  <2>4. Grammar!Truncated(t) = t
    BY <2>1, <2>3, NoNul
  <2> QED
    BY <2>2, <2>4, MeaningOfTtype DEF IS
<1> QED
  BY <1>1, <1>2, <1>3

\* What telnet_zmp_arg() writes.
LEMMA ZmpAnswered ==
    ASSUME NEW a \in Seq(Strings), a # <<>>, NEW ev, Answered("ZMP", FlattenSeq(Arguments(a)), ev)
    PROVE  ev = [kind |-> "zmp", argv |-> a] \/ (MemoryFails /\ ev = Warning("memory"))
BY ZmpInverse, MeaningOfZmp DEF Answered

\* An event that answers what a helper wrote says what it wrote.
LEMMA HelperAnswered ==
    ASSUME NEW m \in Calls, m.call \in HelperCalls, Encodable(m), NEW ev,
           Answered(HelperOpt(m), Carried(m), ev)
    PROVE  ev = Written(m) \/ (MemoryFails /\ ev = Warning("memory"))
<1>1. CASE m.call = "newenviron"
  <2>1. m.vars \in Seq(Given) /\ m.cmd \in {IS, SEND, INFO}
    BY <1>1, HelperCases
  <2>2. AllClean(m.vars)
    <3> SUFFICES \A k \in 1 .. Len(m.vars) : Clean(m.vars[k])
      BY DEF AllClean
    <3> TAKE k \in 1 .. Len(m.vars)
    <3>1. k \in DOMAIN m.vars /\ m.vars[k] \in Given
      BY <2>1, ElementOfSeq
    <3> QED
      BY <1>1, <3>1 DEF Encodable, Clean
  <2>3. Carried(m) = <<m.cmd>> \o FlattenSeq(Parts(m.vars)) /\ HelperOpt(m) = "NEW_ENVIRON"
    BY <1>1, EnvironSent DEF HelperOpt
  <2>4. Written(m) = [kind |-> "environ", cmd |-> m.cmd, values |-> m.vars]
    BY <1>1 DEF Written
  <2> DEFINE v == m.vars
             cmd == m.cmd
  <2>5. v \in Seq(Given) /\ AllClean(v) /\ cmd \in {IS, SEND, INFO}
        /\ Answered("NEW_ENVIRON", EnvironBytes(cmd, v), ev)
    BY <2>1, <2>2, <2>3 DEF EnvironBytes
  <2> HIDE DEF v, cmd
  <2>6. EnvironSays(cmd, v, ev)
    BY <2>5, EnvironInverse
  <2> QED
    BY <2>4, <2>6 DEF v, cmd, EnvironSays
<1>2. CASE m.call = "ttype_send"
  <2>1. Carried(m) = <<SEND>> /\ HelperOpt(m) = "TTYPE"
    BY <1>2, TtypeSent DEF HelperOpt
  <2> QED
    BY <1>2, <2>1, TtypeInverse DEF Written
<1>3. CASE m.call = "ttype_is"
  <2>1. Carried(m) = <<IS>> \o m.bytes /\ HelperOpt(m) = "TTYPE" /\ m.bytes \in Strings
    BY <1>3, TtypeSent, HelperCases DEF HelperOpt
  <2> QED
    BY <1>3, <2>1, TtypeInverse DEF Written
<1>4. CASE m.call \in {"send_zmp", "send_vzmpv"}
  <2>1. /\ Carried(m) = FlattenSeq(Arguments(m.argv)) /\ HelperOpt(m) = "ZMP"
        /\ m.argv \in Seq(Strings) /\ m.argv # <<>>
    BY <1>4, ZmpSent, HelperCases DEF HelperOpt
  <2>2. Written(m) = [kind |-> "zmp", argv |-> m.argv]
    BY <1>4 DEF Written
  <2> QED
    BY <2>1, <2>2, ZmpAnswered
<1> QED
  BY <1>1, <1>2, <1>3, <1>4 DEF HelperCalls

-----------------------------------------------------------------------------
(* The call of a helper that is under way.                                 *)

\* Its payload is on the way, or is what the parser was handed.
AtParser(o, s) == InSubnegotiation(o, s) /\ (got # <<>> => parsed = s /\ telopt = o)

\* A helper call the encoding and the buffer at the other end hold.
Whole(m) == m.call \in HelperCalls /\ Encodable(m) /\ Len(Carried(m)) <= Payload

HelperArriving == Whole(message) => AtParser(HelperOpt(message), Carried(message))

WrittenInv == ReadsInv /\ HelperArriving

\* A helper's payload is one that a receiver keeps.
LEMMA WholeFacts ==
    ASSUME NEW m \in Messages, Whole(m)
    PROVE  /\ HelperOpt(m) \in Byte /\ HelperOpt(m) # "COMPRESS" /\ HelperOpt(m) # "none"
           /\ Carried(m) \in Seq(Byte) /\ Len(Carried(m)) <= Payload
           /\ \A mem : Encoded(m, mem) = telnet_subnegotiation(HelperOpt(m), Carried(m))
<1>1. m \in Calls /\ m.call \in HelperCalls /\ Encodable(m) /\ Len(Carried(m)) <= Payload
  BY CallKinds DEF Whole
<1>2. HelperOpt(m) \in Byte
  BY AddedBytes DEF Added, HelperOpt
<1>3. HelperOpt(m) # "COMPRESS" /\ HelperOpt(m) # "none"
  BY DEF HelperOpt
<1> QED
  BY <1>1, <1>2, <1>3, HelperSent

\* It stays so while the stream parser and the payload parser run.
LEMMA AtParserReceive ==
    ASSUME Typed, NEW o \in Byte, o # "COMPRESS", NEW s \in Seq(Byte), Len(s) <= Payload,
           AtParser(o, s), Receive
    PROVE  AtParser(o, s)'
<1>1. InSubnegotiation(o, s)'
  BY SubnegotiationReceive DEF AtParser
<1>2. got' = got /\ parsed' = parsed /\ telopt' = telopt
  BY DEF Receive, parser
<1> QED
  BY <1>1, <1>2 DEF AtParser

LEMMA AtParserHandle ==
    ASSUME Typed, NEW o \in Byte, NEW s \in Seq(Byte), AtParser(o, s), Handle
    PROVE  AtParser(o, s)'
<1> DEFINE x == Stream!Subnegotiation(o, s)
<1>1. InSubnegotiation(o, s)'
  BY SubnegotiationHandle DEF AtParser
<1>2. heard = <<x>>
  BY DEF InSubnegotiation, Handle, AtParser
<1>3. Head(heard) = x
  BY <1>2
<1>4. x.kind = "subnegotiation" /\ x.opt = o /\ x.payload = s
  BY DEF Stream!Subnegotiation
<1> HIDE DEF x
<1>5. Begin(o, s) /\ parsed' = s
  BY <1>3, <1>4 DEF Handle
<1>6. telopt' = o
  BY <1>5 DEF Begin
<1> QED
  BY <1>1, <1>5, <1>6 DEF AtParser

LEMMA AtParserParsing ==
    ASSUME NEW o, NEW s, AtParser(o, s), Parsing
    PROVE  AtParser(o, s)'
<1>1. InSubnegotiation(o, s)'
  BY SubnegotiationParsing DEF AtParser
<1>2. got # <<>> /\ parsed' = parsed
  <2>1. pc # "idle" /\ heard = heard'
    BY ParseKeeps DEF Parsing, stream
  <2>2. event = NoEvent /\ got = <<Stream!Subnegotiation(o, s)>> \o ParsedEvent
    BY <2>1 DEF AtParser, InSubnegotiation
  <2> DEFINE x == <<Stream!Subnegotiation(o, s)>>
  <2>3. x \in Seq({Stream!Subnegotiation(o, s)}) /\ x # <<>>
    OBVIOUS
  <2>4. x \o <<>> = x
    BY <2>3, ConcatEmptySeq
  <2> QED
    BY <2>2, <2>3, <2>4 DEF ParsedEvent, Parsing
<1>3. telopt' = telopt
  BY ParseKeeps DEF Parsing
<1> QED
  BY <1>1, <1>2, <1>3 DEF AtParser

\* The subnegotiation itself comes before what the parser makes of it.
LEMMA EventsNotEmpty ==
    ASSUME NEW x
    PROVE  <<x>> \o ParsedEvent # <<>>
<1> DEFINE y == <<x>>
           z == ParsedEvent
           B == {x, event}
<1>1. y \in Seq(B) /\ y # <<>>
  OBVIOUS
<1>2. z \in Seq(B)
  <2>1. <<event>> \in Seq(B) /\ <<>> \in Seq(B)
    OBVIOUS
  <2>2. z = <<event>> \/ z = <<>>
    BY DEF ParsedEvent
  <2> HIDE DEF z, B
  <2> QED
    BY <2>1, <2>2
<1> HIDE DEF y, z, B
<1>3. y \o z # <<>>
  BY <1>1, <1>2, ConcatEqualIffEmpty
<1> QED
  BY <1>3 DEF y, z

\* Each step takes a helper's payload further.
LEMMA HelperArrivingStep ==
    ASSUME Typed, HelperArriving, [Next]_vars
    PROVE  HelperArriving'
<1>1. CASE message = NoMessage /\ \E m \in Messages : Call(m)
  <2> PICK m \in Messages : Call(m)
    BY <1>1
  <2> SUFFICES ASSUME Whole(m)
               PROVE  AtParser(HelperOpt(m), Carried(m))'
    <3>1. message' = m
      BY DEF Call
    <3>2. Whole(message)' <=> Whole(m)
      BY <3>1 DEF Whole, HelperCalls, Encodable, Carried, HasAny
    <3>3. HelperOpt(message)' = HelperOpt(m) /\ Carried(message)' = Carried(m)
      BY <3>1 DEF HelperOpt, Carried
    <3> QED
      BY <3>2, <3>3 DEF HelperArriving, AtParser, InSubnegotiation, InHeader, InPayloadOf
  <2>1. /\ HelperOpt(m) \in Byte /\ Carried(m) \in Seq(Byte)
        /\ \A mem : Encoded(m, mem) = telnet_subnegotiation(HelperOpt(m), Carried(m))
    BY WholeFacts
  <2>2. PICK o \in Byte, s \in Seq(Byte) : o = HelperOpt(m) /\ s = Carried(m)
    BY <2>1
  <2>3. wire' = telnet_subnegotiation(o, s)
    BY <2>1, <2>2 DEF Call
  <2>4. mode' = "data" /\ heard' = <<>> /\ got' = <<>> /\ pc' = "idle"
    BY <1>1 DEF Call, stream, parser, Typed, CallTyped, Idle
  <2>5. InSubnegotiation(o, s)'
    BY <2>3, <2>4, SubnegotiationCalled
  <2>6. AtParser(o, s)'
    BY <2>4, <2>5 DEF AtParser
  <2> QED
    BY <2>2, <2>6 DEF AtParser, InSubnegotiation, InHeader, InPayloadOf
<1>2. CASE Forget
  <2>1. ~Whole(message)'
    BY <1>2 DEF Forget, NoMessage, Whole, HelperCalls
  <2> QED
    BY <2>1 DEF HelperArriving
<1>3. CASE Receive \/ Handle \/ Parsing \/ UNCHANGED vars
  <2>1. message' = message
    BY <1>3 DEF Receive, Handle, Parsing, vars
  <2>2. Whole(message)' <=> Whole(message)
    BY <2>1 DEF Whole, HelperCalls, Encodable, Carried, HasAny
  <2>3. HelperOpt(message)' = HelperOpt(message) /\ Carried(message)' = Carried(message)
    BY <2>1 DEF HelperOpt, Carried
  <2> SUFFICES ASSUME Whole(message), AtParser(HelperOpt(message), Carried(message))
               PROVE  AtParser(HelperOpt(message), Carried(message))'
    BY <2>2 DEF HelperArriving
  <2>4. message \in Messages
    BY DEF Typed, CallTyped, Whole, NoMessage, HelperCalls
  <2>5. /\ HelperOpt(message) \in Byte /\ HelperOpt(message) # "COMPRESS"
        /\ Carried(message) \in Seq(Byte) /\ Len(Carried(message)) <= Payload
    BY <2>4, WholeFacts
  <2>6. PICK o \in Byte, s \in Seq(Byte) : o = HelperOpt(message) /\ s = Carried(message)
    BY <2>5
  <2>7. AtParser(o, s) /\ o # "COMPRESS" /\ Len(s) <= Payload
    BY <2>5, <2>6
  <2>8. AtParser(o, s)'
    <3>1. CASE UNCHANGED vars
      BY <2>7, <3>1 DEF vars, stream, parser, AtParser, InSubnegotiation, InHeader, InPayloadOf, ParsedEvent
    <3> QED
      BY <1>3, <2>7, <3>1, AtParserReceive, AtParserHandle, AtParserParsing
  <2> QED
    BY <2>3, <2>6, <2>8 DEF AtParser, InSubnegotiation, InHeader, InPayloadOf
<1> QED
  BY <1>1, <1>2, <1>3 DEF Next

\* What the helpers are given is what the event at the other end says, whatever
\* the variables, names and arguments are, if the encoding can hold them and
\* the receiver's buffer does.
THEOREM ParsedAsWrittenHolds ==
    Spec => []ParsedAsWritten
<1>1. Init => WrittenInv
  <2>1. Init => Reading
    BY DEF Init, ParserInit, Reading
  <2>2. Init => HelperArriving
    BY DEF Init, NoMessage, Whole, HelperCalls, HelperArriving
  <2> QED
    BY <2>1, <2>2, TypedInit DEF ReadsInv, WrittenInv
<1>2. WrittenInv /\ [Next]_vars => WrittenInv'
  BY TypedStep, ReadingStep, HelperArrivingStep DEF ReadsInv, WrittenInv
<1>3. WrittenInv => ParsedAsWritten
  <2> SUFFICES ASSUME WrittenInv, Settled, Whole(message)
               PROVE  /\ mode = "data"
                      /\ event = Written(message) \/ (MemoryFails /\ event = Warning("memory"))
    BY DEF ParsedAsWritten, Whole, HelperCalls
  <2>1. message \in Messages /\ message \in Calls /\ Idle
    BY CallKinds DEF WrittenInv, ReadsInv, Typed, CallTyped, Settled
  <2>2. /\ HelperOpt(message) \in Byte /\ HelperOpt(message) # "none" /\ Carried(message) \in Seq(Byte)
    BY <2>1, WholeFacts
  <2> DEFINE o == HelperOpt(message)
             s == Carried(message)
  <2>3. o \in Byte /\ o # "none" /\ s \in Seq(Byte) /\ AtParser(o, s)
    BY <2>2 DEF WrittenInv, HelperArriving
  <2> HIDE DEF o, s
  <2>4. mode = "data" /\ got = <<Stream!Subnegotiation(o, s)>> \o ParsedEvent
    BY <2>1, <2>3, SubnegotiationArrived DEF AtParser
  <2>5. got # <<>>
    BY <2>4, EventsNotEmpty
  <2>6. parsed = s /\ telopt = o /\ pc = "idle"
    BY <2>1, <2>3, <2>5 DEF AtParser, Idle
  <2>7. Answered(o, s, event)
    BY <2>3, <2>6 DEF WrittenInv, ReadsInv, Reading
  <2>8. Answered(HelperOpt(message), Carried(message), event)
    BY <2>7 DEF o, s
  <2>9. event = Written(message) \/ (MemoryFails /\ event = Warning("memory"))
    BY <2>1, <2>8, HelperAnswered DEF Whole
  <2> QED
    BY <2>4, <2>9
<1> QED
  BY <1>1, <1>2, <1>3, PTL DEF Spec

=============================================================================
