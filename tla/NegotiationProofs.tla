------------------------- MODULE NegotiationProofs -------------------------
(***************************************************************************)
(* Proofs about two libtelnet ends on one connection, for any options, any *)
(* telopts tables, any requests of the applications and any number of      *)
(* texts in flight.                                                        *)
(***************************************************************************)
EXTENDS Negotiation, Rfc1143Proofs, FiniteSetTheorems

-----------------------------------------------------------------------------
(* The commands about one side of an option, among all that is in flight.  *)

\* The positions, in order, hold the commands of cs.
Placed(f, cs, w, o, cmds) ==
    /\ f \in [1 .. Len(cs) -> About(w, o, cmds)]
    /\ \A i, j \in 1 .. Len(cs) : i < j => f[i] < f[j]
    /\ \A k \in About(w, o, cmds) : \E i \in 1 .. Len(cs) : f[i] = k
    /\ \A i \in 1 .. Len(cs) : cs[i] = w[f[i]].cmd

Lists(cs, w, o, cmds) == \E f : Placed(f, cs, w, o, cmds)

LEMMA ListsEmpty ==
    ASSUME NEW o, NEW cmds
    PROVE  Lists(<<>>, <<>>, o, cmds)
<1> DEFINE f == [i \in 1 .. 0 |-> 0]
<1>1. Placed(f, <<>>, <<>>, o, cmds)
  BY DEF Placed, About
<1> QED
  BY <1>1 DEF Lists

\* Another packet is sent.
LEMMA ListsOtherSent ==
    ASSUME NEW o, NEW cmds, NEW cs \in Seq(NegCmd), NEW w \in Seq(Packet), NEW p \in Packet,
           Lists(cs, w, o, cmds),
           ~(p.kind = "command" /\ p.opt = o /\ p.cmd \in cmds)
    PROVE  Lists(cs, Append(w, p), o, cmds)
<1> DEFINE v == Append(w, p)
<1>1. /\ Len(w) \in Nat /\ DOMAIN w = 1 .. Len(w) /\ DOMAIN v = 1 .. Len(w) + 1
      /\ \A i \in 1 .. Len(w) : v[i] = w[i]
      /\ v[Len(w) + 1] = p
  BY AppendProperties, LenProperties
<1> HIDE DEF v
<1>2. About(v, o, cmds) = About(w, o, cmds)
  BY <1>1 DEF About
<1>3. \A k \in About(w, o, cmds) : v[k] = w[k]
  BY <1>1 DEF About
<1>4. PICK f : Placed(f, cs, w, o, cmds)
  BY DEF Lists
<1>5. \A i \in 1 .. Len(cs) : v[f[i]] = w[f[i]]
  BY <1>3, <1>4 DEF Placed
<1>6. Placed(f, cs, v, o, cmds)
  BY <1>2, <1>4, <1>5 DEF Placed
<1> QED
  BY <1>6 DEF Lists, v

\* Such a command is sent.
LEMMA ListsSent ==
    ASSUME NEW o \in Option, NEW cmds, NEW cs \in Seq(NegCmd), NEW w \in Seq(Packet),
           NEW c \in NegCmd, c \in cmds,
           Lists(cs, w, o, cmds)
    PROVE  Lists(Append(cs, c), Append(w, Command(c, o)), o, cmds)
<1> DEFINE p == Command(c, o)
           v == Append(w, p)
           ds == Append(cs, c)
           n == Len(cs) + 1
<1>0. p \in Packet /\ p.kind = "command" /\ p.opt = o /\ p.cmd = c
  BY DEF Command, Packet
<1>1. /\ Len(w) \in Nat /\ DOMAIN w = 1 .. Len(w) /\ DOMAIN v = 1 .. Len(w) + 1
      /\ \A i \in 1 .. Len(w) : v[i] = w[i]
      /\ v[Len(w) + 1] = p
  BY <1>0, AppendProperties, LenProperties
<1>2. /\ Len(cs) \in Nat /\ Len(ds) = n
      /\ \A i \in 1 .. Len(cs) : ds[i] = cs[i]
      /\ ds[n] = c
  BY AppendProperties, LenProperties
<1> HIDE DEF p, v, ds
<1>3. About(v, o, cmds) = About(w, o, cmds) \cup {Len(w) + 1}
  BY <1>0, <1>1 DEF About
<1>4. \A k \in About(w, o, cmds) : k \in 1 .. Len(w) /\ v[k] = w[k]
  BY <1>1 DEF About
<1>5. PICK f : Placed(f, cs, w, o, cmds)
  BY DEF Lists
<1> DEFINE g == [i \in 1 .. n |-> IF i = n THEN Len(w) + 1 ELSE f[i]]
<1>6. \A i \in 1 .. Len(cs) : i \in 1 .. n /\ i # n /\ g[i] = f[i] /\ f[i] \in About(w, o, cmds)
  <2>1. \A i \in 1 .. Len(cs) : f[i] \in About(w, o, cmds)
    BY <1>5 DEF Placed
  <2>2. \A i \in 1 .. Len(cs) : i \in 1 .. n /\ i # n
    BY <1>2
  <2>3. \A i \in 1 .. n : i # n => g[i] = f[i]
    OBVIOUS
  <2> QED
    BY <2>1, <2>2, <2>3
<1>7. n \in 1 .. n /\ g[n] = Len(w) + 1 /\ \A i \in 1 .. n : i = n \/ i \in 1 .. Len(cs)
  BY <1>2
<1>8. g \in [1 .. n -> About(v, o, cmds)]
  BY <1>3, <1>6, <1>7
<1> HIDE DEF g, n
<1>9. \A i, j \in 1 .. n : i < j => g[i] < g[j]
  <2> SUFFICES ASSUME NEW i \in 1 .. n, NEW j \in 1 .. n, i < j
               PROVE  g[i] < g[j]
    OBVIOUS
  <2>1. i \in 1 .. Len(cs) /\ f[i] \in 1 .. Len(w) /\ g[i] = f[i]
    BY <1>2, <1>4, <1>6, <1>7 DEF n
  <2>2. CASE j = n
    BY <1>1, <1>7, <2>1, <2>2
  <2>3. CASE j \in 1 .. Len(cs)
    BY <1>5, <1>6, <2>1, <2>3 DEF Placed
  <2> QED
    BY <1>7, <2>2, <2>3
<1>10. \A k \in About(v, o, cmds) : \E i \in 1 .. n : g[i] = k
  BY <1>3, <1>5, <1>6, <1>7 DEF Placed
<1>11. \A i \in 1 .. n : ds[i] = v[g[i]].cmd
  <2> SUFFICES ASSUME NEW i \in 1 .. n
               PROVE  ds[i] = v[g[i]].cmd
    OBVIOUS
  <2>1. CASE i = n
    BY <1>0, <1>1, <1>2, <1>7, <2>1
  <2>2. CASE i \in 1 .. Len(cs)
    BY <1>2, <1>4, <1>5, <1>6, <2>2 DEF Placed
  <2> QED
    BY <1>7, <2>1, <2>2
<1>12. Placed(g, ds, v, o, cmds)
  BY <1>2, <1>8, <1>9, <1>10, <1>11 DEF Placed
<1> QED
  BY <1>12 DEF Lists, v, ds, p

\* What taking the first packet does to the positions.
LEMMA TailPositions ==
    ASSUME NEW o, NEW cmds, NEW w \in Seq(Packet), w # <<>>
    PROVE  /\ Tail(w) \in Seq(Packet)
           /\ Head(w) = w[1] /\ Head(w) \in Packet
           /\ 1 \in About(w, o, cmds)
                 <=> Head(w).kind = "command" /\ Head(w).opt = o /\ Head(w).cmd \in cmds
           /\ About(w, o, cmds) \subseteq Nat \ {0}
           /\ \A i \in DOMAIN Tail(w) : i \in Nat \ {0} /\ i + 1 \in DOMAIN w /\ Tail(w)[i] = w[i + 1]
           /\ \A k \in Nat \ {0} : k \in About(Tail(w), o, cmds) <=> k + 1 \in About(w, o, cmds)
           /\ About(Tail(w), o, cmds) \subseteq Nat \ {0}
<1> DEFINE t == Tail(w)
<1>1. /\ Len(w) \in Nat /\ Len(w) # 0 /\ DOMAIN w = 1 .. Len(w)
      /\ t \in Seq(Packet) /\ Len(t) = Len(w) - 1 /\ DOMAIN t = 1 .. Len(w) - 1
      /\ \A i \in 1 .. Len(w) - 1 : t[i] = w[i + 1]
      /\ Head(w) = w[1] /\ Head(w) \in Packet
  BY HeadTailProperties, LenProperties, EmptySeq
<1> HIDE DEF t
<1>2. \A k \in Nat \ {0} : k \in About(t, o, cmds) <=> k + 1 \in About(w, o, cmds)
  <2> SUFFICES ASSUME NEW k \in Nat \ {0}
               PROVE  k \in About(t, o, cmds) <=> k + 1 \in About(w, o, cmds)
    OBVIOUS
  <2>1. k \in 1 .. Len(w) - 1 <=> k + 1 \in 1 .. Len(w)
    BY <1>1
  <2> QED
    BY <1>1, <2>1 DEF About
<1>3. \A i \in DOMAIN t : i \in Nat \ {0} /\ i + 1 \in DOMAIN w /\ t[i] = w[i + 1]
  BY <1>1
<1>4. 1 \in DOMAIN w
  BY <1>1
<1> QED
  BY <1>1, <1>2, <1>3, <1>4 DEF About, t

\* Another packet is received.
LEMMA ListsOtherTaken ==
    ASSUME NEW o, NEW cmds, NEW cs \in Seq(NegCmd), NEW w \in Seq(Packet), w # <<>>,
           Lists(cs, w, o, cmds), 1 \notin About(w, o, cmds)
    PROVE  Lists(cs, Tail(w), o, cmds)
<1> DEFINE t == Tail(w)
<1>1. /\ About(w, o, cmds) \subseteq Nat \ {0, 1}
      /\ \A k \in Nat \ {0} : k \in About(t, o, cmds) <=> k + 1 \in About(w, o, cmds)
      /\ About(t, o, cmds) \subseteq Nat \ {0}
  BY TailPositions
<1>2. \A k \in About(t, o, cmds) : t[k] = w[k + 1]
  BY TailPositions DEF About
<1>3. Len(cs) \in Nat
  BY LenProperties
<1> HIDE DEF t
<1>4. PICK f : Placed(f, cs, w, o, cmds)
  BY DEF Lists
<1> DEFINE g == [i \in 1 .. Len(cs) |-> f[i] - 1]
<1>5. \A i \in 1 .. Len(cs) : f[i] \in Nat /\ f[i] > 1 /\ f[i] \in About(w, o, cmds)
  <2>1. \A i \in 1 .. Len(cs) : f[i] \in About(w, o, cmds)
    BY <1>4 DEF Placed
  <2>2. \A k \in Nat \ {0, 1} : k > 1
    OBVIOUS
  <2> QED
    BY <1>1, <2>1, <2>2
<1>6. \A i \in 1 .. Len(cs) : g[i] = f[i] - 1 /\ g[i] \in Nat \ {0} /\ g[i] + 1 = f[i]
  BY <1>5
<1> HIDE DEF g
<1>7. \A i \in 1 .. Len(cs) : g[i] \in About(t, o, cmds)
  BY <1>1, <1>5, <1>6
<1>8. g \in [1 .. Len(cs) -> About(t, o, cmds)]
  BY <1>7 DEF g
<1>9. \A i, j \in 1 .. Len(cs) : i < j => g[i] < g[j]
  <2> SUFFICES ASSUME NEW i \in 1 .. Len(cs), NEW j \in 1 .. Len(cs), i < j
               PROVE  g[i] < g[j]
    OBVIOUS
  <2>1. f[i] < f[j]
    BY <1>4 DEF Placed
  <2> QED
    BY <1>5, <1>6, <2>1
<1>10. \A k \in About(t, o, cmds) : \E i \in 1 .. Len(cs) : g[i] = k
  <2> SUFFICES ASSUME NEW k \in About(t, o, cmds)
               PROVE  \E i \in 1 .. Len(cs) : g[i] = k
    OBVIOUS
  <2>1. k \in Nat /\ k + 1 \in About(w, o, cmds)
    BY <1>1
  <2>2. PICK i \in 1 .. Len(cs) : f[i] = k + 1
    BY <1>4, <2>1 DEF Placed
  <2>3. g[i] = k
    BY <1>6, <2>1, <2>2
  <2> QED
    BY <2>3
<1>11. \A i \in 1 .. Len(cs) : cs[i] = t[g[i]].cmd
  BY <1>2, <1>4, <1>6, <1>7 DEF Placed
<1>12. Placed(g, cs, t, o, cmds)
  BY <1>8, <1>9, <1>10, <1>11 DEF Placed
<1> QED
  BY <1>12 DEF Lists, t

\* Such a command is received.
LEMMA ListsTaken ==
    ASSUME NEW o, NEW cmds, NEW cs \in Seq(NegCmd), NEW w \in Seq(Packet), w # <<>>,
           Lists(cs, w, o, cmds), 1 \in About(w, o, cmds)
    PROVE  /\ cs # <<>> /\ Head(cs) = w[1].cmd
           /\ Tail(cs) \in Seq(NegCmd)
           /\ Lists(Tail(cs), Tail(w), o, cmds)
<1> DEFINE t == Tail(w)
           ds == Tail(cs)
<1>1. /\ About(w, o, cmds) \subseteq Nat \ {0}
      /\ \A k \in Nat \ {0} : k \in About(t, o, cmds) <=> k + 1 \in About(w, o, cmds)
      /\ About(t, o, cmds) \subseteq Nat \ {0}
  BY TailPositions
<1>2. \A k \in About(t, o, cmds) : t[k] = w[k + 1]
  BY TailPositions DEF About
<1>3. PICK f : Placed(f, cs, w, o, cmds)
  BY DEF Lists
<1>4. Len(cs) \in Nat
  BY LenProperties
<1>5. PICK a \in 1 .. Len(cs) : f[a] = 1
  BY <1>3 DEF Placed
<1>6. \A i \in 1 .. Len(cs) : f[i] \in Nat \ {0} /\ f[i] \in About(w, o, cmds)
  BY <1>1, <1>3 DEF Placed
<1>7. 1 \in 1 .. Len(cs) /\ a = 1
  <2>1. 1 \in 1 .. Len(cs)
    BY <1>4, <1>5
  <2>2. CASE 1 < a
    <3>1. f[1] < 1
      BY <1>3, <1>5, <2>1, <2>2 DEF Placed
    <3> QED
      BY <1>6, <2>1, <3>1
  <2>3. CASE ~(1 < a)
    BY <1>4, <1>5, <2>1, <2>3
  <2> QED
    BY <2>2, <2>3
<1>8. /\ cs # <<>> /\ Head(cs) = cs[1] /\ ds \in Seq(NegCmd) /\ Len(ds) = Len(cs) - 1
      /\ \A i \in 1 .. Len(cs) - 1 : ds[i] = cs[i + 1]
  BY <1>4, <1>7, HeadTailProperties, EmptySeq
<1>9. Head(cs) = w[1].cmd
  BY <1>3, <1>5, <1>7, <1>8 DEF Placed
<1> DEFINE n == Len(cs) - 1
           g == [i \in 1 .. n |-> f[i + 1] - 1]
<1>10. ASSUME NEW i \in 1 .. n
       PROVE  /\ i + 1 \in 1 .. Len(cs) /\ f[i + 1] \in Nat /\ f[i + 1] > 1
              /\ f[i + 1] \in About(w, o, cmds)
  <2>1. i + 1 \in 1 .. Len(cs) /\ 1 < i + 1
    BY <1>4
  <2>2. f[1] < f[i + 1]
    BY <1>3, <1>7, <2>1 DEF Placed
  <2> QED
    BY <1>5, <1>6, <1>7, <2>1, <2>2
<1>11. \A i \in 1 .. n : g[i] = f[i + 1] - 1 /\ g[i] \in Nat \ {0} /\ g[i] + 1 = f[i + 1]
  BY <1>10
<1> HIDE DEF g, t, ds
<1>12. \A i \in 1 .. n : g[i] \in About(t, o, cmds)
  BY <1>1, <1>10, <1>11
<1>13. g \in [1 .. n -> About(t, o, cmds)]
  BY <1>12 DEF g
<1>14. \A i, j \in 1 .. n : i < j => g[i] < g[j]
  <2> SUFFICES ASSUME NEW i \in 1 .. n, NEW j \in 1 .. n, i < j
               PROVE  g[i] < g[j]
    OBVIOUS
  <2>1. i + 1 < j + 1
    BY <1>4
  <2>2. f[i + 1] < f[j + 1]
    BY <1>3, <1>10, <2>1 DEF Placed
  <2> QED
    BY <1>10, <1>11, <2>2
<1>15. \A k \in About(t, o, cmds) : \E i \in 1 .. n : g[i] = k
  <2> SUFFICES ASSUME NEW k \in About(t, o, cmds)
               PROVE  \E i \in 1 .. n : g[i] = k
    OBVIOUS
  <2>1. k \in Nat \ {0} /\ k + 1 \in About(w, o, cmds)
    BY <1>1
  <2>2. PICK i \in 1 .. Len(cs) : f[i] = k + 1
    BY <1>3, <2>1 DEF Placed
  <2>3. i # 1
    BY <1>5, <1>7, <2>1, <2>2
  <2>4. i - 1 \in 1 .. n /\ (i - 1) + 1 = i
    BY <1>4, <2>3
  <2>5. g[i - 1] = k
    BY <1>11, <2>1, <2>2, <2>4
  <2> QED
    BY <2>4, <2>5
<1>16. ASSUME NEW i \in 1 .. n
       PROVE  ds[i] = t[g[i]].cmd
  <2>1. t[g[i]] = w[f[i + 1]]
    BY <1>2, <1>11, <1>12
  <2>2. cs[i + 1] = w[f[i + 1]].cmd
    BY <1>3, <1>10 DEF Placed
  <2> QED
    BY <1>8, <2>1, <2>2
<1>17. Placed(g, ds, t, o, cmds)
  BY <1>8, <1>13, <1>14, <1>15, <1>16 DEF Placed
<1> QED
  BY <1>8, <1>9, <1>17 DEF Lists, t, ds

\* None or one such command is in flight.
LEMMA ListsFew ==
    ASSUME NEW o, NEW cmds, NEW cs \in Seq(NegCmd), NEW w \in Seq(Packet),
           Lists(cs, w, o, cmds)
    PROVE  /\ Len(cs) = 0 => About(w, o, cmds) = {}
           /\ Len(cs) = 1 => \E j \in DOMAIN w : About(w, o, cmds) = {j} /\ w[j].cmd = cs[1]
<1>1. PICK f : Placed(f, cs, w, o, cmds)
  BY DEF Lists
<1>2. ASSUME Len(cs) = 0
      PROVE  About(w, o, cmds) = {}
  <2>1. \A i \in 1 .. Len(cs) : FALSE
    BY <1>2
  <2> QED
    BY <1>1, <2>1 DEF Placed
<1>3. ASSUME Len(cs) = 1
      PROVE  \E j \in DOMAIN w : About(w, o, cmds) = {j} /\ w[j].cmd = cs[1]
  <2>1. \A i : i \in 1 .. Len(cs) <=> i = 1
    BY <1>3
  <2>2. f[1] \in About(w, o, cmds) /\ cs[1] = w[f[1]].cmd
    BY <1>1, <2>1 DEF Placed
  <2>3. About(w, o, cmds) = {f[1]}
    BY <1>1, <2>1, <2>2 DEF Placed
  <2> QED
    BY <2>2, <2>3 DEF About
<1> QED
  BY <1>2, <1>3

-----------------------------------------------------------------------------
(* The inductive invariant.                                                *)

Side == {"us", "him"}

Other(s) == IF s = "us" THEN "him" ELSE "us"

\* The commands an end sends about a side of its own.
Cmds(s) == IF s = "us" THEN {"WILL", "WONT"} ELSE {"DO", "DONT"}

\* One side q of an end, the opposite side p of its peer, and what is in flight
\* about them on the stream "theirs" from p to q and on "ours" from q to p.
HalfOf(l, p, q1, theirs, ours, o, s) ==
    \E out, in \in Seq(NegCmd) :
        /\ Lists(out, theirs, o, Cmds(Other(s)))
        /\ Lists(in, ours, o, Cmds(s))
        /\ HalfState(l, p, q1, out, in)

\* The end that may lose its request is the one that asks: the half of side s
\* of n is asked for by n or by its peer.
Asker(n, s) == IF s = "us" THEN Peer(n) ELSE n

Half(n, s, o) ==
    HalfOf(lost[Asker(n, s)][o], q[Peer(n)][o][Other(s)], q[n][o][s],
           wire[Peer(n)], wire[n], o, s)

Halves == \A n \in Node, s \in Side, o \in Option : Half(n, s, o)

\* The table of an end or its application allows it a side of an option.
May(n, s, o) ==
    \/ (IF s = "us" THEN "LOCAL" ELSE "REMOTE") \in telopts[n][o]
    \/ <<n, IF s = "us" THEN "WILL" ELSE "DO", o>> \in AppCmds

\* Nothing is asked for, agreed to or on unless it is allowed.
Allowed ==
    /\ \A n \in Node, s \in Side, o \in Option : q[n][o][s] # "NO" => May(n, s, o)
    /\ \A n \in Node, s \in Side, o \in Option :
          q[n][o][s] = "YES" => May(Peer(n), Other(s), o)
    /\ \A n \in Node : \A i \in DOMAIN wire[n] :
          wire[n][i].kind = "command" /\ Affirms(wire[n][i].cmd)
              => May(n, AskedSide(wire[n][i].cmd), wire[n][i].opt)

\* The flags are those of the state of BINARY.
FlagsDerived ==
    \A n \in Node : flags[n] = IF BINARY \in Option THEN BinaryFlags(q[n][BINARY]) ELSE {}

\* The offers of BINARY in flight before the k-th packet.
Prior(w, k) == About(w, BINARY, {"WILL", "WONT"}) \cap 1 .. k

\* A text sent by a settled end is encoded as the reader will decode it, once
\* the reader has read the one offer that may precede it.
TextMeant(w, k, binary, him) ==
    \/ Prior(w, k) = {} /\ (Awaits(him) \/ (him = "YES" <=> binary))
    \/ \E j \in DOMAIN w : /\ Prior(w, k) = {j}
                           /\ Awaits(him) /\ Fits(w[j].cmd, him)
                           /\ Affirms(w[j].cmd) <=> binary

\* Every text on a stream w is meant for a reader in state him; without the
\* option BINARY in play every text is plain.
TextsOf(w, him) ==
    \A k \in DOMAIN w : w[k].kind = "text" =>
        IF BINARY \in Option THEN w[k].unsettled \/ TextMeant(w, k, w[k].binary, him)
                            ELSE ~w[k].binary

TextsMeant == \A n \in Node : TextsOf(wire[n], q[Peer(n)][BINARY].him)

IInv ==
    /\ TypeOK
    /\ Halves
    /\ Allowed
    /\ FlagsDerived
    /\ TextsMeant
    /\ LocalOnReported

-----------------------------------------------------------------------------
(* Halves: constant facts.                                                 *)

LEMMA PeerProperties ==
    ASSUME NEW n \in Node
    PROVE  /\ Peer(n) \in Node /\ Peer(n) # n /\ Peer(Peer(n)) = n
           /\ \A m \in Node : m = n \/ m = Peer(n)
BY DEF Node, Peer

LEMMA SideProperties ==
    ASSUME NEW s \in Side
    PROVE  /\ Other(s) \in Side /\ Other(Other(s)) = s /\ Other(s) # s
           /\ Cmds(s) \subseteq NegCmd /\ Cmds(s) \cap Cmds(Other(s)) = {}
           /\ \A n \in Node : Asker(Peer(n), Other(s)) = Asker(n, s) /\ Asker(n, s) \in Node
BY PeerProperties DEF Side, Other, Cmds, NegCmd, Asker

\* A packet of ours and one of theirs, or none.
Sent(w, c, o) == IF c = None THEN w ELSE Append(w, Command(c, o))

LEMMA HalfOfSymmetric ==
    ASSUME NEW l \in BOOLEAN, NEW p \in QState, NEW q1 \in QState, NEW theirs, NEW ours, NEW o,
           NEW s \in Side, HalfOf(l, p, q1, theirs, ours, o, s)
    PROVE  HalfOf(l, q1, p, ours, theirs, o, Other(s))
BY HalfSymmetric, SideProperties DEF HalfOf

\* An application asks.
LEMMA HalfOfAsked ==
    ASSUME NEW l \in BOOLEAN, NEW p \in QState, NEW q1 \in QState,
           NEW theirs \in Seq(Packet), NEW ours \in Seq(Packet), NEW o \in Option, NEW s \in Side,
           NEW cmd \in Cmds(s), HalfOf(l, p, q1, theirs, ours, o, s)
    PROVE  HalfOf(l, p, Ask(cmd, q1).q, theirs, Sent(ours, Ask(cmd, q1).send, o), o, s)
<1>1. PICK out \in Seq(NegCmd), in \in Seq(NegCmd) :
        /\ Lists(out, theirs, o, Cmds(Other(s)))
        /\ Lists(in, ours, o, Cmds(s))
        /\ HalfState(l, p, q1, out, in)
  BY DEF HalfOf
<1> DEFINE m == Ask(cmd, q1)
<1>2. cmd \in NegCmd /\ m.send \in {None, cmd} /\ cmd # None /\ None \notin NegCmd
  <2>1. cmd \in NegCmd
    BY SideProperties
  <2>2. m.send \in {None, cmd}
    BY <2>1, AskMoves
  <2> QED
    BY <2>1, <2>2 DEF None, NegCmd
<1>3. HalfState(l, p, m.q, out, Put(in, m.send))
  BY <1>1, <1>2, AskKeepsHalf
<1> HIDE DEF m
<1>4. Put(in, m.send) \in Seq(NegCmd)
  BY <1>2, PutProperties
<1>5. Lists(Put(in, m.send), Sent(ours, m.send, o), o, Cmds(s))
  <2>1. CASE m.send = None
    BY <1>1, <2>1 DEF Put, Sent
  <2>2. CASE m.send = cmd
    <3>1. Lists(Append(in, cmd), Append(ours, Command(cmd, o)), o, Cmds(s))
      BY <1>1, <1>2, ListsSent
    <3> QED
      BY <1>2, <2>2, <3>1 DEF Put, Sent
  <2> QED
    BY <1>2, <2>1, <2>2
<1> QED
  BY <1>1, <1>3, <1>4, <1>5 DEF HalfOf, m

\* A command is received, and perhaps answered.
LEMMA HalfOfReceived ==
    ASSUME NEW l \in BOOLEAN, NEW p \in QState, NEW q1 \in QState,
           NEW theirs \in Seq(Packet), NEW ours \in Seq(Packet), NEW o \in Option, NEW s \in Side,
           NEW supported \in BOOLEAN,
           HalfOf(l, p, q1, theirs, ours, o, s), theirs # <<>>,
           Head(theirs).kind = "command", Head(theirs).opt = o,
           NEW cmd, cmd = Head(theirs).cmd, cmd \in Cmds(Other(s)),
           Receive(cmd, q1, supported).send \in Cmds(s) \cup {None}
    PROVE  HalfOf(l \/ LosesRequest(cmd, q1), p, Receive(cmd, q1, supported).q, Tail(theirs),
                  Sent(ours, Receive(cmd, q1, supported).send, o), o, s)
<1>1. PICK out \in Seq(NegCmd), in \in Seq(NegCmd) :
        /\ Lists(out, theirs, o, Cmds(Other(s)))
        /\ Lists(in, ours, o, Cmds(s))
        /\ HalfState(l, p, q1, out, in)
  BY DEF HalfOf
<1> DEFINE m == Receive(cmd, q1, supported)
<1>2. 1 \in About(theirs, o, Cmds(Other(s))) /\ Head(theirs) = theirs[1]
  BY TailPositions
<1>3. /\ out # <<>> /\ Head(out) = cmd /\ Tail(out) \in Seq(NegCmd)
      /\ Lists(Tail(out), Tail(theirs), o, Cmds(Other(s)))
  <2> DEFINE cmds == Cmds(Other(s))
  <2>1. Lists(out, theirs, o, cmds) /\ 1 \in About(theirs, o, cmds)
    BY <1>1, <1>2
  <2> HIDE DEF cmds
  <2>2. /\ out # <<>> /\ Head(out) = theirs[1].cmd /\ Tail(out) \in Seq(NegCmd)
        /\ Lists(Tail(out), Tail(theirs), o, cmds)
    BY <2>1, ListsTaken
  <2> QED
    BY <1>2, <2>2 DEF cmds
<1>4. HalfState(l \/ LosesRequest(cmd, q1), p, m.q, Tail(out), Put(in, m.send))
  BY <1>1, <1>3, ReceiveKeepsHalf
<1>5. m.send \in Cmds(s) \cup {None} /\ Cmds(s) \subseteq NegCmd /\ None \notin NegCmd
  BY SideProperties DEF None, NegCmd
<1> HIDE DEF m
<1>6. Put(in, m.send) \in Seq(NegCmd)
  BY <1>5, PutProperties
<1>7. Lists(Put(in, m.send), Sent(ours, m.send, o), o, Cmds(s))
  <2>1. CASE m.send = None
    BY <1>1, <2>1 DEF Put, Sent
  <2>2. CASE m.send # None
    <3> DEFINE c == m.send
    <3>1. c \in Cmds(s) /\ c \in NegCmd
      BY <1>5, <2>2
    <3> HIDE DEF c
    <3>2. Lists(Append(in, c), Append(ours, Command(c, o)), o, Cmds(s))
      BY <1>1, <3>1, ListsSent
    <3> QED
      BY <2>2, <3>2 DEF Put, Sent, c
  <2> QED
    BY <2>1, <2>2
<1> QED
  BY <1>3, <1>4, <1>6, <1>7 DEF HalfOf, m

\* Packets that are not about this half are sent and received.
LEMMA HalfOfOtherSent ==
    ASSUME NEW l, NEW p, NEW q1, NEW theirs, NEW ours \in Seq(Packet), NEW o, NEW s,
           HalfOf(l, p, q1, theirs, ours, o, s),
           NEW packet \in Packet,
           ~(packet.kind = "command" /\ packet.opt = o /\ packet.cmd \in Cmds(s))
    PROVE  HalfOf(l, p, q1, theirs, Append(ours, packet), o, s)
BY ListsOtherSent DEF HalfOf

LEMMA HalfOfOtherTaken ==
    ASSUME NEW l, NEW p, NEW q1, NEW theirs \in Seq(Packet), NEW ours, NEW o, NEW s,
           HalfOf(l, p, q1, theirs, ours, o, s), theirs # <<>>,
           ~(/\ Head(theirs).kind = "command" /\ Head(theirs).opt = o
             /\ Head(theirs).cmd \in Cmds(Other(s)))
    PROVE  HalfOf(l, p, q1, Tail(theirs), ours, o, s)
<1>1. 1 \notin About(theirs, o, Cmds(Other(s)))
  BY TailPositions
<1> QED
  BY <1>1, ListsOtherTaken DEF HalfOf

-----------------------------------------------------------------------------
(* Texts: constant facts.                                                  *)

\* A packet sent later changes nothing for a text.
LEMMA TextBeforeSent ==
    ASSUME NEW w \in Seq(Packet), NEW p \in Packet, NEW k \in DOMAIN w,
           NEW b \in BOOLEAN, NEW him, TextMeant(w, k, b, him)
    PROVE  TextMeant(Append(w, p), k, b, him)
<1> DEFINE v == Append(w, p)
<1>1. /\ Len(w) \in Nat /\ DOMAIN w = 1 .. Len(w) /\ DOMAIN v = 1 .. Len(w) + 1
      /\ \A i \in 1 .. Len(w) : v[i] = w[i]
  BY AppendProperties, LenProperties
<1> HIDE DEF v
<1>2. k \in Nat /\ k <= Len(w)
  BY <1>1
<1>3. \A i \in 1 .. k : i \in DOMAIN w /\ i \in DOMAIN v /\ v[i] = w[i]
  BY <1>1, <1>2
<1>4. Prior(v, k) = Prior(w, k)
  BY <1>3 DEF Prior, About
<1>5. \A j : Prior(w, k) = {j} => j \in 1 .. k
  BY DEF Prior
<1> QED
  BY <1>3, <1>4, <1>5 DEF TextMeant, v

\* What is before a text when the first packet is taken.
LEMMA PriorTaken ==
    ASSUME NEW w \in Seq(Packet), w # <<>>, NEW k \in DOMAIN Tail(w)
    PROVE  /\ k + 1 \in DOMAIN w /\ Tail(w)[k] = w[k + 1]
           /\ Prior(w, k + 1) \subseteq Nat \ {0} /\ Prior(Tail(w), k) \subseteq Nat \ {0}
           /\ \A j \in Nat \ {0} : j \in Prior(Tail(w), k) <=> j + 1 \in Prior(w, k + 1)
           /\ 1 \in Prior(w, k + 1) <=> 1 \in About(w, BINARY, {"WILL", "WONT"})
<1> DEFINE cmds == {"WILL", "WONT"}
<1>1. /\ About(w, BINARY, cmds) \subseteq Nat \ {0}
      /\ About(Tail(w), BINARY, cmds) \subseteq Nat \ {0}
      /\ \A j \in Nat \ {0} : j \in About(Tail(w), BINARY, cmds) <=> j + 1 \in About(w, BINARY, cmds)
      /\ k \in Nat \ {0} /\ k + 1 \in DOMAIN w /\ Tail(w)[k] = w[k + 1]
  <2>1. k \in Nat \ {0} /\ k + 1 \in DOMAIN w /\ Tail(w)[k] = w[k + 1]
    BY TailPositions
  <2> HIDE DEF cmds
  <2>2. /\ About(w, BINARY, cmds) \subseteq Nat \ {0}
        /\ About(Tail(w), BINARY, cmds) \subseteq Nat \ {0}
        /\ \A j \in Nat \ {0} :
              j \in About(Tail(w), BINARY, cmds) <=> j + 1 \in About(w, BINARY, cmds)
    BY TailPositions
  <2> QED
    BY <2>1, <2>2
<1> HIDE DEF cmds
<1>2. /\ \A j \in Nat \ {0} : j \in 1 .. k <=> j + 1 \in 1 .. k + 1
      /\ 1 \in 1 .. k + 1
  <2>1. k \in Nat /\ k >= 1
    BY <1>1
  <2> QED
    BY <2>1
<1>3. /\ Prior(w, k + 1) = About(w, BINARY, cmds) \cap 1 .. k + 1
      /\ Prior(Tail(w), k) = About(Tail(w), BINARY, cmds) \cap 1 .. k
  BY DEF Prior, cmds
<1> QED
  BY <1>1, <1>2, <1>3 DEF cmds

\* The first packet is taken, and is no offer of BINARY.
LEMMA TextAfterOther ==
    ASSUME NEW w \in Seq(Packet), w # <<>>, NEW k \in DOMAIN Tail(w),
           NEW b \in BOOLEAN, NEW him, TextMeant(w, k + 1, b, him),
           1 \notin About(w, BINARY, {"WILL", "WONT"})
    PROVE  TextMeant(Tail(w), k, b, him)
<1>1. /\ Prior(w, k + 1) \subseteq Nat \ {0} /\ Prior(Tail(w), k) \subseteq Nat \ {0}
      /\ \A j \in Nat \ {0} : j \in Prior(Tail(w), k) <=> j + 1 \in Prior(w, k + 1)
      /\ 1 \notin Prior(w, k + 1)
  BY PriorTaken
<1>2. CASE Prior(w, k + 1) = {} /\ (Awaits(him) \/ (him = "YES" <=> b))
  <2>1. Prior(Tail(w), k) = {}
    BY <1>1, <1>2
  <2> QED
    BY <1>2, <2>1 DEF TextMeant
<1>3. ASSUME NEW j \in DOMAIN w, Prior(w, k + 1) = {j}, Awaits(him),
             Fits(w[j].cmd, him), Affirms(w[j].cmd) <=> b
      PROVE  TextMeant(Tail(w), k, b, him)
  <2>1. j \in Nat \ {0, 1}
    BY <1>1, <1>3
  <2>2. j - 1 \in Nat \ {0} /\ (j - 1) + 1 = j
    BY <2>1
  <2>3. Prior(Tail(w), k) = {j - 1}
    <3>1. j - 1 \in Prior(Tail(w), k)
      BY <1>1, <1>3, <2>2
    <3>2. ASSUME NEW i \in Prior(Tail(w), k)
          PROVE  i = j - 1
      <4>1. i \in Nat \ {0} /\ i + 1 = j
        BY <1>1, <1>3
      <4> QED
        BY <2>1, <4>1
    <3> QED
      BY <3>1, <3>2
  <2>4. j - 1 \in DOMAIN Tail(w) /\ Tail(w)[j - 1] = w[j]
    <3>1. j - 1 \in DOMAIN Tail(w)
      BY <2>3 DEF Prior, About
    <3> QED
      BY <2>2, <3>1, TailPositions
  <2> QED
    BY <1>3, <2>3, <2>4 DEF TextMeant
<1> QED
  BY <1>2, <1>3 DEF TextMeant

\* The one offer that precedes a text is received: the text's reader now
\* decodes it as it is meant, or waits.
LEMMA TextAfterOffer ==
    ASSUME NEW w \in Seq(Packet), w # <<>>, NEW k \in DOMAIN Tail(w),
           NEW b \in BOOLEAN, NEW him \in QState, NEW supported \in BOOLEAN,
           TextMeant(w, k + 1, b, him),
           1 \in About(w, BINARY, {"WILL", "WONT"})
    PROVE  TextMeant(Tail(w), k, b, Receive(w[1].cmd, him, supported).q)
<1> DEFINE cmd == w[1].cmd
           m == Receive(cmd, him, supported)
<1>1. /\ Prior(Tail(w), k) \subseteq Nat \ {0}
      /\ \A j \in Nat \ {0} : j \in Prior(Tail(w), k) <=> j + 1 \in Prior(w, k + 1)
      /\ 1 \in Prior(w, k + 1)
  BY PriorTaken
<1>2. /\ Prior(w, k + 1) = {1} /\ Awaits(him) /\ Fits(cmd, him)
      /\ (Affirms(cmd) <=> b)
  BY <1>1 DEF TextMeant
<1>3. Prior(Tail(w), k) = {}
  <2> SUFFICES ASSUME NEW j \in Prior(Tail(w), k)
               PROVE  FALSE
    OBVIOUS
  <2>1. j \in Nat \ {0} /\ j + 1 = 1
    BY <1>1, <1>2
  <2> QED
    BY <2>1
<1>4. cmd \in NegCmd /\ m.q \in QState
  <2>1. cmd \in NegCmd
    BY DEF About, NegCmd
  <2> QED
    BY <2>1, ReceiveMoves
<1>5. Awaits(m.q) \/ (m.q = "YES" <=> b)
  <2>1. CASE LosesRequest(cmd, him)
    BY <2>1 DEF LosesRequest, Receive, OnWont, Move, Awaits
  <2>2. CASE ~LosesRequest(cmd, him)
    <3>1. /\ m.send = None => ~Awaits(m.q) /\ Leaning(m.q) = Affirms(cmd)
          /\ m.send # None => Awaits(m.q) = Awaits(him)
      <4>1. Fits(cmd, him) /\ cmd \in NegCmd /\ ~LosesRequest(cmd, him)
        BY <1>2, <1>4, <2>2
      <4> HIDE DEF cmd
      <4> QED
        BY <4>1, FittingMoves
    <3> HIDE DEF m
    <3>2. CASE m.send = None
      <4>1. m.q = "YES" <=> Leaning(m.q)
        BY <1>4, <3>1, <3>2 DEF QState, Awaits, Leaning
      <4> QED
        BY <1>2, <3>1, <3>2, <4>1
    <3>3. CASE m.send # None
      BY <1>2, <3>1, <3>3
    <3> QED
      BY <3>2, <3>3
  <2> QED
    BY <2>1, <2>2
<1> QED
  BY <1>3, <1>5 DEF TextMeant

\* The reader's application asks.
LEMMA TextWhileAsking ==
    ASSUME NEW w \in Seq(Packet), NEW k, NEW b \in BOOLEAN, NEW him \in QState,
           NEW cmd \in NegCmd, TextMeant(w, k, b, him)
    PROVE  TextMeant(w, k, b, Ask(cmd, him).q)
<1> DEFINE m == Ask(cmd, him)
<1>1. /\ m.send \in {None, cmd}
      /\ m.send = cmd => ~Awaits(him) /\ Awaits(m.q)
      /\ m.send = None => /\ Awaits(m.q) = Awaits(him)
                          /\ Leaning(m.q) = Leaning(him)
                          /\ ~Awaits(him) => m.q = him
      /\ m.q \in QState
  BY AskMoves
<1> HIDE DEF m
<1>2. CASE Prior(w, k) = {} /\ (Awaits(him) \/ (him = "YES" <=> b))
  <2>1. Awaits(m.q) \/ m.q = him
    BY <1>1
  <2>2. Awaits(m.q) \/ (m.q = "YES" <=> b)
    BY <1>1, <1>2, <2>1
  <2> QED
    BY <1>2, <2>2 DEF TextMeant, m
<1>3. ASSUME NEW j \in DOMAIN w, Prior(w, k) = {j}, Awaits(him),
             Fits(w[j].cmd, him), Affirms(w[j].cmd) <=> b
      PROVE  TextMeant(w, k, b, m.q)
  <2>1. w[j].cmd \in NegCmd
    BY <1>3 DEF Prior, About, NegCmd
  <2>2. m.send = None /\ Awaits(m.q) /\ Leaning(m.q) = Leaning(him)
    BY <1>1, <1>3
  <2>3. Fits(w[j].cmd, m.q)
    BY <1>1, <1>3, <2>1, <2>2, States DEF Fits
  <2> QED
    BY <1>3, <2>2, <2>3 DEF TextMeant
<1> QED
  BY <1>2, <1>3 DEF TextMeant, m

\* A settled end sends a text.
LEMMA TextSent ==
    ASSUME NEW w \in Seq(Packet), NEW us \in QState, NEW him \in QState, NEW l \in BOOLEAN,
           NEW theirs, HalfOf(l, him, us, theirs, w, BINARY, "us"), ~Awaits(us),
           NEW t \in Packet, t.kind = "text"
    PROVE  TextMeant(Append(w, t), Len(w) + 1, us = "YES", him)
<1> DEFINE v == Append(w, t)
           n == Len(w) + 1
           cmds == {"WILL", "WONT"}
<1>1. /\ Len(w) \in Nat /\ DOMAIN w = 1 .. Len(w) /\ DOMAIN v = 1 .. n
      /\ \A i \in 1 .. Len(w) : v[i] = w[i]
      /\ v[n] = t
  BY AppendProperties, LenProperties
<1> HIDE DEF v
<1>2. Prior(v, n) = About(w, BINARY, cmds)
  BY <1>1 DEF Prior, About
<1>3. PICK out \in Seq(NegCmd), in \in Seq(NegCmd) :
        Lists(in, w, BINARY, cmds) /\ HalfState(l, him, us, out, in)
  BY DEF HalfOf, Cmds
<1> HIDE DEF cmds, n
<1>4. us = "YES" <=> Leaning(us)
  BY DEF QState, Awaits, Leaning
<1>5. \/ Len(in) = 0 /\ (Awaits(him) \/ him = us)
      \/ Len(in) = 1 /\ Awaits(him) /\ Fits(in[1], him) /\ Affirms(in[1]) = Leaning(us)
  BY <1>3, SettledEnd
<1>6. CASE Len(in) = 0 /\ (Awaits(him) \/ him = us)
  <2>1. Prior(v, n) = {}
    BY <1>2, <1>3, <1>6, ListsFew
  <2> QED
    BY <1>6, <2>1 DEF TextMeant, v, n
<1>7. CASE Len(in) = 1 /\ Awaits(him) /\ Fits(in[1], him) /\ Affirms(in[1]) = Leaning(us)
  <2>1. PICK j \in DOMAIN w : About(w, BINARY, cmds) = {j} /\ w[j].cmd = in[1]
    BY <1>3, <1>7, ListsFew
  <2>2. j \in DOMAIN v /\ v[j] = w[j]
    BY <1>1 DEF n
  <2> QED
    BY <1>2, <1>4, <1>7, <2>1, <2>2 DEF TextMeant, v, n
<1> QED
  BY <1>5, <1>6, <1>7

-----------------------------------------------------------------------------
(* The transition table, as the applications see it.                       *)

LEMMA AskFacts ==
    ASSUME NEW cmd \in NegCmd, NEW q1 \in QState
    PROVE  LET m == Ask(cmd, q1)
           IN  /\ m.q \in QState /\ m.send \in {None, cmd}
               /\ m.q = "YES" => q1 = "YES"
               /\ m.q # "NO" => q1 # "NO" \/ Affirms(cmd)
BY DEF Ask, AskOn, AskOff, Stay, Move, NegCmd, QState, None, Affirms

LEMMA ReceiveFacts ==
    ASSUME NEW cmd \in NegCmd, NEW q1 \in QState, NEW supported \in BOOLEAN
    PROVE  LET m == Receive(cmd, q1, supported)
           IN  /\ m.q \in QState /\ m.send \in Cmds(ToldSide(cmd)) \cup {None}
               /\ m.event \in NegCmd \cup {None}
               /\ m.q = "YES" => q1 = "YES" \/ Affirms(cmd)
               /\ m.q # "NO" => q1 # "NO" \/ supported
               /\ Affirms(m.send) => q1 # "NO" \/ supported
               /\ m.event = "DONT" => ToldSide(cmd) = "us" /\ m.q = "NO"
               /\ ToldSide(cmd) = "us" /\ m.q = "YES"
                    => m.event = "DO" \/ (m.event = None /\ q1 = "YES")
               /\ LosesRequest(cmd, q1) => ToldSide(cmd) = "him"
<1>1. CASE cmd = "WILL"
  BY <1>1 DEF Receive, OnWill, Stay, Move, NegCmd, QState, None, Affirms, Cmds, ToldSide,
              LosesRequest
<1>2. CASE cmd = "WONT"
  BY <1>2 DEF Receive, OnWont, Stay, Move, NegCmd, QState, None, Affirms, Cmds, ToldSide,
              LosesRequest
<1>3. CASE cmd = "DO"
  BY <1>3 DEF Receive, OnDo, Stay, Move, NegCmd, QState, None, Affirms, Cmds, ToldSide,
              LosesRequest
<1>4. CASE cmd = "DONT"
  BY <1>4 DEF Receive, OnDont, Stay, Move, NegCmd, QState, None, Affirms, Cmds, ToldSide,
              LosesRequest
<1> QED
  BY <1>1, <1>2, <1>3, <1>4 DEF NegCmd

\* The sides commands are about.
LEMMA CommandSides ==
    ASSUME NEW cmd \in NegCmd
    PROVE  /\ AskedSide(cmd) \in Side /\ ToldSide(cmd) = Other(AskedSide(cmd))
           /\ cmd \in Cmds(AskedSide(cmd)) /\ cmd \in Cmds(Other(ToldSide(cmd)))
           /\ ToldSide(cmd) \in Side /\ cmd # None
           /\ \A s \in Side : cmd \in Cmds(s) => AskedSide(cmd) = s
BY DEF NegCmd, AskedSide, ToldSide, Other, Cmds, Side, None

\* One belief of a view changes.
LEMMA OneBelief ==
    ASSUME NEW v \in [Node -> [Option -> [us : Belief, him : Belief]]],
           NEW n \in Node, NEW o \in Option, NEW s \in {"us", "him"}, NEW b \in Belief
    PROVE  [v EXCEPT ![n][o][s] = b] \in [Node -> [Option -> [us : Belief, him : Belief]]]
OBVIOUS

\* What an event tells.
LEMMA InformedFacts ==
    ASSUME NEW belief \in [us : Belief, him : Belief], NEW event \in NegCmd \cup {None}
    PROVE  /\ Informed(belief, event) \in [us : Belief, him : Belief]
           /\ event = "DO" => Informed(belief, event).us = "on"
           /\ event # "DONT" => Informed(belief, event).us \in {belief.us, "on"}
<1>1. ASSUME NEW side \in Side, NEW b \in Belief
      PROVE  /\ [belief EXCEPT ![side] = b] \in [us : Belief, him : Belief]
             /\ [belief EXCEPT ![side] = b].us = IF side = "us" THEN b ELSE belief.us
  BY DEF Side
<1>2. CASE event = None
  BY <1>2 DEF Informed, None
<1>3. CASE event # None
  <2> DEFINE side == ToldSide(event)
             b == IF Affirms(event) THEN "on" ELSE "off"
  <2>1. /\ event \in NegCmd /\ side \in Side /\ b \in Belief
        /\ event = "DO" => side = "us" /\ b = "on"
        /\ event # "DONT" /\ side = "us" => b = "on"
    BY <1>3 DEF ToldSide, Affirms, NegCmd, Belief, Side, None
  <2>2. Informed(belief, event) = [belief EXCEPT ![side] = b]
    BY <1>3 DEF Informed
  <2> HIDE DEF side, b
  <2> QED
    BY <1>1, <2>1, <2>2
<1> QED
  BY <1>2, <1>3

-----------------------------------------------------------------------------
(* What the actions do to the variables.                                   *)

\* _set_rfc1143() moves one side of one option.
LEMMA SetProperties ==
    ASSUME TypeOK, FlagsDerived, NEW n \in Node, NEW o \in Option, NEW s \in Side,
           NEW st \in QState, SetRfc1143(n, o, s, st)
    PROVE  /\ q' \in [Node -> [Option -> [us : QState, him : QState]]]
           /\ q'[n][o][s] = st
           /\ \A m \in Node, p \in Option, t \in Side :
                 ~(m = n /\ p = o /\ t = s) => q'[m][p][t] = q[m][p][t]
           /\ flags' \in [Node -> SUBSET {"TRANSMIT_BINARY", "RECEIVE_BINARY"}]
           /\ FlagsDerived'
<1>1. /\ q \in [Node -> [Option -> [us : QState, him : QState]]]
      /\ q' = [q EXCEPT ![n][o][s] = st]
      /\ flags \in [Node -> SUBSET {"TRANSMIT_BINARY", "RECEIVE_BINARY"}]
      /\ flags' = IF o = BINARY THEN [flags EXCEPT ![n] = BinaryFlags(q'[n][o])] ELSE flags
  BY DEF TypeOK, SetRfc1143
<1>2. q' \in [Node -> [Option -> [us : QState, him : QState]]]
  <2>1. q \in [Node -> [Option -> [us : QState, him : QState]]]
    BY <1>1
  <2>2. q' = [q EXCEPT ![n][o][s] = st] /\ s \in {"us", "him"}
    BY <1>1 DEF Side
  <2> QED
    BY <2>1, <2>2
<1>3. /\ \A m \in Node : m # n => q'[m] = q[m]
      /\ \A p \in Option : p # o => q'[n][p] = q[n][p]
      /\ q'[n][o] = [q[n][o] EXCEPT ![s] = st]
  BY <1>1
<1>4. q[n][o] \in [us : QState, him : QState]
  BY <1>1
<1>5. /\ q'[n][o][s] = st
      /\ \A t \in Side : t # s => q'[n][o][t] = q[n][o][t]
  BY <1>3, <1>4 DEF Side
<1>6. BinaryFlags(q'[n][o]) \in SUBSET {"TRANSMIT_BINARY", "RECEIVE_BINARY"}
  BY DEF BinaryFlags
<1>7. flags' \in [Node -> SUBSET {"TRANSMIT_BINARY", "RECEIVE_BINARY"}]
  BY <1>1, <1>6
<1>8. FlagsDerived'
  <2> SUFFICES ASSUME NEW m \in Node
               PROVE  flags'[m] = IF BINARY \in Option THEN BinaryFlags(q'[m][BINARY]) ELSE {}
    BY DEF FlagsDerived
  <2>1. CASE o = BINARY /\ m = n
    BY <1>1, <2>1
  <2>2. CASE ~(o = BINARY /\ m = n)
    <3>1. flags'[m] = flags[m]
      BY <1>1, <2>2
    <3>2. BINARY \in Option => q'[m][BINARY] = q[m][BINARY]
      BY <1>3, <2>2
    <3> QED
      BY <3>1, <3>2 DEF FlagsDerived
  <2> QED
    BY <2>1, <2>2
<1> QED
  BY <1>2, <1>3, <1>5, <1>7, <1>8

\* _send_negotiate() adds a command to the stream of its end, or none.
LEMMA SendProperties ==
    ASSUME NEW n \in Node, NEW o \in Option, NEW c \in NegCmd \cup {None},
           NEW stream \in [Node -> Seq(Packet)]
    PROVE  /\ SendNegotiate(n, c, o, stream) \in [Node -> Seq(Packet)]
           /\ SendNegotiate(n, c, o, stream)[n] = Sent(stream[n], c, o)
           /\ SendNegotiate(n, c, o, stream)[Peer(n)] = stream[Peer(n)]
<1>1. CASE c = None
  BY <1>1, PeerProperties DEF SendNegotiate, Sent
<1>2. CASE c # None
  <2>1. Command(c, o) \in Packet
    BY <1>2 DEF Command, Packet
  <2>2. Append(stream[n], Command(c, o)) \in Seq(Packet)
    BY <2>1, AppendProperties
  <2> QED
    BY <1>2, <2>2, PeerProperties DEF SendNegotiate, Sent
<1> QED
  BY <1>1, <1>2

\* What is on the stream after sending: what was there, and the command.
LEMMA SentPackets ==
    ASSUME NEW w \in Seq(Packet), NEW o \in Option, NEW c \in NegCmd \cup {None}
    PROVE  /\ Sent(w, c, o) \in Seq(Packet)
           /\ \A i \in DOMAIN Sent(w, c, o) :
                 \/ i \in DOMAIN w /\ Sent(w, c, o)[i] = w[i]
                 \/ c # None /\ Sent(w, c, o)[i] = Command(c, o)
<1>1. CASE c = None
  BY <1>1 DEF Sent
<1>2. CASE c # None
  <2> DEFINE p == Command(c, o)
  <2>1. p \in Packet
    BY <1>2 DEF Command, Packet
  <2>2. Sent(w, c, o) = Append(w, p)
    BY <1>2 DEF Sent
  <2> HIDE DEF p
  <2>3. /\ Len(w) \in Nat /\ DOMAIN w = 1 .. Len(w) /\ DOMAIN Append(w, p) = 1 .. Len(w) + 1
        /\ \A i \in 1 .. Len(w) : Append(w, p)[i] = w[i]
        /\ Append(w, p)[Len(w) + 1] = p /\ Append(w, p) \in Seq(Packet)
    BY <2>1, AppendProperties, LenProperties
  <2>4. \A i \in 1 .. Len(w) + 1 : i \in 1 .. Len(w) \/ i = Len(w) + 1
    BY <2>3
  <2> QED
    BY <1>2, <2>2, <2>3, <2>4 DEF p
<1> QED
  BY <1>1, <1>2

-----------------------------------------------------------------------------
(* What sending and receiving do to halves and texts.                      *)

LEMMA HalfOfOther ==
    ASSUME NEW l, NEW p, NEW q1, NEW theirs, NEW ours \in Seq(Packet), NEW o \in Option,
           NEW o2 \in Option, NEW s \in Side, NEW t \in Side, NEW c \in Cmds(s) \cup {None},
           HalfOf(l, p, q1, theirs, ours, o2, t), ~(o2 = o /\ t = s)
    PROVE  HalfOf(l, p, q1, theirs, Sent(ours, c, o), o2, t)
<1>1. CASE c = None
  BY <1>1 DEF Sent
<1>2. CASE c # None
  <2>1. c \in Cmds(s) /\ c \in NegCmd
    BY <1>2, SideProperties
  <2>2. c \in Cmds(t) => t = s
    BY <2>1, CommandSides
  <2>3. /\ Command(c, o) \in Packet
        /\ ~(/\ Command(c, o).kind = "command" /\ Command(c, o).opt = o2
             /\ Command(c, o).cmd \in Cmds(t))
    BY <2>1, <2>2 DEF Command, Packet
  <2> QED
    BY <1>2, <2>3, HalfOfOtherSent DEF Sent
<1> QED
  BY <1>1, <1>2

\* If the halves of one end are in order, so are those of the other.
OneEnd == \E n \in Node : \A s \in Side, o \in Option : Half(n, s, o)

LEMMA HalvesOfOneEnd == TypeOK /\ OneEnd => Halves
<1> SUFFICES ASSUME TypeOK, NEW n \in Node, \A s \in Side, o \in Option : Half(n, s, o),
                    NEW m \in Node, NEW s \in Side, NEW o \in Option
             PROVE  Half(m, s, o)
  BY DEF Halves, OneEnd
<1>1. CASE m = n
  BY <1>1
<1>2. CASE m = Peer(n)
  <2> DEFINE l == lost[Asker(m, s)][o]
             a == q[n][o][Other(s)]
             b == q[m][o][s]
  <2>1. /\ l \in BOOLEAN /\ a \in QState /\ b \in QState
        /\ Other(s) \in Side /\ Other(Other(s)) = s
        /\ Asker(n, Other(s)) = Asker(m, s) /\ Peer(m) = n /\ Peer(n) = m
    <3>1. /\ m \in Node /\ Peer(m) = n /\ Peer(n) = m
          /\ Other(s) \in Side /\ Other(Other(s)) = s
          /\ Asker(n, Other(s)) = Asker(m, s) /\ Asker(m, s) \in Node
      BY <1>2, PeerProperties, SideProperties
    <3>2. lost \in [Node -> [Option -> BOOLEAN]]
      BY DEF TypeOK
    <3>3. /\ q[m][o] \in [us : QState, him : QState]
          /\ q[n][o] \in [us : QState, him : QState]
      BY DEF TypeOK
    <3> QED
      BY <3>1, <3>2, <3>3 DEF Side
  <2>2. HalfOf(l, b, a, wire[m], wire[n], o, Other(s))
    BY <2>1 DEF Half
  <2> HIDE DEF l, a, b
  <2>3. HalfOf(l, a, b, wire[n], wire[m], o, s)
    BY <2>1, <2>2, HalfOfSymmetric
  <2> QED
    BY <2>1, <2>3 DEF Half, l, a, b
<1> QED
  BY <1>1, <1>2, PeerProperties

LEMMA TextsSent ==
    ASSUME NEW w \in Seq(Packet), NEW him, NEW o \in Option, NEW c \in NegCmd \cup {None},
           TextsOf(w, him)
    PROVE  TextsOf(Sent(w, c, o), him)
<1> SUFFICES ASSUME NEW k \in DOMAIN Sent(w, c, o), Sent(w, c, o)[k].kind = "text"
             PROVE  IF BINARY \in Option
                    THEN \/ Sent(w, c, o)[k].unsettled
                         \/ TextMeant(Sent(w, c, o), k, Sent(w, c, o)[k].binary, him)
                    ELSE ~Sent(w, c, o)[k].binary
  BY DEF TextsOf
<1>1. k \in DOMAIN w /\ Sent(w, c, o)[k] = w[k]
  BY SentPackets DEF Command
<1>2. w[k] \in Packet /\ w[k].kind = "text" /\ w[k].binary \in BOOLEAN
  <2>1. w[k] \in Packet
    BY <1>1, ElementOfSeq, LenProperties
  <2> QED
    BY <1>1, <2>1 DEF Packet
<1>3. TextMeant(w, k, w[k].binary, him) => TextMeant(Sent(w, c, o), k, w[k].binary, him)
  <2>1. CASE c = None
    BY <2>1 DEF Sent
  <2>2. CASE c # None
    <3>1. Command(c, o) \in Packet
      BY <2>2 DEF Command, Packet
    <3> QED
      BY <1>1, <1>2, <2>2, <3>1, TextBeforeSent DEF Sent
  <2> QED
    BY <2>1, <2>2
<1> QED
  BY <1>1, <1>2, <1>3 DEF TextsOf

LEMMA TextsAsked ==
    ASSUME NEW w \in Seq(Packet), NEW him, BINARY \in Option => him \in QState,
           NEW cmd \in NegCmd, TextsOf(w, him)
    PROVE  TextsOf(w, Ask(cmd, him).q)
<1> SUFFICES ASSUME NEW k \in DOMAIN w, w[k].kind = "text"
             PROVE  IF BINARY \in Option
                    THEN w[k].unsettled \/ TextMeant(w, k, w[k].binary, Ask(cmd, him).q)
                    ELSE ~w[k].binary
  BY DEF TextsOf
<1>1. w[k].binary \in BOOLEAN
  <2>1. w[k] \in Packet
    BY ElementOfSeq, LenProperties
  <2> QED
    BY <2>1 DEF Packet
<1> QED
  BY <1>1, TextWhileAsking DEF TextsOf

\* The first packet is taken; "now" is what becomes of the reader's state.
LEMMA TextsTaken ==
    ASSUME NEW w \in Seq(Packet), w # <<>>, NEW him, NEW now, TextsOf(w, him),
           BINARY \in Option =>
             IF 1 \in About(w, BINARY, {"WILL", "WONT"})
             THEN him \in QState /\ \E sup \in BOOLEAN : now = Receive(w[1].cmd, him, sup).q
             ELSE now = him
    PROVE  TextsOf(Tail(w), now)
<1> SUFFICES ASSUME NEW k \in DOMAIN Tail(w), Tail(w)[k].kind = "text"
             PROVE  IF BINARY \in Option
                    THEN Tail(w)[k].unsettled \/ TextMeant(Tail(w), k, Tail(w)[k].binary, now)
                    ELSE ~Tail(w)[k].binary
  BY DEF TextsOf
<1>1. k + 1 \in DOMAIN w /\ Tail(w)[k] = w[k + 1]
  BY PriorTaken
<1>2. w[k + 1].binary \in BOOLEAN
  <2>1. w[k + 1] \in Packet
    BY <1>1, ElementOfSeq, LenProperties
  <2> QED
    BY <1>1, <2>1 DEF Packet
<1>3. IF BINARY \in Option THEN w[k + 1].unsettled \/ TextMeant(w, k + 1, w[k + 1].binary, him)
                           ELSE ~w[k + 1].binary
  BY <1>1 DEF TextsOf
<1>4. ASSUME BINARY \in Option, TextMeant(w, k + 1, w[k + 1].binary, him)
      PROVE  TextMeant(Tail(w), k, w[k + 1].binary, now)
  BY <1>2, <1>4, TextAfterOther, TextAfterOffer
<1> QED
  BY <1>1, <1>3, <1>4

\* No other side moves than side s of option o at n.
MovesOnly(n, o, s) ==
    \A m \in Node, p \in Option, t \in Side :
        ~(m = n /\ p = o /\ t = s) => q'[m][p][t] = q[m][p][t]

\* Nothing is put on the wire but the command c about o, by n.
SendsOnly(n, c, o) ==
    \A m \in Node : \A i \in DOMAIN wire'[m] :
        \/ \E j \in DOMAIN wire[m] : wire'[m][i] = wire[m][j]
        \/ m = n /\ wire'[m][i] = Command(c, o)

\* One side of an option moves and a command may be sent, both allowed.
LEMMA AllowedStep ==
    ASSUME TypeOK, Allowed, telopts' = telopts,
           NEW n \in Node, NEW s \in Side, NEW o \in Option, NEW c,
           MovesOnly(n, o, s), SendsOnly(n, c, o),
           q'[n][o][s] # "NO" => May(n, s, o),
           q'[n][o][s] = "YES" => May(Peer(n), Other(s), o),
           Affirms(c) => May(n, AskedSide(c), o)
    PROVE  Allowed'
<1>2. ASSUME NEW m \in Node, NEW t \in Side, NEW p \in Option
      PROVE  /\ q'[m][p][t] # "NO" => May(m, t, p)
             /\ q'[m][p][t] = "YES" => May(Peer(m), Other(t), p)
  <2>1. CASE m = n /\ p = o /\ t = s
    BY <2>1
  <2>2. CASE ~(m = n /\ p = o /\ t = s)
    BY <2>2 DEF Allowed, MovesOnly
  <2> QED
    BY <2>1, <2>2
<1>3. ASSUME NEW m \in Node, NEW i \in DOMAIN wire'[m],
             wire'[m][i].kind = "command", Affirms(wire'[m][i].cmd)
      PROVE  May(m, AskedSide(wire'[m][i].cmd), wire'[m][i].opt)
  <2>1. CASE \E j \in DOMAIN wire[m] : wire'[m][i] = wire[m][j]
    BY <1>3, <2>1 DEF Allowed
  <2>2. CASE m = n /\ wire'[m][i] = Command(c, o)
    BY <1>3, <2>2 DEF Command
  <2> QED
    BY <2>1, <2>2 DEF SendsOnly
<1>4. \A m \in Node, t \in Side : Peer(m) \in Node /\ Other(t) \in Side
  BY PeerProperties, SideProperties
<1>5. \A x : AskedSide(x) \in Side
  BY DEF AskedSide, Side
<1>6. ASSUME NEW m \in Node, NEW t \in Side, NEW p
      PROVE  May(m, t, p)' <=> May(m, t, p)
  BY DEF May
<1> QED
  BY <1>2, <1>3, <1>4, <1>5, <1>6 DEF Allowed

-----------------------------------------------------------------------------
(* Each action preserves the inductive invariant.                          *)

LEMMA NegotiateStep ==
    ASSUME IInv, NEW n \in Node, NEW cmd \in NegCmd, NEW o \in Option,
           <<n, cmd, o>> \in AppCmds, Negotiate(n, cmd, o)
    PROVE  IInv'
<1> DEFINE s == AskedSide(cmd)
           p == Peer(n)
           m == Ask(cmd, q[n][o][s])
<1>1. /\ s \in Side /\ cmd \in Cmds(s) /\ cmd # None
      /\ p \in Node /\ p # n /\ Peer(p) = n /\ \A e \in Node : e = n \/ e = p
  BY CommandSides, PeerProperties
<1>2. /\ q \in [Node -> [Option -> [us : QState, him : QState]]]
      /\ wire \in [Node -> Seq(Packet)]
      /\ view \in [Node -> [Option -> [us : Belief, him : Belief]]]
      /\ lost \in [Node -> [Option -> BOOLEAN]]
  BY DEF IInv, TypeOK
<1>3. \A e \in Node, x \in Option, t \in Side : q[e][x][t] \in QState
  BY <1>2 DEF Side
<1>4. /\ m.q \in QState /\ m.send \in {None, cmd}
      /\ m.q = "YES" => q[n][o][s] = "YES"
      /\ m.q # "NO" => q[n][o][s] # "NO" \/ Affirms(cmd)
  BY <1>1, <1>3, AskFacts
<1>5. /\ SetRfc1143(n, o, s, m.q)
      /\ wire' = SendNegotiate(n, m.send, o, wire)
      /\ view' = IF Affirms(cmd) /\ view[n][o][s] = "off"
                 THEN [view EXCEPT ![n][o][s] = "asked"] ELSE view
      /\ telopts' = telopts /\ lost' = lost
  BY DEF Negotiate
<1>6. /\ wire' \in [Node -> Seq(Packet)]
      /\ wire'[n] = Sent(wire[n], m.send, o)
      /\ wire'[p] = wire[p]
  <2> DEFINE c == m.send
  <2>1. c \in NegCmd \cup {None} /\ wire' = SendNegotiate(n, c, o, wire)
    BY <1>4, <1>5
  <2> HIDE DEF c
  <2> QED
    BY <1>2, <2>1, SendProperties DEF c
<1>7. /\ q' \in [Node -> [Option -> [us : QState, him : QState]]]
      /\ q'[n][o][s] = m.q
      /\ \A e \in Node, x \in Option, t \in Side :
            ~(e = n /\ x = o /\ t = s) => q'[e][x][t] = q[e][x][t]
      /\ flags' \in [Node -> SUBSET {"TRANSMIT_BINARY", "RECEIVE_BINARY"}]
      /\ FlagsDerived'
  BY <1>1, <1>4, <1>5, SetProperties DEF IInv
<1>8. view' \in [Node -> [Option -> [us : Belief, him : Belief]]]
  <2>1. s \in {"us", "him"} /\ "asked" \in Belief
    BY <1>1 DEF Side, Belief
  <2>2. view \in [Node -> [Option -> [us : Belief, him : Belief]]]
    BY <1>2
  <2> HIDE DEF s
  <2>3. [view EXCEPT ![n][o][s] = "asked"] \in [Node -> [Option -> [us : Belief, him : Belief]]]
    BY <2>1, <2>2, OneBelief
  <2> QED
    BY <1>5, <2>2, <2>3
<1>9. TypeOK'
  BY <1>2, <1>5, <1>6, <1>7, <1>8 DEF IInv, TypeOK
<1>10. Halves'
  <2>1. ASSUME NEW t \in Side, NEW x \in Option
        PROVE  Half(n, t, x)'
    <3> DEFINE l == lost[Asker(n, t)][x]
               a == q[p][x][Other(t)]
    <3>1. /\ l \in BOOLEAN /\ a \in QState /\ Other(t) \in Side
          /\ q'[p][x][Other(t)] = a /\ lost'[Asker(n, t)][x] = l
      BY <1>1, <1>2, <1>3, <1>5, <1>7, SideProperties
    <3>2. HalfOf(l, a, q[n][x][t], wire[p], wire[n], x, t)
      BY DEF IInv, Halves, Half
    <3> HIDE DEF l, a, m, s, p
    <3>3. HalfOf(l, a, q'[n][x][t], wire[p], Sent(wire[n], m.send, o), x, t)
      <4>1. CASE x = o /\ t = s
        BY <1>1, <1>2, <1>3, <1>7, <3>1, <3>2, <4>1, HalfOfAsked DEF m
      <4>2. CASE ~(x = o /\ t = s)
        <5>1. q'[n][x][t] = q[n][x][t] /\ m.send \in Cmds(s) \cup {None}
          BY <1>1, <1>4, <1>7, <4>2
        <5> QED
          BY <1>1, <1>2, <3>2, <4>2, <5>1, HalfOfOther
      <4> QED
        BY <4>1, <4>2
    <3>4. HalfOf(lost'[Asker(n, t)][x], q'[p][x][Other(t)], q'[n][x][t], wire'[p], wire'[n], x, t)
      BY <1>6, <3>1, <3>3
    <3> QED
      BY <3>4 DEF Half, HalfOf, Asker, Peer, p
  <2>2. (TypeOK /\ OneEnd => Halves)'
    BY HalvesOfOneEnd, PTL
  <2>3. OneEnd'
    BY <2>1 DEF OneEnd
  <2> QED
    BY <1>9, <2>2, <2>3
<1>11. Allowed'
  <2>1. Affirms(cmd) => May(n, s, o) /\ May(n, AskedSide(cmd), o)
    BY DEF May, Affirms, AskedSide
  <2>2. /\ q'[n][o][s] # "NO" => May(n, s, o)
        /\ q'[n][o][s] = "YES" => May(Peer(n), Other(s), o)
    BY <1>1, <1>4, <1>7, <2>1 DEF IInv, Allowed
  <2>3. SendsOnly(n, cmd, o)
    <3> DEFINE c == m.send
    <3>1. \A i \in DOMAIN wire'[p] : \E j \in DOMAIN wire[p] : wire'[p][i] = wire[p][j]
      BY <1>6
    <3>2. wire[n] \in Seq(Packet) /\ c \in NegCmd \cup {None} /\ (c # None => c = cmd)
      BY <1>2, <1>4
    <3>3. wire'[n] = Sent(wire[n], c, o)
      BY <1>6
    <3> HIDE DEF c, m, s, p
    <3>4. \A i \in DOMAIN wire'[n] : \/ i \in DOMAIN wire[n] /\ wire'[n][i] = wire[n][i]
                                     \/ c # None /\ wire'[n][i] = Command(c, o)
      BY <3>2, <3>3, SentPackets
    <3>5. \A i \in DOMAIN wire'[n] : \/ \E j \in DOMAIN wire[n] : wire'[n][i] = wire[n][j]
                                     \/ wire'[n][i] = Command(cmd, o)
      BY <3>2, <3>4
    <3> QED
      BY <1>1, <3>1, <3>5 DEF SendsOnly
  <2>4. TypeOK /\ Allowed /\ telopts' = telopts
    BY <1>5 DEF IInv
  <2>5. s \in Side /\ MovesOnly(n, o, s)
    BY <1>1, <1>7 DEF MovesOnly
  <2>6. Affirms(cmd) => May(n, AskedSide(cmd), o)
    BY <2>1
  <2> HIDE DEF m, p, s
  <2> QED
    BY <2>2, <2>3, <2>4, <2>5, <2>6, AllowedStep
<1>12. TextsMeant'
  <2>1. TextsOf(wire'[n], q'[Peer(n)][BINARY].him)
    <3>1. TextsOf(wire[n], q[p][BINARY].him)
      BY DEF IInv, TextsMeant
    <3>2. q'[p] = q[p]
      BY <1>1, <1>2, <1>5 DEF SetRfc1143
    <3> QED
      BY <1>2, <1>4, <1>6, <3>1, <3>2, TextsSent
  <2>2. TextsOf(wire'[p], q'[Peer(p)][BINARY].him)
    <3>1. TextsOf(wire[p], q[n][BINARY].him)
      BY <1>1 DEF IInv, TextsMeant
    <3>2. CASE o = BINARY /\ s = "him"
      <4>1. q'[n][BINARY].him = Ask(cmd, q[n][BINARY].him).q
        BY <1>7, <3>2
      <4>2. q[n][BINARY].him \in QState
        BY <1>2, <3>2
      <4> HIDE DEF m, s, p
      <4> QED
        BY <1>1, <1>2, <1>6, <3>1, <4>1, <4>2, TextsAsked
    <3>3. CASE ~(o = BINARY /\ s = "him")
      <4>1. BINARY \in Option => q'[n][BINARY].him = q[n][BINARY].him
        BY <1>7, <3>3 DEF Side
      <4> QED
        BY <1>1, <1>6, <3>1, <4>1 DEF TextsOf
    <3> QED
      BY <3>2, <3>3
  <2> QED
    BY <1>1, <2>1, <2>2 DEF TextsMeant, TextsOf, Peer
<1>13. LocalOnReported'
  <2> SUFFICES ASSUME NEW e \in Node, NEW x \in Option, q'[e][x].us = "YES"
               PROVE  view'[e][x].us = "on"
    BY DEF LocalOnReported
  <2>1. q[e][x].us = "YES"
    <3> HIDE DEF s, m
    <3>1. CASE e = n /\ x = o /\ s = "us"
      BY <1>4, <1>7, <3>1
    <3>2. CASE ~(e = n /\ x = o /\ s = "us")
      BY <1>7, <3>2 DEF Side
    <3> QED
      BY <3>1, <3>2
  <2>2. view[e][x].us = "on"
    BY <2>1 DEF IInv, LocalOnReported
  <2>3. CASE view' = view
    BY <2>2, <2>3
  <2>4. CASE view' = [view EXCEPT ![n][o][s] = "asked"] /\ view[n][o][s] = "off"
    <3>1. e # n \/ x # o \/ s # "us"
      BY <2>2, <2>4
    <3> QED
      BY <1>1, <1>2, <2>2, <2>4, <3>1 DEF Side
  <2> QED
    BY <1>5, <2>3, <2>4
<1> QED
  BY <1>7, <1>9, <1>10, <1>11, <1>12, <1>13 DEF IInv

\* What is on the wire after a text: what was there, and no command.
LEMMA AllowedSame ==
    ASSUME TypeOK, Allowed, telopts' = telopts, q' = q,
           \A m \in Node : \A i \in DOMAIN wire'[m] :
              \/ \E j \in DOMAIN wire[m] : wire'[m][i] = wire[m][j]
              \/ wire'[m][i].kind = "text"
    PROVE  Allowed'
<1>1. ASSUME NEW m \in Node, NEW i \in DOMAIN wire'[m],
             wire'[m][i].kind = "command", Affirms(wire'[m][i].cmd)
      PROVE  May(m, AskedSide(wire'[m][i].cmd), wire'[m][i].opt)
  <2>1. wire'[m][i].kind # "text"
    BY <1>1
  <2>2. PICK j \in DOMAIN wire[m] : wire'[m][i] = wire[m][j]
    BY <2>1
  <2> QED
    BY <1>1, <2>2 DEF Allowed
<1>2. ASSUME NEW m, NEW t, NEW x
      PROVE  May(m, t, x)' <=> May(m, t, x)
  BY DEF May
<1> QED
  BY <1>1, <1>2 DEF Allowed

\* A text is appended to the stream of an end that is in state us.
LEMMA TextsAppended ==
    ASSUME NEW w \in Seq(Packet), NEW us, NEW him, NEW l \in BOOLEAN, NEW theirs,
           NEW b \in BOOLEAN, NEW u \in BOOLEAN, TextsOf(w, him),
           BINARY \in Option => /\ us \in QState /\ him \in QState
                                /\ HalfOf(l, him, us, theirs, w, BINARY, "us")
                                /\ Awaits(us) => u
                                /\ b <=> us = "YES",
           BINARY \notin Option => ~b
    PROVE  TextsOf(Append(w, Text(b, u)), him)
<1> DEFINE t == Text(b, u)
           v == Append(w, t)
<1>1. t \in Packet /\ t.kind = "text" /\ t.binary = b /\ t.unsettled = u
  BY DEF Text, Packet
<1> HIDE DEF t
<1>2. /\ Len(w) \in Nat /\ DOMAIN w = 1 .. Len(w) /\ DOMAIN v = 1 .. Len(w) + 1
      /\ \A i \in 1 .. Len(w) : v[i] = w[i]
      /\ v[Len(w) + 1] = t
  BY <1>1, AppendProperties, LenProperties
<1>3. ASSUME NEW k \in DOMAIN v, v[k].kind = "text"
      PROVE  IF BINARY \in Option THEN v[k].unsettled \/ TextMeant(v, k, v[k].binary, him)
                                  ELSE ~v[k].binary
  <2>1. CASE k \in DOMAIN w
    <3>1. v[k] = w[k] /\ w[k].kind = "text"
      BY <1>2, <1>3, <2>1
    <3>2. w[k].binary \in BOOLEAN
      <4>1. w[k] \in Packet
        BY <2>1, ElementOfSeq, LenProperties
      <4> QED
        BY <3>1, <4>1 DEF Packet
    <3>3. TextMeant(w, k, w[k].binary, him) => TextMeant(v, k, w[k].binary, him)
      BY <1>1, <2>1, <3>2, TextBeforeSent
    <3> HIDE DEF v
    <3>4. IF BINARY \in Option THEN w[k].unsettled \/ TextMeant(w, k, w[k].binary, him)
                               ELSE ~w[k].binary
      BY <2>1, <3>1 DEF TextsOf
    <3> QED
      BY <3>1, <3>3, <3>4
  <2>2. CASE k = Len(w) + 1
    <3>1. v[k] = t
      BY <1>2, <2>2
    <3>2. ASSUME BINARY \in Option, ~u
          PROVE  TextMeant(v, k, b, him)
      <4>1. /\ us \in QState /\ him \in QState /\ ~Awaits(us)
            /\ HalfOf(l, him, us, theirs, w, BINARY, "us")
        BY <3>2
      <4>2. TextMeant(v, k, us = "YES", him)
        BY <1>1, <2>2, <4>1, TextSent
      <4>3. (us = "YES") = b
        BY <3>2
      <4> HIDE DEF v
      <4> QED
        BY <4>2, <4>3
    <3> HIDE DEF v
    <3> QED
      BY <1>1, <3>1, <3>2
  <2> QED
    BY <1>2, <2>1, <2>2
<1> QED
  BY <1>3 DEF TextsOf, t

LEMMA SendTextStep ==
    ASSUME IInv, NEW n \in Node, SendText(n)
    PROVE  IInv'
<1> DEFINE p == Peer(n)
           b == "TRANSMIT_BINARY" \in flags[n]
           u == BINARY \in Option /\ Awaits(q[n][BINARY].us)
           t == Text(b, u)
<1>1. p \in Node /\ p # n /\ Peer(p) = n /\ \A e \in Node : e = n \/ e = p
  BY PeerProperties
<1>2. /\ q \in [Node -> [Option -> [us : QState, him : QState]]]
      /\ wire \in [Node -> Seq(Packet)] /\ wire[n] \in Seq(Packet)
      /\ lost \in [Node -> [Option -> BOOLEAN]]
  BY DEF IInv, TypeOK
<1>3. /\ wire' = [wire EXCEPT ![n] = Append(@, t)]
      /\ telopts' = telopts /\ q' = q /\ flags' = flags /\ view' = view /\ lost' = lost
  BY DEF SendText
<1>4. t \in Packet /\ t.kind = "text" /\ b \in BOOLEAN /\ u \in BOOLEAN
  BY DEF Text, Packet
<1>5. wire'[n] = Append(wire[n], t) /\ wire'[p] = wire[p]
  BY <1>1, <1>2, <1>3
<1>6. TypeOK'
  <2>1. Append(wire[n], t) \in Seq(Packet)
    BY <1>2, <1>4, AppendProperties
  <2>2. wire' \in [Node -> Seq(Packet)]
    BY <1>2, <1>3, <2>1
  <2> QED
    BY <1>3, <2>2 DEF IInv, TypeOK
<1>7. Halves'
  <2>1. ASSUME NEW s \in Side, NEW o \in Option
        PROVE  Half(n, s, o)'
    <3> DEFINE l == lost[Asker(n, s)][o]
    <3>1. HalfOf(l, q[p][o][Other(s)], q[n][o][s], wire[p], wire[n], o, s)
      BY DEF IInv, Halves, Half
    <3> HIDE DEF l, t, p
    <3>2. HalfOf(l, q[p][o][Other(s)], q[n][o][s], wire[p], Append(wire[n], t), o, s)
      BY <1>2, <1>4, <3>1, HalfOfOtherSent
    <3>3. HalfOf(lost'[Asker(n, s)][o], q'[p][o][Other(s)], q'[n][o][s], wire'[p], wire'[n], o, s)
      BY <1>3, <1>5, <3>2 DEF l
    <3> QED
      BY <3>3 DEF Half, HalfOf, Asker, Peer, p
  <2>2. (TypeOK /\ OneEnd => Halves)'
    BY HalvesOfOneEnd, PTL
  <2>3. OneEnd'
    BY <2>1 DEF OneEnd
  <2> QED
    BY <1>6, <2>2, <2>3
<1>8. Allowed'
  <2>1. ASSUME NEW e \in Node, NEW i \in DOMAIN wire'[e]
        PROVE  \/ \E j \in DOMAIN wire[e] : wire'[e][i] = wire[e][j]
               \/ wire'[e][i].kind = "text"
    <3> HIDE DEF t, p
    <3>1. CASE e = n
      <4> DEFINE w == wire[n]
      <4>1. /\ Len(w) \in Nat /\ DOMAIN w = 1 .. Len(w) /\ DOMAIN Append(w, t) = 1 .. Len(w) + 1
            /\ \A j \in 1 .. Len(w) : Append(w, t)[j] = w[j]
            /\ Append(w, t)[Len(w) + 1] = t
        BY <1>2, <1>4, AppendProperties, LenProperties
      <4>2. i \in 1 .. Len(w) \/ i = Len(w) + 1
        BY <1>5, <3>1, <4>1
      <4> QED
        BY <1>4, <1>5, <3>1, <4>1, <4>2
    <3>2. CASE e = p
      BY <1>5, <3>2
    <3> QED
      BY <1>1, <3>1, <3>2
  <2> QED
    BY <1>3, <2>1, AllowedSame DEF IInv
<1>9. FlagsDerived'
  BY <1>3 DEF IInv, FlagsDerived
<1>10. TextsMeant'
  <2>1. TextsOf(wire[n], q[p][BINARY].him) /\ TextsOf(wire[p], q[n][BINARY].him)
    BY <1>1 DEF IInv, TextsMeant
  <2>2. flags[n] = IF BINARY \in Option THEN BinaryFlags(q[n][BINARY]) ELSE {}
    BY DEF IInv, FlagsDerived
  <2>3. TextsOf(Append(wire[n], t), q[p][BINARY].him)
    <3> DEFINE us == q[n][BINARY].us
               him == q[p][BINARY].him
               l == lost[p][BINARY]
    <3>1. CASE BINARY \in Option
      <4>1. us \in QState /\ him \in QState /\ l \in BOOLEAN
        BY <1>1, <1>2, <3>1
      <4>2. HalfOf(l, him, us, wire[p], wire[n], BINARY, "us")
        BY <3>1 DEF IInv, Halves, Half, Side, Asker, Other
      <4>3. /\ Awaits(us) => u
            /\ b <=> us = "YES"
        BY <2>2, <3>1 DEF BinaryFlags
      <4> HIDE DEF us, him, l, b, u, p
      <4> QED
        BY <1>2, <1>4, <2>1, <3>1, <4>1, <4>2, <4>3, TextsAppended, ZenonT(60) DEF him
    <3>2. CASE BINARY \notin Option
      <4>1. ~b
        BY <2>2, <3>2
      <4> HIDE DEF us, him, l, b, u, p
      <4> QED
        BY <1>2, <1>4, <2>1, <3>2, <4>1, TextsAppended DEF him
    <3> QED
      BY <3>1, <3>2
  <2> HIDE DEF t
  <2>4. TextsOf(wire'[n], q'[p][BINARY].him) /\ TextsOf(wire'[p], q'[n][BINARY].him)
    BY <1>3, <1>5, <2>1, <2>3
  <2> QED
    BY <1>1, <2>4 DEF TextsMeant, TextsOf, Peer
<1>11. LocalOnReported'
  BY <1>3 DEF IInv, LocalOnReported
<1> QED
  BY <1>6, <1>7, <1>8, <1>9, <1>10, <1>11 DEF IInv

\* What is left of a stream when its first packet is taken.
LEMMA TakenFacts ==
    ASSUME TypeOK, NEW n \in Node, NEW kind, Reads(n, kind)
    PROVE  /\ Taken(n) \in [Node -> Seq(Packet)]
           /\ Taken(n)[n] = wire[n]
           /\ Taken(n)[Peer(n)] = Tail(wire[Peer(n)])
           /\ wire[Peer(n)] # <<>> /\ wire[Peer(n)] \in Seq(Packet)
           /\ 1 \in DOMAIN wire[Peer(n)]
           /\ Head(wire[Peer(n)]) = wire[Peer(n)][1]
           /\ Head(wire[Peer(n)]) \in Packet /\ Head(wire[Peer(n)]).kind = kind
           /\ \A i \in DOMAIN Tail(wire[Peer(n)]) :
                 \E j \in DOMAIN wire[Peer(n)] : Tail(wire[Peer(n)])[i] = wire[Peer(n)][j]
<1> DEFINE w == wire[Peer(n)]
<1>1. Peer(n) \in Node /\ Peer(n) # n
  BY PeerProperties
<1>2. wire \in [Node -> Seq(Packet)] /\ w \in Seq(Packet) /\ w # <<>> /\ Head(w).kind = kind
  BY <1>1 DEF TypeOK, Reads
<1>3. Taken(n) = [wire EXCEPT ![Peer(n)] = Tail(w)]
  BY DEF Taken
<1> HIDE DEF w
<1>4. /\ Len(w) \in Nat /\ Len(w) # 0 /\ DOMAIN w = 1 .. Len(w)
      /\ Tail(w) \in Seq(Packet) /\ DOMAIN Tail(w) = 1 .. Len(w) - 1
      /\ \A i \in 1 .. Len(w) - 1 : Tail(w)[i] = w[i + 1]
      /\ Head(w) = w[1] /\ Head(w) \in Packet
  BY <1>2, HeadTailProperties, LenProperties, EmptySeq
<1>5. 1 \in DOMAIN w
  BY <1>4
<1>6. \A i \in DOMAIN Tail(w) : \E j \in DOMAIN w : Tail(w)[i] = w[j]
  <2> SUFFICES ASSUME NEW i \in 1 .. Len(w) - 1
               PROVE  i + 1 \in 1 .. Len(w)
    BY <1>4
  <2> QED
    BY <1>4
<1>7. /\ Taken(n) \in [Node -> Seq(Packet)] /\ Taken(n)[n] = wire[n]
      /\ Taken(n)[Peer(n)] = Tail(w)
  BY <1>1, <1>2, <1>3, <1>4
<1> QED
  BY <1>2, <1>4, <1>5, <1>6, <1>7 DEF w

LEMMA ReceiveTextStep ==
    ASSUME IInv, NEW n \in Node, ReceiveText(n)
    PROVE  IInv'
<1> DEFINE p == Peer(n)
           w == wire[p]
<1>1. p \in Node /\ p # n /\ Peer(p) = n /\ \A e \in Node : e = n \/ e = p
  BY PeerProperties
<1>2. /\ wire' = Taken(n)
      /\ telopts' = telopts /\ q' = q /\ flags' = flags /\ view' = view /\ lost' = lost
      /\ Reads(n, "text")
  BY DEF ReceiveText
<1>3. /\ wire' \in [Node -> Seq(Packet)] /\ wire'[n] = wire[n] /\ wire'[p] = Tail(w)
      /\ w # <<>> /\ w \in Seq(Packet) /\ Head(w) = w[1] /\ w[1].kind = "text"
      /\ \A i \in DOMAIN Tail(w) : \E j \in DOMAIN w : Tail(w)[i] = w[j]
  BY <1>2, TakenFacts DEF IInv
<1> HIDE DEF p, w
<1>4. TypeOK'
  BY <1>2, <1>3 DEF IInv, TypeOK
<1>5. Halves'
  <2>1. ASSUME NEW s \in Side, NEW o \in Option
        PROVE  Half(n, s, o)'
    <3> DEFINE l == lost[Asker(n, s)][o]
    <3>1. HalfOf(l, q[p][o][Other(s)], q[n][o][s], w, wire[n], o, s)
      BY DEF IInv, Halves, Half, p, w
    <3> HIDE DEF l
    <3>2. HalfOf(l, q[p][o][Other(s)], q[n][o][s], Tail(w), wire[n], o, s)
      BY <1>3, <3>1, HalfOfOtherTaken
    <3>3. HalfOf(lost'[Asker(n, s)][o], q'[p][o][Other(s)], q'[n][o][s], wire'[p], wire'[n], o, s)
      BY <1>2, <1>3, <3>2 DEF l
    <3> QED
      BY <3>3 DEF Half, HalfOf, Asker, Peer, p
  <2>2. (TypeOK /\ OneEnd => Halves)'
    BY HalvesOfOneEnd, PTL
  <2>3. OneEnd'
    BY <2>1 DEF OneEnd
  <2> QED
    BY <1>4, <2>2, <2>3
<1>6. Allowed'
  <2>1. \A e \in Node : \A i \in DOMAIN wire'[e] :
           \E j \in DOMAIN wire[e] : wire'[e][i] = wire[e][j]
    <3>1. \A i \in DOMAIN wire'[n] : \E j \in DOMAIN wire[n] : wire'[n][i] = wire[n][j]
      BY <1>3
    <3>2. \A i \in DOMAIN wire'[p] : \E j \in DOMAIN wire[p] : wire'[p][i] = wire[p][j]
      BY <1>3 DEF w
    <3> QED
      BY <1>1, <3>1, <3>2
  <2> QED
    BY <1>2, <2>1, AllowedSame DEF IInv
<1>7. FlagsDerived'
  BY <1>2 DEF IInv, FlagsDerived
<1>8. TextsMeant'
  <2>1. TextsOf(wire[n], q[p][BINARY].him) /\ TextsOf(w, q[n][BINARY].him)
    BY <1>1 DEF IInv, TextsMeant, p, w
  <2>2. 1 \notin About(w, BINARY, {"WILL", "WONT"})
    BY <1>3 DEF About
  <2>3. TextsOf(Tail(w), q[n][BINARY].him)
    BY <1>3, <2>1, <2>2, TextsTaken
  <2>4. TextsOf(wire'[n], q'[p][BINARY].him) /\ TextsOf(wire'[p], q'[n][BINARY].him)
    BY <1>2, <1>3, <2>1, <2>3
  <2> QED
    BY <1>1, <2>4 DEF TextsMeant, TextsOf, Peer, p
<1>9. LocalOnReported'
  BY <1>2 DEF IInv, LocalOnReported
<1> QED
  BY <1>4, <1>5, <1>6, <1>7, <1>8, <1>9 DEF IInv

LEMMA ReceiveCommandStep ==
    ASSUME IInv, NEW n \in Node, ReceiveCommand(n)
    PROVE  IInv'
<1> DEFINE p == Peer(n)
           w == wire[p]
           c == Head(w).cmd
           o == Head(w).opt
           s == ToldSide(c)
           was == q[n][o][s]
           sup == Supports(n, c, o)
           m == Receive(c, was, sup)
           send == m.send
           st == m.q
           event == m.event
           loses == LosesRequest(c, was)
<1>1. p \in Node /\ p # n /\ Peer(p) = n /\ \A e \in Node : e = n \/ e = p
  BY PeerProperties
<1>2. /\ Taken(n) \in [Node -> Seq(Packet)] /\ Taken(n)[n] = wire[n] /\ Taken(n)[p] = Tail(w)
      /\ w # <<>> /\ w \in Seq(Packet) /\ 1 \in DOMAIN w /\ Head(w) = w[1]
      /\ Head(w) \in Packet /\ Head(w).kind = "command"
      /\ \A i \in DOMAIN Tail(w) : \E j \in DOMAIN w : Tail(w)[i] = w[j]
  <2>1. TypeOK /\ Reads(n, "command")
    BY DEF IInv, ReceiveCommand
  <2> QED
    BY <2>1, TakenFacts
<1>3. c \in NegCmd /\ o \in Option
  BY <1>2 DEF Packet
<1>4. /\ s \in Side /\ AskedSide(c) = Other(s) /\ c \in Cmds(Other(s))
      /\ \A t \in Side : c \in Cmds(Other(t)) => t = s
  <2> HIDE DEF c
  <2>1. /\ AskedSide(c) \in Side /\ ToldSide(c) = Other(AskedSide(c)) /\ ToldSide(c) \in Side
        /\ \A t \in Side : c \in Cmds(t) => AskedSide(c) = t
        /\ c \in Cmds(Other(ToldSide(c)))
    BY <1>3, CommandSides
  <2> QED
    BY <2>1, SideProperties
<1>5. /\ q \in [Node -> [Option -> [us : QState, him : QState]]]
      /\ wire \in [Node -> Seq(Packet)]
      /\ view \in [Node -> [Option -> [us : Belief, him : Belief]]]
      /\ lost \in [Node -> [Option -> BOOLEAN]]
  BY DEF IInv, TypeOK
<1>6. \A e \in Node, x \in Option, t \in Side : q[e][x][t] \in QState
  BY <1>5 DEF Side
<1>7. was \in QState /\ sup \in BOOLEAN /\ loses \in BOOLEAN
  <2>1. was \in QState
    BY <1>3, <1>4, <1>6
  <2> QED
    BY <2>1 DEF Supports, LosesRequest
<1>8. /\ st \in QState /\ send \in Cmds(s) \cup {None} /\ event \in NegCmd \cup {None}
      /\ st = "YES" => was = "YES" \/ Affirms(c)
      /\ st # "NO" => was # "NO" \/ sup
      /\ Affirms(send) => was # "NO" \/ sup
      /\ event = "DONT" => s = "us" /\ st = "NO"
      /\ s = "us" /\ st = "YES" => event = "DO" \/ (event = None /\ was = "YES")
      /\ loses => s = "him"
  <2> HIDE DEF c, was, sup
  <2> QED
    BY <1>3, <1>7, ReceiveFacts
<1>9. send \in NegCmd \cup {None}
  BY <1>4, <1>8, SideProperties
<1>10. /\ SetRfc1143(n, o, s, st)
       /\ wire' = SendNegotiate(n, send, o, Taken(n))
       /\ view' = [view EXCEPT ![n][o] = Informed(@, event)]
       /\ lost' = [lost EXCEPT ![n][o] = @ \/ loses]
       /\ telopts' = telopts
  BY DEF ReceiveCommand
<1> HIDE DEF c, o, s, was, sup, m, send, st, event, loses
<1>11. /\ wire' \in [Node -> Seq(Packet)]
       /\ wire'[n] = Sent(wire[n], send, o) /\ wire'[p] = Tail(w)
  <2> DEFINE left == Taken(n)
  <2>1. /\ left \in [Node -> Seq(Packet)] /\ left[n] = wire[n] /\ left[p] = Tail(w)
        /\ wire' = SendNegotiate(n, send, o, left)
    BY <1>2, <1>10
  <2> HIDE DEF left, w
  <2>2. /\ SendNegotiate(n, send, o, left) \in [Node -> Seq(Packet)]
        /\ SendNegotiate(n, send, o, left)[n] = Sent(left[n], send, o)
        /\ SendNegotiate(n, send, o, left)[p] = left[p]
    BY <1>3, <1>9, <2>1, SendProperties
  <2> QED
    BY <2>1, <2>2
<1> HIDE DEF w, p
<1>12. /\ q' \in [Node -> [Option -> [us : QState, him : QState]]]
       /\ q'[n][o][s] = st
       /\ MovesOnly(n, o, s)
       /\ flags' \in [Node -> SUBSET {"TRANSMIT_BINARY", "RECEIVE_BINARY"}]
       /\ FlagsDerived'
  BY <1>3, <1>4, <1>8, <1>10, SetProperties DEF IInv, MovesOnly
<1>13. /\ lost' \in [Node -> [Option -> BOOLEAN]]
       /\ lost'[n][o] = (lost[n][o] \/ loses)
       /\ \A e \in Node, x \in Option : ~(e = n /\ x = o) => lost'[e][x] = lost[e][x]
  BY <1>3, <1>5, <1>7, <1>10
<1>14. /\ Informed(view[n][o], event) \in [us : Belief, him : Belief]
       /\ event = "DO" => Informed(view[n][o], event).us = "on"
       /\ event # "DONT" => Informed(view[n][o], event).us \in {view[n][o].us, "on"}
  <2>1. view[n][o] \in [us : Belief, him : Belief]
    BY <1>3, <1>5
  <2> QED
    BY <1>8, <2>1, InformedFacts
<1>15. /\ view' \in [Node -> [Option -> [us : Belief, him : Belief]]]
       /\ view'[n][o] = Informed(view[n][o], event)
       /\ \A e \in Node, x \in Option : ~(e = n /\ x = o) => view'[e][x] = view[e][x]
  BY <1>3, <1>5, <1>10, <1>14
<1>16. TypeOK'
  BY <1>10, <1>11, <1>12, <1>13, <1>15 DEF IInv, TypeOK
<1>17. Halves'
  <2>1. ASSUME NEW t \in Side, NEW x \in Option
        PROVE  Half(n, t, x)'
    <3> DEFINE l == lost[Asker(n, t)][x]
               a == q[p][x][Other(t)]
    <3>1. /\ l \in BOOLEAN /\ a \in QState /\ Other(t) \in Side /\ q[n][x][t] \in QState
          /\ q'[p][x][Other(t)] = a /\ wire[n] \in Seq(Packet)
      BY <1>1, <1>5, <1>6, <1>12, SideProperties DEF MovesOnly
    <3>2. HalfOf(l, a, q[n][x][t], w, wire[n], x, t)
      BY DEF IInv, Halves, Half, p, w
    <3> HIDE DEF l, a
    <3>3. HalfOf(lost'[Asker(n, t)][x], a, q'[n][x][t], Tail(w), Sent(wire[n], send, o), x, t)
      <4>1. CASE x = o /\ t = s
        <5>1. HalfOf(l, a, was, w, wire[n], o, s)
          BY <3>2, <4>1 DEF was
        <5>2. Receive(c, was, sup).send \in Cmds(s) \cup {None}
          BY <1>8 DEF send, m
        <5>3. /\ w # <<>> /\ w \in Seq(Packet)
              /\ Head(w).kind = "command" /\ Head(w).opt = o /\ c = Head(w).cmd
          BY <1>2 DEF o, c
        <5>4. HalfOf(l \/ loses, a, st, Tail(w), Sent(wire[n], send, o), o, s)
          BY <1>3, <1>4, <1>7, <3>1, <5>1, <5>2, <5>3, HalfOfReceived DEF loses, st, send, m
        <5>5. lost'[Asker(n, s)][o] = (l \/ loses)
          <6>1. CASE s = "him"
            BY <1>13, <4>1, <6>1 DEF Asker, l
          <6>2. CASE s = "us"
            BY <1>1, <1>3, <1>8, <1>13, <3>1, <4>1, <6>2 DEF Asker, l, p
          <6> QED
            BY <1>4, <6>1, <6>2 DEF Side
        <5> QED
          BY <1>12, <4>1, <5>4, <5>5
      <4>2. CASE ~(x = o /\ t = s)
        <5>1. ~(Head(w).kind = "command" /\ Head(w).opt = x /\ Head(w).cmd \in Cmds(Other(t)))
          BY <1>4, <4>2 DEF o, c
        <5>2. HalfOf(l, a, q[n][x][t], Tail(w), wire[n], x, t)
          BY <1>2, <3>2, <5>1, HalfOfOtherTaken
        <5>3. HalfOf(l, a, q[n][x][t], Tail(w), Sent(wire[n], send, o), x, t)
          BY <1>3, <1>4, <1>8, <3>1, <4>2, <5>2, HalfOfOther
        <5>4. lost'[Asker(n, t)][x] = l
          <6>1. CASE t = "us"
            BY <1>1, <1>13, <6>1 DEF Asker, l, p
          <6>2. CASE t = "him" /\ x = o
            <7>1. s # "him"
              BY <4>2, <6>2
            <7>2. ~loses
              BY <1>8, <7>1
            <7> QED
              BY <1>5, <1>13, <6>2, <7>2 DEF Asker, l
          <6>3. CASE t = "him" /\ x # o
            BY <1>13, <6>3 DEF Asker, l
          <6> QED
            BY <6>1, <6>2, <6>3 DEF Side
        <5>5. q'[n][x][t] = q[n][x][t]
          BY <1>12, <4>2 DEF MovesOnly
        <5> QED
          BY <5>3, <5>4, <5>5
      <4> QED
        BY <4>1, <4>2
    <3>4. HalfOf(lost'[Asker(n, t)][x], q'[p][x][Other(t)], q'[n][x][t], wire'[p], wire'[n], x, t)
      BY <1>11, <3>1, <3>3
    <3> QED
      BY <3>4 DEF Half, HalfOf, Asker, Peer, p
  <2>2. (TypeOK /\ OneEnd => Halves)'
    BY HalvesOfOneEnd, PTL
  <2>3. OneEnd'
    BY <2>1 DEF OneEnd
  <2> QED
    BY <1>16, <2>2, <2>3
<1>18. Allowed'
  <2>1. was # "NO" \/ sup => May(n, s, o)
    <3>1. was # "NO" => May(n, s, o)
      BY <1>3, <1>4 DEF IInv, Allowed, was
    <3>2. sup => May(n, s, o)
      BY DEF May, sup, Supports, s
    <3> QED
      BY <3>1, <3>2
  <2>2. was = "YES" \/ Affirms(c) => May(Peer(n), Other(s), o)
    <3>1. was = "YES" => May(Peer(n), Other(s), o)
      BY <1>3, <1>4 DEF IInv, Allowed, was
    <3>2. Affirms(c) => May(p, Other(s), o)
      <4>1. /\ 1 \in DOMAIN wire[p] /\ wire[p][1].kind = "command"
            /\ wire[p][1].cmd = c /\ wire[p][1].opt = o
        BY <1>2 DEF w, c, o
      <4> QED
        BY <1>1, <1>4, <4>1 DEF IInv, Allowed
    <3> QED
      BY <3>1, <3>2 DEF p
  <2>3. /\ q'[n][o][s] # "NO" => May(n, s, o)
        /\ q'[n][o][s] = "YES" => May(Peer(n), Other(s), o)
    BY <1>8, <1>12, <2>1, <2>2
  <2>4. Affirms(send) => May(n, AskedSide(send), o)
    <3>1. Affirms(send) => send \in Cmds(s)
      BY <1>8 DEF Affirms, None
    <3>2. send \in Cmds(s) => AskedSide(send) = s
      BY <1>4 DEF Cmds, AskedSide, Side
    <3> QED
      BY <1>8, <2>1, <3>1, <3>2
  <2>5. SendsOnly(n, send, o)
    <3>1. \A i \in DOMAIN wire'[p] : \E j \in DOMAIN wire[p] : wire'[p][i] = wire[p][j]
      BY <1>2, <1>11 DEF w
    <3>2. \A i \in DOMAIN wire'[n] : \/ \E j \in DOMAIN wire[n] : wire'[n][i] = wire[n][j]
                                     \/ wire'[n][i] = Command(send, o)
      BY <1>3, <1>5, <1>9, <1>11, SentPackets
    <3> QED
      BY <1>1, <3>1, <3>2 DEF SendsOnly
  <2>6. TypeOK /\ Allowed /\ telopts' = telopts /\ MovesOnly(n, o, s)
    BY <1>10, <1>12 DEF IInv
  <2> QED
    BY <1>3, <1>4, <2>3, <2>4, <2>5, <2>6, AllowedStep
<1>19. TextsMeant'
  <2>1. TextsOf(wire[n], q[p][BINARY].him) /\ TextsOf(w, q[n][BINARY].him)
    BY <1>1 DEF IInv, TextsMeant, p, w
  <2>2. q'[p] = q[p]
    BY <1>1, <1>5, <1>10 DEF SetRfc1143
  <2>3. TextsOf(wire'[n], q'[p][BINARY].him)
    BY <1>3, <1>5, <1>9, <1>11, <2>1, <2>2, TextsSent
  <2>4. TextsOf(Tail(w), q'[n][BINARY].him)
    <3> DEFINE him == q[n][BINARY].him
               now == q'[n][BINARY].him
    <3>1. 1 \in About(w, BINARY, {"WILL", "WONT"}) <=> o = BINARY /\ s = "him"
      <4>1. c \in {"WILL", "WONT"} <=> s = "him"
        BY DEF s, ToldSide
      <4>2. w[1].kind = "command" /\ w[1].opt = o /\ w[1].cmd = c
        BY <1>2 DEF o, c
      <4> QED
        BY <1>2, <4>1, <4>2 DEF About
    <3>2. BINARY \in Option => him \in QState
      BY <1>5
    <3>3. o = BINARY /\ s = "him" => now = Receive(w[1].cmd, him, sup).q
      BY <1>2, <1>12 DEF st, m, c, was
    <3>4. BINARY \in Option /\ ~(o = BINARY /\ s = "him") => now = him
      BY <1>12 DEF MovesOnly, Side
    <3> HIDE DEF him, now
    <3>5. BINARY \in Option =>
             IF 1 \in About(w, BINARY, {"WILL", "WONT"})
             THEN him \in QState /\ \E sp \in BOOLEAN : now = Receive(w[1].cmd, him, sp).q
             ELSE now = him
      BY <1>7, <3>1, <3>2, <3>3, <3>4
    <3> QED
      BY <1>2, <2>1, <3>5, TextsTaken DEF him, now
  <2>5. TextsOf(wire'[p], q'[n][BINARY].him)
    BY <1>11, <2>4
  <2> QED
    BY <1>1, <2>3, <2>5 DEF TextsMeant, TextsOf, Peer, p
<1>20. LocalOnReported'
  <2> SUFFICES ASSUME NEW e \in Node, NEW x \in Option, q'[e][x].us = "YES"
               PROVE  view'[e][x].us = "on"
    BY DEF LocalOnReported
  <2>1. q[e][x].us = "YES" => view[e][x].us = "on"
    BY DEF IInv, LocalOnReported
  <2>2. CASE ~(e = n /\ x = o)
    <3>1. q'[e][x].us = q[e][x].us
      BY <1>12, <2>2 DEF MovesOnly, Side
    <3> QED
      BY <1>15, <2>1, <2>2, <3>1
  <2>3. CASE e = n /\ x = o /\ s = "us"
    <3>1. st = "YES" /\ was = q[n][o].us
      BY <1>12, <2>3 DEF was
    <3>2. CASE event = "DO"
      BY <1>14, <1>15, <2>3, <3>2
    <3>3. CASE event = None /\ was = "YES"
      BY <1>15, <2>1, <2>3, <3>1, <3>3 DEF Informed
    <3> QED
      BY <1>8, <2>3, <3>1, <3>2, <3>3
  <2>4. CASE e = n /\ x = o /\ s # "us"
    <3>1. q'[e][x].us = q[e][x].us
      BY <1>12, <2>4 DEF MovesOnly, Side
    <3>2. event # "DONT"
      BY <1>8, <2>4
    <3> QED
      BY <1>14, <1>15, <2>1, <2>4, <3>1, <3>2
  <2> QED
    BY <2>2, <2>3, <2>4
<1> QED
  BY <1>12, <1>16, <1>17, <1>18, <1>19, <1>20 DEF IInv

\* No command is in flight: there is none on an empty stream.
LEMMA ListsNone ==
    ASSUME NEW cs \in Seq(NegCmd), NEW o, NEW cmds, Lists(cs, <<>>, o, cmds)
    PROVE  Len(cs) = 0
<1>1. PICK f : Placed(f, cs, <<>>, o, cmds)
  BY DEF Lists
<1>2. About(<<>>, o, cmds) = {}
  BY DEF About
<1>3. Len(cs) \in Nat
  BY LenProperties
<1>4. CASE 1 \in 1 .. Len(cs)
  BY <1>1, <1>2, <1>4 DEF Placed
<1>5. CASE 1 \notin 1 .. Len(cs)
  BY <1>3, <1>5
<1> QED
  BY <1>4, <1>5

LEMMA InitStep == Init => IInv
<1> SUFFICES ASSUME Init
             PROVE  IInv
  OBVIOUS
<1>1. \A n \in Node, o \in Option, s \in Side :
         q[n][o][s] = "NO" /\ wire[n] = <<>> /\ lost[n][o] = FALSE
  BY DEF Init, Side
<1>2. TypeOK
  <2>1. <<>> \in Seq(Packet) /\ "NO" \in QState /\ "off" \in Belief
    BY DEF QState, Belief
  <2> QED
    BY <2>1 DEF Init, TypeOK
<1>3. Halves
  <2> SUFFICES ASSUME NEW n \in Node, NEW s \in Side, NEW o \in Option
               PROVE  Half(n, s, o)
    BY DEF Halves
  <2>1. /\ Peer(n) \in Node /\ Other(s) \in Side /\ Asker(n, s) \in Node
    BY PeerProperties, SideProperties
  <2>2. /\ lost[Asker(n, s)][o] = FALSE /\ q[Peer(n)][o][Other(s)] = "NO" /\ q[n][o][s] = "NO"
        /\ wire[n] = <<>> /\ wire[Peer(n)] = <<>>
    BY <1>1, <2>1
  <2>3. HalfState(FALSE, "NO", "NO", <<>>, <<>>)
    BY DEF HalfState, CoherentEnds, W, Awaits
  <2>4. HalfOf(FALSE, "NO", "NO", <<>>, <<>>, o, s)
    <3>1. <<>> \in Seq(NegCmd)
      OBVIOUS
    <3> QED
      BY <2>3, <3>1, ListsEmpty DEF HalfOf
  <2> QED
    BY <2>2, <2>4 DEF Half
<1>4. Allowed
  <2>1. \A n \in Node : DOMAIN wire[n] = {}
    BY <1>1 DEF Init
  <2> QED
    BY <1>1, <2>1 DEF Allowed
<1>5. FlagsDerived
  <2>1. BinaryFlags([us |-> "NO", him |-> "NO"]) = {}
    BY DEF BinaryFlags
  <2> QED
    BY <2>1 DEF FlagsDerived, Init
<1>6. TextsMeant
  <2>1. \A n \in Node : DOMAIN wire[n] = {}
    BY DEF Init
  <2> QED
    BY <2>1 DEF TextsMeant, TextsOf
<1>7. LocalOnReported
  BY DEF Init, LocalOnReported
<1> QED
  BY <1>2, <1>3, <1>4, <1>5, <1>6, <1>7 DEF IInv

LEMMA IInvHolds == Spec => []IInv
<1>1. Init => IInv
  BY InitStep
<1>2. IInv /\ [Next]_vars => IInv'
  <2> SUFFICES ASSUME IInv, [Next]_vars
               PROVE  IInv'
    OBVIOUS
  <2>1. ASSUME NEW n \in Node, NEW cmd \in NegCmd, NEW o \in Option,
               <<n, cmd, o>> \in AppCmds, Negotiate(n, cmd, o)
        PROVE  IInv'
    BY <2>1, NegotiateStep
  <2>2. ASSUME NEW n \in Node, SendText(n)
        PROVE  IInv'
    BY <2>2, SendTextStep
  <2>3. ASSUME NEW n \in Node, ReceiveCommand(n)
        PROVE  IInv'
    BY <2>3, ReceiveCommandStep
  <2>4. ASSUME NEW n \in Node, ReceiveText(n)
        PROVE  IInv'
    BY <2>4, ReceiveTextStep
  <2>5. CASE UNCHANGED vars
    BY <2>5 DEF vars, IInv, TypeOK, Halves, Half, HalfOf, Allowed, May, FlagsDerived, TextsMeant,
                TextsOf, LocalOnReported
  <2> QED
    BY <2>1, <2>2, <2>3, <2>4, <2>5 DEF Next, ReceiveAny
<1> QED
  BY <1>1, <1>2, PTL DEF Spec

-----------------------------------------------------------------------------
(* What follows.                                                           *)

\* The states, flags, streams and beliefs of both ends keep their types.
THEOREM TypeCorrect == Spec => []TypeOK
<1>1. IInv => TypeOK
  BY DEF IInv
<1> QED
  BY <1>1, IInvHolds, PTL

\* An option comes on, at either end, only if the table or the application of
\* each end allows it: nothing is asked for or confirmed otherwise.
THEOREM ConsentHolds == Spec => []Consent
<1>1. IInv => Consent
  <2> SUFFICES ASSUME IInv, NEW n \in Node, NEW o \in Option,
                      q[n][o].us = "YES" \/ q[Peer(n)][o].him = "YES"
               PROVE  May(n, "us", o) /\ May(Peer(n), "him", o)
    BY DEF Consent, May
  <2>1. Peer(n) \in Node /\ Peer(Peer(n)) = n
    BY PeerProperties
  <2>2. /\ "us" \in Side /\ "him" \in Side /\ Other("us") = "him" /\ Other("him") = "us"
    BY DEF Side, Other
  <2>3. \A m \in Node, s \in Side : q[m][o][s] = "YES" => May(m, s, o) /\ May(Peer(m), Other(s), o)
    BY DEF IInv, Allowed
  <2> QED
    BY <2>1, <2>2, <2>3
<1> QED
  BY <1>1, IInvHolds, PTL

\* The events of _negotiate() tell an application of every option that is on at
\* its own end.
THEOREM LocalOnReportedHolds == Spec => []LocalOnReported
<1>1. IInv => LocalOnReported
  BY DEF IInv
<1> QED
  BY <1>1, IInvHolds, PTL

\* When nothing is in flight and no DO was lost, one end encodes text as the
\* other decodes it.
THEOREM FlagsAgreeHolds == Spec => []FlagsAgree
<1>1. IInv => FlagsAgree
  <2> SUFFICES ASSUME IInv, NEW n \in Node, wire = [m \in Node |-> <<>>],
                      \A m \in Node, o \in Option : ~lost[m][o]
               PROVE  "TRANSMIT_BINARY" \in flags[n] <=> "RECEIVE_BINARY" \in flags[Peer(n)]
    BY DEF FlagsAgree
  <2>1. Peer(n) \in Node
    BY PeerProperties
  <2>2. /\ flags[n] = IF BINARY \in Option THEN BinaryFlags(q[n][BINARY]) ELSE {}
        /\ flags[Peer(n)] = IF BINARY \in Option THEN BinaryFlags(q[Peer(n)][BINARY]) ELSE {}
    BY <2>1 DEF IInv, FlagsDerived
  <2>3. CASE BINARY \notin Option
    BY <2>2, <2>3
  <2>4. CASE BINARY \in Option
    <3> DEFINE him == q[Peer(n)][BINARY].him
               us == q[n][BINARY].us
    <3>1. ~lost[Peer(n)][BINARY] /\ wire[n] = <<>> /\ wire[Peer(n)] = <<>>
      BY <2>1, <2>4
    <3>2. HalfOf(lost[Peer(n)][BINARY], him, us, <<>>, <<>>, BINARY, "us")
      <4>1. Half(n, "us", BINARY)
        BY <2>4 DEF IInv, Halves, Side
      <4> QED
        BY <3>1, <4>1 DEF Half, Asker, Other
    <3> HIDE DEF him, us
    <3>3. PICK out \in Seq(NegCmd), in \in Seq(NegCmd) :
            /\ Lists(out, <<>>, BINARY, Cmds(Other("us")))
            /\ Lists(in, <<>>, BINARY, Cmds("us"))
            /\ CoherentEnds(him, us, out, in)
      BY <3>1, <3>2 DEF HalfOf, HalfState
    <3>4. Len(out) = 0 /\ Len(in) = 0
      BY <3>3, ListsNone
    <3>5. him = us
      BY <3>3, <3>4 DEF CoherentEnds
    <3> QED
      BY <2>2, <2>4, <3>5 DEF BinaryFlags, him, us
  <2> QED
    BY <2>3, <2>4
<1> QED
  BY <1>1, IInvHolds, PTL

\* A text is decoded other than it was encoded only if BINARY was under
\* negotiation at one end, whatever commands and texts are in flight.
THEOREM SkewOnlyUnsettledHolds == Spec => []SkewOnlyUnsettled
<1>1. IInv => SkewOnlyUnsettled
  <2> SUFFICES ASSUME IInv, NEW n \in Node, Reads(n, "text")
               PROVE  LET text == Head(wire[Peer(n)])
                      IN  \/ text.binary = ("RECEIVE_BINARY" \in flags[n])
                          \/ text.unsettled
                          \/ Awaits(q[n][BINARY].him)
    BY DEF SkewOnlyUnsettled
  <2> DEFINE w == wire[Peer(n)]
             him == q[n][BINARY].him
  <2>1. Peer(n) \in Node /\ Peer(Peer(n)) = n
    BY PeerProperties
  <2>2. /\ w \in Seq(Packet) /\ 1 \in DOMAIN w /\ Head(w) = w[1] /\ w[1].kind = "text"
        /\ w[1] \in Packet
    BY TakenFacts DEF IInv
  <2>3. w[1].binary \in BOOLEAN
    BY <2>2 DEF Packet
  <2>4. flags[n] = IF BINARY \in Option THEN BinaryFlags(q[n][BINARY]) ELSE {}
    BY DEF IInv, FlagsDerived
  <2>5. TextsOf(w, him)
    BY <2>1 DEF IInv, TextsMeant
  <2>6. IF BINARY \in Option THEN w[1].unsettled \/ TextMeant(w, 1, w[1].binary, him)
                             ELSE ~w[1].binary
    <3> HIDE DEF w, him
    <3> QED
      BY <2>2, <2>5 DEF TextsOf
  <2>7. CASE BINARY \notin Option
    <3>1. ~w[1].binary /\ flags[n] = {}
      BY <2>4, <2>6, <2>7
    <3>2. w[1].binary = ("RECEIVE_BINARY" \in flags[n])
      BY <2>3, <3>1
    <3> QED
      BY <2>2, <3>2
  <2>8. CASE BINARY \in Option /\ TextMeant(w, 1, w[1].binary, him)
    <3>1. Prior(w, 1) = {}
      <4> HIDE DEF w
      <4>1. 1 \notin About(w, BINARY, {"WILL", "WONT"})
        BY <2>2 DEF About
      <4>2. \A j \in 1 .. 1 : j = 1
        OBVIOUS
      <4> QED
        BY <4>1, <4>2 DEF Prior
    <3>2. Awaits(him) \/ (him = "YES" <=> w[1].binary)
      BY <2>8, <3>1 DEF TextMeant
    <3>3. "RECEIVE_BINARY" \in flags[n] <=> him = "YES"
      BY <2>4, <2>8 DEF BinaryFlags
    <3>4. Awaits(him) \/ w[1].binary = ("RECEIVE_BINARY" \in flags[n])
      BY <2>3, <3>2, <3>3
    <3> QED
      BY <2>2, <3>4
  <2> QED
    BY <2>2, <2>6, <2>7, <2>8
<1> QED
  BY <1>1, IInvHolds, PTL

-----------------------------------------------------------------------------
(* Commands: the sequence that lists the commands about a side.            *)

\* As many positions as the function from 1 .. n enumerates in order.
LEMMA Enumerated ==
    ASSUME NEW n \in Nat, NEW T, NEW f \in [1 .. n -> T],
           \A i, j \in 1 .. n : f[i] = f[j] => i = j,
           \A k \in T : \E i \in 1 .. n : f[i] = k
    PROVE  Cardinality(T) = n
<1>1. f \in Bijection(1 .. n, T)
  BY DEF Bijection, Injection, Surjection, IsInjective
<1> QED
  BY <1>1, FS_CountingElements DEF ExistsBijection

LEMMA ListsIs ==
    ASSUME NEW o, NEW cmds, NEW cs \in Seq(NegCmd), NEW w \in Seq(Packet),
           Lists(cs, w, o, cmds)
    PROVE  Commands(w, o, cmds) = cs
<1> DEFINE A == About(w, o, cmds)
           n == Len(cs)
           Rank(i) == Cardinality({j \in A : j <= i})
<1>1. PICK f : Placed(f, cs, w, o, cmds)
  BY DEF Lists
<1>2. /\ n \in Nat /\ f \in [1 .. n -> A] /\ A \subseteq Nat
      /\ cs = [r \in 1 .. n |-> cs[r]]
  <2>1. A \subseteq Nat
    BY LenProperties DEF About
  <2> QED
    BY <1>1, <2>1, LenProperties DEF Placed
<1>3. /\ \A i, j \in 1 .. n : i < j => f[i] < f[j]
      /\ \A k \in A : \E i \in 1 .. n : f[i] = k
      /\ \A i \in 1 .. n : cs[i] = w[f[i]].cmd
  BY <1>1 DEF Placed
<1>4. Commands(w, o, cmds)
        = [r \in 1 .. Cardinality(A) |-> w[CHOOSE i \in A : Rank(i) = r].cmd]
  BY DEF Commands
<1> HIDE DEF A, n
<1>5. \A i \in 1 .. n : i \in Nat /\ f[i] \in Nat /\ f[i] \in A
  BY <1>2
<1>6. \A i, j \in 1 .. n : /\ f[i] = f[j] => i = j
                           /\ f[i] <= f[j] <=> i <= j
  <2> SUFFICES ASSUME NEW i \in 1 .. n, NEW j \in 1 .. n
               PROVE  (f[i] = f[j] => i = j) /\ (f[i] <= f[j] <=> i <= j)
    OBVIOUS
  <2>1. (i < j => f[i] < f[j]) /\ (j < i => f[j] < f[i]) /\ (i = j => f[i] = f[j])
    BY <1>3
  <2>2. i \in Nat /\ j \in Nat /\ f[i] \in Nat /\ f[j] \in Nat
    BY <1>5
  <2> QED
    BY <2>1, <2>2
<1>7. Cardinality(A) = n
  <2>1. \A i, j \in 1 .. n : f[i] = f[j] => i = j
    BY <1>6
  <2>2. \A k \in A : \E i \in 1 .. n : f[i] = k
    BY <1>3
  <2>3. n \in Nat /\ f \in [1 .. n -> A]
    BY <1>2
  <2> QED
    BY <2>1, <2>2, <2>3, Enumerated
<1>8. ASSUME NEW r \in 1 .. n
      PROVE  Rank(f[r]) = r
  <2> DEFINE T == {j \in A : j <= f[r]}
             g == [i \in 1 .. r |-> f[i]]
  <2>1. r \in Nat /\ \A i \in 1 .. r : i \in 1 .. n /\ i <= r
    BY <1>2
  <2>2. g \in [1 .. r -> T]
    BY <1>5, <1>6, <2>1
  <2>3. \A i, j \in 1 .. r : g[i] = g[j] => i = j
    BY <1>6, <2>1
  <2>4. ASSUME NEW k \in T
        PROVE  \E i \in 1 .. r : g[i] = k
    <3>1. PICK i \in 1 .. n : f[i] = k
      BY <1>3
    <3>2. i <= r
      BY <1>6, <3>1
    <3>3. i \in 1 .. r
      BY <1>5, <2>1, <3>2
    <3> QED
      BY <3>1, <3>3
  <2> HIDE DEF g, T
  <2>5. Cardinality(T) = r
    BY <2>1, <2>2, <2>3, <2>4, Enumerated
  <2> QED
    BY <2>5 DEF T
<1> HIDE DEF Rank
<1>9. ASSUME NEW r \in 1 .. n
      PROVE  (CHOOSE i \in A : Rank(i) = r) = f[r]
  <2>1. f[r] \in A /\ Rank(f[r]) = r
    BY <1>5, <1>8
  <2>2. ASSUME NEW i \in A, Rank(i) = r
        PROVE  i = f[r]
    <3>1. PICK j \in 1 .. n : f[j] = i
      BY <1>3
    <3> QED
      BY <1>8, <2>2, <3>1
  <2> QED
    BY <2>1, <2>2
<1>10. \A r \in 1 .. n : w[CHOOSE i \in A : Rank(i) = r].cmd = cs[r]
  BY <1>3, <1>9
<1> QED
  BY <1>2, <1>4, <1>7, <1>10

\* The stream has a list of these commands: it is the one Commands gives.
Listed(w, o, cmds) ==
    Commands(w, o, cmds) \in Seq(NegCmd) /\ Lists(Commands(w, o, cmds), w, o, cmds)

LEMMA ListedIs ==
    ASSUME NEW o, NEW cmds, NEW cs \in Seq(NegCmd), NEW w \in Seq(Packet),
           Lists(cs, w, o, cmds)
    PROVE  Listed(w, o, cmds) /\ Commands(w, o, cmds) = cs
BY ListsIs DEF Listed

LEMMA CommandsOtherSent ==
    ASSUME NEW o, NEW cmds, NEW w \in Seq(Packet), Listed(w, o, cmds), NEW p \in Packet,
           ~(p.kind = "command" /\ p.opt = o /\ p.cmd \in cmds)
    PROVE  Commands(Append(w, p), o, cmds) = Commands(w, o, cmds)
<1>1. Lists(Commands(w, o, cmds), Append(w, p), o, cmds) /\ Commands(w, o, cmds) \in Seq(NegCmd)
  BY ListsOtherSent DEF Listed
<1>2. Append(w, p) \in Seq(Packet)
  BY AppendProperties
<1> QED
  BY <1>1, <1>2, ListsIs

LEMMA CommandsSent ==
    ASSUME NEW o \in Option, NEW cmds, NEW w \in Seq(Packet), Listed(w, o, cmds),
           NEW c \in cmds, c \in NegCmd
    PROVE  Commands(Append(w, Command(c, o)), o, cmds) = Append(Commands(w, o, cmds), c)
<1> DEFINE cs == Commands(w, o, cmds)
<1>1. cs \in Seq(NegCmd) /\ Lists(cs, w, o, cmds)
  BY DEF Listed
<1> HIDE DEF cs
<1>2. Lists(Append(cs, c), Append(w, Command(c, o)), o, cmds)
  BY <1>1, ListsSent
<1>3. Command(c, o) \in Packet
  BY DEF Command, Packet
<1>4. Append(cs, c) \in Seq(NegCmd) /\ Append(w, Command(c, o)) \in Seq(Packet)
  BY <1>1, <1>3, AppendProperties
<1> QED
  BY <1>2, <1>4, ListsIs DEF cs

LEMMA CommandsOtherTaken ==
    ASSUME NEW o, NEW cmds, NEW w \in Seq(Packet), w # <<>>, Listed(w, o, cmds),
           ~(Head(w).kind = "command" /\ Head(w).opt = o /\ Head(w).cmd \in cmds)
    PROVE  Commands(Tail(w), o, cmds) = Commands(w, o, cmds)
<1> DEFINE cs == Commands(w, o, cmds)
<1>1. 1 \notin About(w, o, cmds) /\ Tail(w) \in Seq(Packet)
  BY TailPositions
<1>2. cs \in Seq(NegCmd) /\ Lists(cs, w, o, cmds)
  BY DEF Listed
<1> HIDE DEF cs
<1>3. Lists(cs, Tail(w), o, cmds)
  BY <1>1, <1>2, ListsOtherTaken
<1> QED
  BY <1>1, <1>2, <1>3, ListsIs DEF cs

LEMMA CommandsTaken ==
    ASSUME NEW o, NEW cmds, NEW w \in Seq(Packet), w # <<>>, Listed(w, o, cmds),
           Head(w).kind = "command", Head(w).opt = o, Head(w).cmd \in cmds
    PROVE  /\ Commands(w, o, cmds) # <<>> /\ Head(Commands(w, o, cmds)) = Head(w).cmd
           /\ Commands(Tail(w), o, cmds) = Tail(Commands(w, o, cmds))
<1> DEFINE cs == Commands(w, o, cmds)
<1>1. 1 \in About(w, o, cmds) /\ Tail(w) \in Seq(Packet) /\ Head(w) = w[1]
  BY TailPositions
<1>2. cs \in Seq(NegCmd) /\ Lists(cs, w, o, cmds)
  BY DEF Listed
<1> HIDE DEF cs
<1>3. /\ cs # <<>> /\ Head(cs) = w[1].cmd /\ Tail(cs) \in Seq(NegCmd)
      /\ Lists(Tail(cs), Tail(w), o, cmds)
  BY <1>1, <1>2, ListsTaken
<1> QED
  BY <1>1, <1>3, ListsIs DEF cs

-----------------------------------------------------------------------------
(* Each half is a run of QMethod.                                          *)

\* QMethod has the table of this module.
LEMMA SameTable ==
    ASSUME NEW m \in Node, NEW p \in Option, NEW c, NEW x, NEW s, NEW w
    PROVE  /\ OneHalf(m, p)!Ask(c, x) = Ask(c, x)
           /\ OneHalf(m, p)!Receive(c, x, s) = Receive(c, x, s)
           /\ OneHalf(m, p)!LosesRequest(c, x) = LosesRequest(c, x)
           /\ OneHalf(m, p)!Put(w, c) = Put(w, c)
<1>1. OneHalf(m, p)!Ask(c, x) = Ask(c, x)
  BY DEF OneHalf!Ask, OneHalf!AskOn, OneHalf!AskOff, OneHalf!Move, OneHalf!Stay, OneHalf!None,
         Ask, AskOn, AskOff, Move, Stay, None
<1>2. OneHalf(m, p)!Receive(c, x, s) = Receive(c, x, s)
  BY DEF OneHalf!Receive, OneHalf!OnWill, OneHalf!OnWont, OneHalf!OnDo, OneHalf!OnDont,
         OneHalf!Move, OneHalf!Stay, OneHalf!None,
         Receive, OnWill, OnWont, OnDo, OnDont, Move, Stay, None
<1>3. /\ OneHalf(m, p)!LosesRequest(c, x) = LosesRequest(c, x)
      /\ OneHalf(m, p)!Put(w, c) = Put(w, c)
  BY DEF OneHalf!LosesRequest, OneHalf!Put, OneHalf!None, LosesRequest, Put, None
<1> QED
  BY <1>1, <1>2, <1>3

\* Every stream has a list of the commands about every side.
LEMMA AllListed ==
    ASSUME IInv, NEW n \in Node, NEW o \in Option, NEW s \in Side
    PROVE  wire[n] \in Seq(Packet) /\ Listed(wire[n], o, Cmds(s))
<1>1. wire[n] \in Seq(Packet) /\ Half(n, s, o)
  <2>1. TypeOK /\ Halves
    BY DEF IInv
  <2> QED
    BY <2>1 DEF TypeOK, Halves
<1>2. PICK in \in Seq(NegCmd) : Lists(in, wire[n], o, Cmds(s))
  BY <1>1 DEF Half, HalfOf
<1> QED
  BY <1>1, <1>2, ListedIs

\* A command taken is the first one about its side, one sent the last.
LEMMA CommandsAnyTaken ==
    ASSUME NEW w \in Seq(Packet), w # <<>>, NEW o \in Option, NEW t \in Side, Listed(w, o, Cmds(t)),
           Head(w).kind = "command", NEW s \in Side, Head(w).cmd \in Cmds(s)
    PROVE  Commands(Tail(w), o, Cmds(t))
             = IF Head(w).opt = o /\ t = s THEN Tail(Commands(w, o, Cmds(t)))
                                           ELSE Commands(w, o, Cmds(t))
<1>1. Head(w).cmd \in Cmds(t) <=> t = s
  BY SideProperties, CommandSides
<1>2. CASE Head(w).opt = o /\ t = s
  BY <1>1, <1>2, CommandsTaken
<1>3. CASE ~(Head(w).opt = o /\ t = s)
  BY <1>1, <1>3, CommandsOtherTaken
<1> QED
  BY <1>2, <1>3

LEMMA CommandsAnySent ==
    ASSUME NEW w \in Seq(Packet), NEW o \in Option, NEW o2 \in Option,
           NEW s \in Side, NEW t \in Side, NEW c \in Cmds(s) \cup {None}, Listed(w, o2, Cmds(t))
    PROVE  Commands(Sent(w, c, o), o2, Cmds(t))
             = IF o2 = o /\ t = s THEN Put(Commands(w, o2, Cmds(t)), c)
                                  ELSE Commands(w, o2, Cmds(t))
<1>1. CASE c = None
  BY <1>1 DEF Sent, Put
<1>2. CASE c # None
  <2>1. c \in NegCmd /\ c \in Cmds(s) /\ (c \in Cmds(t) => t = s)
    BY <1>2, SideProperties, CommandSides
  <2>2. Command(c, o) \in Packet
    BY <2>1 DEF Command, Packet
  <2>3. CASE o2 = o /\ t = s
    BY <1>2, <2>1, <2>3, CommandsSent DEF Sent, Put
  <2>4. CASE ~(o2 = o /\ t = s)
    <3>1. ~(/\ Command(c, o).kind = "command" /\ Command(c, o).opt = o2
            /\ Command(c, o).cmd \in Cmds(t))
      BY <2>1, <2>4 DEF Command
    <3>2. Commands(Append(w, Command(c, o)), o2, Cmds(t)) = Commands(w, o2, Cmds(t))
      BY <2>2, <3>1, CommandsOtherSent
    <3> QED
      BY <1>2, <2>4, <3>2 DEF Sent
  <2> QED
    BY <2>3, <2>4
<1> QED
  BY <1>1, <1>2

\* The half of p offered by m, before or after a step.
LEMMA HalfVars ==
    ASSUME NEW m \in Node, NEW p \in Option
    PROVE  /\ Offers(m, p) = Commands(wire[m], p, Cmds("us"))
           /\ Demands(Peer(m), p) = Commands(wire[Peer(m)], p, Cmds("him"))
           /\ Offers(m, p)' = Commands(wire'[m], p, Cmds("us"))
           /\ Demands(Peer(m), p)' = Commands(wire'[Peer(m)], p, Cmds("him"))
           /\ telopts' = telopts => Willing(m, p)' = Willing(m, p)
BY DEF Offers, Demands, Cmds, Willing

HalfUnchanged(m, p) ==
    /\ telopts' = telopts /\ lost'[Peer(m)][p] = lost[Peer(m)][p]
    /\ q'[m][p].us = q[m][p].us /\ q'[Peer(m)][p].him = q[Peer(m)][p].him
    /\ Commands(wire'[m], p, Cmds("us")) = Commands(wire[m], p, Cmds("us"))
    /\ Commands(wire'[Peer(m)], p, Cmds("him")) = Commands(wire[Peer(m)], p, Cmds("him"))

LEMMA HalfStutters ==
    ASSUME NEW m \in Node, NEW p \in Option, HalfUnchanged(m, p)
    PROVE  UNCHANGED OneHalf(m, p)!vars
BY HalfVars DEF HalfUnchanged, OneHalf!vars

HalfStep(m, p) == [OneHalf(m, p)!Next]_(OneHalf(m, p)!vars)

LEMMA NegotiateRefines ==
    ASSUME IInv, NEW n \in Node, NEW cmd \in NegCmd, NEW o \in Option, Negotiate(n, cmd, o),
           NEW m \in Node, NEW p \in Option
    PROVE  HalfStep(m, p)
<1> DEFINE s == AskedSide(cmd)
           a == Ask(cmd, q[n][o][s])
           st == a.q
           send == a.send
<1>1. s \in Side /\ cmd \in Cmds(s) /\ Peer(m) \in Node /\ Peer(m) # m /\ Peer(n) # n
      /\ (n = m \/ n = Peer(m)) /\ Peer(n) \in Node /\ Peer(Peer(m)) = m
  BY CommandSides, PeerProperties
<1>2. /\ q \in [Node -> [Option -> [us : QState, him : QState]]]
      /\ wire \in [Node -> Seq(Packet)] /\ TypeOK /\ FlagsDerived
  BY DEF IInv, TypeOK
<1>3. \A e \in Node, x \in Option, t \in Side : q[e][x][t] \in QState
  BY <1>2 DEF Side
<1>4. st \in QState /\ send \in {None, cmd} /\ send \in Cmds(s) \cup {None}
      /\ send \in NegCmd \cup {None}
  BY <1>1, <1>3, AskFacts
<1>5. /\ SetRfc1143(n, o, s, st)
      /\ wire' = SendNegotiate(n, send, o, wire)
      /\ telopts' = telopts /\ lost' = lost
  BY DEF Negotiate
<1>6. st = Ask(cmd, q[n][o][s]).q /\ send = Ask(cmd, q[n][o][s]).send
  OBVIOUS
<1>7. s = IF cmd \in {"WILL", "WONT"} THEN "us" ELSE "him"
  BY DEF AskedSide
<1> HIDE DEF a, st, send, s
<1>8. wire'[n] = Sent(wire[n], send, o) /\ wire'[Peer(n)] = wire[Peer(n)]
  BY <1>2, <1>4, <1>5, SendProperties
<1>9. /\ q'[n][o][s] = st
      /\ \A e \in Node, x \in Option, t \in Side :
            ~(e = n /\ x = o /\ t = s) => q'[e][x][t] = q[e][x][t]
  BY <1>1, <1>2, <1>4, <1>5, SetProperties
<1>10. \A t \in Side : /\ Listed(wire[n], p, Cmds(t))
                       /\ Commands(wire'[n], p, Cmds(t))
                            = IF p = o /\ t = s THEN Put(Commands(wire[n], p, Cmds(t)), send)
                                                ELSE Commands(wire[n], p, Cmds(t))
  <2> SUFFICES ASSUME NEW t \in Side
               PROVE  /\ Listed(wire[n], p, Cmds(t))
                      /\ Commands(wire'[n], p, Cmds(t))
                            = IF p = o /\ t = s THEN Put(Commands(wire[n], p, Cmds(t)), send)
                                                ELSE Commands(wire[n], p, Cmds(t))
    OBVIOUS
  <2>1. Listed(wire[n], p, Cmds(t)) /\ wire[n] \in Seq(Packet)
    BY AllListed
  <2> QED
    BY <1>1, <1>4, <1>8, <2>1, CommandsAnySent
<1>11. "us" \in Side /\ "him" \in Side
  BY DEF Side
<1>12. CASE p = o /\ s = "us" /\ n = m
  <2>1. /\ q'[m][p].us = st /\ q'[Peer(m)][p].him = q[Peer(m)][p].him
        /\ Commands(wire'[m], p, Cmds("us")) = Put(Commands(wire[m], p, Cmds("us")), send)
        /\ Commands(wire'[Peer(m)], p, Cmds("him")) = Commands(wire[Peer(m)], p, Cmds("him"))
    BY <1>1, <1>8, <1>9, <1>10, <1>11, <1>12
  <2>2. st = OneHalf(m, p)!Ask(cmd, q[m][p].us).q /\ send = OneHalf(m, p)!Ask(cmd, q[m][p].us).send
    BY <1>6, <1>12, SameTable
  <2>3. OneHalf(m, p)!OffererAsks(cmd)
    BY <1>5, <2>1, <2>2, SameTable, HalfVars DEF OneHalf!OffererAsks
  <2>4. cmd \in {"WILL", "WONT"}
    BY <1>7, <1>12
  <2> QED
    BY <2>3, <2>4 DEF HalfStep, OneHalf!Next, OneHalf!Request
<1>13. CASE p = o /\ s = "him" /\ n = Peer(m)
  <2>1. /\ q'[m][p].us = q[m][p].us /\ q'[Peer(m)][p].him = st
        /\ Commands(wire'[m], p, Cmds("us")) = Commands(wire[m], p, Cmds("us"))
        /\ Commands(wire'[Peer(m)], p, Cmds("him"))
             = Put(Commands(wire[Peer(m)], p, Cmds("him")), send)
    BY <1>1, <1>8, <1>9, <1>10, <1>11, <1>13
  <2>2. /\ st = OneHalf(m, p)!Ask(cmd, q[Peer(m)][p].him).q
        /\ send = OneHalf(m, p)!Ask(cmd, q[Peer(m)][p].him).send
    BY <1>6, <1>13, SameTable
  <2>3. OneHalf(m, p)!AskerAsks(cmd)
    BY <1>5, <2>1, <2>2, SameTable, HalfVars DEF OneHalf!AskerAsks
  <2>4. cmd \in {"DO", "DONT"}
    BY <1>7, <1>13 DEF NegCmd
  <2> QED
    BY <2>3, <2>4 DEF HalfStep, OneHalf!Next, OneHalf!Request
<1>14. CASE ~(p = o /\ ((s = "us" /\ n = m) \/ (s = "him" /\ n = Peer(m))))
  <2>1. /\ q'[m][p].us = q[m][p].us /\ q'[Peer(m)][p].him = q[Peer(m)][p].him
    BY <1>1, <1>9, <1>11, <1>14
  <2>2. /\ Commands(wire'[m], p, Cmds("us")) = Commands(wire[m], p, Cmds("us"))
        /\ Commands(wire'[Peer(m)], p, Cmds("him")) = Commands(wire[Peer(m)], p, Cmds("him"))
    BY <1>1, <1>8, <1>10, <1>11, <1>14
  <2>3. HalfUnchanged(m, p)
    BY <1>5, <2>1, <2>2 DEF HalfUnchanged
  <2> QED
    BY <2>3, HalfStutters DEF HalfStep
<1> QED
  BY <1>12, <1>13, <1>14

LEMMA ReceiveCommandRefines ==
    ASSUME IInv, NEW n \in Node, ReceiveCommand(n), NEW m \in Node, NEW p \in Option
    PROVE  HalfStep(m, p)
<1> DEFINE w == wire[Peer(n)]
           c == Head(w).cmd
           o == Head(w).opt
           s == ToldSide(c)
           was == q[n][o][s]
           sup == Supports(n, c, o)
           st == Receive(c, was, sup).q
           send == Receive(c, was, sup).send
           loses == LosesRequest(c, was)
<1>1. /\ Peer(m) \in Node /\ Peer(m) # m /\ Peer(n) # n /\ Peer(Peer(m)) = m
      /\ (n = m \/ n = Peer(m)) /\ Peer(n) \in Node
  BY PeerProperties
<1>2. /\ Taken(n) \in [Node -> Seq(Packet)] /\ Taken(n)[n] = wire[n] /\ Taken(n)[Peer(n)] = Tail(w)
      /\ w # <<>> /\ w \in Seq(Packet) /\ Head(w) \in Packet /\ Head(w).kind = "command"
  <2>1. TypeOK /\ Reads(n, "command")
    BY DEF IInv, ReceiveCommand
  <2> QED
    BY <2>1, TakenFacts
<1>3. c \in NegCmd /\ o \in Option
  BY <1>2 DEF Packet
<1>4. s \in Side /\ Other(s) \in Side /\ c \in Cmds(Other(s))
  <2> HIDE DEF c
  <2> QED
    BY <1>3, CommandSides, SideProperties
<1>5. /\ q \in [Node -> [Option -> [us : QState, him : QState]]]
      /\ lost \in [Node -> [Option -> BOOLEAN]] /\ TypeOK /\ FlagsDerived
  BY DEF IInv, TypeOK
<1>6. was \in QState /\ sup \in BOOLEAN
  <2>1. \A e \in Node, x \in Option, t \in Side : q[e][x][t] \in QState
    BY <1>5 DEF Side
  <2> QED
    BY <1>3, <1>4, <2>1 DEF Supports
<1>7. /\ SetRfc1143(n, o, s, st)
      /\ wire' = SendNegotiate(n, send, o, Taken(n))
      /\ lost' = [lost EXCEPT ![n][o] = @ \/ loses]
      /\ telopts' = telopts
  BY DEF ReceiveCommand
<1>8. /\ s = IF c \in {"WILL", "WONT"} THEN "him" ELSE "us"
      /\ sup = ((IF s = "us" THEN "LOCAL" ELSE "REMOTE") \in telopts[n][o])
  BY DEF ToldSide, Supports
<1>9. /\ st = Receive(c, was, sup).q /\ send = Receive(c, was, sup).send
      /\ loses = LosesRequest(c, was) /\ was = q[n][o][s]
  OBVIOUS
<1>10. /\ st \in QState /\ send \in Cmds(s) \cup {None} /\ (loses => s = "him") /\ loses \in BOOLEAN
  <2> HIDE DEF c, was, sup
  <2>1. loses \in BOOLEAN
    BY DEF LosesRequest
  <2> QED
    BY <1>3, <1>6, <2>1, ReceiveFacts
<1> HIDE DEF c, o, s, was, sup, st, send, loses
<1>11. wire'[n] = Sent(wire[n], send, o) /\ wire'[Peer(n)] = Tail(w)
  <2>1. send \in NegCmd \cup {None}
    BY <1>4, <1>10, SideProperties
  <2> DEFINE v == Taken(n)
  <2>2. v \in [Node -> Seq(Packet)] /\ v[n] = wire[n] /\ v[Peer(n)] = Tail(w)
        /\ wire' = SendNegotiate(n, send, o, v)
    BY <1>2, <1>7
  <2> HIDE DEF v, w
  <2>3. /\ SendNegotiate(n, send, o, v)[n] = Sent(v[n], send, o)
        /\ SendNegotiate(n, send, o, v)[Peer(n)] = v[Peer(n)]
    BY <1>3, <2>1, <2>2, SendProperties
  <2> QED
    BY <2>2, <2>3
<1>12. /\ q'[n][o][s] = st
       /\ \A e \in Node, x \in Option, t \in Side :
             ~(e = n /\ x = o /\ t = s) => q'[e][x][t] = q[e][x][t]
  BY <1>3, <1>4, <1>5, <1>7, <1>10, SetProperties
<1>13. ASSUME NEW t \in Side
       PROVE  /\ Commands(wire'[n], p, Cmds(t))
                   = IF p = o /\ t = s THEN Put(Commands(wire[n], p, Cmds(t)), send)
                                       ELSE Commands(wire[n], p, Cmds(t))
              /\ Commands(wire'[Peer(n)], p, Cmds(t))
                   = IF o = p /\ t = Other(s) THEN Tail(Commands(w, p, Cmds(t)))
                                              ELSE Commands(w, p, Cmds(t))
  <2>1. Listed(wire[n], p, Cmds(t)) /\ wire[n] \in Seq(Packet) /\ Listed(w, p, Cmds(t))
    BY <1>1, AllListed
  <2>2. Commands(wire'[n], p, Cmds(t))
                   = IF p = o /\ t = s THEN Put(Commands(wire[n], p, Cmds(t)), send)
                                       ELSE Commands(wire[n], p, Cmds(t))
    BY <1>3, <1>4, <1>10, <1>11, <2>1, CommandsAnySent
  <2> HIDE DEF w
  <2>3. Head(w).opt = o /\ Head(w).cmd \in Cmds(Other(s))
    BY <1>4 DEF o, c
  <2>4. Commands(Tail(w), p, Cmds(t))
                   = IF Head(w).opt = p /\ t = Other(s) THEN Tail(Commands(w, p, Cmds(t)))
                                                        ELSE Commands(w, p, Cmds(t))
    BY <1>2, <1>4, <2>1, <2>3, CommandsAnyTaken
  <2> QED
    BY <1>11, <2>2, <2>3, <2>4
<1>14. /\ lost'[n][o] = (lost[n][o] \/ loses)
       /\ \A e \in Node, x \in Option : ~(e = n /\ x = o) => lost'[e][x] = lost[e][x]
       /\ lost[n][o] \in BOOLEAN
  BY <1>3, <1>5, <1>7
<1>15. "us" \in Side /\ "him" \in Side /\ Other("us") = "him" /\ Other("him") = "us"
  BY DEF Side, Other
<1>16. CASE p = o /\ s = "him" /\ n = Peer(m)
  <2> DEFINE up == Commands(wire[m], p, Cmds("us"))
             down == Commands(wire[Peer(m)], p, Cmds("him"))
  <2>1. /\ q'[m][p].us = q[m][p].us /\ q'[Peer(m)][p].him = st
        /\ Commands(wire'[m], p, Cmds("us")) = Tail(up)
        /\ Commands(wire'[Peer(m)], p, Cmds("him")) = Put(down, send)
        /\ lost'[Peer(m)][p] = (lost[Peer(m)][p] \/ loses)
    BY <1>1, <1>12, <1>13, <1>14, <1>15, <1>16
  <2>2. up # <<>> /\ Head(up) = c
    <3>1. Listed(w, p, Cmds("us"))
      BY <1>1, <1>15, AllListed
    <3>2. Head(w).cmd \in Cmds("us") /\ Head(w).opt = p
      BY <1>4, <1>15, <1>16 DEF c, o
    <3>3. Commands(w, p, Cmds("us")) # <<>> /\ Head(Commands(w, p, Cmds("us"))) = Head(w).cmd
      BY <1>2, <3>1, <3>2, CommandsTaken
    <3> QED
      BY <1>1, <1>16, <3>3 DEF c
  <2>3. sup = Willing(m, p).asker
    BY <1>8, <1>16 DEF Willing
  <2>4. was = q[Peer(m)][p].him
    BY <1>9, <1>16
  <2> HIDE DEF up, down
  <2>5. up = Offers(m, p) /\ down = Demands(Peer(m), p)
    BY HalfVars DEF up, down
  <2>6. /\ st = OneHalf(m, p)!Receive(c, q[Peer(m)][p].him, Willing(m, p).asker).q
        /\ send = OneHalf(m, p)!Receive(c, q[Peer(m)][p].him, Willing(m, p).asker).send
        /\ loses = OneHalf(m, p)!LosesRequest(c, q[Peer(m)][p].him)
    BY <1>9, <2>3, <2>4, SameTable
  <2>7. OneHalf(m, p)!AskerReceives
    <3>1. Offers(m, p) # <<>> /\ Head(Offers(m, p)) = c
      BY <2>2, <2>5
    <3>2. /\ q'[Peer(m)][p].him = OneHalf(m, p)!Receive(Head(Offers(m, p)), q[Peer(m)][p].him, Willing(m, p).asker).q
          /\ Offers(m, p)' = Tail(Offers(m, p))
          /\ Demands(Peer(m), p)' = OneHalf(m, p)!Put(Demands(Peer(m), p),
                OneHalf(m, p)!Receive(Head(Offers(m, p)), q[Peer(m)][p].him, Willing(m, p).asker).send)
      <4>1. q'[Peer(m)][p].him = OneHalf(m, p)!Receive(Head(Offers(m, p)), q[Peer(m)][p].him, Willing(m, p).asker).q
        BY <2>1, <2>6, <3>1
      <4>2. Offers(m, p)' = Tail(Offers(m, p))
        BY <2>1, <2>5, HalfVars
      <4>3. Demands(Peer(m), p)' = Put(Demands(Peer(m), p), send)
        BY <2>1, <2>5, HalfVars
      <4>4. Demands(Peer(m), p)' = OneHalf(m, p)!Put(Demands(Peer(m), p), send)
        BY <4>3, SameTable
      <4>5. send = OneHalf(m, p)!Receive(Head(Offers(m, p)), q[Peer(m)][p].him, Willing(m, p).asker).send
        BY <2>6, <3>1
      <4> QED
        BY <4>1, <4>2, <4>4, <4>5
    <3>3. lost'[Peer(m)][p] = (lost[Peer(m)][p] \/ OneHalf(m, p)!LosesRequest(Head(Offers(m, p)), q[Peer(m)][p].him))
      BY <2>1, <2>6, <3>1
    <3> QED
      BY <1>7, <2>1, <3>1, <3>2, <3>3, HalfVars, Zenon DEF OneHalf!AskerReceives
  <2> QED
    BY <2>7 DEF HalfStep, OneHalf!Next
<1>17. CASE p = o /\ s = "us" /\ n = m
  <2> DEFINE up == Commands(wire[m], p, Cmds("us"))
             down == Commands(wire[Peer(m)], p, Cmds("him"))
  <2>1. /\ q'[m][p].us = st /\ q'[Peer(m)][p].him = q[Peer(m)][p].him
        /\ Commands(wire'[m], p, Cmds("us")) = Put(up, send)
        /\ Commands(wire'[Peer(m)], p, Cmds("him")) = Tail(down)
        /\ lost'[Peer(m)][p] = lost[Peer(m)][p]
    BY <1>1, <1>12, <1>13, <1>14, <1>15, <1>17
  <2>2. down # <<>> /\ Head(down) = c
    <3>1. Listed(w, p, Cmds("him"))
      BY <1>1, <1>15, AllListed
    <3>2. Head(w).cmd \in Cmds("him") /\ Head(w).opt = p
      BY <1>4, <1>15, <1>17 DEF c, o
    <3>3. Commands(w, p, Cmds("him")) # <<>> /\ Head(Commands(w, p, Cmds("him"))) = Head(w).cmd
      BY <1>2, <3>1, <3>2, CommandsTaken
    <3> QED
      BY <1>1, <1>17, <3>3 DEF c
  <2>3. sup = Willing(m, p).offerer
    BY <1>8, <1>17 DEF Willing
  <2>4. was = q[m][p].us
    BY <1>9, <1>17
  <2> HIDE DEF up, down
  <2>5. up = Offers(m, p) /\ down = Demands(Peer(m), p)
    BY HalfVars DEF up, down
  <2>6. /\ st = OneHalf(m, p)!Receive(c, q[m][p].us, Willing(m, p).offerer).q
        /\ send = OneHalf(m, p)!Receive(c, q[m][p].us, Willing(m, p).offerer).send
    BY <1>9, <2>3, <2>4, SameTable
  <2>7. OneHalf(m, p)!OffererReceives
    <3>1. Demands(Peer(m), p) # <<>> /\ Head(Demands(Peer(m), p)) = c
      BY <2>2, <2>5
    <3>2. /\ q'[m][p].us = OneHalf(m, p)!Receive(Head(Demands(Peer(m), p)), q[m][p].us, Willing(m, p).offerer).q
          /\ Demands(Peer(m), p)' = Tail(Demands(Peer(m), p))
          /\ Offers(m, p)' = OneHalf(m, p)!Put(Offers(m, p),
                OneHalf(m, p)!Receive(Head(Demands(Peer(m), p)), q[m][p].us, Willing(m, p).offerer).send)
      <4>1. q'[m][p].us = OneHalf(m, p)!Receive(Head(Demands(Peer(m), p)), q[m][p].us, Willing(m, p).offerer).q
        BY <2>1, <2>6, <3>1
      <4>2. Demands(Peer(m), p)' = Tail(Demands(Peer(m), p))
        BY <2>1, <2>5, HalfVars
      <4>3. Offers(m, p)' = Put(Offers(m, p), send)
        BY <2>1, <2>5, HalfVars
      <4>4. Offers(m, p)' = OneHalf(m, p)!Put(Offers(m, p), send)
        BY <4>3, SameTable
      <4>5. send = OneHalf(m, p)!Receive(Head(Demands(Peer(m), p)), q[m][p].us, Willing(m, p).offerer).send
        BY <2>6, <3>1
      <4> QED
        BY <4>1, <4>2, <4>4, <4>5
    <3>3. lost'[Peer(m)][p] = lost[Peer(m)][p]
      BY <2>1
    <3> QED
      BY <1>7, <2>1, <3>1, <3>2, <3>3, HalfVars, Zenon DEF OneHalf!OffererReceives
  <2> QED
    BY <2>7 DEF HalfStep, OneHalf!Next
<1>18. CASE ~(p = o /\ ((s = "us" /\ n = m) \/ (s = "him" /\ n = Peer(m))))
  <2>1. q'[m][p].us = q[m][p].us /\ q'[Peer(m)][p].him = q[Peer(m)][p].him
    BY <1>1, <1>12, <1>15, <1>18
  <2>2. /\ Commands(wire'[m], p, Cmds("us")) = Commands(wire[m], p, Cmds("us"))
        /\ Commands(wire'[Peer(m)], p, Cmds("him")) = Commands(wire[Peer(m)], p, Cmds("him"))
    BY <1>1, <1>4, <1>13, <1>15, <1>18 DEF Side
  <2>3. lost'[Peer(m)][p] = lost[Peer(m)][p]
    BY <1>1, <1>4, <1>10, <1>14, <1>18 DEF Side
  <2>4. HalfUnchanged(m, p)
    BY <1>7, <2>1, <2>2, <2>3 DEF HalfUnchanged
  <2> QED
    BY <2>4, HalfStutters DEF HalfStep
<1> QED
  BY <1>16, <1>17, <1>18

\* Texts are no part of a half.
LEMMA TextsRefine ==
    ASSUME IInv, NEW n \in Node, SendText(n) \/ ReceiveText(n), NEW m \in Node, NEW p \in Option
    PROVE  HalfStep(m, p)
<1>1. Peer(m) \in Node /\ Peer(n) \in Node /\ wire \in [Node -> Seq(Packet)]
      /\ "us" \in Side /\ "him" \in Side
  BY PeerProperties DEF IInv, TypeOK, Side
<1>2. \A e \in Node, t \in Side : Commands(wire'[e], p, Cmds(t)) = Commands(wire[e], p, Cmds(t))
  <2> SUFFICES ASSUME NEW e \in Node, NEW t \in Side
               PROVE  Commands(wire'[e], p, Cmds(t)) = Commands(wire[e], p, Cmds(t))
    OBVIOUS
  <2>1. Listed(wire[e], p, Cmds(t)) /\ wire[e] \in Seq(Packet)
    BY AllListed
  <2>2. CASE SendText(n)
    <3> DEFINE text == Text("TRANSMIT_BINARY" \in flags[n], BINARY \in Option /\ Awaits(q[n][BINARY].us))
    <3>1. text \in Packet /\ text.kind = "text"
      BY DEF Text, Packet, Awaits
    <3>2. wire' = [wire EXCEPT ![n] = Append(@, text)]
      BY <2>2 DEF SendText
    <3> HIDE DEF text
    <3>3. Commands(Append(wire[e], text), p, Cmds(t)) = Commands(wire[e], p, Cmds(t))
      BY <2>1, <3>1, CommandsOtherSent
    <3> QED
      BY <1>1, <3>2, <3>3
  <2>3. CASE ReceiveText(n)
    <3>1. TypeOK /\ Reads(n, "text") /\ wire' = Taken(n)
      BY <2>3 DEF ReceiveText, IInv
    <3>2. /\ wire[Peer(n)] # <<>> /\ Head(wire[Peer(n)]).kind = "text"
          /\ wire' = [wire EXCEPT ![Peer(n)] = Tail(@)]
      BY <3>1 DEF Reads, Taken
    <3>3. e = Peer(n) => Commands(Tail(wire[e]), p, Cmds(t)) = Commands(wire[e], p, Cmds(t))
      BY <2>1, <3>2, CommandsOtherTaken
    <3> QED
      BY <1>1, <3>2, <3>3
  <2> QED
    BY <2>2, <2>3
<1>3. q' = q /\ telopts' = telopts /\ lost' = lost
  BY DEF SendText, ReceiveText
<1>4. HalfUnchanged(m, p)
  BY <1>1, <1>2, <1>3 DEF HalfUnchanged
<1> QED
  BY <1>4, HalfStutters DEF HalfStep

LEMMA StepRefines ==
    ASSUME IInv, [Next]_vars, NEW m \in Node, NEW p \in Option
    PROVE  HalfStep(m, p)
<1>1. ASSUME NEW n \in Node, NEW cmd \in NegCmd, NEW o \in Option, Negotiate(n, cmd, o)
      PROVE  HalfStep(m, p)
  BY <1>1, NegotiateRefines
<1>2. ASSUME NEW n \in Node, ReceiveCommand(n)
      PROVE  HalfStep(m, p)
  BY <1>2, ReceiveCommandRefines
<1>3. ASSUME NEW n \in Node, SendText(n) \/ ReceiveText(n)
      PROVE  HalfStep(m, p)
  BY <1>3, TextsRefine
<1>4. CASE UNCHANGED vars
  <2>1. HalfUnchanged(m, p)
    BY <1>4 DEF vars, HalfUnchanged
  <2> QED
    BY <2>1, HalfStutters DEF HalfStep
<1> QED
  BY <1>1, <1>2, <1>3, <1>4 DEF Next, ReceiveAny

LEMMA InitRefines ==
    ASSUME Init, NEW m \in Node, NEW p \in Option
    PROVE  OneHalf(m, p)!Init
<1>1. Peer(m) \in Node
  BY PeerProperties
<1>2. /\ q[m][p].us = "NO" /\ q[Peer(m)][p].him = "NO" /\ lost[Peer(m)][p] = FALSE
      /\ wire[m] = <<>> /\ wire[Peer(m)] = <<>>
  BY <1>1 DEF Init
<1>3. \A cmds : Commands(<<>>, p, cmds) = <<>>
  <2>1. <<>> \in Seq(NegCmd) /\ <<>> \in Seq(Packet)
    OBVIOUS
  <2> QED
    BY <2>1, ListsEmpty, ListsIs
<1>4. Willing(m, p) \in [offerer : BOOLEAN, asker : BOOLEAN]
  BY DEF Willing
<1> QED
  BY <1>2, <1>3, <1>4, HalfVars DEF OneHalf!Init

\* Whatever else is on the streams, each option in each direction is a run of
\* QMethod: what is proved and checked of a half on channels of its own is true
\* of it in a connection.
THEOREM HalvesImplementedHolds == Spec => HalvesImplemented
<1>1. Init => \A n \in Node, o \in Option : OneHalf(n, o)!Init
  BY InitRefines
<1>2. IInv /\ [Next]_vars
        => [\A n \in Node, o \in Option : [OneHalf(n, o)!Next]_(OneHalf(n, o)!vars)]_vars
  BY StepRefines DEF HalfStep
<1> QED
  BY <1>1, <1>2, IInvHolds, PTL DEF Spec, HalvesImplemented

-----------------------------------------------------------------------------
(* Applications that wait for the answer.                                  *)

\* No application asks for the peer's option between its DONT and the answer.
Patient == \A n \in Node, o \in Option : Negotiate(n, "DO", o) => q[n][o].him # "WANTNO"

PatientApps == [][Patient]_vars

\* Then no request is queued behind a DONT, and no DO is lost.
NoneQueued ==
    \A n \in Node, o \in Option : ~lost[n][o] /\ q[n][o].him # "WANTNO_OP"

\* Where a command takes a side that has no request queued behind a DONT.
LEMMA UnqueuedMoves ==
    ASSUME NEW cmd \in NegCmd, NEW st \in QState, st # "WANTNO_OP", NEW supported \in BOOLEAN
    PROVE  /\ Receive(cmd, st, supported).q # "WANTNO_OP" /\ ~LosesRequest(cmd, st)
           /\ (Affirms(cmd) /\ st = "WANTNO") \/ Ask(cmd, st).q # "WANTNO_OP"
<1>1. Receive(cmd, st, supported).q # "WANTNO_OP"
  BY DEF Receive, OnWill, OnWont, OnDo, OnDont, Stay, Move
<1>2. (Affirms(cmd) /\ st = "WANTNO") \/ Ask(cmd, st).q # "WANTNO_OP"
  BY DEF Ask, AskOn, AskOff, Stay, Move, Affirms, NegCmd
<1> QED
  BY <1>1, <1>2 DEF LosesRequest

\* No step queues one: only a DO behind a DONT would.
LEMMA NoneQueuedStep ==
    IInv /\ NoneQueued /\ [Next]_vars /\ [Patient]_vars => NoneQueued'
<1> SUFFICES ASSUME IInv, NoneQueued, [Next]_vars, [Patient]_vars
             PROVE  NoneQueued'
  OBVIOUS
<1>1. CASE UNCHANGED vars
  BY <1>1 DEF NoneQueued, vars
<1>2. TypeOK /\ FlagsDerived
  BY DEF IInv
<1>3. ASSUME NEW n \in Node, NEW cmd \in NegCmd, NEW o \in Option, Negotiate(n, cmd, o), Patient
      PROVE  NoneQueued'
  <2> DEFINE side == AskedSide(cmd)
             move == Ask(cmd, q[n][o][side])
  <2>1. side \in Side /\ q[n][o][side] \in QState
    BY <1>2, CommandSides DEF TypeOK, Side
  <2>2. move.q \in QState /\ SetRfc1143(n, o, side, move.q) /\ lost' = lost
    BY <1>3, <2>1, AskFacts DEF Negotiate
  <2>3. /\ q'[n][o][side] = move.q
        /\ \A m \in Node, p \in Option, t \in Side :
              ~(m = n /\ p = o /\ t = side) => q'[m][p][t] = q[m][p][t]
    BY <1>2, <2>1, <2>2, SetProperties
  <2>4. side = "him" => move.q # "WANTNO_OP"
    <3> SUFFICES ASSUME side = "him"
                 PROVE  move.q # "WANTNO_OP"
      OBVIOUS
    <3>1. cmd \in {"DO", "DONT"}
      BY DEF AskedSide, NegCmd
    <3>2. q[n][o][side] # "WANTNO_OP"
      BY DEF NoneQueued
    <3>3. cmd = "DO" => q[n][o][side] # "WANTNO"
      BY <1>3 DEF Patient
    <3> QED
      BY <2>1, <3>1, <3>2, <3>3, UnqueuedMoves DEF Affirms
  <2> HIDE DEF side, move
  <2>5. \A m \in Node, p \in Option : q'[m][p].him # "WANTNO_OP"
    <3> SUFFICES ASSUME NEW m \in Node, NEW p \in Option
                 PROVE  q'[m][p].him # "WANTNO_OP"
      OBVIOUS
    <3>1. CASE m = n /\ p = o /\ side = "him"
      BY <2>3, <2>4, <3>1
    <3>2. CASE ~(m = n /\ p = o /\ side = "him")
      BY <2>3, <3>2 DEF NoneQueued, Side
    <3> QED
      BY <3>1, <3>2
  <2> QED
    BY <2>2, <2>5 DEF NoneQueued
<1>4. ASSUME NEW n \in Node, ReceiveCommand(n)
      PROVE  NoneQueued'
  <2> DEFINE cmd  == Head(wire[Peer(n)]).cmd
             o    == Head(wire[Peer(n)]).opt
             side == ToldSide(cmd)
             was  == q[n][o][side]
             sup  == Supports(n, cmd, o)
             st   == Receive(cmd, was, sup).q
             loses == LosesRequest(cmd, was)
  <2>1. cmd \in NegCmd /\ o \in Option
    <3>1. Head(wire[Peer(n)]) \in Packet /\ Head(wire[Peer(n)]).kind = "command"
      BY <1>2, <1>4, PeerProperties, HeadTailProperties DEF TypeOK, ReceiveCommand, Reads
    <3> QED
      BY <3>1 DEF Packet
  <2>2. sup \in BOOLEAN
    BY DEF Supports
  <2>3. SetRfc1143(n, o, side, st) /\ lost' = [lost EXCEPT ![n][o] = @ \/ loses]
    BY Zenon, <1>4 DEF ReceiveCommand
  <2>4. side = ToldSide(cmd) /\ st = Receive(cmd, was, sup).q /\ was = q[n][o][side]
        /\ (loses <=> LosesRequest(cmd, was))
    OBVIOUS
  <2> HIDE DEF cmd, o, side, was, sup, st, loses
  <2>5. side \in Side /\ was \in QState
    <3>1. side \in Side
      BY <2>1, <2>4, CommandSides
    <3>2. \A e \in Node, x \in Option, t \in Side : q[e][x][t] \in QState
      BY <1>2 DEF TypeOK, Side
    <3> QED
      BY <2>1, <2>4, <3>1, <3>2
  <2>6. st \in QState
    BY <2>1, <2>2, <2>4, <2>5, ReceiveFacts
  <2>7. /\ q'[n][o][side] = st
        /\ \A m \in Node, p \in Option, t \in Side :
              ~(m = n /\ p = o /\ t = side) => q'[m][p][t] = q[m][p][t]
    BY <1>2, <2>1, <2>3, <2>5, <2>6, SetProperties
  <2>8. side = "him" => st # "WANTNO_OP" /\ was # "WANTNO_OP"
    <3> SUFFICES ASSUME side = "him"
                 PROVE  st # "WANTNO_OP" /\ was # "WANTNO_OP"
      OBVIOUS
    <3>1. was # "WANTNO_OP"
      BY <2>1, <2>4 DEF NoneQueued
    <3> QED
      BY <2>1, <2>2, <2>4, <2>5, <3>1, UnqueuedMoves
  <2>9. ~loses
    BY <2>4, <2>8 DEF LosesRequest, ToldSide
  <2>10. \A m \in Node, p \in Option : q'[m][p].him # "WANTNO_OP"
    <3> SUFFICES ASSUME NEW m \in Node, NEW p \in Option
                 PROVE  q'[m][p].him # "WANTNO_OP"
      OBVIOUS
    <3>1. CASE m = n /\ p = o /\ side = "him"
      BY <2>7, <2>8, <3>1
    <3>2. CASE ~(m = n /\ p = o /\ side = "him")
      BY <2>7, <3>2 DEF NoneQueued, Side
    <3> QED
      BY <3>1, <3>2
  <2>11. \A m \in Node, p \in Option : ~lost'[m][p]
    <3>1. lost \in [Node -> [Option -> BOOLEAN]] /\ o \in Option
      BY <1>2, <2>1 DEF TypeOK
    <3>2. \A m \in Node, p \in Option : lost[m][p] = FALSE
      BY <3>1 DEF NoneQueued
    <3>3. (lost[n][o] \/ loses) = FALSE
      BY <2>9, <3>1, <3>2
    <3>4. lost' = [lost EXCEPT ![n][o] = FALSE]
      BY <2>3, <3>3
    <3> QED
      BY <3>1, <3>2, <3>4
  <2> QED
    BY <2>10, <2>11 DEF NoneQueued
<1>5. ASSUME NEW n \in Node, SendText(n) \/ ReceiveText(n)
      PROVE  NoneQueued'
  <2>1. q' = q /\ lost' = lost
    BY <1>5 DEF SendText, ReceiveText
  <2> QED
    BY <2>1 DEF NoneQueued
<1> QED
  BY <1>1, <1>3, <1>4, <1>5 DEF Next, ReceiveAny

\* Two ends whose applications wait for the answer to a DONT never lose a DO,
\* and with nothing in flight encode and decode text alike, whatever they
\* negotiated and however often.
THEOREM PatientFlagsAgree ==
    Spec /\ PatientApps =>
        [](\A n \in Node : wire = [m \in Node |-> <<>>] =>
              ("TRANSMIT_BINARY" \in flags[n] <=> "RECEIVE_BINARY" \in flags[Peer(n)]))
<1> DEFINE Alike == \A n \in Node : wire = [m \in Node |-> <<>>] =>
              ("TRANSMIT_BINARY" \in flags[n] <=> "RECEIVE_BINARY" \in flags[Peer(n)])
<1>1. Init => NoneQueued
  BY DEF Init, NoneQueued
<1>2. NoneQueued /\ FlagsAgree => Alike
  BY DEF NoneQueued, FlagsAgree
<1> HIDE DEF Alike
<1>3. Spec /\ PatientApps => []Alike
  BY <1>1, <1>2, NoneQueuedStep, IInvHolds, FlagsAgreeHolds, PTL DEF Spec, PatientApps
<1> QED
  BY <1>3 DEF Alike

=============================================================================
