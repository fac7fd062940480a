--------------------------- MODULE Rfc1143Proofs ---------------------------
(***************************************************************************)
(* Two ends of an option in one direction that follow the transition table *)
(* stay coherent with the commands in flight between them.                 *)
(*                                                                         *)
(* Coherence does not tell the offerer from the asker, so it is proved for *)
(* an end q that moves and an end p that does not, joined by two streams   *)
(* "out" (from p to q) and "in" (from q to p).  QMethodProofs uses it for  *)
(* one option, NegotiationProofs for the options of a connection.          *)
(***************************************************************************)
EXTENDS Rfc1143, Naturals, SequenceTheorems, TLAPS

W(q) == IF Awaits(q) THEN 1 ELSE 0

\* A command that contradicts or tells something to an end in state q.
Fits(cmd, q) == /\ Awaits(q) \/ Affirms(cmd) # Leaning(q)
                /\ ~Disputed(cmd, q)

\* Coherent, of any two ends.
CoherentEnds(p, q, out, in) ==
    /\ Len(out) + Len(in) = W(p) + W(q)
    /\ Len(out) > 0 => Affirms(out[Len(out)]) = Leaning(p) /\ Fits(out[1], q)
    /\ Len(in) > 0 => Affirms(in[Len(in)]) = Leaning(q) /\ Fits(in[1], p)
    /\ Len(out) > 1 => Affirms(out[1]) # Affirms(out[2])
    /\ Len(in) > 1 => Affirms(in[1]) # Affirms(in[2])
    /\ Len(out) + Len(in) = 0 => p = q

-----------------------------------------------------------------------------
(* The transition table.                                                   *)

\* A request sends its command from a settled state, contradicting it, and
\* otherwise only queues or unqueues its opposite.
LEMMA AskMoves ==
    ASSUME NEW cmd \in NegCmd, NEW q \in QState
    PROVE  LET m == Ask(cmd, q)
           IN  /\ m.q \in QState
               /\ m.send \in {None, cmd}
               /\ m.send = cmd => /\ ~Awaits(q) /\ Awaits(m.q)
                                  /\ Leaning(m.q) = Affirms(cmd)
                                  /\ Leaning(q) # Affirms(cmd)
               /\ m.send = None => /\ Awaits(m.q) = Awaits(q)
                                   /\ Leaning(m.q) = Leaning(q)
                                   /\ ~Awaits(q) => m.q = q
BY DEF Ask, AskOn, AskOff, Stay, Move, NegCmd, QState, None, Awaits, Leaning, Affirms

\* An end never sends more than it stops waiting for or is asked.
LEMMA ReceiveMoves ==
    ASSUME NEW cmd \in NegCmd, NEW q \in QState, NEW supported \in BOOLEAN
    PROVE  LET m == Receive(cmd, q, supported)
           IN  /\ m.q \in QState
               /\ m.send \in IF cmd \in {"WILL", "WONT"} THEN {None, "DO", "DONT"}
                                                       ELSE {None, "WILL", "WONT"}
               /\ m.send = None => W(m.q) <= W(q)
               /\ m.send # None => W(m.q) = W(q)
BY DEF Receive, OnWill, OnWont, OnDo, OnDont, Stay, Move, NegCmd, QState, None, Awaits, W

\* A command that fits moves the end as the Q method intends, unless it is the
\* WONT that loses the asker's queued DO.
LEMMA FittingMoves ==
    ASSUME NEW cmd \in NegCmd, NEW q \in QState, NEW supported \in BOOLEAN,
           Fits(cmd, q), ~LosesRequest(cmd, q)
    PROVE  LET m == Receive(cmd, q, supported)
           IN  /\ m.send = None => /\ Awaits(q) /\ ~Awaits(m.q)
                                   /\ Leaning(m.q) = Affirms(cmd)
               /\ m.send # None => /\ Awaits(m.q) = Awaits(q)
                                   /\ Affirms(m.send) = Leaning(m.q)
                                   /\ Awaits(q) => /\ Affirms(m.send) # Affirms(cmd)
                                                   /\ Leaning(m.q) # Leaning(q)
                                   /\ ~Awaits(q) /\ ~Affirms(cmd) => ~Affirms(m.send)
BY DEF Receive, OnWill, OnWont, OnDo, OnDont, Stay, Move, NegCmd, QState, None, Awaits,
       Leaning, Affirms, Disputed, Fits, LosesRequest

\* Two properties of the six states: which answers dispute a request, and
\* that a settled state is told by where it leans.
LEMMA States ==
    ASSUME NEW p \in QState, NEW q \in QState, NEW cmd \in NegCmd
    PROVE  /\ Disputed(cmd, q) <=> Affirms(cmd) /\ Awaits(q) /\ ~Leaning(q)
           /\ ~Awaits(p) /\ ~Awaits(q) /\ Leaning(p) = Leaning(q) => p = q
           /\ Affirms(cmd) \in BOOLEAN /\ Leaning(q) \in BOOLEAN /\ Awaits(q) \in BOOLEAN
           /\ cmd # None
BY DEF QState, NegCmd, None, Disputed, Affirms, Awaits, Leaning

\* _send_negotiate() adds its command behind what is in flight.
LEMMA PutProperties ==
    ASSUME NEW S, NEW s \in Seq(S), NEW cmd \in S \cup {None}, None \notin S
    PROVE  /\ Put(s, cmd) \in Seq(S)
           /\ cmd = None => Put(s, cmd) = s
           /\ cmd # None => /\ Len(Put(s, cmd)) = Len(s) + 1
                            /\ \A i \in 1 .. Len(s) : Put(s, cmd)[i] = s[i]
                            /\ Put(s, cmd)[Len(s) + 1] = cmd
BY AppendProperties DEF Put

-----------------------------------------------------------------------------
(* One end moves.                                                          *)

\* telnet_negotiate() at q keeps two coherent ends coherent.
LEMMA AskKeepsCoherent ==
    ASSUME NEW p \in QState, NEW q \in QState,
           NEW out \in Seq(NegCmd), NEW in \in Seq(NegCmd), NEW cmd \in NegCmd,
           CoherentEnds(p, q, out, in)
    PROVE  CoherentEnds(p, Ask(cmd, q).q, out, Put(in, Ask(cmd, q).send))
<1> DEFINE m == Ask(cmd, q)
<1> DEFINE put == Put(in, m.send)
<1>1. /\ m.q \in QState
      /\ m.send \in {None, cmd}
      /\ m.send = cmd => /\ ~Awaits(q) /\ Awaits(m.q)
                         /\ Leaning(m.q) = Affirms(cmd)
                         /\ Leaning(q) # Affirms(cmd)
      /\ m.send = None => /\ Awaits(m.q) = Awaits(q)
                          /\ Leaning(m.q) = Leaning(q)
                          /\ ~Awaits(q) => m.q = q
  BY AskMoves
<1>2. Len(out) \in Nat /\ Len(in) \in Nat
  BY LenProperties
<1>3. \A i \in 1 .. Len(out) : out[i] \in NegCmd
  BY ElementOfSeq
<1>4. \A i \in 1 .. Len(in) : in[i] \in NegCmd
  BY ElementOfSeq
<1>5. None \notin NegCmd /\ cmd # None
  BY DEF NegCmd, None
<1>6. \A c \in NegCmd, r \in QState :
        Fits(c, r) <=> /\ Awaits(r) \/ Affirms(c) # Leaning(r)
                       /\ ~(Affirms(c) /\ Awaits(r) /\ ~Leaning(r))
  BY States DEF Fits
<1> HIDE DEF m
<1>7. CASE m.send = None
  <2>1. put = in
    BY <1>5, <1>7, PutProperties
  <2>2. W(m.q) = W(q)
    BY <1>1, <1>7 DEF W
  <2>3. \A c \in NegCmd : Fits(c, m.q) <=> Fits(c, q)
    BY <1>1, <1>6, <1>7
  <2>4. Len(out) + Len(in) = 0 => m.q = q
    BY <1>1, <1>2, <1>7 DEF CoherentEnds, W
  <2>5. CoherentEnds(p, m.q, out, in)
    BY <1>1, <1>2, <1>3, <1>7, <2>2, <2>3, <2>4 DEF CoherentEnds
  <2> QED BY <2>1, <2>5 DEF m
<1>8. CASE m.send = cmd
  <2>1. /\ Len(put) = Len(in) + 1
        /\ \A i \in 1 .. Len(in) : put[i] = in[i]
        /\ put[Len(in) + 1] = cmd
    BY <1>5, <1>8, PutProperties
  <2>2. CoherentEnds(p, m.q, out, put)
    BY <1>1, <1>2, <1>3, <1>4, <1>6, <1>8, <2>1, States DEF CoherentEnds, W
  <2> QED BY <2>2 DEF m
<1> QED BY <1>1, <1>7, <1>8

\* _negotiate() at q keeps two coherent ends coherent, unless it loses a DO.
LEMMA ReceiveKeepsCoherent ==
    ASSUME NEW p \in QState, NEW q \in QState,
           NEW out \in Seq(NegCmd), NEW in \in Seq(NegCmd), NEW supported \in BOOLEAN,
           CoherentEnds(p, q, out, in), out # <<>>, ~LosesRequest(Head(out), q)
    PROVE  CoherentEnds(p, Receive(Head(out), q, supported).q, Tail(out),
                        Put(in, Receive(Head(out), q, supported).send))
<1> DEFINE cmd == Head(out)
<1> DEFINE m == Receive(cmd, q, supported)
<1> DEFINE rest == Tail(out)
<1> DEFINE put == Put(in, m.send)
<1>1. /\ Len(out) \in Nat /\ Len(out) > 0
      /\ Len(in) \in Nat
      /\ \A i \in 1 .. Len(in) : in[i] \in NegCmd
      /\ \A i \in 1 .. Len(out) : out[i] \in NegCmd
  BY LenProperties, ElementOfSeq, EmptySeq
<1>2. /\ cmd = out[1] /\ cmd \in NegCmd
      /\ Len(rest) = Len(out) - 1
      /\ \A i \in 1 .. Len(rest) : rest[i] = out[i + 1]
  BY HeadTailProperties
<1>3. None \notin NegCmd
  BY DEF NegCmd, None
<1>4. \A c \in NegCmd, r \in QState :
        Fits(c, r) <=> /\ Awaits(r) \/ Affirms(c) # Leaning(r)
                       /\ ~(Affirms(c) /\ Awaits(r) /\ ~Leaning(r))
  BY States DEF Fits
<1>5. Fits(cmd, q)
  BY <1>1, <1>2 DEF CoherentEnds
<1>6. /\ m.send = None => /\ Awaits(q) /\ ~Awaits(m.q)
                          /\ Leaning(m.q) = Affirms(cmd)
      /\ m.send # None => /\ Awaits(m.q) = Awaits(q)
                          /\ Affirms(m.send) = Leaning(m.q)
                          /\ Awaits(q) => /\ Affirms(m.send) # Affirms(cmd)
                                          /\ Leaning(m.q) # Leaning(q)
                          /\ ~Awaits(q) /\ ~Affirms(cmd) => ~Affirms(m.send)
  BY <1>2, <1>5, FittingMoves
<1>7. m.q \in QState /\ m.send \in NegCmd \cup {None}
  BY <1>2, ReceiveMoves DEF NegCmd
<1> HIDE DEF cmd, m, rest
<1>8. Len(out) <= 2 /\ Len(in) <= 1
  BY <1>1 DEF CoherentEnds, W
<1>9. CASE m.send = None
  <2>1. put = in
    BY <1>3, <1>7, <1>9, PutProperties
  <2>2. CoherentEnds(p, m.q, rest, in)
    BY <1>1, <1>2, <1>4, <1>6, <1>7, <1>8, <1>9, States DEF CoherentEnds, W
  <2> QED BY <2>1, <2>2 DEF m, cmd, rest
<1>10. CASE m.send # None
  <2>1. /\ Len(put) = Len(in) + 1
        /\ \A i \in 1 .. Len(in) : put[i] = in[i]
        /\ put[Len(in) + 1] = m.send
    <3> DEFINE sent == m.send
    <3>1. sent \in NegCmd \cup {None} /\ sent # None
      BY <1>7, <1>10
    <3> HIDE DEF sent
    <3>2. /\ Len(Put(in, sent)) = Len(in) + 1
          /\ \A i \in 1 .. Len(in) : Put(in, sent)[i] = in[i]
          /\ Put(in, sent)[Len(in) + 1] = sent
      BY <1>3, <3>1, PutProperties
    <3> QED BY <3>2 DEF sent
  <2>2. CoherentEnds(p, m.q, rest, put)
    BY <1>1, <1>2, <1>4, <1>6, <1>7, <1>8, <1>10, <2>1, States DEF CoherentEnds, W
  <2> QED BY <2>2 DEF m, cmd, rest
<1> QED BY <1>9, <1>10

-----------------------------------------------------------------------------
(* A half that may have lost a DO.                                         *)

\* Coherent until a DO is lost; afterwards an end waits for an answer that
\* nobody owes it.
HalfState(lostOne, p, q, out, in) ==
    IF lostOne THEN Len(out) + Len(in) < W(p) + W(q) ELSE CoherentEnds(p, q, out, in)

\* A half looks the same from both ends.
LEMMA HalfSymmetric ==
    ASSUME NEW p \in QState, NEW q \in QState, NEW l \in BOOLEAN,
           NEW out \in Seq(NegCmd), NEW in \in Seq(NegCmd), HalfState(l, p, q, out, in)
    PROVE  HalfState(l, q, p, in, out)
<1>1. Len(out) \in Nat /\ Len(in) \in Nat
  BY LenProperties
<1>2. Len(out) + Len(in) = Len(in) + Len(out) /\ W(p) + W(q) = W(q) + W(p)
  BY <1>1 DEF W
<1> QED
  BY <1>1, <1>2 DEF HalfState, CoherentEnds

\* telnet_negotiate() at q.
LEMMA AskKeepsHalf ==
    ASSUME NEW p \in QState, NEW q \in QState, NEW l \in BOOLEAN,
           NEW out \in Seq(NegCmd), NEW in \in Seq(NegCmd), NEW cmd \in NegCmd,
           HalfState(l, p, q, out, in)
    PROVE  HalfState(l, p, Ask(cmd, q).q, out, Put(in, Ask(cmd, q).send))
<1>1. CASE ~l
  BY <1>1, AskKeepsCoherent DEF HalfState
<1>2. CASE l
  <2> DEFINE m == Ask(cmd, q)
  <2>1. /\ m.send \in {None, cmd}
        /\ m.send = cmd => ~Awaits(q) /\ Awaits(m.q)
        /\ m.send = None => Awaits(m.q) = Awaits(q)
    BY AskMoves
  <2>2. Len(out) \in Nat /\ Len(in) \in Nat /\ cmd # None
    BY LenProperties, States
  <2> HIDE DEF m
  <2>3. CASE m.send = None
    BY <1>2, <2>1, <2>2, <2>3 DEF HalfState, Put, W, m
  <2>4. CASE m.send = cmd
    <3>1. Len(Put(in, m.send)) = Len(in) + 1
      BY <2>2, <2>4, AppendProperties DEF Put
    <3> QED
      BY <1>2, <2>1, <2>2, <2>4, <3>1 DEF HalfState, W, m
  <2> QED
    BY <2>1, <2>3, <2>4
<1> QED
  BY <1>1, <1>2

\* _negotiate() at q, which may lose a DO.
LEMMA ReceiveKeepsHalf ==
    ASSUME NEW p \in QState, NEW q \in QState, NEW l \in BOOLEAN,
           NEW out \in Seq(NegCmd), NEW in \in Seq(NegCmd), NEW supported \in BOOLEAN,
           HalfState(l, p, q, out, in), out # <<>>
    PROVE  HalfState(l \/ LosesRequest(Head(out), q), p, Receive(Head(out), q, supported).q,
                     Tail(out), Put(in, Receive(Head(out), q, supported).send))
<1> DEFINE cmd == Head(out)
           m == Receive(cmd, q, supported)
<1>1. /\ cmd \in NegCmd /\ Len(out) \in Nat /\ Len(in) \in Nat /\ Len(out) > 0
      /\ Len(Tail(out)) = Len(out) - 1
  BY HeadTailProperties, LenProperties, EmptySeq
<1>2. CASE ~l /\ ~LosesRequest(cmd, q)
  BY <1>2, ReceiveKeepsCoherent DEF HalfState
<1>3. CASE l
  <2>1. /\ m.send \in NegCmd \cup {None}
        /\ m.send = None => W(m.q) <= W(q)
        /\ m.send # None => W(m.q) = W(q)
    BY <1>1, ReceiveMoves DEF NegCmd
  <2>2. W(p) \in Nat /\ W(q) \in Nat /\ W(m.q) \in Nat
    BY DEF W
  <2> HIDE DEF m, cmd
  <2>3. CASE m.send = None
    <3>1. Put(in, m.send) = in
      BY <2>3 DEF Put
    <3>2. Len(Tail(out)) + Len(Put(in, m.send)) < W(p) + W(m.q)
      <4>1. Len(out) + Len(in) < W(p) + W(q)
        BY <1>3 DEF HalfState
      <4>2. W(m.q) <= W(q) /\ W(q) <= 1 /\ W(q) - W(m.q) <= 1
        BY <2>1, <2>2, <2>3 DEF W
      <4> QED
        BY <1>1, <2>2, <3>1, <4>1, <4>2
    <3> QED
      BY <1>3, <3>2 DEF HalfState, m, cmd
  <2>4. CASE m.send # None
    <3>1. Len(Put(in, m.send)) = Len(in) + 1
      BY <2>1, <2>4, AppendProperties DEF Put
    <3> QED
      BY <1>1, <1>3, <2>1, <2>2, <2>4, <3>1 DEF HalfState, m, cmd
  <2> QED
    BY <2>3, <2>4
<1>4. CASE ~l /\ LosesRequest(cmd, q)
  <2>1. m.q = "WANTYES" /\ m.send = None /\ q = "WANTNO_OP"
    BY <1>4 DEF LosesRequest, Receive, OnWont, Move
  <2>2. Len(out) + Len(in) = W(p) + W(q)
    BY <1>4 DEF HalfState, CoherentEnds
  <2>3. W(m.q) = 1 /\ W(q) = 1 /\ W(p) \in Nat /\ Put(in, m.send) = in
    BY <2>1 DEF W, Awaits, Put
  <2> HIDE DEF m, cmd
  <2>4. Len(Tail(out)) + Len(Put(in, m.send)) < W(p) + W(m.q)
    BY <1>1, <2>2, <2>3
  <2> QED
    BY <1>4, <2>4 DEF HalfState, m, cmd
<1> QED
  BY <1>2, <1>3, <1>4

\* An end that has settled has at most one command in flight, and that tells
\* the other end, which waits, where it settled.
LEMMA SettledEnd ==
    ASSUME NEW p \in QState, NEW q \in QState, NEW l \in BOOLEAN,
           NEW out \in Seq(NegCmd), NEW in \in Seq(NegCmd),
           HalfState(l, p, q, out, in), ~Awaits(q)
    PROVE  \/ Len(in) = 0 /\ (Awaits(p) \/ p = q)
           \/ Len(in) = 1 /\ Awaits(p) /\ Fits(in[1], p) /\ Affirms(in[1]) = Leaning(q)
<1>1. Len(out) \in Nat /\ Len(in) \in Nat
  BY LenProperties
<1>2. W(q) = 0 /\ W(p) = IF Awaits(p) THEN 1 ELSE 0
  BY DEF W
<1>3. CASE l
  BY <1>1, <1>2, <1>3 DEF HalfState
<1>4. CASE ~l
  <2>1. /\ Len(out) + Len(in) = W(p) + W(q)
        /\ Len(in) > 0 => Affirms(in[Len(in)]) = Leaning(q) /\ Fits(in[1], p)
        /\ Len(out) + Len(in) = 0 => p = q
    BY <1>4 DEF HalfState, CoherentEnds
  <2>2. CASE Awaits(p)
    BY <1>1, <1>2, <2>1, <2>2
  <2>3. CASE ~Awaits(p)
    BY <1>1, <1>2, <2>1, <2>3
  <2> QED
    BY <2>2, <2>3
<1> QED
  BY <1>3, <1>4

=============================================================================
