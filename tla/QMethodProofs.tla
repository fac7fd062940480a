--------------------------- MODULE QMethodProofs ---------------------------
(***************************************************************************)
(* Proofs about one option in one direction, for every table of supported  *)
(* options, every repertoire of requests and executions of any length.     *)
(***************************************************************************)
EXTENDS QMethod, Rfc1143Proofs

-----------------------------------------------------------------------------
(* The two ends of the specification.                                      *)

\* Coherent looks the same from the offerer's and from the asker's end.
LEMMA Symmetric ==
    TypeOK /\ ~lost => /\ Coherent <=> CoherentEnds(us, him, up, down)
                       /\ Coherent <=> CoherentEnds(him, us, down, up)
<1> SUFFICES ASSUME TypeOK, ~lost
             PROVE  /\ Coherent <=> CoherentEnds(us, him, up, down)
                    /\ Coherent <=> CoherentEnds(him, us, down, up)
  OBVIOUS
<1>1. /\ Len(up) \in Nat /\ (up = <<>> <=> Len(up) = 0)
      /\ Len(down) \in Nat /\ (down = <<>> <=> Len(down) = 0)
  BY EmptySeq, LenProperties DEF TypeOK
<1>2. /\ \A i \in 1 .. Len(up) : up[i] \in {"WILL", "WONT"}
      /\ \A i \in 1 .. Len(down) : down[i] \in {"DO", "DONT"}
  BY ElementOfSeq DEF TypeOK
<1>3. Alternates <=> /\ Len(up) > 1 => Affirms(up[1]) # Affirms(up[2])
                     /\ Len(down) > 1 => Affirms(down[1]) # Affirms(down[2])
  BY <1>1, <1>2 DEF Alternates, Affirms
<1>4. Head(up) = up[1] /\ Head(down) = down[1]
  OBVIOUS
<1>5. us \in QState /\ him \in QState
  BY DEF TypeOK
<1>6. Waiting = W(us) + W(him) /\ W(us) \in {0, 1} /\ W(him) \in {0, 1}
  BY DEF Waiting, W
<1>7. (Quiet => us = him) <=> (Len(up) + Len(down) = 0 => us = him)
  BY <1>1 DEF Quiet
<1>8. (NoneRedundant /\ NoDispute)
        <=> (Len(up) > 0 => Fits(up[1], him)) /\ (Len(down) > 0 => Fits(down[1], us))
  BY <1>1, <1>4 DEF NoneRedundant, NoDispute, Fits
<1> QED
  BY <1>1, <1>3, <1>6, <1>7, <1>8 DEF Coherent, CoherentEnds, Conservation, LastWord

\* And so it does after a step.
LEMMA SymmetricNext ==
    TypeOK' /\ ~lost' => /\ Coherent' <=> (CoherentEnds(us, him, up, down))'
                         /\ Coherent' <=> (CoherentEnds(him, us, down, up))'
BY Symmetric, PTL

-----------------------------------------------------------------------------
(* The invariant and its consequences.                                     *)

\* Requests and received commands keep the types.
LEMMA TypeStep == TypeOK /\ [Next]_vars => TypeOK'
<1> SUFFICES ASSUME TypeOK, [Next]_vars
             PROVE  TypeOK'
  OBVIOUS
<1>1. ASSUME NEW cmd \in OffererCmds, OffererAsks(cmd)
      PROVE  TypeOK'
  <2>1. cmd \in {"WILL", "WONT"} /\ cmd \in NegCmd /\ us \in QState
    BY <1>1, CmdsAssumption DEF NegCmd, TypeOK
  <2>2. us' \in QState /\ Ask(cmd, us).send \in {"WILL", "WONT"} \cup {None}
    BY <1>1, <2>1, AskMoves DEF OffererAsks
  <2>3. up' \in Seq({"WILL", "WONT"})
    BY <1>1, <2>2, PutProperties DEF OffererAsks, TypeOK, None
  <2> QED BY <1>1, <2>2, <2>3 DEF OffererAsks, TypeOK
<1>2. ASSUME NEW cmd \in AskerCmds, AskerAsks(cmd)
      PROVE  TypeOK'
  <2>1. cmd \in {"DO", "DONT"} /\ cmd \in NegCmd /\ him \in QState
    BY <1>2, CmdsAssumption DEF NegCmd, TypeOK
  <2>2. him' \in QState /\ Ask(cmd, him).send \in {"DO", "DONT"} \cup {None}
    BY <1>2, <2>1, AskMoves DEF AskerAsks
  <2>3. down' \in Seq({"DO", "DONT"})
    BY <1>2, <2>2, PutProperties DEF AskerAsks, TypeOK, None
  <2> QED BY <1>2, <2>2, <2>3 DEF AskerAsks, TypeOK
<1>3. CASE AskerReceives
  <2>1. Head(up) \in {"WILL", "WONT"} /\ up' \in Seq({"WILL", "WONT"})
    BY <1>3, HeadTailProperties DEF AskerReceives, TypeOK
  <2>2. /\ him' \in QState
        /\ Receive(Head(up), him, telopts.asker).send \in {"DO", "DONT"} \cup {None}
    BY <1>3, <2>1, ReceiveMoves DEF AskerReceives, TypeOK, NegCmd
  <2>3. down' \in Seq({"DO", "DONT"})
    BY <1>3, <2>2, PutProperties DEF AskerReceives, TypeOK, None
  <2> QED BY <1>3, <2>1, <2>2, <2>3 DEF AskerReceives, TypeOK
<1>4. CASE OffererReceives
  <2>1. Head(down) \in {"DO", "DONT"} /\ down' \in Seq({"DO", "DONT"})
    BY <1>4, HeadTailProperties DEF OffererReceives, TypeOK
  <2>2. /\ us' \in QState
        /\ Receive(Head(down), us, telopts.offerer).send \in {"WILL", "WONT"} \cup {None}
    BY <1>4, <2>1, ReceiveMoves DEF OffererReceives, TypeOK, NegCmd
  <2>3. up' \in Seq({"WILL", "WONT"})
    BY <1>4, <2>2, PutProperties DEF OffererReceives, TypeOK, None
  <2> QED BY <1>4, <2>1, <2>2, <2>3 DEF OffererReceives, TypeOK
<1>5. CASE UNCHANGED vars
  BY <1>5 DEF TypeOK, vars
<1> QED BY <1>1, <1>2, <1>3, <1>4, <1>5 DEF Next, Request

\* The states, the tables and the commands in flight keep their types.
THEOREM TypeCorrect == Spec => []TypeOK
<1>1. Init => TypeOK
  BY EmptySeq DEF Init, TypeOK, QState
<1> QED BY <1>1, TypeStep, PTL DEF Spec

\* No command is sent but for one that starts a wait or was received.
LEMMA NoStormStep == TypeOK /\ NoStorm /\ [Next]_vars => NoStorm'
<1> SUFFICES ASSUME TypeOK, NoStorm, [Next]_vars
             PROVE  NoStorm'
  OBVIOUS
<1>1. /\ up \in Seq({"WILL", "WONT"}) /\ Len(up) \in Nat
      /\ down \in Seq({"DO", "DONT"}) /\ Len(down) \in Nat
      /\ us \in QState /\ him \in QState
  BY LenProperties DEF TypeOK
<1>2. /\ NoStorm <=> Len(up) + Len(down) <= W(us) + W(him)
      /\ NoStorm' <=> Len(up') + Len(down') <= W(us') + W(him')
      /\ \A q : W(q) \in {0, 1}
  BY DEF NoStorm, Waiting, W
<1>3. ASSUME NEW cmd \in OffererCmds, OffererAsks(cmd)
      PROVE  NoStorm'
  <2>1. cmd \in {"WILL", "WONT"} /\ cmd \in NegCmd
    BY <1>3, CmdsAssumption DEF NegCmd
  <2>2. \/ up' = up /\ W(us') = W(us)
        \/ Len(up') = Len(up) + 1 /\ W(us') = 1 /\ W(us) = 0
    <3>1. CASE Ask(cmd, us).send = None
      BY <1>1, <1>3, <2>1, <3>1, AskMoves DEF OffererAsks, Put, W
    <3>2. CASE Ask(cmd, us).send = cmd
      BY <1>1, <1>3, <2>1, <3>2, AskMoves, AppendProperties DEF OffererAsks, Put, W, None
    <3> QED BY <1>1, <2>1, <3>1, <3>2, AskMoves
  <2> QED BY <1>1, <1>2, <1>3, <2>2 DEF OffererAsks
<1>4. ASSUME NEW cmd \in AskerCmds, AskerAsks(cmd)
      PROVE  NoStorm'
  <2>1. cmd \in {"DO", "DONT"} /\ cmd \in NegCmd
    BY <1>4, CmdsAssumption DEF NegCmd
  <2>2. \/ down' = down /\ W(him') = W(him)
        \/ Len(down') = Len(down) + 1 /\ W(him') = 1 /\ W(him) = 0
    <3>1. CASE Ask(cmd, him).send = None
      BY <1>1, <1>4, <2>1, <3>1, AskMoves DEF AskerAsks, Put, W
    <3>2. CASE Ask(cmd, him).send = cmd
      BY <1>1, <1>4, <2>1, <3>2, AskMoves, AppendProperties DEF AskerAsks, Put, W, None
    <3> QED BY <1>1, <2>1, <3>1, <3>2, AskMoves
  <2> QED BY <1>1, <1>2, <1>4, <2>2 DEF AskerAsks
<1>5. CASE AskerReceives
  <2> DEFINE m == Receive(Head(up), him, telopts.asker)
  <2>1. Head(up) \in {"WILL", "WONT"} /\ Len(up') = Len(up) - 1
    BY <1>1, <1>5, HeadTailProperties DEF AskerReceives
  <2>2. /\ him' = m.q /\ down' = Put(down, m.send) /\ us' = us
        /\ m.send \in {None, "DO", "DONT"}
        /\ m.send = None => W(m.q) <= W(him)
        /\ m.send # None => W(m.q) = W(him)
    BY <1>1, <1>5, <2>1, ReceiveMoves DEF AskerReceives, TypeOK, NegCmd
  <2> HIDE DEF m
  <2>3. CASE m.send = None
    <3>1. down' = down
      BY <2>2, <2>3 DEF Put
    <3> QED BY <1>1, <1>2, <2>1, <2>2, <2>3, <3>1
  <2>4. CASE m.send # None
    <3>1. Len(down') = Len(down) + 1
      BY <1>1, <2>2, <2>4, AppendProperties DEF Put
    <3> QED BY <1>1, <1>2, <2>1, <2>2, <2>4, <3>1
  <2> QED BY <2>3, <2>4
<1>6. CASE OffererReceives
  <2> DEFINE m == Receive(Head(down), us, telopts.offerer)
  <2>1. Head(down) \in {"DO", "DONT"} /\ Len(down') = Len(down) - 1
    BY <1>1, <1>6, HeadTailProperties DEF OffererReceives
  <2>2. /\ us' = m.q /\ up' = Put(up, m.send) /\ him' = him
        /\ m.send \in {None, "WILL", "WONT"}
        /\ m.send = None => W(m.q) <= W(us)
        /\ m.send # None => W(m.q) = W(us)
    BY <1>1, <1>6, <2>1, ReceiveMoves DEF OffererReceives, TypeOK, NegCmd
  <2> HIDE DEF m
  <2>3. CASE m.send = None
    <3>1. up' = up
      BY <2>2, <2>3 DEF Put
    <3> QED BY <1>1, <1>2, <2>1, <2>2, <2>3, <3>1
  <2>4. CASE m.send # None
    <3>1. Len(up') = Len(up) + 1
      BY <1>1, <2>2, <2>4, AppendProperties DEF Put
    <3> QED BY <1>1, <1>2, <2>1, <2>2, <2>4, <3>1
  <2> QED BY <2>3, <2>4
<1>7. CASE UNCHANGED vars
  BY <1>7 DEF vars, NoStorm, Waiting
<1> QED BY <1>3, <1>4, <1>5, <1>6, <1>7 DEF Next, Request

\* As long as no DO is lost, the ends stay coherent.
LEMMA CoherentStep ==
    TypeOK /\ TypeOK' /\ (~lost => Coherent) /\ [Next]_vars => (~lost' => Coherent')
<1> SUFFICES ASSUME TypeOK, TypeOK', ~lost => Coherent, [Next]_vars, ~lost'
             PROVE  Coherent'
  OBVIOUS
<1>1. ~lost /\ Coherent
  BY DEF Next, Request, OffererAsks, AskerAsks, AskerReceives, OffererReceives, vars, TypeOK
<1>2. /\ up \in Seq(NegCmd) /\ down \in Seq(NegCmd)
      /\ us \in QState /\ him \in QState
  BY SeqMonotonic DEF TypeOK, NegCmd
<1>3. CoherentEnds(us, him, up, down) /\ CoherentEnds(him, us, down, up)
  BY <1>1, Symmetric
<1>4. /\ CoherentEnds(us', him', up', down') => Coherent'
      /\ CoherentEnds(him', us', down', up') => Coherent'
  BY SymmetricNext
<1>5. ASSUME NEW cmd \in OffererCmds, OffererAsks(cmd)
      PROVE  Coherent'
  <2>1. cmd \in NegCmd
    BY <1>5, CmdsAssumption DEF NegCmd
  <2>2. CoherentEnds(him', us', down', up')
    BY <1>2, <1>3, <1>5, <2>1, AskKeepsCoherent DEF OffererAsks
  <2> QED BY <1>4, <2>2
<1>6. ASSUME NEW cmd \in AskerCmds, AskerAsks(cmd)
      PROVE  Coherent'
  <2>1. cmd \in NegCmd
    BY <1>6, CmdsAssumption DEF NegCmd
  <2>2. CoherentEnds(us', him', up', down')
    BY <1>2, <1>3, <1>6, <2>1, AskKeepsCoherent DEF AskerAsks
  <2> QED BY <1>4, <2>2
<1>7. CASE AskerReceives
  <2>1. ~LosesRequest(Head(up), him) /\ telopts.asker \in BOOLEAN
    BY <1>7 DEF AskerReceives, TypeOK
  <2>2. CoherentEnds(us', him', up', down')
    BY <1>2, <1>3, <1>7, <2>1, ReceiveKeepsCoherent DEF AskerReceives
  <2> QED BY <1>4, <2>2
<1>8. CASE OffererReceives
  <2>1. ~LosesRequest(Head(down), us) /\ telopts.offerer \in BOOLEAN
    <3>1. Head(down) \in {"DO", "DONT"}
      BY <1>8, HeadTailProperties DEF OffererReceives, TypeOK
    <3> QED BY <3>1 DEF LosesRequest, TypeOK
  <2>2. CoherentEnds(him', us', down', up')
    BY <1>2, <1>3, <1>8, <2>1, ReceiveKeepsCoherent DEF OffererReceives
  <2> QED BY <1>4, <2>2
<1>9. CASE UNCHANGED vars
  <2>1. us' = us /\ him' = him /\ up' = up /\ down' = down
    BY <1>9 DEF vars
  <2> QED BY <1>3, <1>4, <2>1
<1> QED BY <1>5, <1>6, <1>7, <1>8, <1>9 DEF Next, Request

\* Every request and every received command keeps the invariant.
LEMMA InvStep == Inv /\ [Next]_vars => Inv'
BY TypeStep, NoStormStep, CoherentStep DEF Inv

\* telnet_init() establishes the invariant.
LEMMA InvInit == Init => Inv
<1> SUFFICES ASSUME Init
             PROVE  Inv
  OBVIOUS
<1>1. TypeOK
  BY EmptySeq DEF Init, TypeOK, QState
<1>2. Len(up) = 0 /\ Len(down) = 0 /\ Waiting = 0
  BY DEF Init, Waiting, Awaits
<1> QED
  BY <1>1, <1>2 DEF Inv, NoStorm, Init, Coherent, Conservation, LastWord, Alternates,
                   NoneRedundant, NoDispute, Quiet

\* The inductive invariant: types, the bound on commands in flight and, until
\* a DO is lost, the coherence of the two ends with what is in flight.
THEOREM InvHolds == Spec => []Inv
BY InvInit, InvStep, PTL DEF Spec

\* RFC 1143's promise that negotiation does not loop: never more commands in
\* flight than ends that wait, whatever the applications ask and however often.
THEOREM NoStormHolds == Spec => []NoStorm
<1>1. Inv => NoStorm
  BY DEF Inv
<1> QED BY <1>1, InvHolds, PTL

\* A quiet connection is an agreed and settled one, unless libtelnet.c:424
\* lost a DO.
THEOREM AgreementHolds == Spec => []QuietAgreement
<1>1. Inv => QuietAgreement
  <2> SUFFICES ASSUME Inv, Quiet, ~lost
               PROVE  us = him /\ us \in {"NO", "YES"}
    BY DEF QuietAgreement
  <2>1. Len(up) = 0 /\ Len(down) = 0
    BY DEF Quiet
  <2>2. Waiting = 0 /\ us = him
    BY <2>1 DEF Inv, Coherent, Conservation
  <2>3. ~Awaits(us)
    BY <2>2 DEF Waiting
  <2> QED BY <2>2, <2>3 DEF Awaits
<1> QED BY <1>1, InvHolds, PTL

\* The EPROTOCOL warnings of _negotiate() are for other implementations.
THEOREM NoDisputeHolds == Spec => []NoDispute
<1>1. Inv => NoDispute
  BY DEF Inv, Coherent, NoDispute
<1> QED BY <1>1, InvHolds, PTL

-----------------------------------------------------------------------------
(* Applications that wait for the answer.                                  *)

\* The asker's application does not ask for the option between its DONT and
\* the answer to it.
PatientAsker == [][AskerAsks("DO") => him # "WANTNO"]_vars

\* Then nothing is ever queued behind a DONT.
NothingQueued == Inv /\ him # "WANTNO_OP" /\ ~lost

\* No step queues one or loses a DO.
LEMMA NothingQueuedStep ==
    NothingQueued /\ [Next]_vars /\ [AskerAsks("DO") => him # "WANTNO"]_vars => NothingQueued'
<1> SUFFICES ASSUME NothingQueued, [Next]_vars, [AskerAsks("DO") => him # "WANTNO"]_vars
             PROVE  him' # "WANTNO_OP" /\ ~lost'
  BY InvStep DEF NothingQueued
<1>1. him # "WANTNO_OP" /\ lost = FALSE /\ TypeOK
  BY DEF NothingQueued, Inv, TypeOK
<1>2. ASSUME NEW cmd \in AskerCmds, AskerAsks(cmd)
      PROVE  him' # "WANTNO_OP" /\ ~lost'
  <2>1. cmd \in {"DO", "DONT"} /\ him' = Ask(cmd, him).q /\ lost' = lost
    BY <1>2, CmdsAssumption DEF AskerAsks
  <2>2. CASE cmd = "DO" /\ UNCHANGED vars
    BY <1>1, <2>2 DEF vars
  <2>3. CASE cmd = "DO" /\ him # "WANTNO"
    BY <1>1, <2>1, <2>3 DEF Ask, AskOn, Stay, Move
  <2>4. CASE cmd = "DONT"
    BY <1>1, <2>1, <2>4 DEF Ask, AskOff, Stay, Move
  <2> QED
    BY <1>2, <2>1, <2>2, <2>3, <2>4
<1>3. CASE AskerReceives
  <2>1. ~LosesRequest(Head(up), him) /\ lost' = (lost \/ LosesRequest(Head(up), him))
    BY <1>1, <1>3 DEF AskerReceives, LosesRequest
  <2>2. him' = Receive(Head(up), him, telopts.asker).q
    BY <1>3 DEF AskerReceives
  <2>3. him' # "WANTNO_OP"
    BY <1>1, <2>2 DEF Receive, OnWill, OnWont, OnDo, OnDont, Stay, Move
  <2> QED
    BY <1>1, <2>1, <2>3
<1>4. CASE OffererReceives \/ (\E cmd \in OffererCmds : OffererAsks(cmd)) \/ UNCHANGED vars
  BY <1>1, <1>4 DEF OffererReceives, OffererAsks, vars
<1> QED
  BY <1>2, <1>3, <1>4 DEF Next, Request

\* With such an application no DO is lost: whenever nothing is in flight, no
\* end waits and both hold the option in the same state.  So libtelnet.c:424 is
\* the only way into the hang, and only an asker that asks for what it has just
\* forbidden gets there.
THEOREM PatientSettled ==
    Spec /\ PatientAsker => [](QuietMeansSettled /\ (Quiet => us = him))
<1>1. Init => NothingQueued
  BY InvInit DEF Init, NothingQueued
<1>2. NothingQueued => QuietMeansSettled /\ (Quiet => us = him)
  <2> SUFFICES ASSUME NothingQueued, Quiet
               PROVE  ~Awaits(us) /\ ~Awaits(him) /\ us = him
    BY DEF QuietMeansSettled
  <2>1. Len(up) = 0 /\ Len(down) = 0
    BY DEF Quiet
  <2>2. Waiting = 0 /\ us = him
    BY <2>1 DEF NothingQueued, Inv, Coherent, Conservation
  <2> QED
    BY <2>2 DEF Waiting
<1> QED
  BY <1>1, <1>2, NothingQueuedStep, PTL DEF Spec, PatientAsker

=============================================================================
