------------------------------ MODULE QMethod ------------------------------
(***************************************************************************)
(* One option in one direction between two libtelnet peers: the offerer,   *)
(* on whose end the option would run, keeps it in its "us" state, and the  *)
(* asker in its "him" state.  The offerer's WILL and WONT travel up, the   *)
(* asker's DO and DONT travel down; each way is a reliable FIFO.           *)
(* Applications ask for anything at any time and without bound.            *)
(*                                                                         *)
(* A connection is two such halves for every option (module Negotiation).  *)
(***************************************************************************)
EXTENDS Rfc1143, Naturals

CONSTANTS
    OffererCmds,   \* the requests the offerer's application makes
    AskerCmds      \* the requests the asker's application makes

ASSUME CmdsAssumption == OffererCmds \subseteq {"WILL", "WONT"}
                         /\ AskerCmds \subseteq {"DO", "DONT"}

VARIABLES
    telopts,   \* offerer and asker: does its telopts table support the option
    us,        \* the offerer's Q_US state
    him,       \* the asker's Q_HIM state
    up,        \* offerer to asker
    down,      \* asker to offerer
    lost       \* history: an asker left WANTNO_OP without sending its DO

vars == <<telopts, us, him, up, down, lost>>

TypeOK ==
    /\ telopts \in [offerer : BOOLEAN, asker : BOOLEAN]
    /\ us \in QState
    /\ him \in QState
    /\ up \in Seq({"WILL", "WONT"})
    /\ down \in Seq({"DO", "DONT"})
    /\ lost \in BOOLEAN

\* calloc() zeroes the option states: both start at Q_NO.
Init ==
    /\ telopts \in [offerer : BOOLEAN, asker : BOOLEAN]
    /\ us = "NO"
    /\ him = "NO"
    /\ up = <<>>
    /\ down = <<>>
    /\ lost = FALSE

-----------------------------------------------------------------------------

\* telnet_negotiate() with WILL or WONT at the offerer.
OffererAsks(cmd) ==
    LET move == Ask(cmd, us)
    IN  /\ us' = move.q
        /\ up' = Put(up, move.send)
        /\ UNCHANGED <<telopts, him, down, lost>>

\* telnet_negotiate() with DO or DONT at the asker.
AskerAsks(cmd) ==
    LET move == Ask(cmd, him)
    IN  /\ him' = move.q
        /\ down' = Put(down, move.send)
        /\ UNCHANGED <<telopts, us, up, lost>>

\* _negotiate() at the asker, for the WILL or WONT at the head of the stream.
AskerReceives ==
    /\ up # <<>>
    /\ LET move == Receive(Head(up), him, telopts.asker)
       IN  /\ him' = move.q
           /\ down' = Put(down, move.send)
           /\ lost' = (lost \/ LosesRequest(Head(up), him))
    /\ up' = Tail(up)
    /\ UNCHANGED <<telopts, us>>

\* _negotiate() at the offerer, for a DO or DONT.
OffererReceives ==
    /\ down # <<>>
    /\ LET move == Receive(Head(down), us, telopts.offerer)
       IN  /\ us' = move.q
           /\ up' = Put(up, move.send)
    /\ down' = Tail(down)
    /\ UNCHANGED <<telopts, him, lost>>

Request ==
    \/ \E cmd \in OffererCmds : OffererAsks(cmd)
    \/ \E cmd \in AskerCmds : AskerAsks(cmd)

Next == Request \/ AskerReceives \/ OffererReceives

Spec == Init /\ [][Next]_vars

\* A connected TCP stream delivers, and the receiver's loop reads it.
FairSpec == Spec /\ WF_vars(AskerReceives) /\ WF_vars(OffererReceives)

-----------------------------------------------------------------------------
Quiet == up = <<>> /\ down = <<>>

\* How many of the two ends wait for an answer.
Waiting == (IF Awaits(us) THEN 1 ELSE 0) + (IF Awaits(him) THEN 1 ELSE 0)

\* The Q method never loops (the purpose of RFC 1143): however often the two
\* applications change their minds, no more commands are in flight than ends
\* wait for an answer, so never more than two.
NoStorm == Len(up) + Len(down) <= Waiting

\* When nothing is in flight, both ends hold the option in the same settled
\* state, unless the asker's DO was lost in WANTNO_OP (libtelnet.c:424).
QuietAgreement == Quiet /\ ~lost => us = him /\ us \in {"NO", "YES"}

\* Between two libtelnet ends the EPROTOCOL warnings "DONT answered by WILL"
\* and "WONT answered by DO" of _negotiate() are never raised: an end that
\* asked to turn the option off is answered by consent.
NoDispute ==
    ~lost => /\ (up # <<>> => ~Disputed(Head(up), him))
             /\ (down # <<>> => ~Disputed(Head(down), us))

\* The reading of libtelnet.h:433, "libtelnet uses RFC1143 option negotiation
\* rules": an end that wants the option has asked for it, so a quiet end does
\* not wait.
QuietMeansSettled == Quiet => ~Awaits(us) /\ ~Awaits(him)

\* Every command in flight matters: none tells its receiver what it settled on.
NoneRedundant ==
    /\ up # <<>> => Awaits(him) \/ Affirms(Head(up)) # Leaning(him)
    /\ down # <<>> => Awaits(us) \/ Affirms(Head(down)) # Leaning(us)

\* Once both applications stop asking, the connection falls quiet, with both
\* ends agreed unless a DO was lost.
Settles ==
    <>[][~Request]_vars => <>[](Quiet /\ (lost \/ us = him))

\* An application that withdraws its request gets the option turned off, or
\* asks for it again, or a DO was lost: the withdrawal is not forgotten.
WithdrawalHonoured ==
    /\ us = "WANTYES_OP" ~> us \in {"NO", "WANTYES", "WANTNO_OP"} \/ lost
    /\ him = "WANTYES_OP" ~> him \in {"NO", "WANTYES", "WANTNO_OP"} \/ lost

-----------------------------------------------------------------------------
(* The inductive invariant behind these properties.                        *)

\* Sent and not answered: conservation of commands.
Conservation == Len(up) + Len(down) = Waiting

\* The last command of an end in flight is where that end stands.
LastWord ==
    /\ up # <<>> => Affirms(up[Len(up)]) = Leaning(us)
    /\ down # <<>> => Affirms(down[Len(down)]) = Leaning(him)

\* Two commands in flight the same way contradict each other.
Alternates ==
    /\ Len(up) > 1 => up[1] # up[2]
    /\ Len(down) > 1 => down[1] # down[2]

Coherent ==
    /\ Conservation
    /\ LastWord
    /\ Alternates
    /\ NoneRedundant
    /\ NoDispute
    /\ Quiet => us = him

\* While no DO was lost all of it holds, afterwards only NoStorm.
Inv == TypeOK /\ NoStorm /\ (~lost => Coherent)

=============================================================================
