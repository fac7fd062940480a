------------------------------ MODULE Rfc1143 ------------------------------
(***************************************************************************)
(* The transition table of the Q method as libtelnet.c implements it: what *)
(* _negotiate() does with a command of the peer, and telnet_negotiate()    *)
(* with a request of the application, for one option.                      *)
(*                                                                         *)
(* The code keeps two six-valued states per option, "us" (the option on    *)
(* our end, moved by DO and DONT) and "him" (the option on the peer's end, *)
(* moved by WILL and WONT).  Each operator takes the state the command     *)
(* concerns and gives the move: the next state, the command sent to the    *)
(* peer and the event given to the application, None where the code sends  *)
(* or reports nothing.                                                     *)
(***************************************************************************)
EXTENDS Sequences

QState == {"NO", "YES", "WANTNO", "WANTYES", "WANTNO_OP", "WANTYES_OP"}

NegCmd == {"WILL", "WONT", "DO", "DONT"}

None == "none"

Move(q, send, event) == [q |-> q, send |-> send, event |-> event]

Stay(q) == Move(q, None, None)

-----------------------------------------------------------------------------
(* Mistakes one could make in the table, for the mutation runs.            *)

\* Confirms a confirmation.
OnWillConfirmsAgain(him, supported) ==
    IF him = "NO" /\ ~supported THEN Move("NO", "DONT", None)
    ELSE IF him = "WANTNO"      THEN Move("NO", None, "WONT")
    ELSE IF him = "WANTYES_OP"  THEN Move("WANTNO", "DONT", "WILL")
    ELSE Move("YES", "DO", "WILL")

\* Forgets that the request was withdrawn while it was outstanding.
OnDoForgetsWithdrawal(us, supported) ==
    IF us = "NO" /\ supported       THEN Move("YES", "WILL", "DO")
    ELSE IF us = "NO" /\ ~supported THEN Move("NO", "WONT", None)
    ELSE IF us = "WANTNO"           THEN Move("NO", None, "DONT")
    ELSE Move("YES", None, "DO")

\* Takes a confirmation silently.
OnDoSilentlyConfirmed(us, supported) ==
    IF us = "NO" /\ supported       THEN Move("YES", "WILL", "DO")
    ELSE IF us = "NO" /\ ~supported THEN Move("NO", "WONT", None)
    ELSE IF us = "WANTYES_OP"       THEN Move("WANTNO", "WONT", "DO")
    ELSE Move("YES", None, None)

\* Loses the queued request, as OnWont does.
OnDontSendsNothing(us) ==
    IF us = "YES"            THEN Move("NO", "WONT", "DONT")
    ELSE IF us = "WANTNO"    THEN Move("NO", None, "WONT")
    ELSE IF us = "WANTNO_OP" THEN Move("WANTYES", None, "WILL")
    ELSE Move("NO", None, None)

\* Goes on waiting after a refusal.
OnDontKeepsWaiting(us) ==
    IF us = "YES"            THEN Move("NO", "WONT", "DONT")
    ELSE IF us = "WANTNO"    THEN Move("NO", None, "WONT")
    ELSE IF us = "WANTNO_OP" THEN Move("WANTYES", "WILL", "WILL")
    ELSE Stay(us)

\* Acknowledges a refusal.
OnDontAcknowledges(us) ==
    IF us = "WANTNO"         THEN Move("NO", None, "WONT")
    ELSE IF us = "WANTNO_OP" THEN Move("WANTYES", "WILL", "WILL")
    ELSE IF us = "NO"        THEN Stay(us)
    ELSE Move("NO", "WONT", "DONT")

\* Withdraws at once instead of queueing the opposite.
AskOffAtOnce(cmd, q) ==
    IF q \in {"YES", "WANTYES"}   THEN Move("WANTNO", cmd, None)
    ELSE IF q = "WANTNO_OP"       THEN Move("WANTNO", None, None)
    ELSE Stay(q)

\* Mistake: sends without a command to send.
PutAlways(channel, cmd) == Append(channel, cmd)

-----------------------------------------------------------------------------
\* _send_negotiate(), when there is something to send.
Put(channel, cmd) == IF cmd = None THEN channel ELSE Append(channel, cmd)

-----------------------------------------------------------------------------
(* Commands received from the peer.  The branches that answer a refusal    *)
(* with its opposite also report a warning, "DONT answered by WILL" and    *)
(* "WONT answered by DO": see Disputed.                                    *)

OnWill(him, supported) ==
    IF him = "NO" /\ supported       THEN Move("YES", "DO", "WILL")
    ELSE IF him = "NO" /\ ~supported THEN Move("NO", "DONT", None)
    ELSE IF him = "WANTNO"           THEN Move("NO", None, "WONT")
    ELSE IF him = "WANTNO_OP"        THEN Move("YES", None, "WILL")
    ELSE IF him = "WANTYES"          THEN Move("YES", None, "WILL")
    ELSE IF him = "WANTYES_OP"       THEN Move("WANTNO", "DONT", "WILL")
    ELSE Stay(him)

\* In WANTNO_OP the queued request becomes current, is reported as a DO, and
\* no command is sent: the twin branch of OnDont sends its WILL.
OnWont(him) ==
    IF him = "YES"                            THEN Move("NO", "DONT", "WONT")
    ELSE IF him = "WANTNO"                    THEN Move("NO", None, "WONT")
    ELSE IF him = "WANTNO_OP"                 THEN Move("WANTYES", None, "DO")
    ELSE IF him \in {"WANTYES", "WANTYES_OP"} THEN Move("NO", None, None)
    ELSE Stay(him)

OnDo(us, supported) ==
    IF us = "NO" /\ supported       THEN Move("YES", "WILL", "DO")
    ELSE IF us = "NO" /\ ~supported THEN Move("NO", "WONT", None)
    ELSE IF us = "WANTNO"           THEN Move("NO", None, "DONT")
    ELSE IF us = "WANTNO_OP"        THEN Move("YES", None, "DO")
    ELSE IF us = "WANTYES"          THEN Move("YES", None, "DO")
    ELSE IF us = "WANTYES_OP"       THEN Move("WANTNO", "WONT", "DO")
    ELSE Stay(us)

\* The confirmation of our own WONT is reported as a WONT, the queued WILL of
\* WANTNO_OP as a WILL.
OnDont(us) ==
    IF us = "YES"                            THEN Move("NO", "WONT", "DONT")
    ELSE IF us = "WANTNO"                    THEN Move("NO", None, "WONT")
    ELSE IF us = "WANTNO_OP"                 THEN Move("WANTYES", "WILL", "WILL")
    ELSE IF us \in {"WANTYES", "WANTYES_OP"} THEN Move("NO", None, None)
    ELSE Stay(us)

\* WILL and WONT concern "him", DO and DONT concern "us".
Receive(cmd, q, supported) ==
    IF cmd = "WILL"      THEN OnWill(q, supported)
    ELSE IF cmd = "WONT" THEN OnWont(q)
    ELSE IF cmd = "DO"   THEN OnDo(q, supported)
    ELSE OnDont(q)

\* The EPROTOCOL warnings of _negotiate().
Disputed(cmd, q) == cmd \in {"WILL", "DO"} /\ q \in {"WANTNO", "WANTNO_OP"}

\* The branch of _negotiate() that moves to WANTYES and sends nothing.
LosesRequest(cmd, q) == cmd = "WONT" /\ q = "WANTNO_OP"

-----------------------------------------------------------------------------
(* Requests of the application.  WILL and WONT concern "us", DO and DONT   *)
(* concern "him"; the two pairs of branches are alike.                     *)

AskOn(cmd, q) ==
    IF q = "NO"              THEN Move("WANTYES", cmd, None)
    ELSE IF q = "WANTNO"     THEN Move("WANTNO_OP", None, None)
    ELSE IF q = "WANTYES_OP" THEN Move("WANTYES", None, None)
    ELSE Stay(q)

AskOff(cmd, q) ==
    IF q = "YES"            THEN Move("WANTNO", cmd, None)
    ELSE IF q = "WANTYES"   THEN Move("WANTYES_OP", None, None)
    ELSE IF q = "WANTNO_OP" THEN Move("WANTNO", None, None)
    ELSE Stay(q)

Ask(cmd, q) == IF cmd \in {"WILL", "DO"} THEN AskOn(cmd, q) ELSE AskOff(cmd, q)

-----------------------------------------------------------------------------
\* A request is outstanding: the peer's answer decides the state.
Awaits(q) == q \notin {"NO", "YES"}

\* Whether the state stands for the option being on, or asked to be on.
Leaning(q) == q \in {"YES", "WANTYES", "WANTYES_OP"}

\* What a command says of the sender's leaning.
Affirms(cmd) == cmd \in {"WILL", "DO"}

=============================================================================
