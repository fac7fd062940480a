---------------------------- MODULE Negotiation ----------------------------
(***************************************************************************)
(* Two libtelnet ends on one connection, negotiating several options over  *)
(* one FIFO stream each way, with text in between.                         *)
(*                                                                         *)
(* Each end holds a us and a him state for every option.  The option       *)
(* BINARY also drives the TRANSMIT_BINARY and RECEIVE_BINARY flags, which  *)
(* decide how text is encoded and decoded.  Every option in each direction *)
(* behaves as one QMethod half.                                            *)
(***************************************************************************)
EXTENDS Rfc1143, Naturals, Sequences, FiniteSets

CONSTANTS
    Option,     \* the options in play
    BINARY,     \* TELNET_TELOPT_BINARY
    Tables,     \* the telopts tables an end may be created with
    AppCmds,    \* the requests applications make: <<node, command, option>>
    MaxTexts    \* bound: texts in flight each way

Node == {"client", "server"}

ASSUME NegotiationAssumption ==
    /\ Tables \subseteq [Option -> SUBSET {"LOCAL", "REMOTE"}]
    /\ AppCmds \subseteq Node \X NegCmd \X Option
    /\ MaxTexts \in Nat

Peer(n) == IF n = "client" THEN "server" ELSE "client"

VARIABLES
    telopts,   \* telopts[n]: the table given to telnet_init()
    q,         \* q[n][o]: the us and him states of option o at n
    flags,     \* flags[n]: the BINARY flags of n
    wire,      \* wire[n]: what n sent and its peer has not read
    view,      \* view[n][o]: what n's application gathers from its events
    lost       \* history: n left WANTNO_OP for o without sending its DO

vars == <<telopts, q, flags, wire, view, lost>>

Command(cmd, o) == [kind |-> "command", cmd |-> cmd, opt |-> o]

\* A text, with the encoding it was given and whether the sender's BINARY
\* was then under negotiation.
Text(binary, unsettled) == [kind |-> "text", binary |-> binary, unsettled |-> unsettled]

Packet == [kind : {"command"}, cmd : NegCmd, opt : Option]
          \cup [kind : {"text"}, binary : BOOLEAN, unsettled : BOOLEAN]

\* An application that follows the documentation of the negotiation events
\* believes an option off, on, or asked for and not answered yet.
Belief == {"off", "asked", "on"}

TypeOK ==
    /\ telopts \in [Node -> Tables]
    /\ q \in [Node -> [Option -> [us : QState, him : QState]]]
    /\ flags \in [Node -> SUBSET {"TRANSMIT_BINARY", "RECEIVE_BINARY"}]
    /\ wire \in [Node -> Seq(Packet)]
    /\ view \in [Node -> [Option -> [us : Belief, him : Belief]]]
    /\ lost \in [Node -> [Option -> BOOLEAN]]

Init ==
    /\ telopts \in [Node -> Tables]
    /\ q = [n \in Node |-> [o \in Option |-> [us |-> "NO", him |-> "NO"]]]
    /\ flags = [n \in Node |-> {}]
    /\ wire = [n \in Node |-> <<>>]
    /\ view = [n \in Node |-> [o \in Option |-> [us |-> "off", him |-> "off"]]]
    /\ lost = [n \in Node |-> [o \in Option |-> FALSE]]

-----------------------------------------------------------------------------

\* WILL and WONT of ours concern our end, DO and DONT the peer's.
AskedSide(cmd) == IF cmd \in {"WILL", "WONT"} THEN "us" ELSE "him"

\* The peer's WILL and WONT concern the peer's end, its DO and DONT ours.
ToldSide(cmd) == IF cmd \in {"WILL", "WONT"} THEN "him" ELSE "us"

(* Mistakes one could make here, for the mutation runs.                    *)

BinaryFlagsSwapped(state) ==
    (IF state.us = "YES" THEN {"RECEIVE_BINARY"} ELSE {})
    \cup (IF state.him = "YES" THEN {"TRANSMIT_BINARY"} ELSE {})

SendNegotiateAlways(n, cmd, o, stream) ==
    [stream EXCEPT ![n] = Append(@, Command(cmd, o))]

SupportsAnything(n, cmd, o) == TRUE

-----------------------------------------------------------------------------
\* The flags _set_rfc1143() computes for BINARY.
BinaryFlags(state) ==
    (IF state.us = "YES" THEN {"TRANSMIT_BINARY"} ELSE {})
    \cup (IF state.him = "YES" THEN {"RECEIVE_BINARY"} ELSE {})

\* Mistakes: the flags are never cleared; both halves of the state byte are
\* overwritten.
SetRfc1143NeverClears(n, o, side, state) ==
    /\ q' = [q EXCEPT ![n][o][side] = state]
    /\ flags' = IF o = BINARY THEN [flags EXCEPT ![n] = @ \cup BinaryFlags(q'[n][o])] ELSE flags

SetRfc1143Clobbers(n, o, side, state) ==
    /\ q' = [q EXCEPT ![n][o] = [us |-> state, him |-> state]]
    /\ flags' = IF o = BINARY THEN [flags EXCEPT ![n] = BinaryFlags(q'[n][o])] ELSE flags

\* _set_rfc1143(): saves one side of an option, and the flags with BINARY.
SetRfc1143(n, o, side, state) ==
    /\ q' = [q EXCEPT ![n][o][side] = state]
    /\ flags' = IF o = BINARY THEN [flags EXCEPT ![n] = BinaryFlags(q'[n][o])] ELSE flags

\* _send_negotiate(), when there is something to send.
SendNegotiate(n, cmd, o, stream) ==
    IF cmd = None THEN stream ELSE [stream EXCEPT ![n] = Append(@, Command(cmd, o))]

\* What the documentation of an event tells the application about an option:
\* WILL and WONT that the peer's end is on or off, DO and DONT that ours is.
Informed(belief, event) ==
    IF event = None THEN belief
    ELSE [belief EXCEPT ![ToldSide(event)] = IF Affirms(event) THEN "on" ELSE "off"]

\* telnet_negotiate() outside PROXY mode.
Negotiate(n, cmd, o) ==
    LET side == AskedSide(cmd)
        move == Ask(cmd, q[n][o][side])
    IN  /\ SetRfc1143(n, o, side, move.q)
        /\ wire' = SendNegotiate(n, move.send, o, wire)
        /\ view' = IF Affirms(cmd) /\ view[n][o][side] = "off"
                   THEN [view EXCEPT ![n][o][side] = "asked"]
                   ELSE view
        /\ UNCHANGED <<telopts, lost>>

\* telnet_send_text(): the flag of the moment decides the encoding.
SendText(n) ==
    /\ Cardinality({i \in DOMAIN wire[n] : wire[n][i].kind = "text"}) < MaxTexts
    /\ wire' = [wire EXCEPT ![n] =
                   Append(@, Text("TRANSMIT_BINARY" \in flags[n],
                                  BINARY \in Option /\ Awaits(q[n][BINARY].us)))]
    /\ UNCHANGED <<telopts, q, flags, view, lost>>

\* What telnet_recv() takes off the stream first.
Reads(n, kind) == wire[Peer(n)] # <<>> /\ Head(wire[Peer(n)]).kind = kind

Taken(n) == [wire EXCEPT ![Peer(n)] = Tail(@)]

Supports(n, cmd, o) ==
    (IF ToldSide(cmd) = "us" THEN "LOCAL" ELSE "REMOTE") \in telopts[n][o]

\* _negotiate() outside PROXY mode: state, answer and event, in this order.
ReceiveCommand(n) ==
    /\ Reads(n, "command")
    /\ LET cmd  == Head(wire[Peer(n)]).cmd
           o    == Head(wire[Peer(n)]).opt
           side == ToldSide(cmd)
           was  == q[n][o][side]
           move == Receive(cmd, was, Supports(n, cmd, o))
       IN  /\ SetRfc1143(n, o, side, move.q)
           /\ wire' = SendNegotiate(n, move.send, o, Taken(n))
           /\ view' = [view EXCEPT ![n][o] = Informed(@, move.event)]
           /\ lost' = [lost EXCEPT ![n][o] = @ \/ LosesRequest(cmd, was)]
    /\ UNCHANGED telopts

ReceiveText(n) ==
    /\ Reads(n, "text")
    /\ wire' = Taken(n)
    /\ UNCHANGED <<telopts, q, flags, view, lost>>

ReceiveAny(n) == ReceiveCommand(n) \/ ReceiveText(n)

Next ==
    \/ \E n \in Node, cmd \in NegCmd, o \in Option :
          <<n, cmd, o>> \in AppCmds /\ Negotiate(n, cmd, o)
    \/ \E n \in Node : SendText(n) \/ ReceiveAny(n)

Spec == Init /\ [][Next]_vars

-----------------------------------------------------------------------------
(* The half of option o whose offerer is n, as a state of QMethod: the MC  *)
(* module instantiates QMethod with it for every half in play.             *)

\* The positions of a stream at which there is a command about one side of an
\* option.
About(w, o, cmds) ==
    {i \in DOMAIN w : w[i].kind = "command" /\ w[i].opt = o /\ w[i].cmd \in cmds}

\* The commands there, in their order, without what is between them.
Commands(w, o, cmds) ==
    LET places == About(w, o, cmds)
        Rank(i) == Cardinality({j \in places : j <= i})
    IN  [r \in 1 .. Cardinality(places) |-> w[CHOOSE i \in places : Rank(i) = r].cmd]

Offers(n, o) == Commands(wire[n], o, {"WILL", "WONT"})

Demands(n, o) == Commands(wire[n], o, {"DO", "DONT"})

Willing(n, o) == [offerer |-> "LOCAL" \in telopts[n][o],
                  asker |-> "REMOTE" \in telopts[Peer(n)][o]]

OneHalf(n, o) == INSTANCE QMethod WITH
    OffererCmds <- {"WILL", "WONT"}, AskerCmds <- {"DO", "DONT"},
    telopts <- Willing(n, o), lost <- lost[Peer(n)][o],
    us <- q[n][o].us, him <- q[Peer(n)][o].him,
    up <- Offers(n, o), down <- Demands(Peer(n), o)

\* Sharing a stream with the other options and with text changes nothing for
\* an option: each direction of each option is a run of QMethod.
HalvesImplemented ==
    /\ \A n \in Node, o \in Option : OneHalf(n, o)!Init
    /\ [][\A n \in Node, o \in Option :
            [OneHalf(n, o)!Next]_(OneHalf(n, o)!vars)]_vars

-----------------------------------------------------------------------------
(* Safety.                                                                 *)

\* An option is on only by consent of both: at each end its table or a request
\* of its application allows it (_check_telopt_us, _check_telopt_him).
Consent ==
    \A n \in Node, o \in Option :
        LET may(end, side, cmd) == side \in telopts[end][o] \/ <<end, cmd, o>> \in AppCmds
            both == may(n, "LOCAL", "WILL") /\ may(Peer(n), "REMOTE", "DO")
        IN  q[n][o].us = "YES" \/ q[Peer(n)][o].him = "YES" => both

\* A text is read with the wrong encoding only if one end of BINARY was under
\* negotiation: at the sender when it was sent or at the reader now.  Settled
\* ends never disagree about a text, though commands and texts interleave.
SkewOnlyUnsettled ==
    \A n \in Node :
        Reads(n, "text") =>
            LET text == Head(wire[Peer(n)])
            IN  \/ text.binary = ("RECEIVE_BINARY" \in flags[n])
                \/ text.unsettled
                \/ Awaits(q[n][BINARY].him)

\* When nothing is in flight and no DO was lost, the two ends encode and
\* decode text alike in each direction.
FlagsAgree ==
    \A n \in Node :
        /\ wire = [m \in Node |-> <<>>]
        /\ \A m \in Node, o \in Option : ~lost[m][o]
        => ("TRANSMIT_BINARY" \in flags[n] <=> "RECEIVE_BINARY" \in flags[Peer(n)])

\* An application that goes by its events knows of every option that is on at
\* its own end.
LocalOnReported ==
    \A n \in Node, o \in Option : q[n][o].us = "YES" => view[n][o].us = "on"

\* README: a WONT event "means the TELNET option is not or will not be
\* supported by the remote end".  So does an application know of every option
\* that is on at the peer's end?
RemoteOnReported ==
    \A n \in Node, o \in Option : q[n][o].him = "YES" => view[n][o].him = "on"

=============================================================================
