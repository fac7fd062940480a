---------------------------- MODULE TelnetStream ----------------------------
(***************************************************************************)
(* What decoding a TELNET stream means, byte by byte, as telnet_recv()     *)
(* promises it to an application whatever pieces the stream arrives in.    *)
(* It takes the wire protocol from the comments of _process() and knows    *)
(* nothing of chunks, of when data is handed over, or of buffers beyond    *)
(* their capacity.  TelnetRecv implements it.                              *)
(***************************************************************************)
EXTENDS Naturals, Sequences

CONSTANTS
    Byte,        \* the bytes a peer sends
    Capacity,    \* the longest subnegotiation that is kept
    MemoryFails  \* whether the library may run out of memory

Negotiations == {"WILL", "WONT", "DO", "DONT"}

\* The events of the application.
Data(b) == [kind |-> "data", byte |-> b]
Iac(b) == [kind |-> "iac", cmd |-> b]
Negotiation(cmd, b) == [kind |-> "negotiation", cmd |-> cmd, opt |-> b]
Subnegotiation(b, payload) == [kind |-> "subnegotiation", opt |-> b, payload |-> payload]
Warning(about) == [kind |-> "warning", about |-> about]

VARIABLES
    mode,       \* what the next byte is
    opt,        \* the option under subnegotiation
    payload,    \* its bytes so far
    translate,  \* CR LF and CR NUL are translated
    out         \* the events the application has not consumed

vars == <<mode, opt, payload, translate, out>>

Init ==
    /\ mode = "data"
    /\ opt = "none"
    /\ payload = <<>>
    /\ translate \in BOOLEAN
    /\ out = <<>>

Emit(events) == out' = out \o events

\* The command byte after an IAC, with the events that precede it.
Command(b, before) ==
    IF b = "SB" THEN mode' = "option" /\ Emit(before)
    ELSE IF b \in Negotiations THEN mode' = b /\ Emit(before)
    ELSE IF b = "IAC" THEN mode' = "data" /\ Emit(before \o <<Data("IAC")>>)
    ELSE mode' = "data" /\ Emit(before \o <<Iac(b)>>)

InData(b) ==
    /\ mode = "data"
    /\ IF b = "IAC" THEN mode' = "iac" /\ Emit(<<>>)
       ELSE IF b = "CR" /\ translate THEN mode' = "cr" /\ Emit(<<>>)
       ELSE mode' = "data" /\ Emit(<<Data(b)>>)
    /\ UNCHANGED <<opt, payload, translate>>

\* CR LF is a newline, CR NUL a carriage return, anything else passes as it is.
InCr(b) ==
    /\ mode = "cr"
    /\ mode' = "data"
    /\ Emit(IF b = "LF" THEN <<Data("LF")>>
            ELSE IF b = "NUL" THEN <<Data("CR")>>
            ELSE <<Data("CR"), Data(b)>>)
    /\ UNCHANGED <<opt, payload, translate>>

InIac(b) ==
    /\ mode = "iac"
    /\ Command(b, <<>>)
    /\ UNCHANGED <<opt, payload, translate>>

\* BINARY (option 0) agreed or disagreed by the peer's WILL or WONT turns the
\* translation off or on, as the negotiation goes.
InNegotiation(b) ==
    /\ mode \in Negotiations
    /\ mode' = "data"
    /\ Emit(<<Negotiation(mode, b)>>)
    /\ IF b = "NUL" /\ mode \in {"WILL", "WONT"} THEN translate' \in BOOLEAN
                                                ELSE translate' = translate
    /\ UNCHANGED <<opt, payload>>

InOption(b) ==
    /\ mode = "option"
    /\ mode' = "payload"
    /\ opt' = b
    /\ payload' = <<>>
    /\ Emit(<<>>)
    /\ UNCHANGED translate

\* A byte of the payload is kept, or the subnegotiation is given up.
Keep(b) ==
    \/ /\ Len(payload) < Capacity
       /\ mode' = "payload"
       /\ payload' = Append(payload, b)
       /\ Emit(<<>>)
    \/ /\ Len(payload) = Capacity
       /\ mode' = "data"
       /\ UNCHANGED payload
       /\ Emit(<<Warning("overflow")>>)
    \/ /\ Len(payload) < Capacity /\ MemoryFails
       /\ mode' = "data"
       /\ UNCHANGED payload
       /\ Emit(<<Warning("memory")>>)

InPayload(b) ==
    /\ mode = "payload"
    /\ IF b = "IAC" THEN mode' = "payload_iac" /\ Emit(<<>>) /\ UNCHANGED payload
       ELSE IF opt = "COMPRESS" /\ b = "WILL"
            THEN mode' = "discard" /\ Emit(<<>>) /\ UNCHANGED payload
       ELSE Keep(b)
    /\ UNCHANGED <<opt, translate>>

\* IAC SB 85 WILL SE, the start of MCCPv1, is captured and discarded.
InDiscard(b) ==
    /\ mode = "discard"
    /\ mode' = "data"
    /\ Emit(<<>>)
    /\ UNCHANGED <<opt, payload, translate>>

\* IAC SE ends the payload, IAC IAC is a byte of it, and any other command
\* ends it too and is then evaluated as a command.
InPayloadIac(b) ==
    /\ mode = "payload_iac"
    /\ IF b = "SE"
         THEN mode' = "data" /\ Emit(<<Subnegotiation(opt, payload)>>) /\ UNCHANGED payload
       ELSE IF b = "IAC" THEN Keep(b)
       ELSE /\ Command(b, <<Warning("protocol"), Subnegotiation(opt, payload)>>)
            /\ UNCHANGED payload
    /\ UNCHANGED <<opt, translate>>

Decode(b) ==
    \/ InData(b) \/ InCr(b) \/ InIac(b) \/ InNegotiation(b) \/ InOption(b)
    \/ InPayload(b) \/ InDiscard(b) \/ InPayloadIac(b)

\* The application takes its events.
Consume ==
    /\ out' = <<>>
    /\ UNCHANGED <<mode, opt, payload, translate>>

\* The application demands that the peer stop sending BINARY.
DemandNvt ==
    /\ ~translate
    /\ translate' = TRUE
    /\ UNCHANGED <<mode, opt, payload, out>>

Next == (\E b \in Byte : Decode(b)) \/ Consume \/ DemandNvt

Spec == Init /\ [][Next]_vars

=============================================================================
