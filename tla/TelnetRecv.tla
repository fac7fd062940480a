----------------------------- MODULE TelnetRecv -----------------------------
(***************************************************************************)
(* The parser of libtelnet: telnet_recv() on an uncompressed stream, that  *)
(* is _process(), one action for each state of its switch.                 *)
(*                                                                         *)
(* Each call of telnet_recv() gets a chunk of the stream, and hands over   *)
(* the plain bytes of it by reference: "start" is where the bytes not yet  *)
(* handed over begin.  A chunk may end after any byte, so the model reads  *)
(* a chunk byte by byte and ends it at any point.                          *)
(***************************************************************************)
EXTENDS Naturals, Sequences

CONSTANTS
    Byte,        \* the bytes a peer sends; NUL is also the option BINARY
    Sizes,       \* _buffer_sizes
    MemoryFails, \* whether realloc() may fail
    MaxChunk     \* bound: bytes of a chunk

ASSUME RecvAssumption ==
    /\ Sizes \in Seq(Nat) /\ Len(Sizes) > 0 /\ Sizes[1] = 0
    /\ \A i, j \in DOMAIN Sizes : i < j => Sizes[i] < Sizes[j]
    /\ MemoryFails \in BOOLEAN
    /\ MaxChunk \in Nat \ {0}
    /\ "COMPRESS2" \notin Byte   \* it is the matter of module Mccp2
    /\ "none" \notin Byte        \* sb_telopt before the first subnegotiation

Negotiations == {"WILL", "WONT", "DO", "DONT"}

State == {"DATA", "EOL", "IAC", "SB", "SB_DATA", "SB_DATA_IAC"} \cup Negotiations

\* The events of the application; a DATA event is one record for each byte.
Data(b) == [kind |-> "data", byte |-> b]
Iac(b) == [kind |-> "iac", cmd |-> b]
Negotiation(cmd, b) == [kind |-> "negotiation", cmd |-> cmd, opt |-> b]
Subnegotiation(b, payload) == [kind |-> "subnegotiation", opt |-> b, payload |-> payload]
Warning(about) == [kind |-> "warning", about |-> about]

\* A DATA event whose size i - start wrapped below zero.
Overrun == [kind |-> "overrun"]

Kinds == {"data", "iac", "negotiation", "subnegotiation", "warning", "overrun"}

VARIABLES
    state,       \* telnet->state
    sb_telopt,   \* telnet->sb_telopt
    buffer,      \* the first buffer_pos bytes of telnet->buffer
    buffer_size, \* telnet->buffer_size
    translate,   \* NVT_EOL is set and RECEIVE_BINARY is not
    receiving,   \* telnet_recv() is running
    chunk,       \* the bytes of the current chunk read so far
    start,       \* the local variable of _process()
    out          \* events of the current call

vars == <<state, sb_telopt, buffer, buffer_size, translate, receiving, chunk, start, out>>

TypeOK ==
    /\ state \in State
    /\ sb_telopt \in Byte \cup {"none"}
    /\ state \in {"SB_DATA", "SB_DATA_IAC"} => sb_telopt # "none"
    /\ buffer \in Seq(Byte)
    /\ buffer_size \in {Sizes[i] : i \in DOMAIN Sizes}
    /\ translate \in BOOLEAN
    /\ receiving \in BOOLEAN
    /\ chunk \in Seq(Byte)
    /\ start \in Nat
    /\ \A k \in DOMAIN out : out[k].kind \in Kinds

Init ==
    /\ state = "DATA"
    /\ sb_telopt = "none"
    /\ buffer = <<>>
    /\ buffer_size = 0
    /\ translate \in BOOLEAN
    /\ receiving = FALSE
    /\ chunk = <<>>
    /\ start = 0
    /\ out = <<>>

-----------------------------------------------------------------------------
\* The index of the byte in hand.
Index == Len(chunk)

\* The DATA event for the bytes from start up to the byte in hand.
Pending ==
    IF start > Index THEN <<Overrun>>
    ELSE [k \in 1 .. Index - start |-> Data(chunk[start + k])]

\* telnet_recv() is called with a chunk; the last call's events are consumed.
Call ==
    /\ ~receiving
    /\ receiving' = TRUE
    /\ chunk' = <<>>
    /\ start' = 0
    /\ out' = <<>>
    /\ UNCHANGED <<state, sb_telopt, buffer, buffer_size, translate>>

\* The loop ends: the remaining bytes are passed through.
Return ==
    /\ receiving
    /\ receiving' = FALSE
    /\ out' = IF state = "DATA" /\ start # Index THEN out \o Pending ELSE out
    /\ chunk' = <<>>
    /\ start' = 0
    /\ UNCHANGED <<state, sb_telopt, buffer, buffer_size, translate>>

\* The byte in hand is buffer[i].
Read(b) ==
    /\ receiving
    /\ Index < MaxChunk
    /\ chunk' = Append(chunk, b)
    /\ UNCHANGED receiving

Emit(events) == out' = out \o events

InData(b) ==
    /\ state = "DATA"
    /\ Read(b)
    /\ IF b = "IAC" \/ (b = "CR" /\ translate)
       THEN /\ state' = IF b = "IAC" THEN "IAC" ELSE "EOL"
            /\ Emit(IF start # Index THEN Pending ELSE <<>>)
       ELSE UNCHANGED <<state, out>>
    /\ UNCHANGED <<sb_telopt, buffer, buffer_size, translate, start>>

\* Mistake: the byte after CR LF is where the data starts.
InEolSkipsNewline(b) ==
    /\ state = "EOL"
    /\ Read(b)
    /\ Emit(IF b # "LF" THEN <<Data("CR")>> ELSE <<>>)
    /\ start' = Index + 1
    /\ state' = "DATA"
    /\ UNCHANGED <<sb_telopt, buffer, buffer_size, translate>>

\* The byte after a CR: the CR is handed over unless a LF follows, and the
\* byte is data unless it is NUL.
InEol(b) ==
    /\ state = "EOL"
    /\ Read(b)
    /\ Emit(IF b # "LF" THEN <<Data("CR")>> ELSE <<>>)
    /\ start' = IF b = "NUL" THEN Index + 1 ELSE Index
    /\ state' = "DATA"
    /\ UNCHANGED <<sb_telopt, buffer, buffer_size, translate>>

\* The command byte after IAC, with the events that precede it.
Command(b, before) ==
    IF b = "SB" THEN state' = "SB" /\ Emit(before)
    ELSE IF b \in Negotiations THEN state' = b /\ Emit(before)
    ELSE /\ state' = "DATA"
         /\ Emit(before \o <<IF b = "IAC" THEN Data(b) ELSE Iac(b)>>)

InIac(b) ==
    /\ state = "IAC"
    /\ Read(b)
    /\ Command(b, <<>>)
    /\ start' = IF b = "SB" \/ b \in Negotiations THEN start ELSE Index + 1
    /\ UNCHANGED <<sb_telopt, buffer, buffer_size, translate>>

\* _negotiate(): the negotiation itself, and with BINARY what becomes of
\* RECEIVE_BINARY, are the matter of module Negotiation.
InNegotiation(b) ==
    /\ state \in Negotiations
    /\ Read(b)
    /\ Emit(<<Negotiation(state, b)>>)
    /\ start' = Index + 1
    /\ state' = "DATA"
    /\ IF b = "NUL" /\ state \in {"WILL", "WONT"} THEN translate' \in BOOLEAN
                                                 ELSE UNCHANGED translate
    /\ UNCHANGED <<sb_telopt, buffer, buffer_size>>

\* The application demands that the peer stop sending BINARY, which clears
\* RECEIVE_BINARY if it was set: between two chunks, or inside an event.
\* Nothing else that telnet_negotiate() does changes what is translated.
DemandNvt ==
    /\ ~translate
    /\ translate' = TRUE
    /\ UNCHANGED <<state, sb_telopt, buffer, buffer_size, receiving, chunk, start, out>>

\* Mistake: sb_telopt is not set.
InSbKeepsOption(b) ==
    /\ state = "SB"
    /\ Read(b)
    /\ buffer' = <<>>
    /\ state' = "SB_DATA"
    /\ UNCHANGED <<sb_telopt, buffer_size, translate, start, out>>

InSb(b) ==
    /\ state = "SB"
    /\ Read(b)
    /\ sb_telopt' = b
    /\ buffer' = <<>>
    /\ state' = "SB_DATA"
    /\ UNCHANGED <<buffer_size, translate, start, out>>

\* Mistake: the limit is found one byte late.
BufferByteLate(b) ==
    \/ /\ Len(buffer) <= buffer_size
       /\ buffer' = Append(buffer, b)
       /\ state' = "SB_DATA"
       /\ UNCHANGED <<buffer_size, start, out>>
    \/ /\ Len(buffer) > buffer_size
       /\ state' = "DATA"
       /\ start' = Index + 1
       /\ Emit(<<Warning("overflow")>>)
       /\ UNCHANGED <<buffer, buffer_size>>

\* _buffer_byte(): the byte fits, or the buffer grows to the next size, or
\* the subnegotiation is given up and what follows is data.
BufferByte(b) ==
    \/ /\ Len(buffer) < buffer_size
       /\ buffer' = Append(buffer, b)
       /\ state' = "SB_DATA"
       /\ UNCHANGED <<buffer_size, start, out>>
    \/ /\ Len(buffer) = buffer_size
       /\ \E i \in DOMAIN Sizes : /\ Sizes[i] = buffer_size
                                  /\ i < Len(Sizes)
                                  /\ buffer_size' = Sizes[i + 1]
       /\ buffer' = Append(buffer, b)
       /\ state' = "SB_DATA"
       /\ UNCHANGED <<start, out>>
    \/ /\ Len(buffer) = buffer_size
       /\ \/ buffer_size = Sizes[Len(Sizes)] /\ Emit(<<Warning("overflow")>>)
          \/ buffer_size # Sizes[Len(Sizes)] /\ MemoryFails /\ Emit(<<Warning("memory")>>)
       /\ state' = "DATA"
       /\ start' = Index + 1
       /\ UNCHANGED <<buffer, buffer_size>>

\* MCCPv1's start is recognised by its WILL and skipped with the byte after it.
InSbData(b) ==
    /\ state = "SB_DATA"
    /\ Read(b)
    /\ IF b = "IAC"
         THEN state' = "SB_DATA_IAC" /\ UNCHANGED <<buffer, buffer_size, start, out>>
       ELSE IF sb_telopt = "COMPRESS" /\ b = "WILL"
         THEN state' = "DATA" /\ start' = Index + 2 /\ UNCHANGED <<buffer, buffer_size, out>>
       ELSE BufferByte(b)
    /\ UNCHANGED <<sb_telopt, translate>>

\* What _subnegotiate() may return: whether the rest of the chunk must be
\* received anew, as after COMPRESS2.  _environ_telnet() asks for that too when
\* it finds the payload well formed: IS (the byte NUL), and nothing else or a
\* VAR (again NUL), for which it allocates.
Aborts ==
    IF sb_telopt = "ENVIRON" /\ buffer = <<"NUL">> THEN {TRUE}
    ELSE IF sb_telopt = "ENVIRON" /\ Len(buffer) > 1 /\ buffer[1] = "NUL" /\ buffer[2] = "NUL"
    THEN {TRUE, ~MemoryFails}
    ELSE {FALSE}

\* IAC SE ends the payload and IAC IAC is a byte of it.  Any other command
\* ends it as well; it is then processed as one after IAC, unless
\* _subnegotiate() asks for the rest of the chunk to be received anew.  The
\* event of the option's own parser, which follows Subnegotiation, is left out.
InSbDataIac(b) ==
    /\ state = "SB_DATA_IAC"
    /\ Read(b)
    /\ \/ /\ b = "SE"
          /\ state' = "DATA"
          /\ start' = Index + 1
          /\ Emit(<<Subnegotiation(sb_telopt, buffer)>>)
          /\ UNCHANGED <<buffer, buffer_size>>
       \/ b = "IAC" /\ BufferByte(b)
       \/ /\ b \notin {"SE", "IAC"}
          /\ LET events == <<Warning("protocol"), Subnegotiation(sb_telopt, buffer)>>
             IN  \E aborts \in Aborts : IF aborts THEN state' = "IAC" /\ Emit(events)
                                                  ELSE Command(b, events)
          /\ start' = Index + 1
          /\ UNCHANGED <<buffer, buffer_size>>
    /\ UNCHANGED <<sb_telopt, translate>>

Process(b) ==
    \/ InData(b) \/ InEol(b) \/ InIac(b) \/ InNegotiation(b)
    \/ InSb(b) \/ InSbData(b) \/ InSbDataIac(b)

Next == Call \/ Return \/ DemandNvt \/ \E b \in Byte : Process(b)

Spec == Init /\ [][Next]_vars

-----------------------------------------------------------------------------
(* However the stream is cut, the application gets what it means.          *)

Mode ==
    IF state = "DATA" THEN (IF start > Index THEN "discard" ELSE "data")
    ELSE IF state = "EOL" THEN "cr"
    ELSE IF state = "IAC" THEN "iac"
    ELSE IF state = "SB" THEN "option"
    ELSE IF state = "SB_DATA" THEN "payload"
    ELSE IF state = "SB_DATA_IAC" THEN "payload_iac"
    ELSE state

\* The bytes read and not handed over count as handed over.
Stream == INSTANCE TelnetStream WITH
    Capacity <- Sizes[Len(Sizes)],
    mode <- Mode,
    opt <- sb_telopt,
    payload <- buffer,
    out <- IF state = "DATA" /\ receiving /\ start < Index THEN out \o Pending ELSE out

\* telnet_recv() decodes the stream as TelnetStream says, independently of
\* chunk boundaries: no byte is lost, repeated, reordered or held back, and
\* none is taken for what it is not.
DecodesStream == Stream!Spec

\* _buffer_byte() never writes past the buffer.
BufferFits == Len(buffer) <= buffer_size

\* A DATA event lies within the chunk it is taken from, wherever the chunk
\* ends.  The comment at libtelnet.c:1080 says that MCCPv1 sequences are
\* captured and discarded.
DataInChunk == \A k \in DOMAIN out : out[k] # Overrun

\* The comment at libtelnet.c:1123: a command that breaks off a subnegotiation
\* is evaluated as an IAC code, so it never leaves another IAC awaited.
BreakingCommandEvaluated ==
    [][state = "SB_DATA_IAC" => state' # "IAC"]_vars

=============================================================================
