------------------------------ MODULE Messages ------------------------------
(***************************************************************************)
(* One end calls the sending functions (Sending), the bytes go over the    *)
(* wire to the other end's parser (TelnetStream, which TelnetRecv is shown *)
(* to implement whatever pieces they arrive in), and payloads go on to the *)
(* parsers of _subnegotiate() (SbParsers).                                 *)
(***************************************************************************)
EXTENDS Sending, SbParsers

CONSTANTS
    Byte,        \* the bytes, by what they mean
    Messages,    \* bound: the calls the application makes
    Payload      \* bound: the longest payload

VARIABLES
    message,     \* the last call
    memory,      \* whether it found the memory it needed
    binary,      \* BINARY is agreed from this end to the other
    wire,        \* bytes on their way
    mode, opt, payload, translate, heard, \* the other end, see TelnetStream
    got,         \* what its application got since the call
    parsed       \* history: the last payload it was handed, before it is parsed

stream == <<mode, opt, payload, translate, heard>>

vars == <<message, memory, binary, wire, stream, got, parsed, parser>>

Stream == INSTANCE TelnetStream
    WITH Capacity <- Payload, MemoryFails <- FALSE, out <- heard

Grammar == INSTANCE SbGrammar

NoMessage == [call |-> "none"]

\* The codes the sending functions write, and those of their helpers' parameters.
Added == {"IAC", "SB", "SE", "CR", "LF", "NUL", "SOH", "STX", "ETX", "NEW_ENVIRON", "TTYPE", "ZMP"}

\* A C string has no NUL.
Strings == Seq(Byte \ {"NUL"})

\* Calls of the sending functions; telnet_iac() is for commands of one byte.
Calls ==
    [call : {"send", "send_text", "printf", "raw_printf"}, bytes : Seq(Byte)]
    \cup [call : {"iac"}, cmd : Byte \ ({"IAC", "SB"} \cup Stream!Negotiations)]
    \cup [call : {"subnegotiation"}, telopt : Byte, bytes : Seq(Byte)]
    \cup [call : {"newenviron"}, cmd : {IS, SEND, INFO},
          vars : Seq([type : {VAR, USERVAR}, var : Strings, value : Strings])]
    \cup [call : {"ttype_send"}]
    \cup [call : {"ttype_is"}, bytes : Strings]
    \cup [call : {"send_zmp", "send_vzmpv"}, argv : Seq(Strings) \ {<<>>}]

ASSUME MessagesAssumption ==
    /\ Added \subseteq Byte /\ "none" \notin Byte /\ "beyond" \notin Byte
    /\ Messages \subseteq Calls /\ Payload \in Nat

\* The receiver has NVT_EOL set; BINARY, agreed, turns the translation off at
\* both ends.
Init ==
    /\ message = NoMessage /\ memory = TRUE
    /\ binary \in BOOLEAN
    /\ wire = <<>> /\ got = <<>> /\ parsed = <<>>
    /\ ParserInit
    /\ Stream!Init
    /\ translate = ~binary

Idle == wire = <<>> /\ heard = <<>> /\ pc = "idle"

Encoded(m, has_memory) ==
    CASE m.call = "send" -> telnet_send(m.bytes)
      [] m.call = "send_text" -> telnet_send_text(m.bytes, binary)
      [] m.call = "printf" -> telnet_vprintf(m.bytes, has_memory)
      [] m.call = "raw_printf" -> telnet_raw_vprintf(m.bytes, has_memory)
      [] m.call = "iac" -> telnet_iac(m.cmd)
      [] m.call = "subnegotiation" -> telnet_subnegotiation(m.telopt, m.bytes)
      [] m.call = "newenviron" ->
            telnet_begin_newenviron(m.cmd)
                \o FlattenSeq([k \in DOMAIN m.vars |->
                        telnet_newenviron_value(m.vars[k].type, m.vars[k].var)
                            \o telnet_newenviron_value(VALUE, m.vars[k].value)])
                \o telnet_finish_sb
      [] m.call = "ttype_send" -> telnet_ttype_send
      [] m.call = "ttype_is" -> telnet_ttype_is(m.bytes)
      [] m.call = "send_zmp" -> telnet_send_zmp(m.argv)
      [] m.call = "send_vzmpv" -> telnet_send_vzmpv(m.argv)

\* A call.  The one before is dealt with, since the wire is a queue.
Call(m) ==
    /\ message' = m
    /\ memory' \in IF MemoryFails THEN BOOLEAN ELSE {TRUE}
    /\ wire' = Encoded(m, memory')
    /\ got' = <<>>
    /\ UNCHANGED <<binary, stream, parsed, parser>>

\* The next byte arrives; the parser runs on when the events of the last one
\* are handled.
Receive ==
    /\ wire # <<>> /\ heard = <<>> /\ pc = "idle"
    /\ Stream!Decode(Head(wire))
    /\ wire' = Tail(wire)
    /\ UNCHANGED <<message, memory, binary, got, parsed, parser>>

\* _subnegotiate() parses after its own event.
Handle ==
    /\ heard # <<>> /\ pc = "idle"
    /\ got' = Append(got, Head(heard))
    /\ heard' = Tail(heard)
    /\ IF Head(heard).kind = "subnegotiation"
         THEN Begin(Head(heard).opt, Head(heard).payload) /\ parsed' = Head(heard).payload
         ELSE UNCHANGED <<parsed, parser>>
    /\ UNCHANGED <<message, memory, binary, wire, mode, opt, payload, translate>>

Parsing ==
    /\ Parse
    /\ got' = IF event' # event THEN Append(got, event') ELSE got
    /\ UNCHANGED <<message, memory, binary, wire, stream, parsed>>

\* Everything of the call is forgotten that the next one overwrites before it
\* is read.  A receiver that is left in the middle of a sequence stays there
\* for ever: its connection is closed, and another one begins.
Forget ==
    /\ Idle /\ message # NoMessage
    /\ message' = NoMessage /\ memory' = TRUE /\ got' = <<>> /\ parsed' = <<>>
    /\ mode' = "data" /\ opt' = "none" /\ payload' = <<>>
    /\ translate' = ~binary
    /\ Begin("none", <<>>)
    /\ UNCHANGED <<binary, wire, heard>>

Next ==
    \/ message = NoMessage /\ \E m \in Messages : Call(m)
    \/ Receive \/ Handle \/ Parsing \/ Forget

Spec == Init /\ [][Next]_vars

-----------------------------------------------------------------------------
TypeOK ==
    /\ memory \in BOOLEAN /\ binary \in BOOLEAN /\ translate \in BOOLEAN
    /\ message = NoMessage => Idle /\ mode = "data" /\ translate = ~binary
    /\ pc # "idle" => telopt = opt
    /\ ParserTypeOK

HasAny(s, bytes) == \E i \in DOMAIN s : s[i] \in bytes

Bytes(s) == [i \in DOMAIN s |-> Stream!Data(s[i])]

\* The text as it looks to a receiver that does not translate.
Untranslated(s) ==
    FlattenSeq([i \in DOMAIN s |->
        IF s[i] = "CR" THEN <<"CR", "NUL">> ELSE IF s[i] = "LF" THEN <<"CR", "LF">> ELSE <<s[i]>>])

ParsedEvent == IF event = NoEvent THEN <<>> ELSE <<event>>

\* What a call that sends bytes should give the other application.
Expected(m) ==
    CASE m.call \in {"send", "send_text", "raw_printf"} -> Bytes(m.bytes)
      [] m.call = "printf" -> Bytes(IF binary THEN Untranslated(m.bytes) ELSE m.bytes)
      [] m.call = "iac" -> <<Stream!Iac(m.cmd)>>
      [] m.call = "subnegotiation" -> <<Stream!Subnegotiation(m.telopt, m.bytes)>> \o ParsedEvent

NothingSent(m) == m.call \in {"printf", "raw_printf"} /\ NeedsMemory(m.bytes) /\ ~memory

\* Bytes sent as they are are not text: a CR among them means something else
\* to a receiver that translates, even the beginning of another sequence when
\* an IAC follows.
RawCr(m) == m.call \in {"send", "raw_printf"} /\ ~binary /\ HasAny(m.bytes, {"CR"})

\* A receiver takes MCCPv1's IAC SB COMPRESS WILL for the whole, and gives up what
\* is longer than its buffer.
Kept(m) ==
    m.call = "subnegotiation" =>
        Len(m.bytes) <= Payload /\ ~(m.telopt = "COMPRESS" /\ HasAny(m.bytes, {"WILL"}))

Settled == Idle /\ message # NoMessage

\* What is sent arrives, byte for byte, with IAC and the ends of lines
\* restored, and leaves the receiver between two messages: telnet_send(),
\* telnet_send_text(), telnet_vprintf(), telnet_raw_vprintf(), telnet_iac()
\* and telnet_subnegotiation() are the inverse of _process().  Three cases are
\* told apart: telnet_vprintf() translates also when BINARY is agreed, raw data
\* may hold a CR only when it is, and some subnegotiations are not kept.
Delivered ==
    Settled /\ message.call \in {"send", "send_text", "printf", "raw_printf", "iac", "subnegotiation"}
        /\ ~RawCr(message) /\ Kept(message)
        => mode = "data" /\ got = IF NothingSent(message) THEN <<>> ELSE Expected(message)

\* The calls whose strings hold no byte that the encoding does not escape:
\* telnet_newenviron_value() escapes none of the codes, telnet_ttype_is() no IAC.
Encodable(m) ==
    CASE m.call = "newenviron" -> \A k \in DOMAIN m.vars :
            /\ ~HasAny(m.vars[k].var, {VALUE, ESC, USERVAR})
            /\ ~HasAny(m.vars[k].value, {ESC, USERVAR})
      [] m.call = "ttype_is" -> ~HasAny(m.bytes, {"IAC"})
      [] OTHER -> TRUE

\* The payload these calls send, before it is escaped.
Carried(m) ==
    CASE m.call = "newenviron" ->
            <<m.cmd>> \o FlattenSeq([k \in DOMAIN m.vars |->
                <<m.vars[k].type>> \o m.vars[k].var \o <<VALUE>> \o m.vars[k].value])
      [] m.call = "ttype_send" -> <<SEND>>
      [] m.call = "ttype_is" -> <<IS>> \o m.bytes
      [] m.call \in {"send_zmp", "send_vzmpv"} ->
            FlattenSeq([i \in DOMAIN m.argv |-> Append(m.argv[i], "NUL")])

Written(m) ==
    CASE m.call = "newenviron" -> [kind |-> "environ", cmd |-> m.cmd, values |-> m.vars]
      [] m.call = "ttype_send" -> [kind |-> "ttype", cmd |-> SEND, name |-> "NULL"]
      [] m.call = "ttype_is" -> [kind |-> "ttype", cmd |-> IS, name |-> m.bytes]
      [] m.call \in {"send_zmp", "send_vzmpv"} -> [kind |-> "zmp", argv |-> m.argv]

\* The helpers and the parsers are inverse to each other: the variables,
\* terminal types and arguments an application passes to telnet_newenviron_value(),
\* telnet_ttype_send(), telnet_ttype_is(), telnet_send_zmp() and
\* telnet_send_vzmpv() are those of the event at the other end, if its buffer
\* holds them.
ParsedAsWritten ==
    Settled /\ message.call \in {"newenviron", "ttype_send", "ttype_is", "send_zmp", "send_vzmpv"}
        /\ Encodable(message) /\ Len(Carried(message)) <= Payload
        => /\ mode = "data"
           /\ event = Written(message) \/ (MemoryFails /\ event = Warning("memory"))

\* Two kinds of payload the code does not read by its own comments.  It refuses
\* one of NEW-ENVIRON that "ends with ESC" (libtelnet.c:553-556) when that ESC is
\* itself escaped; and the empty value an MSSP payload ends with is counted and
\* never stored (719), so that the last entry has null pointers, where "the `var`
\* and `value` fields will always be set" (src/README.md:516-517).
Misread(o, s) ==
    /\ Grammar!EndsInEsc(s)
    /\ \/ o \in {"ENVIRON", "NEW_ENVIRON"} /\ Len(s) > 1 /\ Grammar!WellFormedEnviron(s)
       \/ o = "MSSP" /\ Head(s) = "SOH"

\* The in-place parsers read what the payload means: _environ_telnet(),
\* _mssp_telnet(), _zmp_telnet() and _ttype_telnet() give the event of the
\* grammar for every payload, whatever it repeats, escapes or leaves out; of the
\* two kinds above nothing is said.  The grammar is that of the code's comments.
\* The documentation differs: it says that an ESC in NEW-ENVIRON is not parsed
\* correctly (src/README.md:508-510), and that a malformed ZMP command gives an
\* event without arguments (630-632), where the code gives a warning.
ReadsGrammar ==
    pc = "idle" /\ telopt # "none" /\ ~Misread(telopt, parsed) =>
        \/ event = Grammar!Meaning(telopt, parsed)
        \/ MemoryFails /\ event = Warning("memory")

=============================================================================
