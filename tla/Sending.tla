------------------------------ MODULE Sending ------------------------------
(***************************************************************************)
(* What the sending functions of libtelnet put on an uncompressed wire, as *)
(* operators from a call to a sequence of bytes.  A byte is named by what  *)
(* it means to the protocol; NUL, SOH, STX and ETX are the values 0 to 3.  *)
(***************************************************************************)
EXTENDS Naturals, Sequences, SequencesExt

CONSTANT PrintBuffer \* bytes telnet_vprintf() formats without malloc()

CRLF == <<"CR", "LF">>

CRNUL == <<"CR", "NUL">>

telnet_iac(cmd) == <<"IAC", cmd>>

Escape(b) == IF b = "IAC" THEN telnet_iac("IAC") ELSE <<>>

NvtEscape(b) ==
    IF b = "CR" THEN CRNUL ELSE IF b = "LF" THEN CRLF ELSE Escape(b)

Instead(b, nvt) == IF nvt THEN NvtEscape(b) ELSE Escape(b)

\* A loop that forgets to step over the byte it replaced.
PortionsAgain(s, nvt) ==
    LET sent[i \in 0 .. Len(s)] ==
            IF i = 0 THEN [l |-> 0, wire |-> <<>>]
            ELSE LET before == sent[i - 1]
                 IN  IF Instead(s[i], nvt) = <<>> THEN before
                     ELSE [l |-> i - 1,
                           wire |-> before.wire \o SubSeq(s, before.l + 1, i - 1)
                                                \o Instead(s[i], nvt)]
    IN  sent

(***************************************************************************)
(* The loop of telnet_send(), telnet_send_text() and telnet_vprintf(),     *)
(* after i turns.  "l" bytes of s are on the wire already, in their place  *)
(* what Instead says for a byte that is sent as something else, <<>> for   *)
(* one that waits to be sent with the portion it is in.                    *)
(***************************************************************************)
Portions(s, nvt) ==
    LET sent[i \in 0 .. Len(s)] ==
            IF i = 0 THEN [l |-> 0, wire |-> <<>>]
            ELSE LET before == sent[i - 1]
                 IN  IF Instead(s[i], nvt) = <<>> THEN before
                     ELSE [l |-> i,
                           wire |-> before.wire \o SubSeq(s, before.l + 1, i - 1)
                                                \o Instead(s[i], nvt)]
    IN  sent

SendPortions(s, nvt) ==
    LET sent == Portions(s, nvt)[Len(s)]
    IN  sent.wire \o SubSeq(s, sent.l + 1, Len(s))

telnet_send(s) == SendPortions(s, FALSE)

telnet_send_text(s, transmit_binary) == SendPortions(s, ~transmit_binary)

telnet_begin_sb(telopt) == <<"IAC", "SB", telopt>>

telnet_finish_sb == telnet_iac("SE")

telnet_subnegotiation(telopt, s) ==
    telnet_begin_sb(telopt) \o telnet_send(s) \o telnet_finish_sb

\* Text that does not fit is formatted a second time, into memory: if there
\* is none, nothing is sent.
NeedsMemory(s) == Len(s) >= PrintBuffer

telnet_vprintf(s, memory) ==
    IF NeedsMemory(s) /\ ~memory THEN <<>> ELSE SendPortions(s, TRUE)

telnet_raw_vprintf(s, memory) ==
    IF NeedsMemory(s) /\ ~memory THEN <<>> ELSE telnet_send(s)

telnet_begin_newenviron(cmd) == telnet_begin_sb("NEW_ENVIRON") \o telnet_send(<<cmd>>)

telnet_newenviron_value(type, s) == telnet_send(<<type>>) \o telnet_send(s)

telnet_ttype_send == <<"IAC", "SB", "TTYPE", "SOH", "IAC", "SE">>

\* The name goes out as it is.
telnet_ttype_is(name) == <<"IAC", "SB", "TTYPE", "NUL">> \o name \o telnet_finish_sb

\* An argument sent without the NUL at its end.
telnet_zmp_arg_unended(arg) == telnet_send(arg)

telnet_zmp_arg(arg) == telnet_send(Append(arg, "NUL"))

telnet_begin_zmp(cmd) == telnet_begin_sb("ZMP") \o telnet_zmp_arg(cmd)

telnet_send_zmp(argv) ==
    telnet_begin_zmp(argv[1])
        \o FlattenSeq([i \in 1 .. Len(argv) - 1 |-> telnet_zmp_arg(argv[i + 1])])
        \o telnet_finish_sb

telnet_send_vzmpv(argv) ==
    telnet_begin_sb("ZMP")
        \o FlattenSeq([i \in DOMAIN argv |-> telnet_zmp_arg(argv[i])])
        \o telnet_finish_sb

=============================================================================
