----------------------------- MODULE MCMessages -----------------------------
(***************************************************************************)
(* Texts of up to four bytes and payloads of up to six, one byte for each *)
(* case of the encodings and the parsers.  printf()'s buffer holds two.    *)
(***************************************************************************)
EXTENDS Messages

MCByte == Added \cup {"a", "WILL", "NOP", "AYT", "ENVIRON", "MSSP", "NAWS", "COMPRESS"}

Texts == SeqOf({"a", "CR", "LF", "NUL", "IAC", "WILL"}, 4)

Words == SeqOf({"a", "SOH", "STX", "IAC"}, 2)

Payloads(telopts, bytes, n) ==
    [call : {"subnegotiation"}, telopt : telopts, bytes : SeqOf(bytes, n)]

MCMessages ==
    [call : {"send", "send_text", "printf", "raw_printf"}, bytes : Texts]
    \cup [call : {"iac"}, cmd : {"NOP", "AYT"}]
    \cup Payloads({"NEW_ENVIRON"}, {"NUL", "SOH", "STX", "ETX", "a"}, 6)
    \cup Payloads({"COMPRESS"}, {"WILL", "a"}, 2)
    \cup Payloads({"ENVIRON"}, {"NUL", "SOH", "IAC"}, 3)
    \cup Payloads({"MSSP"}, {"NUL", "SOH", "STX", "a"}, 6)
    \cup Payloads({"ZMP", "TTYPE", "NAWS"}, {"NUL", "SOH", "IAC", "a"}, 4)
    \cup [call : {"newenviron"}, cmd : {IS, INFO},
          vars : SeqOf([type : {VAR, USERVAR}, var : Words, value : SeqOf({"a", "IAC"}, 1)], 1)]
    \cup [call : {"newenviron"}, cmd : {SEND},
          vars : SeqOf([type : {VAR, USERVAR}, var : {<<"a">>}, value : SeqOf({"a", "SOH"}, 1)], 2)]
    \cup [call : {"ttype_send"}]
    \cup [call : {"ttype_is"}, bytes : Words \cup {<<"a", "IAC", "SE", "IAC", "SB", "NAWS", "a">>}]
    \cup [call : {"send_zmp", "send_vzmpv"}, argv : SeqOf(Words, 2) \ {<<>>}]

=============================================================================
