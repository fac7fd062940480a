----------------------------- MODULE SbGrammar -----------------------------
(***************************************************************************)
(* What the payloads of NEW-ENVIRON, MSSP, ZMP and TERMINAL-TYPE mean,     *)
(* whatever way they are parsed: one left-to-right pass that keeps the     *)
(* strings apart from the payload.  SbParsers has to agree with it.        *)
(* Strings reach the application as C strings, up to their first NUL.      *)
(***************************************************************************)
EXTENDS Naturals, Sequences

FirstNul(s) ==
    CHOOSE i \in DOMAIN s : s[i] = "NUL" /\ \A j \in DOMAIN s : s[j] = "NUL" => i <= j

Truncated(s) ==
    IF \E i \in DOMAIN s : s[i] = "NUL" THEN SubSeq(s, 1, FirstNul(s) - 1) ELSE s

Variable(type, name, value) == [type |-> type, var |-> name, value |-> value]

\* The last variable read, with a byte more in its name or value.
Extended(vars, side, b) ==
    LET k == Len(vars)
    IN  IF side = "var" THEN [vars EXCEPT ![k].var = Append(@, b)]
                        ELSE [vars EXCEPT ![k].value = Append(@, b)]

TruncatedVariables(vars) ==
    [k \in DOMAIN vars |->
        Variable(vars[k].type, Truncated(vars[k].var), Truncated(vars[k].value))]

\* One byte of VAR name [VALUE value] USERVAR name ..., where ESC takes the next
\* byte as it is, and a VALUE inside a value is a byte of it.
EnvironByte(acc, b) ==
    IF acc.escaped
      THEN [acc EXCEPT !.vars = Extended(@, acc.side, b), !.escaped = FALSE]
    ELSE IF b = "STX" THEN [acc EXCEPT !.escaped = TRUE]
    ELSE IF b \in {"NUL", "ETX"}
      THEN [acc EXCEPT !.vars = Append(@, Variable(b, <<>>, <<>>)), !.side = "var"]
    ELSE IF b = "SOH" /\ acc.side = "var" THEN [acc EXCEPT !.side = "value"]
    ELSE [acc EXCEPT !.vars = Extended(@, acc.side, b)]

\* What i bytes of s mean.
EnvironRead(s) ==
    LET read[i \in 0 .. Len(s)] ==
            IF i = 0 THEN [vars |-> <<>>, side |-> "var", escaped |-> FALSE]
            ELSE EnvironByte(read[i - 1], s[i])
    IN  read

EnvironVariables(s) == TruncatedVariables(EnvironRead(s)[Len(s)].vars)

\* MSSP_VAR name MSSP_VAL value MSSP_VAL value ...: each value is an entry
\* under the name before it, a name without a value is none.
MsspByte(acc, b) ==
    IF b = "SOH" THEN [acc EXCEPT !.name = <<>>, !.side = "name"]
    ELSE IF b = "STX"
      THEN [acc EXCEPT !.vars = Append(@, Variable("NUL", acc.name, <<>>)), !.side = "value"]
    ELSE IF acc.side = "name" THEN [acc EXCEPT !.name = Append(@, b)]
    ELSE [acc EXCEPT !.vars = Extended(@, "value", b)]

MsspRead(s) ==
    LET read[i \in 0 .. Len(s)] ==
            IF i = 0 THEN [vars |-> <<>>, name |-> <<>>, side |-> "name"]
            ELSE MsspByte(read[i - 1], s[i])
    IN  read

MsspVariables(s) == TruncatedVariables(MsspRead(s)[Len(s)].vars)

\* Arguments, each with a NUL behind it.
ZmpByte(acc, b) ==
    IF b = "NUL" THEN [argv |-> Append(acc.argv, acc.arg), arg |-> <<>>]
                 ELSE [acc EXCEPT !.arg = Append(@, b)]

ZmpRead(s) ==
    LET read[i \in 0 .. Len(s)] ==
            IF i = 0 THEN [argv |-> <<>>, arg |-> <<>>] ELSE ZmpByte(read[i - 1], s[i])
    IN  read

ZmpArguments(s) == ZmpRead(s)[Len(s)].argv

\* An ESC is the last byte with no byte to escape, or as an escaped byte itself.
EndsInEsc(s) == s # <<>> /\ s[Len(s)] = "STX"

EndsEscaping(s) == EnvironRead(s)[Len(s)].escaped

WellFormedEnviron(s) ==
    /\ s[1] \in {"NUL", "SOH", "STX"}
    /\ Len(s) > 1 => s[2] \in {"NUL", "ETX"} /\ ~EndsEscaping(Tail(s))

Malformed == [kind |-> "warning", about |-> "protocol"]

\* The event of a payload, that of no kind where the parser is silent.
Meaning(opt, s) ==
    CASE opt \in {"ENVIRON", "NEW_ENVIRON"} /\ s # <<>> ->
            IF WellFormedEnviron(s)
              THEN [kind |-> "environ", cmd |-> Head(s), values |-> EnvironVariables(Tail(s))]
              ELSE Malformed
      [] opt = "MSSP" /\ s # <<>> ->
            IF Head(s) = "SOH" THEN [kind |-> "mssp", values |-> MsspVariables(s)] ELSE Malformed
      [] opt = "ZMP" ->
            IF s # <<>> /\ s[Len(s)] = "NUL" THEN [kind |-> "zmp", argv |-> ZmpArguments(s)]
                                             ELSE Malformed
      [] opt = "TTYPE" ->
            IF s # <<>> /\ Head(s) = "NUL"
              THEN [kind |-> "ttype", cmd |-> "NUL", name |-> Truncated(Tail(s))]
            ELSE IF s # <<>> /\ Head(s) = "SOH"
              THEN [kind |-> "ttype", cmd |-> "SOH", name |-> "NULL"]
            ELSE Malformed
      [] OTHER -> [kind |-> "none"]

=============================================================================
