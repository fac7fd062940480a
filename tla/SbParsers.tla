----------------------------- MODULE SbParsers -----------------------------
(***************************************************************************)
(* The parsers _subnegotiate() hands the payload of a subnegotiation to:   *)
(* NEW-ENVIRON and MSSP, which rewrite the buffer in place while they read *)
(* it and pass pointers into it to the application, ZMP, which passes      *)
(* pointers into it as it is, and TERMINAL-TYPE, which copies.  One action *)
(* for each turn of a loop; a parser that is not done is not interrupted.  *)
(***************************************************************************)
EXTENDS Integers, Sequences, FiniteSets

CONSTANT MemoryFails \* whether calloc() and malloc() may fail

\* Pointers are indices into the buffer.  NULL, and the literal "".
Null == -1

EmptyLiteral == -2

\* The protocol codes, by the name of the byte of that value.
IS == "NUL"
SEND == "SOH"
INFO == "STX"
VAR == "NUL"
VALUE == "SOH"
ESC == "STX"
USERVAR == "ETX"
MSSP_VAR == "SOH"
MSSP_VAL == "STX"

VARIABLES
    pc,        \* the loop that runs next, "idle" when no parser does
    telopt,    \* telnet->sb_telopt
    buffer,    \* the payload in telnet->buffer, on 0 .. size - 1
    c,         \* the next byte to read
    out,       \* the next byte to write
    last,      \* where the string being written began
    values,    \* the entries of the event, of pointers, calloc()ed to NULL
    index,     \* how many of them are filled
    var,       \* the last variable name of MSSP
    next_type, \* the byte that began the part of MSSP being read
    event      \* the event given last

parser == <<pc, telopt, buffer, c, out, last, values, index, var, next_type, event>>

NoEvent == [kind |-> "none"]

Warning(about) == [kind |-> "warning", about |-> about]

ParserInit ==
    /\ pc = "idle" /\ telopt = "none" /\ event = NoEvent
    /\ buffer = <<>> /\ c = 0 /\ out = 0 /\ last = 0
    /\ values = <<>> /\ index = 0 /\ var = Null /\ next_type = "none"

size == Len(buffer)

\* A byte of the buffer; what lies behind the payload is anything.
At(buf, i) == IF i \in 0 .. Len(buf) - 1 THEN buf[i + 1] ELSE "beyond"

Write(i, b) == [buffer EXCEPT ![i + 1] = b]

\* The C string at pointer p, as the application reads it.
CString(buf, p) ==
    IF p = Null THEN "NULL"
    ELSE IF p = EmptyLiteral THEN <<>>
    ELSE LET ends == {i \in p .. Len(buf) - 1 : At(buf, i) = "NUL"}
             end == IF ends = {} THEN Len(buf) ELSE CHOOSE i \in ends : \A j \in ends : i <= j
         IN  SubSeq(buf, p + 1, end)

\* The parser returns, after an event that reads the buffer as it is now.
Give(ev) == pc' = "idle" /\ event' = ev

Entries(buf) ==
    [k \in DOMAIN values |->
        [type |-> values[k].type, var |-> CString(buf, values[k].var),
                                  value |-> CString(buf, values[k].value)]]

\* The array of count entries.
Allocate(count, null) ==
    /\ values' = [k \in 1 .. count |-> null]
    /\ index' = 0

NullEntry == [type |-> VAR, var |-> Null, value |-> Null]

NothingRead == UNCHANGED <<buffer, c, out, last, values, index, var, next_type>>

\* A dispatch on the option of the subnegotiation before.
BeginStale(opt, payload) ==
    /\ pc' = IF opt \in {"ENVIRON", "NEW_ENVIRON"} THEN "environ" ELSE "idle"
    /\ buffer' = payload
    /\ c' = 0 /\ out' = 0 /\ last' = 0 /\ values' = <<>> /\ index' = 0
    /\ var' = Null /\ next_type' = "none"
    /\ UNCHANGED <<telopt, event>>

\* _subnegotiate(), after its own event: a payload is parsed by its option.
Begin(opt, payload) ==
    /\ pc' = IF opt \in {"ENVIRON", "NEW_ENVIRON"} THEN "environ"
             ELSE IF opt = "MSSP" THEN "mssp"
             ELSE IF opt = "ZMP" THEN "zmp"
             ELSE IF opt = "TTYPE" THEN "ttype"
             ELSE "idle"
    /\ telopt' = opt
    /\ buffer' = payload
    /\ event' = NoEvent
    /\ c' = 0 /\ out' = 0 /\ last' = 0 /\ values' = <<>> /\ index' = 0
    /\ var' = Null /\ next_type' = "none"

-----------------------------------------------------------------------------
(* _environ_telnet() *)

\* Its first pass, from position i on: the VAR and USERVAR that no ESC precedes.
Variables(buf) ==
    LET count[i \in 1 .. Len(buf) + 1] ==
            IF i >= Len(buf) THEN 0
            ELSE IF At(buf, i) \in {VAR, USERVAR} THEN 1 + count[i + 1]
            ELSE IF At(buf, i) = ESC THEN count[i + 2]
            ELSE count[i + 1]
    IN  count

\* The same without the look at the last byte.
EnvironRefusalAllowsEsc ==
    IF size = 0 THEN NoEvent
    ELSE IF At(buffer, 0) \notin {IS, SEND, INFO} THEN Warning("protocol")
    ELSE IF size = 1 THEN [kind |-> "environ", cmd |-> At(buffer, 0), values |-> <<>>]
    ELSE IF At(buffer, 1) \notin {VAR, USERVAR} THEN Warning("protocol")
    ELSE [kind |-> "parse"]

\* The event of a payload that needs no parsing.
EnvironRefusal ==
    IF size = 0 THEN NoEvent
    ELSE IF At(buffer, 0) \notin {IS, SEND, INFO} THEN Warning("protocol")
    ELSE IF size = 1 THEN [kind |-> "environ", cmd |-> At(buffer, 0), values |-> <<>>]
    ELSE IF At(buffer, 1) \notin {VAR, USERVAR} THEN Warning("protocol")
    ELSE IF At(buffer, size - 1) = ESC THEN Warning("protocol")
    ELSE [kind |-> "parse"]

EnvironStart ==
    /\ pc = "environ"
    /\ \/ /\ EnvironRefusal.kind # "parse"
          /\ Give(EnvironRefusal)
          /\ NothingRead
       \/ /\ EnvironRefusal.kind = "parse"
          /\ MemoryFails
          /\ Give(Warning("memory"))
          /\ NothingRead
       \/ /\ EnvironRefusal.kind = "parse"
          /\ Allocate(Variables(buffer)[1], NullEntry)
          /\ pc' = "entry"
          /\ out' = 0 /\ c' = 1
          /\ next_type' = At(buffer, 0) \* ev.environ.cmd: its byte is written over
          /\ UNCHANGED <<buffer, last, var, event>>
    /\ UNCHANGED telopt

\* The type of the next variable, or the event when all are there.
EnvironEntry ==
    /\ pc = "entry"
    /\ IF index # Len(values)
         THEN /\ values' = [values EXCEPT ![index + 1].type = At(buffer, c)]
              /\ c' = c + 1
              /\ last' = out
              /\ pc' = "name"
              /\ UNCHANGED event
         ELSE /\ Give([kind |-> "environ", cmd |-> next_type, values |-> Entries(buffer)])
              /\ UNCHANGED <<values, c, last>>
    /\ UNCHANGED <<telopt, buffer, out, index, var, next_type>>

\* A copy that keeps the ESC as well.
CopyEscaped ==
    /\ buffer' = Write(out, At(buffer, c))
    /\ out' = out + 1
    /\ c' = c + 1

\* Copies one byte, the one after it if it is an ESC.
CopyUnescaped ==
    LET from == IF At(buffer, c) = ESC THEN c + 1 ELSE c
    IN  /\ buffer' = Write(out, At(buffer, from))
        /\ out' = out + 1
        /\ c' = from + 1

EnvironCopy ==
    /\ \/ pc = "name" /\ At(buffer, c) \notin {"beyond", VAR, VALUE, USERVAR}
       \/ pc = "value" /\ At(buffer, c) \notin {"beyond", VAR, USERVAR}
    /\ CopyUnescaped
    /\ UNCHANGED <<pc, telopt, last, values, index, var, next_type, event>>

\* The name ends; a VALUE, looked for after the NUL is written, begins a value.
EnvironName ==
    /\ pc = "name"
    /\ At(buffer, c) \in {"beyond", VAR, VALUE, USERVAR}
    /\ buffer' = Write(out, "NUL")
    /\ out' = out + 1
    /\ values' = [values EXCEPT ![index + 1].var = last, ![index + 1].value = EmptyLiteral]
    /\ IF At(buffer', c) = VALUE
         THEN pc' = "value" /\ c' = c + 1 /\ last' = out + 1 /\ UNCHANGED index
         ELSE pc' = "entry" /\ index' = index + 1 /\ UNCHANGED <<c, last>>
    /\ UNCHANGED <<telopt, var, next_type, event>>

EnvironValue ==
    /\ pc = "value"
    /\ At(buffer, c) \in {"beyond", VAR, USERVAR}
    /\ buffer' = Write(out, "NUL")
    /\ out' = out + 1
    /\ values' = [values EXCEPT ![index + 1].value = last]
    /\ index' = index + 1
    /\ pc' = "entry"
    /\ UNCHANGED <<telopt, c, last, var, next_type, event>>

-----------------------------------------------------------------------------
(* _mssp_telnet() *)

MsspStart ==
    /\ pc = "mssp"
    /\ \/ /\ size = 0 \/ At(buffer, 0) # MSSP_VAR
          /\ Give(IF size = 0 THEN NoEvent ELSE Warning("protocol"))
          /\ NothingRead
       \/ /\ At(buffer, 0) = MSSP_VAR
          /\ MemoryFails
          /\ Give(Warning("memory"))
          /\ NothingRead
       \/ /\ At(buffer, 0) = MSSP_VAR
          /\ Allocate(Cardinality({i \in DOMAIN buffer : buffer[i] = MSSP_VAL}), NullEntry)
          /\ out' = 0 /\ last' = 0 /\ c' = 1
          /\ next_type' = At(buffer, 0)
          /\ pc' = IF size > 1 THEN "part" ELSE "parts"
          /\ UNCHANGED <<buffer, var, event>>
    /\ UNCHANGED telopt

MsspCopy ==
    /\ pc = "part"
    /\ At(buffer, c) \notin {"beyond", MSSP_VAR, MSSP_VAL}
    /\ buffer' = Write(out, At(buffer, c))
    /\ out' = out + 1
    /\ c' = c + 1
    /\ UNCHANGED <<pc, telopt, last, values, index, var, next_type, event>>

\* A part ends: a name is kept for the values that follow it.  The type of the
\* next part is read without a look at whether there is one.
MsspPart ==
    /\ pc = "part"
    /\ At(buffer, c) \in {"beyond", MSSP_VAR, MSSP_VAL}
    /\ buffer' = Write(out, "NUL")
    /\ out' = out + 1
    /\ IF next_type = MSSP_VAR \/ (next_type = MSSP_VAL /\ var # Null)
         THEN /\ IF next_type = MSSP_VAR
                   THEN var' = last /\ UNCHANGED <<values, index>>
                   ELSE /\ values' = [values EXCEPT ![index + 1].var = var,
                                                   ![index + 1].value = last]
                        /\ index' = index + 1
                        /\ UNCHANGED var
              /\ last' = out + 1
              /\ next_type' = At(buffer', c)
              /\ c' = c + 1
              /\ pc' = IF c + 1 < size THEN "part" ELSE "parts"
              /\ UNCHANGED event
         ELSE /\ Give(Warning("protocol"))
              /\ UNCHANGED <<c, last, values, index, var, next_type>>
    /\ UNCHANGED telopt

MsspEvent ==
    /\ pc = "parts"
    /\ Give([kind |-> "mssp", values |-> Entries(buffer)])
    /\ NothingRead
    /\ UNCHANGED telopt

-----------------------------------------------------------------------------
(* _zmp_telnet() and _ttype_telnet() *)

\* The first loop of _zmp_telnet() goes from one NUL to the next.
ZmpStart ==
    /\ pc = "zmp"
    /\ \/ /\ size = 0 \/ At(buffer, size - 1) # "NUL"
          /\ Give(Warning("protocol"))
          /\ NothingRead
       \/ /\ At(buffer, size - 1) = "NUL"
          /\ MemoryFails
          /\ Give(Warning("memory"))
          /\ NothingRead
       \/ /\ At(buffer, size - 1) = "NUL"
          /\ Allocate(Cardinality({i \in DOMAIN buffer : buffer[i] = "NUL"}), NullEntry)
          /\ c' = 0
          /\ pc' = "argument"
          /\ UNCHANGED <<buffer, out, last, var, next_type, event>>
    /\ UNCHANGED telopt

ZmpArgument ==
    /\ pc = "argument"
    /\ IF index # Len(values)
         THEN /\ values' = [values EXCEPT ![index + 1].var = c]
              /\ c' = c + Len(CString(buffer, c)) + 1
              /\ index' = index + 1
              /\ UNCHANGED <<pc, event>>
         ELSE /\ Give([kind |-> "zmp",
                       argv |-> [k \in DOMAIN values |-> CString(buffer, values[k].var)]])
              /\ UNCHANGED <<values, c, index>>
    /\ UNCHANGED <<telopt, buffer, out, last, var, next_type>>

TtypeEvent ==
    /\ pc = "ttype"
    /\ \/ /\ size = 0 \/ At(buffer, 0) \notin {IS, SEND}
          /\ Give(Warning("protocol"))
       \/ /\ At(buffer, 0) = IS
          /\ \/ MemoryFails /\ Give(Warning("memory"))
             \/ Give([kind |-> "ttype", cmd |-> IS, name |-> CString(buffer, 1)])
       \/ /\ At(buffer, 0) = SEND
          /\ Give([kind |-> "ttype", cmd |-> SEND, name |-> "NULL"])
    /\ NothingRead
    /\ UNCHANGED telopt

Parse ==
    \/ EnvironStart \/ EnvironEntry \/ EnvironCopy \/ EnvironName \/ EnvironValue
    \/ MsspStart \/ MsspCopy \/ MsspPart \/ MsspEvent
    \/ ZmpStart \/ ZmpArgument \/ TtypeEvent

-----------------------------------------------------------------------------
Looping == {"entry", "name", "value", "part", "parts", "argument"}

ParserTypeOK ==
    /\ pc \in {"idle", "environ", "mssp", "zmp", "ttype"} \cup Looping
    /\ c \in Nat /\ out \in Nat /\ last \in Nat /\ index \in Nat
    /\ var \in Nat \cup {Null}
    /\ \A k \in DOMAIN values :
        /\ values[k].var \in Nat \cup {Null}
        /\ values[k].value \in Nat \cup {Null, EmptyLiteral}

\* The parsers stay in the payload and in the array they counted the entries
\* of.  The in-place writes of _environ_telnet() and _mssp_telnet() never reach
\* a byte that is still to be read; no byte from behind the payload gets into
\* the buffer or an entry.  _mssp_telnet() reads one such byte, at the end, and
\* looks at it no more.
InBounds ==
    /\ pc \in {"entry", "name", "value", "part", "parts"} => out < c
    /\ pc \in {"entry", "name", "value", "argument"} => c <= size
    /\ pc = "part" => c <= size
    /\ pc = "parts" => c <= size + 1 /\ out <= size
    /\ index <= Len(values)
    /\ pc \in {"name", "value"} => index < Len(values)
    /\ \A i \in DOMAIN buffer : buffer[i] # "beyond"
    /\ \A k \in DOMAIN values :
        /\ values[k].type # "beyond"
        /\ values[k].var <= size /\ values[k].value <= size
    /\ next_type = "beyond" => pc \in {"parts", "idle"}

=============================================================================
