----------------------------- MODULE RecvProofs -----------------------------
(***************************************************************************)
(* Proofs about the parser, for every alphabet, every list of buffer sizes *)
(* and chunks of any length: that it keeps its buffer, and that it decodes *)
(* the stream as TelnetStream says unless a subnegotiation of COMPRESS or  *)
(* ENVIRON comes up.                                                       *)
(***************************************************************************)
EXTENDS TelnetRecv, SequenceTheorems, TLAPS

\* A CR that is handed over late is no longer in the chunk.
Event == [kind : {"data"}, byte : Byte \cup {"CR"}]
         \cup [kind : {"iac"}, cmd : Byte]
         \cup [kind : {"negotiation"}, cmd : Negotiations, opt : Byte]
         \cup [kind : {"subnegotiation"}, opt : Byte, payload : Seq(Byte)]
         \cup [kind : {"warning"}, about : {"overflow", "memory", "protocol"}]

Typed ==
    /\ state \in State
    /\ sb_telopt \in Byte \cup {"none"}
    /\ buffer \in Seq(Byte)
    /\ buffer_size \in {Sizes[i] : i \in DOMAIN Sizes}
    /\ translate \in BOOLEAN
    /\ receiving \in BOOLEAN
    /\ chunk \in Seq(Byte)
    /\ start \in Nat
    /\ out \in Seq(Event \cup {Overrun})

\* A payload belongs to an option.
OptionNamed == state \in {"SB_DATA", "SB_DATA_IAC"} => sb_telopt # "none"

\* A call starts from the beginning of its chunk.
Fresh == ~receiving => chunk = <<>> /\ start = 0

IInv == Typed /\ OptionNamed /\ BufferFits /\ Fresh

\* The options whose subnegotiations are read otherwise than the comments of
\* the parser say: MCCPv1's, and NEW-ENVIRON's.
NoMccp1 == sb_telopt # "COMPRESS"
NoEnviron == sb_telopt # "ENVIRON"

\* Data begin within the chunk, and no event reaches before it.
InChunk == state = "DATA" => start <= Index

NoOverrun == out \in Seq(Event)

-----------------------------------------------------------------------------
(* The operators.                                                          *)

\* The sizes grow, so the last is the greatest.
LEMMA SizesProperties ==
    /\ Len(Sizes) \in DOMAIN Sizes
    /\ DOMAIN Sizes = 1 .. Len(Sizes)
    /\ \A i \in DOMAIN Sizes : /\ Sizes[i] \in Nat
                               /\ Sizes[i] <= Sizes[Len(Sizes)]
                               /\ i < Len(Sizes) => /\ Sizes[i] < Sizes[Len(Sizes)]
                                                    /\ Sizes[i] < Sizes[i + 1]
<1>1. /\ Len(Sizes) \in Nat /\ DOMAIN Sizes = 1 .. Len(Sizes)
      /\ \A i \in 1 .. Len(Sizes) : Sizes[i] \in Nat
  BY RecvAssumption, LenProperties, ElementOfSeq
<1>2. Len(Sizes) \in 1 .. Len(Sizes)
  BY <1>1, RecvAssumption
<1>3. \A i, j \in 1 .. Len(Sizes) : i < j => Sizes[i] < Sizes[j]
  BY <1>1, RecvAssumption
<1>4. ASSUME NEW i \in 1 .. Len(Sizes)
      PROVE  /\ Sizes[i] <= Sizes[Len(Sizes)]
             /\ i < Len(Sizes) => /\ Sizes[i] < Sizes[Len(Sizes)]
                                  /\ Sizes[i] < Sizes[i + 1]
  <2>1. CASE i = Len(Sizes)
    BY <1>1, <1>2, <2>1
  <2>2. CASE i < Len(Sizes)
    <3>1. i + 1 \in 1 .. Len(Sizes)
      BY <1>1, <2>2
    <3> QED
      BY <1>1, <1>2, <1>3, <2>2, <3>1
  <2>3. i \in Int /\ Len(Sizes) \in Int /\ i <= Len(Sizes)
    BY <1>1
  <2> QED
    BY <2>1, <2>2, <2>3
<1> QED
  BY <1>1, <1>2, <1>4

\* What is appended to a stream of events makes a stream of events.
LEMMA EmitType ==
    ASSUME NEW E, NEW s \in Seq(E), NEW t \in Seq(E)
    PROVE  /\ s \o t \in Seq(E)
           /\ s \o <<>> = s
BY ConcatProperties, EmptySeq, LenProperties

\* The pending bytes are data, unless they overrun the chunk.
LEMMA PendingProperties ==
    ASSUME Typed
    PROVE  /\ Index \in Nat
           /\ start > Index => Pending = <<Overrun>>
           /\ start <= Index => /\ Pending \in Seq(Event)
                                /\ Len(Pending) = Index - start
                                /\ \A k \in 1 .. Index - start : Pending[k] = Data(chunk[start + k])
           /\ start = Index => Pending = <<>>
           /\ Pending \in Seq(Event \cup {Overrun})
<1>1. /\ Index \in Nat /\ start \in Nat
      /\ \A i \in 1 .. Index : chunk[i] \in Byte
  BY LenProperties, ElementOfSeq DEF Typed, Index
<1>2. ASSUME start > Index
      PROVE  /\ Pending = <<Overrun>>
             /\ Pending \in Seq(Event \cup {Overrun})
  BY <1>1, <1>2 DEF Pending
<1>3. ASSUME start <= Index
      PROVE  /\ Pending = [k \in 1 .. Index - start |-> Data(chunk[start + k])]
             /\ Pending \in Seq(Event)
             /\ Len(Pending) = Index - start
  <2>1. Pending = [k \in 1 .. Index - start |-> Data(chunk[start + k])]
    BY <1>1, <1>3 DEF Pending
  <2>2. Index - start \in Nat
    BY <1>1, <1>3
  <2>3. \A k \in 1 .. Index - start : Data(chunk[start + k]) \in Event
    <3> SUFFICES ASSUME NEW k \in 1 .. Index - start
                 PROVE  Data(chunk[start + k]) \in Event
      OBVIOUS
    <3>1. chunk[start + k] \in Byte
      BY <1>1, <2>2
    <3> QED
      BY <3>1 DEF Data, Event
  <2>4. Pending \in [1 .. Index - start -> Event]
    BY <2>1, <2>3
  <2> QED
    BY <2>1, <2>2, <2>4, LenProperties
<1>4. Seq(Event) \subseteq Seq(Event \cup {Overrun})
  OBVIOUS
<1>5. ASSUME start = Index
      PROVE  Pending = <<>>
  <2>1. Pending \in Seq(Event) /\ Len(Pending) = 0
    BY <1>1, <1>3, <1>5
  <2> QED
    BY <2>1, EmptySeq
<1> QED
  BY <1>1, <1>2, <1>3, <1>4, <1>5

-----------------------------------------------------------------------------
(* Each action preserves the inductive invariant.                          *)

\* What reading a byte does to the chunk.
LEMMA ReadProperties ==
    ASSUME Typed, NEW b \in Byte, Read(b)
    PROVE  /\ chunk' \in Seq(Byte)
           /\ Index' = Index + 1
           /\ chunk'[Index + 1] = b
           /\ \A i \in 1 .. Index : chunk'[i] = chunk[i]
BY AppendProperties, LenProperties DEF Typed, Read, Index

\* A command after an IAC emits events, and names the state.
LEMMA CommandType ==
    ASSUME Typed, NEW b \in Byte, NEW before \in Seq(Event), Command(b, before)
    PROVE  /\ out' \in Seq(Event \cup {Overrun})
           /\ out \in Seq(Event) => out' \in Seq(Event)
           /\ state' \in Negotiations \cup {"SB", "DATA"}
<1>1. /\ before \in Seq(Event \cup {Overrun})
      /\ before \o <<Data(b)>> \in Seq(Event)
      /\ before \o <<Iac(b)>> \in Seq(Event)
  <2>1. Data(b) \in Event /\ Iac(b) \in Event
    BY DEF Data, Iac, Event
  <2>2. <<Data(b)>> \in Seq(Event) /\ <<Iac(b)>> \in Seq(Event)
    BY <2>1
  <2>3. Seq(Event) \subseteq Seq(Event \cup {Overrun})
    OBVIOUS
  <2> QED
    BY <2>2, <2>3, EmitType
<1>2. PICK events \in Seq(Event) : out' = out \o events
  BY <1>1 DEF Command, Emit
<1>3. events \in Seq(Event \cup {Overrun})
  OBVIOUS
<1>4. out' \in Seq(Event \cup {Overrun})
  BY <1>2, <1>3, EmitType DEF Typed
<1>5. out \in Seq(Event) => out' \in Seq(Event)
  BY <1>2, EmitType
<1>6. state' \in Negotiations \cup {"SB", "DATA"}
  BY DEF Command
<1> QED
  BY <1>4, <1>5, <1>6

\* _buffer_byte() keeps the buffer within its size, which is one of the list.
LEMMA BufferByteType ==
    ASSUME Typed, BufferFits, NEW b \in Byte, BufferByte(b)
    PROVE  /\ buffer' \in Seq(Byte)
           /\ buffer_size' \in {Sizes[i] : i \in DOMAIN Sizes}
           /\ Len(buffer') <= buffer_size'
           /\ start' \in {start, Index + 1}
           /\ out' \in Seq(Event \cup {Overrun})
           /\ out \in Seq(Event) => out' \in Seq(Event)
           /\ \/ state' = "SB_DATA"
              \/ state' = "DATA" /\ start' = Index + 1
<1>1. /\ Len(buffer) \in Nat /\ buffer_size \in Nat
      /\ Append(buffer, b) \in Seq(Byte) /\ Len(Append(buffer, b)) = Len(buffer) + 1
  BY AppendProperties, LenProperties, SizesProperties DEF Typed
<1>2. CASE /\ Len(buffer) < buffer_size
           /\ buffer' = Append(buffer, b)
           /\ state' = "SB_DATA"
           /\ UNCHANGED <<buffer_size, start, out>>
  BY <1>1, <1>2 DEF Typed
<1>3. CASE /\ Len(buffer) = buffer_size
           /\ \E i \in DOMAIN Sizes : /\ Sizes[i] = buffer_size
                                      /\ i < Len(Sizes)
                                      /\ buffer_size' = Sizes[i + 1]
           /\ buffer' = Append(buffer, b)
           /\ state' = "SB_DATA"
           /\ UNCHANGED <<start, out>>
  <2>1. PICK i \in DOMAIN Sizes : /\ Sizes[i] = buffer_size
                                  /\ i < Len(Sizes)
                                  /\ buffer_size' = Sizes[i + 1]
    BY <1>3
  <2>2. i + 1 \in DOMAIN Sizes /\ Sizes[i] < Sizes[i + 1] /\ Sizes[i + 1] \in Nat
    BY <2>1, SizesProperties
  <2> QED
    BY <1>1, <1>3, <2>1, <2>2 DEF Typed
<1>4. CASE /\ Len(buffer) = buffer_size
           /\ \/ buffer_size = Sizes[Len(Sizes)] /\ Emit(<<Warning("overflow")>>)
              \/ buffer_size # Sizes[Len(Sizes)] /\ MemoryFails /\ Emit(<<Warning("memory")>>)
           /\ state' = "DATA"
           /\ start' = Index + 1
           /\ UNCHANGED <<buffer, buffer_size>>
  <2>1. PICK about \in {"overflow", "memory"} : Emit(<<Warning(about)>>)
    BY <1>4
  <2>2. Warning(about) \in Event
    BY DEF Warning, Event
  <2>3. <<Warning(about)>> \in Seq(Event) /\ <<Warning(about)>> \in Seq(Event \cup {Overrun})
    BY <2>2
  <2>4. out' \in Seq(Event \cup {Overrun}) /\ (out \in Seq(Event) => out' \in Seq(Event))
    BY <2>1, <2>3, EmitType DEF Emit, Typed
  <2> QED
    BY <1>1, <1>4, <2>4 DEF Typed, BufferFits
<1> QED
  BY <1>2, <1>3, <1>4 DEF BufferByte

\* A step keeps the inductive invariant; it keeps the data in the chunk unless
\* MCCPv1 comes up, and then makes no event that overruns it.
Keeps ==
    /\ IInv'
    /\ InChunk /\ NoMccp1 => InChunk'
    /\ InChunk /\ NoOverrun => NoOverrun'

\* Single events as streams of events.
LEMMA SingleEvent ==
    ASSUME NEW e \in Event
    PROVE  <<e>> \in Seq(Event) /\ <<e>> \in Seq(Event \cup {Overrun})
OBVIOUS

\* Emitting events.
LEMMA EmitEvents ==
    ASSUME Typed, NEW events \in Seq(Event), Emit(events)
    PROVE  /\ out' \in Seq(Event \cup {Overrun})
           /\ NoOverrun => NoOverrun'
<1>1. events \in Seq(Event \cup {Overrun})
  OBVIOUS
<1> QED
  BY <1>1, EmitType DEF Emit, Typed, NoOverrun

\* Emitting what is pending, or nothing.
LEMMA EmitPending ==
    ASSUME Typed, NEW events \in {Pending, <<>>}, Emit(events)
    PROVE  /\ out' \in Seq(Event \cup {Overrun})
           /\ start <= Index /\ NoOverrun => NoOverrun'
<1>1. /\ <<>> \in Seq(Event) /\ <<>> \in Seq(Event \cup {Overrun})
      /\ Pending \in Seq(Event \cup {Overrun})
      /\ start <= Index => Pending \in Seq(Event)
  BY PendingProperties
<1>2. /\ events \in Seq(Event \cup {Overrun})
      /\ start <= Index => events \in Seq(Event)
  BY <1>1
<1> QED
  BY <1>2, EmitType DEF Emit, Typed, NoOverrun

LEMMA CallStep == ASSUME IInv, Call PROVE Keeps
<1>1. /\ chunk' = <<>> /\ chunk' \in Seq(Byte) /\ start' = 0 /\ Index' = 0
      /\ out' \in Seq(Event) /\ out' \in Seq(Event \cup {Overrun})
  BY DEF Call, Index
<1> QED
  BY <1>1 DEF Call, Keeps, IInv, Typed, OptionNamed, BufferFits, Fresh, InChunk, NoOverrun

LEMMA DemandNvtStep == ASSUME IInv, DemandNvt PROVE Keeps
<1>1. Index' = Index /\ translate' \in BOOLEAN
  BY DEF DemandNvt, Index
<1> QED
  BY <1>1 DEF DemandNvt, Keeps, IInv, Typed, OptionNamed, BufferFits, Fresh, InChunk, NoOverrun

LEMMA ReturnStep == ASSUME IInv, Return PROVE Keeps
<1>1. /\ chunk' = <<>> /\ chunk' \in Seq(Byte) /\ start' = 0 /\ Index' = 0
  BY DEF Return, Index
<1>2. out' = out \/ Emit(Pending)
  BY DEF Return, Emit
<1>3. /\ out' \in Seq(Event \cup {Overrun})
      /\ InChunk /\ NoOverrun => NoOverrun'
  <2>1. CASE out' = out
    BY <2>1 DEF IInv, Typed, NoOverrun
  <2>2. CASE state = "DATA" /\ Emit(Pending)
    BY <2>2, EmitPending DEF IInv, InChunk
  <2> QED
    BY <2>1, <2>2 DEF Return, Emit
<1>4. Typed'
  <2>1. UNCHANGED <<state, sb_telopt, buffer, buffer_size, translate>> /\ receiving' = FALSE
    BY DEF Return
  <2> QED
    BY <1>1, <1>3, <2>1 DEF IInv, Typed
<1>5. InChunk' /\ OptionNamed' /\ BufferFits' /\ Fresh'
  BY <1>1 DEF Return, IInv, OptionNamed, BufferFits, Fresh, InChunk
<1> QED
  BY <1>3, <1>4, <1>5 DEF Keeps, IInv

LEMMA InDataStep == ASSUME IInv, NEW b \in Byte, InData(b) PROVE Keeps
<1>1. chunk' \in Seq(Byte) /\ Index' = Index + 1 /\ Index \in Nat /\ start \in Nat
  BY ReadProperties, PendingProperties DEF InData, IInv, Typed
<1>2. /\ out' \in Seq(Event \cup {Overrun})
      /\ InChunk /\ NoOverrun => NoOverrun'
  <2>1. CASE out' = out
    BY <2>1 DEF IInv, Typed, NoOverrun
  <2>2. CASE \E events \in {Pending, <<>>} : Emit(events)
    BY <2>2, EmitPending DEF IInv, InChunk, InData
  <2> QED
    BY <2>1, <2>2 DEF InData
<1>3. state' \in {"DATA", "IAC", "EOL"}
  BY DEF InData
<1>4. InChunk /\ NoMccp1 => InChunk'
  BY <1>1 DEF InData, InChunk
<1> QED
  BY <1>1, <1>2, <1>3, <1>4
  DEF InData, Read, Keeps, IInv, Typed, State, OptionNamed, BufferFits, Fresh

LEMMA InEolStep == ASSUME IInv, NEW b \in Byte, InEol(b) PROVE Keeps
<1>1. chunk' \in Seq(Byte) /\ Index' = Index + 1 /\ Index \in Nat
  BY ReadProperties, PendingProperties DEF InEol, IInv
<1>2. /\ out' \in Seq(Event \cup {Overrun})
      /\ NoOverrun => NoOverrun'
  <2>1. Data("CR") \in Event
    BY DEF Data, Event
  <2>2. (IF b # "LF" THEN <<Data("CR")>> ELSE <<>>) \in Seq(Event)
    BY <2>1, EmptySeq
  <2> QED
    BY <2>2, EmitEvents DEF InEol, IInv
<1>3. start' \in Nat /\ InChunk'
  BY <1>1 DEF InEol, InChunk
<1> QED
  BY <1>1, <1>2, <1>3
  DEF InEol, Read, Keeps, IInv, Typed, State, OptionNamed, BufferFits, Fresh

LEMMA InIacStep == ASSUME IInv, NEW b \in Byte, InIac(b) PROVE Keeps
<1>1. /\ chunk' \in Seq(Byte) /\ Index' = Index + 1 /\ Index \in Nat /\ start \in Nat
  BY ReadProperties, PendingProperties DEF InIac, IInv, Typed
<1>2. /\ out' \in Seq(Event \cup {Overrun})
      /\ NoOverrun => NoOverrun'
      /\ state' \in Negotiations \cup {"SB", "DATA"}
  BY CommandType, EmptySeq DEF InIac, IInv, NoOverrun
<1>3. start' \in Nat /\ InChunk'
  BY <1>1 DEF InIac, InChunk, Command, Negotiations
<1>4. state' \in State /\ state' \notin {"SB_DATA", "SB_DATA_IAC"}
  BY <1>2 DEF State, Negotiations
<1> QED
  BY <1>1, <1>2, <1>3, <1>4
  DEF InIac, Read, Keeps, IInv, Typed, OptionNamed, BufferFits, Fresh

LEMMA InNegotiationStep == ASSUME IInv, NEW b \in Byte, InNegotiation(b) PROVE Keeps
<1>1. chunk' \in Seq(Byte) /\ Index' = Index + 1 /\ Index \in Nat
  BY ReadProperties, PendingProperties DEF InNegotiation, IInv
<1>2. /\ out' \in Seq(Event \cup {Overrun})
      /\ NoOverrun => NoOverrun'
  <2>1. Negotiation(state, b) \in Event
    BY DEF InNegotiation, Negotiation, Event
  <2> QED
    BY <2>1, SingleEvent, EmitEvents DEF InNegotiation, IInv
<1>3. start' \in Nat /\ InChunk'
  BY <1>1 DEF InNegotiation, InChunk
<1>4. translate' \in BOOLEAN
  BY DEF InNegotiation, IInv, Typed
<1> QED
  BY <1>1, <1>2, <1>3, <1>4
  DEF InNegotiation, Read, Keeps, IInv, Typed, State, OptionNamed, BufferFits, Fresh

LEMMA InSbStep == ASSUME IInv, NEW b \in Byte, InSb(b) PROVE Keeps
<1>1. chunk' \in Seq(Byte) /\ Index' = Index + 1
  BY ReadProperties DEF InSb, IInv
<1>2. buffer' \in Seq(Byte) /\ Len(buffer') = 0 /\ buffer_size \in Nat
  BY SizesProperties DEF InSb, IInv, Typed
<1>3. sb_telopt' # "none"
  BY RecvAssumption DEF InSb
<1> QED
  BY <1>1, <1>2, <1>3
  DEF InSb, Read, Keeps, IInv, Typed, State, OptionNamed, BufferFits, Fresh, InChunk, NoOverrun

\* Reading a byte of a payload, which may be its last.
LEMMA KeepsPayload ==
    ASSUME IInv, NEW b \in Byte, Read(b), BufferByte(b),
           UNCHANGED <<sb_telopt, translate>>,
           state \in {"SB_DATA", "SB_DATA_IAC"}
    PROVE  Keeps
<1>1. /\ chunk' \in Seq(Byte) /\ Index' = Index + 1 /\ Index \in Nat /\ start \in Nat
  BY ReadProperties, PendingProperties DEF IInv, Typed
<1>2. /\ buffer' \in Seq(Byte)
      /\ buffer_size' \in {Sizes[i] : i \in DOMAIN Sizes}
      /\ Len(buffer') <= buffer_size'
      /\ start' \in {start, Index + 1}
      /\ out' \in Seq(Event \cup {Overrun})
      /\ out \in Seq(Event) => out' \in Seq(Event)
      /\ \/ state' = "SB_DATA"
         \/ state' = "DATA" /\ start' = Index + 1
  BY BufferByteType DEF IInv
<1>3. /\ state' \in State /\ start' \in Nat /\ InChunk' /\ sb_telopt' # "none"
  BY <1>1, <1>2 DEF State, InChunk, IInv, OptionNamed
<1> QED
  BY <1>1, <1>2, <1>3
  DEF Read, Keeps, IInv, Typed, OptionNamed, BufferFits, Fresh, NoOverrun

LEMMA InSbDataStep == ASSUME IInv, NEW b \in Byte, InSbData(b) PROVE Keeps
<1>1. /\ chunk' \in Seq(Byte) /\ Index' = Index + 1 /\ Index \in Nat /\ start \in Nat
  BY ReadProperties, PendingProperties DEF InSbData, IInv, Typed
<1>2. CASE b = "IAC"
  BY <1>1, <1>2
  DEF InSbData, Read, Keeps, IInv, Typed, State, OptionNamed, BufferFits, Fresh, InChunk, NoOverrun
<1>3. CASE b # "IAC" /\ sb_telopt = "COMPRESS" /\ b = "WILL"
  BY <1>1, <1>3
  DEF InSbData, Read, Keeps, IInv, Typed, State, OptionNamed, BufferFits, Fresh, NoMccp1, NoOverrun
<1>4. CASE b # "IAC" /\ ~(sb_telopt = "COMPRESS" /\ b = "WILL")
  BY <1>4, KeepsPayload DEF InSbData
<1> QED
  BY <1>2, <1>3, <1>4

LEMMA InSbDataIacStep == ASSUME IInv, NEW b \in Byte, InSbDataIac(b) PROVE Keeps
<1>1. /\ chunk' \in Seq(Byte) /\ Index' = Index + 1 /\ Index \in Nat /\ start \in Nat
  BY ReadProperties, PendingProperties DEF InSbDataIac, IInv, Typed
<1>2. sb_telopt \in Byte /\ Subnegotiation(sb_telopt, buffer) \in Event
  BY DEF InSbDataIac, IInv, Typed, OptionNamed, Subnegotiation, Event
<1>3. CASE b = "IAC"
  BY <1>3, KeepsPayload DEF InSbDataIac
<1>4. CASE b # "IAC"
  <2>1. /\ out' \in Seq(Event \cup {Overrun})
        /\ NoOverrun => NoOverrun'
        /\ state' \in Negotiations \cup {"SB", "DATA", "IAC"}
    <3>1. CASE b = "SE"
      BY <1>2, <1>4, <3>1, SingleEvent, EmitEvents DEF InSbDataIac, IInv
    <3>2. CASE b # "SE"
      <4> DEFINE events == <<Warning("protocol"), Subnegotiation(sb_telopt, buffer)>>
      <4>1. Warning("protocol") \in Event
        BY DEF Warning, Event
      <4>2. events \in Seq(Event)
        BY <1>2, <4>1
      <4>3. (state' = "IAC" /\ Emit(events)) \/ Command(b, events)
        BY <1>4, <3>2 DEF InSbDataIac
      <4> HIDE DEF events
      <4> QED
        BY <4>2, <4>3, EmitEvents, CommandType DEF IInv, NoOverrun
    <3> QED
      BY <3>1, <3>2
  <2>2. /\ start' = Index + 1
        /\ Read(b)
        /\ UNCHANGED <<buffer, buffer_size, sb_telopt, translate>>
    BY <1>4 DEF InSbDataIac
  <2>3. start' \in Nat /\ InChunk'
    BY <1>1, <2>2 DEF InChunk
  <2>4. state' \in State /\ state' \notin {"SB_DATA", "SB_DATA_IAC"}
    BY <2>1 DEF State, Negotiations
  <2>5. Typed'
    BY <1>1, <2>1, <2>2, <2>3, <2>4 DEF IInv, Typed, Read
  <2> QED
    BY <2>1, <2>2, <2>3, <2>4, <2>5 DEF Keeps, IInv, OptionNamed, BufferFits, Fresh, Read
<1> QED
  BY <1>3, <1>4

\* What one step keeps.
LEMMA NextStep == ASSUME IInv, [Next]_vars PROVE Keeps
<1>1. CASE Call
  BY <1>1, CallStep
<1>2. CASE Return
  BY <1>2, ReturnStep
<1>3. ASSUME NEW b \in Byte, Process(b)
      PROVE  Keeps
  BY <1>3, InDataStep, InEolStep, InIacStep, InNegotiationStep, InSbStep, InSbDataStep,
     InSbDataIacStep DEF Process
<1>4. CASE UNCHANGED vars
  BY <1>4 DEF vars, Keeps, IInv, Typed, OptionNamed, BufferFits, Fresh, InChunk, NoOverrun, Index
<1>5. CASE DemandNvt
  BY <1>5, DemandNvtStep
<1> QED
  BY <1>1, <1>2, <1>3, <1>4, <1>5 DEF Next

\* What the initial state is.
LEMMA InitStep == Init => IInv /\ InChunk /\ NoOverrun
<1> SUFFICES ASSUME Init
             PROVE  IInv /\ InChunk /\ NoOverrun
  OBVIOUS
<1>1. /\ Len(buffer) = 0 /\ Index = 0
      /\ buffer_size \in {Sizes[i] : i \in DOMAIN Sizes}
  BY SizesProperties, RecvAssumption DEF Init, Index
<1>2. /\ buffer \in Seq(Byte) /\ chunk \in Seq(Byte)
      /\ out \in Seq(Event) /\ out \in Seq(Event \cup {Overrun})
  BY DEF Init
<1>3. Typed
  BY <1>1, <1>2 DEF Init, Typed, State
<1>4. OptionNamed /\ BufferFits /\ Fresh /\ InChunk
  BY <1>1 DEF Init, OptionNamed, BufferFits, Fresh, InChunk
<1> QED
  BY <1>2, <1>3, <1>4 DEF IInv, NoOverrun

LEMMA IInvHolds == Spec => []IInv
<1>1. IInv /\ [Next]_vars => IInv'
  BY NextStep DEF Keeps
<1> QED
  BY <1>1, InitStep, PTL DEF Spec

-----------------------------------------------------------------------------
\* TypeOK: every variable of the parser is of its type, and a payload belongs
\* to an option.
THEOREM TypeCorrect == Spec => []TypeOK
<1>1. IInv => TypeOK
  <2> SUFFICES ASSUME IInv
               PROVE  TypeOK
    OBVIOUS
  <2>1. ASSUME NEW k \in DOMAIN out
        PROVE  out[k].kind \in Kinds
    <3>1. out[k] \in Event \cup {Overrun}
      BY LenProperties, ElementOfSeq DEF IInv, Typed
    <3> QED
      BY <3>1 DEF Event, Overrun, Kinds
  <2> QED
    BY <2>1 DEF IInv, Typed, OptionNamed, TypeOK
<1> QED
  BY <1>1, IInvHolds, PTL

\* BufferFits: _buffer_byte() never writes past the buffer, whatever the sizes
\* it grows through and whenever it fails to grow.
THEOREM BufferFitsHolds == Spec => []BufferFits
<1>1. IInv => BufferFits
  BY DEF IInv
<1> QED
  BY <1>1, IInvHolds, PTL

\* DataInChunk: a DATA event reaches out of its chunk only after MCCPv1's start
\* has been looked for, as the run TelnetRecvMccp1 shows: in a stream without
\* a subnegotiation of COMPRESS every event lies within its chunk.
THEOREM DataInChunkHolds == Spec /\ []NoMccp1 => []DataInChunk
<1>1. NoOverrun => DataInChunk
  <2> SUFFICES ASSUME NoOverrun, NEW k \in DOMAIN out
               PROVE  out[k] # Overrun
    BY DEF DataInChunk
  <2>1. out[k] \in Event
    BY LenProperties, ElementOfSeq DEF NoOverrun
  <2> QED
    BY <2>1 DEF Event, Overrun
<1>2. IInv /\ InChunk /\ NoOverrun /\ NoMccp1 /\ [Next]_vars => InChunk' /\ NoOverrun'
  BY NextStep DEF Keeps
<1> QED
  BY <1>1, <1>2, InitStep, IInvHolds, PTL DEF Spec

\* BreakingCommandEvaluated: only a subnegotiation of ENVIRON, as the run
\* TelnetRecvEnviron shows, leaves the command that breaks it off unevaluated.
THEOREM BreakingCommandHolds == Spec /\ []NoEnviron => BreakingCommandEvaluated
<1>1. NoEnviron /\ [Next]_vars => [state = "SB_DATA_IAC" => state' # "IAC"]_vars
  <2> SUFFICES ASSUME NoEnviron, Next, state = "SB_DATA_IAC"
               PROVE  state' # "IAC"
    OBVIOUS
  <2>1. CASE Call \/ Return \/ DemandNvt
    BY <2>1 DEF Call, Return, DemandNvt
  <2>2. ASSUME NEW b \in Byte, InSbDataIac(b)
        PROVE  state' # "IAC"
    BY <2>2 DEF InSbDataIac, BufferByte, Command, Negotiations, Aborts, NoEnviron
  <2> QED
    BY <2>1, <2>2
    DEF Next, Process, InData, InEol, InIac, InNegotiation, Negotiations, InSb, InSbData
<1> QED
  BY <1>1, PTL DEF Spec, BreakingCommandEvaluated

-----------------------------------------------------------------------------
(* The parser implements TelnetStream.                                     *)

\* The events given, where the bytes read and not handed over count as given.
Given == IF state = "DATA" /\ receiving /\ start < Index THEN out \o Pending ELSE out

Decoding ==
    /\ Given \in Seq(Event \cup {Overrun})
    /\ ~(state = "DATA" /\ receiving) => Given = out
    /\ state = "DATA" /\ receiving =>
        /\ Given = out \o Pending
        /\ Pending \in Seq(Event \cup {Overrun})
        /\ Len(Pending) = Index - start
        /\ \A k \in 1 .. Index - start : Pending[k] = Data(chunk[start + k])

LEMMA DecodingHolds == IInv /\ InChunk => Decoding
<1> SUFFICES ASSUME IInv, InChunk
             PROVE  Decoding
  OBVIOUS
<1>1. Index \in Nat /\ start \in Nat /\ out \in Seq(Event \cup {Overrun})
  BY PendingProperties DEF IInv, Typed
<1>2. Given \in Seq(Event \cup {Overrun})
  BY <1>1, PendingProperties, EmitType DEF Given, IInv
<1>3. state = "DATA" /\ receiving => Given = out \o Pending
  <2>1. state = "DATA" => start < Index \/ start = Index
    BY <1>1 DEF InChunk
  <2>2. start = Index => out \o Pending = out
    BY <1>1, EmitType, EmptySeq, PendingProperties DEF IInv
  <2> QED
    BY <2>1, <2>2 DEF Given
<1> QED
  BY <1>2, <1>3, PendingProperties DEF Decoding, Given, IInv, InChunk

\* Sequences of events that differ by their last.
LEMMA ExtendProperties ==
    ASSUME NEW E, NEW s \in Seq(E), NEW t \in Seq(E), NEW u \in Seq(E), NEW e \in E,
           Len(u) = Len(t) + 1, \A k \in 1 .. Len(t) : u[k] = t[k], u[Len(t) + 1] = e
    PROVE  s \o u = (s \o t) \o <<e>>
<1>1. Len(s) \in Nat /\ Len(t) \in Nat
  BY LenProperties
<1>2. /\ <<e>> \in Seq(E) /\ Len(<<e>>) = 1 /\ <<e>>[1] = e
  OBVIOUS
<1>3. /\ s \o u \in Seq(E) /\ Len(s \o u) = Len(s) + Len(t) + 1
      /\ \A i \in 1 .. Len(s) + Len(t) + 1 :
            (s \o u)[i] = IF i <= Len(s) THEN s[i] ELSE u[i - Len(s)]
  <2>1. Len(s) + Len(u) = Len(s) + Len(t) + 1
    BY <1>1
  <2>2. /\ s \o u \in Seq(E) /\ Len(s \o u) = Len(s) + Len(u)
        /\ \A i \in 1 .. Len(s) + Len(u) :
              (s \o u)[i] = IF i <= Len(s) THEN s[i] ELSE u[i - Len(s)]
    BY ConcatProperties
  <2> QED
    BY <2>1, <2>2
<1>4. /\ s \o t \in Seq(E) /\ Len(s \o t) = Len(s) + Len(t)
      /\ \A i \in 1 .. Len(s) + Len(t) :
            (s \o t)[i] = IF i <= Len(s) THEN s[i] ELSE t[i - Len(s)]
  BY <1>1, ConcatProperties
<1>5. /\ (s \o t) \o <<e>> \in Seq(E) /\ Len((s \o t) \o <<e>>) = Len(s) + Len(t) + 1
      /\ \A i \in 1 .. Len(s) + Len(t) + 1 :
            ((s \o t) \o <<e>>)[i] = IF i <= Len(s) + Len(t) THEN (s \o t)[i]
                                     ELSE <<e>>[i - (Len(s) + Len(t))]
  BY <1>2, <1>4, ConcatProperties
<1>6. ASSUME NEW i \in 1 .. Len(s) + Len(t) + 1
      PROVE  (s \o u)[i] = ((s \o t) \o <<e>>)[i]
  <2>1. CASE i <= Len(s)
    BY <1>1, <1>3, <1>4, <1>5, <2>1
  <2>2. CASE i > Len(s) /\ i <= Len(s) + Len(t)
    <3>1. i - Len(s) \in 1 .. Len(t) /\ i \in 1 .. Len(s) + Len(t) /\ ~(i <= Len(s))
      BY <1>1, <2>2
    <3>2. (s \o u)[i] = u[i - Len(s)]
      BY <1>3, <3>1
    <3>3. ((s \o t) \o <<e>>)[i] = t[i - Len(s)]
      BY <1>4, <1>5, <2>2, <3>1
    <3> QED
      BY <3>1, <3>2, <3>3
  <2>3. CASE i = Len(s) + Len(t) + 1
    BY <1>1, <1>2, <1>3, <1>5, <2>3
  <2> QED
    BY <1>1, <2>1, <2>2, <2>3
<1> QED
  BY <1>3, <1>5, <1>6, SeqEqual

\* The conditions under which a step of the parser is one of TelnetStream.
Reading == IInv /\ InChunk /\ NoMccp1 /\ NoEnviron

\* What is given and what is typed after a step of the parser.
LEMMA AfterStep ==
    ASSUME Reading, [Next]_vars
    PROVE  Decoding /\ Decoding' /\ IInv' /\ InChunk'
<1>1. IInv' /\ InChunk'
  BY NextStep DEF Reading, Keeps
<1>2. Decoding
  BY DecodingHolds DEF Reading
<1>3. (IInv /\ InChunk => Decoding)'
  BY DecodingHolds, PTL
<1> QED
  BY <1>1, <1>2, <1>3

LEMMA CallRefines == ASSUME Reading, Call PROVE Stream!Consume
<1>1. Index = 0 /\ start = 0 /\ Index' = 0
  BY DEF Call, Index, Reading, IInv, Fresh
<1> QED
  BY <1>1 DEF Call, Stream!Consume, Mode

LEMMA DemandNvtRefines == ASSUME Reading, DemandNvt PROVE Stream!DemandNvt
BY DEF DemandNvt, Stream!DemandNvt, Mode, Pending, Index

LEMMA ReturnRefines == ASSUME Reading, Return PROVE UNCHANGED Stream!vars
<1>1. Index \in Nat /\ start \in Nat /\ Index' = 0 /\ start' = 0
  BY PendingProperties DEF Return, Index, Reading, IInv, Typed
<1>2. Mode' = Mode
  <2>1. CASE state = "DATA"
    <3>1. state' = "DATA" /\ ~(start > Index) /\ ~(start' > Index')
      BY <1>1, <2>1 DEF Return, Reading, InChunk
    <3> QED
      BY <2>1, <3>1 DEF Mode
  <2>2. CASE state # "DATA"
    BY <2>2 DEF Return, Mode
  <2> QED
    BY <2>1, <2>2
<1>3. Given' = Given
  <2>1. CASE state = "DATA"
    BY <1>1, <2>1 DEF Return, Given, Reading, InChunk
  <2>2. CASE state # "DATA"
    BY <2>2 DEF Return, Given
  <2> QED
    BY <2>1, <2>2
<1> QED
  BY <1>2, <1>3 DEF Return, Stream!vars, Given

\* A step into DATA that leaves nothing pending, or out of it.
LEMMA NothingPending ==
    ASSUME state' = "DATA" => start' = Index', Index' \in Nat
    PROVE  Given' = out'
BY DEF Given

\* The command byte is evaluated as TelnetStream says.
LEMMA CommandRefines ==
    ASSUME NEW b \in Byte, NEW before, Command(b, before), state # "DATA",
           state' = "DATA" => start' = Index', Index' \in Nat
    PROVE  Stream!Command(b, before)
<1>1. Given = out /\ Given' = out'
  BY NothingPending DEF Given
<1>2. state' = "DATA" => Mode' = "data"
  BY DEF Mode
<1>3. /\ state' = "SB" => Mode' = "option"
      /\ state' \in Negotiations => Mode' = state'
  BY DEF Mode, Negotiations
<1> QED
  BY <1>1, <1>2, <1>3
  DEF Command, Emit, Given, Negotiations, Data, Iac, Stream!Command, Stream!Emit,
      Stream!Negotiations, Stream!Data, Stream!Iac

LEMMA InDataRefines ==
    ASSUME Reading, NEW b \in Byte, InData(b)
    PROVE  Stream!InData(b)
<1>1. Decoding /\ Decoding' /\ InChunk'
  BY AfterStep DEF InData, Process, Next
<1>2. /\ Index \in Nat /\ Index' = Index + 1 /\ start \in Nat /\ start <= Index
      /\ chunk'[Index + 1] = b /\ \A i \in 1 .. Index : chunk'[i] = chunk[i]
      /\ out \in Seq(Event \cup {Overrun}) /\ Mode = "data"
  BY ReadProperties, PendingProperties DEF InData, Reading, InChunk, IInv, Typed, Mode
<1>3. CASE b = "IAC" \/ (b = "CR" /\ translate)
  <2>1. /\ state' = IF b = "IAC" THEN "IAC" ELSE "EOL"
        /\ out' = out \o Pending
    <3>1. start = Index => Pending = <<>>
      BY PendingProperties DEF Reading, IInv
    <3> QED
      BY <1>3, <3>1 DEF InData, Emit
  <2>2. Given' = Given
    BY <1>1, <2>1 DEF Decoding, InData, Read
  <2>3. Given' = Given \o <<>>
    BY <1>1, <2>2, EmitType, EmptySeq DEF Decoding
  <2> QED
    BY <1>2, <1>3, <2>1, <2>3 DEF InData, Mode, Stream!InData, Stream!Emit, Given
<1>4. CASE ~(b = "IAC" \/ (b = "CR" /\ translate))
  <2>1. UNCHANGED <<state, out, start>> /\ receiving' /\ receiving
    BY <1>4 DEF InData, Read
  <2>2. /\ Given = out \o Pending /\ Given' = out \o Pending'
        /\ Pending \in Seq(Event \cup {Overrun}) /\ Pending' \in Seq(Event \cup {Overrun})
        /\ Len(Pending) = Index - start /\ Len(Pending') = Index + 1 - start
        /\ \A k \in 1 .. Index - start : Pending[k] = Data(chunk[start + k])
        /\ \A k \in 1 .. Index + 1 - start : Pending'[k] = Data(chunk'[start + k])
    BY <1>1, <1>2, <2>1, SMTT(30) DEF Decoding, InData
  <2>3. Data(b) \in Event \cup {Overrun}
    BY DEF Data, Event
  <2>4. /\ Len(Pending') = Len(Pending) + 1
        /\ Pending'[Len(Pending) + 1] = Data(b)
    <3>1. Index + 1 - start \in 1 .. Index + 1 - start /\ start + (Index + 1 - start) = Index + 1
      BY <1>2
    <3>2. Pending'[Index + 1 - start] = Data(b)
      BY <1>2, <2>2, <3>1
    <3>3. Index + 1 - start = Len(Pending) + 1
      BY <1>2, <2>2
    <3> QED
      BY <2>2, <3>2, <3>3
  <2>5. ASSUME NEW k \in 1 .. Len(Pending)
        PROVE  Pending'[k] = Pending[k]
    <3>1. /\ k \in 1 .. Index - start /\ k \in 1 .. Index + 1 - start
          /\ start + k \in 1 .. Index
      BY <1>2, <2>2
    <3> QED
      BY <1>2, <2>2, <3>1
  <2>6. Given' = Given \o <<Data(b)>>
    BY <1>2, <2>2, <2>3, <2>4, <2>5, ExtendProperties, SMTT(30)
  <2>7. Mode' = "data"
    <3>1. state' = "DATA" /\ ~(start' > Index')
      BY <1>2, <2>1 DEF InData
    <3> QED
      BY <3>1 DEF Mode
  <2> QED
    BY <1>2, <1>4, <2>6, <2>7 DEF InData, Stream!InData, Stream!Emit, Stream!Data, Data, Given
<1> QED
  BY <1>3, <1>4

\* Two events in one go.
LEMMA TwoEvents ==
    ASSUME NEW E, NEW s \in Seq(E), NEW d \in E, NEW e \in E
    PROVE  (s \o <<d>>) \o <<e>> = s \o <<d, e>>
<1>1. /\ <<d>> \in Seq(E) /\ <<d, e>> \in Seq(E) /\ Len(<<d>>) = 1 /\ Len(<<d, e>>) = 2
      /\ <<d, e>>[1] = d /\ <<d, e>>[2] = e /\ <<d>>[1] = d
  OBVIOUS
<1>2. \A k \in 1 .. Len(<<d>>) : <<d, e>>[k] = <<d>>[k]
  BY <1>1
<1>3. Len(<<d, e>>) = Len(<<d>>) + 1 /\ <<d, e>>[Len(<<d>>) + 1] = e
  BY <1>1
<1> DEFINE t == <<d>>
           u == <<d, e>>
<1>4. t \in Seq(E) /\ u \in Seq(E) /\ Len(u) = Len(t) + 1 /\ u[Len(t) + 1] = e
      /\ \A k \in 1 .. Len(t) : u[k] = t[k]
  BY <1>1, <1>2, <1>3
<1>5. s \o u = (s \o t) \o <<e>>
  <2> HIDE DEF t, u
  <2> QED
    BY <1>4, ExtendProperties, SMTT(30)
<1> QED
  BY <1>5

LEMMA InEolRefines ==
    ASSUME Reading, NEW b \in Byte, InEol(b)
    PROVE  Stream!InCr(b)
<1>1. Decoding' /\ InChunk'
  BY AfterStep DEF InEol, Process, Next
<1>2. /\ Index \in Nat /\ Index' = Index + 1 /\ chunk'[Index + 1] = b
      /\ out \in Seq(Event \cup {Overrun})
  BY ReadProperties, PendingProperties DEF InEol, Reading, IInv, Typed
<1>3. Given = out /\ Mode = "cr" /\ Mode' = "data"
  <2>1. state' = "DATA" /\ ~(start' > Index')
    BY <1>1, <1>2 DEF InEol, InChunk
  <2> QED
    BY <2>1 DEF InEol, Given, Mode
<1>4. /\ Given' = out' \o Pending' /\ Pending' \in Seq(Event \cup {Overrun})
      /\ Len(Pending') = Index + 1 - start'
      /\ \A k \in 1 .. Index + 1 - start' : Pending'[k] = Data(chunk'[start' + k])
  <2>1. state' = "DATA" /\ receiving'
    BY DEF InEol, Read
  <2>2. /\ Given' = out' \o Pending' /\ Pending' \in Seq(Event \cup {Overrun})
        /\ Len(Pending') = Index' - start'
        /\ \A k \in 1 .. Index' - start' : Pending'[k] = Data(chunk'[start' + k])
    BY <1>1, <2>1 DEF Decoding
  <2>3. start' \in Nat
    BY <1>2 DEF InEol
  <2>4. Index' - start' = Index + 1 - start'
    BY <1>2, <2>3
  <2> QED
    BY <2>2, <2>4
<1>5. Data(b) \in Event \cup {Overrun} /\ Data("CR") \in Event \cup {Overrun}
  BY DEF Data, Event
<1>6. Pending' = IF b = "NUL" THEN <<>> ELSE <<Data(b)>>
  <2>1. CASE b = "NUL"
    <3>1. Len(Pending') = 0
      BY <1>2, <1>4, <2>1 DEF InEol
    <3> QED
      BY <1>4, <2>1, <3>1, EmptySeq
  <2>2. CASE b # "NUL"
    <3>1. start' = Index /\ Index + 1 - start' = 1 /\ start' + 1 = Index + 1
      BY <1>2, <2>2 DEF InEol
    <3>2. Len(Pending') = 1 /\ Pending'[1] = Data(b)
      BY <1>2, <1>4, <3>1
    <3>3. <<Data(b)>> \in Seq(Event \cup {Overrun}) /\ Len(<<Data(b)>>) = 1
          /\ <<Data(b)>>[1] = Data(b)
      BY <1>5
    <3>4. Pending' = <<Data(b)>>
      <4> DEFINE t == <<Data(b)>>
      <4>1. t \in Seq(Event \cup {Overrun}) /\ Len(t) = 1 /\ t[1] = Data(b)
        BY <3>3
      <4>2. \A k \in 1 .. Len(Pending') : Pending'[k] = t[k]
        BY <3>2, <4>1
      <4> HIDE DEF t
      <4>3. Pending' = t
        BY <1>4, <3>2, <4>1, <4>2, SeqEqual
      <4> QED
        BY <4>3 DEF t
    <3> QED
      BY <2>2, <3>4
  <2> QED
    BY <2>1, <2>2
<1>7. out' = out \o (IF b # "LF" THEN <<Data("CR")>> ELSE <<>>)
  BY DEF InEol, Emit
<1>8. Given' = Given \o (IF b = "LF" THEN <<Data("LF")>>
                        ELSE IF b = "NUL" THEN <<Data("CR")>>
                        ELSE <<Data("CR"), Data(b)>>)
  <2>1. CASE b = "LF"
    BY <1>2, <1>3, <1>4, <1>6, <1>7, <2>1, EmitType, EmptySeq
  <2>2. CASE b = "NUL"
    <3>1. <<Data("CR")>> \in Seq(Event \cup {Overrun})
      BY <1>5
    <3> QED
      BY <1>2, <1>3, <1>4, <1>6, <1>7, <2>2, <3>1, EmitType
  <2>3. CASE b \notin {"LF", "NUL"}
    <3>1. out' = out \o <<Data("CR")>> /\ Given' = out' \o <<Data(b)>>
      BY <1>4, <1>6, <1>7, <2>3
    <3>2. (out \o <<Data("CR")>>) \o <<Data(b)>> = out \o <<Data("CR"), Data(b)>>
      <4> HIDE DEF Data
      <4> QED
        BY <1>2, <1>5, TwoEvents
    <3> QED
      BY <1>3, <2>3, <3>1, <3>2
  <2> QED
    BY <2>1, <2>2, <2>3
<1> QED
  BY <1>3, <1>8 DEF InEol, Stream!InCr, Stream!Emit, Stream!Data, Data, Given

\* What is common to the actions outside DATA that are done with their byte.
LEMMA OutsideData ==
    ASSUME Reading, NEW b \in Byte, Read(b), state # "DATA"
    PROVE  /\ Given = out
           /\ Index' \in Nat
           /\ Index' = Index + 1
           /\ out \in Seq(Event \cup {Overrun})
BY ReadProperties, PendingProperties DEF Reading, IInv, Typed, Given

LEMMA InIacRefines ==
    ASSUME Reading, NEW b \in Byte, InIac(b)
    PROVE  Stream!InIac(b)
<1>1. state # "DATA" /\ Read(b) /\ Command(b, <<>>)
  BY DEF InIac
<1>2. state' = "DATA" => start' = Index'
  BY <1>1, OutsideData DEF InIac, Command, Negotiations
<1>3. Stream!Command(b, <<>>)
  BY <1>1, <1>2, OutsideData, CommandRefines
<1> QED
  BY <1>3 DEF InIac, Mode, Stream!InIac

LEMMA InNegotiationRefines ==
    ASSUME Reading, NEW b \in Byte, InNegotiation(b)
    PROVE  Stream!InNegotiation(b)
<1>1. state # "DATA" /\ Read(b)
  BY DEF InNegotiation, Negotiations
<1>2. state' = "DATA" /\ start' = Index' /\ Given = out /\ Given' = out'
  BY <1>1, OutsideData, NothingPending DEF InNegotiation
<1>3. Mode = state /\ Mode' = "data"
  <2>1. ~(start' > Index')
    BY <1>1, <1>2, OutsideData
  <2> QED
    BY <1>2, <2>1 DEF InNegotiation, Negotiations, Mode
<1> QED
  BY <1>2, <1>3
  DEF InNegotiation, Emit, Given, Negotiations, Negotiation, Stream!InNegotiation,
      Stream!Emit, Stream!Negotiations, Stream!Negotiation

LEMMA InSbRefines ==
    ASSUME Reading, NEW b \in Byte, InSb(b)
    PROVE  Stream!InOption(b)
<1>1. state # "DATA" /\ Read(b) /\ state' # "DATA"
  BY DEF InSb
<1>2. Given' = Given \o <<>>
  BY <1>1, OutsideData, EmitType, EmptySeq DEF InSb, Given
<1> QED
  BY <1>1, <1>2 DEF InSb, Mode, Given, Stream!InOption, Stream!Emit

\* The buffer holds what TelnetStream keeps, however it grew.
LEMMA BufferByteRefines ==
    ASSUME Reading, NEW b \in Byte, Read(b), BufferByte(b), state # "DATA"
    PROVE  Stream!Keep(b)
<1>1. /\ Len(buffer) \in Nat /\ buffer_size \in Nat /\ buffer_size <= Sizes[Len(Sizes)]
      /\ Sizes[Len(Sizes)] \in Nat
  BY LenProperties, SizesProperties DEF Reading, IInv, Typed
<1>2. CASE /\ state' = "SB_DATA"
           /\ buffer' = Append(buffer, b)
           /\ UNCHANGED out
           /\ Len(buffer) < Sizes[Len(Sizes)]
  <2>1. Given' = Given \o <<>>
    BY <1>2, OutsideData, EmitType, EmptySeq DEF Given
  <2> QED
    BY <1>2, <2>1 DEF Mode, Given, Stream!Keep, Stream!Emit
<1>3. CASE /\ state' = "DATA"
           /\ start' = Index + 1
           /\ UNCHANGED buffer
           /\ \/ Len(buffer) = Sizes[Len(Sizes)] /\ Emit(<<Warning("overflow")>>)
              \/ Len(buffer) < Sizes[Len(Sizes)] /\ MemoryFails /\ Emit(<<Warning("memory")>>)
  <2>1. Given = out /\ Given' = out'
    BY <1>3, OutsideData, NothingPending
  <2>2. Mode' = "data"
    <3>1. ~(start' > Index')
      BY <1>3, OutsideData
    <3> QED
      BY <1>3, <3>1 DEF Mode
  <2> QED
    BY <1>3, <2>1, <2>2 DEF Emit, Warning, Given, Stream!Keep, Stream!Emit, Stream!Warning
<1>4. CASE Len(buffer) < buffer_size
  <2>1. Len(buffer) < Sizes[Len(Sizes)] /\ Len(buffer) # buffer_size
    BY <1>1, <1>4
  <2> QED
    BY <1>2, <2>1 DEF BufferByte
<1>5. CASE Len(buffer) = buffer_size
  <2>1. (\E i \in DOMAIN Sizes : Sizes[i] = buffer_size /\ i < Len(Sizes))
        => buffer_size < Sizes[Len(Sizes)]
    BY SizesProperties
  <2>2. buffer_size # Sizes[Len(Sizes)] => buffer_size < Sizes[Len(Sizes)]
    BY <1>1
  <2>3. ~(Len(buffer) < buffer_size)
    BY <1>1, <1>5
  <2> QED
    BY <1>2, <1>3, <1>5, <2>1, <2>2, <2>3 DEF BufferByte
<1> QED
  BY <1>4, <1>5 DEF BufferByte

LEMMA InSbDataRefines ==
    ASSUME Reading, NEW b \in Byte, InSbData(b)
    PROVE  Stream!InPayload(b)
<1>1. state # "DATA" /\ Read(b) /\ Mode = "payload"
  BY DEF InSbData, Mode
<1>2. CASE b = "IAC"
  <2>1. Given' = Given \o <<>>
    BY <1>1, <1>2, OutsideData, EmitType, EmptySeq DEF InSbData, Given
  <2> QED
    BY <1>1, <1>2, <2>1 DEF InSbData, Mode, Given, Stream!InPayload, Stream!Emit
<1>3. CASE b # "IAC"
  <2>1. BufferByte(b) /\ sb_telopt # "COMPRESS"
    BY <1>3 DEF InSbData, Reading, NoMccp1
  <2>2. Stream!Keep(b)
    BY <1>1, <2>1, BufferByteRefines
  <2> QED
    BY <1>1, <1>3, <2>1, <2>2 DEF InSbData, Stream!InPayload
<1> QED
  BY <1>2, <1>3

LEMMA InSbDataIacRefines ==
    ASSUME Reading, NEW b \in Byte, InSbDataIac(b)
    PROVE  Stream!InPayloadIac(b)
<1>1. state # "DATA" /\ Read(b) /\ Mode = "payload_iac"
  BY DEF InSbDataIac, Mode
<1>2. CASE b = "IAC"
  <2>1. Stream!Keep(b)
    BY <1>1, <1>2, BufferByteRefines DEF InSbDataIac
  <2> QED
    BY <1>1, <1>2, <2>1 DEF InSbDataIac, Stream!InPayloadIac
<1>3. CASE b = "SE"
  <2>1. state' = "DATA" /\ start' = Index' /\ Given = out /\ Given' = out'
    BY <1>1, <1>3, OutsideData, NothingPending DEF InSbDataIac
  <2>2. Mode' = "data"
    <3>1. Index' \in Nat /\ start' = Index'
      BY <1>1, <2>1, OutsideData
    <3>2. ~(start' > Index')
      BY <3>1
    <3> QED
      BY <2>1, <3>2 DEF Mode
  <2> QED
    BY <1>1, <1>3, <2>1, <2>2
    DEF InSbDataIac, Emit, Given, Subnegotiation, Stream!InPayloadIac, Stream!Emit,
        Stream!Subnegotiation
<1>4. CASE b \notin {"IAC", "SE"}
  <2> DEFINE events == <<Warning("protocol"), Subnegotiation(sb_telopt, buffer)>>
  <2>1. Command(b, events) /\ start' = Index + 1
    BY <1>4 DEF InSbDataIac, Aborts, Reading, NoEnviron
  <2>2. Stream!Command(b, events)
    <3> HIDE DEF events
    <3> QED
      BY <1>1, <2>1, OutsideData, CommandRefines
  <2> QED
    BY <1>1, <1>4, <2>2
    DEF InSbDataIac, Warning, Subnegotiation, Stream!InPayloadIac, Stream!Warning,
        Stream!Subnegotiation
<1> QED
  BY <1>2, <1>3, <1>4

\* DecodesStream: telnet_recv() decodes the stream as TelnetStream says,
\* independently of chunk boundaries, of the sizes of the buffer and of failures
\* to allocate, as long as the option under subnegotiation is not COMPRESS or
\* ENVIRON: no byte is lost, repeated, reordered or held back, and none is taken
\* for what it is not.
THEOREM DecodesStreamHolds == Spec /\ []NoMccp1 /\ []NoEnviron => DecodesStream
<1>1. Init => Stream!Init
  <2> SUFFICES ASSUME Init
               PROVE  Stream!Init
    OBVIOUS
  <2>1. ~(start > Index)
    BY DEF Init, Index
  <2> QED
    BY <2>1 DEF Init, Mode, Stream!Init
<1>2. Reading /\ [Next]_vars => [Stream!Next]_(Stream!vars)
  <2> SUFFICES ASSUME Reading, [Next]_vars
               PROVE  [Stream!Next]_(Stream!vars)
    OBVIOUS
  <2>1. CASE Call
    BY <2>1, CallRefines DEF Stream!Next
  <2>2. CASE Return
    BY <2>2, ReturnRefines
  <2>3. ASSUME NEW b \in Byte, Process(b)
        PROVE  Stream!Next
    <3>1. Stream!Decode(b)
      BY <2>3, InDataRefines, InEolRefines, InIacRefines, InNegotiationRefines, InSbRefines,
         InSbDataRefines, InSbDataIacRefines DEF Process, Stream!Decode
    <3> QED
      BY <3>1 DEF Stream!Next
  <2>4. CASE UNCHANGED vars
    BY <2>4 DEF vars, Stream!vars, Mode, Pending, Index
  <2>5. CASE DemandNvt
    BY <2>5, DemandNvtRefines DEF Stream!Next
  <2> QED
    BY <2>1, <2>2, <2>3, <2>4, <2>5 DEF Next
<1>3. IInv /\ InChunk /\ NoMccp1 /\ [Next]_vars => InChunk'
  BY NextStep DEF Keeps
<1> QED
  BY <1>1, <1>2, <1>3, InitStep, IInvHolds, PTL DEF Spec, Stream!Spec, DecodesStream, Reading

=============================================================================
