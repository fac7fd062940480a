---------------------------- MODULE ChatdProofs ----------------------------
(***************************************************************************)
(* Proofs about telnet-chatd, for a table and line buffers of any size,    *)
(* any alphabet and any number of connections.                             *)
(***************************************************************************)
EXTENDS Chatd, SequenceTheorems, WellFoundedInduction, TLAPS

User == [sock : Nat, telnet : Nat, name : [text : Seq(Byte), by : Nat], linebuf : Seq(Byte)]

Line == [text : Seq(Byte), last : {"none", "CR", "CRNUL"}, blind : BOOLEAN]

\* The sets the variables are drawn from; connections are numbered in order.
Typed ==
    /\ users \in [Slot -> User]
    /\ reading \in Slot \cup {0} /\ accepted \in Nat
    /\ \A i \in Slot : users[i].telnet <= accepted /\ users[i].sock \in {0, users[i].telnet}
    /\ \A t \in trackers \cup quitters : t \in Nat /\ t <= accepted
    /\ \A i \in Slot : Len(users[i].linebuf) <= LINEBUFFER_SIZE

\* No two slots have the tracker of one connection, whoever has left.
TrackersApart ==
    \A i, j \in Slot : users[i].telnet = users[j].telnet /\ users[i].telnet # 0 => i = j

\* A name is never empty, and nobody else has it.
Names(us) ==
    /\ \A i \in Slot : us[i].name # NoName => us[i].name.text # <<>>
    /\ \A i, j \in Slot : us[i].name.text = us[j].name.text /\ us[i].name.text # <<>> => i = j

\* What a slot means is in its buffer, with what its last byte was.
MeantBuffered ==
    /\ meant \in [Slot -> Line]
    /\ \A i \in Slot : ~meant[i].blind =>
        /\ users[i].linebuf = meant[i].text
        /\ AfterCr(users[i].linebuf) <=> meant[i].last # "none"

\* The descriptors that are open are those of the table.
Opened(us, fds) == fds = {us[i].sock : i \in {j \in Slot : us[j].sock # 0}}

IInv ==
    /\ Typed /\ TrackersApart /\ Names(users) /\ MeantBuffered
    /\ TrackersAccounted /\ SocketsOpen /\ ExitsOnLoss

-----------------------------------------------------------------------------
(* The operators on lines and on the table.                                *)

\* A set of numbers has a least one.
LEMMA MinProperties ==
    ASSUME NEW S \in SUBSET Nat, S # {}
    PROVE  Min(S) \in S
<1> DEFINE R == OpToRel(<, Nat)
<1>1. \E x \in S : \A y \in S : ~ (<<y, x>> \in R)
  BY NatLessThanWellFounded, WFMin
<1>2. \A x, y \in Nat : <<y, x>> \in R <=> y < x
  BY DEF OpToRel
<1> HIDE DEF R
<1>3. PICK x \in S : \A y \in S : ~ (<<y, x>> \in R)
  BY <1>1
<1>4. \A y \in S : x =< y
  <2> SUFFICES ASSUME NEW y \in S
               PROVE  x =< y
    OBVIOUS
  <2>1. x \in Nat /\ y \in Nat /\ ~ (y < x)
    BY <1>2, <1>3
  <2> QED
    BY <2>1
<1> QED
  BY <1>4 DEF Min

\* A C string is made of the same bytes.
LEMMA CStringType ==
    ASSUME NEW line \in Seq(Byte)
    PROVE  CString(line) \in Seq(Byte)
<1> DEFINE nuls == {k \in DOMAIN line : line[k] = "NUL"}
<1>1. /\ Len(line) \in Nat /\ DOMAIN line = 1 .. Len(line)
      /\ \A i \in 1 .. Len(line) : line[i] \in Byte
  BY LenProperties, ElementOfSeq
<1>2. CASE nuls = {}
  BY <1>2 DEF CString
<1>3. CASE nuls # {}
  <2>1. nuls \in SUBSET Nat
    BY <1>1
  <2>2. Min(nuls) \in 1 .. Len(line)
    BY <1>1, <1>3, <2>1, MinProperties
  <2>3. SubSeq(line, 1, Min(nuls) - 1) \in Seq(Byte)
    <3>1. \A i \in 1 .. Min(nuls) - 1 : line[i] \in Byte
      BY <1>1, <2>2
    <3> HIDE DEF nuls
    <3> QED
      BY <2>2, <3>1, SubSeqProperties
  <2> QED
    BY <1>3, <2>3 DEF CString
<1> QED
  BY <1>2, <1>3

\* A sequence without its last element, if it has one.
LEMMA FrontType ==
    ASSUME NEW S, NEW s \in Seq(S)
    PROVE  Front(s) \in Seq(S)
<1>1. Len(s) \in Nat /\ \A i \in 1 .. Len(s) : s[i] \in S
  BY LenProperties, ElementOfSeq
<1>2. \A i \in 1 .. Len(s) - 1 : s[i] \in S
  BY <1>1
<1> QED
  BY <1>1, <1>2, SubSeqProperties DEF Front

\* What is sent to sockets of the table ends the server only if a peer is gone.
LEMMA SendOpened ==
    ASSUME NEW us, NEW fds, NEW gone, NEW socks, Opened(us, fds),
           socks \subseteq {us[j].sock : j \in Slot}, NEW o \in Send(socks, fds, gone)
    PROVE  o \in {"up", "exited"} /\ (o = "exited" => gone # {})
<1>1. socks \subseteq fds \cup {0}
  BY DEF Opened
<1> QED
  BY <1>1 DEF Send

\* A slot that is left keeps its tracker's number and its line.
LEMMA LeaveProperties ==
    ASSUME NEW us \in [Slot -> User], NEW i \in Slot
    PROVE  LET r == Leave(us, i)
           IN  /\ r \in [Slot -> User]
               /\ \A j \in Slot \ {i} : r[j] = us[j]
               /\ r[i].sock = 0 /\ r[i].name = NoName
               /\ r[i].telnet = us[i].telnet /\ r[i].linebuf = us[i].linebuf
<1> DEFINE x == [us[i] EXCEPT !.sock = 0, !.name = NoName]
<1>1. \A u \in User : LET v == [u EXCEPT !.sock = 0, !.name = NoName]
                      IN  /\ v \in User /\ v.sock = 0 /\ v.name = NoName
                          /\ v.telnet = u.telnet /\ v.linebuf = u.linebuf
  BY EmptySeq DEF User, NoName
<1>2. Leave(us, i) = [us EXCEPT ![i] = x]
  BY DEF Leave
<1>3. x \in User /\ x.sock = 0 /\ x.name = NoName
         /\ x.telnet = us[i].telnet /\ x.linebuf = us[i].linebuf
  BY <1>1
<1> HIDE DEF x
<1> QED
  BY <1>2, <1>3

\* A slot whose socket is closed keeps the rest.
LEMMA CloseProperties ==
    ASSUME NEW us \in [Slot -> User], NEW i \in Slot
    PROVE  LET r == [us EXCEPT ![i].sock = 0]
           IN  /\ r \in [Slot -> User]
               /\ \A j \in Slot \ {i} : r[j] = us[j]
               /\ r[i].sock = 0 /\ r[i].telnet = us[i].telnet
               /\ r[i].name = us[i].name /\ r[i].linebuf = us[i].linebuf
<1> DEFINE x == [us[i] EXCEPT !.sock = 0]
<1>1. \A u \in User : LET v == [u EXCEPT !.sock = 0]
                      IN  /\ v \in User /\ v.sock = 0 /\ v.telnet = u.telnet
                          /\ v.name = u.name /\ v.linebuf = u.linebuf
  BY DEF User
<1>2. /\ x \in User /\ x.sock = 0 /\ x.telnet = us[i].telnet
      /\ x.name = us[i].name /\ x.linebuf = us[i].linebuf
  BY <1>1
<1> HIDE DEF x
<1>3. [us EXCEPT ![i].sock = 0] = [us EXCEPT ![i] = x]
  BY DEF x
<1> QED
  BY <1>2, <1>3

\* A name that nobody has, in a slot.
LEMMA NameProperties ==
    ASSUME NEW us \in [Slot -> User], NEW i \in Slot, NEW text \in Seq(Byte)
    PROVE  LET r == [us EXCEPT ![i].name = [text |-> text, by |-> us[i].sock]]
           IN  /\ r \in [Slot -> User]
               /\ \A j \in Slot \ {i} : r[j] = us[j]
               /\ r[i].sock = us[i].sock /\ r[i].telnet = us[i].telnet
               /\ r[i].linebuf = us[i].linebuf
               /\ r[i].name.text = text /\ r[i].name.by = us[i].sock
<1> DEFINE x == [us[i] EXCEPT !.name = [text |-> text, by |-> us[i].sock]]
<1>1. \A u \in User : LET v == [u EXCEPT !.name = [text |-> text, by |-> us[i].sock]]
                      IN  /\ us[i].sock \in Nat => v \in User
                          /\ v.sock = u.sock /\ v.telnet = u.telnet /\ v.linebuf = u.linebuf
                          /\ v.name.text = text /\ v.name.by = us[i].sock
  BY DEF User
<1>2. us[i] \in User /\ us[i].sock \in Nat
  BY DEF User
<1>3. x \in User /\ x.sock = us[i].sock /\ x.telnet = us[i].telnet /\ x.linebuf = us[i].linebuf
         /\ x.name.text = text /\ x.name.by = us[i].sock
  BY <1>1, <1>2
<1> HIDE DEF x
<1>4. [us EXCEPT ![i].name = [text |-> text, by |-> us[i].sock]] = [us EXCEPT ![i] = x]
  BY DEF x
<1> QED
  BY <1>3, <1>4

\* A login under a name that nobody has.
LogsIn(us, r, i) ==
    \E text \in Seq(Byte) :
        /\ text # <<>> /\ ~InUse(us, text)
        /\ r = [us EXCEPT ![i].name = [text |-> text, by |-> us[i].sock]]

\* _online() on a line: the slot is left and its tracker's user has quit, or it
\* gets a name that nobody has, or nothing changes.  It sends to sockets that are
\* in the table afterwards.
LEMMA OnlineProperties ==
    ASSUME NEW us \in [Slot -> User], NEW i \in Slot, NEW line \in Seq(Byte)
    PROVE  LET r == Online(us, i, line)
           IN  /\ r = [users |-> r.users, sent |-> r.sent, quit |-> r.quit]
               /\ r.sent \subseteq {r.users[j].sock : j \in Slot}
               /\ \/ r.users = us /\ r.quit = {}
                  \/ r.users = Leave(us, i) /\ r.quit = {us[i].telnet}
                  \/ r.quit = {} /\ LogsIn(us, r.users, i)
<1> DEFINE text == CString(line)
<1>1. text \in Seq(Byte)
  BY CStringType
<1>2. ASSUME NEW v
      PROVE  Message(v) \subseteq {v[j].sock : j \in Slot}
  BY DEF Message
<1> DEFINE named == [us EXCEPT ![i].name = [text |-> text, by |-> us[i].sock]]
<1>3. named[i].sock = us[i].sock /\ {us[i].sock} \subseteq {us[j].sock : j \in Slot}
  BY <1>1, NameProperties
<1>4. {us[i].sock} \subseteq {named[j].sock : j \in Slot}
  BY <1>3
<1> DEFINE refused == text = <<>> \/ Len(text) > NameMax \/ InUse(us, text)
           left == Leave(us, i)
<1>5. Online(us, i, line) =
        IF us[i].name = NoName
          THEN [users |-> IF refused THEN us ELSE named, sent |-> {us[i].sock}, quit |-> {}]
        ELSE IF text = Quit
          THEN [users |-> left, sent |-> Message(left), quit |-> {us[i].telnet}]
        ELSE [users |-> us, sent |-> Message(us), quit |-> {}]
  BY DEF Online
<1> HIDE DEF left
<1>6. CASE us[i].name = NoName
  <2>1. CASE refused
    BY <1>3, <1>5, <1>6, <2>1
  <2>2. CASE ~refused
    <3>1. Online(us, i, line) = [users |-> named, sent |-> {us[i].sock}, quit |-> {}]
      BY <1>5, <1>6, <2>2
    <3>2. text # <<>> /\ ~InUse(us, text)
      BY <2>2
    <3> HIDE DEF text
    <3>3. named = [us EXCEPT ![i].name = [text |-> text, by |-> us[i].sock]]
      OBVIOUS
    <3> HIDE DEF named
    <3> DEFINE r == Online(us, i, line)
    <3>4. r.users = named /\ r.sent = {us[i].sock} /\ r.quit = {}
      BY <3>1
    <3>5. r = [users |-> r.users, sent |-> r.sent, quit |-> r.quit]
      BY <3>1
    <3>6. r.sent \subseteq {r.users[j].sock : j \in Slot}
      BY <1>4, <3>4
    <3> HIDE DEF r
    <3>7. LogsIn(us, r.users, i)
      BY <1>1, <3>2, <3>3, <3>4, Zenon DEF LogsIn
    <3> QED
      BY <3>4, <3>5, <3>6, <3>7 DEF r
  <2> QED
    BY <2>1, <2>2
<1>7. CASE us[i].name # NoName /\ text = Quit
  BY <1>2, <1>5, <1>7 DEF left
<1>8. CASE us[i].name # NoName /\ text # Quit
  BY <1>2, <1>5, <1>8
<1> QED
  BY <1>6, <1>7, <1>8

\* What a step of the table of users may do to a slot.
Moves(us, r, i, quit) ==
    /\ r \in [Slot -> User]
    /\ \A j \in Slot \ {i} : r[j] = us[j]
    /\ r[i].telnet = us[i].telnet
    /\ \/ r[i].sock = us[i].sock /\ r[i].name = us[i].name /\ quit = {}
       \/ r[i].sock = 0 /\ r[i].name = NoName /\ quit = {us[i].telnet}
       \/ /\ r[i].sock = us[i].sock /\ r[i].name.by = us[i].sock /\ quit = {}
          /\ r[i].name.text # <<>> /\ ~InUse(us, r[i].name.text)

\* A line that _online() gets moves its slot, whose buffer it leaves alone.
LEMMA OnlineMoves ==
    ASSUME NEW us \in [Slot -> User], NEW i \in Slot, NEW line \in Seq(Byte)
    PROVE  LET r == Online(us, i, line)
           IN  /\ Moves(us, r.users, i, r.quit)
               /\ r.sent \subseteq {r.users[j].sock : j \in Slot}
               /\ r.users[i].linebuf = us[i].linebuf
<1> DEFINE r == Online(us, i, line)
<1>1. /\ r.sent \subseteq {r.users[j].sock : j \in Slot}
      /\ \/ r.users = us /\ r.quit = {}
         \/ r.users = Leave(us, i) /\ r.quit = {us[i].telnet}
         \/ r.quit = {} /\ LogsIn(us, r.users, i)
  BY OnlineProperties
<1> HIDE DEF r
<1>2. ASSUME r.users = us, r.quit = {}
      PROVE  Moves(us, r.users, i, r.quit) /\ r.users[i].linebuf = us[i].linebuf
  BY <1>1, <1>2 DEF Moves
<1>3. ASSUME r.users = Leave(us, i), r.quit = {us[i].telnet}
      PROVE  Moves(us, r.users, i, r.quit) /\ r.users[i].linebuf = us[i].linebuf
  BY <1>1, <1>3, LeaveProperties DEF Moves
<1>4. ASSUME LogsIn(us, r.users, i), r.quit = {}
      PROVE  Moves(us, r.users, i, r.quit) /\ r.users[i].linebuf = us[i].linebuf
  <2>1. PICK text \in Seq(Byte) :
          /\ text # <<>> /\ ~InUse(us, text)
          /\ r.users = [us EXCEPT ![i].name = [text |-> text, by |-> us[i].sock]]
    BY <1>4 DEF LogsIn
  <2> QED
    BY <1>4, <2>1, NameProperties DEF Moves
<1> QED
  BY <1>1, <1>2, <1>3, <1>4 DEF r

\* Another line in a slot.
LEMMA LinebufProperties ==
    ASSUME NEW v \in [Slot -> User], NEW i \in Slot, NEW l \in Seq(Byte)
    PROVE  LET w == [v EXCEPT ![i].linebuf = l]
           IN  /\ w \in [Slot -> User] /\ \A j \in Slot \ {i} : w[j] = v[j]
               /\ w[i].sock = v[i].sock /\ w[i].telnet = v[i].telnet
               /\ w[i].name = v[i].name /\ w[i].linebuf = l
<1> DEFINE x == [v[i] EXCEPT !.linebuf = l]
<1>1. \A u \in User : LET y == [u EXCEPT !.linebuf = l]
                      IN  /\ y \in User /\ y.sock = u.sock /\ y.telnet = u.telnet
                          /\ y.name = u.name /\ y.linebuf = l
  BY DEF User
<1>2. /\ x \in User /\ x.sock = v[i].sock /\ x.telnet = v[i].telnet
      /\ x.name = v[i].name /\ x.linebuf = l
  BY <1>1
<1> HIDE DEF x
<1>3. [v EXCEPT ![i].linebuf = l] = [v EXCEPT ![i] = x]
  BY DEF x
<1> QED
  BY <1>2, <1>3

\* A move that also empties the line.
LEMMA EndedMoves ==
    ASSUME NEW us, NEW i \in Slot, NEW quit, NEW v, Moves(us, v, i, quit)
    PROVE  LET w == [v EXCEPT ![i].linebuf = <<>>]
           IN  /\ Moves(us, w, i, quit) /\ w[i].linebuf = <<>>
               /\ \A j \in Slot : w[j].sock = v[j].sock
<1>1. v \in [Slot -> User]
  BY DEF Moves
<1>2. PICK l \in Seq(Byte) : l = <<>>
  BY EmptySeq
<1> DEFINE w == [v EXCEPT ![i].linebuf = l]
<1>3. /\ w \in [Slot -> User] /\ \A j \in Slot \ {i} : w[j] = v[j]
      /\ w[i].sock = v[i].sock /\ w[i].telnet = v[i].telnet
      /\ w[i].name = v[i].name /\ w[i].linebuf = l
  BY <1>1, LinebufProperties
<1>4. [v EXCEPT ![i].linebuf = <<>>] = w
  BY <1>2
<1> HIDE DEF w
<1>5. Moves(us, w, i, quit)
  BY <1>3 DEF Moves
<1>6. \A j \in Slot : w[j].sock = v[j].sock
  BY <1>3
<1> QED
  BY <1>2, <1>3, <1>4, <1>5, <1>6

\* linebuffer_push(): the line ends, is kept, or grows by the byte while there
\* is room; what is sent goes to the table.
LEMMA PushProperties ==
    ASSUME NEW us \in [Slot -> User], NEW i \in Slot, NEW ch \in Byte
    PROVE  LET r == linebuffer_push(us, i, ch)
               line == us[i].linebuf
           IN  /\ Moves(us, r.users, i, r.quit)
               /\ r.sent \subseteq {r.users[j].sock : j \in Slot}
               /\ r.users[i].linebuf =
                    IF AfterCr(line) /\ ch = "LF" THEN <<>>
                    ELSE IF BareCr(line, ch) THEN line
                    ELSE IF Room(line) THEN Append(line, ch)
                    ELSE <<>>
<1> DEFINE line == us[i].linebuf
<1> DEFINE Kept(l) == [users |-> [us EXCEPT ![i].linebuf = l], sent |-> {}, quit |-> {}]
<1> DEFINE o == Online(us, i, Front(line))
<1> DEFINE Ended == [o EXCEPT !.users[i].linebuf = <<>>]
<1>1. us[i] \in User /\ line \in Seq(Byte)
  BY DEF User
<1>3. ASSUME NEW l \in Seq(Byte)
      PROVE  /\ Kept(l).sent = {} /\ Moves(us, Kept(l).users, i, Kept(l).quit)
             /\ Kept(l).users[i].linebuf = l
  BY LinebufProperties DEF Moves
<1>4. /\ Moves(us, Ended.users, i, Ended.quit)
      /\ Ended.sent \subseteq {Ended.users[j].sock : j \in Slot}
      /\ Ended.users[i].linebuf = <<>>
  <2>1. Front(line) \in Seq(Byte)
    BY <1>1, FrontType
  <2>2. /\ o = [users |-> o.users, sent |-> o.sent, quit |-> o.quit]
        /\ o.sent \subseteq {o.users[j].sock : j \in Slot}
    BY <2>1, OnlineProperties
  <2>3. Moves(us, o.users, i, o.quit)
    BY <2>1, OnlineMoves
  <2> HIDE DEF o
  <2>4. Ended = [users |-> [o.users EXCEPT ![i].linebuf = <<>>],
                    sent |-> o.sent, quit |-> o.quit]
    BY <2>2
  <2> HIDE DEF Ended
  <2>5. /\ Moves(us, Ended.users, i, Ended.quit) /\ Ended.users[i].linebuf = <<>>
        /\ \A j \in Slot : Ended.users[j].sock = o.users[j].sock
    BY <2>3, <2>4, EndedMoves
  <2> QED
    BY <2>2, <2>4, <2>5
<1>5. Append(line, ch) \in Seq(Byte)
  BY <1>1, AppendProperties
<1>6. linebuffer_push(us, i, ch) =
        IF AfterCr(line) /\ ch = "LF" THEN Ended
        ELSE IF BareCr(line, ch) THEN Kept(line)
        ELSE IF Room(line) THEN Kept(Append(line, ch))
        ELSE Ended
  BY DEF linebuffer_push
<1> DEFINE r == linebuffer_push(us, i, ch)
<1> HIDE DEF Ended, Kept
<1>7. ASSUME NEW l \in Seq(Byte), r = Kept(l)
      PROVE  /\ Moves(us, r.users, i, r.quit) /\ r.users[i].linebuf = l
             /\ r.sent \subseteq {r.users[j].sock : j \in Slot}
  <2>1. r.sent = {} /\ Moves(us, r.users, i, r.quit) /\ r.users[i].linebuf = l
    BY <1>3, <1>7
  <2> QED
    BY <2>1
<1>8. r = Ended => /\ Moves(us, r.users, i, r.quit) /\ r.users[i].linebuf = <<>>
                   /\ r.sent \subseteq {r.users[j].sock : j \in Slot}
  BY <1>4
<1> HIDE DEF r
<1> QED
  BY <1>1, <1>5, <1>6, <1>7, <1>8 DEF r

-----------------------------------------------------------------------------
(* The steps.                                                              *)

\* A connection goes into a slot that is free, with what is there.
LEMMA AcceptStep ==
    ASSUME IInv, Accept
    PROVE  IInv'
<1> DEFINE free == {j \in Slot : users[j].sock = 0}
<1>0. /\ accepted \in Nat /\ accepted' = accepted + 1 /\ reading = 0 /\ up = "up"
      /\ UNCHANGED <<reading, quitters>> /\ users \in [Slot -> User] /\ MAX_USERS \in Nat
  BY ChatdAssumption DEF Accept, Running, IInv, Typed
<1>1. CASE free = {}
  <2>1. UNCHANGED <<users, trackers, open, meant>>
    BY <1>1 DEF Accept
  <2>0. up' \in {"overrun", "exited"} /\ (up' = "exited" => broken' # {})
    <3> DEFINE sent == Send({accepted'}, open \cup {accepted'}, broken')
    <3>1. up' \in {IF o = "up" THEN "overrun" ELSE o : o \in sent}
      BY <1>1 DEF Accept
    <3>2. \A o \in sent : o \in {"up", "exited"} /\ (o = "exited" => broken' # {})
      BY DEF Send
    <3> HIDE DEF sent
    <3> QED
      BY <3>1, <3>2
  <2>2. Typed'
    <3>1. \A t \in Nat : t <= accepted => t <= accepted'
      BY <1>0
    <3>2. \A j \in Slot : users[j].telnet \in Nat
      BY <1>0 DEF User
    <3> QED
      BY <1>0, <2>1, <3>1, <3>2 DEF IInv, Typed
  <2>3. TrackersApart' /\ Names(users)' /\ MeantBuffered'
    BY <2>1 DEF IInv, TrackersApart, Names, MeantBuffered
  <2> QED
    BY <2>0, <2>2, <2>3 DEF IInv, TrackersAccounted, SocketsOpen, ExitsOnLoss
<1>2. CASE free # {}
  <2> DEFINE i == Min(free)
  <2>1. i \in Slot /\ users[i].sock = 0
    <3>1. free \in SUBSET Nat
      BY <1>0 DEF Slot
    <3>2. i \in free
      BY <1>2, <3>1, MinProperties
    <3> QED
      BY <3>2
  <2>2. /\ users' = [users EXCEPT ![i].sock = accepted', ![i].telnet = accepted']
        /\ trackers' = trackers \cup {accepted'} /\ open' = open \cup {accepted'}
        /\ meant' = [meant EXCEPT ![i] = [AtStart EXCEPT !.blind = users[i].linebuf # <<>>]]
    BY <1>2 DEF Accept
  <2> HIDE DEF i
  <2>3. /\ users' \in [Slot -> User] /\ \A j \in Slot \ {i} : users'[j] = users[j]
        /\ users'[i].sock = accepted + 1 /\ users'[i].telnet = accepted + 1
        /\ users'[i].name = users[i].name /\ users'[i].linebuf = users[i].linebuf
    <3> DEFINE n == accepted + 1
    <3> DEFINE x == [users[i] EXCEPT !.sock = n, !.telnet = n]
    <3>1. \A u \in User : LET y == [u EXCEPT !.sock = n, !.telnet = n]
                          IN  /\ y \in User /\ y.sock = n /\ y.telnet = n
                              /\ y.name = u.name /\ y.linebuf = u.linebuf
      <4>1. n \in Nat
        BY <1>0
      <4> HIDE DEF n
      <4> QED
        BY <4>1 DEF User
    <3>2. /\ x \in User /\ x.sock = n /\ x.telnet = n
          /\ x.name = users[i].name /\ x.linebuf = users[i].linebuf
      BY <1>0, <2>1, <3>1
    <3>3. users' = [users EXCEPT ![i] = x]
      BY <1>0, <2>2
    <3> HIDE DEF x
    <3> QED
      BY <1>0, <2>1, <3>2, <3>3
  <2>4. Typed'
    <3>1. \A t \in Nat : t <= accepted => t <= accepted'
      BY <1>0
    <3>2. \A j \in Slot : users[j].telnet \in Nat
      BY <1>0 DEF User
    <3>3. accepted' \in Nat /\ accepted' <= accepted'
      BY <1>0
    <3> QED
      BY <1>0, <2>1, <2>2, <2>3, <3>1, <3>2, <3>3 DEF IInv, Typed
  <2>5. TrackersApart'
    BY <1>0, <2>1, <2>3 DEF IInv, Typed, TrackersApart
  <2>6. Names(users)'
    BY <2>1, <2>3 DEF IInv, Names
  <2>7. MeantBuffered'
    <3> DEFINE m == [AtStart EXCEPT !.blind = users[i].linebuf # <<>>]
    <3>1. m \in Line /\ m.text = <<>> /\ m.last = "none" /\ m.blind = (users[i].linebuf # <<>>)
      BY EmptySeq DEF AtStart, Line
    <3>2. \A j \in Slot \ {i} : meant'[j] = meant[j]
      BY <2>2 DEF IInv, MeantBuffered
    <3> HIDE DEF m
    <3>3. meant' \in [Slot -> Line] /\ meant'[i] = m
      BY <2>1, <2>2, <3>1 DEF IInv, MeantBuffered, m
    <3> QED
      BY <2>1, <2>3, <3>1, <3>2, <3>3 DEF IInv, MeantBuffered, AfterCr
  <2>8. TrackersAccounted'
    BY <1>0, <2>1, <2>2, <2>3 DEF IInv, TrackersAccounted, Connected
  <2>9. SocketsOpen'
    BY <1>0, <2>1, <2>2, <2>3 DEF IInv, SocketsOpen, Connected
  <2>10. ExitsOnLoss'
    <3>1. up' \in Send({accepted'}, open \cup {accepted'}, broken')
      BY <1>2 DEF Accept
    <3>2. up' = "exited" => broken' # {}
      BY <3>1 DEF Send
    <3> QED
      BY <3>2 DEF ExitsOnLoss
  <2> QED
    BY <2>4, <2>5, <2>6, <2>7, <2>8, <2>9, <2>10 DEF IInv
<1> QED
  BY <1>1, <1>2

\* A step of the table keeps names and trackers as they should be.
LEMMA MovesKeep ==
    ASSUME IInv, NEW i \in Slot, NEW quit, Moves(users, users', i, quit),
           accepted' = accepted, trackers' = trackers, quitters' = quitters \cup quit,
           up = "up"
    PROVE  TrackersApart' /\ Names(users)' /\ TrackersAccounted'
<1>1. TrackersApart'
  BY DEF IInv, TrackersApart, Moves
<1>2. Names(users)'
  BY DEF IInv, Names, Moves, NoName, InUse
<1>3. TrackersAccounted'
  BY DEF IInv, TrackersAccounted, Moves, Connected
<1> QED
  BY <1>1, <1>2, <1>3

\* A socket is closed when its user quits, and at no other time.
LEMMA MovesOpened ==
    ASSUME IInv, NEW i \in Slot, NEW quit, Moves(users, users', i, quit), up = "up"
    PROVE  Opened(users', open \ quit)
<1>1. open = {users[j].sock : j \in {k \in Slot : users[k].sock # 0}}
  BY DEF IInv, SocketsOpen, Connected
<1>2. \A j \in Slot : users[j].sock \in {0, users[j].telnet}
  BY DEF IInv, Typed
<1>3. CASE users'[i].sock = users[i].sock /\ quit = {}
  <2>1. \A j \in Slot : users'[j].sock = users[j].sock
    BY <1>3 DEF Moves
  <2> QED
    BY <1>1, <1>3, <2>1 DEF Opened
<1>4. CASE users'[i].sock = 0 /\ quit = {users[i].telnet}
  <2>1. \A j \in Slot \ {i} : users'[j].sock = users[j].sock
    BY DEF Moves
  <2>2. \A j \in Slot \ {i} : users[j].sock # 0 => users[j].sock # users[i].telnet
    BY <1>2 DEF IInv, TrackersApart
  <2>3. ASSUME NEW c \in open, c # users[i].telnet
        PROVE  \E j \in Slot : users'[j].sock # 0 /\ c = users'[j].sock
    BY <1>1, <1>2, <2>1, <2>3
  <2>4. ASSUME NEW j \in Slot, users'[j].sock # 0
        PROVE  users'[j].sock \in open \ quit
    BY <1>1, <1>4, <2>1, <2>2, <2>4
  <2> QED
    BY <1>4, <2>3, <2>4 DEF Opened
<1> QED
  BY <1>3, <1>4 DEF Moves

\* What the bytes mean is what linebuffer_push() leaves in the buffer.
LEMMA MeaningBuffered ==
    ASSUME NEW m \in Line, NEW line \in Seq(Byte), NEW ch \in Byte,
           ~m.blind => line = m.text /\ (AfterCr(line) <=> m.last # "none"),
           NEW new, new = IF AfterCr(line) /\ ch = "LF" THEN <<>>
                          ELSE IF BareCr(line, ch) THEN line
                          ELSE IF Room(line) THEN Append(line, ch)
                          ELSE <<>>
    PROVE  LET r == Meaning(m, ch, new)
           IN  /\ r \in Line
               /\ ~r.blind => new = r.text /\ (AfterCr(new) <=> r.last # "none")
<1> DEFINE crlf == m.last = "CR" /\ ch = "LF"
<1> DEFINE crnul == m.last = "CR" /\ ch = "NUL"
<1> DEFINE blind == \/ m.blind
                    \/ ~crlf /\ ~crnul /\ Len(m.text) = LINEBUFFER_SIZE
                    \/ m.last = "CRNUL" /\ ch \in {"LF", "NUL"}
<1> DEFINE last == IF ch = "CR" THEN "CR" ELSE IF crnul /\ ~blind THEN "CRNUL" ELSE "none"
<1>1. /\ Meaning(m, ch, new) =
           IF crlf /\ (~blind \/ new = <<>>) THEN AtStart
           ELSE IF blind THEN [text |-> <<>>, last |-> last, blind |-> TRUE]
           ELSE [text |-> IF crnul THEN m.text ELSE Append(m.text, ch), last |-> last,
                 blind |-> FALSE]
  BY DEF Meaning
<1>2. /\ m.text \in Seq(Byte) /\ m.last \in {"none", "CR", "CRNUL"} /\ m.blind \in BOOLEAN
  BY DEF Line
<1>3. AtStart \in Line /\ AtStart.text = <<>> /\ AtStart.last = "none" /\ <<>> \in Seq(Byte)
  BY EmptySeq DEF AtStart, Line
<1>4. ~AfterCr(<<>>)
  BY DEF AfterCr
<1>5. Append(line, ch) \in Seq(Byte) /\ (AfterCr(Append(line, ch)) <=> ch = "CR")
  <2>1. /\ Append(line, ch) \in Seq(Byte) /\ Append(line, ch) # <<>>
        /\ Len(Append(line, ch)) = Len(line) + 1
        /\ Append(line, ch)[Len(line) + 1] = ch
    BY AppendProperties
  <2> QED
    BY <2>1 DEF AfterCr, Last
<1>6. Append(m.text, ch) \in Seq(Byte)
  BY <1>2, AppendProperties
<1>a. \A t \in Seq(Byte), l \in {"none", "CR", "CRNUL"}, b \in BOOLEAN :
        [text |-> t, last |-> l, blind |-> b] \in Line
  BY DEF Line
<1>b. last \in {"none", "CR", "CRNUL"}
  OBVIOUS
<1>7. CASE crlf /\ (~blind \/ new = <<>>)
  <2>1. Meaning(m, ch, new) = AtStart
    BY <1>1, <1>7
  <2>2. new = <<>>
    BY <1>7
  <2> QED
    BY <2>1, <2>2, <1>3, <1>4
<1>8. CASE ~(crlf /\ (~blind \/ new = <<>>)) /\ blind
  <2>1. Meaning(m, ch, new) = [text |-> <<>>, last |-> last, blind |-> TRUE]
    BY <1>1, <1>8
  <2> QED
    <3> HIDE DEF last, blind
    <3>1. PICK t \in Seq(Byte) : t = <<>>
      BY <1>3
    <3>2. Meaning(m, ch, new) = [text |-> t, last |-> last, blind |-> TRUE]
      BY <2>1, <3>1
    <3>3. Meaning(m, ch, new) \in Line
      <4>1. [text |-> t, last |-> last, blind |-> TRUE] \in Line
        BY <1>a, <1>b, Zenon
      <4> QED
        BY <4>1, <3>2, Zenon
    <3>4. Meaning(m, ch, new).blind
      BY <3>2
    <3> QED
      BY <3>3, <3>4
<1>9. CASE ~crlf /\ ~blind
  <2>1. Meaning(m, ch, new) = [text |-> IF crnul THEN m.text ELSE Append(m.text, ch),
                               last |-> last, blind |-> FALSE]
    BY <1>1, <1>9
  <2>2. line = m.text /\ (AfterCr(line) <=> m.last # "none")
    BY <1>9, <1>2
  <2>3. CASE crnul
    <3>1. new = line /\ last = "CRNUL"
      BY <1>9, <2>2, <2>3 DEF BareCr
    <3> QED
      <4>1. Meaning(m, ch, new) = [text |-> m.text, last |-> "CRNUL", blind |-> FALSE]
        BY <2>1, <2>3, <3>1
      <4>2. Meaning(m, ch, new) \in Line
        <5>1. [text |-> m.text, last |-> "CRNUL", blind |-> FALSE] \in Line
          BY <1>a, <1>2, Zenon
        <5> QED
          BY <5>1, <4>1, Zenon
      <4>3. Meaning(m, ch, new).text = m.text /\ Meaning(m, ch, new).last = "CRNUL"
        BY <4>1
      <4> QED
        BY <4>2, <4>3, <2>2, <2>3, <3>1
  <2>4. CASE ~crnul
    <3>1. new = Append(line, ch) /\ last = IF ch = "CR" THEN "CR" ELSE "none"
      BY <1>2, <1>9, <2>2, <2>4 DEF BareCr, Room
    <3> QED
      <4>1. Meaning(m, ch, new) = [text |-> Append(m.text, ch), last |-> last, blind |-> FALSE]
        BY <2>1, <2>4
      <4> HIDE DEF last
      <4>2. Meaning(m, ch, new) \in Line
        <5>1. [text |-> Append(m.text, ch), last |-> last, blind |-> FALSE] \in Line
          BY <1>a, <1>b, <1>6, Zenon
        <5> QED
          BY <5>1, <4>1, Zenon
      <4>3. Meaning(m, ch, new).text = Append(m.text, ch) /\ Meaning(m, ch, new).last = last
        BY <4>1
      <4>4. last # "none" <=> ch = "CR"
        BY <3>1
      <4> QED
        BY <4>2, <4>3, <4>4, <1>5, <2>2, <3>1
  <2> QED
    BY <2>3, <2>4
<1> QED
  BY <1>7, <1>8, <1>9

\* A byte of a chunk: the line of the slot, perhaps its name, perhaps a quit.
LEMMA InputStep ==
    ASSUME IInv, NEW ch \in Byte, Input(ch)
    PROVE  IInv'
<1> DEFINE i == reading
<1> DEFINE line == users[i].linebuf
<1> DEFINE r == linebuffer_push(users, i, ch)
<1>1. /\ i \in Slot /\ up = "up" /\ users \in [Slot -> User]
      /\ UNCHANGED <<reading, accepted, trackers>>
      /\ line \in Seq(Byte) /\ Len(line) <= LINEBUFFER_SIZE
  BY DEF Input, Running, IInv, Typed, User
<1>2. /\ users' = r.users /\ quitters' = quitters \cup r.quit
      /\ open' = open \ r.quit /\ up' \in Send(r.sent, open', broken')
      /\ meant' = [meant EXCEPT ![i] = Meaning(@, ch, r.users[i].linebuf)]
  BY DEF Input
<1>3. /\ Moves(users, users', i, r.quit) /\ r.sent \subseteq {users'[j].sock : j \in Slot}
      /\ users'[i].linebuf = IF AfterCr(line) /\ ch = "LF" THEN <<>>
                             ELSE IF BareCr(line, ch) THEN line
                             ELSE IF Room(line) THEN Append(line, ch)
                             ELSE <<>>
  BY <1>1, <1>2, PushProperties
<1> HIDE DEF r
<1>4. Len(users'[i].linebuf) <= LINEBUFFER_SIZE
  <2>1. Len(line) \in Nat /\ Len(Append(line, ch)) = Len(line) + 1 /\ Len(<<>>) = 0
    BY <1>1, LenProperties, AppendProperties, EmptySeq
  <2>2. LINEBUFFER_SIZE \in Nat
    BY ChatdAssumption
  <2> QED
    BY <1>1, <1>3, <2>1, <2>2 DEF Room
<1>5. users[i].telnet \in Nat
  BY <1>1 DEF User
<1>6. Typed'
  BY <1>1, <1>2, <1>3, <1>4, <1>5 DEF IInv, Typed, Moves
<1>7. TrackersApart' /\ Names(users)' /\ TrackersAccounted'
  BY <1>1, <1>2, <1>3, MovesKeep
<1>8. MeantBuffered'
  <2> DEFINE new == users'[i].linebuf
  <2>1. meant[i] \in Line /\ meant \in [Slot -> Line]
    BY <1>1 DEF IInv, MeantBuffered
  <2>2. ~meant[i].blind => line = meant[i].text /\ (AfterCr(line) <=> meant[i].last # "none")
    BY <1>1 DEF IInv, MeantBuffered
  <2>3. LET m == Meaning(meant[i], ch, new)
        IN  /\ m \in Line
            /\ ~m.blind => new = m.text /\ (AfterCr(new) <=> m.last # "none")
    BY <1>1, <1>3, <2>1, <2>2, MeaningBuffered
  <2>4. /\ meant' \in [Slot -> Line] /\ meant'[i] = Meaning(meant[i], ch, new)
        /\ \A j \in Slot \ {i} : meant'[j] = meant[j]
    BY <1>1, <1>2, <2>1, <2>3
  <2>5. \A j \in Slot \ {i} : users'[j] = users[j]
    BY <1>3 DEF Moves
  <2> QED
    BY <2>3, <2>4, <2>5 DEF IInv, MeantBuffered
<1>9. Opened(users', open')
  BY <1>1, <1>2, <1>3, MovesOpened
<1>10. SocketsOpen'
  BY <1>9 DEF Opened, SocketsOpen, Connected
<1>11. ExitsOnLoss'
  BY <1>2, <1>3, <1>9, SendOpened DEF ExitsOnLoss
<1> QED
  BY <1>6, <1>7, <1>8, <1>10, <1>11 DEF IInv

\* A chunk begins, or ends; or a peer is gone, which a recv() may tell.
LEMMA ChunkStep ==
    ASSUME IInv, Done \/ (\E i \in Slot : Read(i) \/ RecvFails(i)) \/ \E c \in open : Lose(c)
    PROVE  IInv'
<1>1. /\ UNCHANGED <<users, accepted, trackers, quitters, open, meant>>
      /\ reading' \in Slot \cup {0} /\ up = "up"
  BY DEF Done, Read, RecvFails, Lose, Running, sockets, IInv, Typed
<1>2. Typed'
  BY <1>1 DEF IInv, Typed
<1>3. TrackersApart' /\ Names(users)' /\ MeantBuffered'
  BY <1>1 DEF IInv, TrackersApart, Names, MeantBuffered
<1>4. TrackersAccounted' /\ SocketsOpen'
  BY <1>1 DEF IInv, TrackersAccounted, SocketsOpen, Connected
<1>5. up' = "exited" => broken' # {}
  <2>1. CASE Done
    <3>1. Opened(users, open) /\ {users[reading].sock} \subseteq {users[j].sock : j \in Slot}
      BY <1>1, <2>1 DEF Done, IInv, Typed, SocketsOpen, Connected, Opened
    <3>2. up' \in Send({users[reading].sock}, open, broken) /\ broken' = broken
      BY <2>1 DEF Done, sockets
    <3> QED
      BY <3>1, <3>2, SendOpened
  <2>2. ASSUME NEW i \in Slot, Read(i)
        PROVE  up' = "up"
    BY <2>2 DEF Read, Running
  <2>3. ASSUME NEW i \in Slot, RecvFails(i)
        PROVE  broken' # {}
    BY <2>3 DEF RecvFails, sockets
  <2>4. ASSUME NEW c \in open, Lose(c)
        PROVE  up' = "up"
    BY <2>4 DEF Lose, Running
  <2> QED
    BY <2>1, <2>2, <2>3, <2>4
<1> QED
  BY <1>2, <1>3, <1>4, <1>5 DEF IInv, ExitsOnLoss

\* A user leaves, by an error or with the connection, or the server exits.
LEMMA LeaveStep ==
    ASSUME IInv, Error \/ \E i \in Slot : Disconnected(i)
    PROVE  IInv'
<1>1. ASSUME NEW i \in Slot, users' = Leave(users, i),
             trackers' = trackers \ {users[i].telnet},
             UNCHANGED <<reading, accepted, quitters, meant>>
      PROVE  /\ Typed' /\ TrackersApart' /\ Names(users)' /\ MeantBuffered'
             /\ up = "up" /\ users[i].sock # 0 => TrackersAccounted'
             /\ \A j \in Slot \ {i} : users'[j] = users[j]
             /\ users'[i].sock = 0 /\ users'[i].name = NoName
             /\ users'[i].telnet = users[i].telnet /\ users' \in [Slot -> User]
  <2>1. /\ users' \in [Slot -> User] /\ \A j \in Slot \ {i} : users'[j] = users[j]
        /\ users'[i].sock = 0 /\ users'[i].name = NoName
        /\ users'[i].telnet = users[i].telnet /\ users'[i].linebuf = users[i].linebuf
    BY <1>1, LeaveProperties DEF IInv, Typed
  <2>2. Typed'
    BY <1>1, <2>1 DEF IInv, Typed
  <2>3. TrackersApart' /\ MeantBuffered'
    BY <1>1, <2>1 DEF IInv, TrackersApart, MeantBuffered
  <2>4. Names(users)'
    BY <2>1 DEF IInv, Names, NoName
  <2>5. up = "up" /\ users[i].sock # 0 => TrackersAccounted'
    BY <1>1, <2>1 DEF IInv, Typed, TrackersAccounted, TrackersApart, Connected
  <2> QED
    BY <2>1, <2>2, <2>3, <2>4, <2>5
<1>2. CASE Error
  <2> DEFINE i == reading
  <2> DEFINE closed == [users EXCEPT ![i].sock = 0]
  <2> DEFINE sent == Send(IF users[i].name = NoName THEN {} ELSE Message(closed), open', broken')
  <2>1. /\ i \in Slot /\ up = "up" /\ users \in [Slot -> User]
        /\ UNCHANGED <<reading, accepted, quitters, meant>>
        /\ open' = open \ {users[i].sock}
        /\ up' \in {IF o = "up" THEN "freed" ELSE o : o \in sent}
        /\ users' = IF up' = "freed" THEN Leave(users, i) ELSE closed
        /\ trackers' = IF up' = "freed" THEN trackers \ {users[i].telnet} ELSE trackers
    BY <1>2 DEF Error, Running, IInv, Typed
  <2>2. /\ closed \in [Slot -> User] /\ closed[i].sock = 0
        /\ \A j \in Slot \ {i} : closed[j] = users[j]
        /\ closed[i].telnet = users[i].telnet /\ closed[i].name = users[i].name
        /\ closed[i].linebuf = users[i].linebuf
    BY <2>1, CloseProperties
  <2> HIDE DEF closed
  <2>3. Opened(closed, open')
    BY <2>1, <2>2 DEF IInv, Typed, TrackersApart, SocketsOpen, Connected, Opened
  <2>4. Message(closed) \subseteq {closed[j].sock : j \in Slot}
    BY DEF Message
  <2>5. \A o \in sent : o \in {"up", "exited"} /\ (o = "exited" => broken' # {})
    BY <2>3, <2>4, SendOpened
  <2> HIDE DEF sent
  <2>6. up' \in {"freed", "exited"} /\ (up' = "exited" => broken' # {})
    BY <2>1, <2>5
  <2>7. CASE up' = "freed"
    BY <1>1, <2>1, <2>7 DEF IInv, TrackersAccounted, SocketsOpen, ExitsOnLoss
  <2>8. CASE up' = "exited"
    <3>1. users' = closed /\ trackers' = trackers
      BY <2>1, <2>8
    <3>2. Typed' /\ TrackersApart' /\ MeantBuffered'
      BY <2>1, <2>2, <3>1 DEF IInv, Typed, TrackersApart, MeantBuffered
    <3>3. Names(users)'
      <4>1. \A j \in Slot : users'[j].name = users[j].name
        BY <2>2, <3>1
      <4> QED
        BY <4>1 DEF IInv, Names
    <3> QED
      BY <2>6, <2>8, <3>2, <3>3 DEF IInv, TrackersAccounted, SocketsOpen, ExitsOnLoss
  <2> QED
    BY <2>6, <2>7, <2>8
<1>3. ASSUME NEW i \in Slot, Disconnected(i)
      PROVE  IInv'
  <2>1. /\ up = "up" /\ users[i].sock \in open /\ users[i].sock # 0
        /\ UNCHANGED <<reading, accepted, quitters, broken, meant>>
        /\ open' = open \ {users[i].sock} /\ up' \in Send(Told(i), open', broken)
        /\ users' = IF up' = "up" THEN Leave(users, i) ELSE users
        /\ trackers' = IF up' = "up" THEN trackers \ {users[i].telnet} ELSE trackers
    BY <1>3 DEF Disconnected, Running, IInv, SocketsOpen, Connected
  <2>2. CASE up' = "up"
    <3>1. Opened(users', open')
      BY <1>1, <2>1, <2>2 DEF IInv, Typed, TrackersApart, SocketsOpen, Connected, Opened
    <3> QED
      BY <1>1, <2>1, <2>2, <3>1 DEF IInv, SocketsOpen, Connected, Opened, ExitsOnLoss
  <2>3. CASE up' # "up"
    <3>1. UNCHANGED <<users, trackers, reading, accepted, quitters, meant>>
      BY <2>1, <2>3
    <3>2. Typed' /\ TrackersApart' /\ Names(users)' /\ MeantBuffered'
      BY <3>1 DEF IInv, Typed, TrackersApart, Names, MeantBuffered
    <3>3. users[i].name # NoName
      BY <2>1, <2>3 DEF Told, Send
    <3>4. ExitsOnLoss'
      BY <2>1, <3>1, <3>3 DEF ExitsOnLoss, Connected
    <3> QED
      BY <2>3, <3>2, <3>4 DEF IInv, TrackersAccounted, SocketsOpen
  <2> QED
    BY <2>2, <2>3
<1> QED
  BY <1>2, <1>3

-----------------------------------------------------------------------------
(* The invariants.                                                         *)

\* The inductive invariant holds in every state.
LEMMA IInvHolds == Spec => []IInv
<1>1. Init => IInv
  <2> SUFFICES ASSUME Init
               PROVE  IInv
    OBVIOUS
  <2>1. /\ users \in [Slot -> User]
        /\ \A i \in Slot : /\ users[i].sock = 0 /\ users[i].telnet = 0 /\ users[i].name = NoName
                           /\ users[i].linebuf = <<>>
    BY EmptySeq DEF Init, User, NoName
  <2>2. /\ meant \in [Slot -> Line] /\ \A i \in Slot : meant[i].text = <<>> /\ meant[i].last = "none"
    BY EmptySeq DEF Init, Line, AtStart
  <2>3. /\ reading = 0 /\ accepted = 0 /\ trackers = {} /\ quitters = {} /\ open = {}
        /\ up = "up"
    BY DEF Init
  <2>4. Len(<<>>) = 0 /\ LINEBUFFER_SIZE \in Nat
    BY ChatdAssumption, EmptySeq
  <2>5. Typed /\ TrackersApart
    BY <2>1, <2>3, <2>4 DEF Typed, TrackersApart
  <2>6. Names(users) /\ MeantBuffered
    BY <2>1, <2>2 DEF Names, MeantBuffered, NoName, AfterCr
  <2>7. TrackersAccounted /\ SocketsOpen /\ ExitsOnLoss
    BY <2>1, <2>3 DEF TrackersAccounted, SocketsOpen, ExitsOnLoss, Connected
  <2> QED
    BY <2>5, <2>6, <2>7 DEF IInv
<1>2. IInv /\ [Next]_vars => IInv'
  <2> SUFFICES ASSUME IInv, [Next]_vars
               PROVE  IInv'
    OBVIOUS
  <2>1. CASE Accept
    BY <2>1, AcceptStep
  <2>2. CASE Done \/ (\E i \in Slot : Read(i) \/ RecvFails(i)) \/ \E c \in open : Lose(c)
    BY <2>2, ChunkStep
  <2>3. CASE Error \/ \E i \in Slot : Disconnected(i)
    BY <2>3, LeaveStep
  <2>4. ASSUME NEW ch \in Byte, Input(ch)
        PROVE  IInv'
    BY <2>4, InputStep
  <2>5. CASE UNCHANGED vars
    BY <2>5 DEF vars, sockets, IInv, Typed, TrackersApart, Names, MeantBuffered,
                TrackersAccounted, SocketsOpen, Connected, ExitsOnLoss
  <2> QED
    BY <2>1, <2>2, <2>3, <2>4, <2>5 DEF Next
<1> QED
  BY <1>1, <1>2, PTL DEF Spec

\* TypeOK: no line buffer is written behind its end, and no socket is in two
\* slots.
THEOREM TypeCorrect == Spec => []TypeOK
<1>1. IInv => TypeOK
  <2> SUFFICES ASSUME IInv
               PROVE  TypeOK
    OBVIOUS
  <2>1. ASSUME NEW i \in Slot
        PROVE  users[i].linebuf \in BoundedSeq(Byte, LINEBUFFER_SIZE)
    <3>1. /\ users[i].linebuf \in [1 .. Len(users[i].linebuf) -> Byte]
          /\ Len(users[i].linebuf) \in 0 .. LINEBUFFER_SIZE
      <4>1. users[i].linebuf \in Seq(Byte) /\ Len(users[i].linebuf) <= LINEBUFFER_SIZE
        BY DEF IInv, Typed, User
      <4> QED
        BY <4>1, LenProperties, ChatdAssumption
    <3> QED
      BY <3>1 DEF BoundedSeq, SeqOf
  <2>2. \A i, j \in Connected : users[i].sock = users[j].sock => i = j
    BY DEF IInv, Typed, TrackersApart, Connected
  <2> QED
    BY <2>1, <2>2 DEF IInv, Typed, TypeOK
<1> QED
  BY <1>1, IInvHolds, PTL

\* NamesUnique: no two users have one name, though a slot keeps a name that was
\* entered after "quit".
THEOREM NamesUniqueHolds == Spec => []NamesUnique
<1>1. IInv => NamesUnique
  BY DEF IInv, Names, NamesUnique
<1> QED
  BY <1>1, IInvHolds, PTL

\* A slot that nobody is connected to has no name, and OwnName.
OwnInv == (up = "up" => \A i \in Slot : users[i].sock = 0 => users[i].name = NoName) /\ OwnName

\* OwnName: a user's name was entered on this connection, if no chunk goes on
\* after the "quit" of its user; without that it is not so.
THEOREM OwnNameHolds == Spec /\ NothingAfterQuit => []OwnName
<1> DEFINE Quiet == [\A ch \in Byte : Input(ch) => users[reading].sock # 0]_vars
<1>1. Init => OwnInv
  BY DEF Init, OwnInv, OwnName, Connected, NoName
<1>2. IInv /\ OwnInv /\ [Next]_vars /\ Quiet => OwnInv'
  <2> SUFFICES ASSUME IInv, OwnInv, [Next]_vars, Quiet
               PROVE  OwnInv'
    OBVIOUS
  <2> DEFINE Own(us, i) == us[i].name = NoName \/ (us[i].sock # 0 /\ us[i].name.by = us[i].sock)
  <2>1. up = "up" => \A i \in Slot : Own(users, i)
    BY DEF OwnInv, OwnName, Connected
  <2>2. (\A i \in Slot : Own(users', i)) => OwnInv'
    BY DEF OwnInv, OwnName, Connected
  <2>3. CASE Accept
    <3>1. CASE users' = users
      BY <2>1, <2>2, <2>3, <3>1 DEF Accept, Running
    <3>2. CASE users' # users
      <4> DEFINE i == Min({j \in Slot : users[j].sock = 0})
      <4>1. /\ {j \in Slot : users[j].sock = 0} # {}
            /\ users' = [users EXCEPT ![i].sock = accepted', ![i].telnet = accepted']
        BY <2>3, <3>2 DEF Accept
      <4>2. i \in Slot /\ users[i].sock = 0
        <5>1. {j \in Slot : users[j].sock = 0} \in SUBSET Nat
          BY ChatdAssumption DEF Slot
        <5>2. i \in {j \in Slot : users[j].sock = 0}
          BY <4>1, <5>1, MinProperties
        <5> QED
          BY <5>2
      <4> HIDE DEF i
      <4>3. up = "up" /\ users \in [Slot -> User]
        BY <2>3 DEF Accept, Running, IInv, Typed
      <4>4. users[i].name = NoName
        BY <2>1, <4>2, <4>3
      <4>5. users[i] \in User
        BY <4>2, <4>3
      <4>6. users'[i].name = users[i].name
        BY <4>1, <4>2, <4>3, <4>5 DEF User
      <4>7. \A j \in Slot \ {i} : users'[j] = users[j]
        BY <4>1, <4>3
      <4> QED
        BY <2>1, <2>2, <4>3, <4>4, <4>6, <4>7
    <3> QED
      BY <3>1, <3>2
  <2>4. CASE Done \/ (\E i \in Slot : Read(i) \/ RecvFails(i)) \/ \E c \in open : Lose(c)
    BY <2>1, <2>2, <2>4 DEF Done, Read, RecvFails, Lose, Running
  <2>5. CASE Error
    <3> DEFINE i == reading
    <3>1. /\ i \in Slot /\ up = "up" /\ users \in [Slot -> User]
          /\ users' = IF up' = "freed" THEN Leave(users, i) ELSE [users EXCEPT ![i].sock = 0]
          /\ up' # "up"
      BY <2>5 DEF Error, Running, IInv, Typed
    <3>2. \A j \in Slot \ {i} : users'[j] = users[j]
      BY <3>1, CloseProperties, LeaveProperties
    <3>3. users'[i].sock = 0
      BY <3>1, CloseProperties, LeaveProperties
    <3> QED
      BY <2>1, <3>1, <3>2, <3>3 DEF OwnInv, OwnName, Connected
  <2>6. ASSUME NEW i \in Slot, Disconnected(i)
        PROVE  OwnInv'
    <3>1. /\ up = "up" /\ users \in [Slot -> User]
          /\ users' = users \/ users' = Leave(users, i)
      BY <2>6 DEF Disconnected, Running, IInv, Typed
    <3>2. CASE users' = Leave(users, i)
      <4>1. users'[i].name = NoName /\ \A j \in Slot \ {i} : users'[j] = users[j]
        BY <3>1, <3>2, LeaveProperties
      <4> QED
        BY <2>1, <2>2, <3>1, <4>1
    <3> QED
      BY <2>1, <2>2, <3>1, <3>2
  <2>7. ASSUME NEW ch \in Byte, Input(ch), vars' # vars
        PROVE  OwnInv'
    <3> DEFINE i == reading
    <3> DEFINE r == linebuffer_push(users, i, ch)
    <3>1. i \in Slot /\ up = "up" /\ users \in [Slot -> User] /\ users' = r.users
      BY <2>7 DEF Input, Running, IInv, Typed
    <3>2. Moves(users, users', i, r.quit)
      BY <3>1, PushProperties
    <3> HIDE DEF r
    <3>3. users[i].sock # 0
      BY <2>7
    <3>4. Own(users', i)
      BY <2>1, <3>1, <3>2, <3>3 DEF Moves
    <3>5. \A j \in Slot \ {i} : users'[j] = users[j]
      BY <3>2 DEF Moves
    <3> QED
      BY <2>1, <2>2, <3>1, <3>4, <3>5
  <2>8. CASE UNCHANGED vars
    BY <2>8 DEF vars, OwnInv, OwnName, Connected
  <2> QED
    BY <2>3, <2>4, <2>5, <2>6, <2>7, <2>8 DEF Next
<1>3. OwnInv => OwnName
  BY DEF OwnInv
<1> QED
  BY <1>1, <1>2, <1>3, IInvHolds, PTL DEF Spec, NothingAfterQuit

\* LineAsTyped: the buffer holds the line that the client is sending.
THEOREM LineAsTypedHolds == Spec => []LineAsTyped
<1>1. IInv => LineAsTyped
  BY DEF IInv, MeantBuffered, LineAsTyped
<1> QED
  BY <1>1, IInvHolds, PTL

\* TrackersAccounted: the trackers are those of the connected users and of
\* those that quit.
THEOREM TrackersAccountedHolds == Spec => []TrackersAccounted
<1>1. IInv => TrackersAccounted
  BY DEF IInv
<1> QED
  BY <1>1, IInvHolds, PTL

\* SocketsOpen: the descriptors that are open are those of the connected users.
THEOREM SocketsOpenHolds == Spec => []SocketsOpen
<1>1. IInv => SocketsOpen
  BY DEF IInv
<1> QED
  BY <1>1, IInvHolds, PTL

\* ExitsOnLoss: the server exits only when a peer is gone, or to tell of the end
\* of a connection whose user had a name.
THEOREM ExitsOnLossHolds == Spec => []ExitsOnLoss
<1>1. IInv => ExitsOnLoss
  BY DEF IInv
<1> QED
  BY <1>1, IInvHolds, PTL

=============================================================================
