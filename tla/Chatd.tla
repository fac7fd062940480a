------------------------------- MODULE Chatd -------------------------------
(***************************************************************************)
(* telnet-chatd: a table of users, the line buffer each slot of it keeps,  *)
(* and the poll loop.  A connection is a number, in the order they were    *)
(* accepted; 0 stands for the socket -1.                                   *)
(*                                                                         *)
(* One read of a socket at a time: a poll that finds several sockets       *)
(* readable reads them one after the other, as several polls would.  The   *)
(* bytes of a chunk are chosen one by one.  The trackers' option states    *)
(* are not kept: a negotiation sends, and changes nothing else here.       *)
(*                                                                         *)
(* A peer may be gone at any time: a send() to it, or a recv() from it,    *)
(* may then fail.  What the memory holds when the process has exited       *)
(* matters to nobody.                                                      *)
(***************************************************************************)
EXTENDS Naturals, Sequences, SequencesExt, FiniteSets

CONSTANTS
    MAX_USERS,        \* slots of the table
    LINEBUFFER_SIZE,  \* bytes of a line buffer
    NameMax,          \* characters of a name
    Char,             \* the bytes that are not CR, LF or NUL
    Quit,             \* the text of a line that says "quit"
    MaxConnections,   \* bound: connections accepted
    MaxUnfinished     \* bound: other slots with a line unfinished during a read

ASSUME ChatdAssumption ==
    /\ {MAX_USERS, LINEBUFFER_SIZE, NameMax, MaxConnections} \subseteq Nat \ {0}
    /\ Char \cap {"CR", "LF", "NUL"} = {} /\ Quit \in Seq(Char)

VARIABLES
    users,     \* the table
    reading,   \* the slot whose chunk is in telnet_recv(), or 0
    accepted,  \* the number of connections
    trackers,  \* the trackers that are allocated, by connection
    quitters,  \* the connections whose user has quit
    open,      \* the connections whose descriptor is open
    broken,    \* the open connections whose peer is gone
    meant,     \* per slot, what the bytes since the last line mean
    up         \* "up", or why the server runs no more

sockets == <<open, broken>>

vars == <<users, reading, accepted, trackers, quitters, sockets, meant, up>>

Slot == 1 .. MAX_USERS

NoName == [text |-> <<>>, by |-> 0]

AtStart == [text |-> <<>>, last |-> "none", blind |-> FALSE]

Init ==
    /\ users = [i \in Slot |-> [sock |-> 0, telnet |-> 0, name |-> NoName, linebuf |-> <<>>]]
    /\ reading = 0 /\ accepted = 0
    /\ trackers = {} /\ quitters = {}
    /\ open = {} /\ broken = {}
    /\ meant = [i \in Slot |-> AtStart]
    /\ up = "up"

-----------------------------------------------------------------------------
\* A _send() that does not look at the socket.
SendUnchecked(socks, fds, gone) ==
    IF ~(socks \subseteq fds) THEN {"exited"}
    ELSE IF socks \cap gone # {} THEN {"up", "exited"}
    ELSE {"up"}

\* What may become of the server by _send() on each of the sockets: nothing on
\* an invalid one; an error, which ends the server, on one that is closed; and
\* on one whose peer is gone an error or an ECONNRESET, which is ignored.
Send(socks, fds, gone) ==
    IF ~(socks \subseteq fds \cup {0}) THEN {"exited"}
    ELSE IF socks \cap gone # {} THEN {"up", "exited"}
    ELSE {"up"}

\* _message() goes to all users that have a socket.
Message(us) == {us[i].sock : i \in {j \in Slot : us[j].sock # 0}}

\* A C string ends at the first NUL.
CString(line) ==
    LET nuls == {k \in DOMAIN line : line[k] = "NUL"}
    IN  IF nuls = {} THEN line ELSE SubSeq(line, 1, Min(nuls) - 1)

\* The name is looked for among connected users only.
InUseConnected(us, text) == \E j \in Slot : us[j].sock # 0 /\ us[j].name.text = text

InUse(us, text) == \E j \in Slot : us[j].name.text = text

\* Leaving without resetting the socket.
LeaveSock(us, i) == [us EXCEPT ![i].name = NoName]

Leave(us, i) == [us EXCEPT ![i].sock = 0, ![i].name = NoName]

\* _online(): a login, "quit" or a message; also of a user who has quit in the
\* same chunk, who then has no socket but may log in again.  "sent" are the
\* sockets that are sent to; a quit closes its own before.
Online(us, i, line) ==
    LET text == CString(line)
        refused == text = <<>> \/ Len(text) > NameMax \/ InUse(us, text)
        named == [us EXCEPT ![i].name = [text |-> text, by |-> us[i].sock]]
        left == Leave(us, i)
    IN  IF us[i].name = NoName
          THEN [users |-> IF refused THEN us ELSE named, sent |-> {us[i].sock}, quit |-> {}]
        ELSE IF text = Quit
          THEN [users |-> left, sent |-> Message(left), quit |-> {us[i].telnet}]
        ELSE [users |-> us, sent |-> Message(us), quit |-> {}]

AfterCr(line) == line # <<>> /\ Last(line) = "CR"

\* NUL as a byte like any other.
BareCrNever(line, ch) == FALSE

\* CR NUL, a CR without a line end.
BareCr(line, ch) == AfterCr(line) /\ ch = "NUL"

\* A buffer that is full one byte late.
RoomLate(line) == Len(line) <= LINEBUFFER_SIZE

Room(line) == Len(line) # LINEBUFFER_SIZE

\* linebuffer_push(): CR LF ends a line, CR NUL is a CR, and so is what is taken
\* for them because a CR ends the buffer.  A full buffer is a line too, without
\* its last byte and without the one that came.
linebuffer_push(us, i, ch) ==
    LET line == us[i].linebuf
        Kept(l) == [users |-> [us EXCEPT ![i].linebuf = l], sent |-> {}, quit |-> {}]
        LineEnds == LET r == Online(us, i, Front(line)) IN [r EXCEPT !.users[i].linebuf = <<>>]
    IN  IF AfterCr(line) /\ ch = "LF" THEN LineEnds
        ELSE IF BareCr(line, ch) THEN Kept(line)
        ELSE IF Room(line) THEN Kept(Append(line, ch))
        ELSE LineEnds

-----------------------------------------------------------------------------
\* What the bytes mean by the protocol: CR LF ends a line and CR NUL is a CR,
\* when that is what was sent.  "blind" says the buffer may differ: after an
\* overflow, after a CR NUL followed by LF or NUL, and after the bytes of
\* another connection; until buffer and sender are both at the start of a line.
Meaning(m, ch, buffer) ==
    LET crlf == m.last = "CR" /\ ch = "LF"
        crnul == m.last = "CR" /\ ch = "NUL"
        blind == \/ m.blind
                 \/ ~crlf /\ ~crnul /\ Len(m.text) = LINEBUFFER_SIZE
                 \/ m.last = "CRNUL" /\ ch \in {"LF", "NUL"}
        last == IF ch = "CR" THEN "CR" ELSE IF crnul /\ ~blind THEN "CRNUL" ELSE "none"
    IN  IF crlf /\ (~blind \/ buffer = <<>>) THEN AtStart
        ELSE IF blind THEN [text |-> <<>>, last |-> last, blind |-> TRUE]
        ELSE [text |-> IF crnul THEN m.text ELSE Append(m.text, ch), last |-> last, blind |-> FALSE]

Running == up = "up"

Connected == {i \in Slot : users[i].sock # 0}

\* A new connection, whose peer may be gone already: the first free slot, with
\* the name and the line that are there.  Without a free slot the client is
\* turned away, and its data written behind the table all the same.
Accept ==
    /\ Running /\ reading = 0 /\ accepted < MaxConnections
    /\ accepted' = accepted + 1
    /\ broken' \in {broken, broken \cup {accepted'}}
    /\ LET free == {i \in Slot : users[i].sock = 0}
           i == Min(free)
           sent == Send({accepted'}, open \cup {accepted'}, broken')
       IN  IF free = {}
             THEN /\ up' \in {IF o = "up" THEN "overrun" ELSE o : o \in sent}
                  /\ UNCHANGED <<users, trackers, open, meant>>
             ELSE /\ users' = [users EXCEPT ![i].sock = accepted', ![i].telnet = accepted']
                  /\ trackers' = trackers \cup {accepted'}
                  /\ open' = open \cup {accepted'}
                  /\ meant' = [meant EXCEPT ![i] =
                                   [AtStart EXCEPT !.blind = users[i].linebuf # <<>>]]
                  /\ up' \in sent
    /\ UNCHANGED <<reading, quitters>>

\* The peer of a connection goes: it crashes, resets it, or is cut off.
Lose(c) ==
    /\ Running /\ c \in open \ broken
    /\ broken' = broken \cup {c}
    /\ UNCHANGED <<users, reading, accepted, trackers, quitters, open, meant, up>>

\* recv() gives a chunk to telnet_recv().
Read(i) ==
    /\ Running /\ reading = 0 /\ users[i].sock # 0
    /\ Cardinality({j \in Slot \ {i} : users[j].linebuf # <<>>}) <= MaxUnfinished
    /\ reading' = i
    /\ UNCHANGED <<users, accepted, trackers, quitters, sockets, meant, up>>

\* recv() fails, which ends the server.
RecvFails(i) ==
    /\ Running /\ reading = 0 /\ users[i].sock \in broken
    /\ up' = "exited"
    /\ UNCHANGED <<users, reading, accepted, trackers, quitters, sockets, meant>>

\* _input(), for the next byte of the chunk.
Input(ch) ==
    /\ Running /\ reading # 0
    /\ LET r == linebuffer_push(users, reading, ch)
       IN  /\ users' = r.users
           /\ quitters' = quitters \cup r.quit
           /\ open' = open \ r.quit /\ broken' = broken \ r.quit
           /\ up' \in Send(r.sent, open', broken')
           /\ meant' = [meant EXCEPT ![reading] = Meaning(@, ch, r.users[reading].linebuf)]
    /\ UNCHANGED <<reading, accepted, trackers>>

\* The end of the chunk: the handler negotiates ECHO, which sends.
Done ==
    /\ Running /\ reading # 0
    /\ up' \in Send({users[reading].sock}, open, broken)
    /\ reading' = IF up' = "up" THEN 0 ELSE reading
    /\ UNCHANGED <<users, accepted, trackers, quitters, sockets, meant>>

\* An ERROR event closes the socket and tells the others, if the user had a
\* name; then it frees the tracker that the library goes on using.
Error ==
    /\ Running /\ reading # 0
    /\ LET i == reading
           closed == [users EXCEPT ![i].sock = 0]
       IN  /\ open' = open \ {users[i].sock} /\ broken' = broken \ {users[i].sock}
           /\ up' \in {IF o = "up" THEN "freed" ELSE o : o \in
                         Send(IF users[i].name = NoName THEN {} ELSE Message(closed), open', broken')}
           /\ users' = IF up' = "freed" THEN Leave(users, i) ELSE closed
           /\ trackers' = IF up' = "freed" THEN trackers \ {users[i].telnet} ELSE trackers
    /\ UNCHANGED <<reading, accepted, quitters, meant>>

\* recv() returns 0: the socket is closed, then all are told that still have one
\* in the table, if the user had a name, and only then it is forgotten.
Told(i) == IF users[i].name = NoName THEN {} ELSE Message(users)

\* A disconnect that keeps the tracker.
DisconnectedKept(i) ==
    /\ Running /\ reading = 0 /\ users[i].sock \in open \ broken
    /\ open' = open \ {users[i].sock}
    /\ up' \in Send(Told(i), open', broken)
    /\ users' = IF up' = "up" THEN Leave(users, i) ELSE users
    /\ UNCHANGED <<reading, accepted, trackers, quitters, broken, meant>>

Disconnected(i) ==
    /\ Running /\ reading = 0 /\ users[i].sock \in open \ broken
    /\ open' = open \ {users[i].sock}
    /\ up' \in Send(Told(i), open', broken)
    /\ users' = IF up' = "up" THEN Leave(users, i) ELSE users
    /\ trackers' = IF up' = "up" THEN trackers \ {users[i].telnet} ELSE trackers
    /\ UNCHANGED <<reading, accepted, quitters, broken, meant>>

Byte == Char \cup {"CR", "LF", "NUL"}

Next ==
    \/ Accept \/ Done \/ Error
    \/ \E i \in Slot : Read(i) \/ RecvFails(i) \/ Disconnected(i)
    \/ \E c \in open : Lose(c)
    \/ \E ch \in Byte : Input(ch)

Spec == Init /\ [][Next]_vars

-----------------------------------------------------------------------------
\* No line buffer is written behind its end, and no socket is in two slots.
TypeOK ==
    /\ \A i \in Slot : users[i].linebuf \in BoundedSeq(Byte, LINEBUFFER_SIZE)
    /\ \A i, j \in Connected : users[i].sock = users[j].sock => i = j
    /\ \A i \in Slot : users[i].sock \in {0, users[i].telnet}
    /\ reading \in Slot \cup {0}

\* No two users have one name, though a slot keeps a name without a connection
\* when a chunk goes on after "quit", and gives it to the next connection.
NamesUnique ==
    \A i, j \in Slot : users[i].name # NoName /\ users[i].name.text = users[j].name.text => i = j

\* A user's name was entered on this connection: "if the user has no name, this
\* is his login" (telnet-chatd.c:141).  But a line after "quit" in the same chunk
\* logs in again, on no connection, and the next connection gets that name, though
\* it is asked to "Enter name" (337).
OwnName == \A i \in Connected : users[i].name = NoName \/ users[i].name.by = users[i].sock

\* No chunk goes on after the "quit" of its user.
NothingAfterQuit == [][\A ch \in Byte : Input(ch) => users[reading].sock # 0]_vars

\* The buffer holds the line that the client is sending, while "meant" can say.
LineAsTyped ==
    \A i \in Slot : meant[i].blind \/ users[i].linebuf = meant[i].text

\* Every tracker belongs to a connected user, but those of users that quit, and
\* every connected user has its own.
TrackersAccounted ==
    up = "up" =>
        /\ \A i \in Connected : users[i].telnet = users[i].sock /\ users[i].telnet \in trackers
        /\ trackers \subseteq {users[i].telnet : i \in Connected} \cup quitters

\* While the server runs, the descriptors that are open are those of the connected
\* users: none stays open behind a user that quit or was lost, and the table
\* names none that is closed, which the next message would be sent to.
SocketsOpen == up = "up" => open = {users[i].sock : i \in Connected}

\* The server exits only when a peer is gone, or to tell of the end of a connection
\* whose user had a name: what clients send, and what is sent to a user that has
\* quit in the middle of a chunk, never ends it while all peers are there.
ExitsOnLoss ==
    up = "exited" =>
        \/ broken # {}
        \/ \E i \in Connected : users[i].name # NoName /\ users[i].sock \notin open

=============================================================================
