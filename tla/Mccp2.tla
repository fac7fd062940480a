------------------------------- MODULE Mccp2 -------------------------------
(***************************************************************************)
(* MCCP2 compression: the z_stream of each state tracker, _send(),         *)
(* telnet_recv() and telnet_begin_compress2(), between two ends that are   *)
(* connected directly or through a proxy that has one tracker for each     *)
(* side and forwards what it gets, as util/telnet-proxy.c does.            *)
(*                                                                         *)
(* A unit is a stretch of the stream that is never cut: a piece of data, a *)
(* NEW-ENVIRON subnegotiation, the marker that starts compression.  zlib   *)
(* is a queue: it gives back in order what went in, unless bytes are       *)
(* missing, which it takes for an error.                                   *)
(***************************************************************************)
EXTENDS Naturals, Sequences, SequencesExt

CONSTANTS
    Node,      \* the trackers
    Peer,      \* the tracker at the other end of the connection
    Twin,      \* the other tracker of a proxy, "none" if the node is no proxy
    Starters,  \* the ends whose application calls telnet_begin_compress2()
    Foreign,   \* the ends that are another program, which may end compression
    Fails,     \* whether memory and zlib may fail
    OutMax,    \* compressed units that fit in deflate_buffer
    InMax,     \* units that fit in inflate_buffer
    ChunkMax,  \* bound: units of a chunk given to telnet_recv()
    MaxSent,   \* bound: units each end sends, for each end
    MaxStarts  \* bound: calls of telnet_begin_compress2()

ASSUME Mccp2Assumption ==
    /\ Peer \in [Node -> Node] /\ \A n \in Node : Peer[n] # n /\ Peer[Peer[n]] = n
    /\ Twin \in [Node -> Node \cup {"none"}] /\ "none" \notin Node
    /\ \A n \in Node : Twin[n] # "none" => Twin[Twin[n]] = n /\ Twin[n] # n
    /\ Starters \cup Foreign \subseteq {n \in Node : Twin[n] = "none"}
    /\ {OutMax, InMax, ChunkMax} \subseteq Nat \ {0} /\ Fails \in BOOLEAN

Marker == [kind |-> "marker"]

End == [kind |-> "end"]

Garbage == [kind |-> "garbage"]

Packed(u) == [kind |-> "packed", unit |-> u]

VARIABLE node \* the state of each tracker and of its application, a record:

Fresh == [
    z |-> "none",       \* telnet->z and TELNET_PFLAG_DEFLATE
    pending |-> <<>>,   \* deflated bytes still inside z
    damaged |-> FALSE,  \* z lacks bytes of the stream it inflates
    told |-> FALSE,     \* the state of the last COMPRESS event
    wire |-> <<>>,      \* sent, and not yet read by the peer
    loop |-> "none",    \* telnet_recv() is in _process() or the inflate() loop
    input |-> <<>>,     \* the rest of the chunk
    batch |-> <<>>,     \* the rest of inflate_buffer
    ended |-> FALSE,    \* rs is Z_STREAM_END
    failed |-> FALSE,   \* an ERROR event was given: the application closes
    crashed |-> FALSE,  \* telnet->z was used after it was freed
    lost |-> {},        \* what made units disappear with no ERROR event
    sent |-> <<>>,      \* what the application sent
    got |-> <<>>,       \* what it got
    starts |-> 0]       \* its calls of telnet_begin_compress2()

Init == node = [n \in Node |-> Fresh]

IsEnd(n) == Twin[n] = "none"

\* An application that gets an ERROR closes its connections, a proxy those of
\* both sides: what is modelled ends there.
Down(r) == r.failed \/ r.crashed

-----------------------------------------------------------------------------
(* The library's functions, from the record of a tracker to the set of its *)
(* possible records afterwards.                                            *)

\* _init_zlib(): z serves one direction for the whole tracker.
InitZlib(r, direction, err_fatal) ==
    LET error == [r EXCEPT !.failed = @ \/ err_fatal]
    IN  IF r.z # "none" THEN {error}
        ELSE {[r EXCEPT !.z = direction]} \cup (IF Fails THEN {error} ELSE {})

\* A loop that gives up what did not fit.
DeflatedOnce(r, units) ==
    LET queue == r.pending \o [i \in DOMAIN units |-> Packed(units[i])]
    IN  [r EXCEPT !.wire = @ \o SubSeq(queue, 1, Min({OutMax, Len(queue)})),
                  !.pending = <<>>]

\* The loop of _send().  deflate() empties full buffers of what it holds first,
\* and then takes all of its input and fills one buffer more.
Deflated(r, units) ==
    LET full == (Len(r.pending) \div OutMax) * OutMax
        queue == r.pending \o [i \in DOMAIN units |-> Packed(units[i])]
        emitted == Min({full + OutMax, Len(queue)})
    IN  [r EXCEPT !.wire = @ \o SubSeq(queue, 1, emitted),
                  !.pending = SubSeq(queue, emitted + 1, Len(queue))]

\* A failure that leaves its backlog.
DeflateFailedFull(r) == [r EXCEPT !.failed = TRUE, !.z = "none"]

\* When deflate() fails z is freed and no COMPRESS event is given.
DeflateFailed(r) == [r EXCEPT !.failed = TRUE, !.z = "none", !.pending = <<>>]

Send(r, units) ==
    IF r.z = "deflate"
      THEN {Deflated(r, units)} \cup (IF Fails THEN {DeflateFailed(r)} ELSE {})
      ELSE {[r EXCEPT !.wire = @ \o units]}

\* telnet_subnegotiation() of the marker in PROXY mode.
SendMarkerAsProxy(r) ==
    UNION {LET started == InitZlib(s, "deflate", TRUE)
           IN  {IF t.z = s.z THEN t ELSE [t EXCEPT !.told = TRUE] : t \in started} :
           s \in Send(r, <<Marker>>)}

\* The marker received.
StartInflating(r) ==
    {IF s.z = r.z THEN s ELSE [s EXCEPT !.told = TRUE] : s \in InitZlib(r, "inflate", TRUE)}

\* An end of the stream that the application is not told of.
StopInflatingSilently(r) == [r EXCEPT !.z = "none", !.damaged = FALSE]

\* The compressed stream is over: z is freed, and a COMPRESS event given.
StopInflating(r) == [r EXCEPT !.z = "none", !.told = FALSE, !.damaged = FALSE]

\* telnet_recv() returns.
Leave(r) == [r EXCEPT !.loop = "none", !.input = <<>>, !.batch = <<>>, !.ended = FALSE]

\* One unit goes to the application of n: an end keeps it, a proxy sends it on
\* the other side.  The marker is looked at after its SUBNEGOTIATION event.
Handled(nodes, n, u) ==
    LET t == Twin[n]
        Forwarded(results) == {[nodes EXCEPT ![t] = s] : s \in results}
        shown == IF u = Marker
                   THEN IF IsEnd(n) THEN {nodes} ELSE Forwarded(SendMarkerAsProxy(nodes[t]))
                 ELSE IF IsEnd(n) THEN {[nodes EXCEPT ![n].got = Append(@, u)]}
                 ELSE Forwarded(Send(nodes[t], <<u>>))
    IN  IF u = Marker
          THEN UNION {{[ns EXCEPT ![n] = s] : s \in StartInflating(ns[n])} : ns \in shown}
          ELSE shown

-----------------------------------------------------------------------------
\* The application of an end sends a message.
AppSend(n, units) ==
    /\ IsEnd(n)
    /\ Len(node[n].sent) + Len(units) <= MaxSent[n]
    /\ \E r \in Send([node[n] EXCEPT !.sent = @ \o units], units) :
            node' = [node EXCEPT ![n] = r]

\* Data in one piece or in a message larger than the buffer, or a variable.
Units(n) ==
    LET k == Len(node[n].sent)
        Numbered(kind, i) == [kind |-> kind, n |-> k + i]
    IN  {<<Numbered("data", 1)>>, <<Numbered("environ", 1)>>,
         [i \in 1 .. OutMax + 1 |-> Numbered("data", i)]}

Starts == MapThenSumSet(LAMBDA n : node[n].starts, Node)

\* The marker sent by _send(), into the stream it announces.
BeginCompress2Packed(n) ==
    /\ n \in Starters
    /\ Starts < MaxStarts
    /\ \E r \in InitZlib(node[n], "deflate", FALSE) :
            node' = [node EXCEPT ![n] =
                IF r.z = node[n].z THEN [r EXCEPT !.starts = @ + 1]
                ELSE [Deflated(r, <<Marker>>) EXCEPT !.starts = @ + 1, !.told = TRUE]]

\* telnet_begin_compress2(): the marker does not go through _send().
BeginCompress2(n) ==
    /\ n \in Starters
    /\ Starts < MaxStarts
    /\ \E r \in InitZlib(node[n], "deflate", FALSE) :
            node' = [node EXCEPT ![n] =
                IF r.z = node[n].z THEN [r EXCEPT !.starts = @ + 1]
                ELSE [r EXCEPT !.starts = @ + 1, !.wire = Append(@, Marker), !.told = TRUE]]

\* The peer is another program and ends the compressed stream, as MCCP2 allows
\* (libtelnet never does).
EndCompression(n) ==
    /\ n \in Foreign
    /\ node[n].z = "deflate"
    /\ node' = [node EXCEPT ![n].wire = @ \o node[n].pending \o <<Packed(End)>>,
                            ![n].pending = <<>>, ![n].z = "none", ![n].told = FALSE]

\* telnet_recv(), with a chunk of what is on the wire.
Recv(n) ==
    /\ \E k \in 1 .. Min({ChunkMax, Len(node[Peer[n]].wire)}) :
            node' = [node EXCEPT
                ![n].loop = IF node[n].z = "inflate" THEN "inflate" ELSE "process",
                ![n].input = SubSeq(node[Peer[n]].wire, 1, k),
                ![Peer[n]].wire = SubSeq(@, k + 1, Len(@))]

\* _process() on plain input.  After a marker, and after a NEW-ENVIRON, the
\* rest of the input goes through telnet_recv() again.
Process(n) ==
    /\ node[n].loop = "process"
    /\ LET u == Head(node[n].input)
           rest == Tail(node[n].input)
           unit == IF u.kind = "packed" THEN Garbage ELSE u
       IN  \E ns \in Handled([node EXCEPT ![n].input = rest], n, unit) :
               node' = [ns EXCEPT ![n].loop =
                   IF rest = <<>> THEN "none" ELSE IF ns[n].z = "inflate" THEN "inflate" ELSE "process"]

\* How far one inflate() gets: to a full buffer, the end of the stream, or a
\* byte that is none of it.
Inflates(r) ==
    LET room == Min({InMax, Len(r.input)})
        stops == {i \in 1 .. room : r.input[i].kind # "packed" \/ r.input[i].unit = End}
    IN  IF stops = {} THEN room ELSE Min(stops)

\* An error that frees z and does not leave the loop.
InflateCallGoesOn(n) ==
    /\ node[n].loop = "inflate" /\ node[n].z = "inflate"
    /\ node[n].batch = <<>> /\ ~node[n].ended /\ node[n].input # <<>>
    /\ node' = [node EXCEPT ![n] = [StopInflating(node[n]) EXCEPT !.failed = TRUE]]

\* inflate() takes what it gives.  Output it still holds when its input is used
\* up (avail_out is reset before the test) comes first at the next call, as
\* that of a chunk that was cut earlier: telnet_recv() may do either, and Recv
\* cuts anywhere.
InflateCall(n) ==
    /\ node[n].loop = "inflate" /\ node[n].z = "inflate"
    /\ node[n].batch = <<>> /\ ~node[n].ended /\ node[n].input # <<>>
    /\ LET r == node[n]
           k == Inflates(r)
           bad == r.damaged \/ r.input[k].kind # "packed"
           ended == ~bad /\ r.input[k].unit = End
           units == [i \in 1 .. (IF ended THEN k - 1 ELSE k) |-> r.input[i].unit]
       IN  node' = [node EXCEPT ![n] =
               IF bad THEN [Leave(StopInflating(r)) EXCEPT !.failed = TRUE]
               ELSE [r EXCEPT !.input = SubSeq(@, k + 1, Len(@)), !.batch = units, !.ended = ended]]

\* _environ_telnet() asks for the rest of inflate_buffer to be reprocessed:
\* telnet_recv() inflates the inflated bytes, with the z_stream in use.  An
\* empty rest leaves no input to the outer loop.  Else inflate() fails on the
\* bytes, or is at its end already, and z is freed; or it takes them for more
\* of the stream.
Reinflated(r) ==
    LET left == r.input # <<>> /\ ~r.ended
        consumed == [r EXCEPT !.input = <<>>, !.batch = <<>>]
        missing == [consumed EXCEPT !.damaged = ~r.ended, !.lost = @ \cup {"environ"}]
        freed == [StopInflating(missing) EXCEPT !.failed = @ \/ ~r.ended]
    IN  IF r.batch = <<>>
          THEN {IF left THEN missing
                ELSE IF r.input # <<>> THEN [consumed EXCEPT !.lost = @ \cup {"end"}]
                ELSE consumed}
        ELSE IF r.ended THEN {freed}
        ELSE {freed, missing}

\* _process() on a unit of inflate_buffer.
ProcessInflated(n) ==
    /\ node[n].batch # <<>>
    /\ LET u == Head(node[n].batch)
       IN  \E ns \in Handled([node EXCEPT ![n].batch = Tail(@)], n, u) :
               IF u.kind = "environ"
                 THEN \E r \in Reinflated(ns[n]) : node' = [ns EXCEPT ![n] = r]
                 ELSE node' = ns

\* The loop goes on with z, whether or not it is still there; it is left when
\* the input is used up or the stream has ended, with the rest of the chunk.
InflateEnds(n) ==
    /\ node[n].loop = "inflate" /\ node[n].batch = <<>>
    /\ node[n].z = "none" \/ node[n].ended \/ node[n].input = <<>>
    /\ LET r == Leave(node[n])
       IN  node' = [node EXCEPT ![n] =
               IF r.z = "none" THEN [r EXCEPT !.crashed = TRUE]
               ELSE IF ~node[n].ended THEN r
               ELSE [StopInflating(r) EXCEPT
                        !.lost = IF node[n].input # <<>> THEN @ \cup {"end"} ELSE @]]

\* A call of telnet_recv() runs to its end before anything else happens: each
\* program has one thread, and what the others do meanwhile they can do before
\* or after, since only queues join them.  A failed call goes on as well.
Idle == \A n \in Node : node[n].loop = "none" /\ ~Down(node[n])

Next ==
    \E n \in Node :
        \/ Idle /\ \E units \in Units(n) : AppSend(n, units)
        \/ Idle /\ BeginCompress2(n)
        \/ Idle /\ EndCompression(n)
        \/ Idle /\ Recv(n)
        \/ Process(n) \/ InflateCall(n) \/ ProcessInflated(n) \/ InflateEnds(n)

Spec == Init /\ [][Next]_node

-----------------------------------------------------------------------------
TypeOK ==
    \A n \in Node : LET r == node[n] IN
        /\ r.z \in {"none", "deflate", "inflate"}
        /\ r.loop \in {"none", "process", "inflate"}
        /\ r.pending # <<>> => r.z = "deflate"
        /\ r.loop = "none" => r.batch = <<>> /\ r.input = <<>> /\ ~r.ended
        /\ r.loop = "process" => r.input # <<>> /\ r.batch = <<>>
        /\ r.loop = "inflate" => r.z # "deflate"

\* The units the receiver of a connection has still to handle, in order.
Coming(n) ==
    LET p == node[Peer[n]] IN node[n].batch \o node[n].input \o p.wire \o p.pending

\* The messages among some units, plain and compressed.
Content(s) ==
    LET message(i) == IF s[i].kind = "packed" THEN s[i].unit ELSE s[i]
        f[i \in 0 .. Len(s)] ==
            IF i = 0 THEN <<>>
            ELSE IF message(i) \in {Marker, End} THEN f[i - 1]
            ELSE Append(f[i - 1], message(i))
    IN  f[Len(s)]

\* On their way to an end, through the proxy if there is one.
InTransit(n) ==
    LET q == Twin[Peer[n]]
    IN  Content(IF q = "none" THEN Coming(n) ELSE Coming(n) \o Coming(q))

Source(n) == IF Twin[Peer[n]] = "none" THEN Peer[n] ELSE Peer[Twin[Peer[n]]]

Path(n) ==
    {n, Peer[n], Source(n)} \cup (IF Twin[Peer[n]] = "none" THEN {} ELSE {Twin[Peer[n]]})

Sound(nodes) == \A m \in nodes : ~Down(node[m]) /\ node[m].lost = {}

\* What an end sends reaches the other end whole, once and in order, plain,
\* compressed or through a compressing proxy, however it is cut into chunks
\* and whenever compression starts, while no ERROR event was given.  Only two
\* things lose data silently: the rest of a chunk in which the stream ends,
\* and NEW-ENVIRON in a compressed stream.
NothingLost ==
    \A n \in Node : IsEnd(n) /\ IsEnd(Source(n)) /\ Sound(Path(n)) =>
        node[n].got \o InTransit(n) = node[Source(n)].sent

\* Compressed bytes are never taken for plain ones, or plain ones for
\* compressed: reading on from where it is, a receiver meets the marker before
\* the first compressed unit and the end of the stream before the next plain
\* one, unless zlib has reported an ERROR or something was lost.
Framed ==
    \A n \in Node :
        LET r == node[n]
            s == r.input \o node[Peer[n]].wire \o node[Peer[n]].pending
            Inflating(i) == \* what z is when s[i] is read
                LET before == {j \in 1 .. i - 1 : s[j] \in {Marker, Packed(End)}}
                IN  IF before = {} THEN r.z = "inflate" /\ ~r.ended ELSE s[Max(before)] = Marker
        IN  Sound({n, Peer[n]}) => \A i \in DOMAIN s : (s[i].kind = "packed") = Inflating(i)

\* The application's idea of compression, from COMPRESS events, is the
\* tracker's, unless it got an ERROR.
ToldTruly ==
    \A n \in Node : node[n].told = (node[n].z # "none") \/ Down(node[n])

\* telnet_recv() does not touch a z_stream that was freed below it, but for
\* NEW-ENVIRON in a compressed stream.
NoUseAfterFree ==
    \A n \in Node : node[n].crashed => "environ" \in node[n].lost

=============================================================================
