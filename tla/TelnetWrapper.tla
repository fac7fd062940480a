--------------------------- MODULE TelnetWrapper ---------------------------
(***************************************************************************)
(* The TypeScript wrapper: Telnet objects, the static map that routes      *)
(* events to them, the compatibility table, and the blocks of the          *)
(* WebAssembly heap all of them keep pointers to.                          *)
(*                                                                         *)
(* There is one thread.  A method that enters the C code is a frame of the *)
(* stack; the C code may give events, and their listener may call any      *)
(* method, throw, or dispose of any object, before the C code goes on.     *)
(* What the C code does in between is in the other modules.  An            *)
(* application is taken not to call a method of an object it has disposed  *)
(* of, other than dispose() again, and to dispose of its table once.  Once *)
(* memory may have been overwritten nothing more is said.                  *)
(***************************************************************************)
EXTENDS Naturals, Sequences, SequencesExt, Functions

CONSTANTS
    Object,   \* the Telnet objects
    Addr,     \* the addresses malloc() may return
    Null,     \* the pointer 0
    Fails,    \* whether malloc() may fail
    MaxDepth  \* bound: methods on the stack

ASSUME WrapperAssumption ==
    Null \notin Addr /\ "none" \notin Object /\ Fails \in BOOLEAN /\ MaxDepth \in Nat \ {0}

VARIABLES
    heap,     \* the allocated blocks, by address
    object,   \* the Telnet objects
    map,      \* Telnet.map
    table,    \* the CompatibilityTable
    stack,    \* the methods that have entered the C code, the innermost last
    corrupt,  \* memory was written through a pointer that is not valid
    starved   \* malloc() has failed

vars == <<heap, object, map, table, stack, corrupt, starved>>

Init ==
    /\ heap = <<>>
    /\ object = [o \in Object |-> [state |-> "new", pointer |-> Null, misuse |-> {}]]
    /\ map = <<>>
    /\ table = [pointer |-> Null, disposed |-> FALSE]
    /\ stack = <<>>
    /\ corrupt = FALSE
    /\ starved = FALSE

-----------------------------------------------------------------------------
Free == Addr \ DOMAIN heap

With(f, k, v) == [x \in DOMAIN f \cup {k} |-> IF x = k THEN v ELSE f[x]]

Without(f, keys) == Restrict(f, DOMAIN f \ keys)

\* The application or a listener runs, and may call a method.
InScript == ~corrupt /\ (stack # <<>> => Last(stack).target # "none")

\* The C code of the innermost method runs.
InC == ~corrupt /\ stack # <<>> /\ Last(stack).target = "none"

Live(o) == object[o].state = "live"

Tracker(o, q) == [kind |-> "tracker", object |-> o, q |-> q, telopts |-> table.pointer]

Holds(p, kind) == p \in DOMAIN heap /\ heap[p].kind = kind

IsTracker(p) == Holds(p, "tracker")

\* What the C code reads and writes through a pointer to a tracker is there.
Usable(p) ==
    /\ IsTracker(p)
    /\ Holds(heap[p].q, "states")
    /\ heap[p].telopts # Null => Holds(heap[p].telopts, "table")

\* A block for the arguments of a method, and why nobody will free it, if so.
Bytes(leak) == [kind |-> "bytes", leak |-> leak]

Enter(o, blocks) ==
    /\ Len(stack) < MaxDepth
    /\ stack' = Append(stack, [object |-> o, pointer |-> object[o].pointer,
                               blocks |-> blocks, target |-> "none"])

\* An exception leaves the innermost method: what it allocated stays.  So does
\* what a parser of the C code has allocated, which is not in this heap.
Unwind ==
    /\ stack' = Front(stack)
    /\ heap' = [a \in DOMAIN heap |->
           IF a \in Last(stack).blocks THEN Bytes("thrown") ELSE heap[a]]

-----------------------------------------------------------------------------
\* finish() allocates the table; without its test, at every call.
FinishAgain ==
    /\ InScript
    /\ \E a \in Free :
        /\ heap' = With(heap, a, [kind |-> "table"])
        /\ table' = [table EXCEPT !.pointer = a]
    /\ UNCHANGED <<object, map, stack, corrupt, starved>>

Finish ==
    /\ InScript /\ table.pointer = Null
    /\ \E a \in Free :
        /\ heap' = With(heap, a, [kind |-> "table"])
        /\ table' = [table EXCEPT !.pointer = a]
    /\ UNCHANGED <<object, map, stack, corrupt, starved>>

\* dispose() of the table leaves its pointer, in the table and in trackers; of
\* one that was not finished it does nothing.
DisposeTable ==
    /\ InScript /\ table.pointer # Null /\ ~table.disposed
    /\ heap' = Without(heap, {table.pointer})
    /\ table' = [table EXCEPT !.disposed = TRUE]
    /\ UNCHANGED <<object, map, stack, corrupt, starved>>

\* The constructor that registers itself before it has its pointer.
RegisterEarly(o, pointer) == With(map, object[o].pointer, o)

Register(o, pointer) == With(map, pointer, o)

\* telnet_init(): 0 if there is no memory for the tracker; that there is none
\* for the option states goes unnoticed.
Allocated(o) ==
    LET Blocks(a, q) == With(With(heap, a, Tracker(o, q)), q, [kind |-> "states", object |-> o])
    IN  UNION {{[pointer |-> a, blocks |-> Blocks(a, q)] : q \in Free \ {a}} : a \in Free}

AllocatedInPart(o) ==
    {[pointer |-> a, blocks |-> With(heap, a, Tracker(o, Null))] : a \in Free}
        \cup {[pointer |-> Null, blocks |-> heap]}

\* new Telnet(table, flags)
Construct(o) ==
    /\ InScript /\ object[o].state = "new"
    /\ \E whole \in {TRUE} \cup {~Fails} :
       \E t \in IF whole THEN Allocated(o) ELSE AllocatedInPart(o) :
            /\ heap' = t.blocks
            /\ object' = [object EXCEPT ![o] = [@ EXCEPT !.state = "live", !.pointer = t.pointer]]
            /\ map' = Register(o, t.pointer)
            /\ starved' = (starved \/ ~whole)
    /\ UNCHANGED <<table, stack, corrupt>>

\* receive(), send(), subnegotiation() and zmp() put their arguments in a block
\* (zmp() in several), which all but send() free.
Call(o) ==
    /\ InScript /\ Live(o)
    /\ \E a \in Free :
        \/ heap' = With(heap, a, Bytes("none")) /\ Enter(o, {a})
        \/ heap' = With(heap, a, Bytes("sent")) /\ Enter(o, {})
    /\ UNCHANGED <<object, map, table, corrupt, starved>>

\* Only receive() notices that there is no memory, and throws; the others
\* write their arguments at address 0.
CallStarved(o) ==
    /\ InScript /\ Live(o) /\ Fails
    /\ corrupt' \in BOOLEAN
    /\ starved' = TRUE
    /\ UNCHANGED <<heap, object, map, table, stack>>

\* iac(), negotiate() and beginCompress2() allocate nothing here.
CallPlain(o) ==
    /\ InScript /\ Live(o)
    /\ Enter(o, {})
    /\ UNCHANGED <<heap, object, map, table, corrupt, starved>>

\* sendText() copies its text and then throws: Node has no variable "length".  A
\* zmp() whose memory grows under its DataView does the same.
SendText(o) ==
    /\ InScript /\ Live(o)
    /\ \E a \in Free : heap' = With(heap, a, Bytes("sent"))
    /\ UNCHANGED <<object, map, table, stack, corrupt, starved>>

\* A dispose() whose _toFree holds the table.
DisposeWithTable(o) ==
    /\ InScript /\ Live(o) /\ IsTracker(object[o].pointer)
    /\ heap' = Without(heap, {object[o].pointer, heap[object[o].pointer].q, table.pointer})
    /\ object' = [object EXCEPT ![o].state = "disposed"]
    /\ map' = Without(map, {object[o].pointer})
    /\ UNCHANGED <<table, stack, corrupt, starved>>

\* A dispose() that leaves the entry of the map.
DisposeUnmapped(o) ==
    /\ InScript /\ Live(o) /\ IsTracker(object[o].pointer)
    /\ heap' = Without(heap, {object[o].pointer, heap[object[o].pointer].q})
    /\ object' = [object EXCEPT ![o].state = "disposed"]
    /\ UNCHANGED <<map, table, stack, corrupt, starved>>

\* The tracker and its option states are freed; so are its buffer and z_stream,
\* which only the C code reaches and which are no blocks of this heap.
telnet_free(p) == Without(heap, {p, heap[p].q})

\* dispose(): telnet_free() of whatever is at the address now.  _toFree is
\* always empty.
Dispose(o) ==
    LET p == object[o].pointer
        inside == IF \E i \in DOMAIN stack : stack[i].object = o THEN {"inside"} ELSE {}
        again == IF Live(o) THEN {} ELSE {"again"}
        misuse == object[o].misuse \cup inside \cup again
    IN  /\ InScript /\ object[o].state # "new"
        /\ object' = [object EXCEPT ![o] = [@ EXCEPT !.state = "disposed", !.misuse = misuse]]
        /\ map' = Without(map, {p})
        /\ IF IsTracker(p)
             THEN heap' = telnet_free(p) /\ UNCHANGED corrupt
             ELSE corrupt' = TRUE /\ UNCHANGED heap
        /\ UNCHANGED <<table, stack, starved>>

-----------------------------------------------------------------------------
\* An event whose target is not looked at.
EventUnchecked ==
    /\ InC
    /\ LET p == Last(stack).pointer
           target == IF p \in DOMAIN map THEN map[p] ELSE "undefined"
       IN  stack' = [stack EXCEPT ![Len(stack)].target = target]
    /\ UNCHANGED <<heap, object, map, table, corrupt, starved>>

\* generic_event_handler() and route(): the target is who has the pointer now.
Event ==
    /\ InC
    /\ LET p == Last(stack).pointer
       IN  IF p \in DOMAIN map
             THEN stack' = [stack EXCEPT ![Len(stack)].target = map[p]] /\ UNCHANGED heap
             ELSE Unwind
    /\ UNCHANGED <<object, map, table, corrupt, starved>>

ListenerReturns ==
    /\ InScript /\ stack # <<>>
    /\ stack' = [stack EXCEPT ![Len(stack)].target = "none"]
    /\ UNCHANGED <<heap, object, map, table, corrupt, starved>>

\* A listener throws, or emit("error") finds none: the exception goes through
\* the C code to the caller of the method, which may throw it on.
ListenerThrows ==
    /\ InScript /\ stack # <<>>
    /\ Unwind
    /\ UNCHANGED <<object, map, table, corrupt, starved>>

\* The method returns and frees its blocks.
Return ==
    /\ InC
    /\ stack' = Front(stack)
    /\ heap' = Without(heap, Last(stack).blocks)
    /\ UNCHANGED <<object, map, table, corrupt, starved>>

\* The C code writes to a tracker that is no more, or to option states that
\* never were, or looks an option up in what was the table.
Corrupt ==
    /\ InC
    /\ ~Usable(Last(stack).pointer)
    /\ corrupt' = TRUE
    /\ UNCHANGED <<heap, object, map, table, stack, starved>>

Next ==
    \/ Finish \/ DisposeTable
    \/ \E o \in Object :
        Construct(o) \/ Call(o) \/ CallStarved(o) \/ CallPlain(o) \/ SendText(o) \/ Dispose(o)
    \/ Event \/ ListenerReturns \/ ListenerThrows \/ Return \/ Corrupt

Spec == Init /\ [][Next]_vars

-----------------------------------------------------------------------------
\* Frames and pointers are well formed, and only the innermost method's C code
\* runs.
TypeOK ==
    /\ DOMAIN heap \subseteq Addr
    /\ DOMAIN map \subseteq Addr \cup {Null} /\ \A p \in DOMAIN map : map[p] \in Object
    /\ table.pointer \in Addr \cup {Null}
    /\ \A o \in Object : object[o].pointer = Null => object[o].state = "new" \/ starved
    /\ \A i \in DOMAIN stack :
        /\ stack[i].target \in Object \cup {"none"}
        /\ i < Len(stack) => stack[i].target # "none"
        /\ stack[i].blocks \subseteq DOMAIN heap

Misused(m) == \E o \in Object : m \in object[o].misuse

\* However listeners call, throw and dispose, and though addresses are used
\* again, a Telnet object in use has its own tracker, states and entry of the
\* map, and the map has no other entries, as long as no dispose() is repeated.
OwnTracker ==
    ~Misused("again") /\ ~starved =>
        /\ DOMAIN map = {object[o].pointer : o \in {x \in Object : Live(x)}}
        /\ \A o \in Object : Live(o) =>
            LET p == object[o].pointer IN
            /\ map[p] = o
            /\ IsTracker(p) /\ heap[p].object = o
            /\ heap[heap[p].q] = [kind |-> "states", object |-> o]

\* The events of a method reach the object it was called on, or find no target
\* only after a misuse: the object was disposed of inside its own method, or
\* some object twice.
RoutedToOwner ==
    ~starved => \A i \in DOMAIN stack :
        LET f == stack[i] IN
        ~Misused("again") /\ "inside" \notin object[f.object].misuse =>
            /\ f.target \in {"none", f.object}
            /\ f.pointer \in DOMAIN map

\* No block is lost but the buffers of send() and sendText(), and those of
\* methods that an exception went through.
HeapAccounted ==
    \A a \in DOMAIN heap :
        LET b == heap[a] IN
        CASE b.kind = "table" -> a = table.pointer /\ ~table.disposed
          [] b.kind = "tracker" -> Live(b.object)
          [] b.kind = "states" ->
                \E p \in DOMAIN heap : heap[p].kind = "tracker" /\ heap[p].q = a
          [] b.kind = "bytes" /\ b.leak = "none" -> \E i \in DOMAIN stack : a \in stack[i].blocks
          [] OTHER -> TRUE

\* Memory is safe while there is enough of it, the table is not disposed of,
\* and each object is disposed of once and not inside its own methods.
MemorySafe ==
    corrupt => starved \/ table.disposed \/ Misused("inside") \/ Misused("again")

=============================================================================
