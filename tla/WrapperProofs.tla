--------------------------- MODULE WrapperProofs ---------------------------
(***************************************************************************)
(* Proofs about the TypeScript wrapper, for any number of objects and      *)
(* addresses, any depth of calls, and memory that may run out or not.      *)
(***************************************************************************)
EXTENDS TelnetWrapper, SequenceTheorems, TLAPS

Telnet == [state : {"new", "live", "disposed"}, pointer : Addr \cup {Null},
           misuse : SUBSET {"inside", "again"}]

Frame == [object : Object, pointer : Addr \cup {Null}, blocks : SUBSET Addr,
          target : Object \cup {"none"}]

\* The sets the variables are drawn from.
Typed ==
    /\ DOMAIN heap \subseteq Addr
    /\ object \in [Object -> Telnet]
    /\ DOMAIN map \subseteq Addr \cup {Null} /\ \A p \in DOMAIN map : map[p] \in Object
    /\ table \in [pointer : Addr \cup {Null}, disposed : BOOLEAN]
    /\ stack \in Seq(Frame)
    /\ starved \in BOOLEAN /\ corrupt \in BOOLEAN

\* The table is in the heap from finish() to dispose().
TableKept ==
    /\ table.pointer # Null /\ ~table.disposed => Holds(table.pointer, "table")
    /\ table.disposed => table.pointer # Null

\* Every block knows who will free it: a tracker is its object's, states are
\* their tracker's, and so on.
BlocksOwned ==
    \A a \in DOMAIN heap :
        LET b == heap[a] IN
        /\ b.kind \in {"table", "tracker", "states", "bytes"}
        /\ b.kind = "table" => a = table.pointer /\ ~table.disposed
        /\ b.kind = "tracker" =>
            /\ b.object \in Object /\ Live(b.object) /\ object[b.object].pointer = a
            /\ b.q # Null => Holds(b.q, "states") /\ heap[b.q].object = b.object
            /\ ~starved => b.q # Null
            /\ b.telopts \in {Null, table.pointer}
        /\ b.kind = "states" =>
            LET p == object[b.object].pointer IN
            /\ b = [kind |-> "states", object |-> b.object]
            /\ b.object \in Object /\ Live(b.object)
            /\ IsTracker(p) /\ heap[p].q = a
        /\ b.kind = "bytes" /\ b.leak = "none" => \E i \in DOMAIN stack : a \in stack[i].blocks

\* Only the innermost method may be in the C code, and no two methods free the
\* same block.
StackFormed ==
    \A i \in DOMAIN stack :
        /\ i < Len(stack) => stack[i].target # "none"
        /\ \A a \in stack[i].blocks : Holds(a, "bytes")
        /\ \A j \in DOMAIN stack : i # j => stack[i].blocks \cap stack[j].blocks = {}

\* Without a misuse and with memory, objects, map and trackers fit.
Owned ==
    ~Misused("again") /\ ~starved =>
        /\ \A p \in DOMAIN map : Live(map[p]) /\ object[map[p]].pointer = p
        /\ \A o \in Object : Live(o) =>
            LET p == object[o].pointer IN
            /\ p \in DOMAIN map /\ map[p] = o
            /\ IsTracker(p) /\ heap[p].object = o

\* A method runs on its object's tracker, unless the object was disposed of
\* inside.
FramesOwned ==
    ~starved => \A i \in DOMAIN stack :
        LET f == stack[i] IN
        ~Misused("again") /\ "inside" \notin object[f.object].misuse =>
            /\ Live(f.object) /\ f.pointer = object[f.object].pointer
            /\ f.target \in {"none", f.object}

NullOnlyStarved == \A o \in Object : object[o].pointer = Null => object[o].state = "new" \/ starved

IInv ==
    /\ Typed /\ TableKept /\ BlocksOwned /\ StackFormed /\ Owned /\ FramesOwned
    /\ NullOnlyStarved /\ MemorySafe

-----------------------------------------------------------------------------
(* The operators on heap, map and stack.                                   *)

\* The stack without its innermost frame.
LEMMA FrontProperties ==
    ASSUME NEW S, NEW s \in Seq(S), s # <<>>
    PROVE  /\ Len(s) \in Nat \ {0} /\ DOMAIN s = 1 .. Len(s)
           /\ Last(s) = s[Len(s)] /\ Last(s) \in S
           /\ Front(s) \in Seq(S) /\ Len(Front(s)) = Len(s) - 1
           /\ DOMAIN Front(s) = 1 .. Len(s) - 1
           /\ \A i \in 1 .. Len(s) - 1 : Front(s)[i] = s[i]
<1>1. Len(s) \in Nat \ {0} /\ DOMAIN s = 1 .. Len(s) /\ \A i \in 1 .. Len(s) : s[i] \in S
  BY EmptySeq, LenProperties, ElementOfSeq
<1>2. /\ Front(s) \in Seq(S) /\ Len(Front(s)) = Len(s) - 1
      /\ \A i \in 1 .. Len(s) - 1 : Front(s)[i] = s[i]
  BY <1>1, SubSeqProperties DEF Front
<1>3. DOMAIN Front(s) = 1 .. Len(s) - 1
  BY <1>2, LenProperties
<1> QED
  BY <1>1, <1>2, <1>3 DEF Last

\* Where the innermost frame is.
LEMMA LastProperties ==
    ASSUME Typed, stack # <<>>
    PROVE  Len(stack) \in DOMAIN stack /\ Last(stack) = stack[Len(stack)]
<1>1. stack \in Seq(Frame)
  BY DEF Typed
<1>2. Len(stack) \in Nat \ {0} /\ DOMAIN stack = 1 .. Len(stack)
  BY <1>1, EmptySeq, LenProperties
<1> QED
  BY <1>2 DEF Last

\* The stack with another target in its innermost frame.
LEMMA RetargetProperties ==
    ASSUME NEW s \in Seq(Frame), s # <<>>, NEW t \in Object \cup {"none"}
    PROVE  LET r == [s EXCEPT ![Len(s)].target = t]
           IN  /\ r \in Seq(Frame) /\ Len(r) = Len(s) /\ DOMAIN r = DOMAIN s
               /\ DOMAIN s = 1 .. Len(s) /\ Len(s) \in Nat \ {0}
               /\ \A i \in DOMAIN s : /\ r[i].object = s[i].object
                                      /\ r[i].pointer = s[i].pointer
                                      /\ r[i].blocks = s[i].blocks
                                      /\ r[i].target = IF i = Len(s) THEN t ELSE s[i].target
<1> DEFINE n == Len(s)
<1> DEFINE f == [s[n] EXCEPT !.target = t]
<1>1. n \in Nat \ {0} /\ n \in 1 .. n /\ s[n] \in Frame
  BY EmptySeq, ElementOfSeq
<1>2. f \in Frame /\ f.object = s[n].object /\ f.pointer = s[n].pointer
                  /\ f.blocks = s[n].blocks /\ f.target = t
  BY <1>1 DEF Frame
<1>3. /\ [s EXCEPT ![n] = f] \in Seq(Frame) /\ Len([s EXCEPT ![n] = f]) = n
      /\ \A j \in 1 .. n : [s EXCEPT ![n] = f][j] = IF j = n THEN f ELSE s[j]
  BY <1>1, <1>2, ExceptSeq
<1>4. DOMAIN s = 1 .. n /\ DOMAIN [s EXCEPT ![n] = f] = 1 .. n
  BY <1>3, LenProperties
<1>5. [s EXCEPT ![n].target = t] = [s EXCEPT ![n] = f]
  BY <1>1
<1> QED
  BY <1>1, <1>2, <1>3, <1>4, <1>5

\* Every frame is a frame.
LEMMA FramesTyped ==
    ASSUME Typed
    PROVE  /\ Len(stack) \in Nat /\ DOMAIN stack = 1 .. Len(stack)
           /\ \A i \in DOMAIN stack :
                /\ stack[i].object \in Object /\ stack[i].pointer \in Addr \cup {Null}
                /\ stack[i].blocks \subseteq Addr /\ stack[i].target \in Object \cup {"none"}
<1>1. stack \in Seq(Frame)
  BY DEF Typed
<1>2. \A i \in 1 .. Len(stack) : stack[i] \in Frame
  BY <1>1, ElementOfSeq
<1> QED
  BY <1>1, <1>2, LenProperties DEF Frame

\* A method enters the C code.
LEMMA EnterProperties ==
    ASSUME Typed, NEW o \in Object, NEW blocks \in SUBSET Addr, Enter(o, blocks)
    PROVE  /\ stack' \in Seq(Frame) /\ Len(stack') = Len(stack) + 1 /\ Len(stack) \in Nat
           /\ DOMAIN stack = 1 .. Len(stack) /\ DOMAIN stack' = 1 .. Len(stack) + 1
           /\ \A i \in 1 .. Len(stack) : stack'[i] = stack[i]
           /\ LET f == stack'[Len(stack) + 1]
              IN  /\ f.object = o /\ f.pointer = object[o].pointer
                  /\ f.blocks = blocks /\ f.target = "none"
<1> DEFINE f == [object |-> o, pointer |-> object[o].pointer, blocks |-> blocks, target |-> "none"]
<1>1. f \in Frame /\ stack \in Seq(Frame) /\ stack' = Append(stack, f)
  BY DEF Enter, Typed, Frame, Telnet
<1>2. /\ stack' \in Seq(Frame) /\ Len(stack') = Len(stack) + 1
      /\ \A i \in 1 .. Len(stack) : stack'[i] = stack[i]
      /\ stack'[Len(stack) + 1] = f
  BY <1>1, AppendProperties
<1> QED
  BY <1>1, <1>2, LenProperties

-----------------------------------------------------------------------------
(* The steps.                                                              *)

\* finish() puts the table where nothing is, when there is none.
LEMMA FinishStep ==
    ASSUME IInv, Finish
    PROVE  IInv'
<1> USE WrapperAssumption
<1>0. PICK a \in Free :
        /\ heap' = With(heap, a, [kind |-> "table"])
        /\ table' = [table EXCEPT !.pointer = a]
  BY DEF Finish
<1>1. /\ a \in Addr /\ a \notin DOMAIN heap
      /\ DOMAIN heap' = DOMAIN heap \cup {a} /\ heap'[a].kind = "table"
      /\ \A x \in DOMAIN heap : heap'[x] = heap[x]
  BY <1>0 DEF Free, With
<1>2. /\ table.pointer = Null /\ table.disposed = FALSE
      /\ table' = [pointer |-> a, disposed |-> FALSE]
      /\ UNCHANGED <<object, map, stack, corrupt, starved>>
  BY <1>0 DEF Finish, IInv, Typed, TableKept
<1>3. Typed'
  BY <1>1, <1>2 DEF IInv, Typed
<1>4. TableKept'
  BY <1>1, <1>2 DEF TableKept, Holds
<1>5. BlocksOwned'
  BY <1>1, <1>2 DEF IInv, Typed, BlocksOwned, Live, IsTracker, Holds
<1>6. StackFormed'
  BY <1>1, <1>2 DEF IInv, StackFormed, Holds
<1>7. Owned'
  BY <1>1, <1>2 DEF IInv, Owned, Misused, Live, IsTracker, Holds
<1>8. FramesOwned' /\ NullOnlyStarved' /\ MemorySafe'
  BY <1>2 DEF IInv, FramesOwned, NullOnlyStarved, MemorySafe, Misused, Live
<1> QED
  BY <1>3, <1>4, <1>5, <1>6, <1>7, <1>8 DEF IInv

\* dispose() of the table frees it and nothing else.
LEMMA DisposeTableStep ==
    ASSUME IInv, DisposeTable
    PROVE  IInv'
<1>1. /\ DOMAIN heap' = DOMAIN heap \ {table.pointer}
      /\ \A x \in DOMAIN heap' : heap'[x] = heap[x]
  BY DEF DisposeTable, Without, Restrict
<1>2. /\ Holds(table.pointer, "table") /\ table.pointer # Null
      /\ table' = [pointer |-> table.pointer, disposed |-> TRUE]
      /\ UNCHANGED <<object, map, stack, corrupt, starved>>
  BY DEF DisposeTable, IInv, Typed, TableKept
<1>3. Typed' /\ TableKept'
  BY <1>1, <1>2 DEF IInv, Typed, TableKept
<1>4. BlocksOwned'
  BY <1>1, <1>2 DEF IInv, Typed, BlocksOwned, Live, IsTracker, Holds
<1>5. StackFormed'
  BY <1>1, <1>2 DEF IInv, StackFormed, Holds
<1>6. Owned'
  BY <1>1, <1>2 DEF IInv, Owned, Misused, Live, IsTracker, Holds
<1>7. FramesOwned' /\ NullOnlyStarved' /\ MemorySafe'
  BY <1>2 DEF IInv, FramesOwned, NullOnlyStarved, MemorySafe, Misused, Live
<1> QED
  BY <1>3, <1>4, <1>5, <1>6, <1>7 DEF IInv

\* A new object has blocks that nobody has, or a memory that ran out.
LEMMA ConstructStep ==
    ASSUME IInv, NEW o \in Object, Construct(o)
    PROVE  IInv'
<1> USE WrapperAssumption
<1>0. object[o].state = "new" /\ UNCHANGED <<table, stack, corrupt>>
  BY DEF Construct
<1>a. ASSUME NEW p \in Addr \cup {Null},
             object' = [object EXCEPT ![o] = [@ EXCEPT !.state = "live", !.pointer = p]],
             map' = Register(o, p)
      PROVE  /\ object' \in [Object -> Telnet]
             /\ object'[o].state = "live" /\ object'[o].pointer = p
             /\ object'[o].misuse = object[o].misuse
             /\ \A x \in Object : x # o => object'[x] = object[x]
             /\ DOMAIN map' = DOMAIN map \cup {p} /\ map'[p] = o
             /\ \A x \in DOMAIN map : x # p => map'[x] = map[x]
  <2>1. /\ DOMAIN map' = DOMAIN map \cup {p} /\ map'[p] = o
        /\ \A x \in DOMAIN map : x # p => map'[x] = map[x]
    BY <1>a DEF Register, With
  <2> DEFINE r == [object[o] EXCEPT !.state = "live", !.pointer = p]
  <2>2. object \in [Object -> Telnet] /\ object' = [object EXCEPT ![o] = r]
    BY <1>a DEF IInv, Typed
  <2>3. \A x \in Telnet :
          LET y == [x EXCEPT !.state = "live", !.pointer = p]
          IN  y \in Telnet /\ y.state = "live" /\ y.pointer = p /\ y.misuse = x.misuse
    BY DEF Telnet
  <2>4. r \in Telnet /\ r.state = "live" /\ r.pointer = p /\ r.misuse = object[o].misuse
    BY <2>2, <2>3
  <2> HIDE DEF r
  <2>5. /\ object' \in [Object -> Telnet] /\ object'[o] = r
        /\ \A x \in Object : x # o => object'[x] = object[x]
    BY <2>2, <2>4
  <2> QED
    BY <2>1, <2>4, <2>5
<1>1. CASE \E t \in Allocated(o) :
            /\ heap' = t.blocks
            /\ object' = [object EXCEPT ![o] = [@ EXCEPT !.state = "live", !.pointer = t.pointer]]
            /\ map' = Register(o, t.pointer)
            /\ UNCHANGED starved
  <2> DEFINE Tr(a, q) == [kind |-> "tracker", object |-> o, q |-> q, telopts |-> table.pointer]
  <2> DEFINE St == [kind |-> "states", object |-> o]
  <2>1. PICK a \in Free, q \in Free :
            /\ a # q
            /\ heap' = With(With(heap, a, Tr(a, q)), q, St)
            /\ object' = [object EXCEPT ![o] = [@ EXCEPT !.state = "live", !.pointer = a]]
            /\ map' = Register(o, a)
            /\ UNCHANGED starved
    <3>1. PICK t \in Allocated(o) :
              /\ heap' = t.blocks
              /\ object' = [object EXCEPT ![o] = [@ EXCEPT !.state = "live", !.pointer = t.pointer]]
              /\ map' = Register(o, t.pointer)
              /\ UNCHANGED starved
      BY <1>1
    <3>2. PICK a \in Free, q \in Free :
              a # q /\ t = [pointer |-> a, blocks |-> With(With(heap, a, Tr(a, q)), q, St)]
      BY <3>1 DEF Allocated, Tracker
    <3> QED
      BY <3>1, <3>2
  <2> HIDE DEF Tr, St
  <2>2. /\ {a, q} \subseteq Addr /\ a # q /\ a \notin DOMAIN heap /\ q \notin DOMAIN heap
        /\ DOMAIN heap' = DOMAIN heap \cup {a, q}
        /\ heap'[a] = Tr(a, q) /\ heap'[q] = St
        /\ \A x \in DOMAIN heap : heap'[x] = heap[x]
    <3> DEFINE h == With(heap, a, Tr(a, q))
    <3>1. /\ DOMAIN h = DOMAIN heap \cup {a} /\ h[a] = Tr(a, q)
          /\ \A x \in DOMAIN heap : x # a => h[x] = heap[x]
      BY DEF With
    <3>2. /\ DOMAIN heap' = DOMAIN h \cup {q} /\ heap'[q] = St
          /\ \A x \in DOMAIN h : x # q => heap'[x] = h[x]
      <4> HIDE DEF h
      <4> QED BY <2>1 DEF h, With
    <3> QED
      BY <2>1, <3>1, <3>2 DEF Free
  <2>3. /\ object' \in [Object -> Telnet]
        /\ object'[o].state = "live" /\ object'[o].pointer = a
        /\ object'[o].misuse = object[o].misuse
        /\ \A x \in Object : x # o => object'[x] = object[x]
        /\ DOMAIN map' = DOMAIN map \cup {a} /\ map'[a] = o
        /\ \A x \in DOMAIN map : x # a => map'[x] = map[x]
    BY <2>1, <2>2, <1>a, ZenonT(60)
  <2>4. starved' = starved
    BY <2>1
  <2>5. Typed'
    BY <2>2, <2>3, <2>4, <1>0 DEF IInv, Typed
  <2>6. TableKept'
    BY <2>2, <1>0 DEF IInv, TableKept, Holds
  <2>7. BlocksOwned'
    BY <2>2, <2>3, <2>4, <1>0 DEF IInv, Typed, BlocksOwned, Live, IsTracker, Holds, Tr, St
  <2>8. StackFormed'
    BY <2>2, <1>0 DEF IInv, StackFormed, Holds
  <2>9. Owned'
    BY <2>2, <2>3, <2>4, <1>0 DEF IInv, Typed, Owned, Misused, Live, IsTracker, Holds, Tr
  <2>10. FramesOwned'
    <3>1. \A i \in DOMAIN stack : stack[i].object \in Object
      BY FramesTyped DEF IInv
    <3>2. Misused("again")' = Misused("again")
      BY <2>3 DEF Misused
    <3> QED
      BY <3>1, <3>2, <2>3, <2>4, <1>0 DEF IInv, FramesOwned, Live
  <2>11. NullOnlyStarved' /\ MemorySafe'
    BY <2>2, <2>3, <2>4, <1>0 DEF IInv, NullOnlyStarved, MemorySafe, Misused
  <2> QED
    BY <2>5, <2>6, <2>7, <2>8, <2>9, <2>10, <2>11 DEF IInv
<1>2. CASE /\ starved' = TRUE
           /\ \E t \in AllocatedInPart(o) :
                /\ heap' = t.blocks
                /\ object' = [object EXCEPT ![o] = [@ EXCEPT !.state = "live", !.pointer = t.pointer]]
                /\ map' = Register(o, t.pointer)
  <2>1. CASE /\ heap' = heap
             /\ object' = [object EXCEPT ![o] = [@ EXCEPT !.state = "live", !.pointer = Null]]
             /\ map' = Register(o, Null)
    <3>1. /\ object' \in [Object -> Telnet]
          /\ object'[o].state = "live"
          /\ \A x \in Object : x # o => object'[x] = object[x]
          /\ DOMAIN map' = DOMAIN map \cup {Null} /\ map'[Null] = o
          /\ \A x \in DOMAIN map : x # Null => map'[x] = map[x]
      BY <2>1, <1>a, ZenonT(60)
    <3>2. Typed' /\ TableKept' /\ StackFormed'
      BY <3>1, <2>1, <1>2, <1>0 DEF IInv, Typed, TableKept, StackFormed, Holds
    <3>3. BlocksOwned'
      BY <3>1, <2>1, <1>2, <1>0, ZenonT(60) DEF IInv, BlocksOwned, Live, IsTracker, Holds
    <3>4. Owned' /\ FramesOwned' /\ NullOnlyStarved' /\ MemorySafe'
      BY <1>2 DEF Owned, FramesOwned, NullOnlyStarved, MemorySafe
    <3> QED
      BY <3>2, <3>3, <3>4 DEF IInv
  <2>2. ASSUME NEW a \in Free,
               heap' = With(heap, a, Tracker(o, Null)),
               object' = [object EXCEPT ![o] = [@ EXCEPT !.state = "live", !.pointer = a]],
               map' = Register(o, a)
        PROVE  IInv'
    <3> DEFINE Tr == [kind |-> "tracker", object |-> o, q |-> Null, telopts |-> table.pointer]
    <3> HIDE DEF Tr
    <3>1. heap' = With(heap, a, Tr)
      BY <2>2 DEF Tracker, Tr
    <3>2. /\ a \in Addr /\ a \notin DOMAIN heap
          /\ DOMAIN heap' = DOMAIN heap \cup {a} /\ heap'[a] = Tr
          /\ \A x \in DOMAIN heap : heap'[x] = heap[x]
      BY <3>1 DEF Free, With
    <3>3. /\ object' \in [Object -> Telnet]
          /\ object'[o].state = "live" /\ object'[o].pointer = a
          /\ \A x \in Object : x # o => object'[x] = object[x]
          /\ DOMAIN map' = DOMAIN map \cup {a} /\ map'[a] = o
          /\ \A x \in DOMAIN map : x # a => map'[x] = map[x]
      BY <2>2, <3>2, <1>a
    <3>4. Typed'
      BY <3>2, <3>3, <1>2, <1>0 DEF IInv, Typed
    <3>5. TableKept' /\ StackFormed'
      BY <3>2, <1>0 DEF IInv, TableKept, StackFormed, Holds
    <3>6. BlocksOwned'
      BY <3>2, <3>3, <1>2, <1>0, SMTT(30) DEF IInv, Typed, BlocksOwned, Live, IsTracker, Holds, Tr
    <3>7. Owned' /\ FramesOwned' /\ NullOnlyStarved' /\ MemorySafe'
      BY <1>2 DEF Owned, FramesOwned, NullOnlyStarved, MemorySafe
    <3> QED
      BY <3>4, <3>5, <3>6, <3>7 DEF IInv
  <2> QED
    <3>1. PICK t \in AllocatedInPart(o) :
              /\ heap' = t.blocks
              /\ object' = [object EXCEPT ![o] = [@ EXCEPT !.state = "live", !.pointer = t.pointer]]
              /\ map' = Register(o, t.pointer)
      BY <1>2
    <3>2. \/ t = [pointer |-> Null, blocks |-> heap]
          \/ \E a \in Free : t = [pointer |-> a, blocks |-> With(heap, a, Tracker(o, Null))]
      BY <3>1 DEF AllocatedInPart
    <3>3. CASE t = [pointer |-> Null, blocks |-> heap]
      BY <3>1, <3>3, <2>1
    <3>4. ASSUME NEW a \in Free, t = [pointer |-> a, blocks |-> With(heap, a, Tracker(o, Null))]
          PROVE  IInv'
      BY <3>1, <3>4, <2>2
    <3> QED
      BY <3>2, <3>3, <3>4
<1>3. starved \in BOOLEAN
  BY DEF IInv, Typed
<1> QED
  BY <1>1, <1>2, <1>3 DEF Construct

\* A method enters the C code, on its object's tracker, with new blocks that
\* are its own or lost.
LEMMA EnterStep ==
    ASSUME IInv, InScript, NEW o \in Object, Live(o),
           NEW blocks \in SUBSET Addr, NEW added \in SUBSET Free, blocks \subseteq added,
           Enter(o, blocks),
           DOMAIN heap' = DOMAIN heap \cup added,
           \A a \in added : heap'[a].kind = "bytes" /\ (heap'[a].leak = "none" => a \in blocks),
           \A a \in DOMAIN heap : heap'[a] = heap[a],
           UNCHANGED <<object, map, table, corrupt, starved>>
    PROVE  IInv'
<1> DEFINE n == Len(stack)
<1>1. /\ stack' \in Seq(Frame) /\ DOMAIN stack = 1 .. n /\ DOMAIN stack' = 1 .. n + 1
      /\ n \in Nat /\ Len(stack') = n + 1
      /\ \A i \in 1 .. n : stack'[i] = stack[i]
      /\ stack'[n + 1].object = o /\ stack'[n + 1].pointer = object[o].pointer
      /\ stack'[n + 1].blocks = blocks /\ stack'[n + 1].target = "none"
  <2>1. Typed
    BY DEF IInv
  <2> QED
    BY <2>1, EnterProperties
<1>2. added \cap DOMAIN heap = {} /\ added \subseteq Addr
  BY DEF Free
<1>3. n # 0 => stack[n].target # "none"
  BY FramesTyped, EmptySeq DEF InScript, Last, IInv, Typed
<1>4. Typed' /\ TableKept'
  BY <1>1, <1>2 DEF IInv, Typed, TableKept, Holds
<1>5. BlocksOwned'
  BY <1>1, <1>2 DEF IInv, BlocksOwned, Live, IsTracker, Holds
<1>6. StackFormed'
  BY <1>1, <1>2, <1>3 DEF IInv, StackFormed, Holds
<1>7. Owned'
  BY <1>1 DEF IInv, Owned, Misused, Live, IsTracker, Holds
<1>8. FramesOwned'
  BY <1>1 DEF IInv, FramesOwned, Misused, Live
<1>9. NullOnlyStarved' /\ MemorySafe'
  BY DEF IInv, NullOnlyStarved, MemorySafe, Misused
<1> QED
  BY <1>4, <1>5, <1>6, <1>7, <1>8, <1>9 DEF IInv

\* receive(), send() and the like, and those without a block.
LEMMA CallStep ==
    ASSUME IInv, NEW o \in Object, Call(o) \/ CallPlain(o)
    PROVE  IInv'
<1>1. ASSUME NEW a \in Free, NEW leak, heap' = With(heap, a, Bytes(leak))
      PROVE  /\ DOMAIN heap' = DOMAIN heap \cup {a} /\ heap'[a] = Bytes(leak)
             /\ \A x \in DOMAIN heap : heap'[x] = heap[x]
  BY <1>1 DEF Free, With
<1>2. ASSUME NEW a \in Free, heap' = With(heap, a, Bytes("none")), Enter(o, {a}),
             InScript, Live(o), UNCHANGED <<object, map, table, corrupt, starved>>
      PROVE  IInv'
  <2>1. /\ DOMAIN heap' = DOMAIN heap \cup {a} /\ heap'[a] = Bytes("none")
        /\ \A x \in DOMAIN heap : heap'[x] = heap[x]
    BY <1>1, <1>2
  <2> QED
    BY <2>1, <1>2, EnterStep DEF Bytes, Free
<1>3. ASSUME NEW a \in Free, heap' = With(heap, a, Bytes("sent")), Enter(o, {}),
             InScript, Live(o), UNCHANGED <<object, map, table, corrupt, starved>>
      PROVE  IInv'
  <2>1. /\ DOMAIN heap' = DOMAIN heap \cup {a} /\ heap'[a] = Bytes("sent")
        /\ \A x \in DOMAIN heap : heap'[x] = heap[x]
    BY <1>1, <1>3
  <2>2. PICK blocks \in SUBSET Addr, added \in SUBSET Free : blocks = {} /\ added = {a}
    OBVIOUS
  <2>3. /\ DOMAIN heap' = DOMAIN heap \cup added /\ blocks \subseteq added
        /\ \A x \in added : heap'[x].kind = "bytes" /\ (heap'[x].leak = "none" => x \in blocks)
    BY <2>1, <2>2 DEF Bytes
  <2>4. Enter(o, blocks)
    BY <1>3, <2>2
  <2> QED
    BY <2>1, <2>3, <2>4, <1>3, EnterStep
<1>4. CASE CallPlain(o)
  <2>1. DOMAIN heap' = DOMAIN heap \cup {} /\ UNCHANGED <<heap, object, map, table, corrupt, starved>>
    BY <1>4 DEF CallPlain
  <2> QED
    BY <2>1, <1>4, EnterStep DEF CallPlain
<1> QED
  BY <1>2, <1>3, <1>4 DEF Call

\* A method that throws leaves a block and nothing else.
LEMMA SendTextStep ==
    ASSUME IInv, NEW o \in Object, SendText(o)
    PROVE  IInv'
<1>1. PICK a \in Free : heap' = With(heap, a, Bytes("sent"))
  BY DEF SendText
<1>2. /\ a \in Addr /\ a \notin DOMAIN heap
      /\ DOMAIN heap' = DOMAIN heap \cup {a}
      /\ heap'[a].kind = "bytes" /\ heap'[a].leak = "sent"
      /\ \A x \in DOMAIN heap : heap'[x] = heap[x]
  BY <1>1 DEF Free, With, Bytes
<1>3. UNCHANGED <<object, map, table, stack, corrupt, starved>>
  BY DEF SendText
<1>4. Typed' /\ TableKept' /\ StackFormed'
  BY <1>2, <1>3 DEF IInv, Typed, TableKept, StackFormed, Holds
<1>5. BlocksOwned'
  BY <1>2, <1>3 DEF IInv, BlocksOwned, Live, IsTracker, Holds
<1>6. Owned'
  BY <1>2, <1>3 DEF IInv, Owned, Misused, Live, IsTracker, Holds
<1>7. FramesOwned' /\ NullOnlyStarved' /\ MemorySafe'
  BY <1>3 DEF IInv, FramesOwned, NullOnlyStarved, MemorySafe, Misused, Live
<1> QED
  BY <1>4, <1>5, <1>6, <1>7 DEF IInv

\* A method without memory only ends what can be said.
LEMMA CallStarvedStep ==
    ASSUME IInv, NEW o \in Object, CallStarved(o)
    PROVE  IInv'
<1>1. /\ UNCHANGED <<heap, object, map, table, stack>> /\ starved' = TRUE /\ corrupt' \in BOOLEAN
  BY DEF CallStarved
<1>2. Typed' /\ TableKept' /\ StackFormed'
  BY <1>1 DEF IInv, Typed, TableKept, StackFormed, Holds
<1>3. BlocksOwned'
  BY <1>1 DEF IInv, BlocksOwned, Live, IsTracker, Holds
<1>4. Owned' /\ FramesOwned' /\ NullOnlyStarved' /\ MemorySafe'
  BY <1>1 DEF Owned, FramesOwned, NullOnlyStarved, MemorySafe
<1> QED
  BY <1>2, <1>3, <1>4 DEF IInv

\* dispose(): the tracker at the object's address, and its states, are freed;
\* they are the object's own when this is the first time.
LEMMA DisposeStep ==
    ASSUME IInv, NEW o \in Object, Dispose(o)
    PROVE  IInv'
<1> USE WrapperAssumption
<1> DEFINE p == object[o].pointer
<1> DEFINE inside == IF \E i \in DOMAIN stack : stack[i].object = o THEN {"inside"} ELSE {}
<1> DEFINE again == IF Live(o) THEN {} ELSE {"again"}
<1>1. /\ UNCHANGED <<table, stack, starved>> /\ corrupt = FALSE
      /\ object[o] \in Telnet /\ object[o].state # "new" /\ object \in [Object -> Telnet]
  BY DEF Dispose, InScript, IInv, Typed
<1>2. /\ object' \in [Object -> Telnet]
      /\ object'[o].state = "disposed" /\ object'[o].pointer = p
      /\ object'[o].misuse = object[o].misuse \cup inside \cup again
      /\ \A x \in Object : x # o => object'[x] = object[x]
  <2> DEFINE m == object[o].misuse \cup inside \cup again
  <2> DEFINE r == [object[o] EXCEPT !.state = "disposed", !.misuse = m]
  <2>1. m \in SUBSET {"inside", "again"}
    BY <1>1 DEF Telnet
  <2>2. object' = [object EXCEPT ![o] = r]
    BY DEF Dispose
  <2> HIDE DEF m
  <2>3. \A x \in Telnet :
          LET y == [x EXCEPT !.state = "disposed", !.misuse = m]
          IN  y \in Telnet /\ y.state = "disposed" /\ y.pointer = x.pointer /\ y.misuse = m
    BY <2>1 DEF Telnet
  <2>4. r \in Telnet /\ r.state = "disposed" /\ r.pointer = p /\ r.misuse = m
    BY <2>3, <1>1
  <2> HIDE DEF r
  <2>5. /\ object' \in [Object -> Telnet] /\ object'[o] = r
        /\ \A x \in Object : x # o => object'[x] = object[x]
    BY <2>2, <2>4, <1>1
  <2> QED
    BY <2>4, <2>5 DEF m
<1>3. DOMAIN map' = DOMAIN map \ {p} /\ \A x \in DOMAIN map' : map'[x] = map[x]
  BY DEF Dispose, Without, Restrict
<1>6. FramesOwned'
  <2>1. \A i \in DOMAIN stack : stack[i].object \in Object
    BY FramesTyped DEF IInv
  <2>2. Misused("again") => Misused("again")'
    BY <1>2 DEF Misused
  <2>3. \A i \in DOMAIN stack : stack[i].object = o => "inside" \in object'[o].misuse
    BY <1>2
  <2> QED
    BY <1>1, <1>2, <2>1, <2>2, <2>3 DEF IInv, FramesOwned, Live
<1>4. CASE IsTracker(p)
  <2> DEFINE q == heap[p].q
  <2>1. /\ DOMAIN heap' = DOMAIN heap \ {p, q} /\ \A x \in DOMAIN heap' : heap'[x] = heap[x]
        /\ corrupt' = FALSE
    BY <1>4, <1>1 DEF Dispose, telnet_free, Without, Restrict
  <2>2. /\ heap[p].object \in Object /\ object[heap[p].object].pointer = p
        /\ q # Null => Holds(q, "states")
        /\ q \in DOMAIN heap => Holds(q, "states") /\ heap[q].object = heap[p].object
    BY <1>4 DEF IInv, Typed, BlocksOwned, IsTracker, Holds
  <2>3. Typed' /\ TableKept'
    BY <1>1, <1>2, <1>3, <1>4, <2>1, <2>2 DEF IInv, Typed, TableKept, Holds, IsTracker
  <2>4. StackFormed'
    BY <1>1, <1>4, <2>1, <2>2 DEF IInv, StackFormed, Holds, IsTracker
  <2>5. BlocksOwned'
    BY <1>1, <1>2, <1>4, <2>1, <2>2, SMTT(30) DEF IInv, Typed, BlocksOwned, Live, IsTracker, Holds
  <2>6. Owned'
    BY <1>1, <1>2, <1>3, <1>4, <2>1, <2>2 DEF IInv, Typed, Owned, Misused, Live, IsTracker, Holds
  <2>7. FramesOwned'
    BY <1>6
  <2>8. NullOnlyStarved' /\ MemorySafe'
    BY <1>1, <1>2, <2>1 DEF IInv, NullOnlyStarved, MemorySafe
  <2> QED
    BY <2>3, <2>4, <2>5, <2>6, <2>7, <2>8 DEF IInv
<1>5. CASE ~IsTracker(p)
  <2>1. heap' = heap /\ corrupt' = TRUE
    BY <1>5 DEF Dispose
  <2>2. starved \/ Misused("again")'
    BY <1>1, <1>2, <1>5, <2>1 DEF IInv, Owned, Misused, Live
  <2>3. Typed' /\ TableKept' /\ StackFormed'
    BY <1>1, <1>2, <1>3, <2>1 DEF IInv, Typed, TableKept, StackFormed, Holds
  <2>4. BlocksOwned'
    BY <1>1, <1>2, <1>5, <2>1 DEF IInv, Typed, BlocksOwned, Live, IsTracker, Holds
  <2>5. Owned'
    BY <1>1, <2>2 DEF Owned
  <2>6. NullOnlyStarved' /\ MemorySafe'
    BY <1>1, <1>2, <2>2 DEF IInv, NullOnlyStarved, MemorySafe
  <2> QED
    BY <1>6, <2>3, <2>4, <2>5, <2>6 DEF IInv
<1> QED
  BY <1>4, <1>5

\* The innermost method goes away; its blocks are freed, or lost.
LEMMA PopStep ==
    ASSUME IInv, stack # <<>>, stack' = Front(stack),
           DOMAIN heap' \subseteq DOMAIN heap,
           DOMAIN heap \ Last(stack).blocks \subseteq DOMAIN heap',
           \A a \in DOMAIN heap' \cap Last(stack).blocks : heap'[a] = Bytes("thrown"),
           \A a \in DOMAIN heap \ Last(stack).blocks : heap'[a] = heap[a],
           UNCHANGED <<object, map, table, corrupt, starved>>
    PROVE  IInv'
<1> DEFINE n == Len(stack)
<1>1. /\ n \in Nat \ {0} /\ DOMAIN stack = 1 .. n
      /\ stack' \in Seq(Frame) /\ Len(stack') = n - 1 /\ DOMAIN stack' = 1 .. n - 1
      /\ \A i \in 1 .. n - 1 : stack'[i] = stack[i]
      /\ Last(stack) = stack[n]
  BY FrontProperties DEF IInv, Typed
<1>2. \A a \in stack[n].blocks : Holds(a, "bytes")
  BY <1>1 DEF IInv, StackFormed
<1>3. \A a \in stack[n].blocks : \A i \in 1 .. n - 1 : a \notin stack[i].blocks
  BY <1>1 DEF IInv, StackFormed
<1>4. \A a \in DOMAIN heap :
        heap[a].kind # "bytes" => a \in DOMAIN heap' /\ heap'[a] = heap[a]
  BY <1>1, <1>2 DEF Holds
<1>5. \A a \in DOMAIN heap' :
        \/ heap'[a] = heap[a] /\ a \notin stack[n].blocks
        \/ heap'[a].kind = "bytes" /\ heap'[a].leak = "thrown"
  BY <1>1 DEF Bytes
<1>6. Typed' /\ TableKept'
  BY <1>1, <1>4 DEF IInv, Typed, TableKept, Holds
<1>7. BlocksOwned'
  <2> SUFFICES ASSUME NEW a \in DOMAIN heap'
               PROVE  BlocksOwned!(a)'
    BY DEF BlocksOwned
  <2>1. CASE heap'[a].kind = "bytes" /\ heap'[a].leak = "thrown"
    BY <2>1
  <2>2. CASE heap'[a] = heap[a] /\ a \notin stack[n].blocks
    BY <1>1, <1>4, <2>2 DEF IInv, BlocksOwned, Live, IsTracker, Holds
  <2> QED
    BY <1>5, <2>1, <2>2
<1>8. StackFormed'
  BY <1>1, <1>3 DEF IInv, StackFormed, Holds
<1>9. Owned'
  BY <1>4 DEF IInv, Owned, Misused, Live, IsTracker, Holds
<1>10. FramesOwned' /\ NullOnlyStarved' /\ MemorySafe'
  BY <1>1 DEF IInv, FramesOwned, NullOnlyStarved, MemorySafe, Misused, Live
<1> QED
  BY <1>6, <1>7, <1>8, <1>9, <1>10 DEF IInv

\* An exception goes through the C code, or a method returns.
LEMMA UnwindStep ==
    ASSUME IInv, stack # <<>>, Unwind \/ Return, UNCHANGED <<object, map, table, corrupt, starved>>
    PROVE  IInv'
<1>1. CASE Unwind
  <2>1. /\ DOMAIN heap' = DOMAIN heap /\ stack' = Front(stack)
        /\ \A a \in DOMAIN heap :
             heap'[a] = IF a \in Last(stack).blocks THEN Bytes("thrown") ELSE heap[a]
    BY <1>1 DEF Unwind
  <2> QED
    BY <2>1, PopStep
<1>2. CASE Return
  <2>1. /\ DOMAIN heap' = DOMAIN heap \ Last(stack).blocks /\ stack' = Front(stack)
        /\ \A a \in DOMAIN heap' : heap'[a] = heap[a]
    BY <1>2 DEF Return, Without, Restrict
  <2> QED
    BY <2>1, PopStep
<1> QED
  BY <1>1, <1>2

\* An event goes to the listener of its object, or a listener ends.
LEMMA RetargetStep ==
    ASSUME IInv, stack # <<>>, NEW t \in Object \cup {"none"},
           stack' = [stack EXCEPT ![Len(stack)].target = t],
           ~starved /\ ~Misused("again") /\ "inside" \notin object[Last(stack).object].misuse =>
               t \in {"none", Last(stack).object},
           UNCHANGED <<heap, object, map, table, corrupt, starved>>
    PROVE  IInv'
<1> DEFINE n == Len(stack)
<1>1. stack \in Seq(Frame)
  BY DEF IInv, Typed
<1>2. /\ stack' \in Seq(Frame) /\ Len(stack') = n /\ DOMAIN stack' = DOMAIN stack
      /\ DOMAIN stack = 1 .. n /\ n \in Nat \ {0}
      /\ \A i \in DOMAIN stack : /\ stack'[i].object = stack[i].object
                                 /\ stack'[i].pointer = stack[i].pointer
                                 /\ stack'[i].blocks = stack[i].blocks
                                 /\ stack'[i].target = IF i = n THEN t ELSE stack[i].target
  BY <1>1, RetargetProperties, SMTT(30)
<1>3. Typed' /\ TableKept' /\ StackFormed'
  BY <1>2 DEF IInv, Typed, TableKept, StackFormed, Holds
<1>4. BlocksOwned'
  BY <1>2 DEF IInv, BlocksOwned, Live, IsTracker, Holds
<1>5. Owned' /\ NullOnlyStarved' /\ MemorySafe'
  BY DEF IInv, Owned, NullOnlyStarved, MemorySafe, Misused, Live, IsTracker, Holds
<1>6. FramesOwned'
  BY <1>2 DEF IInv, FramesOwned, Misused, Live, Last
<1> QED
  BY <1>3, <1>4, <1>5, <1>6 DEF IInv

\* generic_event_handler(): the object that has the tracker's address is the one
\* whose method runs.
LEMMA EventStep ==
    ASSUME IInv, Event
    PROVE  IInv'
<1> DEFINE f == Last(stack)
<1>1. stack # <<>> /\ UNCHANGED <<object, map, table, corrupt, starved>>
  BY DEF Event, InC
<1>2. CASE f.pointer \in DOMAIN map
  <2>1. /\ stack' = [stack EXCEPT ![Len(stack)].target = map[f.pointer]] /\ heap' = heap
    BY <1>2 DEF Event
  <2>2. map[f.pointer] \in Object
    BY <1>2 DEF IInv, Typed
  <2>3. Len(stack) \in DOMAIN stack /\ f = stack[Len(stack)]
    BY <1>1, LastProperties DEF IInv
  <2>4. ~starved /\ ~Misused("again") /\ "inside" \notin object[f.object].misuse =>
          map[f.pointer] = f.object
    BY <1>2, <2>3, FramesTyped DEF IInv, FramesOwned, Owned
  <2> QED
    BY <1>1, <2>1, <2>2, <2>4, RetargetStep
<1>3. CASE f.pointer \notin DOMAIN map
  BY <1>1, <1>3, UnwindStep DEF Event
<1> QED
  BY <1>2, <1>3

\* The listener of an event returns to the C code, or throws.
LEMMA ListenerStep ==
    ASSUME IInv, ListenerReturns \/ ListenerThrows
    PROVE  IInv'
<1>1. CASE ListenerReturns
  BY <1>1, RetargetStep DEF ListenerReturns
<1>2. CASE ListenerThrows
  BY <1>2, UnwindStep DEF ListenerThrows
<1> QED
  BY <1>1, <1>2

\* The C code finds its tracker, the option states and the table where it
\* looks, unless one of them is gone through a misuse or never was.
LEMMA CorruptStep ==
    ASSUME IInv, Corrupt
    PROVE  IInv'
<1>1. /\ stack # <<>> /\ ~Usable(Last(stack).pointer) /\ corrupt' = TRUE
      /\ UNCHANGED <<heap, object, map, table, stack, starved>>
  BY DEF Corrupt, InC
<1>2. /\ Len(stack) \in DOMAIN stack /\ Last(stack) = stack[Len(stack)]
      /\ stack[Len(stack)].object \in Object
  BY <1>1, LastProperties, FramesTyped DEF IInv
<1>3. ASSUME ~starved, ~table.disposed, ~Misused("inside"), ~Misused("again")
      PROVE  FALSE
  <2> DEFINE f == stack[Len(stack)]
  <2>1. Live(f.object) /\ f.pointer = object[f.object].pointer
    BY <1>2, <1>3 DEF IInv, FramesOwned, Misused
  <2>2. IsTracker(f.pointer)
    BY <1>2, <1>3, <2>1 DEF IInv, Owned
  <2>3. /\ heap[f.pointer].q # Null /\ Holds(heap[f.pointer].q, "states")
        /\ heap[f.pointer].telopts \in {Null, table.pointer}
    BY <1>3, <2>2 DEF IInv, BlocksOwned, IsTracker, Holds
  <2>4. heap[f.pointer].telopts # Null => Holds(heap[f.pointer].telopts, "table")
    BY <1>3, <2>3 DEF IInv, TableKept
  <2> QED
    BY <1>1, <1>2, <2>2, <2>3, <2>4 DEF Usable
<1>4. Typed' /\ TableKept' /\ StackFormed'
  BY <1>1 DEF IInv, Typed, TableKept, StackFormed, Holds
<1>5. BlocksOwned'
  BY <1>1 DEF IInv, BlocksOwned, Live, IsTracker, Holds
<1>6. Owned' /\ FramesOwned' /\ NullOnlyStarved'
  BY <1>1 DEF IInv, Owned, FramesOwned, NullOnlyStarved, Misused, Live, IsTracker, Holds
<1>7. MemorySafe'
  BY <1>1, <1>3 DEF MemorySafe, Misused
<1> QED
  BY <1>4, <1>5, <1>6, <1>7 DEF IInv

-----------------------------------------------------------------------------
(* The invariants.                                                         *)

\* The inductive invariant holds in every state.
LEMMA IInvHolds == Spec => []IInv
<1>1. Init => IInv
  <2> SUFFICES ASSUME Init
               PROVE  IInv
    OBVIOUS
  <2>1. /\ DOMAIN heap = {} /\ DOMAIN map = {} /\ DOMAIN stack = {}
        /\ stack \in Seq(Frame) /\ table = [pointer |-> Null, disposed |-> FALSE]
        /\ starved = FALSE /\ corrupt = FALSE
    BY DEF Init
  <2>2. /\ object \in [Object -> Telnet]
        /\ \A o \in Object : object[o].state = "new" /\ object[o].misuse = {}
    BY DEF Init, Telnet
  <2>3. Typed /\ TableKept /\ BlocksOwned /\ StackFormed
    BY <2>1, <2>2 DEF Typed, TableKept, BlocksOwned, StackFormed
  <2>4. Owned /\ FramesOwned /\ NullOnlyStarved /\ MemorySafe
    BY <2>1, <2>2 DEF Owned, FramesOwned, NullOnlyStarved, MemorySafe, Live
  <2> QED
    BY <2>3, <2>4 DEF IInv
<1>2. IInv /\ [Next]_vars => IInv'
  <2> SUFFICES ASSUME IInv, [Next]_vars
               PROVE  IInv'
    OBVIOUS
  <2>1. CASE Finish
    BY <2>1, FinishStep
  <2>2. CASE DisposeTable
    BY <2>2, DisposeTableStep
  <2>3. ASSUME NEW o \in Object, Construct(o)
        PROVE  IInv'
    BY <2>3, ConstructStep
  <2>4. ASSUME NEW o \in Object, Call(o) \/ CallPlain(o)
        PROVE  IInv'
    BY <2>4, CallStep
  <2>5. ASSUME NEW o \in Object, CallStarved(o)
        PROVE  IInv'
    BY <2>5, CallStarvedStep
  <2>6. ASSUME NEW o \in Object, SendText(o)
        PROVE  IInv'
    BY <2>6, SendTextStep
  <2>7. ASSUME NEW o \in Object, Dispose(o)
        PROVE  IInv'
    BY <2>7, DisposeStep
  <2>8. CASE Event
    BY <2>8, EventStep
  <2>9. CASE ListenerReturns \/ ListenerThrows
    BY <2>9, ListenerStep
  <2>10. CASE Return
    BY <2>10, UnwindStep DEF Return, InC
  <2>11. CASE Corrupt
    BY <2>11, CorruptStep
  <2>12. CASE UNCHANGED vars
    <3> USE <2>12 DEF vars, IInv
    <3>1. Typed' /\ TableKept' /\ StackFormed'
      BY DEF Typed, TableKept, StackFormed, Holds
    <3>2. BlocksOwned'
      BY DEF BlocksOwned, Live, IsTracker, Holds
    <3>3. Owned' /\ FramesOwned' /\ NullOnlyStarved' /\ MemorySafe'
      BY DEF Owned, FramesOwned, NullOnlyStarved, MemorySafe, Misused, Live, IsTracker, Holds
    <3> QED
      BY <3>1, <3>2, <3>3
  <2> QED
    BY <2>1, <2>2, <2>3, <2>4, <2>5, <2>6, <2>7, <2>8, <2>9, <2>10, <2>11, <2>12 DEF Next
<1> QED
  BY <1>1, <1>2, PTL DEF Spec

\* TypeOK: frames and pointers are well formed, and only the innermost method's
\* C code runs.
THEOREM TypeCorrect == Spec => []TypeOK
<1>1. IInv => TypeOK
  <2> SUFFICES ASSUME IInv
               PROVE  TypeOK
    OBVIOUS
  <2>1. \A i \in DOMAIN stack : stack[i].blocks \subseteq DOMAIN heap
    BY DEF IInv, StackFormed, Holds
  <2>2. \A i \in DOMAIN stack : stack[i].target \in Object \cup {"none"}
    BY FramesTyped DEF IInv
  <2> QED
    BY <2>1, <2>2 DEF IInv, TypeOK, Typed, NullOnlyStarved, StackFormed
<1> QED
  BY <1>1, IInvHolds, PTL

\* OwnTracker: an object in use has its own tracker, option states and entry of
\* the map, however often addresses are used again.
THEOREM OwnTrackerHolds == Spec => []OwnTracker
<1>1. IInv => OwnTracker
  <2> SUFFICES ASSUME IInv, ~Misused("again"), ~starved
               PROVE  /\ DOMAIN map = {object[o].pointer : o \in {x \in Object : Live(x)}}
                      /\ \A o \in Object : Live(o) =>
                           LET p == object[o].pointer IN
                           /\ map[p] = o
                           /\ IsTracker(p) /\ heap[p].object = o
                           /\ heap[heap[p].q] = [kind |-> "states", object |-> o]
    BY DEF OwnTracker
  <2>1. ASSUME NEW o \in Object, Live(o)
        PROVE  heap[heap[object[o].pointer].q] = [kind |-> "states", object |-> o]
    BY <2>1 DEF IInv, Owned, BlocksOwned, IsTracker, Holds
  <2>2. DOMAIN map = {object[o].pointer : o \in {x \in Object : Live(x)}}
    <3>1. \A p \in DOMAIN map : map[p] \in Object /\ Live(map[p]) /\ object[map[p]].pointer = p
      BY DEF IInv, Typed, Owned
    <3>2. \A o \in Object : Live(o) => object[o].pointer \in DOMAIN map
      BY DEF IInv, Owned
    <3> QED
      BY <3>1, <3>2
  <2> QED
    BY <2>1, <2>2 DEF IInv, Owned
<1> QED
  BY <1>1, IInvHolds, PTL

\* RoutedToOwner: the events of a method reach the object it was called on,
\* though the address may belong to another object by then.
THEOREM RoutedToOwnerHolds == Spec => []RoutedToOwner
<1>1. IInv => RoutedToOwner
  <2> SUFFICES ASSUME IInv, ~starved, ~Misused("again"), NEW i \in DOMAIN stack,
                      "inside" \notin object[stack[i].object].misuse
               PROVE  /\ stack[i].target \in {"none", stack[i].object}
                      /\ stack[i].pointer \in DOMAIN map
    BY DEF RoutedToOwner
  <2>1. stack[i].object \in Object
    BY FramesTyped DEF IInv
  <2> QED
    BY <2>1 DEF IInv, FramesOwned, Owned
<1> QED
  BY <1>1, IInvHolds, PTL

\* HeapAccounted: every block has one who will free it, but those that send(),
\* sendText() and exceptions lose.
THEOREM HeapAccountedHolds == Spec => []HeapAccounted
<1>1. IInv => HeapAccounted
  BY DEF IInv, BlocksOwned, HeapAccounted, IsTracker, Holds
<1> QED
  BY <1>1, IInvHolds, PTL

\* MemorySafe: no write through a pointer that is not valid, unless memory ran
\* out, the table was disposed of or an object was disposed of inside or twice.
THEOREM MemorySafeHolds == Spec => []MemorySafe
<1>1. IInv => MemorySafe
  BY DEF IInv
<1> QED
  BY <1>1, IInvHolds, PTL

=============================================================================
