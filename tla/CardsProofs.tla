------------------------------ MODULE CardsProofs ------------------------------
(***************************************************************************)
(* What holds of four components that share no state, for every value of   *)
(* their constants: block requests on a MemoryStick Pro (Pro), how such a  *)
(* card is identified (Ini), the slots of the JMicron adapter (Jm), and    *)
(* the allocator of physical blocks (RandPebAlloc).                        *)
(***************************************************************************)
EXTENDS RandPebAlloc, CardsParts, Integers, FiniteSets, Sequences, SequenceTheorems, WellFoundedInduction, TLAPS

-----------------------------------------------------------------------------
(* Pages of the segments before one of them: Before() is a recursive       *)
(* function, which exists, as two of its prefixes agree.                   *)

Less == {p \in Nat \X Nat : p[1] < p[2]}

\* Among natural numbers there is no descent without end.
LEMMA LessWellFounded == IsWellFoundedOn(Less, Nat)
BY NatLessThanWellFounded DEF OpToRel, Less

\* A set of natural numbers that is not empty has a least element.
LEMMA Least ==
  ASSUME NEW S \in SUBSET Nat, S # {}
  PROVE  \E m \in S : \A k \in S : m <= k
<1>1. PICK m \in S : \A k \in S : <<k, m>> \notin Less
  BY LessWellFounded, WFMin
<1>2. \A k \in S : ~ (k < m)
  BY <1>1 DEF Less
<1> QED BY <1>2

\* A function f adds up the lengths of the first k segments, for k up to n.
Adds(f, segs, n) == \A k \in 0 .. n : f[k] = IF k = 0 THEN 0 ELSE f[k - 1] + segs[k]

\* Two such functions agree, where both go.
LEMMA AddsUnique ==
  ASSUME NEW segs, NEW n \in Nat, NEW m \in Nat, NEW f, NEW g, Adds(f, segs, n), Adds(g, segs, m), n <= m
  PROVE  f[n] = g[n]
<1> SUFFICES ASSUME f[n] # g[n] PROVE FALSE
  OBVIOUS
<1> DEFINE S == {k \in 0 .. n : f[k] # g[k]}
<1>1. S \in SUBSET Nat /\ S # {}
  OBVIOUS
<1>2. PICK k \in S : \A j \in S : k <= j
  BY <1>1, Least
<1>3. f[k] = (IF k = 0 THEN 0 ELSE f[k - 1] + segs[k]) /\ g[k] = IF k = 0 THEN 0 ELSE g[k - 1] + segs[k]
  BY <1>2 DEF Adds
<1>4. k # 0 => k - 1 \in 0 .. n /\ k - 1 \notin S
  BY <1>2
<1> QED BY <1>2, <1>3, <1>4

\* There is one, up to each n.
LEMMA AddsExists ==
  ASSUME NEW segs, NEW n \in Nat PROVE \E f : Adds(f, segs, n)
<1> SUFFICES ASSUME ~ \E f : Adds(f, segs, n) PROVE FALSE
  OBVIOUS
<1> DEFINE S == {k \in Nat : ~ \E f : Adds(f, segs, k)}
<1>1. PICK m \in S : \A j \in S : m <= j
  BY Least
<1>2. CASE m = 0
  <2>1. Adds([k \in {0} |-> 0], segs, 0)
    BY DEF Adds
  <2> QED BY <1>1, <1>2, <2>1
<1>3. CASE m # 0
  <2>1. m - 1 \in Nat /\ m - 1 \notin S
    BY <1>1, <1>3
  <2>2. PICK f : Adds(f, segs, m - 1)
    BY <2>1
  <2> DEFINE g == [k \in 0 .. m |-> IF k = m THEN f[m - 1] + segs[m] ELSE f[k]]
  <2>3. Adds(g, segs, m)
    BY <2>1, <2>2, <1>3 DEF Adds
  <2> QED BY <1>1, <2>3
<1> QED BY <1>2, <1>3

\* So the recursive function of Before() exists, and adds up the segments.
LEMMA BeforeStep ==
  ASSUME NEW segs
  PROVE  /\ Pro!Before(segs, 1) = 0
         /\ \A i \in Nat \ {0} : Pro!Before(segs, i + 1) = Pro!Before(segs, i) + segs[i]
<1> DEFINE F == [n \in Nat |-> (CHOOSE f : Adds(f, segs, n))[n]]
           Rec(s) == [n \in Nat |-> IF n = 0 THEN 0 ELSE s[n - 1] + segs[n]]
           sum == CHOOSE s : s = Rec(s)
<1>1. \A n \in Nat : Adds(CHOOSE f : Adds(f, segs, n), segs, n)
  BY AddsExists
<1>2. F = Rec(F)
  <2> SUFFICES \A n \in Nat : F[n] = IF n = 0 THEN 0 ELSE F[n - 1] + segs[n]
    <3> DEFINE h(n) == (CHOOSE f : Adds(f, segs, n))[n]
    <3> HIDE DEF h
    <3>1. F = [n \in Nat |-> h(n)]
      BY DEF h
    <3> HIDE DEF F
    <3> QED BY <3>1
  <2> TAKE n \in Nat
  <2> DEFINE f == CHOOSE f : Adds(f, segs, n)
             g == CHOOSE g : Adds(g, segs, n - 1)
  <2>1. Adds(f, segs, n) /\ F[n] = f[n]
    BY <1>1
  <2>2. f[n] = IF n = 0 THEN 0 ELSE f[n - 1] + segs[n]
    BY <2>1 DEF Adds
  <2>3. CASE n # 0
    <3>1. n - 1 \in Nat /\ Adds(g, segs, n - 1) /\ F[n - 1] = g[n - 1]
      BY <2>3, <1>1
    <3> HIDE DEF f, g, F
    <3>2. g[n - 1] = f[n - 1]
      BY <3>1, <2>1, AddsUnique
    <3> QED BY <2>1, <2>2, <2>3, <3>1, <3>2
  <2> QED BY <2>1, <2>2, <2>3
<1>3. sum = Rec(sum)
  <2> HIDE DEF F
  <2> QED BY <1>2
<1>4. \A i : Pro!Before(segs, i) = sum[i - 1]
  BY DEF Pro!Before
<1> HIDE DEF sum, F
<1>5. sum[0] = 0 /\ \A i \in Nat \ {0} : sum[i] = sum[i - 1] + segs[i]
  BY <1>3
<1> QED BY <1>4, <1>5

\* Segments that are not empty.
Segments == Seq(Nat \ {0})

\* Before() of a place within the request, or behind it, is a number of pages.
LEMMA BeforeNat ==
  ASSUME NEW segs \in Segments, NEW i \in 1 .. Len(segs) + 1 PROVE Pro!Before(segs, i) \in Nat
<1> SUFFICES ASSUME Pro!Before(segs, i) \notin Nat PROVE FALSE
  OBVIOUS
<1> DEFINE S == {k \in 1 .. Len(segs) + 1 : Pro!Before(segs, k) \notin Nat}
<1>0. Len(segs) \in Nat /\ \A k \in 1 .. Len(segs) : segs[k] \in Nat
  BY DEF Segments
<1>6. S \in SUBSET Nat /\ i \in S
  BY <1>0
<1>1. PICK m \in S : \A j \in S : m <= j
  <2> HIDE DEF S
  <2> QED BY <1>6, Least
<1>2. m # 1
  BY <1>1, BeforeStep
<1>3. m - 1 \in 1 .. Len(segs) /\ m - 1 \notin S
  BY <1>0, <1>1, <1>2
<1> DEFINE p == m - 1
<1>4. segs[p] \in Nat /\ Pro!Before(segs, p) \in Nat /\ p \in Nat \ {0} /\ m = p + 1
  BY <1>0, <1>1, <1>3
<1> HIDE DEF p
<1>5. Pro!Before(segs, m) = Pro!Before(segs, p) + segs[p]
  BY <1>4, BeforeStep
<1> QED BY <1>1, <1>4, <1>5

\* And so is the length of the whole request.
LEMMA PagesNat == ASSUME NEW segs \in Segments PROVE Pro!Pages(segs) \in Nat
BY BeforeNat DEF Pro!Pages, Segments

\* What __blk_end_request() leaves are segments that are not empty.
LEMMA DropSegments ==
  ASSUME NEW segs \in Segments, NEW n \in Nat PROVE Pro!Drop(segs, n) \in Segments
<1> DEFINE left(i) == Pro!Before(segs, i) + segs[i] - n
           kept == {i \in DOMAIN segs : left(i) > 0}
           first == CHOOSE i \in kept : \A j \in kept : i <= j
           tail == SubSeq(segs, first, Len(segs))
<1>1. Pro!Drop(segs, n) = IF kept = {} THEN <<>> ELSE [tail EXCEPT ![1] = left(first)]
  BY DEF Pro!Drop
<1>2. CASE kept = {}
  BY <1>1, <1>2 DEF Segments
<1>3. CASE kept # {}
  <2>1. Len(segs) \in Nat /\ DOMAIN segs = 1 .. Len(segs) /\ \A k \in 1 .. Len(segs) : segs[k] \in Nat \ {0}
    BY DEF Segments
  <2>2. kept \in SUBSET Nat
    BY <2>1
  <2>3. first \in kept
    <3> HIDE DEF kept
    <3>1. \E i \in kept : \A j \in kept : i <= j
      BY <2>2, <1>3, Least
    <3> QED BY <3>1
  <2> DEFINE b == Pro!Before(segs, first)
  <2>4. first \in 1 .. Len(segs) /\ b + segs[first] - n > 0
    BY <2>1, <2>3
  <2> HIDE DEF first
  <2>5. b \in Nat /\ segs[first] \in Nat
    BY <2>1, <2>4, BeforeNat
  <2> HIDE DEF b
  <2>6. b + segs[first] - n \in Nat \ {0}
    BY <2>4, <2>5
  <2>7. tail \in Seq(Nat \ {0}) /\ 1 \in 1 .. Len(tail)
    BY <2>1, <2>4, SubSeqProperties
  <2>8. [tail EXCEPT ![1] = b + segs[first] - n] \in Seq(Nat \ {0})
    <3> HIDE DEF tail
    <3> QED BY <2>6, <2>7, ExceptSeq
  <2> QED BY <1>1, <1>3, <2>8 DEF Segments, b
<1> QED BY <1>2, <1>3


\* What the handlers may be, who holds the ball, and whom it belongs to.
ProTypes ==
  /\ Pro!TypeOK
  /\ queue.waiting <= queue.asked
  /\ DOMAIN queue = {"asked", "waiting", "stopped", "eject"}
  /\ DOMAIN handler = {"next", "mrq"} /\ DOMAIN pos = {"seg", "page"}
  /\ DOMAIN block_req = {"segs", "dir"} /\ DOMAIN card = {"running", "moved", "failed"}
  /\ block_req.segs \in Segments
  /\ at # "idle" => has_request
  /\ at \in {"fetch", "exec"} => ~ mrq_complete /\ block_req.segs # <<>>
  /\ false_ok # "other"

\* The driver's place, and what the card has moved.
Place ==
  /\ pos.seg <= Len(block_req.segs)
  /\ card.moved = Pro!Before(block_req.segs, pos.seg) + pos.page
  /\ pos.page <= block_req.segs[pos.seg]
  /\ mrq = "LONG" \/ auto_int => pos.page < block_req.segs[pos.seg]

\* The place before the first page.
Begins == pos.seg = 1 /\ pos.page = 0

\* The place, by what the host executes for which handler.
ProPlace ==
  /\ at \in {"fetch", "exec"} => handler.mrq = "transfer"
  /\ at = "fetch" => handler.next = "req_init"
  /\ at \in {"fetch", "exec"} =>
       /\ handler.next \in {"req_init", "transfer", "ced", "default"}
       /\ pos.seg <= Len(block_req.segs) + 1
       /\ handler.next = "req_init" => mrq = "WRITE_REG" /\ Begins
       /\ handler.next = "transfer" =>
            \/ mrq \in {"WRITE_REG", "SET_CMD"} /\ Begins
            \/ mrq \in {"GET_INT", "LONG"} /\ Place
       /\ handler.next = "ced" => mrq = "GET_INT"
       /\ handler.next = "default" => mrq = "STOP"

\* The invariant that is preserved by every step.
ProInv == ProTypes /\ ProPlace

\* It holds in the beginning.
LEMMA ProInit == ASSUME Pro!ShapesAssumption, Pro!Init PROVE ProInv
<1> USE DEF Pro!Init
<1>1. Pro!TypeOK
  <2>1. queue \in [asked : 0 .. MaxRequests, waiting : 0 .. MaxRequests,
                   stopped : BOOLEAN, eject : BOOLEAN]
    <3>1. 0 \in 0 .. MaxRequests
      BY DEF Pro!ShapesAssumption
    <3> QED BY <3>1, Zenon
  <2>2. pos.seg \in Nat \ {0} /\ pos.page \in Nat /\ mrq = "GET_INT" /\ at = "idle" /\ handler.next = "bad"
    OBVIOUS
  <2>3. has_request \in BOOLEAN /\ mrq_complete \in BOOLEAN
    BY Zenon
  <2> QED BY <2>1, <2>2, <2>3 DEF Pro!TypeOK
<1>2. block_req.segs \in Segments /\ DOMAIN block_req = {"segs", "dir"}
  BY DEF Pro!NoReq, Segments
<1>3. /\ DOMAIN queue = {"asked", "waiting", "stopped", "eject"} /\ queue.waiting <= queue.asked
      /\ DOMAIN handler = {"next", "mrq"} /\ DOMAIN pos = {"seg", "page"}
      /\ DOMAIN card = {"running", "moved", "failed"}
  OBVIOUS
<1>4. at = "idle" /\ false_ok = "no"
  OBVIOUS
<1> QED BY <1>1, <1>2, <1>3, <1>4 DEF ProInv, ProTypes, ProPlace


\* Ending a request leaves segments, and tells the truth if what it ends has been moved.
LEMMA ProCompletes ==
  ASSUME ProInv, at = "exec", NEW error \in BOOLEAN, Pro!CompleteReq(error),
         ~ error => handler.next = "default" \/ card'.moved = Pro!Pages(block_req.segs)
  PROVE  /\ block_req'.segs \in Segments /\ DOMAIN block_req' = {"segs", "dir"}
         /\ false_ok' # "other" /\ at' = "issue"
         /\ UNCHANGED <<queue, has_request, handler, mrq, pos, mrq_complete>>
<1> DEFINE segs == block_req.segs
           n == Pro!Counted(error)
<1>1. /\ segs \in Segments /\ segs # <<>> /\ DOMAIN block_req = {"segs", "dir"}
      /\ pos.seg \in 1 .. Len(segs) + 1 /\ pos.page \in Nat
      /\ handler.next = "default" => mrq = "STOP"
      /\ false_ok # "other"
  <2>1. Len(segs) \in Nat
    BY DEF ProInv, ProTypes, Segments
  <2> QED BY <2>1 DEF ProInv, ProTypes, ProPlace, Pro!TypeOK
<1>2. Pro!Pages(segs) \in Nat /\ Pro!Before(segs, pos.seg) \in Nat
  BY <1>1, PagesNat, BeforeNat
<1>3. segs[1] \in Nat
  BY <1>1 DEF Segments
<1>4. n \in Nat
  <2> DEFINE p == IF pos.page > 0 THEN pos.page - 1 ELSE 0
             b == Pro!Before(segs, pos.seg)
  <2>1. p \in Nat /\ b \in Nat
    BY <1>1, <1>2
  <2> HIDE DEF p, b
  <2>2. b + p \in Nat
    BY <2>1
  <2>3. n \in {Pro!Pages(segs), segs[1], b + p}
    BY DEF Pro!Counted, p, b
  <2> QED BY <2>2, <2>3, <1>2, <1>3
<1>5. block_req' = [block_req EXCEPT !.segs = Pro!Drop(segs, n)]
  BY DEF Pro!CompleteReq
<1>6. Pro!Drop(segs, n) \in Segments
  BY <1>1, <1>4, DropSegments
<1> HIDE DEF n, segs
<1>7. block_req'.segs \in Segments /\ DOMAIN block_req' = {"segs", "dir"}
  BY <1>1, <1>5, <1>6
<1>8. false_ok' # "other"
  <2>1. error \/ mrq = "STOP" \/ card'.moved >= Pro!Pages(segs)
    BY <1>1, <1>2 DEF segs
  <2> QED BY <1>1, <2>1 DEF Pro!CompleteReq, segs
<1> QED BY <1>7, <1>8 DEF Pro!CompleteReq

\* So a step that ends a request keeps the invariant.
LEMMA ProEnds ==
  ASSUME ProInv, at = "exec", NEW error \in BOOLEAN, Pro!CompleteReq(error),
         ~ error => handler.next = "default" \/ card'.moved = Pro!Pages(block_req.segs),
         DOMAIN card' = DOMAIN card
  PROVE  ProInv'
<1>1. /\ block_req'.segs \in Segments /\ DOMAIN block_req' = {"segs", "dir"}
      /\ false_ok' # "other" /\ at' = "issue"
      /\ UNCHANGED <<queue, has_request, handler, mrq, pos, mrq_complete>>
  BY ProCompletes
<1>2. Pro!TypeOK'
  BY <1>1 DEF ProInv, ProTypes, Pro!TypeOK
<1> QED BY <1>1, <1>2 DEF ProInv, ProTypes, ProPlace

\* The steps of mspro_block_issue_req() keep the invariant.
LEMMA ProDriverStep ==
  ASSUME Pro!ShapesAssumption, ProInv, Pro!Driver PROVE ProInv'
<1> USE DEF ProInv, ProTypes, ProPlace, Pro!TypeOK
<1>1. CASE Pro!IssueReq
  <2>1. /\ at \in {"issue", "submit"} /\ at' \in {"fetch", "exec"} /\ mrq' = "WRITE_REG"
        /\ pos' = [seg |-> 1, page |-> 0] /\ handler' = [next |-> "req_init", mrq |-> "transfer"]
        /\ mrq_complete' = FALSE /\ block_req.segs # <<>>
        /\ UNCHANGED <<queue, has_request, block_req, card, false_ok>>
    BY <1>1 DEF Pro!IssueReq, Pro!IssueChunk
  <2>2. Pro!TypeOK'
    <3>1. mrq_complete' \in BOOLEAN /\ has_request' \in BOOLEAN
      BY <2>1, Zenon
    <3>2. pos'.seg \in Nat \ {0} /\ pos'.page \in Nat /\ handler'.next = "req_init"
      BY <2>1
    <3>3. queue' = queue /\ at' \in {"fetch", "exec"} /\ mrq' = "WRITE_REG"
      BY <2>1
    <3> QED BY <3>1, <3>2, <3>3
  <2>3. Len(block_req.segs) \in Nat
    BY DEF Segments
  <2> QED BY <2>1, <2>2, <2>3 DEF Begins
<1>2. CASE Pro!MapFails
  <2>1. /\ at \in {"issue", "submit"} /\ block_req.segs # <<>>
        /\ block_req' = [block_req EXCEPT !.segs = Tail(@)]
        /\ UNCHANGED <<queue, has_request, handler, mrq, at, pos, card, false_ok, mrq_complete>>
    BY <1>2 DEF Pro!MapFails
  <2>2. Tail(block_req.segs) \in Segments
    BY <2>1 DEF Segments
  <2> QED BY <2>1, <2>2
<1>3. CASE Pro!NextRequest
  <2>1. PICK s \in Shapes, d \in {"READ", "WRITE"} : block_req' = [segs |-> s, dir |-> d]
    BY <1>3 DEF Pro!NextRequest
  <2>2. s \in Segments
    BY <2>1 DEF Pro!ShapesAssumption, Segments
  <2>3. /\ at \in {"issue", "submit"} /\ queue.waiting > 0 /\ queue' = [queue EXCEPT !.waiting = @ - 1]
        /\ UNCHANGED <<has_request, handler, mrq, at, pos, card, false_ok, mrq_complete>>
    BY <1>3 DEF Pro!NextRequest
  <2>4. /\ queue' \in [asked : 0 .. MaxRequests, waiting : 0 .. MaxRequests,
                       stopped : BOOLEAN, eject : BOOLEAN]
        /\ queue'.waiting <= queue'.asked
    <3>1. queue.waiting - 1 \in 0 .. MaxRequests /\ queue.waiting - 1 <= queue.asked
      BY <2>3 DEF Pro!ShapesAssumption
    <3> QED BY <2>3, <3>1
  <2> QED BY <2>1, <2>2, <2>3, <2>4
<1>4. CASE Pro!IssueEnds
  <2>1. has_request' = FALSE /\ at' = "idle" /\ handler' \in {handler, [handler EXCEPT !.next = "bad"]}
        /\ (mrq_complete' = mrq_complete \/ mrq_complete' = TRUE)
        /\ UNCHANGED <<queue, block_req, mrq, pos, card, false_ok>>
    BY <1>4 DEF Pro!IssueEnds
  <2> QED BY <2>1
<1> QED BY <1>1, <1>2, <1>3, <1>4 DEF Pro!Driver

\* Those of the block layer, and of stop() and start(), do.
LEMMA ProQueueStep ==
  ASSUME Pro!ShapesAssumption, ProInv, Pro!Ask \/ Pro!Submit \/ Pro!Stop \/ Pro!Suspend \/ Pro!Start \/ Pro!Remove
  PROVE  ProInv'
<1> USE DEF ProInv, ProTypes, ProPlace, Pro!TypeOK
<1>1. CASE Pro!Ask
  <2>1. /\ queue' \in [asked : 0 .. MaxRequests, waiting : 0 .. MaxRequests,
                       stopped : BOOLEAN, eject : BOOLEAN]
        /\ queue'.waiting <= queue'.asked
    <3> DEFINE a == queue.asked + 1
               w == queue.waiting + 1
    <3>1. a \in 0 .. MaxRequests /\ w \in 0 .. MaxRequests /\ w <= a
      BY <1>1 DEF Pro!Ask, Pro!ShapesAssumption
    <3>2. queue' = [queue EXCEPT !.asked = a, !.waiting = w]
      BY <1>1 DEF Pro!Ask
    <3> HIDE DEF a, w
    <3> QED BY <3>1, <3>2
  <2> QED BY <1>1, <2>1 DEF Pro!Ask, Place, Begins
<1>2. CASE Pro!Submit
  <2>1. CASE queue' = [queue EXCEPT !.waiting = 0] /\ UNCHANGED <<has_request, at>>
    <3>1. 0 \in 0 .. MaxRequests /\ 0 <= queue.asked
      BY DEF Pro!ShapesAssumption
    <3> QED BY <1>2, <2>1, <3>1 DEF Pro!Submit, Place, Begins
  <2>2. CASE has_request' = TRUE /\ at' = "submit" /\ UNCHANGED queue
    <3>1. has_request' \in BOOLEAN
      BY <2>2, Zenon
    <3> QED BY <1>2, <2>2, <3>1 DEF Pro!Submit
  <2> QED BY <1>2, <2>1, <2>2 DEF Pro!Submit
<1>3. CASE Pro!Stop
  BY <1>3 DEF Pro!Stop, Place, Begins
<1>4. CASE Pro!Start
  BY <1>4 DEF Pro!Start, Place, Begins
<1>5. CASE Pro!Suspend
  BY <1>5 DEF Pro!Suspend, Place, Begins
<1>6. CASE Pro!Remove
  BY <1>6 DEF Pro!Remove, Place, Begins
<1> QED BY <1>1, <1>2, <1>3, <1>4, <1>5, <1>6


\* A step of the host that ends no request keeps the types, and is left with the place.
LEMMA ProGoes ==
  ASSUME ProInv, at = "exec", Pro!Goes,
         handler' = handler \/ handler' \in {[handler EXCEPT !.next = x] : x \in {"transfer", "ced", "default"}},
         mrq' \in {"WRITE_REG", "SET_CMD", "GET_INT", "LONG", "STOP"},
         DOMAIN pos' = {"seg", "page"}, pos'.seg \in Nat \ {0}, pos'.page \in Nat,
         DOMAIN card' = DOMAIN card
  PROVE  ProTypes' /\ at' = "exec" /\ handler'.mrq = "transfer" /\ block_req' = block_req
BY DEF ProInv, ProTypes, ProPlace, Pro!TypeOK, Pro!Goes

\* The handlers keep it: each TPC moves the driver's place as it moves the card.
LEMMA ProHostStep ==
  ASSUME ProInv, Pro!Host PROVE ProInv'
<1> DEFINE segs == block_req.segs
           L == Len(segs)
<1>1. /\ segs \in Segments /\ L \in Nat /\ \A i \in 1 .. L : segs[i] \in Nat \ {0}
      /\ pos.seg \in Nat \ {0} /\ pos.page \in Nat /\ DOMAIN pos = {"seg", "page"}
      /\ DOMAIN handler = {"next", "mrq"} /\ DOMAIN card = {"running", "moved", "failed"}
      /\ mrq \in {"WRITE_REG", "SET_CMD", "GET_INT", "LONG", "STOP"}
  BY DEF ProInv, ProTypes, Pro!TypeOK, Segments
<1>2. at = "exec" =>
        /\ segs # <<>> /\ L > 0 /\ pos.seg <= L + 1
        /\ handler.next \in {"req_init", "transfer", "ced", "default"}
        /\ handler.next = "req_init" => mrq = "WRITE_REG" /\ Begins
        /\ handler.next = "transfer" =>
             \/ mrq \in {"WRITE_REG", "SET_CMD"} /\ Begins
             \/ mrq \in {"GET_INT", "LONG"} /\ Place
        /\ handler.next = "ced" => mrq = "GET_INT"
        /\ handler.next = "default" => mrq = "STOP"
        /\ handler.mrq = "transfer"
  BY <1>1 DEF ProInv, ProTypes, ProPlace, Segments
<1>3. Pro!Before(segs, 1) = 0
      /\ \A i \in 1 .. L : /\ Pro!Before(segs, i) \in Nat
                           /\ Pro!Before(segs, i + 1) = Pro!Before(segs, i) + segs[i]
  <2>1. \A i \in 1 .. L : i \in 1 .. Len(segs) + 1 /\ i \in Nat \ {0}
    BY <1>1
  <2> HIDE DEF segs
  <2> QED BY <1>1, <2>1, BeforeStep, BeforeNat
<1>4. CASE Pro!Fetch
  <2>1. /\ at = "fetch" /\ at' = "exec" /\ handler' = [handler EXCEPT !.next = handler.mrq]
        /\ UNCHANGED <<queue, has_request, block_req, mrq, pos, auto_int, card, false_ok, mrq_complete>>
    BY <1>4 DEF Pro!Fetch
  <2>2. ProTypes'
    BY <2>1 DEF ProInv, ProTypes, ProPlace, Pro!TypeOK
  <2> QED BY <2>1, <2>2, <1>1 DEF ProInv, ProPlace, Begins
<1>5. CASE Pro!TpcFails
  <2>1. CASE handler.next = "req_init"
    <3>1. at = "exec" /\ UNCHANGED <<card, mrq, pos>> /\ handler' = [handler EXCEPT !.next = handler.mrq] /\ Pro!Goes
      BY <1>5, <2>1 DEF Pro!TpcFails, Pro!Send
    <3>2. ProTypes' /\ at' = "exec" /\ handler'.mrq = "transfer" /\ block_req' = block_req
      BY <3>1, <1>1, <1>2, <2>1, ProGoes
    <3> QED BY <3>1, <3>2, <1>1, <1>2, <2>1 DEF ProInv, ProPlace, Begins
  <2>2. CASE handler.next # "req_init"
    BY <1>5, <2>2, ProEnds DEF Pro!TpcFails
  <2> QED BY <2>1, <2>2
<1>6. CASE Pro!TpcDone
  <2>1. at = "exec" /\ card' = Pro!Executed(card)
    BY <1>6 DEF Pro!TpcDone
  <2>2. DOMAIN card' = DOMAIN card
    BY <2>1, <1>1 DEF Pro!Executed
  <2>3. CASE handler.next = "req_init"
    <3>1. UNCHANGED <<card, mrq, pos>> /\ handler' = [handler EXCEPT !.next = handler.mrq] /\ Pro!Goes
      BY <1>6, <1>2, <2>1, <2>3 DEF Pro!TpcDone, Pro!Send, Pro!Executed
    <3>2. ProTypes' /\ at' = "exec" /\ handler'.mrq = "transfer" /\ block_req' = block_req
      BY <3>1, <1>1, <1>2, <2>1, <2>2, ProGoes
    <3> QED BY <3>1, <3>2, <1>1, <1>2, <2>1, <2>3 DEF ProInv, ProPlace, Begins
  <2>4. CASE handler.next = "transfer" /\ mrq = "WRITE_REG"
    <3>1. mrq' = "SET_CMD" /\ UNCHANGED <<handler, pos>> /\ Pro!Goes
      BY <1>6, <2>4 DEF Pro!TpcDone, Pro!Send
    <3>2. ProTypes' /\ at' = "exec" /\ handler'.mrq = "transfer" /\ block_req' = block_req
      BY <3>1, <1>1, <2>1, <2>2, ProGoes
    <3> QED BY <3>1, <3>2, <1>1, <1>2, <2>1, <2>4 DEF ProInv, ProPlace, Begins, Place
  <2>5. CASE handler.next = "transfer" /\ mrq \in {"SET_CMD", "LONG"} /\ ~ auto_int
    <3> DEFINE page == IF mrq = "LONG" THEN pos.page + 1 ELSE pos.page
    <3>1. /\ mrq' = "GET_INT" /\ handler' = handler /\ pos' = [pos EXCEPT !.page = page] /\ Pro!Goes
      BY <1>6, <2>5 DEF Pro!TpcDone, Pro!Send
    <3>2. page \in Nat
      BY <1>1
    <3>3. DOMAIN pos' = {"seg", "page"} /\ pos'.seg = pos.seg /\ pos'.page = page
      BY <3>1, <1>1
    <3>4. ProTypes' /\ at' = "exec" /\ handler'.mrq = "transfer" /\ block_req' = block_req
      BY <3>1, <3>2, <3>3, <1>1, <2>1, <2>2, ProGoes
    <3>5. auto_int' = auto_int
      BY <3>1 DEF Pro!Goes
    <3>6. /\ pos.seg \in 1 .. L /\ page <= segs[pos.seg]
          /\ card'.moved = Pro!Before(segs, pos.seg) + page
      <4>1. CASE mrq = "SET_CMD"
        BY <4>1, <1>1, <1>2, <1>3, <2>1, <2>5 DEF Pro!Executed, Begins
      <4>2. CASE mrq = "LONG"
        <5>1. pos.seg \in 1 .. L /\ pos.page < segs[pos.seg] /\ card.moved = Pro!Before(segs, pos.seg) + pos.page
          BY <4>2, <1>1, <1>2, <2>1, <2>5 DEF Place
        <5>2. card'.moved = card.moved + 1
          BY <4>2, <2>1, <1>1 DEF Pro!Executed
        <5> QED BY <4>2, <5>1, <5>2, <1>1, <1>3
      <4> QED BY <2>5, <4>1, <4>2
    <3> HIDE DEF page
    <3>7. Place'
      BY <3>1, <3>3, <3>4, <3>5, <3>6, <1>1, <2>5 DEF Place
    <3> QED BY <3>1, <3>3, <3>4, <3>6, <3>7, <1>1, <2>5 DEF ProInv, ProPlace
  <2>6. CASE handler.next = "default" /\ Pro!CompleteReq(FALSE)
    BY <2>1, <2>2, <2>6, ProEnds
  <2> QED BY <1>6, <2>3, <2>4, <2>5, <2>6 DEF Pro!TpcDone
<1>7. CASE Pro!IntError
  <2>1. /\ at = "exec" /\ card' = [Pro!Executed(card) EXCEPT !.failed = TRUE]
        /\ handler.next \in {"transfer", "ced"}
    BY <1>7 DEF Pro!IntError
  <2>2. DOMAIN card' = DOMAIN card
    BY <2>1, <1>1 DEF Pro!Executed
  <2>3. CASE handler.next = "ced"
    BY <1>7, <2>1, <2>2, <2>3, ProEnds DEF Pro!IntError
  <2>4. CASE handler.next = "transfer"
    <3> DEFINE page == IF mrq = "LONG" THEN pos.page + 1 ELSE pos.page
    <3>1. /\ mrq' = "STOP" /\ handler' = [handler EXCEPT !.next = "default"]
          /\ pos' = [pos EXCEPT !.page = page] /\ Pro!Goes
      BY <1>7, <2>4 DEF Pro!IntError, Pro!Send
    <3>2. page \in Nat
      BY <1>1
    <3>3. DOMAIN pos' = {"seg", "page"} /\ pos'.seg = pos.seg /\ pos'.page = page
      BY <3>1, <1>1
    <3>4. ProTypes' /\ at' = "exec" /\ handler'.mrq = "transfer" /\ block_req' = block_req
      BY <3>1, <3>2, <3>3, <1>1, <2>1, <2>2, ProGoes
    <3> QED BY <3>1, <3>3, <3>4, <1>1, <1>2, <2>1 DEF ProInv, ProPlace
  <2> QED BY <2>1, <2>3, <2>4
<1>8. CASE Pro!IntTransfer
  <2> DEFINE page == IF mrq = "LONG" THEN pos.page + 1 ELSE pos.page
             full == page = segs[pos.seg]
             last == full /\ pos.seg = L
  <2>1. at = "exec" /\ card' = Pro!Executed(card) /\ handler.next = "transfer" /\ Pro!Reports
    BY <1>8 DEF Pro!IntTransfer
  <2>2. DOMAIN card' = DOMAIN card
    BY <2>1, <1>1 DEF Pro!Executed
  <2>3. PICK bit \in {"BREQ", "CED", "none"} :
          /\ Pro!IntReg(bit)
          /\ \/ last /\ bit = "CED" /\ Pro!CompleteReq(FALSE)
             \/ /\ ~last \/ bit # "CED"
                /\ pos' = IF full THEN [seg |-> pos.seg + 1, page |-> 0]
                          ELSE [pos EXCEPT !.page = page]
                /\ handler' = IF last THEN [handler EXCEPT !.next = "ced"] ELSE handler
                /\ mrq' = IF ~last /\ bit = "BREQ" THEN "LONG" ELSE "GET_INT"
                /\ Pro!Goes
    BY <1>8 DEF Pro!IntTransfer, Pro!Send
  <2>4. /\ pos.seg \in 1 .. L /\ page \in Nat /\ page <= segs[pos.seg]
        /\ card'.moved = Pro!Before(segs, pos.seg) + page
    <3>1. mrq = "GET_INT" \/ (auto_int /\ mrq \in {"SET_CMD", "LONG"})
      BY <2>1 DEF Pro!Reports
    <3>2. CASE mrq = "SET_CMD"
      BY <3>2, <1>1, <1>2, <1>3, <2>1 DEF Pro!Executed, Begins
    <3>3. CASE mrq = "LONG"
      <4>1. pos.seg \in 1 .. L /\ pos.page < segs[pos.seg] /\ card.moved = Pro!Before(segs, pos.seg) + pos.page
        BY <3>3, <1>1, <1>2, <2>1 DEF Place
      <4>2. card'.moved = card.moved + 1
        BY <3>3, <2>1, <1>1 DEF Pro!Executed
      <4> QED BY <3>3, <4>1, <4>2, <1>1, <1>3
    <3>4. CASE mrq = "GET_INT"
      BY <3>4, <1>1, <1>2, <1>3, <2>1 DEF Place, Pro!Executed
    <3> QED BY <3>1, <3>2, <3>3, <3>4
  <2>5. CASE last /\ bit = "CED" /\ Pro!CompleteReq(FALSE)
    <3>1. card'.moved = Pro!Pages(segs)
      BY <2>3, <2>5 DEF Pro!IntReg
    <3> QED BY <2>1, <2>2, <2>5, <3>1, ProEnds
  <2>6. CASE /\ pos' = IF full THEN [seg |-> pos.seg + 1, page |-> 0]
                       ELSE [pos EXCEPT !.page = page]
             /\ handler' = IF last THEN [handler EXCEPT !.next = "ced"] ELSE handler
             /\ mrq' = IF ~last /\ bit = "BREQ" THEN "LONG" ELSE "GET_INT"
             /\ Pro!Goes
    <3>1. /\ DOMAIN pos' = {"seg", "page"} /\ pos'.seg = (IF full THEN pos.seg + 1 ELSE pos.seg)
          /\ pos'.page = IF full THEN 0 ELSE page
      BY <2>6, <1>1
    <3>2. ProTypes' /\ at' = "exec" /\ handler'.mrq = "transfer" /\ block_req' = block_req
      <4>1. /\ handler' = handler \/ handler' \in {[handler EXCEPT !.next = x] : x \in {"transfer", "ced", "default"}}
            /\ mrq' \in {"WRITE_REG", "SET_CMD", "GET_INT", "LONG", "STOP"}
            /\ pos'.seg \in Nat \ {0} /\ pos'.page \in Nat
        BY <2>6, <2>4, <3>1, <1>1
      <4> HIDE DEF full, last, page
      <4> QED BY <4>1, <3>1, <2>1, <2>2, <2>6, ProGoes
    <3>3. CASE last
      <4>1. handler'.next = "ced" /\ mrq' = "GET_INT" /\ pos'.seg = L + 1
        BY <2>6, <3>1, <3>3, <1>1
      <4> QED BY <3>2, <4>1, <1>1 DEF ProInv, ProPlace
    <3>4. CASE ~ last
      <4>1. handler' = handler /\ mrq' \in {"GET_INT", "LONG"}
        BY <2>6, <3>4
      <4>2. /\ pos'.seg \in 1 .. L /\ pos'.page < segs[pos'.seg] /\ pos'.page \in Nat
            /\ card'.moved = Pro!Before(segs, pos'.seg) + pos'.page
        <5>1. CASE full
          <6>1. pos.seg + 1 \in 1 .. L
            BY <5>1, <3>4, <2>4, <1>1
          <6>2. Pro!Before(segs, pos.seg + 1) = Pro!Before(segs, pos.seg) + page
            BY <5>1, <2>4, <1>3
          <6>3. Pro!Before(segs, pos.seg) \in Nat
            BY <2>4, <1>3
          <6> HIDE DEF page
          <6> QED BY <5>1, <6>1, <6>2, <6>3, <3>1, <2>4, <1>1
        <5>2. CASE ~ full
          BY <5>2, <2>4, <3>1, <1>1
        <5> QED BY <5>1, <5>2
      <4>3. Place'
        <5>1. segs' = segs /\ pos'.seg <= L
          BY <4>2, <3>2, <1>1
        <5> HIDE DEF page
        <5> QED BY <4>2, <5>1, <1>1 DEF Place
      <4>4. pos'.seg <= L + 1
        BY <4>2, <1>1
      <4> QED BY <4>1, <4>3, <4>4, <3>2, <2>1 DEF ProInv, ProPlace
    <3> QED BY <3>3, <3>4
  <2> QED BY <2>3, <2>5, <2>6
<1>9. CASE Pro!IntWait
  <2>1. at = "exec" /\ card' = Pro!Executed(card) /\ handler.next = "ced"
    BY <1>9 DEF Pro!IntWait
  <2>2. DOMAIN card' = DOMAIN card
    BY <2>1, <1>1 DEF Pro!Executed
  <2>3. CASE Pro!IntReg("CED") /\ Pro!CompleteReq(FALSE)
    <3>1. card'.moved = Pro!Pages(segs)
      BY <2>3 DEF Pro!IntReg
    <3> QED BY <2>1, <2>2, <2>3, <3>1, ProEnds
  <2>4. CASE mrq' = mrq /\ UNCHANGED <<handler, pos>> /\ Pro!Goes
    <3>1. ProTypes' /\ at' = "exec" /\ handler'.mrq = "transfer" /\ block_req' = block_req
      BY <2>1, <2>2, <2>4, <1>1, ProGoes
    <3> QED BY <3>1, <2>1, <2>4, <1>1, <1>2 DEF ProInv, ProPlace
  <2> QED BY <1>9, <2>3, <2>4 DEF Pro!IntWait, Pro!Send
<1> QED BY <1>4, <1>5, <1>6, <1>7, <1>8, <1>9 DEF Pro!Host

\* The page mspro_block.c transfers next is the one the card moves next, a page ended as
\* good has been moved unless the card had reported an error, and nobody is woken while a
\* request is on its way: for requests of any segments, and any failures.
THEOREM ProPagesInStep ==
  ASSUME Pro!ShapesAssumption PROVE Pro!Spec => []PagesInStep
<1>1. ProInv /\ UNCHANGED Pro!vars => ProInv'
  BY DEF Pro!vars, ProInv, ProTypes, ProPlace, Pro!TypeOK, Begins, Place
<1>2. ProInv /\ [Pro!Next]_Pro!vars => ProInv'
  BY <1>1, ProDriverStep, ProHostStep, ProQueueStep DEF Pro!Next
<1>3. Pro!Init => ProInv
  BY ProInit
<1>4. ProInv => PagesInStep
  BY DEF PagesInStep, ProInv, ProTypes, ProPlace, Place, Pro!PagesInStep, Pro!InStep, Pro!OkMeansMoved, Pro!QuietWhenWoken
<1> QED BY <1>2, <1>3, <1>4, PTL DEF Pro!Spec

-----------------------------------------------------------------------------
(* mspro_block.c, identification.                                          *)

Stages == {"idle", "rw_addr", "ced", "par4", "par8", "int", "rw_again", "serial", "ced_again",
           "get_ro", "first", "attr"}

\* Who waits for a transfer, and for what; what sleeps or is given back is not active.
IniTypes ==
  /\ stage \in Stages /\ caller \in {"probe", "resume"}
  /\ state \in {"none", "bound", "asleep", "removed"}
  /\ active \in BOOLEAN /\ medium \in Media /\ errors \in Nat /\ sleeps \in Nat
  /\ stage # "idle" => state = IF caller = "probe" THEN "none" ELSE "asleep"
  /\ active => state = "bound"
  /\ sleeps = 0 => caller = "probe" /\ state # "asleep"

\* Data: the users the disk counts.
IniUse ==
  /\ usage_count \in Nat /\ openers \in Nat /\ refused \in Nat /\ freed \in BOOLEAN
  /\ usage_count = (IF state \in {"bound", "asleep"} THEN 1 ELSE 0) + openers + refused
  /\ state = "none" => openers + refused = 0
  /\ freed <=> (state = "removed" /\ usage_count = 0)

\* The modes of host, card and driver, and what the driver takes the host for.
Serially  == {"rw_addr", "ced", "rw_again", "serial", "ced_again"}
IniModes ==
  /\ system = host_if
  /\ stage \in Serially \cup {"par4", "par8", "first", "attr"} => card_if = host_if
  /\ stage \in Serially => host_if = "serial"
  /\ stage \in Stages \ {"idle", "rw_addr", "first", "attr"} => "auto_get_int" \notin caps
  /\ stage \in {"first", "attr"} \/ active =>
       /\ card_if = host_if /\ ("auto_get_int" \in caps <=> system # "serial")
  /\ sleeps = 0 /\ active => disk.system = host_if /\ disk.caps = caps

\* As long as no transfer has failed the best mode is found.
Best     == IF "par4" \notin HostCaps THEN "serial"
            ELSE IF "par8" \in HostCaps THEN "par8" ELSE "par4"
BestCaps == IF Best = "serial" THEN HostCaps ELSE HostCaps \cup {"auto_get_int"}
IniPath ==
  errors = 0 =>
    /\ card_if = host_if /\ stage \notin {"rw_again", "serial", "ced_again"}
    /\ stage \in {"ced", "par4", "par8", "int", "get_ro"} => caps = HostCaps
    /\ stage \in {"par4", "par8", "int"} => "par4" \in HostCaps
    /\ stage = "par8" => "par8" \in HostCaps
    /\ stage \in {"int", "get_ro", "first", "attr"} \/ active => system = Best
    /\ stage \in {"first", "attr"} \/ active => caps = BestCaps
    /\ state \in {"bound", "asleep"} => disk.system = Best /\ disk.caps = BestCaps

\* Data of the attributes.
Datas   == UNION {[1 .. n -> Nat \cup {Unknown}] : n \in Nat}
IsTrue(e, data) == \/ data = [k \in 1 .. e.size |-> e.addr + k - 1]
                   \/ (e.addr % PageSize) + e.size > Ini!PagesFor(e) * PageSize
Told(list, m) == \A i \in DOMAIN list : IsTrue(m.attrs[i], list[i].data)
IniAttrs ==
  /\ attrs \in Seq([id : STRING, data : Datas])
  /\ buffer.page \in Nat /\ buffer.read \in Nat /\ buffer.count \in Nat
  /\ DOMAIN buffer = {"page", "read", "count"} 
  /\ stage = "attr" => buffer.read > 0 /\ Len(attrs) <= Ini!AttrCount
  /\ stage = "attr" \/ active => Told(attrs, medium)
  /\ active => disk.sys = medium.sys

\* Each stage is reached by a bounded number of transfers.
Reached(few, many) == transfers <= IF "par8" \in caps THEN few ELSE many
IniCount ==
  /\ transfers \in Nat
  /\ stage = "rw_addr" => transfers = 0
  /\ stage = "ced" => transfers <= 1
  /\ stage = "par4" => Reached(2, 8)
  /\ stage = "par8" => transfers <= 3 /\ "par8" \in caps
  /\ stage = "int" => Reached(4, 9)
  /\ stage = "rw_again" => Reached(5, 10)
  /\ stage = "serial" => Reached(6, 11)
  /\ stage = "ced_again" => Reached(7, 12)
  /\ stage = "get_ro" => transfers <= 13
  /\ stage = "first" => transfers <= 14
  /\ stage = "attr" => transfers <= 15 + Len(attrs)
  /\ transfers <= 15 + MaxAttributes

\* The invariant that is preserved by every step.
IniInv == IniTypes /\ IniUse /\ IniModes /\ IniPath /\ IniAttrs /\ IniCount

\* It holds in the beginning.
LEMMA IniInit ==
  ASSUME Ini!MediaAssumption, Ini!Init PROVE IniInv
<1> USE DEF Ini!Init
<1>1. IniTypes
  BY DEF IniTypes, Stages
<1>4. IniUse
  <2>1. usage_count = 0 /\ openers = 0 /\ refused = 0 /\ state = "none" /\ freed = FALSE
    OBVIOUS
  <2>2. usage_count = (IF state \in {"bound", "asleep"} THEN 1 ELSE 0) + openers + refused
    BY <2>1
  <2>3. freed <=> (state = "removed" /\ usage_count = 0)
    BY <2>1
  <2>4. /\ usage_count \in Nat /\ openers \in Nat /\ refused \in Nat
    BY <2>1
  <2>5. freed \in BOOLEAN
    BY <2>1, Zenon
  <2> QED BY <2>1, <2>2, <2>3, <2>4, <2>5 DEF IniUse
<1>5. IniModes
  BY DEF IniModes, Stages, Serially
<1>6. IniPath
  BY DEF IniPath
<1>2. IniAttrs
  BY DEF IniAttrs, Ini!AttrCount
<1>3. IniCount
  BY DEF IniCount, Ini!MediaAssumption
<1> QED BY <1>1, <1>2, <1>3, <1>4, <1>5, <1>6 DEF IniInv

\* The stages follow each other as the types say.
LEMMA IniTypesStep ==
  ASSUME IniTypes, [Ini!Next]_Ini!iniVars PROVE IniTypes'
<1> USE DEF IniTypes, Stages
<1>1. CASE Ini!Probe
  BY <1>1 DEF Ini!Probe, Ini!Starts, Ini!outside
<1>2. CASE Ini!SetRwAddr
  BY <1>2 DEF Ini!SetRwAddr, Ini!Good, Ini!Bad, Ini!Fails, Ini!outside
<1>3. CASE Ini!WaitForCed
  BY <1>3 DEF Ini!WaitForCed, Ini!Good, Ini!Bad, Ini!Fails, Ini!outside
<1>4. CASE Ini!SetPar4
  BY <1>4 DEF Ini!SetPar4, Ini!SetInterface, Ini!Good, Ini!Bad, Ini!outside
<1>5. CASE Ini!SetPar8
  BY <1>5 DEF Ini!SetPar8, Ini!SetInterface, Ini!Good, Ini!Bad, Ini!outside
<1>6. CASE Ini!CheckInt
  BY <1>6 DEF Ini!CheckInt, Ini!Good, Ini!Bad, Ini!outside
<1>7. CASE Ini!FallBack
  BY <1>7 DEF Ini!FallBack, Ini!Good, Ini!Bad, Ini!Fails, Ini!outside
<1>8. CASE Ini!GetRo
  BY <1>8 DEF Ini!GetRo, Ini!Good, Ini!Bad, Ini!Fails, Ini!outside
<1>9. CASE Ini!FirstPage
  BY <1>9 DEF Ini!FirstPage, Ini!Good, Ini!Bad, Ini!Fails, Ini!outside
<1>10. CASE Ini!ReadAttribute
  BY <1>10 DEF Ini!ReadAttribute, Ini!Good, Ini!Bad, Ini!Fails, Ini!outside
<1>11. CASE Ini!ReadyToBind
  BY <1>11 DEF Ini!ReadyToBind, Ini!Fails
<1>12. CASE Ini!Recognised
  BY <1>12 DEF Ini!Recognised, Ini!outside
<1>13. CASE Ini!Suspend
  <2>1. medium' \in Media /\ sleeps' \in Nat \ {0} /\ errors' = errors
    BY <1>13 DEF Ini!Suspend
  <2>2. stage' = stage /\ caller' = caller /\ state' = "asleep" /\ active' = FALSE /\ stage = "idle"
    BY <1>13 DEF Ini!Suspend
  <2> QED BY <2>1, <2>2
<1>14. CASE Ini!Resume
  BY <1>14 DEF Ini!Resume, Ini!Starts, Ini!outside
<1>15. CASE Ini!BdOpen
  BY <1>15 DEF Ini!BdOpen
<1>16. CASE Ini!BdRelease
  BY <1>16 DEF Ini!BdRelease, Ini!DiskRelease
<1>17. CASE Ini!RemoveDisk
  BY <1>17 DEF Ini!RemoveDisk, Ini!DiskRelease
<1>18. CASE UNCHANGED Ini!iniVars
  BY <1>18 DEF Ini!iniVars
<1> QED BY <1>1, <1>2, <1>3, <1>4, <1>5, <1>6, <1>7, <1>8, <1>9, <1>10, <1>11, <1>12, <1>13, <1>14, <1>15, <1>16, <1>17, <1>18 DEF Ini!Next, Ini!Identify

\* Opening, releasing and removing count the users as they are.
LEMMA IniUseStep ==
  ASSUME IniTypes, IniUse, [Ini!Next]_Ini!iniVars PROVE IniUse'
<1> USE DEF IniUse, IniTypes
<1>1. CASE Ini!Probe
  BY <1>1 DEF Ini!Probe, Ini!Starts, Ini!outside
<1>2. CASE Ini!SetRwAddr
  BY <1>2 DEF Ini!SetRwAddr, Ini!Good, Ini!Bad, Ini!Fails, Ini!outside
<1>3. CASE Ini!WaitForCed
  BY <1>3 DEF Ini!WaitForCed, Ini!Good, Ini!Bad, Ini!Fails, Ini!outside
<1>4. CASE Ini!SetPar4
  BY <1>4 DEF Ini!SetPar4, Ini!SetInterface, Ini!Good, Ini!Bad, Ini!outside
<1>5. CASE Ini!SetPar8
  BY <1>5 DEF Ini!SetPar8, Ini!SetInterface, Ini!Good, Ini!Bad, Ini!outside
<1>6. CASE Ini!CheckInt
  BY <1>6 DEF Ini!CheckInt, Ini!Good, Ini!Bad, Ini!outside
<1>7. CASE Ini!FallBack
  BY <1>7 DEF Ini!FallBack, Ini!Good, Ini!Bad, Ini!Fails, Ini!outside
<1>8. CASE Ini!GetRo
  BY <1>8 DEF Ini!GetRo, Ini!Good, Ini!Bad, Ini!Fails, Ini!outside
<1>9. CASE Ini!FirstPage
  BY <1>9 DEF Ini!FirstPage, Ini!Good, Ini!Bad, Ini!Fails, Ini!outside
<1>10. CASE Ini!ReadAttribute
  BY <1>10 DEF Ini!ReadAttribute, Ini!Good, Ini!Bad, Ini!Fails, Ini!outside
<1>11. CASE Ini!ReadyToBind
  BY <1>11 DEF Ini!ReadyToBind, Ini!Fails
<1>12. CASE Ini!Recognised
  BY <1>12 DEF Ini!Recognised, Ini!outside
<1>13. CASE Ini!Suspend
  BY <1>13 DEF Ini!Suspend
<1>14. CASE Ini!Resume
  BY <1>14 DEF Ini!Resume, Ini!Starts, Ini!outside
<1>15. CASE Ini!BdOpen
  BY <1>15 DEF Ini!BdOpen
<1>16. CASE Ini!BdRelease
  <2>1. freed' <=> (freed \/ usage_count' = 0)
    BY <1>16 DEF Ini!BdRelease, Ini!DiskRelease
  <2>2. usage_count > 0 /\ usage_count' = usage_count - 1 /\ freed' \in BOOLEAN
    BY <1>16 DEF Ini!BdRelease, Ini!DiskRelease
  <2> QED BY <1>16, <2>1, <2>2 DEF Ini!BdRelease
<1>17. CASE Ini!RemoveDisk
  <2>1. freed' <=> (freed \/ usage_count' = 0)
    BY <1>17 DEF Ini!RemoveDisk, Ini!DiskRelease
  <2>2. usage_count > 0 /\ usage_count' = usage_count - 1 /\ freed' \in BOOLEAN
    BY <1>17 DEF Ini!RemoveDisk, Ini!DiskRelease
  <2> QED BY <1>17, <2>1, <2>2 DEF Ini!RemoveDisk
<1>18. CASE UNCHANGED Ini!iniVars
  BY <1>18 DEF Ini!iniVars
<1> QED BY <1>1, <1>2, <1>3, <1>4, <1>5, <1>6, <1>7, <1>8, <1>9, <1>10, <1>11, <1>12, <1>13, <1>14, <1>15, <1>16, <1>17, <1>18 DEF Ini!Next, Ini!Identify

\* The modes are kept by every step, whoever falls back to which mode.
LEMMA IniModesStep ==
  ASSUME Ini!MediaAssumption, IniTypes, IniModes, [Ini!Next]_Ini!iniVars PROVE IniModes'
<1> USE DEF IniModes, IniTypes, Serially, Stages, Ini!MediaAssumption
<1>1. CASE Ini!Probe
  BY <1>1 DEF Ini!Probe, Ini!Starts, Ini!outside
<1>2. CASE Ini!SetRwAddr
  BY <1>2 DEF Ini!SetRwAddr, Ini!Good, Ini!Bad, Ini!Fails, Ini!outside
<1>3. CASE Ini!WaitForCed
  BY <1>3 DEF Ini!WaitForCed, Ini!Good, Ini!Bad, Ini!Fails, Ini!outside
<1>4. CASE Ini!SetPar4
  BY <1>4 DEF Ini!SetPar4, Ini!SetInterface, Ini!Good, Ini!Bad, Ini!outside
<1>5. CASE Ini!SetPar8
  BY <1>5 DEF Ini!SetPar8, Ini!SetInterface, Ini!Good, Ini!Bad, Ini!outside
<1>6. CASE Ini!CheckInt
  BY <1>6 DEF Ini!CheckInt, Ini!Good, Ini!Bad, Ini!outside
<1>7. CASE Ini!FallBack
  BY <1>7 DEF Ini!FallBack, Ini!Good, Ini!Bad, Ini!Fails, Ini!outside
<1>8. CASE Ini!GetRo
  BY <1>8 DEF Ini!GetRo, Ini!Good, Ini!Bad, Ini!Fails, Ini!outside
<1>9. CASE Ini!FirstPage
  BY <1>9 DEF Ini!FirstPage, Ini!Good, Ini!Bad, Ini!Fails, Ini!outside
<1>10. CASE Ini!ReadAttribute
  BY <1>10 DEF Ini!ReadAttribute, Ini!Good, Ini!Bad, Ini!Fails, Ini!outside
<1>11. CASE Ini!ReadyToBind
  BY <1>11 DEF Ini!ReadyToBind, Ini!Fails
<1>12. CASE Ini!Recognised
  BY <1>12 DEF Ini!Recognised, Ini!outside
<1>13. CASE Ini!Suspend
  BY <1>13 DEF Ini!Suspend
<1>14. CASE Ini!Resume
  BY <1>14 DEF Ini!Resume, Ini!Starts, Ini!outside
<1>15. CASE Ini!BdOpen
  BY <1>15 DEF Ini!BdOpen
<1>16. CASE Ini!BdRelease
  BY <1>16 DEF Ini!BdRelease, Ini!DiskRelease
<1>17. CASE Ini!RemoveDisk
  BY <1>17 DEF Ini!RemoveDisk, Ini!DiskRelease
<1>18. CASE UNCHANGED Ini!iniVars
  BY <1>18 DEF Ini!iniVars
<1> QED BY <1>1, <1>2, <1>3, <1>4, <1>5, <1>6, <1>7, <1>8, <1>9, <1>10, <1>11, <1>12, <1>13, <1>14, <1>15, <1>16, <1>17, <1>18 DEF Ini!Next, Ini!Identify

\* Without a failure there is one way through the stages.
LEMMA IniPathStep ==
  ASSUME Ini!MediaAssumption, IniTypes, IniModes, IniPath, [Ini!Next]_Ini!iniVars PROVE IniPath'
<1> USE DEF IniPath, IniModes, IniTypes, Serially, Stages, Best, BestCaps, Ini!MediaAssumption
<1>1. CASE Ini!Probe
  BY <1>1 DEF Ini!Probe, Ini!Starts, Ini!outside
<1>2. CASE Ini!SetRwAddr
  BY <1>2 DEF Ini!SetRwAddr, Ini!Good, Ini!Bad, Ini!Fails, Ini!outside
<1>3. CASE Ini!WaitForCed
  BY <1>3 DEF Ini!WaitForCed, Ini!Good, Ini!Bad, Ini!Fails, Ini!outside
<1>4. CASE Ini!SetPar4
  BY <1>4 DEF Ini!SetPar4, Ini!SetInterface, Ini!Good, Ini!Bad, Ini!outside
<1>5. CASE Ini!SetPar8
  BY <1>5 DEF Ini!SetPar8, Ini!SetInterface, Ini!Good, Ini!Bad, Ini!outside
<1>6. CASE Ini!CheckInt
  BY <1>6 DEF Ini!CheckInt, Ini!Good, Ini!Bad, Ini!outside
<1>7. CASE Ini!FallBack
  BY <1>7 DEF Ini!FallBack, Ini!Good, Ini!Bad, Ini!Fails, Ini!outside
<1>8. CASE Ini!GetRo
  BY <1>8 DEF Ini!GetRo, Ini!Good, Ini!Bad, Ini!Fails, Ini!outside
<1>9. CASE Ini!FirstPage
  BY <1>9 DEF Ini!FirstPage, Ini!Good, Ini!Bad, Ini!Fails, Ini!outside
<1>10. CASE Ini!ReadAttribute
  BY <1>10 DEF Ini!ReadAttribute, Ini!Good, Ini!Bad, Ini!Fails, Ini!outside
<1>11. CASE Ini!ReadyToBind
  <2>1. errors' = errors /\ card_if' = card_if /\ host_if' = host_if /\ caps' = caps /\ system' = system
        /\ stage' = "idle" /\ stage = "attr" /\ state = "none"
    BY <1>11 DEF Ini!ReadyToBind, Ini!Fails
  <2>2. \/ state' = "none" /\ active' = active
        \/ /\ state' = "bound" /\ disk'.system = system /\ disk'.caps = caps
    BY <1>11 DEF Ini!ReadyToBind, Ini!Fails
  <2> QED BY <2>1, <2>2
<1>12. CASE Ini!Recognised
  BY <1>12 DEF Ini!Recognised, Ini!outside
<1>13. CASE Ini!Suspend
  BY <1>13 DEF Ini!Suspend
<1>14. CASE Ini!Resume
  BY <1>14 DEF Ini!Resume, Ini!Starts, Ini!outside
<1>15. CASE Ini!BdOpen
  BY <1>15 DEF Ini!BdOpen
<1>16. CASE Ini!BdRelease
  BY <1>16 DEF Ini!BdRelease, Ini!DiskRelease
<1>17. CASE Ini!RemoveDisk
  BY <1>17 DEF Ini!RemoveDisk, Ini!DiskRelease
<1>18. CASE UNCHANGED Ini!iniVars
  BY <1>18 DEF Ini!iniVars
<1> QED BY <1>1, <1>2, <1>3, <1>4, <1>5, <1>6, <1>7, <1>8, <1>9, <1>10, <1>11, <1>12, <1>13, <1>14, <1>15, <1>16, <1>17, <1>18 DEF Ini!Next, Ini!Identify

\* Division of addresses into pages.
LEMMA DivMod ==
  ASSUME NEW P \in Nat \ {0}, NEW a \in Nat
  PROVE  a \div P \in Nat /\ a % P \in 0 .. P - 1 /\ a = (a \div P) * P + (a % P)
OBVIOUS

\* A multiple is no smaller.
LEMMA Multiple ==
  ASSUME NEW P \in Nat, NEW k \in Nat \ {0}
  PROVE  k * P \in Nat /\ P <= k * P
OBVIOUS

\* Bytes in one page follow each other.
LEMMA SamePage ==
  ASSUME NEW P \in Nat \ {0}, NEW a \in Nat, NEW n \in Nat \ {0},
         (a + n - 1) \div P = a \div P
  PROVE  (a % P) + n <= P
<1> DEFINE q == a \div P
           r == a % P
           t == (a + n - 1) % P
<1>1. q \in Nat /\ r \in Nat /\ a = q * P + r
  BY DivMod
<1>2. a + n - 1 \in Nat /\ t \in 0 .. P - 1
  BY DivMod
<1>3. a + n - 1 = q * P + t
  BY <1>2, DivMod
<1>4. q * P \in Nat
  BY <1>1
<1> HIDE DEF q, r, t
<1>5. r + n - 1 = t
  BY <1>1, <1>2, <1>3, <1>4
<1> QED BY <1>5, <1>2, <1>1 DEF r

\* What is copied from the buffer are the bytes of the page, as far as they were read.
LEMMA CopyIsTrue ==
  ASSUME Ini!MediaAssumption, NEW e, e.addr \in Nat, e.size \in Nat,
         NEW buf, buf.page \in Nat, buf.read \in Nat,
         e.size # 0 => /\ e.addr \div PageSize = buf.page
                       /\ (e.addr % PageSize) + e.size <= buf.read * PageSize
                          \/ (e.addr % PageSize) + e.size > Ini!PagesFor(e) * PageSize
  PROVE  Ini!Copied(buf, e) \in Datas /\ IsTrue(e, Ini!Copied(buf, e))
<1> DEFINE r == e.addr % PageSize
           i(k) == r + k - 1
           B == buf.page * PageSize
           R == buf.read * PageSize
<1>1. PageSize \in Nat \ {0} /\ B \in Nat /\ R \in Nat
  BY DEF Ini!MediaAssumption
<1>2. r \in Nat /\ (e.size # 0 => e.addr = B + r)
  <2>1. r \in 0 .. PageSize - 1 /\ e.addr = (e.addr \div PageSize) * PageSize + r
    BY <1>1, DivMod
  <2>2. e.size # 0 => (e.addr \div PageSize) * PageSize = B
    OBVIOUS
  <2> HIDE DEF B
  <2> QED BY <1>1, <2>1, <2>2
<1>3. Ini!Copied(buf, e) = [k \in 1 .. e.size |-> IF i(k) < R THEN B + i(k) ELSE Unknown]
  BY DEF Ini!Copied
<1> HIDE DEF r, B, R
<1>4. Ini!Copied(buf, e) \in [1 .. e.size -> Nat \cup {Unknown}]
  BY <1>1, <1>2, <1>3
<1>5. Ini!Copied(buf, e) \in Datas
  BY <1>4 DEF Datas
<1>6. CASE e.size = 0 \/ r + e.size <= R
  <2>1. \A k \in 1 .. e.size : i(k) < R /\ B + i(k) = e.addr + k - 1
    BY <1>1, <1>2, <1>6
  <2>2. Ini!Copied(buf, e) = [k \in 1 .. e.size |-> e.addr + k - 1]
    BY <1>3, <2>1
  <2> QED BY <1>5, <2>2 DEF IsTrue
<1>7. CASE e.size # 0 /\ ~ (r + e.size <= R)
  BY <1>5, <1>7 DEF IsTrue, r, R
<1> QED BY <1>6, <1>7

\* Each attribute that is added is true.
LEMMA IniAttrsStep ==
  ASSUME Ini!MediaAssumption, IniTypes, IniModes, IniAttrs, [Ini!Next]_Ini!iniVars PROVE IniAttrs'
<1> USE DEF IniAttrs, IniTypes, IniModes, Serially, Stages, Ini!AttrCount
<1>0. ASSUME Ini!Fails, stage # "idle", UNCHANGED medium PROVE IniAttrs'
  <2>1. stage' = "idle" /\ attrs' = <<>> /\ ~ active /\ UNCHANGED <<buffer, disk, active>>
    BY <1>0 DEF Ini!Fails
  <2> QED BY <2>1
<1>1. CASE Ini!Probe
  BY <1>1 DEF Ini!Probe, Ini!Starts, Ini!outside
<1>2. CASE Ini!SetRwAddr
  <2>1. Ini!Fails \/ (UNCHANGED <<attrs, buffer, disk, active>> /\ stage' # "attr")
    BY <1>2 DEF Ini!SetRwAddr
  <2> QED BY <1>2, <1>0, <2>1 DEF Ini!SetRwAddr, Ini!outside
<1>3. CASE Ini!WaitForCed
  <2>1. Ini!Fails \/ (UNCHANGED <<attrs, buffer, disk, active>> /\ stage' # "attr")
    BY <1>3 DEF Ini!WaitForCed
  <2> QED BY <1>3, <1>0, <2>1 DEF Ini!WaitForCed, Ini!outside
<1>4. CASE Ini!SetPar4
  BY <1>4 DEF Ini!SetPar4, Ini!SetInterface, Ini!Good, Ini!Bad, Ini!outside
<1>5. CASE Ini!SetPar8
  BY <1>5 DEF Ini!SetPar8, Ini!SetInterface, Ini!Good, Ini!Bad, Ini!outside
<1>6. CASE Ini!CheckInt
  BY <1>6 DEF Ini!CheckInt, Ini!Good, Ini!Bad, Ini!outside
<1>7. CASE Ini!FallBack
  <2>1. Ini!Fails \/ (UNCHANGED <<attrs, buffer, disk, active>> /\ stage' # "attr")
    BY <1>7 DEF Ini!FallBack
  <2> QED BY <1>7, <1>0, <2>1 DEF Ini!FallBack, Ini!outside
<1>8. CASE Ini!GetRo
  <2>1. Ini!Fails \/ (UNCHANGED <<attrs, buffer, disk, active>> /\ stage' # "attr")
    BY <1>8 DEF Ini!GetRo
  <2> QED BY <1>8, <1>0, <2>1 DEF Ini!GetRo, Ini!outside
<1>9. CASE Ini!FirstPage
  <2>1. Told(<<>>, medium)
    BY DEF Told
  <2>2. /\ attrs' = <<>> /\ UNCHANGED <<disk, active, medium>> /\ stage' \in {"idle", "attr"} /\ ~ active
        /\ buffer' \in {buffer, [page |-> 0, read |-> 1, count |-> 1]}
        /\ stage' = "attr" => buffer'.read = 1
    BY <1>9 DEF Ini!FirstPage, Ini!Good, Ini!Bad, Ini!Fails, Ini!outside
  <2>3. Len(<<>>) <= Ini!AttrCount
    BY DEF Ini!MediaAssumption
  <2> QED BY <2>1, <2>2, <2>3
<1>10. CASE Ini!ReadAttribute
  <2> DEFINE e == Ini!Entry
             n == Len(attrs) + 1
  <2>1. CASE Ini!Fails /\ UNCHANGED medium
    BY <1>10, <1>0, <2>1 DEF Ini!ReadAttribute
  <2>2. ASSUME NEW buf,
               stage = "attr", Len(attrs) < Ini!AttrCount,
               buffer' = buf, attrs' = Append(attrs, [id |-> e.id, data |-> Ini!Copied(buf, e)]),
               UNCHANGED <<stage, disk, active, medium>>,
               \/ (e.size = 0 \/ Ini!InBuffer(e)) /\ buf = buffer
               \/ e.size # 0 /\ ~ Ini!InBuffer(e) /\ buf = Ini!Filled(buffer, e)
        PROVE  IniAttrs'
    <3>1. medium.attrs \in Seq([id : STRING, addr : Nat, size : Nat]) /\ PageSize \in Nat \ {0}
          /\ Len(medium.attrs) \in Nat /\ Len(attrs) \in Nat /\ MaxAttributes \in Nat
      BY DEF Ini!MediaAssumption
    <3>2. n \in 1 .. Len(medium.attrs) /\ e = medium.attrs[n]
      BY <2>2, <3>1 DEF Ini!Entry
    <3>3. e.id \in STRING /\ e.addr \in Nat /\ e.size \in Nat
      <4>1. DOMAIN medium.attrs = 1 .. Len(medium.attrs)
        BY <3>1
      <4>2. medium.attrs[n] \in [id : STRING, addr : Nat, size : Nat]
        BY <3>1, <3>2, ElementOfSeq
      <4> QED BY <3>2, <4>2
    <3>4. /\ buf.page \in Nat /\ buf.read \in Nat \ {0} /\ buf.count \in Nat
          /\ DOMAIN buf = {"page", "read", "count"}
      <4>1. CASE buf = buffer
        BY <2>2, <4>1
      <4>2. CASE buf = Ini!Filled(buffer, e)
        <5>1. e.addr \div PageSize \in Nat /\ e.size \div PageSize \in Nat
          BY <3>1, <3>3, DivMod
        <5> QED BY <4>2, <5>1 DEF Ini!Filled, Ini!PagesFor
      <4> QED BY <2>2, <4>1, <4>2
    <3>5. e.size # 0 => /\ e.addr \div PageSize = buf.page
                        /\ (e.addr % PageSize) + e.size <= buf.read * PageSize
                           \/ (e.addr % PageSize) + e.size > Ini!PagesFor(e) * PageSize
      <4> SUFFICES ASSUME e.size # 0
                   PROVE  /\ e.addr \div PageSize = buf.page
                          /\ (e.addr % PageSize) + e.size <= buf.read * PageSize
                             \/ (e.addr % PageSize) + e.size > Ini!PagesFor(e) * PageSize
        OBVIOUS
      <4>1. CASE Ini!InBuffer(e) /\ buf = buffer
        <5>1. e.addr \div PageSize = buf.page /\ (e.addr + e.size - 1) \div PageSize = e.addr \div PageSize
          BY <4>1 DEF Ini!InBuffer
        <5>2. (e.addr % PageSize) + e.size <= PageSize
          BY <5>1, <3>1, <3>3, SamePage
        <5>3. PageSize <= buf.read * PageSize /\ buf.read * PageSize \in Nat
          BY <3>1, <3>4, Multiple
        <5>4. e.addr % PageSize \in Nat
          BY <3>1, <3>3, DivMod
        <5> QED BY <5>1, <5>2, <5>3, <5>4, <3>1, <3>3
      <4>2. CASE buf = Ini!Filled(buffer, e)
        <5>1. buf.page = e.addr \div PageSize /\ buf.read = Ini!PagesFor(e)
          BY <4>2 DEF Ini!Filled
        <5>2. (e.addr % PageSize) \in Nat /\ buf.read * PageSize \in Nat
          <6>1. e.addr % PageSize \in Nat
            BY <3>1, <3>3, DivMod
          <6> QED BY <6>1, <3>1, <3>4, Multiple
        <5> QED BY <5>1, <5>2, <3>3
      <4> QED BY <2>2, <4>1, <4>2
    <3>6. Ini!Copied(buf, e) \in Datas /\ IsTrue(e, Ini!Copied(buf, e))
      BY <3>3, <3>4, <3>5, CopyIsTrue
    <3> DEFINE c == [id |-> e.id, data |-> Ini!Copied(buf, e)]
    <3>7. c \in [id : STRING, data : Datas] /\ c.data = Ini!Copied(buf, e)
      BY <3>3, <3>6
    <3> HIDE DEF c, e
    <3>8. /\ Append(attrs, c) \in Seq([id : STRING, data : Datas]) /\ Len(Append(attrs, c)) = n
          /\ DOMAIN Append(attrs, c) = 1 .. n /\ Append(attrs, c)[n] = c
          /\ \A i \in 1 .. n : i # n => i \in DOMAIN attrs /\ Append(attrs, c)[i] = attrs[i]
      BY <3>7
    <3>9. Told(Append(attrs, c), medium)
      BY <2>2, <3>2, <3>6, <3>7, <3>8 DEF Told
    <3>10. attrs' = Append(attrs, c)
      BY <2>2 DEF c
    <3>11. n <= Ini!AttrCount
      BY <2>2, <3>1
    <3> QED BY <2>2, <3>4, <3>8, <3>9, <3>10, <3>11
  <2>3. \/ Ini!Fails /\ UNCHANGED medium
        \/ \E buf \in {buffer, Ini!Filled(buffer, e)} :
             /\ stage = "attr" /\ Len(attrs) < Ini!AttrCount
             /\ buffer' = buf /\ attrs' = Append(attrs, [id |-> e.id, data |-> Ini!Copied(buf, e)])
             /\ UNCHANGED <<stage, disk, active, medium>>
             /\ \/ (e.size = 0 \/ Ini!InBuffer(e)) /\ buf = buffer
                \/ e.size # 0 /\ ~ Ini!InBuffer(e) /\ buf = Ini!Filled(buffer, e)
    <3> HIDE DEF e
    <3> QED BY <1>10 DEF e, Ini!ReadAttribute, Ini!outside
  <2> HIDE DEF e
  <2> QED BY <2>1, <2>2, <2>3
<1>11. CASE Ini!ReadyToBind
  <2>1. CASE Ini!Fails
    BY <1>11, <1>0, <2>1 DEF Ini!ReadyToBind
  <2>2. CASE /\ stage' = "idle" /\ UNCHANGED <<attrs, buffer, medium>>
             /\ stage = "attr" /\ disk' = [sys |-> medium.sys, system |-> system, caps |-> caps]
    BY <2>2
  <2> QED BY <1>11, <2>1, <2>2 DEF Ini!ReadyToBind
<1>12. CASE Ini!Recognised
  BY <1>12 DEF Ini!Recognised, Ini!outside
<1>13. CASE Ini!Suspend
  BY <1>13 DEF Ini!Suspend
<1>14. CASE Ini!Resume
  <2>1. (attrs' = attrs \/ attrs' = <<>>) /\ UNCHANGED <<buffer, disk, active, medium>> /\ stage' # "attr" /\ ~ active /\ ~ active'
    BY <1>14 DEF Ini!Resume, Ini!Starts, Ini!outside
  <2>2. attrs' \in Seq([id : STRING, data : Datas])
    BY <2>1, EmptySeq
  <2> QED BY <2>1, <2>2
<1>15. CASE Ini!BdOpen
  BY <1>15 DEF Ini!BdOpen
<1>16. CASE Ini!BdRelease
  BY <1>16 DEF Ini!BdRelease, Ini!DiskRelease
<1>17. CASE Ini!RemoveDisk
  BY <1>17 DEF Ini!RemoveDisk, Ini!DiskRelease
<1>18. CASE UNCHANGED Ini!iniVars
  BY <1>18 DEF Ini!iniVars
<1> QED BY <1>1, <1>2, <1>3, <1>4, <1>5, <1>6, <1>7, <1>8, <1>9, <1>10, <1>11, <1>12, <1>13, <1>14, <1>15, <1>16, <1>17, <1>18 DEF Ini!Next, Ini!Identify

\* No stage is reached by more transfers than that.
LEMMA IniCountStep ==
  ASSUME Ini!MediaAssumption, IniTypes, IniModes, IniAttrs, IniCount, [Ini!Next]_Ini!iniVars PROVE IniCount'
<1> USE DEF IniCount, IniTypes, Reached, Stages, Ini!MediaAssumption
<1>1. CASE Ini!Probe
  BY <1>1 DEF Ini!Probe, Ini!Starts, Ini!outside
<1>2. CASE Ini!SetRwAddr
  BY <1>2 DEF Ini!SetRwAddr, Ini!Good, Ini!Bad, Ini!Fails, Ini!outside
<1>3. CASE Ini!WaitForCed
  BY <1>3 DEF Ini!WaitForCed, Ini!Good, Ini!Bad, Ini!Fails, Ini!outside
<1>4. CASE Ini!SetPar4
  BY <1>4 DEF Ini!SetPar4, Ini!SetInterface, Ini!Good, Ini!Bad, Ini!outside
<1>5. CASE Ini!SetPar8
  BY <1>5 DEF Ini!SetPar8, Ini!SetInterface, Ini!Good, Ini!Bad, Ini!outside
<1>6. CASE Ini!CheckInt
  BY <1>6 DEF Ini!CheckInt, Ini!Good, Ini!Bad, Ini!outside
<1>7. CASE Ini!FallBack
  <2>1. CASE Ini!Fails /\ Ini!Bad
    BY <1>7, <2>1 DEF Ini!FallBack, Ini!Bad, Ini!Fails, Ini!MediaAssumption
  <2>2. CASE stage = "rw_again" /\ transfers' = transfers + 1 /\ stage' = "serial" /\ UNCHANGED caps
    BY <2>2, <1>7 DEF Ini!MediaAssumption
  <2>3. CASE stage = "serial" /\ transfers' = transfers + 1 /\ stage' = "ced_again" /\ UNCHANGED caps
    BY <2>3, <1>7 DEF Ini!MediaAssumption
  <2>4. CASE stage = "ced_again" /\ transfers' = transfers + 1 /\ caps' = caps \ {"par8"}
             /\ stage' = IF "par8" \in caps THEN "par4" ELSE "get_ro"
    BY <2>4, <1>7 DEF Ini!MediaAssumption
  <2> QED BY <1>7, <2>1, <2>2, <2>3, <2>4 DEF Ini!FallBack, Ini!Good
<1>8. CASE Ini!GetRo
  BY <1>8 DEF Ini!GetRo, Ini!Good, Ini!Bad, Ini!Fails, Ini!outside
<1>9. CASE Ini!FirstPage
  BY <1>9 DEF Ini!FirstPage, Ini!Good, Ini!Bad, Ini!Fails, Ini!outside, Ini!MediaAssumption
<1>10. CASE Ini!ReadAttribute
  <2>1. medium.attrs \in Seq([id : STRING, addr : Nat, size : Nat]) /\ MaxAttributes \in Nat
    BY DEF Ini!MediaAssumption
  <2>2. attrs \in Seq([id : STRING, data : Datas]) /\ stage = "attr" /\ Len(attrs) < Ini!AttrCount
    BY <1>10 DEF IniAttrs, Ini!ReadAttribute
  <2>3. Len(attrs) \in Nat /\ Len(attrs) + 1 <= MaxAttributes
    BY <2>1, <2>2 DEF Ini!AttrCount
  <2>4. transfers' \in {transfers, transfers + 1}
    BY <1>10 DEF Ini!ReadAttribute, Ini!Good, Ini!Bad
  <2>5. \/ stage' = "idle"
        \/ stage' = "attr" /\ \E c : attrs' = Append(attrs, c)
    BY <1>10, <2>2 DEF Ini!ReadAttribute, Ini!Fails
  <2>6. (\E c : attrs' = Append(attrs, c)) => Len(attrs') = Len(attrs) + 1
    BY <2>2
  <2> QED BY <2>1, <2>2, <2>3, <2>4, <2>5, <2>6
<1>11. CASE Ini!ReadyToBind
  BY <1>11 DEF Ini!ReadyToBind, Ini!Fails
<1>12. CASE Ini!Recognised
  BY <1>12 DEF Ini!Recognised, Ini!outside
<1>13. CASE Ini!Suspend
  BY <1>13 DEF Ini!Suspend
<1>14. CASE Ini!Resume
  BY <1>14 DEF Ini!Resume, Ini!Starts, Ini!outside
<1>15. CASE Ini!BdOpen
  BY <1>15 DEF Ini!BdOpen
<1>16. CASE Ini!BdRelease
  BY <1>16 DEF Ini!BdRelease, Ini!DiskRelease
<1>17. CASE Ini!RemoveDisk
  BY <1>17 DEF Ini!RemoveDisk, Ini!DiskRelease
<1>18. CASE UNCHANGED Ini!iniVars
  BY <1>18 DEF Ini!iniVars
<1> QED BY <1>1, <1>2, <1>3, <1>4, <1>5, <1>6, <1>7, <1>8, <1>9, <1>10, <1>11, <1>12, <1>13, <1>14, <1>15, <1>16, <1>17, <1>18 DEF Ini!Next, Ini!Identify

\* What probe() and resume() identify a card by is what it holds, in the mode the host is
\* in, each identification takes a bounded number of transfers, and the data of the disk
\* are kept until its last user is gone: for any card, host and number of failures.
THEOREM IniIdentityKept ==
  ASSUME Ini!MediaAssumption
  PROVE  Ini!Init /\ [][Ini!Next]_Ini!iniVars => []IdentityKept
<1>1. IniInv /\ [Ini!Next]_Ini!iniVars => IniInv'
  BY IniTypesStep, IniUseStep, IniModesStep, IniPathStep, IniAttrsStep, IniCountStep DEF IniInv
<1>2. Ini!Init => IniInv
  BY IniInit
<1>3. IniInv => IdentityKept
  <2> SUFFICES ASSUME IniInv PROVE IdentityKept
    OBVIOUS
  <2> USE DEF IniInv
  <2>1. Ini!ModesAgree
    BY DEF Ini!ModesAgree, IniModes, IniPath, IniTypes
  <2>2. Ini!AttributesTrue
    BY DEF Ini!AttributesTrue, IniAttrs, IniTypes, Told, IsTrue
  <2>3. Ini!SameMedium
    BY DEF Ini!SameMedium, IniAttrs, IniTypes
  <2>4. Ini!DataLive
    BY DEF Ini!DataLive, IniUse, IniTypes
  <2>5. Ini!Ends
    BY DEF Ini!Ends, IniCount
  <2> QED BY <2>1, <2>2, <2>3, <2>4, <2>5 DEF IdentityKept, Ini!IdentityKept
<1> QED BY <1>1, <1>2, <1>3, PTL

-----------------------------------------------------------------------------
(* jmb38x_ms.c, the slots of an adapter.                                   *)

\* What probe(), remove() and set_param() keep of each slot.
JmTypes ==
  /\ host_cnt \in 0 .. MaxSlots /\ cnt \in 0 .. host_cnt
  /\ jm_at = "add" => cnt < host_cnt
  /\ mode \in [Jm!Slots -> {"off", "serial", "par4", "par8"}]
  /\ delay \in [Jm!Slots -> Nat]
  /\ DOMAIN seen = Jm!Slots /\ pins \subseteq Jm!Slots
  /\ asleep \in BOOLEAN

\* What the function holds for itself, for each slot, and while it is bound.
Function(x) == {<<MaxSlots, x>>}
Things      == {"host", "regs", "irq", "added"}
Whole(n)    == (0 .. n - 1) \X Things
Bound == Function("jm") \cup Function("regions")
Base  == Bound \cup (IF asleep THEN {} ELSE Function("enabled"))

\* What is held at each step of probe() and remove().
JmStage ==
  /\ asleep => jm_at = "bound"
  /\ jm_at = "unbound" => jm_held = {}
  /\ jm_at = "regions" => jm_held = Function("enabled")
  /\ jm_at \in {"count", "memory"} => jm_held = Function("enabled") \cup Function("regions")
  /\ jm_at \in {"host", "end", "bound"} => jm_held = Base \cup Whole(cnt)
  /\ jm_at = "add" => jm_held = Base \cup Whole(cnt) \cup (Jm!Of(cnt) \ {<<cnt, "added">>})
  /\ jm_at = "remove" => \E n \in 0 .. cnt : jm_held = Base \cup (Whole(cnt) \ Whole(n))
  /\ jm_at \in {"unbound", "regions", "count", "memory"} => cnt = 0
  /\ jm_at = "bound" => cnt > 0
  /\ jm_at \in {"failed", "gone"} => jm_held \subseteq Jm!Excused
  /\ jm_at \in {"unbound", "regions", "count", "memory", "host", "add", "end", "bound",
                "remove", "failed", "gone"}

\* Interrupts reach only hosts that are there, or about to be.
JmPins == \A s \in pins : <<s, "host">> \in jm_held \/ s = cnt

\* A delay that has been read is still true when it is used: one thread sets the clocks.
JmDelays ==
  /\ \A s \in Jm!Slots : seen[s] # Jm!Unread => seen[s] = delay /\ mode[s] # "off"
  /\ \A s, r \in Jm!Slots : seen[s] # Jm!Unread /\ seen[r] # Jm!Unread => s = r
  /\ Jm!DelaysApart

\* The invariant that is preserved by every step.
JmInv == JmTypes /\ JmStage /\ JmPins /\ JmDelays

\* It holds in the beginning.
LEMMA JmInit == ASSUME MaxSlots \in Nat, Jm!Init PROVE JmInv
<1>1. JmTypes
  <2> USE DEF Jm!Init, JmTypes
  <2>1. host_cnt \in 0 .. MaxSlots /\ cnt \in 0 .. host_cnt
    OBVIOUS
  <2>2. /\ mode \in [Jm!Slots -> {"off", "serial", "par4", "par8"}]
        /\ delay \in [Jm!Slots -> Nat] /\ DOMAIN seen = Jm!Slots
    OBVIOUS
  <2> QED BY <2>1, <2>2
<1>2. JmStage
  BY DEF JmStage, Jm!Init
<1>3. JmPins /\ JmDelays
  BY DEF JmPins, JmDelays, Jm!Init, Jm!DelaysApart
<1> QED BY <1>1, <1>2, <1>3 DEF JmInv

\* The clock delays, which the steps of probe() and remove() but for one leave alone.
LEMMA JmDelaysStep ==
  ASSUME MaxSlots \in Nat, OneThread, JmInv, [Jm!Next]_Jm!jmbVars PROVE JmDelays'
<1> USE DEF JmInv, JmDelays, Jm!DelaysApart, Jm!DelayOf
<1>1. CASE UNCHANGED <<mode, delay, seen>>
  BY <1>1
<1>2. CASE Jm!RemoveHost
  BY <1>2 DEF Jm!RemoveHost, JmTypes
<1>3. CASE Jm!PowerOn
  BY <1>3 DEF Jm!PowerOn, JmTypes, Jm!MaySet, Jm!Idle
<1>4. CASE Jm!PowerOff
  BY <1>4 DEF Jm!PowerOff, JmTypes, Jm!MaySet, Jm!Idle
<1>5. CASE Jm!ReadDelay
  BY <1>5 DEF Jm!ReadDelay, JmTypes, Jm!MaySet, Jm!Idle
<1>6. CASE Jm!SetInterface
  BY <1>6 DEF Jm!SetInterface, JmTypes
<1>7. CASE Jm!Suspend
  BY <1>7 DEF Jm!Suspend, JmTypes, Jm!Idle
<1>8. CASE Jm!Resume
  BY <1>8, <1>1 DEF Jm!Resume
<1> QED
  BY <1>1, <1>2, <1>3, <1>4, <1>5, <1>6, <1>7, <1>8
     DEF Jm!Next, Jm!jmbVars, Jm!Enable, Jm!Regions, Jm!CountSlots, Jm!Memory, Jm!AllocHost,
         Jm!AddHost, Jm!ProbeEnds, Jm!RemoveEnds, Jm!Takes, Jm!paramVars

\* The steps keep the types.
LEMMA JmTypesStep ==
  ASSUME MaxSlots \in Nat, OneThread, JmInv, [Jm!Next]_Jm!jmbVars PROVE JmTypes'
<1> DEFINE same == UNCHANGED <<host_cnt, cnt, mode, delay, seen, asleep>>
<1>1. CASE Jm!Enable \/ Jm!Regions \/ Jm!Memory
  BY <1>1 DEF JmInv, JmTypes, Jm!Enable, Jm!Regions, Jm!Memory, Jm!Takes, Jm!paramVars
<1>2. CASE Jm!CountSlots
  BY <1>2 DEF JmInv, JmTypes, Jm!CountSlots, Jm!paramVars
<1>3. CASE Jm!AllocHost
  <2>1. cnt \in Jm!Slots
    BY <1>3 DEF JmInv, JmTypes, Jm!AllocHost, Jm!Slots
  <2>2. pins' \subseteq Jm!Slots
    BY <1>3, <2>1 DEF JmInv, JmTypes, Jm!AllocHost
  <2> QED BY <1>3, <2>2 DEF JmInv, JmTypes, Jm!AllocHost, Jm!paramVars
<1>4. CASE Jm!AddHost
  BY <1>4 DEF JmInv, JmTypes, Jm!AddHost, Jm!paramVars
<1>5. CASE Jm!ProbeEnds \/ Jm!RemoveEnds
  BY <1>5 DEF JmInv, JmTypes, Jm!ProbeEnds, Jm!RemoveEnds, Jm!paramVars
<1>6. CASE Jm!RemoveHost
  BY <1>6 DEF JmInv, JmTypes, Jm!RemoveHost
<1>7. CASE Jm!PowerOn \/ Jm!PowerOff
  BY <1>7 DEF JmInv, JmTypes, Jm!PowerOn, Jm!PowerOff
<1>8. CASE Jm!ReadDelay
  BY <1>8 DEF JmInv, JmTypes, Jm!ReadDelay
<1>9. CASE Jm!SetInterface
  <2>1. PICK s \in Jm!Slots, m \in {"serial", "par4", "par8"} :
          /\ seen[s] # Jm!Unread /\ mode' = [mode EXCEPT ![s] = m]
          /\ delay' = [seen[s] EXCEPT ![s] = Jm!DelayOf(m)]
          /\ seen' = [seen EXCEPT ![s] = Jm!Unread]
    BY <1>9 DEF Jm!SetInterface
  <2>2. seen[s] = delay /\ Jm!DelayOf(m) \in Nat
    BY <2>1 DEF JmInv, JmDelays, Jm!DelayOf
  <2> QED BY <1>9, <2>1, <2>2 DEF JmInv, JmTypes, Jm!SetInterface
<1>10. CASE Jm!Suspend \/ Jm!Resume
  BY <1>10 DEF JmInv, JmTypes, Jm!Suspend, Jm!Resume
<1>11. CASE UNCHANGED Jm!jmbVars
  BY <1>11 DEF JmInv, JmTypes, Jm!jmbVars
<1> QED
  BY <1>1, <1>2, <1>3, <1>4, <1>5, <1>6, <1>7, <1>8, <1>9, <1>10, <1>11 DEF Jm!Next

\* And what is held: each undoes what it has done, in reverse.
LEMMA JmStageStep ==
  ASSUME MaxSlots \in Nat, OneThread, JmInv, [Jm!Next]_Jm!jmbVars
  PROVE  JmStage' /\ JmPins'
<1> USE DEF JmInv, JmStage, JmPins, Function, Bound, Base, Jm!Fn, Jm!Of, Things, Whole
<1>1. CASE Jm!Enable \/ Jm!Regions
  BY <1>1 DEF JmTypes, Jm!Enable, Jm!Regions, Jm!Takes, Jm!paramVars, Jm!Excused
<1>2. CASE Jm!CountSlots
  BY <1>2 DEF JmTypes, Jm!CountSlots, Jm!paramVars, Jm!Excused
<1>3. CASE Jm!Memory
  BY <1>3 DEF JmTypes, Jm!Memory, Jm!Takes, Jm!paramVars, Jm!Excused
<1>4. CASE Jm!AllocHost
  BY <1>4 DEF JmTypes, Jm!AllocHost, Jm!paramVars, Jm!Slots
<1>5. CASE Jm!AddHost
  BY <1>5 DEF JmTypes, Jm!AddHost, Jm!paramVars
<1>6. CASE Jm!ProbeEnds
  BY <1>6 DEF JmTypes, Jm!ProbeEnds, Jm!paramVars, Jm!Excused
<1>7. CASE Jm!RemoveHost
  <2>1. PICK s \in Jm!Slots :
          /\ ~ Jm!Removed(s) /\ \A r \in 0 .. (s - 1) : Jm!Removed(r)
          /\ jm_held' = jm_held \ Jm!Of(s) /\ pins' = pins \ {s}
    BY <1>7 DEF Jm!RemoveHost
  <2>2. PICK n \in 0 .. cnt : jm_held = Base \cup (Whole(cnt) \ Whole(n))
    <3>1. CASE jm_at = "bound"
      <4>1. jm_held = Base \cup (Whole(cnt) \ Whole(0)) /\ 0 \in 0 .. cnt
        BY <3>1 DEF JmTypes
      <4> QED BY <4>1
    <3>2. CASE jm_at = "remove"
      BY <3>2
    <3> QED BY <1>7, <3>1, <3>2 DEF Jm!RemoveHost
  <2>3. s \in Nat /\ cnt \in Nat /\ n \in Nat /\ cnt <= MaxSlots /\ s < MaxSlots
    BY DEF JmTypes, Jm!Slots
  <2>4. \A r \in Jm!Slots : Jm!Removed(r) <=> ~ (n <= r /\ r < cnt)
    <3> SUFFICES ASSUME NEW r \in Jm!Slots
                 PROVE  <<r, "host">> \in jm_held <=> n <= r /\ r < cnt
      BY <2>3 DEF Jm!Removed
    <3>1. r \in Nat /\ r # MaxSlots
      BY DEF Jm!Slots
    <3>2. <<r, "host">> \notin Base
      BY <3>1
    <3>3. <<r, "host">> \in Whole(cnt) <=> r < cnt
      BY <2>3, <3>1
    <3>4. <<r, "host">> \in Whole(n) <=> r < n
      BY <2>3, <3>1
    <3> HIDE DEF Base, Whole
    <3> QED BY <2>2, <2>3, <3>1, <3>2, <3>3, <3>4
  <2>5. s = n /\ n < cnt
    <3>1. n <= s /\ s < cnt
      BY <2>1, <2>4
    <3>2. CASE n < s
      <4>1. Jm!Removed(n)
        BY <2>1, <2>3, <3>2
      <4>2. n \in Jm!Slots
        BY <2>3, <3>2 DEF Jm!Slots
      <4> QED BY <2>3, <2>4, <3>1, <3>2, <4>1, <4>2
    <3> QED BY <2>3, <3>1, <3>2
  <2>6. jm_held' = Base \cup (Whole(cnt) \ Whole(n + 1)) /\ n + 1 \in 0 .. cnt
    BY <2>1, <2>2, <2>3, <2>5 DEF Jm!Slots
  <2>7. jm_at' = "remove" /\ asleep = FALSE /\ UNCHANGED <<cnt, host_cnt, asleep>>
    BY <1>7 DEF Jm!RemoveHost, JmTypes
  <2>8. JmStage'
    BY <2>6, <2>7
  <2>9. JmPins'
    BY <2>1, <2>7 DEF JmTypes, Jm!Slots
  <2> QED BY <2>8, <2>9
<1>8. CASE Jm!RemoveEnds
  <2>1. PICK n \in 0 .. cnt : jm_held = Base \cup (Whole(cnt) \ Whole(n))
    BY <1>8 DEF Jm!RemoveEnds
  <2>2. cnt \in Nat /\ n \in Nat /\ cnt <= MaxSlots /\ asleep = FALSE
    BY <1>8 DEF JmTypes, Jm!RemoveEnds
  <2>3. n = cnt
    <3>1. CASE n < cnt
      <4>1. <<n, "host">> \in jm_held /\ n \in Jm!Slots
        BY <2>1, <2>2, <3>1 DEF Jm!Slots
      <4> QED BY <1>8, <4>1 DEF Jm!RemoveEnds, Jm!Removed
    <3> QED BY <2>2, <3>1
  <2>4. jm_held' = {} /\ jm_at' = "gone" /\ UNCHANGED <<cnt, pins, asleep, why>>
    BY <1>8, <2>1, <2>2, <2>3 DEF Jm!RemoveEnds, Jm!paramVars
  <2>5. pins \subseteq {cnt}
    BY <1>8 DEF Jm!RemoveEnds, Jm!Removed, JmTypes
  <2> QED BY <2>2, <2>4, <2>5
<1>9. CASE Jm!PowerOn \/ Jm!PowerOff \/ Jm!ReadDelay \/ Jm!SetInterface \/ UNCHANGED Jm!jmbVars
  BY <1>9 DEF Jm!PowerOn, Jm!PowerOff, Jm!ReadDelay, Jm!SetInterface, Jm!jmbVars, Jm!Excused
<1>10. CASE Jm!Suspend \/ Jm!Resume
  <2>1. jm_at = "bound" /\ jm_at' = jm_at /\ UNCHANGED <<cnt, host_cnt, pins, why>>
    BY <1>10 DEF Jm!Suspend, Jm!Resume
  <2>2. <<MaxSlots, "enabled">> \notin Whole(cnt)
    BY DEF JmTypes
  <2>3. jm_held' = Base' \cup Whole(cnt)
    <3>1. jm_held = Base \cup Whole(cnt) /\ Whole(cnt)' = Whole(cnt)
      BY <2>1
    <3>2. CASE Jm!Suspend
      <4>1. /\ Base = Bound \cup {<<MaxSlots, "enabled">>} /\ Base' = Bound
            /\ jm_held' = jm_held \ {<<MaxSlots, "enabled">>}
        BY <3>2 DEF Jm!Suspend
      <4>2. <<MaxSlots, "enabled">> \notin Bound
        OBVIOUS
      <4> QED BY <2>2, <3>1, <4>1, <4>2
    <3>3. CASE Jm!Resume
      <4>1. /\ Base = Bound /\ Base' = Bound \cup (IF asleep' THEN {} ELSE {<<MaxSlots, "enabled">>})
            /\ jm_held' = jm_held \cup (IF asleep' THEN {} ELSE {<<MaxSlots, "enabled">>})
        BY <3>3 DEF Jm!Resume
      <4> QED BY <3>1, <4>1
    <3> QED BY <1>10, <3>2, <3>3
  <2>4. asleep' \in BOOLEAN
    BY <1>10 DEF Jm!Suspend, Jm!Resume
  <2>5. JmStage'
    BY <2>1, <2>3, <2>4
  <2>6. JmPins'
    BY <1>10, <2>1 DEF Jm!Suspend, Jm!Resume, JmTypes, Jm!Slots
  <2> QED BY <2>5, <2>6
<1> QED
  BY <1>1, <1>2, <1>3, <1>4, <1>5, <1>6, <1>7, <1>8, <1>9, <1>10 DEF Jm!Next

\* The invariant says what is wanted.
LEMMA JmInvRight == ASSUME MaxSlots \in Nat, JmInv PROVE Jm!AdapterRight
<1>1. Jm!GivenBack
  BY DEF JmInv, JmStage, JmPins, Jm!GivenBack
<1>2. Jm!AllOrNothing
  <2> SUFFICES ASSUME jm_at = "bound"
               PROVE  /\ \A s \in Jm!Slots : IF s < cnt THEN Jm!Of(s) \subseteq jm_held
                                                ELSE Jm!Of(s) \cap jm_held = {}
                      /\ {Jm!Fn("jm"), Jm!Fn("regions")} \subseteq jm_held
    BY DEF Jm!AllOrNothing
  <2>1. jm_held = Base \cup Whole(cnt) /\ cnt \in Nat
    BY DEF JmInv, JmStage, JmTypes
  <2>2. ASSUME NEW s \in Jm!Slots
        PROVE  IF s < cnt THEN Jm!Of(s) \subseteq jm_held ELSE Jm!Of(s) \cap jm_held = {}
    <3>1. s \in Nat /\ s # MaxSlots
      BY DEF Jm!Slots
    <3>2. CASE s < cnt
      BY <2>1, <3>1, <3>2 DEF Whole, Things, Jm!Of
    <3>3. CASE ~ (s < cnt)
      BY <2>1, <3>1, <3>3 DEF Whole, Things, Jm!Of, Base, Bound, Function
    <3> QED BY <3>2, <3>3
  <2>3. {Jm!Fn("jm"), Jm!Fn("regions")} \subseteq jm_held
    BY <2>1 DEF Jm!Fn, Base, Bound, Function
  <2> QED BY <2>2, <2>3
<1> QED BY <1>1, <1>2 DEF Jm!AdapterRight, JmInv, JmDelays

\* The slots of jmb38x_ms.c hold what they need, give all of it back, and their clock
\* delays do not mix: for any number of slots, if one thread sets them.
THEOREM JmAdapterRight ==
  ASSUME MaxSlots \in Nat, OneThread
  PROVE  Jm!Init /\ [][Jm!Next]_Jm!jmbVars => []Jm!AdapterRight
<1>1. Jm!Init => JmInv
  BY JmInit
<1>2. JmInv /\ [Jm!Next]_Jm!jmbVars => JmInv'
  BY JmTypesStep, JmStageStep, JmDelaysStep DEF JmInv
<1>3. JmInv => Jm!AdapterRight
  BY JmInvRight
<1> QED BY <1>1, <1>2, <1>3, PTL

-----------------------------------------------------------------------------
(* The allocator of physical blocks of mtdx (RandPebAlloc), for any number *)
(* of zones and blocks.                                                    *)

USE DEF vars

\* A block in use counts as one that needs an erase, until it is put back: this
\* is what lets put_peb leave the bit alone when the block is dirty.
HeldNeedErase == held \subseteq erase_map

\* The invariant that is preserved by every step.
AllocInv == TypeOK /\ FreeOnce /\ EraseStateTrue /\ GivenIsNotSelectable /\ HeldNeedErase

-----------------------------------------------------------------------------

\* The search loop of rand_peb_alloc_get() stays within the free blocks it
\* started from.
LEMMA PreferredIsFree ==
  ASSUME NEW free, NEW f \in free, NEW want, NEW p \in Preferred(free, f, want)
  PROVE  p \in free
BY DEF Preferred, FirstFrom

\* rand_peb_alloc_get() either hands out a block that was free, from the selected
\* map or after the roles changed, or finds no free block.
LEMMA GetCases ==
  ASSUME NEW z \in Zones, NEW want, NEW rand_pos, Get(z, want, rand_pos)
  PROVE  \/ \E p \in FreeIn(Selected(z), z) :
              GiveOut(p) /\ given' = given \cup {p} /\ zone_map' = zone_map
         \/ \E p \in FreeIn(Unselected(z), z) :
              /\ FreeIn(Selected(z), z) = {}
              /\ GiveOut(p) /\ given' = (given \ ZonePebs(z)) \cup {p}
              /\ zone_map' = (zone_map \ {z}) \cup ({z} \ zone_map)
         \/ /\ GetNothing(z)
            /\ zone_map' = (zone_map \ {z}) \cup ({z} \ zone_map)
            /\ given' = given \ ZonePebs(z)
            /\ UNCHANGED <<map_a, map_b, erase_map, held>>
<1>1. CASE /\ FreeIn(Selected(z), z) # {}
           /\ \E f \in FirstFrom(FreeIn(Selected(z), z), rand_pos) :
              \E p \in Preferred(FreeIn(Selected(z), z), f, want) :
                 GiveOut(p) /\ given' = given \cup {p}
           /\ zone_map' = zone_map
  <2>1. PICK f \in FirstFrom(FreeIn(Selected(z), z), rand_pos) :
             \E p \in Preferred(FreeIn(Selected(z), z), f, want) :
                GiveOut(p) /\ given' = given \cup {p}
    BY <1>1
  <2>2. f \in FreeIn(Selected(z), z)
    BY DEF FirstFrom
  <2>3. PICK p \in Preferred(FreeIn(Selected(z), z), f, want) :
             GiveOut(p) /\ given' = given \cup {p}
    BY <2>1
  <2>4. p \in FreeIn(Selected(z), z)
    BY <2>2, PreferredIsFree
  <2> QED BY <1>1, <2>3, <2>4
<1>2. CASE /\ FreeIn(Selected(z), z) = {} /\ FreeIn(Unselected(z), z) # {}
           /\ \E f \in FirstFrom(FreeIn(Unselected(z), z), rand_pos) :
              \E p \in Preferred(FreeIn(Unselected(z), z), f, want) :
                 GiveOut(p) /\ given' = (given \ ZonePebs(z)) \cup {p}
           /\ zone_map' = (zone_map \ {z}) \cup ({z} \ zone_map)
  <2>1. PICK f \in FirstFrom(FreeIn(Unselected(z), z), rand_pos) :
             \E p \in Preferred(FreeIn(Unselected(z), z), f, want) :
                GiveOut(p) /\ given' = (given \ ZonePebs(z)) \cup {p}
    BY <1>2
  <2>2. f \in FreeIn(Unselected(z), z)
    BY DEF FirstFrom
  <2>3. PICK p \in Preferred(FreeIn(Unselected(z), z), f, want) :
             GiveOut(p) /\ given' = (given \ ZonePebs(z)) \cup {p}
    BY <2>1
  <2>4. p \in FreeIn(Unselected(z), z)
    BY <2>2, PreferredIsFree
  <2> QED BY <1>2, <2>3, <2>4
<1> QED BY <1>1, <1>2 DEF Get

\* A block is handed out by giving it up in both maps.
LEMMA GiveOutKeeps ==
  ASSUME AllocInv, NEW p \in Pebs, p \notin held, GiveOut(p), dirty' = dirty
  PROVE  /\ map_a' \subseteq Pebs /\ map_b' \subseteq Pebs /\ erase_map' \subseteq Pebs
         /\ held' \subseteq Pebs /\ dirty' \subseteq Pebs
         /\ FreeOnce' /\ EraseStateTrue' /\ HeldNeedErase'
BY DEF AllocInv, TypeOK, FreeOnce, EraseStateTrue, HeldNeedErase, GiveOut

-----------------------------------------------------------------------------

LEMMA AllocInitInv == Init => AllocInv
BY DEF Init, AllocInv, TypeOK, FreeOnce, EraseStateTrue, GivenIsNotSelectable,
       HeldNeedErase

LEMMA AllocGetInv == AllocInv /\ GetPeb => AllocInv'
<1> SUFFICES ASSUME AllocInv, dirty' = dirty, NEW z \in Zones, NEW want, NEW rand_pos,
                    Get(z, want, rand_pos)
             PROVE  AllocInv'
  BY DEF GetPeb
<1>0. Pebs \ held = (Pebs \ map_a) \cup (Pebs \ map_b)
  BY DEF AllocInv, FreeOnce
<1>1. ASSUME NEW p \in FreeIn(Selected(z), z), GiveOut(p),
             given' = given \cup {p}, zone_map' = zone_map
      PROVE  AllocInv'
  <2>1. p \in Pebs /\ p[1] = z /\ p \notin held
    BY <1>0 DEF FreeIn, ZonePebs, Selected
  <2>2. GivenIsNotSelectable'
    BY <1>1 DEF AllocInv, GivenIsNotSelectable, Selected, GiveOut
  <2> QED BY <1>1, <2>1, <2>2, GiveOutKeeps DEF AllocInv, TypeOK
<1>2. ASSUME NEW p \in FreeIn(Unselected(z), z), GiveOut(p),
             given' = (given \ ZonePebs(z)) \cup {p},
             zone_map' = (zone_map \ {z}) \cup ({z} \ zone_map)
      PROVE  AllocInv'
  <2>1. p \in Pebs /\ p[1] = z /\ p \notin held
    BY <1>0 DEF FreeIn, ZonePebs, Unselected
  <2>2. \A q \in given : q \in Pebs /\ (q \notin ZonePebs(z) => q[1] # z)
    BY DEF AllocInv, TypeOK, ZonePebs
  <2>3. GivenIsNotSelectable'
    BY <1>2, <2>1, <2>2 DEF AllocInv, GivenIsNotSelectable, Selected, GiveOut
  <2> QED BY <1>2, <2>1, <2>3, GiveOutKeeps DEF AllocInv, TypeOK
<1>3. ASSUME zone_map' = (zone_map \ {z}) \cup ({z} \ zone_map),
             given' = given \ ZonePebs(z),
             UNCHANGED <<map_a, map_b, erase_map, held>>
      PROVE  AllocInv'
  <2>1. \A q \in given' : q \in given /\ q \in Pebs /\ q[1] # z
    BY <1>3 DEF AllocInv, TypeOK, ZonePebs
  <2>2. GivenIsNotSelectable'
    BY <1>3, <2>1 DEF AllocInv, GivenIsNotSelectable, Selected
  <2> QED BY <1>3, <2>2 DEF AllocInv, TypeOK, FreeOnce, EraseStateTrue, HeldNeedErase
<1> QED BY <1>1, <1>2, <1>3, GetCases

LEMMA AllocPutInv == AllocInv /\ PutPeb => AllocInv'
<1> SUFFICES ASSUME AllocInv, NEW p \in held, Put(p, p \in dirty), held' = held \ {p},
                    UNCHANGED <<dirty, given>>
             PROVE  AllocInv'
  BY DEF PutPeb
<1>1. p \in Pebs /\ p \in map_a /\ p \in map_b /\ p \in erase_map
  BY DEF AllocInv, TypeOK, FreeOnce, HeldNeedErase
<1>2. TypeOK'
  BY <1>1 DEF AllocInv, TypeOK, Put
<1>3. FreeOnce'
  BY <1>1 DEF AllocInv, TypeOK, FreeOnce, Put
<1>4. EraseStateTrue' /\ HeldNeedErase'
  BY <1>1 DEF AllocInv, TypeOK, EraseStateTrue, HeldNeedErase, Put
<1>5. GivenIsNotSelectable'
  BY <1>1 DEF AllocInv, TypeOK, GivenIsNotSelectable, Selected, Put
<1> QED BY <1>2, <1>3, <1>4, <1>5 DEF AllocInv

LEMMA AllocUseInv == AllocInv /\ UseBlock => AllocInv'
BY DEF AllocInv, TypeOK, FreeOnce, EraseStateTrue, HeldNeedErase, GivenIsNotSelectable,
       Selected, UseBlock

LEMMA AllocResetInv == AllocInv /\ ResetZone => AllocInv'
<1> SUFFICES ASSUME AllocInv, NEW z \in Zones,
                    map_a' = map_a \cup ZonePebs(z), map_b' = map_b \cup ZonePebs(z),
                    erase_map' = erase_map \cup ZonePebs(z), zone_map' = zone_map \ {z},
                    held' = held \cup ZonePebs(z), given' = given \ ZonePebs(z),
                    dirty' = dirty
             PROVE  AllocInv'
  BY DEF ResetZone
<1>1. ZonePebs(z) \subseteq Pebs
  BY DEF ZonePebs
<1>2. TypeOK' /\ FreeOnce' /\ EraseStateTrue' /\ HeldNeedErase'
  BY <1>1 DEF AllocInv, TypeOK, FreeOnce, EraseStateTrue, HeldNeedErase
<1>3. \A q \in given' : q \in given /\ q \in Pebs /\ q[1] # z
  BY DEF AllocInv, TypeOK, ZonePebs
<1>4. GivenIsNotSelectable'
  BY <1>3 DEF AllocInv, GivenIsNotSelectable, Selected
<1> QED BY <1>2, <1>4 DEF AllocInv

\* Every step of the allocator and of its user keeps the invariant.
THEOREM AllocInvariant == Spec => []AllocInv
<1>1. AllocInv /\ UNCHANGED vars => AllocInv'
  BY DEF AllocInv, TypeOK, FreeOnce, EraseStateTrue, HeldNeedErase, GivenIsNotSelectable,
         Selected
<1>2. AllocInv /\ [Next]_vars => AllocInv'
  BY <1>1, AllocGetInv, AllocPutInv, AllocUseInv, AllocResetInv DEF Next
<1> QED BY <1>2, AllocInitInv, PTL DEF Spec

-----------------------------------------------------------------------------

\* Types.
THEOREM AllocTypeOK == Spec => []TypeOK
BY AllocInvariant, PTL DEF AllocInv

\* No block that is in use is free, every other one is free in exactly one map:
\* get_peb() never hands out a block twice and never forgets one.
THEOREM AllocFreeOnce == Spec => []FreeOnce
BY AllocInvariant, PTL DEF AllocInv

\* What get_peb() reports of a block's erase state is true.
THEOREM AllocEraseStateTrue == Spec => []EraseStateTrue
BY AllocInvariant, PTL DEF AllocInv

\* Between two changes of the maps' roles a block is handed out at most once.
THEOREM AllocOncePerRound == Spec => OncePerRound
<1>1. ASSUME AllocInv, Next,
             NEW p \in given, p \in held' \ held, p \in given'
      PROVE  (p[1] \in zone_map') # (p[1] \in zone_map)
  <2>1. p \in Pebs /\ p \in Selected(p[1])
    BY <1>1 DEF AllocInv, TypeOK, GivenIsNotSelectable
  <2>2. CASE GetPeb
    <3>1. PICK z \in Zones, want \in BOOLEAN, rand_pos \in Offsets : Get(z, want, rand_pos)
      BY <2>2 DEF GetPeb
    <3>2. ASSUME NEW q \in FreeIn(Selected(z), z), GiveOut(q)
          PROVE  FALSE
      BY <1>1, <2>1, <3>2 DEF GiveOut, FreeIn, ZonePebs
    <3>3. ASSUME NEW q \in FreeIn(Unselected(z), z), GiveOut(q),
                 zone_map' = (zone_map \ {z}) \cup ({z} \ zone_map)
          PROVE  (p[1] \in zone_map') # (p[1] \in zone_map)
      <4>1. p = q /\ q[1] = z
        BY <1>1, <3>3 DEF GiveOut, FreeIn, ZonePebs
      <4> QED BY <3>3, <4>1
    <3>4. held' # held
      BY <1>1
    <3> QED BY <3>1, <3>2, <3>3, <3>4, GetCases
  <2>3. CASE PutPeb
    BY <1>1, <2>3 DEF PutPeb
  <2>4. CASE UseBlock
    BY <1>1, <2>4 DEF UseBlock
  <2>5. CASE ResetZone
    BY <1>1, <2>5 DEF ResetZone
  <2> QED BY <1>1, <2>2, <2>3, <2>4, <2>5 DEF Next
<1>2. AllocInv /\ [Next]_vars =>
        [\A p \in given : p \in held' \ held /\ p \in given'
           => (p[1] \in zone_map') # (p[1] \in zone_map)]_vars
  BY <1>1
<1> QED BY <1>2, AllocInvariant, PTL DEF Spec, OncePerRound
=============================================================================
