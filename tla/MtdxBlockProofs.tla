--------------------------- MODULE MtdxBlockProofs ---------------------------
(***************************************************************************)
(* No request is forgotten by the block devices of a translation layer,    *)
(* none of them is used without a reference, and none that has gone is     *)
(* called: for any number of devices, requests and suspends.  And          *)
(* long_map.c, where the layer marks the pages of a block that are         *)
(* written, finds what it was given, for any keys, nodes and callers.      *)
(***************************************************************************)
EXTENDS MtdxParts, FiniteSets, SequenceTheorems, FiniteSetTheorems, TLAPS

Recs == [bus : {"none", "bound", "failed", "gone"}, usage : Nat, opens : Nat,
         eject : BOOLEAN, waiting : Seq(1 .. 2), busy : BOOLEAN, kick : BOOLEAN,
         calling : {"no", "push", "tell"}, stopped : BOOLEAN, refs : Nat]
Layers == [c_queue : Seq(Devs), req_dev : Devs \cup {None}, req_in : 0 .. 2, sent : BOOLEAN,
           at : {"idle", "get", "next", "out", "ended"}, woken : BOOLEAN,
           rm : {"no", "stop", "wait", "drop", "gone"}]

Types == dev \in [Devs -> Recs] /\ ftl \in Layers

\* No device is in the queue twice.
NoTwice(q) == \A i, j \in 1 .. Len(q) : q[i] = q[j] => i = j

\* How far get_request() is says what it has; the request it has is the first one of
\* its device.
InHand ==
  /\ ftl.at = "idle" /\ ftl.rm = "no" => ftl.req_dev = None
  /\ ftl.at = "next" => ftl.req_dev # None /\ ftl.req_in = 0
  /\ ftl.at = "out" => ftl.req_in > 0
  /\ ftl.req_in > 0 => /\ ftl.req_dev \in Devs
                       /\ dev[ftl.req_dev].waiting # <<>>
                       /\ ftl.req_in = Head(dev[ftl.req_dev].waiting)

\* The references of a device's own data: its files', and the bus' while it is bound to
\* its driver.  A device without a driver has no requests.
Owned(d) ==
  /\ dev[d].usage = dev[d].opens + (IF dev[d].bus = "bound" THEN 1 ELSE 0)
  /\ dev[d].bus # "bound" => dev[d].waiting = <<>>
  /\ dev[d].bus \in {"none", "failed"} => dev[d].opens = 0 /\ ~dev[d].eject
  /\ dev[d].bus = "gone" => dev[d].eject

OwnRefs == \A d \in Devs : Owned(d)

\* What RefsHeld says of a device.
Claimed(d) ==
  /\ dev[d].refs >= (IF Contains(ftl.c_queue, d) THEN 1 ELSE 0)
                      + (IF ftl.req_dev = d THEN 1 ELSE 0)
  /\ dev[d].busy <=> ftl.req_dev = d /\ ftl.req_in > 0

\* Once the device below is being removed it asks for nothing, and once the last request
\* has ended none begins; a request function runs only of a device that is bound and not
\* ejected, or else it asks the layer for nothing; what an ejected device is asked for is
\* ended by its request function, which will run; the layer goes after its devices.
Drained ==
  /\ ftl.rm # "no" => ftl.at \notin {"get", "next"}
  /\ ftl.rm \in {"drop", "gone"} => ftl.req_in = 0
  /\ \A d \in Devs : dev[d].calling # "no" => dev[d].bus = "bound" /\ ~dev[d].eject
  /\ \A d \in Devs : dev[d].eject =>
       /\ ftl.rm \in {"drop", "gone"} /\ ~dev[d].stopped
       /\ dev[d].waiting # <<>> => dev[d].kick
  /\ ftl.rm = "gone" => \A d \in Devs : dev[d].bus # "bound"

IInv == Types /\ NoTwice(ftl.c_queue) /\ RefsHeld /\ InHand /\ OwnRefs /\ Drained /\ Served

-----------------------------------------------------------------------------
(* The queue.                                                              *)

\* A device that is pushed is in the queue, once.
LEMMA Pushed ==
  ASSUME NEW q \in Seq(Devs), NEW d \in Devs, NoTwice(q)
  PROVE  /\ PushBack(q, d) \in Seq(Devs) /\ NoTwice(PushBack(q, d))
         /\ PushBack(q, d) # <<>>
         /\ \A e : Contains(PushBack(q, d), e) <=> Contains(q, e) \/ e = d
<1>1. CASE Contains(q, d)
  BY <1>1 DEF PushBack, Contains
<1>2. CASE ~Contains(q, d)
  <2>1. PushBack(q, d) = Append(q, d)
    BY <1>2 DEF PushBack
  <2>2. /\ Append(q, d) \in Seq(Devs) /\ Len(Append(q, d)) = Len(q) + 1
        /\ Append(q, d)[Len(q) + 1] = d
        /\ \A i \in 1 .. Len(q) : Append(q, d)[i] = q[i]
    OBVIOUS
  <2>3. NoTwice(Append(q, d))
    BY <1>2, <2>2 DEF NoTwice, Contains
  <2>4. \A e : Contains(Append(q, d), e) <=> Contains(q, e) \/ e = d
    BY <2>2 DEF Contains
  <2> QED BY <2>1, <2>2, <2>3, <2>4
<1> QED BY <1>1, <1>2

\* The device that is popped is in the queue no more.
LEMMA Popped ==
  ASSUME NEW q \in Seq(Devs), q # <<>>, NoTwice(q)
  PROVE  /\ Head(q) \in Devs /\ Tail(q) \in Seq(Devs) /\ NoTwice(Tail(q))
         /\ ~Contains(Tail(q), Head(q))
         /\ \A e : Contains(q, e) <=> Contains(Tail(q), e) \/ e = Head(q)
<1>1. /\ Head(q) \in Devs /\ Tail(q) \in Seq(Devs) /\ Len(Tail(q)) = Len(q) - 1
      /\ Head(q) = q[1] /\ Len(q) \in Nat /\ Len(q) >= 1
      /\ \A i \in 1 .. Len(q) - 1 : Tail(q)[i] = q[i + 1]
  OBVIOUS
<1>2. NoTwice(Tail(q))
  BY <1>1 DEF NoTwice
<1>3. ~Contains(Tail(q), Head(q))
  BY <1>1 DEF NoTwice, Contains
<1>4. \A e : Contains(q, e) <=> Contains(Tail(q), e) \/ e = Head(q)
  <2>1. ASSUME NEW i \in 1 .. Len(q) PROVE q[i] = Head(q) \/ Contains(Tail(q), q[i])
    <3>1. CASE i = 1
      BY <1>1, <3>1
    <3>2. CASE i # 1
      <4>1. i - 1 \in 1 .. Len(Tail(q)) /\ Tail(q)[i - 1] = q[i]
        BY <1>1, <3>2
      <4> QED BY <4>1 DEF Contains
    <3> QED BY <3>1, <3>2
  <2>2. ASSUME NEW i \in 1 .. Len(Tail(q)) PROVE Contains(q, Tail(q)[i])
    BY <1>1 DEF Contains
  <2>3. Contains(q, Head(q))
    BY <1>1 DEF Contains
  <2> QED BY <2>1, <2>2, <2>3 DEF Contains
<1> QED BY <1>1, <1>2, <1>3, <1>4

LEMMA NobodyQueued == \A e : ~Contains(<<>>, e)
  BY DEF Contains

-----------------------------------------------------------------------------
(* The invariant holds at the start and is kept.                           *)

\* Nothing is bound, asked or queued at the start.
LEMMA InitInv == ASSUME None \notin Devs PROVE MbInit => IInv
<1> SUFFICES ASSUME MbInit PROVE IInv
  OBVIOUS
<1>1. Types /\ NoTwice(ftl.c_queue)
  BY DEF MbInit, NewDev, Types, Recs, Layers, NoTwice
<1>2. RefsHeld /\ InHand /\ OwnRefs
  BY NobodyQueued DEF MbInit, NewDev, RefsHeld, InHand, OwnRefs, Owned
<1>3. Drained /\ Served
  BY NobodyQueued DEF MbInit, NewDev, Drained, Served, Bound
<1> QED BY <1>1, <1>2, <1>3 DEF IInv

\* A device that is bound has the reference of the bus.
LEMMA ProbeInv == ASSUME NEW d \in Devs, IInv, Probe(d) PROVE IInv'
<1> PICK ok \in BOOLEAN :
      dev' = [dev EXCEPT ![d] = IF ok THEN [@ EXCEPT !.bus = "bound", !.usage = 1]
                                ELSE [@ EXCEPT !.bus = "failed"]]
  BY DEF Probe
<1> DEFINE r == IF ok THEN [dev[d] EXCEPT !.bus = "bound", !.usage = 1]
                ELSE [dev[d] EXCEPT !.bus = "failed"]
<1>1. /\ d \in Devs /\ dev[d] \in Recs /\ ftl \in Layers /\ dev[d].bus = "none"
      /\ dev' = [dev EXCEPT ![d] = r] /\ ftl' = ftl
  BY DEF Probe, IInv, Types
<1>2. /\ dev[d].opens = 0 /\ dev[d].usage = 0 /\ dev[d].waiting = <<>> /\ ~dev[d].eject
  BY <1>1 DEF IInv, OwnRefs, Owned, Recs
<1>3. r \in Recs
  BY <1>1 DEF Recs
<1>4. /\ r.bus \in {"bound", "failed"} /\ r.usage = (IF r.bus = "bound" THEN 1 ELSE 0)
      /\ r.opens = dev[d].opens /\ r.eject = dev[d].eject /\ r.waiting = dev[d].waiting
      /\ r.busy = dev[d].busy /\ r.kick = dev[d].kick /\ r.calling = dev[d].calling
      /\ r.stopped = dev[d].stopped /\ r.refs = dev[d].refs
  BY <1>1, <1>2 DEF Recs
<1> HIDE DEF r
<1>5. /\ dev' \in [Devs -> Recs] /\ dev'[d] = r
      /\ \A e \in Devs \ {d} : dev'[e] = dev[e]
  BY <1>1, <1>3 DEF IInv, Types
<1>6. Types' /\ NoTwice(ftl.c_queue)'
  BY <1>1, <1>5 DEF IInv, Types, Layers
<1>7. RefsHeld'
  <2> SUFFICES ASSUME NEW e \in Devs PROVE Claimed(e)'
    BY DEF RefsHeld, Claimed
  <2>1. CASE e = d
    BY <1>1, <1>4, <1>5, <2>1 DEF IInv, RefsHeld, Claimed
  <2>2. CASE e # d
    BY <1>1, <1>5, <2>2 DEF IInv, RefsHeld, Claimed
  <2> QED BY <2>1, <2>2 DEF Claimed
<1>8. InHand'
  <2>1. CASE ftl'.req_dev = d
    BY <1>1, <1>4, <1>5, <2>1 DEF IInv, InHand
  <2>2. CASE ftl'.req_dev # d
    BY <1>1, <1>4, <1>5, <2>2 DEF IInv, InHand
  <2> QED BY <2>1, <2>2
<1>9. OwnRefs'
  <2> SUFFICES ASSUME NEW e \in Devs PROVE Owned(e)'
    BY DEF OwnRefs, Owned
  <2>1. CASE e = d
    BY <1>1, <1>2, <1>4, <1>5, <2>1 DEF Owned
  <2>2. CASE e # d
    BY <1>5, <2>2 DEF IInv, OwnRefs, Owned
  <2> QED BY <2>1, <2>2 DEF Owned
<1>10. Drained'
  <2>1. ftl.rm = "no" /\ dev[d].calling = "no"
    BY <1>1 DEF Probe, IInv, Drained
  <2> QED BY <1>1, <1>2, <1>4, <1>5, <2>1 DEF IInv, Drained
<1>11. Served'
  BY <1>1, <1>2, <1>4, <1>5 DEF IInv, Served, Known, Bound
<1> QED BY <1>6, <1>7, <1>8, <1>9, <1>10, <1>11 DEF IInv

LEMMA OpenInv == ASSUME NEW d \in Devs, IInv, Open(d) PROVE IInv'
<1> DEFINE o == dev[d].opens + 1
<1> DEFINE u == dev[d].usage + 1
<1> DEFINE r == [dev[d] EXCEPT !.opens = o, !.usage = u]
<1>1. d \in Devs /\ dev[d] \in Recs /\ ftl \in Layers /\ dev[d].bus = "bound"
  BY DEF Open, IInv, Types, Layers, InHand
<1>2. o \in Nat /\ u \in Nat /\ u = o + 1
  BY <1>1 DEF IInv, OwnRefs, Owned, Recs
<1>3. dev' = [dev EXCEPT ![d] = r]
  BY <1>1 DEF Open
<1>4. ftl' = ftl
  BY DEF Open
<1> HIDE DEF o, u
<1>5. r \in Recs
  BY <1>1, <1>2 DEF Recs
<1>6. /\ r.bus = dev[d].bus /\ r.usage = u /\ r.opens = o
      /\ r.eject = dev[d].eject /\ r.waiting = dev[d].waiting /\ r.busy = dev[d].busy
      /\ r.kick = dev[d].kick /\ r.calling = dev[d].calling /\ r.stopped = dev[d].stopped
      /\ r.refs = dev[d].refs
  BY <1>1, <1>2 DEF Recs
<1> HIDE DEF r
<1>7. /\ dev' \in [Devs -> Recs] /\ dev'[d] = r
      /\ \A e \in Devs \ {d} : dev'[e] = dev[e]
  BY <1>1, <1>3, <1>5 DEF IInv, Types
<1>8. Types' /\ NoTwice(ftl.c_queue)'
  BY <1>1, <1>4, <1>7 DEF IInv, Types, Layers
<1>9. RefsHeld'
  <2> SUFFICES ASSUME NEW e \in Devs PROVE Claimed(e)'
    BY DEF RefsHeld, Claimed
  <2>1. CASE e = d
    BY <1>1, <1>2, <1>4, <1>6, <1>7, <2>1 DEF IInv, RefsHeld, Claimed
  <2>2. CASE e # d
    BY <1>1, <1>2, <1>4, <1>6, <1>7, <2>2 DEF IInv, RefsHeld, Claimed
  <2> QED BY <2>1, <2>2 DEF Claimed
<1>10. InHand'
  <2>1. CASE ftl'.req_dev = d
    BY <1>1, <1>2, <1>4, <1>6, <1>7, <2>1 DEF IInv, InHand, RefsHeld
  <2>2. CASE ftl'.req_dev # d
    BY <1>1, <1>2, <1>4, <1>6, <1>7, <2>2 DEF IInv, InHand, RefsHeld
  <2> QED BY <2>1, <2>2
<1>11. OwnRefs'
  BY <1>1, <1>2, <1>4, <1>6, <1>7 DEF IInv, OwnRefs, Owned
<1>12. Drained'
  BY <1>1, <1>2, <1>4, <1>6, <1>7 DEF IInv, Drained, OwnRefs, Owned
<1>13. Served'
  BY <1>1, <1>2, <1>4, <1>6, <1>7 DEF IInv, Served, Known, Bound, RefsHeld, InHand, OwnRefs,
                                      Owned, Drained
<1> QED BY <1>8, <1>9, <1>10, <1>11, <1>12, <1>13 DEF IInv

LEMMA CloseInv == ASSUME NEW d \in Devs, IInv, Close(d) PROVE IInv'
<1> DEFINE o == dev[d].opens - 1
<1> DEFINE u == dev[d].usage - 1
<1> DEFINE r == [Release(dev[d]) EXCEPT !.opens = @ - 1]
<1>1. /\ d \in Devs /\ dev[d] \in Recs /\ ftl \in Layers
      /\ dev[d].opens > 0 /\ dev[d].waiting = <<>>
  BY DEF Close, IInv, Types, Layers, InHand
<1>2. /\ o \in Nat /\ u \in Nat /\ (dev[d].bus = "bound" => u = o + 1)
      /\ (dev[d].bus # "bound" => u = o)
      /\ o = dev[d].opens - 1 /\ u = dev[d].usage - 1
      /\ dev[d].usage > 0 /\ dev[d].opens \in Nat /\ dev[d].usage \in Nat
  BY <1>1 DEF IInv, OwnRefs, Owned, Recs
<1>3. dev' = [dev EXCEPT ![d] = r]
  BY <1>1 DEF Close
<1>4. ftl' = ftl
  BY DEF Close
<1> HIDE DEF o, u
<1>5. r \in Recs /\ r = [dev[d] EXCEPT !.usage = u, !.opens = o]
  <2>1. Release(dev[d]) = [dev[d] EXCEPT !.usage = u]
    BY <1>1, <1>2 DEF Release, Recs
  <2>2. /\ [dev[d] EXCEPT !.usage = u] \in Recs
        /\ [dev[d] EXCEPT !.usage = u].opens = dev[d].opens
    BY <1>1, <1>2 DEF Recs
  <2> QED BY <1>1, <1>2, <2>1, <2>2 DEF Recs
<1>6. /\ r.bus = dev[d].bus /\ r.usage = u /\ r.opens = o
      /\ r.eject = dev[d].eject /\ r.waiting = dev[d].waiting /\ r.busy = dev[d].busy
      /\ r.kick = dev[d].kick /\ r.calling = dev[d].calling /\ r.stopped = dev[d].stopped
      /\ r.refs = dev[d].refs
  BY <1>1, <1>2, <1>5 DEF Recs
<1> HIDE DEF r
<1>7. /\ dev' \in [Devs -> Recs] /\ dev'[d] = r
      /\ \A e \in Devs \ {d} : dev'[e] = dev[e]
  BY <1>1, <1>3, <1>5 DEF IInv, Types
<1>8. Types' /\ NoTwice(ftl.c_queue)'
  BY <1>1, <1>4, <1>7 DEF IInv, Types, Layers
<1>9. RefsHeld'
  <2> SUFFICES ASSUME NEW e \in Devs PROVE Claimed(e)'
    BY DEF RefsHeld, Claimed
  <2>1. CASE e = d
    BY <1>1, <1>2, <1>4, <1>6, <1>7, <2>1 DEF IInv, RefsHeld, Claimed
  <2>2. CASE e # d
    BY <1>1, <1>2, <1>4, <1>6, <1>7, <2>2 DEF IInv, RefsHeld, Claimed
  <2> QED BY <2>1, <2>2 DEF Claimed
<1>10. InHand'
  <2>1. CASE ftl'.req_dev = d
    BY <1>1, <1>2, <1>4, <1>6, <1>7, <2>1 DEF IInv, InHand, RefsHeld
  <2>2. CASE ftl'.req_dev # d
    BY <1>1, <1>2, <1>4, <1>6, <1>7, <2>2 DEF IInv, InHand, RefsHeld
  <2> QED BY <2>1, <2>2
<1>11. OwnRefs'
  <2> SUFFICES ASSUME NEW e \in Devs PROVE Owned(e)'
    BY DEF OwnRefs, Owned
  <2>1. CASE e = d
    BY <1>1, <1>2, <1>6, <1>7, <2>1 DEF IInv, OwnRefs, Owned
  <2>2. CASE e # d
    BY <1>7, <2>2 DEF IInv, OwnRefs, Owned
  <2> QED BY <2>1, <2>2 DEF Owned
<1>12. Drained'
  BY <1>1, <1>2, <1>4, <1>6, <1>7 DEF IInv, Drained, OwnRefs, Owned
<1>13. Served'
  BY <1>1, <1>4, <1>6, <1>7 DEF IInv, Served, Known, Bound
<1> QED BY <1>8, <1>9, <1>10, <1>11, <1>12, <1>13 DEF IInv

\* The first request of a queue stays so, and the request function will run if it may.
LEMMA AskInv == ASSUME NEW d \in Devs, NEW len \in 1 .. 2, IInv, MbAsk(d, len) PROVE IInv'
<1> DEFINE w == Append(dev[d].waiting, len)
<1> DEFINE k == ~dev[d].stopped
<1> DEFINE r == [dev[d] EXCEPT !.waiting = w, !.kick = k]
<1>1. d \in Devs /\ dev[d] \in Recs /\ ftl \in Layers /\ dev[d].bus = "bound" /\ dev[d].calling = "no"
  BY DEF MbAsk, IInv, Types, Layers, InHand
<1>2. /\ w \in Seq(1 .. 2) /\ w # <<>>
      /\ dev[d].waiting # <<>> => Head(w) = Head(dev[d].waiting)
      /\ k \in BOOLEAN /\ (k <=> ~dev[d].stopped)
  <2>1. dev[d].waiting \in Seq(1 .. 2) /\ dev[d].stopped \in BOOLEAN
    BY <1>1 DEF Recs
  <2>2. k \in BOOLEAN /\ (k <=> ~dev[d].stopped)
    OBVIOUS
  <2>3. w \in Seq(1 .. 2)
    BY <2>1
  <2>4. w # <<>>
    <3>1. Len(w) = Len(dev[d].waiting) + 1 /\ Len(dev[d].waiting) \in Nat
      BY <2>1
    <3> HIDE DEF w
    <3> QED BY <3>1
  <2>5. dev[d].waiting # <<>> => Head(w) = Head(dev[d].waiting)
    BY <2>1
  <2> QED BY <2>2, <2>3, <2>4, <2>5
<1>3. dev' = [dev EXCEPT ![d] = r]
  BY <1>1 DEF MbAsk
<1>4. ftl' = ftl
  BY DEF MbAsk
<1> HIDE DEF w, k
<1>5. r \in Recs
  BY <1>1, <1>2 DEF Recs
<1>6. /\ r.bus = dev[d].bus /\ r.usage = dev[d].usage /\ r.opens = dev[d].opens
      /\ r.eject = dev[d].eject /\ r.waiting = w /\ r.busy = dev[d].busy
      /\ (r.kick <=> k) /\ r.calling = dev[d].calling /\ r.stopped = dev[d].stopped
      /\ r.refs = dev[d].refs
  BY <1>1, <1>2 DEF Recs
<1> HIDE DEF r
<1>7. /\ dev' \in [Devs -> Recs] /\ dev'[d] = r
      /\ \A e \in Devs \ {d} : dev'[e] = dev[e]
  BY <1>1, <1>3, <1>5 DEF IInv, Types
<1>8. Types' /\ NoTwice(ftl.c_queue)'
  BY <1>1, <1>4, <1>7 DEF IInv, Types, Layers
<1>9. RefsHeld'
  <2> SUFFICES ASSUME NEW e \in Devs PROVE Claimed(e)'
    BY DEF RefsHeld, Claimed
  <2>1. CASE e = d
    BY <1>1, <1>2, <1>4, <1>6, <1>7, <2>1 DEF IInv, RefsHeld, Claimed
  <2>2. CASE e # d
    BY <1>1, <1>2, <1>4, <1>6, <1>7, <2>2 DEF IInv, RefsHeld, Claimed
  <2> QED BY <2>1, <2>2 DEF Claimed
<1>10. InHand'
  <2>1. CASE ftl'.req_dev = d
    BY <1>1, <1>2, <1>4, <1>6, <1>7, <2>1 DEF IInv, InHand, RefsHeld
  <2>2. CASE ftl'.req_dev # d
    BY <1>1, <1>2, <1>4, <1>6, <1>7, <2>2 DEF IInv, InHand, RefsHeld
  <2> QED BY <2>1, <2>2
<1>11. OwnRefs'
  BY <1>1, <1>2, <1>4, <1>6, <1>7 DEF IInv, OwnRefs, Owned
<1>12. Drained'
  BY <1>1, <1>2, <1>4, <1>6, <1>7 DEF IInv, Drained, OwnRefs, Owned
<1>13. Served'
  BY <1>1, <1>2, <1>4, <1>6, <1>7 DEF IInv, Served, Known, Bound, RefsHeld, InHand, OwnRefs,
                                      Owned, Drained
<1> QED BY <1>8, <1>9, <1>10, <1>11, <1>12, <1>13 DEF IInv

\* A device that asks runs its request function; one that does not is busy, ejected or has
\* lost its layer.
LEMMA SubmitReqInv == ASSUME NEW d \in Devs, IInv, SubmitReq(d) PROVE IInv'
<1> DEFINE asks == ~dev[d].busy /\ ~dev[d].eject /\ ftl.rm \in {"no", "stop"}
<1> DEFINE c == IF asks THEN "push" ELSE "no"
<1> DEFINE w == IF dev[d].eject /\ ~dev[d].busy THEN <<>> ELSE dev[d].waiting
<1> DEFINE r == [dev[d] EXCEPT !.kick = FALSE, !.calling = c, !.waiting = w]
<1>1. /\ d \in Devs /\ dev[d] \in Recs /\ ftl \in Layers /\ dev[d].kick /\ dev[d].bus = "bound"
      /\ dev[d].calling = "no"
  BY DEF SubmitReq, IInv, Types, Layers, InHand
<1>2. /\ asks \in BOOLEAN /\ (asks <=> ~dev[d].busy /\ ~dev[d].eject /\ ftl.rm \in {"no", "stop"})
      /\ c \in {"no", "push", "tell"} /\ c = (IF asks THEN "push" ELSE "no")
      /\ w \in Seq(1 .. 2)
      /\ w = (IF dev[d].eject /\ ~dev[d].busy THEN <<>> ELSE dev[d].waiting)
  BY <1>1 DEF IInv, Types, Recs
<1>3. dev' = [dev EXCEPT ![d] = r]
  BY <1>1 DEF SubmitReq
<1>4. ftl' = ftl
  BY DEF SubmitReq
<1> HIDE DEF asks, c, w
<1>5. r \in Recs
  BY <1>1, <1>2 DEF Recs
<1>6. /\ r.bus = dev[d].bus /\ r.usage = dev[d].usage /\ r.opens = dev[d].opens
      /\ r.eject = dev[d].eject /\ r.waiting = w /\ r.busy = dev[d].busy
      /\ ~r.kick /\ r.calling = c /\ r.stopped = dev[d].stopped /\ r.refs = dev[d].refs
  BY <1>1, <1>2 DEF Recs
<1> HIDE DEF r
<1>7. /\ dev' \in [Devs -> Recs] /\ dev'[d] = r
      /\ \A e \in Devs \ {d} : dev'[e] = dev[e]
  BY <1>1, <1>3, <1>5 DEF IInv, Types
<1>8. Types' /\ NoTwice(ftl.c_queue)'
  BY <1>1, <1>4, <1>7 DEF IInv, Types
<1>9. RefsHeld'
  <2> SUFFICES ASSUME NEW e \in Devs PROVE Claimed(e)'
    BY DEF RefsHeld, Claimed
  <2>1. CASE e = d
    BY <1>1, <1>4, <1>6, <1>7, <2>1 DEF IInv, RefsHeld, Claimed
  <2>2. CASE e # d
    BY <1>1, <1>4, <1>6, <1>7, <2>2 DEF IInv, RefsHeld, Claimed
  <2> QED BY <2>1, <2>2 DEF Claimed
<1>10. InHand'
  <2>1. CASE ftl'.req_dev = d
    BY <1>1, <1>2, <1>4, <1>6, <1>7, <2>1 DEF IInv, InHand, RefsHeld, Layers
  <2>2. CASE ftl'.req_dev # d
    BY <1>1, <1>2, <1>4, <1>6, <1>7, <2>2 DEF IInv, InHand, RefsHeld, Layers
  <2> QED BY <2>1, <2>2
<1>11. OwnRefs'
  BY <1>1, <1>2, <1>4, <1>6, <1>7 DEF IInv, OwnRefs, Owned
<1>12. Drained'
  <2>1. ASSUME dev[d].eject PROVE w = <<>>
    BY <1>2, <2>1 DEF IInv, Drained, RefsHeld
  <2>2. \A e \in Devs : dev'[e].calling # "no" => dev'[e].bus = "bound" /\ ~dev'[e].eject
    <3> SUFFICES ASSUME NEW e \in Devs, dev'[e].calling # "no"
                 PROVE  dev'[e].bus = "bound" /\ ~dev'[e].eject
      OBVIOUS
    <3>1. CASE e = d
      BY <1>1, <1>2, <1>6, <1>7, <3>1
    <3>2. CASE e # d
      BY <1>7, <3>2 DEF IInv, Drained
    <3> QED BY <3>1, <3>2
  <2> QED BY <1>1, <1>4, <1>6, <1>7, <2>1, <2>2 DEF IInv, Drained
<1>13. Served'
  <2> SUFFICES ASSUME ftl.rm = "no" PROVE Served'
    BY <1>4 DEF Served
  <2>1. c = "push" \/ dev[d].busy
    BY <1>2 DEF IInv, Drained
  <2> QED BY <1>1, <1>2, <1>4, <1>6, <1>7, <2>1 DEF IInv, Served, Known, Bound, Drained
<1> QED BY <1>8, <1>9, <1>10, <1>11, <1>12, <1>13 DEF IInv

\* A device that is pushed has another reference, and the device below is about to be told.
LEMMA PushInv == ASSUME NEW d \in Devs, IInv, Push(d) PROVE IInv'
<1> DEFINE q == PushBack(ftl.c_queue, d)
<1> DEFINE n == dev[d].refs + 1
<1> DEFINE r == [dev[d] EXCEPT !.calling = "tell", !.refs = n]
<1>1. d \in Devs /\ dev[d] \in Recs /\ ftl \in Layers /\ dev[d].calling = "push"
  BY DEF Push, IInv, Types, Layers, InHand
<1>2. n \in Nat /\ n = dev[d].refs + 1
  BY <1>1 DEF Recs
<1>14. /\ q \in Seq(Devs) /\ NoTwice(q) /\ q # <<>>
       /\ \A e \in Devs : Contains(q, e) <=> Contains(ftl.c_queue, e) \/ e = d
  <2>1. ftl.c_queue \in Seq(Devs) /\ NoTwice(ftl.c_queue)
    BY DEF IInv, Types, Layers
  <2> QED BY <2>1, Pushed
<1>3. dev' = [dev EXCEPT ![d] = r]
  BY <1>1 DEF Push
<1>4. /\ ftl' \in Layers /\ ftl'.c_queue = q /\ ftl'.req_dev = ftl.req_dev
      /\ ftl'.req_in = ftl.req_in /\ ftl'.sent = ftl.sent /\ ftl'.at = ftl.at
      /\ ftl'.woken = ftl.woken /\ ftl'.rm = ftl.rm
  <2>1. ftl' = [ftl EXCEPT !.c_queue = q]
    BY DEF Push
  <2> HIDE DEF q
  <2> QED BY <1>1, <1>14, <2>1 DEF Layers
<1> HIDE DEF q, n
<1>5. r \in Recs
  BY <1>1, <1>2 DEF Recs
<1>6. /\ r.bus = dev[d].bus /\ r.usage = dev[d].usage /\ r.opens = dev[d].opens
      /\ r.eject = dev[d].eject /\ r.waiting = dev[d].waiting /\ r.busy = dev[d].busy
      /\ r.kick = dev[d].kick /\ r.calling = "tell" /\ r.stopped = dev[d].stopped
      /\ r.refs = n
  BY <1>1, <1>2 DEF Recs
<1> HIDE DEF r
<1>7. /\ dev' \in [Devs -> Recs] /\ dev'[d] = r
      /\ \A e \in Devs \ {d} : dev'[e] = dev[e]
  BY <1>1, <1>3, <1>5 DEF IInv, Types
<1>8. Types' /\ NoTwice(ftl.c_queue)'
  BY <1>1, <1>4, <1>7, <1>14 DEF IInv, Types
<1>9. RefsHeld'
  <2> SUFFICES ASSUME NEW e \in Devs PROVE Claimed(e)'
    BY DEF RefsHeld, Claimed
  <2>1. Claimed(e)
    BY DEF IInv, RefsHeld, Claimed
  <2>2. CASE e = d
    <3>1. /\ dev'[e].refs = dev[d].refs + 1 /\ dev[d].refs \in Nat
          /\ dev'[e].busy = dev[d].busy
      BY <1>1, <1>2, <1>6, <1>7, <2>2 DEF Recs, Claimed
    <3>2. ftl'.req_dev = ftl.req_dev /\ ftl'.req_in = ftl.req_in
      BY <1>4 DEF Claimed
    <3> QED BY <2>1, <2>2, <3>1, <3>2 DEF Claimed
  <2>3. CASE e # d
    BY <1>4, <1>7, <1>14, <2>1, <2>3 DEF Claimed
  <2> QED BY <2>2, <2>3 DEF Claimed
<1>10. InHand'
  <2>1. CASE ftl'.req_dev = d
    BY <1>1, <1>4, <1>6, <1>7, <2>1 DEF IInv, InHand
  <2>2. CASE ftl'.req_dev # d
    BY <1>1, <1>4, <1>6, <1>7, <2>2 DEF IInv, InHand
  <2> QED BY <2>1, <2>2
<1>11. OwnRefs'
  BY <1>1, <1>4, <1>6, <1>7 DEF IInv, OwnRefs, Owned
<1>12. Drained'
  BY <1>1, <1>4, <1>6, <1>7 DEF IInv, Drained
<1>13. Served'
  BY <1>1, <1>4, <1>6, <1>7, <1>14 DEF IInv, Served, Known, Bound
<1> QED BY <1>8, <1>9, <1>10, <1>11, <1>12, <1>13 DEF IInv

LEMMA WakeInv == ASSUME NEW d \in Devs, IInv, Wake(d) PROVE IInv'
<1> DEFINE r == [dev[d] EXCEPT !.calling = "no"]
<1>1. d \in Devs /\ dev[d] \in Recs /\ ftl \in Layers /\ dev[d].calling = "tell"
  BY DEF Wake, IInv, Types, Layers, InHand
<1>3. dev' = [dev EXCEPT ![d] = r]
  BY <1>1 DEF Wake
<1>4. /\ ftl' \in Layers /\ ftl'.c_queue = ftl.c_queue /\ ftl'.req_dev = ftl.req_dev
      /\ ftl'.req_in = ftl.req_in /\ ftl'.sent = ftl.sent /\ ftl'.at = ftl.at
      /\ ftl'.woken /\ ftl'.rm = ftl.rm
  BY <1>1 DEF Wake, Layers
<1>5. r \in Recs
  BY <1>1 DEF Recs
<1>6. /\ r.bus = dev[d].bus /\ r.usage = dev[d].usage /\ r.opens = dev[d].opens
      /\ r.eject = dev[d].eject /\ r.waiting = dev[d].waiting /\ r.busy = dev[d].busy
      /\ r.kick = dev[d].kick /\ r.calling = "no" /\ r.stopped = dev[d].stopped
      /\ r.refs = dev[d].refs
  BY <1>1 DEF Recs
<1> HIDE DEF r
<1>7. /\ dev' \in [Devs -> Recs] /\ dev'[d] = r
      /\ \A e \in Devs \ {d} : dev'[e] = dev[e]
  BY <1>1, <1>3, <1>5 DEF IInv, Types
<1>8. Types' /\ NoTwice(ftl.c_queue)'
  BY <1>1, <1>4, <1>7 DEF IInv, Types, Layers
<1>9. RefsHeld'
  <2> SUFFICES ASSUME NEW e \in Devs PROVE Claimed(e)'
    BY DEF RefsHeld, Claimed
  <2>1. CASE e = d
    BY <1>4, <1>6, <1>7, <2>1 DEF IInv, RefsHeld, Claimed
  <2>2. CASE e # d
    BY <1>4, <1>7, <2>2 DEF IInv, RefsHeld, Claimed
  <2> QED BY <2>1, <2>2 DEF Claimed
<1>10. InHand'
  <2>1. CASE ftl'.req_dev = d
    BY <1>1, <1>4, <1>6, <1>7, <2>1 DEF IInv, InHand, RefsHeld, Layers
  <2>2. CASE ftl'.req_dev # d
    BY <1>1, <1>4, <1>6, <1>7, <2>2 DEF IInv, InHand, RefsHeld, Layers
  <2> QED BY <2>1, <2>2
<1>11. OwnRefs'
  BY <1>1, <1>4, <1>6, <1>7 DEF IInv, OwnRefs, Owned
<1>12. Drained'
  BY <1>1, <1>4, <1>6, <1>7 DEF IInv, Drained
<1>13. Served'
  BY <1>1, <1>4, <1>6, <1>7 DEF IInv, Served, Known, Bound
<1> QED BY <1>8, <1>9, <1>10, <1>11, <1>12, <1>13 DEF IInv

\* The request in hand is the first of its device; without one the device is done with.
LEMMA FetchReqInv == ASSUME IInv, MbFetchReq PROVE IInv'
<1> DEFINE d == ftl.req_dev
<1> DEFINE some == dev[d].waiting # <<>>
<1> DEFINE r == [dev[d] EXCEPT !.busy = some]
<1>1. /\ d \in Devs /\ dev[d] \in Recs /\ ftl \in Layers
      /\ ftl.at = "get" /\ ftl.req_in = 0
      /\ dev[d].calling = "no" /\ ftl.req_dev = d /\ d # None
  BY DEF MbFetchReq, IInv, Types, Layers, InHand
<1>2. /\ some \in BOOLEAN /\ (some <=> dev[d].waiting # <<>>)
      /\ some => Head(dev[d].waiting) \in 1 .. 2
  BY <1>1 DEF IInv, Types, Recs
<1>3. dev' = [dev EXCEPT ![d] = r]
  BY <1>1 DEF MbFetchReq
<1>4. /\ ftl' \in Layers /\ ftl'.c_queue = ftl.c_queue /\ ftl'.req_dev = ftl.req_dev
      /\ (some => ftl'.req_in = Head(dev[d].waiting) /\ ftl'.req_in > 0)
      /\ (~some => ftl'.req_in = 0) /\ ftl'.sent = ftl.sent
      /\ (some => ftl'.at = "get") /\ (~some => ftl'.at = "next")
      /\ ftl'.woken = ftl.woken /\ ftl'.rm = ftl.rm
  <2>1. CASE some
    BY <1>1, <1>2, <2>1 DEF MbFetchReq, Layers
  <2>2. CASE ~some
    BY <1>1, <1>2, <2>2 DEF MbFetchReq, Layers
  <2> QED BY <2>1, <2>2
<1> HIDE DEF d, some
<1>5. r \in Recs
  BY <1>1, <1>2 DEF Recs
<1>6. /\ r.bus = dev[d].bus /\ r.usage = dev[d].usage /\ r.opens = dev[d].opens
      /\ r.eject = dev[d].eject /\ r.waiting = dev[d].waiting /\ (r.busy <=> some)
      /\ r.kick = dev[d].kick /\ r.calling = dev[d].calling /\ r.stopped = dev[d].stopped
      /\ r.refs = dev[d].refs
  BY <1>1, <1>2 DEF Recs
<1> HIDE DEF r
<1>7. /\ dev' \in [Devs -> Recs] /\ dev'[d] = r
      /\ \A e \in Devs \ {d} : dev'[e] = dev[e]
  BY <1>1, <1>3, <1>5 DEF IInv, Types
<1>8. Types' /\ NoTwice(ftl.c_queue)'
  BY <1>1, <1>4, <1>7 DEF IInv, Types, Layers
<1>9. RefsHeld'
  <2> SUFFICES ASSUME NEW e \in Devs PROVE Claimed(e)'
    BY DEF RefsHeld, Claimed
  <2>1. CASE e = d
    BY <1>1, <1>2, <1>4, <1>6, <1>7, <2>1 DEF IInv, RefsHeld, Recs, Layers, Claimed
  <2>2. CASE e # d
    BY <1>1, <1>2, <1>4, <1>6, <1>7, <2>2 DEF IInv, RefsHeld, Recs, Layers, Claimed
  <2> QED BY <2>1, <2>2 DEF Claimed
<1>10. InHand'
  <2>1. CASE ftl'.req_dev = d
    <3>1. CASE some
      BY <1>1, <1>2, <1>4, <1>6, <1>7, <2>1, <3>1 DEF IInv, InHand
    <3>2. CASE ~some
      BY <1>1, <1>2, <1>4, <1>6, <1>7, <2>1, <3>2 DEF IInv, InHand
    <3> QED BY <1>2, <3>1, <3>2
  <2>2. CASE ftl'.req_dev # d
    BY <1>1, <1>2, <1>4, <1>6, <1>7, <2>2 DEF IInv, InHand, RefsHeld, Layers
  <2> QED BY <2>1, <2>2
<1>11. OwnRefs'
  BY <1>1, <1>2, <1>4, <1>6, <1>7 DEF IInv, OwnRefs, Owned
<1>12. Drained'
  BY <1>1, <1>2, <1>4, <1>6, <1>7 DEF IInv, Drained, OwnRefs, Owned
<1>13. Served'
  BY <1>1, <1>2, <1>4, <1>6, <1>7 DEF IInv, Served, Known, Bound, RefsHeld, InHand, OwnRefs,
                                      Owned, Drained
<1> QED BY <1>8, <1>9, <1>10, <1>11, <1>12, <1>13 DEF IInv

\* The device served before gives its reference back, the next one is served with its own.
LEMMA NextDevInv == ASSUME None \notin Devs, IInv, NextDev PROVE IInv'
<1>1. /\ ftl \in Layers /\ ftl.c_queue \in Seq(Devs) /\ NoTwice(ftl.c_queue)
      /\ ftl.req_in = 0 /\ ftl.at \in {"get", "next"} /\ ftl.rm = "no"
      /\ ftl.req_dev = None \/ (ftl.req_dev \in Devs /\ ftl.at = "next")
  BY DEF NextDev, IInv, Types, Layers, InHand, Drained
<1>2. /\ ftl' \in Layers /\ ftl'.req_in = 0 /\ ftl'.woken = ftl.woken /\ ftl'.rm = ftl.rm
      /\ \/ /\ ftl.c_queue = <<>> /\ ftl'.c_queue = <<>>
            /\ ftl'.req_dev = None /\ ftl'.at = "idle"
         \/ /\ ftl.c_queue # <<>> /\ ftl'.c_queue = Tail(ftl.c_queue)
            /\ ftl'.req_dev = Head(ftl.c_queue) /\ ftl'.req_dev \in Devs /\ ftl'.at = "get"
  <2>1. CASE ftl.c_queue = <<>>
    <3>1. ftl' = [ftl EXCEPT !.req_dev = None, !.c_queue = <<>>, !.at = "idle"]
      BY <2>1 DEF NextDev, PopFront
    <3> QED BY <1>1, <2>1, <3>1 DEF Layers
  <2>2. CASE ftl.c_queue # <<>>
    <3> DEFINE h == Head(ftl.c_queue)
               t == Tail(ftl.c_queue)
    <3>1. h \in Devs /\ t \in Seq(Devs) /\ h # None
      BY <1>1, <2>2, Popped
    <3>2. ftl' = [ftl EXCEPT !.req_dev = h, !.c_queue = t, !.at = "get"]
      BY <2>2, <3>1 DEF NextDev, PopFront
    <3> HIDE DEF h, t
    <3>3. /\ ftl' \in Layers /\ ftl'.req_in = 0 /\ ftl'.woken = ftl.woken /\ ftl'.rm = ftl.rm
          /\ ftl'.c_queue = t /\ ftl'.req_dev = h /\ ftl'.at = "get"
      BY <1>1, <3>1, <3>2 DEF Layers
    <3> QED BY <2>2, <3>1, <3>3 DEF h, t
  <2> QED BY <2>1, <2>2
<1>3. /\ ftl'.c_queue \in Seq(Devs) /\ NoTwice(ftl'.c_queue)
      /\ \A e \in Devs : Contains(ftl.c_queue, e) <=>
                            Contains(ftl'.c_queue, e) \/ ftl'.req_dev = e
      /\ \A e \in Devs : ~(Contains(ftl'.c_queue, e) /\ ftl'.req_dev = e)
  <2>1. CASE ftl.c_queue = <<>>
    BY <1>1, <1>2, <2>1, NobodyQueued
  <2>2. CASE ftl.c_queue # <<>>
    <3> DEFINE h == Head(ftl.c_queue)
               t == Tail(ftl.c_queue)
    <3>1. /\ t \in Seq(Devs) /\ NoTwice(t) /\ ~Contains(t, h)
          /\ \A e : Contains(ftl.c_queue, e) <=> Contains(t, e) \/ e = h
      BY <1>1, <2>2, Popped
    <3>2. ftl'.c_queue = t /\ ftl'.req_dev = h
      BY <1>2, <2>2
    <3> QED BY <3>1, <3>2
  <2> QED BY <2>1, <2>2
<1>4. ASSUME NEW e \in Devs
      PROVE  /\ dev'[e] \in Recs
             /\ dev'[e].refs = (IF e = ftl.req_dev THEN dev[e].refs - 1 ELSE dev[e].refs)
             /\ dev'[e].bus = dev[e].bus /\ dev'[e].usage = dev[e].usage
             /\ dev'[e].opens = dev[e].opens /\ dev'[e].eject = dev[e].eject
             /\ dev'[e].waiting = dev[e].waiting /\ dev'[e].busy = dev[e].busy
             /\ dev'[e].kick = dev[e].kick /\ dev'[e].calling = dev[e].calling
             /\ dev'[e].stopped = dev[e].stopped
  <2>1. dev[e] \in Recs /\ dev[e].refs \in Nat
    BY DEF IInv, Types, Recs
  <2>2. CASE e = ftl.req_dev
    <3> DEFINE n == dev[e].refs - 1
    <3>1. n \in Nat
      BY <2>1, <2>2 DEF IInv, RefsHeld
    <3>2. dev'[e] = [dev[e] EXCEPT !.refs = n]
      BY <2>2 DEF NextDev
    <3>3. dev'[e].refs = n /\ dev'[e] \in Recs
      <4> HIDE DEF n
      <4> QED BY <2>1, <3>1, <3>2 DEF Recs
    <3> HIDE DEF n
    <3>4. /\ dev'[e].bus = dev[e].bus /\ dev'[e].usage = dev[e].usage
          /\ dev'[e].opens = dev[e].opens /\ dev'[e].eject = dev[e].eject
          /\ dev'[e].waiting = dev[e].waiting /\ dev'[e].busy = dev[e].busy
          /\ dev'[e].kick = dev[e].kick /\ dev'[e].calling = dev[e].calling
          /\ dev'[e].stopped = dev[e].stopped
      BY <2>1, <3>2 DEF Recs
    <3> QED BY <2>2, <3>3, <3>4 DEF n
  <2>3. CASE e # ftl.req_dev
    <3>1. dev'[e] = dev[e]
      BY <2>3 DEF NextDev
    <3> QED BY <2>1, <2>3, <3>1
  <2> QED BY <2>2, <2>3
<1>5. Types' /\ NoTwice(ftl.c_queue)'
  <2>1. dev' \in [Devs -> Recs]
    BY <1>4 DEF NextDev
  <2> QED BY <1>2, <1>3, <2>1 DEF Types
<1>6. RefsHeld'
  <2> SUFFICES ASSUME NEW e \in Devs PROVE Claimed(e)'
    BY DEF RefsHeld, Claimed
  <2>1. Claimed(e)
    BY DEF IInv, RefsHeld, Claimed
  <2>2. dev[e].refs \in Nat
    BY DEF IInv, Types, Recs, Claimed
  <2>3. dev'[e].refs >= (IF Contains(ftl'.c_queue, e) THEN 1 ELSE 0)
                          + (IF ftl'.req_dev = e THEN 1 ELSE 0)
    BY <1>3, <1>4, <2>1, <2>2 DEF Claimed
  <2>4. ~dev'[e].busy
    BY <1>1, <1>4, <2>1 DEF Claimed
  <2> QED BY <1>2, <2>3, <2>4 DEF Claimed
<1>7. InHand'
  BY <1>2 DEF InHand
<1>8. OwnRefs' /\ Drained'
  BY <1>1, <1>2, <1>4 DEF IInv, OwnRefs, Owned, Drained
<1>9. Served'
  BY <1>1, <1>2, <1>3, <1>4 DEF IInv, Served, Known, Bound, RefsHeld
<1> QED BY <1>5, <1>6, <1>7, <1>8, <1>9 DEF IInv

\* The record of the layer with another request, or without one.
LEMMA InHandSet ==
  ASSUME NEW f \in Layers, NEW n \in 0 .. 2, NEW s \in BOOLEAN, NEW at \in {"get", "ended"}
  PROVE  [f EXCEPT !.req_in = n, !.sent = s, !.at = at] \in Layers
  BY DEF Layers

\* What is left of a request is one, and the device is still the one served.
LEMMA CompleteReqInv ==
  ASSUME None \notin Devs, IInv, NEW at \in {"get", "ended"}, CompleteReq(at),
         at = "get" => ftl.at = "get"
  PROVE  IInv'
<1> DEFINE d == ftl.req_dev
<1>0. PICK count \in 0 .. ftl.req_in :
      dev' = [dev EXCEPT ![d].busy = FALSE, ![d].waiting = StillWaiting(@, count)]
  BY DEF CompleteReq
<1> DEFINE w == StillWaiting(dev[d].waiting, count)
<1> DEFINE r == [dev[d] EXCEPT !.busy = FALSE, !.waiting = w]
<1>1. /\ d \in Devs /\ dev[d] \in Recs /\ ftl \in Layers /\ ftl.req_in > 0
      /\ ftl.req_in = Head(dev[d].waiting) /\ dev[d].waiting # <<>> /\ dev[d].calling = "no"
      /\ d = ftl.req_dev /\ dev[d].busy
  BY DEF CompleteReq, IInv, Types, InHand, RefsHeld
<1>2. dev[d].waiting \in Seq(1 .. 2) /\ ftl.req_in \in 1 .. 2
  BY <1>1 DEF Recs, Layers
<1>3. dev' = [dev EXCEPT ![d] = r]
  BY <1>0
<1>4. /\ ftl' \in Layers /\ ftl'.c_queue = ftl.c_queue /\ ftl'.req_dev = ftl.req_dev
      /\ ftl'.req_in = 0 /\ ftl'.at = at /\ ftl'.woken = ftl.woken /\ ftl'.rm = ftl.rm
  <2>1. ftl' = [ftl EXCEPT !.req_in = 0, !.sent = FALSE, !.at = at]
    BY DEF CompleteReq
  <2>2. ftl \in Layers
    BY <1>1
  <2>3. ftl' \in Layers
    <3>1. 0 \in 0 .. 2 /\ FALSE \in BOOLEAN
      OBVIOUS
    <3>2. [ftl EXCEPT !.req_in = 0, !.sent = FALSE, !.at = at] \in Layers
      BY <2>2, <3>1, InHandSet, Zenon
    <3> QED BY <2>1, <3>2
  <2> QED BY <2>1, <2>2, <2>3 DEF Layers
<1>5. w \in Seq(1 .. 2)
  <2> HIDE DEF d
  <2> DEFINE t == Tail(dev[d].waiting)
  <2>1. t \in Seq(1 .. 2)
    BY <1>1, <1>2
  <2> HIDE DEF t
  <2>2. CASE count = 0 \/ count = Head(dev[d].waiting)
    BY <2>1, <2>2 DEF StillWaiting, t
  <2>3. CASE ~(count = 0 \/ count = Head(dev[d].waiting))
    <3>1. w = <<Head(dev[d].waiting) - count>> \o t
      BY <2>3 DEF StillWaiting, t
    <3>2. Head(dev[d].waiting) - count \in 1 .. 2
      BY <1>1, <1>2, <2>3
    <3>3. <<Head(dev[d].waiting) - count>> \in Seq(1 .. 2)
      BY <3>2
    <3> QED BY <2>1, <3>1, <3>3
  <2> QED BY <2>2, <2>3
<1> HIDE DEF d, w
<1>6. r \in Recs
  BY <1>1, <1>5 DEF Recs
<1>7. /\ r.bus = dev[d].bus /\ r.usage = dev[d].usage /\ r.opens = dev[d].opens
      /\ r.eject = dev[d].eject /\ ~r.busy /\ r.kick = dev[d].kick
      /\ r.calling = dev[d].calling /\ r.stopped = dev[d].stopped /\ r.refs = dev[d].refs
  BY <1>1, <1>5 DEF Recs
<1> HIDE DEF r
<1>8. /\ dev' \in [Devs -> Recs] /\ dev'[d] = r
      /\ \A e \in Devs \ {d} : dev'[e] = dev[e]
  BY <1>1, <1>3, <1>6 DEF IInv, Types
<1>9. /\ ftl.rm \notin {"drop", "gone"} /\ dev[d].bus = "bound" /\ ~dev[d].eject
  <2>1. dev[d].bus \in {"none", "bound", "failed", "gone"}
    BY <1>1 DEF Recs
  <2> QED BY <1>1, <2>1 DEF IInv, Drained, OwnRefs, Owned
<1>10. Types' /\ NoTwice(ftl.c_queue)'
  BY <1>4, <1>8 DEF IInv, Types
<1>11. RefsHeld'
  <2> SUFFICES ASSUME NEW e \in Devs PROVE Claimed(e)'
    BY DEF RefsHeld, Claimed
  <2>1. CASE e = d
    BY <1>1, <1>4, <1>7, <1>8, <2>1 DEF IInv, RefsHeld, Claimed
  <2>2. CASE e # d
    BY <1>1, <1>4, <1>8, <2>2 DEF IInv, RefsHeld, Claimed
  <2> QED BY <2>1, <2>2 DEF Claimed
<1>12. InHand'
  BY <1>1, <1>4 DEF IInv, InHand
<1>13. OwnRefs'
  BY <1>1, <1>7, <1>8, <1>9 DEF IInv, OwnRefs, Owned
<1>14. Drained'
  BY <1>1, <1>4, <1>7, <1>8, <1>9 DEF IInv, Drained
<1>15. Served'
  BY <1>1, <1>4, <1>7, <1>8, <1>9 DEF IInv, Served, Known, Bound
<1> QED BY <1>10, <1>11, <1>12, <1>13, <1>14, <1>15 DEF IInv

\* The command below has ended, and the request goes on.
EndedOnly == ftl.at = "out" /\ ftl' = [ftl EXCEPT !.at = "ended"] /\ UNCHANGED dev

\* The steps of the layer that leave the devices alone.
LEMMA LayerInv ==
  ASSUME IInv,
         \/ MediaAsks \/ SendsOut \/ EndedOnly \/ AsksAgain
         \/ RemoveBelow \/ RemoveWait \/ RemoveEnds
  PROVE  IInv'
<1>1. CASE MediaAsks
  <2>1. dev' = dev /\ ftl' = [ftl EXCEPT !.at = "get", !.woken = FALSE] /\ ftl \in Layers
    BY <1>1 DEF MediaAsks, IInv, Types
  <2>2. /\ ftl' \in Layers /\ ftl'.c_queue = ftl.c_queue /\ ftl'.req_dev = ftl.req_dev
        /\ ftl'.req_in = ftl.req_in /\ ftl'.at = "get"
        /\ ~ftl'.woken /\ ftl'.rm = ftl.rm
    BY <2>1 DEF Layers
  <2>3. Types' /\ NoTwice(ftl.c_queue)' /\ OwnRefs' /\ RefsHeld'
    BY <2>1, <2>2 DEF IInv, Types, OwnRefs, Owned, RefsHeld
  <2>4. InHand' /\ Drained'
    BY <1>1, <2>1, <2>2 DEF MediaAsks, Bound, IInv, InHand, Drained
  <2>5. Served'
    BY <1>1, <2>1, <2>2 DEF MediaAsks, IInv, Served, Known, Bound, InHand
  <2> QED BY <2>3, <2>4, <2>5 DEF IInv
<1>2. CASE SendsOut
  <2>1. dev' = dev /\ ftl' = [ftl EXCEPT !.at = "out", !.sent = TRUE] /\ ftl \in Layers
    BY <1>2 DEF SendsOut, IInv, Types
  <2>2. /\ ftl' \in Layers /\ ftl'.c_queue = ftl.c_queue /\ ftl'.req_dev = ftl.req_dev
        /\ ftl'.req_in = ftl.req_in /\ ftl'.at = "out"
        /\ ftl'.woken = ftl.woken /\ ftl'.rm = ftl.rm
    BY <2>1 DEF Layers
  <2>3. Types' /\ NoTwice(ftl.c_queue)' /\ OwnRefs' /\ RefsHeld'
    BY <2>1, <2>2 DEF IInv, Types, OwnRefs, Owned, RefsHeld
  <2>4. InHand' /\ Drained'
    BY <1>2, <2>1, <2>2 DEF SendsOut, Bound, IInv, InHand, Drained
  <2>5. Served'
    BY <1>2, <2>1, <2>2 DEF SendsOut, IInv, Served, Known, Bound, InHand
  <2> QED BY <2>3, <2>4, <2>5 DEF IInv
<1>3. CASE EndedOnly
  <2>1. dev' = dev /\ ftl' = [ftl EXCEPT !.at = "ended"] /\ ftl \in Layers
    BY <1>3 DEF EndedOnly, IInv, Types
  <2>2. /\ ftl' \in Layers /\ ftl'.c_queue = ftl.c_queue /\ ftl'.req_dev = ftl.req_dev
        /\ ftl'.req_in = ftl.req_in /\ ftl'.at = "ended"
        /\ ftl'.woken = ftl.woken /\ ftl'.rm = ftl.rm
    BY <2>1 DEF Layers
  <2>3. Types' /\ NoTwice(ftl.c_queue)' /\ OwnRefs' /\ RefsHeld'
    BY <2>1, <2>2 DEF IInv, Types, OwnRefs, Owned, RefsHeld
  <2>4. InHand' /\ Drained'
    BY <1>3, <2>1, <2>2 DEF EndedOnly, Bound, IInv, InHand, Drained
  <2>5. Served'
    BY <1>3, <2>1, <2>2 DEF EndedOnly, IInv, Served, Known, Bound, InHand
  <2> QED BY <2>3, <2>4, <2>5 DEF IInv
<1>4. CASE AsksAgain
  <2>1. dev' = dev /\ ftl' = [ftl EXCEPT !.at = IF ftl.rm = "no" THEN "get" ELSE "idle"] /\ ftl \in Layers
    BY <1>4 DEF AsksAgain, IInv, Types
  <2>2. /\ ftl' \in Layers /\ ftl'.c_queue = ftl.c_queue /\ ftl'.req_dev = ftl.req_dev
        /\ ftl'.req_in = ftl.req_in /\ ftl'.at = (IF ftl.rm = "no" THEN "get" ELSE "idle")
        /\ ftl'.woken = ftl.woken /\ ftl'.rm = ftl.rm
    BY <2>1 DEF Layers
  <2>3. Types' /\ NoTwice(ftl.c_queue)' /\ OwnRefs' /\ RefsHeld'
    BY <2>1, <2>2 DEF IInv, Types, OwnRefs, Owned, RefsHeld
  <2>4. InHand' /\ Drained'
    BY <1>4, <2>1, <2>2 DEF AsksAgain, Bound, IInv, InHand, Drained
  <2>5. Served'
    BY <1>4, <2>1, <2>2 DEF AsksAgain, IInv, Served, Known, Bound, InHand
  <2> QED BY <2>3, <2>4, <2>5 DEF IInv
<1>5. CASE RemoveBelow
  <2>1. dev' = dev /\ ftl' = [ftl EXCEPT !.rm = "stop", !.woken = FALSE] /\ ftl \in Layers
    BY <1>5 DEF RemoveBelow, IInv, Types
  <2>2. /\ ftl' \in Layers /\ ftl'.c_queue = ftl.c_queue /\ ftl'.req_dev = ftl.req_dev
        /\ ftl'.req_in = ftl.req_in /\ ftl'.at = ftl.at
        /\ ~ftl'.woken /\ ftl'.rm = "stop"
    BY <2>1 DEF Layers
  <2>3. Types' /\ NoTwice(ftl.c_queue)' /\ OwnRefs' /\ RefsHeld'
    BY <2>1, <2>2 DEF IInv, Types, OwnRefs, Owned, RefsHeld
  <2>4. InHand' /\ Drained'
    BY <1>5, <2>1, <2>2 DEF RemoveBelow, Bound, IInv, InHand, Drained
  <2>5. Served'
    BY <1>5, <2>1, <2>2 DEF RemoveBelow, IInv, Served, Known, Bound, InHand
  <2> QED BY <2>3, <2>4, <2>5 DEF IInv
<1>6. CASE RemoveWait
  <2>1. dev' = dev /\ ftl' = [ftl EXCEPT !.rm = "drop"] /\ ftl \in Layers
    BY <1>6 DEF RemoveWait, IInv, Types
  <2>2. /\ ftl' \in Layers /\ ftl'.c_queue = ftl.c_queue /\ ftl'.req_dev = ftl.req_dev
        /\ ftl'.req_in = ftl.req_in /\ ftl'.at = ftl.at
        /\ ftl'.woken = ftl.woken /\ ftl'.rm = "drop"
    BY <2>1 DEF Layers
  <2>3. Types' /\ NoTwice(ftl.c_queue)' /\ OwnRefs' /\ RefsHeld'
    BY <2>1, <2>2 DEF IInv, Types, OwnRefs, Owned, RefsHeld
  <2>4. InHand' /\ Drained'
    BY <1>6, <2>1, <2>2 DEF RemoveWait, Bound, IInv, InHand, Drained
  <2>5. Served'
    BY <1>6, <2>1, <2>2 DEF RemoveWait, IInv, Served, Known, Bound, InHand
  <2> QED BY <2>3, <2>4, <2>5 DEF IInv
<1>7. CASE RemoveEnds
  <2>1. dev' = dev /\ ftl' = [ftl EXCEPT !.rm = "gone"] /\ ftl \in Layers
    BY <1>7 DEF RemoveEnds, IInv, Types
  <2>2. /\ ftl' \in Layers /\ ftl'.c_queue = ftl.c_queue /\ ftl'.req_dev = ftl.req_dev
        /\ ftl'.req_in = ftl.req_in /\ ftl'.at = ftl.at
        /\ ftl'.woken = ftl.woken /\ ftl'.rm = "gone"
    BY <2>1 DEF Layers
  <2>3. Types' /\ NoTwice(ftl.c_queue)' /\ OwnRefs' /\ RefsHeld'
    BY <2>1, <2>2 DEF IInv, Types, OwnRefs, Owned, RefsHeld
  <2>4. InHand' /\ Drained'
    BY <1>7, <2>1, <2>2 DEF RemoveEnds, Bound, IInv, InHand, Drained
  <2>5. Served'
    BY <1>7, <2>1, <2>2 DEF RemoveEnds, IInv, Served, Known, Bound, InHand
  <2> QED BY <2>3, <2>4, <2>5 DEF IInv
<1> QED BY <1>1, <1>2, <1>3, <1>4, <1>5, <1>6, <1>7

LEMMA SuspendInv == ASSUME IInv, Suspend PROVE IInv'
<1>1. ftl' = ftl /\ ftl \in Layers /\ ftl.rm = "no"
  BY DEF Suspend, IInv, Types
<1>2. ASSUME NEW e \in Devs
      PROVE  /\ dev'[e] \in Recs
             /\ dev[e].bus = "bound" => dev'[e].stopped /\ ~dev'[e].kick
             /\ dev[e].bus # "bound" => dev'[e] = dev[e]
             /\ dev'[e].bus = dev[e].bus /\ dev'[e].usage = dev[e].usage
             /\ dev'[e].opens = dev[e].opens /\ dev'[e].eject = dev[e].eject
             /\ dev'[e].waiting = dev[e].waiting /\ dev'[e].busy = dev[e].busy
             /\ dev'[e].calling = dev[e].calling /\ dev'[e].refs = dev[e].refs
  <2>1. dev[e] \in Recs
    BY DEF IInv, Types
  <2>2. CASE dev[e].bus = "bound"
    <3>1. dev'[e] = [dev[e] EXCEPT !.stopped = TRUE, !.kick = FALSE]
      BY <2>2 DEF Suspend, Bound
    <3> QED BY <2>1, <2>2, <3>1 DEF Recs
  <2>3. CASE dev[e].bus # "bound"
    <3>1. dev'[e] = dev[e]
      BY <2>3 DEF Suspend, Bound
    <3> QED BY <2>1, <2>3, <3>1
  <2> QED BY <2>2, <2>3
<1>3. Types' /\ NoTwice(ftl.c_queue)'
  <2>1. dev' \in [Devs -> Recs]
    BY <1>2 DEF Suspend
  <2> QED BY <1>1, <2>1 DEF IInv, Types
<1>4. RefsHeld'
  BY <1>1, <1>2 DEF IInv, RefsHeld
<1>5. InHand'
  BY <1>1, <1>2 DEF IInv, InHand
<1>6. OwnRefs'
  BY <1>2 DEF IInv, OwnRefs, Owned
<1>7. Drained'
  BY <1>1, <1>2 DEF IInv, Drained, OwnRefs, Owned
<1>8. Served'
  BY <1>1, <1>2 DEF IInv, Served, Known, Bound
<1> QED BY <1>3, <1>4, <1>5, <1>6, <1>7, <1>8 DEF IInv

LEMMA ResumeInv == ASSUME IInv, Resume PROVE IInv'
<1>1. ftl' = ftl /\ ftl \in Layers
  BY DEF Resume, IInv, Types
<1>2. ASSUME NEW e \in Devs
      PROVE  /\ dev'[e] \in Recs
             /\ dev[e].bus = "bound" => ~dev'[e].stopped /\ dev'[e].kick
             /\ dev[e].bus # "bound" => dev'[e] = dev[e]
             /\ dev'[e].bus = dev[e].bus /\ dev'[e].usage = dev[e].usage
             /\ dev'[e].opens = dev[e].opens /\ dev'[e].eject = dev[e].eject
             /\ dev'[e].waiting = dev[e].waiting /\ dev'[e].busy = dev[e].busy
             /\ dev'[e].calling = dev[e].calling /\ dev'[e].refs = dev[e].refs
  <2>1. dev[e] \in Recs
    BY DEF IInv, Types
  <2>2. CASE dev[e].bus = "bound"
    <3>1. dev'[e] = [dev[e] EXCEPT !.stopped = FALSE, !.kick = TRUE]
      BY <2>2 DEF Resume, Bound
    <3> QED BY <2>1, <2>2, <3>1 DEF Recs
  <2>3. CASE dev[e].bus # "bound"
    <3>1. dev'[e] = dev[e]
      BY <2>3 DEF Resume, Bound
    <3> QED BY <2>1, <2>3, <3>1
  <2> QED BY <2>2, <2>3
<1>3. Types' /\ NoTwice(ftl.c_queue)'
  <2>1. dev' \in [Devs -> Recs]
    BY <1>2 DEF Resume
  <2> QED BY <1>1, <2>1 DEF IInv, Types
<1>4. RefsHeld'
  BY <1>1, <1>2 DEF IInv, RefsHeld
<1>5. InHand'
  BY <1>1, <1>2 DEF IInv, InHand
<1>6. OwnRefs'
  BY <1>2 DEF IInv, OwnRefs, Owned
<1>7. Drained'
  BY <1>1, <1>2 DEF IInv, Drained, OwnRefs, Owned
<1>8. Served'
  BY <1>1, <1>2 DEF IInv, Served, Known, Bound
<1> QED BY <1>3, <1>4, <1>5, <1>6, <1>7, <1>8 DEF IInv

\* Those in the queue give their references back.
LEMMA RemoveDrainInv == ASSUME IInv, RemoveDrain PROVE IInv'
<1>1. ftl \in Layers /\ ftl.rm = "stop"
  BY DEF RemoveDrain, IInv, Types
<1>2. /\ ftl' \in Layers /\ ftl'.rm = "wait" /\ ftl'.c_queue = <<>>
      /\ ftl'.at = ftl.at /\ ftl'.req_dev = ftl.req_dev /\ ftl'.req_in = ftl.req_in
  <2>1. ftl' = [ftl EXCEPT !.rm = "wait", !.c_queue = <<>>]
    BY DEF RemoveDrain
  <2>2. <<>> \in Seq(Devs)
    OBVIOUS
  <2>3. ftl' \in Layers
    BY <1>1, <2>1, <2>2 DEF Layers
  <2> QED BY <1>1, <2>1, <2>3 DEF Layers
<1>3. ASSUME NEW e \in Devs
      PROVE  /\ dev'[e] \in Recs
             /\ dev'[e].refs = (IF Contains(ftl.c_queue, e) THEN dev[e].refs - 1
                                ELSE dev[e].refs)
             /\ dev'[e].bus = dev[e].bus /\ dev'[e].usage = dev[e].usage
             /\ dev'[e].opens = dev[e].opens /\ dev'[e].eject = dev[e].eject
             /\ dev'[e].waiting = dev[e].waiting /\ dev'[e].busy = dev[e].busy
             /\ dev'[e].kick = dev[e].kick /\ dev'[e].calling = dev[e].calling
             /\ dev'[e].stopped = dev[e].stopped
  <2>1. dev[e] \in Recs /\ dev[e].refs \in Nat
    BY DEF IInv, Types, Recs
  <2>2. CASE Contains(ftl.c_queue, e)
    <3> DEFINE n == dev[e].refs - 1
    <3>1. n \in Nat
      BY <2>1, <2>2 DEF IInv, RefsHeld
    <3>2. dev'[e] = [dev[e] EXCEPT !.refs = n]
      BY <2>2 DEF RemoveDrain
    <3>3. dev'[e].refs = n /\ dev'[e] \in Recs
      <4> HIDE DEF n
      <4> QED BY <2>1, <3>1, <3>2 DEF Recs
    <3> HIDE DEF n
    <3>4. /\ dev'[e].bus = dev[e].bus /\ dev'[e].usage = dev[e].usage
          /\ dev'[e].opens = dev[e].opens /\ dev'[e].eject = dev[e].eject
          /\ dev'[e].waiting = dev[e].waiting /\ dev'[e].busy = dev[e].busy
          /\ dev'[e].kick = dev[e].kick /\ dev'[e].calling = dev[e].calling
          /\ dev'[e].stopped = dev[e].stopped
      BY <2>1, <3>2 DEF Recs
    <3> QED BY <2>2, <3>3, <3>4 DEF n
  <2>3. CASE ~Contains(ftl.c_queue, e)
    <3>1. dev'[e] = dev[e]
      BY <2>3 DEF RemoveDrain
    <3> QED BY <2>1, <2>3, <3>1
  <2> QED BY <2>2, <2>3
<1>4. Types' /\ NoTwice(ftl.c_queue)'
  <2>1. dev' \in [Devs -> Recs]
    BY <1>3 DEF RemoveDrain
  <2> QED BY <1>2, <2>1 DEF Types, NoTwice
<1>5. RefsHeld'
  <2> SUFFICES ASSUME NEW e \in Devs PROVE Claimed(e)'
    BY DEF RefsHeld, Claimed
  <2>1. Claimed(e)
    BY DEF IInv, RefsHeld, Claimed
  <2>2. dev[e].refs \in Nat
    BY DEF IInv, Types, Recs, Claimed
  <2>3. ~Contains(ftl'.c_queue, e)
    BY <1>2, NobodyQueued DEF Claimed
  <2> QED BY <1>2, <1>3, <2>1, <2>2, <2>3 DEF Claimed
<1>6. InHand'
  BY <1>2, <1>3 DEF IInv, InHand
<1>7. OwnRefs' /\ Drained'
  BY <1>1, <1>2, <1>3 DEF IInv, OwnRefs, Owned, Drained
<1>8. Served'
  BY <1>2, <1>3 DEF IInv, InHand, Served
<1> QED BY <1>4, <1>5, <1>6, <1>7, <1>8 DEF IInv

LEMMA EjectInv == ASSUME NEW d \in Devs, IInv, Eject(d) PROVE IInv'
<1> DEFINE w == IF dev[d].busy THEN dev[d].waiting ELSE <<>>
<1> DEFINE r == [dev[d] EXCEPT !.eject = TRUE, !.stopped = FALSE, !.kick = FALSE,
                               !.waiting = w]
<1>1. /\ d \in Devs /\ dev[d] \in Recs /\ ftl \in Layers
      /\ ftl.rm = "drop" /\ dev[d].bus = "bound" /\ ~dev[d].eject /\ dev[d].calling = "no"
  BY DEF Eject, IInv, Types, Layers, InHand
<1>2. w = <<>> /\ w \in Seq(1 .. 2) /\ ~dev[d].busy /\ ftl.req_in = 0
  BY <1>1 DEF IInv, RefsHeld, Drained, Recs
<1>3. dev' = [dev EXCEPT ![d] = r]
  BY <1>1 DEF Eject
<1>4. ftl' = ftl
  BY DEF Eject
<1> HIDE DEF w
<1>5. r \in Recs
  BY <1>1, <1>2 DEF Recs
<1>6. /\ r.bus = dev[d].bus /\ r.usage = dev[d].usage /\ r.opens = dev[d].opens
      /\ r.eject /\ r.waiting = w /\ r.busy = dev[d].busy
      /\ ~r.kick /\ r.calling = dev[d].calling /\ ~r.stopped
      /\ r.refs = dev[d].refs
  BY <1>1, <1>2 DEF Recs
<1> HIDE DEF r
<1>7. /\ dev' \in [Devs -> Recs] /\ dev'[d] = r
      /\ \A e \in Devs \ {d} : dev'[e] = dev[e]
  BY <1>1, <1>3, <1>5 DEF IInv, Types
<1>8. Types' /\ NoTwice(ftl.c_queue)'
  BY <1>1, <1>4, <1>7 DEF IInv, Types, Layers
<1>9. RefsHeld'
  <2> SUFFICES ASSUME NEW e \in Devs PROVE Claimed(e)'
    BY DEF RefsHeld, Claimed
  <2>1. CASE e = d
    BY <1>1, <1>2, <1>4, <1>6, <1>7, <2>1 DEF IInv, RefsHeld, Claimed
  <2>2. CASE e # d
    BY <1>1, <1>2, <1>4, <1>6, <1>7, <2>2 DEF IInv, RefsHeld, Claimed
  <2> QED BY <2>1, <2>2 DEF Claimed
<1>10. InHand'
  <2>1. CASE ftl'.req_dev = d
    BY <1>1, <1>2, <1>4, <1>6, <1>7, <2>1 DEF IInv, InHand, RefsHeld
  <2>2. CASE ftl'.req_dev # d
    BY <1>1, <1>2, <1>4, <1>6, <1>7, <2>2 DEF IInv, InHand, RefsHeld
  <2> QED BY <2>1, <2>2
<1>11. OwnRefs'
  BY <1>1, <1>2, <1>4, <1>6, <1>7 DEF IInv, OwnRefs, Owned
<1>12. Drained'
  BY <1>1, <1>2, <1>4, <1>6, <1>7 DEF IInv, Drained, OwnRefs, Owned
<1>13. Served'
  BY <1>1, <1>2, <1>4, <1>6, <1>7 DEF IInv, Served, Known, Bound, RefsHeld, InHand, OwnRefs,
                                      Owned, Drained
<1> QED BY <1>8, <1>9, <1>10, <1>11, <1>12, <1>13 DEF IInv

LEMMA CleanUpInv == ASSUME NEW d \in Devs, IInv, CleanUp(d) PROVE IInv'
<1> DEFINE u == dev[d].usage - 1
<1> DEFINE r == [Release(dev[d]) EXCEPT !.bus = "gone"]
<1>1. /\ d \in Devs /\ dev[d] \in Recs /\ ftl \in Layers
      /\ dev[d].bus = "bound" /\ dev[d].eject /\ ~dev[d].kick
  BY DEF CleanUp, IInv, Types, Layers, InHand
<1>2. /\ u \in Nat /\ u = dev[d].opens /\ dev[d].waiting = <<>> /\ u = dev[d].usage - 1
      /\ dev[d].usage > 0 /\ dev[d].opens \in Nat /\ dev[d].usage \in Nat
  BY <1>1 DEF IInv, OwnRefs, Owned, Drained, Recs
<1>3. dev' = [dev EXCEPT ![d] = r]
  BY <1>1 DEF CleanUp
<1>4. ftl' = ftl
  BY DEF CleanUp
<1> HIDE DEF u
<1>5. r \in Recs /\ r = [dev[d] EXCEPT !.usage = u, !.bus = "gone"]
  <2>1. Release(dev[d]) = [dev[d] EXCEPT !.usage = u]
    BY <1>1, <1>2 DEF Release, Recs
  <2>2. /\ [dev[d] EXCEPT !.usage = u] \in Recs
        /\ [dev[d] EXCEPT !.usage = u].opens = dev[d].opens
    BY <1>1, <1>2 DEF Recs
  <2> QED BY <1>1, <1>2, <2>1, <2>2 DEF Recs
<1>6. /\ r.bus = "gone" /\ r.usage = u /\ r.opens = dev[d].opens
      /\ r.eject = dev[d].eject /\ r.waiting = dev[d].waiting /\ r.busy = dev[d].busy
      /\ r.kick = dev[d].kick /\ r.calling = dev[d].calling /\ r.stopped = dev[d].stopped
      /\ r.refs = dev[d].refs
  BY <1>1, <1>2, <1>5 DEF Recs
<1> HIDE DEF r
<1>7. /\ dev' \in [Devs -> Recs] /\ dev'[d] = r
      /\ \A e \in Devs \ {d} : dev'[e] = dev[e]
  BY <1>1, <1>3, <1>5 DEF IInv, Types
<1>8. Types' /\ NoTwice(ftl.c_queue)'
  BY <1>1, <1>4, <1>7 DEF IInv, Types, Layers
<1>9. RefsHeld'
  <2> SUFFICES ASSUME NEW e \in Devs PROVE Claimed(e)'
    BY DEF RefsHeld, Claimed
  <2>1. CASE e = d
    BY <1>1, <1>2, <1>4, <1>6, <1>7, <2>1 DEF IInv, RefsHeld, Claimed
  <2>2. CASE e # d
    BY <1>1, <1>2, <1>4, <1>6, <1>7, <2>2 DEF IInv, RefsHeld, Claimed
  <2> QED BY <2>1, <2>2 DEF Claimed
<1>10. InHand'
  <2>1. CASE ftl'.req_dev = d
    BY <1>1, <1>2, <1>4, <1>6, <1>7, <2>1 DEF IInv, InHand, RefsHeld
  <2>2. CASE ftl'.req_dev # d
    BY <1>1, <1>2, <1>4, <1>6, <1>7, <2>2 DEF IInv, InHand, RefsHeld
  <2> QED BY <2>1, <2>2
<1>11. OwnRefs'
  <2> SUFFICES ASSUME NEW e \in Devs PROVE Owned(e)'
    BY DEF OwnRefs, Owned
  <2>1. CASE e = d
    <3>1. dev'[e].usage = dev'[e].opens /\ dev'[e].opens \in Nat /\ dev'[e].bus = "gone"
      BY <1>2, <1>6, <1>7, <2>1 DEF Owned
    <3>2. dev'[e].eject /\ dev'[e].waiting = <<>>
      BY <1>1, <1>2, <1>6, <1>7, <2>1 DEF Owned
    <3> QED BY <3>1, <3>2 DEF Owned
  <2>2. CASE e # d
    BY <1>7, <2>2 DEF IInv, OwnRefs, Owned
  <2> QED BY <2>1, <2>2 DEF Owned
<1>12. Drained'
  BY <1>1, <1>2, <1>4, <1>6, <1>7 DEF IInv, Drained, OwnRefs, Owned
<1>13. Served'
  BY <1>1, <1>2, <1>4, <1>6, <1>7 DEF IInv, Served, Known, Bound, RefsHeld, InHand, OwnRefs,
                                      Owned, Drained
<1> QED BY <1>8, <1>9, <1>10, <1>11, <1>12, <1>13 DEF IInv

-----------------------------------------------------------------------------
(* The invariant and what it says.                                         *)

\* Every step, and a step that changes nothing.
LEMMA StepInv == ASSUME None \notin Devs PROVE IInv /\ [MbNext]_mbVars => IInv'
<1> SUFFICES ASSUME IInv, [MbNext]_mbVars PROVE IInv'
  OBVIOUS
<1>1. CASE Users
  BY <1>1, ProbeInv, OpenInv, CloseInv, AskInv DEF Users
<1>2. CASE Submits
  BY <1>2, SubmitReqInv, PushInv, WakeInv DEF Submits
<1>3. CASE Serves
  <2>1. CASE MediaAsks \/ SendsOut \/ AsksAgain
    BY <2>1, LayerInv
  <2>2. CASE MbFetchReq \/ NextDev
    BY <2>2, FetchReqInv, NextDevInv
  <2>3. CASE EndRequest
    BY <2>3, CompleteReqInv DEF EndRequest
  <2>4. CASE OutEnds
    <3>1. CASE CompleteReq("ended")
      BY <3>1, CompleteReqInv
    <3>2. CASE EndedOnly
      BY <3>2, LayerInv
    <3> QED BY <2>4, <3>1, <3>2 DEF OutEnds, EndedOnly
  <2> QED BY <1>3, <2>1, <2>2, <2>3, <2>4 DEF Serves
<1>4. CASE Removes
  BY <1>4, LayerInv, RemoveDrainInv, EjectInv, CleanUpInv DEF Removes
<1>5. CASE Suspend \/ Resume
  BY <1>5, SuspendInv, ResumeInv
<1>6. CASE UNCHANGED mbVars
  BY <1>6 DEF mbVars, IInv, Types, RefsHeld, InHand, OwnRefs, Owned, Drained, Served, Known,
              Bound
<1> QED BY <1>1, <1>2, <1>3, <1>4, <1>5, <1>6 DEF MbNext

\* A device that has gone is not called: one goes when it has been ejected, which is when
\* the layer has ended its last request and its request function does not run, and that
\* function has run once more after it.
LEMMA IdleThen == ASSUME None \notin Devs PROVE IInv => RemovedIdle
<1> SUFFICES ASSUME IInv PROVE RemovedIdle
  OBVIOUS
<1>1. ftl \in Layers
  BY DEF IInv, Types
<1>2. ASSUME NEW d \in Devs, dev[d].bus = "gone"
      PROVE  /\ dev[d].waiting = <<>> /\ ~dev[d].busy /\ dev[d].calling = "no"
             /\ ~(ftl.req_dev = d /\ (ftl.at \in {"get", "next"} \/ ftl.req_in > 0))
             /\ dev[d].usage = dev[d].opens
  <2>1. dev[d].opens \in Nat /\ ftl.req_in \in 0 .. 2
    BY DEF IInv, Types, Recs, Layers
  <2>2. /\ dev[d].eject /\ dev[d].waiting = <<>> /\ dev[d].usage = dev[d].opens
    BY <1>2, <2>1 DEF IInv, OwnRefs, Owned
  <2>3. ftl.rm \in {"drop", "gone"} /\ ftl.req_in = 0 /\ ftl.at \notin {"get", "next"}
    BY <2>2 DEF IInv, Drained
  <2>4. dev[d].calling = "no"
    BY <1>2 DEF IInv, Drained
  <2> QED BY <2>2, <2>3, <2>4 DEF IInv, RefsHeld
<1>3. ASSUME ftl.rm = "gone"
      PROVE  /\ ftl.at \in {"idle", "ended"} /\ ftl.req_in = 0
             /\ \A d \in Devs : dev[d].calling = "no"
  <2>1. /\ ftl.req_in = 0 /\ ftl.at \notin {"get", "next"}
        /\ \A d \in Devs : dev[d].calling = "no"
    BY <1>3 DEF IInv, Drained
  <2>2. ftl.at # "out"
    BY <2>1 DEF IInv, InHand
  <2> QED BY <1>1, <2>1, <2>2 DEF Layers
<1> QED BY <1>2, <1>3 DEF RemovedIdle

\* mtdx_block.c, ftl_simple.c: until the card goes no request waits in a queue that runs
\* without the layer knowing of its device, nor a known device without the device below
\* being told; always a device has a reference for its place in the layer, and block_req is
\* set only while the layer works on it; at whatever point the card goes, a device that has
\* gone has no request left and is neither called by the layer nor calling it.
THEOREM MbDevicesServed == MbSpec => []DevicesServed
<1>1. MbInit => IInv
  BY NotADevice, InitInv
<1>2. IInv /\ [MbNext]_mbVars => IInv'
  BY NotADevice, StepInv
<1>3. IInv => DevicesServed
  BY NotADevice, IdleThen DEF IInv, DevicesServed
<1> QED BY <1>1, <1>2, <1>3, PTL DEF MbSpec

-----------------------------------------------------------------------------
(* long_map.c.                                                             *)

\* Two lists of nodes, one after the other.
LEMMA ListsJoined ==
  ASSUME NEW s \in Seq(Nodes), NEW t \in Seq(Nodes)
  PROVE  /\ s \o t \in Seq(Nodes) /\ Len(s \o t) = Len(s) + Len(t)
         /\ Lm!Range(s \o t) = Lm!Range(s) \cup Lm!Range(t)
         /\ Lm!IsInjective(s) /\ Lm!IsInjective(t) /\ Lm!Range(s) \cap Lm!Range(t) = {}
              => Lm!IsInjective(s \o t)
<1> DEFINE u == s \o t
<1>1. /\ u \in Seq(Nodes) /\ Len(u) = Len(s) + Len(t)
      /\ DOMAIN u = 1 .. Len(s) + Len(t) /\ DOMAIN s = 1 .. Len(s) /\ DOMAIN t = 1 .. Len(t)
      /\ Len(s) \in Nat /\ Len(t) \in Nat
  OBVIOUS
<1>2. \A i \in 1 .. Len(s) : u[i] = s[i]
  OBVIOUS
<1>3. \A i \in 1 .. Len(t) : u[Len(s) + i] = t[i]
  OBVIOUS
<1>4. \A i \in DOMAIN u : i \in DOMAIN s \/ (i - Len(s) \in DOMAIN t /\ u[i] = t[i - Len(s)])
  BY <1>1, <1>3
<1> HIDE DEF u
<1>5. Lm!Range(u) = Lm!Range(s) \cup Lm!Range(t)
  <2>1. \A i \in DOMAIN u : u[i] \in Lm!Range(s) \cup Lm!Range(t)
    BY <1>2, <1>4, <1>1 DEF Lm!Range
  <2>2. \A i \in DOMAIN s : s[i] \in Lm!Range(u)
    BY <1>1, <1>2 DEF Lm!Range
  <2>3. \A i \in DOMAIN t : t[i] \in Lm!Range(u)
    <3> TAKE i \in DOMAIN t
    <3>1. Len(s) + i \in DOMAIN u
      BY <1>1
    <3> QED BY <1>1, <1>3, <3>1 DEF Lm!Range
  <2> QED BY <2>1, <2>2, <2>3 DEF Lm!Range
<1>6. ASSUME Lm!IsInjective(s), Lm!IsInjective(t), Lm!Range(s) \cap Lm!Range(t) = {}
      PROVE  Lm!IsInjective(u)
  <2> SUFFICES ASSUME NEW i \in DOMAIN u, NEW j \in DOMAIN u, u[i] = u[j]
               PROVE  i = j
    BY DEF Lm!IsInjective
  <2>1. CASE i \in DOMAIN s /\ j \in DOMAIN s
    BY <1>1, <1>2, <1>6, <2>1 DEF Lm!IsInjective
  <2>2. CASE i \notin DOMAIN s /\ j \notin DOMAIN s
    <3>1. t[i - Len(s)] = t[j - Len(s)] /\ i - Len(s) \in DOMAIN t /\ j - Len(s) \in DOMAIN t
      BY <1>4, <2>2
    <3>2. i - Len(s) = j - Len(s)
      BY <1>6, <3>1 DEF Lm!IsInjective
    <3> QED BY <1>1, <3>2
  <2>3. CASE i \in DOMAIN s /\ j \notin DOMAIN s
    BY <1>1, <1>2, <1>4, <1>6, <2>3 DEF Lm!Range
  <2>4. CASE i \notin DOMAIN s /\ j \in DOMAIN s
    BY <1>1, <1>2, <1>4, <1>6, <2>4 DEF Lm!Range
  <2> QED BY <2>1, <2>2, <2>3, <2>4
<1> QED BY <1>1, <1>5, <1>6 DEF u

\* A list of one node.
LEMMA OneNode ==
  ASSUME NEW n \in Nodes
  PROVE  /\ <<n>> \in Seq(Nodes) /\ Len(<<n>>) = 1 /\ Lm!Range(<<n>>) = {n}
         /\ Lm!IsInjective(<<n>>)
<1>1. <<n>> \in Seq(Nodes) /\ Len(<<n>>) = 1 /\ DOMAIN <<n>> = {1} /\ <<n>>[1] = n
  OBVIOUS
<1> QED BY <1>1 DEF Lm!Range, Lm!IsInjective

\* No node.
LEMMA NoNode ==
  <<>> \in Seq(Nodes) /\ Len(<<>>) = 0 /\ Lm!Range(<<>>) = {} /\ Lm!IsInjective(<<>>)
<1>1. <<>> \in Seq(Nodes) /\ Len(<<>>) = 0 /\ DOMAIN <<>> = {}
  OBVIOUS
<1> QED BY <1>1 DEF Lm!Range, Lm!IsInjective

\* The list without its first node.
LEMMA FirstTaken ==
  ASSUME NEW s \in Seq(Nodes), s # <<>>, Lm!IsInjective(s)
  PROVE  /\ Head(s) \in Nodes /\ Tail(s) \in Seq(Nodes) /\ Len(Tail(s)) = Len(s) - 1
         /\ Lm!IsInjective(Tail(s)) /\ Head(s) \in Lm!Range(s)
         /\ Lm!Range(Tail(s)) = Lm!Range(s) \ {Head(s)}
         /\ <<Head(s)>> \o Tail(s) = s
<1> DEFINE t == Tail(s)
<1>1. /\ Len(s) \in Nat /\ Len(s) > 0 /\ Head(s) = s[1] /\ t \in Seq(Nodes)
      /\ Len(t) = Len(s) - 1 /\ DOMAIN s = 1 .. Len(s) /\ DOMAIN t = 1 .. Len(s) - 1
      /\ Head(s) \in Nodes
  OBVIOUS
<1>2. \A i \in 1 .. Len(s) - 1 : t[i] = s[i + 1]
  OBVIOUS
<1>3. <<Head(s)>> \o t = s
  BY HeadTailProperties, ConcatSimplifications
<1> HIDE DEF t
<1>4. Lm!IsInjective(t)
  <2> SUFFICES ASSUME NEW i \in DOMAIN t, NEW j \in DOMAIN t, t[i] = t[j]
               PROVE  i = j
    BY DEF Lm!IsInjective
  <2>1. s[i + 1] = s[j + 1] /\ i + 1 \in DOMAIN s /\ j + 1 \in DOMAIN s
    BY <1>1, <1>2
  <2>2. i + 1 = j + 1
    BY <2>1 DEF Lm!IsInjective
  <2> QED BY <1>1, <2>2
<1>5. Lm!Range(t) = Lm!Range(s) \ {Head(s)}
  <2>1. \A i \in DOMAIN t : t[i] \in Lm!Range(s) /\ t[i] # Head(s)
    <3> TAKE i \in DOMAIN t
    <3>1. i + 1 \in DOMAIN s /\ 1 \in DOMAIN s /\ i + 1 # 1 /\ t[i] = s[i + 1]
      BY <1>1, <1>2
    <3>2. s[i + 1] # s[1]
      BY <3>1 DEF Lm!IsInjective
    <3> QED BY <1>1, <3>1, <3>2 DEF Lm!Range
  <2>2. \A i \in DOMAIN s : s[i] # Head(s) => i - 1 \in DOMAIN t /\ t[i - 1] = s[i]
    BY <1>1, <1>2
  <2> QED BY <2>1, <2>2 DEF Lm!Range
<1>6. Head(s) \in Lm!Range(s)
  BY <1>1 DEF Lm!Range
<1> QED BY <1>1, <1>3, <1>4, <1>5, <1>6 DEF t

\* The list backwards.
LEMMA ListReversed ==
  ASSUME NEW s \in Seq(Nodes)
  PROVE  /\ Lm!Reverse(s) \in Seq(Nodes) /\ Len(Lm!Reverse(s)) = Len(s)
         /\ Lm!Range(Lm!Reverse(s)) = Lm!Range(s)
         /\ Lm!IsInjective(s) => Lm!IsInjective(Lm!Reverse(s))
<1> DEFINE r == Lm!Reverse(s)
<1>1. r = [i \in 1 .. Len(s) |-> s[(Len(s) - i) + 1]]
  BY DEF Lm!Reverse
<1>2. Len(s) \in Nat /\ DOMAIN s = 1 .. Len(s) /\ \A i \in 1 .. Len(s) : s[i] \in Nodes
  OBVIOUS
<1>3. \A i \in 1 .. Len(s) : (Len(s) - i) + 1 \in 1 .. Len(s) /\ r[i] = s[(Len(s) - i) + 1]
  BY <1>1, <1>2
<1>4. r \in Seq(Nodes) /\ Len(r) = Len(s) /\ DOMAIN r = 1 .. Len(s)
  <2>1. r \in [1 .. Len(s) -> Nodes]
    BY <1>1, <1>2, <1>3
  <2> QED BY <1>2, <2>1
<1> HIDE DEF r
<1>5. \A i \in 1 .. Len(s) : r[(Len(s) - i) + 1] = s[i] /\ (Len(s) - i) + 1 \in 1 .. Len(s)
  <2> TAKE i \in 1 .. Len(s)
  <2>1. (Len(s) - i) + 1 \in 1 .. Len(s) /\ (Len(s) - ((Len(s) - i) + 1)) + 1 = i
    BY <1>2
  <2> QED BY <1>3, <2>1
<1>6. Lm!Range(r) = Lm!Range(s)
  BY <1>2, <1>3, <1>4, <1>5 DEF Lm!Range
<1>7. ASSUME Lm!IsInjective(s) PROVE Lm!IsInjective(r)
  <2> SUFFICES ASSUME NEW i \in DOMAIN r, NEW j \in DOMAIN r, r[i] = r[j]
               PROVE  i = j
    BY DEF Lm!IsInjective
  <2>1. (Len(s) - i) + 1 = (Len(s) - j) + 1
    BY <1>2, <1>3, <1>4, <1>7 DEF Lm!IsInjective
  <2> QED BY <1>2, <1>4, <2>1
<1> QED BY <1>4, <1>6, <1>7 DEF r

\* A tree with one more key, and with one less.
Grown(g, f, k, n) ==
  /\ DOMAIN g = DOMAIN f \cup {k} /\ g[k] = n /\ \A x \in DOMAIN f : g[x] = f[x]
  /\ Lm!Range(g) = Lm!Range(f) \cup {n} /\ Lm!IsInjective(g)

LEMMA KeyAdded ==
  ASSUME NEW f, NEW k, NEW n, k \notin DOMAIN f, n \notin Lm!Range(f), Lm!IsInjective(f)
  PROVE  Grown(Lm!With(f, k, n), f, k, n)
<1> DEFINE g == Lm!With(f, k, n)
<1>1. DOMAIN g = DOMAIN f \cup {k} /\ g[k] = n /\ \A x \in DOMAIN f : g[x] = f[x]
  BY DEF Lm!With
<1> HIDE DEF g
<1>2. Lm!Range(g) = Lm!Range(f) \cup {n}
  BY <1>1 DEF Lm!Range
<1>3. Lm!IsInjective(g)
  BY <1>1 DEF Lm!IsInjective, Lm!Range
<1>4. Grown(g, f, k, n)
  BY <1>1, <1>2, <1>3 DEF Grown
<1> QED BY <1>4 DEF g

LEMMA KeyRemoved ==
  ASSUME NEW f, NEW k \in DOMAIN f, Lm!IsInjective(f)
  PROVE  /\ DOMAIN Lm!Without(f, k) = DOMAIN f \ {k}
         /\ \A x \in DOMAIN f \ {k} : Lm!Without(f, k)[x] = f[x]
         /\ Lm!Range(Lm!Without(f, k)) = Lm!Range(f) \ {f[k]}
         /\ Lm!IsInjective(Lm!Without(f, k))
<1> DEFINE g == Lm!Without(f, k)
<1>1. DOMAIN g = DOMAIN f \ {k} /\ \A x \in DOMAIN f \ {k} : g[x] = f[x]
  BY DEF Lm!Without, Lm!Restrict
<1> HIDE DEF g
<1>2. Lm!Range(g) = Lm!Range(f) \ {f[k]}
  BY <1>1 DEF Lm!Range, Lm!IsInjective
<1>3. Lm!IsInjective(g)
  BY <1>1 DEF Lm!IsInjective
<1> QED BY <1>1, <1>2, <1>3 DEF g

\* The empty tree.
LEMMA EmptyTree ==
  /\ Lm!Nothing \in [{} -> Nodes] /\ DOMAIN Lm!Nothing = {}
  /\ Lm!Range(Lm!Nothing) = {} /\ Lm!IsInjective(Lm!Nothing)
BY DEF Lm!Nothing, Lm!Range, Lm!IsInjective

-----------------------------------------------------------------------------
(* The invariant of long_map.c.                                            *)

Trees == UNION {[S -> Nodes] : S \in SUBSET Keys}
Maps  == [useful : Trees, retired : Seq(Nodes), c_block : Nodes \cup {None}, rnode_count : Nat]
Pres  == [at : {"idle", "test", "alloc"}, count : Nat, r_cnt : Int, h : Seq(Nodes)]

LmTypes == map \in Maps /\ key \in [Nodes -> Keys \cup {None}] /\ pre \in [Threads -> Pres]

\* A node that is found bears the key it is under, the one used last too; the callers have
\* what is in the tree, and a node's memory is theirs as long as it is there.
KeysTrue ==
  /\ lm_store = map.useful
  /\ \A k \in DOMAIN map.useful : key[map.useful[k]] = k
  /\ map.c_block # None => /\ key[map.c_block] \in DOMAIN map.useful
                           /\ map.useful[key[map.c_block]] = map.c_block

\* A caller of long_map_prealloc() has nodes only while it allocates them.
HandsEmpty == \A t \in Threads : pre[t].at # "alloc" => pre[t].h = <<>>

MapInv == LmTypes /\ KeysTrue /\ HandsEmpty /\ Lm!NodesInPlace

\* A function of the trees.
LEMMA TreeType ==
  ASSUME NEW f
  PROVE  f \in Trees <=> /\ f = [x \in DOMAIN f |-> f[x]]
                         /\ DOMAIN f \subseteq Keys /\ \A k \in DOMAIN f : f[k] \in Nodes
BY DEF Trees

\* long_map_find_useful() finds what the tree has.
LEMMA FoundInTree ==
  ASSUME MapInv, NEW k \in Keys
  PROVE  /\ k \in DOMAIN map.useful => Lm!FindUseful(map, k) = map.useful[k]
         /\ k \notin DOMAIN map.useful => Lm!FindUseful(map, k) = None
BY DEF MapInv, KeysTrue, Lm!FindUseful

\* What is asked for is found.
LEMMA InvFinds ==
  ASSUME MapInv PROVE Lm!MapKept
BY FoundInTree DEF MapInv, KeysTrue, Lm!MapKept, Lm!FindsWhatIsStored

-----------------------------------------------------------------------------
(* Every operation preserves it.                                           *)

\* A map whose nodes are those of before, in other places.
LEMMA NodesMoved ==
  ASSUME MapInv, NEW m,
         Lm!Range(m.useful) \cup Lm!Range(m.retired)
           = Lm!Range(map.useful) \cup Lm!Range(map.retired),
         Lm!Range(m.useful) \cap Lm!Range(m.retired) = {},
         Lm!IsInjective(m.useful), Lm!IsInjective(m.retired), m.rnode_count = Len(m.retired),
         map' = m, owned' = owned, pre' = pre
  PROVE  Lm!NodesInPlace'
<1> DEFINE U == Lm!Range(map.useful)  R == Lm!Range(map.retired)
           U1 == Lm!Range(m.useful)   R1 == Lm!Range(m.retired)
           H(t) == Lm!Range(pre[t].h)
<1>1. /\ owned = U \cup R \cup UNION {H(t) : t \in Threads}
      /\ \A t \in Threads : /\ H(t) \cap (U \cup R) = {}
                            /\ \A u \in Threads \ {t} : H(t) \cap H(u) = {}
                            /\ Lm!IsInjective(pre[t].h)
  BY DEF MapInv, Lm!NodesInPlace
<1>2. U1 \cup R1 = U \cup R
  OBVIOUS
<1>3. /\ owned = U1 \cup R1 \cup UNION {H(t) : t \in Threads}
      /\ \A t \in Threads : H(t) \cap (U1 \cup R1) = {}
  BY <1>1, <1>2
<1> QED BY <1>1, <1>3 DEF Lm!NodesInPlace

\* What the invariant says of the map, for the operations.
LEMMA MapHolds ==
  ASSUME MapInv
  PROVE  /\ map \in Maps /\ DOMAIN map.useful \subseteq Keys
         /\ \A k \in DOMAIN map.useful : map.useful[k] \in Nodes
         /\ map.useful \in Trees /\ map.retired \in Seq(Nodes) /\ Len(map.retired) \in Nat
         /\ map.c_block \in Nodes \cup {None} /\ map.rnode_count = Len(map.retired)
         /\ key \in [Nodes -> Keys \cup {None}] /\ pre \in [Threads -> Pres]
         /\ Lm!IsInjective(map.useful) /\ Lm!IsInjective(map.retired)
         /\ Lm!Range(map.useful) \cap Lm!Range(map.retired) = {}
         /\ lm_store = map.useful
<1>1. map \in Maps /\ key \in [Nodes -> Keys \cup {None}] /\ pre \in [Threads -> Pres]
  BY DEF MapInv, LmTypes
<1>2. /\ map.useful \in Trees /\ map.retired \in Seq(Nodes)
      /\ map.c_block \in Nodes \cup {None}
  BY <1>1 DEF Maps
<1>3. DOMAIN map.useful \subseteq Keys /\ \A k \in DOMAIN map.useful : map.useful[k] \in Nodes
  BY <1>2, TreeType
<1>4. /\ Lm!IsInjective(map.useful) /\ Lm!IsInjective(map.retired)
      /\ Lm!Range(map.useful) \cap Lm!Range(map.retired) = {}
      /\ map.rnode_count = Len(map.retired)
  BY DEF MapInv, Lm!NodesInPlace
<1> QED BY <1>1, <1>2, <1>3, <1>4 DEF MapInv, KeysTrue

\* Where nothing of the map changes.
LEMMA NothingMoved ==
  ASSUME MapInv, UNCHANGED <<map, key, lm_store>>, UNCHANGED <<owned, pre>>
  PROVE  MapInv'
BY DEF MapInv, LmTypes, KeysTrue, HandsEmpty, Lm!NodesInPlace

\* long_map_get() changes only what is remembered.
LEMMA GetKeeps ==
  ASSUME MapInv, None \notin Nodes, NEW k \in Keys, Lm!Get(k)
  PROVE  MapInv'
<1> DEFINE m == Lm!Found(map, k)
<1>1. map' = m /\ UNCHANGED <<key, lm_store, owned, pre>>
  BY DEF Lm!Get, Lm!Op
<1>2. CASE k \notin DOMAIN map.useful
  <2>1. m = map
    BY <1>2, FoundInTree, MapHolds DEF Lm!Found, Maps
  <2>2. UNCHANGED <<map, key, lm_store>> /\ UNCHANGED <<owned, pre>>
    BY <1>1, <2>1
  <2> QED BY <2>2, NothingMoved
<1>3. CASE k \in DOMAIN map.useful
  <2>1. map.useful[k] \in Nodes /\ Lm!FindUseful(map, k) = map.useful[k]
    BY <1>3, FoundInTree, MapHolds
  <2>2. m = [map EXCEPT !.c_block = map.useful[k]]
    BY <2>1 DEF Lm!Found
  <2>3. /\ m \in Maps /\ m.useful = map.useful /\ m.retired = map.retired
        /\ m.rnode_count = map.rnode_count /\ m.c_block = map.useful[k]
    BY <2>1, <2>2, MapHolds DEF Maps
  <2>4. LmTypes' /\ HandsEmpty'
    BY <1>1, <2>3 DEF MapInv, LmTypes, HandsEmpty
  <2>5. KeysTrue'
    BY <1>1, <1>3, <2>3 DEF MapInv, KeysTrue
  <2>6. Lm!NodesInPlace'
    BY <1>1, <2>3 DEF MapInv, Lm!NodesInPlace
  <2> QED BY <2>4, <2>5, <2>6 DEF MapInv
<1> QED BY <1>2, <1>3

\* long_map_insert() takes a retired node, or puts it back.
LEMMA InsertKeeps ==
  ASSUME MapInv, None \notin Nodes, NEW k \in Keys, Lm!Insert(k)
  PROVE  MapInv'
<1> DEFINE b   == Head(map.retired)
           got == [map EXCEPT !.retired = Tail(@), !.rnode_count = @ - 1]
<1>1. UNCHANGED <<owned, pre>>
  BY DEF Lm!Insert, Lm!Op
<1>2. CASE map.retired = <<>>
  <2>1. UNCHANGED <<map, key, lm_store>>
    BY <1>2 DEF Lm!Insert
  <2> QED BY <1>1, <2>1, NothingMoved
<1>3. CASE map.retired # <<>>
  <2>1. /\ b \in Nodes /\ Tail(map.retired) \in Seq(Nodes)
        /\ Len(Tail(map.retired)) = Len(map.retired) - 1
        /\ Lm!IsInjective(Tail(map.retired)) /\ b \in Lm!Range(map.retired)
        /\ Lm!Range(Tail(map.retired)) = Lm!Range(map.retired) \ {b}
        /\ <<b>> \o Tail(map.retired) = map.retired
    BY <1>3, MapHolds, FirstTaken
  <2>2. b \notin Lm!Range(map.useful)
    BY <2>1, MapHolds
  <2>3. key' = [key EXCEPT ![b] = k]
    BY <1>3 DEF Lm!Insert
  <2>4. key' \in [Nodes -> Keys \cup {None}] /\ key'[b] = k
        /\ \A n \in Nodes \ {b} : key'[n] = key[n]
    BY <2>1, <2>3, MapHolds
  <2>5. /\ got.useful = map.useful /\ got.retired = Tail(map.retired)
        /\ got.rnode_count = Len(Tail(map.retired)) /\ got.c_block = map.c_block
        /\ got \in Maps
    <3>1. /\ got.useful = map.useful /\ got.retired = Tail(map.retired)
          /\ got.rnode_count = map.rnode_count - 1 /\ got.c_block = map.c_block
          /\ DOMAIN got = DOMAIN map
      BY MapHolds DEF Maps
    <3>2. got.rnode_count = Len(Tail(map.retired)) /\ got.rnode_count \in Nat
      BY <2>1, <3>1, MapHolds, LenProperties
    <3>3. got = [map EXCEPT !.retired = Tail(map.retired), !.rnode_count = Len(Tail(map.retired))]
      BY <2>1, MapHolds
    <3> QED BY <2>1, <3>1, <3>2, <3>3, MapHolds DEF Maps
  <2>6. \A x \in DOMAIN map.useful : map.useful[x] \in Nodes \ {b} /\ key'[map.useful[x]] = x
    BY <2>2, <2>4, MapHolds DEF MapInv, KeysTrue, Lm!Range
  <2>7. map.c_block # None => /\ map.c_block # b /\ key'[map.c_block] \in DOMAIN map.useful
                              /\ map.useful[key'[map.c_block]] = map.c_block
    BY <2>6 DEF MapInv, KeysTrue
  <2>8. CASE k \in DOMAIN map.useful
    <3>1. map' = Lm!PutNode(got, b) /\ lm_store' = lm_store
      BY <1>3, <2>8 DEF Lm!Insert
    <3>2. Lm!PutNode(got, b) = [got EXCEPT !.retired = map.retired, !.rnode_count = got.rnode_count + 1, !.c_block = map.c_block]
      <4>1. (IF got.c_block = b THEN None ELSE got.c_block) = map.c_block
        BY <2>1, <2>5, <2>7
      <4> QED BY <2>1, <2>5, <4>1 DEF Lm!PutNode
    <3>3. got.rnode_count + 1 = map.rnode_count
      BY <2>1, <2>5, MapHolds
    <3>4. map' = map
      BY <2>5, <3>1, <3>2, <3>3, MapHolds DEF Maps
    <3>5. LmTypes' /\ HandsEmpty' /\ Lm!NodesInPlace'
      BY <1>1, <2>4, <3>4 DEF MapInv, LmTypes, HandsEmpty, Lm!NodesInPlace
    <3>6. KeysTrue'
      BY <2>6, <2>7, <3>1, <3>4 DEF MapInv, KeysTrue
    <3> QED BY <3>5, <3>6 DEF MapInv
  <2>9. CASE k \notin DOMAIN map.useful
    <3> DEFINE u == Lm!With(map.useful, k, b)
               m == [got EXCEPT !.useful = Lm!With(@, k, b), !.c_block = b]
    <3>1. map' = m /\ lm_store' = Lm!With(lm_store, k, b)
      BY <1>3, <2>9 DEF Lm!Insert
    <3>2. /\ DOMAIN u = DOMAIN map.useful \cup {k} /\ u[k] = b
          /\ \A x \in DOMAIN map.useful : u[x] = map.useful[x]
          /\ Lm!Range(u) = Lm!Range(map.useful) \cup {b} /\ Lm!IsInjective(u)
      <4>1. Lm!IsInjective(map.useful)
        BY MapHolds
      <4>2. Grown(u, map.useful, k, b)
        BY <2>2, <2>9, <4>1, KeyAdded
      <4> QED BY <4>2 DEF Grown
    <3>3. u \in Trees
      <4>1. u = [x \in DOMAIN u |-> u[x]]
        BY DEF Lm!With
      <4>2. DOMAIN u \subseteq Keys /\ \A x \in DOMAIN u : u[x] \in Nodes
        BY <2>1, <3>2, MapHolds
      <4> QED BY <4>1, <4>2, TreeType
    <3>4. /\ m.useful = u /\ m.retired = Tail(map.retired) /\ m.c_block = b
          /\ m.rnode_count = Len(Tail(map.retired)) /\ m \in Maps
      <4> HIDE DEF u
      <4>1. m = [got EXCEPT !.useful = u, !.c_block = b]
        BY <2>5 DEF u
      <4> QED BY <2>1, <2>5, <3>3, <4>1 DEF Maps
    <3> HIDE DEF u, m, got, b
    <3>5. LmTypes' /\ HandsEmpty'
      BY <1>1, <2>4, <3>1, <3>4 DEF MapInv, LmTypes, HandsEmpty
    <3>6. lm_store' = u
      BY <3>1, MapHolds DEF u
    <3>7. KeysTrue'
      BY <2>1, <2>4, <2>6, <3>1, <3>2, <3>4, <3>6 DEF KeysTrue
    <3>8. /\ Lm!Range(u) \cup Lm!Range(m.retired)
               = Lm!Range(map.useful) \cup Lm!Range(map.retired)
          /\ Lm!Range(u) \cap Lm!Range(m.retired) = {}
      BY <2>1, <3>2, <3>4, MapHolds
    <3>9. Lm!NodesInPlace'
      BY <1>1, <2>1, <3>1, <3>2, <3>4, <3>8, NodesMoved
    <3> QED BY <3>5, <3>7, <3>9 DEF MapInv
  <2> QED BY <2>8, <2>9
<1> QED BY <1>2, <1>3

\* long_map_move() takes a node from one key to another, or retires it.
LEMMA MoveKeeps ==
  ASSUME MapInv, None \notin Nodes, NEW dst \in Keys, NEW src \in Keys, Lm!Move(dst, src)
  PROVE  MapInv'
<1> DEFINE b     == Lm!FindUseful(map, src)
           taken == [Lm!Found(map, src) EXCEPT !.useful = Lm!Without(@, src)]
           v     == Lm!Without(map.useful, src)
<1>1. UNCHANGED <<owned, pre>> /\ dst # src
  BY DEF Lm!Move, Lm!Op
<1>2. CASE src \notin DOMAIN map.useful
  <2>1. b = None
    BY <1>2, FoundInTree
  <2>2. UNCHANGED <<map, key, lm_store>>
    BY <2>1 DEF Lm!Move
  <2> QED BY <1>1, <2>2, NothingMoved
<1>3. CASE src \in DOMAIN map.useful
  <2>1. b = map.useful[src] /\ b \in Nodes /\ b # None
    BY <1>3, FoundInTree, MapHolds
  <2>2. /\ DOMAIN v = DOMAIN map.useful \ {src}
        /\ \A x \in DOMAIN map.useful \ {src} : v[x] = map.useful[x]
        /\ Lm!Range(v) = Lm!Range(map.useful) \ {b} /\ Lm!IsInjective(v)
    <3>1. Lm!IsInjective(map.useful)
      BY MapHolds
    <3>2. /\ DOMAIN v = DOMAIN map.useful \ {src}
          /\ \A x \in DOMAIN map.useful \ {src} : v[x] = map.useful[x]
          /\ Lm!Range(v) = Lm!Range(map.useful) \ {map.useful[src]} /\ Lm!IsInjective(v)
      <4> HIDE DEF b
      <4> QED BY <1>3, <3>1, KeyRemoved
    <3> HIDE DEF b, v
    <3> QED BY <2>1, <3>2
  <2>3. v \in Trees
    <3>1. v = [x \in DOMAIN v |-> v[x]]
      BY DEF Lm!Without, Lm!Restrict
    <3>2. DOMAIN v \subseteq Keys /\ \A x \in DOMAIN v : v[x] \in Nodes
      BY <2>2, MapHolds
    <3> QED BY <3>1, <3>2, TreeType
  <2>4. b \in Lm!Range(map.useful) /\ b \notin Lm!Range(map.retired) /\ b \notin Lm!Range(v)
    <3>1. b \in Lm!Range(map.useful)
      BY <1>3, <2>1 DEF Lm!Range
    <3> QED BY <2>2, <3>1, MapHolds
  <2>5. taken = [map EXCEPT !.c_block = b, !.useful = v]
    <3>1. Lm!Found(map, src) = [map EXCEPT !.c_block = b]
      BY <2>1 DEF Lm!Found
    <3> QED BY <3>1, MapHolds DEF Maps
  <2> HIDE DEF b, v, taken
  <2>6. /\ taken.useful = v /\ taken.retired = map.retired /\ taken.c_block = b
        /\ taken.rnode_count = map.rnode_count /\ taken \in Maps
    BY <2>1, <2>3, <2>5, MapHolds DEF Maps
  <2>7. key' = [key EXCEPT ![b] = dst]
    BY <2>1 DEF Lm!Move, b
  <2>8. key' \in [Nodes -> Keys \cup {None}] /\ key'[b] = dst
        /\ \A n \in Nodes \ {b} : key'[n] = key[n]
    BY <2>1, <2>7, MapHolds
  <2>9. \A x \in DOMAIN v : v[x] \in Nodes \ {b} /\ key'[v[x]] = x
    BY <2>2, <2>4, <2>8, MapHolds DEF MapInv, KeysTrue, Lm!Range
  <2>10. CASE dst \in DOMAIN map.useful
    <3> DEFINE m == Lm!PutNode(taken, b)
    <3>1. map' = m /\ lm_store' = v
      BY <2>1, <2>10, MapHolds DEF Lm!Move, b, taken, v
    <3>2. /\ <<b>> \o map.retired \in Seq(Nodes)
          /\ Len(<<b>> \o map.retired) = Len(map.retired) + 1
          /\ Lm!Range(<<b>> \o map.retired) = {b} \cup Lm!Range(map.retired)
          /\ Lm!IsInjective(<<b>> \o map.retired)
      <4>1. map.retired \in Seq(Nodes) /\ Lm!IsInjective(map.retired) /\ Len(map.retired) \in Nat
        BY MapHolds
      <4>2. <<b>> \in Seq(Nodes) /\ Len(<<b>>) = 1 /\ Lm!Range(<<b>>) = {b} /\ Lm!IsInjective(<<b>>)
        BY <2>1, OneNode
      <4>3. Lm!Range(<<b>>) \cap Lm!Range(map.retired) = {}
        BY <2>4, <4>2
      <4>4. /\ <<b>> \o map.retired \in Seq(Nodes)
            /\ Len(<<b>> \o map.retired) = Len(<<b>>) + Len(map.retired)
            /\ Lm!Range(<<b>> \o map.retired) = Lm!Range(<<b>>) \cup Lm!Range(map.retired)
            /\ Lm!IsInjective(<<b>> \o map.retired)
        BY <4>1, <4>2, <4>3, ListsJoined
      <4> QED BY <4>1, <4>2, <4>4
    <3>3. /\ m.useful = v /\ m.retired = <<b>> \o map.retired /\ m.c_block = None
          /\ m.rnode_count = Len(<<b>> \o map.retired) /\ m \in Maps
      <4>1. m = [taken EXCEPT !.retired = <<b>> \o map.retired, !.rnode_count = map.rnode_count + 1,
                              !.c_block = None]
        BY <2>6 DEF Lm!PutNode
      <4>2. map.rnode_count + 1 = Len(<<b>> \o map.retired) /\ map.rnode_count + 1 \in Nat
        BY <3>2, MapHolds
      <4> HIDE DEF m
      <4> QED BY <2>6, <3>2, <4>1, <4>2 DEF Maps
    <3> HIDE DEF m
    <3>4. LmTypes' /\ HandsEmpty'
      BY <1>1, <2>8, <3>1, <3>3 DEF MapInv, LmTypes, HandsEmpty
    <3>5. KeysTrue'
      BY <2>9, <3>1, <3>3 DEF KeysTrue
    <3>6. /\ Lm!Range(m.useful) \cup Lm!Range(m.retired)
               = Lm!Range(map.useful) \cup Lm!Range(map.retired)
          /\ Lm!Range(m.useful) \cap Lm!Range(m.retired) = {}
      BY <2>2, <2>4, <3>2, <3>3, MapHolds
    <3>7. Lm!IsInjective(m.useful) /\ Lm!IsInjective(m.retired) /\ m.rnode_count = Len(m.retired)
      BY <2>2, <3>2, <3>3
    <3>8. Lm!NodesInPlace'
      BY <1>1, <3>1, <3>6, <3>7, NodesMoved
    <3> QED BY <3>4, <3>5, <3>8 DEF MapInv
  <2>11. CASE dst \notin DOMAIN map.useful
    <3> DEFINE u == Lm!With(v, dst, b)
               m == [taken EXCEPT !.useful = Lm!With(@, dst, b)]
    <3>1. map' = m /\ lm_store' = Lm!With(v, dst, lm_store[src])
      BY <2>1, <2>11, MapHolds DEF Lm!Move, b, taken, v
    <3>2. lm_store' = u
      BY <2>1, <3>1, MapHolds
    <3>3. /\ DOMAIN u = DOMAIN v \cup {dst} /\ u[dst] = b
          /\ \A x \in DOMAIN v : u[x] = v[x]
          /\ Lm!Range(u) = Lm!Range(v) \cup {b} /\ Lm!IsInjective(u)
      <4>1. dst \notin DOMAIN v
        BY <2>2, <2>11
      <4>2. Lm!IsInjective(v) /\ b \notin Lm!Range(v)
        BY <2>2, <2>4
      <4>3. Grown(u, v, dst, b)
        BY <4>1, <4>2, KeyAdded
      <4> QED BY <4>3 DEF Grown
    <3>4. u \in Trees
      <4>1. u = [x \in DOMAIN u |-> u[x]]
        BY DEF Lm!With
      <4>2. DOMAIN u \subseteq Keys /\ \A x \in DOMAIN u : u[x] \in Nodes
        BY <2>1, <2>2, <3>3, MapHolds
      <4> QED BY <4>1, <4>2, TreeType
    <3>5. m = [taken EXCEPT !.useful = u]
      BY <2>6
    <3> HIDE DEF u, m
    <3>6. /\ m.useful = u /\ m.retired = map.retired /\ m.c_block = b
          /\ m.rnode_count = Len(map.retired) /\ m \in Maps
      BY <2>6, <3>4, <3>5, MapHolds DEF Maps
    <3>7. LmTypes' /\ HandsEmpty'
      BY <1>1, <2>8, <3>1, <3>6 DEF MapInv, LmTypes, HandsEmpty
    <3>8. KeysTrue'
      BY <2>1, <2>8, <2>9, <3>1, <3>2, <3>3, <3>6 DEF KeysTrue
    <3>9. /\ Lm!Range(m.useful) \cup Lm!Range(m.retired)
               = Lm!Range(map.useful) \cup Lm!Range(map.retired)
          /\ Lm!Range(m.useful) \cap Lm!Range(m.retired) = {}
      BY <2>2, <2>4, <3>3, <3>6, MapHolds
    <3>10. Lm!IsInjective(m.useful) /\ Lm!IsInjective(m.retired) /\ m.rnode_count = Len(m.retired)
      BY <3>3, <3>6, MapHolds
    <3>11. Lm!NodesInPlace'
      BY <1>1, <3>1, <3>9, <3>10, NodesMoved
    <3> QED BY <3>7, <3>8, <3>11 DEF MapInv
  <2> QED BY <2>10, <2>11
<1> QED BY <1>2, <1>3

\* long_map_erase() retires the node of a key.
LEMMA EraseKeeps ==
  ASSUME MapInv, None \notin Nodes, NEW k \in Keys, Lm!Erase(k)
  PROVE  MapInv'
<1> DEFINE b     == Lm!FindUseful(map, k)
           taken == [Lm!Found(map, k) EXCEPT !.useful = Lm!Without(@, k)]
           v     == Lm!Without(map.useful, k)
<1>1. UNCHANGED <<owned, pre>> /\ key' = key /\ lm_store' = v
  BY MapHolds DEF Lm!Erase, Lm!Op
<1>2. CASE k \notin DOMAIN map.useful
  <2>1. b = None
    BY <1>2, FoundInTree
  <2>2. v = map.useful
    <3>1. map.useful = [x \in DOMAIN map.useful |-> map.useful[x]]
      BY MapHolds, TreeType
    <3>2. DOMAIN map.useful \ {k} = DOMAIN map.useful
      BY <1>2
    <3> QED BY <3>1, <3>2 DEF Lm!Without, Lm!Restrict
  <2>3. UNCHANGED <<map, key, lm_store>>
    BY <1>1, <2>1, <2>2, MapHolds DEF Lm!Erase
  <2> QED BY <1>1, <2>3, NothingMoved
<1>3. CASE k \in DOMAIN map.useful
  <2>1. b = map.useful[k] /\ b \in Nodes /\ b # None
    BY <1>3, FoundInTree, MapHolds
  <2>2. /\ DOMAIN v = DOMAIN map.useful \ {k}
        /\ \A x \in DOMAIN map.useful \ {k} : v[x] = map.useful[x]
        /\ Lm!Range(v) = Lm!Range(map.useful) \ {b} /\ Lm!IsInjective(v)
    <3>1. Lm!IsInjective(map.useful)
      BY MapHolds
    <3>2. /\ DOMAIN v = DOMAIN map.useful \ {k}
          /\ \A x \in DOMAIN map.useful \ {k} : v[x] = map.useful[x]
          /\ Lm!Range(v) = Lm!Range(map.useful) \ {map.useful[k]} /\ Lm!IsInjective(v)
      <4> HIDE DEF b
      <4> QED BY <1>3, <3>1, KeyRemoved
    <3> HIDE DEF b, v
    <3> QED BY <2>1, <3>2
  <2>3. v \in Trees
    <3>1. v = [x \in DOMAIN v |-> v[x]]
      BY DEF Lm!Without, Lm!Restrict
    <3>2. DOMAIN v \subseteq Keys /\ \A x \in DOMAIN v : v[x] \in Nodes
      BY <2>2, MapHolds
    <3> QED BY <3>1, <3>2, TreeType
  <2>4. b \in Lm!Range(map.useful) /\ b \notin Lm!Range(map.retired)
    <3>1. b \in Lm!Range(map.useful)
      BY <1>3, <2>1 DEF Lm!Range
    <3> QED BY <3>1, MapHolds
  <2>5. taken = [map EXCEPT !.c_block = b, !.useful = v]
    <3>1. Lm!Found(map, k) = [map EXCEPT !.c_block = b]
      BY <2>1 DEF Lm!Found
    <3> QED BY <3>1, MapHolds DEF Maps
  <2> DEFINE m == Lm!PutNode(taken, b)
  <2>6. map' = m
    BY <2>1 DEF Lm!Erase
  <2> HIDE DEF b, v, taken
  <2>7. /\ taken.useful = v /\ taken.retired = map.retired /\ taken.c_block = b
        /\ taken.rnode_count = map.rnode_count /\ taken \in Maps
    BY <2>1, <2>3, <2>5, MapHolds DEF Maps
  <2>8. /\ <<b>> \o map.retired \in Seq(Nodes)
        /\ Len(<<b>> \o map.retired) = Len(map.retired) + 1
        /\ Lm!Range(<<b>> \o map.retired) = {b} \cup Lm!Range(map.retired)
        /\ Lm!IsInjective(<<b>> \o map.retired)
    <3>1. map.retired \in Seq(Nodes) /\ Lm!IsInjective(map.retired) /\ Len(map.retired) \in Nat
      BY MapHolds
    <3>2. <<b>> \in Seq(Nodes) /\ Len(<<b>>) = 1 /\ Lm!Range(<<b>>) = {b} /\ Lm!IsInjective(<<b>>)
      BY <2>1, OneNode
    <3>3. Lm!Range(<<b>>) \cap Lm!Range(map.retired) = {}
      BY <2>4, <3>2
    <3>4. /\ <<b>> \o map.retired \in Seq(Nodes)
          /\ Len(<<b>> \o map.retired) = Len(<<b>>) + Len(map.retired)
          /\ Lm!Range(<<b>> \o map.retired) = Lm!Range(<<b>>) \cup Lm!Range(map.retired)
          /\ Lm!IsInjective(<<b>> \o map.retired)
      BY <3>1, <3>2, <3>3, ListsJoined
    <3> QED BY <3>1, <3>2, <3>4
  <2>9. /\ m.useful = v /\ m.retired = <<b>> \o map.retired /\ m.c_block = None
        /\ m.rnode_count = Len(<<b>> \o map.retired) /\ m \in Maps
    <3>1. m = [taken EXCEPT !.retired = <<b>> \o map.retired, !.rnode_count = map.rnode_count + 1,
                            !.c_block = None]
      BY <2>7 DEF Lm!PutNode
    <3>2. map.rnode_count + 1 = Len(<<b>> \o map.retired) /\ map.rnode_count + 1 \in Nat
      BY <2>8, MapHolds
    <3> HIDE DEF m
    <3> QED BY <2>7, <2>8, <3>1, <3>2 DEF Maps
  <2> HIDE DEF m
  <2>10. LmTypes' /\ HandsEmpty'
    BY <1>1, <2>6, <2>9 DEF MapInv, LmTypes, HandsEmpty
  <2>11. KeysTrue'
    <3>1. \A x \in DOMAIN v : key[v[x]] = x
      BY <2>2 DEF MapInv, KeysTrue
    <3>2. lm_store' = v
      BY <1>1 DEF v
    <3> QED BY <1>1, <2>6, <2>9, <3>1, <3>2 DEF KeysTrue
  <2>12. /\ Lm!Range(m.useful) \cup Lm!Range(m.retired)
               = Lm!Range(map.useful) \cup Lm!Range(map.retired)
         /\ Lm!Range(m.useful) \cap Lm!Range(m.retired) = {}
    BY <2>2, <2>4, <2>8, <2>9, MapHolds
  <2>13. Lm!IsInjective(m.useful) /\ Lm!IsInjective(m.retired) /\ m.rnode_count = Len(m.retired)
    BY <2>2, <2>8, <2>9
  <2>14. Lm!NodesInPlace'
    BY <1>1, <2>6, <2>12, <2>13, NodesMoved
  <2> QED BY <2>10, <2>11, <2>14 DEF MapInv
<1> QED BY <1>2, <1>3

\* The finite sets of the instance are those of the library.
LEMMA FiniteSame == \A S : Lm!IsFiniteSet(S) <=> IsFiniteSet(S)
BY DEF Lm!IsFiniteSet, IsFiniteSet

LEMMA CardinalitySame == \A S : Lm!Cardinality(S) = Cardinality(S)
BY DEF Lm!Cardinality, Cardinality

\* What a caller of long_map_prealloc() keeps, changed.
LEMMA PreAllocSet ==
  ASSUME NEW p \in Pres, NEW c \in Int
  PROVE  LET q == [p EXCEPT !.at = "alloc", !.r_cnt = c]
         IN  q \in Pres /\ q.h = p.h /\ q.at = "alloc"
BY DEF Pres

LEMMA PreCountSet ==
  ASSUME NEW p \in Pres, NEW c \in Nat
  PROVE  LET q == [p EXCEPT !.at = "test", !.count = c]
         IN  q \in Pres /\ q.h = p.h /\ q.at = "test"
BY DEF Pres

LEMMA PreListGone ==
  ASSUME NEW p \in Pres
  PROVE  LET q == [p EXCEPT !.at = "test", !.h = <<>>]
         IN  q \in Pres /\ q.h = <<>> /\ q.at = "test"
BY NoNode DEF Pres

\* long_map_clear() retires every node of the tree.
LEMMA ClearKeeps ==
  ASSUME Lm!MapAssumption, MapInv, Lm!Clear
  PROVE  MapInv'
<1> DEFINE D == DOMAIN map.useful
           N == Cardinality(D)
<1>1. UNCHANGED <<owned, pre>> /\ key' = key /\ lm_store' = Lm!Nothing
  BY DEF Lm!Clear, Lm!Op
<1>2. D \subseteq Keys /\ D \subseteq Int /\ N \in Nat
  <2>1. D \subseteq Keys
    BY MapHolds
  <2>2. IsFiniteSet(D)
    <3>1. IsFiniteSet(Keys)
      BY FiniteSame DEF Lm!MapAssumption
    <3> QED BY <2>1, <3>1, FS_Subset
  <2>3. Keys \subseteq Int
    BY DEF Lm!MapAssumption
  <2> HIDE DEF D
  <2> QED BY <2>1, <2>2, <2>3, FS_CardinalityType
<1>3. PICK keys \in [1 .. N -> D] :
        /\ Lm!Range(keys) = D /\ \A i, j \in DOMAIN keys : i < j => keys[i] > keys[j]
        /\ map' = [useful |-> Lm!Nothing, c_block |-> None,
                   retired |-> [i \in DOMAIN keys |-> map.useful[keys[i]]] \o map.retired,
                   rnode_count |-> map.rnode_count + Len(keys)]
  BY CardinalitySame DEF Lm!Clear
<1> DEFINE L == [i \in DOMAIN keys |-> map.useful[keys[i]]]
<1> HIDE DEF N
<1>4. DOMAIN keys = 1 .. N /\ Len(keys) = N /\ \A i \in 1 .. N : keys[i] \in D
  BY <1>2, LenProperties, <1>3
<1>5. \A i, j \in 1 .. N : keys[i] = keys[j] => i = j
  <2> SUFFICES ASSUME NEW i \in 1 .. N, NEW j \in 1 .. N, keys[i] = keys[j], i # j
               PROVE  FALSE
    OBVIOUS
  <2>1. keys[i] \in Int /\ keys[j] \in Int
    BY <1>2, <1>4
  <2>2. i < j \/ j < i
    BY <1>2
  <2>3. keys[i] > keys[j] \/ keys[j] > keys[i]
    BY <1>3, <1>4, <2>2
  <2> QED BY <2>1, <2>3
<1>6. L \in [1 .. N -> Nodes] /\ \A i \in 1 .. N : L[i] = map.useful[keys[i]]
  <2>1. \A k \in D : map.useful[k] \in Nodes
    BY MapHolds
  <2> QED BY <1>4, <2>1
<1>7. map.retired \in Seq(Nodes) /\ map'.useful = Lm!Nothing /\ map'.c_block = None
      /\ map'.retired = L \o map.retired /\ map'.rnode_count = map.rnode_count + N
      /\ map' = [useful |-> Lm!Nothing, c_block |-> None, retired |-> L \o map.retired,
                 rnode_count |-> map.rnode_count + N]
  BY <1>3, <1>4, MapHolds
<1> HIDE DEF L
<1>8. L \in Seq(Nodes) /\ Len(L) = N /\ DOMAIN L = 1 .. N
  BY <1>2, <1>6, LenProperties
<1>9. Lm!Range(L) = Lm!Range(map.useful)
  <2>1. \A i \in 1 .. N : L[i] \in Lm!Range(map.useful)
    BY <1>4, <1>6 DEF Lm!Range
  <2>2. \A k \in D : \E i \in 1 .. N : keys[i] = k
    BY <1>3, <1>4 DEF Lm!Range
  <2>3. \A k \in D : \E i \in 1 .. N : L[i] = map.useful[k]
    BY <1>6, <2>2
  <2> QED BY <1>8, <2>1, <2>3 DEF Lm!Range
<1>10. Lm!IsInjective(L)
  <2> SUFFICES ASSUME NEW i \in 1 .. N, NEW j \in 1 .. N, L[i] = L[j]
               PROVE  i = j
    BY <1>8 DEF Lm!IsInjective
  <2>1. map.useful[keys[i]] = map.useful[keys[j]] /\ keys[i] \in D /\ keys[j] \in D
    BY <1>4, <1>6
  <2>2. Lm!IsInjective(map.useful)
    BY MapHolds
  <2>3. keys[i] = keys[j]
    BY <2>1, <2>2 DEF Lm!IsInjective
  <2> QED BY <1>5, <2>3
<1>11. /\ Lm!Range(map.useful) \cap Lm!Range(map.retired) = {}
       /\ Lm!IsInjective(map.retired) /\ map.rnode_count = Len(map.retired)
       /\ Len(map.retired) \in Nat
  BY MapHolds
<1>12. /\ map'.retired \in Seq(Nodes) /\ Len(map'.retired) = N + Len(map.retired)
       /\ Lm!Range(map'.retired) = Lm!Range(map.useful) \cup Lm!Range(map.retired)
       /\ Lm!IsInjective(map'.retired)
  <2>1. /\ L \o map.retired \in Seq(Nodes) /\ Len(L \o map.retired) = Len(L) + Len(map.retired)
        /\ Lm!Range(L \o map.retired) = Lm!Range(L) \cup Lm!Range(map.retired)
        /\ Lm!IsInjective(L \o map.retired)
    BY <1>7, <1>8, <1>9, <1>10, <1>11, ListsJoined
  <2> QED BY <1>7, <1>8, <1>9, <2>1
<1>13. map' \in Maps
  <2>1. Lm!Nothing \in Trees
    BY EmptyTree DEF Trees
  <2>2. map.rnode_count + N \in Nat
    BY <1>2, <1>11
  <2> QED BY <1>7, <1>12, <2>1, <2>2 DEF Maps
<1>14. LmTypes' /\ HandsEmpty'
  BY <1>1, <1>13 DEF MapInv, LmTypes, HandsEmpty
<1>15. KeysTrue'
  BY <1>1, <1>7, EmptyTree DEF KeysTrue
<1>16. Lm!NodesInPlace'
  <2>1. map'.rnode_count = Len(map'.retired)
    BY <1>2, <1>7, <1>11, <1>12
  <2>2. Lm!Range(map'.useful) \cup Lm!Range(map'.retired)
          = Lm!Range(map.useful) \cup Lm!Range(map.retired)
        /\ Lm!Range(map'.useful) \cap Lm!Range(map'.retired) = {}
        /\ Lm!IsInjective(map'.useful)
    BY <1>7, <1>12, EmptyTree
  <2> QED BY <1>1, <1>12, <2>1, <2>2, NodesMoved
<1> QED BY <1>14, <1>15, <1>16 DEF MapInv

\* What the callers of long_map_prealloc() have, of which one changes its own.
LEMMA OnePre ==
  ASSUME MapInv, NEW t \in Threads, NEW p \in Pres, p.at # "alloc" => p.h = <<>>,
         pre' = [pre EXCEPT ![t] = p]
  PROVE  /\ pre' \in [Threads -> Pres] /\ HandsEmpty' /\ pre'[t] = p
         /\ \A u \in Threads \ {t} : pre'[u] = pre[u]
BY MapHolds DEF MapInv, HandsEmpty

\* The nodes are in place where only the list of one caller changes, and not what is in it.
LEMMA HandsKept ==
  ASSUME MapInv, NEW t \in Threads, NEW p \in Pres, p.at # "alloc" => p.h = <<>>,
         pre' = [pre EXCEPT ![t] = p], p.h = pre[t].h, UNCHANGED <<map, key, owned, lm_store>>
  PROVE  MapInv'
<1>1. /\ pre' \in [Threads -> Pres] /\ HandsEmpty' /\ pre'[t] = p
      /\ \A u \in Threads \ {t} : pre'[u] = pre[u]
  BY OnePre
<1>2. \A u \in Threads : pre'[u].h = pre[u].h
  BY <1>1
<1>3. UNION {Lm!Range(pre'[u].h) : u \in Threads} = UNION {Lm!Range(pre[u].h) : u \in Threads}
  BY <1>2
<1>4. Lm!NodesInPlace'
  <2>1. Lm!NodesInPlace
    BY DEF MapInv
  <2> QED BY <1>2, <1>3, <2>1 DEF Lm!NodesInPlace
<1>5. LmTypes' /\ KeysTrue'
  BY <1>1 DEF MapInv, LmTypes, KeysTrue
<1> QED BY <1>1, <1>4, <1>5 DEF MapInv

\* long_map_prealloc() begins, and tests what is missing.
LEMMA PreStartKeeps ==
  ASSUME Lm!MapAssumption, MapInv, NEW t \in Threads, NEW count \in 1 .. MaxCount,
         Lm!PreStart(t, count)
  PROVE  MapInv'
<1> DEFINE p == [Lm!NewPre EXCEPT !.at = "test", !.count = count]
<1>1. pre' = [pre EXCEPT ![t] = p] /\ UNCHANGED <<map, key, owned, lm_store>> /\ pre[t].at = "idle"
  BY DEF Lm!PreStart
<1>2. Lm!NewPre \in Pres /\ Lm!NewPre.h = <<>> /\ count \in Nat
  BY DEF Pres, Lm!NewPre, Lm!MapAssumption
<1>3. p \in Pres /\ p.h = Lm!NewPre.h /\ p.at = "test"
  BY <1>2, PreCountSet
<1>4. pre[t].h = <<>>
  BY <1>1 DEF MapInv, HandsEmpty
<1> HIDE DEF p
<1> QED BY <1>1, <1>2, <1>3, <1>4, HandsKept

LEMMA PreTestKeeps ==
  ASSUME MapInv, NEW t \in Threads, Lm!PreTest(t)
  PROVE  MapInv'
<1> DEFINE more == [pre[t] EXCEPT !.at = "alloc", !.r_cnt = pre[t].count - map.rnode_count]
           p    == IF map.rnode_count < pre[t].count THEN more ELSE Lm!NewPre
<1>1. pre' = [pre EXCEPT ![t] = p] /\ UNCHANGED <<map, key, owned, lm_store>> /\ pre[t].at = "test"
  BY DEF Lm!PreTest
<1>2. pre[t] \in Pres /\ pre[t].h = <<>>
  BY <1>1, MapHolds DEF MapInv, HandsEmpty
<1>3. more \in Pres /\ more.h = <<>> /\ more.at = "alloc"
  <2>1. pre[t].count - map.rnode_count \in Int
    BY <1>2, MapHolds DEF Pres, Maps
  <2>2. more \in Pres /\ more.h = pre[t].h /\ more.at = "alloc"
    BY <1>2, <2>1, PreAllocSet
  <2> QED BY <1>2, <2>2
<1>4. Lm!NewPre \in Pres /\ Lm!NewPre.h = <<>> /\ Lm!NewPre.at = "idle"
  BY DEF Pres, Lm!NewPre
<1>5. p \in Pres /\ p.h = <<>>
  BY <1>3, <1>4
<1>6. p.at # "alloc" => p.h = <<>>
  BY <1>5
<1> HIDE DEF p
<1> QED BY <1>1, <1>2, <1>5, <1>6, HandsKept

\* A node is allocated; or none is to be had, and the caller's are freed.
LEMMA PreAllocKeeps ==
  ASSUME MapInv, NEW t \in Threads, Lm!PreAlloc(t)
  PROVE  MapInv'
<1> DEFINE U    == Lm!Range(map.useful) \cup Lm!Range(map.retired)
           H(u) == Lm!Range(pre[u].h)
<1>1. pre[t].at = "alloc" /\ UNCHANGED <<map, key, lm_store>> /\ pre[t] \in Pres
  BY MapHolds DEF Lm!PreAlloc
<1>2. /\ owned = U \cup UNION {H(u) : u \in Threads}
      /\ \A u \in Threads : /\ H(u) \cap U = {} /\ Lm!IsInjective(pre[u].h)
                            /\ \A v \in Threads \ {u} : H(u) \cap H(v) = {}
  BY DEF MapInv, Lm!NodesInPlace
<1>3. KeysTrue' /\ map' \in Maps /\ key' \in [Nodes -> Keys \cup {None}]
  BY <1>1 DEF MapInv, KeysTrue, LmTypes
<1>4. ASSUME NEW n \in Nodes \ owned, owned' = owned \cup {n},
             pre' = [pre EXCEPT ![t].h = <<n>> \o @, ![t].r_cnt = @ - 1]
      PROVE  MapInv'
  <2> DEFINE l == <<n>> \o pre[t].h
             c == pre[t].r_cnt - 1
             p == [pre[t] EXCEPT !.h = l, !.r_cnt = c]
  <2>1. pre' = [pre EXCEPT ![t] = p]
    BY <1>4, MapHolds
  <2>2. /\ <<n>> \o pre[t].h \in Seq(Nodes) /\ Lm!IsInjective(<<n>> \o pre[t].h)
        /\ Lm!Range(<<n>> \o pre[t].h) = {n} \cup H(t)
    <3>1. pre[t].h \in Seq(Nodes) /\ Lm!IsInjective(pre[t].h)
      BY <1>1, <1>2 DEF Pres
    <3>2. <<n>> \in Seq(Nodes) /\ Len(<<n>>) = 1 /\ Lm!Range(<<n>>) = {n} /\ Lm!IsInjective(<<n>>)
      BY OneNode
    <3>3. Lm!Range(<<n>>) \cap H(t) = {}
      BY <1>2, <1>4, <3>2
    <3>4. /\ <<n>> \o pre[t].h \in Seq(Nodes)
          /\ Lm!Range(<<n>> \o pre[t].h) = Lm!Range(<<n>>) \cup H(t)
          /\ Lm!IsInjective(<<n>> \o pre[t].h)
      BY <3>1, <3>2, <3>3, ListsJoined
    <3> QED BY <3>2, <3>4
  <2>3. p \in Pres /\ p.at = "alloc" /\ p.h = <<n>> \o pre[t].h
    <3>1. c \in Int /\ l \in Seq(Nodes)
      BY <1>1, <2>2 DEF Pres
    <3>2. p \in Pres /\ p.at = pre[t].at /\ p.h = l
      <4> HIDE DEF l, c
      <4> QED BY <1>1, <3>1 DEF Pres
    <3> QED BY <1>1, <3>2
  <2> HIDE DEF p
  <2>4. /\ pre' \in [Threads -> Pres] /\ HandsEmpty' /\ pre'[t] = p
        /\ \A u \in Threads \ {t} : pre'[u] = pre[u]
    BY <2>1, <2>3, OnePre
  <2>5. Lm!Range(pre'[t].h) = {n} \cup H(t) /\ Lm!IsInjective(pre'[t].h)
    BY <2>2, <2>3, <2>4
  <2>6. \A u \in Threads \ {t} : Lm!Range(pre'[u].h) = H(u) /\ Lm!IsInjective(pre'[u].h)
    BY <1>2, <2>4
  <2>7. n \notin U /\ \A u \in Threads : n \notin H(u)
    BY <1>2, <1>4
  <2>8. owned' = U \cup UNION {Lm!Range(pre'[u].h) : u \in Threads}
    <3>1. owned' \subseteq U \cup UNION {Lm!Range(pre'[u].h) : u \in Threads}
      <4>1. \A u \in Threads : H(u) \subseteq Lm!Range(pre'[u].h)
        BY <2>5, <2>6
      <4>2. n \in Lm!Range(pre'[t].h)
        BY <2>5
      <4>3. owned = U \cup UNION {H(u) : u \in Threads} /\ owned' = owned \cup {n}
        BY <1>2, <1>4
      <4> HIDE DEF H, U
      <4> QED BY <4>1, <4>2, <4>3
    <3>2. U \cup UNION {Lm!Range(pre'[u].h) : u \in Threads} \subseteq owned'
      <4>1. \A u \in Threads : Lm!Range(pre'[u].h) \subseteq H(u) \cup {n}
        BY <2>5, <2>6
      <4>2. owned = U \cup UNION {H(u) : u \in Threads} /\ owned' = owned \cup {n}
        BY <1>2, <1>4
      <4> HIDE DEF H, U
      <4> QED BY <4>1, <4>2
    <3> QED BY <3>1, <3>2
  <2>9. \A u \in Threads :
          /\ Lm!Range(pre'[u].h) \cap U = {} /\ Lm!IsInjective(pre'[u].h)
          /\ \A v \in Threads \ {u} : Lm!Range(pre'[u].h) \cap Lm!Range(pre'[v].h) = {}
    BY <1>2, <2>5, <2>6, <2>7
  <2>10. Lm!NodesInPlace'
    <3>1. Lm!NodesInPlace
      BY DEF MapInv
    <3> QED BY <1>1, <2>8, <2>9, <3>1 DEF Lm!NodesInPlace
  <2> QED BY <1>3, <2>4, <2>10 DEF MapInv, LmTypes
<1>5. ASSUME owned' = owned \ H(t), pre' = [pre EXCEPT ![t] = Lm!NewPre]
      PROVE  MapInv'
  <2>1. Lm!NewPre \in Pres /\ Lm!NewPre.h = <<>>
    BY DEF Pres, Lm!NewPre
  <2>2. /\ pre' \in [Threads -> Pres] /\ HandsEmpty' /\ pre'[t] = Lm!NewPre
        /\ \A u \in Threads \ {t} : pre'[u] = pre[u]
    BY <1>5, <2>1, OnePre
  <2>3. Lm!Range(pre'[t].h) = {} /\ Lm!IsInjective(pre'[t].h)
    BY <2>1, <2>2, NoNode
  <2>4. \A u \in Threads \ {t} : Lm!Range(pre'[u].h) = H(u) /\ Lm!IsInjective(pre'[u].h)
    BY <1>2, <2>2
  <2>5. owned' = U \cup UNION {Lm!Range(pre'[u].h) : u \in Threads}
    <3>1. owned' \subseteq U \cup UNION {Lm!Range(pre'[u].h) : u \in Threads}
      BY <1>2, <1>5, <2>3, <2>4
    <3>2. U \cup UNION {Lm!Range(pre'[u].h) : u \in Threads} \subseteq owned'
      BY <1>2, <1>5, <2>3, <2>4
    <3> QED BY <3>1, <3>2
  <2>6. \A u \in Threads :
          /\ Lm!Range(pre'[u].h) \cap U = {} /\ Lm!IsInjective(pre'[u].h)
          /\ \A v \in Threads \ {u} : Lm!Range(pre'[u].h) \cap Lm!Range(pre'[v].h) = {}
    BY <1>2, <2>3, <2>4
  <2>7. Lm!NodesInPlace'
    <3>1. Lm!NodesInPlace
      BY DEF MapInv
    <3> QED BY <1>1, <2>5, <2>6, <3>1 DEF Lm!NodesInPlace
  <2> QED BY <1>3, <2>2, <2>7 DEF MapInv, LmTypes
<1> QED BY <1>4, <1>5 DEF Lm!PreAlloc

\* The caller's nodes are retired, and it has none any more.
LEMMA PreAddKeeps ==
  ASSUME MapInv, NEW t \in Threads, Lm!PreAdd(t)
  PROVE  MapInv'
<1> DEFINE h    == pre[t].h
           r    == Lm!Reverse(h)
           p    == [pre[t] EXCEPT !.at = "test", !.h = <<>>]
           H(u) == Lm!Range(pre[u].h)
<1>1. /\ pre' = [pre EXCEPT ![t] = p] /\ UNCHANGED <<key, owned, lm_store>>
      /\ map' = [map EXCEPT !.retired = r \o @, !.rnode_count = @ + Len(h)]
  BY DEF Lm!PreAdd
<1>2. pre[t] \in Pres /\ h \in Seq(Nodes) /\ Len(h) \in Nat
  BY MapHolds DEF Pres
<1>3. /\ r \in Seq(Nodes) /\ Len(r) = Len(h) /\ Lm!Range(r) = H(t)
      /\ Lm!IsInjective(h) => Lm!IsInjective(r)
  BY <1>2, ListReversed
<1>4. p \in Pres /\ p.h = <<>> /\ p.at = "test"
  BY <1>2, PreListGone
<1> HIDE DEF p, r
<1>5. /\ pre' \in [Threads -> Pres] /\ HandsEmpty' /\ pre'[t] = p
      /\ \A u \in Threads \ {t} : pre'[u] = pre[u]
  BY <1>1, <1>4, OnePre
<1>6. /\ owned = Lm!Range(map.useful) \cup Lm!Range(map.retired) \cup UNION {H(u) : u \in Threads}
      /\ \A u \in Threads : /\ H(u) \cap (Lm!Range(map.useful) \cup Lm!Range(map.retired)) = {}
                            /\ \A v \in Threads \ {u} : H(u) \cap H(v) = {}
                            /\ Lm!IsInjective(pre[u].h)
  BY DEF MapInv, Lm!NodesInPlace
<1>7. /\ r \o map.retired \in Seq(Nodes) /\ Len(r \o map.retired) = Len(map.retired) + Len(h)
      /\ Lm!Range(r \o map.retired) = H(t) \cup Lm!Range(map.retired)
      /\ Lm!IsInjective(r \o map.retired)
  <2>1. map.retired \in Seq(Nodes) /\ Lm!IsInjective(map.retired) /\ Len(map.retired) \in Nat
    BY MapHolds
  <2>2. Lm!IsInjective(r) /\ Lm!Range(r) \cap Lm!Range(map.retired) = {}
    BY <1>3, <1>6
  <2>3. /\ r \o map.retired \in Seq(Nodes) /\ Len(r \o map.retired) = Len(r) + Len(map.retired)
        /\ Lm!Range(r \o map.retired) = Lm!Range(r) \cup Lm!Range(map.retired)
        /\ Lm!IsInjective(r \o map.retired)
    BY <1>3, <2>1, <2>2, ListsJoined
  <2> HIDE DEF h
  <2>4. Len(r) + Len(map.retired) = Len(map.retired) + Len(h)
    BY <1>2, <1>3, <2>1
  <2> QED BY <1>3, <2>3, <2>4
<1>8. /\ map'.useful = map.useful /\ map'.retired = r \o map.retired
      /\ map'.c_block = map.c_block /\ map'.rnode_count = Len(map'.retired) /\ map' \in Maps
  <2>1. map' = [map EXCEPT !.retired = r \o map.retired, !.rnode_count = map.rnode_count + Len(h)]
    BY <1>1, MapHolds
  <2>2. map.rnode_count + Len(h) = Len(r \o map.retired) /\ map.rnode_count + Len(h) \in Nat
    <3>1. map.rnode_count = Len(map.retired) /\ Len(map.retired) \in Nat
      BY MapHolds
    <3> HIDE DEF h
    <3> QED BY <1>2, <1>7, <3>1
  <2> QED BY <1>7, <2>1, <2>2, MapHolds DEF Maps
<1>9. LmTypes'
  BY <1>1, <1>5, <1>8 DEF MapInv, LmTypes
<1>10. KeysTrue'
  BY <1>1, <1>8 DEF MapInv, KeysTrue
<1>11. Lm!NodesInPlace'
  <2>1. Lm!Range(pre'[t].h) = {} /\ Lm!IsInjective(pre'[t].h)
    BY <1>4, <1>5, NoNode
  <2>2. \A u \in Threads \ {t} : Lm!Range(pre'[u].h) = H(u) /\ Lm!IsInjective(pre'[u].h)
    BY <1>5, <1>6
  <2>3. Lm!Range(map'.useful) = Lm!Range(map.useful)
        /\ Lm!Range(map'.retired) = H(t) \cup Lm!Range(map.retired)
    BY <1>7, <1>8
  <2>4. owned' = Lm!Range(map'.useful) \cup Lm!Range(map'.retired)
                   \cup UNION {Lm!Range(pre'[u].h) : u \in Threads}
    <3>1. owned' \subseteq Lm!Range(map'.useful) \cup Lm!Range(map'.retired)
                             \cup UNION {Lm!Range(pre'[u].h) : u \in Threads}
      BY <1>1, <1>6, <2>2, <2>3
    <3>2. Lm!Range(map'.useful) \cup Lm!Range(map'.retired)
            \cup UNION {Lm!Range(pre'[u].h) : u \in Threads} \subseteq owned'
      BY <1>1, <1>6, <2>1, <2>2, <2>3
    <3> QED BY <3>1, <3>2
  <2>5. Lm!Range(map'.useful) \cap Lm!Range(map'.retired) = {}
    <3>1. Lm!Range(map.useful) \cap Lm!Range(map.retired) = {}
      BY MapHolds
    <3> QED BY <1>6, <2>3, <3>1
  <2>6. \A u \in Threads :
          /\ Lm!Range(pre'[u].h) \cap (Lm!Range(map'.useful) \cup Lm!Range(map'.retired)) = {}
          /\ \A v \in Threads \ {u} : Lm!Range(pre'[u].h) \cap Lm!Range(pre'[v].h) = {}
          /\ Lm!IsInjective(pre'[u].h)
    BY <1>6, <2>1, <2>2, <2>3
  <2>7. /\ Lm!IsInjective(map'.useful) /\ Lm!IsInjective(map'.retired)
        /\ map'.rnode_count = Len(map'.retired)
    BY <1>7, <1>8, MapHolds
  <2> QED BY <2>4, <2>5, <2>6, <2>7 DEF Lm!NodesInPlace
<1> QED BY <1>5, <1>9, <1>10, <1>11 DEF MapInv

\* long_map_destroy() frees every node: no caller of long_map_prealloc() has one then.
LEMMA DestroyKeeps ==
  ASSUME MapInv, Lm!Destroy
  PROVE  MapInv'
<1> DEFINE H(u) == Lm!Range(pre[u].h)
<1>1. /\ \A t \in Threads : pre[t].at = "idle"
      /\ map' = [useful |-> Lm!Nothing, retired |-> <<>>, c_block |-> None, rnode_count |-> 0]
      /\ owned' = owned \ (Lm!Range(map.useful) \cup Lm!Range(map.retired))
      /\ lm_store' = Lm!Nothing /\ UNCHANGED <<key, pre>>
  BY DEF Lm!Destroy
<1>2. \A t \in Threads : pre[t].h = <<>> /\ H(t) = {}
  BY <1>1, NoNode DEF MapInv, HandsEmpty
<1>3. /\ map'.useful = Lm!Nothing /\ map'.retired = <<>> /\ map'.c_block = None
      /\ map'.rnode_count = 0
  BY <1>1
<1>4. map' \in Maps
  BY <1>1, EmptyTree, NoNode DEF Maps, Trees
<1>5. LmTypes' /\ HandsEmpty'
  BY <1>1, <1>4 DEF MapInv, LmTypes, HandsEmpty
<1>6. KeysTrue'
  BY <1>1, <1>3, EmptyTree DEF KeysTrue
<1>7. Lm!NodesInPlace'
  <2>1. owned = Lm!Range(map.useful) \cup Lm!Range(map.retired) \cup UNION {H(u) : u \in Threads}
    BY DEF MapInv, Lm!NodesInPlace
  <2>2. UNION {H(u) : u \in Threads} = {}
    BY <1>2
  <2>3. owned' = {}
    BY <1>1, <2>1, <2>2
  <2>4. /\ Lm!Range(map'.useful) = {} /\ Lm!Range(map'.retired) = {}
        /\ Lm!IsInjective(map'.useful) /\ Lm!IsInjective(map'.retired) /\ Len(map'.retired) = 0
    BY <1>3, EmptyTree, NoNode
  <2>5. \A t \in Threads : pre'[t].h = <<>> /\ Lm!Range(pre'[t].h) = {}
                           /\ Lm!IsInjective(pre'[t].h)
    BY <1>1, <1>2, NoNode
  <2>6. UNION {Lm!Range(pre'[t].h) : t \in Threads} = {}
    BY <2>5
  <2> QED BY <1>3, <2>3, <2>4, <2>5, <2>6 DEF Lm!NodesInPlace
<1> QED BY <1>5, <1>6, <1>7 DEF MapInv

-----------------------------------------------------------------------------
(* The theorem.                                                            *)

LEMMA MapStarts ==
  ASSUME Lm!Init PROVE MapInv
<1>1. /\ map = [useful |-> Lm!Nothing, retired |-> <<>>, c_block |-> None, rnode_count |-> 0]
      /\ key = [n \in Nodes |-> None] /\ owned = {} /\ lm_store = Lm!Nothing
      /\ pre = [t \in Threads |-> Lm!NewPre]
  BY DEF Lm!Init
<1>2. Lm!NewPre \in Pres /\ Lm!NewPre.h = <<>>
  BY DEF Lm!NewPre, Pres
<1>3. map \in Maps /\ map.useful = Lm!Nothing /\ map.retired = <<>>
      /\ map.c_block = None /\ map.rnode_count = 0
  BY <1>1, EmptyTree, NoNode DEF Maps, Trees
<1>4. LmTypes /\ HandsEmpty
  BY <1>1, <1>2, <1>3 DEF LmTypes, HandsEmpty
<1>5. KeysTrue
  BY <1>1, <1>3, EmptyTree DEF KeysTrue
<1>6. \A t \in Threads : pre[t].h = <<>> /\ Lm!Range(pre[t].h) = {} /\ Lm!IsInjective(pre[t].h)
  BY <1>1, <1>2, NoNode
<1>7. UNION {Lm!Range(pre[t].h) : t \in Threads} = {}
  BY <1>6
<1>8. Lm!NodesInPlace
  BY <1>1, <1>3, <1>6, <1>7, EmptyTree, NoNode DEF Lm!NodesInPlace
<1> QED BY <1>4, <1>5, <1>8 DEF MapInv

LEMMA MapSteps ==
  ASSUME Lm!MapAssumption, MapInv, [Lm!Next]_Lm!vars
  PROVE  MapInv'
<1>0. None \notin Nodes
  BY DEF Lm!MapAssumption
<1>1. CASE \E k \in Keys : Lm!Get(k) \/ Lm!Insert(k) \/ Lm!Erase(k) \/ \E src \in Keys : Lm!Move(k, src)
  BY <1>0, <1>1, GetKeeps, InsertKeeps, EraseKeeps, MoveKeeps
<1>2. CASE Lm!Clear \/ Lm!Destroy
  BY <1>2, ClearKeeps, DestroyKeeps
<1>3. CASE \E t \in Threads : Lm!PreTest(t) \/ Lm!PreAlloc(t) \/ Lm!PreAdd(t)
                              \/ \E count \in 1 .. MaxCount : Lm!PreStart(t, count)
  BY <1>3, PreTestKeeps, PreAllocKeeps, PreAddKeeps, PreStartKeeps
<1>4. CASE UNCHANGED Lm!vars
  <2>1. UNCHANGED <<map, key, lm_store>> /\ UNCHANGED <<owned, pre>>
    BY <1>4 DEF Lm!vars
  <2> QED BY <2>1, NothingMoved
<1> QED BY <1>1, <1>2, <1>3, <1>4 DEF Lm!Next

\* long_map.c: a key leads to the node its caller was given until it is erased, moved or
\* cleared, by the node used last as by the tree; every node allocated is in one place, and
\* the retired ones are counted, whatever the callers of long_map_prealloc() do in between.
THEOREM LongMapKept ==
  ASSUME Lm!MapAssumption
  PROVE  Lm!Init /\ [][Lm!Next]_Lm!vars => []MapKept
<1>1. Lm!Init => MapInv
  BY MapStarts
<1>2. MapInv /\ [Lm!Next]_Lm!vars => MapInv'
  BY MapSteps
<1>3. MapInv => MapKept
  BY InvFinds DEF MapKept
<1> QED BY <1>1, <1>2, <1>3, PTL
=============================================================================
