--------------------------- MODULE DeviceRunProofs ---------------------------
(***************************************************************************)
(* Proofs about DeviceRun, for every batch, window and link.  IndInv holds *)
(* initially and is kept by every action (one lemma per action); the       *)
(* safety properties follow from it.                                       *)
(***************************************************************************)
EXTENDS DeviceRun, SequenceTheorems, TLAPS

(* What a batch gives, in the form the provers use. *)
LEMMA BatchFacts ==
  ASSUME BatchOK(batch)
  PROVE  /\ batch.n \in Nat
         /\ batch.cmd[0] = 0 /\ batch.rep[0] = 0
         /\ \A i \in 0 .. batch.n : batch.cmd[i] \in Nat /\ batch.rep[i] \in Nat
         /\ \A i, j \in 0 .. batch.n : i < j => batch.cmd[i] < batch.cmd[j]
         /\ \A i, j \in 0 .. batch.n : i =< j => batch.rep[i] =< batch.rep[j]
         /\ \A i \in 1 .. batch.n : batch.cmd[i] - batch.cmd[i - 1] + 2 =< Window
<1>1. /\ batch.n \in Nat
      /\ batch.cmd \in [0 .. batch.n -> Nat]
      /\ batch.rep \in [0 .. batch.n -> Nat]
  BY DEF BatchOK
<1>2. \A i \in 0 .. batch.n : batch.cmd[i] \in Nat /\ batch.rep[i] \in Nat
  BY <1>1
<1>3. \A i, j \in 0 .. batch.n : i =< j => batch.rep[i] =< batch.rep[j]
  <2> TAKE i, j \in 0 .. batch.n
  <2>1. i = j => batch.rep[i] =< batch.rep[j]
    BY <1>1, <1>2
  <2>2. i < j => batch.rep[i] =< batch.rep[j]
    BY <1>1 DEF BatchOK
  <2> QED BY <2>1, <2>2, <1>1
<1> QED
  BY <1>1, <1>2, <1>3 DEF BatchOK

LEMMA BatchIsOK == TypeOK => BatchOK(batch)
BY BatchesAssumption DEF TypeOK

(* A segment fits the window, and with the operation after it would not. *)
LEMMA SegmentFacts ==
  ASSUME BatchOK(batch), Window \in Nat,
         NEW i \in 0 .. batch.n, NEW e \in 1 .. batch.n, IsSegEnd(i, e)
  PROVE  /\ i < e
         /\ SegBytes(i, e) \in Nat
         /\ SegBytes(i, e) > 2
         /\ SegBytes(i, e) =< Window
         /\ SegBytes(i, e) >= batch.cmd[i + 1] - batch.cmd[i] + 2
         /\ e < batch.n => batch.cmd[e + 1] - batch.cmd[i] > Limit
<1>1. i < e
  BY BatchFacts DEF IsSegEnd
<1>2. SegBytes(i, e) \in Nat /\ SegBytes(i, e) > 2
  BY <1>1, BatchFacts DEF SegBytes
<1>3. SegBytes(i, e) =< Window
  <2>1. CASE e = i + 1
    BY <2>1, BatchFacts DEF SegBytes
  <2>2. CASE e # i + 1
    BY <2>2, BatchFacts DEF SegBytes, IsSegEnd, Limit
  <2> QED BY <2>1, <2>2
<1>4. SegBytes(i, e) >= batch.cmd[i + 1] - batch.cmd[i] + 2
  <2>1. CASE e = i + 1
    BY <2>1, BatchFacts DEF SegBytes
  <2>2. CASE i + 1 < e
    BY <2>2, BatchFacts DEF SegBytes
  <2> QED BY <1>1, <2>1, <2>2, BatchFacts
<1> QED
  BY <1>1, <1>2, <1>3, <1>4 DEF IsSegEnd

LEMMA InitInd == Init => IndInv
<1> SUFFICES ASSUME Init PROVE IndInv
  OBVIOUS
<1>1. BatchOK(batch)
  BY BatchesAssumption DEF Init
<1>2. TypeOK
  <2>1. cuts \in Seq(1 .. batch.n) /\ mark \in Seq(Nat)
    BY EmptySeq DEF Init
  <2>2. Len(cuts) = 0 /\ Len(mark) = 0
    BY DEF Init
  <2>3. pos \in 0 .. batch.n /\ op \in 0 .. batch.n
    BY <1>1, BatchFacts DEF Init
  <2>4. got \in [1 .. batch.n -> Nat \cup {NotYet}] /\ made \in [1 .. batch.n -> Nat \cup {NotYet}]
    BY DEF Init
  <2>5. answered \in 0 .. Len(cuts) /\ mk \in 0 .. Len(cuts)
    BY <2>2 DEF Init
  <2> QED
    BY <2>1, <2>3, <2>4, <2>5 DEF TypeOK, Init
<1>3. /\ Len(cuts) = 0 /\ Len(mark) = 0
      /\ Cut(0) = 0 /\ SegEnd(0) = 0 /\ Written = 0
  BY <1>1, BatchFacts DEF Init, Cut, SegEnd, Written
<1>4. HostInv
  BY <1>1, <1>3, BatchFacts DEF Init, HostInv, InFlight
<1>5. EngineInv
  BY <1>1, <1>3, BatchFacts DEF Init, EngineInv
<1>6. StreamInv
  BY <1>1, <1>3, BatchFacts DEF Init, StreamInv, HasItem, AtMarker, ItemEnd
<1>7. ResultInv
  BY <1>1, <1>3, BatchFacts DEF Init, ResultInv
<1> QED
  BY <1>2, <1>4, <1>5, <1>6, <1>7 DEF IndInv

(* The first operation of the segment in flight, as a number. *)
LEMMA CutType ==
  ASSUME TypeOK
  PROVE  /\ Len(cuts) \in Nat
         /\ \A s \in 0 .. Len(cuts) : Cut(s) \in 0 .. batch.n
         /\ Cut(answered) \in 0 .. batch.n
<1>1. Len(cuts) \in Nat /\ answered \in 0 .. Len(cuts) /\ batch.n \in Nat
  BY BatchIsOK, BatchFacts, LenProperties DEF TypeOK
<1>2. ASSUME NEW s \in 0 .. Len(cuts) PROVE Cut(s) \in 0 .. batch.n
  BY <1>1, <1>2, ElementOfSeq DEF Cut, TypeOK
<1> QED
  BY <1>1, <1>2

(* The heart of the window argument: what is out and what comes next never
   fit together, so a segment is written only when nothing is in flight. *)
LEMMA SendAlone ==
  ASSUME IndInv, NEW e \in 1 .. batch.n, MaySend(e)
  PROVE  InFlight = 0
<1> SUFFICES ASSUME InFlight = 1 PROVE FALSE
  BY DEF IndInv, HostInv
<1>1. BatchOK(batch) /\ pos \in 0 .. batch.n /\ answered \in Nat /\ Len(cuts) \in Nat
  BY BatchIsOK DEF IndInv, TypeOK
<1>2. IsSegEnd(pos, e) /\ inflightBytes + SegBytes(pos, e) =< Window
  BY DEF MaySend
<1>3. pos < batch.n
  BY <1>1, <1>2, BatchFacts DEF IsSegEnd
<1>4. SegBytes(pos, e) >= batch.cmd[pos + 1] - batch.cmd[pos] + 2
  BY <1>1, <1>2, SegmentFacts, SizesAssumption
<1>5. inflightBytes = batch.cmd[pos] - batch.cmd[Cut(answered)] + 2
  <2>1. Cut(answered) \in 0 .. batch.n
    BY CutType DEF IndInv
  <2>2. Len(cuts) = answered + 1 /\ pos = Cut(Len(cuts))
    BY <1>1 DEF IndInv, HostInv, InFlight
  <2>3. inflightBytes = Written - SegEnd(answered)
    BY DEF IndInv, HostInv
  <2> QED
    BY <1>1, <2>1, <2>2, <2>3, BatchFacts DEF Written, SegEnd
<1>6. batch.cmd[pos + 1] - batch.cmd[Cut(answered)] > Window - 2
  BY <1>3 DEF IndInv, HostInv, Limit
<1>7. Cut(answered) \in 0 .. batch.n
  BY CutType DEF IndInv
<1>8. SegBytes(pos, e) \in Nat
  BY <1>1, <1>2, SegmentFacts, SizesAssumption
<1>9. batch.cmd[pos] \in Nat /\ batch.cmd[pos + 1] \in Nat /\ batch.cmd[Cut(answered)] \in Nat
  BY <1>1, <1>3, <1>7, BatchFacts
<1> QED
  BY <1>2, <1>4, <1>5, <1>6, <1>8, <1>9, SizesAssumption
LEMMA SendSegmentInd == ASSUME IndInv, SendSegment PROVE IndInv'
<1>1. BatchOK(batch) /\ TypeOK
  BY BatchIsOK DEF IndInv
<1>2. PICK e \in 1 .. batch.n :
        /\ MaySend(e)
        /\ cuts' = Append(cuts, e)
        /\ pos' = e
        /\ inflightBytes' = inflightBytes + SegBytes(pos, e)
  BY DEF SendSegment
<1>3. /\ pc' = "write"
      /\ UNCHANGED <<batch, answered, stopped, bufBase, got, sent, arrived, overflow, taken,
                     op, mk, queued, made, mark, pushed, read>>
      /\ pc = "fill" /\ MoreToSend
  BY DEF SendSegment, linkVars, engVars, upVars
<1>4. /\ Len(cuts) \in Nat /\ Len(cuts') = Len(cuts) + 1
      /\ cuts'[Len(cuts) + 1] = e
      /\ \A s \in 1 .. Len(cuts) : cuts'[s] = cuts[s]
      /\ cuts' \in Seq(1 .. batch.n)
  BY <1>1, <1>2, AppendProperties, LenProperties DEF TypeOK
<1>5. InFlight = 0 /\ Len(cuts) = answered /\ answered \in Nat
  BY <1>1, <1>2, <1>4, SendAlone DEF InFlight, TypeOK
<1>6. /\ pos \in 0 .. batch.n
      /\ pos < e
      /\ SegBytes(pos, e) \in Nat
      /\ SegBytes(pos, e) > 2
      /\ SegBytes(pos, e) =< Window
      /\ e < batch.n => batch.cmd[e + 1] - batch.cmd[pos] > Limit
  BY <1>1, <1>2, SegmentFacts, SizesAssumption DEF MaySend, TypeOK
<1>7. /\ Cut(answered) = pos /\ Cut(answered)' = pos
      /\ Cut(Len(cuts))' = e
  BY <1>2, <1>3, <1>4, <1>5 DEF IndInv, HostInv, Cut
<1>8. /\ op = pos /\ mk = answered
      /\ sent = Written
      /\ inflightBytes = Written - SegEnd(answered)
      /\ SegEnd(answered) = Written
      /\ SegEnd(answered)' = SegEnd(answered)
      /\ Written' = Written + SegBytes(pos, e)
      /\ Written \in Nat
      /\ batch.cmd[pos] \in Nat
  <2>1. mk = answered
    BY <1>1, <1>5 DEF IndInv, EngineInv, TypeOK
  <2>2. op = pos
    BY <1>5, <2>1 DEF IndInv, EngineInv
  <2>3. batch.cmd[pos] \in Nat /\ batch.cmd[e] \in Nat
    BY <1>1, <1>6, BatchFacts
  <2> QED
    BY SMTT(30), <1>3, <1>4, <1>5, <1>7, <2>1, <2>2, <2>3 DEF IndInv, HostInv, Written, SegEnd, SegBytes
<1>9. TypeOK'
  BY <1>1, <1>2, <1>3, <1>4, <1>5, <1>6 DEF TypeOK
<1>10. HostInv'
  BY <1>1, <1>2, <1>3, <1>4, <1>5, <1>6, <1>7, <1>8 DEF IndInv, HostInv, InFlight, SegBytes, Limit
<1>11. EngineInv'
  BY <1>1, <1>2, <1>3, <1>4, <1>5, <1>6, <1>7, <1>8 DEF IndInv, EngineInv
<1>12. StreamInv'
  <2>1. taken = Written /\ arrived = Written
    BY <1>1, <1>5, <1>7, <1>8 DEF IndInv, StreamInv, SegEnd, TypeOK
  <2>2. ItemEnd' = batch.cmd[pos + 1] + 2 * answered /\ ~AtMarker'
    BY <1>3, <1>4, <1>5, <1>6, <1>8 DEF AtMarker, ItemEnd
  <2>3. batch.cmd[pos] < batch.cmd[pos + 1] /\ batch.cmd[pos + 1] \in Nat
    BY <1>1, <1>6, BatchFacts
  <2>4. Written = batch.cmd[pos] + 2 * answered
    BY <1>7, <1>8 DEF SegEnd
  <2>5. taken' =< ItemEnd'
    <3>1. taken' = batch.cmd[pos] + 2 * answered /\ batch.cmd[pos] \in Nat
      BY <1>3, <1>8, <2>1, <2>4
    <3> QED
      BY <1>5, <2>2, <2>3, <3>1
  <2>6. sent' =< Written'
    BY <1>3, <1>6, <1>8
  <2>7. UNCHANGED <<batch.cmd[op] + 2 * mk, taken, arrived, sent, bufBase, read, pushed, queued, overflow>>
    BY <1>3
  <2> QED
    BY <2>5, <2>6, <2>7 DEF IndInv, StreamInv
<1>13. ResultInv'
  BY <1>1, <1>2, <1>3, <1>4, <1>5, <1>6, <1>7, <1>8 DEF IndInv, ResultInv
<1> QED
  BY <1>9, <1>10, <1>11, <1>12, <1>13 DEF IndInv
(* Steps that leave the segments, the engine and the results alone keep
   EngineInv and ResultInv. *)
LEMMA SameSegments ==
  ASSUME IndInv, UNCHANGED <<batch, cuts, answered, pos, bufBase, got, inflightBytes>>
  PROVE  /\ Cut(answered)' = Cut(answered)
         /\ Cut(Len(cuts))' = Cut(Len(cuts))
         /\ SegEnd(answered)' = SegEnd(answered)
         /\ Written' = Written
         /\ InFlight' = InFlight
         /\ SegBytes(Cut(answered), pos)' = SegBytes(Cut(answered), pos)
         /\ UNCHANGED engVars => EngineInv' /\ ResultInv'
<1>1. /\ Cut(answered)' = Cut(answered)
      /\ Cut(Len(cuts))' = Cut(Len(cuts))
  BY DEF Cut
<1>2. /\ SegEnd(answered)' = SegEnd(answered)
      /\ Written' = Written
      /\ InFlight' = InFlight
      /\ SegBytes(Cut(answered), pos)' = SegBytes(Cut(answered), pos)
  BY <1>1 DEF SegEnd, Written, InFlight, SegBytes
<1>3. UNCHANGED engVars => EngineInv' /\ ResultInv'
  BY <1>1 DEF engVars, EngineInv, ResultInv, IndInv
<1> QED
  BY <1>1, <1>2, <1>3

LEMMA WriteByteInd == ASSUME IndInv, WriteByte PROVE IndInv'
<1>1. BatchOK(batch) /\ TypeOK
  BY BatchIsOK DEF IndInv
<1>2. /\ pc = "write" /\ sent' = sent + 1
      /\ pc' = IF sent + 1 = Written THEN "fill" ELSE "write"
      /\ UNCHANGED <<batch, pos, cuts, answered, inflightBytes, stopped, bufBase, got,
                     arrived, overflow, taken, op, mk, queued, made, mark, pushed, read>>
  BY DEF WriteByte, engVars, upVars
<1>3. sent < Written /\ sent \in Nat /\ InFlight = 1
  BY <1>1, <1>2 DEF IndInv, HostInv, TypeOK
<1>4. Written \in Nat /\ Written' = Written
  <2>1. batch.cmd[Cut(Len(cuts))] \in Nat /\ Len(cuts) \in Nat
    BY <1>1, CutType, BatchFacts
  <2> QED
    BY <1>2, <2>1, SameSegments DEF Written, SegEnd
<1>5. TypeOK'
  BY <1>1, <1>2, <1>3 DEF TypeOK
<1>6. HostInv'
  <2>1. pc' = "write" => sent' < Written'
    BY <1>2, <1>3, <1>4
  <2>2. pc' # "write" => pc' = "fill" /\ sent' = Written'
    BY <1>2, <1>4
  <2> QED
    BY <1>2, <1>3, <2>1, <2>2, SameSegments DEF IndInv, HostInv, Limit
<1>7. EngineInv' /\ ResultInv'
  BY <1>2, SameSegments DEF engVars
<1>8. StreamInv'
  BY <1>1, <1>2, <1>3, <1>4 DEF IndInv, StreamInv, HasItem, AtMarker, ItemEnd, TypeOK
<1> QED
  BY <1>5, <1>6, <1>7, <1>8 DEF IndInv

LEMMA StartReadInd == ASSUME IndInv, StartRead PROVE IndInv'
<1>1. /\ pc = "fill" /\ pc' = "read" /\ InFlight > 0
      /\ UNCHANGED <<batch, pos, cuts, answered, inflightBytes, stopped, bufBase, got,
                     sent, arrived, overflow, taken, op, mk, queued, made, mark, pushed, read>>
  BY DEF StartRead, linkVars, engVars, upVars
<1>2. TypeOK'
  BY <1>1 DEF IndInv, TypeOK
<1>3. HostInv'
  BY <1>1, SameSegments DEF IndInv, HostInv, Limit
<1>4. EngineInv' /\ ResultInv'
  BY <1>1, SameSegments DEF engVars
<1>5. StreamInv'
  BY <1>1, SameSegments DEF IndInv, StreamInv, HasItem, AtMarker, ItemEnd
<1> QED
  BY <1>2, <1>3, <1>4, <1>5 DEF IndInv

LEMMA ReturnInd == ASSUME IndInv, Return PROVE IndInv'
<1>1. /\ pc = "fill" /\ pc' = "done" /\ InFlight = 0 /\ ~MoreToSend
      /\ UNCHANGED <<batch, pos, cuts, answered, inflightBytes, stopped, bufBase, got,
                     sent, arrived, overflow, taken, op, mk, queued, made, mark, pushed, read>>
  BY DEF Return, linkVars, engVars, upVars
<1>2. TypeOK'
  BY <1>1 DEF IndInv, TypeOK
<1>3. HostInv'
  BY <1>1, SameSegments DEF IndInv, HostInv, Limit, MoreToSend
<1>4. EngineInv' /\ ResultInv'
  BY <1>1, SameSegments DEF engVars
<1>5. StreamInv'
  BY <1>1, SameSegments DEF IndInv, StreamInv, HasItem, AtMarker, ItemEnd
<1> QED
  BY <1>2, <1>3, <1>4, <1>5 DEF IndInv

LEMMA ReadPartInd == ASSUME IndInv, ReadPart PROVE IndInv'
<1>1. /\ pc = "read" /\ pc' = "fill"
      /\ stopped' \in {stopped, stopped \/ pos < batch.n}
      /\ UNCHANGED <<batch, pos, cuts, answered, inflightBytes, bufBase, got,
                     sent, arrived, overflow, taken, op, mk, queued, made, mark, pushed>>
  BY DEF ReadPart, MayStop, linkVars, engVars
<1>2. PICK k \in 1 .. (Need - 1) : read + k =< pushed /\ read' = read + k
  BY DEF ReadPart
<1>3. read \in Nat /\ k \in Int /\ k > 0
  BY <1>2 DEF IndInv, TypeOK
<1>4. read' \in Nat /\ read' >= read /\ read' =< pushed
  BY <1>2, <1>3
<1>5. TypeOK'
  BY <1>1, <1>4 DEF IndInv, TypeOK
<1>6. HostInv'
  BY <1>1, SameSegments DEF IndInv, HostInv, Limit
<1>7. EngineInv' /\ ResultInv'
  BY <1>1, SameSegments DEF engVars
<1>8. StreamInv'
  BY <1>1, <1>3, <1>4, SameSegments DEF IndInv, StreamInv, HasItem, AtMarker, ItemEnd, TypeOK
<1> QED
  BY <1>5, <1>6, <1>7, <1>8 DEF IndInv

LEMMA ReadNothingInd == ASSUME IndInv, ReadNothing PROVE IndInv'
<1>1. /\ pc = "read" /\ pc' = "fill" /\ stopped' = TRUE
      /\ UNCHANGED <<batch, pos, cuts, answered, inflightBytes, bufBase, got,
                     sent, arrived, overflow, taken, op, mk, queued, made, mark, pushed, read>>
  BY DEF ReadNothing, linkVars, engVars, upVars
<1>2. TypeOK'
  BY <1>1 DEF IndInv, TypeOK
<1>3. HostInv'
  BY <1>1, SameSegments DEF IndInv, HostInv, Limit
<1>4. EngineInv' /\ ResultInv'
  BY <1>1, SameSegments DEF engVars
<1>5. StreamInv'
  BY <1>1, SameSegments DEF IndInv, StreamInv, HasItem, AtMarker, ItemEnd
<1> QED
  BY <1>2, <1>3, <1>4, <1>5 DEF IndInv

LEMMA PushInd == ASSUME IndInv, Push PROVE IndInv'
<1>1. /\ pushed < queued /\ pushed' = pushed + 1
      /\ UNCHANGED <<batch, pc, pos, cuts, answered, inflightBytes, stopped, bufBase, got,
                     sent, arrived, overflow, taken, op, mk, queued, made, mark, read>>
  BY DEF Push, hostVars, linkVars, engVars
<1>2. TypeOK'
  BY <1>1 DEF IndInv, TypeOK
<1>3. HostInv'
  BY <1>1, SameSegments DEF IndInv, HostInv, Limit, MoreToSend
<1>4. EngineInv' /\ ResultInv'
  BY <1>1, SameSegments DEF engVars
<1>5. StreamInv'
  BY <1>1, SameSegments DEF IndInv, StreamInv, HasItem, AtMarker, ItemEnd, TypeOK
<1> QED
  BY <1>2, <1>3, <1>4, <1>5 DEF IndInv
(* The engine is in the segment in flight or just past it, so what is on the
   way to it is at most that segment. *)
LEMMA OnTheWay ==
  ASSUME IndInv
  PROVE  /\ sent - taken =< Window
         /\ SegEnd(answered) =< taken
         /\ SegEnd(answered) \in Nat
         /\ Written \in Nat
         /\ Written - SegEnd(answered) =< Window
<1>1. BatchOK(batch) /\ TypeOK
  BY BatchIsOK DEF IndInv
<1>2. /\ Len(cuts) \in Nat /\ answered \in Nat /\ mk \in Nat /\ op \in 0 .. batch.n
      /\ pos \in 0 .. batch.n
      /\ Cut(answered) \in 0 .. batch.n
      /\ sent \in Nat /\ taken \in Nat
  BY <1>1, CutType DEF TypeOK
<1>3. /\ batch.cmd[Cut(answered)] \in Nat /\ batch.cmd[op] \in Nat /\ batch.cmd[pos] \in Nat
      /\ batch.cmd[Cut(answered)] =< batch.cmd[op]
  <2>1. Cut(answered) =< op
    BY DEF IndInv, EngineInv
  <2>2. /\ batch.n \in Nat
        /\ \A i \in 0 .. batch.n : batch.cmd[i] \in Nat
        /\ \A i, j \in 0 .. batch.n : i < j => batch.cmd[i] < batch.cmd[j]
    BY <1>1, BatchFacts
  <2>3. batch.cmd[Cut(answered)] =< batch.cmd[op]
    <3>1. CASE Cut(answered) = op
      BY <1>2, <2>2, <3>1
    <3>2. CASE Cut(answered) < op
      BY <1>2, <2>2, <3>2
    <3> QED
      BY <1>2, <2>1, <3>1, <3>2
  <2> QED
    BY <1>2, <2>2, <2>3
<1>4. SegEnd(answered) = batch.cmd[Cut(answered)] + 2 * answered
  BY DEF SegEnd
<1>5. Written = batch.cmd[pos] + 2 * Len(cuts)
  BY DEF IndInv, HostInv, Written, SegEnd
<1>6. SegEnd(answered) =< taken
  BY <1>2, <1>3, <1>4 DEF IndInv, EngineInv, StreamInv
<1>7. Written - SegEnd(answered) =< Window
  <2>1. CASE InFlight = 0
    BY <1>2, <1>3, <1>4, <1>5, <2>1, SizesAssumption DEF IndInv, HostInv, InFlight
  <2>2. CASE InFlight = 1
    <3>1. SegBytes(Cut(answered), pos) =< Window
      BY <2>2 DEF IndInv, HostInv
    <3>2. Len(cuts) = answered + 1
      BY <1>2, <2>2 DEF InFlight
    <3> QED
      BY <1>2, <1>3, <1>4, <1>5, <3>1, <3>2 DEF SegBytes
  <2> QED
    BY <2>1, <2>2 DEF IndInv, HostInv
<1>8. sent =< Written
  BY DEF IndInv, StreamInv
<1>9. SegEnd(answered) \in Nat /\ Written \in Nat
  BY SMTT(30), <1>2, <1>3, <1>4, <1>5
<1> QED
  BY <1>2, <1>6, <1>7, <1>8, <1>9, SizesAssumption

LEMMA ArriveInd == ASSUME IndInv, Arrive PROVE IndInv'
<1>1. /\ arrived < sent /\ arrived' = arrived + 1
      /\ overflow' = (overflow \/ arrived - taken >= RxFifo)
      /\ UNCHANGED <<batch, pc, pos, cuts, answered, inflightBytes, stopped, bufBase, got,
                     sent, taken, op, mk, queued, made, mark, pushed, read>>
  BY DEF Arrive, hostVars, engVars, upVars
<1>2. arrived \in Nat /\ sent \in Nat /\ taken \in Nat
  BY DEF IndInv, TypeOK
<1>3. ~overflow'
  <2>1. arrived - taken < RxFifo
    BY <1>1, <1>2, OnTheWay, SizesAssumption
  <2>2. ~(arrived - taken >= RxFifo)
    BY <1>2, <2>1, SizesAssumption
  <2>3. ~overflow
    BY DEF IndInv, StreamInv
  <2> QED
    BY <1>1, <2>2, <2>3, Zenon
<1>4. TypeOK'
  BY <1>1, <1>2, <1>3 DEF IndInv, TypeOK
<1>5. HostInv'
  BY <1>1, SameSegments DEF IndInv, HostInv, Limit, MoreToSend
<1>6. EngineInv' /\ ResultInv'
  BY <1>1, SameSegments DEF engVars
<1>7. StreamInv'
  BY <1>1, <1>2, <1>3, SameSegments DEF IndInv, StreamInv, HasItem, AtMarker, ItemEnd
<1> QED
  BY <1>4, <1>5, <1>6, <1>7 DEF IndInv

LEMMA TakeInd == ASSUME IndInv, Take PROVE IndInv'
<1>1. /\ HasItem /\ taken < arrived /\ taken < ItemEnd /\ taken' = taken + 1
      /\ UNCHANGED <<batch, pc, pos, cuts, answered, inflightBytes, stopped, bufBase, got,
                     sent, arrived, overflow, op, mk, queued, made, mark, pushed, read>>
  BY DEF Take, hostVars, linkVars, upVars
<1>2. arrived \in Nat /\ taken \in Nat
  BY DEF IndInv, TypeOK
<1>3. batch.cmd[op] + 2 * mk \in Nat /\ ItemEnd \in Int
  <2>1. BatchOK(batch) /\ op \in 0 .. batch.n /\ mk \in Nat /\ pos \in 0 .. batch.n
    BY BatchIsOK, CutType DEF IndInv, TypeOK
  <2>2. batch.cmd[op] \in Nat
    BY <2>1, BatchFacts
  <2>3. ~AtMarker => batch.cmd[op + 1] \in Nat
    BY <1>1, <2>1, BatchFacts DEF HasItem
  <2> QED
    BY <2>1, <2>2, <2>3 DEF ItemEnd
<1>4. TypeOK'
  BY <1>1, <1>2 DEF IndInv, TypeOK
<1>5. HostInv'
  BY <1>1, SameSegments DEF IndInv, HostInv, Limit, MoreToSend
<1>6. EngineInv' /\ ResultInv'
  <2>1. Cut(answered)' = Cut(answered)
    BY <1>1, SameSegments
  <2> QED
    BY <1>1, <2>1 DEF IndInv, EngineInv, ResultInv
<1>7. StreamInv'
  <2>1. HasItem' = HasItem /\ ItemEnd' = ItemEnd
    BY <1>1 DEF HasItem, ItemEnd, AtMarker
  <2>2. taken' =< ItemEnd' /\ batch.cmd[op] + 2 * mk =< taken' /\ taken' =< arrived
    BY <1>1, <1>2, <1>3, <2>1 DEF IndInv, StreamInv
  <2>3. Written' = Written
    BY <1>1, SameSegments
  <2> QED
    BY <1>1, <2>1, <2>2, <2>3 DEF IndInv, StreamInv
<1> QED
  BY <1>4, <1>5, <1>6, <1>7 DEF IndInv
(* What the engine's next step is worth. *)
LEMMA ItemFacts ==
  ASSUME IndInv, HasItem
  PROVE  /\ mk = answered /\ InFlight = 1 /\ Len(cuts) = answered + 1
         /\ cuts[answered + 1] = pos
         /\ AtMarker <=> op = pos
         /\ op \in 0 .. batch.n /\ pos \in 0 .. batch.n /\ mk \in Nat
<1>1. /\ BatchOK(batch) /\ op \in 0 .. batch.n /\ pos \in 0 .. batch.n
      /\ mk \in Nat /\ answered \in Nat /\ Len(cuts) \in Nat /\ mk =< Len(cuts)
      /\ answered =< Len(cuts)
  BY BatchIsOK, CutType DEF IndInv, TypeOK
<1>2. mk # Len(cuts)
  BY <1>1, BatchFacts DEF IndInv, EngineInv, HasItem, AtMarker
<1>3. mk = answered /\ InFlight = 1 /\ Len(cuts) = answered + 1
  BY <1>1, <1>2 DEF IndInv, HostInv, EngineInv, InFlight
<1>4. cuts[answered + 1] = pos
  BY <1>1, <1>3 DEF IndInv, HostInv, Cut
<1> QED
  BY <1>1, <1>3, <1>4 DEF AtMarker

LEMMA ExecOpInd == ASSUME IndInv, ExecOp PROVE IndInv'
<1>1. /\ HasItem /\ ~AtMarker /\ taken = ItemEnd /\ op' = op + 1
      /\ made' = [made EXCEPT ![op + 1] = queued]
      /\ queued' = queued + (batch.rep[op + 1] - batch.rep[op])
      /\ UNCHANGED <<batch, pc, pos, cuts, answered, inflightBytes, stopped, bufBase, got,
                     sent, arrived, overflow, taken, mk, mark, pushed, read>>
  BY DEF ExecOp, hostVars, linkVars, upVars
<1>2. /\ BatchOK(batch) /\ TypeOK /\ batch.n \in Nat
      /\ mk = answered /\ InFlight = 1 /\ Len(cuts) = answered + 1
      /\ cuts[answered + 1] = pos /\ mk \in Nat
      /\ op \in 0 .. batch.n /\ pos \in 0 .. batch.n /\ op # pos
  BY <1>1, BatchIsOK, BatchFacts, ItemFacts DEF IndInv
<1>3. op < pos /\ op + 1 \in 1 .. batch.n
  BY <1>2, BatchFacts DEF IndInv, EngineInv
<1>4. /\ batch.rep[op] \in Nat /\ batch.rep[op + 1] \in Nat /\ batch.rep[op] =< batch.rep[op + 1]
      /\ batch.cmd[op] \in Nat /\ batch.cmd[op + 1] \in Nat
  BY <1>2, <1>3, BatchFacts
<1>5. queued = batch.rep[op] + mk /\ queued' = batch.rep[op + 1] + mk /\ queued \in Nat /\ queued' \in Nat
  <2>1. queued = batch.rep[op] + mk
    BY DEF IndInv, EngineInv
  <2>2. queued' = queued + (batch.rep[op + 1] - batch.rep[op])
    BY <1>1
  <2>3. /\ mk \in Nat /\ batch.rep[op] \in Nat /\ batch.rep[op + 1] \in Nat
    BY <1>2, <1>4
  <2> QED
    BY <2>1, <2>2, <2>3
<1>6. Cut(answered) \in 0 .. batch.n /\ Cut(answered) =< op
  BY <1>2, CutType DEF IndInv, EngineInv
<1>7. TypeOK'
  <2>1. made' \in [1 .. batch.n -> Nat \cup {NotYet}]
    BY <1>1, <1>2, <1>5 DEF TypeOK
  <2>2. op' \in 0 .. batch.n
    BY <1>1, <1>3
  <2> QED
    BY <1>1, <1>2, <1>5, <2>1, <2>2 DEF TypeOK
<1>8. HostInv'
  BY <1>1, SameSegments DEF IndInv, HostInv, Limit, MoreToSend
<1>9. EngineInv'
  <2>1. Cut(answered)' = Cut(answered)
    BY <1>1, SameSegments
  <2>2. /\ answered' =< mk' /\ Cut(answered)' =< op' /\ op' =< pos'
        /\ mk' # Len(cuts') /\ Len(mark') = mk' /\ ~(mk' > answered')
        /\ queued' = (batch.rep[op] + mk)'
    BY <1>1, <1>2, <1>3, <1>5, <1>6, <2>1 DEF IndInv, EngineInv
  <2>3. ASSUME NEW k \in 1 .. op', k > Cut(answered)'
        PROVE  made'[k] = batch.rep[k - 1] + answered
    <3>1. CASE k = op + 1
      BY <1>1, <1>2, <1>3, <1>5, <3>1 DEF TypeOK
    <3>2. CASE k # op + 1
      BY <1>1, <1>2, <1>3, <2>1, <2>3, <3>2 DEF TypeOK, IndInv, EngineInv
    <3> QED
      BY <3>1, <3>2
  <2> QED
    BY <1>1, <2>2, <2>3 DEF EngineInv
<1>10. StreamInv'
  <2>1. ItemEnd = batch.cmd[op + 1] + 2 * mk
    BY <1>1 DEF ItemEnd
  <2>2. (batch.cmd[op] + 2 * mk)' = taken'
    BY <1>1, <2>1
  <2>3. HasItem' => taken' =< ItemEnd'
    <3>1. CASE op + 1 = pos
      BY <1>1, <1>2, <1>3, <1>4, <2>1, <3>1 DEF ItemEnd, AtMarker
    <3>2. CASE op + 1 < pos
      <4>1. batch.cmd[op + 1] < batch.cmd[op + 2] /\ batch.cmd[op + 2] \in Nat
        <5>1. op + 1 \in 0 .. batch.n /\ op + 2 \in 0 .. batch.n /\ op + 1 < op + 2
          BY <1>2, <1>3, <3>2
        <5> QED
          BY <1>2, <5>1, BatchFacts
      <4>2. ItemEnd' = batch.cmd[op + 2] + 2 * mk
        BY <1>1, <1>2, <1>3, <3>2 DEF ItemEnd, AtMarker
      <4> QED
        BY SMTT(30), <1>1, <1>2, <1>4, <2>1, <4>1, <4>2
    <3> QED
      BY <1>2, <1>3, <3>1, <3>2
  <2>4. pushed' =< queued'
    <3>1. pushed =< queued /\ pushed \in Nat
      BY DEF IndInv, StreamInv, TypeOK
    <3>2. pushed' = pushed
      BY <1>1
    <3> QED
      BY <1>2, <1>4, <1>5, <3>1, <3>2
  <2>5. Written' = Written
    BY <1>1, SameSegments
  <2>6. (batch.cmd[op] + 2 * mk)' =< taken'
    BY <1>1, <1>2, <2>2 DEF TypeOK
  <2> QED
    BY <1>1, <2>3, <2>4, <2>5, <2>6 DEF IndInv, StreamInv
<1>11. ResultInv'
  BY <1>1, <1>2, <1>3, <1>6, SameSegments DEF IndInv, ResultInv, TypeOK
<1> QED
  BY <1>7, <1>8, <1>9, <1>10, <1>11 DEF IndInv

LEMMA ExecMarkerInd == ASSUME IndInv, ExecMarker PROVE IndInv'
<1>1. /\ AtMarker /\ HasItem /\ taken = ItemEnd /\ mk' = mk + 1 /\ queued' = queued + 1
      /\ mark' = Append(mark, queued + 1)
      /\ UNCHANGED <<batch, pc, pos, cuts, answered, inflightBytes, stopped, bufBase, got,
                     sent, arrived, overflow, taken, op, made, pushed, read>>
  BY DEF ExecMarker, HasItem, hostVars, linkVars, upVars
<1>2. /\ BatchOK(batch) /\ TypeOK
      /\ mk = answered /\ InFlight = 1 /\ Len(cuts) = answered + 1
      /\ cuts[answered + 1] = pos /\ mk \in Nat
      /\ op = pos /\ op \in 0 .. batch.n
  BY <1>1, BatchIsOK, ItemFacts DEF IndInv
<1>3. batch.rep[op] \in Nat /\ batch.cmd[op] \in Nat /\ queued = batch.rep[op] + mk
  BY <1>2, BatchFacts DEF IndInv, EngineInv
<1>4. Len(mark) = mk
  BY DEF IndInv, EngineInv
<1>5. Len(mark') = mk + 1 /\ mark'[mk + 1] = queued + 1 /\ mark' \in Seq(Nat)
  BY <1>1, <1>2, <1>3, <1>4, AppendProperties DEF TypeOK
<1>6. TypeOK'
  BY <1>1, <1>2, <1>3, <1>5 DEF TypeOK
<1>7. HostInv'
  BY <1>1, SameSegments DEF IndInv, HostInv, Limit, MoreToSend
<1>8. EngineInv'
  <2>1. Cut(answered)' = Cut(answered)
    BY <1>1, SameSegments
  <2>2. answered' =< mk' /\ Len(mark') = mk'
    BY <1>1, <1>2, <1>5
  <2>3. Cut(answered)' =< op' /\ op' =< pos' /\ (mk' = Len(cuts') => op' = pos')
    <3>1. Cut(answered) =< op /\ op =< pos
      BY DEF IndInv, EngineInv
    <3> QED
      BY <1>1, <1>2, <2>1, <3>1
  <2>4. queued' = (batch.rep[op] + mk)'
    <3>1. batch' = batch /\ op' = op /\ mk' = mk + 1 /\ queued' = queued + 1
      BY <1>1
    <3>2. mk \in Nat /\ batch.rep[op] \in Nat /\ queued = batch.rep[op] + mk
      BY <1>2, <1>3
    <3> QED
      BY <3>1, <3>2
  <2>5. mark'[mk'] = queued'
    BY <1>1, <1>5
  <2>6. \A k \in 1 .. op' : k > Cut(answered)' => made'[k] = (batch.rep[k - 1] + answered)'
    BY <1>1, <2>1 DEF IndInv, EngineInv
  <2> QED
    BY <2>2, <2>3, <2>4, <2>5, <2>6 DEF EngineInv
<1>9. StreamInv'
  <2>1. ItemEnd = batch.cmd[op] + 2 * (mk + 1) /\ taken' = ItemEnd
    BY <1>1 DEF ItemEnd
  <2>2. (batch.cmd[op] + 2 * mk)' =< taken'
    BY <1>1, <1>2, <1>3, <2>1
  <2>3. ~HasItem'
    BY <1>1, <1>2, BatchFacts DEF HasItem, AtMarker
  <2>4. pushed' =< queued'
    BY <1>1, <1>2, <1>3 DEF IndInv, StreamInv, TypeOK
  <2>5. Written' = Written
    BY <1>1, SameSegments
  <2> QED
    BY <1>1, <2>2, <2>3, <2>4, <2>5 DEF IndInv, StreamInv
<1>10. ResultInv'
  BY <1>1, <1>2, SameSegments DEF IndInv, ResultInv
<1> QED
  BY <1>6, <1>7, <1>8, <1>9, <1>10 DEF IndInv
(* The reply of the head segment is complete only when its marker has been
   echoed, and then that marker is what the host finds at its end. *)
LEMMA CompleteMeansMarked ==
  ASSUME IndInv, pc = "read", read + Need =< pushed
  PROVE  /\ Len(cuts) = answered + 1 /\ HeadFrom = Cut(answered) /\ HeadTo = pos
         /\ mk = answered + 1 /\ op = pos
         /\ mark[answered + 1] = bufBase + SegReply(HeadFrom, HeadTo)
         /\ queued = bufBase + SegReply(HeadFrom, HeadTo)
         /\ read + Need = queued
         /\ pushed = queued
         /\ sent = taken /\ taken = Written
         /\ Cut(answered) \in 0 .. batch.n
         /\ bufBase = batch.rep[Cut(answered)] + answered
<1>1. /\ BatchOK(batch) /\ TypeOK /\ batch.n \in Nat
      /\ answered \in Nat /\ mk \in Nat /\ op \in 0 .. batch.n /\ pos \in 0 .. batch.n
      /\ read \in Nat /\ pushed \in Nat /\ queued \in Nat /\ bufBase \in Nat
      /\ Len(cuts) \in Nat /\ mk =< Len(cuts)
  BY BatchIsOK, BatchFacts, CutType DEF IndInv, TypeOK
<1>2. Len(cuts) = answered + 1
  BY <1>1 DEF IndInv, HostInv, InFlight
<1>3. HeadFrom = Cut(answered) /\ HeadTo = pos
  BY <1>1, <1>2 DEF IndInv, HostInv, Cut, HeadFrom, HeadTo
<1>4. Cut(answered) \in 0 .. batch.n
  BY CutType DEF IndInv
<1>5. /\ batch.rep[Cut(answered)] \in Nat /\ batch.rep[op] \in Nat /\ batch.rep[pos] \in Nat
      /\ batch.rep[op] =< batch.rep[pos]
  BY <1>1, <1>4, BatchFacts DEF IndInv, EngineInv
<1>6. /\ bufBase = batch.rep[Cut(answered)] + answered
      /\ queued = batch.rep[op] + mk
      /\ pushed =< queued
  BY DEF IndInv, HostInv, EngineInv, StreamInv
<1>7. /\ SegReply(HeadFrom, HeadTo) \in Int
      /\ bufBase + SegReply(HeadFrom, HeadTo) = batch.rep[pos] + answered + 1
  <2>1. SegReply(HeadFrom, HeadTo) = batch.rep[pos] - batch.rep[Cut(answered)] + 1
    BY <1>3 DEF SegReply
  <2>2. /\ batch.rep[pos] \in Nat /\ batch.rep[Cut(answered)] \in Nat /\ answered \in Nat
        /\ bufBase = batch.rep[Cut(answered)] + answered
    BY <1>1, <1>5, <1>6
  <2> QED
    BY <2>1, <2>2
<1>8. read + Need = batch.rep[pos] + answered + 1
  BY <1>1, <1>7 DEF Need
<1>9. mk = answered + 1
  <2>1. batch.rep[pos] + answered + 1 =< pushed
    BY <1>8
  <2>2. batch.rep[pos] + answered + 1 =< batch.rep[pos] + mk
    BY SMTT(30), <1>1, <1>5, <1>6, <2>1
  <2> QED
    BY <1>1, <1>2, <1>5, <2>2
<1>10. op = pos
  BY <1>2, <1>9 DEF IndInv, EngineInv
<1>11. mark[answered + 1] = queued
  BY <1>1, <1>9 DEF IndInv, EngineInv
<1>12. queued = batch.rep[pos] + answered + 1
  <2>1. queued = batch.rep[pos] + mk /\ batch.rep[pos] \in Nat /\ answered \in Nat
    BY <1>1, <1>5, <1>6, <1>10
  <2> QED
    BY <1>9, <2>1
<1>13. pushed = queued
  <2>1. queued =< pushed
    BY <1>8, <1>12
  <2>2. pushed =< queued /\ pushed \in Nat /\ queued \in Nat
    BY <1>1, <1>6
  <2> QED
    BY <2>1, <2>2
<1>14. sent = taken /\ taken = Written
  <2>1. batch.cmd[op] + 2 * mk =< taken /\ taken =< arrived /\ arrived =< sent /\ sent =< Written
    BY DEF IndInv, StreamInv
  <2>2. Written = batch.cmd[op] + 2 * mk
    BY <1>2, <1>9, <1>10 DEF IndInv, HostInv, Written, SegEnd
  <2> QED
    BY <2>1, <2>2, OnTheWay DEF IndInv, TypeOK
<1> QED
  BY <1>2, <1>3, <1>4, <1>6, <1>7, <1>8, <1>9, <1>10, <1>11, <1>12, <1>13, <1>14
LEMMA ReadAllInd == ASSUME IndInv, ReadAll PROVE IndInv'
<1>1. /\ pc = "read" /\ read + Need =< pushed /\ read' = read + Need
      /\ UNCHANGED <<batch, pos, cuts, sent, arrived, overflow, taken, op, mk, queued, made,
                     mark, pushed>>
  BY DEF ReadAll, linkVars, engVars
<1> DEFINE last == bufBase + SegReply(HeadFrom, HeadTo)
<1>2. /\ Len(cuts) = answered + 1 /\ HeadFrom = Cut(answered) /\ HeadTo = pos
      /\ mk = answered + 1 /\ op = pos
      /\ mark[answered + 1] = last /\ queued = last
      /\ read + Need = queued /\ pushed = queued
      /\ sent = taken /\ taken = Written
      /\ Cut(answered) \in 0 .. batch.n
      /\ bufBase = batch.rep[Cut(answered)] + answered
  BY <1>1, CompleteMeansMarked
<1>3. /\ BatchOK(batch) /\ TypeOK /\ batch.n \in Nat
      /\ answered \in Nat /\ pos \in 0 .. batch.n /\ op \in 0 .. batch.n
      /\ queued \in Nat /\ bufBase \in Nat
      /\ Cut(answered) \in 0 .. batch.n
  BY BatchIsOK, BatchFacts, CutType DEF IndInv, TypeOK
<1>4. Len(mark) = answered + 1
  BY <1>2 DEF IndInv, EngineInv
<1>5. /\ got' = [k \in 1 .. batch.n |->
                   IF Cut(answered) < k /\ k =< pos
                   THEN bufBase + (batch.rep[k - 1] - batch.rep[Cut(answered)])
                   ELSE got[k]]
      /\ bufBase' = last
      /\ answered' = answered + 1
      /\ inflightBytes' = inflightBytes - SegBytes(Cut(answered), pos)
      /\ stopped' \in {stopped, stopped \/ pos < batch.n}
      /\ pc' = "fill"
  <2>1. answered + 1 =< Len(mark) /\ mark[answered + 1] = last
    BY <1>2, <1>3, <1>4
  <2> QED
    BY <1>2, <2>1 DEF ReadAll, MayStop, Slice
<1>6. /\ last = batch.rep[pos] + answered + 1
      /\ batch.rep[pos] \in Nat /\ batch.rep[Cut(answered)] \in Nat
  <2>1. batch.rep[pos] \in Nat /\ batch.rep[Cut(answered)] \in Nat
    BY <1>2, <1>3, BatchFacts
  <2>2. queued = batch.rep[op] + mk
    BY DEF IndInv, EngineInv
  <2> QED
    BY SMTT(30), <1>2, <1>3, <2>1, <2>2
<1>7. /\ Cut(answered)' = pos
      /\ Cut(Len(cuts))' = pos
      /\ InFlight' = 0
  <2>1. Cut(answered + 1) = pos
    BY <1>2 DEF IndInv, HostInv
  <2> QED
    BY <1>1, <1>2, <1>3, <1>5, <2>1 DEF Cut, InFlight
<1>8. /\ Written' = Written /\ Written \in Int
      /\ SegEnd(answered)' = Written
      /\ inflightBytes' = 0
  <2>1. batch.cmd[pos] \in Nat /\ batch.cmd[Cut(answered)] \in Nat
    BY <1>3, BatchFacts
  <2>2. Written' = Written
    BY <1>1 DEF Written, SegEnd, Cut
  <2>3. Written = batch.cmd[pos] + 2 * (answered + 1)
    BY <1>2 DEF IndInv, HostInv, Written, SegEnd
  <2>4. SegEnd(answered)' = batch.cmd[pos] + 2 * (answered + 1)
    BY <1>1, <1>5, <1>7 DEF SegEnd
  <2>5. SegEnd(answered) = batch.cmd[Cut(answered)] + 2 * answered
    BY DEF SegEnd
  <2>6. SegBytes(Cut(answered), pos) = batch.cmd[pos] - batch.cmd[Cut(answered)] + 2
    BY DEF SegBytes
  <2>7. inflightBytes = Written - SegEnd(answered)
    BY DEF IndInv, HostInv
  <2>8. inflightBytes' = 0
    <3>1. inflightBytes' = inflightBytes - SegBytes(Cut(answered), pos) /\ answered \in Nat
      BY <1>3, <1>5
    <3> QED
      BY <2>1, <2>3, <2>5, <2>6, <2>7, <3>1
  <2> QED
    BY <1>3, <2>1, <2>2, <2>3, <2>4, <2>8
<1>9. ASSUME NEW k \in 1 .. batch.n
      PROVE  IF k =< pos THEN got'[k] # NotYet /\ got'[k] = made[k] ELSE got'[k] = NotYet
  <2>1. CASE Cut(answered) < k /\ k =< pos
    <3>1. k \in 1 .. op /\ k - 1 \in 0 .. batch.n
      BY <1>2, <1>3, <2>1
    <3>2. made[k] = batch.rep[k - 1] + answered
      BY <2>1, <3>1 DEF IndInv, EngineInv
    <3>3. batch.rep[k - 1] \in Nat /\ batch.rep[Cut(answered)] \in Nat
      BY <1>3, <3>1, BatchFacts
    <3>4. got'[k] = bufBase + (batch.rep[k - 1] - batch.rep[Cut(answered)])
      BY <1>5, <2>1
    <3>5. bufBase = batch.rep[Cut(answered)] + answered /\ answered \in Nat
      BY <1>2, <1>3
    <3>6. got'[k] = batch.rep[k - 1] + answered /\ got'[k] \in Nat
      BY <3>3, <3>4, <3>5
    <3> QED
      BY <2>1, <3>2, <3>6 DEF NotYet
  <2>2. CASE k =< Cut(answered)
    BY <1>3, <1>5, <2>2, CutType DEF IndInv, ResultInv, HostInv, EngineInv
  <2>3. CASE pos < k
    <3>1. got'[k] = got[k] /\ k > Cut(answered)
      BY <1>2, <1>3, <1>5, <2>3 DEF IndInv, EngineInv
    <3> QED
      BY <1>3, <2>3, <3>1 DEF IndInv, ResultInv
  <2> QED
    BY <1>3, <2>1, <2>2, <2>3
<1>10. TypeOK'
  <2>1. got' \in [1 .. batch.n -> Nat \cup {NotYet}]
    <3>1. ASSUME NEW k \in 1 .. batch.n PROVE got'[k] \in Nat \cup {NotYet}
      <4>1. made[k] \in Nat \cup {NotYet}
        BY <1>3 DEF TypeOK
      <4> QED
        BY <1>9, <4>1
    <3> QED
      BY <1>5, <3>1
  <2>2. answered' \in 0 .. Len(cuts) /\ last \in Nat
    BY <1>2, <1>3, <1>5
  <2>3. stopped' \in BOOLEAN
    BY <1>3, <1>5 DEF TypeOK
  <2>4. pc' \in {"fill", "write", "read", "done", "error"}
    BY <1>5
  <2>5. mk' \in 0 .. Len(cuts') /\ answered' \in 0 .. Len(cuts')
    BY <1>1, <1>2, <1>3, <1>5
  <2>6. inflightBytes' \in Nat /\ read' \in Nat /\ bufBase' \in Nat
    BY <1>1, <1>2, <1>3, <1>5, <1>8, <2>2
  <2> QED
    BY <1>1, <1>3, <2>1, <2>3, <2>4, <2>5, <2>6 DEF TypeOK
<1>11. HostInv'
  <2>1. sent' = Written'
    BY <1>1, <1>2, <1>8
  <2>2. bufBase' = (batch.rep[Cut(answered)] + answered)'
    <3>1. bufBase' = batch.rep[pos] + answered + 1 /\ answered \in Nat /\ batch.rep[pos] \in Nat
      BY <1>3, <1>5, <1>6
    <3>2. (batch.rep[Cut(answered)] + answered)' = batch.rep[pos] + (answered + 1)
      BY <1>1, <1>5, <1>7
    <3> QED
      BY <3>1, <3>2
  <2>3. inflightBytes' = (Written - SegEnd(answered))'
    BY <1>8
  <2> QED
    BY <1>1, <1>5, <1>7, <2>1, <2>2, <2>3 DEF HostInv
<1>12. EngineInv'
  <2>1. \A k \in 1 .. op' : ~(k > Cut(answered)')
    BY <1>1, <1>2, <1>3, <1>7
  <2>2. queued' = (batch.rep[op] + mk)' /\ Len(mark') = mk'
    BY <1>1 DEF IndInv, EngineInv
  <2> QED
    BY <1>1, <1>2, <1>3, <1>5, <1>7, <2>1, <2>2 DEF EngineInv
<1>13. StreamInv'
  <2>1. HasItem' = HasItem /\ ItemEnd' = ItemEnd
    BY <1>1 DEF HasItem, ItemEnd, AtMarker
  <2>2. bufBase' =< read' /\ read' =< pushed'
    BY <1>1, <1>2, <1>3, <1>5
  <2> QED
    BY <1>1, <1>8, <2>1, <2>2 DEF IndInv, StreamInv
<1>14. ResultInv'
  BY <1>1, <1>7, <1>9 DEF ResultInv
<1> QED
  BY <1>10, <1>11, <1>12, <1>13, <1>14 DEF IndInv

LEMMA StutterInd == ASSUME IndInv, UNCHANGED vars PROVE IndInv'
<1>1. UNCHANGED <<batch, pc, pos, cuts, answered, inflightBytes, stopped, bufBase, got,
                  sent, arrived, overflow, taken, op, mk, queued, made, mark, pushed, read>>
  BY DEF vars, hostVars, linkVars, engVars, upVars
<1>2. TypeOK'
  BY <1>1 DEF IndInv, TypeOK
<1>3. HostInv'
  BY <1>1, SameSegments DEF IndInv, HostInv, Limit, MoreToSend
<1>4. EngineInv' /\ ResultInv'
  BY <1>1, SameSegments DEF engVars
<1>5. StreamInv'
  BY <1>1, SameSegments DEF IndInv, StreamInv, HasItem, AtMarker, ItemEnd
<1> QED
  BY <1>2, <1>3, <1>4, <1>5 DEF IndInv

LEMMA NextInd == IndInv /\ [Next]_vars => IndInv'
<1> SUFFICES ASSUME IndInv, [Next]_vars PROVE IndInv'
  OBVIOUS
<1>1. CASE SendSegment BY <1>1, SendSegmentInd
<1>2. CASE WriteByte BY <1>2, WriteByteInd
<1>3. CASE StartRead BY <1>3, StartReadInd
<1>4. CASE Return BY <1>4, ReturnInd
<1>5. CASE ReadPart BY <1>5, ReadPartInd
<1>6. CASE ReadAll BY <1>6, ReadAllInd
<1>7. CASE ReadNothing BY <1>7, ReadNothingInd
<1>8. CASE Arrive BY <1>8, ArriveInd
<1>9. CASE Take BY <1>9, TakeInd
<1>10. CASE ExecOp BY <1>10, ExecOpInd
<1>11. CASE ExecMarker BY <1>11, ExecMarkerInd
<1>12. CASE Push BY <1>12, PushInd
<1>13. CASE UNCHANGED vars BY <1>13, StutterInd
<1> QED
  BY <1>1, <1>2, <1>3, <1>4, <1>5, <1>6, <1>7, <1>8, <1>9, <1>10, <1>11, <1>12, <1>13
  DEF Next, HostStep, EngineStep

(* The inductive invariant of Device.run and the engine holds throughout. *)
THEOREM IndInvAlways == Spec => []IndInv
BY InitInd, NextInd, PTL DEF Spec

(* Every variable keeps its type, for every batch and every window. *)
THEOREM TypeCorrect == Spec => []TypeOK
<1>1. IndInv => TypeOK
  BY DEF IndInv
<1> QED
  BY <1>1, IndInvAlways, PTL

(* The window that Device.run keeps (window, inflight_bytes) is enough flow
   control: the gateware's receive FIFO never overflows. *)
THEOREM NeverOverflows == Spec => []NoOverflow
<1>1. IndInv => NoOverflow
  BY DEF IndInv, StreamInv, NoOverflow
<1> QED
  BY <1>1, IndInvAlways, PTL

(* Bytes sent and not consumed by the engine stay within the window. *)
THEOREM StaysInWindow == Spec => []WindowRespected
<1>1. IndInv => WindowRespected
  BY OnTheWay DEF WindowRespected
<1> QED
  BY <1>1, IndInvAlways, PTL

(* Since _segment fills a segment up to the window, Device.run never has two
   segments of a batch in flight. *)
THEOREM StopAndWait == Spec => []OneSegmentInFlight
<1>1. IndInv => OneSegmentInFlight
  BY DEF IndInv, HostInv, OneSegmentInFlight
<1> QED
  BY <1>1, IndInvAlways, PTL

(* Each result is cut from the reply bytes of its own operation. *)
THEOREM ResultsAreExact == Spec => []ResultsExact
<1>1. ASSUME IndInv, NEW k \in 1 .. batch.n, got[k] # NotYet
      PROVE  got[k] = made[k]
  BY <1>1 DEF IndInv, ResultInv
<1>2. IndInv => ResultsExact
  BY <1>1 DEF ResultsExact
<1> QED
  BY <1>2, IndInvAlways, PTL

(* On a link that loses nothing run never reports "stream out of sync". *)
THEOREM NeverFalseAlarm == Spec => []NoFalseAlarm
<1>1. IndInv => NoFalseAlarm
  BY DEF IndInv, HostInv, NoFalseAlarm
<1> QED
  BY <1>1, IndInvAlways, PTL

(* With no segment in flight the engine has done all it was sent, and the
   host has read all it was answered. *)
LEMMA NothingLeft ==
  ASSUME IndInv, InFlight = 0
  PROVE  /\ answered = Len(cuts) /\ mk = answered /\ op = pos /\ Cut(answered) = pos
         /\ bufBase = queued /\ read = queued
         /\ inflightBytes = 0
<1>1. /\ TypeOK /\ BatchOK(batch) /\ batch.n \in Nat /\ Len(cuts) \in Nat
      /\ answered \in Nat /\ mk \in Nat /\ mk =< Len(cuts)
  BY BatchIsOK, BatchFacts, CutType DEF IndInv, TypeOK
<1>2. answered = Len(cuts)
  BY <1>1 DEF InFlight
<1>3. mk = answered
  BY <1>1, <1>2 DEF IndInv, EngineInv
<1>4. op = pos /\ Cut(answered) = pos
  BY <1>2, <1>3 DEF IndInv, EngineInv, HostInv
<1>5. bufBase = queued
  BY <1>3, <1>4 DEF IndInv, EngineInv, HostInv
<1>6. read = queued
  BY <1>1, <1>5 DEF IndInv, StreamInv, TypeOK
<1>7. inflightBytes = 0
  <2>1. batch.cmd[Cut(answered)] \in Nat
    BY <1>1, CutType, BatchFacts
  <2>2. inflightBytes = SegEnd(answered) - SegEnd(answered)
    BY <1>2 DEF IndInv, HostInv, Written
  <2> QED
    BY <1>1, <2>1, <2>2 DEF SegEnd
<1> QED
  BY <1>2, <1>3, <1>4, <1>5, <1>6, <1>7

(* run leaves nothing behind on the link, and a run that was not cancelled
   has filled in every result. *)
THEOREM ReturnsQuiet == Spec => []QuietAtReturn
<1>1. ASSUME IndInv, pc = "done" PROVE QuietAtReturn
  <2>1. InFlight = 0 /\ ~MoreToSend /\ sent = Written
    BY <1>1 DEF IndInv, HostInv
  <2>2. /\ answered = Len(cuts) /\ mk = answered /\ op = pos /\ Cut(answered) = pos
        /\ read = queued /\ inflightBytes = 0
    BY <1>1, <2>1, NothingLeft
  <2>3. sent = taken
    <3>1. Written = batch.cmd[op] + 2 * mk
      BY <2>2 DEF Written, SegEnd
    <3>2. batch.cmd[op] + 2 * mk =< taken /\ taken =< sent /\ sent =< Written
      <4>1. taken =< arrived /\ arrived =< sent /\ taken \in Nat /\ arrived \in Nat /\ sent \in Nat
        BY <1>1 DEF IndInv, StreamInv, TypeOK
      <4> QED
        BY <1>1, <4>1 DEF IndInv, StreamInv
    <3> QED
      BY <1>1, <2>1, <3>1, <3>2 DEF IndInv, TypeOK
  <2>4. ~stopped => pos = batch.n
    <3>1. batch.n \in Nat /\ pos \in 0 .. batch.n
      BY <1>1, BatchIsOK, BatchFacts DEF IndInv, TypeOK
    <3> QED
      BY <2>1, <3>1 DEF MoreToSend
  <2>5. ~stopped => \A k \in 1 .. batch.n : got[k] # NotYet
    BY <1>1, <2>2, <2>4 DEF IndInv, ResultInv
  <2> QED
    BY <2>2, <2>3, <2>5 DEF QuietAtReturn
<1>2. IndInv => QuietAtReturn
  BY <1>1 DEF QuietAtReturn
<1> QED
  BY <1>2, IndInvAlways, PTL

(* Steps that disturb none of what the promise speaks of. *)
LEMMA PromiseStutter ==
  ASSUME IndInv, UNCHANGED <<batch, cuts, answered, op>>, pc' # "done", pc # "done"
  PROVE  UNCHANGED Promise!batchVars
BY DEF Promise!batchVars, Cut

LEMMA PromiseStep == IndInv /\ [Next]_vars => [Promise!Next]_(Promise!batchVars)
<1> SUFFICES ASSUME IndInv, [Next]_vars PROVE [Promise!Next]_(Promise!batchVars)
  OBVIOUS
<1> USE DEF Promise!Next, Promise!batchVars
<1>0. /\ TypeOK /\ BatchOK(batch) /\ batch.n \in Nat /\ Len(cuts) \in Nat
      /\ answered \in Nat /\ Cut(answered) \in 0 .. batch.n
      /\ op \in 0 .. batch.n /\ pos \in 0 .. batch.n
  BY BatchIsOK, BatchFacts, CutType DEF IndInv, TypeOK
<1>1. CASE SendSegment
  <2>1. PICK e \in 1 .. batch.n : cuts' = Append(cuts, e)
    BY <1>1 DEF SendSegment
  <2>2. UNCHANGED <<batch, answered, op>> /\ pc = "fill" /\ pc' = "write"
    BY <1>1 DEF SendSegment, engVars
  <2>3. Cut(answered)' = Cut(answered)
    <3>1. \A s \in 1 .. Len(cuts) : cuts'[s] = cuts[s]
      BY <1>0, <2>1, AppendProperties DEF TypeOK
    <3> QED
      BY <1>0, <2>2, <3>1 DEF Cut, TypeOK
  <2> QED
    BY <2>2, <2>3
<1>2. CASE WriteByte \/ StartRead \/ ReadPart \/ ReadNothing
  <2>1. UNCHANGED <<batch, cuts, answered, op>> /\ pc # "done" /\ pc' # "done"
    BY <1>2 DEF WriteByte, StartRead, ReadPart, ReadNothing, engVars
  <2> QED
    BY <2>1, PromiseStutter
<1>3. CASE Return
  <2>1. /\ UNCHANGED <<batch, cuts, answered, op>>
        /\ pc = "fill" /\ pc' = "done" /\ InFlight = 0
    BY <1>3 DEF Return, engVars
  <2>2. Cut(answered) = op /\ Cut(answered)' = Cut(answered)
    BY <2>1, NothingLeft DEF Cut
  <2>3. Promise!Return
    BY <2>1, <2>2 DEF Promise!Return
  <2> QED
    BY <2>3
<1>4. CASE ReadAll
  <2>1. /\ pc = "read" /\ read + Need =< pushed
        /\ UNCHANGED <<batch, cuts, op, pos, mark>>
    BY <1>4 DEF ReadAll, engVars
  <2>2. /\ Len(cuts) = answered + 1 /\ op = pos /\ Len(mark) = answered + 1
        /\ HeadFrom = Cut(answered) /\ HeadTo = pos
        /\ mark[answered + 1] = bufBase + SegReply(HeadFrom, HeadTo)
    BY <2>1, CompleteMeansMarked DEF IndInv, EngineInv
  <2>3. answered' = answered + 1 /\ pc' = "fill"
    BY <1>0, <1>4, <2>2 DEF ReadAll
  <2>4. Cut(answered)' = op
    <3>1. Cut(Len(cuts)) = pos
      BY DEF IndInv, HostInv
    <3> QED
      BY <1>0, <2>1, <2>2, <2>3, <3>1 DEF Cut
  <2>5. Cut(answered) < op
    BY <1>0, <2>2 DEF IndInv, HostInv, InFlight
  <2>6. Promise!Deliver
    <3>1. op \in (Cut(answered) + 1) .. op
      BY <1>0, <2>5
    <3> QED
      BY <2>1, <2>3, <2>4, <3>1 DEF Promise!Deliver
  <2> QED
    BY <2>6
<1>5. CASE Arrive \/ Take \/ ExecMarker \/ Push
  <2>1. UNCHANGED <<batch, cuts, answered, op, pc>>
    BY <1>5 DEF Arrive, Take, ExecMarker, Push, hostVars, engVars
  <2> QED
    BY <2>1 DEF Cut
<1>6. CASE ExecOp
  <2>1. /\ UNCHANGED <<batch, cuts, answered, pc>>
        /\ op' = op + 1 /\ HasItem /\ ~AtMarker
    BY <1>6 DEF ExecOp, hostVars
  <2>2. op < pos
    BY <2>1 DEF HasItem
  <2>3. pc # "done"
    <3>1. pc = "done" => InFlight = 0
      BY DEF IndInv, HostInv
    <3> QED
      BY <1>0, <2>2, <3>1, NothingLeft
  <2>4. op < batch.n
    BY <1>0, <2>2
  <2>5. Promise!Execute
    BY <2>1, <2>3, <2>4 DEF Promise!Execute, Cut
  <2> QED
    BY <2>5
<1>7. CASE UNCHANGED vars
  BY <1>7 DEF vars, hostVars, engVars, Cut
<1> QED
  BY <1>1, <1>2, <1>3, <1>4, <1>5, <1>6, <1>7 DEF Next, HostStep, EngineStep

(* Device.run with its segments, window and markers does what BatchExec
   promises: every operation once and in order, every result in order and
   after its operation, nothing outstanding when it returns. *)
THEOREM RunKeepsPromise == Spec => ImplementsPromise
<1>1. Init => Promise!Init
  BY BatchesAssumption, BatchFacts DEF Init, Promise!Init, Cut
<1> QED
  BY <1>1, PromiseStep, IndInvAlways, PTL DEF Spec, ImplementsPromise, Promise!Spec
==============================================================================
