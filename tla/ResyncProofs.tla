----------------------------- MODULE ResyncProofs -----------------------------
(***************************************************************************)
(* Proofs about Resync, for any runs, faults and times, as long as the     *)
(* drain outlasts what a run leaves in the engine (InTime).                *)
(***************************************************************************)
EXTENDS Resync, FiniteSetTheorems, TLAPS

-----------------------------------------------------------------------------
(* What is assumed of the times *)

\* The drain outlasts what a run leaves in the engine: all of it within its limit,
\* and within its quiet time as much as the engine may do without a reply, which
\* takes an operation that lost bytes or replies that got lost.  A read of an
\* attempt outlasts the inter-byte timeout.
InTime ==
    /\ \A seg \in Segments : (Len(seg) + 1) * BusyTicks + IbTicks < LimitTicks
    /\ (MaxFaults + 1) * BusyTicks < QuietTicks
    /\ MaxFaults > 0 => (MaxFaults - 1) * BusyTicks + IbTicks < QuietTicks
    /\ IbTicks < ReadTicks

-----------------------------------------------------------------------------
(* The inductive invariant *)

Clean == eng = "fetch" /\ rxFifo = <<>>

\* An operation that lost bytes is about; it took a fault.
Half == eng = "args" \/ \E i \in DOMAIN rxFifo : rxFifo[i][1] = "half"

FaultInv == Half => faults < MaxFaults

ClockInv ==
    /\ eng = "busy" => clock =< BusyTicks /\ (current[1] # "r" => clock = 0)
    /\ eng = "args" => clock =< IbTicks

\* Markers come last, in the FIFO and among the replies.
OrderInv ==
    /\ \A i \in DOMAIN rxFifo : rxFifo[i][1] = "m" => i = Len(rxFifo)
    /\ eng = "busy" /\ current[1] = "m" => rxFifo = <<>>
    /\ \A i \in DOMAIN up : up[i][1] = "m" => i = Len(up) /\ Clean

\* Nothing but the pattern is on the way while its answer is awaited.
Pattern == <<"pattern", 0>>
PatternInv ==
    /\ ~swallowed
    /\ pc # "read" => \A i \in DOMAIN rxFifo : rxFifo[i][1] # "pattern"
    /\ pc = "read" =>
         \/ up \in {<<>>, <<Pattern>>} /\ Clean
         \/ up = <<>> /\ eng = "fetch" /\ rxFifo \in {<< Pattern >>, << <<"half", 0>> >>}
         \/ up = <<>> /\ eng = "busy" /\ current = Pattern /\ rxFifo = <<>>
         \/ up = <<>> /\ eng = "args" /\ rxFifo = <<>>

RestInv ==
    /\ pc \in {"idle", "insync", "lost", "write"} => Clean /\ up = <<>>
    /\ pc = "run" => need > 0 /\ \E seg \in Segments : Len(rxFifo) =< Len(seg)

\* How long the engine may go on without a reply, and how long at all; 0 when it
\* has nothing to do.
Gap == IF Half /\ IbTicks > BusyTicks THEN IbTicks ELSE BusyTicks
Dropping == eng = "args" /\ rxFifo = <<>>

Silent ==
    IF Clean THEN 0
    ELSE IF Dropping THEN IbTicks - clock + 1
    ELSE IF eng = "busy" /\ current[1] = "r" THEN clock + (faults - 1) * BusyTicks + Gap + 1
    ELSE faults * BusyTicks + Gap + 1

Working ==
    IF Clean THEN 0
    ELSE IF Dropping THEN IbTicks - clock + 1
    ELSE (IF eng = "busy" THEN clock ELSE 0) + Len(rxFifo) * BusyTicks + IbTicks + 1

Answering ==
    IF Clean THEN 0 ELSE IF Dropping THEN IbTicks - clock + 1 ELSE IbTicks + 1

TimeInv ==
    /\ pc = "drain" =>
         /\ up = <<>> => quiet >= Silent
         /\ timer >= Working
         /\ timer = 0 => up = <<>>
    /\ pc = "read" => timer >= Answering

IndInv ==
    TypeOK /\ FaultInv /\ ClockInv /\ OrderInv /\ PatternInv /\ RestInv /\ TimeInv

-----------------------------------------------------------------------------
(* Operations on their way *)

Ops == Kinds \X (0 .. MaxRuns)

LEMMA Numbers ==
    /\ MaxRuns \in Nat /\ MaxFaults \in Nat /\ BusyTicks \in Nat /\ IbTicks \in Nat
    /\ QuietTicks \in Nat /\ LimitTicks \in Nat /\ ReadTicks \in Nat /\ RunTicks \in Nat
    /\ Attempts = 3
BY TicksAssumption DEF Attempts

LEMMA TailIs ==
    ASSUME NEW s \in Seq(Ops), s # <<>>
    PROVE  /\ Head(s) = s[1] /\ Head(s) \in Ops /\ 1 \in DOMAIN s
           /\ Len(s) \in Nat /\ Len(s) > 0
           /\ Tail(s) \in Seq(Ops) /\ Len(Tail(s)) = Len(s) - 1
           /\ \A i \in DOMAIN Tail(s) : i + 1 \in DOMAIN s /\ Tail(s)[i] = s[i + 1]
OBVIOUS

LEMMA ConcatIs ==
    ASSUME NEW a \in Seq(Ops), NEW b \in Seq(Ops)
    PROVE  /\ a \o b \in Seq(Ops) /\ Len(a \o b) = Len(a) + Len(b)
           /\ Len(a) \in Nat /\ Len(b) \in Nat
           /\ DOMAIN (a \o b) = 1 .. (Len(a) + Len(b))
           /\ \A i \in DOMAIN (a \o b) : (a \o b)[i] = IF i =< Len(a) THEN a[i] ELSE b[i - Len(a)]
           /\ DOMAIN a = 1 .. Len(a) /\ DOMAIN b = 1 .. Len(b)
OBVIOUS

\* What is left of a segment that lost bytes: its operations in their order, or
\* one of them half.
LEMMA DamagedIs ==
    ASSUME NEW ops \in Seq(Ops), NEW k \in 1 .. Len(ops), NEW d \in Damaged(ops, k)
    PROVE  /\ d \in Seq(Ops) /\ Len(d) =< Len(ops)
           /\ \A i \in DOMAIN d :
                \/ d[i] = <<"half", 0>>
                \/ \E j \in DOMAIN ops : d[i] = ops[j] /\ (j = Len(ops) => i = Len(d))
<1>1. ASSUME d = SubSeq(ops, 1, k - 1) \o SubSeq(ops, k + 1, Len(ops))
      PROVE  /\ d \in Seq(Ops) /\ Len(d) =< Len(ops)
             /\ \A i \in DOMAIN d :
                  \E j \in DOMAIN ops : d[i] = ops[j] /\ (j = Len(ops) => i = Len(d))
  <2> DEFINE a == SubSeq(ops, 1, k - 1)
             b == SubSeq(ops, k + 1, Len(ops))
             n == Len(ops)
  <2>1. a \in Seq(Ops) /\ Len(a) = k - 1 /\ \A i \in 1 .. (k - 1) : a[i] = ops[i]
    OBVIOUS
  <2>2. b \in Seq(Ops) /\ Len(b) = n - k /\ \A i \in 1 .. (n - k) : b[i] = ops[i + k]
    OBVIOUS
  <2>3. n \in Nat /\ DOMAIN ops = 1 .. n /\ k \in 1 .. n
    OBVIOUS
  <2>4. d = a \o b
    BY <1>1
  <2> HIDE DEF a, b, n
  <2>5. /\ d \in Seq(Ops) /\ Len(d) = n - 1 /\ DOMAIN d = 1 .. (n - 1)
        /\ \A i \in DOMAIN d : d[i] = IF i =< k - 1 THEN a[i] ELSE b[i - (k - 1)]
    <3>1. /\ d \in Seq(Ops) /\ Len(d) = Len(a) + Len(b) /\ DOMAIN d = 1 .. (Len(a) + Len(b))
          /\ \A i \in DOMAIN d : d[i] = IF i =< Len(a) THEN a[i] ELSE b[i - Len(a)]
      BY <2>1, <2>2, <2>4, ConcatIs
    <3>2. Len(a) + Len(b) = n - 1 /\ Len(a) = k - 1
      BY <2>1, <2>2, <2>3
    <3> QED BY <3>1, <3>2
  <2>6. ASSUME NEW i \in 1 .. (n - 1)
        PROVE  \E j \in 1 .. n : d[i] = ops[j] /\ (j = n => i = n - 1)
    <3>1. CASE i =< k - 1
      <4>1. i \in 1 .. (k - 1) /\ i \in 1 .. n /\ i # n
        BY <2>3, <3>1
      <4> QED BY <2>1, <2>5, <3>1, <4>1
    <3>2. CASE ~(i =< k - 1)
      <4>1. i - (k - 1) \in 1 .. (n - k) /\ i - (k - 1) + k = i + 1
        BY <2>3, <3>2
      <4>2. i + 1 \in 1 .. n /\ (i + 1 = n => i = n - 1)
        BY <2>3
      <4> QED BY <2>2, <2>5, <3>2, <4>1, <4>2
    <3> QED BY <3>1, <3>2
  <2>7. /\ Len(d) =< n
        /\ \A i \in DOMAIN d : \E j \in DOMAIN ops : d[i] = ops[j] /\ (j = n => i = Len(d))
    <3>1. n - 1 =< n /\ Len(d) = n - 1 /\ DOMAIN d = 1 .. (n - 1)
      BY <2>3, <2>5
    <3> QED BY <2>3, <2>6, <3>1
  <2> QED BY <2>5, <2>7 DEF n
<1>2. ASSUME d = [ops EXCEPT ![k] = <<"half", 0>>]
      PROVE  /\ d \in Seq(Ops) /\ Len(d) =< Len(ops)
             /\ \A i \in DOMAIN d :
                  \/ d[i] = <<"half", 0>>
                  \/ \E j \in DOMAIN ops : d[i] = ops[j] /\ (j = Len(ops) => i = Len(d))
  <2>1. <<"half", 0>> \in Ops
    BY Numbers DEF Ops, Kinds
  <2> QED BY <1>2, <2>1
<1> QED BY <1>1, <1>2 DEF Damaged

LEMMA SendingIs ==
    ASSUME NEW ops \in Seq(Ops), NEW s \in Sendings(ops)
    PROVE  \/ s[1] = ops /\ s[2] = 0
           \/ s[2] = 1 /\ \E k \in 1 .. Len(ops) : s[1] \in Damaged(ops, k)
BY DEF Sendings


-----------------------------------------------------------------------------
(* Times *)

LEMMA GapIs ==
    ASSUME TypeOK
    PROVE  Gap \in Nat /\ Gap >= BusyTicks /\ (Half => Gap >= IbTicks)
           /\ (Gap = BusyTicks \/ (Half /\ Gap = IbTicks))
BY Numbers DEF Gap

LEMMA TimesAre ==
    ASSUME TypeOK, ClockInv
    PROVE  /\ Silent \in Int /\ Working \in Nat /\ Answering \in Nat
           /\ Clean => Silent = 0 /\ Working = 0 /\ Answering = 0
           /\ ~Clean => Silent > 0 /\ Working > 0 /\ Answering > 0
<1> USE Numbers
<1>1. faults * BusyTicks \in Nat /\ Len(rxFifo) * BusyTicks \in Nat
  <2>1. faults \in Nat /\ Len(rxFifo) \in Nat
    BY DEF TypeOK
  <2> QED BY <2>1
<1>2. (faults - 1) * BusyTicks = faults * BusyTicks - BusyTicks
  BY DEF TypeOK
<1>3. Dropping => clock =< IbTicks /\ clock \in Nat
  BY DEF ClockInv, Dropping, TypeOK
<1>4. clock \in Nat
  BY DEF TypeOK
<1>5. Clean => Silent = 0 /\ Working = 0 /\ Answering = 0
  BY DEF Silent, Working, Answering
<1>6. ~Clean => Silent > 0 /\ Silent \in Int
  BY <1>1, <1>2, <1>3, <1>4, GapIs DEF Silent
<1>7. ~Clean => Working > 0 /\ Working \in Nat
  BY <1>1, <1>3, <1>4 DEF Working
<1>8. ~Clean => Answering > 0 /\ Answering \in Nat
  BY <1>3, <1>4 DEF Answering
<1> QED BY <1>5, <1>6, <1>7, <1>8

LEMMA SameTimes ==
    ASSUME UNCHANGED <<engVars, faults>>
    PROVE  /\ Silent' = Silent /\ Working' = Working /\ Answering' = Answering
           /\ Clean' = Clean /\ Half' = Half
BY DEF engVars, Silent, Working, Answering, Gap, Half, Clean, Dropping

LEMMA CleanThen ==
    ASSUME Clean'
    PROVE  Silent' = 0 /\ Working' = 0 /\ Answering' = 0
BY DEF Silent, Working, Answering

LEMMA QuietIsEnough ==
    ASSUME InTime, TypeOK, FaultInv, ClockInv
    PROVE  Silent =< QuietTicks
<1> USE Numbers
<1> DEFINE F == faults * BusyTicks
           M == MaxFaults * BusyTicks
<1>1. F \in Nat /\ M \in Nat /\ F =< M /\ (faults < MaxFaults => F =< M - BusyTicks)
  <2>1. faults \in Nat /\ faults =< MaxFaults
    BY DEF TypeOK
  <2>2. F =< M
    BY <2>1
  <2>3. faults < MaxFaults => faults * BusyTicks =< (MaxFaults - 1) * BusyTicks
    BY <2>1
  <2>4. (MaxFaults - 1) * BusyTicks = M - BusyTicks
    OBVIOUS
  <2> QED BY <2>1, <2>2, <2>3, <2>4
<1>2. M + BusyTicks < QuietTicks /\ (MaxFaults > 0 => M - BusyTicks + IbTicks < QuietTicks)
  BY DEF InTime
<1>3. (faults - 1) * BusyTicks = F - BusyTicks
  BY DEF TypeOK
<1>4. clock \in Nat /\ (eng = "busy" => clock =< BusyTicks)
  BY DEF TypeOK, ClockInv
<1>5. Half => F =< M - BusyTicks /\ MaxFaults > 0
  BY <1>1 DEF FaultInv, TypeOK
<1> HIDE DEF F, M
<1>6. F + Gap + 1 =< QuietTicks
  BY <1>1, <1>2, <1>5, GapIs
<1>7. Dropping => IbTicks - clock + 1 =< QuietTicks
  <2>1. Dropping => Half
    BY DEF Dropping, Half
  <2> QED BY <1>1, <1>2, <1>4, <1>5, <2>1
<1>8. eng = "busy" => clock + (F - BusyTicks) + Gap + 1 =< QuietTicks
  BY <1>1, <1>4, <1>6, GapIs
<1> QED BY <1>3, <1>6, <1>7, <1>8 DEF Silent, F

LEMMA LimitIsEnough ==
    ASSUME InTime, TypeOK, ClockInv, NEW seg \in Segments, Len(rxFifo) =< Len(seg)
    PROVE  Working =< LimitTicks
<1> USE Numbers
<1>1. Len(seg) \in Nat /\ Len(rxFifo) \in Nat /\ clock \in Nat
  BY SegmentsAssumption DEF TypeOK
<1>2. Len(rxFifo) * BusyTicks =< Len(seg) * BusyTicks
  BY <1>1
<1>3. (Len(seg) + 1) * BusyTicks = Len(seg) * BusyTicks + BusyTicks
  BY <1>1
<1>4. Len(rxFifo) * BusyTicks \in Nat /\ Len(seg) * BusyTicks \in Nat
  BY <1>1
<1>5. Len(seg) * BusyTicks + BusyTicks + IbTicks < LimitTicks
  BY <1>3 DEF InTime
<1>6. eng = "busy" => clock =< BusyTicks
  BY DEF ClockInv
<1> QED BY <1>1, <1>2, <1>4, <1>5, <1>6 DEF Working

LEMMA GapShrinks ==
    ASSUME TypeOK, Half' => Half
    PROVE  Gap' =< Gap /\ Gap' \in Nat /\ Gap' >= BusyTicks /\ (Half' => Gap' >= IbTicks)
BY Numbers DEF Gap

-----------------------------------------------------------------------------
(* What the host sends *)

\* Of a segment that ends with its marker nothing but operations that lost bytes
\* and operations of the segment arrive, the marker last if at all.
LEMMA SegmentArrives ==
    ASSUME NEW seg \in Segments, NEW id \in 0 .. MaxRuns,
           NEW s \in Sendings([k \in 1 .. Len(seg) |-> <<seg[k], id>>])
    PROVE  /\ s[1] \in Seq(Ops) /\ Len(s[1]) =< Len(seg) /\ s[2] \in {0, 1}
           /\ \A i \in DOMAIN s[1] :
                /\ s[1][i][1] = "m" => i = Len(s[1])
                /\ s[1][i][1] # "pattern"
                /\ s[1][i][1] = "half" => s[2] = 1
<1> DEFINE ops == [k \in 1 .. Len(seg) |-> <<seg[k], id>>]
           n == Len(seg)
<1>1. /\ n \in Nat /\ DOMAIN seg = 1 .. n
      /\ \A k \in 1 .. n : seg[k] \in {"q", "r", "m"} /\ (seg[k] = "m" <=> k = n)
  BY SegmentsAssumption
<1>2. ops \in Seq(Ops) /\ Len(ops) = n /\ DOMAIN ops = 1 .. n
  <2>1. \A k \in 1 .. n : <<seg[k], id>> \in Ops
    BY <1>1 DEF Ops, Kinds
  <2> HIDE DEF n
  <2>2. [k \in 1 .. n |-> <<seg[k], id>>] \in Seq(Ops) /\ Len([k \in 1 .. n |-> <<seg[k], id>>]) = n
    BY <1>1, <2>1
  <2> QED BY <1>1, <2>2 DEF n
<1>3. \A j \in 1 .. n : /\ ops[j][1] \in {"q", "r", "m"}
                        /\ ops[j][1] = "m" <=> j = n
  BY <1>1
<1>4. (s[1] = ops /\ s[2] = 0) \/ (s[2] = 1 /\ \E k \in 1 .. Len(ops) : s[1] \in Damaged(ops, k))
  BY <1>2, SendingIs
<1> HIDE DEF ops, n
<1>5. CASE s[1] = ops /\ s[2] = 0
  <2>1. \A i \in DOMAIN ops : /\ ops[i][1] = "m" => i = Len(ops)
                             /\ ops[i][1] \notin {"pattern", "half"}
    BY <1>2, <1>3
  <2>2. ops \in Seq(Ops) /\ Len(ops) =< n
    BY <1>1, <1>2
  <2> QED BY <1>5, <2>1, <2>2 DEF n
<1>6. CASE s[2] = 1 /\ \E k \in 1 .. Len(ops) : s[1] \in Damaged(ops, k)
  <2>1. /\ s[1] \in Seq(Ops) /\ Len(s[1]) =< Len(ops)
        /\ \A i \in DOMAIN s[1] :
             \/ s[1][i] = <<"half", 0>>
             \/ \E j \in DOMAIN ops : s[1][i] = ops[j] /\ (j = Len(ops) => i = Len(s[1]))
    BY <1>2, <1>6, DamagedIs
  <2>2. ASSUME NEW i \in DOMAIN s[1]
        PROVE  (s[1][i][1] = "m" => i = Len(s[1])) /\ s[1][i][1] # "pattern"
    <3>1. CASE s[1][i] = <<"half", 0>>
      BY <3>1
    <3>2. CASE \E j \in DOMAIN ops : s[1][i] = ops[j] /\ (j = Len(ops) => i = Len(s[1]))
      BY <1>2, <1>3, <3>2
    <3> QED BY <2>1, <3>1, <3>2
  <2> QED BY <1>2, <1>6, <2>1, <2>2 DEF n
<1> QED BY <1>4, <1>5, <1>6

LEMMA PatternArrives ==
    ASSUME NEW s \in Sendings(<<Pattern>>)
    PROVE  /\ \/ s[1] = <<Pattern>> /\ s[2] = 0
              \/ s[1] = << <<"half", 0>> >> /\ s[2] = 1
              \/ s[1] = <<>> /\ s[2] = 1
           /\ s[1] \in Seq(Ops)
           /\ \A i \in DOMAIN s[1] : i = Len(s[1]) /\ s[1][i][1] # "m"
           /\ \A i \in DOMAIN s[1] : s[1][i][1] = "half" => s[1] = << <<"half", 0>> >>
<1> DEFINE ops == <<Pattern>>
<1>1. Pattern \in Ops /\ <<"half", 0>> \in Ops
  BY Numbers DEF Pattern, Ops, Kinds
<1>2. ops \in Seq(Ops) /\ Len(ops) = 1 /\ 1 .. Len(ops) = {1}
  BY <1>1
<1>3. (s[1] = ops /\ s[2] = 0) \/ (s[2] = 1 /\ \E k \in 1 .. Len(ops) : s[1] \in Damaged(ops, k))
  BY <1>2, SendingIs
<1>4. Damaged(ops, 1) = {<<>>, << <<"half", 0>> >>}
  <2>1. SubSeq(ops, 1, 1 - 1) \o SubSeq(ops, 1 + 1, Len(ops)) = <<>>
    OBVIOUS
  <2>2. [ops EXCEPT ![1] = <<"half", 0>>] = << <<"half", 0>> >>
    OBVIOUS
  <2> QED BY <2>1, <2>2 DEF Damaged
<1>5. \/ s[1] = <<Pattern>> /\ s[2] = 0
      \/ s[1] = << <<"half", 0>> >> /\ s[2] = 1
      \/ s[1] = <<>> /\ s[2] = 1
  BY <1>2, <1>3, <1>4
<1> HIDE DEF ops
<1>6. CASE s[1] = <<Pattern>>
  BY <1>1, <1>5, <1>6 DEF Pattern
<1>7. CASE s[1] = << <<"half", 0>> >>
  BY <1>1, <1>5, <1>7
<1>8. CASE s[1] = <<>>
  BY <1>5, <1>8
<1> QED BY <1>5, <1>6, <1>7, <1>8

-----------------------------------------------------------------------------
(* The steps of the host *)

LEMMA HostOnly ==
    ASSUME TypeOK, FaultInv, ClockInv, OrderInv, UNCHANGED <<engVars, faults>>,
           up' = up \/ up' = <<>> \/ (up # <<>> /\ up' = Tail(up))
    PROVE  FaultInv' /\ ClockInv' /\ OrderInv' /\ up' \in Seq(Kinds \X (0 .. MaxRuns))
<1> USE DEF engVars
<1>1. FaultInv' /\ ClockInv'
  BY SameTimes DEF FaultInv, ClockInv
<1>2. up' \in Seq(Kinds \X (0 .. MaxRuns))
  <2>1. up \in Seq(Ops) /\ Ops = Kinds \X (0 .. MaxRuns)
    BY DEF TypeOK, Ops
  <2>2. up # <<>> => Tail(up) \in Seq(Ops)
    BY <2>1, TailIs
  <2>3. <<>> \in Seq(Ops)
    OBVIOUS
  <2> QED BY <2>1, <2>2, <2>3
<1>3. ASSUME NEW i \in DOMAIN up', up'[i][1] = "m"
      PROVE  i = Len(up') /\ Clean'
  <2>1. CASE up' = up
    BY <1>3, <2>1 DEF OrderInv, Clean
  <2>2. CASE up' = <<>>
    BY <1>3, <2>2
  <2>3. CASE up # <<>> /\ up' = Tail(up)
    <3>1. i + 1 \in DOMAIN up /\ Tail(up)[i] = up[i + 1] /\ Len(Tail(up)) = Len(up) - 1
          /\ Len(up) \in Nat /\ i \in Nat
      BY <1>3, <2>3, TailIs DEF TypeOK, Ops
    <3>2. i + 1 = Len(up) /\ Clean
      BY <1>3, <2>3, <3>1 DEF OrderInv
    <3>3. Clean'
      BY <3>2, SameTimes
    <3>4. i = Len(Tail(up))
      BY <3>1, <3>2
    <3> QED BY <2>3, <3>3, <3>4
  <2> QED BY <2>1, <2>2, <2>3
<1>4. OrderInv'
  BY <1>3 DEF OrderInv
<1> QED BY <1>1, <1>2, <1>4

LEMMA ResyncBegins ==
    ASSUME InTime, TypeOK, FaultInv, ClockInv, RestInv, pc = "run",
           UNCHANGED <<engVars, faults>>,
           pc' = "drain", quiet' = QuietTicks, timer' = LimitTicks
    PROVE  TimeInv'
<1>1. PICK seg \in Segments : Len(rxFifo) =< Len(seg)
  BY DEF RestInv
<1>2. Silent =< QuietTicks /\ Working =< LimitTicks
  BY <1>1, QuietIsEnough, LimitIsEnough
<1>3. LimitTicks > 0
  <2>1. Len(seg) \in Nat /\ (Len(seg) + 1) * BusyTicks + IbTicks < LimitTicks
    BY <1>1, SegmentsAssumption DEF InTime
  <2>2. (Len(seg) + 1) * BusyTicks \in Nat
    BY <2>1, Numbers
  <2> QED BY <2>1, <2>2, Numbers
<1>4. Silent \in Int /\ Working \in Int
  BY TimesAre
<1> QED BY <1>2, <1>3, <1>4, SameTimes, Numbers DEF TimeInv


LEMMA RunStep ==
    ASSUME InTime, IndInv, Run
    PROVE  IndInv'
<1> USE Numbers DEF IndInv, Run
<1> HIDE DEF Run
<1>v. /\ pc \in {"idle", "insync", "lost"} /\ pc' = "run" /\ timer' = RunTicks
      /\ runs < MaxRuns /\ runs' = runs + 1
      /\ Clean /\ up = <<>> /\ runs \in 0 .. MaxRuns
      /\ UNCHANGED <<quiet, attempt, eng, current, clock, up, swallowed>>
  BY DEF Run, RestInv, TypeOK
<1>p. PICK seg \in Segments :
        /\ Transmit([k \in 1 .. Len(seg) |-> <<seg[k], runs + 1>>])
        /\ need' = Cardinality({k \in DOMAIN seg : seg[k] # "q"})
  BY DEF Run
<1>i. runs + 1 \in 0 .. MaxRuns
  BY <1>v
<1>q. PICK s \in Sendings([k \in 1 .. Len(seg) |-> <<seg[k], runs + 1>>]) :
        s[2] =< faults /\ faults' = faults - s[2] /\ rxFifo' = rxFifo \o s[1]
  BY <1>p DEF Transmit
<1>a. /\ s[1] \in Seq(Ops) /\ Len(s[1]) =< Len(seg) /\ s[2] \in {0, 1}
      /\ \A i \in DOMAIN s[1] :
           /\ s[1][i][1] = "m" => i = Len(s[1])
           /\ s[1][i][1] # "pattern"
           /\ s[1][i][1] = "half" => s[2] = 1
  BY <1>i, SegmentArrives
<1>c. rxFifo' = s[1]
  BY <1>v, <1>q, <1>a DEF Clean
<1>f. faults' \in 0 .. MaxFaults /\ (s[2] = 1 => faults' < MaxFaults)
  BY <1>q, <1>a DEF TypeOK
<1>n. need' \in Nat /\ need' > 0
  <2> DEFINE A == {k \in DOMAIN seg : seg[k] # "q"}
  <2>1. Len(seg) \in Nat /\ Len(seg) > 0 /\ DOMAIN seg = 1 .. Len(seg)
    BY SegmentsAssumption
  <2>2. IsFiniteSet(1 .. Len(seg)) /\ A \subseteq 1 .. Len(seg)
    BY <2>1, FS_Interval
  <2>3. IsFiniteSet(A)
    BY <2>2, FS_Subset
  <2>4. Len(seg) \in A
    BY <2>1, SegmentsAssumption
  <2> HIDE DEF A
  <2>5. Cardinality(A) \in Nat /\ Cardinality(A) # 0
    BY <2>3, <2>4, FS_CardinalityType, FS_EmptySet
  <2> QED BY <1>p, <2>5 DEF A
<1>1. TypeOK'
  <2>1. rxFifo' \in Seq(Kinds \X (0 .. MaxRuns))
    BY <1>a, <1>c DEF Ops
  <2> QED BY <1>v, <1>i, <1>f, <1>n, <2>1 DEF TypeOK
<1>2. FaultInv'
  BY <1>v, <1>a, <1>c, <1>f DEF FaultInv, Half, Clean
<1>3. ClockInv'
  BY <1>v DEF ClockInv
<1>4. OrderInv'
  BY <1>v, <1>a, <1>c DEF OrderInv, Clean
<1>5. PatternInv'
  BY <1>v, <1>a, <1>c DEF PatternInv
<1>6. RestInv'
  BY <1>v, <1>a, <1>c, <1>n DEF RestInv
<1>7. TimeInv'
  BY <1>v DEF TimeInv
<1> QED BY <1>1, <1>2, <1>3, <1>4, <1>5, <1>6, <1>7

LEMMA RunReadStep ==
    ASSUME InTime, IndInv, RunRead
    PROVE  IndInv'
<1> USE Numbers DEF IndInv, RunRead, StartResync, StartAttempt
<1>h. FaultInv' /\ ClockInv' /\ OrderInv' /\ up' \in Seq(Kinds \X (0 .. MaxRuns))
  BY HostOnly
<1>a. need = 1 /\ Head(up) = <<"m", runs>> => up' = <<>> /\ Clean
  <2> SUFFICES ASSUME need = 1, Head(up) = <<"m", runs>> PROVE up' = <<>> /\ Clean
    OBVIOUS
  <2>1. up \in Seq(Ops) /\ up # <<>>
    BY DEF TypeOK, Ops
  <2>2. 1 \in DOMAIN up /\ up[1] = Head(up) /\ up[1][1] = "m"
    BY <2>1, TailIs
  <2>3. Len(up) = 1 /\ Clean
    BY <2>2 DEF OrderInv
  <2>4. Tail(up) \in Seq(Ops) /\ Len(Tail(up)) = 0
    BY <2>1, <2>3, TailIs
  <2> QED BY <2>3, <2>4
<1>b. need \in Nat /\ need > 0
  BY DEF TypeOK, RestInv
<1>1. TypeOK'
  <2>1. need' \in Nat /\ timer' \in Nat /\ quiet' \in 0 .. QuietTicks /\ attempt' \in 0 .. Attempts
    BY <1>b DEF TypeOK
  <2>2. pc' \in {"run", "idle", "drain"}
    OBVIOUS
  <2> QED BY <1>h, <2>1, <2>2 DEF TypeOK, engVars
<1>2. FaultInv'
  BY <1>h
<1>3. ClockInv'
  BY <1>h
<1>4. OrderInv'
  BY <1>h
<1>5. PatternInv'
  BY DEF PatternInv, Clean, engVars
<1>6. RestInv'
  BY <1>a, <1>b DEF RestInv, Clean, engVars
<1>7. TimeInv'
  <2>1. CASE pc' = "drain"
    BY <2>1, ResyncBegins
  <2>2. CASE pc' # "drain"
    BY <2>2 DEF TimeInv
  <2> QED BY <2>1, <2>2
<1> QED BY <1>1, <1>2, <1>3, <1>4, <1>5, <1>6, <1>7

LEMMA RunTimeoutStep ==
    ASSUME InTime, IndInv, RunTimeout
    PROVE  IndInv'
<1> USE Numbers DEF IndInv, RunTimeout, StartResync, StartAttempt
<1>h. FaultInv' /\ ClockInv' /\ OrderInv' /\ up' \in Seq(Kinds \X (0 .. MaxRuns))
  BY HostOnly
<1>1. TypeOK'
  BY <1>h DEF TypeOK, engVars
<1>2. FaultInv'
  BY <1>h
<1>3. ClockInv'
  BY <1>h
<1>4. OrderInv'
  BY <1>h
<1>5. PatternInv'
  BY DEF PatternInv, Clean, engVars
<1>6. RestInv'
  BY DEF RestInv, Clean, engVars
<1>7. TimeInv'
  BY ResyncBegins
<1> QED BY <1>1, <1>2, <1>3, <1>4, <1>5, <1>6, <1>7

LEMMA KillStep ==
    ASSUME InTime, IndInv, Kill
    PROVE  IndInv'
<1> USE Numbers DEF IndInv, Kill, StartResync, StartAttempt
<1>h. FaultInv' /\ ClockInv' /\ OrderInv' /\ up' \in Seq(Kinds \X (0 .. MaxRuns))
  BY HostOnly
<1>1. TypeOK'
  BY <1>h DEF TypeOK, engVars
<1>2. FaultInv'
  BY <1>h
<1>3. ClockInv'
  BY <1>h
<1>4. OrderInv'
  BY <1>h
<1>5. PatternInv'
  BY DEF PatternInv, Clean, engVars
<1>6. RestInv'
  BY DEF RestInv, Clean, engVars
<1>7. TimeInv'
  BY ResyncBegins
<1> QED BY <1>1, <1>2, <1>3, <1>4, <1>5, <1>6, <1>7

LEMMA DrainReadStep ==
    ASSUME InTime, IndInv, DrainRead
    PROVE  IndInv'
<1> USE Numbers DEF IndInv, DrainRead
<1>h. FaultInv' /\ ClockInv' /\ OrderInv' /\ up' \in Seq(Kinds \X (0 .. MaxRuns))
  BY HostOnly
<1>1. TypeOK'
  BY <1>h DEF TypeOK, engVars
<1>2. FaultInv'
  BY <1>h
<1>3. ClockInv'
  BY <1>h
<1>4. OrderInv'
  BY <1>h
<1>5. PatternInv'
  BY DEF PatternInv, Clean, engVars
<1>6. RestInv'
  BY DEF RestInv, Clean, engVars
<1>7. TimeInv'
  <2>1. Silent =< QuietTicks /\ Silent \in Int
    BY QuietIsEnough, TimesAre
  <2> QED BY <2>1, SameTimes DEF TimeInv
<1> QED BY <1>1, <1>2, <1>3, <1>4, <1>5, <1>6, <1>7

LEMMA DrainEndStep ==
    ASSUME InTime, IndInv, DrainEnd
    PROVE  IndInv'
<1> USE Numbers DEF IndInv, DrainEnd
<1>h. FaultInv' /\ ClockInv' /\ OrderInv' /\ up' \in Seq(Kinds \X (0 .. MaxRuns))
  BY HostOnly
<1>a. Clean /\ up = <<>>
  <2>1. CASE timer = 0
    <3>1. Working =< 0 /\ up = <<>>
      BY <2>1 DEF TimeInv
    <3> QED BY <3>1, TimesAre
  <2>2. CASE timer > 0
    <3>1. Silent =< 0
      BY <2>2 DEF TimeInv
    <3> QED BY <2>2, <3>1, TimesAre
  <2> QED BY <2>1, <2>2 DEF TypeOK
<1>1. TypeOK'
  BY <1>h DEF TypeOK, engVars
<1>2. FaultInv'
  BY <1>h
<1>3. ClockInv'
  BY <1>h
<1>4. OrderInv'
  BY <1>h
<1>5. PatternInv'
  BY DEF PatternInv, Clean, engVars
<1>6. RestInv'
  BY <1>a DEF RestInv, Clean, engVars
<1>7. TimeInv'
  BY DEF TimeInv
<1> QED BY <1>1, <1>2, <1>3, <1>4, <1>5, <1>6, <1>7

LEMMA WritePatternStep ==
    ASSUME InTime, IndInv, WritePattern
    PROVE  IndInv'
<1> USE Numbers DEF IndInv, WritePattern
<1> HIDE DEF WritePattern
<1>v. /\ pc = "write" /\ pc' = "read" /\ timer' = ReadTicks /\ Clean /\ up = <<>>
      /\ UNCHANGED <<runs, need, quiet, attempt, eng, current, clock, up, swallowed>>
  BY DEF WritePattern, RestInv
<1>p. PICK s \in Sendings(<<Pattern>>) :
         s[2] =< faults /\ faults' = faults - s[2] /\ rxFifo' = rxFifo \o s[1]
  BY DEF WritePattern, Transmit, Pattern
<1>a. /\ \/ s[1] = <<Pattern>> /\ s[2] = 0
         \/ s[1] = << <<"half", 0>> >> /\ s[2] = 1
         \/ s[1] = <<>> /\ s[2] = 1
      /\ s[1] \in Seq(Ops)
      /\ \A i \in DOMAIN s[1] : i = Len(s[1]) /\ s[1][i][1] # "m"
      /\ \A i \in DOMAIN s[1] : s[1][i][1] = "half" => s[1] = << <<"half", 0>> >>
  BY PatternArrives
<1>c. rxFifo' = s[1]
  <2>1. rxFifo = <<>> /\ s[1] \in Seq(Ops)
    BY <1>v, <1>a DEF Clean
  <2> QED BY <1>p, <2>1
<1>f. faults' \in 0 .. MaxFaults /\ (s[2] = 1 => faults' < MaxFaults)
  <2>1. faults \in 0 .. MaxFaults /\ (s[2] = 0 \/ s[2] = 1)
    BY <1>a DEF TypeOK
  <2> QED BY <1>p, <2>1
<1>d. rxFifo' = << <<"half", 0>> >> => faults' < MaxFaults
  <2>1. ASSUME s[1] = << <<"half", 0>> >> PROVE s[1] # <<Pattern>>
    BY <2>1 DEF Pattern
  <2> QED BY <1>a, <1>c, <1>f, <2>1
<1>1. TypeOK'
  <2>1. rxFifo' \in Seq(Kinds \X (0 .. MaxRuns))
    BY <1>a, <1>c DEF Ops
  <2> QED BY <1>v, <1>f, <2>1 DEF TypeOK
<1>2. FaultInv'
  <2>1. Half' => rxFifo' = << <<"half", 0>> >>
    BY <1>v, <1>a, <1>c DEF Half, Clean
  <2> QED BY <1>d, <2>1 DEF FaultInv
<1>3. ClockInv'
  BY <1>v DEF ClockInv
<1>4. OrderInv'
  BY <1>v, <1>a, <1>c DEF OrderInv, Clean
<1>5. PatternInv'
  BY <1>v, <1>a, <1>c DEF PatternInv, Clean
<1>6. RestInv'
  BY <1>v DEF RestInv
<1>7. TimeInv'
  <2>1. IbTicks + 1 =< ReadTicks
    BY DEF InTime
  <2>2. Answering' = 0 \/ Answering' = IbTicks + 1
    BY <1>v DEF Answering, Clean, Dropping
  <2> QED BY <1>v, <2>1, <2>2 DEF TimeInv
<1> QED BY <1>1, <1>2, <1>3, <1>4, <1>5, <1>6, <1>7

LEMMA ReadPatternStep ==
    ASSUME InTime, IndInv, ReadPattern
    PROVE  IndInv'
<1> USE Numbers DEF IndInv, ReadPattern, AttemptFailed, StartAttempt
<1>h. FaultInv' /\ ClockInv' /\ OrderInv' /\ up' \in Seq(Kinds \X (0 .. MaxRuns))
  BY HostOnly
<1>a. up = <<Pattern>> /\ Clean
  BY DEF PatternInv
<1>b. Head(up)[1] = "pattern" /\ up' = <<>>
  BY <1>a DEF Pattern
<1>1. TypeOK'
  BY <1>b, <1>h DEF TypeOK, engVars
<1>2. FaultInv'
  BY <1>h
<1>3. ClockInv'
  BY <1>h
<1>4. OrderInv'
  BY <1>h
<1>5. PatternInv'
  BY <1>a, <1>b DEF PatternInv, Clean, engVars, Pattern
<1>6. RestInv'
  BY <1>a, <1>b DEF RestInv, Clean, engVars
<1>7. TimeInv'
  BY <1>b DEF TimeInv
<1> QED BY <1>1, <1>2, <1>3, <1>4, <1>5, <1>6, <1>7

LEMMA ReadTimeoutStep ==
    ASSUME InTime, IndInv, ReadTimeout
    PROVE  IndInv'
<1> USE Numbers DEF IndInv, ReadTimeout, AttemptFailed, StartAttempt
<1>h. FaultInv' /\ ClockInv' /\ OrderInv' /\ up' \in Seq(Kinds \X (0 .. MaxRuns))
  BY HostOnly
<1>a. Clean
  BY TimesAre DEF TimeInv
<1>1. TypeOK'
  BY <1>h DEF TypeOK, engVars
<1>2. FaultInv'
  BY <1>h
<1>3. ClockInv'
  BY <1>h
<1>4. OrderInv'
  BY <1>h
<1>5. PatternInv'
  BY <1>a DEF PatternInv, Clean, engVars
<1>6. RestInv'
  BY <1>a DEF RestInv, Clean, engVars
<1>7. TimeInv'
  <2>1. Clean' /\ up' = <<>> /\ Silent' = 0 /\ Working' = 0
    BY <1>a, SameTimes, TimesAre
  <2> QED BY <2>1 DEF TimeInv
<1> QED BY <1>1, <1>2, <1>3, <1>4, <1>5, <1>6, <1>7

-----------------------------------------------------------------------------
(* The steps of the engine *)

LEMMA FetchStep ==
    ASSUME InTime, IndInv, Fetch
    PROVE  IndInv'
<1> USE Numbers DEF IndInv, Fetch
<1> HIDE DEF Fetch
<1>f. /\ rxFifo \in Seq(Ops) /\ Ops = Kinds \X (0 .. MaxRuns)
      /\ Head(rxFifo) = rxFifo[1] /\ Head(rxFifo) \in Ops /\ 1 \in DOMAIN rxFifo
      /\ Len(rxFifo) \in Nat /\ Len(rxFifo) > 0
      /\ rxFifo' \in Seq(Ops) /\ Len(rxFifo') = Len(rxFifo) - 1
      /\ \A i \in DOMAIN rxFifo' : i + 1 \in DOMAIN rxFifo /\ rxFifo'[i] = rxFifo[i + 1]
                                   /\ i \in Nat
  <2>1. rxFifo \in Seq(Ops) /\ Ops = Kinds \X (0 .. MaxRuns)
    BY DEF TypeOK, Ops
  <2>2. rxFifo # <<>> /\ rxFifo' = Tail(rxFifo)
    BY DEF Fetch
  <2>3. \A i \in DOMAIN Tail(rxFifo) : i \in Nat
    BY <2>1, <2>2
  <2> QED BY <2>1, <2>2, <2>3, TailIs
<1>m. \A i \in DOMAIN rxFifo' : rxFifo'[i][1] = "m" => i = Len(rxFifo')
  <2> SUFFICES ASSUME NEW i \in DOMAIN rxFifo', rxFifo'[i][1] = "m" PROVE i = Len(rxFifo')
    OBVIOUS
  <2>1. i + 1 = Len(rxFifo) /\ i \in Nat
    BY <1>f DEF OrderInv
  <2> QED BY <1>f, <2>1
<1>k. \A i \in DOMAIN rxFifo' : \E j \in DOMAIN rxFifo : rxFifo'[i] = rxFifo[j]
  BY <1>f
<1>v. /\ UNCHANGED <<pc, runs, need, timer, quiet, attempt, up, faults, swallowed>>
      /\ eng = "fetch" /\ ~Clean /\ ~Dropping /\ pc \notin {"idle", "insync", "lost", "write"}
      /\ current' = rxFifo[1]
  BY <1>f DEF Fetch, hostVars, Clean, Dropping, RestInv
<1>u. \/ rxFifo[1][1] = "half" /\ eng' = "args" /\ clock' = 0
      \/ rxFifo[1][1] = "r" /\ eng' = "busy" /\ clock' \in 0 .. BusyTicks
      \/ rxFifo[1][1] \notin {"half", "r"} /\ eng' = "busy" /\ clock' = 0
  BY <1>f DEF Fetch
<1>g. Half' => Half
  <2>1. eng' = "args" => Half
    BY <1>f, <1>u DEF Half
  <2>2. (\E i \in DOMAIN rxFifo' : rxFifo'[i][1] = "half") => Half
    BY <1>k DEF Half
  <2> QED BY <2>1, <2>2 DEF Half
<1>1. TypeOK'
  <2>1. clock' \in Nat /\ eng' \in {"args", "busy"}
    BY <1>u
  <2> QED BY <1>f, <1>v, <2>1 DEF TypeOK
<1>2. FaultInv'
  BY <1>g, <1>v DEF FaultInv
<1>3. ClockInv'
  BY <1>u, <1>v DEF ClockInv
<1>4. OrderInv'
  <2>1. \A i \in DOMAIN up : up[i][1] # "m"
    BY <1>v DEF OrderInv
  <2>2. ASSUME current'[1] = "m" PROVE rxFifo' = <<>>
    <3>1. Len(rxFifo) = 1
      BY <1>f, <1>v, <2>2 DEF OrderInv
    <3> QED BY <1>f, <3>1
  <2> QED BY <1>m, <1>v, <2>1, <2>2 DEF OrderInv
<1>5. PatternInv'
  <2>1. CASE pc = "read"
    <3>1. up = <<>> /\ Len(rxFifo) = 1 /\ (rxFifo[1] = Pattern \/ rxFifo[1] = <<"half", 0>>)
      BY <1>v, <2>1 DEF PatternInv
    <3>2. rxFifo' = <<>>
      BY <1>f, <3>1
    <3> QED BY <1>u, <1>v, <2>1, <3>1, <3>2 DEF PatternInv, Pattern
  <2>2. CASE pc # "read"
    BY <1>k, <1>v, <2>2 DEF PatternInv
  <2> QED BY <2>1, <2>2
<1>6. RestInv'
  <2>1. ASSUME pc = "run" PROVE \E seg \in Segments : Len(rxFifo') =< Len(seg)
    <3>1. PICK seg \in Segments : Len(rxFifo) =< Len(seg)
      BY <2>1 DEF RestInv
    <3>2. Len(seg) \in Nat
      BY <3>1, SegmentsAssumption
    <3> QED BY <1>f, <3>1, <3>2
  <2> QED BY <1>v, <2>1 DEF RestInv
<1>7. TimeInv'
  <2> DEFINE F == faults * BusyTicks
             L == Len(rxFifo) * BusyTicks
  <2>1. F \in Nat /\ L \in Nat /\ (faults - 1) * BusyTicks = F - BusyTicks
        /\ Len(rxFifo') * BusyTicks = L - BusyTicks /\ L - BusyTicks >= 0
    <3>1. faults \in Nat
      BY DEF TypeOK
    <3>2. (Len(rxFifo) - 1) * BusyTicks = L - BusyTicks /\ (Len(rxFifo) - 1) * BusyTicks \in Nat
      BY <1>f
    <3> QED BY <1>f, <3>1, <3>2
  <2>2. Silent = F + Gap + 1 /\ Working = L + IbTicks + 1 /\ Answering = IbTicks + 1
    BY <1>v DEF Silent, Working, Answering
  <2>3. Gap' =< Gap /\ Gap \in Nat /\ Gap' \in Nat /\ (eng' = "args" => Gap >= IbTicks)
    <3>1. eng' = "args" => Half
      BY <1>f, <1>u DEF Half
    <3> QED BY <1>g, <3>1, GapShrinks, GapIs
  <2>4. \/ eng' = "args" /\ Silent' = IbTicks + 1
        \/ Silent' = clock' + (F - BusyTicks) + Gap' + 1 /\ clock' \in 0 .. BusyTicks
        \/ Silent' = F + Gap' + 1
    BY <1>u, <1>v, <2>1 DEF Silent, Clean, Dropping
  <2>5. \/ Working' = IbTicks + 1
        \/ Working' = clock' + (L - BusyTicks) + IbTicks + 1 /\ clock' \in 0 .. BusyTicks
        \/ Working' = L - BusyTicks + IbTicks + 1
    BY <1>u, <1>v, <2>1 DEF Working, Clean, Dropping
  <2>6. Answering' = IbTicks + 1
    BY <1>u, <1>v DEF Answering, Clean, Dropping
  <2> HIDE DEF F, L
  <2>7. Silent' =< Silent /\ Silent' \in Int /\ Silent \in Int
    <3>1. F \in Nat
      BY <2>1
    <3> QED BY <2>2, <2>3, <2>4, <3>1
  <2>8. Working' =< Working /\ Working' \in Int /\ Working \in Int
    BY <2>1, <2>2, <2>5
  <2>9. timer \in Nat /\ quiet \in Nat
    BY DEF TypeOK
  <2> QED BY <1>v, <2>2, <2>6, <2>7, <2>8, <2>9 DEF TimeInv
<1> QED BY <1>1, <1>2, <1>3, <1>4, <1>5, <1>6, <1>7

LEMMA SwallowStep ==
    ASSUME InTime, IndInv, Swallow
    PROVE  IndInv'
<1> USE Numbers DEF IndInv, Swallow
<1> HIDE DEF Swallow
<1>f. /\ rxFifo \in Seq(Ops) /\ Ops = Kinds \X (0 .. MaxRuns)
      /\ Head(rxFifo) = rxFifo[1] /\ Head(rxFifo) \in Ops /\ 1 \in DOMAIN rxFifo
      /\ Len(rxFifo) \in Nat /\ Len(rxFifo) > 0
      /\ rxFifo' \in Seq(Ops) /\ Len(rxFifo') = Len(rxFifo) - 1
      /\ \A i \in DOMAIN rxFifo' : i + 1 \in DOMAIN rxFifo /\ rxFifo'[i] = rxFifo[i + 1]
                                   /\ i \in Nat
  <2>1. rxFifo \in Seq(Ops) /\ Ops = Kinds \X (0 .. MaxRuns)
    BY DEF TypeOK, Ops
  <2>2. rxFifo # <<>> /\ rxFifo' = Tail(rxFifo)
    BY DEF Swallow
  <2>3. \A i \in DOMAIN Tail(rxFifo) : i \in Nat
    BY <2>1, <2>2
  <2> QED BY <2>1, <2>2, <2>3, TailIs
<1>m. \A i \in DOMAIN rxFifo' : rxFifo'[i][1] = "m" => i = Len(rxFifo')
  <2> SUFFICES ASSUME NEW i \in DOMAIN rxFifo', rxFifo'[i][1] = "m" PROVE i = Len(rxFifo')
    OBVIOUS
  <2>1. i + 1 = Len(rxFifo) /\ i \in Nat
    BY <1>f DEF OrderInv
  <2> QED BY <1>f, <2>1
<1>k. \A i \in DOMAIN rxFifo' : \E j \in DOMAIN rxFifo : rxFifo'[i] = rxFifo[j]
  BY <1>f
<1>u. /\ UNCHANGED <<hostVars, up, faults>>
      /\ eng = "args" /\ ~Clean /\ pc # "read" /\ clock' = 0
      /\ \/ eng' = "args" /\ current' = current
         \/ eng' = "busy" /\ current' \in {<<"q", 0>>, <<"r", 0>>}
  BY DEF Swallow, PatternInv, Clean
<1>v. UNCHANGED <<pc, runs, need, timer, quiet, attempt, up, faults>>
  BY <1>u DEF hostVars
<1>g. Half /\ (Half' => Half)
  BY <1>u DEF Half
<1>1. TypeOK'
  <2>1. <<"q", 0>> \in Ops /\ <<"r", 0>> \in Ops
    BY DEF Ops, Kinds
  <2>2. current' \in Kinds \X (0 .. MaxRuns) /\ eng' \in {"fetch", "args", "busy"}
    BY <1>f, <1>u, <2>1 DEF TypeOK
  <2>3. swallowed' \in BOOLEAN
    BY DEF Swallow, TypeOK
  <2> QED BY <1>f, <1>u, <1>v, <2>2, <2>3 DEF TypeOK
<1>2. FaultInv'
  BY <1>g, <1>u DEF FaultInv, Half
<1>3. ClockInv'
  BY <1>u DEF ClockInv
<1>4. OrderInv'
  <2>1. \A i \in DOMAIN up : up[i][1] # "m"
    BY <1>u DEF OrderInv
  <2>2. eng' = "busy" => current'[1] # "m"
    BY <1>u
  <2> QED BY <1>m, <1>u, <2>1, <2>2 DEF OrderInv
<1>5. PatternInv'
  <2>1. \A i \in DOMAIN rxFifo : rxFifo[i][1] # "pattern"
    BY <1>u DEF PatternInv
  <2>2. swallowed' = FALSE
    BY <1>f, <2>1 DEF Swallow, PatternInv
  <2> QED BY <1>k, <1>v, <1>u, <2>1, <2>2 DEF PatternInv
<1>6. RestInv'
  <2>1. ASSUME pc = "run" PROVE \E seg \in Segments : Len(rxFifo') =< Len(seg)
    <3>1. PICK seg \in Segments : Len(rxFifo) =< Len(seg)
      BY <2>1 DEF RestInv
    <3>2. Len(seg) \in Nat
      BY <3>1, SegmentsAssumption
    <3> QED BY <1>f, <3>1, <3>2
  <2>2. pc \notin {"idle", "insync", "lost", "write"}
    BY <1>u DEF RestInv
  <2> QED BY <1>v, <2>1, <2>2 DEF RestInv
<1>7. TimeInv'
  <2> DEFINE F == faults * BusyTicks
             L == Len(rxFifo) * BusyTicks
  <2>1. F \in Nat /\ L \in Nat /\ (faults - 1) * BusyTicks = F - BusyTicks
        /\ Len(rxFifo') * BusyTicks = L - BusyTicks /\ L - BusyTicks >= 0
    <3>1. faults \in Nat
      BY DEF TypeOK
    <3>2. (Len(rxFifo) - 1) * BusyTicks = L - BusyTicks /\ (Len(rxFifo) - 1) * BusyTicks \in Nat
      BY <1>f
    <3> QED BY <1>f, <3>1, <3>2
  <2>2. Silent = F + Gap + 1 /\ Working = L + IbTicks + 1
    BY <1>f, <1>u DEF Silent, Working, Clean, Dropping
  <2>3. Gap' =< Gap /\ Gap \in Nat /\ Gap' \in Nat /\ Gap >= IbTicks
    BY <1>g, GapShrinks, GapIs
  <2>4. Silent' \in {IbTicks + 1, F - BusyTicks + Gap' + 1, F + Gap' + 1, 0}
    BY <1>u, <1>v, <2>1 DEF Silent, Clean, Dropping
  <2>5. Working' \in {IbTicks + 1, L - BusyTicks + IbTicks + 1, 0}
    BY <1>u, <1>v, <2>1 DEF Working, Clean, Dropping
  <2> HIDE DEF F, L
  <2>6. Silent' =< Silent /\ Silent' \in Int /\ Silent \in Int
    <3>1. F \in Nat /\ Silent = F + Gap + 1 /\ BusyTicks \in Nat /\ IbTicks \in Nat
      BY <2>1, <2>2
    <3>2. Silent' = IbTicks + 1 \/ Silent' = F - BusyTicks + Gap' + 1 \/ Silent' = F + Gap' + 1
          \/ Silent' = 0
      BY <2>4
    <3> QED BY <2>3, <3>1, <3>2
  <2>8. Working' =< Working /\ Working' \in Int /\ Working \in Int
    BY <2>1, <2>2, <2>5
  <2>7. timer \in Nat /\ quiet \in Nat
    BY DEF TypeOK
  <2> QED BY <1>u, <1>v, <2>6, <2>7, <2>8 DEF TimeInv
<1> QED BY <1>1, <1>2, <1>3, <1>4, <1>5, <1>6, <1>7

LEMMA DropStep ==
    ASSUME InTime, IndInv, Drop
    PROVE  IndInv'
<1> USE Numbers DEF IndInv, Drop, hostVars
<1>1. TypeOK'
  BY DEF TypeOK
<1>2. FaultInv'
  BY DEF FaultInv, Half
<1>3. ClockInv'
  BY DEF ClockInv
<1>4. OrderInv'
  BY DEF OrderInv, Clean
<1>5. PatternInv'
  BY DEF PatternInv, Clean
<1>6. RestInv'
  BY DEF RestInv, Clean
<1>7. TimeInv'
  <2>1. Clean' /\ Silent' = 0 /\ Working' = 0 /\ Answering' = 0
    BY CleanThen DEF Clean
  <2>2. timer \in Nat /\ quiet \in Nat
    BY DEF TypeOK
  <2> QED BY <2>1, <2>2 DEF TimeInv
<1> QED BY <1>1, <1>2, <1>3, <1>4, <1>5, <1>6, <1>7

LEMMA DoneStep ==
    ASSUME InTime, IndInv, Done
    PROVE  IndInv'
<1> USE Numbers DEF IndInv, Done
<1> HIDE DEF Done
<1>u. /\ UNCHANGED <<pc, runs, need, timer, quiet, attempt, rxFifo, current, clock, swallowed>>
      /\ eng = "busy" /\ eng' = "fetch" /\ clock = 0 /\ ~Clean
      /\ pc \notin {"idle", "insync", "lost", "write"}
  BY DEF Done, hostVars, Clean, RestInv
<1>t. /\ up \in Seq(Ops) /\ current \in Ops /\ faults \in Nat /\ faults =< MaxFaults
      /\ timer \in Nat /\ quiet \in Nat /\ Ops = Kinds \X (0 .. MaxRuns)
  BY DEF TypeOK, Ops
<1>c. \/ faults' = faults /\ current[1] = "q" /\ up' = up \o <<>>
      \/ faults' = faults /\ current[1] # "q" /\ up' = up \o <<current>>
      \/ faults' = faults /\ current = <<"r", 0>> /\ up' = up \o <<current, current>>
      \/ faults' = faults - 1 /\ faults > 0 /\ up' = up
  <2>1. CASE \E reply \in Replies(current) : up' = up \o reply /\ faults' = faults
    <3>1. PICK reply \in Replies(current) : up' = up \o reply /\ faults' = faults
      BY <2>1
    <3>2. \/ current[1] = "q" /\ reply = <<>>
          \/ current[1] # "q" /\ reply = <<current>>
          \/ current = <<"r", 0>> /\ reply = <<current, current>>
      BY <3>1 DEF Replies
    <3> QED BY <3>1, <3>2
  <2>2. CASE faults' = faults - 1 /\ faults > 0 /\ up' = up
    BY <2>2
  <2> QED BY <2>1, <2>2 DEF Done
<1>n. \A i \in DOMAIN up : up[i][1] # "m"
  BY <1>u DEF OrderInv
<1>g. Half' => Half
  BY <1>u DEF Half
<1>x. ASSUME NEW b \in Seq(Ops), up' = up \o b, \A i \in DOMAIN b : b[i] = current,
             current[1] = "m" => Len(b) =< 1
      PROVE  /\ up' \in Seq(Ops)
             /\ \A i \in DOMAIN up' : up'[i][1] = "m" => i = Len(up') /\ current[1] = "m"
             /\ b # <<>> => up' # <<>>
             /\ up' = <<>> => up = <<>>
  <2>1. /\ up' \in Seq(Ops) /\ Len(up') = Len(up) + Len(b) /\ Len(up) \in Nat /\ Len(b) \in Nat
        /\ DOMAIN up' = 1 .. (Len(up) + Len(b))
        /\ \A i \in DOMAIN up' : up'[i] = IF i =< Len(up) THEN up[i] ELSE b[i - Len(up)]
        /\ DOMAIN up = 1 .. Len(up) /\ DOMAIN b = 1 .. Len(b)
    BY <1>t, <1>x, ConcatIs
  <2>2. ASSUME NEW i \in DOMAIN up', up'[i][1] = "m" PROVE i = Len(up') /\ current[1] = "m"
    <3>0. i \in 1 .. (Len(up) + Len(b))
      BY <2>1
    <3>1. i > Len(up)
      <4>1. SUFFICES ASSUME i =< Len(up) PROVE FALSE
        BY <2>1, <3>0
      <4>2. i \in DOMAIN up /\ up'[i] = up[i]
        BY <2>1, <3>0, <4>1
      <4> QED BY <1>n, <2>2, <4>2
    <3>2. i - Len(up) \in DOMAIN b /\ up'[i] = b[i - Len(up)]
      <4>1. i - Len(up) \in 1 .. Len(b)
        BY <2>1, <3>0, <3>1
      <4> QED BY <2>1, <3>0, <3>1, <4>1
    <3>3. current[1] = "m" /\ Len(b) =< 1
      BY <1>x, <2>2, <3>2
    <3> QED BY <2>1, <3>0, <3>1, <3>3
  <2>3. b # <<>> => Len(b) > 0
    BY <1>x
  <2>4. (up' = <<>> => Len(up') = 0) /\ (Len(up) = 0 => up = <<>>)
    BY <1>t
  <2> QED BY <2>1, <2>2, <2>3, <2>4
<1>r. /\ up' \in Seq(Ops)
      /\ \A i \in DOMAIN up' : up'[i][1] = "m" => i = Len(up') /\ current[1] = "m"
      /\ up' = <<>> => up = <<>>
                       /\ \/ faults' = faults /\ current[1] = "q"
                          \/ faults' = faults - 1 /\ faults > 0
  <2>1. CASE faults' = faults /\ current[1] = "q" /\ up' = up \o <<>>
    <3>1. up' = up
      BY <1>t, <2>1
    <3> QED BY <1>t, <1>n, <2>1, <3>1
  <2>2. CASE faults' = faults /\ current[1] # "q" /\ up' = up \o <<current>>
    <3> DEFINE b == <<current>>
    <3>1. b \in Seq(Ops) /\ (\A i \in DOMAIN b : b[i] = current) /\ Len(b) =< 1 /\ b # <<>>
      BY <1>t
    <3>2. up' = up \o b
      BY <2>2
    <3> HIDE DEF b
    <3> QED BY <1>x, <3>1, <3>2
  <2>3. CASE faults' = faults /\ current = <<"r", 0>> /\ up' = up \o <<current, current>>
    <3> DEFINE b == <<current, current>>
    <3>1. b \in Seq(Ops) /\ (\A i \in DOMAIN b : b[i] = current) /\ b # <<>>
      BY <1>t
    <3>2. up' = up \o b /\ current[1] # "m"
      BY <2>3
    <3> HIDE DEF b
    <3> QED BY <1>x, <3>1, <3>2
  <2>4. CASE faults' = faults - 1 /\ faults > 0 /\ up' = up
    BY <1>t, <1>n, <2>4
  <2> QED BY <1>c, <2>1, <2>2, <2>3, <2>4
<1>s. faults' \in Nat /\ faults' =< faults
  BY <1>t, <1>c
<1>1. TypeOK'
  BY <1>u, <1>t, <1>r, <1>s DEF TypeOK
<1>2. FaultInv'
  BY <1>g, <1>s, <1>t DEF FaultInv
<1>3. ClockInv'
  BY <1>u DEF ClockInv
<1>4. OrderInv'
  <2>1. current[1] = "m" => Clean'
    BY <1>u DEF OrderInv, Clean
  <2> QED BY <1>u, <1>r, <2>1 DEF OrderInv
<1>5. PatternInv'
  <2>1. CASE pc = "read"
    <3>1. up = <<>> /\ current = Pattern /\ rxFifo = <<>>
      BY <1>u, <2>1 DEF PatternInv
    <3>2. up' \in {<<>>, <<Pattern>>}
      BY <1>c, <3>1 DEF Pattern
    <3> QED BY <1>u, <2>1, <3>1, <3>2 DEF PatternInv, Clean
  <2>2. CASE pc # "read"
    BY <1>u, <2>2 DEF PatternInv
  <2> QED BY <2>1, <2>2
<1>6. RestInv'
  BY <1>u DEF RestInv
<1>7. TimeInv'
  <2>1. CASE pc = "read"
    <3>1. Clean'
      BY <1>u, <2>1 DEF PatternInv, Clean
    <3> QED BY <1>u, <1>t, <2>1, <3>1, CleanThen DEF TimeInv
  <2>2. CASE pc = "drain"
    <3> DEFINE F == faults * BusyTicks
               L == Len(rxFifo) * BusyTicks
    <3>1. F \in Nat /\ L \in Nat /\ (faults - 1) * BusyTicks = F - BusyTicks
      <4>1. Len(rxFifo) \in Nat
        BY DEF TypeOK
      <4> QED BY <1>t, <4>1
    <3>2. Gap' =< Gap /\ Gap \in Nat /\ Gap' \in Nat
      BY <1>g, GapShrinks, GapIs
    <3>3. Working = L + IbTicks + 1 /\ (Working' = L + IbTicks + 1 \/ Working' = 0)
      BY <1>u, <3>1 DEF Working, Clean, Dropping
    <3>4. timer >= Working'
      BY <1>t, <2>2, <3>1, <3>3 DEF TimeInv
    <3>5. timer > 0
      BY <1>t, <2>2, <3>1, <3>3 DEF TimeInv
    <3>6. ASSUME up' = <<>> PROVE quiet >= Silent'
      <4>1. quiet >= Silent
        BY <1>r, <2>2, <3>6 DEF TimeInv
      <4>2. Silent = (IF current[1] = "r" THEN F - BusyTicks + Gap + 1 ELSE F + Gap + 1)
        BY <1>u, <3>1 DEF Silent, Clean, Dropping
      <4>3. Silent' = faults' * BusyTicks + Gap' + 1 \/ Silent' = 0
        BY <1>u DEF Silent, Clean, Dropping
      <4>4. CASE faults' = faults /\ current[1] = "q"
        <5>1. Silent' = F + Gap' + 1 \/ Silent' = 0
          BY <4>3, <4>4
        <5>2. Silent = F + Gap + 1
          BY <4>2, <4>4
        <5> HIDE DEF F
        <5> QED BY <1>t, <3>1, <3>2, <4>1, <5>1, <5>2
      <4>5. CASE faults' = faults - 1 /\ faults > 0
        <5>1. Silent' = F - BusyTicks + Gap' + 1 \/ Silent' = 0
          BY <3>1, <4>3, <4>5
        <5>2. Silent \in {F + Gap + 1, F - BusyTicks + Gap + 1}
          BY <4>2
        <5> HIDE DEF F
        <5> QED BY <1>t, <3>1, <3>2, <4>1, <5>1, <5>2
      <4> QED BY <1>r, <3>6, <4>4, <4>5
    <3> QED BY <1>u, <2>2, <3>4, <3>5, <3>6 DEF TimeInv
  <2> QED BY <1>u, <2>1, <2>2 DEF TimeInv
<1> QED BY <1>1, <1>2, <1>3, <1>4, <1>5, <1>6, <1>7

-----------------------------------------------------------------------------
(* Time *)

LEMMA TickStep ==
    ASSUME InTime, IndInv, Tick
    PROVE  IndInv'
<1> USE Numbers DEF IndInv, Tick
<1> HIDE DEF Tick
<1>t. /\ timer \in Nat /\ quiet \in Nat /\ clock \in Nat /\ quiet =< QuietTicks
      /\ eng \in {"fetch", "args", "busy"}
  BY DEF TypeOK
<1>u. UNCHANGED <<pc, runs, need, attempt, rxFifo, eng, current, up, faults, swallowed>>
  BY DEF Tick
<1>a. /\ timer' \in Nat /\ quiet' \in Nat
      /\ timer' = (IF timer > 0 THEN timer - 1 ELSE 0)
      /\ quiet' = (IF quiet > 0 THEN quiet - 1 ELSE 0)
  BY <1>t DEF Tick, Less
<1>b. /\ eng = "args" => clock' = clock + 1 /\ clock < IbTicks /\ rxFifo = <<>>
      /\ eng = "busy" => clock' = clock - 1 /\ clock > 0 /\ current[1] = "r"
      /\ eng = "fetch" => clock' = clock /\ rxFifo = <<>>
  <2>1. CASE eng = "args"
    BY <2>1 DEF Tick, EngineWaits
  <2>2. CASE eng = "busy"
    BY <1>t, <2>2 DEF Tick, EngineWaits, ClockInv
  <2>3. CASE eng = "fetch"
    BY <2>3 DEF Tick, EngineWaits
  <2> QED BY <1>t, <2>1, <2>2, <2>3
<1>1. TypeOK'
  <2>1. clock' \in Nat /\ quiet' \in 0 .. QuietTicks
    BY <1>t, <1>a, <1>b
  <2> QED BY <1>a, <1>u, <2>1 DEF TypeOK
<1>2. FaultInv'
  BY <1>u DEF FaultInv, Half
<1>3. ClockInv'
  BY <1>t, <1>u, <1>a, <1>b DEF ClockInv
<1>4. OrderInv'
  BY <1>u DEF OrderInv, Clean
<1>5. PatternInv'
  BY <1>u DEF PatternInv, Clean
<1>6. RestInv'
  BY <1>u DEF RestInv, Clean
<1>7. TimeInv'
  <2>0. (pc = "drain" => up = <<>>) /\ pc' = pc /\ up' = up
    BY <1>u DEF Tick
  <2>1. CASE eng = "fetch"
    <3>1. Clean'
      BY <1>u, <1>b, <2>1 DEF Clean
    <3> QED BY <1>a, <2>0, <3>1, CleanThen DEF TimeInv
  <2>2. CASE eng = "args"
    <3>1. Dropping /\ Dropping' /\ ~Clean /\ ~Clean'
      BY <1>u, <1>b, <2>2 DEF Dropping, Clean
    <3>2. /\ Silent = IbTicks - clock + 1 /\ Silent' = IbTicks - clock
          /\ Working = IbTicks - clock + 1 /\ Working' = IbTicks - clock
          /\ Answering = IbTicks - clock + 1 /\ Answering' = IbTicks - clock
          /\ IbTicks - clock > 0 /\ IbTicks - clock \in Nat
      BY <1>t, <1>b, <2>2, <3>1 DEF Silent, Working, Answering
    <3> QED BY <1>t, <1>a, <2>0, <3>2 DEF TimeInv
  <2>3. CASE eng = "busy"
    <3>1. ~Dropping /\ ~Dropping' /\ ~Clean /\ ~Clean' /\ eng' = "busy" /\ current' = current
      BY <1>u, <2>3 DEF Dropping, Clean
    <3>2. Gap' = Gap
      BY <1>u DEF Gap, Half
    <3> DEFINE F == (faults - 1) * BusyTicks
               L == Len(rxFifo) * BusyTicks
    <3>3. F \in Int /\ Gap \in Nat /\ L \in Nat
      <4>1. faults \in Int /\ Len(rxFifo) \in Nat
        BY DEF TypeOK
      <4> QED BY <4>1, GapIs
    <3>4. Silent = clock + F + Gap + 1 /\ Working = clock + L + IbTicks + 1
      BY <1>b, <2>3, <3>1 DEF Silent, Working
    <3>5. Silent' = clock' + F + Gap + 1 /\ Working' = clock' + L + IbTicks + 1
      BY <1>u, <1>b, <2>3, <3>1, <3>2 DEF Silent, Working
    <3>6. pc # "read"
      BY <1>b, <2>3 DEF PatternInv, Clean, Pattern
    <3>7. Silent > 0 /\ Working > 0
      BY <3>1, TimesAre
    <3> HIDE DEF F, L
    <3>8. Silent' = Silent - 1 /\ Working' = Working - 1 /\ Silent \in Int /\ Working \in Int
      BY <1>t, <1>b, <2>3, <3>3, <3>4, <3>5
    <3> QED BY <1>t, <1>a, <2>0, <3>6, <3>7, <3>8 DEF TimeInv
  <2> QED BY <1>t, <2>1, <2>2, <2>3
<1> QED BY <1>1, <1>2, <1>3, <1>4, <1>5, <1>6, <1>7

-----------------------------------------------------------------------------
(* The invariant *)

LEMMA InitInv == Init => IndInv
<1> SUFFICES ASSUME Init PROVE IndInv
  OBVIOUS
<1> USE Numbers DEF Init
<1>1. TypeOK
  <2>1. NoOp \in Kinds \X (0 .. MaxRuns) /\ <<>> \in Seq(Kinds \X (0 .. MaxRuns))
    BY DEF NoOp, Kinds
  <2>2. 0 \in 0 .. MaxRuns /\ 0 \in 0 .. QuietTicks /\ 0 \in 0 .. Attempts
        /\ MaxFaults \in 0 .. MaxFaults
    OBVIOUS
  <2> QED BY <2>1, <2>2 DEF TypeOK
<1>2. Clean /\ up = <<>> /\ pc = "idle" /\ ~swallowed /\ ~Half
  BY DEF Clean, Half
<1>3. FaultInv /\ ClockInv /\ OrderInv
  BY <1>2 DEF FaultInv, ClockInv, OrderInv
<1>4. PatternInv /\ RestInv /\ TimeInv
  BY <1>2 DEF PatternInv, RestInv, TimeInv, Clean
<1> QED BY <1>1, <1>3, <1>4 DEF IndInv

LEMMA NextInv ==
    ASSUME InTime, IndInv, [Next]_vars
    PROVE  IndInv'
<1>1. CASE UNCHANGED vars
  BY <1>1 DEF vars, hostVars, engVars, IndInv, TypeOK, FaultInv, ClockInv, OrderInv, PatternInv,
              RestInv, TimeInv, Clean, Half, Silent, Working, Answering, Gap, Dropping
<1>2. CASE Next
  BY <1>2, RunStep, KillStep, RunReadStep, RunTimeoutStep, DrainReadStep, DrainEndStep,
     WritePatternStep, ReadPatternStep, ReadTimeoutStep, FetchStep, SwallowStep, DropStep,
     DoneStep, TickStep
     DEF Next, HostRun, HostResync, Engine
<1> QED BY <1>1, <1>2

\* The inductive invariant of host and engine: the drain lasts longer than what is
\* left in the engine, at every moment.
THEOREM ResyncInvariant ==
    ASSUME InTime
    PROVE  Spec => []IndInv
<1>1. Init => IndInv
  BY InitInv
<1>2. IndInv /\ [Next]_vars => IndInv'
  BY NextInv
<1> QED BY <1>1, <1>2, PTL DEF Spec

\* Whatever was lost on the way, and however late the host was: resync never feeds
\* its pattern to an operation that waits for bytes, and when it has found the
\* pattern, or a run found its marker, the engine is at an opcode and nothing is on
\* the way in either direction (Device.resync, engine IB_TIMEOUT).
THEOREM ResyncIsTrue ==
    ASSUME InTime
    PROVE  Spec => []BackInStep
<1>1. IndInv => BackInStep
  BY DEF IndInv, PatternInv, RestInv, BackInStep, PatternWhole, Clean
<1> QED BY <1>1, ResyncInvariant, PTL
=============================================================================
