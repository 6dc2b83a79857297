------------------------------- MODULE Wiring -------------------------------
(***************************************************************************)
(* The wiring check: the scan and the analysis of doctor.py, the table of  *)
(* test pins of wiring.py, and the levels the pins take when wires touch   *)
(* each other, GND or 3V3 (Emulator.pin_levels).                           *)
(***************************************************************************)
EXTENDS Integers, FiniteSets

CONSTANTS
  FaultPins,  \* pins that wiring faults touch
  MaxShorts,  \* pairs of wires that touch
  MaxStuck    \* wires that touch GND or 3V3

VARIABLES
  shorts,     \* pairs of pins
  stuck       \* <<pin, level>>

wiringVars == <<shorts, stuck>>

\* SIGNALS: CLE, ALE, WP# and CLK are pulled down.
Pins == 0 .. 20
PulledDown == {8, 9, 13, 16}
IdleLevels == Pins \ PulledDown

------------------------------------------------------------------------------
(* The board: the pins that read high *)

Touching(S) == S \cup UNION {p \in shorts : p \cap S # {}}
\* MaxShorts steps reach every pin of a net.
Net(i) ==
  LET reach[n \in 0 .. MaxShorts] == IF n = 0 THEN {i} ELSE Touching(reach[n - 1])
  IN reach[MaxShorts]
First(S) == CHOOSE i \in S : \A j \in S : i =< j

\* A net with a stuck pin, else with the pin that is driven, else the pull of its
\* first pin.  Driven: <<pin, level>>, or <<>> when all pins are released.
Level(net, driven) ==
  IF \E s \in stuck : s[1] \in net THEN (CHOOSE s \in stuck : s[1] \in net)[2]
  ELSE IF driven # <<>> /\ driven[1] \in net THEN driven[2]
  ELSE IF First(net) \in IdleLevels THEN 1 ELSE 0
PinLevels(driven) == {i \in Pins : Level(Net(i), driven) = 1}

------------------------------------------------------------------------------
(* The check *)

Idle == PinLevels(<<>>)
Low(i) == PinLevels(<<i, 0>>)
High(i) == PinLevels(<<i, 1>>)

\* analyse: idle levels, stuck lines, shorts.
Odd(idle) == {i \in Pins : (i \in idle) # (i \in IdleLevels)}
StuckLines == {<<i, 1>> : i \in {p \in Pins : p \in Low(p)}}
                \cup {<<i, 0>> : i \in {p \in Pins : p \notin Low(p) /\ p \notin High(p)}}

\* Slip: only pins that fall with the driven one are looked for.
FollowsDown(i, idle) == {j \in Pins \ {i} : j \in idle /\ j \notin Low(i)}

\* Pins that went the way of pin i.
Follows(i, idle) ==
  LET low == Low(i)
      high == High(i)
  IN {j \in Pins \ {i} : \/ j \in idle /\ j \notin low
                         \/ j \notin idle /\ j \in high}

Shorted(idle) ==
  LET held == {s[1] : s \in StuckLines}
  IN {p \in {{i, j} : i \in Pins, j \in Pins} :
        /\ Cardinality(p) = 2 /\ ~(p \subseteq held)
        /\ \E i \in p : p \ {i} \subseteq Follows(i, idle)}

------------------------------------------------------------------------------
(* Faults *)

Short(i, j) ==
  /\ i < j /\ Cardinality(shorts) < MaxShorts
  /\ shorts' = shorts \cup {{i, j}}
  /\ UNCHANGED stuck

\* A net does not touch GND and 3V3 both: that is no wiring fault but a dead supply.
Stick(i, level) ==
  /\ Cardinality(stuck) < MaxStuck
  /\ \A s \in stuck : s[1] \notin Net(i)
  /\ stuck' = stuck \cup {<<i, level>>}
  /\ UNCHANGED shorts

WiringInit == shorts = {} /\ stuck = {}
WiringNext ==
  \/ \E i, j \in FaultPins : Short(i, j)
  \/ \E i \in FaultPins, level \in {0, 1} : Stick(i, level)

OneSupply == \A s, t \in stuck : t[1] \in Net(s[1]) => s = t

\* The report names exactly the faults: a line is stuck when its net touches a
\* supply, two lines are shorted when they are on one net that can still be moved,
\* and a sound board has neither, nor odd idle levels.
DoctorExact ==
  OneSupply =>
    /\ StuckLines = {<<i, l>> \in Pins \X {0, 1} : \E s \in stuck : s[1] \in Net(i) /\ s[2] = l}
    /\ Shorted(Idle) = {p \in {{i, j} : i \in Pins, j \in Pins} :
                          /\ Cardinality(p) = 2
                          /\ \A i \in p : p \subseteq Net(i) /\ \A s \in stuck : s[1] \notin Net(i)}
    /\ shorts = {} /\ stuck = {} => Odd(Idle) = {}
==============================================================================
