--------------------------- MODULE WorkTimeProofs ---------------------------
(* Proofs about WorkTime, for every set of differences and any number of   *)
(* departures.                                                             *)
EXTENDS WorkTime, TLAPS

(* The fields of a user_node stay in their ranges at every loop head and   *)
(* between calls of calculat_work_time (server_http.h:117-131).            *)
THEOREM TypeCorrect == Spec => []TypeOK
<1>1. Init => TypeOK
  BY MaxCallsAssumption DEF Init, TypeOK
<1>2. TypeOK /\ [Next]_vars => TypeOK'
  <2> SUFFICES ASSUME TypeOK, [Next]_vars PROVE TypeOK'
    OBVIOUS
  <2> USE DEF TypeOK
  <2>1. CASE AddDifference
    BY <2>1, DifferencesAssumption, MaxCallsAssumption DEF AddDifference
  <2>2. CASE CarryMinute
    BY <2>2 DEF CarryMinute
  <2>3. CASE Return
    BY <2>3 DEF Return, node
  <2>4. CASE Stopped \/ UNCHANGED vars
    BY <2>4 DEF Stopped, vars, node
  <2> QED
    BY <2>1, <2>2, <2>3, <2>4 DEF Next
<1> QED
  BY <1>1, <1>2, PTL DEF Spec

(* No second is gained or lost by the carries of calculat_work_time.       *)
THEOREM ConservedAlways == Spec => []Conserved
<1>1. Init => Conserved
  BY DEF Init, Conserved
<1>2. TypeOK /\ Conserved /\ [Next]_vars => Conserved'
  <2> SUFFICES ASSUME TypeOK, Conserved, [Next]_vars PROVE Conserved'
    OBVIOUS
  <2> USE DEF TypeOK, Conserved
  <2>1. CASE AddDifference
    BY <2>1, DifferencesAssumption DEF AddDifference
  <2>2. CASE CarryMinute
    BY <2>2 DEF CarryMinute
  <2>3. CASE Return
    BY <2>3 DEF Return, node
  <2>4. CASE Stopped \/ UNCHANGED vars
    BY <2>4 DEF Stopped, vars, node
  <2> QED
    BY <2>1, <2>2, <2>3, <2>4 DEF Next
<1> QED
  BY <1>1, <1>2, TypeCorrect, PTL DEF Spec

(* sec is a number of seconds below a minute once a call has returned, and *)
(* never negative when no difference is, so that MatchesDivision then      *)
(* speaks of every finished call.                                          *)
SecInRange ==
  /\ pc = "idle" => sec < 60
  /\ Differences \subseteq Nat => sec >= 0

LEMMA SecInRangeAlways == Spec => []SecInRange
<1>1. Init => SecInRange
  BY DEF Init, SecInRange
<1>2. TypeOK /\ SecInRange /\ [Next]_vars => SecInRange'
  <2> SUFFICES ASSUME TypeOK, SecInRange, [Next]_vars PROVE SecInRange'
    OBVIOUS
  <2> USE DEF TypeOK, SecInRange
  <2>1. CASE AddDifference
    BY <2>1, DifferencesAssumption DEF AddDifference
  <2>2. CASE CarryMinute
    BY <2>2 DEF CarryMinute
  <2>3. CASE Return
    BY <2>3 DEF Return, node
  <2>4. CASE Stopped \/ UNCHANGED vars
    BY <2>4 DEF Stopped, vars, node
  <2> QED
    BY <2>1, <2>2, <2>3, <2>4 DEF Next
<1> QED
  BY <1>1, <1>2, TypeCorrect, PTL DEF Spec

(* calculat_work_time computes the division by a minute, an hour and an    *)
(* eight-hour day, over all the departures of one record together.         *)
THEOREM MatchesDivisionAlways == Spec => []MatchesDivision
<1>1. TypeOK /\ Conserved /\ SecInRange => MatchesDivision
  <2> SUFFICES ASSUME TypeOK, Conserved, SecInRange, pc = "idle", sec >= 0
               PROVE  /\ sec  = credited % 60
                      /\ min  = (credited \div 60) % 60
                      /\ hour = (credited \div 3600) % 8
                      /\ data = credited \div 28800
    BY DEF MatchesDivision
  <2>1. /\ data \in Nat /\ hour \in 0..7 /\ min \in 0..59 /\ sec \in 0..59
        /\ credited \in Int
    BY DEF TypeOK, SecInRange
  <2>2. credited = data * 28800 + hour * 3600 + min * 60 + sec
    BY DEF Conserved
  <2>3. credited % 60 = sec /\ credited \div 60 = data * 480 + hour * 60 + min
    BY <2>1, <2>2
  <2>4. credited \div 3600 = data * 8 + hour
    BY <2>1, <2>2
  <2>5. credited \div 28800 = data
    BY <2>1, <2>2
  <2>6. (data * 480 + hour * 60 + min) % 60 = min
    BY <2>1
  <2>7. (data * 8 + hour) % 8 = hour
    BY <2>1
  <2> QED
    BY <2>3, <2>4, <2>5, <2>6, <2>7
<1> QED
  BY <1>1, TypeCorrect, ConservedAlways, SecInRangeAlways, PTL

(* What has been carried into min, hour and data is never taken back, even *)
(* when a difference is negative.                                          *)
THEOREM CarriedIsKeptAlways == Spec => CarriedIsKept
<1>1. TypeOK /\ [Next]_vars =>
        [data' * 480 + hour' * 60 + min' >= data * 480 + hour * 60 + min]_vars
  <2> SUFFICES ASSUME TypeOK, Next
               PROVE  data' * 480 + hour' * 60 + min' >= data * 480 + hour * 60 + min
    OBVIOUS
  <2> USE DEF TypeOK
  <2>1. CASE AddDifference
    BY <2>1 DEF AddDifference
  <2>2. CASE CarryMinute
    BY <2>2 DEF CarryMinute
  <2>3. CASE Return \/ Stopped
    BY <2>3 DEF Return, Stopped, vars, node
  <2> QED
    BY <2>1, <2>2, <2>3 DEF Next
<1> QED
  BY <1>1, TypeCorrect, PTL DEF Spec, CarriedIsKept

=============================================================================
