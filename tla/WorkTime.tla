------------------------------ MODULE WorkTime ------------------------------
(***************************************************************************)
(* calculat_work_time of server/server_http.h on one user_node: the time   *)
(* between arrival and departure is added to sec and carried, a minute an  *)
(* iteration, into min, hour and data, where a day of work is eight hours. *)
(* The fields live as long as the record, so each departure of the same    *)
(* person starts from what the one before it left there.                   *)
(***************************************************************************)
EXTENDS Integers

CONSTANTS
  Differences,  (* what difftime(end_time, start_time) can return          *)
  MaxCalls      (* bound on the departures recorded in one user_node       *)

ASSUME DifferencesAssumption == Differences \subseteq Int
ASSUME MaxCallsAssumption    == MaxCalls \in Nat

VARIABLES
  sec, min, hour, data,  (* the fields of the user_node                    *)
  pc,                    (* "idle" between calls, "carry" at the loop head *)
  calls,                 (* calls made so far                              *)
  credited               (* history: sum of the differences added          *)

node == <<sec, min, hour, data>>
vars == <<node, pc, calls, credited>>

Init ==
  /\ sec = 0 /\ min = 0 /\ hour = 0 /\ data = 0
  /\ pc = "idle" /\ calls = 0 /\ credited = 0

(* A definition with an underscore in its name is not part of the          *)
(* specification: it is the one after it, made wrong in a plausible way.   *)
AddDifference_Borrows ==
  /\ pc = "idle" /\ calls < MaxCalls
  /\ \E d \in Differences :
       /\ sec' = IF sec + d < 0 THEN sec + d + 60 ELSE sec + d
       /\ min' = IF sec + d < 0 THEN min - 1 ELSE min
       /\ credited' = credited + d
  /\ calls' = calls + 1
  /\ pc' = "carry"
  /\ UNCHANGED <<hour, data>>

AddDifference ==
  /\ pc = "idle" /\ calls < MaxCalls
  /\ \E d \in Differences :
       /\ sec' = sec + d
       /\ credited' = credited + d
  /\ calls' = calls + 1
  /\ pc' = "carry"
  /\ UNCHANGED <<min, hour, data>>

CarryMinute_KeepsMinutes ==
  LET full == min + 1 >= 60
      h    == IF full THEN hour + 1 ELSE hour
  IN  /\ pc = "carry" /\ sec >= 60
      /\ sec'  = sec - 60
      /\ min'  = min + 1
      /\ hour' = IF h >= 8 THEN h - 8 ELSE h
      /\ data' = IF h >= 8 THEN data + 1 ELSE data
      /\ UNCHANGED <<pc, calls, credited>>

CarryMinute_LateDay ==
  LET full == min + 1 >= 60
      h    == IF full THEN hour + 1 ELSE hour
  IN  /\ pc = "carry" /\ sec >= 60
      /\ sec'  = sec - 60
      /\ min'  = IF full THEN min + 1 - 60 ELSE min + 1
      /\ hour' = IF h > 8 THEN h - 8 ELSE h
      /\ data' = IF h > 8 THEN data + 1 ELSE data
      /\ UNCHANGED <<pc, calls, credited>>

CarryMinute_Spins ==
  /\ pc = "carry" /\ sec >= 60
  /\ min'  = (min + 1) % 60
  /\ hour' = IF min' = 0 THEN (hour + 1) % 8 ELSE hour
  /\ UNCHANGED <<sec, data, pc, calls, credited>>

(* The nested tests of one iteration, in their order: hour is tested       *)
(* whether or not this minute completed an hour.                           *)
CarryMinute ==
  LET full == min + 1 >= 60
      h    == IF full THEN hour + 1 ELSE hour
  IN  /\ pc = "carry" /\ sec >= 60
      /\ sec'  = sec - 60
      /\ min'  = IF full THEN min + 1 - 60 ELSE min + 1
      /\ hour' = IF h >= 8 THEN h - 8 ELSE h
      /\ data' = IF h >= 8 THEN data + 1 ELSE data
      /\ UNCHANGED <<pc, calls, credited>>

Return ==
  /\ pc = "carry" /\ sec < 60
  /\ pc' = "idle"
  /\ UNCHANGED <<node, calls, credited>>

Stopped == pc = "idle" /\ calls = MaxCalls /\ UNCHANGED vars

Next == AddDifference \/ CarryMinute \/ Return \/ Stopped

(* Nothing in the loop waits, so a call that has begun keeps running.      *)
Spec == Init /\ [][Next]_vars /\ WF_vars(CarryMinute \/ Return)

-----------------------------------------------------------------------------

TypeOK ==
  /\ sec \in Int /\ min \in 0..59 /\ hour \in 0..7 /\ data \in Nat
  /\ pc \in {"idle", "carry"} /\ calls \in 0..MaxCalls /\ credited \in Int

(* No carry of calculat_work_time gains or loses a second: at every loop   *)
(* head the fields of all four units still add up to what was credited.    *)
Conserved == credited = data * 28800 + hour * 3600 + min * 60 + sec

(* A finished call whose seconds are not negative leaves the quotients and *)
(* remainders of the credited time, whatever the earlier departures of the *)
(* same person had left in the fields, also if some of them were negative. *)
MatchesDivision ==
  (pc = "idle" /\ sec >= 0) =>
    /\ sec  = credited % 60
    /\ min  = (credited \div 60) % 60
    /\ hour = (credited \div 3600) % 8
    /\ data = credited \div 28800

(* Whole minutes that have been carried are never given back: a clock set  *)
(* back between arrival and departure makes sec negative, the loop has no  *)
(* borrow, and min, hour and data together only grow.                      *)
CarriedIsKept ==
  [][data' * 480 + hour' * 60 + min' >= data * 480 + hour * 60 + min]_vars

(* Every call returns: the loop at server_http.h:117-131 consumes a minute *)
(* an iteration however large the difference is.                           *)
Returns == pc = "carry" ~> pc = "idle"

=============================================================================
