--------------------------- MODULE AttendanceBook ---------------------------
(***************************************************************************)
(* What the attendance book promises to a person whose requests are served *)
(* beside no other: the first visit is the arrival, every later visit is a *)
(* departure that replaces the one before it, and the span is the time     *)
(* difference between the two.                                             *)
(***************************************************************************)
EXTENDS Integers

CONSTANTS People, MaxClock

VARIABLES clock, book

Never   == -1
Absent  == [arrive |-> Never, leave |-> Never, span |-> 0]
Arrived(at) == [arrive |-> at, leave |-> Never, span |-> 0]

(* Requests were served side by side: nothing is promised from then on.    *)
Unknown == [arrive |-> -2, leave |-> -2, span |-> 0]

(* at is not before any visit already in the book.                         *)
Latest(at) == \A p \in People : book[p].arrive <= at /\ book[p].leave <= at

Init == clock = 0 /\ book \in [People -> {Absent, Arrived(0)}]

Visit(p) ==
  /\ book[p] # Unknown
  /\ \E at \in 0..clock :
       /\ Latest(at)
       /\ book' = [book EXCEPT ![p] =
            IF @ = Absent THEN Arrived(at)
            ELSE [arrive |-> @.arrive, leave |-> at, span |-> at - @.arrive]]
  /\ UNCHANGED clock

(* The only other change: people whose requests have met are let go of.    *)
Interfere(S) ==
  /\ book' = [p \in People |-> IF p \in S THEN Unknown ELSE book[p]]
  /\ UNCHANGED clock

Tick ==
  /\ clock < MaxClock
  /\ clock' = clock + 1
  /\ UNCHANGED book

Next == Tick \/ (\E p \in People : Visit(p)) \/ (\E S \in SUBSET People : Interfere(S))

Spec == Init /\ [][Next]_<<clock, book>>
=============================================================================
