---------------------------- MODULE MCAttendance ----------------------------
(* Instances of Attendance for TLC.                                        *)
EXTENDS Attendance, SequencesExt

Symmetry == Permutations(Threads) \cup Permutations(People)

(* Where the server stands after the first k of Order have signed in, one  *)
(* after the other, at time 0: with one and two records the next push_back *)
(* reallocates, with three it does not.                                    *)
Order == SetToSeq(People)

EarlierInit ==
  /\ clock = 0 /\ tm = 0 /\ mutex = NoThread
  /\ \E k \in 0..3 :
       /\ v = [i \in 1..k |-> NewNode(Order[i], 0, 0)]
       /\ cap = <<0, 1, 2, 4>>[k + 1] /\ size = k
  /\ alive = TRUE
  /\ pc = [t \in Threads |-> "new"]
  /\ who \in [Threads -> {Order[1], Order[3], Order[4]}]
  /\ prev = [t \in Threads |-> [block |-> 0, idx |-> 1]]
  /\ reg = [t \in Threads |-> 0]
  /\ local_time = [t \in Threads |-> Never]
  /\ counted = {} /\ met = [t \in Threads |-> {}] /\ moved = {} /\ blind = {}

EarlierSpec == EarlierInit /\ [][Next]_vars /\ \A t \in Threads : WF_vars(Proceed(t))
=============================================================================
