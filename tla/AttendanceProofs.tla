-------------------------- MODULE AttendanceProofs --------------------------
(***************************************************************************)
(* Proofs about Attendance, for any number of threads, people, records and *)
(* reallocations.                                                          *)
(***************************************************************************)
EXTENDS Attendance, FiniteSetTheorems, TLAPS

Node == [who : People, arrive : Int, start : Int, leave : Int,
         end : Int, worked : Int]

(* Where the iterators can point.  An older block is never larger than     *)
(* what v holds by now, which is why a position in it is also a position   *)
(* of v; and a thread past the test of send_vector is not at v.end().      *)
Iterators ==
  /\ Len(v) <= cap
  /\ \A t \in Threads :
       /\ prev[t].block <= cap
       /\ prev[t].block < cap => prev[t].block <= Len(v)
       /\ prev[t].idx <= Len(v) + 1
       /\ (pc[t] \in ExistsBranch /\ ~Dangling(t)) => prev[t].idx <= Len(v)

Shape == TypeOK /\ Iterators

(* What follows a critical section that touches nothing.                   *)
LEMMA PrivateLabels ==
  ASSUME NEW l \in DOMAIN Private
  PROVE  /\ l \in LockSites \ {"local", "miss", "push"} /\ l # "store"
         /\ Private[l] \in {"id", "time", "day", "hour", "min", "sec", "mysql", "show"}
         /\ l \in ExistsBranch <=> Private[l] \in ExistsBranch \cup {"show"}
  BY DEF Private, LockSites, ExistsBranch

(* An iterator in front of a record, even of a freed copy, is in front of a *)
(* record of v.                                                            *)
LEMMA OnRecordInBounds ==
  ASSUME Shape, NEW t \in Threads, OnRecord(t)
  PROVE  prev[t].idx \in 1..Len(v)
<1>1. /\ prev[t].idx \in Nat \ {0} /\ prev[t].block \in Nat /\ Len(v) \in Nat /\ cap \in Nat
      /\ prev[t].block <= cap
      /\ prev[t].block < cap => prev[t].block <= Len(v)
  BY DEF Shape, TypeOK, Iterators
<1> QED
  BY <1>1 DEF OnRecord, Dangling

(* A write through an iterator of the branch "already exists" changes at   *)
(* most the record the iterator points at, and never the number of records.*)
LEMMA WriteThroughEffect ==
  ASSUME Shape, NEW t \in Threads, pc[t] \in ExistsBranch, NEW node,
         ~Gone(t) => node \in Node, WriteThrough(t, node)
  PROVE  /\ v' \in Seq(Node) /\ Len(v') = Len(v)
         /\ \A i \in 1..Len(v) :
              v'[i] = IF ~Gone(t) /\ i = prev[t].idx THEN node ELSE v[i]
<1>1. CASE Gone(t)
  BY <1>1 DEF WriteThrough, Shape, TypeOK, Node
<1>2. CASE ~Gone(t)
  <2>1. prev[t].idx \in 1..Len(v)
    BY <1>2 DEF Shape, TypeOK, Iterators, Gone
  <2>2. v' = [v EXCEPT ![prev[t].idx] = node] /\ node \in Node /\ v \in Seq(Node)
    BY <1>2 DEF WriteThrough, Shape, TypeOK, Node
  <2> QED
    BY <1>2, <2>1, <2>2
<1> QED
  BY <1>1, <1>2

(* The three writes of the sign-out branch store well-typed records that   *)
(* keep the person, the arrival and the start.                             *)
KeepsArrival(node, i) ==
  /\ node \in Node
  /\ node.who = v[i].who /\ node.arrive = v[i].arrive /\ node.start = v[i].start

LEMMA WritesKeepArrival ==
  ASSUME Shape, NEW t \in Threads, pc[t] \in ExistsBranch, ~Dangling(t)
  PROVE  /\ prev[t].idx \in 1..Len(v)
         /\ KeepsArrival([v[prev[t].idx] EXCEPT !.end = reg[t]], prev[t].idx)
         /\ KeepsArrival([v[prev[t].idx] EXCEPT !.leave = local_time[t]], prev[t].idx)
         /\ KeepsArrival([v[prev[t].idx] EXCEPT !.worked = reg[t]], prev[t].idx)
<1>1. prev[t].idx \in 1..Len(v)
  BY DEF Shape, TypeOK, Iterators
<1>2. v \in Seq(Node) /\ reg[t] \in Int /\ local_time[t] \in Int
  BY DEF Shape, TypeOK, Node
<1>3. ASSUME NEW n \in Node, NEW x \in Int
      PROVE  \A m \in {[n EXCEPT !.end = x], [n EXCEPT !.leave = x], [n EXCEPT !.worked = x]} :
               m \in Node /\ m.who = n.who /\ m.arrive = n.arrive /\ m.start = n.start
  BY <1>3 DEF Node
<1>4. v[prev[t].idx] \in Node
  BY <1>1, <1>2
<1> QED
  BY <1>1, <1>2, <1>3, <1>4 DEF KeepsArrival

LEMMA StoreEffect ==
  ASSUME Shape, NEW t \in Threads, StoreEnd(t) \/ StoreLeave(t) \/ StoreWork(t)
  PROVE  /\ pc[t] \in ExistsBranch
         /\ v' \in Seq(Node) /\ Len(v') = Len(v)
         /\ \A i \in 1..Len(v) :
              /\ v'[i].who = v[i].who /\ v'[i].arrive = v[i].arrive
              /\ v'[i].start = v[i].start
              /\ v'[i] # v[i] => ~Gone(t) /\ i = prev[t].idx
<1>1. pc[t] \in ExistsBranch
  BY DEF StoreEnd, StoreLeave, StoreWork, ExistsBranch
<1>2. PICK node : /\ WriteThrough(t, node)
                  /\ ~Gone(t) => KeepsArrival(node, prev[t].idx)
  BY <1>1, WritesKeepArrival DEF Gone, StoreEnd, StoreLeave, StoreWork
<1>3. /\ v' \in Seq(Node) /\ Len(v') = Len(v)
      /\ \A i \in 1..Len(v) :
           v'[i] = IF ~Gone(t) /\ i = prev[t].idx THEN node ELSE v[i]
  BY <1>1, <1>2, WriteThroughEffect DEF KeepsArrival
<1> QED
  BY <1>1, <1>2, <1>3 DEF KeepsArrival

(* Sign-in appends one record and, when the block is full, moves to one    *)
(* that is larger than everything stored so far.                           *)
LEMMA PushBackEffect ==
  ASSUME Shape, NEW t \in Threads, PushBack(t)
  PROVE  /\ v' \in Seq(Node) /\ Len(v') = Len(v) + 1
         /\ \A i \in 1..Len(v) : v'[i] = v[i]
         /\ v'[Len(v) + 1].who = who[t]
         /\ cap' \in Nat /\ Len(v') <= cap'
         /\ (cap' = cap /\ Len(v) < cap) \/ (cap' > cap /\ Len(v) = cap)
<1>1. NewNode(who[t], local_time[t], reg[t]) \in Node /\ v \in Seq(Node)
  BY DEF NewNode, Never, Shape, TypeOK, Node
<1>2. v' = Append(v, NewNode(who[t], local_time[t], reg[t]))
  BY DEF PushBack
<1>3. NewNode(who[t], local_time[t], reg[t]).who = who[t]
  BY DEF NewNode
<1>4. /\ cap' \in Nat /\ Len(v) + 1 <= cap'
      /\ (cap' = cap /\ Len(v) < cap) \/ (cap' > cap /\ Len(v) = cap)
  BY DEF PushBack, GrownCapacity, Shape, TypeOK, Iterators
<1> QED
  BY <1>1, <1>2, <1>3, <1>4

(* No action of a thread takes an iterator out of what v or a freed copy   *)
(* of its prefix holds, and every action keeps the types.                  *)
LEMMA ShapeStep ==
  ASSUME Shape, Next
  PROVE  Shape'
<1> USE DEF Shape
<1>1. CASE Tick
  BY <1>1, BoundsAssumption DEF Tick, TypeOK, Iterators, Dangling, shared, locals, history
<1>2. CASE Over
  BY <1>2 DEF Over, vars, TypeOK, Iterators, Dangling, shared, locals, history
<1>3. ASSUME NEW t \in Threads, Start(t)
      PROVE  Shape'
  BY <1>3 DEF Start, Goto, Labels, LockSites, ExistsBranch, InFlight, TypeOK, Iterators, Dangling,
              shared, locals, history
<1>4. ASSUME NEW t \in Threads, Step(t)
      PROVE  Shape'
  <2> USE DEF Goto, Unlock, Labels, LockSites, ExistsBranch, TypeOK, Iterators, Dangling,
              shared, locals, history
  <2>1. CASE Lock(t)
    BY <2>1 DEF Lock
  <2>2. CASE PrivateSection(t)
    BY <2>2, PrivateLabels DEF PrivateSection
  <2>3. CASE ReadClock(t)
    BY <2>3 DEF ReadClock
  <2>4. CASE LocalTime(t)
    BY <2>4 DEF LocalTime
  <2>5. CASE FormatTime(t)
    BY <2>5 DEF FormatTime
  <2>6. CASE TakeBegin(t)
    BY <2>6 DEF TakeBegin, Begin
  <2>7. CASE FindMatch(t)
    BY <2>7 DEF FindMatch
  <2>8. CASE Advance(t)
    <3>1. OnRecord(t)
      BY <2>8 DEF Advance
    <3>2. prev[t].idx \in 1..Len(v)
      BY <3>1, OnRecordInBounds
    <3>3. prev[t].idx <= Len(v)
      BY <3>2
    <3>4. prev' = [prev EXCEPT ![t].idx = @ + 1]
      BY <2>8 DEF Advance
    <3>5. prev \in [Threads -> [block : Nat, idx : Nat \ {0}]]
      BY DEF TypeOK
    <3>6. /\ prev' \in [Threads -> [block : Nat, idx : Nat \ {0}]]
          /\ \A u \in Threads \ {t} : prev'[u] = prev[u]
          /\ prev'[t].block = prev[t].block /\ prev'[t].idx = prev[t].idx + 1
      BY ONLY <3>4, <3>5
    <3>7. TypeOK'
      BY <2>8, <3>6 DEF Advance
    <3>8. v' = v /\ cap' = cap /\ pc' = pc /\ pc[t] \notin ExistsBranch
      BY <2>8 DEF Advance
    <3>9. prev[t].idx \in Nat /\ Len(v) \in Nat
      OBVIOUS
    <3>10. /\ prev'[t].block <= cap
           /\ prev'[t].block < cap => prev'[t].block <= Len(v)
           /\ prev'[t].idx <= Len(v) + 1
      BY <3>3, <3>6, <3>9
    <3>11. Iterators'
      BY <3>6, <3>8, <3>10
    <3> QED
      BY <3>7, <3>11
  <2>9. CASE FindEnd(t)
    BY <2>9 DEF FindEnd
  <2>10. CASE CountMiss(t)
    BY <2>10 DEF CountMiss
  <2>11. CASE ReturnEnd(t)
    <3>1. End \in [block : Nat, idx : Nat \ {0}] /\ End.block = cap /\ End.idx = Len(v) + 1
      BY DEF End
    <3>2. /\ prev' = [prev EXCEPT ![t] = End] /\ UNCHANGED <<v, cap>>
          /\ pc' = [pc EXCEPT ![t] = "test"]
      BY <2>11 DEF ReturnEnd
    <3>3. TypeOK'
      BY <2>11, <3>1, <3>2 DEF ReturnEnd
    <3>4. Iterators'
      BY <3>1, <3>2
    <3> QED
      BY <3>3, <3>4
  <2>12. CASE Test(t)
    BY <2>12 DEF Test, End
  <2>13. CASE Mktime(t)
    BY <2>13 DEF Mktime
  <2>14. CASE StoreEnd(t)
    <3>1. v' \in Seq(Node) /\ Len(v') = Len(v)
      BY <2>14, StoreEffect
    <3>2. reg' \in [Threads -> Int] /\ tm' \in Int
      BY <2>14 DEF StoreEnd
    <3>3. pc' \in [Threads -> Labels]
      BY <2>14 DEF StoreEnd
    <3>4. TypeOK'
      BY <2>14, <3>1, <3>2, <3>3 DEF StoreEnd, Node
    <3>5. Iterators'
      BY <2>14, <3>1 DEF StoreEnd
    <3> QED
      BY <3>4, <3>5
  <2>15. CASE StoreLeave(t)
    <3>1. v' \in Seq(Node) /\ Len(v') = Len(v)
      BY <2>15, StoreEffect
    <3>2. TypeOK'
      BY <2>15, <3>1 DEF StoreLeave, Node
    <3>3. Iterators'
      BY <2>15, <3>1 DEF StoreLeave
    <3> QED
      BY <3>2, <3>3
  <2>16. CASE AddSpan(t)
    <3>1. reg'[t] \in Int
      <4>1. CASE Gone(t)
        BY <2>16, <4>1 DEF AddSpan
      <4>2. CASE ~Gone(t)
        <5>1. v \in Seq(Node) /\ prev[t].idx \in 1..Len(v)
          BY <2>16, <4>2 DEF AddSpan, Node, Gone
        <5>2. v[prev[t].idx] \in Node
          BY <5>1
        <5> QED
          BY <2>16, <4>2, <5>2 DEF AddSpan, Node
      <4> QED
        BY <4>1, <4>2
    <3> QED
      BY <2>16, <3>1 DEF AddSpan
  <2>17. CASE StoreWork(t)
    <3>1. v' \in Seq(Node) /\ Len(v') = Len(v)
      BY <2>17, StoreEffect
    <3>2. reg' \in [Threads -> Int] /\ tm' \in Int
      BY <2>17 DEF StoreWork
    <3>3. pc' \in [Threads -> Labels]
      BY <2>17 DEF StoreWork
    <3>4. TypeOK'
      BY <2>17, <3>1, <3>2, <3>3 DEF StoreWork, Node
    <3>5. Iterators'
      BY <2>17, <3>1 DEF StoreWork
    <3> QED
      BY <3>4, <3>5
  <2>18. CASE PushBack(t)
    <3>1. /\ v' \in Seq(Node) /\ Len(v') = Len(v) + 1 /\ cap' \in Nat /\ Len(v') <= cap'
          /\ cap' = cap \/ (cap' > cap /\ Len(v) = cap)
      BY <2>18, PushBackEffect
    <3>2. tm' \in Int /\ reg' \in [Threads -> Int] /\ pc' \in [Threads -> Labels]
      BY <2>18 DEF PushBack
    <3>4. TypeOK'
      BY <2>18, <3>1, <3>2 DEF PushBack, Node
    <3>3. Iterators'
      BY <2>18, <3>1 DEF PushBack
    <3> QED
      BY <3>3, <3>4
  <2>19. CASE Finish(t)
    BY <2>19 DEF Finish, Never
  <2>20. CASE UseAfterFree(t)
    BY <2>20 DEF UseAfterFree
  <2>21. CASE LeaveTimeRace(t)
    BY <2>21 DEF LeaveTimeRace
  <2>22. CASE StampArrival(t)
    BY <2>22 DEF StampArrival, InFlight
  <2>23. CASE GetStringAborts(t)
    BY <2>23 DEF GetStringAborts
  <2> QED
    BY <1>4, <2>1, <2>2, <2>3, <2>4, <2>5, <2>6, <2>7, <2>8, <2>9, <2>10, <2>11, <2>12, <2>13, <2>14, <2>15, <2>16, <2>17, <2>18, <2>19, <2>20, <2>21, <2>22, <2>23 DEF Step
<1> QED
  BY <1>1, <1>2, <1>3, <1>4 DEF Next, Arrive

LEMMA InitShape == Init => Shape
<1> SUFFICES ASSUME Init PROVE Shape
  OBVIOUS
<1>1. TypeOK
  BY DEF Init, TypeOK, Never, Labels
<1>2. Iterators
  BY DEF Init, Iterators, ExistsBranch
<1> QED
  BY <1>1, <1>2 DEF Shape

LEMMA ShapeAlways == Spec => []Shape
<1>1. Shape /\ [Next]_vars => Shape'
  <2>1. CASE UNCHANGED vars
    BY <2>1 DEF vars, Shape, TypeOK, Iterators, Dangling, shared, locals, history
  <2> QED
    BY <2>1, ShapeStep
<1> QED
  BY <1>1, InitShape, PTL DEF Spec

(* The types hold in every reachable state: in particular the working time *)
(* is only ever computed from a record, or from the freed copy of one.     *)
THEOREM TypeCorrect == Spec => []TypeOK
<1>1. Shape => TypeOK
  BY DEF Shape
<1> QED
  BY <1>1, ShapeAlways, PTL

-----------------------------------------------------------------------------

(* size was incremented by the find_id of t only after its loop had ended. *)
CountedAfterScan(t) ==
  /\ t \in counted =>
       pc[t] \in ExistsBranch \cup {"end", "test", "push", "store", "show", "print", "done"}
  /\ pc[t] \in {"end", "push", "store"} => t \in counted

(* A match is a record of the request's own person until it is gone.       *)
MatchIsOwn(t) ==
  (pc[t] \in ExistsBranch \cup {"test"} /\ t \notin counted /\ ~Gone(t)) =>
    prev[t].idx <= Len(v) /\ v[prev[t].idx].who = who[t]

(* A request that found nothing and is in front of a record all the same   *)
(* has met the one that pushed it.                                         *)
MetItsOwner(t) ==
  (pc[t] \in ExistsBranch \cup {"test"} /\ t \in counted /\ ~Gone(t) /\ prev[t].idx <= Len(v)) =>
    \E u \in met[t] : who[u] = v[prev[t].idx].who

(* What a request that has met no other of its person knows about v: no    *)
(* record of the person lies behind the scan unless a reallocation has     *)
(* passed under it, and after a scan that found none, and did not end in a *)
(* reallocation, there is none until the request itself pushes it.         *)
FoundNone(t) ==
  \/ pc[t] \in {"miss", "end", "push", "store"}
  \/ pc[t] = "test" /\ t \in counted

Sound(t) == ~Dangling(t) /\ ~Moving

NoneMissed(t) ==
  (~OwnRequestsMet(who[t]) /\ t \notin blind) =>
    \A j \in 1..Len(v) :
      (FoundNone(t) \/ (pc[t] = "find" /\ Sound(t) /\ j < prev[t].idx)) => v[j].who # who[t]

ScanOf(t) == CountedAfterScan(t) /\ MatchIsOwn(t) /\ MetItsOwner(t) /\ NoneMissed(t)

(* Requests in flight at once are remembered, and one that stores a record *)
(* holds the mutex: no two do.                                             *)
MetSeen == \A t, u \in InFlight : t # u => u \in met[t]
StoreLocked == \A t \in Threads : pc[t] = "store" => mutex = t

Scans == MetSeen /\ StoreLocked /\ DuplicatesNeedRace /\ \A t \in Threads : ScanOf(t)

(* What a step of a thread leaves to the others: records only ever appear  *)
(* behind those that are there, and only a push_back adds one.             *)
LEMMA StepFrame ==
  ASSUME Shape, NEW t \in Threads, Step(t)
  PROVE  /\ t \in InFlight /\ pc'[t] # "new"
         /\ who' = who /\ met' = met
         /\ blind \subseteq blind' /\ blind' \subseteq blind \cup {t}
         /\ \A u \in Threads \ {t} :
              pc'[u] = pc[u] /\ prev'[u] = prev[u] /\ (u \in counted' <=> u \in counted)
         /\ Len(v') \in Nat /\ Len(v) <= Len(v')
         /\ \A i \in 1..Len(v) : v'[i].who = v[i].who
         /\ \A i \in 1..Len(v') :
              i > Len(v) => i = Len(v) + 1 /\ PushBack(t) /\ v'[i].who = who[t]
<1>1. /\ t \in InFlight /\ pc'[t] # "new"
      /\ \A u \in Threads \ {t} : pc'[u] = pc[u]
  BY PrivateLabels DEF Step, Shape, TypeOK, InFlight, Goto, LockSites, DerefSites, ExistsBranch,
     Lock, PrivateSection, ReadClock, LocalTime, FormatTime, TakeBegin, FindMatch, Advance,
     FindEnd, CountMiss, ReturnEnd, Test, Mktime, StoreEnd, StoreLeave, AddSpan, StoreWork,
     StampArrival, PushBack, Finish, GetStringAborts, UseAfterFree, LeaveTimeRace
<1>2. /\ who' = who /\ met' = met
      /\ blind \subseteq blind' /\ blind' \subseteq blind \cup {t}
      /\ \A u \in Threads \ {t} : prev'[u] = prev[u] /\ (u \in counted' <=> u \in counted)
  BY DEF Step, Shape, TypeOK, locals, history,
     Lock, PrivateSection, ReadClock, LocalTime, FormatTime, TakeBegin, FindMatch, Advance,
     FindEnd, CountMiss, ReturnEnd, Test, Mktime, StoreEnd, StoreLeave, AddSpan, StoreWork,
     StampArrival, PushBack, Finish, GetStringAborts, UseAfterFree, LeaveTimeRace
<1>3. CASE PushBack(t)
  <2>1. Len(v) \in Nat
    BY DEF Shape, TypeOK
  <2>2. /\ Len(v') = Len(v) + 1
        /\ \A i \in 1..Len(v) : v'[i] = v[i]
        /\ v'[Len(v) + 1].who = who[t]
    BY <1>3, PushBackEffect
  <2> QED
    BY <1>1, <1>2, <1>3, <2>1, <2>2
<1>4. CASE StoreEnd(t) \/ StoreLeave(t) \/ StoreWork(t)
  BY <1>1, <1>2, <1>4, StoreEffect DEF Shape, TypeOK
<1>5. CASE ~(PushBack(t) \/ StoreEnd(t) \/ StoreLeave(t) \/ StoreWork(t))
  <2>1. v' = v
    BY <1>5 DEF Step, shared,
       Lock, PrivateSection, ReadClock, LocalTime, FormatTime, TakeBegin, FindMatch, Advance,
       FindEnd, CountMiss, ReturnEnd, Test, Mktime, AddSpan, StampArrival, Finish,
       GetStringAborts, UseAfterFree, LeaveTimeRace
  <2>2. Len(v) \in Nat
    BY DEF Shape, TypeOK
  <2> QED
    BY <1>1, <1>2, <2>1, <2>2
<1> QED
  BY <1>3, <1>4, <1>5

(* Only a push_back changes the number of records or the storage.          *)
LEMMA StorageFrame ==
  ASSUME Shape, NEW t \in Threads, Step(t)
  PROVE  \/ PushBack(t)
         \/ ~PushBack(t) /\ Len(v') = Len(v) /\ cap' = cap
<1>1. CASE StoreEnd(t) \/ StoreLeave(t) \/ StoreWork(t)
  BY <1>1, StoreEffect DEF StoreEnd, StoreLeave, StoreWork
<1>2. CASE ~(PushBack(t) \/ StoreEnd(t) \/ StoreLeave(t) \/ StoreWork(t))
  BY <1>2 DEF Step, shared,
     Lock, PrivateSection, ReadClock, LocalTime, FormatTime, TakeBegin, FindMatch, Advance,
     FindEnd, CountMiss, ReturnEnd, Test, Mktime, AddSpan, StampArrival, Finish,
     GetStringAborts, UseAfterFree, LeaveTimeRace
<1> QED
  BY <1>1, <1>2

(* A thread with a record to store takes no step but the push_back.        *)
LEMMA OnlyStores ==
  ASSUME NEW t \in Threads, Step(t), pc[t] = "store"
  PROVE  PushBack(t)
<1>1. "store" \notin DOMAIN Private /\ "store" \notin LockSites /\ "store" \notin DerefSites
  BY DEF Private, LockSites, DerefSites
<1> QED
  BY <1>1 DEF Step,
     Lock, PrivateSection, ReadClock, LocalTime, FormatTime, TakeBegin, FindMatch, Advance,
     FindEnd, CountMiss, ReturnEnd, Test, Mktime, StoreEnd, StoreLeave, AddSpan, StoreWork,
     StampArrival, Finish, GetStringAborts, UseAfterFree, LeaveTimeRace

(* A reallocation under way is still under way after a step of any thread, *)
(* or has left every other thread's iterator dangling.                     *)
LEMMA MovingEnds ==
  ASSUME Shape, Scans, NEW t \in Threads, Step(t), NEW u \in Threads \ {t}, Moving
  PROVE  \/ Moving' /\ Len(v') = Len(v) /\ cap' = cap
         \/ Dangling(u)'
<1>1. PICK x \in Threads : pc[x] = "store" /\ Len(v) = cap
  BY DEF Moving
<1>2. prev'[u] = prev[u] /\ prev[u].block <= cap /\ prev[u].block \in Nat /\ cap \in Nat
  BY StepFrame DEF Shape, TypeOK, Iterators
<1>3. CASE PushBack(t)
  <2>1. cap' \in Nat /\ cap' > cap
    BY <1>1, <1>3, PushBackEffect DEF Shape, TypeOK
  <2> QED
    BY <1>2, <2>1 DEF Dangling
<1>4. CASE ~PushBack(t)
  <2>1. x # t
    BY <1>1, <1>4, OnlyStores
  <2> QED
    BY <1>1, <1>4, <2>1, StepFrame, StorageFrame DEF Moving
<1> QED
  BY <1>3, <1>4

(* So an iterator whose record is gone stays that way, and a scan that     *)
(* nothing has moved under was not moved under before.                     *)
LEMMA GoneStays ==
  ASSUME Shape, Scans, NEW t \in Threads, Step(t), NEW u \in Threads \ {t}
  PROVE  /\ ~Gone(u)' => ~Gone(u)
         /\ Sound(u)' => Sound(u)
<1>1. /\ prev'[u] = prev[u] /\ prev[u].block <= cap /\ prev[u].block \in Nat /\ cap \in Nat
      /\ Len(v) \in Nat
  BY StepFrame DEF Shape, TypeOK, Iterators
<1>2. Dangling(u) => Dangling(u)'
  <2>1. CASE PushBack(t)
    <3>1. cap' \in Nat /\ cap' >= cap
      BY <2>1, <1>1, PushBackEffect
    <3> QED
      BY <1>1, <3>1 DEF Dangling
  <2>2. CASE ~PushBack(t)
    BY <1>1, <2>2, StorageFrame DEF Dangling
  <2> QED
    BY <2>1, <2>2
<1>3. CASE Moving
  <2>1. CASE Dangling(u)'
    BY <2>1 DEF Gone, Sound
  <2>2. CASE Moving' /\ Len(v') = Len(v) /\ cap' = cap
    <3>1. End' = End
      BY <2>2 DEF End
    <3> QED
      BY <1>1, <1>2, <2>2, <3>1 DEF Gone, Sound
  <2> QED
    BY <1>3, <2>1, <2>2, MovingEnds
<1>4. CASE ~Moving
  BY <1>2, <1>4 DEF Gone, Sound
<1> QED
  BY <1>3, <1>4

(* Another request's step changes what a request knows about v only by     *)
(* adding a record of the other's person.                                  *)
LEMMA OthersScan ==
  ASSUME Shape, Scans, NEW t \in Threads, Step(t), NEW u \in Threads \ {t}
  PROVE  ScanOf(u)'
<1>1. ScanOf(u)
  BY DEF Scans
<1>2. /\ prev[u].idx \in Nat \ {0} /\ Len(v) \in Nat /\ prev'[u] = prev[u] /\ pc'[u] = pc[u]
      /\ who' = who /\ met' = met /\ (u \in counted' <=> u \in counted)
      /\ (u \in blind' <=> u \in blind)
  BY StepFrame DEF Shape, TypeOK
<1>3. CountedAfterScan(u)'
  BY <1>1, <1>2 DEF ScanOf, CountedAfterScan
<1>4. MatchIsOwn(u)'
  <2> SUFFICES ASSUME pc[u] \in ExistsBranch \cup {"test"}, u \notin counted, ~Gone(u)'
               PROVE  prev[u].idx <= Len(v') /\ v'[prev[u].idx].who = who[u]
    BY <1>2 DEF MatchIsOwn
  <2>1. prev[u].idx <= Len(v) /\ v[prev[u].idx].who = who[u]
    BY <1>1, GoneStays DEF ScanOf, MatchIsOwn
  <2> QED
    BY <1>2, <2>1, StepFrame
<1>5. MetItsOwner(u)'
  <2> SUFFICES ASSUME pc[u] \in ExistsBranch \cup {"test"}, u \in counted, ~Gone(u)',
                      prev[u].idx <= Len(v')
               PROVE  \E w \in met[u] : who[w] = v'[prev[u].idx].who
    BY <1>2 DEF MetItsOwner
  <2>1. CASE prev[u].idx <= Len(v)
    <3>1. PICK w \in met[u] : who[w] = v[prev[u].idx].who
      BY <1>1, <2>1, GoneStays DEF ScanOf, MetItsOwner
    <3>2. v'[prev[u].idx].who = v[prev[u].idx].who
      BY <1>2, <2>1, StepFrame
    <3> QED
      BY <3>1, <3>2
  <2>2. CASE prev[u].idx > Len(v)
    <3>1. Len(v') \in Nat
      BY StepFrame
    <3>2. prev[u].idx \in 1..Len(v')
      BY <1>2, <3>1
    <3>3. who[t] = v'[prev[u].idx].who /\ t \in InFlight
      BY <2>2, <3>2, StepFrame
    <3>4. u \in InFlight
      BY DEF InFlight, ExistsBranch
    <3> QED
      BY <3>3, <3>4 DEF Scans, MetSeen
  <2> QED
    BY <1>2, <2>1, <2>2
<1>6. NoneMissed(u)'
  <2> SUFFICES ASSUME ~OwnRequestsMet(who[u]), u \notin blind, NEW j \in 1..Len(v'),
                      FoundNone(u)' \/ (pc[u] = "find" /\ Sound(u)' /\ j < prev[u].idx)
               PROVE  v'[j].who # who[u]
    BY <1>2 DEF NoneMissed, OwnRequestsMet
  <2>1. FoundNone(u) \/ (pc[u] = "find" /\ Sound(u) /\ j < prev[u].idx)
    BY <1>2, GoneStays DEF FoundNone
  <2>2. u \in InFlight
    BY <2>1 DEF FoundNone, InFlight
  <2>3. CASE j <= Len(v)
    <3>1. j \in 1..Len(v)
      BY <1>2, <2>3
    <3>2. v[j].who # who[u]
      BY <1>1, <2>1, <3>1 DEF ScanOf, NoneMissed
    <3> QED
      BY <3>1, <3>2, StepFrame
  <2>4. CASE j > Len(v)
    <3>1. v'[j].who = who[t] /\ t \in InFlight
      BY <2>4, StepFrame
    <3>2. who[t] # who[u]
      BY <2>2, <3>1 DEF Scans, MetSeen, OwnRequestsMet
    <3> QED
      BY <3>1, <3>2
  <2>5. Len(v') \in Nat
    BY StepFrame
  <2> QED
    BY <1>2, <2>3, <2>4, <2>5
<1> QED
  BY <1>3, <1>4, <1>5, <1>6 DEF ScanOf

(* Steps of a thread that leave v, its storage and the iterators alone and *)
(* neither begin nor end a push_back make no record come or go.            *)
LEMMA SameStorage ==
  ASSUME Shape, NEW t \in Threads, UNCHANGED <<cap, prev>>, Len(v') = Len(v),
         pc[t] # "store", pc'[t] # "store",
         \A u \in Threads \ {t} : pc'[u] = pc[u]
  PROVE  /\ Moving' <=> Moving
         /\ Gone(t)' <=> Gone(t)
         /\ Sound(t)' <=> Sound(t)
<1>1. Moving' <=> Moving
  BY DEF Moving
<1>2. End' = End
  BY DEF End
<1> QED
  BY <1>1, <1>2 DEF Gone, Sound, Dangling

(* A step of the scan itself keeps what the request knows about v.         *)
LEMMA OwnScan ==
  ASSUME Shape, Scans, NEW t \in Threads, Step(t)
  PROVE  ScanOf(t)'
<1>1. ScanOf(t)
  BY DEF Scans
<1>2. /\ \A u \in Threads \ {t} : pc'[u] = pc[u]
      /\ who' = who /\ met' = met /\ Len(v) \in Nat
      /\ prev[t].idx \in Nat \ {0} /\ pc \in [Threads -> Labels]
      /\ prev \in [Threads -> [block : Nat, idx : Nat \ {0}]]
  BY StepFrame DEF Shape, TypeOK
<1> USE <1>1, <1>2 DEF ScanOf, CountedAfterScan, MatchIsOwn, MetItsOwner, NoneMissed, FoundNone,
                 OwnRequestsMet, Goto, LockSites, ExistsBranch, shared, locals, history
<1>3. CASE Lock(t)
  <2>1. UNCHANGED <<cap, prev, v, pc, counted, blind>> /\ pc[t] # "store"
    BY <1>3 DEF Lock
  <2>2. (Gone(t)' <=> Gone(t)) /\ (Sound(t)' <=> Sound(t))
    BY <2>1, SameStorage
  <2> QED
    BY <2>1, <2>2
<1>4. CASE PrivateSection(t)
  <2>1. /\ pc[t] \in DOMAIN Private /\ pc'[t] = Private[pc[t]]
        /\ UNCHANGED <<v, cap, prev, counted, blind>>
    BY <1>4 DEF PrivateSection
  <2>2. pc[t] # "store" /\ pc'[t] # "store"
    BY <2>1, PrivateLabels
  <2>3. Gone(t)' <=> Gone(t)
    BY <2>1, <2>2, SameStorage
  <2> QED
    BY <2>1, <2>3, PrivateLabels
<1>5. CASE ReadClock(t) \/ LocalTime(t) \/ FormatTime(t)
  <2>1. UNCHANGED <<v, cap, prev, counted, blind>> /\ pc[t] \in {"time", "local", "format"}
        /\ pc'[t] \in {"local", "format", "begin"}
    BY <1>5 DEF ReadClock, LocalTime, FormatTime
  <2> QED
    BY <2>1
<1>6. CASE TakeBegin(t)
  BY <1>6 DEF TakeBegin, Begin
<1>7. CASE FindMatch(t)
  <2>1. /\ pc[t] = "find" /\ pc'[t] = "test" /\ UNCHANGED <<v, cap, prev, counted, blind>>
        /\ OnRecord(t) /\ (v[prev[t].idx].who = who[t] \/ Gone(t))
    BY <1>7 DEF FindMatch
  <2>2. Gone(t)' <=> Gone(t)
    BY <2>1, SameStorage
  <2>3. prev[t].idx \in 1..Len(v)
    BY <2>1, OnRecordInBounds
  <2> QED
    BY <2>1, <2>2, <2>3
<1>8. CASE Advance(t)
  <2>1. /\ prev'[t].idx = prev[t].idx + 1 /\ prev'[t].block = prev[t].block
        /\ pc[t] \in {"find", "print"} /\ OnRecord(t)
        /\ pc[t] = "find" => v[prev[t].idx].who # who[t] \/ Gone(t)
        /\ UNCHANGED <<pc, v, cap, counted, blind>>
    BY <1>8 DEF Advance
  <2>2. CountedAfterScan(t)' /\ MatchIsOwn(t)' /\ MetItsOwner(t)'
    BY <2>1
  <2>3. NoneMissed(t)'
    <3>1. \A j \in 1..Len(v) : j < prev[t].idx + 1 => j < prev[t].idx \/ j = prev[t].idx
      OBVIOUS
    <3>2. Sound(t)' => Sound(t)
      BY <2>1 DEF Sound, Dangling, Moving
    <3>3. Sound(t) => ~Gone(t)
      BY DEF Sound, Gone
    <3> QED
      BY <2>1, <3>1, <3>2, <3>3
  <2> QED
    BY <2>2, <2>3
<1>9. CASE FindEnd(t)
  <2>1. /\ pc[t] = "find" /\ pc'[t] = "miss" /\ prev[t] = End
        /\ UNCHANGED <<v, cap, prev, counted>>
        /\ blind' = IF Moving THEN blind \cup {t} ELSE blind
    BY <1>9 DEF FindEnd
  <2>2. t \notin blind' => Sound(t) /\ t \notin blind
    BY <2>1 DEF Sound, Dangling, End
  <2> QED
    BY <2>1, <2>2 DEF End
<1>10. CASE CountMiss(t)
  BY <1>10 DEF CountMiss
<1>11. CASE ReturnEnd(t)
  <2>1. /\ pc[t] = "end" /\ pc'[t] = "test" /\ prev'[t] = End
        /\ UNCHANGED <<v, cap, counted, blind>>
    BY <1>11 DEF ReturnEnd
  <2> QED
    BY <2>1 DEF End
<1>12. CASE Test(t)
  <2>1. /\ pc[t] = "test" /\ UNCHANGED <<v, cap, prev, counted, blind>>
        /\ pc'[t] = IF prev[t] # End THEN "mktime" ELSE "push"
    BY <1>12 DEF Test
  <2>2. Gone(t)' <=> Gone(t)
    BY <2>1, SameStorage
  <2>3. prev[t] = End => t \in counted
    BY <2>1 DEF Gone, Dangling, End
  <2> QED
    BY <2>1, <2>2, <2>3
<1>13. CASE Mktime(t) \/ AddSpan(t)
  <2>1. /\ pc[t] \in ExistsBranch /\ pc'[t] \in ExistsBranch /\ pc[t] # "store" /\ pc'[t] # "store"
        /\ UNCHANGED <<v, cap, prev, counted, blind>>
    BY <1>13 DEF Mktime, AddSpan
  <2>2. Gone(t)' <=> Gone(t)
    BY <2>1, SameStorage
  <2> QED
    BY <2>1, <2>2
<1>14. CASE StoreEnd(t) \/ StoreLeave(t) \/ StoreWork(t)
  <2>1. /\ pc[t] \in ExistsBranch /\ pc'[t] \in ExistsBranch \ {"test"}
        /\ pc[t] # "store" /\ pc'[t] # "store"
        /\ UNCHANGED <<cap, prev, counted, blind>>
    BY <1>14 DEF StoreEnd, StoreLeave, StoreWork
  <2>2. Len(v') = Len(v) /\ \A i \in 1..Len(v) : v'[i].who = v[i].who
    BY <1>14, StoreEffect
  <2>3. Gone(t)' <=> Gone(t)
    BY <2>1, <2>2, SameStorage
  <2>4. CountedAfterScan(t)' /\ NoneMissed(t)'
    BY <2>1
  <2>5. MatchIsOwn(t)' /\ MetItsOwner(t)'
    <3>1. prev[t].idx <= Len(v) => v'[prev[t].idx].who = v[prev[t].idx].who
      BY <2>2
    <3> QED
      BY <2>1, <2>2, <2>3, <3>1
  <2> QED
    BY <2>4, <2>5
<1>15. CASE StampArrival(t)
  BY <1>15 DEF StampArrival
<1>16. CASE PushBack(t)
  BY <1>16 DEF PushBack
<1>17. CASE Finish(t)
  BY <1>17 DEF Finish
<1>18. CASE GetStringAborts(t) \/ UseAfterFree(t) \/ LeaveTimeRace(t)
  <2>1. UNCHANGED <<cap, prev, v, pc, counted, blind>> /\ pc[t] # "store"
    BY <1>18 DEF GetStringAborts, UseAfterFree, LeaveTimeRace, DerefSites
  <2>2. (Gone(t)' <=> Gone(t)) /\ (Sound(t)' <=> Sound(t))
    BY <2>1, SameStorage
  <2> QED
    BY <2>1, <2>2
<1> QED
  BY <1>3, <1>4, <1>5, <1>6, <1>7, <1>8, <1>9, <1>10, <1>11, <1>12, <1>13, <1>14, <1>15, <1>16, <1>17, <1>18 DEF Step

(* A push_back that duplicates a person had to be done by a request that   *)
(* met another of its person, or whose scan had ended in a reallocation.   *)
LEMMA StepDuplicates ==
  ASSUME Shape, Scans, NEW t \in Threads, Step(t)
  PROVE  DuplicatesNeedRace'
<1> DEFINE Excused(p) == OwnRequestsMet(p) \/ \E u \in blind : who[u] = p
<1>1. /\ Len(v) \in Nat /\ Len(v') \in Nat /\ who' = who /\ met' = met
      /\ blind \subseteq blind' /\ blind' \subseteq Threads
  BY StepFrame DEF Shape, TypeOK
<1>2. ASSUME NEW i \in 1..Len(v'), NEW j \in 1..Len(v'), i < j, v'[i].who = v'[j].who
      PROVE  Excused(v'[i].who)
  <2>1. CASE j <= Len(v)
    BY <1>1, <1>2, <2>1, StepFrame DEF Scans, DuplicatesNeedRace
  <2>2. CASE j > Len(v)
    <3>1. /\ j = Len(v) + 1 /\ PushBack(t) /\ v'[j].who = who[t] /\ i \in 1..Len(v)
          /\ v'[i].who = v[i].who
      BY <1>1, <1>2, <2>2, StepFrame
    <3>2. FoundNone(t)
      BY <3>1 DEF PushBack, FoundNone
    <3> QED
      BY <1>2, <3>1, <3>2 DEF Scans, ScanOf, NoneMissed
  <2> QED
    BY <1>1, <2>1, <2>2
<1>3. \A p : Excused(p) => OwnRequestsMet(p)' \/ \E u \in blind' : who'[u] = p
  BY <1>1 DEF OwnRequestsMet
<1> SUFFICES ASSUME NEW i \in 1..Len(v'), NEW j \in 1..Len(v'), i # j, v'[i].who = v'[j].who
             PROVE  Excused(v'[i].who)
  BY <1>3 DEF DuplicatesNeedRace
<1>4. i < j \/ j < i
  BY <1>1
<1> QED
  BY <1>2, <1>4

LEMMA StoreLockedStep ==
  ASSUME Shape, Scans, NEW t \in Threads, Step(t)
  PROVE  StoreLocked'
<1>1. pc \in [Threads -> Labels] /\ NoThread \notin Threads
  BY ThreadsAssumption DEF Shape, TypeOK
<1>2. ASSUME NEW u \in Threads, pc'[u] = "store"
      PROVE  mutex' = u
  <2>1. CASE u = t
    <3>1. pc[t] # "store"
      BY <1>1, <1>2, <2>1, OnlyStores DEF PushBack, Goto
    <3>2. StampArrival(t)
      BY <1>1, <1>2, <2>1, <3>1, PrivateLabels DEF Step, Goto,
         Lock, PrivateSection, ReadClock, LocalTime, FormatTime, TakeBegin, FindMatch, Advance,
         FindEnd, CountMiss, ReturnEnd, Test, Mktime, StoreEnd, StoreLeave, AddSpan, StoreWork,
         PushBack, Finish, GetStringAborts, UseAfterFree, LeaveTimeRace
    <3> QED
      BY <2>1, <3>2 DEF StampArrival
  <2>2. CASE u # t
    <3>1. mutex = u
      BY <1>2, <2>2, StepFrame DEF Scans, StoreLocked
    <3> QED
      BY <1>1, <2>2, <3>1 DEF Step, Unlock,
         Lock, PrivateSection, ReadClock, LocalTime, FormatTime, TakeBegin, FindMatch, Advance,
         FindEnd, CountMiss, ReturnEnd, Test, Mktime, StoreEnd, StoreLeave, AddSpan, StoreWork,
         StampArrival, PushBack, Finish, GetStringAborts, UseAfterFree, LeaveTimeRace
  <2> QED
    BY <2>1, <2>2
<1> QED
  BY <1>2 DEF StoreLocked

LEMMA ScansStep ==
  ASSUME Shape, Scans, Next
  PROVE  Scans'
<1>1. CASE Tick \/ Over
  BY <1>1 DEF Tick, Over, vars, shared, locals, history, Scans, MetSeen, StoreLocked, ScanOf,
     InFlight, DuplicatesNeedRace, OwnRequestsMet, CountedAfterScan, MatchIsOwn, MetItsOwner,
     NoneMissed, FoundNone, Gone, Sound, Dangling, Moving, End
<1>2. ASSUME NEW t \in Threads, Start(t)
      PROVE  Scans'
  <2> USE <1>2
  <2>1. /\ pc[t] = "new" /\ pc' = [pc EXCEPT ![t] = "name"]
        /\ met' = [u \in Threads |-> met[u] \cup (IF u = t THEN InFlight
                                            ELSE IF u \in InFlight THEN {t} ELSE {})]
        /\ UNCHANGED <<v, cap, who, prev, mutex, counted, blind>>
    BY DEF Start, Goto, shared, locals
  <2>2. /\ pc \in [Threads -> Labels] /\ blind \subseteq Threads
        /\ met \in [Threads -> SUBSET Threads]
    BY DEF Shape, TypeOK
  <2>3. MetSeen' /\ StoreLocked'
    <3>1. InFlight' = InFlight \cup {t}
      BY <2>1, <2>2 DEF InFlight
    <3>2. ASSUME NEW x \in InFlight', NEW y \in InFlight', x # y
          PROVE  y \in met'[x]
      <4>1. x \in Threads /\ y \in Threads /\ x \in InFlight \cup {t} /\ y \in InFlight \cup {t}
        BY <3>1, <3>2 DEF InFlight
      <4>2. x \in InFlight /\ y \in InFlight => y \in met[x]
        BY <3>2 DEF Scans, MetSeen
      <4> QED
        BY <2>1, <2>2, <3>2, <4>1, <4>2
    <3>3. StoreLocked'
      BY <2>1, <2>2 DEF Scans, StoreLocked
    <3> QED
      BY <3>2, <3>3 DEF MetSeen
  <2>4. \A p : OwnRequestsMet(p) => OwnRequestsMet(p)'
    BY <2>1, <2>2 DEF OwnRequestsMet
  <2>5. DuplicatesNeedRace'
    BY <2>1, <2>4 DEF Scans, DuplicatesNeedRace
  <2>6. /\ Moving' <=> Moving
        /\ \A u \in Threads : (Gone(u)' <=> Gone(u)) /\ (Sound(u)' <=> Sound(u))
    <3>1. Moving' <=> Moving
      BY <2>1, <2>2 DEF Moving
    <3> QED
      BY <2>1, <3>1 DEF Gone, Sound, Dangling, End
  <2>7. ASSUME NEW u \in Threads
        PROVE  ScanOf(u)'
    <3>1. ScanOf(u)
      BY DEF Scans
    <3>2. CountedAfterScan(u)' /\ MatchIsOwn(u)' /\ MetItsOwner(u)'
      BY <2>1, <2>2, <2>6, <3>1
         DEF ScanOf, CountedAfterScan, MatchIsOwn, MetItsOwner, ExistsBranch
    <3>3. NoneMissed(u)'
      BY <2>1, <2>2, <2>4, <2>6, <3>1 DEF ScanOf, NoneMissed, FoundNone
    <3> QED
      BY <3>2, <3>3 DEF ScanOf
  <2> QED
    BY <2>3, <2>5, <2>7 DEF Scans
<1>3. ASSUME NEW t \in Threads, Step(t)
      PROVE  Scans'
  <2>1. MetSeen'
    <3>1. InFlight' \subseteq InFlight
      BY <1>3, StepFrame DEF InFlight
    <3> QED
      BY <1>3, <3>1, StepFrame DEF Scans, MetSeen
  <2>2. StoreLocked' /\ DuplicatesNeedRace'
    BY <1>3, StepDuplicates, StoreLockedStep
  <2>3. \A u \in Threads : ScanOf(u)'
    BY <1>3, OwnScan, OthersScan
  <2> QED
    BY <2>1, <2>2, <2>3 DEF Scans
<1> QED
  BY <1>1, <1>2, <1>3 DEF Next, Arrive

LEMMA InitScans == Init => Scans
  BY DEF Init, Scans, MetSeen, StoreLocked, ScanOf, InFlight, DuplicatesNeedRace,
         CountedAfterScan, MatchIsOwn, MetItsOwner, NoneMissed, FoundNone, ExistsBranch

LEMMA ScansAlways == Spec => [](Shape /\ Scans)
<1>1. Shape /\ Scans /\ [Next]_vars => Shape' /\ Scans'
  <2>1. CASE UNCHANGED vars
    BY <2>1 DEF vars, shared, locals, history, Shape, TypeOK, Iterators, Dangling, Gone, Sound,
       Moving, End, Scans, MetSeen, StoreLocked, ScanOf, InFlight, DuplicatesNeedRace,
       OwnRequestsMet, CountedAfterScan, MatchIsOwn, MetItsOwner, NoneMissed, FoundNone
  <2> QED
    BY <2>1, ShapeStep, ScansStep
<1> QED
  BY <1>1, InitScans, ShapeAlways, InitShape, PTL DEF Spec

(* Two records of one person prove that two of that person's requests were *)
(* in flight at once, or that the scan of one of them came to the end of v *)
(* while another request was moving the storage: nothing else, however     *)
(* many requests and reallocations there are, makes find_id miss a record. *)
THEOREM DuplicatesNeedRaceAlways == Spec => []DuplicatesNeedRace
<1>1. Scans => DuplicatesNeedRace
  BY DEF Scans
<1> QED
  BY <1>1, ScansAlways, PTL

(* A request whose find_id matched works on a record of its own person.    *)
THEOREM FoundRecordIsOwnAlways == Spec => []FoundRecordIsOwn
<1>1. Scans => FoundRecordIsOwn
  BY DEF Scans, ScanOf, MatchIsOwn, FoundRecordIsOwn
<1> QED
  BY <1>1, ScansAlways, PTL

(* No step removes or reorders records or rewrites an arrival, and the     *)
(* thread whose step changes a record serves its person or has met one     *)
(* that does.                                                              *)
THEOREM OnlyOwnerUpdatesAlways == Spec => OnlyOwnerUpdates
<1> DEFINE Owner(i) ==
      \E t \in InFlight :
        /\ pc'[t] # pc[t]
        /\ \/ who[t] = v[i].who
           \/ t \in counted /\ \E u \in met[t] : who[u] = v[i].who
           Kept(i) ==
      /\ i <= Len(v')
      /\ v'[i].who = v[i].who /\ v'[i].arrive = v[i].arrive /\ v'[i].start = v[i].start
      /\ v'[i] # v[i] => Owner(i)
<1>1. ASSUME Shape, Scans, Next
      PROVE  \A i \in 1..Len(v) : Kept(i)
  <2>1. Len(v) \in Nat /\ pc \in [Threads -> Labels]
    BY <1>1 DEF Shape, TypeOK
  <2>2. CASE v' = v
    BY <2>1, <2>2
  <2>3. ASSUME NEW t \in Threads, PushBack(t)
        PROVE  \A i \in 1..Len(v) : Kept(i)
    <3>1. Len(v') = Len(v) + 1 /\ \A i \in 1..Len(v) : v'[i] = v[i]
      BY <1>1, <2>3, PushBackEffect
    <3> QED
      BY <2>1, <3>1
  <2>4. ASSUME NEW t \in Threads, StoreEnd(t) \/ StoreLeave(t) \/ StoreWork(t),
               NEW i \in 1..Len(v)
        PROVE  Kept(i)
    <3>1. t \in InFlight /\ pc[t] \in ExistsBranch /\ pc'[t] # pc[t]
      BY <2>1, <2>4 DEF StoreEnd, StoreLeave, StoreWork, InFlight, ExistsBranch, Goto
    <3>2. /\ Len(v') = Len(v)
          /\ v'[i].who = v[i].who /\ v'[i].arrive = v[i].arrive /\ v'[i].start = v[i].start
          /\ v'[i] # v[i] => ~Gone(t) /\ i = prev[t].idx
      BY <1>1, <2>4, StoreEffect
    <3>3. ASSUME v'[i] # v[i]
          PROVE  Owner(i)
      <4>1. ~Gone(t) /\ i = prev[t].idx /\ prev[t].idx <= Len(v)
        BY <2>1, <3>2, <3>3
      <4>2. CASE t \in counted
        BY <1>1, <3>1, <4>1, <4>2 DEF Scans, ScanOf, MetItsOwner
      <4>3. CASE t \notin counted
        BY <1>1, <3>1, <4>1, <4>3 DEF Scans, ScanOf, MatchIsOwn
      <4> QED
        BY <4>2, <4>3
    <3> QED
      BY <2>1, <3>2, <3>3
  <2>5. \/ v' = v
        \/ \E t \in Threads : PushBack(t) \/ StoreEnd(t) \/ StoreLeave(t) \/ StoreWork(t)
    BY <1>1 DEF Next, Tick, Over, vars, Arrive, Start, Step, shared,
       Lock, PrivateSection, ReadClock, LocalTime, FormatTime, TakeBegin, FindMatch, Advance,
       FindEnd, CountMiss, ReturnEnd, Test, Mktime, AddSpan, StampArrival, Finish,
       GetStringAborts, UseAfterFree, LeaveTimeRace
  <2> QED
    BY <2>2, <2>3, <2>4, <2>5
<1>2. Shape /\ Scans /\ [Next]_vars => [\A i \in 1..Len(v) : Kept(i)]_vars
  BY <1>1
<1> QED
  BY <1>2, ScansAlways, PTL DEF Spec, OnlyOwnerUpdates

-----------------------------------------------------------------------------

(* The requests that size counts and whose record is not in v yet: those   *)
(* of SizeCoversRecords, and those that have returned v.end() and not      *)
(* compared it with v.end() yet.                                           *)
OnItsWay(t) == pc[t] \in {"end", "push", "store"} \/ (pc[t] = "test" /\ t \in counted)

Pending == {t \in Threads : OnItsWay(t)}

Covered == IsFiniteSet(Pending) /\ Len(v) + Cardinality(Pending) <= size

(* A thread is added to them by CountMiss and removed by PushBack, each    *)
(* together with what it does to size and to v; nothing else adds one.     *)
LEMMA PendingStep ==
  ASSUME Shape, Scans, NEW t \in Threads, Step(t)
  PROVE  \/ CountMiss(t) /\ size' = size + 1 /\ v' = v /\ Pending' \subseteq Pending \cup {t}
         \/ /\ PushBack(t) /\ size' = size /\ Len(v') = Len(v) + 1
            /\ t \in Pending /\ Pending' = Pending \ {t}
         \/ size' = size /\ Len(v') = Len(v) /\ Pending' \subseteq Pending
<1>1. \A u \in Threads \ {t} : OnItsWay(u)' <=> OnItsWay(u)
  BY StepFrame DEF OnItsWay
<1>2. pc \in [Threads -> Labels]
  BY DEF Shape, TypeOK
<1>3. CASE CountMiss(t)
  BY <1>1, <1>3 DEF CountMiss, Pending
<1>4. CASE PushBack(t)
  <2>1. OnItsWay(t) /\ ~OnItsWay(t)'
    BY <1>2, <1>4 DEF PushBack, Goto, OnItsWay
  <2>2. size' = size /\ Len(v') = Len(v) + 1
    BY <1>4, PushBackEffect DEF PushBack
  <2> QED
    BY <1>1, <1>4, <2>1, <2>2 DEF Pending
<1>5. CASE StoreEnd(t) \/ StoreLeave(t) \/ StoreWork(t)
  <2>1. size' = size /\ ~OnItsWay(t)'
    BY <1>2, <1>5 DEF StoreEnd, StoreLeave, StoreWork, Goto, OnItsWay
  <2> QED
    BY <1>1, <1>5, <2>1, StoreEffect DEF Pending
<1>6. CASE Test(t)
  <2>1. prev[t] = End => t \in counted
    <3>1. pc[t] = "test" /\ MatchIsOwn(t) /\ Len(v) \in Nat
      BY <1>6 DEF Test, Scans, ScanOf, Shape, TypeOK
    <3>2. prev[t] = End => ~Gone(t) /\ ~(prev[t].idx <= Len(v))
      BY <3>1 DEF End, Gone, Dangling
    <3> QED
      BY <3>1, <3>2 DEF MatchIsOwn
  <2>2. OnItsWay(t)' => OnItsWay(t)
    BY <1>2, <1>6, <2>1 DEF Test, Goto, OnItsWay, history
  <2> QED
    BY <1>1, <1>6, <2>2 DEF Test, shared, Pending
<1>7. CASE FindMatch(t)
  <2>1. t \notin counted
    BY <1>7 DEF FindMatch, Scans, ScanOf, CountedAfterScan, ExistsBranch
  <2>2. OnItsWay(t)' => OnItsWay(t)
    BY <1>2, <1>7, <2>1 DEF FindMatch, Goto, OnItsWay, history
  <2> QED
    BY <1>1, <1>7, <2>2 DEF FindMatch, shared, Pending
<1>8. CASE ReturnEnd(t)
  BY <1>1, <1>2, <1>8 DEF ReturnEnd, Goto, OnItsWay, shared, Pending
<1>9. CASE StampArrival(t)
  BY <1>1, <1>2, <1>9 DEF StampArrival, Goto, OnItsWay, shared, Pending
<1>10. CASE ~(CountMiss(t) \/ PushBack(t) \/ StoreEnd(t) \/ StoreLeave(t) \/ StoreWork(t)
              \/ Test(t) \/ FindMatch(t) \/ ReturnEnd(t) \/ StampArrival(t))
  <2>1. UNCHANGED <<v, size, counted>>
    BY <1>10 DEF Step, shared, history, Lock, PrivateSection, ReadClock, LocalTime, FormatTime,
       TakeBegin, Advance, FindEnd, Mktime, AddSpan, Finish, GetStringAborts, UseAfterFree, LeaveTimeRace
  <2>2. OnItsWay(t)' => OnItsWay(t)
    BY <1>2, <1>10, <2>1, PrivateLabels DEF Step, Goto, OnItsWay, Lock, PrivateSection, ReadClock,
       LocalTime, FormatTime, TakeBegin, Advance, FindEnd, Mktime, AddSpan, Finish,
       GetStringAborts, UseAfterFree, LeaveTimeRace
  <2> QED
    BY <1>1, <2>1, <2>2 DEF Pending
<1> QED
  BY <1>3, <1>4, <1>5, <1>6, <1>7, <1>8, <1>9, <1>10

LEMMA CoveredStep ==
  ASSUME Shape, Scans, Covered, Next
  PROVE  Covered'
<1>1. /\ Len(v) \in Nat /\ size \in Nat /\ Cardinality(Pending) \in Nat
      /\ IsFiniteSet(Pending)
  BY FS_CardinalityType DEF Shape, TypeOK, Covered
<1>2. ASSUME UNCHANGED <<v, size>>, Pending' \subseteq Pending
      PROVE  Covered'
  <2>1. /\ IsFiniteSet(Pending') /\ Cardinality(Pending') <= Cardinality(Pending)
        /\ Cardinality(Pending') \in Nat
    BY <1>1, <1>2, FS_Subset, FS_CardinalityType
  <2> QED
    BY <1>1, <1>2, <2>1 DEF Covered
<1>3. CASE Tick \/ Over
  BY <1>2, <1>3 DEF Tick, Over, vars, shared, history, Pending, OnItsWay
<1>4. ASSUME NEW t \in Threads, Start(t)
      PROVE  Covered'
  <2>1. pc \in [Threads -> Labels]
    BY DEF Shape, TypeOK
  <2>2. UNCHANGED <<v, size>> /\ Pending' \subseteq Pending
    BY <1>4, <2>1 DEF Start, Goto, shared, Pending, OnItsWay
  <2> QED
    BY <1>2, <2>2
<1>5. ASSUME NEW t \in Threads, Step(t)
      PROVE  Covered'
  <2>1. /\ IsFiniteSet(Pending \cup {t}) /\ Cardinality(Pending \cup {t}) <= Cardinality(Pending) + 1
        /\ t \in Pending => IsFiniteSet(Pending \ {t})
                           /\ Cardinality(Pending \ {t}) = Cardinality(Pending) - 1
    <3>1. /\ IsFiniteSet(Pending \cup {t})
          /\ Cardinality(Pending \cup {t}) =
               IF t \in Pending THEN Cardinality(Pending) ELSE Cardinality(Pending) + 1
      BY <1>1, FS_AddElement, Zenon
    <3>2. /\ IsFiniteSet(Pending \ {t})
          /\ Cardinality(Pending \ {t}) =
               IF t \in Pending THEN Cardinality(Pending) - 1 ELSE Cardinality(Pending)
      BY <1>1, FS_RemoveElement, Zenon
    <3> QED
      BY <1>1, <3>1, <3>2
  <2>2. CASE CountMiss(t) /\ size' = size + 1 /\ v' = v /\ Pending' \subseteq Pending \cup {t}
    <3>1. /\ IsFiniteSet(Pending') /\ Cardinality(Pending') <= Cardinality(Pending \cup {t})
          /\ Cardinality(Pending') \in Nat /\ Cardinality(Pending \cup {t}) \in Nat
      BY <2>1, <2>2, FS_Subset, FS_CardinalityType
    <3> QED
      BY <1>1, <2>1, <2>2, <3>1 DEF Covered
  <2>3. CASE /\ PushBack(t) /\ size' = size /\ Len(v') = Len(v) + 1
             /\ t \in Pending /\ Pending' = Pending \ {t}
    BY <1>1, <2>1, <2>3 DEF Covered
  <2>4. CASE size' = size /\ Len(v') = Len(v) /\ Pending' \subseteq Pending
    <3>1. /\ IsFiniteSet(Pending') /\ Cardinality(Pending') <= Cardinality(Pending)
          /\ Cardinality(Pending') \in Nat
      BY <1>1, <2>4, FS_Subset, FS_CardinalityType
    <3> QED
      BY <1>1, <2>4, <3>1 DEF Covered
  <2> QED
    BY <1>5, <2>2, <2>3, <2>4, PendingStep
<1> QED
  BY <1>3, <1>4, <1>5 DEF Next, Arrive

(* size is never behind the records in v and on their way there, although  *)
(* it is incremented before push_back and in a critical section of its own.*)
THEOREM SizeCoversRecordsAlways == Spec => []SizeCoversRecords
<1>1. Init => Covered
  <2> SUFFICES ASSUME Init PROVE Covered
    OBVIOUS
  <2>1. Pending = {} /\ Len(v) = 0 /\ size = 0
    BY DEF Init, Pending, OnItsWay
  <2> QED
    BY <2>1, FS_EmptySet DEF Covered
<1>2. Shape /\ Scans /\ Covered /\ [Next]_vars => Covered'
  <2>1. CASE UNCHANGED vars
    BY <2>1 DEF vars, shared, history, Covered, Pending, OnItsWay
  <2> QED
    BY <2>1, CoveredStep
<1>3. Shape /\ Covered => SizeCoversRecords
  <2> SUFFICES ASSUME Shape, Covered PROVE SizeCoversRecords
    OBVIOUS
  <2> DEFINE Counted == {t \in Threads : pc[t] \in {"end", "push", "store"}}
  <2>1. Counted \subseteq Pending
    BY DEF Pending, OnItsWay
  <2>2. /\ Cardinality(Counted) <= Cardinality(Pending) /\ Cardinality(Counted) \in Nat
        /\ Cardinality(Pending) \in Nat
    BY <2>1, FS_Subset, FS_CardinalityType DEF Covered
  <2>3. Len(v) \in Nat /\ size \in Nat
    BY DEF Shape, TypeOK
  <2> QED
    BY <2>2, <2>3 DEF Covered, SizeCoversRecords
<1> QED
  BY <1>1, <1>2, <1>3, ScansAlways, PTL DEF Spec

=============================================================================
