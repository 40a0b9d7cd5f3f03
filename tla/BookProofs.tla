----------------------------- MODULE BookProofs -----------------------------
(***************************************************************************)
(* More proofs about Attendance, for any number of requests in flight: a   *)
(* request ends the process only for the reasons of DiesForAReason, and a  *)
(* person whose requests are served alone has the book of AttendanceBook,  *)
(* whatever the server does for the others.                                *)
(***************************************************************************)
EXTENDS AttendanceProofs

(* Where a request relies on its iterator.                                 *)
Following == ExistsBranch \cup {"find", "test", "print"}

(* While a reallocation is under way every other request in flight is one  *)
(* it moved the storage under, or waits for the mutex in get_string; and   *)
(* only those hold an iterator into storage that was freed.                *)
Movers ==
  /\ \A t, u \in Threads :
       (pc[u] = "store" /\ Len(v) = cap /\ t \in InFlight \ {u}) => t \in moved \/ pc[t] = "name"
  /\ \A t \in Threads : (pc[t] \in Following /\ Dangling(t)) => t \in moved

LEMMA MoversStep ==
  ASSUME Shape, Scans, Movers, NEW t \in Threads, Step(t)
  PROVE  Movers'
<1>1. /\ pc \in [Threads -> Labels] /\ prev \in [Threads -> [block : Nat, idx : Nat \ {0}]]
      /\ Len(v) \in Nat /\ cap \in Nat /\ NoThread \notin Threads
      /\ \A u \in Threads \ {t} : pc'[u] = pc[u] /\ prev'[u] = prev[u]
      /\ InFlight' \subseteq InFlight /\ t \in InFlight
  BY ThreadsAssumption, StepFrame DEF Shape, TypeOK, InFlight
<1>2. moved \subseteq moved'
  BY DEF Step, history,
     Lock, PrivateSection, ReadClock, LocalTime, FormatTime, TakeBegin, FindMatch, Advance,
     FindEnd, CountMiss, ReturnEnd, Test, Mktime, StoreEnd, StoreLeave, AddSpan, StoreWork,
     StampArrival, PushBack, Finish, GetStringAborts, UseAfterFree, LeaveTimeRace
<1>3. ASSUME NEW x \in Threads, NEW u \in Threads,
             pc'[u] = "store", Len(v') = cap', x \in InFlight' \ {u}
      PROVE  x \in moved' \/ pc'[x] = "name"
  <2>1. CASE u = t
    <3>1. pc[t] # "store"
      BY <1>1, <1>3, <2>1, OnlyStores DEF PushBack, Goto
    <3>2. StampArrival(t)
      BY <1>1, <1>3, <2>1, <3>1, PrivateLabels DEF Step, Goto,
         Lock, PrivateSection, ReadClock, LocalTime, FormatTime, TakeBegin, FindMatch, Advance,
         FindEnd, CountMiss, ReturnEnd, Test, Mktime, StoreEnd, StoreLeave, AddSpan, StoreWork,
         PushBack, Finish, GetStringAborts, UseAfterFree, LeaveTimeRace
    <3>3. Len(v) = cap /\ moved' = moved \cup (InFlight \ {t})
      BY <1>3, <3>2 DEF StampArrival, shared
    <3> QED
      BY <1>1, <1>3, <2>1, <3>3
  <2>2. CASE u # t
    <3>1. pc[u] = "store" /\ mutex = u
      BY <1>1, <1>3, <2>2 DEF Scans, StoreLocked
    <3>2. Len(v) = cap /\ x \in InFlight \ {u}
      <4>1. ~PushBack(t)
        BY <2>2, <3>1 DEF PushBack, Unlock
      <4> QED
        BY <1>1, <1>3, <4>1, StorageFrame
    <3>3. CASE pc[x] = "name" /\ x = t
      <4>1. GetStringAborts(t)
        BY <1>1, <2>2, <3>1, <3>3 DEF Step, Unlock, DerefSites,
           Lock, PrivateSection, ReadClock, LocalTime, FormatTime, TakeBegin, FindMatch, Advance,
           FindEnd, CountMiss, ReturnEnd, Test, Mktime, StoreEnd, StoreLeave, AddSpan, StoreWork,
           StampArrival, PushBack, Finish, UseAfterFree, LeaveTimeRace
      <4> QED
        BY <3>3, <4>1 DEF GetStringAborts
    <3> QED
      BY <1>1, <1>2, <3>1, <3>2, <3>3 DEF Movers
  <2> QED
    BY <2>1, <2>2
<1>4. ASSUME NEW x \in Threads, pc'[x] \in Following, Dangling(x)'
      PROVE  x \in moved'
  <2>1. CASE x = t
    <3>1. CASE TakeBegin(t) \/ ReturnEnd(t)
      BY <1>1, <1>4, <2>1, <3>1 DEF TakeBegin, ReturnEnd, Begin, End, Dangling, shared
    <3>2. CASE ~(TakeBegin(t) \/ ReturnEnd(t))
      <4>1. pc[t] \in Following
        <5>1. CASE PrivateSection(t)
          <6>1. pc[t] \in DOMAIN Private /\ Private[pc[t]] \in Following
            BY <1>1, <1>4, <2>1, <5>1 DEF PrivateSection, Goto
          <6>2. Private[pc[t]] \in ExistsBranch
            BY <6>1, PrivateLabels DEF Following
          <6> QED
            BY <6>1, <6>2, PrivateLabels DEF Following
        <5>2. CASE pc'[t] = pc[t]
          BY <1>4, <2>1, <5>2
        <5>3. CASE ~PrivateSection(t) /\ pc'[t] # pc[t]
          <6>1. pc'[t] \notin {"id", "local", "format", "begin", "miss", "end", "push", "store",
                              "show", "done"}
            BY <1>4, <2>1 DEF Following, ExistsBranch
          <6>2. pc[t] \in {"find", "test", "print", "mktime", "endtime", "leavetime", "add", "carry"}
            BY <1>1, <3>2, <5>3, <6>1 DEF Step, Goto,
               Lock, ReadClock, LocalTime, FormatTime, FindMatch, Advance,
               FindEnd, CountMiss, Test, Mktime, StoreEnd, StoreLeave, AddSpan, StoreWork,
               StampArrival, PushBack, Finish, GetStringAborts, UseAfterFree, LeaveTimeRace
          <6> QED
            BY <6>2 DEF Following, ExistsBranch
        <5> QED
          BY <5>1, <5>2, <5>3
      <4>2. pc[t] # "store" /\ pc'[t] # "done"
        BY <1>4, <2>1, <4>1 DEF Following, ExistsBranch
      <4>3. prev'[t].block = prev[t].block
        BY <1>1, <3>2, <4>2 DEF Step, locals, Goto,
           Lock, PrivateSection, ReadClock, LocalTime, FormatTime, FindMatch, Advance,
           FindEnd, CountMiss, Test, Mktime, StoreEnd, StoreLeave, AddSpan, StoreWork,
           StampArrival, PushBack, Finish, GetStringAborts, UseAfterFree, LeaveTimeRace
      <4>4. cap' = cap
        BY <4>2, StorageFrame DEF PushBack
      <4> QED
        BY <1>2, <1>4, <2>1, <4>1, <4>3, <4>4 DEF Movers, Dangling
    <3> QED
      BY <3>1, <3>2
  <2>2. CASE x # t
    <3>1. pc[x] \in Following /\ prev'[x] = prev[x] /\ x \in InFlight
      BY <1>1, <1>4, <2>2 DEF Following, ExistsBranch, InFlight
    <3>2. CASE Dangling(x)
      BY <1>2, <3>1, <3>2 DEF Movers
    <3>3. CASE ~Dangling(x)
      <4>1. PushBack(t) /\ Len(v) = cap
        BY <1>4, <3>1, <3>3, StorageFrame, PushBackEffect DEF Dangling
      <4>2. x \in moved \/ pc[x] = "name"
        BY <2>2, <3>1, <4>1 DEF Movers, PushBack
      <4> QED
        BY <1>2, <3>1, <4>2 DEF Following, ExistsBranch
    <3> QED
      BY <3>2, <3>3
  <2> QED
    BY <2>1, <2>2
<1> QED
  BY <1>3, <1>4 DEF Movers

LEMMA MoversAlways == Spec => [](Shape /\ Scans /\ Movers)
<1>1. Init => Movers
  BY DEF Init, Movers, InFlight, Following, ExistsBranch
<1>2. ASSUME Shape, Scans, Movers, Next
      PROVE  Movers'
  <2>1. CASE Tick \/ Over
    BY <1>2, <2>1 DEF Tick, Over, vars, shared, locals, history, Movers, InFlight, Dangling
  <2>2. ASSUME NEW t \in Threads, Start(t)
        PROVE  Movers'
    <3>1. /\ pc[t] = "new" /\ pc' = [pc EXCEPT ![t] = "name"] /\ pc \in [Threads -> Labels]
          /\ UNCHANGED <<v, cap, prev, moved>>
      BY <1>2, <2>2 DEF Start, Goto, shared, locals, Shape, TypeOK
    <3>2. InFlight' = InFlight \cup {t}
      BY <3>1 DEF InFlight
    <3> QED
      BY <1>2, <3>1, <3>2 DEF Movers, Dangling, Following, ExistsBranch
  <2> QED
    BY <1>2, <2>1, <2>2, MoversStep DEF Next, Arrive
<1>3. Shape /\ Scans /\ Movers /\ [Next]_vars => Movers'
  <2>1. CASE UNCHANGED vars
    BY <2>1 DEF vars, shared, locals, history, Movers, InFlight, Dangling
  <2> QED
    BY <2>1, <1>2
<1> QED
  BY <1>1, <1>3, ScansAlways, PTL DEF Spec

(* A request ends the process only by an empty query, under a reallocation *)
(* of another request, or at a leave_time that another request is at too:  *)
(* a request alone in the server ends it by an empty query or not at all,  *)
(* its own push_back leaves no iterator behind that it still follows.      *)
THEOREM DiesForAReasonAlways == Spec => DiesForAReason
<1>1. ASSUME Shape, Scans, Movers, Next, alive, ~alive'
      PROVE  \E t \in InFlight : MayDie(t)
  <2>1. PICK t \in Threads : Step(t)
    BY <1>1 DEF Next, Tick, Over, vars, Arrive, Start
  <2>2. t \in InFlight
    BY <1>1, <2>1, StepFrame
  <2>3. \/ GetStringAborts(t)
        \/ UseAfterFree(t)
        \/ LeaveTimeRace(t)
    BY <1>1, <2>1 DEF Step,
       Lock, PrivateSection, ReadClock, LocalTime, FormatTime, TakeBegin, FindMatch, Advance,
       FindEnd, CountMiss, ReturnEnd, Test, Mktime, StoreEnd, StoreLeave, AddSpan, StoreWork,
       StampArrival, PushBack, Finish
  <2>4. CASE GetStringAborts(t) \/ LeaveTimeRace(t)
    BY <2>2, <2>4 DEF GetStringAborts, LeaveTimeRace, MayDie
  <2>5. CASE UseAfterFree(t)
    <3>1. pc[t] \in Following /\ pc[t] # "store" /\ pc[t] # "name" /\ Gone(t)
      BY <2>5 DEF UseAfterFree, DerefSites, Following, ExistsBranch
    <3>2. CASE Dangling(t)
      BY <1>1, <2>2, <3>1, <3>2 DEF Movers, MayDie
    <3>3. CASE Moving
      <4>1. PICK u \in Threads : pc[u] = "store" /\ Len(v) = cap
        BY <3>3 DEF Moving
      <4> QED
        BY <1>1, <2>2, <3>1, <4>1 DEF Movers, MayDie
    <3> QED
      BY <3>1, <3>2, <3>3 DEF Gone
  <2> QED
    BY <2>3, <2>4, <2>5
<1>2. Shape /\ Scans /\ Movers /\ [Next]_vars
        => [alive /\ ~alive' => \E t \in InFlight : MayDie(t)]_vars
  BY <1>1
<1> QED
  BY <1>2, MoversAlways, PTL DEF Spec, DiesForAReason

-----------------------------------------------------------------------------

(* What befalls a request beside others is remembered as having met them.  *)
Encounters ==
  /\ \A t, u \in Threads : u \in met[t] => t \in met[u]
  /\ \A t \in moved \cup blind : met[t] # {}

(* A request that has met no other.                                        *)
Solo(t) == met[t] = {}

(* Steps between the test and the write that makes the visit, and those    *)
(* before them that already know the time of it.                           *)
BeforeVisit == {"begin", "find", "miss", "end", "test", "push", "store",
                "mktime", "endtime", "leavetime"}

(* at is a moment that is past, and not before anything in the book.       *)
Newest(at) ==
  /\ at \in 0..clock
  /\ \A i \in 1..Len(v) : v[i].arrive <= at /\ v[i].leave <= at

(* No time is ahead of the clock, and the records of people whose requests *)
(* are served alone say when they arrived.                                 *)
Clocked ==
  /\ tm \in 0..clock
  /\ \A t \in Threads : /\ local_time[t] \in -1..clock
                        /\ pc[t] \in {"local", "endtime", "store"} => reg[t] \in 0..clock
  /\ \A i \in 1..Len(v) : v[i].arrive \in -1..clock /\ v[i].leave \in -1..clock

Stamped ==
  \A i \in 1..Len(v) :
    Quiet(v[i].who) => v[i].arrive \in 0..clock /\ v[i].start = v[i].arrive

(* A request that is alone: it writes where its scan matched or pushes     *)
(* where it found nothing, the static struct tm still holds its time when  *)
(* it formats it, signs in with it or signs out with it, and that time is  *)
(* the latest one.                                                         *)
Follows(t) ==
  /\ (pc[t] = "test" /\ t \in counted) => prev[t] = End
  /\ pc[t] \in ExistsBranch => t \notin counted

Stamps(t) ==
  /\ pc[t] = "local" => Newest(reg[t])
  /\ pc[t] = "format" => Newest(tm)
  /\ pc[t] \in BeforeVisit => local_time[t] = tm /\ Newest(tm)
  /\ pc[t] \in {"endtime", "store"} => reg[t] = tm

Solos == \A t \in Threads : Solo(t) => Follows(t) /\ Stamps(t)

Timely == Encounters /\ Clocked /\ Stamped /\ Solos

(* A request in flight that has met no other is the only one, and nothing  *)
(* is gone from under it.                                                  *)
LEMMA SoloIsAlone ==
  ASSUME Scans, Movers, Timely, NEW t \in InFlight, Solo(t)
  PROVE  /\ InFlight = {t}
         /\ pc[t] # "store" => ~Moving
         /\ pc[t] \in Following => ~Gone(t)
<1>1. InFlight = {t}
  BY DEF Scans, MetSeen, Solo
<1>2. pc[t] # "store" => ~Moving
  BY <1>1 DEF Moving, InFlight
<1>3. pc[t] \in Following => ~Gone(t)
  <2>1. t \notin moved /\ t \in Threads
    BY DEF Timely, Encounters, Solo, InFlight
  <2> QED
    BY <1>2, <2>1 DEF Movers, Gone, Following, ExistsBranch
<1> QED
  BY <1>1, <1>2, <1>3

(* A request that is not in flight relies on nothing.                      *)
LEMMA IdleFollows ==
  ASSUME NEW l, l \in {"new", "done", "name"}
  PROVE  /\ l \notin Following /\ l \notin ExistsBranch /\ l \notin BeforeVisit
         /\ l \notin {"test", "local", "format", "endtime", "leavetime", "store"}
BY DEF Following, ExistsBranch, BeforeVisit

LEMMA EncountersStep ==
  ASSUME Shape, Scans, Timely, NEW t \in Threads, Step(t)
  PROVE  Encounters'
<1>1. met' = met /\ blind' \subseteq blind \cup {t} /\ t \in InFlight
  BY StepFrame
<1>2. moved \subseteq Threads /\ blind \subseteq Threads
  BY DEF Shape, TypeOK
<1>3. CASE FindEnd(t)
  <2>1. moved' = moved /\ pc[t] = "find" /\ (t \in blind' => t \in blind \/ Moving)
    BY <1>3 DEF FindEnd
  <2>2. Moving => met[t] # {}
    <3>1. ASSUME Moving PROVE met[t] # {}
      <4>1. PICK u \in Threads : pc[u] = "store"
        BY <3>1 DEF Moving
      <4>2. u \in InFlight /\ u # t
        BY <2>1, <4>1 DEF InFlight
      <4> QED
        BY <1>1, <4>2 DEF Scans, MetSeen
    <3> QED
      BY <3>1
  <2> QED
    BY <1>1, <2>1, <2>2 DEF Timely, Encounters
<1>4. CASE StampArrival(t)
  <2>1. blind' = blind /\ moved' \subseteq moved \cup (InFlight \ {t})
    BY <1>4 DEF StampArrival
  <2>2. \A u \in InFlight \ {t} : met[u] # {}
    BY <1>1 DEF Scans, MetSeen
  <2> QED
    BY <1>1, <2>1, <2>2 DEF Timely, Encounters
<1>5. CASE ~(FindEnd(t) \/ StampArrival(t))
  <2>1. UNCHANGED <<moved, blind>>
    BY <1>5 DEF Step, history,
       Lock, PrivateSection, ReadClock, LocalTime, FormatTime, TakeBegin, FindMatch, Advance,
       CountMiss, ReturnEnd, Test, Mktime, StoreEnd, StoreLeave, AddSpan, StoreWork,
       PushBack, Finish, GetStringAborts, UseAfterFree, LeaveTimeRace
  <2> QED
    BY <1>1, <2>1 DEF Timely, Encounters
<1> QED
  BY <1>3, <1>4, <1>5

LEMMA ClockStill ==
  ASSUME NEW t \in Threads, Step(t)
  PROVE  clock' = clock
BY DEF Step,
   Lock, PrivateSection, ReadClock, LocalTime, FormatTime, TakeBegin, FindMatch, Advance,
   FindEnd, CountMiss, ReturnEnd, Test, Mktime, StoreEnd, StoreLeave, AddSpan, StoreWork,
   StampArrival, PushBack, Finish, GetStringAborts, UseAfterFree, LeaveTimeRace

(* What the stores of the sign-out branch do to the times of a record.     *)
LEMMA StoreLeavesTimes ==
  ASSUME Shape, NEW t \in Threads, StoreEnd(t) \/ StoreLeave(t) \/ StoreWork(t)
  PROVE  /\ \A i \in 1..Len(v) : v'[i].leave = v[i].leave
              \/ (StoreLeave(t) /\ ~Gone(t) /\ i = prev[t].idx /\ v'[i].leave = local_time[t])
         /\ \A i \in 1..Len(v) : v'[i].end = v[i].end
              \/ (StoreEnd(t) /\ ~Gone(t) /\ i = prev[t].idx /\ v'[i].end = reg[t])
         /\ (~Gone(t) /\ StoreEnd(t)) => v'[prev[t].idx].end = reg[t]
         /\ (~Gone(t) /\ StoreLeave(t)) => v'[prev[t].idx].leave = local_time[t]
<1>1. pc[t] \in ExistsBranch
  BY DEF StoreEnd, StoreLeave, StoreWork, ExistsBranch
<1>2. CASE Gone(t)
  BY <1>2 DEF StoreEnd, StoreLeave, StoreWork, WriteThrough
<1>3. CASE ~Gone(t)
  <2>1. prev[t].idx \in 1..Len(v) /\ reg[t] \in Int /\ local_time[t] \in Int /\ v \in Seq(Node)
    BY <1>1, <1>3, WritesKeepArrival DEF Gone, Shape, TypeOK, Node
  <2>2. ASSUME NEW n \in Node, NEW x \in Int
        PROVE  /\ [n EXCEPT !.end = x].end = x /\ [n EXCEPT !.end = x].leave = n.leave
               /\ [n EXCEPT !.leave = x].leave = x /\ [n EXCEPT !.leave = x].end = n.end
               /\ [n EXCEPT !.worked = x].leave = n.leave /\ [n EXCEPT !.worked = x].end = n.end
               /\ [n EXCEPT !.end = x] \in Node /\ [n EXCEPT !.leave = x] \in Node
               /\ [n EXCEPT !.worked = x] \in Node
    BY DEF Node
  <2>3. PICK n \in Node : n = v[prev[t].idx]
    BY <2>1
  <2>7. reg[t] \in Int /\ local_time[t] \in Int
    BY <2>1
  <2>4. PICK node : /\ WriteThrough(t, node) /\ node \in Node
                    /\ \/ (StoreEnd(t) /\ node.end = reg[t] /\ node.leave = n.leave)
                       \/ (StoreLeave(t) /\ node.leave = local_time[t] /\ node.end = n.end)
                       \/ (StoreWork(t) /\ node.leave = n.leave /\ node.end = n.end)
    <3>1. CASE StoreEnd(t)
      <4>1. PICK m : m = [n EXCEPT !.end = reg[t]]
        OBVIOUS
      <4>2. WriteThrough(t, m)
        BY <2>3, <3>1, <4>1 DEF StoreEnd
      <4>3. m \in Node /\ m.end = reg[t] /\ m.leave = n.leave
        BY <2>2, <2>7, <4>1
      <4> QED
        BY <3>1, <4>2, <4>3
    <3>2. CASE StoreLeave(t)
      <4>1. PICK m : m = [n EXCEPT !.leave = local_time[t]]
        OBVIOUS
      <4>2. WriteThrough(t, m)
        BY <2>3, <3>2, <4>1 DEF StoreLeave
      <4>3. m \in Node /\ m.leave = local_time[t] /\ m.end = n.end
        BY <2>2, <2>7, <4>1
      <4> QED
        BY <3>2, <4>2, <4>3
    <3>3. CASE StoreWork(t)
      <4>1. PICK m : m = [n EXCEPT !.worked = reg[t]]
        OBVIOUS
      <4>2. WriteThrough(t, m)
        BY <2>3, <3>3, <4>1 DEF StoreWork
      <4>3. m \in Node /\ m.leave = n.leave /\ m.end = n.end
        BY <2>2, <2>7, <4>1
      <4> QED
        BY <3>3, <4>2, <4>3
    <3> QED
      BY <3>1, <3>2, <3>3
  <2>5. \A i \in 1..Len(v) : v'[i] = IF i = prev[t].idx THEN node ELSE v[i]
    BY <1>1, <1>3, <2>4, WriteThroughEffect
  <2>6. /\ StoreEnd(t) => ~StoreLeave(t) /\ ~StoreWork(t)
        /\ StoreLeave(t) => ~StoreWork(t)
    BY DEF StoreEnd, StoreLeave, StoreWork
  <2> QED
    BY <1>3, <2>1, <2>3, <2>4, <2>5, <2>6
<1> QED
  BY <1>2, <1>3

(* Every time that is stored was read off the clock.                       *)
LEMMA ClockedStep ==
  ASSUME Shape, Timely, NEW t \in Threads, Step(t)
  PROVE  Clocked'
<1>1. /\ clock' = clock /\ clock \in Nat /\ Clocked
      /\ \A u \in Threads \ {t} : pc'[u] = pc[u]
      /\ pc \in [Threads -> Labels] /\ reg \in [Threads -> Int] /\ local_time \in [Threads -> Int]
      /\ Len(v) \in Nat
  <2>1. clock' = clock
    BY ClockStill
  <2>2. \A u \in Threads \ {t} : pc'[u] = pc[u]
    BY StepFrame
  <2>3. clock \in Nat /\ pc \in [Threads -> Labels] /\ reg \in [Threads -> Int]
        /\ local_time \in [Threads -> Int] /\ Len(v) \in Nat
    BY DEF Shape, TypeOK
  <2> QED
    BY <2>1, <2>2, <2>3 DEF Timely
<1> USE <1>1 DEF Clocked, Goto, shared, locals
<1>2. CASE Lock(t) \/ GetStringAborts(t) \/ UseAfterFree(t) \/ LeaveTimeRace(t)
  BY <1>2 DEF Lock, GetStringAborts, UseAfterFree, LeaveTimeRace
<1>3. CASE PrivateSection(t)
  <2>1. pc'[t] \in {"id", "time", "day", "hour", "min", "sec", "mysql", "show"}
    BY <1>3, PrivateLabels DEF PrivateSection
  <2> QED
    BY <1>3, <2>1 DEF PrivateSection
<1>4. CASE ReadClock(t)
  BY <1>4 DEF ReadClock
<1>5. CASE LocalTime(t)
  BY <1>5 DEF LocalTime
<1>6. CASE FormatTime(t)
  BY <1>6 DEF FormatTime
<1>7. CASE TakeBegin(t) \/ FindMatch(t) \/ Advance(t) \/ FindEnd(t)
  BY <1>7 DEF TakeBegin, FindMatch, Advance, FindEnd
<1>8. CASE CountMiss(t) \/ ReturnEnd(t) \/ Test(t)
  BY <1>8 DEF CountMiss, ReturnEnd, Test
<1>9. CASE Mktime(t) \/ StampArrival(t)
  BY <1>9 DEF Mktime, StampArrival
<1>10. CASE AddSpan(t)
  BY <1>10 DEF AddSpan
<1>11. CASE Finish(t)
  BY <1>11 DEF Finish, Never
<1>12. CASE StoreEnd(t) \/ StoreLeave(t) \/ StoreWork(t)
  <2>1. /\ tm' \in 0..clock /\ local_time' = local_time
        /\ \A u \in Threads \ {t} : reg'[u] = reg[u]
        /\ pc'[t] \in {"leavetime", "add", "total"}
    BY <1>12 DEF StoreEnd, StoreLeave, StoreWork
  <2>2. /\ Len(v') = Len(v)
        /\ \A i \in 1..Len(v) : v'[i].arrive = v[i].arrive
                                /\ v'[i].leave \in {v[i].leave, local_time[t]}
    BY <1>12, StoreEffect, StoreLeavesTimes
  <2> QED
    BY <2>1, <2>2
<1>13. CASE PushBack(t)
  <2>1. /\ tm' \in 0..clock /\ local_time' = local_time
        /\ \A u \in Threads \ {t} : reg'[u] = reg[u]
        /\ pc'[t] = "show"
        /\ v' = Append(v, NewNode(who[t], local_time[t], reg[t]))
    BY <1>13 DEF PushBack
  <2>2. /\ NewNode(who[t], local_time[t], reg[t]).arrive = local_time[t]
        /\ NewNode(who[t], local_time[t], reg[t]).leave = -1
    BY DEF NewNode, Never
  <2>3. v \in Seq(Node)
    BY DEF Shape, TypeOK, Node
  <2>4. /\ Len(v') = Len(v) + 1 /\ v'[Len(v) + 1] = NewNode(who[t], local_time[t], reg[t])
        /\ \A i \in 1..Len(v) : v'[i] = v[i]
    BY <2>1, <2>3
  <2>5. \A i \in 1..Len(v') : v'[i].arrive \in -1..clock /\ v'[i].leave \in -1..clock
    BY <2>2, <2>4
  <2> QED
    BY <2>1, <2>5
<1> QED
  BY <1>2, <1>3, <1>4, <1>5, <1>6, <1>7, <1>8, <1>9, <1>10, <1>11, <1>12, <1>13 DEF Step

(* A quiet person's record was pushed by a request that was alone.         *)
LEMMA StampedStep ==
  ASSUME Shape, Timely, NEW t \in Threads, Step(t)
  PROVE  Stamped'
<1>1. /\ clock' = clock /\ who' = who /\ met' = met /\ Len(v) \in Nat
      /\ \A p : Quiet(p)' <=> Quiet(p)
  BY ClockStill, StepFrame DEF Shape, TypeOK, Quiet
<1>2. CASE PushBack(t)
  <2>1. /\ v' = Append(v, NewNode(who[t], local_time[t], reg[t])) /\ pc[t] = "store"
    BY <1>2 DEF PushBack
  <2>2. v \in Seq(Node)
    BY DEF Shape, TypeOK, Node
  <2>3. /\ Len(v') = Len(v) + 1 /\ v'[Len(v) + 1] = NewNode(who[t], local_time[t], reg[t])
        /\ \A i \in 1..Len(v) : v'[i] = v[i]
    BY <2>1, <2>2
  <2>4. /\ NewNode(who[t], local_time[t], reg[t]).arrive = local_time[t]
        /\ NewNode(who[t], local_time[t], reg[t]).start = reg[t]
        /\ NewNode(who[t], local_time[t], reg[t]).who = who[t]
    BY DEF NewNode
  <2>5. Quiet(who[t]) => local_time[t] = reg[t] /\ reg[t] \in 0..clock
    BY <2>1 DEF Quiet, Timely, Clocked, Solos, Solo, Stamps, BeforeVisit
  <2> QED
    BY <1>1, <2>3, <2>4, <2>5 DEF Timely, Stamped
<1>3. CASE StoreEnd(t) \/ StoreLeave(t) \/ StoreWork(t)
  BY <1>1, <1>3, StoreEffect DEF Timely, Stamped
<1>4. CASE ~(PushBack(t) \/ StoreEnd(t) \/ StoreLeave(t) \/ StoreWork(t))
  <2>1. v' = v
    BY <1>4 DEF Step, shared,
       Lock, PrivateSection, ReadClock, LocalTime, FormatTime, TakeBegin, FindMatch, Advance,
       FindEnd, CountMiss, ReturnEnd, Test, Mktime, AddSpan, StampArrival, Finish,
       GetStringAborts, UseAfterFree, LeaveTimeRace
  <2> QED
    BY <1>1, <2>1 DEF Timely, Stamped
<1> QED
  BY <1>2, <1>3, <1>4

(* A request that is alone signs in exactly when its scan found nothing.   *)
LEMMA FollowsStep ==
  ASSUME Shape, Scans, NEW t \in Threads, Step(t), Follows(t)
  PROVE  Follows(t)'
<1>1. ScanOf(t)
  BY DEF Scans
<1>2. /\ pc \in [Threads -> Labels] /\ prev \in [Threads -> [block : Nat, idx : Nat \ {0}]]
  BY DEF Shape, TypeOK
<1> USE <1>1, <1>2 DEF Follows, ExistsBranch, Goto, shared, locals, history
<1>3. CASE Lock(t) \/ GetStringAborts(t) \/ UseAfterFree(t) \/ LeaveTimeRace(t)
  BY <1>3 DEF Lock, GetStringAborts, UseAfterFree, LeaveTimeRace, End
<1>4. CASE PrivateSection(t)
  BY <1>4, PrivateLabels DEF PrivateSection, LockSites
<1>5. CASE ReadClock(t) \/ LocalTime(t) \/ FormatTime(t) \/ CountMiss(t) \/ Finish(t)
  BY <1>5 DEF ReadClock, LocalTime, FormatTime, CountMiss, Finish
<1>6. CASE TakeBegin(t)
  BY <1>6 DEF TakeBegin
<1>7. CASE FindMatch(t)
  BY <1>7 DEF FindMatch, ScanOf, CountedAfterScan
<1>8. CASE Advance(t) \/ FindEnd(t)
  BY <1>8 DEF Advance, FindEnd
<1>9. CASE ReturnEnd(t)
  BY <1>9 DEF ReturnEnd, End
<1>10. CASE Test(t)
  BY <1>10 DEF Test
<1>11. CASE Mktime(t) \/ AddSpan(t)
  BY <1>11 DEF Mktime, AddSpan
<1>12. CASE StoreEnd(t) \/ StoreLeave(t) \/ StoreWork(t)
  BY <1>12 DEF StoreEnd, StoreLeave, StoreWork
<1>13. CASE StampArrival(t) \/ PushBack(t)
  BY <1>13 DEF StampArrival, PushBack
<1> QED
  BY <1>3, <1>4, <1>5, <1>6, <1>7, <1>8, <1>9, <1>10, <1>11, <1>12, <1>13 DEF Step

(* Its time is the latest one from time() to the write that makes the      *)
(* visit; that write is the first to put it in the book.                   *)
LEMMA StampsStep ==
  ASSUME Shape, Timely, NEW t \in Threads, Step(t), Stamps(t)
  PROVE  Stamps(t)'
<1>1. Clocked /\ clock' = clock
  BY ClockStill DEF Timely
<1>2. /\ pc \in [Threads -> Labels] /\ clock \in Nat /\ reg \in [Threads -> Int]
      /\ local_time \in [Threads -> Int] /\ Len(v) \in Nat
  BY DEF Shape, TypeOK
<1> USE <1>1, <1>2 DEF Stamps, BeforeVisit, Goto, shared, locals, history
<1>3. CASE Lock(t) \/ GetStringAborts(t) \/ UseAfterFree(t) \/ LeaveTimeRace(t)
  BY <1>3 DEF Lock, GetStringAborts, UseAfterFree, LeaveTimeRace, Newest
<1>4. CASE PrivateSection(t)
  <2>1. pc'[t] \in {"id", "time", "day", "hour", "min", "sec", "mysql", "show"}
    BY <1>4, PrivateLabels DEF PrivateSection
  <2> QED
    BY <2>1
<1>5. CASE ReadClock(t)
  BY <1>5 DEF ReadClock, Clocked, Newest
<1>6. CASE LocalTime(t)
  BY <1>6 DEF LocalTime, Newest
<1>7. CASE FormatTime(t)
  BY <1>7 DEF FormatTime, Newest
<1>8. CASE TakeBegin(t)
  BY <1>8 DEF TakeBegin, Newest
<1>9. CASE FindMatch(t) \/ Advance(t) \/ FindEnd(t)
  BY <1>9 DEF FindMatch, Advance, FindEnd, Newest
<1>10. CASE CountMiss(t) \/ ReturnEnd(t)
  BY <1>10 DEF CountMiss, ReturnEnd, Newest
<1>11. CASE Test(t)
  BY <1>11 DEF Test, Newest
<1>12. CASE Mktime(t) \/ StampArrival(t)
  BY <1>12 DEF Mktime, StampArrival, Newest
<1>13. CASE StoreEnd(t)
  <2>1. /\ Len(v') = Len(v)
        /\ \A i \in 1..Len(v) : v'[i].arrive = v[i].arrive /\ v'[i].leave = v[i].leave
    <3>1. ~StoreLeave(t)
      BY <1>13 DEF StoreEnd, StoreLeave
    <3> QED
      BY <1>13, <3>1, StoreEffect, StoreLeavesTimes
  <2>2. /\ pc[t] = "endtime" /\ pc'[t] = "leavetime" /\ tm' = tm /\ local_time' = local_time
        /\ local_time[t] = tm /\ Newest(tm)
    BY <1>13 DEF StoreEnd
  <2>3. Newest(tm)'
    BY <2>1, <2>2 DEF Newest
  <2> QED
    BY <2>2, <2>3
<1>14. CASE StoreLeave(t) \/ StoreWork(t) \/ PushBack(t) \/ AddSpan(t) \/ Finish(t)
  BY <1>14 DEF StoreLeave, StoreWork, PushBack, AddSpan, Finish
<1> QED
  BY <1>3, <1>4, <1>5, <1>6, <1>7, <1>8, <1>9, <1>10, <1>11, <1>12, <1>13, <1>14 DEF Step

LEMMA TimelyStep ==
  ASSUME Shape, Scans, Movers, Timely, NEW t \in Threads, Step(t)
  PROVE  Timely'
<1>1. met' = met /\ t \in InFlight /\ \A u \in Threads \ {t} : pc'[u] = pc[u]
  BY StepFrame
<1>2. ASSUME NEW u \in Threads, Solo(u)'
      PROVE  Follows(u)' /\ Stamps(u)'
  <2>1. Solo(u) /\ Follows(u) /\ Stamps(u)
    BY <1>1, <1>2 DEF Solo, Timely, Solos
  <2>2. CASE u = t
    BY <2>1, <2>2, FollowsStep, StampsStep
  <2>3. CASE u # t
    <3>1. u \notin InFlight
      BY <1>1, <2>1, <2>3, SoloIsAlone
    <3>2. pc'[u] \in {"new", "done"}
      BY <1>1, <2>3, <3>1 DEF InFlight
    <3>3. /\ pc'[u] \notin ExistsBranch /\ pc'[u] \notin BeforeVisit
          /\ pc'[u] \notin {"test", "local", "format", "endtime", "leavetime", "store"}
      BY <3>2, IdleFollows
    <3> QED
      BY <3>3 DEF Follows, Stamps
  <2> QED
    BY <2>2, <2>3
<1>3. Solos'
  BY <1>2 DEF Solos
<1> QED
  BY <1>3, EncountersStep, ClockedStep, StampedStep DEF Timely

LEMMA TimelyStart ==
  ASSUME Shape, Timely, NEW t \in Threads, Start(t)
  PROVE  Timely'
<1>1. /\ pc[t] = "new" /\ pc' = [pc EXCEPT ![t] = "name"]
      /\ met' = [u \in Threads |-> met[u] \cup (IF u = t THEN InFlight
                                          ELSE IF u \in InFlight THEN {t} ELSE {})]
      /\ UNCHANGED <<clock, tm, v, cap, who, prev, reg, local_time, counted, moved, blind>>
  BY DEF Start, Goto, shared, locals
<1>2. /\ pc \in [Threads -> Labels] /\ met \in [Threads -> SUBSET Threads]
      /\ moved \subseteq Threads /\ blind \subseteq Threads
  BY DEF Shape, TypeOK
<1>3. Encounters'
  <2>1. ASSUME NEW x \in Threads, NEW y \in Threads, y \in met'[x]
        PROVE  x \in met'[y]
    BY <1>1, <1>2, <2>1 DEF Timely, Encounters
  <2>2. \A x \in moved \cup blind : met'[x] # {}
    BY <1>1, <1>2 DEF Timely, Encounters
  <2> QED
    BY <1>1, <2>1, <2>2 DEF Encounters
<1>4. Clocked'
  BY <1>1, <1>2 DEF Timely, Clocked
<1>5. Stamped'
  BY <1>1, <1>2 DEF Timely, Stamped, Quiet
<1>6. ASSUME NEW u \in Threads, Solo(u)'
      PROVE  Follows(u)' /\ Stamps(u)'
  <2>1. pc'[u] \in {"new", "done", "name"}
    BY <1>1, <1>2, <1>6 DEF Solo, InFlight
  <2>2. /\ pc'[u] \notin ExistsBranch /\ pc'[u] \notin BeforeVisit
        /\ pc'[u] \notin {"test", "local", "format", "endtime", "leavetime", "store"}
    BY <2>1, IdleFollows
  <2> QED
    BY <2>2 DEF Follows, Stamps
<1>7. Solos'
  BY <1>6 DEF Solos
<1> QED
  BY <1>3, <1>4, <1>5, <1>7 DEF Timely

LEMMA TimelyTick ==
  ASSUME Shape, Timely, Tick
  PROVE  Timely'
<1>1. /\ clock' = clock + 1
      /\ UNCHANGED <<pc, tm, v, cap, who, prev, reg, local_time, counted, met, moved, blind>>
  BY DEF Tick, shared, locals, history
<1>2. clock \in Nat /\ Len(v) \in Nat
  BY DEF Shape, TypeOK
<1>3. Encounters' /\ Clocked' /\ Stamped'
  BY <1>1, <1>2 DEF Timely, Encounters, Clocked, Stamped, Quiet
<1>4. ASSUME NEW u \in Threads, Solo(u)'
      PROVE  Follows(u)' /\ Stamps(u)'
  <2>1. Follows(u) /\ Stamps(u)
    BY <1>1, <1>4 DEF Timely, Solos, Solo
  <2>2. Follows(u)'
    BY <1>1, <2>1 DEF Follows, End
  <2>3. ASSUME NEW at, Newest(at)
        PROVE  /\ at \in 0..clock'
               /\ \A i \in 1..Len(v') : v'[i].arrive <= at /\ v'[i].leave <= at
    BY <1>1, <1>2, <2>3 DEF Newest
  <2>4. Stamps(u)'
    BY <1>1, <2>1, <2>3 DEF Stamps, Newest
  <2> QED
    BY <2>2, <2>4
<1>5. Solos'
  BY <1>4 DEF Solos
<1> QED
  BY <1>3, <1>5 DEF Timely

LEMMA TimelyAlways == Spec => [](Shape /\ Scans /\ Movers /\ Timely)
<1>1. Init => Timely
  <2> SUFFICES ASSUME Init PROVE Timely
    OBVIOUS
  <2>1. Encounters /\ Clocked /\ Stamped
    BY DEF Init, Encounters, Clocked, Stamped, Never
  <2>2. Solos
    BY IdleFollows DEF Init, Solos, Follows, Stamps
  <2> QED
    BY <2>1, <2>2 DEF Timely
<1>2. Shape /\ Scans /\ Movers /\ Timely /\ [Next]_vars => Timely'
  <2>1. CASE UNCHANGED vars \/ Over
    BY <2>1 DEF Over, vars, shared, locals, history, Timely, Encounters, Clocked, Stamped, Quiet,
       Solos, Solo, Follows, Stamps, Newest, End
  <2> QED
    BY <2>1, TimelyStep, TimelyStart, TimelyTick DEF Next, Arrive
<1> QED
  BY <1>1, <1>2, MoversAlways, PTL DEF Spec

(* A person whose requests are served alone has one record, which says     *)
(* when the person arrived, and start_time is that moment: two overlapping *)
(* requests are what OneRecordPerPerson and StartStampsArrival fail for.   *)
QuietAreSound ==
  \A i \in 1..Len(v) :
    Quiet(v[i].who) =>
      /\ v[i].start = v[i].arrive
      /\ \A j \in 1..Len(v) : v[j].who = v[i].who => j = i

LEMMA QuietRecords ==
  ASSUME Shape, Scans, Timely
  PROVE  QuietAreSound
<1> SUFFICES ASSUME NEW i \in 1..Len(v), Quiet(v[i].who)
             PROVE  /\ v[i].start = v[i].arrive
                    /\ \A j \in 1..Len(v) : v[j].who = v[i].who => j = i
  BY DEF QuietAreSound
<1>1. v[i].start = v[i].arrive
  BY DEF Timely, Stamped
<1>2. ~OwnRequestsMet(v[i].who) /\ ~\E t \in blind : who[t] = v[i].who
  BY DEF Quiet, OwnRequestsMet, Timely, Encounters, Shape, TypeOK
<1> QED
  BY <1>1, <1>2 DEF Scans, DuplicatesNeedRace

THEOREM QuietAreSoundAlways == Spec => []QuietAreSound
BY TimelyAlways, QuietRecords, PTL

-----------------------------------------------------------------------------

(* A write at the record of a person whose requests are served alone comes *)
(* from a request of that person, which is the only one in flight.         *)
LEMMA QuietWriter ==
  ASSUME Shape, Scans, Movers, Timely,
         NEW t \in Threads, pc[t] \in ExistsBranch, ~Gone(t), Quiet(v[prev[t].idx].who)
  PROVE  /\ prev[t].idx \in 1..Len(v) /\ v[prev[t].idx].who = who[t]
         /\ Solo(t) /\ InFlight = {t}
<1>1. prev[t].idx \in 1..Len(v)
  BY WritesKeepArrival DEF Gone
<1>2. v[prev[t].idx].who = who[t]
  <2>1. CASE t \notin counted
    BY <2>1 DEF Scans, ScanOf, MatchIsOwn
  <2>2. CASE t \in counted
    <3>1. PICK u \in met[t] : who[u] = v[prev[t].idx].who
      BY <1>1, <2>2 DEF Scans, ScanOf, MetItsOwner
    <3>2. u \in Threads /\ t \in met[u]
      BY <3>1 DEF Shape, TypeOK, Timely, Encounters
    <3> QED
      BY <3>1, <3>2 DEF Quiet
  <2> QED
    BY <2>1, <2>2
<1>3. Solo(t)
  BY <1>2 DEF Quiet, Solo
<1>4. t \in InFlight
  BY DEF InFlight, ExistsBranch
<1> QED
  BY <1>1, <1>2, <1>3, <1>4, SoloIsAlone

(* A departure that has stored end_time and not yet leave_time.            *)
LeavingAt(t, i) == pc[t] = "leavetime" /\ ~Gone(t) /\ prev[t].idx = i

Filed(i, left) ==
  [arrive |-> v[i].arrive, leave |-> left,
   span   |-> IF left = Never THEN 0 ELSE v[i].end - v[i].start]

Alone(t, p) == who[t] = p /\ Solo(t) /\ InFlight = {t}

(* What the book says of each person.                                      *)
Entries ==
  \A p \in People :
    /\ ~Quiet(p) => Book[p] = Abstract!Unknown
    /\ (Quiet(p) /\ \A i \in 1..Len(v) : v[i].who # p) => Book[p] = Abstract!Absent
    /\ \A i \in 1..Len(v) :
         (Quiet(p) /\ v[i].who = p) =>
           /\ (\A t \in Threads : ~LeavingAt(t, i)) => Book[p] = Filed(i, v[i].leave)
           /\ \A t \in Threads :
                LeavingAt(t, i) => Alone(t, p) /\ Book[p] = Filed(i, local_time[t])

Orderly == Shape /\ Scans /\ Movers /\ Timely

LEMMA BookEntries ==
  ASSUME Orderly
  PROVE  Entries
<1> USE DEF Orderly
<1> SUFFICES ASSUME NEW p \in People
    PROVE  /\ ~Quiet(p) => Book[p] = Abstract!Unknown
           /\ (Quiet(p) /\ \A i \in 1..Len(v) : v[i].who # p) => Book[p] = Abstract!Absent
           /\ \A i \in 1..Len(v) :
                (Quiet(p) /\ v[i].who = p) =>
                  /\ (\A t \in Threads : ~LeavingAt(t, i)) => Book[p] = Filed(i, v[i].leave)
                  /\ \A t \in Threads :
                       LeavingAt(t, i) => Alone(t, p) /\ Book[p] = Filed(i, local_time[t])
  BY DEF Entries
<1>1. ~Quiet(p) => Book[p] = Abstract!Unknown
  BY DEF Book, Abstract!Unknown
<1>2. (Quiet(p) /\ \A i \in 1..Len(v) : v[i].who # p) => Book[p] = Abstract!Absent
  BY DEF Book, Abstract!Absent, Abstract!Never, Never
<1>3. ASSUME NEW i \in 1..Len(v), Quiet(p), v[i].who = p
      PROVE  Book[p] = Entry(i)
  <2>1. \A j \in 1..Len(v) : v[j].who = p => j = i
    BY <1>3, QuietRecords DEF QuietAreSound
  <2>2. (CHOOSE j \in 1..Len(v) : v[j].who = p) = i
    BY <1>3, <2>1
  <2> QED
    BY <1>3, <2>2 DEF Book
<1>4. ASSUME NEW i \in 1..Len(v), Quiet(p), v[i].who = p, \A t \in Threads : ~LeavingAt(t, i)
      PROVE  Entry(i) = Filed(i, v[i].leave)
  <2>1. {t \in Threads : pc[t] = "leavetime" /\ ~Gone(t) /\ prev[t].idx = i} = {}
    BY <1>4 DEF LeavingAt
  <2> QED
    BY <2>1 DEF Entry, Filed
<1>5. ASSUME NEW i \in 1..Len(v), Quiet(p), v[i].who = p, NEW t \in Threads, LeavingAt(t, i)
      PROVE  Alone(t, p) /\ Entry(i) = Filed(i, local_time[t])
  <2>1. Alone(t, p)
    BY <1>5, QuietWriter DEF LeavingAt, ExistsBranch, Alone
  <2>2. {u \in Threads : pc[u] = "leavetime" /\ ~Gone(u) /\ prev[u].idx = i} = {t}
    BY <1>5, <2>1 DEF LeavingAt, InFlight, Alone
  <2>3. (CHOOSE u \in {t} : TRUE) = t
    OBVIOUS
  <2> QED
    BY <2>1, <2>2, <2>3 DEF Entry, Filed
<1> QED
  BY <1>1, <1>2, <1>3, <1>4, <1>5

(* The same of the next state.                                             *)
LEMMA NextEntries == Orderly' => Entries'
BY BookEntries, PTL

LEMMA QuietStays ==
  ASSUME Shape, NEW t \in Threads, Step(t)
  PROVE  \A p : Quiet(p)' <=> Quiet(p)
BY StepFrame DEF Quiet

(* A step changes no entry but that of the request's own person.           *)
LEMMA OthersKept ==
  ASSUME Orderly, Orderly', NEW t \in Threads, Step(t),
         NEW p \in People, p # who[t] \/ ~Quiet(p)
  PROVE  Book'[p] = Book[p]
<1> USE DEF Orderly
<1>1. Entries /\ Entries'
  BY BookEntries, NextEntries
<1>2. /\ t \in InFlight /\ who' = who
      /\ \A u \in Threads \ {t} : pc'[u] = pc[u]
      /\ Len(v) \in Nat /\ Len(v') \in Nat /\ Len(v) <= Len(v')
      /\ \A i \in 1..Len(v) : v'[i].who = v[i].who
      /\ \A i \in 1..Len(v') : i > Len(v) => v'[i].who = who[t]
  <2>1. Len(v) \in Nat /\ Len(v') \in Nat
    BY StepFrame DEF Shape, TypeOK
  <2>2. /\ t \in InFlight /\ who' = who
        /\ \A u \in Threads \ {t} : pc'[u] = pc[u]
    BY StepFrame
  <2>3. /\ Len(v) <= Len(v')
        /\ \A i \in 1..Len(v) : v'[i].who = v[i].who
        /\ \A i \in 1..Len(v') : i > Len(v) => v'[i].who = who[t]
    BY StepFrame
  <2> QED
    BY <2>1, <2>2, <2>3
<1>3. CASE ~Quiet(p)
  <2>1. ~Quiet(p)'
    BY <1>3, QuietStays
  <2> QED
    BY <1>1, <1>3, <2>1 DEF Entries, Abstract!Unknown
<1>4. CASE Quiet(p) /\ \A i \in 1..Len(v) : v[i].who # p
  <2>1. Quiet(p)' /\ p # who[t]
    BY <1>4, QuietStays
  <2>2. \A i \in 1..Len(v') : v'[i].who # p
    BY <1>2, <1>4, <2>1
  <2> QED
    BY <1>1, <1>4, <2>1, <2>2 DEF Entries, Abstract!Absent, Abstract!Never
<1>5. ASSUME Quiet(p), NEW i \in 1..Len(v), v[i].who = p
      PROVE  Book'[p] = Book[p]
  <2>1. Quiet(p)' /\ p # who[t] /\ i \in 1..Len(v') /\ v'[i].who = p
    BY <1>2, <1>5, QuietStays
  <2>2. v'[i] = v[i]
    <3>1. CASE StoreEnd(t) \/ StoreLeave(t) \/ StoreWork(t)
      <4>1. /\ pc[t] \in ExistsBranch
            /\ v'[i] # v[i] => ~Gone(t) /\ i = prev[t].idx
        BY <3>1, StoreEffect
      <4> QED
        BY <1>5, <2>1, <4>1, QuietWriter
    <3>2. CASE PushBack(t)
      BY <3>2, PushBackEffect
    <3>3. CASE ~(PushBack(t) \/ StoreEnd(t) \/ StoreLeave(t) \/ StoreWork(t))
      BY <3>3 DEF Step, shared,
         Lock, PrivateSection, ReadClock, LocalTime, FormatTime, TakeBegin, FindMatch, Advance,
         FindEnd, CountMiss, ReturnEnd, Test, Mktime, AddSpan, StampArrival, Finish,
         GetStringAborts, UseAfterFree, LeaveTimeRace
    <3> QED
      BY <3>1, <3>2, <3>3
  <2>3. ASSUME NEW x \in Threads, LeavingAt(x, i)
        PROVE  FALSE
    <3>1. who[x] = p /\ InFlight = {x}
      BY <1>5, <2>3, QuietWriter DEF LeavingAt, ExistsBranch
    <3> QED
      BY <1>2, <2>1, <3>1
  <2>4. ASSUME NEW x \in Threads, LeavingAt(x, i)'
        PROVE  FALSE
    <3>1. who'[x] = p /\ met'[x] = {} /\ pc'[x] = "leavetime"
      BY <1>1, <2>1, <2>4 DEF Entries, Alone, Solo, LeavingAt
    <3>2. x # t /\ pc[x] = "leavetime" /\ Solo(x)
      BY <1>2, <2>1, <3>1, StepFrame DEF Solo
    <3>3. InFlight = {x}
      BY <3>2, SoloIsAlone DEF InFlight
    <3> QED
      BY <1>2, <3>2, <3>3
  <2>5. Book[p] = Filed(i, v[i].leave)
    BY <1>1, <1>5, <2>3 DEF Entries
  <2>6. Book'[p] = Filed(i, v[i].leave)'
    BY <1>1, <2>1, <2>4 DEF Entries
  <2> QED
    BY <2>2, <2>5, <2>6 DEF Filed
<1> QED
  BY <1>3, <1>4, <1>5

(* The other steps of a request that is alone: the visit is already in the *)
(* book when leave_time is stored, and the total is not a part of it.      *)
LEMMA OwnKept ==
  ASSUME Orderly, Orderly', NEW t \in Threads, Step(t), Quiet(who[t]),
         ~PushBack(t), ~StoreEnd(t)
  PROVE  Book'[who[t]] = Book[who[t]]
<1> DEFINE p == who[t]
<1>1. Entries /\ Entries'
  BY BookEntries, NextEntries
<1>2. Shape /\ Scans /\ Movers /\ Timely
  BY DEF Orderly
<1>3. /\ t \in InFlight /\ who' = who /\ p \in People /\ Solo(t) /\ InFlight = {t}
      /\ Quiet(p)'
  <2>1. t \in InFlight /\ who' = who /\ met' = met
    BY <1>2, StepFrame
  <2>2. p \in People /\ Solo(t)
    BY <1>2 DEF Shape, TypeOK, Quiet, Solo
  <2>3. InFlight = {t}
    BY <1>2, <2>1, <2>2, SoloIsAlone
  <2> QED
    BY <2>1, <2>2, <2>3 DEF Quiet
<1>4. Len(v') = Len(v) /\ \A i \in 1..Len(v) : v'[i].who = v[i].who
  BY <1>2, StorageFrame, StepFrame
<1>5. CASE \A i \in 1..Len(v) : v[i].who # p
  <2>1. \A i \in 1..Len(v') : v'[i].who # p
    BY <1>4, <1>5
  <2> QED
    BY <1>1, <1>3, <1>5, <2>1 DEF Entries, Abstract!Absent, Abstract!Never
<1>6. ASSUME NEW i \in 1..Len(v), v[i].who = p
      PROVE  Book'[p] = Book[p]
  <2>1. /\ \A x \in Threads : LeavingAt(x, i) => x = t
        /\ \A x \in Threads : LeavingAt(x, i)' => x = t
    <3>1. \A x \in Threads : LeavingAt(x, i) => x \in InFlight
      BY DEF LeavingAt, InFlight
    <3>2. \A x \in Threads : LeavingAt(x, i)' => x = t \/ pc[x] = "leavetime"
      BY <1>2, StepFrame DEF LeavingAt
    <3> QED
      BY <1>3, <3>1, <3>2 DEF InFlight
  <2>2. CASE StoreLeave(t)
    <3>1. pc[t] = "leavetime" /\ pc'[t] = "add"
      BY <1>2, <2>2 DEF StoreLeave, Goto, Shape, TypeOK
    <3>2. pc[t] \in ExistsBranch /\ ~Gone(t)
      BY <1>2, <1>3, <3>1, SoloIsAlone DEF ExistsBranch, Following
    <3>3. v[prev[t].idx].who = p /\ prev[t].idx \in 1..Len(v)
      BY <1>2, <1>3, <3>2, WritesKeepArrival DEF Timely, Solos, Follows, Scans, ScanOf, MatchIsOwn, Gone
    <3>4. prev[t].idx = i
      BY <1>2, <1>6, <3>3, QuietRecords DEF QuietAreSound
    <3>5. Book[p] = Filed(i, local_time[t])
      BY <1>1, <1>3, <1>6, <3>1, <3>2, <3>4 DEF Entries, LeavingAt
    <3>6. Book'[p] = Filed(i, v[i].leave)'
      BY <1>1, <1>3, <1>4, <1>6, <2>1, <3>1 DEF Entries, LeavingAt
    <3>7. v'[i].leave = local_time[t] /\ v'[i].arrive = v[i].arrive /\ v'[i].start = v[i].start
      BY <1>2, <2>2, <3>2, <3>4, StoreEffect, StoreLeavesTimes
    <3>8. v'[i].end = v[i].end
      <4>1. ~StoreEnd(t)
        OBVIOUS
      <4> QED
        BY <1>2, <2>2, <4>1, StoreLeavesTimes
    <3> QED
      BY <3>5, <3>6, <3>7, <3>8 DEF Filed
  <2>3. CASE ~StoreLeave(t)
    <3>1. pc[t] # "leavetime"
      <4>1. SUFFICES ASSUME pc[t] = "leavetime" PROVE FALSE
        OBVIOUS
      <4>2. ~Gone(t)
        BY <1>2, <1>3, <4>1, SoloIsAlone DEF ExistsBranch, Following
      <4>3. AtLeaveTime(t) = {}
        BY <1>3 DEF AtLeaveTime, InFlight
      <4> QED
        BY <2>3, <4>1, <4>2, <4>3, PrivateLabels DEF Step, LockSites, ExistsBranch,
           Lock, PrivateSection, ReadClock, LocalTime, FormatTime, TakeBegin, FindMatch, Advance,
           FindEnd, CountMiss, ReturnEnd, Test, Mktime, StoreEnd, AddSpan, StoreWork,
           StampArrival, PushBack, Finish, GetStringAborts, UseAfterFree, LeaveTimeRace
    <3>2. pc'[t] # "leavetime"
      <4>1. pc \in [Threads -> Labels]
        BY <1>2 DEF Shape, TypeOK
      <4> QED
        BY <2>3, <3>1, <4>1, PrivateLabels DEF Step, Goto,
           Lock, PrivateSection, ReadClock, LocalTime, FormatTime, TakeBegin, FindMatch, Advance,
           FindEnd, CountMiss, ReturnEnd, Test, Mktime, AddSpan, StoreWork,
           StampArrival, Finish, GetStringAborts, UseAfterFree, LeaveTimeRace
    <3>3. /\ v'[i].arrive = v[i].arrive /\ v'[i].start = v[i].start
          /\ v'[i].leave = v[i].leave /\ v'[i].end = v[i].end
      <4>1. CASE StoreWork(t)
        BY <1>2, <2>3, <4>1, StoreEffect, StoreLeavesTimes
      <4>2. CASE ~StoreWork(t)
        <5>1. v' = v
          BY <2>3, <4>2 DEF Step, shared,
             Lock, PrivateSection, ReadClock, LocalTime, FormatTime, TakeBegin, FindMatch, Advance,
             FindEnd, CountMiss, ReturnEnd, Test, Mktime, AddSpan, StampArrival, Finish,
             GetStringAborts, UseAfterFree, LeaveTimeRace
        <5> QED
          BY <5>1
      <4> QED
        BY <4>1, <4>2
    <3>4. Book[p] = Filed(i, v[i].leave)
      BY <1>1, <1>3, <1>6, <2>1, <3>1 DEF Entries, LeavingAt
    <3>5. Book'[p] = Filed(i, v[i].leave)'
      BY <1>1, <1>3, <1>4, <1>6, <2>1, <3>2 DEF Entries, LeavingAt
    <3> QED
      BY <3>3, <3>4, <3>5 DEF Filed
  <2> QED
    BY <2>2, <2>3
<1> QED
  BY <1>5, <1>6

(* A time that is not before any record is not before any entry.           *)
LEMMA NewestIsLatest ==
  ASSUME Orderly, NEW at, Newest(at),
         \A t \in Threads : pc[t] = "leavetime" => local_time[t] = at
  PROVE  Abstract!Latest(at)
<1> SUFFICES ASSUME NEW p \in People
             PROVE  Book[p].arrive <= at /\ Book[p].leave <= at
  BY DEF Abstract!Latest
<1>1. Entries
  BY BookEntries
<1>2. clock \in Nat /\ at \in 0..clock
  BY DEF Orderly, Shape, TypeOK, Newest
<1>3. CASE ~Quiet(p)
  BY <1>1, <1>2, <1>3 DEF Entries, Abstract!Unknown
<1>4. CASE Quiet(p) /\ \A i \in 1..Len(v) : v[i].who # p
  BY <1>1, <1>2, <1>4 DEF Entries, Abstract!Absent, Abstract!Never
<1>5. ASSUME Quiet(p), NEW i \in 1..Len(v), v[i].who = p
      PROVE  Book[p].arrive <= at /\ Book[p].leave <= at
  <2>1. \/ Book[p] = Filed(i, v[i].leave)
        \/ \E t \in Threads : pc[t] = "leavetime" /\ Book[p] = Filed(i, local_time[t])
    BY <1>1, <1>5 DEF Entries, LeavingAt
  <2>2. at <= at /\ v[i].arrive <= at /\ v[i].leave <= at
    BY <1>2 DEF Newest
  <2>3. PICK left : Book[p] = Filed(i, left) /\ left <= at
    BY <2>1, <2>2
  <2> QED
    BY <2>2, <2>3 DEF Filed
<1> QED
  BY <1>3, <1>4, <1>5

(* One entry changes.                                                      *)
LEMMA OneEntryChanges ==
  ASSUME NEW p \in People, NEW e, Book'[p] = e,
         \A q \in People : q # p => Book'[q] = Book[q]
  PROVE  Book' = [Book EXCEPT ![p] = e]
<1>1. /\ Book = [q \in People |-> Book[q]]
      /\ Book' = [q \in People |-> Book'[q]]
  BY DEF Book
<1> QED
  BY <1>1

(* push_back is the first visit of its person.                             *)
LEMMA SignIn ==
  ASSUME Orderly, Orderly', NEW t \in Threads, Step(t), PushBack(t), Quiet(who[t])
  PROVE  Abstract!Visit(who[t])
<1> DEFINE p == who[t]
           at == local_time[t]
<1>1. Shape /\ Scans /\ Movers /\ Timely /\ Entries /\ Entries'
  BY BookEntries, NextEntries DEF Orderly
<1>2. /\ v \in Seq(Node) /\ Len(v) \in Nat /\ clock \in Nat /\ p \in People /\ t \in InFlight
      /\ clock' = clock /\ pc[t] = "store" /\ pc'[t] = "show" /\ who' = who /\ met' = met
  <2>1. v \in Seq(Node) /\ Len(v) \in Nat /\ clock \in Nat /\ p \in People
    BY <1>1 DEF Shape, TypeOK, Node
  <2>2. t \in InFlight /\ who' = who /\ met' = met
    BY <1>1, StepFrame
  <2>3. clock' = clock /\ pc[t] = "store" /\ pc'[t] = "show"
    BY <1>1 DEF PushBack, Goto, Shape, TypeOK
  <2> QED
    BY <2>1, <2>2, <2>3
<1>3. Solo(t) /\ InFlight = {t} /\ Quiet(p)'
  BY <1>1, <1>2, QuietStays, SoloIsAlone DEF Quiet, Solo
<1>4. at = tm /\ reg[t] = at /\ Newest(at)
  BY <1>1, <1>2, <1>3 DEF Timely, Solos, Stamps, BeforeVisit
<1>5. at \in 0..clock /\ Abstract!Latest(at)
  <2>1. \A x \in Threads : pc[x] # "leavetime"
    BY <1>2, <1>3 DEF InFlight
  <2> QED
    BY <1>4, <2>1, NewestIsLatest DEF Newest
<1>6. \A i \in 1..Len(v) : v[i].who # p
  <2>1. ~OwnRequestsMet(p) /\ t \notin blind
    BY <1>1, <1>3 DEF Quiet, OwnRequestsMet, Timely, Encounters, Solo
  <2> QED
    BY <1>1, <1>2, <2>1 DEF Scans, ScanOf, NoneMissed, FoundNone
<1>7. Book[p] = Abstract!Absent
  BY <1>1, <1>2, <1>6 DEF Entries
<1>8. PICK n \in Nat : n = Len(v) + 1
  BY <1>2
<1>9. n \in 1..Len(v') /\ v'[n] = NewNode(p, at, at)
  BY <1>2, <1>4, <1>8 DEF PushBack
<1>10. /\ v'[n].who = p /\ v'[n].arrive = at /\ v'[n].leave = Never
  BY <1>9 DEF NewNode
<1>11. \A x \in Threads : ~LeavingAt(x, n)'
  BY <1>1, <1>2, <1>3, StepFrame DEF LeavingAt, InFlight
<1>12. Book'[p] = Abstract!Arrived(at)
  <2>1. Book'[p] = Filed(n, v[n].leave)'
    BY <1>1, <1>2, <1>3, <1>9, <1>10, <1>11 DEF Entries
  <2> QED
    BY <1>10, <2>1 DEF Filed, Abstract!Arrived, Abstract!Never, Never
<1>13. Book' = [Book EXCEPT ![p] = Abstract!Arrived(at)]
  BY <1>2, <1>12, OthersKept, OneEntryChanges
<1>14. Abstract!Absent # Abstract!Unknown
  BY DEF Abstract!Absent, Abstract!Unknown, Abstract!Never
<1> QED
  BY <1>2, <1>5, <1>7, <1>13, <1>14 DEF Abstract!Visit

(* The store of end_time is a later visit of its person: the span ends now *)
(* and began with the arrival.                                             *)
LEMMA SignOut ==
  ASSUME Orderly, Orderly', NEW t \in Threads, Step(t), StoreEnd(t), Quiet(who[t])
  PROVE  Abstract!Visit(who[t])
<1> DEFINE p  == who[t]
           at == local_time[t]
           i  == prev[t].idx
<1>1. Shape /\ Scans /\ Movers /\ Timely /\ Entries /\ Entries'
  BY BookEntries, NextEntries DEF Orderly
<1>2. /\ Len(v) \in Nat /\ clock \in Nat /\ p \in People /\ t \in InFlight
      /\ clock' = clock /\ pc[t] = "endtime" /\ pc'[t] = "leavetime"
      /\ prev' = prev /\ who' = who /\ local_time' = local_time /\ met' = met
  <2>1. Len(v) \in Nat /\ clock \in Nat /\ p \in People
    BY <1>1 DEF Shape, TypeOK
  <2>2. t \in InFlight /\ met' = met
    BY <1>1, StepFrame
  <2>3. /\ clock' = clock /\ pc[t] = "endtime" /\ pc'[t] = "leavetime"
        /\ prev' = prev /\ who' = who /\ local_time' = local_time
    BY <1>1 DEF StoreEnd, Goto, Shape, TypeOK
  <2> QED
    BY <2>1, <2>2, <2>3
<1>3. Solo(t) /\ InFlight = {t} /\ Quiet(p)'
  BY <1>1, <1>2, QuietStays, SoloIsAlone DEF Quiet, Solo
<1>4. pc[t] \in ExistsBranch /\ ~Gone(t)
  BY <1>1, <1>2, <1>3, SoloIsAlone DEF ExistsBranch, Following
<1>5. ~Gone(t)'
  <2>1. Dangling(t)' <=> Dangling(t)
    BY <1>2 DEF StoreEnd, Dangling
  <2>2. ~Moving'
    BY <1>1, <1>2, <1>3, StepFrame DEF Moving, InFlight
  <2> QED
    BY <1>4, <2>1, <2>2 DEF Gone
<1>6. at = tm /\ reg[t] = at /\ Newest(at)
  BY <1>1, <1>2, <1>3 DEF Timely, Solos, Stamps, BeforeVisit
<1>7. at \in 0..clock /\ Abstract!Latest(at)
  <2>1. \A x \in Threads : pc[x] # "leavetime"
    BY <1>2, <1>3 DEF InFlight
  <2> QED
    BY <1>6, <2>1, NewestIsLatest DEF Newest
<1>8. i \in 1..Len(v) /\ v[i].who = p
  BY <1>1, <1>3, <1>4, WritesKeepArrival DEF Timely, Solos, Follows, Scans, ScanOf, MatchIsOwn, Gone
<1>9. v[i].arrive \in 0..clock /\ v[i].start = v[i].arrive
  BY <1>1, <1>8 DEF Timely, Stamped
<1>10. Book[p] = Filed(i, v[i].leave)
  <2>1. \A x \in Threads : ~LeavingAt(x, i)
    BY <1>2, <1>3 DEF LeavingAt, InFlight
  <2> QED
    BY <1>1, <1>2, <1>8, <2>1 DEF Entries
<1>11. /\ Len(v') = Len(v) /\ v'[i].who = p /\ v'[i].arrive = v[i].arrive
       /\ v'[i].start = v[i].arrive /\ v'[i].end = at
  <2>1. v'[i].end = at
    BY <1>1, <1>4, <1>6, StoreLeavesTimes
  <2> QED
    BY <1>1, <1>8, <1>9, <2>1, StoreEffect
<1>12. Book'[p] = [arrive |-> v[i].arrive, leave |-> at, span |-> at - v[i].arrive]
  <2>1. LeavingAt(t, i)'
    BY <1>2, <1>5 DEF LeavingAt
  <2>2. Book'[p] = Filed(i, local_time[t])'
    BY <1>1, <1>2, <1>3, <1>8, <1>11, <2>1 DEF Entries
  <2>3. at # Never /\ local_time'[t] = at
    BY <1>2, <1>7 DEF Never
  <2> QED
    BY <1>2, <1>11, <2>2, <2>3 DEF Filed
<1>13. /\ Book[p].arrive = v[i].arrive
       /\ Book[p] # Abstract!Absent /\ Book[p] # Abstract!Unknown
  BY <1>2, <1>9, <1>10 DEF Filed, Abstract!Absent, Abstract!Unknown, Abstract!Never
<1>14. Book' = [Book EXCEPT ![p] = [arrive |-> v[i].arrive, leave |-> at,
                                    span |-> at - v[i].arrive]]
  BY <1>2, <1>12, OthersKept, OneEntryChanges
<1>15. Book' = [Book EXCEPT ![p] = IF @ = Abstract!Absent THEN Abstract!Arrived(at)
                 ELSE [arrive |-> @.arrive, leave |-> at, span |-> at - @.arrive]]
  BY <1>13, <1>14
<1> QED
  BY <1>2, <1>7, <1>13, <1>15 DEF Abstract!Visit

(* Every step of a request is a visit or nothing at all for the book.      *)
LEMMA StepRefines ==
  ASSUME Orderly, Orderly', NEW t \in Threads, Step(t)
  PROVE  Abstract!Visit(who[t]) \/ UNCHANGED <<clock, Book>>
<1>1. clock' = clock /\ who[t] \in People
  BY ClockStill DEF Orderly, Shape, TypeOK
<1>2. CASE (PushBack(t) \/ StoreEnd(t)) /\ Quiet(who[t])
  BY <1>2, SignIn, SignOut
<1>3. CASE ~((PushBack(t) \/ StoreEnd(t)) /\ Quiet(who[t]))
  <2>1. \A p \in People : Book'[p] = Book[p]
    BY <1>3, OthersKept, OwnKept
  <2>2. /\ Book = [q \in People |-> Book[q]]
        /\ Book' = [q \in People |-> Book'[q]]
    BY DEF Book
  <2> QED
    BY <1>1, <2>1, <2>2
<1> QED
  BY <1>2, <1>3

(* A connection that is accepted changes no record, and lets go of people  *)
(* whose requests are not alone any more.                                  *)
LEMMA StartRefines ==
  ASSUME Orderly, Orderly', NEW t \in Threads, Start(t)
  PROVE  \E S \in SUBSET People : Abstract!Interfere(S)
<1> DEFINE S == {p \in People : ~Quiet(p)'}
<1>1. Entries /\ Entries'
  BY BookEntries, NextEntries
<1>2. /\ clock' = clock /\ v' = v /\ cap' = cap /\ who' = who /\ prev' = prev
      /\ local_time' = local_time /\ pc[t] = "new" /\ pc' = [pc EXCEPT ![t] = "name"]
      /\ \A u \in Threads : met[u] \subseteq met'[u]
  BY DEF Start, Goto, shared, locals
<1>3. pc \in [Threads -> Labels]
  BY DEF Orderly, Shape, TypeOK
<1>4. \A u \in Threads : /\ pc'[u] = "leavetime" <=> pc[u] = "leavetime"
                         /\ pc'[u] = "store" <=> pc[u] = "store"
  BY <1>2, <1>3
<1>5. \A u \in Threads : \A i : LeavingAt(u, i)' <=> LeavingAt(u, i)
  BY <1>2, <1>4 DEF LeavingAt, Gone, Dangling, Moving, End
<1>6. ASSUME NEW p \in People
      PROVE  Book'[p] = IF p \in S THEN Abstract!Unknown ELSE Book[p]
  <2>1. CASE p \in S
    BY <1>1, <2>1 DEF Entries, Abstract!Unknown
  <2>2. CASE p \notin S
    <3>1. Quiet(p)' /\ Quiet(p)
      BY <1>2, <2>2 DEF Quiet
    <3>2. CASE \A i \in 1..Len(v) : v[i].who # p
      BY <1>1, <1>2, <2>2, <3>1, <3>2 DEF Entries, Abstract!Absent, Abstract!Never
    <3>3. ASSUME NEW i \in 1..Len(v), v[i].who = p
          PROVE  Book'[p] = Book[p]
      <4>1. CASE \A u \in Threads : ~LeavingAt(u, i)
        <5>1. Book[p] = Filed(i, v[i].leave)
          BY <1>1, <3>1, <3>3, <4>1 DEF Entries
        <5>2. Book'[p] = Filed(i, v[i].leave)'
          BY <1>1, <1>2, <1>5, <3>1, <3>3, <4>1 DEF Entries
        <5> QED
          BY <1>2, <5>1, <5>2 DEF Filed
      <4>2. ASSUME NEW u \in Threads, LeavingAt(u, i)
            PROVE  Book'[p] = Book[p]
        <5>1. Book[p] = Filed(i, local_time[u])
          BY <1>1, <3>1, <3>3, <4>2 DEF Entries
        <5>2. Book'[p] = Filed(i, local_time[u])'
          BY <1>1, <1>2, <1>5, <3>1, <3>3, <4>2 DEF Entries
        <5> QED
          BY <1>2, <5>1, <5>2 DEF Filed
      <4> QED
        BY <4>1, <4>2
    <3> QED
      BY <2>2, <3>2, <3>3
  <2> QED
    BY <2>1, <2>2
<1>7. Book' = [p \in People |-> Book'[p]]
  BY DEF Book
<1>8. Abstract!Interfere(S)
  BY <1>2, <1>6, <1>7 DEF Abstract!Interfere
<1> QED
  BY <1>8

(* Whatever is served side by side, the book of a person whose requests    *)
(* meet no other is the one of AttendanceBook: every step of the server is *)
(* a visit, a tick, a person let go of or nothing at all for it.           *)
THEOREM BookRefines == Spec => ImplementsBook
<1>1. Init => Abstract!Init
  <2> SUFFICES ASSUME Init PROVE Abstract!Init
    OBVIOUS
  <2>1. clock = 0 /\ v = <<>> /\ \A t \in Threads : met[t] = {}
    BY DEF Init
  <2>2. \A p : Quiet(p)
    BY <2>1 DEF Quiet
  <2>3. Book = [p \in People |-> Abstract!Absent]
    BY <2>1, <2>2 DEF Book, Abstract!Absent, Abstract!Never, Never
  <2> QED
    BY <2>1, <2>3 DEF Abstract!Init
<1>2. Orderly /\ Orderly' /\ [Next]_vars => [Abstract!Next]_<<clock, Book>>
  <2> SUFFICES ASSUME Orderly, Orderly', [Next]_vars
               PROVE  Abstract!Next \/ UNCHANGED <<clock, Book>>
    OBVIOUS
  <2>1. ASSUME v' = v, cap' = cap, who' = who, prev' = prev, pc' = pc, met' = met,
               local_time' = local_time
        PROVE  Book' = Book
    BY <2>1 DEF Book, Quiet, Entry, Gone, Dangling, Moving, End
  <2>2. CASE UNCHANGED vars \/ Over
    BY <2>1, <2>2 DEF Over, vars, shared, locals, history
  <2>3. CASE Tick
    BY <2>1, <2>3 DEF Tick, shared, locals, history, Abstract!Next, Abstract!Tick
  <2>4. ASSUME NEW t \in Threads, Step(t)
        PROVE  Abstract!Next \/ UNCHANGED <<clock, Book>>
    <3>1. who[t] \in People
      BY DEF Orderly, Shape, TypeOK
    <3> QED
      BY <2>4, <3>1, StepRefines DEF Abstract!Next
  <2>5. ASSUME NEW t \in Threads, Start(t)
        PROVE  Abstract!Next
    BY <2>5, StartRefines DEF Abstract!Next
  <2> QED
    BY <2>2, <2>3, <2>4, <2>5 DEF Next, Arrive
<1>3. Spec => []Orderly
  BY TimelyAlways, PTL DEF Orderly
<1> QED
  BY <1>1, <1>2, <1>3, PTL DEF Spec, ImplementsBook, Abstract!Spec

=============================================================================
