----------------------------- MODULE Attendance -----------------------------
(***************************************************************************)
(* The attendance book of server/server_http.h: the global server_class,   *)
(* its vector v of user_node records and its counter size, the one global  *)
(* mutex, and the static struct tm behind localtime().                     *)
(*                                                                         *)
(* main() starts one detached thread per connection and each thread runs   *)
(* send_vector once, so a thread is a request here.  Every critical        *)
(* section of the mutex is a lock step and a body; every access to shared  *)
(* state made outside the mutex is a step of its own.  An iterator into v  *)
(* is the storage block it points into and a position; a block is named by *)
(* its capacity, which is different after each reallocation.  A push_back  *)
(* that reallocates has emptied and freed the old block before v.begin()   *)
(* and v.end() are the new ones, and threads that scan v hold no mutex.    *)
(***************************************************************************)
EXTENDS Integers, Sequences, FiniteSets

CONSTANTS
  Threads,      (* one per request the server ever receives                *)
  People,       (* (name, id) pairs, what get_string extracts              *)
  NoThread,     (* holder of a free mutex                                  *)
  MaxClock,     (* bound on the wall clock                                 *)
  MaxInFlight   (* bound on the requests served at the same time           *)

ASSUME ThreadsAssumption == NoThread \notin Threads
ASSUME BoundsAssumption  == MaxClock \in Nat /\ MaxInFlight \in Nat \ {0}

VARIABLES
  clock,        (* what time(NULL) returns                                 *)
  tm,           (* the time held by localtime's static struct tm           *)
  mutex,        (* holder of the global pthread mutex                      *)
  v,            (* the vector of user_node                                 *)
  cap,          (* capacity of v, the name of its current storage block    *)
  size,         (* server_http::size                                       *)
  alive,        (* FALSE once the process has been killed                  *)
  pc,           (* where each thread is                                    *)
  who,          (* the person each request names                           *)
  prev,         (* each thread's iterator into v                           *)
  reg,          (* a value a thread has computed and not yet stored        *)
  local_time,   (* the string get_time returned, as the time it denotes    *)
  counted,      (* history: threads whose find_id incremented size         *)
  met,          (* history: who else was in flight while each thread was   *)
  moved,        (* history: in flight while another push_back reallocated  *)
  blind         (* history: find_id ended while the storage was moving     *)

shared  == <<tm, v, cap, size>>
locals  == <<who, prev, reg, local_time>>
history == <<counted, met, moved, blind>>
vars    == <<clock, mutex, alive, pc, shared, locals, history>>

-----------------------------------------------------------------------------

(* A string or time_t that has not been assigned.                          *)
Never == -1

(* Where a thread waits for, or holds, the mutex.                          *)
LockSites == {"name", "id", "local", "miss", "push", "total",
              "day", "hour", "min", "sec", "mysql"}

(* Critical sections that touch nothing shared but the mutex, and what     *)
(* follows each of them.                                                   *)
Private == [name |-> "id", id |-> "time", total |-> "day", day |-> "hour",
            hour |-> "min", min |-> "sec", sec |-> "mysql", mysql |-> "show"]

(* Steps that follow prev to the user_node it points to.                   *)
DerefSites == {"find", "endtime", "leavetime", "add", "carry", "total",
               "day", "hour", "min", "sec", "print"}

(* The branch "already exists" of send_vector.                             *)
ExistsBranch == {"mktime", "endtime", "leavetime", "add", "carry", "total",
                 "day", "hour", "min", "sec", "mysql"}

Labels == LockSites \cup ExistsBranch \cup
          {"new", "time", "format", "begin", "find", "end", "test",
           "store", "show", "print", "done"}

InFlight == {t \in Threads : pc[t] \notin {"new", "done"}}

NewNode(p, at, start) == [who |-> p, arrive |-> at, start |-> start,
                          leave |-> Never, end |-> 0, worked |-> 0]

(* A definition whose name holds an underscore and a mistake, such as this *)
(* one, is not part of the specification: it is the definition after it    *)
(* made wrong in one plausible way, and shows what a property can catch.   *)
Begin_OffByOne == [block |-> cap, idx |-> 0]

Begin       == [block |-> cap, idx |-> 1]
End         == [block |-> cap, idx |-> Len(v) + 1]
Dangling(t) == prev[t].block # cap
GrownCapacity == IF cap = 0 THEN 1 ELSE 2 * cap

(* A push_back is reallocating: the old elements are empty or freed, and   *)
(* an iterator in front of one of them is as good as a dangling one.       *)
Moving  == Len(v) = cap /\ \E u \in Threads : pc[u] = "store"
Gone(t) == Dangling(t) \/ (Moving /\ prev[t] # End)

(* cur points at a record: of v, or of the freed copy of its prefix.       *)
OnRecord(t) == IF Dangling(t) THEN prev[t].idx <= prev[t].block
                              ELSE prev[t].idx <= Len(v)

(* A write through prev: lost when the storage it points to was freed.  A  *)
(* write into an element that is still to be copied is one made earlier.   *)
WriteThrough(t, node) ==
  v' = IF Gone(t) THEN v ELSE [v EXCEPT ![prev[t].idx] = node]

Goto(t, label) == pc' = [pc EXCEPT ![t] = label]
Unlock(t)      == mutex = t /\ mutex' = NoThread

-----------------------------------------------------------------------------

Init ==
  /\ clock = 0 /\ tm = 0 /\ mutex = NoThread
  /\ v = <<>> /\ cap = 0 /\ size = 0 /\ alive = TRUE
  /\ pc = [t \in Threads |-> "new"]
  /\ who \in [Threads -> People]
  /\ prev = [t \in Threads |-> [block |-> 0, idx |-> 1]]
  /\ reg = [t \in Threads |-> 0]
  /\ local_time = [t \in Threads |-> Never]
  /\ counted = {} /\ met = [t \in Threads |-> {}] /\ moved = {} /\ blind = {}

(* A connection is accepted and its thread enters get_string.              *)
Start(t) ==
  /\ pc[t] = "new" /\ Cardinality(InFlight) < MaxInFlight
  /\ Goto(t, "name")
  /\ met' = [u \in Threads |-> met[u] \cup (IF u = t THEN InFlight
                                      ELSE IF u \in InFlight THEN {t} ELSE {})]
  /\ UNCHANGED <<clock, mutex, alive, shared, locals, counted, moved, blind>>

Lock(t) ==
  /\ pc[t] \in LockSites /\ mutex = NoThread
  /\ mutex' = t
  /\ UNCHANGED <<clock, alive, pc, shared, locals, history>>

PrivateSection(t) ==
  /\ pc[t] \in DOMAIN Private
  /\ Unlock(t)
  /\ Goto(t, Private[pc[t]])
  /\ UNCHANGED <<clock, alive, shared, locals, history>>

(* The assert of get_string, before it takes the mutex: a request with an  *)
(* empty query ends the process.                                           *)
GetStringAborts(t) ==
  /\ pc[t] = "name" /\ mutex # t
  /\ alive' = FALSE
  /\ UNCHANGED <<clock, mutex, pc, shared, locals, history>>

(* get_time: time() is read before the mutex is taken.                     *)
ReadClock(t) ==
  /\ pc[t] = "time"
  /\ reg' = [reg EXCEPT ![t] = clock]
  /\ Goto(t, "local")
  /\ UNCHANGED <<clock, mutex, alive, shared, who, prev, local_time, history>>

LocalTime(t) ==
  /\ pc[t] = "local" /\ mutex = t
  /\ tm' = reg[t]
  /\ reg' = [reg EXCEPT ![t] = 0]
  /\ Goto(t, "format")
  /\ UNCHANGED <<clock, mutex, alive, v, cap, size, who, prev, local_time, history>>

FormatTime(t) ==
  /\ pc[t] = "format"
  /\ Unlock(t)
  /\ local_time' = [local_time EXCEPT ![t] = tm]
  /\ Goto(t, "begin")
  /\ UNCHANGED <<clock, alive, shared, who, prev, reg, history>>

-----------------------------------------------------------------------------

TakeBegin_ReusedByShow(t) ==
  /\ pc[t] \in {"begin", "show"}
  /\ prev' = IF pc[t] = "begin" THEN [prev EXCEPT ![t] = Begin] ELSE prev
  /\ Goto(t, IF pc[t] = "begin" THEN "find" ELSE "print")
  /\ UNCHANGED <<clock, mutex, alive, shared, who, reg, local_time, history>>

(* cur = v.begin() in find_id and in show.                                 *)
TakeBegin(t) ==
  /\ pc[t] \in {"begin", "show"}
  /\ prev' = [prev EXCEPT ![t] = Begin]
  /\ Goto(t, IF pc[t] = "begin" THEN "find" ELSE "print")
  /\ UNCHANGED <<clock, mutex, alive, shared, who, reg, local_time, history>>

FindMatch_AnyRecord(t) ==
  /\ pc[t] = "find" /\ OnRecord(t)
  /\ Goto(t, "test")
  /\ UNCHANGED <<clock, mutex, alive, shared, locals, history>>

(* The strings of a record that is gone compare in any way.                *)
FindMatch(t) ==
  /\ pc[t] = "find" /\ OnRecord(t)
  /\ v[prev[t].idx].who = who[t] \/ Gone(t)
  /\ Goto(t, "test")
  /\ UNCHANGED <<clock, mutex, alive, shared, locals, history>>

Advance_Stays(t) ==
  /\ pc[t] \in {"find", "print"} /\ OnRecord(t)
  /\ pc[t] = "find" => v[prev[t].idx].who # who[t] \/ Gone(t)
  /\ prev' = [prev EXCEPT ![t].idx = IF pc[t] = "print" THEN @ + 1 ELSE @]
  /\ UNCHANGED <<clock, mutex, alive, pc, shared, who, reg, local_time, history>>

(* ++cur, over a record of somebody else or one already printed.           *)
Advance(t) ==
  /\ pc[t] \in {"find", "print"} /\ OnRecord(t)
  /\ pc[t] = "find" => v[prev[t].idx].who # who[t] \/ Gone(t)
  /\ prev' = [prev EXCEPT ![t].idx = @ + 1]
  /\ UNCHANGED <<clock, mutex, alive, pc, shared, who, reg, local_time, history>>

FindEnd_BeforeLast(t) ==
  /\ pc[t] = "find" /\ ~Dangling(t) /\ prev[t].idx >= Len(v)
  /\ blind' = IF Moving THEN blind \cup {t} ELSE blind
  /\ Goto(t, "miss")
  /\ UNCHANGED <<clock, mutex, alive, shared, locals, counted, met, moved>>

(* v.end() is the old one until the reallocation is over, so the loop can  *)
(* end without having seen a record that is there.                         *)
FindEnd(t) ==
  /\ pc[t] = "find" /\ prev[t] = End
  /\ blind' = IF Moving THEN blind \cup {t} ELSE blind
  /\ Goto(t, "miss")
  /\ UNCHANGED <<clock, mutex, alive, shared, locals, counted, met, moved>>

CountMiss_NotCounted(t) ==
  /\ pc[t] = "miss"
  /\ Unlock(t)
  /\ counted' = counted \cup {t}
  /\ Goto(t, "end")
  /\ UNCHANGED <<clock, alive, shared, locals, met, moved, blind>>

CountMiss(t) ==
  /\ pc[t] = "miss"
  /\ Unlock(t)
  /\ size' = size + 1
  /\ counted' = counted \cup {t}
  /\ Goto(t, "end")
  /\ UNCHANGED <<clock, alive, tm, v, cap, locals, met, moved, blind>>

(* find_id returns v.end() as it is now, not as the loop saw it.           *)
ReturnEnd(t) ==
  /\ pc[t] = "end"
  /\ prev' = [prev EXCEPT ![t] = End]
  /\ Goto(t, "test")
  /\ UNCHANGED <<clock, mutex, alive, shared, who, reg, local_time, history>>

(* send_vector compares prev with v.end(), evaluated once more.            *)
Test(t) ==
  /\ pc[t] = "test"
  /\ Goto(t, IF prev[t] # End THEN "mktime" ELSE "push")
  /\ UNCHANGED <<clock, mutex, alive, shared, locals, history>>

-----------------------------------------------------------------------------

(* Sign-out, all of it outside the mutex.  mktime normalises *T in place,  *)
(* so it also writes back to the static struct what it read from it.       *)
Mktime(t) ==
  /\ pc[t] = "mktime"
  /\ reg' = [reg EXCEPT ![t] = tm]
  /\ Goto(t, "endtime")
  /\ UNCHANGED <<clock, mutex, alive, shared, who, prev, local_time, history>>

StoreEnd_IntoStart(t) ==
  /\ pc[t] = "endtime"
  /\ tm' = reg[t]
  /\ WriteThrough(t, [v[prev[t].idx] EXCEPT !.start = reg[t]])
  /\ reg' = [reg EXCEPT ![t] = 0]
  /\ Goto(t, "leavetime")
  /\ UNCHANGED <<clock, mutex, alive, cap, size, who, prev, local_time, history>>

StoreEnd_Forgotten(t) ==
  /\ pc[t] = "endtime"
  /\ tm' = reg[t]
  /\ reg' = [reg EXCEPT ![t] = 0]
  /\ Goto(t, "leavetime")
  /\ UNCHANGED <<clock, mutex, alive, v, cap, size, who, prev, local_time, history>>

StoreEnd(t) ==
  /\ pc[t] = "endtime"
  /\ tm' = reg[t]
  /\ WriteThrough(t, [v[prev[t].idx] EXCEPT !.end = reg[t]])
  /\ reg' = [reg EXCEPT ![t] = 0]
  /\ Goto(t, "leavetime")
  /\ UNCHANGED <<clock, mutex, alive, cap, size, who, prev, local_time, history>>

StoreLeave(t) ==
  /\ pc[t] = "leavetime"
  /\ WriteThrough(t, [v[prev[t].idx] EXCEPT !.leave = local_time[t]])
  /\ Goto(t, "add")
  /\ UNCHANGED <<clock, mutex, alive, tm, cap, size, locals, history>>

(* calculat_work_time reads the record, ...                                *)
AddSpan(t) ==
  /\ pc[t] = "add"
  /\ reg' = [reg EXCEPT ![t] =
       IF Gone(t) THEN 0
       ELSE LET n == v[prev[t].idx] IN n.worked + (n.end - n.start)]
  /\ Goto(t, "carry")
  /\ UNCHANGED <<clock, mutex, alive, shared, who, prev, local_time, history>>

(* ... and stores the new total.  WorkTime has the carry loop itself; two  *)
(* threads inside the loop of one record could also mix its iterations.    *)
StoreWork(t) ==
  /\ pc[t] = "carry"
  /\ WriteThrough(t, [v[prev[t].idx] EXCEPT !.worked = reg[t]])
  /\ reg' = [reg EXCEPT ![t] = 0]
  /\ Goto(t, "total")
  /\ UNCHANGED <<clock, mutex, alive, tm, cap, size, who, prev, local_time, history>>

(* Sign-in holds the mutex throughout: start_time is read off the static   *)
(* struct tm, and a push_back without room begins to move the storage, ... *)
StampArrival(t) ==
  /\ pc[t] = "push" /\ mutex = t
  /\ reg' = [reg EXCEPT ![t] = tm]
  /\ moved' = IF Len(v) = cap THEN moved \cup (InFlight \ {t}) ELSE moved
  /\ Goto(t, "store")
  /\ UNCHANGED <<clock, mutex, alive, shared, who, prev, local_time, counted, met, blind>>

(* ... and when it returns the record is the last one of v.                *)
PushBack(t) ==
  /\ pc[t] = "store"
  /\ Unlock(t)
  /\ tm' = reg[t]
  /\ v' = Append(v, NewNode(who[t], local_time[t], reg[t]))
  /\ cap' = IF Len(v) = cap THEN GrownCapacity ELSE cap
  /\ reg' = [reg EXCEPT ![t] = 0]
  /\ Goto(t, "show")
  /\ UNCHANGED <<clock, alive, size, who, prev, local_time, history>>

(* show() reaches v.end() and the request is over.                         *)
Finish(t) ==
  /\ pc[t] = "print" /\ prev[t] = End
  /\ Goto(t, "done")
  /\ prev' = [prev EXCEPT ![t] = [block |-> 0, idx |-> 1]]
  /\ local_time' = [local_time EXCEPT ![t] = Never]
  /\ UNCHANGED <<clock, mutex, alive, shared, who, reg, history>>

(* An iterator whose record is gone is followed: reading what is left of   *)
(* it is one outcome (the actions above), a fault that ends the process is *)
(* the other, and the only one once it has run past the freed block.       *)
UseAfterFree(t) ==
  /\ pc[t] \in DerefSites /\ Gone(t)
  /\ alive' = FALSE
  /\ UNCHANGED <<clock, mutex, pc, shared, locals, history>>

(* Threads on t's record that assign or print its leave_time, which is a   *)
(* string assigned outside the mutex.                                      *)
AtLeaveTime(t) ==
  {u \in Threads \ {t} : pc[u] \in {"leavetime", "total", "print"} /\ prev[u] = prev[t]}

(* While another thread is at the same string the outcome is undefined:    *)
(* one order of the two accesses (StoreLeave) or the end of the process.   *)
LeaveTimeRace(t) ==
  /\ pc[t] = "leavetime" /\ ~Gone(t) /\ AtLeaveTime(t) # {}
  /\ alive' = FALSE
  /\ UNCHANGED <<clock, mutex, pc, shared, locals, history>>

-----------------------------------------------------------------------------

Step(t) ==
  /\ alive
  /\ \/ Lock(t)       \/ PrivateSection(t) \/ ReadClock(t)
     \/ LocalTime(t)  \/ FormatTime(t)     \/ TakeBegin(t)
     \/ FindMatch(t)  \/ Advance(t)        \/ FindEnd(t)
     \/ CountMiss(t)  \/ ReturnEnd(t)      \/ Test(t)
     \/ Mktime(t)     \/ StoreEnd(t)       \/ StoreLeave(t)
     \/ AddSpan(t)    \/ StoreWork(t)      \/ StampArrival(t)
     \/ PushBack(t)   \/ Finish(t)         \/ GetStringAborts(t)
     \/ UseAfterFree(t) \/ LeaveTimeRace(t)

Arrive(t) == alive /\ Start(t)

Tick ==
  /\ alive /\ clock < MaxClock
  /\ clock' = clock + 1
  /\ UNCHANGED <<mutex, alive, pc, shared, locals, history>>

(* Every request has been answered, or the process is gone.                *)
Over ==
  /\ ~alive \/ \A t \in Threads : pc[t] = "done"
  /\ UNCHANGED vars

Next == Tick \/ Over \/ \E t \in Threads : Arrive(t) \/ Step(t)

(* What a thread does of itself: a query need not be empty.                *)
Proceed(t) == Step(t) /\ ~GetStringAborts(t)

(* The kernel keeps scheduling every thread that can run; nothing says     *)
(* that another request ever arrives.                                      *)
Spec == Init /\ [][Next]_vars /\ \A t \in Threads : WF_vars(Proceed(t))

-----------------------------------------------------------------------------

TypeOK ==
  /\ clock \in Nat /\ tm \in Int /\ mutex \in Threads \cup {NoThread}
  /\ v \in Seq([who : People, arrive : Int, start : Int, leave : Int,
                end : Int, worked : Int])
  /\ cap \in Nat /\ size \in Nat /\ alive \in BOOLEAN
  /\ pc \in [Threads -> Labels] /\ who \in [Threads -> People]
  /\ prev \in [Threads -> [block : Nat, idx : Nat \ {0}]]
  /\ reg \in [Threads -> Int] /\ local_time \in [Threads -> Int]
  /\ counted \subseteq Threads /\ met \in [Threads -> SUBSET Threads]
  /\ moved \subseteq Threads /\ blind \subseteq Threads

(* Two of p's requests were being served at the same time.                 *)
OwnRequestsMet(p) == \E t \in Threads : \E u \in met[t] : who[t] = p /\ who[u] = p

(* find_id followed by push_back does not hold the mutex throughout, so    *)
(* two records of one person do appear (server_http.h:93), but only if two *)
(* of that person's requests were being served at the same time, or if the *)
(* scan of one of them came to the end while another request's push_back   *)
(* was moving the storage: reallocations that begin and end beside a scan, *)
(* and requests of other people, never hide a record otherwise.            *)
DuplicatesNeedRace ==
  \A i, j \in 1..Len(v) :
    (i # j /\ v[i].who = v[j].who) =>
      OwnRequestsMet(v[i].who) \/ \E t \in blind : who[t] = v[i].who

(* A request whose find_id matched a record works on a record of its own   *)
(* person for as long as its iterator is valid (server_http.h:99-103).     *)
FoundRecordIsOwn ==
  \A t \in Threads :
    (pc[t] \in ExistsBranch \cup {"test"} /\ t \notin counted /\ ~Gone(t)) =>
      /\ prev[t].idx <= Len(v)
      /\ v[prev[t].idx].who = who[t]

(* size counts a record before push_back stores it and is never behind:    *)
(* it covers the records in v and those still on their way there.          *)
SizeCoversRecords ==
  Len(v) + Cardinality({t \in Threads : pc[t] \in {"end", "push", "store"}}) <= size

(* No step removes or reorders records or rewrites who arrived and when;   *)
(* and a record is changed only by the thread that takes the step, which   *)
(* serves the record's own person, or had found no record at all (it       *)
(* returned the old v.end(), where a record was then pushed): then it has  *)
(* met a request of the person whose record it writes on.                  *)
OnlyOwnerUpdates ==
  [][\A i \in 1..Len(v) :
       /\ i <= Len(v')
       /\ v'[i].who = v[i].who /\ v'[i].arrive = v[i].arrive /\ v'[i].start = v[i].start
       /\ v'[i] # v[i] =>
            \E t \in InFlight :
              /\ pc'[t] # pc[t]
              /\ \/ who[t] = v[i].who
                 \/ t \in counted /\ \E u \in met[t] : who[u] = v[i].who]_vars

(* The mutex is never left locked nor taken twice by its holder (the       *)
(* comment at server_http.h:556-558): every accepted request gets through  *)
(* its critical sections and scans and ends, unless the process dies.      *)
AllServed ==
  \A t \in Threads : pc[t] # "new" ~> (pc[t] = "done" \/ ~alive)

(* find_id exists so that nobody is inserted twice (server_http.h:93).     *)
OneRecordPerPerson ==
  \A i, j \in 1..Len(v) : v[i].who = v[j].who => i = j

(* start_time is the time_t of the sign-in (server_http.h:19), the moment  *)
(* arrive_time spells out.                                                 *)
StartStampsArrival == \A i \in 1..Len(v) : v[i].start = v[i].arrive

(* A request ends the process only by an empty query (the assert at        *)
(* server_http.h:58), because the storage was reallocated by another       *)
(* request while it was in flight (its own push_back, at 600, leaves no    *)
(* iterator that is used again), or at a leave_time (571) that another     *)
(* request assigns or prints.                                              *)
MayDie(t) ==
  \/ pc[t] = "name"
  \/ t \in moved
  \/ pc[t] = "leavetime" /\ AtLeaveTime(t) # {}

DiesForAReason == [][alive /\ ~alive' => \E t \in InFlight : MayDie(t)]_vars

(* total_time is the time difference between leaving and arriving          *)
(* (server_http.h:573), once no request is in flight.                      *)
TotalIsTimeDifference ==
  InFlight = {} =>
    \A i \in 1..Len(v) : v[i].leave # Never => v[i].worked = v[i].end - v[i].start

(* A person none of whose requests was ever in flight beside another       *)
(* request, of whomever.                                                   *)
Quiet(p) == \A t \in Threads : who[t] = p => met[t] = {}

(* The record as AttendanceBook sees it.  A departure takes effect when    *)
(* end_time is stored: leave_time follows it a step later.                 *)
Entry(i) ==
  LET Leaving == {t \in Threads : pc[t] = "leavetime" /\ ~Gone(t) /\ prev[t].idx = i}
      left    == IF Leaving = {} THEN v[i].leave ELSE local_time[CHOOSE t \in Leaving : TRUE]
  IN  [arrive |-> v[i].arrive, leave |-> left,
       span   |-> IF left = Never THEN 0 ELSE v[i].end - v[i].start]

Book ==
  [p \in People |->
     IF ~Quiet(p) THEN [arrive |-> -2, leave |-> -2, span |-> 0]
     ELSE IF \E i \in 1..Len(v) : v[i].who = p
          THEN Entry(CHOOSE i \in 1..Len(v) : v[i].who = p)
          ELSE [arrive |-> Never, leave |-> Never, span |-> 0]]

Abstract == INSTANCE AttendanceBook WITH book <- Book

(* Whatever requests are served side by side, they leave everybody else's  *)
(* entry alone: for a person whose own requests are never in flight beside *)
(* another the first visit is the sign-in, every other visit a sign-out,   *)
(* and the times of the record say so (server_http.h:568-573, 596-600).    *)
ImplementsBook == Abstract!Spec

=============================================================================
