-------------------------- MODULE HttpServerProofs --------------------------
(***************************************************************************)
(* Proofs about HttpServer, for any number of connections and any size of  *)
(* the descriptor table: threads reach only their own descriptors, nothing *)
(* but pages leaks, and how much room is enough.                           *)
(***************************************************************************)
EXTENDS HttpServer, FiniteSetTheorems, TLAPS

Ends4 == {"in_read", "in_write", "out_read", "out_write"}

(* Where a thread has each of its variables open, pipe() failing or not;   *)
(* what Held says, variable by variable.                                   *)
OpenAt ==
  [sock      |-> Labels \ {"new", "done"},
   stream    |-> {"header", "fclose"},
   page      |-> {},
   in_read   |-> {"pipe_out", "fork", "close_in_read"},
   in_write  |-> {"pipe_out", "fork", "close_in_read", "close_out_write", "relay",
                  "close_in_write"},
   out_read  |-> {"fork", "close_in_read", "close_out_write", "relay", "close_in_write",
                  "close_out_read"},
   out_write |-> {"fork", "close_in_read", "close_out_write"}]

(* Where a thread may still close the number in each of its variables,     *)
(* open or not.                                                            *)
Undoing == {"undo_in_read", "undo_in_write"}

ClosesAfter ==
  [n \in Names |-> IF n \in Ends4 THEN OpenAt[n] \cup Undoing ELSE OpenAt[n]]

-----------------------------------------------------------------------------

(* A thread reads files or runs a program, as its client asks.             *)
Branches ==
  \A c \in Clients :
    /\ pc[c] = "fopen" => asks[c] \in {"file", "unreadable"}
    /\ pc[c] \in {"header", "fclose"} => asks[c] = "file"
    /\ pc[c] \notin {"new", "read", "fopen", "header", "fclose", "close", "done"} =>
         asks[c] = "program"

(* Pipe ends that have not been opened yet are 0, and a pipe() has failed  *)
(* in a thread that undoes the other one.                                  *)
Defaults ==
  \A c \in Clients :
    /\ pc[c] \in {"new", "read", "fopen", "header", "fclose", "pipe_in"} =>
         \A n \in Ends4 : fd[c][n] = 0
    /\ pc[c] \in {"pipe_out"} \cup Undoing => fd[c].out_read = 0 /\ fd[c].out_write = 0
    /\ pc[c] \in Undoing => c \in failed

(* What belongs to no thread: the standard streams are the first three     *)
(* descriptors, and nobody but a failed pipe() has them closed; there is   *)
(* one listening socket.                                                   *)
Common ==
  /\ \A d \in Descriptors : table[d] = Standard => d <= 2
  /\ failed = {} => \A d \in 0..2 : table[d] = Standard
  /\ \A d, e \in Descriptors : table[d] = Listening /\ table[e] = Listening => d = e

(* Each file sent costs one descriptor at most.                            *)
OnePage ==
  \A c \in Clients : \A d \in Descriptors :
    table[d] = <<c, "page">> =>
      /\ pc[c] \in {"fclose", "close", "done"}
      /\ \A e \in Descriptors : table[e] = <<c, "page">> => d = e

(* The pages that nobody will ever close.                                  *)
Kept ==
  {d \in Descriptors \ {0} :
     /\ \E c \in Clients : table[d] = <<c, "page">>
     /\ \A c \in Clients : \A n \in Names : pc[c] \in ClosesAfter[n] => fd[c][n] # d}

(* Whatever failed for want of a descriptor failed in a full table, and    *)
(* the pages that filled it are still there.                               *)
FullTable == MaxFd <= 4 + Cardinality(Kept) + 5 * peak

Failures == failed # {} \/ headless # {} \/ ended = "accept"

Counted == Cardinality(InFlight) <= peak /\ (Failures => FullTable)

(* OwnDescriptors and OnlyPagesLeak, variable by variable.                 *)
Reaches ==
  failed = {} =>
    \A c \in Clients : \A n \in Names :
      pc[c] \in OpenAt[n] => fd[c][n] \in Descriptors /\ table[fd[c][n]] = <<c, n>>

Reached ==
  failed = {} =>
    \A d \in Descriptors : \A c \in Clients : \A n \in Names \ {"page"} :
      table[d] = <<c, n>> => pc[c] \in OpenAt[n] /\ fd[c][n] = d

(* No thread ever closes the listening socket, which is there before the   *)
(* first of them.                                                          *)
Listener ==
  /\ Started \/ (failed = {} /\ \A c \in Clients : pc[c] = "new")
  /\ \A d \in Descriptors :
       table[d] = Listening =>
         /\ d > 2
         /\ \A c \in Clients : \A n \in Names : pc[c] \in ClosesAfter[n] => fd[c][n] # d

Shape == TypeOK /\ Branches /\ Defaults

Places == Reaches /\ Reached /\ Common /\ OnePage

IInv == Shape /\ Places /\ Listener /\ Counted

-----------------------------------------------------------------------------

(* The lowest of some descriptors is one of them.                          *)
LEMMA LowestIsOne ==
  ASSUME NEW ds \in SUBSET Nat, ds # {}
  PROVE  Lowest(ds) \in ds
<1>1. IsWellFoundedOn(OpToRel(<, Nat), Nat)
  BY NatLessThanWellFounded
<1>2. PICK d \in ds : \A e \in ds : <<e, d>> \notin OpToRel(<, Nat)
  BY <1>1, WFMin, Zenon
<1>3. \A e \in ds : ~(e < d)
  BY <1>2 DEF OpToRel
<1>4. \A e \in ds : d <= e
  BY <1>3
<1> QED
  BY <1>4 DEF Lowest

(* What Held says of one variable.                                         *)
LEMMA HeldIsOpenAt ==
  ASSUME TypeOK, NEW c \in Clients, NEW n \in Names
  PROVE  n \in Held(c) <=> pc[c] \in OpenAt[n]
<1>1. pc[c] \in Labels
  BY DEF TypeOK
<1>2. CASE pc[c] \in {"new", "done"}
  BY <1>2 DEF Held, OpenAt, Labels, Closing, Names
<1>3. CASE pc[c] \in {"read", "fopen", "pipe_in", "undo_in_read", "undo_in_write", "close"}
  BY <1>3 DEF Held, OpenAt, Labels, Closing, Names
<1>4. CASE pc[c] \in {"header", "fclose"}
  BY <1>4 DEF Held, OpenAt, Labels, Closing, Names
<1>5. CASE pc[c] = "pipe_out"
  BY <1>5 DEF Held, OpenAt, Labels, Closing, Names
<1>6. CASE pc[c] \in {"fork", "close_in_read"}
  BY <1>6 DEF Held, OpenAt, Labels, Closing, Names
<1>7. CASE pc[c] \in {"close_out_write", "relay", "close_in_write", "close_out_read"}
  BY <1>7 DEF Held, OpenAt, Labels, Closing, Names
<1> QED
  BY <1>1, <1>2, <1>3, <1>4, <1>5, <1>6, <1>7 DEF Labels, Closing

(* A step of c opens these variables, each as a free descriptor of its     *)
(* own, and goes on at label.                                              *)
TableType == table \in [Descriptors -> {Free, Standard, Listening} \cup (Clients \X Names)]
FdType    == fd \in [Clients -> [Names -> Descriptors \cup {Unopened}]]

Opens(c, opened, label) ==
  /\ Goto(c, label)
  /\ TableType' /\ FdType'
  /\ \A d \in Descriptors :
       \/ table'[d] = table[d]
       \/ table[d] = Free /\ \E n \in opened : table'[d] = <<c, n>> /\ fd'[c][n] = d
  /\ \A n \in opened : /\ fd'[c][n] \in Descriptors /\ table[fd'[c][n]] = Free
                       /\ table'[fd'[c][n]] = <<c, n>>
  /\ \A b \in Clients, n \in Names : (b # c \/ n \notin opened) => fd'[b][n] = fd[b][n]

(* A step of c closes the number in its variable m and goes on at label.   *)
Closes(c, m, label) ==
  /\ Goto(c, label)
  /\ TableType' /\ FdType'
  /\ \A d \in Descriptors : table'[d] = IF d = fd[c][m] THEN Free ELSE table[d]
  /\ \A b \in Clients, n \in Names : (b # c \/ label # "done") => fd'[b][n] = fd[b][n]

LEMMA OpenEffect ==
  ASSUME TypeOK, NEW c \in Clients, NEW name \in Names, NEW label, FreeFds # {},
         Open(c, name), Goto(c, label)
  PROVE  Opens(c, {name}, label)
<1> DEFINE d == Lowest(FreeFds)
<1>1. d \in FreeFds
  BY LowestIsOne, MaxFdAssumption DEF FreeFds, Descriptors
<1>2. d \in Descriptors /\ table[d] = Free
  BY <1>1 DEF FreeFds
<1>3. /\ table' = [table EXCEPT ![d] = <<c, name>>]
      /\ fd' = [fd EXCEPT ![c][name] = d]
  BY DEF Open
<1> HIDE DEF d
<1>4. TableType' /\ table'[d] = <<c, name>> /\ \A e \in Descriptors \ {d} : table'[e] = table[e]
  BY <1>2, <1>3 DEF TypeOK, TableType
<1>5. /\ FdType' /\ fd'[c][name] = d
      /\ \A b \in Clients, n \in Names : (b # c \/ n # name) => fd'[b][n] = fd[b][n]
  BY <1>2, <1>3 DEF TypeOK, FdType
<1> QED
  BY <1>2, <1>4, <1>5 DEF Opens

LEMMA OpenPipeEffect ==
  ASSUME TypeOK, NEW c \in Clients, NEW r \in Names, NEW w \in Names, r # w, NEW label,
         RoomForPipe, OpenPipe(c, r, w), Goto(c, label)
  PROVE  Opens(c, {r, w}, label)
<1> DEFINE d == Lowest(FreeFds)
           e == Lowest(FreeFds \ {d})
<1>1. FreeFds \in SUBSET Nat /\ FreeFds # {} /\ \A x : FreeFds \ {x} # {}
  BY MaxFdAssumption DEF RoomForPipe, FreeFds, Descriptors
<1>2. d \in FreeFds /\ e \in FreeFds \ {d}
  BY <1>1, LowestIsOne
<1>3. /\ d \in Descriptors /\ e \in Descriptors /\ d # e
      /\ table[d] = Free /\ table[e] = Free
  BY <1>2 DEF FreeFds
<1>4. /\ table' = [table EXCEPT ![d] = <<c, r>>, ![e] = <<c, w>>]
      /\ fd' = [fd EXCEPT ![c][r] = d, ![c][w] = e]
  BY DEF OpenPipe
<1> HIDE DEF d, e
<1>5. /\ TableType' /\ table'[d] = <<c, r>> /\ table'[e] = <<c, w>>
      /\ \A x \in Descriptors \ {d, e} : table'[x] = table[x]
  BY <1>3, <1>4 DEF TypeOK, TableType
<1>6. /\ FdType' /\ fd'[c][r] = d /\ fd'[c][w] = e
      /\ \A b \in Clients, n \in Names : (b # c \/ n \notin {r, w}) => fd'[b][n] = fd[b][n]
  BY <1>3, <1>4 DEF TypeOK, FdType
<1> QED
  BY <1>3, <1>5, <1>6 DEF Opens

LEMMA CloseEffect ==
  ASSUME TypeOK, NEW c \in Clients, NEW m \in Names, NEW label, Goto(c, label), Close(fd[c][m]),
         fd' = fd \/ (label = "done" /\ fd' = [fd EXCEPT ![c] = NoDescriptors])
  PROVE  Closes(c, m, label)
<1>1. TableType' /\ \A d \in Descriptors : table'[d] = IF d = fd[c][m] THEN Free ELSE table[d]
  BY DEF Close, TypeOK, TableType
<1>2. NoDescriptors \in [Names -> Descriptors \cup {Unopened}]
  BY MaxFdAssumption DEF NoDescriptors, Descriptors
<1>3. /\ FdType'
      /\ \A b \in Clients, n \in Names : (b # c \/ label # "done") => fd'[b][n] = fd[b][n]
  BY <1>2 DEF TypeOK, FdType
<1> QED
  BY <1>1, <1>3 DEF Closes

-----------------------------------------------------------------------------

(* Closed pages do not come back: once a file has been sent its thread     *)
(* only closes.                                                            *)
Sent == {"fclose", "close", "done"}

(* Who reaches what, after a step of c that opens variables or none.       *)
LEMMA OpeningPlaces ==
  ASSUME TypeOK, Places, NEW c \in Clients, NEW opened \in SUBSET Names, NEW l \in Labels,
         Opens(c, opened, l),
         failed' = {} =>
           /\ failed = {}
           /\ \A n \in Names \ {"page"} :
                l \in OpenAt[n] <=> (pc[c] \in OpenAt[n] \/ n \in opened)
           /\ \A n \in opened : pc[c] \notin OpenAt[n],
         pc[c] \in Sent => l \in Sent,
         "page" \in opened => pc[c] \notin Sent /\ l \in Sent
  PROVE  Places'
<1>1. pc'[c] = l /\ \A b \in Clients \ {c} : pc'[b] = pc[b]
  BY DEF Opens, Goto, TypeOK
<1>2. /\ \A b \in Clients, n \in Names : <<b, n>> \notin {Free, Standard, Listening}
      /\ Free # Standard /\ Free # Listening
  BY ClientsAssumption DEF Free, Standard, Listening
<1>3. OpenAt["page"] = {}
  BY DEF OpenAt
<1>4. Reaches'
  <2> SUFFICES ASSUME failed' = {}, NEW b \in Clients, NEW n \in Names, pc'[b] \in OpenAt[n]
               PROVE  fd'[b][n] \in Descriptors /\ table'[fd'[b][n]] = <<b, n>>
    BY DEF Reaches
  <2>1. CASE b = c /\ n \in opened
    BY <2>1 DEF Opens
  <2>2. CASE b # c \/ n \notin opened
    <3>1. pc[b] \in OpenAt[n] /\ fd'[b][n] = fd[b][n]
      BY <1>1, <1>3, <2>2 DEF Opens
    <3>2. fd[b][n] \in Descriptors /\ table[fd[b][n]] = <<b, n>>
      BY <3>1 DEF Places, Reaches
    <3>3. table[fd[b][n]] # Free
      BY <1>2, <3>2
    <3>4. table'[fd[b][n]] = table[fd[b][n]]
      BY <3>2, <3>3 DEF Opens
    <3> QED
      BY <3>1, <3>2, <3>4
  <2> QED
    BY <2>1, <2>2
<1>5. Reached'
  <2> SUFFICES ASSUME failed' = {}, NEW d \in Descriptors, NEW b \in Clients,
                      NEW n \in Names \ {"page"}, table'[d] = <<b, n>>
               PROVE  pc'[b] \in OpenAt[n] /\ fd'[b][n] = d
    BY DEF Reached
  <2>1. CASE table'[d] = table[d]
    <3>1. pc[b] \in OpenAt[n] /\ fd[b][n] = d
      BY <2>1 DEF Places, Reached
    <3> QED
      BY <1>1, <3>1 DEF Opens
  <2>2. CASE table[d] = Free /\ \E m \in opened : table'[d] = <<c, m>> /\ fd'[c][m] = d
    BY <1>1, <2>2
  <2> QED
    BY <2>1, <2>2 DEF Opens
<1>6. \A d \in Descriptors :
        /\ \/ table'[d] = table[d]
           \/ table[d] = Free /\ table'[d] \notin {Standard, Listening, Free}
        /\ table[d] # Free => table'[d] = table[d]
  <2> SUFFICES ASSUME NEW d \in Descriptors
               PROVE  \/ table'[d] = table[d]
                      \/ table[d] = Free /\ table'[d] \notin {Standard, Listening, Free}
    OBVIOUS
  <2>1. CASE table[d] = Free /\ \E n \in opened : table'[d] = <<c, n>> /\ fd'[c][n] = d
    <3>1. PICK n \in Names : table'[d] = <<c, n>>
      BY <2>1
    <3> QED
      BY <1>2, <2>1, <3>1
  <2> QED
    BY <2>1 DEF Opens
<1>7. Common'
  <2>1. failed' = {} => \A d \in 0..2 : d \in Descriptors
    BY MaxFdAssumption DEF Descriptors
  <2> QED
    BY <1>2, <1>6, <2>1 DEF Places, Common
<1>8. OnePage'
  <2> SUFFICES ASSUME NEW b \in Clients, NEW d \in Descriptors, table'[d] = <<b, "page">>
               PROVE  /\ pc'[b] \in Sent
                      /\ \A e \in Descriptors : table'[e] = <<b, "page">> => d = e
    BY DEF OnePage, Sent
  <2>1. CASE b = c /\ "page" \in opened
    <3>1. \A e \in Descriptors : table[e] # <<c, "page">>
      BY <2>1 DEF Places, OnePage, Sent
    <3>2. \A e \in Descriptors : table'[e] = <<c, "page">> => fd'[c].page = e
      BY <3>1 DEF Opens
    <3> QED
      BY <1>1, <2>1, <3>2
  <2>2. CASE b # c \/ "page" \notin opened
    <3>1. \A e \in Descriptors : table'[e] = <<b, "page">> => table[e] = <<b, "page">>
      BY <2>2 DEF Opens
    <3> QED
      BY <1>1, <3>1 DEF Places, OnePage, Sent
  <2> QED
    BY <2>1, <2>2
<1> QED
  BY <1>4, <1>5, <1>7, <1>8 DEF Places

(* Who reaches what, after a step of c that closes its variable m, or any  *)
(* number once a pipe() has failed.                                        *)
LEMMA ClosingPlaces ==
  ASSUME TypeOK, Places, NEW c \in Clients, NEW m \in Names, NEW l \in Labels,
         Closes(c, m, l), failed' = failed,
         failed = {} => /\ pc[c] \in OpenAt[m]
                        /\ \A n \in Names : l \in OpenAt[n] <=> (pc[c] \in OpenAt[n] /\ n # m),
         l \in Sent \/ pc[c] \notin Sent
  PROVE  Places'
<1>1. pc'[c] = l /\ \A b \in Clients \ {c} : pc'[b] = pc[b]
  BY DEF Closes, Goto, TypeOK
<1>2. /\ \A b \in Clients, n \in Names : <<b, n>> \notin {Free, Standard, Listening}
      /\ Free # Standard /\ Free # Listening
  BY ClientsAssumption DEF Free, Standard, Listening
<1>3. \A n \in Names : "done" \notin OpenAt[n]
  BY DEF OpenAt, Names, Labels, Closing
<1>4. Reaches'
  <2> SUFFICES ASSUME failed = {}, NEW b \in Clients, NEW n \in Names, pc'[b] \in OpenAt[n]
               PROVE  fd'[b][n] \in Descriptors /\ table'[fd'[b][n]] = <<b, n>>
    BY DEF Reaches
  <2>1. pc[b] \in OpenAt[n] /\ fd'[b][n] = fd[b][n] /\ (b # c \/ n # m)
    BY <1>1, <1>3 DEF Closes
  <2>2. /\ fd[b][n] \in Descriptors /\ table[fd[b][n]] = <<b, n>>
        /\ fd[c][m] \in Descriptors /\ table[fd[c][m]] = <<c, m>>
    BY <2>1 DEF Places, Reaches
  <2> QED
    BY <2>1, <2>2 DEF Closes
<1>5. Reached'
  <2> SUFFICES ASSUME failed = {}, NEW d \in Descriptors, NEW b \in Clients,
                      NEW n \in Names \ {"page"}, table'[d] = <<b, n>>
               PROVE  pc'[b] \in OpenAt[n] /\ fd'[b][n] = d
    BY DEF Reached
  <2>1. table[d] = <<b, n>> /\ d # fd[c][m]
    BY <1>2 DEF Closes
  <2>2. pc[b] \in OpenAt[n] /\ fd[b][n] = d
    BY <2>1 DEF Places, Reached
  <2> QED
    BY <1>1, <1>3, <2>1, <2>2 DEF Closes
<1>6. Common'
  <2>1. \A d \in 0..2 : d \in Descriptors
    BY MaxFdAssumption DEF Descriptors
  <2>2. failed = {} => fd[c][m] \in Descriptors /\ table[fd[c][m]] = <<c, m>>
    BY DEF Places, Reaches
  <2> QED
    BY <1>2, <2>1, <2>2 DEF Places, Common, Closes
<1>7. OnePage'
  <2>1. \A d \in Descriptors, b \in Clients :
          table'[d] = <<b, "page">> => table[d] = <<b, "page">>
    BY <1>2 DEF Closes, Names
  <2> QED
    BY <1>1, <2>1 DEF Places, OnePage, Sent
<1> QED
  BY <1>4, <1>5, <1>6, <1>7 DEF Places

-----------------------------------------------------------------------------

(* A step that opens variables takes no page from those that stay: it may  *)
(* close later only what it has opened, or could close before.             *)
LEMMA OpeningKeeps ==
  ASSUME TypeOK, NEW c \in Clients, NEW opened \in SUBSET Names, NEW l \in Labels,
         Opens(c, opened, l),
         \A n \in Names : l \in ClosesAfter[n] =>
           pc[c] \in ClosesAfter[n] \/ n \in opened \/ fd[c][n] = 0
  PROVE  Kept \subseteq Kept'
<1>1. pc'[c] = l /\ \A b \in Clients \ {c} : pc'[b] = pc[b]
  BY DEF Opens, Goto, TypeOK
<1> SUFFICES ASSUME NEW d \in Kept PROVE d \in Kept'
  OBVIOUS
<1>2. d \in Descriptors /\ d # 0
  BY DEF Kept
<1>3. PICK b \in Clients : table[d] = <<b, "page">>
  BY DEF Kept
<1>4. table[d] # Free
  BY <1>3, ClientsAssumption DEF Free
<1>5. table'[d] = <<b, "page">>
  BY <1>2, <1>3, <1>4 DEF Opens
<1>6. ASSUME NEW a \in Clients, NEW n \in Names, pc'[a] \in ClosesAfter[n]
      PROVE  fd'[a][n] # d
  <2>1. CASE a = c /\ n \in opened
    BY <1>4, <2>1 DEF Opens
  <2>2. CASE a # c \/ n \notin opened
    <3>1. fd'[a][n] = fd[a][n]
      BY <2>2 DEF Opens
    <3>2. pc[a] \in ClosesAfter[n] \/ fd[a][n] = 0
      BY <1>1, <1>6, <2>2
    <3> QED
      BY <1>2, <3>1, <3>2 DEF Kept
  <2> QED
    BY <2>1, <2>2
<1> QED
  BY <1>2, <1>5, <1>6 DEF Kept

LEMMA ClosingKeeps ==
  ASSUME TypeOK, NEW c \in Clients, NEW m \in Names, NEW l \in Labels, Closes(c, m, l),
         pc[c] \in ClosesAfter[m],
         \A n \in Names : l \in ClosesAfter[n] => pc[c] \in ClosesAfter[n]
  PROVE  Kept \subseteq Kept'
<1>1. pc'[c] = l /\ \A b \in Clients \ {c} : pc'[b] = pc[b]
  BY DEF Closes, Goto, TypeOK
<1>2. \A n \in Names : "done" \notin ClosesAfter[n]
  BY DEF ClosesAfter, OpenAt, Names, Labels, Closing, Undoing, Ends4
<1> SUFFICES ASSUME NEW d \in Kept PROVE d \in Kept'
  OBVIOUS
<1>3. d \in Descriptors /\ d # 0
  BY DEF Kept
<1>4. \E b \in Clients : table[d] = <<b, "page">>
  BY DEF Kept
<1>5. table'[d] = table[d]
  BY <1>3 DEF Closes, Kept
<1>6. ASSUME NEW a \in Clients, NEW n \in Names, pc'[a] \in ClosesAfter[n]
      PROVE  fd'[a][n] # d
  <2>1. pc[a] \in ClosesAfter[n] /\ fd'[a][n] = fd[a][n]
    BY <1>1, <1>2, <1>6 DEF Closes
  <2> QED
    BY <2>1 DEF Kept
<1> QED
  BY <1>3, <1>4, <1>5, <1>6 DEF Kept

(* The listening socket stays where it is.                                 *)
LEMMA OpeningListener ==
  ASSUME TypeOK, Listener, Started, NEW c \in Clients, NEW opened \in SUBSET Names,
         NEW l \in Labels, Opens(c, opened, l),
         \A n \in Names : l \in ClosesAfter[n] =>
           pc[c] \in ClosesAfter[n] \/ n \in opened \/ fd[c][n] = 0
  PROVE  Listener'
<1>1. pc'[c] = l /\ \A b \in Clients \ {c} : pc'[b] = pc[b]
  BY DEF Opens, Goto, TypeOK
<1>2. Listening # Free /\ \A n \in Names : <<c, n>> # Listening
  BY ClientsAssumption DEF Free, Listening
<1>3. \A d \in Descriptors : table'[d] = Listening <=> table[d] = Listening
  BY <1>2 DEF Opens
<1>4. Started'
  BY <1>3 DEF Started
<1>5. ASSUME NEW d \in Descriptors, table'[d] = Listening
      PROVE  d > 2
  BY <1>3, <1>5 DEF Listener
<1>6. ASSUME NEW d \in Descriptors, table'[d] = Listening,
             NEW b \in Clients, NEW n \in Names, pc'[b] \in ClosesAfter[n]
      PROVE  fd'[b][n] # d
  <2>1. CASE b = c /\ n \in opened
    BY <1>2, <1>6, <2>1 DEF Opens
  <2>2. CASE b # c \/ n \notin opened
    <3>1. fd'[b][n] = fd[b][n]
      BY <2>2 DEF Opens
    <3>2. pc[b] \in ClosesAfter[n] \/ fd[b][n] = 0
      BY <1>1, <1>6, <2>2
    <3> QED
      BY <1>3, <1>5, <1>6, <3>1, <3>2 DEF Listener
  <2> QED
    BY <2>1, <2>2
<1> QED
  BY <1>4, <1>5, <1>6 DEF Listener

LEMMA ClosingListener ==
  ASSUME TypeOK, Listener, Started, NEW c \in Clients, NEW m \in Names, NEW l \in Labels,
         Closes(c, m, l), pc[c] \in ClosesAfter[m],
         \A n \in Names : l \in ClosesAfter[n] => pc[c] \in ClosesAfter[n]
  PROVE  Listener'
<1>1. pc'[c] = l /\ \A b \in Clients \ {c} : pc'[b] = pc[b]
  BY DEF Closes, Goto, TypeOK
<1>2. \A n \in Names : "done" \notin ClosesAfter[n]
  BY DEF ClosesAfter, OpenAt, Names, Labels, Closing, Undoing, Ends4
<1>3. Listening # Free
  BY DEF Free, Listening
<1>4. \A d \in Descriptors : table'[d] = Listening <=> table[d] = Listening
  BY <1>3 DEF Closes, Listener
<1>5. Started'
  BY <1>4 DEF Started
<1>6. ASSUME NEW d \in Descriptors, table'[d] = Listening,
             NEW b \in Clients, NEW n \in Names, pc'[b] \in ClosesAfter[n]
      PROVE  fd'[b][n] # d
  <2>1. pc[b] \in ClosesAfter[n] /\ (b # c \/ l # "done")
    BY <1>1, <1>2, <1>6
  <2>2. fd'[b][n] = fd[b][n]
    BY <2>1 DEF Closes
  <2> QED
    BY <1>4, <1>6, <2>1, <2>2 DEF Listener
<1> QED
  BY <1>4, <1>5, <1>6 DEF Listener

(* Until a pipe() has failed, nobody can close a page.                     *)
LEMMA PagesKept ==
  ASSUME Shape, Places, failed = {}, NEW d \in Descriptors, NEW b \in Clients,
         table[d] = <<b, "page">>
  PROVE  d \in Kept
<1>1. d # 0
  <2>1. 0 \in Descriptors /\ 0 \in 0..2
    BY MaxFdAssumption DEF Descriptors
  <2>2. table[0] = Standard /\ Standard # <<b, "page">>
    BY <2>1, ClientsAssumption DEF Places, Common, Standard
  <2> QED
    BY <2>2
<1>2. ASSUME NEW c \in Clients, NEW n \in Names, pc[c] \in ClosesAfter[n]
      PROVE  fd[c][n] # d
  <2>1. pc[c] \notin Undoing
    BY DEF Shape, Defaults
  <2>2. pc[c] \in OpenAt[n] /\ n # "page"
    BY <1>2, <2>1 DEF ClosesAfter, OpenAt, Names
  <2> QED
    BY <2>2 DEF Places, Reaches
<1> QED
  BY <1>1, <1>2 DEF Kept

(* The numbers in use by threads, and those free.                          *)
Busy == {d \in Descriptors :
           table[d] = Free \/ \E c \in Clients, n \in Names \ {"page"} : table[d] = <<c, n>>}

(* A thread never uses its stream and a pipe end: five variables are enough *)
(* to tell apart what it has open.                                          *)
Slot == [sock |-> 1, stream |-> 2, page |-> 1, in_read |-> 2, in_write |-> 3, out_read |-> 4,
         out_write |-> 5]

LEMMA SlotsApart ==
  /\ Slot \in [Names -> 1..5]
  /\ \A m, n \in Names \ {"page"} :
       (Slot[m] = Slot[n] /\ OpenAt[m] \cap OpenAt[n] # {}) => m = n
  /\ \A n \in Names \ {"page"} : Slot[n] = 4 => n = "out_read"
  BY DEF Slot, Names, OpenAt

(* When a thread finds no room for what it wants to open, each free number *)
(* and each one in use is another slot of a request in flight.             *)
LEMMA BusyBound ==
  ASSUME Shape, Places, failed = {},
         FreeFds = {} \/ (~RoomForPipe /\ \E c \in Clients : pc[c] \in {"pipe_in", "pipe_out"})
  PROVE  /\ IsFiniteSet(Busy)
         /\ IsFiniteSet(InFlight) /\ Cardinality(InFlight) \in Nat
         /\ Cardinality(Busy) <= 5 * Cardinality(InFlight)
<1>1. /\ IsFiniteSet(InFlight) /\ Cardinality(InFlight) \in Nat
      /\ IsFiniteSet(InFlight \X (1..5))
      /\ Cardinality(InFlight \X (1..5)) = 5 * Cardinality(InFlight)
  <2>1. InFlight \subseteq Clients
    BY DEF InFlight
  <2>2. IsFiniteSet(InFlight) /\ Cardinality(InFlight) \in Nat
    BY <2>1, ClientsAssumption, FS_Subset, FS_CardinalityType
  <2>3. IsFiniteSet(1..5) /\ Cardinality(1..5) = 5
    <3>1. 1 \in Int /\ 5 \in Int
      OBVIOUS
    <3>2. IsFiniteSet(1..5) /\ Cardinality(1..5) = IF 1 > 5 THEN 0 ELSE 5 - 1 + 1
      BY <3>1, FS_Interval, Zenon
    <3> QED
      BY <3>2
  <2>4. /\ IsFiniteSet(InFlight \X (1..5))
        /\ Cardinality(InFlight \X (1..5)) = Cardinality(InFlight) * Cardinality(1..5)
    BY <2>2, <2>3, FS_Product, Zenon
  <2> QED
    BY <2>2, <2>3, <2>4
<1> DEFINE asking == CHOOSE c \in Clients : pc[c] \in {"pipe_in", "pipe_out"}
           place(d) == IF table[d] = Free THEN <<asking, 4>> ELSE <<table[d][1], Slot[table[d][2]]>>
           f == [d \in Busy |-> place(d)]
<1>2. ASSUME NEW d \in Busy, table[d] # Free
      PROVE  \E c \in Clients, n \in Names \ {"page"} :
               /\ table[d] = <<c, n>> /\ place(d) = <<c, Slot[n]>>
               /\ pc[c] \in OpenAt[n] /\ fd[c][n] = d
  <2>1. PICK c \in Clients, n \in Names \ {"page"} : table[d] = <<c, n>>
    BY <1>2 DEF Busy
  <2>2. pc[c] \in OpenAt[n] /\ fd[c][n] = d
    BY <2>1 DEF Places, Reached, Busy
  <2> QED
    BY <1>2, <2>1, <2>2
<1>3. ASSUME NEW d \in Busy, table[d] = Free
      PROVE  /\ asking \in Clients /\ pc[asking] \in {"pipe_in", "pipe_out"}
             /\ \A e \in Busy : table[e] = Free => e = d
  BY <1>3 DEF FreeFds, Busy, RoomForPipe
<1>4. \A n \in Names : {"new", "done"} \cap OpenAt[n] = {}
  BY DEF OpenAt, Names, Labels, Closing
<1> HIDE DEF asking
<1>5. ASSUME NEW d \in Busy
      PROVE  place(d) \in InFlight \X (1..5)
  <2>1. CASE table[d] = Free
    BY <1>3, <2>1 DEF InFlight
  <2>2. CASE table[d] # Free
    <3>1. PICK c \in Clients, n \in Names : place(d) = <<c, Slot[n]>> /\ pc[c] \in OpenAt[n]
      BY <1>2, <2>2
    <3>2. Slot[n] \in 1..5 /\ c \in InFlight
      BY <1>4, <3>1, SlotsApart DEF InFlight
    <3> QED
      BY <3>1, <3>2
  <2> QED
    BY <2>1, <2>2
<1>6. ASSUME NEW d \in Busy, NEW e \in Busy, table[d] = Free, table[e] # Free
      PROVE  place(d) # place(e)
  <2>1. PICK c \in Clients, n \in Names \ {"page"} :
          place(e) = <<c, Slot[n]>> /\ pc[c] \in OpenAt[n]
    BY <1>2, <1>6
  <2>2. pc[asking] \notin OpenAt["out_read"]
    BY <1>3, <1>6 DEF OpenAt
  <2>3. place(d) = <<asking, 4>>
    BY <1>6
  <2> QED
    BY <2>1, <2>2, <2>3, SlotsApart
<1>7. ASSUME NEW d \in Busy, NEW e \in Busy, table[d] # Free, table[e] # Free, place(d) = place(e)
      PROVE  d = e
  <2>1. PICK b \in Clients, m \in Names \ {"page"} :
          place(d) = <<b, Slot[m]>> /\ pc[b] \in OpenAt[m] /\ fd[b][m] = d
    BY <1>2, <1>7
  <2>2. PICK c \in Clients, n \in Names \ {"page"} :
          place(e) = <<c, Slot[n]>> /\ pc[c] \in OpenAt[n] /\ fd[c][n] = e
    BY <1>2, <1>7
  <2>3. b = c /\ Slot[m] = Slot[n]
    BY <1>7, <2>1, <2>2
  <2> QED
    BY <2>1, <2>2, <2>3, SlotsApart
<1>8. ASSUME NEW d \in Busy, NEW e \in Busy, place(d) = place(e)
      PROVE  d = e
  BY <1>3, <1>6, <1>7, <1>8
<1> HIDE DEF place
<1>9. f \in Injection(Busy, InFlight \X (1..5))
  BY <1>5, <1>8 DEF Injection, IsInjective
<1> QED
  BY <1>1, <1>9, FS_Injection

(* The union of two finite sets has at most as many elements as both.      *)
LEMMA UnionBound ==
  ASSUME NEW S, NEW T, IsFiniteSet(S), IsFiniteSet(T)
  PROVE  IsFiniteSet(S \cup T) /\ Cardinality(S \cup T) <= Cardinality(S) + Cardinality(T)
<1>1. /\ IsFiniteSet(S \cup T)
      /\ Cardinality(S \cup T) = Cardinality(S) + Cardinality(T) - Cardinality(S \cap T)
  BY FS_Union, Zenon
<1>2. IsFiniteSet(S \cap T)
  BY FS_Intersection, Zenon
<1>3. Cardinality(S) \in Nat /\ Cardinality(T) \in Nat /\ Cardinality(S \cap T) \in Nat
  BY <1>2, FS_CardinalityType, Zenon
<1> QED
  BY <1>1, <1>3

LEMMA DescriptorsCounted ==
  IsFiniteSet(Descriptors) /\ Cardinality(Descriptors) = MaxFd
<1>1. 0 \in Int /\ MaxFd - 1 \in Int
  BY MaxFdAssumption
<1>2. /\ IsFiniteSet(0..MaxFd - 1)
      /\ Cardinality(0..MaxFd - 1) = IF 0 > MaxFd - 1 THEN 0 ELSE MaxFd - 1 - 0 + 1
  BY <1>1, FS_Interval, Zenon
<1> QED
  BY <1>2, MaxFdAssumption DEF Descriptors

LEMMA KeptCounted == IsFiniteSet(Kept) /\ Cardinality(Kept) \in Nat
<1>1. Kept \subseteq Descriptors
  BY DEF Kept
<1> QED
  BY <1>1, DescriptorsCounted, FS_Subset, FS_CardinalityType

(* What fills the table: the standard streams and the listening socket,    *)
(* pages, and what the requests in flight have open.                       *)
LEMMA NoRoom ==
  ASSUME Shape, Places, failed = {},
         FreeFds = {} \/ (~RoomForPipe /\ \E c \in Clients : pc[c] \in {"pipe_in", "pipe_out"})
  PROVE  MaxFd <= 4 + Cardinality(Kept) + 5 * Cardinality(InFlight)
<1> DEFINE Listeners == {d \in Descriptors : table[d] = Listening}
<1>1. IsFiniteSet(Listeners) /\ Cardinality(Listeners) \in 0..1
  <2>1. CASE Listeners = {}
    BY <2>1, FS_EmptySet
  <2>2. ASSUME NEW d \in Listeners
        PROVE  IsFiniteSet(Listeners) /\ Cardinality(Listeners) \in 0..1
    <3>1. Listeners = {d}
      BY DEF Places, Common
    <3>2. IsFiniteSet({d}) /\ Cardinality({d}) = 1
      BY FS_Singleton
    <3> QED
      BY <3>1, <3>2
  <2> QED
    BY <2>1, <2>2
<1>2. IsFiniteSet(0..2) /\ Cardinality(0..2) = 3
  <2>1. 0 \in Int /\ 2 \in Int
    OBVIOUS
  <2>2. IsFiniteSet(0..2) /\ Cardinality(0..2) = IF 0 > 2 THEN 0 ELSE 2 - 0 + 1
    BY <2>1, FS_Interval, Zenon
  <2> QED
    BY <2>2
<1>3. Descriptors \subseteq ((0..2) \cup Listeners) \cup (Kept \cup Busy)
  <2> SUFFICES ASSUME NEW d \in Descriptors, table[d] # Listening, d \notin Busy, d \notin Kept
               PROVE  d \in 0..2
    OBVIOUS
  <2>1. table[d] = Standard \/ table[d] \in Clients \X Names
    BY DEF Shape, TypeOK, Busy
  <2>2. CASE table[d] = Standard
    BY <2>2, MaxFdAssumption DEF Places, Common, Descriptors
  <2>3. CASE table[d] \in Clients \X Names
    <3>1. PICK c \in Clients, n \in Names : table[d] = <<c, n>>
      BY <2>3
    <3>2. n = "page"
      BY <3>1 DEF Busy
    <3> QED
      BY <3>1, <3>2, PagesKept
  <2> QED
    BY <2>1, <2>2, <2>3
<1> HIDE DEF Listeners
<1>4. /\ IsFiniteSet((0..2) \cup Listeners)
      /\ Cardinality((0..2) \cup Listeners) <= Cardinality(0..2) + Cardinality(Listeners)
  BY <1>1, <1>2, UnionBound, Zenon
<1>5. /\ IsFiniteSet(Kept \cup Busy)
      /\ Cardinality(Kept \cup Busy) <= Cardinality(Kept) + Cardinality(Busy)
  BY KeptCounted, BusyBound, UnionBound, Zenon
<1> DEFINE All == ((0..2) \cup Listeners) \cup (Kept \cup Busy)
<1>6. /\ IsFiniteSet(All)
      /\ Cardinality(All) <= Cardinality((0..2) \cup Listeners) + Cardinality(Kept \cup Busy)
  BY <1>4, <1>5, UnionBound, Zenon
<1>7. Cardinality(Descriptors) <= Cardinality(All)
  BY <1>3, <1>6, FS_Subset
<1>8. /\ Cardinality(All) \in Nat /\ Cardinality((0..2) \cup Listeners) \in Nat
      /\ Cardinality(Kept \cup Busy) \in Nat /\ Cardinality(Busy) \in Nat
  BY <1>4, <1>5, <1>6, BusyBound, FS_CardinalityType, Zenon
<1> HIDE DEF All
<1> QED
  BY <1>1, <1>2, <1>4, <1>5, <1>6, <1>7, <1>8, BusyBound, KeptCounted, DescriptorsCounted,
     MaxFdAssumption

-----------------------------------------------------------------------------

(* No step loses a page that stays or lowers the peak, and what fails for  *)
(* want of a descriptor fails in a table full of what NoRoom counts.       *)
LEMMA CountedStep ==
  ASSUME Shape, Shape', Counted, Kept \subseteq Kept', peak <= peak',
         IsFiniteSet(InFlight'), Cardinality(InFlight') <= peak',
         Failures' => \/ Failures
                      \/ MaxFd <= 4 + Cardinality(Kept) + 5 * Cardinality(InFlight)
  PROVE  Counted'
<1>1. peak \in Nat /\ peak' \in Nat
  <2>1. Cardinality(Clients) \in Nat
    BY ClientsAssumption, FS_CardinalityType
  <2> QED
    BY <2>1 DEF Shape, TypeOK
<1>2. IsFiniteSet(Kept') /\ Cardinality(Kept') \in Nat
  <2>1. Kept' \subseteq Descriptors
    BY DEF Kept
  <2> QED
    BY <2>1, DescriptorsCounted, FS_Subset, FS_CardinalityType
<1>3. Cardinality(Kept) <= Cardinality(Kept')
  BY <1>2, FS_Subset
<1>4. Cardinality(InFlight) \in Nat /\ Cardinality(InFlight) <= peak
  <2>1. InFlight \subseteq Clients
    BY DEF InFlight
  <2> QED
    BY <2>1, ClientsAssumption, FS_Subset, FS_CardinalityType DEF Counted
<1>5. Failures' => MaxFd <= 4 + Cardinality(Kept) + 5 * peak
  BY <1>1, <1>4, KeptCounted, MaxFdAssumption DEF Counted, FullTable
<1>6. Failures' => FullTable'
  BY <1>1, <1>2, <1>3, <1>5, KeptCounted, MaxFdAssumption DEF FullTable
<1> QED
  BY <1>6 DEF Counted

(* A request stays in flight until it is done.                             *)
LEMMA InFlightStep ==
  ASSUME TypeOK, Counted, NEW c \in Clients, NEW l \in Labels, Goto(c, l),
         pc[c] \notin {"new", "done"}
  PROVE  IsFiniteSet(InFlight') /\ Cardinality(InFlight') <= peak
<1>1. InFlight' \subseteq InFlight /\ InFlight \subseteq Clients
  BY DEF InFlight, Goto, TypeOK
<1>2. IsFiniteSet(InFlight) /\ Cardinality(InFlight) \in Nat
  BY <1>1, ClientsAssumption, FS_Subset, FS_CardinalityType
<1>3. /\ IsFiniteSet(InFlight') /\ Cardinality(InFlight') <= Cardinality(InFlight)
      /\ Cardinality(InFlight') \in Nat
  BY <1>1, <1>2, FS_Subset, FS_CardinalityType
<1>4. peak \in Nat
  BY ClientsAssumption, FS_CardinalityType DEF TypeOK
<1> QED
  BY <1>2, <1>3, <1>4 DEF Counted

(* A step of a request in flight that opens variables, or none.            *)
LEMMA OpeningStep ==
  ASSUME IInv, Shape', NEW c \in Clients, NEW opened \in SUBSET Names, NEW l \in Labels,
         Opens(c, opened, l), pc[c] \notin {"new", "done"}, peak' = peak,
         failed' = {} =>
           /\ failed = {}
           /\ \A n \in Names \ {"page"} :
                l \in OpenAt[n] <=> (pc[c] \in OpenAt[n] \/ n \in opened)
           /\ \A n \in opened : pc[c] \notin OpenAt[n],
         pc[c] \in Sent => l \in Sent,
         "page" \in opened => pc[c] \notin Sent /\ l \in Sent,
         \A n \in Names : l \in ClosesAfter[n] =>
           pc[c] \in ClosesAfter[n] \/ n \in opened \/ fd[c][n] = 0,
         Failures' => \/ Failures
                      \/ /\ failed = {}
                         /\ \/ FreeFds = {}
                            \/ ~RoomForPipe /\ pc[c] \in {"pipe_in", "pipe_out"}
  PROVE  IInv'
<1>1. Places'
  BY OpeningPlaces DEF IInv, Shape
<1>2. Kept \subseteq Kept'
  BY OpeningKeeps DEF IInv, Shape
<1>3. peak \in Nat
  BY ClientsAssumption, FS_CardinalityType DEF IInv, Shape, TypeOK
<1>4. IsFiniteSet(InFlight') /\ Cardinality(InFlight') <= peak' /\ peak <= peak'
  BY <1>3, InFlightStep DEF Opens, IInv, Shape
<1>5. Failures' => Failures \/ MaxFd <= 4 + Cardinality(Kept) + 5 * Cardinality(InFlight)
  BY NoRoom DEF IInv
<1>6. Listener'
  <2>1. Started
    BY DEF IInv, Listener
  <2> QED
    BY <2>1, OpeningListener DEF IInv, Shape
<1> QED
  BY <1>1, <1>2, <1>4, <1>5, <1>6, CountedStep DEF IInv

(* A step of a request in flight that closes a variable.                   *)
LEMMA ClosingStep ==
  ASSUME IInv, Shape', NEW c \in Clients, NEW m \in Names, NEW l \in Labels,
         Closes(c, m, l), pc[c] \notin {"new", "done"}, UNCHANGED <<peak, failed, headless, ended>>,
         failed = {} => /\ pc[c] \in OpenAt[m]
                        /\ \A n \in Names : l \in OpenAt[n] <=> (pc[c] \in OpenAt[n] /\ n # m),
         l \in Sent \/ pc[c] \notin Sent,
         pc[c] \in ClosesAfter[m],
         \A n \in Names : l \in ClosesAfter[n] => pc[c] \in ClosesAfter[n]
  PROVE  IInv'
<1>1. Places'
  BY ClosingPlaces DEF IInv, Shape
<1>2. Kept \subseteq Kept'
  BY ClosingKeeps DEF IInv, Shape
<1>3. peak \in Nat
  BY ClientsAssumption, FS_CardinalityType DEF IInv, Shape, TypeOK
<1>4. IsFiniteSet(InFlight') /\ Cardinality(InFlight') <= peak' /\ peak <= peak'
  BY <1>3, InFlightStep DEF Closes, IInv, Shape
<1>5. Failures' => Failures
  BY DEF Failures
<1>6. Listener'
  <2>1. Started
    BY DEF IInv, Listener
  <2> QED
    BY <2>1, ClosingListener DEF IInv, Shape
<1> QED
  BY <1>1, <1>2, <1>4, <1>5, <1>6, CountedStep DEF IInv

-----------------------------------------------------------------------------

(* Where the thread goes, and what it may have open or still close there.  *)
LEMMA AcceptStep ==
  ASSUME IInv, NEW c \in Clients, Accept(c)
  PROVE  IInv'
<1>1. TypeOK /\ pc[c] = "new" /\ Goto(c, "read")
  BY DEF IInv, Shape, Accept
<1>2. pc' \in [Clients -> Labels] /\ pc'[c] = "read" /\ \A b \in Clients \ {c} : pc'[b] = pc[b]
  BY <1>1 DEF Goto, TypeOK, Labels
<1>3. Opens(c, {"sock"}, "read")
  BY <1>1, OpenEffect DEF Accept, Names
<1>4. /\ IsFiniteSet(InFlight') /\ Cardinality(InFlight') = Cardinality(InFlight) + 1
      /\ Cardinality(InFlight) \in Nat /\ Cardinality(InFlight') <= Cardinality(Clients)
      /\ Cardinality(Clients) \in Nat
  <2>1. InFlight' = InFlight \cup {c} /\ c \notin InFlight
    BY <1>1, <1>2 DEF InFlight
  <2>2. InFlight \subseteq Clients /\ InFlight' \subseteq Clients
    BY DEF InFlight
  <2>3. IsFiniteSet(InFlight)
    BY <2>2, ClientsAssumption, FS_Subset
  <2> QED
    BY <2>1, <2>2, <2>3, ClientsAssumption, FS_AddElement, FS_Subset, FS_CardinalityType
<1>5. peak \in Nat /\ peak' \in Nat /\ peak <= peak' /\ Cardinality(InFlight') <= peak'
      /\ peak' <= Cardinality(Clients)
  BY <1>1, <1>4 DEF Accept, TypeOK, IInv, Counted
<1>6. Shape'
  <2>1. TypeOK'
    BY <1>1, <1>2, <1>3, <1>4, <1>5 DEF Opens, TypeOK, TableType, FdType, Accept
  <2>2. Branches'
    BY <1>2 DEF Branches, Accept, IInv, Shape
  <2>3. Defaults'
    BY <1>1, <1>2, <1>3 DEF Defaults, Accept, IInv, Shape, Opens, Names, Ends4, Undoing
  <2> QED
    BY <2>1, <2>2, <2>3 DEF Shape
<1>7. Places'
  <2>1. "read" \in Labels /\ {"sock"} \in SUBSET Names
    BY DEF Labels, Names
  <2>2. /\ \A n \in Names \ {"page"} :
             "read" \in OpenAt[n] <=> (pc[c] \in OpenAt[n] \/ n \in {"sock"})
        /\ \A n \in {"sock"} : pc[c] \notin OpenAt[n]
        /\ pc[c] \notin Sent
    BY <1>1 DEF OpenAt, Names, Labels, Closing, Sent
  <2>3. failed' = failed
    BY DEF Accept
  <2> QED
    BY <1>1, <1>3, <2>1, <2>2, <2>3, OpeningPlaces DEF IInv
<1>8. Kept \subseteq Kept'
  <2>1. "read" \in Labels /\ {"sock"} \in SUBSET Names
    BY DEF Labels, Names
  <2>2. \A n \in Names : "read" \in ClosesAfter[n] => n \in {"sock"}
    BY DEF ClosesAfter, OpenAt, Names, Ends4, Undoing
  <2> QED
    BY <1>1, <1>3, <2>1, <2>2, OpeningKeeps
<1>9. Listener'
  <2>1. "read" \in Labels /\ {"sock"} \in SUBSET Names
    BY DEF Labels, Names
  <2>2. \A n \in Names : "read" \in ClosesAfter[n] => n \in {"sock"}
    BY DEF ClosesAfter, OpenAt, Names, Ends4, Undoing
  <2>3. Started
    BY DEF Accept
  <2> QED
    BY <1>1, <1>3, <2>1, <2>2, <2>3, OpeningListener DEF IInv
<1>10. Failures' => Failures
  BY DEF Failures, Accept
<1> QED
  BY <1>4, <1>5, <1>6, <1>7, <1>8, <1>9, <1>10, CountedStep DEF IInv

(* fopen in exec_get_file, and in send_header.                             *)
LEMMA FileStep ==
  ASSUME IInv, NEW c \in Clients, OpenStream(c) \/ SendFile(c)
  PROVE  IInv'
<1> DEFINE name == IF pc[c] = "fopen" THEN "stream" ELSE "page"
           l    == IF pc[c] = "fopen" THEN "header" ELSE "fclose"
<1>1. /\ TypeOK /\ pc[c] \in {"fopen", "header"} /\ Goto(c, l) /\ l \in Labels
      /\ name \in Names /\ Open(c, name) /\ FreeFds # {}
  BY DEF IInv, Shape, OpenStream, SendFile, Labels, Closing, Names
<1>2. pc' \in [Clients -> Labels] /\ pc'[c] = l /\ \A b \in Clients \ {c} : pc'[b] = pc[b]
  BY <1>1 DEF Goto, TypeOK
<1>3. Opens(c, {name}, l)
  BY <1>1, OpenEffect
<1>4. Shape'
  <2>1. TypeOK'
    BY <1>1, <1>2, <1>3 DEF Opens, TypeOK, TableType, FdType, OpenStream, SendFile, history
  <2>2. Branches'
    BY <1>1, <1>2 DEF Branches, OpenStream, SendFile, IInv, Shape
  <2>3. Defaults'
    BY <1>1, <1>2, <1>3
       DEF Defaults, OpenStream, SendFile, IInv, Shape, Opens, Names, Ends4, Undoing, history
  <2> QED
    BY <2>1, <2>2, <2>3 DEF Shape
<1>5. /\ \A n \in Names \ {"page"} : l \in OpenAt[n] <=> (pc[c] \in OpenAt[n] \/ n \in {name})
      /\ \A n \in {name} : pc[c] \notin OpenAt[n]
      /\ pc[c] \notin Sent /\ ("page" \in {name} => l \in Sent)
      /\ \A n \in Names : l \in ClosesAfter[n] => pc[c] \in ClosesAfter[n] \/ n \in {name}
  BY <1>1 DEF OpenAt, ClosesAfter, Names, Labels, Closing, Sent, Ends4, Undoing
<1>6. UNCHANGED <<peak, failed, headless, ended>>
  BY DEF OpenStream, SendFile, history
<1>7. Failures' => Failures
  BY <1>6 DEF Failures
<1>8. /\ {name} \in SUBSET Names /\ l \in Labels /\ pc[c] \notin {"new", "done"}
      /\ failed' = failed /\ peak' = peak
  BY <1>1, <1>6
<1> HIDE DEF l, name
<1> QED
  BY <1>3, <1>4, <1>5, <1>7, <1>8, OpeningStep

(* A step that opens nothing: reading the request, fork, and the relay.    *)
LEMMA MoveStep ==
  ASSUME IInv, NEW c \in Clients, ReadRequest(c) \/ Fork(c) \/ Relay(c)
  PROVE  IInv'
<1>1. TypeOK /\ UNCHANGED <<asks, table, fd, ended, failed, headless, peak>>
  BY DEF IInv, Shape, ReadRequest, Fork, Relay, history
<1>2. PICK l \in {"fopen", "pipe_in", "close", "close_in_read", "close_in_write"} :
        /\ Goto(c, l)
        /\ \/ pc[c] = "read" /\ l = "fopen" /\ asks[c] \in {"file", "unreadable"}
           \/ pc[c] = "read" /\ l = "pipe_in" /\ asks[c] = "program"
           \/ pc[c] = "read" /\ l = "close"
           \/ pc[c] = "fork" /\ l = "close_in_read"
           \/ pc[c] = "relay" /\ l = "close_in_write"
  <2>1. CASE ReadRequest(c)
    <3>1. asks[c] \in Kinds
      BY <1>1 DEF TypeOK
    <3> QED
      BY <2>1, <3>1 DEF ReadRequest, Kinds
  <2>2. CASE Fork(c) \/ Relay(c)
    BY <2>2 DEF Fork, Relay
  <2> QED
    BY <2>1, <2>2
<1>3. l \in Labels /\ pc[c] \notin {"new", "done"} /\ {} \in SUBSET Names
  BY <1>2 DEF Labels, Closing
<1>4. pc' \in [Clients -> Labels] /\ pc'[c] = l /\ \A b \in Clients \ {c} : pc'[b] = pc[b]
  BY <1>1, <1>2, <1>3 DEF Goto, TypeOK
<1>5. Opens(c, {}, l)
  BY <1>1, <1>2 DEF Opens, TypeOK, TableType, FdType
<1>6. Shape'
  <2>1. TypeOK'
    BY <1>1, <1>4 DEF TypeOK, Descriptors
  <2>2. Branches'
    BY <1>1, <1>2, <1>4 DEF Branches, IInv, Shape
  <2>3. Defaults'
    BY <1>1, <1>2, <1>4 DEF Defaults, IInv, Shape, Undoing
  <2> QED
    BY <2>1, <2>2, <2>3 DEF Shape
<1>7. /\ \A n \in Names \ {"page"} : l \in OpenAt[n] <=> pc[c] \in OpenAt[n]
      /\ pc[c] \notin Sent
  BY <1>2 DEF OpenAt, Names, Labels, Closing, Sent
<1>8. \A n \in Names : l \in ClosesAfter[n] => pc[c] \in ClosesAfter[n]
  BY <1>2 DEF ClosesAfter, OpenAt, Names, Labels, Closing, Ends4, Undoing
<1>9. Failures' => Failures
  BY <1>1 DEF Failures
<1> QED
  BY <1>1, <1>3, <1>5, <1>6, <1>7, <1>8, <1>9, OpeningStep

(* A header and no file: the table is full.                                *)
LEMMA HeaderStep ==
  ASSUME IInv, NEW c \in Clients, SendHeaderOnly(c)
  PROVE  IInv'
<1>1. /\ TypeOK /\ UNCHANGED <<asks, table, fd, ended, failed, peak>>
      /\ headless' = headless \cup {c} /\ pc[c] = "header" /\ Goto(c, "fclose") /\ FreeFds = {}
  BY DEF IInv, Shape, SendHeaderOnly
<1>2. "fclose" \in Labels /\ {} \in SUBSET Names
  BY DEF Labels, Closing
<1>3. /\ pc' \in [Clients -> Labels] /\ pc'[c] = "fclose"
      /\ \A b \in Clients \ {c} : pc'[b] = pc[b]
  BY <1>1, <1>2 DEF Goto, TypeOK
<1>4. Opens(c, {}, "fclose")
  BY <1>1 DEF Opens, TypeOK, TableType, FdType
<1>5. Shape'
  <2>1. asks[c] = "file"
    BY <1>1 DEF Branches, IInv, Shape
  <2>2. TypeOK'
    BY <1>1, <1>3, <2>1 DEF TypeOK, Descriptors
  <2>3. Branches'
    BY <1>1, <1>3 DEF Branches, IInv, Shape
  <2>4. Defaults'
    BY <1>1, <1>3 DEF Defaults, IInv, Shape, Undoing
  <2> QED
    BY <2>2, <2>3, <2>4 DEF Shape
<1>6. /\ \A n \in Names \ {"page"} : "fclose" \in OpenAt[n] <=> pc[c] \in OpenAt[n]
      /\ pc[c] \notin Sent
  BY <1>1 DEF OpenAt, Names, Labels, Closing, Sent
<1>7. \A n \in Names : "fclose" \in ClosesAfter[n] => pc[c] \in ClosesAfter[n]
  BY <1>1 DEF ClosesAfter, OpenAt, Names, Labels, Closing, Ends4, Undoing
<1>8. Failures' => Failures \/ (failed = {} /\ FreeFds = {})
  BY <1>1 DEF Failures
<1> QED
  BY <1>1, <1>2, <1>4, <1>5, <1>6, <1>7, <1>8, OpeningStep

(* The two pipe() calls of exec_cgi when they succeed.                     *)
LEMMA PipeStep ==
  ASSUME IInv, NEW c \in Clients, OpenInput(c) \/ OpenOutput(c)
  PROVE  IInv'
<1> DEFINE r == IF pc[c] = "pipe_in" THEN "in_read" ELSE "out_read"
           w == IF pc[c] = "pipe_in" THEN "in_write" ELSE "out_write"
           l == IF pc[c] = "pipe_in" THEN "pipe_out" ELSE "fork"
<1>1. /\ TypeOK /\ pc[c] \in {"pipe_in", "pipe_out"} /\ Goto(c, l)
      /\ OpenPipe(c, r, w) /\ RoomForPipe
      /\ UNCHANGED <<asks, ended, failed, headless, peak>>
  BY DEF IInv, Shape, OpenInput, OpenOutput, history
<1>2. r \in Names /\ w \in Names /\ r # w /\ l \in Labels
  BY DEF Labels, Names
<1>3. pc' \in [Clients -> Labels] /\ pc'[c] = l /\ \A b \in Clients \ {c} : pc'[b] = pc[b]
  BY <1>1, <1>2 DEF Goto, TypeOK
<1>4. Opens(c, {r, w}, l)
  BY <1>1, <1>2, OpenPipeEffect
<1>5. Shape'
  <2>1. TypeOK'
    BY <1>1, <1>3, <1>4 DEF Opens, TypeOK, TableType, FdType, Descriptors
  <2>2. Branches'
    BY <1>1, <1>3 DEF Branches, IInv, Shape
  <2>3. Defaults'
    BY <1>1, <1>3, <1>4 DEF Defaults, IInv, Shape, Opens, Names, Ends4, Undoing
  <2> QED
    BY <2>1, <2>2, <2>3 DEF Shape
<1>6. /\ \A n \in Names \ {"page"} : l \in OpenAt[n] <=> (pc[c] \in OpenAt[n] \/ n \in {r, w})
      /\ \A n \in {r, w} : pc[c] \notin OpenAt[n]
      /\ pc[c] \notin Sent /\ "page" \notin {r, w}
  BY <1>1 DEF OpenAt, Names, Labels, Closing, Sent
<1>7. \A n \in Names : l \in ClosesAfter[n] => pc[c] \in ClosesAfter[n] \/ n \in {r, w}
  BY <1>1 DEF ClosesAfter, OpenAt, Names, Labels, Closing, Ends4, Undoing
<1>8. Failures' => Failures
  BY <1>1 DEF Failures
<1>9. {r, w} \in SUBSET Names /\ pc[c] \notin {"new", "done"} /\ failed' = failed /\ peak' = peak
  BY <1>1, <1>2
<1> HIDE DEF r, w, l
<1> QED
  BY <1>2, <1>4, <1>5, <1>6, <1>7, <1>8, <1>9, OpeningStep

(* The two pipe() calls when they fail.                                    *)
LEMMA PipeFailsStep ==
  ASSUME IInv, NEW c \in Clients, OpenInputFails(c) \/ OpenOutputFails(c)
  PROVE  IInv'
<1> DEFINE l == IF pc[c] = "pipe_in" THEN "pipe_out" ELSE "undo_in_read"
<1>1. /\ TypeOK /\ pc[c] \in {"pipe_in", "pipe_out"} /\ Goto(c, l) /\ ~RoomForPipe
      /\ UNCHANGED <<asks, table, fd, ended, headless, peak>> /\ failed' = failed \cup {c}
  BY DEF IInv, Shape, OpenInputFails, OpenOutputFails
<1>2. l \in Labels /\ {} \in SUBSET Names
  BY DEF Labels, Closing
<1>3. pc' \in [Clients -> Labels] /\ pc'[c] = l /\ \A b \in Clients \ {c} : pc'[b] = pc[b]
  BY <1>1, <1>2 DEF Goto, TypeOK
<1>4. Opens(c, {}, l)
  BY <1>1 DEF Opens, TypeOK, TableType, FdType
<1>5. Shape'
  <2>1. asks[c] = "program"
    BY <1>1 DEF Branches, IInv, Shape
  <2>2. TypeOK'
    BY <1>1, <1>3, <2>1 DEF TypeOK, Descriptors
  <2>3. Branches'
    BY <1>1, <1>3 DEF Branches, IInv, Shape
  <2>4. Defaults'
    BY <1>1, <1>3 DEF Defaults, IInv, Shape, Undoing, Ends4
  <2> QED
    BY <2>2, <2>3, <2>4 DEF Shape
<1>6. pc[c] \notin Sent /\ pc[c] \notin {"new", "done"} /\ failed' # {}
  BY <1>1 DEF Sent
<1>7. \A n \in Names : l \in ClosesAfter[n] => pc[c] \in ClosesAfter[n] \/ fd[c][n] = 0
  <2>1. CASE pc[c] = "pipe_in"
    <3>1. fd[c].in_read = 0 /\ fd[c].in_write = 0
      BY <2>1 DEF IInv, Shape, Defaults, Ends4
    <3> QED
      BY <2>1, <3>1 DEF ClosesAfter, OpenAt, Names, Labels, Closing, Ends4, Undoing
  <2>2. CASE pc[c] = "pipe_out"
    <3>1. fd[c].out_read = 0 /\ fd[c].out_write = 0
      BY <2>2 DEF IInv, Shape, Defaults
    <3> QED
      BY <2>2, <3>1 DEF ClosesAfter, OpenAt, Names, Labels, Closing, Ends4, Undoing
  <2> QED
    BY <1>1, <2>1, <2>2
<1>8. Failures' => Failures \/ (failed = {} /\ ~RoomForPipe /\ pc[c] \in {"pipe_in", "pipe_out"})
  BY <1>1 DEF Failures
<1>9. peak' = peak
  BY <1>1
<1> HIDE DEF l
<1> QED
  BY <1>2, <1>4, <1>5, <1>6, <1>7, <1>8, <1>9, OpeningStep

(* Where a thread that closes one of its variables has it open.            *)
LEMMA ClosingTable ==
  ASSUME NEW p \in DOMAIN Closing, NEW m, NEW l, m = Closing[p][1], l = Closing[p][2]
  PROVE  /\ m \in Names /\ l \in Labels /\ p \in Labels /\ p \notin {"new", "done"}
         /\ l \notin {"new", "done"}
         /\ p \notin Undoing =>
              /\ p \in OpenAt[m]
              /\ \A n \in Names : l \in OpenAt[n] <=> (p \in OpenAt[n] /\ n # m)
         /\ l \in Sent \/ p \notin Sent
         /\ p \in ClosesAfter[m]
         /\ \A n \in Names : l \in ClosesAfter[n] => p \in ClosesAfter[n]
         /\ l \in {"fopen", "header", "fclose"} => FALSE
         /\ l \in Undoing => p \in Undoing
         /\ l \notin {"read", "pipe_in", "pipe_out"}
         /\ p # "fclose" \/ l = "close"
         /\ p = "fclose" \/ p \notin {"new", "read", "fopen", "header", "fclose", "close", "done"}
<1>1. CASE p = "undo_in_read"
  BY <1>1 DEF Closing, Names, Labels, Undoing, OpenAt, ClosesAfter, Sent, Ends4
<1>2. CASE p = "undo_in_write"
  BY <1>2 DEF Closing, Names, Labels, Undoing, OpenAt, ClosesAfter, Sent, Ends4
<1>3. CASE p = "close_in_read"
  BY <1>3 DEF Closing, Names, Labels, Undoing, OpenAt, ClosesAfter, Sent, Ends4
<1>4. CASE p = "close_out_write"
  BY <1>4 DEF Closing, Names, Labels, Undoing, OpenAt, ClosesAfter, Sent, Ends4
<1>5. CASE p = "close_in_write"
  BY <1>5 DEF Closing, Names, Labels, Undoing, OpenAt, ClosesAfter, Sent, Ends4
<1>6. CASE p = "close_out_read"
  BY <1>6 DEF Closing, Names, Labels, Undoing, OpenAt, ClosesAfter, Sent, Ends4
<1>7. CASE p = "fclose"
  BY <1>7 DEF Closing, Names, Labels, Undoing, OpenAt, ClosesAfter, Sent, Ends4
<1>8. p \in {"undo_in_read", "undo_in_write", "close_in_read", "close_out_write",
             "close_in_write", "close_out_read", "fclose"}
  BY DEF Closing
<1> QED
  BY <1>1, <1>2, <1>3, <1>4, <1>5, <1>6, <1>7, <1>8

(* The closes of a file's stream and of the pipes.                         *)
LEMMA CloseOneStep ==
  ASSUME IInv, NEW c \in Clients, CloseOne(c)
  PROVE  IInv'
<1> DEFINE m == Closing[pc[c]][1]
           l == Closing[pc[c]][2]
<1>1. /\ TypeOK /\ pc[c] \in DOMAIN Closing /\ Close(fd[c][m]) /\ Goto(c, l)
      /\ UNCHANGED <<asks, fd, ended, failed, headless, peak>>
  BY DEF IInv, Shape, CloseOne
<1>2. /\ m \in Names /\ l \in Labels /\ pc[c] \notin {"new", "done"}
      /\ l \in Sent \/ pc[c] \notin Sent
      /\ pc[c] \in ClosesAfter[m]
      /\ \A n \in Names : l \in ClosesAfter[n] => pc[c] \in ClosesAfter[n]
      /\ pc[c] \notin Undoing =>
           /\ pc[c] \in OpenAt[m]
           /\ \A n \in Names : l \in OpenAt[n] <=> (pc[c] \in OpenAt[n] /\ n # m)
  BY <1>1, ClosingTable
<1>3. /\ l \notin {"new", "fopen", "header", "fclose", "read", "pipe_in", "pipe_out"}
      /\ l \in Undoing => pc[c] \in Undoing
      /\ pc[c] # "fclose" \/ l = "close"
      /\ pc[c] = "fclose" \/
         pc[c] \notin {"new", "read", "fopen", "header", "fclose", "close", "done"}
  BY <1>1, ClosingTable
<1> HIDE DEF m, l
<1>4. pc' \in [Clients -> Labels] /\ pc'[c] = l /\ \A b \in Clients \ {c} : pc'[b] = pc[b]
  BY <1>1, <1>2 DEF Goto, TypeOK
<1>5. Closes(c, m, l)
  BY <1>1, <1>2, CloseEffect
<1>6. Shape'
  <2>1. TypeOK'
    BY <1>1, <1>4, <1>5 DEF Closes, TypeOK, TableType, FdType, Descriptors
  <2>2. Branches'
    BY <1>1, <1>3, <1>4 DEF Branches, IInv, Shape
  <2>3. Defaults'
    BY <1>1, <1>3, <1>4 DEF Defaults, IInv, Shape, Undoing
  <2> QED
    BY <2>1, <2>2, <2>3 DEF Shape
<1>7. failed = {} => pc[c] \notin Undoing
  BY DEF IInv, Shape, Defaults
<1>8. UNCHANGED <<peak, failed, headless, ended>>
  BY <1>1
<1> QED
  BY <1>2, <1>5, <1>6, <1>7, <1>8, ClosingStep

(* The close at the end of Accept.                                         *)
LEMMA CloseSocketStep ==
  ASSUME IInv, NEW c \in Clients, CloseSocket(c)
  PROVE  IInv'
<1>1. /\ TypeOK /\ pc[c] = "close" /\ Close(fd[c]["sock"]) /\ Goto(c, "done")
      /\ fd' = [fd EXCEPT ![c] = NoDescriptors]
      /\ UNCHANGED <<asks, ended, failed, headless, peak>>
  BY DEF IInv, Shape, CloseSocket
<1>2. "done" \in Labels /\ "sock" \in Names /\ pc[c] \notin {"new", "done"}
  BY <1>1 DEF Labels, Names
<1>3. pc' \in [Clients -> Labels] /\ pc'[c] = "done" /\ \A b \in Clients \ {c} : pc'[b] = pc[b]
  BY <1>1, <1>2 DEF Goto, TypeOK
<1>4. Closes(c, "sock", "done")
  BY <1>1, <1>2, CloseEffect
<1>5. Shape'
  <2>1. TypeOK'
    BY <1>1, <1>3, <1>4 DEF Closes, TypeOK, TableType, FdType, Descriptors
  <2>2. Branches'
    BY <1>1, <1>3 DEF Branches, IInv, Shape
  <2>3. Defaults'
    <3>1. \A b \in Clients \ {c} : fd'[b] = fd[b]
      BY <1>1 DEF TypeOK
    <3> QED
      BY <1>1, <1>3, <3>1 DEF Defaults, IInv, Shape, Undoing
  <2> QED
    BY <2>1, <2>2, <2>3 DEF Shape
<1>6. /\ pc[c] \in OpenAt["sock"] /\ pc[c] \in ClosesAfter["sock"] /\ "done" \in Sent
      /\ \A n \in Names : "done" \in OpenAt[n] <=> (pc[c] \in OpenAt[n] /\ n # "sock")
      /\ \A n \in Names : "done" \in ClosesAfter[n] => pc[c] \in ClosesAfter[n]
  BY <1>1 DEF OpenAt, ClosesAfter, Names, Labels, Closing, Sent, Ends4, Undoing
<1>7. UNCHANGED <<peak, failed, headless, ended>>
  BY <1>1
<1> QED
  BY <1>2, <1>4, <1>5, <1>6, <1>7, ClosingStep

-----------------------------------------------------------------------------

(* main before the first connection: get_sock takes the fourth descriptor. *)
LEMMA GetSockStep ==
  ASSUME IInv, GetSock
  PROVE  IInv'
<1> DEFINE s == Lowest(FreeFds)
<1>1. /\ TypeOK /\ ~Started /\ UNCHANGED <<asks, pc, fd, ended, failed, headless, peak>>
      /\ table' = [table EXCEPT ![s] = Listening]
  BY DEF IInv, Shape, GetSock, history
<1>2. failed = {} /\ \A c \in Clients : pc[c] = "new"
  BY <1>1 DEF IInv, Listener
<1>3. \A d \in Descriptors : table[d] = Free \/ (table[d] = Standard /\ d <= 2)
  <2> SUFFICES ASSUME NEW d \in Descriptors, table[d] # Free
               PROVE  table[d] = Standard /\ d <= 2
    OBVIOUS
  <2>1. table[d] # Listening
    BY <1>1 DEF Started
  <2>2. \A c \in Clients, n \in Names : table[d] # <<c, n>>
    <3>1. \A c \in Clients : table[d] # <<c, "page">>
      BY <1>2 DEF IInv, Places, OnePage
    <3>2. \A n \in Names : "new" \notin OpenAt[n]
      BY DEF OpenAt, Names, Labels, Closing
    <3>3. \A c \in Clients : \A n \in Names \ {"page"} : table[d] # <<c, n>>
      BY <1>2, <3>2 DEF IInv, Places, Reached
    <3> QED
      BY <3>1, <3>3
  <2>3. table[d] = Standard
    BY <1>1, <2>1, <2>2 DEF TypeOK
  <2> QED
    BY <2>3 DEF IInv, Places, Common
<1>4. s \in FreeFds
  <2>1. 3 \in Descriptors
    BY MaxFdAssumption DEF Descriptors
  <2>2. 3 \in FreeFds
    BY <1>3, <2>1 DEF FreeFds
  <2>3. FreeFds \in SUBSET Nat
    BY MaxFdAssumption DEF FreeFds, Descriptors
  <2> QED
    BY <2>2, <2>3, LowestIsOne
<1>5. Free # Standard /\ Free # Listening /\ Standard # Listening
  BY DEF Free, Standard, Listening
<1>6. s \in Descriptors /\ table[s] = Free /\ s > 2
  <2>1. s \in Descriptors /\ table[s] = Free
    BY <1>4 DEF FreeFds
  <2>2. \A d \in 0..2 : table[d] = Standard
    BY <1>2 DEF IInv, Places, Common
  <2> QED
    BY <1>5, <2>1, <2>2, MaxFdAssumption DEF Descriptors
<1> HIDE DEF s
<1>7. /\ table' \in [Descriptors -> {Free, Standard, Listening} \cup (Clients \X Names)]
      /\ table'[s] = Listening
      /\ \A d \in Descriptors \ {s} : table'[d] = table[d]
  BY <1>1, <1>6 DEF TypeOK
<1>8. \A d \in Descriptors : \A c \in Clients, n \in Names : table'[d] # <<c, n>>
  <2>1. \A c \in Clients, n \in Names : <<c, n>> \notin {Free, Standard, Listening}
    BY ClientsAssumption DEF Free, Standard, Listening
  <2> QED
    BY <1>3, <1>7, <2>1
<1>9. Shape'
  <2>1. TypeOK'
    BY <1>1, <1>7 DEF TypeOK, Descriptors
  <2> QED
    BY <1>1, <2>1 DEF Shape, Branches, Defaults, IInv
<1>10. Places'
  <2>1. \A n \in Names : "new" \notin OpenAt[n]
    BY DEF OpenAt, Names, Labels, Closing
  <2>2. Reaches'
    BY <1>1, <1>2, <2>1 DEF Reaches
  <2>3. Reached' /\ OnePage'
    BY <1>8 DEF Reached, OnePage, Names
  <2>4. Common'
    <3>1. \A d \in 0..2 : d \in Descriptors
      BY MaxFdAssumption DEF Descriptors
    <3> QED
      BY <1>1, <1>3, <1>5, <1>6, <1>7, <3>1 DEF Common, IInv, Places
  <2> QED
    BY <2>2, <2>3, <2>4 DEF Places
<1>11. Listener'
  <2>1. \A n \in Names : "new" \notin ClosesAfter[n]
    BY DEF ClosesAfter, OpenAt, Names, Labels, Closing, Undoing, Ends4
  <2>2. Started'
    BY <1>6, <1>7 DEF Started
  <2>3. \A d \in Descriptors : table'[d] = Listening => d = s
    BY <1>3, <1>5, <1>7
  <2> QED
    BY <1>1, <1>2, <1>6, <2>1, <2>2, <2>3 DEF Listener
<1>12. Kept \subseteq Kept'
  <2>1. Kept = {}
    BY <1>2 DEF Kept, IInv, Places, OnePage
  <2> QED
    BY <2>1
<1>13. IsFiniteSet(InFlight') /\ Cardinality(InFlight') <= peak' /\ peak <= peak'
  <2>1. InFlight' = InFlight /\ InFlight \subseteq Clients /\ peak' = peak /\ peak \in Nat
    BY <1>1, ClientsAssumption, FS_CardinalityType DEF InFlight, TypeOK
  <2> QED
    BY <2>1, ClientsAssumption, FS_Subset DEF IInv, Counted
<1>14. Failures' => Failures
  BY <1>1 DEF Failures
<1> QED
  BY <1>9, <1>10, <1>11, <1>12, <1>13, <1>14, CountedStep DEF IInv

(* What ends the process for want of a descriptor does so in a full table. *)
LEMMA EndsStep ==
  ASSUME IInv, NEW why, Ends(why),
         why \in {"get_sock", "accept", "connection", "pthread_create", "fclose", "fork"},
         why = "accept" => FreeFds = {}
  PROVE  IInv'
<1>1. /\ UNCHANGED <<asks, table, pc, fd, failed, headless, peak>> /\ ended' = why
      /\ TypeOK
  BY DEF Ends, history, IInv, Shape
<1>2. Shape'
  <2>1. TypeOK'
    BY <1>1 DEF TypeOK, Descriptors
  <2> QED
    BY <1>1, <2>1 DEF Shape, Branches, Defaults, IInv
<1>3. Places' /\ Listener'
  BY <1>1 DEF IInv, Places, Listener, Reaches, Reached, Common, OnePage, Started
<1>4. Kept' = Kept /\ InFlight' = InFlight
  BY <1>1 DEF Kept, InFlight
<1>5. IsFiniteSet(InFlight) /\ Cardinality(InFlight) <= peak /\ peak \in Nat
  <2>1. InFlight \subseteq Clients
    BY DEF InFlight
  <2> QED
    BY <1>1, <2>1, ClientsAssumption, FS_Subset, FS_CardinalityType
       DEF IInv, Counted, TypeOK
<1>6. Failures' => \/ Failures
                   \/ MaxFd <= 4 + Cardinality(Kept) + 5 * Cardinality(InFlight)
  BY <1>1, NoRoom DEF Failures, IInv
<1> QED
  BY <1>1, <1>2, <1>3, <1>4, <1>5, <1>6, CountedStep DEF IInv

LEMMA StutterStep ==
  ASSUME IInv, UNCHANGED vars
  PROVE  IInv'
<1>1. UNCHANGED <<asks, table, pc, fd, ended, failed, headless, peak>>
  BY DEF vars, history
<1>2. Shape' /\ Places' /\ Listener'
  BY <1>1 DEF IInv, Shape, TypeOK, Descriptors, Branches, Defaults, Places, Listener,
              Reaches, Reached, Common, OnePage, Started
<1>3. Counted'
  BY <1>1 DEF IInv, Counted, InFlight, Failures, FullTable, Kept
<1> QED
  BY <1>2, <1>3 DEF IInv

LEMMA InitIInv == Init => IInv
<1> SUFFICES ASSUME Init PROVE IInv
  OBVIOUS
<1>1. /\ asks \in [Clients -> Kinds]
      /\ table \in [Descriptors -> {Free, Standard}]
      /\ \A d \in Descriptors : table[d] = IF d <= 2 THEN Standard ELSE Free
      /\ pc \in [Clients -> {"new"}]
      /\ fd = [c \in Clients |-> NoDescriptors]
      /\ ended = "no" /\ failed = {} /\ headless = {} /\ peak = 0
  BY DEF Init
<1>2. /\ Free # Standard /\ Free # Listening /\ Standard # Listening
      /\ \A c \in Clients, n \in Names : <<c, n>> \notin {Free, Standard}
  BY ClientsAssumption DEF Free, Standard, Listening
<1>3. /\ NoDescriptors \in [Names -> Descriptors \cup {Unopened}]
      /\ \A n \in Ends4 : NoDescriptors[n] = 0
  BY MaxFdAssumption DEF NoDescriptors, Descriptors, Names, Ends4
<1>4. Shape
  <2>1. "new" \in Labels
    BY DEF Labels
  <2>2. peak \in 0..Cardinality(Clients)
    BY <1>1, ClientsAssumption, FS_CardinalityType
  <2>3. pc \in [Clients -> Labels]
    BY <1>1, <2>1
  <2>4. fd \in [Clients -> [Names -> Descriptors \cup {Unopened}]]
    BY <1>1, <1>3
  <2>5. TypeOK
    BY <1>1, <2>2, <2>3, <2>4 DEF TypeOK
  <2>6. Branches
    BY <1>1 DEF Branches
  <2>7. Defaults
    BY <1>1, <1>3 DEF Defaults, Undoing
  <2> QED
    BY <2>5, <2>6, <2>7 DEF Shape
<1>5. Places
  <2>1. \A n \in Names : "new" \notin OpenAt[n]
    BY DEF OpenAt, Names, Labels, Closing
  <2>2. \A d \in 0..2 : d \in Descriptors
    BY MaxFdAssumption DEF Descriptors
  <2>3. "page" \in Names
    BY DEF Names
  <2>4. Reaches /\ Reached /\ OnePage
    BY <1>1, <1>2, <2>1, <2>3 DEF Reaches, Reached, OnePage
  <2>5. Common
    BY <1>1, <1>2, <2>2 DEF Common
  <2> QED
    BY <2>4, <2>5 DEF Places
<1>6. Listener
  BY <1>1, <1>2 DEF Listener
<1>7. Counted
  <2>1. InFlight = {}
    BY <1>1 DEF InFlight
  <2> QED
    BY <1>1, <2>1, FS_EmptySet DEF Counted, Failures
<1> QED
  BY <1>4, <1>5, <1>6, <1>7 DEF IInv

LEMMA StepIInv == IInv /\ [Next]_vars => IInv'
<1> SUFFICES ASSUME IInv, [Next]_vars PROVE IInv'
  OBVIOUS
<1>1. CASE UNCHANGED vars
  BY <1>1, StutterStep
<1>2. CASE GetSock
  BY <1>2, GetSockStep
<1>3. CASE GetSockFails
  BY <1>3, EndsStep DEF GetSockFails
<1>4. ASSUME NEW c \in Clients, Serve(c)
      PROVE  IInv'
  <2>1. CASE OpenStream(c) \/ SendFile(c)
    BY <2>1, FileStep
  <2>2. CASE OpenStreamFails(c)
    BY <2>2, EndsStep DEF OpenStreamFails
  <2>3. CASE SendHeaderOnly(c)
    BY <2>3, HeaderStep
  <2>4. CASE OpenInput(c) \/ OpenOutput(c)
    BY <2>4, PipeStep
  <2>5. CASE OpenInputFails(c) \/ OpenOutputFails(c)
    BY <2>5, PipeFailsStep
  <2>6. CASE Fork(c) \/ Relay(c)
    BY <2>6, MoveStep
  <2>7. CASE CloseOne(c)
    BY <2>7, CloseOneStep
  <2>8. CASE CloseSocket(c)
    BY <2>8, CloseSocketStep
  <2> QED
    BY <1>4, <2>1, <2>2, <2>3, <2>4, <2>5, <2>6, <2>7, <2>8 DEF Serve
<1>5. ASSUME NEW c \in Clients, Outside(c)
      PROVE  IInv'
  <2>1. CASE Accept(c)
    BY <2>1, AcceptStep
  <2>2. CASE AcceptFails(c)
    BY <2>2, EndsStep DEF AcceptFails
  <2>3. CASE ThreadFails(c)
    BY <2>3, EndsStep DEF ThreadFails
  <2>4. CASE ReadRequest(c)
    BY <2>4, MoveStep
  <2>5. CASE ForkFails(c)
    BY <2>5, EndsStep DEF ForkFails
  <2> QED
    BY <1>5, <2>1, <2>2, <2>3, <2>4, <2>5 DEF Outside
<1> QED
  BY <1>1, <1>2, <1>3, <1>4, <1>5 DEF Next, Over

LEMMA AlwaysIInv == Spec => []IInv
<1> QED
  BY InitIInv, StepIInv, PTL DEF Spec

(* fclose(NULL) ends the process in a full table or for such a path.       *)
FcloseForAReason ==
  ended = "fclose" =>
    FullTable \/ \E c \in Clients : pc[c] = "fopen" /\ asks[c] = "unreadable"

LEMMA FcloseStep == IInv /\ FcloseForAReason /\ [Next]_vars => FcloseForAReason'
<1> SUFFICES ASSUME IInv, FcloseForAReason, [Next]_vars, ended' = "fclose"
             PROVE  FullTable' \/ \E c \in Clients : pc'[c] = "fopen" /\ asks'[c] = "unreadable"
  BY DEF FcloseForAReason
<1>1. ASSUME UNCHANGED <<asks, table, pc, fd, peak>>
      PROVE  FullTable' <=> FullTable
  BY <1>1 DEF FullTable, Kept
<1>2. CASE ended = "fclose"
  <2>1. UNCHANGED <<asks, table, pc, fd, peak>>
    BY <1>2 DEF Next, Over, GetSock, GetSockFails, Serve, Outside, vars, history
  <2> QED
    BY <1>1, <1>2, <2>1 DEF FcloseForAReason
<1>3. CASE ended # "fclose"
  <2>1. PICK c \in Clients : OpenStreamFails(c)
    BY <1>3 DEF Next, Over, GetSock, GetSockFails, Serve, Outside, Ends, vars,
       OpenStream, SendFile, SendHeaderOnly, OpenInput, OpenInputFails, OpenOutput,
       OpenOutputFails, Fork, Relay, CloseOne, CloseSocket,
       Accept, AcceptFails, ThreadFails, ReadRequest, ForkFails
  <2>2. UNCHANGED <<asks, table, pc, fd, peak>>
    BY <2>1 DEF OpenStreamFails, Ends, history
  <2>3. CASE asks[c] = "unreadable"
    BY <2>1, <2>2, <2>3 DEF OpenStreamFails
  <2>4. CASE failed # {}
    BY <1>1, <2>2, <2>4 DEF IInv, Counted, Failures
  <2>5. CASE failed = {} /\ FreeFds = {}
    <3>1. MaxFd <= 4 + Cardinality(Kept) + 5 * Cardinality(InFlight)
      BY <2>5, NoRoom DEF IInv
    <3>2. Cardinality(InFlight) <= peak /\ Cardinality(InFlight) \in Nat /\ peak \in Nat
      <4>1. InFlight \subseteq Clients
        BY DEF InFlight
      <4> QED
        BY <4>1, ClientsAssumption, FS_Subset, FS_CardinalityType DEF IInv, Counted, Shape, TypeOK
    <3>3. FullTable
      BY <3>1, <3>2, KeptCounted, MaxFdAssumption DEF FullTable
    <3> QED
      BY <1>1, <2>2, <3>3
  <2> QED
    BY <2>1, <2>3, <2>4, <2>5 DEF OpenStreamFails
<1> QED
  BY <1>2, <1>3

LEMMA FcloseAlways == Spec => []FcloseForAReason
<1>1. Init => FcloseForAReason
  BY DEF Init, FcloseForAReason
<1> QED
  BY <1>1, FcloseStep, AlwaysIInv, PTL DEF Spec

-----------------------------------------------------------------------------

(* However many connections and descriptors there are, the numbers in a    *)
(* thread's locals are descriptors of the table or -1.                     *)
THEOREM TypeCorrect == Spec => []TypeOK
<1>1. IInv => TypeOK
  BY DEF IInv, Shape
<1> QED
  BY <1>1, AlwaysIInv, PTL

(* As long as no pipe() has failed, the closes of server_http.h:276,       *)
(* 504-505 and 523-524, and whatever the threads do in between, reach what *)
(* the same thread opened, whoever got which number.                       *)
THEOREM OwnDescriptorsAlways == Spec => []OwnDescriptors
<1>1. IInv => OwnDescriptors
  <2> SUFFICES ASSUME IInv, failed = {}, NEW c \in Clients, NEW n \in Held(c)
               PROVE  fd[c][n] \in Descriptors /\ table[fd[c][n]] = <<c, n>>
    BY DEF OwnDescriptors
  <2>1. n \in Names
    BY DEF Held, Names
  <2>2. pc[c] \in OpenAt[n]
    BY <2>1, HeldIsOpenAt DEF IInv, Shape
  <2> QED
    BY <2>1, <2>2 DEF IInv, Places, Reaches
<1> QED
  BY <1>1, AlwaysIInv, PTL

(* As long as no pipe() has failed, what is open is what some thread still *)
(* has to close, but for the second descriptor that send_header opens for  *)
(* each file (server_http.h:232).                                          *)
THEOREM OnlyPagesLeakAlways == Spec => []OnlyPagesLeak
<1>1. IInv => OnlyPagesLeak
  <2> SUFFICES ASSUME IInv, failed = {}, NEW d \in Descriptors, NEW c \in Clients,
                      NEW n \in Names \ {"page"}, table[d] = <<c, n>>
               PROVE  n \in Held(c) /\ fd[c][n] = d
    BY DEF OnlyPagesLeak
  <2>1. pc[c] \in OpenAt[n] /\ fd[c][n] = d
    BY DEF IInv, Places, Reached
  <2> QED
    BY <2>1, HeldIsOpenAt DEF IInv, Shape
<1> QED
  BY <1>1, AlwaysIInv, PTL

(* The pages that stay are of different files.                             *)
LEMMA KeptAreLeaked ==
  ASSUME OnePage
  PROVE  Cardinality(Kept) <= Cardinality(Leaked) /\ Cardinality(Leaked) \in Nat
<1> DEFINE of(d) == CHOOSE c \in Clients : table[d] = <<c, "page">>
           f     == [d \in Kept |-> of(d)]
<1>1. ASSUME NEW d \in Kept
      PROVE  d \in Descriptors /\ of(d) \in Clients /\ table[d] = <<of(d), "page">>
  BY DEF Kept
<1> HIDE DEF of
<1>2. \A d \in Kept : of(d) \in Leaked
  BY <1>1 DEF Leaked
<1>3. \A d, e \in Kept : of(d) = of(e) => d = e
  BY <1>1 DEF OnePage
<1>4. f \in Injection(Kept, Leaked)
  BY <1>2, <1>3 DEF Injection, IsInjective
<1>5. IsFiniteSet(Leaked)
  BY ClientsAssumption, FS_Subset DEF Leaked
<1> QED
  BY <1>4, <1>5, FS_Injection, FS_CardinalityType

(* Four descriptors for the process, one for each file whose page is still *)
(* open, and five for each of the most requests ever in flight: with more  *)
(* than that, accept, fopen, send_header and pipe() never fail for want of *)
(* a descriptor, and fopen fails only where stat() should have.            *)
THEOREM RoomSufficesAlways == Spec => []RoomSuffices
<1>1. IInv /\ FcloseForAReason => RoomSuffices
  <2> SUFFICES ASSUME IInv, FcloseForAReason, MaxFd > 4 + Cardinality(Leaked) + 5 * peak
               PROVE  ~Failures /\ ~FullTable
    BY DEF RoomSuffices, Failures, FcloseForAReason
  <2>1. Cardinality(Kept) <= Cardinality(Leaked) /\ Cardinality(Leaked) \in Nat
    BY KeptAreLeaked DEF IInv, Places
  <2>2. peak \in Nat
    BY ClientsAssumption, FS_CardinalityType DEF IInv, Shape, TypeOK
  <2>3. ~FullTable
    BY <2>1, <2>2, KeptCounted, MaxFdAssumption DEF FullTable
  <2> QED
    BY <2>3 DEF IInv, Counted
<1> QED
  BY <1>1, AlwaysIInv, FcloseAlways, PTL

(* The listening socket is never closed, not even by a thread that closes  *)
(* numbers which a failed pipe() left it with (server_http.h:443-450).     *)
THEOREM ListeningStays == Spec => [][Started => Started']_vars
<1>1. IInv /\ IInv' /\ [Next]_vars => [Started => Started']_vars
  <2> SUFFICES ASSUME IInv, IInv', Next, Started
               PROVE  Started'
    OBVIOUS
  <2>1. CASE table' = table
    BY <2>1 DEF Started
  <2>2. CASE GetSock
    BY <2>2 DEF GetSock
  <2>3. CASE \E c \in Clients : pc'[c] # "new"
    BY <2>3 DEF IInv, Listener
  <2>4. ASSUME NEW c \in Clients, Serve(c) \/ Outside(c), table' # table
        PROVE  pc'[c] # "new"
    <3>1. pc \in [Clients -> Labels]
      BY DEF IInv, Shape, TypeOK
    <3>2. PICK l : Goto(c, l) /\ l # "new"
      <4>1. CASE CloseOne(c)
        BY <4>1, ClosingTable DEF CloseOne
      <4>2. CASE OpenStream(c) \/ SendFile(c) \/ OpenInput(c) \/ OpenOutput(c) \/ CloseSocket(c)
        BY <4>2 DEF OpenStream, SendFile, OpenInput, OpenOutput, CloseSocket
      <4>3. CASE Accept(c)
        BY <4>3 DEF Accept
      <4> QED
        BY <2>4, <4>1, <4>2, <4>3
           DEF Serve, Outside, OpenStreamFails, SendHeaderOnly, OpenInputFails, OpenOutputFails,
               Fork, Relay, AcceptFails, ThreadFails, ReadRequest, ForkFails, Ends
    <3> QED
      BY <3>1, <3>2 DEF Goto
  <2> QED
    BY <2>1, <2>2, <2>3, <2>4 DEF Next, Over, GetSockFails, Ends, vars
<1> QED
  BY <1>1, AlwaysIInv, PTL DEF Spec

=============================================================================
