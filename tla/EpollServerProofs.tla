--------------------------- MODULE EpollServerProofs ---------------------------
(***************************************************************************)
(* Proofs about EpollServer, for any number of connections and threads,    *)
(* any requests and any size of the descriptor table: as long as no number *)
(* has been given to two threads, no number is reused under a thread, and  *)
(* a thread serves another connection than its event's only if that one    *)
(* was accepted later.                                                     *)
(***************************************************************************)
EXTENDS EpollServer, SequenceTheorems, WellFoundedInduction, TLAPS

Idling(t) == thread[t].pc = "idle"

(* The threads that have a file open.                                      *)
Sending(t) == thread[t].pc \in {"header", "fclose"}

Unique(s) == \A i, j \in 1..Len(s) : s[i] = s[j] => i = j

Segments ==
  /\ backlog \in Seq(Clients) /\ accepted \in Seq(Clients)
  /\ ready \in Seq(Clients \cup {Listener}) /\ batch \in Seq(Clients \cup {Listener})
  /\ inbox \in [Clients -> Seq(Bytes)]
  /\ script \in [Clients -> Seq(Seq(Bytes))]

(* An event is of a connection that has been accepted, or of the listening *)
(* socket while a connection waits for it.                                 *)
Events ==
  /\ running = "no" => /\ ready = <<>> /\ batch = <<>>
                       /\ \A d \in Descriptors : table[d] \in {Free, Other}
  /\ Unique(batch) /\ Unique(backlog)
  /\ Listed(Listener, ready) \/ Listed(Listener, batch) => Len(backlog) >= 1
  /\ Listed(Listener, ready) /\ Listed(Listener, batch) => Len(backlog) >= 2
  /\ \A c \in Clients :
       /\ Listed(c, ready) \/ Listed(c, batch) \/ IsOpen(c) => Listed(c, accepted)
       /\ Listed(c, backlog) => ~Listed(c, accepted)
       /\ client[c] = "new" => ~Listed(c, backlog) /\ ~Listed(c, accepted)

(* A thread has the connection it was given, or none and -1; its file is   *)
(* open; no two threads have the same; connfd belongs to no thread until   *)
(* it is given to one.                                                     *)
OwnSocks ==
  \A t \in Threads : ~Idling(t) =>
    \/ thread[t].of = Listener /\ thread[t].sock = NoDescriptor
    \/ thread[t].sock \in Descriptors /\ table[thread[t].sock] = Sock(thread[t].of)

OwnFiles ==
  \A t \in Threads : Sending(t) =>
    thread[t].file \in Descriptors /\ table[thread[t].file] = Stream

SocksApart ==
  \A t, u \in Threads : t # u /\ ~Idling(t) /\ ~Idling(u) =>
    thread[t].sock # thread[u].sock \/ thread[t].sock = NoDescriptor

FilesApart ==
  \A t, u \in Threads : t # u /\ Sending(t) /\ Sending(u) => thread[t].file # thread[u].file

ConnfdFresh ==
  ~handed /\ accepted # <<>> /\ connfd # NoDescriptor =>
    /\ connfd \in Descriptors /\ table[connfd] = Sock(accepted[Len(accepted)])
    /\ \A t \in Threads : ~Idling(t) => thread[t].sock # connfd

Numbers ==
  "twice" \notin mishaps => OwnSocks /\ OwnFiles /\ SocksApart /\ FilesApart /\ ConnfdFresh

(* Strangers are accepted later; connfd is -1 only in a full table.        *)
Before(b, c) == \E i, j \in 1..Len(accepted) : i < j /\ accepted[i] = b /\ accepted[j] = c

Strangers ==
  mishaps \cap {"twice", "full"} = {} =>
    /\ connfd # NoDescriptor
    /\ \A t \in Threads : thread[t].of # thread[t].for => Before(thread[t].for, thread[t].of)

Marks  == {Free, Other, Stream, Page} \cup {Sock(c) : c \in Clients}
Locals ==
  [pc : {"idle", "line", "line2", "head", "head2", "fopen", "header", "fclose", "close"},
   sock : Descriptors \cup {NoDescriptor}, file : Descriptors \cup {NoDescriptor},
   ch : Bytes, first : {"none", "G", "c"},
   of : Clients \cup {Listener}, for : Clients \cup {Listener}]

Values ==
  /\ running \in {"no", "yes", "ended"}
  /\ table \in [Descriptors -> Marks]
  /\ connfd \in Descriptors \cup {NoDescriptor}
  /\ client \in [Clients -> {"new", "connected", "again", "ended"}]
  /\ thread \in [Threads -> Locals]
  /\ answered \subseteq Clients /\ handed \in BOOLEAN
  /\ mishaps \subseteq {"together", "dropped", "full", "twice", "stranger"}

(* The ready list is of open connections, each once.                       *)
ReadyList ==
  /\ Unique(ready)
  /\ \A c \in Clients : Listed(c, ready) => IsOpen(c)

Shape == Values /\ Segments /\ ReadyList /\ Events

IInv == Shape /\ Numbers /\ Strangers

-----------------------------------------------------------------------------

LEMMA ShapeIsTyped == Shape => TypeOK
<1> SUFFICES ASSUME Shape PROVE TypeOK
  OBVIOUS
<1>1. \A c \in Clients : \A i \in 1..Len(inbox[c]) : inbox[c][i] \in Bytes
  BY ElementOfSeq DEF Shape, Segments
<1>2. ASSUME NEW i \in 1..Len(ready)
      PROVE  ready[i] = Listener \/ IsOpen(ready[i])
  <2>1. ready[i] \in Clients \cup {Listener} /\ Listed(ready[i], ready)
    BY ElementOfSeq DEF Shape, Segments, Listed
  <2> QED
    BY <2>1 DEF Shape, ReadyList
<1> QED
  BY <1>1, <1>2 DEF TypeOK, Shape, Values, ReadyList, Unique, Marks, Locals

-----------------------------------------------------------------------------
(* Sequences.                                                              *)

LEMMA Appended ==
  ASSUME NEW S, NEW s \in Seq(S), NEW x \in S
  PROVE  /\ Append(s, x) \in Seq(S) /\ Len(Append(s, x)) = Len(s) + 1
         /\ Append(s, x)[Len(s) + 1] = x
         /\ \A i \in 1..Len(s) : Append(s, x)[i] = s[i]
         /\ \A y : Listed(y, Append(s, x)) <=> Listed(y, s) \/ y = x
         /\ Unique(s) /\ ~Listed(x, s) => Unique(Append(s, x))
<1>1. /\ Append(s, x) \in Seq(S) /\ Len(Append(s, x)) = Len(s) + 1 /\ Len(s) \in Nat
      /\ \A i \in 1..Len(s) : Append(s, x)[i] = s[i]
      /\ Append(s, x)[Len(s) + 1] = x
  BY AppendProperties
<1> DEFINE a == Append(s, x)
<1> HIDE DEF a
<1>2. /\ Len(a) = Len(s) + 1 /\ Len(s) \in Nat
      /\ \A i \in 1..Len(s) : a[i] = s[i]
      /\ a[Len(s) + 1] = x
  BY <1>1 DEF a
<1>3. \A y : Listed(y, a) <=> Listed(y, s) \/ y = x
  BY <1>2 DEF Listed
<1>4. Unique(s) /\ ~Listed(x, s) => Unique(a)
  BY <1>2 DEF Unique, Listed
<1> QED
  BY <1>1, <1>3, <1>4 DEF a

LEMMA HeadAndTail ==
  ASSUME NEW S, NEW s \in Seq(S), s # <<>>
  PROVE  /\ Head(s) \in S /\ Tail(s) \in Seq(S) /\ Len(Tail(s)) = Len(s) - 1 /\ Len(s) >= 1
         /\ \A y : Listed(y, s) <=> y = Head(s) \/ Listed(y, Tail(s))
         /\ Unique(s) => Unique(Tail(s)) /\ ~Listed(Head(s), Tail(s))
<1>1. /\ Head(s) \in S /\ Tail(s) \in Seq(S) /\ Len(Tail(s)) = Len(s) - 1
      /\ \A i \in 1..Len(Tail(s)) : Tail(s)[i] = s[i + 1]
      /\ Head(s) = s[1] /\ Len(s) \in Nat /\ Len(s) >= 1
  BY HeadTailProperties, LenProperties, EmptySeq
<1> DEFINE h == Head(s)
           r == Tail(s)
<1> HIDE DEF h, r
<1>2. /\ Len(r) = Len(s) - 1 /\ h = s[1] /\ Len(s) \in Nat /\ Len(s) >= 1
      /\ \A i \in 1..Len(r) : r[i] = s[i + 1]
  BY <1>1 DEF h, r
<1>3. \A i \in 2..Len(s) : i - 1 \in 1..Len(r) /\ s[i] = r[i - 1]
  BY <1>2
<1>4. \A y : Listed(y, s) <=> y = h \/ Listed(y, r)
  <2>1. \A y : Listed(y, s) => y = h \/ Listed(y, r)
    <3> SUFFICES ASSUME NEW y, NEW i \in 1..Len(s), s[i] = y, y # h PROVE Listed(y, r)
      BY DEF Listed
    <3> QED
      BY <1>2, <1>3 DEF Listed
  <2>2. \A y : Listed(y, r) => Listed(y, s)
    BY <1>2 DEF Listed
  <2>3. Listed(h, s)
    BY <1>2 DEF Listed
  <2> QED
    BY <2>1, <2>2, <2>3
<1>5. Unique(s) => Unique(r) /\ ~Listed(h, r)
  BY <1>2 DEF Unique, Listed
<1> QED
  BY <1>1, <1>4, <1>5 DEF h, r

(* A sequence without one of its elements.                                 *)
LEMMA Cut ==
  ASSUME NEW S, NEW s \in Seq(S), Unique(s), NEW i \in 1..Len(s)
  PROVE  LET r == SubSeq(s, 1, i - 1) \o SubSeq(s, i + 1, Len(s))
         IN  r \in Seq(S) /\ Unique(r) /\ \A y : Listed(y, r) => Listed(y, s) /\ y # s[i]
<1> DEFINE a == SubSeq(s, 1, i - 1)
           b == SubSeq(s, i + 1, Len(s))
           r == a \o b
<1>1. Len(s) \in Nat
  BY LenProperties
<1>2. a \in Seq(S) /\ Len(a) = i - 1 /\ \A j \in 1..i - 1 : a[j] = s[j]
  BY <1>1
<1>3. b \in Seq(S) /\ Len(b) = Len(s) - i /\ \A j \in 1..Len(s) - i : b[j] = s[j + i]
  BY <1>1
<1> HIDE DEF a, b
<1>4. /\ r \in Seq(S) /\ Len(r) = Len(a) + Len(b)
      /\ \A j \in 1..Len(a) + Len(b) : r[j] = IF j <= Len(a) THEN a[j] ELSE b[j - Len(a)]
  BY <1>2, <1>3, ConcatProperties, Zenon
<1> HIDE DEF r
<1>5. Len(r) = Len(s) - 1
  BY <1>1, <1>2, <1>3, <1>4
<1>6. ASSUME NEW j \in 1..Len(r)
      PROVE  r[j] = IF j < i THEN s[j] ELSE s[j + 1]
  <2>1. CASE j < i
    BY <1>1, <1>2, <1>3, <1>4, <2>1
  <2>2. CASE j >= i
    <3>1. /\ j - Len(a) \in 1..Len(s) - i /\ ~(j <= Len(a)) /\ (j - Len(a)) + i = j + 1
          /\ j \in 1..Len(a) + Len(b)
      BY <1>1, <1>2, <1>3, <1>5, <2>2
    <3>2. r[j] = b[j - Len(a)] /\ b[j - Len(a)] = s[(j - Len(a)) + i]
      BY <1>3, <1>4, <3>1
    <3> QED
      BY <2>2, <3>1, <3>2
  <2> QED
    BY <1>1, <2>1, <2>2
<1>7. ASSUME NEW j \in 1..Len(r), NEW k \in 1..Len(r), r[j] = r[k]
      PROVE  j = k
  <2> DEFINE at(x) == IF x < i THEN x ELSE x + 1
  <2>1. at(j) \in 1..Len(s) /\ at(k) \in 1..Len(s) /\ s[at(j)] = s[at(k)]
    BY <1>1, <1>5, <1>6, <1>7
  <2>2. at(j) = at(k)
    BY <2>1 DEF Unique
  <2> QED
    BY <2>2
<1>8. Unique(r)
  BY <1>7 DEF Unique
<1>9. ASSUME NEW y, Listed(y, r)
      PROVE  Listed(y, s) /\ y # s[i]
  BY <1>1, <1>5, <1>6, <1>9 DEF Unique, Listed
<1> QED
  BY <1>4, <1>8, <1>9 DEF r, a, b

-----------------------------------------------------------------------------
(* The descriptor table.                                                   *)

LEMMA MarksDiffer ==
  /\ \A c : Sock(c) \notin {Free, Other, Stream, Page}
  /\ \A b, c : Sock(b) = Sock(c) => b = c
  /\ Free # Other /\ Free # Stream /\ Free # Page /\ Other # Stream /\ Stream # Page
  BY DEF Sock, Free, Other, Stream, Page

LEMMA LowestIsFree ==
  ASSUME FreeFds # {}
  PROVE  Lowest \in Descriptors /\ table[Lowest] = Free
<1>1. FreeFds \in SUBSET Nat
  BY MaxFdAssumption DEF FreeFds, Descriptors
<1>2. PICK d \in FreeFds : \A e \in FreeFds : <<e, d>> \notin OpToRel(<, Nat)
  BY <1>1, NatLessThanWellFounded, WFMin, Zenon
<1>3. \A e \in FreeFds : ~(e < d)
  BY <1>1, <1>2 DEF OpToRel
<1>4. \A e \in FreeFds : d <= e
  BY <1>1, <1>3
<1>5. Lowest \in FreeFds
  BY <1>4 DEF Lowest
<1> QED
  BY <1>5 DEF FreeFds

(* What the lowest free descriptor is given to.                            *)
LEMMA Given ==
  ASSUME Values, FreeFds # {}, NEW x \in Marks, table' = [table EXCEPT ![Lowest] = x]
  PROVE  /\ table' \in [Descriptors -> Marks]
         /\ Lowest \in Descriptors /\ table[Lowest] = Free /\ table'[Lowest] = x
         /\ \A d \in Descriptors \ {Lowest} : table'[d] = table[d]
<1>1. Lowest \in Descriptors /\ table[Lowest] = Free
  BY LowestIsFree
<1>2. table \in [Descriptors -> Marks]
  BY DEF Values
<1> QED
  BY <1>1, <1>2

(* Nothing is lost of what was open.                                       *)
LEMMA StaysOpen ==
  ASSUME NEW d \in Descriptors, table[d] = Free, \A e \in Descriptors \ {d} : table'[e] = table[e]
  PROVE  /\ \A e, c : Stands(e, c) => Stands(e, c)'
         /\ \A c : IsOpen(c) => IsOpen(c)'
         /\ \A c : table'[d] # Sock(c) => (IsOpen(c)' => IsOpen(c))
  BY MarksDiffer DEF Stands, IsOpen

-----------------------------------------------------------------------------
(* The threads.                                                            *)

(* A thread changes its locals but not whose thread it is.                 *)
LEMMA LocalsSet ==
  ASSUME Values, NEW t \in Threads, NEW l \in Locals, Step(t, l)
  PROVE  thread' \in [Threads -> Locals] /\ thread'[t] = l
         /\ \A u \in Threads \ {t} : thread'[u] = thread[u]
<1>1. thread \in [Threads -> Locals]
  BY DEF Values
<1> QED
  BY <1>1 DEF Step

(* recv() takes one byte from a connection or none.                        *)
LEMMA Received ==
  ASSUME Shape, NEW t, NEW ch, Recv(t, ch)
  PROVE  inbox' \in [Clients -> Seq(Bytes)]
<1>1. inbox \in [Clients -> Seq(Bytes)]
  BY DEF Shape, Segments
<1>2. CASE UNCHANGED inbox
  BY <1>1, <1>2
<1>3. ASSUME NEW a \in Arrived(t), inbox' = [inbox EXCEPT ![a[1]] = Tail(a[2])]
      PROVE  inbox' \in [Clients -> Seq(Bytes)]
  <2>1. PICK c \in Clients : a = <<c, inbox[c]>> /\ inbox[c] # <<>>
    BY DEF Arrived
  <2>2. inbox[c] \in Seq(Bytes) /\ Tail(inbox[c]) \in Seq(Bytes)
    BY <1>1, <2>1, HeadAndTail
  <2> QED
    BY <1>1, <1>3, <2>1, <2>2
<1> QED
  BY <1>2, <1>3 DEF Recv

(* The steps of get_line and of the loops over the request.                *)
LEMMA ReadingStep ==
  ASSUME IInv, NEW t \in Threads,
         RecvText(t) \/ RecvEnd(t) \/ RequestLine(t) \/ HeadLine(t)
  PROVE  IInv'
<1>1. /\ Shape /\ Values /\ thread[t] \in Locals
      /\ UNCHANGED <<running, table, connfd, ready, batch, backlog, client, script, answered,
                     accepted, handed, mishaps>>
      /\ \E ch \in Bytes : Recv(t, ch)
  BY DEF IInv, Shape, Values, RecvText, RecvEnd, RequestLine, HeadLine, history,
         Terminators, Bytes
<1>2. PICK l \in Locals : /\ Step(t, l)
                          /\ l.sock = thread[t].sock /\ l.of = thread[t].of
                          /\ l.for = thread[t].for
                          /\ l.pc \notin {"idle", "header", "fclose"}
                          /\ thread[t].pc \notin {"idle", "header", "fclose"}
  <2>1. CASE RecvText(t)
    <3>1. PICK ch \in {"G", "c"} :
            Step(t, [thread[t] EXCEPT !.ch = ch, !.first = IF @ = "none" THEN ch ELSE @])
      BY <2>1 DEF RecvText, Bytes, Terminators
    <3>2. [thread[t] EXCEPT !.ch = ch, !.first = IF @ = "none" THEN ch ELSE @] \in Locals
      BY <1>1 DEF Locals, Bytes, Terminators
    <3> QED
      BY <1>1, <2>1, <3>1, <3>2 DEF RecvText, Locals
  <2>2. CASE RecvEnd(t)
    <3>1. PICK ch \in Bytes :
            Step(t, [thread[t] EXCEPT !.ch = ch, !.pc = [line |-> "line2", head |-> "head2"][@]])
      BY <2>2 DEF RecvEnd, Bytes, Terminators
    <3>2. [line |-> "line2", head |-> "head2"][thread[t].pc] \in {"line2", "head2"}
      <4>1. thread[t].pc = "line" \/ thread[t].pc = "head"
        BY <2>2 DEF RecvEnd
      <4> QED
        BY <4>1
    <3> QED
      BY <1>1, <2>2, <3>1, <3>2 DEF RecvEnd, Locals
  <2>3. CASE RequestLine(t) \/ HeadLine(t)
    <3>1. PICK pc \in {"head", "fopen", "close"} :
            Step(t, NewLine(pc, thread[t].sock, thread[t].of, thread[t].for))
      BY <2>3 DEF RequestLine, HeadLine
    <3> QED
      BY <1>1, <2>3, <3>1 DEF NewLine, Locals, RequestLine, HeadLine, Bytes, Terminators
  <2> QED
    BY <2>1, <2>2, <2>3
<1>3. /\ thread' \in [Threads -> Locals] /\ thread'[t] = l
      /\ \A u \in Threads \ {t} : thread'[u] = thread[u]
  BY <1>1, <1>2, LocalsSet
<1>4. inbox' \in [Clients -> Seq(Bytes)]
  BY <1>1, Received DEF IInv
<1>5. Shape'
  <2>1. Values' /\ Segments'
    BY <1>1, <1>3, <1>4 DEF Values, Segments, Shape
  <2>2. ReadyList' /\ Events'
    BY <1>1 DEF ReadyList, Events, IsOpen, Stands, Shape
  <2> QED
    BY <2>1, <2>2 DEF Shape
<1>6. Numbers'
  BY <1>1, <1>2, <1>3
     DEF Numbers, IInv, Idling, Sending, OwnSocks, OwnFiles, SocksApart, FilesApart, ConnfdFresh
<1>7. Strangers'
  BY <1>1, <1>2, <1>3 DEF Strangers, IInv, Before
<1> QED
  BY <1>5, <1>6, <1>7 DEF IInv

(* What is open stays open, no connection is, and no event is lost: an     *)
(* opening keeps the lists as they are.                                    *)
LEMMA OpeningLists ==
  ASSUME Shape, NEW d \in Descriptors, table[d] = Free, table'[d] \in {Stream, Page},
         \A e \in Descriptors \ {d} : table'[e] = table[e],
         UNCHANGED <<running, ready, batch, backlog, client, accepted>>, running # "no"
  PROVE  ReadyList' /\ Events'
<1>1. /\ \A e, c : Stands(e, c) => Stands(e, c)'
      /\ \A c : IsOpen(c) <=> IsOpen(c)'
  BY StaysOpen, MarksDiffer
<1>2. ReadyList'
  BY <1>1 DEF Shape, ReadyList
<1>3. Events'
  BY <1>1 DEF Shape, Events
<1> QED
  BY <1>2, <1>3

(* fopen, and the second open in send_header.                              *)
LEMMA OpenFileStep ==
  ASSUME IInv, NEW t \in Threads, running = "yes", OpenStream(t) \/ SendFile(t)
  PROVE  IInv'
<1>1. /\ Shape /\ Values /\ thread[t] \in Locals /\ FreeFds # {}
      /\ UNCHANGED <<running, connfd, ready, batch, backlog, client, script, inbox, accepted, handed,
                     mishaps>>
      /\ answered' \subseteq Clients
  BY DEF IInv, Shape, Values, OpenStream, SendFile, net, history
<1>2. PICK x \in {Stream, Page}, l \in Locals :
        /\ table' = [table EXCEPT ![Lowest] = x] /\ Step(t, l)
        /\ l.sock = thread[t].sock /\ l.of = thread[t].of /\ l.for = thread[t].for
        /\ l.pc # "idle" /\ thread[t].pc # "idle"
        /\ \/ x = Stream /\ l.file = Lowest
           \/ x = Page /\ l.file = thread[t].file /\ thread[t].pc = "header"
  <2>1. CASE OpenStream(t)
    <3>1. [thread[t] EXCEPT !.pc = "header", !.file = Lowest] \in Locals
      BY <1>1, LowestIsFree DEF Locals
    <3> QED
      BY <1>1, <2>1, <3>1 DEF OpenStream, Locals
  <2>2. CASE SendFile(t)
    <3>1. [thread[t] EXCEPT !.pc = "fclose"] \in Locals
      BY <1>1 DEF Locals
    <3> QED
      BY <1>1, <2>2, <3>1 DEF SendFile, Locals
  <2> QED
    BY <2>1, <2>2
<1> DEFINE d == Lowest
<1>3. /\ table' \in [Descriptors -> Marks] /\ d \in Descriptors /\ table[d] = Free /\ table'[d] = x
      /\ \A e \in Descriptors \ {d} : table'[e] = table[e]
  BY <1>1, <1>2, Given DEF Marks
<1> HIDE DEF d
<1>4. /\ thread' \in [Threads -> Locals] /\ thread'[t] = l
      /\ \A u \in Threads \ {t} : thread'[u] = thread[u]
  BY <1>1, <1>2, LocalsSet
<1>5. /\ l.sock = thread[t].sock /\ l.of = thread[t].of /\ l.for = thread[t].for
      /\ l.pc # "idle" /\ thread[t].pc # "idle"
      /\ \/ x = Stream /\ l.file = d
         \/ x = Page /\ l.file = thread[t].file /\ thread[t].pc = "header"
  BY <1>2 DEF d
<1>6. Shape'
  <2>1. Values' /\ Segments'
    BY <1>1, <1>3, <1>4 DEF Values, Segments, Shape
  <2>2. ReadyList' /\ Events'
    BY <1>1, <1>3, OpeningLists
  <2> QED
    BY <2>1, <2>2 DEF Shape
<1>7. Numbers'
  <2> SUFFICES ASSUME "twice" \notin mishaps
               PROVE  (OwnSocks /\ OwnFiles /\ SocksApart /\ FilesApart /\ ConnfdFresh)'
    BY <1>1 DEF Numbers
  <2>1. OwnSocks /\ OwnFiles /\ SocksApart /\ FilesApart /\ ConnfdFresh
    BY DEF Numbers, IInv
  <2>2. \A e \in Descriptors : table[e] # Free => e # d /\ table'[e] = table[e]
    BY <1>3
  <2>3. \A u \in Threads : /\ Idling(u)' = Idling(u)
                           /\ thread'[u].sock = thread[u].sock /\ thread'[u].of = thread[u].of
                           /\ u # t => Sending(u)' = Sending(u) /\ thread'[u].file = thread[u].file
    BY <1>4, <1>5 DEF Idling, Sending
  <2>4. OwnSocks' /\ SocksApart' /\ ConnfdFresh'
    BY <1>1, <2>1, <2>2, <2>3, MarksDiffer DEF OwnSocks, SocksApart, ConnfdFresh
  <2>5. \A u \in Threads : Sending(u) =>
          /\ thread[u].file \in Descriptors /\ table'[thread[u].file] = Stream
          /\ thread[u].file # d
    BY <2>1, <2>2, MarksDiffer DEF OwnFiles
  <2>6. CASE x = Stream /\ l.file = d
    BY <1>3, <1>4, <2>1, <2>3, <2>4, <2>5, <2>6 DEF OwnFiles, FilesApart
  <2>7. CASE l.file = thread[t].file /\ thread[t].pc = "header"
    <3>1. Sending(t) /\ thread'[t].file = thread[t].file
      BY <1>4, <2>7 DEF Sending
    <3> QED
      BY <2>1, <2>3, <2>4, <2>5, <3>1 DEF OwnFiles, FilesApart
  <2> QED
    BY <1>5, <2>4, <2>6, <2>7
<1>8. Strangers'
  BY <1>1, <1>4, <1>5 DEF Strangers, IInv, Before
<1> QED
  BY <1>6, <1>7, <1>8 DEF IInv

(* A header and no file.                                                   *)
LEMMA HeaderOnlyStep ==
  ASSUME IInv, NEW t \in Threads, SendHeaderOnly(t)
  PROVE  IInv'
<1> DEFINE l == [thread[t] EXCEPT !.pc = "fclose"]
<1>1. /\ Shape /\ Values /\ thread[t] \in Locals /\ thread[t].pc = "header" /\ Step(t, l)
      /\ UNCHANGED <<running, table, connfd, ready, batch, backlog, client, script, inbox,
                     answered, accepted, handed>>
      /\ mishaps' = mishaps \cup {"full"}
  BY DEF IInv, Shape, Values, SendHeaderOnly, net, Mishap
<1>2. /\ l \in Locals /\ l.sock = thread[t].sock /\ l.of = thread[t].of /\ l.for = thread[t].for
      /\ l.file = thread[t].file /\ l.pc = "fclose"
  BY <1>1 DEF Locals
<1>3. /\ thread' \in [Threads -> Locals] /\ thread'[t] = l
      /\ \A u \in Threads \ {t} : thread'[u] = thread[u]
  BY <1>1, <1>2, LocalsSet
<1> HIDE DEF l
<1>4. Values' /\ Segments'
  BY <1>1, <1>3 DEF Values, Segments, Shape
<1>5. ReadyList' /\ Events'
  BY <1>1 DEF ReadyList, Events, IsOpen, Stands, Shape
<1>6. Numbers'
  BY <1>1, <1>2, <1>3
     DEF Numbers, IInv, Idling, Sending, OwnSocks, OwnFiles, SocksApart, FilesApart, ConnfdFresh
<1>7. Strangers'
  BY <1>1 DEF Strangers
<1> QED
  BY <1>4, <1>5, <1>6, <1>7 DEF IInv, Shape

(* close() takes the connection that a descriptor stands for out of the    *)
(* ready list, and nothing else.                                           *)
LEMMA ClosingEffect ==
  ASSUME Shape, NEW d, Close(d), UNCHANGED <<running, batch, backlog, client, accepted>>,
         running # "no"
  PROVE  /\ table' \in [Descriptors -> Marks]
         /\ \A e \in Descriptors : table'[e] = IF e = d THEN Free ELSE table[e]
         /\ ready' \in Seq(Clients \cup {Listener}) /\ ReadyList' /\ Events'
<1>1. /\ table' \in [Descriptors -> Marks]
      /\ \A e \in Descriptors : table'[e] = IF e = d THEN Free ELSE table[e]
  BY DEF Close, Shape, Values, Marks
<1>2. /\ ready \in Seq(Clients \cup {Listener}) /\ Unique(ready)
      /\ \A c \in Clients : Listed(c, ready) => IsOpen(c)
  BY DEF Shape, Segments, ReadyList
<1>3. /\ ready' \in Seq(Clients \cup {Listener}) /\ Unique(ready')
      /\ \A c : Listed(c, ready') => Listed(c, ready) /\ ~Stands(d, c)
  <2>1. CASE /\ \A i \in 1..Len(ready) : ~Stands(d, ready[i])
             /\ UNCHANGED ready
    BY <1>2, <2>1 DEF Listed
  <2>2. ASSUME NEW i \in 1..Len(ready), Stands(d, ready[i]),
               ready' = SubSeq(ready, 1, i - 1) \o SubSeq(ready, i + 1, Len(ready))
        PROVE  /\ ready' \in Seq(Clients \cup {Listener}) /\ Unique(ready')
               /\ \A c : Listed(c, ready') => Listed(c, ready) /\ ~Stands(d, c)
    <3> DEFINE r == SubSeq(ready, 1, i - 1) \o SubSeq(ready, i + 1, Len(ready))
    <3>1. /\ r \in Seq(Clients \cup {Listener}) /\ Unique(r)
          /\ \A c : Listed(c, r) => Listed(c, ready) /\ c # ready[i]
      BY <1>2, Cut
    <3>2. ready' = r
      BY <2>2
    <3> HIDE DEF r
    <3>3. \A c : Stands(d, c) => c = ready[i]
      BY <2>2, MarksDiffer DEF Stands
    <3> QED
      BY <3>1, <3>2, <3>3
  <2> QED
    BY <2>1, <2>2 DEF Close
<1>4. \A c : IsOpen(c) /\ ~Stands(d, c) => IsOpen(c)'
  BY <1>1 DEF IsOpen, Stands
<1>5. \A c : IsOpen(c)' => IsOpen(c)
  BY <1>1, MarksDiffer DEF IsOpen, Stands
<1>6. ReadyList'
  BY <1>2, <1>3, <1>4 DEF ReadyList
<1>7. Events'
  BY <1>3, <1>5 DEF Shape, Events
<1> QED
  BY <1>1, <1>3, <1>6, <1>7

(* fclose, and the close at the end of the thread.                         *)
LEMMA ClosingStep ==
  ASSUME IInv, NEW t \in Threads, running = "yes", CloseFile(t) \/ CloseSock(t)
  PROVE  IInv'
<1> DEFINE d == IF thread[t].pc = "fclose" THEN thread[t].file ELSE thread[t].sock
           l == IF thread[t].pc = "fclose"
                  THEN [thread[t] EXCEPT !.pc = "close", !.file = NoDescriptor] ELSE Idle
<1>1. /\ Shape /\ Values /\ thread[t] \in Locals /\ Close(d) /\ Step(t, l)
      /\ UNCHANGED <<running, connfd, batch, backlog, client, script, inbox, answered, accepted,
                     handed, mishaps>>
  BY DEF IInv, Shape, Values, CloseFile, CloseSock, net, history
<1>2. /\ l \in Locals
      /\ \/ /\ thread[t].pc = "fclose" /\ d = thread[t].file /\ l.pc = "close"
            /\ l.sock = thread[t].sock /\ l.of = thread[t].of /\ l.for = thread[t].for
         \/ /\ thread[t].pc = "close" /\ d = thread[t].sock /\ l.pc = "idle" /\ l.of = l.for
  <2>1. CASE CloseFile(t)
    BY <1>1, <2>1 DEF Locals, CloseFile
  <2>2. CASE CloseSock(t)
    BY <2>2 DEF Locals, CloseSock, Idle, NewLine, Bytes, Terminators
  <2> QED
    BY <2>1, <2>2
<1> HIDE DEF d, l
<1>3. /\ table' \in [Descriptors -> Marks]
      /\ \A e \in Descriptors : table'[e] = IF e = d THEN Free ELSE table[e]
      /\ ready' \in Seq(Clients \cup {Listener}) /\ ReadyList' /\ Events'
  BY <1>1, ClosingEffect
<1>4. /\ thread' \in [Threads -> Locals] /\ thread'[t] = l
      /\ \A u \in Threads \ {t} : thread'[u] = thread[u]
  BY <1>1, <1>2, LocalsSet
<1>5. Shape'
  BY <1>1, <1>3, <1>4 DEF Values, Segments, Shape
<1>6. Numbers'
  <2> SUFFICES ASSUME "twice" \notin mishaps
               PROVE  (OwnSocks /\ OwnFiles /\ SocksApart /\ FilesApart /\ ConnfdFresh)'
    BY <1>1 DEF Numbers
  <2>1. OwnSocks /\ OwnFiles /\ SocksApart /\ FilesApart /\ ConnfdFresh
    BY DEF Numbers, IInv
  <2>2. /\ \A u \in Threads \ {t} : Idling(u)' = Idling(u) /\ Sending(u)' = Sending(u)
        /\ ~Sending(t)'
    BY <1>2, <1>4 DEF Idling, Sending
  <2>3. FilesApart' /\ SocksApart'
    BY <1>2, <1>4, <2>1, <2>2 DEF FilesApart, SocksApart, Idling
  <2>4. CASE thread[t].pc = "fclose"
    <3>1. table[d] = Stream /\ Sending(t) /\ ~Idling(t) /\ d = thread[t].file
      BY <1>2, <2>1, <2>4 DEF OwnFiles, Sending, Idling
    <3>2. OwnSocks' /\ ConnfdFresh'
      BY <1>1, <1>2, <1>3, <1>4, <2>1, <2>2, <2>4, <3>1, MarksDiffer
         DEF OwnSocks, ConnfdFresh, Idling
    <3>3. OwnFiles'
      BY <1>3, <1>4, <2>1, <2>2, <3>1 DEF OwnFiles, FilesApart
    <3> QED
      BY <2>3, <3>2, <3>3
  <2>5. CASE thread[t].pc = "close"
    <3>1. ~Idling(t) /\ d = thread[t].sock /\ Idling(t)'
      BY <1>2, <1>4, <2>5 DEF Idling
    <3>2. d = NoDescriptor \/ table[d] = Sock(thread[t].of)
      BY <2>1, <3>1 DEF OwnSocks
    <3>3. NoDescriptor \notin Descriptors
      BY MaxFdAssumption DEF NoDescriptor, Descriptors
    <3>4. OwnFiles'
      BY <1>3, <1>4, <2>1, <2>2, <3>2, <3>3, MarksDiffer DEF OwnFiles
    <3>5. OwnSocks'
      BY <1>3, <1>4, <2>1, <2>2, <3>1, <3>3 DEF OwnSocks, SocksApart
    <3>6. ConnfdFresh'
      BY <1>1, <1>3, <1>4, <2>1, <2>2, <3>1 DEF ConnfdFresh
    <3> QED
      BY <2>3, <3>4, <3>5, <3>6
  <2> QED
    BY <1>2, <2>4, <2>5
<1>7. Strangers'
  BY <1>1, <1>2, <1>4 DEF Strangers, IInv, Before
<1> QED
  BY <1>5, <1>6, <1>7 DEF IInv

-----------------------------------------------------------------------------
(* The loop.                                                               *)

(* As long as numbers, threads and connfd are as they were, so is what is  *)
(* said of them.                                                           *)
LEMMA NumbersFrame ==
  ASSUME IInv, UNCHANGED <<table, connfd, thread, accepted, handed>>, mishaps \subseteq mishaps'
  PROVE  Numbers' /\ Strangers'
<1>1. Numbers'
  BY DEF IInv, Numbers, OwnSocks, OwnFiles, SocksApart, FilesApart, ConnfdFresh, Idling, Sending
<1>2. Strangers'
  BY DEF IInv, Strangers, Before
<1> QED
  BY <1>1, <1>2

LEMMA WaitStep ==
  ASSUME IInv, EpollWait
  PROVE  IInv'
<1>1. /\ Shape /\ Values /\ batch = <<>> /\ batch' = ready /\ ready' = <<>>
      /\ UNCHANGED <<running, table, connfd, backlog, client, script, inbox, thread, answered,
                     accepted, handed, mishaps>>
  BY DEF EpollWait, IInv, Shape, net, history
<1>2. /\ \A x : ~Listed(x, <<>>)
      /\ Unique(<<>>)
  BY DEF Listed, Unique
<1>3. Values' /\ Segments' /\ ReadyList'
  BY <1>1, <1>2 DEF Shape, Values, Segments, ReadyList
<1>4. Events'
  BY <1>1, <1>2 DEF Shape, Events, ReadyList, IsOpen, Stands
<1>5. Numbers' /\ Strangers'
  BY <1>1, NumbersFrame
<1> QED
  BY <1>3, <1>4, <1>5 DEF IInv, Shape

LEMMA AcceptStep ==
  ASSUME IInv, running = "yes", Accept
  PROVE  IInv'
<1> DEFINE d == Lowest
<1>1. /\ Shape /\ Values /\ batch # <<>> /\ Head(batch) = Listener /\ FreeFds # {}
      /\ connfd' = d /\ table' = [table EXCEPT ![d] = Sock(Head(backlog))]
      /\ ready' = Append(ready, Head(backlog)) \/ UNCHANGED ready
      /\ backlog' = Tail(backlog) /\ batch' = Tail(batch)
      /\ accepted' = Append(accepted, Head(backlog)) /\ handed' = FALSE
      /\ UNCHANGED <<running, client, script, inbox, thread, answered, mishaps>>
  BY DEF Accept, IInv, Shape
<1>2. /\ Tail(batch) \in Seq(Clients \cup {Listener}) /\ Unique(Tail(batch))
      /\ \A x : Listed(x, batch) <=> x = Listener \/ Listed(x, Tail(batch))
      /\ ~Listed(Listener, Tail(batch))
  BY <1>1, HeadAndTail DEF Shape, Segments, Events
<1>3. backlog \in Seq(Clients) /\ backlog # <<>>
  <2>1. Len(backlog) >= 1
    BY <1>1, <1>2 DEF Shape, Events
  <2> QED
    BY <1>1, <2>1, EmptySeq DEF Shape, Segments
<1>0. PICK c \in Clients : c = Head(backlog)
  BY <1>3, HeadAndTail
<1>4. /\ c = Head(backlog) /\ Tail(backlog) \in Seq(Clients) /\ Unique(Tail(backlog))
      /\ Len(Tail(backlog)) = Len(backlog) - 1 /\ Len(backlog) \in Nat
      /\ \A x : Listed(x, backlog) <=> x = c \/ Listed(x, Tail(backlog))
      /\ ~Listed(c, Tail(backlog))
  BY <1>0, <1>1, <1>3, HeadAndTail, LenProperties DEF Shape, Events
<1>5. /\ table' \in [Descriptors -> Marks] /\ d \in Descriptors /\ table[d] = Free
      /\ table'[d] = Sock(c)
      /\ \A e \in Descriptors \ {d} : table'[e] = table[e]
  BY <1>1, <1>4, Given DEF Marks
<1>6. /\ accepted' \in Seq(Clients) /\ Len(accepted') = Len(accepted) + 1
      /\ accepted'[Len(accepted')] = c /\ Len(accepted) \in Nat
      /\ \A i \in 1..Len(accepted) : accepted'[i] = accepted[i]
      /\ \A x : Listed(x, accepted') <=> Listed(x, accepted) \/ x = c
  BY <1>1, <1>4, Appended, LenProperties DEF Shape, Segments
<1>7. /\ Listed(c, backlog) /\ ~Listed(c, accepted) /\ ~IsOpen(c) /\ ~Listed(c, ready)
      /\ client[c] # "new"
  BY <1>1, <1>4 DEF Shape, Events, ReadyList
<1> DEFINE r == ready'
           a == accepted'
<1>8. /\ r \in Seq(Clients \cup {Listener}) /\ Unique(r)
      /\ \A x : Listed(x, r) => Listed(x, ready) \/ x = c
  <2>1. CASE r = Append(ready, c)
    <3>1. /\ Append(ready, c) \in Seq(Clients \cup {Listener}) /\ Unique(Append(ready, c))
          /\ \A x : Listed(x, Append(ready, c)) => Listed(x, ready) \/ x = c
      BY <1>1, <1>4, <1>7, Appended DEF Shape, Segments, ReadyList
    <3> QED
      BY <2>1, <3>1
  <2>2. CASE r = ready
    BY <1>1, <2>2 DEF Shape, Segments, ReadyList
  <2> QED
    BY <1>1, <1>4, <2>1, <2>2
<1>9. /\ IsOpen(c)'
      /\ \A x : IsOpen(x) => IsOpen(x)'
      /\ \A x : IsOpen(x)' => IsOpen(x) \/ x = c
  <2>1. table'[d] = Sock(c) /\ \A x : table'[d] = Sock(x) => x = c
    BY <1>5, MarksDiffer
  <2>2. \A x : x # c => table'[d] # Sock(x)
    BY <2>1
  <2>3. IsOpen(c)'
    BY <1>5 DEF IsOpen, Stands
  <2> QED
    BY <1>5, <2>2, <2>3, StaysOpen
<1> HIDE DEF d, r, a
<1>10. Values' /\ Segments'
  BY <1>1, <1>2, <1>4, <1>5, <1>6, <1>8 DEF Shape, Values, Segments, r
<1>11. ReadyList'
  BY <1>1, <1>8, <1>9 DEF Shape, ReadyList, r
<1>12. Events'
  <2>1. Listed(Listener, r) => Listed(Listener, ready)
    BY <1>4, <1>8, ClientsAssumption
  <2>2. Listed(Listener, ready) => Len(backlog) >= 2
    BY <1>1, <1>2 DEF Shape, Events
  <2>3. Listed(Listener, r) => Len(backlog') >= 1
    BY <1>1, <1>4, <2>1, <2>2
  <2>4. \A x \in Clients :
          /\ Listed(x, r) \/ Listed(x, batch') \/ IsOpen(x)' => Listed(x, accepted')
          /\ Listed(x, backlog') => ~Listed(x, accepted')
          /\ client'[x] = "new" => ~Listed(x, backlog') /\ ~Listed(x, accepted')
    BY <1>1, <1>2, <1>4, <1>6, <1>7, <1>8, <1>9 DEF Shape, Events
  <2> QED
    BY <1>1, <1>2, <1>4, <2>3, <2>4 DEF Events, r
<1>13. Numbers'
  <2> SUFFICES ASSUME "twice" \notin mishaps
               PROVE  (OwnSocks /\ OwnFiles /\ SocksApart /\ FilesApart /\ ConnfdFresh)'
    BY <1>1 DEF Numbers
  <2>1. OwnSocks /\ OwnFiles /\ SocksApart /\ FilesApart /\ ConnfdFresh
    BY DEF Numbers, IInv
  <2>2. \A u \in Threads : Idling(u)' = Idling(u) /\ Sending(u)' = Sending(u)
    BY <1>1 DEF Idling, Sending
  <2>3. \A e \in Descriptors : table[e] # Free => e # d /\ table'[e] = table[e]
    BY <1>5
  <2>4. OwnSocks' /\ OwnFiles'
    BY <1>1, <2>1, <2>2, <2>3, MarksDiffer DEF OwnSocks, OwnFiles
  <2>5. SocksApart' /\ FilesApart'
    BY <1>1, <2>1, <2>2 DEF SocksApart, FilesApart
  <2>6. \A u \in Threads : ~Idling(u) => thread[u].sock # d
    <3>1. NoDescriptor \notin Descriptors
      BY MaxFdAssumption DEF NoDescriptor, Descriptors
    <3> QED
      BY <1>5, <2>1, <2>3, <3>1, MarksDiffer DEF OwnSocks
  <2>7. ConnfdFresh'
    BY <1>1, <1>5, <1>6, <2>2, <2>6 DEF ConnfdFresh
  <2> QED
    BY <2>4, <2>5, <2>7
<1>14. Strangers'
  <2> SUFFICES ASSUME mishaps \cap {"twice", "full"} = {}, NEW t \in Threads,
                      thread[t].of # thread[t].for
               PROVE  connfd' # NoDescriptor /\ Before(thread[t].for, thread[t].of)'
    <3>1. connfd' # NoDescriptor
      BY <1>1, <1>5, MaxFdAssumption DEF NoDescriptor, Descriptors
    <3> QED
      BY <1>1, <3>1 DEF Strangers, Before
  <2>1. connfd' # NoDescriptor
    BY <1>1, <1>5, MaxFdAssumption DEF NoDescriptor, Descriptors
  <2>2. PICK i, j \in 1..Len(accepted) :
          i < j /\ accepted[i] = thread[t].for /\ accepted[j] = thread[t].of
    BY DEF IInv, Strangers, Before
  <2>3. /\ i \in 1..Len(accepted') /\ j \in 1..Len(accepted')
        /\ accepted'[i] = thread[t].for /\ accepted'[j] = thread[t].of
    BY <1>6, <2>2
  <2> QED
    BY <1>1, <2>1, <2>2, <2>3 DEF Before
<1> QED
  BY <1>10, <1>11, <1>12, <1>13, <1>14 DEF IInv, Shape

LEMMA AcceptFailsStep ==
  ASSUME IInv, AcceptFails
  PROVE  IInv'
<1>1. /\ Shape /\ Values /\ batch # <<>> /\ connfd' = NoDescriptor /\ batch' = Tail(batch)
      /\ mishaps' = mishaps \cup {"full"}
      /\ UNCHANGED <<running, table, ready, backlog, client, script, inbox, thread, answered,
                     accepted, handed>>
  BY DEF AcceptFails, IInv, Shape, net, Mishap
<1>2. /\ Tail(batch) \in Seq(Clients \cup {Listener}) /\ Unique(Tail(batch))
      /\ \A x : Listed(x, batch) <=> x = Head(batch) \/ Listed(x, Tail(batch))
  BY <1>1, HeadAndTail DEF Shape, Segments, Events
<1>3. Values' /\ Segments' /\ ReadyList'
  BY <1>1, <1>2 DEF Shape, Values, Segments, ReadyList, IsOpen, Stands
<1>4. Events'
  BY <1>1, <1>2 DEF Shape, Events, IsOpen, Stands
<1>5. Numbers'
  BY <1>1 DEF IInv, Numbers, OwnSocks, OwnFiles, SocksApart, FilesApart, ConnfdFresh, Idling, Sending
<1>6. Strangers'
  BY <1>1 DEF Strangers
<1> QED
  BY <1>3, <1>4, <1>5, <1>6 DEF IInv, Shape

(* A thread is given connfd, which nobody else has if nobody has had it.   *)
LEMMA StartThreadStep ==
  ASSUME IInv, NEW t \in Threads, StartThread(t)
  PROVE  IInv'
<1> DEFINE of == {c \in Clients : Stands(connfd, c)}
           l == NewLine("line", connfd, IF of = {} THEN Listener ELSE CHOOSE c \in of : TRUE,
                        Head(batch))
<1>1. /\ Shape /\ Values /\ batch # <<>> /\ Head(batch) # Listener /\ Step(t, l)
      /\ thread[t] = Idle /\ batch' = Tail(batch) /\ handed' = TRUE
      /\ mishaps' = mishaps \cup (IF handed THEN {"twice"} ELSE {})
                            \cup (IF Stands(connfd, Head(batch)) THEN {} ELSE {"stranger"})
      /\ UNCHANGED <<running, table, connfd, ready, backlog, client, script, inbox, answered,
                     accepted>>
  BY DEF StartThread, IInv, Shape, net, Step
<1>2. /\ Tail(batch) \in Seq(Clients \cup {Listener}) /\ Unique(Tail(batch))
      /\ \A x : Listed(x, batch) <=> x = Head(batch) \/ Listed(x, Tail(batch))
      /\ Head(batch) \in Clients
  BY <1>1, HeadAndTail DEF Shape, Segments, Events
<1>3. PICK o \in Clients \cup {Listener} :
        /\ l = NewLine("line", connfd, o, Head(batch))
        /\ o = Listener => \A c \in Clients : ~Stands(connfd, c)
        /\ o # Listener => Stands(connfd, o)
  <2> DEFINE x == IF of = {} THEN Listener ELSE CHOOSE c \in of : TRUE
  <2>1. CASE of = {}
    <3>1. x = Listener
      BY <2>1
    <3> QED
      BY <2>1, <3>1
  <2>2. CASE of # {}
    <3>1. x \in of
      BY <2>2
    <3>2. x \in Clients /\ Stands(connfd, x)
      BY <3>1
    <3> HIDE DEF x
    <3> QED
      BY <3>2, ClientsAssumption DEF x
  <2> QED
    BY <2>1, <2>2
<1> HIDE DEF l, of
<1>4. /\ l \in Locals /\ l.pc = "line" /\ l.sock = connfd /\ l.of = o /\ l.for = Head(batch)
  BY <1>1, <1>2, <1>3 DEF Locals, NewLine, Bytes, Terminators, Values
<1>5. /\ thread' \in [Threads -> Locals] /\ thread'[t] = l
      /\ \A u \in Threads \ {t} : thread'[u] = thread[u]
  BY <1>1, <1>4, LocalsSet
<1>6. Values' /\ Segments' /\ ReadyList'
  BY <1>1, <1>2, <1>5 DEF Shape, Values, Segments, ReadyList, IsOpen, Stands
<1>7. Events'
  BY <1>1, <1>2 DEF Shape, Events, IsOpen, Stands
<1>8. Listed(Head(batch), accepted) /\ accepted # <<>>
  <2>1. Listed(Head(batch), accepted)
    BY <1>1, <1>2 DEF Shape, Events
  <2> QED
    BY <2>1 DEF Listed
<1>9. Len(accepted) \in 1..Len(accepted) /\ accepted[Len(accepted)] \in Clients
  <2>1. Len(accepted) \in Nat \ {0}
    BY <1>1, <1>8, EmptySeq DEF Shape, Segments
  <2> QED
    BY <1>1, <2>1, ElementOfSeq DEF Shape, Segments
(* The thread is the first one to have connfd.                             *)
<1>10. ASSUME "twice" \notin mishaps'
       PROVE  /\ "twice" \notin mishaps
              /\ \/ o = Listener /\ connfd = NoDescriptor
                 \/ /\ connfd \in Descriptors /\ table[connfd] = Sock(o)
                    /\ o = accepted[Len(accepted)]
                    /\ \A u \in Threads : ~Idling(u) => thread[u].sock # connfd
  <2>1. "twice" \notin mishaps /\ ~handed
    BY <1>1, <1>10
  <2>2. CASE connfd = NoDescriptor
    <3>1. NoDescriptor \notin Descriptors
      BY MaxFdAssumption DEF NoDescriptor, Descriptors
    <3> QED
      BY <1>3, <2>1, <2>2, <3>1 DEF Stands
  <2>3. CASE connfd # NoDescriptor
    <3>1. /\ connfd \in Descriptors /\ table[connfd] = Sock(accepted[Len(accepted)])
          /\ \A u \in Threads : ~Idling(u) => thread[u].sock # connfd
      BY <1>8, <2>1, <2>3 DEF IInv, Numbers, ConnfdFresh
    <3>2. o # Listener /\ table[connfd] = Sock(o)
      BY <1>3, <1>9, <3>1 DEF Stands
    <3> QED
      BY <2>1, <3>1, <3>2, MarksDiffer
  <2> QED
    BY <2>2, <2>3
<1>11. Numbers'
  <2> SUFFICES ASSUME "twice" \notin mishaps'
               PROVE  (OwnSocks /\ OwnFiles /\ SocksApart /\ FilesApart /\ ConnfdFresh)'
    BY DEF Numbers
  <2>1. OwnSocks /\ OwnFiles /\ SocksApart /\ FilesApart
    BY <1>10 DEF Numbers, IInv
  <2>2. /\ \A u \in Threads \ {t} : Idling(u)' = Idling(u) /\ Sending(u)' = Sending(u)
        /\ ~Sending(t)'
    BY <1>4, <1>5 DEF Idling, Sending
  <2>3. OwnFiles' /\ FilesApart'
    BY <1>1, <1>5, <2>1, <2>2 DEF OwnFiles, FilesApart
  <2>4. OwnSocks'
    BY <1>1, <1>4, <1>5, <1>10, <2>1, <2>2 DEF OwnSocks
  <2>5. SocksApart'
    BY <1>1, <1>4, <1>5, <1>10, <2>1, <2>2 DEF SocksApart
  <2>6. ConnfdFresh'
    BY <1>1 DEF ConnfdFresh
  <2> QED
    BY <2>3, <2>4, <2>5, <2>6
<1>12. Strangers'
  <2> SUFFICES ASSUME mishaps' \cap {"twice", "full"} = {}
               PROVE  /\ connfd # NoDescriptor
                      /\ \A u \in Threads : thread'[u].of # thread'[u].for =>
                           Before(thread'[u].for, thread'[u].of)
    BY <1>1 DEF Strangers, Before
  <2>1. /\ connfd # NoDescriptor
        /\ \A u \in Threads : thread[u].of # thread[u].for => Before(thread[u].for, thread[u].of)
    BY <1>1 DEF IInv, Strangers
  <2>2. o = accepted[Len(accepted)]
    BY <1>10, <2>1
  <2>3. o # Head(batch) => Before(Head(batch), o)
    <3>1. PICK i \in 1..Len(accepted) : accepted[i] = Head(batch)
      BY <1>8 DEF Listed
    <3> QED
      BY <1>9, <2>2, <3>1 DEF Before
  <2> QED
    BY <1>4, <1>5, <2>1, <2>3
<1> QED
  BY <1>6, <1>7, <1>11, <1>12 DEF IInv, Shape

LEMMA StartThreadFailsStep ==
  ASSUME IInv, StartThreadFails
  PROVE  IInv'
<1>1. /\ Shape /\ batch' = <<>> /\ mishaps' = mishaps \cup {"dropped"}
      /\ UNCHANGED <<running, table, connfd, ready, backlog, client, script, inbox, thread,
                     answered, accepted, handed>>
  BY DEF StartThreadFails, IInv, net, Mishap
<1>2. (\A x : ~Listed(x, <<>>)) /\ Unique(<<>>)
  BY DEF Listed, Unique
<1>3. Values' /\ Segments' /\ ReadyList'
  BY <1>1 DEF Shape, Values, Segments, ReadyList, IsOpen, Stands
<1>4. Events'
  BY <1>1, <1>2 DEF Shape, Events, IsOpen, Stands
<1>5. Numbers' /\ Strangers'
  BY <1>1, NumbersFrame
<1> QED
  BY <1>3, <1>4, <1>5 DEF IInv, Shape

-----------------------------------------------------------------------------
(* The clients.                                                            *)

(* An edge adds one event at most.                                         *)
LEMMA EdgeAdds ==
  ASSUME Shape, NEW x \in Clients \cup {Listener}
  PROVE  /\ Edge(x) \in Seq(Clients \cup {Listener}) /\ Unique(Edge(x))
         /\ \A y : Listed(y, Edge(x)) <=> Listed(y, ready) \/ y = x
<1>1. ready \in Seq(Clients \cup {Listener}) /\ Unique(ready)
  BY DEF Shape, Segments, ReadyList
<1>2. CASE Listed(x, ready)
  BY <1>1, <1>2 DEF Edge
<1>3. CASE ~Listed(x, ready)
  BY <1>1, <1>3, Appended DEF Edge
<1> QED
  BY <1>2, <1>3

(* An event of an open connection, or none.                                *)
LEMMA EventOfOpen ==
  ASSUME Shape, NEW c \in Clients, ready' = IF IsOpen(c) THEN Edge(c) ELSE ready,
         UNCHANGED <<running, table, batch, backlog, accepted>>,
         \A b \in Clients : client'[b] = "new" => client[b] = "new"
  PROVE  ready' \in Seq(Clients \cup {Listener}) /\ ReadyList' /\ Events'
<1>1. /\ ready' \in Seq(Clients \cup {Listener}) /\ Unique(ready')
      /\ \A y : Listed(y, ready') => Listed(y, ready) \/ (y = c /\ IsOpen(c))
  <2>1. CASE IsOpen(c)
    <3>1. ready' = Edge(c)
      BY <2>1
    <3>2. /\ Edge(c) \in Seq(Clients \cup {Listener}) /\ Unique(Edge(c))
          /\ \A y : Listed(y, Edge(c)) <=> Listed(y, ready) \/ y = c
      BY EdgeAdds
    <3> QED
      BY <2>1, <3>1, <3>2
  <2>2. CASE ~IsOpen(c)
    <3>1. ready' = ready
      BY <2>2
    <3> QED
      BY <3>1 DEF Shape, Segments, ReadyList
  <2> QED
    BY <2>1, <2>2
<1>2. \A b : IsOpen(b)' <=> IsOpen(b)
  BY DEF IsOpen, Stands
<1>3. ReadyList'
  BY <1>1, <1>2 DEF Shape, ReadyList
<1>4. c # Listener
  BY ClientsAssumption
<1>5. running = "no" => ready' = ready
  <2>1. running = "no" => ~IsOpen(c)
    BY MarksDiffer DEF Shape, Events, IsOpen, Stands
  <2> QED
    BY <2>1
<1>6. Events'
  BY <1>1, <1>2, <1>4, <1>5 DEF Shape, Events
<1> QED
  BY <1>1, <1>3, <1>6

LEMMA ConnectStep ==
  ASSUME IInv, NEW c \in Clients, Connect(c)
  PROVE  IInv'
<1>1. /\ Shape /\ Values /\ client[c] = "new" /\ running = "yes"
      /\ client' = [client EXCEPT ![c] = "connected"]
      /\ backlog' = Append(backlog, c) /\ ready' = Edge(Listener)
      /\ mishaps \subseteq mishaps' /\ mishaps' \subseteq mishaps \cup {"together"}
      /\ UNCHANGED <<running, table, connfd, batch, script, inbox, thread, answered, accepted,
                     handed>>
  BY DEF Connect, IInv, Shape, Mishap
<1>2. /\ Edge(Listener) \in Seq(Clients \cup {Listener}) /\ Unique(Edge(Listener))
      /\ \A y : Listed(y, Edge(Listener)) <=> Listed(y, ready) \/ y = Listener
  BY <1>1, EdgeAdds
<1>3. /\ ~Listed(c, backlog) /\ ~Listed(c, accepted) /\ backlog \in Seq(Clients)
      /\ Unique(backlog)
  BY <1>1 DEF Shape, Events, Segments
<1>4. /\ Append(backlog, c) \in Seq(Clients) /\ Unique(Append(backlog, c))
      /\ Len(Append(backlog, c)) = Len(backlog) + 1 /\ Len(backlog) \in Nat
      /\ \A y : Listed(y, Append(backlog, c)) <=> Listed(y, backlog) \/ y = c
  BY <1>3, Appended, LenProperties
<1>5. \A b : IsOpen(b)' <=> IsOpen(b)
  BY <1>1 DEF IsOpen, Stands
<1>6. client' \in [Clients -> {"new", "connected", "again", "ended"}]
      /\ client'[c] # "new" /\ \A b \in Clients \ {c} : client'[b] = client[b]
  BY <1>1 DEF Values
<1>7. Values' /\ Segments'
  BY <1>1, <1>2, <1>4, <1>6 DEF Shape, Values, Segments
<1>8. ReadyList'
  BY <1>1, <1>2, <1>5, ClientsAssumption DEF Shape, ReadyList
<1>9. Events'
  <2>1. Len(backlog') >= 1 /\ (Listed(Listener, batch') => Len(backlog') >= 2)
    BY <1>1, <1>4 DEF Shape, Events
  <2>2. \A x \in Clients :
          /\ Listed(x, ready') \/ Listed(x, batch') \/ IsOpen(x)' => Listed(x, accepted')
          /\ Listed(x, backlog') => ~Listed(x, accepted')
          /\ client'[x] = "new" => ~Listed(x, backlog') /\ ~Listed(x, accepted')
    BY <1>1, <1>2, <1>3, <1>4, <1>5, <1>6, ClientsAssumption DEF Shape, Events
  <2> QED
    BY <1>1, <1>4, <2>1, <2>2 DEF Shape, Events
<1>10. Numbers' /\ Strangers'
  BY <1>1, NumbersFrame
<1> QED
  BY <1>7, <1>8, <1>9, <1>10 DEF IInv, Shape

(* What a client sends comes after what has arrived.                       *)
LEMMA SendStep ==
  ASSUME IInv, NEW c \in Clients, Send(c)
  PROVE  IInv'
<1>1. /\ Shape /\ Values /\ script[c] # <<>>
      /\ script' = [script EXCEPT ![c] = Tail(script[c])]
      /\ \/ inbox' = [inbox EXCEPT ![c] = inbox[c] \o Head(script[c])]
         \/ UNCHANGED inbox
      /\ ready' = IF IsOpen(c) THEN Edge(c) ELSE ready
      /\ UNCHANGED <<running, table, connfd, batch, backlog, client, thread, answered, accepted,
                     handed, mishaps>>
  BY DEF Send, IInv, Shape, history
<1>2. /\ script \in [Clients -> Seq(Seq(Bytes))] /\ inbox \in [Clients -> Seq(Bytes)]
  BY <1>1 DEF Shape, Segments
<1>3. Head(script[c]) \in Seq(Bytes) /\ Tail(script[c]) \in Seq(Seq(Bytes))
  <2>1. script[c] \in Seq(Seq(Bytes))
    BY <1>2
  <2> QED
    BY <1>1, <2>1, HeadAndTail
<1>4. inbox[c] \o Head(script[c]) \in Seq(Bytes)
  <2>1. inbox[c] \in Seq(Bytes)
    BY <1>2
  <2> QED
    BY <1>3, <2>1, ConcatProperties
<1>5. script' \in [Clients -> Seq(Seq(Bytes))]
  BY <1>1, <1>2, <1>3
<1>6. inbox' \in [Clients -> Seq(Bytes)]
  BY <1>1, <1>2, <1>4
<1>7. ready' \in Seq(Clients \cup {Listener}) /\ ReadyList' /\ Events'
  BY <1>1, EventOfOpen
<1>8. Values' /\ Segments'
  BY <1>1, <1>5, <1>6, <1>7 DEF Shape, Values, Segments
<1>9. Numbers' /\ Strangers'
  BY <1>1, NumbersFrame
<1> QED
  BY <1>7, <1>8, <1>9 DEF IInv, Shape

(* A client ends, or will connect once more on its socket.                 *)
LEMMA LeaveStep ==
  ASSUME IInv, NEW c \in Clients, ConnectFails(c) \/ SendKilled(c) \/ Quit(c)
  PROVE  IInv'
<1>1. /\ Shape /\ Values
      /\ client' \in [Clients -> {"new", "connected", "again", "ended"}]
      /\ \A b \in Clients : client'[b] = "new" => client[b] = "new"
      /\ UNCHANGED <<running, table, connfd, ready, batch, backlog, script, inbox, thread,
                     answered, accepted, handed, mishaps>>
  BY DEF ConnectFails, SendKilled, Quit, IInv, Shape, Values, history
<1>2. Values' /\ Segments' /\ ReadyList' /\ Events'
  BY <1>1 DEF Shape, Values, Segments, ReadyList, Events, IsOpen, Stands
<1>3. Numbers' /\ Strangers'
  BY <1>1, NumbersFrame
<1> QED
  BY <1>2, <1>3 DEF IInv, Shape

LEMMA ReconnectStep ==
  ASSUME IInv, NEW c \in Clients, Reconnect(c)
  PROVE  IInv'
<1>1. /\ Shape /\ Values
      /\ client' \in [Clients -> {"new", "connected", "again", "ended"}]
      /\ \A b \in Clients : client'[b] = "new" => client[b] = "new"
      /\ ready' = IF IsOpen(c) THEN Edge(c) ELSE ready
      /\ UNCHANGED <<running, table, connfd, batch, backlog, script, inbox, thread, answered,
                     accepted, handed, mishaps>>
  BY DEF Reconnect, IInv, Shape, Values, history
<1>2. ready' \in Seq(Clients \cup {Listener}) /\ ReadyList' /\ Events'
  BY <1>1, EventOfOpen
<1>3. Values' /\ Segments'
  BY <1>1, <1>2 DEF Shape, Values, Segments
<1>4. Numbers' /\ Strangers'
  BY <1>1, NumbersFrame
<1> QED
  BY <1>2, <1>3, <1>4 DEF IInv, Shape

-----------------------------------------------------------------------------

(* The listening socket and the epoll set are opened before anything else. *)
LEMMA StartStep ==
  ASSUME IInv, Start
  PROVE  IInv'
<1>1. /\ Shape /\ Values /\ running = "no" /\ running' = "yes"
      /\ table' = [table EXCEPT ![3] = Other, ![4] = Other]
      /\ UNCHANGED <<connfd, ready, batch, backlog, client, script, inbox, thread, answered,
                     accepted, handed, mishaps>>
  BY DEF Start, IInv, Shape, net, history
<1>2. /\ ready = <<>> /\ batch = <<>>
      /\ \A d \in Descriptors : table[d] \in {Free, Other}
  BY <1>1 DEF Shape, Events
<1>3. table' \in [Descriptors -> {Free, Other}]
  BY <1>1, <1>2 DEF Values
<1>4. \A c : ~IsOpen(c) /\ ~IsOpen(c)'
  BY <1>2, <1>3, MarksDiffer DEF IsOpen, Stands
<1>5. Values' /\ Segments' /\ ReadyList' /\ Events'
  BY <1>1, <1>3, <1>4 DEF Shape, Values, Segments, ReadyList, Events, Marks
<1>6. Numbers'
  <2> SUFFICES ASSUME "twice" \notin mishaps
               PROVE  (OwnSocks /\ OwnFiles /\ SocksApart /\ FilesApart /\ ConnfdFresh)'
    BY <1>1 DEF Numbers
  <2>1. OwnSocks /\ OwnFiles /\ SocksApart /\ FilesApart /\ ConnfdFresh
    BY DEF Numbers, IInv
  <2>2. \A t \in Threads : /\ ~Sending(t)
                           /\ ~Idling(t) => thread[t].of = Listener /\ thread[t].sock = NoDescriptor
    BY <1>2, <2>1, MarksDiffer DEF OwnFiles, OwnSocks
  <2>3. accepted = <<>> \/ connfd = NoDescriptor \/ handed
    BY <1>2, <2>1, MarksDiffer DEF ConnfdFresh
  <2> QED
    BY <1>1, <2>1, <2>2, <2>3
       DEF OwnSocks, OwnFiles, SocksApart, FilesApart, ConnfdFresh, Idling, Sending
<1>7. Strangers'
  BY <1>1 DEF IInv, Strangers, Before
<1> QED
  BY <1>5, <1>6, <1>7 DEF IInv, Shape

LEMMA EndsStep ==
  ASSUME IInv, Ends \/ UNCHANGED vars
  PROVE  IInv'
<1>1. /\ Shape /\ running' \in {running, "ended"}
      /\ UNCHANGED <<table, connfd, ready, batch, backlog, client, script, inbox, thread,
                     answered, accepted, handed, mishaps>>
  BY DEF Ends, vars, IInv, net, history
<1>2. Values' /\ Segments' /\ ReadyList' /\ Events'
  BY <1>1 DEF Shape, Values, Segments, ReadyList, Events, IsOpen, Stands
<1>3. Numbers' /\ Strangers'
  BY <1>1, NumbersFrame
<1> QED
  BY <1>2, <1>3 DEF IInv, Shape

LEMMA InitIInv == Init => IInv
<1> SUFFICES ASSUME Init PROVE IInv
  OBVIOUS
<1>1. /\ running = "no" /\ table = [d \in Descriptors |-> IF d <= 2 THEN Other ELSE Free]
      /\ connfd = 0 /\ ready = <<>> /\ batch = <<>> /\ backlog = <<>> /\ accepted = <<>>
      /\ client = [c \in Clients |-> "new"] /\ inbox = [c \in Clients |-> <<>>]
      /\ script \in [Clients -> Seq(Seq(Bytes))]
      /\ thread = [t \in Threads |-> Idle]
      /\ answered = {} /\ handed = FALSE /\ mishaps = {}
  BY ScriptsAssumption DEF Init
<1>2. (\A x : ~Listed(x, <<>>)) /\ Unique(<<>>)
  BY DEF Listed, Unique
<1>3. Idle \in Locals /\ Idle.pc = "idle" /\ Idle.of = Idle.for
  BY DEF Idle, NewLine, Locals, Bytes, Terminators
<1>4. 0 \in Descriptors /\ NoDescriptor # 0
  BY MaxFdAssumption DEF Descriptors, NoDescriptor
<1>5. Values
  BY <1>1, <1>3, <1>4 DEF Values, Marks
<1>6. Segments
  BY <1>1 DEF Segments
<1>7. \A d \in Descriptors : table[d] \in {Free, Other}
  BY <1>1
<1>8. \A c : ~IsOpen(c)
  BY <1>7, MarksDiffer DEF IsOpen, Stands
<1>9. ReadyList /\ Events
  BY <1>1, <1>2, <1>7, <1>8 DEF ReadyList, Events
<1>10. \A t \in Threads : Idling(t) /\ ~Sending(t) /\ thread[t].of = thread[t].for
  BY <1>1, <1>3 DEF Idling, Sending
<1>11. Numbers /\ Strangers
  BY <1>1, <1>4, <1>10
     DEF Numbers, OwnSocks, OwnFiles, SocksApart, FilesApart, ConnfdFresh, Strangers
<1> QED
  BY <1>5, <1>6, <1>9, <1>11 DEF IInv, Shape

LEMMA StepIInv == IInv /\ [Next]_vars => IInv'
<1> SUFFICES ASSUME IInv, [Next]_vars PROVE IInv'
  OBVIOUS
<1>1. CASE Loop
  BY <1>1, WaitStep, AcceptStep, AcceptFailsStep, StartThreadStep, StartThreadFailsStep DEF Loop
<1>2. ASSUME NEW t \in Threads, Serve(t)
      PROVE  IInv'
  <2>1. CASE RecvText(t) \/ RecvEnd(t) \/ RequestLine(t) \/ HeadLine(t)
    BY <2>1, ReadingStep
  <2>2. CASE OpenStream(t) \/ SendFile(t)
    BY <1>2, <2>2, OpenFileStep DEF Serve
  <2>3. CASE OpenStreamFails(t)
    BY <2>3, EndsStep DEF OpenStreamFails
  <2>4. CASE SendHeaderOnly(t)
    BY <2>4, HeaderOnlyStep
  <2>5. CASE CloseFile(t) \/ CloseSock(t)
    BY <1>2, <2>5, ClosingStep DEF Serve
  <2> QED
    BY <1>2, <2>1, <2>2, <2>3, <2>4, <2>5 DEF Serve
<1>3. CASE Outside
  <2>1. CASE Start
    BY <2>1, StartStep
  <2>2. CASE StartFails \/ WaitFails \/ \E t \in Threads : SendRefused(t)
    BY <2>2, EndsStep DEF StartFails, WaitFails, SendRefused
  <2>3. ASSUME NEW c \in Clients, Connect(c)
        PROVE  IInv'
    BY <2>3, ConnectStep
  <2>4. ASSUME NEW c \in Clients, ConnectFails(c) \/ SendKilled(c) \/ Quit(c)
        PROVE  IInv'
    BY <2>4, LeaveStep
  <2>5. ASSUME NEW c \in Clients, Send(c)
        PROVE  IInv'
    BY <2>5, SendStep
  <2> QED
    BY <1>3, <2>1, <2>2, <2>3, <2>4, <2>5 DEF Outside
<1>4. CASE Waiting
  BY <1>4, EndsStep DEF Waiting
<1>5. ASSUME NEW c \in Clients, running # "ended" /\ Reconnect(c)
      PROVE  IInv'
  BY <1>5, ReconnectStep
<1>6. CASE UNCHANGED vars
  BY <1>6, EndsStep
<1> QED
  BY <1>1, <1>2, <1>3, <1>4, <1>5, <1>6 DEF Next

LEMMA AlwaysIInv == Spec => []IInv
<1> QED
  BY InitIInv, StepIInv, PTL DEF Spec

-----------------------------------------------------------------------------

(* However many clients, threads and descriptors there are, the state has  *)
(* its type; the ready list of the epoll set is of connections that are    *)
(* open, each once.                                                        *)
THEOREM TypeCorrect == Spec => []TypeOK
<1>1. IInv => TypeOK
  BY ShapeIsTyped DEF IInv
<1> QED
  BY <1>1, AlwaysIInv, PTL

(* As long as no connfd is given to two threads (server.h:322), what a     *)
(* thread reads from, answers on and closes is the connection it was       *)
(* given, and its file is its own, whoever gets which number.              *)
THEOREM NumbersStayAlways == Spec => []NumbersStay
<1>1. IInv => NumbersStay
  <2> SUFFICES ASSUME IInv, "twice" \notin mishaps, NEW t \in Threads, thread[t].pc # "idle"
               PROVE  /\ thread[t].of # Listener => Stands(thread[t].sock, thread[t].of)
                      /\ thread[t].pc \in {"header", "fclose"} => table[thread[t].file] = Stream
    BY DEF NumbersStay
  <2>1. thread[t].of # Listener => Stands(thread[t].sock, thread[t].of)
    BY DEF IInv, Numbers, OwnSocks, Idling, Stands
  <2>2. thread[t].pc \in {"header", "fclose"} => table[thread[t].file] = Stream
    BY DEF IInv, Numbers, OwnFiles, Sending
  <2> QED
    BY <2>1, <2>2
<1> QED
  BY <1>1, AlwaysIInv, PTL

(* A thread that serves another connection than its event's serves one     *)
(* that was accepted later (server.h:314-322), unless connfd had been used *)
(* before or an accept has failed for want of a descriptor.                *)
THEOREM StrangerIsLaterAlways == Spec => []StrangerIsLater
<1>1. IInv => StrangerIsLater
  BY DEF IInv, Strangers, Before, StrangerIsLater
<1> QED
  BY <1>1, AlwaysIInv, PTL

=============================================================================
