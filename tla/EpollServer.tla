---------------------------- MODULE EpollServer ----------------------------
(***************************************************************************)
(* The second server, server/server.h and server.cpp, with the terminal    *)
(* clients of client/: one loop waits on an edge-triggered epoll set,      *)
(* accepts one connection for an event of the listening socket and starts  *)
(* a detached thread for an event of a connection.  The thread is given    *)
(* the static connfd, the number of the connection accepted last, and      *)
(* answers the request it reads there with a file, or with nothing, and    *)
(* closes the number.                                                      *)
(*                                                                         *)
(* A connection is named by its client.  Sockets do not block: recv()      *)
(* without a byte leaves ch as it was.  Of a byte only what the code tells *)
(* apart is kept: the three that end a line, "G", which begins a request   *)
(* for a file that exists, and "c", any other.                             *)
(***************************************************************************)
EXTENDS Integers, Sequences, FiniteSets

CONSTANTS
  Clients,   (* those that ever connect                                    *)
  Listener,  (* the listening socket in the epoll set                      *)
  Scripts,   (* what the clients may send: a sequence of segments each     *)
  Threads,   (* 1..n, the request threads there can be at a time           *)
  MaxFd      (* RLIMIT_NOFILE of the process                               *)

ASSUME ClientsAssumption == IsFiniteSet(Clients) /\ Listener \notin Clients
ASSUME MaxFdAssumption   == MaxFd \in Nat /\ MaxFd >= 5

Terminators == {"nul", "cr", "lf"}
Bytes       == Terminators \cup {"G", "c"}

ASSUME ScriptsAssumption == Scripts \subseteq [Clients -> Seq(Seq(Bytes))]

VARIABLES
  running,   (* the server: "no" before it listens, "yes", "ended"         *)
  table,     (* what each descriptor of the server stands for              *)
  connfd,    (* the static variable of epoll_et                            *)
  ready,     (* the ready list of the epoll set                            *)
  batch,     (* what is left of the events that epoll_wait returned        *)
  backlog,   (* connections made and not accepted yet                      *)
  client,    (* what each client is doing                                  *)
  script,    (* the segments each client has still to send                 *)
  inbox,     (* bytes that have arrived for the server and are not read    *)
  thread,    (* the locals of each request thread                          *)
  answered,  (* history: clients that were sent a file                     *)
  accepted,  (* history: connections in the order of their accept          *)
  handed,    (* history: connfd has been given to a thread since accept    *)
  mishaps    (* history: what has gone wrong so far                        *)

net     == <<backlog, client, script, inbox>>
history == <<answered, accepted, handed, mishaps>>
vars    == <<running, table, connfd, ready, batch, net, thread, history>>

-----------------------------------------------------------------------------

Descriptors == 0..MaxFd - 1
NoDescriptor == -1

Free    == <<Listener, "free">>
Other   == <<Listener, "other">>   (* standard streams, listener, epoll set *)
Stream  == <<Listener, "stream">>
Page    == <<Listener, "page">>
Sock(c) == <<c, "sock">>

FreeFds == {d \in Descriptors : table[d] = Free}
Lowest  == CHOOSE d \in FreeFds : \A e \in FreeFds : d <= e

Stands(d, c) == d \in Descriptors /\ table[d] = Sock(c)
IsOpen(c)    == \E d \in Descriptors : Stands(d, c)
Listed(x, s) == \E i \in 1..Len(s) : s[i] = x

(* An edge: x is put in the ready list unless it is there already.         *)
Edge(x) == IF Listed(x, ready) THEN ready ELSE Append(ready, x)

(* close() of a connection also takes it out of the epoll set.             *)
Close(d) ==
  /\ table' = [e \in Descriptors |-> IF e = d THEN Free ELSE table[e]]
  /\ \/ /\ \A i \in 1..Len(ready) : ~Stands(d, ready[i])
        /\ UNCHANGED ready
     \/ \E i \in 1..Len(ready) :
          /\ Stands(d, ready[i])
          /\ ready' = SubSeq(ready, 1, i - 1) \o SubSeq(ready, i + 1, Len(ready))

Mishap(what) == mishaps' = mishaps \cup {what}

Ends == /\ running' = "ended"
        /\ UNCHANGED <<table, connfd, ready, batch, net, thread, history>>

(* get_line begins with ch == '\0' and nothing in buf; first is the first  *)
(* character of the line, if there is one.                                 *)
NewLine(pc, sock, of, for) ==
  [pc |-> pc, sock |-> sock, ch |-> "nul", first |-> "none", file |-> NoDescriptor,
   of |-> of, for |-> for]

Idle == NewLine("idle", NoDescriptor, Listener, Listener)

Init ==
  /\ running = "no"
  /\ table = [d \in Descriptors |-> IF d <= 2 THEN Other ELSE Free]
  /\ connfd = 0
  /\ ready = <<>> /\ batch = <<>> /\ backlog = <<>>
  /\ client = [c \in Clients |-> "new"]
  /\ script \in Scripts
  /\ inbox = [c \in Clients |-> <<>>]
  /\ thread = [t \in Threads |-> Idle]
  /\ answered = {} /\ accepted = <<>> /\ handed = FALSE /\ mishaps = {}

-----------------------------------------------------------------------------
(* main and epoll_et.                                                      *)

(* get_sock, epoll_create and the first addfd.                             *)
Start ==
  /\ running = "no"
  /\ running' = "yes"
  /\ table' = [table EXCEPT ![3] = Other, ![4] = Other]
  /\ UNCHANGED <<connfd, ready, batch, net, thread, history>>

(* An assert of get_sock; a signal that interrupts epoll_wait.             *)
StartFails == running = "no" /\ Ends
WaitFails  == batch = <<>> /\ Ends

(* A definition with an underscore in its name is not part of the          *)
(* specification: it is the one after it, made wrong in a plausible way.   *)
EpollWait_FirstOnly ==
  /\ batch = <<>> /\ ready # <<>>
  /\ batch' = <<Head(ready)>> /\ ready' = <<>>
  /\ UNCHANGED <<running, table, connfd, net, thread, history>>

EpollWait ==
  /\ batch = <<>> /\ ready # <<>>
  /\ batch' = ready /\ ready' = <<>>
  /\ UNCHANGED <<running, table, connfd, net, thread, history>>

Accept_LocalConnfd ==
  /\ batch # <<>> /\ Head(batch) = Listener /\ FreeFds # {}
  /\ connfd' = IF connfd = 0 THEN Lowest ELSE connfd
  /\ table' = [table EXCEPT ![Lowest] = Sock(Head(backlog))]
  /\ ready' = IF inbox[Head(backlog)] # <<>> \/ client[Head(backlog)] = "ended"
                THEN Append(ready, Head(backlog)) ELSE ready
  /\ backlog' = Tail(backlog) /\ batch' = Tail(batch)
  /\ accepted' = Append(accepted, Head(backlog)) /\ handed' = FALSE
  /\ UNCHANGED <<running, client, script, inbox, thread, answered, mishaps>>

(* One accept for the event, however many connections are waiting; addfd   *)
(* reports at once what has arrived before it.                             *)
Accept ==
  /\ batch # <<>> /\ Head(batch) = Listener /\ FreeFds # {}
  /\ connfd' = Lowest
  /\ table' = [table EXCEPT ![Lowest] = Sock(Head(backlog))]
  /\ ready' = IF inbox[Head(backlog)] # <<>> \/ client[Head(backlog)] = "ended"
                THEN Append(ready, Head(backlog)) ELSE ready
  /\ backlog' = Tail(backlog) /\ batch' = Tail(batch)
  /\ accepted' = Append(accepted, Head(backlog)) /\ handed' = FALSE
  /\ UNCHANGED <<running, client, script, inbox, thread, answered, mishaps>>

(* accept returns -1, which connfd keeps and nothing tests.                *)
AcceptFails ==
  /\ batch # <<>> /\ Head(batch) = Listener /\ FreeFds = {}
  /\ connfd' = NoDescriptor
  /\ batch' = Tail(batch)
  /\ Mishap("full")
  /\ UNCHANGED <<running, table, ready, net, thread, answered, accepted, handed>>

(* The thread is given connfd, whatever connection the event is of.        *)
StartThread(t) ==
  /\ batch # <<>> /\ Head(batch) # Listener
  /\ thread[t] = Idle /\ \A u \in Threads : thread[u] = Idle => t <= u
  /\ LET of == {c \in Clients : Stands(connfd, c)}
     IN  thread' = [thread EXCEPT ![t] =
           NewLine("line", connfd, IF of = {} THEN Listener ELSE CHOOSE c \in of : TRUE,
                   Head(batch))]
  /\ batch' = Tail(batch)
  /\ handed' = TRUE
  /\ mishaps' = mishaps \cup (IF handed THEN {"twice"} ELSE {})
                        \cup (IF Stands(connfd, Head(batch)) THEN {} ELSE {"stranger"})
  /\ UNCHANGED <<running, table, connfd, ready, net, answered, accepted>>

(* epoll_et returns, and the events after this one are lost as well.       *)
StartThreadFails ==
  /\ batch # <<>> /\ Head(batch) # Listener
  /\ batch' = <<>>
  /\ Mishap("dropped")
  /\ UNCHANGED <<running, table, connfd, ready, net, thread, answered, accepted, handed>>

-----------------------------------------------------------------------------
(* accept_request: the thread of an event.                                 *)

Step(t, fields) == thread' = [thread EXCEPT ![t] = fields]

(* The bytes that recv() finds; a number that is not a connection has none.*)
Arrived(t) ==
  UNION {{<<c, inbox[c]>>} : c \in {d \in Clients : Stands(thread[t].sock, d) /\ inbox[d] # <<>>}}

(* recv() of one byte, after which ch has this value.                      *)
Recv(t, ch) ==
  \/ /\ Arrived(t) = {} /\ ch = thread[t].ch
     /\ UNCHANGED inbox
  \/ \E a \in Arrived(t) : ch = Head(a[2]) /\ inbox' = [inbox EXCEPT ![a[1]] = Tail(a[2])]

(* A character goes into buf.  Without a byte in the middle of a line the  *)
(* loop turns on the spot.                                                 *)
RecvText(t) ==
  /\ thread[t].pc \in {"line", "head"} /\ Arrived(t) # {}
  /\ \E ch \in Bytes \ Terminators :
       /\ Recv(t, ch)
       /\ Step(t, [thread[t] EXCEPT !.ch = ch, !.first = IF @ = "none" THEN ch ELSE @])
  /\ UNCHANGED <<running, table, connfd, ready, batch, backlog, client, script, history>>

(* The line ends, also when there is nothing to read and ch is still the   *)
(* '\0' it was set to.                                                     *)
RecvEnd(t) ==
  /\ thread[t].pc \in {"line", "head"}
  /\ \E ch \in Terminators :
       /\ Recv(t, ch)
       /\ Step(t, [thread[t] EXCEPT !.ch = ch, !.pc = [line |-> "line2", head |-> "head2"][@]])
  /\ UNCHANGED <<running, table, connfd, ready, batch, backlog, client, script, history>>

(* The second recv() and what the request line asks for: a file that       *)
(* stat() finds, or nothing.                                               *)
RequestLine(t) ==
  /\ thread[t].pc = "line2"
  /\ \E ch \in Bytes : Recv(t, ch)
  /\ LET this == thread[t]
     IN  Step(t, NewLine(IF this.first = "G" THEN "head" ELSE "close", this.sock, this.of, this.for))
  /\ UNCHANGED <<running, table, connfd, ready, batch, backlog, client, script, history>>

(* Compared with "\r\n", of which get_line leaves no '\r'.                 *)
HeadLine_WithReturn(t) ==
  /\ thread[t].pc = "head2"
  /\ LET this == thread[t]
     IN  \E ch \in Bytes :
           /\ Recv(t, ch)
           /\ Step(t, NewLine(IF this.first = "cr" THEN "fopen" ELSE "head",
                              this.sock, this.of, this.for))
  /\ UNCHANGED <<running, table, connfd, ready, batch, backlog, client, script, history>>

(* The second recv() of a line of the head: the head ends with a line that *)
(* is "\n", which one that is left empty by '\0' is not.                   *)
HeadLine(t) ==
  /\ thread[t].pc = "head2"
  /\ LET this == thread[t]
     IN  \E ch \in Bytes :
           /\ Recv(t, ch)
           /\ Step(t, NewLine(IF this.first = "none" /\ ch # "nul" THEN "fopen" ELSE "head",
                              this.sock, this.of, this.for))
  /\ UNCHANGED <<running, table, connfd, ready, batch, backlog, client, script, history>>

OpenStream(t) ==
  /\ thread[t].pc = "fopen" /\ FreeFds # {}
  /\ table' = [table EXCEPT ![Lowest] = Stream]
  /\ Step(t, [thread[t] EXCEPT !.pc = "header", !.file = Lowest])
  /\ UNCHANGED <<running, connfd, ready, batch, net, history>>

(* fclose(NULL).                                                           *)
OpenStreamFails(t) == thread[t].pc = "fopen" /\ FreeFds = {} /\ Ends

(* send_header opens the file again, sends it and leaves it open.          *)
SendFile(t) ==
  /\ thread[t].pc = "header" /\ FreeFds # {}
  /\ table' = [table EXCEPT ![Lowest] = Page]
  /\ answered' = answered \cup {c \in Clients : Stands(thread[t].sock, c)}
  /\ Step(t, [thread[t] EXCEPT !.pc = "fclose"])
  /\ UNCHANGED <<running, connfd, ready, batch, net, accepted, handed, mishaps>>

SendHeaderOnly(t) ==
  /\ thread[t].pc = "header" /\ FreeFds = {}
  /\ Mishap("full")
  /\ Step(t, [thread[t] EXCEPT !.pc = "fclose"])
  /\ UNCHANGED <<running, table, connfd, ready, batch, net, answered, accepted, handed>>

(* The client has gone: SIGPIPE.                                           *)
SendRefused(t) ==
  /\ thread[t].pc = "header"
  /\ \E c \in Clients : Stands(thread[t].sock, c) /\ client[c] = "ended"
  /\ Ends

CloseFile_SocketToo(t) ==
  /\ thread[t].pc = "fclose"
  /\ Close(thread[t].sock)
  /\ Step(t, [thread[t] EXCEPT !.pc = "close", !.file = NoDescriptor])
  /\ UNCHANGED <<running, connfd, batch, net, history>>

CloseFile(t) ==
  /\ thread[t].pc = "fclose"
  /\ Close(thread[t].file)
  /\ Step(t, [thread[t] EXCEPT !.pc = "close", !.file = NoDescriptor])
  /\ UNCHANGED <<running, connfd, batch, net, history>>

CloseSock_StaysReady(t) ==
  /\ thread[t].pc = "close"
  /\ table' = [e \in Descriptors |-> IF e = thread[t].sock THEN Free ELSE table[e]]
  /\ Step(t, Idle)
  /\ UNCHANGED <<running, connfd, ready, batch, net, history>>

CloseSock(t) ==
  /\ thread[t].pc = "close"
  /\ Close(thread[t].sock)
  /\ Step(t, Idle)
  /\ UNCHANGED <<running, connfd, batch, net, history>>

-----------------------------------------------------------------------------
(* The clients.                                                            *)

(* The kernel completes the connection; an edge that is still in the ready *)
(* list stands for all that have arrived.                                  *)
Connect(c) ==
  /\ client[c] = "new" /\ running = "yes"
  /\ client' = [client EXCEPT ![c] = "connected"]
  /\ backlog' = Append(backlog, c)
  /\ ready' = Edge(Listener)
  /\ IF Listed(Listener, ready) THEN Mishap("together") ELSE UNCHANGED mishaps
  /\ UNCHANGED <<running, table, connfd, batch, script, inbox, thread, answered, accepted, handed>>

ConnectFails(c) ==
  /\ client[c] = "new" /\ running = "no"
  /\ client' = [client EXCEPT ![c] = "ended"]
  /\ UNCHANGED <<running, table, connfd, ready, batch, backlog, script, inbox, thread, history>>

(* What is sent to a connection that the server has closed is lost.        *)
Send(c) ==
  /\ client[c] = "connected" /\ script[c] # <<>>
  /\ script' = [script EXCEPT ![c] = Tail(@)]
  /\ IF IsOpen(c) \/ Listed(c, backlog)
       THEN inbox' = [inbox EXCEPT ![c] = @ \o Head(script[c])]
       ELSE UNCHANGED inbox
  /\ ready' = IF IsOpen(c) THEN Edge(c) ELSE ready
  /\ UNCHANGED <<running, table, connfd, batch, backlog, client, thread, history>>

(* SIGPIPE in the client.                                                  *)
SendKilled(c) ==
  /\ client[c] = "connected" /\ script[c] # <<>>
  /\ ~(IsOpen(c) \/ Listed(c, backlog))
  /\ client' = [client EXCEPT ![c] = "ended"]
  /\ UNCHANGED <<running, table, connfd, ready, batch, backlog, script, inbox, thread, history>>

(* "quit" ends the loop over the lines; the socket is still connected.     *)
Quit(c) ==
  /\ client[c] = "connected"
  /\ client' = [client EXCEPT ![c] = "again"]
  /\ UNCHANGED <<running, table, connfd, ready, batch, backlog, script, inbox, thread, history>>

(* connect() on a connected socket fails: the client closes it and ends,   *)
(* which the server gets as one more event.                                *)
Reconnect(c) ==
  /\ client[c] = "again"
  /\ client' = [client EXCEPT ![c] = "ended"]
  /\ ready' = IF IsOpen(c) THEN Edge(c) ELSE ready
  /\ UNCHANGED <<running, table, connfd, batch, backlog, script, inbox, thread, history>>

-----------------------------------------------------------------------------

Loop ==
  /\ running = "yes"
  /\ \/ EpollWait \/ Accept \/ AcceptFails
     \/ (\E t \in Threads : StartThread(t)) \/ StartThreadFails

Serve(t) ==
  /\ running = "yes"
  /\ \/ RecvText(t)   \/ RecvEnd(t)         \/ RequestLine(t) \/ HeadLine(t)
     \/ OpenStream(t) \/ OpenStreamFails(t) \/ SendFile(t)    \/ SendHeaderOnly(t)
     \/ CloseFile(t)  \/ CloseSock(t)

Outside ==
  /\ running # "ended"
  /\ \/ Start \/ StartFails
     \/ running = "yes" /\ (WaitFails \/ \E t \in Threads : SendRefused(t))
     \/ \E c \in Clients : Connect(c) \/ ConnectFails(c) \/ Send(c) \/ SendKilled(c) \/ Quit(c)

(* The server has ended, or nothing has happened that epoll_wait reports.  *)
Waiting ==
  /\ running = "ended" \/ (ready = <<>> /\ batch = <<>>)
  /\ UNCHANGED vars

Next ==
  \/ Loop \/ (\E t \in Threads : Serve(t)) \/ Outside \/ Waiting
  \/ running # "ended" /\ \E c \in Clients : Reconnect(c)

(* The kernel schedules the loop, the threads and a client that has quit;  *)
(* nobody has to connect, to send or to quit.                              *)
Spec ==
  /\ Init /\ [][Next]_vars
  /\ WF_vars(Loop)
  /\ \A t \in Threads : WF_vars(Serve(t))
  /\ \A c \in Clients : WF_vars(running # "ended" /\ Reconnect(c))

-----------------------------------------------------------------------------

TypeOK ==
  /\ running \in {"no", "yes", "ended"}
  /\ table \in [Descriptors -> {Free, Other, Stream, Page} \cup {Sock(c) : c \in Clients}]
  /\ connfd \in Descriptors \cup {NoDescriptor}
  /\ client \in [Clients -> {"new", "connected", "again", "ended"}]
  /\ \A c \in Clients : \A i \in 1..Len(inbox[c]) : inbox[c][i] \in Bytes
  /\ thread \in [Threads ->
       [pc : {"idle", "line", "line2", "head", "head2", "fopen", "header", "fclose", "close"},
        sock : Descriptors \cup {NoDescriptor}, file : Descriptors \cup {NoDescriptor},
        ch : Bytes, first : {"none", "G", "c"},
        of : Clients \cup {Listener}, for : Clients \cup {Listener}]]
  /\ answered \subseteq Clients /\ handed \in BOOLEAN
  /\ mishaps \subseteq {"together", "dropped", "full", "twice", "stranger"}
  /\ \A i \in 1..Len(ready) : ready[i] = Listener \/ IsOpen(ready[i])
  /\ \A i, j \in 1..Len(ready) : ready[i] = ready[j] => i = j

(* As long as no connfd has been given to two threads (server.h:322), the  *)
(* number a thread reads from, answers on and closes is the connection it  *)
(* was given, and its file is its file: numbers are not reused under it.   *)
NumbersStay ==
  "twice" \notin mishaps =>
    \A t \in Threads : thread[t].pc # "idle" =>
      /\ thread[t].of # Listener => Stands(thread[t].sock, thread[t].of)
      /\ thread[t].pc \in {"header", "fclose"} => table[thread[t].file] = Stream

(* A thread works for a connection that its event is not of only when that *)
(* one was accepted later (server.h:314-322), or when no descriptor was    *)
(* left, or connfd had been used and perhaps closed before.                *)
StrangerIsLater ==
  mishaps \cap {"twice", "full"} = {} =>
    \A t \in Threads : thread[t].of # thread[t].for =>
      \E i, j \in 1..Len(accepted) :
        i < j /\ accepted[i] = thread[t].for /\ accepted[j] = thread[t].of

(* One accept an edge (server.h:314) is enough for every connection, but   *)
(* for those that arrive while another is not yet reported, lost events    *)
(* and a full descriptor table.                                            *)
AllAccepted ==
  \A c \in Clients :
    Listed(c, backlog) ~>
      (~Listed(c, backlog) \/ mishaps \cap {"together", "dropped", "full"} # {} \/ running = "ended")

(* A request that has arrived whole is answered with its file, unless the  *)
(* client leaves or something in mishaps happens to somebody: that the     *)
(* first line is read by the right thread is no accident of timing then.   *)
Whole == <<"G", "c", "cr", "lf", "cr", "lf">>

WholeAnswered ==
  \A c \in Clients :
    (client[c] = "connected" /\ inbox[c] = Whole /\ (IsOpen(c) \/ Listed(c, backlog))) ~>
      (c \in answered \/ client[c] # "connected" \/ mishaps # {} \/ running = "ended")

=============================================================================
