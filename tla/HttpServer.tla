----------------------------- MODULE HttpServer -----------------------------
(***************************************************************************)
(* The process of server/server_http.cpp and its descriptor table: main    *)
(* accepts connections and starts a detached thread for each, and Accept   *)
(* of server/server_http.h answers it with a file, with a CGI program, or  *)
(* not at all, and closes the socket.                                      *)
(*                                                                         *)
(* The kernel hands out the lowest free descriptor, so a number closed by  *)
(* one thread is soon another thread's.  table says what each number       *)
(* stands for; fd[c] are the numbers the thread of c has in its locals.    *)
(* What goes through a pipe is in CgiRelay, how a request is read in       *)
(* RequestReader; SIGPIPE (CgiRelay) and the book (Attendance) can end the *)
(* process too, and its descriptors with it.                               *)
(***************************************************************************)
EXTENDS Integers, FiniteSets

CONSTANTS
  Clients,   (* one per connection the server ever accepts                 *)
  Nobody,    (* owner of what belongs to no client                         *)
  MaxFd      (* RLIMIT_NOFILE of the process                               *)

ASSUME ClientsAssumption == IsFiniteSet(Clients) /\ Nobody \notin Clients
ASSUME MaxFdAssumption   == MaxFd \in Nat /\ MaxFd >= 4

VARIABLES
  asks,          (* what each client asks for: a file, a CGI program, what *)
                 (* stat() accepts and fopen() does not (a directory       *)
                 (* without index.html, a file without read permission),   *)
                 (* or what gets no answer, a path that cannot be stat'ed  *)
                 (* or a Content-Length of -1                              *)
  table,         (* what each descriptor of the process stands for         *)
  pc,            (* where the thread of each client is                     *)
  fd,            (* the descriptors in the locals of each thread           *)
  ended,         (* what ended the process, or "no"                        *)
  failed,        (* history: clients one of whose pipe() calls failed      *)
  headless,      (* history: clients that got a header and no file         *)
  peak           (* history: most connections open at the same time        *)

history == <<failed, headless, peak>>
vars    == <<asks, table, pc, fd, ended, history>>

-----------------------------------------------------------------------------

Descriptors == 0..MaxFd - 1

Names == {"sock", "stream", "page", "in_read", "in_write", "out_read", "out_write"}

Unopened == -1

(* The pipe variables of exec_cgi start as {0,0}, so a pipe end that was   *)
(* not opened is descriptor 0.                                             *)
NoDescriptors == [n \in Names |-> IF n \in {"sock", "stream", "page"} THEN Unopened ELSE 0]

Free      == <<Nobody, "free">>
Standard  == <<Nobody, "std">>
Listening == <<Nobody, "listen">>

FreeFds    == {d \in Descriptors : table[d] = Free}
Lowest(ds) == CHOOSE d \in ds : \A e \in ds : d <= e

(* Two more descriptors can be had.                                        *)
RoomForPipe == \E d, e \in FreeFds : d # e

InFlight == {c \in Clients : pc[c] \notin {"new", "done"}}

(* A definition with an underscore and a mistake in its name is not part   *)
(* of the specification: it is the one after it, made wrong in a plausible *)
(* way.                                                                    *)
Closing_OutputKept ==
  [undo_in_read    |-> <<"in_read",   "undo_in_write">>,
   undo_in_write   |-> <<"in_write",  "fork">>,
   close_in_read   |-> <<"in_read",   "close_out_write">>,
   close_out_write |-> <<"out_write", "relay">>,
   close_in_write  |-> <<"in_write",  "close_out_read">>,
   close_out_read  |-> <<"in_write",  "close">>,
   fclose          |-> <<"stream",    "close">>]

Closing_WrongPipe ==
  [undo_in_read    |-> <<"in_read",   "undo_in_write">>,
   undo_in_write   |-> <<"in_write",  "fork">>,
   close_in_read   |-> <<"out_write", "close_out_write">>,
   close_out_write |-> <<"out_write", "relay">>,
   close_in_write  |-> <<"out_read",  "close_out_read">>,
   close_out_read  |-> <<"out_read",  "close">>,
   fclose          |-> <<"stream",    "close">>]

(* Every close() of a thread but that of its socket: the variable closed   *)
(* and where the thread goes on.                                           *)
Closing ==
  [undo_in_read    |-> <<"in_read",   "undo_in_write">>,
   undo_in_write   |-> <<"in_write",  "fork">>,
   close_in_read   |-> <<"in_read",   "close_out_write">>,
   close_out_write |-> <<"out_write", "relay">>,
   close_in_write  |-> <<"in_write",  "close_out_read">>,
   close_out_read  |-> <<"out_read",  "close">>,
   fclose          |-> <<"stream",    "close">>]

Labels == DOMAIN Closing \cup
          {"new", "read", "fopen", "header", "pipe_in", "pipe_out", "fork", "relay",
           "close", "done"}

Goto(c, label) == pc' = [pc EXCEPT ![c] = label]

(* The lowest free descriptor becomes name of c.                           *)
Open(c, name) ==
  /\ table' = [table EXCEPT ![Lowest(FreeFds)] = <<c, name>>]
  /\ fd' = [fd EXCEPT ![c][name] = Lowest(FreeFds)]

OpenPipe(c, reading, writing) ==
  LET d == Lowest(FreeFds)
      e == Lowest(FreeFds \ {d})
  IN  /\ table' = [table EXCEPT ![d] = <<c, reading>>, ![e] = <<c, writing>>]
      /\ fd' = [fd EXCEPT ![c][reading] = d, ![c][writing] = e]

(* close() of a number that is not open does nothing.                      *)
Close(d) == table' = [table EXCEPT ![d] = Free]

Kinds == {"file", "program", "unreadable", "nothing"}

Ends(why) == ended' = why /\ UNCHANGED <<asks, table, pc, fd, history>>

Init ==
  /\ asks \in [Clients -> Kinds]
  /\ table = [d \in Descriptors |->
                IF d <= 2 THEN Standard ELSE Free]
  /\ pc = [c \in Clients |-> "new"]
  /\ fd = [c \in Clients |-> NoDescriptors]
  /\ ended = "no"
  /\ failed = {} /\ headless = {} /\ peak = 0

-----------------------------------------------------------------------------
(* main: get_sock, and the loop that accepts.                              *)

Started == \E d \in Descriptors : table[d] = Listening

GetSock ==
  /\ ended = "no" /\ ~Started
  /\ table' = [table EXCEPT ![Lowest(FreeFds)] = Listening]
  /\ UNCHANGED <<asks, pc, fd, ended, history>>

(* The port is taken: main returns -1.                                     *)
GetSockFails ==
  /\ ended = "no" /\ ~Started
  /\ Ends("get_sock")

Accept(c) ==
  /\ pc[c] = "new" /\ Started /\ FreeFds # {}
  /\ Open(c, "sock")
  /\ Goto(c, "read")
  /\ peak' = IF Cardinality(InFlight) < peak THEN peak ELSE Cardinality(InFlight) + 1
  /\ UNCHANGED <<asks, ended, failed, headless>>

(* main returns -1, which ends every thread with it.  accept() fails for   *)
(* want of a descriptor, or for a reason that lies in the connection.      *)
AcceptFails(c) ==
  /\ pc[c] = "new" /\ Started
  /\ Ends(IF FreeFds = {} THEN "accept" ELSE "connection")

ThreadFails(c) ==
  /\ pc[c] = "new" /\ Started /\ FreeFds # {}
  /\ Ends("pthread_create")

-----------------------------------------------------------------------------
(* The thread of a connection.                                             *)

ReadRequest_AlwaysProgram(c) ==
  /\ pc[c] = "read"
  /\ Goto(c, IF asks[c] = "nothing" THEN "close" ELSE "pipe_in")
  /\ UNCHANGED <<asks, table, fd, ended, history>>

(* The request is read and stat() or the Content-Length decides.           *)
ReadRequest(c) ==
  /\ pc[c] = "read"
  /\ Goto(c, [file |-> "fopen", unreadable |-> "fopen",
              program |-> "pipe_in", nothing |-> "close"][asks[c]])
  /\ UNCHANGED <<asks, table, fd, ended, history>>

OpenStream(c) ==
  /\ pc[c] = "fopen" /\ FreeFds # {} /\ asks[c] = "file"
  /\ Open(c, "stream")
  /\ Goto(c, "header")
  /\ UNCHANGED <<asks, ended, history>>

(* fopen returns NULL and exec_get_file gives it to fclose.                *)
OpenStreamFails(c) ==
  /\ pc[c] = "fopen" /\ (FreeFds = {} \/ asks[c] = "unreadable")
  /\ Ends("fclose")

(* send_header opens the file once more and never closes it.               *)
SendFile(c) ==
  /\ pc[c] = "header" /\ FreeFds # {}
  /\ Open(c, "page")
  /\ Goto(c, "fclose")
  /\ UNCHANGED <<asks, ended, history>>

SendHeaderOnly(c) ==
  /\ pc[c] = "header" /\ FreeFds = {}
  /\ headless' = headless \cup {c}
  /\ Goto(c, "fclose")
  /\ UNCHANGED <<asks, table, fd, ended, failed, peak>>

OpenInput(c) ==
  /\ pc[c] = "pipe_in" /\ RoomForPipe
  /\ OpenPipe(c, "in_read", "in_write")
  /\ Goto(c, "pipe_out")
  /\ UNCHANGED <<asks, ended, history>>

(* The failure is logged and exec_cgi goes on.                             *)
OpenInputFails(c) ==
  /\ pc[c] = "pipe_in" /\ ~RoomForPipe
  /\ failed' = failed \cup {c}
  /\ Goto(c, "pipe_out")
  /\ UNCHANGED <<asks, table, fd, ended, headless, peak>>

OpenOutput(c) ==
  /\ pc[c] = "pipe_out" /\ RoomForPipe
  /\ OpenPipe(c, "out_read", "out_write")
  /\ Goto(c, "fork")
  /\ UNCHANGED <<asks, ended, history>>

(* cgi_input is closed, and exec_cgi goes on as if it were not.            *)
OpenOutputFails(c) ==
  /\ pc[c] = "pipe_out" /\ ~RoomForPipe
  /\ failed' = failed \cup {c}
  /\ Goto(c, "undo_in_read")
  /\ UNCHANGED <<asks, table, fd, ended, headless, peak>>

Fork(c) ==
  /\ pc[c] = "fork"
  /\ Goto(c, "close_in_read")
  /\ UNCHANGED <<asks, table, fd, ended, history>>

ForkFails(c) ==
  /\ pc[c] = "fork"
  /\ Ends("fork")

(* The program's output is relayed; CgiRelay has the loops.                *)
Relay(c) ==
  /\ pc[c] = "relay"
  /\ Goto(c, "close_in_write")
  /\ UNCHANGED <<asks, table, fd, ended, history>>

(* The number is closed whatever it stands for by then.                    *)
CloseOne(c) ==
  /\ pc[c] \in DOMAIN Closing
  /\ Close(fd[c][Closing[pc[c]][1]])
  /\ Goto(c, Closing[pc[c]][2])
  /\ UNCHANGED <<asks, fd, ended, failed, headless, peak>>

CloseSocket(c) ==
  /\ pc[c] = "close"
  /\ Close(fd[c].sock)
  /\ fd' = [fd EXCEPT ![c] = NoDescriptors]
  /\ Goto(c, "done")
  /\ UNCHANGED <<asks, ended, failed, headless, peak>>

-----------------------------------------------------------------------------

Serve(c) ==
  /\ ended = "no"
  /\ \/ OpenStream(c)     \/ OpenStreamFails(c)  \/ SendFile(c)   \/ SendHeaderOnly(c)
     \/ OpenInput(c)      \/ OpenInputFails(c)   \/ OpenOutput(c) \/ OpenOutputFails(c)
     \/ Fork(c)           \/ Relay(c)            \/ CloseOne(c)   \/ CloseSocket(c)

(* What depends on clients or on limits other than MaxFd.                  *)
Outside(c) ==
  /\ ended = "no"
  /\ Accept(c) \/ AcceptFails(c) \/ ThreadFails(c) \/ ReadRequest(c) \/ ForkFails(c)

Over ==
  /\ ended # "no" \/ \A c \in Clients : pc[c] = "done"
  /\ UNCHANGED vars

Next == Over \/ GetSock \/ GetSockFails \/ \E c \in Clients : Serve(c) \/ Outside(c)

Spec == Init /\ [][Next]_vars

-----------------------------------------------------------------------------

TypeOK ==
  /\ asks \in [Clients -> Kinds]
  /\ table \in [Descriptors -> {Free, Standard, Listening} \cup (Clients \X Names)]
  /\ pc \in [Clients -> Labels]
  /\ fd \in [Clients -> [Names -> Descriptors \cup {Unopened}]]
  /\ ended \in {"no", "get_sock", "accept", "connection", "pthread_create",
                "fclose", "fork"}
  /\ \A c \in failed   : c \in Clients /\ asks[c] = "program"
  /\ \A c \in headless : c \in Clients /\ asks[c] = "file"
  /\ peak \in 0..Cardinality(Clients)

(* The variables of a thread that name an open descriptor, by where it is. *)
Held(c) ==
  CASE pc[c] \in {"new", "done"}                      -> {}
    [] pc[c] \in {"header", "fclose"}                 -> {"sock", "stream"}
    [] pc[c] = "pipe_out"                             -> {"sock", "in_read", "in_write"}
    [] pc[c] \in {"fork", "close_in_read"}            ->
         {"sock", "in_read", "in_write", "out_read", "out_write"}
    [] pc[c] = "close_out_write"                      ->
         {"sock", "in_write", "out_read", "out_write"}
    [] pc[c] \in {"relay", "close_in_write"}          -> {"sock", "in_write", "out_read"}
    [] pc[c] = "close_out_read"                       -> {"sock", "out_read"}
    [] OTHER                                          -> {"sock"}

(* As long as no pipe() has failed, a thread that uses or closes a number  *)
(* reaches what it opened under it, never what another thread has opened   *)
(* since (the order of closes at server_http.h:276, 504-505, 523-524).    *)
OwnDescriptors ==
  failed = {} =>
    \A c \in Clients : \A n \in Held(c) :
      fd[c][n] \in Descriptors /\ table[fd[c][n]] = <<c, n>>

(* As long as no pipe() has failed, nothing stays open but the standard    *)
(* streams, the listening socket, what a running thread still has to close *)
(* and the descriptor that send_header opens for each file sent            *)
(* (server_http.h:232).                                                    *)
OnlyPagesLeak ==
  failed = {} =>
    \A d \in Descriptors : \A c \in Clients : \A n \in Names \ {"page"} :
      table[d] = <<c, n>> => n \in Held(c) /\ fd[c][n] = d

(* Files whose second descriptor is open.                                  *)
Leaked == {c \in Clients : \E d \in Descriptors : table[d] = <<c, "page">>}

(* A request needs at most five descriptors at a time (its socket and two  *)
(* pipes), and a file costs one for good: with that much room no call      *)
(* fails for want of a descriptor, every file follows its header, and      *)
(* fclose(NULL) at server_http.h:276 ends the process only for a path that *)
(* stat() accepts and fopen() does not.                                    *)
RoomSuffices ==
  MaxFd > 4 + Cardinality(Leaked) + 5 * peak =>
    /\ failed = {} /\ headless = {} /\ ended # "accept"
    /\ ended = "fclose" => \E c \in Clients : pc[c] = "fopen" /\ asks[c] = "unreadable"

=============================================================================
