------------------------------ MODULE CgiRelay ------------------------------
(***************************************************************************)
(* A CGI request in server/server_http.h and .cpp from accept() to the     *)
(* close of its socket: the head, the answer's header lines, and exec_cgi  *)
(* from its two pipe() calls to its waitpid(), run by the threads of one   *)
(* server process at the same time.                                        *)
(*                                                                         *)
(* fork() copies every descriptor the process has open at that moment, so  *)
(* a child also gets the sockets and the pipe ends of other threads, and   *)
(* nothing closes those in it.  A descriptor is therefore a pair of a      *)
(* request and an end, and open[p] is the set of them that process p has.  *)
(* The child of request r is named r.                                      *)
(***************************************************************************)
EXTENDS Integers, FiniteSets

CONSTANTS
  Requests,   (* requests that run a CGI program                           *)
  Posts,      (* those whose method is POST, which relay a body            *)
  Impatient,  (* those whose client may close its socket early             *)
  Server,     (* the server process                                        *)
  PipeCap,    (* capacity of a pipe                                        *)
  MaxBody,    (* bound on content_length                                   *)
  MaxOutput   (* bound on what a program writes                            *)

ASSUME RequestsAssumption ==
  Posts \subseteq Requests /\ Impatient \subseteq Requests /\ Server \notin Requests
ASSUME BoundsAssumption ==
  PipeCap \in Nat \ {0} /\ MaxBody \in Nat /\ MaxOutput \in Nat

VARIABLES
  alive,   (* FALSE once a signal or exit(1) has ended the server process  *)
  gone,    (* requests whose client has closed its socket                  *)
  silent,  (* those whose client neither sends any more of its request nor *)
           (* reads any more of the answer than the socket's buffers hold  *)
  pc,      (* where the thread of each request is                          *)
  left,    (* content_length - i of the body loop                          *)
  child,   (* what the child of each request is doing                      *)
  todo,    (* what the program of the child has still to write             *)
  input,   (* bytes in cgi_input                                           *)
  output,  (* bytes in cgi_output                                          *)
  open     (* the sockets and pipe ends each process has open              *)

pipes == <<input, output, open>>
vars  == <<alive, gone, silent, pc, left, child, todo, pipes>>

-----------------------------------------------------------------------------

Processes == Requests \cup {Server}

(* The client's socket; cgi_input[0] and [1], cgi_output[0] and [1].       *)
Ends == {"sock", "in_read", "in_write", "out_read", "out_write"}

Holders(r, end) == {p \in Processes : <<r, end>> \in open[p]}

Opened(p, r, ends) == open' = [open EXCEPT ![p] = @ \cup ({r} \X ends)]
Closed(p, r, ends) == open' = [open EXCEPT ![p] = @ \ ({r} \X ends)]

Goto(r, label)   == pc' = [pc EXCEPT ![r] = label]
Becomes(r, what) == child' = [child EXCEPT ![r] = what]

Init ==
  /\ alive = TRUE /\ gone = {} /\ silent = {}
  /\ pc = [r \in Requests |-> "new"]
  /\ left \in [Requests -> 0..MaxBody]
  /\ \A r \in Requests \ Posts : left[r] = 0
  /\ child = [r \in Requests |-> "none"]
  /\ todo = [r \in Requests |-> 0]
  /\ input = [r \in Requests |-> 0] /\ output = [r \in Requests |-> 0]
  /\ open = [p \in Processes |-> {}]

-----------------------------------------------------------------------------
(* The thread of the request.                                              *)

(* main accepts the connection.                                            *)
Accept(r) ==
  /\ pc[r] = "new"
  /\ Opened(Server, r, {"sock"})
  /\ Goto(r, "start")
  /\ UNCHANGED <<alive, gone, silent, left, child, todo, input, output>>

(* main returns because accept() or pthread_create() failed, and every     *)
(* thread ends with it.                                                    *)
AcceptFails(r) ==
  /\ pc[r] = "new"
  /\ alive' = FALSE
  /\ UNCHANGED <<gone, silent, pc, left, child, todo, pipes>>

(* The head is read up to its empty line; recv() waits for a client that   *)
(* stops in the middle of a line, and get_line for one that leaves there.  *)
ReadHead(r) ==
  /\ pc[r] = "start" /\ r \notin silent
  /\ Goto(r, "headers")
  /\ UNCHANGED <<alive, gone, silent, left, child, todo, pipes>>

(* Once its first line is read the request visits the book, which can end  *)
(* the process (DiesForAReason in Attendance).                             *)
BookAborts(r) ==
  /\ pc[r] = "start"
  /\ alive' = FALSE
  /\ UNCHANGED <<gone, silent, pc, left, child, todo, pipes>>

(* The header lines are few enough for the buffer of a new socket.         *)
SendHeaders(r) ==
  /\ pc[r] = "headers"
  /\ Goto(r, "input")
  /\ UNCHANGED <<alive, gone, silent, left, child, todo, pipes>>

(* send() to a client that has gone: the first may pass, a later one is    *)
(* a SIGPIPE, which nothing handles.                                       *)
HeadersRefused(r) ==
  /\ pc[r] = "headers" /\ r \in gone
  /\ alive' = FALSE
  /\ UNCHANGED <<gone, silent, pc, left, child, todo, pipes>>

OpenInput(r) ==
  /\ pc[r] = "input"
  /\ Opened(Server, r, {"in_read", "in_write"})
  /\ Goto(r, "output")
  /\ UNCHANGED <<alive, gone, silent, left, child, todo, input, output>>

OpenOutput(r) ==
  /\ pc[r] = "output"
  /\ Opened(Server, r, {"out_read", "out_write"})
  /\ Goto(r, "fork")
  /\ UNCHANGED <<alive, gone, silent, left, child, todo, input, output>>

Fork(r) ==
  /\ pc[r] = "fork"
  /\ open' = [open EXCEPT ![r] = open[Server]]
  /\ Becomes(r, "forked")
  /\ Goto(r, "close_in")
  /\ UNCHANGED <<alive, gone, silent, left, todo, input, output>>

(* The thread that cannot fork calls exit(1), which is everybody's end.    *)
ForkFails(r) ==
  /\ pc[r] = "fork"
  /\ alive' = FALSE
  /\ UNCHANGED <<gone, silent, pc, left, child, todo, pipes>>

CloseInRead(r) ==
  /\ pc[r] = "close_in"
  /\ Closed(Server, r, {"in_read"})
  /\ Goto(r, "close_out")
  /\ UNCHANGED <<alive, gone, silent, left, child, todo, input, output>>

(* A definition with an underscore in its name is not part of the          *)
(* specification: it is the one after it, made wrong in a plausible way.   *)
CloseOutWrite_Forgotten(r) ==
  /\ pc[r] = "close_out"
  /\ Goto(r, IF r \in Posts THEN "body" ELSE "relay")
  /\ UNCHANGED <<alive, gone, silent, left, child, todo, pipes>>

CloseOutWrite_BothEnds(r) ==
  /\ pc[r] = "close_out"
  /\ Closed(Server, r, {"out_read", "out_write"})
  /\ Goto(r, IF r \in Posts THEN "body" ELSE "relay")
  /\ UNCHANGED <<alive, gone, silent, left, child, todo, input, output>>

CloseOutWrite(r) ==
  /\ pc[r] = "close_out"
  /\ Closed(Server, r, {"out_write"})
  /\ Goto(r, IF r \in Posts THEN "body" ELSE "relay")
  /\ UNCHANGED <<alive, gone, silent, left, child, todo, input, output>>

(* recv() and send() block when the client is silent, and return at once   *)
(* when it has closed its socket.                                          *)
Responds(r) == r \in silent => r \in gone

(* One turn of the body loop; write() blocks while the pipe is full.       *)
RelayBody(r) ==
  /\ pc[r] = "body" /\ left[r] > 0 /\ Responds(r)
  /\ Holders(r, "in_read") # {} /\ input[r] < PipeCap
  /\ input' = [input EXCEPT ![r] = @ + 1]
  /\ left' = [left EXCEPT ![r] = @ - 1]
  /\ UNCHANGED <<alive, gone, silent, pc, child, todo, output, open>>

(* Nobody can read the body any more: another SIGPIPE.                     *)
BodyRefused(r) ==
  /\ pc[r] = "body" /\ left[r] > 0 /\ Responds(r)
  /\ Holders(r, "in_read") = {}
  /\ alive' = FALSE
  /\ UNCHANGED <<gone, silent, pc, left, child, todo, pipes>>

BodyDone(r) ==
  /\ pc[r] = "body" /\ left[r] = 0
  /\ Goto(r, "relay")
  /\ UNCHANGED <<alive, gone, silent, left, child, todo, pipes>>

RelayOutput(r) ==
  /\ pc[r] = "relay" /\ output[r] > 0 /\ Responds(r)
  /\ output' = [output EXCEPT ![r] = @ - 1]
  /\ UNCHANGED <<alive, gone, silent, pc, left, child, todo, input, open>>

(* And so is a send() to a client that has gone.                           *)
OutputRefused(r) ==
  /\ pc[r] = "relay" /\ output[r] > 0 /\ r \in gone
  /\ alive' = FALSE
  /\ UNCHANGED <<gone, silent, pc, left, child, todo, pipes>>

EndOfOutput_WhenEmpty(r) ==
  /\ pc[r] = "relay" /\ output[r] = 0
  /\ Goto(r, "close_pipes")
  /\ UNCHANGED <<alive, gone, silent, left, child, todo, pipes>>

(* read() returns 0: the pipe is empty and no process can write to it.     *)
EndOfOutput(r) ==
  /\ pc[r] = "relay" /\ output[r] = 0
  /\ Holders(r, "out_write") = {}
  /\ Goto(r, "close_pipes")
  /\ UNCHANGED <<alive, gone, silent, left, child, todo, pipes>>

ClosePipes_KeepsInput(r) ==
  /\ pc[r] = "close_pipes"
  /\ Closed(Server, r, {"out_read"})
  /\ Goto(r, "wait")
  /\ UNCHANGED <<alive, gone, silent, left, child, todo, input, output>>

ClosePipes_NoWait(r) ==
  /\ pc[r] = "close_pipes"
  /\ Closed(Server, r, {"in_write", "out_read"})
  /\ Goto(r, "close")
  /\ UNCHANGED <<alive, gone, silent, left, child, todo, input, output>>

ClosePipes(r) ==
  /\ pc[r] = "close_pipes"
  /\ Closed(Server, r, {"in_write", "out_read"})
  /\ Goto(r, "wait")
  /\ UNCHANGED <<alive, gone, silent, left, child, todo, input, output>>

WaitPid(r) ==
  /\ pc[r] = "wait" /\ child[r] = "zombie"
  /\ Becomes(r, "reaped")
  /\ Goto(r, "close")
  /\ UNCHANGED <<alive, gone, silent, left, todo, pipes>>

CloseSocket_Forgotten(r) ==
  /\ pc[r] = "close"
  /\ Goto(r, "done")
  /\ UNCHANGED <<alive, gone, silent, left, child, todo, pipes>>

(* Accept of server_http closes the client's socket.                       *)
CloseSocket(r) ==
  /\ pc[r] = "close"
  /\ Closed(Server, r, {"sock"})
  /\ Goto(r, "done")
  /\ UNCHANGED <<alive, gone, silent, left, child, todo, input, output>>

-----------------------------------------------------------------------------
(* The child of the request.                                               *)

ChildCloses_ReadEnds(r) ==
  /\ child[r] = "forked"
  /\ Closed(r, r, {"in_read", "out_read"})
  /\ Becomes(r, "redirected")
  /\ UNCHANGED <<alive, gone, silent, pc, left, todo, input, output>>

ChildCloses(r) ==
  /\ child[r] = "forked"
  /\ Closed(r, r, {"in_write", "out_read"})
  /\ Becomes(r, "redirected")
  /\ UNCHANGED <<alive, gone, silent, pc, left, todo, input, output>>

(* The cout lines about the environment come after the dup2 calls, so they *)
(* go down the pipe, ahead of the program's own output.                    *)
ChildLogs(r) ==
  /\ child[r] = "redirected" /\ output[r] < PipeCap
  /\ output' = [output EXCEPT ![r] = @ + 1]
  /\ Becomes(r, "exec")
  /\ UNCHANGED <<alive, gone, silent, pc, left, todo, input, open>>

(* execl(); a program that writes nothing stands also for a failed one.    *)
Exec(r) ==
  /\ child[r] = "exec"
  /\ \E n \in 0..MaxOutput : todo' = [todo EXCEPT ![r] = n]
  /\ Becomes(r, "program")
  /\ UNCHANGED <<alive, gone, silent, pc, left, pipes>>

ProgramWrites_Overfull(r) ==
  /\ child[r] = "program" /\ todo[r] > 0
  /\ output' = [output EXCEPT ![r] = @ + 1]
  /\ todo' = [todo EXCEPT ![r] = @ - 1]
  /\ UNCHANGED <<alive, gone, silent, pc, left, child, input, open>>

ProgramWrites(r) ==
  /\ child[r] = "program" /\ todo[r] > 0 /\ output[r] < PipeCap
  /\ output' = [output EXCEPT ![r] = @ + 1]
  /\ todo' = [todo EXCEPT ![r] = @ - 1]
  /\ UNCHANGED <<alive, gone, silent, pc, left, child, input, open>>

ProgramReads(r) ==
  /\ child[r] = "program" /\ input[r] > 0
  /\ input' = [input EXCEPT ![r] = @ - 1]
  /\ UNCHANGED <<alive, gone, silent, pc, left, child, todo, output, open>>

ProgramExits(r) ==
  /\ child[r] = "program" /\ todo[r] = 0
  /\ open' = [open EXCEPT ![r] = {}]
  /\ Becomes(r, "zombie")
  /\ UNCHANGED <<alive, gone, silent, pc, left, todo, input, output>>

Disconnect(r) ==
  /\ r \in Impatient \ gone /\ pc[r] \notin {"new", "done"}
  /\ gone' = gone \cup {r}
  /\ UNCHANGED <<alive, silent, pc, left, child, todo, pipes>>

(* A client sends less than the head or its Content-Length, or does not    *)
(* read its answer.                                                        *)
Stall(r) ==
  /\ pc[r] \in {"start", "body", "relay"} /\ r \notin silent
  /\ silent' = silent \cup {r}
  /\ UNCHANGED <<alive, gone, pc, left, child, todo, pipes>>

-----------------------------------------------------------------------------

Thread(r) ==
  /\ alive
  /\ \/ ReadHead(r)     \/ SendHeaders(r)
     \/ OpenInput(r)    \/ OpenOutput(r)  \/ Fork(r)
     \/ CloseInRead(r)  \/ CloseOutWrite(r)
     \/ RelayBody(r)    \/ BodyRefused(r) \/ BodyDone(r)
     \/ RelayOutput(r)  \/ EndOfOutput(r) \/ ClosePipes(r) \/ WaitPid(r)
     \/ CloseSocket(r)

Child(r) ==
  /\ alive
  /\ ChildCloses(r) \/ ChildLogs(r) \/ Exec(r) \/ ProgramWrites(r) \/ ProgramExits(r)

(* What nobody has to do.                                                  *)
Outside(r) ==
  /\ alive
  /\ \/ Accept(r)     \/ AcceptFails(r)    \/ BookAborts(r) \/ HeadersRefused(r)
     \/ ForkFails(r)  \/ OutputRefused(r)  \/ Disconnect(r) \/ Stall(r)
     \/ ProgramReads(r)

(* The thread of s waits in recv() for its client, in write() for its      *)
(* program to read, or in send() for its client to read.                   *)
Waits(s) ==
  \/ pc[s] = "start" /\ s \in silent
  \/ pc[s] = "body" /\ left[s] > 0 /\ (~Responds(s) \/ input[s] = PipeCap)
  \/ pc[s] = "relay" /\ output[s] > 0 /\ ~Responds(s)

(* Nothing is left to happen, nothing need happen because a thread waits,  *)
(* or the process is gone.                                                 *)
Over ==
  /\ \/ ~alive
     \/ \A r \in Requests : pc[r] = "done"
     \/ \E r \in Requests : Waits(r)
  /\ UNCHANGED vars

Next == Over \/ \E r \in Requests : Thread(r) \/ Child(r) \/ Outside(r)

(* The kernel schedules threads and children; a program that can go on     *)
(* does, and ends; no program has to read its input, and no client has to  *)
(* come or to leave.  A client that is not silent goes on sending and      *)
(* reading; it may fall silent at any time, for good.                      *)
Spec == Init /\ [][Next]_vars /\ \A r \in Requests : WF_vars(Thread(r)) /\ WF_vars(Child(r))

-----------------------------------------------------------------------------

TypeOK ==
  /\ alive \in BOOLEAN /\ gone \subseteq Requests /\ silent \subseteq Requests
  /\ pc \in [Requests -> {"new", "start", "headers", "input", "output", "fork", "close_in", "close_out", "body",
                          "relay", "close_pipes", "wait", "close", "done"}]
  /\ left \in [Requests -> 0..MaxBody]
  /\ child \in [Requests -> {"none", "forked", "redirected", "exec", "program",
                             "zombie", "reaped"}]
  /\ todo \in [Requests -> 0..MaxOutput]
  /\ input \in [Requests -> 0..PipeCap] /\ output \in [Requests -> 0..PipeCap]
  /\ open \in [Processes -> SUBSET (Requests \X Ends)]

(* The relay loop (server_http.h:520-521) ends exactly when the program    *)
(* has: nothing it wrote stays behind in the pipe, and the waitpid after   *)
(* it finds a zombie to reap and never blocks.                             *)
EofMeansFinished ==
  \A r \in Requests : pc[r] \in {"close_pipes", "wait"} =>
    child[r] = "zombie" /\ todo[r] = 0 /\ output[r] = 0

(* A request leaves neither its socket nor a pipe end open in the server   *)
(* process, whichever other requests forked in between, and when all are   *)
(* done and reaped no process has anything open.                           *)
NoEndLeaks ==
  /\ \A r \in Requests : pc[r] = "done" => \A e \in Ends : <<r, e>> \notin open[Server]
  /\ (\A r \in Requests : pc[r] = "done") => \A p \in Processes : open[p] = {}

(* A program never loses the reader of its output: the only SIGPIPEs are   *)
(* those of the server process.                                            *)
OutputHasReader ==
  \A r \in Requests : child[r] \in {"redirected", "exec", "program"} =>
    Server \in Holders(r, "out_read")

(* What a CGI request ends the server process by: accept() or              *)
(* pthread_create() failing for it (server_http.cpp:31-35, 43-47), its     *)
(* visit to the book, fork() failing (server_http.h:462), a client that    *)
(* has left (427-439, 521), or a program that ended before it was given    *)
(* its whole body (516); never an end that another request has closed.     *)
DiesForAReason ==
  [][alive /\ ~alive' =>
       \E r \in Requests :
         \/ pc[r] \in {"new", "start", "fork"}
         \/ pc[r] \in {"headers", "relay"} /\ r \in gone
         \/ pc[r] = "body" /\ child[r] = "zombie"]_vars

(* r's own thread waits, or one whose program has inherited an end or the  *)
(* socket of r.                                                            *)
HeldUp(r) ==
  \E s \in Requests : Waits(s) /\ (s = r \/ \E e \in Ends : <<r, e>> \in open[s])

(* Every CGI request is answered to the end, unless the process dies or it *)
(* is held up for good: no cycle of threads and children waits for ever on *)
(* pipe ends inherited from one another without a client that keeps silent *)
(* (server_http.h:206, 515, 521) or a body that does not fit into its pipe *)
(* and is not read (516).                                                  *)
AllServed ==
  \A r \in Requests : pc[r] # "new" ~> (pc[r] = "done" \/ ~alive \/ []HeldUp(r))

(* The close at server_http.h:652 ends the answer (it has no length): the  *)
(* client sees it as soon as the programs that were started meanwhile, and *)
(* inherited the socket, have ended.                                       *)
HungUp ==
  \A r \in Requests : pc[r] = "done" ~> (Holders(r, "sock") = {} \/ ~alive \/ []HeldUp(r))

(* Every child that has ended is reaped, unless the process dies or the    *)
(* thread that would reap it is held up for good.                          *)
ZombiesReaped ==
  \A r \in Requests : child[r] = "zombie" ~> (child[r] = "reaped" \/ ~alive \/ []HeldUp(r))

(* waitpid is there so that no zombie is left (server_http.h:526).         *)
NoZombieLeft ==
  \A r \in Requests : child[r] = "zombie" ~> (child[r] = "reaped" \/ ~alive \/ silent # {})

=============================================================================
