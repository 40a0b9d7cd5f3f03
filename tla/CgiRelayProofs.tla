--------------------------- MODULE CgiRelayProofs ---------------------------
(***************************************************************************)
(* Proofs about CgiRelay, for any number of concurrent requests, any       *)
(* capacity and any amount of output.                                      *)
(***************************************************************************)
EXTENDS CgiRelay, TLAPS

(* A child exists from the fork of its request on.                         *)
Forked ==
  \A r \in Requests : child[r] = "none" <=>
    pc[r] \in {"new", "start", "headers", "input", "output", "fork"}

(* Who has which ends: a child keeps its own side of both pipes until it   *)
(* exits and has nothing open after that.                                  *)
ChildHolds(r) ==
  /\ child[r] \in {"forked", "redirected", "exec", "program"} =>
       <<r, "in_read">> \in open[r] /\ <<r, "out_write">> \in open[r]
  /\ child[r] \in {"none", "zombie", "reaped"} => open[r] = {}

(* The server has an end from the call that opens it to the close that     *)
(* the thread of its request makes, and not after.                         *)
ServerHolds(r) ==
  /\ pc[r] \in {"fork", "close_in", "close_out", "body", "relay", "close_pipes"} =>
       <<r, "out_read">> \in open[Server]
  /\ pc[r] = "fork" => <<r, "in_read">> \in open[Server] /\ <<r, "out_write">> \in open[Server]
  /\ pc[r] = "output" => <<r, "in_read">> \in open[Server]
  /\ pc[r] \in {"close_out", "body", "relay", "close_pipes", "wait", "close", "done"} =>
       <<r, "in_read">> \notin open[Server]
  /\ pc[r] \in {"body", "relay", "close_pipes", "wait", "close", "done"} =>
       <<r, "out_write">> \notin open[Server]
  /\ pc[r] \in {"wait", "close", "done"} =>
       <<r, "in_write">> \notin open[Server] /\ <<r, "out_read">> \notin open[Server]
  /\ pc[r] = "done" => <<r, "sock">> \notin open[Server]

EndsHeld == \A r \in Requests : ChildHolds(r) /\ ServerHolds(r)

(* What an ended child leaves, and when it is reaped.                      *)
Ended ==
  \A r \in Requests :
    /\ child[r] \in {"zombie", "reaped"} => todo[r] = 0
    /\ child[r] = "reaped" <=> pc[r] \in {"close", "done"}

(* Where threads and children are, without the descriptors.                *)
Progress == Forked /\ Ended /\ EofMeansFinished

IInv == TypeOK /\ Progress /\ EndsHeld

LEMMA InitIInv == Init => IInv
<1> SUFFICES ASSUME Init PROVE IInv
  OBVIOUS
<1>1. TypeOK
  BY BoundsAssumption DEF Init, TypeOK
<1>2. Progress
  BY DEF Init, Progress, Forked, Ended, EofMeansFinished
<1>3. EndsHeld
  BY RequestsAssumption DEF Init, EndsHeld, ChildHolds, ServerHolds, Processes
<1> QED
  BY <1>1, <1>2, <1>3 DEF IInv

LEMMA ProcessesApart ==
  /\ Server \in Processes /\ Requests \subseteq Processes
  /\ \A r \in Requests : r # Server
  /\ {"sock", "in_read", "in_write", "out_read", "out_write"} = Ends
  BY RequestsAssumption DEF Processes, Ends

(* What pipe(), accept() and close() do to the table of open ends, end by  *)
(* end.                                                                    *)
LEMMA OpenedEffect ==
  ASSUME TypeOK, NEW p \in Processes, NEW r \in Requests, NEW ends \in SUBSET Ends,
         Opened(p, r, ends)
  PROVE  /\ open' \in [Processes -> SUBSET (Requests \X Ends)]
         /\ \A q \in Processes, s \in Requests, e \in Ends :
              <<s, e>> \in open'[q] <=> <<s, e>> \in open[q] \/ (q = p /\ s = r /\ e \in ends)
         /\ \A q \in Processes \ {p} : open'[q] = open[q]
  BY DEF TypeOK, Opened

LEMMA ClosedEffect ==
  ASSUME TypeOK, NEW p \in Processes, NEW r \in Requests, NEW ends \in SUBSET Ends,
         Closed(p, r, ends)
  PROVE  /\ open' \in [Processes -> SUBSET (Requests \X Ends)]
         /\ \A q \in Processes, s \in Requests, e \in Ends :
              <<s, e>> \in open'[q] <=> <<s, e>> \in open[q] /\ ~(q = p /\ s = r /\ e \in ends)
         /\ \A q \in Processes \ {p} : open'[q] = open[q]
  BY DEF TypeOK, Closed

(* The descriptors of the other requests, in the server and in their       *)
(* children, are as they were: an action of r keeps what is held of them.  *)
LEMMA OthersKeep ==
  ASSUME NEW r \in Requests, NEW s \in Requests, ChildHolds(s), ServerHolds(s),
         pc'[s] = pc[s], child'[s] = child[s], open'[s] = open[s],
         \A e \in Ends : <<s, e>> \in open'[Server] <=> <<s, e>> \in open[Server]
  PROVE  ChildHolds(s)' /\ ServerHolds(s)'
  BY ProcessesApart DEF ChildHolds, ServerHolds

(* A step of the thread of r that opens or closes ends of r in the server. *)
ServerStep(r, call, ends, from, to) ==
  /\ IF call = "open" THEN Opened(Server, r, ends) ELSE Closed(Server, r, ends)
  /\ pc[r] = from /\ pc' = [pc EXCEPT ![r] = to]
  /\ UNCHANGED <<alive, gone, silent, left, child, todo, input, output>>

(* Each of the calls around exec_cgi and in it that opens or closes ends.   *)
ServerCall(call, ends, from, to) ==
  \/ call = "open"  /\ ends = {"sock"} /\ from = "new" /\ to = "start"
  \/ call = "open"  /\ ends = {"in_read", "in_write"} /\ from = "input" /\ to = "output"
  \/ call = "open"  /\ ends = {"out_read", "out_write"} /\ from = "output" /\ to = "fork"
  \/ call = "close" /\ ends = {"in_read"} /\ from = "close_in" /\ to = "close_out"
  \/ call = "close" /\ ends = {"out_write"} /\ from = "close_out" /\ to \in {"body", "relay"}
  \/ call = "close" /\ ends = {"in_write", "out_read"} /\ from = "close_pipes" /\ to = "wait"
  \/ call = "close" /\ ends = {"sock"} /\ from = "close" /\ to = "done"

LEMMA ServerStepIInv ==
  ASSUME IInv, NEW r \in Requests, NEW call, NEW ends, NEW from, NEW to,
         ServerCall(call, ends, from, to), ServerStep(r, call, ends, from, to)
  PROVE  IInv'
<1>1. ends \in SUBSET Ends /\ call \in {"open", "close"}
  BY ProcessesApart DEF ServerCall
<1>2. to \in {"start", "output", "fork", "close_out", "body", "relay", "wait", "done"}
  BY DEF ServerCall
<1>3. /\ TypeOK'
      /\ pc[r] = from /\ pc'[r] = to
      /\ \A s \in Requests \ {r} : pc'[s] = pc[s]
      /\ UNCHANGED <<child, todo, output>>
      /\ \A s \in Requests : open'[s] = open[s]
      /\ \A s \in Requests, e \in Ends :
           <<s, e>> \in open'[Server] <=>
             \/ s = r /\ e \in ends /\ call = "open"
             \/ ~(s = r /\ e \in ends) /\ <<s, e>> \in open[Server]
  <2> USE ProcessesApart, <1>1, <1>2
  <2>0. TypeOK
    BY DEF IInv
  <2>1. CASE call = "open"
    <3>1. Opened(Server, r, ends)
      BY <2>1 DEF ServerStep
    <3>2. /\ open' \in [Processes -> SUBSET (Requests \X Ends)]
          /\ \A q \in Processes, s \in Requests, e \in Ends :
               <<s, e>> \in open'[q] <=> <<s, e>> \in open[q] \/ (q = Server /\ s = r /\ e \in ends)
          /\ \A q \in Processes \ {Server} : open'[q] = open[q]
      BY <2>0, <3>1, OpenedEffect
    <3>3. TypeOK'
      BY <2>0, <3>2 DEF TypeOK, ServerStep
    <3>4. /\ pc[r] = from /\ pc'[r] = to /\ UNCHANGED <<child, todo, output>>
          /\ \A s \in Requests \ {r} : pc'[s] = pc[s]
      BY <2>0 DEF TypeOK, ServerStep
    <3> QED
      BY <2>1, <3>2, <3>3, <3>4
  <2>2. CASE call = "close"
    <3>1. Closed(Server, r, ends)
      BY <2>2 DEF ServerStep
    <3>2. /\ open' \in [Processes -> SUBSET (Requests \X Ends)]
          /\ \A q \in Processes, s \in Requests, e \in Ends :
               <<s, e>> \in open'[q] <=> <<s, e>> \in open[q] /\ ~(q = Server /\ s = r /\ e \in ends)
          /\ \A q \in Processes \ {Server} : open'[q] = open[q]
      BY <2>0, <3>1, ClosedEffect
    <3>3. TypeOK'
      BY <2>0, <3>2 DEF TypeOK, ServerStep
    <3>4. /\ pc[r] = from /\ pc'[r] = to /\ UNCHANGED <<child, todo, output>>
          /\ \A s \in Requests \ {r} : pc'[s] = pc[s]
      BY <2>0 DEF TypeOK, ServerStep
    <3> QED
      BY <2>2, <3>2, <3>3, <3>4
  <2> QED
    BY <2>1, <2>2
<1>4. Progress'
  BY <1>3 DEF IInv, Progress, Forked, Ended, EofMeansFinished, ServerCall
<1>5. ASSUME NEW s \in Requests
      PROVE  ChildHolds(s)' /\ ServerHolds(s)'
  <2>1. ChildHolds(s) /\ ServerHolds(s)
    BY DEF IInv, EndsHeld
  <2>2. CASE s # r
    BY <1>3, <2>1, <2>2, OthersKeep
  <2>3. CASE s = r
    <3>1. ChildHolds(s)'
      BY <1>3, <2>1 DEF ChildHolds
    <3>2. \A e \in {"sock", "in_read", "in_write", "out_read", "out_write"} :
            <<s, e>> \in open'[Server] <=>
              \/ e \in ends /\ call = "open"
              \/ e \notin ends /\ <<s, e>> \in open[Server]
      BY <1>3, <2>3, ProcessesApart
    <3>3. ServerHolds(s)'
      BY <1>3, <2>1, <2>3, <3>2 DEF ServerHolds, ServerCall
    <3> QED
      BY <3>1, <3>3
  <2> QED
    BY <2>2, <2>3
<1> QED
  BY <1>3, <1>4, <1>5 DEF IInv, EndsHeld

(* A step that leaves the descriptors alone, and the thread and the child  *)
(* of every request where they hold the same ends.                         *)
LEMMA SameEnds ==
  ASSUME IInv, UNCHANGED open, NEW r \in Requests,
         \A s \in Requests \ {r} : pc'[s] = pc[s] /\ child'[s] = child[s],
         \/ child'[r] = child[r]
         \/ child[r] \in {"redirected", "exec"} /\ child'[r] \in {"exec", "program"}
         \/ child[r] = "zombie" /\ child'[r] = "reaped",
         \/ pc'[r] = pc[r]
         \/ pc[r] = "start" /\ pc'[r] = "headers"
         \/ pc[r] = "headers" /\ pc'[r] = "input"
         \/ pc[r] = "body" /\ pc'[r] = "relay"
         \/ pc[r] = "relay" /\ pc'[r] = "close_pipes"
         \/ pc[r] = "wait" /\ pc'[r] = "close"
  PROVE  EndsHeld'
<1> SUFFICES ASSUME NEW s \in Requests
             PROVE  ChildHolds(s)' /\ ServerHolds(s)'
  BY DEF EndsHeld
<1>1. ChildHolds(s) /\ ServerHolds(s)
  BY DEF IInv, EndsHeld
<1>2. CASE s # r
  BY <1>1, <1>2, OthersKeep
<1>3. CASE s = r
  <2>1. ChildHolds(s)'
    BY <1>1, <1>3 DEF ChildHolds
  <2>2. ServerHolds(s)'
    BY <1>1, <1>3 DEF ServerHolds
  <2> QED
    BY <2>1, <2>2
<1> QED
  BY <1>2, <1>3


(* A step that leaves the descriptors alone has to keep the rest.          *)
LEMMA QuietStep ==
  ASSUME IInv, NEW r \in Requests,
         \/ RelayBody(r) \/ BodyRefused(r) \/ BodyDone(r) \/ RelayOutput(r) \/ EndOfOutput(r)
         \/ WaitPid(r) \/ ChildLogs(r) \/ Exec(r) \/ ProgramWrites(r) \/ ProgramReads(r)
         \/ ForkFails(r) \/ OutputRefused(r) \/ Disconnect(r) \/ Stall(r)
         \/ AcceptFails(r) \/ ReadHead(r) \/ BookAborts(r) \/ SendHeaders(r) \/ HeadersRefused(r)
  PROVE  IInv'
<1> USE DEF pipes
<1>0. TypeOK /\ Progress
  BY DEF IInv
<1>1. CASE RelayBody(r) \/ RelayOutput(r)
  <2>1. TypeOK'
    BY <1>0, <1>1, BoundsAssumption DEF TypeOK, RelayBody, RelayOutput
  <2>2. Progress'
    BY <1>0, <1>1 DEF TypeOK, Progress, Forked, Ended, EofMeansFinished, RelayBody, RelayOutput
  <2>3. EndsHeld'
    BY <1>1, SameEnds DEF RelayBody, RelayOutput
  <2> QED
    BY <2>1, <2>2, <2>3 DEF IInv
<1>2. CASE \/ BodyRefused(r) \/ ForkFails(r) \/ OutputRefused(r) \/ Disconnect(r) \/ Stall(r)
           \/ AcceptFails(r) \/ BookAborts(r) \/ HeadersRefused(r)
  <2>1. UNCHANGED <<pc, left, child, todo, input, output, open>>
    BY <1>2 DEF BodyRefused, ForkFails, OutputRefused, Disconnect, Stall,
         AcceptFails, BookAborts, HeadersRefused
  <2>2. /\ alive' \in BOOLEAN
        /\ gone' \subseteq Requests /\ silent' \subseteq Requests
    BY <1>0, <1>2 DEF TypeOK, BodyRefused, ForkFails, OutputRefused, Disconnect, Stall,
         AcceptFails, BookAborts, HeadersRefused
  <2>3. TypeOK'
    BY <1>0, <2>1, <2>2 DEF TypeOK
  <2>4. Progress'
    BY <1>0, <2>1 DEF Progress, Forked, Ended, EofMeansFinished
  <2>5. EndsHeld'
    BY <2>1, SameEnds
  <2> QED
    BY <2>3, <2>4, <2>5 DEF IInv
<1>3. CASE BodyDone(r)
  <2>1. /\ pc[r] = "body" /\ pc' = [pc EXCEPT ![r] = "relay"]
        /\ UNCHANGED <<alive, gone, silent, left, child, todo, input, output, open>>
    BY <1>3 DEF BodyDone, Goto
  <2>2. TypeOK'
    BY <1>0, <2>1 DEF TypeOK
  <2>3. pc'[r] = "relay" /\ \A s \in Requests \ {r} : pc'[s] = pc[s]
    BY <1>0, <2>1 DEF TypeOK
  <2>4. Progress'
    BY <1>0, <2>1, <2>3 DEF Progress, Forked, Ended, EofMeansFinished
  <2>5. EndsHeld'
    BY <2>1, <2>3, SameEnds
  <2> QED
    BY <2>2, <2>4, <2>5 DEF IInv
<1>4. CASE EndOfOutput(r)
  <2>1. /\ pc[r] = "relay" /\ pc' = [pc EXCEPT ![r] = "close_pipes"]
        /\ output[r] = 0 /\ <<r, "out_write">> \notin open[r]
        /\ UNCHANGED <<alive, gone, silent, left, child, todo, input, output, open>>
    BY <1>4, ProcessesApart DEF EndOfOutput, Goto, Holders
  <2>2. TypeOK'
    BY <1>0, <2>1 DEF TypeOK
  <2>3. pc'[r] = "close_pipes" /\ \A s \in Requests \ {r} : pc'[s] = pc[s]
    BY <1>0, <2>1 DEF TypeOK
  <2>4. child[r] = "zombie"
    <3>1. child[r] \notin {"none", "reaped"}
      BY <1>0, <2>1 DEF Progress, Forked, Ended
    <3>2. child[r] \notin {"forked", "redirected", "exec", "program"}
      BY <2>1 DEF IInv, EndsHeld, ChildHolds
    <3> QED
      BY <1>0, <3>1, <3>2 DEF TypeOK
  <2>5. Progress'
    BY <1>0, <2>1, <2>3, <2>4 DEF Progress, Forked, Ended, EofMeansFinished
  <2>6. EndsHeld'
    BY <2>1, <2>3, SameEnds
  <2> QED
    BY <2>2, <2>5, <2>6 DEF IInv
<1>5. CASE WaitPid(r)
  <2>1. /\ pc[r] = "wait" /\ pc' = [pc EXCEPT ![r] = "close"]
        /\ child[r] = "zombie" /\ child' = [child EXCEPT ![r] = "reaped"]
        /\ UNCHANGED <<alive, gone, silent, left, todo, input, output, open>>
    BY <1>5 DEF WaitPid, Goto, Becomes
  <2>2. TypeOK'
    BY <1>0, <2>1 DEF TypeOK
  <2>3. /\ pc'[r] = "close" /\ \A s \in Requests \ {r} : pc'[s] = pc[s]
        /\ child'[r] = "reaped" /\ \A s \in Requests \ {r} : child'[s] = child[s]
    BY <1>0, <2>1 DEF TypeOK
  <2>4. Progress'
    BY <1>0, <2>1, <2>3 DEF Progress, Forked, Ended, EofMeansFinished
  <2>5. EndsHeld'
    BY <2>1, <2>3, SameEnds
  <2> QED
    BY <2>2, <2>4, <2>5 DEF IInv
<1>6. CASE ChildLogs(r) \/ Exec(r)
  <2>1. /\ child[r] \in {"redirected", "exec"}
        /\ child' = [child EXCEPT ![r] = IF ChildLogs(r) THEN "exec" ELSE "program"]
        /\ UNCHANGED <<alive, gone, silent, pc, left, input, open>>
    BY <1>6 DEF ChildLogs, Exec, Becomes
  <2>2. TypeOK'
    BY <1>0, <1>6, <2>1, BoundsAssumption DEF TypeOK, ChildLogs, Exec
  <2>3. child'[r] \in {"exec", "program"} /\ \A s \in Requests \ {r} : child'[s] = child[s]
    BY <1>0, <2>1 DEF TypeOK
  <2>4. \A s \in Requests \ {r} : todo'[s] = todo[s] /\ output'[s] = output[s]
    BY <1>0, <1>6 DEF TypeOK, ChildLogs, Exec
  <2>5. Progress'
    BY <1>0, <2>1, <2>3, <2>4 DEF Progress, Forked, Ended, EofMeansFinished
  <2>6. EndsHeld'
    BY <2>1, <2>3, SameEnds
  <2> QED
    BY <2>2, <2>5, <2>6 DEF IInv
<1>7. CASE ProgramWrites(r) \/ ProgramReads(r)
  <2>1. child[r] = "program" /\ UNCHANGED <<alive, gone, silent, pc, left, child, open>>
    BY <1>7 DEF ProgramWrites, ProgramReads
  <2>2. TypeOK'
    BY <1>0, <1>7, BoundsAssumption DEF TypeOK, ProgramWrites, ProgramReads
  <2>3. \A s \in Requests \ {r} : todo'[s] = todo[s] /\ output'[s] = output[s]
    BY <1>0, <1>7 DEF TypeOK, ProgramWrites, ProgramReads
  <2>4. Progress'
    BY <1>0, <2>1, <2>3 DEF Progress, Forked, Ended, EofMeansFinished
  <2>5. EndsHeld'
    BY <2>1, SameEnds
  <2> QED
    BY <2>2, <2>4, <2>5 DEF IInv
<1>8. CASE ReadHead(r) \/ SendHeaders(r)
  <2> DEFINE to == IF pc[r] = "start" THEN "headers" ELSE "input"
  <2>1. /\ pc[r] \in {"start", "headers"} /\ pc' = [pc EXCEPT ![r] = to]
        /\ UNCHANGED <<alive, gone, silent, left, child, todo, input, output, open>>
    BY <1>8 DEF ReadHead, SendHeaders, Goto
  <2>2. TypeOK'
    BY <1>0, <2>1 DEF TypeOK
  <2>3. pc'[r] = to /\ \A s \in Requests \ {r} : pc'[s] = pc[s]
    BY <1>0, <2>1 DEF TypeOK
  <2>4. Progress'
    BY <1>0, <2>1, <2>3 DEF Progress, Forked, Ended, EofMeansFinished
  <2>5. EndsHeld'
    BY <2>1, <2>3, SameEnds
  <2> QED
    BY <2>2, <2>4, <2>5 DEF IInv
<1> QED
  BY <1>1, <1>2, <1>3, <1>4, <1>5, <1>6, <1>7, <1>8

(* The three steps that change what a child has open.                      *)
LEMMA ChildStep ==
  ASSUME IInv, NEW r \in Requests, Fork(r) \/ ChildCloses(r) \/ ProgramExits(r)
  PROVE  IInv'
<1>0. TypeOK /\ Progress /\ ChildHolds(r) /\ ServerHolds(r)
  BY DEF IInv, EndsHeld
<1>1. /\ \A s \in Requests \ {r} : pc'[s] = pc[s] /\ child'[s] = child[s] /\ open'[s] = open[s]
      /\ open'[Server] = open[Server]
      /\ UNCHANGED <<alive, gone, silent, left, todo, input, output>>
  BY <1>0, ProcessesApart DEF TypeOK, Fork, ChildCloses, ProgramExits, Goto, Becomes, Closed
<1>2. CASE Fork(r)
  <2>1. /\ pc[r] = "fork" /\ pc'[r] = "close_in" /\ child'[r] = "forked"
        /\ open'[r] = open[Server]
    BY <1>0, <1>2, ProcessesApart DEF TypeOK, Fork, Goto, Becomes
  <2>2. TypeOK'
    BY <1>0, <1>2, ProcessesApart DEF TypeOK, Fork, Goto, Becomes
  <2>3. Progress'
    BY <1>0, <1>1, <2>1 DEF Progress, Forked, Ended, EofMeansFinished
  <2>4. ChildHolds(r)' /\ ServerHolds(r)'
    BY <1>0, <1>1, <2>1 DEF ChildHolds, ServerHolds
  <2> QED
    BY <2>2, <2>3, <2>4, <1>1, OthersKeep DEF IInv, EndsHeld
<1>3. CASE ChildCloses(r)
  <2>1. /\ pc'[r] = pc[r] /\ child[r] = "forked" /\ child'[r] = "redirected"
        /\ open'[r] = open[r] \ ({r} \X {"in_write", "out_read"})
    BY <1>0, <1>3, ProcessesApart DEF TypeOK, ChildCloses, Becomes, Closed
  <2>2. TypeOK'
    BY <1>0, <1>3, ProcessesApart DEF TypeOK, ChildCloses, Becomes, Closed
  <2>3. Progress'
    BY <1>0, <1>1, <2>1 DEF Progress, Forked, Ended, EofMeansFinished
  <2>4. ChildHolds(r)' /\ ServerHolds(r)'
    BY <1>0, <1>1, <2>1 DEF ChildHolds, ServerHolds
  <2> QED
    BY <2>2, <2>3, <2>4, <1>1, OthersKeep DEF IInv, EndsHeld
<1>4. CASE ProgramExits(r)
  <2>1. /\ pc'[r] = pc[r] /\ child[r] = "program" /\ child'[r] = "zombie"
        /\ todo[r] = 0 /\ open'[r] = {}
    BY <1>0, <1>4, ProcessesApart DEF TypeOK, ProgramExits, Becomes
  <2>2. TypeOK'
    BY <1>0, <1>4, ProcessesApart DEF TypeOK, ProgramExits, Becomes
  <2>3. Progress'
    BY <1>0, <1>1, <2>1 DEF Progress, Forked, Ended, EofMeansFinished
  <2>4. ChildHolds(r)' /\ ServerHolds(r)'
    BY <1>0, <1>1, <2>1 DEF ChildHolds, ServerHolds
  <2> QED
    BY <2>2, <2>3, <2>4, <1>1, OthersKeep DEF IInv, EndsHeld
<1> QED
  BY <1>2, <1>3, <1>4

(* The steps that open or close something in the server are ServerSteps.   *)
LEMMA EndStep ==
  ASSUME IInv, NEW r \in Requests,
         \/ Accept(r) \/ OpenInput(r) \/ OpenOutput(r) \/ CloseInRead(r)
         \/ CloseOutWrite(r) \/ ClosePipes(r) \/ CloseSocket(r)
  PROVE  IInv'
<1> USE DEF Goto, ServerStep, ServerCall
<1>1. CASE Accept(r)
  <2>1. ServerStep(r, "open", {"sock"}, "new", "start")
    BY <1>1 DEF Accept
  <2> QED
    BY <2>1, ServerStepIInv DEF ServerCall
<1>2. CASE OpenInput(r)
  <2>1. ServerStep(r, "open", {"in_read", "in_write"}, "input", "output")
    BY <1>2 DEF OpenInput
  <2> QED
    BY <2>1, ServerStepIInv
<1>3. CASE OpenOutput(r)
  <2>1. ServerStep(r, "open", {"out_read", "out_write"}, "output", "fork")
    BY <1>3 DEF OpenOutput
  <2> QED
    BY <2>1, ServerStepIInv
<1>4. CASE CloseInRead(r)
  <2>1. ServerStep(r, "close", {"in_read"}, "close_in", "close_out")
    BY <1>4 DEF CloseInRead
  <2> QED
    BY <2>1, ServerStepIInv
<1>5. CASE CloseOutWrite(r)
  <2>1. ServerStep(r, "close", {"out_write"}, "close_out", IF r \in Posts THEN "body" ELSE "relay")
    BY <1>5 DEF CloseOutWrite
  <2> QED
    BY <2>1, ServerStepIInv
<1>6. CASE ClosePipes(r)
  <2>1. ServerStep(r, "close", {"in_write", "out_read"}, "close_pipes", "wait")
    BY <1>6 DEF ClosePipes
  <2> QED
    BY <2>1, ServerStepIInv
<1>7. CASE CloseSocket(r)
  <2>1. ServerStep(r, "close", {"sock"}, "close", "done")
    BY <1>7 DEF CloseSocket
  <2> QED
    BY <2>1, ServerStepIInv
<1> QED
  BY <1>1, <1>2, <1>3, <1>4, <1>5, <1>6, <1>7

LEMMA StepIInv == IInv /\ [Next]_vars => IInv'
<1> SUFFICES ASSUME IInv, [Next]_vars PROVE IInv'
  OBVIOUS
<1>1. ASSUME NEW r \in Requests, Thread(r) \/ Child(r) \/ Outside(r)
      PROVE  IInv'
  <2>1. \/ Accept(r) \/ OpenInput(r) \/ OpenOutput(r) \/ CloseInRead(r)
        \/ CloseOutWrite(r) \/ ClosePipes(r) \/ CloseSocket(r)
        \/ Fork(r) \/ ChildCloses(r) \/ ProgramExits(r)
        \/ RelayBody(r) \/ BodyRefused(r) \/ BodyDone(r) \/ RelayOutput(r) \/ EndOfOutput(r)
        \/ WaitPid(r) \/ ChildLogs(r) \/ Exec(r) \/ ProgramWrites(r) \/ ProgramReads(r)
        \/ ForkFails(r) \/ OutputRefused(r) \/ Disconnect(r) \/ Stall(r)
        \/ AcceptFails(r) \/ ReadHead(r) \/ BookAborts(r) \/ SendHeaders(r) \/ HeadersRefused(r)
    BY <1>1 DEF Thread, Child, Outside
  <2> QED
    BY <2>1, EndStep, ChildStep, QuietStep
<1>2. CASE UNCHANGED vars
  <2>1. TypeOK' /\ Progress'
    BY <1>2 DEF IInv, vars, pipes, TypeOK, Progress, Forked, Ended, EofMeansFinished
  <2>2. EndsHeld'
    BY <1>2 DEF IInv, vars, pipes, EndsHeld, ChildHolds, ServerHolds
  <2> QED
    BY <2>1, <2>2 DEF IInv
<1> QED
  BY <1>1, <1>2 DEF Next, Over

LEMMA IInvAlways == Spec => []IInv
  BY InitIInv, StepIInv, PTL DEF Spec

(* The types hold; in particular no pipe holds more than its capacity.     *)
THEOREM TypeCorrect == Spec => []TypeOK
<1>1. IInv => TypeOK
  BY DEF IInv
<1> QED
  BY <1>1, IInvAlways, PTL

(* When the relay loop ends, the program has ended and nothing it wrote is *)
(* left in the pipe, so the waitpid that follows never blocks.             *)
THEOREM EofMeansFinishedAlways == Spec => []EofMeansFinished
<1>1. IInv => EofMeansFinished
  BY DEF IInv, Progress
<1> QED
  BY <1>1, IInvAlways, PTL

(* The server process is a reader of a program's output as long as the     *)
(* program can write.                                                      *)
THEOREM OutputHasReaderAlways == Spec => []OutputHasReader
<1>1. IInv => OutputHasReader
  <2> SUFFICES ASSUME IInv, NEW r \in Requests, child[r] \in {"redirected", "exec", "program"}
               PROVE  Server \in Processes /\ <<r, "out_read">> \in open[Server]
    BY DEF OutputHasReader, Holders
  <2>1. pc[r] \in {"close_in", "close_out", "body", "relay"}
    BY DEF IInv, TypeOK, Progress, Forked, Ended, EofMeansFinished
  <2> QED
    BY <2>1, ProcessesApart DEF IInv, EndsHeld, ServerHolds
<1> QED
  BY <1>1, IInvAlways, PTL

(* A finished request leaves neither its socket nor a pipe end open in the *)
(* server, and once every request is finished no process has one.          *)
THEOREM NoEndLeaksAlways == Spec => []NoEndLeaks
<1>1. IInv => NoEndLeaks
  <2> SUFFICES ASSUME IInv PROVE NoEndLeaks
    OBVIOUS
  <2>1. \A r \in Requests : pc[r] = "done" => \A e \in Ends : <<r, e>> \notin open[Server]
    BY DEF IInv, EndsHeld, ServerHolds, Ends
  <2>2. ASSUME \A r \in Requests : pc[r] = "done", NEW p \in Processes
        PROVE  open[p] = {}
    <3>1. CASE p \in Requests
      <4>1. child[p] = "reaped"
        BY <2>2, <3>1 DEF IInv, Progress, Ended
      <4> QED
        BY <4>1, <3>1 DEF IInv, EndsHeld, ChildHolds
    <3>2. CASE p = Server
      BY <2>1, <2>2, <3>2 DEF IInv, TypeOK
    <3> QED
      BY <3>1, <3>2 DEF Processes
  <2> QED
    BY <2>1, <2>2 DEF NoEndLeaks
<1> QED
  BY <1>1, IInvAlways, PTL

(* The server process ends for the reasons DiesForAReason lists and never  *)
(* through an end that another thread closed: a program that has lost the  *)
(* last reader of its input has ended itself.                              *)
THEOREM DiesForAReasonAlways == Spec => DiesForAReason
<1> DEFINE Reason == \E r \in Requests :
                       \/ pc[r] \in {"new", "start", "fork"}
                       \/ pc[r] \in {"headers", "relay"} /\ r \in gone
                       \/ pc[r] = "body" /\ child[r] = "zombie"
<1>1. ASSUME IInv, Next, alive, ~alive'
      PROVE  Reason
  <2>1. PICK r \in Requests : \/ BodyRefused(r) \/ ForkFails(r) \/ OutputRefused(r)
                             \/ AcceptFails(r) \/ BookAborts(r) \/ HeadersRefused(r)
    <3>1. ~Over
      BY <1>1 DEF Over, vars
    <3>2. PICK r \in Requests : Thread(r) \/ Child(r) \/ Outside(r)
      BY <1>1, <3>1 DEF Next
    <3>3. \/ BodyRefused(r) \/ ForkFails(r) \/ OutputRefused(r)
          \/ AcceptFails(r) \/ BookAborts(r) \/ HeadersRefused(r)
          \/ alive' = alive
      BY <3>2 DEF Thread, Child, Outside, Accept, ReadHead, SendHeaders, OpenInput, OpenOutput,
           CloseInRead, CloseOutWrite, ClosePipes, CloseSocket, Fork, ChildCloses, ProgramExits,
           RelayBody, BodyDone, RelayOutput, EndOfOutput, WaitPid, ChildLogs, Exec,
           ProgramWrites, ProgramReads, Disconnect, Stall
    <3> QED
      BY <1>1, <3>3
  <2>2. CASE BodyRefused(r)
    <3>1. pc[r] = "body" /\ <<r, "in_read">> \notin open[r]
      BY <2>2, ProcessesApart DEF BodyRefused, Holders
    <3>2. child[r] \notin {"forked", "redirected", "exec", "program"}
      BY <1>1, <3>1 DEF IInv, EndsHeld, ChildHolds
    <3>3. child[r] = "zombie"
      BY <1>1, <3>1, <3>2 DEF IInv, TypeOK, Progress, Forked, Ended
    <3> QED
      BY <3>1, <3>3
  <2>3. CASE ForkFails(r) \/ AcceptFails(r) \/ BookAborts(r)
    BY <2>3 DEF ForkFails, AcceptFails, BookAborts
  <2>4. CASE OutputRefused(r) \/ HeadersRefused(r)
    BY <2>4 DEF OutputRefused, HeadersRefused
  <2> QED
    BY <2>1, <2>2, <2>3, <2>4
<1>2. IInv /\ [Next]_vars => [alive /\ ~alive' => Reason]_vars
  BY <1>1
<1> QED
  BY <1>2, IInvAlways, PTL DEF Spec, DiesForAReason

=============================================================================
