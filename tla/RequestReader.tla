--------------------------- MODULE RequestReader ---------------------------
(***************************************************************************)
(* How server/server_http.h takes a request off its socket, one byte at a  *)
(* time: get_line for the request line in Accept, then get_line again      *)
(* until a blank line in exec_get_file, clear_head or exec_cgi.            *)
(*                                                                         *)
(* Of a byte only what get_line distinguishes is kept: "\r", "\n", "\0",   *)
(* or any other byte, which is "x" in the head of the request and "b" in   *)
(* its body.  Of buf only the index i and the trailing "\n" are kept.      *)
(***************************************************************************)
EXTENDS Integers, Sequences, SequencesExt

CONSTANTS
  BufSize,   (* SIZE, what get_line is given                               *)
  Requests   (* what clients send: the lengths of the lines of the head,   *)
             (* the terminator of each line, the length of the body, and   *)
             (* whether the client closes its side after that              *)

Bytes == {"x", "b", "r", "n", "z"}

ASSUME BufSizeAssumption == BufSize \in Nat /\ BufSize > 1
ASSUME RequestsAssumption ==
  Requests \subseteq [lens : Seq(Nat), eol : Seq({"r", "n", "z"}) \ {<<>>},
                      body : Nat, closes : BOOLEAN]

VARIABLES
  request,   (* the request on this connection                             *)
  unread,    (* bytes sent and not yet received                            *)
  i, ch,     (* the locals of get_line                                     *)
  pc,        (* "recv" at the loop, "again" at the second recv, "end"      *)
  phase,     (* "line" and "head" while reading, "served" after            *)
  lines,     (* history: what get_line has returned                        *)
  top        (* history: the highest index of buf written to               *)

local == <<i, ch, pc>>
vars  == <<request, unread, local, phase, lines, top>>

-----------------------------------------------------------------------------

Repeat(byte, n) == [k \in 1..n |-> byte]

Stream(q) ==
  FlattenSeq([k \in 1..Len(q.lens) |-> Repeat("x", q.lens[k]) \o q.eol]) \o Repeat("b", q.body)

Terminators == {"z", "n", "r"}

WriteUpTo(index) == top' = IF index > top THEN index ELSE top

(* strcmp(buf, "\n") == 0.                                                 *)
Blank(line) == line.text = 0 /\ line.newline

(* A definition with an underscore in its name is not part of the          *)
(* specification: it is the one after it, made wrong in a plausible way.   *)
LastOfHead_EmptyString(line) == line.text = 0 /\ ~line.newline

(* What ends the loops over the head: num is 0 or the line is blank.       *)
LastOfHead(line) == (line.text = 0 /\ ~line.newline) \/ Blank(line)

BufferFull_Late == i = BufSize

BufferFull == i = BufSize - 1

Init ==
  /\ request \in Requests
  /\ unread = Stream(request)
  /\ i = 0 /\ ch = "z" /\ pc = "recv"
  /\ phase = "line"
  /\ lines = <<>> /\ top = 0

RecvByte_NoSecondRead ==
  /\ pc = "recv" /\ ~BufferFull /\ unread # <<>>
  /\ ch' = Head(unread) /\ unread' = Tail(unread)
  /\ IF ch' \in Terminators THEN pc' = "end" /\ UNCHANGED <<i, top>>
                            ELSE i' = i + 1 /\ WriteUpTo(i) /\ UNCHANGED pc
  /\ UNCHANGED <<request, phase, lines>>

RecvByte ==
  /\ pc = "recv" /\ ~BufferFull /\ unread # <<>>
  /\ ch' = Head(unread) /\ unread' = Tail(unread)
  /\ IF ch' \in Terminators THEN pc' = "again" /\ UNCHANGED <<i, top>>
                            ELSE i' = i + 1 /\ WriteUpTo(i) /\ UNCHANGED pc
  /\ UNCHANGED <<request, phase, lines>>

(* recv returns 0 at the end of the stream and leaves ch as it was: "\0"   *)
(* when nothing was read for this line, or the last byte of the line, and  *)
(* then the loop goes round without ever ending.                           *)
RecvNothing ==
  /\ pc = "recv" /\ ~BufferFull /\ unread = <<>> /\ request.closes
  /\ pc' = IF ch \in Terminators THEN "again" ELSE pc
  /\ UNCHANGED <<request, unread, i, ch, phase, lines, top>>

RecvFull ==
  /\ pc = "recv" /\ BufferFull
  /\ pc' = "end"
  /\ UNCHANGED <<request, unread, i, ch, phase, lines, top>>

(* The second recv after a terminator, whichever terminator it was.        *)
RecvAgain ==
  /\ pc = "again"
  /\ \/ /\ unread # <<>>
        /\ ch' = Head(unread) /\ unread' = Tail(unread)
     \/ unread = <<>> /\ request.closes /\ UNCHANGED <<ch, unread>>
  /\ pc' = "end"
  /\ UNCHANGED <<request, i, phase, lines, top>>

ReturnLine_KeepsIndex ==
  LET line == [text |-> i, newline |-> ch # "z"]
  IN  /\ pc = "end"
      /\ lines' = Append(lines, line)
      /\ WriteUpTo(IF line.newline THEN i + 1 ELSE i)
      /\ phase' = IF phase = "head" /\ LastOfHead(line) THEN "served" ELSE "head"
      /\ pc' = IF phase' = "served" THEN "end" ELSE "recv"
      /\ ch' = "z"
      /\ UNCHANGED <<request, unread, i>>

(* get_line returns and its caller goes on: Accept with the head, which is *)
(* read whatever the request line was, the loops over the head until they  *)
(* have seen its last line.                                                *)
ReturnLine ==
  LET line == [text |-> i, newline |-> ch # "z"]
  IN  /\ pc = "end"
      /\ lines' = Append(lines, line)
      /\ WriteUpTo(IF line.newline THEN i + 1 ELSE i)
      /\ phase' = IF phase = "head" /\ LastOfHead(line) THEN "served" ELSE "head"
      /\ pc' = IF phase' = "served" THEN "end" ELSE "recv"
      /\ i' = 0 /\ ch' = "z"
      /\ UNCHANGED <<request, unread>>

Blocked == unread = <<>> /\ ~request.closes /\ pc \in {"recv", "again"} /\ ~BufferFull

Idle == (phase = "served" \/ Blocked) /\ UNCHANGED vars

Reading == RecvByte \/ RecvNothing \/ RecvFull \/ RecvAgain \/ ReturnLine

Next == (phase # "served" /\ Reading) \/ Idle

Spec == Init /\ [][Next]_vars /\ WF_vars(phase # "served" /\ Reading)

-----------------------------------------------------------------------------

(* In particular get_line never writes further than one byte behind its    *)
(* buffer (server_http.h:224-225).                                         *)
TypeOK ==
  /\ request \in Requests /\ unread \in Seq(Bytes)
  /\ i \in 0..BufSize - 1 /\ ch \in Bytes
  /\ pc \in {"recv", "again", "end"} /\ phase \in {"line", "head", "served"}
  /\ lines \in Seq([text : 0..BufSize - 1, newline : BOOLEAN])
  /\ top \in 0..BufSize

(* Reference: how a line of the head falls into pieces of the buffer, the  *)
(* last of them empty when the length is a multiple of BufSize - 1.        *)
PiecesOf(len) ==
  [k \in 1..len \div (BufSize - 1) + 1 |->
     IF k <= len \div (BufSize - 1) THEN BufSize - 1 ELSE len % (BufSize - 1)]

Pieces == FlattenSeq([k \in 1..Len(request.lens) |-> PiecesOf(request.lens[k])])

CRLF == request.eol = <<"r", "n">>

(* Of lines that end in "\r\n" get_line returns every byte once, in order, *)
(* and one "\n" a piece (the comment at server_http.h:209).                *)
LinesArePieces ==
  CRLF => \A k \in 1..Len(lines) : k <= Len(Pieces) =>
            lines[k].text = Pieces[k] /\ lines[k].newline

(* The head ends at the first blank piece after the request line, no       *)
(* earlier and no later: that is the blank line only if no line before it  *)
(* is a multiple of BufSize - 1 long.                                      *)
HeadEndsAtBlank ==
  (CRLF /\ phase = "served") =>
    /\ \A k \in 2..Len(lines) - 1 : lines[k].text > 0
    /\ Len(lines) <= Len(Pieces) => Pieces[Len(lines)] = 0 /\ Len(lines) > 1

(* After a head of short lines the whole body, and only it, is left for    *)
(* the body loop of exec_cgi.                                              *)
ShortLines ==
  \A k \in 1..Len(request.lens) :
    request.lens[k] < BufSize - 1 /\ (k \in 2..Len(request.lens) - 1 => request.lens[k] > 0)

EndsBlank == Len(request.lens) > 1 /\ Last(request.lens) = 0

BodyIntact ==
  (CRLF /\ ShortLines /\ EndsBlank /\ phase = "served") => unread = Repeat("b", request.body)

(* That byte itself is not written as long as lines are shorter than the   *)
(* buffer: it is when the loop stops at its bound (server_http.h:204).     *)
ShortLinesFit == (ShortLines /\ request.body < BufSize - 1) => top < BufSize

(* A complete request is served: one whose head ends in a blank line, or   *)
(* whose client closes its side at the end of a line.                      *)
Complete ==
  \/ CRLF /\ EndsBlank
  \/ request.body = 0 /\ request.closes

Served == Complete ~> phase = "served"

=============================================================================
