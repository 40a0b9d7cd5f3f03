---------------------------- MODULE PageRequest ----------------------------
(***************************************************************************)
(* One request of server/server_http.h as text: the line is parsed, a GET  *)
(* without a query is answered with a file, anything else books a visit    *)
(* from its query, reads the head and runs the CGI program that its path   *)
(* names, cgi_bin/show or cgi_bin/data_base_show.                          *)
(***************************************************************************)
EXTENDS QueryParse, MysqlTable

CONSTANTS
  Words,     (* the characters of a request other than the blank           *)
  Asks,      (* what clients send: the parts of a line, and of a head      *)
  Decimal,   (* numbers as text                                            *)
  Files,     (* paths under htdocs of files that fopen opens               *)
  Locked,    (* of files that it may not open                              *)
  Folders,   (* of directories                                             *)
  Show, DataBaseShow,  (* the paths of the two programs                    *)
  Nothing

(* A target has no '?' of its own, that one begins the query; a text of    *)
(* Decimal is what atoi reads as its number.                               *)
ASSUME AsksAssumption ==
  /\ "sp" \notin Words /\ "nul" \notin Words /\ Nothing \notin Seq(Words)
  /\ Asks \subseteq [lead   : Seq({"sp"}), method : Words, gap : Seq({"sp"}) \ {<<>>},
                     target : Seq(Words \ {"?"}), query : Seq(Words) \cup {Nothing},
                     space  : Seq({"sp"}), length : DOMAIN Decimal]

ASSUME DecimalAssumption ==
  \A n \in DOMAIN Decimal :
    n \in Int /\ Decimal[n] \in Seq(Words) \ {<<>>} /\ atoi(Decimal[n] \o <<"nl">>) = n

VARIABLES
  ask,       (* the parts of this request                                  *)
  pc,        (* where its thread is                                        *)
  parsed,    (* what get_path_method_query made of the line                *)
  visitor,   (* name and id that are booked                                *)
  length,    (* content_length                                             *)
  page       (* what the client is sent                                    *)

vars == <<ask, pc, parsed, visitor, length, page, table_vars>>

(* What the line asks for.                                                 *)
Url(a) == IF a.query = Nothing THEN a.target ELSE a.target \o (<<"?">> \o a.query)

(* The request line, with the line feed that get_line leaves in buf.       *)
Line(a) ==
  a.lead \o (<<a.method>> \o (a.gap \o (Url(a) \o <<"sp", "HTTP", "nl">>)))

(* The line of the head that declares the length.                          *)
HeadLine(a) == <<"Content-Length:">> \o (a.space \o (Decimal[a.length] \o <<"nl">>))

Goto(label) == pc' = label

Init ==
  /\ ask \in Asks
  /\ pc = "line"
  /\ parsed = Nothing /\ visitor = Nothing /\ length = 0 /\ page = "none"
  /\ TableInit

(* get_path_method_query, and the branch in Accept.                        *)
ParseLine ==
  /\ pc = "line"
  /\ parsed' = get_path_method_query(Line(ask))
  /\ Goto(IF parsed'.cgi THEN "post" ELSE "get")
  /\ UNCHANGED <<ask, visitor, length, page, table_vars>>

Found == parsed.path \in Files \cup Locked \cup Folders

(* What exec_get gives exec_get_file to open: of a directory the index,    *)
(* which nobody has asked stat() about.                                    *)
Opens == IF parsed.path \in Folders THEN parsed.path \o <<"/", "index.html">> ELSE parsed.path

SendFile ==
  /\ pc = "get" /\ Found /\ Opens \in Files
  /\ page' = "file"
  /\ Goto("done")
  /\ UNCHANGED <<ask, parsed, visitor, length, table_vars>>

(* fclose(NULL) ends the server.                                           *)
SendFileAborts ==
  /\ pc = "get" /\ Found /\ Opens \notin Files
  /\ Goto("aborted")
  /\ UNCHANGED <<ask, parsed, visitor, length, page, table_vars>>

SendNothing ==
  /\ pc = "get" /\ ~Found
  /\ page' = "nothing"
  /\ Goto("done")
  /\ UNCHANGED <<ask, parsed, visitor, length, table_vars>>

(* send_vector in exec_post, from the query of the line.                   *)
BookVisit ==
  /\ pc = "post" /\ parsed.query # <<>>
  /\ visitor' = get_string(parsed.query)
  /\ Goto("head")
  /\ UNCHANGED <<ask, parsed, length, page, table_vars>>

(* The assert of get_string ends the server.                               *)
BookVisitAborts ==
  /\ pc = "post" /\ parsed.query = <<>>
  /\ Goto("aborted")
  /\ UNCHANGED <<ask, parsed, visitor, length, page, table_vars>>

(* exec_cgi reads the length of the body unless the method is GET.         *)
ReadHead ==
  /\ pc = "head"
  /\ length' = IF parsed.method = <<"GET">> THEN 0 ELSE content_length(HeadLine(ask))
  /\ page' = IF length' = -1 THEN "nothing" ELSE "header"
  /\ Goto(IF length' = -1 THEN "done" ELSE "exec")
  /\ UNCHANGED <<ask, parsed, visitor, table_vars>>

(* execl() of a path that is no program: exit(1).                          *)
ExecFails ==
  /\ pc = "exec" /\ parsed.path \notin {Show, DataBaseShow}
  /\ Goto("done")
  /\ UNCHANGED <<ask, parsed, visitor, length, page, table_vars>>

(* What exec_cgi puts into the environment has a colon for its '=', and    *)
(* show asks for REQUEST_STRING, which is none of it: strcpy of NULL.      *)
RunShow ==
  /\ pc = "exec" /\ parsed.path = Show
  /\ page' = "cut short"
  /\ Goto("done")
  /\ UNCHANGED <<ask, parsed, visitor, length, table_vars>>

RunDataBaseShow ==
  /\ pc = "exec" /\ parsed.path = DataBaseShow
  /\ step' = "link" /\ mytest' \in Tables
  /\ Goto("program")
  /\ UNCHANGED <<ask, parsed, visitor, length, page, linked, result, at, out, shown>>

ProgramStep == pc = "program" /\ TableNext /\ UNCHANGED <<ask, pc, parsed, visitor, length, page>>

ProgramEnds ==
  /\ pc = "program" /\ step \in {"printed", "crashed"}
  /\ page' = IF step = "printed" THEN "table" ELSE "cut short"
  /\ Goto("done")
  /\ UNCHANGED <<ask, parsed, visitor, length, table_vars>>

Over == pc \in {"done", "aborted"} /\ UNCHANGED vars

Next ==
  \/ ParseLine \/ SendFile  \/ SendFileAborts \/ SendNothing
  \/ BookVisit \/ BookVisitAborts \/ ReadHead
  \/ ExecFails \/ RunShow   \/ RunDataBaseShow \/ ProgramStep \/ ProgramEnds
  \/ Over

Spec == Init /\ [][Next]_vars

-----------------------------------------------------------------------------

TypeOK ==
  /\ pc \in {"line", "get", "post", "head", "exec", "program", "done", "aborted"}
  /\ page \in {"none", "file", "nothing", "header", "cut short", "table"}
  /\ step \in {"idle", "link", "select", "fields", "rows", "printed", "crashed"}
  /\ length \in Int
  /\ parsed # Nothing => parsed.cgi \in BOOLEAN
  /\ DOMAIN out = Cells /\ Len(mytest.rows) <= MaxRows
  /\ step = "fields" => at \in 0..result.columns
  /\ step = "rows"   => at \in 0..Len(result.rows)

(* The name and the id that a query spells, if it does: what is between    *)
(* the first '=' and the '&' behind it, and all behind the next '='.       *)
Spelled(query) ==
  LET Here == 1..Len(query)
      Ends == {p \in Here \X Here \X Here :
                 /\ p[1] < p[2] /\ p[2] < p[3]
                 /\ query[p[1]] = "=" /\ query[p[2]] = "&" /\ query[p[3]] = "="
                 /\ \A m \in 1..p[1] - 1        : query[m] # "="
                 /\ \A m \in p[1] + 1..p[2] - 1 : query[m] # "&"
                 /\ \A m \in p[2] + 1..p[3] - 1 : query[m] # "="}
  IN  {<<SubSeq(query, p[1] + 1, p[2] - 1), Rest(query, p[3] + 1)>> : p \in Ends}

(* The page of a program is there or on its way.                           *)
AtProgram == pc = "program" \/ page \in {"table", "cut short"}

(* The page of a program and the visit that is booked with it belong       *)
(* together (server_http.h:535-537): however many blanks are about, a GET  *)
(* that gets to a program has booked whom its query spells, if it spells   *)
(* anybody.                                                                *)
VisitMatchesPage ==
  AtProgram /\ ask.method = "GET" => Spelled(ask.query) = {} \/ visitor \in Spelled(ask.query)

(* exec_post keeps the name and the card number before it runs the program *)
(* (server_http.h:532, 534): whoever gets to one by POST has booked some.  *)
PostBooks == AtProgram /\ ask.method = "POST" => visitor # <<<<>>, <<>>>>

(* The body that exec_cgi relays has the length that the head declares     *)
(* (server_http.h:416), if any blank separates the number from its name.   *)
LengthRead ==
  ask.method = "POST" /\ ask.space # <<>> /\ (pc = "exec" \/ page = "header") =>
    length = ask.length

=============================================================================
