----------------------------- MODULE MysqlTable -----------------------------
(***************************************************************************)
(* class Mysql of mysql/mysql.h over an external table, and the page that  *)
(* cgi_bin/data_base_show.cpp makes of it.                                 *)
(*                                                                         *)
(* show_table copies a result of any number of columns into rows of ROW    *)
(* strings that lie one behind the other: out is that array, and a row     *)
(* with more columns spills into the next.  Writing behind either array    *)
(* ends the program or is lost; the name of column ROW may also reach the  *)
(* first string of the rows.                                               *)
(***************************************************************************)
EXTENDS Integers, Sequences

CONSTANTS
  Tables,   (* what mytest may contain: its number of columns and its rows *)
  MaxRows,  (* bound on the rows of the table                              *)
  Inserted, (* the five values of an insert                                *)
  Null,     (* a cell that is SQL NULL                                     *)
  Empty,    (* a string that nothing was assigned to                       *)
  ROW,      (* ROW of mysql.h                                              *)
  SIZE      (* rows of show_data                                           *)

ASSUME SizesAssumption == ROW \in Nat \ {0} /\ SIZE \in Nat \ {0} /\ MaxRows \in Nat

(* Every row there may ever be in the table.                               *)
Rows == {Inserted} \cup UNION {{t.rows[i] : i \in DOMAIN t.rows} : t \in Tables}

ASSUME TablesAssumption ==
  /\ Tables \subseteq [columns : Nat, rows : Seq(Rows)]
  /\ \A t \in Tables : Len(t.rows) <= MaxRows

VARIABLES
  mytest,   (* the table                                                   *)
  step,     (* where the program is                                        *)
  linked,   (* mysql_real_connect has succeeded                            *)
  result,   (* res: the table as it was selected                           *)
  at,       (* the next field, then the next row                           *)
  out,      (* the strings of show_data                                    *)
  shown     (* the rows of the page                                        *)

table_vars == <<mytest, step, linked, result, at, out, shown>>

Cells == 0..SIZE * ROW - 1

NoResult == [columns |-> 0, rows |-> <<>>]

TableInit ==
  /\ mytest = NoResult
  /\ step = "idle" /\ linked = FALSE
  /\ result = NoResult /\ at = 0
  /\ out = [k \in Cells |-> Empty]
  /\ shown = <<>>

(* insert() of somebody who is connected; MySQL refuses five values for a  *)
(* table of any other number of columns.                                   *)
Insert ==
  /\ step = "link" /\ mytest.columns = Len(Inserted) /\ Len(mytest.rows) < MaxRows
  /\ mytest' = [mytest EXCEPT !.rows = Append(@, Inserted)]
  /\ UNCHANGED <<step, linked, result, at, out, shown>>

(* Its result is not looked at.                                            *)
inter_link ==
  /\ step = "link"
  /\ linked' \in BOOLEAN
  /\ step' = "select"
  /\ UNCHANGED <<mytest, result, at, out, shown>>

Select ==
  /\ step = "select" /\ linked
  /\ result' = mytest
  /\ step' = "fields"
  /\ UNCHANGED <<mytest, linked, at, out, shown>>

Crash == step' = "crashed" /\ UNCHANGED <<mytest, linked, result, at, out, shown>>

(* mysql_num_rows(NULL) after a query that failed.                         *)
SelectFails == step = "select" /\ Crash

FetchField ==
  /\ step = "fields" /\ at < result.columns
  /\ at' = at + 1
  /\ out' \in {out} \cup IF at < ROW THEN {} ELSE {[out EXCEPT ![0] = "title"]}
  /\ UNCHANGED <<mytest, step, linked, result, shown>>

(* name[ROW] is behind the array.                                          *)
FieldOverflow == step = "fields" /\ at < result.columns /\ at >= ROW /\ Crash

(* A definition with an underscore and a mistake in its name is not part   *)
(* of the specification: it is the one after it, made wrong in a plausible *)
(* way.                                                                    *)
FieldsDone_KeepsIndex ==
  /\ step = "fields" /\ at = result.columns
  /\ step' = "rows"
  /\ UNCHANGED <<mytest, linked, result, at, out, shown>>

FieldsDone ==
  /\ step = "fields" /\ at = result.columns
  /\ at' = 0
  /\ step' = "rows"
  /\ UNCHANGED <<mytest, linked, result, out, shown>>

(* The strings a row is written to.                                        *)
Target(index) == index * ROW..index * ROW + result.columns - 1

HasNull(index) == \E j \in 1..result.columns : result.rows[index + 1][j] = Null

(* The rows in the opposite order, as a program may that fetches the last  *)
(* one first: they would overlap the other way.                            *)
CopyRow_LastFirst ==
  /\ step = "rows" /\ at < Len(result.rows) /\ ~HasNull(at)
  /\ LET index == Len(result.rows) - 1 - at
     IN  out' = [k \in Cells |->
           IF k \in Target(index) THEN result.rows[index + 1][k - index * ROW + 1] ELSE out[k]]
  /\ at' = at + 1
  /\ UNCHANGED <<mytest, step, linked, result, shown>>

CopyRow ==
  /\ step = "rows" /\ at < Len(result.rows) /\ ~HasNull(at)
  /\ out' = [k \in Cells |->
       IF k \in Target(at) THEN result.rows[at + 1][k - at * ROW + 1] ELSE out[k]]
  /\ at' = at + 1
  /\ UNCHANGED <<mytest, step, linked, result, shown>>

(* A string made of NULL; a row behind the array.                          *)
RowFails ==
  /\ step = "rows" /\ at < Len(result.rows)
  /\ HasNull(at) \/ ~(Target(at) \subseteq Cells)
  /\ Crash

(* What is printed of rows behind the array can be anything, and is left   *)
(* out of shown.                                                           *)
PrintTable ==
  /\ step = "rows" /\ at = Len(result.rows)
  /\ shown' = [i \in 1..(IF at < SIZE THEN at ELSE SIZE) |->
                 [j \in 1..ROW |-> out[(i - 1) * ROW + j - 1]]]
  /\ step' = "printed"
  /\ UNCHANGED <<mytest, linked, result, at, out>>

TableNext ==
  \/ Insert     \/ inter_link    \/ Select     \/ SelectFails
  \/ FetchField \/ FieldOverflow \/ FieldsDone \/ CopyRow    \/ RowFails \/ PrintTable

(* Although rows overlap in the array (mysql.h:119-120), a page that is    *)
(* finished shows the first ROW columns of each row of the result, and     *)
(* nothing of another row, not even of the title.                          *)
RowsShown ==
  step = "printed" =>
    \A i \in DOMAIN shown : \A j \in 1..ROW :
      shown[i][j] = IF j <= result.columns THEN result.rows[i][j] ELSE Empty

=============================================================================
