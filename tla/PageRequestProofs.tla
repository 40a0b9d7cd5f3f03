------------------------- MODULE PageRequestProofs -------------------------
(***************************************************************************)
(* Proofs about PageRequest: what the page of data_base_show shows, for    *)
(* any number of columns, any table, and any sizes of the arrays; and what *)
(* the line and the head of a request are read as, for texts of any length *)
(* over any characters.                                                    *)
(***************************************************************************)
EXTENDS PageRequest, SequenceTheorems, WellFoundedInduction, TLAPS

(* What the step of the program needs to know of the types.                *)
TableType ==
  /\ mytest \in [columns : Nat, rows : Seq(Rows)]
  /\ result \in [columns : Nat, rows : Seq(Rows)]
  /\ at \in Nat
  /\ out = [k \in Cells |-> out[k]]

(* The program is started once.                                            *)
StartedOnce == pc \in {"line", "get", "post", "head", "exec"} => step = "idle"

(* The strings before the first row is copied: the title can have reached  *)
(* the first of them, if it is of a table that is too wide.                *)
Untouched ==
  /\ step \in {"idle", "link", "select"} => at = 0 /\ \A k \in Cells : out[k] = Empty
  /\ step = "fields" =>
       /\ \A k \in Cells : k # 0 => out[k] = Empty
       /\ result.columns <= ROW => \A k \in Cells : out[k] = Empty

(* The string that is column j of row i, counted from 0.                   *)
Cell(i, j) == i * ROW + j - 1

(* Each row that has been copied is there in the columns that are shown,   *)
(* whatever rows were copied after it; and the columns that the table does *)
(* not have are as they were.                                              *)
Copied ==
  step = "rows" =>
    \A i \in 0..SIZE - 1, j \in 1..ROW :
      /\ (i < at /\ j <= result.columns) => out[Cell(i, j)] = result.rows[i + 1][j]
      /\ j > result.columns => out[Cell(i, j)] = Empty

IInv == TableType /\ StartedOnce /\ Untouched /\ Copied /\ RowsShown

-----------------------------------------------------------------------------

(* A row lies behind the rows before it.                                   *)
LEMMA RowBehind ==
  ASSUME NEW a \in Nat, NEW b \in Nat, a < b
  PROVE  a * ROW + ROW <= b * ROW
<1> DEFINE d == b - a - 1
<1>1. d \in Nat /\ b = a + 1 + d /\ ROW \in Nat
  BY SizesAssumption
<1> HIDE DEF d
<1>2. b * ROW = a * ROW + ROW + d * ROW /\ d * ROW >= 0 /\ a * ROW \in Nat
  BY <1>1
<1> QED
  BY <1>1, <1>2

(* The strings of the rows that are shown are in the array, and a row that *)
(* is copied later has none of the strings of an earlier one.              *)
LEMMA CellsApart ==
  ASSUME NEW i \in 0..SIZE - 1, NEW j \in 1..ROW
  PROVE  /\ Cell(i, j) \in Cells /\ i * ROW \in Nat
         /\ \A n \in Nat : i < n => Cell(i, j) < n * ROW
         /\ \A n \in Nat : n < i => n * ROW + ROW <= Cell(i, j)
<1>1. i \in Nat /\ SIZE \in Nat /\ ROW \in Nat /\ i < SIZE /\ i * ROW \in Nat
  BY SizesAssumption
<1>2. \A n \in Nat : n * ROW \in Int
  BY <1>1
<1>3. \A n \in Nat : i < n => i * ROW + ROW <= n * ROW
  BY <1>1, RowBehind
<1>4. \A n \in Nat : n < i => n * ROW + ROW <= i * ROW
  BY <1>1, RowBehind
<1>5. i * ROW + ROW <= SIZE * ROW /\ SIZE * ROW \in Int
  BY <1>1, <1>2, <1>3
<1> QED
  BY <1>1, <1>2, <1>3, <1>4, <1>5 DEF Cell, Cells

-----------------------------------------------------------------------------

LEMMA InitIInv == Init => IInv
<1> SUFFICES ASSUME Init PROVE IInv
  OBVIOUS
<1>1. NoResult \in [columns : Nat, rows : Seq(Rows)]
  BY DEF NoResult
<1>2. TableType
  BY <1>1 DEF Init, TableInit, TableType
<1> QED
  BY <1>2 DEF Init, TableInit, IInv, StartedOnce, Untouched, Copied, RowsShown

(* The steps of the thread leave the table alone, but for the one that     *)
(* starts the program.                                                     *)
LEMMA ThreadStep ==
  ASSUME IInv,
         \/ ParseLine \/ SendFile  \/ SendFileAborts \/ SendNothing
         \/ BookVisit \/ BookVisitAborts \/ ReadHead
         \/ ExecFails \/ RunShow   \/ ProgramEnds \/ UNCHANGED vars
  PROVE  IInv'
<1>1. UNCHANGED table_vars
  BY DEF ParseLine, SendFile, SendFileAborts, SendNothing, BookVisit, BookVisitAborts, ReadHead,
         ExecFails, RunShow, ProgramEnds, vars
<1>2. StartedOnce'
  BY <1>1 DEF IInv, StartedOnce, ParseLine, SendFile, SendFileAborts, SendNothing, BookVisit,
              BookVisitAborts, ReadHead, ExecFails, RunShow, ProgramEnds, Goto, vars, table_vars
<1>3. TableType' /\ Untouched' /\ Copied' /\ RowsShown'
  BY <1>1 DEF IInv, TableType, Untouched, Copied, Cell, RowsShown, table_vars
<1> QED
  BY <1>2, <1>3 DEF IInv

LEMMA StartStep ==
  ASSUME IInv, RunDataBaseShow
  PROVE  IInv'
<1>1. mytest' \in [columns : Nat, rows : Seq(Rows)]
  BY TablesAssumption DEF RunDataBaseShow
<1>2. step = "idle" /\ step' = "link" /\ pc' = "program" /\ UNCHANGED <<result, at, out, shown>>
  BY DEF IInv, StartedOnce, RunDataBaseShow, Goto
<1> QED
  BY <1>1, <1>2 DEF IInv, TableType, StartedOnce, Untouched, Copied, RowsShown

(* What the program does before it copies the first row.                   *)
LEMMA BeforeRows ==
  ASSUME IInv, pc = "program", UNCHANGED pc,
         Insert \/ inter_link \/ Select \/ FetchField \/ FieldsDone
  PROVE  IInv'
<1>1. CASE Insert
  <2>1. Append(mytest.rows, Inserted) \in Seq(Rows)
    BY DEF IInv, TableType, Rows
  <2>2. mytest' \in [columns : Nat, rows : Seq(Rows)]
    BY <1>1, <2>1 DEF Insert, IInv, TableType
  <2> QED
    BY <1>1, <2>2 DEF Insert, IInv, TableType, StartedOnce, Untouched, Copied, RowsShown
<1>2. CASE inter_link
  BY <1>2 DEF inter_link, IInv, TableType, StartedOnce, Untouched, Copied, RowsShown
<1>3. CASE Select
  BY <1>3 DEF Select, IInv, TableType, StartedOnce, Untouched, Copied, RowsShown
<1>4. CASE FetchField
  <2>1. out' = out \/ (at >= ROW /\ out' = [out EXCEPT ![0] = "title"])
    BY <1>4, SizesAssumption DEF FetchField, IInv, TableType
  <2>2. TableType'
    BY <1>4, <2>1 DEF FetchField, IInv, TableType
  <2>3. Untouched'
    BY <1>4, <2>1, SizesAssumption DEF FetchField, IInv, TableType, Untouched, Cells
  <2> QED
    BY <1>4, <2>2, <2>3 DEF FetchField, IInv, StartedOnce, Copied, RowsShown
<1>5. CASE FieldsDone
  <2>1. ASSUME NEW i \in 0..SIZE - 1, NEW j \in 1..ROW, j > result.columns
        PROVE  out'[Cell(i, j)] = Empty
    <3>1. result.columns <= ROW /\ Cell(i, j) \in Cells
      BY <2>1, CellsApart, SizesAssumption DEF IInv, TableType
    <3> QED
      BY <1>5, <3>1 DEF FieldsDone, IInv, Untouched
  <2>2. Copied'
    BY <1>5, <2>1 DEF FieldsDone, Copied, Cell
  <2> QED
    BY <1>5, <2>2 DEF FieldsDone, IInv, TableType, StartedOnce, Untouched, RowsShown
<1> QED
  BY <1>1, <1>2, <1>3, <1>4, <1>5

LEMMA CopyStep ==
  ASSUME IInv, pc = "program", UNCHANGED pc, CopyRow
  PROVE  IInv'
<1>1. /\ step = "rows" /\ step' = "rows" /\ at \in Nat /\ at' = at + 1
      /\ result' = result /\ result.columns \in Nat /\ shown' = shown /\ mytest' = mytest
  BY DEF CopyRow, IInv, TableType
<1>2. \A k \in Cells : out'[k] =
        IF k \in Target(at) THEN result.rows[at + 1][k - at * ROW + 1] ELSE out[k]
  BY DEF CopyRow
<1>3. TableType'
  BY <1>1 DEF CopyRow, IInv, TableType
<1>4. Copied'
  <2> SUFFICES ASSUME NEW i \in 0..SIZE - 1, NEW j \in 1..ROW
               PROVE  /\ (i < at + 1 /\ j <= result.columns) => out'[Cell(i, j)] = result.rows[i + 1][j]
                      /\ j > result.columns => out'[Cell(i, j)] = Empty
    BY <1>1 DEF Copied, Cell
  <2>1. i \in Nat /\ at * ROW \in Nat /\ ROW \in Nat
    BY <1>1, SizesAssumption
  <2>2. i <= at => (Cell(i, j) \in Target(at) <=> i = at /\ j <= result.columns)
    BY <1>1, <2>1, CellsApart DEF Target, Cell
  <2>3. i > at /\ j > result.columns => Cell(i, j) \notin Target(at)
    BY <1>1, <2>1, CellsApart DEF Target, Cell
  <2>4. CASE i = at /\ j <= result.columns
    BY <1>1, <1>2, <2>1, <2>2, <2>4, CellsApart DEF Cell
  <2>5. CASE i < at /\ j <= result.columns
    BY <1>1, <1>2, <2>1, <2>2, <2>5, CellsApart DEF IInv, Copied
  <2>6. CASE j > result.columns
    BY <1>1, <1>2, <2>1, <2>2, <2>3, <2>6, CellsApart DEF IInv, Copied
  <2> QED
    BY <1>1, <2>1, <2>4, <2>5, <2>6
<1> QED
  BY <1>1, <1>3, <1>4 DEF IInv, StartedOnce, Untouched, RowsShown

LEMMA PrintStep ==
  ASSUME IInv, pc = "program", UNCHANGED pc, PrintTable
  PROVE  IInv'
<1>1. /\ step = "rows" /\ step' = "printed" /\ at \in Nat
      /\ result' = result /\ result.columns \in Nat /\ SIZE \in Nat /\ ROW \in Nat
  BY SizesAssumption DEF PrintTable, IInv, TableType
<1>2. TableType' /\ StartedOnce' /\ Untouched' /\ Copied'
  BY <1>1 DEF PrintTable, IInv, TableType, StartedOnce, Untouched, Copied
<1>3. RowsShown'
  <2> SUFFICES ASSUME NEW n \in DOMAIN shown', NEW j \in 1..ROW
               PROVE  shown'[n][j] =
                        IF j <= result.columns THEN result.rows[n][j] ELSE Empty
    BY <1>1 DEF RowsShown
  <2>1. n \in Nat /\ n - 1 \in 0..SIZE - 1 /\ n - 1 < at
    BY <1>1 DEF PrintTable
  <2>2. shown'[n][j] = out[Cell(n - 1, j)]
    BY <1>1, <2>1 DEF PrintTable, Cell
  <2> QED
    BY <1>1, <2>1, <2>2 DEF IInv, Copied
<1> QED
  BY <1>2, <1>3 DEF IInv

LEMMA CrashStep ==
  ASSUME IInv, pc = "program", UNCHANGED pc, SelectFails \/ FieldOverflow \/ RowFails
  PROVE  IInv'
  BY DEF SelectFails, FieldOverflow, RowFails, Crash, IInv, TableType, StartedOnce, Untouched,
         Copied, RowsShown

LEMMA StepIInv == IInv /\ [Next]_vars => IInv'
<1> SUFFICES ASSUME IInv, [Next]_vars PROVE IInv'
  OBVIOUS
<1>1. CASE ProgramStep
  BY <1>1, BeforeRows, CopyStep, PrintStep, CrashStep DEF ProgramStep, TableNext
<1>2. CASE RunDataBaseShow
  BY <1>2, StartStep
<1>3. CASE ~ProgramStep /\ ~RunDataBaseShow
  BY <1>3, ThreadStep DEF Next, Over
<1> QED
  BY <1>1, <1>2, <1>3

(* Although rows that are too wide overlap in the array (mysql.h:119-120), *)
(* a finished page of data_base_show shows each row's own first columns,   *)
(* of tables of any width and any number of rows.                          *)
THEOREM RowsShownAlways == Spec => []RowsShown
<1>1. Spec => []IInv
  BY InitIInv, StepIInv, PTL DEF Spec
<1>2. IInv => RowsShown
  BY DEF IInv
<1> QED
  BY <1>1, <1>2, PTL

-----------------------------------------------------------------------------
(* Texts: numbers, words, and what stands between two marks.               *)

LEMMA LeastNumber ==
  ASSUME NEW ns \in SUBSET Nat, ns # {}
  PROVE  \E n \in ns : \A m \in ns : n <= m
<1>1. PICK n \in ns : \A m \in ns : <<m, n>> \notin OpToRel(<, Nat)
  BY NatLessThanWellFounded, WFMin, Zenon
<1>2. \A m \in ns : ~(m < n)
  BY <1>1 DEF OpToRel
<1>3. \A m \in ns : n <= m
  BY <1>2
<1> QED
  BY <1>3

(* Induction, stated of a set: it has no smallest number missing.          *)
LEMMA NumbersOneByOne ==
  ASSUME NEW P, 0 \in P, \A m \in Nat : m \in P => m + 1 \in P
  PROVE  \A m \in Nat : m \in P
<1> DEFINE Missing == {m \in Nat : m \notin P}
<1> SUFFICES ASSUME Missing # {} PROVE FALSE
  OBVIOUS
<1>1. PICK m \in Missing : \A l \in Missing : m <= l
  BY LeastNumber
<1>2. m \in Nat /\ m \notin P
  BY <1>1
<1>3. m - 1 \in Nat /\ m - 1 + 1 = m /\ ~(m <= m - 1)
  BY <1>2
<1>4. m - 1 \in P
  BY <1>1, <1>3
<1> QED
  BY <1>2, <1>3, <1>4

(* Among the numbers from i on, the first that is wanted.                  *)
LEMMA FirstWanted ==
  ASSUME NEW i \in Nat, NEW e \in Nat, NEW wanted, i <= e, e \in wanted
  PROVE  \E j \in i..e : j \in wanted /\ \A k \in i..j - 1 : k \notin wanted
<1> DEFINE Here == {j \in i..e : j \in wanted}
<1>1. Here \in SUBSET Nat /\ e \in Here
  OBVIOUS
<1>2. PICK j \in Here : \A k \in Here : j <= k
  BY <1>1, LeastNumber
<1>3. ASSUME NEW k \in i..j - 1, k \in wanted
      PROVE  FALSE
  <2>1. k \in Here /\ ~(j <= k)
    BY <1>1, <1>3
  <2> QED
    BY <1>2, <2>1
<1> QED
  BY <1>1, <1>2, <1>3

LEMMA AtEnd ==
  ASSUME NEW S, NEW s \in Seq(S), NEW i \in Int
  PROVE  /\ i \in 1..Len(s) => At(s, i) = s[i]
         /\ i > Len(s) => At(s, i) = "nul"
<1>1. Len(s) \in Nat
  OBVIOUS
<1> QED
  BY <1>1 DEF At

(* Every scan stops, at the end of the text at the latest.                 *)
LEMMA FirstStops ==
  ASSUME NEW S, NEW s \in Seq(S), NEW i \in Nat \ {0}, NEW ch
  PROVE  /\ First(s, i, ch) \in i..i + Len(s)
         /\ At(s, First(s, i, ch)) \in {ch, "nul"}
         /\ \A k \in i..First(s, i, ch) - 1 : At(s, k) \notin {ch, "nul"}
<1> DEFINE wanted == {j \in Nat : At(s, j) \in {ch, "nul"}}
<1>1. i \in Nat /\ i + 1 \in Nat /\ Len(s) \in Nat
  OBVIOUS
<1>2. i + Len(s) \in Nat /\ i <= i + Len(s) /\ i + Len(s) \in wanted
  BY <1>1, AtEnd
<1> HIDE DEF wanted
<1>3. \E j \in i..i + Len(s) : j \in wanted /\ \A k \in i..j - 1 : k \notin wanted
  BY <1>1, <1>2, FirstWanted, Zenon
<1>4. PICK n \in i..i + Len(s) : n \in wanted /\ \A k \in i..n - 1 : k \notin wanted
  BY <1>3
<1>5. At(s, n) \in {ch, "nul"} /\ \A k \in i..n - 1 : At(s, k) \notin {ch, "nul"}
  BY <1>1, <1>4 DEF wanted
<1>6. \E j \in i..i + Len(s) : /\ At(s, j) \in {ch, "nul"}
                               /\ \A k \in i..j - 1 : At(s, k) \notin {ch, "nul"}
  BY <1>4, <1>5, Zenon
<1> QED
  BY <1>6, Zenon DEF First

LEMMA PastStops ==
  ASSUME NEW S, NEW s \in Seq(S), NEW i \in Nat \ {0}, NEW chs, "nul" \notin chs
  PROVE  /\ Past(s, i, chs) \in i..i + Len(s)
         /\ At(s, Past(s, i, chs)) \notin chs
         /\ \A k \in i..Past(s, i, chs) - 1 : At(s, k) \in chs
<1> DEFINE wanted == {j \in Nat : At(s, j) \notin chs}
<1>1. i \in Nat /\ i + 1 \in Nat /\ Len(s) \in Nat
  OBVIOUS
<1>2. i + Len(s) \in Nat /\ i <= i + Len(s) /\ i + Len(s) \in wanted
  BY <1>1, AtEnd
<1> HIDE DEF wanted
<1>3. \E j \in i..i + Len(s) : j \in wanted /\ \A k \in i..j - 1 : k \notin wanted
  BY <1>1, <1>2, FirstWanted, Zenon
<1>4. PICK n \in i..i + Len(s) : n \in wanted /\ \A k \in i..n - 1 : k \notin wanted
  BY <1>3
<1>5. At(s, n) \notin chs /\ \A k \in i..n - 1 : At(s, k) \in chs
  BY <1>1, <1>4 DEF wanted
<1>6. \E j \in i..i + Len(s) : At(s, j) \notin chs /\ \A k \in i..j - 1 : At(s, k) \in chs
  BY <1>4, <1>5, Zenon
<1> QED
  BY <1>6, Zenon DEF Past

LEMMA AfterEqualsStops ==
  ASSUME NEW S, NEW s \in Seq(S), NEW i \in Nat \ {0}
  PROVE  /\ AfterEquals(s, i) \in i + 1..i + 1 + Len(s)
         /\ \/ At(s, AfterEquals(s, i) - 1) = "="
            \/ At(s, AfterEquals(s, i)) = "nul"
         /\ \A k \in i + 1..AfterEquals(s, i) - 1 : At(s, k - 1) # "=" /\ At(s, k) # "nul"
<1> DEFINE wanted == {j \in Nat : At(s, j - 1) = "=" \/ At(s, j) = "nul"}
<1>1. i \in Nat /\ i + 1 \in Nat /\ Len(s) \in Nat
  OBVIOUS
<1> DEFINE low == i + 1  high == i + 1 + Len(s)
<1>2. low \in Nat /\ high \in Nat /\ low <= high /\ high \in wanted
  BY <1>1, AtEnd
<1> HIDE DEF wanted, low, high
<1>3. \E j \in low..high : j \in wanted /\ \A k \in low..j - 1 : k \notin wanted
  BY <1>2, FirstWanted, Zenon
<1>4. PICK n \in i + 1..i + 1 + Len(s) : n \in wanted /\ \A k \in i + 1..n - 1 : k \notin wanted
  BY <1>3 DEF low, high
<1>5. /\ At(s, n - 1) = "=" \/ At(s, n) = "nul"
      /\ \A k \in i + 1..n - 1 : At(s, k - 1) # "=" /\ At(s, k) # "nul"
  <2>1. At(s, n - 1) = "=" \/ At(s, n) = "nul"
    BY <1>4, Zenon DEF wanted
  <2>2. ASSUME NEW k \in i + 1..n - 1
        PROVE  At(s, k - 1) # "=" /\ At(s, k) # "nul"
    <3>1. k \in Nat /\ k \notin wanted
      BY <1>1, <1>4
    <3> QED
      BY <3>1, Zenon DEF wanted
  <2> QED
    BY <2>1, <2>2, Zenon
<1>6. \E j \in i + 1..i + 1 + Len(s) :
        /\ At(s, j - 1) = "=" \/ At(s, j) = "nul"
        /\ \A k \in i + 1..j - 1 : At(s, k - 1) # "=" /\ At(s, k) # "nul"
  BY <1>4, <1>5, Zenon
<1> QED
  BY <1>6, Zenon DEF AfterEquals

LEMMA PieceOf ==
  ASSUME NEW S, NEW s \in Seq(S), NEW i \in Nat \ {0}, NEW j \in Int, j <= Len(s)
  PROVE  /\ SubSeq(s, i, j) \in Seq(S)
         /\ Len(SubSeq(s, i, j)) = IF i <= j THEN j - i + 1 ELSE 0
         /\ \A k \in 1..j - i + 1 : SubSeq(s, i, j)[k] = s[i + k - 1]
<1>1. Len(s) \in Nat /\ i \in Int /\ \A k \in i..j : s[k] \in S
  BY ElementOfSeq
<1>2. SubSeq(s, i, j) \in Seq(S)
  BY <1>1, SubSeqProperties, Zenon
<1>3. Len(SubSeq(s, i, j)) = IF i <= j THEN j - i + 1 ELSE 0
  BY <1>1, SubSeqProperties
<1>4. \A k \in 1..j - i + 1 : SubSeq(s, i, j)[k] = s[i + k - 1]
  BY <1>1, SubSeqProperties
<1> QED
  BY <1>2, <1>3, <1>4

LEMMA RestOf ==
  ASSUME NEW S, NEW s \in Seq(S), NEW i \in Nat \ {0}
  PROVE  /\ Rest(s, i) \in Seq(S)
         /\ Len(Rest(s, i)) = IF i <= Len(s) THEN Len(s) - i + 1 ELSE 0
         /\ \A k \in 1..Len(s) - i + 1 : Rest(s, i)[k] = s[i + k - 1]
<1>1. Len(s) \in Int /\ Len(s) <= Len(s)
  OBVIOUS
<1> QED
  BY <1>1, PieceOf DEF Rest

(* A word is a piece of the text.                                          *)
LEMMA CommType ==
  ASSUME NEW S, NEW s \in Seq(S)
  PROVE  get_comm(s) \in Seq(S)
<1>1. Len(s) \in Nat
  OBVIOUS
<1>2. PICK p : p = Past(s, 1, {"sp"})
  OBVIOUS
<1>3. p \in 1..1 + Len(s)
  <2>1. "nul" \notin {"sp"} /\ 1 \in Nat \ {0}
    OBVIOUS
  <2> QED
    BY <1>1, <1>2, <2>1, PastStops, Zenon
<1>4. PICK e : e = First(s, p, "sp")
  OBVIOUS
<1>5. e \in p..p + Len(s) /\ \A k \in p..e - 1 : At(s, k) \notin {"sp", "nul"}
  <2>1. p \in Nat \ {0}
    BY <1>1, <1>3
  <2> QED
    BY <1>1, <1>4, <2>1, FirstStops, Zenon
<1>6. PICK n \in Nat : n = Len(s)
  BY <1>1
<1>7. p \in Int /\ 1 <= p /\ p <= n + 1 /\ e \in Int /\ p <= e
  <2>1. p \in 1..1 + n
    BY <1>3, <1>6
  <2>2. e \in p..p + n
    BY <1>5, <1>6
  <2> QED
    BY <2>1, <2>2
<1>8. e - 1 <= n
  <2> SUFFICES ASSUME n < e - 1 PROVE FALSE
    BY <1>7
  <2>1. e - 1 \in p..e - 1 /\ e - 1 \in Int /\ e - 1 > n
    BY <1>7
  <2>2. At(s, e - 1) = "nul"
    BY <1>1, <1>6, <2>1, AtEnd
  <2> QED
    BY <1>5, <2>1, <2>2
<1>9. SubSeq(s, p, e - 1) \in Seq(S)
  BY <1>6, <1>7, <1>8, PieceOf
<1> QED
  BY <1>2, <1>4, <1>9, Zenon DEF get_comm

LEMMA RestBehind ==
  ASSUME NEW S, NEW u \in Seq(S), NEW v \in Seq(S)
  PROVE  Rest(u \o v, Len(u) + 1) = v
<1>1. PICK m \in Nat : m = Len(u)
  OBVIOUS
<1>2. PICK n \in Nat : n = Len(v)
  OBVIOUS
<1>3. PICK x : x = u \o v
  OBVIOUS
<1>4. /\ x \in Seq(S) /\ Len(x) = m + n
      /\ \A k \in 1..m + n : x[k] = IF k <= m THEN u[k] ELSE v[k - m]
  BY <1>1, <1>2, <1>3, ConcatProperties
<1>5. PICK r : r = Rest(x, m + 1)
  OBVIOUS
<1>6. /\ r \in Seq(S)
      /\ Len(r) = IF m + 1 <= Len(x) THEN Len(x) - (m + 1) + 1 ELSE 0
      /\ \A k \in 1..Len(x) - (m + 1) + 1 : r[k] = x[m + 1 + k - 1]
  <2>1. m + 1 \in Nat \ {0}
    OBVIOUS
  <2> QED
    BY <1>4, <1>5, <2>1, RestOf
<1>7. Len(r) = n
  BY <1>4, <1>6
<1>8. ASSUME NEW k \in 1..n
      PROVE  r[k] = v[k]
  <2>1. k \in 1..Len(x) - (m + 1) + 1 /\ m + 1 + k - 1 = m + k
        /\ m + k \in 1..m + n /\ ~(m + k <= m) /\ m + k - m = k
    BY <1>4
  <2>2. r[k] = x[m + k]
    BY <1>6, <2>1
  <2> QED
    BY <1>4, <2>1, <2>2
<1>9. r = v
  BY <1>2, <1>6, <1>7, <1>8, SeqEqual
<1> QED
  BY <1>1, <1>3, <1>5, <1>9

(* The characters of three texts, one behind the other.                    *)
LEMMA ThreeTexts ==
  ASSUME NEW S, NEW b \in Seq(S), NEW w \in Seq(S), NEW t \in Seq(S)
  PROVE  /\ b \o (w \o t) \in Seq(S)
         /\ Len(b \o (w \o t)) = Len(b) + Len(w) + Len(t)
         /\ \A k \in 1..Len(b) : (b \o (w \o t))[k] = b[k]
         /\ \A k \in 1..Len(w) : (b \o (w \o t))[Len(b) + k] = w[k]
         /\ \A k \in 1..Len(t) : (b \o (w \o t))[Len(b) + Len(w) + k] = t[k]
<1>1. PICK l \in Nat : l = Len(b)
  OBVIOUS
<1>2. PICK m \in Nat : m = Len(w)
  OBVIOUS
<1>3. PICK n \in Nat : n = Len(t)
  OBVIOUS
<1>4. PICK x : x = w \o t
  OBVIOUS
<1>5. /\ x \in Seq(S) /\ Len(x) = m + n
      /\ \A k \in 1..m + n : x[k] = IF k <= m THEN w[k] ELSE t[k - m]
  BY <1>2, <1>3, <1>4, ConcatProperties
<1>6. PICK y : y = b \o x
  OBVIOUS
<1>7. /\ y \in Seq(S) /\ Len(y) = l + (m + n)
      /\ \A k \in 1..l + (m + n) : y[k] = IF k <= l THEN b[k] ELSE x[k - l]
  BY <1>1, <1>5, <1>6, ConcatProperties
<1>8. Len(y) = l + m + n
  BY <1>7
<1>9. \A k \in 1..l : y[k] = b[k]
  BY <1>7
<1>10. ASSUME NEW k \in 1..m
       PROVE  y[l + k] = w[k]
  <2>1. l + k \in 1..l + (m + n) /\ ~(l + k <= l) /\ l + k - l = k /\ k \in 1..m + n /\ k <= m
    OBVIOUS
  <2> QED
    BY <1>5, <1>7, <2>1
<1>11. ASSUME NEW k \in 1..n
       PROVE  y[l + m + k] = t[k]
  <2>1. /\ l + m + k \in 1..l + (m + n) /\ ~(l + m + k <= l) /\ l + m + k - l = m + k
        /\ m + k \in 1..m + n /\ ~(m + k <= m) /\ m + k - m = k
    OBVIOUS
  <2> QED
    BY <1>5, <1>7, <2>1
<1> QED
  BY <1>1, <1>2, <1>3, <1>4, <1>6, <1>7, <1>8, <1>9, <1>10, <1>11

(* What get_comm finds behind blanks, if a blank follows it.               *)
LEMMA FirstWord ==
  ASSUME NEW S, NEW b \in Seq(S), NEW w \in Seq(S), NEW t \in Seq(S),
         \A k \in 1..Len(b) : b[k] = "sp",
         w # <<>>, \A k \in 1..Len(w) : w[k] \notin {"sp", "nul"},
         At(t, 1) = "sp"
  PROVE  get_comm(b \o (w \o t)) = w
<1>1. PICK l \in Nat : l = Len(b)
  OBVIOUS
<1>2. PICK m \in Nat : m = Len(w)
  OBVIOUS
<1>3. PICK n \in Nat : n = Len(t)
  OBVIOUS
<1>4. m # 0 /\ n # 0 /\ t[1] = "sp"
  BY <1>2, <1>3, EmptySeq DEF At
<1>5. PICK s : s = b \o (w \o t)
  OBVIOUS
<1>6. /\ s \in Seq(S) /\ Len(s) = l + m + n
      /\ \A k \in 1..l : s[k] = b[k]
      /\ \A k \in 1..m : s[l + k] = w[k]
      /\ \A k \in 1..n : s[l + m + k] = t[k]
  BY <1>1, <1>2, <1>3, <1>5, ThreeTexts
<1>7. \A k \in 1..l : At(s, k) = "sp"
  <2> SUFFICES ASSUME NEW k \in 1..l PROVE At(s, k) = "sp"
    OBVIOUS
  <2>1. b[k] = "sp"
    BY <1>1
  <2>2. k \in Int /\ k \in 1..Len(s)
    BY <1>6
  <2> QED
    BY <1>6, <2>1, <2>2, AtEnd
<1>8. \A k \in l + 1..l + m : At(s, k) \notin {"sp", "nul"}
  <2> SUFFICES ASSUME NEW k \in l + 1..l + m PROVE At(s, k) \notin {"sp", "nul"}
    OBVIOUS
  <2>1. k - l \in 1..m /\ l + (k - l) = k /\ k \in Int /\ k \in 1..Len(s)
    BY <1>6
  <2>2. w[k - l] \notin {"sp", "nul"} /\ s[k] = w[k - l]
    BY <1>2, <1>6, <2>1
  <2> QED
    BY <1>6, <2>1, <2>2, AtEnd
<1>9. At(s, l + m + 1) = "sp"
  <2>1. 1 \in 1..n /\ l + m + 1 \in Int /\ l + m + 1 \in 1..Len(s)
    BY <1>4, <1>6
  <2>2. s[l + m + 1] = "sp"
    BY <1>4, <1>6, <2>1
  <2> QED
    BY <1>6, <2>1, <2>2, AtEnd
<1>10. PICK p : p = Past(s, 1, {"sp"})
  OBVIOUS
<1>11. p \in 1..1 + Len(s) /\ At(s, p) \notin {"sp"} /\ \A k \in 1..p - 1 : At(s, k) \in {"sp"}
  <2>1. "nul" \notin {"sp"} /\ 1 \in Nat \ {0}
    OBVIOUS
  <2> QED
    BY <1>6, <1>10, <2>1, PastStops, Zenon
<1>12. p = l + 1
  <2>1. p \in Int /\ 1 <= p
    BY <1>6, <1>11
  <2>2. ~(p <= l)
    <3> SUFFICES ASSUME p <= l PROVE FALSE
      OBVIOUS
    <3>1. p \in 1..l
      BY <2>1
    <3> QED
      BY <1>7, <1>11, <3>1
  <2>3. ~(l + 1 < p)
    <3> SUFFICES ASSUME l + 1 < p PROVE FALSE
      OBVIOUS
    <3>1. l + 1 \in 1..p - 1 /\ l + 1 \in l + 1..l + m
      BY <1>4, <2>1
    <3> QED
      BY <1>8, <1>11, <3>1
  <2> QED
    BY <2>1, <2>2, <2>3
<1>13. PICK e : e = First(s, p, "sp")
  OBVIOUS
<1>14. /\ e \in p..p + Len(s) /\ At(s, e) \in {"sp", "nul"}
       /\ \A k \in p..e - 1 : At(s, k) \notin {"sp", "nul"}
  <2>1. p \in Nat \ {0}
    BY <1>12
  <2> QED
    BY <1>6, <1>13, <2>1, FirstStops, Zenon
<1>15. e = l + m + 1
  <2>1. e \in Int /\ l + 1 <= e
    BY <1>6, <1>12, <1>14
  <2>2. ~(e <= l + m)
    <3> SUFFICES ASSUME e <= l + m PROVE FALSE
      OBVIOUS
    <3>1. e \in l + 1..l + m
      BY <2>1
    <3> QED
      BY <1>8, <1>14, <3>1
  <2>3. ~(l + m + 1 < e)
    <3> SUFFICES ASSUME l + m + 1 < e PROVE FALSE
      OBVIOUS
    <3>1. l + m + 1 \in p..e - 1
      BY <1>12, <2>1
    <3> QED
      BY <1>9, <1>14, <3>1
  <2> QED
    BY <2>1, <2>2, <2>3
<1>16. PICK c : c = SubSeq(s, l + 1, l + m)
  OBVIOUS
<1>17. /\ c \in Seq(S) /\ Len(c) = IF l + 1 <= l + m THEN l + m - (l + 1) + 1 ELSE 0
       /\ \A k \in 1..l + m - (l + 1) + 1 : c[k] = s[l + 1 + k - 1]
  <2>1. PICK low \in Nat \ {0} : low = l + 1
    OBVIOUS
  <2>2. PICK high \in Int : high = l + m /\ high <= Len(s)
    BY <1>6
  <2>3. /\ SubSeq(s, low, high) \in Seq(S)
        /\ Len(SubSeq(s, low, high)) = IF low <= high THEN high - low + 1 ELSE 0
        /\ \A k \in 1..high - low + 1 : SubSeq(s, low, high)[k] = s[low + k - 1]
    BY <1>6, <2>2, PieceOf
  <2> QED
    BY <1>16, <2>1, <2>2, <2>3
<1>18. Len(c) = m
  BY <1>4, <1>17
<1>19. ASSUME NEW k \in 1..m
       PROVE  c[k] = w[k]
  <2>1. k \in 1..l + m - (l + 1) + 1 /\ l + 1 + k - 1 = l + k
    OBVIOUS
  <2> QED
    BY <1>6, <1>17, <2>1
<1>20. c = w
  BY <1>2, <1>17, <1>18, <1>19, SeqEqual
<1>21. get_comm(s) = c
  <2>1. e - 1 = l + m
    BY <1>15
  <2> QED
    BY <1>10, <1>12, <1>13, <1>16, <2>1, Zenon DEF get_comm
<1> QED
  BY <1>5, <1>20, <1>21

(* If a query spells a name and an id, they are what is read.              *)
LEMMA SpelledIsRead ==
  ASSUME NEW S, NEW q \in Seq(S), "nul" \notin S, Spelled(q) # {}
  PROVE  get_string(q) \in Spelled(q)
<1>1. \A k \in 1..Len(q) : q[k] # "nul"
  BY ElementOfSeq
<1>2. PICK n \in Nat : n = Len(q)
  OBVIOUS
<1>3. PICK p \in (1..n) \X (1..n) \X (1..n) :
        /\ p[1] < p[2] /\ p[2] < p[3]
        /\ q[p[1]] = "=" /\ q[p[2]] = "&" /\ q[p[3]] = "="
        /\ \A m \in 1..p[1] - 1        : q[m] # "="
        /\ \A m \in p[1] + 1..p[2] - 1 : q[m] # "&"
        /\ \A m \in p[2] + 1..p[3] - 1 : q[m] # "="
        /\ <<SubSeq(q, p[1] + 1, p[2] - 1), Rest(q, p[3] + 1)>> \in Spelled(q)
  BY <1>2 DEF Spelled
<1>4. PICK a \in 1..n : a = p[1]
  BY <1>3
<1>5. PICK b \in 1..n : b = p[2]
  BY <1>3
<1>6. PICK c \in 1..n : c = p[3]
  BY <1>3
<1>7. /\ a < b /\ b < c
      /\ q[a] = "=" /\ q[b] = "&" /\ q[c] = "="
      /\ \A m \in 1..a - 1     : q[m] # "="
      /\ \A m \in a + 1..b - 1 : q[m] # "&"
      /\ \A m \in b + 1..c - 1 : q[m] # "="
      /\ <<SubSeq(q, a + 1, b - 1), Rest(q, c + 1)>> \in Spelled(q)
  BY <1>3, <1>4, <1>5, <1>6
<1>8. \A k \in 1..n : At(q, k) = q[k] /\ q[k] # "nul"
  BY <1>1, <1>2 DEF At
<1>9. AfterEquals(q, 1) = a + 1
  <2>1. PICK j : j = AfterEquals(q, 1)
    OBVIOUS
  <2>2. /\ j \in 1 + 1..1 + 1 + Len(q)
        /\ At(q, j - 1) = "=" \/ At(q, j) = "nul"
        /\ \A k \in 1 + 1..j - 1 : At(q, k - 1) # "=" /\ At(q, k) # "nul"
    <3>1. 1 \in Nat \ {0}
      OBVIOUS
    <3> QED
      BY <1>1, <2>1, <3>1, AfterEqualsStops, Zenon
  <2>3. j \in Int /\ 2 <= j
    BY <1>2, <2>2
  <2>4. ~(j < a + 1)
    <3> SUFFICES ASSUME j < a + 1 PROVE FALSE
      OBVIOUS
    <3>1. j \in 1..n /\ j - 1 \in 1..n /\ j - 1 \in 1..a - 1
      BY <2>3
    <3> QED
      BY <1>7, <1>8, <2>2, <3>1
  <2>5. ~(a + 1 < j)
    <3> SUFFICES ASSUME a + 1 < j PROVE FALSE
      OBVIOUS
    <3>1. PICK k \in 1 + 1..j - 1 : k - 1 = a
      <4>1. a + 1 \in 1 + 1..j - 1 /\ a + 1 - 1 = a
        BY <2>3
      <4> QED
        BY <4>1
    <3>2. At(q, k - 1) # "="
      BY <2>2, <3>1, Zenon
    <3> QED
      BY <1>7, <1>8, <3>1, <3>2
  <2> QED
    BY <2>1, <2>3, <2>4, <2>5
<1>10. First(q, a + 1, "&") = b
  <2>1. PICK j : j = First(q, a + 1, "&")
    OBVIOUS
  <2>2. /\ j \in a + 1..a + 1 + Len(q) /\ At(q, j) \in {"&", "nul"}
        /\ \A k \in a + 1..j - 1 : At(q, k) \notin {"&", "nul"}
    <3>1. a + 1 \in Nat \ {0}
      OBVIOUS
    <3> QED
      BY <1>1, <2>1, <3>1, FirstStops, Zenon
  <2>3. j \in Int /\ a + 1 <= j
    BY <1>2, <2>2
  <2>4. ~(j < b)
    <3> SUFFICES ASSUME j < b PROVE FALSE
      OBVIOUS
    <3>1. j \in 1..n /\ j \in a + 1..b - 1
      BY <2>3
    <3> QED
      BY <1>7, <1>8, <2>2, <3>1
  <2>5. ~(b < j)
    <3> SUFFICES ASSUME b < j PROVE FALSE
      OBVIOUS
    <3>1. b \in a + 1..j - 1
      BY <1>7, <2>3
    <3> QED
      BY <1>7, <1>8, <2>2, <3>1
  <2> QED
    BY <2>1, <2>3, <2>4, <2>5
<1>11. AfterEquals(q, b) = c + 1
  <2>1. PICK j : j = AfterEquals(q, b)
    OBVIOUS
  <2>2. /\ j \in b + 1..b + 1 + Len(q)
        /\ At(q, j - 1) = "=" \/ At(q, j) = "nul"
        /\ \A k \in b + 1..j - 1 : At(q, k - 1) # "=" /\ At(q, k) # "nul"
    <3>1. b \in Nat \ {0}
      OBVIOUS
    <3> QED
      BY <1>1, <2>1, <3>1, AfterEqualsStops, Zenon
  <2>3. j \in Int /\ b + 1 <= j
    BY <1>2, <2>2
  <2>4. ~(j < c + 1)
    <3> SUFFICES ASSUME j < c + 1 PROVE FALSE
      OBVIOUS
    <3>1. j \in 1..n /\ j - 1 \in 1..n /\ (j - 1 = b \/ j - 1 \in b + 1..c - 1)
      BY <2>3
    <3> QED
      BY <1>7, <1>8, <2>2, <3>1
  <2>5. ~(c + 1 < j)
    <3> SUFFICES ASSUME c + 1 < j PROVE FALSE
      OBVIOUS
    <3>1. PICK k \in b + 1..j - 1 : k - 1 = c
      <4>1. c + 1 \in b + 1..j - 1 /\ c + 1 - 1 = c
        BY <1>7, <2>3
      <4> QED
        BY <4>1
    <3>2. At(q, k - 1) # "="
      BY <2>2, <3>1, Zenon
    <3> QED
      BY <1>7, <1>8, <3>1, <3>2
  <2> QED
    BY <2>1, <2>3, <2>4, <2>5
<1>12. get_string(q) = <<SubSeq(q, a + 1, b - 1), Rest(q, c + 1)>>
  BY <1>9, <1>10, <1>11, Zenon DEF get_string
<1> QED
  BY <1>7, <1>12, Zenon

(* The value of digits is a number.                                        *)
LEMMA ValueIsInt ==
  ASSUME NEW S, NEW s \in Seq(S), NEW n \in Nat, \A k \in 1..n : s[k] \in DOMAIN Digits
  PROVE  ValueOf(s, n) \in Int
<1>1. \A k \in 1..n : Digits[s[k]] \in Int
  BY DEF Digits
<1> DEFINE Val(f, k) == IF k = 0 THEN 0 ELSE 10 * f[k - 1] + Digits[s[k]]
           P == {m \in Nat : \E f : f = [k \in 0..m |-> Val(f, k)]}
<1>2. 0 \in P
  <2>1. [k \in 0..0 |-> 0] = [k \in 0..0 |-> Val([l \in 0..0 |-> 0], k)]
    OBVIOUS
  <2> QED
    BY <2>1
<1>3. ASSUME NEW m \in Nat, m \in P
      PROVE  m + 1 \in P
  <2>1. PICK f : f = [k \in 0..m |-> Val(f, k)]
    BY <1>3
  <2>2. PICK v : v = Val(f, m + 1)
    OBVIOUS
  <2>3. PICK g : g = [k \in 0..m + 1 |-> IF k = m + 1 THEN v ELSE f[k]]
    OBVIOUS
  <2>4. \A k \in 0..m + 1 : g[k] = Val(g, k)
    <3> SUFFICES ASSUME NEW k \in 0..m + 1 PROVE g[k] = Val(g, k)
      OBVIOUS
    <3>1. CASE k = m + 1
      <4>1. k - 1 \in 0..m + 1 /\ k - 1 # m + 1 /\ k # 0
        BY <3>1
      <4>2. g[k - 1] = f[k - 1]
        BY <2>3, <4>1
      <4> QED
        BY <2>2, <2>3, <3>1, <4>1, <4>2
    <3>2. CASE k # m + 1 /\ k # 0
      <4>1. k \in 0..m /\ k - 1 \in 0..m + 1 /\ k - 1 # m + 1
        BY <3>2
      <4>2. g[k - 1] = f[k - 1] /\ g[k] = f[k]
        BY <2>3, <3>2, <4>1
      <4>3. f[k] = Val(f, k)
        BY <2>1, <4>1
      <4> QED
        BY <3>2, <4>2, <4>3
    <3>3. CASE k = 0
      <4>1. k \in 0..m /\ k # m + 1
        BY <3>3
      <4> QED
        BY <2>1, <2>3, <3>3, <4>1
    <3> QED
      BY <3>1, <3>2, <3>3
  <2>5. g = [k \in 0..m + 1 |-> Val(g, k)]
    BY <2>3, <2>4
  <2> QED
    BY <2>5
<1>4. n \in P
  <2> HIDE DEF P
  <2> QED
    BY <1>2, <1>3, NumbersOneByOne
<1> DEFINE F == CHOOSE f : f = [k \in 0..n |-> Val(f, k)]
<1>5. F = [k \in 0..n |-> Val(F, k)]
  <2>1. \E f : f = [k \in 0..n |-> Val(f, k)]
    BY <1>4
  <2> QED
    BY <2>1, Zenon
<1>6. ValueOf(s, n) = F[n]
  BY Zenon DEF ValueOf
<1> HIDE DEF F, P
<1> DEFINE Q == {m \in Nat : m <= n => F[m] \in Int}
<1>7. 0 \in Q
  BY <1>5
<1>8. ASSUME NEW m \in Nat, m \in Q
      PROVE  m + 1 \in Q
  <2> SUFFICES ASSUME m + 1 <= n PROVE F[m + 1] \in Int
    OBVIOUS
  <2>1. m + 1 \in 0..n /\ m + 1 # 0 /\ m + 1 - 1 = m /\ m + 1 \in 1..n /\ m <= n
    OBVIOUS
  <2>2. F[m + 1] = 10 * F[m] + Digits[s[m + 1]]
    BY <1>5, <2>1
  <2>3. F[m] \in Int
    BY <1>8, <2>1
  <2> QED
    BY <1>1, <2>1, <2>2, <2>3
<1>9. n \in Q
  <2> HIDE DEF Q
  <2> QED
    BY <1>7, <1>8, NumbersOneByOne
<1> QED
  BY <1>6, <1>9

LEMMA AtoiIsInt ==
  ASSUME NEW S, NEW s \in Seq(S)
  PROVE  atoi(s) \in Int
<1>1. "nul" \notin {"sp"} /\ "nul" \notin DOMAIN Digits /\ 1 \in Nat \ {0}
  BY DEF Digits
<1>2. PICK begin : begin = Past(s, 1, {"sp"})
  OBVIOUS
<1>3. begin \in 1..1 + Len(s)
  BY <1>1, <1>2, PastStops, Zenon
<1>4. begin \in Nat \ {0} /\ begin + 1 \in Nat \ {0}
  BY <1>3
<1>5. PICK r : r = Rest(s, IF At(s, begin) = "-" THEN begin + 1 ELSE begin)
  OBVIOUS
<1>6. r \in Seq(S)
  BY <1>4, <1>5, RestOf
<1>7. PICK e : e = Past(r, 1, DOMAIN Digits)
  OBVIOUS
<1>8. e \in 1..1 + Len(r) /\ \A k \in 1..e - 1 : At(r, k) \in DOMAIN Digits
  BY <1>1, <1>6, <1>7, PastStops, Zenon
<1>9. e - 1 \in Nat
  BY <1>6, <1>8
<1>10. \A k \in 1..e - 1 : r[k] \in DOMAIN Digits
  <2> SUFFICES ASSUME NEW k \in 1..e - 1 PROVE r[k] \in DOMAIN Digits
    OBVIOUS
  <2>1. At(r, k) \in DOMAIN Digits /\ At(r, k) # "nul"
    BY <1>1, <1>8
  <2> QED
    BY <2>1, Zenon DEF At
<1>11. ValueOf(r, e - 1) \in Int
  BY <1>6, <1>9, <1>10, ValueIsInt
<1>12. -ValueOf(r, e - 1) \in Int
  BY <1>11
<1>13. atoi(s) = IF At(s, begin) = "-" THEN -ValueOf(r, e - 1) ELSE ValueOf(r, e - 1)
  BY <1>2, <1>5, <1>7, Zenon DEF atoi
<1> QED
  BY <1>11, <1>12, <1>13, Zenon

(* The rest of two texts, from a place in the second.                      *)
LEMMA RestInSecond ==
  ASSUME NEW S, NEW u \in Seq(S), NEW v \in Seq(S), NEW i \in Nat \ {0}
  PROVE  Rest(u \o v, Len(u) + i) = Rest(v, i)
<1>1. PICK m \in Nat : m = Len(u)
  OBVIOUS
<1>2. PICK n \in Nat : n = Len(v)
  OBVIOUS
<1>3. PICK x : x = u \o v
  OBVIOUS
<1>4. /\ x \in Seq(S) /\ Len(x) = m + n
      /\ \A k \in 1..m + n : x[k] = IF k <= m THEN u[k] ELSE v[k - m]
  BY <1>1, <1>2, <1>3, ConcatProperties
<1>5. PICK r : r = Rest(x, m + i)
  OBVIOUS
<1>6. PICK t : t = Rest(v, i)
  OBVIOUS
<1>7. /\ r \in Seq(S) /\ Len(r) = IF m + i <= Len(x) THEN Len(x) - (m + i) + 1 ELSE 0
      /\ \A k \in 1..Len(x) - (m + i) + 1 : r[k] = x[m + i + k - 1]
  <2>1. m + i \in Nat \ {0}
    OBVIOUS
  <2> QED
    BY <1>4, <1>5, <2>1, RestOf
<1>8. /\ t \in Seq(S) /\ Len(t) = IF i <= n THEN n - i + 1 ELSE 0
      /\ \A k \in 1..n - i + 1 : t[k] = v[i + k - 1]
  BY <1>2, <1>6, RestOf
<1>9. Len(r) = Len(t)
  BY <1>4, <1>7, <1>8
<1>10. ASSUME NEW k \in 1..Len(r)
       PROVE  r[k] = t[k]
  <2>1. k \in 1..n - i + 1 /\ k \in 1..Len(x) - (m + i) + 1
    BY <1>4, <1>7, <1>8, <1>9
  <2>2. /\ m + i + k - 1 \in 1..m + n /\ ~(m + i + k - 1 <= m)
        /\ m + i + k - 1 - m = i + k - 1
    BY <1>4, <2>1
  <2>3. r[k] = x[m + i + k - 1] /\ t[k] = v[i + k - 1]
    BY <1>7, <1>8, <2>1
  <2>4. x[m + i + k - 1] = v[i + k - 1]
    BY <1>4, <2>2
  <2> QED
    BY <2>3, <2>4
<1>11. r = t
  BY <1>7, <1>8, <1>9, <1>10, SeqEqual
<1> QED
  BY <1>1, <1>3, <1>5, <1>6, <1>11

LEMMA RestOfAll ==
  ASSUME NEW S, NEW s \in Seq(S)
  PROVE  Rest(s, 1) = s
<1>1. <<>> \in Seq(S) /\ Len(<<>>) = 0 /\ <<>> \o s = s
  BY EmptySeq, ConcatEmptySeq
<1>2. Rest(<<>> \o s, Len(<<>>) + 1) = s
  BY <1>1, RestBehind
<1> QED
  BY <1>1, <1>2

(* atoi does not look at blanks before its number.                         *)
LEMMA AtoiBehindBlanks ==
  ASSUME NEW S, NEW b \in Seq(S), NEW t \in Seq(S),
         \A k \in 1..Len(b) : b[k] = "sp", At(t, 1) # "sp"
  PROVE  atoi(b \o t) = atoi(t)
<1>1. "nul" \notin {"sp"} /\ 1 \in Nat \ {0} /\ 2 \in Nat \ {0} /\ 1 + 1 = 2
  OBVIOUS
<1>2. PICK l \in Nat : l = Len(b)
  OBVIOUS
<1>3. PICK n \in Nat : n = Len(t)
  OBVIOUS
<1>4. PICK s : s = b \o t
  OBVIOUS
<1>5. /\ s \in Seq(S) /\ Len(s) = l + n
      /\ \A k \in 1..l + n : s[k] = IF k <= l THEN b[k] ELSE t[k - l]
  BY <1>2, <1>3, <1>4, ConcatProperties
<1>6. \A k \in 1..l : At(s, k) = "sp"
  <2> SUFFICES ASSUME NEW k \in 1..l PROVE At(s, k) = "sp"
    OBVIOUS
  <2>1. k \in 1..l + n /\ k <= l /\ k \in 1..Len(s) /\ k \in Int
    BY <1>5
  <2> QED
    BY <1>2, <1>5, <2>1, AtEnd
<1>7. At(s, l + 1) = At(t, 1)
  <2>1. CASE n = 0
    <3>1. l + 1 \in Int /\ l + 1 > Len(s) /\ 1 \in Int /\ 1 > Len(t)
      BY <1>3, <1>5, <2>1
    <3> QED
      BY <1>5, <3>1, AtEnd
  <2>2. CASE n # 0
    <3>1. /\ l + 1 \in Int /\ l + 1 \in 1..Len(s) /\ 1 \in Int /\ 1 \in 1..Len(t)
          /\ l + 1 \in 1..l + n /\ ~(l + 1 <= l) /\ l + 1 - l = 1
      BY <1>3, <1>5, <2>2
    <3> QED
      BY <1>5, <3>1, AtEnd
  <2> QED
    BY <2>1, <2>2
<1>8. Past(s, 1, {"sp"}) = l + 1
  <2>1. PICK p : p = Past(s, 1, {"sp"})
    OBVIOUS
  <2>2. p \in 1..1 + Len(s) /\ At(s, p) \notin {"sp"} /\ \A k \in 1..p - 1 : At(s, k) \in {"sp"}
    BY <1>1, <1>5, <2>1, PastStops, Zenon
  <2>3. p \in Int /\ 1 <= p
    BY <1>5, <2>2
  <2>4. ~(p <= l)
    <3> SUFFICES ASSUME p <= l PROVE FALSE
      OBVIOUS
    <3>1. p \in 1..l
      BY <2>3
    <3> QED
      BY <1>6, <2>2, <3>1
  <2>5. ~(l + 1 < p)
    <3> SUFFICES ASSUME l + 1 < p PROVE FALSE
      OBVIOUS
    <3>1. l + 1 \in 1..p - 1
      BY <2>3
    <3> QED
      BY <1>7, <2>2, <3>1
  <2> QED
    BY <2>1, <2>3, <2>4, <2>5
<1>9. Past(t, 1, {"sp"}) = 1
  <2>1. PICK p : p = Past(t, 1, {"sp"})
    OBVIOUS
  <2>2. p \in 1..1 + Len(t) /\ \A k \in 1..p - 1 : At(t, k) \in {"sp"}
    BY <1>1, <2>1, PastStops, Zenon
  <2>3. p \in Int /\ 1 <= p
    BY <1>3, <2>2
  <2>4. ~(1 < p)
    <3> SUFFICES ASSUME 1 < p PROVE FALSE
      OBVIOUS
    <3>1. 1 \in 1..p - 1
      BY <2>3
    <3> QED
      BY <2>2, <3>1
  <2> QED
    BY <2>1, <2>3, <2>4
<1>10. Rest(s, l + 1) = Rest(t, 1) /\ Rest(s, l + 1 + 1) = Rest(t, 1 + 1)
  <2>1. l + 1 + 1 = l + 2
    OBVIOUS
  <2>2. Rest(s, l + 1) = Rest(t, 1) /\ Rest(s, l + 2) = Rest(t, 2)
    BY <1>1, <1>2, <1>4, RestInSecond
  <2> QED
    BY <1>1, <2>1, <2>2
<1>11. atoi(s) = atoi(t)
  <2>1. Rest(s, IF At(s, l + 1) = "-" THEN l + 1 + 1 ELSE l + 1)
          = Rest(t, IF At(t, 1) = "-" THEN 1 + 1 ELSE 1)
    BY <1>7, <1>10, Zenon
  <2> QED
    BY <1>7, <1>8, <1>9, <2>1, Zenon DEF atoi
<1> QED
  BY <1>4, <1>11

-----------------------------------------------------------------------------
(* What the texts of a request are read as.                                *)

Chars == Words \cup {"sp", "?", "HTTP", "nl"}

(* What follows the url.                                                   *)
Treaty == <<"sp", "HTTP", "nl">>

LEMMA AskFields ==
  ASSUME NEW a \in Asks
  PROVE  /\ a.lead \in Seq(Chars) /\ \A k \in 1..Len(a.lead) : a.lead[k] = "sp"
         /\ a.method \in Words /\ a.method # "sp" /\ a.method # "nul" /\ <<a.method>> \in Seq(Chars)
         /\ a.gap \in Seq(Chars) /\ a.gap # <<>> /\ \A k \in 1..Len(a.gap) : a.gap[k] = "sp"
         /\ a.target \in Seq(Chars) /\ a.target \in Seq(Words \ {"?"})
         /\ a.query # Nothing => a.query \in Seq(Words) /\ a.query \in Seq(Chars)
         /\ Url(a) \in Seq(Chars) /\ Treaty \in Seq(Chars)
         /\ a.space \in Seq(Chars \cup {"Content-Length:"})
         /\ \A k \in 1..Len(a.space) : a.space[k] = "sp"
         /\ a.length \in DOMAIN Decimal
<1>1. /\ a.lead \in Seq({"sp"}) /\ a.method \in Words /\ a.gap \in Seq({"sp"}) /\ a.gap # <<>>
      /\ a.target \in Seq(Words \ {"?"}) /\ a.query \in Seq(Words) \cup {Nothing}
      /\ a.space \in Seq({"sp"}) /\ a.length \in DOMAIN Decimal
  BY AsksAssumption
<1>2. {"sp"} \subseteq Chars /\ {"sp"} \subseteq Chars \cup {"Content-Length:"}
  BY DEF Chars
<1>3. Words \subseteq Chars /\ Words \ {"?"} \subseteq Chars
  BY DEF Chars
<1>4. /\ Seq({"sp"}) \subseteq Seq(Chars) /\ Seq(Words) \subseteq Seq(Chars)
      /\ Seq(Words \ {"?"}) \subseteq Seq(Chars)
      /\ Seq({"sp"}) \subseteq Seq(Chars \cup {"Content-Length:"})
  BY <1>2, <1>3, SeqMonotonic, Zenon
<1>5. a.method # "sp" /\ a.method # "nul" /\ <<a.method>> \in Seq(Chars)
  BY <1>1, <1>3, AsksAssumption
<1>6. /\ \A k \in 1..Len(a.lead) : a.lead[k] = "sp"
      /\ \A k \in 1..Len(a.gap) : a.gap[k] = "sp"
      /\ \A k \in 1..Len(a.space) : a.space[k] = "sp"
  BY <1>1, ElementOfSeq
<1>7. Treaty \in Seq(Chars)
  BY DEF Treaty, Chars
<1>8. a.query # Nothing => a.query \in Seq(Words) /\ a.query \in Seq(Chars)
  BY <1>1, <1>4, Zenon
<1>9. Url(a) \in Seq(Chars)
  <2>1. CASE a.query = Nothing
    BY <1>1, <1>4, <2>1, Zenon DEF Url
  <2>2. CASE a.query # Nothing
    <3>1. <<"?">> \in Seq(Chars)
      BY DEF Chars
    <3>2. <<"?">> \o a.query \in Seq(Chars)
      BY <1>8, <2>2, <3>1, ConcatProperties, Zenon
    <3>3. a.target \in Seq(Chars)
      BY <1>1, <1>4, Zenon
    <3>4. a.target \o (<<"?">> \o a.query) \in Seq(Chars)
      BY <3>2, <3>3, ConcatProperties, Zenon
    <3> QED
      BY <2>2, <3>4, Zenon DEF Url
  <2> QED
    BY <2>1, <2>2
<1> QED
  BY <1>1, <1>4, <1>5, <1>6, <1>7, <1>8, <1>9, Zenon

LEMMA LineParts ==
  ASSUME NEW a \in Asks
  PROVE  /\ Line(a) = a.lead \o (<<a.method>> \o (a.gap \o (Url(a) \o Treaty)))
         /\ Url(a) \o Treaty \in Seq(Chars)
         /\ a.gap \o (Url(a) \o Treaty) \in Seq(Chars)
<1>1. Line(a) = a.lead \o (<<a.method>> \o (a.gap \o (Url(a) \o Treaty)))
  BY Zenon DEF Line, Treaty
<1>2. Url(a) \o Treaty \in Seq(Chars)
  BY AskFields, ConcatProperties, Zenon
<1>3. a.gap \o (Url(a) \o Treaty) \in Seq(Chars)
  BY <1>2, AskFields, ConcatProperties, Zenon
<1> QED
  BY <1>1, <1>2, <1>3, Zenon

(* The method ends at a blank.                                             *)
LEMMA GapAhead ==
  ASSUME NEW a \in Asks
  PROVE  At(a.gap \o (Url(a) \o Treaty), 1) = "sp"
<1>1. PICK t \in Seq(Chars) : t = a.gap \o (Url(a) \o Treaty)
  BY LineParts
<1>2. PICK g \in Seq(Chars) : g = a.gap /\ g # <<>> /\ \A k \in 1..Len(g) : g[k] = "sp"
  BY AskFields
<1>3. PICK x \in Seq(Chars) : x = Url(a) \o Treaty
  BY LineParts
<1>4. PICK m \in Nat : m = Len(g) /\ m # 0
  BY <1>2, EmptySeq
<1>5. PICK n \in Nat : n = Len(x)
  OBVIOUS
<1>6. /\ Len(t) = m + n
      /\ \A k \in 1..m + n : t[k] = IF k <= m THEN g[k] ELSE x[k - m]
  <2>1. t = g \o x
    BY <1>1, <1>2, <1>3, Zenon
  <2> QED
    BY <1>4, <1>5, <2>1, ConcatProperties
<1>7. 1 \in 1..m + n /\ 1 <= m /\ 1 \in 1..Len(t) /\ 1 \in 1..Len(g)
  BY <1>4, <1>6
<1>8. At(t, 1) = "sp"
  BY <1>2, <1>6, <1>7 DEF At
<1> QED
  BY <1>1, <1>8

(* What is read as the method.                                             *)
LEMMA MethodRead ==
  ASSUME NEW a \in Asks
  PROVE  get_comm(Line(a)) = <<a.method>>
<1>1. PICK b \in Seq(Chars) : b = a.lead /\ \A k \in 1..Len(b) : b[k] = "sp"
  BY AskFields
<1>2. PICK w \in Seq(Chars) : w = <<a.method>>
  BY AskFields
<1>3. w # <<>> /\ Len(w) = 1 /\ \A k \in 1..Len(w) : w[k] \notin {"sp", "nul"}
  BY <1>2, AskFields
<1>4. PICK t \in Seq(Chars) : t = a.gap \o (Url(a) \o Treaty)
  BY LineParts
<1>5. At(t, 1) = "sp"
  BY <1>4, GapAhead
<1>6. get_comm(b \o (w \o t)) = w
  BY <1>1, <1>3, <1>5, FirstWord, Zenon
<1> QED
  BY <1>1, <1>2, <1>4, <1>6, LineParts, Zenon

(* The rest of two texts, from the second character of the first.          *)
LEMMA RestInFirst ==
  ASSUME NEW S, NEW u \in Seq(S), NEW v \in Seq(S), u # <<>>
  PROVE  Rest(u \o v, 2) = Rest(u, 2) \o v
<1>1. PICK m \in Nat : m = Len(u) /\ m # 0
  BY EmptySeq
<1>2. PICK n \in Nat : n = Len(v)
  OBVIOUS
<1>3. PICK x : x = u \o v
  OBVIOUS
<1>4. /\ x \in Seq(S) /\ Len(x) = m + n
      /\ \A k \in 1..m + n : x[k] = IF k <= m THEN u[k] ELSE v[k - m]
  BY <1>1, <1>2, <1>3, ConcatProperties
<1>5. PICK r : r = Rest(x, 2)
  OBVIOUS
<1>6. PICK t : t = Rest(u, 2)
  OBVIOUS
<1>7. 2 \in Nat \ {0}
  OBVIOUS
<1>8. /\ r \in Seq(S) /\ Len(r) = IF 2 <= Len(x) THEN Len(x) - 2 + 1 ELSE 0
      /\ \A k \in 1..Len(x) - 2 + 1 : r[k] = x[2 + k - 1]
  BY <1>4, <1>5, <1>7, RestOf
<1>9. /\ t \in Seq(S) /\ Len(t) = IF 2 <= m THEN m - 2 + 1 ELSE 0
      /\ \A k \in 1..m - 2 + 1 : t[k] = u[2 + k - 1]
  BY <1>1, <1>6, <1>7, RestOf
<1>10. Len(r) = m + n - 1 /\ Len(t) = m - 1
  BY <1>1, <1>4, <1>8, <1>9
<1>11. PICK y : y = t \o v
  OBVIOUS
<1>12. /\ y \in Seq(S) /\ Len(y) = m - 1 + n
       /\ \A k \in 1..m - 1 + n : y[k] = IF k <= m - 1 THEN t[k] ELSE v[k - (m - 1)]
  BY <1>2, <1>9, <1>10, <1>11, ConcatProperties
<1>13. ASSUME NEW k \in 1..Len(r)
       PROVE  r[k] = y[k]
  <2>1. /\ k \in Int /\ 1 <= k /\ k <= m + n - 1 /\ k \in 1..Len(x) - 2 + 1 /\ 2 + k - 1 = k + 1
        /\ k + 1 \in 1..m + n /\ k \in 1..m - 1 + n
    BY <1>4, <1>10
  <2>2. r[k] = x[k + 1]
    BY <1>8, <2>1
  <2>3. CASE k <= m - 1
    <3>1. k \in 1..m - 2 + 1 /\ k + 1 <= m
      BY <2>1, <2>3
    <3>2. t[k] = u[k + 1]
      BY <1>9, <2>1, <3>1
    <3> QED
      BY <1>4, <1>12, <2>1, <2>2, <2>3, <3>1, <3>2
  <2>4. CASE ~(k <= m - 1)
    <3>1. ~(k + 1 <= m) /\ k + 1 - m = k - (m - 1)
      BY <2>1, <2>4
    <3>2. x[k + 1] = v[k + 1 - m]
      BY <1>4, <2>1, <3>1
    <3>3. y[k] = v[k - (m - 1)]
      BY <1>12, <2>1, <2>4
    <3> QED
      BY <2>2, <3>1, <3>2, <3>3, Zenon
  <2> QED
    BY <2>3, <2>4
<1>14. Len(r) = Len(y)
  BY <1>10, <1>12
<1>15. r = y
  BY <1>8, <1>12, <1>13, <1>14, SeqEqual
<1> QED
  BY <1>3, <1>5, <1>6, <1>11, <1>15

LEMMA RestBlank ==
  ASSUME NEW S, NEW u \in Seq(S), \A k \in 1..Len(u) : u[k] = "sp"
  PROVE  Rest(u, 2) \in Seq(S) /\ \A k \in 1..Len(Rest(u, 2)) : Rest(u, 2)[k] = "sp"
<1>1. PICK m \in Nat : m = Len(u)
  OBVIOUS
<1>2. PICK t : t = Rest(u, 2)
  OBVIOUS
<1>3. /\ t \in Seq(S) /\ Len(t) = IF 2 <= m THEN m - 2 + 1 ELSE 0
      /\ \A k \in 1..m - 2 + 1 : t[k] = u[2 + k - 1]
  <2>1. 2 \in Nat \ {0}
    OBVIOUS
  <2> QED
    BY <1>1, <1>2, <2>1, RestOf
<1>4. ASSUME NEW k \in 1..Len(t)
      PROVE  t[k] = "sp"
  <2>1. k \in 1..m - 2 + 1 /\ 2 + k - 1 \in 1..m
    BY <1>3
  <2> QED
    BY <1>1, <1>3, <2>1
<1> QED
  BY <1>2, <1>3, <1>4

(* Where the url is looked for, if there is at most one blank at the       *)
(* beginning of the line.                                                  *)
LEMMA UrlAhead ==
  ASSUME NEW a \in Asks, Len(a.lead) <= 1
  PROVE  \E b \in Seq(Chars) : /\ \A k \in 1..Len(b) : b[k] = "sp"
                               /\ Rest(Line(a), 3) = b \o (Url(a) \o Treaty)
<1>1. PICK l \in Seq(Chars) : l = a.lead
  BY AskFields
<1>2. PICK m \in Seq(Chars) : m = <<a.method>> /\ Len(m) = 1
  BY AskFields
<1>3. PICK g \in Seq(Chars) : g = a.gap /\ g # <<>> /\ \A k \in 1..Len(g) : g[k] = "sp"
  BY AskFields
<1>4. PICK x \in Seq(Chars) : x = Url(a) \o Treaty
  BY LineParts
<1>5. PICK t \in Seq(Chars) : t = g \o x
  BY <1>3, <1>4, LineParts
<1>6. PICK s \in Seq(Chars) : s = m \o t
  BY <1>2, <1>5, ConcatProperties
<1>7. Line(a) = l \o s
  BY <1>1, <1>2, <1>3, <1>4, <1>5, <1>6, LineParts, Zenon
<1>8. 1 \in Nat \ {0} /\ 2 \in Nat \ {0} /\ 3 \in Nat \ {0} /\ 1 + 1 = 2 /\ 0 + 3 = 3 /\ 1 + 2 = 3
  OBVIOUS
<1>9. Rest(s, 2) = t
  <2>1. Rest(m \o t, Len(m) + 1) = t
    BY RestBehind
  <2> QED
    BY <1>2, <1>6, <1>8, <2>1, Zenon
<1>10. CASE Len(l) = 0
  <2>1. Rest(l \o s, Len(l) + 3) = Rest(s, 3)
    BY <1>8, RestInSecond
  <2>2. Rest(m \o t, Len(m) + 2) = Rest(t, 2)
    BY <1>8, RestInSecond
  <2>3. Rest(Line(a), 3) = Rest(t, 2)
    BY <1>2, <1>6, <1>7, <1>8, <1>10, <2>1, <2>2, Zenon
  <2>4. Rest(t, 2) = Rest(g, 2) \o x
    BY <1>3, <1>5, RestInFirst, Zenon
  <2>5. Rest(g, 2) \in Seq(Chars) /\ \A k \in 1..Len(Rest(g, 2)) : Rest(g, 2)[k] = "sp"
    BY <1>3, RestBlank
  <2> QED
    BY <1>4, <2>3, <2>4, <2>5, Zenon
<1>11. CASE Len(l) = 1
  <2>1. Rest(l \o s, Len(l) + 2) = Rest(s, 2)
    BY <1>8, RestInSecond
  <2>2. Rest(Line(a), 3) = t
    BY <1>7, <1>8, <1>9, <1>11, <2>1, Zenon
  <2> QED
    BY <1>3, <1>4, <1>5, <2>2, Zenon
<1>12. Len(l) = 0 \/ Len(l) = 1
  <2>1. PICK n \in Nat : n = Len(l)
    OBVIOUS
  <2>2. n <= 1
    BY <1>1, <2>1
  <2> QED
    BY <2>1, <2>2
<1> QED
  BY <1>10, <1>11, <1>12

(* Behind more blanks than one what is read as the url is the method.      *)
LEMMA MethodAgain ==
  ASSUME NEW a \in Asks, ~(Len(a.lead) <= 1)
  PROVE  get_comm(Rest(Line(a), 3)) = <<a.method>>
<1>1. PICK l \in Seq(Chars) : l = a.lead /\ \A k \in 1..Len(l) : l[k] = "sp"
  BY AskFields
<1>2. PICK n \in Nat : n = Len(l) /\ ~(n <= 1)
  BY <1>1
<1>3. PICK f \in Seq(Chars) : f = <<"sp", "sp">> /\ Len(f) = 2 /\ f[1] = "sp" /\ f[2] = "sp"
  <2>1. <<"sp", "sp">> \in Seq(Chars)
    BY DEF Chars
  <2> QED
    BY <2>1
<1>4. PICK b \in Seq(Chars) : Len(b) = n - 2 /\ \A k \in 1..Len(b) : b[k] = "sp"
  <2> DEFINE B == [k \in 1..n - 2 |-> "sp"]
  <2>1. n - 2 \in Nat /\ "sp" \in Chars
    BY <1>2 DEF Chars
  <2>2. B \in Seq(Chars) /\ Len(B) = n - 2 /\ \A k \in 1..n - 2 : B[k] = "sp"
    BY <2>1
  <2> QED
    BY <2>2
<1>5. l = f \o b
  <2>1. PICK x : x = f \o b
    OBVIOUS
  <2>2. PICK m \in Nat : m = n - 2
    BY <1>2
  <2>3. /\ x \in Seq(Chars) /\ Len(x) = 2 + m
        /\ \A k \in 1..2 + m : x[k] = IF k <= 2 THEN f[k] ELSE b[k - 2]
    BY <1>3, <1>4, <2>1, <2>2, ConcatProperties
  <2>4. Len(x) = Len(l)
    BY <1>2, <2>2, <2>3
  <2>5. ASSUME NEW k \in 1..Len(l)
        PROVE  l[k] = x[k]
    <3>1. CASE k <= 2
      <4>1. k = 1 \/ k = 2
        BY <1>2, <3>1
      <4> QED
        BY <1>1, <1>3, <2>3, <2>4, <3>1, <4>1
    <3>2. CASE ~(k <= 2)
      <4>1. k - 2 \in 1..Len(b)
        BY <1>2, <1>4, <3>2
      <4> QED
        BY <1>1, <1>4, <2>3, <2>4, <3>2, <4>1
    <3> QED
      BY <3>1, <3>2
  <2>6. l = x
    BY <2>3, <2>4, <2>5, SeqEqual
  <2> QED
    BY <2>1, <2>6
<1>6. PICK w \in Seq(Chars) : w = <<a.method>>
  BY AskFields
<1>7. w # <<>> /\ Len(w) = 1 /\ \A k \in 1..Len(w) : w[k] \notin {"sp", "nul"}
  BY <1>6, AskFields
<1>8. PICK t \in Seq(Chars) : t = a.gap \o (Url(a) \o Treaty) /\ At(t, 1) = "sp"
  BY LineParts, GapAhead
<1>9. PICK y \in Seq(Chars) : y = b \o (w \o t)
  BY ConcatProperties
<1>10. Line(a) = f \o y
  <2>1. PICK z \in Seq(Chars) : z = w \o t
    BY ConcatProperties
  <2>2. (f \o b) \o z = f \o (b \o z)
    BY ConcatAssociative, SMTT(30)
  <2>3. Line(a) = l \o (w \o t)
    BY <1>1, <1>6, <1>8, LineParts, Zenon
  <2> QED
    BY <1>5, <1>9, <2>1, <2>2, <2>3, Zenon
<1>11. Rest(Line(a), 3) = y
  <2>1. Rest(f \o y, Len(f) + 1) = y
    BY RestBehind
  <2>2. 2 + 1 = 3
    OBVIOUS
  <2> QED
    BY <1>3, <1>10, <2>1, <2>2, Zenon
<1>12. get_comm(b \o (w \o t)) = w
  BY <1>4, <1>7, <1>8, FirstWord, Zenon
<1> QED
  BY <1>6, <1>9, <1>11, <1>12

LEMMA NoNul == "nul" \notin Chars
BY AsksAssumption DEF Chars

(* What the line is parsed to.                                             *)
LEMMA LineParsed ==
  ASSUME NEW a \in Asks, NEW g, g = get_path_method_query(Line(a))
  PROVE  /\ g.method = <<a.method>> /\ g.cgi \in BOOLEAN
         /\ g.cgi /\ a.method = "GET" => a.query # Nothing /\ g.query = a.query
<1>1. get_comm(Line(a)) = <<a.method>> /\ Len(<<a.method>>) + 2 = 3
  BY MethodRead
<1>2. PICK url : url = get_comm(Rest(Line(a), 3))
  OBVIOUS
<1>3. PICK mark : mark = First(url, 1, "?")
  OBVIOUS
<1>4. Line(a) \in Seq(Chars)
  <2>1. <<a.method>> \o (a.gap \o (Url(a) \o Treaty)) \in Seq(Chars)
    BY AskFields, LineParts, ConcatProperties, Zenon
  <2>2. a.lead \in Seq(Chars)
    BY AskFields, Zenon
  <2>3. a.lead \o (<<a.method>> \o (a.gap \o (Url(a) \o Treaty))) \in Seq(Chars)
    BY <2>1, <2>2, ConcatProperties, Zenon
  <2> QED
    BY <2>3, LineParts, Zenon
<1>5. url \in Seq(Chars)
  <2>1. 3 \in Nat \ {0}
    OBVIOUS
  <2>2. Rest(Line(a), 3) \in Seq(Chars)
    BY <1>4, <2>1, RestOf, Zenon
  <2> QED
    BY <1>2, <2>2, CommType, Zenon
<1>6. /\ g.method = <<a.method>>
      /\ g.cgi = \/ <<a.method>> = <<"GET">> /\ mark <= Len(url)
                 \/ <<a.method>> = <<"POST">>
      /\ g.query = IF <<a.method>> = <<"GET">> THEN Rest(url, mark + 1) ELSE url
  BY <1>1, <1>2, <1>3 DEF get_path_method_query
<1>7. (<<a.method>> = <<"GET">>) <=> a.method = "GET"
  OBVIOUS
<1>8. (<<a.method>> = <<"POST">>) <=> a.method = "POST"
  OBVIOUS
<1>9. ASSUME g.cgi, a.method = "GET", Len(a.lead) <= 1
      PROVE  a.query # Nothing /\ g.query = a.query
  <2>1. mark <= Len(url) /\ g.query = Rest(url, mark + 1)
    BY <1>6, <1>7, <1>8, <1>9
  <2>2. /\ mark \in 1..1 + Len(url) /\ At(url, mark) \in {"?", "nul"}
        /\ \A k \in 1..mark - 1 : At(url, k) \notin {"?", "nul"}
    <3>1. 1 \in Nat \ {0}
      OBVIOUS
    <3> QED
      BY <1>3, <1>5, <3>1, FirstStops, Zenon
  <2>3. PICK b \in Seq(Chars) : /\ \A k \in 1..Len(b) : b[k] = "sp"
                                /\ Rest(Line(a), 3) = b \o (Url(a) \o Treaty)
    BY <1>9, UrlAhead
  <2>4. a.query # Nothing
    <3> SUFFICES ASSUME a.query = Nothing PROVE FALSE
      OBVIOUS
    <3> DEFINE S == Chars \ {"?"}
    <3>1. Url(a) = a.target /\ a.target \in Seq(Words \ {"?"})
      BY AskFields DEF Url
    <3>2. Words \ {"?"} \subseteq S
      BY DEF Chars
    <3>3. Url(a) \in Seq(S)
      <4>1. Seq(Words \ {"?"}) \subseteq Seq(S)
        BY <3>2, SeqMonotonic, Zenon
      <4> QED
        BY <3>1, <4>1
    <3>4. Treaty \in Seq(S)
      BY DEF Treaty, Chars
    <3>5. b \in Seq(S)
      <4>1. \A k \in 1..Len(b) : b[k] \in S
        BY <2>3 DEF Chars
      <4> QED
        BY <4>1
    <3> HIDE DEF S
    <3>6. Url(a) \o Treaty \in Seq(S)
      BY <3>3, <3>4, ConcatProperties, Zenon
    <3>7. b \o (Url(a) \o Treaty) \in Seq(S)
      BY <3>5, <3>6, ConcatProperties, Zenon
    <3>8. url \in Seq(S)
      BY <1>2, <2>3, <3>7, CommType, Zenon
    <3>9. mark \in 1..Len(url)
      BY <1>5, <2>1, <2>2
    <3>10. url[mark] \in S
      BY <3>8, <3>9, ElementOfSeq, Zenon
    <3>11. At(url, mark) = url[mark]
      BY <3>9, Zenon DEF At
    <3> QED
      BY <2>2, <3>10, <3>11, NoNul DEF S
  <2>5. PICK t \in Seq(Chars) : t = a.target /\ \A k \in 1..Len(t) : t[k] \notin {"?", "sp", "nul"}
    <3>1. \A k \in 1..Len(a.target) : a.target[k] \in Words \ {"?"}
      BY AskFields, ElementOfSeq
    <3> QED
      BY <3>1, AskFields, AsksAssumption
  <2>6. PICK q \in Seq(Chars) : q = a.query /\ \A k \in 1..Len(q) : q[k] \notin {"sp", "nul"}
    <3>1. \A k \in 1..Len(a.query) : a.query[k] \in Words
      BY <2>4, AskFields, ElementOfSeq
    <3> QED
      BY <2>4, <3>1, AskFields, AsksAssumption
  <2>7. PICK m \in Seq(Chars) : m = <<"?">> /\ Len(m) = 1 /\ m[1] = "?"
    <3>1. <<"?">> \in Seq(Chars)
      BY DEF Chars
    <3>2. Len(<<"?">>) = 1 /\ <<"?">>[1] = "?"
      OBVIOUS
    <3> QED
      BY <3>1, <3>2, Zenon
  <2>8. PICK w \in Seq(Chars) : w = t \o (m \o q)
    BY <2>5, <2>6, <2>7, ThreeTexts, Zenon
  <2>9. /\ Len(w) = Len(t) + 1 + Len(q)
        /\ \A k \in 1..Len(t) : w[k] = t[k]
        /\ \A k \in 1..1 : w[Len(t) + k] = m[k]
        /\ \A k \in 1..Len(q) : w[Len(t) + 1 + k] = q[k]
    BY <2>7, <2>8, ThreeTexts
  <2>10. w = Url(a)
    BY <2>4, <2>5, <2>6, <2>7, <2>8, Zenon DEF Url
  <2>11. PICK n \in Nat : n = Len(t)
    OBVIOUS
  <2>12. PICK l \in Nat : l = Len(q)
    OBVIOUS
  <2>13. /\ Len(w) = n + 1 + l /\ w[n + 1] = "?"
         /\ \A k \in 1..n : w[k] \notin {"?", "sp", "nul"}
    <3>1. w[n + 1] = m[1]
      BY <2>9, <2>11
    <3>2. \A k \in 1..n : w[k] = t[k] /\ t[k] \notin {"?", "sp", "nul"}
      BY <2>5, <2>9, <2>11, Zenon
    <3>3. Len(w) = n + 1 + l
      BY <2>9, <2>11, <2>12
    <3> QED
      BY <2>7, <3>1, <3>2, <3>3
  <2>14. \A k \in 1..l : w[n + 1 + k] \notin {"sp", "nul"}
    BY <2>6, <2>9, <2>11, <2>12
  <2>15. \A k \in 1..Len(w) : w[k] \notin {"sp", "nul"}
    <3> SUFFICES ASSUME NEW k \in 1..Len(w) PROVE w[k] \notin {"sp", "nul"}
      OBVIOUS
    <3>1. CASE k <= n + 1
      BY <2>13, <3>1
    <3>2. CASE k > n + 1
      <4>1. k - (n + 1) \in 1..l /\ n + 1 + (k - (n + 1)) = k
        BY <2>13, <3>2
      <4> QED
        BY <2>14, <4>1
    <3> QED
      BY <2>13, <3>1, <3>2
  <2>16. w # <<>>
    BY <2>13, EmptySeq
  <2>17. Treaty \in Seq(Chars) /\ At(Treaty, 1) = "sp"
    BY AskFields DEF Treaty, At
  <2>18. url = w
    <3>1. get_comm(b \o (w \o Treaty)) = w
      BY <2>3, <2>15, <2>16, <2>17, FirstWord, Zenon
    <3> QED
      BY <1>2, <2>3, <2>10, <3>1, Zenon
  <2>19. mark = n + 1
    <3>1. mark \in Int /\ 1 <= mark /\ mark <= n + 1 + l
      BY <2>1, <2>2, <2>13, <2>18
    <3>2. \A k \in 1..Len(w) : At(url, k) = w[k]
      BY <2>18, Zenon DEF At
    <3>3. ~(mark <= n)
      <4> SUFFICES ASSUME mark <= n PROVE FALSE
        OBVIOUS
      <4>1. mark \in 1..n /\ mark \in 1..Len(w)
        BY <2>13, <3>1
      <4> QED
        BY <2>2, <2>13, <3>2, <4>1
    <3>4. ~(n + 1 < mark)
      <4> SUFFICES ASSUME n + 1 < mark PROVE FALSE
        OBVIOUS
      <4>1. n + 1 \in 1..mark - 1 /\ n + 1 \in 1..Len(w)
        BY <2>13, <3>1
      <4> QED
        BY <2>2, <2>13, <3>2, <4>1
    <3> QED
      BY <3>1, <3>3, <3>4
  <2>20. Rest(w, n + 2) = q
    <3>1. 1 \in Nat \ {0} /\ 2 \in Nat \ {0} /\ 1 + 1 = 2
      OBVIOUS
    <3>2. PICK x \in Seq(Chars) : x = m \o q
      BY ConcatProperties
    <3>3. Rest(t \o x, Len(t) + 2) = Rest(x, 2)
      BY <3>1, RestInSecond
    <3>4. Rest(m \o q, Len(m) + 1) = q
      BY RestBehind
    <3> QED
      BY <2>7, <2>8, <2>11, <3>1, <3>2, <3>3, <3>4, Zenon
  <2>21. mark + 1 = n + 2
    BY <2>19
  <2> QED
    BY <2>1, <2>4, <2>6, <2>18, <2>20, <2>21, Zenon
<1>10. ASSUME g.cgi, a.method = "GET", ~(Len(a.lead) <= 1)
       PROVE  FALSE
  <2>1. mark <= Len(url)
    BY <1>6, <1>7, <1>8, <1>10
  <2>2. mark \in 1..1 + Len(url) /\ At(url, mark) \in {"?", "nul"}
    <3>1. 1 \in Nat \ {0}
      OBVIOUS
    <3> QED
      BY <1>3, <1>5, <3>1, FirstStops, Zenon
  <2>3. url = <<a.method>>
    BY <1>2, <1>10, MethodAgain
  <2>4. Len(url) = 1 /\ url[1] = "GET"
    BY <1>10, <2>3
  <2>5. mark = 1
    BY <2>1, <2>2, <2>4
  <2>6. At(url, mark) = "GET"
    BY <2>4, <2>5 DEF At
  <2> QED
    BY <2>2, <2>6
<1> QED
  BY <1>6, <1>9, <1>10

(* The length that a head declares, if a blank separates it.               *)
LEMMA HeadRead ==
  ASSUME NEW a \in Asks
  PROVE  /\ content_length(HeadLine(a)) \in Int
         /\ a.space # <<>> => content_length(HeadLine(a)) = a.length
<1> DEFINE S == Chars \cup {"Content-Length:"}
<1>1. "Content-Length:" \in S /\ "nl" \in S /\ Words \subseteq S
  BY DEF Chars
<1>2. a.space \in Seq(S) /\ \A k \in 1..Len(a.space) : a.space[k] = "sp"
  BY AskFields
<1> HIDE DEF S
<1>3. PICK c \in Seq(S) : c = <<"Content-Length:">> /\ Len(c) = 1
  <2>1. <<"Content-Length:">> \in Seq(S) /\ Len(<<"Content-Length:">>) = 1
    BY <1>1
  <2> QED
    BY <2>1, Zenon
<1>4. PICK d : d = Decimal[a.length]
  OBVIOUS
<1>5. d \in Seq(Words) /\ d # <<>> /\ atoi(d \o <<"nl">>) = a.length
  BY <1>4, AskFields, DecimalAssumption
<1>6. d \in Seq(S)
  <2>1. Seq(Words) \subseteq Seq(S)
    BY <1>1, SeqMonotonic, Zenon
  <2> QED
    BY <1>5, <2>1
<1>7. PICK e \in Seq(S) : e = <<"nl">>
  <2>1. <<"nl">> \in Seq(S)
    BY <1>1
  <2> QED
    BY <2>1, Zenon
<1>8. PICK t \in Seq(S) : t = d \o e
  BY <1>6, <1>7, ConcatProperties, Zenon
<1>9. PICK b \in Seq(S) : b = a.space /\ \A k \in 1..Len(b) : b[k] = "sp"
  BY <1>2
<1>10. PICK x \in Seq(S) : x = b \o t
  BY ConcatProperties, Zenon
<1>11. HeadLine(a) = c \o x
  BY <1>3, <1>4, <1>7, <1>8, <1>9, <1>10, Zenon DEF HeadLine
<1>12. 2 \in Nat \ {0} /\ 3 \in Nat \ {0} /\ 1 + 2 = 3
  OBVIOUS
<1>13. c \o x \in Seq(S)
  BY ConcatProperties, Zenon
<1>14. Rest(HeadLine(a), 3) \in Seq(S)
  BY <1>11, <1>12, <1>13, RestOf, Zenon
<1>15. content_length(HeadLine(a)) \in Int
  BY <1>14, AtoiIsInt, Zenon DEF content_length
<1>16. ASSUME a.space # <<>>
       PROVE  content_length(HeadLine(a)) = a.length
  <2>1. Rest(c \o x, Len(c) + 2) = Rest(x, 2)
    BY <1>12, RestInSecond
  <2>2. Rest(HeadLine(a), 3) = Rest(x, 2)
    BY <1>3, <1>11, <1>12, <2>1, Zenon
  <2>3. Rest(x, 2) = Rest(b, 2) \o t
    BY <1>9, <1>10, <1>16, RestInFirst, Zenon
  <2>4. PICK r \in Seq(S) : r = Rest(b, 2) /\ \A k \in 1..Len(r) : r[k] = "sp"
    BY <1>9, RestBlank
  <2>5. At(t, 1) # "sp"
    <3>1. PICK m \in Nat : m = Len(d) /\ m # 0
      BY <1>5, EmptySeq
    <3>2. PICK n \in Nat : n = Len(e)
      OBVIOUS
    <3>3. /\ Len(t) = m + n
          /\ \A k \in 1..m + n : t[k] = IF k <= m THEN d[k] ELSE e[k - m]
      BY <1>6, <1>8, <3>1, <3>2, ConcatProperties
    <3>4. 1 \in 1..m + n /\ 1 <= m /\ 1 \in 1..Len(t) /\ 1 \in 1..Len(d)
      BY <3>1, <3>3
    <3>5. t[1] = d[1] /\ At(t, 1) = t[1]
      BY <3>3, <3>4 DEF At
    <3>6. d[1] \in Words
      BY <1>5, <3>4, ElementOfSeq
    <3> QED
      BY <3>5, <3>6, AsksAssumption
  <2>6. atoi(r \o t) = atoi(t)
    BY <2>4, <2>5, AtoiBehindBlanks
  <2> QED
    BY <1>5, <1>7, <1>8, <2>2, <2>3, <2>4, <2>6, Zenon DEF content_length
<1> QED
  BY <1>15, <1>16

-----------------------------------------------------------------------------
(* Where a request is, and what was made of its line by then.              *)

(* The visit is booked before the head is read.                            *)
Booked == pc \in {"head", "exec", "program"} \/ page \in {"header", "cut short", "table"}

Parsed ==
  /\ ask \in Asks
  /\ pc \in {"line", "get", "post", "head", "exec", "program", "done", "aborted"}
  /\ page \in {"none", "file", "nothing", "header", "cut short", "table"}
  /\ pc \in {"line", "get", "post", "head"} => page = "none"
  /\ parsed = IF pc = "line" THEN Nothing ELSE get_path_method_query(Line(ask))
  /\ pc = "post" => parsed.cgi
  /\ Booked => parsed.cgi /\ visitor = get_string(parsed.query)
  /\ length \in Int
  /\ pc = "exec" \/ page = "header" =>
       length = IF parsed.method = <<"GET">> THEN 0 ELSE content_length(HeadLine(ask))

(* The steps of the program, and what it counts.                           *)
Shape ==
  /\ step \in {"idle", "link", "select", "fields", "rows", "printed", "crashed"}
  /\ Len(mytest.rows) <= MaxRows
  /\ step = "fields" => at \in 0..result.columns
  /\ step = "rows"   => at \in 0..Len(result.rows)

LEMMA ParsedInit == Init => Parsed
BY DEF Init, Parsed, Booked

LEMMA ParsedNext == Parsed /\ [Next]_vars => Parsed'
<1> SUFFICES ASSUME Parsed, [Next]_vars PROVE Parsed'
  OBVIOUS
<1>1. ask' = ask /\ ask \in Asks
  BY DEF Parsed, Next, vars, ParseLine, SendFile, BookVisit, BookVisitAborts, ReadHead, ExecFails,
         RunShow, RunDataBaseShow, ProgramStep, ProgramEnds, Over, SendFileAborts, SendNothing
<1>2. CASE ParseLine
  <2>1. /\ pc = "line" /\ parsed' = get_path_method_query(Line(ask))
        /\ pc' = IF parsed'.cgi THEN "post" ELSE "get"
        /\ UNCHANGED <<visitor, length, page>>
    BY <1>2 DEF ParseLine, Goto
  <2>2. page = "none" /\ length \in Int
    BY <2>1 DEF Parsed
  <2>3. parsed'.cgi \in BOOLEAN
    BY <2>1, LineParsed, <1>1
  <2> QED
    BY <1>1, <2>1, <2>2, <2>3 DEF Parsed, Booked
<1>3. CASE SendFile \/ SendFileAborts \/ SendNothing
  <2>1. /\ pc = "get" /\ UNCHANGED <<parsed, visitor, length>>
        /\ \/ pc' = "done" /\ page' \in {"file", "nothing"}
           \/ pc' = "aborted" /\ page' = page
    BY <1>3 DEF SendFile, SendFileAborts, SendNothing, Goto
  <2> QED
    BY <1>1, <2>1 DEF Parsed, Booked
<1>4. CASE BookVisit
  BY <1>1, <1>4 DEF BookVisit, Goto, Parsed, Booked
<1>5. CASE BookVisitAborts
  BY <1>1, <1>5 DEF BookVisitAborts, Goto, Parsed, Booked
<1>6. CASE ReadHead
  <2>1. content_length(HeadLine(ask)) \in Int
    BY <1>1, HeadRead
  <2>2. /\ pc = "head" /\ UNCHANGED <<parsed, visitor>>
        /\ length' = IF parsed.method = <<"GET">> THEN 0 ELSE content_length(HeadLine(ask))
        /\ page' \in {"nothing", "header"} /\ pc' \in {"done", "exec"}
    BY <1>6 DEF ReadHead, Goto
  <2>3. length' \in Int
    BY <2>1, <2>2
  <2> QED
    BY <1>1, <2>2, <2>3 DEF Parsed, Booked
<1>7. CASE ExecFails
  BY <1>1, <1>7 DEF ExecFails, Goto, Parsed, Booked
<1>8. CASE RunShow
  BY <1>1, <1>8 DEF RunShow, Goto, Parsed, Booked
<1>9. CASE RunDataBaseShow
  BY <1>1, <1>9 DEF RunDataBaseShow, Goto, Parsed, Booked
<1>10. CASE ProgramStep
  BY <1>1, <1>10 DEF ProgramStep, Parsed, Booked
<1>11. CASE ProgramEnds
  BY <1>1, <1>11 DEF ProgramEnds, Goto, Parsed, Booked
<1>12. CASE UNCHANGED vars
  BY <1>1, <1>12 DEF vars, Parsed, Booked
<1> QED
  BY <1>2, <1>3, <1>4, <1>5, <1>6, <1>7, <1>8, <1>9, <1>10, <1>11, <1>12 DEF Next, Over

LEMMA ShapeInit == Init => Shape
BY SizesAssumption DEF Init, TableInit, Shape, NoResult

LEMMA ShapeNext == IInv /\ Shape /\ [Next]_vars => Shape'
<1> SUFFICES ASSUME IInv, Shape, [Next]_vars PROVE Shape'
  OBVIOUS
<1>1. CASE \/ ParseLine \/ SendFile  \/ SendFileAborts \/ SendNothing
           \/ BookVisit \/ BookVisitAborts \/ ReadHead
           \/ ExecFails \/ RunShow \/ ProgramEnds \/ UNCHANGED vars
  <2>1. UNCHANGED table_vars
    BY <1>1 DEF ParseLine, SendFile, SendFileAborts, SendNothing, BookVisit, BookVisitAborts,
                ReadHead, ExecFails, RunShow, ProgramEnds, vars
  <2> QED
    BY <2>1 DEF Shape, table_vars
<1>2. CASE RunDataBaseShow
  BY <1>2, TablesAssumption DEF RunDataBaseShow, Shape
<1>3. CASE ProgramStep
  <2>1. CASE Insert
    <3>1. mytest.rows \in Seq(Rows) /\ Inserted \in Rows /\ mytest' = [mytest EXCEPT !.rows = Append(@, Inserted)]
          /\ mytest \in [columns : Nat, rows : Seq(Rows)]
      BY <2>1 DEF Insert, IInv, TableType, Rows
    <3>2. Len(mytest'.rows) = Len(mytest.rows) + 1 /\ Len(mytest.rows) \in Nat
      BY <3>1
    <3>3. Len(mytest'.rows) <= MaxRows
      BY <2>1, <3>2, SizesAssumption DEF Insert
    <3> QED
      BY <2>1, <3>3 DEF Insert, Shape
  <2>2. CASE inter_link
    BY <2>2 DEF inter_link, Shape
  <2>3. CASE Select
    <3>1. at = 0 /\ mytest.columns \in Nat
      BY <2>3 DEF Select, IInv, Untouched, TableType
    <3> QED
      BY <2>3, <3>1 DEF Select, Shape
  <2>4. CASE SelectFails
    BY <2>4 DEF SelectFails, Crash, Shape
  <2>5. CASE FetchField
    <3>1. at \in Nat /\ result.columns \in Nat
      BY DEF IInv, TableType
    <3> QED
      BY <2>5, <3>1 DEF FetchField, Shape
  <2>6. CASE FieldOverflow
    BY <2>6 DEF FieldOverflow, Crash, Shape
  <2>7. CASE FieldsDone
    <3>1. Len(result.rows) \in Nat
      BY DEF IInv, TableType
    <3> QED
      BY <2>7, <3>1 DEF FieldsDone, Shape
  <2>8. CASE CopyRow
    <3>1. at \in Nat /\ Len(result.rows) \in Nat
      BY DEF IInv, TableType
    <3> QED
      BY <2>8, <3>1 DEF CopyRow, Shape
  <2>9. CASE RowFails
    BY <2>9 DEF RowFails, Crash, Shape
  <2>10. CASE PrintTable
    BY <2>10 DEF PrintTable, Shape
  <2> QED
    BY <1>3, <2>1, <2>2, <2>3, <2>4, <2>5, <2>6, <2>7, <2>8, <2>9, <2>10 DEF ProgramStep, TableNext
<1> QED
  BY <1>1, <1>2, <1>3 DEF Next, Over

LEMMA InvAlways == Spec => [](IInv /\ Parsed /\ Shape)
<1>1. Init => IInv /\ Parsed /\ Shape
  BY InitIInv, ParsedInit, ShapeInit
<1>2. IInv /\ Parsed /\ Shape /\ [Next]_vars => (IInv /\ Parsed /\ Shape)'
  BY StepIInv, ParsedNext, ShapeNext
<1> QED
  BY <1>1, <1>2, PTL DEF Spec

(* The parser, the steps of the program and its counters stay within what  *)
(* they may be, and no row is counted that the table does not have.        *)
THEOREM TypeCorrect == Spec => []TypeOK
<1>1. IInv /\ Parsed /\ Shape => TypeOK
  <2> SUFFICES ASSUME IInv, Parsed, Shape PROVE TypeOK
    OBVIOUS
  <2>1. parsed # Nothing => parsed.cgi \in BOOLEAN
    BY LineParsed DEF Parsed
  <2>2. DOMAIN out = Cells
    <3>1. out = [k \in Cells |-> out[k]]
      BY DEF IInv, TableType
    <3>2. DOMAIN [k \in Cells |-> out[k]] = Cells
      OBVIOUS
    <3> QED
      BY <3>1, <3>2, Zenon
  <2> QED
    BY <2>1, <2>2 DEF Parsed, Shape, TypeOK
<1> QED
  BY <1>1, InvAlways, PTL

(* A GET that is sent the page of a program is booked as its query spells  *)
(* (server_http.h:535-537), for requests, programs and files of any kind.  *)
THEOREM VisitMatchesPageAlways == Spec => []VisitMatchesPage
<1>1. Parsed => VisitMatchesPage
  <2> SUFFICES ASSUME Parsed, AtProgram, ask.method = "GET"
               PROVE  Spelled(ask.query) = {} \/ visitor \in Spelled(ask.query)
    BY DEF VisitMatchesPage
  <2>1. /\ ask \in Asks /\ pc # "line" /\ parsed = get_path_method_query(Line(ask))
        /\ parsed.cgi /\ visitor = get_string(parsed.query)
    BY DEF Parsed, Booked, AtProgram
  <2>2. ask.query # Nothing /\ parsed.query = ask.query
    BY <2>1, LineParsed
  <2>3. ask.query \in Seq(Words) /\ "nul" \notin Words
    BY <2>1, <2>2, AskFields, AsksAssumption
  <2>4. Spelled(ask.query) # {} => get_string(ask.query) \in Spelled(ask.query)
    BY <2>3, SpelledIsRead, Zenon
  <2> QED
    BY <2>1, <2>2, <2>4, Zenon
<1> QED
  BY <1>1, InvAlways, PTL

(* The body that is relayed has the length that the head declares          *)
(* (server_http.h:416), if a blank separates the number from its name, for *)
(* every number that atoi reads.                                           *)
THEOREM LengthReadAlways == Spec => []LengthRead
<1>1. Parsed => LengthRead
  <2> SUFFICES ASSUME Parsed, ask.method = "POST", ask.space # <<>>, pc = "exec" \/ page = "header"
               PROVE  length = ask.length
    BY DEF LengthRead
  <2>1. ask \in Asks /\ pc # "line" /\ parsed = get_path_method_query(Line(ask))
    BY DEF Parsed
  <2>2. parsed.method = <<ask.method>>
    BY <2>1, LineParsed
  <2>3. length = content_length(HeadLine(ask))
    <3>1. <<ask.method>> # <<"GET">>
      OBVIOUS
    <3> QED
      BY <2>2, <3>1, Zenon DEF Parsed
  <2> QED
    BY <2>1, <2>3, HeadRead
<1> QED
  BY <1>1, InvAlways, PTL

=============================================================================
