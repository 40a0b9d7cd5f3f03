--------------------------- MODULE MCPageRequest ---------------------------
(* Instances of PageRequest for TLC.                                       *)
EXTENDS PageRequest

MCWords ==
  {"GET", "POST", "get", "/show", "/", "/docs", "/none", "/data", "/empty", "/locked", "a", "=", "&", "-", "0", "1", "2"}

Blanks(n) == [i \in 1..n |-> "sp"]

(* Every query of up to MaxQuery characters out of a letter and the two    *)
(* that get_string looks for.                                              *)
MaxQuery == 5
Queries  == UNION {[1..n -> {"a", "=", "&"}] : n \in 0..MaxQuery}

(* Lines of any shape with a head that is always the same, and heads of    *)
(* any shape with one line.                                                *)
MCDecimal ==
  [n \in {-1, 0, 2, 12} |->
     IF n = -1 THEN <<"-", "1">> ELSE IF n = 12 THEN <<"1", "2">> ELSE IF n = 0 THEN <<"0">> ELSE <<"2">>]

MCAsks ==
  [lead : {Blanks(n) : n \in 0..2}, method : {"GET", "POST", "get"}, gap : {Blanks(1), Blanks(2)},
   target : {<<"/show">>}, query : Queries \cup {Nothing},
   space : {Blanks(1)}, length : {2}]
  \cup
  [lead : {Blanks(0)}, method : {"GET", "POST"}, gap : {Blanks(1)},
   target : {<<>>, <<"/">>, <<"/docs">>, <<"/none">>, <<"/empty">>, <<"/locked">>, <<"/show">>, <<"/data">>},
   query : {Nothing, <<>>, <<"a", "=", "a", "&", "a", "=", "a">>},
   space : {Blanks(n) : n \in 0..3}, length : DOMAIN MCDecimal]

MCFiles   == {<<"/", "index.html">>, <<"/docs", "/", "index.html">>}
MCLocked  == {<<"/locked">>}
MCFolders == {<<>>, <<"/docs">>, <<"/empty">>}

MCShow         == <<"/show">>
MCDataBaseShow == <<"/data">>

(* A cell is named by its row and its column; the row inserted is row 0.   *)
MCInserted == [j \in 1..5 |-> <<0, j>>]

(* Tables of one column less than a row of strings has, of as many and of  *)
(* one more, with as many rows as there is room for and one more, and with *)
(* a NULL in one of them.                                                  *)
MCTables ==
  {[columns |-> w, rows |-> [i \in 1..n |-> [j \in 1..w |-> IF <<i, j>> = hole THEN Null ELSE <<i, j>>]]] :
     w \in {3, 4, 5}, n \in 0..3, hole \in {<<0, 0>>, <<2, 1>>}}
=============================================================================
