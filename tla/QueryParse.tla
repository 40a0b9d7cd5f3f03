----------------------------- MODULE QueryParse -----------------------------
(***************************************************************************)
(* The string functions of server/server_http.h: what a request line says  *)
(* (get_path_method_query), what a query says (get_string), and the number *)
(* of a Content-Length line.                                               *)
(*                                                                         *)
(* A text is a sequence of characters; a word whose letters the code never *)
(* looks at singly, such as "GET" or "/show", is one character, and so are *)
(* the blank "sp" and the line feed "nl".  Buffers are zeroed before use,  *)
(* so what is behind the end of a text is '\0'.                            *)
(***************************************************************************)
EXTENDS Integers, Sequences

At(s, i) == IF i \in 1..Len(s) THEN s[i] ELSE "nul"

(* The text that begins at position i.                                     *)
Rest(s, i) == SubSeq(s, i, Len(s))

(* The first position from i on that holds ch, or the '\0'.                *)
First(s, i, ch) ==
  CHOOSE j \in i..i + Len(s) :
    /\ At(s, j) \in {ch, "nul"}
    /\ \A k \in i..j - 1 : At(s, k) \notin {ch, "nul"}

(* The first position from i on that holds none of chs.                    *)
Past(s, i, chs) ==
  CHOOSE j \in i..i + Len(s) :
    At(s, j) \notin chs /\ \A k \in i..j - 1 : At(s, k) \in chs

(* The first word behind any blanks.  The caller gets its length, which    *)
(* does not count the blanks.                                              *)
get_comm(s) ==
  LET begin == Past(s, 1, {"sp"})
  IN  SubSeq(s, begin, First(s, begin, "sp") - 1)

(* The path is without its "htdocs".                                       *)
IndexOf(path) ==
  IF path # <<>> /\ path[Len(path)] = "/" THEN Append(path, "index.html") ELSE path

(* What is cut off behind the '?' is the query of a GET; the query of any  *)
(* other method is the whole url.                                          *)
get_path_method_query(buf) ==
  LET method == get_comm(buf)
      url    == get_comm(Rest(buf, Len(method) + 2))
      mark   == First(url, 1, "?")
      cut    == method = <<"GET">> /\ mark <= Len(url)
  IN  [method |-> method,
       cgi    |-> cut \/ method = <<"POST">>,
       query  |-> IF method = <<"GET">> THEN Rest(url, mark + 1) ELSE url,
       path   |-> IndexOf(IF cut THEN SubSeq(url, 1, mark - 1) ELSE url)]

(* Where the loop stops that goes on behind the next '=', from position i: *)
(* it looks at the character it leaves, and for '\0' at the next.         *)
AfterEquals(s, i) ==
  CHOOSE j \in i + 1..i + 1 + Len(s) :
    /\ At(s, j - 1) = "=" \/ At(s, j) = "nul"
    /\ \A k \in i + 1..j - 1 : At(s, k - 1) # "=" /\ At(s, k) # "nul"

(* The id with the key before it.  This, and content_length_SkipsTwo, are  *)
(* not part of the specification: they are the definitions after them,     *)
(* made wrong in a plausible way.                                          *)
get_string_KeepsKey(query) ==
  LET name == AfterEquals(query, 1)
      amp  == First(query, name, "&")
  IN  <<SubSeq(query, name, amp - 1), Rest(query, amp + 1)>>

(* Name and id of a query.                                                 *)
get_string(query) ==
  LET name == AfterEquals(query, 1)
      amp  == First(query, name, "&")
  IN  <<SubSeq(query, name, amp - 1), Rest(query, AfterEquals(query, amp))>>

Digits == [d \in {"0", "1", "2"} |-> IF d = "0" THEN 0 ELSE IF d = "1" THEN 1 ELSE 2]

(* The value of the first n digits.                                        *)
ValueOf(digits, n) ==
  LET value[k \in 0..n] == IF k = 0 THEN 0 ELSE 10 * value[k - 1] + Digits[digits[k]]
  IN  value[n]

(* atoi: blanks, a sign, digits.                                           *)
atoi(s) ==
  LET begin    == Past(s, 1, {"sp"})
      negative == At(s, begin) = "-"
      digits   == Rest(s, IF negative THEN begin + 1 ELSE begin)
      value    == ValueOf(digits, Past(digits, 1, DOMAIN Digits) - 1)
  IN  IF negative THEN -value ELSE value

content_length_SkipsTwo(line) == atoi(Rest(line, 4))

(* A line of the head: "Content-Length:" is one character, and the number  *)
(* is read from the second one behind it.                                  *)
content_length(line) == atoi(Rest(line, 3))

=============================================================================
