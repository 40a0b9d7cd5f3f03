-------------------------- MODULE MCRequestReader --------------------------
(* Heads of up to three lines around the size of the buffer, as a browser, *)
(* the client of client/ and a client that ends lines in "\n" send them.   *)
EXTENDS RequestReader, FiniteSets

Lens == 0..2 * (BufSize - 1) + 1

Heads == {<<a, b, 0>> : a \in Lens, b \in Lens} \cup {<<a, b>> : a \in Lens, b \in Lens}

Sent(eol) == [lens : Heads, eol : {eol}, body : {0, 2, BufSize - 1}, closes : BOOLEAN]

Browser == Sent(<<"r", "n">>)

(* client.cpp sends each line with its "\n" replaced by "\0".              *)
OwnClient == Sent(<<"z">>)

BareLineFeed == Sent(<<"n">>)

AnyClient == Browser \cup OwnClient \cup BareLineFeed
=============================================================================
