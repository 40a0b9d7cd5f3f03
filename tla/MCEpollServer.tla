--------------------------- MODULE MCEpollServer ---------------------------
(* Instances of EpollServer for TLC: what clients send.                    *)
EXTENDS EpollServer

CONSTANTS c1, c2

(* A request of a browser in one piece, and in two with the line end       *)
(* between them; a line of the terminal client that asks for a file; a     *)
(* client that only connects.                                              *)
OnePiece  == <<Whole>>
TwoPieces == <<<<"G", "c", "cr">>, <<"lf", "cr", "lf">>>>
Terminal  == <<<<"G", "c", "nul">>>>
Mute      == <<>>

Both(first, second) == [c \in {c1, c2} |-> IF c = c1 THEN first ELSE second]

MCScripts == {Both(OnePiece, Terminal), Both(TwoPieces, Mute)}

MCThreads == 1..2
=============================================================================
