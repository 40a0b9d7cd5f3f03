---------------------------- MODULE MCWorkTime ----------------------------
(* Differences on both sides of every carry of calculat_work_time, in      *)
(* seconds: a minute, an hour and an eight-hour day, and three of a clock  *)
(* that was set back between arrival and departure.                        *)
EXTENDS WorkTime

MCDifferences == {-3601, -60, -1, 0, 59, 60, 61, 3599, 3600, 28740, 28799, 28800}

=============================================================================
