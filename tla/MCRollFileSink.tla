--------------------------- MODULE MCRollFileSink ---------------------------
(* Instances of RollFileSink for TLC.                                        *)
EXTENDS RollFileSink

CONSTANTS t1, t2

(* One thread with four calls, or two with one call each.                    *)
Alones == [callers : {{t1}}, max_size : {0, 2, 3}, flush_log : {0, 1, 2}, max_calls : {4}]
Pairs == [callers : {{t1, t2}}, max_size : {1}, flush_log : {0, 1, 2}, max_calls : {1}]
AnySetup == Alones \cup Pairs

TwoWriters == [callers : {{t1, t2}}, max_size : {1}, flush_log : {0}, max_calls : {1}]

(* The day of the month and the hour stand for the six fields of a time: 11 *)
(* at hour 1 is spelled like 1 at hour 11, and 1 at hour 12 like neither.   *)
SomeTimes == << <<1, 11>>, <<1, 12>>, <<11, 1>> >>
OneTime == << <<1, 11>> >>
=============================================================================
