---------------------------- MODULE MCRollByTime ----------------------------
(* Instances of RollByTimeSink for TLC.                                      *)
EXTENDS RollByTimeSink

CONSTANTS t1, t2

Home == << <<"home">> >>
SomeRoot == {<<>>, Home}

(* 0:01:11 and 0:11:01 are spelled alike.                                    *)
SomeTimes == {70, 71, 661}

Slash == "/"
Bases ==
  { <<"log">>,
    <<".", Slash, "log", Slash, "a", Slash, "x">>,
    <<".", Slash, "log", Slash, Slash, "b", Slash, "x">>,
    <<"..", Slash, "log", Slash, "..", Slash, "srv", Slash, "x">>,
    <<Slash, "srv", Slash, "log", Slash, "x">>,
    <<"log", "\\", "a", Slash, "x">>,
    <<"log", "\\", Slash, "a", Slash, "x">> }

AnyGap == {"GAP_SECOND", "GAP_MINUTE", "GAP_HOUR", "GAP_DAY"}

(* Two sinks in any directories, one with three records, and two that share  *)
(* a file.                                                                   *)
Neighbours == [base : [{t1, t2} -> Bases], gap_type : {"GAP_DAY"}, records : {0}, ticks : {0}]
Alone == [base : [{t1} -> { <<"log">> }], gap_type : AnyGap, records : {3}, ticks : {3}]
Sharing == [base : [{t1, t2} -> { <<"log">> }], gap_type : {"GAP_SECOND"}, records : {2}, ticks : {2}]
SomeSetups == Neighbours \cup Alone \cup Sharing
=============================================================================
