---------------------------- MODULE MCSyncLogger ----------------------------
(* An instance of SyncLogger for TLC.                                        *)
EXTENDS SyncLogger

CONSTANTS c1, c2

SomeCallers == {c1, c2}
SomeJobs == {<<c1, 1>>, <<c1, 2>>, <<c2, 1>>}
=============================================================================
