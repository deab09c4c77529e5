---------------------------- MODULE MCAsyncLooper ----------------------------
(* Instances of AsyncLooper for TLC.  The widths of int and size_t are scaled *)
(* down, and the numbers of config.conf with them.                           *)
EXTENDS AsyncLooper

(* threshold as in the shipped config.conf: above any size the buffer has.   *)
Shipped == [threshold |-> 5, linear_growth |-> 2]

(* A config.conf whose buffers grow by steps, large enough for every record. *)
Linear == [threshold |-> 0, linear_growth |-> 2]

(* config.conf not found: JsonData reads zeros from a null value.            *)
Missing == [threshold |-> 0, linear_growth |-> 0]

(* A step so large that the int in ToBeEnough turns negative after two.      *)
Wide == [threshold |-> 0, linear_growth |-> 3]

AllConfs == {Shipped, Linear, Missing, Wide}
OnlyLinear == {Linear}
OnlyShipped == {Shipped}

BothTypes == {"ASYNC_SAFE", "ASYNC_UNSAFE"}
OnlySafe == {"ASYNC_SAFE"}
OnlyUnsafe == {"ASYNC_UNSAFE"}
=============================================================================
