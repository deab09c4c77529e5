---------------------------- MODULE MCThreadPool ----------------------------
(* An instance of ThreadPool for TLC: the pool may have any number of its   *)
(* threads, none included (thread_count is 0 when config.conf is missing).  *)
EXTENDS ThreadPool

AnyPool == SUBSET Workers
=============================================================================
