----------------------------- MODULE AsyncLooper -----------------------------
(***************************************************************************)
(* AsyncLooper (looper.hpp) with the life cycle its owner AsyncLogger      *)
(* (logger.hpp) gives it: threads that hold a Logger::ptr call Push, one   *)
(* worker thread swaps the two buffers and hands the full one to the       *)
(* callback, and the destructor stops and joins the worker once the last   *)
(* Logger::ptr is gone.                                                    *)
(*                                                                         *)
(* A step is what a thread does between two points where another thread    *)
(* can act: taking mtx_, what follows under it, and each access that is    *)
(* made without it.                                                        *)
(***************************************************************************)
EXTENDS Buffer, FiniteSets

CONSTANTS
  Producers,   \* threads that log
  Registry,    \* LoggerManager, an owner that never logs
  Lens,        \* lengths of the formatted records
  MaxPush,     \* bound: Push calls per thread
  Confs,       \* configurations the process may have loaded
  AsyncTypes   \* values async_type_ may be constructed with

ASSUME LooperAssumption ==
  /\ Registry \notin Producers
  /\ Lens \subseteq Nat
  /\ MaxPush \in Nat
  /\ Confs \subseteq Conf
  /\ AsyncTypes \subseteq {"ASYNC_SAFE", "ASYNC_UNSAFE"}

VARIABLES
  conf,       \* *g_conf_data, loaded once when the process starts
  async_type, \* async_type_, fixed by the constructor
  ready,      \* callback_ is constructed: the constructor has returned
  refs,       \* who holds a Logger::ptr to the logger that owns the looper
  ppc,        \* where each thread is in Push
  arg,        \* the record each thread is pushing, or pushed last
  prod,       \* buffer_productor_
  cons,       \* buffer_consumer_
  wpc,        \* where thread_ is in ThreadEntry
  stop,       \* stop_
  joined,     \* thread_.join() has returned: the looper is destroyed
  fault,      \* the undefined behaviour the process ran into, if any
  accepted,   \* history: records (of at least one byte) pushed, in order
  delivered   \* history: records handed to the callback, in order

setup == <<conf, async_type>>
owners == <<ready, refs>>
shutdown == <<stop, joined>>
history == <<accepted, delivered>>
vars == <<setup, owners, ppc, arg, prod, cons, wpc, shutdown, fault, history>>

Record == [from : Producers, no : 1 .. MaxPush, len : Lens]
NoRecord == [from |-> Registry, no |-> 0, len |-> 0]

BufferType == [size : 0 .. MaxVec, w : Nat, r : Nat, data : Seq(Record)]

(* The variables range over the values the code gives them; no vector is   *)
(* larger than resize() can deliver.                                       *)
TypeOK ==
  /\ conf \in Conf
  /\ async_type \in {"ASYNC_SAFE", "ASYNC_UNSAFE"}
  /\ ready \in BOOLEAN
  /\ refs \subseteq Producers \cup {Registry}
  /\ ppc \in [Producers -> {"out", "lock", "locked", "waiting"}]
  /\ arg \in [Producers -> Record \cup {NoRecord}]
  /\ prod \in BufferType
  /\ cons \in BufferType
  /\ wpc \in {"loop", "locked", "callback", "reset", "peek", "exited"}
  /\ stop \in BOOLEAN
  /\ joined \in BOOLEAN
  /\ fault \in {"none", "no_callback", "overrun"}
  /\ accepted \in Seq(Record)
  /\ delivered \in Seq(Record)

Init ==
  /\ conf \in Confs
  /\ async_type \in AsyncTypes
  /\ ready = FALSE
  /\ refs = {}
  /\ ppc = [p \in Producers |-> "out"]
  /\ arg = [p \in Producers |-> NoRecord]
  /\ prod = NewBuffer
  /\ cons = NewBuffer
  /\ wpc = "loop"     \* thread_ is declared before callback_ and starts first
  /\ stop = FALSE
  /\ joined = FALSE
  /\ fault = "none"
  /\ accepted = <<>>
  /\ delivered = <<>>

Running == fault = "none"

(* Nobody holds mtx_.                                                      *)
Unlocked == wpc # "locked" /\ \A p \in Producers : ppc[p] # "locked"

-----------------------------------------------------------------------------
(* Owners.                                                                 *)

(* The constructor initialises its last member, callback_, and returns; the *)
(* builder then stores the logger in the registry.                         *)
Construct ==
  /\ Running /\ ~ready
  /\ ready' = TRUE
  /\ refs' = {Registry}
  /\ UNCHANGED <<setup, ppc, arg, prod, cons, wpc, shutdown, fault, history>>

(* GetLogger copies the registry's Logger::ptr.                            *)
Acquire(p) ==
  /\ Running /\ Registry \in refs /\ p \notin refs
  /\ refs' = refs \cup {p}
  /\ UNCHANGED <<setup, ready, ppc, arg, prod, cons, wpc, shutdown, fault, history>>

(* A Logger::ptr is dropped; a thread keeps its own until its call returns. *)
Release(h) ==
  /\ Running /\ h \in refs
  /\ h \in Producers => ppc[h] = "out"
  /\ refs' = refs \ {h}
  /\ UNCHANGED <<setup, ready, ppc, arg, prod, cons, wpc, shutdown, fault, history>>

-----------------------------------------------------------------------------
(* Push, called by thread p.                                               *)

Call(p, len) ==
  /\ Running /\ p \in refs /\ ppc[p] = "out" /\ arg[p].no < MaxPush
  /\ ppc' = [ppc EXCEPT ![p] = "lock"]
  /\ arg' = [arg EXCEPT ![p] = [from |-> p, no |-> @.no + 1, len |-> len]]
  /\ UNCHANGED <<setup, owners, prod, cons, wpc, shutdown, fault, history>>

Lock(p) ==
  /\ Running /\ ppc[p] = "lock" /\ Unlocked
  /\ ppc' = [ppc EXCEPT ![p] = "locked"]
  /\ UNCHANGED <<setup, owners, arg, prod, cons, wpc, shutdown, fault, history>>

(* The predicate of cond_productor_.wait; ASYNC_UNSAFE does not wait.      *)
MayWrite(p) ==
  async_type = "ASYNC_SAFE" => arg[p].len <= WriteableSize(prod)

Wait(p) ==
  /\ Running /\ ppc[p] = "locked" /\ ~MayWrite(p)
  /\ ppc' = [ppc EXCEPT ![p] = "waiting"]
  /\ UNCHANGED <<setup, owners, arg, prod, cons, wpc, shutdown, fault, history>>

(* A condition variable may wake a waiter on its own.                      *)
SpuriousWake(p) ==
  /\ Running /\ ppc[p] = "waiting"
  /\ ppc' = [ppc EXCEPT ![p] = "lock"]
  /\ UNCHANGED <<setup, owners, arg, prod, cons, wpc, shutdown, fault, history>>

(* The exit of Push, normal or by exception: mtx_ is unlocked.             *)
LeavePush(p) ==
  /\ ppc' = [ppc EXCEPT ![p] = "out"]
  /\ UNCHANGED <<setup, owners, arg, cons, wpc, shutdown, delivered>>

(* The record is copied behind write_pos_.  cond_consumer_.notify_one finds *)
(* no waiter: see WaitReturns.                                             *)
PushWrites(p) ==
  LET len == arg[p].len
  IN  /\ Running /\ ppc[p] = "locked" /\ MayWrite(p)
      /\ ~GrowthThrows(conf, prod, len)
      /\ Fits(ToBeEnough(conf, prod, len), len)
      /\ prod' = PushRecord(conf, prod, arg[p], len)
      /\ accepted' = IF len = 0 THEN accepted ELSE Append(accepted, arg[p])
      /\ LeavePush(p)
      /\ UNCHANGED fault

(* resize() throws through Push: the record is lost, nothing else changes. *)
PushThrows(p) ==
  /\ Running /\ ppc[p] = "locked" /\ MayWrite(p)
  /\ GrowthThrows(conf, prod, arg[p].len)
  /\ LeavePush(p)
  /\ UNCHANGED <<prod, fault, accepted>>

(* One growth was not enough: std::copy writes past the end of the vector. *)
(* The behaviour of the process is undefined from here on and the model    *)
(* stops.                                                                  *)
PushOverruns(p) ==
  LET len == arg[p].len
  IN  /\ Running /\ ppc[p] = "locked" /\ MayWrite(p)
      /\ ~GrowthThrows(conf, prod, len)
      /\ ~Fits(ToBeEnough(conf, prod, len), len)
      /\ fault' = "overrun"
      /\ LeavePush(p)
      /\ UNCHANGED <<prod, accepted>>

-----------------------------------------------------------------------------
(* ThreadEntry, run by thread_.                                            *)

WorkerLock ==
  /\ Running /\ wpc = "loop" /\ Unlocked
  /\ wpc' = "locked"
  /\ UNCHANGED <<setup, owners, ppc, arg, prod, cons, shutdown, fault, history>>

(* cond_consumer_.wait is reached only when stop_ is set, and its predicate *)
(* then holds at once: the call never suspends the worker.                 *)
WaitReturns == IsEmpty(prod) /\ stop => stop \/ ~IsEmpty(prod)

(* cond_productor_.notify_one, in ASYNC_SAFE: one waiter, if there is one. *)
NotifyProducer ==
  LET waiters == {p \in Producers : ppc[p] = "waiting"}
  IN  IF async_type = "ASYNC_SAFE" /\ waiters # {}
      THEN \E p \in waiters : ppc' = [ppc EXCEPT ![p] = "lock"]
      ELSE UNCHANGED ppc

SwapBuffers ==
  /\ Running /\ wpc = "locked" /\ WaitReturns
  /\ prod' = cons
  /\ cons' = prod
  /\ NotifyProducer
  /\ wpc' = "callback"
  /\ UNCHANGED <<setup, owners, arg, shutdown, fault, history>>

RunCallback ==
  /\ Running /\ wpc = "callback" /\ ready
  /\ delivered' = delivered \o cons.data
  /\ wpc' = "reset"
  /\ UNCHANGED <<setup, owners, ppc, arg, prod, cons, shutdown, fault, accepted>>

(* callback_ is called before its constructor has run.                     *)
CallbackMissing ==
  /\ Running /\ wpc = "callback" /\ ~ready
  /\ fault' = "no_callback"
  /\ UNCHANGED <<setup, owners, ppc, arg, prod, cons, wpc, shutdown, history>>

(* A slip for the runs to find: Stop ends the worker without a last look.  *)
ResetAndLeave ==
  /\ Running /\ wpc = "reset"
  /\ cons' = Reset(cons)
  /\ wpc' = IF stop THEN "exited" ELSE "loop"
  /\ UNCHANGED <<setup, owners, ppc, arg, prod, shutdown, fault, history>>

(* Reset, and the read of stop_ in the exit test.                          *)
ResetAndTest ==
  /\ Running /\ wpc = "reset"
  /\ cons' = Reset(cons)
  /\ wpc' = IF stop THEN "peek" ELSE "loop"
  /\ UNCHANGED <<setup, owners, ppc, arg, prod, shutdown, fault, history>>

(* A slip for the runs to find: the exit test on emptiness is inverted.    *)
PeekInverted ==
  /\ Running /\ wpc = "peek"
  /\ wpc' = IF IsEmpty(prod) THEN "loop" ELSE "exited"
  /\ UNCHANGED <<setup, owners, ppc, arg, prod, cons, shutdown, fault, history>>

(* The rest of the exit test reads buffer_productor_ without mtx_.         *)
Peek ==
  /\ Running /\ wpc = "peek"
  /\ wpc' = IF IsEmpty(prod) THEN "exited" ELSE "loop"
  /\ UNCHANGED <<setup, owners, ppc, arg, prod, cons, shutdown, fault, history>>

-----------------------------------------------------------------------------
(* Stop, run by the destructor.                                            *)

(* A slip for the runs to find: Stop called while the logger is in use.    *)
BeginStopInUse ==
  /\ Running /\ ready /\ ~stop
  /\ stop' = TRUE
  /\ UNCHANGED <<setup, owners, ppc, arg, prod, cons, wpc, joined, fault, history>>

(* The last Logger::ptr is gone: ~AsyncLogger, ~AsyncLooper, stop_ = true. *)
BeginStop ==
  /\ Running /\ ready /\ refs = {} /\ ~stop
  /\ stop' = TRUE
  /\ UNCHANGED <<setup, owners, ppc, arg, prod, cons, wpc, joined, fault, history>>

Join ==
  /\ Running /\ stop /\ ~joined /\ wpc = "exited"
  /\ joined' = TRUE
  /\ UNCHANGED <<setup, owners, ppc, arg, prod, cons, wpc, stop, fault, history>>

(* The looper is destroyed, or the process has run into a fault.           *)
Terminated ==
  /\ joined \/ ~Running
  /\ UNCHANGED vars

-----------------------------------------------------------------------------
Push(p) ==
  \/ \E len \in Lens : Call(p, len)
  \/ Lock(p) \/ Wait(p) \/ SpuriousWake(p)
  \/ PushWrites(p) \/ PushThrows(p) \/ PushOverruns(p)

ThreadEntry ==
  WorkerLock \/ SwapBuffers \/ RunCallback \/ CallbackMissing \/ ResetAndTest
  \/ Peek

Next ==
  \/ Construct
  \/ \E p \in Producers : Acquire(p) \/ Push(p)
  \/ \E h \in Producers \cup {Registry} : Release(h)
  \/ ThreadEntry
  \/ BeginStop \/ Join
  \/ Terminated

Spec == Init /\ [][Next]_vars

(* Every started thread keeps running, and a thread asking for mtx_ gets it *)
(* if mtx_ is free again and again.  Nobody has to log, to take or to drop *)
(* a Logger::ptr, and nothing wakes spuriously on purpose.                 *)
Fairness ==
  /\ WF_vars(Construct)
  /\ \A p \in Producers :
        /\ SF_vars(Lock(p))
        /\ WF_vars(Wait(p))
        /\ WF_vars(PushWrites(p) \/ PushThrows(p) \/ PushOverruns(p))
  /\ SF_vars(WorkerLock)
  /\ WF_vars(SwapBuffers)
  /\ WF_vars(RunCallback \/ CallbackMissing)
  /\ WF_vars(ResetAndTest)
  /\ WF_vars(Peek)
  /\ WF_vars(BeginStop)
  /\ WF_vars(Join)

FairSpec == Spec /\ Fairness
-----------------------------------------------------------------------------
(* Safety.                                                                 *)

(* Records swapped out and not yet handed to the callback.                 *)
InFlight == IF wpc = "callback" THEN cons.data ELSE <<>>

(* No record is lost, doubled or reordered on its way through the two      *)
(* buffers: what was accepted is what was delivered, then what the worker  *)
(* holds, then what waits in buffer_productor_ (Push, Swap, Reset).        *)
Conservation == accepted = delivered \o InFlight \o prod.data

(* When the exit test reads buffer_productor_ without mtx_, no thread is   *)
(* inside Push: the unlocked IsEmpty() of ThreadEntry races with no write  *)
(* because stop_ is only set by the destructor of the last owner.          *)
PeekUnraced == wpc = "peek" => \A p \in Producers : ppc[p] = "out"

(* Growth by linear_growth stays clear of the narrowing in ToBeEnough: a   *)
(* sum that does not fit an int comes out negative, and resize() throws.   *)
GrowthIsNarrow == 4 * conf.linear_growth <= IntMod

(* One growth always makes room for one record: in ASYNC_SAFE because Push *)
(* has waited for the room, in ASYNC_UNSAFE only by configuration.         *)
OneGrowthSuffices ==
  \/ async_type = "ASYNC_SAFE"
  \/ conf.threshold = 0 /\ \A len \in Lens : len <= conf.linear_growth

(* write_pos_ never passes the end of the vector, so WriteableSize() does  *)
(* not wrap and neither std::copy nor the callback leaves the vector.      *)
NoOverrun ==
  GrowthIsNarrow /\ OneGrowthSuffices =>
    /\ fault # "overrun"
    /\ prod.w <= prod.size
    /\ cons.w <= cons.size

(* An empty vector only grows when threshold is 0: with any other setting  *)
(* (the shipped config.conf has 10000000000) three times nothing is        *)
(* nothing, and no record ever enters a buffer in either AsyncType.        *)
StarvedByThreshold ==
  conf.threshold > 0 => prod.size = 0 /\ cons.size = 0 /\ accepted = <<>>

(* The looper keeps the promise of LogChannel: in order, nothing dropped,  *)
(* and the worker ends only when every accepted record is delivered.       *)
Channel == INSTANCE LogChannel WITH
             written <- delivered, closed <- wpc = "exited"
ChannelSpec == Channel!Spec

(* Progress, under FairSpec.                                               *)

(* Every accepted record reaches the callback, also when the logger is     *)
(* destroyed right after the Push (the drain before ThreadEntry returns),  *)
(* unless a later Push overruns the vector first.                          *)
Drains ==
  \A n \in 1 .. MaxPush * Cardinality(Producers) :
    Len(accepted) >= n ~> Len(delivered) >= n \/ fault = "overrun"

(* Stop returns: once stop_ is set the worker drains, ends and is joined.  *)
StopReturns == stop ~> joined

(* Push returns to its caller: logger.hpp:196 says that the record is in   *)
(* the buffer when AsyncLogger::Sink, which only calls Push, is through.   *)
PushReturns == \A p \in Producers : ppc[p] = "lock" ~> ppc[p] = "out"

(* looper.hpp:46 says that the worker swaps when there is data and blocks  *)
(* when there is none: it swaps an empty buffer only to stop.              *)
IdleWorkerBlocks ==
  [][wpc = "locked" /\ wpc' = "callback" => ~IsEmpty(prod) \/ stop]_vars

(* buffer.hpp:17 says that ToBeEnough ensures enough capacity.             *)
EnoughRoom == fault # "overrun"
=============================================================================
