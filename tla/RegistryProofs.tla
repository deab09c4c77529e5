--------------------------- MODULE RegistryProofs ---------------------------
(***************************************************************************)
(* Theorems about Registry, for any threads, names, patterns and programs, *)
(* and about Formatter, for any pattern: it is parsed to the end, accepted *)
(* if and only if the grammar spells it, and then means what the grammar   *)
(* says.                                                                   *)
(***************************************************************************)
EXTENDS Registry, Recursion, TLAPS

-----------------------------------------------------------------------------
(* Type correctness.                                                       *)

LEMMA Constants ==
  /\ Root \in Logger
  /\ "default" \in Names /\ "sync_logger" \in Names
  /\ Null \notin Logger /\ Null \notin Threads
  /\ MaxBuilds \in Nat /\ 0 \in 0 .. MaxBuilds
<1>1. MaxBuilds \in Nat
  BY RegistryAssumption
<1>2. 0 \in 0 .. MaxBuilds
  BY <1>1
<1> QED
  BY <1>1, <1>2, RegistryAssumption DEF Root, Logger

LEMMA NewBuilderType ==
  ASSUME NEW kind \in Kinds
  PROVE  NewBuilder(kind) \in Builders
<1>1. "sync_logger" \in Names
  BY RegistryAssumption
<1>2. NoPattern \in Patterns
  BY DEF Patterns
<1>3. <<>> \in SinkLists
  BY DEF SinkLists
<1> QED
  BY <1>1, <1>2, <1>3 DEF NewBuilder, Builders

LEMMA NoPartsType == NoParts \in Parts
BY DEF NoParts, Parts, Patterns, SinkLists, Kinds

(* The defaults that Build adds leave a builder what it is.                *)
LEMMA DefaultsType ==
  ASSUME NEW b \in Builders
  PROVE  /\ WithFormatter(b) \in Builders
         /\ WithSink(b) \in Builders
         /\ WithFormatter(b).name = b.name
         /\ WithSink(b).name = b.name
<1>1. DefaultPattern \in Patterns
  BY DEF Patterns
<1>2. <<Stdout>> \in SinkLists
  BY DEF SinkLists, Stdout
<1> QED
  BY <1>1, <1>2 DEF WithFormatter, WithSink, Builders

LEMMA InitType == Init => TypeOK
<1> SUFFICES ASSUME Init PROVE TypeOK
  OBVIOUS
<1>1. builder \in [Threads -> Builders]
  BY NewBuilderType DEF Init, Kinds
<1>2. parts \in [Logger -> Parts]
  BY NoPartsType DEF Init
<1>3. builds \in [Threads -> 0 .. MaxBuilds]
  BY Constants DEF Init
<1> QED
  BY <1>1, <1>2, <1>3, Constants DEF Init, TypeOK

(* What Build makes is a logger that no earlier Build has made.            *)
LEMMA MakeType ==
  ASSUME TypeOK, NEW t \in Threads, builds[t] < setup.builds,
         NEW b \in Builders,
         Make(t, b)
  PROVE  /\ Product(t, b.name) \in Logger
         /\ builder' \in [Threads -> Builders]
         /\ builds' \in [Threads -> 0 .. MaxBuilds]
         /\ parts' \in [Logger -> Parts]
         /\ held' \in [Threads -> Logger \cup {Null}]
         /\ held'[t] = Product(t, b.name)
<1>1. builds[t] \in 0 .. MaxBuilds /\ setup.builds \in 0 .. MaxBuilds /\ MaxBuilds \in Nat
  BY RegistryAssumption DEF TypeOK
<1>2. builds[t] + 1 \in 0 .. MaxBuilds
  BY <1>1
<1>3. Product(t, b.name) \in Logger
  BY <1>2 DEF Product, Logger, Builders
<1>4. PartsOf(b) \in Parts
  BY DEF PartsOf, Parts, Builders
<1>5. /\ builder' \in [Threads -> Builders]
      /\ builds' \in [Threads -> 0 .. MaxBuilds]
  BY <1>2 DEF Make, MakeAndKeep, TypeOK
<1>6. parts' \in [Logger -> Parts]
  BY <1>3, <1>4 DEF Make, MakeAndKeep, TypeOK
<1>7. held' \in [Threads -> Logger \cup {Null}] /\ held'[t] = Product(t, b.name)
  BY <1>3 DEF Make, MakeAndKeep, TypeOK
<1> QED
  BY <1>3, <1>5, <1>6, <1>7

(* A thread inside Build has the logger it has made.  Without that the     *)
(* name it registers would not be one.                                     *)
HoldsLogger ==
  \A t \in Threads : pc[t] \in {"build", "exist", "insert"} => held[t] \in Logger
Types == TypeOK /\ HoldsLogger

LEMMA ConfigureType ==
  ASSUME Types, NEW t \in Threads, Configure(t)
  PROVE  Types'
<1>1. CASE \E kind \in {"local", "global"} : CreateBuilder(t, kind)
  BY <1>1, NewBuilderType DEF CreateBuilder, Types, TypeOK, HoldsLogger, threads, state, history, Kinds
<1>2. CASE \E name \in setup.names : BuildLoggerName(t, name)
  <2>1. setup.names \subseteq Names
    BY RegistryAssumption DEF Types, TypeOK
  <2> QED
    BY <1>2, <2>1 DEF BuildLoggerName, Types, TypeOK, Builders, HoldsLogger, threads, state, history
<1>3. CASE \E pattern \in setup.patterns : BuildLoggerFormatter(t, pattern)
  <2>1. setup.patterns \subseteq Patterns
    BY DEF Types, TypeOK, Patterns
  <2>2. PICK pattern \in setup.patterns : BuildLoggerFormatter(t, pattern)
    BY <1>3
  <2>3. [builder[t] EXCEPT !.formatter = pattern] \in Builders
    BY <2>1 DEF Types, TypeOK, Builders
  <2>4. builder' \in [Threads -> Builders]
    BY <2>2, <2>3 DEF BuildLoggerFormatter, Types, TypeOK
  <2> QED
    BY <2>2, <2>4 DEF BuildLoggerFormatter, Types, TypeOK, HoldsLogger, threads, state, history
<1>4. CASE BuildLoggerSink(t)
  <2>1. PICK b \in Builders : b = builder[t]
    BY DEF Types, TypeOK
  <2>2. b.given \in Nat /\ b.sinks \in SinkLists
    BY DEF Builders
  <2>3. b.given + 1 \in Nat /\ Append(b.sinks, b.given + 1) \in SinkLists
    BY <2>2 DEF SinkLists
  <2>4. builder' = [builder EXCEPT ![t] =
                      [b EXCEPT !.given = b.given + 1, !.sinks = Append(b.sinks, b.given + 1)]]
    BY <1>4, <2>1 DEF BuildLoggerSink, Types, TypeOK, Builders
  <2>5. [b EXCEPT !.given = b.given + 1, !.sinks = Append(b.sinks, b.given + 1)] \in Builders
    BY <2>2, <2>3 DEF Builders
  <2>6. builder' \in [Threads -> Builders]
    BY <2>4, <2>5 DEF Types, TypeOK
  <2> QED
    BY <1>4, <2>6 DEF BuildLoggerSink, Types, TypeOK, HoldsLogger, threads, state, history
<1> QED
  BY <1>1, <1>2, <1>3, <1>4 DEF Configure

LEMMA BuildType ==
  ASSUME Types, NEW t \in Threads, Build(t)
  PROVE  Types'
<1>1. CASE LocalBuild(t)
  <2>1. WithSink(WithFormatter(builder[t])) \in Builders
    BY DefaultsType DEF Types, TypeOK
  <2>2. Make(t, WithSink(WithFormatter(builder[t]))) /\ builds[t] < setup.builds
    BY <1>1 DEF LocalBuild
  <2>3. UNCHANGED <<setup, pc, asked, state, answer, history, fault>> /\ pc[t] = "idle"
    BY <1>1 DEF LocalBuild, Idle
  <2>4. \A u \in Threads \ {t} : held'[u] = held[u]
    BY <2>2 DEF Make, MakeAndKeep, Types, TypeOK
  <2>5. TypeOK'
    BY <2>1, <2>2, <2>3, MakeType DEF Types, TypeOK, state, history
  <2> QED
    BY <2>3, <2>4, <2>5 DEF Types, HoldsLogger
<1>2. CASE GlobalBuild(t)
  <2>1. WithFormatter(builder[t]) \in Builders
    BY DefaultsType DEF Types, TypeOK
  <2>2. Make(t, WithFormatter(builder[t])) /\ builds[t] < setup.builds /\ Goto(t, "build")
    BY <1>2 DEF GlobalBuild
  <2>3. UNCHANGED <<setup, asked, state, answer, history, fault>>
    BY <1>2 DEF GlobalBuild
  <2>4. \A u \in Threads \ {t} : held'[u] = held[u] /\ pc'[u] = pc[u]
    BY <2>2 DEF Make, MakeAndKeep, Goto, Types, TypeOK
  <2>5. TypeOK' /\ held'[t] \in Logger
    BY <2>1, <2>2, <2>3, MakeType DEF Types, TypeOK, state, history, Goto
  <2> QED
    BY <2>4, <2>5 DEF Types, HoldsLogger
<1>3. CASE GlobalBuildNameless(t)
  BY <1>3 DEF GlobalBuildNameless, Types, TypeOK, HoldsLogger, threads, state, history
<1>4. CASE LoggerExist(t)
  <2>1. held[t].name \in Names
    BY <1>4 DEF LoggerExist, Types, HoldsLogger, Logger
  <2> QED
    BY <1>4, <2>1 DEF LoggerExist, BuildReturns, Goto, Types, TypeOK, HoldsLogger, state
<1>5. CASE Insert(t)
  <2>1. held[t] \in Logger /\ held[t].name \in Names
    BY <1>5 DEF Insert, Types, HoldsLogger, Logger
  <2> QED
    BY <1>5, <2>1 DEF Insert, BuildReturns, Goto, Types, TypeOK, HoldsLogger
<1> QED
  BY <1>1, <1>2, <1>3, <1>4, <1>5 DEF Build

LEMMA AskType ==
  ASSUME Types, NEW t \in Threads, Ask(t)
  PROVE  Types'
<1>1. CASE \E name \in setup.names : GetLogger(t, name)
  <2>1. setup.names \subseteq Names
    BY RegistryAssumption DEF Types, TypeOK
  <2> QED
    BY <1>1, <2>1 DEF GetLogger, Goto, Types, TypeOK, HoldsLogger, state, history
<1>2. CASE RootLogger(t)
  BY <1>2 DEF RootLogger, Goto, Types, TypeOK, HoldsLogger, state, history
<1>3. CASE FindNothing(t)
  BY <1>3 DEF FindNothing, Goto, Types, TypeOK, HoldsLogger, state, history
<1>4. CASE Find(t)
  BY <1>4 DEF Find, Holders, Goto, Types, TypeOK, HoldsLogger, state
<1>5. CASE ReadRoot(t)
  BY <1>5, Constants DEF ReadRoot, Goto, Types, TypeOK, HoldsLogger, state, history
<1> QED
  BY <1>1, <1>2, <1>3, <1>4, <1>5 DEF Ask

LEMMA InstanceType ==
  ASSUME Types, NEW t \in Threads, Instance(t)
  PROVE  Types'
<1>1. CASE FirstUse(t)
  BY <1>1 DEF FirstUse, Types, TypeOK, HoldsLogger, threads, history
<1>2. CASE LoggerManager(t)
  <2>1. NewBuilder("local") \in Builders
    BY NewBuilderType DEF Kinds
  <2>2. WithSink(WithFormatter(NewBuilder("local"))) \in Builders
    BY <2>1, DefaultsType
  <2>3. PartsOf(WithSink(WithFormatter(NewBuilder("local")))) \in Parts
    BY <2>2 DEF PartsOf, Parts, Builders
  <2>4. parts' \in [Logger -> Parts]
    BY <1>2, <2>3 DEF LoggerManager, Types, TypeOK
  <2> QED
    BY <1>2, <2>4, Constants DEF LoggerManager, Types, TypeOK, HoldsLogger, threads, history
<1>3. CASE GetInstance(t)
  BY <1>3 DEF GetInstance, InGetInstance, Goto, Types, TypeOK, HoldsLogger, state, history
<1> QED
  BY <1>1, <1>2, <1>3 DEF Instance

LEMMA NextType == Types /\ [Next]_vars => Types'
<1> SUFFICES ASSUME Types, [Next]_vars PROVE Types'
  OBVIOUS
<1>1. CASE UNCHANGED vars
  BY <1>1 DEF Types, TypeOK, HoldsLogger, vars, threads, state, history
<1>2. CASE Next
  BY <1>2, ConfigureType, BuildType, AskType, InstanceType DEF Next
<1> QED
  BY <1>1, <1>2

(* The variables of the manager and of the builders range over the values  *)
(* the code gives them.                                                    *)
THEOREM TypeCorrect == Spec => []TypeOK
<1>1. Init => Types
  BY InitType DEF Init, Types, HoldsLogger
<1>2. Types => TypeOK
  BY DEF Types
<1> QED
  BY <1>1, <1>2, NextType, PTL DEF Spec

-----------------------------------------------------------------------------
(* The manager and what is registered with it.                             *)

Inside == {"exist", "insert", "find", "read"}

(* The constructor runs while manager says so, in one thread, and nothing  *)
(* can be registered before it is through.                                 *)
Managed ==
  /\ manager = "none" => constructing = Null /\ loggers = {}
  /\ manager = "building" => constructing \in Threads /\ loggers = {}
  /\ manager = "ready" => constructing = Null /\ root = Root /\ Root \in loggers
  /\ \A t \in Threads : pc[t] \in Inside => manager = "ready"

(* A name keeps its logger: what has been found under it is still there.   *)
Registered ==
  /\ \A k, l \in loggers : k.name = l.name => k = l
  /\ seen \subseteq loggers
  /\ \A name \in known : Holders(name) # {}

IInv == Types /\ Managed /\ Registered

(* Most steps leave the manager and what it has said alone.                *)
LEMMA Aside ==
  ASSUME IInv, Types', NEW t \in Threads,
         UNCHANGED <<state, history>>,
         \A u \in Threads \ {t} : pc'[u] = pc[u],
         pc'[t] \in Inside => manager = "ready"
  PROVE  IInv'
BY DEF IInv, Managed, Registered, Holders, state, history

LEMMA ConfigureInv ==
  ASSUME IInv, NEW t \in Threads, Configure(t)
  PROVE  IInv'
<1>1. UNCHANGED <<pc, state, history>>
  BY DEF Configure, CreateBuilder, BuildLoggerName, BuildLoggerFormatter, BuildLoggerSink,
         threads
<1>2. Types'
  BY ConfigureType DEF IInv
<1> QED
  BY <1>1, <1>2 DEF IInv, Managed, Registered, Holders, state, history

LEMMA BuildInv ==
  ASSUME IInv, NEW t \in Threads, Build(t)
  PROVE  IInv'
<1> USE DEF Inside
<1>1. Types'
  BY BuildType DEF IInv
<1>2. pc \in [Threads -> {"idle", "build", "get", "root", "exist", "insert", "find", "read"}]
  BY DEF IInv, Types, TypeOK
<1>3. CASE LocalBuild(t)
  <2>1. UNCHANGED <<pc, state, history>>
    BY <1>3 DEF LocalBuild
  <2> QED
    BY <1>1, <2>1 DEF IInv, Managed, Registered, Holders, state, history
<1>4. CASE GlobalBuild(t)
  BY <1>1, <1>2, <1>4, Aside DEF GlobalBuild, Goto
<1>5. CASE GlobalBuildNameless(t)
  <2>1. UNCHANGED <<pc, state, history>>
    BY <1>5 DEF GlobalBuildNameless, threads
  <2> QED
    BY <1>1, <2>1 DEF IInv, Managed, Registered, Holders, state, history
<1>6. CASE LoggerExist(t)
  <2>1. UNCHANGED <<manager, constructing, root, loggers, seen>> /\ manager = "ready"
    BY <1>6 DEF LoggerExist, state, IInv, Managed
  <2>2. \A u \in Threads \ {t} : pc'[u] = pc[u]
    BY <1>2, <1>6 DEF LoggerExist, BuildReturns, Goto
  <2>3. \A name \in known' : Holders(name) # {}
    BY <1>6 DEF LoggerExist, BuildReturns, IInv, Registered
  <2>4. Managed'
    BY <2>1, <2>2 DEF IInv, Managed
  <2>5. Registered'
    BY <2>1, <2>3 DEF IInv, Registered, Holders
  <2> QED
    BY <1>1, <2>4, <2>5 DEF IInv
<1>7. CASE Insert(t)
  <2>1. UNCHANGED <<manager, constructing, root, seen>> /\ manager = "ready"
    BY <1>7 DEF Insert, IInv, Managed
  <2>2. \A u \in Threads \ {t} : pc'[u] = pc[u]
    BY <1>2, <1>7 DEF Insert, BuildReturns, Goto
  <2>3. loggers \subseteq loggers' /\ (Holders(held[t].name) # {})'
    BY <1>7 DEF Insert, Holders
  <2>4. \A k, l \in loggers' : k.name = l.name => k = l
    BY <1>7 DEF Insert, Holders, IInv, Registered
  <2>5. known' = known \cup {held[t].name} /\ held' = held
    BY <1>7 DEF Insert, BuildReturns
  <2>6. \A name \in known' : (Holders(name) # {})'
    BY <2>3, <2>5 DEF IInv, Registered, Holders
  <2>7. Managed'
    BY <2>1, <2>2, <2>3 DEF IInv, Managed
  <2>8. Registered'
    BY <2>1, <2>3, <2>4, <2>6 DEF IInv, Registered
  <2> QED
    BY <1>1, <2>7, <2>8 DEF IInv
<1> QED
  BY <1>3, <1>4, <1>5, <1>6, <1>7 DEF Build

LEMMA AskInv ==
  ASSUME IInv, NEW t \in Threads, Ask(t)
  PROVE  IInv'
<1> USE DEF Inside
<1>1. Types'
  BY AskType DEF IInv
<1>2. pc \in [Threads -> {"idle", "build", "get", "root", "exist", "insert", "find", "read"}]
  BY DEF IInv, Types, TypeOK
<1>3. CASE \E name \in setup.names : GetLogger(t, name)
  BY <1>1, <1>2, <1>3, Aside DEF GetLogger, Goto
<1>4. CASE RootLogger(t)
  BY <1>1, <1>2, <1>4, Aside DEF RootLogger, Goto
<1>5. CASE FindNothing(t)
  BY <1>1, <1>2, <1>5, Aside DEF FindNothing, Goto
<1>6. CASE Find(t)
  <2>1. UNCHANGED <<state, known>> /\ \A u \in Threads : pc'[u] \in Inside => pc[u] \in Inside
    BY <1>2, <1>6 DEF Find, Goto
  <2>2. seen' \subseteq loggers
    BY <1>6 DEF Find, Holders, IInv, Registered
  <2>3. Managed'
    BY <2>1 DEF IInv, Managed, state
  <2>4. Registered'
    BY <2>1, <2>2 DEF IInv, Registered, Holders, state
  <2> QED
    BY <1>1, <2>3, <2>4 DEF IInv
<1>7. CASE ReadRoot(t)
  BY <1>1, <1>2, <1>7, Aside DEF ReadRoot, Goto
<1> QED
  BY <1>3, <1>4, <1>5, <1>6, <1>7 DEF Ask

LEMMA InstanceInv ==
  ASSUME IInv, NEW t \in Threads, Instance(t)
  PROVE  IInv'
<1> USE DEF Inside
<1>1. Types'
  BY InstanceType DEF IInv
<1>2. pc \in [Threads -> {"idle", "build", "get", "root", "exist", "insert", "find", "read"}]
  BY DEF IInv, Types, TypeOK
<1>3. CASE FirstUse(t)
  BY <1>1, <1>3 DEF FirstUse, threads, history, IInv, Managed, Registered, Holders
<1>4. CASE LoggerManager(t)
  <2>1. manager = "building" /\ loggers = {}
    BY <1>4, Constants DEF LoggerManager, IInv, Managed, Types, TypeOK
  <2>2. loggers' = {Root} /\ manager' = "ready" /\ constructing' = Null /\ root' = Root
    BY <1>4, <2>1 DEF LoggerManager
  <2>3. known = {} /\ seen = {}
    BY <2>1 DEF IInv, Registered, Holders
  <2>4. UNCHANGED <<seen, known>>
    BY <1>4 DEF LoggerManager, history
  <2>5. Managed'
    BY <2>2 DEF Managed
  <2>6. Registered'
    BY <2>2, <2>3, <2>4 DEF Registered
  <2> QED
    BY <1>1, <2>5, <2>6 DEF IInv
<1>5. CASE GetInstance(t)
  BY <1>1, <1>2, <1>5, Aside DEF GetInstance, Goto
<1> QED
  BY <1>3, <1>4, <1>5 DEF Instance

LEMMA Invariance == Spec => []IInv
<1>1. Init => IInv
  BY InitType DEF Init, IInv, Types, HoldsLogger, Managed, Registered, Holders, Inside
<1>2. IInv /\ [Next]_vars => IInv'
  <2> SUFFICES ASSUME IInv, [Next]_vars PROVE IInv'
    OBVIOUS
  <2>1. CASE UNCHANGED vars
    <3>1. Types'
      BY NextType DEF IInv
    <3> QED
      BY <2>1, <3>1 DEF vars, threads, state, history, IInv, Managed, Registered, Holders
  <2>2. CASE Next
    BY <2>2, ConfigureInv, BuildInv, AskInv, InstanceInv DEF Next
  <2> QED
    BY <2>1, <2>2
<1> QED
  BY <1>1, <1>2, PTL DEF Spec

-----------------------------------------------------------------------------
(* No thread is past GetInstance while the manager is incomplete, although *)
(* any thread may be the one that constructs it (logger.hpp:264-269).      *)
THEOREM ManagerIsComplete == Spec => []ManagerComplete
<1>1. IInv => ManagerComplete
  BY DEF IInv, Managed, ManagerComplete, Inside
<1> QED
  BY <1>1, Invariance, PTL

(* One name leads to one logger for good, although AddLogger tests and     *)
(* inserts in two critical sections (logger.hpp:280-293).                  *)
THEOREM LookupsAlwaysAgree == Spec => []LookupsAgree
<1>1. IInv => LookupsAgree
  BY DEF IInv, Registered, LookupsAgree
<1> QED
  BY <1>1, Invariance, PTL

(* The name of a global logger is found once its Build has returned, be it *)
(* that an earlier logger holds it (logger.hpp:332-333).                   *)
THEOREM BuiltIsAlwaysFound == Spec => []BuiltIsFound
<1>1. IInv => BuiltIsFound
  BY DEF IInv, Registered, BuiltIsFound
<1> QED
  BY <1>1, Invariance, PTL

-----------------------------------------------------------------------------
(* The parser of patterns.                                                 *)

(* The characters with a name are none of the others.                      *)
LEMMA CharsDiffer ==
  /\ \A c \in {"%", "d", "H", ":", "M", "S", "[", "]", "t", "p", "c", "f", "l", "m", "n", Eos, Blank} :
       c # Opening /\ c # Closing
  /\ \A c \in {"%", Eos, Closing} : c # Opening
  /\ \A c \in {"%", Eos, Opening} : c # Closing
  /\ Blank # "%" /\ Blank # Eos /\ Opening # "%" /\ Closing # "%"
BY Zenon DEF Eos, Blank, Opening, Closing

LiteralEnds(p, pos) == pos > Len(p) \/ (p[pos] = "%" /\ At(p, pos + 1) # "%")
AfterLiteral(p, pos) == pos + (IF p[pos] = "%" THEN 2 ELSE 1)
LiteralStep(p, f, pos) ==
  IF LiteralEnds(p, pos) THEN [val |-> <<>>, next |-> pos]
  ELSE [f[AfterLiteral(p, pos)] EXCEPT !.val = <<p[pos]>> \o @]

BracedEnds(p, pos) == pos > Len(p) \/ p[pos] = Closing
BracedStep(p, f, pos) ==
  IF BracedEnds(p, pos) THEN [val |-> <<>>, next |-> pos]
  ELSE [f[pos + 1] EXCEPT !.val = <<p[pos]>> \o @]

LEMMA LiteralFromDef ==
  ASSUME NEW C, NEW p \in Seq(C)
  PROVE  /\ LiteralFrom(p) \in [1 .. Len(p) + 1 -> [val : Seq(C), next : 1 .. Len(p) + 1]]
         /\ \A pos \in 1 .. Len(p) + 1 : LiteralFrom(p)[pos] = LiteralStep(p, LiteralFrom(p), pos)
<1> DEFINE S == 1 .. Len(p) + 1
           V == [val : Seq(C), next : S]
           rank == [x \in S |-> Len(p) + 1 - x]
           step == [f \in [S -> V] |-> [x \in S |-> LiteralStep(p, f, x)]]
<1>1. \A pos \in S : ~ LiteralEnds(p, pos) =>
         AfterLiteral(p, pos) \in S /\ AfterLiteral(p, pos) > pos /\ p[pos] \in C
  BY DEF LiteralEnds, AfterLiteral, At, Eos
<1>2. ASSUME NEW f, NEW pos \in S, ~ LiteralEnds(p, pos) => f[AfterLiteral(p, pos)] \in V
      PROVE  LiteralStep(p, f, pos) \in V
  <2>1. CASE LiteralEnds(p, pos)
    BY <2>1 DEF LiteralStep
  <2>2. CASE ~ LiteralEnds(p, pos)
    <3>1. PICK rest \in V : rest = f[AfterLiteral(p, pos)]
      BY <1>2, <2>2
    <3>2. <<p[pos]>> \o rest.val \in Seq(C)
      BY <1>1, <2>2
    <3> QED
      BY <2>2, <3>1, <3>2 DEF LiteralStep
  <2> QED
    BY <2>1, <2>2
<1>3. step \in [[S -> V] -> [S -> V]]
  BY <1>1, <1>2
<1>4. \A f \in [S -> V], x \in S : step[f][x] = LiteralStep(p, f, x)
  OBVIOUS
<1>5. \A x, y \in S : rank[y] < rank[x] <=> x < y
  OBVIOUS
<1>6. Grounded(S, V, rank, step)
  <2> SUFFICES ASSUME NEW f \in [S -> V], NEW g \in [S -> V], NEW x \in S,
                      \A y \in S : rank[y] < rank[x] => f[y] = g[y]
               PROVE  LiteralStep(p, f, x) = LiteralStep(p, g, x)
    <3> HIDE DEF S, V, rank, step
    <3> QED
      BY <1>4 DEF Grounded
  <2>1. ~ LiteralEnds(p, x) => f[AfterLiteral(p, x)] = g[AfterLiteral(p, x)]
    BY <1>1, <1>5
  <2> QED
    BY <2>1 DEF LiteralStep
<1>7. rank \in [S -> 0 .. Len(p)] /\ [val |-> <<>>, next |-> 1] \in V /\ Len(p) \in Nat
  OBVIOUS
<1>8. Recursive(S, V, step)
  <2> HIDE DEF S, V, rank, step
  <2> QED
    BY <1>3, <1>6, <1>7, RecursiveFunction
<1> DEFINE h == LiteralFrom(p)
<1>9. h = [x \in S |-> LiteralStep(p, h, x)]
  <2>1. PICK g \in [S -> V] : g = [x \in S |-> LiteralStep(p, g, x)]
    BY <1>8 DEF Recursive
  <2>2. h = CHOOSE f : f = [x \in S |-> LiteralStep(p, f, x)]
    BY DEF LiteralFrom, LiteralStep, LiteralEnds, AfterLiteral
  <2> HIDE DEF S, V, h
  <2> QED
    BY <2>1, <2>2
<1> HIDE DEF h
<1>10. ASSUME NEW x \in S, \A y \in S : rank[y] < rank[x] => h[y] \in V
       PROVE  h[x] \in V
  <2>1. ~ LiteralEnds(p, x) => h[AfterLiteral(p, x)] \in V
    BY <1>1, <1>5, <1>10
  <2> QED
    BY <1>2, <1>9, <2>1
<1>11. \A x \in S : h[x] \in V
  <2> DEFINE T == {x \in S : h[x] \in V}
  <2>1. Progressive(S, rank, T)
    BY <1>10 DEF Progressive
  <2>2. T \in SUBSET S
    OBVIOUS
  <2>3. T = S
    <3> HIDE DEF S, V, rank, step, T
    <3> QED
      BY <1>7, <2>1, <2>2, RankInduction
  <2> QED
    BY <2>3
<1> QED
  BY <1>9, <1>11 DEF h

LEMMA BracedFromDef ==
  ASSUME NEW C, NEW p \in Seq(C)
  PROVE  /\ BracedFrom(p) \in [1 .. Len(p) + 1 -> [val : Seq(C), next : 1 .. Len(p) + 1]]
         /\ \A pos \in 1 .. Len(p) + 1 : BracedFrom(p)[pos] = BracedStep(p, BracedFrom(p), pos)
<1> DEFINE S == 1 .. Len(p) + 1
           V == [val : Seq(C), next : S]
           rank == [x \in S |-> Len(p) + 1 - x]
           step == [f \in [S -> V] |-> [x \in S |-> BracedStep(p, f, x)]]
<1>1. \A pos \in S : ~ BracedEnds(p, pos) =>
         pos + 1 \in S /\ pos + 1 > pos /\ p[pos] \in C
  <2> SUFFICES ASSUME NEW pos \in S, ~ BracedEnds(p, pos) PROVE pos <= Len(p)
    OBVIOUS
  <2> QED
    BY DEF BracedEnds, At
<1>2. ASSUME NEW f, NEW pos \in S, ~ BracedEnds(p, pos) => f[pos + 1] \in V
      PROVE  BracedStep(p, f, pos) \in V
  <2>1. CASE BracedEnds(p, pos)
    BY <2>1 DEF BracedStep
  <2>2. CASE ~ BracedEnds(p, pos)
    <3>1. PICK rest \in V : rest = f[pos + 1]
      BY <1>2, <2>2
    <3>2. <<p[pos]>> \o rest.val \in Seq(C)
      BY <1>1, <2>2
    <3> QED
      BY <2>2, <3>1, <3>2 DEF BracedStep
  <2> QED
    BY <2>1, <2>2
<1>3. step \in [[S -> V] -> [S -> V]]
  BY <1>1, <1>2
<1>4. \A f \in [S -> V], x \in S : step[f][x] = BracedStep(p, f, x)
  OBVIOUS
<1>5. \A x, y \in S : rank[y] < rank[x] <=> x < y
  OBVIOUS
<1>6. Grounded(S, V, rank, step)
  <2> SUFFICES ASSUME NEW f \in [S -> V], NEW g \in [S -> V], NEW x \in S,
                      \A y \in S : rank[y] < rank[x] => f[y] = g[y]
               PROVE  BracedStep(p, f, x) = BracedStep(p, g, x)
    <3> HIDE DEF S, V, rank, step
    <3> QED
      BY <1>4 DEF Grounded
  <2>1. ~ BracedEnds(p, x) => f[x + 1] = g[x + 1]
    BY <1>1, <1>5
  <2> QED
    BY <2>1 DEF BracedStep
<1>7. rank \in [S -> 0 .. Len(p)] /\ [val |-> <<>>, next |-> 1] \in V /\ Len(p) \in Nat
  OBVIOUS
<1>8. Recursive(S, V, step)
  <2> HIDE DEF S, V, rank, step
  <2> QED
    BY <1>3, <1>6, <1>7, RecursiveFunction
<1> DEFINE h == BracedFrom(p)
<1>9. h = [x \in S |-> BracedStep(p, h, x)]
  <2>1. PICK g \in [S -> V] : g = [x \in S |-> BracedStep(p, g, x)]
    BY <1>8 DEF Recursive
  <2>2. h = CHOOSE f : f = [x \in S |-> BracedStep(p, f, x)]
    BY DEF BracedFrom, BracedStep, BracedEnds
  <2> HIDE DEF S, V, h
  <2> QED
    BY <2>1, <2>2
<1> HIDE DEF h
<1>10. ASSUME NEW x \in S, \A y \in S : rank[y] < rank[x] => h[y] \in V
       PROVE  h[x] \in V
  <2>1. ~ BracedEnds(p, x) => h[x + 1] \in V
    BY <1>1, <1>5, <1>10
  <2> QED
    BY <1>2, <1>9, <2>1
<1>11. \A x \in S : h[x] \in V
  <2> DEFINE T == {x \in S : h[x] \in V}
  <2>1. Progressive(S, rank, T)
    BY <1>10 DEF Progressive
  <2>2. T \in SUBSET S
    OBVIOUS
  <2>3. T = S
    <3> HIDE DEF S, V, rank, step, T
    <3> QED
      BY <1>7, <2>1, <2>2, RankInduction
  <2> QED
    BY <2>3
<1> QED
  BY <1>9, <1>11 DEF h


(* Neither reads backwards.                                                *)
LEMMA LiteralForward ==
  ASSUME NEW C, NEW p \in Seq(C), NEW pos \in 1 .. Len(p) + 1
  PROVE  LiteralFrom(p)[pos].next >= pos
<1> DEFINE S == 1 .. Len(p) + 1
           rank == [x \in S |-> Len(p) + 1 - x]
           h == LiteralFrom(p)
           T == {x \in S : h[x].next >= x}
<1>1. /\ h \in [S -> [val : Seq(C), next : S]]
      /\ \A x \in S : h[x] = LiteralStep(p, h, x)
  BY LiteralFromDef
<1>2. \A x \in S : ~ LiteralEnds(p, x) => AfterLiteral(p, x) \in S /\ AfterLiteral(p, x) > x
  BY DEF LiteralEnds, AfterLiteral, At, Eos
<1> HIDE DEF h
<1>3. ASSUME NEW x \in S, \A y \in S : rank[y] < rank[x] => y \in T PROVE x \in T
  <2>1. CASE LiteralEnds(p, x)
    <3>1. h[x] = [val |-> <<>>, next |-> x]
      BY <1>1, <2>1 DEF LiteralStep
    <3> QED
      BY <3>1
  <2>2. CASE ~ LiteralEnds(p, x)
    <3>1. PICK y \in S : y = AfterLiteral(p, x) /\ y > x
      BY <1>2, <2>2
    <3>2. rank[y] < rank[x]
      BY <3>1
    <3>3. h[y].next >= y /\ h[y].next \in S
      BY <1>1, <1>3, <3>2
    <3>4. h[x].next = h[y].next
      BY <1>1, <2>2, <3>1 DEF LiteralStep
    <3> QED
      BY <3>1, <3>3, <3>4
  <2> QED
    BY <2>1, <2>2
<1>4. Progressive(S, rank, T)
  <2> HIDE DEF S, rank, T
  <2> QED
    BY <1>3 DEF Progressive
<1>5. T \in SUBSET S /\ rank \in [S -> 0 .. Len(p)] /\ Len(p) \in Nat
  OBVIOUS
<1>6. T = S
  <2> HIDE DEF S, rank, T
  <2> QED
    BY <1>4, <1>5, RankInduction
<1> QED
  BY <1>6 DEF h

LEMMA BracedForward ==
  ASSUME NEW C, NEW p \in Seq(C), NEW pos \in 1 .. Len(p) + 1
  PROVE  BracedFrom(p)[pos].next >= pos
<1> DEFINE S == 1 .. Len(p) + 1
           rank == [x \in S |-> Len(p) + 1 - x]
           h == BracedFrom(p)
           T == {x \in S : h[x].next >= x}
<1>1. /\ h \in [S -> [val : Seq(C), next : S]]
      /\ \A x \in S : h[x] = BracedStep(p, h, x)
  BY BracedFromDef
<1>2. \A x \in S : ~ BracedEnds(p, x) => x + 1 \in S
  <2> SUFFICES ASSUME NEW x \in S, ~ BracedEnds(p, x) PROVE x <= Len(p)
    OBVIOUS
  <2> QED
    BY DEF BracedEnds, At
<1> HIDE DEF h
<1>3. ASSUME NEW x \in S, \A y \in S : rank[y] < rank[x] => y \in T PROVE x \in T
  <2>1. CASE BracedEnds(p, x)
    <3>1. h[x] = [val |-> <<>>, next |-> x]
      BY <1>1, <2>1 DEF BracedStep
    <3> QED
      BY <3>1
  <2>2. CASE ~ BracedEnds(p, x)
    <3>1. PICK y \in S : y = x + 1 /\ y > x
      BY <1>2, <2>2
    <3>2. rank[y] < rank[x]
      BY <3>1
    <3>3. h[y].next >= y /\ h[y].next \in S
      BY <1>1, <1>3, <3>2
    <3>4. h[x].next = h[y].next
      BY <1>1, <2>2, <3>1 DEF BracedStep
    <3> QED
      BY <3>1, <3>3, <3>4
  <2> QED
    BY <2>1, <2>2
<1>4. Progressive(S, rank, T)
  <2> HIDE DEF S, rank, T
  <2> QED
    BY <1>3 DEF Progressive
<1>5. T \in SUBSET S /\ rank \in [S -> 0 .. Len(p)] /\ Len(p) \in Nat
  OBVIOUS
<1>6. T = S
  <2> HIDE DEF S, rank, T
  <2> QED
    BY <1>4, <1>5, RankInduction
<1> QED
  BY <1>6 DEF h

(* One directive: the text before it, its letter, its braces and where the *)
(* next one begins.                                                        *)
ParseEnds(p, pos) == pos > Len(p) \/ LiteralFrom(p)[pos].next > Len(p)
Letter(p, pos) == LiteralFrom(p)[pos].next + 1
TextBefore(p, pos) ==
  IF LiteralFrom(p)[pos].val = <<>> THEN <<>> ELSE <<Pair(TextKey, LiteralFrom(p)[pos].val)>>
HasBraces(p, pos) == At(p, Letter(p, pos) + 1) = Opening
Braces(p, pos) == BracedFrom(p)[Letter(p, pos) + 2]
AreClosed(p, pos) == At(p, Braces(p, pos).next) = Closing
ParseStep(p, f, pos) ==
  IF ParseEnds(p, pos) THEN <<>>
  ELSE TextBefore(p, pos) \o
       IF ~ HasBraces(p, pos) THEN <<Pair(At(p, Letter(p, pos)), <<>>)>> \o f[Letter(p, pos) + 1]
       ELSE IF ~ AreClosed(p, pos) THEN <<Unclosed>>
       ELSE <<Pair(At(p, Letter(p, pos)), Braces(p, pos).val)>> \o f[Braces(p, pos).next + 1]

Pairs(C) == [key : C \cup {TextKey, Eos, "unclosed"}, val : Seq(C)]

LEMMA ParseAdvances ==
  ASSUME NEW C, NEW p \in Seq(C), NEW pos \in 1 .. Len(p) + 2, ~ ParseEnds(p, pos)
  PROVE  /\ Letter(p, pos) \in pos + 1 .. Len(p) + 1
         /\ At(p, Letter(p, pos)) \in C \cup {Eos}
         /\ TextBefore(p, pos) \in Seq(Pairs(C))
         /\ HasBraces(p, pos) => /\ Letter(p, pos) + 2 \in 1 .. Len(p) + 1
                                 /\ Braces(p, pos).next \in Letter(p, pos) + 2 .. Len(p) + 1
                                 /\ Braces(p, pos).val \in Seq(C)
         /\ HasBraces(p, pos) /\ AreClosed(p, pos) => Braces(p, pos).next <= Len(p)
<1>1. pos \in 1 .. Len(p) + 1 /\ LiteralFrom(p)[pos].next <= Len(p)
  <2>1. pos <= Len(p)
    BY DEF ParseEnds
  <2>2. PICK rest \in [val : Seq(C), next : 1 .. Len(p) + 1] : rest = LiteralFrom(p)[pos]
    BY <2>1, LiteralFromDef
  <2> QED
    BY <2>1, <2>2 DEF ParseEnds
<1>2. PICK rest \in [val : Seq(C), next : 1 .. Len(p) + 1] : rest = LiteralFrom(p)[pos]
  BY <1>1, LiteralFromDef
<1>3. rest.next >= pos
  BY <1>1, <1>2, LiteralForward
<1>4. Letter(p, pos) \in pos + 1 .. Len(p) + 1
  BY <1>1, <1>2, <1>3 DEF Letter
<1>5. At(p, Letter(p, pos)) \in C \cup {Eos}
  BY <1>4 DEF At
<1>6. TextBefore(p, pos) \in Seq(Pairs(C))
  <2>1. PICK pair \in Pairs(C) : pair = Pair(TextKey, rest.val)
    BY DEF Pair, Pairs
  <2>2. TextBefore(p, pos) = <<>> \/ TextBefore(p, pos) = <<pair>>
    BY <1>2, <2>1 DEF TextBefore
  <2>3. <<>> \in Seq(Pairs(C)) /\ <<pair>> \in Seq(Pairs(C))
    OBVIOUS
  <2> QED
    BY <2>2, <2>3
<1>7. ASSUME HasBraces(p, pos) PROVE Letter(p, pos) + 2 \in 1 .. Len(p) + 1
  <2>1. Letter(p, pos) + 1 <= Len(p)
    BY <1>4, <1>7, CharsDiffer DEF HasBraces, At
  <2> QED
    BY <1>4, <2>1
<1>8. ASSUME HasBraces(p, pos)
      PROVE  /\ Braces(p, pos).next \in Letter(p, pos) + 2 .. Len(p) + 1
             /\ Braces(p, pos).val \in Seq(C)
  <2>1. PICK n \in 1 .. Len(p) + 1 : n = Letter(p, pos) + 2
    BY <1>7, <1>8
  <2>2. PICK braced \in [val : Seq(C), next : 1 .. Len(p) + 1] : braced = BracedFrom(p)[n]
    BY BracedFromDef
  <2>3. braced.next >= n
    BY <2>2, BracedForward
  <2> QED
    BY <2>1, <2>2, <2>3 DEF Braces
<1>9. ASSUME HasBraces(p, pos), AreClosed(p, pos) PROVE Braces(p, pos).next <= Len(p)
  <2>1. PICK n \in 1 .. Len(p) + 1 : n = Braces(p, pos).next
    BY <1>4, <1>8, <1>9
  <2>2. At(p, n) = Closing
    BY <1>9, <2>1 DEF AreClosed
  <2> QED
    BY <2>1, <2>2, CharsDiffer DEF At
<1> QED
  BY <1>4, <1>5, <1>6, <1>7, <1>8, <1>9

(* For every pattern over every set of characters, parsing ends and gives  *)
(* pairs of a key and a text.                                              *)
LEMMA ParseFromDef ==
  ASSUME NEW C, NEW p \in Seq(C)
  PROVE  /\ ParseFrom(p) \in [1 .. Len(p) + 2 -> Seq(Pairs(C))]
         /\ \A pos \in 1 .. Len(p) + 2 : ParseFrom(p)[pos] = ParseStep(p, ParseFrom(p), pos)
<1> DEFINE S == 1 .. Len(p) + 2
           V == Seq(Pairs(C))
           rank == [x \in S |-> Len(p) + 2 - x]
           step == [f \in [S -> V] |-> [x \in S |-> ParseStep(p, f, x)]]
<1>1. ASSUME NEW x \in S, ~ ParseEnds(p, x)
      PROVE  /\ ~ HasBraces(p, x) => Letter(p, x) + 1 \in S /\ Letter(p, x) + 1 > x
             /\ HasBraces(p, x) /\ AreClosed(p, x) =>
                  Braces(p, x).next + 1 \in S /\ Braces(p, x).next + 1 > x
  <2>1. PICK at \in 1 .. Len(p) + 1 : at = Letter(p, x) /\ at > x
    BY <1>1, ParseAdvances
  <2>2. CASE ~ HasBraces(p, x)
    BY <2>1, <2>2
  <2>3. CASE HasBraces(p, x) /\ AreClosed(p, x)
    <3>1. PICK n \in at + 2 .. Len(p) + 1 : n = Braces(p, x).next /\ n <= Len(p)
      BY <1>1, <2>1, <2>3, ParseAdvances
    <3> QED
      BY <2>1, <2>3, <3>1
  <2> QED
    BY <2>2, <2>3
<1>2. ASSUME NEW f, NEW x \in S, \A y \in S : y > x => f[y] \in V
      PROVE  ParseStep(p, f, x) \in V
  <2>1. CASE ParseEnds(p, x)
    BY <2>1 DEF ParseStep
  <2>2. CASE ~ ParseEnds(p, x)
    <3>1. PICK before \in V : before = TextBefore(p, x)
      BY <2>2, ParseAdvances
    <3>2. PICK key \in C \cup {Eos} : key = At(p, Letter(p, x))
      BY <2>2, ParseAdvances
    <3>3. CASE ~ HasBraces(p, x)
      <4>1. PICK rest \in V : rest = f[Letter(p, x) + 1]
        BY <1>1, <1>2, <2>2, <3>3
      <4>2. Pair(key, <<>>) \in Pairs(C)
        <5>1. <<>> \in Seq(C)
          OBVIOUS
        <5> QED
          BY <5>1 DEF Pair, Pairs
      <4>3. ParseStep(p, f, x) = before \o (<<Pair(key, <<>>)>> \o rest)
        BY <2>2, <3>1, <3>2, <3>3, <4>1 DEF ParseStep
      <4> QED
        BY <4>2, <4>3
    <3>4. CASE HasBraces(p, x) /\ ~ AreClosed(p, x)
      <4>1. Unclosed \in Pairs(C)
        <5>1. <<>> \in Seq(C)
          OBVIOUS
        <5> QED
          BY <5>1 DEF Unclosed, Pair, Pairs
      <4>2. ParseStep(p, f, x) = before \o <<Unclosed>>
        BY <2>2, <3>1, <3>4 DEF ParseStep
      <4> QED
        BY <4>1, <4>2
    <3>5. CASE HasBraces(p, x) /\ AreClosed(p, x)
      <4>1. PICK rest \in V : rest = f[Braces(p, x).next + 1]
        BY <1>1, <1>2, <2>2, <3>5
      <4>2. PICK text \in Seq(C) : text = Braces(p, x).val
        BY <2>2, <3>5, ParseAdvances
      <4>3. Pair(key, text) \in Pairs(C)
        BY DEF Pair, Pairs
      <4>4. ParseStep(p, f, x) = before \o (<<Pair(key, text)>> \o rest)
        BY <2>2, <3>1, <3>2, <3>5, <4>1, <4>2 DEF ParseStep
      <4> QED
        BY <4>3, <4>4
    <3> QED
      BY <3>3, <3>4, <3>5
  <2> QED
    BY <2>1, <2>2
<1>3. step \in [[S -> V] -> [S -> V]]
  <2> SUFFICES ASSUME NEW f \in [S -> V], NEW x \in S PROVE ParseStep(p, f, x) \in V
    OBVIOUS
  <2>1. \A y \in S : f[y] \in V
    OBVIOUS
  <2> HIDE DEF S, V
  <2> QED
    BY <1>2, <2>1
<1>4. \A f \in [S -> V], x \in S : step[f][x] = ParseStep(p, f, x)
  OBVIOUS
<1>5. \A x, y \in S : rank[y] < rank[x] <=> y > x
  OBVIOUS
<1>6. Grounded(S, V, rank, step)
  <2> SUFFICES ASSUME NEW f \in [S -> V], NEW g \in [S -> V], NEW x \in S,
                      \A y \in S : rank[y] < rank[x] => f[y] = g[y]
               PROVE  ParseStep(p, f, x) = ParseStep(p, g, x)
    <3> HIDE DEF S, V, rank, step
    <3> QED
      BY <1>4 DEF Grounded
  <2>1. \A y \in S : y > x => f[y] = g[y]
    BY <1>5
  <2> HIDE DEF S, V, rank, step
  <2> QED
    BY <1>1, <2>1 DEF ParseStep
<1>7. rank \in [S -> 0 .. Len(p) + 1] /\ <<>> \in V /\ Len(p) + 1 \in Nat
  OBVIOUS
<1>8. Recursive(S, V, step)
  <2> HIDE DEF S, V, rank, step
  <2> QED
    BY <1>3, <1>6, <1>7, RecursiveFunction
<1> DEFINE h == ParseFrom(p)
<1>9. h = [x \in S |-> ParseStep(p, h, x)]
  <2>1. PICK g \in [S -> V] : g = [x \in S |-> ParseStep(p, g, x)]
    BY <1>8 DEF Recursive
  <2>2. h = CHOOSE f : f = [x \in S |-> ParseStep(p, f, x)]
    BY DEF ParseFrom, ParseStep, ParseEnds, Letter, TextBefore, HasBraces, Braces, AreClosed
  <2> HIDE DEF S, V, h
  <2> QED
    BY <2>1, <2>2
<1> HIDE DEF h
<1>10. ASSUME NEW x \in S, \A y \in S : rank[y] < rank[x] => h[y] \in V
       PROVE  h[x] \in V
  <2>1. \A y \in S : y > x => h[y] \in V
    BY <1>5, <1>10
  <2> HIDE DEF S, V, rank
  <2> QED
    BY <1>2, <1>9, <2>1
<1>11. \A x \in S : h[x] \in V
  <2> DEFINE T == {x \in S : h[x] \in V}
  <2>1. Progressive(S, rank, T)
    BY <1>10 DEF Progressive
  <2>2. T \in SUBSET S
    OBVIOUS
  <2>3. T = S
    <3> HIDE DEF S, V, rank, step, T
    <3> QED
      BY <1>7, <2>1, <2>2, RankInduction
  <2> QED
    BY <2>3
<1> QED
  BY <1>9, <1>11 DEF h

-----------------------------------------------------------------------------
(* The default pattern, which every built logger falls back on.            *)

(* Where the text that begins at pos ends, one character at a time.        *)
LEMMA LiteralNext ==
  ASSUME NEW C, NEW p \in Seq(C), NEW pos \in 1 .. Len(p)
  PROVE  /\ p[pos] # "%" => LiteralFrom(p)[pos].next = LiteralFrom(p)[pos + 1].next
         /\ p[pos] = "%" /\ At(p, pos + 1) # "%" => LiteralFrom(p)[pos].next = pos
<1>1. pos \in 1 .. Len(p) + 1 /\ pos + 1 \in 1 .. Len(p) + 1 /\ ~ (pos > Len(p))
  OBVIOUS
<1>2. LiteralFrom(p)[pos] = LiteralStep(p, LiteralFrom(p), pos)
  BY <1>1, LiteralFromDef
<1>3. PICK rest \in [val : Seq(C), next : 1 .. Len(p) + 1] : rest = LiteralFrom(p)[pos + 1]
  BY <1>1, LiteralFromDef
<1>4. CASE p[pos] # "%"
  <2>1. LiteralFrom(p)[pos] = [rest EXCEPT !.val = <<p[pos]>> \o @]
    BY <1>1, <1>2, <1>3, <1>4 DEF LiteralStep, LiteralEnds, AfterLiteral
  <2> QED
    BY <1>3, <1>4, <2>1
<1>5. CASE p[pos] = "%" /\ At(p, pos + 1) # "%"
  <2>1. LiteralFrom(p)[pos] = [val |-> <<>>, next |-> pos]
    BY <1>2, <1>5 DEF LiteralStep, LiteralEnds
  <2> QED
    BY <1>5, <2>1
<1> QED
  BY <1>4, <1>5

LEMMA BracedNext ==
  ASSUME NEW C, NEW p \in Seq(C), NEW pos \in 1 .. Len(p)
  PROVE  /\ p[pos] # Closing => BracedFrom(p)[pos].next = BracedFrom(p)[pos + 1].next
         /\ p[pos] = Closing => BracedFrom(p)[pos].next = pos
<1>1. pos \in 1 .. Len(p) + 1 /\ pos + 1 \in 1 .. Len(p) + 1 /\ At(p, pos) = p[pos]
  BY DEF At
<1>2. BracedFrom(p)[pos] = BracedStep(p, BracedFrom(p), pos)
  BY <1>1, BracedFromDef
<1>3. PICK rest \in [val : Seq(C), next : 1 .. Len(p) + 1] : rest = BracedFrom(p)[pos + 1]
  BY <1>1, BracedFromDef
<1>4. ASSUME p[pos] # Closing
      PROVE  BracedFrom(p)[pos].next = BracedFrom(p)[pos + 1].next
  <2>1. BracedFrom(p)[pos] = [rest EXCEPT !.val = <<p[pos]>> \o @]
    BY <1>1, <1>2, <1>3, <1>4 DEF BracedStep, BracedEnds
  <2> QED
    BY <1>3, <2>1
<1>5. ASSUME p[pos] = Closing PROVE BracedFrom(p)[pos].next = pos
  <2>1. BracedFrom(p)[pos] = [val |-> <<>>, next |-> pos]
    BY <1>1, <1>2, <1>5 DEF BracedStep, BracedEnds
  <2> QED
    BY <2>1
<1> QED
  BY <1>4, <1>5

Known(C) == Seq([key : ItemKeys, val : Seq(C)])

(* A text that begins at pos, a directive's letter, and what comes after.  *)
DirectiveAt(p, pos, at, after) ==
  /\ LiteralFrom(p)[pos].next + 1 = at
  /\ \/ At(p, at + 1) # Opening /\ after = at + 1
     \/ At(p, at + 1) = Opening /\ BracedFrom(p)[at + 2].next = after - 1 /\ At(p, after - 1) = Closing

(* One directive with a known letter, and braces that are closed if there  *)
(* are any: if the rest is accepted, so is the pattern from here.          *)
LEMMA DirectiveKnown ==
  ASSUME NEW C, NEW p \in Seq(C), NEW pos \in 1 .. Len(p), NEW at \in 1 .. Len(p),
         NEW after \in 1 .. Len(p) + 2, DirectiveAt(p, pos, at, after),
         p[at] \in ItemKeys, ParseFrom(p)[after] \in Known(C)
  PROVE  ParseFrom(p)[pos] \in Known(C)
<1> DEFINE K == [key : ItemKeys, val : Seq(C)]
<1>1. pos \in 1 .. Len(p) + 1 /\ pos \in 1 .. Len(p) + 2
  OBVIOUS
<1>2. PICK literal \in [val : Seq(C), next : 1 .. Len(p) + 1] : literal = LiteralFrom(p)[pos]
  BY <1>1, LiteralFromDef
<1>3. ~ ParseEnds(p, pos) /\ Letter(p, pos) = at
  <2>1. literal.next + 1 = at
    BY <1>2 DEF DirectiveAt
  <2> HIDE DEF DirectiveAt
  <2>2. literal.next \in 1 .. Len(p) + 1 /\ ~ (literal.next > Len(p)) /\ ~ (pos > Len(p))
    BY <2>1
  <2> QED
    BY <1>2, <2>1, <2>2 DEF ParseEnds, Letter
<1>4. At(p, at) = p[at]
  BY DEF At
<1>5. TextBefore(p, pos) \in Seq(K)
  <2>1. PICK pair \in K : pair = Pair(TextKey, literal.val)
    BY DEF Pair, ItemKeys
  <2>2. TextBefore(p, pos) = <<>> \/ TextBefore(p, pos) = <<pair>>
    BY <1>2, <2>1 DEF TextBefore
  <2>3. <<>> \in Seq(K) /\ <<pair>> \in Seq(K)
    OBVIOUS
  <2> QED
    BY <2>2, <2>3
<1>6. PICK before \in Seq(K) : before = TextBefore(p, pos)
  BY <1>5
<1>7. PICK rest \in Seq(K) : rest = ParseFrom(p)[after]
  BY DEF Known
<1>8. ParseFrom(p)[pos] = ParseStep(p, ParseFrom(p), pos)
  BY <1>1, ParseFromDef
<1>9. CASE At(p, at + 1) # Opening /\ after = at + 1
  <2>1. PICK pair \in K : pair = Pair(p[at], <<>>)
    <3>1. <<>> \in Seq(C)
      OBVIOUS
    <3> QED
      BY <3>1 DEF Pair
  <2>2. ParseFrom(p)[pos] = before \o (<<pair>> \o rest)
    BY <1>3, <1>4, <1>6, <1>7, <1>8, <1>9, <2>1 DEF ParseStep, HasBraces
  <2> HIDE DEF K
  <2>3. before \o (<<pair>> \o rest) \in Seq(K)
    OBVIOUS
  <2> QED
    BY <2>2, <2>3 DEF Known, K
<1>10. CASE At(p, at + 1) = Opening /\ BracedFrom(p)[at + 2].next = after - 1 /\ At(p, after - 1) = Closing
  <2>1. HasBraces(p, pos) /\ AreClosed(p, pos) /\ Braces(p, pos).next + 1 = after
    <3>1. Letter(p, pos) + 1 = at + 1 /\ Letter(p, pos) + 2 = at + 2
      BY <1>3
    <3>2. HasBraces(p, pos) /\ Braces(p, pos).next = after - 1
      BY <1>10, <3>1 DEF HasBraces, Braces
    <3>3. AreClosed(p, pos) /\ Braces(p, pos).next + 1 = after
      BY <1>10, <3>2 DEF AreClosed
    <3> QED
      BY <3>2, <3>3
  <2>2. PICK pair \in K : pair = Pair(p[at], Braces(p, pos).val)
    BY <1>1, <1>3, <2>1, ParseAdvances DEF Pair
  <2>3. ParseFrom(p)[pos] = before \o (<<pair>> \o rest)
    BY <1>3, <1>4, <1>6, <1>7, <1>8, <2>1, <2>2 DEF ParseStep
  <2> HIDE DEF K
  <2>4. before \o (<<pair>> \o rest) \in Seq(K)
    OBVIOUS
  <2> QED
    BY <2>3, <2>4 DEF Known, K
<1> QED
  BY <1>9, <1>10 DEF DirectiveAt

IsDefault(p) ==
  /\ p[1] = "[" /\ p[2] = "%" /\ p[3] = "d" /\ p[4] = Opening
  /\ p[5] = "%" /\ p[6] = "H" /\ p[7] = ":" /\ p[8] = "%" /\ p[9] = "M" /\ p[10] = ":"
  /\ p[11] = "%" /\ p[12] = "S" /\ p[13] = Closing
  /\ p[14] = "]" /\ p[15] = "[" /\ p[16] = "%" /\ p[17] = "t"
  /\ p[18] = "]" /\ p[19] = "[" /\ p[20] = "%" /\ p[21] = "p"
  /\ p[22] = "]" /\ p[23] = "[" /\ p[24] = "%" /\ p[25] = "c"
  /\ p[26] = "]" /\ p[27] = "[" /\ p[28] = "%" /\ p[29] = "f"
  /\ p[30] = ":" /\ p[31] = "%" /\ p[32] = "l"
  /\ p[33] = "]" /\ p[34] = Blank /\ p[35] = "%" /\ p[36] = "m" /\ p[37] = "%" /\ p[38] = "n"

LEMMA DefaultIsAccepted ==
  ASSUME NEW C, NEW p \in Seq(C), Len(p) = 38, IsDefault(p)
  PROVE  Accepted(p)
<1> DEFINE L(i) == LiteralFrom(p)[i].next
           B(i) == BracedFrom(p)[i].next
           Leads(i, j) == \E at \in 1 .. 38 : DirectiveAt(p, i, at, j) /\ p[at] \in ItemKeys
           K == {i \in 1 .. 40 : ParseFrom(p)[i] \in Known(C)}
<1>1. \A i \in 1 .. 38 : At(p, i) = p[i]
  BY DEF At
<1>2. \A i \in 1 .. 37 : (p[i] # "%" => L(i) = L(i + 1)) /\ (p[i] = "%" /\ p[i + 1] # "%" => L(i) = i)
  <2> SUFFICES ASSUME NEW i \in 1 .. 37
               PROVE  (p[i] # "%" => L(i) = L(i + 1)) /\ (p[i] = "%" /\ p[i + 1] # "%" => L(i) = i)
    OBVIOUS
  <2>1. i \in 1 .. Len(p) /\ i + 1 \in 1 .. 38
    OBVIOUS
  <2>2. At(p, i + 1) = p[i + 1]
    BY <1>1, <2>1
  <2> QED
    BY <2>1, <2>2, LiteralNext
<1>3. \A i \in 1 .. 38 : (p[i] \notin {Closing, Eos} => B(i) = B(i + 1)) /\ (p[i] = Closing => B(i) = i)
  <2> SUFFICES ASSUME NEW i \in 1 .. 38
               PROVE  (p[i] \notin {Closing, Eos} => B(i) = B(i + 1)) /\ (p[i] = Closing => B(i) = i)
    OBVIOUS
  <2>1. i \in 1 .. Len(p)
    OBVIOUS
  <2> QED
    BY <2>1, BracedNext DEF Eos
<1>4. /\ L(1) = 2 /\ L(14) = 16 /\ L(18) = 20 /\ L(22) = 24
      /\ L(26) = 28 /\ L(30) = 31 /\ L(33) = 35 /\ L(37) = 37
  <2>1. /\ p[2] = "%" /\ p[16] = "%" /\ p[20] = "%" /\ p[24] = "%" /\ p[28] = "%"
        /\ p[31] = "%" /\ p[35] = "%" /\ p[37] = "%"
    BY DEF IsDefault
  <2>2. /\ p[3] # "%" /\ p[17] # "%" /\ p[21] # "%" /\ p[25] # "%" /\ p[29] # "%"
        /\ p[32] # "%" /\ p[36] # "%" /\ p[38] # "%"
    BY DEF IsDefault
  <2>3. /\ p[1] # "%" /\ p[14] # "%" /\ p[15] # "%" /\ p[18] # "%" /\ p[19] # "%" /\ p[22] # "%"
        /\ p[23] # "%" /\ p[26] # "%" /\ p[27] # "%" /\ p[30] # "%" /\ p[33] # "%" /\ p[34] # "%"
    BY CharsDiffer DEF IsDefault
  <2> HIDE DEF L
  <2>4. /\ L(2) = 2 /\ L(16) = 16 /\ L(20) = 20 /\ L(24) = 24
        /\ L(28) = 28 /\ L(31) = 31 /\ L(35) = 35 /\ L(37) = 37
    BY <1>2, <2>1, <2>2
  <2>5. L(15) = L(16) /\ L(19) = L(20) /\ L(23) = L(24) /\ L(27) = L(28) /\ L(34) = L(35)
    BY <1>2, <2>3
  <2>6. /\ L(1) = L(2) /\ L(14) = L(15) /\ L(18) = L(19) /\ L(22) = L(23)
        /\ L(26) = L(27) /\ L(30) = L(31) /\ L(33) = L(34)
    BY <1>2, <2>3
  <2> QED
    BY <2>4, <2>5, <2>6
<1>5. B(5) = 13
  <2>1. \A c \in {"%", "H", ":", "M", "S"} : c \notin {Closing, Eos}
    BY CharsDiffer DEF Eos
  <2>2. /\ p[5] = "%" /\ p[6] = "H" /\ p[7] = ":" /\ p[8] = "%" /\ p[9] = "M" /\ p[10] = ":"
        /\ p[11] = "%" /\ p[12] = "S" /\ p[13] = Closing
    BY DEF IsDefault
  <2> HIDE DEF B
  <2>3. /\ B(5) = B(6) /\ B(6) = B(7) /\ B(7) = B(8) /\ B(8) = B(9) /\ B(9) = B(10)
        /\ B(10) = B(11) /\ B(11) = B(12) /\ B(12) = B(13)
    BY <1>3, <2>1, <2>2
  <2>4. B(13) = 13
    BY <1>3, <2>2
  <2> QED
    BY <2>3, <2>4
<1>6. At(p, 39) = Eos
  BY DEF At
<1>7. /\ DirectiveAt(p, 1, 3, 14) /\ DirectiveAt(p, 14, 17, 18) /\ DirectiveAt(p, 18, 21, 22)
      /\ DirectiveAt(p, 22, 25, 26) /\ DirectiveAt(p, 26, 29, 30) /\ DirectiveAt(p, 30, 32, 33)
      /\ DirectiveAt(p, 33, 36, 37) /\ DirectiveAt(p, 37, 38, 39)
  <2>1. DirectiveAt(p, 1, 3, 14)
    <3>1. At(p, 4) = Opening /\ At(p, 13) = Closing
      BY <1>1 DEF IsDefault
    <3> QED
      BY <1>4, <1>5, <3>1 DEF DirectiveAt
  <2>2. /\ At(p, 18) # Opening /\ At(p, 22) # Opening /\ At(p, 26) # Opening /\ At(p, 30) # Opening
        /\ At(p, 33) # Opening /\ At(p, 37) # Opening /\ At(p, 39) # Opening
    BY <1>1, <1>6, CharsDiffer DEF IsDefault
  <2>3. /\ DirectiveAt(p, 14, 17, 18) /\ DirectiveAt(p, 18, 21, 22) /\ DirectiveAt(p, 22, 25, 26)
        /\ DirectiveAt(p, 26, 29, 30) /\ DirectiveAt(p, 30, 32, 33) /\ DirectiveAt(p, 33, 36, 37)
        /\ DirectiveAt(p, 37, 38, 39)
    BY <1>4, <2>2 DEF DirectiveAt
  <2> QED
    BY <2>1, <2>3
<1>8. /\ p[3] \in ItemKeys /\ p[17] \in ItemKeys /\ p[21] \in ItemKeys /\ p[25] \in ItemKeys
      /\ p[29] \in ItemKeys /\ p[32] \in ItemKeys /\ p[36] \in ItemKeys /\ p[38] \in ItemKeys
  BY DEF IsDefault, ItemKeys
<1>9. /\ Leads(1, 14) /\ Leads(14, 18) /\ Leads(18, 22) /\ Leads(22, 26)
      /\ Leads(26, 30) /\ Leads(30, 33) /\ Leads(33, 37) /\ Leads(37, 39)
  BY <1>7, <1>8
<1>10. 39 \in K
  <2>1. 39 \in 1 .. Len(p) + 2 /\ 39 > Len(p)
    OBVIOUS
  <2>2. ParseFrom(p)[39] = ParseStep(p, ParseFrom(p), 39)
    BY <2>1, ParseFromDef
  <2>3. ParseFrom(p)[39] = <<>>
    BY <2>1, <2>2 DEF ParseStep, ParseEnds
  <2>4. <<>> \in Seq([key : ItemKeys, val : Seq(C)])
    OBVIOUS
  <2>5. ParseFrom(p)[39] \in Known(C)
    BY <2>3, <2>4 DEF Known
  <2> QED
    BY <2>5
<1>11. \A pos \in 1 .. 38, after \in 1 .. 40 : Leads(pos, after) /\ after \in K => pos \in K
  <2> SUFFICES ASSUME NEW pos \in 1 .. 38, NEW after \in 1 .. 40, Leads(pos, after), after \in K
               PROVE  pos \in K
    OBVIOUS
  <2>1. PICK at \in 1 .. 38 : DirectiveAt(p, pos, at, after) /\ p[at] \in ItemKeys
    OBVIOUS
  <2>2. pos \in 1 .. Len(p) /\ at \in 1 .. Len(p) /\ after \in 1 .. Len(p) + 2
    OBVIOUS
  <2>3. ParseFrom(p)[pos] \in Known(C)
    BY <2>1, <2>2, DirectiveKnown
  <2> QED
    BY <2>3
<1>12. ParseFrom(p)[1] \in Known(C)
  <2> HIDE DEF K, Leads
  <2>1. 37 \in K
    <3>1. 37 \in 1 .. 38 /\ 39 \in 1 .. 40 /\ Leads(37, 39) /\ 39 \in K
      BY <1>9, <1>10
    <3> QED
      BY <1>11, <3>1
  <2>2. 33 \in K
    BY <1>9, <1>11, <2>1
  <2>3. 30 \in K
    BY <1>9, <1>11, <2>2
  <2>4. 26 \in K
    BY <1>9, <1>11, <2>3
  <2>5. 22 \in K
    BY <1>9, <1>11, <2>4
  <2>6. 18 \in K
    BY <1>9, <1>11, <2>5
  <2>7. 14 \in K
    BY <1>9, <1>11, <2>6
  <2>8. 1 \in K
    BY <1>9, <1>11, <2>7
  <2> QED
    BY <2>8 DEF K
<1>13. \A i \in DOMAIN ParseFrom(p)[1] : ParseFrom(p)[1][i].key \in ItemKeys
  <2> DEFINE P == [key : ItemKeys, val : Seq(C)]
  <2>1. PICK pairs \in Seq(P) : pairs = ParseFrom(p)[1]
    BY <1>12 DEF Known
  <2>2. \A i \in DOMAIN pairs : pairs[i] \in P
    <3> HIDE DEF P
    <3> QED
      OBVIOUS
  <2> QED
    BY <2>1, <2>2
<1> QED
  BY <1>13 DEF Accepted, ParsePattern

LEMMA DefaultAccepted == Accepted(DefaultPattern)
<1> DEFINE C == {"%", "d", "H", ":", "M", "S", "[", "]", "t", "p", "c", "f", "l", "m", "n", Blank, Opening, Closing}
<1>1. DefaultPattern \in Seq(C) /\ Len(DefaultPattern) = 38
  BY DEF DefaultPattern
<1>2. IsDefault(DefaultPattern)
  BY DEF DefaultPattern, IsDefault
<1> QED
  BY <1>1, <1>2, DefaultIsAccepted

-----------------------------------------------------------------------------
(* What the items of a pattern write, and which pairs have an item.        *)

(* Texts, and what is written: parts, which for literal text are its       *)
(* characters.                                                             *)
Text == Seq(Characters)
Part == [field : Characters \cup {TextKey, Eos, "unclosed"}, text : Text]
Lit(c) == [field |-> TextKey, text |-> <<c>>]
Plain(val) == [i \in DOMAIN val |-> Lit(val[i])]

(* What the items for some pairs write, one item after the other.          *)
Wrote(pairs) == FlattenSeq([i \in DOMAIN pairs |-> CreateItem(pairs[i])])
Rendered(pairs) == [i \in DOMAIN pairs |-> CreateItem(pairs[i])]

(* Literal text is written as it stands, one part for a character.         *)
LEMMA PlainType ==
  ASSUME NEW val \in Text
  PROVE  /\ Plain(val) \in Seq(Part) /\ Len(Plain(val)) = Len(val)
         /\ \A i \in 1 .. Len(val) : Plain(val)[i] = Lit(val[i])
<1>1. \A i \in 1 .. Len(val) : Lit(val[i]) \in Part
  <2>1. \A c \in Characters : <<c>> \in Text
    BY DEF Text
  <2>2. \A i \in 1 .. Len(val) : val[i] \in Characters
    BY DEF Text
  <2> QED
    BY <2>1, <2>2 DEF Lit, Part
<1>2. DOMAIN val = 1 .. Len(val) /\ Len(val) \in Nat
  BY DEF Text
<1> QED
  BY <1>1, <1>2 DEF Plain

(* A character ahead of a text is a part ahead of its parts.               *)
LEMMA PlainCons ==
  ASSUME NEW c \in Characters, NEW val \in Text
  PROVE  /\ Plain(<<>>) = <<>>
         /\ Plain(<<c>> \o val) = Cat(<<Lit(c)>>, Plain(val))
<1>1. Plain(<<>>) = <<>>
  BY DEF Plain
<1>2. /\ <<c>> \o val \in Text /\ Len(<<c>> \o val) = Len(val) + 1 /\ (<<c>> \o val)[1] = c
      /\ Len(val) \in Nat
      /\ \A i \in 1 .. Len(val) : (<<c>> \o val)[i + 1] = val[i]
  BY DEF Text
<1> DEFINE one == Plain(<<c>> \o val)
           two == Cat(<<Lit(c)>>, Plain(val))
<1>3. one \in Seq(Part) /\ Len(one) = Len(val) + 1 /\ one[1] = Lit(c)
      /\ \A i \in 1 .. Len(val) : one[i + 1] = Lit(val[i])
  <2>1. /\ one \in Seq(Part) /\ Len(one) = Len(<<c>> \o val)
        /\ \A i \in 1 .. Len(<<c>> \o val) : one[i] = Lit((<<c>> \o val)[i])
    BY <1>2, PlainType
  <2> HIDE DEF one
  <2>2. \A i \in 1 .. Len(val) : i + 1 \in 1 .. Len(val) + 1
    BY <1>2
  <2>3. 1 \in 1 .. Len(val) + 1
    BY <1>2
  <2> QED
    BY <1>2, <2>1, <2>2, <2>3
<1>4. Lit(c) \in Part
  <2>1. <<c>> \in Text
    BY DEF Text
  <2> QED
    BY <2>1 DEF Lit, Part
<1>5. two \in Seq(Part) /\ Len(two) = Len(val) + 1 /\ two[1] = Lit(c)
      /\ \A i \in 1 .. Len(val) : two[i + 1] = Lit(val[i])
  <2>1. PICK p \in Seq(Part) : p = Plain(val) /\ Len(p) = Len(val) /\ \A i \in 1 .. Len(val) : p[i] = Lit(val[i])
    BY PlainType
  <2>2. two = <<Lit(c)>> \o p
    BY <2>1 DEF Cat
  <2>3. PICK l \in Part : l = Lit(c)
    BY <1>4
  <2>4. /\ <<l>> \o p \in Seq(Part) /\ Len(<<l>> \o p) = Len(p) + 1 /\ (<<l>> \o p)[1] = l
        /\ \A i \in 1 .. Len(p) : (<<l>> \o p)[i + 1] = p[i]
    OBVIOUS
  <2> HIDE DEF two
  <2> QED
    BY <2>1, <2>2, <2>3, <2>4
<1>6. one = two
  <2> HIDE DEF one, two
  <2>1. ASSUME NEW i \in 1 .. Len(one) PROVE one[i] = two[i]
    <3>1. i = 1 \/ (i - 1 \in 1 .. Len(val) /\ i = (i - 1) + 1)
      BY <1>2, <1>3
    <3> QED
      BY <1>3, <1>5, <3>1
  <2>2. Len(one) = Len(two) /\ one \in Seq(Part) /\ two \in Seq(Part)
    BY <1>3, <1>5
  <2> QED
    BY <2>1, <2>2, SeqEqual
<1> QED
  BY <1>1, <1>6

(* The pairs of texts over Characters, and those that have an item.        *)
TextPairs == Pairs(Characters)

(* An item writes parts.                                                   *)
LEMMA CreateItemType ==
  ASSUME NEW pair \in TextPairs
  PROVE  CreateItem(pair) \in Seq(Part)
<1>1. PICK key \in Characters \cup {TextKey, Eos, "unclosed"}, val \in Text : pair.key = key /\ pair.val = val
  BY DEF TextPairs, Pairs, Text
<1>2. CASE key = TextKey
  <2>1. CreateItem(pair) = Plain(val)
    <3>1. pair.key = "" /\ pair.key # "d"
      BY <1>1, <1>2 DEF TextKey
    <3> QED
      BY <1>1, <3>1 DEF CreateItem, Plain, Lit, TextKey
  <2> QED
    BY <2>1, PlainType
<1>3. CASE key # TextKey
  <2>1. \A t \in Text : <<[field |-> key, text |-> t]>> \in Seq(Part)
    BY DEF Part
  <2>2. <<>> \in Text /\ <<"%", "H", ":", "%", "M", ":", "%", "S">> \in Text
    <3>1. "%" \in Characters /\ "H" \in Characters /\ ":" \in Characters /\ "M" \in Characters /\ "S" \in Characters
      BY CharactersAssumption
    <3> QED
      BY <3>1 DEF Text
  <2>3. CreateItem(pair) \in {<<[field |-> key, text |-> t]>> : t \in Text}
    BY <1>1, <1>3, <2>2 DEF CreateItem
  <2> QED
    BY <2>1, <2>3
<1> QED
  BY <1>2, <1>3

(* What two lists of items write is what one writes and then the other.    *)
LEMMA WroteConcat ==
  ASSUME NEW one \in Seq(TextPairs), NEW two \in Seq(TextPairs)
  PROVE  /\ Wrote(one) \in Seq(Part)
         /\ Wrote(one \o two) = Cat(Wrote(one), Wrote(two))
<1>1. ASSUME NEW s \in Seq(TextPairs)
      PROVE  /\ Rendered(s) \in Seq(Seq(Part)) /\ Len(Rendered(s)) = Len(s)
             /\ \A i \in 1 .. Len(s) : Rendered(s)[i] = CreateItem(s[i])
  <2>1. DOMAIN s = 1 .. Len(s) /\ Len(s) \in Nat /\ \A i \in 1 .. Len(s) : s[i] \in TextPairs
    OBVIOUS
  <2>2. \A i \in 1 .. Len(s) : CreateItem(s[i]) \in Seq(Part)
    BY <2>1, CreateItemType
  <2> QED
    BY <2>1, <2>2 DEF Rendered
<1>2. \A s : Wrote(s) = FlattenSeq(Rendered(s))
  BY DEF Wrote, Rendered
<1>3. Wrote(one) \in Seq(Part)
  BY <1>1, <1>2, FlattenType
<1>4. Rendered(one \o two) = Cat(Rendered(one), Rendered(two))
  <2> DEFINE a == Rendered(one \o two)
             b == Cat(Rendered(one), Rendered(two))
             B == Seq(Part)
  <2>1. /\ one \o two \in Seq(TextPairs) /\ Len(one \o two) = Len(one) + Len(two)
        /\ \A i \in 1 .. Len(one) : (one \o two)[i] = one[i]
        /\ \A i \in 1 .. Len(two) : (one \o two)[Len(one) + i] = two[i]
    BY CatType DEF Cat, IsCat
  <2>2. a \in Seq(B) /\ Len(a) = Len(one) + Len(two) /\ \A i \in 1 .. Len(one \o two) : a[i] = CreateItem((one \o two)[i])
    BY <1>1, <2>1
  <2>3. IsCat(B, Rendered(one), Rendered(two), b)
    BY <1>1, CatType
  <2>4. Len(one) \in Nat /\ Len(two) \in Nat
    OBVIOUS
  <2>5. /\ Len(Rendered(one)) = Len(one) /\ Len(Rendered(two)) = Len(two)
        /\ \A i \in 1 .. Len(one) : Rendered(one)[i] = CreateItem(one[i])
        /\ \A i \in 1 .. Len(two) : Rendered(two)[i] = CreateItem(two[i])
    BY <1>1
  <2> HIDE DEF a, b, B
  <2>6. /\ b \in Seq(B) /\ Len(b) = Len(one) + Len(two)
        /\ \A i \in 1 .. Len(one) : b[i] = CreateItem(one[i])
        /\ \A i \in 1 .. Len(two) : b[Len(one) + i] = CreateItem(two[i])
    BY <2>3, <2>5 DEF IsCat
  <2>7. ASSUME NEW i \in 1 .. Len(a) PROVE a[i] = b[i]
    <3>1. i \in 1 .. Len(one) \/ \E j \in 1 .. Len(two) : i = Len(one) + j
      <4>1. i \in 1 .. Len(one) \/ (i - Len(one) \in 1 .. Len(two) /\ i = Len(one) + (i - Len(one)))
        BY <2>2, <2>4
      <4> QED
        BY <4>1
    <3>2. i \in 1 .. Len(one \o two)
      BY <2>1, <2>2
    <3>3. CASE i \in 1 .. Len(one)
      <4>1. a[i] = CreateItem(one[i])
        BY <2>1, <2>2, <3>2, <3>3
      <4>2. b[i] = CreateItem(one[i])
        BY <2>6, <3>3, Zenon
      <4> QED
        BY <4>1, <4>2
    <3>4. CASE \E j \in 1 .. Len(two) : i = Len(one) + j
      <4>1. PICK j \in 1 .. Len(two) : i = Len(one) + j
        BY <3>4
      <4>2. a[i] = CreateItem(two[j])
        BY <2>1, <2>2, <3>2, <4>1
      <4> QED
        BY <2>6, <4>1, <4>2
    <3> QED
      BY <3>1, <3>3, <3>4
  <2>8. a = b
    BY <2>2, <2>6, <2>7, SeqEqual
  <2> QED
    BY <2>8 DEF a, b
<1>5. Rendered(one) \in Seq(Seq(Part)) /\ Rendered(two) \in Seq(Seq(Part))
  BY <1>1
<1> QED
  BY <1>2, <1>3, <1>4, <1>5, FlattenConcat

LEMMA WroteNothing == Wrote(<<>>) = <<>>
<1>1. [i \in DOMAIN <<>> |-> CreateItem(<<>>[i])] = <<>>
  OBVIOUS
<1>2. <<>> \in Seq(Seq(Part)) /\ Len(<<>>) = 0
  OBVIOUS
<1> QED
  BY <1>1, <1>2, FlattenEmpty DEF Wrote

LEMMA WroteOne ==
  ASSUME NEW pair \in TextPairs
  PROVE  Wrote(<<pair>>) = CreateItem(pair)
<1>1. [i \in DOMAIN <<pair>> |-> CreateItem(<<pair>>[i])] = <<CreateItem(pair)>>
  OBVIOUS
<1> QED
  BY <1>1, CreateItemType, FlattenOne DEF Wrote

(* A directive whose letter is at: what it is parsed to, with all behind.  *)
DirectiveFrom(p, at) ==
  IF At(p, at + 1) # Opening THEN <<Pair(At(p, at), <<>>)>> \o ParseFrom(p)[at + 1]
  ELSE IF At(p, BracedFrom(p)[at + 2].next) # Closing THEN <<Unclosed>>
  ELSE <<Pair(At(p, at), BracedFrom(p)[at + 2].val)>> \o ParseFrom(p)[BracedFrom(p)[at + 2].next + 1]

(* Parsing is reading up to a directive and then from its letter on.       *)
LEMMA ParseType ==
  ASSUME NEW p \in Text, NEW pos \in 1 .. Len(p) + 2
  PROVE  /\ ParseFrom(p)[pos] \in Seq(TextPairs)
         /\ ParseFrom(p)[pos] = IF ParseEnds(p, pos) THEN <<>>
                                ELSE TextBefore(p, pos) \o DirectiveFrom(p, Letter(p, pos))
<1>1. /\ ParseFrom(p) \in [1 .. Len(p) + 2 -> Seq(TextPairs)]
      /\ \A x \in 1 .. Len(p) + 2 : ParseFrom(p)[x] = ParseStep(p, ParseFrom(p), x)
  BY ParseFromDef DEF Text, TextPairs
<1>2. ParseFrom(p)[pos] = ParseStep(p, ParseFrom(p), pos)
  BY <1>1
<1>3. ParseFrom(p)[pos] = IF ParseEnds(p, pos) THEN <<>>
                          ELSE TextBefore(p, pos) \o DirectiveFrom(p, Letter(p, pos))
  BY <1>2 DEF ParseStep, DirectiveFrom, HasBraces, Braces, AreClosed
<1> QED
  BY <1>1, <1>3

KnownPairs == Known(Characters)

(* A pair that has an item is a pair.                                      *)
LEMMA KnownType == KnownPairs \subseteq Seq(TextPairs)
<1>1. ItemKeys \subseteq Characters \cup {TextKey, Eos, "unclosed"}
  BY CharactersAssumption DEF ItemKeys, Keys
<1>2. [key : ItemKeys, val : Seq(Characters)] \subseteq TextPairs
  BY <1>1 DEF TextPairs, Pairs
<1> DEFINE K == [key : ItemKeys, val : Seq(Characters)]
<1> HIDE DEF K
<1>3. ASSUME NEW s \in Seq(K) PROVE s \in Seq(TextPairs)
  <2>1. K \subseteq TextPairs
    BY <1>2 DEF K
  <2> QED
    BY <2>1
<1> QED
  BY <1>3 DEF KnownPairs, Known, K

(* What is known is known piece by piece.                                  *)
LEMMA KnownConcat ==
  ASSUME NEW one \in KnownPairs, NEW two \in Seq(TextPairs)
  PROVE  one \o two \in KnownPairs <=> two \in KnownPairs
<1> DEFINE K == [key : ItemKeys, val : Seq(Characters)]
<1>1. KnownPairs = Seq(K)
  BY DEF KnownPairs, Known
<1>2. one \in Seq(K) /\ one \in Seq(TextPairs)
  BY <1>1, KnownType
<1> HIDE DEF K
<1>3. ASSUME two \in Seq(K) PROVE one \o two \in Seq(K)
  BY <1>2, <1>3
<1>4. ASSUME one \o two \in Seq(K) PROVE two \in Seq(K)
  <2>1. ASSUME NEW i \in 1 .. Len(two) PROVE two[i] \in K
    <3>1. Len(one) + i \in 1 .. Len(one \o two) /\ (one \o two)[Len(one) + i] = two[i]
      BY <1>2
    <3> QED
      BY <1>4, <3>1
  <2> QED
    BY <2>1
<1> QED
  BY <1>1, <1>3, <1>4

(* One pair ahead of the rest.                                             *)
LEMMA PairAhead ==
  ASSUME NEW pair \in TextPairs, NEW rest \in Seq(TextPairs)
  PROVE  /\ <<pair>> \o rest \in Seq(TextPairs)
         /\ Wrote(<<pair>> \o rest) = Cat(CreateItem(pair), Wrote(rest))
         /\ <<pair>> \o rest \in KnownPairs <=> pair.key \in ItemKeys /\ rest \in KnownPairs
<1>1. <<pair>> \in Seq(TextPairs) /\ <<pair>> \o rest \in Seq(TextPairs)
  OBVIOUS
<1>2. Wrote(<<pair>> \o rest) = Cat(CreateItem(pair), Wrote(rest))
  BY <1>1, WroteConcat, WroteOne
<1>3. CASE pair.key \in ItemKeys
  <2>1. pair \in [key : ItemKeys, val : Seq(Characters)]
    BY <1>3 DEF TextPairs, Pairs
  <2>2. <<pair>> \in KnownPairs
    BY <2>1 DEF KnownPairs, Known
  <2> QED
    BY <1>1, <1>2, <1>3, <2>2, KnownConcat
<1>4. CASE pair.key \notin ItemKeys
  <2>1. (<<pair>> \o rest)[1] = pair /\ 1 \in 1 .. Len(<<pair>> \o rest)
    OBVIOUS
  <2>2. <<pair>> \o rest \notin KnownPairs
    BY <1>4, <2>1 DEF KnownPairs, Known
  <2> QED
    BY <1>1, <1>2, <1>4, <2>2
<1> QED
  BY <1>3, <1>4

(* What DirectiveFrom gives is of the right kind.                          *)
LEMMA DirectiveType ==
  ASSUME NEW p \in Text, NEW pos \in 1 .. Len(p) + 2, ~ ParseEnds(p, pos)
  PROVE  DirectiveFrom(p, Letter(p, pos)) \in Seq(TextPairs)
<1>1. PICK at \in 1 .. Len(p) + 1 : at = Letter(p, pos)
  BY ParseAdvances DEF Text
<1>2. At(p, at) \in Characters \cup {TextKey, Eos, "unclosed"}
  BY <1>1, ParseAdvances DEF Text
<1>3. <<>> \in Seq(Characters)
  OBVIOUS
<1>4. CASE At(p, at + 1) # Opening
  <2>1. ParseFrom(p)[at + 1] \in Seq(TextPairs)
    BY ParseType
  <2>2. Pair(At(p, at), <<>>) \in TextPairs
    BY <1>2, <1>3 DEF Pair, TextPairs, Pairs
  <2> QED
    BY <1>1, <1>4, <2>1, <2>2, PairAhead DEF DirectiveFrom
<1>5. CASE At(p, at + 1) = Opening
  <2>1. HasBraces(p, pos)
    BY <1>1, <1>5 DEF HasBraces
  <2>2. PICK n \in 1 .. Len(p) + 1, text \in Seq(Characters) : n = Braces(p, pos).next /\ text = Braces(p, pos).val
    <3>1. Braces(p, pos).next \in Letter(p, pos) + 2 .. Len(p) + 1 /\ Braces(p, pos).val \in Seq(Characters)
      BY <2>1, ParseAdvances DEF Text
    <3> QED
      BY <1>1, <3>1
  <2>3. n = BracedFrom(p)[at + 2].next /\ text = BracedFrom(p)[at + 2].val
    BY <1>1, <2>2 DEF Braces
  <2>4. ParseFrom(p)[n + 1] \in Seq(TextPairs)
    BY ParseType
  <2>5. Pair(At(p, at), text) \in TextPairs /\ Unclosed \in TextPairs
    BY <1>2, <1>3 DEF Pair, Unclosed, TextPairs, Pairs
  <2>6. <<Unclosed>> \in Seq(TextPairs) /\ <<Pair(At(p, at), text)>> \o ParseFrom(p)[n + 1] \in Seq(TextPairs)
    BY <2>4, <2>5, PairAhead
  <2> QED
    BY <1>1, <1>5, <2>3, <2>6 DEF DirectiveFrom
<1> QED
  BY <1>4, <1>5

(* The text ahead of a directive.                                          *)
LEMMA TextRead ==
  ASSUME NEW p \in Text, NEW pos \in 1 .. Len(p) + 2, ~ ParseEnds(p, pos)
  PROVE  /\ LiteralFrom(p)[pos].val \in Text
         /\ Wrote(ParseFrom(p)[pos]) =
              Cat(Plain(LiteralFrom(p)[pos].val), Wrote(DirectiveFrom(p, Letter(p, pos))))
         /\ ParseFrom(p)[pos] \in KnownPairs <=> DirectiveFrom(p, Letter(p, pos)) \in KnownPairs
<1>1. PICK val \in Text : val = LiteralFrom(p)[pos].val
  <2>1. pos \in 1 .. Len(p) + 1
    BY DEF ParseEnds, Text
  <2>2. PICK r \in [val : Seq(Characters), next : 1 .. Len(p) + 1] : r = LiteralFrom(p)[pos]
    BY <2>1, LiteralFromDef DEF Text
  <2> QED
    BY <2>2 DEF Text
<1>2. PICK from \in Seq(TextPairs) : from = DirectiveFrom(p, Letter(p, pos))
  BY DirectiveType
<1>3. ParseFrom(p)[pos] = TextBefore(p, pos) \o from
  BY <1>2, ParseType
<1>4. Wrote(from) \in Seq(Part)
  BY WroteConcat
<1>5. CASE val = <<>>
  <2>1. TextBefore(p, pos) = <<>> /\ Plain(val) = <<>>
    BY <1>1, <1>5 DEF TextBefore, Plain
  <2>2. <<>> \o from = from /\ Cat(<<>>, Wrote(from)) = Wrote(from)
    BY <1>4, CatType
  <2> QED
    BY <1>1, <1>2, <1>3, <2>1, <2>2
<1>6. CASE val # <<>>
  <2>1. PICK pair \in TextPairs : pair = Pair(TextKey, val)
    BY DEF Pair, TextPairs, Pairs, Text
  <2>2. TextBefore(p, pos) = <<pair>>
    BY <1>1, <1>6, <2>1 DEF TextBefore
  <2>3. CreateItem(pair) = Plain(val)
    <3>1. pair.key = "" /\ pair.val = val
      BY <2>1 DEF TextKey, Pair
    <3> QED
      BY <3>1 DEF CreateItem, Plain, Lit, TextKey
  <2>4. pair.key \in ItemKeys
    BY <2>1 DEF Pair, ItemKeys
  <2> QED
    BY <1>1, <1>2, <1>3, <2>2, <2>3, <2>4, PairAhead
<1> QED
  BY <1>5, <1>6

-----------------------------------------------------------------------------
(* Literals and directives, each read at its place.                        *)

(* A literal character at pos, behind which next is: a % is written twice. *)
LiteralAt(p, pos, next) ==
  \/ p[pos] # "%" /\ next = pos + 1
  \/ p[pos] = "%" /\ pos + 1 <= Len(p) /\ p[pos + 1] = "%" /\ next = pos + 2

(* A literal character adds its part, if a directive follows at all, and   *)
(* leaves the rest as it is.                                               *)
LEMMA LiteralRead ==
  ASSUME NEW p \in Text, NEW pos \in 1 .. Len(p), NEW next, LiteralAt(p, pos, next)
  PROVE  /\ next \in 1 .. Len(p) + 1
         /\ ParseEnds(p, pos) <=> ParseEnds(p, next)
         /\ ~ ParseEnds(p, pos) =>
              Wrote(ParseFrom(p)[pos]) = Cat(<<Lit(p[pos])>>, Wrote(ParseFrom(p)[next]))
         /\ ParseFrom(p)[pos] \in KnownPairs <=> ParseFrom(p)[next] \in KnownPairs
<1>1. /\ next \in 1 .. Len(p) + 1 /\ next = AfterLiteral(p, pos) /\ ~ LiteralEnds(p, pos)
      /\ p[pos] \in Characters
  BY DEF LiteralAt, AfterLiteral, LiteralEnds, At, Text
<1>2. pos \in 1 .. Len(p) + 1 /\ pos \in 1 .. Len(p) + 2 /\ next \in 1 .. Len(p) + 2
  BY <1>1 DEF Text
<1>3. PICK rest \in [val : Seq(Characters), next : 1 .. Len(p) + 1] : rest = LiteralFrom(p)[next]
  BY <1>1, LiteralFromDef DEF Text
<1>4. LiteralFrom(p)[pos] = [rest EXCEPT !.val = <<p[pos]>> \o @]
  <2>1. LiteralFrom(p)[pos] = LiteralStep(p, LiteralFrom(p), pos)
    BY <1>2, LiteralFromDef DEF Text
  <2> QED
    BY <1>1, <1>3, <2>1 DEF LiteralStep
<1>5. LiteralFrom(p)[pos].next = rest.next /\ LiteralFrom(p)[pos].val = <<p[pos]>> \o rest.val
  BY <1>3, <1>4
<1>6. ParseEnds(p, pos) <=> ParseEnds(p, next)
  <2>1. next > Len(p) => rest.next > Len(p)
    <3>1. rest.next >= next
      BY <1>1, <1>3, LiteralForward DEF Text
    <3> QED
      BY <1>1, <1>3, <3>1 DEF Text
  <2>2. ~ (pos > Len(p))
    BY DEF Text
  <2> QED
    BY <1>3, <1>5, <2>1, <2>2 DEF ParseEnds
<1>7. CASE ParseEnds(p, pos)
  <2>1. ParseFrom(p)[pos] = <<>> /\ ParseFrom(p)[next] = <<>>
    BY <1>2, <1>6, <1>7, ParseType
  <2> QED
    BY <1>1, <1>6, <1>7, <2>1
<1>8. CASE ~ ParseEnds(p, pos)
  <2>1. Letter(p, pos) = Letter(p, next)
    BY <1>3, <1>5 DEF Letter
  <2>2. PICK from \in Seq(TextPairs) : from = DirectiveFrom(p, Letter(p, pos))
    BY <1>2, <1>8, DirectiveType
  <2>3. /\ Wrote(ParseFrom(p)[pos]) = Cat(Plain(LiteralFrom(p)[pos].val), Wrote(from))
        /\ ParseFrom(p)[pos] \in KnownPairs <=> from \in KnownPairs
    BY <1>2, <1>8, <2>2, TextRead
  <2>4. /\ Wrote(ParseFrom(p)[next]) = Cat(Plain(rest.val), Wrote(from))
        /\ ParseFrom(p)[next] \in KnownPairs <=> from \in KnownPairs
    BY <1>2, <1>3, <1>6, <1>8, <2>1, <2>2, TextRead
  <2>5. PICK val \in Text : val = rest.val
    BY <1>3 DEF Text
  <2>6. PICK c \in Characters : c = p[pos]
    BY <1>1
  <2>7. Plain(LiteralFrom(p)[pos].val) = Cat(<<Lit(c)>>, Plain(val))
    BY <1>5, <2>5, <2>6, PlainCons
  <2>8. Cat(Cat(<<Lit(c)>>, Plain(val)), Wrote(from)) = Cat(<<Lit(c)>>, Cat(Plain(val), Wrote(from)))
    <3>1. <<Lit(c)>> \in Seq(Part)
      <4>1. <<c>> \in Text
        BY DEF Text
      <4>2. Lit(c) \in Part
        BY <4>1 DEF Lit, Part
      <4> QED
        BY <4>2
    <3>2. Plain(val) \in Seq(Part) /\ Wrote(from) \in Seq(Part)
      BY PlainType, WroteConcat
    <3>3. PICK one \in Seq(Part), two \in Seq(Part), three \in Seq(Part) :
            one = <<Lit(c)>> /\ two = Plain(val) /\ three = Wrote(from)
      BY <3>1, <3>2
    <3>4. Cat(Cat(one, two), three) = Cat(one, Cat(two, three))
      BY Regroup
    <3> QED
      BY <3>3, <3>4
  <2> QED
    BY <1>1, <1>6, <2>3, <2>4, <2>5, <2>6, <2>7, <2>8
<1> QED
  BY <1>7, <1>8

(* No literal character at pos: a directive.                               *)
LEMMA DirectiveRead ==
  ASSUME NEW p \in Text, NEW pos \in 1 .. Len(p), p[pos] = "%", At(p, pos + 1) # "%"
  PROVE  /\ ~ ParseEnds(p, pos) /\ Letter(p, pos) = pos + 1
         /\ ParseFrom(p)[pos] = DirectiveFrom(p, pos + 1)
<1>1. pos \in 1 .. Len(p) + 1 /\ pos \in 1 .. Len(p) + 2 /\ ~ (pos > Len(p))
  BY DEF Text
<1>2. LiteralFrom(p)[pos] = [val |-> <<>>, next |-> pos]
  <2>1. LiteralFrom(p)[pos] = LiteralStep(p, LiteralFrom(p), pos)
    BY <1>1, LiteralFromDef DEF Text
  <2> QED
    BY <2>1 DEF LiteralStep, LiteralEnds
<1>3. LiteralFrom(p)[pos].next = pos /\ LiteralFrom(p)[pos].val = <<>>
  BY <1>2
<1>4. ~ ParseEnds(p, pos) /\ Letter(p, pos) = pos + 1 /\ TextBefore(p, pos) = <<>>
  BY <1>1, <1>3 DEF ParseEnds, Letter, TextBefore
<1>5. PICK from \in Seq(TextPairs) : from = DirectiveFrom(p, pos + 1)
  BY <1>1, <1>4, DirectiveType
<1>6. ParseFrom(p)[pos] = <<>> \o from
  BY <1>1, <1>4, <1>5, ParseType
<1>7. <<>> \o from = from
  OBVIOUS
<1> QED
  BY <1>4, <1>5, <1>6, <1>7

(* Without braces.                                                         *)
LEMMA BareRead ==
  ASSUME NEW p \in Text, NEW pos \in 1 .. Len(p), pos + 1 <= Len(p),
         p[pos] = "%", p[pos + 1] # "%", At(p, pos + 2) # Opening
  PROVE  /\ ~ ParseEnds(p, pos)
         /\ Pair(p[pos + 1], <<>>) \in TextPairs
         /\ ParseFrom(p)[pos + 2] \in Seq(TextPairs)
         /\ ParseFrom(p)[pos] = <<Pair(p[pos + 1], <<>>)>> \o ParseFrom(p)[pos + 2]
<1>1. At(p, pos + 1) = p[pos + 1]
  BY DEF At
<1>2. ~ ParseEnds(p, pos) /\ ParseFrom(p)[pos] = DirectiveFrom(p, pos + 1)
  BY <1>1, DirectiveRead
<1>3. pos + 1 + 1 = pos + 2 /\ pos + 2 \in 1 .. Len(p) + 2
  BY DEF Text
<1>4. DirectiveFrom(p, pos + 1) = <<Pair(p[pos + 1], <<>>)>> \o ParseFrom(p)[pos + 2]
  BY <1>1, <1>3 DEF DirectiveFrom
<1>5. p[pos + 1] \in Characters /\ <<>> \in Seq(Characters)
  BY DEF Text
<1>6. Pair(p[pos + 1], <<>>) \in TextPairs
  BY <1>5 DEF Pair, TextPairs, Pairs
<1> QED
  BY <1>2, <1>3, <1>4, <1>6, ParseType

(* An argument and the brace that closes it.                               *)
ClosedAt(p, pos, arg) ==
  /\ arg \in Text /\ Closing \notin Range(arg) /\ pos \in 1 .. Len(p) /\ pos + Len(arg) <= Len(p)
  /\ \A i \in 1 .. Len(arg) : p[pos + i - 1] = arg[i]
  /\ p[pos + Len(arg)] = Closing

(* What is read between braces is the argument, up to the first that       *)
(* closes.                                                                 *)
LEMMA BracesRead ==
  ASSUME NEW p \in Text, NEW pos, NEW arg, ClosedAt(p, pos, arg)
  PROVE  BracedFrom(p)[pos] = [val |-> arg, next |-> pos + Len(arg)]
<1> USE DEF ClosedAt
<1>1. /\ p \in Seq(Characters) /\ arg \in Seq(Characters) /\ Len(arg) \in Nat /\ Len(p) \in Nat
      /\ pos \in 1 .. Len(p)
  BY DEF Text
<1> DEFINE n == Len(arg)
           From(k) == [val |-> SubSeq(arg, k + 1, n), next |-> pos + n]
           T == {d \in 0 .. n : BracedFrom(p)[pos + (n - d)] # From(n - d)}
<1>2. \A x \in 1 .. Len(p) + 1 : BracedFrom(p)[x] = BracedStep(p, BracedFrom(p), x)
  BY <1>1, BracedFromDef
<1>3. T = {}
  <2> SUFFICES ASSUME T # {} PROVE FALSE
    OBVIOUS
  <2>1. PICK d \in T : \A e \in T : d <= e
    <3>1. T \in SUBSET Nat
      BY <1>1
    <3> HIDE DEF T
    <3> QED
      BY <3>1, LeastNumber
  <2>2. PICK k \in 0 .. n : k = n - d
    <3>1. d \in 0 .. n /\ n \in Nat
      BY <1>1
    <3>2. n - d \in 0 .. n
      <4> HIDE DEF n, T
      <4> QED
        BY <3>1
    <3> QED
      BY <3>2
  <2>3. BracedFrom(p)[pos + k] # From(k) /\ pos + k \in 1 .. Len(p)
    BY <1>1, <2>2
  <2>4. BracedFrom(p)[pos + k] = BracedStep(p, BracedFrom(p), pos + k)
    BY <1>1, <1>2, <2>3
  <2>5. CASE k = n
    <3>1. BracedEnds(p, pos + k)
      BY <2>5 DEF BracedEnds
    <3>2. BracedFrom(p)[pos + k] = [val |-> <<>>, next |-> pos + k]
      BY <2>4, <3>1 DEF BracedStep
    <3>3. SubSeq(arg, k + 1, n) = <<>>
      BY <1>1, <2>5
    <3> QED
      BY <2>3, <2>5, <3>2, <3>3
  <2>6. CASE k # n
    <3>1. k + 1 \in 1 .. n /\ d # 0 /\ d - 1 \in 0 .. n /\ n - (d - 1) = k + 1 /\ ~ (d <= d - 1)
      BY <1>1, <2>2, <2>6
    <3>2. BracedFrom(p)[pos + (k + 1)] = From(k + 1)
      <4>1. d - 1 \notin T
        <5> HIDE DEF T
        <5> QED
          BY <2>1, <3>1
      <4> QED
        BY <3>1, <4>1
    <3>3. p[pos + k] = arg[k + 1] /\ arg[k + 1] # Closing
      <4>1. p[pos + (k + 1) - 1] = arg[k + 1] /\ pos + (k + 1) - 1 = pos + k
        BY <1>1, <3>1
      <4>2. arg[k + 1] \in Range(arg)
        BY <1>1, <3>1 DEF Range
      <4> QED
        BY <4>1, <4>2
    <3>4. ~ BracedEnds(p, pos + k)
      BY <1>1, <2>3, <3>3 DEF BracedEnds
    <3>5. BracedFrom(p)[pos + k] = [From(k + 1) EXCEPT !.val = <<arg[k + 1]>> \o @]
      <4>1. pos + k + 1 = pos + (k + 1)
        BY <1>1, <2>2
      <4> QED
        BY <2>4, <3>2, <3>3, <3>4, <4>1 DEF BracedStep
    <3>6. <<arg[k + 1]>> \o SubSeq(arg, k + 2, n) = SubSeq(arg, k + 1, n)
      BY <1>1, <3>1
    <3>7. k + 1 + 1 = k + 2
      BY <2>2
    <3> QED
      BY <2>3, <3>5, <3>6, <3>7
  <2> QED
    BY <2>5, <2>6
<1>4. BracedFrom(p)[pos + 0] = From(0)
  <2>1. n \in 0 .. n /\ n - n = 0
    BY <1>1
  <2> QED
    BY <1>3, <2>1
<1>5. SubSeq(arg, 0 + 1, n) = arg /\ pos + 0 = pos
  BY <1>1
<1> QED
  BY <1>4, <1>5

(* With braces.                                                            *)
LEMMA BracedRead ==
  ASSUME NEW p \in Text, NEW pos \in 1 .. Len(p), NEW arg, pos + 2 <= Len(p),
         p[pos] = "%", p[pos + 1] # "%", p[pos + 2] = Opening, ClosedAt(p, pos + 3, arg)
  PROVE  /\ ~ ParseEnds(p, pos)
         /\ Pair(p[pos + 1], arg) \in TextPairs
         /\ pos + Len(arg) + 4 \in 1 .. Len(p) + 1
         /\ ParseFrom(p)[pos + Len(arg) + 4] \in Seq(TextPairs)
         /\ ParseFrom(p)[pos] = <<Pair(p[pos + 1], arg)>> \o ParseFrom(p)[pos + Len(arg) + 4]
<1>1. /\ At(p, pos + 1) = p[pos + 1] /\ At(p, pos + 2) = Opening
      /\ Len(arg) \in Nat /\ arg \in Seq(Characters) /\ pos + Len(arg) + 4 \in 1 .. Len(p) + 1
  BY DEF At, ClosedAt, Text
<1>2. ~ ParseEnds(p, pos) /\ ParseFrom(p)[pos] = DirectiveFrom(p, pos + 1)
  BY <1>1, DirectiveRead
<1>3. BracedFrom(p)[pos + 3] = [val |-> arg, next |-> pos + 3 + Len(arg)]
  BY BracesRead
<1>4. /\ pos + 1 + 1 = pos + 2 /\ pos + 1 + 2 = pos + 3
      /\ pos + 3 + Len(arg) + 1 = pos + Len(arg) + 4
  BY <1>1
<1>5. At(p, pos + 3 + Len(arg)) = Closing
  BY <1>1 DEF At, ClosedAt
<1>6. DirectiveFrom(p, pos + 1) = <<Pair(p[pos + 1], arg)>> \o ParseFrom(p)[pos + Len(arg) + 4]
  <2>1. BracedFrom(p)[pos + 1 + 2].next = pos + 3 + Len(arg) /\ BracedFrom(p)[pos + 1 + 2].val = arg
    BY <1>3, <1>4
  <2>2. ~ (At(p, pos + 1 + 1) # Opening) /\ ~ (At(p, BracedFrom(p)[pos + 1 + 2].next) # Closing)
    BY <1>1, <1>4, <1>5, <2>1
  <2>3. DirectiveFrom(p, pos + 1) =
          <<Pair(At(p, pos + 1), BracedFrom(p)[pos + 1 + 2].val)>>
            \o ParseFrom(p)[BracedFrom(p)[pos + 1 + 2].next + 1]
    BY <2>2 DEF DirectiveFrom
  <2> QED
    BY <1>1, <1>4, <2>1, <2>3
<1>7. p[pos + 1] \in Characters
  BY DEF Text
<1>8. Pair(p[pos + 1], arg) \in TextPairs
  BY <1>1, <1>7 DEF Pair, TextPairs, Pairs
<1>9. pos + Len(arg) + 4 \in 1 .. Len(p) + 2
  BY <1>1 DEF Text
<1> QED
  BY <1>1, <1>2, <1>6, <1>8, <1>9, ParseType

-----------------------------------------------------------------------------
(* Patterns as the grammar spells them.                                    *)

(* The segments of a pattern, each at its place.                           *)
Spelled(segs) == [i \in DOMAIN segs |-> SpellSegment(segs[i])]
Place(segs, i) == Len(FirstPieces(Spelled(segs), i - 1)) + 1

(* The three kinds of segments, as they are spelled.                       *)
LEMMA SegmentCases ==
  ASSUME NEW s \in Segment, IsSegment(s)
  PROVE  \/ s.key = "" /\ \E c \in Characters : s = Literal(c) /\ SpellSegment(s) = IF c = "%" THEN <<"%", "%">> ELSE <<c>>
         \/ s.key \in Keys /\ s = Bare(s.key) /\ SpellSegment(s) = <<"%", s.key>>
         \/ /\ s.key \in Keys /\ s = Directive(s.key, s.text) /\ s.text \in Text /\ "}" \notin Range(s.text)
            /\ SpellSegment(s) = <<"%", s.key, "{">> \o s.text \o <<"}">>
<1>1. s.key \in Keys \cup {""} /\ s.text \in Text /\ s.braces \in BOOLEAN
  BY DEF Segment, Text
<1>2. \A k \in Keys : k # ""
  BY CharactersAssumption
<1>3. CASE s.key = ""
  <2>1. s.text # <<>> /\ s = Literal(s.text[1])
    BY <1>3 DEF IsSegment
  <2>2. \A t \in Seq(Characters) : t # <<>> => t[1] \in Characters
    OBVIOUS
  <2>3. PICK c \in Characters : c = s.text[1]
    BY <1>1, <2>1, <2>2 DEF Text
  <2>4. s = [key |-> "", text |-> <<c>>, braces |-> FALSE]
    BY <2>1, <2>3 DEF Literal
  <2>5. s.text = <<c>> /\ s.braces = FALSE
    BY <2>4
  <2>6. <<c>> = <<"%">> <=> c = "%"
    <3>1. <<c>>[1] = c /\ <<"%">>[1] = "%"
      OBVIOUS
    <3> QED
      BY <3>1
  <2>7. SpellSegment(s) = IF c = "%" THEN <<"%", "%">> ELSE <<c>>
    BY <1>3, <2>5, <2>3, <2>6 DEF SpellSegment
  <2> QED
    BY <1>3, <2>1, <2>3, <2>7
<1>4. CASE s.key # ""
  <2>1. s.key \in Keys
    BY <1>1, <1>4
  <2>2. CASE s = Bare(s.key)
    <3>1. s.braces = FALSE
      BY <2>2 DEF Bare
    <3>2. SpellSegment(s) = <<"%", s.key>>
      BY <1>4, <3>1 DEF SpellSegment
    <3> QED
      BY <2>1, <2>2, <3>2
  <2>3. CASE s = Directive(s.key, s.text) /\ "}" \notin Range(s.text)
    <3>1. PICK k, t : k = s.key /\ t = s.text
      OBVIOUS
    <3>2. s = [key |-> k, text |-> t, braces |-> TRUE]
      BY <2>3, <3>1 DEF Directive
    <3>3. s.braces = TRUE
      BY <3>2
    <3>4. SpellSegment(s) = <<"%", s.key, "{">> \o s.text \o <<"}">>
      BY <3>3 DEF SpellSegment
    <3> QED
      BY <1>1, <2>1, <2>3, <3>4
  <2> QED
    BY <1>4, <2>2, <2>3 DEF IsSegment
<1> QED
  BY <1>3, <1>4

(* The characters a spelling adds, and the letters of directives.          *)
LEMMA PercentType ==
  /\ "%" \in Characters /\ "{" \in Characters /\ "}" \in Characters
  /\ \A k \in Keys : k \in Characters /\ k # "" /\ k # "%" /\ k # "{" /\ k \in ItemKeys
  /\ "" \notin Characters
  /\ Opening = "{" /\ Closing = "}"
<1>1. /\ "%" \in Characters /\ "{" \in Characters /\ "}" \in Characters /\ "" \notin Characters
      /\ \A k \in Keys : k \in Characters
  BY CharactersAssumption
<1>2. \A k \in Keys : k # "" /\ k # "%" /\ k # "{" /\ k \in ItemKeys
  BY DEF Keys, ItemKeys
<1> QED
  BY <1>1, <1>2 DEF Opening, Closing

(* Spelled segments are texts.                                             *)
LEMMA TupleType ==
  ASSUME NEW c \in Characters
  PROVE  /\ <<c>> \in Text /\ <<"%", c>> \in Text /\ <<"%", c, "{">> \in Text
         /\ <<"%", "%">> \in Text /\ <<"}">> \in Text
<1>1. PICK a \in Characters, b \in Characters, d \in Characters : a = "%" /\ b = "{" /\ d = "}"
  BY PercentType
<1>2. <<c>> \in Text /\ <<a, c>> \in Text /\ <<a, c, b>> \in Text /\ <<a, a>> \in Text /\ <<d>> \in Text
  BY DEF Text
<1> QED
  BY <1>1, <1>2

(* A spelled segment is a text that is not empty; with a brace it begins   *)
(* only as a literal.                                                      *)
LEMMA SegmentType ==
  ASSUME NEW s \in Segment, IsSegment(s)
  PROVE  /\ SpellSegment(s) \in Text
         /\ Len(SpellSegment(s)) >= 1
         /\ SpellSegment(s)[1] = "{" => s = Literal("{")
<1>1. CASE \E c \in Characters : s = Literal(c) /\ SpellSegment(s) = IF c = "%" THEN <<"%", "%">> ELSE <<c>>
  <2>1. PICK c \in Characters : s = Literal(c) /\ SpellSegment(s) = IF c = "%" THEN <<"%", "%">> ELSE <<c>>
    BY <1>1
  <2>2. <<"%", "%">> \in Text /\ <<c>> \in Text
    BY TupleType
  <2>3. Len(<<"%", "%">>) = 2 /\ Len(<<c>>) = 1 /\ <<c>>[1] = c /\ <<"%", "%">>[1] = "%"
    OBVIOUS
  <2>4. CASE c = "%"
    <3>1. SpellSegment(s) = <<"%", "%">>
      BY <2>1, <2>4
    <3> QED
      BY <2>2, <2>3, <3>1
  <2>5. CASE c # "%"
    <3>1. SpellSegment(s) = <<c>>
      BY <2>1, <2>5
    <3>2. c = "{" => s = Literal("{")
      BY <2>1
    <3>3. SpellSegment(s)[1] = c /\ Len(SpellSegment(s)) = 1 /\ SpellSegment(s) \in Text
      BY <2>2, <2>3, <3>1, Zenon
    <3>4. SpellSegment(s)[1] = "{" => s = Literal("{")
      BY <3>2, <3>3, Zenon
    <3>5. Len(SpellSegment(s)) >= 1
      BY <3>3
    <3> QED
      BY <3>3, <3>4, <3>5, Zenon
  <2> QED
    BY <2>4, <2>5
<1>2. CASE s.key \in Keys /\ SpellSegment(s) = <<"%", s.key>>
  <2>1. PICK k \in Characters : k = s.key
    BY <1>2, PercentType
  <2>2. <<"%", k>> \in Text
    BY TupleType
  <2>3. Len(<<"%", k>>) = 2 /\ <<"%", k>>[1] = "%"
    OBVIOUS
  <2> QED
    BY <1>2, <2>1, <2>2, <2>3
<1>3. CASE s.key \in Keys /\ s.text \in Text /\ SpellSegment(s) = <<"%", s.key, "{">> \o s.text \o <<"}">>
  <2>1. PICK k \in Characters : k = s.key
    BY <1>3, PercentType
  <2>2. <<"%", k, "{">> \in Text /\ <<"}">> \in Text
    BY TupleType
  <2>3. Len(<<"%", k, "{">>) = 3 /\ <<"%", k, "{">>[1] = "%"
    OBVIOUS
  <2>4. PICK a \in Text, b \in Text, c \in Text : a = <<"%", s.key, "{">> /\ b = s.text /\ c = <<"}">> /\ Len(a) = 3 /\ a[1] = "%"
    BY <1>3, <2>1, <2>2, <2>3
  <2>5. a \o b \o c \in Text /\ Len(a \o b \o c) >= 1 /\ (a \o b \o c)[1] = "%"
    <3>1. a \in Seq(Characters) /\ b \in Seq(Characters) /\ Len(a) = 3
      BY <2>4 DEF Text
    <3>2. a \o b \in Seq(Characters) /\ Len(a \o b) >= Len(a) /\ (a \o b)[1] = a[1]
      <4>1. Len(a) >= 1
        BY <3>1
      <4> QED
        BY <3>1, <4>1, HeadConcat
    <3>3. PICK d \in Text : d = a \o b /\ Len(d) >= 3 /\ d[1] = "%"
      BY <2>4, <3>1, <3>2 DEF Text
    <3>4. d \o c \in Text /\ Len(d \o c) >= Len(d) /\ (d \o c)[1] = d[1]
      <4>1. d \in Seq(Characters) /\ c \in Seq(Characters) /\ Len(d) >= 1
        <5>1. d \in Seq(Characters) /\ c \in Seq(Characters)
          BY DEF Text
        <5>2. Len(d) >= 1
          BY <3>3, <5>1
        <5> QED
          BY <5>1, <5>2
      <4>2. d \o c \in Seq(Characters) /\ Len(d \o c) >= Len(d) /\ (d \o c)[1] = d[1]
        BY <4>1, HeadConcat
      <4> QED
        BY <4>2 DEF Text
    <3> QED
      BY <3>3, <3>4 DEF Text
  <2>6. SpellSegment(s) = a \o b \o c
    BY <1>3, <2>1, <2>4
  <2>7. "%" # "{"
    OBVIOUS
  <2> QED
    BY <2>5, <2>6, <2>7
<1> QED
  BY <1>1, <1>2, <1>3, SegmentCases

(* A text spelled by segments, with a tail that no brace begins.           *)
Tailing(tail) == tail \in Text /\ (tail # <<>> => tail[1] = "%")
IsPattern(p, segs, tail) == WellFormed(segs) /\ Tailing(tail) /\ p = Spell(segs) \o tail

(* Segment i stands at its place in p, and the next place is behind it.    *)
IsPlaced(p, segs, i) ==
  /\ Place(segs, i) \in 1 .. Len(Spell(segs))
  /\ Place(segs, i + 1) = Place(segs, i) + Len(SpellSegment(segs[i]))
  /\ Place(segs, i + 1) \in 1 .. Len(Spell(segs)) + 1
  /\ \A k \in 1 .. Len(SpellSegment(segs[i])) :
       p[Place(segs, i) + k - 1] = SpellSegment(segs[i])[k]

(* Each segment of a spelled text stands at its place.                     *)
LEMMA Places ==
  ASSUME NEW segs, NEW tail, NEW p, IsPattern(p, segs, tail)
  PROVE  /\ p \in Text /\ Spell(segs) \in Text /\ Len(p) = Len(Spell(segs)) + Len(tail)
         /\ Place(segs, 1) = 1 /\ Place(segs, Len(segs) + 1) = Len(Spell(segs)) + 1
         /\ \A i \in 1 .. Len(segs) : IsPlaced(p, segs, i)
         /\ \A k \in 1 .. Len(tail) : p[Len(Spell(segs)) + k] = tail[k]
<1> DEFINE sp == Spelled(segs)
           n == Len(segs)
<1>1. /\ segs \in Seq(Segment) /\ n \in Nat /\ DOMAIN segs = 1 .. n
      /\ \A i \in 1 .. n : segs[i] \in Segment /\ IsSegment(segs[i])
  <2>1. segs \in Seq(Segment) /\ \A i \in DOMAIN segs : IsSegment(segs[i])
    BY DEF IsPattern, WellFormed
  <2>2. n \in Nat /\ DOMAIN segs = 1 .. n /\ \A i \in 1 .. n : segs[i] \in Segment
    BY <2>1
  <2> QED
    BY <2>1, <2>2
<1>2. /\ sp \in Seq(Text) /\ Len(sp) = n
      /\ \A i \in 1 .. n : sp[i] = SpellSegment(segs[i]) /\ Len(sp[i]) \in Nat /\ Len(sp[i]) >= 1
  <2>1. \A i \in 1 .. n : SpellSegment(segs[i]) \in Text /\ Len(SpellSegment(segs[i])) >= 1
    BY <1>1, SegmentType
  <2>2. \A t \in Text : Len(t) \in Nat
    BY DEF Text
  <2> QED
    BY <1>1, <2>1, <2>2 DEF Spelled
<1>3. Spell(segs) = FlattenSeq(sp)
  BY DEF Spell, Spelled
<1> HIDE DEF sp
<1>4. /\ FirstPieces(sp, 0) = <<>> /\ FirstPieces(sp, n) = Spell(segs)
      /\ \A i \in 0 .. n : FirstPieces(sp, i) \in Text
      /\ \A i \in 1 .. n : FirstPieces(sp, i) = Cat(FirstPieces(sp, i - 1), sp[i])
      /\ \A i \in 0 .. n : \E rest \in Text : Spell(segs) = Cat(FirstPieces(sp, i), rest)
  BY <1>2, <1>3, Pieces DEF Text
<1>5. Spell(segs) \in Text /\ tail \in Text /\ p = Cat(Spell(segs), tail)
  <2>1. n \in 0 .. n
    BY <1>1
  <2> QED
    BY <1>4, <2>1 DEF IsPattern, Tailing, Cat
<1>6. IsCat(Characters, Spell(segs), tail, p)
  BY <1>5, CatType DEF Text
<1>7. /\ p \in Text /\ Len(p) = Len(Spell(segs)) + Len(tail)
      /\ \A k \in 1 .. Len(tail) : p[Len(Spell(segs)) + k] = tail[k]
      /\ \A k \in 1 .. Len(Spell(segs)) : p[k] = Spell(segs)[k]
  BY <1>6 DEF IsCat, Text
<1>8. ASSUME NEW i \in 0 .. n
      PROVE  Len(FirstPieces(sp, i)) \in 0 .. Len(Spell(segs)) /\ Place(segs, i + 1) = Len(FirstPieces(sp, i)) + 1
  <2>1. PICK rest \in Text : Spell(segs) = Cat(FirstPieces(sp, i), rest)
    BY <1>4
  <2>2. IsCat(Characters, FirstPieces(sp, i), rest, Spell(segs))
    BY <1>4, <2>1, CatType DEF Text
  <2>3. Len(Spell(segs)) = Len(FirstPieces(sp, i)) + Len(rest) /\ Len(rest) \in Nat /\ Len(FirstPieces(sp, i)) \in Nat
    BY <1>4, <2>2 DEF IsCat, Text
  <2>4. i + 1 - 1 = i
    OBVIOUS
  <2>5. Place(segs, i + 1) = Len(FirstPieces(sp, i)) + 1
    BY <2>4 DEF Place, sp
  <2> QED
    BY <2>3, <2>5
<1>9. Place(segs, 1) = 1 /\ Place(segs, n + 1) = Len(Spell(segs)) + 1
  <2>1. 0 \in 0 .. n /\ n \in 0 .. n /\ 0 + 1 = 1 /\ Len(<<>>) = 0
    BY <1>1
  <2> QED
    BY <1>4, <1>8, <2>1
<1>10. ASSUME NEW i \in 1 .. n
       PROVE  /\ Place(segs, i) \in 1 .. Len(Spell(segs))
              /\ Place(segs, i + 1) = Place(segs, i) + Len(sp[i])
              /\ Place(segs, i + 1) \in 1 .. Len(Spell(segs)) + 1
              /\ \A k \in 1 .. Len(sp[i]) : p[Place(segs, i) + k - 1] = sp[i][k]
  <2>1. PICK j \in 0 .. n : j = i - 1 /\ j + 1 = i
    BY <1>1
  <2>2. i \in 0 .. n
    BY <1>1
  <2>3. FirstPieces(sp, j) \in Text /\ FirstPieces(sp, i) \in Text /\ sp[i] \in Text /\ FirstPieces(sp, i) = Cat(FirstPieces(sp, j), sp[i])
    BY <1>2, <1>4, <2>1, <2>2
  <2>4. IsCat(Characters, FirstPieces(sp, j), sp[i], FirstPieces(sp, i))
    BY <2>3, CatType DEF Text
  <2>5. /\ Len(FirstPieces(sp, i)) = Len(FirstPieces(sp, j)) + Len(sp[i])
        /\ \A k \in 1 .. Len(sp[i]) : FirstPieces(sp, i)[Len(FirstPieces(sp, j)) + k] = sp[i][k]
    BY <2>4 DEF IsCat
  <2>6. /\ Place(segs, i) = Len(FirstPieces(sp, j)) + 1 /\ Place(segs, i + 1) = Len(FirstPieces(sp, i)) + 1
        /\ Len(FirstPieces(sp, i)) \in 0 .. Len(Spell(segs)) /\ Len(FirstPieces(sp, j)) \in 0 .. Len(Spell(segs))
    BY <1>8, <2>1, <2>2
  <2>7. Len(Spell(segs)) \in Nat /\ Len(sp[i]) \in Nat /\ Len(sp[i]) >= 1
    BY <1>2, <1>5 DEF Text
  <2>8. PICK rest \in Text : Spell(segs) = Cat(FirstPieces(sp, i), rest)
    BY <1>4, <2>2
  <2>9. \A k \in 1 .. Len(FirstPieces(sp, i)) : Spell(segs)[k] = FirstPieces(sp, i)[k]
    <3>1. IsCat(Characters, FirstPieces(sp, i), rest, Spell(segs))
      BY <2>3, <2>8, CatType DEF Text
    <3> QED
      BY <3>1 DEF IsCat
  <2>10. ASSUME NEW k \in 1 .. Len(sp[i]) PROVE p[Place(segs, i) + k - 1] = sp[i][k]
    <3>1. PICK m \in Nat : m = Len(FirstPieces(sp, j)) + k
      BY <2>6, <2>7
    <3>2. Place(segs, i) + k - 1 = m /\ m \in 1 .. Len(FirstPieces(sp, i)) /\ m \in 1 .. Len(Spell(segs))
      BY <2>5, <2>6, <2>7, <3>1
    <3> QED
      BY <1>7, <2>5, <2>9, <3>1, <3>2
  <2>11. Place(segs, i) \in 1 .. Len(Spell(segs))
    <3>1. Len(FirstPieces(sp, i)) <= Len(Spell(segs)) /\ Len(FirstPieces(sp, j)) >= 0 /\ Len(FirstPieces(sp, j)) \in Nat
      BY <2>6, <2>7
    <3> HIDE DEF sp
    <3> QED
      BY <2>5, <2>6, <2>7, <3>1
  <2>12. Place(segs, i + 1) = Place(segs, i) + Len(sp[i]) /\ Place(segs, i + 1) \in 1 .. Len(Spell(segs)) + 1
    <3>1. PICK a \in Nat, b \in Nat, m \in Nat : a = Len(FirstPieces(sp, i)) /\ b = Len(FirstPieces(sp, j)) /\ m = Len(sp[i])
      BY <2>6, <2>7
    <3>2. a = b + m /\ Place(segs, i) = b + 1 /\ Place(segs, i + 1) = a + 1 /\ a \in 0 .. Len(Spell(segs))
      BY <2>5, <2>6, <3>1
    <3>3. Place(segs, i + 1) = Place(segs, i) + m /\ Place(segs, i + 1) \in 1 .. Len(Spell(segs)) + 1
      BY <2>7, <3>2
    <3> QED
      BY <3>1, <3>3
  <2> QED
    BY <2>10, <2>11, <2>12
<1>11. ASSUME NEW i \in 1 .. n PROVE IsPlaced(p, segs, i)
  <2>1. PICK t : t = sp[i] /\ t = SpellSegment(segs[i])
    BY <1>2
  <2>2. /\ Place(segs, i) \in 1 .. Len(Spell(segs))
        /\ Place(segs, i + 1) = Place(segs, i) + Len(t)
        /\ Place(segs, i + 1) \in 1 .. Len(Spell(segs)) + 1
        /\ \A k \in 1 .. Len(t) : p[Place(segs, i) + k - 1] = t[k]
    BY <1>10, <2>1
  <2> QED
    BY <2>1, <2>2 DEF IsPlaced
<1> QED
  BY <1>5, <1>7, <1>9, <1>11



(* A directive with an argument, character by character.                   *)
InBraces(k, arg, s) ==
  /\ Len(s) = Len(arg) + 4 /\ s[1] = "%" /\ s[2] = k /\ s[3] = "{"
  /\ s[Len(arg) + 4] = "}"
  /\ \A j \in 1 .. Len(arg) : s[j + 3] = arg[j]

LEMMA SpellBraced ==
  ASSUME NEW k \in Characters, NEW arg \in Text
  PROVE  InBraces(k, arg, <<"%", k, "{">> \o arg \o <<"}">>)
<1>1. PICK a \in Seq(Characters), b \in Seq(Characters) :
        a = <<"%", k, "{">> /\ b = <<"}">> /\ Len(a) = 3 /\ Len(b) = 1
          /\ a[1] = "%" /\ a[2] = k /\ a[3] = "{" /\ b[1] = "}"
  <2>1. <<"%", k, "{">> \in Seq(Characters) /\ <<"}">> \in Seq(Characters)
    BY TupleType DEF Text
  <2>2. /\ Len(<<"%", k, "{">>) = 3 /\ Len(<<"}">>) = 1
        /\ <<"%", k, "{">>[1] = "%" /\ <<"%", k, "{">>[2] = k /\ <<"%", k, "{">>[3] = "{" /\ <<"}">>[1] = "}"
    OBVIOUS
  <2> QED
    BY <2>1, <2>2
<1>2. PICK t \in Seq(Characters) : t = arg
  BY DEF Text
<1>3. PICK s : s = Cat(Cat(a, t), b)
  OBVIOUS
<1>4. InThree(a, t, b, s)
  <2>1. Len(a) = 3 /\ Len(b) = 1
    BY <1>1
  <2> QED
    BY <1>3, <2>1, ThreeParts
<1>5. InBraces(k, t, s)
  BY <1>1, <1>4 DEF InThree, InBraces
<1>6. s = <<"%", k, "{">> \o arg \o <<"}">>
  BY <1>1, <1>2, <1>3 DEF Cat
<1> QED
  BY <1>2, <1>5, <1>6

(* Behind a bare directive no brace follows.                               *)
LEMMA NoBraceBehind ==
  ASSUME NEW segs, NEW tail, NEW p, IsPattern(p, segs, tail),
         NEW i \in 1 .. Len(segs), segs[i] = Bare(segs[i].key)
  PROVE  At(p, Place(segs, i + 1)) # Opening
<1> DEFINE next == Place(segs, i + 1)
           n == Len(segs)
<1>1. /\ segs \in Seq(Segment) /\ n \in Nat /\ DOMAIN segs = 1 .. n
      /\ \A j \in 1 .. n : segs[j] \in Segment /\ IsSegment(segs[j])
      /\ \A j \in 1 .. n - 1 : segs[j] = Bare(segs[j].key) => segs[j + 1] # Literal("{")
      /\ tail \in Text /\ (tail # <<>> => tail[1] = "%")
  <2>1. /\ segs \in Seq(Segment) /\ \A j \in DOMAIN segs : IsSegment(segs[j])
        /\ \A j \in 1 .. n - 1 : segs[j] = Bare(segs[j].key) => segs[j + 1] # Literal("{")
        /\ tail \in Text /\ (tail # <<>> => tail[1] = "%")
    BY DEF IsPattern, WellFormed, Tailing
  <2>2. n \in Nat /\ DOMAIN segs = 1 .. n /\ \A j \in 1 .. n : segs[j] \in Segment
    <3>1. \A q \in Seq(Segment) : Len(q) \in Nat /\ DOMAIN q = 1 .. Len(q) /\ \A j \in 1 .. Len(q) : q[j] \in Segment
      OBVIOUS
    <3> QED
      BY <2>1, <3>1
  <2> QED
    BY <2>1, <2>2
<1>2. next \in Nat /\ Len(p) \in Nat /\ i \in Nat
  <2>1. p \in Seq(Characters) /\ Spell(segs) \in Seq(Characters)
    BY Places DEF Text
  <2>2. Len(Spell(segs)) \in Nat /\ Len(p) \in Nat
    BY <2>1
  <2>3. next \in 1 .. Len(Spell(segs)) + 1
    BY Places DEF IsPlaced
  <2> QED
    BY <2>2, <2>3
<1>3. CASE next > Len(p)
  <2>1. ~ (next <= Len(p)) /\ "NUL" # "{"
    BY <1>3, <1>2
  <2> QED
    BY <2>1 DEF At, Eos, Opening
<1>4. CASE next <= Len(p) /\ i < n
  <2>1. PICK j \in 1 .. n : j = i + 1 /\ i \in 1 .. n - 1
    <3>1. PICK m \in Nat : m = n
      BY <1>1
    <3>2. i \in 1 .. m /\ i < m
      BY <1>4, <3>1
    <3>3. i + 1 \in 1 .. m /\ i \in 1 .. m - 1
      BY <3>2
    <3> QED
      BY <3>1, <3>3
  <2>2. Len(SpellSegment(segs[j])) >= 1 /\ (SpellSegment(segs[j])[1] = "{" => segs[j] = Literal("{"))
    BY <1>1, SegmentType
  <2>3. p[Place(segs, j) + 1 - 1] = SpellSegment(segs[j])[1]
    <3>1. Len(SpellSegment(segs[j])) \in Nat
      <4>1. SpellSegment(segs[j]) \in Seq(Characters)
        BY <1>1, SegmentType DEF Text
      <4> QED
        BY <4>1
    <3>2. 1 \in 1 .. Len(SpellSegment(segs[j]))
      <4>1. \A m \in Nat : m >= 1 => 1 \in 1 .. m
        OBVIOUS
      <4> QED
        BY <2>2, <3>1, <4>1
    <3> QED
      BY <3>2, Places DEF IsPlaced
  <2>4. Place(segs, j) \in Nat
    <3>1. Spell(segs) \in Seq(Characters) /\ Place(segs, j) \in 1 .. Len(Spell(segs))
      BY Places DEF IsPlaced, Text
    <3> QED
      BY <3>1
  <2>5. Place(segs, j) + 1 - 1 = next /\ Place(segs, j) = next
    BY <2>1, <2>4
  <2> QED
    BY <1>1, <1>4, <2>1, <2>2, <2>3, <2>5 DEF At, Opening
<1>5. CASE next <= Len(p) /\ i = n
  <2>1. next = Len(Spell(segs)) + 1 /\ Len(p) = Len(Spell(segs)) + Len(tail)
    BY <1>5, Places
  <2>2. Spell(segs) \in Seq(Characters) /\ tail \in Seq(Characters)
    BY Places, <1>1 DEF Text
  <2>3. Len(tail) >= 1 /\ tail # <<>> /\ 1 \in 1 .. Len(tail)
    BY <1>5, <2>1, <2>2
  <2>4. p[next] = tail[1]
    BY <2>1, <2>3, Places
  <2> QED
    BY <1>1, <1>5, <2>3, <2>4 DEF At, Opening
<1>6. next > Len(p) \/ next <= Len(p)
  BY <1>2
<1>7. i < n \/ i = n
  <2>1. \A m \in Nat : \A j \in 1 .. m : j < m \/ j = m
    OBVIOUS
  <2> QED
    BY <1>1, <2>1
<1> QED
  BY <1>3, <1>4, <1>5, <1>6, <1>7, Zenon

(* What a segment means is what the item for it writes.                    *)
LEMMA SegmentMeans ==
  ASSUME NEW k \in Keys
  PROVE  /\ CreateItem(Pair(k, <<>>)) = <<MeaningOf(Bare(k))>>
         /\ \A arg \in Text : CreateItem(Pair(k, arg)) = <<MeaningOf(Directive(k, arg))>>
<1>1. k # ""
  BY PercentType
<1>2. CreateItem(Pair(k, <<>>)) = <<MeaningOf(Bare(k))>>
  <2>1. CASE k = "d"
    BY <1>1, <2>1 DEF CreateItem, Pair, MeaningOf, Bare, TextKey, DefaultTime
  <2>2. CASE k # "d"
    BY <1>1, <2>2 DEF CreateItem, Pair, MeaningOf, Bare, TextKey
  <2> QED
    BY <2>1, <2>2
<1>3. ASSUME NEW arg \in Text PROVE CreateItem(Pair(k, arg)) = <<MeaningOf(Directive(k, arg))>>
  <2>1. CASE k = "d" /\ arg = <<>>
    BY <1>1, <2>1 DEF CreateItem, Pair, MeaningOf, Directive, TextKey, DefaultTime
  <2>2. CASE k = "d" /\ arg # <<>>
    BY <1>1, <2>2 DEF CreateItem, Pair, MeaningOf, Directive, TextKey
  <2>3. CASE k # "d"
    BY <1>1, <2>3 DEF CreateItem, Pair, MeaningOf, Directive, TextKey
  <2> QED
    BY <2>1, <2>3, <2>2
<1> QED
  BY <1>2, <1>3

(* A segment read: what is written is its meaning, ahead of what the rest  *)
(* writes; and it is known if the rest is.  A text with no directive       *)
(* behind it is not read.                                                  *)
IsRead(p, s, pos, next) ==
  /\ pos \in 1 .. Len(p) /\ next \in 1 .. Len(p) + 1
  /\ ParseEnds(p, pos) <=> s.key = "" /\ ParseEnds(p, next)
  /\ ~ ParseEnds(p, pos) =>
       Wrote(ParseFrom(p)[pos]) = Cat(<<MeaningOf(s)>>, Wrote(ParseFrom(p)[next]))
  /\ ParseFrom(p)[pos] \in KnownPairs <=> ParseFrom(p)[next] \in KnownPairs

(* The parser reads each segment at its place and goes on at the next      *)
(* place.                                                                  *)
LEMMA SegmentRead ==
  ASSUME NEW segs, NEW tail, NEW p, IsPattern(p, segs, tail), NEW i \in 1 .. Len(segs)
  PROVE  IsRead(p, segs[i], Place(segs, i), Place(segs, i + 1))
<1>1. PICK s \in Segment : s = segs[i] /\ IsSegment(s)
  <2>1. \A q \in Seq(Segment) : DOMAIN q = 1 .. Len(q) /\ \A j \in 1 .. Len(q) : q[j] \in Segment
    OBVIOUS
  <2> QED
    BY <2>1 DEF IsPattern, WellFormed
<1>2. PICK pos, next, spelled : pos = Place(segs, i) /\ next = Place(segs, i + 1) /\ spelled = SpellSegment(s)
  OBVIOUS
<1>3. /\ p \in Text /\ spelled \in Text /\ Len(p) \in Nat /\ Len(spelled) \in Nat
      /\ pos \in 1 .. Len(p) /\ next \in 1 .. Len(p) + 1 /\ next = pos + Len(spelled)
      /\ \A k \in 1 .. Len(spelled) : p[pos + k - 1] = spelled[k]
  <2>1. /\ p \in Text /\ Spell(segs) \in Text /\ Len(p) = Len(Spell(segs)) + Len(tail)
        /\ pos \in 1 .. Len(Spell(segs)) /\ next = pos + Len(spelled) /\ next \in 1 .. Len(Spell(segs)) + 1
        /\ \A k \in 1 .. Len(spelled) : p[pos + k - 1] = spelled[k]
    <3>1. p \in Text /\ Spell(segs) \in Text /\ Len(p) = Len(Spell(segs)) + Len(tail)
      BY Places
    <3>2. IsPlaced(p, segs, i)
      BY Places
    <3>3. /\ pos \in 1 .. Len(Spell(segs)) /\ next = pos + Len(spelled) /\ next \in 1 .. Len(Spell(segs)) + 1
          /\ \A k \in 1 .. Len(spelled) : p[pos + k - 1] = spelled[k]
      BY <1>1, <1>2, <3>2 DEF IsPlaced
    <3> QED
      BY <3>1, <3>2, <3>3
  <2>2. spelled \in Text
    BY <1>1, <1>2, SegmentType
  <2>3. \A t \in Text : Len(t) \in Nat
    BY DEF Text
  <2>4. tail \in Text
    BY DEF IsPattern, Tailing
  <2>5. PICK a \in Nat, b \in Nat : a = Len(Spell(segs)) /\ b = Len(tail)
    BY <2>1, <2>3, <2>4
  <2>6. pos \in 1 .. Len(p) /\ next \in 1 .. Len(p) + 1
    BY <2>1, <2>5
  <2> QED
    BY <2>1, <2>2, <2>3, <2>6
<1>4. ParseFrom(p)[next] \in Seq(TextPairs) /\ Wrote(ParseFrom(p)[next]) \in Seq(Part)
  <2>1. next \in 1 .. Len(p) + 2
    BY <1>3
  <2>2. ParseFrom(p)[next] \in Seq(TextPairs)
    BY <1>3, <2>1, ParseType
  <2> QED
    BY <2>2, WroteConcat
<1>5. CASE s.key = "" /\ \E c \in Characters : s = Literal(c) /\ spelled = IF c = "%" THEN <<"%", "%">> ELSE <<c>>
  <2>1. PICK c \in Characters : s = Literal(c) /\ spelled = IF c = "%" THEN <<"%", "%">> ELSE <<c>>
    BY <1>5
  <2>2. p[pos] = c /\ LiteralAt(p, pos, next)
    <3>1. CASE c = "%"
      <4>1. spelled = <<"%", "%">>
        BY <2>1, <3>1
      <4>2. Len(spelled) = 2 /\ spelled[1] = "%" /\ spelled[2] = "%"
        BY <4>1
      <4>3. p[pos + 1 - 1] = spelled[1] /\ p[pos + 2 - 1] = spelled[2]
        BY <1>3, <4>2
      <4>4. pos + 1 - 1 = pos /\ pos + 2 - 1 = pos + 1 /\ next = pos + 2 /\ pos + 1 <= Len(p)
        BY <1>3, <4>2
      <4> QED
        BY <3>1, <4>2, <4>3, <4>4 DEF LiteralAt
    <3>2. CASE c # "%"
      <4>1. spelled = <<c>>
        BY <2>1, <3>2
      <4>2. Len(spelled) = 1 /\ spelled[1] = c
        BY <4>1
      <4>3. p[pos + 1 - 1] = spelled[1]
        BY <1>3, <4>2
      <4>4. pos + 1 - 1 = pos /\ next = pos + 1
        BY <1>3, <4>2
      <4> QED
        BY <3>2, <4>2, <4>3, <4>4 DEF LiteralAt
    <3> QED
      BY <3>1, <3>2
  <2>3. MeaningOf(s) = Lit(c)
    BY <2>1 DEF MeaningOf, Literal, Lit, TextKey
  <2>4. /\ ParseEnds(p, pos) <=> ParseEnds(p, next)
        /\ ~ ParseEnds(p, pos) =>
             Wrote(ParseFrom(p)[pos]) = Cat(<<Lit(c)>>, Wrote(ParseFrom(p)[next]))
        /\ ParseFrom(p)[pos] \in KnownPairs <=> ParseFrom(p)[next] \in KnownPairs
    BY <1>3, <2>2, LiteralRead
  <2>5. IsRead(p, s, pos, next)
    BY <1>3, <1>5, <2>3, <2>4 DEF IsRead
  <2> QED
    BY <1>1, <1>2, <2>5
<1>6. ASSUME NEW pair \in TextPairs, s.key # "", pair.key \in ItemKeys, CreateItem(pair) = <<MeaningOf(s)>>,
             ~ ParseEnds(p, pos), ParseFrom(p)[pos] = <<pair>> \o ParseFrom(p)[next]
      PROVE  IsRead(p, s, pos, next)
  <2>1. PICK rest \in Seq(TextPairs) : rest = ParseFrom(p)[next]
    BY <1>4
  <2>2. /\ Wrote(<<pair>> \o rest) = Cat(CreateItem(pair), Wrote(rest))
        /\ <<pair>> \o rest \in KnownPairs <=> pair.key \in ItemKeys /\ rest \in KnownPairs
    BY PairAhead
  <2>3. ParseFrom(p)[pos] = <<pair>> \o rest
    BY <1>6, <2>1
  <2> QED
    BY <1>3, <1>6, <2>1, <2>2, <2>3 DEF IsRead
<1>7. CASE s.key \in Keys /\ s = Bare(s.key) /\ spelled = <<"%", s.key>>
  <2>1. PICK k \in Keys : k = s.key /\ k \in Characters /\ k # "%" /\ k # "" /\ k \in ItemKeys /\ s = Bare(k)
    BY <1>7, PercentType
  <2>2. Len(spelled) = 2 /\ spelled[1] = "%" /\ spelled[2] = k
    BY <1>7, <2>1
  <2>3. p[pos + 1 - 1] = spelled[1] /\ p[pos + 2 - 1] = spelled[2]
    BY <1>3, <2>2
  <2>4. pos + 1 - 1 = pos /\ pos + 2 - 1 = pos + 1 /\ next = pos + 2 /\ pos + 1 <= Len(p)
    BY <1>3, <2>2
  <2>5. p[pos] = "%" /\ p[pos + 1] = k
    BY <2>2, <2>3, <2>4
  <2>6. At(p, pos + 2) # Opening
    BY <1>1, <1>2, <1>7, <2>4, NoBraceBehind
  <2>7. /\ ~ ParseEnds(p, pos) /\ Pair(k, <<>>) \in TextPairs
        /\ ParseFrom(p)[pos] = <<Pair(k, <<>>)>> \o ParseFrom(p)[next]
    BY <1>3, <2>1, <2>4, <2>5, <2>6, BareRead
  <2>8. CreateItem(Pair(k, <<>>)) = <<MeaningOf(s)>>
    BY <2>1, SegmentMeans
  <2>9. Pair(k, <<>>).key = k
    BY DEF Pair
  <2> QED
    BY <1>1, <1>2, <1>6, <2>1, <2>7, <2>8, <2>9
<1>8. CASE /\ s.key \in Keys /\ s = Directive(s.key, s.text) /\ s.text \in Text /\ "}" \notin Range(s.text)
           /\ spelled = <<"%", s.key, "{">> \o s.text \o <<"}">>
  <2>1. PICK k \in Keys : k = s.key /\ k \in Characters /\ k # "%" /\ k # "" /\ k \in ItemKeys
    BY <1>8, PercentType
  <2>2. PICK arg \in Text : arg = s.text /\ "}" \notin Range(arg) /\ s = Directive(k, arg) /\ Len(arg) \in Nat
    <3>1. \A t \in Text : Len(t) \in Nat
      BY DEF Text
    <3> QED
      BY <1>8, <2>1, <3>1
  <2>3. spelled = <<"%", k, "{">> \o arg \o <<"}">>
    BY <1>8, <2>1, <2>2
  <2>4. /\ Len(spelled) = Len(arg) + 4 /\ spelled[1] = "%" /\ spelled[2] = k /\ spelled[3] = "{"
        /\ spelled[Len(arg) + 4] = "}"
        /\ \A j \in 1 .. Len(arg) : spelled[j + 3] = arg[j]
    <3>1. InBraces(k, arg, spelled)
      BY <2>1, <2>3, SpellBraced
    <3> QED
      BY <3>1 DEF InBraces
  <2>5. PICK m \in Nat : m = Len(arg)
    BY <2>2
  <2>6. /\ next = pos + m + 4 /\ pos + 2 <= Len(p) /\ pos + 3 \in 1 .. Len(p) /\ pos + 3 + m <= Len(p)
        /\ Len(spelled) = m + 4
        /\ 1 \in 1 .. m + 4 /\ 2 \in 1 .. m + 4 /\ 3 \in 1 .. m + 4 /\ m + 4 \in 1 .. m + 4
        /\ pos + 1 - 1 = pos /\ pos + 2 - 1 = pos + 1 /\ pos + 3 - 1 = pos + 2 /\ pos + (m + 4) - 1 = pos + 3 + m
        /\ \A j \in 1 .. m : j + 3 \in 1 .. m + 4 /\ pos + (j + 3) - 1 = pos + 3 + j - 1
    <3>1. Len(spelled) = m + 4
      BY <2>4, <2>5
    <3>2. PICK a \in Nat, b \in Nat : a = pos /\ b = Len(p)
      BY <1>3
    <3>3. next = a + (m + 4) /\ next \in 1 .. b + 1 /\ a \in 1 .. b
      BY <1>3, <3>1, <3>2
    <3>4. next = a + m + 4 /\ a + 2 <= b /\ a + 3 \in 1 .. b /\ a + 3 + m <= b
      BY <3>3
    <3>5. /\ a + 1 - 1 = a /\ a + 2 - 1 = a + 1 /\ a + 3 - 1 = a + 2 /\ a + (m + 4) - 1 = a + 3 + m
          /\ 1 \in 1 .. m + 4 /\ 2 \in 1 .. m + 4 /\ 3 \in 1 .. m + 4 /\ m + 4 \in 1 .. m + 4
      OBVIOUS
    <3>6. \A j \in 1 .. m : j + 3 \in 1 .. m + 4 /\ a + (j + 3) - 1 = a + 3 + j - 1
      OBVIOUS
    <3> QED
      BY <3>1, <3>2, <3>4, <3>5, <3>6
  <2>7. p[pos] = "%" /\ p[pos + 1] = k /\ p[pos + 2] = "{" /\ p[pos + 3 + m] = "}"
    <3>1. p[pos + 1 - 1] = spelled[1] /\ p[pos + 2 - 1] = spelled[2] /\ p[pos + 3 - 1] = spelled[3] /\ p[pos + (m + 4) - 1] = spelled[m + 4]
      BY <1>3, <2>6, Zenon
    <3> QED
      BY <2>4, <2>5, <2>6, <3>1
  <2>8. \A j \in 1 .. m : p[pos + 3 + j - 1] = arg[j]
    <3>1. ASSUME NEW j \in 1 .. m PROVE p[pos + 3 + j - 1] = arg[j]
      <4>1. p[pos + (j + 3) - 1] = spelled[j + 3]
        BY <1>3, <2>6, Zenon
      <4> QED
        BY <2>4, <2>5, <2>6, <4>1
    <3> QED
      BY <3>1
  <2>9. ClosedAt(p, pos + 3, arg)
    BY <2>2, <2>5, <2>6, <2>7, <2>8 DEF ClosedAt, Closing
  <2>10. p[pos + 1] # "%" /\ p[pos + 2] = Opening
    BY <2>1, <2>7 DEF Opening
  <2>11. /\ ~ ParseEnds(p, pos)
         /\ Pair(p[pos + 1], arg) \in TextPairs
         /\ ParseFrom(p)[pos] = <<Pair(p[pos + 1], arg)>> \o ParseFrom(p)[pos + Len(arg) + 4]
    BY <1>3, <2>6, <2>7, <2>9, <2>10, BracedRead
  <2>12. /\ ~ ParseEnds(p, pos) /\ Pair(k, arg) \in TextPairs
         /\ ParseFrom(p)[pos] = <<Pair(k, arg)>> \o ParseFrom(p)[next]
    BY <2>5, <2>6, <2>7, <2>11
  <2>13. CreateItem(Pair(k, arg)) = <<MeaningOf(s)>>
    BY <2>2, SegmentMeans
  <2>14. Pair(k, arg).key = k
    BY DEF Pair
  <2> QED
    BY <1>1, <1>2, <1>6, <2>1, <2>12, <2>13, <2>14
<1> QED
  BY <1>1, <1>2, <1>5, <1>7, <1>8, SegmentCases

(* The last directive.                                                     *)
LastDirective(segs) == Max({0} \cup {i \in DOMAIN segs : segs[i].key # ""})

LEMMA NotBoth ==
  \A m \in Nat : \A last \in 0 .. m : \A y \in 1 .. m : ~ (last >= y /\ y > last)
OBVIOUS

(* It is a directive, if there is one, and none is behind it.              *)
LEMMA LastDirectiveIs ==
  ASSUME NEW segs \in Seq(Segment)
  PROVE  /\ LastDirective(segs) \in 0 .. Len(segs)
         /\ \A i \in 1 .. Len(segs) : i > LastDirective(segs) => segs[i].key = ""
         /\ LastDirective(segs) # 0 => segs[LastDirective(segs)].key # ""
<1> DEFINE n == Len(segs)
           S == {0} \cup {i \in DOMAIN segs : segs[i].key # ""}
           T == {d \in 0 .. n : n - d \in S}
<1>1. n \in Nat /\ DOMAIN segs = 1 .. n
  OBVIOUS
<1>2. S \subseteq 0 .. n /\ 0 \in S
  <2>1. 0 \in 0 .. n /\ \A y \in 1 .. n : y \in 0 .. n
    BY <1>1
  <2>2. \A y \in S : y = 0 \/ y \in 1 .. n
    BY <1>1
  <2> QED
    BY <2>1, <2>2
<1>3. T \in SUBSET Nat /\ T # {}
  <2>1. n \in 0 .. n /\ n - n = 0
    BY <1>1
  <2> HIDE DEF S
  <2>2. n \in T
    BY <1>2, <2>1
  <2>3. \A d \in T : d \in Nat
    BY <1>1
  <2> QED
    BY <2>2, <2>3
<1>4. PICK d \in T : \A e \in T : d <= e
  <2> HIDE DEF T
  <2> QED
    BY <1>3, LeastNumber
<1>5. PICK m \in S : m = n - d
  OBVIOUS
<1>6. \A y \in S : m >= y
  <2> SUFFICES ASSUME NEW y \in S PROVE m >= y
    OBVIOUS
  <2> HIDE DEF S
  <2>1. y \in 0 .. n
    BY <1>2
  <2>2. n - y \in 0 .. n /\ n - (n - y) = y
    BY <1>1, <2>1
  <2>3. n - y \in T
    BY <2>2
  <2>4. d <= n - y
    BY <1>4, <2>3
  <2>5. d \in 0 .. n
    OBVIOUS
  <2> QED
    BY <1>1, <1>5, <2>1, <2>4, <2>5
<1> HIDE DEF T
<1>7. LastDirective(segs) \in S /\ \A y \in S : LastDirective(segs) >= y
  <2>1. LastDirective(segs) = CHOOSE x \in S : \A y \in S : x >= y
    BY DEF LastDirective, Max
  <2> HIDE DEF S
  <2> QED
    BY <1>6, <2>1
<1>8. ASSUME NEW i \in 1 .. n, i > LastDirective(segs) PROVE segs[i].key = ""
  <2> SUFFICES ASSUME segs[i].key # "" PROVE FALSE
    OBVIOUS
  <2>1. i \in S
    BY <1>1
  <2>2. LastDirective(segs) >= i /\ LastDirective(segs) \in 0 .. n
    BY <1>2, <1>7, <2>1
  <2> QED
    BY <1>1, <1>8, <2>2, NotBoth, Zenon
<1> QED
  BY <1>2, <1>7, <1>8

(* What follows the last segment decides whether a pattern is accepted.    *)
LEMMA KnownByTail ==
  ASSUME NEW segs, NEW tail, NEW p, IsPattern(p, segs, tail)
  PROVE  Accepted(p) <=> ParseFrom(p)[Len(Spell(segs)) + 1] \in KnownPairs
<1> DEFINE n == Len(segs)
           Knows(i) == ParseFrom(p)[Place(segs, i)] \in KnownPairs
           T == {i \in 1 .. n + 1 : Knows(i) <=> Knows(n + 1)}
<1>1. n \in Nat
  <2>1. \A q \in Seq(Segment) : Len(q) \in Nat
    OBVIOUS
  <2> QED
    BY <2>1 DEF IsPattern, WellFormed
<1>2. \A i \in 1 .. n : Knows(i) <=> Knows(i + 1)
  BY SegmentRead DEF IsRead
<1>3. Knows(1) <=> Knows(n + 1)
  <2>1. n + 1 \in 1 .. n + 1 /\ \A i \in 1 .. n : i \in 1 .. n + 1
    BY <1>1
  <2>2. n + 1 \in T
    BY <2>1
  <2>3. \A i \in 1 .. n : i + 1 \in T => i \in T
    BY <1>2, <2>1
  <2>4. 1 \in T
    <3> HIDE DEF T
    <3> QED
      BY <1>1, <2>2, <2>3, Backwards
  <2> QED
    BY <2>4
<1>4. Place(segs, 1) = 1 /\ Place(segs, n + 1) = Len(Spell(segs)) + 1 /\ p \in Text
  BY Places
<1>5. Accepted(p) <=> ParseFrom(p)[1] \in KnownPairs
  <2>1. 1 \in 1 .. Len(p) + 2
    BY <1>4 DEF Text
  <2>2. PICK pairs \in Seq(TextPairs) : pairs = ParseFrom(p)[1]
    BY <1>4, <2>1, ParseType
  <2>3. DOMAIN pairs = 1 .. Len(pairs) /\ \A i \in 1 .. Len(pairs) : pairs[i] \in TextPairs
    OBVIOUS
  <2>4. ASSUME \A i \in DOMAIN pairs : pairs[i].key \in ItemKeys PROVE pairs \in KnownPairs
    <3> DEFINE K == [key : ItemKeys, val : Seq(Characters)]
    <3>1. \A q \in TextPairs : q.key \in ItemKeys => q \in K
      BY DEF TextPairs, Pairs
    <3> HIDE DEF K
    <3>2. \A i \in 1 .. Len(pairs) : pairs[i] \in K
      BY <2>3, <2>4, <3>1
    <3>3. pairs \in Seq(K)
      BY <3>2
    <3> QED
      BY <3>3 DEF KnownPairs, Known, K
  <2>5. ASSUME pairs \in KnownPairs PROVE \A i \in DOMAIN pairs : pairs[i].key \in ItemKeys
    <3> DEFINE K == [key : ItemKeys, val : Seq(Characters)]
    <3>1. pairs \in Seq(K)
      BY <2>5 DEF KnownPairs, Known
    <3>2. \A q \in K : q.key \in ItemKeys
      OBVIOUS
    <3> HIDE DEF K
    <3>3. \A i \in DOMAIN pairs : pairs[i] \in K
      BY <3>1
    <3> QED
      BY <3>2, <3>3
  <2> QED
    BY <2>2, <2>4, <2>5 DEF Accepted, ParsePattern
<1> QED
  BY <1>3, <1>4, <1>5



(* A meaning is a part for every segment.                                  *)
LEMMA MeaningType ==
  ASSUME NEW segs, WellFormed(segs)
  PROVE  /\ segs \in Seq(Segment) /\ Len(segs) \in Nat
         /\ Meaning(segs) \in Seq(Part) /\ Len(Meaning(segs)) = Len(segs)
         /\ \A i \in 1 .. Len(segs) : Meaning(segs)[i] = MeaningOf(segs[i])
         /\ Meaning(UpToLastDirective(segs)) = SubSeq(Meaning(segs), 1, LastDirective(segs))
<1>1. segs \in Seq(Segment)
  BY DEF WellFormed
<1>2. /\ Len(segs) \in Nat /\ DOMAIN segs = 1 .. Len(segs)
      /\ \A i \in 1 .. Len(segs) : segs[i] \in Segment
  BY <1>1
<1>3. ASSUME NEW s \in Segment PROVE MeaningOf(s) \in Part
  <2>1. DefaultTime \in Text /\ <<>> \in Text
    <3>1. "%" \in Characters /\ "H" \in Characters /\ ":" \in Characters /\ "M" \in Characters /\ "S" \in Characters
      BY CharactersAssumption
    <3> QED
      BY <3>1 DEF Text, DefaultTime
  <2>2. PICK key \in Characters \cup {TextKey}, text \in Text : key = s.key /\ text = s.text
    <3>1. s.key \in Keys \cup {""} /\ s.text \in Text
      BY DEF Segment, Text
    <3> QED
      BY <3>1, PercentType DEF TextKey
  <2>3. MeaningOf(s).field = key /\ MeaningOf(s).text \in Text
    BY <2>1, <2>2 DEF MeaningOf
  <2>4. MeaningOf(s) = [field |-> MeaningOf(s).field, text |-> MeaningOf(s).text]
    BY DEF MeaningOf
  <2> QED
    BY <2>2, <2>3, <2>4 DEF Part
<1>4. /\ Meaning(segs) \in Seq(Part) /\ Len(Meaning(segs)) = Len(segs)
      /\ \A i \in 1 .. Len(segs) : Meaning(segs)[i] = MeaningOf(segs[i])
  BY <1>2, <1>3 DEF Meaning
<1>5. PICK m \in 0 .. Len(segs) : m = LastDirective(segs)
  BY <1>1, LastDirectiveIs
<1>6. PICK cut \in Seq(Segment) : cut = SubSeq(segs, 1, m) /\ Len(cut) = m /\ \A i \in 1 .. m : cut[i] = segs[i]
  <2>1. /\ SubSeq(segs, 1, m) \in Seq(Segment) /\ Len(SubSeq(segs, 1, m)) = m
        /\ \A i \in 1 .. m : SubSeq(segs, 1, m)[i] = segs[i]
    BY <1>1, Prefix
  <2> QED
    BY <2>1
<1>7. UpToLastDirective(segs) = cut
  BY <1>5, <1>6 DEF UpToLastDirective, LastDirective
<1>8. Meaning(cut) \in Seq(Part) /\ Len(Meaning(cut)) = m /\ \A i \in 1 .. m : Meaning(cut)[i] = MeaningOf(segs[i])
  <2>1. DOMAIN cut = 1 .. m /\ m \in Nat /\ \A i \in 1 .. m : cut[i] \in Segment
    BY <1>6
  <2> QED
    BY <1>3, <1>6, <2>1 DEF Meaning
<1>9. PICK meant \in Seq(Part) : meant = Meaning(segs) /\ Len(meant) = Len(segs)
  BY <1>4
<1>10. /\ SubSeq(meant, 1, m) \in Seq(Part) /\ Len(SubSeq(meant, 1, m)) = m
       /\ \A i \in 1 .. m : SubSeq(meant, 1, m)[i] = meant[i]
  BY <1>9
<1>11. \A i \in 1 .. m : Meaning(cut)[i] = SubSeq(meant, 1, m)[i]
  BY <1>2, <1>4, <1>8, <1>9, <1>10
<1>12. Meaning(cut) = SubSeq(meant, 1, m)
  BY <1>8, <1>10, <1>11, SeqEqual
<1> QED
  BY <1>1, <1>2, <1>4, <1>5, <1>7, <1>9, <1>12

(* A spelling is a pattern without a tail.                                 *)
LEMMA NoTail ==
  ASSUME NEW segs, WellFormed(segs)
  PROVE  IsPattern(Spell(segs), segs, <<>>)
<1>1. Tailing(<<>>)
  BY DEF Tailing, Text
<1>2. IsPattern(Spell(segs) \o <<>>, segs, <<>>)
  BY <1>1 DEF IsPattern
<1>3. Spell(segs) \in Text
  BY <1>2, Places
<1>4. Spell(segs) \o <<>> = Spell(segs)
  BY <1>3, ConcatEmptySeq DEF Text
<1> QED
  BY <1>2, <1>4

(* From the last segment down to the first: what is read is what is meant, *)
(* up to the last directive.                                               *)
LEMMA SpelledIsRead ==
  ASSUME NEW segs, WellFormed(segs)
  PROVE  Accepted(Spell(segs)) /\ Format(Spell(segs)) = Meaning(UpToLastDirective(segs))
<1>1. PICK n \in Nat, last \in Nat, meant \in Seq(Part), p \in Text :
        /\ last \in 0 .. n /\ n = Len(segs) /\ last = LastDirective(segs) /\ meant = Meaning(segs) /\ p = Spell(segs)
        /\ Len(p) \in Nat /\ Len(meant) = n
  <2>1. IsPattern(Spell(segs), segs, <<>>)
    BY NoTail
  <2>2. Spell(segs) \in Text
    BY <2>1, Places
  <2>3. \A t \in Text : Len(t) \in Nat
    BY DEF Text
  <2>4. segs \in Seq(Segment) /\ Len(segs) \in Nat /\ Meaning(segs) \in Seq(Part) /\ Len(Meaning(segs)) = Len(segs)
    BY MeaningType
  <2>5. LastDirective(segs) \in Nat /\ LastDirective(segs) \in 0 .. Len(segs)
    <3>1. LastDirective(segs) \in 0 .. Len(segs)
      BY <2>4, LastDirectiveIs
    <3> QED
      BY <2>4, <3>1
  <2> QED
    BY <2>2, <2>3, <2>4, <2>5
<1>2. IsPattern(p, segs, <<>>)
  BY <1>1, NoTail
<1>3. /\ \A i \in 1 .. n : meant[i] = MeaningOf(segs[i])
      /\ \A i \in 1 .. n : i > last => segs[i].key = ""
      /\ last # 0 => segs[last].key # ""
      /\ Meaning(UpToLastDirective(segs)) = SubSeq(meant, 1, last)
  BY <1>1, MeaningType, LastDirectiveIs
<1>4. Place(segs, 1) = 1 /\ Place(segs, n + 1) = Len(p) + 1
  BY <1>1, <1>2, Places
<1> DEFINE From(i) == ParseFrom(p)[Place(segs, i)]
           Read(i) == /\ ParseEnds(p, Place(segs, i)) <=> i > last
                      /\ Wrote(From(i)) = SubSeq(meant, i, last)
<1>5. From(n + 1) = <<>> /\ ParseEnds(p, Len(p) + 1)
  <2>1. Len(p) + 1 \in 1 .. Len(p) + 2 /\ Len(p) + 1 > Len(p)
    BY <1>1
  <2>2. ParseEnds(p, Len(p) + 1)
    BY <2>1 DEF ParseEnds
  <2> QED
    BY <1>4, <2>1, <2>2, ParseType
<1>6. Accepted(p)
  <2>1. <<>> \in KnownPairs
    BY DEF KnownPairs, Known
  <2> QED
    BY <1>1, <1>2, <1>4, <1>5, <2>1, KnownByTail
<1>7. Read(n + 1)
  <2>1. n + 1 > last /\ n + 1 \in 1 .. Len(meant) + 1 /\ last \in 0 .. Len(meant)
    BY <1>1
  <2>2. SubSeq(meant, n + 1, last) = <<>>
    BY <2>1, SubSeqHead
  <2> QED
    BY <1>4, <1>5, <2>1, <2>2, WroteNothing
<1>8. ASSUME NEW i \in 1 .. n, Read(i + 1) PROVE Read(i)
  <2>1. IsRead(p, segs[i], Place(segs, i), Place(segs, i + 1))
    BY <1>1, <1>2, SegmentRead
  <2>2. /\ ParseEnds(p, Place(segs, i)) <=> segs[i].key = "" /\ i + 1 > last
        /\ ~ ParseEnds(p, Place(segs, i)) => Wrote(From(i)) = Cat(<<meant[i]>>, SubSeq(meant, i + 1, last))
    BY <1>3, <1>8, <2>1 DEF IsRead
  <2>3. /\ i + 1 > last <=> i > last \/ i = last
        /\ i = last => last # 0
        /\ i > last \/ i <= last
        /\ i > last => ~ (i <= last)
        /\ i = last => ~ (i > last)
    OBVIOUS
  <2>4. ParseEnds(p, Place(segs, i)) <=> i > last
    BY <1>3, <2>2, <2>3
  <2>5. i \in 1 .. Len(meant) + 1 /\ last \in 0 .. Len(meant)
    BY <1>1
  <2>6. /\ i > last => SubSeq(meant, i, last) = <<>>
        /\ i <= last => SubSeq(meant, i, last) = Cat(<<meant[i]>>, SubSeq(meant, i + 1, last))
    BY <2>5, SubSeqHead
  <2>7. ParseEnds(p, Place(segs, i)) => From(i) = <<>>
    <3>1. IsPlaced(p, segs, i)
      BY <1>1, <1>2, Places
    <3>2. Place(segs, i) \in 1 .. Len(p)
      BY <1>1, <3>1 DEF IsPlaced
    <3>3. Place(segs, i) \in 1 .. Len(p) + 2
      BY <1>1, <3>2
    <3> QED
      BY <3>3, ParseType
  <2> QED
    BY <2>2, <2>3, <2>4, <2>6, <2>7, WroteNothing
<1> HIDE DEF Read
<1>9. Read(1)
  <2> DEFINE T == {i \in 1 .. n + 1 : Read(i)}
  <2>1. n + 1 \in T
    BY <1>7
  <2>2. \A i \in 1 .. n : i + 1 \in T => i \in T
    BY <1>8
  <2>3. 1 \in T
    <3> HIDE DEF T
    <3> QED
      BY <2>1, <2>2, Backwards
  <2> QED
    BY <2>3
<1>10. Format(p) = Wrote(From(1))
  BY <1>4 DEF Format, Items, Wrote, ParsePattern
<1> QED
  BY <1>1, <1>3, <1>4, <1>6, <1>9, <1>10 DEF Read

-----------------------------------------------------------------------------
(* No other pattern is accepted.                                          *)

(* A directive's letter must have a meaning.                               *)
LEMMA HeadIsKnown ==
  ASSUME NEW p \in Text, NEW pos \in 1 .. Len(p) + 2, ~ ParseEnds(p, pos),
         DirectiveFrom(p, Letter(p, pos)) \in KnownPairs
  PROVE  /\ At(p, Letter(p, pos)) \in ItemKeys
         /\ HasBraces(p, pos) => AreClosed(p, pos)
<1>1. PICK at \in 1 .. Len(p) + 1 : at = Letter(p, pos)
  BY ParseAdvances DEF Text
<1>2. PICK key \in Characters \cup {TextKey, Eos, "unclosed"} : key = At(p, at)
  BY <1>1, ParseAdvances DEF Text
<1>3. <<>> \in Seq(Characters)
  OBVIOUS
<1>4. CASE At(p, at + 1) # Opening
  <2>1. ParseFrom(p)[at + 1] \in Seq(TextPairs)
    BY ParseType
  <2>2. PICK pair \in TextPairs : pair = Pair(At(p, at), <<>>) /\ pair.key = At(p, at)
    <3>1. Pair(key, <<>>) \in TextPairs /\ Pair(key, <<>>).key = key
      BY <1>3 DEF Pair, TextPairs, Pairs
    <3> QED
      BY <1>2, <3>1
  <2>3. <<pair>> \o ParseFrom(p)[at + 1] \in KnownPairs
    BY <1>1, <1>4, <2>2 DEF DirectiveFrom
  <2>4. pair.key \in ItemKeys
    BY <2>1, <2>3, PairAhead
  <2>5. ~ HasBraces(p, pos)
    BY <1>1, <1>4 DEF HasBraces
  <2> QED
    BY <1>1, <2>2, <2>4, <2>5
<1>5. CASE At(p, at + 1) = Opening
  <2>1. HasBraces(p, pos)
    BY <1>1, <1>5 DEF HasBraces
  <2>2. PICK n \in 1 .. Len(p) + 1, text \in Seq(Characters) : n = Braces(p, pos).next /\ text = Braces(p, pos).val
    <3>1. Braces(p, pos).next \in Letter(p, pos) + 2 .. Len(p) + 1 /\ Braces(p, pos).val \in Seq(Characters)
      BY <2>1, ParseAdvances DEF Text
    <3> QED
      BY <1>1, <3>1
  <2>3. n = BracedFrom(p)[at + 2].next /\ text = BracedFrom(p)[at + 2].val
    BY <1>1, <2>2 DEF Braces
  <2>4. ParseFrom(p)[n + 1] \in Seq(TextPairs)
    BY ParseType
  <2>5. PICK pair \in TextPairs, open \in TextPairs :
          /\ pair = Pair(At(p, at), text) /\ pair.key = At(p, at)
          /\ open = Unclosed /\ open.key = "unclosed"
    <3>1. Pair(key, text) \in TextPairs /\ Pair(key, text).key = key
      BY DEF Pair, TextPairs, Pairs
    <3>2. Unclosed \in TextPairs /\ Unclosed.key = "unclosed"
      BY <1>3 DEF Unclosed, Pair, TextPairs, Pairs
    <3> QED
      BY <1>2, <3>1, <3>2
  <2>6. "unclosed" \notin ItemKeys
    BY DEF ItemKeys, TextKey
  <2>7. <<open>> \notin KnownPairs
    <3>1. <<open>>[1] = open /\ 1 \in 1 .. Len(<<open>>)
      OBVIOUS
    <3> QED
      BY <2>5, <2>6, <3>1 DEF KnownPairs, Known
  <2>8. At(p, n) = Closing
    BY <1>1, <1>5, <2>3, <2>5, <2>7 DEF DirectiveFrom
  <2>9. <<pair>> \o ParseFrom(p)[n + 1] \in KnownPairs
    BY <1>1, <1>5, <2>3, <2>5, <2>8 DEF DirectiveFrom
  <2>10. pair.key \in ItemKeys
    BY <2>4, <2>9, PairAhead
  <2>11. AreClosed(p, pos)
    BY <2>2, <2>8 DEF AreClosed
  <2> QED
    BY <1>1, <2>5, <2>10, <2>11
<1> QED
  BY <1>4, <1>5

(* What no segment begins like is not accepted, whatever is ahead of it.   *)
LEMMA BrokenIsRefused ==
  ASSUME NEW segs, NEW tail, NEW p, WellFormed(segs), tail \in Text, Broken(tail), p = Spell(segs) \o tail
  PROVE  ~ Accepted(p)
<1>1. IsPattern(p, segs, tail)
  BY DEF IsPattern, Tailing, Broken
<1>2. PICK before \in Nat, behind \in Nat : before = Len(Spell(segs)) /\ behind = Len(tail)
  <2>1. \A t \in Text : Len(t) \in Nat
    BY DEF Text
  <2>2. Spell(segs) \in Text
    BY <1>1, Places
  <2> QED
    BY <2>1, <2>2
<1>3. p \in Text /\ Len(p) = before + behind /\ \A k \in 1 .. behind : p[before + k] = tail[k] /\ tail[k] \in Characters
  <2>1. p \in Text /\ Len(p) = before + behind /\ \A k \in 1 .. behind : p[before + k] = tail[k]
    BY <1>1, <1>2, Places
  <2>2. \A t \in Text : \A k \in 1 .. Len(t) : t[k] \in Characters
    BY DEF Text
  <2> QED
    BY <1>2, <2>1, <2>2
<1>4. behind >= 1
  <2>1. \A t \in Text : t # <<>> => Len(t) >= 1
    BY DEF Text
  <2> QED
    BY <1>2, <2>1 DEF Broken
<1>5. PICK pos \in 1 .. Len(p) : pos = before + 1
  BY <1>3, <1>4
<1>6. p[pos] = "%"
  <2>1. 1 \in 1 .. behind
    BY <1>4
  <2> QED
    BY <1>3, <1>5, <2>1 DEF Broken
<1>7. At(p, pos + 1) = (IF behind = 1 THEN Eos ELSE tail[2]) /\ (behind # 1 => 2 \in 1 .. behind)
  <2>1. CASE behind = 1
    <3>1. ~ (pos + 1 <= Len(p))
      BY <1>3, <1>5, <2>1
    <3> QED
      BY <2>1, <3>1 DEF At
  <2>2. CASE behind # 1
    <3>1. pos + 1 <= Len(p) /\ 2 \in 1 .. behind /\ pos + 1 = before + 2
      BY <1>3, <1>4, <1>5, <2>2
    <3> QED
      BY <1>3, <2>2, <3>1 DEF At
  <2> QED
    BY <2>1, <2>2
<1>8. At(p, pos + 1) # "%"
  BY <1>2, <1>7 DEF Broken, Eos, Keys
<1>9. ~ ParseEnds(p, pos) /\ ParseFrom(p)[pos] = DirectiveFrom(p, pos + 1)
  BY <1>3, <1>6, <1>8, DirectiveRead
<1>10. Letter(p, pos) = pos + 1
  BY <1>3, <1>6, <1>8, DirectiveRead
<1>11. SUFFICES ASSUME ParseFrom(p)[pos] \in KnownPairs PROVE FALSE
  BY <1>1, <1>2, <1>5, KnownByTail
<1>12. pos \in 1 .. Len(p) + 2
  BY <1>3
<1>13. At(p, pos + 1) \in ItemKeys /\ (HasBraces(p, pos) => AreClosed(p, pos))
  BY <1>3, <1>9, <1>10, <1>11, <1>12, HeadIsKnown
<1>14. Eos \notin ItemKeys
  BY DEF Eos, ItemKeys, TextKey
<1>15. behind # 1 /\ tail[2] \in ItemKeys /\ tail[2] \in Characters
  BY <1>3, <1>7, <1>13, <1>14
<1>16. tail[2] \in Keys
  BY <1>15, PercentType DEF ItemKeys, Keys, TextKey
<1>17. behind > 2 /\ tail[3] = "{" /\ "}" \notin Range(tail)
  BY <1>2, <1>15, <1>16 DEF Broken
<1>18. HasBraces(p, pos)
  <2>1. pos + 1 + 1 = before + 3 /\ 3 \in 1 .. behind /\ pos + 1 + 1 <= Len(p)
    <3>1. PICK l \in Nat : l = Len(p) /\ l = before + behind
      BY <1>3
    <3>2. pos = before + 1 /\ behind > 2
      BY <1>5, <1>17
    <3> QED
      BY <3>1, <3>2
  <2> QED
    BY <1>3, <1>10, <1>17, <2>1 DEF HasBraces, At, Opening
<1>19. PICK next \in 1 .. Len(p) + 1 : next = Braces(p, pos).next /\ next >= pos + 3
  <2>1. Braces(p, pos).next \in Letter(p, pos) + 2 .. Len(p) + 1
    BY <1>3, <1>9, <1>12, <1>18, ParseAdvances DEF Text
  <2> QED
    BY <1>3, <1>10, <2>1
<1>20. next <= Len(p) /\ p[next] = "}"
  <2>1. At(p, next) = Closing
    BY <1>13, <1>18, <1>19 DEF AreClosed
  <2> QED
    BY <2>1 DEF At, Eos, Closing
<1>21. PICK k \in 1 .. behind : next = before + k
  <2>1. next - before \in 1 .. behind /\ next = before + (next - before)
    <3>1. PICK l \in Nat : l = Len(p) /\ l = before + behind
      BY <1>3
    <3>2. next \in 1 .. l + 1 /\ next >= before + 1 + 3 /\ next <= l
      BY <1>5, <1>19, <1>20, <3>1
    <3> QED
      BY <3>1, <3>2
  <2> QED
    BY <2>1
<1>22. tail[k] \in Range(tail)
  <2>1. \A t \in Text : \A j \in 1 .. Len(t) : t[j] \in Range(t)
    BY DEF Text, Range
  <2> QED
    BY <1>2, <2>1
<1> QED
  BY <1>3, <1>17, <1>20, <1>21, <1>22

(* An opening brace is the first character.                                *)
BraceAhead(t) == t # <<>> /\ t[1] = "{"

(* A text begins with a segment, and what is left of it.                   *)
Begins(t, s, rest) ==
  /\ s \in Segment /\ IsSegment(s) /\ rest \in Text
  /\ t = Cat(SpellSegment(s), rest) /\ Len(rest) < Len(t)
  /\ s = Literal("{") => BraceAhead(t)
  /\ s = Bare(s.key) => ~ BraceAhead(rest)

(* What comes behind the first m characters.                               *)
Rest(t, m) == SubSeq(t, m + 1, Len(t))

LEMMA TextIs ==
  ASSUME NEW t \in Text
  PROVE  /\ Len(t) \in Nat /\ DOMAIN t = 1 .. Len(t)
         /\ \A i \in 1 .. Len(t) : t[i] \in Characters
         /\ t # <<>> => Len(t) >= 1
BY DEF Text

(* A text is its first m characters and the rest.                          *)
LEMMA CutAt ==
  ASSUME NEW t \in Text, NEW m \in 1 .. Len(t)
  PROVE  /\ SubSeq(t, 1, m) \in Text /\ Len(SubSeq(t, 1, m)) = m
         /\ \A i \in 1 .. m : SubSeq(t, 1, m)[i] = t[i]
         /\ Rest(t, m) \in Text /\ t = Cat(SubSeq(t, 1, m), Rest(t, m)) /\ Len(Rest(t, m)) < Len(t)
         /\ Rest(t, m) # <<>> => m + 1 <= Len(t) /\ Rest(t, m)[1] = t[m + 1]
<1>1. t \in Seq(Characters) /\ Len(t) \in Nat /\ m \in 0 .. Len(t)
  <2>1. t \in Seq(Characters)
    BY DEF Text
  <2>2. Len(t) \in Nat
    BY <2>1
  <2> QED
    BY <2>1, <2>2
<1>2. /\ SubSeq(t, 1, m) \in Text /\ Len(SubSeq(t, 1, m)) = m
      /\ \A i \in 1 .. m : SubSeq(t, 1, m)[i] = t[i]
  BY <1>1, Prefix DEF Text
<1>3. t = Cat(SubSeq(t, 1, m), Rest(t, m))
  <2>1. 1 \in 1 .. Len(t) + 1 /\ m \in 1 - 1 .. Len(t) /\ Len(t) \in m .. Len(t)
    BY <1>1
  <2>2. SubSeq(t, 1, m) \o SubSeq(t, m + 1, Len(t)) = SubSeq(t, 1, Len(t))
    BY <1>1, <2>1, ConcatAdjacentSubSeq
  <2>3. SubSeq(t, 1, Len(t)) = t
    BY <1>1, SubSeqFull
  <2> QED
    BY <2>2, <2>3 DEF Rest, Cat
<1>4. /\ Rest(t, m) \in Seq(Characters)
      /\ Len(Rest(t, m)) = IF m + 1 <= Len(t) THEN Len(t) - (m + 1) + 1 ELSE 0
      /\ \A i \in 1 .. Len(t) - (m + 1) + 1 : Rest(t, m)[i] = t[m + 1 + i - 1]
  <2>1. m + 1 \in Int /\ Len(t) \in Int /\ \A i \in m + 1 .. Len(t) : i \in 1 .. Len(t)
    BY <1>1
  <2>2. \A i \in m + 1 .. Len(t) : t[i] \in Characters
    BY <1>1, <2>1
  <2> QED
    BY <2>1, <2>2, SubSeqProperties DEF Rest
<1>5. Len(Rest(t, m)) < Len(t)
  BY <1>1, <1>4
<1>6. ASSUME Rest(t, m) # <<>> PROVE m + 1 <= Len(t) /\ Rest(t, m)[1] = t[m + 1]
  <2>1. Len(Rest(t, m)) # 0
    BY <1>4, <1>6
  <2>2. m + 1 <= Len(t) /\ 1 \in 1 .. Len(t) - (m + 1) + 1 /\ m + 1 + 1 - 1 = m + 1
    BY <1>1, <1>4, <2>1
  <2> QED
    BY <1>4, <2>2
<1> QED
  BY <1>2, <1>3, <1>4, <1>5, <1>6 DEF Text

LEMMA FirstCharacters ==
  ASSUME NEW t \in Text, NEW m \in 1 .. Len(t)
  PROVE  /\ m = 1 => SubSeq(t, 1, m) = <<t[1]>>
         /\ m = 2 => SubSeq(t, 1, m) = <<t[1], t[2]>>
<1>1. /\ SubSeq(t, 1, m) \in Text /\ Len(SubSeq(t, 1, m)) = m
      /\ \A i \in 1 .. m : SubSeq(t, 1, m)[i] = t[i]
  BY CutAt
<1>2. PICK u \in Seq(Characters) : u = SubSeq(t, 1, m) /\ Len(u) = m /\ \A i \in 1 .. m : u[i] = t[i]
  BY <1>1 DEF Text
<1>3. ASSUME m = 1 PROVE u = <<t[1]>>
  <2>1. PICK x \in Characters : x = u[1] /\ Len(u) = 1
    BY <1>2, <1>3
  <2>2. u = <<x>>
    BY <2>1
  <2>3. u[1] = t[1]
    BY <1>2, <1>3
  <2> QED
    BY <2>1, <2>2, <2>3
<1>4. ASSUME m = 2 PROVE u = <<t[1], t[2]>>
  <2>1. PICK x \in Characters, y \in Characters : x = u[1] /\ y = u[2] /\ Len(u) = 2
    BY <1>2, <1>4
  <2>2. u = <<x, y>>
    BY <2>1
  <2>3. u[1] = t[1] /\ u[2] = t[2]
    BY <1>2, <1>4
  <2> QED
    BY <2>1, <2>2, <2>3
<1> QED
  BY <1>2, <1>3, <1>4

(* A segment of a key, a text and braces or none.                          *)
Made(s, key, text, braces) ==
  s = [key |-> key, text |-> text, braces |-> braces] /\ s.key = key /\ s.text = text /\ s.braces = braces

LEMMA MadeIs ==
  ASSUME NEW key \in Keys \cup {""}, NEW text \in Seq(Characters), NEW braces \in BOOLEAN
  PROVE  \E s \in Segment : Made(s, key, text, braces)
<1>1. [key |-> key, text |-> text, braces |-> braces] \in Segment
  BY DEF Segment
<1> QED
  BY <1>1 DEF Made

(* Segments made from characters, letters and arguments, and how they are  *)
(* spelled.                                                                *)
LEMMA LiteralIs ==
  ASSUME NEW c \in Characters
  PROVE  /\ Literal(c) \in Segment /\ IsSegment(Literal(c))
         /\ SpellSegment(Literal(c)) = IF c = "%" THEN <<"%", "%">> ELSE <<c>>
         /\ Literal(c) = Literal("{") => c = "{"
         /\ Literal(c) # Bare(Literal(c).key)
<1>1. Literal(c) = [key |-> "", text |-> <<c>>, braces |-> FALSE]
  BY DEF Literal
<1>2. <<c>> \in Seq(Characters) /\ <<c>>[1] = c /\ Len(<<c>>) = 1 /\ Len(<<>>) = 0
  OBVIOUS
<1>3. PICK text \in Seq(Characters) : text = <<c>> /\ text[1] = c /\ text # <<>>
  BY <1>2
<1>4. PICK s \in Segment : s = Literal(c) /\ s.key = "" /\ s.text = text /\ s.braces = FALSE
  <2>1. PICK s \in Segment : Made(s, "", text, FALSE)
    BY MadeIs
  <2> QED
    BY <1>3, <1>1, <2>1 DEF Made
<1>5. IsSegment(s)
  <2>1. s.text[1] = c /\ s.text # <<>>
    BY <1>3, <1>4
  <2> QED
    BY <1>4, <2>1 DEF IsSegment
<1>6. <<c>> = <<"%">> <=> c = "%"
  <2>1. <<"%">>[1] = "%"
    OBVIOUS
  <2> QED
    BY <1>2, <2>1
<1>7. SpellSegment(s) = IF c = "%" THEN <<"%", "%">> ELSE <<c>>
  BY <1>3, <1>4, <1>6 DEF SpellSegment
<1>8. s = Literal("{") => c = "{"
  <2>1. Literal("{").text = <<"{">> /\ <<"{">>[1] = "{"
    BY DEF Literal
  <2> QED
    BY <1>3, <1>4, <2>1
<1>9. s # Bare(s.key)
  <2>1. Bare("").text = <<>>
    BY DEF Bare
  <2>2. s.key = "" /\ s.text # <<>>
    BY <1>3, <1>4
  <2> QED
    BY <2>1, <2>2
<1> QED
  BY <1>4, <1>5, <1>7, <1>8, <1>9

LEMMA BareIs ==
  ASSUME NEW k \in Keys
  PROVE  /\ Bare(k) \in Segment /\ IsSegment(Bare(k)) /\ SpellSegment(Bare(k)) = <<"%", k>>
         /\ Bare(k) # Literal("{")
<1>1. Bare(k) = [key |-> k, text |-> <<>>, braces |-> FALSE]
  BY DEF Bare
<1>2. <<>> \in Seq(Characters)
  OBVIOUS
<1>3. k # ""
  BY PercentType
<1>4. PICK s \in Segment : s = Bare(k) /\ s.key = k /\ s.text = <<>> /\ s.braces = FALSE
  <2>1. PICK text \in Seq(Characters) : text = <<>>
    BY <1>2
  <2>2. PICK s \in Segment : Made(s, k, text, FALSE)
    BY MadeIs
  <2> QED
    BY <1>1, <2>1, <2>2 DEF Made
<1>5. IsSegment(s) /\ SpellSegment(s) = <<"%", k>>
  BY <1>3, <1>4 DEF IsSegment, SpellSegment
<1>6. Literal("{").key = ""
  BY DEF Literal
<1> QED
  BY <1>3, <1>4, <1>5, <1>6

LEMMA DirectiveIs ==
  ASSUME NEW k \in Keys, NEW arg \in Text, "}" \notin Range(arg)
  PROVE  /\ Directive(k, arg) \in Segment /\ IsSegment(Directive(k, arg))
         /\ InBraces(k, arg, SpellSegment(Directive(k, arg)))
         /\ Directive(k, arg) # Literal("{")
         /\ Directive(k, arg) # Bare(Directive(k, arg).key)
<1>1. Directive(k, arg) = [key |-> k, text |-> arg, braces |-> TRUE]
  BY DEF Directive
<1>2. arg \in Seq(Characters)
  BY DEF Text
<1>3. k # "" /\ k \in Characters
  BY PercentType
<1>4. PICK s \in Segment : s = Directive(k, arg) /\ s.key = k /\ s.text = arg /\ s.braces = TRUE
  <2>1. PICK s \in Segment : Made(s, k, arg, TRUE)
    BY <1>2, MadeIs
  <2> QED
    BY <1>1, <2>1 DEF Made
<1>5. IsSegment(s) /\ SpellSegment(s) = <<"%", k, "{">> \o arg \o <<"}">>
  BY <1>3, <1>4 DEF IsSegment, SpellSegment
<1>6. InBraces(k, arg, SpellSegment(s))
  BY <1>3, <1>5, SpellBraced
<1>7. Literal("{").braces = FALSE /\ Bare(k).braces = FALSE
  BY DEF Literal, Bare
<1> QED
  BY <1>4, <1>5, <1>6, <1>7

(* A text that begins as s is spelled.                                     *)
LEMMA SegmentAhead ==
  ASSUME NEW t \in Text, NEW m \in 1 .. Len(t), NEW s \in Segment, IsSegment(s),
         SpellSegment(s) = SubSeq(t, 1, m),
         s = Literal("{") => BraceAhead(t), s = Bare(s.key) => ~ BraceAhead(Rest(t, m))
  PROVE  \E segment, rest : Begins(t, segment, rest)
<1>1. Rest(t, m) \in Text /\ t = Cat(SubSeq(t, 1, m), Rest(t, m)) /\ Len(Rest(t, m)) < Len(t)
  BY CutAt
<1>2. Begins(t, s, Rest(t, m))
  BY <1>1 DEF Begins
<1> QED
  BY <1>2

(* A directive with a brace behind it, and one that closes.                *)
Encloses(t) == Len(t) > 2 /\ t[1] = "%" /\ t[2] \in Keys /\ t[3] = "{" /\ "}" \in Range(t)

(* The first closing brace is at m + 4.                                    *)
Closes(t, m) ==
  m + 4 <= Len(t) /\ t[m + 4] = "}" /\ \A i \in 1 .. Len(t) : t[i] = "}" => m + 4 <= i

LEMMA Below == \A x \in Nat : \A y \in 1 .. x : y \in Nat /\ y <= x
OBVIOUS

(* There is a first closing brace, and it is behind the opening one.       *)
LEMMA FirstClosing ==
  ASSUME NEW t \in Text, Encloses(t)
  PROVE  \E m \in Nat : Closes(t, m)
<1> DEFINE Ends == {j \in Nat : j \in DOMAIN t /\ t[j] = "}"}
<1>1. Len(t) \in Nat /\ DOMAIN t = 1 .. Len(t)
  BY TextIs
<1>2. Ends \in SUBSET Nat
  OBVIOUS
<1>3. Ends # {}
  <2>1. \A j \in DOMAIN t : j \in Nat
    BY <1>1
  <2>2. \E j \in DOMAIN t : t[j] = "}"
    BY DEF Encloses, Range
  <2> QED
    BY <2>1, <2>2
<1>4. PICK j \in Ends : \A i \in Ends : j <= i
  <2> HIDE DEF Ends
  <2> QED
    BY <1>2, <1>3, LeastNumber
<1>5. j \in Nat /\ j \in 1 .. Len(t) /\ t[j] = "}"
  BY <1>1
<1>6. j # 1 /\ j # 2 /\ j # 3
  <2>1. \A k \in Keys : k # "}"
    BY DEF Keys
  <2> QED
    BY <1>5, <2>1 DEF Encloses
<1>7. ASSUME NEW i \in 1 .. Len(t), t[i] = "}" PROVE j <= i
  <2>1. i \in Nat /\ i \in DOMAIN t
    BY <1>1, Below
  <2> QED
    BY <1>4, <1>7, <2>1
<1> HIDE DEF Ends
<1>8. PICK m \in Nat : j = m + 4
  <2>1. \A n \in Nat : \A x \in Nat : x \in 1 .. n /\ x # 1 /\ x # 2 /\ x # 3 => x - 4 \in Nat /\ x = (x - 4) + 4
    OBVIOUS
  <2> QED
    BY <1>1, <1>5, <1>6, <2>1
<1>9. j <= Len(t)
  BY <1>1, <1>5, Below
<1> QED
  BY <1>5, <1>7, <1>8, <1>9 DEF Closes

(* What the braces enclose.                                                *)
LEMMA Enclosed ==
  ASSUME NEW t \in Text, NEW m \in Nat, Closes(t, m)
  PROVE  \E arg \in Text : /\ Len(arg) = m /\ "}" \notin Range(arg)
                           /\ \A i \in 1 .. m : arg[i] = t[i + 3]
<1>1. PICK n \in Nat : n = Len(t) /\ \A i \in 1 .. n : t[i] \in Characters
  BY TextIs
<1>2. m + 4 <= n
  BY <1>1 DEF Closes
<1>3. \A i \in 1 .. m : i + 3 \in 1 .. n /\ ~ (m + 4 <= i + 3)
  BY <1>2
<1>4. \A i \in 1 .. m : t[i + 3] \in Characters /\ t[i + 3] # "}"
  BY <1>1, <1>3 DEF Closes
<1> DEFINE arg == [i \in 1 .. m |-> t[i + 3]]
<1>5. arg \in [1 .. m -> Characters]
  BY <1>4
<1>6. arg \in Seq(Characters) /\ Len(arg) = m
  <2> HIDE DEF arg
  <2>1. arg \in Seq(Characters)
    BY <1>5
  <2>2. DOMAIN arg = 1 .. m
    BY <1>5
  <2> QED
    BY <2>1, <2>2
<1>7. DOMAIN arg = 1 .. m /\ \A i \in 1 .. m : arg[i] = t[i + 3] /\ arg[i] # "}"
  BY <1>4
<1> HIDE DEF arg
<1> QED
  BY <1>6, <1>7 DEF Text, Range

(* A directive and what stands in its braces, up to the first that closes. *)
LEMMA BracedAhead ==
  ASSUME NEW t \in Text, Encloses(t)
  PROVE  \E s, rest : Begins(t, s, rest)
<1>1. PICK m \in Nat : Closes(t, m)
  BY FirstClosing
<1>2. PICK j \in Nat : j = m + 4
  OBVIOUS
<1>3. j \in 1 .. Len(t) /\ t[j] = "}"
  <2>1. Len(t) \in Nat /\ j <= Len(t) /\ t[j] = "}"
    BY <1>1, <1>2, TextIs DEF Closes
  <2>2. \A x \in Nat : m + 4 <= x => m + 4 \in 1 .. x
    OBVIOUS
  <2> QED
    BY <1>2, <2>1, <2>2
<1>4. PICK k \in Keys : k = t[2]
  BY DEF Encloses
<1>5. PICK arg \in Text : Len(arg) = m /\ "}" \notin Range(arg) /\ \A i \in 1 .. m : arg[i] = t[i + 3]
  BY <1>1, Enclosed
<1>6. PICK s \in Segment : /\ s = Directive(k, arg) /\ IsSegment(s) /\ InBraces(k, arg, SpellSegment(s))
                           /\ s # Literal("{") /\ s # Bare(s.key)
  BY <1>5, DirectiveIs
<1>7. PICK spelled \in Text : spelled = SpellSegment(s) /\ InBraces(k, arg, spelled)
  BY <1>6, SegmentType
<1>8. PICK cut \in Text : cut = SubSeq(t, 1, j) /\ Len(cut) = j /\ \A i \in 1 .. j : cut[i] = t[i]
  BY <1>3, CutAt
<1>9. spelled = cut
  <2>1. Len(spelled) = j /\ spelled[j] = "}"
    BY <1>2, <1>5, <1>7 DEF InBraces
  <2>2. spelled[1] = t[1] /\ spelled[2] = t[2] /\ spelled[3] = t[3] /\ spelled[j] = t[j]
    BY <1>3, <1>4, <1>7, <2>1 DEF InBraces, Encloses
  <2>3. ASSUME NEW i \in 1 .. j PROVE spelled[i] = t[i]
    <3>1. i = 1 \/ i = 2 \/ i = 3 \/ i = j \/ (i - 3 \in 1 .. m /\ i = (i - 3) + 3)
      BY <1>2
    <3>2. CASE i - 3 \in 1 .. m /\ i = (i - 3) + 3
      <4>1. PICK l \in 1 .. m : i = l + 3
        BY <3>2
      <4>2. spelled[l + 3] = arg[l]
        BY <1>5, <1>7 DEF InBraces
      <4> QED
        BY <1>5, <4>1, <4>2
    <3> QED
      BY <2>2, <3>1, <3>2
  <2>4. spelled \in Seq(Characters) /\ cut \in Seq(Characters) /\ Len(spelled) = Len(cut)
    BY <1>8, <2>1 DEF Text
  <2>5. \A i \in 1 .. Len(spelled) : spelled[i] = cut[i]
    BY <1>8, <2>1, <2>3
  <2> QED
    BY <2>4, <2>5, SeqEqual
<1> QED
  BY <1>6, <1>7, <1>3, <1>8, <1>9, SegmentAhead

(* A text that is not broken begins with a segment.                        *)
LEMMA FirstSegment ==
  ASSUME NEW t \in Text, t # <<>>, ~ Broken(t)
  PROVE  \E s, rest : Begins(t, s, rest)
<1>1. PICK n \in Nat : n = Len(t) /\ n >= 1 /\ \A i \in 1 .. n : t[i] \in Characters
  BY TextIs
<1>2. CASE t[1] # "%"
  <2>1. 1 \in 1 .. Len(t) /\ 1 \in 1 .. n
    BY <1>1
  <2>2. PICK c \in Characters : c = t[1] /\ c # "%"
    BY <1>1, <1>2, <2>1
  <2>3. SubSeq(t, 1, 1) = <<c>>
    BY <2>1, <2>2, FirstCharacters
  <2>4. PICK s \in Segment : /\ s = Literal(c) /\ IsSegment(s) /\ s # Bare(s.key)
                             /\ SpellSegment(s) = (IF c = "%" THEN <<"%", "%">> ELSE <<c>>)
                             /\ s = Literal("{") => c = "{"
    BY LiteralIs
  <2>5. SpellSegment(s) = SubSeq(t, 1, 1)
    BY <2>2, <2>3, <2>4
  <2>6. s = Literal("{") => BraceAhead(t)
    BY <2>2, <2>4 DEF BraceAhead
  <2> QED
    BY <2>1, <2>4, <2>5, <2>6, SegmentAhead
<1>3. CASE t[1] = "%"
  <2>1. n # 1 /\ t[2] \in Keys \cup {"%"} /\ ~ (n > 2 /\ t[2] # "%" /\ t[3] = "{" /\ "}" \notin Range(t))
    BY <1>1, <1>3 DEF Broken
  <2>2. 2 \in 1 .. Len(t)
    <3>1. \A x \in Nat : x >= 1 /\ x # 1 => 2 \in 1 .. x
      OBVIOUS
    <3> QED
      BY <1>1, <2>1, <3>1
  <2>3. SubSeq(t, 1, 2) = <<"%", t[2]>>
    BY <1>3, <2>2, FirstCharacters
  <2>4. CASE t[2] = "%"
    <3>1. PICK c \in Characters : c = "%" /\ c # "{"
      BY PercentType
    <3>2. PICK s \in Segment : /\ s = Literal(c) /\ IsSegment(s) /\ s # Bare(s.key)
                               /\ SpellSegment(s) = (IF c = "%" THEN <<"%", "%">> ELSE <<c>>)
                               /\ s = Literal("{") => c = "{"
      BY LiteralIs
    <3>3. SpellSegment(s) = SubSeq(t, 1, 2)
      BY <2>3, <2>4, <3>1, <3>2
    <3> QED
      BY <2>2, <3>1, <3>2, <3>3, SegmentAhead
  <2>5. CASE t[2] \in Keys
    <3>1. t[2] # "%"
      BY <2>5, PercentType
    <3>2. CASE n > 2 /\ t[3] = "{"
      <4>1. "}" \in Range(t)
        BY <2>1, <3>1, <3>2
      <4> QED
        BY <1>1, <1>3, <2>5, <3>2, <4>1, BracedAhead DEF Encloses
    <3>3. CASE ~ (n > 2 /\ t[3] = "{")
      <4>1. ~ BraceAhead(Rest(t, 2))
        <5>1. Rest(t, 2) # <<>> => 2 + 1 <= Len(t) /\ Rest(t, 2)[1] = t[2 + 1]
          BY <2>2, CutAt
        <5>2. 2 + 1 = 3 /\ (3 <= n => n > 2)
          BY <1>1
        <5> QED
          BY <1>1, <3>3, <5>1, <5>2 DEF BraceAhead
      <4>2. PICK s \in Segment : /\ s = Bare(t[2]) /\ IsSegment(s) /\ SpellSegment(s) = <<"%", t[2]>>
                                 /\ s # Literal("{")
        BY <2>5, BareIs
      <4>3. SpellSegment(s) = SubSeq(t, 1, 2)
        BY <2>3, <4>2
      <4> QED
        BY <2>2, <4>1, <4>2, <4>3, SegmentAhead
    <3> QED
      BY <3>2, <3>3
  <2> QED
    BY <2>1, <2>4, <2>5
<1> QED
  BY <1>2, <1>3

(* A brace behind these segments would be taken for an argument.           *)
BareLast(segs) == segs # <<>> /\ segs[Len(segs)] = Bare(segs[Len(segs)].key)

(* A pattern read up to a place: segments, and what is left.               *)
Split(p, segs, tail) ==
  /\ WellFormed(segs) /\ tail \in Text /\ p = Cat(Spell(segs), tail)
  /\ ~ (BareLast(segs) /\ BraceAhead(tail))

(* What WellFormed says of each segment.                                   *)
LEMMA FormedIs ==
  ASSUME NEW segs, WellFormed(segs)
  PROVE  /\ segs \in Seq(Segment) /\ Len(segs) \in Nat /\ DOMAIN segs = 1 .. Len(segs)
         /\ \A i \in 1 .. Len(segs) : segs[i] \in Segment /\ IsSegment(segs[i])
         /\ \A i \in 1 .. Len(segs) - 1 : segs[i] = Bare(segs[i].key) => segs[i + 1] # Literal("{")
<1>1. \A q \in Seq(Segment) : /\ Len(q) \in Nat /\ DOMAIN q = 1 .. Len(q)
                              /\ \A i \in 1 .. Len(q) : q[i] \in Segment
  OBVIOUS
<1> QED
  BY <1>1 DEF WellFormed

(* A segment more is its spelling behind the others.                       *)
LEMMA SpellGrows ==
  ASSUME NEW segs, WellFormed(segs), NEW s \in Segment, IsSegment(s)
  PROVE  Spell(Append(segs, s)) = Cat(Spell(segs), SpellSegment(s))
<1>1. /\ segs \in Seq(Segment) /\ Len(segs) \in Nat /\ DOMAIN segs = 1 .. Len(segs)
      /\ \A i \in 1 .. Len(segs) : segs[i] \in Segment /\ IsSegment(segs[i])
  BY FormedIs
<1>2. PICK n \in Nat : n = Len(segs)
  BY <1>1
<1>3. PICK new \in Seq(Segment) : IsAppended(new, segs, s, n)
  BY <1>1, <1>2, Appended
<1>4. /\ new = Append(segs, s) /\ Len(new) = n + 1 /\ DOMAIN new = 1 .. n + 1
      /\ new[n + 1] = s /\ \A i \in 1 .. n : new[i] = segs[i]
  BY <1>3 DEF IsAppended
<1>5. SpellSegment(s) \in Text
  BY SegmentType
<1>6. /\ Spelled(segs) \in Seq(Text) /\ Len(Spelled(segs)) = n
      /\ \A i \in 1 .. n : Spelled(segs)[i] = SpellSegment(segs[i])
  <2>1. \A i \in 1 .. n : SpellSegment(segs[i]) \in Text
    BY <1>1, <1>2, SegmentType
  <2> QED
    BY <1>1, <1>2, <2>1 DEF Spelled
<1>7. /\ Spelled(new) \in Seq(Text) /\ Len(Spelled(new)) = n + 1
      /\ \A i \in 1 .. n : Spelled(new)[i] = SpellSegment(segs[i])
      /\ Spelled(new)[n + 1] = SpellSegment(s)
  <2>1. \A i \in 1 .. n + 1 : i \in 1 .. n \/ i = n + 1
    OBVIOUS
  <2>2. \A i \in 1 .. n + 1 : SpellSegment(new[i]) \in Text
    BY <1>1, <1>4, <1>2, <1>5, <2>1, SegmentType
  <2>3. DOMAIN new = 1 .. n + 1
    BY <1>4, <1>2
  <2>4. Spelled(new) \in Seq(Text) /\ Len(Spelled(new)) = n + 1 /\ \A i \in 1 .. n + 1 : Spelled(new)[i] = SpellSegment(new[i])
    BY <2>2, <2>3 DEF Spelled
  <2>5. n + 1 \in 1 .. n + 1 /\ \A i \in 1 .. n : i \in 1 .. n + 1
    OBVIOUS
  <2> QED
    BY <1>4, <1>2, <2>4, <2>5
<1>8. PICK a \in Seq(Text), x \in Text : a = Spelled(segs) /\ x = SpellSegment(s) /\ Len(a) = n
  BY <1>5, <1>6
<1>9. PICK b \in Seq(Text) : IsAppended(b, a, x, n)
  BY <1>8, Appended
<1>10. b = Append(a, x) /\ Len(b) = n + 1 /\ b[n + 1] = x /\ \A i \in 1 .. n : b[i] = a[i]
  BY <1>9 DEF IsAppended
<1>11. Spelled(new) = b
  <2>1. \A i \in 1 .. n + 1 : i \in 1 .. n \/ i = n + 1
    OBVIOUS
  <2>2. \A i \in 1 .. n + 1 : Spelled(new)[i] = b[i]
    BY <1>6, <1>7, <1>8, <1>10, <2>1
  <2> QED
    BY <1>7, <1>10, <2>2, SeqEqual
<1>12. FlattenSeq(b) = FlattenSeq(a) \o x
  BY <1>8, <1>10, FlattenAppend DEF Text
<1>13. Spell(segs) = FlattenSeq(a) /\ Spell(new) = FlattenSeq(b)
  BY <1>8, <1>11 DEF Spell, Spelled
<1> QED
  BY <1>4, <1>8, <1>12, <1>13 DEF Cat

(* The segment a tail begins with is read, and a shorter tail is left.     *)
LEMMA SplitGrows ==
  ASSUME NEW p, NEW segs, NEW tail, Split(p, segs, tail), NEW s, NEW rest, Begins(tail, s, rest)
  PROVE  Split(p, Append(segs, s), rest)
<1>1. /\ WellFormed(segs) /\ tail \in Text /\ p = Cat(Spell(segs), tail) /\ ~ (BareLast(segs) /\ BraceAhead(tail))
      /\ s \in Segment /\ IsSegment(s) /\ rest \in Text /\ tail = Cat(SpellSegment(s), rest)
      /\ s = Literal("{") => BraceAhead(tail)
      /\ s = Bare(s.key) => ~ BraceAhead(rest)
  BY DEF Split, Begins
<1>2. /\ segs \in Seq(Segment) /\ Len(segs) \in Nat /\ DOMAIN segs = 1 .. Len(segs)
      /\ \A i \in 1 .. Len(segs) : segs[i] \in Segment /\ IsSegment(segs[i])
      /\ \A i \in 1 .. Len(segs) - 1 : segs[i] = Bare(segs[i].key) => segs[i + 1] # Literal("{")
  BY <1>1, FormedIs
<1>3. PICK n \in Nat : n = Len(segs)
  BY <1>2
<1>4. PICK new \in Seq(Segment) : IsAppended(new, segs, s, n)
  BY <1>1, <1>2, <1>3, Appended
<1>5. /\ new = Append(segs, s) /\ Len(new) = n + 1 /\ DOMAIN new = 1 .. n + 1
      /\ new[n + 1] = s /\ \A i \in 1 .. n : new[i] = segs[i]
  BY <1>4 DEF IsAppended
<1>6. \A i \in 1 .. n + 1 : IsSegment(new[i])
  <2>1. \A i \in 1 .. n + 1 : i \in 1 .. n \/ i = n + 1
    OBVIOUS
  <2> QED
    BY <1>1, <1>2, <1>3, <1>5, <2>1
<1>7. ASSUME NEW i \in 1 .. n, new[i] = Bare(new[i].key) PROVE new[i + 1] # Literal("{")
  <2>1. CASE i = n
    <3>1. segs[n] = Bare(segs[n].key) /\ new[i + 1] = s
      BY <1>5, <1>7, <2>1
    <3>2. segs # <<>>
      <4>1. n # 0 /\ Len(<<>>) = 0
        OBVIOUS
      <4> QED
        BY <1>3, <4>1
    <3>3. BareLast(segs)
      BY <1>3, <3>1, <3>2 DEF BareLast
    <3> QED
      BY <1>1, <3>1, <3>3
  <2>2. CASE i # n
    <3>1. i \in 1 .. n - 1 /\ i + 1 \in 1 .. n
      BY <2>2
    <3>2. new[i] = segs[i] /\ new[i + 1] = segs[i + 1]
      BY <1>5, <3>1
    <3> QED
      BY <1>2, <1>3, <1>7, <3>1, <3>2
  <2> QED
    BY <2>1, <2>2
<1>8. WellFormed(new)
  <2>1. Len(new) - 1 = n
    BY <1>5
  <2> QED
    BY <1>5, <1>6, <1>7, <2>1 DEF WellFormed
<1>9. p = Cat(Spell(new), rest)
  <2>1. Spell(new) = Cat(Spell(segs), SpellSegment(s))
    BY <1>1, <1>5, SpellGrows
  <2>2. IsPattern(Spell(segs), segs, <<>>)
    BY <1>1, NoTail
  <2>3. PICK one \in Seq(Characters), two \in Seq(Characters), three \in Seq(Characters) :
          one = Spell(segs) /\ two = SpellSegment(s) /\ three = rest
    <3>1. Spell(segs) \in Text /\ SpellSegment(s) \in Text /\ rest \in Text
      BY <1>1, <2>2, Places, SegmentType
    <3> QED
      BY <3>1 DEF Text
  <2>4. Cat(Cat(one, two), three) = Cat(one, Cat(two, three))
    BY Regroup
  <2> QED
    BY <1>1, <2>1, <2>3, <2>4
<1>10. ~ (BareLast(new) /\ BraceAhead(rest))
  BY <1>1, <1>5 DEF BareLast
<1> QED
  BY <1>1, <1>5, <1>8, <1>9, <1>10 DEF Split

(* Every text is the spelling of segments, or goes on as none begins.      *)
LEMMA EveryText ==
  ASSUME NEW p \in Text
  PROVE  \E segs, tail : /\ WellFormed(segs) /\ tail \in Text /\ p = Cat(Spell(segs), tail)
                         /\ tail = <<>> \/ Broken(tail)
<1> DEFINE D == {d \in Nat : \E segs, tail : Split(p, segs, tail) /\ Len(tail) = d}
<1>1. Split(p, <<>>, p)
  <2>1. WellFormed(<<>>)
    <3>1. <<>> \in Seq(Segment) /\ Len(<<>>) = 0 /\ DOMAIN <<>> = {}
      OBVIOUS
    <3> QED
      BY <3>1 DEF WellFormed
  <2>2. Spell(<<>>) = <<>>
    <3>1. [i \in DOMAIN <<>> |-> SpellSegment(<<>>[i])] = <<>>
      OBVIOUS
    <3>2. <<>> \in Seq(Seq(Characters)) /\ Len(<<>>) = 0
      OBVIOUS
    <3> QED
      BY <3>1, <3>2, FlattenEmpty DEF Spell
  <2>3. Cat(<<>>, p) = p
    BY CatType DEF Text
  <2> QED
    BY <2>1, <2>2, <2>3 DEF Split, BareLast
<1>2. D \in SUBSET Nat
  OBVIOUS
<1>3. D # {}
  <2>1. Len(p) \in Nat
    BY TextIs
  <2> QED
    BY <1>1, <2>1
<1>4. PICK d \in D : \A e \in D : d <= e
  <2> HIDE DEF D
  <2> QED
    BY <1>2, <1>3, LeastNumber
<1>5. PICK segs, tail : Split(p, segs, tail) /\ Len(tail) = d
  OBVIOUS
<1>6. WellFormed(segs) /\ tail \in Text /\ p = Cat(Spell(segs), tail)
  BY <1>5 DEF Split
<1>7. tail = <<>> \/ Broken(tail)
  <2> SUFFICES ASSUME tail # <<>>, ~ Broken(tail) PROVE FALSE
    OBVIOUS
  <2>1. PICK s, rest : Begins(tail, s, rest)
    BY <1>6, FirstSegment
  <2>2. Split(p, Append(segs, s), rest)
    BY <1>5, <2>1, SplitGrows
  <2>3. rest \in Text /\ Len(rest) < Len(tail)
    BY <2>1 DEF Begins
  <2>4. Len(rest) \in Nat /\ Len(rest) < d
    BY <1>5, <2>3, TextIs
  <2>5. Len(rest) \in D
    BY <2>2, <2>4
  <2>6. d <= Len(rest) /\ d \in Nat
    BY <1>4, <2>5
  <2> HIDE DEF D
  <2> QED
    BY <2>4, <2>6
<1> QED
  BY <1>6, <1>7

(* A pattern is accepted, that is the constructor of its formatter         *)
(* returns, exactly if it is spelled by the grammar: nothing else passes   *)
(* the assertions, and no spelling is refused (formatter.hpp:114, 192).    *)
THEOREM AcceptedIsSpelled ==
  \A p \in Seq(Characters) :
    Accepted(p) <=> \E segs : WellFormed(segs) /\ p = Spell(segs)
<1> SUFFICES ASSUME NEW p \in Seq(Characters)
             PROVE  Accepted(p) <=> \E segs : WellFormed(segs) /\ p = Spell(segs)
  OBVIOUS
<1>1. PICK segs, tail : /\ WellFormed(segs) /\ tail \in Text /\ p = Cat(Spell(segs), tail)
                        /\ tail = <<>> \/ Broken(tail)
  BY EveryText DEF Text
<1>2. CASE tail = <<>>
  <2>1. Spell(segs) \in Text
    BY <1>1, NoTail, Places
  <2>2. Cat(Spell(segs), <<>>) = Spell(segs)
    BY <2>1, CatType DEF Text
  <2> QED
    BY <1>1, <1>2, <2>2, SpelledIsRead
<1>3. CASE Broken(tail)
  <2>1. ~ Accepted(p)
    BY <1>1, <1>3, BrokenIsRefused DEF Cat
  <2> QED
    BY <2>1, SpelledIsRead
<1> QED
  BY <1>1, <1>2, <1>3

(* What a formatter writes is what its pattern means by the grammar up to  *)
(* the last directive (formatter.hpp:117-176), whatever the pattern: no    *)
(* literal is doubled or dropped, no argument read as text.                *)
THEOREM SpelledIsMeant ==
  \A segs : WellFormed(segs) => Format(Spell(segs)) = Meaning(UpToLastDirective(segs))
BY SpelledIsRead

-----------------------------------------------------------------------------
(* The parts of the loggers.                                               *)

Complete(l) ==
  /\ parts[l].kind # "none"
  /\ Accepted(parts[l].formatter)
  /\ HasGiven(parts[l])
  /\ parts[l].sinks # <<>> \/ MayBeMute(parts[l])

(* No builder has a formatter whose pattern was refused, every builder has *)
(* the sinks it was given, and no logger is in anybody's hands before it   *)
(* has its parts, which it keeps.                                          *)
Sound(b) == HasGiven(b) /\ (b.formatter = NoPattern \/ Accepted(b.formatter))
PartsInv ==
  /\ \A t \in Threads : Sound(builder[t])
  /\ \A t \in Threads : held[t] # Null => Complete(held[t])
  /\ \A l \in loggers : Complete(l)

(* A builder of a kind that has a formatter, what it was given, and a sink *)
(* if it must.                                                             *)
Ready(b) ==
  /\ b.kind # "none" /\ Accepted(b.formatter)
  /\ HasGiven(b) /\ (b.sinks # <<>> \/ MayBeMute(b))

(* With no sinks, none were given.                                         *)
LEMMA GivenAreThere ==
  ASSUME NEW b \in Builders, HasGiven(b), b.sinks = <<>>
  PROVE  b.given = 0
<1>1. b.given \in Nat /\ DOMAIN b.sinks = {}
  BY DEF Builders
<1>2. 1 \notin 1 .. b.given
  BY <1>1 DEF HasGiven
<1> QED
  BY <1>1, <1>2

LEMMA DefaultsReady ==
  ASSUME NEW b \in Builders,
         b.kind # "none", Sound(b)
  PROVE  /\ b.kind = "global" => Ready(WithFormatter(b))
         /\ Ready(WithSink(WithFormatter(b)))
<1>1. PICK f \in Builders : f = WithFormatter(b)
  BY DefaultsType
<1>2. /\ f.kind = b.kind /\ f.sinks = b.sinks /\ f.given = b.given
      /\ f.formatter = IF b.formatter = NoPattern THEN DefaultPattern ELSE b.formatter
  BY <1>1 DEF WithFormatter, Builders
<1>3. Accepted(f.formatter)
  BY <1>2, DefaultAccepted DEF Sound
<1>4. HasGiven(f)
  BY <1>2 DEF HasGiven, Sound
<1>5. /\ WithSink(f).kind = b.kind /\ WithSink(f).formatter = f.formatter
      /\ WithSink(f).given = f.given
      /\ WithSink(f).sinks = IF f.sinks = <<>> THEN <<Stdout>> ELSE f.sinks
  BY <1>2 DEF WithSink, Builders
<1>6. HasGiven(WithSink(f))
  <2>1. CASE f.sinks = <<>>
    BY <1>4, <1>5, <2>1 DEF HasGiven
  <2> QED
    BY <1>4, <1>5, <2>1 DEF HasGiven
<1>7. WithSink(f).sinks # <<>>
  BY <1>5
<1>8. b.kind = "global" => f.sinks # <<>> \/ MayBeMute(f)
  BY <1>2, <1>4, GivenAreThere DEF MayBeMute
<1> QED
  BY <1>1, <1>2, <1>3, <1>4, <1>5, <1>6, <1>7, <1>8 DEF Ready

(* The sink a builder is given is there with the earlier ones.             *)
LEMMA AppendGiven ==
  ASSUME NEW b \in Builders, Sound(b)
  PROVE  Sound([b EXCEPT !.given = @ + 1, !.sinks = Append(@, b.given + 1)])
<1> DEFINE c == [b EXCEPT !.given = @ + 1, !.sinks = Append(@, b.given + 1)]
           n == b.given + 1
<1>1. b.given \in Nat /\ b.sinks \in Seq(Nat)
  BY DEF Builders, SinkLists
<1>2. c.given = n /\ c.sinks = Append(b.sinks, n) /\ c.formatter = b.formatter
  BY DEF Builders
<1>3. HasGiven(c)
  <2> SUFFICES ASSUME NEW k \in 1 .. n
               PROVE  \E i \in DOMAIN Append(b.sinks, n) : k = Append(b.sinks, n)[i]
    BY <1>2 DEF HasGiven
  <2>1. CASE k = n
    BY <1>1, <2>1
  <2>2. CASE k # n
    <3>1. k \in 1 .. b.given
      BY <1>1, <2>2
    <3>2. PICK i \in DOMAIN b.sinks : k = b.sinks[i]
      BY <3>1 DEF Sound, HasGiven
    <3> QED
      BY <1>1, <3>2
  <2> QED
    BY <2>1, <2>2
<1> QED
  BY <1>2, <1>3 DEF Sound

(* Build makes a complete logger and takes nothing from the others.        *)
LEMMA MakeParts ==
  ASSUME Types, PartsInv, NEW t \in Threads, builds[t] < setup.builds,
         NEW b \in Builders,
         Ready(b), Make(t, b), UNCHANGED loggers
  PROVE  PartsInv'
<1>1. PICK new \in Logger : new = Product(t, b.name)
  BY MakeType DEF Types
<1>2. /\ builder' = [builder EXCEPT ![t] = b] /\ held' = [held EXCEPT ![t] = new]
      /\ parts' = [parts EXCEPT ![new] =
                     PartsOf(b)]
  BY <1>1 DEF Make, MakeAndKeep
<1>3. /\ builder \in [Threads -> Builders]
      /\ held \in [Threads -> Logger \cup {Null}] /\ loggers \subseteq Logger
      /\ parts \in [Logger -> Parts]
  BY DEF Types, TypeOK
<1>4. parts'[new] = PartsOf(b)
  BY <1>2, <1>3
<1>5. \A l \in Logger : l = new \/ Complete(l) => Complete(l)'
  <2>1. Complete(new)'
    BY <1>4 DEF Complete, Ready, PartsOf, HasGiven, MayBeMute
  <2>2. \A l \in Logger : l # new => parts'[l] = parts[l]
    BY <1>2, <1>3
  <2> QED
    BY <2>1, <2>2 DEF Complete
<1>6. \A u \in Threads : Sound(builder'[u])
  BY <1>2, <1>3 DEF PartsInv, Ready, Sound
<1>7. \A u \in Threads : held'[u] # Null => (Complete(held[u]))'
  <2> SUFFICES ASSUME NEW u \in Threads, held'[u] # Null
               PROVE  (Complete(held[u]))'
    OBVIOUS
  <2>1. held'[u] \in Logger /\ (held'[u] = new \/ held'[u] = held[u])
    BY <1>2, <1>3
  <2>2. held'[u] = new \/ Complete(held'[u])
    BY <2>1 DEF PartsInv
  <2> QED
    BY <1>5, <2>1, <2>2 DEF Complete
<1> QED
  BY <1>3, <1>5, <1>6, <1>7 DEF PartsInv

LEMMA PartsNext == IInv /\ PartsInv /\ [Next]_vars => PartsInv'
<1> SUFFICES ASSUME IInv, PartsInv, [Next]_vars PROVE PartsInv'
  OBVIOUS
<1>1. Types
  BY DEF IInv
<1>2. /\ builder \in [Threads -> Builders]
      /\ held \in [Threads -> Logger \cup {Null}] /\ loggers \subseteq Logger
      /\ parts \in [Logger -> Parts]
  BY <1>1 DEF Types, TypeOK
<1>3. ASSUME UNCHANGED <<builder, held, loggers, parts>> PROVE PartsInv'
  BY <1>3 DEF PartsInv, Complete
<1>4. ASSUME NEW t \in Threads, Configure(t) PROVE PartsInv'
  <2>1. UNCHANGED <<held, loggers, parts>>
    BY <1>4 DEF Configure, CreateBuilder, BuildLoggerName, BuildLoggerFormatter, BuildLoggerSink,
           threads, state
  <2>2. \A u \in Threads : Sound(builder'[u])
    <3>1. CASE \E kind \in {"local", "global"} : CreateBuilder(t, kind)
      BY <1>2, <3>1 DEF CreateBuilder, NewBuilder, PartsInv, Sound, HasGiven
    <3>2. CASE \E name \in setup.names : BuildLoggerName(t, name)
      BY <1>2, <3>2 DEF BuildLoggerName, PartsInv, Sound, HasGiven, Builders
    <3>3. CASE \E pattern \in setup.patterns : BuildLoggerFormatter(t, pattern)
      BY <1>2, <3>3 DEF BuildLoggerFormatter, PartsInv, Sound, HasGiven, Builders
    <3>4. CASE BuildLoggerSink(t)
      BY <1>2, <3>4, AppendGiven DEF BuildLoggerSink, PartsInv
    <3> QED
      BY <1>4, <3>1, <3>2, <3>3, <3>4 DEF Configure
  <2> QED
    BY <2>1, <2>2 DEF PartsInv, Complete
<1>5. ASSUME NEW t \in Threads, Build(t) PROVE PartsInv'
  <2>1. Sound(builder[t])
    BY DEF PartsInv
  <2>2. CASE LocalBuild(t)
    <3>1. Ready(WithSink(WithFormatter(builder[t])))
      BY <1>2, <2>1, <2>2, DefaultsReady DEF LocalBuild
    <3>2. WithSink(WithFormatter(builder[t])) \in Builders
      BY <1>2, DefaultsType
    <3> QED
      BY <1>1, <2>2, <3>1, <3>2, MakeParts DEF LocalBuild, state
  <2>3. CASE GlobalBuild(t)
    <3>1. Ready(WithFormatter(builder[t]))
      BY <1>2, <2>1, <2>3, DefaultsReady DEF GlobalBuild
    <3>2. WithFormatter(builder[t]) \in Builders
      BY <1>2, DefaultsType
    <3> QED
      BY <1>1, <2>3, <3>1, <3>2, MakeParts DEF GlobalBuild, state
  <2>4. CASE GlobalBuildNameless(t) \/ LoggerExist(t)
    BY <1>3, <2>4 DEF GlobalBuildNameless, LoggerExist, threads, state
  <2>5. CASE Insert(t)
    <3>1. held[t] \in Logger /\ held[t] # Null
      BY <1>1, <2>5, Constants DEF Insert, Types, HoldsLogger
    <3>2. UNCHANGED <<builder, held, parts>> /\ loggers' \subseteq loggers \cup {held[t]}
      BY <2>5 DEF Insert
    <3> QED
      BY <3>1, <3>2 DEF PartsInv, Complete
  <2> QED
    BY <1>5, <2>2, <2>3, <2>4, <2>5 DEF Build
<1>6. ASSUME NEW t \in Threads, Ask(t) PROVE PartsInv'
  <2>1. CASE ReadRoot(t)
    <3>1. Root \in loggers /\ held' = [held EXCEPT ![t] = Root]
      BY <2>1 DEF ReadRoot, IInv, Managed, Inside
    <3>2. UNCHANGED <<builder, loggers, parts>>
      BY <2>1 DEF ReadRoot, state
    <3> QED
      BY <1>2, <3>1, <3>2 DEF PartsInv, Complete
  <2>2. CASE (\E name \in setup.names : GetLogger(t, name)) \/ RootLogger(t)
               \/ FindNothing(t) \/ Find(t)
    BY <1>3, <2>2 DEF GetLogger, RootLogger, FindNothing, Find, state
  <2> QED
    BY <1>6, <2>1, <2>2 DEF Ask
<1>7. ASSUME NEW t \in Threads, Instance(t) PROVE PartsInv'
  <2>1. CASE FirstUse(t) \/ GetInstance(t)
    BY <1>3, <2>1 DEF FirstUse, GetInstance, threads, state
  <2>2. CASE LoggerManager(t)
    <3>1. PICK b \in Builders :
            b = NewBuilder("local")
      BY NewBuilderType DEF Kinds
    <3>2. b.kind = "local" /\ Sound(b)
      BY <3>1 DEF NewBuilder, Sound, HasGiven
    <3>3. PICK r : r = WithSink(WithFormatter(b)) /\ Ready(r)
      BY <3>2, DefaultsReady
    <3>4. /\ parts' = [parts EXCEPT ![Root] = PartsOf(r)]
          /\ UNCHANGED <<builder, held>> /\ loggers' = loggers \cup {Root}
      BY <2>2, <3>1, <3>3 DEF LoggerManager, threads
    <3>5. parts'[Root] = PartsOf(r)
      BY <1>2, <3>4, Constants
    <3>6. \A l \in Logger : l = Root \/ Complete(l) => Complete(l)'
      <4>1. Complete(Root)'
        BY <3>3, <3>5 DEF Complete, Ready, PartsOf, HasGiven, MayBeMute
      <4>2. \A l \in Logger : l # Root => parts'[l] = parts[l]
        BY <1>2, <3>4
      <4> QED
        BY <4>1, <4>2 DEF Complete
    <3> QED
      BY <1>2, <3>4, <3>6, Constants DEF PartsInv
  <2> QED
    BY <1>7, <2>1, <2>2 DEF Instance
<1>8. CASE UNCHANGED vars
  BY <1>3, <1>8 DEF vars, threads, state
<1> QED
  BY <1>4, <1>5, <1>6, <1>7, <1>8 DEF Next

(* The parts of the loggers, in every run.                                 *)
LEMMA PartsAlways == Spec => []PartsInv
<1>1. Init => PartsInv
  BY DEF Init, NewBuilder, PartsInv, Sound, HasGiven
<1> QED
  BY <1>1, PartsNext, Invariance, PTL DEF Spec

(* Every logger that can be got hold of has a formatter with an accepted   *)
(* pattern and every sink its builder was given, and some sink unless a    *)
(* GlobalLoggerBuilder was given none, though it is made in one step and   *)
(* registered in others (logger.hpp:226-229, 245-258, 314-330).            *)
THEOREM LoggersAlwaysComplete == Spec => []LoggersComplete
<1>1. IInv /\ PartsInv => LoggersComplete
  <2> SUFFICES ASSUME IInv, PartsInv, NEW l \in loggers \cup ({held[t] : t \in Threads} \ {Null})
               PROVE  Complete(l) /\ parts[l].formatter \in Patterns
    BY DEF LoggersComplete, Complete, AcceptedPatterns
  <2>1. l \in Logger
    BY DEF IInv, Types, TypeOK
  <2>2. Complete(l)
    BY DEF PartsInv
  <2> QED
    BY <2>1, <2>2 DEF IInv, Types, TypeOK, Parts
<1> QED
  BY <1>1, PartsAlways, Invariance, PTL

(* What is passed, if it is accepted, is spelled by the grammar.           *)
LEMMA PassedIsRead ==
  ASSUME NEW s \in Setups, NEW p \in s.patterns, Accepted(p)
  PROVE  p \in WellRead
<1>1. PICK g \in Grammar : /\ IsPrefix(Spell(g), p)
                           /\ p = Spell(g) \/ Broken(SubSeq(p, Len(Spell(g)) + 1, Len(p)))
  BY GrammarAssumption
<1>2. WellFormed(g) /\ p \in Seq(Characters)
  BY GrammarAssumption
<1>3. p = Spell(g)
  <2> SUFFICES ASSUME Broken(SubSeq(p, Len(Spell(g)) + 1, Len(p))) PROVE FALSE
    BY <1>1
  <2>1. PICK one \in Seq(Characters) : one = Spell(g)
    BY <1>2, NoTail, Places DEF Text
  <2>2. PICK n \in Nat : n = Len(one) /\ n <= Len(p) /\ one = SubSeq(p, 1, n)
    <3>1. Len(one) <= Len(p) /\ SubSeq(one, 1, Len(one)) = SubSeq(p, 1, Len(one))
      BY <1>1, <2>1 DEF IsPrefix
    <3>2. SubSeq(one, 1, Len(one)) = one /\ Len(one) \in Nat
      OBVIOUS
    <3> QED
      BY <3>1, <3>2
  <2>3. SubSeq(p, n + 1, Len(p)) \in Text
    BY <1>2, <2>2 DEF Text
  <2>4. p = one \o SubSeq(p, n + 1, Len(p))
    <3>1. 1 \in 1 .. Len(p) + 1 /\ n \in 1 - 1 .. Len(p) /\ Len(p) \in n .. Len(p)
      BY <1>2, <2>2
    <3>2. SubSeq(p, 1, n) \o SubSeq(p, n + 1, Len(p)) = SubSeq(p, 1, Len(p))
      BY <1>2, <3>1, ConcatAdjacentSubSeq
    <3>3. SubSeq(p, 1, Len(p)) = p
      BY <1>2
    <3> QED
      BY <2>2, <3>2, <3>3
  <2> QED
    BY <1>2, <2>1, <2>2, <2>3, <2>4, BrokenIsRefused
<1> QED
  BY <1>2, <1>3, SpelledIsRead DEF WellRead

(* The default pattern among them.                                         *)
LEMMA DefaultIsRead == DefaultPattern \in WellRead
BY GrammarAssumption, SpelledIsRead DEF WellRead

(* FormatsAsMeant, of every run of the program and whatever is passed.     *)
THEOREM FormatsAlwaysAsMeant == Spec => []FormatsAsMeant
<1>1. IInv /\ PartsInv => FormatsAsMeant
  <2> SUFFICES ASSUME IInv, PartsInv, NEW t \in Threads
               PROVE  builder[t].formatter \in WellRead \cup {NoPattern}
    BY DEF FormatsAsMeant
  <2>1. builder[t].formatter \in Patterns
    BY DEF IInv, Types, TypeOK, Builders
  <2>2. builder[t].formatter = NoPattern \/ Accepted(builder[t].formatter)
    BY DEF PartsInv, Sound
  <2>3. CASE builder[t].formatter = DefaultPattern
    BY <2>3, DefaultIsRead
  <2>4. CASE builder[t].formatter \in UNION {s.patterns : s \in Setups} /\ builder[t].formatter # NoPattern
    BY <2>2, <2>4, PassedIsRead
  <2> QED
    BY <2>1, <2>3, <2>4 DEF Patterns
<1> QED
  BY <1>1, PartsAlways, Invariance, PTL

-----------------------------------------------------------------------------
(* Registry implements NameDirectory: the insert of AddLogger registers,   *)
(* as the constructor does with the root logger, and find answers.         *)

LEMMA NamesOfLoggers == Directory!LoggerNames = Names
<1>1. \A n \in Names : [by |-> Manager, no |-> 0, name |-> n] \in Logger
  BY Constants DEF Logger
<1> QED
  BY <1>1 DEF Directory!LoggerNames, Logger

LEMMA RegisterStep ==
  ASSUME IInv, NEW l \in Logger, Holders(l.name) = {},
         loggers' = loggers \cup {l}, UNCHANGED <<asked, answer>>
  PROVE  Directory!Next
BY DEF Directory!Next, Directory!Register, Directory!Holders, Holders

LEMMA StutterStep ==
  ASSUME UNCHANGED <<loggers, asked, answer>>
  PROVE  UNCHANGED Directory!vars
BY DEF Directory!vars

LEMMA AnswerStep ==
  ASSUME NEW t \in Threads, NEW l \in Logger \cup {Null},
         IF Holders(asked[t]) = {} THEN l = Null ELSE l \in Holders(asked[t]),
         answer' = [answer EXCEPT ![t] = l], UNCHANGED <<loggers, asked>>
  PROVE  Directory!Next
<1>1. Directory!Answer(t)
  BY DEF Directory!Answer, Directory!Holders, Holders
<1> QED
  BY <1>1 DEF Directory!Next

LEMMA AskStep ==
  ASSUME NEW t \in Threads, NEW n \in Names,
         asked' = [asked EXCEPT ![t] = n], UNCHANGED <<loggers, answer>>
  PROVE  Directory!Next
<1>1. Directory!Ask(t, n)
  BY DEF Directory!Ask
<1> QED
  BY <1>1, NamesOfLoggers DEF Directory!Next

LEMMA DirectoryStep ==
  ASSUME IInv, [Next]_vars
  PROVE  [Directory!Next]_(Directory!vars)
<1>1. CASE UNCHANGED vars
  BY <1>1, StutterStep DEF vars, threads, state
<1>2. ASSUME NEW t \in Threads, Configure(t)
      PROVE  UNCHANGED Directory!vars
  BY <1>2, StutterStep DEF Configure, CreateBuilder, BuildLoggerName, BuildLoggerFormatter,
     BuildLoggerSink, threads, state
<1>3. ASSUME NEW t \in Threads, Build(t)
      PROVE  [Directory!Next]_(Directory!vars)
  <2>1. CASE LocalBuild(t) \/ GlobalBuild(t) \/ GlobalBuildNameless(t) \/ LoggerExist(t)
    BY <2>1, StutterStep DEF LocalBuild, GlobalBuild, GlobalBuildNameless, LoggerExist, threads, state
  <2>2. CASE Insert(t)
    <3>1. held[t] \in Logger /\ UNCHANGED <<asked, answer>>
      BY <2>2 DEF Insert, IInv, Types, HoldsLogger
    <3>2. CASE Holders(held[t].name) = {}
      <4>1. loggers' = loggers \cup {held[t]}
        BY <2>2, <3>2 DEF Insert
      <4> QED
        BY <3>1, <3>2, <4>1, RegisterStep
    <3>3. CASE Holders(held[t].name) # {}
      <4>1. loggers' = loggers
        BY <2>2, <3>3 DEF Insert
      <4> QED
        BY <3>1, <4>1, StutterStep
    <3> QED
      BY <3>2, <3>3
  <2> QED
    BY <1>3, <2>1, <2>2 DEF Build
<1>4. ASSUME NEW t \in Threads, Ask(t)
      PROVE  [Directory!Next]_(Directory!vars)
  <2>1. CASE \E name \in setup.names : GetLogger(t, name)
    <3>1. setup.names \subseteq Names
      BY RegistryAssumption DEF IInv, Types, TypeOK
    <3>2. PICK name \in setup.names : GetLogger(t, name)
      BY <2>1
    <3>3. asked' = [asked EXCEPT ![t] = name] /\ UNCHANGED <<loggers, answer>>
      BY <3>2 DEF GetLogger, state
    <3> QED
      BY <3>1, <3>3, AskStep
  <2>2. CASE RootLogger(t) \/ ReadRoot(t)
    BY <2>2, StutterStep DEF RootLogger, ReadRoot, state
  <2>3. CASE FindNothing(t)
    BY <2>3, AnswerStep DEF FindNothing, state
  <2>4. CASE Find(t)
    <3>1. PICK l \in Holders(asked[t]) : answer' = [answer EXCEPT ![t] = l]
      BY <2>4 DEF Find
    <3>2. l \in Logger /\ Holders(asked[t]) # {} /\ UNCHANGED <<loggers, asked>>
      BY <2>4, <3>1 DEF Find, Holders, state, IInv, Types, TypeOK
    <3> QED
      BY <3>1, <3>2, AnswerStep
  <2> QED
    BY <1>4, <2>1, <2>2, <2>3, <2>4 DEF Ask
<1>5. ASSUME NEW t \in Threads, Instance(t)
      PROVE  [Directory!Next]_(Directory!vars)
  <2>1. CASE FirstUse(t) \/ GetInstance(t)
    BY <2>1, StutterStep DEF FirstUse, GetInstance, threads, state
  <2>2. CASE LoggerManager(t)
    <3>1. loggers = {}
      BY <2>2, Constants DEF LoggerManager, IInv, Managed, Types, TypeOK
    <3>2. loggers' = loggers \cup {Root} /\ Holders(Root.name) = {} /\ UNCHANGED <<asked, answer>>
      BY <2>2, <3>1 DEF LoggerManager, Holders, threads
    <3> QED
      BY <3>2, RegisterStep, Constants
  <2> QED
    BY <1>5, <2>1, <2>2 DEF Instance
<1> QED
  BY <1>1, <1>2, <1>3, <1>4, <1>5 DEF Next

THEOREM ImplementsDirectory == Spec => DirectorySpec
<1>1. Init => Directory!Init
  BY NamesOfLoggers, Constants DEF Init, Directory!Init
<1> QED
  BY <1>1, Invariance, DirectoryStep, PTL DEF Spec, DirectorySpec, Directory!Spec
=============================================================================
