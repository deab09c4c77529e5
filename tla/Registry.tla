------------------------------ MODULE Registry ------------------------------
(***************************************************************************)
(* LoggerManager and the builders that feed it (logger.hpp): threads that  *)
(* configure a builder, build loggers with it, and look loggers up.        *)
(*                                                                         *)
(* The manager is constructed by the first thread that needs it, while the *)
(* others wait (a function-local static).  A critical section of mtx_ is   *)
(* one step; AddLogger has two of them.  A failed assertion ends the       *)
(* program: fault names it, and nothing happens afterwards.                *)
(***************************************************************************)
EXTENDS Formatter, PatternGrammar

CONSTANTS
  Threads,    \* threads of the program
  Manager,    \* stands for LoggerManager as the maker of root_logger_
  Null,       \* the empty Logger::ptr
  Names,      \* names of loggers, those of the code and "" among them
  Grammar,    \* patterns as PatternGrammar has them, some of which are passed
  Setups,     \* programs: the threads that run, what they may pass, and how often
              \* each calls Build and BuildLoggerSink
  MaxBuilds   \* bound: calls of Build per thread

(* A logger is known by who made it and by its name.                       *)
Logger == [by : Threads \cup {Manager}, no : 0 .. MaxBuilds, name : Names]
Root == [by |-> Manager, no |-> 0, name |-> "default"]

ASSUME RegistryAssumption ==
  /\ Manager \notin Threads
  /\ {"default", "sync_logger", ""} \subseteq Names
  /\ Null \notin Logger \cup Threads
  /\ MaxBuilds \in Nat
  /\ \A s \in Setups :
       s.threads \subseteq Threads /\ s.names \subseteq Names /\ s.builds \in 0 .. MaxBuilds

(* What is passed is spelled by Grammar, all of it or up to a place where  *)
(* no spelling goes on.                                                    *)
ASSUME GrammarAssumption ==
  /\ \A g \in Grammar : WellFormed(g)
  /\ DefaultPattern \in {Spell(g) : g \in Grammar}
  /\ \A s \in Setups : s.patterns \subseteq Seq(Characters)
  /\ \A s \in Setups : \A p \in s.patterns : \E g \in Grammar :
       LET spelled == Spell(g)
       IN IsPrefix(spelled, p) /\ (p = spelled \/ Broken(SubSeq(p, Len(spelled) + 1, Len(p))))

VARIABLES
  setup,    \* the program, an element of Setups
  builder,  \* the LoggerBuilder each thread has, and how many sinks it was given
  pc,       \* what each thread is doing
  held,     \* the logger each thread has in hand
  asked,    \* the name each thread looks up, or looked up last
  manager,  \* the static object of GetInstance: none, building or ready
  constructing,  \* the thread in the constructor of LoggerManager, or Null
  root,     \* root_logger_
  loggers,  \* loggers_, as the set of its values: a value has its key as name
  parts,    \* formatter_ and sinks_ of every logger, and what it was built from
  answer,   \* the last answer each thread got from GetLogger
  builds,   \* how often each thread has called Build
  seen,     \* history: all loggers GetLogger has returned
  known,    \* history: the names whose registering Build has returned
  fault     \* the failed assertion, or "none"

threads == <<pc, held, asked>>
state == <<manager, constructing, root, loggers>>
history == <<seen, known>>
vars == <<setup, builder, threads, state, parts, answer, builds, history, fault>>

NoPattern == <<"no", "formatter">>
NewBuilder(kind) ==
  [kind |-> kind, name |-> "sync_logger", formatter |-> NoPattern, sinks |-> <<>>, given |-> 0]
NoParts == [formatter |-> NoPattern, sinks |-> <<>>, kind |-> "none", given |-> 0]

(* A sink is known by its place among those a builder was given; 0 is the  *)
(* StdoutSink that Build adds.                                             *)
Stdout == 0
Kinds == {"none", "local", "global"}
SinkLists == Seq(Nat)
Patterns == {NoPattern, DefaultPattern} \cup UNION {s.patterns : s \in Setups}
Builders == [kind : Kinds, name : Names, formatter : Patterns, sinks : SinkLists, given : Nat]
Parts == [formatter : Patterns, sinks : SinkLists, kind : Kinds, given : Nat]

(* The variables range over the values the code gives them.                *)
TypeOK ==
  /\ setup \in Setups
  /\ builder \in [Threads -> Builders]
  /\ pc \in [Threads -> {"idle", "build", "get", "root",
                         "exist", "insert", "find", "read"}]
  /\ held \in [Threads -> Logger \cup {Null}]
  /\ asked \in [Threads -> Names]
  /\ manager \in {"none", "building", "ready"}
  /\ constructing \in Threads \cup {Null}
  /\ root \in {Null, Root}
  /\ loggers \subseteq Logger
  /\ parts \in [Logger -> Parts]
  /\ answer \in [Threads -> Logger \cup {Null}]
  /\ builds \in [Threads -> 0 .. MaxBuilds]
  /\ seen \subseteq Logger
  /\ known \subseteq Names
  /\ fault \in {"none", "pattern", "name"}

Init ==
  /\ setup \in Setups
  /\ builder = [t \in Threads |-> NewBuilder("none")]
  /\ pc = [t \in Threads |-> "idle"]
  /\ held = [t \in Threads |-> Null]
  /\ asked = [t \in Threads |-> "default"]
  /\ manager = "none"
  /\ constructing = Null
  /\ root = Null
  /\ loggers = {}
  /\ parts = [l \in Logger |-> NoParts]
  /\ answer = [t \in Threads |-> Null]
  /\ builds = [t \in Threads |-> 0]
  /\ seen = {}
  /\ known = {}
  /\ fault = "none"

Idle(t) == t \in setup.threads /\ pc[t] = "idle" /\ fault = "none"
Goto(t, place) == pc' = [pc EXCEPT ![t] = place]

-----------------------------------------------------------------------------
(* Configuring a builder, which no other thread uses.                      *)

CreateBuilder(t, kind) ==
  /\ Idle(t) /\ builder[t].kind = "none"
  /\ builder' = [builder EXCEPT ![t] = NewBuilder(kind)]
  /\ UNCHANGED <<setup, threads, state, parts, answer, builds, history, fault>>

BuildLoggerName(t, name) ==
  /\ Idle(t) /\ builder[t].kind # "none"
  /\ builder' = [builder EXCEPT ![t].name = name]
  /\ UNCHANGED <<setup, threads, state, parts, answer, builds, history, fault>>

(* Called once per builder: a bound.                                       *)
BuildLoggerFormatter(t, pattern) ==
  /\ Idle(t) /\ builder[t].kind # "none" /\ builder[t].formatter = NoPattern
  /\ IF Accepted(pattern)
     THEN /\ builder' = [builder EXCEPT ![t].formatter = pattern]
          /\ UNCHANGED fault
     ELSE /\ fault' = "pattern"
          /\ UNCHANGED builder
  /\ UNCHANGED <<setup, threads, state, parts, answer, builds, history>>

BuildLoggerSink(t) ==
  /\ Idle(t) /\ builder[t].kind # "none" /\ builder[t].given < setup.sinks
  /\ builder' = [builder EXCEPT ![t].given = @ + 1,
                                ![t].sinks = Append(@, builder[t].given + 1)]
  /\ UNCHANGED <<setup, threads, state, parts, answer, builds, history, fault>>

-----------------------------------------------------------------------------
(* Build.  Both builders keep the default formatter they create.  Only the *)
(* local one keeps the default sink: GlobalLoggerBuilder drops its own.    *)

WithFormatter(b) ==
  [b EXCEPT !.formatter = IF @ = NoPattern THEN DefaultPattern ELSE @]
WithSink(b) ==
  [b EXCEPT !.sinks = IF @ = <<>> THEN <<Stdout>> ELSE @]

Product(t, name) == [by |-> t, no |-> builds[t] + 1, name |-> name]
PartsOf(b) ==
  [formatter |-> b.formatter, sinks |-> b.sinks, kind |-> b.kind, given |-> b.given]
MakeAndKeep(t, b, kept) ==
  /\ builder' = [builder EXCEPT ![t] = kept]
  /\ builds' = [builds EXCEPT ![t] = @ + 1]
  /\ parts' = [parts EXCEPT ![Product(t, b.name)] = PartsOf(b)]
  /\ held' = [held EXCEPT ![t] = Product(t, b.name)]
Make(t, b) == MakeAndKeep(t, b, b)

(* The manager never hears of a local logger.                              *)
LocalBuild(t) ==
  /\ Idle(t) /\ builder[t].kind = "local" /\ builds[t] < setup.builds
  /\ Make(t, WithSink(WithFormatter(builder[t])))
  /\ UNCHANGED <<setup, pc, asked, state, answer, history, fault>>

(* A slip for the run to find: the sinks are moved into the logger, so the *)
(* builder has none for the next one.                                      *)
GlobalBuildMoves(t) ==
  /\ Idle(t) /\ builder[t].kind = "global" /\ builds[t] < setup.builds
  /\ builder[t].name # ""
  /\ LET b == WithFormatter(builder[t])
     IN  MakeAndKeep(t, b, [b EXCEPT !.sinks = <<>>])
  /\ Goto(t, "build")
  /\ UNCHANGED <<setup, asked, state, answer, history, fault>>

GlobalBuild(t) ==
  /\ Idle(t) /\ builder[t].kind = "global" /\ builds[t] < setup.builds
  /\ builder[t].name # ""
  /\ Make(t, WithFormatter(builder[t]))
  /\ Goto(t, "build")
  /\ UNCHANGED <<setup, asked, state, answer, history, fault>>

GlobalBuildNameless(t) ==
  /\ Idle(t) /\ builder[t].kind = "global" /\ builds[t] < setup.builds
  /\ builder[t].name = ""
  /\ fault' = "name"
  /\ UNCHANGED <<setup, builder, threads, state, parts, answer, builds, history>>

(* GetLogger and RootLogger of xqlog.hpp.                                  *)
GetLogger(t, name) ==
  /\ Idle(t)
  /\ asked' = [asked EXCEPT ![t] = name]
  /\ Goto(t, "get")
  /\ UNCHANGED <<setup, builder, held, state, parts, answer, builds, history, fault>>

RootLogger(t) ==
  /\ Idle(t)
  /\ Goto(t, "root")
  /\ UNCHANGED <<setup, builder, held, asked, state, parts, answer, builds, history, fault>>

-----------------------------------------------------------------------------
(* GetInstance.                                                            *)

InGetInstance(t) == pc[t] \in {"build", "get", "root"} /\ constructing # t /\ fault = "none"

FirstUse(t) ==
  /\ InGetInstance(t) /\ manager = "none"
  /\ manager' = "building"
  /\ constructing' = t
  /\ UNCHANGED <<setup, builder, threads, root, loggers, parts, answer, builds, history, fault>>

(* A slip for the run to find: root_logger_ is inserted before it is set.  *)
LoggerManagerEarly(t) ==
  /\ constructing = t /\ fault = "none"
  /\ manager' = "ready"
  /\ constructing' = Null
  /\ root' = Root
  /\ loggers' = loggers \cup {root}
  /\ parts' = [parts EXCEPT ![Root] = PartsOf(WithSink(WithFormatter(NewBuilder("local"))))]
  /\ UNCHANGED <<setup, builder, threads, answer, builds, history, fault>>

(* A LocalLoggerBuilder makes root_logger_, which is inserted at once.     *)
LoggerManager(t) ==
  /\ constructing = t /\ fault = "none"
  /\ manager' = "ready"
  /\ constructing' = Null
  /\ root' = Root
  /\ loggers' = loggers \cup {Root}
  /\ parts' = [parts EXCEPT ![Root] = PartsOf(WithSink(WithFormatter(NewBuilder("local"))))]
  /\ UNCHANGED <<setup, builder, threads, answer, builds, history, fault>>

(* The others wait until the object is complete.                           *)
GetInstance(t) ==
  /\ InGetInstance(t) /\ manager = "ready"
  /\ Goto(t, CASE pc[t] = "build" -> "exist"
               [] pc[t] = "get" -> "find"
               [] OTHER -> "read")
  /\ UNCHANGED <<setup, builder, held, asked, state, parts, answer, builds, history, fault>>

-----------------------------------------------------------------------------
(* AddLogger.                                                              *)

Holders(name) == {l \in loggers : l.name = name}
BuildReturns(t) ==
  /\ Goto(t, "idle")
  /\ known' = known \cup {held[t].name}

(* A slip for the run to find: the test the wrong way round.               *)
LoggerExistNegated(t) ==
  /\ pc[t] = "exist" /\ fault = "none"
  /\ IF Holders(held[t].name) = {}
     THEN BuildReturns(t)
     ELSE Goto(t, "insert") /\ UNCHANGED known
  /\ UNCHANGED <<setup, builder, held, asked, state, parts, answer, builds, seen, fault>>

LoggerExist(t) ==
  /\ pc[t] = "exist" /\ fault = "none"
  /\ IF Holders(held[t].name) # {}
     THEN BuildReturns(t)
     ELSE Goto(t, "insert") /\ UNCHANGED known
  /\ UNCHANGED <<setup, builder, held, asked, state, parts, answer, builds, seen, fault>>

(* A slip for the run to find: an assignment through operator[] instead of *)
(* insert, which trusts the test.                                          *)
Assign(t) ==
  /\ pc[t] = "insert" /\ fault = "none"
  /\ loggers' = (loggers \ Holders(held[t].name)) \cup {held[t]}
  /\ BuildReturns(t)
  /\ UNCHANGED <<setup, builder, held, asked, manager, constructing, root, parts, answer, builds, seen, fault>>

(* insert leaves a name alone that another thread has registered since.    *)
Insert(t) ==
  /\ pc[t] = "insert" /\ fault = "none"
  /\ loggers' = IF Holders(held[t].name) = {} THEN loggers \cup {held[t]} ELSE loggers
  /\ BuildReturns(t)
  /\ UNCHANGED <<setup, builder, held, asked, manager, constructing, root, parts, answer, builds, seen, fault>>

-----------------------------------------------------------------------------
(* GetLogger and RootLogger of the manager.                                *)

(* A slip for the run to find: the iterator is compared with itself.       *)
FindNothingAlways(t) ==
  /\ pc[t] = "find" /\ fault = "none"
  /\ answer' = [answer EXCEPT ![t] = Null]
  /\ Goto(t, "idle")
  /\ UNCHANGED <<setup, builder, held, asked, state, parts, builds, history, fault>>

FindNothing(t) ==
  /\ pc[t] = "find" /\ fault = "none" /\ Holders(asked[t]) = {}
  /\ answer' = [answer EXCEPT ![t] = Null]
  /\ Goto(t, "idle")
  /\ UNCHANGED <<setup, builder, held, asked, state, parts, builds, history, fault>>

Find(t) ==
  /\ pc[t] = "find" /\ fault = "none"
  /\ \E l \in Holders(asked[t]) :
       /\ answer' = [answer EXCEPT ![t] = l]
       /\ seen' = seen \cup {l}
  /\ Goto(t, "idle")
  /\ UNCHANGED <<setup, builder, held, asked, state, parts, builds, known, fault>>

(* Reads root_logger_ without the lock; nobody writes it any more.         *)
ReadRoot(t) ==
  /\ pc[t] = "read" /\ fault = "none"
  /\ held' = [held EXCEPT ![t] = root]
  /\ Goto(t, "idle")
  /\ UNCHANGED <<setup, builder, asked, state, parts, answer, builds, history, fault>>

Configure(t) ==
  \/ \E kind \in {"local", "global"} : CreateBuilder(t, kind)
  \/ \E name \in setup.names : BuildLoggerName(t, name)
  \/ \E pattern \in setup.patterns : BuildLoggerFormatter(t, pattern)
  \/ BuildLoggerSink(t)

Build(t) ==
  \/ LocalBuild(t)
  \/ GlobalBuild(t)
  \/ GlobalBuildNameless(t)
  \/ LoggerExist(t)
  \/ Insert(t)

Ask(t) ==
  \/ \E name \in setup.names : GetLogger(t, name)
  \/ RootLogger(t)
  \/ FindNothing(t)
  \/ Find(t)
  \/ ReadRoot(t)

Instance(t) == FirstUse(t) \/ LoggerManager(t) \/ GetInstance(t)

Next == \E t \in Threads : Configure(t) \/ Build(t) \/ Ask(t) \/ Instance(t)

Spec == Init /\ [][Next]_vars

-----------------------------------------------------------------------------
(* Past GetInstance, a thread finds a complete manager: the default logger *)
(* is there and registered, although the thread may not have built it      *)
(* (logger.hpp:264-269, 298-303).                                          *)
ManagerComplete ==
  \A t \in Threads :
    pc[t] \in {"exist", "insert", "find", "read"} => root = Root /\ Root \in loggers

(* Whatever two threads look up, whenever they do, one name leads to one   *)
(* logger, although several builders of the name may be between the two    *)
(* critical sections of AddLogger (logger.hpp:280-293).                    *)
LookupsAgree ==
  \A k, l \in seen \cup loggers : k.name = l.name => k = l

(* When Build of a global logger has returned, its name can be looked up,  *)
(* be it that the manager refused this logger for an earlier one           *)
(* (logger.hpp:332-333).                                                   *)
BuiltIsFound == \A name \in known : Holders(name) # {}

(* A logger that others can get hold of writes records with a pattern the  *)
(* constructor of its formatter accepted, and to every sink its builder    *)
(* was given before, be it for this logger or for an earlier one.  It has  *)
(* no sink at all only if a GlobalLoggerBuilder was given none             *)
(* (logger.hpp:226-229, 245-258, 314-330).                                 *)
AcceptedPatterns == {p \in Patterns : Accepted(p)}
HasGiven(p) == 1 .. p.given \subseteq {p.sinks[i] : i \in DOMAIN p.sinks}
MayBeMute(p) == p.kind = "global" /\ p.given = 0
LoggersComplete ==
  \A l \in loggers \cup ({held[t] : t \in Threads} \ {Null}) :
    /\ parts[l].kind # "none"
    /\ parts[l].formatter \in AcceptedPatterns
    /\ HasGiven(parts[l])
    /\ parts[l].sinks # <<>> \/ MayBeMute(parts[l])

(* A formatter exists only for a pattern of the grammar, and what it       *)
(* writes is what the pattern means up to its last directive: literal text *)
(* behind that is lost (formatter.hpp:129-176).                            *)
WellRead ==
  {Spell(segs) : segs \in
     {g \in Grammar : Format(Spell(g)) = Meaning(UpToLastDirective(g))}}
FormatsAsMeant ==
  \A t \in Threads : builder[t].formatter \in WellRead \cup {NoPattern}

(* Registering and looking up are atomic: loggers_ behaves like a          *)
(* directory in which the first logger of a name keeps it.                 *)
Directory == INSTANCE NameDirectory
  WITH Asker <- Threads, Nobody <- Null, bound <- loggers
DirectorySpec == Directory!Spec
=============================================================================
