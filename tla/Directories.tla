---------------------------- MODULE Directories ----------------------------
(***************************************************************************)
(* Util::File::Path and CreateDirectory (util.hpp), as the constructors of *)
(* the file sinks use them: several threads construct sinks at once, and   *)
(* their paths have directories in common.                                 *)
(*                                                                         *)
(* A path is a sequence of tokens: "/", "\\", and what stands between      *)
(* them.  CreateDirectory takes both for separators, the kernel only "/".  *)
(* Each call into the kernel is one step.                                  *)
(***************************************************************************)
EXTENDS Naturals, SequencesExt

CONSTANTS
  Makers,    \* threads that construct a sink
  Root,      \* the directories there are at first, the working directory in it
  Cwd        \* the working directory

ASSUME DirectoriesAssumption ==
  /\ <<>> \in Root /\ Cwd \in Root
  /\ \A d \in Root : d \in Seq(Seq(STRING)) /\ (d # <<>> => Front(d) \in Root)

Separators == {"/", "\\"}

(* No "\\" stands before a "/", where CreateDirectory would pass over it.   *)
Plain(p) == \A i \in 1 .. Len(p) - 1 : p[i] = "\\" => p[i + 1] # "/"

VARIABLES
  dirs,      \* the directories there are, each as the names that lead to it
  pathname,  \* the argument of CreateDirectory, of each maker
  maker,     \* where each maker is in it
  cut,       \* the pos it has come to
  refused    \* history: the makers the kernel has refused a directory

directoryVars == <<dirs, pathname, maker, cut, refused>>

-----------------------------------------------------------------------------
(* The kernel's reading of a path.                                         *)

Enter(at, name) ==
  CASE name \in {<<>>, <<".">>} -> at
    [] name = <<"..">> -> IF at = <<>> THEN <<>> ELSE Front(at)
    [] OTHER -> Append(at, name)

(* Where the kernel is after so many tokens: the directory it stands in    *)
(* and the name it has read since the last "/".                            *)
Begin(p) == IF p # <<>> /\ p[1] = "/" THEN <<>> ELSE Cwd
Walk(p) ==
  LET walk[i \in 0 .. Len(p)] ==
        IF i = 0 THEN [at |-> Begin(p), name |-> <<>>]
        ELSE LET before == walk[i - 1]
             IN  IF p[i] = "/" THEN [at |-> Enter(before.at, before.name), name |-> <<>>]
                 ELSE [before EXCEPT !.name = Append(@, p[i])]
  IN walk

(* The directory that the first i tokens name, and those on the way to it. *)
Reached(p, i) == Enter(Walk(p)[i].at, Walk(p)[i].name)
Slashes(p) == {i \in DOMAIN p : p[i] = "/"}
Passable(p) == \A i \in Slashes(p) : Reached(p, i - 1) \in dirs
Target(p) == Reached(p, Len(p))

(* stat, and mkdir of a path that does not end in a separator.             *)
Exists(p) == p # <<>> /\ Passable(p) /\ Target(p) \in dirs
Makeable(p) == Passable(p) /\ Target(p) \notin dirs

(* The directory a file of that name is opened in.                         *)
Parent(filename) == SubSeq(filename, 1, SelectLastInSeq(filename, LAMBDA tok : tok = "/"))
CanOpen(filename) == Parent(filename) = <<>> \/ Exists(Parent(filename))

-----------------------------------------------------------------------------
(* The part of a path that names a directory: up to its last separator.    *)
Path(filename) ==
  SubSeq(filename, 1, SelectLastInSeq(filename, LAMBDA tok : tok \in Separators))

SubPath(t, pos) == SubSeq(pathname[t], 1, pos - 1)

(* The places the loop stops at: separators, but none that follows another *)
(* or begins the path, and none behind a leading "." or "..".  The paths   *)
(* passed are what Path returns, so nothing is left behind the last one.   *)
Cuts(t) ==
  {pos \in DOMAIN pathname[t] :
     /\ pathname[t][pos] \in Separators
     /\ pos > 1 /\ pathname[t][pos - 1] \notin Separators
     /\ SubPath(t, pos) \notin {<<".">>, <<"..">>}}
LaterCuts(t) == {pos \in Cuts(t) : pos > cut[t]}

(* index = pos + 1, and the search for the next separator.                 *)
Advance(t) ==
  IF LaterCuts(t) = {}
  THEN maker' = [maker EXCEPT ![t] = "made"] /\ UNCHANGED cut
  ELSE /\ cut' = [cut EXCEPT ![t] = CHOOSE pos \in LaterCuts(t) :
                                      \A q \in LaterCuts(t) : pos <= q]
       /\ maker' = [maker EXCEPT ![t] = "sub"]

CreateDirectory(t, p) ==
  /\ maker[t] = "none"
  /\ pathname' = [pathname EXCEPT ![t] = p]
  /\ maker' = [maker EXCEPT ![t] = "whole"]
  /\ UNCHANGED <<dirs, cut, refused>>

LookWhole(t) ==
  /\ maker[t] = "whole"
  /\ IF Exists(pathname[t])
     THEN maker' = [maker EXCEPT ![t] = "made"] /\ UNCHANGED cut
     ELSE Advance(t)
  /\ UNCHANGED <<dirs, pathname, refused>>

LookSub(t) ==
  /\ maker[t] = "sub"
  /\ IF Exists(SubPath(t, cut[t]))
     THEN Advance(t)
     ELSE maker' = [maker EXCEPT ![t] = "mkdir"] /\ UNCHANGED cut
  /\ UNCHANGED <<dirs, pathname, refused>>

(* A slip for the run to find: a mkdir that fails ends the loop.           *)
MkdirOrReturn(t) ==
  /\ maker[t] = "mkdir"
  /\ IF Makeable(SubPath(t, cut[t]))
     THEN dirs' = dirs \cup {Target(SubPath(t, cut[t]))} /\ Advance(t)
     ELSE maker' = [maker EXCEPT ![t] = "made"] /\ UNCHANGED <<dirs, cut>>
  /\ UNCHANGED <<pathname, refused>>

(* mkdir, whose result nobody looks at: another thread may have been first.*)
Mkdir(t) ==
  /\ maker[t] = "mkdir"
  /\ dirs' = IF Makeable(SubPath(t, cut[t]))
             THEN dirs \cup {Target(SubPath(t, cut[t]))} ELSE dirs
  /\ Advance(t)
  /\ UNCHANGED <<pathname, refused>>

(* It may also fail for a reason of its own, such as missing permissions,  *)
(* and the loop goes on.                                                   *)
MkdirFails(t) ==
  /\ maker[t] = "mkdir" /\ Makeable(SubPath(t, cut[t]))
  /\ refused' = refused \cup {t}
  /\ Advance(t)
  /\ UNCHANGED <<dirs, pathname>>

DirectoryInit ==
  /\ dirs = Root
  /\ pathname = [t \in Makers |-> <<>>]
  /\ maker = [t \in Makers |-> "none"]
  /\ cut = [t \in Makers |-> 0]
  /\ refused = {}

DirectoryStep(t) == LookWhole(t) \/ LookSub(t) \/ Mkdir(t) \/ MkdirFails(t)

DirectoryTypeOK ==
  /\ Root \subseteq dirs
  /\ \A d \in dirs : d = <<>> \/ Front(d) \in dirs
  /\ maker \in [Makers -> {"none", "whole", "sub", "mkdir", "made"}]
  /\ refused \subseteq Makers
  /\ \A t \in Makers : cut[t] \in 0 .. Len(pathname[t])

(* A thread that comes back from CreateDirectory can open a file there,    *)
(* whatever other threads create at the same time, whoever of two comes    *)
(* second with a mkdir, and whatever another one is refused, unless it was *)
(* refused a directory itself or its path is not plain (util.hpp:45-82).   *)
Unhindered(t) == t \notin refused /\ Plain(pathname[t])
DirectoryThere ==
  \A t \in Makers :
    maker[t] = "made" /\ Unhindered(t) => pathname[t] = <<>> \/ CanOpen(pathname[t])
=============================================================================
