--------------------------- MODULE LinuxPipeline ---------------------------
(***************************************************************************)
(* The Linux way of a crash, from one end to the other: build_linux.sh     *)
(* publishes a library and its symbols, run.sh runs an example with that   *)
(* library, and walk_stack.py walks the minidump with the symbols a user   *)
(* has put beside it (README.md:248-252).  The three share files, without  *)
(* a lock; a user may fetch the symbols in the middle of a build.          *)
(*                                                                         *)
(* The script sees of a build what was fetched, and the build sees nothing *)
(* of the script: their steps commute, so that it is enough to let the     *)
(* script run while no build does.                                         *)
(***************************************************************************)
EXTENDS Integers

CONSTANT MaxEdits

VARIABLES
  src, obj, sym, lib, example, kept, pc, status,     \* BuildLinux
  dump,       \* the build of libcrash.so that the minidump names
  released,   \* history: the symbols beside it were fetched while the last
              \* build had exited 0: the library it has published
  cwd, store, walkPc, todo, cur, walkStatus          \* WalkStack

build == <<src, obj, sym, lib, example, kept, pc, status>>
walk == <<cwd, store, walkPc, todo, cur, walkStatus>>
vars == <<build, dump, released, walk>>

Build == INSTANCE BuildLinux
None == Build!None
Revisions == Build!Revisions

Module == "libcrash.so"
SymFile == "libcrash.so.sym"
Holding(revision, body) == [mod |-> Module, id |-> revision, body |-> body]

Walk == INSTANCE WalkStack WITH
  Walkers <- {"user"}, Modules <- {Module}, Ids <- Revisions,
  Contents <- {Holding(r, body) : r \in Revisions, body \in {"whole", "torn", "short"}},
  SymNames <- {SymFile}, SymFileOf <- [m \in {Module} |-> SymFile],
  Cut <- "libcrash.s", Concurrent <- FALSE,
  sym <- store, pc <- walkPc, status <- walkStatus, alone <- "user"

Walking == walkPc["user"] # "idle"

TypeOK ==
  /\ Build!TypeOK /\ Walk!TypeOK
  /\ {dump, released} \subseteq Revisions \cup {None}

Init == Build!Init /\ Walk!Init /\ dump = None /\ released = None

\* A command of build_linux.sh, or an edit.
BuildStep == ~Walking /\ Build!Next /\ UNCHANGED <<dump, released, walk>>

\* run.sh: the example crashes in the library that is published, if both can
\* be loaded, and its minidump is put beside the symbols.
Crash ==
  /\ ~Walking
  /\ lib \in Revisions /\ example \in Revisions
  /\ dump' = lib
  /\ UNCHANGED <<build, released, walk>>

\* What a copy of symbols/linux_x64/libcrash.so.sym may be: a file that is
\* being dumped may end before its MODULE line or behind it, and one dumped
\* from a stripped library has no records behind it.
Copies ==
  CASE sym.file \in Revisions -> {Holding(sym.file, IF sym.lines THEN "whole" ELSE "torn")}
    [] sym.file = Build!Torn -> {Holding(r, body) : r \in Revisions, body \in {"torn", "short"}}
    [] OTHER -> {}

\* The symbols are put beside the minidump, at any moment of a build.
FetchSymbols ==
  /\ \E copy \in Copies : Walk!Place(SymFile, copy)
  /\ released' = IF pc = "idle" /\ status = "ok" /\ ~kept THEN lib ELSE None
  /\ UNCHANGED <<build, dump>>

\* walk_stack.py is started, and a step of it.
StartWalk == pc = "idle" /\ dump # None /\ Walk!Start("user") /\ UNCHANGED <<build, dump, released>>
WalkStep == Walk!Script("user") /\ UNCHANGED <<build, dump, released>>

Next == BuildStep \/ Crash \/ FetchSymbols \/ StartWalk \/ WalkStep

Spec == Init /\ [][Next]_vars
-----------------------------------------------------------------------------
\* What minidump_stackwalk finds for the library that has crashed.
Found == Walk!Lookup(Module, dump)

\* Whatever builds have failed, whatever was fetched from the middle of one
\* and whatever walks were broken off: the frames of a crash get the lines of
\* the very build that has crashed, or none.
LinesAreOfTheCrash ==
  walkPc["user"] = "walk" /\ Found.body \in {"whole", "torn"} => Found.id = dump

\* A crash in the library that a build has published with exit status 0 is
\* symbolicated, if the symbols are fetched before another build begins.
\* (If rm has failed before, make may have kept a stripped library.)
ReleasedCrashesGetLines ==
  walkPc["user"] = "walk" /\ released = dump => Found = Holding(dump, "whole")
=============================================================================
