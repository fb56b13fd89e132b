----------------------------- MODULE BuildLinux -----------------------------
(***************************************************************************)
(* build_linux.sh: one run of the script after another over a source tree  *)
(* that the developer keeps editing.                                       *)
(*                                                                         *)
(* The script publishes three files out of build/Linux:                    *)
(*   sym      symbols/linux_x64/libcrash.so.sym   (dump_syms, before strip)*)
(*   lib      libs/libcrash.so                    (cp, after strip)        *)
(*   example  Linux/CrashExample                  (cp)                     *)
(* A build is named by the number of the source revision it compiled,      *)
(* which stands for the build id dump_syms puts into the MODULE line.      *)
(* Lines 6-14 are one && list, so a command that fails ends the script     *)
(* with a failure status and leaves everything done so far in place.  rm   *)
(* on line 3 stands outside the list: its failure is not looked at.        *)
(* Redirection and cp truncate their target before they write it, so each  *)
(* is two steps and a failure (or ^C) between them leaves a torn file.     *)
(***************************************************************************)
EXTENDS Integers, TLAPS

CONSTANT MaxEdits  \* bound: how many times the source is edited

ASSUME MaxEditsIsNat == MaxEdits \in Nat

Revisions == 1 .. MaxEdits + 1
None == 0          \* the file does not exist
Torn == -1         \* the file is truncated or half written
Files == Revisions \cup {None, Torn}

Commands == {"rm", "configure", "makeLib", "makeExample", "dumpOpen",
             "dumpWrite", "strip", "cpLibOpen", "cpLibWrite",
             "cpExampleOpen", "cpExampleWrite"}

VARIABLES
  src,      \* the revision of the source tree
  obj,      \* build/Linux: [lib, stripped, example]
  sym,      \* symbols/linux_x64/libcrash.so.sym: [file, lines]
  lib,      \* libs/libcrash.so
  example,  \* Linux/CrashExample
  kept,     \* history: rm left the old build/Linux in place in this run
  pc,       \* the command about to run, "idle" between two runs
  status    \* exit status of the last run: "none", "ok" or "failed"

published == <<sym, lib, example>>
vars == <<src, obj, sym, lib, example, kept, pc, status>>

NoObjects == [lib |-> None, stripped |-> FALSE, example |-> None]

TypeOK ==
  /\ src \in Revisions
  /\ obj \in [lib : Revisions \cup {None}, stripped : BOOLEAN,
              example : Revisions \cup {None}]
  /\ sym \in [file : Files, lines : BOOLEAN]
  /\ lib \in Files
  /\ example \in Files
  /\ kept \in BOOLEAN
  /\ pc \in Commands \cup {"idle"}
  /\ status \in {"none", "ok", "failed"}

Init ==
  /\ src = 1
  /\ obj = NoObjects
  /\ sym = [file |-> None, lines |-> FALSE]
  /\ lib = None
  /\ example = None
  /\ kept = FALSE
  /\ pc = "idle"
  /\ status = "none"

\* The developer saves a change, at any moment of a build or between builds.
Edit ==
  /\ src <= MaxEdits
  /\ src' = src + 1
  /\ UNCHANGED <<obj, published, kept, pc, status>>

Run(from, to) == pc = from /\ pc' = to /\ UNCHANGED <<src, kept, status>>

Start == /\ Run("idle", "rm")
         /\ UNCHANGED <<obj, published>>

\* rm -rf build/Linux; the script goes on whether or not it succeeded, and
\* one that did not may have removed some of the files.
RemoveBuildDir ==
  /\ pc = "rm"
  /\ pc' = "configure"
  /\ \/ obj' = NoObjects /\ kept' = FALSE
     \/ /\ obj' \in {obj, [obj EXCEPT !.example = None],
                     [obj EXCEPT !.lib = None, !.stripped = FALSE]}
        /\ kept' = TRUE
  /\ UNCHANGED <<src, published, status>>

\* mkdir, cd and cmake: nothing this model tells apart changes.
Configure == /\ Run("configure", "makeLib")
             /\ UNCHANGED <<obj, published>>

\* Mutant: a link that was broken off leaves its output behind.
MakeLibHalfLinked ==
  /\ Run("makeLib", "makeExample")
  /\ obj' \in {[obj EXCEPT !.lib = src, !.stripped = FALSE],
              [obj EXCEPT !.lib = Torn, !.stripped = FALSE]}
  /\ UNCHANGED published

\* make links libcrash.so again only if it is older than the source.
MakeLib ==
  /\ Run("makeLib", "makeExample")
  /\ obj' = IF obj.lib = src THEN obj
            ELSE [obj EXCEPT !.lib = src, !.stripped = FALSE]
  /\ UNCHANGED published

\* Mutant: a post-build step strips the library before it is dumped.
MakeExampleStrips ==
  /\ Run("makeExample", "dumpOpen")
  /\ obj' = [obj EXCEPT !.example = src, !.stripped = TRUE]
  /\ UNCHANGED published

MakeExample ==
  /\ Run("makeExample", "dumpOpen")
  /\ obj' = [obj EXCEPT !.example = src]
  /\ UNCHANGED published

\* Mutant: symbols are kept from an earlier dump instead of dumped again.
DumpOpenKeepsOld ==
  /\ pc = "dumpOpen"
  /\ pc' = IF sym.file \in Revisions THEN "strip" ELSE "dumpWrite"
  /\ UNCHANGED <<src, obj, published, kept, status>>

\* "> ../../symbols/linux_x64/libcrash.so.sym" truncates the old symbols.
DumpOpen ==
  /\ Run("dumpOpen", "dumpWrite")
  /\ sym' = [file |-> Torn, lines |-> FALSE]
  /\ UNCHANGED <<obj, lib, example>>

\* Mutant: the && after dump_syms is missing, its failure goes unnoticed.
DumpWriteUnchecked ==
  /\ Run("dumpWrite", "strip")
  /\ sym' \in {sym, [file |-> obj.lib, lines |-> ~obj.stripped]}
  /\ UNCHANGED <<obj, lib, example>>

\* dump_syms writes the MODULE line of the library and, unless the library
\* is stripped already, its FUNC and line records.
DumpWrite ==
  /\ Run("dumpWrite", "strip")
  /\ sym' = [file |-> obj.lib, lines |-> ~obj.stripped]
  /\ UNCHANGED <<obj, lib, example>>

\* strip -s drops the debug sections and keeps the build id.
Strip ==
  /\ Run("strip", "cpLibOpen")
  /\ obj' = [obj EXCEPT !.stripped = TRUE]
  /\ UNCHANGED published

CpLibOpen ==
  /\ Run("cpLibOpen", "cpLibWrite")
  /\ lib' = Torn
  /\ UNCHANGED <<obj, sym, example>>

CpLibWrite ==
  /\ Run("cpLibWrite", "cpExampleOpen")
  /\ lib' = obj.lib
  /\ UNCHANGED <<obj, sym, example>>

CpExampleOpen ==
  /\ Run("cpExampleOpen", "cpExampleWrite")
  /\ example' = Torn
  /\ UNCHANGED <<obj, sym, lib>>

\* The last command with an effect; "cd ../../" then ends the list.
CpExampleWrite ==
  /\ pc = "cpExampleWrite"
  /\ pc' = "idle"
  /\ status' = "ok"
  /\ example' = obj.example
  /\ UNCHANGED <<src, obj, sym, lib, kept>>

\* A command of the && list fails, or the run is interrupted.
Fail ==
  /\ pc \in Commands
  /\ pc' = "idle"
  /\ status' = "failed"
  /\ UNCHANGED <<src, obj, published, kept>>

Next ==
  \/ Edit
  \/ Start \/ RemoveBuildDir \/ Configure \/ MakeLib \/ MakeExample
  \/ DumpOpen \/ DumpWrite \/ Strip
  \/ CpLibOpen \/ CpLibWrite \/ CpExampleOpen \/ CpExampleWrite
  \/ Fail

Spec == Init /\ [][Next]_vars
-----------------------------------------------------------------------------
\* A run that exits 0 has published one build: the library in libs/ is whole
\* and the symbols dumped for it are those of the very same build, although
\* the source may have been edited between any two of the commands.
OkPublishesOneBuild ==
  status = "ok" /\ pc = "idle" =>
    /\ lib \in Revisions
    /\ sym.file = lib
    /\ example \in Revisions

\* Whatever failed and whenever, symbols that are whole are never older than
\* the library users run: lines 9-12 dump first and publish last, so a user
\* never has a library whose symbols are still to come.
SymbolsNeverLag ==
  sym.file \in Revisions /\ lib \in Revisions => sym.file >= lib

\* dump_syms must see the library before strip has taken its debug sections
\* away: a run that exits 0 leaves symbols with line records, unless the rm
\* of line 3 failed and make found the stripped library of an earlier run.
OkSymbolsHaveLines ==
  status = "ok" /\ pc = "idle" /\ ~kept => sym.lines
-----------------------------------------------------------------------------
\* How far the script has come.
AfterMake == pc \in Commands \ {"rm", "configure", "makeLib"}
AfterMakeExample == AfterMake /\ pc # "makeExample"
AfterDump == AfterMakeExample /\ pc \notin {"dumpOpen", "dumpWrite"}
AfterCpLib == pc \in {"cpExampleOpen", "cpExampleWrite"}
Done == pc = "idle" /\ status = "ok"

\* Neither what lies below build/Linux nor what is published is ahead of the
\* source, and no library is published that is newer than the one just made.
NothingAhead ==
  /\ obj.lib <= src
  /\ lib <= src
  /\ AfterMake => lib <= obj.lib

\* What each command finds done when its turn comes.
Progress ==
  /\ AfterMake => obj.lib \in Revisions
  /\ AfterMakeExample => obj.example \in Revisions
  /\ AfterDump => sym.file = obj.lib
  /\ AfterCpLib => lib = obj.lib
  /\ Done => lib \in Revisions /\ sym.file = lib /\ example \in Revisions

\* If rm has done its work the library is not stripped before it is dumped.
NotYetStripped ==
  pc \in {"configure", "makeLib", "makeExample", "dumpOpen", "dumpWrite",
         "strip"} /\ ~kept => ~obj.stripped
LinesDumped == (AfterDump \/ Done) /\ ~kept => sym.lines

\* The first two properties, strengthened so that every step preserves them.
IInv == TypeOK /\ NothingAhead /\ Progress /\ SymbolsNeverLag

USE MaxEditsIsNat DEF Revisions, None, Torn, Files, Commands

\* rm leaves an empty build directory.
LEMMA NoObjectsType ==
  NoObjects \in [lib : Revisions \cup {None}, stripped : BOOLEAN,
                 example : Revisions \cup {None}]
  BY DEF NoObjects

\* Nothing is built or published at first.
LEMMA InitIInv == Init => IInv
<1> SUFFICES ASSUME Init PROVE IInv
  OBVIOUS
<1> USE DEF Init
<1>1. TypeOK
  <2>1. sym \in [file : Files, lines : BOOLEAN] /\ kept \in BOOLEAN
    OBVIOUS
  <2> QED
    BY <2>1, NoObjectsType DEF TypeOK
<1>2. NothingAhead
  BY DEF NothingAhead, AfterMake, NoObjects
<1>3. Progress
  BY DEF Progress, AfterMake, AfterMakeExample, AfterDump, AfterCpLib, Done
<1>4. SymbolsNeverLag
  BY DEF SymbolsNeverLag
<1> QED
  BY <1>1, <1>2, <1>3, <1>4 DEF IInv

\* Every command writes revisions, or leaves a file torn.
LEMMA NextTypeOK == TypeOK /\ [Next]_vars => TypeOK'
<1> SUFFICES ASSUME TypeOK, [Next]_vars PROVE TypeOK'
  OBVIOUS
<1> USE DEF TypeOK, Run, published
<1>1. CASE Edit
  BY <1>1 DEF Edit
<1>2. CASE Start
  BY <1>2 DEF Start
<1>3. CASE RemoveBuildDir
  BY <1>3, NoObjectsType DEF RemoveBuildDir
<1>4. CASE Configure
  BY <1>4 DEF Configure
<1>5. CASE MakeLib
  BY <1>5 DEF MakeLib
<1>6. CASE MakeExample
  BY <1>6 DEF MakeExample
<1>7. CASE DumpOpen
  BY <1>7 DEF DumpOpen
<1>8. CASE DumpWrite
  BY <1>8 DEF DumpWrite
<1>9. CASE Strip
  BY <1>9 DEF Strip
<1>10. CASE CpLibOpen
  BY <1>10 DEF CpLibOpen
<1>11. CASE CpLibWrite
  BY <1>11 DEF CpLibWrite
<1>12. CASE CpExampleOpen
  BY <1>12 DEF CpExampleOpen
<1>13. CASE CpExampleWrite
  BY <1>13 DEF CpExampleWrite
<1>14. CASE Fail
  BY <1>14 DEF Fail
<1>15. CASE UNCHANGED vars
  BY <1>15 DEF vars
<1> QED
  BY <1>1, <1>2, <1>3, <1>4, <1>5, <1>6, <1>7, <1>8, <1>9, <1>10, <1>11,
     <1>12, <1>13, <1>14, <1>15 DEF Next

\* The script's own progress carries the other parts of IInv, one command at
\* a time.
LEMMA NextPublishing ==
  IInv /\ [Next]_vars => NothingAhead' /\ Progress' /\ SymbolsNeverLag'
<1> SUFFICES ASSUME IInv, [Next]_vars
             PROVE  NothingAhead' /\ Progress' /\ SymbolsNeverLag'
  OBVIOUS
<1> USE DEF IInv, TypeOK, Run, published, NothingAhead, Progress, AfterMake,
        AfterMakeExample, AfterDump, AfterCpLib, Done, SymbolsNeverLag
<1>1. CASE Edit
  BY <1>1 DEF Edit
<1>2. CASE Start
  BY <1>2 DEF Start
<1>3. CASE RemoveBuildDir
  <2>1. obj'.lib \in {obj.lib, None}
    <3>1. obj' \in {NoObjects, obj, [obj EXCEPT !.example = None],
                   [obj EXCEPT !.lib = None, !.stripped = FALSE]}
      BY <1>3 DEF RemoveBuildDir
    <3>2. obj \in [lib : Revisions \cup {None}, stripped : BOOLEAN,
                  example : Revisions \cup {None}]
      OBVIOUS
    <3>3. CASE obj' = NoObjects
      BY <3>3 DEF NoObjects
    <3>4. CASE obj' = obj
      BY <3>4
    <3>5. CASE obj' = [obj EXCEPT !.example = None]
      BY ONLY <3>2, <3>5
    <3>6. CASE obj' = [obj EXCEPT !.lib = None, !.stripped = FALSE]
      BY ONLY <3>2, <3>6
    <3> QED
      BY ONLY <3>1, <3>3, <3>4, <3>5, <3>6
  <2>2. pc' = "configure" /\ UNCHANGED <<src, sym, lib, example>>
    BY <1>3 DEF RemoveBuildDir
  <2> QED
    BY <2>1, <2>2
<1>4. CASE Configure
  BY <1>4 DEF Configure
<1>5. CASE MakeLib
  BY <1>5 DEF MakeLib
<1>6. CASE MakeExample
  BY <1>6 DEF MakeExample
<1>7. CASE DumpOpen
  BY <1>7 DEF DumpOpen
<1>8. CASE DumpWrite
  BY <1>8 DEF DumpWrite
<1>9. CASE Strip
  BY <1>9 DEF Strip
<1>10. CASE CpLibOpen
  BY <1>10 DEF CpLibOpen
<1>11. CASE CpLibWrite
  BY <1>11 DEF CpLibWrite
<1>12. CASE CpExampleOpen
  BY <1>12 DEF CpExampleOpen
<1>13. CASE CpExampleWrite
  BY <1>13 DEF CpExampleWrite
<1>14. CASE Fail
  BY <1>14 DEF Fail
<1>15. CASE UNCHANGED vars
  BY <1>15 DEF vars
<1> QED
  BY <1>1, <1>2, <1>3, <1>4, <1>5, <1>6, <1>7, <1>8, <1>9, <1>10, <1>11,
     <1>12, <1>13, <1>14, <1>15 DEF Next

\* IInv holds of build_linux.sh at every moment.
LEMMA Inductive == Spec => []IInv
<1>1. IInv /\ [Next]_vars => IInv'
  BY NextTypeOK, NextPublishing DEF IInv
<1> QED
  BY InitIInv, <1>1, PTL DEF Spec

\* Every file holds a revision of the source, is torn, or is not there.
THEOREM TypeCorrect == Spec => []TypeOK
<1>1. IInv => TypeOK
  BY DEF IInv
<1> QED
  BY Inductive, <1>1, PTL

\* build_linux.sh that exits 0 has published a library and the symbols of that
\* very library, however often the source was edited while it ran, whatever
\* earlier runs have left behind and whether or not rm succeeded.
THEOREM Consistent == Spec => []OkPublishesOneBuild
<1>1. IInv => OkPublishesOneBuild
  BY DEF IInv, Progress, Done, OkPublishesOneBuild
<1> QED
  BY Inductive, <1>1, PTL

\* The published symbols are never those of an older build than the published
\* library, after failures and between two commands too.
THEOREM NeverLag == Spec => []SymbolsNeverLag
<1>1. IInv => SymbolsNeverLag
  BY DEF IInv
<1> QED
  BY Inductive, <1>1, PTL

\* Nothing is stripped at first.
LEMMA InitLines == Init => NotYetStripped /\ LinesDumped
  BY DEF Init, NotYetStripped, LinesDumped, AfterDump, AfterMakeExample,
         AfterMake, Done

\* dump_syms sees the library before strip does, unless rm has failed.
LEMMA NextLines ==
  TypeOK /\ NotYetStripped /\ LinesDumped /\ [Next]_vars =>
    NotYetStripped' /\ LinesDumped'
<1> SUFFICES ASSUME TypeOK, NotYetStripped, LinesDumped, [Next]_vars
             PROVE  NotYetStripped' /\ LinesDumped'
  OBVIOUS
<1> USE DEF TypeOK, NotYetStripped, LinesDumped, AfterDump, AfterMakeExample,
        AfterMake, Done, Run, published
<1>1. CASE Edit
  BY <1>1 DEF Edit
<1>2. CASE Start
  BY <1>2 DEF Start
<1>3. CASE RemoveBuildDir
  BY <1>3 DEF RemoveBuildDir, NoObjects
<1>4. CASE Configure
  BY <1>4 DEF Configure
<1>5. CASE MakeLib
  BY <1>5 DEF MakeLib
<1>6. CASE MakeExample
  BY <1>6 DEF MakeExample
<1>7. CASE DumpOpen
  BY <1>7 DEF DumpOpen
<1>8. CASE DumpWrite
  BY <1>8 DEF DumpWrite
<1>9. CASE Strip
  BY <1>9 DEF Strip
<1>10. CASE CpLibOpen
  BY <1>10 DEF CpLibOpen
<1>11. CASE CpLibWrite
  BY <1>11 DEF CpLibWrite
<1>12. CASE CpExampleOpen
  BY <1>12 DEF CpExampleOpen
<1>13. CASE CpExampleWrite
  BY <1>13 DEF CpExampleWrite
<1>14. CASE Fail
  BY <1>14 DEF Fail
<1>15. CASE UNCHANGED vars
  BY <1>15 DEF vars
<1> QED
  BY <1>1, <1>2, <1>3, <1>4, <1>5, <1>6, <1>7, <1>8, <1>9, <1>10, <1>11,
     <1>12, <1>13, <1>14, <1>15 DEF Next

\* A run that exits 0 after a rm that worked leaves symbols with line records.
THEOREM HaveLines == Spec => []OkSymbolsHaveLines
<1>1. LinesDumped => OkSymbolsHaveLines
  BY DEF LinesDumped, Done, OkSymbolsHaveLines
<1> QED
  BY TypeCorrect, InitLines, NextLines, <1>1, PTL DEF Spec
=============================================================================
