---------------------------- MODULE BuildWindows ----------------------------
(***************************************************************************)
(* build_lib_windows.bat, run again and again over a tree that is edited.  *)
(* A file is the number of the revision it was built from.  The lines of   *)
(* the && chain publish, in this order, the library, its import library,   *)
(* its pdb and the symbols dumped from that pdb; copy replaces a whole     *)
(* file or tears it, and the redirection empties crash.sym first.          *)
(***************************************************************************)
EXTENDS Integers

CONSTANT MaxEdits    \* bound: how often the source is edited
MaxEditsAssumption == MaxEdits \in Nat

VARIABLES
  src,     \* the revision of the sources
  built,   \* what build\Windows\Release holds
  dll,     \* libs\crash.dll
  lib,     \* libs\crash.lib
  pdb,     \* symbols\win_x86\crash.pdb
  sym,     \* symbols\win_x86\crash.sym
  pc,      \* the command about to run, "idle" between two runs
  status   \* errorlevel of the last run: "none", "ok" or "failed"

published == <<dll, lib, pdb, sym>>
vars == <<src, built, published, pc, status>>

Revisions == 1 .. MaxEdits + 1
None == 0
Torn == -1
Files == Revisions \cup {None, Torn}

Chain == <<"rd", "cmake", "build", "copyDll", "copyLib", "copyPdb", "openSym", "dumpSyms">>
Commands == {Chain[i] : i \in 1..8}

TypeOK ==
  /\ src \in Revisions
  /\ built \in Revisions \cup {None}
  /\ {dll, lib, pdb, sym} \subseteq Files
  /\ pc \in Commands \cup {"idle"}
  /\ status \in {"none", "ok", "failed"}

Init ==
  /\ src = 1
  /\ built = None
  /\ dll = None /\ lib = None /\ pdb = None /\ sym = None
  /\ pc = "idle"
  /\ status = "none"

Edit ==
  /\ src <= MaxEdits
  /\ src' = src + 1
  /\ UNCHANGED <<built, published, pc, status>>

Run(from, to) == pc = from /\ pc' = to /\ UNCHANGED <<src, status>>

Start == Run("idle", "rd") /\ UNCHANGED <<built, published>>

\* An rd that gives up half way and leaves a torn library behind.
RemoveBuildDirTorn == Run("rd", "cmake") /\ built' \in {None, built, Torn} /\ UNCHANGED published

\* rd /S /Q fails on a file in use; the script goes on either way.
RemoveBuildDir == Run("rd", "cmake") /\ built' \in {None, built} /\ UNCHANGED published
Configure == Run("cmake", "build") /\ UNCHANGED <<built, published>>
Build == Run("build", "copyDll") /\ built' = src /\ UNCHANGED published

\* A library that is there already is kept (copy without /Y, answered "no").
CopyDllKeepsOld ==
  /\ Run("copyDll", "copyLib")
  /\ dll' = IF dll \in Revisions THEN dll ELSE built
  /\ UNCHANGED <<built, lib, pdb, sym>>
CopyDll == Run("copyDll", "copyLib") /\ dll' = built /\ UNCHANGED <<built, lib, pdb, sym>>
CopyLib == Run("copyLib", "copyPdb") /\ lib' = built /\ UNCHANGED <<built, dll, pdb, sym>>

\* The pdb that is there already is kept (copy without /Y, answered "no").
CopyPdbKeepsOld ==
  /\ Run("copyPdb", "openSym")
  /\ pdb' = IF pdb = None THEN built ELSE pdb
  /\ UNCHANGED <<built, dll, lib, sym>>
CopyPdb == Run("copyPdb", "openSym") /\ pdb' = built /\ UNCHANGED <<built, dll, lib, sym>>

OpenSym == Run("openSym", "dumpSyms") /\ sym' = Torn /\ UNCHANGED <<built, dll, lib, pdb>>

\* dump_syms.exe reads symbols\win_x86\crash.pdb, not the build directory.
DumpSyms ==
  /\ pc = "dumpSyms"
  /\ pc' = "idle"
  /\ status' = "ok"
  /\ sym' = pdb
  /\ UNCHANGED <<src, built, dll, lib, pdb>>

\* A command of the chain fails, and ends it; a copy may leave a torn file.
\* A build that fails has deleted what it was to replace.
Fail ==
  /\ pc \in Commands \ {"rd"}
  /\ pc' = "idle"
  /\ status' = "failed"
  /\ built' \in IF pc = "build" THEN {built, None} ELSE {built}
  /\ dll' \in IF pc = "copyDll" THEN {dll, Torn} ELSE {dll}
  /\ lib' \in IF pc = "copyLib" THEN {lib, Torn} ELSE {lib}
  /\ pdb' \in IF pc = "copyPdb" THEN {pdb, Torn} ELSE {pdb}
  /\ UNCHANGED <<src, sym>>

Next ==
  \/ Edit \/ Start \/ RemoveBuildDir \/ Configure \/ Build
  \/ CopyDll \/ CopyLib \/ CopyPdb \/ OpenSym \/ DumpSyms \/ Fail
Spec == Init /\ [][Next]_vars
-----------------------------------------------------------------------------
\* A run that ends well has published one build in four files, although the
\* sources are edited while it runs and the symbols are dumped from a copy.
OkPublishesOneBuild ==
  status = "ok" /\ pc = "idle" => /\ dll \in Revisions
                                  /\ lib = dll /\ pdb = dll /\ sym = dll

\* Whatever has failed and whenever, symbols that are whole are not those of
\* a build newer than the library users have: the library goes first.
SymbolsNeverLead == sym \in Revisions /\ dll \in Revisions => sym <= dll
=============================================================================
