------------------------------ MODULE WalkStack ------------------------------
(***************************************************************************)
(* tools/walk_stack.py: every .sym file of the working directory is copied *)
(* to sym/<debug file>/<id>/, as its MODULE line says, and then            *)
(* minidump_stackwalk reads the dump with that tree as its symbol store.   *)
(*                                                                         *)
(* Several users may run the script in one directory (Walkers), again and  *)
(* again: nothing ever empties sym/, so each run meets what the runs       *)
(* before it, the ones that stopped half way included, have left there.    *)
(* Between runs users put files into the directory, replace and remove     *)
(* them; with Concurrent they also do so while a script is running.        *)
(*                                                                         *)
(* minidump_stackwalk is a binary; what it reads is modelled after         *)
(* simple_symbol_supplier.h: the symbols of module <<m, id>> are           *)
(* sym/m/id/SymFileOf[m], and a store without that file has no symbols.    *)
(***************************************************************************)
EXTENDS Naturals, TLAPS

CONSTANTS
  Walkers,     \* running instances of the script
  Modules,     \* debug files named in MODULE lines and in dumps
  Ids,         \* their identifiers, one for each build
  Contents,    \* what a .sym file may hold
  SymNames,    \* names of .sym files users may put into the directory
  SymFileOf,   \* the file the supplier looks for: <debug file>.sym, and
               \* for a debug file x.pdb, x.sym
  Cut,         \* the directory name read from a MODULE line cut short
  Concurrent   \* TRUE if files may change while a script runs

Nobody == "nobody"

ASSUME SymFileOfType == SymFileOf \in [Modules -> SymNames]
ASSUME CutIsNoModule == Cut \notin Modules
ASSUME ContentsType ==
  Contents \subseteq
    [mod : Modules, id : Ids, body : {"whole", "torn", "cut", "short"}]
ASSUME NobodyIsNoWalker == Nobody \notin Walkers
ASSUME ConcurrentType == Concurrent \in BOOLEAN

(***************************************************************************)
(* A .sym file.  "whole": as dump_syms wrote it.  "torn": its MODULE line  *)
(* is there, records after it are missing.  "cut": it ends inside the      *)
(* MODULE line; readline()[:-1] then drops a character of the name.        *)
(* "short": the line has not five fields, the script passes over the file. *)
(***************************************************************************)
Absent == [body |-> "absent"]
Empty == [body |-> "empty"]     \* a copy that has been started

Dirs == (Modules \cup {Cut}) \X Ids
Paths == Dirs \X SymNames
NoFile == "none"

VARIABLES
  cwd,     \* the .sym files of the working directory
  sym,     \* the files below sym/
  pc,      \* per script: "idle", "loop", "mkdir", "open", "copy", "walk"
  todo,    \* per script: files of os.listdir() not yet looked at
  cur,     \* per script: the file being staged and the directory for it
  status,  \* per script: exit status of its last run
  alone    \* history: the script last started while no other one ran, if no
           \* other one has been started since

vars == <<cwd, sym, pc, todo, cur, status, alone>>

NoCur == [file |-> NoFile, dir |-> <<NoFile, NoFile>>]

TypeOK ==
  /\ cwd \in [SymNames -> Contents \cup {Absent}]
  /\ sym \in [Paths -> Contents \cup {Absent, Empty}]
  /\ pc \in [Walkers -> {"idle", "loop", "mkdir", "open", "copy", "walk"}]
  /\ todo \in [Walkers -> SUBSET SymNames]
  /\ cur \in [Walkers -> [file : SymNames, dir : Dirs] \cup {NoCur}]
  /\ status \in [Walkers -> {"none", "ok", "failed"}]
  /\ alone \in Walkers \cup {Nobody}

Init ==
  /\ cwd = [f \in SymNames |-> Absent]
  /\ sym = [p \in Paths |-> Absent]
  /\ pc = [w \in Walkers |-> "idle"]
  /\ todo = [w \in Walkers |-> {}]
  /\ cur = [w \in Walkers |-> NoCur]
  /\ status = [w \in Walkers |-> "none"]
  /\ alone \in Walkers

Goto(w, label) == pc' = [pc EXCEPT ![w] = label]

\* A user adds, replaces or removes a .sym file.
Place(f, c) ==
  /\ Concurrent \/ \A w \in Walkers : pc[w] = "idle"
  /\ cwd' = [cwd EXCEPT ![f] = c]
  /\ UNCHANGED <<sym, pc, todo, cur, status, alone>>

\* The script starts: os.listdir() takes the names once and for all.
Start(w) ==
  /\ pc[w] = "idle"
  /\ Goto(w, "loop")
  /\ todo' = [todo EXCEPT ![w] = {f \in SymNames : cwd[f] # Absent}]
  /\ alone' = IF \A v \in Walkers \ {w} : pc[v] = "idle" THEN w ELSE Nobody
  /\ UNCHANGED <<cwd, sym, cur, status>>

\* Mutant: the two fields change places.
DirOfSwapped(c) == <<c.id, IF c.body = "cut" THEN Cut ELSE c.mod>>

\* Mutant: the identifier is left out, all builds share a directory.
DirOfModule(c) == <<IF c.body = "cut" THEN Cut ELSE c.mod,
                    CHOOSE id \in Ids : TRUE>>

\* "sym/%s/%s/" % (info[-1], info[-2])
DirOf(c) == <<IF c.body = "cut" THEN Cut ELSE c.mod, c.id>>

\* Mutant: the file is not taken off the list.
ReadHeaderAgain(w, f) ==
  /\ pc[w] = "loop"
  /\ f \in todo[w]
  /\ cwd[f] # Absent
  /\ cur' = [cur EXCEPT ![w] = [file |-> f, dir |-> DirOf(cwd[f])]]
  /\ Goto(w, "mkdir")
  /\ UNCHANGED <<cwd, sym, todo, status, alone>>

\* The MODULE line of the next file; listdir() has no particular order.
ReadHeader(w, f) ==
  /\ pc[w] = "loop"
  /\ f \in todo[w]
  /\ cwd[f] # Absent
  /\ todo' = [todo EXCEPT ![w] = @ \ {f}]
  /\ IF cwd[f].body = "short"
     THEN UNCHANGED <<pc, cur>>
     ELSE /\ cur' = [cur EXCEPT ![w] = [file |-> f, dir |-> DirOf(cwd[f])]]
          /\ Goto(w, "mkdir")
  /\ UNCHANGED <<cwd, sym, status, alone>>

\* mkdir -p
MakeDir(w) ==
  /\ pc[w] = "mkdir"
  /\ Goto(w, "open")
  /\ UNCHANGED <<cwd, sym, todo, cur, status, alone>>

\* Mutant: cp -n, a copy that is there already is kept.
OpenCopyUnlessThere(w) ==
  /\ pc[w] = "open"
  /\ cwd[cur[w].file] # Absent
  /\ IF sym[<<cur[w].dir, cur[w].file>>] # Absent
     THEN /\ Goto(w, "loop")
          /\ cur' = [cur EXCEPT ![w] = NoCur]
          /\ UNCHANGED sym
     ELSE /\ sym' = [sym EXCEPT ![<<cur[w].dir, cur[w].file>>] = Empty]
          /\ Goto(w, "copy")
          /\ UNCHANGED cur
  /\ UNCHANGED <<cwd, todo, status, alone>>

\* cp truncates the target, which keeps the name the file has in the
\* working directory ...
OpenCopy(w) ==
  /\ pc[w] = "open"
  /\ cwd[cur[w].file] # Absent
  /\ sym' = [sym EXCEPT ![<<cur[w].dir, cur[w].file>>] = Empty]
  /\ Goto(w, "copy")
  /\ UNCHANGED <<cwd, todo, cur, status, alone>>

\* ... and writes what the file holds by now.
FinishCopy(w) ==
  /\ pc[w] = "copy"
  /\ cwd[cur[w].file] # Absent
  /\ sym' = [sym EXCEPT ![<<cur[w].dir, cur[w].file>>] = cwd[cur[w].file]]
  /\ cur' = [cur EXCEPT ![w] = NoCur]
  /\ Goto(w, "loop")
  /\ UNCHANGED <<cwd, todo, status, alone>>

\* All files are staged; minidump_stackwalk reads the store.
BeginWalk(w) ==
  /\ pc[w] = "loop"
  /\ todo[w] = {}
  /\ Goto(w, "walk")
  /\ UNCHANGED <<cwd, sym, todo, cur, status, alone>>

Stop(w, s) ==
  /\ Goto(w, "idle")
  /\ todo' = [todo EXCEPT ![w] = {}]
  /\ cur' = [cur EXCEPT ![w] = NoCur]
  /\ status' = [status EXCEPT ![w] = s]
  /\ UNCHANGED <<cwd, sym, alone>>

EndWalk(w) == pc[w] = "walk" /\ Stop(w, "ok")

\* check=True, or a file of the listing that is gone: an exception ends the
\* script and the files not yet staged stay where they are.
Abort(w) == pc[w] # "idle" /\ Stop(w, "failed")

Script(w) ==
  \/ \E f \in SymNames : ReadHeader(w, f)
  \/ MakeDir(w) \/ OpenCopy(w) \/ FinishCopy(w)
  \/ BeginWalk(w) \/ EndWalk(w)
  \/ Abort(w)

Next ==
  \/ \E f \in SymNames, c \in Contents \cup {Absent} : Place(f, c)
  \/ \E w \in Walkers : Start(w) \/ Script(w)

\* A started script is a process that keeps running; users need not do
\* anything, so Place and Start have no fairness.
Spec == Init /\ [][Next]_vars /\ \A w \in Walkers : WF_vars(Script(w))
-----------------------------------------------------------------------------
\* What the stack walker finds for a module of the dump.
Lookup(m, id) == sym[<<<<m, id>>, SymFileOf[m]>>]

\* A file below sym/<m>/<id>/ never holds another build's or another module's
\* records, whatever runs stopped half way: frames get their own line numbers
\* or none at all.
OwnSymbolsOnly ==
  \A m \in Modules, id \in Ids, f \in SymNames :
    LET c == sym[<<<<m, id>>, f>>]
    IN c \in Contents => c.mod = m /\ c.id = id

\* When the stack walker of a script that has had the directory to itself
\* starts, every module whose symbol file lies there under the name the
\* supplier asks for is found whole, even where earlier runs, of this script
\* or of several at once, have left an empty or torn copy.
WalkFindsSymbols ==
  \A w \in Walkers, m \in Modules : w = alone /\ pc[w] = "walk" =>
    LET c == cwd[SymFileOf[m]]
    IN c # Absent /\ c.body = "whole" /\ c.mod = m => Lookup(m, c.id) = c

\* A script that was started ends: the loop looks at each file once.
ScriptEnds == \A w \in Walkers : pc[w] # "idle" ~> pc[w] = "idle"
-----------------------------------------------------------------------------
\* A file whose MODULE line has been read is still the file it was.
Pending ==
  \A w \in Walkers : pc[w] \in {"mkdir", "open", "copy"} =>
    /\ cur[w].file \in SymNames
    /\ cwd[cur[w].file] \in Contents
    /\ cur[w].dir = DirOf(cwd[cur[w].file])

IInv == TypeOK /\ Pending /\ OwnSymbolsOnly

\* The directory of a file is one of the store's.
LEMMA DirOfType == ASSUME NEW c \in Contents PROVE DirOf(c) \in Dirs
  BY ContentsType DEF DirOf, Dirs

\* Only files of module m's build id go to the directory sym/m/id.
LEMMA DirOfTells ==
  ASSUME NEW c \in Contents, NEW m \in Modules, NEW id \in Ids,
         DirOf(c) = <<m, id>>
  PROVE  c.mod = m /\ c.id = id
  BY CutIsNoModule DEF DirOf

\* A copy that has only been started, or a file that is not there, is no
\* symbol file.
LEMMA NoContents == Absent \notin Contents /\ Empty \notin Contents
  BY ContentsType DEF Absent, Empty

\* Nothing is staged at first.
LEMMA InitIInv == Init => IInv
<1> SUFFICES ASSUME Init PROVE IInv
  OBVIOUS
<1>1. TypeOK
  BY DEF Init, TypeOK
<1>2. Pending
  BY DEF Init, Pending
<1>3. OwnSymbolsOnly
  BY NoContents DEF Init, OwnSymbolsOnly, Paths, Dirs
<1> QED
  BY <1>1, <1>2, <1>3 DEF IInv

\* A script copies files of the working directory to directories named by
\* their MODULE lines.
LEMMA NextTypeOK == IInv /\ [Next]_vars => TypeOK'
<1> SUFFICES ASSUME IInv, [Next]_vars PROVE TypeOK'
  OBVIOUS
<1> USE DEF IInv, TypeOK
<1>1. ASSUME NEW f \in SymNames, NEW c \in Contents \cup {Absent}, Place(f, c)
      PROVE  TypeOK'
  BY <1>1 DEF Place
<1>2. ASSUME NEW w \in Walkers, Start(w) PROVE TypeOK'
  BY <1>2 DEF Start, Goto
<1>3. ASSUME NEW w \in Walkers, NEW f \in SymNames, ReadHeader(w, f)
      PROVE  TypeOK'
  <2>1. cwd[f] \in Contents
    BY <1>3 DEF ReadHeader
  <2>2. DirOf(cwd[f]) \in Dirs
    BY <2>1, DirOfType
  <2> QED
    BY <1>3, <2>2 DEF ReadHeader, Goto
<1>4. ASSUME NEW w \in Walkers, MakeDir(w) PROVE TypeOK'
  BY <1>4 DEF MakeDir, Goto
<1>5. ASSUME NEW w \in Walkers, OpenCopy(w) PROVE TypeOK'
  BY <1>5 DEF OpenCopy, Goto
<1>6. ASSUME NEW w \in Walkers, FinishCopy(w) PROVE TypeOK'
  <2>1. cwd[cur[w].file] \in Contents
    BY <1>6 DEF FinishCopy, Pending
  <2> QED
    BY <1>6, <2>1 DEF FinishCopy, Goto
<1>7. ASSUME NEW w \in Walkers, BeginWalk(w) PROVE TypeOK'
  BY <1>7 DEF BeginWalk, Goto
<1>8. ASSUME NEW w \in Walkers, EndWalk(w) \/ Abort(w) PROVE TypeOK'
  BY <1>8 DEF EndWalk, Abort, Stop, Goto
<1>9. CASE UNCHANGED vars
  BY <1>9 DEF vars
<1> QED
  BY <1>1, <1>2, <1>3, <1>4, <1>5, <1>6, <1>7, <1>8, <1>9 DEF Next, Script

\* While a script runs nobody changes the files, and each script has a list
\* and a current file of its own.
LEMMA NextPending ==
  ASSUME ~Concurrent, IInv, [Next]_vars
  PROVE  Pending'
<1> USE DEF IInv, TypeOK, Pending
<1>1. ASSUME NEW f \in SymNames, NEW c \in Contents \cup {Absent}, Place(f, c)
      PROVE  Pending'
  BY <1>1 DEF Place
<1>2. ASSUME NEW w \in Walkers, Start(w) PROVE Pending'
  BY <1>2 DEF Start, Goto
<1>3. ASSUME NEW w \in Walkers, NEW f \in SymNames, ReadHeader(w, f)
      PROVE  Pending'
  <2>1. cwd[f] \in Contents
    BY <1>3 DEF ReadHeader
  <2> QED
    BY <1>3, <2>1 DEF ReadHeader, Goto
<1>4. ASSUME NEW w \in Walkers, MakeDir(w) PROVE Pending'
  BY <1>4 DEF MakeDir, Goto
<1>5. ASSUME NEW w \in Walkers, OpenCopy(w) PROVE Pending'
  BY <1>5 DEF OpenCopy, Goto
<1>6. ASSUME NEW w \in Walkers, FinishCopy(w) PROVE Pending'
  BY <1>6 DEF FinishCopy, Goto
<1>7. ASSUME NEW w \in Walkers, BeginWalk(w) PROVE Pending'
  BY <1>7 DEF BeginWalk, Goto
<1>8. ASSUME NEW w \in Walkers, EndWalk(w) \/ Abort(w) PROVE Pending'
  BY <1>8 DEF EndWalk, Abort, Stop, Goto
<1>9. CASE UNCHANGED vars
  BY <1>9 DEF vars
<1> QED
  BY <1>1, <1>2, <1>3, <1>4, <1>5, <1>6, <1>7, <1>8, <1>9 DEF Next, Script

\* The only steps that write below sym/ are the two of cp.
LEMMA NextOwnSymbols ==
  ASSUME IInv, [Next]_vars
  PROVE  OwnSymbolsOnly'
<1> USE DEF IInv, OwnSymbolsOnly
<1>1. CASE UNCHANGED sym
  BY <1>1
<1>2. ASSUME NEW w \in Walkers, OpenCopy(w) PROVE OwnSymbolsOnly'
  BY <1>2, NoContents DEF OpenCopy, TypeOK, Paths, Dirs
<1>3. ASSUME NEW w \in Walkers, FinishCopy(w) PROVE OwnSymbolsOnly'
  <2> DEFINE c == cwd[cur[w].file]
  <2>1. c \in Contents /\ cur[w].dir = DirOf(c)
    BY <1>3 DEF FinishCopy, Pending
  <2> SUFFICES ASSUME NEW m \in Modules, NEW id \in Ids, NEW f \in SymNames,
                      sym'[<<<<m, id>>, f>>] \in Contents
               PROVE  /\ sym'[<<<<m, id>>, f>>].mod = m
                      /\ sym'[<<<<m, id>>, f>>].id = id
    OBVIOUS
  <2>2. <<<<m, id>>, f>> \in Paths
    BY DEF Paths, Dirs
  <2>3. CASE <<cur[w].dir, cur[w].file>> = <<<<m, id>>, f>>
    <3>1. sym'[<<<<m, id>>, f>>] = c
      BY <1>3, <2>2, <2>3 DEF FinishCopy, TypeOK
    <3>2. DirOf(c) = <<m, id>>
      BY <2>1, <2>3
    <3>3. c.mod = m /\ c.id = id
      BY <2>1, <3>2, DirOfTells
    <3> QED
      BY <3>1, <3>3
  <2>4. CASE <<cur[w].dir, cur[w].file>> # <<<<m, id>>, f>>
    BY <1>3, <2>2, <2>4 DEF FinishCopy, TypeOK
  <2> QED
    BY <2>3, <2>4
<1> QED
  BY <1>1, <1>2, <1>3 DEF Next, Script, Place, Start, ReadHeader, MakeDir,
     BeginWalk, EndWalk, Abort, Stop, vars

\* IInv holds at every moment of every run of the script.
LEMMA Inductive == ASSUME ~Concurrent PROVE Spec => []IInv
<1>1. IInv /\ [Next]_vars => IInv'
  BY NextTypeOK, NextPending, NextOwnSymbols DEF IInv
<1> QED
  BY InitIInv, <1>1, PTL DEF Spec

\* Every run of walk_stack.py that has its directory to itself stays within
\* the states it is written for: the files below sym/ are read from the files
\* of the working directory, and the script is at one of its own lines.
THEOREM TypeCorrect == ASSUME ~Concurrent PROVE Spec => []TypeOK
<1>1. IInv => TypeOK
  BY DEF IInv
<1> QED
  BY Inductive, <1>1, PTL

\* What walk_stack.py leaves below sym/<m>/<id>/ are records of build id of
\* module m, whatever runs stopped half way and however many run at once.
THEOREM StoreIsSorted == ASSUME ~Concurrent PROVE Spec => []OwnSymbolsOnly
<1>1. IInv => OwnSymbolsOnly
  BY DEF IInv
<1> QED
  BY Inductive, <1>1, PTL

-----------------------------------------------------------------------------
\* Beside a script that runs alone no other one runs.
Alone == \A v, w \in Walkers : v = alone /\ w # v => pc[w] = "idle"

\* What a script that runs alone has dealt with is in the store as it is in the
\* directory: the files that are neither on its list any more nor in its hands.
Staged ==
  \A w \in Walkers : w = alone =>
    /\ pc[w] = "walk" => todo[w] = {}
    /\ \A f \in SymNames :
         /\ pc[w] # "idle"
         /\ cwd[f] \in Contents /\ cwd[f].body # "short"
         /\ f \notin todo[w]
         /\ pc[w] \in {"mkdir", "open", "copy"} => cur[w].file # f
         => sym[<<DirOf(cwd[f]), f>>] = cwd[f]

\* A script is alone from the moment it starts while all others are idle until
\* the next one starts.
LEMMA NextAlone ==
  ASSUME IInv, Alone, [Next]_vars
  PROVE  Alone'
<1> USE DEF IInv, TypeOK, Alone
<1>1. ASSUME NEW w \in Walkers, Start(w) PROVE Alone'
  BY <1>1, NobodyIsNoWalker DEF Start, Goto
<1>2. ASSUME NEW w \in Walkers, Script(w) PROVE Alone'
  <2>1. pc[w] # "idle" /\ UNCHANGED alone
    BY <1>2 DEF Script, ReadHeader, MakeDir, OpenCopy, FinishCopy, BeginWalk, EndWalk, Abort, Stop
  <2>2. \A v \in Walkers : v # w => pc'[v] = pc[v]
    BY <1>2 DEF Script, ReadHeader, MakeDir, OpenCopy, FinishCopy, BeginWalk, EndWalk, Abort, Stop, Goto
  <2> QED
    BY <2>1, <2>2
<1>3. CASE UNCHANGED <<pc, alone>>
  BY <1>3
<1> QED
  BY <1>1, <1>2, <1>3 DEF Next, Place, vars

\* Listing takes every file that is there; looking at one takes it in hand,
\* and only a finished copy lets go of it.  What a run before has left below
\* sym/ is overwritten.
LEMMA NextStaged ==
  ASSUME ~Concurrent, IInv, Alone, Staged, [Next]_vars
  PROVE  Staged'
<1> USE DEF IInv, TypeOK, Staged
<1>1. ASSUME NEW f \in SymNames, NEW c \in Contents \cup {Absent}, Place(f, c)
      PROVE  Staged'
  BY <1>1 DEF Place
<1>2. ASSUME NEW w \in Walkers, Start(w) PROVE Staged'
  <2>1. ASSUME NEW f \in SymNames, cwd[f] \in Contents PROVE f \in todo'[w]
    BY <1>2, <2>1, NoContents DEF Start
  <2>2. pc'[w] = "loop" /\ cwd' = cwd
    BY <1>2 DEF Start, Goto
  <2> QED
    BY <1>2, <2>1, <2>2, NobodyIsNoWalker DEF Start
<1>3. ASSUME NEW w \in Walkers, NEW f \in SymNames, ReadHeader(w, f)
      PROVE  Staged'
  <2>1. pc[w] = "loop" /\ todo'[w] = todo[w] \ {f} /\ UNCHANGED <<cwd, sym, alone>>
    BY <1>3 DEF ReadHeader
  <2>0. \A v \in Walkers : v = alone => v = w
    BY <2>1 DEF Alone
  <2>2. CASE cwd[f].body = "short"
    BY <1>3, <2>0, <2>1, <2>2 DEF ReadHeader
  <2>3. CASE cwd[f].body # "short"
    <3>1. pc'[w] = "mkdir" /\ cur'[w].file = f
      BY <1>3, <2>3 DEF ReadHeader, Goto
    <3> QED
      BY <2>0, <2>1, <3>1
  <2> QED
    BY <2>2, <2>3
<1>4. ASSUME NEW w \in Walkers, MakeDir(w) PROVE Staged'
  BY <1>4 DEF MakeDir, Goto, Alone
<1>5. ASSUME NEW w \in Walkers, OpenCopy(w) PROVE Staged'
  <2>1. /\ pc[w] = "open" /\ pc'[w] = "copy" /\ UNCHANGED <<cwd, todo, cur, alone>>
        /\ \A p \in Paths : p # <<cur[w].dir, cur[w].file>> => sym'[p] = sym[p]
    BY <1>5 DEF OpenCopy, Goto
  <2>2. ASSUME NEW f \in SymNames, cwd[f] \in Contents, cur[w].file # f
        PROVE  sym'[<<DirOf(cwd[f]), f>>] = sym[<<DirOf(cwd[f]), f>>]
    BY <2>1, <2>2, DirOfType DEF Paths
  <2>3. \A v \in Walkers : v = alone => v = w
    BY <2>1 DEF Alone
  <2> QED
    BY <2>1, <2>2, <2>3
<1>6. ASSUME NEW w \in Walkers, FinishCopy(w) PROVE Staged'
  <2>1. /\ pc[w] = "copy" /\ pc'[w] = "loop" /\ UNCHANGED <<cwd, todo, alone>>
        /\ \A p \in Paths : p # <<cur[w].dir, cur[w].file>> => sym'[p] = sym[p]
    BY <1>6 DEF FinishCopy, Goto
  <2>2. /\ cur[w].file \in SymNames
        /\ cwd[cur[w].file] \in Contents
        /\ cur[w].dir = DirOf(cwd[cur[w].file])
    BY <2>1 DEF Pending
  <2>3. <<cur[w].dir, cur[w].file>> \in Paths
    BY <2>2, DirOfType DEF Paths
  <2>4. sym'[<<DirOf(cwd[cur[w].file]), cur[w].file>>] = cwd[cur[w].file]
    BY <1>6, <2>2, <2>3 DEF FinishCopy
  <2>5. ASSUME NEW f \in SymNames, cwd[f] \in Contents, cur[w].file # f
        PROVE  sym'[<<DirOf(cwd[f]), f>>] = sym[<<DirOf(cwd[f]), f>>]
    BY <2>1, <2>5, DirOfType DEF Paths
  <2>6. \A v \in Walkers : v = alone => v = w
    BY <2>1 DEF Alone
  <2> QED
    BY <2>1, <2>4, <2>5, <2>6
<1>7. ASSUME NEW w \in Walkers, BeginWalk(w) PROVE Staged'
  BY <1>7 DEF BeginWalk, Goto, Alone
<1>8. ASSUME NEW w \in Walkers, EndWalk(w) \/ Abort(w) PROVE Staged'
  BY <1>8 DEF EndWalk, Abort, Stop, Goto, Alone
<1>9. CASE UNCHANGED vars
  BY <1>9 DEF vars
<1> QED
  BY <1>1, <1>2, <1>3, <1>4, <1>5, <1>6, <1>7, <1>8, <1>9 DEF Next, Script

\* When minidump_stackwalk starts for a script that has run alone, every whole
\* symbol file that lies in the directory under the name the supplier asks for
\* is found whole, for any number of scripts, files, modules and builds and
\* whatever runs before, two at once included, have left.
THEOREM StagedIsFound ==
  ASSUME ~Concurrent PROVE Spec => []WalkFindsSymbols
<1>1. Init => Alone /\ Staged
  BY DEF Init, Alone, Staged
<1>2. IInv /\ Alone /\ Staged /\ [Next]_vars => Alone' /\ Staged'
  BY NextAlone, NextStaged
<1>3. ASSUME IInv, Staged PROVE WalkFindsSymbols
  <2> SUFFICES ASSUME NEW w \in Walkers, NEW m \in Modules, w = alone, pc[w] = "walk",
                      cwd[SymFileOf[m]] # Absent,
                      cwd[SymFileOf[m]].body = "whole", cwd[SymFileOf[m]].mod = m
               PROVE  Lookup(m, cwd[SymFileOf[m]].id) = cwd[SymFileOf[m]]
    BY DEF WalkFindsSymbols
  <2>1. SymFileOf[m] \in SymNames
    BY SymFileOfType
  <2>2. cwd[SymFileOf[m]] \in Contents
    BY <1>3, <2>1 DEF IInv, TypeOK
  <2>3. DirOf(cwd[SymFileOf[m]]) = <<m, cwd[SymFileOf[m]].id>>
    BY DEF DirOf
  <2>4. sym[<<DirOf(cwd[SymFileOf[m]]), SymFileOf[m]>>] = cwd[SymFileOf[m]]
    BY <1>3, <2>1, <2>2 DEF Staged
  <2> QED
    BY <2>3, <2>4 DEF Lookup
<1> QED
  BY Inductive, <1>1, <1>2, <1>3, PTL DEF Spec
=============================================================================
