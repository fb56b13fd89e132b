----------------------------- MODULE StripArchs -----------------------------
(***************************************************************************)
(* strip_simulator_arch.sh, the build phase that thins the frameworks      *)
(* embedded in the application: per framework it extracts each of $ARCHS   *)
(* to a file, merges the files, and puts the result in the executable's    *)
(* place, with no command checked.  Xcode may embed a framework anew and   *)
(* run the phase again, over whatever an interrupted run has left.         *)
(***************************************************************************)
EXTENDS FiniteSets

CONSTANTS Frameworks,   \* the frameworks of the application
          Skipped,      \* those the script passes over
          Archs,        \* every architecture
          ARCHS         \* those of the build
StripAssumption == Skipped \subseteq Frameworks /\ ARCHS \subseteq Archs /\ ARCHS # {}

VARIABLES
  shipped,     \* the executables as they are embedded
  executable,  \* and as they are
  extracted,   \* the architectures a "-$ARCH" file is there for
  merged,      \* the "-merged" file
  todo,        \* the frameworks find has not come to yet
  current,     \* the framework at hand
  archs,       \* the architectures still to extract from it
  pc,
  failed       \* history: frameworks of which a command failed that need not

files == <<executable, extracted, merged>>
vars == <<shipped, files, todo, current, archs, pc, failed>>

\* A universal file, or a thin one of a single architecture.
Executables == {x \in [archs : (SUBSET Archs) \ {{}}, fat : BOOLEAN] : x.fat \/ Cardinality(x.archs) = 1}
Gone == [archs |-> {}, fat |-> FALSE]
Stripped == [archs |-> ARCHS, fat |-> TRUE]

TypeOK ==
  /\ shipped \in [Frameworks -> Executables]
  /\ executable \in [Frameworks -> Executables \cup {Gone}]
  /\ extracted \in [Frameworks -> SUBSET ARCHS]
  /\ merged \in [Frameworks -> {Stripped, Gone}]
  /\ todo \subseteq Frameworks
  /\ current \in Frameworks
  /\ archs \subseteq ARCHS
  /\ pc \in {"idle", "find", "extract", "merge", "rmExtracted", "rm", "mv"}
  /\ failed \subseteq Frameworks

Init ==
  /\ shipped \in [Frameworks -> Executables]
  /\ executable = shipped
  /\ extracted = [f \in Frameworks |-> {}]
  /\ merged = [f \in Frameworks |-> Gone]
  /\ todo = Frameworks
  /\ current \in Frameworks
  /\ archs = {}
  /\ pc = "find"
  /\ failed = {}

Run(from, to) == pc = from /\ pc' = to /\ UNCHANGED shipped

\* Xcode builds again: it embeds some frameworks anew, each as a directory.
Rebuild ==
  \E anew \in SUBSET Frameworks :
    /\ Run("idle", "find")
    /\ executable' = [f \in Frameworks |-> IF f \in anew THEN shipped[f] ELSE executable[f]]
    /\ extracted' = [f \in Frameworks |-> IF f \in anew THEN {} ELSE extracted[f]]
    /\ merged' = [f \in Frameworks |-> IF f \in anew THEN Gone ELSE merged[f]]
    /\ todo' = Frameworks
    /\ failed' = failed \ anew
    /\ UNCHANGED <<current, archs>>

\* The script passes over a framework without an executable.
FindExecutable ==
  \E f \in todo :
    /\ Run("find", IF f \in Skipped \/ executable[f] = Gone THEN "find" ELSE "extract")
    /\ todo' = todo \ {f}
    /\ current' = f
    /\ archs' = ARCHS
    /\ UNCHANGED <<files, failed>>
Find ==
  \E f \in todo :
    /\ Run("find", IF f \in Skipped THEN "find" ELSE "extract")
    /\ todo' = todo \ {f}
    /\ current' = f
    /\ archs' = ARCHS
    /\ UNCHANGED <<files, failed>>
Finish == todo = {} /\ Run("find", "idle") /\ UNCHANGED <<files, todo, current, archs, failed>>

\* A command that could have done its work and has not.
Fails == failed' = failed \cup {current}

CanExtract(a) == executable[current].fat /\ a \in executable[current].archs

\* lipo -extract wants a universal file with that architecture.
Extract ==
  \E a \in archs :
    /\ Run("extract", "extract")
    /\ archs' = archs \ {a}
    /\ \/ CanExtract(a) /\ extracted' = [extracted EXCEPT ![current] = @ \cup {a}] /\ UNCHANGED failed
       \/ CanExtract(a) /\ Fails /\ UNCHANGED extracted
       \/ ~CanExtract(a) /\ UNCHANGED <<extracted, failed>>
    /\ UNCHANGED <<executable, merged, todo, current>>
ExtractedAll ==
  archs = {} /\ Run("extract", "merge") /\ UNCHANGED <<files, todo, current, archs, failed>>

\* The output is removed before the inputs are looked at.
MergeAnew ==
  /\ Run("merge", "rmExtracted")
  /\ merged' = [merged EXCEPT ![current] = IF extracted[current] = ARCHS THEN Stripped ELSE Gone]
  /\ UNCHANGED <<executable, extracted, todo, current, archs, failed>>

\* lipo -create wants all its inputs, and leaves its output alone without.
Merge ==
  /\ Run("merge", "rmExtracted")
  /\ \/ /\ extracted[current] = ARCHS
        /\ merged' = [merged EXCEPT ![current] = Stripped]
        /\ UNCHANGED failed
     \/ extracted[current] = ARCHS /\ Fails /\ UNCHANGED merged
     \/ extracted[current] # ARCHS /\ UNCHANGED <<merged, failed>>
  /\ UNCHANGED <<executable, extracted, todo, current, archs>>

RemoveExtracted ==
  /\ Run("rmExtracted", "rm")
  /\ extracted' = [extracted EXCEPT ![current] = {}]
  /\ UNCHANGED <<executable, merged, todo, current, archs, failed>>

Remove ==
  /\ Run("rm", "mv")
  /\ executable' = [executable EXCEPT ![current] = Gone]
  /\ UNCHANGED <<extracted, merged, todo, current, archs, failed>>

\* mv finds nothing to move if the merge has failed.
Move ==
  /\ Run("mv", "find")
  /\ merged[current] # Gone => executable' = [executable EXCEPT ![current] = merged[current]]
  /\ merged[current] = Gone => UNCHANGED executable
  /\ merged' = [merged EXCEPT ![current] = Gone]
  /\ UNCHANGED <<extracted, todo, current, archs, failed>>

\* The build is cancelled.
Cancel ==
  /\ pc # "idle" /\ pc' = "idle"
  /\ todo' = Frameworks
  /\ UNCHANGED <<shipped, files, current, archs, failed>>

Next ==
  \/ Rebuild \/ Find \/ Finish \/ Extract \/ ExtractedAll \/ Merge
  \/ RemoveExtracted \/ Remove \/ Move \/ Cancel
Spec == Init /\ [][Next]_vars
-----------------------------------------------------------------------------
\* The script has come to its end over every framework.
Done == pc = "idle" /\ todo = {}

\* A universal executable that has every architecture of the build, and of
\* which no command has failed, has these and no other at the end of the
\* phase, although earlier runs were cancelled between any two commands: one
\* cancelled between rm and mv is finished by the next run's mv.
CancelledRunsAreMadeGood ==
  Done => \A f \in Frameworks \ (Skipped \cup failed) :
    shipped[f].fat /\ ARCHS \subseteq shipped[f].archs => executable[f] = Stripped

\* Once the phase has begun with a framework, its executable has never again
\* architectures of the simulator next to fewer of the build: it is as it
\* was embedded, thinned, or gone, with the merged file saved beside it until
\* it takes its place.
NothingInBetween ==
  \A f \in Frameworks :
    /\ executable[f] \in {shipped[f], Stripped, Gone}
    /\ f \notin failed /\ shipped[f].fat /\ ARCHS \subseteq shipped[f].archs /\ executable[f] = Gone
       => merged[f] = Stripped

\* strip_simulator_arch.sh:3-4: the phase removes unused architectures, that
\* is, the others stay.
RemovesUnusedArchitectures ==
  Done => \A f \in Frameworks \ (Skipped \cup failed) :
    executable[f].archs = shipped[f].archs \cap ARCHS
=============================================================================
