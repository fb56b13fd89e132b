------------------------------ MODULE BuildIos ------------------------------
(***************************************************************************)
(* build_lib_ios.sh, run again and again over a tree that is edited: two   *)
(* && lists, one that builds the framework for the device and for the      *)
(* simulator and merges them in libs/, one that merges their dSYMs in      *)
(* symbols/.  A list ends at its first failure; the second one runs        *)
(* whatever became of the first, and the exit status is the second's.      *)
(***************************************************************************)
EXTENDS Integers

CONSTANT MaxEdits    \* bound: how often the source is edited
MaxEditsAssumption == MaxEdits \in Nat

VARIABLES
  src,       \* the revision of the sources
  thin,      \* THIN_FRAMEWORK_*/crash under build/iOS
  thinSym,   \* THIN_DSYM_*: the revision of its symbols
  fw,        \* FAT_FRAMEWORK
  dsym,      \* FAT_DSYM
  pc,        \* the command about to run, "idle" between two runs
  status,    \* exit status of the last run: "none", "ok" or "failed"
  kept       \* history: what rm -rf could not remove in this run

products == <<thin, thinSym>>
vars == <<src, products, fw, dsym, pc, status, kept>>

Sides == {"os", "sim"}
Revisions == 1 .. MaxEdits + 1
None == 0
Slice == [rev : Revisions \cup {None}, stripped : BOOLEAN, signed : BOOLEAN]
NoSlice == [rev |-> None, stripped |-> FALSE, signed |-> FALSE]
Both(x) == [s \in Sides |-> x]
NoBundle(none) == [dir |-> FALSE, file |-> Both(none)]

FrameworkList ==
  {"cmake", "xcodeOs", "xcodeSim", "strip", "codesign", "cpFw", "rmFw", "lipoFw"}
SymbolList == {"cpSym", "rmSym", "lipoSym"}

TypeOK ==
  /\ src \in Revisions
  /\ thin \in [Sides -> Slice]
  /\ thinSym \in [Sides -> Revisions \cup {None}]
  /\ fw \in [dir : BOOLEAN, file : [Sides -> Slice]]
  /\ dsym \in [dir : BOOLEAN, file : [Sides -> Revisions \cup {None}]]
  /\ pc \in {"idle", "rm"} \cup FrameworkList \cup SymbolList
  /\ status \in {"none", "ok", "failed"}
  /\ kept \subseteq {"build", "fw", "dsym"}

Init ==
  /\ src = 1
  /\ thin = Both(NoSlice)
  /\ thinSym = Both(None)
  /\ fw = NoBundle(NoSlice)
  /\ dsym = NoBundle(None)
  /\ pc = "idle"
  /\ status = "none"
  /\ kept = {}

Edit ==
  /\ src <= MaxEdits
  /\ src' = src + 1
  /\ UNCHANGED <<products, fw, dsym, pc, status, kept>>

Run(from, to) == pc = from /\ pc' = to /\ UNCHANGED <<src, status>>

Start == Run("idle", "rm") /\ kept' = {} /\ UNCHANGED <<products, fw, dsym>>

\* The framework in libs is left where it is.
RemoveAllButTheFramework ==
  /\ Run("rm", "cmake")
  /\ kept' = {}
  /\ thin' = Both(NoSlice) /\ thinSym' = Both(None)
  /\ dsym' = NoBundle(None)
  /\ UNCHANGED fw

\* rm -rf fails on what it may not remove, and nothing looks at its status.
RemoveAll ==
  /\ Run("rm", "cmake")
  /\ kept' \in SUBSET {"build", "fw", "dsym"}
  /\ \/ "build" \in kept' /\ UNCHANGED products
     \/ "build" \notin kept' /\ thin' = Both(NoSlice) /\ thinSym' = Both(None)
  /\ fw' = IF "fw" \in kept' THEN fw ELSE NoBundle(NoSlice)
  /\ dsym' = IF "dsym" \in kept' THEN dsym ELSE NoBundle(None)

Configure == Run("cmake", "xcodeOs") /\ UNCHANGED <<products, fw, dsym, kept>>

\* xcodebuild makes both products anew, or leaves those that are up to date.
Xcode(side) ==
  /\ IF thin[side].rev = src /\ thinSym[side] = src
     THEN UNCHANGED products
     ELSE /\ thin' = [thin EXCEPT ![side] = [rev |-> src, stripped |-> FALSE, signed |-> TRUE]]
          /\ thinSym' = [thinSym EXCEPT ![side] = src]
  /\ UNCHANGED <<fw, dsym, kept>>
XcodeOs == Run("xcodeOs", "xcodeSim") /\ Xcode("os")
XcodeSim == Run("xcodeSim", "strip") /\ Xcode("sim")

\* strip -S breaks the signature of what it writes.
Stripped(slice) == [slice EXCEPT !.stripped = TRUE, !.signed = FALSE]
Strip ==
  /\ Run("strip", "codesign")
  /\ thin' = [s \in Sides |-> Stripped(thin[s])]
  /\ UNCHANGED <<thinSym, fw, dsym, kept>>

\* The device's framework is signed in the place of the simulator's.
CodesignOs ==
  /\ Run("codesign", "cpFw")
  /\ thin' = [thin EXCEPT !["os"].signed = TRUE]
  /\ UNCHANGED <<thinSym, fw, dsym, kept>>
Codesign ==
  /\ Run("codesign", "cpFw")
  /\ thin' = [thin EXCEPT !["sim"].signed = TRUE]
  /\ UNCHANGED <<thinSym, fw, dsym, kept>>

\* cp -r into a directory that is there makes a copy inside of it.
Copied(bundle, file, none) ==
  IF bundle.dir THEN bundle
  ELSE [dir |-> TRUE, file |-> [os |-> file, sim |-> none]]

CopyFramework ==
  /\ Run("cpFw", "rmFw")
  /\ fw' = Copied(fw, thin["os"], NoSlice)
  /\ UNCHANGED <<products, dsym, kept>>
RemoveExecutable ==
  /\ Run("rmFw", "lipoFw")
  /\ fw' = [fw EXCEPT !.file = Both(NoSlice)]
  /\ UNCHANGED <<products, dsym, kept>>
MergeFramework ==
  /\ Run("lipoFw", "cpSym")
  /\ fw' = [fw EXCEPT !.file = thin]
  /\ UNCHANGED <<products, dsym, kept>>

CopySymbols ==
  /\ Run("cpSym", "rmSym")
  /\ thinSym["os"] # None
  /\ dsym' = Copied(dsym, thinSym["os"], None)
  /\ UNCHANGED <<products, fw, kept>>
RemoveSymbols ==    \* rm without -f: the file must be there
  /\ Run("rmSym", "lipoSym")
  /\ dsym.file # Both(None)
  /\ dsym' = [dsym EXCEPT !.file = Both(None)]
  /\ UNCHANGED <<products, fw, kept>>
MergeSymbols ==
  /\ pc = "lipoSym"
  /\ \A s \in Sides : thinSym[s] # None
  /\ dsym' = [dsym EXCEPT !.file = thinSym]
  /\ pc' = "idle"
  /\ status' = "ok"
  /\ UNCHANGED <<src, products, fw, kept>>

\* A command of the framework's list fails, and the list of the dSYM begins.
\* xcodebuild may have linked the library and not written its symbols, strip
\* may have done one file of two.
FrameworkFails ==
  /\ pc \in FrameworkList
  /\ pc' = "cpSym"
  /\ thin' \in CASE pc = "xcodeOs" -> {thin, [thin EXCEPT !["os"] = NoSlice]}
                 [] pc = "xcodeSim" -> {thin, [thin EXCEPT !["sim"] = NoSlice]}
                 [] pc = "strip" -> {thin, [thin EXCEPT !["os"] = Stripped(@)]}
                 [] OTHER -> {thin}
  /\ fw' \in {fw} \cup (IF pc = "cpFw" /\ ~fw.dir
                        THEN {[NoBundle(NoSlice) EXCEPT !.dir = TRUE]} ELSE {})
  /\ UNCHANGED <<src, thinSym, dsym, status, kept>>

\* A command of the dSYM's list fails, and with it the script.
SymbolsFail ==
  /\ pc \in SymbolList
  /\ pc' = "idle"
  /\ status' = "failed"
  /\ dsym' \in {dsym} \cup (IF pc = "cpSym" /\ ~dsym.dir
                            THEN {[NoBundle(None) EXCEPT !.dir = TRUE]} ELSE {})
  /\ UNCHANGED <<src, products, fw, kept>>

Interrupt ==
  /\ pc # "idle"
  /\ pc' = "idle"
  /\ status' = "failed"
  /\ UNCHANGED <<src, products, fw, dsym, kept>>

Next ==
  \/ Edit \/ Start \/ RemoveAll \/ Configure \/ XcodeOs \/ XcodeSim \/ Strip
  \/ Codesign \/ CopyFramework \/ RemoveExecutable \/ MergeFramework
  \/ CopySymbols \/ RemoveSymbols \/ MergeSymbols
  \/ FrameworkFails \/ SymbolsFail \/ Interrupt
Spec == Init /\ [][Next]_vars
-----------------------------------------------------------------------------
\* After a run that exits 0 and could remove what was there, symbols has both
\* halves of the dSYM, and no half of a framework in libs is of another
\* revision than its symbols, although the status says nothing about libs and
\* the tree may be edited between the two builds.
SlicesHaveSymbols ==
  status = "ok" /\ pc = "idle" /\ kept = {} =>
    \A s \in Sides : /\ dsym.file[s] \in Revisions
                     /\ fw.file[s].rev \in {None, dsym.file[s]}

\* Wherever the script has failed, in this run or an earlier one, a library
\* for the simulator gets into libs only stripped and with a signature that
\* holds, one for the device only stripped.
DistributedIsStripped ==
  \A s \in Sides : fw.file[s].rev # None =>
    fw.file[s].stripped /\ (s = "sim" => fw.file[s].signed)
=============================================================================
