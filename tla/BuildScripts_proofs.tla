------------------------ MODULE BuildScripts_proofs ------------------------
(***************************************************************************)
(* What the build scripts publish, the build phase ships and the stack     *)
(* walker finds, for any number of edits, architectures and frameworks:    *)
(* one inductive invariant for each machine, then those of all of them.    *)
(***************************************************************************)
EXTENDS BuildScripts, TLAPS
-----------------------------------------------------------------------------
\* How far the chain of build_lib_windows.bat has come.
WinBuilt == winPc \in {"copyDll", "copyLib", "copyPdb", "openSym", "dumpSyms"}
WinDllCopied == winPc \in {"copyLib", "copyPdb", "openSym", "dumpSyms"}
WinLibCopied == winPc \in {"copyPdb", "openSym", "dumpSyms"}
WinPdbCopied == winPc \in {"openSym", "dumpSyms"}

\* Each copy finds the build finished, and what is published is not ahead of
\* it: the symbols that are still there when the library is replaced are those
\* of an older build.
WindowsIInv ==
  /\ Windows!TypeOK
  /\ Windows!SymbolsNeverLead
  /\ Windows!OkPublishesOneBuild
  /\ sym <= winSrc /\ built <= winSrc
  /\ WinBuilt => built \in Windows!Revisions /\ sym <= built
  /\ WinDllCopied => dll = built
  /\ WinLibCopied => lib = built
  /\ WinPdbCopied => pdb = built

LEMMA WindowsCommands ==
  Windows!Commands = {"rd", "cmake", "build", "copyDll", "copyLib", "copyPdb", "openSym", "dumpSyms"}
  BY DEF Windows!Commands, Windows!Chain

\* Nothing is built at first.
LEMMA WindowsInit == Windows!Init => WindowsIInv
  BY BuildScriptsAssumption, WindowsCommands
     DEF Windows!Init, WindowsIInv, WinBuilt, WinDllCopied, WinLibCopied, WinPdbCopied,
         Windows!TypeOK, Windows!SymbolsNeverLead, Windows!OkPublishesOneBuild,
         Windows!Revisions, Windows!Files, Windows!None, Windows!Torn, Windows!MaxEditsAssumption

\* One command of the chain after the other.
LEMMA WindowsNext == WindowsIInv /\ [Windows!Next]_windows => WindowsIInv'
<1> SUFFICES ASSUME WindowsIInv, [Windows!Next]_windows PROVE WindowsIInv'
  OBVIOUS
<1> USE BuildScriptsAssumption, WindowsCommands
        DEF WindowsIInv, WinBuilt, WinDllCopied, WinLibCopied, WinPdbCopied,
            Windows!TypeOK, Windows!SymbolsNeverLead, Windows!OkPublishesOneBuild,
            Windows!Revisions, Windows!Files, Windows!None, Windows!Torn,
            Windows!MaxEditsAssumption, Windows!Run, Windows!published
<1>1. CASE Windows!Edit
  BY <1>1 DEF Windows!Edit
<1>2. CASE Windows!Start
  BY <1>2 DEF Windows!Start
<1>3. CASE Windows!RemoveBuildDir
  BY <1>3 DEF Windows!RemoveBuildDir
<1>4. CASE Windows!Configure
  BY <1>4 DEF Windows!Configure
<1>5. CASE Windows!Build
  BY <1>5 DEF Windows!Build
<1>6. CASE Windows!CopyDll
  BY <1>6 DEF Windows!CopyDll
<1>7. CASE Windows!CopyLib
  BY <1>7 DEF Windows!CopyLib
<1>8. CASE Windows!CopyPdb
  BY <1>8 DEF Windows!CopyPdb
<1>9. CASE Windows!OpenSym
  BY <1>9 DEF Windows!OpenSym
<1>10. CASE Windows!DumpSyms
  BY <1>10 DEF Windows!DumpSyms
<1>11. CASE Windows!Fail
  BY <1>11 DEF Windows!Fail
<1>12. CASE UNCHANGED windows
  BY <1>12 DEF windows
<1> QED
  BY <1>1, <1>2, <1>3, <1>4, <1>5, <1>6, <1>7, <1>8, <1>9, <1>10, <1>11, <1>12 DEF Windows!Next
-----------------------------------------------------------------------------
\* The loop of build_android.sh is running.
Copying == ndkPc \in {"mkdir", "cpOpen", "cpWrite"}

\* The loop begins with a release of what was compiled; the architectures
\* behind it have their symbols, or their copy has failed.
AndroidIInv ==
  /\ Android!TypeOK
  /\ ndkPc = "gradle" => i = 1 /\ missed = {}
  /\ Copying => /\ apk = obj /\ apk \in [Android!Archs -> Android!Revisions]
                /\ missed \subseteq {ARCH[n] : n \in 1..i - 1}
                /\ \A n \in 1..i - 1 :
                     ARCH[n] \notin missed => symbols[ARCH[n]] = apk[ARCH[n]]
  /\ Android!SymbolsAreOfTheRelease
  /\ Android!StatusVouchesForTheLast

\* The loop of build_android.sh has an architecture to begin with.
LEMMA ArchitecturesType ==
  /\ Len(ARCH) \in Nat \ {0}
  /\ \A n \in 1..Len(ARCH) : ARCH[n] \in Android!Archs
  /\ \A m, n \in 1..Len(ARCH) : ARCH[m] = ARCH[n] => m = n
  /\ Android!Last = ARCH[Len(ARCH)]
  /\ \A a \in Android!Archs : \E n \in 1..Len(ARCH) : a = ARCH[n]
  BY BuildScriptsAssumption DEF Android!AndroidAssumption, Android!Archs, Android!Last

LEMMA AndroidInit == Android!Init => AndroidIInv
  BY BuildScriptsAssumption, ArchitecturesType
     DEF Android!Init, AndroidIInv, Copying, Android!TypeOK, Android!SymbolsAreOfTheRelease,
         Android!StatusVouchesForTheLast, Android!Done, Android!Revisions, Android!Files,
         Android!Nothing, Android!None, Android!Torn, Android!AndroidAssumption

\* A turn of the loop ends, with the symbols of its architecture or without.
LEMMA AndroidTurn ==
  ASSUME AndroidIInv, Copying, NEW failed_ \in BOOLEAN, Android!Turn(failed_),
         UNCHANGED <<ndkSrc, obj, apk>>,
         IF failed_ THEN missed' = missed \cup {ARCH[i]} /\ UNCHANGED symbols
         ELSE missed' = missed /\ symbols' = [symbols EXCEPT ![ARCH[i]] = obj[ARCH[i]]]
  PROVE  AndroidIInv'
<1> USE ArchitecturesType DEF AndroidIInv, Copying, Android!TypeOK
<1>1. i \in 1..Len(ARCH) /\ ARCH[i] \in Android!Archs
  OBVIOUS
<1>2. \A n \in 1..i - 1 : n \in 1..Len(ARCH) /\ ARCH[n] # ARCH[i]
  BY <1>1
<1>3. missed' \subseteq {ARCH[n] : n \in 1..i}
  <2>1. missed' \subseteq missed \cup {ARCH[i]} /\ missed \subseteq {ARCH[n] : n \in 1..i - 1}
    OBVIOUS
  <2>2. {ARCH[n] : n \in 1..i - 1} \cup {ARCH[i]} \subseteq {ARCH[n] : n \in 1..i}
    BY <1>1
  <2> QED
    BY <2>1, <2>2
<1>4. \A n \in 1..i : ARCH[n] \notin missed' => symbols'[ARCH[n]] = apk[ARCH[n]]
  BY <1>1, <1>2
<1>5. symbols' \in [Android!Archs -> Android!Files]
  BY <1>1 DEF Android!Files
<1>6. CASE i < Len(ARCH)
  BY <1>1, <1>3, <1>4, <1>5, <1>6
     DEF Android!Turn, Android!SymbolsAreOfTheRelease, Android!StatusVouchesForTheLast, Android!Done
<1>7. CASE i = Len(ARCH)
  <2>1. ndkPc' = "idle" /\ i' = i /\ ndkStatus' \in {"ok", "failed"}
    BY <1>7 DEF Android!Turn
  <2>2. ndkStatus' = "ok" => ~failed_
    BY <1>7 DEF Android!Turn
  <2>3. Android!SymbolsAreOfTheRelease'
    BY <1>4, <1>7, <2>1 DEF Android!SymbolsAreOfTheRelease
  <2>4. Android!StatusVouchesForTheLast'
    BY <1>1, <1>2, <1>7, <2>2 DEF Android!StatusVouchesForTheLast, Android!Done
  <2> QED
    BY <1>1, <1>3, <1>5, <2>1, <2>3, <2>4
<1> QED
  BY <1>1, <1>6, <1>7

LEMMA AndroidNext == AndroidIInv /\ [Android!Next]_android => AndroidIInv'
<1> SUFFICES ASSUME AndroidIInv, [Android!Next]_android PROVE AndroidIInv'
  OBVIOUS
<1> USE DEF Android!build
<1>1. ASSUME Android!CopyWrite PROVE AndroidIInv'
  BY <1>1, AndroidTurn DEF Android!CopyWrite, Copying
<1>2. ASSUME Android!CopyFails PROVE AndroidIInv'
  BY <1>2, AndroidTurn DEF Android!CopyFails, Copying
<1> USE BuildScriptsAssumption, ArchitecturesType
        DEF AndroidIInv, Copying, Android!TypeOK, Android!SymbolsAreOfTheRelease,
            Android!StatusVouchesForTheLast, Android!Done, Android!AndroidAssumption
<1>3. CASE Android!Edit
  BY <1>3 DEF Android!Edit, Android!Revisions, Android!Files
<1>4. CASE Android!Clean
  BY <1>4 DEF Android!Clean, Android!Nothing
<1>5. CASE Android!Compile
  BY <1>5 DEF Android!Compile
<1>6. CASE Android!Assemble
  <2>1. obj \in [Android!Archs -> Android!Revisions]
    BY <1>6 DEF Android!Assemble
  <2> QED
    BY <1>6, <2>1 DEF Android!Assemble
<1>7. CASE Android!GradleFails
  BY <1>7 DEF Android!GradleFails
<1>8. CASE Android!MakeDir
  BY <1>8 DEF Android!MakeDir
<1>9. CASE Android!CopyOpen
  <2>1. \A n \in 1..i - 1 : ARCH[n] # ARCH[i]
    OBVIOUS
  <2> QED
    BY <1>9, <2>1 DEF Android!CopyOpen, Android!Files
<1>10. CASE Android!Interrupt
  BY <1>10 DEF Android!Interrupt
<1>11. CASE UNCHANGED android
  BY <1>11 DEF android
<1> QED
  BY <1>1, <1>2, <1>3, <1>4, <1>5, <1>6, <1>7, <1>8, <1>9, <1>10, <1>11 DEF Android!Next

\* Only the loop writes symbols, and it is behind the &&.
LEMMA AndroidSymbols ==
  AndroidIInv /\ [Android!Next]_android =>
    \A a \in Android!Archs : symbols'[a] # symbols[a] => apk[a] \in Android!Revisions
  BY DEF AndroidIInv, Copying, Android!Next, Android!Edit, Android!Clean, Android!Compile,
         Android!Assemble, Android!GradleFails, Android!MakeDir, Android!CopyOpen,
         Android!CopyWrite, Android!CopyFails, Android!Interrupt, Android!build, android
-----------------------------------------------------------------------------
\* The framework's list of build_lib_ios.sh, up to what has copied it to libs.
IosBuilding == iosPc \in {"cmake", "xcodeOs", "xcodeSim", "strip", "codesign", "cpFw"}
IosRunning == iosPc \notin {"idle", "rm"}

\* If rm has done its work, libs is empty until the framework is copied, and
\* what is copied, and merged, has the symbols built with it.
IosIInv ==
  /\ Ios!TypeOK
  /\ Ios!DistributedIsStripped
  /\ kept = {} /\ IosBuilding => fw.file = Ios!Both(Ios!NoSlice)
  /\ kept = {} /\ IosRunning => \A s \in Ios!Sides :
       /\ thin[s].rev \in {0, thinSym[s]}
       /\ fw.file[s].rev \in {0, thinSym[s]}
  /\ iosPc = "codesign" => \A s \in Ios!Sides : thin[s].stripped
  /\ iosPc \in {"cpFw", "rmFw", "lipoFw"} =>
       /\ \A s \in Ios!Sides : thin[s].stripped
       /\ thin["sim"].signed
  /\ Ios!SlicesHaveSymbols

LEMMA IosInit == Ios!Init => IosIInv
  BY BuildScriptsAssumption
     DEF Ios!Init, IosIInv, IosBuilding, IosRunning, Ios!TypeOK, Ios!DistributedIsStripped,
         Ios!SlicesHaveSymbols, Ios!Revisions, Ios!Slice, Ios!NoSlice, Ios!Both, Ios!NoBundle,
         Ios!None, Ios!Sides, Ios!MaxEditsAssumption

\* What files and bundles are made of.
LEMMA IosSlices ==
  /\ "os" \in Ios!Sides /\ "sim" \in Ios!Sides
  /\ Ios!NoSlice \in Ios!Slice /\ Ios!NoSlice.rev = 0
  BY DEF Ios!Sides, Ios!NoSlice, Ios!Slice, Ios!None

LEMMA IosStripped ==
  ASSUME NEW x \in Ios!Slice
  PROVE  /\ Ios!Stripped(x) \in Ios!Slice
         /\ Ios!Stripped(x).rev = x.rev /\ Ios!Stripped(x).stripped
  BY DEF Ios!Slice, Ios!Stripped

LEMMA IosFrameworks ==
  ASSUME NEW file \in Ios!Slice
  PROVE  LET Bundle == [dir : BOOLEAN, file : [Ios!Sides -> Ios!Slice]]
         IN  /\ Ios!NoBundle(Ios!NoSlice) \in Bundle
             /\ [Ios!NoBundle(Ios!NoSlice) EXCEPT !.dir = TRUE] \in Bundle
             /\ [dir |-> TRUE, file |-> [os |-> file, sim |-> Ios!NoSlice]] \in Bundle
             /\ Ios!Both(Ios!NoSlice) \in [Ios!Sides -> Ios!Slice]
<1>1. Ios!Both(Ios!NoSlice) \in [Ios!Sides -> Ios!Slice]
  BY IosSlices DEF Ios!Both
<1>2. [os |-> file, sim |-> Ios!NoSlice] \in [Ios!Sides -> Ios!Slice]
  BY IosSlices DEF Ios!Sides
<1> QED
  BY <1>1, <1>2 DEF Ios!NoBundle

LEMMA IosSymbols ==
  ASSUME NEW file \in (Ios!Revisions \cup {Ios!None})
  PROVE  LET Bundle == [dir : BOOLEAN, file : [Ios!Sides -> (Ios!Revisions \cup {Ios!None})]]
         IN  /\ Ios!NoBundle(Ios!None) \in Bundle
             /\ [Ios!NoBundle(Ios!None) EXCEPT !.dir = TRUE] \in Bundle
             /\ [dir |-> TRUE, file |-> [os |-> file, sim |-> Ios!None]] \in Bundle
             /\ Ios!Both(Ios!None) \in [Ios!Sides -> (Ios!Revisions \cup {Ios!None})]
<1>1. Ios!Both(Ios!None) \in [Ios!Sides -> (Ios!Revisions \cup {Ios!None})]
  BY IosSlices DEF Ios!Both
<1>2. [os |-> file, sim |-> Ios!None] \in [Ios!Sides -> (Ios!Revisions \cup {Ios!None})]
  BY IosSlices DEF Ios!Sides
<1> QED
  BY <1>1, <1>2 DEF Ios!NoBundle

\* The commands that write a variable, and that no other does.
LEMMA IosWrites ==
  ASSUME [Ios!Next]_ios
  PROVE  /\ \/ Ios!RemoveAll \/ Ios!XcodeOs \/ Ios!XcodeSim \/ Ios!Strip \/ Ios!Codesign
            \/ Ios!FrameworkFails \/ UNCHANGED thin
         /\ Ios!RemoveAll \/ Ios!XcodeOs \/ Ios!XcodeSim \/ UNCHANGED thinSym
         /\ \/ Ios!RemoveAll \/ Ios!CopyFramework \/ Ios!RemoveExecutable
            \/ Ios!MergeFramework \/ Ios!FrameworkFails \/ UNCHANGED fw
         /\ \/ Ios!RemoveAll \/ Ios!CopySymbols \/ Ios!RemoveSymbols
            \/ Ios!MergeSymbols \/ Ios!SymbolsFail \/ UNCHANGED dsym
<1> USE DEF Ios!products, Ios!Run, Ios!Xcode
<1>1. CASE UNCHANGED ios
  BY <1>1 DEF ios
<1>2. CASE Ios!Next
  BY <1>2 DEF Ios!Next, Ios!Edit, Ios!Start, Ios!Configure, Ios!XcodeOs, Ios!XcodeSim,
     Ios!Strip, Ios!Codesign, Ios!CopyFramework, Ios!RemoveExecutable, Ios!MergeFramework,
     Ios!CopySymbols, Ios!RemoveSymbols, Ios!MergeSymbols, Ios!FrameworkFails,
     Ios!SymbolsFail, Ios!Interrupt
<1> QED
  BY <1>1, <1>2

LEMMA IosNextType == Ios!TypeOK /\ [Ios!Next]_ios => Ios!TypeOK'
<1> SUFFICES ASSUME Ios!TypeOK, [Ios!Next]_ios PROVE Ios!TypeOK'
  OBVIOUS
<1> DEFINE Thins == [Ios!Sides -> Ios!Slice]
           ThinSyms == [Ios!Sides -> Ios!Revisions \cup {Ios!None}]
           Fws == [dir : BOOLEAN, file : Thins]
           Dsyms == [dir : BOOLEAN, file : ThinSyms]
<1>1. /\ iosSrc \in Ios!Revisions /\ thin \in Thins /\ thinSym \in ThinSyms
      /\ fw \in Fws /\ dsym \in Dsyms
  BY DEF Ios!TypeOK
<1>2. [rev |-> iosSrc, stripped |-> FALSE, signed |-> TRUE] \in Ios!Slice
  BY <1>1 DEF Ios!Slice
<1>3. thin["os"] \in Ios!Slice /\ thinSym["os"] \in Ios!Revisions \cup {Ios!None}
  BY <1>1, IosSlices
<1>4. thin' \in Thins
  <2>1. CASE Ios!RemoveAll
    BY <1>1, <2>1, IosSlices DEF Ios!RemoveAll, Ios!products, Ios!Both
  <2>2. CASE Ios!XcodeOs
    BY <1>1, <1>2, <2>2, IosSlices DEF Ios!XcodeOs, Ios!Xcode, Ios!products
  <2>3. CASE Ios!XcodeSim
    BY <1>1, <1>2, <2>3, IosSlices DEF Ios!XcodeSim, Ios!Xcode, Ios!products
  <2>4. CASE Ios!Strip
    BY <1>1, <2>4, IosStripped DEF Ios!Strip
  <2>5. CASE Ios!Codesign
    BY <1>1, <2>5, IosSlices DEF Ios!Codesign, Ios!Slice
  <2>6. CASE Ios!FrameworkFails
    BY <1>1, <2>6, IosSlices, IosStripped DEF Ios!FrameworkFails
  <2> QED
    BY <1>1, <2>1, <2>2, <2>3, <2>4, <2>5, <2>6, IosWrites
<1>5. thinSym' \in ThinSyms
  <2>1. CASE Ios!RemoveAll
    BY <1>1, <2>1 DEF Ios!RemoveAll, Ios!products, Ios!Both
  <2>2. CASE Ios!XcodeOs
    BY <1>1, <2>2 DEF Ios!XcodeOs, Ios!Xcode, Ios!products
  <2>3. CASE Ios!XcodeSim
    BY <1>1, <2>3 DEF Ios!XcodeSim, Ios!Xcode, Ios!products
  <2> QED
    BY <1>1, <2>1, <2>2, <2>3, IosWrites
<1>6. fw' \in Fws
  <2>1. CASE Ios!RemoveAll
    <3>1. fw' \in {fw, Ios!NoBundle(Ios!NoSlice)}
      BY <2>1 DEF Ios!RemoveAll
    <3> QED
      BY <1>1, <1>3, <3>1, IosSlices, IosFrameworks
  <2>2. CASE Ios!CopyFramework
    <3>1. fw' \in {fw, [dir |-> TRUE, file |-> [os |-> thin["os"], sim |-> Ios!NoSlice]]}
      BY <2>2 DEF Ios!CopyFramework, Ios!Copied
    <3> QED
      BY <1>1, <1>3, <3>1, IosSlices, IosFrameworks
  <2>3. CASE Ios!RemoveExecutable
    <3>1. fw' = [fw EXCEPT !.file = Ios!Both(Ios!NoSlice)] /\ Ios!Both(Ios!NoSlice) \in Thins
      BY <1>3, <2>3, IosSlices, IosFrameworks DEF Ios!RemoveExecutable
    <3> QED
      BY <1>1, <3>1
  <2>4. CASE Ios!MergeFramework
    <3>1. fw' = [fw EXCEPT !.file = thin]
      BY <2>4 DEF Ios!MergeFramework
    <3> QED
      BY <1>1, <3>1
  <2>5. CASE Ios!FrameworkFails
    <3>1. fw' \in {fw, [Ios!NoBundle(Ios!NoSlice) EXCEPT !.dir = TRUE]}
      BY <2>5 DEF Ios!FrameworkFails
    <3> QED
      BY <1>1, <1>3, <3>1, IosSlices, IosFrameworks
  <2> QED
    BY <1>1, <2>1, <2>2, <2>3, <2>4, <2>5, IosWrites
<1>7. dsym' \in Dsyms
  <2>1. CASE Ios!RemoveAll
    <3>1. dsym' \in {dsym, Ios!NoBundle(Ios!None)}
      BY <2>1 DEF Ios!RemoveAll
    <3> QED
      BY <1>1, <1>3, <3>1, IosSymbols
  <2>2. CASE Ios!CopySymbols
    <3>1. dsym' \in {dsym, [dir |-> TRUE, file |-> [os |-> thinSym["os"], sim |-> Ios!None]]}
      BY <2>2 DEF Ios!CopySymbols, Ios!Copied
    <3> QED
      BY <1>1, <1>3, <3>1, IosSymbols
  <2>3. CASE Ios!RemoveSymbols
    <3>1. dsym' = [dsym EXCEPT !.file = Ios!Both(Ios!None)] /\ Ios!Both(Ios!None) \in ThinSyms
      BY <1>3, <2>3, IosSymbols DEF Ios!RemoveSymbols
    <3> QED
      BY <1>1, <3>1
  <2>4. CASE Ios!MergeSymbols
    <3>1. dsym' = [dsym EXCEPT !.file = thinSym]
      BY <2>4 DEF Ios!MergeSymbols
    <3> QED
      BY <1>1, <3>1
  <2>5. CASE Ios!SymbolsFail
    <3>1. dsym' \in {dsym, [Ios!NoBundle(Ios!None) EXCEPT !.dir = TRUE]}
      BY <2>5 DEF Ios!SymbolsFail
    <3> QED
      BY <1>1, <1>3, <3>1, IosSymbols
  <2> QED
    BY <1>1, <2>1, <2>2, <2>3, <2>4, <2>5, IosWrites
<1>8. /\ iosSrc' \in Ios!Revisions
      /\ iosPc' \in {"idle", "rm"} \cup Ios!FrameworkList \cup Ios!SymbolList
      /\ iosStatus' \in {"none", "ok", "failed"}
      /\ kept' \subseteq {"build", "fw", "dsym"}
  <2> USE BuildScriptsAssumption DEF Ios!TypeOK, Ios!Run
  <2>1. CASE Ios!Edit
    BY <2>1 DEF Ios!Edit, Ios!Revisions, Ios!MaxEditsAssumption
  <2>2. CASE UNCHANGED ios
    BY <2>2 DEF ios
  <2>3. CASE Ios!Next /\ ~Ios!Edit
    BY <2>3 DEF Ios!Next, Ios!Start, Ios!RemoveAll, Ios!Configure, Ios!XcodeOs, Ios!XcodeSim,
       Ios!Xcode, Ios!Strip, Ios!Codesign, Ios!CopyFramework, Ios!RemoveExecutable,
       Ios!MergeFramework, Ios!CopySymbols, Ios!RemoveSymbols, Ios!MergeSymbols,
       Ios!FrameworkFails, Ios!SymbolsFail, Ios!Interrupt, Ios!FrameworkList, Ios!SymbolList
  <2> QED
    BY <2>1, <2>2, <2>3
<1> QED
  BY <1>4, <1>5, <1>6, <1>7, <1>8 DEF Ios!TypeOK

\* Bundles of which nothing has been built.
LEMMA IosEmpty ==
  /\ Ios!NoBundle(Ios!NoSlice).file = Ios!Both(Ios!NoSlice)
  /\ [Ios!NoBundle(Ios!NoSlice) EXCEPT !.dir = TRUE].file = Ios!Both(Ios!NoSlice)
  /\ \A s \in Ios!Sides : Ios!Both(Ios!NoSlice)[s].rev = 0
  BY DEF Ios!NoBundle, Ios!NoSlice, Ios!Both, Ios!None

\* What the framework's list preserves until it has copied to libs.
LEMMA IosNextSlices == IosIInv /\ [Ios!Next]_ios => IosIInv'
<1> SUFFICES ASSUME IosIInv, [Ios!Next]_ios PROVE IosIInv'
  OBVIOUS
<1>a. Ios!TypeOK'
  BY IosNextType DEF IosIInv
<1>b. /\ thin \in [Ios!Sides -> Ios!Slice]
      /\ thinSym \in [Ios!Sides -> Ios!Revisions \cup {0}]
      /\ fw.file \in [Ios!Sides -> Ios!Slice] /\ fw \in [dir : BOOLEAN, file : [Ios!Sides -> Ios!Slice]]
      /\ dsym \in [dir : BOOLEAN, file : [Ios!Sides -> Ios!Revisions \cup {0}]]
  BY DEF IosIInv, Ios!TypeOK, Ios!None
<1> USE DEF IosIInv, IosBuilding, IosRunning, Ios!DistributedIsStripped, Ios!SlicesHaveSymbols,
            Ios!Run, Ios!products, Ios!None
<1>1. CASE UNCHANGED <<thin, thinSym, fw, dsym, kept>> /\ UNCHANGED <<iosPc, iosStatus>>
  BY <1>a, <1>1 DEF Ios!Revisions
<1>2. CASE Ios!Start
  BY <1>a, <1>2 DEF Ios!Start
<1>3. CASE Ios!RemoveAll
  <2>1. fw' = fw \/ fw'.file = Ios!Both(Ios!NoSlice)
    BY <1>3, IosEmpty DEF Ios!RemoveAll
  <2>2. kept' = {} => thin' = Ios!Both(Ios!NoSlice) /\ fw'.file = Ios!Both(Ios!NoSlice)
    BY <1>3, IosEmpty DEF Ios!RemoveAll
  <2>3. iosPc' = "cmake"
    BY <1>3 DEF Ios!RemoveAll
  <2> QED
    BY <1>a, <2>1, <2>2, <2>3, IosEmpty
<1>4. CASE Ios!Configure
  BY <1>a, <1>4 DEF Ios!Configure
<1>5. CASE Ios!XcodeOs
  <2>1. UNCHANGED <<fw, dsym, kept, iosStatus>> /\ iosPc' \in {"xcodeSim", "strip"}
    BY <1>5 DEF Ios!XcodeOs, Ios!Xcode
  <2>2. kept = {} => fw.file = Ios!Both(Ios!NoSlice)
    BY <1>5 DEF Ios!XcodeOs
  <2>3. kept = {} => \A s \in Ios!Sides : thin'[s].rev \in {0, thinSym'[s]}
    <3>1. CASE UNCHANGED <<thin, thinSym>>
      BY <1>5, <3>1 DEF Ios!XcodeOs
    <3>2. CASE /\ thin' = [thin EXCEPT !["os"] = [rev |-> iosSrc, stripped |-> FALSE, signed |-> TRUE]]
               /\ thinSym' = [thinSym EXCEPT !["os"] = iosSrc]
      BY <1>b, <1>5, <3>2, IosSlices DEF Ios!XcodeOs
    <3> QED
      BY <1>5, <3>1, <3>2 DEF Ios!XcodeOs, Ios!Xcode
  <2> QED
    BY <1>a, <2>1, <2>2, <2>3, IosEmpty
<1>6. CASE Ios!XcodeSim
  <2>1. UNCHANGED <<fw, dsym, kept, iosStatus>> /\ iosPc' \in {"xcodeSim", "strip"}
    BY <1>6 DEF Ios!XcodeSim, Ios!Xcode
  <2>2. kept = {} => fw.file = Ios!Both(Ios!NoSlice)
    BY <1>6 DEF Ios!XcodeSim
  <2>3. kept = {} => \A s \in Ios!Sides : thin'[s].rev \in {0, thinSym'[s]}
    <3>1. CASE UNCHANGED <<thin, thinSym>>
      BY <1>6, <3>1 DEF Ios!XcodeSim
    <3>2. CASE /\ thin' = [thin EXCEPT !["sim"] = [rev |-> iosSrc, stripped |-> FALSE, signed |-> TRUE]]
               /\ thinSym' = [thinSym EXCEPT !["sim"] = iosSrc]
      BY <1>b, <1>6, <3>2, IosSlices DEF Ios!XcodeSim
    <3> QED
      BY <1>6, <3>1, <3>2 DEF Ios!XcodeSim, Ios!Xcode
  <2> QED
    BY <1>a, <2>1, <2>2, <2>3, IosEmpty
<1>7. CASE Ios!Strip
  BY <1>a, <1>b, <1>7, IosStripped DEF Ios!Strip
<1>8. CASE Ios!Codesign
  BY <1>a, <1>b, <1>8, IosSlices DEF Ios!Codesign
<1>9. CASE Ios!CopyFramework
  <2>1. /\ iosPc = "cpFw" /\ iosPc' = "rmFw"
        /\ UNCHANGED <<thin, thinSym, dsym, kept, iosStatus>>
    BY <1>9 DEF Ios!CopyFramework
  <2>2. fw' = fw \/ fw'.file = [os |-> thin["os"], sim |-> Ios!NoSlice]
    BY <1>9 DEF Ios!CopyFramework, Ios!Copied
  <2>3. \A s \in Ios!Sides : [os |-> thin["os"], sim |-> Ios!NoSlice][s] \in {thin[s], Ios!NoSlice}
    BY DEF Ios!Sides
  <2>4. \A s \in Ios!Sides : fw'.file[s] \in {fw.file[s], thin[s], Ios!NoSlice}
    BY <2>2, <2>3
  <2> QED
    BY <1>a, <2>1, <2>4, IosSlices
<1>10. CASE Ios!RemoveExecutable
  BY <1>a, <1>b, <1>10, IosEmpty DEF Ios!RemoveExecutable
<1>11. CASE Ios!MergeFramework
  BY <1>a, <1>b, <1>11 DEF Ios!MergeFramework
<1>12. CASE Ios!CopySymbols
  BY <1>a, <1>12 DEF Ios!CopySymbols
<1>13. CASE Ios!RemoveSymbols
  BY <1>a, <1>13 DEF Ios!RemoveSymbols
<1>14. CASE Ios!MergeSymbols
  BY <1>a, <1>b, <1>14 DEF Ios!MergeSymbols
<1>15. CASE Ios!FrameworkFails
  <2>1. iosPc' = "cpSym" /\ iosPc \in Ios!FrameworkList /\ UNCHANGED <<thinSym, dsym, kept, iosStatus>>
    BY <1>15 DEF Ios!FrameworkFails
  <2>2. \A s \in Ios!Sides : thin'[s].rev \in {0, thin[s].rev}
    BY <1>b, <1>15, IosSlices, IosStripped DEF Ios!FrameworkFails
  <2>3. fw' = fw \/ fw'.file = Ios!Both(Ios!NoSlice)
    BY <1>15, IosEmpty DEF Ios!FrameworkFails
  <2> QED
    BY <1>a, <2>1, <2>2, <2>3, IosEmpty DEF Ios!FrameworkList
<1>16. CASE Ios!SymbolsFail
  BY <1>a, <1>16 DEF Ios!SymbolsFail
<1>17. CASE Ios!Interrupt
  BY <1>a, <1>17 DEF Ios!Interrupt
<1> QED
  BY <1>1, <1>2, <1>3, <1>4, <1>5, <1>6, <1>7, <1>8, <1>9, <1>10, <1>11, <1>12,
     <1>13, <1>14, <1>15, <1>16, <1>17 DEF Ios!Next, Ios!Edit, ios
-----------------------------------------------------------------------------
\* A framework the phase can thin: a universal one with every architecture of
\* the build, of which no command has failed that need not.
Thinnable(f) == f \in Frameworks \ failed /\ shipped[f].fat /\ ARCHS \subseteq shipped[f].archs

\* The framework at hand has its architectures extracted one by one, unless its
\* executable is gone; then, and as soon as they are merged, the merged file is
\* there.  What find has come to, and the script is done with, is thinned.
PhaseIInv ==
  /\ Phase!TypeOK
  /\ Phase!NothingInBetween
  /\ pc = "merge" => archs = {}
  /\ pc \in {"extract", "merge"} /\ Thinnable(current) =>
       executable[current] = Phase!Gone \/ ARCHS \ archs \subseteq extracted[current]
  /\ pc \in {"rmExtracted", "rm", "mv"} /\ Thinnable(current) => merged[current] = Phase!Stripped
  /\ \A f \in Frameworks \ (Skipped \cup todo) :
       Thinnable(f) /\ (f = current => pc \in {"find", "idle"}) => executable[f] = Phase!Stripped

\* Files that are gone, and those with the architectures of the build.
LEMMA PhaseFiles ==
  /\ Phase!Gone \notin Phase!Executables /\ Phase!Stripped \in Phase!Executables
  /\ Phase!Stripped # Phase!Gone
  /\ Phase!Stripped.fat /\ Phase!Stripped.archs = ARCHS /\ ~Phase!Gone.fat
<1>1. ARCHS \in (SUBSET Slices) \ {{}}
  BY BuildScriptsAssumption DEF Phase!StripAssumption
<1>2. Phase!Gone.archs = {} /\ ~Phase!Gone.fat
  BY DEF Phase!Gone
<1>3. \A x \in Phase!Executables : x.archs # {}
  BY DEF Phase!Executables
<1>4. Phase!Stripped.fat /\ Phase!Stripped.archs = ARCHS
  BY DEF Phase!Stripped
<1>5. Phase!Stripped \in Phase!Executables
  BY <1>1 DEF Phase!Stripped, Phase!Executables
<1> QED
  BY <1>2, <1>3, <1>4, <1>5

LEMMA PhaseInit == Phase!Init => PhaseIInv
<1> SUFFICES ASSUME Phase!Init PROVE PhaseIInv
  OBVIOUS
<1> USE PhaseFiles DEF Phase!Init
<1>1. Phase!TypeOK
  BY DEF Phase!TypeOK
<1>2. Phase!NothingInBetween
  BY DEF Phase!NothingInBetween
<1> QED
  BY <1>1, <1>2 DEF PhaseIInv, Thinnable

LEMMA PhaseNextType == Phase!TypeOK /\ [Phase!Next]_phase => Phase!TypeOK'
<1> SUFFICES ASSUME Phase!TypeOK, [Phase!Next]_phase PROVE Phase!TypeOK'
  OBVIOUS
<1> USE PhaseFiles DEF Phase!TypeOK, Phase!Run, Phase!files
<1>1. CASE Phase!Rebuild
  BY <1>1 DEF Phase!Rebuild
<1>2. CASE Phase!Find
  BY <1>2 DEF Phase!Find
<1>3. CASE Phase!Finish
  BY <1>3 DEF Phase!Finish
<1>4. CASE Phase!Extract
  BY <1>4 DEF Phase!Extract, Phase!Fails
<1>5. CASE Phase!ExtractedAll
  BY <1>5 DEF Phase!ExtractedAll
<1>6. CASE Phase!Merge
  BY <1>6 DEF Phase!Merge, Phase!Fails
<1>7. CASE Phase!RemoveExtracted
  BY <1>7 DEF Phase!RemoveExtracted
<1>8. CASE Phase!Remove
  BY <1>8 DEF Phase!Remove
<1>9. CASE Phase!Move
  BY <1>9 DEF Phase!Move
<1>10. CASE Phase!Cancel
  BY <1>10 DEF Phase!Cancel
<1>11. CASE UNCHANGED phase
  BY <1>11 DEF phase
<1> QED
  BY <1>1, <1>2, <1>3, <1>4, <1>5, <1>6, <1>7, <1>8, <1>9, <1>10, <1>11 DEF Phase!Next

LEMMA PhaseNext == PhaseIInv /\ [Phase!Next]_phase => PhaseIInv'
<1> SUFFICES ASSUME PhaseIInv, [Phase!Next]_phase PROVE PhaseIInv'
  OBVIOUS
<1>a. Phase!TypeOK'
  BY PhaseNextType DEF PhaseIInv
<1> USE PhaseFiles
        DEF PhaseIInv, Thinnable, Phase!NothingInBetween, Phase!TypeOK, Phase!Run, Phase!files
<1>1. CASE Phase!Rebuild
  BY <1>a, <1>1 DEF Phase!Rebuild
<1>2. CASE Phase!Find
  BY <1>a, <1>2 DEF Phase!Find
<1>3. CASE Phase!Finish
  BY <1>a, <1>3 DEF Phase!Finish
<1>4. CASE Phase!Extract
  BY <1>a, <1>4 DEF Phase!Extract, Phase!Fails, Phase!CanExtract
<1>5. CASE Phase!ExtractedAll
  BY <1>a, <1>5 DEF Phase!ExtractedAll
<1>6. CASE Phase!Merge
  BY <1>a, <1>6 DEF Phase!Merge, Phase!Fails
<1>7. CASE Phase!RemoveExtracted
  BY <1>a, <1>7 DEF Phase!RemoveExtracted
<1>8. CASE Phase!Remove
  BY <1>a, <1>8 DEF Phase!Remove
<1>9. CASE Phase!Move
  BY <1>a, <1>9 DEF Phase!Move
<1>10. CASE Phase!Cancel
  BY <1>a, <1>10 DEF Phase!Cancel
<1>11. CASE UNCHANGED phase
  BY <1>a, <1>11 DEF phase
<1> QED
  BY <1>1, <1>2, <1>3, <1>4, <1>5, <1>6, <1>7, <1>8, <1>9, <1>10, <1>11 DEF Phase!Next
-----------------------------------------------------------------------------
\* The build and the script keep to their own invariants; besides, a script runs
\* only after a crash, and symbols fetched after a build that has exited 0 lie
\* beside the minidump whole.
LinuxIInv ==
  /\ Linux!Build!IInv /\ Linux!Build!NotYetStripped /\ Linux!Build!LinesDumped
  /\ Linux!Walk!IInv /\ Linux!Walk!Staged
  /\ {dump, released} \subseteq Linux!Revisions \cup {Linux!None}
  /\ walkPc["user"] # "idle" => dump # Linux!None
  /\ released # Linux!None => cwd[Linux!SymFile] = Linux!Holding(released, "whole")

\* One user walks: the assumptions of WalkStack.
LEMMA WalkIsAlone ==
  /\ Linux!Walk!Alone
  /\ Linux!Walk!Nobody \notin {"user"}
  /\ [m \in {Linux!Module} |-> Linux!SymFile] \in [{Linux!Module} -> {Linux!SymFile}]
  /\ "libcrash.s" \notin {Linux!Module}
  /\ {Linux!Holding(r, body) : r \in Linux!Revisions, body \in {"whole", "torn", "short"}} \subseteq
       [mod : {Linux!Module}, id : Linux!Revisions, body : {"whole", "torn", "cut", "short"}]
  BY DEF Linux!Walk!Alone, Linux!Walk!Nobody, Linux!Module, Linux!Holding

\* walk_stack.py starts, or goes on, or files are put beside it.
LEMMA WalkMoves ==
  ASSUME Linux!Walk!IInv, Linux!Walk!Staged,
         \/ Linux!Walk!Script("user") \/ Linux!Walk!Start("user")
         \/ UNCHANGED <<cwd, store, walkPc, walkTodo, cur, walkStatus>>
         \/ \E c \in {Linux!Holding(r, body) : r \in Linux!Revisions, body \in {"whole", "torn", "short"}} :
              Linux!Walk!Place(Linux!SymFile, c)
  PROVE  Linux!Walk!IInv' /\ Linux!Walk!Staged'
<1>1. [Linux!Walk!Next]_(Linux!Walk!vars)
  BY DEF Linux!Walk!Next, Linux!Walk!vars
<1> QED
  BY <1>1, WalkIsAlone, Linux!Walk!NextTypeOK, Linux!Walk!NextPending,
     Linux!Walk!NextOwnSymbols, Linux!Walk!NextStaged DEF Linux!Walk!IInv

\* A command of build_linux.sh, or none.
LEMMA BuildMoves ==
  ASSUME Linux!Build!IInv, Linux!Build!NotYetStripped, Linux!Build!LinesDumped,
         Linux!Build!Next \/ UNCHANGED <<linSrc, linObj, linSym, linLib, example, linKept, linPc, linStatus>>
  PROVE  Linux!Build!IInv' /\ Linux!Build!NotYetStripped' /\ Linux!Build!LinesDumped'
<1>1. [Linux!Build!Next]_(Linux!Build!vars)
  BY DEF Linux!Build!vars
<1> QED
  BY <1>1, Linux!Build!NextTypeOK, Linux!Build!NextPublishing, Linux!Build!NextLines, BuildScriptsAssumption
     DEF Linux!Build!IInv

LEMMA LinuxInit == Linux!Init => LinuxIInv
<1> SUFFICES ASSUME Linux!Init PROVE LinuxIInv
  OBVIOUS
<1>1. Linux!Build!IInv /\ Linux!Build!NotYetStripped /\ Linux!Build!LinesDumped
  BY Linux!Build!InitIInv, Linux!Build!InitLines, BuildScriptsAssumption DEF Linux!Init
<1>2. Linux!Walk!IInv
  BY WalkIsAlone, Linux!Walk!InitIInv DEF Linux!Init
<1>3. Linux!Walk!Staged /\ walkPc["user"] = "idle"
  BY DEF Linux!Init, Linux!Walk!Init, Linux!Walk!Staged
<1> QED
  BY <1>1, <1>2, <1>3 DEF Linux!Init, LinuxIInv

LEMMA LinuxNext == LinuxIInv /\ [Linux!Next]_linux => LinuxIInv'
<1> SUFFICES ASSUME LinuxIInv, [Linux!Next]_linux PROVE LinuxIInv'
  OBVIOUS
<1> DEFINE Same == UNCHANGED <<cwd, store, walkPc, walkTodo, cur, walkStatus>>
           SameFiles == UNCHANGED <<linSrc, linObj, linSym, linLib, example, linKept, linPc, linStatus>>
<1>1. CASE Linux!BuildStep
  <2>1. Linux!Build!Next /\ Same /\ UNCHANGED <<dump, released>>
    BY <1>1 DEF Linux!BuildStep, Linux!walk
  <2> QED
    BY <2>1, WalkMoves, BuildMoves DEF LinuxIInv
<1>2. CASE Linux!Crash
  <2>1. Same /\ SameFiles /\ UNCHANGED released /\ dump' \in Linux!Revisions /\ walkPc["user"] = "idle"
    BY <1>2 DEF Linux!Crash, Linux!build, Linux!walk, Linux!Walking
  <2> QED
    BY <2>1, WalkMoves, BuildMoves DEF LinuxIInv
<1>3. CASE Linux!FetchSymbols
  <2>1. PICK c \in Linux!Copies : Linux!Walk!Place(Linux!SymFile, c)
    BY <1>3 DEF Linux!FetchSymbols
  <2>2. /\ SameFiles /\ dump' = dump
        /\ released' = IF linPc = "idle" /\ linStatus = "ok" /\ ~linKept THEN linLib ELSE Linux!None
    BY <1>3 DEF Linux!FetchSymbols, Linux!build
  <2>3. c \in {Linux!Holding(r, body) : r \in Linux!Revisions, body \in {"whole", "torn", "short"}}
    BY <2>1 DEF Linux!Copies
  <2>4. walkPc' = walkPc /\ cwd' = [cwd EXCEPT ![Linux!SymFile] = c]
    BY <2>1 DEF Linux!Walk!Place
  <2>5. cwd'[Linux!SymFile] = c
    BY <2>4 DEF LinuxIInv, Linux!Walk!IInv, Linux!Walk!TypeOK
  <2>6. ASSUME linPc = "idle", linStatus = "ok", ~linKept
        PROVE  linLib \in Linux!Revisions /\ c = Linux!Holding(linLib, "whole")
    <3>1. linLib \in Linux!Revisions /\ linSym.file = linLib /\ linSym.lines
      BY <2>6 DEF LinuxIInv, Linux!Build!IInv, Linux!Build!Progress, Linux!Build!Done,
         Linux!Build!LinesDumped, Linux!Revisions, Linux!Build!Revisions
    <3>2. linSym.file # Linux!None /\ linSym.file # Linux!Build!Torn /\ linSym.lines = TRUE
      BY <3>1 DEF LinuxIInv, Linux!Build!IInv, Linux!Build!TypeOK, Linux!Revisions, Linux!None, Linux!Build!Revisions, Linux!Build!None, Linux!Build!Torn
    <3>3. Linux!Copies = {Linux!Holding(linSym.file, "whole")}
      BY <3>2 DEF Linux!Copies, Linux!None
    <3> QED
      BY <2>1, <3>1, <3>3
  <2> QED
    BY <2>1, <2>2, <2>3, <2>4, <2>5, <2>6, WalkMoves, BuildMoves DEF LinuxIInv
<1>4. CASE Linux!StartWalk
  <2>1. Linux!Walk!Start("user") /\ SameFiles /\ UNCHANGED <<dump, released>> /\ dump # Linux!None
    BY <1>4 DEF Linux!StartWalk, Linux!build
  <2>2. cwd' = cwd
    BY <2>1 DEF Linux!Walk!Start
  <2> QED
    BY <2>1, <2>2, WalkMoves, BuildMoves DEF LinuxIInv
<1>5. CASE Linux!WalkStep
  <2>1. Linux!Walk!Script("user") /\ SameFiles /\ UNCHANGED <<dump, released>>
    BY <1>5 DEF Linux!WalkStep, Linux!build
  <2>2. cwd' = cwd /\ walkPc["user"] # "idle"
    BY <2>1 DEF Linux!Walk!Script, Linux!Walk!ReadHeader, Linux!Walk!MakeDir, Linux!Walk!OpenCopy,
       Linux!Walk!FinishCopy, Linux!Walk!BeginWalk, Linux!Walk!EndWalk, Linux!Walk!Abort, Linux!Walk!Stop
  <2> QED
    BY <2>1, <2>2, WalkMoves, BuildMoves DEF LinuxIInv
<1>6. CASE UNCHANGED linux
  <2>1. Same /\ SameFiles /\ UNCHANGED <<dump, released>>
    BY <1>6 DEF linux
  <2> QED
    BY <2>1, WalkMoves, BuildMoves DEF LinuxIInv
<1> QED
  BY <1>1, <1>2, <1>3, <1>4, <1>5, <1>6 DEF Linux!Next

LEMMA LinuxCrashes ==
  LinuxIInv => Linux!TypeOK /\ Linux!LinesAreOfTheCrash /\ Linux!ReleasedCrashesGetLines
<1> SUFFICES ASSUME LinuxIInv
             PROVE  Linux!TypeOK /\ Linux!LinesAreOfTheCrash /\ Linux!ReleasedCrashesGetLines
  OBVIOUS
<1>1. Linux!TypeOK
  BY DEF LinuxIInv, Linux!Build!IInv, Linux!Walk!IInv, Linux!TypeOK
<1>2. ASSUME walkPc["user"] = "walk" PROVE dump \in Linux!Revisions
  BY <1>2 DEF LinuxIInv
<1>3. Linux!Found = store[<<<<Linux!Module, dump>>, Linux!SymFile>>]
  BY DEF Linux!Found, Linux!Walk!Lookup
<1>4. Linux!LinesAreOfTheCrash
  <2> SUFFICES ASSUME walkPc["user"] = "walk", Linux!Found.body \in {"whole", "torn"}
               PROVE  Linux!Found.id = dump
    BY DEF Linux!LinesAreOfTheCrash
  <2>1. <<<<Linux!Module, dump>>, Linux!SymFile>> \in Linux!Walk!Paths
    BY <1>2 DEF Linux!Walk!Paths, Linux!Walk!Dirs
  <2>2. Linux!Found # Linux!Walk!Absent /\ Linux!Found # Linux!Walk!Empty
    BY DEF Linux!Walk!Absent, Linux!Walk!Empty
  <2>3. Linux!Found \in {Linux!Holding(r, body) : r \in Linux!Revisions, body \in {"whole", "torn", "short"}}
    BY <1>3, <2>1, <2>2 DEF LinuxIInv, Linux!Walk!IInv, Linux!Walk!TypeOK
  <2> QED
    BY <1>2, <1>3, <2>3 DEF LinuxIInv, Linux!Walk!IInv, Linux!Walk!OwnSymbolsOnly
<1>5. Linux!ReleasedCrashesGetLines
  <2> SUFFICES ASSUME walkPc["user"] = "walk", released = dump
               PROVE  Linux!Found = Linux!Holding(dump, "whole")
    BY DEF Linux!ReleasedCrashesGetLines
  <2>1. dump \in Linux!Revisions /\ dump # Linux!None
    BY <1>2 DEF LinuxIInv
  <2>2. cwd[Linux!SymFile] = Linux!Holding(dump, "whole")
    BY <2>1 DEF LinuxIInv
  <2>3. /\ Linux!Holding(dump, "whole") \in {Linux!Holding(r, body) : r \in Linux!Revisions, body \in {"whole", "torn", "short"}}
        /\ Linux!Holding(dump, "whole").body = "whole"
        /\ Linux!Walk!DirOf(Linux!Holding(dump, "whole")) = <<Linux!Module, dump>>
    BY <2>1 DEF Linux!Holding, Linux!Walk!DirOf
  <2>4. walkTodo["user"] = {}
    BY DEF LinuxIInv, Linux!Walk!Staged
  <2> QED
    BY <1>3, <2>2, <2>3, <2>4 DEF LinuxIInv, Linux!Walk!Staged
<1> QED
  BY <1>1, <1>4, <1>5
-----------------------------------------------------------------------------
\* A machine takes a step of its own, or none.
IInv == WindowsIInv /\ AndroidIInv /\ IosIInv /\ PhaseIInv /\ LinuxIInv

\* Each machine keeps its invariant, whichever of them runs.
LEMMA Inductive == Spec => []IInv
<1>1. Init => IInv
  BY WindowsInit, AndroidInit, IosInit, PhaseInit, LinuxInit DEF Init, IInv
<1>2. [Next]_vars =>
        /\ [Windows!Next]_windows /\ [Android!Next]_android /\ [Ios!Next]_ios
        /\ [Phase!Next]_phase /\ [Linux!Next]_linux
  BY DEF Next, On, vars
<1>3. IInv /\ [Next]_vars => IInv'
  BY <1>2, WindowsNext, AndroidNext, IosNextSlices, PhaseNext, LinuxNext DEF IInv
<1> QED
  BY <1>1, <1>3, PTL DEF Spec

\* What build_lib_windows.bat, build_android.sh and build_lib_ios.sh publish,
\* and the symbols beside it, belong together, for any number of edits and of
\* architectures and whatever has failed before.
THEOREM SymbolsBelong == Spec => []SymbolsAreOfWhatIsPublished
<1>1. IInv => SymbolsAreOfWhatIsPublished
  BY DEF IInv, SymbolsAreOfWhatIsPublished, WindowsIInv, AndroidIInv, IosIInv
<1> QED
  BY <1>1, Inductive, PTL

\* What is in libs has been stripped before it was signed, and what the build
\* phase leaves of an executable is finished, for any frameworks and
\* architectures and wherever a run was cancelled.
THEOREM Finished == Spec => []ShippedIsFinished
<1>1. PhaseIInv => Phase!CancelledRunsAreMadeGood
  BY DEF PhaseIInv, Thinnable, Phase!CancelledRunsAreMadeGood, Phase!Done
<1>2. IInv => ShippedIsFinished
  BY <1>1 DEF IInv, ShippedIsFinished, IosIInv, PhaseIInv
<1> QED
  BY <1>2, Inductive, PTL

\* On Linux a frame gets the lines of the build that has crashed, and gets them
\* if that build was released and its symbols were fetched, for any number of
\* edits, crashes, fetches and walks.
THEOREM LinesFound == Spec => []CrashesGetTheirLines
<1>1. IInv => CrashesGetTheirLines
  BY LinuxCrashes DEF IInv, CrashesGetTheirLines
<1> QED
  BY <1>1, Inductive, PTL

\* build_android.sh touches a symbol file only when the release is there.
THEOREM NoneWithoutRelease == Spec => NoSymbolsWithoutRelease
<1>1. [Next]_vars => [Android!Next]_android
  BY DEF Next, On, vars
<1>2. IInv /\ [Next]_vars =>
        [\A a \in Android!Archs : symbols'[a] # symbols[a] => apk[a] \in Android!Revisions]_(Android!vars)
  BY <1>1, AndroidSymbols DEF IInv
<1> QED
  BY <1>2, Inductive, PTL DEF Spec, NoSymbolsWithoutRelease, Android!NoSymbolsWithoutRelease
=============================================================================
