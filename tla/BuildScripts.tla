---------------------------- MODULE BuildScripts ----------------------------
(***************************************************************************)
(* The build scripts of Windows, Android and iOS, the iOS build phase, and *)
(* build_linux.sh with the crashes and walks that come after it, each on a *)
(* machine of its own: a behaviour is one of a single machine, host, and   *)
(* the other four stay as they begin.                                      *)
(***************************************************************************)
EXTENDS Integers, Sequences, FiniteSets

CONSTANTS
  WinEdits, NdkEdits, IosEdits, LinEdits,   \* bounds: how often each source is edited
  ARCH,                                     \* of build_android.sh
  Frameworks, Skipped, Slices, ARCHS        \* of the iOS build phase

\* Three of the four architectures of build_android.sh:6.
ThreeArchs == <<"armeabi-v7a", "arm64-v8a", "x86">>

VARIABLES
  host,
  winSrc, built, dll, lib, pdb, sym, winPc, winStatus,
  ndkSrc, obj, apk, symbols, i, ndkPc, ndkStatus, missed,
  iosSrc, thin, thinSym, fw, dsym, iosPc, iosStatus, kept,
  shipped, executable, extracted, merged, todo, current, archs, pc, failed,
  linSrc, linObj, linSym, linLib, example, linKept, linPc, linStatus, dump, released,
  cwd, store, walkPc, walkTodo, cur, walkStatus

windows == <<winSrc, built, dll, lib, pdb, sym, winPc, winStatus>>
android == <<ndkSrc, obj, apk, symbols, i, ndkPc, ndkStatus, missed>>
ios == <<iosSrc, thin, thinSym, fw, dsym, iosPc, iosStatus, kept>>
phase == <<shipped, executable, extracted, merged, todo, current, archs, pc, failed>>
linux == <<linSrc, linObj, linSym, linLib, example, linKept, linPc, linStatus, dump, released,
           cwd, store, walkPc, walkTodo, cur, walkStatus>>
vars == <<host, windows, android, ios, phase, linux>>

Windows == INSTANCE BuildWindows WITH
  MaxEdits <- WinEdits, src <- winSrc, pc <- winPc, status <- winStatus
Android == INSTANCE BuildAndroid WITH
  MaxEdits <- NdkEdits, src <- ndkSrc, pc <- ndkPc, status <- ndkStatus
Ios == INSTANCE BuildIos WITH
  MaxEdits <- IosEdits, src <- iosSrc, pc <- iosPc, status <- iosStatus
Phase == INSTANCE StripArchs WITH Archs <- Slices
Linux == INSTANCE LinuxPipeline WITH
  MaxEdits <- LinEdits, src <- linSrc, obj <- linObj, sym <- linSym, lib <- linLib,
  kept <- linKept, pc <- linPc, status <- linStatus, todo <- walkTodo

ASSUME BuildScriptsAssumption ==
  /\ Windows!MaxEditsAssumption /\ Android!AndroidAssumption
  /\ Ios!MaxEditsAssumption /\ Phase!StripAssumption /\ LinEdits \in Nat

Init ==
  /\ host \in {"windows", "android", "ios", "phase", "linux"}
  /\ Windows!Init /\ Android!Init /\ Ios!Init /\ Phase!Init /\ Linux!Init
  /\ host # "phase" => /\ current = CHOOSE f \in Frameworks : TRUE
                       /\ \A f \in Frameworks : shipped[f] = Phase!Stripped

On(name, step, unchanged) == IF host = name THEN step ELSE unchanged

Next ==
  /\ On("windows", Windows!Next, UNCHANGED windows)
  /\ On("android", Android!Next, UNCHANGED android)
  /\ On("ios", Ios!Next, UNCHANGED ios)
  /\ On("phase", Phase!Next, UNCHANGED phase)
  /\ On("linux", Linux!Next, UNCHANGED linux)
  /\ UNCHANGED host
Spec == Init /\ [][Next]_vars
-----------------------------------------------------------------------------
\* build_lib_windows.bat: symbols are never those of a later build than the
\* library that is published, and exit status 0 means four files of one build.
\* build_android.sh: after exit status 0 the symbols are of the libraries in
\* the release, except where cp has failed, and the status vouches for the last
\* architecture.  build_lib_ios.sh: after exit status 0 what is in libs has its
\* symbols.
SymbolsAreOfWhatIsPublished ==
  /\ Windows!TypeOK /\ Windows!SymbolsNeverLead /\ Windows!OkPublishesOneBuild
  /\ Android!TypeOK /\ Android!SymbolsAreOfTheRelease /\ Android!StatusVouchesForTheLast
  /\ Ios!TypeOK /\ Ios!SlicesHaveSymbols

\* build_lib_ios.sh: what is in libs has been stripped, then signed.
\* strip_simulator_arch.sh: an executable is as embedded, thinned, or gone with
\* its thinned copy beside it, and a run makes good what a cancelled one has left.
ShippedIsFinished ==
  /\ Ios!DistributedIsStripped
  /\ Phase!TypeOK /\ Phase!NothingInBetween /\ Phase!CancelledRunsAreMadeGood

\* The Linux machine, from build_linux.sh over run.sh to walk_stack.py: a frame
\* gets the lines of the build that has crashed and of no other, and a crash in
\* a released library gets them once its symbols are fetched.
CrashesGetTheirLines ==
  Linux!TypeOK /\ Linux!LinesAreOfTheCrash /\ Linux!ReleasedCrashesGetLines

\* build_android.sh: without a release no symbol file is touched.
NoSymbolsWithoutRelease == Android!NoSymbolsWithoutRelease
=============================================================================
