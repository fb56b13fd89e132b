---------------------------- MODULE BuildAndroid ----------------------------
(***************************************************************************)
(* build_android.sh: gradle cleans and builds the release of the host      *)
(* application with one library per architecture, then a loop copies the   *)
(* unstripped libraries to symbols/, one after the other, and stops for    *)
(* no failure.  A file is the number of the revision it was built from.    *)
(***************************************************************************)
EXTENDS Integers, Sequences

CONSTANTS ARCH,      \* the architectures, in the order of the loop
          MaxEdits   \* bound: how often the source is edited
AndroidAssumption ==
  /\ ARCH \in Seq(STRING) /\ ARCH # << >>
  /\ \A m, n \in 1..Len(ARCH) : ARCH[m] = ARCH[n] => m = n
  /\ MaxEdits \in Nat

VARIABLES
  src,       \* the revision of the sources
  obj,       \* the unstripped libraries under Android/build
  apk,       \* the stripped ones of the release
  symbols,   \* symbols/<arc>/libcrash.so
  i,         \* which architecture the loop is at
  pc,        \* "idle", "gradle", "mkdir", "cpOpen", "cpWrite"
  status,    \* exit status of the last run: "none", "ok" or "failed"
  missed     \* history: the architectures whose copy has failed in this run

build == <<obj, apk>>
vars == <<src, build, symbols, i, pc, status, missed>>

Archs == {ARCH[n] : n \in 1..Len(ARCH)}
Last == ARCH[Len(ARCH)]
Revisions == 1 .. MaxEdits + 1
None == 0
Torn == -1
Files == Revisions \cup {None, Torn}
Nothing == [a \in Archs |-> None]

TypeOK ==
  /\ src \in Revisions
  /\ obj \in [Archs -> Revisions \cup {None}]
  /\ apk \in {Nothing} \cup [Archs -> Revisions]
  /\ symbols \in [Archs -> Files]
  /\ i \in 1..Len(ARCH)
  /\ pc \in {"idle", "gradle", "mkdir", "cpOpen", "cpWrite"}
  /\ status \in {"none", "ok", "failed"}
  /\ missed \subseteq Archs

Init ==
  /\ src = 1
  /\ obj = Nothing
  /\ apk = Nothing
  /\ symbols = Nothing
  /\ i = 1
  /\ pc = "idle"
  /\ status = "none"
  /\ missed = {}

Edit ==
  /\ src <= MaxEdits
  /\ src' = src + 1
  /\ UNCHANGED <<build, symbols, i, pc, status, missed>>

\* gradlew clean
Clean ==
  /\ pc = "idle"
  /\ pc' = "gradle"
  /\ obj' = Nothing
  /\ apk' = Nothing
  /\ i' = 1
  /\ missed' = {}
  /\ UNCHANGED <<src, symbols, status>>

\* assembleRelease compiles the architectures in an order of its own.
Compile ==
  \E a \in Archs :
    /\ pc = "gradle"
    /\ obj[a] = None
    /\ obj' = [obj EXCEPT ![a] = src]
    /\ UNCHANGED <<src, apk, symbols, i, pc, status, missed>>

Assemble ==
  /\ pc = "gradle"
  /\ \A a \in Archs : obj[a] # None
  /\ apk' = obj
  /\ pc' = "mkdir"
  /\ UNCHANGED <<src, obj, symbols, i, status, missed>>

\* ; : the symbols are collected from whatever has been compiled.
GradleFailsUnchecked ==
  /\ pc = "gradle"
  /\ pc' = "mkdir"
  /\ UNCHANGED <<src, build, symbols, i, status, missed>>

\* && : without a release there is no loop.
GradleFails ==
  /\ pc = "gradle"
  /\ pc' = "idle"
  /\ status' = "failed"
  /\ UNCHANGED <<src, build, symbols, i, missed>>

\* mkdir -p fails or not; its status is not looked at, and a directory that
\* is there from an earlier run serves as well.
MakeDir ==
  /\ pc = "mkdir"
  /\ pc' = "cpOpen"
  /\ UNCHANGED <<src, build, symbols, i, status, missed>>

\* The loop is over one architecture early.
TurnShort(failed) ==
  IF i < Len(ARCH) - 1
  THEN /\ i' = i + 1
       /\ pc' = "mkdir"
       /\ UNCHANGED status
  ELSE /\ pc' = "idle"
       /\ status' = IF failed THEN "failed" ELSE "ok"
       /\ UNCHANGED i

\* The last status is that of the function, which is taken to succeed.
TurnIgnoresFailure(failed) ==
  IF i < Len(ARCH)
  THEN i' = i + 1 /\ pc' = "mkdir" /\ UNCHANGED status
  ELSE pc' = "idle" /\ status' = "ok" /\ UNCHANGED i

\* The next turn of the loop, or the end of the script, whose status is that
\* of the last command of the last turn.
Turn(failed) ==
  IF i < Len(ARCH)
  THEN /\ i' = i + 1
       /\ pc' = "mkdir"
       /\ UNCHANGED status
  ELSE /\ pc' = "idle"
       /\ status' = IF failed THEN "failed" ELSE "ok"
       /\ UNCHANGED i

CopyOpen ==
  /\ pc = "cpOpen"
  /\ pc' = "cpWrite"
  /\ symbols' = [symbols EXCEPT ![ARCH[i]] = Torn]
  /\ UNCHANGED <<src, build, i, status, missed>>

CopyWrite ==
  /\ pc = "cpWrite"
  /\ symbols' = [symbols EXCEPT ![ARCH[i]] = obj[ARCH[i]]]
  /\ Turn(FALSE)
  /\ UNCHANGED <<src, build, missed>>

\* cp fails before or after it has emptied its target.
CopyFails ==
  /\ pc \in {"cpOpen", "cpWrite"}
  /\ missed' = missed \cup {ARCH[i]}
  /\ Turn(TRUE)
  /\ UNCHANGED <<src, build, symbols>>

\* The script is interrupted in its loop.
Interrupt ==
  /\ pc \in {"mkdir", "cpOpen", "cpWrite"}
  /\ pc' = "idle"
  /\ status' = "failed"
  /\ UNCHANGED <<src, build, symbols, i, missed>>

Next ==
  \/ Edit \/ Clean \/ Compile \/ Assemble \/ GradleFails
  \/ MakeDir \/ CopyOpen \/ CopyWrite \/ CopyFails \/ Interrupt
Spec == Init /\ [][Next]_vars
-----------------------------------------------------------------------------
Done == status = "ok" /\ pc = "idle"

\* After a run that exits 0 the symbols of each architecture are those of
\* the library in the release, even if the source was edited between two
\* architectures; where they are not, cp has complained and the loop has
\* gone on.
SymbolsAreOfTheRelease ==
  Done => \A a \in Archs \ missed : apk[a] \in Revisions /\ symbols[a] = apk[a]

\* The exit status is that of the last cp: it vouches for the architecture
\* that comes last, and for no other.
StatusVouchesForTheLast == Done => Last \notin missed

\* Symbols change only once the release that has them is complete: a build
\* that fails leaves the symbols of the release before it alone.
NoSymbolsWithoutRelease ==
  [][\A a \in Archs : symbols'[a] # symbols[a] => apk[a] \in Revisions]_vars
=============================================================================
