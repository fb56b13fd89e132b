---------------------------- MODULE Symbolication ----------------------------
(***************************************************************************)
(* The scripts that turn addresses into lines of code: walk_stack.py, run  *)
(* while files come and go, symbolicatereport.py and symbolicatexcode.py.  *)
(* A behaviour is one of a single script, which; the others do not run.    *)
(***************************************************************************)
EXTENDS Naturals, Sequences, TLAPS

CONSTANTS Images, Bases, MaxLines, MaxFrames, MaxImages

VARIABLES
  which,
  dir, dSYMs, stack, output, pc, status, had,
  xdir, xdSYMs, xstack, xoutput, xpc, xstatus, xhad, rawImages, images, listed,
  cwd, sym, walkPc, todo, cur, walkStatus

report == <<dir, dSYMs, stack, output, pc, status, had>>
xcode == <<xdir, xdSYMs, xstack, xoutput, xpc, xstatus, xhad, rawImages, images, listed>>
walk == <<cwd, sym, walkPc, todo, cur, walkStatus>>
vars == <<which, report, xcode, walk>>

Report == INSTANCE SymbolicateReport
Xcode == INSTANCE SymbolicateXcode WITH
  dir <- xdir, dSYMs <- xdSYMs, stack <- xstack, output <- xoutput, pc <- xpc,
  status <- xstatus, had <- xhad

\* One library of one build, under the name the supplier asks for and another.
Holding(body) == [mod |-> "libcrash.so", id |-> "A1", body |-> body]
SymFiles == {"libcrash.so.sym", "libcrash-1.0.sym"}
Walk == INSTANCE WalkStack WITH
  Walkers <- {"w1"}, Modules <- {"libcrash.so"}, Ids <- {"A1"},
  Contents <- {Holding("whole"), Holding("short")}, SymNames <- SymFiles,
  SymFileOf <- [m \in {"libcrash.so"} |-> "libcrash.so.sym"],
  Cut <- "libcrash.s", Concurrent <- TRUE,
  pc <- walkPc, status <- walkStatus, alone <- "w1"

\* What a script that does not run would have read.
NoDSYMs == [n \in Images |-> "none"]
AnyLine == [kind |-> "text", name |-> CHOOSE n \in Images : TRUE, base |-> CHOOSE b \in Bases : TRUE]
AnyImage == [framework |-> FALSE, addresses |-> 1, name |-> AnyLine.name, base |-> AnyLine.base]

Init ==
  /\ which \in {"report", "xcode", "walk"}
  /\ which = "report" \/ (dir = NoDSYMs /\ stack = <<AnyLine>>)
  /\ which = "xcode" \/ (xdir = NoDSYMs /\ xstack = << >> /\ rawImages = <<AnyImage>>)
  /\ Report!Init /\ Xcode!Init /\ Walk!Init

On(name, step, unchanged) == IF which = name THEN step ELSE unchanged

Next ==
  /\ On("report", Report!Next, UNCHANGED report)
  /\ On("xcode", Xcode!Next, UNCHANGED xcode)
  /\ On("walk", Walk!Next, UNCHANGED walk)
  /\ UNCHANGED which

\* A script that was started keeps running.
Spec == Init /\ [][Next]_vars /\ WF_walk(which = "walk" /\ Walk!Script("w1"))
-----------------------------------------------------------------------------
\* Whatever dSYMs are replaced, added or taken away meanwhile, both scripts
\* answer a frame from a dSYM its own name has had, and pass over none whose
\* dSYM was there all the time.  symbolicatereport.py answers relative to the
\* frame's own image, symbolicatexcode.py to the address its image was listed
\* with last, and knows the images that were listed and no others.
FramesGetTheirOwnLines ==
  /\ Report!TypeOK /\ Report!FromItsOwnDSYM /\ Report!NoneIsPassedOver(Images)
  /\ Report!BaseIsTheFrames
  /\ Xcode!TypeOK /\ Xcode!FromItsOwnDSYM /\ Xcode!NoneIsPassedOver(Xcode!Known)
  /\ Xcode!BaseIsTheImages /\ Xcode!KnownAreListed
  /\ Walk!TypeOK

\* Both scripts implement LineFilter: symbolicatereport.py for the lines of the
\* report, symbolicatexcode.py for the frames of bt.
AnswersEachLine == Report!AnswersEachLine /\ Xcode!AnswersEachFrame

\* walk_stack.py ends, though files appear and vanish while it runs.
ScriptEnds == Walk!ScriptEnds
-----------------------------------------------------------------------------
\* A line that is printed is behind those that were.
LEMMA AppendIs ==
  ASSUME NEW S, NEW s \in Seq(S), NEW e \in S
  PROVE  /\ Append(s, e) \in Seq(S) /\ Len(s) \in Nat /\ Len(Append(s, e)) = Len(s) + 1
         /\ \A k \in 1..Len(s) + 1 : Append(s, e)[k] = IF k <= Len(s) THEN s[k] ELSE e
  OBVIOUS

-----------------------------------------------------------------------------
\* symbolicatereport.py: what it has printed, that a name has had the dSYM it
\* has, that it was listed if it has had one all the time, and that the script
\* is running until it ends.
ReportIInv ==
  /\ Report!TypeOK /\ Report!FromItsOwnDSYM /\ Report!NoneIsPassedOver(Images)
  /\ Report!BaseIsTheFrames
  /\ \A n \in Images : dir[n] \in had[n]
  /\ pc = "lines" => \A n \in Images : "none" \notin had[n] => n \in dSYMs
  /\ pc \in {"args", "list"} => output = << >>
  /\ pc # "end" => status = "running"

\* The line it is at.
LEMMA ReportLine ==
  ASSUME ReportIInv, Report!More
  PROVE  /\ Report!Line \in Report!Lines /\ output \in Seq(Report!Printed)
         /\ pc = "lines" /\ status = "running"
  BY DEF ReportIInv, Report!TypeOK, Report!LoopTypeOK, Report!More, Report!Line

\* A line is printed as it is, or with the answer from the dSYM that is there.
LEMMA ReportPrints ==
  ASSUME ReportIInv, Report!Plain(Images) \/ Report!Lookup
  PROVE  \E a \in Report!Printed :
           /\ output' = Append(output, a)
           /\ a.line = Report!Line /\ a.base = Report!Line.base
           /\ \/ a.build = "none" /\ ~(Report!Line.kind = "frame" /\ Report!Line.name \in dSYMs)
              \/ Report!Line.kind = "frame" /\ a.build # "none" /\ a.build = dir[Report!Line.name]
           /\ Report!More /\ UNCHANGED <<dir, dSYMs, stack, pc, status, had>>
<1>1. CASE Report!Plain(Images)
  <2> DEFINE a == [line |-> Report!Line, build |-> "none", base |-> Report!Line.base]
  <2>1. Report!More
    BY <1>1 DEF Report!Plain
  <2>2. a \in Report!Printed
    BY <2>1, ReportLine DEF Report!Printed, Report!Lines, Report!DSYMs
  <2>3. output' = Append(output, a) /\ UNCHANGED <<dir, dSYMs, stack, pc, status, had>>
    BY <1>1 DEF Report!Plain
  <2>4. a.line = Report!Line /\ a.base = Report!Line.base /\ a.build = "none"
    OBVIOUS
  <2>5. ~(Report!Line.kind = "frame" /\ Report!Line.name \in dSYMs)
    <3>1. Report!Line.name \in Images
      BY <2>1, ReportLine DEF Report!Lines
    <3> QED
      BY <1>1, <3>1 DEF Report!Plain
  <2> HIDE DEF a
  <2> QED
    BY <2>1, <2>2, <2>3, <2>4, <2>5, Zenon
<1>2. CASE Report!Lookup
  <2> DEFINE a == [line |-> Report!Line, build |-> dir[Report!Line.name], base |-> Report!Line.base]
  <2>1. Report!More
    BY <1>2 DEF Report!Lookup, Report!Symbol
  <2>2. dir[Report!Line.name] \in Report!DSYMs
    BY <2>1, ReportLine DEF ReportIInv, Report!TypeOK, Report!LoopTypeOK, Report!Lines
  <2>3. a \in Report!Printed
    BY <2>1, <2>2, ReportLine DEF Report!Printed, Report!Lines
  <2> QED
    BY <1>2, <2>1, <2>3 DEF Report!Lookup, Report!Symbol
<1> QED
  BY <1>1, <1>2

LEMMA ReportNext ==
  ASSUME ReportIInv, [Report!Next]_report
  PROVE  ReportIInv'
<1> USE DEF ReportIInv, Report!TypeOK
<1>1. CASE Report!Args \/ Report!List
  BY <1>1 DEF Report!Args, Report!List, Report!LoopTypeOK, Report!FromItsOwnDSYM,
     Report!NoneIsPassedOver, Report!BaseIsTheFrames
<1>2. CASE Report!Replace
  <2>1. UNCHANGED <<dSYMs, stack, output, pc, status>>
    BY <1>2 DEF Report!Replace, Report!reader
  <2>2. PICK n \in Images, d \in Report!DSYMs :
          dir' = [dir EXCEPT ![n] = d] /\ had' = [had EXCEPT ![n] = @ \cup {d}]
    BY <1>2 DEF Report!Replace
  <2>3. /\ dir' \in [Images -> Report!DSYMs] /\ had' \in [Images -> SUBSET Report!DSYMs]
        /\ \A m \in Images : had[m] \subseteq had'[m] /\ dir'[m] \in had'[m]
    BY <2>2 DEF Report!LoopTypeOK
  <2>4. \A k \in 1..Len(output) : output[k].line.name \in Images
    <3>1. output \in Seq(Report!Printed)
      BY DEF Report!LoopTypeOK
    <3>2. \A a \in Report!Printed : a.line.name \in Images
      BY DEF Report!Printed, Report!Lines
    <3> QED
      BY <3>1, <3>2
  <2>5. Report!FromItsOwnDSYM' /\ Report!NoneIsPassedOver(Images)'
    BY <2>1, <2>3, <2>4 DEF Report!FromItsOwnDSYM, Report!NoneIsPassedOver
  <2>6. Report!LoopTypeOK'
    BY <2>1, <2>3 DEF Report!LoopTypeOK
  <2> QED
    BY <2>1, <2>3, <2>5, <2>6 DEF Report!BaseIsTheFrames
<1>3. CASE Report!Plain(Images) \/ Report!Lookup
  <2>1. PICK a \in Report!Printed :
           /\ output' = Append(output, a)
           /\ a.line = Report!Line /\ a.base = Report!Line.base
           /\ \/ a.build = "none" /\ ~(Report!Line.kind = "frame" /\ Report!Line.name \in dSYMs)
              \/ Report!Line.kind = "frame" /\ a.build # "none" /\ a.build = dir[Report!Line.name]
           /\ Report!More /\ UNCHANGED <<dir, dSYMs, stack, pc, status, had>>
    BY <1>3, ReportPrints
  <2>2. output \in Seq(Report!Printed)
    BY DEF Report!LoopTypeOK
  <2>3. /\ output' \in Seq(Report!Printed) /\ Len(output) \in Nat /\ Len(output') = Len(output) + 1
        /\ \A k \in 1..Len(output) + 1 : output'[k] = IF k <= Len(output) THEN output[k] ELSE a
    BY <2>1, <2>2, AppendIs
  <2>4. Report!LoopTypeOK'
    BY <2>1, <2>3 DEF Report!LoopTypeOK
  <2>5. pc = "lines" /\ Report!Line.name \in Images
    BY <2>1, ReportLine DEF Report!Lines
  <2>6. Report!BaseIsTheFrames'
    BY <2>1, <2>3 DEF Report!BaseIsTheFrames
  <2>7. Report!FromItsOwnDSYM'
    BY <2>1, <2>3, <2>5 DEF Report!FromItsOwnDSYM
  <2>8. Report!NoneIsPassedOver(Images)'
    BY <2>1, <2>3, <2>5 DEF Report!NoneIsPassedOver
  <2> QED
    BY <2>1, <2>4, <2>5, <2>6, <2>7, <2>8
<1>4. CASE Report!AtosFails(Images) \/ Report!TooShort \/ Report!End
  BY <1>4 DEF Report!AtosFails, Report!TooShort, Report!End, Report!LoopTypeOK, Report!FromItsOwnDSYM,
     Report!NoneIsPassedOver, Report!BaseIsTheFrames
<1>5. CASE UNCHANGED report
  BY <1>5 DEF report, Report!LoopTypeOK, Report!FromItsOwnDSYM, Report!NoneIsPassedOver,
     Report!BaseIsTheFrames
<1> QED
  BY <1>1, <1>2, <1>3, <1>4, <1>5 DEF Report!Next

LEMMA ReportInit == ASSUME Init PROVE ReportIInv
<1>1. PICK n \in 1..MaxLines : stack \in [1..n -> Report!Lines]
  BY DEF Init, Report!Init, Report!Reports
<1>2. stack \in Seq(Report!Lines)
  BY <1>1
<1> QED
  BY <1>2 DEF Init, Report!Init, Report!LoopInit, ReportIInv, Report!TypeOK, Report!LoopTypeOK,
     Report!FromItsOwnDSYM, Report!NoneIsPassedOver, Report!BaseIsTheFrames

\* Every step of the script answers the next line, ends, or is not seen.
LEMMA ReportAnswers ==
  ASSUME ReportIInv, [Report!Next]_report
  PROVE  [Report!Filter!Answer \/ Report!Filter!Finish \/ Report!Filter!GiveUp]_<<stack, output, status>>
<1>1. CASE Report!Args
  BY <1>1 DEF Report!Args, ReportIInv, Report!Filter!GiveUp
<1>2. CASE Report!List \/ Report!Replace \/ UNCHANGED report
  BY <1>2 DEF Report!List, Report!Replace, Report!reader, report
<1>3. CASE Report!Plain(Images) \/ Report!Lookup
  <2>1. PICK a \in Report!Printed :
           /\ output' = Append(output, a)
           /\ a.line = Report!Line /\ a.base = Report!Line.base
           /\ \/ a.build = "none" /\ ~(Report!Line.kind = "frame" /\ Report!Line.name \in dSYMs)
              \/ Report!Line.kind = "frame" /\ a.build # "none" /\ a.build = dir[Report!Line.name]
           /\ Report!More /\ UNCHANGED <<dir, dSYMs, stack, pc, status, had>>
    BY <1>3, ReportPrints
  <2>2. a \in Report!Answers(stack[Len(output) + 1])
    BY <2>1 DEF Report!Answers, Report!Line
  <2>3. status = "running" /\ Len(output) < Len(stack)
    BY <2>1, ReportLine DEF Report!More
  <2> QED
    BY <2>1, <2>2, <2>3 DEF Report!Filter!Answer
<1>4. CASE Report!AtosFails(Images) \/ Report!TooShort
  BY <1>4 DEF Report!AtosFails, Report!TooShort, Report!More, Report!Line, Report!MayFail, ReportIInv,
     Report!Filter!GiveUp
<1>5. CASE Report!End
  BY <1>5 DEF Report!End, ReportIInv, Report!Filter!Finish
<1> QED
  BY <1>1, <1>2, <1>3, <1>4, <1>5 DEF Report!Next

-----------------------------------------------------------------------------
\* symbolicatexcode.py: images has the address a name was listed with last; of
\* the dSYMs it keeps what symbolicatereport.py does.
XcodeIInv ==
  /\ Xcode!TypeOK /\ Xcode!FromItsOwnDSYM /\ Xcode!NoneIsPassedOver(Xcode!Known)
  /\ Xcode!BaseIsTheImages /\ Xcode!KnownAreListed
  /\ \A n \in Xcode!Known : Xcode!ListedLast(n, images[n])
  /\ \A n \in Images : xdir[n] \in xhad[n]
  /\ xpc = "lines" => \A n \in Images : "none" \notin xhad[n] => n \in xdSYMs
  /\ xpc \in {"args", "images", "list"} => xoutput = << >>
  /\ xpc # "end" => xstatus = "running"

\* The line it is at.
LEMMA XcodeLine ==
  ASSUME XcodeIInv, Xcode!More
  PROVE  /\ Xcode!Line \in Xcode!Lines /\ xoutput \in Seq(Xcode!Printed)
         /\ xpc = "lines" /\ xstatus = "running"
  BY DEF XcodeIInv, Xcode!TypeOK, Xcode!LoopTypeOK, Xcode!More, Xcode!Line

\* What the loop prints, with the address that is kept for the name.
LEMMA XcodePrints ==
  ASSUME XcodeIInv, Xcode!Plain(Xcode!Known) \/ Xcode!Lookup
  PROVE  \E a \in Xcode!Printed :
           /\ xoutput' = Append(xoutput, a)
           /\ a.line = Xcode!Line
           /\ \/ /\ a.build = "none" /\ a.base = Xcode!Line.base
                 /\ ~(Xcode!Line.kind = "frame" /\ Xcode!Line.name \in xdSYMs \cap Xcode!Known)
              \/ /\ a.build # "none" /\ Xcode!Line.kind = "frame" /\ a.build = xdir[Xcode!Line.name]
                 /\ Xcode!ListedLast(Xcode!Line.name, a.base)
           /\ Xcode!More /\ UNCHANGED <<xdir, xdSYMs, xstack, xpc, xstatus, xhad>>
<1>1. CASE Xcode!Plain(Xcode!Known)
  <2> DEFINE a == [line |-> Xcode!Line, build |-> "none", base |-> Xcode!Line.base]
  <2>1. Xcode!More
    BY <1>1 DEF Xcode!Plain
  <2>2. a \in Xcode!Printed
    BY <2>1, XcodeLine DEF Xcode!Printed, Xcode!Lines, Xcode!DSYMs
  <2>3. xoutput' = Append(xoutput, a) /\ UNCHANGED <<xdir, xdSYMs, xstack, xpc, xstatus, xhad>>
    BY <1>1 DEF Xcode!Plain
  <2>4. a.line = Xcode!Line /\ a.base = Xcode!Line.base /\ a.build = "none"
    OBVIOUS
  <2>5. ~(Xcode!Line.kind = "frame" /\ Xcode!Line.name \in xdSYMs \cap Xcode!Known)
    BY <1>1 DEF Xcode!Plain
  <2> HIDE DEF a
  <2> QED
    BY <2>1, <2>2, <2>3, <2>4, <2>5
<1>2. CASE Xcode!Lookup
  <2> DEFINE n == Xcode!Line.name
             a == [line |-> Xcode!Line, build |-> xdir[n], base |-> images[n]]
  <2>1. Xcode!More /\ n \in Xcode!Known /\ Xcode!Line.kind = "frame"
    BY <1>2 DEF Xcode!Lookup, Xcode!Symbol
  <2>2. n \in Images /\ xdir[n] # "none" /\ images[n] \in Bases
        /\ Xcode!ListedLast(n, images[n]) /\ xdir[n] \in Xcode!DSYMs
    BY <1>2, <2>1 DEF XcodeIInv, Xcode!TypeOK, Xcode!LoopTypeOK, Xcode!Lookup, Xcode!Symbol
  <2>3. a \in Xcode!Printed
    BY <2>1, <2>2, XcodeLine DEF Xcode!Printed
  <2>4. xoutput' = Append(xoutput, a) /\ UNCHANGED <<xdir, xdSYMs, xstack, xpc, xstatus, xhad>>
    BY <1>2 DEF Xcode!Lookup, Xcode!Symbol
  <2>5. a.line = Xcode!Line /\ a.base = images[n] /\ a.build = xdir[n]
    OBVIOUS
  <2> HIDE DEF a
  <2> QED
    BY <2>1, <2>2, <2>3, <2>4, <2>5
<1> QED
  BY <1>1, <1>2

\* What is true of the output and of the list stays so while they do not change.
LEMMA XcodeKeeps ==
  ASSUME XcodeIInv, UNCHANGED <<xoutput, images, listed>>,
         \A n \in Images : xhad[n] \subseteq xhad'[n]
  PROVE  /\ Xcode!FromItsOwnDSYM' /\ Xcode!NoneIsPassedOver(Xcode!Known)'
         /\ Xcode!BaseIsTheImages' /\ Xcode!KnownAreListed'
         /\ \A n \in Xcode!Known' : Xcode!ListedLast(n, images[n])'
<1>1. \A k \in 1..Len(xoutput) : xoutput[k].line.name \in Images
  <2>1. xoutput \in Seq(Xcode!Printed)
    BY DEF XcodeIInv, Xcode!TypeOK, Xcode!LoopTypeOK
  <2>2. \A a \in Xcode!Printed : a.line.name \in Images
    BY DEF Xcode!Printed, Xcode!Lines
  <2> QED
    BY <2>1, <2>2
<1>2. Xcode!FromItsOwnDSYM'
  BY <1>1 DEF XcodeIInv, Xcode!FromItsOwnDSYM
<1>3. Xcode!NoneIsPassedOver(Xcode!Known)'
  BY <1>1 DEF XcodeIInv, Xcode!NoneIsPassedOver, Xcode!Known
<1>4. Xcode!BaseIsTheImages'
  BY DEF XcodeIInv, Xcode!BaseIsTheImages, Xcode!ListedLast
<1>5. Xcode!KnownAreListed'
  BY DEF XcodeIInv, Xcode!KnownAreListed, Xcode!Known
<1>6. \A n \in Xcode!Known' : Xcode!ListedLast(n, images[n])'
  BY DEF XcodeIInv, Xcode!ListedLast, Xcode!Known
<1> QED
  BY <1>2, <1>3, <1>4, <1>5, <1>6

\* A line of image list, which counts or not.
LEMMA XcodeReads ==
  ASSUME XcodeIInv, Xcode!ReadImage
  PROVE  XcodeIInv'
<1> USE DEF XcodeIInv, Xcode!TypeOK
<1> DEFINE image == Head(rawImages)
<1>1. /\ image \in Xcode!ImageLines /\ rawImages' \in Seq(Xcode!ImageLines)
      /\ UNCHANGED <<xdir, xdSYMs, xstack, xoutput, xpc, xstatus, xhad>>
  BY DEF Xcode!ReadImage, Xcode!loop, Xcode!reader
<1>2. image.name \in Images /\ image.base \in Bases
  BY <1>1 DEF Xcode!ImageLines
<1>a. xpc = "images" /\ xoutput = << >>
  BY DEF Xcode!ReadImage
<1>b. Xcode!FromItsOwnDSYM' /\ Xcode!NoneIsPassedOver(Xcode!Known)' /\ Xcode!BaseIsTheImages'
  BY <1>1, <1>a DEF Xcode!FromItsOwnDSYM, Xcode!NoneIsPassedOver, Xcode!BaseIsTheImages
<1>3. CASE ~Xcode!Counts(image)
  <2>1. UNCHANGED <<images, listed>>
    BY <1>3 DEF Xcode!ReadImage, Xcode!Keep
  <2> QED
    BY <1>1, <1>a, <2>1, XcodeKeeps DEF Xcode!LoopTypeOK, Xcode!Known
<1>4. CASE Xcode!Counts(image)
  <2>1. /\ images' = [n \in Xcode!Known \cup {image.name} |->
                        IF n = image.name THEN image.base ELSE images[n]]
        /\ listed' = Append(listed, image)
    BY <1>4 DEF Xcode!ReadImage, Xcode!Put, Xcode!Keep, Xcode!Known
  <2> HIDE DEF image
  <2>2. /\ listed' \in Seq(Xcode!ImageLines) /\ Len(listed) \in Nat /\ Len(listed') = Len(listed) + 1
        /\ \A k \in 1..Len(listed) + 1 : listed'[k] = IF k <= Len(listed) THEN listed[k] ELSE image
    BY <1>1, <2>1, AppendIs
  <2>3. /\ Xcode!Known' = Xcode!Known \cup {image.name} /\ images'[image.name] = image.base
        /\ \A n \in Xcode!Known : n # image.name => images'[n] = images[n]
    BY <2>1 DEF Xcode!Known
  <2>4. Xcode!TypeOK'
    BY <1>1, <1>2, <2>2, <2>3 DEF Xcode!LoopTypeOK
  <2>5. ASSUME NEW n \in Xcode!Known'
        PROVE  Xcode!ListedLast(n, images[n])'
    <3>1. CASE n = image.name
      <4>1. Len(listed) + 1 \in 1..Len(listed') /\ listed'[Len(listed) + 1] = image
        BY <2>2
      <4>2. \A k \in Len(listed) + 1 + 1..Len(listed') : FALSE
        BY <2>2
      <4> QED
        BY <2>3, <3>1, <4>1, <4>2 DEF Xcode!ListedLast
    <3>2. CASE n # image.name
      <4>1. n \in Xcode!Known /\ images'[n] = images[n]
        BY <2>3, <2>5, <3>2
      <4>2. PICK i \in 1..Len(listed) :
              /\ listed[i].name = n /\ listed[i].base = images[n]
              /\ \A k \in i + 1..Len(listed) : listed[k].name # n
        BY <4>1 DEF Xcode!ListedLast
      <4>3. i \in 1..Len(listed') /\ listed'[i] = listed[i]
        BY <2>2
      <4>4. \A k \in i + 1..Len(listed') : listed'[k].name # n
        BY <2>2, <3>2, <4>2
      <4> QED
        BY <4>1, <4>2, <4>3, <4>4 DEF Xcode!ListedLast
    <3> QED
      BY <3>1, <3>2
  <2>6. Xcode!KnownAreListed'
    <3>1. Xcode!Known = {listed[k].name : k \in 1..Len(listed)}
      BY DEF Xcode!KnownAreListed
    <3>2. \A k \in 1..Len(listed) : k \in 1..Len(listed') /\ listed'[k] = listed[k]
      BY <2>2
    <3>3. Len(listed) + 1 \in 1..Len(listed') /\ listed'[Len(listed) + 1] = image
      BY <2>2
    <3>4. \A k \in 1..Len(listed') : k \in 1..Len(listed) \/ k = Len(listed) + 1
      BY <2>2
    <3>5. {listed'[k].name : k \in 1..Len(listed')} =
            {listed[k].name : k \in 1..Len(listed)} \cup {image.name}
      BY <3>2, <3>3, <3>4
    <3> QED
      BY <2>3, <3>1, <3>5 DEF Xcode!KnownAreListed
  <2> QED
    BY <1>1, <1>a, <1>b, <2>4, <2>5, <2>6
<1> QED
  BY <1>3, <1>4

LEMMA XcodeNext ==
  ASSUME XcodeIInv, [Xcode!Next]_xcode
  PROVE  XcodeIInv'
<1> USE DEF XcodeIInv, Xcode!TypeOK
<1>1. CASE Xcode!Args \/ Xcode!ReadAll
  <2>1. UNCHANGED <<xdir, xdSYMs, xstack, xoutput, xhad, rawImages, images, listed>>
    BY <1>1 DEF Xcode!Args, Xcode!ReadAll
  <2>2. xpc \in {"args", "images"} /\ xpc' \in {"images", "list", "end"}
        /\ xstatus' \in {"running", "failed"} /\ (xpc' # "end" => xstatus' = "running")
    BY <1>1 DEF Xcode!Args, Xcode!ReadAll
  <2> QED
    BY <2>1, <2>2, XcodeKeeps DEF Xcode!LoopTypeOK, Xcode!Known
<1>2. CASE Xcode!List /\ UNCHANGED <<rawImages, images, listed>>
  <2>1. /\ UNCHANGED <<xdir, xstack, xoutput, xstatus, xhad, rawImages, images, listed>>
        /\ xpc = "list" /\ xpc' = "lines" /\ xdSYMs' = {n \in Images : xdir[n] # "none"}
    BY <1>2 DEF Xcode!List
  <2> QED
    BY <2>1, XcodeKeeps DEF Xcode!LoopTypeOK, Xcode!Known
<1>3. CASE Xcode!Replace /\ UNCHANGED <<rawImages, images, listed>>
  <2>1. UNCHANGED <<xdSYMs, xstack, xoutput, xpc, xstatus, rawImages, images, listed>>
    BY <1>3 DEF Xcode!Replace, Xcode!reader
  <2>2. PICK n \in Images, d \in Xcode!DSYMs :
          xdir' = [xdir EXCEPT ![n] = d] /\ xhad' = [xhad EXCEPT ![n] = @ \cup {d}]
    BY <1>3 DEF Xcode!Replace
  <2>3. /\ xdir' \in [Images -> Xcode!DSYMs] /\ xhad' \in [Images -> SUBSET Xcode!DSYMs]
        /\ \A m \in Images : xhad[m] \subseteq xhad'[m] /\ xdir'[m] \in xhad'[m]
    BY <2>2 DEF Xcode!LoopTypeOK
  <2>4. Xcode!LoopTypeOK'
    BY <2>1, <2>3 DEF Xcode!LoopTypeOK
  <2> QED
    BY <2>1, <2>3, <2>4, XcodeKeeps DEF Xcode!Known
<1>4. CASE (Xcode!Plain(Xcode!Known) \/ Xcode!Lookup) /\ UNCHANGED <<rawImages, images, listed>>
  <2>1. PICK a \in Xcode!Printed :
           /\ xoutput' = Append(xoutput, a)
           /\ a.line = Xcode!Line
           /\ \/ /\ a.build = "none" /\ a.base = Xcode!Line.base
                 /\ ~(Xcode!Line.kind = "frame" /\ Xcode!Line.name \in xdSYMs \cap Xcode!Known)
              \/ /\ a.build # "none" /\ Xcode!Line.kind = "frame" /\ a.build = xdir[Xcode!Line.name]
                 /\ Xcode!ListedLast(Xcode!Line.name, a.base)
           /\ Xcode!More /\ UNCHANGED <<xdir, xdSYMs, xstack, xpc, xstatus, xhad>>
    BY <1>4, XcodePrints
  <2>2. xoutput \in Seq(Xcode!Printed)
    BY DEF Xcode!LoopTypeOK
  <2>3. /\ xoutput' \in Seq(Xcode!Printed) /\ Len(xoutput) \in Nat /\ Len(xoutput') = Len(xoutput) + 1
        /\ \A k \in 1..Len(xoutput) + 1 : xoutput'[k] = IF k <= Len(xoutput) THEN xoutput[k] ELSE a
    BY <2>1, <2>2, AppendIs
  <2>4. Xcode!LoopTypeOK'
    BY <2>1, <2>3 DEF Xcode!LoopTypeOK
  <2>5. xpc = "lines" /\ Xcode!Line.name \in Images
    BY <2>1, XcodeLine DEF Xcode!Lines
  <2>6. Xcode!FromItsOwnDSYM'
    BY <2>1, <2>3, <2>5 DEF Xcode!FromItsOwnDSYM
  <2>7. Xcode!NoneIsPassedOver(Xcode!Known)'
    BY <1>4, <2>1, <2>3, <2>5 DEF Xcode!NoneIsPassedOver, Xcode!Known
  <2>8. Xcode!BaseIsTheImages'
    <3>1. ASSUME NEW k \in 1..Len(xoutput'), xoutput'[k].build # "none"
          PROVE  Xcode!ListedLast(xoutput'[k].line.name, xoutput'[k].base)
      <4>1. CASE k <= Len(xoutput)
        <5>1. k \in 1..Len(xoutput) /\ xoutput'[k] = xoutput[k]
          BY <2>3, <4>1
        <5> QED
          BY <3>1, <5>1 DEF Xcode!BaseIsTheImages
      <4>2. CASE ~(k <= Len(xoutput))
        <5>1. xoutput'[k] = a
          BY <2>3, <4>2
        <5> QED
          BY <2>1, <3>1, <5>1
      <4> QED
        BY <4>1, <4>2
    <3> QED
      BY <1>4, <3>1 DEF Xcode!BaseIsTheImages, Xcode!ListedLast
  <2>9. Xcode!KnownAreListed' /\ \A n \in Xcode!Known' : Xcode!ListedLast(n, images[n])'
    BY <1>4 DEF Xcode!KnownAreListed, Xcode!ListedLast, Xcode!Known
  <2> QED
    BY <1>4, <2>1, <2>4, <2>5, <2>6, <2>7, <2>8, <2>9 DEF Xcode!Known
<1>5. CASE (Xcode!AtosFails(Xcode!Known) \/ Xcode!TooShort \/ Xcode!End)
           /\ UNCHANGED <<rawImages, images, listed>>
  <2>1. /\ UNCHANGED <<xdir, xdSYMs, xstack, xoutput, xhad, rawImages, images, listed>>
        /\ xpc' = "end" /\ xstatus' \in {"ok", "failed"}
    BY <1>5 DEF Xcode!AtosFails, Xcode!TooShort, Xcode!End
  <2> QED
    BY <2>1, XcodeKeeps DEF Xcode!LoopTypeOK, Xcode!Known
<1>6. CASE UNCHANGED xcode
  BY <1>6, XcodeKeeps DEF xcode, Xcode!LoopTypeOK, Xcode!Known
<1> QED
  BY <1>1, <1>2, <1>3, <1>4, <1>5, <1>6, XcodeReads DEF Xcode!Next, Xcode!Loop

\* The frames of bt are lines, whichever of its lines are frames.
LEMMA ChosenType ==
  ASSUME NEW n \in Nat, NEW bt \in [1..n -> Xcode!BtLines], NEW s \in Xcode!Chosen(bt)
  PROVE  s \in Seq(Xcode!Lines)
<1> DEFINE frames == {k \in DOMAIN bt : bt[k].frame}
<1>1. PICK at \in Xcode!InOrder(frames) : s = [k \in DOMAIN at |-> bt[at[k]].line]
  BY DEF Xcode!Chosen
<1>2. PICK m \in 0..MaxFrames : at \in [1..m -> frames]
  <2> HIDE DEF frames
  <2> QED
    BY <1>1 DEF Xcode!InOrder
<1>3. \A k \in frames : bt[k].line \in Xcode!Lines
  BY DEF Xcode!BtLines
<1> HIDE DEF frames
<1>4. s \in [1..m -> Xcode!Lines]
  BY <1>1, <1>2, <1>3
<1> QED
  BY <1>4

LEMMA XcodeInit == ASSUME Init PROVE XcodeIInv
<1>1. PICK n \in 1..MaxFrames : \E bt \in [1..n -> Xcode!BtLines] : xstack \in Xcode!Chosen(bt)
  BY DEF Init, Xcode!Init
<1>2. xstack \in Seq(Xcode!Lines)
  BY <1>1, ChosenType
<1>3. PICK m \in 1..MaxImages : rawImages \in [1..m -> Xcode!ImageLines]
  BY DEF Init, Xcode!Init
<1>4. rawImages \in Seq(Xcode!ImageLines)
  BY <1>3
<1>5. Xcode!Known = {}
  BY DEF Init, Xcode!Init, Xcode!Known
<1> QED
  BY <1>2, <1>4, <1>5 DEF Init, Xcode!Init, Xcode!LoopInit, XcodeIInv, Xcode!TypeOK, Xcode!LoopTypeOK,
     Xcode!FromItsOwnDSYM, Xcode!NoneIsPassedOver, Xcode!BaseIsTheImages, Xcode!KnownAreListed

\* Every step of the script answers the next frame, ends, or is not seen.
LEMMA XcodeAnswers ==
  ASSUME XcodeIInv, [Xcode!Next]_xcode
  PROVE  [Xcode!Filter!Answer \/ Xcode!Filter!Finish \/ Xcode!Filter!GiveUp]_<<xstack, xoutput, xstatus>>
<1>1. CASE Xcode!Args
  BY <1>1 DEF Xcode!Args, XcodeIInv, Xcode!Filter!GiveUp
<1>2. CASE Xcode!ReadImage \/ Xcode!ReadAll \/ Xcode!List \/ Xcode!Replace \/ UNCHANGED xcode
  BY <1>2 DEF Xcode!ReadImage, Xcode!ReadAll, Xcode!List, Xcode!Replace, Xcode!reader, Xcode!loop, xcode
<1>3. CASE Xcode!Plain(Xcode!Known) \/ Xcode!Lookup
  <2>1. PICK a \in Xcode!Printed :
           /\ xoutput' = Append(xoutput, a)
           /\ a.line = Xcode!Line
           /\ \/ /\ a.build = "none" /\ a.base = Xcode!Line.base
                 /\ ~(Xcode!Line.kind = "frame" /\ Xcode!Line.name \in xdSYMs \cap Xcode!Known)
              \/ /\ a.build # "none" /\ Xcode!Line.kind = "frame" /\ a.build = xdir[Xcode!Line.name]
                 /\ Xcode!ListedLast(Xcode!Line.name, a.base)
           /\ Xcode!More /\ UNCHANGED <<xdir, xdSYMs, xstack, xpc, xstatus, xhad>>
    BY <1>3, XcodePrints
  <2>2. a \in Xcode!Answers(xstack[Len(xoutput) + 1])
    BY <2>1 DEF Xcode!Answers, Xcode!Line
  <2>3. xstatus = "running" /\ Len(xoutput) < Len(xstack)
    BY <2>1, XcodeLine DEF Xcode!More
  <2> QED
    BY <2>1, <2>2, <2>3 DEF Xcode!Filter!Answer
<1>4. CASE Xcode!AtosFails(Xcode!Known) \/ Xcode!TooShort
  BY <1>4 DEF Xcode!AtosFails, Xcode!TooShort, Xcode!More, Xcode!Line, Xcode!MayFail, XcodeIInv,
     Xcode!Filter!GiveUp
<1>5. CASE Xcode!End
  BY <1>5 DEF Xcode!End, XcodeIInv, Xcode!Filter!Finish
<1> QED
  BY <1>1, <1>2, <1>3, <1>4, <1>5 DEF Xcode!Next, Xcode!Loop

-----------------------------------------------------------------------------
\* walk_stack.py, while files come and go: it has a file in its hands while
\* it copies.
WalkIInv ==
  /\ Walk!TypeOK
  /\ walkPc["w1"] \in {"mkdir", "open", "copy"} => cur["w1"] # Walk!NoCur

LEMMA WalkNext ==
  ASSUME WalkIInv, [Walk!Next]_walk
  PROVE  WalkIInv'
<1> USE DEF WalkIInv, Walk!TypeOK
<1>1. ASSUME NEW f \in SymFiles,
             NEW c \in {Holding("whole"), Holding("short")} \cup {Walk!Absent}, Walk!Place(f, c)
      PROVE  WalkIInv'
  BY <1>1 DEF Walk!Place
<1>2. CASE Walk!Start("w1")
  BY <1>2 DEF Walk!Start, Walk!Goto
<1>3. ASSUME NEW f \in SymFiles, Walk!ReadHeader("w1", f)
      PROVE  WalkIInv'
  <2>1. cwd[f] \in {Holding("whole"), Holding("short")}
    BY <1>3 DEF Walk!ReadHeader
  <2>2. Walk!DirOf(cwd[f]) \in Walk!Dirs
    BY <2>1 DEF Walk!DirOf, Walk!Dirs, Holding
  <2>3. [file |-> f, dir |-> Walk!DirOf(cwd[f])] # Walk!NoCur
    BY DEF Walk!NoCur, Walk!NoFile, SymFiles
  <2> QED
    BY <1>3, <2>2, <2>3 DEF Walk!ReadHeader, Walk!Goto
<1>4. CASE Walk!MakeDir("w1")
  BY <1>4 DEF Walk!MakeDir, Walk!Goto
<1>5. CASE Walk!OpenCopy("w1")
  BY <1>5 DEF Walk!OpenCopy, Walk!Goto
<1>6. CASE Walk!FinishCopy("w1")
  <2>1. cwd[cur["w1"].file] \in {Holding("whole"), Holding("short")}
    BY <1>6 DEF Walk!FinishCopy
  <2> QED
    BY <1>6, <2>1 DEF Walk!FinishCopy, Walk!Goto
<1>7. CASE Walk!BeginWalk("w1")
  BY <1>7 DEF Walk!BeginWalk, Walk!Goto
<1>8. CASE Walk!EndWalk("w1") \/ Walk!Abort("w1")
  BY <1>8 DEF Walk!EndWalk, Walk!Abort, Walk!Stop, Walk!Goto
<1>9. CASE UNCHANGED walk
  BY <1>9 DEF walk
<1> QED
  BY <1>1, <1>2, <1>3, <1>4, <1>5, <1>6, <1>7, <1>8, <1>9 DEF Walk!Next, Walk!Script

LEMMA WalkInit == ASSUME Init PROVE WalkIInv
  BY DEF Init, Walk!Init, WalkIInv, Walk!TypeOK

-----------------------------------------------------------------------------
IInv == ReportIInv /\ XcodeIInv /\ WalkIInv

\* A step is one of a single script; the others keep what they have.
LEMMA StepIs ==
  ASSUME [Next]_vars
  PROVE  [Report!Next]_report /\ [Xcode!Next]_xcode /\ [Walk!Next]_walk
  BY DEF Next, On, vars

LEMMA Inductive == Spec => []IInv
<1>1. Init => IInv
  BY ReportInit, XcodeInit, WalkInit DEF IInv
<1>2. IInv /\ [Next]_vars => IInv'
  BY StepIs, ReportNext, XcodeNext, WalkNext DEF IInv
<1> QED
  BY <1>1, <1>2, PTL DEF Spec

\* For any images, addresses, reports, lists and any number of dSYMs that come,
\* go and are replaced meanwhile: a frame is answered from a dSYM its own name
\* has had, and answered if its name had one all the time; relative to the
\* address in its own line by symbolicatereport.py, to the one its image was
\* listed with last by symbolicatexcode.py.
THEOREM FramesAreTheirOwn == Spec => []FramesGetTheirOwnLines
<1>1. IInv => FramesGetTheirOwnLines
  BY DEF IInv, ReportIInv, XcodeIInv, WalkIInv, FramesGetTheirOwnLines
<1> QED
  BY <1>1, Inductive, PTL

\* Both scripts are line filters: whatever becomes of the directory and of
\* atos, they answer each line in its turn and end well after the last only.
THEOREM EachLineIsAnswered == Spec => AnswersEachLine
<1>1. Init => Report!Filter!Init /\ Xcode!Filter!Init
  BY DEF Init, Report!Init, Xcode!Init, Report!LoopInit, Xcode!LoopInit, Report!Filter!Init,
     Xcode!Filter!Init
<1>2. IInv /\ [Next]_vars =>
        /\ [Report!Filter!Answer \/ Report!Filter!Finish \/ Report!Filter!GiveUp]_<<stack, output, status>>
        /\ [Xcode!Filter!Answer \/ Xcode!Filter!Finish \/ Xcode!Filter!GiveUp]_<<xstack, xoutput, xstatus>>
  BY StepIs, ReportAnswers, XcodeAnswers DEF IInv
<1> QED
  BY <1>1, <1>2, Inductive, PTL DEF Spec, AnswersEachLine, Report!AnswersEachLine, Xcode!AnswersEachFrame,
     Report!Filter!Spec, Xcode!Filter!Spec
=============================================================================
