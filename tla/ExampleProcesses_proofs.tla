---------------------- MODULE ExampleProcesses_proofs ----------------------
(***************************************************************************)
(* A minidump of an example tells its crash, for any number of processes:  *)
(* on Linux for any width of int, any contents of memory and any number of *)
(* runs, on Windows for any number of instances and of milliseconds.       *)
(*                                                                         *)
(* Linux: the stacks a run can have are few, and the line it is at tells   *)
(* which of them it is, but for line 14 of usePtr, which ptr tells apart:  *)
(* so a signal is raised with one of two stacks only.  The handlers are there   *)
(* only as long as the minidump of the run is not whole.                   *)
(*                                                                         *)
(* Windows: no file has the name of an instance before its filter runs,    *)
(* and nobody else has a file open that it has open; so what it writes to  *)
(* the end is its own, and only an instance that has crashed in the same   *)
(* millisecond can replace it.                                             *)
(***************************************************************************)
EXTENDS ExampleProcesses, SequenceTheorems, FiniteSets, FiniteSetTheorems, TLAPS

\* The minidump of a run is not whole before its signal has been handled.
NotYetWhole ==
  /\ \A r \in Runs : r > run => dumps[r].body # "whole"
  /\ phase \in {"signal", "writing"} => dumps[run].body # "whole"
  /\ phase = "code" /\ (handler \/ stack \in {MainAt(13), MainAt(14)}) =>
       dumps[run].body # "whole"
  /\ phase = "callback" /\ succeeded => dumps[run].body = "whole"
  /\ handled => run \in Runs

IInv ==
  /\ TypeOK
  /\ OnItsWay
  /\ NotYetWhole
  /\ DumpTellsTheCrash
  /\ HandledMeansDumped

\* An int has at least one value.
LEMMA PowerOf2 == ASSUME NEW n \in Nat PROVE 2^n \in Nat /\ 2^n > 0
<1>1. IsFiniteSet(1 .. n) /\ Cardinality(1 .. n) = n
  BY FS_Interval
<1>2. IsFiniteSet(SUBSET (1 .. n)) /\ Cardinality(SUBSET (1 .. n)) = 2^n
  BY <1>1, FS_SUBSET
<1>3. Cardinality(SUBSET (1 .. n)) \in Nat /\ Cardinality(SUBSET (1 .. n)) # 0
  BY <1>2, FS_CardinalityType, FS_EmptySet
<1> QED
  BY <1>2, <1>3

\* What a call puts on a stack of no, one, two or three frames.
LEMMA PushOnNone == ASSUME NEW a PROVE <<a>> \o <<>> = <<a>>
<1>1. <<a>> \in Seq({a})
  OBVIOUS
<1> QED
  BY <1>1, ConcatEmptySeq

LEMMA PushOnOne ==
  ASSUME NEW a, NEW b
  PROVE  <<a>> \o <<b>> = <<a, b>>
<1> DEFINE S == {a, b}
<1> DEFINE s == <<a>> \o <<b>>
<1>1. <<a>> \in Seq(S) /\ <<b>> \in Seq(S) /\ <<a, b>> \in Seq(S)
  OBVIOUS
<1>2. s \in Seq(S) /\ Len(s) = 2 /\ s[1] = a /\ s[2] = b
  BY <1>1, ConcatProperties
<1> HIDE DEF s
<1>3. \A i \in 1 .. 2 : s[i] = <<a, b>>[i]
  BY <1>2
<1>4. s = <<a, b>>
  BY <1>1, <1>2, <1>3, SeqEqual
<1> QED
  BY <1>4 DEF s

LEMMA PushOnTwo ==
  ASSUME NEW a, NEW b, NEW c
  PROVE  <<a>> \o <<b, c>> = <<a, b, c>>
<1> DEFINE S == {a, b, c}
<1> DEFINE s == <<a>> \o <<b, c>>
<1>1. <<a>> \in Seq(S) /\ <<b, c>> \in Seq(S) /\ <<a, b, c>> \in Seq(S)
  OBVIOUS
<1>2. s \in Seq(S) /\ Len(s) = 3 /\ s[1] = a /\ s[2] = b /\ s[3] = c
  BY <1>1, ConcatProperties
<1> HIDE DEF s
<1>3. \A i \in 1 .. 3 : s[i] = <<a, b, c>>[i]
  BY <1>2
<1>4. s = <<a, b, c>>
  BY <1>1, <1>2, <1>3, SeqEqual
<1> QED
  BY <1>4 DEF s

LEMMA PushOnThree ==
  ASSUME NEW a, NEW b, NEW c, NEW d
  PROVE  <<a>> \o <<b, c, d>> = <<a, b, c, d>>
<1> DEFINE S == {a, b, c, d}
<1> DEFINE s == <<a>> \o <<b, c, d>>
<1>1. <<a>> \in Seq(S) /\ <<b, c, d>> \in Seq(S) /\ <<a, b, c, d>> \in Seq(S)
  OBVIOUS
<1>2. s \in Seq(S) /\ Len(s) = 4 /\ s[1] = a /\ s[2] = b /\ s[3] = c /\ s[4] = d
  BY <1>1, ConcatProperties
<1> HIDE DEF s
<1>3. \A i \in 1 .. 4 : s[i] = <<a, b, c, d>>[i]
  BY <1>2
<1>4. s = <<a, b, c, d>>
  BY <1>1, <1>2, <1>3, SeqEqual
<1> QED
  BY <1>4 DEF s

\* The stack after a call, a return or a line more, from each depth.
LEMMA FromMain ==
  ASSUME NEW l, stack = MainAt(l), NEW k
  PROVE  Goto(k) = MainAt(k) /\ (l = 17 => Call("testCrash", k) = TestAt(k))
<1>1. Head(stack)[1] = "main" /\ Tail(stack) = <<>>
  BY DEF MainAt
<1>2. Goto(k) = MainAt(k)
  <2>1. <<<<"main", k>>>> \o <<>> = MainAt(k)
    BY PushOnNone DEF MainAt
  <2>2. Goto(k) = <<<<Head(stack)[1], k>>>> \o Tail(stack)
    BY DEF Goto
  <2> QED
    BY <1>1, <2>1, <2>2
<1>3. l = 17 => Call("testCrash", k) = TestAt(k)
  BY PushOnOne DEF Call, MainAt, TestAt
<1> QED
  BY <1>2, <1>3

LEMMA FromTest ==
  ASSUME NEW l, stack = TestAt(l), NEW fn, NEW k
  PROVE  Call(fn, k) = Within(fn, k, l)
BY PushOnTwo DEF Call, TestAt, Within

LEMMA FromWithin ==
  ASSUME NEW fn, NEW k, NEW l, stack = Within(fn, k, l), NEW m
  PROVE  Goto(m) = Within(fn, m, l) /\ Return = TestAt(l + 1)
<1>1. /\ Head(stack) = <<fn, k>>
      /\ Tail(stack) = <<<<"testCrash", l>>, <<"main", 17>>>>
      /\ Tail(Tail(stack)) = <<<<"main", 17>>>>
      /\ stack[2] = <<"testCrash", l>>
  BY DEF Within
<1>2. Goto(m) = Within(fn, m, l)
  <2>1. <<<<fn, m>>>> \o <<<<"testCrash", l>>, <<"main", 17>>>> = Within(fn, m, l)
    BY PushOnTwo, Zenon DEF Within
  <2>2. Head(stack)[1] = fn
    BY <1>1
  <2>3. Goto(m) = <<<<Head(stack)[1], m>>>> \o Tail(stack)
    BY DEF Goto
  <2> QED
    BY <1>1, <2>1, <2>2, <2>3
<1>3. Return = TestAt(l + 1)
  <2>1. ASSUME NEW x PROVE <<<<"testCrash", x>>>> \o <<<<"main", 17>>>> = TestAt(x)
    BY PushOnOne, Zenon DEF TestAt
  <2>2. stack[2][1] = "testCrash" /\ stack[2][2] = l
    BY <1>1
  <2>3. Return = <<<<stack[2][1], stack[2][2] + 1>>>> \o Tail(Tail(stack))
    BY DEF Return
  <2> QED
    BY <1>1, <2>1, <2>2, <2>3
<1> QED
  BY <1>2, <1>3

\* Out of memory, newPtr's frame is still there.
LEMMA FromNewPtr ==
  ASSUME stack = Within("newPtr", 6, 20)
  PROVE  Call("abort", 0) = OutOfMemory
<1>1. <<<<"abort", 0>>>> \o <<<<"newPtr", 6>>, <<"testCrash", 20>>, <<"main", 17>>>> =
      <<<<"abort", 0>>, <<"newPtr", 6>>, <<"testCrash", 20>>, <<"main", 17>>>>
  BY PushOnThree, Zenon
<1> QED
  BY <1>1 DEF Call, Within, OutOfMemory

\* The line a run is at tells its whole stack, the two calls of usePtr apart.
LEMMA WhereItIs ==
  ASSUME OnItsWay, phase = "code"
  PROVE  /\ At("main", 13) => stack = MainAt(13)
         /\ At("main", 14) => stack = MainAt(14)
         /\ At("main", 17) => stack = MainAt(17)
         /\ At("testCrash", 20) => stack = TestAt(20)
         /\ At("newPtr", 6) => stack = Within("newPtr", 6, 20)
         /\ At("testCrash", 21) => stack = TestAt(21) /\ ptr = Cell
         /\ At("testCrash", 22) => stack = TestAt(22)
         /\ At("testCrash", 23) => stack = TestAt(23) /\ ptr = Null
         /\ At("usePtr", 14) =>
              \/ stack = Within("usePtr", 14, 21) /\ ptr = Cell
              \/ stack = NullDereference /\ ptr = Null
         /\ At("usePtr", 15) => stack = Within("usePtr", 15, 21) /\ ptr = Cell
         /\ At("usePtr", 16) => stack = Within("usePtr", 16, 21) /\ ptr = Cell
         /\ At("resetPtr", 10) => stack = Within("resetPtr", 10, 22)
         /\ At("abort", 0) => stack = OutOfMemory
BY DEF OnItsWay, At, NoPtrYet, PtrInUse, PtrReset, MainAt, TestAt, Within,
   NullDereference, OutOfMemory

\* The stacks are sequences of frames.
LEMMA StackType ==
  ASSUME NEW s \in NoPtrYet \cup PtrInUse \cup PtrReset \cup {OutOfMemory}
  PROVE  s \in Seq(Frames)
<1>1. ASSUME NEW l \in 0 .. 23 PROVE MainAt(l) \in Seq(Frames) /\ TestAt(l) \in Seq(Frames)
  BY DEF MainAt, TestAt, Frames, Functions
<1>2. ASSUME NEW fn \in Functions, NEW k \in 0 .. 23, NEW l \in 0 .. 23
      PROVE  Within(fn, k, l) \in Seq(Frames)
  BY DEF Within, Frames, Functions
<1>3. OutOfMemory \in Seq(Frames)
  BY DEF OutOfMemory, Frames, Functions
<1>4. /\ MainAt(13) \in Seq(Frames) /\ MainAt(14) \in Seq(Frames)
      /\ MainAt(17) \in Seq(Frames)
  BY <1>1
<1>5. /\ TestAt(20) \in Seq(Frames) /\ TestAt(21) \in Seq(Frames)
      /\ TestAt(22) \in Seq(Frames) /\ TestAt(23) \in Seq(Frames)
  BY <1>1
<1>6. /\ Within("newPtr", 6, 20) \in Seq(Frames)
      /\ Within("resetPtr", 10, 22) \in Seq(Frames)
      /\ Within("usePtr", 14, 21) \in Seq(Frames)
      /\ Within("usePtr", 15, 21) \in Seq(Frames)
      /\ Within("usePtr", 16, 21) \in Seq(Frames)
      /\ Within("usePtr", 14, 23) \in Seq(Frames)
  BY <1>2 DEF Functions
<1>7. NullDereference = Within("usePtr", 14, 23)
  BY DEF NullDereference, Within
<1> QED
  BY <1>3, <1>4, <1>5, <1>6, <1>7 DEF NoPtrYet, PtrInUse, PtrReset

\* A run that has not begun has its handlers to install.
LEMMA NotInMain ==
  \A s \in PtrInUse \cup PtrReset \cup {OutOfMemory, TestAt(20), Within("newPtr", 6, 20)} :
    s # MainAt(13) /\ s # MainAt(14)
BY DEF PtrInUse, PtrReset, MainAt, TestAt, Within, NullDereference, OutOfMemory

\* Nothing has run at first.
LEMMA InitIInv == ASSUME BitsType, MaxRunsType, Init PROVE IInv
<1>1. <<>> \in Seq(Frames) /\ 0 \in Ints /\ 0 \in 0 .. MaxRuns
  <2>1. <<>> \in Seq(Frames)
    OBVIOUS
  <2>2. 0 \in Ints
    BY PowerOf2 DEF Ints, BitsType
  <2>3. 0 \in 0 .. MaxRuns
    BY DEF MaxRunsType
  <2> QED
    BY <2>1, <2>2, <2>3
<1>2. TypeOK
  BY <1>1 DEF Init, TypeOK, NoDump
<1>3. \A r \in Runs : dumps[r].body = "none"
  BY DEF Init, NoDump
<1> QED
  BY <1>2, <1>3 DEF Init, IInv, OnItsWay, NotYetWhole, DumpTellsTheCrash, HandledMeansDumped

\* A step of the program itself: it goes on to a stack of its way.
LEMMA ProgramKeeps ==
  ASSUME IInv, phase = "code", NEW s, Step(s),
         ptr' \in {Null, Cell}, cell' \in Ints, var' \in Ints,
         \/ s \in NoPtrYet
         \/ s \in PtrInUse /\ ptr' = Cell
         \/ s \in PtrReset /\ ptr' = Null
         \/ s = OutOfMemory,
         s \in {MainAt(13), MainAt(14)} => stack \in {MainAt(13), MainAt(14)}
  PROVE  IInv'
<1>1. /\ stack' = s /\ run' = run /\ phase' = phase /\ handler' = handler
      /\ succeeded' = succeeded /\ handled' = handled /\ dumps' = dumps
  BY DEF Step, breakpad
<1>2. TypeOK'
  BY <1>1, StackType DEF IInv, TypeOK
<1>3. OnItsWay'
  BY <1>1 DEF IInv, OnItsWay
<1>4. NotYetWhole'
  BY <1>1 DEF IInv, NotYetWhole
<1>5. DumpTellsTheCrash' /\ HandledMeansDumped'
  BY <1>1 DEF IInv, DumpTellsTheCrash, HandledMeansDumped
<1> QED
  BY <1>2, <1>3, <1>4, <1>5 DEF IInv

\* The steps of main, and testCrash's first.
LEMMA MainKeeps ==
  ASSUME IInv, MakeDescriptor \/ CallTestCrash \/ CallNewPtr \/ NewInt \/ NewFails
  PROVE  IInv'
<1> USE DEF IInv
<1>1. /\ phase = "code"
      /\ ptr \in {Null, Cell} /\ cell \in Ints /\ var \in Ints
  BY DEF TypeOK, At, MakeDescriptor, CallTestCrash, CallNewPtr, NewInt, NewFails
<1>2. CASE MakeDescriptor
  <2>1. stack = MainAt(13) /\ Step(MainAt(14)) /\ UNCHANGED memory
    BY <1>1, <1>2, WhereItIs, FromMain DEF MakeDescriptor
  <2> QED
    BY <1>1, <2>1, ProgramKeeps DEF memory, NoPtrYet
<1>3. CASE CallTestCrash
  <2>1. Step(TestAt(20)) /\ UNCHANGED memory
    BY <1>1, <1>3, WhereItIs, FromMain DEF CallTestCrash
  <2> QED
    BY <1>1, <2>1, ProgramKeeps, NotInMain DEF memory, NoPtrYet
<1>4. CASE CallNewPtr
  <2>1. Step(Within("newPtr", 6, 20)) /\ UNCHANGED memory
    BY <1>1, <1>4, WhereItIs, FromTest DEF CallNewPtr
  <2> QED
    BY <1>1, <2>1, ProgramKeeps, NotInMain DEF memory, NoPtrYet
<1>5. CASE NewInt
  <2>1. Step(TestAt(21)) /\ ptr' = Cell /\ cell' \in Ints /\ UNCHANGED var
    <3>1. stack = Within("newPtr", 6, 20) /\ 20 + 1 = 21
      BY <1>1, <1>5, WhereItIs DEF NewInt
    <3>2. Return = TestAt(21)
      BY <3>1, FromWithin
    <3> QED
      BY <1>5, <3>2 DEF NewInt
  <2>2. TestAt(21) \in PtrInUse
    BY DEF PtrInUse
  <2> QED
    BY <1>1, <2>1, <2>2, ProgramKeeps, NotInMain
<1>6. CASE NewFails
  <2>1. Step(OutOfMemory) /\ UNCHANGED memory
    BY <1>1, <1>6, WhereItIs, FromNewPtr DEF NewFails
  <2> QED
    BY <1>1, <2>1, ProgramKeeps, NotInMain DEF memory
<1> QED
  BY <1>2, <1>3, <1>4, <1>5, <1>6

\* The two calls of usePtr: the first goes through, the second stops at the
\* null pointer.
LEMMA UseKeeps ==
  ASSUME BitsType, IInv,
               \/ CallUsePtr \/ ReadVar \/ IncVar \/ WriteVar
               \/ CallResetPtr \/ ResetPtr
  PROVE  IInv'
<1> USE DEF IInv
<1>1. /\ phase = "code"
      /\ ptr \in {Null, Cell} /\ cell \in Ints /\ var \in Ints
      /\ (var + 1) % 2^Bits \in Ints
  BY DEF BitsType, TypeOK, At, CallUsePtr, ReadVar, IncVar, WriteVar, CallResetPtr,
     ResetPtr, Ints
<1>2. ASSUME NEW fn, NEW k, NEW l, stack = Within(fn, k, l), NEW m \in Nat, m = l + 1
      PROVE  Return = TestAt(m)
  BY <1>2, FromWithin
<1>3. CASE CallUsePtr
  <2>1. CASE stack = TestAt(21) /\ ptr = Cell
    <3>1. Step(Within("usePtr", 14, 21)) /\ UNCHANGED memory
      BY <1>3, <2>1, FromTest DEF CallUsePtr
    <3> QED
      BY <1>1, <2>1, <3>1, ProgramKeeps, NotInMain DEF memory, PtrInUse
  <2>2. CASE stack = TestAt(23) /\ ptr = Null
    <3>1. Step(NullDereference) /\ UNCHANGED memory
      BY <1>3, <2>2, FromTest DEF CallUsePtr, NullDereference, Within
    <3> QED
      BY <1>1, <2>2, <3>1, ProgramKeeps, NotInMain DEF memory, PtrReset
  <2> QED
    BY <1>1, <1>3, <2>1, <2>2, WhereItIs DEF CallUsePtr
<1>4. CASE ReadVar
  <2>1. stack = Within("usePtr", 14, 21) /\ ptr = Cell
    BY <1>1, <1>4, WhereItIs DEF ReadVar, Null, Cell
  <2>2. Step(Within("usePtr", 15, 21))
    BY <1>4, <2>1, FromWithin DEF ReadVar
  <2> QED
    BY <1>1, <1>4, <2>1, <2>2, ProgramKeeps, NotInMain DEF ReadVar, PtrInUse
<1>5. CASE IncVar
  <2>1. stack = Within("usePtr", 15, 21) /\ ptr = Cell
    BY <1>1, <1>5, WhereItIs DEF IncVar
  <2>2. Step(Within("usePtr", 16, 21))
    BY <1>5, <2>1, FromWithin DEF IncVar
  <2> QED
    BY <1>1, <1>5, <2>1, <2>2, ProgramKeeps, NotInMain DEF IncVar, PtrInUse
<1>6. CASE WriteVar
  <2>1. stack = Within("usePtr", 16, 21) /\ ptr = Cell
    BY <1>1, <1>6, WhereItIs DEF WriteVar
  <2>2. Step(TestAt(22))
    BY <1>2, <1>6, <2>1 DEF WriteVar
  <2>3. TestAt(22) \in PtrInUse
    BY DEF PtrInUse
  <2> QED
    BY <1>1, <1>6, <2>1, <2>2, <2>3, ProgramKeeps, NotInMain DEF WriteVar
<1>7. CASE CallResetPtr
  <2>1. stack = TestAt(22)
    BY <1>1, <1>7, WhereItIs DEF CallResetPtr
  <2>2. ptr = Cell
    BY <1>1, <2>1 DEF OnItsWay, TestAt, NoPtrYet, PtrReset, NullDereference, OutOfMemory,
       MainAt, Within
  <2>3. Step(Within("resetPtr", 10, 22)) /\ UNCHANGED memory
    BY <1>7, <2>1, FromTest DEF CallResetPtr
  <2> QED
    BY <1>1, <2>2, <2>3, ProgramKeeps, NotInMain DEF memory, PtrInUse
<1>8. CASE ResetPtr
  <2>1. stack = Within("resetPtr", 10, 22)
    BY <1>1, <1>8, WhereItIs DEF ResetPtr
  <2>2. Step(TestAt(23))
    BY <1>2, <1>8, <2>1 DEF ResetPtr
  <2>3. TestAt(23) \in PtrReset
    BY DEF PtrReset
  <2> QED
    BY <1>1, <1>8, <2>2, <2>3, ProgramKeeps, NotInMain DEF ResetPtr
<1> QED
  BY <1>3, <1>4, <1>5, <1>6, <1>7, <1>8

\* A run begins, installs its handlers, is killed, or raises a signal.
LEMMA ProcessKeeps ==
  ASSUME MaxRunsType, IInv, Launch \/ InstallHandler \/ ReadNull \/ Abort \/ Kill
  PROVE  IInv'
<1> USE DEF IInv
<1>1. TypeOK'
  <2>1. MainAt(13) \in Seq(Frames) /\ MainAt(17) \in Seq(Frames)
    BY StackType DEF NoPtrYet
  <2>2. ASSUME InstallHandler PROVE stack' = MainAt(17)
    BY <2>2, WhereItIs, FromMain DEF InstallHandler, At
  <2>3. stack' \in Seq(Frames)
    <3>1. ASSUME Launch PROVE stack' = MainAt(13)
      BY <3>1 DEF Launch, MainAt
    <3>2. ASSUME ReadNull \/ Abort \/ Kill PROVE stack' = stack
      BY <3>2 DEF ReadNull, Abort, Signal, Kill
    <3> QED
      BY <2>1, <2>2, <3>1, <3>2 DEF TypeOK
  <2>4. run' \in 0 .. MaxRuns
    BY DEF TypeOK, Launch, InstallHandler, ReadNull, Abort, Signal, Kill, MaxRunsType
  <2> QED
    BY <2>3, <2>4 DEF TypeOK, Launch, InstallHandler, ReadNull, Abort, Signal, Kill,
       memory, breakpad
<1>2. CASE Launch
  <2>1. /\ stack' = MainAt(13) /\ run' = run + 1 /\ run' \in Runs /\ run \in Nat
        /\ phase' = "code" /\ ~handled' /\ ~handler' /\ dumps' = dumps
    BY <1>2 DEF Launch, MainAt, TypeOK, Runs, MaxRunsType
  <2>2. OnItsWay'
    BY <2>1 DEF OnItsWay, NoPtrYet
  <2>3. NotYetWhole'
    BY <2>1 DEF NotYetWhole, Runs
  <2> QED
    BY <1>1, <2>1, <2>2, <2>3 DEF DumpTellsTheCrash, HandledMeansDumped
<1>3. CASE InstallHandler
  <2>1. /\ phase = "code" /\ phase' = phase /\ stack = MainAt(14) /\ stack' = MainAt(17)
        /\ UNCHANGED <<run, memory, succeeded, handled, dumps>>
    BY <1>3, WhereItIs, FromMain DEF InstallHandler, At
  <2>2. OnItsWay'
    BY <2>1 DEF OnItsWay, NoPtrYet
  <2>3. NotYetWhole'
    BY <2>1 DEF NotYetWhole
  <2> QED
    BY <1>1, <2>1, <2>2, <2>3 DEF DumpTellsTheCrash, HandledMeansDumped
<1>4. CASE ReadNull \/ Abort
  <2>1. /\ phase = "code"
        /\ stack \in {NullDereference, OutOfMemory}
        /\ phase' = IF handler THEN "signal" ELSE "absent"
        /\ UNCHANGED <<run, stack, memory, breakpad>>
    BY <1>4, WhereItIs DEF ReadNull, Abort, Signal, At, Null, Cell
  <2>2. OnItsWay'
    BY <2>1 DEF OnItsWay, memory
  <2>3. NotYetWhole'
    BY <2>1 DEF NotYetWhole, breakpad
  <2> QED
    BY <1>1, <2>1, <2>2, <2>3 DEF DumpTellsTheCrash, HandledMeansDumped, breakpad
<1>5. CASE Kill
  BY <1>1, <1>5 DEF Kill, OnItsWay, NotYetWhole, DumpTellsTheCrash, HandledMeansDumped,
     memory, breakpad
<1> QED
  BY <1>2, <1>3, <1>4, <1>5

\* The minidump is written while the stack of the crash stands, and the
\* handlers are gone when its outcome is known.
LEMMA HandlerKeeps ==
  ASSUME IInv, Handler
  PROVE  IInv' /\ \A r \in Runs : dumps[r].body = "whole" => dumps'[r] = dumps[r]
<1> USE DEF IInv
<1>1. /\ run \in Runs /\ stack \in {NullDereference, OutOfMemory}
      /\ stack \in Seq(Frames)
      /\ UNCHANGED <<run, stack, memory>>
      /\ dumps \in [Runs -> [body : {"none", "part", "whole"}, stack : Seq(Frames)]]
  BY DEF Handler, OpenDump, WriteDump, Callback, OnItsWay, TypeOK
<1>2. CASE OpenDump
  <2>1. /\ phase = "signal" /\ dumps[run].body # "whole" /\ ~handled
        /\ UNCHANGED <<handler, handled>>
    BY <1>2 DEF OpenDump, NotYetWhole, HandledMeansDumped
  <2>2. \/ /\ phase' = "writing" /\ succeeded' = succeeded
           /\ dumps' = [dumps EXCEPT ![run].body = "part"]
        \/ phase' = "callback" /\ succeeded' = FALSE /\ dumps' = dumps
    BY <1>2 DEF OpenDump
  <2>3. /\ \A r \in Runs \ {run} : dumps'[r] = dumps[r]
        /\ dumps'[run].body # "whole"
        /\ dumps' \in [Runs -> [body : {"none", "part", "whole"}, stack : Seq(Frames)]]
    BY <1>1, <2>1, <2>2
  <2>4. OnItsWay' /\ NotYetWhole'
    BY <1>1, <2>1, <2>2, <2>3 DEF OnItsWay, NotYetWhole, memory, Runs
  <2>5. DumpTellsTheCrash' /\ HandledMeansDumped'
    BY <1>1, <2>1, <2>3 DEF DumpTellsTheCrash, HandledMeansDumped
  <2>6. TypeOK'
    BY <1>1, <2>1, <2>2, <2>3 DEF TypeOK, memory
  <2> QED
    BY <1>1, <2>1, <2>3, <2>4, <2>5, <2>6
<1>3. CASE WriteDump
  <2>1. /\ phase = "writing" /\ dumps[run].body # "whole" /\ ~handled
        /\ phase' = "callback" /\ UNCHANGED <<handler, handled>>
    BY <1>3 DEF WriteDump, NotYetWhole, HandledMeansDumped
  <2>2. \/ /\ succeeded' = TRUE
           /\ dumps' = [dumps EXCEPT ![run] = [body |-> "whole", stack |-> stack]]
        \/ succeeded' = FALSE /\ dumps' = dumps
    BY <1>3 DEF WriteDump
  <2>3. /\ \A r \in Runs \ {run} : dumps'[r] = dumps[r]
        /\ succeeded' => dumps'[run].body = "whole"
        /\ dumps'[run].body = "whole" => dumps'[run].stack = stack
        /\ dumps' \in [Runs -> [body : {"none", "part", "whole"}, stack : Seq(Frames)]]
    <3> DEFINE new == [body |-> "whole", stack |-> stack]
    <3>1. new \in [body : {"none", "part", "whole"}, stack : Seq(Frames)]
      BY <1>1
    <3>2. CASE succeeded' = TRUE /\ dumps' = [dumps EXCEPT ![run] = new]
      BY <1>1, <3>1, <3>2
    <3>3. CASE succeeded' = FALSE /\ dumps' = dumps
      BY <1>1, <2>1, <3>3
    <3> QED
      BY <2>2, <3>2, <3>3
  <2>4. OnItsWay' /\ NotYetWhole'
    BY <1>1, <2>1, <2>3 DEF OnItsWay, NotYetWhole, memory, Runs
  <2>5. DumpTellsTheCrash' /\ HandledMeansDumped'
    BY <1>1, <2>1, <2>3 DEF DumpTellsTheCrash, HandledMeansDumped
  <2>6. TypeOK'
    BY <1>1, <2>1, <2>2, <2>3 DEF TypeOK, memory
  <2> QED
    BY <1>1, <2>1, <2>3, <2>4, <2>5, <2>6
<1>4. CASE Callback
  <2>1. /\ phase = "callback" /\ phase' = "code" /\ handled' = succeeded /\ ~handler'
        /\ handler' = FALSE /\ UNCHANGED <<succeeded, dumps>>
    BY <1>4 DEF Callback
  <2>2. stack # MainAt(13) /\ stack # MainAt(14)
    BY <1>1, NotInMain DEF PtrReset
  <2>3. OnItsWay' /\ NotYetWhole'
    BY <1>1, <2>1, <2>2 DEF OnItsWay, NotYetWhole, memory, Runs
  <2>4. DumpTellsTheCrash' /\ HandledMeansDumped'
    BY <1>1, <2>1 DEF DumpTellsTheCrash, HandledMeansDumped, NotYetWhole
  <2>5. TypeOK'
    BY <1>1, <2>1 DEF TypeOK, memory
  <2> QED
    BY <2>1, <2>3, <2>4, <2>5
<1> QED
  BY <1>2, <1>3, <1>4 DEF Handler

\* Only the handler touches the minidumps.
LEMMA NextIInv ==
  ASSUME BitsType, MaxRunsType, IInv, [Next]_vars
  PROVE  IInv' /\ [\A r \in Runs : dumps[r].body = "whole" => dumps'[r] = dumps[r]]_dumps
<1>1. CASE Handler
  BY <1>1, HandlerKeeps
<1>2. CASE Launch \/ Code \/ Kill
  <2>1. IInv'
    BY <1>2, MainKeeps, UseKeeps, ProcessKeeps DEF Code
  <2>2. UNCHANGED dumps
    BY <1>2 DEF Launch, Code, Kill, MakeDescriptor, InstallHandler, CallTestCrash,
       CallNewPtr, NewInt, NewFails, CallUsePtr, ReadVar, IncVar, WriteVar, CallResetPtr,
       ResetPtr, ReadNull, Abort, Signal, Step, breakpad
  <2> QED
    BY <2>1, <2>2
<1>3. CASE UNCHANGED vars
  BY <1>3 DEF vars, process, memory, breakpad, IInv, TypeOK, OnItsWay, NotYetWhole,
     DumpTellsTheCrash, HandledMeansDumped
<1> QED
  BY <1>1, <1>2, <1>3 DEF Next

-----------------------------------------------------------------------------
\* An instance has a dump of its own only from the filter on: no file has its
\* name before, the one it has open is new, and what it has written to the end
\* it has written once.
OwnDump == \A p \in Instances :
  /\ pc[p] \in {"absent", "loop", "filter", "exited"} => \A t \in 0..MaxTime : dir[t].by # p
  /\ pc[p] \notin {"close", "crashed"} => kept[p] = Windows!NoHandle
  /\ pc[p] \in {"write", "close"} => dump[p] # Windows!NoHandle
  /\ pc[p] = "write" /\ dump[p] # Windows!Invalid => dir[dump[p]] = [by |-> p, body |-> "empty"]
  /\ kept[p] # Windows!Invalid

\* Nobody else has a file open that an instance has open.
OneHandle == \A p, q \in Instances :
  /\ pc[p] \in {"write", "close"} /\ pc[q] \in {"write", "close"}
  /\ dump[p] = dump[q] /\ dump[p] # Windows!Invalid
  => p = q

WindowsIInv ==
  /\ Windows!TypeOK
  /\ queue \in [Instances -> Seq(Windows!Messages)]
  /\ OwnDump /\ OneHandle
  /\ Windows!DumpsTellTheirCrash

\* Whole dumps are lost to the same millisecond only, in a step.
WindowsLoss ==
  \A t \in 0..MaxTime : dir[t].body = "whole" /\ dir'[t] # dir[t] =>
    now = t /\ dir'[t].by # dir[t].by

LEMMA WindowsTypes ==
  /\ MaxTime \in Nat /\ Windows!Invalid = MaxTime + 1 /\ Windows!NoHandle = MaxTime + 2
  /\ Windows!Nobody \notin Instances
  BY ProcessesAssumption DEF Windows!Win32Assumption, Windows!Invalid, Windows!NoHandle

\* The handles and the places of the instances.
LEMMA WindowsPlaces ==
  ASSUME WindowsIInv, NEW p \in Instances
  PROVE  /\ pc[p] \in Windows!Places /\ dump[p] \in 0..MaxTime + 2 /\ kept[p] \in 0..MaxTime + 2
         /\ kept[p] \in 0..MaxTime \/ kept[p] = Windows!NoHandle
         /\ pc[p] \in {"write", "close"} => dump[p] \in 0..MaxTime \/ dump[p] = Windows!Invalid
<1>1. pc[p] \in Windows!Places /\ dump[p] \in 0..MaxTime + 2 /\ kept[p] \in 0..MaxTime + 2
  BY WindowsTypes DEF WindowsIInv, Windows!TypeOK
<1>2. kept[p] # MaxTime + 1 /\ (pc[p] \in {"write", "close"} => dump[p] # MaxTime + 2)
  BY WindowsTypes DEF WindowsIInv, OwnDump
<1> QED
  BY <1>1, <1>2, WindowsTypes

LEMMA WindowsInit == Windows!Init => WindowsIInv
<1> SUFFICES ASSUME Windows!Init PROVE WindowsIInv
  OBVIOUS
<1>1. << >> \in Seq(Windows!Messages)
  OBVIOUS
<1> QED
  BY <1>1, WindowsTypes DEF Windows!Init, WindowsIInv, OwnDump, OneHandle, Windows!TypeOK, Windows!DumpsTellTheirCrash,
     Windows!NoFile, Windows!Places, Windows!Nobody

\* What neither makes nor closes a dump: the clock, the window and its messages.
LEMMA WindowsMessages ==
  ASSUME WindowsIInv, UNCHANGED <<dir, dump, kept>>, now' \in 0..MaxTime,
         \/ pc' = pc
         \/ \E p \in Instances, place \in {"loop", "filter", "exited"} :
              pc[p] \in {"absent", "loop"} /\ pc' = [pc EXCEPT ![p] = place],
         dialog' \in [Instances -> BOOLEAN],
         queue' \in [Instances -> Seq(Windows!Messages)]
  PROVE  WindowsIInv'
<1>1. /\ pc' \in [Instances -> Windows!Places]
      /\ \A p \in Instances :
           \/ pc'[p] = pc[p]
           \/ pc[p] \in {"absent", "loop"} /\ pc'[p] \in {"loop", "filter", "exited"}
  BY DEF WindowsIInv, Windows!TypeOK, Windows!Places
<1>2. Windows!TypeOK'
  BY <1>1 DEF WindowsIInv, Windows!TypeOK
<1> QED
  BY <1>1, <1>2 DEF WindowsIInv, OwnDump, OneHandle, Windows!DumpsTellTheirCrash

\* The messages of an instance stay messages.
LEMMA WindowsQueues ==
  ASSUME WindowsIInv, NEW p \in Instances
  PROVE  /\ \A message \in Windows!Messages : Windows!Post(p, message) => queue' \in [Instances -> Seq(Windows!Messages)]
         /\ queue[p] # << >> => Tail(queue[p]) \in Seq(Windows!Messages)
         /\ Windows!Destroyed \in Seq(Windows!Messages)
<1>1. queue \in [Instances -> Seq(Windows!Messages)]
  BY DEF WindowsIInv
<1>2. ASSUME NEW message \in Windows!Messages, Windows!Post(p, message)
      PROVE  queue' \in [Instances -> Seq(Windows!Messages)]
  <2>1. Append(queue[p], message) \in Seq(Windows!Messages)
    BY <1>1
  <2> QED
    BY <1>1, <1>2, <2>1 DEF Windows!Post
<1>3. Windows!Destroyed \in Seq(Windows!Messages)
  BY DEF Windows!Destroyed, Windows!Messages
<1> QED
  BY <1>1, <1>2, <1>3

\* CreateDump: nobody has the file open, or the handle is invalid.
LEMMA WindowsCreate ==
  ASSUME WindowsIInv, NEW p \in Instances, Windows!CreateDump(p)
  PROVE  WindowsIInv' /\ WindowsLoss
<1>1. /\ pc[p] = "filter" /\ pc' = [pc EXCEPT ![p] = "write"] /\ UNCHANGED <<now, queue, dialog, kept>>
      /\ kept[p] = Windows!NoHandle
      /\ \A t \in 0..MaxTime : dir[t].by # p
  BY DEF Windows!CreateDump, Windows!Goto, Windows!window, WindowsIInv, OwnDump
<1>2. /\ pc' \in [Instances -> Windows!Places] /\ pc'[p] = "write"
      /\ \A q \in Instances : q # p => pc'[q] = pc[q]
      /\ now \in 0..MaxTime
  BY <1>1 DEF WindowsIInv, Windows!TypeOK, Windows!Places
<1>3. CASE dump' = [dump EXCEPT ![p] = Windows!Invalid] /\ dir' = dir
  <2>1. /\ dump' \in [Instances -> 0..Windows!NoHandle] /\ dump'[p] = Windows!Invalid
        /\ \A q \in Instances : q # p => dump'[q] = dump[q]
    BY <1>3, WindowsTypes DEF WindowsIInv, Windows!TypeOK
  <2>2. Windows!TypeOK'
    BY <1>1, <1>2, <1>3, <2>1 DEF WindowsIInv, Windows!TypeOK
  <2>3. OwnDump' /\ OneHandle'
    BY <1>1, <1>2, <1>3, <2>1, WindowsTypes DEF WindowsIInv, OwnDump, OneHandle
  <2> QED
    BY <1>1, <1>3, <2>2, <2>3 DEF WindowsIInv, Windows!DumpsTellTheirCrash, WindowsLoss
<1>4. CASE /\ Windows!CanCreate(now)
           /\ dump' = [dump EXCEPT ![p] = now]
           /\ dir' = [dir EXCEPT ![now] = [by |-> p, body |-> "empty"]]
  <2>1. /\ dump' \in [Instances -> 0..Windows!NoHandle] /\ dump'[p] = now
        /\ \A q \in Instances : q # p => dump'[q] = dump[q]
    BY <1>2, <1>4, WindowsTypes DEF WindowsIInv, Windows!TypeOK
  <2>2. /\ dir'[now] = [by |-> p, body |-> "empty"] /\ \A t \in 0..MaxTime : t # now => dir'[t] = dir[t]
        /\ dir' \in [0..MaxTime -> [by : Instances \cup {Windows!Nobody}, body : {"none", "empty", "part", "whole"}]]
    BY <1>2, <1>4 DEF WindowsIInv, Windows!TypeOK
  <2>3. \A q \in Instances : pc[q] \in {"write", "close"} => dump[q] # now
    BY <1>4 DEF Windows!CanCreate, Windows!IsOpen
  <2>4. Windows!TypeOK'
    BY <1>1, <1>2, <2>1, <2>2 DEF WindowsIInv, Windows!TypeOK
  <2>5. Windows!DumpsTellTheirCrash'
    <3> SUFFICES ASSUME NEW q \in Instances, kept[q] # Windows!NoHandle
                 PROVE  \/ dir'[kept[q]] = [by |-> q, body |-> "whole"]
                        \/ dir'[kept[q]].by \notin {q, Windows!Nobody}
      BY <1>1 DEF Windows!DumpsTellTheirCrash
    <3>1. q # p /\ kept[q] \in 0..MaxTime
      BY <1>1, WindowsPlaces
    <3>2. \/ dir[kept[q]] = [by |-> q, body |-> "whole"]
          \/ dir[kept[q]].by \notin {q, Windows!Nobody}
      BY DEF WindowsIInv, Windows!DumpsTellTheirCrash
    <3>3. dir'[kept[q]] = dir[kept[q]] \/ dir'[kept[q]].by = p
      BY <2>2, <3>1
    <3> QED
      BY <3>1, <3>2, <3>3, WindowsTypes
  <2>6. WindowsLoss
    BY <1>1, <1>2, <2>2 DEF WindowsLoss
  <2>7. OwnDump'
    <3> SUFFICES ASSUME NEW q \in Instances
                 PROVE  /\ pc'[q] \in {"absent", "loop", "filter", "exited"} => \A u \in 0..MaxTime : dir'[u].by # q
                        /\ pc'[q] \notin {"close", "crashed"} => kept'[q] = Windows!NoHandle
                        /\ pc'[q] \in {"write", "close"} => dump'[q] # Windows!NoHandle
                        /\ pc'[q] = "write" /\ dump'[q] # Windows!Invalid =>
                             dir'[dump'[q]] = [by |-> q, body |-> "empty"]
                        /\ kept'[q] # Windows!Invalid
      BY DEF OwnDump
    <3>1. CASE q = p
      BY <1>1, <1>2, <2>1, <2>2, <3>1, WindowsTypes
    <3>2. CASE q # p
      <4>1. /\ pc[q] \in {"absent", "loop", "filter", "exited"} => \A u \in 0..MaxTime : dir[u].by # q
            /\ pc[q] \notin {"close", "crashed"} => kept[q] = Windows!NoHandle
            /\ pc[q] \in {"write", "close"} => dump[q] # Windows!NoHandle
            /\ pc[q] = "write" /\ dump[q] # Windows!Invalid => dir[dump[q]] = [by |-> q, body |-> "empty"]
            /\ kept[q] # Windows!Invalid
        BY DEF WindowsIInv, OwnDump
      <4>2. \/ pc[q] # "write" \/ dump[q] = Windows!Invalid
            \/ dump[q] \in 0..MaxTime /\ dump[q] # now
        BY <2>3, WindowsPlaces
      <4>3. \A u \in 0..MaxTime : dir'[u] = dir[u] \/ dir'[u].by = p
        BY <2>2
      <4>4. pc'[q] = pc[q] /\ dump'[q] = dump[q] /\ kept'[q] = kept[q]
        BY <1>1, <1>2, <2>1, <3>2
      <4>5. pc[q] \in {"absent", "loop", "filter", "exited"} => \A u \in 0..MaxTime : dir'[u].by # q
        BY <3>2, <4>1, <4>3
      <4>6. pc[q] = "write" /\ dump[q] # Windows!Invalid => dir'[dump[q]] = [by |-> q, body |-> "empty"]
        BY <2>2, <4>1, <4>2
      <4> QED
        BY <4>1, <4>4, <4>5, <4>6
    <3> QED
      BY <3>1, <3>2
  <2>8. OneHandle'
    BY <1>2, <2>1, <2>3 DEF WindowsIInv, OneHandle
  <2> QED
    BY <1>1, <2>4, <2>5, <2>6, <2>7, <2>8 DEF WindowsIInv
<1> QED
  BY <1>3, <1>4 DEF Windows!CreateDump, Windows!DumpName

\* WriteDump: whatever becomes of it, the file is the writer's own.
LEMMA WindowsWrite ==
  ASSUME WindowsIInv, NEW p \in Instances, Windows!WriteDump(p)
  PROVE  WindowsIInv' /\ WindowsLoss
<1>1. /\ pc[p] = "write" /\ pc' = [pc EXCEPT ![p] = "close"] /\ UNCHANGED <<now, queue, dialog, dump>>
      /\ kept[p] = Windows!NoHandle
  BY DEF Windows!WriteDump, Windows!Goto, Windows!window, WindowsIInv, OwnDump
<1>2. pc' \in [Instances -> Windows!Places] /\ pc'[p] = "close" /\ \A q \in Instances : q # p => pc'[q] = pc[q]
  BY <1>1 DEF WindowsIInv, Windows!TypeOK, Windows!Places
<1>3. CASE dump[p] = Windows!Invalid /\ UNCHANGED <<dir, kept>>
  <2>1. Windows!TypeOK'
    BY <1>1, <1>2, <1>3 DEF WindowsIInv, Windows!TypeOK
  <2>2. OwnDump' /\ OneHandle'
    BY <1>1, <1>2, <1>3 DEF WindowsIInv, OwnDump, OneHandle
  <2> QED
    BY <1>1, <1>3, <2>1, <2>2 DEF WindowsIInv, Windows!DumpsTellTheirCrash, WindowsLoss
<1>4. ASSUME NEW body \in {"part", "whole"}, dump[p] # Windows!Invalid,
             dir' = [dir EXCEPT ![dump[p]].body = body],
             kept' = IF body = "whole" THEN [kept EXCEPT ![p] = dump[p]] ELSE kept
      PROVE  WindowsIInv' /\ WindowsLoss
  <2> DEFINE t == dump[p]
  <2>1. t \in 0..MaxTime /\ dir[t] = [by |-> p, body |-> "empty"]
    BY <1>1, <1>4, WindowsPlaces DEF WindowsIInv, OwnDump
  <2>2. /\ dir'[t] = [by |-> p, body |-> body] /\ \A u \in 0..MaxTime : u # t => dir'[u] = dir[u]
        /\ dir' \in [0..MaxTime -> [by : Instances \cup {Windows!Nobody}, body : {"none", "empty", "part", "whole"}]]
    BY <1>4, <2>1 DEF WindowsIInv, Windows!TypeOK
  <2>3. /\ kept' \in [Instances -> 0..Windows!NoHandle]
        /\ kept'[p] = IF body = "whole" THEN t ELSE Windows!NoHandle
        /\ \A q \in Instances : q # p => kept'[q] = kept[q]
    BY <1>1, <1>4, <2>1, WindowsTypes DEF WindowsIInv, Windows!TypeOK
  <2>7. \A q \in Instances : q # p /\ pc[q] = "write" /\ dump[q] # Windows!Invalid => dump[q] # t /\ dump[q] \in 0..MaxTime
    BY <1>1, <1>4, WindowsPlaces DEF WindowsIInv, OneHandle
  <2> HIDE DEF t
  <2>4. Windows!TypeOK'
    BY <1>1, <1>2, <2>2, <2>3 DEF WindowsIInv, Windows!TypeOK
  <2>5. Windows!DumpsTellTheirCrash'
    <3> SUFFICES ASSUME NEW q \in Instances, kept'[q] # Windows!NoHandle
                 PROVE  \/ dir'[kept'[q]] = [by |-> q, body |-> "whole"]
                        \/ dir'[kept'[q]].by \notin {q, Windows!Nobody}
      BY DEF Windows!DumpsTellTheirCrash
    <3>1. CASE q = p
      BY <2>1, <2>2, <2>3, <3>1
    <3>2. CASE q # p
      <4>1. kept'[q] = kept[q] /\ kept[q] \in 0..MaxTime
        BY <2>3, <3>2, WindowsPlaces
      <4>2. \/ dir[kept[q]] = [by |-> q, body |-> "whole"]
            \/ dir[kept[q]].by \notin {q, Windows!Nobody}
        BY <4>1 DEF WindowsIInv, Windows!DumpsTellTheirCrash
      <4>3. CASE kept[q] = t
        BY <2>1, <2>2, <3>2, <4>1, <4>2, <4>3, WindowsTypes
      <4>4. CASE kept[q] # t
        BY <2>2, <4>1, <4>2, <4>4
      <4> QED
        BY <4>3, <4>4
    <3> QED
      BY <3>1, <3>2
  <2>6. WindowsLoss
    BY <2>1, <2>2 DEF WindowsLoss
  <2>8. OwnDump'
    <3> SUFFICES ASSUME NEW q \in Instances
                 PROVE  /\ pc'[q] \in {"absent", "loop", "filter", "exited"} => \A u \in 0..MaxTime : dir'[u].by # q
                        /\ pc'[q] \notin {"close", "crashed"} => kept'[q] = Windows!NoHandle
                        /\ pc'[q] \in {"write", "close"} => dump'[q] # Windows!NoHandle
                        /\ pc'[q] = "write" /\ dump'[q] # Windows!Invalid =>
                             dir'[dump'[q]] = [by |-> q, body |-> "empty"]
                        /\ kept'[q] # Windows!Invalid
      BY DEF OwnDump
    <3>1. CASE q = p
      BY <1>1, <1>2, <2>1, <2>3, <3>1, WindowsTypes DEF t
    <3>2. CASE q # p
      <4>1. /\ pc[q] \in {"absent", "loop", "filter", "exited"} => \A u \in 0..MaxTime : dir[u].by # q
            /\ pc[q] \notin {"close", "crashed"} => kept[q] = Windows!NoHandle
            /\ pc[q] \in {"write", "close"} => dump[q] # Windows!NoHandle
            /\ pc[q] = "write" /\ dump[q] # Windows!Invalid => dir[dump[q]] = [by |-> q, body |-> "empty"]
            /\ kept[q] # Windows!Invalid
        BY DEF WindowsIInv, OwnDump
      <4>2. pc'[q] = pc[q] /\ dump'[q] = dump[q] /\ kept'[q] = kept[q]
        BY <1>1, <1>2, <2>3, <3>2
      <4>3. \A u \in 0..MaxTime : dir'[u] = dir[u] \/ dir'[u].by = p
        BY <2>2
      <4>4. pc[q] \in {"absent", "loop", "filter", "exited"} => \A u \in 0..MaxTime : dir'[u].by # q
        BY <3>2, <4>1, <4>3
      <4>5. pc[q] = "write" /\ dump[q] # Windows!Invalid => dir'[dump[q]] = [by |-> q, body |-> "empty"]
        BY <2>2, <2>7, <3>2, <4>1
      <4> QED
        BY <4>1, <4>2, <4>4, <4>5
    <3> QED
      BY <3>1, <3>2
  <2>9. OneHandle'
    BY <1>1, <1>2 DEF WindowsIInv, OneHandle
  <2> QED
    BY <1>1, <2>4, <2>5, <2>6, <2>8, <2>9 DEF WindowsIInv
<1>5. \/ dump[p] = Windows!Invalid /\ UNCHANGED <<dir, kept>>
      \/ /\ dump[p] # Windows!Invalid
         /\ \E body \in {"part", "whole"} :
              /\ dir' = [dir EXCEPT ![dump[p]].body = body]
              /\ kept' = IF body = "whole" THEN [kept EXCEPT ![p] = dump[p]] ELSE kept
  BY DEF Windows!WriteDump
<1> QED
  BY <1>3, <1>4, <1>5

\* CloseDump: the handle is gone, the file stays.
LEMMA WindowsClose ==
  ASSUME WindowsIInv, NEW p \in Instances, Windows!CloseDump(p)
  PROVE  WindowsIInv'
<1>1. /\ pc[p] = "close" /\ pc' = [pc EXCEPT ![p] = "crashed"]
      /\ dump' = [dump EXCEPT ![p] = Windows!NoHandle]
      /\ UNCHANGED <<now, dir, queue, dialog, kept>>
  BY DEF Windows!CloseDump, Windows!Goto, Windows!window, Windows!files
<1>2. /\ pc' \in [Instances -> Windows!Places] /\ dump' \in [Instances -> 0..Windows!NoHandle]
      /\ pc'[p] = "crashed" /\ \A q \in Instances : q # p => pc'[q] = pc[q] /\ dump'[q] = dump[q]
  BY <1>1, WindowsTypes DEF WindowsIInv, Windows!TypeOK, Windows!Places
<1>3. Windows!TypeOK'
  BY <1>1, <1>2 DEF WindowsIInv, Windows!TypeOK
<1> QED
  BY <1>1, <1>2, <1>3 DEF WindowsIInv, OwnDump, OneHandle, Windows!DumpsTellTheirCrash

LEMMA WindowsNext ==
  WindowsIInv /\ [Windows!Next]_windows => WindowsIInv' /\ WindowsLoss
<1> SUFFICES ASSUME WindowsIInv, [Windows!Next]_windows PROVE WindowsIInv' /\ WindowsLoss
  OBVIOUS
<1> USE DEF Windows!files, Windows!window, Windows!filter
<1>1. CASE Windows!Tick \/ UNCHANGED windows
  <2>1. /\ UNCHANGED <<dir, dump, kept, pc, queue, dialog>> /\ now' \in 0..MaxTime
    BY <1>1, WindowsTypes DEF Windows!Tick, windows, WindowsIInv, Windows!TypeOK
  <2> QED
    BY <2>1, WindowsMessages DEF WindowsIInv, Windows!TypeOK, WindowsLoss
<1>2. ASSUME NEW p \in Instances, Windows!WinMain(p) \/ Windows!User(p) \/ Windows!EndDialog(p) \/ Windows!Dispatch(p)
      PROVE  WindowsIInv' /\ WindowsLoss
  <2>1. UNCHANGED <<now, dir, dump, kept>> /\ now' \in 0..MaxTime
    BY <1>2 DEF Windows!WinMain, Windows!User, Windows!EndDialog, Windows!Dispatch, WindowsIInv, Windows!TypeOK
  <2>2. \/ pc' = pc
        \/ \E place \in {"loop", "filter", "exited"} :
             pc[p] \in {"absent", "loop"} /\ pc' = [pc EXCEPT ![p] = place]
    BY <1>2 DEF Windows!WinMain, Windows!User, Windows!EndDialog, Windows!Dispatch, Windows!Goto
  <2>3. dialog' \in [Instances -> BOOLEAN]
    BY <1>2 DEF Windows!WinMain, Windows!User, Windows!EndDialog, Windows!Dispatch, WindowsIInv, Windows!TypeOK
  <2>4. queue' \in [Instances -> Seq(Windows!Messages)]
    <3>1. CASE Windows!WinMain(p) \/ Windows!EndDialog(p)
      BY <3>1 DEF Windows!WinMain, Windows!EndDialog, WindowsIInv
    <3>2. CASE Windows!User(p)
      BY <3>2, WindowsQueues DEF Windows!User, Windows!Messages
    <3>3. CASE Windows!Dispatch(p)
      BY <3>3, WindowsQueues DEF Windows!Dispatch, WindowsIInv
    <3> QED
      BY <1>2, <3>1, <3>2, <3>3
  <2> QED
    BY <2>1, <2>2, <2>3, <2>4, WindowsMessages DEF WindowsLoss
<1>3. ASSUME NEW p \in Instances, Windows!CloseDump(p) PROVE WindowsIInv' /\ WindowsLoss
  BY <1>3, WindowsClose DEF Windows!CloseDump, WindowsLoss
<1> QED
  BY <1>1, <1>2, <1>3, WindowsCreate, WindowsWrite DEF Windows!Next
-----------------------------------------------------------------------------
\* The machine there is goes on, and the other one stays as it was.
LEMMA Inductive ==
  MachinesSpec => [](IInv /\ WindowsIInv) /\ [][[Windows!Next]_windows /\ [Next]_vars]_machines
<1>1. MachinesInit => IInv /\ WindowsIInv
  BY InitIInv, WindowsInit, ProcessesAssumption DEF MachinesInit
<1>2. [MachinesNext]_machines => [Windows!Next]_windows /\ [Next]_vars
  BY DEF MachinesNext, machines
<1>3. IInv /\ [Next]_vars => IInv'
  BY NextIInv, ProcessesAssumption
<1>4. WindowsIInv /\ [Windows!Next]_windows => WindowsIInv'
  BY WindowsNext
<1> QED
  BY <1>1, <1>2, <1>3, <1>4, PTL DEF MachinesSpec

\* Both examples keep to their types, for any number of instances and runs;
\* and the Linux one is always at one of its lines, with a stack its calls can
\* have built and the pointer that goes with it.
THEOREM TypeCorrect == MachinesSpec => []ProcessesTypeOK
<1>1. IInv /\ WindowsIInv => ProcessesTypeOK
  BY DEF IInv, WindowsIInv, ProcessesTypeOK
<1> QED
  BY <1>1, Inductive, PTL

\* Whatever the memory held and whatever fails or kills the process: a whole
\* minidump shows line 14 of usePtr called from line 23, or newPtr's failure.
THEOREM DumpsTellTheCrash == MachinesSpec => []DumpTellsTheCrash
<1>1. IInv => DumpTellsTheCrash
  BY DEF IInv
<1> QED
  BY <1>1, Inductive, PTL

\* dumpCallback keeps a crash from other handlers only if it is on the disk.
THEOREM HandledIsDumped == MachinesSpec => []HandledMeansDumped
<1>1. IInv => HandledMeansDumped
  BY DEF IInv
<1> QED
  BY <1>1, Inductive, PTL

\* A whole minidump is never written to again, however often the example runs.
THEOREM DumpsAreKept == MachinesSpec => DumpsStay
<1>1. IInv /\ [Next]_vars =>
        [\A r \in Runs : dumps[r].body = "whole" => dumps'[r] = dumps[r]]_dumps
  BY NextIInv, ProcessesAssumption
<1>2. [MachinesNext]_machines => [Next]_vars
  BY DEF MachinesNext, machines
<1> QED
  BY <1>1, <1>2, Inductive, PTL DEF MachinesSpec, DumpsStay

\* However many instances crash and whenever: no dump of the Windows example
\* is written by two of them, and a written one is found by its instance, or
\* that of one that crashed in the same millisecond.
THEOREM WindowsDumpsTellTheirCrash == MachinesSpec => []WindowsDumpsAreTrue
<1>1. OwnDump => Windows!OneWriterPerDump
  <2> SUFFICES ASSUME OwnDump, NEW p \in Instances, pc[p] = "write", dump[p] # Windows!Invalid
               PROVE  dir[dump[p]].by = p
    BY DEF Windows!OneWriterPerDump
  <2>1. dir[dump[p]] = [by |-> p, body |-> "empty"]
    BY DEF OwnDump
  <2> QED
    BY <2>1
<1>2. WindowsIInv => WindowsDumpsAreTrue
  BY <1>1 DEF WindowsIInv, WindowsDumpsAreTrue
<1> QED
  BY <1>2, Inductive, PTL

\* A whole dump is replaced only by one whose name is of the same millisecond.
THEOREM LostOnlyToTheSameName == MachinesSpec => LostToTheSameMillisecond
<1>1. WindowsIInv /\ [Windows!Next]_windows => WindowsLoss
  BY WindowsNext
<1>2. [MachinesNext]_machines => [Windows!Next]_windows
  BY DEF MachinesNext, machines
<1>3. WindowsLoss => [\A t \in 0..MaxTime : dir[t].body = "whole" /\ dir'[t] # dir[t] =>
                        /\ now = t
                        /\ dir'[t].by # dir[t].by]_Windows!vars
  BY DEF WindowsLoss
<1> QED
  BY <1>1, <1>2, <1>3, Inductive, PTL
     DEF MachinesSpec, LostToTheSameMillisecond, Windows!LostToTheSameMillisecond
=============================================================================
