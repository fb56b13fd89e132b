---------------------------- MODULE LinuxExample ----------------------------
(***************************************************************************)
(* Linux/CrashExample.cpp and src/crash.cpp: a process that installs       *)
(* breakpad's exception handler, calls testCrash() and dies, run again and *)
(* again in one directory, where it leaves a minidump every time.          *)
(*                                                                         *)
(* The call stack is part of the state, innermost frame first, each frame  *)
(* with the line it is at: it is what the minidump has to tell.  The       *)
(* handler itself is in libbreakpad_client.a; it is modelled after         *)
(* exception_handler.h and the way CrashExample.cpp uses it: in process,   *)
(* without a filter, one minidump per signal in a file of its own.         *)
(***************************************************************************)
EXTENDS Integers, Sequences

CONSTANTS
  Bits,     \* width of int
  MaxRuns   \* bound: how often the program is started

BitsType == Bits \in Nat \ {0}
MaxRunsType == MaxRuns \in Nat \ {0}

Ints == 0 .. 2^Bits - 1   \* as bit patterns
Runs == 1 .. MaxRuns

Null == "null"
Cell == "cell"            \* the int[1] of newPtr

VARIABLES
  run,        \* number of the current or last run
  phase,      \* "absent", "code", or a phase of the signal handler:
              \* "signal", "writing", "callback"
  stack,      \* sequence of <<function, line>>
  ptr,        \* testCrash's local ptr: Null or Cell
  cell,       \* what the allocated int holds
  var,        \* usePtr's local var
  handler,    \* breakpad's signal handlers are installed
  succeeded,  \* the callback's argument
  handled,    \* what the callback has returned in this run
  dumps       \* the minidump of each run: [body, stack]

process == <<run, phase, stack>>
memory == <<ptr, cell, var>>
breakpad == <<handler, succeeded, handled, dumps>>
vars == <<process, memory, breakpad>>

NoDump == [body |-> "none", stack |-> <<>>]

Functions == {"main", "testCrash", "newPtr", "resetPtr", "usePtr", "abort"}
Frames == Functions \X (0 .. 23)

TypeOK ==
  /\ run \in 0 .. MaxRuns
  /\ phase \in {"absent", "code", "signal", "writing", "callback"}
  /\ stack \in Seq(Frames)
  /\ ptr \in {Null, Cell}
  /\ cell \in Ints
  /\ var \in Ints
  /\ handler \in BOOLEAN
  /\ succeeded \in BOOLEAN
  /\ handled \in BOOLEAN
  /\ dumps \in [Runs -> [body : {"none", "part", "whole"}, stack : Seq(Frames)]]

Init ==
  /\ run = 0
  /\ phase = "absent"
  /\ stack = <<>>
  /\ ptr = Null
  /\ cell = 0
  /\ var = 0
  /\ handler = FALSE
  /\ succeeded = FALSE
  /\ handled = FALSE
  /\ dumps = [r \in Runs |-> NoDump]

At(fn, line) == phase = "code" /\ Head(stack) = <<fn, line>>

\* The stack after the innermost function has gone on to another line,
\* has called fn, or has returned: its caller then goes on to its next line.
Goto(line) == <<<<Head(stack)[1], line>>>> \o Tail(stack)
Call(fn, line) == <<<<fn, line>>>> \o stack
Return == LET caller == stack[2]
          IN <<<<caller[1], caller[2] + 1>>>> \o Tail(Tail(stack))

Step(newStack) == stack' = newStack /\ UNCHANGED <<run, phase, breakpad>>

\* A signal: the handler if it is installed, the end of the process if not.
Signal ==
  /\ phase' = IF handler THEN "signal" ELSE "absent"
  /\ UNCHANGED <<run, stack, memory, breakpad>>

\* run.sh
Launch ==
  /\ phase = "absent"
  /\ run < MaxRuns
  /\ run' = run + 1
  /\ phase' = "code"
  /\ stack' = <<<<"main", 13>>>>
  /\ handler' = FALSE
  /\ handled' = FALSE
  /\ UNCHANGED <<memory, succeeded, dumps>>

\* MinidumpDescriptor descriptor(".")
MakeDescriptor == /\ At("main", 13)
                  /\ Step(Goto(14))
                  /\ UNCHANGED memory

\* ExceptionHandler eh(descriptor, ..., dumpCallback, ...)
InstallHandler ==
  /\ At("main", 14)
  /\ stack' = Goto(17)
  /\ handler' = TRUE
  /\ UNCHANGED <<run, phase, memory, succeeded, handled, dumps>>

CallTestCrash == /\ At("main", 17)
                 /\ Step(Call("testCrash", 20))
                 /\ UNCHANGED memory

CallNewPtr == /\ At("testCrash", 20)
              /\ Step(Call("newPtr", 6))
              /\ UNCHANGED memory

\* Mutant: newPtr hands out a null pointer (new (std::nothrow)).
NewIntOrNull ==
  /\ At("newPtr", 6)
  /\ Step(Return)
  /\ ptr' \in {Cell, Null}
  /\ cell' \in Ints
  /\ UNCHANGED var

\* new int[1]: the int is not initialised, it holds whatever was there.
NewInt ==
  /\ At("newPtr", 6)
  /\ Step(Return)
  /\ ptr' = Cell
  /\ cell' \in Ints
  /\ UNCHANGED var

\* ... or bad_alloc, which nobody catches: std::terminate calls abort().
NewFails ==
  /\ At("newPtr", 6)
  /\ Step(Call("abort", 0))
  /\ UNCHANGED memory

CallUsePtr ==
  /\ At("testCrash", 21) \/ At("testCrash", 23)
  /\ Step(Call("usePtr", 14))
  /\ UNCHANGED memory

\* int var = *ptr
ReadVar ==
  /\ At("usePtr", 14)
  /\ ptr = Cell
  /\ var' = cell
  /\ Step(Goto(15))
  /\ UNCHANGED <<ptr, cell>>

\* Mutant: the build traps an overflow (-ftrapv).
IncVarTrapping ==
  \/ /\ At("usePtr", 15)
     /\ var # 2^(Bits - 1) - 1
     /\ var' = (var + 1) % 2^Bits
     /\ Step(Goto(16))
     /\ UNCHANGED <<ptr, cell>>
  \/ At("usePtr", 15) /\ var = 2^(Bits - 1) - 1 /\ Signal

\* Mutant: the int has no width.
IncVarUnbounded ==
  /\ At("usePtr", 15)
  /\ var' = var + 1
  /\ Step(Goto(16))
  /\ UNCHANGED <<ptr, cell>>

\* var++ on the garbage ReadVar has read, undefined at the largest int: in what
\* this build makes of it, an add with no trap on overflow, it wraps.
IncVar ==
  /\ At("usePtr", 15)
  /\ var' = (var + 1) % 2^Bits
  /\ Step(Goto(16))
  /\ UNCHANGED <<ptr, cell>>

\* *ptr = var, and back to testCrash
WriteVar ==
  /\ At("usePtr", 16)
  /\ ptr = Cell
  /\ cell' = var
  /\ Step(Return)
  /\ UNCHANGED <<ptr, var>>

\* resetPtr(&ptr)
CallResetPtr == /\ At("testCrash", 22)
                /\ Step(Call("resetPtr", 10))
                /\ UNCHANGED memory

ResetPtr == /\ At("resetPtr", 10)
            /\ Step(Return)
            /\ ptr' = Null
            /\ UNCHANGED <<cell, var>>

-----------------------------------------------------------------------------
ReadNull == At("usePtr", 14) /\ ptr = Null /\ Signal
Abort == At("abort", 0) /\ Signal

\* Mutant: the path is fixed and not made unique for each minidump.
OpenDumpSamePath ==
  /\ phase = "signal"
  /\ \/ /\ phase' = "writing"
        /\ dumps' = [dumps EXCEPT ![1].body = "part"]
        /\ UNCHANGED succeeded
     \/ /\ phase' = "callback"
        /\ succeeded' = FALSE
        /\ UNCHANGED dumps
  /\ UNCHANGED <<run, stack, memory, handler, handled>>

\* The minidump file is created, under a name of its own (UpdatePath), or it
\* cannot be created.
OpenDump ==
  /\ phase = "signal"
  /\ \/ /\ phase' = "writing"
        /\ dumps' = [dumps EXCEPT ![run].body = "part"]
        /\ UNCHANGED succeeded
     \/ /\ phase' = "callback"
        /\ succeeded' = FALSE
        /\ UNCHANGED dumps
  /\ UNCHANGED <<run, stack, memory, handler, handled>>

\* The stack is written to it, or writing breaks off.
WriteDump ==
  /\ phase = "writing"
  /\ phase' = "callback"
  /\ \/ /\ dumps' = [dumps EXCEPT ![run] = [body |-> "whole", stack |-> stack]]
        /\ succeeded' = TRUE
     \/ /\ succeeded' = FALSE
        /\ UNCHANGED dumps
  /\ UNCHANGED <<run, stack, memory, handler, handled>>

\* Mutant: the callback claims every crash as handled.
CallbackClaimsAll ==
  /\ phase = "callback"
  /\ phase' = "code"
  /\ handled' = TRUE
  /\ handler' = FALSE
  /\ UNCHANGED <<run, stack, memory, succeeded, dumps>>

\* Mutant: the handlers stay installed when the signal handler returns.
CallbackKeepsHandlers ==
  /\ phase = "callback"
  /\ phase' = "code"
  /\ handled' = succeeded
  /\ UNCHANGED <<run, stack, memory, handler, succeeded, dumps>>

\* dumpCallback returns succeeded.  Breakpad takes its handlers away, by the
\* default action if the callback returned true and by those before it if
\* not, and returns to the instruction that raised the signal.
Callback ==
  /\ phase = "callback"
  /\ phase' = "code"
  /\ handled' = succeeded
  /\ handler' = FALSE
  /\ UNCHANGED <<run, stack, memory, succeeded, dumps>>

\* The process is killed from outside, at any moment.
Kill ==
  /\ phase # "absent"
  /\ phase' = "absent"
  /\ UNCHANGED <<run, stack, memory, breakpad>>

Code == \/ MakeDescriptor \/ InstallHandler \/ CallTestCrash \/ CallNewPtr
        \/ NewInt \/ NewFails \/ CallUsePtr \/ ReadVar \/ IncVar \/ WriteVar
        \/ CallResetPtr \/ ResetPtr \/ ReadNull \/ Abort

Handler == OpenDump \/ WriteDump \/ Callback

Next == Launch \/ Code \/ Handler \/ Kill

\* A process that exists is scheduled; nobody has to start or to kill one.
Spec == Init /\ [][Next]_vars /\ WF_vars(Code \/ Handler)
-----------------------------------------------------------------------------
NullDereference ==
  <<<<"usePtr", 14>>, <<"testCrash", 23>>, <<"main", 17>>>>
OutOfMemory ==
  <<<<"abort", 0>>, <<"newPtr", 6>>, <<"testCrash", 20>>, <<"main", 17>>>>

\* The stacks the calls of the program can have built.
MainAt(l) == <<<<"main", l>>>>
TestAt(l) == <<<<"testCrash", l>>, <<"main", 17>>>>
Within(fn, k, l) == <<<<fn, k>>, <<"testCrash", l>>, <<"main", 17>>>>

NoPtrYet == {MainAt(13), MainAt(14), MainAt(17), TestAt(20), Within("newPtr", 6, 20)}
PtrInUse == {TestAt(21), TestAt(22), Within("usePtr", 14, 21), Within("usePtr", 15, 21),
             Within("usePtr", 16, 21), Within("resetPtr", 10, 22)}
PtrReset == {TestAt(23), NullDereference}

\* Where a run can be, and what ptr is there: usePtr is called on null from
\* line 23 only, and that call and a failing allocation are all that signals.
OnItsWay == phase # "absent" =>
  /\ run \in Runs
  /\ \/ stack \in NoPtrYet
     \/ stack \in PtrInUse /\ ptr = Cell
     \/ stack \in PtrReset /\ ptr = Null
     \/ stack = OutOfMemory
  /\ phase # "code" => stack \in {NullDereference, OutOfMemory}

\* A minidump that is whole tells the crash README.md:265-274 shows: line 14
\* of usePtr, called from line 23 of testCrash.  The first usePtr, on memory
\* newPtr has not initialised, never crashes whatever that memory holds; only
\* a failing allocation gives another stack.
DumpTellsTheCrash ==
  \A r \in Runs : dumps[r].body = "whole" =>
    dumps[r].stack \in {NullDereference, OutOfMemory}

\* dumpCallback claims a crash as handled, which keeps it from every other
\* handler, only if the minidump of that very run is there and whole.
HandledMeansDumped == handled => dumps[run].body = "whole"

\* What one run has written no later run, and no second signal of the same
\* run, touches again.
DumpsStay ==
  [][\A r \in Runs : dumps[r].body = "whole" => dumps'[r] = dumps[r]]_dumps

\* A run ends: the handler returns to the very instruction that has crashed,
\* which must not bring the process back into the handler.
RunEnds == phase # "absent" ~> phase = "absent"
=============================================================================
