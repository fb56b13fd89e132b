-------------------------- MODULE ExampleProcesses --------------------------
(***************************************************************************)
(* The processes that crash: the Linux example, run again and again in one *)
(* directory, and instances of the Windows example.  A behaviour is one of *)
(* a single machine, host, and the other one stays as it begins.  What the *)
(* Linux example promises is checked under the names LinuxExample gives.   *)
(***************************************************************************)
EXTENDS LinuxExample

CONSTANTS Instances, MaxTime, MaxQueue

VARIABLES host, now, dir, pc, queue, dialog, dump, kept

windows == <<now, dir, pc, queue, dialog, dump, kept>>
machines == <<host, windows, vars>>

Windows == INSTANCE Win32Example

ASSUME ProcessesAssumption == Windows!Win32Assumption /\ BitsType /\ MaxRunsType

MachinesInit == host \in {"windows", "linux"} /\ Windows!Init /\ Init

MachinesNext ==
  /\ \/ host = "windows" /\ Windows!Next /\ UNCHANGED vars
     \/ host = "linux" /\ Next /\ UNCHANGED windows
  /\ UNCHANGED host

\* That of the two examples, on the machine there is.
Fairness ==
  /\ WF_vars(host = "linux" /\ (Code \/ Handler))
  /\ \A p \in Instances :
       /\ WF_windows(host = "windows" /\ Windows!Dispatch(p))
       /\ WF_windows(host = "windows" /\ Windows!CreateDump(p))
       /\ WF_windows(host = "windows" /\ Windows!WriteDump(p))
       /\ WF_windows(host = "windows" /\ Windows!CloseDump(p))
MachinesSpec == MachinesInit /\ [][MachinesNext]_machines /\ Fairness
-----------------------------------------------------------------------------
\* Both examples: the types, and of the Linux one a stack its calls can have
\* built, with the pointer that goes with it.
ProcessesTypeOK == TypeOK /\ OnItsWay /\ Windows!TypeOK

\* Win32Example.cpp: no dump mixes two processes, and a dump that was written
\* is found, or that of an instance that crashed in the same millisecond.
WindowsDumpsAreTrue == Windows!OneWriterPerDump /\ Windows!DumpsTellTheirCrash

\* Win32Example.cpp: whole dumps are lost to the same millisecond only.
LostToTheSameMillisecond == Windows!LostToTheSameMillisecond

\* Every run of the Linux example ends, through at most one minidump; every
\* crash of the Windows example ends its process, and closing its window ends it.
ProcessesEnd == RunEnds /\ Windows!CrashesEnd /\ Windows!CloseEnds
=============================================================================
