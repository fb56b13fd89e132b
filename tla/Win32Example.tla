---------------------------- MODULE Win32Example ----------------------------
(***************************************************************************)
(* Windows/Win32Example/Win32Example.cpp: some instances of the program    *)
(* run in one directory.  Each has a window, a message queue and a filter  *)
(* for unhandled exceptions, which writes a minidump under a name made of  *)
(* the milliseconds of the clock.  The file system and the queue are those *)
(* of Windows as the program uses them: CreateFile with a share mode of 0  *)
(* fails while another handle to the file is open.                         *)
(***************************************************************************)
EXTENDS Naturals, Sequences, FiniteSets

CONSTANTS Instances, MaxTime, MaxQueue
Nobody == "nobody"
Win32Assumption == /\ IsFiniteSet(Instances) /\ Nobody \notin Instances
                   /\ {MaxTime, MaxQueue} \subseteq Nat

VARIABLES
  now,      \* the clock, in milliseconds
  dir,      \* the dumps: millisecond -> [by, body]
  pc,       \* where each instance is
  queue,    \* its message queue
  dialog,   \* the About box is open: its own loop runs, the window is disabled
  dump,     \* the handle of its dump: a millisecond, Invalid or NoHandle
  kept      \* history: the dump MiniDumpWriteDump has written to the end

files == <<now, dir>>
window == <<queue, dialog>>
filter == <<dump, kept>>
vars == <<files, pc, window, filter>>

Invalid  == MaxTime + 1     \* INVALID_HANDLE_VALUE, which is not null
NoHandle == MaxTime + 2
NoFile   == [by |-> Nobody, body |-> "none"]

Messages == {"IDM_ABOUT", "IDM_EXIT", "IDB_BUTTON_CRASH", "WM_CLOSE", "WM_QUIT"}
Places == {"absent", "loop", "filter", "write", "close", "crashed", "exited"}

TypeOK ==
  /\ now \in 0..MaxTime
  /\ dir \in [0..MaxTime -> [by : Instances \cup {Nobody}, body : {"none", "empty", "part", "whole"}]]
  /\ pc \in [Instances -> Places]
  /\ \A p \in Instances : queue[p] \in Seq(Messages)
  /\ dialog \in [Instances -> BOOLEAN]
  /\ dump \in [Instances -> 0..NoHandle]
  /\ kept \in [Instances -> 0..NoHandle]

Init ==
  /\ now = 0
  /\ dir = [t \in 0..MaxTime |-> NoFile]
  /\ pc = [p \in Instances |-> "absent"]
  /\ queue = [p \in Instances |-> << >>]
  /\ dialog = [p \in Instances |-> FALSE]
  /\ dump = [p \in Instances |-> NoHandle]
  /\ kept = [p \in Instances |-> NoHandle]

Tick == now < MaxTime /\ now' = now + 1 /\ UNCHANGED <<dir, pc, window, filter>>

Goto(p, from, to) == pc[p] = from /\ pc' = [pc EXCEPT ![p] = to]
Post(p, message) == queue' = [queue EXCEPT ![p] = Append(@, message)]

\* wWinMain up to the message loop; it ends if the window is not created.
WinMain(p) ==
  /\ Goto(p, "absent", "loop") \/ Goto(p, "absent", "exited")
  /\ UNCHANGED <<files, window, filter>>

\* The user picks a menu item, presses the button or closes the window; the
\* last one also from the task bar, while the About box is open.
User(p) ==
  /\ pc[p] = "loop"
  /\ Len(queue[p]) < MaxQueue
  /\ \A i \in 1..Len(queue[p]) : queue[p][i] # "WM_QUIT"
  /\ \/ Post(p, "WM_CLOSE")
     \/ ~dialog[p] /\ \E message \in {"IDM_ABOUT", "IDM_EXIT", "IDB_BUTTON_CRASH"} : Post(p, message)
  /\ UNCHANGED <<files, pc, dialog, filter>>

\* About: OK or Cancel
EndDialog(p) ==
  /\ dialog[p]
  /\ dialog' = [dialog EXCEPT ![p] = FALSE]
  /\ UNCHANGED <<files, pc, queue, filter>>

\* What WM_DESTROY leaves in the queue, without and with PostQuitMessage;
\* what else was sent to the window is gone with it.
DestroyedOnly == << >>
Destroyed == <<"WM_QUIT">>

\* A message is taken by the loop of wWinMain, or by the one of the About
\* box, under which the window is disabled and takes no command.  IDM_EXIT
\* does nothing; WM_CLOSE destroys the window and the box it owns.
Dispatch(p) ==
  /\ pc[p] = "loop"
  /\ queue[p] # << >>
  /\ LET message == Head(queue[p]) IN
       /\ queue' = [queue EXCEPT ![p] = IF message = "WM_CLOSE" THEN Destroyed ELSE Tail(@)]
       /\ pc' = [pc EXCEPT ![p] =
                   CASE message = "IDB_BUTTON_CRASH" /\ ~dialog[p] -> "filter"
                     [] message = "WM_QUIT" -> "exited"
                     [] OTHER -> "loop"]
       /\ dialog' = [dialog EXCEPT ![p] = (dialog[p] \/ message = "IDM_ABOUT")
                                          /\ message # "WM_CLOSE"]
  /\ UNCHANGED <<files, filter>>

IsOpen(t) == \E p \in Instances : pc[p] \in {"write", "close"} /\ dump[p] = t

\* A file that others may write too (FILE_SHARE_WRITE).
CanCreateShared(t) == TRUE

\* CreateFile fails while another handle is open: the share mode is 0.
CanCreate(t) == ~IsOpen(t)

\* The name of a dump: by the second, and by the millisecond.
NameBySecond(t) == t - (t % 2)
DumpName(t) == t

\* unhandled_exception_filter: the name, then CreateFile(CREATE_ALWAYS).
CreateDump(p) ==
  /\ Goto(p, "filter", "write")
  /\ \/ /\ CanCreate(DumpName(now))
        /\ dump' = [dump EXCEPT ![p] = DumpName(now)]
        /\ dir' = [dir EXCEPT ![DumpName(now)] = [by |-> p, body |-> "empty"]]
     \/ /\ dump' = [dump EXCEPT ![p] = Invalid]
        /\ UNCHANGED dir
  /\ UNCHANGED <<now, window, kept>>

\* The file is given up before the dump is flushed.
WriteDumpUnflushed(p) ==
  /\ Goto(p, "write", "close")
  /\ kept' = [kept EXCEPT ![p] = IF dump[p] # Invalid THEN dump[p] ELSE @]
  /\ UNCHANGED <<files, window, dump>>

\* if (dump_file) is true of INVALID_HANDLE_VALUE too.  Whether
\* MiniDumpWriteDump succeeds is not looked at.
WriteDump(p) ==
  /\ Goto(p, "write", "close")
  /\ \/ /\ dump[p] # Invalid
        /\ dir' = [dir EXCEPT ![dump[p]].body = "whole"]
        /\ kept' = [kept EXCEPT ![p] = dump[p]]
     \/ /\ dump[p] # Invalid
        /\ dir' = [dir EXCEPT ![dump[p]].body = "part"]
        /\ UNCHANGED kept
     \/ /\ dump[p] = Invalid
        /\ UNCHANGED <<dir, kept>>
  /\ UNCHANGED <<now, window, dump>>

\* The filter tries until it has a dump.
CloseOnlyADump(p) ==
  /\ kept[p] # NoHandle
  /\ Goto(p, "close", "crashed")
  /\ dump' = [dump EXCEPT ![p] = NoHandle]
  /\ UNCHANGED <<files, window, kept>>

\* CloseHandle, and EXCEPTION_EXECUTE_HANDLER ends the process.
CloseDump(p) ==
  /\ Goto(p, "close", "crashed")
  /\ dump' = [dump EXCEPT ![p] = NoHandle]
  /\ UNCHANGED <<files, window, kept>>

Next ==
  \/ Tick
  \/ \E p \in Instances :
       WinMain(p) \/ User(p) \/ EndDialog(p) \/ Dispatch(p) \/ CreateDump(p) \/ WriteDump(p) \/ CloseDump(p)

\* The system runs every process; nothing is asked of the user.
Fairness == \A p \in Instances :
  WF_vars(Dispatch(p)) /\ WF_vars(CreateDump(p))
  /\ WF_vars(WriteDump(p)) /\ WF_vars(CloseDump(p))
Spec == Init /\ [][Next]_vars /\ Fairness
-----------------------------------------------------------------------------
\* While an instance writes its dump nobody else has the file: no dump mixes
\* two processes.  What keeps them apart is the share mode of CreateFile,
\* not the name.
OneWriterPerDump ==
  \A p \in Instances : pc[p] = "write" /\ dump[p] # Invalid => dir[dump[p]].by = p

\* A whole dump is lost in one way only: an instance whose clock read the
\* same millisecond has replaced it.
LostToTheSameMillisecond ==
  [][\A t \in 0..MaxTime : dir[t].body = "whole" /\ dir'[t] # dir[t] =>
       /\ now = t
       /\ dir'[t].by # dir[t].by]_vars

\* An instance that has written its dump to the end finds it in the
\* directory, or the file of an instance that crashed in that millisecond.
DumpsTellTheirCrash ==
  \A p \in Instances : kept[p] # NoHandle =>
    \/ dir[kept[p]] = [by |-> p, body |-> "whole"]
    \/ dir[kept[p]].by \notin {p, Nobody}

\* A failed CreateFile is no reason to hang: every crash ends the process,
\* with or without a dump.
CrashesEnd == \A p \in Instances : pc[p] = "filter" ~> pc[p] = "crashed"

\* Closing the window ends the program, through WM_DESTROY and WM_QUIT,
\* whatever is in the queue before, unless that crashes it.
CloseEnds ==
  \A p \in Instances :
    (\E i \in 1..Len(queue[p]) : queue[p][i] = "WM_CLOSE") ~> pc[p] \in {"exited", "crashed"}
=============================================================================
