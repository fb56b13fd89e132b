--------------------------- MODULE DirectoryReader ---------------------------
(***************************************************************************)
(* breakpad/include/client/linux/minidump_writer/directory_reader.h: the   *)
(* entries of a directory (the threads of /proc/<pid>/task) one by one,    *)
(* through a buffer of its own.  The kernel gives whole entries, as many   *)
(* as it likes of those that fit.                                          *)
(***************************************************************************)
EXTENDS Integers, Sequences

CONSTANTS
  BufferBytes,   \* sizeof(buf_): the longest entry fits
  MaxEntries     \* bound: entries of the directory

DirectoryAssumption == BufferBytes \in Nat \ {0} /\ MaxEntries \in Nat

VARIABLES
  directory,   \* d_reclen of its entries
  read,        \* of the descriptor: how many entries the kernel has given
  held,        \* the entries in buf_; buf_used_ is their length
  eof,         \* hit_eof_, which the constructor does not set
  answer,      \* of GetNextEntry: "none", "entry", "false"
  name,        \* the entry it has returned
  failed,      \* history: the last getdents gave an error
  taken        \* history: how many entries were popped

vars == <<directory, read, held, eof, answer, name, failed, taken>>

Directories == UNION {[1 .. n -> 1 .. BufferBytes] : n \in 0 .. MaxEntries}

BytesOf(entries) ==
  LET bytes[n \in 0 .. Len(entries)] ==
        IF n = 0 THEN 0 ELSE bytes[n - 1] + directory[entries[n]]
  IN bytes[Len(entries)]

TypeOK ==
  /\ directory \in Directories
  /\ read \in 0 .. Len(directory)
  /\ held \in Seq(DOMAIN directory) /\ BytesOf(held) <= BufferBytes
  /\ eof \in BOOLEAN /\ failed \in BOOLEAN
  /\ answer \in {"none", "entry", "false"}
  /\ name \in 0 .. Len(directory)
  /\ taken \in 0 .. Len(directory)

Init ==
  /\ directory \in Directories
  /\ read = 0 /\ held = << >> /\ eof \in BOOLEAN
  /\ answer = "none" /\ name = 0
  /\ failed = FALSE /\ taken = 0

\* What GetNextEntry returns after sys_getdents.
Answer ==
  IF held' = << >> /\ eof' THEN answer' = "false" /\ UNCHANGED name
  ELSE answer' = "entry" /\ name' = Head(held')

\* sys_getdents gives the next entries, none at the end.
More ==
  \E n \in 0 .. Len(directory) - read :
    LET given == [i \in 1 .. n |-> read + i]
    IN /\ n = 0 => read = Len(directory)
       /\ BytesOf(given) <= BufferBytes
       /\ held' = given /\ read' = read + n
       /\ eof' = (IF n = 0 THEN TRUE ELSE eof)
  /\ failed' = FALSE
  /\ Answer

\* Mutant: an error ends the directory.
ErrorIsEnd ==
  /\ eof' = TRUE /\ answer' = "false" /\ failed' = FALSE
  /\ UNCHANGED <<read, held, name>>

\* sys_getdents gives an error; the caller gets what it gets at the end.
Error == answer' = "false" /\ failed' = TRUE /\ UNCHANGED <<read, held, eof, name>>

\* Something is left in the buffer.
Again == UNCHANGED <<read, held, eof, failed>> /\ Answer

GetNextEntry ==
  /\ IF held = << >> THEN More \/ Error ELSE Again
  /\ UNCHANGED <<directory, taken>>

\* Mutant: the entry stays at the front of the buffer.
PopNothing ==
  /\ answer = "entry"
  /\ held' = held
  /\ answer' = "none" /\ taken' = taken + 1
  /\ UNCHANGED <<directory, read, eof, name, failed>>

\* A caller pops an entry it has got.
PopEntry ==
  /\ answer = "entry"
  /\ held' = Tail(held)
  /\ answer' = "none" /\ taken' = taken + 1
  /\ UNCHANGED <<directory, read, eof, name, failed>>

Next == GetNextEntry \/ PopEntry

Spec == Init /\ [][Next]_vars
-----------------------------------------------------------------------------
\* However the kernel divides the directory, GetNextEntry gives its entries in
\* their order, each until it is popped and none twice, also after errors.
EntriesInOrder == answer = "entry" => name = taken + 1 /\ name = Head(held)

\* Unless the kernel has given an error, false comes at the end of the
\* directory only: hit_eof_ is never read as the constructor has left it.
EndMeansAll == answer = "false" /\ ~failed => taken = Len(directory)
=============================================================================
