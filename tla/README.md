# Verification of the crash symbolication project

This directory models the programs, the scripts and the breakpad code of the
repository in TLA+, checks them with TLC on small instances, and proves the
main results with TLAPS for every value of the constants.

The repository shows, for five platforms, how a native library that crashes is
built with its symbols kept apart, how the crash is recorded, and how the record
is turned back into function names and line numbers. The question behind every
property is therefore the same: **does what the developer reads in the end
belong to what really crashed?**

## 1. Inventory

    developer --edits--> sources --build_*.sh/.bat--> libs/  +  symbols/
                                                        |          |
                        host process (Linux, Windows, iOS, Android)|
                                                        | crashes  |
            allocator, line reader, CPU set ... -> minidump / report
                                                        |          |
                                       tools/walk_stack.py, symbolicate*.py
                                                        |
               minidump_stackwalk (range maps, evaluators, ...) / atos

The parts of the project itself share files and nothing else: no part sends
messages to another, and no part locks a file another one reads. What is hard
there comes from that, from commands that fail half way, and from code that runs
while the process that runs it is dying. The breakpad headers hold the code that
writes a dump in the dying process and the code that reads it; each class is used
by one thread, and what is hard is what a long sequence of legal calls, a kernel
that gives less than it was asked for, and numbers at the end of their width do.

| component | state it keeps | what is hard | correct when |
|---|---|---|---|
| Linux build script (`build_linux.sh`, `CMakeLists.txt`) | `build/Linux`, `symbols/linux_x64`, `libs`, `Linux/CrashExample` | the source changes during a build; a command fails and the files before it stay; redirection and `cp` truncate first; `strip` works in place | exit 0 means library and symbols are one build, with lines; symbols never lag behind the library |
| Windows, Android, iOS build scripts | the trees they publish to | lists whose status is that of their last command; the library published before its symbols | a status that vouches for something vouches for the right thing; no symbols of a build nobody has |
| iOS build phase (`strip_simulator_arch.sh`) | the executable of each embedded framework and its thinned copy | no command is checked; the build may be cancelled between `rm` and `mv` | never a mixture; the next run makes good |
| Linux example (`CrashExample.cpp`, `crash.cpp`, `run.sh`) | call stack, `ptr`, the `int`, breakpad's handler, minidumps | uninitialised `int`; failing `new`; failing dump; return to the crashing instruction; kill | a whole dump shows the intended crash; handled implies dumped; dumps are kept; the process dies |
| Windows example (`Win32Example.cpp`) | window, message queue, filter, dump file | `CreateFile` failing with a non-null handle; dump names by millisecond | no dump mixes two processes; one is lost to its own millisecond only; crash and close end the process |
| stack walking script (`tools/walk_stack.py`) | working directory, `sym/` store | nothing ever empties `sym/`; runs that stop half way; two instances; files replaced meanwhile | no build's records under another build; what lies there is found |
| iOS symbolication (`symbolicatereport.py`, `symbolicatexcode.py`) | list of dSYMs, images, lines | a dSYM is chosen by name only; short lines; an image listed twice | each line is answered once, in order; a frame from its own image |
| `RangeMap`, `ContainedRangeMap`, `AddressMap` | maps of addresses | wrap-around; recursions that change the map before a later round decides; subtrees that move | a lookup finds the owner of the address; a refusal changes nothing |
| `StaticMap` and the serializers | one block of memory | offsets that count from different places; allocated by one recursion, filled by another | the block answers as the map did; it is as large as allocated |
| `WindowsFrameInfo` | one STACK WIN record | `Clear` and `CopyFrom` leave members as they are | a user sees what was last said |
| `PostfixEvaluator`, `SimpleCFIWalker` | stack, dictionary; registers and their validity | one object for many expressions; a register that only seems known | values are those of the terms; valid means true |
| minidump format headers | structures, context flags | padding differs between ABIs; flags of several CPUs overlap | writer and reader agree on every member; flags identify the CPU |
| `ByteCursor`, `MemoryRange` | a position, a range | requests that do not fit, offsets that wrap | nothing is taken after a failure; no access outside |
| `PageAllocator`, wasteful vectors | page sets, vectors | requests at the end of a page; growing on the stack's block | blocks are apart; all pages are given back |
| `LineReader`, `ProcCpuInfoReader`, `DirectoryReader`, `CpuSet` | buffers, sets | reads that give any part; entries and lines across reads; lists no kernel writes | nothing lost, doubled or cut; the count is that of the lists |
| `linked_ptr`, `scoped_ptr`, `NonAllocatingMap` | circles; owners; entries | every order of copies and destructions; release and reset; a full table | one circle per object; one owner per block; an index stays its key's |
| Android and iOS hosts | none of their own | none beyond `crash.cpp` | - |
| declarations of breakpad classes, its test tools, exception codes, system calls | - | no code in the repository | - |
| breakpad binaries (`libbreakpad_client.a`, `dump_syms`, `minidump_stackwalk`) | - | not in source form | external: seen only through the code that uses them |
| Gradle, Xcode and resource files | none | none | - |

The hazards, each at its line, are listed in `PROJECT.json` with the properties
that would catch them.

## 2. Modules

Operators whose comment begins with "Mutant:" are not part of the system: each
is a plausible bug, named beside the definition it would change, and
`PROJECT.json` says which property finds it.

| module | of | checked by |
|---|---|---|
| `BuildLinux`, with its proofs | `build_linux.sh`, `CMakeLists.txt` | `build_linux` |
| `WalkStack`, with its proofs, `MCWalkStack` | `tools/walk_stack.py` | `walk_stack`, `symbolication` |
| `LinuxExample` | `CrashExample.cpp`, `crash.cpp`, `run.sh` | `example_processes` |
| `Win32Example` | `Win32Example.cpp` | `example_processes` |
| `BuildWindows`, `BuildAndroid`, `BuildIos` | `build_lib_windows.bat`, `build_android.sh`, `build_lib_ios.sh` | `build_scripts` |
| `StripArchs` | `iOS/strip_simulator_arch.sh` | `build_scripts`, `strip_archs_thin` |
| `LinuxPipeline` | `BuildLinux`, `run.sh` and `WalkStack` over the files they share | `build_scripts` |
| `Symbolicate`, `SymbolicateReport`, `SymbolicateXcode`, `LineFilter` | `tools/symbolicate*.py`; the abstract specification both implement | `symbolication` |
| `RangeMap` | `range_map-inl.h` | `range_map`, `symbol_maps` |
| `StaticMap` | `std::map`, `static_map*.h`, `StdMapSerializer` | `symbol_maps` |
| `ContainedRangeMap`, `NestedRanges` | `contained_range_map-inl.h`, its serializer and static form; the abstract specification | `symbol_maps` |
| `AddressMap` | `address_map-inl.h`, its serializer and static form, the iterators | `symbol_maps` |
| `SerializedFunctions` | `RangeMap` composed with `RangeMapSerializer`, `static_range_map-inl.h`, the resolver types | `symbol_maps` |
| `WindowsFrameInfo` | `windows_frame_info.h` | `symbol_maps` |
| `LinkedPtr`, `ScopedPtr` | `linked_ptr.h`, `scoped_ptr.h` | `memory_objects` |
| `SimpleStringDictionary`, `StringDictionary` | `simple_string_dictionary.h`; the abstract specification | `memory_objects` |
| `PageAllocator`, `MemoryRange` | `memory_allocator.h`, `memory_range.h` | `memory_objects` |
| `LineReader`, `ProcCpuInfoReader`, `DirectoryReader` | the readers of the minidump writer | `memory_objects` |
| `MinidumpLayout`, `ContextFlags` | `minidump_format.h`, `minidump_size.h`, `minidump_cpu_*.h` | `dump_readers`, `dump_lists`, `amd64_all` |
| `ByteCursor`, `CpuSet` | `byte_cursor.h`, `cpu_set.h` | `dump_readers` |
| `PostfixEvaluator`, `CFIWalker` | `postfix_evaluator-inl.h`, `cfi_frame_info-inl.h` | `dump_readers` |
| `ExampleProcesses`, `BuildScripts`, `SymbolMaps`, `MemoryObjects`; `Symbolication`, `DumpReaders`, with their proofs | instances of the above (`SymbolMaps` EXTENDS `RangeMap`, so that the proofs can state its properties) | the runs of their names |
| `ExampleProcesses_proofs`, `BuildScripts_proofs`, `MemoryObjects_proofs`; `SymbolMaps_proofs`, with those about `RangeMap` alone | the proofs about these instances, for every value of their constants | TLAPS |

The modules of the last line but one compose parts that do not interact. In each
behaviour a variable (`which` or `host`) names the one part that moves, and the
others keep their initial state; a behaviour of the composition is therefore one
of a part, and nothing is lost or added. It keeps many small instances in few
runs. Parts that do interact are composed for real: `LinuxPipeline`,
`SerializedFunctions` (`RangeMap` and the blocks written from it after every
store), `ProcCpuInfoReader` (over `LineReader`).

### BuildLinux

One action per command of the script, in its order (`pc` names the command about
to run). `Edit` is the developer, at any moment. A revision number stands for
the build id that `dump_syms` writes into the MODULE line. Lines 6 to 13 are one
`&&` list, so `Fail` may end the script before any command and leaves everything
done so far; `rm -rf` in line 3 stands outside the list, so when it fails, and
it may then have removed some of the files, the script goes on (`kept` records
it). Redirection and `cp` are two steps, open and write; a failure between them
leaves a `Torn` file. `MakeLib` links only if the source is newer than
`libcrash.so`, as make does. The revision is compared and not the
modification time: clocks that step back are not modelled, and neither is an
edit in the middle of one compilation.

### WalkStack

`Script(w)` is instance `w` of the script. `ReadHeader` is lines 13 to 17,
`MakeDir` line 18, `OpenCopy` and `FinishCopy` line 19, `BeginWalk` and `EndWalk`
line 21; `Abort` is the exception of `check=True` or of a file that is gone, and
also a script that is interrupted. `Place` is a user who adds, replaces or
removes a `.sym` file, between runs only or, with `Concurrent`, at any time. File
contents are records of module, build and condition (whole, torn, cut inside the
MODULE line, without one); names are model values. `Lookup` is the path
`simple_symbol_supplier.h` describes. `alone` is a history: the
script last started while no other one ran, if no other one has started since. File
names with spaces, which the shell would split, are not modelled.

### LinuxExample

The call stack is a sequence of `<<function, line>>`, because it is what the
minidump has to tell; every statement of `crash.cpp` that does something is an
action that moves it. The contents of `new int[1]` are any bit pattern. `var++`
is undefined at the largest `int`; the builds of the repository have no trap on
overflow, and in them it wraps at `Bits` bits. Breakpad's handler is external: `OpenDump`, `WriteDump`,
`Callback`, as `exception_handler.h` and the way `CrashExample.cpp` uses it say:
in process, no filter, a new file name for each dump, handlers removed after the
callback, then back to the instruction that crashed. `Kill` may come at any
moment. `dumpCallback`'s output line is left out.

### RangeMap

`map` is a function from the high address of a range to its base, delta and
entry, as `std::map` holds it. `StoreRange` begins a call and each round of
`StoreRangeInternal` is a step with one action per branch: `RejectSize`,
`Exclude`, `TruncateNew`, `TruncateOther`, `RefuseSameBase`, `SkipBelow`,
`ShrinkOther`, `RefuseCovered`, `Insert`. Sums and differences of addresses go
through `Wrap`. `LowerBound` and `UpperBound` are the iterators, as sets with one
element; `End` is `map_.end()`. The code is sequential; the rounds are steps so
that what an earlier round has changed is still there when a later one fails.
An entry
is named by the range it was stored for, so that ownership of every address can
be told afterwards.

### LinuxPipeline

`BuildLinux`, `run.sh` and `WalkStack` over the files they share, with no lock
between them: `Crash` is a run of the example in which a library of some revision
crashes, `FetchSymbols` a user who copies `symbols/linux_x64` beside the minidump
and may do so in the middle of a build. The script sees of a build what was
fetched and the build nothing of the script, so their steps commute and the
script runs while no build does. `released` is a history: the
library that was published when the symbols beside the minidump were fetched, if
the last build had exited 0.

### Win32Example

Each instance has a window, a message queue and the filter. `Dispatch(p)` is a
round of the message loop with `WndProc`; `CreateDump`, `WriteDump` and `CloseDump`
are the filter, whose file may not be creatable: `CreateFile` then returns a
handle that is not null and the filter goes on, as the code does. Windows is
external: a share mode of 0 refuses a second handle, `CREATE_ALWAYS` empties a
file nobody has open. Time passes at any moment.

### BuildWindows, BuildAndroid, BuildIos, StripArchs

As `BuildLinux`, one action per command or per group of commands that share a
line, each of which may fail; what differs is what a failure skips. A `.bat`
chain and a `&&` list stop at their first failure, `build_android.sh`'s loop and
`strip_simulator_arch.sh` at none, and `build_lib_ios.sh` has two lists of which
only the second one's status counts. `StripArchs` may be cancelled between any
two commands and run again over what that has left.

### Symbolicate, SymbolicateReport, SymbolicateXcode

The two scripts share the list of dSYMs and the loop over lines, in
`Symbolicate`; what a line is, and where its load address comes from, are
definitions of each. A dSYM may be replaced at any moment, by one of another build
too; atos is external and answers from the dSYM that is there when it is asked.
`had` and `listed` are histories: the dSYMs each name has had, and the lines of
image list that have counted. Both implement `LineFilter` (one answer for each line,
in order; a good end only after the last; an early one only at a line that may
fail).

### The maps, their blocks, and what is read from them

`ContainedRangeMap` keeps the tree as the code does, nodes with a map of pointers
each, one level of the recursion per step, and implements `NestedRanges`, a plain
set of ranges that are disjoint or nested. `StaticMap` has `std::map` with its
iterators, the serializer and the binary searches of the form it writes: a block
of memory is a sequence of fields with sizes, pointers are offsets, and a read
where no field of that size begins gives `Garbage`. `AddressMap` and
`SerializedFunctions` extend it; in the latter every state of `RangeMap` is
written and looked up, with the lines of each function in an inner map.
`WindowsFrameInfo` has the parser's checks, `CopyFrom`, `Clear` and its serializer.

### Pointers, dictionary, allocator, readers

`LinkedPtr` and `ScopedPtr` have one action per member function that changes
something; a client also holds raw pointers. `SimpleStringDictionary` has the
entries of the array, an index a client keeps and an `Iterator` under way; it
implements `StringDictionary`. `PageAllocator` maps whatever free pages the kernel
likes; `wasteful_vector` and `auto_wasteful_vector` grow in it. In `LineReader`,
`ProcCpuInfoReader` and `DirectoryReader` one `read()` or `getdents()` is a step and
gives any part of what there is, entries whole. `MemoryRange` computes modulo
`Word` and takes any offset and length.

### What a dump is made of and read with

`MinidumpLayout` has the structures of `minidump_format.h` member by member, with
the alignment rules of several ABIs; a writer and a reader of two ABIs go through
an array in step. `ContextFlags` has the flag sets of every CPU header.
`ByteCursor` has every operation over bytes in both orders, with types and a
`size_t` of any sizes. `CpuSet` is the parser
of `0-3,5` lists with its mask words. `PostfixEvaluator` takes one token per step;
its reference is the term the expression is written for (`Term`, `Assignments`).
`CFIWalker` is one walk up a stack, `FindCallerRegisters` per step, with the
registers' real values as history (`truth`).

## 3. Runs

| run | instance | distinct states |
|---|---|---|
| `build_linux` | 3 edits | 34 000 |
| `walk_stack` | 2 scripts, 2 builds, 2 file names, 5 contents | 4 500 000 |
| `range_map` | 5 addresses | 468 000 |
| `example_processes` | Linux: 3-bit `int`, 2 runs; Windows: 2 instances, 2 milliseconds, 2 messages | 18 700 |
| `build_scripts` | Windows 2 edits; Android, iOS, Linux 1; 3 architectures; 2 frameworks | 1 410 000 |
| `strip_archs_thin` | 1 framework, universal or thin | violation, see Findings |
| `symbolication` | 2 images, 2 load addresses, 2 lines, dSYMs changing at any time; 1 walk with files changing at any time | 668 000 |
| `symbol_maps` | 4 addresses, 3 public symbols, 2 frames | 26 600 |
| `memory_objects` | 4 linked and 4 scoped pointers, 2 objects each; 3 entries; 3 pages; files of 5 characters | 308 000 |
| `dump_readers` | portable structures, CPUs but AMD64 and MIPS; 3 bytes, types of 1, 2 and 4, a `size_t` of 2; lists and expressions of 5 tokens; 4 frames | 818 000 |
| `dump_lists` | structures with a variable-length array | violation, see Findings |
| `amd64_all` | AMD64 besides the other CPUs | violation, see Findings |

Why the bounds are enough:

* **Edits.** A mixture needs an old library, an old example and a new source;
  with four revisions the three published files and the source all differ. On
  Windows two edits tell library, pdb and symbols apart; where a script
  publishes two kinds of files only, one edit does.
* **Two scripts, two builds, two names, one library.** A clash needs two builds in
  the store and two files that claim one place, or two scripts that copy one file.
  A second library adds a directory that behaves like that of a second build. The
  scripts are alike, so the run takes them as symmetric.
* **Bits = 3, MaxRuns = 2.** All eight contents of the `int` occur, the
  wrap-around included; a later run can destroy only what an earlier one wrote.
* **Two instances, two milliseconds.** A collision of dump names takes two
  crashes in one millisecond; a third process meets what the second one met.
* **Three architectures.** One `cp` may fail before, between and after two that
  do not.
* **Addresses.** Five give room for a new range over two others with gaps, for
  ranges that wrap and for the longest chains of truncations of three ranges.
  Four hold three levels of nested ranges, and siblings. Three public symbols,
  some at one address: enough for the first, middle and last of a search.
* **Four linked pointers.** Joining and leaving a circle changes two neighbours;
  with four pointers and two objects there are two circles of two, or a circle
  in which those are not neighbours.
* **One more key than entries; three pages; files of five characters** in a
  buffer of three, with lines that fit it exactly, fit it not and are empty; a
  dictionary and an allocator that refuse; runs of pages that are not the last
  ones; a NUL and a missing newline at the end.
* **Five tokens** are two operators in each order, or an assignment after an
  operation; **four frames** are a register lost and found again in the next.

### What the properties say

`build_linux`:

* `OkPublishesOneBuild`: a build that exits 0 has published library and symbols
  of one revision. `Linux/CrashExample` is only claimed to be whole: with an edit
  between its compilation and the library's it may be newer, which is harmless
  since it loads the library at run time.
* `SymbolsNeverLag`: whatever failed, nobody runs a library whose symbols are
  still those of an older build. The other order is possible after a failure.
* `OkSymbolsHaveLines`: symbols were dumped before `strip`. Its premise `~kept` is
  necessary: if `rm` fails and the source has not changed, make keeps the
  stripped library and the dump has no lines.

`walk_stack`:

* `OwnSymbolsOnly`: records of one build are never found under another. It needs
  files to stay as they are while a script runs. With `Concurrent = TRUE` a file
  that is replaced between line 15 and line 19 is copied into the other build's
  directory; neither the script nor the documents say otherwise.
* `WalkFindsSymbols`: no torn or empty copy of an earlier run, or of two at once,
  hides a symbol file from a run that is alone. While two are running one may walk
  when the other has truncated the file, and nothing promises otherwise; the run
  after them finds the file whole. It speaks of the files the builds name
  after the library, which are those `minidump_stackwalk` looks for: one the user
  has renamed is staged under its new name.

`range_map`: `TypeOK` says, besides the types, that nothing wraps: the sums that make
a range, and the one asked for while it is cut, are those of the numbers
(`NothingWraps`), for which the check for overflow of `IsRange` is needed. `Disjoint`, `DeltaLeadsBack` and `LookupsAreRight` keep a frame from
being resolved to the wrong function or with the wrong offset.
`FailureChangesNothing`, `StoreFollowsStrategy` and `RefusesOnlyConflicts` compare the
recursive store, address by address, with a definition of what it promises,
taken from `range_map.h:52-65`. In two cases the strategies drop a part of a
range: a range that covers the new one entirely loses the piece on the far side
of it as well. `GivesWayAbove` and `GivesWayBelow` state this.

`example_processes`:

* `ProcessesTypeOK`: both examples' types, and of the Linux one a stack its calls can
  have built, with the pointer that goes with it (`OnItsWay`).
* `DumpTellsTheCrash`: a whole minidump shows the crash of `README.md:265-274` and
  not one in the first, harmless `usePtr`, which increments an `int` nobody has
  initialised (in a build that traps overflow it would be).
* `HandledMeansDumped`, `DumpsStay`: no crash is claimed as handled without its
  dump, and no dump is overwritten by a later run or signal.
* `WindowsDumpsAreTrue`: `OneWriterPerDump`, no file has records of two processes;
  `DumpsTellTheirCrash`, a crash whose dump was written leaves it, or that of an
  instance that crashed in the same millisecond.
* `LostToTheSameMillisecond`: a whole dump is destroyed by such an instance only.
* `ProcessesEnd`: the three ways to end: `RunEnds` (the handler returns into the
  crash, and must not be entered again), `CrashesEnd`, `CloseEnds`.

The other suites check, of each part, conjunctions of the properties its module
states; each is a definition of its own there, with its comment:

| run | property | conjunction of |
|---|---|---|
| `build_scripts` | `SymbolsAreOfWhatIsPublished` | `BuildWindows!SymbolsNeverLead`, `OkPublishesOneBuild`; `BuildAndroid!SymbolsAreOfTheRelease`, `StatusVouchesForTheLast`; `BuildIos!SlicesHaveSymbols` |
| | `ShippedIsFinished` | `BuildIos!DistributedIsStripped`; `StripArchs!NothingInBetween`, `CancelledRunsAreMadeGood` |
| | `CrashesGetTheirLines` | `LinuxPipeline!LinesAreOfTheCrash`, `ReleasedCrashesGetLines` |
| | `NoSymbolsWithoutRelease` | `BuildAndroid`: an action property |
| `symbolication` | `FramesGetTheirOwnLines` | `FromItsOwnDSYM`, `NoneIsPassedOver`; `BaseIsTheFrames` of the report, `BaseIsTheImages`, `KnownAreListed` of Xcode |
| | `AnswersEachLine` | both scripts implement `LineFilter` |
| | `ScriptEnds` | `walk_stack.py` ends although the listing changes under it |
| `symbol_maps` | `MapsAreRight` | `IsTree`, `MostSpecific`; `FindsFirstOfNearest`; `SeesWhatWasSaid`, `IndexIsInside` |
| | `BlocksAnswerAlike` | `AllocatesWhatItWrites` of each serializer; `BlocksAreValid`; `StaticAnswersAlike`, `FastAnswersAlike`, `FilesFound`, `StaticRetrievesAlike`, `IteratesOverAll` |
| | `StoresKeepTheirPromise` | `ContainedRangeMap` implements `NestedRanges`; `StoreReturns` |
| `memory_objects` | `OwnersAndEntriesAreUnique` | `OneCircle`, `AliveWhileOwned`; `OneOwner`; `KeyAppearsOnce`, `IndexStaysValid`, `IteratorMissesNone` |
| | `BytesHaveOneOwner` | `BlocksAreApart`, `OwnsWhatItMaps`, `GivesAllBack`; `NeverLeavesTheRange`, `AccessIsInside`, `InsideIsGiven` |
| | `AllIsReadInOrder` | `EntriesInOrder`, `EndMeansAll`; `LinesInOrder`, `NoLineLost`; `FieldIsKept`, `FieldsInOrder` |
| | `PromisesAreKept` | `SimpleStringDictionary` implements `StringDictionary`; `GivenBackAsAllocated`; `VectorsMoveToRoom` |
| | `CallsReturn` | `LineReader!CallReturns`, `ProcCpuInfoReader!FieldReturns` |
| `dump_readers` | `DumpsMeanTheSameEverywhere` | `SamePlace`, `ElementsAreWhole`, `SizesAreUsable`; `CpuIsIdentified`, `GroupsAreIdentified` |
| | `ReadersTellTheTruth` | `NothingAfterAFailure`, `CompleteMeansAll`, `NumbersAreRight`, `StringsAreRight`; `CountsWhatTheFilesList` |
| | `RecoveredRegistersAreRight` | `ValuesAreTheTerms`, `AssignedTellsWhatChanged`; `ValidMeansTrue`, `InvalidIsFilled`, `CanGoOn` |

The type invariant of each part is a conjunct of one of them. The conjuncts are
broken one by one: `PROJECT.json` names a mutant of the code for each of those
listed above.

Neither symbolication script compares build ids: a dSYM of another build gives
wrong lines to the frames of its own name. `FromItsOwnDSYM` says that it gives them
to no others, `NoneIsPassedOver` that a frame is answered if its dSYM is there from
the start. Of two images of one name the one listed last counts
(`BaseIsTheImages`). A line of too few words ends a script with an exception;
`AnswersEachLine` says that nothing but such a line, or a frame atos fails on, ends
it before its last line, that the lines before have been answered, and that it
does not end well then.

### Findings

`strip_archs_thin`: `strip_simulator_arch.sh:3-4` says the script removes unused
architectures. `lipo -extract` fails on a file that is not universal and on an
architecture the file lacks, no command is checked, and lines 29 and 30 remove
the executable all the same: such a framework loses the architectures that are
used as well. `build_scripts` covers the universal frameworks the repository
builds, for which `NothingInBetween` holds.

`dump_lists`: `minidump_size.h:50-52` says that the size of a structure with a
variable-length array is the size without that section. `MDRawThreadList_minsize`
(`minidump_format.h:382`) is the offset of the array, before which an ABI that aligns
64-bit members on 64-bit boundaries puts four bytes of padding: 8 there, 4 on x86.
`MDRawModuleList` and `MDRawMemoryList` are alike. `dump_readers` checks the other
structures (`Portable`).

`amd64_all`: `minidump_cpu_amd64.h:203-205` says that the high 24 bits of
`context_flags` identify the CPU. `MD_CONTEXT_AMD64_ALL` (`:231`) takes
`MD_CONTEXT_X86_DEBUG_REGISTERS`, and with it the bit of X86: it identifies neither.
`dump_readers` checks the CPUs whose macros do identify them (`AllUsed`).

### Fairness

* The builds, `Symbolicate`, and everything without a liveness property have none:
  a build may be interrupted for ever.
* `WalkStack`: weak fairness of `Script(w)`, of each script as a whole: a process
  that was started is scheduled, and the files of its listing are finitely many.
  Users (`Place`, `Start`) have none. `Abort` is part of the script: a file that
  is gone raises an exception. `ReadHeader`, `OpenCopy` and `FinishCopy` all need
  the file, so the run does find a script that would wait for it.
* `LinuxExample`: weak fairness of the process' own steps (`Code \/ Handler`).
  `Launch` and `Kill` have none.
* `Win32Example`: weak fairness of each instance's message loop and filter; users,
  who click and crash it, have none.
* `RangeMap`, `ContainedRangeMap`: weak fairness of a store that was called.
* `LineReader`, `ProcCpuInfoReader`: weak fairness of a call that was made. What
  the kernel gives is a choice of the step, but a read of a file that is not at
  its end gives at least one byte.

Deadlock is checked except in `example_processes`, `symbolication`,
`memory_objects` and `dump_readers`: after `MaxRuns` runs nobody starts the program
again, scripts and expressions end, and objects are destroyed.

## 4. Proofs

| theorems | for every | by |
|---|---|---|
| `BuildLinux!TypeCorrect`, `Consistent`, `NeverLag`, `HaveLines` | number of edits | `IInv` |
| `WalkStack!TypeCorrect`, `StoreIsSorted` | sets of scripts, modules, builds, names; `~Concurrent` | `IInv` with `Pending` |
| `WalkStack!StagedIsFound` | sets of scripts, modules, builds, names; `~Concurrent` | `IInv` with `Alone`, `Staged` |
| `SymbolMaps_proofs!TypeCorrect`, `NeverOverlap`, `DeltaIsRight`, `LookupsFindTheOwner`, `FailuresLeaveNoTrace`, `StoresFollowStrategy`, `OnlyConflictsRefused` | size of the address space | `IInv` with `CallDelta`; `ChangedHasRoom`; `SoFar` |
| `SymbolMaps_proofs!MapsRight`, `TreeKeepsPromise` | sizes of the address spaces, number of symbols, set of frames, lines with any types and sizes, values of an `int` | `TreeInv` with `Forest`; `PublicsInv`, `FramesInv`; the refinement of `NestedRanges` |
| `ExampleProcesses_proofs!TypeCorrect` | width of `int`, number of runs; finite set of instances, clock, length of the queue | `IInv` with `OnItsWay`, `WindowsIInv` |
| `ExampleProcesses_proofs!DumpsTellTheCrash`, `HandledIsDumped`, `DumpsAreKept` | width of `int`, number of runs | `IInv` with `OnItsWay`, `NotYetWhole` |
| `ExampleProcesses_proofs!WindowsDumpsTellTheirCrash`, `LostOnlyToTheSameName` | finite set of instances, clock, length of the queue | `WindowsIInv` |
| `BuildScripts_proofs!SymbolsBelong`, `NoneWithoutRelease` | number of edits, list of distinct ABIs | `WindowsIInv`, `AndroidIInv`, `IosIInv` |
| `BuildScripts_proofs!Finished` | frameworks, architectures, number of edits | `IosIInv`, `PhaseIInv` |
| `BuildScripts_proofs!LinesFound` | number of edits, crashes, fetches and walks | `LinuxIInv` |
| `MemoryObjects_proofs!UniqueOwnersAndEntries` | finite set of linked pointers; sets of objects, scoped pointers, blocks, characters; sizes of the dictionary with `MaxKey < key_size` | `LinkedIInv`, `ScopedIInv`, `DictionaryIInv` |
| `MemoryObjects_proofs!OneOwnerOfEveryByte` | page size, size of a header, number of pages, size of requests; width of `size_t`, size of the memory | `PagesIInv`, `RangeIInv` |
| `MemoryObjects_proofs!PromisesKept` | all of these, `MaxKey < key_size` | the refinement of `StringDictionary`; `ScopedIInv`, `PagesIInv` |
| `MemoryObjects_proofs!AllIsRead` | contents and length of files and directories, lengths of the buffers | `DirectoryIInv`, `LinesIInv`, `CpuInfoIInv` |
| `Symbolication!FramesAreTheirOwn`, `EachLineIsAnswered` | sets of images and load addresses; lengths of reports, stacks and image lists | `ReportIInv`, `XcodeIInv`, `WalkIInv`; the refinement of `LineFilter` |
| `DumpReaders!RecoveredAreRight`, `RegistersAreRight` | number of values, literals below it in size, variables, constants, length of expressions; names of registers, those callees save, their values, number of frames | `PostfixIInv` with `StackHasTheTerms`; `WalkerIInv` |
| `DumpReaders!CursorsAreRight` | length of the buffer, bits of a byte up to eight, sizes of the types and of `size_t` | `CursorIInv`, `ReadIsRight` |
| `DumpReaders!ReadersAreRight` | also `kMaxCpus`, bits of a word, size of the buffer, length of a file, numbers below 100 | `CursorIInv`, `CpusIInv`; `ParseIsRight` |
| `DumpReaders!ContextsAreTold` | set of CPUs whose contexts are filled in with their `_ALL` macro, without `AMD64` | `ContextsIInv` |

Where a theorem has an assumption about constants as its hypothesis (`BitsType`,
`MemoryObjectsAssumption`, ...), TLC evaluates it for the instance it checks. What
the assumptions leave out:

* the ABIs of `build_android.sh` are distinct (`build_android.sh:6` lists them
  once): of an ABI listed twice the loop would vouch for the second copy only;
* `Nobody`, the writer of a dump there has not been, is not an instance, and the one
  of `WalkStack` not a script;
* there are finitely many linked pointers, as there are in a program: in an
  endless chain `depart` would not come round;
* `MaxKey < key_size`: keys fit with their NUL. Longer keys are stored cut off and
  not found again (section 5), and with them a key can be in the dictionary
  twice. Nothing in the header refuses them;
* `"AMD64" \notin AllUsed`: `MD_CONTEXT_AMD64_ALL` takes a flag of X86 and so has
  the bit of that CPU too (run `amd64_all`);
* no identifier of `PostfixEvaluator` is a variable and a constant: variables
  begin with `$`. A value has at least one bit.

The proofs about the compositions go part by part: each part has an invariant,
`IInv` is their conjunction, and a step of another part leaves the variables of
this one alone (`Inductive`). The invariants that are longer than what they
prove, those of `MemoryObjects_proofs` and `StackHasTheTerms` among them, have been
checked with TLC on the instances of the runs before.

**BuildLinux.** `OkPublishesOneBuild` speaks of the end of a run only. `Progress`
says what each prefix of the script has achieved: after `make` the library exists,
after the dump the symbols are the library's, after `cp` the published library is
too. `SymbolsNeverLag` is the delicate part: it holds between the two `cp` steps
because of `NothingAhead`: nothing that is built is newer than the source, and
after `make` the published library is not newer than the one that was built, so
fresh symbols may only run ahead. `HaveLines` needs that the library of a run
whose `rm` succeeded is not yet stripped when it is dumped (`NotYetStripped`).

**WalkStack.** The store can go wrong only at `FinishCopy`, which writes what the
file holds by then. `Pending` carries the connection over the steps from line 15
to line 19: the directory being staged is that of the file as it is now. Only
`~Concurrent` makes it inductive; the proof uses the assumption in `Place` and
nowhere else. The assumption `CutIsNoModule` (a module's name with its last
character missing is not another module's name) is needed for `DirOfTells`.
`WalkFindsSymbols` speaks of the end of the loop; `Staged` says of every moment of
it that the files which are neither on the list any more nor in the script's hands
are in the store as they are in the directory, whatever was there before. With a
second script beside it that would fail: one walks while the other has truncated
a file. So `Staged` is of a script that is alone, and `Alone` says that no other one
runs beside it, which only a start can end.

**RangeMap.** `Disjoint`, `DeltaLeadsBack` and the types have to be proved
together, and `NothingWraps` follows from them (`NoSumWraps`): that no sum in a round wraps follows from the ranges being disjoint,
and that a shrunk range keeps a base below its key follows from the conflict
test of the same round. `CallDelta` says of the arguments of a round what
`DeltaLeadsBack` says of the map. There is one lemma per branch that changes
something. `LookupsAreRight` follows from `Disjoint` and the bounds that
`LowerBound` and `UpperBound` pick. For `FailureChangesNothing` the invariant
`ChangedHasRoom` is needed: once a round has changed the map, the new range is not
empty, does not wrap and has no range in its way that could make a later round
refuse it (`Room`). So the refusals, `RefuseSameBase`, `RefuseCovered`, `Exclude`
and `RejectSize`, only happen in calls that have not changed anything.
`StoreFollowsStrategy` and `RefusesOnlyConflicts` relate the end of a call to the
map it began with, so `SoFar` says what any number of rounds can have done to that
map. `kTruncateUpper`: the new range begins behind one that was there, and the
only other change is that ranges ending above it begin behind it (`AboveSoFar`).
`kTruncateLower`: the new range ends below one that was there, and at most one
other was cut off below it, which is the one that reached over its base
(`BelowSoFar`). What each address has become then follows from the ranges being
disjoint before the call (`OneCovers`) and where the new one goes (`InsertMap`).

**ContainedRangeMap.** `IsTree` speaks of neighbours in the tree: of a node, its parent
and its siblings. A store moves whole subtrees, and to show that a range fits where
it is put one has to know of all ranges at once: any two are apart or one is within
the other (`Nested`), and what is within a node is within one of its children or is
one (`Reached`). With the neighbours' part these make a `Forest`. During a call it is
also known that the new range is within the node the recursion has arrived at
(`TreeInv`). What `lower_bound` decides at a node is translated once, by `WithinIs`,
`PartlyIs` and `TransferredIs`, into how the new range lies to each child; an
insertion is then described without the code (`NewNode`), keeps the forest
(`NewIsForest`), and crosses nothing at any depth (`NewNests`), which is the step of
`NestedRanges`. A child that is crossed or identical is a stored range that forbids
it, so a refusal is one of `NestedRanges` too. `RetrieveRange` is a recursive
function; it is shown that the smallest range below each node satisfies its equation
(`SmallestSolves`) and that nothing else does (`OneSolution`), by the smallest node at
which two solutions would differ.

**AddressMap, WindowsFrameInfo.** The symbol at a key is the first one asked for at
that address (`PublicsInv`), which `Store` keeps because `insert` does not replace; the
iterator before `upper_bound` is at the highest key not above (`RetrieveIs`). The
properties of frames are inductive as they are. The functions of `SymbolMaps` are
a `RangeMap`, step by step (`FunctionsAre`), so what is proved of it holds of them.

**The examples.** What a dump of the Linux example tells is the stack at the time
of the signal, so the invariant lists the stacks a run can have, with what `ptr`
is there (`OnItsWay`): the two calls of `usePtr` differ in the frame below only,
and `ptr` is null in the second alone. `NotYetWhole` is why a signal cannot meet
its own dump already whole: breakpad's handlers are gone after the first. On
Windows nothing in the program keeps two instances apart; the invariant is about
handles (`OwnDump`, `OneHandle`): an instance has a dump of its own from its filter
on only, the one it has open is new, and no other instance has it open, because a
second `CreateFile` on it fails while the share mode is 0.

**The build scripts.** Each invariant says what each prefix of a script has
achieved, as in `BuildLinux`. Windows: what was copied is what was built, and the
symbols are never newer than that. Android: all ABIs before the loop's have the
symbols of the release or are in `missed`, and the last one decides the status,
which needs the ABIs to be distinct. iOS: before `lipo` both slices are there with
the revision of their symbols, and stripped before they are signed. The build
phase: while a framework is at hand, the architectures that are done have been
extracted, unless its executable is gone; once merged, the merged file is there
until `mv` has moved it; and every framework that was passed is thinned.
`LinesFound` rests on the invariants of `BuildLinux` and of `WalkStack`, which have
their variables renamed there and hold again because the steps of the one leave
the other's alone; what ties them together is that the released library's
symbols are beside the minidump as they were fetched.

**linked_ptr.** That the pointers to one object are in one circle is said by
`Walk`, which follows `next_` as often as there are pointers, and nothing about
such a walk can be proved by taking the circle as a sequence. `Circles` says it
without one: `next_` leads to a pointer to the same object, no two lead to the
same, and no proper part of the pointers to an object is closed under it. That is
kept when a pointer is let into a circle and when it leaves one (`join`,
`depart`): a closed set of the new circle gives a closed set of the old one. What
the loop of `depart` finds, and that a walk sees all pointers, follows from it:
the iterates of `next_` exist (`Iterations`), they come round since there are
finitely many pointers, and what they pass through is closed.

**scoped_ptr.** `HoldsItsOwn`: what a scoped pointer holds is allocated, to be given
back its way, not the client's and no other pointer's. `NoneIsLost`: what is
allocated and not the client's is held by some pointer. Together they give one
owner, and the first alone the right deallocator. There is one lemma for each
member function.

**The dictionary.** `KeyAppearsOnce` needs that `SetKeyValue` looks for the key
before it takes a free entry, and that a key is the same after it was copied
into `key_size` bytes, which is where `MaxKey` is needed. An `Iterator` keeps
`StillToCome`: a key that stays is among those seen or in an entry at or after
the iterator's; an entry that is taken again belongs to a new key, and a key
never moves. Each step is then a step of `StringDictionary`, where the
dictionary is a function from keys to values with room for `num_entries`, or
leaves it as it is.

**PageAllocator.** The addresses are numbers and the pages are divisions, so the
lemmas `Starts` and `PageIs` first say where pages begin and on which page a byte
is. `HeadersLie`: each header is at the beginning of pages of its own.
`BlocksAreApart` holds again after a request that fits because the rest of the
current page has no owner (`RestIsFree`), which a request that takes new pages
has to establish for the last of them. `Chained`: there is a sequence of all the
headers, each once, in which `next` leads from `last_` to NULL, so that `FreeAll`,
which unmaps a page while it follows the chain, meets all of them and none twice.

**MemoryRange.** `Covers` compares a sum that may have wrapped; `CoversMeans` shows
that its two tests together are those on the sum that has not. `SetIsMemory`
bounds what `Set` was given, the case of memory up to the last address included.

**The readers.** A reader's place in what it reads is not a variable of it: it follows
from what was popped. `TakenTo` and `LinesIInv` say that there is a place in the file,
the beginning or the end of a line, up to which as many lines end as were popped,
and that the buffer goes on as the file does behind it (`Follows`): as far as the
file was read, or to a NUL of its own behind an unended last line. A newline in the
buffer may have become a NUL, and in the line whose field was returned last there
is a NUL behind the name, so nothing is said of the buffer before `pop_count_`. All
ways in which a turn of the loop goes (`Turn`) keep this (`TurnKeeps`), and so does
popping a line (`PopKeeps`). The references, how many lines end up to a place and
which fields they hold, are defined by recursion along the file; `Recursion` gives
the functions, and two facts are all that is needed of them: the next end counts
one more (`CountGrows`), and adds the field of its line or nothing (`FieldsAre`).
What `Name` and `ValueAt` cut out of a line is what its first colon and the spaces
around it say (`FieldIs`). Of a directory, `DirectoryIInv` says that the buffer holds
the entries between those popped and those read.

**Symbolication.** What a script has printed for a line is fixed when it is printed,
so `FramesGetTheirOwnLines` has to say of every line that was printed what is
known of the one being printed: `ReportPrints` and `XcodePrints`. Of
`symbolicatexcode.py` one has to know besides that the address kept for an image
is the one it was listed with last (`XcodeIInv`), which a later line of the list
keeps true by replacing it. A step that prints is then a step of
`LineFilter`, since the line it prints is the first that has no answer yet, and
the script ends well only when there is none left.

**Contexts.** The flags are one bit of the CPU and one for each group that is
filled in (`ContextsIInv`). That they tell both is then a fact about the tables of
the headers, each bit by itself: `CpusHaveBits`, `GroupsHaveBits`, `MacrosNameGroups`.

**ByteCursor.** `ran_off` and `wanted` record what was asked for and whether it was
there; `CursorIInv` ties them to `complete_` and `here_`. All operations but one leave
the cursor through `Takes` (`TakesKeeps`); a string, whose length depends on where
its NUL is, has `StringKeeps`. What a string holds follows from where its first NUL
is (`FirstZero`, a least number), in a field that was there as a whole. A number is
what the loop of `Read` has after the last byte, a recursion modulo the size of
its type; what the bytes mean is a sum of bytes and their weights, in which the
byte order turns the weights only. `BigEndian` and `LittleEndian` show the two to be
the same up to the modulus, by going through the bytes from the front (a step of
the loop) and from the back. The sign bit is half the range of so many bytes
(`SignBit`), which is why a byte has to have a power of two of values, and adding it
and taking it away again is what makes a number negative (`SignIsKept`).

**CpuSet.** A mask is a set of numbers (`CpusBelow`): the bits of one word more are
those of so many further processors (`WordAdds`), so `GetCount` has the number of
elements of that set (`CountIs`), and it has no bit beyond `kMaxCpus` (`Low`).
`MaskIsMeant` ties each mask to the processors its history tells, and `ParseIsRight`
is what the parser has to do with it: between two commas of a text that is well
formed (`Between`) there is a number, a range (`ShapeIs`) or nothing (`BlankIs`) besides
spaces, which is the item the parser makes of it (`ItemIs`); and what the file
lists at some place is in the item between the nearest commas around (`Enclosed`).

**SimpleCFIWalker.** `Keeps` copies a register that callees save only if it was
valid, and every other one is set from its rule or filled, so that validity never
outlives the value it speaks of. That registers can be told by their names is true
of the register map of `DumpReaders` (`RegisterOfName`), as it is of the tables of
the stack walkers.

**PostfixEvaluator.** `ValuesAreTheTerms` compares the answer with `Term`, a recursive
definition of what the expression is written for that knows of no stack. The
invariant is `StackHasTheTerms`: while an expression without assignments is
evaluated there are places in it, one for each entry of the stack, at which the
terms on the stack end, each beginning behind the one below, so that the whole
expression is used up and each entry has its term's value; an identifier is there
by itself. An operator takes the last two and ends one term at the new token; an
operand begins one. An expression fails exactly where no term ends at the token.
It depends on nothing being assigned (`NothingAssigned`), on the terms of a longer
expression being those of its beginning (`TermsStay`), and on the stack of the
evaluation before having been cleared. An assignment at the very end stores the
value of the term before it (`AssignStoresTheTerm`). `AssignedTellsWhatChanged` needs
only what a token does to the dictionary (`TokenKeepsAssigned`).

Induction over data is not needed for this: a property of the terms, or of the
bitwise `And`, is proved by taking the least number for which it fails (`WFMin` of
the library), at which the recursion is expanded once (`TermsAreDefined`,
`AndIsDefined`). The recursive functions were written for that, in place of
recursive operators.

Only model-checked:

* liveness (`ProcessesEnd`, `ScriptEnds`, `CallsReturn`, and `StoreReturns` in
  `StoresKeepTheirPromise`): the prover does not handle fairness;
* the layouts in `DumpsMeanTheSameEverywhere`: the structures are fixed, and
  TLC computes every offset of each of them; what would be left to prove is that
  more than three elements are as well apart. The contexts in it are
  `ContextsAreTold`;
* `BlocksAnswerAlike`: the blocks are folds over sorted sequences of keys, read back
  by binary search at offsets that depend on all that was written before. Of
  `StoresKeepTheirPromise`, the safety part of the refinement of `NestedRanges` is
  `TreeKeepsPromise`; that a store is answered in the end is liveness.

## 5. Not modelled

* **Declarations.** Most breakpad headers declare classes whose code is in `.cc`
  files the repository does not have (`module.h`, `dwarf_cu_to_module.h`,
  `linux_dumper.h`, the stack walkers, ...). A model could only follow comments.
* **Test tools** (`test_assembler.h`, `synth_minidump.h`, `synth_elf.h`, ...): for
  breakpad's own tests, which are not here.
* **Exception codes**: enumerations without behaviour, among them the longest
  file after the system calls.
* **`third_party/lss`**: system calls in assembly.
* **Binaries**: `libbreakpad_client.a`, `dump_syms`, `minidump_stackwalk`.
* **Gradle, Xcode and resource files; the Android and iOS hosts**, each of which
  makes one call that crashes.
* Replacing the library while a process has it mapped; clocks that step back;
  file names with spaces; an edit in the middle of one compilation.

Declarations, test tools, enumerations and system calls are most of the lines of
the repository, and this is why the map covers somewhat more than a fifth of
them: what has an implementation here, in the project's own code or in a breakpad
header that does more than declare, is modelled.

Read while modelling, and not shown by a run:

* `minidump_cpu_mips.h:156-158` and `:172-174`: the `*_ALL` macros list their flags
  without `|` between some of them, and do not compile where used.
* `minidump_cpu_ppc.h:117-119` says `context_flags` guarantees the alignment of
  `float_save`; it begins at byte 164, which no double does without the pragma
  above it. In `MDRawLinkMap64` and `MDRawDebug64` 64-bit members follow an odd number
  of 32-bit ones, so that their offsets depend on the ABI. The header has other structures
  for 32-bit processes; a 32-bit x86 tool would still read these wrong.
* `byte_cursor.h:132`: the sign bit is a `size_t`. Where that has 32 bits, signed
  numbers of 5 to 7 bytes read into a 64-bit type lose their sign. The model does
  that (`SizeT`), and `NumbersAreRight` takes such a number for an unsigned one.
* `postfix_evaluator-inl.h:124,127,305`: a division by zero is undefined, and so
  is an assignment to a negative number, which writes through a null pointer.
  The model ends there (`Undefined`), and no property speaks of the outcome.
  Values are unsigned.
* `simple_string_dictionary.h:147` and `:187`: the empty key is that of every free
  entry, and a key of `key_size` characters or more is stored cut off, so that the
  whole key is not found again. The model keeps to keys that are neither.
* `simple_serializer-inl.h:204`: `is_multiple` is not written.
* `memory_allocator.h`: the sum of a huge request and the header wraps; requests
  are bounded by `MaxBytes`. `memory_range.h:108`: so does the product of an index
  and an element size, which `MemoryRange` does model.
* `cpu_set.h`: an item that is no number sets CPU 0, and a file is cut at 511
  bytes. The model does both. What is counted is compared with what the text in the
  buffer lists, with its spaces and empty items, unless it has something between its
  commas that is neither a number nor a range, or its last range has no end or one
  that was cut to less than its begin.
* `directory_reader.h:49-52`: `hit_eof_` is not initialised, and never read before
  it is set. `static_map_iterator-inl.h:111-139`: an iterator at its end is valid.
* `symbolicatereport.py:20`: a line of fewer than four words, the empty one after
  the last newline included, raises an exception: `LineFilter` gives up there.
* `CrashExample.cpp:8` prints the path of the dump whether or not it was written.

## 6. Plan

Everything in the first plan is written, with the classes of breakpad that have
their code here. Left to prove:

1. `AllocatesWhatItWrites` of the serializers: that the fold of `SizeOf` and that of
   `Image` run over the same keys.
2. `BlocksAnswerAlike` as a whole, with the search in a block as a search in the
   sequence of keys.
