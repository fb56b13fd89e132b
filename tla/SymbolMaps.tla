----------------------------- MODULE SymbolMaps -----------------------------
(***************************************************************************)
(* The maps symbols are kept in, with the blocks of memory they are        *)
(* written into: the tree of ranges (inlined functions), the ranges of     *)
(* functions with those of their lines, the addresses of public symbols,   *)
(* and the information on stack frames that trees of ranges hold.          *)
(* They are independent: a behaviour is one of a single part, which, and   *)
(* the other ones stay as they begin.  The functions are those of RangeMap,*)
(* and Space has the addresses of the tree and of the functions.           *)
(***************************************************************************)
EXTENDS RangeMap, Sequences

CONSTANTS
  PublicSpace,  \* addresses of the public symbols
  MaxStores,    \* bound: public symbols stored between two Clears
  Frames, Ints, TypeNumbers, Sizes   \* WindowsFrameInfo

VARIABLES
  which,
  children, request, this, found,
  symbols, stored, asked,
  info, said

tree == <<children, request, this, found>>
functions == <<map, strategy, calling, call, result, before>>
publics == <<symbols, stored, asked>>
frames == <<info, said>>
allVars == <<which, tree, functions, publics, frames>>

Tree == INSTANCE ContainedRangeMap WITH result <- found
Functions == INSTANCE SerializedFunctions
Publics == INSTANCE AddressMap WITH
  Space <- PublicSpace, map <- symbols, result <- stored
FrameInfos == INSTANCE WindowsFrameInfo

ASSUME SymbolMapsAssumption ==
  Tree!SpaceType /\ Publics!SizesAreNat /\ FrameInfos!FrameAssumption

MapsInit ==
  /\ which \in {"tree", "functions", "publics", "frames"}
  /\ Tree!Init /\ Functions!Init /\ Publics!Init /\ FrameInfos!Init

On(name, step, unchanged) == IF which = name THEN step ELSE unchanged

MapsNext ==
  /\ On("tree", Tree!Next, UNCHANGED tree)
  /\ On("functions", Functions!Next, UNCHANGED functions)
  /\ On("publics", Publics!Next, UNCHANGED publics)
  /\ On("frames", FrameInfos!Next, UNCHANGED frames)
  /\ UNCHANGED which

\* A StoreRange that runs goes on.
Fairness ==
  /\ WF_tree(which = "tree" /\ Tree!StoreRange)
  /\ WF_functions(which = "functions" /\ Functions!StoreRangeInternal)
MapsSpec == MapsInit /\ [][MapsNext]_allVars /\ Fairness
-----------------------------------------------------------------------------
\* ContainedRangeMap: siblings are disjoint and lie in their parent, no address
\* wraps, and it finds the smallest stored range; AddressMap finds the first
\* symbol stored at the nearest address not above; of a frame a user sees what
\* was last said of it, and a parsed type is the index of one of the resolver's
\* maps.
MapsAreRight ==
  /\ Tree!TypeOK /\ Functions!TypeOK /\ Publics!TypeOK /\ FrameInfos!TypeOK
  /\ Tree!IsTree /\ Tree!MostSpecific
  /\ Publics!FindsFirstOfNearest
  /\ FrameInfos!SeesWhatWasSaid /\ FrameInfos!IndexIsInside

\* Each Serialize allocates the bytes its Write then writes, no more and no
\* less, and every StaticMap written passes ValidateInMemoryStructure;
\* StaticContainedRangeMap, StaticRangeMap (functions and their lines),
\* StaticMap (source files) and StaticAddressMap answer as the map that was
\* written, and StaticMapIterator goes both ways through all keys and no
\* further.
BlocksAnswerAlike ==
  /\ Tree!AllocatesWhatItWrites /\ Functions!AllocatesWhatItWrites
  /\ Publics!AllocatesWhatItWrites /\ FrameInfos!AllocatesWhatItWrites
  /\ Functions!BlocksAreValid
  /\ Tree!StaticAnswersAlike
  /\ Functions!FastAnswersAlike /\ Functions!FilesFound
  /\ Publics!StaticRetrievesAlike /\ Publics!IteratesOverAll

\* ContainedRangeMap implements NestedRanges, and every StoreRange of a
\* RangeMap returns, whatever it has to split.
StoresKeepTheirPromise == Tree!KeepsPromise /\ Functions!StoreReturns
=============================================================================
