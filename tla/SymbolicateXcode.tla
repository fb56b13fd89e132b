-------------------------- MODULE SymbolicateXcode --------------------------
(***************************************************************************)
(* symbolicatexcode.py: the frames are picked out of the output of bt, and *)
(* the load addresses come from the output of image list, by the last      *)
(* component of the image's path.                                          *)
(***************************************************************************)
EXTENDS Symbolicate

CONSTANTS MaxFrames,   \* bound: lines of bt
          MaxImages    \* bound: lines of image list

VARIABLES
  rawImages,  \* the lines of image list still to read
  images,     \* the load address of each name
  listed      \* history: the lines of image list that have counted

vars == <<loop, rawImages, images, listed>>

\* A line of bt, with "frame #" in it or not.
BtLines == [frame : BOOLEAN, line : Lines]
\* A line of image list: of a framework or not, with one address before the
\* path or another number of them.
ImageLines == [framework : BOOLEAN, addresses : {1, 2}, name : Images, base : Bases]

\* Numbers, the smallest first: a set of one sequence.
InOrder(numbers) ==
  {at \in UNION {[1..n -> numbers] : n \in 0..MaxFrames} :
     /\ numbers = {at[k] : k \in DOMAIN at}
     /\ \A j, k \in DOMAIN at : j < k => at[j] < at[k]}

\* The lines of bt with "frame #" in them, as they follow each other.
Chosen(bt) ==
  {[k \in DOMAIN at |-> bt[at[k]].line] : at \in InOrder({k \in DOMAIN bt : bt[k].frame})}

Init ==
  /\ LoopInit
  /\ \E n \in 1..MaxFrames : \E bt \in [1..n -> BtLines] : stack \in Chosen(bt)
  /\ \E n \in 1..MaxImages : rawImages \in [1..n -> ImageLines]
  /\ images = << >>
  /\ listed = << >>

Args ==
  /\ pc = "args"
  /\ \/ pc' = "images" /\ UNCHANGED status
     \/ pc' = "end" /\ status' = "failed"
  /\ UNCHANGED <<dir, dSYMs, stack, output, had, rawImages, images, listed>>

Counts(image) == image.framework /\ image.addresses = 1

\* images[name] = base
Put(name, base) == [n \in DOMAIN images \cup {name} |-> IF n = name THEN base ELSE images[n]]

Keep(image) == IF Counts(image) THEN Append(listed, image) ELSE listed

\* An address that is there already is kept: setdefault.
ReadImageOnce ==
  LET image == Head(rawImages) IN
  /\ pc = "images" /\ rawImages # << >>
  /\ rawImages' = Tail(rawImages)
  /\ images' = IF Counts(image) /\ image.name \notin DOMAIN images
               THEN Put(image.name, image.base) ELSE images
  /\ listed' = Keep(image)
  /\ UNCHANGED loop

ReadImage ==
  LET image == Head(rawImages) IN
  /\ pc = "images" /\ rawImages # << >>
  /\ rawImages' = Tail(rawImages)
  /\ images' = IF Counts(image) THEN Put(image.name, image.base) ELSE images
  /\ listed' = Keep(image)
  /\ UNCHANGED loop

ReadAll ==
  /\ pc = "images" /\ rawImages = << >>
  /\ pc' = "list"
  /\ UNCHANGED <<dir, dSYMs, stack, output, status, had, rawImages, images, listed>>

Known == DOMAIN images
Lookup == More /\ Line.name \in Known /\ Symbol(Known, images[Line.name])
Loop == List \/ Replace \/ Plain(Known) \/ Lookup \/ AtosFails(Known) \/ TooShort \/ End
Next ==
  \/ Args \/ ReadImage \/ ReadAll
  \/ Loop /\ UNCHANGED <<rawImages, images, listed>>
Spec == Init /\ [][Next]_vars
-----------------------------------------------------------------------------
TypeOK ==
  /\ LoopTypeOK
  /\ rawImages \in Seq(ImageLines)
  /\ Known \subseteq Images /\ \A n \in Known : images[n] \in Bases
  /\ listed \in Seq(ImageLines)

\* Of the lines of bt the frames are answered, each in its turn.
Filter == INSTANCE LineFilter WITH input <- stack
AnswersEachFrame == Filter!Spec

\* The address a name was listed with last, of lines that each have one.
ListedLast(n, base) ==
  \E i \in 1..Len(listed) :
    /\ listed[i].name = n /\ listed[i].base = base
    /\ \A j \in i + 1..Len(listed) : listed[j].name # n

\* A frame is symbolicated relative to the address its image was listed with
\* last, so with the right one if image list names that image once and truly,
\* whatever other images and lines that do not count are listed around it.
BaseIsTheImages ==
  \A k \in 1..Len(output) : output[k].build # "none" =>
    ListedLast(output[k].line.name, output[k].base)

\* The images whose frames may be looked up are those that were listed.
KnownAreListed == Known = {listed[i].name : i \in 1..Len(listed)}
=============================================================================
