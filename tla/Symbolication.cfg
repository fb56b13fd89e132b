\* Two images at one of two addresses; reports of two lines, one frame of bt
\* and two lines of image list; the dSYMs change at any time.
SPECIFICATION Spec
CONSTANTS
  Images = {crash, app}
  Bases = {b1, b2}
  MaxLines = 2
  MaxFrames = 1
  MaxImages = 2
INVARIANT FramesGetTheirOwnLines
PROPERTIES
  AnswersEachLine
  ScriptEnds
CHECK_DEADLOCK FALSE
