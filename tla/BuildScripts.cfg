\* Two edits on Windows, one elsewhere; three architectures of Android; one
\* framework that is thinned and one that is not.
SPECIFICATION Spec
CONSTANTS
  WinEdits = 2
  NdkEdits = 1
  IosEdits = 1
  LinEdits = 1
  ARCH <- ThreeArchs
  Frameworks = {"crash", "other"}
  Skipped = {"other"}
  Slices = {"arm64", "armv7", "x86_64"}
  ARCHS = {"arm64", "armv7"}
INVARIANTS
  SymbolsAreOfWhatIsPublished
  ShippedIsFinished
  CrashesGetTheirLines
PROPERTY NoSymbolsWithoutRelease
