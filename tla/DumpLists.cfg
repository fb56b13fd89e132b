\* The structures with a variable-length array.
SPECIFICATION Spec
CONSTANTS
  Structs = {"MDString", "MDRawThreadList", "MDCVInfoPDB20", "MDCVInfoPDB70",
             "MDCVInfoELF", "MDImageDebugMisc", "MDRawModuleList", "MDRawMemoryList"}
  Elements = 1
INVARIANT SizeIsWithoutTheArray
