\* A framework of the application, universal or thin, with architectures of the
\* build missing too.
SPECIFICATION Spec
CONSTANTS
  Frameworks = {crash}
  Skipped = {}
  Archs = {arm64, armv7, x86_64}
  ARCHS = {arm64, armv7}
INVARIANT RemovesUnusedArchitectures
