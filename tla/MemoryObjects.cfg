\* Four linked pointers to two objects; one more key than the dictionary has
\* entries; three pages of three bytes; every file of five characters.
SPECIFICATION Spec
CONSTANTS
  NoBlock = NoBlock
  Links = {p1, p2, p3, p4}
  Objects = {o1, o2}
  Scoped = {s1, s2}
  Arrays = {a1}
  Malloced = {m1}
  Blocks = {b1, b2}
  KeyChars = {"a", "b", "c", "d"}
  MaxKey = 1
  key_size = 2
  value_size = 2
  num_entries = 3
  page_size = 3
  HeaderSize = 1
  Pages = 3
  MaxBytes = 3
  Wasteful = {plain}
  AutoWasteful = {auto}
  Word = 5
  Memory = 3
  LineChars = {"a", "newline", "NUL"}
  FieldChars = {"a", ":", "space", "newline", "NUL"}
  LineLen = 3
  FieldLineLen = 5
  MaxFile = 5
  BufferBytes = 3
  MaxEntries = 4
INVARIANTS
  OwnersAndEntriesAreUnique
  BytesHaveOneOwner
  AllIsReadInOrder
PROPERTIES
  PromisesAreKept
  CallsReturn
CHECK_DEADLOCK FALSE
