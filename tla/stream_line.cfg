\* A message in which a line ends before the first '|'.
CONSTANTS
  Length = 4
  Sizes = {3}
  Delim = 4
  Newline = 2
  Capacity = 2
  Readers = {"delim"}
SPECIFICATION Spec
INVARIANTS LineRead
