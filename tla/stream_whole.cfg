\* Six bytes, as "Hello\n", through a buffer of four; MESSAGE_SIZE is shorter
\* or longer, and the delimiter is in the middle.
CONSTANTS
  Length = 6
  Sizes = {5, 7}
  Delim = 4
  Newline = 0
  Capacity = 4
  Readers = {"exact", "delim"}
SPECIFICATION FairSpec
INVARIANTS TypeOK StreamIntact WholeTransfer
PROPERTIES Delivered BothEnd
