SPECIFICATION Spec
CONSTANTS
  Byte = {x, newline}
  Delim = newline
  page_size = 2
  MaxCall = 3
  MaxPages = 3
INVARIANT Positions
PROPERTY QueueSpec
