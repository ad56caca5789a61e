CONSTANTS
  a = a
  b = b
  Heads = {a, b}
  NumElems = 2
  NoHead = NoHead
  EmptyRight = TRUE
SPECIFICATION Spec
INVARIANT ForeachFindsAll
