SPECIFICATION RoundSpec
CONSTANTS
  s1 = s1
  a = a
  b = b
  c1 = c1
  c2 = c2
  c3 = c3
  d1 = d1
  d2 = d2
  d3 = d3
  Spaces = {s1}
  Names = {a, b}
  Priorities = {1}
  Nil = Nil
  Clients = {c1, c2, c3}
  Data = {d1, d2}
  Mortal = {}
  Requests <- InfoRequests
  SigPipe = FALSE
  FalseSuspicion = FALSE
SYMMETRY ClientDataSymmetry
CHECK_DEADLOCK FALSE
PROPERTY TidsAreFetched
