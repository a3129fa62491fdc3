CONSTANTS
  x = x  y = y  empty = empty  one = one  b1 = b1  b2 = b2  b3 = b3
  u = u  v = v  w = w  file = file  tash = tash  opt = opt  Nil = Nil
  Name = {x, y}
  Value = {empty, one}
  Empty = empty
  Body = {b1, b2, b3}
  Word = {u, v, w, file, tash, opt}
  Environment <- MCEnvironment
  Started <- MCStarted
  Zero = tash
  MaxArgs = 4
  MaxDepth = 1
  Menus <- MCArgsOnly
SPECIFICATION Spec
PROPERTY CallersKeepParameters
