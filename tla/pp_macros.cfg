\* Four names, three of which collide, and two texts.
SPECIFICATION Spec
CONSTANTS
  a = a
  b = b
  c = c
  d = d
  Names = {a, b, c, d}
  Texts = {t1, t2}
  Undefined = Undefined
  BASE = 2
  hash <- MCHash
PROPERTIES
  ImplementsDictionary
