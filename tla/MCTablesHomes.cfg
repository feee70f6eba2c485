SPECIFICATION Spec
CONSTANTS
  keya = keya
  keyb = keyb
  keyc = keyc
  Names = {keya, keyb, keyc}
  Indexes <- Numbers
  Data = {v, w}
  Nil = Nil
  NoKey = NoKey
  Hash <- Hashes
  MinHash = 2
  MinArray = 4
  Address = {m1, m2}
  Vars = {x}
  MaxWrites = 5
SYMMETRY Symmetry
CHECK_DEADLOCK FALSE
INVARIANT OneHome
