CONSTANTS
  HistSize = 3
  Letter = {a}
  MaxLine = 2
  Rows = 2
  Cols = 3
  EscMax = 2
  Digit = {2}
  ParamMax = 2
  Fx = {"F1", "F2"}
  MaxHeld = 3
  MaxBytes = 2
  List = {l1, l2}
  Node = {n1, n2, n3, n4}
  Null = null
  Proc = {p1, p2, p3}
  GdtSize = 4
  Radix = 3
  Years <- Walked
  MaxText = 3
  Bits = 7
  BitCount = 6
SPECIFICATION DevicesSpec
INVARIANTS  ShownIsLine   ListsAgree
  SelectorsOwned ClocksAgree AlgorithmsAgree
