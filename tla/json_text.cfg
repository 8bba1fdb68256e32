SPECIFICATION ExchangeSpec
CONSTANTS
  Node = {1, 2, 3, 4, 5, 6, 7, 8, 9, 10, 11, 12, 13, 14, 15, 16, 17, 18, 19, 20, 21, 22, 23, 24, 25, 26, 27, 28, 29, 30, 31, 32, 33, 34, 35, 36, 37, 38, 39, 40}
  NULL = 0
  Nesting = 4
  Docs <- Documents
  Goals <- Changing
  Spaces <- Separators
  Damage <- Damages
  MaxText = 9
  MaxString = 26
  Memories <- FewNodes
INVARIANTS TextRoundTrip PrintFits ReadClean PatchRoundTrip MergeRoundTrip
CHECK_DEADLOCK FALSE
