CONSTANTS
  Numbers = {0, 1, 2}
  Whole = {0, 2}
  Near <- Close
  Texts = {3, 4}
  Upper <- ToUpper
  Matches <- IgnoreCase
  Columns = {"c"}
  Criteria <- MCTrees
  MaxOperands = 3
  NoPredicate = NoPredicate
SPECIFICATION Spec
INVARIANT FoldMirrorsEval
CHECK_DEADLOCK FALSE
