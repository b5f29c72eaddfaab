CONSTANTS
  Numbers = {0, 1, 2}
  Whole = {0, 2}
  Near <- Exactly
  Texts = {3, 4}
  Upper <- ToUpper
  Matches <- IgnoreCase
  Columns = {"c"}
  Criteria <- MCCriteria
  MaxOperands = 3
  NoPredicate = NoPredicate
SPECIFICATION Spec
INVARIANTS IInv FoldKeepsDecided FilterIsExact AnyOrder
CHECK_DEADLOCK FALSE
