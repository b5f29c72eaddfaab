SPECIFICATION Spec
CONSTANTS
  Colls = {"a", "b"}
  Docs <- MCDocs
  Tables <- MCTables
  Queries <- MCQueries
  Reads <- MCReads
  Holds <- MCHolds
  NoPredicate = "none"
  MaxInt = 7
  MaxWrites = 1
INVARIANTS TypeOK ResultIsSql FailsForCause
CHECK_DEADLOCK FALSE
