CONSTANTS
  IdTypes = {"Int", "None", "Uuid"}
  MaxId = 2
  a = a
  b = b
  Names = {a, b}
  Uuids = {a, b}
  Fields <- MCFields
  IdKey = "id"
  Items <- MCItems
  Schemas <- MCSchemas
  NoRow = NoRow
  NonObject = NonObject
  NoValue = NoValue
  NoField = NoField
  Torn = Torn
  NotLoading = NotLoading
SPECIFICATION StorageSpec
INVARIANTS StorageTypeOK LoadRestores LoadIsAhead
PROPERTIES InsertNeverReplaces ImplementsStore
