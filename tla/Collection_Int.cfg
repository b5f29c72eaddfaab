CONSTANTS
  IdTypes = {"Int"}
  MaxId = 2
  a = a
  b = b
  Names = {a}
  Uuids = {}
  Fields <- MCFields
  IdKey = "id"
  Items <- MCItems
  Schemas <- MCSchemas
  NoRow = NoRow
  NonObject = NonObject
  NoValue = NoValue
  NoField = NoField
  NotString = NotString
  NoMarker = NoMarker
SPECIFICATION Spec
INVARIANTS TypeOK RowsCarryId MaxIdIsCurrent IInv
PROPERTIES AdvanceIsFresh NewKeysMatchIds SchemaOnlyWidens WritesAreDescribed ImplementsStore
