CONSTANTS
  IdTypes = {"Int"}
  MaxId = 9
  a = a
  b = b
  Names = {a}
  Uuids = {}
  Fields <- MCFields
  IdKey = "id"
  Items <- MCItems
  Schemas <- MCSchemas
  NoRow = NoRow
  NonObject = NonObject
  NoValue = NoValue
  NoField = NoField
  NotString = NotString
  NoMarker = NoMarker
SPECIFICATION Spec
PROPERTY AddNeverReplaces
