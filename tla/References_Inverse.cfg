CONSTANTS
  p = p
  o = o
  i = i
  O = O
  Colls = {p, o, i}
  Names = {p, o, i}
  Lower <- Same
  Cols = {"id", "p_id", "other_id"}
  IdKey = "id"
  RefColumn <- Conventional
  Documents = {{}, {"p_id"}}
  Dicts = {{"id", "p_id"}, {"p_id"}}
  Asks <- ThreeAsks
  Rows <- MCRows
  MaxChain = 2
  NoRef = NoRef
  NoCall = NoCall
SPECIFICATION Spec
PROPERTY InverseStays
