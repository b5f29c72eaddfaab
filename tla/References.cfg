CONSTANTS
  p = p
  o = o
  i = i
  O = O
  Colls = {p, o}
  Names = {p, o, O}
  Lower <- Spelled
  Cols = {"id", "p_id", "other_id"}
  IdKey = "id"
  RefColumn <- Conventional
  Documents = {{}, {"p_id"}}
  Dicts = {{"id", "p_id"}, {"p_id"}}
  Asks <- MCAsks
  Rows <- MCRows
  MaxChain = 2
  NoRef = NoRef
  NoCall = NoCall
SPECIFICATION Spec
INVARIANTS IInv LoadInfersAll ExpandsAlongReferences ExpansionJoins
PROPERTIES HalfOnlyIfDisturbed GrantedBothWays GrantedIsFollowed
