SPECIFICATION Spec
CONSTANTS
  Name = {x, y}
  nbytes <- MCBytes
  alignment <- MCAlignment
  Type <- MCType
  ParamType <- MCParamType
  MaxLocals = 4
INVARIANTS TypeOK Apart InFrame
PROPERTY Binding
