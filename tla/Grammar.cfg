SPECIFICATION FrontSpec
CONSTANTS
  Texts <- SaneTexts
  Expressions <- MCExpressions
  Styles <- BothStyles
INVARIANTS TypeOK WellCut Words ReadBack
CHECK_DEADLOCK FALSE
