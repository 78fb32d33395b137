SPECIFICATION Spec
CONSTANT Texts <- AllTexts
INVARIANT Words
CHECK_DEADLOCK FALSE
