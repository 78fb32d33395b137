SPECIFICATION Spec
CONSTANTS
  W = 9
  pow2 <- MCpow2
  Moduli <- MCModuli
  Reg = {x, y}
INVARIANTS TypeOK Inverse Bounded
PROPERTY Modular
