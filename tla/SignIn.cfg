CONSTANTS
    None = None
    Address = {a1}
    Code = {k1, k2}
    Grant = {g1, g2}
    Request = {r1, r2}
    MaxAttempts = 1
    MaxDraws = 2
    MaxMistakes = 2
SPECIFICATION Spec
SYMMETRY MCSymmetry
INVARIANTS TypeOK OneActiveGrant AttemptsBelongToCode
PROPERTIES ImplementsMailbox
