CONSTANTS
    None = None
    Credential = {c1, c2, c3}
    Request = {r1, r2}
    MaximumActive = 1
    Lifetime = 1
    MaxAttempts = 2
    MaxTime = 2
SYMMETRY MCSymmetry
SPECIFICATION Spec
INVARIANTS TypeOK ActiveWithinMaximum OutOfServiceForAReason
PROPERTIES ImplementsLine
