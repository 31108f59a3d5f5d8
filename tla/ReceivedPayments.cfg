CONSTANTS
    p1 = p1  p2 = p2  p3 = p3
    Payment = {p1, p3}
    Imported = {p3}
    Income = {i1, i2}
    Request = {r1, r2}
    Reference = {ref}
    Amount = {low, high}
    Class = {"UNCLASSIFIED", "INCOME"}
    None = None
SYMMETRY MCSymmetry
SPECIFICATION Spec
INVARIANTS TypeOK BookedAsReceived AnsweredAsRecorded ReferenceReceivedOnce
PROPERTIES ImplementsBook
