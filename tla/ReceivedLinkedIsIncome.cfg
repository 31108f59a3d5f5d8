CONSTANTS
    p1 = p1  p2 = p2  p3 = p3
    Payment = {p1, p3}
    Imported = {p3}
    Income = {i1}
    Request = {r1}
    Reference = {}
    Amount = {low}
    Class = {"UNCLASSIFIED", "INCOME", "OTHER"}
    None = None
SPECIFICATION Spec
INVARIANTS LinkedIsIncome
