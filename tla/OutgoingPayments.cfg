CONSTANTS
    low = low  high = high  terms = terms  ref = ref  declined = declined
    Terms = {terms}
    Reference = {ref}
    Failure = {declined}
    None = None
    Amount = {low, high}
    Result <- MCResult
    Transaction = {t1, t2}
    Request = {r1, r2}
    ClientEvent = {c1, c2}
    Key = {k1}
SYMMETRY MCSymmetry
SPECIFICATION Spec
INVARIANTS TypeOK LedgerExplainsStatus DetailIsExplained ResultsAreKept CreatedAsAsked ReferenceSettlesOne
PROPERTIES ImplementsLifecycle
