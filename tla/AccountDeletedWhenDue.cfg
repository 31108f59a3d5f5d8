CONSTANTS
    None = None
    User = {u1}
    Session = {s1, s2}
    Request = {r1}
    Grace = 1
    BatchLimit = 1
    MaxTime = 2
SPECIFICATION Spec
PROPERTIES DeletedWhenDue
