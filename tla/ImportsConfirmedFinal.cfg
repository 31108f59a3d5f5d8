CONSTANTS
    i1 = i1  i2 = i2  e1 = e1  e2 = e2  p1 = p1  p2 = p2  r1 = r1  r2 = r2
    plain = plain  referenced = referenced
    text1 = text1  text2 = text2  ref = ref  low = low  high = high
    Parse <- MCParse
    Text = {text1, text2}
    Provider = {"MTN_MOMO_RW"}
    Enabled = {"MTN_MOMO_RW"}
    MinimumSample = 1
    ReviewPercent = 50
    Reference = {ref}
    Value = {low, high}
    Unrecordable = {}
    Class = {"INCOME"}
    None = None
    Import = {i1}
    Payment = {p1, p2}
    Request = {r1, r2}
    Event = {e1, e2}
    Message = {plain, referenced}
    Patch <- MCPatch
    Lifetime = 1
    Lookback = 1
    MaximumAge = 1
    MaxAttempts = 2
    MaxTime = 2
SPECIFICATION FairSpec
PROPERTIES ConfirmedIsFinal
