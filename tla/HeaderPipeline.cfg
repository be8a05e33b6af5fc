SPECIFICATION Spec
CONSTANTS
    accept = accept
    ctype = ctype
    cookie = cookie
    a = a
    b = b
    c = c
    m1 = m1
    m2 = m2
    NoValue = NoValue
    Mutators = {m1, m2}
    Names <- MCNames
    Parts <- MCParts
    ContentType = ctype
    Cookie = cookie
    BrowserDefaults <- BrowserOrder
    UserHeaders <- SingleValued
    RequestHeaders <- Overrides
    UserCookies <- MCUserCookies
    BodyTypes <- MCBodyTypes
    Assigned <- AcceptOrCookie
    MaxLen = 2
SYMMETRY Symmetry
INVARIANTS TypeOK OverrideWins WireOrderKept LatestValueSent MissingOnlyInBetween
