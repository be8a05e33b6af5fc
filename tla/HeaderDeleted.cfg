SPECIFICATION Spec
CONSTANTS
    accept = accept
    ctype = ctype
    cookie = cookie
    a = a
    b = b
    c = c
    m1 = m1
    m2 = m2
    NoValue = NoValue
    Mutators = {m1}
    Names <- MCNames
    Parts <- MCParts
    ContentType = ctype
    Cookie = cookie
    BrowserDefaults <- NoDefaults
    UserHeaders <- SingleValued
    RequestHeaders <- Overrides
    UserCookies <- MCUserCookies
    BodyTypes <- MCBodyTypes
    Assigned <- AcceptOrCookie
    MaxLen = 2
INVARIANT DeletedNotSent
