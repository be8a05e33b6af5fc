SPECIFICATION Spec
CONSTANTS
    Threads = {t1, t2}
    Names = {a, b}
    UserValues = {u1}
    ServerValues = {s1}
    NoValue = NoValue
    NoName = NoName
SYMMETRY Symmetry
INVARIANT ResponseCookiesStayOut
