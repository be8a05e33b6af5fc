SPECIFICATION Spec
CONSTANTS
    NoName = NoName
    NoFamily = NoFamily
    Names <- MCNames
    NormOf <- MCNormOf
    Sources <- MCSources
    Preferred = "curl_cffi"
    Offered <- MCOffered
    Tagged <- MCTagged
    Variants <- MCVariants
    FamilyOf <- MCFamilyOf
    Answers <- MCAnswers
    Length <- MCLength
    Position <- MCPosition
    InitialTable <- Shipped
    InitialLiteral <- BrowserTypeLiteral
    Jobs <- MCJobs
    MaxJobs = 2
INVARIANTS TypeOK ListedNamesResolve StoredOnce DroppedNamesResolve TypesInSync
PROPERTY AugmentKeepsNames
