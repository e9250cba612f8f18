SPECIFICATION Spec
CONSTANTS
    node = node
    product = product
    src1 = src1
    src2 = src2
    map = map
    none = none
    heat = heat
    survey = survey
    review = review
    Order <- MCOrder
    Kind <- MCKind
    Title <- MCTitle
    Ascii = {heat}
    MaxSlug = 2
    NoFolder <- none
    Inputs <- MCInputs
    MaxVersions = 1
    MaxExports = 3
    MaxTouches = 1
    MaxFailures = 1
CHECK_DEADLOCK FALSE
INVARIANTS
    VaultInv
    ReportedNoteIsCurrent
PROPERTIES
    UserBytesSurvive
