\* Batches of up to three changes.
CONSTANTS
    p1 = p1
    p2 = p2
    l1 = l1
    l2 = l2
    Keys <- MCKeys
    Tables = {"products", "lines"}
    Fields <- MCFields
    TableOf <- MCTableOf
    FieldsOf <- MCFieldsOf
    Type <- MCType
    Required = {"product"}
    Accepts <- MCAccepts
    Captures <- MCCaptures
    MaxRecords = 3
    Money = Money
    Whole = Whole
    Blank = Blank
    Changes <- MCChanges
    Snapshots <- MCSnapshots
    InOrder <- MCInOrder
    Limit = 3
    MaxNodes = 8
    MaxDepth = 4
    MaxRead = 3
    MaxFormulas = 4
    Expressions <- MCExpressions
    Formularies <- MCFormularies
    Policies <- MCPolicies
    MaxBatch = 3
SPECIFICATION Spec
INVARIANTS
    Reopens
    FormulasMeanWhatTheySay
    HiddenIsUnread
PROPERTIES
    CapturesStand
    ImplementsSet
