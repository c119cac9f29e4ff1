\* Two windows that edit twice between them.
CONSTANTS
    Windows = {w1, w2}
    Names = {"a", "b"}
    BadName = ""
    Values = {1, 9}
    Ruled = {1}
    Blank = Blank
    Unparsable = Unparsable
    Parse <- MCParse
    NoText = NoText
    Sample <- MCSample
    Earlier <- MCEarlier
    Imports <- MCImports
    MaxImport = 2
    MaxRows = 2
    MaxBatch = 1
    MaxFields = 1
    MaxRevision = 2
    Fits <- MCFits
    Nothing = Nothing
    Foreign = Foreign
    MaxEdits = 2
    None = None
SPECIFICATION FairSpec
INVARIANTS
    RevisionNamesContent
    Restorable
    StatusIsHonest
PROPERTIES
    OverwritesOnlyWhatItSaw
    InputKept
    SavesEnd
\* Authors may stop editing.
CHECK_DEADLOCK FALSE
