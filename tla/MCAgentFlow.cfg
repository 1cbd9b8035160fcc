\* Two operations, one slot that is a drop or a reveal, and a stored value.
SPECIFICATION FairSpec
CONSTANTS
    i0 = i0
    Ids = {i0, i1}
    Names = {n1}
    SessionNames = {}
    Calls = {c1, c2}
    MaxFailures = 1
    Past <- ValueThere
    None = None
INVARIANTS TypeOK RecordKept NoSilentLoss AnswersTrue
PROPERTIES EveryCallReturns
\* Identifiers are used up, so runs end.
CHECK_DEADLOCK FALSE
