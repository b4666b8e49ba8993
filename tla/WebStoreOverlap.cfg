\* One tab whose page does not await its calls.
SPECIFICATION Spec
CONSTANTS
    Tabs = {t1}
    Calls = {c1, c2}
    Names = {a, b}
    Vals = {v1}
    Absent = Absent
    Empty = Empty
    None = None
    Overlap = TRUE
    Faults = {}
PROPERTY
    EventFollowsChange
