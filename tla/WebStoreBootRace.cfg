\* One tab whose page sends two calls before the engine is up.
SPECIFICATION Spec
CONSTANTS
    Tabs = {t1}
    Calls = {c1, c2}
    Names = {a}
    Vals = {v1}
    Absent = Absent
    Empty = Empty
    None = None
    Overlap = TRUE
    Faults = {}
INVARIANT
    OneTree
