\* One tab, one call at a time, and OPFS operations that fail.
SPECIFICATION Spec
CONSTANTS
    Tabs = {t1}
    Calls = {c1}
    Names = {a, b}
    Vals = {v1}
    Absent = Absent
    Empty = Empty
    None = None
    Overlap = FALSE
    Faults = {"fail"}
INVARIANT
    AcknowledgedIsDurable
