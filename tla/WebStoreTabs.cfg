\* Two tabs of one origin, one call each, one file.
SPECIFICATION FairSpec
CONSTANTS
    Tabs = {t1, t2}
    Calls = {c1}
    Names = {a}
    Vals = {v1}
    Absent = Absent
    Empty = Empty
    None = None
    Overlap = FALSE
    Faults = {"fail", "trap", "reload", "clear", "deny"}
INVARIANTS
    BehindTabIsWarned
    UnwarnedTabIsCurrent
PROPERTY
    BehindTabCatchesUp
