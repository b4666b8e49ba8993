\* Two tabs, no faults: one boots or writes while the other's flush is on its way.
SPECIFICATION Spec
CONSTANTS
    Tabs = {t1, t2}
    Calls = {c1}
    Names = {a, b}
    Vals = {v1}
    Absent = Absent
    Empty = Empty
    None = None
    Overlap = FALSE
    Faults = {}
PROPERTY
    NoForeignOverwrite
