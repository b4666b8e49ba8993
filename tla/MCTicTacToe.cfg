SPECIFICATION Spec
CONSTANTS
    Procs = {p1, p2}
    Squares <- SmallBoard
    Lines <- SmallLines
    None = None
    Torn = Torn
    Crashes = TRUE
INVARIANTS TypeOK JudgedRight TimeTravelAgrees
PROPERTY PlaysOneLegalMove
SYMMETRY Alike
