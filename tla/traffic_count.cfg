SPECIFICATION Spec
CONSTANTS
    Dir = {up, down}
    Config = {c1, c2}
    MaxBytes = 3
    MaxPeriod = 2
    SaveOutcomes = {"saved", "failed", "lost"}
    BootTimeFails = TRUE
    None = None
SYMMETRY Symmetry
INVARIANT NeverOvercounts
PROPERTY TotalNeverFalls
