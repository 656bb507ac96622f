\* Four validators, one of them faulty, one collector, one block.
CONSTANTS
    Honest = {v1, v2, v3}
    Faulty = {f1}
    MaxIndex = 0
    Collector = {v1}
    MaxFailures = 1
SPECIFICATION Spec
SYMMETRY Symmetry
CONSTRAINT RoundsThatMatter
CHECK_DEADLOCK FALSE
INVARIANTS
    LocalAlfpIsValid
