CONSTANTS
    a = a
    b = b
    c = c
    d = d
    StepIds <- AllIds
    Plans <- MCPlans
SPECIFICATION Spec
CHECK_DEADLOCK FALSE
INVARIANTS
    TypeOK
    LoopInvariant
    WaveIsNextWave
    WavesAreLevels
    LeftOutIsBlocked
PROPERTY Terminates
