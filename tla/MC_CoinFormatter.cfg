CONSTANTS
    cake = cake
    ada = ada
    q1 = q1
    q2 = q2
    coins <- MC_coins
    length = 3
    Days <- MC_Days
    Quotes = {q1, q2}
    MaxRows = 2
    Default = Default
    NoFile = NoFile
SPECIFICATION Spec
INVARIANTS
    TypeOK
    WindowIsDefaultsThenData
\* The script exits after saving or at an uncaught exception.
CHECK_DEADLOCK FALSE
