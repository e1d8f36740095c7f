SPECIFICATION Spec
CONSTANTS
    Dcfebs = {1, 2}
    CounterRange = 3
    WordRange = 4
    PacketRange = 3
    MaxRepeats = 3
    MaxNoise = 1
    MaskValues = 3
    Files = {"A", "B"}
    Sessions <- MCSessions
INVARIANTS
    BenchTypeOK
    PassedMeansGood
    TestValuesAreRemoved
    ScansAreClosed
PROPERTIES
    GoodBoardsPass
    PressedIsPerformed
