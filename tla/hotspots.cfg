CONSTANTS
    Tids = {t1, t2}
    Layouts <- MCLayouts
    Reloc <- MCReloc
    Main = "main"
    Pcs <- MCPcs
    Samples <- MCSamples
    TopKs = {1, 2}
    Capacities = {1, 2}
    MinSamples = 1
    MinLatency = 1
    MaxSamples = 3
    Records <- MCRecords
    Garbage = {0, 9}
    WordSize = 16
    MaxRecords = 3
    DataSize = 7
    AuxSize = 3
    AuxWords = 4
    OtherWords = {2}
    PacketSizes = {1, 2}
    MaxPosted = 4
    MaxAux = 6
SPECIFICATION MCSpec
SYMMETRY TidSymmetry
CHECK_DEADLOCK FALSE
INVARIANT NeverGarbled
INVARIANT EveryRecordOnce
INVARIANT AuxGivenBack
INVARIANT SampleOfOneRecord
INVARIANT ExecWithinTotal
INVARIANT InStep
INVARIANT DominatorsKept
INVARIANT TargetsAccounted
INVARIANT SameInstruction
INVARIANT SamplesCarried
INVARIANT VaCountsAgree
