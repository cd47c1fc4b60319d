SPECIFICATION FairSpec
CONSTANTS
    HistoryLimit = 2
    QueueLimit = 2
    MaxSeq = 3
    MaxBatch = 2
    MaxBreaks = 1
PROPERTIES
    AlwaysCatchesUp
