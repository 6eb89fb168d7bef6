SPECIFICATION MCSpec
CONSTANTS
    Jobs <- MCJobs
    Orders <- MCOrders
    MaxIters = 8
    Box <- MCBox
    Batches <- MCBatches
    PoolOrders <- MCOrders
    NumWorkers = 2
    MaxBatches = 1
    PoolBox <- MCBox
    Versions <- MCVersions
    MaxEdits = 2
    MaxCommands = 2
    Programs <- MCPrograms
    MaxTasks = 3
    Channels = {"c"}
    Pages = {"p", "q"}
    Frames = 1
INVARIANTS ContractsKept PoolSound  MailInOrder
PROPERTIES LoopAdvances AllAnswered TasksComplete
CHECK_DEADLOCK FALSE
