SPECIFICATION FairSpec
CONSTANTS
    MAXMAP = 8
    LOW = 1
    KernelPages <- MCKernelPages
    ModulePages <- MCModulePages
    MaxPages = 4
INVARIANT NoRunMissed
PROPERTY CountDriftConstant SearchEnds ImplementsPagePool
CHECK_DEADLOCK FALSE
