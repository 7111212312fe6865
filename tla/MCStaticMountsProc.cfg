SPECIFICATION Spec
CONSTANTS
    r1 = r1
    r2 = r2
    r3 = r3
    None = None
    OldRoot = ".landlockd-oldroot"
    Runs <- MCRuns
    Names <- MCNames
    Jobs <- MCJobs
    Disks <- MCDisks
    Kernels <- MCKernels
INVARIANT
    ProcInRoot
CHECK_DEADLOCK FALSE
