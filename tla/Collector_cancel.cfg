CONSTANTS
    None = None
    Task = {t1}
    Scheduled = {}
    Patient = {}
    StdWorker = {w1}
    BgWorker = {}
    QueueSize = 1
SPECIFICATION Spec
SYMMETRY Symmetry
INVARIANTS NoSendOnClosedOutput
\* A stopped collector takes no more steps.
CHECK_DEADLOCK FALSE
