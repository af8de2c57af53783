\* A ring of one record and two connects.  A command that has exited stops:
\* no deadlock check.
SPECIFICATION Spec
CONSTANTS
    onHost = onHost
    inBox = inBox
    agent = agent
    heir = heir
    a1 = a1
    a2 = a2
    None = None
    Tasks <- MCTasks
    Proc <- MCProc
    Running <- MCRunning
    Sensors <- MCSensors
    Addresses <- MCAddresses
    Agents = {a1, a2}
    RingSize = 1
    MaxConnects = 2
    MaxExits = 1
INVARIANTS
    FlowsAreTheConnections
    QuietCaptureIsComplete
    ClaimComesFromThatPid
    IntervalsAreTheKernels
PROPERTIES
    CaptureEnds
CHECK_DEADLOCK FALSE
