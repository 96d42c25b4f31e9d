SPECIFICATION Spec
CONSTANTS
    c1 = c1
    c2 = c2
    i1 = i1
    i2 = i2
    CPUs = {c1, c2}
    BootCpu = c1
    Procs = {p1, p2, p3}
    InitProc = p1
    idle_tasks <- MCIdleTasks
    NoCpu = NoCpu
    NoTask = NoTask
    ShutdownCallers = {p1}
INVARIANTS
    QueueExact
