SPECIFICATION FairLifecycleSpec
CONSTANTS
    t1 = t1
    t2 = t2
    c1 = c1
    c2 = c2
    h1 = h1
    h2 = h2
    p1 = p1
    p2 = p2
    None = None
    Tasks = {t1, t2}
    Clarifications = {c1, c2}
    TaskOf <- TwoTasks
    ProductionTasks = {t2}
    ClosableTasks = {t1}
    Handlers = {h1}
    Pollers = {p1}
    DueHours = 2
    ReminderHours = 1
    BatchSize = 2
    MaxDeaths = 1
PROPERTY
    OverdueIsResolved
