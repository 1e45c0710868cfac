SPECIFICATION LifecycleSpec
CONSTANTS
    t1 = t1
    t2 = t2
    c1 = c1
    c2 = c2
    h1 = h1
    h2 = h2
    p1 = p1
    p2 = p2
    None = None
    Tasks = {t1}
    Clarifications = {c1, c2}
    TaskOf <- OneTask
    ProductionTasks = {}
    ClosableTasks = {t1}
    Handlers = {h1, h2}
    Pollers = {p1, p2}
    DueHours = 2
    ReminderHours = 1
    BatchSize = 2
    MaxDeaths = 1
SYMMETRY Symmetry
INVARIANTS
    LifecycleTypeOK
    AnswerIsExclusive
