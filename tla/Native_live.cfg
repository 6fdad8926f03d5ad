SPECIFICATION FairSpec
CONSTANTS
    Managers = {m1, m2}
    Commands = {"up", "down", "restart", "status"}
    Daemons = {d1}
    Strangers = {s1}
    Pids = {p1}
    Ticks = {t1}
    MaxBoot = 1
    MaxFaults = 1
    None = None
PROPERTIES
    CommandsEnd
