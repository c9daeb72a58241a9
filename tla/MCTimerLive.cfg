CONSTANTS
    s1 = s1
    s2 = s2
    h1 = h1
    alarm = alarm
    Soft = {s1, s2}
    Hard = {}
    ThreadTimer = alarm
    None = None
    TickRange = 14
    Periods = {1, 2}
    MaxLate = 1
    Disciplined = TRUE
SPECIFICATION FairSpec
PROPERTIES SoftTimersFire
