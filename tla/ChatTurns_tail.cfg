SPECIFICATION UninterruptedSpec
CONSTANTS
    Turns = {t1}
    MaxEvents = 1
PROPERTY TailLearnsOfTheEnd
CHECK_DEADLOCK FALSE
