SPECIFICATION UninterruptedSpec
CONSTANTS
    Runs = {r1}
    Text = {x, y}
    NoText = NoText
    MaxSteps = 2
    MaxVersion = 2
PROPERTY RunIsMarked
CHECK_DEADLOCK FALSE
