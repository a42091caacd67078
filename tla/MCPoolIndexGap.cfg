CONSTANTS
    CreationBlock = 1
    Step = 2
    Interval = 2
    MaxHead = 4
SPECIFICATION Spec
PROPERTIES
    IndexComplete
