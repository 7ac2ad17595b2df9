CONSTANTS
    Configs <- PlainConfigs
    MaxDatagrams = 2
    MaxStops = 1
SPECIFICATION Spec
INVARIANT RunningIsOpen
CHECK_DEADLOCK FALSE
