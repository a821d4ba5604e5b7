SPECIFICATION Spec
CONSTANTS
    pad1 = pad1
    pad2 = pad2
    Devices <- MCDevices
    Bindings <- MCBindings
    Keys <- MCKeys
    Buttons = {1}
    Pads = {pad1, pad2}
    MaxEventsPerFrame = 2
    QueueLimit = 2
SYMMETRY MCSymmetry
INVARIANT NothingStaysDown
INVARIANT EdgesTellChanges
CHECK_DEADLOCK FALSE
