\* a1 is configured by its path, b by its name.
CONSTANTS
    a1 = a1  a2 = a2  b = b
    Devices <- TwoDevices
    Names <- TwoNames
    NameOf <- TwoOwnNames
    ByName = {"b"}
    ByPath = {a1}
    MaxPlugs = 2
    MaxEvents = 0
    Failing = {}
SPECIFICATION Spec
PROPERTY DeviceByPathIsRead
CHECK_DEADLOCK FALSE
