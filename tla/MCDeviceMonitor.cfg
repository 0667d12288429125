\* a1 and a2 share a name, b has its own.
CONSTANTS
    a1 = a1  a2 = a2  b = b
    Devices <- ThreeDevices
    Names <- TwoNames
    NameOf <- TheirNames
    ByName <- TwoNames
    ByPath = {}
    MaxPlugs = 2
    MaxEvents = 2
    Failing = {a1}
SPECIFICATION Spec
INVARIANTS TypeOK TableHasReceivers SentTwiceOnlyLate OneLateSend NamedDeviceHasReceiver
PROPERTY NamedDeviceIsRead
CHECK_DEADLOCK FALSE
