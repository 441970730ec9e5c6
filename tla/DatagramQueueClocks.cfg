\* A clock's datagram that is re-initialised at any time and the datagram of a
\* state machine, which share the frames of the first of two devices.
SPECIFICATION Spec
CONSTANTS
    dom = dom
    clk = clk
    fsm = fsm
    Datagrams = {clk, fsm}
    Cyclic = {clk}
    Clocks = {clk}
    NumDevices = 2
    DeviceIndex <- PairDeviceIndex
    Kind <- PairKind
    Size <- UnitSize
    FrameCapacity = 2
    IndexModulus = 3
    Timeout = 1
    MaxWire = 1
INVARIANTS QueueMembership OwnAnswer
PROPERTY LifeSpec
