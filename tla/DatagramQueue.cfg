\* Two devices (redundancy), the domain datagram sent on the second and a
\* state machine on the first one; frames that hold one datagram, an index that
\* wraps after three headers; the thread keeps calling receive and send.
SPECIFICATION FairSpec
CONSTANTS
    dom = dom
    clk = clk
    fsm = fsm
    Datagrams = {dom, fsm}
    Cyclic = {dom}
    Clocks = {}
    NumDevices = 2
    DeviceIndex <- PairDeviceIndex
    Kind <- PairKind
    Size <- UnitSize
    FrameCapacity = 1
    IndexModulus = 3
    Timeout = 1
    MaxWire = 1
INVARIANTS QueueMembership OwnAnswer UniqueIndex
PROPERTIES SendDrains ReceiveExpires Completion
