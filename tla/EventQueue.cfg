CONSTANTS
    tick = tick
    io = io
    once = once
    exit = exit
    NoEvent = NoEvent
    Events = {tick, io, once, exit}
    Priority <- MCPriority
    Managed <- MCManaged
    ExitEvents <- MCExitEvents
    MaxTick = 1
SPECIFICATION Spec
INVARIANTS debugVerify ScheduledIffLinked WalksStayAlive
