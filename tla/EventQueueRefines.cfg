CONSTANTS
    tick = tick
    io = io
    once = once
    exit = exit
    NoEvent = NoEvent
    Events = {tick, once, exit}
    Priority <- MCPriority
    Managed <- MCManaged
    ExitEvents <- MCExitEvents
    MaxTick = 2
SPECIFICATION Spec
PROPERTIES ImplementsQueue
