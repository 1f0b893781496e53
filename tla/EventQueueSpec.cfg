CONSTANTS
    tick = tick
    io = io
    once = once
    exit = exit
    NoEvent = NoEvent
    Events = {tick, io, once, exit}
    Priority <- MCPriority
    Managed <- MCManaged
    ExitEvents <- MCExitEvents
    MaxTick = 2
SPECIFICATION Spec
INVARIANTS QueueOrdered NoPastEvents SquashedOnlyQueued NoUseAfterFree
PROPERTIES TimeMonotone
