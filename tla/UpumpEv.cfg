CONSTANTS
    Fds = {fd}
    OneShots = {timer}
    Repeats = {clock}
    NonBlocking = {fd, clock}
    Restarted = {timer}
    MaxBlockers = 2
SPECIFICATION Spec
INVARIANTS
    RunsAsAsked
    CountExact
