SPECIFICATION Spec
CONSTANTS
    Dirs = {home, docs, disk, net}
    Limit = 3
    home = home
    docs = docs
    disk = disk
    net = net
INVARIANTS
    WithinLimit
    EveryMoveMoves
PROPERTY
    IsATimeline
