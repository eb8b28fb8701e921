SPECIFICATION Spec
CONSTANTS
    Windows = {w1, w2}
    Dirs = {home, disk, photos}
    home = home
    disk = disk
    photos = photos
    ParentOf <- MCParentOf
    Below <- MCBelow
    Mounts = {disk}
    Ids = {"name"}
    Sides = {top, left}
    None = None
    MaxOpen = 3
    MaxCalls = 1
SYMMETRY Interchangeable
INVARIANTS
    TypeOK
    CountIsRight
    QuitsWithTheLast
    NoStaleWindow
