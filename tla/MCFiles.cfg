SPECIFICATION Spec
CONSTANTS
    Paths <- MCPaths
    Files = {f, g, l}
    Dangling = {l}
    Strangers = {l}
    Thrown <- MCThrown
    Indices = {0, 1}
    None = None
    Children = {child}
    Self = self
    Here = "home"
    NewNames <- MCNewNames
    Selection = {"a", "b"}
    Substitutions <- MCSubstitutions
INVARIANTS
    NothingLost
    Restorable
SYMMETRY Interchangeable
CONSTRAINT SmallTrash
PROPERTY
    OneNewName
