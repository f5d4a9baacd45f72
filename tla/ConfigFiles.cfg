SPECIFICATION Spec
CONSTANTS
    Names = {a, b}
    Groups = {g}
    Handles = {x}
    Handlers = {h1, h2}
    Edits <- Off
    MaxByHand = 1
    None = None
SYMMETRY Symmetry
INVARIANTS Loadable RegistryIsDirectory FollowReaches
CONSTRAINT Apart
