SPECIFICATION Spec
CONSTANTS
    PAGE_SIZE = 4
    Version = {1, 2}
    Commit = {c1, c2}
    MAIN_LIBRARY = main
    Release = {main, npu}
    Other = other
    Notes <- NoteSections
    Image <- Images
    OwnImage <- OwnImages
    Offset = {0, 2}
    Found <- Directories
    None = None
INVARIANTS
    AcceptedIsCurrent
    SymbolsResolve
    LoadableLayout
    ReleaseIsComplete
CONSTRAINTS
    BuiltOverBuilt
    VendorsOfReleases
SYMMETRY Revisions
