\* Roots whose directory names contain '+' or '%'.
CONSTANTS
    Cwd <- MCCwd
    Roots <- MCRootsSpecial
    Names <- MCNames
SPECIFICATION Spec
INVARIANT ResolvedUnderRoot
