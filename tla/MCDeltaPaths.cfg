\* Every root without '+' or '%' against every short file path.
CONSTANTS
    Cwd <- MCCwd
    Roots <- MCRoots
    Names <- MCNames
SPECIFICATION Spec
INVARIANT TypeOK
INVARIANT ResolvedUnderRoot
