---------------------------- MODULE MCDeltaPaths ----------------------------
EXTENDS DeltaPaths

\* The working directory /w.
MCCwd == <<"/", "w">>

\* Table roots: relative, absolute, "./"-relative and file:// URIs, each
\* with a body of up to three characters that starts with a path segment,
\* so with and without trailing and doubled slashes,
RootsOver(chars) ==
    {p \o b : p \in {<<>>, <<"/">>, DotSlash, FileScheme \o <<"/">>},
              b \in {s \in BoundedSeq(chars, 3) : s # <<>> /\ s[1] = "a"}}

\* and the empty path.
MCRoots == RootsOver({"a", "/"}) \cup {<<>>}

\* Roots whose directory names contain '+' or '%'.
MCRootsSpecial == RootsOver({"a", "/", "+", "%"})

\* Relative paths of data files: one or two characters, spaces and '%'
\* among them, directories included.
MCNames == {n \in BoundedSeq({"a", " ", "%", "/"}, 2) : n # <<>> /\ n[1] # "/"}
=============================================================================
