----------------------------- MODULE DeltaPaths -----------------------------
(***************************************************************************)
(* How DeltaSnapshot turns the path a user passes to delta_scan into the   *)
(* path of each data file (src/src/functions/delta_scan.cpp): the          *)
(* constructor stores ToDeltaPath(path) as the list's only path;           *)
(* VisitCallback joins that root with the relative path the kernel hands   *)
(* over, url_decodes the result and converts it with ToDuckDBPath.         *)
(* Strings are sequences of one-character strings over a small alphabet;   *)
(* character codes matter only for the characters url_decode can produce.  *)
(***************************************************************************)
EXTENDS Naturals, Sequences, SequencesExt

CONSTANTS
    Cwd,      \* LocalFileSystem::GetWorkingDirectory(), no trailing '/'
    Roots,    \* the paths users pass to delta_scan
    Names     \* the decoded relative paths of the table's data files

VARIABLES
    user_path,  \* the argument of the DeltaSnapshot constructor
    path,       \* GetPath(): the list's only path, <<>> before construction
    name,       \* the decoded relative path of the file last visited
    resolved    \* resolved_files.back() after that VisitCallback

vars == <<user_path, path, name, resolved>>

FileScheme == <<"f", "i", "l", "e", ":", "/", "/">>
DotSlash == <<".", "/">>

\* Characters that a relative path in the log carries percent-encoded, with
\* their two hex digits; the kernel hands the path over as the log has it.
Escape == (" " :> <<"2", "0">>) @@ ("%" :> <<"2", "5">>)
Encode(n) == FlattenSeq([i \in 1..Len(n) |->
                 IF n[i] \in DOMAIN Escape THEN <<"%">> \o Escape[n[i]]
                 ELSE <<n[i]>>])

\* sscanf("%2x"): the value of a hex digit, restricted to the digits that
\* occur in the model's alphabets (other characters are not hex digits).
HexVal == ("0" :> 0) @@ ("2" :> 2) @@ ("5" :> 5) @@ ("B" :> 11) @@ ("a" :> 10)

\* static_cast<char>(ii): "?" stands for every character outside the
\* alphabet of the model.
Chr(n) == CASE n = 32 -> " " [] n = 37 -> "%" [] n = 43 -> "+"
            [] n = 47 -> "/" [] n = 97 -> "a" [] OTHER -> "?"

\* Every character an uninitialized unsigned int can be cast to.
AnyChar == {" ", "%", "+", "/", "a", "?"}

\* sscanf(t, "%x", &ii) then static_cast<char>(ii) for the (at most two
\* character) string t: leading white space is skipped, then the longest
\* run of hex digits is read; when there is none sscanf assigns nothing and
\* ii is read uninitialized (undefined behaviour: any character).
Sscanf(t) ==
    LET k == SelectInSeq(t, LAMBDA c : c # " ")
        u == IF k = 0 THEN <<>> ELSE SubSeq(t, k, Len(t))
        e == SelectInSeq(u, LAMBDA c : c \notin DOMAIN HexVal)
        d == IF e = 0 THEN u ELSE SubSeq(u, 1, e - 1)
    IN IF d = <<>> THEN AnyChar
       ELSE {Chr(FoldLeft(LAMBDA acc, c : 16 * acc + HexVal[c], 0, d))}

\* A plausible bug: after an escape only one hex digit is skipped.
RECURSIVE DecodeSkipOne(_)
DecodeSkipOne(s) ==
    IF s = <<>> THEN {<<>>}
    ELSE IF Head(s) = "%"
         THEN {<<c>> \o r : c \in Sscanf(SubSeq(s, 2, IF Len(s) < 3 THEN Len(s) ELSE 3)),
                            r \in DecodeSkipOne(SubSeq(s, 3, Len(s)))}
         ELSE {<<Head(s)>> \o r : r \in DecodeSkipOne(Tail(s))}

\* The loop of url_decode: on '%' the next two characters (fewer at the end
\* of the string) are scanned as hex and skipped; every result the
\* undefined behaviour of Sscanf allows.
RECURSIVE Decode(_)
Decode(s) ==
    IF s = <<>> THEN {<<>>}
    ELSE IF Head(s) = "%"
         THEN {<<c>> \o r : c \in Sscanf(SubSeq(s, 2, IF Len(s) < 3 THEN Len(s) ELSE 3)),
                            r \in Decode(SubSeq(s, 4, Len(s)))}
         ELSE {<<Head(s)>> \o r : r \in Decode(Tail(s))}

\* url_decode: '+' becomes ' ' before the escapes are decoded.
UrlDecode(input) == Decode(ReplaceAll(input, "+", " "))

ToDuckDBPath(raw) ==
    IF IsPrefix(FileScheme, raw) THEN SubSeq(raw, 8, Len(raw)) ELSE raw

\* LocalFileSystem::JoinPath (DuckDB): a, the separator, b.
JoinPath(a, b) == a \o <<"/">> \o b

\* path[path.size() - 1]: for an empty path the index wraps to SIZE_MAX
\* and the read is out of range (undefined behaviour): any character.
LastChar(p) == IF p = <<>> THEN AnyChar ELSE {p[Len(p)]}

\* A plausible bug: the trailing slash the kernel expects is not added.
ToDeltaPathNoSlash(raw) ==
    IF IsPrefix(DotSlash, raw)
    THEN {FileScheme \o JoinPath(Cwd, SubSeq(raw, 3, Len(raw)))}
    ELSE {raw}

\* Every result ToDeltaPath(raw) can have.
ToDeltaPath(raw) ==
    LET p == IF IsPrefix(DotSlash, raw)
             THEN FileScheme \o JoinPath(Cwd, SubSeq(raw, 3, Len(raw)))
             ELSE raw
    IN {IF c # "/" THEN Append(p, "/") ELSE p : c \in LastChar(p)}

\* StringUtil::RTrim(s, "/"): every trailing '/' removed.
RTrimSlash(s) == SubSeq(s, 1, SelectLastInSeq(s, LAMBDA c : c # "/"))

\* The DeltaSnapshot constructor: MultiFileList({ToDeltaPath(path)}).
DeltaSnapshot ==
    \E r \in Roots : \E p \in ToDeltaPath(r) :
        /\ user_path' = r /\ path' = p
        /\ name' = <<>> /\ resolved' = <<>>

\* The path part of VisitCallback for a file whose log entry carries the
\* encoded relative path Encode(n).  The kernel cannot open an empty table
\* root, so no file of it is ever visited.
VisitCallback ==
    /\ path # <<>>
    /\ \E n \in Names :
         \E d \in UrlDecode(RTrimSlash(path) \o <<"/">> \o Encode(n)) :
            /\ name' = n /\ resolved' = ToDuckDBPath(d)
            /\ UNCHANGED <<user_path, path>>

\* Before the constructor ran.
NoRoot == "none"

Init == user_path = NoRoot /\ path = <<>> /\ name = <<>> /\ resolved = <<>>

Next == DeltaSnapshot \/ VisitCallback

Spec == Init /\ [][Next]_vars

-----------------------------------------------------------------------------

Chars == AnyChar \cup {".", "f", "i", "l", "e", ":", "w", "0", "2", "5", "B"}

\* The list's path ends in '/' after construction, as the kernel requires,
\* unless it is empty (before construction, or the out-of-range read of an
\* empty user path happened to yield '/').
TypeOK ==
    /\ user_path \in Roots \cup {NoRoot}
    /\ path = <<>> \/ (path \in Seq(Chars) /\ path[Len(path)] = "/")
    /\ name \in Names \cup {<<>>}
    /\ resolved \in Seq(Chars)

\* The file system location a user path names: "./x" relative to the
\* working directory, a file:// URI its local path, anything else itself.
Location(r) ==
    CASE IsPrefix(DotSlash, r) -> JoinPath(Cwd, SubSeq(r, 3, Len(r)))
      [] IsPrefix(FileScheme, r) -> SubSeq(r, 8, Len(r))
      [] OTHER -> r

\* A path with each run of '/' collapsed to one, as the file system reads it.
Canon(s) == FoldLeft(LAMBDA acc, c : IF c = "/" /\ acc # <<>> /\ acc[Len(acc)] = "/"
                                      THEN acc ELSE Append(acc, c), <<>>, s)

\* Every file VisitCallback resolves is the file the log names inside the
\* directory the user passed to delta_scan: ToDeltaPath, the join with the
\* kernel's relative path, url_decode and ToDuckDBPath together neither
\* lose nor alter a character of the root or of the decoded file name --
\* the empty root included, whatever character ToDeltaPath's out-of-range
\* read yields.
ResolvedUnderRoot ==
    name # <<>> => Canon(resolved) = Canon(Location(user_path) \o <<"/">> \o name)

=============================================================================
