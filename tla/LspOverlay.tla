----------------------------- MODULE LspOverlay -----------------------------
(***************************************************************************)
(* The transient records of the language server (lsp_overlay.cpp): what a  *)
(* run with the approximate fallback command found in a saved file, kept   *)
(* under its absolute path until another run of the file replaces it.  And *)
(* the two ways the server reads them together with the database.          *)
(***************************************************************************)
EXTENDS Database, SourcePaths

CONSTANT
    Emitted(_, _)   \* the records of a version of a source file, without its variant

VARIABLES
    configured,     \* the server's --variant option, 0 if not given
    overlay         \* absolute path -> the version of the file it was made from

HasOverlay(path) == path \in DOMAIN overlay

\* LspOverlay::replace and LspOverlay::erase
Replaced(path, version) ==
    [p \in DOMAIN overlay \cup {path} |-> IF p = path THEN version ELSE overlay[p]]

Erased(path) == [p \in DOMAIN overlay \ {path} |-> overlay[p]]

\* Records of an overlay have the variant their reader asks for.
OverlayRecords(path, variant) ==
    IF ~HasOverlay(path) THEN {}
    ELSE {[r EXCEPT !.variant = variant, !.path = path] : r \in Emitted(path, overlay[path])}

\* Unlike in the database no name is a pattern, and the variant is ignored.
MatchesOptions(o, r) ==
    /\ Equals(o.symbol, r.symbol)
    /\ Equals(o.path, r.path)
    /\ Equals(o.context, r.context)
    /\ Equals(o.kind, r.kind)
    /\ Equals(o.usr, r.usr)
    /\ Equals(o.local, r.local)
    /\ Filtered(o.record, r)

\* In the order of emission: symbols before uses.
EmissionKey(r) == <<r.record, r.line, r.column, r.symbol, r.kind, r.action>>

OverlayQuery(path, variant, o) ==
    Ordered({r \in OverlayRecords(path, variant) : MatchesOptions(o, r)}, EmissionKey)

OverlayFindAt(path, line, column) ==
    Ordered({r \in OverlayRecords(path, configured) : Covers(r, line, column)}, EmissionKey)

-----------------------------------------------------------------------------
\* semindexQueryService: records of one identity are one; without a stable
\* identity the path, the context and the scope tell them apart.
IdentityKey(r) ==
    <<r.variant, r.symbol, r.kind, r.usr>>
        \o (IF r.usr = 0 THEN <<r.path, r.context, r.local>> ELSE <<>>)

Collected(records, r) ==
    IF \E i \in DOMAIN records : IdentityKey(records[i]) = IdentityKey(r) THEN records
    ELSE Append(records, r)

\* SemindexQueryService::recordsAt, for one of the names of the file.
AtName(name, line, column, withOverlay) ==
    LET above == IF withOverlay THEN OverlayFindAt(name, line, column) ELSE <<>>
        stored == FindAt(edition, name, IF configured = 0 THEN None ELSE configured, line, column)
    IN IF above # <<>> THEN Answer(FoldLeft(Collected, <<>>, above))
       ELSE [stored EXCEPT !.rows = FoldLeft(Collected, <<>>, @)]
=============================================================================
