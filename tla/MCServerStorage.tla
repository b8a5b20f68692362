---------------------------- MODULE MCServerStorage ----------------------------
(* Instances of ServerStorage for TLC.                                     *)
EXTENDS ServerRegister, TLC

CONSTANTS s1, s2, s3, manifest, meta, corrupt, blob, orphan, root, blobs, quarantine, v1, v2

MCFile == {manifest, meta, corrupt, blob, orphan}
MCDir == {root, blobs, quarantine}
MCParent ==
    (manifest :> root) @@ (meta :> root) @@ (corrupt :> root) @@ (blob :> blobs)
        @@ (orphan :> quarantine) @@ (blobs :> root) @@ (quarantine :> root)

Req(op, p) ==
    [op |-> op, path |-> p, dest |-> manifest, overwrite |-> FALSE, body |-> v1,
     ifNoneMatch |-> FALSE, ifMatch |-> Nothing, deep |-> FALSE]
Get(f) == Req("get", f)
Put(f, v) == [Req("put", f) EXCEPT !.body = v]
Create(f, v) == [Put(f, v) EXCEPT !.ifNoneMatch = TRUE]
Replace(f, old, v) == [Put(f, v) EXCEPT !.ifMatch = old]
Delete(f) == Req("delete", f)
MoveTo(f, g) == [Req("move", f) EXCEPT !.dest = g]
CopyTo(f, g) == [Req("copy", f) EXCEPT !.dest = g, !.overwrite = TRUE]
MkDir(d) == Req("mkdir", d)
PropFind(p, deep) == [Req("propfind", p) EXCEPT !.deep = deep]
ListB == Req("list", blobs)

\* The conditional PUTs of clients that have read nothing, v1 or v2.
PutsOf(f) == {Create(f, v1), Replace(f, v1, v2), Replace(f, v2, v1)}

ManifestRequests ==
    PutsOf(manifest) \cup
        {Get(manifest), Delete(manifest),
         MoveTo(manifest, corrupt), MoveTo(corrupt, manifest), CopyTo(manifest, corrupt)}
MetaRequests == PutsOf(meta) \cup {Get(meta)}
VaultRequests ==
    {Put(blob, v1), Delete(blob), ListB, MkDir(quarantine), MoveTo(blob, orphan), Delete(orphan),
     PropFind(quarantine, TRUE), PropFind(blob, FALSE), Get(blob)}

\* Requests for the manifest; for blobs and directories; uploads that do not
\* come through, fail or do not fit on the disk, and a server told to stop.
VaultLoad ==
    {[requests |-> ManifestRequests, faults |-> {"crash", "io"}],
     [requests |-> VaultRequests, faults |-> {"crash"}],
     [requests |-> {Put(blob, v1), Get(blob), ListB}, faults |-> {"io", "short", "stop", "abort"}]}
MetaLoad == {[requests |-> MetaRequests, faults |-> {}]}
================================================================================
