CONSTANTS
    s1 = s1
    s2 = s2
    s3 = s3
    manifest = manifest
    meta = meta
    corrupt = corrupt
    blob = blob
    orphan = orphan
    root = root
    blobs = blobs
    quarantine = quarantine
    v1 = v1
    v2 = v2
    Nothing = Nothing
    Half = Half
    Slot = {s1, s2}
    File <- MCFile
    Manifest = manifest
    Meta = meta
    Dir <- MCDir
    Root = root
    Blobs = blobs
    Parent <- MCParent
    Body = {v1, v2}
    Load <- MetaLoad
SPECIFICATION Spec
PROPERTY MetaRegister
