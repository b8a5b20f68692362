SPECIFICATION MCSpec
CONSTANTS
    s1 = s1
    s2 = s2
    s3 = s3
    manifest = manifest
    meta = meta
    corrupt = corrupt
    blob = blob
    orphan = orphan
    root = root
    blobs = blobs
    quarantine = quarantine
    v1 = v1
    v2 = v2
    Nothing = Nothing
    Half = Half
    Slot = {s1, s2}
    File <- MCFile
    Manifest = manifest
    Meta = meta
    Dir <- MCDir
    Root = root
    Blobs = blobs
    Parent <- MCParent
    Body = {v1, v2}
    Load <- VaultLoad
    i1 = i1
    i2 = i2
    i3 = i3
    IP = {i1, i2, i3}
    Unset = Unset
    NaN = NaN
    DefaultLimit = 2
    InFile = {Unset, 0, 1}
    OnLine = {Unset, NaN, 0}
    Window = 2
    MaxIPs = 2
    MaxFailures = 1
    Conn = {1, 2}
    LogLevels = {"debug", "info", "warn", "verbose"}
    MaxRequests = 2
CHECK_DEADLOCK FALSE
INVARIANTS StoreOK Listings Bounded Lockouts Exchanges
PROPERTIES ManifestRegister Answered ForgetsOldest
