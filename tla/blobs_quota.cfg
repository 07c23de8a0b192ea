SPECIFICATION Spec
CONSTANTS
    base = base
    layer = layer
    spare = spare
    image = image
    other = other
    NoBlob = NoBlob
    NoManifest = NoManifest
    Blobs = {base, layer, spare}
    Manifests = {image}
    Refs <- OneImage
    Clients = {c1, c2}
    Sweeps = {gc, cli}
    Ops = {"upload", "cache", "store", "delete_manifest", "delete_blob"}
    Grace = 0
    Quota = 1
    MaxTime = 1
    MaxFaults = 1
VIEW TablesOnly
SYMMETRY Symmetry
INVARIANT QuotaOvershootBounded
PROPERTY YoungOnlyIfReplaced
