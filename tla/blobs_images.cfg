SPECIFICATION FairSpec
CONSTANTS
    base = base
    layer = layer
    spare = spare
    image = image
    other = other
    NoBlob = NoBlob
    NoManifest = NoManifest
    Blobs = {base, layer}
    Manifests = {image}
    Refs <- TwoLayers
    Clients = {c1, c2}
    Sweeps = {gc}
    Ops = {"upload", "put", "delete_manifest"}
    Grace = 1
    Quota = 0
    MaxTime = 2
    MaxFaults = 1
INVARIANT TypeOK
INVARIANT CleanImageIntact
PROPERTY CollectedEventually
