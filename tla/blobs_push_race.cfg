SPECIFICATION Spec
CONSTANTS
    base = base
    layer = layer
    spare = spare
    image = image
    other = other
    NoBlob = NoBlob
    NoManifest = NoManifest
    Blobs = {base}
    Manifests = {image}
    Refs <- OneImage
    Clients = {c1}
    Sweeps = {gc}
    Ops = {"upload", "put"}
    Grace = 1
    Quota = 0
    MaxTime = 2
    MaxFaults = 0
PROPERTY ReferencedKept
