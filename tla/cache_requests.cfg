SPECIFICATION Spec
CONSTANTS
    Repos = {r1}
    Proxied = {r1}
    Digests = {d1, d2}
    MediaTypes = {m1, m2}
    Tags = {t1}
    None = None
    Clients = {c1, c2}
    WriteOps = {"push", "store", "delete"}
    MaxWriters = 2
    MaxWrites = 3
    Faults = TRUE
    ManifestCapacity = 1
    TagCapacity = 1
SYMMETRY Symmetry
INVARIANT TypeOK
INVARIANT ManifestCoherent
INVARIANT FreshPull
INVARIANT TagCoherentSerially
INVARIANT NoDanglingTag
