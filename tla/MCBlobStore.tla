---------------------------- MODULE MCBlobStore ----------------------------
(***************************************************************************)
(* BlobStore for TLC: two images that share their base layer, and clients  *)
(* that are interchangeable.  Symmetry is left out of the liveness run.    *)
(***************************************************************************)
EXTENDS BlobStore, TLC

CONSTANTS base, layer, spare, image, other

\* image is one layer, and other that layer and one more; or image is two layers.
SharedBase == image :> {base} @@ other :> {base, layer}
OneImage == image :> {base}
TwoLayers == image :> {base, layer}

\* Of the blobs, those of no manifest are.
Symmetry == Permutations(Clients) \cup Permutations(Sweeps) \cup Permutations(Blobs \ UNION {Refs[m] : m \in Manifests})

\* No step reads what is in the bucket, nor what a sweep has lost of what it is
\* through with: a run whose properties do not either tells no states apart by it.
TablesOnly ==
    <<now, rows, manifests, req, sweep, faults, pushed, [g \in Sweeps |-> lost[g] \cap Pending(g)]>>
=============================================================================
