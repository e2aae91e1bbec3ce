----------------------------- MODULE MCIndexing -----------------------------
(* Values of the constants of Indexing for TLC. *)
EXTENDS Indexing, TLC

CONSTANTS e1, e2, f1, f2, f3

\* Two events whose folders share f2; e2's also holds a text file.
SharedFolder == e1 :> {f1, f2} @@ e2 :> {f2, f3}
OneFolder == e1 :> Files

\* Worker processes are interchangeable (no liveness is checked with this).
WorkerSymmetry == Permutations(Workers)

SmallFolders == e1 :> {f1, f2} @@ e2 :> {f2}

Kinds == [f \in Files |-> IF f = f3 THEN "other" ELSE "image"]
\* Thumbnails miss the one face of f1 and one of the two of f2.
NumFaces == [f \in Files |-> [v \in Versions |-> IF f = f2 THEN 2 ELSE 1]]
NumThumbFaces == [f \in Files |-> [v \in Versions |-> NumFaces[f][v] - 1]]
=============================================================================
