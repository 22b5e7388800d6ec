---------------------------- MODULE MCCatalogue -----------------------------
(* A small instance of the catalogue for TLC. *)
EXTENDS Catalogue, TLC

CONSTANTS f1, f2, s1, s2

\* One file is stored as it is, the other one is transcoded.
Plain == [video |-> "h264", pixels |-> "yuv420p", audio |-> {"aac"},
          container |-> "mp4", sound |-> TRUE]
Foreign == [Plain EXCEPT !.video = "other", !.audio = {"other"}]
TwoKinds == [f \in Files |-> IF f = f1 THEN Plain ELSE Foreign]
Sizes == [f \in Files |-> IF f = f1 THEN 2 ELSE 1]

\* Processes are compared for equality only.
SeederSymmetry == Permutations(Seeders)
=============================================================================
