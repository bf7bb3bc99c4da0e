----------------------------- MODULE MCGateway ------------------------------
(* Small instances of module Gateway for TLC. *)
EXTENDS Gateway, TLC

(* No reference, one of a kind, and an uploaded file after an inline one *)
MCDocumentLists == {<<>>, <<"uploaded">>, <<"inline", "uploaded">>}

(* No reference, and one that is fetched and converted *)
MCShortLists == {<<>>, <<"inline">>}

(* The requests are alike; sound where no liveness is checked *)
MCSymmetry == Permutations(Requests)
=============================================================================
