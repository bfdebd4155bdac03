-------------------------- MODULE MCModelCatalogue --------------------------
(* A small instance of ModelCatalogue for TLC. *)
EXTENDS ModelCatalogue, TLC

CONSTANTS h1, h2, h3

\* Two registrations of one name; the third model was deleted.
OneNameTwice == h1 :> "a" @@ h2 :> "a" @@ h3 :> ""
OneDeleted == <<h3>>
=============================================================================
