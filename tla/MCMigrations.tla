---------------------------- MODULE MCMigrations ----------------------------
(* One process of auth and of rating, and the two replicas of metadata. *)
EXTENDS Migrations

CONSTANTS auth, metadata1, metadata2, rating

Services == {auth, metadata1, metadata2, rating}

EmbeddedVersion ==
  [p \in Services |-> CASE p = auth -> 1
                        [] p \in {metadata1, metadata2} -> 2
                        [] p = rating -> 3]

(* ratings.user_id REFERENCES users(id) *)
ForeignKeys == [v \in 1 .. 3 |-> IF v = 3 THEN {1} ELSE {}]
=============================================================================
