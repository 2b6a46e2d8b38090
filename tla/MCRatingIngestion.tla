------------------------- MODULE MCRatingIngestion -------------------------
(* Instances of RatingIngestion for TLC. *)
EXTENDS RatingIngestion

CONSTANTS alice, bob

Event(k, v, t) == [key |-> k, value |-> v, type |-> t]

(* Ratings that contend for one row. *)
RivalEvents == {Event(alice, 1, "put"), Event(alice, 2, "put"), Malformed}

(* A rating, and its withdrawal. *)
PutAndDelete == {Event(alice, 1, "put"), Event(alice, 1, "delete")}
=============================================================================
