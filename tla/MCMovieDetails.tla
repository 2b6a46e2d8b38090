--------------------------- MODULE MCMovieDetails ---------------------------
(* Instances of MovieDetails for TLC.  Requests share only the tables, and *)
(* none writes to them: one is enough.                                     *)
EXTENDS MovieDetails

CONSTANTS r1, alice, theMovie, sequel
=============================================================================
