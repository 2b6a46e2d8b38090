----------------------------- MODULE MCAccounts -----------------------------
(* Instances of Accounts for TLC. *)
EXTENDS Accounts, TLC

CONSTANTS r1, r2, r3, r4, alice, bob, aliceAt, bobAt, secret, other, long

(* The long password begins with the secret one. *)
FirstBytes == [p \in Passwords |-> IF p = long THEN secret ELSE p]

Symmetry == Permutations(Requests) \cup Permutations(Usernames) \cup Permutations(Emails)
=============================================================================
