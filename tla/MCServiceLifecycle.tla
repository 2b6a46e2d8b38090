------------------------- MODULE MCServiceLifecycle -------------------------
(* A process of metadata, the one that takes its place, and one of rating  *)
(* and of auth.  (movie's main is metadata's.)                             *)
EXTENDS ServiceLifecycle

CONSTANTS metadata1, metadata2, rating, auth

Processes == {metadata1, metadata2, rating, auth}

ServiceOf == [i \in Processes |-> CASE i = auth -> "auth" [] i = rating -> "rating"
                                    [] OTHER -> "metadata"]

PortOf == [i \in Processes |-> CASE i = auth -> 8084 [] i = rating -> 8082 [] OTHER -> 8081]

Attempts == [s \in Services |-> IF s = "metadata" THEN 3 ELSE 1]

(* Processes with different ports do not affect each other: a behaviour    *)
(* has those of one service.                                               *)
OneService ==
  \A i, j \in Processes : PortOf[i] # PortOf[j] => pc'[i] = "off" \/ pc'[j] = "off"

MCSpec == Init /\ [][Next /\ OneService]_vars /\ Fairness
=============================================================================
