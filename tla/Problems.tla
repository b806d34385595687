-------------------------------- MODULE Problems --------------------------------
(***************************************************************************)
(* parse_problems of app/loader.py: the refused pieces of evidence in the  *)
(* order in which they were parsed.  LoadedSet.cert keeps what it parsed,  *)
(* so a piece is listed once; the list goes into a result as it is         *)
(* (app/adjudge.py, evidence_disposition.parse_rejected).                  *)
(*                                                                         *)
(* An entry is a kind and a content.  A list without repetitions is its    *)
(* order, the set of the pairs <<x, y>> in which x is listed no later than *)
(* y: two lists are the same one exactly if these sets are equal.          *)
(***************************************************************************)
EXTENDS Integers

Listed(list) == {pair[1] : pair \in list}

(* The pieces C of one kind are parsed in the order of their ranks and     *)
(* refused; those that are listed already are not parsed again.            *)
Noting(list, kind, C, rank) ==
    LET new == {entry \in {kind} \X C : entry \notin Listed(list)} IN
    list \cup (Listed(list) \X new)
         \cup {pair \in new \X new : rank[pair[1][2]] =< rank[pair[2][2]]}

(* The lists of the entries E, in all orders.                              *)
Listings(E) ==
    {list \in SUBSET (E \X E) :
        /\ \A x, y \in E : <<x, y>> \in list \/ <<y, x>> \in list
        /\ \A x, y \in E : <<x, y>> \in list /\ <<y, x>> \in list => x = y
        /\ \A x, y, z \in E :
              <<x, y>> \in list /\ <<y, z>> \in list => <<x, z>> \in list}
==============================================================================
