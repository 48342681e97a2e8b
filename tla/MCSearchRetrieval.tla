--------------------------- MODULE MCSearchRetrieval ---------------------------
(* Small catalogues and the shapes of requests for TLC.                        *)
EXTENDS SearchRetrieval

M(rank, inside, mode) == [rank |-> rank, inside |-> inside, mode |-> mode]
Ask(policy, depth) == [kind |-> "ask", policy |-> policy, depth |-> depth]
DocumentSearch == [kind |-> "search", policy |-> "default", depth |-> FALSE]

(* A document that the question names; the indexer may add, change or delete. *)
MCStart == {<<Row(M(2, TRUE, "content"), 1)>>}
MCMetas == {M(2, TRUE, "content"), M(2, FALSE, "metadata"), M(0, TRUE, "metadata")}
(* One document search, and a second or a question. *)
MCShapes == [r \in Requests |->
                IF r = CHOOSE q \in Requests : TRUE THEN {DocumentSearch}
                ELSE {DocumentSearch, Ask("default", FALSE), Ask("prefer", FALSE), Ask("strict", TRUE)}]
=============================================================================
