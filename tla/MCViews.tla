----------------------------- MODULE MCViews -----------------------------
(* Three rows of any one table, a page of one row, two writes. *)
EXTENDS Views, TLC

CONSTANTS A, B, r1, r2, r3, cables, screens, l1, v1, v2

MCPresent == [r \in {r1, r2} |-> IF r = r1 THEN -1 ELSE 0]
MCHomes == {[src |-> A, dst |-> B, cat |-> cables], [src |-> B, dst |-> B, cat |-> screens],
             [src |-> B, dst |-> A, cat |-> screens]}
MCFirst == [r \in Rows |->
               [src |-> IF r = r1 THEN A ELSE B, dst |-> IF r = r3 THEN A ELSE B,
                cat |-> IF r = r1 THEN cables ELSE screens]]
MCRanks == {-1, 1}
MCScopes == {All, {A}, {}}
\* A user paging through a list, or one reading counters and summaries, while others
\* write twice where that many readings can be told apart; two users of one cache.
Listed == {"warehouse", "sale", "outflow", "purchase", "payment", "loan", "transfer",
           "transaction", "discharge", "take", "alert", "user", "record"}
MCScenes == [kind : Listed, who : {{l1}}, left : {2}]
            \cup [kind : {"item"}, who : {{l1}, {v1}}, left : {1}]
            \cup [kind : {"item"}, who : {{v1, v2}}, left : {0}]
            \cup [kind : {"warehouse"}, who : {{v1, v2}}, left : {2}]
            \cup [kind : {"outflow", "purchase", "payment", "discharge", "take"}, who : {{v1}}, left : {2}]
            \cup [kind : {"sale", "loan", "transfer", "alert"}, who : {{v1}}, left : {1}]
MCFilters == {None, "owing", "ACTIVE", "PENDING", "IN_PROGRESS", "LOW_STOCK"}
Either == Permutations(Viewers)
=============================================================================
