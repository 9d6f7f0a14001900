----------------------------- MODULE MCSwrCache -----------------------------
(* SwrCache on a small instance: two requests share an instance, a third is *)
(* served by another, which starts with nothing in its L1.                  *)
EXTENDS SwrCache
MCHomeOf(r) == IF r = 3 THEN "b" ELSE "a"
MCInit == Init /\ l1["b"] = Nothing
MCSpec == MCInit /\ [][Next]_vars /\ Fairness
=============================================================================
