----------------------------- MODULE MC_Documents -----------------------------
(* Instances of DocumentAdmin for TLC.                                      *)
EXTENDS DocumentAdmin, TLC

CONSTANTS d1, d2, t1, t2, a1, r

TwoDocs == {d1, d2}
OneThread == {t1}
TwoThreads == {t1, t2}
OneAdmin == {a1}

(* Both documents have the same content. *)
Same == (d1 :> 1) @@ (d2 :> 1)
TextAndFile == (d1 :> "text") @@ (d2 :> "file")

BothBackends == BOOLEAN
================================================================================
