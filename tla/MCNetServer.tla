----------------------------- MODULE MCNetServer -----------------------------
(* Model values for the runs of NetServer. *)
EXTENDS NetServer, TLC

CONSTANTS a, b, c, w1, f1, f2

(* Clients differ by nothing but their names, and what is checked is said  *)
(* of each of them: it is enough to look at those behaviours in which they *)
(* connect in this order.                                                  *)
ClientOrder == <<a, b, c>>
InOrder ==
    \A i \in 2 .. Len(ClientOrder) :
        NeverCame(ClientOrder[i - 1]) => NeverCame(ClientOrder[i])

OrderedSpec == Init /\ [][Next /\ InOrder']_vars /\ Fairness
=============================================================================
