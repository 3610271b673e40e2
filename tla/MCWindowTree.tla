---------------------------- MODULE MCWindowTree ----------------------------
(* A taskbar on the screen, a label on it, a label on that one, a clock on the  *)
(* taskbar and one on the inner label, and a second top-level window that has   *)
(* the name of the outer label.                                                 *)
EXTENDS WindowTree, TLC

CONSTANTS bar, label, inner, clock1, clock2, twin

Names == (bar :> "bar") @@ (label :> "label") @@ (inner :> "inner")
         @@ (clock1 :> "clock1") @@ (clock2 :> "clock2") @@ (twin :> "label")

Parents == (bar :> Screen) @@ (label :> "bar") @@ (inner :> "label")
           @@ (clock1 :> "bar") @@ (clock2 :> "inner") @@ (twin :> Screen)
=============================================================================
