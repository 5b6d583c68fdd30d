----------------------------- MODULE MCAppShell -----------------------------
(* Small instances of the pages under /app for TLC. *)
EXTENDS AppShell, TLC

CONSTANTS w1, w2, c1, c2, o1, o2, k1, k2

MCAmountOne == o1 :> 1
=============================================================================
