----------------------------- MODULE MCMigration -----------------------------
(* Two miners: one with two texts, one with one, and a text that is no      *)
(* address.                                                                 *)
EXTENDS NewStore, TLC

CONSTANTS m1, m2, f1, t1, f2, bad

MCParse == f1 :> m1 @@ t1 :> m1 @@ f2 :> m2 @@ bad :> Nil
MCSpelling == m1 :> f1 @@ m2 :> f2
\* Keys are walked in byte order: "bad", "f1", "f2", "t1".
MCRank == bad :> 0 @@ f1 :> 1 @@ f2 :> 2 @@ t1 :> 3
=============================================================================
