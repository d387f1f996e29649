------------------------------- MODULE Innodb -------------------------------
(***************************************************************************)
(* MySQL with InnoDB at its default isolation level (REPEATABLE READ), as  *)
(* src/storage/mysql.go uses it through gorm.  A plain SELECT reads the    *)
(* committed rows, and in a transaction those of its first SELECT; it      *)
(* takes no lock.  UPDATE, INSERT and DELETE work on the newest rows and   *)
(* lock the index range they look at, with its gaps, until the transaction *)
(* ends; a statement that meets a lock of another session waits.  The      *)
(* database is not part of the repository, so every definition here is     *)
(* external.                                                               *)
(***************************************************************************)
CONSTANTS Key,      \* the rows there can be, named by their unique index
          Nil,      \* the value of a row that is not there
          Session   \* connections that may be in a transaction at once

VARIABLES row,      \* [Key -> records or Nil], what is committed
          tx        \* [Session -> transaction record]

NoWrites == [k \in {} |-> Nil]
One(k, v) == [x \in {k} |-> v]

NoTx == [open |-> FALSE, locks |-> {}, writes |-> NoWrites]

Merge(f, w) == [k \in DOMAIN f \cup DOMAIN w |-> IF k \in DOMAIN w THEN w[k] ELSE f[k]]

\* No other session holds a lock on a row or gap of ks.
Free(p, ks) == \A q \in Session \ {p} : tx[q].locks \cap ks = {}

OpenTx(p) == /\ tx' = [tx EXCEPT ![p].open = TRUE]
             /\ UNCHANGED row

\* A statement outside a transaction: its locks are gone when it ends.
Statement(p, ks, w) == /\ Free(p, ks)
                       /\ row' = Merge(row, w)
                       /\ UNCHANGED tx

\* The only statement that writes in p's transaction, with the COMMIT that
\* follows: no other session can tell them apart.
LastStatement(p, ks, w) == /\ Free(p, ks)
                           /\ row' = Merge(row, w)
                           /\ tx' = [tx EXCEPT ![p] = NoTx]

\* A statement inside p's transaction, which keeps its locks.
Locked(p, ks, w) == /\ Free(p, ks)
                    /\ tx' = [tx EXCEPT ![p].locks = @ \cup ks,
                                        ![p].writes = Merge(@, w)]
                    /\ UNCHANGED row

Commit(p) == /\ row' = Merge(row, tx[p].writes)
             /\ tx' = [tx EXCEPT ![p] = NoTx]

Rollback(p) == /\ tx' = [tx EXCEPT ![p] = NoTx]
               /\ UNCHANGED row

Read == UNCHANGED <<row, tx>>
=============================================================================
