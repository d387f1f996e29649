------------------------------- MODULE Badger -------------------------------
(***************************************************************************)
(* The key-value store github.com/dgraph-io/badger/v3, as src/storage uses *)
(* it: db.View is a read-only transaction on one snapshot, db.Update is a  *)
(* serializable-snapshot transaction whose commit fails with ErrConflict   *)
(* exactly when a key it read was committed by another transaction since   *)
(* it began.  The library is not part of the repository, so every          *)
(* definition here is external; the modules of the project instantiate it  *)
(* with their own keys.                                                    *)
(*                                                                         *)
(* No version numbers are kept.  A transaction carries what its outcome    *)
(* can still depend on: the part of its snapshot it may read later (snap), *)
(* and which of the keys it has read or may read were committed since it   *)
(* began (dirty), which is all the conflict check looks at.                *)
(***************************************************************************)
CONSTANTS Key,   \* the keys of the instance
          Nil,   \* the value of a key that is not in the database
          Txn    \* identities of the transactions that may be open at once

VARIABLES db,    \* [Key -> records or Nil], the committed state
          txn    \* [Txn -> transaction record]

NoWrites == [k \in {} |-> Nil]
One(k, v) == [x \in {k} |-> v]

NoTxn == [open |-> FALSE, reads |-> {}, writes |-> NoWrites,
          dirty |-> {}, snap |-> NoWrites]

\* The database after the pending writes w are applied.
Install(w) == [k \in Key |-> IF k \in DOMAIN w THEN w[k] ELSE db[k]]

Watched(t) == txn[t].reads \cup DOMAIN txn[t].snap

\* What the open transactions learn of a commit of the keys ks.
Notify(ks) == [t \in Txn |-> [txn[t] EXCEPT !.dirty = @ \cup (ks \cap Watched(t))]]

Conflict(t) == txn[t].reads \cap txn[t].dirty # {}

\* A transaction begins on the current state, reads rs and sets w; later it
\* may read the keys ks.
Begin(t, rs, w, ks) ==
  /\ txn' = [txn EXCEPT ![t] = [open |-> TRUE, reads |-> rs, writes |-> w,
                                dirty |-> {}, snap |-> [k \in ks |-> db[k]]]]
  /\ UNCHANGED db

\* An open transaction reads rs from its snapshot and sets w.
Extend(t, rs, w) ==
  LET x == txn[t] IN
  /\ txn' = [txn EXCEPT ![t] =
       [open |-> TRUE, reads |-> x.reads \cup rs,
        writes |-> [k \in DOMAIN x.writes \cup DOMAIN w |->
                      IF k \in DOMAIN w THEN w[k] ELSE x.writes[k]],
        dirty |-> x.dirty, snap |-> x.snap]]
  /\ UNCHANGED db

\* The commit of t: its writes become visible and t is closed.
Commit(t) ==
  /\ ~Conflict(t)
  /\ db' = Install(txn[t].writes)
  /\ txn' = [Notify(DOMAIN txn[t].writes) EXCEPT ![t] = NoTxn]

\* The transactions in ts are discarded.
Discard(ts) ==
  /\ txn' = [t \in Txn |-> IF t \in ts THEN NoTxn ELSE txn[t]]
  /\ UNCHANGED db

\* An update transaction that reads nothing cannot conflict: one atomic step.
Put(w) ==
  /\ db' = Install(w)
  /\ txn' = Notify(DOMAIN w)

View == UNCHANGED <<db, txn>>
=============================================================================
