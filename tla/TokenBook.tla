------------------------------ MODULE TokenBook ------------------------------
(***************************************************************************)
(* What the Store interface promises about tokens                          *)
(* (storage/store.go:45-55): a token is issued once, to a user that was    *)
(* created, and is then live or removed; its user and its permission never *)
(* change.                                                                 *)
(***************************************************************************)
CONSTANTS User, Perm, Token, None

VARIABLES known,   \* the users that were created
          issued   \* [Token -> None or [name, perm, live]]

bvars == <<known, issued>>

BInit == /\ known = {}
         /\ issued = [t \in Token |-> None]

AddUser(u) == /\ known' = known \cup {u}
              /\ UNCHANGED issued

Issue(t, u, perm) ==
  /\ issued[t] = None
  /\ u \in known
  /\ issued' = [issued EXCEPT ![t] = [name |-> u, perm |-> perm, live |-> TRUE]]
  /\ UNCHANGED known

Remove(t) == /\ issued[t] # None
             /\ issued[t].live
             /\ issued' = [issued EXCEPT ![t].live = FALSE]
             /\ UNCHANGED known

Recover(t) == /\ issued[t] # None
              /\ issued' = [issued EXCEPT ![t].live = TRUE]
              /\ UNCHANGED known

BNext == \/ \E u \in User : AddUser(u)
         \/ \E t \in Token, u \in User, perm \in Perm : Issue(t, u, perm)
         \/ \E t \in Token : Remove(t) \/ Recover(t)

BSpec == BInit /\ [][BNext]_bvars
=============================================================================
