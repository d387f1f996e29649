------------------------------ MODULE Registry ------------------------------
(***************************************************************************)
(* What the Store interface (storage/store.go:45-97) promises about users, *)
(* miners and signers, each operation at once: a miner has at most one     *)
(* user (1-1), a signer any number (n-n), a binding is made only to a user *)
(* that was created, and retiring a user takes only its own miners along.  *)
(***************************************************************************)
CONSTANTS User, Miner, Signer, None

VARIABLES user,    \* [User -> {"absent", "live", "deleted"}]
          miner,   \* [Miner -> User or None], the live bindings
          signer   \* live bindings, a set of <<signer, user>>

rvars == <<user, miner, signer>>

RInit == /\ user = [u \in User |-> "absent"]
         /\ miner = [m \in Miner |-> None]
         /\ signer = {}

SaveUser(u) == /\ user' = [user EXCEPT ![u] = "live"]
               /\ UNCHANGED <<miner, signer>>

RetireUser(u) == /\ user[u] = "live"
                 /\ user' = [user EXCEPT ![u] = "deleted"]
                 /\ \E S \in SUBSET {m \in Miner : miner[m] = u} :
                      miner' = [m \in Miner |-> IF m \in S THEN None ELSE miner[m]]
                 /\ UNCHANGED signer

BindMiner(m, u) == /\ user[u] # "absent"
                   /\ miner' = [miner EXCEPT ![m] = u]
                   /\ UNCHANGED <<user, signer>>

ReleaseMiner(m) == /\ miner[m] # None
                   /\ miner' = [miner EXCEPT ![m] = None]
                   /\ UNCHANGED <<user, signer>>

BindSigner(s, u) == /\ user[u] # "absent"
                    /\ signer' = signer \cup {<<s, u>>}
                    /\ UNCHANGED <<user, miner>>

ReleaseSigner(s, u) == /\ signer' = signer \ {<<s, u>>}
                       /\ UNCHANGED <<user, miner>>

RNext == \/ \E u \in User : SaveUser(u) \/ RetireUser(u)
         \/ \E m \in Miner, u \in User : BindMiner(m, u)
         \/ \E m \in Miner : ReleaseMiner(m)
         \/ \E s \in Signer, u \in User : BindSigner(s, u) \/ ReleaseSigner(s, u)

RSpec == RInit /\ [][RNext]_rvars
=============================================================================
