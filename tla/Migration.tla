----------------------------- MODULE Migration -----------------------------
(***************************************************************************)
(* The migration of the badger store when the server starts                *)
(* (storage/store_migration.go, storage/badger_helper.go:174-281): version *)
(* 1 moves the miner of each user into a record of its own, version 2 sets *)
(* OpenMining in every miner record, version 3 only counts.  Each version  *)
(* is one transaction with its version number, and the process can die     *)
(* between any two.                                                        *)
(*                                                                         *)
(* A user record of version 0 holds its miner as a text, and texts are     *)
(* what miner records are keyed by.  One address has several texts (the    *)
(* network prefix is "f" or "t"), of which Address.String gives one.       *)
(***************************************************************************)
EXTENDS Naturals, FiniteSets

CONSTANTS User, Miner, Text,
          Parse,     \* [Text -> Miner or Nil], address.NewFromString
          Spelling,  \* [Miner -> Text], Address.String
          Rank,      \* [Text -> Nat], the order in which badger walks keys
          Nil

\* OpenMining: not there, set by version 2, or as a client sent it.
MinerRec == [user : User, deleted : BOOLEAN, open : {"unset", "default", "sent"}]

ASSUME ConstantsOK ==
  /\ Nil \notin Miner \cup Text \cup MinerRec
  /\ Parse \in [Text -> Miner \cup {Nil}]
  /\ Spelling \in [Miner -> Text]
  /\ \A m \in Miner : Parse[Spelling[m]] = m
  /\ Rank \in [Text -> Nat]
  /\ \A s, t \in Text : Rank[s] = Rank[t] => s = t

\* The walk over the keys ends.
ASSUME TextOK == IsFiniteSet(Text)

VARIABLES users,    \* [User -> Text or Nil], the miner a version 0 user has
          miners,   \* [Text -> miner record or Nil], keyed by PrefixMiner
          version,  \* the StoreVersion record, 0 when there is none
          proc      \* the process: down, starting or serving

vars == <<users, miners, version, proc>>

Live(t) == miners[t] # Nil /\ ~miners[t].deleted
\* The texts of one miner.
TextsOf(m) == {t \in Text : Parse[t] = m}
Last(S) == CHOOSE t \in S : \A s \in S : Rank[s] <= Rank[t]

AnyVersion(v) == proc = "starting"           \* slip: the version is not read
VersionGate(v) == proc = "starting" /\ version = v

\* StoreMigrate: the schedule is looked up by the version of the store.
Migrate(v, records) ==
  /\ VersionGate(v)
  /\ miners' = records
  /\ version' = v + 1
  /\ UNCHANGED <<users, proc>>

\* Users that share a text overwrite each other in the order of their names,
\* which is any order.
MigrateToV1 ==
  \E heir \in [Text -> User] :
    /\ \A t \in Text : (\E u \in User : users[u] = t) => users[heir[t]] = t
    /\ Migrate(0, [t \in Text |->
         IF Parse[t] # Nil /\ users[heir[t]] = t
         THEN [user |-> heir[t], deleted |-> FALSE, open |-> "unset"]
         ELSE miners[t]])

InPlace(t) == {t}                            \* slip: the key that was read
\* The records that version 2 writes to the key t, each under the text that
\* Address.String gives for its miner.
WrittenTo(t) == {s \in Text : Parse[s] # Nil /\ Spelling[Parse[s]] = t}

MigrateToV2 ==
  Migrate(1, [t \in Text |->
    LET from == {s \in WrittenTo(t) : miners[s] # Nil}
    IN IF from = {} THEN miners[t] ELSE [miners[Last(from)] EXCEPT !.open = "default"]])

MigrateToV3 == Migrate(2, miners)

Start == /\ proc = "down"
         /\ proc' = "starting"
         /\ UNCHANGED <<users, miners, version>>

\* There is nothing left to migrate, and the server listens.
Serve == /\ VersionGate(3)
         /\ proc' = "serving"
         /\ UNCHANGED <<users, miners, version>>

Crash == /\ proc # "down"
         /\ proc' = "down"
         /\ UNCHANGED <<users, miners, version>>

\* The two handlers that write miner records, which Accounts has in full.
UpsertMiner(m, u) ==
  /\ proc = "serving"
  /\ miners' = [miners EXCEPT ![Spelling[m]] =
                  [user |-> u, deleted |-> FALSE, open |-> "sent"]]
  /\ UNCHANGED <<users, version, proc>>

DelMiner(m) ==
  /\ proc = "serving"
  /\ Live(Spelling[m])
  /\ miners' = [miners EXCEPT ![Spelling[m]].deleted = TRUE]
  /\ UNCHANGED <<users, version, proc>>

\* A database of version 0 has no miner records.
Init == /\ users \in [User -> Text \cup {Nil}]
        /\ miners = [t \in Text |-> Nil]
        /\ version = 0
        /\ proc = "down"

Next == \/ Start \/ MigrateToV1 \/ MigrateToV2 \/ MigrateToV3 \/ Serve \/ Crash
        \/ \E m \in Miner : DelMiner(m) \/ \E u \in User : UpsertMiner(m, u)

Spec == Init /\ [][Next]_vars
-----------------------------------------------------------------------------
(* Properties *)

\* Records have the type of store.go:259-265, and only a migrated store is
\* served.
TypeOK ==
  /\ users \in [User -> Text \cup {Nil}]
  /\ miners \in [Text -> MinerRec \cup {Nil}]
  /\ version \in 0..3
  /\ proc \in {"down", "starting", "serving"}
  /\ proc = "serving" => version = 3

\* What the migration promises wherever it was cut off: from version 1 on the
\* miner of every user that had one has a record; from version 2 on it has one
\* under the key the handlers look it up by (badger_helper.go:255), with
\* OpenMining set; and a record no client wrote names a user that had the
\* miner.
MigrationKeepsBindings ==
  /\ \A u \in User :
       users[u] # Nil /\ Parse[users[u]] # Nil =>
         LET m == Parse[users[u]] IN
         /\ version >= 1 => \E t \in TextsOf(m) : miners[t] # Nil
         /\ version >= 2 => /\ miners[Spelling[m]] # Nil
                            /\ miners[Spelling[m]].open # "unset"
  /\ \A t \in Text :
       miners[t] # Nil /\ miners[t].open # "sent" =>
         \E s \in TextsOf(Parse[t]) : users[miners[t].user] = s

\* The inductive invariant: version 1 starts from no records, and clients write
\* them only after version 3.
IInv == /\ TypeOK
        /\ MigrationKeepsBindings
        /\ version = 0 => \A t \in Text : miners[t] = Nil
        /\ version < 3 => \A t \in Text : miners[t] # Nil => miners[t].open # "sent"
=============================================================================
