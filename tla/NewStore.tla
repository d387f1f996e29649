------------------------------ MODULE NewStore ------------------------------
(***************************************************************************)
(* NewStore (storage/store.go:21-43): the configuration names one of the   *)
(* two stores, which is opened and migrated when the server starts.  The   *)
(* other one stays as it is.                                               *)
(***************************************************************************)
EXTENDS Migration

VARIABLES dbType,                               \* DBConfig.Type
          table, rows, tableVersion, step, old  \* the MySQL store

Sql == INSTANCE SqlMigration

ASSUME LayoutIsNotNil == Nil \notin Sql!Layout

sqlVars == <<table, rows, tableVersion, step, old>>
storeVars == <<vars, dbType, sqlVars>>

StoreInit ==
  \/ /\ dbType = "badger"
     /\ Init
     /\ table = Nil /\ rows = {} /\ tableVersion = 0 /\ step = "down" /\ old = {}
  \/ /\ dbType = "mysql"
     /\ Sql!Init
     /\ miners = [t \in Text |-> Nil] /\ version = 0 /\ proc = "down"

StoreNext ==
  \/ dbType = "badger" /\ Next /\ UNCHANGED <<dbType, sqlVars>>
  \/ dbType = "mysql" /\ Sql!Next /\ UNCHANGED <<dbType, miners, version, proc>>

\* The steps of a start; whoever runs the server starts it again.
Starting ==
  \/ /\ dbType = "badger"
     /\ Start \/ MigrateToV1 \/ MigrateToV2 \/ MigrateToV3 \/ Serve
     /\ UNCHANGED <<dbType, sqlVars>>
  \/ /\ dbType = "mysql"
     /\ \/ Sql!Start \/ Sql!Open \/ Sql!MigrateToV1 \/ Sql!MigrateToV2
        \/ Sql!MigrateToV3 \/ Sql!AddId \/ Sql!DropIndex \/ Sql!AddUnique
        \/ Sql!SaveVersion \/ Sql!Serve \/ Sql!Exit
     /\ UNCHANGED <<dbType, miners, version, proc>>

StoreSpec == StoreInit /\ [][StoreNext]_storeVars
FairSpec == StoreSpec /\ WF_storeVars(Starting)
-----------------------------------------------------------------------------
\* The inductive invariant of both stores.
StoreInv == IInv /\ Sql!IInv
MinerHasOneRow == Sql!MinerHasOneRow
SqlKeepsBindings == Sql!SqlKeepsBindings
OneCutIsFatal == Sql!OneCutIsFatal

Killed == (dbType = "badger" /\ Crash) \/ (dbType = "mysql" /\ Sql!Crash)

Serving == proc = "serving" \/ step = "serving"

\* Wherever the starts before were cut off, once the process is killed no more
\* the server comes to listen, and listens from then on; only after the fatal
\* cut does every start fail (store.go:21-43, mysql.go:501-528).
StartEnds ==
  <>[][~Killed]_storeVars => <>[]Serving \/ <>[](dbType = "mysql" /\ Sql!CutFatally)
=============================================================================
