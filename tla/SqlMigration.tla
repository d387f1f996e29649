---------------------------- MODULE SqlMigration ----------------------------
(***************************************************************************)
(* The start of the MySQL store (storage/mysql.go:25-83, 449-528): the     *)
(* tables are created or brought up to date, and the versions are migrated.*)
(* MySQL commits each ALTER TABLE at once, so the transaction around those *)
(* of version 3 holds nothing together, and the process can die between    *)
(* any two; what the next start does depends on the columns it finds.      *)
(*                                                                         *)
(* A row is keyed by the address without its prefix, so all texts of one   *)
(* miner are one key.                                                      *)
(***************************************************************************)
EXTENDS Naturals

CONSTANTS User, Miner, Text,
          Parse,       \* [Text -> Miner or Nil], address.NewFromString
          Nil

VARIABLES users,        \* [User -> Text or Nil], the miner a version 0 user has
          table,        \* the layout of `miners`, Nil when there is no table
          rows,         \* its rows, a set: only an index makes them unique
          tableVersion, \* the row of store_versions, 0 when there is none
          step,         \* where the process is in NewStore
          old           \* history: the rows that an older release left

svars == <<users, table, rows, tableVersion, step, old>>

Row    == [miner : Miner, user : User, deleted : BOOLEAN, open : {"default", "sent"}]
Layout == [pk : {"miner", "id", "none"},  \* the primary key
           user_idx : BOOLEAN,            \* index user_miner_idx
           unique : BOOLEAN]              \* unique index miner_idx

\* The table of releases before 1.9.0, and the one of this release.
OldLayout == [pk |-> "miner", user_idx |-> TRUE, unique |-> FALSE]
NewLayout == [pk |-> "id", user_idx |-> FALSE, unique |-> TRUE]

HasColumnID == table.pk = "id"
OnePerMiner == table.pk = "miner" \/ table.unique
RowsOf(m)   == {r \in rows : r.miner = m}

Steps == {"down", "killed", "open", "migrate", "add_id", "drop_index", "add_unique",
          "save_version", "serving"}
At(s) == step = s

\* INSERT ... ON DUPLICATE KEY UPDATE: a second row where no index forbids it.
Upsert(rs, r) ==
  IF OnePerMiner THEN {x \in rs : x.miner # r.miner} \cup {r} ELSE rs \cup {r}

Goto(s) == step' = s /\ UNCHANGED <<users, old>>

Start == /\ At("down") \/ At("killed")
         /\ Goto("open")
         /\ UNCHANGED <<table, rows, tableVersion>>

OpenOnly ==                                  \* slip: no AutoMigrate of miners
  /\ At("open")
  /\ table' = IF table = Nil THEN NewLayout ELSE table
  /\ Goto("migrate")
  /\ UNCHANGED <<rows, tableVersion>>

\* newMySQLStore: AutoMigrate adds a missing index, which fails when two rows
\* share a miner; it drops none.
Open == /\ At("open")
        /\ table' = IF table = Nil THEN NewLayout
                    ELSE IF HasColumnID THEN [table EXCEPT !.unique = TRUE] ELSE table
        /\ \A r, s \in rows : table # Nil /\ HasColumnID => r.miner # s.miner \/ r = s
        /\ Goto("migrate")
        /\ UNCHANGED <<rows, tableVersion>>

ErrorIsZero(v) == At("migrate") /\ v \in {0, tableVersion}  \* slip: error is 0
VersionIs(v) == At("migrate") /\ tableVersion = v

\* Users of one miner overwrite each other in the order they are read.
MigrateToV1 ==
  /\ VersionIs(0)
  /\ \E heir \in [Miner -> User] :
       LET had(m) == {u \in User : users[u] # Nil /\ Parse[users[u]] = m}
           found  == {m \in Miner : had(m) # {}}
       IN /\ \A m \in found : heir[m] \in had(m)
          /\ rows' = {r \in rows : r.miner \notin found} \cup
                     {[miner |-> m, user |-> heir[m], deleted |-> FALSE,
                       open |-> "default"] : m \in found}
  /\ tableVersion' = 1
  /\ UNCHANGED <<users, table, step, old>>

MigrateToV2 == /\ VersionIs(1)
               /\ tableVersion' = 2
               /\ UNCHANGED <<users, table, rows, step, old>>

AlwaysAlter == FALSE                         \* slip: HasColumn not asked
\* A table that has its id needs no statement of version 3.
NoAlter == HasColumnID

MigrateToV3 ==
  /\ VersionIs(2)
  /\ \/ NoAlter /\ UNCHANGED table /\ Goto("save_version")
     \/ /\ ~NoAlter /\ table.pk = "miner"
        /\ table' = [table EXCEPT !.pk = "none"]
        /\ Goto("add_id")
  /\ UNCHANGED <<rows, tableVersion>>

AddId == /\ At("add_id") /\ table.pk = "none"
         /\ table' = [table EXCEPT !.pk = "id"]
         /\ Goto("drop_index")
         /\ UNCHANGED <<rows, tableVersion>>

DropIndex == /\ At("drop_index") /\ table.user_idx
             /\ table' = [table EXCEPT !.user_idx = FALSE]
             /\ Goto("add_unique")
             /\ UNCHANGED <<rows, tableVersion>>

AddUnique == /\ At("add_unique") /\ ~table.unique
             /\ table' = [table EXCEPT !.unique = TRUE]
             /\ Goto("save_version")
             /\ UNCHANGED <<rows, tableVersion>>

SaveVersion == /\ At("save_version")
               /\ tableVersion' = 3
               /\ Goto("migrate")
               /\ UNCHANGED <<table, rows>>

\* StoreMigrate finds no entry for version 3, and the server listens.
Serve == /\ VersionIs(3)
         /\ Goto("serving")
         /\ UNCHANGED <<table, rows, tableVersion>>

\* What the next ALTER TABLE drops is not there, or what it adds is: NewStore
\* fails and the process exits.
AlterFails == \/ VersionIs(2) /\ ~NoAlter /\ table.pk # "miner"
              \/ At("add_id") /\ table.pk # "none"
              \/ At("drop_index") /\ ~table.user_idx
              \/ At("add_unique") /\ table.unique
Exit == /\ AlterFails
        /\ Goto("down")
        /\ UNCHANGED <<table, rows, tableVersion>>

\* The process dies, or loses its connection and exits.
Crash == /\ ~At("down") /\ ~At("killed")
         /\ Goto("killed")
         /\ UNCHANGED <<table, rows, tableVersion>>

\* The two operations that write miners, which SqlStore has in full.
UpsertMiner(m, u) ==
  /\ At("serving")
  /\ rows' = Upsert(rows, [miner |-> m, user |-> u, deleted |-> FALSE, open |-> "sent"])
  /\ UNCHANGED <<users, table, tableVersion, step, old>>

DelMiner(m) ==
  /\ At("serving")
  /\ rows' = {[r EXCEPT !.deleted = @ \/ r.miner = m] : r \in rows}
  /\ UNCHANGED <<users, table, tableVersion, step, old>>

\* The miners of users, as they stand in the column that version 1 reads and
\* no version drops.
HadByUsers == {m \in Miner : \E u \in User : users[u] # Nil /\ Parse[users[u]] = m}

\* A new database; one of version 0 that has users with miners; and one that
\* an older release left behind, at any point of its own two versions: it has
\* a row for each miner of version 0, which clients may have bound anew,
\* deleted or added since.
Init ==
  /\ step = "down"
  /\ users \in [User -> Text \cup {Nil}]
  /\ \/ table \in {Nil, OldLayout} /\ rows = {} /\ tableVersion = 0
     \/ /\ table = OldLayout
        /\ \E owner \in [Miner -> User \cup {Nil}], dead \in SUBSET Miner :
             /\ \A m \in HadByUsers : owner[m] # Nil
             /\ rows = {[miner |-> m, user |-> owner[m], deleted |-> m \in dead,
                         open |-> "default"] : m \in {x \in Miner : owner[x] # Nil}}
        /\ tableVersion \in {1, 2}
  /\ old = rows

Next == \/ Start \/ Open \/ MigrateToV1 \/ MigrateToV2 \/ MigrateToV3
        \/ AddId \/ DropIndex \/ AddUnique \/ SaveVersion \/ Serve \/ Exit \/ Crash
        \/ \E m \in Miner : DelMiner(m) \/ \E u \in User : UpsertMiner(m, u)

Spec == Init /\ [][Next]_svars
-----------------------------------------------------------------------------
(* Properties *)

\* Rows and layouts have the columns and indexes of store.go:259-265, and only
\* a migrated database is served.
TypeOK == /\ users \in [User -> Text \cup {Nil}]
          /\ table \in Layout \cup {Nil}
          /\ rows \subseteq Row
          /\ old \subseteq Row
          /\ tableVersion \in 0..3
          /\ step \in Steps
          /\ At("serving") => tableVersion = 3

\* "miner-user(1-1)" (store.go:71), which the handlers leave to an index: a
\* miner has one row wherever the migration was cut off and in whatever layout
\* the server then serves.  HasColumn skips all of MigrateToV3 when only its
\* second statement was reached; the unique index is then AutoMigrate's.
MinerHasOneRow == \A r, s \in rows : r.miner = s.miner => r = s

\* No start loses or makes up a binding, across all cuts and layouts.  The
\* miner of every user of version 0 has a row from version 1 on.  The rows of
\* an older release are all there as it left them until version 3 is saved,
\* after which clients write, and then no miner of theirs loses its row.  A
\* row that no client of this release wrote has the user of the older release
\* or, if there was none, a user that had the miner.
SqlKeepsBindings ==
  /\ tableVersion >= 1 => \A m \in HadByUsers : RowsOf(m) # {}
  /\ tableVersion < 3 => old \subseteq rows
  /\ \A o \in old : RowsOf(o.miner) # {}
  /\ \A r \in rows : r.open = "default" =>
       \/ \E o \in old : /\ o.miner = r.miner /\ o.user = r.user
                        /\ o.deleted => r.deleted
       \/ old = {} /\ users[r.user] # Nil /\ Parse[users[r.user]] = r.miner

\* Of all the points where MigrateToV3 can be cut off one leaves a table that
\* no later start can migrate: after its first statement, before its second
\* (mysql.go:506-510).  No other statement of a start ever fails.
OneCutIsFatal == AlterFails => At("migrate") /\ table.pk = "none"

\* That table, and no start that is between the two statements.
CutFatally == table # Nil /\ table.pk = "none" /\ ~At("add_id")

\* The layout that each step finds: a start that came past Open has a unique
\* index or no id, and each statement of version 3 finds what the one before
\* it left.  Version 3 is only saved for a table whose rows are unique.
LayoutOK ==
  /\ tableVersion = 0 => old = {}
  /\ table = Nil => rows = {} /\ tableVersion = 0 /\ step \in {"down", "killed", "open"}
  /\ table # Nil =>
       /\ table.pk = "miner" => table = OldLayout
       /\ table.pk = "none" => table.user_idx /\ ~table.unique
       /\ tableVersion = 3 => table.pk = "id" /\ table.unique
       /\ At("migrate") /\ table.pk = "id" => table.unique
       /\ At("add_id") => table.pk = "none"
       /\ At("drop_index") => table.pk = "id" /\ table.user_idx /\ ~table.unique
       /\ At("add_unique") => table.pk = "id" /\ ~table.user_idx /\ ~table.unique
       /\ At("save_version") => table.pk = "id" /\ table.unique
       /\ step \in {"add_id", "drop_index", "add_unique", "save_version"} => tableVersion = 2

\* The inductive invariant.
IInv == TypeOK /\ LayoutOK /\ MinerHasOneRow /\ SqlKeepsBindings
=============================================================================
