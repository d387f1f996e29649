-------------------------- MODULE MigrationProofs --------------------------
(* Theorems about NewStore: the migrations of both stores, for any users,  *)
(* miners and texts.                                                       *)
EXTENDS NewStore, FiniteSetTheorems, WellFoundedInduction, TLAPS

-----------------------------------------------------------------------------
(* The order in which badger walks keys *)

\* Among any texts there is a last one: take one with the fewest after it.
LEMMA LastText ==
  ASSUME NEW S, S \subseteq Text, S # {}
  PROVE  Last(S) \in S
<1> DEFINE After(t) == {s \in S : Rank[s] > Rank[t]}
           N == {Cardinality(After(t)) : t \in S}
<1>1. \A t \in Text : Rank[t] \in Nat
  BY ConstantsOK
<1>2. \A t \in S : IsFiniteSet(After(t)) /\ Cardinality(After(t)) \in Nat
  <2>1. IsFiniteSet(S)
    BY TextOK, FS_Subset
  <2>2. \A t \in S : After(t) \subseteq S
    OBVIOUS
  <2>3. QED BY <2>1, <2>2, FS_Subset, FS_CardinalityType
<1>3. N \subseteq Nat /\ N # {}
  BY <1>2
<1>4. PICK n \in N : \A k \in N : ~(<<k, n>> \in OpToRel(<, Nat))
  BY <1>3, NatLessThanWellFounded, WFMin
<1>5. \A k \in N : ~(k < n)
  BY <1>3, <1>4 DEF OpToRel
<1>6. PICK t \in S : n = Cardinality(After(t))
  OBVIOUS
<1>7. ASSUME NEW s \in S, ~(Rank[s] <= Rank[t]) PROVE FALSE
  <2>1. Rank[s] \in Nat /\ Rank[t] \in Nat /\ Rank[s] > Rank[t]
    BY <1>1, <1>7
  <2>2. After(s) \subseteq After(t) /\ s \in After(t) /\ s \notin After(s)
    BY <1>1, <2>1
  <2>3. After(s) # After(t)
    BY <2>2
  <2>4. Cardinality(After(s)) < Cardinality(After(t))
    BY <1>2, <2>2, <2>3, FS_Subset
  <2>5. QED BY <1>5, <1>6, <2>4
<1>8. \E x \in S : \A s \in S : Rank[s] <= Rank[x]
  BY <1>7
<1>9. QED BY <1>8 DEF Last

-----------------------------------------------------------------------------
(* The badger store *)

\* The invariant looks at the miners and the version; a step that leaves the
\* records and brings the process on keeps it.
LEMMA KeepRecords ==
  ASSUME IInv, users' = users, miners' = miners, version' \in 0..3,
         version' = version \/ (version = 2 /\ version' = 3),
         proc' \in {"down", "starting", "serving"}, proc' = "serving" => version' = 3
  PROVE  IInv'
<1>1. TypeOK'
  BY DEF IInv, TypeOK
<1>2. version = version' \/ version >= 2
  OBVIOUS
<1>3. MigrationKeepsBindings'
  BY <1>2 DEF IInv, TypeOK, MigrationKeepsBindings, TextsOf
<1>4. QED BY <1>1, <1>2, <1>3 DEF IInv, TypeOK

\* Version 1: one of the users that had a text is named in the record of it.
LEMMA MigrateToV1Inv == ASSUME IInv, MigrateToV1 PROVE IInv'
<1>1. PICK heir \in [Text -> User] :
        /\ \A t \in Text : (\E u \in User : users[u] = t) => users[heir[t]] = t
        /\ Migrate(0, [t \in Text |->
             IF Parse[t] # Nil /\ users[heir[t]] = t
             THEN [user |-> heir[t], deleted |-> FALSE, open |-> "unset"]
             ELSE miners[t]])
  BY DEF MigrateToV1
<1>2. /\ version = 0 /\ version' = 1 /\ users' = users /\ proc' = "starting"
      /\ \A t \in Text : miners[t] = Nil
      /\ TypeOK
  BY <1>1 DEF Migrate, VersionGate, IInv
<1>3. /\ miners' = [t \in Text |-> miners'[t]]
      /\ \A t \in Text : IF Parse[t] # Nil /\ users[heir[t]] = t
                         THEN miners'[t] = [user |-> heir[t], deleted |-> FALSE, open |-> "unset"]
                         ELSE miners'[t] = Nil
  BY <1>1, <1>2 DEF Migrate
<1>4. \A t \in Text : heir[t] \in User
  BY <1>1
<1>5. ASSUME NEW t \in Text, Parse[t] # Nil, users[heir[t]] = t
      PROVE  miners'[t] \in MinerRec /\ miners'[t].user = heir[t] /\ miners'[t].open = "unset"
  <2>1. PICK h \in User : h = heir[t]
    BY <1>4
  <2>2. miners'[t] = [user |-> h, deleted |-> FALSE, open |-> "unset"]
    BY <1>3, <1>5, <2>1
  <2>3. QED BY <2>1, <2>2 DEF MinerRec
<1>6. Nil \notin MinerRec
  BY ConstantsOK
<1>7. TypeOK'
  <2>1. \A t \in Text : miners'[t] \in MinerRec \cup {Nil}
    BY <1>3, <1>5
  <2>2. QED BY <1>2, <1>3, <2>1 DEF TypeOK
<1>8. MigrationKeepsBindings'
  <2>1. ASSUME NEW u \in User, users[u] # Nil, Parse[users[u]] # Nil
        PROVE  \E t \in TextsOf(Parse[users[u]]) : miners'[t] # Nil
    <3>1. users[u] \in Text
      BY <1>2, <2>1 DEF TypeOK
    <3>2. users[heir[users[u]]] = users[u]
      BY <1>1, <3>1
    <3>3. miners'[users[u]] # Nil
      BY <1>5, <1>6, <2>1, <3>1, <3>2
    <3>4. QED BY <3>1, <3>3 DEF TextsOf
  <2>2. ASSUME NEW t \in Text, miners'[t] # Nil
        PROVE  \E s \in TextsOf(Parse[t]) : users[miners'[t].user] = s
    <3>1. Parse[t] # Nil /\ users[heir[t]] = t
      BY <1>3, <2>2
    <3>2. users[miners'[t].user] = t
      BY <1>5, <3>1
    <3>3. QED BY <3>2 DEF TextsOf
  <2>3. QED BY <1>2, <2>1, <2>2 DEF MigrationKeepsBindings, TextsOf
<1>9. \A t \in Text : miners'[t] # Nil => miners'[t].open # "sent"
  BY <1>3, <1>5
<1>10. QED BY <1>2, <1>7, <1>8, <1>9 DEF IInv

\* Version 2: the records of one miner are written to the key the handlers use.
LEMMA MigrateToV2Inv == ASSUME IInv, MigrateToV2 PROVE IInv'
<1> DEFINE From(t) == {s \in WrittenTo(t) : miners[s] # Nil}
<1>1. /\ version = 1 /\ version' = 2 /\ users' = users /\ proc' = "starting"
      /\ \A t \in Text : miners[t] # Nil => miners[t].open # "sent"
      /\ TypeOK /\ MigrationKeepsBindings
  BY DEF MigrateToV2, Migrate, VersionGate, IInv
<1>2. /\ miners' = [t \in Text |-> miners'[t]]
      /\ \A t \in Text : miners'[t] = IF From(t) = {} THEN miners[t]
                                      ELSE [miners[Last(From(t))] EXCEPT !.open = "default"]
  BY DEF MigrateToV2, Migrate
<1>3. ASSUME NEW t \in Text, From(t) # {}
      PROVE  \E s \in From(t) : /\ miners'[t] \in MinerRec
                                /\ miners'[t].user = miners[s].user
                                /\ miners'[t].open = "default"
  <2>1. From(t) \subseteq Text
    BY DEF WrittenTo
  <2>2. Last(From(t)) \in From(t)
    BY <1>3, <2>1, LastText
  <2>3. PICK s \in From(t) : s = Last(From(t))
    BY <2>2
  <2>4. miners[s] \in MinerRec
    BY <1>1, <2>1 DEF TypeOK
  <2>5. miners'[t] = [miners[s] EXCEPT !.open = "default"]
    BY <1>2, <1>3, <2>3
  <2>6. QED BY <2>4, <2>5 DEF MinerRec
<1>4. \A t \in Text : From(t) = {} => miners'[t] = miners[t]
  BY <1>2
<1>5. Nil \notin MinerRec
  BY ConstantsOK
<1>6. TypeOK'
  <2>1. \A t \in Text : miners'[t] \in MinerRec \cup {Nil}
    BY <1>1, <1>3, <1>4 DEF TypeOK
  <2>2. QED BY <1>1, <1>2, <2>1 DEF TypeOK
<1>7. MigrationKeepsBindings'
  <2>1. ASSUME NEW u \in User, users[u] # Nil, Parse[users[u]] # Nil
        PROVE  LET m == Parse[users[u]] IN
               /\ \E t \in TextsOf(m) : miners'[t] # Nil
               /\ miners'[Spelling[m]] # Nil /\ miners'[Spelling[m]].open # "unset"
    <3> DEFINE m == Parse[users[u]]
               k == Spelling[m]
    <3>1. users[u] \in Text /\ m \in Miner
      BY <1>1, <2>1, ConstantsOK DEF TypeOK
    <3>2. k \in Text /\ Parse[k] = m
      BY <3>1, ConstantsOK
    <3>3. PICK t \in TextsOf(m) : miners[t] # Nil
      BY <1>1, <2>1 DEF MigrationKeepsBindings
    <3>4. t \in From(k)
      BY <2>1, <3>3 DEF TextsOf, WrittenTo
    <3>5. miners'[k] \in MinerRec /\ miners'[k].open = "default"
      BY <1>3, <3>2, <3>4
    <3>6. QED BY <1>5, <3>2, <3>5 DEF TextsOf
  <2>2. ASSUME NEW t \in Text, miners'[t] # Nil
        PROVE  \E s \in TextsOf(Parse[t]) : users[miners'[t].user] = s
    <3>1. CASE From(t) = {}
      BY <1>1, <1>4, <2>2, <3>1 DEF MigrationKeepsBindings
    <3>2. CASE From(t) # {}
      <4>1. PICK s \in From(t) : miners'[t].user = miners[s].user
        BY <1>3, <3>2
      <4>2. s \in Text /\ miners[s] # Nil /\ Parse[s] # Nil /\ Spelling[Parse[s]] = t
        BY DEF WrittenTo
      <4>3. Parse[t] = Parse[s]
        BY <4>2, ConstantsOK
      <4>4. \E x \in TextsOf(Parse[s]) : users[miners[s].user] = x
        BY <1>1, <4>2 DEF MigrationKeepsBindings
      <4>5. QED BY <4>1, <4>3, <4>4
    <3>3. QED BY <3>1, <3>2
  <2>3. QED BY <1>1, <2>1, <2>2 DEF MigrationKeepsBindings, TextsOf
<1>8. \A t \in Text : miners'[t] # Nil => miners'[t].open # "sent"
  BY <1>1, <1>3, <1>4
<1>9. QED BY <1>1, <1>6, <1>7, <1>8 DEF IInv

LEMMA UpsertMinerInv ==
  ASSUME IInv, NEW m \in Miner, NEW u \in User, UpsertMiner(m, u)
  PROVE  IInv'
<1> DEFINE k == Spelling[m]
           x == [user |-> u, deleted |-> FALSE, open |-> "sent"]
<1>1. /\ users' = users /\ version' = version /\ proc' = proc /\ version = 3
      /\ TypeOK /\ MigrationKeepsBindings
  BY DEF UpsertMiner, IInv, TypeOK
<1>2. k \in Text
  BY ConstantsOK
<1>3. x \in MinerRec /\ x.open = "sent" /\ miners' = [miners EXCEPT ![k] = x]
  BY DEF MinerRec, UpsertMiner
<1> HIDE DEF x
<1>4. Nil \notin MinerRec
  BY ConstantsOK
<1>5. miners'[k] = x /\ \A t \in Text \ {k} : miners'[t] = miners[t]
  BY <1>1, <1>2, <1>3 DEF TypeOK
<1>6. TypeOK'
  BY <1>1, <1>3 DEF TypeOK
<1>7. MigrationKeepsBindings'
  <2>1. \A t \in Text : miners[t] # Nil => miners'[t] # Nil
    BY <1>3, <1>4, <1>5
  <2>2. \A t \in Text : /\ miners[t] # Nil /\ miners[t].open # "unset" =>
                             miners'[t] # Nil /\ miners'[t].open # "unset"
                        /\ miners'[t] # Nil /\ miners'[t].open # "sent" =>
                             miners[t] # Nil /\ miners[t].open # "sent" /\ miners'[t] = miners[t]
    BY <1>3, <1>4, <1>5
  <2>3. \A y \in Miner : Spelling[y] \in Text
    BY ConstantsOK
  <2>4. \A w \in User : users[w] # Nil /\ Parse[users[w]] # Nil => Parse[users[w]] \in Miner
    BY <1>1, ConstantsOK DEF TypeOK
  <2>5. QED BY <1>1, <2>1, <2>2, <2>3, <2>4 DEF MigrationKeepsBindings, TextsOf
<1>8. QED BY <1>1, <1>6, <1>7 DEF IInv

LEMMA DelMinerInv ==
  ASSUME IInv, NEW m \in Miner, DelMiner(m)
  PROVE  IInv'
<1> DEFINE k == Spelling[m]
<1>1. /\ users' = users /\ version' = version /\ proc' = proc /\ version = 3
      /\ TypeOK /\ MigrationKeepsBindings
  BY DEF DelMiner, IInv, TypeOK
<1>2. k \in Text /\ miners[k] # Nil /\ miners' = [miners EXCEPT ![k].deleted = TRUE]
  BY ConstantsOK DEF DelMiner, Live
<1>3. miners[k] \in MinerRec
  BY <1>1, <1>2 DEF TypeOK
<1>4. PICK x : x = [miners[k] EXCEPT !.deleted = TRUE]
  OBVIOUS
<1>5. x \in MinerRec /\ x.user = miners[k].user /\ x.open = miners[k].open
  BY <1>3, <1>4 DEF MinerRec
<1>6. miners' = [miners EXCEPT ![k] = x]
  BY <1>2, <1>4
<1>7. Nil \notin MinerRec
  BY ConstantsOK
<1>8. miners'[k] = x /\ \A t \in Text \ {k} : miners'[t] = miners[t]
  BY <1>1, <1>2, <1>6 DEF TypeOK
<1>9. TypeOK'
  BY <1>1, <1>5, <1>6 DEF TypeOK
<1>10. \A t \in Text : /\ miners[t] # Nil <=> miners'[t] # Nil
                       /\ miners[t] # Nil => /\ miners'[t].user = miners[t].user
                                             /\ miners'[t].open = miners[t].open
  BY <1>2, <1>5, <1>7, <1>8
<1>11. MigrationKeepsBindings'
  <2>1. \A y \in Miner : Spelling[y] \in Text
    BY ConstantsOK
  <2>2. \A w \in User : users[w] # Nil /\ Parse[users[w]] # Nil => Parse[users[w]] \in Miner
    BY <1>1, ConstantsOK DEF TypeOK
  <2>3. QED BY <1>1, <1>10, <2>1, <2>2 DEF MigrationKeepsBindings, TextsOf
<1>12. QED BY <1>1, <1>9, <1>11 DEF IInv

LEMMA BadgerNext == ASSUME IInv, Next PROVE IInv'
<1>1. CASE Start \/ Serve \/ Crash \/ MigrateToV3
  BY <1>1, KeepRecords DEF Start, Serve, Crash, MigrateToV3, Migrate, VersionGate, IInv, TypeOK
<1>2. QED
  BY <1>1, MigrateToV1Inv, MigrateToV2Inv, UpsertMinerInv, DelMinerInv DEF Next

-----------------------------------------------------------------------------
(* The MySQL store *)

\* A step that leaves the rows.
LEMMA KeepRows ==
  ASSUME Sql!IInv, users' = users, rows' = rows, old' = old, tableVersion' \in 0..3,
         tableVersion' = tableVersion \/ tableVersion >= 1,
         tableVersion' >= tableVersion
  PROVE  Sql!MinerHasOneRow' /\ Sql!SqlKeepsBindings'
<1>1. Sql!MinerHasOneRow'
  BY DEF Sql!IInv, Sql!MinerHasOneRow
<1>2. (tableVersion' >= 1 => tableVersion >= 1) /\ (tableVersion' < 3 => tableVersion < 3)
  BY DEF Sql!IInv, Sql!TypeOK
<1>3. Sql!SqlKeepsBindings'
  BY <1>2 DEF Sql!IInv, Sql!SqlKeepsBindings, Sql!RowsOf, Sql!HadByUsers
<1>4. QED BY <1>1, <1>3

\* A layout and what the steps of version 3 make of it.
LEMMA Layouts ==
  /\ Sql!OldLayout \in Sql!Layout /\ Sql!NewLayout \in Sql!Layout
  /\ Sql!OldLayout # Nil /\ Sql!NewLayout # Nil
  /\ Sql!NewLayout.pk = "id" /\ Sql!NewLayout.unique /\ ~Sql!NewLayout.user_idx
  /\ Sql!OldLayout.pk = "miner" /\ ~Sql!OldLayout.unique /\ Sql!OldLayout.user_idx
<1>1. Sql!OldLayout \in Sql!Layout
  BY DEF Sql!OldLayout, Sql!Layout
<1>2. Sql!NewLayout \in Sql!Layout
  BY DEF Sql!NewLayout, Sql!Layout
<1>3. Sql!NewLayout.pk = "id" /\ Sql!NewLayout.unique /\ ~Sql!NewLayout.user_idx
  BY DEF Sql!NewLayout
<1>4. Sql!OldLayout.pk = "miner" /\ ~Sql!OldLayout.unique /\ Sql!OldLayout.user_idx
  BY DEF Sql!OldLayout
<1>5. QED BY <1>1, <1>2, <1>3, <1>4, LayoutIsNotNil

\* The steps that change neither table nor rows.
LEMMA SqlStill ==
  ASSUME Sql!IInv,
         \/ Sql!Start \/ Sql!MigrateToV2 \/ Sql!SaveVersion \/ Sql!Serve \/ Sql!Exit \/ Sql!Crash
  PROVE  Sql!IInv'
<1>1. users' = users /\ rows' = rows /\ table' = table /\ old' = old
  BY DEF Sql!Start, Sql!MigrateToV2, Sql!SaveVersion, Sql!Serve, Sql!Exit, Sql!Crash, Sql!Goto
<1>2. /\ tableVersion' \in 0..3
      /\ tableVersion' = tableVersion \/ tableVersion >= 1
      /\ tableVersion' >= tableVersion
  BY DEF Sql!Start, Sql!MigrateToV2, Sql!SaveVersion, Sql!Serve, Sql!Exit, Sql!Crash,
         Sql!VersionIs, Sql!IInv, Sql!TypeOK, Sql!LayoutOK, Sql!At
<1>3. Sql!TypeOK'
  BY <1>1, <1>2 DEF Sql!Start, Sql!MigrateToV2, Sql!SaveVersion, Sql!Serve, Sql!Exit, Sql!Crash,
         Sql!VersionIs, Sql!IInv, Sql!TypeOK, Sql!At, Sql!Goto, Sql!Steps
<1>4. Sql!LayoutOK'
  BY <1>1, <1>2 DEF Sql!Start, Sql!MigrateToV2, Sql!SaveVersion, Sql!Serve, Sql!Exit, Sql!Crash,
         Sql!VersionIs, Sql!IInv, Sql!LayoutOK, Sql!At, Sql!Goto
<1>5. QED BY <1>1, <1>2, <1>3, <1>4, KeepRows DEF Sql!IInv

\* The steps that change the layout.
LEMMA SqlAlter ==
  ASSUME Sql!IInv,
         Sql!Open \/ Sql!MigrateToV3 \/ Sql!AddId \/ Sql!DropIndex \/ Sql!AddUnique
  PROVE  Sql!IInv'
<1>1. users' = users /\ rows' = rows /\ tableVersion' = tableVersion /\ old' = old
  BY DEF Sql!Open, Sql!MigrateToV3, Sql!AddId, Sql!DropIndex, Sql!AddUnique, Sql!Goto
<1>2. Sql!TypeOK /\ Sql!LayoutOK
  BY DEF Sql!IInv
<1>3. Sql!TypeOK' /\ Sql!LayoutOK'
  <2>1. CASE Sql!Open
    <3>1. CASE table = Nil
      <4>1. table' = Sql!NewLayout /\ step' = "migrate"
        BY <2>1, <3>1 DEF Sql!Open, Sql!Goto
      <4>2. rows = {} /\ tableVersion = 0
        BY <1>2, <3>1 DEF Sql!LayoutOK
      <4>3. QED BY <1>1, <1>2, <4>1, <4>2, Layouts DEF Sql!TypeOK, Sql!LayoutOK, Sql!At, Sql!Steps
    <3>2. CASE table # Nil /\ table.pk = "id"
      <4>1. table' = [table EXCEPT !.unique = TRUE] /\ step' = "migrate" /\ table \in Sql!Layout
        BY <1>2, <2>1, <3>2 DEF Sql!Open, Sql!Goto, Sql!HasColumnID, Sql!TypeOK
      <4>2. table' \in Sql!Layout /\ table'.pk = "id" /\ table'.unique
        BY <3>2, <4>1 DEF Sql!Layout
      <4>3. QED BY <1>1, <1>2, <3>2, <4>1, <4>2, LayoutIsNotNil
                DEF Sql!TypeOK, Sql!LayoutOK, Sql!At, Sql!Steps
    <3>3. CASE table # Nil /\ table.pk # "id"
      <4>1. table' = table /\ step' = "migrate"
        BY <2>1, <3>3 DEF Sql!Open, Sql!Goto, Sql!HasColumnID
      <4>2. QED BY <1>1, <1>2, <3>3, <4>1 DEF Sql!TypeOK, Sql!LayoutOK, Sql!At, Sql!Steps
    <3>4. QED BY <3>1, <3>2, <3>3
  <2>2. ASSUME ~Sql!Open PROVE table # Nil /\ table \in Sql!Layout
    BY <1>2, <2>2 DEF Sql!MigrateToV3, Sql!AddId, Sql!DropIndex, Sql!AddUnique, Sql!LayoutOK,
                      Sql!VersionIs, Sql!At, Sql!TypeOK
  <2>3. CASE Sql!MigrateToV3 /\ table # Nil /\ table \in Sql!Layout
    <3>1. CASE table.pk = "id" /\ table' = table /\ step' = "save_version"
      BY <1>1, <1>2, <2>3, <3>1
         DEF Sql!MigrateToV3, Sql!VersionIs, Sql!TypeOK, Sql!LayoutOK, Sql!At, Sql!Steps
    <3>2. CASE table.pk = "miner" /\ table' = [table EXCEPT !.pk = "none"] /\ step' = "add_id"
      <4>1. table = Sql!OldLayout
        BY <1>2, <2>3, <3>2 DEF Sql!LayoutOK
      <4>2. table' \in Sql!Layout /\ table'.pk = "none" /\ table'.user_idx /\ ~table'.unique
        BY <3>2, <4>1, Layouts DEF Sql!Layout
      <4>3. QED BY <1>1, <1>2, <2>3, <3>2, <4>2, LayoutIsNotNil
                DEF Sql!MigrateToV3, Sql!VersionIs, Sql!TypeOK, Sql!LayoutOK, Sql!At, Sql!Steps
    <3>3. QED BY <2>3, <3>1, <3>2 DEF Sql!MigrateToV3, Sql!NoAlter, Sql!HasColumnID, Sql!Goto
  <2>4. CASE Sql!AddId /\ table # Nil /\ table \in Sql!Layout
    <3>1. table' = [table EXCEPT !.pk = "id"] /\ step' = "drop_index" /\ step = "add_id"
      BY <2>4 DEF Sql!AddId, Sql!Goto, Sql!At
    <3>2. table.pk = "none" /\ table.user_idx /\ ~table.unique /\ tableVersion = 2
      BY <1>2, <2>4, <3>1 DEF Sql!LayoutOK, Sql!AddId
    <3>3. table' \in Sql!Layout /\ table'.pk = "id" /\ table'.user_idx /\ ~table'.unique
      BY <2>4, <3>1, <3>2 DEF Sql!Layout
    <3>4. QED BY <1>1, <1>2, <3>1, <3>2, <3>3, LayoutIsNotNil
              DEF Sql!TypeOK, Sql!LayoutOK, Sql!At, Sql!Steps
  <2>5. CASE Sql!DropIndex /\ table # Nil /\ table \in Sql!Layout
    <3>1. table' = [table EXCEPT !.user_idx = FALSE] /\ step' = "add_unique" /\ step = "drop_index"
      BY <2>5 DEF Sql!DropIndex, Sql!Goto, Sql!At
    <3>2. table.pk = "id" /\ ~table.unique /\ tableVersion = 2
      BY <1>2, <2>5, <3>1 DEF Sql!LayoutOK, Sql!At
    <3>3. table' \in Sql!Layout /\ table'.pk = "id" /\ ~table'.user_idx /\ ~table'.unique
      BY <2>5, <3>1, <3>2 DEF Sql!Layout
    <3>4. QED BY <1>1, <1>2, <3>1, <3>2, <3>3, LayoutIsNotNil
              DEF Sql!TypeOK, Sql!LayoutOK, Sql!At, Sql!Steps
  <2>6. CASE Sql!AddUnique /\ table # Nil /\ table \in Sql!Layout
    <3>1. table' = [table EXCEPT !.unique = TRUE] /\ step' = "save_version" /\ step = "add_unique"
      BY <2>6 DEF Sql!AddUnique, Sql!Goto, Sql!At
    <3>2. table.pk = "id" /\ tableVersion = 2
      BY <1>2, <2>6, <3>1 DEF Sql!LayoutOK, Sql!At
    <3>3. table' \in Sql!Layout /\ table'.pk = "id" /\ table'.unique
      BY <2>6, <3>1, <3>2 DEF Sql!Layout
    <3>4. QED BY <1>1, <1>2, <3>1, <3>2, <3>3, LayoutIsNotNil
              DEF Sql!TypeOK, Sql!LayoutOK, Sql!At, Sql!Steps
  <2>7. QED BY <2>1, <2>2, <2>3, <2>4, <2>5, <2>6
<1>4. tableVersion' \in 0..3 /\ tableVersion' >= tableVersion
  BY <1>1, <1>2 DEF Sql!TypeOK
<1>5. QED BY <1>1, <1>3, <1>4, KeepRows DEF Sql!IInv

\* Version 1: one row for each miner that some user has.
LEMMA SqlMigrateToV1 == ASSUME Sql!IInv, Sql!MigrateToV1 PROVE Sql!IInv'
<1> DEFINE had(m) == {u \in User : users[u] # Nil /\ Parse[users[u]] = m}
           found  == {m \in Miner : had(m) # {}}
<1>1. PICK heir \in [Miner -> User] :
        /\ \A m \in found : heir[m] \in had(m)
        /\ rows' = {r \in rows : r.miner \notin found} \cup
                   {[miner |-> m, user |-> heir[m], deleted |-> FALSE,
                     open |-> "default"] : m \in found}
  BY DEF Sql!MigrateToV1
<1>2. /\ step = "migrate" /\ tableVersion = 0 /\ tableVersion' = 1
      /\ users' = users /\ table' = table /\ step' = step /\ old' = old /\ old = {}
      /\ Sql!TypeOK /\ Sql!LayoutOK /\ Sql!MinerHasOneRow /\ Sql!SqlKeepsBindings
  BY DEF Sql!MigrateToV1, Sql!VersionIs, Sql!At, Sql!IInv, Sql!LayoutOK
<1> DEFINE row(m) == [miner |-> m, user |-> heir[m], deleted |-> FALSE, open |-> "default"]
<1>3. ASSUME NEW m \in found
      PROVE  row(m) \in Sql!Row /\ row(m).miner = m /\ row(m).user = heir[m]
  <2>1. PICK h \in User : h = heir[m]
    BY <1>1
  <2>2. PICK r : r = [miner |-> m, user |-> h, deleted |-> FALSE, open |-> "default"]
    OBVIOUS
  <2>3. r \in Sql!Row /\ r.miner = m /\ r.user = h
    BY <2>2 DEF Sql!Row
  <2>4. QED BY <2>1, <2>2, <2>3
<1>4. rows' = {r \in rows : r.miner \notin found} \cup {row(m) : m \in found}
  BY <1>1
<1> HIDE DEF row
<1>5. Sql!TypeOK' /\ Sql!LayoutOK'
  <2>1. rows' \subseteq Sql!Row
    BY <1>2, <1>3, <1>4 DEF Sql!TypeOK
  <2>2. QED BY <1>2, <2>1 DEF Sql!TypeOK, Sql!LayoutOK, Sql!At, Sql!Steps
<1>6. Sql!MinerHasOneRow'
  BY <1>2, <1>3, <1>4 DEF Sql!MinerHasOneRow
<1>7. Sql!SqlKeepsBindings'
  <2>1. \A m \in Sql!HadByUsers : \E r \in rows' : r.miner = m
    <3>1. Sql!HadByUsers = found
      BY DEF Sql!HadByUsers
    <3>2. QED BY <1>3, <1>4, <3>1
  <2>2. ASSUME NEW r \in rows', r.open = "default"
        PROVE  users[r.user] # Nil /\ Parse[users[r.user]] = r.miner
    BY <1>1, <1>2, <1>3, <1>4, <2>2 DEF Sql!SqlKeepsBindings
  <2>3. Sql!HadByUsers' = Sql!HadByUsers
    BY <1>2 DEF Sql!HadByUsers
  <2>4. QED BY <1>2, <2>1, <2>2, <2>3 DEF Sql!SqlKeepsBindings, Sql!RowsOf
<1>8. QED BY <1>5, <1>6, <1>7 DEF Sql!IInv

\* The store is served in a layout that has one row for a miner.
LEMMA SqlServed == ASSUME Sql!IInv, step = "serving" PROVE Sql!OnePerMiner
BY DEF Sql!IInv, Sql!TypeOK, Sql!LayoutOK, Sql!At, Sql!OnePerMiner

LEMMA SqlUpsertMiner ==
  ASSUME Sql!IInv, NEW m \in Miner, NEW u \in User, Sql!UpsertMiner(m, u)
  PROVE  Sql!IInv'
<1>1. PICK x : x = [miner |-> m, user |-> u, deleted |-> FALSE, open |-> "sent"]
  OBVIOUS
<1>2. x \in Sql!Row /\ x.miner = m /\ x.open = "sent"
  BY <1>1 DEF Sql!Row
<1>3. /\ step = "serving" /\ users' = users /\ table' = table /\ step' = step /\ old' = old
      /\ tableVersion' = tableVersion /\ rows' = Sql!Upsert(rows, x)
      /\ Sql!TypeOK /\ Sql!LayoutOK /\ Sql!MinerHasOneRow /\ Sql!SqlKeepsBindings
  BY <1>1 DEF Sql!UpsertMiner, Sql!At, Sql!IInv
<1>4. rows' = {r \in rows : r.miner # m} \cup {x}
  BY <1>2, <1>3, SqlServed DEF Sql!Upsert
<1>5. Sql!TypeOK' /\ Sql!LayoutOK'
  BY <1>2, <1>3, <1>4 DEF Sql!TypeOK, Sql!LayoutOK, Sql!At
<1>6. Sql!MinerHasOneRow'
  BY <1>2, <1>3, <1>4 DEF Sql!MinerHasOneRow
<1>7. Sql!SqlKeepsBindings'
  <2>1. \A y : (\E r \in rows : r.miner = y) => \E r \in rows' : r.miner = y
    BY <1>2, <1>4
  <2>2. \A r \in rows' : r.open = "default" => r \in rows
    BY <1>2, <1>4
  <2>3. tableVersion = 3 /\ tableVersion' = 3
    BY <1>3 DEF Sql!TypeOK, Sql!At
  <2>4. Sql!HadByUsers' = Sql!HadByUsers
    BY <1>3 DEF Sql!HadByUsers
  <2>5. \A o \in old : \E r \in rows : r.miner = o.miner
    BY <1>3 DEF Sql!SqlKeepsBindings, Sql!RowsOf
  <2>6. \A m1 \in Sql!HadByUsers : \E r \in rows : r.miner = m1
    BY <1>3, <2>3 DEF Sql!SqlKeepsBindings, Sql!RowsOf
  <2>7. (\A m1 \in Sql!HadByUsers' : Sql!RowsOf(m1)' # {}) /\ \A o \in old' : Sql!RowsOf(o.miner)' # {}
    BY <1>3, <2>1, <2>4, <2>5, <2>6 DEF Sql!RowsOf
  <2>8. QED BY <1>3, <2>2, <2>3, <2>7 DEF Sql!SqlKeepsBindings
<1>8. QED BY <1>5, <1>6, <1>7 DEF Sql!IInv

LEMMA SqlDelMiner ==
  ASSUME Sql!IInv, NEW m \in Miner, Sql!DelMiner(m)
  PROVE  Sql!IInv'
<1> DEFINE gone(r) == [r EXCEPT !.deleted = @ \/ r.miner = m]
<1>1. /\ step = "serving" /\ users' = users /\ table' = table /\ step' = step /\ old' = old
      /\ tableVersion' = tableVersion /\ rows' = {gone(r) : r \in rows}
      /\ Sql!TypeOK /\ Sql!LayoutOK /\ Sql!MinerHasOneRow /\ Sql!SqlKeepsBindings
  BY DEF Sql!DelMiner, Sql!At, Sql!IInv
<1>2. ASSUME NEW r \in rows
      PROVE  /\ gone(r) \in Sql!Row /\ gone(r).miner = r.miner
             /\ gone(r).user = r.user /\ gone(r).open = r.open
             /\ (r.deleted => gone(r).deleted)
  <2>1. r \in Sql!Row
    BY <1>1 DEF Sql!TypeOK
  <2>2. PICK d \in BOOLEAN : d = (r.deleted \/ r.miner = m)
    OBVIOUS
  <2>3. gone(r) = [r EXCEPT !.deleted = d]
    BY <2>2
  <2>4. QED BY <2>1, <2>3 DEF Sql!Row
<1> HIDE DEF gone
<1>3. Sql!TypeOK' /\ Sql!LayoutOK'
  <2>1. rows' \subseteq Sql!Row
    BY <1>1, <1>2
  <2>2. rows = {} => rows' = {}
    BY <1>1
  <2>3. QED BY <1>1, <2>1, <2>2 DEF Sql!TypeOK, Sql!LayoutOK, Sql!At
<1>4. Sql!MinerHasOneRow'
  BY <1>1, <1>2 DEF Sql!MinerHasOneRow
<1>5. Sql!SqlKeepsBindings'
  <2>1. \A y : (\E r \in rows : r.miner = y) => \E r \in rows' : r.miner = y
    BY <1>1, <1>2
  <2>2. \A s \in rows' : \E r \in rows : /\ s.miner = r.miner /\ s.user = r.user
                                        /\ s.open = r.open /\ (r.deleted => s.deleted)
    BY <1>1, <1>2
  <2>3. tableVersion = 3 /\ tableVersion' = 3
    BY <1>1 DEF Sql!TypeOK, Sql!At
  <2>4. Sql!HadByUsers' = Sql!HadByUsers
    BY <1>1 DEF Sql!HadByUsers
  <2>5. \A o \in old : \E r \in rows : r.miner = o.miner
    BY <1>1 DEF Sql!SqlKeepsBindings, Sql!RowsOf
  <2>6. \A m1 \in Sql!HadByUsers : \E r \in rows : r.miner = m1
    BY <1>1, <2>3 DEF Sql!SqlKeepsBindings, Sql!RowsOf
  <2>7. (\A m1 \in Sql!HadByUsers' : Sql!RowsOf(m1)' # {}) /\ \A o \in old' : Sql!RowsOf(o.miner)' # {}
    BY <1>1, <2>1, <2>4, <2>5, <2>6 DEF Sql!RowsOf
  <2>8. ASSUME NEW s \in rows', s.open = "default"
        PROVE  \/ \E o \in old' : /\ o.miner = s.miner /\ o.user = s.user
                                 /\ o.deleted => s.deleted
               \/ old' = {} /\ users'[s.user] # Nil /\ Parse[users'[s.user]] = s.miner
    <3>1. PICK r \in rows : /\ s.miner = r.miner /\ s.user = r.user
                           /\ s.open = r.open /\ (r.deleted => s.deleted)
      BY <2>2
    <3>2. \/ \E o \in old : /\ o.miner = r.miner /\ o.user = r.user
                           /\ o.deleted => r.deleted
          \/ old = {} /\ users[r.user] # Nil /\ Parse[users[r.user]] = r.miner
      BY <1>1, <2>8, <3>1 DEF Sql!SqlKeepsBindings
    <3>3. QED BY <1>1, <3>1, <3>2
  <2>9. QED BY <2>3, <2>7, <2>8 DEF Sql!SqlKeepsBindings
<1>6. QED BY <1>3, <1>4, <1>5 DEF Sql!IInv

LEMMA SqlNext == ASSUME Sql!IInv, Sql!Next PROVE Sql!IInv'
BY SqlStill, SqlAlter, SqlMigrateToV1, SqlUpsertMiner, SqlDelMiner DEF Sql!Next

\* A release before 1.9.0 keeps one row for a miner.
LEMMA SqlInit == ASSUME Sql!Init PROVE Sql!IInv
<1>1. users \in [User -> Text \cup {Nil}] /\ step = "down" /\ old = rows
  BY DEF Sql!Init
<1>2. CASE table \in {Nil, Sql!OldLayout} /\ rows = {} /\ tableVersion = 0
  BY <1>1, <1>2, Layouts DEF Sql!IInv, Sql!TypeOK, Sql!LayoutOK, Sql!MinerHasOneRow,
                             Sql!SqlKeepsBindings, Sql!At, Sql!Steps
<1>3. ASSUME NEW owner \in [Miner -> User \cup {Nil}], NEW dead \in SUBSET Miner,
             table = Sql!OldLayout, tableVersion \in {1, 2},
             \A m \in Sql!HadByUsers : owner[m] # Nil,
             rows = {[miner |-> m, user |-> owner[m], deleted |-> m \in dead,
                      open |-> "default"] : m \in {x \in Miner : owner[x] # Nil}}
      PROVE  Sql!IInv
  <2>1. ASSUME NEW m \in Miner, owner[m] # Nil
        PROVE  [miner |-> m, user |-> owner[m], deleted |-> m \in dead,
                open |-> "default"] \in Sql!Row
    <3>1. PICK o \in User : o = owner[m]
      BY <2>1
    <3>2. PICK d : d = (m \in dead)
      OBVIOUS
    <3>3. QED BY <3>1, <3>2 DEF Sql!Row
  <2>2. rows \subseteq Sql!Row
    BY <1>3, <2>1
  <2>3. Sql!TypeOK /\ Sql!LayoutOK
    BY <1>1, <1>3, <2>2, Layouts DEF Sql!TypeOK, Sql!LayoutOK, Sql!At, Sql!Steps
  <2>4. Sql!MinerHasOneRow
    BY <1>3 DEF Sql!MinerHasOneRow
  <2>5. ASSUME NEW m \in Sql!HadByUsers PROVE \E r \in rows : r.miner = m
    <3>1. m \in Miner /\ owner[m] # Nil
      BY <1>3 DEF Sql!HadByUsers
    <3>2. PICK r : r = [miner |-> m, user |-> owner[m], deleted |-> m \in dead, open |-> "default"]
      OBVIOUS
    <3>3. r \in rows
      BY <1>3, <3>1, <3>2
    <3>4. QED BY <3>2, <3>3
  <2>6. Sql!SqlKeepsBindings
    BY <1>1, <2>5 DEF Sql!SqlKeepsBindings, Sql!RowsOf
  <2>7. QED BY <2>3, <2>4, <2>6 DEF Sql!IInv
<1>4. CASE /\ table = Sql!OldLayout /\ tableVersion \in {1, 2}
           /\ \E owner \in [Miner -> User \cup {Nil}], dead \in SUBSET Miner :
                /\ \A m \in Sql!HadByUsers : owner[m] # Nil
                /\ rows = {[miner |-> m, user |-> owner[m], deleted |-> m \in dead,
                            open |-> "default"] : m \in {x \in Miner : owner[x] # Nil}}
  <2>1. PICK owner \in [Miner -> User \cup {Nil}], dead \in SUBSET Miner :
          /\ \A m \in Sql!HadByUsers : owner[m] # Nil
          /\ rows = {[miner |-> m, user |-> owner[m], deleted |-> m \in dead,
                      open |-> "default"] : m \in {x \in Miner : owner[x] # Nil}}
    BY <1>4
  <2>2. QED BY <1>3, <1>4, <2>1
<1>5. QED BY <1>2, <1>4 DEF Sql!Init

-----------------------------------------------------------------------------
(* NewStore *)

LEMMA StoreInitInv == ASSUME StoreInit PROVE StoreInv
<1>1. CASE dbType = "badger" /\ Init /\ table = Nil /\ rows = {} /\ tableVersion = 0 /\ step = "down" /\ old = {}
  <2>1. users \in [User -> Text \cup {Nil}] /\ miners = [t \in Text |-> Nil] /\ version = 0 /\ proc = "down"
    BY <1>1 DEF Init
  <2>2. IInv
    BY <2>1 DEF IInv, TypeOK, MigrationKeepsBindings
  <2>3. Sql!IInv
    BY <1>1, <2>1 DEF Sql!IInv, Sql!TypeOK, Sql!LayoutOK, Sql!MinerHasOneRow,
                      Sql!SqlKeepsBindings, Sql!At, Sql!Steps
  <2>4. QED BY <2>2, <2>3 DEF StoreInv
<1>2. CASE dbType = "mysql" /\ Sql!Init /\ miners = [t \in Text |-> Nil] /\ version = 0 /\ proc = "down"
  <2>1. Sql!IInv
    BY <1>2, SqlInit
  <2>2. users \in [User -> Text \cup {Nil}]
    BY <2>1 DEF Sql!IInv, Sql!TypeOK
  <2>3. IInv
    BY <1>2, <2>2 DEF IInv, TypeOK, MigrationKeepsBindings
  <2>4. QED BY <2>1, <2>3 DEF StoreInv
<1>3. QED BY <1>1, <1>2 DEF StoreInit

LEMMA BadgerLeavesUsers == ASSUME Next PROVE users' = users
BY DEF Next, Start, MigrateToV1, MigrateToV2, MigrateToV3, Migrate, Serve, Crash, DelMiner, UpsertMiner

LEMMA SqlLeavesUsers == ASSUME Sql!Next PROVE users' = users
BY DEF Sql!Next, Sql!Start, Sql!Open, Sql!MigrateToV1, Sql!MigrateToV2, Sql!MigrateToV3,
       Sql!AddId, Sql!DropIndex, Sql!AddUnique, Sql!SaveVersion, Sql!Serve, Sql!Exit, Sql!Crash,
       Sql!DelMiner, Sql!UpsertMiner, Sql!Goto

\* Each store's invariant is about its own variables and users.
LEMMA BadgerStays ==
  ASSUME IInv, users' = users, miners' = miners, version' = version, proc' = proc
  PROVE  IInv'
BY DEF IInv, TypeOK, MigrationKeepsBindings

LEMMA SqlStays ==
  ASSUME Sql!IInv, users' = users, table' = table, rows' = rows,
         tableVersion' = tableVersion, step' = step, old' = old
  PROVE  Sql!IInv'
BY DEF Sql!IInv, Sql!TypeOK, Sql!LayoutOK, Sql!MinerHasOneRow, Sql!SqlKeepsBindings,
       Sql!RowsOf, Sql!HadByUsers, Sql!At

LEMMA StoreNextInv == ASSUME StoreInv, [StoreNext]_storeVars PROVE StoreInv'
<1>1. IInv /\ Sql!IInv
  BY DEF StoreInv
<1>2. CASE dbType = "badger" /\ Next /\ UNCHANGED <<dbType, sqlVars>>
  BY <1>1, <1>2, BadgerNext, BadgerLeavesUsers, SqlStays DEF StoreInv, sqlVars
<1>3. CASE dbType = "mysql" /\ Sql!Next /\ UNCHANGED <<dbType, miners, version, proc>>
  BY <1>1, <1>3, SqlNext, SqlLeavesUsers, BadgerStays DEF StoreInv
<1>4. CASE UNCHANGED storeVars
  BY <1>1, <1>4, BadgerStays, SqlStays DEF StoreInv, storeVars, sqlVars, vars
<1>5. QED BY <1>2, <1>3, <1>4 DEF StoreNext

\* No statement of a start fails but the one after the fatal cut.
LEMMA AlterFailsOnce == ASSUME Sql!IInv PROVE Sql!OneCutIsFatal
<1>1. SUFFICES ASSUME Sql!AlterFails PROVE step = "migrate" /\ table.pk = "none"
  BY DEF Sql!OneCutIsFatal, Sql!At
<1>2. table # Nil /\ table \in Sql!Layout /\ Sql!LayoutOK
  BY <1>1 DEF Sql!IInv, Sql!LayoutOK, Sql!TypeOK, Sql!AlterFails, Sql!VersionIs, Sql!At
<1>3. table.pk \in {"miner", "id", "none"}
  BY <1>2 DEF Sql!Layout
<1>4. QED BY <1>1, <1>2, <1>3
  DEF Sql!LayoutOK, Sql!AlterFails, Sql!VersionIs, Sql!NoAlter, Sql!HasColumnID, Sql!At

-----------------------------------------------------------------------------
(* The theorems *)

\* In every state of both stores, however often the process was killed during
\* a start, the records and tables fit their version and layout.
THEOREM Inductive == FairSpec => []StoreInv
<1>1. FairSpec => StoreInit /\ [][StoreNext]_storeVars
  BY PTL DEF FairSpec, StoreSpec
<1>2. StoreInit => StoreInv
  BY StoreInitInv
<1>3. StoreInv /\ [StoreNext]_storeVars => StoreInv'
  BY StoreNextInv
<1>4. QED BY <1>1, <1>2, <1>3, PTL

\* The badger migration loses the miner of no user, wherever it was cut off,
\* and makes up no owner (badger_helper.go:174-281).
THEOREM KeepsBindings == FairSpec => []MigrationKeepsBindings
<1>1. StoreInv => MigrationKeepsBindings
  BY DEF StoreInv, IInv
<1>2. QED BY <1>1, Inductive, PTL

\* "miner-user(1-1)" (store.go:71) holds of the table in every layout that a
\* start can leave.
THEOREM OneRow == FairSpec => []MinerHasOneRow
<1>1. StoreInv => MinerHasOneRow
  BY DEF StoreInv, Sql!IInv, MinerHasOneRow
<1>2. QED BY <1>1, Inductive, PTL

\* The MySQL migration loses no miner either (mysql.go:449-528), of a database
\* of version 0 and of one that an older release left at version 1 or 2: what
\* it found there is kept row by row until clients write.
THEOREM SqlKeeps == FairSpec => []SqlKeepsBindings
<1>1. StoreInv => SqlKeepsBindings
  BY DEF StoreInv, Sql!IInv, SqlKeepsBindings
<1>2. QED BY <1>1, Inductive, PTL

\* A statement of a start fails only for the table that a cut between the
\* first two of version 3 left (mysql.go:506-510).
THEOREM FatalCut == FairSpec => []OneCutIsFatal
<1>1. StoreInv => OneCutIsFatal
  BY AlterFailsOnce DEF StoreInv, OneCutIsFatal
<1>2. QED BY <1>1, Inductive, PTL
=============================================================================
