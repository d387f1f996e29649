------------------------------ MODULE SqlStore ------------------------------
(***************************************************************************)
(* The MySQL store (storage/mysql.go), called by the handlers of           *)
(* auth/jwt.go.  Each action is one SQL statement, or the consistent reads *)
(* of one transaction, which share a snapshot and so are one step.  Only   *)
(* DeleteUser writes several rows in one transaction; the requests of      *)
(* others run between its statements and wait for its locks.               *)
(***************************************************************************)
EXTENDS Naturals

CONSTANTS User, Miner, Signer, Token, Perm,
          Limit, Value,   \* ids and contents of rate limits
          Req,            \* requests in flight at once
          Mixes,          \* sets of operations that clients may call together
          Nil

Operation == {"CreateUser", "UpdateUser", "RecoverUser", "DeleteUser",
              "UpsertMiner", "DelMiner", "GetUserByMiner", "RegisterSigner",
              "UnregisterSigner", "DelSigner", "GetUserBySigner",
              "GenerateToken", "RemoveToken", "RecoverToken",
              "PutRateLimit", "DelRateLimit"}

VARIABLES row, tx,  \* the database
          req,      \* req[p]: what request p is doing
          out,      \* out[p]: the answer the last step gave to p
          ops       \* the operations clients call, which never changes

vars == <<row, tx, req, out, ops>>
-----------------------------------------------------------------------------
\* Rows, by their unique indexes: users_name_IDX, miner_idx, user_signer_idx,
\* token_token_IDX and the primary key of user_rate_limits.
UserKey(u)      == <<"users", u>>
MinerKey(m)     == <<"miners", m>>
SignerKey(s, u) == <<"signers", <<s, u>>>>
TokenKey(t)     == <<"token", t>>
LimitKey(l)     == <<"user_rate_limits", l>>

SignersOf(u) == {SignerKey(s, u) : s \in Signer}
SignerKeys   == UNION {SignersOf(u) : u \in User}
Key == {UserKey(u) : u \in User} \cup {MinerKey(m) : m \in Miner} \cup SignerKeys
         \cup {TokenKey(t) : t \in Token} \cup {LimitKey(l) : l \in Limit}

\* The id of a user is a random one: the request that drew it stands for it.
UserRec   == [id : Req, deleted : BOOLEAN]
MinerRec  == [user : User, deleted : BOOLEAN]
SignerRec == [deleted : BOOLEAN]
TokenRec  == [name : User, perm : Perm, deleted : BOOLEAN]
LimitRec  == [name : User, value : Value]

\* A row that is not there, and a token that was not issued, is told from all others.
ASSUME ConstantsOK ==
  /\ Nil \notin User \cup Miner \cup Signer \cup Token \cup Limit
  /\ Nil \notin UserRec \cup MinerRec \cup SignerRec \cup TokenRec \cup LimitRec
  /\ Nil \notin [name : User, perm : Perm, live : BOOLEAN]
  /\ Mixes \subseteq SUBSET Operation

INSTANCE Innodb WITH Session <- Req

Absent(k) == row[k] = Nil
Live(k)   == row[k] # Nil /\ ~row[k].deleted
BlankErased(r) == [deleted |-> TRUE]                \* slip: every column set
Erased(r) == [r EXCEPT !.deleted = TRUE]

\* What an UPDATE of the deleted mark does to the rows ks.
Marked(ks) == [k \in {x \in ks : ~Absent(x)} |-> Erased(row[k])]

\* UpsertMiner and RegisterSigner take a deleted user too.
AnyUser(u) == TRUE                                  \* slip: no look at all
UserExists(u) == ~Absent(UserKey(u))

Owns(u, m) == Live(MinerKey(m)) /\ row[MinerKey(m)].user = u
ListMiners(u) == {m \in Miner : Owns(u, m)}
-----------------------------------------------------------------------------
(* Requests *)
Idle == [pc |-> "idle", user |-> Nil, addr |-> Nil, rec |-> Nil,
         res |-> "none", list |-> {}, todo |-> {}]

Answers == {"none", "ok", "error", "true", "false"}
Silent  == [p \in Req |-> "none"]

Starts(p, op) == op \in ops /\ req[p].pc = "idle"
At(p, pc) == req[p].pc = pc

Respond(p, a) == /\ req' = [req EXCEPT ![p] = Idle]
                 /\ out' = [Silent EXCEPT ![p] = a]
                 /\ UNCHANGED ops
Goto(p, r) == /\ req' = [req EXCEPT ![p] = r]
              /\ out' = Silent
              /\ UNCHANGED ops

\* An INSERT of a key that is there is an error of its unique index.
Create(p, k, r) == \/ ~Absent(k) /\ Read /\ Respond(p, "error")
                   \/ Absent(k) /\ Statement(p, {k}, One(k, r)) /\ Respond(p, "ok")

\* The database refuses the next statement or the commit of p: the deadlock
\* detector or the lock wait timeout chose it, or its connection is lost.
\* gorm rolls p's transaction back.
Fail(p) == /\ req[p].pc # "idle"
           /\ Rollback(p)
           /\ Respond(p, "error")
-----------------------------------------------------------------------------
(* Users *)
CreateUser(p, u) ==
  /\ Starts(p, "CreateUser")
  /\ Read
  /\ \/ Live(UserKey(u)) /\ Respond(p, "error")
     \/ ~Live(UserKey(u)) /\ Goto(p, [Idle EXCEPT !.pc = "PutUser", !.user = u])

UpsertUser(p) ==                                    \* slip: Save, not Create
  /\ At(p, "PutUser")
  /\ Statement(p, {UserKey(req[p].user)},
               One(UserKey(req[p].user), [id |-> p, deleted |-> FALSE]))
  /\ Respond(p, "ok")

PutUser(p) ==
  /\ At(p, "PutUser")
  /\ Create(p, UserKey(req[p].user), [id |-> p, deleted |-> FALSE])

UpdateUser(p, u) ==
  /\ Starts(p, "UpdateUser")
  /\ Read
  /\ \/ ~Live(UserKey(u)) /\ Respond(p, "error")
     \/ /\ Live(UserKey(u))
        /\ Goto(p, [Idle EXCEPT !.pc = "SaveUser", !.user = u,
                                !.rec = row[UserKey(u)]])

RecoverUser(p, u) ==
  /\ Starts(p, "RecoverUser")
  /\ Read
  /\ \/ (Absent(UserKey(u)) \/ Live(UserKey(u))) /\ Respond(p, "error")
     \/ /\ ~Absent(UserKey(u)) /\ ~Live(UserKey(u))
        /\ Goto(p, [Idle EXCEPT !.pc = "SaveUser", !.user = u,
                                !.rec = [row[UserKey(u)] EXCEPT !.deleted = FALSE]])

\* Save writes every column of the record that was read.
SaveUser(p) ==
  LET k == UserKey(req[p].user) IN
  /\ At(p, "SaveUser")
  /\ Statement(p, {k}, One(k, req[p].rec))
  /\ Respond(p, "ok")

(* DeleteUser: one transaction.  Its two SELECTs see one snapshot; the      *)
(* UPDATEs that follow see the newest rows.                                *)
DeleteUser(p, u) ==
  /\ Starts(p, "DeleteUser")
  /\ \/ ~Live(UserKey(u)) /\ Read /\ Respond(p, "error")
     \/ /\ Live(UserKey(u))
        /\ OpenTx(p)
        /\ Goto(p, [Idle EXCEPT !.pc = "DeleteUser.miners", !.user = u,
                                !.rec = Erased(row[UserKey(u)]),
                                !.list = ListMiners(u), !.todo = ListMiners(u)])

\* innerDelMiner looks the row up by miner only, whatever user it has now.
DeleteUserMiner(p, m) ==
  /\ At(p, "DeleteUser.miners")
  /\ m \in req[p].todo
  /\ Locked(p, {MinerKey(m)}, Marked({MinerKey(m)}))
  /\ Goto(p, [req[p] EXCEPT !.todo = @ \ {m}])

SignersOutside(p) ==                                \* slip: s.db, not tx
  LET ks == SignersOf(req[p].user) IN
  /\ At(p, "DeleteUser.miners")
  /\ req[p].todo = {}
  /\ Statement(p, ks, Marked(ks))
  /\ Goto(p, [req[p] EXCEPT !.pc = "DeleteUser.save"])

\* The range of the user in user_signer_idx stays locked, gaps included.
DeleteUserSigners(p) ==
  LET ks == SignersOf(req[p].user) IN
  /\ At(p, "DeleteUser.miners")
  /\ req[p].todo = {}
  /\ Locked(p, ks, Marked(ks))
  /\ Goto(p, [req[p] EXCEPT !.pc = "DeleteUser.save"])

DeleteUserSave(p) ==
  LET k == UserKey(req[p].user) IN
  /\ At(p, "DeleteUser.save")
  /\ Locked(p, {k}, One(k, req[p].rec))
  /\ Goto(p, [req[p] EXCEPT !.pc = "DeleteUser.commit"])

DeleteUserCommit(p) ==
  /\ At(p, "DeleteUser.commit")
  /\ Commit(p)
  /\ Respond(p, "ok")
-----------------------------------------------------------------------------
(* Miners *)

\* The SELECTs of the user, deleted or not, and of the number of live rows.
UpsertMiner(p, m, u) ==
  /\ Starts(p, "UpsertMiner")
  /\ \/ ~UserExists(u) /\ Read /\ Respond(p, "error")
     \/ /\ UserExists(u)
        /\ OpenTx(p)
        /\ Goto(p, [Idle EXCEPT !.pc = "UpsertMiner", !.user = u, !.addr = m,
                                !.res = IF Live(MinerKey(m)) THEN "false" ELSE "true"])

\* INSERT ... ON DUPLICATE KEY UPDATE, then COMMIT.
UpsertMinerCommit(p) ==
  LET k == MinerKey(req[p].addr) IN
  /\ At(p, "UpsertMiner")
  /\ LastStatement(p, {k}, One(k, [user |-> req[p].user, deleted |-> FALSE]))
  /\ Respond(p, req[p].res)

DelMiner(p, m) ==
  /\ Starts(p, "DelMiner")
  /\ Statement(p, {MinerKey(m)}, Marked({MinerKey(m)}))
  /\ Respond(p, IF Live(MinerKey(m)) THEN "true" ELSE "false")

\* The join finds no user for a miner without a live one: an empty record
\* and no error.
GetUserByMiner(p, m) ==
  /\ Starts(p, "GetUserByMiner")
  /\ Read
  /\ Respond(p, IF \E u \in User : Owns(u, m) /\ Live(UserKey(u))
                THEN "true" ELSE "false")
-----------------------------------------------------------------------------
(* Signers *)
RegisterSigner(p, s, u) ==
  /\ Starts(p, "RegisterSigner")
  /\ \/ ~UserExists(u) /\ Read /\ Respond(p, "error")
     \/ /\ UserExists(u)
        /\ OpenTx(p)
        /\ Goto(p, [Idle EXCEPT !.pc = "RegisterSigner", !.user = u, !.addr = s])

RegisterSignerCommit(p) ==
  LET k == SignerKey(req[p].addr, req[p].user) IN
  /\ At(p, "RegisterSigner")
  /\ LastStatement(p, {k}, One(k, [deleted |-> FALSE]))
  /\ Respond(p, "ok")

UnregisterSigner(p, s, u) ==
  /\ Starts(p, "UnregisterSigner")
  /\ Statement(p, {SignerKey(s, u)}, Marked({SignerKey(s, u)}))
  /\ Respond(p, "ok")

\* No index begins with the signer, so the UPDATE looks at every row.
DelSigner(p, s) ==
  LET ks == {SignerKey(s, u) : u \in User} IN
  /\ Starts(p, "DelSigner")
  /\ Free(p, SignerKeys)
  /\ Statement(p, ks, Marked(ks))
  /\ Respond(p, IF \E k \in ks : Live(k) THEN "true" ELSE "false")

GetUserBySigner(p, s) ==
  /\ Starts(p, "GetUserBySigner")
  /\ Read
  /\ Respond(p, IF \E u \in User : Live(SignerKey(s, u)) /\ Live(UserKey(u))
                THEN "ok" ELSE "error")
-----------------------------------------------------------------------------
(* Tokens.  The handler's HasUser, Has and Put are statements of their own; *)
(* Has of a freshly signed token finds nothing.                            *)
Fresh(t) == Absent(TokenKey(t)) /\ \A p \in Req : req[p].addr # t

AnyName(p, t, u, perm) ==                           \* slip: HasUser not asked
  /\ Starts(p, "GenerateToken")
  /\ Fresh(t)
  /\ Read
  /\ Goto(p, [Idle EXCEPT !.pc = "PutToken", !.addr = t,
                 !.rec = [name |-> u, perm |-> perm, deleted |-> FALSE]])

GenerateToken(p, t, u, perm) ==
  /\ Starts(p, "GenerateToken")
  /\ Fresh(t)
  /\ Read
  /\ \/ ~Live(UserKey(u)) /\ Respond(p, "error")
     \/ /\ Live(UserKey(u))
        /\ Goto(p, [Idle EXCEPT !.pc = "PutToken", !.addr = t,
                       !.rec = [name |-> u, perm |-> perm, deleted |-> FALSE]])

PutToken(p) ==
  /\ At(p, "PutToken")
  /\ Create(p, TokenKey(req[p].addr), req[p].rec)

\* Delete and Recover ask for the row with one statement and write its mark
\* with another that does not look at it.
RemoveToken(p, t) ==
  /\ Starts(p, "RemoveToken")
  /\ Read
  /\ \/ ~Live(TokenKey(t)) /\ Respond(p, "error")
     \/ /\ Live(TokenKey(t))
        /\ Goto(p, [Idle EXCEPT !.pc = "MarkToken", !.addr = t, !.rec = TRUE])

RecoverToken(p, t) ==
  /\ Starts(p, "RecoverToken")
  /\ Read
  /\ \/ (Absent(TokenKey(t)) \/ Live(TokenKey(t))) /\ Respond(p, "error")
     \/ /\ ~Absent(TokenKey(t)) /\ ~Live(TokenKey(t))
        /\ Goto(p, [Idle EXCEPT !.pc = "MarkToken", !.addr = t, !.rec = FALSE])

MarkToken(p) ==
  LET k == TokenKey(req[p].addr) IN
  /\ At(p, "MarkToken")
  /\ Statement(p, {k}, One(k, [row[k] EXCEPT !.deleted = req[p].rec]))
  /\ Respond(p, "ok")
-----------------------------------------------------------------------------
(* Rate limits.  Save is an UPDATE by id; when it changes no row, a SELECT; *)
(* when that finds none, an INSERT.                                        *)
PutRateLimit(p, l, r) ==
  /\ Starts(p, "PutRateLimit")
  /\ \/ /\ ~Absent(LimitKey(l)) /\ row[LimitKey(l)] # r
        /\ Statement(p, {LimitKey(l)}, One(LimitKey(l), r))
        /\ Respond(p, "ok")
     \/ /\ Absent(LimitKey(l)) \/ row[LimitKey(l)] = r
        /\ Read
        /\ Goto(p, [Idle EXCEPT !.pc = "FindLimit", !.addr = l, !.rec = r])

FindLimit(p) ==
  /\ At(p, "FindLimit")
  /\ Read
  /\ \/ ~Absent(LimitKey(req[p].addr)) /\ Respond(p, "ok")
     \/ /\ Absent(LimitKey(req[p].addr))
        /\ Goto(p, [req[p] EXCEPT !.pc = "InsertLimit"])

InsertLimit(p) ==
  /\ At(p, "InsertLimit")
  /\ Create(p, LimitKey(req[p].addr), req[p].rec)

DelRateLimit(p, l, u) ==
  LET k == LimitKey(l) IN
  /\ Starts(p, "DelRateLimit")
  /\ Statement(p, {k}, IF ~Absent(k) /\ row[k].name = u THEN One(k, Nil) ELSE NoWrites)
  /\ Respond(p, "ok")
-----------------------------------------------------------------------------
Call(p) ==
  \/ \E u \in User : \/ CreateUser(p, u) \/ UpdateUser(p, u)
                     \/ RecoverUser(p, u) \/ DeleteUser(p, u)
  \/ \E m \in Miner : \/ DelMiner(p, m) \/ GetUserByMiner(p, m)
                      \/ \E u \in User : UpsertMiner(p, m, u)
  \/ \E s \in Signer : \/ DelSigner(p, s) \/ GetUserBySigner(p, s)
                       \/ \E u \in User : RegisterSigner(p, s, u) \/ UnregisterSigner(p, s, u)
  \/ \E t \in Token : \/ RemoveToken(p, t) \/ RecoverToken(p, t)
                      \/ \E u \in User, perm \in Perm : GenerateToken(p, t, u, perm)
  \/ \E l \in Limit : \/ \E r \in LimitRec : PutRateLimit(p, l, r)
                      \/ \E u \in User : DelRateLimit(p, l, u)

Step(p) ==
  \/ PutUser(p) \/ SaveUser(p)
  \/ \E m \in Miner : DeleteUserMiner(p, m)
  \/ DeleteUserSigners(p) \/ DeleteUserSave(p) \/ DeleteUserCommit(p)
  \/ UpsertMinerCommit(p) \/ RegisterSignerCommit(p)
  \/ PutToken(p) \/ MarkToken(p) \/ FindLimit(p) \/ InsertLimit(p)

Init == /\ row = [k \in Key |-> Nil]
        /\ tx = [p \in Req |-> NoTx]
        /\ req = [p \in Req |-> Idle]
        /\ out = Silent
        /\ ops \in Mixes

Next == \E p \in Req : Call(p) \/ Step(p) \/ Fail(p)

Spec == Init /\ [][Next]_vars
-----------------------------------------------------------------------------
(* Properties *)

RowOK ==
  /\ DOMAIN row = Key
  /\ \A u \in User : row[UserKey(u)] \in UserRec \cup {Nil}
  /\ \A m \in Miner : row[MinerKey(m)] \in MinerRec \cup {Nil}
  /\ \A k \in SignerKeys : row[k] \in SignerRec \cup {Nil}
  /\ \A t \in Token : row[TokenKey(t)] \in TokenRec \cup {Nil}
  /\ \A l \in Limit : row[LimitKey(l)] \in LimitRec \cup {Nil}

Deleting == {"DeleteUser.miners", "DeleteUser.save", "DeleteUser.commit"}

\* Rows have the columns of storage/store.go, only open transactions hold
\* locks, and no two of them hold one lock.
TypeOK ==
  /\ RowOK
  /\ \A p \in Req : /\ ~tx[p].open => tx[p] = NoTx
                    /\ tx[p].open <=> req[p].pc \in Deleting \cup {"UpsertMiner", "RegisterSigner"}
                    /\ Free(p, tx[p].locks)
  /\ out \in [Req -> Answers]

\* The transaction of DeleteUser: the user and the miners that it read are
\* still there, whoever has the miners now; all it is to write is locked, is a
\* deletion, and nothing is missing up to the statement it has reached.
DeletionInv(p) ==
  LET u == req[p].user
      w == tx[p].writes
  IN /\ u \in User /\ ~Absent(UserKey(u))
     /\ req[p].rec = [id |-> row[UserKey(u)].id, deleted |-> TRUE]
     /\ req[p].todo \subseteq req[p].list /\ req[p].list \subseteq Miner
     /\ \A m \in req[p].list : ~Absent(MinerKey(m))
     /\ DOMAIN w \subseteq tx[p].locks
     /\ DOMAIN w \subseteq {MinerKey(m) : m \in req[p].list} \cup SignersOf(u) \cup {UserKey(u)}
     /\ \A m \in req[p].list :
          /\ MinerKey(m) \in DOMAIN w =>
               /\ w[MinerKey(m)] \in MinerRec /\ w[MinerKey(m)].deleted
               /\ ~Absent(UserKey(w[MinerKey(m)].user))
          /\ m \notin req[p].todo => MinerKey(m) \in DOMAIN w
     /\ \A k \in SignersOf(u) \cap DOMAIN w : w[k] = [deleted |-> TRUE]
     /\ UserKey(u) \in DOMAIN w => w[UserKey(u)] = req[p].rec
     /\ ~At(p, "DeleteUser.miners") =>
          /\ req[p].todo = {}
          /\ \A k \in SignersOf(u) : k \in tx[p].locks /\ (Absent(k) \/ k \in DOMAIN w)
     /\ At(p, "DeleteUser.commit") => UserKey(u) \in DOMAIN w

\* What a request relies on between its statements: the user and the token it
\* asked for are never removed, and a user keeps the id that was read.
RequestInv(p) ==
  LET r == req[p] IN
  /\ At(p, "PutUser") => r.user \in User
  /\ At(p, "SaveUser") =>
       /\ r.user \in User /\ ~Absent(UserKey(r.user))
       /\ r.rec = [id |-> row[UserKey(r.user)].id, deleted |-> FALSE]
  /\ r.pc \in Deleting => DeletionInv(p)
  /\ r.pc \in {"UpsertMiner", "RegisterSigner"} =>
       r.user \in User /\ ~Absent(UserKey(r.user)) /\ r.res \in Answers
  /\ At(p, "UpsertMiner") => r.addr \in Miner
  /\ At(p, "RegisterSigner") => r.addr \in Signer
  /\ At(p, "PutToken") =>
       /\ r.addr \in Token
       /\ r.rec \in TokenRec /\ ~r.rec.deleted /\ ~Absent(UserKey(r.rec.name))
  /\ At(p, "MarkToken") => r.addr \in Token /\ r.rec \in BOOLEAN /\ ~Absent(TokenKey(r.addr))
  /\ r.pc \in {"FindLimit", "InsertLimit"} => r.addr \in Limit /\ r.rec \in LimitRec

\* A stored token, or a stored binding, names a user that was created.
OwnersKnown == /\ \A t \in Token : ~Absent(TokenKey(t)) => ~Absent(UserKey(row[TokenKey(t)].name))
               /\ \A m \in Miner : ~Absent(MinerKey(m)) => ~Absent(UserKey(row[MinerKey(m)].user))
               /\ \A s \in Signer, u \in User : ~Absent(SignerKey(s, u)) => ~Absent(UserKey(u))

\* The inductive invariant.
IInv == /\ TypeOK
        /\ tx = [p \in Req |-> [open |-> tx[p].open, locks |-> tx[p].locks,
                                writes |-> tx[p].writes]]
        /\ req = [p \in Req |-> [pc |-> req[p].pc, user |-> req[p].user, addr |-> req[p].addr,
                                 rec |-> req[p].rec, res |-> req[p].res, list |-> req[p].list,
                                 todo |-> req[p].todo]]
        /\ \A p \in Req : RequestInv(p)
        /\ OwnersKnown

\* DeleteUser is one transaction (mysql.go:214): until it answers ok it changes
\* no row; then the user, every signer of it and every miner it had when the
\* deletion began are gone at once, whoever else wrote them in between.
DeleteIsWhole ==
  [][\A p \in Req, u \in User :
       req[p].pc \in Deleting /\ u = req[p].user =>
         /\ req'[p] # req[p] /\ out'[p] # "ok" => row' = row
         /\ out'[p] = "ok" =>
              /\ ~Live(UserKey(u))'
              /\ \A k \in SignersOf(u) : ~Live(k)'
              /\ \A m \in req[p].list : row'[MinerKey(m)].deleted]_vars

\* Of the creations of one name one succeeds, however they race with each
\* other and with deletions: the row of a user keeps the id it was created
\* with (users_name_IDX, store.go:157).
IdentityKept ==
  [][\A u \in User :
       ~Absent(UserKey(u)) => /\ ~Absent(UserKey(u))'
                              /\ row'[UserKey(u)].id = row[UserKey(u)].id]_vars

\* What Registry and TokenBook see of the rows.
UserState == [u \in User |-> IF Absent(UserKey(u)) THEN "absent"
                             ELSE IF Live(UserKey(u)) THEN "live" ELSE "deleted"]
MinerUser == [m \in Miner |-> IF Live(MinerKey(m)) THEN row[MinerKey(m)].user ELSE Nil]
Bindings  == {b \in Signer \X User : Live(SignerKey(b[1], b[2]))}
Known     == {u \in User : ~Absent(UserKey(u))}
Issued    == [t \in Token |->
                IF Absent(TokenKey(t)) THEN Nil
                ELSE [name |-> row[TokenKey(t)].name, perm |-> row[TokenKey(t)].perm,
                      live |-> Live(TokenKey(t))]]

Registry == INSTANCE Registry WITH
  None <- Nil, user <- UserState, miner <- MinerUser, signer <- Bindings

\* Two operations that Registry takes apart.
RetireListed(u, L) ==
  /\ UserState' = [UserState EXCEPT ![u] = "deleted"]
  /\ MinerUser' = [m \in Miner |-> IF m \in L THEN Nil ELSE MinerUser[m]]
  /\ Bindings' = {b \in Bindings : b[2] # u}
ReleaseEverywhere(s) == /\ Bindings' = {b \in Bindings : b[1] # s}
                        /\ UNCHANGED <<UserState, MinerUser>>

\* Every step is one operation of the Store interface, as in the badger
\* store, but two: DelSigner deletes the bindings of its signer, and no other,
\* at once; and the commit of DeleteUser deletes the user, its signers and the
\* miners that it had when the deletion began, a miner that another user has
\* by now included (mysql.go:231), and changes nothing else.
StepsAreRegistry ==
  /\ Registry!RInit
  /\ [][\/ Registry!RNext
        \/ \E p \in Req : At(p, "DeleteUser.commit") /\ RetireListed(req[p].user, req[p].list)
        \/ \E s \in Signer : ReleaseEverywhere(s)]_Registry!rvars

Book == INSTANCE TokenBook WITH None <- Nil, known <- Known, issued <- Issued

\* The tokens are those of the badger store: issued once, to a user that was
\* created, then live or removed, whatever requests race.
RefinesTokenBook == Book!BSpec

\* "first returned bool, 'miner' is created(true) or updated(false)"
\* (store.go:72): a creation is reported only of a miner that was not there.
CreatedOnce ==
  [][\A p \in Req : At(p, "UpsertMiner") /\ out'[p] = "true" =>
       ~Live(MinerKey(req[p].addr))]_vars
=============================================================================
