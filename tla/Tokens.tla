------------------------------- MODULE Tokens -------------------------------
(***************************************************************************)
(* Tokens, the gauge that counts them and the start of the server: the     *)
(* token handlers of auth/jwt.go over storage/badger.go, and the startup   *)
(* of cli/run.go, which goes through the same handlers to find or create   *)
(* the default admin token.                                                *)
(*                                                                         *)
(* As in Accounts a request is a program counter with the locals it        *)
(* carries, and one action is one store transaction, one begin or commit   *)
(* of a transaction that can conflict, or one update of the gauge, which   *)
(* is memory of the process and lost with it.                              *)
(***************************************************************************)
EXTENDS Integers, FiniteSets

CONSTANTS User,
          Default,   \* DefaultAdminTokenName
          Perm,
          Admin,     \* core.PermAdmin
          Token,     \* the tokens that may ever be signed, a bound
          Req,       \* requests in flight at once
          Boot,      \* the goroutine that starts the server
          Ops,       \* the operations clients may call
          MaxGauge,  \* no token is recovered while the gauge is above it
          Nil

ASSUME ConstantsOK ==
  /\ Default \in User /\ Admin \in Perm
  /\ Boot \notin Req
  /\ Nil \notin User \cup Perm \cup Token
  /\ Nil \notin [deleted : BOOLEAN] \cup [name : User, perm : Perm, deleted : BOOLEAN]
  /\ Nil \notin [name : User, perm : Perm, live : BOOLEAN]
  /\ MaxGauge \in Nat

\* A server holds finitely many requests and signs finitely many tokens.
ASSUME BoundsOK == IsFiniteSet(Req) /\ IsFiniteSet(Token)

VARIABLES db,     \* the badger database
          txn,    \* its open transactions
          req,    \* req[p]: what request p, or the startup, is doing
          out,    \* out[p]: the answer the last step gave
          gauge,  \* core.TokenGauge
          proc,   \* the process: down, starting or serving
          file    \* the token file of the repo

vars == <<db, txn, req, out, gauge, proc, file>>
-----------------------------------------------------------------------------
UserKey(u)  == <<"USER", u>>
TokenKey(t) == <<"TOKEN", t>>
UserKeys  == {UserKey(u) : u \in User}
TokenKeys == {TokenKey(t) : t \in Token}
Key == UserKeys \cup TokenKeys

UserRec  == [deleted : BOOLEAN]
TokenRec == [name : User, perm : Perm, deleted : BOOLEAN]

Actor == Req \cup {Boot}
Txn == Req   \* a request has at most one update transaction that reads

INSTANCE Badger

Absent(k) == db[k] = Nil
Live(k)   == db[k] # Nil /\ ~db[k].deleted
AllTokens(perm) ==                          \* slip: deleted tokens are listed
  {t \in Token : ~Absent(TokenKey(t)) /\ db[TokenKey(t)].perm = perm}
LiveTokens(perm) == {t \in Token : Live(TokenKey(t)) /\ db[TokenKey(t)].perm = perm}

BlankErased(r) == [deleted |-> TRUE]        \* slip: record not decoded
Erased(r) == [r EXCEPT !.deleted = TRUE]

BlindSoftDelete(t, k) ==                    \* slip: read elsewhere
  Begin(t, {}, One(k, Erased(db[k])), {})
SoftDelete(t, k) == Begin(t, {k}, One(k, Erased(db[k])), {})

Idle == [pc |-> "idle", user |-> Nil, perm |-> Nil, token |-> Nil, delta |-> 0]
Silent == [p \in Actor |-> "none"]

At(p, pc) == req[p].pc = pc
Starts(p, op) == proc = "serving" /\ op \in Ops /\ p \in Req /\ At(p, "idle")

Respond(p, a) == /\ req' = [req EXCEPT ![p] = Idle]
                 /\ out' = [Silent EXCEPT ![p] = a]
                 /\ UNCHANGED <<gauge, proc, file>>
Goto(p, r) == /\ req' = [req EXCEPT ![p] = r]
              /\ out' = Silent
              /\ UNCHANGED <<gauge, proc, file>>

\* The process ends: memory is gone, the database and the token file stay.
Exit(answers) ==
  /\ db' = db
  /\ txn' = [t \in Txn |-> NoTxn]
  /\ req' = [p \in Actor |-> Idle]
  /\ out' = answers
  /\ gauge' = [perm \in Perm |-> 0]
  /\ proc' = "down"
  /\ file' = file

\* A handler returns an error: a request answers it, the startup ends.
Fail(p) == \/ p # Boot /\ View /\ Respond(p, "error")
           \/ p = Boot /\ Exit([Silent EXCEPT ![Boot] = "error"])
-----------------------------------------------------------------------------
(* Users, as far as tokens depend on them: CreateUser looks and then puts, *)
(* and a user is recovered by the same put; DeleteUser marks the record.   *)
CreateUserOf(p, u) ==
  \/ Live(UserKey(u)) /\ Fail(p)
  \/ /\ ~Live(UserKey(u))
     /\ View
     /\ Goto(p, [Idle EXCEPT !.pc = "PutUser", !.user = u])

CreateUser(p, u) == Starts(p, "CreateUser") /\ CreateUserOf(p, u)

PutUser(p) ==
  /\ At(p, "PutUser")
  /\ Put(One(UserKey(req[p].user), [deleted |-> FALSE]))
  /\ \/ p # Boot /\ Respond(p, "ok")
     \/ p = Boot /\ Goto(p, [Idle EXCEPT !.pc = "GenerateDefault"])

DeleteUser(p, u) ==
  /\ Starts(p, "DeleteUser")
  /\ \/ ~Live(UserKey(u)) /\ Fail(p)
     \/ /\ Live(UserKey(u))
        /\ Put(One(UserKey(u), [deleted |-> TRUE]))
        /\ Respond(p, "ok")
-----------------------------------------------------------------------------
(* Tokens *)
\* Each token is signed with a random secret of its own, so it is new, and
\* the store.Has check of jwt.go:162 never finds it.
AnyToken(t) == TRUE                         \* slip: one secret for all
Fresh(t) == Absent(TokenKey(t)) /\ \A q \in Actor : req[q].token # t

GenerateTokenOf(p, u, perm) ==
  \/ ~Live(UserKey(u)) /\ Fail(p)
  \/ /\ Live(UserKey(u))
     /\ View
     /\ \E t \in Token :
          /\ Fresh(t)
          /\ Goto(p, [Idle EXCEPT !.pc = "PutToken", !.user = u, !.perm = perm,
                                  !.token = t])

GenerateToken(p, u, perm) == Starts(p, "GenerateToken") /\ GenerateTokenOf(p, u, perm)

\* The put of GenerateToken and of RecoverToken: it reads nothing.
PutToken(p) ==
  LET r == req[p] IN
  /\ At(p, "PutToken")
  /\ Put(One(TokenKey(r.token), [name |-> r.user, perm |-> r.perm, deleted |-> FALSE]))
  /\ Goto(p, [r EXCEPT !.pc = "Gauge", !.delta = 1])

Count(p) ==
  LET r == req[p] IN
  /\ At(p, "Gauge")
  /\ View
  /\ gauge' = [gauge EXCEPT ![r.perm] = @ + r.delta]
  /\ \/ /\ p # Boot
        /\ req' = [req EXCEPT ![p] = Idle]
        /\ out' = [Silent EXCEPT ![p] = "ok"]
     \/ /\ p = Boot
        /\ req' = [req EXCEPT ![p].pc = "Save"]
        /\ out' = Silent
  /\ UNCHANGED <<proc, file>>

RemoveToken(p, t) ==
  LET k == TokenKey(t) IN
  /\ Starts(p, "RemoveToken")
  /\ \/ ~Live(k) /\ Fail(p)
     \/ /\ Live(k)
        /\ SoftDelete(p, k)
        /\ Goto(p, [Idle EXCEPT !.pc = "Remove", !.token = t, !.perm = db[k].perm,
                                !.delta = -1])

RemoveTokenCommit(p) ==
  /\ At(p, "Remove")
  /\ \/ Conflict(p) /\ Discard({p}) /\ Respond(p, "error")
     \/ Commit(p) /\ Goto(p, [req[p] EXCEPT !.pc = "Gauge"])

RecoverToken(p, t) ==
  LET k == TokenKey(t) IN
  /\ Starts(p, "RecoverToken")
  /\ \/ (Absent(k) \/ Live(k)) /\ Fail(p)
     \/ /\ ~Absent(k) /\ ~Live(k)
        /\ gauge[db[k].perm] <= MaxGauge
        /\ View
        /\ Goto(p, [Idle EXCEPT !.pc = "PutToken", !.token = t,
                                !.user = db[k].name, !.perm = db[k].perm])

Verify(p, t) ==
  /\ Starts(p, "Verify")
  /\ \/ ~Live(TokenKey(t)) /\ Fail(p)
     \/ Live(TokenKey(t)) /\ View /\ Respond(p, "ok")
-----------------------------------------------------------------------------
(* The process *)

\* NewOAuthService counts the tokens of the database before anything else.
Start ==
  /\ proc = "down"
  /\ proc' = "starting"
  /\ gauge' = [perm \in Perm |-> Cardinality(LiveTokens(perm))]
  /\ req' = [req EXCEPT ![Boot] = [Idle EXCEPT !.pc = "Find"]]
  /\ out' = Silent
  /\ View
  /\ UNCHANGED file

\* GetDefaultAdminToken: a live admin token of the default user, or one is
\* created, and its user with it.
Find ==
  /\ At(Boot, "Find")
  /\ View
  /\ LET found == {t \in LiveTokens(Admin) : db[TokenKey(t)].name = Default} IN
     \/ \E t \in found : Goto(Boot, [Idle EXCEPT !.pc = "Save", !.token = t])
     \/ found = {} /\ Goto(Boot, [Idle EXCEPT !.pc = "CreateDefault"])

CreateDefault == At(Boot, "CreateDefault") /\ CreateUserOf(Boot, Default)
GenerateDefault == At(Boot, "GenerateDefault") /\ GenerateTokenOf(Boot, Default, Admin)

\* The token is saved in the repo and the server listens.
Save ==
  /\ At(Boot, "Save")
  /\ file' = req[Boot].token
  /\ proc' = "serving"
  /\ req' = [req EXCEPT ![Boot] = Idle]
  /\ out' = Silent
  /\ View
  /\ UNCHANGED gauge

Crash ==
  /\ "Crash" \in Ops
  /\ proc # "down"
  /\ Exit(Silent)

Init ==
  /\ db = [k \in Key |-> Nil]
  /\ txn = [t \in Txn |-> NoTxn]
  /\ req = [p \in Actor |-> Idle]
  /\ out = Silent
  /\ gauge = [perm \in Perm |-> 0]
  /\ proc = "down"
  /\ file = Nil

Call(p) ==
  \/ \E u \in User : CreateUser(p, u) \/ DeleteUser(p, u)
  \/ \E u \in User, perm \in Perm : GenerateToken(p, u, perm)
  \/ \E t \in Token : RemoveToken(p, t) \/ RecoverToken(p, t) \/ Verify(p, t)

Next ==
  \/ Start \/ Find \/ CreateDefault \/ GenerateDefault \/ Save \/ Crash
  \/ \E p \in Req : Call(p) \/ RemoveTokenCommit(p)
  \/ \E p \in Actor : PutUser(p) \/ PutToken(p) \/ Count(p)

Spec == Init /\ [][Next]_vars
-----------------------------------------------------------------------------
(* Properties *)

PC == {"idle", "PutUser", "PutToken", "Gauge", "Remove", "Find",
       "CreateDefault", "GenerateDefault", "Save"}

ReqRec == [pc : PC, user : User \cup {Nil}, perm : Perm \cup {Nil},
           token : Token \cup {Nil}, delta : {-1, 0, 1}]

\* Users and tokens are stored under keys of their own kind, and a step that
\* issues, removes or counts a token knows its token, user and permission.
TypeOK ==
  /\ DOMAIN db = Key
  /\ \A k \in UserKeys : db[k] \in UserRec \cup {Nil}
  /\ \A k \in TokenKeys : db[k] \in TokenRec \cup {Nil}
  /\ req \in [Actor -> ReqRec]
  /\ \A p \in Actor :
       /\ req[p].pc \in {"PutUser", "PutToken"} => req[p].user \in User
       /\ req[p].pc \in {"PutToken", "Remove", "Save"} => req[p].token \in Token
       /\ req[p].pc \in {"PutToken", "Gauge", "Remove"} => req[p].perm \in Perm
  /\ gauge \in [Perm -> Int]
  /\ proc \in {"down", "starting", "serving"}
  /\ file \in Token \cup {Nil}
  /\ proc = "down" => req = [p \in Actor |-> Idle]
  /\ proc # "starting" => At(Boot, "idle")
  /\ proc # "serving" => \A p \in Req : At(p, "idle")

\* What request p relies on.  A token that is about to be put goes to a user
\* that was created; it is new and nobody else's, or it is put back as it was
\* issued.  One that is about to be removed is live, or the transaction knows
\* that it was written since.
RequestInv(p) ==
  LET r == req[p]
      k == TokenKey(r.token)
  IN /\ At(p, "PutToken") =>
          /\ ~Absent(UserKey(r.user))
          /\ ~Absent(k) => db[k].name = r.user /\ db[k].perm = r.perm
          /\ \A q \in Actor \ {p} : req[q].token = r.token => ~Absent(k)
     /\ At(p, "Remove") =>
          /\ p # Boot
          /\ ~Absent(k) /\ db[k].perm = r.perm
          /\ txn[p].reads = {k}
          /\ \/ Live(k) /\ txn[p].writes = One(k, Erased(db[k]))
             \/ k \in txn[p].dirty

AdminRec == [name |-> Default, perm |-> Admin, deleted |-> FALSE]

\* The startup issues an admin token of the default user, or has found one.
BootInv ==
  /\ At(Boot, "PutToken") => req[Boot].user = Default /\ req[Boot].perm = Admin
  /\ req[Boot].pc \in {"Gauge", "Save"} =>
       req[Boot].token \in Token /\ db[TokenKey(req[Boot].token)] = AdminRec

\* A stored token names a user that was created.
OwnersKnown ==
  \A t \in Token : ~Absent(TokenKey(t)) => ~Absent(UserKey(db[TokenKey(t)].name))

\* The inductive invariant.
IInv ==
  /\ TypeOK
  /\ DOMAIN txn = Txn
  /\ \A t \in Txn : txn[t] = [open |-> txn[t].open, reads |-> txn[t].reads,
       writes |-> txn[t].writes, dirty |-> txn[t].dirty, snap |-> txn[t].snap]
  /\ OwnersKnown
  /\ \A p \in Actor : RequestInv(p)
  /\ BootInv

\* The increments and decrements of the gauge that are still to come.
Pending(perm, d) == {p \in Actor : At(p, "Gauge") /\ req[p].perm = perm /\ req[p].delta = d}

\* The gauge never shows fewer tokens than there are: every removal that
\* decrements it (jwt.go:313) removed a live token, however removals,
\* recoveries and restarts interleave.
GaugeCovers ==
  proc # "down" =>
    \A perm \in Perm :
      gauge[perm] + Cardinality(Pending(perm, 1)) - Cardinality(Pending(perm, -1))
        >= Cardinality(LiveTokens(perm))

\* When the server starts to serve, the token file holds an admin token of
\* the default user that the server accepts (run.go:110-118).
ServesWithAdmin ==
  [][proc # "serving" /\ proc' = "serving" =>
       \E t \in Token :
         /\ t = file'
         /\ db'[TokenKey(t)] = [name |-> Default, perm |-> Admin, deleted |-> FALSE]]_vars

\* Users and tokens as the Store interface shows them.
Known == {u \in User : ~Absent(UserKey(u))}
Issued == [t \in Token |->
             IF Absent(TokenKey(t)) THEN Nil
             ELSE [name |-> db[TokenKey(t)].name, perm |-> db[TokenKey(t)].perm,
                   live |-> Live(TokenKey(t))]]

TokenBook == INSTANCE TokenBook WITH None <- Nil, known <- Known, issued <- Issued

\* Each step of the token handlers and of the startup is one operation of the
\* Store interface, done at once, or nothing a client can see; a token is
\* issued once and only to a user that was created.
RefinesTokenBook == TokenBook!BSpec

\* "if not found, create one" (app.go:98): the startup finds or creates the
\* default admin token, it does not fail.
StartSucceeds == out[Boot] # "error"
=============================================================================
