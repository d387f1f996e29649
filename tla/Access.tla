------------------------------- MODULE Access -------------------------------
(***************************************************************************)
(* A call of the server: the method of AuthClient that sends it            *)
(* (jwtclient/auth_client.go), the route, the permission middleware        *)
(* (auth/route.go), the handler with its binding and its permission check  *)
(* (auth/app.go, auth/jwt.go), the operation of the Store and the answer.  *)
(*                                                                         *)
(* The store is what the other modules show it to be, Registry and         *)
(* TokenBook: its operations happen at once, and between any two steps of  *)
(* a call other requests do any of them.                                   *)
(***************************************************************************)
EXTENDS Naturals

CONSTANTS User, Miner, Signer, Token, Perm,
          Default,   \* the user of the default admin token
          Caller,    \* clients with a call in flight
          Mixes,     \* what is called and what others do in one behaviour
          None

VARIABLES user, miner, signer, issued,  \* the store
          call,  \* call[c]: the call of client c
          seen,  \* seen[c]: what held at some moment of the call (history)
          mix    \* a member of Mixes, which never changes

bindings == <<user, miner, signer>>
store == <<bindings, issued>>
vars == <<store, call, seen, mix>>

INSTANCE Registry
INSTANCE TokenBook WITH known <- {u \in User : user[u] # "absent"}
-----------------------------------------------------------------------------
(* The methods of AuthClient, each with its request. *)
TokenCalls ==
  [Verify        |-> <<"POST", "/verify">>,
   GenerateToken |-> <<"POST", "/genToken">>,
   GetToken      |-> <<"GET", "/token">>,
   Tokens        |-> <<"GET", "/tokens">>,
   RemoveToken   |-> <<"DELETE", "/token">>,
   RecoverToken  |-> <<"POST", "/recoverToken">>]

UserCalls ==
  [CreateUser |-> <<"PUT", "/user/new">>,
   UpdateUser |-> <<"POST", "/user/update">>,
   ListUsers  |-> <<"GET", "/user/list">>]

NamedUserCalls ==
  [VerifyUsers |-> <<"POST", "/user/verify">>,
   GetUser     |-> <<"GET", "/user">>,
   HasUser     |-> <<"GET", "/user/has">>,
   DeleteUser  |-> <<"POST", "/user/del">>,
   RecoverUser |-> <<"POST", "/user/recover">>]

LimitCalls ==
  [GetUserRateLimit    |-> <<"GET", "/user/ratelimit">>,
   UpsertUserRateLimit |-> <<"POST", "/user/ratelimit/upsert">>,
   DelUserRateLimit    |-> <<"POST", "/user/ratelimit/del">>]

MinerCalls ==
  [UpsertMiner      |-> <<"POST", "/user/miner/add">>,
   HasMiner         |-> <<"GET", "/miner/has">>,
   MinerExistInUser |-> <<"GET", "/user/miner/exist">>,
   ListMiners       |-> <<"GET", "/user/miner/list">>,
   DelMiner         |-> <<"POST", "/user/miner/del">>,
   GetUserByMiner   |-> <<"GET", "/user/miner">>]

SignerCalls ==
  [RegisterSigners   |-> <<"POST", "/user/signer/register">>,
   SignerExistInUser |-> <<"GET", "/user/signer/exist">>,
   ListSigners       |-> <<"GET", "/user/signer/list">>,
   UnregisterSigners |-> <<"POST", "/user/signer/unregister">>,
   HasSigner         |-> <<"GET", "/signer/has">>,
   DelSigner         |-> <<"POST", "/signer/del">>,
   GetUserBySigner   |-> <<"GET", "/user/signer">>]

Calls == {TokenCalls, UserCalls, NamedUserCalls, LimitCalls, MinerCalls, SignerCalls}
Methods == UNION {DOMAIN f : f \in Calls}
RequestOf(m) == LET f == CHOOSE g \in Calls : m \in DOMAIN g IN f[m]

\* The routes of the server, each with its handler.
RouteTable ==
  {<<"GET", "/healthcheck", "Healthcheck">>, <<"GET", "/version", "Version">>,
   <<"POST", "/verify", "Verify">>, <<"POST", "/genToken", "GenerateToken">>,
   <<"GET", "/token", "GetToken">>, <<"GET", "/tokens", "Tokens">>,
   <<"DELETE", "/token", "RemoveToken">>, <<"POST", "/recoverToken", "RecoverToken">>,
   <<"PUT", "/user/new", "CreateUser">>, <<"POST", "/user/update", "UpdateUser">>,
   <<"GET", "/user/list", "ListUsers">>, <<"GET", "/user", "GetUser">>,
   <<"POST", "/user/verify", "VerifyUsers">>, <<"GET", "/user/has", "HasUser">>,
   <<"POST", "/user/del", "DeleteUser">>, <<"POST", "/user/recover", "RecoverUser">>,
   <<"POST", "/user/ratelimit/upsert", "UpsertUserRateLimit">>,
   <<"POST", "/user/ratelimit/del", "DelUserRateLimit">>,
   <<"GET", "/user/ratelimit", "GetUserRateLimit">>,
   <<"GET", "/miner", "GetUserByMiner">>, <<"GET", "/miner/has-miner", "HasMiner">>,
   <<"GET", "/miner/list-by-user", "ListMiners">>,
   <<"POST", "/miner/add-miner", "UpsertMiner">>, <<"POST", "/miner/del", "DeleteMiner">>,
   <<"GET", "/miner/has", "HasMiner">>, <<"GET", "/user/miner", "GetUserByMiner">>,
   <<"POST", "/user/miner/add", "UpsertMiner">>,
   <<"GET", "/user/miner/exist", "MinerExistInUser">>,
   <<"GET", "/user/miner/list", "ListMiners">>, <<"POST", "/user/miner/del", "DeleteMiner">>,
   <<"GET", "/user/signer", "GetUserBySigner">>,
   <<"POST", "/user/signer/register", "RegisterSigners">>,
   <<"GET", "/user/signer/exist", "SignerExistInUser">>,
   <<"GET", "/user/signer/list", "ListSigner">>,
   <<"POST", "/user/signer/unregister", "UnregisterSigners">>,
   <<"GET", "/signer/has", "HasSigner">>, <<"POST", "/signer/del", "DelSigner">>}

Handlers == {r[3] : r \in RouteTable}

SwappedRoute(q) ==                                   \* slip: a line copied
  IF q[2] = "/user/signer/unregister" THEN "RegisterSigners"
  ELSE CHOOSE h \in Handlers : <<q[1], q[2], h>> \in RouteTable

\* The handler that gin finds for a request.
Route(q) == CHOOSE h \in Handlers : <<q[1], q[2], h>> \in RouteTable
HandlerOf == [m \in Methods |-> Route(RequestOf(m))]
NoMethod == Handlers \ {HandlerOf[m] : m \in Methods}

\* Names are not None, and the mixes call with the permissions there are.
ASSUME ConstantsOK ==
  /\ Default \in User /\ "admin" \in Perm
  /\ None \notin User \cup Miner \cup Signer \cup Token
  /\ None \notin Methods \cup {"ok", "error"}
  /\ None \notin [name : User, perm : Perm, live : BOOLEAN]
  /\ \A m \in Mixes : m.perms \subseteq Perm

-----------------------------------------------------------------------------
(* Requests: what each handler binds. *)
NamesUser == {"GenerateToken", "CreateUser", "UpdateUser", "VerifyUsers", "GetUser",
              "HasUser", "DeleteUser", "RecoverUser", "UpsertUserRateLimit",
              "DelUserRateLimit", "GetUserRateLimit", "UpsertMiner",
              "MinerExistInUser", "ListMiners", "RegisterSigners",
              "SignerExistInUser", "ListSigner", "UnregisterSigners"}
NamesMiner == {"UpsertMiner", "HasMiner", "MinerExistInUser", "DeleteMiner",
               "GetUserByMiner"}
NamesSigner == {"RegisterSigners", "SignerExistInUser", "UnregisterSigners",
                "HasSigner", "DelSigner", "GetUserBySigner"}
NamesToken == {"Verify", "RemoveToken", "RecoverToken"}

\* GetToken takes a token or a name: with both it looks only at the token, with
\* neither the binding fails.
Args(h) ==
  IF h = "GetToken" THEN [user : User, addr : {None}, tok : {None}, perm : {None}]
                    \cup [user : {None}, addr : {None}, tok : Token, perm : {None}]
  ELSE [user : IF h \in NamesUser THEN User ELSE {None},
        addr : IF h \in NamesMiner THEN Miner
               ELSE IF h \in NamesSigner THEN Signer ELSE {None},
        tok : IF h \in NamesToken THEN Token ELSE {None},
        perm : IF h = "GenerateToken" THEN mix.perms ELSE {None}]

OldStrategy == [admin |-> {"read", "write", "sign", "admin"},
                sign |-> {"read", "write", "sign"},
                write |-> {"read", "write"}, read |-> {"read"}]
KeptStrategy(p) ==                                  \* slip: an unknown one stands for itself
  IF p \in DOMAIN OldStrategy THEN OldStrategy[p] ELSE {p}

\* The permissions that a token's permission stands for; an unknown one none.
AdaptOldStrategy(p) == IF p \in DOMAIN OldStrategy THEN OldStrategy[p] ELSE {}

NoCtx == [perms |-> {}, name |-> None]
CtxOf(t) == [perms |-> AdaptOldStrategy(issued[t].perm), name |-> issued[t].name]

IsLive(t) == t \in Token /\ issued[t] # None /\ issued[t].live
NameIn(t) == IF t \in Token /\ issued[t] # None THEN issued[t].name ELSE None

Idle == [pc |-> "idle"]
Unseen == [live |-> FALSE, owned |-> FALSE]

\* What store.go tells of an address and a user.
Owns(u, a) == \/ a \in Miner /\ miner[a] = u /\ u # None
              \/ <<a, u>> \in signer

\* History: was the caller's token live, was its user the address's owner?
LiveNow(c) == call[c] # Idle /\ IsLive(call[c].cred)
OwnedNow(c) == call[c] # Idle /\ Owns(NameIn(call[c].cred), call[c].addr)
Watch == seen' = [c \in Caller |-> IF call'[c] = Idle THEN Unseen
                    ELSE [live |-> seen[c].live \/ LiveNow(c)',
                          owned |-> seen[c].owned \/ OwnedNow(c)']]
-----------------------------------------------------------------------------
(* A client sends a request, with the token cred in its header, by the       *)
(* method m of AuthClient or by none.                                        *)
Request(c, m, h, bad, cred, a) ==
  /\ call[c] = Idle
  /\ h \in mix.calls
  /\ call' = [call EXCEPT ![c] =
       [pc |-> "sent", method |-> m, handler |-> h, bad |-> bad, cred |-> cred,
        user |-> a.user, addr |-> a.addr, tok |-> a.tok, perm |-> a.perm,
        ctx |-> NoCtx, reply |-> None, val |-> None]]
  /\ UNCHANGED <<store, mix>>
  /\ Watch

Send(c) == \E m \in Methods, t \in Token :
             \E a \in Args(HandlerOf[m]) : Request(c, m, HandlerOf[m], FALSE, t, a)

\* One that no method sends: with no token in its header, where the token that
\* a form or a query names, if it does, is taken for the caller's too; one that
\* does not bind; a route that AuthClient has no method for.
Unbound == [user |-> None, addr |-> None, tok |-> None, perm |-> None]
Raw(c) ==
  \E h \in Handlers :
    \/ \E a \in Args(h) : \E t \in {None, a.tok} : Request(c, None, h, FALSE, t, a)
    \/ \E t \in Token : Request(c, None, h, TRUE, t, Unbound)
    \/ /\ h \in NoMethod
       /\ \E t \in Token, a \in Args(h) : Request(c, None, h, FALSE, t, a)

\* The token is verified with the read permission of the server itself. When it
\* is not verified the middleware writes 401 and returns without an abort, so
\* that the handler still runs, with no permission and no name.
Authenticate(c) ==
  /\ call[c].pc = "sent"
  /\ call' = [call EXCEPT ![c].pc = "verified",
       ![c].ctx = IF IsLive(call[c].cred) THEN CtxOf(call[c].cred) ELSE NoCtx]
  /\ UNCHANGED <<store, mix>>
  /\ Watch

Answer(c, reply, val) ==
  call' = [call EXCEPT ![c].pc = "done", ![c].reply = reply, ![c].val = val]
-----------------------------------------------------------------------------
(* The permission checks of the handlers. *)
Open == {"Healthcheck", "Version"}
OwnName == {"GetToken", "GetUser", "MinerExistInUser", "ListMiners",
            "SignerExistInUser", "ListSigner"}
OwnToken == {"RemoveToken", "RecoverToken"}
OwnAddress == {"DeleteMiner", "DelSigner"}

permCheck(r, perm) == perm \in r.ctx.perms

AnyUserName(r) == permCheck(r, "admin") \/ r.ctx.name # None       \* slip: not compared
userPermCheck(r) == permCheck(r, "admin") \/ (r.user # None /\ r.ctx.name = r.user)

\* The name in a token is read from the token itself; of one never issued it
\* may be any, and the store then finds no such token.
tokenPermCheck(r) == \/ permCheck(r, "admin")
                     \/ NameIn(r.tok) # None /\ r.ctx.name = NameIn(r.tok)

Allowed(r) ==
  CASE r.handler \in Open -> TRUE
    [] r.handler = "Verify" -> permCheck(r, "read")
    [] r.handler \in OwnName -> userPermCheck(r)
    [] r.handler \in OwnToken -> tokenPermCheck(r)
    [] OTHER -> permCheck(r, "admin")

\* ownerOfMinerCheck and ownerOfSignerCheck read the store in a transaction of
\* their own, before the one that deletes.
OwnerUnchecked(c) ==                                   \* slip: has is dropped
  /\ call[c].pc = "verified" /\ call[c].handler \in OwnAddress
  /\ ~call[c].bad /\ ~permCheck(call[c], "admin")
  /\ IF call[c].ctx.name # None THEN call' = [call EXCEPT ![c].pc = "checked"]
                                ELSE Answer(c, "error", None)
  /\ UNCHANGED <<store, mix>>
  /\ Watch

CheckOwner(c) ==
  /\ call[c].pc = "verified" /\ call[c].handler \in OwnAddress
  /\ ~call[c].bad /\ ~permCheck(call[c], "admin")
  /\ \/ Owns(call[c].ctx.name, call[c].addr) /\ call' = [call EXCEPT ![c].pc = "checked"]
     \/ ~Owns(call[c].ctx.name, call[c].addr) /\ Answer(c, "error", None)
     \/ Answer(c, "error", None)                       \* the read fails
  /\ UNCHANGED <<store, mix>>
  /\ Watch

\* A request that does not bind is answered 400. DeleteMiner, HasSigner and
\* DelSigner then go on with the zero address, which names nothing.
Refuse(c) ==
  /\ call[c].pc = "verified"
  /\ call[c].bad \/ (~Allowed(call[c]) /\ call[c].handler \notin OwnAddress)
  /\ Answer(c, "error", None)
  /\ UNCHANGED <<store, mix>>
  /\ Watch
-----------------------------------------------------------------------------
(* The operation of the store that a handler calls, when it succeeds; its    *)
(* guards are those that hold however other requests interleave with it.     *)
TokenOp(r) ==
  /\ UNCHANGED bindings
  /\ \/ r.handler = "GenerateToken" /\ \E t \in Token : Issue(t, r.user, r.perm)
     \/ r.handler = "RemoveToken" /\ Remove(r.tok)
     \/ r.handler = "RecoverToken" /\ Recover(r.tok)

UserOp(r) ==
  /\ UNCHANGED issued
  /\ \/ r.handler \in {"CreateUser", "UpdateUser", "RecoverUser"} /\ SaveUser(r.user)
     \/ r.handler = "DeleteUser" /\ RetireUser(r.user)

MinerOp(r) ==
  /\ UNCHANGED issued
  /\ \/ r.handler = "UpsertMiner" /\ BindMiner(r.addr, r.user)
     \/ r.handler = "DeleteMiner" /\ ReleaseMiner(r.addr)
     \/ r.handler = "DeleteMiner" /\ miner[r.addr] = None /\ UNCHANGED bindings

\* DelSigner deletes one binding after the other and may stop between two.
DropBindings(r) ==
  /\ r.handler = "DelSigner"
  /\ \E B \in SUBSET {b \in signer : b[1] = r.addr} : signer' = signer \ B
  /\ UNCHANGED <<user, miner, issued>>

SignerOp(r) ==
  \/ /\ UNCHANGED issued
     /\ \/ r.handler = "RegisterSigners" /\ BindSigner(r.addr, r.user)
        \/ r.handler = "UnregisterSigners" /\ ReleaseSigner(r.addr, r.user)
  \/ DropBindings(r)

\* Rate limits are no state of this module (RateLimits).
Writes == {"GenerateToken", "RemoveToken", "RecoverToken", "CreateUser", "UpdateUser",
           "DeleteUser", "RecoverUser", "UpsertMiner", "DeleteMiner",
           "RegisterSigners", "UnregisterSigners", "DelSigner"}

Operate(r) == \/ TokenOp(r) \/ UserOp(r) \/ MinerOp(r) \/ SignerOp(r)
              \/ r.handler \notin Writes /\ UNCHANGED store

\* What the answer tells, where a client of this model looks at it.
Value(r) ==
  CASE r.handler = "Verify" -> issued[r.tok].perm
    [] r.handler \in {"MinerExistInUser", "SignerExistInUser"} ->
         IF Owns(r.user, r.addr) THEN "yes" ELSE "no"
    [] OTHER -> None

MayRun(r) == r.pc = "checked" \/ (r.pc = "verified" /\ ~r.bad /\ Allowed(r))

Perform(c) ==
  /\ call[c] # Idle /\ MayRun(call[c])
  /\ call[c].handler = "Verify" => IsLive(call[c].tok)
  /\ Operate(call[c])
  /\ Answer(c, "ok", Value(call[c]))
  /\ UNCHANGED mix
  /\ Watch

\* The operation finds nothing, or the database fails. The MySQL store answers
\* that nobody owns an address when it cannot ask its database.
Fail(c) ==
  /\ call[c] # Idle /\ MayRun(call[c]) /\ call[c].handler \notin Open
  /\ DropBindings(call[c]) \/ UNCHANGED store
  /\ \/ Answer(c, "error", None)
     \/ /\ call[c].handler \in {"MinerExistInUser", "SignerExistInUser"}
        /\ Answer(c, "ok", "no")
  /\ UNCHANGED mix
  /\ Watch

\* The answer reaches the client, or the connection is lost: before the server
\* saw the request, or with the answer. The client is told an error then.
End(c) == /\ call' = [call EXCEPT ![c] = Idle]
          /\ UNCHANGED <<store, mix>>
          /\ Watch

Deliver(c) == call[c].pc = "done" /\ End(c)

SentAgain(c) ==                                      \* slip: retried without end
  /\ call[c].pc \in {"sent", "done"}
  /\ call' = [call EXCEPT ![c].pc = "sent", ![c].ctx = NoCtx, ![c].reply = None, ![c].val = None]
  /\ UNCHANGED <<store, mix>>
  /\ Watch

Lose(c) == call[c].pc \in {"sent", "done"} /\ End(c)
-----------------------------------------------------------------------------
ServerStep(c) == \/ Authenticate(c) \/ CheckOwner(c) \/ Refuse(c)
                 \/ Perform(c) \/ Fail(c)

\* Other requests: between two steps of a call they do to the store whatever
\* Registry and TokenBook allow.
OtherUsers == "users" \in mix.others /\ UNCHANGED issued
              /\ \E u \in User : SaveUser(u) \/ RetireUser(u)
OtherMiners == "miners" \in mix.others /\ UNCHANGED issued
               /\ \E m \in Miner : ReleaseMiner(m) \/ \E u \in User : BindMiner(m, u)
OtherSigners == "signers" \in mix.others /\ UNCHANGED issued
                /\ \E s \in Signer, u \in User : BindSigner(s, u) \/ ReleaseSigner(s, u)
OtherTokens == "tokens" \in mix.others /\ UNCHANGED bindings
               /\ \E t \in Token : \/ Remove(t) \/ Recover(t)
                    \/ \E u \in User, p \in mix.perms : Issue(t, u, p)

Others == /\ OtherUsers \/ OtherMiners \/ OtherSigners \/ OtherTokens
          /\ UNCHANGED <<call, mix>>
          /\ Watch

\* A server with the default user and its admin token, and some users.
DefaultToken == CHOOSE t \in Token : TRUE
AccessInit ==
  /\ mix \in Mixes
  /\ user \in [User -> {"absent", "live"}] /\ user[Default] = "live"
  /\ miner = [m \in Miner |-> None]
  /\ signer = {}
  /\ issued = [t \in Token |->
       IF t = DefaultToken THEN [name |-> Default, perm |-> "admin", live |-> TRUE] ELSE None]
  /\ call = [c \in Caller |-> Idle]
  /\ seen = [c \in Caller |-> Unseen]
-----------------------------------------------------------------------------
(* Properties. *)

CallTyped(r) ==
  /\ r.pc \in {"sent", "verified", "checked", "done"}
  /\ r.method \in Methods \cup {None}
  /\ r.handler \in Handlers
  /\ r.cred \in Token \cup {None}
  /\ r.ctx \in [perms : SUBSET OldStrategy.admin, name : User \cup {None}]
  /\ r.reply \in {None, "ok", "error"}
  /\ r.pc = "done" <=> r.reply # None

TypeOfCall == \A c \in Caller : call[c] = Idle \/ CallTyped(call[c])

StoreTyped ==
  /\ mix \in Mixes
  /\ user \in [User -> {"absent", "live", "deleted"}]
  /\ miner \in [Miner -> User \cup {None}]
  /\ signer \subseteq Signer \X User
  /\ issued \in [Token -> {None} \cup [name : User, perm : Perm, live : BOOLEAN]]

\* What a request names once it is bound.
Bound(h, a) ==
  /\ h \in NamesUser => a.user \in User
  /\ h \in NamesMiner => a.addr \in Miner
  /\ h \in NamesSigner => a.addr \in Signer
  /\ h \in {"RemoveToken", "RecoverToken"} => a.tok \in Token
  /\ h = "GenerateToken" => a.perm \in Perm

\* The context of a call is empty or the one of a token that was live during
\* it; the owner of an address is checked with that context and was its owner
\* during the call.
CallInv(c) ==
  LET r == call[c]
  IN  /\ r = [pc |-> r.pc, method |-> r.method, handler |-> r.handler, bad |-> r.bad,
              cred |-> r.cred, user |-> r.user, addr |-> r.addr, tok |-> r.tok,
              perm |-> r.perm, ctx |-> r.ctx, reply |-> r.reply, val |-> r.val]
      /\ ~r.bad => Bound(r.handler, r)
      /\ r.method # None => r.method \in Methods /\ r.handler = HandlerOf[r.method] /\ ~r.bad
      /\ r.pc = "sent" => r.ctx = NoCtx
      /\ seen[c].live => r.cred \in Token /\ issued[r.cred] # None
      /\ r.ctx # NoCtx => seen[c].live /\ r.ctx = CtxOf(r.cred)
      /\ r.pc = "checked" => /\ r.handler \in OwnAddress /\ ~r.bad
                             /\ r.ctx # NoCtx /\ seen[c].owned

\* The inductive invariant of calls.
AccessInv == /\ TypeOfCall
             /\ StoreTyped
             /\ DOMAIN call = Caller
             /\ seen \in [Caller -> [live : BOOLEAN, owned : BOOLEAN]]
             /\ \A c \in Caller : IF call[c] = Idle THEN seen[c] = Unseen ELSE CallInv(c)

\* The token that a call came with was live at some moment of the call, and is
\* an admin's.
ByAdmin(c) == seen[c].live /\ issued[call[c].cred].perm = "admin"

\* The store changes by a call only for a token that was live at some moment of
\* it: an admin's, or to remove or recover a token of the same user, or to
\* release an address that the user owned at some moment of it. A handler runs
\* after a 401 too (route.go:187), a token may be removed after it was verified
\* (route.go:173), and an address rebound after its owner was checked
\* (jwt.go:582).
EffectIsAuthorised(c) ==
  LET r == call[c]
  IN  \/ ByAdmin(c)
      \/ /\ seen[c].live /\ UNCHANGED bindings
         /\ \A t \in Token : issued'[t] # issued[t] =>
              t = r.tok /\ NameIn(t) = NameIn(r.cred)
      \/ /\ seen[c].live /\ seen[c].owned /\ UNCHANGED <<user, issued>>
         /\ \A m \in Miner : miner'[m] # miner[m] => m = r.addr /\ miner'[m] = None
         /\ signer' \subseteq signer
         /\ \A b \in signer \ signer' : b[1] = r.addr

EffectsAuthorised ==
  [][\A c \in Caller : (store' # store /\ call'[c] # call[c]) => EffectIsAuthorised(c)]_vars

\* The step that answers the call of c ok.
TurnsOk(c) == /\ call[c] # Idle /\ call[c].reply = None
              /\ call'[c] # Idle /\ call'[c].reply = "ok"

\* A call that is answered ok either asked what anyone may ask, or came with a
\* token that was live at some moment of it: an admin's, or one whose user asked
\* of itself, of its own tokens or of an address it owned, or, for Verify, one
\* with a permission that reads (userPermCheck and tokenPermCheck,
\* auth/jwt.go:756-793, over route.go:173-207).
AnswersAuthorised ==
  [][\A c \in Caller :
       TurnsOk(c) =>
         LET r == call[c]
             name == NameIn(r.cred)
         IN  \/ r.handler \in Open
             \/ ByAdmin(c)
             \/ /\ seen[c].live
                /\ \/ r.user = name
                   \/ r.tok # None /\ NameIn(r.tok) = name
                   \/ seen[c].owned
                   \/ r.handler = "Verify" /\ issued[r.cred].perm \in DOMAIN OldStrategy]_vars

\* What the name of a method of AuthClient promises.
Promised(r) ==
  CASE r.method = "GenerateToken" ->
         \E t \in Token : issued[t] = None /\
            issued' = [issued EXCEPT ![t] = [name |-> r.user, perm |-> r.perm, live |-> TRUE]]
    [] r.method = "RemoveToken" -> ~IsLive(r.tok)'
    [] r.method = "RecoverToken" -> IsLive(r.tok)'
    [] r.method \in {"CreateUser", "UpdateUser", "RecoverUser"} -> user'[r.user] = "live"
    [] r.method = "DeleteUser" -> user'[r.user] = "deleted"
    [] r.method = "UpsertMiner" -> miner'[r.addr] = r.user
    [] r.method = "DelMiner" -> miner'[r.addr] = None
    [] r.method = "RegisterSigners" -> <<r.addr, r.user>> \in signer'
    [] r.method = "UnregisterSigners" -> <<r.addr, r.user>> \notin signer'
    [] r.method = "DelSigner" -> signer' \subseteq signer /\ UNCHANGED <<user, miner, issued>>
    [] OTHER -> UNCHANGED store

\* When a method of AuthClient is answered ok, what it promises was true at one
\* moment of the call: the request it sends (auth_client.go) is routed to the
\* handler that does it (route.go:38-88), and one that only asks changes nothing.
OkMeansDone ==
  [][\A c \in Caller :
       TurnsOk(c) /\ call[c].method # None => Promised(call[c])]_vars

\* Every call ends, the refused, failed and lost ones too.
CallsEnd == \A c \in Caller : (call[c] # Idle) ~> (call[c] = Idle)
=============================================================================
