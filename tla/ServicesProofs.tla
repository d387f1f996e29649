--------------------------- MODULE ServicesProofs ---------------------------
(* What a call may do and be told, and what a service may serve, proved for  *)
(* any users, addresses, tokens, clients and mixes: Spec => []IInv, and from *)
(* it the properties of Access and of Services.                              *)
EXTENDS Services, TLAPS

-----------------------------------------------------------------------------
(* Permissions *)

LEMMA Strategy ==
  ASSUME NEW p
  PROVE  /\ AdaptOldStrategy(p) \in SUBSET OldStrategy.admin
         /\ "admin" \in AdaptOldStrategy(p) => p = "admin"
         /\ "read" \in AdaptOldStrategy(p) => p \in DOMAIN OldStrategy
<1>1. DOMAIN OldStrategy = {"admin", "sign", "write", "read"}
  BY DEF OldStrategy
<1>2. CASE p \notin DOMAIN OldStrategy
  BY <1>2 DEF AdaptOldStrategy
<1>3. CASE p = "admin"
  BY <1>1, <1>3 DEF AdaptOldStrategy, OldStrategy
<1>4. CASE p = "sign"
  BY <1>1, <1>4 DEF AdaptOldStrategy, OldStrategy
<1>5. CASE p = "write"
  BY <1>1, <1>5 DEF AdaptOldStrategy, OldStrategy
<1>6. CASE p = "read"
  BY <1>1, <1>6 DEF AdaptOldStrategy, OldStrategy
<1> QED BY <1>1, <1>2, <1>3, <1>4, <1>5, <1>6

LEMMA Contexts ==
  ASSUME StoreTyped, NEW t \in Token, issued[t] # None
  PROVE  /\ CtxOf(t) \in [perms : SUBSET OldStrategy.admin, name : User \cup {None}]
         /\ CtxOf(t).name = issued[t].name /\ NameIn(t) = issued[t].name
         /\ CtxOf(t).perms = AdaptOldStrategy(issued[t].perm)
         /\ CtxOf(t) # NoCtx /\ issued[t].name \in User
<1>1. issued[t] \in [name : User, perm : Perm, live : BOOLEAN]
  BY DEF StoreTyped
<1>2. issued[t].name \in User /\ issued[t].name # None
  BY <1>1, ConstantsOK
<1> QED BY <1>1, <1>2, Strategy DEF CtxOf, NameIn, NoCtx

-----------------------------------------------------------------------------
(* The store *)

\* What no operation of TokenBook changes.
TokensKept == \A t \in Token : issued[t] # None =>
                /\ issued'[t] # None
                /\ issued'[t].name = issued[t].name
                /\ issued'[t].perm = issued[t].perm

StoreKept == StoreTyped' /\ TokensKept

LEMMA Unchanged ==
  ASSUME StoreTyped, UNCHANGED <<store, mix>>
  PROVE  StoreKept
BY DEF StoreKept, StoreTyped, TokensKept, store, bindings

LEMMA IssueKeeps ==
  ASSUME StoreTyped, NEW t \in Token, NEW u \in User, NEW perm \in Perm,
         Issue(t, u, perm), UNCHANGED <<bindings, mix>>
  PROVE  StoreKept
<1>1. [name |-> u, perm |-> perm, live |-> TRUE] \in [name : User, perm : Perm, live : BOOLEAN]
  OBVIOUS
<1>2. issued[t] = None /\ issued' = [issued EXCEPT ![t] = [name |-> u, perm |-> perm, live |-> TRUE]]
  BY DEF Issue
<1>3. issued' \in [Token -> {None} \cup [name : User, perm : Perm, live : BOOLEAN]]
  BY <1>1, <1>2 DEF StoreTyped
<1>4. TokensKept
  BY <1>2 DEF TokensKept, StoreTyped
<1> QED BY <1>3, <1>4 DEF StoreKept, StoreTyped, bindings

LEMMA MarkKeeps ==
  ASSUME StoreTyped, NEW t \in Token, Remove(t) \/ Recover(t), UNCHANGED <<bindings, mix>>
  PROVE  StoreKept
<1>1. issued[t] # None /\ \E b \in BOOLEAN : issued' = [issued EXCEPT ![t].live = b]
  BY DEF Remove, Recover
<1>2. PICK b \in BOOLEAN : issued' = [issued EXCEPT ![t].live = b]
  BY <1>1
<1>3. issued[t] \in [name : User, perm : Perm, live : BOOLEAN]
  BY <1>1 DEF StoreTyped
<1>4. PICK r : r = [issued[t] EXCEPT !.live = b]
  OBVIOUS
<1>5. /\ r \in [name : User, perm : Perm, live : BOOLEAN]
      /\ r.name = issued[t].name /\ r.perm = issued[t].perm
  BY <1>3, <1>4
<1>6. issued' = [issued EXCEPT ![t] = r]
  BY <1>2, <1>4
<1>7. issued' \in [Token -> {None} \cup [name : User, perm : Perm, live : BOOLEAN]]
  BY <1>5, <1>6 DEF StoreTyped
<1>8. r # None
  BY <1>5, ConstantsOK
<1>9. TokensKept
  BY <1>5, <1>6, <1>8 DEF TokensKept, StoreTyped
<1> QED BY <1>7, <1>9 DEF StoreKept, StoreTyped, bindings

LEMMA UserKeeps ==
  ASSUME StoreTyped, NEW u \in User, SaveUser(u) \/ RetireUser(u), UNCHANGED <<issued, mix>>
  PROVE  StoreKept
<1>1. /\ user' \in [User -> {"absent", "live", "deleted"}]
      /\ signer' = signer
  BY DEF SaveUser, RetireUser, StoreTyped
<1>2. miner' \in [Miner -> User \cup {None}]
  <2>1. CASE SaveUser(u)
    BY <2>1 DEF SaveUser, StoreTyped
  <2>2. CASE RetireUser(u)
    <3>1. PICK S \in SUBSET {m \in Miner : miner[m] = u} :
            miner' = [m \in Miner |-> IF m \in S THEN None ELSE miner[m]]
      BY <2>2 DEF RetireUser
    <3> QED BY <3>1 DEF StoreTyped
  <2> QED BY <2>1, <2>2
<1>3. TokensKept
  BY DEF TokensKept
<1> QED BY <1>1, <1>2, <1>3 DEF StoreKept, StoreTyped

LEMMA MinerKeeps ==
  ASSUME StoreTyped, NEW m \in Miner, UNCHANGED <<issued, mix>>,
         ReleaseMiner(m) \/ \E u \in User : BindMiner(m, u)
  PROVE  StoreKept
<1>1. UNCHANGED <<user, signer>>
  BY DEF ReleaseMiner, BindMiner
<1>2. \E v \in User \cup {None} : miner' = [miner EXCEPT ![m] = v]
  BY DEF ReleaseMiner, BindMiner
<1>3. miner' \in [Miner -> User \cup {None}]
  BY <1>2 DEF StoreTyped
<1>4. TokensKept
  BY DEF TokensKept
<1> QED BY <1>1, <1>3, <1>4 DEF StoreKept, StoreTyped

LEMMA SignerKeeps ==
  ASSUME StoreTyped, NEW s \in Signer, NEW u \in User, UNCHANGED <<issued, mix>>,
         BindSigner(s, u) \/ ReleaseSigner(s, u)
  PROVE  StoreKept
<1>1. UNCHANGED <<user, miner>> /\ signer' \subseteq Signer \X User
  BY DEF BindSigner, ReleaseSigner, StoreTyped
<1>2. TokensKept
  BY DEF TokensKept
<1> QED BY <1>1, <1>2 DEF StoreKept, StoreTyped

LEMMA DropKeeps ==
  ASSUME StoreTyped, NEW r, DropBindings(r), UNCHANGED mix
  PROVE  StoreKept
BY DEF DropBindings, StoreKept, StoreTyped, TokensKept

LEMMA OthersKeep ==
  ASSUME StoreTyped, Others
  PROVE  StoreKept
<1>1. UNCHANGED mix
  BY DEF Others
<1>2. CASE OtherUsers
  BY <1>1, <1>2, UserKeeps DEF OtherUsers
<1>3. CASE OtherMiners
  BY <1>1, <1>3, MinerKeeps DEF OtherMiners
<1>4. CASE OtherSigners
  BY <1>1, <1>4, SignerKeeps DEF OtherSigners
<1>5. CASE OtherTokens
  <2>1. UNCHANGED bindings /\ mix.perms \subseteq Perm
    BY <1>5, ConstantsOK DEF OtherTokens, StoreTyped
  <2>2. PICK t \in Token : \/ Remove(t) \/ Recover(t)
                           \/ \E u \in User, p \in mix.perms : Issue(t, u, p)
    BY <1>5 DEF OtherTokens
  <2>3. CASE Remove(t) \/ Recover(t)
    BY <1>1, <2>1, <2>3, MarkKeeps
  <2>4. CASE \E u \in User, p \in mix.perms : Issue(t, u, p)
    BY <1>1, <2>1, <2>4, IssueKeeps
  <2> QED BY <2>2, <2>3, <2>4
<1> QED BY <1>2, <1>3, <1>4, <1>5 DEF Others

-----------------------------------------------------------------------------
(* The operations of the handlers *)

LEMMA OperateKeeps ==
  ASSUME StoreTyped, NEW r, Bound(r.handler, r), Operate(r), UNCHANGED mix
  PROVE  StoreKept
<1>1. CASE TokenOp(r)
  <2>1. UNCHANGED bindings
    BY <1>1 DEF TokenOp
  <2>2. CASE r.handler = "GenerateToken" /\ \E t \in Token : Issue(t, r.user, r.perm)
    <3>1. r.user \in User /\ r.perm \in Perm
      BY <2>2 DEF Bound, NamesUser
    <3> QED BY <2>1, <2>2, <3>1, IssueKeeps
  <2>3. CASE r.handler = "RemoveToken" /\ Remove(r.tok)
    <3>1. r.tok \in Token
      BY <2>3 DEF Bound
    <3> QED BY <2>1, <2>3, <3>1, MarkKeeps
  <2>4. CASE r.handler = "RecoverToken" /\ Recover(r.tok)
    <3>1. r.tok \in Token
      BY <2>4 DEF Bound
    <3> QED BY <2>1, <2>4, <3>1, MarkKeeps
  <2> QED BY <1>1, <2>2, <2>3, <2>4 DEF TokenOp
<1>2. CASE UserOp(r)
  <2>1. r.user \in User
    BY <1>2 DEF UserOp, Bound, NamesUser
  <2> QED BY <1>2, <2>1, UserKeeps DEF UserOp
<1>3. CASE MinerOp(r)
  <2>1. r.addr \in Miner
    BY <1>3 DEF MinerOp, Bound, NamesMiner
  <2>2. r.handler = "UpsertMiner" => r.user \in User
    BY DEF Bound, NamesUser
  <2>3. UNCHANGED bindings /\ UNCHANGED issued => StoreKept
    BY Unchanged DEF store
  <2> QED BY <1>3, <2>1, <2>2, <2>3, MinerKeeps DEF MinerOp
<1>4. CASE SignerOp(r)
  <2>1. CASE DropBindings(r)
    BY <2>1, DropKeeps
  <2>2. CASE ~DropBindings(r)
    <3>1. r.handler \in {"RegisterSigners", "UnregisterSigners"} /\ UNCHANGED issued
      BY <1>4, <2>2 DEF SignerOp
    <3>2. r.addr \in Signer /\ r.user \in User
      BY <3>1 DEF Bound, NamesUser, NamesSigner
    <3> QED BY <1>4, <2>2, <3>1, <3>2, SignerKeeps DEF SignerOp
  <2> QED BY <2>1, <2>2
<1>5. CASE UNCHANGED store
  BY <1>5, Unchanged
<1> QED BY <1>1, <1>2, <1>3, <1>4, <1>5 DEF Operate

-----------------------------------------------------------------------------
(* What a call knows *)

\* The history of a call only grows, and has seen the state it is in.
LEMMA Watching ==
  ASSUME AccessInv, Watch, NEW c \in Caller, call'[c] # Idle
  PROVE  /\ seen[c].live => seen'[c].live
         /\ seen[c].owned => seen'[c].owned
         /\ IsLive(call[c].cred)' => seen'[c].live
         /\ Owns(NameIn(call[c].cred), call[c].addr)' => seen'[c].owned
         /\ seen'[c].live => seen[c].live \/ IsLive(call[c].cred)'
<1>1. seen'[c] = [live |-> seen[c].live \/ LiveNow(c)', owned |-> seen[c].owned \/ OwnedNow(c)']
  BY DEF Watch
<1> DEFINE L == seen[c].live \/ LiveNow(c)'
           O == seen[c].owned \/ OwnedNow(c)'
<1>2. L \in BOOLEAN /\ O \in BOOLEAN
  OBVIOUS
<1>3. seen'[c] = [live |-> L, owned |-> O]
  BY <1>1
<1>4. seen'[c].live = L /\ seen'[c].owned = O
  <2> HIDE DEF L, O
  <2> QED BY <1>3
<1>5. (seen'[c].live <=> L) /\ (seen'[c].owned <=> O)
  <2> HIDE DEF L, O
  <2> QED BY <1>2, <1>4
<1>6. (LiveNow(c)' <=> IsLive(call[c].cred)')
      /\ (OwnedNow(c)' <=> Owns(NameIn(call[c].cred), call[c].addr)')
  BY DEF LiveNow, OwnedNow
<1> QED BY <1>5, <1>6

LEMMA SeenTyped ==
  ASSUME AccessInv, Watch
  PROVE  seen' \in [Caller -> [live : BOOLEAN, owned : BOOLEAN]]
<1>1. \A c \in Caller : seen[c].live \in BOOLEAN /\ seen[c].owned \in BOOLEAN
  BY DEF AccessInv
<1>2. \A c \in Caller : LiveNow(c)' \in BOOLEAN /\ OwnedNow(c)' \in BOOLEAN
  BY DEF LiveNow, OwnedNow
<1> QED BY <1>1, <1>2 DEF Watch, Unseen

LEMMA KeptContext ==
  ASSUME StoreKept, NEW t \in Token, issued[t] # None
  PROVE  issued'[t] # None /\ CtxOf(t)' = CtxOf(t) /\ NameIn(t)' = NameIn(t)
BY DEF StoreKept, TokensKept, CtxOf, NameIn

\* A call that takes no step.
LEMMA CallKept ==
  ASSUME AccessInv, StoreKept, Watch, NEW c \in Caller, call'[c] = call[c], call[c] # Idle
  PROVE  CallInv(c)'
<1>1. CallInv(c)
  BY DEF AccessInv
<1> DEFINE r == call[c]
<1>2. seen[c].live => r.cred \in Token /\ issued[r.cred] # None
  BY <1>1 DEF CallInv
<1>3. seen'[c].live => r.cred \in Token /\ issued'[r.cred] # None
  BY <1>2, Watching, KeptContext DEF IsLive
<1>4. r.ctx # NoCtx => seen'[c].live /\ r.ctx = CtxOf(call[c].cred)'
  BY <1>1, <1>2, Watching, KeptContext DEF CallInv
<1>5. seen[c].owned => seen'[c].owned
  BY Watching
<1>6. UNCHANGED call[c]
  OBVIOUS
<1>7. Bound(r.handler, r)' <=> Bound(r.handler, r)
  BY <1>6 DEF Bound
<1> QED BY <1>1, <1>3, <1>4, <1>5, <1>6, <1>7 DEF CallInv

\* A step changes one call.
LEMMA CallStep ==
  ASSUME AccessInv, StoreKept, Watch, NEW c \in Caller,
         DOMAIN call' = Caller, \A d \in Caller \ {c} : call'[d] = call[d],
         call'[c] = Idle \/ (CallTyped(call'[c]) /\ CallInv(c)')
  PROVE  AccessInv'
<1>1. \A d \in Caller : call'[d] = Idle \/ CallTyped(call'[d])
  BY DEF AccessInv, TypeOfCall
<1>2. \A d \in Caller : call'[d] = Idle => seen'[d] = Unseen
  BY DEF Watch
<1>3. \A d \in Caller : call'[d] # Idle => CallInv(d)'
  BY CallKept
<1>4. seen' \in [Caller -> [live : BOOLEAN, owned : BOOLEAN]]
  BY SeenTyped
<1>5. TypeOfCall'
  BY <1>1 DEF TypeOfCall
<1> QED BY <1>2, <1>3, <1>4, <1>5 DEF AccessInv, StoreKept

LEMMA NoCallSteps ==
  ASSUME AccessInv, StoreKept, Watch, UNCHANGED call
  PROVE  AccessInv'
<1>1. \A d \in Caller : call'[d] = Idle => seen'[d] = Unseen
  BY DEF Watch
<1>2. \A d \in Caller : call'[d] # Idle => CallInv(d)'
  BY CallKept
<1>3. TypeOfCall'
  BY DEF AccessInv, TypeOfCall
<1> QED BY <1>1, <1>2, <1>3, SeenTyped DEF AccessInv, StoreKept

-----------------------------------------------------------------------------
(* Routes *)

\* The methods of each group of AuthClient.
LEMMA Domains ==
  /\ DOMAIN TokenCalls = {"Verify", "GenerateToken", "GetToken", "Tokens", "RemoveToken", "RecoverToken"}
  /\ DOMAIN UserCalls = {"CreateUser", "UpdateUser", "ListUsers"}
  /\ DOMAIN NamedUserCalls = {"VerifyUsers", "GetUser", "HasUser", "DeleteUser", "RecoverUser"}
  /\ DOMAIN LimitCalls = {"GetUserRateLimit", "UpsertUserRateLimit", "DelUserRateLimit"}
  /\ DOMAIN MinerCalls = {"UpsertMiner", "HasMiner", "MinerExistInUser", "ListMiners", "DelMiner",
                          "GetUserByMiner"}
  /\ DOMAIN SignerCalls = {"RegisterSigners", "SignerExistInUser", "ListSigners",
                           "UnregisterSigners", "HasSigner", "DelSigner", "GetUserBySigner"}
BY DEF TokenCalls, UserCalls, NamedUserCalls, LimitCalls, MinerCalls, SignerCalls

\* A method is in one group.
LEMMA OneGroup ==
  ASSUME NEW f \in Calls, NEW m \in DOMAIN f
  PROVE  m \in Methods /\ RequestOf(m) = f[m]
<1>1. m \in Methods
  BY DEF Methods
<1>2. ASSUME NEW g \in Calls, m \in DOMAIN g PROVE g = f
  <2>1. f = TokenCalls \/ f = UserCalls \/ f = NamedUserCalls \/ f = LimitCalls \/ f = MinerCalls
          \/ f = SignerCalls
    BY DEF Calls
  <2>2. g = TokenCalls \/ g = UserCalls \/ g = NamedUserCalls \/ g = LimitCalls \/ g = MinerCalls
          \/ g = SignerCalls
    BY DEF Calls
  <2> QED BY <1>2, <2>1, <2>2, Domains
<1> QED BY <1>1, <1>2 DEF RequestOf

\* A route leads to one handler.
LEMMA RouteIs ==
  ASSUME NEW a, NEW b, NEW h, <<a, b, h>> \in RouteTable
  PROVE  h \in Handlers /\ Route(<<a, b>>) = h
<1>1. h \in Handlers
  BY DEF Handlers
<1>2. \A k : <<a, b, k>> \in RouteTable => k = h
  BY DEF RouteTable
<1> QED BY <1>1, <1>2 DEF Route

\* The handler that does what the method is named for.
NamedHandler(m) ==
  IF m = "DelMiner" THEN "DeleteMiner" ELSE IF m = "ListSigners" THEN "ListSigner" ELSE m

LEMMA Routed ==
  ASSUME NEW f \in Calls, NEW m \in DOMAIN f,
         NEW a, NEW b, f[m] = <<a, b>>, <<a, b, NamedHandler(m)>> \in RouteTable
  PROVE  HandlerOf[m] = NamedHandler(m) /\ HandlerOf[m] \in Handlers
BY OneGroup, RouteIs DEF HandlerOf

LEMMA MethodsRouted ==
  \A m \in Methods : HandlerOf[m] = NamedHandler(m) /\ HandlerOf[m] \in Handlers
<1>1. ASSUME NEW m \in DOMAIN TokenCalls
      PROVE \E a, b : TokenCalls[m] = <<a, b>> /\ <<a, b, NamedHandler(m)>> \in RouteTable
  BY Domains DEF TokenCalls, RouteTable, NamedHandler
<1>2. ASSUME NEW m \in DOMAIN UserCalls
      PROVE \E a, b : UserCalls[m] = <<a, b>> /\ <<a, b, NamedHandler(m)>> \in RouteTable
  BY Domains DEF UserCalls, RouteTable, NamedHandler
<1>3. ASSUME NEW m \in DOMAIN NamedUserCalls
      PROVE \E a, b : NamedUserCalls[m] = <<a, b>> /\ <<a, b, NamedHandler(m)>> \in RouteTable
  BY Domains DEF NamedUserCalls, RouteTable, NamedHandler
<1>4. ASSUME NEW m \in DOMAIN LimitCalls
      PROVE \E a, b : LimitCalls[m] = <<a, b>> /\ <<a, b, NamedHandler(m)>> \in RouteTable
  BY Domains DEF LimitCalls, RouteTable, NamedHandler
<1>5. ASSUME NEW m \in DOMAIN MinerCalls
      PROVE \E a, b : MinerCalls[m] = <<a, b>> /\ <<a, b, NamedHandler(m)>> \in RouteTable
  BY Domains DEF MinerCalls, RouteTable, NamedHandler
<1>6. ASSUME NEW m \in DOMAIN SignerCalls
      PROVE \E a, b : SignerCalls[m] = <<a, b>> /\ <<a, b, NamedHandler(m)>> \in RouteTable
  BY Domains DEF SignerCalls, RouteTable, NamedHandler
<1>7. ASSUME NEW f \in Calls, NEW m \in DOMAIN f
      PROVE  \E a, b : f[m] = <<a, b>> /\ <<a, b, NamedHandler(m)>> \in RouteTable
  <2>1. CASE f = TokenCalls
    BY <1>1, <2>1
  <2>2. CASE f = UserCalls
    BY <1>2, <2>2
  <2>3. CASE f = NamedUserCalls
    BY <1>3, <2>3
  <2>4. CASE f = LimitCalls
    BY <1>4, <2>4
  <2>5. CASE f = MinerCalls
    BY <1>5, <2>5
  <2>6. CASE f = SignerCalls
    BY <1>6, <2>6
  <2> QED BY <2>1, <2>2, <2>3, <2>4, <2>5, <2>6 DEF Calls
<1> QED BY <1>7, Routed DEF Methods

-----------------------------------------------------------------------------
(* The steps of a call *)

LEMMA ArgsBound ==
  ASSUME StoreTyped, NEW h, NEW a \in Args(h)
  PROVE  Bound(h, a)
<1>1. mix.perms \subseteq Perm
  BY ConstantsOK DEF StoreTyped
<1>2. CASE h = "GetToken"
  BY <1>2 DEF Bound, NamesUser, NamesMiner, NamesSigner
<1>3. CASE h # "GetToken"
  <2>1. a \in [user : IF h \in NamesUser THEN User ELSE {None},
               addr : IF h \in NamesMiner THEN Miner
                      ELSE IF h \in NamesSigner THEN Signer ELSE {None},
               tok : IF h \in NamesToken THEN Token ELSE {None},
               perm : IF h = "GenerateToken" THEN mix.perms ELSE {None}]
    BY <1>3 DEF Args
  <2>2. h \in NamesSigner => h \notin NamesMiner
    BY DEF NamesSigner, NamesMiner
  <2>3. h \in {"RemoveToken", "RecoverToken"} => h \in NamesToken
    BY DEF NamesToken
  <2> QED BY <1>1, <2>1, <2>2, <2>3 DEF Bound
<1> QED BY <1>2, <1>3

LEMMA RequestKeeps ==
  ASSUME AccessInv, NEW c \in Caller, NEW m \in Methods \cup {None}, NEW h \in Handlers,
         NEW bad \in BOOLEAN, NEW cred \in Token \cup {None}, NEW a,
         Request(c, m, h, bad, cred, a),
         ~bad => Bound(h, a),
         m # None => h = HandlerOf[m] /\ ~bad
  PROVE  AccessInv'
<1>1. /\ call[c] = Idle
      /\ UNCHANGED <<store, mix>> /\ Watch
  BY DEF Request
<1>2. PICK r : r = [pc |-> "sent", method |-> m, handler |-> h, bad |-> bad, cred |-> cred,
                    user |-> a.user, addr |-> a.addr, tok |-> a.tok, perm |-> a.perm,
                    ctx |-> NoCtx, reply |-> None, val |-> None]
  OBVIOUS
<1>3. call' = [call EXCEPT ![c] = r]
  BY <1>2 DEF Request
<1>4. StoreKept /\ seen[c] = Unseen /\ DOMAIN call = Caller
  BY <1>1, Unchanged DEF AccessInv
<1>5. call'[c] = r /\ DOMAIN call' = Caller /\ \A d \in Caller \ {c} : call'[d] = call[d]
  BY <1>3, <1>4
<1>6. r # Idle
  BY <1>2 DEF Idle
<1>7. NoCtx \in [perms : SUBSET OldStrategy.admin, name : User \cup {None}]
  BY DEF NoCtx
<1>8. CallTyped(r)
  BY <1>2, <1>7, ConstantsOK DEF CallTyped
<1>9. seen'[c].live => IsLive(call[c].cred)'
  BY <1>1, <1>4, <1>5, <1>6, Watching DEF Unseen
<1>10. seen'[c].live => r.cred \in Token /\ issued'[r.cred] # None
  BY <1>5, <1>9 DEF IsLive
<1>11. ~r.bad => Bound(r.handler, r)
  BY <1>2 DEF Bound
<1>12. CallInv(c)'
  BY <1>2, <1>5, <1>10, <1>11 DEF CallInv, Bound
<1> QED BY <1>1, <1>4, <1>5, <1>8, <1>12, CallStep

LEMMA SendKeeps ==
  ASSUME AccessInv, NEW c \in Caller, Send(c)
  PROVE  AccessInv'
<1>1. PICK m \in Methods, t \in Token :
        \E a \in Args(HandlerOf[m]) : Request(c, m, HandlerOf[m], FALSE, t, a)
  BY DEF Send
<1>2. PICK a \in Args(HandlerOf[m]) : Request(c, m, HandlerOf[m], FALSE, t, a)
  BY <1>1
<1>3. Bound(HandlerOf[m], a)
  BY ArgsBound DEF AccessInv
<1>4. PICK h \in Handlers : h = HandlerOf[m]
  BY MethodsRouted
<1>5. Request(c, m, h, FALSE, t, a) /\ Bound(h, a)
  BY <1>2, <1>3, <1>4
<1> QED BY <1>4, <1>5, RequestKeeps

LEMMA RawKeeps ==
  ASSUME AccessInv, NEW c \in Caller, Raw(c)
  PROVE  AccessInv'
<1>1. PICK h \in Handlers :
        \/ \E a \in Args(h) : \E t \in {None, a.tok} : Request(c, None, h, FALSE, t, a)
        \/ \E t \in Token : Request(c, None, h, TRUE, t, Unbound)
        \/ /\ h \in NoMethod
           /\ \E t \in Token, a \in Args(h) : Request(c, None, h, FALSE, t, a)
  BY DEF Raw
<1>2. CASE \E t \in Token : Request(c, None, h, TRUE, t, Unbound)
  BY <1>2, RequestKeeps
<1>3. CASE \E a \in Args(h) : \E t \in Token \cup {None} : Request(c, None, h, FALSE, t, a)
  BY <1>3, RequestKeeps, ArgsBound DEF AccessInv
<1>4. \A a \in Args(h) : a.tok \in Token \cup {None}
  BY DEF Args
<1> QED BY <1>1, <1>2, <1>3, <1>4

\* The call of c goes on: what it names stays.
MovesTo(c, pc, ctx, reply, val) ==
  call' = [call EXCEPT ![c] =
    [pc |-> pc, method |-> call[c].method, handler |-> call[c].handler, bad |-> call[c].bad,
     cred |-> call[c].cred, user |-> call[c].user, addr |-> call[c].addr, tok |-> call[c].tok,
     perm |-> call[c].perm, ctx |-> ctx, reply |-> reply, val |-> val]]

LEMMA CallFacts ==
  ASSUME AccessInv, NEW c \in Caller, call[c] # Idle
  PROVE  /\ StoreTyped /\ DOMAIN call = Caller
         /\ CallTyped(call[c]) /\ CallInv(c)
         /\ seen[c].live => call[c].cred \in Token /\ issued[call[c].cred] # None
         /\ ~call[c].bad => Bound(call[c].handler, call[c])
         /\ call[c].method # None => /\ call[c].method \in Methods /\ ~call[c].bad
                                     /\ call[c].handler = HandlerOf[call[c].method]
BY DEF AccessInv, TypeOfCall, CallInv

LEMMA CallRecord ==
  ASSUME AccessInv, NEW c \in Caller, call[c] # Idle
  PROVE  \E p, m, h, b, k, u, a, t, e, x, y, v :
           call[c] = [pc |-> p, method |-> m, handler |-> h, bad |-> b, cred |-> k, user |-> u,
                      addr |-> a, tok |-> t, perm |-> e, ctx |-> x, reply |-> y, val |-> v]
<1>1. CallInv(c)
  BY CallFacts
<1> QED BY <1>1 DEF CallInv

LEMMA Updates ==
  ASSUME AccessInv, NEW c \in Caller, call[c] # Idle, NEW pc, NEW ctx, NEW reply, NEW val
  PROVE  /\ call' = [call EXCEPT ![c].pc = pc, ![c].ctx = ctx]
              => MovesTo(c, pc, ctx, call[c].reply, call[c].val)
         /\ call' = [call EXCEPT ![c].pc = pc]
              => MovesTo(c, pc, call[c].ctx, call[c].reply, call[c].val)
         /\ call' = [call EXCEPT ![c].pc = pc, ![c].reply = reply, ![c].val = val]
              => MovesTo(c, pc, call[c].ctx, reply, val)
<1>1. PICK p, m, h, b, k, u, a, t, e, x, y, v :
        call[c] = [pc |-> p, method |-> m, handler |-> h, bad |-> b, cred |-> k, user |-> u,
                   addr |-> a, tok |-> t, perm |-> e, ctx |-> x, reply |-> y, val |-> v]
  BY CallRecord
<1>2. DOMAIN call = Caller
  BY CallFacts
<1>3. call' = [call EXCEPT ![c].pc = pc]
        => MovesTo(c, pc, call[c].ctx, call[c].reply, call[c].val)
  BY <1>1, <1>2 DEF MovesTo
<1>4. call' = [call EXCEPT ![c].pc = pc, ![c].ctx = ctx]
        => MovesTo(c, pc, ctx, call[c].reply, call[c].val)
  BY <1>1, <1>2 DEF MovesTo
<1>5. call' = [call EXCEPT ![c].pc = pc, ![c].reply = reply, ![c].val = val]
        => MovesTo(c, pc, call[c].ctx, reply, val)
  BY <1>1, <1>2 DEF MovesTo
<1> QED BY <1>3, <1>4, <1>5

LEMMA Moved ==
  ASSUME AccessInv, NEW c \in Caller, call[c] # Idle,
         NEW pc, NEW ctx, NEW reply, NEW val, MovesTo(c, pc, ctx, reply, val)
  PROVE  /\ DOMAIN call' = Caller /\ \A d \in Caller \ {c} : call'[d] = call[d]
         /\ call'[c].pc = pc /\ call'[c].ctx = ctx
         /\ call'[c].reply = reply /\ call'[c].val = val
         /\ call'[c].method = call[c].method /\ call'[c].handler = call[c].handler
         /\ call'[c].bad = call[c].bad /\ call'[c].cred = call[c].cred
         /\ call'[c].user = call[c].user /\ call'[c].addr = call[c].addr
         /\ call'[c].tok = call[c].tok /\ call'[c].perm = call[c].perm
BY CallFacts DEF MovesTo

LEMMA Moves ==
  ASSUME AccessInv, StoreKept, Watch, NEW c \in Caller, call[c] # Idle,
         NEW pc \in {"verified", "checked", "done"}, NEW ctx, NEW reply \in {None, "ok", "error"},
         NEW val, MovesTo(c, pc, ctx, reply, val),
         pc = "done" <=> reply # None,
         ctx = call[c].ctx \/ ctx = NoCtx \/ (IsLive(call[c].cred)' /\ ctx = CtxOf(call[c].cred)'),
         pc = "checked" => /\ call[c].handler \in OwnAddress /\ ~call[c].bad
                           /\ ctx # NoCtx /\ seen'[c].owned
  PROVE  AccessInv' /\ call'[c] # Idle
<1> DEFINE r == call'[c]
<1>1. DOMAIN call = Caller /\ CallInv(c) /\ CallTyped(call[c]) /\ StoreTyped
  BY CallFacts
<1>2. DOMAIN call' = Caller /\ \A d \in Caller \ {c} : call'[d] = call[d]
  BY Moved
<1>3. /\ r.pc = pc /\ r.ctx = ctx /\ r.reply = reply
      /\ r.method = call[c].method /\ r.handler = call[c].handler
      /\ r.bad = call[c].bad /\ r.cred = call[c].cred
      /\ r.user = call[c].user /\ r.addr = call[c].addr
      /\ r.tok = call[c].tok /\ r.perm = call[c].perm
  BY Moved
<1>4. r # Idle
  BY <1>3 DEF Idle
<1>5. seen[c].live => call[c].cred \in Token /\ issued[call[c].cred] # None
  BY CallFacts
<1>6. seen'[c].live => r.cred \in Token /\ issued'[r.cred] # None
  BY <1>3, <1>4, <1>5, Watching, KeptContext DEF IsLive
<1>7. ctx # NoCtx => seen'[c].live /\ ctx = CtxOf(call[c].cred)'
  <2>1. CASE ctx = call[c].ctx /\ ctx # NoCtx
    <3>1. seen[c].live /\ ctx = CtxOf(call[c].cred)
      BY <1>1, <2>1 DEF CallInv
    <3>2. seen'[c].live
      BY <3>1, <1>4, Watching
    <3>3. PICK t \in Token : t = call[c].cred /\ issued[t] # None
      BY <1>5, <3>1
    <3>4. CtxOf(t)' = CtxOf(t)
      BY <3>3, KeptContext
    <3> QED BY <1>3, <3>1, <3>2, <3>3, <3>4 DEF CtxOf
  <2>2. CASE IsLive(call[c].cred)' /\ ctx = CtxOf(call[c].cred)'
    BY <2>2, <1>4, Watching
  <2> QED BY <2>1, <2>2
<1>8. ctx \in [perms : SUBSET OldStrategy.admin, name : User \cup {None}]
  <2>1. CASE ctx = NoCtx
    BY <2>1 DEF NoCtx
  <2>2. CASE ctx # NoCtx
    <3>1. PICK t \in Token : t = r.cred /\ issued'[t] # None /\ ctx = CtxOf(t)'
      BY <1>6, <1>7, <2>2 DEF CtxOf
    <3>2. issued'[t] \in [name : User, perm : Perm, live : BOOLEAN]
      BY <3>1 DEF StoreKept, StoreTyped
    <3> QED BY <3>1, <3>2, Strategy DEF CtxOf
  <2> QED BY <2>1, <2>2
<1>9. CallTyped(r)
  BY <1>1, <1>3, <1>8 DEF CallTyped
<1>10. ~r.bad => Bound(r.handler, r)
  <2>1. ~call[c].bad => Bound(call[c].handler, call[c])
    BY CallFacts
  <2> QED BY <1>3, <2>1 DEF Bound
<1>11. r.method # None => r.method \in Methods /\ r.handler = HandlerOf[r.method] /\ ~r.bad
  BY <1>3, CallFacts
<1>12. r = [pc |-> r.pc, method |-> r.method, handler |-> r.handler, bad |-> r.bad,
            cred |-> r.cred, user |-> r.user, addr |-> r.addr, tok |-> r.tok,
            perm |-> r.perm, ctx |-> r.ctx, reply |-> r.reply, val |-> r.val]
  BY <1>1 DEF MovesTo
<1>13. /\ r.pc = "sent" => r.ctx = NoCtx
       /\ r.ctx # NoCtx => seen'[c].live /\ r.ctx = CtxOf(call[c].cred)'
       /\ r.pc = "checked" => /\ r.handler \in OwnAddress /\ ~r.bad
                              /\ r.ctx # NoCtx /\ seen'[c].owned
  BY <1>3, <1>7
<1>14. CallInv(c)'
  BY <1>6, <1>10, <1>11, <1>12, <1>13 DEF CallInv, Bound
<1> QED BY <1>2, <1>4, <1>9, <1>14, CallStep

LEMMA AuthenticateKeeps ==
  ASSUME AccessInv, NEW c \in Caller, Authenticate(c)
  PROVE  AccessInv' /\ call'[c] # Idle
<1>1. call[c].pc = "sent" /\ UNCHANGED <<store, mix>> /\ Watch
  BY DEF Authenticate
<1>2. call[c] # Idle
  BY <1>1 DEF Idle
<1>3. StoreKept /\ CallTyped(call[c])
  BY <1>1, <1>2, CallFacts, Unchanged
<1>4. PICK ctx : ctx = IF IsLive(call[c].cred) THEN CtxOf(call[c].cred) ELSE NoCtx
  OBVIOUS
<1>5. call' = [call EXCEPT ![c].pc = "verified", ![c].ctx = ctx]
  BY <1>4 DEF Authenticate
<1>6. call[c].reply = None
  BY <1>1, <1>3 DEF CallTyped
<1>7. MovesTo(c, "verified", ctx, None, call[c].val)
  BY <1>2, <1>5, <1>6, Updates
<1>8. call'[c].cred = call[c].cred /\ issued' = issued
  BY <1>1, <1>2, <1>7, Moved DEF store
<1>9. ctx = NoCtx \/ (IsLive(call[c].cred)' /\ ctx = CtxOf(call[c].cred)')
  BY <1>4, <1>8 DEF IsLive, CtxOf
<1> QED BY <1>1, <1>2, <1>3, <1>7, <1>9, Moves

LEMMA AnswerKeeps ==
  ASSUME AccessInv, StoreKept, Watch, NEW c \in Caller, call[c] # Idle,
         NEW reply \in {"ok", "error"}, NEW val, Answer(c, reply, val)
  PROVE  AccessInv' /\ call'[c] # Idle
<1>1. MovesTo(c, "done", call[c].ctx, reply, val)
  BY Updates DEF Answer
<1>2. reply # None /\ reply \in {None, "ok", "error"}
  BY ConstantsOK
<1> QED BY <1>1, <1>2, Moves

LEMMA RefuseKeeps ==
  ASSUME AccessInv, NEW c \in Caller, Refuse(c)
  PROVE  AccessInv' /\ call'[c] # Idle
<1>1. /\ call[c].pc = "verified" /\ UNCHANGED <<store, mix>> /\ Watch
      /\ Answer(c, "error", None)
  BY DEF Refuse
<1>2. call[c] # Idle
  BY <1>1 DEF Idle
<1>3. StoreKept
  BY <1>1, <1>2, CallFacts, Unchanged
<1> QED BY <1>1, <1>2, <1>3, AnswerKeeps

\* With no context nobody owns anything; with one, the name is that of the token.
LEMMA OwnerNamed ==
  ASSUME AccessInv, NEW c \in Caller, call[c] # Idle, Owns(call[c].ctx.name, call[c].addr)
  PROVE  call[c].ctx # NoCtx /\ call[c].ctx.name = NameIn(call[c].cred)
<1>1. StoreTyped /\ CallInv(c)
  BY CallFacts
<1>2. call[c].ctx # NoCtx
  BY <1>1, ConstantsOK DEF Owns, NoCtx, StoreTyped
<1>3. PICK t \in Token : t = call[c].cred /\ issued[t] # None /\ call[c].ctx = CtxOf(t)
  BY <1>1, <1>2 DEF CallInv
<1> QED BY <1>1, <1>2, <1>3, Contexts

LEMMA CheckOwnerKeeps ==
  ASSUME AccessInv, NEW c \in Caller, CheckOwner(c)
  PROVE  AccessInv' /\ call'[c] # Idle
<1>1. /\ call[c].pc = "verified" /\ UNCHANGED <<store, mix>> /\ Watch
      /\ call[c].handler \in OwnAddress /\ ~call[c].bad
  BY DEF CheckOwner
<1>2. call[c] # Idle
  BY <1>1 DEF Idle
<1>3. StoreKept /\ CallTyped(call[c])
  BY <1>1, <1>2, CallFacts, Unchanged
<1>4. CASE Answer(c, "error", None)
  BY <1>1, <1>2, <1>3, <1>4, AnswerKeeps
<1>5. CASE Owns(call[c].ctx.name, call[c].addr) /\ call' = [call EXCEPT ![c].pc = "checked"]
  <2>1. call[c].reply = None
    BY <1>1, <1>3 DEF CallTyped
  <2>2. MovesTo(c, "checked", call[c].ctx, None, call[c].val)
    BY <1>2, <1>5, <2>1, Updates
  <2>3. call[c].ctx # NoCtx /\ Owns(NameIn(call[c].cred), call[c].addr)
    BY <1>2, <1>5, OwnerNamed
  <2>4. /\ call'[c].cred = call[c].cred /\ call'[c].addr = call[c].addr
        /\ call'[c].pc = "checked"
    BY <1>2, <2>2, Moved
  <2>5. Owns(NameIn(call[c].cred), call[c].addr)'
    BY <1>1, <2>3, <2>4 DEF Owns, NameIn, store, bindings
  <2>6. call'[c] # Idle
    BY <2>4 DEF Idle
  <2>7. seen'[c].owned
    BY <1>1, <2>5, <2>6, Watching
  <2> QED BY <1>1, <1>2, <1>3, <2>1, <2>2, <2>3, <2>7, Moves
<1> QED BY <1>4, <1>5 DEF CheckOwner

\* A handler that runs was bound.
LEMMA RunsBound ==
  ASSUME AccessInv, NEW c \in Caller, call[c] # Idle, MayRun(call[c])
  PROVE  ~call[c].bad /\ Bound(call[c].handler, call[c])
<1>1. CallInv(c)
  BY CallFacts
<1> QED BY <1>1 DEF CallInv, MayRun

LEMMA PerformKeeps ==
  ASSUME AccessInv, NEW c \in Caller, Perform(c)
  PROVE  AccessInv' /\ StoreKept /\ call[c] # Idle /\ call'[c] # Idle
<1>1. /\ call[c] # Idle /\ MayRun(call[c]) /\ Operate(call[c]) /\ UNCHANGED mix /\ Watch
      /\ Answer(c, "ok", Value(call[c]))
  BY DEF Perform
<1>2. StoreTyped /\ Bound(call[c].handler, call[c])
  BY <1>1, RunsBound, CallFacts
<1>3. StoreKept
  BY <1>1, <1>2, OperateKeeps
<1> QED BY <1>1, <1>3, AnswerKeeps

LEMMA FailKeeps ==
  ASSUME AccessInv, NEW c \in Caller, Fail(c)
  PROVE  AccessInv' /\ StoreKept /\ call[c] # Idle /\ call'[c] # Idle
<1>1. /\ call[c] # Idle /\ UNCHANGED mix /\ Watch
      /\ DropBindings(call[c]) \/ UNCHANGED store
      /\ Answer(c, "error", None) \/ Answer(c, "ok", "no")
  BY DEF Fail
<1>2. StoreTyped
  BY <1>1, CallFacts
<1>3. StoreKept
  BY <1>1, <1>2, DropKeeps, Unchanged
<1> QED BY <1>1, <1>3, AnswerKeeps

LEMMA EndKeeps ==
  ASSUME AccessInv, NEW c \in Caller, End(c)
  PROVE  AccessInv' /\ StoreKept /\ call' = [call EXCEPT ![c] = Idle]
<1>1. /\ call' = [call EXCEPT ![c] = Idle] /\ UNCHANGED <<store, mix>> /\ Watch
  BY DEF End
<1>2. StoreTyped /\ DOMAIN call = Caller
  BY DEF AccessInv
<1>3. StoreKept
  BY <1>1, <1>2, Unchanged
<1>4. call'[c] = Idle /\ DOMAIN call' = Caller /\ \A d \in Caller \ {c} : call'[d] = call[d]
  BY <1>1, <1>2
<1> QED BY <1>1, <1>3, <1>4, CallStep

LEMMA OthersAccess ==
  ASSUME AccessInv, Others
  PROVE  AccessInv' /\ StoreKept
<1>1. StoreKept /\ UNCHANGED call /\ Watch
  BY OthersKeep DEF AccessInv, Others
<1> QED BY <1>1, NoCallSteps

\* What a call names stays, and so do the other calls.
SameNames(c) ==
  /\ DOMAIN call' = Caller /\ \A d \in Caller \ {c} : call'[d] = call[d]
  /\ call'[c].method = call[c].method /\ call'[c].handler = call[c].handler
  /\ call'[c].user = call[c].user /\ call'[c].addr = call[c].addr
  /\ call'[c].tok = call[c].tok /\ call'[c].cred = call[c].cred

Exists == {"MinerExistInUser", "SignerExistInUser"}

LEMMA AnswerMoves ==
  ASSUME AccessInv, NEW c \in Caller, call[c] # Idle, NEW reply, NEW val, Answer(c, reply, val)
  PROVE  SameNames(c) /\ call'[c].reply = reply /\ call'[c].val = val
<1>1. MovesTo(c, "done", call[c].ctx, reply, val)
  BY Updates DEF Answer
<1> QED BY <1>1, Moved DEF SameNames

LEMMA AuthenticateMoves ==
  ASSUME AccessInv, NEW c \in Caller, Authenticate(c)
  PROVE  /\ UNCHANGED <<store, mix>> /\ call[c] # Idle
         /\ SameNames(c) /\ call'[c].reply = None
<1>1. call[c].pc = "sent" /\ UNCHANGED <<store, mix>>
  BY DEF Authenticate
<1>2. call[c] # Idle
  BY <1>1 DEF Idle
<1>3. CallTyped(call[c])
  BY <1>2, CallFacts
<1>4. call[c].reply = None
  BY <1>1, <1>3 DEF CallTyped
<1>5. PICK ctx : ctx = IF IsLive(call[c].cred) THEN CtxOf(call[c].cred) ELSE NoCtx
  OBVIOUS
<1>6. call' = [call EXCEPT ![c].pc = "verified", ![c].ctx = ctx]
  BY <1>5 DEF Authenticate
<1>7. MovesTo(c, "verified", ctx, None, call[c].val)
  BY <1>2, <1>4, <1>6, Updates
<1> QED BY <1>1, <1>2, <1>7, Moved DEF SameNames

LEMMA CheckOwnerMoves ==
  ASSUME AccessInv, NEW c \in Caller, CheckOwner(c)
  PROVE  /\ UNCHANGED <<store, mix>> /\ call[c] # Idle
         /\ SameNames(c) /\ call'[c].reply \in {None, "error"}
<1>1. call[c].pc = "verified" /\ UNCHANGED <<store, mix>>
  BY DEF CheckOwner
<1>2. call[c] # Idle
  BY <1>1 DEF Idle
<1>3. CallTyped(call[c])
  BY <1>2, CallFacts
<1>4. call[c].reply = None
  BY <1>1, <1>3 DEF CallTyped
<1>5. CASE call' = [call EXCEPT ![c].pc = "checked"]
  <2>1. MovesTo(c, "checked", call[c].ctx, None, call[c].val)
    BY <1>2, <1>4, <1>5, Updates
  <2> QED BY <1>1, <1>2, <2>1, Moved DEF SameNames
<1>6. CASE Answer(c, "error", None)
  BY <1>1, <1>2, <1>6, AnswerMoves
<1> QED BY <1>5, <1>6 DEF CheckOwner

\* The server answers a call in flight and touches no other; ok is the answer
\* of an operation that was performed, or the no of a store that failed.
LEMMA ServerKeeps ==
  ASSUME AccessInv, NEW c \in Caller, ServerStep(c)
  PROVE  /\ AccessInv' /\ StoreKept /\ mix' = mix
         /\ call[c] # Idle /\ call'[c] # Idle /\ SameNames(c)
         /\ call'[c].reply = "ok" =>
              \/ Perform(c) /\ call'[c].val = Value(call[c])
              \/ call[c].handler \in Exists /\ call'[c].val = "no"
<1>0. None # "ok" /\ StoreTyped
  BY ConstantsOK DEF AccessInv
<1>1. CASE Authenticate(c)
  BY <1>0, <1>1, AuthenticateKeeps, AuthenticateMoves, Unchanged
<1>2. CASE CheckOwner(c)
  BY <1>0, <1>2, CheckOwnerKeeps, CheckOwnerMoves, Unchanged
<1>3. CASE Refuse(c)
  <2>1. /\ UNCHANGED <<store, mix>> /\ Answer(c, "error", None) /\ call[c] # Idle
    BY <1>3 DEF Refuse, Idle
  <2> QED BY <1>0, <1>3, <2>1, RefuseKeeps, AnswerMoves, Unchanged
<1>4. CASE Perform(c)
  <2>1. Answer(c, "ok", Value(call[c])) /\ mix' = mix
    BY <1>4 DEF Perform
  <2> QED BY <1>4, <2>1, PerformKeeps, AnswerMoves
<1>5. CASE Fail(c)
  <2>1. /\ mix' = mix
        /\ Answer(c, "error", None) \/ (call[c].handler \in Exists /\ Answer(c, "ok", "no"))
    BY <1>5 DEF Fail, Exists
  <2>2. AccessInv' /\ StoreKept /\ call[c] # Idle /\ call'[c] # Idle
    BY <1>5, FailKeeps
  <2> QED BY <2>1, <2>2, AnswerMoves
<1> QED BY <1>1, <1>2, <1>3, <1>4, <1>5 DEF ServerStep

-----------------------------------------------------------------------------
(* The service *)

\* The request of the service goes on: who asks, and for what, stays.
Goes(pc, todo, ctx, by) ==
  svc' = [pc |-> pc, cred |-> svc.cred, trusted |-> svc.trusted, user |-> svc.user,
          addrs |-> svc.addrs, todo |-> todo, ctx |-> ctx, by |-> by]

Vouched(cred, by, ctx) == \/ by = "local" /\ cred = Local
                          \/ by = "remote" /\ noted.live /\ ctx = CtxOf(cred)

ContextRec == [perms : SUBSET OldStrategy.admin, name : User \cup {None}]

LEMMA ServiceRecord ==
  ASSUME IInv, svc # Resting
  PROVE  \E p, k, t, u, a, d, x, b :
           svc = [pc |-> p, cred |-> k, trusted |-> t, user |-> u, addrs |-> a, todo |-> d,
                  ctx |-> x, by |-> b]
BY DEF IInv, ServiceInv

LEMMA ServiceUpdates ==
  ASSUME IInv, svc # Resting, NEW pc, NEW todo, NEW ctx, NEW by
  PROVE  /\ svc' = [svc EXCEPT !.pc = pc] => Goes(pc, svc.todo, svc.ctx, svc.by)
         /\ svc' = [svc EXCEPT !.pc = pc, !.todo = todo] => Goes(pc, todo, svc.ctx, svc.by)
         /\ svc' = [svc EXCEPT !.pc = pc, !.ctx = ctx] => Goes(pc, svc.todo, ctx, svc.by)
         /\ svc' = [svc EXCEPT !.pc = pc, !.by = by, !.ctx = ctx] => Goes(pc, svc.todo, ctx, by)
         /\ svc' = svc => Goes(svc.pc, svc.todo, svc.ctx, svc.by)
<1>1. PICK p, k, t, u, a, d, x, b :
        svc = [pc |-> p, cred |-> k, trusted |-> t, user |-> u, addrs |-> a, todo |-> d,
               ctx |-> x, by |-> b]
  BY ServiceRecord
<1>2. svc' = [svc EXCEPT !.pc = pc] => Goes(pc, svc.todo, svc.ctx, svc.by)
  BY <1>1 DEF Goes
<1>3. svc' = [svc EXCEPT !.pc = pc, !.todo = todo] => Goes(pc, todo, svc.ctx, svc.by)
  BY <1>1 DEF Goes
<1>4. svc' = [svc EXCEPT !.pc = pc, !.ctx = ctx] => Goes(pc, svc.todo, ctx, svc.by)
  BY <1>1 DEF Goes
<1>5. svc' = [svc EXCEPT !.pc = pc, !.by = by, !.ctx = ctx] => Goes(pc, svc.todo, ctx, by)
  BY <1>1 DEF Goes
<1>6. svc' = svc => Goes(svc.pc, svc.todo, svc.ctx, svc.by)
  BY <1>1 DEF Goes
<1> QED BY <1>2, <1>3, <1>4, <1>5, <1>6

LEMMA Gone ==
  ASSUME NEW pc, NEW todo, NEW ctx, NEW by, Goes(pc, todo, ctx, by), pc # "resting"
  PROVE  /\ svc'.pc = pc /\ svc'.todo = todo /\ svc'.ctx = ctx /\ svc'.by = by
         /\ svc'.cred = svc.cred /\ svc'.trusted = svc.trusted
         /\ svc'.user = svc.user /\ svc'.addrs = svc.addrs
         /\ svc' # Resting
         /\ svc' = [pc |-> svc'.pc, cred |-> svc'.cred, trusted |-> svc'.trusted,
                    user |-> svc'.user, addrs |-> svc'.addrs, todo |-> svc'.todo,
                    ctx |-> svc'.ctx, by |-> svc'.by]
BY DEF Goes, Resting

\* What is noted of a request only grows, and the state it is in is noted.
LEMMA Noting ==
  ASSUME noted \in [live : BOOLEAN, owned : SUBSET (Miner \cup Signer)],
         Note, svc' # Resting, svc'.addrs \subseteq Miner \cup Signer
  PROVE  /\ noted' \in [live : BOOLEAN, owned : SUBSET (Miner \cup Signer)]
         /\ noted.live => noted'.live
         /\ noted.owned \subseteq noted'.owned
         /\ IsLive(svc.cred)' => noted'.live
         /\ noted'.live => noted.live \/ IsLive(svc.cred)'
         /\ \A a \in svc'.addrs : Owns(svc.ctx.name, a)' => a \in noted'.owned
<1> DEFINE L == noted.live \/ SvcLive'
           O == noted.owned \cup SvcOwned'
<1>1. L \in BOOLEAN
  OBVIOUS
<1>2. SvcLive' <=> IsLive(svc.cred)'
  BY DEF SvcLive
<1>3. SvcOwned' = {a \in svc'.addrs : Owns(svc.ctx.name, a)'}
  BY DEF SvcOwned
<1>4. noted' = [live |-> L, owned |-> O]
  BY DEF Note
<1>5. O \in SUBSET (Miner \cup Signer)
  BY <1>3
<1>6. noted'.live = L /\ noted'.owned = O
  <2> HIDE DEF L, O
  <2> QED BY <1>4
<1>7. noted'.live <=> L
  <2> HIDE DEF L, O
  <2> QED BY <1>1, <1>6
<1>8. noted' \in [live : BOOLEAN, owned : SUBSET (Miner \cup Signer)]
  <2> HIDE DEF L, O
  <2> QED BY <1>1, <1>4, <1>5
<1> QED BY <1>2, <1>3, <1>6, <1>7, <1>8

Pcs == {"arrived", "verifying", "checking", "asking", "served", "denied"}
NotedTyped == noted \in [live : BOOLEAN, owned : SUBSET (Miner \cup Signer)]
ServiceTyped == svc.pc \in Pcs /\ svc.todo \subseteq svc.addrs /\ svc.ctx \in ContextRec
VouchedNow == svc.pc \in {"checking", "asking", "served"} /\ ~svc.trusted /\ mux # {} =>
                Vouched(svc.cred, svc.by, svc.ctx)
OwnsNow == svc.pc = "served" /\ ~svc.trusted /\ "admin" \notin svc.ctx.perms =>
             /\ svc.user # None => svc.user = svc.ctx.name
             /\ svc.addrs \subseteq noted.owned
NoCalls == \A c \in Caller : call[c] = Idle
ServiceFacts == ServiceTyped /\ VouchedNow /\ OwnsNow /\ ServiceInv /\ WaitInv
Parts == /\ AccessInv /\ NotedTyped
         /\ svc = Resting => noted = Nothing
         /\ mix.asks # {} => InCall \/ NoCalls
         /\ svc # Resting => mix.asks # {} /\ ServiceFacts

\* The inductive invariant in the parts that the steps touch.
LEMMA IInvParts ==
  IInv <=> Parts
<1>1. WaitInv => (svc.pc \in {"verifying", "asking"} => \E c \in Caller : call[c] # Idle)
  BY DEF WaitInv, Waits
<1>2. AccessInv => TypeOfCall
  BY DEF AccessInv
<1>3. TypeOK <=>
        /\ TypeOfCall /\ NotedTyped
        /\ svc # Resting =>
             /\ ServiceTyped
             /\ svc.pc \in {"verifying", "asking"} => \E c \in Caller : call[c] # Idle
  BY DEF TypeOK, NotedTyped, ServiceTyped, Pcs, ContextRec
<1>4. ServedIsVouched <=> (svc # Resting => VouchedNow)
  BY DEF ServedIsVouched, VouchedNow, Vouched
<1>5. CheckedOwns <=> (svc # Resting => OwnsNow)
  BY DEF CheckedOwns, OwnsNow, IsAdmin
<1> QED BY <1>1, <1>2, <1>3, <1>4, <1>5 DEF IInv, NoCalls, ServiceFacts, Parts

LEMMA PartsNext ==
  Parts' => IInv'
BY IInvParts, PTL

\* A step of the service, or one that it does not take part in.
LEMMA GoesKeeps ==
  ASSUME IInv, AccessInv', StoreKept, Note, mux' = mux, mix' = mix, svc # Resting,
         NEW pc \in Pcs, NEW todo \in SUBSET svc.todo, NEW ctx \in ContextRec, NEW by,
         Goes(pc, todo, ctx, by),
         svc.todo \ todo \subseteq noted'.owned,
         pc \in {"checking", "asking", "served"} /\ ~svc.trusted /\ mux # {} =>
           Vouched(svc.cred, by, ctx)',
         pc = "served" /\ ~svc.trusted /\ "admin" \notin ctx.perms =>
           /\ svc.user # None => svc.user = ctx.name
           /\ svc.addrs \subseteq noted'.owned,
         WaitInv',
         pc \notin {"verifying", "asking"} => NoCalls'
  PROVE  IInv'
<1>1. /\ svc'.pc = pc /\ svc'.todo = todo /\ svc'.ctx = ctx /\ svc'.by = by
      /\ svc'.cred = svc.cred /\ svc'.trusted = svc.trusted
      /\ svc'.user = svc.user /\ svc'.addrs = svc.addrs
      /\ svc' # Resting
      /\ svc' = [pc |-> svc'.pc, cred |-> svc'.cred, trusted |-> svc'.trusted,
                 user |-> svc'.user, addrs |-> svc'.addrs, todo |-> svc'.todo,
                 ctx |-> svc'.ctx, by |-> svc'.by]
  BY Gone DEF Pcs
<1>2. /\ svc.todo \subseteq svc.addrs /\ svc.addrs \subseteq Miner \cup Signer
      /\ svc.cred \in Token \cup {Local, None} /\ svc.user \in User \cup {None}
      /\ svc.user # None => svc.addrs = {}
      /\ svc.addrs \ svc.todo \subseteq noted.owned
      /\ noted.live => svc.cred \in Token /\ issued[svc.cred] # None
      /\ mix.asks # {}
      /\ noted \in [live : BOOLEAN, owned : SUBSET (Miner \cup Signer)]
  BY IInvParts DEF Parts, ServiceInv, ServiceFacts, ServiceTyped, NotedTyped
<1>3. /\ noted' \in [live : BOOLEAN, owned : SUBSET (Miner \cup Signer)]
      /\ noted.live => noted'.live
      /\ noted.owned \subseteq noted'.owned
      /\ noted'.live => noted.live \/ IsLive(svc.cred)'
  BY <1>1, <1>2, Noting
<1>4. noted'.live => svc.cred \in Token /\ issued'[svc.cred] # None
  BY <1>1, <1>2, <1>3, KeptContext DEF IsLive
<1>5. svc.addrs \ todo \subseteq noted'.owned
  BY <1>2, <1>3
<1>6. ServiceInv'
  BY <1>1, <1>2, <1>4, <1>5 DEF ServiceInv
<1>7. Vouched(svc.cred, by, ctx)' => Vouched(svc.cred, svc.by, svc.ctx)'
  BY <1>1 DEF Vouched
<1>8. VouchedNow' /\ OwnsNow'
  BY <1>1, <1>7 DEF VouchedNow, OwnsNow
<1>9. ServiceTyped'
  BY <1>1, <1>2 DEF ServiceTyped
<1>10. InCall' \/ NoCalls'
  BY <1>1 DEF InCall, NoCalls
<1>11. NotedTyped'
  BY <1>3 DEF NotedTyped
<1>12. mix'.asks # {} /\ svc' # Resting
  BY <1>1, <1>2
<1>13. ServiceFacts'
  BY <1>6, <1>8, <1>9 DEF ServiceFacts
<1> QED BY <1>10, <1>11, <1>12, <1>13, PartsNext DEF Parts

LEMMA AccessStutters ==
  ASSUME AccessInv, UNCHANGED vars
  PROVE  AccessInv' /\ StoreKept
<1>1. StoreTyped' /\ StoreKept
  BY Unchanged DEF vars, AccessInv, StoreKept
<1>2. \A c \in Caller : call[c] # Idle => CallInv(c)'
  <2>1. TAKE c \in Caller
  <2>2. HAVE call[c] # Idle
  <2>3. CallInv(c)
    BY <2>2 DEF AccessInv
  <2> QED BY <2>3 DEF CallInv, Bound, CtxOf, vars, store
<1> QED BY <1>1, <1>2 DEF vars, AccessInv, TypeOfCall

LEMMA QuietKeeps ==
  ASSUME IInv, Quiet
  PROVE  /\ AccessInv' /\ StoreKept /\ mix' = mix /\ mux' = mux /\ Note /\ call' = call
<1>1. UNCHANGED vars /\ mux' = mux /\ Note
  BY DEF Quiet
<1> QED BY <1>1, AccessStutters DEF IInv, vars

LEMMA ServiceKnows ==
  ASSUME IInv, svc # Resting
  PROVE  /\ svc.pc \in Pcs /\ svc.todo \subseteq svc.addrs /\ svc.ctx \in ContextRec
         /\ VouchedNow /\ OwnsNow /\ ServiceInv /\ WaitInv
         /\ svc.addrs \subseteq Miner \cup Signer
         /\ noted.live => svc.cred \in Token /\ issued[svc.cred] # None
         /\ mix.asks # {}
         /\ svc.pc \notin {"verifying", "asking"} => NoCalls
BY IInvParts DEF Parts, ServiceFacts, ServiceTyped, ServiceInv, InCall

\* What vouches for a request goes on doing so.
LEMMA StillVouched ==
  ASSUME IInv, StoreKept, Note, svc # Resting, NEW pc \in Pcs, NEW todo, NEW ctx, NEW by,
         Goes(pc, todo, ctx, by),
         Vouched(svc.cred, by, ctx)
  PROVE  Vouched(svc.cred, by, ctx)'
<1>1. svc'.cred = svc.cred /\ svc'.addrs = svc.addrs /\ svc' # Resting
  BY Gone DEF Pcs
<1>2. svc.addrs \subseteq Miner \cup Signer /\ NotedTyped
  BY ServiceKnows, IInvParts DEF Parts
<1>3. noted.live => noted'.live
  BY <1>1, <1>2, Noting DEF NotedTyped
<1>4. CASE by = "local" /\ svc.cred = Local
  BY <1>1, <1>4 DEF Vouched
<1>5. CASE by = "remote" /\ noted.live /\ ctx = CtxOf(svc.cred)
  <2>1. PICK t \in Token : t = svc.cred /\ issued[t] # None
    BY <1>5, ServiceKnows
  <2>2. CtxOf(t)' = CtxOf(t)
    BY <2>1, KeptContext
  <2> QED BY <1>1, <1>3, <1>5, <2>1, <2>2 DEF Vouched, CtxOf
<1> QED BY <1>4, <1>5 DEF Vouched

\* The steps of the service alone, while it waits for no call.
LEMMA QuietGoes ==
  ASSUME IInv, Quiet, svc # Resting, svc.pc \in {"arrived", "checking"},
         NEW pc \in {"checking", "served", "denied"}, NEW ctx \in ContextRec, NEW by,
         Goes(pc, svc.todo, ctx, by),
         pc \in {"checking", "served"} /\ ~svc.trusted /\ mux # {} => Vouched(svc.cred, by, ctx),
         pc = "served" /\ ~svc.trusted /\ "admin" \notin ctx.perms =>
           /\ svc.user # None => svc.user = ctx.name
           /\ svc.addrs \subseteq noted.owned
  PROVE  IInv'
<1>1. /\ AccessInv' /\ StoreKept /\ mix' = mix /\ mux' = mux /\ Note /\ call' = call
  BY QuietKeeps
<1>2. pc \in Pcs
  BY DEF Pcs
<1>3. svc'.pc = pc /\ svc'.cred = svc.cred /\ svc'.addrs = svc.addrs /\ svc' # Resting
  BY <1>2, Gone DEF Pcs
<1>4. WaitInv'
  BY <1>3 DEF WaitInv
<1>5. NoCalls'
  BY <1>1, ServiceKnows DEF NoCalls
<1>6. noted.owned \subseteq noted'.owned
  BY <1>1, <1>3, ServiceKnows, IInvParts, Noting DEF Parts, NotedTyped
<1>7. pc \in {"checking", "asking", "served"} /\ ~svc.trusted /\ mux # {} =>
        Vouched(svc.cred, by, ctx)'
  BY <1>1, <1>2, StillVouched
<1>8. pc = "served" /\ ~svc.trusted /\ "admin" \notin ctx.perms =>
        /\ svc.user # None => svc.user = ctx.name
        /\ svc.addrs \subseteq noted'.owned
  BY <1>6
<1>9. PICK todo \in SUBSET svc.todo : todo = svc.todo /\ svc.todo \ todo \subseteq noted'.owned
  OBVIOUS
<1>10. Goes(pc, todo, ctx, by)
  BY <1>9
<1> QED BY <1>1, <1>2, <1>4, <1>5, <1>7, <1>8, <1>9, <1>10, GoesKeeps

LEMMA PcGoes ==
  ASSUME IInv, svc # Resting, NEW pc, Go(pc)
  PROVE  Goes(pc, svc.todo, svc.ctx, svc.by)
BY ServiceUpdates DEF Go

LEMMA LocalContext ==
  ASSUME NEW name \in User \cup {None}, NEW p
  PROVE  [perms |-> AdaptOldStrategy(p), name |-> name] \in ContextRec
BY Strategy DEF ContextRec

LEMMA AloneKeeps ==
  ASSUME IInv, svc # Resting,
         Trust \/ Unauthorised \/ VerifyLocally \/ VerifyNothing \/ Pass \/ Deny
  PROVE  IInv'
<1>0. /\ svc.ctx \in ContextRec /\ VouchedNow /\ svc.todo \subseteq svc.addrs
      /\ svc.addrs \ svc.todo \subseteq noted.owned
      /\ svc.user # None => svc.addrs = {}
  BY ServiceKnows DEF ServiceInv
<1>1. CASE Trust
  <2>1. svc.pc = "arrived" /\ svc.trusted /\ Go("served") /\ Quiet
    BY <1>1 DEF Trust
  <2>2. Goes("served", svc.todo, svc.ctx, svc.by)
    BY <2>1, PcGoes
  <2> QED BY <1>0, <2>1, <2>2, QuietGoes
<1>2. CASE Unauthorised
  <2>1. svc.pc = "arrived" /\ Go("denied") /\ Quiet
    BY <1>2 DEF Unauthorised
  <2>2. Goes("denied", svc.todo, svc.ctx, svc.by)
    BY <2>1, PcGoes
  <2> QED BY <1>0, <2>1, <2>2, QuietGoes
<1>3. CASE VerifyLocally
  <2>1. PICK ctx : ctx = [perms |-> AdaptOldStrategy("admin"), name |-> Default]
    OBVIOUS
  <2>2. /\ svc.pc = "arrived" /\ svc.cred = Local /\ Quiet
        /\ svc' = [svc EXCEPT !.pc = "checking", !.by = "local", !.ctx = ctx]
    BY <1>3, <2>1 DEF VerifyLocally
  <2>3. Goes("checking", svc.todo, ctx, "local")
    BY <2>2, ServiceUpdates
  <2>4. ctx \in ContextRec
    BY <2>1, LocalContext, ConstantsOK
  <2>5. Vouched(svc.cred, "local", ctx)
    BY <2>2 DEF Vouched
  <2> QED BY <2>2, <2>3, <2>4, <2>5, QuietGoes
<1>4. CASE VerifyNothing
  <2>1. PICK n \in User \cup {None} :
          svc' = [svc EXCEPT !.pc = "checking", !.ctx = [perms |-> {}, name |-> n]]
    BY <1>4 DEF VerifyNothing
  <2>2. PICK ctx : ctx = [perms |-> {}, name |-> n]
    OBVIOUS
  <2>3. svc.pc = "arrived" /\ mux = {} /\ Quiet
    BY <1>4 DEF VerifyNothing
  <2>4. Goes("checking", svc.todo, ctx, svc.by)
    BY <2>1, <2>2, ServiceUpdates
  <2>5. ctx \in ContextRec
    BY <2>2 DEF ContextRec
  <2> QED BY <2>3, <2>4, <2>5, QuietGoes
<1>5. CASE Pass
  <2>1. svc.pc = "checking" /\ Passed /\ Go("served") /\ Quiet
    BY <1>5 DEF Pass
  <2>2. Goes("served", svc.todo, svc.ctx, svc.by)
    BY <2>1, PcGoes
  <2>3. ~svc.trusted /\ mux # {} => Vouched(svc.cred, svc.by, svc.ctx)
    BY <1>0, <2>1 DEF VouchedNow
  <2>4. "admin" \notin svc.ctx.perms =>
          /\ svc.user # None => svc.user = svc.ctx.name
          /\ svc.addrs \subseteq noted.owned
    BY <1>0, <2>1 DEF Passed, IsAdmin
  <2> QED BY <1>0, <2>1, <2>2, <2>3, <2>4, QuietGoes
<1>6. CASE Deny
  <2>1. svc.pc = "checking" /\ Go("denied") /\ Quiet
    BY <1>6 DEF Deny
  <2>2. Goes("denied", svc.todo, svc.ctx, svc.by)
    BY <2>1, PcGoes
  <2> QED BY <1>0, <2>1, <2>2, QuietGoes
<1> QED BY <1>1, <1>2, <1>3, <1>4, <1>5, <1>6

LEMMA FinishKeeps ==
  ASSUME IInv, Finish
  PROVE  IInv'
<1>1. svc.pc \in {"served", "denied"} /\ svc' = Resting /\ Quiet
  BY DEF Finish
<1>2. svc # Resting
  BY <1>1 DEF Resting
<1>3. /\ AccessInv' /\ mix' = mix /\ Note /\ call' = call
  BY <1>1, QuietKeeps
<1>4. noted' = Nothing /\ NotedTyped'
  BY <1>1, <1>3 DEF Note, NotedTyped, Nothing
<1>5. NoCalls'
  BY <1>1, <1>2, <1>3, ServiceKnows DEF NoCalls
<1> QED BY <1>1, <1>3, <1>4, <1>5, PartsNext DEF Parts

LEMMA ArriveKeeps ==
  ASSUME IInv, Arrive
  PROVE  IInv'
<1>1. svc = Resting /\ Quiet
  BY DEF Arrive
<1>2. PICK t \in Token \cup {Local, None}, trusted \in BOOLEAN, ask \in Asks :
        svc' = [pc |-> "arrived", cred |-> t, trusted |-> trusted, user |-> ask.user,
                addrs |-> ask.addrs, todo |-> ask.addrs, ctx |-> NoCtx, by |-> "nobody"]
  BY DEF Arrive
<1>3. /\ AccessInv' /\ mix' = mix /\ mux' = mux /\ Note /\ call' = call
  BY <1>1, QuietKeeps
<1>4. /\ noted = Nothing /\ NotedTyped /\ mix \in Mixes
      /\ mix.asks # {} => NoCalls
  BY <1>1, IInvParts DEF Parts, AccessInv, StoreTyped, InCall
<1>5. /\ mix.asks # {} /\ ask.addrs \subseteq Miner \cup Signer
      /\ ask.user \in User \cup {None}
      /\ ask.user # None => ask.addrs = {}
  BY <1>4, MixesOK DEF Asks
<1>6. /\ svc'.pc = "arrived" /\ svc'.cred = t /\ svc'.user = ask.user /\ svc'.addrs = ask.addrs
      /\ svc'.todo = ask.addrs /\ svc'.ctx = NoCtx /\ svc' # Resting
      /\ svc' = [pc |-> svc'.pc, cred |-> svc'.cred, trusted |-> svc'.trusted,
                 user |-> svc'.user, addrs |-> svc'.addrs, todo |-> svc'.todo,
                 ctx |-> svc'.ctx, by |-> svc'.by]
  BY <1>2 DEF Resting
<1>7. /\ noted' \in [live : BOOLEAN, owned : SUBSET (Miner \cup Signer)]
      /\ noted'.live => noted.live \/ IsLive(svc.cred)'
  BY <1>3, <1>4, <1>5, <1>6, Noting DEF NotedTyped
<1>8. noted'.live => svc'.cred \in Token /\ issued'[svc'.cred] # None
  BY <1>4, <1>7 DEF Nothing, IsLive
<1>9. ServiceInv'
  <2>1. /\ svc'.cred \in Token \cup {Local, None} /\ svc'.user \in User \cup {None}
        /\ svc'.addrs \subseteq Miner \cup Signer
        /\ svc'.user # None => svc'.addrs = {}
        /\ svc'.addrs \ svc'.todo \subseteq noted'.owned
    <3>1. /\ svc'.cred = t /\ svc'.user = ask.user /\ svc'.addrs = ask.addrs
          /\ svc'.todo = ask.addrs
      BY <1>6
    <3>2. t \in Token \cup {Local, None}
      BY <1>2
    <3> QED BY <1>5, <3>1, <3>2
  <2>2. svc' = [pc |-> svc'.pc, cred |-> svc'.cred, trusted |-> svc'.trusted,
                user |-> svc'.user, addrs |-> svc'.addrs, todo |-> svc'.todo,
                ctx |-> svc'.ctx, by |-> svc'.by]
    BY <1>6
  <2> QED BY <1>8, <2>1, <2>2 DEF ServiceInv
<1>10. ServiceTyped' /\ VouchedNow' /\ OwnsNow' /\ WaitInv'
  BY <1>6 DEF ServiceTyped, VouchedNow, OwnsNow, WaitInv, Pcs, ContextRec, NoCtx
<1>11. NoCalls'
  BY <1>3, <1>4, <1>5 DEF NoCalls
<1> QED BY <1>3, <1>5, <1>6, <1>7, <1>9, <1>10, <1>11, PartsNext
     DEF Parts, ServiceFacts, NotedTyped

LEMMA RequestMade ==
  ASSUME AccessInv, NEW c \in Caller, NEW m, NEW h, NEW bad, NEW cred, NEW a,
         Request(c, m, h, bad, cred, a)
  PROVE  /\ call[c] = Idle /\ call'[c] # Idle
         /\ \A d \in Caller \ {c} : call'[d] = call[d]
         /\ call'[c].handler = h /\ call'[c].user = a.user /\ call'[c].addr = a.addr
         /\ call'[c].tok = a.tok /\ call'[c].reply = None
         /\ UNCHANGED <<store, mix>>
<1>1. DOMAIN call = Caller
  BY DEF AccessInv
<1>2. PICK r : r = [pc |-> "sent", method |-> m, handler |-> h, bad |-> bad, cred |-> cred,
                    user |-> a.user, addr |-> a.addr, tok |-> a.tok, perm |-> a.perm,
                    ctx |-> NoCtx, reply |-> None, val |-> None]
  OBVIOUS
<1>3. call[c] = Idle /\ call' = [call EXCEPT ![c] = r] /\ UNCHANGED <<store, mix>>
  BY <1>2 DEF Request
<1>4. r # Idle
  BY <1>2 DEF Idle
<1> QED BY <1>1, <1>2, <1>3, <1>4

\* The service sends a call: it was waiting for none.
LEMMA AskKeeps ==
  ASSUME IInv, svc # Resting, svc.pc \in {"arrived", "checking"}, NEW c \in Caller,
         NEW m \in {"Verify", "MinerExistInUser", "SignerExistInUser"}, NEW a, Ask(c, m, a),
         Bound(m, a), mux' = mux, Note, NEW pc \in {"verifying", "asking"}, Go(pc)
  PROVE  /\ AccessInv' /\ StoreKept /\ mix' = mix
         /\ Goes(pc, svc.todo, svc.ctx, svc.by)
         /\ Waits(c)' /\ call'[c].handler = m /\ call'[c].user = a.user
         /\ call'[c].addr = a.addr /\ call'[c].tok = a.tok /\ call'[c].reply # "ok"
<1>1. m \in Methods /\ NamedHandler(m) = m
  BY Domains DEF Methods, Calls, NamedHandler
<1>2. HandlerOf[m] = m /\ m \in Handlers
  BY <1>1, MethodsRouted
<1>3. PICK t \in Token : Request(c, m, m, FALSE, t, a)
  BY <1>2 DEF Ask
<1>4. AccessInv /\ NoCalls
  BY ServiceKnows DEF IInv
<1>5. AccessInv'
  BY <1>1, <1>2, <1>3, <1>4, RequestKeeps
<1>6. /\ call[c] = Idle /\ call'[c] # Idle
      /\ \A d \in Caller \ {c} : call'[d] = call[d]
      /\ call'[c].handler = m /\ call'[c].user = a.user /\ call'[c].addr = a.addr
      /\ call'[c].tok = a.tok /\ call'[c].reply = None
      /\ UNCHANGED <<store, mix>>
  BY <1>3, <1>4, RequestMade
<1>7. StoreKept
  BY <1>4, <1>6, Unchanged DEF AccessInv
<1>8. Waits(c)'
  BY <1>4, <1>6 DEF Waits, NoCalls
<1>9. Goes(pc, svc.todo, svc.ctx, svc.by)
  BY PcGoes
<1> QED BY <1>5, <1>6, <1>7, <1>8, <1>9, ConstantsOK

LEMMA AskToVerifyKeeps ==
  ASSUME IInv, svc # Resting, NEW c \in Caller, AskToVerify(c)
  PROVE  IInv'
<1>1. PICK a : a = [user |-> None, addr |-> None, tok |-> svc.cred, perm |-> None]
  OBVIOUS
<1>2. /\ svc.pc = "arrived" /\ Ask(c, "Verify", a) /\ Go("verifying")
      /\ mux' = mux /\ Note
  BY <1>1 DEF AskToVerify
<1>3. Bound("Verify", a)
  BY DEF Bound, NamesUser, NamesMiner, NamesSigner
<1>4. /\ AccessInv' /\ StoreKept /\ mix' = mix
      /\ Goes("verifying", svc.todo, svc.ctx, svc.by)
      /\ Waits(c)' /\ call'[c].handler = "Verify"
      /\ call'[c].tok = a.tok /\ call'[c].reply # "ok"
  BY <1>2, <1>3, AskKeeps
<1>5. svc'.pc = "verifying" /\ svc'.cred = svc.cred
  BY <1>4, Gone
<1>6. WaitInv'
  BY <1>1, <1>4, <1>5 DEF WaitInv
<1>7. svc.ctx \in ContextRec /\ "verifying" \in Pcs
  BY ServiceKnows DEF Pcs
<1>8. svc.todo \in SUBSET svc.todo /\ svc.todo \ svc.todo = {}
  OBVIOUS
<1> QED BY <1>2, <1>4, <1>6, <1>7, <1>8, GoesKeeps

LEMMA AskForOwnerKeeps ==
  ASSUME IInv, svc # Resting, NEW c \in Caller, AskForOwner(c)
  PROVE  IInv'
<1>1. /\ svc.pc = "checking" /\ svc.ctx.name # None /\ Go("asking")
      /\ mux' = mux /\ Note
  BY DEF AskForOwner
<1>2. PICK b \in svc.todo :
        Ask(c, IF b \in Miner THEN "MinerExistInUser" ELSE "SignerExistInUser",
            [user |-> svc.ctx.name, addr |-> b, tok |-> None, perm |-> None])
  BY DEF AskForOwner
<1>3. PICK a : a = [user |-> svc.ctx.name, addr |-> b, tok |-> None, perm |-> None]
  OBVIOUS
<1>4. PICK m \in {"MinerExistInUser", "SignerExistInUser"} :
        m = IF b \in Miner THEN "MinerExistInUser" ELSE "SignerExistInUser"
  OBVIOUS
<1>5. Ask(c, m, a)
  BY <1>2, <1>3, <1>4
<1>6. svc.ctx.name \in User /\ b \in Miner \cup Signer /\ svc.ctx \in ContextRec
  BY <1>1, <1>2, ServiceKnows DEF ContextRec
<1>7. Bound(m, a)
  BY <1>3, <1>4, <1>6 DEF Bound, NamesMiner, NamesSigner
<1>8. /\ AccessInv' /\ StoreKept /\ mix' = mix
      /\ Goes("asking", svc.todo, svc.ctx, svc.by)
      /\ Waits(c)' /\ call'[c].handler = m /\ call'[c].user = a.user
      /\ call'[c].addr = a.addr /\ call'[c].reply # "ok"
  BY <1>1, <1>4, <1>5, <1>7, AskKeeps
<1>9. svc'.pc = "asking" /\ svc'.ctx = svc.ctx /\ svc'.todo = svc.todo
  BY <1>8, Gone
<1>10. WaitInv'
  BY <1>2, <1>3, <1>4, <1>8, <1>9 DEF WaitInv
<1>11. "asking" \in Pcs
  BY DEF Pcs
<1>12. PICK by, ctx : by = svc.by /\ ctx = svc.ctx
  OBVIOUS
<1>13. /\ Goes("asking", svc.todo, ctx, by) /\ ctx \in ContextRec
       /\ ~svc.trusted /\ mux # {} => Vouched(svc.cred, by, ctx)
  BY <1>1, <1>6, <1>8, <1>12, ServiceKnows DEF VouchedNow
<1>14. ~svc.trusted /\ mux # {} => Vouched(svc.cred, by, ctx)'
  BY <1>1, <1>8, <1>11, <1>13, StillVouched
<1>15. svc.todo \in SUBSET svc.todo /\ svc.todo \ svc.todo = {}
  OBVIOUS
<1> QED BY <1>1, <1>8, <1>10, <1>11, <1>13, <1>14, <1>15, GoesKeeps

\* The call of the service comes back, with an answer or without.
LEMMA ReturnKeeps ==
  ASSUME IInv, svc # Resting, svc.pc \in {"verifying", "asking"}, NEW c \in Caller, End(c),
         call[c].pc \in {"sent", "done"}
  PROVE  /\ AccessInv' /\ StoreKept /\ mix' = mix /\ NoCalls'
         /\ svc.pc = "verifying" /\ call[c].reply = "ok" =>
              /\ svc.cred \in Token /\ issued[svc.cred] # None
              /\ noted.live /\ call[c].val = issued[svc.cred].perm
         /\ svc.pc = "asking" /\ call[c].reply = "ok" /\ call[c].val = "yes" =>
              call[c].addr \in svc.todo \cap noted.owned
<1>1. WaitInv /\ (noted.live => svc.cred \in Token /\ issued[svc.cred] # None)
  BY ServiceKnows
<1>2. call[c] # Idle
  BY DEF Idle
<1>3. AccessInv /\ DOMAIN call = Caller
  BY DEF IInv, AccessInv
<1>4. AccessInv' /\ StoreKept /\ call' = [call EXCEPT ![c] = Idle] /\ mix' = mix
  BY <1>3, EndKeeps DEF End
<1>5. \A w \in Caller : Waits(w) => w = c
  BY <1>2 DEF Waits
<1>6. Waits(c)
  BY <1>1, <1>5 DEF WaitInv
<1>7. NoCalls'
  BY <1>3, <1>4, <1>6 DEF Waits, NoCalls
<1> QED BY <1>1, <1>4, <1>5, <1>7 DEF WaitInv

LEMMA VerifiedKeeps ==
  ASSUME IInv, svc # Resting, NEW c \in Caller, Verified(c)
  PROVE  IInv'
<1>1. svc.pc = "verifying" /\ Note /\ mux' = mux
  BY DEF Verified, Answered, Erred
<1>2. svc.todo \in SUBSET svc.todo /\ svc.todo \ svc.todo = {}
  OBVIOUS
<1>3. CASE Answered(c) /\ svc' = [svc EXCEPT !.pc = "checking", !.by = "remote",
             !.ctx = [perms |-> AdaptOldStrategy(call[c].val), name |-> NameIn(svc.cred)]]
  <2>1. call[c].reply = "ok" /\ call[c].pc = "done" /\ End(c)
    BY <1>3 DEF Answered, Deliver
  <2>2. /\ AccessInv' /\ StoreKept /\ mix' = mix /\ NoCalls'
        /\ svc.cred \in Token /\ issued[svc.cred] # None
        /\ noted.live /\ call[c].val = issued[svc.cred].perm
    BY <1>1, <2>1, ReturnKeeps
  <2>3. PICK ctx : ctx = CtxOf(svc.cred)
    OBVIOUS
  <2>4. StoreTyped
    BY DEF IInv, AccessInv
  <2>5. PICK t \in Token : t = svc.cred /\ issued[t] # None
    BY <2>2
  <2>6. NameIn(t) = issued[t].name /\ CtxOf(t) \in ContextRec
    BY <2>4, <2>5, Contexts DEF ContextRec
  <2>7. svc' = [svc EXCEPT !.pc = "checking", !.by = "remote", !.ctx = ctx]
    BY <1>3, <2>2, <2>3, <2>5, <2>6 DEF CtxOf
  <2>8. ctx \in ContextRec /\ Vouched(svc.cred, "remote", ctx)
    BY <2>2, <2>3, <2>5, <2>6 DEF Vouched
  <2>9. Goes("checking", svc.todo, ctx, "remote")
    BY <2>7, ServiceUpdates
  <2>10. "checking" \in Pcs
    BY DEF Pcs
  <2>11. Vouched(svc.cred, "remote", ctx)'
    BY <1>1, <2>2, <2>8, <2>9, <2>10, StillVouched
  <2>12. WaitInv'
    BY <2>9, <2>10, Gone DEF WaitInv
  <2> QED BY <1>1, <1>2, <2>2, <2>8, <2>9, <2>10, <2>11, <2>12, GoesKeeps
<1>4. CASE Erred(c) /\ Go("denied")
  <2>1. call[c].pc \in {"sent", "done"} /\ End(c)
    BY <1>4 DEF Erred, Deliver, Lose
  <2>2. AccessInv' /\ StoreKept /\ mix' = mix /\ NoCalls'
    BY <1>1, <2>1, ReturnKeeps
  <2>3. Goes("denied", svc.todo, svc.ctx, svc.by)
    BY <1>4, PcGoes
  <2>4. svc.ctx \in ContextRec /\ "denied" \in Pcs
    BY ServiceKnows DEF Pcs
  <2>5. WaitInv'
    BY <2>3, Gone DEF WaitInv
  <2> QED BY <1>1, <1>2, <2>2, <2>3, <2>4, <2>5, GoesKeeps
<1> QED BY <1>3, <1>4 DEF Verified

LEMMA OwnerToldKeeps ==
  ASSUME IInv, svc # Resting, NEW c \in Caller, OwnerTold(c)
  PROVE  IInv'
<1>1. /\ svc.pc = "asking" /\ Note /\ mux' = mux
      /\ svc.ctx \in ContextRec /\ svc.addrs \subseteq Miner \cup Signer
      /\ NotedTyped
  BY ServiceKnows, IInvParts DEF OwnerTold, Answered, Erred, Parts
<1>2. call[c].pc \in {"sent", "done"} /\ End(c)
  BY DEF OwnerTold, Answered, Erred, Deliver, Lose
<1>3. AccessInv' /\ StoreKept /\ mix' = mix /\ NoCalls'
  BY <1>1, <1>2, ReturnKeeps
<1>4. "checking" \in Pcs /\ "denied" \in Pcs
  BY DEF Pcs
<1>5. CASE /\ Answered(c) /\ call[c].val = "yes"
           /\ svc' = [svc EXCEPT !.pc = "checking", !.todo = @ \ {call[c].addr}]
  <2>1. call[c].reply = "ok"
    BY <1>5 DEF Answered
  <2>2. call[c].addr \in svc.todo \cap noted.owned
    BY <1>1, <1>2, <1>5, <2>1, ReturnKeeps
  <2>3. PICK todo \in SUBSET svc.todo : todo = svc.todo \ {call[c].addr}
    OBVIOUS
  <2>4. PICK by, ctx : by = svc.by /\ ctx = svc.ctx
    OBVIOUS
  <2>5. svc' = [svc EXCEPT !.pc = "checking", !.todo = todo]
    BY <1>5, <2>3
  <2>6. Goes("checking", todo, ctx, by)
    BY <2>4, <2>5, ServiceUpdates
  <2>7. svc'.pc = "checking" /\ svc'.addrs = svc.addrs /\ svc' # Resting
    BY <2>6, Gone
  <2>8. noted.owned \subseteq noted'.owned
    BY <1>1, <2>7, Noting DEF NotedTyped
  <2>9. svc.todo \ todo \subseteq noted'.owned
    BY <2>2, <2>3, <2>8
  <2>10. ~svc.trusted /\ mux # {} => Vouched(svc.cred, by, ctx)
    BY <1>1, <2>4, ServiceKnows DEF VouchedNow
  <2>11. ~svc.trusted /\ mux # {} => Vouched(svc.cred, by, ctx)'
    BY <1>1, <1>3, <1>4, <2>6, <2>10, StillVouched
  <2>12. WaitInv'
    BY <2>7 DEF WaitInv
  <2>13. ctx \in ContextRec
    BY <1>1, <2>4
  <2> QED BY <1>1, <1>3, <1>4, <2>3, <2>6, <2>9, <2>11, <2>12, <2>13, GoesKeeps
<1>6. CASE Go("denied")
  <2>1. Goes("denied", svc.todo, svc.ctx, svc.by)
    BY <1>6, PcGoes
  <2>2. WaitInv'
    BY <1>4, <2>1, Gone DEF WaitInv
  <2>3. svc.todo \in SUBSET svc.todo /\ svc.todo \ svc.todo = {}
    OBVIOUS
  <2> QED BY <1>1, <1>3, <1>4, <2>1, <2>2, <2>3, GoesKeeps
<1> QED BY <1>5, <1>6 DEF OwnerTold

\* Steps that leave the service where it is.
LEMMA RestKeeps ==
  ASSUME IInv, AccessInv', svc = Resting, svc' = svc, Note, mix' = mix,
         mix.asks # {} => NoCalls'
  PROVE  IInv'
<1>1. noted' = Nothing /\ NotedTyped'
  BY DEF Note, NotedTyped, Nothing
<1> QED BY <1>1, PartsNext DEF Parts

LEMMA StandKeeps ==
  ASSUME IInv, AccessInv', StoreKept, svc # Resting, svc' = svc, mux' = mux, mix' = mix, Note,
         WaitInv', svc.pc \notin {"verifying", "asking"} => NoCalls'
  PROVE  IInv'
<1>1. PICK pc, todo, ctx, by :
        pc = svc.pc /\ todo = svc.todo /\ ctx = svc.ctx /\ by = svc.by
  OBVIOUS
<1>2. /\ Goes(pc, todo, ctx, by) /\ pc \in Pcs /\ ctx \in ContextRec
      /\ Goes(pc, svc.todo, ctx, by)
  BY <1>1, ServiceUpdates, ServiceKnows
<1>3. todo \in SUBSET svc.todo /\ svc.todo \ todo = {}
  BY <1>1
<1>4. noted.owned \subseteq noted'.owned
  BY ServiceKnows, IInvParts, Noting DEF Parts, NotedTyped
<1>5. pc \in {"checking", "asking", "served"} /\ ~svc.trusted /\ mux # {} =>
        Vouched(svc.cred, by, ctx)
  BY <1>1, ServiceKnows DEF VouchedNow
<1>6. pc \in {"checking", "asking", "served"} /\ ~svc.trusted /\ mux # {} =>
        Vouched(svc.cred, by, ctx)'
  BY <1>2, <1>5, StillVouched
<1>7. pc = "served" /\ ~svc.trusted /\ "admin" \notin ctx.perms =>
        /\ svc.user # None => svc.user = ctx.name
        /\ svc.addrs \subseteq noted'.owned
  BY <1>1, <1>4, ServiceKnows DEF OwnsNow
<1> QED BY <1>1, <1>2, <1>3, <1>6, <1>7, GoesKeeps

\* What the service has noted while it stands.
LEMMA NotedMore ==
  ASSUME IInv, StoreKept, svc # Resting, svc' = svc, Note
  PROVE  /\ noted.live => noted'.live /\ issued'[svc.cred].perm = issued[svc.cred].perm
         /\ noted.owned \subseteq noted'.owned
         /\ IsLive(svc.cred)' => noted'.live
         /\ \A a \in svc.addrs : Owns(svc.ctx.name, a)' => a \in noted'.owned
<1>1. /\ svc.addrs \subseteq Miner \cup Signer /\ NotedTyped
      /\ noted.live => svc.cred \in Token /\ issued[svc.cred] # None
  BY ServiceKnows, IInvParts DEF Parts
<1>2. noted.live => issued'[svc.cred].perm = issued[svc.cred].perm
  BY <1>1 DEF StoreKept, TokensKept
<1> QED BY <1>1, <1>2, Noting DEF NotedTyped

LEMMA OthersStand ==
  ASSUME IInv, Others, UNCHANGED <<svc, mux>>, Note
  PROVE  IInv'
<1>1. AccessInv' /\ StoreKept /\ call' = call /\ mix' = mix
  BY OthersAccess DEF IInv, Others
<1>2. CASE svc = Resting
  <2>1. mix.asks # {} => NoCalls'
    BY <1>1, <1>2, IInvParts DEF Parts, InCall, NoCalls
  <2> QED BY <1>1, <1>2, <2>1, RestKeeps
<1>3. CASE svc # Resting
  <2>1. /\ noted.live => noted'.live /\ issued'[svc.cred].perm = issued[svc.cred].perm
        /\ noted.owned \subseteq noted'.owned
    BY <1>1, <1>3, NotedMore
  <2>2. svc' = svc /\ WaitInv
    BY <1>3, ServiceKnows
  <2>3. WaitInv'
    <3>1. \A w \in Caller : Waits(w) => Waits(w)'
      BY <1>1 DEF Waits
    <3>2. ASSUME svc.pc = "verifying"
          PROVE \E c \in Caller :
            /\ Waits(c)' /\ call'[c].handler = "Verify" /\ call'[c].tok = svc.cred
            /\ call'[c].reply = "ok" => noted'.live /\ call'[c].val = issued'[svc.cred].perm
      <4>1. PICK c \in Caller :
              /\ Waits(c) /\ call[c].handler = "Verify" /\ call[c].tok = svc.cred
              /\ call[c].reply = "ok" => noted.live /\ call[c].val = issued[svc.cred].perm
        BY <2>2, <3>2 DEF WaitInv
      <4> QED BY <1>1, <2>1, <3>1, <4>1
    <3>3. ASSUME svc.pc = "asking"
          PROVE \E c \in Caller :
            /\ Waits(c)' /\ call'[c].handler \in Exists
            /\ call'[c].user = svc.ctx.name /\ call'[c].addr \in svc.todo
            /\ call'[c].reply = "ok" /\ call'[c].val = "yes" => call'[c].addr \in noted'.owned
      <4>1. PICK c \in Caller :
              /\ Waits(c) /\ call[c].handler \in Exists
              /\ call[c].user = svc.ctx.name /\ call[c].addr \in svc.todo
              /\ call[c].reply = "ok" /\ call[c].val = "yes" => call[c].addr \in noted.owned
        BY <2>2, <3>3 DEF WaitInv, Exists
      <4> QED BY <1>1, <2>1, <3>1, <4>1
    <3> QED BY <2>2, <3>2, <3>3 DEF WaitInv, Exists
  <2>4. svc.pc \notin {"verifying", "asking"} => NoCalls'
    BY <1>1, <1>3, ServiceKnows DEF NoCalls
  <2> QED BY <1>1, <1>3, <2>3, <2>4, StandKeeps
<1> QED BY <1>2, <1>3

\* The handler of a method that only asks leaves the store alone.
LEMMA AsksOnly ==
  ASSUME NEW r, Operate(r), r.handler \notin Writes
  PROVE  UNCHANGED store
<1>1. ~TokenOp(r)
  BY DEF TokenOp, Writes
<1>2. ~UserOp(r)
  BY DEF UserOp, Writes
<1>3. ~MinerOp(r)
  BY DEF MinerOp, Writes
<1>4. ~SignerOp(r)
  BY DEF SignerOp, DropBindings, Writes
<1> QED BY <1>1, <1>2, <1>3, <1>4 DEF Operate

LEMMA ServerStands ==
  ASSUME IInv, NEW c \in Caller, ServerStep(c), UNCHANGED <<svc, mux>>, Note
  PROVE  IInv'
<1>1. /\ AccessInv' /\ StoreKept /\ mix' = mix
      /\ call[c] # Idle /\ call'[c] # Idle /\ SameNames(c)
      /\ call'[c].reply = "ok" =>
           \/ Perform(c) /\ call'[c].val = Value(call[c])
           \/ call[c].handler \in Exists /\ call'[c].val = "no"
  BY ServerKeeps DEF IInv
<1>2. CASE svc = Resting
  <2>1. mix.asks = {}
    BY <1>1, <1>2, IInvParts DEF Parts, InCall, NoCalls
  <2> QED BY <1>1, <1>2, <2>1, RestKeeps
<1>3. CASE svc # Resting
  <2>1. /\ noted.owned \subseteq noted'.owned
        /\ noted.live => noted'.live
        /\ IsLive(svc.cred)' => noted'.live
        /\ \A a \in svc.addrs : Owns(svc.ctx.name, a)' => a \in noted'.owned
    BY <1>1, <1>3, NotedMore
  <2>2. svc' = svc /\ WaitInv /\ svc.todo \subseteq svc.addrs
    BY <1>3, ServiceKnows
  <2>3. svc.pc \in {"verifying", "asking"}
    BY <1>1, <1>3, ServiceKnows DEF NoCalls
  <2>4. \A w \in Caller : Waits(w) => w = c
    BY <1>1 DEF Waits
  <2>5. Waits(c)
    BY <2>2, <2>3, <2>4 DEF WaitInv
  <2>6. Waits(c)'
    BY <1>1, <2>5 DEF Waits, SameNames
  <2>7. ASSUME svc.pc = "verifying" PROVE WaitInv'
    <3>1. call[c].handler = "Verify" /\ call[c].tok = svc.cred
      BY <2>2, <2>4, <2>7 DEF WaitInv
    <3>2. call'[c].handler = "Verify" /\ call'[c].tok = svc.cred
      BY <1>1, <3>1 DEF SameNames
    <3>3. ASSUME call'[c].reply = "ok"
          PROVE  noted'.live /\ call'[c].val = issued'[svc.cred].perm
      <4>1. Perform(c) /\ call'[c].val = Value(call[c])
        BY <1>1, <3>1, <3>3 DEF Exists
      <4>2. IsLive(svc.cred) /\ issued' = issued
        <5>1. IsLive(svc.cred) /\ Operate(call[c])
          BY <3>1, <4>1 DEF Perform
        <5>2. UNCHANGED store
          BY <3>1, <5>1, AsksOnly DEF Writes
        <5> QED BY <5>1, <5>2 DEF store
      <4>3. Value(call[c]) = issued[svc.cred].perm
        BY <3>1 DEF Value
      <4>4. IsLive(svc.cred)'
        BY <2>2, <4>2 DEF IsLive
      <4> QED BY <2>1, <4>1, <4>2, <4>3, <4>4
    <3> QED BY <2>2, <2>6, <2>7, <3>2, <3>3 DEF WaitInv
  <2>8. ASSUME svc.pc = "asking" PROVE WaitInv'
    <3>1. /\ call[c].handler \in Exists
          /\ call[c].user = svc.ctx.name /\ call[c].addr \in svc.todo
      BY <2>2, <2>4, <2>8 DEF WaitInv, Exists
    <3>2. /\ call'[c].handler \in Exists
          /\ call'[c].user = svc.ctx.name /\ call'[c].addr \in svc.todo
          /\ call'[c].addr = call[c].addr
      BY <1>1, <3>1 DEF SameNames
    <3>3. ASSUME call'[c].reply = "ok", call'[c].val = "yes"
          PROVE  call'[c].addr \in noted'.owned
      <4>1. Perform(c) /\ Value(call[c]) = "yes"
        BY <1>1, <3>3
      <4>2. UNCHANGED store
        <5>1. Operate(call[c])
          BY <4>1 DEF Perform
        <5> QED BY <3>1, <5>1, AsksOnly DEF Writes, Exists
      <4>3. Owns(svc.ctx.name, call[c].addr)
        BY <3>1, <4>1 DEF Value, Exists
      <4>4. PICK a \in svc.addrs : a = call[c].addr
        BY <2>2, <3>1
      <4>5. Owns(svc.ctx.name, a)'
        BY <2>2, <4>2, <4>3, <4>4 DEF Owns, store, bindings
      <4> QED BY <2>1, <3>2, <4>4, <4>5
    <3> QED BY <2>2, <2>6, <2>8, <3>2, <3>3 DEF WaitInv, Exists
  <2>9. WaitInv'
    BY <2>3, <2>7, <2>8
  <2> QED BY <1>1, <1>3, <2>3, <2>9, StandKeeps
<1> QED BY <1>2, <1>3

LEMMA ClientStands ==
  ASSUME IInv, NEW c \in Caller, Client(c), UNCHANGED <<svc, mux>>, Note
  PROVE  IInv'
<1>1. mix.asks = {} /\ (Send(c) \/ Raw(c))
  BY DEF Client
<1>2. AccessInv'
  BY <1>1, SendKeeps, RawKeeps DEF IInv
<1>3. mix' = mix
  BY <1>1 DEF Send, Raw, Request
<1>4. svc = Resting
  BY <1>1, ServiceKnows
<1> QED BY <1>1, <1>2, <1>3, <1>4, RestKeeps

LEMMA HearsStands ==
  ASSUME IInv, NEW c \in Caller, Hears(c), UNCHANGED <<svc, mux>>, Note
  PROVE  IInv'
<1>1. svc = Resting /\ End(c) /\ AccessInv
  BY DEF Hears, Deliver, Lose, IInv
<1>2. AccessInv' /\ call' = [call EXCEPT ![c] = Idle] /\ mix' = mix
  BY <1>1, EndKeeps DEF End
<1>3. mix.asks # {} => NoCalls'
  BY <1>1, <1>2, IInvParts DEF Parts, InCall, NoCalls, AccessInv
<1> QED BY <1>1, <1>2, <1>3, RestKeeps

LEMMA Stutters ==
  ASSUME IInv, UNCHANGED allVars
  PROVE  IInv'
<1>1. UNCHANGED vars /\ UNCHANGED svars
  BY DEF allVars
<1>2. AccessInv' /\ StoreKept /\ mix' = mix /\ call' = call /\ issued' = issued
  BY <1>1, AccessStutters DEF IInv, vars, store
<1>3. svc' = svc /\ noted' = noted /\ mux' = mux
  BY <1>1 DEF svars
<1>4. InCall' = InCall /\ NoCalls' = NoCalls /\ NotedTyped' = NotedTyped
  BY <1>2, <1>3 DEF InCall, NoCalls, NotedTyped
<1>5. ServiceTyped' = ServiceTyped /\ OwnsNow' = OwnsNow
  BY <1>3 DEF ServiceTyped, OwnsNow
<1>6. VouchedNow' = VouchedNow
  BY <1>2, <1>3 DEF VouchedNow, Vouched, CtxOf
<1>7. ServiceInv => ServiceInv'
  BY <1>2, <1>3 DEF ServiceInv
<1>8. WaitInv => WaitInv'
  BY <1>2, <1>3 DEF WaitInv, Waits
<1> QED BY <1>2, <1>3, <1>4, <1>5, <1>6, <1>7, <1>8, IInvParts, PartsNext DEF Parts, ServiceFacts

\* A step of the service is one of a request that it serves.
LEMMA ServiceStepKeeps ==
  ASSUME IInv, ServiceStep
  PROVE  IInv'
<1>1. CASE Trust \/ Unauthorised \/ VerifyLocally \/ VerifyNothing \/ Pass \/ Deny
  <2>1. Trust \/ Unauthorised \/ VerifyLocally => svc.pc = "arrived"
    BY DEF Trust, Unauthorised, VerifyLocally
  <2>2. VerifyNothing => svc.pc = "arrived"
    BY DEF VerifyNothing
  <2>3. Pass \/ Deny => svc.pc = "checking"
    BY DEF Pass, Deny
  <2>4. svc # Resting
    BY <1>1, <2>1, <2>2, <2>3 DEF Resting
  <2> QED BY <1>1, <2>4, AloneKeeps
<1>2. CASE Finish
  BY <1>2, FinishKeeps
<1>3. ASSUME NEW c \in Caller, AskToVerify(c) \/ Verified(c) \/ AskForOwner(c) \/ OwnerTold(c)
      PROVE  IInv'
  <2>1. svc # Resting
    BY <1>3 DEF AskToVerify, Verified, AskForOwner, OwnerTold, Resting
  <2> QED BY <1>3, <2>1, AskToVerifyKeeps, VerifiedKeeps, AskForOwnerKeeps, OwnerToldKeeps
<1> QED BY <1>1, <1>2, <1>3 DEF ServiceStep

LEMMA StepKeeps ==
  ASSUME IInv, [Next]_allVars
  PROVE  IInv'
<1>1. CASE Arrive
  BY <1>1, ArriveKeeps
<1>2. CASE ServiceStep
  BY <1>2, ServiceStepKeeps
<1>3. CASE Others /\ UNCHANGED <<svc, mux>> /\ Note
  BY <1>3, OthersStand
<1>4. ASSUME NEW c \in Caller, ServerStep(c) \/ Client(c) \/ Hears(c),
             UNCHANGED <<svc, mux>>, Note
      PROVE  IInv'
  BY <1>4, ServerStands, ClientStands, HearsStands
<1>5. CASE UNCHANGED allVars
  BY <1>5, Stutters
<1> QED BY <1>1, <1>2, <1>3, <1>4, <1>5 DEF Next

LEMMA InitOK ==
  Init => IInv
<1> SUFFICES ASSUME Init PROVE IInv
  OBVIOUS
<1>1. /\ svc = Resting /\ noted = Nothing /\ mix \in Mixes
      /\ user \in [User -> {"absent", "live"}] /\ miner = [m \in Miner |-> None] /\ signer = {}
      /\ call = [c \in Caller |-> Idle] /\ seen = [c \in Caller |-> Unseen]
  BY DEF Init, AccessInit
<1>2. issued \in [Token -> {None} \cup [name : User, perm : Perm, live : BOOLEAN]]
  <2>1. [name |-> Default, perm |-> "admin", live |-> TRUE] \in
          [name : User, perm : Perm, live : BOOLEAN]
    BY ConstantsOK
  <2> QED BY <2>1 DEF Init, AccessInit
<1>3. StoreTyped
  BY <1>1, <1>2 DEF StoreTyped
<1>4. AccessInv
  BY <1>1, <1>3 DEF AccessInv, TypeOfCall, Unseen
<1>5. NotedTyped /\ NoCalls
  BY <1>1 DEF NotedTyped, Nothing, NoCalls
<1> QED BY <1>1, <1>4, <1>5, IInvParts DEF Parts

-----------------------------------------------------------------------------
(* What a step of a call may do *)

\* A step that moves a call is one of the server's, or begins or ends the call.
LEMMA CallMoves ==
  ASSUME IInv, Next, NEW c \in Caller, call'[c] # call[c]
  PROVE  ServerStep(c) \/ (UNCHANGED store /\ (call[c] = Idle \/ call'[c] = Idle))
<1>0. AccessInv /\ DOMAIN call = Caller
  BY DEF IInv, AccessInv
<1>1. ~Quiet
  BY DEF Quiet, vars
<1>2. ASSUME NEW d \in Caller, NEW m, NEW h, NEW bad, NEW cred, NEW a,
             Request(d, m, h, bad, cred, a)
      PROVE  UNCHANGED store /\ call[c] = Idle
  BY <1>0, <1>2, RequestMade
<1>3. ASSUME NEW d \in Caller, End(d)
      PROVE  UNCHANGED store /\ call'[c] = Idle
  BY <1>0, <1>3 DEF End
<1>4. CASE Arrive
  BY <1>1, <1>4 DEF Arrive
<1>5. CASE ServiceStep
  <2>1. ~Trust /\ ~Unauthorised /\ ~VerifyLocally
    BY <1>1 DEF Trust, Unauthorised, VerifyLocally
  <2>2. ~VerifyNothing /\ ~Pass /\ ~Deny /\ ~Finish
    BY <1>1 DEF VerifyNothing, Pass, Deny, Finish
  <2>3. ASSUME NEW d \in Caller, AskToVerify(d)
        PROVE  UNCHANGED store /\ call[c] = Idle
    BY <1>2, <2>3 DEF AskToVerify, Ask
  <2>4. ASSUME NEW d \in Caller, AskForOwner(d)
        PROVE  UNCHANGED store /\ call[c] = Idle
    BY <1>2, <2>4 DEF AskForOwner, Ask
  <2>5. ASSUME NEW d \in Caller, Verified(d) \/ OwnerTold(d)
        PROVE  UNCHANGED store /\ call'[c] = Idle
    <3>1. End(d)
      BY <2>5 DEF Verified, OwnerTold, Answered, Erred, Deliver, Lose
    <3> QED BY <1>3, <3>1
  <2> QED BY <1>5, <2>1, <2>2, <2>3, <2>4, <2>5 DEF ServiceStep
<1>6. CASE Others
  BY <1>6 DEF Others
<1>7. ASSUME NEW d \in Caller, ServerStep(d)
      PROVE  ServerStep(c)
  <2>1. SameNames(d)
    BY <1>0, <1>7, ServerKeeps
  <2> QED BY <1>7, <2>1 DEF SameNames
<1>8. ASSUME NEW d \in Caller, Client(d)
      PROVE  UNCHANGED store /\ call[c] = Idle
  BY <1>2, <1>8 DEF Client, Send, Raw
<1>9. ASSUME NEW d \in Caller, Hears(d)
      PROVE  UNCHANGED store /\ call'[c] = Idle
  BY <1>3, <1>9 DEF Hears, Deliver, Lose
<1> QED BY <1>4, <1>5, <1>6, <1>7, <1>8, <1>9 DEF Next

\* What the context of a call grants was granted by the caller's token.
LEMMA Granted ==
  ASSUME AccessInv, NEW c \in Caller, call[c] # Idle
  PROVE  /\ permCheck(call[c], "admin") => ByAdmin(c)
         /\ permCheck(call[c], "read") =>
              seen[c].live /\ issued[call[c].cred].perm \in DOMAIN OldStrategy
         /\ call[c].ctx.name # None =>
              seen[c].live /\ call[c].ctx.name = NameIn(call[c].cred)
<1>1. StoreTyped /\ CallInv(c)
  BY CallFacts
<1>2. call[c].ctx = NoCtx => call[c].ctx.perms = {} /\ call[c].ctx.name = None
  BY DEF NoCtx
<1>3. ASSUME call[c].ctx # NoCtx
      PROVE  \E t \in Token : /\ t = call[c].cred /\ issued[t] # None
                              /\ seen[c].live /\ call[c].ctx = CtxOf(t)
  BY <1>1, <1>3 DEF CallInv
<1>4. CASE call[c].ctx = NoCtx
  BY <1>2, <1>4 DEF permCheck
<1>5. CASE call[c].ctx # NoCtx
  <2>1. PICK t \in Token : /\ t = call[c].cred /\ issued[t] # None
                           /\ seen[c].live /\ call[c].ctx = CtxOf(t)
    BY <1>3, <1>5
  <2>2. /\ call[c].ctx.name = NameIn(t)
        /\ call[c].ctx.perms = AdaptOldStrategy(issued[t].perm)
    BY <1>1, <2>1, Contexts
  <2> QED BY <2>1, <2>2, Strategy DEF permCheck, ByAdmin
<1> QED BY <1>4, <1>5

\* A handler that runs was allowed, or its caller was found to own the address.
LEMMA MayRunMeans ==
  ASSUME AccessInv, NEW c \in Caller, call[c] # Idle, MayRun(call[c])
  PROVE  \/ call[c].handler \in Open
         \/ ByAdmin(c)
         \/ /\ call[c].handler = "Verify"
            /\ seen[c].live /\ issued[call[c].cred].perm \in DOMAIN OldStrategy
         \/ /\ call[c].handler \in OwnName
            /\ seen[c].live /\ call[c].user = NameIn(call[c].cred)
         \/ /\ call[c].handler \in OwnToken /\ call[c].tok # None
            /\ seen[c].live /\ NameIn(call[c].tok) = NameIn(call[c].cred)
         \/ call[c].handler \in OwnAddress /\ seen[c].live /\ seen[c].owned
<1>1. CASE call[c].pc = "checked"
  <2>1. CallInv(c)
    BY CallFacts
  <2> QED BY <1>1, <2>1 DEF CallInv
<1>2. CASE call[c].pc # "checked"
  <2>1. Allowed(call[c])
    BY <1>2 DEF MayRun
  <2>2. CASE call[c].handler \in Open
    BY <2>2
  <2>3. CASE call[c].handler = "Verify"
    <3>1. permCheck(call[c], "read")
      BY <2>1, <2>3 DEF Allowed, Open, OwnName, OwnToken
    <3> QED BY <2>3, <3>1, Granted
  <2>4. CASE call[c].handler \in OwnName
    <3>1. userPermCheck(call[c])
      BY <2>1, <2>4 DEF Allowed, Open, OwnName, OwnToken
    <3> QED BY <2>4, <3>1, Granted DEF userPermCheck
  <2>5. CASE call[c].handler \in OwnToken
    <3>1. tokenPermCheck(call[c])
      BY <2>1, <2>5 DEF Allowed, Open, OwnName, OwnToken
    <3>2. NameIn(call[c].tok) # None => call[c].tok # None
      BY ConstantsOK DEF NameIn
    <3> QED BY <2>5, <3>1, <3>2, Granted DEF tokenPermCheck
  <2>6. CASE call[c].handler \notin Open \cup {"Verify"} \cup OwnName \cup OwnToken
    <3>1. permCheck(call[c], "admin")
      BY <2>1, <2>6 DEF Allowed
    <3> QED BY <3>1, Granted
  <2> QED BY <2>2, <2>3, <2>4, <2>5, <2>6
<1> QED BY <1>1, <1>2

\* The handlers that a user may call for its own tokens and addresses touch
\* nothing else.
LEMMA OwnTokenEffect ==
  ASSUME StoreTyped, NEW r, r.handler \in OwnToken, Operate(r)
  PROVE  UNCHANGED bindings /\ \A t \in Token : issued'[t] # issued[t] => t = r.tok
<1>1. ~UserOp(r) /\ ~MinerOp(r)
  BY DEF UserOp, MinerOp, OwnToken
<1>2. ~SignerOp(r)
  BY DEF SignerOp, DropBindings, OwnToken
<1>3. CASE UNCHANGED store
  BY <1>3 DEF store
<1>4. CASE TokenOp(r)
  <2>1. UNCHANGED bindings /\ (Remove(r.tok) \/ Recover(r.tok))
    BY <1>4 DEF TokenOp, OwnToken
  <2>2. \E b \in BOOLEAN : issued' = [issued EXCEPT ![r.tok].live = b]
    BY <2>1 DEF Remove, Recover
  <2> QED BY <2>1, <2>2 DEF StoreTyped
<1> QED BY <1>1, <1>2, <1>3, <1>4 DEF Operate

LEMMA DropEffect ==
  ASSUME StoreTyped, NEW r, DropBindings(r)
  PROVE  /\ UNCHANGED <<user, miner, issued>> /\ signer' \subseteq signer
         /\ \A b \in signer \ signer' : b[1] = r.addr
<1>1. PICK B \in SUBSET {b \in signer : b[1] = r.addr} : signer' = signer \ B
  BY DEF DropBindings
<1> QED BY <1>1 DEF DropBindings

LEMMA OwnAddressEffect ==
  ASSUME StoreTyped, NEW r, r.handler \in OwnAddress, Operate(r)
  PROVE  /\ UNCHANGED <<user, issued>>
         /\ \A m \in Miner : miner'[m] # miner[m] => m = r.addr /\ miner'[m] = None
         /\ signer' \subseteq signer
         /\ \A b \in signer \ signer' : b[1] = r.addr
<1>1. ~TokenOp(r) /\ ~UserOp(r)
  BY DEF TokenOp, UserOp, OwnAddress
<1>2. CASE UNCHANGED store
  BY <1>2 DEF store, bindings
<1>3. CASE MinerOp(r)
  <2>1. UNCHANGED issued /\ (ReleaseMiner(r.addr) \/ UNCHANGED bindings)
    BY <1>3 DEF MinerOp, OwnAddress
  <2> QED BY <2>1 DEF ReleaseMiner, bindings, StoreTyped
<1>4. CASE SignerOp(r)
  <2>1. DropBindings(r)
    BY <1>4 DEF SignerOp, OwnAddress
  <2> QED BY <2>1, DropEffect
<1> QED BY <1>1, <1>2, <1>3, <1>4 DEF Operate

LEMMA Effects ==
  ASSUME AccessInv, NEW c \in Caller, ServerStep(c), store' # store
  PROVE  EffectIsAuthorised(c)
<1>1. Perform(c) \/ Fail(c)
  BY DEF ServerStep, Authenticate, CheckOwner, Refuse
<1>2. call[c] # Idle /\ MayRun(call[c]) /\ StoreTyped
  BY <1>1 DEF Perform, Fail, AccessInv
<1>3. Operate(call[c])
  <2>1. CASE Perform(c)
    BY <2>1 DEF Perform
  <2>2. CASE Fail(c)
    <3>1. DropBindings(call[c])
      BY <2>2 DEF Fail
    <3> QED BY <3>1 DEF Operate, SignerOp
  <2> QED BY <1>1, <2>1, <2>2
<1>4. call[c].handler \in Writes
  BY <1>3, AsksOnly
<1>5. call[c].handler \notin Open \cup {"Verify"} \cup OwnName
  BY <1>4 DEF Writes, Open, OwnName
<1>6. CASE ByAdmin(c)
  BY <1>6 DEF EffectIsAuthorised
<1>7. CASE /\ call[c].handler \in OwnToken /\ seen[c].live
           /\ NameIn(call[c].tok) = NameIn(call[c].cred)
  BY <1>2, <1>3, <1>7, OwnTokenEffect DEF EffectIsAuthorised
<1>8. CASE call[c].handler \in OwnAddress /\ seen[c].live /\ seen[c].owned
  BY <1>2, <1>3, <1>8, OwnAddressEffect DEF EffectIsAuthorised
<1> QED BY <1>2, <1>5, <1>6, <1>7, <1>8, MayRunMeans

\* A call that turns ok ran its handler; what only asks may have been told no.
LEMMA OkRan ==
  ASSUME IInv, Next, NEW c \in Caller, TurnsOk(c)
  PROVE  /\ AccessInv /\ call[c] # Idle /\ MayRun(call[c]) /\ SameNames(c) /\ StoreKept
         /\ Perform(c) \/ (call[c].handler \in Exists /\ UNCHANGED store)
<1>1. AccessInv /\ call[c] # Idle /\ call'[c] # Idle /\ call'[c].reply = "ok"
  BY DEF IInv, TurnsOk
<1>2. call'[c] # call[c]
  BY ConstantsOK DEF TurnsOk
<1>3. ServerStep(c)
  BY <1>1, <1>2, CallMoves
<1>4. SameNames(c) /\ StoreKept
  BY <1>1, <1>3, ServerKeeps
<1>5. CASE Perform(c)
  BY <1>1, <1>4, <1>5 DEF Perform
<1>6. CASE ~Perform(c)
  <2>1. ~Authenticate(c) /\ ~CheckOwner(c)
    BY <1>1, AuthenticateMoves, CheckOwnerMoves, ConstantsOK
  <2>2. ~Refuse(c)
    <3>1. Refuse(c) => Answer(c, "error", None)
      BY DEF Refuse
    <3> QED BY <1>1, <3>1, AnswerMoves
  <2>3. Fail(c)
    BY <1>3, <1>6, <2>1, <2>2 DEF ServerStep
  <2>4. ~Answer(c, "error", None)
    BY <1>1, AnswerMoves
  <2>5. /\ call[c].handler \in Exists /\ MayRun(call[c])
        /\ DropBindings(call[c]) \/ UNCHANGED store
    BY <2>3, <2>4 DEF Fail, Exists
  <2>6. ~DropBindings(call[c])
    BY <2>5 DEF DropBindings, Exists
  <2> QED BY <1>1, <1>4, <2>5, <2>6
<1> QED BY <1>5, <1>6

LEMMA Answers ==
  ASSUME IInv, Next, NEW c \in Caller, TurnsOk(c)
  PROVE  \/ call[c].handler \in Open
         \/ ByAdmin(c)
         \/ /\ seen[c].live
            /\ \/ call[c].user = NameIn(call[c].cred)
               \/ call[c].tok # None /\ NameIn(call[c].tok) = NameIn(call[c].cred)
               \/ seen[c].owned
               \/ /\ call[c].handler = "Verify"
                  /\ issued[call[c].cred].perm \in DOMAIN OldStrategy
BY OkRan, MayRunMeans

\* What the handler that a method names does, is what the name promises.
LEMMA TokenPromises ==
  ASSUME AccessInv, StoreKept, NEW c \in Caller, call[c] # Idle, SameNames(c),
         Bound(call[c].handler, call[c]), Operate(call[c]),
         call[c].handler = call[c].method,
         call[c].method \in {"GenerateToken", "RemoveToken", "RecoverToken"}
  PROVE  Promised(call[c])
<1>1. TokenOp(call[c])
  <2>1. ~UserOp(call[c]) /\ ~MinerOp(call[c])
    BY DEF UserOp, MinerOp
  <2>2. ~SignerOp(call[c])
    BY DEF SignerOp, DropBindings
  <2> QED BY <2>1, <2>2 DEF Operate, Writes
<1>2. CASE call[c].method = "GenerateToken"
  <2>1. \E t \in Token : Issue(t, call[c].user, call[c].perm)
    BY <1>1, <1>2 DEF TokenOp
  <2>2. \E t \in Token : issued[t] = None /\
          issued' = [issued EXCEPT ![t] =
            [name |-> call[c].user, perm |-> call[c].perm, live |-> TRUE]]
    BY <2>1 DEF Issue
  <2> QED BY <1>2, <2>2 DEF Promised
<1>3. CASE call[c].method \in {"RemoveToken", "RecoverToken"}
  <2>1. PICK t \in Token : t = call[c].tok
    BY <1>3 DEF Bound
  <2>2. PICK b \in BOOLEAN : /\ issued[t] # None
                             /\ issued' = [issued EXCEPT ![t].live = b]
                             /\ b <=> call[c].method = "RecoverToken"
    <3>1. CASE call[c].method = "RemoveToken"
      <4>1. Remove(t)
        BY <1>1, <2>1, <3>1 DEF TokenOp
      <4> QED BY <3>1, <4>1 DEF Remove
    <3>2. CASE call[c].method = "RecoverToken"
      <4>1. Recover(t)
        BY <1>1, <2>1, <3>2 DEF TokenOp
      <4> QED BY <3>2, <4>1 DEF Recover
    <3> QED BY <1>3, <3>1, <3>2
  <2>3. issued[t] \in [name : User, perm : Perm, live : BOOLEAN] /\ DOMAIN issued = Token
    BY <2>2 DEF AccessInv, StoreTyped
  <2>4. issued'[t] # None /\ issued'[t].live = b
    <3>1. issued'[t] = [issued[t] EXCEPT !.live = b]
      BY <2>2, <2>3
    <3>2. issued'[t].live = b
      BY <2>3, <3>1
    <3>3. issued'[t] # None
      BY <2>2 DEF StoreKept, TokensKept
    <3> QED BY <3>2, <3>3
  <2>5. call'[c].tok = t
    BY <2>1 DEF SameNames
  <2>6. IsLive(call[c].tok)' <=> b
    BY <2>4, <2>5 DEF IsLive
  <2> QED BY <1>3, <2>2, <2>6 DEF Promised
<1> QED BY <1>2, <1>3

LEMMA UserPromises ==
  ASSUME AccessInv, NEW c \in Caller, Bound(call[c].handler, call[c]), Operate(call[c]),
         call[c].handler = call[c].method,
         call[c].method \in {"CreateUser", "UpdateUser", "RecoverUser", "DeleteUser"}
  PROVE  Promised(call[c])
<1>1. UserOp(call[c])
  <2>1. ~TokenOp(call[c]) /\ ~MinerOp(call[c])
    BY DEF TokenOp, MinerOp
  <2>2. ~SignerOp(call[c])
    BY DEF SignerOp, DropBindings
  <2> QED BY <2>1, <2>2 DEF Operate, Writes
<1>2. call[c].user \in User /\ DOMAIN user = User
  BY DEF Bound, NamesUser, AccessInv, StoreTyped
<1>3. CASE call[c].method = "DeleteUser"
  <2>1. RetireUser(call[c].user)
    BY <1>1, <1>3 DEF UserOp
  <2>2. user'[call[c].user] = "deleted"
    BY <1>2, <2>1 DEF RetireUser
  <2> QED BY <1>3, <2>2 DEF Promised
<1>4. CASE call[c].method # "DeleteUser"
  <2>1. SaveUser(call[c].user)
    BY <1>1, <1>4 DEF UserOp
  <2>2. user'[call[c].user] = "live"
    BY <1>2, <2>1 DEF SaveUser
  <2> QED BY <1>4, <2>2 DEF Promised
<1> QED BY <1>3, <1>4

LEMMA MinerPromises ==
  ASSUME AccessInv, NEW c \in Caller, Bound(call[c].handler, call[c]), Operate(call[c]),
         call[c].handler = NamedHandler(call[c].method),
         call[c].method \in {"UpsertMiner", "DelMiner"}
  PROVE  Promised(call[c])
<1>1. call[c].handler \in {"UpsertMiner", "DeleteMiner"}
  BY DEF NamedHandler
<1>2. MinerOp(call[c])
  <2>1. ~TokenOp(call[c]) /\ ~UserOp(call[c])
    BY <1>1 DEF TokenOp, UserOp
  <2>2. ~SignerOp(call[c])
    BY <1>1 DEF SignerOp, DropBindings
  <2> QED BY <1>1, <2>1, <2>2 DEF Operate, Writes
<1>3. call[c].addr \in Miner /\ DOMAIN miner = Miner
  BY <1>1 DEF Bound, NamesMiner, AccessInv, StoreTyped
<1>4. CASE call[c].method = "UpsertMiner"
  <2>1. BindMiner(call[c].addr, call[c].user)
    BY <1>2, <1>4 DEF MinerOp, NamedHandler
  <2>2. miner'[call[c].addr] = call[c].user
    BY <1>3, <2>1 DEF BindMiner
  <2> QED BY <1>4, <2>2 DEF Promised
<1>5. CASE call[c].method = "DelMiner"
  <2>1. \/ ReleaseMiner(call[c].addr)
        \/ miner[call[c].addr] = None /\ UNCHANGED bindings
    BY <1>2, <1>5 DEF MinerOp, NamedHandler
  <2>2. miner'[call[c].addr] = None
    BY <1>3, <2>1 DEF ReleaseMiner, bindings
  <2> QED BY <1>5, <2>2 DEF Promised
<1> QED BY <1>4, <1>5

LEMMA SignerPromises ==
  ASSUME NEW c \in Caller, Operate(call[c]),
         call[c].handler = call[c].method,
         call[c].method \in {"RegisterSigners", "UnregisterSigners", "DelSigner"}
  PROVE  Promised(call[c])
<1>1. SignerOp(call[c])
  <2>1. ~TokenOp(call[c]) /\ ~UserOp(call[c]) /\ ~MinerOp(call[c])
    BY DEF TokenOp, UserOp, MinerOp
  <2> QED BY <2>1 DEF Operate, Writes
<1>2. CASE call[c].method = "RegisterSigners"
  <2>1. BindSigner(call[c].addr, call[c].user)
    BY <1>1, <1>2 DEF SignerOp, DropBindings
  <2>2. <<call[c].addr, call[c].user>> \in signer'
    BY <2>1 DEF BindSigner
  <2> QED BY <1>2, <2>2 DEF Promised
<1>3. CASE call[c].method = "UnregisterSigners"
  <2>1. ReleaseSigner(call[c].addr, call[c].user)
    BY <1>1, <1>3 DEF SignerOp, DropBindings
  <2>2. <<call[c].addr, call[c].user>> \notin signer'
    BY <2>1 DEF ReleaseSigner
  <2> QED BY <1>3, <2>2 DEF Promised
<1>4. CASE call[c].method = "DelSigner"
  <2>1. DropBindings(call[c])
    BY <1>1, <1>4 DEF SignerOp
  <2>2. signer' \subseteq signer /\ UNCHANGED <<user, miner, issued>>
    BY <2>1 DEF DropBindings
  <2> QED BY <1>4, <2>2 DEF Promised
<1> QED BY <1>2, <1>3, <1>4

Doing == {"GenerateToken", "RemoveToken", "RecoverToken", "CreateUser", "UpdateUser",
          "RecoverUser", "DeleteUser", "UpsertMiner", "DelMiner", "RegisterSigners",
          "UnregisterSigners", "DelSigner"}

LEMMA PromisesKept ==
  ASSUME IInv, Next, NEW c \in Caller, TurnsOk(c), call[c].method # None
  PROVE  Promised(call[c])
<1>1. /\ AccessInv /\ call[c] # Idle /\ MayRun(call[c]) /\ SameNames(c) /\ StoreKept
      /\ Perform(c) \/ (call[c].handler \in Exists /\ UNCHANGED store)
  BY OkRan
<1>2. /\ Bound(call[c].handler, call[c])
      /\ call[c].handler = NamedHandler(call[c].method)
  BY <1>1, RunsBound, CallFacts, MethodsRouted
<1>3. CASE call[c].method \notin Doing
  <2>1. UNCHANGED store
    <3>1. CASE Perform(c)
      <4>1. Operate(call[c])
        BY <3>1 DEF Perform
      <4>2. call[c].handler \notin Writes \/ call[c].method = "DeleteMiner"
        BY <1>2, <1>3 DEF NamedHandler, Doing, Writes
      <4>3. call[c].method # "DeleteMiner"
        <5>1. call[c].method \in Methods
          BY <1>1, CallFacts
        <5> QED BY <5>1, Domains DEF Methods, Calls
      <4> QED BY <4>1, <4>2, <4>3, AsksOnly
    <3> QED BY <1>1, <3>1
  <2> QED BY <1>3, <2>1 DEF Promised, Doing
<1>4. CASE call[c].method \in Doing
  <2>1. call[c].method # "DelMiner" => call[c].handler = call[c].method
    BY <1>2, <1>4 DEF NamedHandler, Doing
  <2>2. Operate(call[c])
    <3>1. call[c].handler \notin Exists
      BY <1>2, <1>4 DEF NamedHandler, Doing, Exists
    <3> QED BY <1>1, <3>1 DEF Perform
  <2>3. CASE call[c].method \in {"GenerateToken", "RemoveToken", "RecoverToken"}
    BY <1>1, <1>2, <2>1, <2>2, <2>3, TokenPromises
  <2>4. CASE call[c].method \in {"CreateUser", "UpdateUser", "RecoverUser", "DeleteUser"}
    BY <1>1, <1>2, <2>1, <2>2, <2>4, UserPromises
  <2>5. CASE call[c].method \in {"UpsertMiner", "DelMiner"}
    BY <1>1, <1>2, <2>2, <2>5, MinerPromises
  <2>6. CASE call[c].method \in {"RegisterSigners", "UnregisterSigners", "DelSigner"}
    BY <2>1, <2>2, <2>6, SignerPromises
  <2> QED BY <1>4, <2>3, <2>4, <2>5, <2>6 DEF Doing
<1> QED BY <1>3, <1>4

-----------------------------------------------------------------------------
(* The theorems *)

\* Whatever the clients call, the others do and the service is asked, the
\* calls and the request of the service are in one of the states of IInv.
THEOREM Inductive ==
  Spec => []IInv
<1>1. Init => IInv
  BY InitOK
<1>2. IInv /\ [Next]_allVars => IInv'
  BY StepKeeps
<1> QED BY <1>1, <1>2, PTL DEF Spec

\* The fields of a call and of a request to the service hold what the code
\* puts there (app.go, auth_mux.go).
THEOREM Typing ==
  Spec => []TypeOK
<1>1. IInv => TypeOK
  BY DEF IInv
<1> QED BY <1>1, Inductive, PTL

\* A request reaches the handler of a service with the service's own token or
\* with one that the server held for live, and with no more than its
\* permissions (auth_mux.go:117-147).
THEOREM Vouches ==
  Spec => []ServedIsVouched
<1>1. IInv => ServedIsVouched
  BY DEF IInv
<1> QED BY <1>1, Inductive, PTL

\* A user who is no admin is served only for addresses that were its own while
\* it was served (utils.go:35-77).
THEOREM ChecksOwners ==
  Spec => []CheckedOwns
<1>1. IInv => CheckedOwns
  BY DEF IInv
<1> QED BY <1>1, Inductive, PTL

\* The store changes by a call only for a token that was live during it: an
\* admin's, or to do to its own user's tokens and addresses what a user may,
\* whatever others do between the 401, the checks and the effect
\* (route.go:173-207, jwt.go:582).
THEOREM Authorised ==
  Spec => EffectsAuthorised
<1>1. IInv /\ [Next]_allVars =>
        [\A c \in Caller : (store' # store /\ call'[c] # call[c]) => EffectIsAuthorised(c)]_vars
  <2> SUFFICES ASSUME IInv, [Next]_allVars, vars' # vars, NEW c \in Caller,
                      store' # store, call'[c] # call[c]
               PROVE  EffectIsAuthorised(c)
    OBVIOUS
  <2>1. Next /\ AccessInv
    BY DEF allVars, IInv
  <2>2. ServerStep(c)
    BY <2>1, CallMoves
  <2> QED BY <2>1, <2>2, Effects
<1> QED BY <1>1, Inductive, PTL DEF Spec, EffectsAuthorised

\* A call is answered ok only for what its token may ask (jwt.go:756-793,
\* route.go:173-207).
THEOREM Answering ==
  Spec => AnswersAuthorised
<1>1. IInv /\ [Next]_allVars =>
        [\A c \in Caller :
           TurnsOk(c) =>
             LET r == call[c]
                 name == NameIn(r.cred)
             IN  \/ r.handler \in Open
                 \/ ByAdmin(c)
                 \/ /\ seen[c].live
                    /\ \/ r.user = name
                       \/ r.tok # None /\ NameIn(r.tok) = name
                       \/ seen[c].owned
                       \/ r.handler = "Verify" /\ issued[r.cred].perm \in DOMAIN OldStrategy]_vars
  <2> SUFFICES ASSUME IInv, [Next]_allVars, vars' # vars, NEW c \in Caller, TurnsOk(c)
               PROVE  \/ call[c].handler \in Open
                      \/ ByAdmin(c)
                      \/ /\ seen[c].live
                         /\ \/ call[c].user = NameIn(call[c].cred)
                            \/ /\ call[c].tok # None
                               /\ NameIn(call[c].tok) = NameIn(call[c].cred)
                            \/ seen[c].owned
                            \/ /\ call[c].handler = "Verify"
                               /\ issued[call[c].cred].perm \in DOMAIN OldStrategy
    OBVIOUS
  <2>1. Next
    BY DEF allVars
  <2> QED BY <2>1, Answers
<1> QED BY <1>1, Inductive, PTL DEF Spec, AnswersAuthorised

\* The request of a method of AuthClient is routed to the handler that does
\* what the method is named for: answered ok, it was done (auth_client.go,
\* route.go:38-88).
THEOREM Promises ==
  Spec => OkMeansDone
<1>1. IInv /\ [Next]_allVars =>
        [\A c \in Caller : TurnsOk(c) /\ call[c].method # None => Promised(call[c])]_vars
  <2> SUFFICES ASSUME IInv, [Next]_allVars, vars' # vars, NEW c \in Caller,
                      TurnsOk(c), call[c].method # None
               PROVE  Promised(call[c])
    OBVIOUS
  <2>1. Next
    BY DEF allVars
  <2> QED BY <2>1, PromisesKept
<1> QED BY <1>1, Inductive, PTL DEF Spec, OkMeansDone
=============================================================================
