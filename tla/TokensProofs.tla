---------------------------- MODULE TokensProofs ----------------------------
(* Theorems about Tokens, for any users, permissions, tokens and requests. *)
EXTENDS Tokens, FiniteSetTheorems, TLAPS

-----------------------------------------------------------------------------
(* The keys of the store *)

LEMMA Keys ==
  /\ \A u \in User : UserKey(u) \in UserKeys /\ UserKey(u) \in Key
  /\ \A t \in Token : TokenKey(t) \in TokenKeys /\ TokenKey(t) \in Key
  /\ \A u \in User, t \in Token : UserKey(u) # TokenKey(t)
  /\ \A u, v \in User : UserKey(u) = UserKey(v) => u = v
  /\ \A s, t \in Token : TokenKey(s) = TokenKey(t) => s = t
  /\ \A k \in Key : (\E u \in User : k = UserKey(u)) \/ (\E t \in Token : k = TokenKey(t))
BY DEF UserKeys, TokenKeys, Key, UserKey, TokenKey

\* Each key holds nothing or a record of its own kind.
DbOK == /\ DOMAIN db = Key
        /\ \A u \in User : db[UserKey(u)] \in UserRec \cup {Nil}
        /\ \A t \in Token : db[TokenKey(t)] \in TokenRec \cup {Nil}

\* No key is lost, and a token keeps its user and its permission.
DbKept == /\ \A k \in Key : ~Absent(k) => ~Absent(k)'
          /\ \A t \in Token : ~Absent(TokenKey(t)) =>
               /\ db'[TokenKey(t)].name = db[TokenKey(t)].name
               /\ db'[TokenKey(t)].perm = db[TokenKey(t)].perm

PutsUser(u) == \E v \in UserRec : db' = Install(One(UserKey(u), v))
PutsToken(t, u, perm, deleted) ==
  db' = Install(One(TokenKey(t), [name |-> u, perm |-> perm, deleted |-> deleted]))

\* The operations of the store: a user is put; a token that was never stored is
\* issued to a user that was; a stored one is put back; a live one is marked.
StoreStep ==
  \/ db' = db
  \/ \E u \in User : PutsUser(u)
  \/ \E t \in Token, u \in User, perm \in Perm :
       Absent(TokenKey(t)) /\ ~Absent(UserKey(u)) /\ PutsToken(t, u, perm, FALSE)
  \/ \E t \in Token : /\ ~Absent(TokenKey(t))
                      /\ PutsToken(t, db[TokenKey(t)].name, db[TokenKey(t)].perm, FALSE)
  \/ \E t \in Token : /\ Live(TokenKey(t))
                      /\ PutsToken(t, db[TokenKey(t)].name, db[TokenKey(t)].perm, TRUE)

LEMMA RecordsAreNotNil == Nil \notin UserRec /\ Nil \notin TokenRec
BY ConstantsOK DEF UserRec, TokenRec

LEMMA PutsUserKept ==
  ASSUME DbOK, NEW u \in User, PutsUser(u)
  PROVE  /\ DbOK' /\ DbKept /\ ~Absent(UserKey(u))'
         /\ \A v \in User \ {u} : db'[UserKey(v)] = db[UserKey(v)]
         /\ \A t \in Token : db'[TokenKey(t)] = db[TokenKey(t)]
<1>1. PICK v \in UserRec : db' = Install(One(UserKey(u), v))
  BY DEF PutsUser
<1>2. db' = [x \in Key |-> IF x = UserKey(u) THEN v ELSE db[x]]
  BY <1>1, Keys DEF Install, One
<1>3. DOMAIN db' = Key /\ db'[UserKey(u)] = v
  BY <1>2, Keys
<1>4. \A w \in User \ {u} : db'[UserKey(w)] = db[UserKey(w)]
  BY <1>2, Keys
<1>5. \A t \in Token : db'[TokenKey(t)] = db[TokenKey(t)]
  BY <1>2, Keys
<1>6. ~Absent(UserKey(u))'
  BY <1>3, RecordsAreNotNil DEF Absent
<1>7. DbOK'
  BY <1>3, <1>4, <1>5 DEF DbOK
<1>8. DbKept
  BY <1>2, <1>5, RecordsAreNotNil DEF DbKept, Absent
<1>9. QED BY <1>4, <1>5, <1>6, <1>7, <1>8

LEMMA PutsTokenKept ==
  ASSUME DbOK, NEW t \in Token, NEW u \in User, NEW perm \in Perm, NEW d \in BOOLEAN,
         PutsToken(t, u, perm, d),
         ~Absent(TokenKey(t)) => db[TokenKey(t)].name = u /\ db[TokenKey(t)].perm = perm
  PROVE  /\ DbOK' /\ DbKept /\ ~Absent(TokenKey(t))'
         /\ db'[TokenKey(t)] = [name |-> u, perm |-> perm, deleted |-> d]
         /\ \A s \in Token \ {t} : db'[TokenKey(s)] = db[TokenKey(s)]
         /\ \A v \in User : db'[UserKey(v)] = db[UserKey(v)]
<1> DEFINE x == [name |-> u, perm |-> perm, deleted |-> d]
<1>1. x \in TokenRec /\ x.name = u /\ x.perm = perm
  BY DEF TokenRec
<1>2. db' = [y \in Key |-> IF y = TokenKey(t) THEN x ELSE db[y]]
  BY Keys DEF PutsToken, Install, One
<1> HIDE DEF x
<1>3. DOMAIN db' = Key /\ db'[TokenKey(t)] = x
  BY <1>2, Keys
<1>4. \A s \in Token \ {t} : db'[TokenKey(s)] = db[TokenKey(s)]
  BY <1>2, Keys
<1>5. \A v \in User : db'[UserKey(v)] = db[UserKey(v)]
  BY <1>2, Keys
<1>6. ~Absent(TokenKey(t))'
  BY <1>1, <1>3, RecordsAreNotNil DEF Absent
<1>7. DbOK'
  BY <1>1, <1>3, <1>4, <1>5 DEF DbOK
<1>8. DbKept
  BY <1>1, <1>2, <1>3, <1>4, RecordsAreNotNil DEF DbKept, Absent
<1>9. QED BY <1>3, <1>4, <1>5, <1>6, <1>7, <1>8 DEF x

LEMMA StoredToken ==
  ASSUME DbOK, NEW t \in Token, ~Absent(TokenKey(t))
  PROVE  /\ db[TokenKey(t)] \in TokenRec
         /\ db[TokenKey(t)].name \in User /\ db[TokenKey(t)].perm \in Perm
         /\ db[TokenKey(t)].deleted \in BOOLEAN
         /\ Erased(db[TokenKey(t)]) = [name |-> db[TokenKey(t)].name,
                                      perm |-> db[TokenKey(t)].perm, deleted |-> TRUE]
<1> DEFINE r == db[TokenKey(t)]
<1>1. r \in TokenRec
  BY DEF DbOK, Absent
<1> HIDE DEF r
<1>2. r.name \in User /\ r.perm \in Perm /\ r.deleted \in BOOLEAN
  BY <1>1 DEF TokenRec
<1>3. PICK e : e = Erased(r)
  OBVIOUS
<1>4. e = [name |-> r.name, perm |-> r.perm, deleted |-> TRUE]
  BY <1>1, <1>3 DEF TokenRec, Erased
<1>5. QED BY <1>1, <1>2, <1>3, <1>4 DEF r

LEMMA StoreStepKept ==
  ASSUME DbOK, StoreStep
  PROVE  DbOK' /\ DbKept
<1>1. CASE db' = db
  BY <1>1 DEF DbOK, DbKept, Absent
<1>2. ASSUME NEW t \in Token, Live(TokenKey(t)) \/ ~Absent(TokenKey(t)), NEW d \in BOOLEAN,
             PutsToken(t, db[TokenKey(t)].name, db[TokenKey(t)].perm, d)
      PROVE  DbOK' /\ DbKept
  <2>1. ~Absent(TokenKey(t))
    BY <1>2 DEF Live, Absent
  <2>2. QED BY <1>2, <2>1, StoredToken, PutsTokenKept
<1>3. QED BY <1>1, <1>2, PutsUserKept, PutsTokenKept DEF StoreStep

\* A token is only stored for a user that is.
LEMMA StoreStepOwners ==
  ASSUME DbOK, StoreStep, OwnersKnown
  PROVE  OwnersKnown'
<1>1. DbOK' /\ DbKept
  BY StoreStepKept
<1>2. \A u \in User : db[UserKey(u)] # Nil => db'[UserKey(u)] # Nil
  BY <1>1, Keys DEF DbKept, Absent
<1>3. ASSUME NEW t \in Token, db'[TokenKey(t)] # Nil
      PROVE  db'[UserKey(db'[TokenKey(t)].name)] # Nil
  <2>1. CASE ~Absent(TokenKey(t))
    <3>1. db'[TokenKey(t)].name = db[TokenKey(t)].name
      BY <1>1, <2>1 DEF DbKept
    <3>2. db[TokenKey(t)].name \in User /\ db[UserKey(db[TokenKey(t)].name)] # Nil
      BY <2>1, StoredToken DEF OwnersKnown, Absent
    <3>3. QED BY <1>2, <3>1, <3>2
  <2>2. CASE Absent(TokenKey(t))
    <3>1. ASSUME NEW s \in Token, ~Absent(TokenKey(s)), NEW d \in BOOLEAN,
                 PutsToken(s, db[TokenKey(s)].name, db[TokenKey(s)].perm, d)
          PROVE  FALSE
      BY <1>3, <2>2, <3>1, StoredToken, PutsTokenKept DEF Absent
    <3>2. ASSUME NEW s \in Token, NEW u \in User, NEW perm \in Perm,
                 Absent(TokenKey(s)), ~Absent(UserKey(u)), PutsToken(s, u, perm, FALSE)
          PROVE  db'[UserKey(db'[TokenKey(t)].name)] # Nil
      <4>1. s = t /\ db'[TokenKey(s)] = [name |-> u, perm |-> perm, deleted |-> FALSE]
        BY <1>3, <2>2, <3>2, PutsTokenKept DEF Absent
      <4>2. db'[TokenKey(t)].name = u
        BY <4>1
      <4>3. QED BY <1>2, <3>2, <4>2 DEF Absent
    <3>3. \A s \in Token : Live(TokenKey(s)) => ~Absent(TokenKey(s))
      BY DEF Live, Absent
    <3>4. ASSUME NEW u \in User, PutsUser(u) PROVE FALSE
      BY <1>3, <2>2, <3>4, PutsUserKept DEF Absent
    <3>5. QED BY <1>3, <2>2, <3>1, <3>2, <3>3, <3>4 DEF StoreStep, Absent
  <2>3. QED BY <2>1, <2>2
<1>4. QED BY <1>3 DEF OwnersKnown, Absent

-----------------------------------------------------------------------------
(* Transactions *)

TxnsOK ==
  /\ DOMAIN txn = Txn
  /\ \A t \in Txn : txn[t] = [open |-> txn[t].open, reads |-> txn[t].reads,
       writes |-> txn[t].writes, dirty |-> txn[t].dirty, snap |-> txn[t].snap]

\* What the steps of others do to the transaction of q.
Kept(q) ==
  /\ txn'[q].reads = txn[q].reads
  /\ txn'[q].writes = txn[q].writes
  /\ txn[q].dirty \subseteq txn'[q].dirty
  /\ \A k \in txn[q].reads : db'[k] = db[k] \/ k \in txn'[q].dirty

LEMMA NotifyKeeps ==
  ASSUME TxnsOK, NEW q \in Req, NEW w, db' = Install(w),
         txn'[q] = Notify(DOMAIN w)[q], txn[q].reads \subseteq Key
  PROVE  Kept(q)
<1>1. txn'[q] = [txn[q] EXCEPT !.dirty = @ \cup (DOMAIN w \cap Watched(q))]
  BY DEF Notify, Txn
<1>2. /\ txn'[q].reads = txn[q].reads
      /\ txn'[q].writes = txn[q].writes
      /\ txn'[q].dirty = txn[q].dirty \cup (DOMAIN w \cap Watched(q))
  BY <1>1 DEF TxnsOK, Txn
<1>3. \A k \in txn[q].reads : db'[k] = db[k] \/ k \in txn'[q].dirty
  BY <1>2 DEF Install, Watched
<1>4. QED BY <1>2, <1>3 DEF Kept

\* What transactions learn of a commit leaves them what they are.
LEMMA NotifyOK ==
  ASSUME TxnsOK, NEW ks
  PROVE  /\ DOMAIN Notify(ks) = Txn
         /\ \A t \in Txn : Notify(ks)[t] =
              [open |-> Notify(ks)[t].open, reads |-> Notify(ks)[t].reads,
               writes |-> Notify(ks)[t].writes, dirty |-> Notify(ks)[t].dirty,
               snap |-> Notify(ks)[t].snap]
<1> DEFINE N == Notify(ks)
<1>1. DOMAIN N = Txn
  BY DEF Notify
<1>2. ASSUME NEW t \in Txn
      PROVE  N[t] = [open |-> N[t].open, reads |-> N[t].reads,
                     writes |-> N[t].writes, dirty |-> N[t].dirty, snap |-> N[t].snap]
  <2>1. N[t] = [txn[t] EXCEPT !.dirty = @ \cup (ks \cap Watched(t))]
    BY DEF Notify
  <2> HIDE DEF N
  <2>2. QED BY <2>1 DEF TxnsOK
<1>3. QED BY <1>1, <1>2

-----------------------------------------------------------------------------
(* One request moves *)

\* What each request has at hand.
RecOK(r) ==
  /\ r \in ReqRec
  /\ r.pc \in {"PutUser", "PutToken"} => r.user \in User
  /\ r.pc \in {"PutToken", "Remove", "Save"} => r.token \in Token
  /\ r.pc \in {"PutToken", "Gauge", "Remove"} => r.perm \in Perm

\* When nothing runs, when the startup runs and when requests run.
ProcOK ==
  /\ proc \in {"down", "starting", "serving"}
  /\ proc = "down" => req = [p \in Actor |-> Idle]
  /\ proc # "starting" => At(Boot, "idle")
  /\ proc # "serving" => \A p \in Req : At(p, "idle")

LEMMA TypeParts ==
  TypeOK <=> /\ DbOK
             /\ req \in [Actor -> ReqRec] /\ \A p \in Actor : RecOK(req[p])
             /\ gauge \in [Perm -> Int]
             /\ file \in Token \cup {Nil}
             /\ ProcOK
<1>1. DbOK <=> /\ DOMAIN db = Key
               /\ \A k \in UserKeys : db[k] \in UserRec \cup {Nil}
               /\ \A k \in TokenKeys : db[k] \in TokenRec \cup {Nil}
  BY DEF DbOK, UserKeys, TokenKeys
<1>2. req \in [Actor -> ReqRec] => \A p \in Actor : req[p] \in ReqRec
  OBVIOUS
<1>3. QED BY <1>1, <1>2 DEF TypeOK, ProcOK, RecOK

LEMMA TypeNext ==
  ASSUME DbOK', req' \in [Actor -> ReqRec], \A p \in Actor : RecOK(req'[p]),
         gauge' \in [Perm -> Int], file' \in Token \cup {Nil}, ProcOK'
  PROVE  TypeOK'
<1>1. /\ DOMAIN db' = Key
      /\ \A k \in UserKeys : db'[k] \in UserRec \cup {Nil}
      /\ \A k \in TokenKeys : db'[k] \in TokenRec \cup {Nil}
  BY DEF DbOK, UserKeys, TokenKeys
<1>2. QED BY <1>1 DEF TypeOK, ProcOK, RecOK

LEMMA IdleOK ==
  /\ RecOK(Idle)
  /\ Idle.pc = "idle" /\ Idle.user = Nil /\ Idle.perm = Nil /\ Idle.token = Nil
BY DEF RecOK, Idle, ReqRec, PC

LEMMA Actors == Boot \in Actor /\ Boot \notin Req /\ Req \subseteq Actor
BY ConstantsOK DEF Actor

\* p moves to r.
Moves(p, r) == RecOK(r) /\ req' = [req EXCEPT ![p] = r]

LEMMA MovesReq ==
  ASSUME TypeOK, NEW p \in Actor, NEW r, Moves(p, r)
  PROVE  /\ req' \in [Actor -> ReqRec] /\ \A q \in Actor : RecOK(req'[q])
         /\ req'[p] = r
         /\ \A q \in Actor \ {p} : req'[q] = req[q]
BY TypeParts DEF Moves, RecOK

\* A request that is at neither of its critical steps relies on nothing.
LEMMA RestingInv ==
  ASSUME NEW p, req'[p].pc \notin {"PutToken", "Remove"}
  PROVE  RequestInv(p)'
BY DEF RequestInv, At

\* A request that does not move relies on what it did, as long as its
\* transaction is kept and nobody takes or stores the token it is to put.
LEMMA FrameInv ==
  ASSUME DbKept, NEW q \in Actor, RecOK(req[q]), RequestInv(q), req'[q] = req[q],
         At(q, "Remove") => Kept(q),
         At(q, "PutToken") =>
           /\ Absent(TokenKey(req[q].token)) => Absent(TokenKey(req[q].token))'
           /\ \A s \in Actor \ {q} : req'[s].token = req[q].token =>
                ~Absent(TokenKey(req[q].token))'
  PROVE  RequestInv(q)'
<1> DEFINE u == req[q].user
           k == TokenKey(req[q].token)
<1>1. At(q, "PutToken") =>
        /\ ~Absent(UserKey(u))'
        /\ ~Absent(k)' => db'[k].name = u /\ db'[k].perm = req[q].perm
        /\ \A s \in Actor \ {q} : req'[s].token = req[q].token => ~Absent(k)'
  BY Keys DEF RecOK, RequestInv, DbKept, At
<1>2. At(q, "Remove") =>
        /\ q # Boot
        /\ ~Absent(k)' /\ db'[k].perm = req[q].perm
        /\ txn'[q].reads = {k}
        /\ \/ Live(k)' /\ txn'[q].writes = One(k, Erased(db'[k]))
           \/ k \in txn'[q].dirty
  <2> SUFFICES ASSUME At(q, "Remove")
               PROVE  /\ q # Boot
                      /\ ~Absent(k)' /\ db'[k].perm = req[q].perm
                      /\ txn'[q].reads = {k}
                      /\ \/ Live(k)' /\ txn'[q].writes = One(k, Erased(db'[k]))
                         \/ k \in txn'[q].dirty
    OBVIOUS
  <2>1. req[q].token \in Token /\ k \in Key
    BY Keys DEF RecOK, At
  <2>2. /\ q # Boot /\ ~Absent(k) /\ db[k].perm = req[q].perm /\ txn[q].reads = {k}
        /\ \/ Live(k) /\ txn[q].writes = One(k, Erased(db[k]))
           \/ k \in txn[q].dirty
    BY DEF RequestInv
  <2>3. ~Absent(k)' /\ db'[k].perm = req[q].perm
    BY <2>1, <2>2 DEF DbKept
  <2>4. \/ db'[k] = db[k] /\ txn'[q].writes = txn[q].writes
        \/ k \in txn'[q].dirty
    BY <2>2 DEF Kept
  <2>5. CASE k \in txn'[q].dirty
    BY <2>2, <2>3, <2>5 DEF Kept
  <2>6. CASE db'[k] = db[k] /\ txn'[q].writes = txn[q].writes
    <3>1. k \in txn[q].dirty => k \in txn'[q].dirty
      BY DEF Kept
    <3>2. Live(k) => Live(k)'
      BY <2>6 DEF Live
    <3>3. QED BY <2>2, <2>3, <2>6, <3>1, <3>2 DEF Kept
  <2>7. QED BY <2>4, <2>5, <2>6
<1>3. QED BY <1>1, <1>2 DEF RequestInv, At

\* The others rely on what they did.
OthersKept(p) ==
  \A q \in Req \ {p} :
    /\ At(q, "Remove") => Kept(q)
    /\ At(q, "PutToken") =>
         /\ Absent(TokenKey(req[q].token)) => Absent(TokenKey(req[q].token))'
         /\ req'[p].token = req[q].token => ~Absent(TokenKey(req[q].token))'

\* A request moves while the server serves.
LEMMA ReqStepInv ==
  ASSUME IInv, StoreStep, NEW p \in Req, NEW r, Moves(p, r),
         proc = "serving", proc' = proc, file' = file, gauge' \in [Perm -> Int],
         TxnsOK', OthersKept(p), RequestInv(p)'
  PROVE  IInv'
<1> USE Actors
<1>1. DbOK' /\ DbKept
  BY TypeParts, StoreStepKept DEF IInv
<1>2. /\ req' \in [Actor -> ReqRec] /\ \A q \in Actor : RecOK(req'[q])
      /\ req'[p] = r /\ \A q \in Actor \ {p} : req'[q] = req[q]
  BY MovesReq DEF IInv
<1>3. At(Boot, "idle") /\ At(Boot, "idle")'
  BY <1>2, TypeParts DEF IInv, ProcOK, At
<1>4. TypeOK'
  <2>1. ProcOK'
    BY <1>3 DEF ProcOK
  <2>2. file' \in Token \cup {Nil}
    BY TypeParts DEF IInv
  <2>3. QED BY <1>1, <1>2, <2>1, <2>2, TypeNext
<1>5. ASSUME NEW q \in Req \ {p} PROVE RequestInv(q)'
  <2>1. RecOK(req[q]) /\ RequestInv(q) /\ req'[q] = req[q]
    BY <1>2, TypeParts DEF IInv
  <2>2. ASSUME At(q, "PutToken"), NEW s \in Actor \ {q}, req'[s].token = req[q].token
        PROVE  ~Absent(TokenKey(req[q].token))'
    <3>1. CASE s = p
      BY <2>2, <3>1 DEF OthersKept
    <3>2. CASE s # p
      <4>1. ~Absent(TokenKey(req[q].token))
        BY <1>2, <2>1, <2>2, <3>2 DEF RequestInv
      <4>2. req[q].token \in Token
        BY <2>1, <2>2 DEF RecOK, At
      <4>3. QED BY <1>1, <2>1, <4>1, <4>2, Keys DEF DbKept
    <3>3. QED BY <3>1, <3>2
  <2>3. QED BY <1>1, <2>1, <2>2, FrameInv DEF OthersKept
<1>6. RequestInv(Boot)' /\ BootInv'
  BY <1>3, RestingInv DEF At, BootInv
<1>7. \A q \in Actor : RequestInv(q)'
  BY <1>5, <1>6 DEF Actor
<1>8. OwnersKnown'
  BY TypeParts, StoreStepOwners DEF IInv
<1>9. QED BY <1>4, <1>6, <1>7, <1>8 DEF IInv, TxnsOK

\* The startup moves while nothing else runs.
LEMMA BootStepInv ==
  ASSUME IInv, StoreStep, NEW r, Moves(Boot, r),
         proc = "starting", proc' = "starting" \/ (proc' = "serving" /\ r.pc = "idle"),
         file' \in Token \cup {Nil}, gauge' \in [Perm -> Int],
         TxnsOK', RequestInv(Boot)', BootInv'
  PROVE  IInv'
<1> USE Actors
<1>1. DbOK' /\ DbKept
  BY TypeParts, StoreStepKept DEF IInv
<1>2. /\ req' \in [Actor -> ReqRec] /\ \A q \in Actor : RecOK(req'[q])
      /\ req'[Boot] = r /\ \A q \in Actor \ {Boot} : req'[q] = req[q]
  BY MovesReq DEF IInv
<1>3. \A q \in Req : req'[q] = req[q] /\ req[q].pc = "idle"
  BY <1>2, TypeParts DEF IInv, ProcOK, At
<1>4. TypeOK'
  <2>1. ProcOK'
    BY <1>2, <1>3 DEF ProcOK, At
  <2>2. QED BY <1>1, <1>2, <2>1, TypeNext
<1>5. \A q \in Req : RequestInv(q)'
  BY <1>3, RestingInv
<1>6. \A q \in Actor : RequestInv(q)'
  BY <1>5 DEF Actor
<1>7. OwnersKnown'
  BY TypeParts, StoreStepOwners DEF IInv
<1>8. QED BY <1>4, <1>6, <1>7 DEF IInv, TxnsOK

\* The process ends: nothing is left but the database and the token file.
LEMMA ExitInv ==
  ASSUME IInv, NEW a, Exit(a)
  PROVE  IInv'
<1> USE Actors
<1>1. \A q \in Actor : req'[q] = Idle
  BY DEF Exit
<1>2. TypeOK'
  <2>1. DbOK'
    BY TypeParts DEF IInv, Exit, DbOK
  <2>2. req' \in [Actor -> ReqRec] /\ \A q \in Actor : RecOK(req'[q])
    BY <1>1, IdleOK DEF Exit, RecOK
  <2>3. gauge' \in [Perm -> Int] /\ file' \in Token \cup {Nil}
    BY TypeParts DEF IInv, Exit
  <2>4. ProcOK'
    BY <1>1, IdleOK DEF ProcOK, Exit, At
  <2>5. QED BY <2>1, <2>2, <2>3, <2>4, TypeNext
<1>3. TxnsOK'
  BY DEF Exit, TxnsOK, NoTxn
<1>4. \A q \in Actor : RequestInv(q)'
  BY <1>1, IdleOK, RestingInv
<1>5. BootInv'
  BY <1>1, IdleOK DEF BootInv, At
<1>6. OwnersKnown'
  BY DEF IInv, Exit, OwnersKnown, Absent
<1>7. QED BY <1>2, <1>3, <1>4, <1>5, <1>6 DEF IInv, TxnsOK

\* Who may move in which state of the process.
LEMMA Serving ==
  ASSUME TypeOK, NEW p \in Req, proc = "serving" \/ ~At(p, "idle")
  PROVE  proc = "serving"
BY TypeParts DEF ProcOK

LEMMA Starting ==
  ASSUME TypeOK, ~At(Boot, "idle")
  PROVE  proc = "starting"
BY TypeParts DEF ProcOK

LEMMA GotoMoves ==
  ASSUME NEW p, NEW r, RecOK(r), Goto(p, r)
  PROVE  Moves(p, r) /\ gauge' = gauge /\ proc' = proc /\ file' = file
BY DEF Goto, Moves

LEMMA RespondMoves ==
  ASSUME NEW p, NEW a, Respond(p, a)
  PROVE  Moves(p, Idle) /\ gauge' = gauge /\ proc' = proc /\ file' = file
BY IdleOK DEF Respond, Moves

\* A step that only reads.
LEMMA ViewStep ==
  ASSUME IInv, View
  PROVE  StoreStep /\ TxnsOK' /\ \A q \in Req : Kept(q)
BY DEF View, StoreStep, IInv, TxnsOK, Kept

LEMMA ReqViewInv ==
  ASSUME IInv, NEW p \in Req, NEW r, Moves(p, r), View,
         proc = "serving" \/ ~At(p, "idle"), proc' = proc, file' = file,
         gauge' \in [Perm -> Int], RequestInv(p)',
         \A q \in Req \ {p} : r.token = req[q].token /\ At(q, "PutToken") =>
           ~Absent(TokenKey(req[q].token))
  PROVE  IInv'
<1>1. StoreStep /\ TxnsOK' /\ \A q \in Req : Kept(q)
  BY ViewStep
<1>2. req'[p] = r /\ \A q \in Actor \ {p} : req'[q] = req[q]
  BY MovesReq, Actors DEF IInv
<1>3. OthersKept(p)
  BY <1>1, <1>2, Actors DEF OthersKept, Absent, View
<1>4. QED BY <1>1, <1>3, Serving, ReqStepInv DEF IInv

LEMMA BootViewInv ==
  ASSUME IInv, NEW r, Moves(Boot, r), View, ~At(Boot, "idle"), proc' = proc,
         file' = file, gauge' \in [Perm -> Int], RequestInv(Boot)', BootInv'
  PROVE  IInv'
<1>1. StoreStep /\ TxnsOK'
  BY ViewStep
<1>2. proc = "starting" /\ proc' = "starting" /\ file' \in Token \cup {Nil}
  BY Starting, TypeParts DEF IInv
<1>3. QED BY <1>1, <1>2, BootStepInv

\* Any actor answers, or fails, without a change of the store.
LEMMA AnswerInv ==
  ASSUME IInv, NEW p \in Req, NEW a, proc = "serving" \/ ~At(p, "idle"),
         View, Respond(p, a)
  PROVE  IInv'
<1>1. Moves(p, Idle) /\ gauge' = gauge /\ proc' = proc /\ file' = file
  BY RespondMoves
<1>2. RequestInv(p)'
  BY <1>1, MovesReq, Actors, IdleOK, RestingInv DEF IInv
<1>3. \A q \in Req : At(q, "PutToken") => req[q].token # Nil
  BY TypeParts, ConstantsOK, Actors DEF IInv, RecOK, At
<1>4. gauge' \in [Perm -> Int]
  BY <1>1, TypeParts DEF IInv
<1>5. QED BY <1>1, <1>2, <1>3, <1>4, IdleOK, ReqViewInv

LEMMA FailInv ==
  ASSUME IInv, NEW p \in Actor, proc = "serving" \/ ~At(p, "idle"), Fail(p)
  PROVE  IInv'
BY AnswerInv, ExitInv DEF Fail, Actor

\* A step to where a request relies on nothing.
LEMMA GoInv ==
  ASSUME IInv, NEW p \in Actor, NEW r, RecOK(r), r.token = Nil,
         r.pc \notin {"PutToken", "Remove", "Gauge", "Save"},
         proc = "serving" => p \in Req, proc = "serving" \/ ~At(p, "idle"),
         View, Goto(p, r)
  PROVE  IInv'
<1>1. Moves(p, r) /\ gauge' = gauge /\ proc' = proc /\ file' = file
  BY GotoMoves
<1>2. req'[p] = r /\ gauge' \in [Perm -> Int]
  BY <1>1, MovesReq, TypeParts DEF IInv
<1>3. RequestInv(p)'
  BY <1>2, RestingInv
<1>4. CASE p \in Req
  <2>1. \A q \in Req : At(q, "PutToken") => req[q].token # Nil
    BY TypeParts, ConstantsOK, Actors DEF IInv, RecOK, At
  <2>2. QED BY <1>1, <1>2, <1>3, <1>4, <2>1, ReqViewInv
<1>5. CASE p = Boot
  <2>1. ~At(Boot, "idle") /\ BootInv'
    BY <1>2, <1>5, Actors DEF BootInv, At
  <2>2. QED BY <1>1, <1>2, <1>3, <1>5, <2>1, BootViewInv
<1>6. QED BY <1>4, <1>5 DEF Actor

LEMMA BootIsNotServing ==
  ASSUME TypeOK, NEW p \in Actor, ~At(p, "idle")
  PROVE  proc = "serving" => p \in Req
BY TypeParts DEF ProcOK, Actor

\* A put commits at once; what it tells the others keeps their transactions.
LEMMA PutStep ==
  ASSUME IInv, NEW w, Put(w)
  PROVE  /\ TxnsOK'
         /\ \A q \in Req : At(q, "Remove") => Kept(q)
<1>1. TxnsOK
  BY DEF IInv, TxnsOK
<1>2. TxnsOK'
  BY <1>1, NotifyOK DEF Put, TxnsOK
<1>3. ASSUME NEW q \in Req, At(q, "Remove") PROVE Kept(q)
  <2>1. txn[q].reads = {TokenKey(req[q].token)} /\ req[q].token \in Token
    BY <1>3, Actors, TypeParts DEF IInv, RequestInv, RecOK, At
  <2>2. txn[q].reads \subseteq Key
    BY <2>1, Keys
  <2>3. QED BY <1>1, <2>2, NotifyKeeps DEF Put
<1>4. QED BY <1>2, <1>3

-----------------------------------------------------------------------------
(* The steps *)

LEMMA CreateUserOfInv ==
  ASSUME IInv, NEW p \in Actor, NEW u \in User, proc = "serving" => p \in Req,
         proc = "serving" \/ ~At(p, "idle"), CreateUserOf(p, u)
  PROVE  IInv'
<1> DEFINE r == [Idle EXCEPT !.pc = "PutUser", !.user = u]
<1>1. Fail(p) \/ (View /\ Goto(p, r))
  BY DEF CreateUserOf
<1>2. r.pc = "PutUser" /\ r.token = Nil /\ RecOK(r)
  BY DEF Idle, RecOK, ReqRec, PC
<1> HIDE DEF r
<1>3. QED BY <1>1, <1>2, FailInv, GoInv

LEMMA PutUserInv ==
  ASSUME IInv, NEW p \in Actor, PutUser(p)
  PROVE  IInv'
<1> DEFINE u == req[p].user
           w == One(UserKey(u), [deleted |-> FALSE])
           g == [Idle EXCEPT !.pc = "GenerateDefault"]
<1>1. At(p, "PutUser") /\ Put(w)
  BY DEF PutUser
<1>2. u \in User
  BY <1>1, TypeParts DEF IInv, RecOK, At
<1>3. PutsUser(u) /\ DbOK
  BY <1>1, TypeParts DEF PutsUser, Put, UserRec, IInv
<1>4. StoreStep
  BY <1>2, <1>3 DEF StoreStep
<1>5. TxnsOK' /\ \A q \in Req : At(q, "Remove") => Kept(q)
  BY <1>1, PutStep
<1>6. \A t \in Token : db'[TokenKey(t)] = db[TokenKey(t)]
  BY <1>2, <1>3, PutsUserKept
<1>7. CASE p \in Req /\ Respond(p, "ok")
  <2>1. Moves(p, Idle) /\ gauge' = gauge /\ proc' = proc /\ file' = file
    BY <1>7, RespondMoves
  <2>2. req'[p] = Idle /\ (\A q \in Actor \ {p} : req'[q] = req[q]) /\ gauge' \in [Perm -> Int]
    BY <2>1, MovesReq, TypeParts DEF IInv
  <2>3. RequestInv(p)' /\ proc = "serving"
    BY <1>1, <1>7, <2>2, IdleOK, RestingInv, Serving DEF IInv, At
  <2>4. \A q \in Req : At(q, "PutToken") => req[q].token \in Token
    BY TypeParts, Actors DEF IInv, RecOK, At
  <2>5. OthersKept(p)
    BY <1>5, <1>6, <2>2, <2>4, IdleOK, ConstantsOK, Actors DEF OthersKept, Absent
  <2>6. QED BY <1>4, <1>5, <1>7, <2>1, <2>2, <2>3, <2>5, ReqStepInv
<1>8. CASE p = Boot /\ Goto(Boot, g)
  <2>1. g.pc = "GenerateDefault" /\ RecOK(g)
    BY DEF Idle, RecOK, ReqRec, PC
  <2> HIDE DEF g
  <2>2. Moves(Boot, g) /\ gauge' = gauge /\ proc' = proc /\ file' = file
    BY <1>8, <2>1, GotoMoves
  <2>3. req'[Boot] = g /\ gauge' \in [Perm -> Int] /\ file' \in Token \cup {Nil}
    BY <2>2, MovesReq, TypeParts, Actors DEF IInv
  <2>4. RequestInv(Boot)' /\ BootInv'
    BY <2>1, <2>3, RestingInv DEF BootInv, At
  <2>5. proc = "starting" /\ proc' = "starting"
    BY <1>1, <1>8, <2>2, Starting DEF IInv, At
  <2>6. QED BY <1>4, <1>5, <2>2, <2>3, <2>4, <2>5, BootStepInv
<1>9. QED BY <1>7, <1>8 DEF PutUser, Actor

LEMMA DeleteUserInv ==
  ASSUME IInv, NEW p \in Req, NEW u \in User, DeleteUser(p, u)
  PROVE  IInv'
<1> USE Actors
<1> DEFINE w == One(UserKey(u), [deleted |-> TRUE])
<1>1. proc = "serving"
  BY DEF DeleteUser, Starts
<1>2. CASE Fail(p)
  BY <1>1, <1>2, FailInv
<1>3. CASE Put(w) /\ Respond(p, "ok")
  <2>1. PutsUser(u) /\ DbOK
    BY <1>3, TypeParts DEF PutsUser, Put, UserRec, IInv
  <2>2. StoreStep
    BY <2>1 DEF StoreStep
  <2>3. TxnsOK' /\ \A q \in Req : At(q, "Remove") => Kept(q)
    BY <1>3, PutStep
  <2>4. \A t \in Token : db'[TokenKey(t)] = db[TokenKey(t)]
    BY <2>1, PutsUserKept
  <2>5. Moves(p, Idle) /\ gauge' = gauge /\ proc' = proc /\ file' = file
    BY <1>3, RespondMoves
  <2>6. req'[p] = Idle /\ (\A q \in Actor \ {p} : req'[q] = req[q]) /\ gauge' \in [Perm -> Int]
    BY <2>5, MovesReq, TypeParts DEF IInv
  <2>7. RequestInv(p)'
    BY <2>6, IdleOK, RestingInv
  <2>8. \A q \in Req : At(q, "PutToken") => req[q].token \in Token
    BY TypeParts DEF IInv, RecOK, At
  <2>9. OthersKept(p)
    BY <2>3, <2>4, <2>6, <2>8, IdleOK, ConstantsOK DEF OthersKept, Absent
  <2>10. QED BY <1>1, <2>2, <2>3, <2>5, <2>6, <2>7, <2>9, ReqStepInv
<1>4. QED BY <1>2, <1>3 DEF DeleteUser

\* A token is signed: nobody else holds it and it was never stored.
LEMMA GenerateTokenOfInv ==
  ASSUME IInv, NEW p \in Actor, NEW u \in User, NEW perm \in Perm,
         proc = "serving" => p \in Req, proc = "serving" \/ ~At(p, "idle"),
         p = Boot => u = Default /\ perm = Admin,
         GenerateTokenOf(p, u, perm)
  PROVE  IInv'
<1> USE Actors
<1>1. CASE Fail(p)
  BY <1>1, FailInv
<1>2. ASSUME NEW t \in Token, Live(UserKey(u)), View, Fresh(t),
             Goto(p, [Idle EXCEPT !.pc = "PutToken", !.user = u, !.perm = perm, !.token = t])
      PROVE  IInv'
  <2> DEFINE r == [Idle EXCEPT !.pc = "PutToken", !.user = u, !.perm = perm, !.token = t]
  <2>1. r.pc = "PutToken" /\ r.user = u /\ r.perm = perm /\ r.token = t /\ RecOK(r)
    BY DEF Idle, RecOK, ReqRec, PC
  <2>2. Goto(p, r)
    BY <1>2
  <2> HIDE DEF r
  <2>3. Moves(p, r) /\ gauge' = gauge /\ proc' = proc /\ file' = file
    BY <2>1, <2>2, GotoMoves
  <2>4. req'[p] = r /\ (\A q \in Actor \ {p} : req'[q] = req[q]) /\ gauge' \in [Perm -> Int]
    BY <2>3, MovesReq, TypeParts DEF IInv
  <2>5. /\ View /\ db' = db /\ ~Absent(UserKey(u)) /\ Absent(TokenKey(t))
        /\ \A q \in Actor : req[q].token # t
    BY <1>2 DEF View, Live, Absent, Fresh
  <2>6. RequestInv(p)'
    BY <2>1, <2>4, <2>5 DEF RequestInv, At, Absent
  <2>7. CASE p \in Req
    <3>1. \A q \in Req \ {p} : ~(r.token = req[q].token /\ At(q, "PutToken"))
      BY <2>1, <2>5
    <3>2. QED BY <2>3, <2>4, <2>5, <2>6, <2>7, <3>1, ReqViewInv
  <2>8. CASE p = Boot
    <3>1. BootInv'
      BY <2>1, <2>4, <2>8 DEF BootInv, At
    <3>2. QED BY <1>2, <2>3, <2>4, <2>6, <2>8, <3>1, BootViewInv
  <2>9. QED BY <2>7, <2>8 DEF Actor
<1>3. QED BY <1>1, <1>2 DEF GenerateTokenOf

\* What GenerateToken and RecoverToken put: a new token of a user that was
\* created, or a stored one as it was.
LEMMA PutTokenStep ==
  ASSUME IInv, NEW p \in Actor, PutToken(p)
  PROVE  LET r == req[p]
             k == TokenKey(r.token)
         IN /\ r.token \in Token /\ r.user \in User /\ r.perm \in Perm
            /\ PutsToken(r.token, r.user, r.perm, FALSE)
            /\ ~Absent(UserKey(r.user))
            /\ ~Absent(k) => db[k].name = r.user /\ db[k].perm = r.perm
            /\ StoreStep
<1> DEFINE r == req[p]
           k == TokenKey(r.token)
<1>1. At(p, "PutToken")
  BY DEF PutToken
<1>2. r.token \in Token /\ r.user \in User /\ r.perm \in Perm
  BY <1>1, TypeParts DEF IInv, RecOK, At
<1>3. PutsToken(r.token, r.user, r.perm, FALSE)
  BY DEF PutToken, Put, PutsToken
<1>4. /\ ~Absent(UserKey(r.user))
      /\ ~Absent(k) => db[k].name = r.user /\ db[k].perm = r.perm
  BY <1>1 DEF IInv, RequestInv
<1>5. StoreStep
  <2>1. CASE Absent(k)
    BY <1>2, <1>3, <1>4, <2>1 DEF StoreStep
  <2>2. CASE ~Absent(k)
    <3>1. PutsToken(r.token, db[k].name, db[k].perm, FALSE)
      BY <1>3, <1>4, <2>2
    <3>2. QED BY <1>2, <2>2, <3>1 DEF StoreStep
  <2>3. QED BY <2>1, <2>2
<1>6. QED BY <1>2, <1>3, <1>4, <1>5

LEMMA PutTokenInv ==
  ASSUME IInv, NEW p \in Actor, PutToken(p)
  PROVE  IInv'
<1> USE Actors
<1> DEFINE r == req[p]
           k == TokenKey(r.token)
           w == One(k, [name |-> r.user, perm |-> r.perm, deleted |-> FALSE])
           g == [r EXCEPT !.pc = "Gauge", !.delta = 1]
<1>1. At(p, "PutToken") /\ Put(w) /\ Goto(p, g)
  BY DEF PutToken
<1>2. /\ r.token \in Token /\ r.user \in User /\ r.perm \in Perm
      /\ PutsToken(r.token, r.user, r.perm, FALSE)
      /\ ~Absent(k) => db[k].name = r.user /\ db[k].perm = r.perm
      /\ StoreStep
  BY PutTokenStep
<1>3. DbOK /\ r \in ReqRec
  BY TypeParts DEF IInv
<1>4. /\ db'[k] = [name |-> r.user, perm |-> r.perm, deleted |-> FALSE]
      /\ db'[k] # Nil
      /\ \A s \in Token \ {r.token} : db'[TokenKey(s)] = db[TokenKey(s)]
  <2>1. /\ db'[TokenKey(r.token)] = [name |-> r.user, perm |-> r.perm, deleted |-> FALSE]
        /\ \A s \in Token \ {r.token} : db'[TokenKey(s)] = db[TokenKey(s)]
    BY <1>2, <1>3, PutsTokenKept
  <2>2. PICK x : x = [name |-> r.user, perm |-> r.perm, deleted |-> FALSE]
    OBVIOUS
  <2>3. x \in TokenRec
    BY <1>2, <2>2 DEF TokenRec
  <2>4. QED BY <2>1, <2>2, <2>3, RecordsAreNotNil DEF Absent
<1>5. /\ g.pc = "Gauge" /\ g.token = r.token /\ g.user = r.user /\ g.perm = r.perm
      /\ RecOK(g)
  BY <1>2, <1>3 DEF RecOK, ReqRec, PC
<1> HIDE DEF g
<1>6. Moves(p, g) /\ gauge' = gauge /\ proc' = proc /\ file' = file
  BY <1>1, <1>5, GotoMoves
<1>7. /\ req'[p] = g /\ (\A q \in Actor \ {p} : req'[q] = req[q])
      /\ gauge' \in [Perm -> Int] /\ file' \in Token \cup {Nil}
  BY <1>6, MovesReq, TypeParts DEF IInv
<1>8. RequestInv(p)'
  BY <1>5, <1>7, RestingInv
<1>9. TxnsOK' /\ \A q \in Req : At(q, "Remove") => Kept(q)
  BY <1>1, PutStep
<1>10. CASE p \in Req
  <2>1. proc = "serving"
    BY <1>1, <1>10, Serving DEF IInv, At
  <2>2. OthersKept(p)
    <3>1. ASSUME NEW q \in Req \ {p}, At(q, "PutToken")
          PROVE  /\ Absent(TokenKey(req[q].token)) => Absent(TokenKey(req[q].token))'
                 /\ req'[p].token = req[q].token => ~Absent(TokenKey(req[q].token))'
      <4>1. req[q].token \in Token /\ req'[q] = req[q]
        BY <1>7, <3>1, TypeParts DEF IInv, RecOK, At
      <4>2. CASE req[q].token = r.token
        <5>1. ~Absent(k)
          BY <3>1, <4>2 DEF IInv, RequestInv
        <5>2. QED BY <1>4, <4>1, <4>2, <5>1 DEF Absent
      <4>3. CASE req[q].token # r.token
        BY <1>4, <1>5, <1>7, <4>1, <4>3 DEF Absent
      <4>4. QED BY <4>2, <4>3
    <3>2. QED BY <1>9, <3>1 DEF OthersKept
  <2>3. QED BY <1>2, <1>6, <1>7, <1>8, <1>9, <1>10, <2>1, <2>2, ReqStepInv
<1>11. CASE p = Boot
  <2>1. proc = "starting" /\ proc' = "starting"
    BY <1>1, <1>6, <1>11, Starting DEF IInv, At
  <2>2. r.user = Default /\ r.perm = Admin
    BY <1>1, <1>11 DEF IInv, BootInv
  <2>3. BootInv'
    BY <1>2, <1>4, <1>5, <1>7, <1>11, <2>2 DEF BootInv, At, AdminRec
  <2>4. QED BY <1>2, <1>6, <1>7, <1>8, <1>9, <1>11, <2>1, <2>3, BootStepInv
<1>12. QED BY <1>10, <1>11 DEF Actor

\* The gauge is memory: a count changes nothing that a request relies on.
LEMMA CountInv ==
  ASSUME IInv, NEW p \in Actor, Count(p)
  PROVE  IInv'
<1> USE Actors
<1> DEFINE r == req[p]
           g == [r EXCEPT !.pc = "Save"]
<1>1. At(p, "Gauge") /\ View /\ proc' = proc /\ file' = file
  BY DEF Count
<1>2. r \in ReqRec /\ r.perm \in Perm /\ RecOK(r)
  BY <1>1, TypeParts DEF IInv, RecOK, At
<1>3. gauge' \in [Perm -> Int]
  <2>1. r.delta \in Int /\ gauge' = [gauge EXCEPT ![r.perm] = @ + r.delta]
    BY <1>2 DEF Count, ReqRec
  <2>2. PICK perm \in Perm, d \in Int : gauge' = [gauge EXCEPT ![perm] = @ + d]
    <3> DEFINE P(perm, d) == gauge' = [gauge EXCEPT ![perm] = @ + d]
    <3>1. P(r.perm, r.delta)
      BY <2>1
    <3> HIDE DEF P
    <3>2. \E perm \in Perm, d \in Int : P(perm, d)
      BY <1>2, <2>1, <3>1
    <3>3. QED BY <3>2 DEF P
  <2>3. gauge \in [Perm -> Int]
    BY TypeParts DEF IInv
  <2>4. gauge[perm] + d \in Int
    BY <2>3
  <2>5. QED BY <2>2, <2>3, <2>4
<1>4. CASE p \in Req /\ req' = [req EXCEPT ![p] = Idle]
  <2>1. Moves(p, Idle)
    BY <1>4, IdleOK DEF Moves
  <2>2. RequestInv(p)'
    BY <2>1, MovesReq, IdleOK, RestingInv DEF IInv
  <2>3. \A q \in Req : At(q, "PutToken") => req[q].token # Nil
    BY TypeParts, ConstantsOK DEF IInv, RecOK, At
  <2>4. ~At(p, "idle")
    BY <1>1 DEF At
  <2>5. \A q \in Req \ {p} : ~(Idle.token = req[q].token /\ At(q, "PutToken"))
    BY <2>3, IdleOK
  <2>6. QED BY <1>1, <1>3, <1>4, <2>1, <2>2, <2>4, <2>5, ReqViewInv
<1>5. CASE p = Boot /\ req' = [req EXCEPT ![Boot].pc = "Save"]
  <2>1. r.token \in Token /\ db[TokenKey(r.token)] = AdminRec
    BY <1>1, <1>5 DEF IInv, BootInv, At
  <2>2. g.pc = "Save" /\ g.token = r.token /\ RecOK(g) /\ req' = [req EXCEPT ![Boot] = g]
    BY <1>2, <1>5, <2>1, TypeParts DEF RecOK, ReqRec, PC, IInv
  <2> HIDE DEF g
  <2>3. Moves(Boot, g)
    BY <2>2 DEF Moves
  <2>4. req'[Boot] = g
    BY <2>3, MovesReq DEF IInv
  <2>5. RequestInv(Boot)' /\ BootInv'
    BY <1>1, <2>1, <2>2, <2>4, RestingInv DEF BootInv, At, View, AdminRec
  <2>6. ~At(Boot, "idle")
    BY <1>1, <1>5 DEF At
  <2>7. QED BY <1>1, <1>3, <2>3, <2>5, <2>6, BootViewInv
<1>6. QED BY <1>4, <1>5 DEF Count, Actor

\* RemoveToken reads the token in the transaction that will mark it.
LEMMA RemoveTokenInv ==
  ASSUME IInv, NEW p \in Req, NEW t \in Token, RemoveToken(p, t)
  PROVE  IInv'
<1> USE Actors
<1> DEFINE k == TokenKey(t)
           w == One(k, Erased(db[k]))
           r == [Idle EXCEPT !.pc = "Remove", !.token = t, !.perm = db[k].perm,
                             !.delta = -1]
<1>1. proc = "serving"
  BY DEF RemoveToken, Starts
<1>2. CASE Fail(p)
  BY <1>1, <1>2, FailInv
<1>3. CASE Live(k) /\ SoftDelete(p, k) /\ Goto(p, r)
  <2>1. ~Absent(k) /\ k \in Key /\ DbOK
    BY <1>3, Keys, TypeParts DEF Live, Absent, IInv
  <2>2. db[k].perm \in Perm
    BY <2>1, StoredToken
  <2>3. r.pc = "Remove" /\ r.token = t /\ r.perm = db[k].perm /\ RecOK(r)
    BY <2>2 DEF Idle, RecOK, ReqRec, PC
  <2>4. Moves(p, r) /\ gauge' = gauge /\ proc' = proc /\ file' = file
    BY <1>3, <2>3, GotoMoves
  <2> HIDE DEF r
  <2>5. /\ req'[p] = r /\ (\A q \in Actor \ {p} : req'[q] = req[q])
        /\ gauge' \in [Perm -> Int]
    BY <2>4, MovesReq, TypeParts DEF IInv
  <2>6. /\ db' = db
        /\ txn' = [txn EXCEPT ![p] = [open |-> TRUE, reads |-> {k}, writes |-> w,
                     dirty |-> {}, snap |-> [x \in {} |-> db[x]]]]
    BY <1>3 DEF SoftDelete, Begin
  <2> HIDE DEF w
  <2>7. /\ TxnsOK' /\ txn'[p].reads = {k} /\ txn'[p].writes = w
        /\ \A q \in Req \ {p} : txn'[q] = txn[q]
    BY <2>6 DEF IInv, TxnsOK, Txn
  <2>8. RequestInv(p)'
    <3>1. p # Boot /\ db'[k] # Nil /\ db'[k].perm = r.perm
      BY <2>1, <2>3, <2>6 DEF Absent
    <3>2. ~db'[k].deleted /\ txn'[p].writes = One(k, Erased(db'[k]))
      BY <1>3, <2>6, <2>7 DEF Live, w
    <3>3. req'[p].pc = "Remove" /\ req'[p].token = t /\ req'[p].perm = r.perm
      BY <2>3, <2>5
    <3>4. QED BY <2>7, <3>1, <3>2, <3>3 DEF RequestInv, At, Absent, Live
  <2>9. OthersKept(p)
    <3>1. \A q \in Req : At(q, "PutToken") => TokenKey(req[q].token) \in Key
      BY TypeParts, Keys DEF IInv, RecOK, At
    <3>2. QED BY <2>1, <2>3, <2>5, <2>6, <2>7, <3>1 DEF OthersKept, Kept, Absent
  <2>10. StoreStep
    BY <2>6 DEF StoreStep
  <2>11. QED BY <1>1, <2>4, <2>5, <2>7, <2>8, <2>9, <2>10, ReqStepInv
<1>4. QED BY <1>2, <1>3 DEF RemoveToken

\* A removal that commits marks a token that is still live: otherwise its key
\* was committed since it was read.
LEMMA RemoveTokenStep ==
  ASSUME IInv, NEW p \in Req, At(p, "Remove"), Commit(p)
  PROVE  LET t == req[p].token
             k == TokenKey(t)
         IN /\ t \in Token /\ Live(k) /\ db[k].perm = req[p].perm
            /\ txn[p].writes = One(k, Erased(db[k]))
            /\ PutsToken(t, db[k].name, db[k].perm, TRUE)
<1> USE Actors
<1> DEFINE t == req[p].token
           k == TokenKey(t)
<1>1. t \in Token /\ DbOK
  BY TypeParts DEF IInv, RecOK, At
<1>2. /\ ~Absent(k) /\ db[k].perm = req[p].perm
      /\ txn[p].reads = {k}
      /\ \/ Live(k) /\ txn[p].writes = One(k, Erased(db[k]))
         \/ k \in txn[p].dirty
  BY DEF IInv, RequestInv
<1>3. k \notin txn[p].dirty
  BY <1>2 DEF Commit, Conflict
<1>4. Erased(db[k]) = [name |-> db[k].name, perm |-> db[k].perm, deleted |-> TRUE]
  BY <1>1, <1>2, StoredToken
<1>5. PutsToken(t, db[k].name, db[k].perm, TRUE)
  BY <1>2, <1>3, <1>4 DEF PutsToken, Commit
<1>6. QED BY <1>1, <1>2, <1>3, <1>5

LEMMA RemoveTokenCommitInv ==
  ASSUME IInv, NEW p \in Req, RemoveTokenCommit(p)
  PROVE  IInv'
<1> USE Actors
<1> DEFINE g == [req[p] EXCEPT !.pc = "Gauge"]
<1>1. At(p, "Remove")
  BY DEF RemoveTokenCommit
<1>2. proc = "serving" /\ TxnsOK /\ DbOK
  BY <1>1, Serving, TypeParts DEF IInv, At, TxnsOK
<1>3. CASE Discard({p}) /\ Respond(p, "error")
  <2>1. Moves(p, Idle) /\ gauge' = gauge /\ proc' = proc /\ file' = file
    BY <1>3, RespondMoves
  <2>2. /\ req'[p] = Idle /\ (\A q \in Actor \ {p} : req'[q] = req[q])
        /\ gauge' \in [Perm -> Int]
    BY <2>1, MovesReq, TypeParts DEF IInv
  <2>3. RequestInv(p)'
    BY <2>2, IdleOK, RestingInv
  <2>4. db' = db /\ txn' = [t \in Txn |-> IF t = p THEN NoTxn ELSE txn[t]]
    BY <1>3 DEF Discard
  <2>5. StoreStep /\ TxnsOK'
    BY <1>2, <2>4 DEF StoreStep, TxnsOK, NoTxn
  <2>6. \A q \in Req : At(q, "PutToken") => req[q].token \in Token
    BY TypeParts DEF IInv, RecOK, At
  <2>7. OthersKept(p)
    BY <2>2, <2>4, <2>6, IdleOK, ConstantsOK DEF OthersKept, Kept, Txn, Absent
  <2>8. QED BY <1>2, <2>1, <2>2, <2>3, <2>5, <2>7, ReqStepInv
<1>4. CASE Commit(p) /\ Goto(p, g)
  <2> DEFINE t == req[p].token
             k == TokenKey(t)
             w == txn[p].writes
  <2>1. t \in Token /\ Live(k) /\ PutsToken(t, db[k].name, db[k].perm, TRUE)
    BY <1>1, <1>4, RemoveTokenStep
  <2>2. StoreStep
    BY <2>1 DEF StoreStep
  <2>3. g.pc = "Gauge" /\ g.token = t /\ RecOK(g)
    BY <1>1, TypeParts DEF IInv, RecOK, ReqRec, PC, At
  <2> HIDE DEF g
  <2>4. Moves(p, g) /\ gauge' = gauge /\ proc' = proc /\ file' = file
    BY <1>4, <2>3, GotoMoves
  <2>5. /\ req'[p] = g /\ (\A q \in Actor \ {p} : req'[q] = req[q])
        /\ gauge' \in [Perm -> Int]
    BY <2>4, MovesReq, TypeParts DEF IInv
  <2>6. RequestInv(p)'
    BY <2>3, <2>5, RestingInv
  <2>7. db' = Install(w) /\ txn' = [Notify(DOMAIN w) EXCEPT ![p] = NoTxn]
    BY <1>4 DEF Commit
  <2>8. TxnsOK'
    <3>1. ASSUME NEW s \in Txn
          PROVE  txn'[s] = [open |-> txn'[s].open, reads |-> txn'[s].reads,
                   writes |-> txn'[s].writes, dirty |-> txn'[s].dirty, snap |-> txn'[s].snap]
      <4>1. CASE s = p
        BY <1>2, <2>7, <4>1, NotifyOK DEF NoTxn
      <4>2. CASE s # p
        BY <1>2, <2>7, <4>2, NotifyOK
      <4>3. QED BY <4>1, <4>2
    <3>2. QED BY <1>2, <2>7, <3>1, NotifyOK DEF TxnsOK
  <2>9. ASSUME NEW q \in Req \ {p}, At(q, "Remove") PROVE Kept(q)
    <3>1. txn'[q] = Notify(DOMAIN w)[q]
      BY <2>7 DEF Notify, Txn
    <3>2. txn[q].reads = {TokenKey(req[q].token)} /\ req[q].token \in Token
      BY <2>9, TypeParts DEF IInv, RequestInv, RecOK, At
    <3>3. txn[q].reads \subseteq Key
      BY <3>2, Keys
    <3>4. QED BY <1>2, <2>7, <3>1, <3>3, NotifyKeeps
  <2>10. ~Absent(k) /\ k \in Key /\ DbKept
    BY <1>2, <2>1, <2>2, Keys, StoreStepKept DEF Live, Absent
  <2>11. \A s \in Token \ {t} : db'[TokenKey(s)] = db[TokenKey(s)]
    <3>1. db[k].name \in User /\ db[k].perm \in Perm
      BY <1>2, <2>1, <2>10, StoredToken
    <3>2. QED BY <1>2, <2>1, <3>1, PutsTokenKept
  <2>12. OthersKept(p)
    <3>1. ASSUME NEW q \in Req \ {p}, At(q, "PutToken")
          PROVE  /\ Absent(TokenKey(req[q].token)) => Absent(TokenKey(req[q].token))'
                 /\ req'[p].token = req[q].token => ~Absent(TokenKey(req[q].token))'
      <4>1. req[q].token \in Token /\ req'[q] = req[q]
        BY <2>5, <3>1, TypeParts DEF IInv, RecOK, At
      <4>2. CASE req[q].token = t
        BY <2>10, <4>1, <4>2 DEF DbKept, Absent
      <4>3. CASE req[q].token # t
        BY <2>3, <2>5, <2>11, <4>1, <4>3 DEF Absent
      <4>4. QED BY <4>2, <4>3
    <3>2. QED BY <2>9, <3>1 DEF OthersKept
  <2>13. QED BY <1>2, <2>2, <2>4, <2>5, <2>6, <2>8, <2>12, ReqStepInv
<1>5. QED BY <1>3, <1>4 DEF RemoveTokenCommit

\* RecoverToken reads a removed token and will put it back as it was.
LEMMA RecoverTokenInv ==
  ASSUME IInv, NEW p \in Req, NEW t \in Token, RecoverToken(p, t)
  PROVE  IInv'
<1> USE Actors
<1> DEFINE k == TokenKey(t)
           r == [Idle EXCEPT !.pc = "PutToken", !.token = t,
                             !.user = db[k].name, !.perm = db[k].perm]
<1>1. proc = "serving"
  BY DEF RecoverToken, Starts
<1>2. CASE Fail(p)
  BY <1>1, <1>2, FailInv
<1>3. CASE ~Absent(k) /\ View /\ Goto(p, r)
  <2>1. ~Absent(k) /\ k \in Key /\ DbOK /\ db' = db /\ View
    BY <1>3, Keys, TypeParts DEF IInv, View
  <2>2. db[k].name \in User /\ db[k].perm \in Perm
    BY <2>1, StoredToken
  <2>3. /\ r.pc = "PutToken" /\ r.token = t /\ r.user = db[k].name /\ r.perm = db[k].perm
        /\ RecOK(r)
    BY <2>2 DEF Idle, RecOK, ReqRec, PC
  <2>4. Moves(p, r) /\ gauge' = gauge /\ proc' = proc /\ file' = file
    BY <1>3, <2>3, GotoMoves
  <2> HIDE DEF r
  <2>5. /\ req'[p] = r /\ (\A q \in Actor \ {p} : req'[q] = req[q])
        /\ gauge' \in [Perm -> Int]
    BY <2>4, MovesReq, TypeParts DEF IInv
  <2>6. ~Absent(UserKey(db[k].name))
    BY <2>1 DEF IInv, OwnersKnown
  <2>7. RequestInv(p)'
    <3>1. /\ req'[p].pc = "PutToken" /\ req'[p].token = t
          /\ req'[p].user = db[k].name /\ req'[p].perm = db[k].perm
      BY <2>3, <2>5
    <3>2. QED BY <2>1, <2>6, <3>1 DEF RequestInv, At, Absent
  <2>8. \A q \in Req \ {p} : r.token = req[q].token => ~Absent(TokenKey(req[q].token))
    BY <2>1, <2>3
  <2>9. QED BY <1>1, <2>1, <2>4, <2>5, <2>7, <2>8, ReqViewInv
<1>4. QED BY <1>2, <1>3 DEF RecoverToken

LEMMA VerifyInv ==
  ASSUME IInv, NEW p \in Req, NEW t \in Token, Verify(p, t)
  PROVE  IInv'
<1>1. proc = "serving" /\ (Fail(p) \/ (View /\ Respond(p, "ok")))
  BY DEF Verify, Starts
<1>2. QED BY <1>1, FailInv, AnswerInv, Actors

LEMMA StartInv == ASSUME IInv, Start PROVE IInv'
<1> USE Actors
<1> DEFINE r == [Idle EXCEPT !.pc = "Find"]
<1>1. /\ proc = "down" /\ proc' = "starting" /\ View /\ file' = file
      /\ req' = [req EXCEPT ![Boot] = r]
  BY DEF Start
<1>2. r.pc = "Find" /\ RecOK(r)
  BY DEF Idle, RecOK, ReqRec, PC
<1> HIDE DEF r
<1>3. Moves(Boot, r)
  BY <1>1, <1>2 DEF Moves
<1>4. /\ req' \in [Actor -> ReqRec] /\ \A q \in Actor : RecOK(req'[q])
      /\ req'[Boot] = r /\ \A q \in Actor \ {Boot} : req'[q] = req[q]
  BY <1>3, MovesReq DEF IInv
<1>5. \A q \in Req : req'[q].pc = "idle"
  BY <1>1, <1>4, TypeParts DEF IInv, ProcOK, At
<1>6. \A perm \in Perm : LiveTokens(perm) \subseteq Token
  BY DEF LiveTokens
<1>7. gauge' \in [Perm -> Int]
  <2>1. \A perm \in Perm : Cardinality(LiveTokens(perm)) \in Nat
    BY <1>6, BoundsOK, FS_Subset, FS_CardinalityType
  <2>2. gauge' = [perm \in Perm |-> Cardinality(LiveTokens(perm))]
    BY DEF Start
  <2>3. QED BY <2>1, <2>2
<1>8. TypeOK'
  <2>1. DbOK' /\ file' \in Token \cup {Nil}
    BY <1>1, TypeParts DEF IInv, View, DbOK
  <2>2. ProcOK'
    BY <1>1, <1>5 DEF ProcOK, At
  <2>3. QED BY <1>4, <1>7, <2>1, <2>2, TypeNext
<1>9. TxnsOK' /\ OwnersKnown'
  BY <1>1, ViewStep DEF IInv, View, OwnersKnown, Absent
<1>10. \A q \in Actor : RequestInv(q)'
  BY <1>2, <1>4, <1>5, RestingInv DEF Actor
<1>11. BootInv'
  BY <1>2, <1>4 DEF BootInv, At
<1>12. QED BY <1>8, <1>9, <1>10, <1>11 DEF IInv, TxnsOK

LEMMA FindInv == ASSUME IInv, Find PROVE IInv'
<1> USE Actors
<1>1. ~At(Boot, "idle") /\ View
  BY DEF Find, At
<1>2. ASSUME NEW t \in LiveTokens(Admin), db[TokenKey(t)].name = Default,
             Goto(Boot, [Idle EXCEPT !.pc = "Save", !.token = t])
      PROVE  IInv'
  <2> DEFINE r == [Idle EXCEPT !.pc = "Save", !.token = t]
             x == db[TokenKey(t)]
  <2>1. t \in Token /\ Live(TokenKey(t)) /\ x.perm = Admin /\ x.name = Default
    BY <1>2 DEF LiveTokens
  <2>2. r.pc = "Save" /\ r.token = t /\ RecOK(r)
    BY <2>1 DEF Idle, RecOK, ReqRec, PC
  <2>3. Goto(Boot, r)
    BY <1>2
  <2> HIDE DEF r
  <2>4. Moves(Boot, r) /\ gauge' = gauge /\ proc' = proc /\ file' = file
    BY <2>2, <2>3, GotoMoves
  <2>5. req'[Boot] = r /\ gauge' \in [Perm -> Int]
    BY <2>4, MovesReq, TypeParts DEF IInv
  <2>6. x = AdminRec
    <3>1. x \in TokenRec /\ x.deleted = FALSE
      BY <2>1, TypeParts, StoredToken DEF IInv, Live, Absent
    <3> HIDE DEF x
    <3>2. QED BY <2>1, <3>1 DEF TokenRec, AdminRec
  <2>7. RequestInv(Boot)' /\ BootInv'
    BY <1>1, <2>1, <2>2, <2>5, <2>6, RestingInv DEF BootInv, At, View, AdminRec
  <2>8. QED BY <1>1, <2>4, <2>5, <2>7, BootViewInv
<1>3. CASE Goto(Boot, [Idle EXCEPT !.pc = "CreateDefault"])
  <2> DEFINE r == [Idle EXCEPT !.pc = "CreateDefault"]
  <2>1. r.pc = "CreateDefault" /\ r.token = Nil /\ RecOK(r) /\ Goto(Boot, r)
    BY <1>3 DEF Idle, RecOK, ReqRec, PC
  <2> HIDE DEF r
  <2>2. proc # "serving"
    BY <1>1, Starting DEF IInv
  <2>3. QED BY <1>1, <2>1, <2>2, GoInv
<1>4. QED BY <1>2, <1>3 DEF Find

LEMMA CreateDefaultInv == ASSUME IInv, CreateDefault PROVE IInv'
<1>1. ~At(Boot, "idle") /\ Default \in User
  BY ConstantsOK DEF CreateDefault, At
<1>2. proc # "serving"
  BY <1>1, Starting DEF IInv
<1>3. QED BY <1>1, <1>2, Actors, CreateUserOfInv DEF CreateDefault

LEMMA GenerateDefaultInv == ASSUME IInv, GenerateDefault PROVE IInv'
<1>1. ~At(Boot, "idle") /\ Default \in User /\ Admin \in Perm
  BY ConstantsOK DEF GenerateDefault, At
<1>2. proc # "serving"
  BY <1>1, Starting DEF IInv
<1>3. QED BY <1>1, <1>2, Actors, GenerateTokenOfInv DEF GenerateDefault

LEMMA SaveInv == ASSUME IInv, Save PROVE IInv'
<1> USE Actors
<1>1. /\ At(Boot, "Save") /\ View /\ proc' = "serving" /\ gauge' = gauge
      /\ file' = req[Boot].token /\ req' = [req EXCEPT ![Boot] = Idle]
  BY DEF Save
<1>2. /\ proc = "starting" /\ file' \in Token /\ gauge' \in [Perm -> Int]
  BY <1>1, Starting, TypeParts DEF IInv, At, RecOK
<1>3. Moves(Boot, Idle)
  BY <1>1, IdleOK DEF Moves
<1>4. req'[Boot] = Idle
  BY <1>3, MovesReq DEF IInv
<1>5. RequestInv(Boot)' /\ BootInv'
  BY <1>4, IdleOK, RestingInv DEF BootInv, At
<1>6. StoreStep /\ TxnsOK'
  BY <1>1, ViewStep
<1>7. QED BY <1>1, <1>2, <1>3, <1>5, <1>6, IdleOK, BootStepInv

-----------------------------------------------------------------------------
(* The specification *)

LEMMA InitInv == Init => IInv
<1> SUFFICES ASSUME Init PROVE IInv
  OBVIOUS
<1> USE Actors
<1>1. \A p \in Actor : req[p] = Idle
  BY DEF Init
<1>2. DbOK /\ OwnersKnown
  BY Keys DEF Init, DbOK, OwnersKnown, Absent
<1>3. ProcOK
  BY <1>1, IdleOK DEF Init, ProcOK, At
<1>4. TypeOK
  <2>1. req \in [Actor -> ReqRec] /\ \A p \in Actor : RecOK(req[p])
    BY <1>1, IdleOK DEF Init, RecOK
  <2>2. gauge \in [Perm -> Int] /\ file \in Token \cup {Nil}
    BY DEF Init
  <2>3. QED BY <1>2, <1>3, <2>1, <2>2, TypeParts
<1>5. \A p \in Actor : RequestInv(p)
  BY <1>1, IdleOK DEF RequestInv, At
<1>6. BootInv
  BY <1>1, IdleOK DEF BootInv, At
<1>7. QED BY <1>2, <1>4, <1>5, <1>6 DEF IInv, Init, NoTxn

LEMMA StutterInv == ASSUME IInv, UNCHANGED vars PROVE IInv'
<1>1. TypeOK' /\ BootInv' /\ OwnersKnown'
  BY DEF IInv, vars, TypeOK, BootInv, OwnersKnown, At, Absent
<1>2. \A p \in Actor : RequestInv(p)'
  BY DEF IInv, vars, RequestInv, At, Absent, Live
<1>3. QED BY <1>1, <1>2 DEF IInv, vars

LEMMA NextInv == IInv /\ [Next]_vars => IInv'
<1> SUFFICES ASSUME IInv, [Next]_vars PROVE IInv'
  OBVIOUS
<1>1. ASSUME NEW p \in Req, Call(p) PROVE IInv'
  <2>1. ASSUME NEW u \in User, CreateUser(p, u) PROVE IInv'
    BY <2>1, Actors, CreateUserOfInv DEF CreateUser, Starts
  <2>2. ASSUME NEW u \in User, NEW perm \in Perm, GenerateToken(p, u, perm) PROVE IInv'
    BY <2>2, Actors, GenerateTokenOfInv DEF GenerateToken, Starts
  <2>3. QED
    BY <1>1, <2>1, <2>2, DeleteUserInv, RemoveTokenInv, RecoverTokenInv, VerifyInv DEF Call
<1>2. ASSUME NEW p \in Actor, PutUser(p) \/ PutToken(p) \/ Count(p) PROVE IInv'
  BY <1>2, PutUserInv, PutTokenInv, CountInv
<1>3. ASSUME NEW p \in Req, RemoveTokenCommit(p) PROVE IInv'
  BY <1>3, RemoveTokenCommitInv
<1>4. CASE Start \/ Find \/ CreateDefault \/ GenerateDefault \/ Save
  BY <1>4, StartInv, FindInv, CreateDefaultInv, GenerateDefaultInv, SaveInv
<1>5. CASE Crash
  BY <1>5, ExitInv DEF Crash
<1>6. CASE UNCHANGED vars
  BY <1>6, StutterInv
<1>7. QED BY <1>1, <1>2, <1>3, <1>4, <1>5, <1>6 DEF Next

\* The inductive invariant holds of every execution.
THEOREM Inductive == Spec => []IInv
BY InitInv, NextInv, PTL DEF Spec

\* Requests and keys are well formed, whatever interleaves and restarts.
THEOREM Typing == Spec => []TypeOK
<1>1. IInv => TypeOK
  BY DEF IInv
<1>2. QED BY <1>1, Inductive, PTL

\* The server only starts to serve with an admin token of the default user in
\* its token file (run.go:110-118).
THEOREM Serves == Spec => ServesWithAdmin
<1>1. ASSUME IInv, Next, proc # "serving", proc' = "serving"
      PROVE  \E t \in Token : /\ t = file'
                              /\ db'[TokenKey(t)] = [name |-> Default, perm |-> Admin,
                                                     deleted |-> FALSE]
  <2>1. Save
    <3>1. ASSUME NEW p, Fail(p) PROVE FALSE
      BY <1>1, <3>1 DEF Fail, Respond, Exit
    <3>2. ASSUME NEW p \in Req, Call(p) PROVE FALSE
      BY <1>1, <3>2 DEF Call, CreateUser, DeleteUser, GenerateToken, RemoveToken,
                        RecoverToken, Verify, Starts
    <3>3. ASSUME NEW p, PutUser(p) \/ PutToken(p) \/ Count(p) \/ RemoveTokenCommit(p)
          PROVE  FALSE
      <4>1. proc' = proc
        BY <3>3, Zenon DEF PutUser, PutToken, Count, RemoveTokenCommit, Respond, Goto
      <4>2. QED BY <1>1, <4>1
    <3>4. ~Start /\ ~Find /\ ~Crash
      BY <1>1 DEF Start, Find, Crash, Exit, Goto
    <3>5. ~CreateDefault /\ ~GenerateDefault
      BY <1>1, <3>1 DEF CreateDefault, GenerateDefault, CreateUserOf, GenerateTokenOf, Goto
    <3>6. QED BY <1>1, <3>2, <3>3, <3>4, <3>5 DEF Next
  <2>2. file' = req[Boot].token /\ db' = db /\ At(Boot, "Save")
    BY <2>1 DEF Save, View
  <2>3. req[Boot].token \in Token /\ db[TokenKey(req[Boot].token)] = AdminRec
    <3>1. BootInv
      BY <1>1 DEF IInv
    <3>2. QED BY <2>2, <3>1 DEF BootInv, At
  <2>4. QED BY <2>2, <2>3 DEF AdminRec
<1> DEFINE A == proc # "serving" /\ proc' = "serving" =>
                  \E t \in Token :
                    /\ t = file'
                    /\ db'[TokenKey(t)] = [name |-> Default, perm |-> Admin, deleted |-> FALSE]
<1>2. IInv /\ [Next]_vars => [A]_vars
  BY <1>1
<1>3. Spec => [][A]_vars
  BY <1>2, Inductive, PTL DEF Spec
<1>4. QED BY <1>3 DEF ServesWithAdmin

-----------------------------------------------------------------------------
(* Refinement *)

\* What every step does to the store.
LEMMA NextStore == ASSUME IInv, Next PROVE StoreStep
<1>1. ASSUME db' = db PROVE StoreStep
  BY <1>1 DEF StoreStep
<1>2. ASSUME NEW p, Fail(p) PROVE db' = db
  BY <1>2 DEF Fail, View, Exit
<1>3. ASSUME NEW p \in Actor, PutUser(p) PROVE StoreStep
  <2>1. req[p].user \in User /\ [deleted |-> FALSE] \in UserRec
    BY <1>3, TypeParts DEF PutUser, IInv, RecOK, At, UserRec
  <2>2. QED BY <1>3, <2>1 DEF PutUser, Put, StoreStep, PutsUser
<1>4. ASSUME NEW p \in Req, Call(p) PROVE StoreStep
  <2>1. ASSUME NEW u \in User, DeleteUser(p, u) PROVE StoreStep
    <3>1. CASE Fail(p)
      BY <1>1, <1>2, <3>1
    <3>2. CASE Put(One(UserKey(u), [deleted |-> TRUE]))
      <4>1. [deleted |-> TRUE] \in UserRec
        BY DEF UserRec
      <4>2. QED BY <3>2, <4>1 DEF Put, StoreStep, PutsUser
    <3>3. QED BY <2>1, <3>1, <3>2 DEF DeleteUser
  <2>2. ASSUME NEW u \in User, NEW perm \in Perm, CreateUser(p, u) \/ GenerateToken(p, u, perm)
        PROVE  StoreStep
    <3>1. Fail(p) \/ View
      BY <2>2 DEF CreateUser, GenerateToken, CreateUserOf, GenerateTokenOf
    <3>2. QED BY <1>1, <1>2, <3>1 DEF View
  <2>3. ASSUME NEW t \in Token, RemoveToken(p, t) \/ RecoverToken(p, t) \/ Verify(p, t)
        PROVE  StoreStep
    <3>1. Fail(p) \/ UNCHANGED db
      BY <2>3 DEF RemoveToken, RecoverToken, Verify, SoftDelete, Begin, View
    <3>2. QED BY <1>1, <1>2, <3>1
  <2>4. ASSUME NEW u \in User, CreateUser(p, u) PROVE StoreStep
    <3>1. Fail(p) \/ View
      BY <2>4 DEF CreateUser, CreateUserOf
    <3>2. QED BY <1>1, <1>2, <3>1 DEF View
  <2>5. QED BY <1>4, <2>1, <2>2, <2>3, <2>4 DEF Call
<1>5. ASSUME NEW p \in Req, RemoveTokenCommit(p) PROVE StoreStep
  <2>1. At(p, "Remove") /\ (db' = db \/ Commit(p))
    BY <1>5 DEF RemoveTokenCommit, Discard
  <2>2. CASE Commit(p)
    BY <2>1, <2>2, RemoveTokenStep DEF StoreStep
  <2>3. QED BY <1>1, <2>1, <2>2
<1>6. ASSUME NEW p \in Actor, PutToken(p) \/ Count(p) PROVE StoreStep
  <2>1. CASE PutToken(p)
    BY <2>1, PutTokenStep
  <2>2. CASE Count(p)
    BY <1>1, <2>2 DEF Count, View
  <2>3. QED BY <1>6, <2>1, <2>2
<1>7. ASSUME Start \/ Find \/ Save \/ Crash PROVE StoreStep
  <2>1. db' = db
    BY <1>7 DEF Start, Find, Save, Crash, Exit, View
  <2>2. QED BY <1>1, <2>1
<1>8. ASSUME CreateDefault \/ GenerateDefault PROVE StoreStep
  <2>1. Fail(Boot) \/ View
    BY <1>8 DEF CreateDefault, GenerateDefault, CreateUserOf, GenerateTokenOf
  <2>2. QED BY <1>1, <1>2, <2>1 DEF View
<1>9. QED BY <1>3, <1>4, <1>5, <1>6, <1>7, <1>8 DEF Next

\* A put of a token as TokenBook sees it.
LEMMA IssuedPut ==
  ASSUME DbOK, NEW t \in Token, NEW u \in User, NEW perm \in Perm, NEW d \in BOOLEAN,
         PutsToken(t, u, perm, d),
         ~Absent(TokenKey(t)) => db[TokenKey(t)].name = u /\ db[TokenKey(t)].perm = perm
  PROVE  /\ Known' = Known
         /\ Issued' = [Issued EXCEPT ![t] = [name |-> u, perm |-> perm, live |-> ~d]]
<1>1. /\ db'[TokenKey(t)] = [name |-> u, perm |-> perm, deleted |-> d]
      /\ ~Absent(TokenKey(t))'
      /\ \A s \in Token \ {t} : db'[TokenKey(s)] = db[TokenKey(s)]
      /\ \A v \in User : db'[UserKey(v)] = db[UserKey(v)]
  BY PutsTokenKept
<1>2. Known' = Known
  BY <1>1 DEF Known, Absent
<1>3. ASSUME NEW s \in Token \ {t} PROVE Issued'[s] = Issued[s]
  BY <1>1, <1>3 DEF Issued, Absent, Live
<1>4. Issued'[t] = [name |-> u, perm |-> perm, live |-> ~d]
  <2>1. Live(TokenKey(t))' = ~d
    BY <1>1 DEF Live, Absent
  <2>2. Issued'[t] = [name |-> db'[TokenKey(t)].name, perm |-> db'[TokenKey(t)].perm,
                      live |-> Live(TokenKey(t))']
    BY <1>1 DEF Issued
  <2>3. QED BY <1>1, <2>1, <2>2
<1>5. DOMAIN Issued' = Token /\ DOMAIN Issued = Token /\ Issued' = [s \in Token |-> Issued'[s]]
  BY DEF Issued
<1> HIDE DEF Issued
<1>6. QED BY <1>2, <1>3, <1>4, <1>5

LEMMA IssuedEntry ==
  ASSUME DbOK, NEW t \in Token
  PROVE  /\ Absent(TokenKey(t)) <=> Issued[t] = Nil
         /\ ~Absent(TokenKey(t)) =>
              Issued[t] = [name |-> db[TokenKey(t)].name, perm |-> db[TokenKey(t)].perm,
                           live |-> Live(TokenKey(t))]
<1>1. Absent(TokenKey(t)) => Issued[t] = Nil
  BY DEF Issued
<1>2. ~Absent(TokenKey(t)) =>
        Issued[t] = [name |-> db[TokenKey(t)].name, perm |-> db[TokenKey(t)].perm,
                     live |-> Live(TokenKey(t))]
  BY DEF Issued
<1>3. ASSUME ~Absent(TokenKey(t)) PROVE Issued[t] # Nil
  <2> DEFINE x == db[TokenKey(t)]
  <2>1. PICK e : e = [name |-> x.name, perm |-> x.perm, live |-> Live(TokenKey(t))]
    OBVIOUS
  <2>2. x.name \in User /\ x.perm \in Perm /\ Live(TokenKey(t)) \in BOOLEAN
    BY <1>3, StoredToken DEF Live
  <2>3. e \in [name : User, perm : Perm, live : BOOLEAN]
    BY <2>1, <2>2
  <2>4. e # Nil
    BY <2>3, ConstantsOK
  <2>5. QED BY <1>2, <1>3, <2>1, <2>4
<1>4. QED BY <1>1, <1>2, <1>3

\* Each step of the store is an operation of TokenBook, or changes nothing.
LEMMA StepRefines ==
  ASSUME DbOK, StoreStep
  PROVE  [TokenBook!BNext]_(TokenBook!bvars)
<1>1. CASE db' = db
  <2>1. Known' = Known /\ Issued' = Issued
    BY <1>1 DEF Known, Issued, Absent, Live
  <2>2. QED BY <2>1 DEF TokenBook!bvars
<1>2. ASSUME NEW u \in User, PutsUser(u)
      PROVE  TokenBook!AddUser(u)
  <2>1. /\ db'[UserKey(u)] # Nil
        /\ \A v \in User \ {u} : db'[UserKey(v)] = db[UserKey(v)]
        /\ \A t \in Token : db'[TokenKey(t)] = db[TokenKey(t)]
    BY <1>2, PutsUserKept DEF Absent
  <2>2. Known' = Known \cup {u}
    BY <2>1 DEF Known, Absent
  <2>3. Issued' = Issued
    BY <2>1 DEF Issued, Absent, Live
  <2>4. QED BY <2>2, <2>3 DEF TokenBook!AddUser
<1>3. ASSUME NEW t \in Token, NEW u \in User, NEW perm \in Perm,
             Absent(TokenKey(t)), ~Absent(UserKey(u)), PutsToken(t, u, perm, FALSE)
      PROVE  TokenBook!Issue(t, u, perm)
  <2>1. /\ Known' = Known
        /\ Issued' = [Issued EXCEPT ![t] = [name |-> u, perm |-> perm, live |-> TRUE]]
    <3>1. PICK d \in BOOLEAN : d = FALSE
      OBVIOUS
    <3>2. PutsToken(t, u, perm, d)
      BY <1>3, <3>1
    <3>3. /\ Known' = Known
          /\ Issued' = [Issued EXCEPT ![t] = [name |-> u, perm |-> perm, live |-> ~d]]
      BY <1>3, <3>2, IssuedPut
    <3>4. QED BY <3>1, <3>3
  <2>2. Issued[t] = Nil /\ u \in Known
    BY <1>3, IssuedEntry DEF Known
  <2>3. QED BY <2>1, <2>2 DEF TokenBook!Issue
<1>4. ASSUME NEW t \in Token, ~Absent(TokenKey(t)), NEW d \in BOOLEAN,
             PutsToken(t, db[TokenKey(t)].name, db[TokenKey(t)].perm, d)
      PROVE  /\ Known' = Known
             /\ Issued[t] # Nil /\ Issued[t].live = Live(TokenKey(t))
             /\ Issued' = [Issued EXCEPT ![t].live = ~d]
  <2> DEFINE x == db[TokenKey(t)]
  <2>1. x.name \in User /\ x.perm \in Perm
    BY <1>4, StoredToken
  <2>2. /\ Known' = Known
        /\ Issued' = [Issued EXCEPT ![t] = [name |-> x.name, perm |-> x.perm, live |-> ~d]]
    BY <1>4, <2>1, IssuedPut
  <2>3. /\ Issued[t] # Nil
        /\ Issued[t] = [name |-> x.name, perm |-> x.perm, live |-> Live(TokenKey(t))]
    BY <1>4, IssuedEntry
  <2>4. t \in DOMAIN Issued
    BY DEF Issued
  <2> HIDE DEF x
  <2>5. /\ Issued[t].live = Live(TokenKey(t))
        /\ [Issued[t] EXCEPT !.live = ~d] = [name |-> x.name, perm |-> x.perm, live |-> ~d]
    BY <2>3
  <2>6. QED BY <2>2, <2>3, <2>4, <2>5
<1>5. ASSUME NEW t \in Token, ~Absent(TokenKey(t)),
             PutsToken(t, db[TokenKey(t)].name, db[TokenKey(t)].perm, FALSE)
      PROVE  TokenBook!Recover(t)
  BY <1>4, <1>5 DEF TokenBook!Recover
<1>6. ASSUME NEW t \in Token, Live(TokenKey(t)),
             PutsToken(t, db[TokenKey(t)].name, db[TokenKey(t)].perm, TRUE)
      PROVE  TokenBook!Remove(t)
  <2>1. ~Absent(TokenKey(t))
    BY <1>6 DEF Live, Absent
  <2>2. QED BY <1>4, <1>6, <2>1 DEF TokenBook!Remove
<1>7. QED BY <1>1, <1>2, <1>3, <1>5, <1>6 DEF StoreStep, TokenBook!BNext

\* The token handlers and the startup implement the Store interface.
THEOREM Refines == Spec => RefinesTokenBook
<1>1. Init => TokenBook!BInit
  BY Keys DEF Init, TokenBook!BInit, Known, Issued, Absent
<1>2. IInv /\ [Next]_vars => [TokenBook!BNext]_(TokenBook!bvars)
  <2>1. CASE Next
    BY <2>1, NextStore, StepRefines, TypeParts DEF IInv
  <2>2. CASE UNCHANGED vars
    BY <2>2 DEF vars, TokenBook!bvars, Known, Issued, Absent, Live
  <2>3. QED BY <2>1, <2>2
<1>3. QED BY <1>1, <1>2, Inductive, PTL DEF Spec, RefinesTokenBook, TokenBook!BSpec

-----------------------------------------------------------------------------
(* The gauge *)

LEMMA FiniteCounts ==
  \A perm : /\ IsFiniteSet(LiveTokens(perm)) /\ Cardinality(LiveTokens(perm)) \in Nat
            /\ \A d : IsFiniteSet(Pending(perm, d)) /\ Cardinality(Pending(perm, d)) \in Nat
<1>1. IsFiniteSet(Actor)
  BY BoundsOK, FS_AddElement DEF Actor
<1>2. TAKE perm
<1>3. LiveTokens(perm) \subseteq Token /\ \A d : Pending(perm, d) \subseteq Actor
  BY DEF LiveTokens, Pending
<1>4. QED BY <1>1, <1>3, BoundsOK, FS_Subset, FS_CardinalityType

\* The gauge and what is pending cover the live tokens of perm.
Covers(perm) ==
  gauge[perm] + Cardinality(Pending(perm, 1)) - Cardinality(Pending(perm, -1))
    >= Cardinality(LiveTokens(perm))

LEMMA CoversAll == GaugeCovers <=> (proc # "down" => \A perm \in Perm : Covers(perm))
BY DEF GaugeCovers, Covers

\* Who waits to count after p moved to r.
LEMMA PendingNext ==
  ASSUME NEW p \in Actor, NEW r, req'[p] = r,
         \A q \in Actor \ {p} : req'[q] = req[q], NEW perm, NEW d
  PROVE  /\ r.pc = "Gauge" /\ r.perm = perm /\ r.delta = d =>
              Pending(perm, d)' = Pending(perm, d) \cup {p}
         /\ ~(r.pc = "Gauge" /\ r.perm = perm /\ r.delta = d) =>
              Pending(perm, d)' = Pending(perm, d) \ {p}
BY DEF Pending, At

LEMMA LiveSame ==
  ASSUME \A t \in Token : db'[TokenKey(t)] = db[TokenKey(t)], NEW perm
  PROVE  LiveTokens(perm)' = LiveTokens(perm)
BY DEF LiveTokens, Live

\* The live tokens after a put of t that keeps what it was issued for.
LEMMA LivePut ==
  ASSUME DbOK, NEW t \in Token, NEW u \in User, NEW perm \in Perm,
         PutsToken(t, u, perm, FALSE),
         ~Absent(TokenKey(t)) => db[TokenKey(t)].name = u /\ db[TokenKey(t)].perm = perm
  PROVE  /\ \A x : x # perm => LiveTokens(x)' = LiveTokens(x)
         /\ LiveTokens(perm)' = LiveTokens(perm) \cup {t}
<1>1. /\ db'[TokenKey(t)] = [name |-> u, perm |-> perm, deleted |-> FALSE]
      /\ db'[TokenKey(t)] # Nil
      /\ \A s \in Token \ {t} : db'[TokenKey(s)] = db[TokenKey(s)]
  BY PutsTokenKept DEF Absent
<1>2. db'[TokenKey(t)].perm = perm /\ ~db'[TokenKey(t)].deleted
  BY <1>1
<1>3. \A x : x # perm => t \notin LiveTokens(x)
  BY DEF LiveTokens, Live, Absent
<1>4. QED BY <1>1, <1>2, <1>3 DEF LiveTokens, Live

\* The live tokens after a live one was marked.
LEMMA LiveMarked ==
  ASSUME DbOK, NEW t \in Token, Live(TokenKey(t)),
         PutsToken(t, db[TokenKey(t)].name, db[TokenKey(t)].perm, TRUE)
  PROVE  /\ \A x : x # db[TokenKey(t)].perm => LiveTokens(x)' = LiveTokens(x)
         /\ \A x : x = db[TokenKey(t)].perm =>
              t \in LiveTokens(x) /\ LiveTokens(x)' = LiveTokens(x) \ {t}
<1> DEFINE u == db[TokenKey(t)].name
           perm == db[TokenKey(t)].perm
<1>1. ~Absent(TokenKey(t))
  BY DEF Live, Absent
<1>2. u \in User /\ perm \in Perm
  BY <1>1, StoredToken
<1>3. /\ db'[TokenKey(t)] = [name |-> u, perm |-> perm, deleted |-> TRUE]
      /\ \A s \in Token \ {t} : db'[TokenKey(s)] = db[TokenKey(s)]
  BY <1>2, PutsTokenKept
<1>4. db'[TokenKey(t)].deleted
  BY <1>3
<1>5. \A x : x # perm => t \notin LiveTokens(x)
  BY DEF LiveTokens
<1>6. \A x : x = perm => t \in LiveTokens(x)
  BY DEF LiveTokens
<1>7. QED BY <1>3, <1>4, <1>5, <1>6 DEF LiveTokens, Live

\* A step that neither counts, nor comes to count, nor changes a token.
Quiet(p) ==
  /\ proc # "down" /\ gauge' = gauge /\ ~At(p, "Gauge")
  /\ \E r : r.pc # "Gauge" /\ req' = [req EXCEPT ![p] = r]
  /\ \A t \in Token : db'[TokenKey(t)] = db[TokenKey(t)]

LEMMA QuietCovers ==
  ASSUME TypeOK, GaugeCovers, NEW p \in Actor, Quiet(p), NEW perm \in Perm
  PROVE  Covers(perm)'
<1>1. PICK r : /\ r.pc # "Gauge" /\ req'[p] = r
               /\ \A q \in Actor \ {p} : req'[q] = req[q]
  BY DEF Quiet, TypeOK
<1>2. \A d : Pending(perm, d)' = Pending(perm, d) \ {p}
  BY <1>1, PendingNext
<1>3. \A d : p \notin Pending(perm, d)
  BY DEF Quiet, Pending
<1>4. \A d : Pending(perm, d)' = Pending(perm, d)
  BY <1>2, <1>3
<1>5. LiveTokens(perm)' = LiveTokens(perm)
  BY LiveSame DEF Quiet
<1>6. gauge' = gauge /\ Covers(perm)
  BY CoversAll DEF Quiet
<1>7. QED BY <1>4, <1>5, <1>6 DEF Covers

\* A token was put: it is counted next.
LEMMA PutTokenCovers ==
  ASSUME IInv, GaugeCovers, NEW p \in Actor, PutToken(p), NEW perm \in Perm
  PROVE  Covers(perm)'
<1> DEFINE r == req[p]
           g == [r EXCEPT !.pc = "Gauge", !.delta = 1]
<1>1. /\ r.token \in Token /\ r.user \in User /\ r.perm \in Perm
      /\ PutsToken(r.token, r.user, r.perm, FALSE)
      /\ ~Absent(TokenKey(r.token)) =>
           db[TokenKey(r.token)].name = r.user /\ db[TokenKey(r.token)].perm = r.perm
  BY PutTokenStep
<1>2. TypeOK /\ DbOK /\ r \in ReqRec
  BY TypeParts DEF IInv
<1>3. g.pc = "Gauge" /\ g.perm = r.perm /\ g.delta = 1
  BY <1>2 DEF ReqRec
<1>4. /\ req'[p] = g /\ (\A q \in Actor \ {p} : req'[q] = req[q])
      /\ gauge' = gauge /\ At(p, "PutToken")
  BY <1>2 DEF PutToken, Goto, TypeOK
<1> HIDE DEF g
<1>5. proc # "down" /\ Covers(perm)
  <2>1. proc # "down"
    BY <1>2, <1>4, IdleOK DEF TypeOK, At
  <2>2. QED BY <2>1, CoversAll
<1>6. p \notin Pending(perm, 1) /\ p \notin Pending(perm, -1)
  BY <1>4 DEF Pending, At
<1>7. Pending(perm, -1)' = Pending(perm, -1)
  BY <1>2, <1>3, <1>4, <1>6, PendingNext
<1>8. CASE perm # r.perm
  <2>1. Pending(perm, 1)' = Pending(perm, 1)
    BY <1>2, <1>3, <1>4, <1>6, <1>8, PendingNext
  <2>2. LiveTokens(perm)' = LiveTokens(perm)
    BY <1>1, <1>2, <1>8, LivePut
  <2>3. QED BY <1>4, <1>5, <1>7, <2>1, <2>2 DEF Covers
<1>9. CASE perm = r.perm
  <2>1. Pending(perm, 1)' = Pending(perm, 1) \cup {p}
    BY <1>2, <1>3, <1>4, <1>9, PendingNext
  <2>2. LiveTokens(perm)' = LiveTokens(perm) \cup {r.token}
    BY <1>1, <1>2, <1>9, LivePut
  <2>3. Cardinality(Pending(perm, 1)') = Cardinality(Pending(perm, 1)) + 1
    BY <1>6, <2>1, FiniteCounts, FS_AddElement
  <2>4. Cardinality(LiveTokens(perm)') <= Cardinality(LiveTokens(perm)) + 1
    <3>1. /\ IsFiniteSet(LiveTokens(perm)) /\ Cardinality(LiveTokens(perm)) \in Nat
      BY FiniteCounts
    <3>2. \/ Cardinality(LiveTokens(perm) \cup {r.token}) = Cardinality(LiveTokens(perm))
          \/ Cardinality(LiveTokens(perm) \cup {r.token}) = Cardinality(LiveTokens(perm)) + 1
      BY <3>1, FS_AddElement
    <3>3. QED BY <2>2, <3>1, <3>2
  <2>5. gauge[perm] \in Int
    BY <1>2 DEF TypeOK
  <2>6. /\ Cardinality(LiveTokens(perm)) \in Nat /\ Cardinality(Pending(perm, 1)) \in Nat
        /\ Cardinality(Pending(perm, -1)) \in Nat
        /\ Cardinality(LiveTokens(perm)') \in Nat
    <3>1. IsFiniteSet(LiveTokens(perm)')
      BY <2>2, FiniteCounts, FS_AddElement
    <3>2. QED BY <3>1, FiniteCounts, FS_CardinalityType
  <2>7. gauge'[perm] = gauge[perm]
    BY <1>4
  <2>8. QED BY <1>5, <1>7, <2>3, <2>4, <2>5, <2>6, <2>7 DEF Covers
<1>10. QED BY <1>8, <1>9

\* A count moves what was pending into the gauge.
LEMMA CountCovers ==
  ASSUME IInv, GaugeCovers, NEW p \in Actor, Count(p), NEW perm \in Perm
  PROVE  Covers(perm)'
<1> DEFINE r == req[p]
<1>1. TypeOK /\ r \in ReqRec /\ r.delta \in {-1, 0, 1} /\ At(p, "Gauge")
  BY TypeParts DEF IInv, ReqRec, Count
<1>2. /\ req'[p].pc # "Gauge"
      /\ \A q \in Actor \ {p} : req'[q] = req[q]
  <2>1. req \in [Actor -> ReqRec]
    BY <1>1 DEF TypeOK
  <2>2. CASE req' = [req EXCEPT ![p] = Idle]
    BY <2>1, <2>2, IdleOK
  <2>3. CASE req' = [req EXCEPT ![p].pc = "Save"]
    BY <1>1, <2>1, <2>3 DEF ReqRec
  <2>4. QED BY <2>2, <2>3 DEF Count
<1>3. LiveTokens(perm)' = LiveTokens(perm)
  BY LiveSame DEF Count, View
<1>4. proc # "down" /\ Covers(perm)
  <2>1. proc # "down"
    BY <1>1, IdleOK DEF TypeOK, At
  <2>2. QED BY <2>1, CoversAll
<1>5. \A d : Pending(perm, d)' = Pending(perm, d) \ {p}
  BY <1>2, PendingNext
<1>6. /\ gauge[perm] \in Int
      /\ Cardinality(LiveTokens(perm)) \in Nat
      /\ IsFiniteSet(Pending(perm, 1)) /\ Cardinality(Pending(perm, 1)) \in Nat
      /\ IsFiniteSet(Pending(perm, -1)) /\ Cardinality(Pending(perm, -1)) \in Nat
  BY <1>1, FiniteCounts DEF TypeOK
<1>7. \A d : p \in Pending(perm, d) <=> r.perm = perm /\ r.delta = d
  BY <1>1 DEF Pending
<1>8. \A d : p \notin Pending(perm, d) => Pending(perm, d)' = Pending(perm, d)
  BY <1>5
<1>9. /\ p \in Pending(perm, 1) =>
           Cardinality(Pending(perm, 1)') = Cardinality(Pending(perm, 1)) - 1
      /\ p \in Pending(perm, -1) =>
           Cardinality(Pending(perm, -1)') = Cardinality(Pending(perm, -1)) - 1
  BY <1>5, <1>6, FS_RemoveElement
<1>10. CASE r.perm # perm
  <2>1. gauge'[perm] = gauge[perm]
    BY <1>1, <1>10 DEF Count, TypeOK
  <2>2. Pending(perm, 1)' = Pending(perm, 1) /\ Pending(perm, -1)' = Pending(perm, -1)
    BY <1>7, <1>8, <1>10
  <2>3. QED BY <1>3, <1>4, <2>1, <2>2 DEF Covers
<1>11. CASE r.perm = perm
  <2>1. gauge'[perm] = gauge[perm] + r.delta
    BY <1>1, <1>11 DEF Count, TypeOK
  <2>2. CASE r.delta = 1
    <3>1. Pending(perm, -1)' = Pending(perm, -1)
      BY <1>7, <1>8, <2>2
    <3>2. Cardinality(Pending(perm, 1)') = Cardinality(Pending(perm, 1)) - 1
      BY <1>7, <1>9, <1>11, <2>2
    <3>3. QED BY <1>3, <1>4, <1>6, <2>1, <2>2, <3>1, <3>2 DEF Covers
  <2>3. CASE r.delta = -1
    <3>1. Pending(perm, 1)' = Pending(perm, 1)
      BY <1>7, <1>8, <2>3
    <3>2. Cardinality(Pending(perm, -1)') = Cardinality(Pending(perm, -1)) - 1
      BY <1>7, <1>9, <1>11, <2>3
    <3>3. QED BY <1>3, <1>4, <1>6, <2>1, <2>3, <3>1, <3>2 DEF Covers
  <2>4. CASE r.delta = 0
    <3>1. Pending(perm, 1)' = Pending(perm, 1) /\ Pending(perm, -1)' = Pending(perm, -1)
      BY <1>7, <1>8, <2>4
    <3>2. QED BY <1>3, <1>4, <1>6, <2>1, <2>4, <3>1 DEF Covers
  <2>5. QED BY <1>1, <2>2, <2>3, <2>4
<1>12. QED BY <1>10, <1>11

\* A removal that commits marked a live token: it is discounted next.
LEMMA RemoveTokenCovers ==
  ASSUME IInv, GaugeCovers, NEW p \in Req, At(p, "Remove"), Commit(p),
         Goto(p, [req[p] EXCEPT !.pc = "Gauge"]), NEW perm \in Perm
  PROVE  Covers(perm)'
<1> USE Actors
<1> DEFINE r == req[p]
           t == r.token
           g == [r EXCEPT !.pc = "Gauge"]
<1>1. /\ t \in Token /\ Live(TokenKey(t)) /\ db[TokenKey(t)].perm = r.perm
      /\ PutsToken(t, db[TokenKey(t)].name, db[TokenKey(t)].perm, TRUE)
  BY RemoveTokenStep
<1>2. TypeOK /\ DbOK /\ r \in ReqRec
  BY TypeParts DEF IInv
<1>3. g.pc = "Gauge" /\ g.perm = r.perm
  BY <1>2 DEF ReqRec
<1>4. /\ req'[p] = g /\ (\A q \in Actor \ {p} : req'[q] = req[q]) /\ gauge' = gauge
  BY <1>2 DEF Goto, TypeOK
<1> HIDE DEF g
<1>5. proc # "down" /\ Covers(perm)
  <2>1. proc # "down"
    BY <1>2, IdleOK DEF TypeOK, At
  <2>2. QED BY <2>1, CoversAll
<1>6. \A d : p \notin Pending(perm, d)
  BY DEF Pending, At
<1>7. \A d : \/ Pending(perm, d)' = Pending(perm, d)
             \/ Pending(perm, d)' = Pending(perm, d) \cup {p} /\ perm = r.perm
  BY <1>3, <1>4, <1>6, PendingNext
<1>8. /\ gauge[perm] \in Int
      /\ IsFiniteSet(LiveTokens(perm)) /\ Cardinality(LiveTokens(perm)) \in Nat
      /\ IsFiniteSet(Pending(perm, 1)) /\ Cardinality(Pending(perm, 1)) \in Nat
      /\ IsFiniteSet(Pending(perm, -1)) /\ Cardinality(Pending(perm, -1)) \in Nat
  BY <1>2, FiniteCounts DEF TypeOK
<1>9. CASE perm # r.perm
  <2>1. Pending(perm, 1)' = Pending(perm, 1) /\ Pending(perm, -1)' = Pending(perm, -1)
    BY <1>7, <1>9
  <2>2. LiveTokens(perm)' = LiveTokens(perm)
    BY <1>1, <1>2, <1>9, LiveMarked
  <2>3. QED BY <1>4, <1>5, <2>1, <2>2 DEF Covers
<1>10. CASE perm = r.perm
  <2>1. t \in LiveTokens(perm) /\ LiveTokens(perm)' = LiveTokens(perm) \ {t}
    BY <1>1, <1>2, <1>10, LiveMarked
  <2>2. Cardinality(LiveTokens(perm)') = Cardinality(LiveTokens(perm)) - 1
    <3>1. Cardinality(LiveTokens(perm) \ {t}) = Cardinality(LiveTokens(perm)) - 1
      BY <1>8, <2>1, FS_RemoveElement
    <3>2. QED BY <2>1, <3>1
  <2>3. \A d : /\ IsFiniteSet(Pending(perm, d)) /\ Cardinality(Pending(perm, d)) \in Nat
               /\ \/ Cardinality(Pending(perm, d)') = Cardinality(Pending(perm, d))
                  \/ Cardinality(Pending(perm, d)') = Cardinality(Pending(perm, d)) + 1
    BY <1>6, <1>7, FiniteCounts, FS_AddElement
  <2>4. /\ \/ Cardinality(Pending(perm, 1)') = Cardinality(Pending(perm, 1))
           \/ Cardinality(Pending(perm, 1)') = Cardinality(Pending(perm, 1)) + 1
        /\ \/ Cardinality(Pending(perm, -1)') = Cardinality(Pending(perm, -1))
           \/ Cardinality(Pending(perm, -1)') = Cardinality(Pending(perm, -1)) + 1
    BY <2>3
  <2>5. gauge'[perm] = gauge[perm]
    BY <1>4
  <2>6. QED BY <1>5, <1>8, <2>2, <2>4, <2>5 DEF Covers
<1>11. QED BY <1>9, <1>10

\* The start counts the tokens of the database.
LEMMA StartCovers ==
  ASSUME IInv, Start, NEW perm \in Perm
  PROVE  Covers(perm)'
<1>1. \A p \in Actor : req'[p].pc # "Gauge"
  <2>1. \A p \in Actor : req[p] = Idle
    <3>1. proc = "down" /\ TypeOK
      BY DEF Start, IInv
    <3>2. req = [p \in Actor |-> Idle]
      BY <3>1 DEF TypeOK
    <3>3. QED BY <3>2
  <2>2. /\ req'[Boot] = [Idle EXCEPT !.pc = "Find"]
        /\ \A q \in Actor \ {Boot} : req'[q] = req[q]
    <3>1. req \in [Actor -> ReqRec]
      BY DEF IInv, TypeOK
    <3>2. req' = [req EXCEPT ![Boot] = [Idle EXCEPT !.pc = "Find"]]
      BY DEF Start
    <3>3. QED BY <3>1, <3>2, Actors
  <2>3. [Idle EXCEPT !.pc = "Find"].pc = "Find"
    BY DEF Idle
  <2>4. QED BY <2>1, <2>2, <2>3, IdleOK
<1>2. \A d : Pending(perm, d)' = {}
  BY <1>1 DEF Pending, At
<1>3. LiveTokens(perm)' = LiveTokens(perm)
  BY LiveSame DEF Start, View
<1>4. gauge'[perm] = Cardinality(LiveTokens(perm)) /\ Cardinality(LiveTokens(perm)) \in Nat
  BY FiniteCounts DEF Start
<1>5. Cardinality({}) = 0
  BY FS_EmptySet
<1>6. QED BY <1>2, <1>3, <1>4, <1>5 DEF Covers

\* Every other step is quiet, or ends the process.
LEMMA OtherSteps ==
  ASSUME IInv, Next
  PROVE  \/ proc' = "down" \/ UNCHANGED vars \/ Start
         \/ \E p \in Actor : Quiet(p) \/ PutToken(p) \/ Count(p)
         \/ \E p \in Req : /\ At(p, "Remove") /\ Commit(p)
                           /\ Goto(p, [req[p] EXCEPT !.pc = "Gauge"])
<1> USE Actors
<1> DEFINE Tokens == \A t \in Token : db'[TokenKey(t)] = db[TokenKey(t)]
           Resting(r) == r.pc # "Gauge"
<1>1. ASSUME NEW p \in Actor, proc # "down", ~At(p, "Gauge"), Tokens,
             \/ \E a : Respond(p, a)
             \/ \E r : Resting(r) /\ Goto(p, r)
      PROVE  Quiet(p)
  BY <1>1, IdleOK DEF Quiet, Respond, Goto
<1>2. db' = db => Tokens
  OBVIOUS
<1>3. ASSUME NEW p \in Actor, Fail(p), proc # "down", ~At(p, "Gauge")
      PROVE  Quiet(p) \/ proc' = "down"
  BY <1>1, <1>2, <1>3 DEF Fail, View, Exit
<1>4. TypeOK
  BY DEF IInv
<1>5. \A p \in Actor : ~At(p, "idle") => proc # "down"
  BY <1>4, IdleOK DEF TypeOK, At
<1>6. ASSUME NEW u \in User, PutsUser(u) PROVE Tokens
  BY <1>4, <1>6, TypeParts, PutsUserKept
<1>7. ASSUME NEW p \in Actor, NEW u \in User, NEW perm \in Perm,
             proc # "down", ~At(p, "Gauge"),
             CreateUserOf(p, u) \/ GenerateTokenOf(p, u, perm)
      PROVE  Quiet(p) \/ proc' = "down"
  <2>1. CASE Fail(p)
    BY <1>3, <1>7, <2>1
  <2>2. CASE View /\ Goto(p, [Idle EXCEPT !.pc = "PutUser", !.user = u])
    <3>1. Resting([Idle EXCEPT !.pc = "PutUser", !.user = u])
      BY DEF Idle
    <3>2. QED BY <1>1, <1>2, <1>7, <2>2, <3>1 DEF View
  <2>3. ASSUME View, NEW t \in Token,
               Goto(p, [Idle EXCEPT !.pc = "PutToken", !.user = u, !.perm = perm, !.token = t])
        PROVE  Quiet(p)
    <3>1. Resting([Idle EXCEPT !.pc = "PutToken", !.user = u, !.perm = perm, !.token = t])
      BY DEF Idle
    <3>2. QED BY <1>1, <1>2, <1>7, <2>3, <3>1 DEF View
  <2>4. CASE CreateUserOf(p, u)
    BY <2>1, <2>2, <2>4, Zenon DEF CreateUserOf
  <2>5. CASE GenerateTokenOf(p, u, perm)
    BY <2>1, <2>3, <2>5, Zenon DEF GenerateTokenOf
  <2>6. QED BY <1>7, <2>4, <2>5
<1>8. ASSUME NEW p \in Req, Call(p) PROVE Quiet(p) \/ proc' = "down"
  <2>1. proc # "down" /\ ~At(p, "Gauge") /\ At(p, "idle")
    BY <1>8 DEF Call, CreateUser, DeleteUser, GenerateToken, RemoveToken, RecoverToken,
                Verify, Starts, At
  <2>2. CASE Fail(p)
    BY <1>3, <2>1, <2>2
  <2>3. ASSUME NEW u \in User, CreateUser(p, u) PROVE Quiet(p) \/ proc' = "down"
    <3>1. Admin \in Perm
      BY ConstantsOK
    <3>2. QED BY <1>7, <2>1, <2>3, <3>1 DEF CreateUser
  <2>4. ASSUME NEW u \in User, NEW perm \in Perm, GenerateToken(p, u, perm)
        PROVE  Quiet(p) \/ proc' = "down"
    BY <1>7, <2>1, <2>4 DEF GenerateToken
  <2>5. ASSUME NEW u \in User, DeleteUser(p, u), ~Fail(p) PROVE Quiet(p)
    <3>1. Put(One(UserKey(u), [deleted |-> TRUE])) /\ Respond(p, "ok")
      BY <2>5 DEF DeleteUser
    <3>2. [deleted |-> TRUE] \in UserRec
      BY DEF UserRec
    <3>3. PutsUser(u)
      BY <3>1, <3>2 DEF Put, PutsUser
    <3>4. QED BY <1>1, <1>6, <2>1, <3>1, <3>3
  <2>6. ASSUME NEW t \in Token, RemoveToken(p, t), ~Fail(p) PROVE Quiet(p)
    <3> DEFINE r == [Idle EXCEPT !.pc = "Remove", !.token = t,
                                 !.perm = db[TokenKey(t)].perm, !.delta = -1]
    <3>1. Goto(p, r) /\ db' = db
      BY <2>6 DEF RemoveToken, SoftDelete, Begin
    <3>2. Resting(r)
      BY DEF Idle
    <3> HIDE DEF r
    <3>3. QED BY <1>1, <1>2, <2>1, <3>1, <3>2
  <2>7. ASSUME NEW t \in Token, RecoverToken(p, t), ~Fail(p) PROVE Quiet(p)
    <3> DEFINE r == [Idle EXCEPT !.pc = "PutToken", !.token = t,
                       !.user = db[TokenKey(t)].name, !.perm = db[TokenKey(t)].perm]
    <3>1. Goto(p, r) /\ db' = db
      BY <2>7 DEF RecoverToken, View
    <3>2. Resting(r)
      BY DEF Idle
    <3> HIDE DEF r
    <3>3. QED BY <1>1, <1>2, <2>1, <3>1, <3>2
  <2>8. ASSUME NEW t \in Token, Verify(p, t), ~Fail(p) PROVE Quiet(p)
    BY <1>1, <1>2, <2>1, <2>8 DEF Verify, View
  <2>9. QED BY <1>8, <2>2, <2>3, <2>4, <2>5, <2>6, <2>7, <2>8 DEF Call
<1>9. ASSUME NEW p \in Req, RemoveTokenCommit(p)
      PROVE  \/ Quiet(p)
             \/ /\ At(p, "Remove") /\ Commit(p)
                /\ Goto(p, [req[p] EXCEPT !.pc = "Gauge"])
  <2>1. At(p, "Remove") /\ ~At(p, "Gauge") /\ proc # "down"
    BY <1>5, <1>9 DEF RemoveTokenCommit, At
  <2>2. CASE Discard({p}) /\ Respond(p, "error")
    BY <1>1, <1>2, <2>1, <2>2 DEF Discard
  <2>3. QED BY <1>9, <2>1, <2>2, Zenon DEF RemoveTokenCommit
<1>10. ASSUME NEW p \in Actor, PutUser(p) PROVE Quiet(p)
  <2>1. At(p, "PutUser") /\ ~At(p, "Gauge") /\ proc # "down"
    BY <1>5, <1>10 DEF PutUser, At
  <2>2. req[p].user \in User /\ [deleted |-> FALSE] \in UserRec
    BY <1>4, <2>1, TypeParts DEF RecOK, At, UserRec
  <2>3. Tokens
    BY <1>6, <1>10, <2>2 DEF PutUser, Put, PutsUser
  <2>4. Resting([Idle EXCEPT !.pc = "GenerateDefault"])
    BY DEF Idle
  <2>5. QED BY <1>1, <1>10, <2>1, <2>3, <2>4 DEF PutUser
<1>11. ASSUME Find PROVE Quiet(Boot)
  <2>1. ~At(Boot, "Gauge") /\ proc # "down" /\ View
    BY <1>5, <1>11 DEF Find, At
  <2>2. Resting([Idle EXCEPT !.pc = "CreateDefault"])
    BY DEF Idle
  <2>3. \A t : Resting([Idle EXCEPT !.pc = "Save", !.token = t])
    BY DEF Idle
  <2>4. \/ Goto(Boot, [Idle EXCEPT !.pc = "CreateDefault"])
        \/ \E t : Goto(Boot, [Idle EXCEPT !.pc = "Save", !.token = t])
    BY <1>11, Zenon DEF Find
  <2>5. \E r : Resting(r) /\ Goto(Boot, r)
    BY <2>2, <2>3, <2>4, Zenon
  <2>6. QED BY <1>1, <1>2, <2>1, <2>5 DEF View
<1>12. ASSUME CreateDefault \/ GenerateDefault PROVE Quiet(Boot) \/ proc' = "down"
  <2>1. ~At(Boot, "Gauge") /\ proc # "down"
    BY <1>5, <1>12 DEF CreateDefault, GenerateDefault, At
  <2>2. QED BY <1>7, <1>12, <2>1, ConstantsOK DEF CreateDefault, GenerateDefault
<1>13. ASSUME Save PROVE Quiet(Boot)
  <2>1. ~At(Boot, "Gauge") /\ proc # "down" /\ db' = db
    BY <1>5, <1>13 DEF Save, At, View
  <2>2. QED BY <1>2, <1>13, <2>1, IdleOK DEF Save, Quiet
<1>14. Crash => proc' = "down"
  BY DEF Crash, Exit
<1>15. QED BY <1>8, <1>9, <1>10, <1>11, <1>12, <1>13, <1>14 DEF Next

\* The gauge never shows fewer tokens than there are (jwt.go:313), however
\* removals, recoveries and restarts interleave.
THEOREM Gauge == Spec => []GaugeCovers
<1>1. Init => GaugeCovers
  BY DEF Init, GaugeCovers
<1>2. ASSUME IInv, GaugeCovers, [Next]_vars PROVE GaugeCovers'
  <2>1. CASE proc' = "down"
    BY <2>1 DEF GaugeCovers
  <2>2. CASE UNCHANGED vars
    BY <1>2, <2>2 DEF vars, GaugeCovers, Pending, LiveTokens, Live, At
  <2>3. ASSUME Start PROVE GaugeCovers'
    BY <1>2, <2>3, StartCovers DEF GaugeCovers, Covers
  <2>4. ASSUME NEW p \in Actor, Quiet(p) \/ PutToken(p) \/ Count(p) PROVE GaugeCovers'
    BY <1>2, <2>4, QuietCovers, PutTokenCovers, CountCovers DEF GaugeCovers, Covers, IInv
  <2>5. ASSUME NEW p \in Req, At(p, "Remove"), Commit(p),
               Goto(p, [req[p] EXCEPT !.pc = "Gauge"])
        PROVE  GaugeCovers'
    BY <1>2, <2>5, RemoveTokenCovers DEF GaugeCovers, Covers
  <2>6. QED BY <1>2, <2>1, <2>2, <2>3, <2>4, <2>5, OtherSteps, Zenon
<1>3. QED BY <1>1, <1>2, Inductive, PTL DEF Spec
=============================================================================
