--------------------------- MODULE AccountsProofs ---------------------------
(* Theorems about Accounts, for any users, miners, signers and requests. *)
EXTENDS Accounts, TLAPS

-----------------------------------------------------------------------------
(* The keys *)

\* A user's, a miner's and a signer's key are never the same key.
LEMMA KeysDisjoint ==
  /\ UserKeys \cap MinerKeys = {}
  /\ UserKeys \cap SignerKeys = {}
  /\ MinerKeys \cap SignerKeys = {}
BY DEF UserKeys, MinerKeys, SignerKeys, UserKey, MinerKey, SignerKey

\* Different names and addresses have different keys.
LEMMA KeysInjective ==
  /\ \A u, v : UserKey(u) = UserKey(v) => u = v
  /\ \A m, n : MinerKey(m) = MinerKey(n) => m = n
  /\ \A s, r, u, v : SignerKey(s, u) = SignerKey(r, v) => s = r /\ u = v
BY DEF UserKey, MinerKey, SignerKey

\* The keys of known names are keys of the database.
LEMMA KeysKnown ==
  /\ \A u \in User : UserKey(u) \in UserKeys
  /\ \A m \in Miner : MinerKey(m) \in MinerKeys
  /\ \A s \in Signer, u \in User : SignerKey(s, u) \in SignerKeys
  /\ UserKeys \subseteq Key /\ MinerKeys \subseteq Key /\ SignerKeys \subseteq Key
BY DEF UserKeys, MinerKeys, SignerKeys, Key

\* A request's two transactions are transactions, and no other's.
LEMMA TxnsDistinct ==
  \A p, q \in Req : /\ Main(p) \in Txn /\ Sub(p) \in Txn
                    /\ Main(p) # Sub(q)
                    /\ p # q => Main(p) # Main(q) /\ Sub(p) # Sub(q)
BY DEF Main, Sub, Txn

-----------------------------------------------------------------------------
(* The store keeps its types *)

StoreOK ==
  /\ db = [k \in Key |-> db[k]] /\ Typed(db)
  /\ txn = [t \in Txn |-> txn[t]] /\ \A t \in Txn : TxnOK(txn[t])

\* Applying well-typed writes leaves a well-typed database.
LEMMA InstallTyped ==
  ASSUME StoreOK, NEW w, Writable(w)
  PROVE  /\ Typed(Install(w))
         /\ DOMAIN Install(w) = Key
         /\ Install(w) = [k \in Key |-> Install(w)[k]]
BY DEF StoreOK, Writable, Typed, Install

\* What transactions learn of a commit leaves them well typed.
LEMMA NotifyOK ==
  ASSUME StoreOK, NEW ks
  PROVE  /\ Notify(ks) = [t \in Txn |-> Notify(ks)[t]]
         /\ \A t \in Txn : TxnOK(Notify(ks)[t])
<1> DEFINE N == Notify(ks)
<1>1. ASSUME NEW t \in Txn PROVE TxnOK(N[t])
  <2>1. N[t] = [txn[t] EXCEPT !.dirty = @ \cup (ks \cap Watched(t))]
    BY DEF Notify
  <2>2. TxnOK(txn[t])
    BY DEF StoreOK
  <2>3. Watched(t) \subseteq Key
    BY <2>2 DEF Watched, TxnOK, Typed
  <2>4. QED BY <2>1, <2>2, <2>3 DEF TxnOK
<1>2. QED BY <1>1 DEF Notify

\* The transaction record of a closed transaction.
LEMMA NoTxnOK == TxnOK(NoTxn)
BY DEF TxnOK, NoTxn, NoWrites, Writable, Typed

\* What transaction x keeps when another one acts: its reads, writes and
\* snapshot are its own, and a key it watches is unchanged or known dirty.
Kept(x) ==
  /\ txn'[x].reads = txn[x].reads
  /\ txn'[x].writes = txn[x].writes
  /\ txn'[x].snap = txn[x].snap
  /\ txn[x].dirty \subseteq txn'[x].dirty
  /\ \A k \in Watched(x) : db'[k] = db[k] \/ k \in txn'[x].dirty

LEMMA NotifyKeeps ==
  ASSUME StoreOK, NEW w, NEW x \in Txn,
         db' = Install(w), txn'[x] = Notify(DOMAIN w)[x]
  PROVE  Kept(x)
<1>1. txn'[x] = [txn[x] EXCEPT !.dirty = @ \cup (DOMAIN w \cap Watched(x))]
  BY DEF Notify
<1>2. TxnOK(txn[x])
  BY DEF StoreOK
<1>3. /\ txn'[x].reads = txn[x].reads
      /\ txn'[x].writes = txn[x].writes
      /\ txn'[x].snap = txn[x].snap
      /\ txn'[x].dirty = txn[x].dirty \cup (DOMAIN w \cap Watched(x))
  BY <1>1, <1>2 DEF TxnOK
<1>4. Watched(x) \subseteq Key
  BY <1>2 DEF Watched, TxnOK, Typed
<1>5. \A k \in Watched(x) : db'[k] = db[k] \/ k \in txn'[x].dirty
  BY <1>3, <1>4 DEF Install
<1>6. QED BY <1>3, <1>5 DEF Kept

LEMMA PutOK ==
  ASSUME StoreOK, NEW w, Writable(w), Put(w)
  PROVE  StoreOK' /\ \A x \in Txn : Kept(x)
<1>1. db' = Install(w) /\ txn' = Notify(DOMAIN w)
  BY DEF Put
<1>2. Typed(db') /\ db' = [k \in Key |-> db'[k]]
  BY <1>1, InstallTyped
<1>3. txn' = [t \in Txn |-> txn'[t]] /\ \A t \in Txn : TxnOK(txn'[t])
  BY <1>1, NotifyOK
<1>4. StoreOK'
  BY <1>2, <1>3 DEF StoreOK, Typed
<1>5. QED BY <1>1, <1>4, NotifyKeeps

LEMMA CommitOK ==
  ASSUME StoreOK, NEW t \in Txn, Commit(t)
  PROVE  StoreOK' /\ \A x \in Txn \ {t} : Kept(x)
<1> DEFINE w == txn[t].writes
<1>1. db' = Install(w) /\ txn' = [Notify(DOMAIN w) EXCEPT ![t] = NoTxn]
  BY DEF Commit
<1>2. Writable(w)
  BY DEF StoreOK, TxnOK
<1>3. Typed(db') /\ db' = [k \in Key |-> db'[k]]
  BY <1>1, <1>2, InstallTyped
<1>4. txn' = [x \in Txn |-> txn'[x]] /\ \A x \in Txn : TxnOK(txn'[x])
  BY <1>1, NotifyOK, NoTxnOK
<1>5. StoreOK'
  BY <1>3, <1>4 DEF StoreOK, Typed
<1>6. ASSUME NEW x \in Txn \ {t} PROVE txn'[x] = Notify(DOMAIN w)[x]
  BY <1>1 DEF Notify
<1>7. QED BY <1>1, <1>5, <1>6, NotifyKeeps

\* A step that leaves the database and the transaction alone keeps it.
LEMMA SameKept ==
  ASSUME NEW x, db' = db, txn'[x] = txn[x] PROVE Kept(x)
BY DEF Kept

LEMMA BeginOK ==
  ASSUME StoreOK, NEW t \in Txn, NEW rs, NEW w, NEW ks,
         rs \subseteq Key, ks \subseteq Key, Writable(w), Begin(t, rs, w, ks)
  PROVE  /\ StoreOK'
         /\ \A x \in Txn \ {t} : Kept(x)
         /\ db' = db
         /\ txn'[t] = [open |-> TRUE, reads |-> rs, writes |-> w,
                       dirty |-> {}, snap |-> [k \in ks |-> db[k]]]
<1> DEFINE y == [open |-> TRUE, reads |-> rs, writes |-> w,
                 dirty |-> {}, snap |-> [k \in ks |-> db[k]]]
<1>1. db' = db /\ txn' = [txn EXCEPT ![t] = y]
  BY DEF Begin
<1>2. Typed([k \in ks |-> db[k]])
  BY DEF StoreOK, Typed
<1>3. TxnOK(y)
  BY <1>2 DEF TxnOK
<1> HIDE DEF y
<1>4. txn' = [x \in Txn |-> txn'[x]] /\ \A x \in Txn : TxnOK(txn'[x])
  BY <1>1, <1>3 DEF StoreOK
<1>5. StoreOK'
  BY <1>1, <1>4 DEF StoreOK, Typed
<1>6. txn'[t] = y /\ \A x \in Txn \ {t} : txn'[x] = txn[x]
  BY <1>1 DEF StoreOK
<1>7. QED BY <1>1, <1>5, <1>6, SameKept DEF y

LEMMA ExtendOK ==
  ASSUME StoreOK, NEW t \in Txn, NEW rs, NEW w,
         rs \subseteq Key, Writable(w), Extend(t, rs, w)
  PROVE  /\ StoreOK'
         /\ \A x \in Txn \ {t} : Kept(x)
         /\ db' = db
         /\ txn'[t].reads = txn[t].reads \cup rs
         /\ txn'[t].dirty = txn[t].dirty
         /\ txn'[t].snap = txn[t].snap
         /\ DOMAIN txn'[t].writes = DOMAIN txn[t].writes \cup DOMAIN w
         /\ \A k \in DOMAIN w : txn'[t].writes[k] = w[k]
<1> DEFINE o == txn[t].writes
           n == [k \in DOMAIN o \cup DOMAIN w |-> IF k \in DOMAIN w THEN w[k] ELSE o[k]]
           y == [open |-> TRUE, reads |-> txn[t].reads \cup rs, writes |-> n,
                 dirty |-> txn[t].dirty, snap |-> txn[t].snap]
<1>1. db' = db /\ txn' = [txn EXCEPT ![t] = y]
  BY DEF Extend
<1>2. TxnOK(txn[t])
  BY DEF StoreOK
<1>3. Writable(n)
  BY <1>2 DEF TxnOK, Writable, Typed
<1>4. TxnOK(y)
  <2> HIDE DEF n
  <2> QED BY <1>2, <1>3 DEF TxnOK
<1>5. txn' = [x \in Txn |-> txn'[x]] /\ \A x \in Txn : TxnOK(txn'[x])
  BY <1>1, <1>4 DEF StoreOK
<1>6. StoreOK'
  BY <1>1, <1>5 DEF StoreOK, Typed
<1>7. txn'[t] = y /\ \A x \in Txn \ {t} : txn'[x] = txn[x]
  BY <1>1 DEF StoreOK
<1>8. QED BY <1>1, <1>6, <1>7, SameKept

LEMMA DiscardOK ==
  ASSUME StoreOK, NEW ts, Discard(ts)
  PROVE  StoreOK' /\ \A x \in Txn \ ts : Kept(x)
<1>1. StoreOK'
  BY NoTxnOK DEF StoreOK, Discard, Typed
<1>2. \A x \in Txn \ ts : txn'[x] = txn[x] /\ db' = db
  BY DEF Discard
<1>3. QED BY <1>1, <1>2, SameKept

LEMMA ViewOK ==
  ASSUME StoreOK, View PROVE StoreOK' /\ \A x \in Txn : Kept(x)
<1>1. StoreOK'
  BY DEF StoreOK, View, Typed
<1>2. QED BY <1>1, SameKept DEF View

\* Erasing and writing one record.
LEMMA OneWritable ==
  /\ \A u \in User, v \in UserRec : Writable(One(UserKey(u), v))
  /\ \A m \in Miner, v \in MinerRec : Writable(One(MinerKey(m), v))
  /\ \A s \in Signer, u \in User, v \in SignerRec : Writable(One(SignerKey(s, u), v))
  /\ Writable(NoWrites)
<1> USE KeysDisjoint, KeysKnown, ConstantsOK DEF Writable, Typed, One
<1>1. \A u \in User, v \in UserRec : Writable(One(UserKey(u), v))
  OBVIOUS
<1>2. \A m \in Miner, v \in MinerRec : Writable(One(MinerKey(m), v))
  OBVIOUS
<1>3. \A s \in Signer, u \in User, v \in SignerRec : Writable(One(SignerKey(s, u), v))
  OBVIOUS
<1>4. Writable(NoWrites)
  BY DEF NoWrites
<1>5. QED BY <1>1, <1>2, <1>3, <1>4

-----------------------------------------------------------------------------
(* One request acts, the others keep what they rely on *)

ReqsOK ==
  /\ req \in [Req -> ReqRec] /\ \A p \in Req : LocalsOK(req[p])
  /\ out \in [Req -> Answers]

OthersKept(p) == \A x \in Txn \ {Main(p), Sub(p)} : Kept(x)

LEMMA TypeParts == TypeOK <=> StoreOK /\ ReqsOK
BY DEF TypeOK, StoreOK, ReqsOK

\* What the steps of DeleteUser rely on, kept by every step.
LEMMA DeleteKept ==
  ASSUME NEW q \in Req, DeleteInv(q), Kept(Main(q)), req'[q].user = req[q].user,
         At(q, "DeleteUser.miners")' => At(q, "DeleteUser.miners")
  PROVE  DeleteInv(q)'
<1> PICK u : u = req[q].user
  OBVIOUS
<1> DEFINE t == txn[Main(q)]
<1>1. ReadLive(t, UserKey(u))'
  BY DEF DeleteInv, ReadLive, Live, Kept, Watched
<1>2. MinerKeys \subseteq DOMAIN t'.snap
  BY DEF DeleteInv, Kept
<1>3. ASSUME NEW m \in Miner
      PROVE  db'[MinerKey(m)] = t'.snap[MinerKey(m)] \/ MinerKey(m) \in t'.dirty
  BY KeysKnown DEF DeleteInv, Kept, Watched
<1>4. ASSUME NEW m \in Miner, MinerKey(m) \in DOMAIN t'.writes
      PROVE  /\ ~At(q, "DeleteUser.miners")'
             /\ MinerKey(m) \in t'.reads
             /\ \/ Owns(u, m)' /\ t'.writes[MinerKey(m)] = Erased(db'[MinerKey(m)])
                \/ MinerKey(m) \in t'.dirty
  BY <1>4, KeysKnown DEF DeleteInv, Kept, Watched, Owns, Live
<1>5. QED BY <1>1, <1>2, <1>3, <1>4 DEF DeleteInv

\* A request whose step did not happen keeps its part of the invariant.
LEMMA FrameInv ==
  ASSUME TypeOK, NEW q \in Req, RequestInv(q), req'[q] = req[q],
         Kept(Main(q)), Kept(Sub(q))
  PROVE  RequestInv(q)'
<1> DEFINE t == txn[Main(q)]
           r == req[q]
<1>1. \A k : /\ ReadLive(t, k) => ReadLive(t, k)'
             /\ ReadPresent(t, k) => ReadPresent(t, k)'
  BY DEF Kept, Watched, ReadLive, ReadPresent, Live, Absent
<1>2. \A k : ReadLive(txn[Sub(q)], k) => ReadLive(txn[Sub(q)], k)'
  BY DEF Kept, Watched, ReadLive, Live
<1>3. LocalsOK(r)
  BY DEF TypeOK
<1>4. DeleteInv(q) => DeleteInv(q)'
  BY DeleteKept DEF At
<1>5. QED BY <1>1, <1>2, <1>4 DEF RequestInv, At, Kept, Watched, Absent

\* A request that does nothing relies on nothing.
LEMMA IdleInv ==
  ASSUME NEW p \in Req, req[p].pc \in {"idle", "PutUser", "OwnerDelMiner",
           "GetUserByMiner", "Register", "Unregister", "OwnerDelSigner", "GetUserBySigner"}
  PROVE  RequestInv(p)
BY DEF RequestInv, At, Deleting

LEMMA StepInv ==
  ASSUME IInv, NEW p \in Req, StoreOK', ReqsOK', OthersKept(p), RequestInv(p)',
         \A q \in Req \ {p} : req'[q] = req[q]
  PROVE  IInv'
<1>1. TypeOK'
  BY TypeParts DEF TypeOK, StoreOK, ReqsOK
<1>2. ASSUME NEW q \in Req \ {p} PROVE RequestInv(q)'
  <2>1. Kept(Main(q)) /\ Kept(Sub(q))
    BY TxnsDistinct DEF OthersKept
  <2>2. QED BY <2>1, FrameInv DEF IInv
<1>3. QED BY <1>1, <1>2 DEF IInv

LEMMA IdleRec == Idle \in ReqRec /\ LocalsOK(Idle)
BY DEF Idle, ReqRec, PC, Answers, LocalsOK

\* p answers after a step of the store.
LEMMA RespondStep ==
  ASSUME IInv, NEW p \in Req, StoreOK', OthersKept(p),
         NEW a \in Answers, Respond(p, a)
  PROVE  IInv'
<1>1. req' = [req EXCEPT ![p] = Idle] /\ out' = [Silent EXCEPT ![p] = a]
  BY DEF Respond
<1>2. ReqsOK'
  BY <1>1, IdleRec DEF ReqsOK, IInv, TypeOK, Silent, Answers
<1>3. req'[p] = Idle /\ \A q \in Req \ {p} : req'[q] = req[q]
  BY <1>1 DEF IInv, TypeOK
<1>4. RequestInv(p)'
  BY <1>3 DEF RequestInv, At, Deleting, Idle
<1>5. QED BY <1>2, <1>3, <1>4, StepInv

\* p goes on to r after a step of the store.
LEMMA GotoReqs ==
  ASSUME IInv, NEW p \in Req, NEW r \in ReqRec, LocalsOK(r), Goto(p, r)
  PROVE  ReqsOK' /\ req'[p] = r /\ \A q \in Req \ {p} : req'[q] = req[q]
<1>1. req' = [req EXCEPT ![p] = r] /\ out' = Silent
  BY DEF Goto
<1>2. QED BY <1>1 DEF ReqsOK, IInv, TypeOK, Silent, Answers

LEMMA GotoStep ==
  ASSUME IInv, NEW p \in Req, StoreOK', OthersKept(p),
         NEW r \in ReqRec, LocalsOK(r), Goto(p, r), RequestInv(p)'
  PROVE  IInv'
BY GotoReqs, StepInv

\* The end of a transaction is a step of the store either way.
LEMMA FinishStep ==
  ASSUME IInv, NEW p \in Req, NEW a \in Answers, Finish(p, Main(p), a)
  PROVE  IInv'
<1> USE TypeParts, TxnsDistinct DEF IInv
<1>1. CASE Commit(Main(p)) /\ Respond(p, a)
  BY <1>1, CommitOK, RespondStep DEF OthersKept
<1>2. CASE Conflict(Main(p)) /\ Discard({Main(p)}) /\ Respond(p, "error")
  <2>1. "error" \in Answers
    BY DEF Answers
  <2>2. QED BY <1>2, <2>1, DiscardOK, RespondStep DEF OthersKept
<1>3. QED BY <1>1, <1>2 DEF Finish

\* A step that reads and answers.
LEMMA ViewRespond ==
  ASSUME IInv, NEW p \in Req, NEW a \in Answers, View, Respond(p, a)
  PROVE  IInv'
BY ViewOK, TypeParts, RespondStep DEF IInv, OthersKept

\* A step that reads and goes on to a point where nothing is relied on.
LEMMA ViewGoto ==
  ASSUME IInv, NEW p \in Req, NEW r \in ReqRec, LocalsOK(r), View, Goto(p, r),
         r.pc \in {"idle", "PutUser", "OwnerDelMiner", "GetUserByMiner",
                   "Register", "Unregister", "OwnerDelSigner", "GetUserBySigner"}
  PROVE  IInv'
<1>1. StoreOK' /\ OthersKept(p)
  BY ViewOK, TypeParts DEF IInv, OthersKept
<1>2. req'[p] = r
  BY GotoReqs
<1>3. RequestInv(p)'
  BY <1>2 DEF RequestInv, At, Deleting
<1>4. QED BY <1>1, <1>3, GotoStep

-----------------------------------------------------------------------------
(* The actions on users *)

LEMMA AnswersKnown == {"none", "ok", "error", "true", "false"} \subseteq Answers
BY DEF Answers

\* What a request carries to PutUser.
LEMMA PutUserRec ==
  ASSUME NEW u \in User, NEW v \in UserRec
  PROVE  LET r == [Idle EXCEPT !.pc = "PutUser", !.user = u, !.rec = v]
         IN r \in ReqRec /\ LocalsOK(r) /\ r.pc = "PutUser"
<1> DEFINE r == [Idle EXCEPT !.pc = "PutUser", !.user = u, !.rec = v]
<1>1. r \in ReqRec
  BY IdleRec DEF ReqRec, PC
<1>2. r.pc = "PutUser" /\ r.user = u /\ r.rec = v
  BY IdleRec DEF ReqRec
<1> HIDE DEF r
<1>3. LocalsOK(r)
  BY <1>2 DEF LocalsOK
<1>4. QED BY <1>1, <1>2, <1>3 DEF r

LEMMA CreateUserInv ==
  ASSUME IInv, NEW p \in Req, NEW u \in User, NEW st \in UserState,
         CreateUser(p, u, st)
  PROVE  IInv'
<1> DEFINE v == [state |-> st, deleted |-> FALSE]
           r == [Idle EXCEPT !.pc = "PutUser", !.user = u, !.rec = v]
<1>1. r \in ReqRec /\ LocalsOK(r) /\ r.pc = "PutUser"
  <2>1. v \in UserRec
    BY DEF UserRec
  <2>2. QED BY <2>1, PutUserRec
<1>2. CASE View /\ Respond(p, "error")
  BY <1>2, ViewRespond, AnswersKnown
<1>3. CASE View /\ Goto(p, r)
  BY <1>1, <1>3, ViewGoto
<1>4. QED BY <1>2, <1>3 DEF CreateUser

LEMMA UserRecStored ==
  ASSUME TypeOK, NEW u \in User, ~Absent(UserKey(u))
  PROVE  db[UserKey(u)] \in UserRec
BY KeysKnown DEF TypeOK, Typed, Absent

LEMMA MinerRecStored ==
  ASSUME TypeOK, NEW m \in Miner, ~Absent(MinerKey(m))
  PROVE  db[MinerKey(m)] \in MinerRec
BY KeysKnown DEF TypeOK, Typed, Absent

LEMMA SignerRecStored ==
  ASSUME TypeOK, NEW s \in Signer, NEW u \in User, ~Absent(SignerKey(s, u))
  PROVE  db[SignerKey(s, u)] \in SignerRec
BY KeysKnown DEF TypeOK, Typed, Absent

LEMMA UpdateUserInv ==
  ASSUME IInv, NEW p \in Req, NEW u \in User, NEW st \in UserState,
         UpdateUser(p, u, st)
  PROVE  IInv'
<1> DEFINE v == [db[UserKey(u)] EXCEPT !.state = IF st = Undefined THEN @ ELSE st]
           r == [Idle EXCEPT !.pc = "PutUser", !.user = u, !.rec = v]
<1>1. CASE View /\ Respond(p, "error")
  BY <1>1, ViewRespond, AnswersKnown
<1>2. CASE Live(UserKey(u)) /\ View /\ Goto(p, r)
  <2>1. v \in UserRec
    BY <1>2, UserRecStored DEF IInv, Live, Absent, UserRec
  <2> HIDE DEF v
  <2>2. r \in ReqRec /\ LocalsOK(r) /\ r.pc = "PutUser"
    BY <2>1, PutUserRec
  <2>3. QED BY <1>2, <2>2, ViewGoto
<1>3. QED BY <1>1, <1>2 DEF UpdateUser

LEMMA RecoverUserInv ==
  ASSUME IInv, NEW p \in Req, NEW u \in User, RecoverUser(p, u)
  PROVE  IInv'
<1> DEFINE v == [db[UserKey(u)] EXCEPT !.deleted = FALSE]
           r == [Idle EXCEPT !.pc = "PutUser", !.user = u, !.rec = v]
<1>1. CASE View /\ Respond(p, "error")
  BY <1>1, ViewRespond, AnswersKnown
<1>2. CASE ~Absent(UserKey(u)) /\ View /\ Goto(p, r)
  <2>1. v \in UserRec
    BY <1>2, UserRecStored DEF IInv, UserRec
  <2> HIDE DEF v
  <2>2. r \in ReqRec /\ LocalsOK(r) /\ r.pc = "PutUser"
    BY <2>1, PutUserRec
  <2>3. QED BY <1>2, <2>2, ViewGoto
<1>3. QED BY <1>1, <1>2 DEF RecoverUser

LEMMA PutUserInv ==
  ASSUME IInv, NEW p \in Req, PutUser(p)
  PROVE  IInv'
<1>1. req[p].user \in User /\ req[p].rec \in UserRec
  BY DEF PutUser, At, IInv, TypeOK, LocalsOK
<1>2. StoreOK' /\ OthersKept(p)
  BY <1>1, OneWritable, PutOK, TypeParts DEF PutUser, OthersKept, IInv
<1>3. QED BY <1>2, RespondStep, AnswersKnown DEF PutUser

-----------------------------------------------------------------------------
(* DeleteUser *)

\* A soft-deleted record is a record of the same kind.
LEMMA ErasedTyped ==
  /\ \A v \in UserRec : Erased(v) \in UserRec
  /\ \A v \in MinerRec : Erased(v) \in MinerRec
  /\ \A v \in SignerRec : Erased(v) \in SignerRec
BY DEF Erased, UserRec, MinerRec, SignerRec

LEMMA DeleteUserInv ==
  ASSUME IInv, NEW p \in Req, NEW u \in User, DeleteUser(p, u)
  PROVE  IInv'
<1> DEFINE r == [Idle EXCEPT !.pc = "DeleteUser.miners", !.user = u]
           t == Main(p)
           w == One(UserKey(u), Erased(db[UserKey(u)]))
           ks == MinerKeys \cup {SignerKey(s, u) : s \in Signer}
<1>1. CASE View /\ Respond(p, "error")
  BY <1>1, ViewRespond, AnswersKnown
<1>2. CASE Live(UserKey(u)) /\ Begin(t, {UserKey(u)}, w, ks) /\ Goto(p, r)
  <2>1. r \in ReqRec
    BY IdleRec DEF ReqRec, PC
  <2>2. r.pc = "DeleteUser.miners" /\ r.user = u /\ r.todo = {}
    BY DEF Idle
  <2> HIDE DEF r
  <2>3. LocalsOK(r)
    BY <2>2 DEF LocalsOK
  <2>4. Writable(w)
    BY <1>2, UserRecStored, ErasedTyped, OneWritable DEF IInv, Live, Absent
  <2>5. {UserKey(u)} \subseteq Key /\ ks \subseteq Key
    BY KeysKnown
  <2> HIDE DEF w, ks
  <2>6. /\ StoreOK' /\ OthersKept(p) /\ db' = db
        /\ txn'[t] = [open |-> TRUE, reads |-> {UserKey(u)}, writes |-> w,
                      dirty |-> {}, snap |-> [k \in ks |-> db[k]]]
    <3>1. StoreOK /\ t \in Txn
      BY TypeParts, TxnsDistinct DEF IInv
    <3> HIDE DEF t
    <3>2. QED BY <1>2, <2>4, <2>5, <3>1, BeginOK DEF OthersKept, t
  <2>7. req'[p] = r
    BY <1>2, <2>1, <2>3, GotoReqs
  <2>8. DeleteInv(p)'
    <3>1. ReadLive(txn[t], UserKey(u))'
      BY <1>2, <2>6 DEF ReadLive, Live
    <3>2. MinerKeys \subseteq DOMAIN txn'[t].snap
      BY <2>6 DEF ks
    <3>3. \A m \in Miner : db'[MinerKey(m)] = txn'[t].snap[MinerKey(m)]
      BY <2>6, KeysKnown DEF ks
    <3>4. \A m \in Miner : MinerKey(m) \notin DOMAIN txn'[t].writes
      BY <2>6, KeysKnown, KeysDisjoint DEF w, One
    <3>5. QED BY <2>2, <2>7, <3>1, <3>2, <3>3, <3>4 DEF DeleteInv
  <2>9. RequestInv(p)'
    BY <2>2, <2>7, <2>8 DEF RequestInv, At
  <2>10. QED BY <1>2, <2>1, <2>3, <2>6, <2>9, GotoStep
<1>3. QED BY <1>1, <1>2 DEF DeleteUser

LEMMA DeleteUserMinersInv ==
  ASSUME IInv, NEW p \in Req, DeleteUserMiners(p)
  PROVE  IInv'
<1> PICK u : u = req[p].user
  OBVIOUS
<1> DEFINE t == Main(p)
           snap == txn[t].snap
           listed == {MinerKey(m) : m \in ListMiners(u)}
           w == [k \in listed |-> Erased(snap[k])]
           r == [req[p] EXCEPT !.pc = "DeleteUser.signers"]
<1>1. CASE Discard({t}) /\ Respond(p, "error")
  BY <1>1, DiscardOK, TypeParts, RespondStep, AnswersKnown DEF IInv, OthersKept
<1>2. CASE /\ At(p, "DeleteUser.miners")
           /\ \A k \in listed : snap[k] # Nil
           /\ Extend(t, listed, w)
           /\ Goto(p, r)
  <2>1. req[p] \in ReqRec /\ LocalsOK(req[p]) /\ DeleteInv(p) /\ TxnOK(txn[t])
    BY <1>2, TxnsDistinct DEF IInv, TypeOK, RequestInv, At
  <2>2. u \in User /\ req[p].todo \subseteq Signer
    BY <1>2, <2>1 DEF LocalsOK, At
  <2>3. r \in ReqRec
    BY <2>1 DEF ReqRec, PC
  <2>4. r.pc = "DeleteUser.signers" /\ r.user = u /\ r.todo = req[p].todo
    BY <2>1 DEF ReqRec
  <2> HIDE DEF r
  <2>5. LocalsOK(r)
    BY <2>2, <2>4 DEF LocalsOK
  <2>6. listed \subseteq MinerKeys
    BY KeysKnown DEF ListMiners
  <2>7. Writable(w)
    <3>1. ASSUME NEW k \in listed PROVE w[k] \in MinerRec
      <4>1. snap[k] \in MinerRec
        BY <1>2, <2>1, <2>6 DEF TxnOK, Typed, DeleteInv
      <4>2. QED BY <4>1, ErasedTyped
    <3> HIDE DEF listed
    <3>2. QED BY <2>6, <3>1, KeysDisjoint, KeysKnown, ConstantsOK DEF Writable, Typed
  <2>8. listed \subseteq Key
    BY <2>6, KeysKnown
  <2> HIDE DEF w
  <2>9. /\ StoreOK' /\ OthersKept(p) /\ db' = db
        /\ txn'[t].reads = txn[t].reads \cup listed
        /\ txn'[t].dirty = txn[t].dirty
        /\ txn'[t].snap = snap
        /\ DOMAIN txn'[t].writes = DOMAIN txn[t].writes \cup DOMAIN w
        /\ \A k \in DOMAIN w : txn'[t].writes[k] = w[k]
    <3> HIDE DEF listed
    <3> QED BY <1>2, <2>7, <2>8, ExtendOK, TypeParts, TxnsDistinct DEF IInv, OthersKept
  <2>10. req'[p] = r
    BY <1>2, <2>3, <2>5, GotoReqs
  <2>11. DeleteInv(p)'
    <3>1. ReadLive(txn[t], UserKey(u))'
      BY <2>1, <2>9 DEF DeleteInv, ReadLive, Live
    <3>2. MinerKeys \subseteq DOMAIN txn'[t].snap
      BY <2>1, <2>9 DEF DeleteInv
    <3>3. \A m \in Miner : db'[MinerKey(m)] = txn'[t].snap[MinerKey(m)]
                            \/ MinerKey(m) \in txn'[t].dirty
      BY <2>1, <2>9 DEF DeleteInv
    <3>4. ASSUME NEW m \in Miner, MinerKey(m) \in DOMAIN txn'[t].writes
          PROVE  /\ MinerKey(m) \in txn'[t].reads
                 /\ \/ Owns(u, m)' /\ txn'[t].writes[MinerKey(m)] = Erased(db'[MinerKey(m)])
                    \/ MinerKey(m) \in txn'[t].dirty
      <4>1. MinerKey(m) \in listed
        BY <1>2, <2>1, <2>9, <3>4 DEF DeleteInv, w
      <4>2. Owns(u, m)
        BY <4>1, KeysInjective DEF ListMiners
      <4>3. txn'[t].writes[MinerKey(m)] = Erased(snap[MinerKey(m)])
        BY <2>9, <4>1 DEF w
      <4>4. QED BY <2>1, <2>9, <4>1, <4>2, <4>3 DEF DeleteInv, Owns, Live
    <3>5. QED BY <2>4, <2>10, <3>1, <3>2, <3>3, <3>4 DEF DeleteInv, At
  <2>12. RequestInv(p)'
    BY <2>4, <2>10, <2>11 DEF RequestInv, At
  <2>13. QED BY <1>2, <2>3, <2>5, <2>9, <2>12, GotoStep
<1>3. QED BY <1>1, <1>2 DEF DeleteUserMiners

\* A transaction that reads rs, sets w and reads nothing later.
LEMMA BeginOne ==
  ASSUME IInv, NEW t \in Txn, NEW rs, NEW w,
         rs \subseteq Key, Writable(w), Begin(t, rs, w, {})
  PROVE  /\ StoreOK'
         /\ \A x \in Txn \ {t} : Kept(x)
         /\ db' = db /\ txn'[t].reads = rs
<1> DEFINE none == {}
<1>1. StoreOK /\ none \subseteq Key
  BY TypeParts DEF IInv
<1>2. Begin(t, rs, w, none)
  OBVIOUS
<1> HIDE DEF none
<1>3. /\ StoreOK' /\ (\A x \in Txn \ {t} : Kept(x)) /\ db' = db
      /\ txn'[t] = [open |-> TRUE, reads |-> rs, writes |-> w,
                    dirty |-> {}, snap |-> [y \in none |-> db[y]]]
  BY <1>1, <1>2, BeginOK
<1>4. QED BY <1>3

\* A record that is live is soft-deleted by a transaction that read it.
LEMMA SoftDeleteOK ==
  ASSUME IInv, NEW t \in Txn, NEW k \in MinerKeys \cup SignerKeys,
         Live(k), SoftDelete(t, k)
  PROVE  /\ StoreOK'
         /\ \A x \in Txn \ {t} : Kept(x)
         /\ ReadLive(txn[t], k)'
<1> DEFINE w == One(k, Erased(db[k]))
<1>1. Writable(w)
  BY KeysKnown, MinerRecStored, SignerRecStored, ErasedTyped, OneWritable
     DEF IInv, Live, Absent, MinerKeys, SignerKeys
<1>2. {k} \subseteq Key
  BY KeysKnown
<1>3. Begin(t, {k}, w, {})
  BY DEF SoftDelete
<1> HIDE DEF w
<1>4. /\ StoreOK' /\ \A x \in Txn \ {t} : Kept(x)
      /\ db' = db /\ txn'[t].reads = {k}
  BY <1>1, <1>2, <1>3, BeginOne
<1>5. QED BY <1>4 DEF ReadLive, Live

LEMMA DeleteUserSignersInv ==
  ASSUME IInv, NEW p \in Req, DeleteUserSigners(p)
  PROVE  IInv'
<1> DEFINE r == [req[p] EXCEPT !.pc = "DeleteUser.walk", !.todo = ListSigner(req[p].user)]
<1>1. At(p, "DeleteUser.signers") /\ View /\ Goto(p, r)
  BY DEF DeleteUserSigners
<1>2. req[p] \in ReqRec /\ LocalsOK(req[p]) /\ RequestInv(p)
  BY DEF IInv, TypeOK
<1>3. req[p].user \in User /\ DeleteInv(p)
  BY <1>1, <1>2 DEF LocalsOK, At, RequestInv, Deleting
<1>4. ListSigner(req[p].user) \subseteq Signer
  BY DEF ListSigner
<1>5. r \in ReqRec
  BY <1>2, <1>4 DEF ReqRec, PC
<1>6. r.pc = "DeleteUser.walk" /\ r.user = req[p].user /\ r.todo = ListSigner(req[p].user)
  BY <1>2 DEF ReqRec
<1> HIDE DEF r
<1>7. LocalsOK(r)
  BY <1>3, <1>4, <1>6 DEF LocalsOK
<1>8. StoreOK' /\ OthersKept(p) /\ Kept(Main(p))
  BY <1>1, ViewOK, TypeParts, TxnsDistinct DEF IInv, OthersKept
<1>9. req'[p] = r
  BY <1>1, <1>5, <1>7, GotoReqs
<1>10. DeleteInv(p)'
  BY <1>3, <1>6, <1>8, <1>9, DeleteKept DEF At
<1>11. RequestInv(p)'
  BY <1>6, <1>9, <1>10 DEF RequestInv, At
<1>12. QED BY <1>1, <1>5, <1>7, <1>8, <1>11, GotoStep

LEMMA DeleteUserWalkInv ==
  ASSUME IInv, NEW p \in Req, NEW s \in Signer, DeleteUserWalk(p, s)
  PROVE  IInv'
<1> DEFINE r == [req[p] EXCEPT !.pc = "DeleteUser.unregister", !.addr = s]
           k == SignerKey(s, req[p].user)
<1>1. CASE Discard({Main(p)}) /\ Respond(p, "error")
  BY <1>1, DiscardOK, TypeParts, RespondStep, AnswersKnown DEF IInv, OthersKept
<1>2. CASE At(p, "DeleteUser.walk") /\ Live(k) /\ SoftDelete(Sub(p), k) /\ Goto(p, r)
  <2>1. req[p] \in ReqRec /\ LocalsOK(req[p]) /\ RequestInv(p)
    BY DEF IInv, TypeOK
  <2>2. req[p].user \in User /\ req[p].todo \subseteq Signer /\ DeleteInv(p)
    BY <1>2, <2>1 DEF LocalsOK, At, RequestInv, Deleting
  <2>3. r \in ReqRec
    BY <2>1 DEF ReqRec, PC
  <2>4. /\ r.pc = "DeleteUser.unregister" /\ r.user = req[p].user
        /\ r.todo = req[p].todo /\ r.addr = s
    BY <2>1 DEF ReqRec
  <2> HIDE DEF r
  <2>5. LocalsOK(r)
    BY <2>2, <2>4 DEF LocalsOK
  <2>6. Sub(p) \in Txn /\ k \in MinerKeys \cup SignerKeys
    BY <2>2, TxnsDistinct, KeysKnown
  <2>7. StoreOK' /\ \A x \in Txn \ {Sub(p)} : Kept(x)
    BY <1>2, <2>6, SoftDeleteOK
  <2>8. req'[p] = r
    BY <1>2, <2>3, <2>5, GotoReqs
  <2>9. ReadLive(txn[Sub(p)], SignerKey(req[p].addr, req[p].user))'
    <3> PICK u : u = req[p].user
      OBVIOUS
    <3>1. ReadLive(txn[Sub(p)], SignerKey(s, u))'
      BY <1>2, <2>2, <2>6, SoftDeleteOK
    <3>2. QED BY <2>4, <2>8, <3>1
  <2>10. DeleteInv(p)'
    BY <2>2, <2>4, <2>7, <2>8, TxnsDistinct, DeleteKept DEF At
  <2>11. RequestInv(p)'
    BY <2>4, <2>8, <2>9, <2>10 DEF RequestInv, At
  <2>12. OthersKept(p)
    BY <2>7 DEF OthersKept
  <2>13. QED BY <1>2, <2>3, <2>5, <2>7, <2>11, <2>12, GotoStep
<1>3. QED BY <1>1, <1>2 DEF DeleteUserWalk

LEMMA DeleteUserUnregisterInv ==
  ASSUME IInv, NEW p \in Req, DeleteUserUnregister(p)
  PROVE  IInv'
<1> DEFINE r == [req[p] EXCEPT !.pc = "DeleteUser.walk", !.addr = Nil,
                               !.todo = @ \ {req[p].addr}]
<1>1. CASE Discard({Main(p), Sub(p)}) /\ Respond(p, "error")
  BY <1>1, DiscardOK, TypeParts, RespondStep, AnswersKnown DEF IInv, OthersKept
<1>2. CASE At(p, "DeleteUser.unregister") /\ Commit(Sub(p)) /\ Goto(p, r)
  <2>1. req[p] \in ReqRec /\ LocalsOK(req[p]) /\ RequestInv(p)
    BY DEF IInv, TypeOK
  <2>2. req[p].user \in User /\ req[p].todo \subseteq Signer /\ DeleteInv(p)
    BY <1>2, <2>1 DEF LocalsOK, At, RequestInv, Deleting
  <2>3. r \in ReqRec
    BY <2>1 DEF ReqRec, PC
  <2>4. r.pc = "DeleteUser.walk" /\ r.user = req[p].user /\ r.todo \subseteq req[p].todo
    BY <2>1 DEF ReqRec
  <2> HIDE DEF r
  <2>5. LocalsOK(r)
    BY <2>2, <2>4 DEF LocalsOK
  <2>6. StoreOK' /\ \A x \in Txn \ {Sub(p)} : Kept(x)
    BY <1>2, CommitOK, TypeParts, TxnsDistinct DEF IInv
  <2>7. req'[p] = r
    BY <1>2, <2>3, <2>5, GotoReqs
  <2>8. DeleteInv(p)'
    BY <2>2, <2>4, <2>6, <2>7, TxnsDistinct, DeleteKept DEF At
  <2>9. RequestInv(p)'
    BY <2>4, <2>7, <2>8 DEF RequestInv, At
  <2>10. OthersKept(p)
    BY <2>6 DEF OthersKept
  <2>11. QED BY <1>2, <2>3, <2>5, <2>6, <2>9, <2>10, GotoStep
<1>3. QED BY <1>1, <1>2 DEF DeleteUserUnregister

LEMMA DeleteUserCommitInv ==
  ASSUME IInv, NEW p \in Req, DeleteUserCommit(p)
  PROVE  IInv'
BY FinishStep, AnswersKnown DEF DeleteUserCommit

-----------------------------------------------------------------------------
(* The actions on miners *)

LEMMA UpsertMinerInv ==
  ASSUME IInv, NEW p \in Req, NEW m \in Miner, NEW u \in User, UpsertMiner(p, m, u)
  PROVE  IInv'
<1> DEFINE res == IF Absent(MinerKey(m)) THEN "true" ELSE "false"
           r == [Idle EXCEPT !.pc = "UpsertMiner", !.user = u, !.addr = m, !.res = res]
           t == Main(p)
           rs == {UserKey(u), MinerKey(m)}
           w == One(MinerKey(m), [user |-> u, deleted |-> FALSE])
<1>1. CASE View /\ Respond(p, "error")
  BY <1>1, ViewRespond, AnswersKnown
<1>2. CASE ~Absent(UserKey(u)) /\ Begin(t, rs, w, {}) /\ Goto(p, r)
  <2>1. r \in ReqRec
    BY IdleRec DEF ReqRec, PC, Answers
  <2>2. r.pc = "UpsertMiner" /\ r.user = u /\ r.addr = m /\ r.res = res
    BY DEF Idle
  <2> HIDE DEF r
  <2>3. LocalsOK(r)
    BY <2>2 DEF LocalsOK
  <2>4. Writable(w)
    <3>1. [user |-> u, deleted |-> FALSE] \in MinerRec
      BY DEF MinerRec
    <3>2. QED BY <3>1, OneWritable
  <2>5. rs \subseteq Key
    BY KeysKnown
  <2> HIDE DEF w
  <2>6. /\ StoreOK' /\ OthersKept(p) /\ db' = db /\ txn'[t].reads = rs
    <3>1. t \in Txn
      BY TxnsDistinct
    <3> HIDE DEF t, rs
    <3>2. QED BY <1>2, <2>4, <2>5, <3>1, BeginOne DEF OthersKept, t
  <2>7. req'[p] = r
    BY <1>2, <2>1, <2>3, GotoReqs
  <2>8. ReadPresent(txn[t], UserKey(u))' /\ MinerKey(m) \in txn'[t].reads
    BY <1>2, <2>6 DEF ReadPresent, Absent
  <2>9. (res = "true") <=> Absent(MinerKey(m))'
    BY <2>6 DEF Absent
  <2> HIDE DEF res
  <2>10. RequestInv(p)'
    BY <2>2, <2>7, <2>8, <2>9 DEF RequestInv, At, Deleting
  <2>11. QED BY <1>2, <2>1, <2>3, <2>6, <2>10, GotoStep
<1>3. QED BY <1>1, <1>2 DEF UpsertMiner, UserExists

LEMMA UpsertMinerCommitInv ==
  ASSUME IInv, NEW p \in Req, UpsertMinerCommit(p)
  PROVE  IInv'
<1>1. req[p].res \in Answers
  BY DEF IInv, TypeOK, ReqRec
<1>2. QED BY <1>1, FinishStep DEF UpsertMinerCommit

LEMMA DelMinerBeginInv ==
  ASSUME IInv, NEW p \in Req, NEW m \in Miner, DelMinerBegin(p, m)
  PROVE  IInv'
<1> DEFINE r == [Idle EXCEPT !.pc = "DelMiner", !.addr = m, !.res = "true"]
<1>1. CASE View /\ Respond(p, "false")
  BY <1>1, ViewRespond, AnswersKnown
<1>2. CASE View /\ Respond(p, "error")
  BY <1>2, ViewRespond, AnswersKnown
<1>3. CASE Live(MinerKey(m)) /\ SoftDelete(Main(p), MinerKey(m)) /\ Goto(p, r)
  <2>1. r \in ReqRec
    BY IdleRec DEF ReqRec, PC, Answers
  <2>2. r.pc = "DelMiner" /\ r.addr = m
    BY DEF Idle
  <2> HIDE DEF r
  <2>3. LocalsOK(r)
    BY <2>2 DEF LocalsOK
  <2>4. Main(p) \in Txn /\ MinerKey(m) \in MinerKeys \cup SignerKeys
    BY TxnsDistinct, KeysKnown
  <2>5. StoreOK' /\ OthersKept(p) /\ ReadLive(txn[Main(p)], MinerKey(m))'
    BY <1>3, <2>4, SoftDeleteOK DEF OthersKept
  <2>6. req'[p] = r
    BY <1>3, <2>1, <2>3, GotoReqs
  <2>7. RequestInv(p)'
    BY <2>2, <2>5, <2>6 DEF RequestInv, At, Deleting
  <2>8. QED BY <1>3, <2>1, <2>3, <2>5, <2>7, GotoStep
<1>4. QED BY <1>1, <1>2, <1>3 DEF DelMinerBegin

LEMMA DelMinerInv ==
  ASSUME IInv, NEW p \in Req, NEW m \in Miner, DelMiner(p, m)
  PROVE  IInv'
BY DelMinerBeginInv DEF DelMiner

LEMMA DelMinerCommitInv ==
  ASSUME IInv, NEW p \in Req, DelMinerCommit(p)
  PROVE  IInv'
BY FinishStep, AnswersKnown DEF DelMinerCommit

LEMMA OwnerDelMinerInv ==
  ASSUME IInv, NEW p \in Req, NEW m \in Miner, NEW u \in User, OwnerDelMiner(p, m, u)
  PROVE  IInv'
<1> DEFINE r == [Idle EXCEPT !.pc = "OwnerDelMiner", !.addr = m]
<1>1. CASE View /\ Respond(p, "error")
  BY <1>1, ViewRespond, AnswersKnown
<1>2. CASE View /\ Goto(p, r)
  <2>1. r \in ReqRec
    BY IdleRec DEF ReqRec, PC
  <2>2. r.pc = "OwnerDelMiner" /\ r.addr = m
    BY DEF Idle
  <2> HIDE DEF r
  <2>3. LocalsOK(r)
    BY <2>2 DEF LocalsOK
  <2>4. QED BY <1>2, <2>1, <2>2, <2>3, ViewGoto
<1>3. QED BY <1>1, <1>2 DEF OwnerDelMiner

LEMMA OwnerDelMinerBeginInv ==
  ASSUME IInv, NEW p \in Req, OwnerDelMinerBegin(p)
  PROVE  IInv'
<1>1. req[p].addr \in Miner
  BY DEF OwnerDelMinerBegin, At, IInv, TypeOK, LocalsOK
<1>2. QED BY <1>1, DelMinerBeginInv DEF OwnerDelMinerBegin

LEMMA GetUserByMinerInv ==
  ASSUME IInv, NEW p \in Req, NEW m \in Miner, GetUserByMiner(p, m)
  PROVE  IInv'
<1> DEFINE r == [Idle EXCEPT !.pc = "GetUserByMiner", !.user = db[MinerKey(m)].user]
<1>1. CASE View /\ Respond(p, "error")
  BY <1>1, ViewRespond, AnswersKnown
<1>2. CASE Live(MinerKey(m)) /\ View /\ Goto(p, r)
  <2>1. db[MinerKey(m)].user \in User
    BY <1>2, MinerRecStored DEF IInv, Live, Absent, MinerRec
  <2>2. r \in ReqRec
    BY <2>1, IdleRec DEF ReqRec, PC
  <2>3. r.pc = "GetUserByMiner" /\ r.user = db[MinerKey(m)].user
    BY DEF Idle
  <2> HIDE DEF r
  <2>4. LocalsOK(r)
    BY <2>1, <2>3 DEF LocalsOK
  <2>5. QED BY <1>2, <2>2, <2>3, <2>4, ViewGoto
<1>3. QED BY <1>1, <1>2 DEF GetUserByMiner

LEMMA GetUserByMinerUserInv ==
  ASSUME IInv, NEW p \in Req, GetUserByMinerUser(p)
  PROVE  IInv'
BY ViewRespond, AnswersKnown DEF GetUserByMinerUser

-----------------------------------------------------------------------------
(* The actions on signers *)

\* What a batch starts with.
LEMMA BatchRec ==
  ASSUME NEW u \in User, NEW l \in Batch, NEW pc \in {"Register", "Unregister"}
  PROVE  LET r == [Idle EXCEPT !.pc = pc, !.user = u, !.list = l]
         IN r \in ReqRec /\ LocalsOK(r) /\ r.pc = pc
<1> DEFINE r == [Idle EXCEPT !.pc = pc, !.user = u, !.list = l]
<1>1. r \in ReqRec
  <2>1. l \in Seq(Signer \cup {BadAddr}) /\ pc \in PC
    BY ConstantsOK DEF PC
  <2>2. QED BY <2>1, IdleRec DEF ReqRec
<1>2. r.pc = pc /\ r.user = u
  BY IdleRec DEF ReqRec
<1> HIDE DEF r
<1>3. LocalsOK(r)
  BY <1>2 DEF LocalsOK
<1>4. QED BY <1>1, <1>2, <1>3 DEF r

LEMMA RegisterSignersInv ==
  ASSUME IInv, NEW p \in Req, NEW u \in User, NEW l \in Batch, RegisterSigners(p, u, l)
  PROVE  IInv'
<1> DEFINE r == [Idle EXCEPT !.pc = "Register", !.user = u, !.list = l]
<1>1. r \in ReqRec /\ LocalsOK(r) /\ r.pc = "Register"
  BY BatchRec
<1>2. View /\ Goto(p, r)
  BY DEF RegisterSigners
<1> HIDE DEF r
<1>3. QED BY <1>1, <1>2, ViewGoto

LEMMA UnregisterSignersInv ==
  ASSUME IInv, NEW p \in Req, NEW u \in User, NEW l \in Batch, UnregisterSigners(p, u, l)
  PROVE  IInv'
<1> DEFINE r == [Idle EXCEPT !.pc = "Unregister", !.user = u, !.list = l]
<1>1. r \in ReqRec /\ LocalsOK(r) /\ r.pc = "Unregister"
  BY BatchRec
<1>2. View /\ Goto(p, r)
  BY DEF UnregisterSigners
<1> HIDE DEF r
<1>3. QED BY <1>1, <1>2, ViewGoto

LEMMA RegisterSignerInv ==
  ASSUME IInv, NEW p \in Req, RegisterSigner(p)
  PROVE  IInv'
<1> PICK u : u = req[p].user
  OBVIOUS
<1> DEFINE r == [req[p] EXCEPT !.pc = "Register.commit"]
           a == Head(req[p].list)
           k == SignerKey(a, u)
           w == One(k, [deleted |-> FALSE])
<1>1. CASE View /\ Respond(p, "ok")
  BY <1>1, ViewRespond, AnswersKnown
<1>2. CASE View /\ Respond(p, "error")
  BY <1>2, ViewRespond, AnswersKnown
<1>3. CASE /\ At(p, "Register") /\ req[p].list # <<>> /\ IsSignerAddress(a)
           /\ ~Absent(UserKey(u))
           /\ Begin(Main(p), {UserKey(u), k}, w, {}) /\ Goto(p, r)
  <2>1. req[p] \in ReqRec /\ LocalsOK(req[p])
    BY DEF IInv, TypeOK
  <2>2. u \in User /\ a \in Signer
    BY <1>3, <2>1 DEF LocalsOK, At, IsSignerAddress
  <2>3. r \in ReqRec
    BY <2>1 DEF ReqRec, PC
  <2>4. r.pc = "Register.commit" /\ r.user = u /\ r.list = req[p].list
    BY <2>1 DEF ReqRec
  <2> HIDE DEF r
  <2>5. LocalsOK(r)
    BY <1>3, <2>2, <2>4 DEF LocalsOK
  <2>6. Writable(w)
    <3>1. [deleted |-> FALSE] \in SignerRec
      BY DEF SignerRec
    <3>2. QED BY <2>2, <3>1, OneWritable
  <2>7. {UserKey(u), k} \subseteq Key /\ Main(p) \in Txn
    BY <2>2, KeysKnown, TxnsDistinct
  <2> HIDE DEF w, k, a
  <2>8. StoreOK' /\ OthersKept(p) /\ db' = db /\ txn'[Main(p)].reads = {UserKey(u), k}
    BY <1>3, <2>6, <2>7, BeginOne DEF OthersKept
  <2>9. req'[p] = r
    BY <1>3, <2>3, <2>5, GotoReqs
  <2>10. ReadPresent(txn[Main(p)], UserKey(u))'
    BY <1>3, <2>8 DEF ReadPresent, Absent
  <2>11. RequestInv(p)'
    BY <2>4, <2>9, <2>10 DEF RequestInv, At, Deleting
  <2>12. QED BY <1>3, <2>3, <2>5, <2>8, <2>11, GotoStep
<1>4. QED BY <1>1, <1>2, <1>3 DEF RegisterSigner, UserExists

LEMMA UnregisterSignerInv ==
  ASSUME IInv, NEW p \in Req, UnregisterSigner(p)
  PROVE  IInv'
<1> PICK u : u = req[p].user
  OBVIOUS
<1> DEFINE r == [req[p] EXCEPT !.pc = "Unregister.commit"]
           n == [req[p] EXCEPT !.list = Tail(@)]
           a == Head(req[p].list)
<1>0. req[p] \in ReqRec /\ LocalsOK(req[p])
  BY DEF IInv, TypeOK
<1>1. CASE View /\ Respond(p, "ok")
  BY <1>1, ViewRespond, AnswersKnown
<1>2. CASE View /\ Respond(p, "error")
  BY <1>2, ViewRespond, AnswersKnown
<1>3. CASE At(p, "Unregister") /\ req[p].list # <<>> /\ View /\ Goto(p, n)
  <2>1. Tail(req[p].list) \in Seq(Signer \cup {BadAddr})
    BY <1>0, <1>3 DEF ReqRec
  <2>2. n \in ReqRec
    BY <1>0, <2>1 DEF ReqRec
  <2>3. n.pc = "Unregister" /\ n.user = u
    BY <1>0, <1>3 DEF ReqRec, At
  <2> HIDE DEF n
  <2>4. LocalsOK(n)
    BY <1>0, <1>3, <2>3 DEF LocalsOK, At
  <2>5. QED BY <1>3, <2>2, <2>3, <2>4, ViewGoto
<1>4. CASE /\ At(p, "Unregister") /\ req[p].list # <<>> /\ IsSignerAddress(a)
           /\ Live(SignerKey(a, u)) /\ SoftDelete(Main(p), SignerKey(a, u)) /\ Goto(p, r)
  <2>1. u \in User /\ a \in Signer
    BY <1>0, <1>4 DEF LocalsOK, At, IsSignerAddress
  <2>2. r \in ReqRec
    BY <1>0 DEF ReqRec, PC
  <2>3. r.pc = "Unregister.commit" /\ r.user = u /\ r.list = req[p].list
    BY <1>0 DEF ReqRec
  <2> HIDE DEF r
  <2>4. LocalsOK(r)
    BY <1>4, <2>1, <2>3 DEF LocalsOK
  <2>5. PICK k : k = SignerKey(a, u)
    OBVIOUS
  <2>6. Main(p) \in Txn /\ k \in MinerKeys \cup SignerKeys
    BY <2>1, <2>5, TxnsDistinct, KeysKnown
  <2>7. StoreOK' /\ OthersKept(p) /\ ReadLive(txn[Main(p)], k)'
    BY <1>4, <2>5, <2>6, SoftDeleteOK DEF OthersKept
  <2>8. req'[p] = r
    BY <1>4, <2>2, <2>4, GotoReqs
  <2>9. k = SignerKey(Head(req'[p].list), req'[p].user)
    BY <2>3, <2>5, <2>8
  <2>10. RequestInv(p)'
    BY <2>3, <2>7, <2>8, <2>9 DEF RequestInv, At, Deleting
  <2>11. QED BY <1>4, <2>2, <2>4, <2>7, <2>10, GotoStep
<1>5. QED BY <1>1, <1>2, <1>3, <1>4 DEF UnregisterSigner

LEMMA BatchCommitInv ==
  ASSUME IInv, NEW p \in Req, NEW pc \in {"Register", "Unregister"},
         req[p].pc \in {"Register.commit", "Unregister.commit"}, BatchCommit(p, pc)
  PROVE  IInv'
<1> DEFINE r == [req[p] EXCEPT !.pc = pc, !.list = Tail(@)]
<1>1. CASE Discard({Main(p)}) /\ Respond(p, "error")
  BY <1>1, DiscardOK, TypeParts, RespondStep, AnswersKnown DEF IInv, OthersKept
<1>2. CASE Commit(Main(p)) /\ Goto(p, r)
  <2>1. req[p] \in ReqRec /\ LocalsOK(req[p])
    BY DEF IInv, TypeOK
  <2>2. req[p].user \in User /\ req[p].list # <<>>
    BY <2>1 DEF LocalsOK
  <2>3. Tail(req[p].list) \in Seq(Signer \cup {BadAddr}) /\ pc \in PC
    BY <2>1, <2>2 DEF ReqRec, PC
  <2>4. r \in ReqRec
    BY <2>1, <2>3 DEF ReqRec
  <2>5. r.pc = pc /\ r.user = req[p].user
    BY <2>1 DEF ReqRec
  <2> HIDE DEF r
  <2>6. LocalsOK(r)
    BY <2>2, <2>5 DEF LocalsOK
  <2>7. StoreOK' /\ OthersKept(p)
    BY <1>2, CommitOK, TypeParts, TxnsDistinct DEF IInv, OthersKept
  <2>8. req'[p] = r
    BY <1>2, <2>4, <2>6, GotoReqs
  <2>9. RequestInv(p)'
    BY <2>5, <2>8 DEF RequestInv, At, Deleting
  <2>10. QED BY <1>2, <2>4, <2>6, <2>7, <2>9, GotoStep
<1>3. QED BY <1>1, <1>2 DEF BatchCommit

LEMMA RegisterCommitInv ==
  ASSUME IInv, NEW p \in Req, RegisterCommit(p) \/ UnregisterCommit(p)
  PROVE  IInv'
BY BatchCommitInv DEF RegisterCommit, UnregisterCommit, At

LEMMA DelSignerBeginInv ==
  ASSUME IInv, NEW p \in Req, NEW s \in Signer, DelSignerBegin(p, s)
  PROVE  IInv'
<1> DEFINE bound == {u \in User : Live(SignerKey(s, u))}
           res == IF bound = {} THEN "false" ELSE "true"
           r == [Idle EXCEPT !.pc = "DelSigner", !.addr = s, !.todo = bound, !.res = res]
           ks == {SignerKey(s, u) : u \in User}
           none == {}
<1>1. Begin(Main(p), none, NoWrites, ks) /\ Goto(p, r)
  BY DEF DelSignerBegin
<1>2. r \in ReqRec
  <2>1. res \in Answers /\ bound \subseteq User
    BY DEF Answers
  <2> HIDE DEF res, bound
  <2>2. QED BY <2>1, IdleRec DEF ReqRec, PC
<1>3. r.pc = "DelSigner" /\ r.addr = s /\ r.todo = bound
  BY DEF Idle
<1> HIDE DEF r
<1>4. LocalsOK(r)
  BY <1>3 DEF LocalsOK
<1>5. StoreOK /\ Main(p) \in Txn /\ none \subseteq Key /\ ks \subseteq Key /\ Writable(NoWrites)
  BY TypeParts, TxnsDistinct, KeysKnown, OneWritable DEF IInv
<1> HIDE DEF none, ks
<1>6. /\ StoreOK' /\ (\A x \in Txn \ {Main(p)} : Kept(x)) /\ db' = db
      /\ txn'[Main(p)] = [open |-> TRUE, reads |-> none, writes |-> NoWrites,
                          dirty |-> {}, snap |-> [k \in ks |-> db[k]]]
  BY <1>1, <1>5, BeginOK
<1>7. req'[p] = r
  BY <1>1, <1>2, <1>4, GotoReqs
<1>8. ASSUME NEW u \in bound
      PROVE  /\ SignerKey(s, u) \in DOMAIN txn'[Main(p)].snap
             /\ txn'[Main(p)].snap[SignerKey(s, u)] # Nil
  <2>1. SignerKey(s, u) \in ks /\ Live(SignerKey(s, u))
    BY DEF ks
  <2>2. QED BY <1>6, <2>1 DEF Live
<1> HIDE DEF bound
<1>9. RequestInv(p)'
  BY <1>3, <1>7, <1>8 DEF RequestInv, At, Deleting
<1>10. OthersKept(p)
  BY <1>6 DEF OthersKept
<1>11. QED BY <1>1, <1>2, <1>4, <1>6, <1>9, <1>10, GotoStep

LEMMA DelSignerInv ==
  ASSUME IInv, NEW p \in Req, NEW s \in Signer, DelSigner(p, s)
  PROVE  IInv'
BY DelSignerBeginInv DEF DelSigner

LEMMA OwnerDelSignerInv ==
  ASSUME IInv, NEW p \in Req, NEW s \in Signer, NEW u \in User, OwnerDelSigner(p, s, u)
  PROVE  IInv'
<1> DEFINE r == [Idle EXCEPT !.pc = "OwnerDelSigner", !.addr = s]
<1>1. CASE View /\ Respond(p, "error")
  BY <1>1, ViewRespond, AnswersKnown
<1>2. CASE View /\ Goto(p, r)
  <2>1. r \in ReqRec
    BY IdleRec DEF ReqRec, PC
  <2>2. r.pc = "OwnerDelSigner" /\ r.addr = s
    BY DEF Idle
  <2> HIDE DEF r
  <2>3. LocalsOK(r)
    BY <2>2 DEF LocalsOK
  <2>4. QED BY <1>2, <2>1, <2>2, <2>3, ViewGoto
<1>3. QED BY <1>1, <1>2 DEF OwnerDelSigner

LEMMA OwnerDelSignerBeginInv ==
  ASSUME IInv, NEW p \in Req, OwnerDelSignerBegin(p)
  PROVE  IInv'
<1>1. req[p].addr \in Signer
  BY DEF OwnerDelSignerBegin, At, IInv, TypeOK, LocalsOK
<1>2. QED BY <1>1, DelSignerBeginInv DEF OwnerDelSignerBegin

LEMMA DelSignerWalkInv ==
  ASSUME IInv, NEW p \in Req, NEW u \in User, DelSignerWalk(p, u)
  PROVE  IInv'
<1> PICK s : s = req[p].addr
  OBVIOUS
<1> DEFINE k == SignerKey(s, u)
           t == Main(p)
           w == One(k, Erased(txn[t].snap[k]))
           r == [req[p] EXCEPT !.todo = @ \ {u}]
<1>1. At(p, "DelSigner") /\ u \in req[p].todo /\ Put(w) /\ Goto(p, r)
  BY DEF DelSignerWalk
<1>2. req[p] \in ReqRec /\ LocalsOK(req[p]) /\ RequestInv(p)
  BY DEF IInv, TypeOK
<1>3. s \in Signer /\ req[p].todo \subseteq User
  BY <1>1, <1>2 DEF LocalsOK, At
<1>4. \A v \in req[p].todo : /\ SignerKey(s, v) \in DOMAIN txn[t].snap
                             /\ txn[t].snap[SignerKey(s, v)] # Nil
  BY <1>1, <1>2 DEF RequestInv
<1>5. Writable(w)
  <2>1. TxnOK(txn[t])
    BY TxnsDistinct DEF IInv, TypeOK
  <2>2. txn[t].snap[k] \in SignerRec
    BY <1>1, <1>3, <1>4, <2>1, KeysKnown DEF TxnOK, Typed
  <2>3. QED BY <1>3, <2>2, ErasedTyped, OneWritable
<1>6. r \in ReqRec
  BY <1>2 DEF ReqRec
<1>7. r.pc = "DelSigner" /\ r.addr = s /\ r.todo \subseteq req[p].todo
  BY <1>1, <1>2 DEF ReqRec, At
<1> HIDE DEF r, w
<1>8. LocalsOK(r)
  BY <1>3, <1>7 DEF LocalsOK
<1>9. StoreOK' /\ \A x \in Txn : Kept(x)
  BY <1>1, <1>5, PutOK, TypeParts DEF IInv
<1>10. req'[p] = r
  BY <1>1, <1>6, <1>8, GotoReqs
<1>11. txn'[t].snap = txn[t].snap
  BY <1>9, TxnsDistinct DEF Kept
<1>12. RequestInv(p)'
  BY <1>4, <1>7, <1>10, <1>11 DEF RequestInv, At, Deleting
<1>13. OthersKept(p)
  BY <1>9 DEF OthersKept
<1>14. QED BY <1>1, <1>6, <1>8, <1>9, <1>12, <1>13, GotoStep

LEMMA DelSignerDoneInv ==
  ASSUME IInv, NEW p \in Req, DelSignerDone(p)
  PROVE  IInv'
<1>1. req[p].res \in Answers
  BY DEF IInv, TypeOK, ReqRec
<1>2. StoreOK' /\ OthersKept(p)
  BY DiscardOK, TypeParts DEF IInv, OthersKept, DelSignerDone
<1>3. QED BY <1>1, <1>2, RespondStep DEF DelSignerDone

LEMMA GetUserBySignerInv ==
  ASSUME IInv, NEW p \in Req, NEW s \in Signer, GetUserBySigner(p, s)
  PROVE  IInv'
<1> DEFINE bound == {u \in User : ~Absent(SignerKey(s, u))}
           r == [Idle EXCEPT !.pc = "GetUserBySigner", !.addr = s, !.todo = bound]
<1>1. View /\ Goto(p, r)
  BY DEF GetUserBySigner
<1>2. bound \subseteq User
  OBVIOUS
<1> HIDE DEF bound
<1>3. r \in ReqRec
  BY <1>2, IdleRec DEF ReqRec, PC
<1>4. r.pc = "GetUserBySigner" /\ r.addr = s /\ r.todo = bound
  BY DEF Idle
<1> HIDE DEF r
<1>5. LocalsOK(r)
  BY <1>2, <1>4 DEF LocalsOK
<1>6. QED BY <1>1, <1>3, <1>4, <1>5, ViewGoto

LEMMA GetUserBySignerWalkInv ==
  ASSUME IInv, NEW p \in Req, NEW u \in User, GetUserBySignerWalk(p, u)
  PROVE  IInv'
<1> DEFINE r == [req[p] EXCEPT !.todo = @ \ {u}, !.found = @ \cup {u}]
<1>1. CASE View /\ Respond(p, "error")
  BY <1>1, ViewRespond, AnswersKnown
<1>2. CASE At(p, "GetUserBySigner") /\ View /\ Goto(p, r)
  <2>1. req[p] \in ReqRec /\ LocalsOK(req[p])
    BY DEF IInv, TypeOK
  <2>2. r \in ReqRec
    BY <2>1 DEF ReqRec
  <2>3. /\ r.pc = "GetUserBySigner" /\ r.addr = req[p].addr
        /\ r.todo \subseteq req[p].todo
    BY <1>2, <2>1 DEF ReqRec, At
  <2> HIDE DEF r
  <2>4. LocalsOK(r)
    BY <1>2, <2>1, <2>3 DEF LocalsOK, At
  <2>5. QED BY <1>2, <2>2, <2>3, <2>4, ViewGoto
<1>3. QED BY <1>1, <1>2 DEF GetUserBySignerWalk

LEMMA GetUserBySignerDoneInv ==
  ASSUME IInv, NEW p \in Req, GetUserBySignerDone(p)
  PROVE  IInv'
BY ViewRespond, AnswersKnown DEF GetUserBySignerDone

-----------------------------------------------------------------------------
(* The process, and the specification *)

\* A process that has just started has no transaction and no request.
LEMMA FreshInv ==
  ASSUME Typed(db), db = [k \in Key |-> db[k]], txn = [t \in Txn |-> NoTxn],
         req = [p \in Req |-> Idle], out = Silent
  PROVE  IInv
<1>1. StoreOK
  BY NoTxnOK DEF StoreOK
<1>2. ReqsOK
  BY IdleRec DEF ReqsOK, Silent, Answers
<1>3. ASSUME NEW p \in Req PROVE RequestInv(p)
  BY <1>3, IdleInv DEF Idle
<1>4. QED BY <1>1, <1>2, <1>3, TypeParts DEF IInv

LEMMA InitInv == Init => IInv
<1> SUFFICES ASSUME Init PROVE IInv
  OBVIOUS
<1>1. Typed(db) /\ db = [k \in Key |-> db[k]]
  BY DEF Init, Typed
<1>2. QED BY <1>1, FreshInv DEF Init

LEMMA CrashInv == ASSUME IInv, Crash PROVE IInv'
<1>1. StoreOK'
  BY NoTxnOK DEF StoreOK, IInv, TypeOK, Crash, Typed
<1>2. ReqsOK'
  BY IdleRec DEF ReqsOK, Silent, Answers, Crash
<1>3. ASSUME NEW p \in Req PROVE RequestInv(p)'
  BY DEF Crash, Idle, RequestInv, At, Deleting
<1>4. TypeOK'
  BY <1>1, <1>2 DEF TypeOK, StoreOK, ReqsOK
<1>5. QED BY <1>3, <1>4 DEF IInv

LEMMA CallInv == ASSUME IInv, NEW p \in Req, Call(p) PROVE IInv'
<1>1. CASE \E u \in User, st \in UserState : CreateUser(p, u, st) \/ UpdateUser(p, u, st)
  BY <1>1, CreateUserInv, UpdateUserInv
<1>2. CASE \E u \in User : RecoverUser(p, u) \/ DeleteUser(p, u)
  BY <1>2, RecoverUserInv, DeleteUserInv
<1>3. CASE \E m \in Miner, u \in User : UpsertMiner(p, m, u) \/ OwnerDelMiner(p, m, u)
  BY <1>3, UpsertMinerInv, OwnerDelMinerInv
<1>4. CASE \E m \in Miner : DelMiner(p, m) \/ GetUserByMiner(p, m)
  BY <1>4, DelMinerInv, GetUserByMinerInv
<1>5. CASE \E u \in User, l \in Batch : RegisterSigners(p, u, l) \/ UnregisterSigners(p, u, l)
  BY <1>5, RegisterSignersInv, UnregisterSignersInv
<1>6. CASE \E s \in Signer, u \in User : OwnerDelSigner(p, s, u)
  BY <1>6, OwnerDelSignerInv
<1>7. CASE \E s \in Signer : DelSigner(p, s) \/ GetUserBySigner(p, s)
  BY <1>7, DelSignerInv, GetUserBySignerInv
<1>8. QED BY <1>1, <1>2, <1>3, <1>4, <1>5, <1>6, <1>7 DEF Call

LEMMA StepKeepsInv == ASSUME IInv, NEW p \in Req, Step(p) PROVE IInv'
<1>1. CASE PutUser(p)
  BY <1>1, PutUserInv
<1>2. CASE DeleteUserMiners(p) \/ DeleteUserSigners(p)
  BY <1>2, DeleteUserMinersInv, DeleteUserSignersInv
<1>3. CASE \E s \in Signer : DeleteUserWalk(p, s)
  BY <1>3, DeleteUserWalkInv
<1>4. CASE DeleteUserUnregister(p) \/ DeleteUserCommit(p)
  BY <1>4, DeleteUserUnregisterInv, DeleteUserCommitInv
<1>5. CASE UpsertMinerCommit(p) \/ OwnerDelMinerBegin(p) \/ DelMinerCommit(p)
  BY <1>5, UpsertMinerCommitInv, OwnerDelMinerBeginInv, DelMinerCommitInv
<1>6. CASE GetUserByMinerUser(p)
  BY <1>6, GetUserByMinerUserInv
<1>7. CASE RegisterSigner(p) \/ RegisterCommit(p)
  BY <1>7, RegisterSignerInv, RegisterCommitInv
<1>8. CASE UnregisterSigner(p) \/ UnregisterCommit(p)
  BY <1>8, UnregisterSignerInv, RegisterCommitInv
<1>9. CASE OwnerDelSignerBegin(p) \/ DelSignerDone(p) \/ GetUserBySignerDone(p)
  BY <1>9, OwnerDelSignerBeginInv, DelSignerDoneInv, GetUserBySignerDoneInv
<1>10. CASE \E u \in User : DelSignerWalk(p, u) \/ GetUserBySignerWalk(p, u)
  BY <1>10, DelSignerWalkInv, GetUserBySignerWalkInv
<1>11. QED BY <1>1, <1>2, <1>3, <1>4, <1>5, <1>6, <1>7, <1>8, <1>9, <1>10 DEF Step

\* Nothing moves: every request keeps what it relies on.
LEMMA StutterInv == ASSUME IInv, UNCHANGED vars PROVE IInv'
<1>1. TypeOK'
  BY DEF IInv, vars, TypeOK, Typed, TxnOK, Writable, LocalsOK
<1>2. ASSUME NEW q \in Req PROVE RequestInv(q)'
  BY SameKept, FrameInv DEF IInv, vars
<1>3. QED BY <1>1, <1>2 DEF IInv

LEMMA NextInv == IInv /\ [Next]_vars => IInv'
<1> SUFFICES ASSUME IInv, [Next]_vars PROVE IInv'
  OBVIOUS
<1>1. CASE Crash
  BY <1>1, CrashInv
<1>2. CASE \E p \in Req : Call(p) \/ Step(p)
  BY <1>2, CallInv, StepKeepsInv
<1>3. CASE UNCHANGED vars
  BY <1>3, StutterInv
<1>4. QED BY <1>1, <1>2, <1>3 DEF Next

\* The inductive invariant holds of every execution.
THEOREM Inductive == Spec => []IInv
BY InitInv, NextInv, PTL DEF Spec

\* Every stored record, pending write and request has the type of its kind,
\* whatever the interleaving of the handlers and wherever the process dies.
THEOREM Typing == Spec => []TypeOK
<1>1. IInv => TypeOK
  BY DEF IInv
<1>2. QED BY <1>1, Inductive, PTL

\* Badger's conflict check makes the closures of UpsertMiner, DelMiner,
\* RegisterSigner and UnregisterSigner answer for the state they commit to.
THEOREM SerialCommits == Spec => []CommitIsSerial
<1>1. ASSUME IInv PROVE CommitIsSerial
  <2> SUFFICES ASSUME NEW p \in Req
               PROVE  LET r == req[p] IN
      /\ ~Conflict(Main(p)) =>
           /\ At(p, "UpsertMiner") =>
                /\ ~Absent(UserKey(r.user))
                /\ (r.res = "true") <=> Absent(MinerKey(r.addr))
           /\ At(p, "DelMiner") => Live(MinerKey(r.addr))
           /\ At(p, "Register.commit") => ~Absent(UserKey(r.user))
           /\ At(p, "Unregister.commit") => Live(SignerKey(Head(r.list), r.user))
      /\ At(p, "DeleteUser.unregister") /\ ~Conflict(Sub(p)) =>
           Live(SignerKey(r.addr, r.user))
    BY DEF CommitIsSerial
  <2>1. RequestInv(p)
    BY <1>1 DEF IInv
  <2>2. QED BY <2>1 DEF RequestInv, ReadLive, ReadPresent, Conflict
<1>2. QED BY <1>1, Inductive, PTL

\* A DeleteUser that can still commit deletes only its own user's miners,
\* although it listed them outside its transaction (badger.go:219-245).
THEOREM OwnMinersOnly == Spec => []DeletesOwnMiners
<1>1. ASSUME IInv PROVE DeletesOwnMiners
  <2> SUFFICES ASSUME NEW p \in Req, req[p].pc \in Deleting, ~Conflict(Main(p))
               PROVE  /\ Live(UserKey(req[p].user))
                      /\ \A m \in Miner : MinerKey(m) \in DOMAIN txn[Main(p)].writes =>
                           /\ Owns(req[p].user, m)
                           /\ txn[Main(p)].writes[MinerKey(m)] = Erased(db[MinerKey(m)])
    BY DEF DeletesOwnMiners
  <2>1. DeleteInv(p)
    BY <1>1 DEF IInv, RequestInv
  <2>2. QED BY <2>1 DEF DeleteInv, ReadLive, Conflict
<1>2. QED BY <1>1, Inductive, PTL
=============================================================================
