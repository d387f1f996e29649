------------------------- MODULE AccountsRefinement -------------------------
(* What the handlers of Accounts promise together: no binding is without a   *)
(* user that was created, DeleteUser and DelSigner leave nothing behind, and *)
(* every step is an operation of the Store interface.  For any users,        *)
(* miners, signers and requests.                                             *)
EXTENDS AccountsProofs

-----------------------------------------------------------------------------
(* Bindings name users, in the store and in its transactions *)

BindInv == /\ NamesUsers(db)
           /\ \A t \in Txn : NamesUsers(txn[t].writes) /\ NamesUsers(txn[t].snap)

LEMMA FullParts ==
  FullInv <=> IInv /\ BindInv /\ \A p \in Req : WorkInv(p)
BY DEF FullInv, BindInv

\* No step takes the record of a user away.
UsersKept == \A u \in User : ~Absent(UserKey(u)) => ~Absent(UserKey(u))'

LEMMA NamesKept ==
  ASSUME NEW f, Typed(f), NamesUsers(f), UsersKept
  PROVE  NamesUsers(f)'
<1>1. \A m \in Miner : MinerKey(m) \in DOMAIN f /\ f[MinerKey(m)] # Nil =>
        f[MinerKey(m)].user \in User
  BY KeysKnown DEF Typed, MinerRec
<1>2. QED BY <1>1 DEF NamesUsers, UsersKept

\* What a transaction or the database holds after a step is what it held, or
\* names users itself.
LEMMA BindStep ==
  ASSUME StoreOK, BindInv, UsersKept, StoreOK', NamesUsers(db)',
         \A t \in Txn :
           /\ txn'[t].writes = txn[t].writes \/ NamesUsers(txn'[t].writes)
           /\ txn'[t].snap = txn[t].snap \/ NamesUsers(txn'[t].snap)
  PROVE  BindInv'
<1>1. ASSUME NEW t \in Txn PROVE NamesUsers(txn[t].writes)' /\ NamesUsers(txn[t].snap)'
  <2>1. PICK w : w = txn'[t].writes
    OBVIOUS
  <2>2. PICK s : s = txn'[t].snap
    OBVIOUS
  <2>3. Typed(w) /\ Typed(s)
    BY <2>1, <2>2 DEF StoreOK, TxnOK, Writable, Typed
  <2>4. NamesUsers(w) /\ NamesUsers(s)
    BY <2>1, <2>2 DEF BindInv
  <2>5. NamesUsers(w)' /\ NamesUsers(s)'
    BY <2>3, <2>4, NamesKept
  <2>6. QED BY <2>1, <2>2, <2>5 DEF NamesUsers
<1>2. QED BY <1>1 DEF BindInv

\* Installing writes that name users.
LEMMA InstallBinds ==
  ASSUME StoreOK, BindInv, NEW w, Writable(w), NamesUsers(w), db' = Install(w)
  PROVE  UsersKept /\ NamesUsers(db)'
<1>1. \A k \in Key : db'[k] = IF k \in DOMAIN w THEN w[k] ELSE db[k]
  BY DEF Install
<1>2. UsersKept
  BY <1>1, KeysKnown DEF UsersKept, Absent, Writable
<1>3. NamesUsers(w)' /\ Typed(w)
  BY <1>2, NamesKept DEF Writable
<1>4. PICK f : f = db
  OBVIOUS
<1>5. NamesUsers(f)' /\ DOMAIN f = Key
  <2>1. Typed(f) /\ NamesUsers(f) /\ DOMAIN f = Key
    BY <1>4 DEF StoreOK, BindInv
  <2>2. QED BY <1>2, <2>1, NamesKept
<1>6. DOMAIN db' = Key
  BY InstallTyped
<1>7. QED BY <1>1, <1>2, <1>3, <1>4, <1>5, <1>6, KeysKnown DEF NamesUsers

LEMMA NotifyWrites ==
  ASSUME StoreOK, NEW ks, NEW t \in Txn
  PROVE  /\ Notify(ks)[t].writes = txn[t].writes
         /\ Notify(ks)[t].snap = txn[t].snap
<1>1. Notify(ks)[t] = [txn[t] EXCEPT !.dirty = @ \cup (ks \cap Watched(t))]
  BY DEF Notify
<1>2. QED BY <1>1 DEF StoreOK, TxnOK

LEMMA NoneNamed == NamesUsers(NoWrites) /\ NoTxn.writes = NoWrites /\ NoTxn.snap = NoWrites
<1>1. NoTxn.writes = NoWrites /\ NoTxn.snap = NoWrites
  BY DEF NoTxn
<1>2. DOMAIN NoWrites = {}
  BY DEF NoWrites
<1>3. QED BY <1>1, <1>2 DEF NamesUsers

\* What request p may do to the store in one step.
Op(p) ==
  \/ View
  \/ \E ts \in SUBSET {Main(p), Sub(p)} : Discard(ts)
  \/ \E t \in {Main(p), Sub(p)} : Commit(t)
  \/ \E w : Writable(w) /\ NamesUsers(w) /\ Put(w)
  \/ \E t \in {Main(p), Sub(p)}, rs \in SUBSET Key, ks \in SUBSET Key : \E w :
       Writable(w) /\ NamesUsers(w) /\ Begin(t, rs, w, ks)
  \/ \E rs \in SUBSET Key : \E w :
       Writable(w) /\ NamesUsers(w) /\ Extend(Main(p), rs, w)

LEMMA InstallOp ==
  ASSUME StoreOK, BindInv, StoreOK', NEW w, Writable(w), NamesUsers(w), db' = Install(w),
         \A t \in Txn : \/ txn'[t].writes = txn[t].writes /\ txn'[t].snap = txn[t].snap
                        \/ txn'[t] = NoTxn
  PROVE  BindInv' /\ UsersKept
BY InstallBinds, BindStep, NoneNamed

LEMMA PutBinds ==
  ASSUME StoreOK, BindInv, NEW w, Writable(w), NamesUsers(w), Put(w)
  PROVE  BindInv' /\ UsersKept
<1>1. db' = Install(w) /\ txn' = Notify(DOMAIN w) /\ StoreOK'
  BY PutOK DEF Put
<1>2. QED BY <1>1, NotifyWrites, InstallOp

LEMMA CommitBinds ==
  ASSUME StoreOK, BindInv, NEW t \in Txn, Commit(t)
  PROVE  BindInv' /\ UsersKept
<1>1. PICK w : w = txn[t].writes
  OBVIOUS
<1>2. /\ db' = Install(w) /\ txn' = [Notify(DOMAIN w) EXCEPT ![t] = NoTxn] /\ StoreOK'
      /\ Writable(w) /\ NamesUsers(w)
  BY <1>1, CommitOK DEF Commit, StoreOK, TxnOK, BindInv
<1>3. \A x \in Txn : x # t => txn'[x] = Notify(DOMAIN w)[x]
  BY <1>2 DEF Notify
<1>4. txn'[t] = NoTxn
  BY <1>2 DEF Notify
<1>5. QED BY <1>2, <1>3, <1>4, NotifyWrites, InstallOp

\* A step that leaves the database alone.
LEMMA IdleOp ==
  ASSUME StoreOK, BindInv, StoreOK', db' = db,
         \A t \in Txn : /\ txn'[t].writes = txn[t].writes \/ NamesUsers(txn'[t].writes)
                        /\ txn'[t].snap = txn[t].snap \/ NamesUsers(txn'[t].snap)
  PROVE  BindInv' /\ UsersKept
<1>1. UsersKept
  BY DEF UsersKept, Absent
<1>2. NamesUsers(db)'
  BY DEF BindInv, NamesUsers, Absent
<1>3. QED BY <1>1, <1>2, BindStep

LEMMA BeginBinds ==
  ASSUME StoreOK, BindInv, NEW t \in Txn, NEW rs \in SUBSET Key, NEW ks \in SUBSET Key, NEW w,
         Writable(w), NamesUsers(w), Begin(t, rs, w, ks)
  PROVE  BindInv' /\ UsersKept
<1>1. PICK s : s = [k \in ks |-> db[k]]
  OBVIOUS
<1>2. NamesUsers(s)
  BY <1>1 DEF BindInv, NamesUsers, StoreOK
<1>3. StoreOK' /\ db' = db /\ txn'[t].writes = w /\ txn'[t].snap = s
  <2>1. rs \subseteq Key /\ ks \subseteq Key
    OBVIOUS
  <2>2. /\ StoreOK' /\ db' = db
        /\ txn'[t] = [open |-> TRUE, reads |-> rs, writes |-> w,
                      dirty |-> {}, snap |-> [k \in ks |-> db[k]]]
    BY <2>1, BeginOK
  <2>3. QED BY <1>1, <2>2
<1>4. \A x \in Txn : x # t => txn'[x] = txn[x]
  BY DEF Begin, StoreOK
<1>5. QED BY <1>2, <1>3, <1>4, IdleOp

\* The writes of an extended transaction, the new ones first.
LEMMA Extended ==
  ASSUME StoreOK, NEW t \in Txn, NEW rs \in SUBSET Key, NEW w, Writable(w), Extend(t, rs, w)
  PROVE  /\ DOMAIN txn'[t].writes = DOMAIN txn[t].writes \cup DOMAIN w
         /\ \A k \in DOMAIN w : txn'[t].writes[k] = w[k]
         /\ \A k \in DOMAIN txn[t].writes : k \notin DOMAIN w =>
              txn'[t].writes[k] = txn[t].writes[k]
<1>1. PICK o : o = txn[t].writes
  OBVIOUS
<1>2. PICK n : n = [k \in DOMAIN o \cup DOMAIN w |-> IF k \in DOMAIN w THEN w[k] ELSE o[k]]
  OBVIOUS
<1>3. txn'[t].writes = n
  BY <1>1, <1>2 DEF Extend, StoreOK
<1>4. QED BY <1>1, <1>2, <1>3

LEMMA ExtendBinds ==
  ASSUME StoreOK, BindInv, NEW t \in Txn, NEW rs \in SUBSET Key, NEW w, Writable(w),
         NamesUsers(w), Extend(t, rs, w)
  PROVE  BindInv' /\ UsersKept
<1>1. PICK o : o = txn[t].writes
  OBVIOUS
<1>2. PICK n : n = txn'[t].writes
  OBVIOUS
<1>3. /\ DOMAIN n = DOMAIN o \cup DOMAIN w
      /\ \A k \in DOMAIN w : n[k] = w[k]
      /\ \A k \in DOMAIN o : k \notin DOMAIN w => n[k] = o[k]
  <2>1. /\ DOMAIN txn'[t].writes = DOMAIN txn[t].writes \cup DOMAIN w
        /\ \A k \in DOMAIN w : txn'[t].writes[k] = w[k]
        /\ \A k \in DOMAIN txn[t].writes : k \notin DOMAIN w =>
             txn'[t].writes[k] = txn[t].writes[k]
    BY Extended
  <2>2. QED BY <1>1, <1>2, <2>1
<1>4. NamesUsers(n)
  <2>1. NamesUsers(o)
    BY <1>1 DEF BindInv
  <2>2. QED BY <1>3, <2>1 DEF NamesUsers
<1>5. StoreOK' /\ db' = db /\ txn'[t].snap = txn[t].snap
  BY ExtendOK
<1>6. \A x \in Txn : x # t => txn'[x] = txn[x]
  BY DEF Extend, StoreOK
<1>7. QED BY <1>2, <1>4, <1>5, <1>6, IdleOp

LEMMA DiscardBinds ==
  ASSUME StoreOK, BindInv, NEW ts, Discard(ts)
  PROVE  BindInv' /\ UsersKept
<1>1. /\ StoreOK' /\ db' = db
      /\ \A t \in Txn : txn'[t] = txn[t] \/ txn'[t] = NoTxn
  BY DiscardOK DEF Discard
<1>2. QED BY <1>1, IdleOp, NoneNamed

\* A step of p keeps what bindings rely on, and the transactions of others.
LEMMA OpKeeps ==
  ASSUME StoreOK, BindInv, NEW p \in Req, Op(p)
  PROVE  BindInv' /\ UsersKept /\ OthersKept(p)
<1>1. Main(p) \in Txn /\ Sub(p) \in Txn
  BY TxnsDistinct
<1>2. CASE View
  <2>1. StoreOK' /\ db' = db /\ txn' = txn
    BY <1>2, ViewOK DEF View
  <2>2. BindInv' /\ UsersKept
    BY <2>1, IdleOp
  <2>3. QED BY <1>2, <2>2, ViewOK DEF OthersKept
<1>3. ASSUME NEW ts \in SUBSET {Main(p), Sub(p)}, Discard(ts)
      PROVE  BindInv' /\ UsersKept /\ OthersKept(p)
  BY <1>3, DiscardOK, DiscardBinds DEF OthersKept
<1>4. ASSUME NEW t \in {Main(p), Sub(p)}, Commit(t)
      PROVE  BindInv' /\ UsersKept /\ OthersKept(p)
  BY <1>1, <1>4, CommitOK, CommitBinds DEF OthersKept
<1>5. ASSUME NEW w, Writable(w), NamesUsers(w), Put(w)
      PROVE  BindInv' /\ UsersKept /\ OthersKept(p)
  BY <1>5, PutOK, PutBinds DEF OthersKept
<1>6. ASSUME NEW t \in {Main(p), Sub(p)}, NEW rs \in SUBSET Key, NEW ks \in SUBSET Key, NEW w,
             Writable(w), NamesUsers(w), Begin(t, rs, w, ks)
      PROVE  BindInv' /\ UsersKept /\ OthersKept(p)
  <2>1. BindInv' /\ UsersKept
    BY <1>1, <1>6, BeginBinds
  <2>2. \A x \in Txn \ {t} : Kept(x)
    BY <1>1, <1>6, BeginOK
  <2>3. QED BY <2>1, <2>2 DEF OthersKept
<1>7. ASSUME NEW rs \in SUBSET Key, NEW w, Writable(w), NamesUsers(w), Extend(Main(p), rs, w)
      PROVE  BindInv' /\ UsersKept /\ OthersKept(p)
  <2>1. BindInv' /\ UsersKept
    BY <1>1, <1>7, ExtendBinds
  <2>2. \A x \in Txn \ {Main(p)} : Kept(x)
    BY <1>1, <1>7, ExtendOK
  <2>3. QED BY <2>1, <2>2 DEF OthersKept
<1>8. QED BY <1>2, <1>3, <1>4, <1>5, <1>6, <1>7 DEF Op

-----------------------------------------------------------------------------
(* What is still to be written *)

\* A deletion that another request's step does not touch.
LEMMA RetireKept ==
  ASSUME NEW q \in Req, RetireInv(q), DeleteInv(q), Kept(Main(q)), req'[q] = req[q]
  PROVE  RetireInv(q)'
<1>1. PICK u : u = req[q].user
  OBVIOUS
<1>2. PICK r : r = req[q]
  OBVIOUS
<1>3. /\ \A m \in Miner : MinerKey(m) \in Watched(Main(q))
      /\ \A s \in Signer : SignerKey(s, u) \in Watched(Main(q))
  BY <1>1, KeysKnown DEF DeleteInv, RetireInv, Watched
<1>4. /\ \A m \in Miner : \/ db'[MinerKey(m)] = db[MinerKey(m)]
                          \/ MinerKey(m) \in txn'[Main(q)].dirty
      /\ \A s \in Signer : \/ db'[SignerKey(s, u)] = db[SignerKey(s, u)]
                           \/ SignerKey(s, u) \in txn'[Main(q)].dirty
  BY <1>3 DEF Kept
<1>5. /\ txn'[Main(q)].writes = txn[Main(q)].writes
      /\ txn'[Main(q)].snap = txn[Main(q)].snap
      /\ txn[Main(q)].dirty \subseteq txn'[Main(q)].dirty
  BY DEF Kept
<1>6. req'[q].pc \in Deleting =>
        \A m \in Miner : Owns(u, m)' =>
          MinerKey(m) \in DOMAIN txn'[Main(q)].writes \cup txn'[Main(q)].dirty
  BY <1>1, <1>4, <1>5 DEF RetireInv, Owns, Live
<1>7. req'[q].pc \in {"DeleteUser.walk", "DeleteUser.unregister"} =>
        \A s \in Signer : Live(SignerKey(s, u))' =>
          s \in req'[q].todo \/ SignerKey(s, u) \in txn'[Main(q)].dirty
  BY <1>1, <1>4, <1>5 DEF RetireInv, Live
<1>8. /\ UserKey(u) \in DOMAIN txn'[Main(q)].writes
      /\ DOMAIN txn'[Main(q)].writes \subseteq {UserKey(u)} \cup MinerKeys
      /\ \A k \in DOMAIN txn'[Main(q)].writes : txn'[Main(q)].writes[k].deleted
      /\ \A s \in Signer : SignerKey(s, u) \in DOMAIN txn'[Main(q)].snap
  BY <1>1, <1>5 DEF RetireInv
<1>9. QED BY <1>1, <1>6, <1>7, <1>8 DEF RetireInv

LEMMA FrameWork ==
  ASSUME FullInv, NEW q \in Req, req'[q] = req[q], Kept(Main(q)), Kept(Sub(q))
  PROVE  WorkInv(q)'
<1>1. WorkInv(q) /\ RequestInv(q)
  BY FullParts DEF IInv
<1>2. req[q].pc \in {"DeleteUser.miners"} \cup Deleting => RetireInv(q)'
  BY <1>1, RetireKept DEF WorkInv, RequestInv
<1>3. /\ txn'[Main(q)].writes = txn[Main(q)].writes
      /\ txn'[Main(q)].snap = txn[Main(q)].snap
      /\ txn'[Sub(q)].writes = txn[Sub(q)].writes
      /\ txn[Main(q)].dirty \subseteq txn'[Main(q)].dirty
  BY DEF Kept
<1>4. At(q, "DelSigner") => WalkInv(q)'
  <2> SUFFICES ASSUME At(q, "DelSigner") PROVE WalkInv(q)'
    OBVIOUS
  <2>1. PICK s : s = req[q].addr
    OBVIOUS
  <2>2. ASSUME NEW u \in User, NEW k, k = SignerKey(s, u)
        PROVE  k \in DOMAIN txn'[Main(q)].snap
                 /\ (Live(k)' => u \in req'[q].todo \/ k \in txn'[Main(q)].dirty)
    <3>1. k \in DOMAIN txn[Main(q)].snap
            /\ (Live(k) => u \in req[q].todo \/ k \in txn[Main(q)].dirty)
      BY <1>1, <2>1, <2>2 DEF WorkInv, WalkInv
    <3>2. db'[k] = db[k] \/ k \in txn'[Main(q)].dirty
      BY <3>1 DEF Kept, Watched
    <3>3. QED BY <1>3, <3>1, <3>2 DEF Live
  <2>3. QED BY <2>1, <2>2 DEF WalkInv, Live
<1>5. QED BY <1>1, <1>2, <1>3, <1>4 DEF WorkInv, At, DeletesOne


\* One request acts; the others keep what they are to write.
LEMMA StepFull ==
  ASSUME FullInv, IInv', NEW p \in Req, Op(p), WorkInv(p)',
         \A q \in Req \ {p} : req'[q] = req[q]
  PROVE  FullInv'
<1>1. BindInv' /\ OthersKept(p)
  BY OpKeeps, FullParts, TypeParts DEF IInv
<1>2. ASSUME NEW q \in Req, q # p PROVE WorkInv(q)'
  <2>1. Kept(Main(q)) /\ Kept(Sub(q))
    BY <1>1, <1>2, TxnsDistinct DEF OthersKept
  <2>2. QED BY <1>2, <2>1, FrameWork
<1>3. \A q \in Req : WorkInv(q)'
  BY <1>2
<1>4. QED BY <1>1, <1>3 DEF FullInv, BindInv

Quiet == {"idle", "OwnerDelMiner", "GetUserByMiner", "Register", "Unregister",
          "OwnerDelSigner", "GetUserBySigner"}

LEMMA QuietWork == ASSUME NEW p, req'[p].pc \in Quiet PROVE WorkInv(p)'
BY DEF WorkInv, At, Quiet, Deleting

LEMMA ReqsKnown == ASSUME FullInv PROVE DOMAIN req = Req /\ \A p \in Req : req[p] \in ReqRec
BY DEF FullInv, IInv, TypeOK

LEMMA Answered1 ==
  ASSUME FullInv, IInv', NEW p \in Req, Op(p), NEW a, Respond(p, a)
  PROVE  FullInv'
<1>1. req'[p] = Idle /\ \A q \in Req \ {p} : req'[q] = req[q]
  BY ReqsKnown DEF Respond
<1>2. WorkInv(p)'
  BY <1>1, QuietWork DEF Idle, Quiet
<1>3. QED BY <1>1, <1>2, StepFull

LEMMA Moves ==
  ASSUME FullInv, NEW p \in Req, NEW r, Goto(p, r)
  PROVE  req'[p] = r /\ \A q \in Req \ {p} : req'[q] = req[q]
BY ReqsKnown DEF Goto

LEMMA GoesOn ==
  ASSUME FullInv, IInv', NEW p \in Req, Op(p), NEW r, Goto(p, r), WorkInv(p)'
  PROVE  FullInv'
BY Moves, StepFull

LEMMA GoesQuiet ==
  ASSUME FullInv, IInv', NEW p \in Req, Op(p), NEW r, Goto(p, r), r.pc \in Quiet
  PROVE  FullInv'
BY Moves, QuietWork, GoesOn

\* The end of a transaction.
LEMMA FinishFull ==
  ASSUME FullInv, IInv', NEW p \in Req, NEW a, Finish(p, Main(p), a)
  PROVE  FullInv'
BY Answered1 DEF Finish, Op

LEMMA PutsLive ==
  ASSUME FullInv, IInv', NEW p \in Req, View, NEW r, Goto(p, r), r.pc = "PutUser",
         ~r.rec.deleted
  PROVE  FullInv'
<1>1. WorkInv(p)'
  BY Moves DEF WorkInv, At, Deleting
<1>2. QED BY <1>1, GoesOn DEF Op

LEMMA ViewAnswers ==
  ASSUME FullInv, IInv', NEW p \in Req, View, NEW a, Respond(p, a)
  PROVE  FullInv'
BY Answered1 DEF Op

LEMMA ViewQuiet ==
  ASSUME FullInv, IInv', NEW p \in Req, View, NEW r, Goto(p, r), r.pc \in Quiet
  PROVE  FullInv'
BY GoesQuiet DEF Op

-----------------------------------------------------------------------------
(* The actions on users *)

LEMMA CreateUserFull ==
  ASSUME FullInv, IInv', NEW p \in Req, NEW u \in User, NEW st \in UserState, CreateUser(p, u, st)
  PROVE  FullInv'
<1>1. PICK v : v = [state |-> st, deleted |-> FALSE]
  OBVIOUS
<1>2. PICK r : r = [Idle EXCEPT !.pc = "PutUser", !.user = u, !.rec = v]
  OBVIOUS
<1>3. r.pc = "PutUser" /\ ~r.rec.deleted
  BY <1>1, <1>2 DEF Idle
<1>4. View /\ (Respond(p, "error") \/ Goto(p, r))
  BY <1>1, <1>2 DEF CreateUser
<1>5. QED BY <1>3, <1>4, PutsLive, ViewAnswers

LEMMA UpdateUserFull ==
  ASSUME FullInv, IInv', NEW p \in Req, NEW u \in User, NEW st \in UserState, UpdateUser(p, u, st)
  PROVE  FullInv'
<1>1. PICK x : x = db[UserKey(u)]
  OBVIOUS
<1>2. PICK v : v = [x EXCEPT !.state = IF st = Undefined THEN @ ELSE st]
  OBVIOUS
<1>3. PICK r : r = [Idle EXCEPT !.pc = "PutUser", !.user = u, !.rec = v]
  OBVIOUS
<1>4. View /\ (Respond(p, "error") \/ (Live(UserKey(u)) /\ Goto(p, r)))
  BY <1>1, <1>2, <1>3 DEF UpdateUser
<1>5. ASSUME Live(UserKey(u)) PROVE ~v.deleted
  <2>1. x \in UserRec /\ ~x.deleted
    BY <1>1, <1>5, UserRecStored DEF FullInv, IInv, Live, Absent
  <2>2. QED BY <1>2, <2>1 DEF UserRec
<1>6. r.pc = "PutUser" /\ r.rec = v
  BY <1>3 DEF Idle
<1>7. QED BY <1>4, <1>5, <1>6, PutsLive, ViewAnswers

LEMMA RecoverUserFull ==
  ASSUME FullInv, IInv', NEW p \in Req, NEW u \in User, RecoverUser(p, u)
  PROVE  FullInv'
<1>1. PICK x : x = db[UserKey(u)]
  OBVIOUS
<1>2. PICK v : v = [x EXCEPT !.deleted = FALSE]
  OBVIOUS
<1>3. PICK r : r = [Idle EXCEPT !.pc = "PutUser", !.user = u, !.rec = v]
  OBVIOUS
<1>4. View /\ (Respond(p, "error") \/ (~Absent(UserKey(u)) /\ Goto(p, r)))
  BY <1>1, <1>2, <1>3 DEF RecoverUser
<1>5. ASSUME ~Absent(UserKey(u)) PROVE ~v.deleted
  <2>1. x \in UserRec
    BY <1>1, <1>5, UserRecStored DEF FullInv, IInv
  <2>2. QED BY <1>2, <2>1 DEF UserRec
<1>6. r.pc = "PutUser" /\ r.rec = v
  BY <1>3 DEF Idle
<1>7. QED BY <1>4, <1>5, <1>6, PutsLive, ViewAnswers

\* A write of one record names users when the record does.
LEMMA OneNames ==
  /\ \A u \in User : \A v : NamesUsers(One(UserKey(u), v))
  /\ \A m \in Miner : \A v : ~Absent(UserKey(v.user)) => NamesUsers(One(MinerKey(m), v))
  /\ \A s \in Signer, u \in User : \A v : ~Absent(UserKey(u)) => NamesUsers(One(SignerKey(s, u), v))
<1>1. \A k, v : DOMAIN One(k, v) = {k} /\ One(k, v)[k] = v
  BY DEF One
<1>2. /\ \A u \in User, m \in Miner : UserKey(u) # MinerKey(m)
      /\ \A u, x \in User, s \in Signer : UserKey(x) # SignerKey(s, u)
      /\ \A u \in User, m \in Miner, s \in Signer : MinerKey(m) # SignerKey(s, u)
  BY KeysKnown, KeysDisjoint
<1>3. ASSUME NEW u \in User, NEW v PROVE NamesUsers(One(UserKey(u), v))
  <2>1. PICK w : w = One(UserKey(u), v)
    OBVIOUS
  <2>2. DOMAIN w = {UserKey(u)}
    BY <1>1, <2>1
  <2>3. NamesUsers(w)
    BY <1>2, <2>2 DEF NamesUsers
  <2>4. QED BY <2>1, <2>3
<1>4. ASSUME NEW m \in Miner, NEW v, ~Absent(UserKey(v.user)) PROVE NamesUsers(One(MinerKey(m), v))
  <2>1. PICK w : w = One(MinerKey(m), v)
    OBVIOUS
  <2>2. DOMAIN w = {MinerKey(m)} /\ w[MinerKey(m)] = v
    BY <1>1, <2>1
  <2>3. NamesUsers(w)
    BY <1>2, <1>4, <2>2 DEF NamesUsers
  <2>4. QED BY <2>1, <2>3
<1>5. ASSUME NEW s \in Signer, NEW u \in User, NEW v, ~Absent(UserKey(u))
      PROVE  NamesUsers(One(SignerKey(s, u), v))
  <2>1. PICK w : w = One(SignerKey(s, u), v)
    OBVIOUS
  <2>2. DOMAIN w = {SignerKey(s, u)}
    BY <1>1, <2>1
  <2>3. \A x \in User, r \in Signer : SignerKey(r, x) \in DOMAIN w => x = u
    BY <2>2, KeysInjective
  <2>4. NamesUsers(w)
    BY <1>2, <1>5, <2>2, <2>3 DEF NamesUsers
  <2>5. QED BY <2>1, <2>4
<1>6. QED BY <1>3, <1>4, <1>5

LEMMA PutUserFull ==
  ASSUME FullInv, IInv', NEW p \in Req, PutUser(p)
  PROVE  FullInv'
<1>1. PICK u : u = req[p].user
  OBVIOUS
<1>2. PICK v : v = req[p].rec
  OBVIOUS
<1>3. u \in User /\ v \in UserRec
  BY <1>1, <1>2 DEF FullInv, IInv, TypeOK, LocalsOK, PutUser, At
<1>4. Put(One(UserKey(u), v)) /\ Respond(p, "ok")
  BY <1>1, <1>2 DEF PutUser
<1>5. Op(p)
  BY <1>3, <1>4, OneWritable, OneNames DEF Op
<1>6. QED BY <1>4, <1>5, Answered1

-----------------------------------------------------------------------------
(* DeleteUser *)

\* A soft-deleted record is marked, and still names its user.
LEMMA ErasedMarks ==
  /\ \A v \in UserRec : Erased(v).deleted
  /\ \A v \in MinerRec : Erased(v).deleted /\ Erased(v).user = v.user
  /\ \A v \in SignerRec : Erased(v).deleted
BY DEF Erased, UserRec, MinerRec, SignerRec

LEMMA RetireIsAll ==
  ASSUME NEW p, req'[p].pc \in {"DeleteUser.miners", "DeleteUser.signers", "DeleteUser.walk"},
         RetireInv(p)'
  PROVE  WorkInv(p)'
BY DEF WorkInv, At, Deleting

LEMMA DeleteUserFull ==
  ASSUME FullInv, IInv', NEW p \in Req, NEW u \in User, DeleteUser(p, u)
  PROVE  FullInv'
<1>1. PICK v : v = Erased(db[UserKey(u)])
  OBVIOUS
<1>2. PICK w : w = One(UserKey(u), v)
  OBVIOUS
<1>3. PICK ks : ks = MinerKeys \cup {SignerKey(s, u) : s \in Signer}
  OBVIOUS
<1>4. PICK r : r = [Idle EXCEPT !.pc = "DeleteUser.miners", !.user = u]
  OBVIOUS
<1>5. r.pc = "DeleteUser.miners" /\ r.user = u
  BY <1>4 DEF Idle
<1>6. \/ View /\ Respond(p, "error")
      \/ Live(UserKey(u)) /\ Begin(Main(p), {UserKey(u)}, w, ks) /\ Goto(p, r)
  BY <1>1, <1>2, <1>3, <1>4 DEF DeleteUser
<1>7. ASSUME Live(UserKey(u)), Begin(Main(p), {UserKey(u)}, w, ks), Goto(p, r)
      PROVE  FullInv'
  <2>1. v \in UserRec /\ v.deleted
    BY <1>1, <1>7, UserRecStored, ErasedTyped, ErasedMarks DEF FullInv, IInv, Live, Absent
  <2>2. Writable(w) /\ NamesUsers(w) /\ DOMAIN w = {UserKey(u)} /\ w[UserKey(u)] = v
    <3>1. DOMAIN w = {UserKey(u)} /\ w[UserKey(u)] = v
      BY <1>2 DEF One
    <3>2. QED BY <1>2, <2>1, <3>1, OneWritable, OneNames
  <2>3. {UserKey(u)} \in SUBSET Key /\ ks \in SUBSET Key
    BY <1>3, KeysKnown
  <2>4. Op(p)
    BY <1>7, <2>2, <2>3 DEF Op
  <2>5. txn'[Main(p)].writes = w /\ DOMAIN txn'[Main(p)].snap = ks
    <3>1. txn'[Main(p)] = [open |-> TRUE, reads |-> {UserKey(u)}, writes |-> w,
                           dirty |-> {}, snap |-> [k \in ks |-> db[k]]]
      <4>1. PICK rs : rs = {UserKey(u)}
        OBVIOUS
      <4>2. StoreOK /\ Main(p) \in Txn /\ rs \subseteq Key /\ ks \subseteq Key
        BY <2>3, <4>1, TxnsDistinct, TypeParts DEF FullInv, IInv
      <4>3. Begin(Main(p), rs, w, ks)
        BY <1>7, <4>1
      <4>4. txn'[Main(p)] = [open |-> TRUE, reads |-> rs, writes |-> w,
                             dirty |-> {}, snap |-> [k \in ks |-> db[k]]]
        BY <2>2, <4>2, <4>3, BeginOK
      <4>5. QED BY <4>1, <4>4
    <3>2. QED BY <3>1
  <2>6. req'[p] = r
    BY <1>7, Moves
  <2>7. RetireInv(p)'
    BY <1>3, <1>5, <2>1, <2>2, <2>5, <2>6 DEF RetireInv, Deleting
  <2>8. QED BY <1>5, <1>7, <2>4, <2>6, <2>7, RetireIsAll, GoesOn
<1>8. QED BY <1>6, <1>7, ViewAnswers

\* The deletion p is at, before its step.
LEMMA Retires ==
  ASSUME FullInv, NEW p \in Req, req[p].pc \in {"DeleteUser.miners"} \cup Deleting
  PROVE  RetireInv(p) /\ DeleteInv(p) /\ req[p].user \in User /\ req[p].todo \subseteq Signer
BY DEF FullInv, IInv, WorkInv, RequestInv, TypeOK, LocalsOK, Deleting

LEMMA DeleteUserMinersFull ==
  ASSUME FullInv, IInv', NEW p \in Req, DeleteUserMiners(p)
  PROVE  FullInv'
<1>1. PICK n : n = req[p]
  OBVIOUS
<1>2. PICK u : u = req[p].user
  OBVIOUS
<1>3. PICK snap : snap = txn[Main(p)].snap
  OBVIOUS
<1>4. PICK ks : ks = {MinerKey(m) : m \in ListMiners(u)}
  OBVIOUS
<1>5. PICK w : w = [k \in ks |-> Erased(snap[k])]
  OBVIOUS
<1>6. PICK r : r = [n EXCEPT !.pc = "DeleteUser.signers"]
  OBVIOUS
<1>7. /\ At(p, "DeleteUser.miners")
      /\ \/ Discard({Main(p)}) /\ Respond(p, "error")
         \/ /\ \A k \in ks : snap[k] # Nil
            /\ Extend(Main(p), ks, w) /\ Goto(p, r)
  BY <1>1, <1>2, <1>3, <1>4, <1>5, <1>6 DEF DeleteUserMiners
<1>8. ASSUME Discard({Main(p)}), Respond(p, "error") PROVE FullInv'
  BY <1>8, Answered1 DEF Op
<1>9. ASSUME \A k \in ks : snap[k] # Nil, Extend(Main(p), ks, w), Goto(p, r) PROVE FullInv'
  <2>1. RetireInv(p) /\ DeleteInv(p) /\ u \in User
    BY <1>2, <1>7, Retires DEF At
  <2>2. /\ Typed(snap) /\ NamesUsers(snap) /\ StoreOK /\ Main(p) \in Txn
        /\ MinerKeys \subseteq DOMAIN snap
    BY <1>3, <2>1, TxnsDistinct, TypeParts DEF FullInv, IInv, TypeOK, TxnOK, DeleteInv
  <2>3. /\ \A k \in ks : \E m \in Miner : k = MinerKey(m)
        /\ \A m \in Miner : Owns(u, m) => MinerKey(m) \in ks
        /\ ks \subseteq MinerKeys
    BY <1>4, KeysKnown DEF ListMiners
  <2>4. \A k \in ks : /\ snap[k] \in MinerRec
                      /\ w[k] = Erased(snap[k]) /\ w[k] \in MinerRec
                      /\ w[k].deleted /\ w[k].user = snap[k].user
    BY <1>5, <1>9, <2>2, <2>3, ErasedTyped, ErasedMarks DEF Typed
  <2>5. DOMAIN w = ks
    BY <1>5
  <2>6. Writable(w)
    BY <2>3, <2>4, <2>5, KeysDisjoint, KeysKnown, ConstantsOK DEF Writable, Typed
  <2>7. NamesUsers(w)
    <3>1. ASSUME NEW m \in Miner, MinerKey(m) \in ks
          PROVE  ~Absent(UserKey(w[MinerKey(m)].user))
      <4>1. ~Absent(UserKey(snap[MinerKey(m)].user))
        BY <1>9, <2>2, <2>3, <3>1, KeysKnown DEF NamesUsers
      <4>2. QED BY <2>4, <3>1, <4>1
    <3>2. \A s \in Signer, x \in User : SignerKey(s, x) \notin ks
      BY <2>3, KeysDisjoint, KeysKnown
    <3>3. QED BY <2>5, <3>1, <3>2 DEF NamesUsers
  <2>8. ks \in SUBSET Key
    BY <2>3, KeysKnown
  <2>9. Op(p)
    BY <1>9, <2>6, <2>7, <2>8 DEF Op
  <2>10. PICK o : o = txn[Main(p)].writes
    OBVIOUS
  <2>11. PICK x : x = txn'[Main(p)].writes
    OBVIOUS
  <2>12. /\ DOMAIN x = DOMAIN o \cup ks
         /\ \A k \in ks : x[k] = w[k]
         /\ \A k \in DOMAIN o : k \notin ks => x[k] = o[k]
    <3>1. /\ DOMAIN txn'[Main(p)].writes = DOMAIN txn[Main(p)].writes \cup DOMAIN w
          /\ \A k \in DOMAIN w : txn'[Main(p)].writes[k] = w[k]
          /\ \A k \in DOMAIN txn[Main(p)].writes : k \notin DOMAIN w =>
               txn'[Main(p)].writes[k] = txn[Main(p)].writes[k]
      BY <1>9, <2>2, <2>6, <2>8, Extended
    <3>2. QED BY <2>5, <2>10, <2>11, <3>1
  <2>13. db' = db /\ txn'[Main(p)].snap = snap
    BY <1>3, <1>9, <2>2, <2>6, <2>8, ExtendOK
  <2>14. r.pc = "DeleteUser.signers" /\ r.user = u /\ req'[p] = r
    <3>1. n \in ReqRec
      BY <1>1, ReqsKnown
    <3>2. r.pc = "DeleteUser.signers" /\ r.user = u
      BY <1>1, <1>2, <1>6, <3>1 DEF ReqRec
    <3>3. QED BY <1>9, <3>2, Moves
  <2>15. /\ UserKey(u) \in DOMAIN o /\ DOMAIN o \subseteq {UserKey(u)} \cup MinerKeys
         /\ \A k \in DOMAIN o : o[k].deleted
         /\ \A s \in Signer : SignerKey(s, u) \in DOMAIN snap
    BY <1>2, <1>3, <2>1, <2>10 DEF RetireInv
  <2>16. \A m \in Miner : Owns(u, m)' => MinerKey(m) \in DOMAIN x
    BY <2>3, <2>12, <2>13 DEF Owns, Live
  <2>17. /\ UserKey(u) \in DOMAIN x /\ DOMAIN x \subseteq {UserKey(u)} \cup MinerKeys
         /\ \A k \in DOMAIN x : x[k].deleted
    BY <2>3, <2>4, <2>12, <2>15
  <2>18. RetireInv(p)'
    BY <2>11, <2>13, <2>14, <2>15, <2>16, <2>17 DEF RetireInv
  <2>19. QED BY <1>9, <2>9, <2>14, <2>18, RetireIsAll, GoesOn
<1>10. QED BY <1>7, <1>8, <1>9

\* A transaction of p's own that begins.
LEMMA Begins ==
  ASSUME FullInv, NEW p \in Req, NEW t \in {Main(p), Sub(p)}, NEW rs \in SUBSET Key,
         NEW ks \in SUBSET Key, NEW w, Writable(w), NamesUsers(w), Begin(t, rs, w, ks)
  PROVE  /\ Op(p) /\ db' = db
         /\ txn'[t].writes = w /\ txn'[t].dirty = {} /\ DOMAIN txn'[t].snap = ks
         /\ txn'[t].snap = [k \in ks |-> db[k]]
         /\ \A x \in Txn : x # t => txn'[x] = txn[x]
<1>1. StoreOK /\ t \in Txn /\ rs \subseteq Key /\ ks \subseteq Key
  BY TxnsDistinct, TypeParts DEF FullInv, IInv
<1>2. /\ db' = db
      /\ txn'[t] = [open |-> TRUE, reads |-> rs, writes |-> w,
                    dirty |-> {}, snap |-> [k \in ks |-> db[k]]]
  BY <1>1, BeginOK
<1>3. \A x \in Txn : x # t => txn'[x] = txn[x]
  BY <1>1 DEF Begin, StoreOK
<1>4. Op(p)
  BY DEF Op
<1>5. QED BY <1>2, <1>3, <1>4

LEMMA OneValue == \A k, v : DOMAIN One(k, v) = {k} /\ One(k, v)[k] = v
BY DEF One

\* A soft deletion begins: it is to delete one record.
LEMMA SoftDeletes ==
  ASSUME FullInv, NEW p \in Req, NEW t \in {Main(p), Sub(p)}, NEW k, Live(k), SoftDelete(t, k),
         \/ \E m \in Miner : k = MinerKey(m)
         \/ \E s \in Signer, u \in User : k = SignerKey(s, u)
  PROVE  /\ Op(p) /\ db' = db /\ DeletesOne(txn[t], k)'
         /\ \A x \in Txn : x # t => txn'[x] = txn[x]
<1>1. PICK v : v = Erased(db[k])
  OBVIOUS
<1>2. PICK w : w = One(k, v)
  OBVIOUS
<1>3. Begin(t, {k}, w, {}) /\ k \in Key
  BY <1>1, <1>2, KeysKnown DEF SoftDelete
<1>4. Writable(w) /\ NamesUsers(w) /\ v.deleted
  <2>1. ASSUME NEW m \in Miner, k = MinerKey(m) PROVE Writable(w) /\ NamesUsers(w) /\ v.deleted
    <3>1. db[k] \in MinerRec /\ ~Absent(k)
      BY <2>1, MinerRecStored DEF FullInv, IInv, Live, Absent
    <3>2. v \in MinerRec /\ v.deleted /\ v.user = db[k].user
      BY <1>1, <3>1, ErasedTyped, ErasedMarks
    <3>3. k \in DOMAIN db
      BY <1>3 DEF FullInv, IInv, TypeOK
    <3>4. ~Absent(UserKey(v.user))
      BY <2>1, <3>1, <3>2, <3>3 DEF FullInv, NamesUsers, Absent
    <3>5. QED BY <1>2, <2>1, <3>2, <3>4, OneWritable, OneNames
  <2>2. ASSUME NEW s \in Signer, NEW u \in User, k = SignerKey(s, u)
        PROVE  Writable(w) /\ NamesUsers(w) /\ v.deleted
    <3>1. db[k] \in SignerRec /\ ~Absent(k)
      BY <2>2, SignerRecStored DEF FullInv, IInv, Live, Absent
    <3>2. v \in SignerRec /\ v.deleted
      BY <1>1, <3>1, ErasedTyped, ErasedMarks
    <3>3. k \in DOMAIN db
      BY <1>3 DEF FullInv, IInv, TypeOK
    <3>4. ~Absent(UserKey(u))
      BY <2>2, <3>1, <3>3 DEF FullInv, NamesUsers, Absent
    <3>5. QED BY <1>2, <2>2, <3>2, <3>4, OneWritable, OneNames
  <2>3. QED BY <2>1, <2>2
<1>5. PICK rs \in SUBSET Key, ks \in SUBSET Key : Begin(t, rs, w, ks)
  <2>1. {k} \in SUBSET Key /\ {} \in SUBSET Key
    BY <1>3
  <2>2. QED BY <1>3, <2>1
<1>6. Writable(w) /\ NamesUsers(w)
  BY <1>4
<1>7. Op(p) /\ db' = db /\ txn'[t].writes = w
  <2>1. Op(p)
    BY <1>5, <1>6, Begins
  <2>2. db' = db
    BY <1>5, <1>6, Begins
  <2>3. txn'[t].writes = w
    <3>1. t \in Txn /\ StoreOK
      BY TxnsDistinct, TypeParts DEF FullInv, IInv
    <3>2. QED BY <1>5, <3>1 DEF Begin, StoreOK
  <2>4. QED BY <2>1, <2>2, <2>3
<1>8. \A x \in Txn : x # t => txn'[x] = txn[x]
  BY <1>5, <1>6, Begins
<1>9. DOMAIN w = {k} /\ w[k] = v
  BY <1>2, OneValue
<1>10. QED BY <1>4, <1>7, <1>8, <1>9 DEF DeletesOne

LEMMA DeleteUserSignersFull ==
  ASSUME FullInv, IInv', NEW p \in Req, DeleteUserSigners(p)
  PROVE  FullInv'
<1>1. PICK n : n = req[p]
  OBVIOUS
<1>2. PICK u : u = req[p].user
  OBVIOUS
<1>3. PICK d : d = ListSigner(u)
  OBVIOUS
<1>4. PICK r : r = [n EXCEPT !.pc = "DeleteUser.walk", !.todo = d]
  OBVIOUS
<1>5. At(p, "DeleteUser.signers") /\ View /\ Goto(p, r)
  BY <1>1, <1>2, <1>3, <1>4 DEF DeleteUserSigners
<1>6. RetireInv(p) /\ req[p].pc \in Deleting
  BY <1>5, Retires DEF At, Deleting
<1>7. r.pc = "DeleteUser.walk" /\ r.user = u /\ r.todo = d /\ req'[p] = r
  <2>1. n \in ReqRec
    BY <1>1, ReqsKnown
  <2>2. r.pc = "DeleteUser.walk" /\ r.user = u /\ r.todo = d
    BY <1>1, <1>2, <1>4, <2>1 DEF ReqRec
  <2>3. QED BY <1>5, <2>2, Moves
<1>8. \A s \in Signer : Live(SignerKey(s, u)) => s \in d
  BY <1>3 DEF ListSigner
<1>9. db' = db /\ txn' = txn
  BY <1>5 DEF View
<1>10. RetireInv(p)'
  BY <1>2, <1>6, <1>7, <1>8, <1>9 DEF RetireInv, Owns, Live
<1>11. QED BY <1>5, <1>7, <1>10, RetireIsAll, GoesOn DEF Op

LEMMA DeleteUserWalkFull ==
  ASSUME FullInv, IInv', NEW p \in Req, NEW s \in Signer, DeleteUserWalk(p, s)
  PROVE  FullInv'
<1>1. PICK n : n = req[p]
  OBVIOUS
<1>2. PICK u : u = req[p].user
  OBVIOUS
<1>3. PICK k : k = SignerKey(s, u)
  OBVIOUS
<1>4. PICK r : r = [n EXCEPT !.pc = "DeleteUser.unregister", !.addr = s]
  OBVIOUS
<1>5. /\ At(p, "DeleteUser.walk")
      /\ \/ Discard({Main(p)}) /\ Respond(p, "error")
         \/ Live(k) /\ SoftDelete(Sub(p), k) /\ Goto(p, r)
  BY <1>1, <1>2, <1>3, <1>4 DEF DeleteUserWalk
<1>6. ASSUME Discard({Main(p)}), Respond(p, "error") PROVE FullInv'
  BY <1>6, Answered1 DEF Op
<1>7. ASSUME Live(k), SoftDelete(Sub(p), k), Goto(p, r) PROVE FullInv'
  <2>1. RetireInv(p) /\ u \in User /\ req[p].pc \in Deleting
    BY <1>2, <1>5, Retires DEF At, Deleting
  <2>2. /\ Op(p) /\ db' = db /\ DeletesOne(txn[Sub(p)], k)'
        /\ \A x \in Txn : x # Sub(p) => txn'[x] = txn[x]
    BY <1>3, <1>7, <2>1, SoftDeletes
  <2>3. txn'[Main(p)] = txn[Main(p)]
    BY <2>2, TxnsDistinct
  <2>4. /\ r.pc = "DeleteUser.unregister" /\ r.user = u /\ r.addr = s /\ r.todo = n.todo
        /\ req'[p] = r
    <3>1. n \in ReqRec
      BY <1>1, ReqsKnown
    <3>2. r.pc = "DeleteUser.unregister" /\ r.user = u /\ r.addr = s /\ r.todo = n.todo
      BY <1>1, <1>2, <1>4, <3>1 DEF ReqRec
    <3>3. QED BY <1>7, <3>2, Moves
  <2>5. req[p].pc = "DeleteUser.walk"
    BY <1>5 DEF At
  <2>6. RetireInv(p)'
    BY <1>1, <1>2, <2>1, <2>2, <2>3, <2>4, <2>5 DEF RetireInv, Owns, Live, Deleting
  <2>7. WorkInv(p)'
    BY <1>3, <2>2, <2>4, <2>6 DEF WorkInv, At, DeletesOne
  <2>8. QED BY <1>7, <2>2, <2>7, GoesOn
<1>8. QED BY <1>5, <1>6, <1>7

\* The commit of a soft deletion.
LEMMA OneDeleted ==
  ASSUME StoreOK, NEW t \in Txn, NEW k \in Key, DeletesOne(txn[t], k), Commit(t)
  PROVE  ~Live(k)' /\ \A x \in Key : x # k => db'[x] = db[x]
<1>1. PICK w : w = txn[t].writes
  OBVIOUS
<1>2. DOMAIN w = {k} /\ w[k].deleted
  BY <1>1 DEF DeletesOne
<1>3. \A x \in Key : db'[x] = IF x \in DOMAIN w THEN w[x] ELSE db[x]
  BY <1>1 DEF Commit, Install
<1>4. db'[k] = w[k]
  BY <1>2, <1>3
<1>5. QED BY <1>2, <1>3, <1>4 DEF Live

LEMMA DeleteUserUnregisterFull ==
  ASSUME FullInv, IInv', NEW p \in Req, DeleteUserUnregister(p)
  PROVE  FullInv'
<1>1. PICK n : n = req[p]
  OBVIOUS
<1>2. PICK u : u = req[p].user
  OBVIOUS
<1>3. PICK a : a = req[p].addr
  OBVIOUS
<1>4. PICK k : k = SignerKey(a, u)
  OBVIOUS
<1>5. PICK r : r = [n EXCEPT !.pc = "DeleteUser.walk", !.addr = Nil, !.todo = @ \ {a}]
  OBVIOUS
<1>6. /\ At(p, "DeleteUser.unregister")
      /\ \/ Discard({Main(p), Sub(p)}) /\ Respond(p, "error")
         \/ Commit(Sub(p)) /\ Goto(p, r)
  BY <1>1, <1>3, <1>5 DEF DeleteUserUnregister
<1>7. ASSUME Discard({Main(p), Sub(p)}), Respond(p, "error") PROVE FullInv'
  BY <1>7, Answered1 DEF Op
<1>8. ASSUME Commit(Sub(p)), Goto(p, r) PROVE FullInv'
  <2>1. RetireInv(p) /\ u \in User /\ req[p].pc = "DeleteUser.unregister"
    BY <1>2, <1>6, Retires DEF At, Deleting
  <2>2. a \in Signer
    BY <1>3, <1>6 DEF At, FullInv, IInv, TypeOK, LocalsOK
  <2>3. k \in Key /\ StoreOK /\ Main(p) \in Txn /\ Sub(p) \in Txn /\ Main(p) # Sub(p)
    BY <1>4, <2>1, <2>2, KeysKnown, TxnsDistinct, TypeParts DEF FullInv, IInv
  <2>4. DeletesOne(txn[Sub(p)], k)
    BY <1>2, <1>3, <1>4, <1>6 DEF FullInv, WorkInv
  <2>5. ~Live(k)' /\ \A x \in Key : x # k => db'[x] = db[x]
    BY <1>8, <2>3, <2>4, OneDeleted
  <2>6. /\ txn'[Main(p)].writes = txn[Main(p)].writes
        /\ txn'[Main(p)].snap = txn[Main(p)].snap
        /\ txn[Main(p)].dirty \subseteq txn'[Main(p)].dirty
    BY <1>8, <2>3, CommitOK DEF Kept
  <2>7. r.pc = "DeleteUser.walk" /\ r.user = u /\ r.todo = n.todo \ {a} /\ req'[p] = r
    <3>1. n \in ReqRec
      BY <1>1, ReqsKnown
    <3>2. r.pc = "DeleteUser.walk" /\ r.user = u /\ r.todo = n.todo \ {a}
      BY <1>1, <1>2, <1>5, <3>1 DEF ReqRec
    <3>3. QED BY <1>8, <3>2, Moves
  <2>8. \A m \in Miner : Owns(u, m)' => MinerKey(m) \in DOMAIN txn'[Main(p)].writes \cup txn'[Main(p)].dirty
    <3>1. \A m \in Miner : MinerKey(m) \in Key /\ MinerKey(m) # k
      BY <1>4, <2>1, <2>2, KeysKnown, KeysDisjoint
    <3>2. \A m \in Miner : Owns(u, m)' => Owns(u, m)
      BY <2>5, <3>1 DEF Owns, Live
    <3>3. \A m \in Miner : Owns(u, m) => MinerKey(m) \in DOMAIN txn[Main(p)].writes \cup txn[Main(p)].dirty
      BY <1>2, <2>1 DEF RetireInv, Deleting
    <3>4. QED BY <2>6, <3>2, <3>3
  <2>9. \A s \in Signer : Live(SignerKey(s, u))' => s \in r.todo \/ SignerKey(s, u) \in txn'[Main(p)].dirty
    <3>1. \A s \in Signer : s # a => SignerKey(s, u) \in Key /\ SignerKey(s, u) # k
      BY <1>4, <2>1, <2>2, KeysKnown, KeysInjective
    <3>2. \A s \in Signer : s # a => (Live(SignerKey(s, u))' => Live(SignerKey(s, u)))
      BY <2>5, <3>1 DEF Live
    <3>3. \A s \in Signer : Live(SignerKey(s, u)) => s \in n.todo \/ SignerKey(s, u) \in txn[Main(p)].dirty
      BY <1>1, <1>2, <2>1 DEF RetireInv
    <3>4. QED BY <1>4, <2>5, <2>6, <2>7, <3>2, <3>3
  <2>10. /\ UserKey(u) \in DOMAIN txn'[Main(p)].writes
         /\ DOMAIN txn'[Main(p)].writes \subseteq {UserKey(u)} \cup MinerKeys
         /\ \A x \in DOMAIN txn'[Main(p)].writes : txn'[Main(p)].writes[x].deleted
         /\ \A s \in Signer : SignerKey(s, u) \in DOMAIN txn'[Main(p)].snap
    BY <1>2, <2>1, <2>6 DEF RetireInv
  <2>11. RetireInv(p)'
    BY <2>7, <2>8, <2>9, <2>10 DEF RetireInv
  <2>12. QED BY <1>8, <2>7, <2>11, RetireIsAll, GoesOn DEF Op
<1>9. QED BY <1>6, <1>7, <1>8

LEMMA DeleteUserCommitFull ==
  ASSUME FullInv, IInv', NEW p \in Req, DeleteUserCommit(p)
  PROVE  FullInv'
BY FinishFull DEF DeleteUserCommit

-----------------------------------------------------------------------------
(* The actions on miners *)

LEMMA UpsertMinerFull ==
  ASSUME FullInv, IInv', NEW p \in Req, NEW m \in Miner, NEW u \in User, UpsertMiner(p, m, u)
  PROVE  FullInv'
<1>1. PICK v : v = [user |-> u, deleted |-> FALSE]
  OBVIOUS
<1>2. PICK w : w = One(MinerKey(m), v)
  OBVIOUS
<1>3. PICK res : res = IF Absent(MinerKey(m)) THEN "true" ELSE "false"
  OBVIOUS
<1>4. PICK r : r = [Idle EXCEPT !.pc = "UpsertMiner", !.user = u, !.addr = m, !.res = res]
  OBVIOUS
<1>5. \/ View /\ Respond(p, "error")
      \/ UserExists(u) /\ Begin(Main(p), {UserKey(u), MinerKey(m)}, w, {}) /\ Goto(p, r)
  BY <1>1, <1>2, <1>3, <1>4 DEF UpsertMiner
<1>6. ASSUME UserExists(u), Begin(Main(p), {UserKey(u), MinerKey(m)}, w, {}), Goto(p, r)
      PROVE  FullInv'
  <2>1. v \in MinerRec /\ v.user = u
    BY <1>1 DEF MinerRec
  <2>2. Writable(w) /\ NamesUsers(w)
    BY <1>2, <1>6, <2>1, OneWritable, OneNames DEF UserExists
  <2>3. PICK rs \in SUBSET Key, ks \in SUBSET Key : Begin(Main(p), rs, w, ks)
    <3>1. {UserKey(u), MinerKey(m)} \in SUBSET Key /\ {} \in SUBSET Key
      BY KeysKnown
    <3>2. QED BY <1>6, <3>1
  <2>4. Op(p)
    BY <2>2, <2>3 DEF Op
  <2>5. txn'[Main(p)].writes = w
    BY <2>3, TxnsDistinct, TypeParts DEF Begin, StoreOK, FullInv, IInv
  <2>6. r.pc = "UpsertMiner" /\ r.user = u /\ r.addr = m /\ req'[p] = r
    <3>1. r.pc = "UpsertMiner" /\ r.user = u /\ r.addr = m
      BY <1>4 DEF Idle
    <3>2. QED BY <1>6, <3>1, Moves
  <2>7. WorkInv(p)'
    BY <1>1, <1>2, <2>5, <2>6 DEF WorkInv, At, Deleting
  <2>8. QED BY <1>6, <2>4, <2>7, GoesOn
<1>7. QED BY <1>5, <1>6, ViewAnswers

LEMMA UpsertMinerCommitFull ==
  ASSUME FullInv, IInv', NEW p \in Req, UpsertMinerCommit(p)
  PROVE  FullInv'
BY FinishFull DEF UpsertMinerCommit

LEMMA DelMinerCommitFull ==
  ASSUME FullInv, IInv', NEW p \in Req, DelMinerCommit(p)
  PROVE  FullInv'
BY FinishFull DEF DelMinerCommit

LEMMA DelMinerBeginFull ==
  ASSUME FullInv, IInv', NEW p \in Req, NEW m \in Miner, DelMinerBegin(p, m)
  PROVE  FullInv'
<1>1. PICK k : k = MinerKey(m)
  OBVIOUS
<1>2. PICK r : r = [Idle EXCEPT !.pc = "DelMiner", !.addr = m, !.res = "true"]
  OBVIOUS
<1>3. \/ \E a : View /\ Respond(p, a)
      \/ Live(k) /\ SoftDelete(Main(p), k) /\ Goto(p, r)
  BY <1>1, <1>2 DEF DelMinerBegin
<1>4. ASSUME Live(k), SoftDelete(Main(p), k), Goto(p, r) PROVE FullInv'
  <2>1. Op(p) /\ DeletesOne(txn[Main(p)], k)'
    BY <1>1, <1>4, SoftDeletes
  <2>2. r.pc = "DelMiner" /\ r.addr = m /\ req'[p] = r
    <3>1. r.pc = "DelMiner" /\ r.addr = m
      BY <1>2 DEF Idle
    <3>2. QED BY <1>4, <3>1, Moves
  <2>3. WorkInv(p)'
    BY <1>1, <2>1, <2>2 DEF WorkInv, At, Deleting, DeletesOne
  <2>4. QED BY <1>4, <2>1, <2>3, GoesOn
<1>5. QED BY <1>3, <1>4, ViewAnswers

LEMMA DelMinerFull ==
  ASSUME FullInv, IInv', NEW p \in Req, NEW m \in Miner, DelMiner(p, m)
  PROVE  FullInv'
BY DelMinerBeginFull DEF DelMiner

LEMMA OwnerDelMinerBeginFull ==
  ASSUME FullInv, IInv', NEW p \in Req, OwnerDelMinerBegin(p)
  PROVE  FullInv'
<1>1. req[p].addr \in Miner
  BY DEF OwnerDelMinerBegin, At, FullInv, IInv, TypeOK, LocalsOK
<1>2. QED BY <1>1, DelMinerBeginFull DEF OwnerDelMinerBegin

LEMMA OwnerDelMinerFull ==
  ASSUME FullInv, IInv', NEW p \in Req, NEW m \in Miner, NEW u \in User, OwnerDelMiner(p, m, u)
  PROVE  FullInv'
<1>1. PICK r : r = [Idle EXCEPT !.pc = "OwnerDelMiner", !.addr = m]
  OBVIOUS
<1>2. r.pc \in Quiet
  BY <1>1 DEF Idle, Quiet
<1>3. View /\ (Respond(p, "error") \/ Goto(p, r))
  BY <1>1 DEF OwnerDelMiner
<1>4. QED BY <1>2, <1>3, ViewAnswers, ViewQuiet

LEMMA GetUserByMinerFull ==
  ASSUME FullInv, IInv', NEW p \in Req, NEW m \in Miner, GetUserByMiner(p, m)
  PROVE  FullInv'
<1>1. PICK x : x = db[MinerKey(m)].user
  OBVIOUS
<1>2. PICK r : r = [Idle EXCEPT !.pc = "GetUserByMiner", !.user = x]
  OBVIOUS
<1>3. r.pc \in Quiet
  BY <1>2 DEF Idle, Quiet
<1>4. View /\ (Respond(p, "error") \/ Goto(p, r))
  BY <1>1, <1>2 DEF GetUserByMiner
<1>5. QED BY <1>3, <1>4, ViewAnswers, ViewQuiet

LEMMA GetUserByMinerUserFull ==
  ASSUME FullInv, IInv', NEW p \in Req, GetUserByMinerUser(p)
  PROVE  FullInv'
BY ViewAnswers DEF GetUserByMinerUser

-----------------------------------------------------------------------------
(* The actions on signers *)

LEMMA RegisterSignersFull ==
  ASSUME FullInv, IInv', NEW p \in Req, NEW u \in User, NEW l \in Batch,
         RegisterSigners(p, u, l) \/ UnregisterSigners(p, u, l)
  PROVE  FullInv'
<1>1. ASSUME NEW pc \in {"Register", "Unregister"}, View,
             Goto(p, [Idle EXCEPT !.pc = pc, !.user = u, !.list = l])
      PROVE  FullInv'
  <2>1. PICK r : r = [Idle EXCEPT !.pc = pc, !.user = u, !.list = l]
    OBVIOUS
  <2>2. r.pc \in Quiet
    BY <2>1 DEF Idle, Quiet
  <2>3. QED BY <1>1, <2>1, <2>2, ViewQuiet
<1>2. QED BY <1>1 DEF RegisterSigners, UnregisterSigners

\* What the next step of a batch carries.
LEMMA Batched ==
  ASSUME FullInv, NEW p \in Req, NEW c, NEW r, r = [req[p] EXCEPT !.pc = c], Goto(p, r)
  PROVE  r.pc = c /\ r.user = req[p].user /\ r.list = req[p].list /\ req'[p] = r
<1>1. req[p] \in ReqRec
  BY ReqsKnown
<1>2. r.pc = c /\ r.user = req[p].user /\ r.list = req[p].list
  BY <1>1 DEF ReqRec
<1>3. QED BY <1>2, Moves

LEMMA RegisterSignerFull ==
  ASSUME FullInv, IInv', NEW p \in Req, RegisterSigner(p)
  PROVE  FullInv'
<1>1. PICK u : u = req[p].user
  OBVIOUS
<1>2. PICK a : a = Head(req[p].list)
  OBVIOUS
<1>3. PICK k : k = SignerKey(a, u)
  OBVIOUS
<1>4. PICK v : v = [deleted |-> FALSE]
  OBVIOUS
<1>5. PICK w : w = One(k, v)
  OBVIOUS
<1>6. PICK r : r = [req[p] EXCEPT !.pc = "Register.commit"]
  OBVIOUS
<1>7. /\ At(p, "Register")
      /\ \/ \E x : View /\ Respond(p, x)
         \/ /\ IsSignerAddress(a) /\ UserExists(u)
            /\ Begin(Main(p), {UserKey(u), k}, w, {}) /\ Goto(p, r)
  BY <1>1, <1>2, <1>3, <1>4, <1>5, <1>6 DEF RegisterSigner
<1>8. ASSUME IsSignerAddress(a), UserExists(u),
             Begin(Main(p), {UserKey(u), k}, w, {}), Goto(p, r)
      PROVE  FullInv'
  <2>1. v \in SignerRec
    BY <1>4 DEF SignerRec
  <2>2. a \in Signer /\ u \in User
    BY <1>1, <1>7, <1>8 DEF IsSignerAddress, At, FullInv, IInv, TypeOK, LocalsOK
  <2>3. Writable(w) /\ NamesUsers(w)
    BY <1>3, <1>5, <1>8, <2>1, <2>2, OneWritable, OneNames DEF UserExists
  <2>4. PICK rs \in SUBSET Key, ks \in SUBSET Key : Begin(Main(p), rs, w, ks)
    <3>1. {UserKey(u), k} \in SUBSET Key /\ {} \in SUBSET Key
      BY <1>3, <2>2, KeysKnown
    <3>2. QED BY <1>8, <3>1
  <2>5. Op(p)
    BY <2>3, <2>4 DEF Op
  <2>6. txn'[Main(p)].writes = w
    BY <2>4, TxnsDistinct, TypeParts DEF Begin, StoreOK, FullInv, IInv
  <2>7. r.pc = "Register.commit" /\ r.user = u /\ Head(r.list) = a /\ req'[p] = r
    BY <1>1, <1>2, <1>6, <1>8, Batched
  <2>8. WorkInv(p)'
    BY <1>3, <1>4, <1>5, <2>6, <2>7 DEF WorkInv, At, Deleting
  <2>9. QED BY <1>8, <2>5, <2>8, GoesOn
<1>9. QED BY <1>7, <1>8, ViewAnswers

LEMMA UnregisterSignerFull ==
  ASSUME FullInv, IInv', NEW p \in Req, UnregisterSigner(p)
  PROVE  FullInv'
<1>1. PICK u : u = req[p].user
  OBVIOUS
<1>2. PICK a : a = Head(req[p].list)
  OBVIOUS
<1>3. PICK k : k = SignerKey(a, u)
  OBVIOUS
<1>4. PICK r : r = [req[p] EXCEPT !.pc = "Unregister.commit"]
  OBVIOUS
<1>5. PICK n : n = [req[p] EXCEPT !.list = Tail(@)]
  OBVIOUS
<1>6. /\ At(p, "Unregister")
      /\ \/ \E x : View /\ Respond(p, x)
         \/ View /\ Goto(p, n)
         \/ /\ IsSignerAddress(a) /\ Live(k)
            /\ SoftDelete(Main(p), k) /\ Goto(p, r)
  BY <1>1, <1>2, <1>3, <1>4, <1>5 DEF UnregisterSigner
<1>7. ASSUME View, Goto(p, n) PROVE FullInv'
  <2>1. n.pc = "Unregister"
    BY <1>5, <1>6, ReqsKnown DEF At, ReqRec
  <2>2. QED BY <1>7, <2>1, ViewQuiet DEF Quiet
<1>8. ASSUME IsSignerAddress(a), Live(k), SoftDelete(Main(p), k), Goto(p, r) PROVE FullInv'
  <2>1. a \in Signer /\ u \in User
    BY <1>1, <1>6, <1>8 DEF IsSignerAddress, At, FullInv, IInv, TypeOK, LocalsOK
  <2>2. Op(p) /\ DeletesOne(txn[Main(p)], k)'
    BY <1>3, <1>8, <2>1, SoftDeletes
  <2>3. r.pc = "Unregister.commit" /\ r.user = u /\ Head(r.list) = a /\ req'[p] = r
    BY <1>1, <1>2, <1>4, <1>8, Batched
  <2>4. WorkInv(p)'
    BY <1>3, <2>2, <2>3 DEF WorkInv, At, Deleting, DeletesOne
  <2>5. QED BY <1>8, <2>2, <2>4, GoesOn
<1>9. QED BY <1>6, <1>7, <1>8, ViewAnswers

LEMMA BatchCommitFull ==
  ASSUME FullInv, IInv', NEW p \in Req, NEW pc \in {"Register", "Unregister"}, BatchCommit(p, pc)
  PROVE  FullInv'
<1>1. PICK n : n = req[p]
  OBVIOUS
<1>2. PICK r : r = [n EXCEPT !.pc = pc, !.list = Tail(@)]
  OBVIOUS
<1>3. n \in ReqRec
  BY <1>1, ReqsKnown
<1>4. r.pc \in Quiet
  BY <1>2, <1>3 DEF ReqRec, Quiet
<1>5. \/ Discard({Main(p)}) /\ Respond(p, "error")
      \/ Commit(Main(p)) /\ Goto(p, r)
  BY <1>1, <1>2 DEF BatchCommit
<1>6. Op(p)
  BY <1>5 DEF Op
<1>7. QED BY <1>4, <1>5, <1>6, Answered1, GoesQuiet

LEMMA RegisterCommitFull ==
  ASSUME FullInv, IInv', NEW p \in Req, RegisterCommit(p) \/ UnregisterCommit(p)
  PROVE  FullInv'
BY BatchCommitFull DEF RegisterCommit, UnregisterCommit

LEMMA DelSignerBeginFull ==
  ASSUME FullInv, IInv', NEW p \in Req, NEW s \in Signer, DelSignerBegin(p, s)
  PROVE  FullInv'
<1>1. PICK bound : bound = {u \in User : Live(SignerKey(s, u))}
  OBVIOUS
<1>2. PICK res : res = IF bound = {} THEN "false" ELSE "true"
  OBVIOUS
<1>3. PICK r : r = [Idle EXCEPT !.pc = "DelSigner", !.addr = s, !.todo = bound, !.res = res]
  OBVIOUS
<1>4. PICK ks \in SUBSET Key : ks = {SignerKey(s, u) : u \in User}
  BY KeysKnown
<1>5. Begin(Main(p), {}, NoWrites, ks) /\ Goto(p, r)
  BY <1>1, <1>2, <1>3, <1>4 DEF DelSignerBegin
<1>6. \E rs \in SUBSET Key : \E w : Begin(Main(p), rs, w, ks) /\ w = NoWrites
  <2>1. {} \in SUBSET Key
    OBVIOUS
  <2>2. QED BY <1>5, <2>1
<1>7. Op(p)
  BY <1>4, <1>6, OneWritable, NoneNamed DEF Op
<1>8. db' = db /\ DOMAIN txn'[Main(p)].snap = ks
  BY <1>6, TxnsDistinct, TypeParts DEF Begin, StoreOK, FullInv, IInv
<1>9. r.pc = "DelSigner" /\ r.addr = s /\ r.todo = bound /\ req'[p] = r
  <2>1. r.pc = "DelSigner" /\ r.addr = s /\ r.todo = bound
    BY <1>3 DEF Idle
  <2>2. QED BY <1>5, <2>1, Moves
<1>10. \A u \in User : SignerKey(s, u) \in ks /\ (Live(SignerKey(s, u))' => u \in bound)
  BY <1>1, <1>4, <1>8 DEF Live
<1>11. WalkInv(p)'
  BY <1>8, <1>9, <1>10 DEF WalkInv
<1>12. WorkInv(p)'
  BY <1>9, <1>11 DEF WorkInv, At, Deleting
<1>13. QED BY <1>5, <1>7, <1>12, GoesOn

LEMMA DelSignerFull ==
  ASSUME FullInv, IInv', NEW p \in Req, NEW s \in Signer, DelSigner(p, s)
  PROVE  FullInv'
BY DelSignerBeginFull DEF DelSigner

LEMMA OwnerDelSignerFull ==
  ASSUME FullInv, IInv', NEW p \in Req, NEW s \in Signer, NEW u \in User, OwnerDelSigner(p, s, u)
  PROVE  FullInv'
<1>1. PICK r : r = [Idle EXCEPT !.pc = "OwnerDelSigner", !.addr = s]
  OBVIOUS
<1>2. r.pc \in Quiet
  BY <1>1 DEF Idle, Quiet
<1>3. View /\ (Respond(p, "error") \/ Goto(p, r))
  BY <1>1 DEF OwnerDelSigner
<1>4. QED BY <1>2, <1>3, ViewAnswers, ViewQuiet

LEMMA OwnerDelSignerBeginFull ==
  ASSUME FullInv, IInv', NEW p \in Req, OwnerDelSignerBegin(p)
  PROVE  FullInv'
<1>1. req[p].addr \in Signer
  BY DEF OwnerDelSignerBegin, At, FullInv, IInv, TypeOK, LocalsOK
<1>2. QED BY <1>1, DelSignerBeginFull DEF OwnerDelSignerBegin

\* The binding the walk of DelSigner reaches, deleted whatever it is by now.
LEMMA WalkDeletes ==
  ASSUME FullInv, NEW p \in Req, NEW u \in User, DelSignerWalk(p, u),
         NEW s, s = req[p].addr, NEW k, k = SignerKey(s, u)
  PROVE  /\ s \in Signer /\ k \in Key /\ u \in req[p].todo /\ Op(p)
         /\ ~Live(k)' /\ \A x \in Key : x # k => db'[x] = db[x]
         /\ Kept(Main(p))
<1>1. PICK v : v = Erased(txn[Main(p)].snap[k])
  OBVIOUS
<1>2. PICK w : w = One(k, v)
  OBVIOUS
<1>3. At(p, "DelSigner") /\ u \in req[p].todo /\ Put(w)
  BY <1>1, <1>2 DEF DelSignerWalk
<1>4. s \in Signer /\ Main(p) \in Txn /\ StoreOK
  BY <1>3, TxnsDistinct, TypeParts DEF At, FullInv, IInv, TypeOK, LocalsOK
<1>5. k \in DOMAIN txn[Main(p)].snap /\ txn[Main(p)].snap[k] # Nil
  BY <1>3 DEF FullInv, IInv, RequestInv
<1>6. txn[Main(p)].snap[k] \in SignerRec
  BY <1>4, <1>5, KeysKnown DEF FullInv, IInv, TypeOK, TxnOK, Typed
<1>7. v \in SignerRec /\ v.deleted
  BY <1>1, <1>6, ErasedTyped, ErasedMarks
<1>8. ~Absent(UserKey(u))
  BY <1>4, <1>5 DEF FullInv, NamesUsers
<1>9. Writable(w) /\ NamesUsers(w)
  BY <1>2, <1>4, <1>7, <1>8, OneWritable, OneNames
<1>10. k \in Key
  BY <1>4, KeysKnown
<1>11. DOMAIN w = {k} /\ w[k] = v
  BY <1>2, OneValue
<1>12. \A x \in Key : db'[x] = IF x \in DOMAIN w THEN w[x] ELSE db[x]
  BY <1>3 DEF Put, Install
<1>13. db'[k] = v /\ \A x \in Key : x # k => db'[x] = db[x]
  BY <1>10, <1>11, <1>12
<1>14. Op(p)
  BY <1>3, <1>9 DEF Op
<1>15. Kept(Main(p))
  BY <1>3, <1>4, <1>9, PutOK
<1>16. ~Live(k)'
  BY <1>7, <1>13 DEF Live
<1>17. QED BY <1>3, <1>4, <1>10, <1>13, <1>14, <1>15, <1>16

LEMMA DelSignerWalkFull ==
  ASSUME FullInv, IInv', NEW p \in Req, NEW u \in User, DelSignerWalk(p, u)
  PROVE  FullInv'
<1>1. PICK n : n = req[p]
  OBVIOUS
<1>2. PICK s : s = req[p].addr
  OBVIOUS
<1>3. PICK k : k = SignerKey(s, u)
  OBVIOUS
<1>4. PICK r : r = [n EXCEPT !.todo = @ \ {u}]
  OBVIOUS
<1>5. At(p, "DelSigner") /\ Goto(p, r)
  BY <1>1, <1>4 DEF DelSignerWalk
<1>6. /\ s \in Signer /\ k \in Key /\ Op(p)
      /\ ~Live(k)' /\ \A x \in Key : x # k => db'[x] = db[x]
      /\ Kept(Main(p))
  BY <1>2, <1>3, WalkDeletes
<1>7. r.pc = "DelSigner" /\ r.addr = s /\ r.todo = n.todo \ {u} /\ req'[p] = r
  <2>1. n \in ReqRec
    BY <1>1, ReqsKnown
  <2>2. r.pc = "DelSigner" /\ r.addr = s /\ r.todo = n.todo \ {u}
    BY <1>1, <1>2, <1>4, <1>5, <2>1 DEF ReqRec, At
  <2>3. QED BY <1>5, <2>2, Moves
<1>8. WalkInv(p)
  BY <1>5 DEF FullInv, WorkInv
<1>9. /\ txn'[Main(p)].snap = txn[Main(p)].snap
      /\ txn[Main(p)].dirty \subseteq txn'[Main(p)].dirty
  BY <1>6 DEF Kept
<1>10. ASSUME NEW x \in User, NEW j, j = SignerKey(s, x)
       PROVE  /\ j \in DOMAIN txn'[Main(p)].snap
              /\ Live(j)' => x \in r.todo \/ j \in txn'[Main(p)].dirty
  <2>1. /\ j \in DOMAIN txn[Main(p)].snap
        /\ Live(j) => x \in n.todo \/ j \in txn[Main(p)].dirty
    BY <1>1, <1>2, <1>8, <1>10 DEF WalkInv
  <2>2. x # u => j # k /\ j \in Key
    BY <1>3, <1>6, <1>10, KeysKnown, KeysInjective
  <2>3. x # u => (Live(j)' => Live(j))
    BY <1>6, <2>2 DEF Live
  <2>4. x = u => ~Live(j)'
    BY <1>3, <1>6, <1>10 DEF Live
  <2>5. QED BY <1>7, <1>9, <2>1, <2>3, <2>4
<1>11. WalkInv(p)'
  BY <1>7, <1>10 DEF WalkInv, Live
<1>12. WorkInv(p)'
  BY <1>7, <1>11 DEF WorkInv, At, Deleting
<1>13. QED BY <1>5, <1>6, <1>12, GoesOn

LEMMA DelSignerDoneFull ==
  ASSUME FullInv, IInv', NEW p \in Req, DelSignerDone(p)
  PROVE  FullInv'
BY Answered1 DEF DelSignerDone, Op

LEMMA GetUserBySignerFull ==
  ASSUME FullInv, IInv', NEW p \in Req, NEW s \in Signer, GetUserBySigner(p, s)
  PROVE  FullInv'
<1>1. PICK d : d = {u \in User : ~Absent(SignerKey(s, u))}
  OBVIOUS
<1>2. PICK r : r = [Idle EXCEPT !.pc = "GetUserBySigner", !.addr = s, !.todo = d]
  OBVIOUS
<1>3. r.pc \in Quiet
  BY <1>2 DEF Idle, Quiet
<1>4. View /\ Goto(p, r)
  BY <1>1, <1>2 DEF GetUserBySigner
<1>5. QED BY <1>3, <1>4, ViewQuiet

LEMMA GetUserBySignerWalkFull ==
  ASSUME FullInv, IInv', NEW p \in Req, NEW u \in User, GetUserBySignerWalk(p, u)
  PROVE  FullInv'
<1>1. PICK n : n = req[p]
  OBVIOUS
<1>2. PICK r : r = [n EXCEPT !.todo = @ \ {u}, !.found = @ \cup {u}]
  OBVIOUS
<1>3. At(p, "GetUserBySigner") /\ View /\ (Respond(p, "error") \/ Goto(p, r))
  BY <1>1, <1>2 DEF GetUserBySignerWalk
<1>4. n \in ReqRec
  BY <1>1, ReqsKnown
<1>5. r.pc \in Quiet
  BY <1>1, <1>2, <1>3, <1>4 DEF At, ReqRec, Quiet
<1>6. QED BY <1>3, <1>5, ViewAnswers, ViewQuiet

LEMMA GetUserBySignerDoneFull ==
  ASSUME FullInv, IInv', NEW p \in Req, GetUserBySignerDone(p)
  PROVE  FullInv'
BY ViewAnswers DEF GetUserBySignerDone

-----------------------------------------------------------------------------
(* The process, and the specification *)

LEMMA CallFull == ASSUME FullInv, IInv', NEW p \in Req, Call(p) PROVE FullInv'
<1>1. CASE \E u \in User, st \in UserState : CreateUser(p, u, st) \/ UpdateUser(p, u, st)
  BY <1>1, CreateUserFull, UpdateUserFull
<1>2. CASE \E u \in User : RecoverUser(p, u) \/ DeleteUser(p, u)
  BY <1>2, RecoverUserFull, DeleteUserFull
<1>3. CASE \E m \in Miner, u \in User : UpsertMiner(p, m, u) \/ OwnerDelMiner(p, m, u)
  BY <1>3, UpsertMinerFull, OwnerDelMinerFull
<1>4. CASE \E m \in Miner : DelMiner(p, m) \/ GetUserByMiner(p, m)
  BY <1>4, DelMinerFull, GetUserByMinerFull
<1>5. CASE \E u \in User, l \in Batch : RegisterSigners(p, u, l) \/ UnregisterSigners(p, u, l)
  BY <1>5, RegisterSignersFull
<1>6. CASE \E s \in Signer, u \in User : OwnerDelSigner(p, s, u)
  BY <1>6, OwnerDelSignerFull
<1>7. CASE \E s \in Signer : DelSigner(p, s) \/ GetUserBySigner(p, s)
  BY <1>7, DelSignerFull, GetUserBySignerFull
<1>8. QED BY <1>1, <1>2, <1>3, <1>4, <1>5, <1>6, <1>7 DEF Call

LEMMA StepKeepsFull == ASSUME FullInv, IInv', NEW p \in Req, Step(p) PROVE FullInv'
<1>1. CASE PutUser(p)
  BY <1>1, PutUserFull
<1>2. CASE DeleteUserMiners(p) \/ DeleteUserSigners(p)
  BY <1>2, DeleteUserMinersFull, DeleteUserSignersFull
<1>3. CASE \E s \in Signer : DeleteUserWalk(p, s)
  BY <1>3, DeleteUserWalkFull
<1>4. CASE DeleteUserUnregister(p) \/ DeleteUserCommit(p)
  BY <1>4, DeleteUserUnregisterFull, DeleteUserCommitFull
<1>5. CASE UpsertMinerCommit(p) \/ OwnerDelMinerBegin(p) \/ DelMinerCommit(p)
  BY <1>5, UpsertMinerCommitFull, OwnerDelMinerBeginFull, DelMinerCommitFull
<1>6. CASE GetUserByMinerUser(p)
  BY <1>6, GetUserByMinerUserFull
<1>7. CASE RegisterSigner(p) \/ RegisterCommit(p)
  BY <1>7, RegisterSignerFull, RegisterCommitFull
<1>8. CASE UnregisterSigner(p) \/ UnregisterCommit(p)
  BY <1>8, UnregisterSignerFull, RegisterCommitFull
<1>9. CASE OwnerDelSignerBegin(p) \/ DelSignerDone(p) \/ GetUserBySignerDone(p)
  BY <1>9, OwnerDelSignerBeginFull, DelSignerDoneFull, GetUserBySignerDoneFull
<1>10. CASE \E u \in User : DelSignerWalk(p, u) \/ GetUserBySignerWalk(p, u)
  BY <1>10, DelSignerWalkFull, GetUserBySignerWalkFull
<1>11. QED BY <1>1, <1>2, <1>3, <1>4, <1>5, <1>6, <1>7, <1>8, <1>9, <1>10 DEF Step

LEMMA CrashFull == ASSUME FullInv, IInv', Crash PROVE FullInv'
<1>1. db' = db /\ txn' = [t \in Txn |-> NoTxn] /\ req' = [p \in Req |-> Idle]
  BY DEF Crash
<1>2. StoreOK /\ StoreOK' /\ BindInv
  BY FullParts, TypeParts DEF IInv, TypeOK, StoreOK
<1>3. BindInv'
  BY <1>1, <1>2, IdleOp, NoneNamed
<1>4. ASSUME NEW p \in Req PROVE WorkInv(p)'
  BY <1>1, QuietWork DEF Idle, Quiet
<1>5. QED BY <1>3, <1>4 DEF FullInv, BindInv

LEMMA StutterFull == ASSUME FullInv, IInv', UNCHANGED vars PROVE FullInv'
<1>1. db' = db /\ txn' = txn /\ req' = req
  BY DEF vars
<1>2. StoreOK /\ StoreOK' /\ BindInv
  BY FullParts, TypeParts DEF IInv, TypeOK, StoreOK
<1>3. BindInv'
  BY <1>1, <1>2, IdleOp
<1>4. ASSUME NEW q \in Req PROVE WorkInv(q)'
  BY <1>1, SameKept, FrameWork
<1>5. QED BY <1>3, <1>4 DEF FullInv, BindInv

LEMMA NextFull == FullInv /\ [Next]_vars => FullInv'
<1> SUFFICES ASSUME FullInv, [Next]_vars PROVE FullInv'
  OBVIOUS
<1>1. IInv'
  BY NextInv DEF FullInv
<1>2. CASE Crash
  BY <1>1, <1>2, CrashFull
<1>3. CASE \E p \in Req : Call(p) \/ Step(p)
  BY <1>1, <1>3, CallFull, StepKeepsFull
<1>4. CASE UNCHANGED vars
  BY <1>1, <1>4, StutterFull
<1>5. QED BY <1>2, <1>3, <1>4 DEF Next

LEMMA InitFull == Init => FullInv
<1> SUFFICES ASSUME Init PROVE FullInv
  OBVIOUS
<1>1. \A k \in Key : db[k] = Nil
  BY DEF Init
<1>2. NamesUsers(db)
  BY <1>1, KeysKnown DEF NamesUsers
<1>3. \A t \in Txn : NamesUsers(txn[t].writes) /\ NamesUsers(txn[t].snap)
  BY NoneNamed DEF Init
<1>4. \A p \in Req : WorkInv(p)
  BY DEF Init, Idle, WorkInv, At, Deleting
<1>5. QED BY <1>2, <1>3, <1>4, InitInv DEF FullInv

\* What was read, what is bound and what is to be written: the invariant
\* behind the theorems below, kept by every step of every handler.
THEOREM FullInductive == Spec => []FullInv
BY InitFull, NextFull, PTL DEF Spec

\* UpsertMiner and RegisterSigner refuse an unknown user (badger.go:499 looks
\* for its key) and no key of a user is removed, so no binding is to a user
\* that was never created, whatever deletions race with it.
THEOREM NamedUsers == Spec => []BindingsNameUsers
<1>1. ASSUME FullInv PROVE BindingsNameUsers
  <2>1. DOMAIN db = Key /\ NamesUsers(db)
    BY <1>1, TypeParts DEF FullInv, IInv, StoreOK
  <2>2. QED BY <2>1, KeysKnown DEF BindingsNameUsers, NamesUsers, Absent
<1>2. QED BY <1>1, FullInductive, PTL

-----------------------------------------------------------------------------
(* DeleteUser and DelSigner leave nothing behind *)

\* Every action ends its request or moves it on.
Turn(p) == (\E a : Respond(p, a)) \/ (\E r : Goto(p, r))

LEMMA DelBeginsTurn ==
  ASSUME NEW p
  PROVE  /\ \A m : DelMinerBegin(p, m) => Turn(p)
         /\ \A s : DelSignerBegin(p, s) => Turn(p)
         /\ \A pc : BatchCommit(p, pc) => Turn(p)
         /\ \A t, a : Finish(p, t, a) => Turn(p)
BY DEF DelMinerBegin, DelSignerBegin, BatchCommit, Finish, Turn

LEMMA CallTurns ==
  ASSUME NEW p \in Req, Call(p)
  PROVE  Turn(p) /\ req[p].pc = "idle"
<1>1. ASSUME NEW u \in User,
             \/ \E st \in UserState : CreateUser(p, u, st) \/ UpdateUser(p, u, st)
             \/ RecoverUser(p, u) \/ DeleteUser(p, u)
      PROVE  Turn(p) /\ req[p].pc = "idle"
  BY <1>1 DEF CreateUser, UpdateUser, RecoverUser, DeleteUser, Starts, Turn
<1>2. ASSUME NEW m \in Miner,
             \/ \E u \in User : UpsertMiner(p, m, u) \/ OwnerDelMiner(p, m, u)
             \/ DelMiner(p, m) \/ GetUserByMiner(p, m)
      PROVE  Turn(p) /\ req[p].pc = "idle"
  BY <1>2, DelBeginsTurn
     DEF UpsertMiner, OwnerDelMiner, DelMiner, GetUserByMiner, Starts, Turn
<1>3. ASSUME NEW u \in User, NEW l \in Batch,
             RegisterSigners(p, u, l) \/ UnregisterSigners(p, u, l)
      PROVE  Turn(p) /\ req[p].pc = "idle"
  BY <1>3 DEF RegisterSigners, UnregisterSigners, Starts, Turn
<1>4. ASSUME NEW s \in Signer,
             \/ \E u \in User : OwnerDelSigner(p, s, u)
             \/ DelSigner(p, s) \/ GetUserBySigner(p, s)
      PROVE  Turn(p) /\ req[p].pc = "idle"
  BY <1>4, DelBeginsTurn DEF OwnerDelSigner, DelSigner, GetUserBySigner, Starts, Turn
<1>5. QED BY <1>1, <1>2, <1>3, <1>4 DEF Call

LEMMA StepTurns ==
  ASSUME NEW p \in Req, Step(p)
  PROVE  Turn(p)
<1>1. ASSUME \/ PutUser(p) \/ DeleteUserMiners(p) \/ DeleteUserSigners(p)
             \/ \E s \in Signer : DeleteUserWalk(p, s)
             \/ DeleteUserUnregister(p) \/ DeleteUserCommit(p)
      PROVE  Turn(p)
  BY <1>1, DelBeginsTurn
     DEF PutUser, DeleteUserMiners, DeleteUserSigners, DeleteUserWalk, DeleteUserUnregister,
         DeleteUserCommit, Turn
<1>2. ASSUME \/ UpsertMinerCommit(p) \/ OwnerDelMinerBegin(p) \/ DelMinerCommit(p)
             \/ GetUserByMinerUser(p)
      PROVE  Turn(p)
  BY <1>2, DelBeginsTurn
     DEF UpsertMinerCommit, OwnerDelMinerBegin, DelMinerCommit, GetUserByMinerUser, Turn
<1>3. ASSUME \/ RegisterSigner(p) \/ RegisterCommit(p)
             \/ UnregisterSigner(p) \/ UnregisterCommit(p)
      PROVE  Turn(p)
  BY <1>3, DelBeginsTurn DEF RegisterSigner, RegisterCommit, UnregisterSigner, UnregisterCommit, Turn
<1>4. ASSUME \/ OwnerDelSignerBegin(p) \/ DelSignerDone(p)
             \/ \E u \in User : DelSignerWalk(p, u) \/ GetUserBySignerWalk(p, u)
             \/ GetUserBySignerDone(p)
      PROVE  Turn(p)
  BY <1>4, DelBeginsTurn
     DEF OwnerDelSignerBegin, DelSignerDone, DelSignerWalk, GetUserBySignerWalk,
         GetUserBySignerDone, Turn
<1>5. QED BY <1>1, <1>2, <1>3, <1>4 DEF Step

\* The turn of one request is not noticed by another.
LEMMA OtherTurn ==
  ASSUME FullInv, NEW p \in Req, NEW q \in Req, q # p, Turn(q)
  PROVE  req'[p] = req[p] /\ out'[p] = "none"
<1>1. CASE \E a : Respond(q, a)
  BY <1>1, ReqsKnown DEF Respond, Silent
<1>2. CASE \E r : Goto(q, r)
  BY <1>2, ReqsKnown DEF Goto, Silent
<1>3. QED BY <1>1, <1>2 DEF Turn

\* Which steps are open to a deletion.
LEMMA OwnStep ==
  ASSUME NEW p \in Req, Call(p) \/ Step(p)
  PROVE  /\ At(p, "DeleteUser.unregister") => DeleteUserUnregister(p)
         /\ At(p, "DeleteUser.walk") =>
              (\E s \in Signer : DeleteUserWalk(p, s)) \/ DeleteUserCommit(p)
         /\ At(p, "DelSigner") =>
              (\E u \in User : DelSignerWalk(p, u)) \/ DelSignerDone(p)
<1> SUFFICES ASSUME req[p].pc \in {"DeleteUser.unregister", "DeleteUser.walk", "DelSigner"}
             PROVE  /\ At(p, "DeleteUser.unregister") => DeleteUserUnregister(p)
                    /\ At(p, "DeleteUser.walk") =>
                         (\E s \in Signer : DeleteUserWalk(p, s)) \/ DeleteUserCommit(p)
                    /\ At(p, "DelSigner") =>
                         (\E u \in User : DelSignerWalk(p, u)) \/ DelSignerDone(p)
  BY DEF At
<1>1. ~Call(p)
  BY CallTurns
<1>2. ~PutUser(p) /\ ~DeleteUserMiners(p) /\ ~DeleteUserSigners(p)
  BY DEF PutUser, DeleteUserMiners, DeleteUserSigners, At
<1>3. /\ ~UpsertMinerCommit(p) /\ ~OwnerDelMinerBegin(p) /\ ~DelMinerCommit(p)
      /\ ~GetUserByMinerUser(p)
  BY DEF UpsertMinerCommit, OwnerDelMinerBegin, DelMinerCommit, GetUserByMinerUser, At
<1>4. /\ ~RegisterSigner(p) /\ ~RegisterCommit(p) /\ ~UnregisterSigner(p)
      /\ ~UnregisterCommit(p) /\ ~OwnerDelSignerBegin(p) /\ ~GetUserBySignerDone(p)
      /\ \A u \in User : ~GetUserBySignerWalk(p, u)
  BY DEF RegisterSigner, RegisterCommit, UnregisterSigner, UnregisterCommit, OwnerDelSignerBegin,
         GetUserBySignerDone, GetUserBySignerWalk, At
<1>5. /\ DeleteUserUnregister(p) => At(p, "DeleteUser.unregister")
      /\ (\E s \in Signer : DeleteUserWalk(p, s)) \/ DeleteUserCommit(p) => At(p, "DeleteUser.walk")
      /\ (\E u \in User : DelSignerWalk(p, u)) \/ DelSignerDone(p) => At(p, "DelSigner")
  BY DEF DeleteUserUnregister, DeleteUserWalk, DeleteUserCommit, DelSignerWalk, DelSignerDone
<1>6. QED BY <1>1, <1>2, <1>3, <1>4, <1>5 DEF Step, At

\* The transaction of DeleteUser commits: what it deletes is gone, what it
\* does not delete was seen deleted or was written since it began.
LEMMA DeletionCommits ==
  ASSUME FullInv, NEW p \in Req, DeleteUserCommit(p), NEW u, u = req[p].user, Commit(Main(p))
  PROVE  /\ u \in User /\ ~Live(UserKey(u))'
         /\ \A m \in Miner : Owns(u, m)' => MinerKey(m) \in txn[Main(p)].dirty
         /\ \A s \in Signer : Live(SignerKey(s, u))' => SignerKey(s, u) \in txn[Main(p)].dirty
<1>1. /\ RetireInv(p) /\ u \in User /\ req[p].pc = "DeleteUser.walk" /\ req[p].todo = {}
  BY Retires DEF DeleteUserCommit, At, Deleting
<1>2. PICK w : w = txn[Main(p)].writes
  OBVIOUS
<1>3. \A x \in Key : db'[x] = IF x \in DOMAIN w THEN w[x] ELSE db[x]
  BY <1>2 DEF Commit, Install
<1>4. /\ UserKey(u) \in DOMAIN w /\ DOMAIN w \subseteq {UserKey(u)} \cup MinerKeys
      /\ \A k \in DOMAIN w : w[k].deleted
      /\ \A m \in Miner : Owns(u, m) => MinerKey(m) \in DOMAIN w \cup txn[Main(p)].dirty
      /\ \A s \in Signer : Live(SignerKey(s, u)) => SignerKey(s, u) \in txn[Main(p)].dirty
  BY <1>1, <1>2 DEF RetireInv, Deleting
<1>5. \A k \in Key : k \in DOMAIN w => ~Live(k)'
  BY <1>3, <1>4 DEF Live
<1>6. ~Live(UserKey(u))'
  BY <1>1, <1>4, <1>5, KeysKnown
<1>7. ASSUME NEW m \in Miner, Owns(u, m)' PROVE MinerKey(m) \in txn[Main(p)].dirty
  <2>1. MinerKey(m) \in Key /\ Live(MinerKey(m))' /\ db'[MinerKey(m)].user = u
    BY <1>7, KeysKnown DEF Owns
  <2>2. MinerKey(m) \notin DOMAIN w
    BY <1>5, <2>1
  <2>3. Owns(u, m)
    BY <1>3, <2>1, <2>2 DEF Owns, Live
  <2>4. QED BY <1>4, <2>2, <2>3
<1>8. ASSUME NEW s \in Signer, Live(SignerKey(s, u))' PROVE SignerKey(s, u) \in txn[Main(p)].dirty
  <2>1. SignerKey(s, u) \in Key /\ SignerKey(s, u) \notin {UserKey(u)} \cup MinerKeys
    BY <1>1, KeysKnown, KeysDisjoint
  <2>2. Live(SignerKey(s, u))
    BY <1>3, <1>4, <1>8, <2>1 DEF Live
  <2>3. QED BY <1>4, <2>2
<1>9. QED BY <1>1, <1>6, <1>7, <1>8

\* One signer leaves the walk, deleted.
LEMMA UnregisterDeletes ==
  ASSUME FullInv, NEW p \in Req, DeleteUserUnregister(p), NEW u, u = req[p].user,
         At(p, "DeleteUser.walk")', NEW s \in req[p].todo \ req'[p].todo
  PROVE  ~Live(SignerKey(s, u))'
<1>1. PICK n : n = req[p]
  OBVIOUS
<1>2. PICK a : a = req[p].addr
  OBVIOUS
<1>3. PICK r : r = [n EXCEPT !.pc = "DeleteUser.walk", !.addr = Nil, !.todo = @ \ {a}]
  OBVIOUS
<1>4. /\ At(p, "DeleteUser.unregister")
      /\ Respond(p, "error") \/ (Commit(Sub(p)) /\ Goto(p, r))
  BY <1>1, <1>2, <1>3 DEF DeleteUserUnregister
<1>5. ~Respond(p, "error")
  BY ReqsKnown DEF Respond, At, Idle
<1>6. Commit(Sub(p)) /\ Goto(p, r)
  BY <1>4, <1>5
<1>7. s = a
  <2>1. n \in ReqRec
    BY <1>1, ReqsKnown
  <2>2. r.todo = n.todo \ {a}
    BY <1>3, <2>1 DEF ReqRec
  <2>3. QED BY <1>1, <1>6, <2>2, Moves
<1>8. PICK k : k = SignerKey(a, u)
  OBVIOUS
<1>9. DeletesOne(txn[Sub(p)], k)
  BY <1>2, <1>4, <1>8 DEF FullInv, WorkInv
<1>10. a \in Signer /\ u \in User
  BY <1>2, <1>4 DEF At, FullInv, IInv, TypeOK, LocalsOK
<1>11. k \in Key /\ StoreOK /\ Sub(p) \in Txn
  BY <1>8, <1>10, KeysKnown, TxnsDistinct, TypeParts DEF FullInv, IInv
<1>12. ~Live(k)'
  BY <1>6, <1>9, <1>11, OneDeleted
<1>13. QED BY <1>7, <1>8, <1>12 DEF Live

\* badger.go:206: when DeleteUser answers ok, its user is deleted, and so is
\* every miner and signer bound to the user, but for those that another
\* request wrote while it ran; a signer leaves its walk only when deleted.
THEOREM CompleteDeletion == Spec => DeleteComplete
<1>1. ASSUME FullInv, Next, NEW p \in Req, NEW u \in User, u = req[p].user
      PROVE  /\ At(p, "DeleteUser.unregister") /\ At(p, "DeleteUser.walk")' =>
                  \A s \in req[p].todo \ req'[p].todo : ~Live(SignerKey(s, u))'
             /\ At(p, "DeleteUser.walk") /\ out'[p] = "ok" =>
                  /\ ~Live(UserKey(u))'
                  /\ \A m \in Miner : Owns(u, m)' => MinerKey(m) \in txn[Main(p)].dirty
                  /\ \A s \in Signer :
                       Live(SignerKey(s, u))' => SignerKey(s, u) \in txn[Main(p)].dirty
  <2>1. CASE Crash
    BY <2>1 DEF Crash, Silent, Idle, At
  <2>2. ASSUME NEW q \in Req, q # p, Call(q) \/ Step(q)
        PROVE  req'[p] = req[p] /\ out'[p] = "none"
    BY <1>1, <2>2, CallTurns, StepTurns, OtherTurn
  <2>3. ASSUME Call(p) \/ Step(p), At(p, "DeleteUser.unregister"), At(p, "DeleteUser.walk")',
               NEW s \in req[p].todo \ req'[p].todo
        PROVE  ~Live(SignerKey(s, u))'
    BY <1>1, <2>3, OwnStep, UnregisterDeletes
  <2>4. ASSUME Call(p) \/ Step(p), At(p, "DeleteUser.walk"), out'[p] = "ok"
        PROVE  /\ ~Live(UserKey(u))'
               /\ \A m \in Miner : Owns(u, m)' => MinerKey(m) \in txn[Main(p)].dirty
               /\ \A s \in Signer :
                    Live(SignerKey(s, u))' => SignerKey(s, u) \in txn[Main(p)].dirty
    <3>1. \A r : ~Goto(p, r)
      BY <2>4 DEF Goto, Silent
    <3>2. ~Respond(p, "error")
      BY <2>4 DEF Respond, Silent
    <3>3. \A s \in Signer : ~DeleteUserWalk(p, s)
      BY <3>1, <3>2 DEF DeleteUserWalk
    <3>4. DeleteUserCommit(p)
      BY <2>4, <3>3, OwnStep
    <3>5. Commit(Main(p))
      BY <3>2, <3>4 DEF DeleteUserCommit, Finish
    <3>6. QED BY <1>1, <3>4, <3>5, DeletionCommits
  <2>5. QED BY <1>1, <2>1, <2>2, <2>3, <2>4 DEF Next, At
<1>2. FullInv /\ [Next]_vars =>
        [\A p \in Req, u \in User :
           u = req[p].user =>
             /\ At(p, "DeleteUser.unregister") /\ At(p, "DeleteUser.walk")' =>
                  \A s \in req[p].todo \ req'[p].todo : ~Live(SignerKey(s, u))'
             /\ At(p, "DeleteUser.walk") /\ out'[p] = "ok" =>
                  /\ ~Live(UserKey(u))'
                  /\ \A m \in Miner :
                       Owns(u, m)' => MinerKey(m) \in txn[Main(p)].dirty
                  /\ \A s \in Signer :
                       Live(SignerKey(s, u))' => SignerKey(s, u) \in txn[Main(p)].dirty]_vars
  BY <1>1
<1>3. QED BY <1>2, FullInductive, PTL DEF Spec, DeleteComplete

\* store.go:88: DelSigner answers only when every binding of the signer was
\* deleted by its walk, or was written by another request since it began.
THEOREM CompleteDelSigner == Spec => DelSignerComplete
<1>1. ASSUME FullInv, Next, NEW p \in Req, NEW s \in Signer, At(p, "DelSigner"), s = req[p].addr
      PROVE  /\ At(p, "DelSigner")' =>
                  \A u \in req[p].todo \ req'[p].todo : ~Live(SignerKey(s, u))'
             /\ out'[p] \in {"true", "false"} =>
                  \A u \in User : Live(SignerKey(s, u)) => SignerKey(s, u) \in txn[Main(p)].dirty
  <2>1. CASE Crash
    BY <2>1 DEF Crash, Silent, Idle, At
  <2>2. ASSUME NEW q \in Req, q # p, Call(q) \/ Step(q)
        PROVE  req'[p] = req[p] /\ out'[p] = "none"
    BY <1>1, <2>2, CallTurns, StepTurns, OtherTurn
  <2>3. ASSUME NEW u \in User, DelSignerWalk(p, u), NEW x \in req[p].todo \ req'[p].todo
        PROVE  ~Live(SignerKey(s, x))'
    <3>1. PICK n : n = req[p]
      OBVIOUS
    <3>2. PICK r : r = [n EXCEPT !.todo = @ \ {u}]
      OBVIOUS
    <3>3. Goto(p, r)
      BY <2>3, <3>1, <3>2 DEF DelSignerWalk
    <3>4. r.todo = n.todo \ {u}
      BY <1>1, <3>1, <3>2, ReqsKnown DEF ReqRec
    <3>5. x = u
      BY <1>1, <2>3, <3>1, <3>3, <3>4, Moves
    <3>6. PICK k : k = SignerKey(s, u)
      OBVIOUS
    <3>7. ~Live(k)'
      BY <1>1, <2>3, <3>6, WalkDeletes
    <3>8. QED BY <3>5, <3>6, <3>7 DEF Live
  <2>4. ASSUME NEW u \in User, DelSignerWalk(p, u) PROVE out'[p] = "none"
    BY <2>4 DEF DelSignerWalk, Goto, Silent
  <2>5. ASSUME DelSignerDone(p), NEW u \in User, Live(SignerKey(s, u))
        PROVE  SignerKey(s, u) \in txn[Main(p)].dirty
    <3>1. WalkInv(p) /\ req[p].todo = {}
      BY <1>1, <2>5 DEF DelSignerDone, FullInv, WorkInv
    <3>2. QED BY <1>1, <2>5, <3>1 DEF WalkInv
  <2>6. DelSignerDone(p) => ~At(p, "DelSigner")'
    BY <1>1, ReqsKnown DEF DelSignerDone, Respond, At, Idle
  <2>7. CASE Call(p) \/ Step(p)
    <3>1. (\E u \in User : DelSignerWalk(p, u)) \/ DelSignerDone(p)
      BY <1>1, <2>7, OwnStep
    <3>2. QED BY <2>3, <2>4, <2>5, <2>6, <3>1
  <2>8. CASE \E q \in Req : q # p /\ (Call(q) \/ Step(q))
    BY <2>2, <2>8
  <2>9. QED BY <1>1, <2>1, <2>7, <2>8 DEF Next
<1>2. FullInv /\ [Next]_vars =>
        [\A p \in Req, s \in Signer :
           At(p, "DelSigner") /\ s = req[p].addr =>
             /\ At(p, "DelSigner")' =>
                  \A u \in req[p].todo \ req'[p].todo : ~Live(SignerKey(s, u))'
             /\ out'[p] \in {"true", "false"} =>
                  \A u \in User : Live(SignerKey(s, u)) =>
                    SignerKey(s, u) \in txn[Main(p)].dirty]_vars
  BY <1>1
<1>3. QED BY <1>2, FullInductive, PTL DEF Spec, DelSignerComplete

-----------------------------------------------------------------------------
(* What a step does to the records *)

\* One record is set to v, or is live no more; the others stay.
Sets(k, v) == db'[k] = v /\ \A x \in Key : x # k => db'[x] = db[x]
Drops(k)   == ~Live(k)' /\ \A x \in Key : x # k => db'[x] = db[x]

\* The user u is deleted, with some of the miners it owns.
Retired(u) ==
  /\ Live(UserKey(u)) /\ ~Absent(UserKey(u))' /\ ~Live(UserKey(u))'
  /\ \A k \in Key : k # UserKey(u) /\ k \notin MinerKeys => db'[k] = db[k]
  /\ \A m \in Miner : \/ db'[MinerKey(m)] = db[MinerKey(m)]
                      \/ Owns(u, m) /\ ~Live(MinerKey(m))'

Effect ==
  \/ db' = db
  \/ \E u \in User, v \in UserRec : ~v.deleted /\ Sets(UserKey(u), v)
  \/ \E u \in User : Retired(u)
  \/ \E m \in Miner, u \in User :
       ~Absent(UserKey(u)) /\ Sets(MinerKey(m), [user |-> u, deleted |-> FALSE])
  \/ \E m \in Miner : Live(MinerKey(m)) /\ Drops(MinerKey(m))
  \/ \E s \in Signer, u \in User :
       \/ ~Absent(UserKey(u)) /\ Sets(SignerKey(s, u), [deleted |-> FALSE])
       \/ Drops(SignerKey(s, u))

\* The commit of a transaction that writes one record.
LEMMA OneSet ==
  ASSUME NEW t, Commit(t), NEW k \in Key, NEW v, txn[t].writes = One(k, v)
  PROVE  Sets(k, v)
<1>1. PICK w : w = txn[t].writes
  OBVIOUS
<1>2. DOMAIN w = {k} /\ w[k] = v
  BY <1>1, OneValue
<1>3. \A x \in Key : db'[x] = IF x \in DOMAIN w THEN w[x] ELSE db[x]
  BY <1>1 DEF Commit, Install
<1>4. QED BY <1>2, <1>3 DEF Sets

LEMMA OneDropped ==
  ASSUME StoreOK, NEW t \in Txn, NEW k \in Key, DeletesOne(txn[t], k), Commit(t)
  PROVE  Drops(k)
<1>1. ~Live(k)' /\ \A x \in Key : x # k => db'[x] = db[x]
  BY OneDeleted
<1>2. QED BY <1>1 DEF Drops

LEMMA PutUserEffect ==
  ASSUME FullInv, NEW p \in Req, PutUser(p)
  PROVE  Effect
<1>1. PICK u : u = req[p].user
  OBVIOUS
<1>2. PICK v : v = req[p].rec
  OBVIOUS
<1>3. u \in User /\ v \in UserRec /\ ~v.deleted
  BY <1>1, <1>2 DEF PutUser, At, FullInv, IInv, TypeOK, LocalsOK, WorkInv
<1>4. PICK w : w = One(UserKey(u), v)
  OBVIOUS
<1>5. DOMAIN w = {UserKey(u)} /\ w[UserKey(u)] = v
  BY <1>4, OneValue
<1>6. Put(w)
  BY <1>1, <1>2, <1>4 DEF PutUser
<1>7. \A x \in Key : db'[x] = IF x \in DOMAIN w THEN w[x] ELSE db[x]
  BY <1>6 DEF Put, Install
<1>8. UserKey(u) \in Key
  BY <1>3, KeysKnown
<1>9. Sets(UserKey(u), v)
  BY <1>5, <1>7, <1>8 DEF Sets
<1>10. QED BY <1>3, <1>9 DEF Effect

LEMMA MinerEffect ==
  ASSUME FullInv, NEW p \in Req, UpsertMinerCommit(p) \/ DelMinerCommit(p)
  PROVE  Effect
<1>1. CASE db' = db
  BY <1>1 DEF Effect
<1>2. CASE db' # db
  <2>1. Commit(Main(p))
    BY <1>2 DEF UpsertMinerCommit, DelMinerCommit, Finish, Discard
  <2>2. PICK m : m = req[p].addr
    OBVIOUS
  <2>3. m \in Miner /\ StoreOK /\ Main(p) \in Txn
    BY <2>2, TxnsDistinct, TypeParts
       DEF UpsertMinerCommit, DelMinerCommit, At, FullInv, IInv, TypeOK, LocalsOK
  <2>4. PICK k \in Key : k = MinerKey(m)
    BY <2>3, KeysKnown
  <2>5. CASE UpsertMinerCommit(p)
    <3>1. PICK u : u = req[p].user
      OBVIOUS
    <3>2. u \in User
      BY <2>5, <3>1 DEF UpsertMinerCommit, At, FullInv, IInv, TypeOK, LocalsOK
    <3>3. PICK v : v = [user |-> u, deleted |-> FALSE]
      OBVIOUS
    <3>4. txn[Main(p)].writes = One(k, v)
      BY <2>2, <2>4, <2>5, <3>1, <3>3 DEF UpsertMinerCommit, FullInv, WorkInv
    <3>5. Sets(k, v)
      BY <2>1, <3>4, OneSet
    <3>6. ~Absent(UserKey(u))
      <4>1. PICK w : w = txn[Main(p)].writes
        OBVIOUS
      <4>2. NamesUsers(w)
        BY <2>3, <4>1 DEF FullInv
      <4>3. DOMAIN w = {k} /\ w[k] = v
        BY <3>4, <4>1, OneValue
      <4>4. v \in MinerRec /\ v.user = u /\ v # Nil
        <5>1. v \in MinerRec /\ v.user = u
          BY <3>2, <3>3 DEF MinerRec
        <5>2. QED BY <5>1, ConstantsOK
      <4>5. MinerKey(m) \in DOMAIN w /\ w[MinerKey(m)] = v
        BY <2>4, <4>3
      <4>6. ~Absent(UserKey(w[MinerKey(m)].user))
        BY <2>3, <4>2, <4>4, <4>5 DEF NamesUsers
      <4>7. QED BY <4>4, <4>5, <4>6
    <3>7. QED BY <2>3, <2>4, <3>2, <3>3, <3>5, <3>6 DEF Effect
  <2>6. CASE DelMinerCommit(p)
    <3>1. DeletesOne(txn[Main(p)], k) /\ ReadLive(txn[Main(p)], k)
      BY <2>2, <2>4, <2>6 DEF DelMinerCommit, FullInv, IInv, WorkInv, RequestInv
    <3>2. Drops(k)
      BY <2>1, <2>3, <3>1, OneDropped
    <3>3. Live(k)
      BY <2>1, <3>1 DEF Commit, Conflict, ReadLive
    <3>4. QED BY <2>3, <2>4, <3>2, <3>3 DEF Effect
  <2>7. QED BY <2>5, <2>6
<1>3. QED BY <1>1, <1>2

LEMMA SignerEffect ==
  ASSUME FullInv, NEW p \in Req, RegisterCommit(p) \/ UnregisterCommit(p)
  PROVE  Effect
<1>1. CASE db' = db
  BY <1>1 DEF Effect
<1>2. CASE db' # db
  <2>1. Commit(Main(p))
    BY <1>2 DEF RegisterCommit, UnregisterCommit, BatchCommit, Discard
  <2>2. PICK s : s = Head(req[p].list)
    OBVIOUS
  <2>3. PICK u : u = req[p].user
    OBVIOUS
  <2>4. s \in Signer /\ u \in User /\ StoreOK /\ Main(p) \in Txn
    BY <2>2, <2>3, TxnsDistinct, TypeParts
       DEF RegisterCommit, UnregisterCommit, At, FullInv, IInv, TypeOK, LocalsOK
  <2>5. PICK k \in Key : k = SignerKey(s, u)
    BY <2>4, KeysKnown
  <2>6. CASE RegisterCommit(p)
    <3>1. PICK v : v = [deleted |-> FALSE]
      OBVIOUS
    <3>2. txn[Main(p)].writes = One(k, v)
      BY <2>2, <2>3, <2>5, <2>6, <3>1 DEF RegisterCommit, FullInv, WorkInv
    <3>3. Sets(k, v)
      BY <2>1, <3>2, OneSet
    <3>4. ~Absent(UserKey(u))
      <4>1. PICK w : w = txn[Main(p)].writes
        OBVIOUS
      <4>2. NamesUsers(w)
        BY <2>4, <4>1 DEF FullInv
      <4>3. DOMAIN w = {k} /\ w[k] = v
        BY <3>2, <4>1, OneValue
      <4>4. v \in SignerRec /\ v # Nil
        <5>1. v \in SignerRec
          BY <3>1 DEF SignerRec
        <5>2. QED BY <5>1, ConstantsOK
      <4>5. SignerKey(s, u) \in DOMAIN w /\ w[SignerKey(s, u)] # Nil
        BY <2>5, <4>3, <4>4
      <4>6. QED BY <2>4, <4>2, <4>5 DEF NamesUsers
    <3>5. QED BY <2>4, <2>5, <3>1, <3>3, <3>4 DEF Effect
  <2>7. CASE UnregisterCommit(p)
    <3>1. DeletesOne(txn[Main(p)], k)
      BY <2>2, <2>3, <2>5, <2>7 DEF UnregisterCommit, FullInv, WorkInv
    <3>2. Drops(k)
      BY <2>1, <2>4, <3>1, OneDropped
    <3>3. QED BY <2>4, <2>5, <3>2 DEF Effect
  <2>8. QED BY <2>6, <2>7
<1>3. QED BY <1>1, <1>2

LEMMA DelSignerEffect ==
  ASSUME FullInv, NEW p \in Req, NEW u \in User, DelSignerWalk(p, u)
  PROVE  Effect
<1>1. PICK s : s = req[p].addr
  OBVIOUS
<1>2. PICK k : k = SignerKey(s, u)
  OBVIOUS
<1>3. s \in Signer /\ ~Live(k)' /\ \A x \in Key : x # k => db'[x] = db[x]
  BY <1>1, <1>2, WalkDeletes
<1>4. Drops(k)
  BY <1>3 DEF Drops
<1>5. QED BY <1>2, <1>3, <1>4 DEF Effect

LEMMA RetireEffect ==
  ASSUME FullInv, NEW p \in Req, DeleteUserCommit(p)
  PROVE  Effect
<1>1. CASE db' = db
  BY <1>1 DEF Effect
<1>2. CASE db' # db
  <2>1. Commit(Main(p)) /\ ~Conflict(Main(p))
    BY <1>2 DEF DeleteUserCommit, Finish, Discard, Commit
  <2>2. PICK u : u = req[p].user
    OBVIOUS
  <2>3. RetireInv(p) /\ DeleteInv(p) /\ u \in User /\ req[p].pc = "DeleteUser.walk"
    BY <2>2, Retires DEF DeleteUserCommit, At, Deleting
  <2>4. PICK w : w = txn[Main(p)].writes
    OBVIOUS
  <2>5. \A x \in Key : db'[x] = IF x \in DOMAIN w THEN w[x] ELSE db[x]
    BY <2>1, <2>4 DEF Commit, Install
  <2>6. /\ UserKey(u) \in DOMAIN w /\ DOMAIN w \subseteq {UserKey(u)} \cup MinerKeys
        /\ \A k \in DOMAIN w : w[k].deleted
    BY <2>2, <2>3, <2>4 DEF RetireInv
  <2>7. \A k \in DOMAIN w : w[k] # Nil
    BY <2>4, TxnsDistinct, TypeParts DEF FullInv, IInv, StoreOK, TxnOK, Writable
  <2>8. /\ Live(UserKey(u))
        /\ \A m \in Miner : MinerKey(m) \in DOMAIN w => Owns(u, m)
    BY <2>1, <2>2, <2>3, <2>4 DEF DeleteInv, ReadLive, Conflict
  <2>9. ~Absent(UserKey(u))' /\ ~Live(UserKey(u))'
    <3>1. UserKey(u) \in Key
      BY <2>3, KeysKnown
    <3>2. db'[UserKey(u)] = w[UserKey(u)]
      BY <2>5, <2>6, <3>1
    <3>3. QED BY <2>6, <2>7, <3>2 DEF Absent, Live
  <2>10. \A k \in Key : k # UserKey(u) /\ k \notin MinerKeys => db'[k] = db[k]
    BY <2>5, <2>6
  <2>11. ASSUME NEW m \in Miner
         PROVE  \/ db'[MinerKey(m)] = db[MinerKey(m)]
                \/ Owns(u, m) /\ ~Live(MinerKey(m))'
    BY <2>5, <2>6, <2>8, KeysKnown DEF Live
  <2>12. Retired(u)
    BY <2>8, <2>9, <2>10, <2>11 DEF Retired
  <2>13. QED BY <2>3, <2>12 DEF Effect
<1>3. QED BY <1>1, <1>2

LEMMA UnregisterEffect ==
  ASSUME FullInv, NEW p \in Req, DeleteUserUnregister(p)
  PROVE  Effect
<1>1. CASE db' = db
  BY <1>1 DEF Effect
<1>2. CASE db' # db
  <2>1. Commit(Sub(p)) /\ At(p, "DeleteUser.unregister")
    BY <1>2 DEF DeleteUserUnregister, Discard
  <2>2. PICK s : s = req[p].addr
    OBVIOUS
  <2>3. PICK u : u = req[p].user
    OBVIOUS
  <2>4. s \in Signer /\ u \in User /\ StoreOK /\ Sub(p) \in Txn
    BY <2>1, <2>2, <2>3, TxnsDistinct, TypeParts DEF At, FullInv, IInv, TypeOK, LocalsOK
  <2>5. PICK k \in Key : k = SignerKey(s, u)
    BY <2>4, KeysKnown
  <2>6. DeletesOne(txn[Sub(p)], k)
    BY <2>1, <2>2, <2>3, <2>5 DEF FullInv, WorkInv
  <2>7. Drops(k)
    BY <2>1, <2>4, <2>6, OneDropped
  <2>8. QED BY <2>4, <2>5, <2>7 DEF Effect
<1>3. QED BY <1>1, <1>2

LEMMA BeginsKeep ==
  ASSUME NEW p
  PROVE  /\ \A m : DelMinerBegin(p, m) => db' = db
         /\ \A s : DelSignerBegin(p, s) => db' = db
BY DEF DelMinerBegin, DelSignerBegin, View, SoftDelete, Begin

LEMMA CallKeeps ==
  ASSUME NEW p \in Req, Call(p)
  PROVE  db' = db
<1>1. ASSUME NEW u \in User,
             \/ \E st \in UserState : CreateUser(p, u, st) \/ UpdateUser(p, u, st)
             \/ RecoverUser(p, u) \/ DeleteUser(p, u)
      PROVE  db' = db
  BY <1>1 DEF CreateUser, UpdateUser, RecoverUser, DeleteUser, View, Begin
<1>2. ASSUME NEW m \in Miner,
             \/ \E u \in User : UpsertMiner(p, m, u) \/ OwnerDelMiner(p, m, u)
             \/ DelMiner(p, m) \/ GetUserByMiner(p, m)
      PROVE  db' = db
  BY <1>2, BeginsKeep DEF UpsertMiner, OwnerDelMiner, DelMiner, GetUserByMiner, View, Begin
<1>3. ASSUME NEW u \in User, NEW l \in Batch,
             RegisterSigners(p, u, l) \/ UnregisterSigners(p, u, l)
      PROVE  db' = db
  BY <1>3 DEF RegisterSigners, UnregisterSigners, View
<1>4. ASSUME NEW s \in Signer,
             \/ \E u \in User : OwnerDelSigner(p, s, u)
             \/ DelSigner(p, s) \/ GetUserBySigner(p, s)
      PROVE  db' = db
  BY <1>4, BeginsKeep DEF OwnerDelSigner, DelSigner, GetUserBySigner, View
<1>5. QED BY <1>1, <1>2, <1>3, <1>4 DEF Call

LEMMA StepEffect ==
  ASSUME FullInv, NEW p \in Req, Step(p)
  PROVE  Effect
<1>1. ASSUME \/ DeleteUserMiners(p) \/ DeleteUserSigners(p)
             \/ \E s \in Signer : DeleteUserWalk(p, s)
      PROVE  db' = db
  BY <1>1 DEF DeleteUserMiners, DeleteUserSigners, DeleteUserWalk, View, Discard, Extend,
              SoftDelete, Begin
<1>2. ASSUME OwnerDelMinerBegin(p) \/ OwnerDelSignerBegin(p) PROVE db' = db
  BY <1>2, BeginsKeep DEF OwnerDelMinerBegin, OwnerDelSignerBegin
<1>3. ASSUME RegisterSigner(p) \/ UnregisterSigner(p) PROVE db' = db
  BY <1>3 DEF RegisterSigner, UnregisterSigner, View, SoftDelete, Begin
<1>4. ASSUME \/ GetUserByMinerUser(p) \/ DelSignerDone(p) \/ GetUserBySignerDone(p)
             \/ \E u \in User : GetUserBySignerWalk(p, u)
      PROVE  db' = db
  BY <1>4 DEF GetUserByMinerUser, DelSignerDone, GetUserBySignerDone, GetUserBySignerWalk,
              View, Discard
<1>5. db' = db => Effect
  BY DEF Effect
<1>6. QED
  BY <1>1, <1>2, <1>3, <1>4, <1>5, PutUserEffect, RetireEffect, UnregisterEffect, MinerEffect,
     SignerEffect, DelSignerEffect DEF Step

LEMMA NextEffect == ASSUME FullInv, [Next]_vars PROVE Effect
<1>1. ASSUME Crash \/ UNCHANGED vars \/ \E p \in Req : Call(p) PROVE db' = db
  BY <1>1, CallKeeps DEF Crash, vars
<1>2. db' = db => Effect
  BY DEF Effect
<1>3. QED BY <1>1, <1>2, StepEffect DEF Next

-----------------------------------------------------------------------------
(* What the Store interface shows of a step *)

UsersStay   == \A u \in User : db'[UserKey(u)] = db[UserKey(u)]
MinersStay  == \A m \in Miner : db'[MinerKey(m)] = db[MinerKey(m)]
SignersStay == \A s \in Signer, u \in User : db'[SignerKey(s, u)] = db[SignerKey(s, u)]

LEMMA Views ==
  /\ UsersStay => UserView' = UserView
  /\ MinersStay => MinerView' = MinerView
  /\ SignersStay => SignerView' = SignerView
<1>1. UsersStay => UserView' = UserView
  BY DEF UsersStay, UserView, Live, Absent
<1>2. MinersStay => MinerView' = MinerView
  BY DEF MinersStay, MinerView, Live
<1>3. ASSUME SignersStay PROVE SignerView' = SignerView
  <2>1. \A b \in Signer \X User : Live(SignerKey(b[1], b[2]))' <=> Live(SignerKey(b[1], b[2]))
    BY <1>3 DEF SignersStay, Live
  <2>2. QED BY <2>1 DEF SignerView
<1>4. QED BY <1>1, <1>2, <1>3

LEMMA OneKind ==
  ASSUME NEW k \in Key, \A x \in Key : x # k => db'[x] = db[x]
  PROVE  /\ k \notin UserKeys => UsersStay
         /\ k \notin MinerKeys => MinersStay
         /\ k \notin SignerKeys => SignersStay
BY KeysKnown DEF UsersStay, MinersStay, SignersStay

LEMMA UserSaved ==
  ASSUME NEW u \in User, NEW v \in UserRec, ~v.deleted, Sets(UserKey(u), v)
  PROVE  Registry!SaveUser(u)
<1>1. PICK k \in UserKeys : k = UserKey(u)
  BY KeysKnown
<1>2. k \in Key /\ k \notin MinerKeys /\ k \notin SignerKeys
  BY KeysKnown, KeysDisjoint
<1>3. db'[k] = v /\ \A x \in Key : x # k => db'[x] = db[x]
  BY <1>1 DEF Sets
<1>4. MinersStay /\ SignersStay
  BY <1>2, <1>3, OneKind
<1>5. v # Nil
  BY ConstantsOK
<1>6. UserView'[u] = "live"
  BY <1>1, <1>3, <1>5 DEF UserView, Live, Absent
<1>7. ASSUME NEW x \in User, x # u PROVE UserView'[x] = UserView[x]
  <2>1. UserKey(x) \in Key /\ UserKey(x) # k
    BY <1>1, <1>7, KeysKnown, KeysInjective
  <2>2. db'[UserKey(x)] = db[UserKey(x)]
    BY <1>3, <2>1
  <2>3. QED BY <2>2 DEF UserView, Live, Absent
<1>8. /\ UserView = [x \in User |-> UserView[x]]
      /\ UserView' = [x \in User |-> UserView'[x]]
  BY DEF UserView
<1> HIDE DEF UserView
<1>9. UserView' = [UserView EXCEPT ![u] = "live"]
  BY <1>6, <1>7, <1>8
<1>10. QED BY <1>4, <1>9, Views DEF Registry!SaveUser

\* A record of a miner changes.
LEMMA MinerSeen ==
  ASSUME NEW m \in Miner, \A x \in Key : x # MinerKey(m) => db'[x] = db[x]
  PROVE  /\ UserView' = UserView /\ SignerView' = SignerView
         /\ MinerView' = [MinerView EXCEPT ![m] = MinerView'[m]]
<1>1. PICK k \in MinerKeys : k = MinerKey(m)
  BY KeysKnown
<1>2. k \in Key /\ k \notin UserKeys /\ k \notin SignerKeys
  BY KeysKnown, KeysDisjoint
<1>3. UsersStay /\ SignersStay
  BY <1>1, <1>2, OneKind
<1>4. ASSUME NEW x \in Miner, x # m PROVE MinerView'[x] = MinerView[x]
  <2>1. MinerKey(x) \in Key /\ MinerKey(x) # MinerKey(m)
    BY <1>4, KeysKnown, KeysInjective
  <2>2. db'[MinerKey(x)] = db[MinerKey(x)]
    BY <2>1
  <2>3. QED BY <2>2 DEF MinerView, Live
<1>5. /\ MinerView = [x \in Miner |-> MinerView[x]]
      /\ MinerView' = [x \in Miner |-> MinerView'[x]]
  BY DEF MinerView
<1> HIDE DEF MinerView
<1>6. MinerView' = [MinerView EXCEPT ![m] = MinerView'[m]]
  BY <1>4, <1>5
<1>7. QED BY <1>3, <1>6, Views

LEMMA MinerBound ==
  ASSUME NEW m \in Miner, NEW u \in User, ~Absent(UserKey(u)),
         Sets(MinerKey(m), [user |-> u, deleted |-> FALSE])
  PROVE  Registry!BindMiner(m, u)
<1>1. PICK v : v = [user |-> u, deleted |-> FALSE]
  OBVIOUS
<1>2. v \in MinerRec /\ v.user = u /\ ~v.deleted
  BY <1>1 DEF MinerRec
<1>3. v # Nil
  BY <1>2, ConstantsOK
<1>4. db'[MinerKey(m)] = v /\ \A x \in Key : x # MinerKey(m) => db'[x] = db[x]
  BY <1>1 DEF Sets
<1>5. MinerView'[m] = u
  BY <1>2, <1>3, <1>4 DEF MinerView, Live
<1>6. UserView[u] # "absent"
  BY DEF UserView
<1>7. /\ UserView' = UserView /\ SignerView' = SignerView
      /\ MinerView' = [MinerView EXCEPT ![m] = MinerView'[m]]
  BY <1>4, MinerSeen
<1>8. QED BY <1>5, <1>6, <1>7 DEF Registry!BindMiner

LEMMA MinerReleased ==
  ASSUME FullInv, NEW m \in Miner, Live(MinerKey(m)), Drops(MinerKey(m))
  PROVE  Registry!ReleaseMiner(m)
<1>1. ~Live(MinerKey(m))' /\ \A x \in Key : x # MinerKey(m) => db'[x] = db[x]
  BY DEF Drops
<1>2. MinerView'[m] = Nil
  BY <1>1 DEF MinerView
<1>3. db[MinerKey(m)] \in MinerRec
  BY MinerRecStored DEF FullInv, IInv, Live, Absent
<1>4. MinerView[m] # Nil
  BY <1>3, ConstantsOK DEF MinerView, MinerRec
<1>5. /\ UserView' = UserView /\ SignerView' = SignerView
      /\ MinerView' = [MinerView EXCEPT ![m] = MinerView'[m]]
  BY <1>1, MinerSeen
<1>6. QED BY <1>2, <1>4, <1>5 DEF Registry!ReleaseMiner

\* A record of a signer's binding changes.
LEMMA SignerSeen ==
  ASSUME NEW s \in Signer, NEW u \in User,
         \A x \in Key : x # SignerKey(s, u) => db'[x] = db[x]
  PROVE  /\ UserView' = UserView /\ MinerView' = MinerView
         /\ Live(SignerKey(s, u))' => SignerView' = SignerView \cup {<<s, u>>}
         /\ ~Live(SignerKey(s, u))' => SignerView' = SignerView \ {<<s, u>>}
<1>1. PICK k \in SignerKeys : k = SignerKey(s, u)
  BY KeysKnown
<1>2. k \in Key /\ k \notin UserKeys /\ k \notin MinerKeys
  BY KeysKnown, KeysDisjoint
<1>3. UsersStay /\ MinersStay
  BY <1>1, <1>2, OneKind
<1>4. ASSUME NEW b \in Signer \X User, b # <<s, u>>
      PROVE  b \in SignerView' <=> b \in SignerView
  <2>1. /\ SignerKey(b[1], b[2]) \in Key
        /\ SignerKey(b[1], b[2]) # SignerKey(s, u)
    BY <1>4, KeysKnown, KeysInjective
  <2>2. db'[SignerKey(b[1], b[2])] = db[SignerKey(b[1], b[2])]
    BY <2>1
  <2>3. Live(SignerKey(b[1], b[2]))' <=> Live(SignerKey(b[1], b[2]))
    BY <2>2 DEF Live
  <2>4. QED BY <2>3 DEF SignerView
<1>5. <<s, u>> \in SignerView' <=> Live(SignerKey(s, u))'
  BY DEF SignerView
<1>6. SignerView' \subseteq Signer \X User /\ SignerView \subseteq Signer \X User
  BY DEF SignerView
<1> HIDE DEF SignerView
<1>7. QED BY <1>3, <1>4, <1>5, <1>6, Views

LEMMA SignerBound ==
  ASSUME NEW s \in Signer, NEW u \in User, ~Absent(UserKey(u)),
         Sets(SignerKey(s, u), [deleted |-> FALSE])
  PROVE  Registry!BindSigner(s, u)
<1>1. PICK v : v = [deleted |-> FALSE]
  OBVIOUS
<1>2. v \in SignerRec /\ ~v.deleted
  BY <1>1 DEF SignerRec
<1>3. v # Nil
  BY <1>2, ConstantsOK
<1>4. db'[SignerKey(s, u)] = v /\ \A x \in Key : x # SignerKey(s, u) => db'[x] = db[x]
  BY <1>1 DEF Sets
<1>5. Live(SignerKey(s, u))'
  BY <1>2, <1>3, <1>4 DEF Live
<1>6. UserView[u] # "absent"
  BY DEF UserView
<1>7. QED BY <1>4, <1>5, <1>6, SignerSeen DEF Registry!BindSigner

LEMMA SignerReleased ==
  ASSUME NEW s \in Signer, NEW u \in User, Drops(SignerKey(s, u))
  PROVE  Registry!ReleaseSigner(s, u)
<1>1. ~Live(SignerKey(s, u))' /\ \A x \in Key : x # SignerKey(s, u) => db'[x] = db[x]
  BY DEF Drops
<1>2. QED BY <1>1, SignerSeen DEF Registry!ReleaseSigner

LEMMA UserRetired ==
  ASSUME NEW u \in User, Retired(u)
  PROVE  Registry!RetireUser(u)
<1>1. /\ Live(UserKey(u)) /\ ~Absent(UserKey(u))' /\ ~Live(UserKey(u))'
      /\ \A k \in Key : k # UserKey(u) /\ k \notin MinerKeys => db'[k] = db[k]
      /\ \A m \in Miner : \/ db'[MinerKey(m)] = db[MinerKey(m)]
                          \/ Owns(u, m) /\ ~Live(MinerKey(m))'
  BY DEF Retired
<1>2. SignersStay
  <2>1. \A s \in Signer, x \in User :
          /\ SignerKey(s, x) \in Key /\ SignerKey(s, x) \notin MinerKeys
          /\ SignerKey(s, x) # UserKey(u)
    BY KeysKnown, KeysDisjoint
  <2>2. QED BY <1>1, <2>1 DEF SignersStay
<1>3. UserView[u] = "live" /\ UserView'[u] = "deleted"
  BY <1>1 DEF UserView, Live, Absent
<1>4. ASSUME NEW x \in User, x # u PROVE UserView'[x] = UserView[x]
  <2>1. UserKey(x) \in Key /\ UserKey(x) \notin MinerKeys /\ UserKey(x) # UserKey(u)
    BY <1>4, KeysKnown, KeysDisjoint, KeysInjective
  <2>2. db'[UserKey(x)] = db[UserKey(x)]
    BY <1>1, <2>1
  <2>3. QED BY <2>2 DEF UserView, Live, Absent
<1>5. UserView' = [UserView EXCEPT ![u] = "deleted"]
  <2>1. /\ UserView = [x \in User |-> UserView[x]]
        /\ UserView' = [x \in User |-> UserView'[x]]
    BY DEF UserView
  <2> HIDE DEF UserView
  <2>2. QED BY <1>3, <1>4, <2>1
<1>6. PICK S : S = {m \in Miner : Owns(u, m) /\ ~Live(MinerKey(m))'}
  OBVIOUS
<1>7. \A m \in S : m \in Miner /\ MinerView[m] = u /\ MinerView'[m] = Nil
  BY <1>6 DEF MinerView, Owns
<1>8. ASSUME NEW m \in Miner, m \notin S PROVE MinerView'[m] = MinerView[m]
  <2>1. db'[MinerKey(m)] = db[MinerKey(m)]
    BY <1>1, <1>6, <1>8
  <2>2. QED BY <2>1 DEF MinerView, Live
<1>9. S \in SUBSET {m \in Miner : MinerView[m] = u}
  BY <1>7
<1>10. MinerView' = [m \in Miner |-> IF m \in S THEN Nil ELSE MinerView[m]]
  <2>1. MinerView' = [m \in Miner |-> MinerView'[m]]
    BY DEF MinerView
  <2> HIDE DEF MinerView
  <2>2. QED BY <1>7, <1>8, <2>1
<1>11. QED BY <1>2, <1>3, <1>5, <1>9, <1>10, Views DEF Registry!RetireUser

\* store.go:45-97: whatever requests race and wherever the process dies, a
\* step of a handler is one operation of the Store interface done at once, or
\* shows nothing: a miner has one user, a binding is to a created user, and
\* DeleteUser takes only its own miners along.
THEOREM RefinesStore == Spec => RefinesRegistry
<1>1. Init => Registry!RInit
  <2> SUFFICES ASSUME Init PROVE Registry!RInit
    OBVIOUS
  <2>1. \A k \in Key : db[k] = Nil
    BY DEF Init
  <2>2. UserView = [u \in User |-> "absent"]
    BY <2>1, KeysKnown DEF UserView, Absent
  <2>3. MinerView = [m \in Miner |-> Nil]
    BY <2>1, KeysKnown DEF MinerView, Live
  <2>4. SignerView = {}
    BY <2>1, KeysKnown DEF SignerView, Live
  <2>5. QED BY <2>2, <2>3, <2>4 DEF Registry!RInit
<1>2. ASSUME FullInv, [Next]_vars PROVE [Registry!RNext]_(Registry!rvars)
  <2>1. Effect
    BY <1>2, NextEffect
  <2>2. ASSUME db' = db PROVE UNCHANGED Registry!rvars
    BY <2>2, Views DEF UsersStay, MinersStay, SignersStay, Registry!rvars
  <2>3. ASSUME NEW u \in User,
               \/ \E v \in UserRec : ~v.deleted /\ Sets(UserKey(u), v)
               \/ Retired(u)
        PROVE  Registry!RNext
    BY <2>3, UserSaved, UserRetired DEF Registry!RNext
  <2>4. ASSUME NEW m \in Miner,
               \/ \E u \in User :
                    ~Absent(UserKey(u)) /\ Sets(MinerKey(m), [user |-> u, deleted |-> FALSE])
               \/ Live(MinerKey(m)) /\ Drops(MinerKey(m))
        PROVE  Registry!RNext
    BY <1>2, <2>4, MinerBound, MinerReleased DEF Registry!RNext
  <2>5. ASSUME NEW s \in Signer, NEW u \in User,
               \/ ~Absent(UserKey(u)) /\ Sets(SignerKey(s, u), [deleted |-> FALSE])
               \/ Drops(SignerKey(s, u))
        PROVE  Registry!RNext
    BY <2>5, SignerBound, SignerReleased DEF Registry!RNext
  <2>6. QED BY <2>1, <2>2, <2>3, <2>4, <2>5 DEF Effect
<1>3. QED BY <1>1, <1>2, FullInductive, PTL DEF Spec, RefinesRegistry, Registry!RSpec
=============================================================================
