--------------------------- MODULE SqlStoreProofs ---------------------------
(* Theorems about SqlStore, for any users, addresses, tokens, limits and     *)
(* requests, and any of the operations called together.                      *)
EXTENDS SqlStore, TLAPS

-----------------------------------------------------------------------------
(* The rows *)

LEMMA Keys ==
  /\ \A u \in User : UserKey(u) \in Key
  /\ \A m \in Miner : MinerKey(m) \in Key
  /\ \A s \in Signer, u \in User : /\ SignerKey(s, u) \in SignerKeys
                                   /\ SignerKey(s, u) \in SignersOf(u)
  /\ SignerKeys \subseteq Key
  /\ \A u \in User : SignersOf(u) \subseteq SignerKeys
  /\ \A t \in Token : TokenKey(t) \in Key
  /\ \A l \in Limit : LimitKey(l) \in Key
BY DEF UserKey, MinerKey, SignerKey, TokenKey, LimitKey, SignersOf, SignerKeys, Key

\* Rows of different tables, and of one table under different indexes, differ.
LEMMA KeysDiffer ==
  /\ \A u, v : UserKey(u) = UserKey(v) => u = v
  /\ \A m, n : MinerKey(m) = MinerKey(n) => m = n
  /\ \A s, r, u, v : SignerKey(s, u) = SignerKey(r, v) => s = r /\ u = v
  /\ \A t, x : TokenKey(t) = TokenKey(x) => t = x
  /\ \A l, x : LimitKey(l) = LimitKey(x) => l = x
  /\ \A u, x : UserKey(u) # MinerKey(x) /\ UserKey(u) # TokenKey(x) /\ UserKey(u) # LimitKey(x)
  /\ \A m, x : MinerKey(m) # TokenKey(x) /\ MinerKey(m) # LimitKey(x)
  /\ \A t, x : TokenKey(t) # LimitKey(x)
  /\ \A x : UserKey(x) \notin SignerKeys /\ MinerKey(x) \notin SignerKeys
            /\ TokenKey(x) \notin SignerKeys /\ LimitKey(x) \notin SignerKeys
<1>1. \A u, v : UserKey(u) = UserKey(v) => u = v
  BY DEF UserKey
<1>2. \A m, n : MinerKey(m) = MinerKey(n) => m = n
  BY DEF MinerKey
<1>3. \A s, r, u, v : SignerKey(s, u) = SignerKey(r, v) => s = r /\ u = v
  BY DEF SignerKey
<1>4. \A t, x : TokenKey(t) = TokenKey(x) => t = x
  BY DEF TokenKey
<1>5. \A l, x : LimitKey(l) = LimitKey(x) => l = x
  BY DEF LimitKey
<1>6. \A u, x : UserKey(u) # MinerKey(x) /\ UserKey(u) # TokenKey(x) /\ UserKey(u) # LimitKey(x)
  BY DEF UserKey, MinerKey, TokenKey, LimitKey
<1>7. \A m, x : MinerKey(m) # TokenKey(x) /\ MinerKey(m) # LimitKey(x)
  BY DEF MinerKey, TokenKey, LimitKey
<1>8. \A t, x : TokenKey(t) # LimitKey(x)
  BY DEF TokenKey, LimitKey
<1>9. \A x : UserKey(x) \notin SignerKeys /\ MinerKey(x) \notin SignerKeys
             /\ TokenKey(x) \notin SignerKeys /\ LimitKey(x) \notin SignerKeys
  BY DEF SignerKeys, SignersOf, SignerKey, UserKey, MinerKey, TokenKey, LimitKey
<1>10. QED BY <1>1, <1>2, <1>3, <1>4, <1>5, <1>6, <1>7, <1>8, <1>9

LEMMA SignerKeyForm ==
  /\ \A k \in SignerKeys : \E s \in Signer, u \in User : k = SignerKey(s, u)
  /\ \A u \in User : \A k \in SignersOf(u) : \E s \in Signer : k = SignerKey(s, u)
BY DEF SignerKeys, SignersOf

\* A statement that writes one row.
LEMMA PutRow ==
  ASSUME DOMAIN row = Key, NEW k \in Key, NEW v, row' = Merge(row, One(k, v))
  PROVE  /\ DOMAIN row' = Key /\ row'[k] = v
         /\ \A x \in Key : x # k => row'[x] = row[x]
BY DEF Merge, One

\* An UPDATE of the deleted mark.
LEMMA MarkRows ==
  ASSUME DOMAIN row = Key, NEW ks, ks \subseteq Key, row' = Merge(row, Marked(ks))
  PROVE  /\ DOMAIN row' = Key
         /\ \A x \in Key : row'[x] = IF x \in ks /\ ~Absent(x) THEN Erased(row[x]) ELSE row[x]
BY DEF Merge, Marked

LEMMA ErasedRows ==
  /\ \A r \in UserRec : /\ Erased(r) \in UserRec
                        /\ Erased(r) = [id |-> r.id, deleted |-> TRUE]
  /\ \A r \in MinerRec : /\ Erased(r) \in MinerRec
                         /\ Erased(r) = [user |-> r.user, deleted |-> TRUE]
  /\ \A r \in SignerRec : Erased(r) \in SignerRec /\ Erased(r) = [deleted |-> TRUE]
<1>1. ASSUME NEW r \in UserRec
      PROVE  Erased(r) \in UserRec /\ Erased(r) = [id |-> r.id, deleted |-> TRUE]
  <2>1. PICK e : e = Erased(r)
    OBVIOUS
  <2>2. e = [id |-> r.id, deleted |-> TRUE] /\ e \in UserRec
    BY <2>1 DEF UserRec, Erased
  <2>3. QED BY <2>1, <2>2
<1>2. ASSUME NEW r \in MinerRec
      PROVE  Erased(r) \in MinerRec /\ Erased(r) = [user |-> r.user, deleted |-> TRUE]
  <2>1. PICK e : e = Erased(r)
    OBVIOUS
  <2>2. e = [user |-> r.user, deleted |-> TRUE] /\ e \in MinerRec
    BY <2>1 DEF MinerRec, Erased
  <2>3. QED BY <2>1, <2>2
<1>3. ASSUME NEW r \in SignerRec
      PROVE  Erased(r) \in SignerRec /\ Erased(r) = [deleted |-> TRUE]
  <2>1. PICK e : e = Erased(r)
    OBVIOUS
  <2>2. e = [deleted |-> TRUE] /\ e \in SignerRec
    BY <2>1 DEF SignerRec, Erased
  <2>3. QED BY <2>1, <2>2
<1>4. QED BY <1>1, <1>2, <1>3

LEMMA NilIsNoRow ==
  Nil \notin UserRec /\ Nil \notin MinerRec /\ Nil \notin SignerRec /\ Nil \notin TokenRec
    /\ Nil \notin LimitRec
BY ConstantsOK

-----------------------------------------------------------------------------
(* What a step does to the rows *)

\* No user, miner or token is removed, and users keep their ids.
RowKept ==
  /\ \A u \in User : ~Absent(UserKey(u)) => /\ ~Absent(UserKey(u))'
                                            /\ row'[UserKey(u)].id = row[UserKey(u)].id
  /\ \A m \in Miner : ~Absent(MinerKey(m)) => ~Absent(MinerKey(m))'
  /\ \A t \in Token : ~Absent(TokenKey(t)) => ~Absent(TokenKey(t))'

\* The signers that other transactions have locked stay as they are.
LocksHold(p) == \A q \in Req \ {p} : \A k \in tx[q].locks \cap SignerKeys : row'[k] = row[k]

RowStep(p) == RowOK' /\ RowKept /\ LocksHold(p) /\ OwnersKnown'

\* Users that are there stay, and who owns a token or a binding is a user.
LEMMA Owners ==
  ASSUME RowOK
  PROVE  /\ \A t \in Token : ~Absent(TokenKey(t)) => row[TokenKey(t)].name \in User
         /\ \A m \in Miner : ~Absent(MinerKey(m)) => row[MinerKey(m)].user \in User
BY DEF RowOK, Absent, TokenRec, MinerRec

LEMMA SameRows ==
  ASSUME RowOK, OwnersKnown, NEW p, DOMAIN row' = Key, \A k \in Key : row'[k] = row[k]
  PROVE  RowStep(p)
<1>1. /\ \A w \in User : row'[UserKey(w)] = row[UserKey(w)]
      /\ \A n \in Miner : row'[MinerKey(n)] = row[MinerKey(n)]
      /\ \A x \in SignerKeys : row'[x] = row[x]
      /\ \A t \in Token : row'[TokenKey(t)] = row[TokenKey(t)]
      /\ \A l \in Limit : row'[LimitKey(l)] = row[LimitKey(l)]
  BY Keys
<1>2. RowOK' /\ RowKept /\ LocksHold(p)
  BY <1>1 DEF RowOK, RowKept, LocksHold, Absent
<1>3. OwnersKnown'
  BY <1>1, Keys, Owners DEF OwnersKnown, Absent
<1>4. QED BY <1>2, <1>3 DEF RowStep

LEMMA PutUserRow ==
  ASSUME RowOK, OwnersKnown, NEW p \in Req, NEW u \in User, NEW v \in UserRec,
         row' = Merge(row, One(UserKey(u), v)),
         ~Absent(UserKey(u)) => v.id = row[UserKey(u)].id
  PROVE  RowStep(p)
<1> DEFINE k == UserKey(u)
<1>1. DOMAIN row' = Key /\ row'[k] = v /\ \A x \in Key : x # k => row'[x] = row[x]
  BY PutRow, Keys DEF RowOK
<1>2. /\ \A w \in User : w # u => row'[UserKey(w)] = row[UserKey(w)]
      /\ \A m \in Miner : row'[MinerKey(m)] = row[MinerKey(m)]
      /\ \A x \in SignerKeys : row'[x] = row[x]
      /\ \A t \in Token : row'[TokenKey(t)] = row[TokenKey(t)]
      /\ \A l \in Limit : row'[LimitKey(l)] = row[LimitKey(l)]
  BY <1>1, Keys, KeysDiffer
<1>3. RowOK'
  BY <1>1, <1>2 DEF RowOK
<1>4. RowKept
  BY <1>1, <1>2, NilIsNoRow DEF RowKept, Absent
<1>5. LocksHold(p)
  BY <1>2 DEF LocksHold
<1>6. \A w : ~Absent(UserKey(w)) /\ w \in User => ~Absent(UserKey(w))'
  BY <1>4 DEF RowKept
<1>7. \A t \in Token : ~Absent(TokenKey(t)) => row[TokenKey(t)].name \in User
  BY DEF RowOK, Absent, TokenRec
<1>8. \A m \in Miner : ~Absent(MinerKey(m)) => row[MinerKey(m)].user \in User
  BY DEF RowOK, Absent, MinerRec
<1>9. OwnersKnown'
  BY <1>2, <1>6, <1>7, <1>8, Keys DEF OwnersKnown, Absent
<1>10. QED BY <1>3, <1>4, <1>5, <1>9 DEF RowStep

\* A change of one miner's row.
LEMMA MinerRow ==
  ASSUME RowOK, OwnersKnown, NEW p \in Req, NEW m \in Miner, NEW v \in MinerRec,
         Free(p, {MinerKey(m)}), ~Absent(UserKey(v.user)),
         DOMAIN row' = Key, row'[MinerKey(m)] = v,
         \A x \in Key : x # MinerKey(m) => row'[x] = row[x]
  PROVE  RowStep(p)
<1>1. /\ \A w \in User : row'[UserKey(w)] = row[UserKey(w)]
      /\ \A n \in Miner : n # m => row'[MinerKey(n)] = row[MinerKey(n)]
      /\ \A x \in SignerKeys : row'[x] = row[x]
      /\ \A t \in Token : row'[TokenKey(t)] = row[TokenKey(t)]
      /\ \A l \in Limit : row'[LimitKey(l)] = row[LimitKey(l)]
  BY Keys, KeysDiffer
<1>2. RowOK'
  BY <1>1 DEF RowOK
<1>3. RowKept
  BY <1>1, NilIsNoRow DEF RowKept, Absent
<1>4. LocksHold(p)
  BY <1>1 DEF LocksHold
<1>5. v.user \in User
  BY DEF MinerRec
<1>6. OwnersKnown'
  BY <1>1, <1>5, Keys, Owners DEF OwnersKnown, Absent
<1>7. QED BY <1>2, <1>3, <1>4, <1>6 DEF RowStep

LEMMA PutMinerRow ==
  ASSUME RowOK, OwnersKnown, NEW p \in Req, NEW m \in Miner, NEW u \in User,
         ~Absent(UserKey(u)), Free(p, {MinerKey(m)}),
         row' = Merge(row, One(MinerKey(m), [user |-> u, deleted |-> FALSE]))
  PROVE  RowStep(p)
<1>1. PICK v : v = [user |-> u, deleted |-> FALSE]
  OBVIOUS
<1>2. v \in MinerRec /\ v.user = u
  BY <1>1 DEF MinerRec
<1>3. row' = Merge(row, One(MinerKey(m), v))
  BY <1>1
<1>4. /\ DOMAIN row' = Key /\ row'[MinerKey(m)] = v
      /\ \A x \in Key : x # MinerKey(m) => row'[x] = row[x]
  BY <1>3, PutRow, Keys DEF RowOK
<1>5. QED BY <1>2, <1>4, MinerRow

LEMMA MarkMinerRow ==
  ASSUME RowOK, OwnersKnown, NEW p \in Req, NEW m \in Miner, Free(p, {MinerKey(m)}),
         row' = Merge(row, Marked({MinerKey(m)}))
  PROVE  RowStep(p)
<1> DEFINE k == MinerKey(m)
<1>1. /\ DOMAIN row' = Key
      /\ \A x \in Key : row'[x] = IF x \in {k} /\ ~Absent(x) THEN Erased(row[x]) ELSE row[x]
  BY MarkRows, Keys DEF RowOK
<1>2. CASE Absent(k)
  <2>1. \A x \in Key : row'[x] = row[x]
    BY <1>1, <1>2
  <2>2. DOMAIN row' = Key
    BY <1>1
  <2>3. QED BY <2>1, <2>2, SameRows
<1>3. CASE ~Absent(k)
  <2>1. row[k] \in MinerRec
    BY <1>3 DEF RowOK, Absent
  <2>2. PICK v : v = Erased(row[k])
    OBVIOUS
  <2>3. PICK e : e = row[k]
    OBVIOUS
  <2>4. v = [user |-> e.user, deleted |-> TRUE] /\ v \in MinerRec
    BY <2>1, <2>2, <2>3, ErasedRows
  <2>5. v.user = row[k].user
    BY <2>3, <2>4
  <2>6. ~Absent(UserKey(v.user))
    BY <1>3, <2>5 DEF OwnersKnown
  <2>7. row'[k] = v /\ \A x \in Key : x # k => row'[x] = row[x]
    BY <1>1, <1>3, <2>2, Keys
  <2>8. DOMAIN row' = Key
    BY <1>1
  <2>9. QED BY <2>4, <2>6, <2>7, <2>8, MinerRow
<1>4. QED BY <1>2, <1>3

\* A change of some bindings of signers, none of them locked by others.
LEMMA SignerRows ==
  ASSUME RowOK, OwnersKnown, NEW p \in Req, NEW ks \in SUBSET SignerKeys, Free(p, ks),
         DOMAIN row' = Key,
         \A k \in ks : row'[k] \in SignerRec \cup {Nil},
         \A k \in ks : row'[k] # Nil => \E s \in Signer, u \in User :
                         k = SignerKey(s, u) /\ ~Absent(UserKey(u)),
         \A x \in Key : x \notin ks => row'[x] = row[x]
  PROVE  RowStep(p)
<1>1. /\ \A w \in User : row'[UserKey(w)] = row[UserKey(w)]
      /\ \A n \in Miner : row'[MinerKey(n)] = row[MinerKey(n)]
      /\ \A x \in SignerKeys : x \notin ks => row'[x] = row[x]
      /\ \A t \in Token : row'[TokenKey(t)] = row[TokenKey(t)]
      /\ \A l \in Limit : row'[LimitKey(l)] = row[LimitKey(l)]
  BY Keys, KeysDiffer
<1>2. RowOK'
  BY <1>1 DEF RowOK
<1>3. RowKept
  BY <1>1, NilIsNoRow DEF RowKept, Absent
<1>4. LocksHold(p)
  BY <1>1 DEF LocksHold, Free
<1>5. OwnersKnown'
  <2>1. ASSUME NEW s \in Signer, NEW u \in User, row'[SignerKey(s, u)] # Nil
        PROVE  ~Absent(UserKey(u))
    <3>1. CASE SignerKey(s, u) \in ks
      BY <2>1, <3>1, KeysDiffer
    <3>2. CASE SignerKey(s, u) \notin ks
      BY <1>1, <2>1, <3>2, Keys DEF OwnersKnown, Absent
    <3>3. QED BY <3>1, <3>2
  <2>2. QED BY <1>1, <2>1, Owners DEF OwnersKnown, Absent
<1>6. QED BY <1>2, <1>3, <1>4, <1>5 DEF RowStep

LEMMA PutSignerRow ==
  ASSUME RowOK, OwnersKnown, NEW p \in Req, NEW s \in Signer, NEW u \in User,
         ~Absent(UserKey(u)), Free(p, {SignerKey(s, u)}),
         row' = Merge(row, One(SignerKey(s, u), [deleted |-> FALSE]))
  PROVE  RowStep(p)
<1>1. PICK v : v = [deleted |-> FALSE]
  OBVIOUS
<1>2. v \in SignerRec
  BY <1>1 DEF SignerRec
<1>3. row' = Merge(row, One(SignerKey(s, u), v))
  BY <1>1
<1>4. PICK ks \in SUBSET SignerKeys : ks = {SignerKey(s, u)}
  BY Keys
<1>5. /\ DOMAIN row' = Key /\ \A k \in ks : k = SignerKey(s, u) /\ row'[k] = v
      /\ \A x \in Key : x \notin ks => row'[x] = row[x]
  BY <1>3, <1>4, PutRow, Keys DEF RowOK
<1>6. QED BY <1>2, <1>4, <1>5, SignerRows

LEMMA MarkSignerRows ==
  ASSUME RowOK, OwnersKnown, NEW p \in Req, NEW ks \in SUBSET SignerKeys, Free(p, ks),
         row' = Merge(row, Marked(ks))
  PROVE  RowStep(p)
<1>1. ks \subseteq Key
  BY Keys
<1>2. /\ DOMAIN row' = Key
      /\ \A x \in Key : row'[x] = IF x \in ks /\ ~Absent(x) THEN Erased(row[x]) ELSE row[x]
  BY <1>1, MarkRows DEF RowOK
<1>3. ASSUME NEW k \in ks
      PROVE  /\ row'[k] \in SignerRec \cup {Nil}
             /\ row'[k] # Nil => row[k] # Nil
  BY <1>1, <1>2, ErasedRows DEF RowOK, Absent
<1>4. ASSUME NEW k \in ks, row'[k] # Nil
      PROVE  \E s \in Signer, u \in User : k = SignerKey(s, u) /\ ~Absent(UserKey(u))
  BY <1>3, <1>4, SignerKeyForm DEF OwnersKnown, Absent
<1>5. QED BY <1>1, <1>2, <1>3, <1>4, SignerRows

LEMMA PutTokenRow ==
  ASSUME RowOK, OwnersKnown, NEW p \in Req, NEW t \in Token, NEW v \in TokenRec,
         ~Absent(UserKey(v.name)), row' = Merge(row, One(TokenKey(t), v))
  PROVE  RowStep(p)
<1>1. /\ DOMAIN row' = Key /\ row'[TokenKey(t)] = v
      /\ \A x \in Key : x # TokenKey(t) => row'[x] = row[x]
  BY PutRow, Keys DEF RowOK
<1>2. /\ \A w \in User : row'[UserKey(w)] = row[UserKey(w)]
      /\ \A n \in Miner : row'[MinerKey(n)] = row[MinerKey(n)]
      /\ \A x \in SignerKeys : row'[x] = row[x]
      /\ \A s \in Token : s # t => row'[TokenKey(s)] = row[TokenKey(s)]
      /\ \A l \in Limit : row'[LimitKey(l)] = row[LimitKey(l)]
  BY <1>1, Keys, KeysDiffer
<1>3. RowOK'
  BY <1>1, <1>2 DEF RowOK
<1>4. RowKept
  BY <1>1, <1>2, NilIsNoRow DEF RowKept, Absent
<1>5. LocksHold(p)
  BY <1>2 DEF LocksHold
<1>6. v.name \in User
  BY DEF TokenRec
<1>7. OwnersKnown'
  BY <1>1, <1>2, <1>6, Keys, Owners DEF OwnersKnown, Absent
<1>8. QED BY <1>3, <1>4, <1>5, <1>7 DEF RowStep

LEMMA LimitRow ==
  ASSUME RowOK, OwnersKnown, NEW p \in Req, NEW l \in Limit, NEW v \in LimitRec \cup {Nil},
         row' = Merge(row, One(LimitKey(l), v))
  PROVE  RowStep(p)
<1>1. /\ DOMAIN row' = Key /\ row'[LimitKey(l)] = v
      /\ \A x \in Key : x # LimitKey(l) => row'[x] = row[x]
  BY PutRow, Keys DEF RowOK
<1>2. /\ \A w \in User : row'[UserKey(w)] = row[UserKey(w)]
      /\ \A n \in Miner : row'[MinerKey(n)] = row[MinerKey(n)]
      /\ \A x \in SignerKeys : row'[x] = row[x]
      /\ \A t \in Token : row'[TokenKey(t)] = row[TokenKey(t)]
      /\ \A x \in Limit : x # l => row'[LimitKey(x)] = row[LimitKey(x)]
  BY <1>1, Keys, KeysDiffer
<1>3. RowOK'
  BY <1>1, <1>2 DEF RowOK
<1>4. RowKept /\ LocksHold(p)
  BY <1>2 DEF RowKept, LocksHold, Absent
<1>5. OwnersKnown'
  BY <1>2, Keys, Owners DEF OwnersKnown, Absent
<1>6. QED BY <1>3, <1>4, <1>5 DEF RowStep

-----------------------------------------------------------------------------
(* What a step does to the requests *)

ReqForm(r) == r = [pc |-> r.pc, user |-> r.user, addr |-> r.addr, rec |-> r.rec,
                   res |-> r.res, list |-> r.list, todo |-> r.todo]
TxForm(t)  == t = [open |-> t.open, locks |-> t.locks, writes |-> t.writes]

InTx == Deleting \cup {"UpsertMiner", "RegisterSigner"}

LEMMA InvParts ==
  ASSUME IInv
  PROVE  /\ RowOK /\ OwnersKnown /\ out \in [Req -> Answers]
         /\ DOMAIN req = Req /\ DOMAIN tx = Req
         /\ req = [p \in Req |-> req[p]] /\ tx = [p \in Req |-> tx[p]]
         /\ \A p \in Req : /\ ReqForm(req[p]) /\ TxForm(tx[p])
                           /\ ~tx[p].open => tx[p] = NoTx
                           /\ tx[p].open <=> req[p].pc \in InTx
                           /\ Free(p, tx[p].locks)
                           /\ RequestInv(p)
<1>1. /\ req = [p \in Req |-> [pc |-> req[p].pc, user |-> req[p].user, addr |-> req[p].addr,
                               rec |-> req[p].rec, res |-> req[p].res, list |-> req[p].list,
                               todo |-> req[p].todo]]
      /\ tx = [p \in Req |-> [open |-> tx[p].open, locks |-> tx[p].locks,
                              writes |-> tx[p].writes]]
      /\ TypeOK /\ OwnersKnown /\ \A p \in Req : RequestInv(p)
  BY DEF IInv
<1>2. \A p \in Req : ReqForm(req[p])
  BY <1>1 DEF ReqForm
<1>3. \A p \in Req : TxForm(tx[p])
  BY <1>1 DEF TxForm
<1>4. DOMAIN req = Req /\ req = [p \in Req |-> req[p]]
  BY <1>1
<1>5. DOMAIN tx = Req /\ tx = [p \in Req |-> tx[p]]
  BY <1>1
<1>6. QED BY <1>1, <1>2, <1>3, <1>4, <1>5 DEF TypeOK, InTx

\* A request that does not move relies on what it did.
LEMMA FrameInv ==
  ASSUME IInv, NEW p \in Req, RowStep(p), NEW q \in Req, q # p,
         req'[q] = req[q], tx'[q] = tx[q]
  PROVE  RequestInv(q)'
<1>1. RequestInv(q)
  BY DEF IInv
<1>2. RowKept
  BY DEF RowStep
<1>3. \A k \in tx[q].locks \cap SignerKeys : row'[k] = row[k]
  BY DEF RowStep, LocksHold
<1>4. ASSUME DeletionInv(q) PROVE DeletionInv(q)'
  <2> DEFINE u == req[q].user
             w == tx[q].writes
  <2>1. /\ u \in User /\ ~Absent(UserKey(u))
        /\ req[q].rec = [id |-> row[UserKey(u)].id, deleted |-> TRUE]
        /\ req[q].list \subseteq Miner /\ \A m \in req[q].list : ~Absent(MinerKey(m))
    BY <1>4 DEF DeletionInv
  <2>2. /\ ~Absent(UserKey(u))'
        /\ req[q].rec = [id |-> row'[UserKey(u)].id, deleted |-> TRUE]
    BY <1>2, <2>1 DEF RowKept
  <2>3. \A m \in req[q].list : ~Absent(MinerKey(m))'
    BY <1>2, <2>1 DEF RowKept
  <2>4. \A m \in req[q].list : MinerKey(m) \in DOMAIN w =>
          w[MinerKey(m)] \in MinerRec /\ w[MinerKey(m)].user \in User
            /\ ~Absent(UserKey(w[MinerKey(m)].user))
    BY <1>4 DEF DeletionInv, MinerRec
  <2>5. \A m \in req[q].list : MinerKey(m) \in DOMAIN w =>
          ~Absent(UserKey(w[MinerKey(m)].user))'
    BY <1>2, <2>4 DEF RowKept, Absent
  <2>6. \A k \in SignersOf(u) : k \in tx[q].locks /\ Absent(k) => Absent(k)'
    BY <1>3, <2>1, Keys DEF Absent
  <2>7. QED BY <1>4, <2>1, <2>2, <2>3, <2>5, <2>6 DEF DeletionInv, At
<1>5. At(q, "SaveUser") =>
        /\ ~Absent(UserKey(req[q].user))'
        /\ req[q].rec = [id |-> row'[UserKey(req[q].user)].id, deleted |-> FALSE]
  BY <1>1, <1>2 DEF RequestInv, RowKept
<1>6. req[q].pc \in {"UpsertMiner", "RegisterSigner"} => ~Absent(UserKey(req[q].user))'
  BY <1>1, <1>2 DEF RequestInv, RowKept
<1>7. At(q, "PutToken") => req[q].rec.name \in User /\ ~Absent(UserKey(req[q].rec.name))'
  BY <1>1, <1>2 DEF RequestInv, RowKept, TokenRec, Absent
<1>8. At(q, "MarkToken") => ~Absent(TokenKey(req[q].addr))'
  BY <1>1, <1>2 DEF RequestInv, RowKept
<1>9. QED BY <1>1, <1>4, <1>5, <1>6, <1>7, <1>8 DEF RequestInv, At, Absent

\* A step of p, which keeps the invariant when what p relies on is true.
LEMMA StepInv ==
  ASSUME IInv, NEW p \in Req, RowStep(p), NEW r, ReqForm(r),
         req' = [req EXCEPT ![p] = r], out' \in [Req -> Answers],
         NEW t, TxForm(t), tx' = [tx EXCEPT ![p] = t],
         ~t.open => t = NoTx, t.open <=> r.pc \in InTx, Free(p, t.locks),
         RequestInv(p)'
  PROVE  IInv'
<1>1. /\ req'[p] = r /\ tx'[p] = t
      /\ \A q \in Req : q # p => req'[q] = req[q] /\ tx'[q] = tx[q]
      /\ DOMAIN req' = Req /\ DOMAIN tx' = Req
      /\ req' = [q \in Req |-> req'[q]] /\ tx' = [q \in Req |-> tx'[q]]
  BY InvParts
<1>2. \A q \in Req : ReqForm(req'[q]) /\ TxForm(tx'[q])
  BY <1>1, InvParts
<1>3. /\ req' = [q \in Req |-> [pc |-> req'[q].pc, user |-> req'[q].user, addr |-> req'[q].addr,
                                rec |-> req'[q].rec, res |-> req'[q].res, list |-> req'[q].list,
                                todo |-> req'[q].todo]]
      /\ tx' = [q \in Req |-> [open |-> tx'[q].open, locks |-> tx'[q].locks,
                               writes |-> tx'[q].writes]]
  BY <1>1, <1>2 DEF ReqForm, TxForm
<1>4. \A q \in Req : RequestInv(q)'
  BY <1>1, FrameInv
<1>5. \A q \in Req : Free(q, tx[q].locks)
  BY InvParts
<1>6. ASSUME NEW q \in Req, NEW s \in Req \ {q} PROVE tx'[s].locks \cap tx'[q].locks = {}
  <2>1. CASE q = p
    BY <1>1, <2>1 DEF Free
  <2>2. CASE q # p /\ s = p
    BY <1>1, <2>2 DEF Free
  <2>3. CASE q # p /\ s # p
    BY <1>1, <1>5, <2>3 DEF Free
  <2>4. QED BY <2>1, <2>2, <2>3
<1>7. ASSUME NEW q \in Req
      PROVE  /\ ~tx'[q].open => tx'[q] = NoTx
             /\ tx'[q].open <=> req'[q].pc \in InTx
             /\ Free(q, tx[q].locks)'
  <2>1. CASE q = p
    BY <1>1, <1>6, <2>1 DEF Free
  <2>2. CASE q # p
    BY <1>1, <1>6, <2>2, InvParts DEF Free
  <2>3. QED BY <2>1, <2>2
<1>8. TypeOK'
  BY <1>7 DEF TypeOK, RowStep, InTx
<1>9. QED BY <1>3, <1>4, <1>8 DEF IInv, RowStep

LEMMA IdleForm == ReqForm(Idle) /\ Idle.pc = "idle"
BY DEF ReqForm, Idle

LEMMA IdleRests == ASSUME NEW p, req'[p].pc = "idle" PROVE RequestInv(p)'
BY DEF RequestInv, At, Deleting

LEMMA NoTxForm == TxForm(NoTx) /\ NoTx.open = FALSE /\ NoTx.locks = {}
BY DEF TxForm, NoTx

LEMMA Outs ==
  ASSUME NEW p \in Req, NEW a \in Answers
  PROVE  Silent \in [Req -> Answers] /\ [Silent EXCEPT ![p] = a] \in [Req -> Answers]
BY DEF Silent, Answers

\* The transaction of p is over, or there was none, and p has its answer.
LEMMA EndInv ==
  ASSUME IInv, NEW p \in Req, RowStep(p), NEW a \in Answers, Respond(p, a),
         \/ tx' = [tx EXCEPT ![p] = NoTx]
         \/ tx' = tx /\ ~tx[p].open
  PROVE  IInv'
<1>1. req' = [req EXCEPT ![p] = Idle] /\ out' \in [Req -> Answers]
  BY Outs DEF Respond
<1>2. tx' = [tx EXCEPT ![p] = NoTx]
  BY InvParts
<1>3. Free(p, NoTx.locks)
  BY NoTxForm DEF Free
<1>4. req'[p] = Idle
  BY <1>1, InvParts
<1>5. RequestInv(p)'
  BY <1>4, IdleForm, IdleRests
<1>6. Idle.pc \notin InTx
  BY IdleForm DEF InTx, Deleting
<1>7. QED BY <1>1, <1>2, <1>3, <1>5, <1>6, IdleForm, NoTxForm, StepInv

\* Statements that only read, with an answer, outside a transaction.
LEMMA ReadInv ==
  ASSUME IInv, NEW p \in Req, ~tx[p].open, Read, NEW a \in Answers, Respond(p, a)
  PROVE  IInv'
<1>1. RowOK /\ OwnersKnown
  BY InvParts
<1>2. DOMAIN row' = Key /\ \A k \in Key : row'[k] = row[k]
  BY <1>1 DEF Read, RowOK
<1>3. RowStep(p)
  BY <1>1, <1>2, SameRows
<1>4. tx' = tx
  BY DEF Read
<1>5. QED BY <1>3, <1>4, EndInv

LEMMA GotoOut == ASSUME NEW p \in Req, NEW r, Goto(p, r)
                 PROVE  out' \in [Req -> Answers] /\ req' = [req EXCEPT ![p] = r]
BY DEF Goto, Silent, Answers

LEMMA RowsKeptStep ==
  ASSUME IInv, NEW p \in Req, row' = row
  PROVE  RowStep(p)
<1>1. RowOK /\ OwnersKnown
  BY InvParts
<1>2. DOMAIN row' = Key /\ \A k \in Key : row'[k] = row[k]
  BY <1>1 DEF RowOK
<1>3. QED BY <1>1, <1>2, SameRows

\* The request goes on outside a transaction.
LEMMA GoInv ==
  ASSUME IInv, NEW p \in Req, ~tx[p].open, Read, NEW r, ReqForm(r), r.pc \notin InTx,
         Goto(p, r), RequestInv(p)'
  PROVE  IInv'
<1>1. RowStep(p) /\ out' \in [Req -> Answers] /\ req' = [req EXCEPT ![p] = r]
  BY RowsKeptStep, GotoOut DEF Read
<1>2. tx' = [tx EXCEPT ![p] = tx[p]]
  BY InvParts DEF Read
<1>3. TxForm(tx[p]) /\ Free(p, tx[p].locks) /\ tx[p] = NoTx
  BY InvParts
<1>4. QED BY <1>1, <1>2, <1>3, StepInv

LEMMA OpenTxStep ==
  ASSUME IInv, NEW p \in Req, ~tx[p].open, OpenTx(p)
  PROVE  /\ row' = row
         /\ \E t : /\ TxForm(t) /\ tx' = [tx EXCEPT ![p] = t] /\ tx'[p] = t
                   /\ t.open /\ t.locks = {} /\ t.writes = NoWrites
<1>1. PICK n : n = tx[p]
  OBVIOUS
<1>2. n = [open |-> FALSE, locks |-> {}, writes |-> NoWrites]
  BY <1>1, InvParts DEF NoTx
<1>3. PICK t : t = [n EXCEPT !.open = TRUE]
  OBVIOUS
<1>4. t = [open |-> TRUE, locks |-> {}, writes |-> NoWrites]
  BY <1>2, <1>3
<1>5. TxForm(t) /\ t.open /\ t.locks = {} /\ t.writes = NoWrites
  BY <1>4 DEF TxForm
<1>6. tx' = [tx EXCEPT ![p] = t] /\ row' = row
  BY <1>1, <1>3 DEF OpenTx
<1>7. tx'[p] = t
  BY <1>6, InvParts
<1>8. QED BY <1>5, <1>6, <1>7

\* The request opens a transaction.
LEMMA OpenInv ==
  ASSUME IInv, NEW p \in Req, ~tx[p].open, OpenTx(p), NEW r, ReqForm(r), r.pc \in InTx,
         Goto(p, r), RequestInv(p)'
  PROVE  IInv'
<1>1. PICK t : /\ TxForm(t) /\ tx' = [tx EXCEPT ![p] = t]
               /\ t.open /\ t.locks = {}
  BY OpenTxStep
<1>2. RowStep(p) /\ out' \in [Req -> Answers] /\ req' = [req EXCEPT ![p] = r]
  BY OpenTxStep, RowsKeptStep, GotoOut
<1>3. Free(p, t.locks)
  BY <1>1 DEF Free
<1>4. QED BY <1>1, <1>2, <1>3, StepInv

\* The transaction of p after a statement that locks ks and writes w.
TxAfter(p, ks, w, t) ==
  /\ TxForm(t) /\ tx' = [tx EXCEPT ![p] = t] /\ tx'[p] = t
  /\ t.open = tx[p].open /\ t.locks = tx[p].locks \cup ks /\ t.writes = Merge(tx[p].writes, w)

LEMMA LockedStep ==
  ASSUME IInv, NEW p \in Req, NEW ks, NEW w, Locked(p, ks, w)
  PROVE  row' = row /\ Free(p, ks) /\ \E t : TxAfter(p, ks, w, t)
<1>1. PICK n : n = tx[p]
  OBVIOUS
<1>2. n = [open |-> n.open, locks |-> n.locks, writes |-> n.writes]
  BY <1>1, InvParts DEF TxForm
<1>3. PICK m : m = Merge(n.writes, w)
  OBVIOUS
<1>4. PICK l : l = n.locks \cup ks
  OBVIOUS
<1>5. PICK t : t = [open |-> n.open, locks |-> l, writes |-> m]
  OBVIOUS
<1>6. t = [n EXCEPT !.locks = l, !.writes = m]
  <2>1. PICK x : x = [n EXCEPT !.locks = l]
    OBVIOUS
  <2>2. x = [open |-> n.open, locks |-> l, writes |-> n.writes]
    BY <1>2, <2>1
  <2>3. t = [x EXCEPT !.writes = m]
    BY <1>5, <2>2
  <2>4. QED BY <2>1, <2>3
<1>7. TxForm(t) /\ t.open = n.open /\ t.locks = l /\ t.writes = m
  BY <1>5 DEF TxForm
<1>8. tx' = [tx EXCEPT ![p].locks = @ \cup ks, ![p].writes = Merge(@, w)]
      /\ row' = row /\ Free(p, ks)
  BY DEF Locked
<1>9. tx'[p] = t /\ \A q \in Req : q # p => tx'[q] = tx[q]
  <2>1. tx'[p] = [n EXCEPT !.locks = l, !.writes = m]
    BY <1>1, <1>3, <1>4, <1>8, InvParts
  <2>2. QED BY <1>6, <1>8, <2>1, InvParts
<1>10. tx' = [tx EXCEPT ![p] = t]
  BY <1>8, <1>9, InvParts
<1>11. TxAfter(p, ks, w, t)
  BY <1>1, <1>3, <1>4, <1>7, <1>9, <1>10 DEF TxAfter
<1>12. QED BY <1>8, <1>11

\* A statement inside the transaction of p.
LEMMA LockedInv ==
  ASSUME IInv, NEW p \in Req, tx[p].open, NEW ks, NEW w, Locked(p, ks, w),
         NEW r, ReqForm(r), r.pc \in InTx, Goto(p, r), RequestInv(p)'
  PROVE  IInv'
<1>1. PICK t : TxAfter(p, ks, w, t)
  BY LockedStep
<1>2. RowStep(p) /\ out' \in [Req -> Answers] /\ req' = [req EXCEPT ![p] = r]
  BY LockedStep, RowsKeptStep, GotoOut
<1>3. Free(p, ks) /\ Free(p, tx[p].locks)
  BY LockedStep, InvParts
<1>4. Free(p, t.locks)
  BY <1>1, <1>3 DEF Free, TxAfter
<1>5. QED BY <1>1, <1>2, <1>4, StepInv DEF TxAfter

-----------------------------------------------------------------------------
(* Users *)

LEMMA IdleIsClosed ==
  ASSUME IInv, NEW p \in Req, req[p].pc \notin InTx
  PROVE  ~tx[p].open
BY InvParts

LEMMA Starting ==
  ASSUME IInv, NEW p \in Req, NEW op, Starts(p, op)
  PROVE  req[p].pc = "idle" /\ ~tx[p].open
BY IdleIsClosed DEF Starts, InTx, Deleting

LEMMA AnswersKnown == "ok" \in Answers /\ "error" \in Answers /\ "true" \in Answers /\ "false" \in Answers
BY DEF Answers

LEMMA Moved ==
  ASSUME IInv, NEW p \in Req, NEW r, Goto(p, r)
  PROVE  req'[p] = r /\ \A q \in Req : q # p => req'[q] = req[q]
BY InvParts DEF Goto

LEMMA CreateUserInv ==
  ASSUME IInv, NEW p \in Req, NEW u \in User, CreateUser(p, u)
  PROVE  IInv'
<1>0. PICK r : r = [Idle EXCEPT !.pc = "PutUser", !.user = u]
  OBVIOUS
<1>1. ReqForm(r) /\ r.pc = "PutUser" /\ r.user = u
  BY <1>0 DEF ReqForm, Idle
<1>2. ~tx[p].open /\ Read /\ (Respond(p, "error") \/ Goto(p, r))
  BY <1>0, Starting DEF CreateUser
<1>3. ASSUME Goto(p, r) PROVE IInv'
  <2>1. RequestInv(p)'
    BY <1>1, <1>3, Moved DEF RequestInv, At, Deleting
  <2>2. r.pc \notin InTx
    BY <1>1 DEF InTx, Deleting
  <2>3. QED BY <1>1, <1>2, <1>3, <2>1, <2>2, GoInv
<1>4. QED BY <1>2, <1>3, ReadInv, AnswersKnown

\* A user record that is to be saved has the id that was read.
LEMMA SaveUserGo ==
  ASSUME IInv, NEW p \in Req, ~tx[p].open, Read, NEW u \in User, ~Absent(UserKey(u)),
         NEW r, ReqForm(r), r.pc = "SaveUser", r.user = u, Goto(p, r),
         r.rec = [id |-> row[UserKey(u)].id, deleted |-> FALSE]
  PROVE  IInv'
<1>1. row' = row
  BY DEF Read
<1>2. RequestInv(p)'
  BY <1>1, Moved DEF RequestInv, At, Deleting, Absent
<1>3. r.pc \notin InTx
  BY DEF InTx, Deleting
<1>4. QED BY <1>2, <1>3, GoInv

LEMMA UserRow ==
  ASSUME RowOK, NEW u \in User, ~Absent(UserKey(u))
  PROVE  /\ row[UserKey(u)] \in UserRec
         /\ row[UserKey(u)] = [id |-> row[UserKey(u)].id, deleted |-> row[UserKey(u)].deleted]
         /\ row[UserKey(u)].id \in Req /\ row[UserKey(u)].deleted \in BOOLEAN
BY DEF RowOK, Absent, UserRec

LEMMA UpdateUserInv ==
  ASSUME IInv, NEW p \in Req, NEW u \in User, UpdateUser(p, u)
  PROVE  IInv'
<1>0. PICK r : r = [Idle EXCEPT !.pc = "SaveUser", !.user = u, !.rec = row[UserKey(u)]]
  OBVIOUS
<1>1. ReqForm(r) /\ r.pc = "SaveUser" /\ r.user = u /\ r.rec = row[UserKey(u)]
  BY <1>0 DEF ReqForm, Idle
<1>2. ~tx[p].open /\ Read /\ (Respond(p, "error") \/ (Live(UserKey(u)) /\ Goto(p, r)))
  BY <1>0, Starting DEF UpdateUser
<1>3. ASSUME Live(UserKey(u)), Goto(p, r) PROVE IInv'
  <2>1. ~Absent(UserKey(u)) /\ ~row[UserKey(u)].deleted
    BY <1>3 DEF Live, Absent
  <2>2. row[UserKey(u)] = [id |-> row[UserKey(u)].id, deleted |-> FALSE]
    BY <2>1, InvParts, UserRow
  <2>3. QED BY <1>1, <1>2, <1>3, <2>1, <2>2, SaveUserGo
<1>4. QED BY <1>2, <1>3, ReadInv, AnswersKnown

LEMMA RecoverUserInv ==
  ASSUME IInv, NEW p \in Req, NEW u \in User, RecoverUser(p, u)
  PROVE  IInv'
<1>1. PICK v : v = [row[UserKey(u)] EXCEPT !.deleted = FALSE]
  OBVIOUS
<1>0. PICK r : r = [Idle EXCEPT !.pc = "SaveUser", !.user = u, !.rec = v]
  OBVIOUS
<1>2. ReqForm(r) /\ r.pc = "SaveUser" /\ r.user = u /\ r.rec = v
  BY <1>0 DEF ReqForm, Idle
<1>3. ~tx[p].open /\ Read /\ (Respond(p, "error") \/ (~Absent(UserKey(u)) /\ Goto(p, r)))
  BY <1>0, <1>1, Starting DEF RecoverUser
<1>4. ASSUME ~Absent(UserKey(u)), Goto(p, r) PROVE IInv'
  <2>1. PICK x : x = row[UserKey(u)]
    OBVIOUS
  <2>2. x = [id |-> x.id, deleted |-> x.deleted]
    BY <1>4, <2>1, InvParts, UserRow
  <2>3. v = [id |-> x.id, deleted |-> FALSE]
    BY <1>1, <2>1, <2>2
  <2>4. QED BY <1>2, <1>3, <1>4, <2>1, <2>3, SaveUserGo
<1>5. QED BY <1>3, <1>4, ReadInv, AnswersKnown

\* A statement that writes a user.
LEMMA PutUserInv == ASSUME IInv, NEW p \in Req, PutUser(p) PROVE IInv'
<1> DEFINE u == req[p].user
<1>1. At(p, "PutUser") /\ RequestInv(p) /\ ~tx[p].open
  BY IdleIsClosed, InvParts DEF PutUser, At, InTx, Deleting
<1>2. u \in User
  BY <1>1 DEF RequestInv
<1>3. PICK v : v = [id |-> p, deleted |-> FALSE]
  OBVIOUS
<1>4. v \in UserRec
  BY <1>3 DEF UserRec
<1>5. \/ Read /\ Respond(p, "error")
      \/ /\ Absent(UserKey(u)) /\ Statement(p, {UserKey(u)}, One(UserKey(u), v))
         /\ Respond(p, "ok")
  BY <1>3 DEF PutUser, Create
<1>6. ASSUME Absent(UserKey(u)), Statement(p, {UserKey(u)}, One(UserKey(u), v)), Respond(p, "ok")
      PROVE  IInv'
  <2>1. row' = Merge(row, One(UserKey(u), v)) /\ tx' = tx
    BY <1>6 DEF Statement
  <2>2. RowStep(p)
    BY <1>2, <1>4, <1>6, <2>1, InvParts, PutUserRow
  <2>3. QED BY <1>1, <1>6, <2>1, <2>2, EndInv, AnswersKnown
<1>7. QED BY <1>1, <1>5, <1>6, ReadInv, AnswersKnown

LEMMA SaveUserInv == ASSUME IInv, NEW p \in Req, SaveUser(p) PROVE IInv'
<1> DEFINE u == req[p].user
           v == req[p].rec
<1>1. At(p, "SaveUser") /\ RequestInv(p) /\ ~tx[p].open
  BY IdleIsClosed, InvParts DEF SaveUser, At, InTx, Deleting
<1>2. u \in User /\ ~Absent(UserKey(u)) /\ v = [id |-> row[UserKey(u)].id, deleted |-> FALSE]
  BY <1>1 DEF RequestInv
<1>3. row[UserKey(u)].id \in Req
  BY <1>2, InvParts, UserRow
<1>4. v \in UserRec /\ v.id = row[UserKey(u)].id
  <2>1. PICK i \in Req : i = row[UserKey(u)].id
    BY <1>3
  <2>2. v = [id |-> i, deleted |-> FALSE]
    BY <1>2, <2>1
  <2>3. QED BY <2>1, <2>2 DEF UserRec
<1>5. row' = Merge(row, One(UserKey(u), v)) /\ tx' = tx /\ Respond(p, "ok")
  BY DEF SaveUser, Statement
<1>6. RowStep(p)
  BY <1>2, <1>4, <1>5, InvParts, PutUserRow
<1>7. QED BY <1>1, <1>5, <1>6, EndInv, AnswersKnown

-----------------------------------------------------------------------------
(* DeleteUser *)

LEMMA DeletionIsAll ==
  ASSUME NEW p, req'[p].pc \in Deleting, DeletionInv(p)'
  PROVE  RequestInv(p)'
BY DEF RequestInv, At, Deleting

LEMMA DeleteUserInv ==
  ASSUME IInv, NEW p \in Req, NEW u \in User, DeleteUser(p, u)
  PROVE  IInv'
<1>1. PICK v : v = Erased(row[UserKey(u)])
  OBVIOUS
<1>2. PICK l : l = ListMiners(u)
  OBVIOUS
<1>3. PICK r : r = [Idle EXCEPT !.pc = "DeleteUser.miners", !.user = u, !.rec = v,
                                !.list = l, !.todo = l]
  OBVIOUS
<1>4. /\ ReqForm(r) /\ r.pc = "DeleteUser.miners" /\ r.user = u /\ r.rec = v
      /\ r.list = l /\ r.todo = l
  BY <1>3 DEF ReqForm, Idle
<1>5. /\ ~tx[p].open
      /\ \/ Read /\ Respond(p, "error")
         \/ Live(UserKey(u)) /\ OpenTx(p) /\ Goto(p, r)
  BY <1>1, <1>2, <1>3, Starting DEF DeleteUser
<1>6. ASSUME Live(UserKey(u)), OpenTx(p), Goto(p, r) PROVE IInv'
  <2>1. req'[p] = r
    BY <1>6, Moved
  <2>2. row' = row /\ tx'[p].locks = {} /\ tx'[p].writes = NoWrites
    BY <1>5, <1>6, OpenTxStep
  <2>3. ~Absent(UserKey(u)) /\ RowOK
    BY <1>6, InvParts DEF Live, Absent
  <2>4. v = [id |-> row[UserKey(u)].id, deleted |-> TRUE]
    BY <1>1, <2>3, UserRow, ErasedRows
  <2>5. l \subseteq Miner /\ \A m \in l : ~Absent(MinerKey(m))
    BY <1>2 DEF ListMiners, Owns, Live, Absent
  <2>6. DOMAIN NoWrites = {}
    BY DEF NoWrites
  <2>7. DeletionInv(p)'
    BY <1>4, <2>1, <2>2, <2>3, <2>4, <2>5, <2>6 DEF DeletionInv, At, Absent
  <2>8. r.pc \in Deleting
    BY <1>4 DEF Deleting
  <2>9. RequestInv(p)'
    BY <2>1, <2>7, <2>8, DeletionIsAll
  <2>10. r.pc \in InTx
    BY <2>8 DEF InTx
  <2>11. QED BY <1>4, <1>5, <1>6, <2>9, <2>10, OpenInv
<1>7. QED BY <1>5, <1>6, ReadInv, AnswersKnown

\* In the middle of a deletion.
LEMMA InDeletion ==
  ASSUME IInv, NEW p \in Req, req[p].pc \in Deleting
  PROVE  tx[p].open /\ DeletionInv(p)
BY InvParts DEF InTx, RequestInv

LEMMA DeletionGoes ==
  ASSUME IInv, NEW p \in Req, req[p].pc \in Deleting, NEW ks, NEW w, Locked(p, ks, w),
         NEW r, ReqForm(r), r.pc \in Deleting, Goto(p, r), DeletionInv(p)'
  PROVE  IInv'
<1>1. RequestInv(p)'
  BY Moved, DeletionIsAll
<1>2. r.pc \in InTx /\ tx[p].open
  BY InDeletion DEF InTx
<1>3. QED BY <1>1, <1>2, LockedInv

LEMMA MarkedValues ==
  ASSUME NEW ks
  PROVE  /\ DOMAIN Marked(ks) = {k \in ks : ~Absent(k)}
         /\ \A k \in ks : ~Absent(k) => Marked(ks)[k] = Erased(row[k])
BY DEF Marked

LEMMA DeleteUserMinerInv ==
  ASSUME IInv, NEW p \in Req, NEW m \in Miner, DeleteUserMiner(p, m)
  PROVE  IInv'
<1>1. PICK n : n = req[p]
  OBVIOUS
<1>2. PICK d : d = n.todo \ {m}
  OBVIOUS
<1>3. PICK r : r = [n EXCEPT !.todo = d]
  OBVIOUS
<1>4. n = [pc |-> n.pc, user |-> n.user, addr |-> n.addr, rec |-> n.rec, res |-> n.res,
           list |-> n.list, todo |-> n.todo]
  BY <1>1, InvParts DEF ReqForm
<1>5. r = [pc |-> n.pc, user |-> n.user, addr |-> n.addr, rec |-> n.rec, res |-> n.res,
           list |-> n.list, todo |-> d]
  BY <1>3, <1>4
<1>6. /\ ReqForm(r) /\ r.pc = n.pc /\ r.user = n.user /\ r.rec = n.rec
      /\ r.list = n.list /\ r.todo = d
  BY <1>5 DEF ReqForm
<1> DEFINE k == MinerKey(m)
<1>20. PICK x : x = Marked({k})
  OBVIOUS
<1>7. /\ n.pc = "DeleteUser.miners" /\ m \in n.todo
      /\ Locked(p, {k}, x) /\ Goto(p, r)
  BY <1>1, <1>2, <1>3, <1>20 DEF DeleteUserMiner, At
<1>8. n.pc \in Deleting /\ DeletionInv(p)
  BY <1>1, <1>7, InDeletion DEF Deleting
<1>9. PICK t : TxAfter(p, {k}, x, t)
  BY <1>7, LockedStep
<1>10. row' = row /\ req'[p] = r /\ tx'[p] = t
  BY <1>7, <1>9, LockedStep, Moved DEF TxAfter
<1>11. m \in n.list /\ ~Absent(k)
  BY <1>1, <1>7, <1>8 DEF DeletionInv
<1>12. DOMAIN x = {k} /\ x[k] = Erased(row[k])
  <2>1. /\ DOMAIN x = {y \in {k} : ~Absent(y)}
        /\ \A y \in {k} : ~Absent(y) => x[y] = Erased(row[y])
    BY <1>20, MarkedValues
  <2>2. QED BY <1>11, <2>1
<1>13. row[k] \in MinerRec /\ ~Absent(UserKey(row[k].user))
  BY <1>11, InvParts DEF RowOK, Absent, OwnersKnown
<1>14. x[k] \in MinerRec /\ x[k].deleted /\ x[k].user = row[k].user
  <2>1. PICK e : e = Erased(row[k])
    OBVIOUS
  <2>2. PICK o : o = row[k].user
    OBVIOUS
  <2>3. e = [user |-> o, deleted |-> TRUE] /\ e \in MinerRec
    BY <1>13, <2>1, <2>2, ErasedRows
  <2>4. QED BY <1>12, <2>1, <2>2, <2>3
<1>15. PICK f : f = tx[p].writes
  OBVIOUS
<1>16. t.locks = tx[p].locks \cup {k} /\ t.writes = Merge(f, x)
  BY <1>9, <1>15 DEF TxAfter
<1>17. /\ DOMAIN t.writes = DOMAIN f \cup {k}
       /\ t.writes[k] = x[k]
       /\ \A y \in DOMAIN f : y # k => t.writes[y] = f[y]
  <2>1. PICK g : g = t.writes
    OBVIOUS
  <2>2. /\ DOMAIN g = DOMAIN f \cup DOMAIN x
        /\ \A y \in DOMAIN x : g[y] = x[y]
        /\ \A y \in DOMAIN f : y \notin DOMAIN x => g[y] = f[y]
    BY <1>16, <2>1 DEF Merge
  <2>3. QED BY <1>12, <2>1, <2>2
<1>18. DeletionInv(p)'
  <2>1. /\ n.user \in User /\ ~Absent(UserKey(n.user))
        /\ n.rec = [id |-> row[UserKey(n.user)].id, deleted |-> TRUE]
        /\ n.todo \subseteq n.list /\ n.list \subseteq Miner
        /\ \A y \in n.list : ~Absent(MinerKey(y))
        /\ DOMAIN f \subseteq tx[p].locks
        /\ DOMAIN f \subseteq {MinerKey(y) : y \in n.list} \cup SignersOf(n.user) \cup {UserKey(n.user)}
        /\ \A y \in SignersOf(n.user) \cap DOMAIN f : f[y] = [deleted |-> TRUE]
        /\ UserKey(n.user) \in DOMAIN f => f[UserKey(n.user)] = n.rec
        /\ \A y \in n.list :
             /\ MinerKey(y) \in DOMAIN f => /\ f[MinerKey(y)] \in MinerRec /\ f[MinerKey(y)].deleted
                                            /\ ~Absent(UserKey(f[MinerKey(y)].user))
             /\ y \notin n.todo => MinerKey(y) \in DOMAIN f
    BY <1>1, <1>8, <1>15 DEF DeletionInv
  <2>2. /\ DOMAIN t.writes \subseteq t.locks
        /\ DOMAIN t.writes \subseteq {MinerKey(y) : y \in n.list} \cup SignersOf(n.user) \cup {UserKey(n.user)}
    BY <1>11, <1>16, <1>17, <2>1
  <2>3. \A y \in n.list :
          /\ MinerKey(y) \in DOMAIN t.writes =>
               /\ t.writes[MinerKey(y)] \in MinerRec /\ t.writes[MinerKey(y)].deleted
               /\ ~Absent(UserKey(t.writes[MinerKey(y)].user))
          /\ y \notin d => MinerKey(y) \in DOMAIN t.writes
    BY <1>2, <1>13, <1>14, <1>17, <2>1
  <2>4. k \notin SignerKeys /\ k # UserKey(n.user) /\ SignersOf(n.user) \subseteq SignerKeys
    BY <2>1, Keys, KeysDiffer
  <2>5. /\ \A y \in SignersOf(n.user) \cap DOMAIN t.writes : t.writes[y] = [deleted |-> TRUE]
        /\ UserKey(n.user) \in DOMAIN t.writes => t.writes[UserKey(n.user)] = n.rec
    BY <1>17, <2>1, <2>4
  <2>6. d \subseteq n.list
    BY <1>2, <2>1
  <2>7. QED BY <1>6, <1>7, <1>10, <2>1, <2>2, <2>3, <2>5, <2>6 DEF DeletionInv, At, Absent
<1>19. QED BY <1>1, <1>6, <1>7, <1>8, <1>18, DeletionGoes

LEMMA DeleteUserSignersInv ==
  ASSUME IInv, NEW p \in Req, DeleteUserSigners(p)
  PROVE  IInv'
<1>1. PICK n : n = req[p]
  OBVIOUS
<1>2. PICK r : r = [n EXCEPT !.pc = "DeleteUser.save"]
  OBVIOUS
<1>3. /\ ReqForm(r) /\ r.pc = "DeleteUser.save" /\ r.user = n.user /\ r.rec = n.rec
      /\ r.list = n.list /\ r.todo = n.todo
  <2>1. n = [pc |-> n.pc, user |-> n.user, addr |-> n.addr, rec |-> n.rec, res |-> n.res,
             list |-> n.list, todo |-> n.todo]
    BY <1>1, InvParts DEF ReqForm
  <2>2. r = [pc |-> "DeleteUser.save", user |-> n.user, addr |-> n.addr, rec |-> n.rec,
             res |-> n.res, list |-> n.list, todo |-> n.todo]
    BY <1>2, <2>1
  <2>3. QED BY <2>2 DEF ReqForm
<1>4. PICK ks : ks = SignersOf(n.user)
  OBVIOUS
<1>5. PICK x : x = Marked(ks)
  OBVIOUS
<1>6. /\ n.pc = "DeleteUser.miners" /\ n.todo = {}
      /\ Locked(p, ks, x) /\ Goto(p, r)
  BY <1>1, <1>2, <1>4, <1>5 DEF DeleteUserSigners, At
<1>7. n.pc \in Deleting /\ DeletionInv(p)
  BY <1>1, <1>6, InDeletion DEF Deleting
<1>8. PICK t : TxAfter(p, ks, x, t)
  BY <1>6, LockedStep
<1>9. row' = row /\ req'[p] = r /\ tx'[p] = t
  BY <1>6, <1>8, LockedStep, Moved DEF TxAfter
<1>10. /\ DOMAIN x = {y \in ks : ~Absent(y)}
       /\ \A y \in ks : ~Absent(y) => x[y] = Erased(row[y])
  BY <1>5, MarkedValues
<1>11. PICK f : f = tx[p].writes
  OBVIOUS
<1>12. PICK g : g = Merge(f, x)
  OBVIOUS
<1>13. t.locks = tx[p].locks \cup ks /\ t.writes = g
  BY <1>8, <1>11, <1>12 DEF TxAfter
<1>14. /\ DOMAIN g = DOMAIN f \cup DOMAIN x
       /\ \A y \in DOMAIN x : g[y] = x[y]
       /\ \A y \in DOMAIN f : y \notin DOMAIN x => g[y] = f[y]
  BY <1>12 DEF Merge
<1>15. /\ n.user \in User /\ ~Absent(UserKey(n.user))
       /\ n.rec = [id |-> row[UserKey(n.user)].id, deleted |-> TRUE]
       /\ n.todo \subseteq n.list /\ n.list \subseteq Miner
       /\ \A y \in n.list : ~Absent(MinerKey(y))
       /\ DOMAIN f \subseteq tx[p].locks
       /\ DOMAIN f \subseteq {MinerKey(y) : y \in n.list} \cup ks \cup {UserKey(n.user)}
       /\ \A y \in ks \cap DOMAIN f : f[y] = [deleted |-> TRUE]
       /\ UserKey(n.user) \in DOMAIN f => f[UserKey(n.user)] = n.rec
       /\ \A y \in n.list :
            /\ MinerKey(y) \in DOMAIN f => /\ f[MinerKey(y)] \in MinerRec /\ f[MinerKey(y)].deleted
                                           /\ ~Absent(UserKey(f[MinerKey(y)].user))
            /\ y \notin n.todo => MinerKey(y) \in DOMAIN f
  BY <1>1, <1>4, <1>7, <1>11 DEF DeletionInv
<1>16. /\ ks \subseteq SignerKeys /\ UserKey(n.user) \notin ks
       /\ \A y : MinerKey(y) \notin ks
  BY <1>4, <1>15, Keys, KeysDiffer
<1>17. \A y \in ks : ~Absent(y) => x[y] = [deleted |-> TRUE]
  <2>1. \A y \in ks : ~Absent(y) => row[y] \in SignerRec
    BY <1>16, InvParts DEF RowOK, Absent
  <2>2. \A y \in ks : ~Absent(y) => Erased(row[y]) = [deleted |-> TRUE]
    BY <2>1, ErasedRows
  <2>3. QED BY <1>10, <2>2
<1>18. DeletionInv(p)'
  <2>1. /\ DOMAIN g \subseteq t.locks
        /\ DOMAIN g \subseteq {MinerKey(y) : y \in n.list} \cup ks \cup {UserKey(n.user)}
    BY <1>10, <1>13, <1>14, <1>15
  <2>2. \A y \in n.list :
          /\ MinerKey(y) \in DOMAIN g => /\ g[MinerKey(y)] \in MinerRec /\ g[MinerKey(y)].deleted
                                         /\ ~Absent(UserKey(g[MinerKey(y)].user))
          /\ y \notin n.todo => MinerKey(y) \in DOMAIN g
    BY <1>10, <1>14, <1>15, <1>16
  <2>3. /\ \A y \in ks \cap DOMAIN g : g[y] = [deleted |-> TRUE]
        /\ UserKey(n.user) \in DOMAIN g => g[UserKey(n.user)] = n.rec
    BY <1>10, <1>14, <1>15, <1>16, <1>17
  <2>4. \A y \in ks : y \in t.locks /\ (Absent(y) \/ y \in DOMAIN g)
    BY <1>10, <1>13, <1>14
  <2>5. QED BY <1>3, <1>4, <1>6, <1>9, <1>13, <1>15, <2>1, <2>2, <2>3, <2>4
            DEF DeletionInv, At, Absent
<1>19. r.pc \in Deleting
  BY <1>3 DEF Deleting
<1>20. QED BY <1>1, <1>3, <1>6, <1>7, <1>18, <1>19, DeletionGoes

LEMMA DeleteUserSaveInv ==
  ASSUME IInv, NEW p \in Req, DeleteUserSave(p)
  PROVE  IInv'
<1>1. PICK n : n = req[p]
  OBVIOUS
<1>2. PICK r : r = [n EXCEPT !.pc = "DeleteUser.commit"]
  OBVIOUS
<1>3. /\ ReqForm(r) /\ r.pc = "DeleteUser.commit" /\ r.user = n.user /\ r.rec = n.rec
      /\ r.list = n.list /\ r.todo = n.todo
  <2>1. n = [pc |-> n.pc, user |-> n.user, addr |-> n.addr, rec |-> n.rec, res |-> n.res,
             list |-> n.list, todo |-> n.todo]
    BY <1>1, InvParts DEF ReqForm
  <2>2. r = [pc |-> "DeleteUser.commit", user |-> n.user, addr |-> n.addr, rec |-> n.rec,
             res |-> n.res, list |-> n.list, todo |-> n.todo]
    BY <1>2, <2>1
  <2>3. QED BY <2>2 DEF ReqForm
<1> DEFINE k == UserKey(n.user)
<1>4. PICK x : x = One(k, n.rec)
  OBVIOUS
<1>5. /\ n.pc = "DeleteUser.save"
      /\ Locked(p, {k}, x) /\ Goto(p, r)
  BY <1>1, <1>2, <1>4 DEF DeleteUserSave, At
<1>6. n.pc \in Deleting /\ DeletionInv(p)
  BY <1>1, <1>5, InDeletion DEF Deleting
<1>7. PICK t : TxAfter(p, {k}, x, t)
  BY <1>5, LockedStep
<1>8. row' = row /\ req'[p] = r /\ tx'[p] = t
  BY <1>5, <1>7, LockedStep, Moved DEF TxAfter
<1>9. DOMAIN x = {k} /\ x[k] = n.rec
  BY <1>4 DEF One
<1>10. PICK f : f = tx[p].writes
  OBVIOUS
<1>11. PICK g : g = Merge(f, x)
  OBVIOUS
<1>12. t.locks = tx[p].locks \cup {k} /\ t.writes = g
  BY <1>7, <1>10, <1>11 DEF TxAfter
<1>13. /\ DOMAIN g = DOMAIN f \cup {k}
       /\ g[k] = n.rec
       /\ \A y \in DOMAIN f : y # k => g[y] = f[y]
  BY <1>9, <1>11 DEF Merge
<1>14. /\ n.user \in User /\ ~Absent(k)
       /\ n.rec = [id |-> row[k].id, deleted |-> TRUE]
       /\ n.todo = {} /\ n.list \subseteq Miner
       /\ \A y \in n.list : ~Absent(MinerKey(y))
       /\ DOMAIN f \subseteq tx[p].locks
       /\ DOMAIN f \subseteq {MinerKey(y) : y \in n.list} \cup SignersOf(n.user) \cup {k}
       /\ \A y \in SignersOf(n.user) \cap DOMAIN f : f[y] = [deleted |-> TRUE]
       /\ \A y \in n.list :
            /\ MinerKey(y) \in DOMAIN f => /\ f[MinerKey(y)] \in MinerRec /\ f[MinerKey(y)].deleted
                                           /\ ~Absent(UserKey(f[MinerKey(y)].user))
            /\ y \notin n.todo => MinerKey(y) \in DOMAIN f
       /\ \A y \in SignersOf(n.user) : y \in tx[p].locks /\ (Absent(y) \/ y \in DOMAIN f)
  BY <1>1, <1>5, <1>6, <1>10 DEF DeletionInv, At
<1>15. k \notin SignersOf(n.user) /\ \A y : MinerKey(y) # k
  BY <1>14, Keys, KeysDiffer
<1>16. DeletionInv(p)'
  <2>1. /\ DOMAIN g \subseteq t.locks
        /\ DOMAIN g \subseteq {MinerKey(y) : y \in n.list} \cup SignersOf(n.user) \cup {k}
    BY <1>12, <1>13, <1>14
  <2>2. \A y \in n.list :
          /\ MinerKey(y) \in DOMAIN g => /\ g[MinerKey(y)] \in MinerRec /\ g[MinerKey(y)].deleted
                                         /\ ~Absent(UserKey(g[MinerKey(y)].user))
          /\ y \notin n.todo => MinerKey(y) \in DOMAIN g
    BY <1>13, <1>14, <1>15
  <2>3. \A y \in SignersOf(n.user) \cap DOMAIN g : g[y] = [deleted |-> TRUE]
    BY <1>13, <1>14, <1>15
  <2>4. \A y \in SignersOf(n.user) : y \in t.locks /\ (Absent(y) \/ y \in DOMAIN g)
    BY <1>12, <1>13, <1>14
  <2>5. QED BY <1>3, <1>8, <1>12, <1>13, <1>14, <2>1, <2>2, <2>3, <2>4
            DEF DeletionInv, At, Absent
<1>17. r.pc \in Deleting
  BY <1>3 DEF Deleting
<1>18. QED BY <1>1, <1>3, <1>5, <1>6, <1>16, <1>17, DeletionGoes

\* The commit of a deletion: the user, its signers and the miners it had are
\* deleted, and nothing that another transaction has locked changes.
LEMMA CommitRows ==
  ASSUME IInv, NEW p \in Req, DeleteUserCommit(p), NEW u, u = req[p].user
  PROVE  /\ RowStep(p) /\ u \in User /\ ~Live(UserKey(u))'
         /\ \A k \in SignersOf(u) : ~Live(k)'
         /\ \A m \in req[p].list : row'[MinerKey(m)].deleted
         /\ tx' = [tx EXCEPT ![p] = NoTx]
         /\ ~Absent(UserKey(u))
         /\ \A x \in User : x # u => row'[UserKey(x)] = row[UserKey(x)]
         /\ \A t \in Token : row'[TokenKey(t)] = row[TokenKey(t)]
         /\ \A m \in Miner : m \notin req[p].list => row'[MinerKey(m)] = row[MinerKey(m)]
         /\ \A k \in SignerKeys : k \notin SignersOf(u) => row'[k] = row[k]
<1> DEFINE l == req[p].list
<1>1. PICK w : w = tx[p].writes
  OBVIOUS
<1>2. /\ req[p].pc = "DeleteUser.commit" /\ req[p].pc \in Deleting
      /\ row' = Merge(row, w) /\ tx' = [tx EXCEPT ![p] = NoTx]
  BY <1>1 DEF DeleteUserCommit, At, Commit, Deleting
<1>3. /\ DeletionInv(p) /\ RowOK /\ OwnersKnown
  BY <1>2, InDeletion, InvParts
<1>4. /\ u \in User /\ ~Absent(UserKey(u))
      /\ req[p].rec = [id |-> row[UserKey(u)].id, deleted |-> TRUE]
      /\ req[p].todo = {} /\ l \subseteq Miner
      /\ \A m \in l : ~Absent(MinerKey(m))
      /\ DOMAIN w \subseteq tx[p].locks
      /\ DOMAIN w \subseteq {MinerKey(m) : m \in l} \cup SignersOf(u) \cup {UserKey(u)}
      /\ \A k \in SignersOf(u) \cap DOMAIN w : w[k] = [deleted |-> TRUE]
      /\ UserKey(u) \in DOMAIN w /\ w[UserKey(u)] = req[p].rec
      /\ \A m \in l : /\ MinerKey(m) \in DOMAIN w
                      /\ w[MinerKey(m)] \in MinerRec /\ w[MinerKey(m)].deleted
                      /\ ~Absent(UserKey(w[MinerKey(m)].user))
      /\ \A k \in SignersOf(u) : Absent(k) \/ k \in DOMAIN w
  BY <1>1, <1>2, <1>3 DEF DeletionInv, At
<1>5. DOMAIN w \subseteq Key
  BY <1>4, Keys
<1>6. /\ DOMAIN row' = Key
      /\ \A k \in DOMAIN w : row'[k] = w[k]
      /\ \A k \in Key : k \notin DOMAIN w => row'[k] = row[k]
  BY <1>2, <1>3, <1>5 DEF Merge, RowOK
<1>7. /\ \A v \in User : v # u => UserKey(v) \notin DOMAIN w
      /\ \A m \in Miner : MinerKey(m) \in DOMAIN w => m \in l
      /\ \A k \in SignerKeys : k \in DOMAIN w => k \in SignersOf(u)
      /\ \A t \in Token : TokenKey(t) \notin DOMAIN w
      /\ \A x \in Limit : LimitKey(x) \notin DOMAIN w
  BY <1>4, Keys, KeysDiffer
<1>8. PICK v : v = req[p].rec
  OBVIOUS
<1>9. v \in UserRec /\ v.id = row[UserKey(u)].id /\ v.deleted
  <2>1. PICK i \in Req : i = row[UserKey(u)].id
    BY <1>3, <1>4, UserRow
  <2>2. v = [id |-> i, deleted |-> TRUE]
    BY <1>4, <1>8, <2>1
  <2>3. QED BY <2>1, <2>2 DEF UserRec
<1>10. row'[UserKey(u)] = v
  BY <1>4, <1>6, <1>8
<1>11. \A x \in User : x # u => row'[UserKey(x)] = row[UserKey(x)]
  BY <1>6, <1>7, Keys
<1>12. PICK e : e = [deleted |-> TRUE]
  OBVIOUS
<1>13. e \in SignerRec /\ e.deleted
  BY <1>12 DEF SignerRec
<1>14. \A k \in SignerKeys : row'[k] = row[k] \/ row'[k] = e
  BY <1>4, <1>6, <1>7, <1>12, Keys
<1>15. \A m \in Miner : \/ row'[MinerKey(m)] = row[MinerKey(m)]
                        \/ m \in l /\ row'[MinerKey(m)] = w[MinerKey(m)]
  BY <1>6, <1>7, Keys
<1>16. /\ \A t \in Token : row'[TokenKey(t)] = row[TokenKey(t)]
       /\ \A x \in Limit : row'[LimitKey(x)] = row[LimitKey(x)]
  BY <1>6, <1>7, Keys
<1>17. RowOK'
  BY <1>3, <1>4, <1>6, <1>9, <1>10, <1>11, <1>13, <1>14, <1>15, <1>16 DEF RowOK
<1>18. RowKept
  BY <1>4, <1>9, <1>10, <1>11, <1>15, <1>16, NilIsNoRow DEF RowKept, Absent
<1>19. LocksHold(p)
  <2>1. \A q \in Req \ {p} : tx[q].locks \cap tx[p].locks = {}
    BY InvParts DEF Free
  <2>2. QED BY <1>4, <1>6, <2>1, Keys DEF LocksHold
<1>20. OwnersKnown'
  <2>1. \A x \in User : ~Absent(UserKey(x)) => ~Absent(UserKey(x))'
    BY <1>18 DEF RowKept
  <2>2. \A t \in Token : row'[TokenKey(t)] # Nil => row'[UserKey(row'[TokenKey(t)].name)] # Nil
    BY <1>3, <1>16, <2>1, Owners DEF OwnersKnown, Absent
  <2>3. \A m \in Miner : row'[MinerKey(m)] # Nil => row'[UserKey(row'[MinerKey(m)].user)] # Nil
    <3>1. \A m \in l : w[MinerKey(m)].user \in User
      BY <1>4 DEF MinerRec
    <3>2. QED BY <1>3, <1>4, <1>15, <2>1, <3>1, Owners DEF OwnersKnown, Absent
  <2>4. \A s \in Signer, x \in User : ~Absent(SignerKey(s, x))' => ~Absent(UserKey(x))'
    <3>1. ASSUME NEW s \in Signer, NEW x \in User, row'[SignerKey(s, x)] # Nil
          PROVE  ~Absent(UserKey(x))
      <4>1. CASE SignerKey(s, x) \in DOMAIN w
        <5>1. SignerKey(s, x) \in SignersOf(u)
          BY <1>7, <4>1, Keys
        <5>2. PICK y \in Signer : SignerKey(s, x) = SignerKey(y, u)
          BY <1>4, <5>1, SignerKeyForm
        <5>4. x = u
          BY <5>2, KeysDiffer
        <5>3. QED BY <1>4, <5>4
      <4>2. CASE SignerKey(s, x) \notin DOMAIN w
        BY <1>3, <1>6, <3>1, <4>2, Keys DEF OwnersKnown, Absent
      <4>3. QED BY <4>1, <4>2
    <3>2. QED BY <2>1, <3>1 DEF Absent
  <2>5. QED BY <2>2, <2>3, <2>4 DEF OwnersKnown, Absent
<1>21. ~Live(UserKey(u))'
  BY <1>9, <1>10 DEF Live
<1>22. ASSUME NEW k \in SignersOf(u) PROVE ~Live(k)'
  <2>1. k \in Key
    BY <1>4, Keys
  <2>2. CASE k \in DOMAIN w
    <3>1. row'[k] = e
      BY <1>4, <1>6, <1>12, <2>2
    <3>2. QED BY <1>13, <3>1 DEF Live
  <2>3. CASE k \notin DOMAIN w
    <3>1. row'[k] = Nil
      BY <1>4, <1>6, <2>1, <2>3 DEF Absent
    <3>2. QED BY <3>1 DEF Live
  <2>4. QED BY <2>2, <2>3
<1>23. \A m \in l : row'[MinerKey(m)].deleted
  BY <1>4, <1>6
<1>24. /\ \A m \in Miner : m \notin l => row'[MinerKey(m)] = row[MinerKey(m)]
       /\ \A k \in SignerKeys : k \notin SignersOf(u) => row'[k] = row[k]
  BY <1>6, <1>7, Keys
<1>25. QED
  BY <1>2, <1>4, <1>11, <1>16, <1>17, <1>18, <1>19, <1>20, <1>21, <1>22, <1>23, <1>24 DEF RowStep

LEMMA DeleteUserCommitInv ==
  ASSUME IInv, NEW p \in Req, DeleteUserCommit(p)
  PROVE  IInv'
BY CommitRows, EndInv, AnswersKnown DEF DeleteUserCommit

\* gorm rolls back, and the client has an error.
LEMMA FailInv == ASSUME IInv, NEW p \in Req, Fail(p) PROVE IInv'
<1>1. row' = row /\ tx' = [tx EXCEPT ![p] = NoTx] /\ Respond(p, "error")
  BY DEF Fail, Rollback
<1>2. QED BY <1>1, RowsKeptStep, EndInv, AnswersKnown

-----------------------------------------------------------------------------
(* Miners and signers *)

LEMMA UpsertMinerInv ==
  ASSUME IInv, NEW p \in Req, NEW m \in Miner, NEW u \in User, UpsertMiner(p, m, u)
  PROVE  IInv'
<1>1. PICK a \in Answers : a = IF Live(MinerKey(m)) THEN "false" ELSE "true"
  BY AnswersKnown
<1>2. PICK r : r = [Idle EXCEPT !.pc = "UpsertMiner", !.user = u, !.addr = m, !.res = a]
  OBVIOUS
<1>3. ReqForm(r) /\ r.pc = "UpsertMiner" /\ r.user = u /\ r.addr = m /\ r.res = a
  BY <1>2 DEF ReqForm, Idle
<1>4. /\ ~tx[p].open
      /\ \/ Read /\ Respond(p, "error")
         \/ ~Absent(UserKey(u)) /\ OpenTx(p) /\ Goto(p, r)
  BY <1>1, <1>2, Starting DEF UpsertMiner, UserExists
<1>5. ASSUME ~Absent(UserKey(u)), OpenTx(p), Goto(p, r) PROVE IInv'
  <2>1. req'[p] = r /\ row' = row
    BY <1>4, <1>5, Moved, OpenTxStep
  <2>2. RequestInv(p)'
    BY <1>3, <1>5, <2>1 DEF RequestInv, At, Deleting, Absent
  <2>3. r.pc \in InTx
    BY <1>3 DEF InTx
  <2>4. QED BY <1>3, <1>4, <1>5, <2>2, <2>3, OpenInv
<1>6. QED BY <1>4, <1>5, ReadInv, AnswersKnown

LEMMA UpsertMinerCommitInv ==
  ASSUME IInv, NEW p \in Req, UpsertMinerCommit(p)
  PROVE  IInv'
<1>1. PICK m : m = req[p].addr
  OBVIOUS
<1>2. PICK u : u = req[p].user
  OBVIOUS
<1>3. /\ req[p].pc = "UpsertMiner"
      /\ LastStatement(p, {MinerKey(m)}, One(MinerKey(m), [user |-> u, deleted |-> FALSE]))
      /\ Respond(p, req[p].res)
  BY <1>1, <1>2 DEF UpsertMinerCommit, At
<1>4. m \in Miner /\ u \in User /\ ~Absent(UserKey(u)) /\ req[p].res \in Answers
  BY <1>1, <1>2, <1>3, InvParts DEF RequestInv, At
<1>5. /\ Free(p, {MinerKey(m)}) /\ tx' = [tx EXCEPT ![p] = NoTx]
      /\ row' = Merge(row, One(MinerKey(m), [user |-> u, deleted |-> FALSE]))
  BY <1>3 DEF LastStatement
<1>6. RowStep(p)
  BY <1>4, <1>5, InvParts, PutMinerRow
<1>7. QED BY <1>3, <1>4, <1>5, <1>6, EndInv

LEMMA DelMinerInv ==
  ASSUME IInv, NEW p \in Req, NEW m \in Miner, DelMiner(p, m)
  PROVE  IInv'
<1>1. /\ ~tx[p].open /\ Free(p, {MinerKey(m)}) /\ tx' = tx
      /\ row' = Merge(row, Marked({MinerKey(m)}))
  BY Starting DEF DelMiner, Statement
<1>2. PICK a \in Answers : Respond(p, a)
  BY AnswersKnown DEF DelMiner
<1>3. RowStep(p)
  BY <1>1, InvParts, MarkMinerRow
<1>4. QED BY <1>1, <1>2, <1>3, EndInv

LEMMA GetUserByMinerInv ==
  ASSUME IInv, NEW p \in Req, NEW m \in Miner, GetUserByMiner(p, m)
  PROVE  IInv'
<1>1. PICK a \in Answers : Respond(p, a)
  BY AnswersKnown DEF GetUserByMiner
<1>2. ~tx[p].open /\ Read
  BY Starting DEF GetUserByMiner
<1>3. QED BY <1>1, <1>2, ReadInv

LEMMA RegisterSignerInv ==
  ASSUME IInv, NEW p \in Req, NEW s \in Signer, NEW u \in User, RegisterSigner(p, s, u)
  PROVE  IInv'
<1>1. PICK r : r = [Idle EXCEPT !.pc = "RegisterSigner", !.user = u, !.addr = s]
  OBVIOUS
<1>2. ReqForm(r) /\ r.pc = "RegisterSigner" /\ r.user = u /\ r.addr = s /\ r.res \in Answers
  BY <1>1 DEF ReqForm, Idle, Answers
<1>3. /\ ~tx[p].open
      /\ \/ Read /\ Respond(p, "error")
         \/ ~Absent(UserKey(u)) /\ OpenTx(p) /\ Goto(p, r)
  BY <1>1, Starting DEF RegisterSigner, UserExists
<1>4. ASSUME ~Absent(UserKey(u)), OpenTx(p), Goto(p, r) PROVE IInv'
  <2>1. req'[p] = r /\ row' = row
    BY <1>3, <1>4, Moved, OpenTxStep
  <2>2. RequestInv(p)'
    BY <1>2, <1>4, <2>1 DEF RequestInv, At, Deleting, Absent
  <2>3. r.pc \in InTx
    BY <1>2 DEF InTx
  <2>4. QED BY <1>2, <1>3, <1>4, <2>2, <2>3, OpenInv
<1>5. QED BY <1>3, <1>4, ReadInv, AnswersKnown

LEMMA RegisterSignerCommitInv ==
  ASSUME IInv, NEW p \in Req, RegisterSignerCommit(p)
  PROVE  IInv'
<1>1. PICK s : s = req[p].addr
  OBVIOUS
<1>2. PICK u : u = req[p].user
  OBVIOUS
<1>3. /\ req[p].pc = "RegisterSigner"
      /\ LastStatement(p, {SignerKey(s, u)}, One(SignerKey(s, u), [deleted |-> FALSE]))
      /\ Respond(p, "ok")
  BY <1>1, <1>2 DEF RegisterSignerCommit, At
<1>4. s \in Signer /\ u \in User /\ ~Absent(UserKey(u))
  BY <1>1, <1>2, <1>3, InvParts DEF RequestInv, At
<1>5. /\ Free(p, {SignerKey(s, u)}) /\ tx' = [tx EXCEPT ![p] = NoTx]
      /\ row' = Merge(row, One(SignerKey(s, u), [deleted |-> FALSE]))
  BY <1>3 DEF LastStatement
<1>6. RowStep(p)
  BY <1>4, <1>5, InvParts, PutSignerRow
<1>7. QED BY <1>3, <1>5, <1>6, EndInv, AnswersKnown

LEMMA UnregisterSignerInv ==
  ASSUME IInv, NEW p \in Req, NEW s \in Signer, NEW u \in User, UnregisterSigner(p, s, u)
  PROVE  IInv'
<1>1. PICK ks \in SUBSET SignerKeys : ks = {SignerKey(s, u)}
  BY Keys
<1>2. /\ ~tx[p].open /\ Free(p, ks) /\ tx' = tx /\ Respond(p, "ok")
      /\ row' = Merge(row, Marked(ks))
  BY <1>1, Starting DEF UnregisterSigner, Statement
<1>3. RowStep(p)
  BY <1>2, InvParts, MarkSignerRows
<1>4. QED BY <1>2, <1>3, EndInv, AnswersKnown

LEMMA DelSignerInv ==
  ASSUME IInv, NEW p \in Req, NEW s \in Signer, DelSigner(p, s)
  PROVE  IInv'
<1>1. PICK ks \in SUBSET SignerKeys : ks = {SignerKey(s, u) : u \in User}
  BY Keys
<1>2. /\ ~tx[p].open /\ Free(p, ks) /\ tx' = tx
      /\ row' = Merge(row, Marked(ks))
  BY <1>1, Starting DEF DelSigner, Statement
<1>3. PICK a \in Answers : Respond(p, a)
  BY AnswersKnown DEF DelSigner
<1>4. RowStep(p)
  BY <1>2, InvParts, MarkSignerRows
<1>5. QED BY <1>2, <1>3, <1>4, EndInv

LEMMA GetUserBySignerInv ==
  ASSUME IInv, NEW p \in Req, NEW s \in Signer, GetUserBySigner(p, s)
  PROVE  IInv'
<1>1. PICK a \in Answers : Respond(p, a)
  BY AnswersKnown DEF GetUserBySigner
<1>2. ~tx[p].open /\ Read
  BY Starting DEF GetUserBySigner
<1>3. QED BY <1>1, <1>2, ReadInv

-----------------------------------------------------------------------------
(* Tokens and rate limits *)

LEMMA GenerateTokenInv ==
  ASSUME IInv, NEW p \in Req, NEW t \in Token, NEW u \in User, NEW perm \in Perm,
         GenerateToken(p, t, u, perm)
  PROVE  IInv'
<1>1. PICK v : v = [name |-> u, perm |-> perm, deleted |-> FALSE]
  OBVIOUS
<1>2. v \in TokenRec /\ v.name = u /\ ~v.deleted
  BY <1>1 DEF TokenRec
<1>3. PICK r : r = [Idle EXCEPT !.pc = "PutToken", !.addr = t, !.rec = v]
  OBVIOUS
<1>4. ReqForm(r) /\ r.pc = "PutToken" /\ r.addr = t /\ r.rec = v
  BY <1>3 DEF ReqForm, Idle
<1>5. ~tx[p].open /\ Read /\ (Respond(p, "error") \/ (Live(UserKey(u)) /\ Goto(p, r)))
  BY <1>1, <1>3, Starting DEF GenerateToken
<1>6. ASSUME Live(UserKey(u)), Goto(p, r) PROVE IInv'
  <2>1. req'[p] = r /\ row' = row /\ ~Absent(UserKey(u))
    BY <1>5, <1>6, Moved DEF Read, Live, Absent
  <2>2. RequestInv(p)'
    BY <1>2, <1>4, <2>1 DEF RequestInv, At, Deleting, Absent
  <2>3. r.pc \notin InTx
    BY <1>4 DEF InTx, Deleting
  <2>4. QED BY <1>4, <1>5, <1>6, <2>2, <2>3, GoInv
<1>7. QED BY <1>5, <1>6, ReadInv, AnswersKnown

LEMMA PutTokenInv == ASSUME IInv, NEW p \in Req, PutToken(p) PROVE IInv'
<1>1. PICK t : t = req[p].addr
  OBVIOUS
<1>2. PICK v : v = req[p].rec
  OBVIOUS
<1>3. At(p, "PutToken") /\ RequestInv(p) /\ ~tx[p].open
  BY IdleIsClosed, InvParts DEF PutToken, At, InTx, Deleting
<1>4. t \in Token /\ v \in TokenRec /\ ~Absent(UserKey(v.name))
  BY <1>1, <1>2, <1>3 DEF RequestInv
<1>5. \/ Read /\ Respond(p, "error")
      \/ Statement(p, {TokenKey(t)}, One(TokenKey(t), v)) /\ Respond(p, "ok")
  BY <1>1, <1>2 DEF PutToken, Create
<1>6. ASSUME Statement(p, {TokenKey(t)}, One(TokenKey(t), v)), Respond(p, "ok")
      PROVE  IInv'
  <2>1. row' = Merge(row, One(TokenKey(t), v)) /\ tx' = tx
    BY <1>6 DEF Statement
  <2>2. RowStep(p)
    BY <1>4, <2>1, InvParts, PutTokenRow
  <2>3. QED BY <1>3, <1>6, <2>1, <2>2, EndInv, AnswersKnown
<1>7. QED BY <1>3, <1>5, <1>6, ReadInv, AnswersKnown

\* The record of a token that is about to be marked.
LEMMA MarkTokenGo ==
  ASSUME IInv, NEW p \in Req, ~tx[p].open, Read, NEW t \in Token, ~Absent(TokenKey(t)),
         NEW d \in BOOLEAN, NEW r, r = [Idle EXCEPT !.pc = "MarkToken", !.addr = t, !.rec = d],
         Goto(p, r)
  PROVE  IInv'
<1>1. ReqForm(r) /\ r.pc = "MarkToken" /\ r.addr = t /\ r.rec = d
  BY DEF ReqForm, Idle
<1>2. req'[p] = r /\ row' = row
  BY Moved DEF Read
<1>3. RequestInv(p)'
  BY <1>1, <1>2 DEF RequestInv, At, Deleting, Absent
<1>4. r.pc \notin InTx
  BY <1>1 DEF InTx, Deleting
<1>5. QED BY <1>1, <1>3, <1>4, GoInv

LEMMA RemoveTokenInv ==
  ASSUME IInv, NEW p \in Req, NEW t \in Token, RemoveToken(p, t)
  PROVE  IInv'
<1>1. PICK d \in BOOLEAN : d = TRUE
  OBVIOUS
<1>2. PICK r : r = [Idle EXCEPT !.pc = "MarkToken", !.addr = t, !.rec = d]
  OBVIOUS
<1>3. ~tx[p].open /\ Read /\ (Respond(p, "error") \/ (Live(TokenKey(t)) /\ Goto(p, r)))
  BY <1>1, <1>2, Starting DEF RemoveToken
<1>4. ASSUME Live(TokenKey(t)), Goto(p, r) PROVE IInv'
  <2>1. ~Absent(TokenKey(t))
    BY <1>4 DEF Live, Absent
  <2>2. QED BY <1>2, <1>3, <1>4, <2>1, MarkTokenGo
<1>5. QED BY <1>3, <1>4, ReadInv, AnswersKnown

LEMMA RecoverTokenInv ==
  ASSUME IInv, NEW p \in Req, NEW t \in Token, RecoverToken(p, t)
  PROVE  IInv'
<1>1. PICK d \in BOOLEAN : d = FALSE
  OBVIOUS
<1>2. PICK r : r = [Idle EXCEPT !.pc = "MarkToken", !.addr = t, !.rec = d]
  OBVIOUS
<1>3. ~tx[p].open /\ Read /\ (Respond(p, "error") \/ (~Absent(TokenKey(t)) /\ Goto(p, r)))
  BY <1>1, <1>2, Starting DEF RecoverToken
<1>4. ASSUME ~Absent(TokenKey(t)), Goto(p, r) PROVE IInv'
  BY <1>2, <1>3, <1>4, MarkTokenGo
<1>5. QED BY <1>3, <1>4, ReadInv, AnswersKnown

\* What MarkToken writes: the row as it is now, with the mark it decided on.
LEMMA MarkTokenStep ==
  ASSUME IInv, NEW p \in Req, MarkToken(p)
  PROVE  \E t \in Token, d \in BOOLEAN, v \in TokenRec :
           /\ ~Absent(TokenKey(t)) /\ row' = Merge(row, One(TokenKey(t), v)) /\ tx' = tx
           /\ v = [name |-> row[TokenKey(t)].name, perm |-> row[TokenKey(t)].perm, deleted |-> d]
           /\ v.name = row[TokenKey(t)].name /\ ~Absent(UserKey(v.name))
<1>1. PICK t : t = req[p].addr
  OBVIOUS
<1>2. PICK d : d = req[p].rec
  OBVIOUS
<1>3. PICK x : x = row[TokenKey(t)]
  OBVIOUS
<1>4. PICK v : v = [x EXCEPT !.deleted = d]
  OBVIOUS
<1>5. t \in Token /\ d \in BOOLEAN /\ ~Absent(TokenKey(t))
  BY <1>1, <1>2, InvParts DEF MarkToken, RequestInv
<1>6. x \in TokenRec /\ ~Absent(UserKey(x.name))
  BY <1>3, <1>5, InvParts DEF RowOK, OwnersKnown, Absent
<1>7. v = [name |-> x.name, perm |-> x.perm, deleted |-> d] /\ v \in TokenRec
  BY <1>4, <1>5, <1>6 DEF TokenRec
<1>8. v.name = x.name
  BY <1>7
<1>9. row' = Merge(row, One(TokenKey(t), v)) /\ tx' = tx
  BY <1>1, <1>2, <1>3, <1>4 DEF MarkToken, Statement
<1>10. /\ ~Absent(TokenKey(t)) /\ row' = Merge(row, One(TokenKey(t), v)) /\ tx' = tx
       /\ v = [name |-> row[TokenKey(t)].name, perm |-> row[TokenKey(t)].perm, deleted |-> d]
       /\ v.name = row[TokenKey(t)].name /\ ~Absent(UserKey(v.name))
  BY <1>3, <1>5, <1>6, <1>7, <1>8, <1>9
<1>11. QED BY <1>5, <1>7, <1>10

LEMMA MarkTokenInv == ASSUME IInv, NEW p \in Req, MarkToken(p) PROVE IInv'
<1>1. PICK t \in Token, v \in TokenRec :
        row' = Merge(row, One(TokenKey(t), v)) /\ tx' = tx /\ ~Absent(UserKey(v.name))
  BY MarkTokenStep
<1>2. RowStep(p)
  BY <1>1, InvParts, PutTokenRow
<1>3. ~tx[p].open /\ Respond(p, "ok")
  BY IdleIsClosed DEF MarkToken, At, InTx, Deleting
<1>4. QED BY <1>1, <1>2, <1>3, EndInv, AnswersKnown

\* A statement that writes one rate limit, or takes it away.
LEMMA LimitInv ==
  ASSUME IInv, NEW p \in Req, ~tx[p].open, NEW l \in Limit, NEW v \in LimitRec \cup {Nil},
         row' = Merge(row, One(LimitKey(l), v)), tx' = tx, Respond(p, "ok")
  PROVE  IInv'
<1>1. RowStep(p)
  BY InvParts, LimitRow
<1>2. QED BY <1>1, EndInv, AnswersKnown

\* A request that is to look for, or to insert, a rate limit.
LEMMA LimitGo ==
  ASSUME IInv, NEW p \in Req, ~tx[p].open, Read, NEW r, ReqForm(r), Goto(p, r),
         r.pc \in {"FindLimit", "InsertLimit"}, r.addr \in Limit, r.rec \in LimitRec
  PROVE  IInv'
<1>1. RequestInv(p)'
  BY Moved DEF RequestInv, At, Deleting
<1>2. r.pc \notin InTx
  BY DEF InTx, Deleting
<1>3. QED BY <1>1, <1>2, GoInv

LEMMA PutRateLimitInv ==
  ASSUME IInv, NEW p \in Req, NEW l \in Limit, NEW v \in LimitRec, PutRateLimit(p, l, v)
  PROVE  IInv'
<1>1. PICK r : r = [Idle EXCEPT !.pc = "FindLimit", !.addr = l, !.rec = v]
  OBVIOUS
<1>2. ReqForm(r) /\ r.pc = "FindLimit" /\ r.addr = l /\ r.rec = v
  BY <1>1 DEF ReqForm, Idle
<1>3. /\ ~tx[p].open
      /\ \/ row' = Merge(row, One(LimitKey(l), v)) /\ tx' = tx /\ Respond(p, "ok")
         \/ Read /\ Goto(p, r)
  BY <1>1, Starting DEF PutRateLimit, Statement
<1>4. QED BY <1>2, <1>3, LimitInv, LimitGo

LEMMA FindLimitInv == ASSUME IInv, NEW p \in Req, FindLimit(p) PROVE IInv'
<1>1. PICK n : n = req[p]
  OBVIOUS
<1>2. PICK r : r = [n EXCEPT !.pc = "InsertLimit"]
  OBVIOUS
<1>3. n = [pc |-> n.pc, user |-> n.user, addr |-> n.addr, rec |-> n.rec, res |-> n.res,
           list |-> n.list, todo |-> n.todo]
  BY <1>1, InvParts DEF ReqForm
<1>4. r = [pc |-> "InsertLimit", user |-> n.user, addr |-> n.addr, rec |-> n.rec,
           res |-> n.res, list |-> n.list, todo |-> n.todo]
  BY <1>2, <1>3
<1>5. ReqForm(r) /\ r.pc = "InsertLimit" /\ r.addr = n.addr /\ r.rec = n.rec
  BY <1>4 DEF ReqForm
<1>6. n.addr \in Limit /\ n.rec \in LimitRec /\ ~tx[p].open
  BY <1>1, IdleIsClosed, InvParts DEF FindLimit, At, RequestInv, InTx, Deleting
<1>7. Read /\ (Respond(p, "ok") \/ Goto(p, r))
  BY <1>1, <1>2 DEF FindLimit
<1>8. QED BY <1>5, <1>6, <1>7, LimitGo, ReadInv, AnswersKnown

LEMMA InsertLimitInv == ASSUME IInv, NEW p \in Req, InsertLimit(p) PROVE IInv'
<1>1. PICK l : l = req[p].addr
  OBVIOUS
<1>2. PICK v : v = req[p].rec
  OBVIOUS
<1>3. l \in Limit /\ v \in LimitRec /\ ~tx[p].open
  BY <1>1, <1>2, IdleIsClosed, InvParts DEF InsertLimit, At, RequestInv, InTx, Deleting
<1>4. \/ Read /\ Respond(p, "error")
      \/ row' = Merge(row, One(LimitKey(l), v)) /\ tx' = tx /\ Respond(p, "ok")
  BY <1>1, <1>2 DEF InsertLimit, Create, Statement
<1>5. QED BY <1>3, <1>4, LimitInv, ReadInv, AnswersKnown

LEMMA DelRateLimitInv ==
  ASSUME IInv, NEW p \in Req, NEW l \in Limit, NEW u \in User, DelRateLimit(p, l, u)
  PROVE  IInv'
<1>1. /\ ~tx[p].open /\ tx' = tx /\ Respond(p, "ok")
      /\ row' = Merge(row, One(LimitKey(l), Nil)) \/ row' = Merge(row, NoWrites)
  BY Starting DEF DelRateLimit, Statement
<1>2. ASSUME row' = Merge(row, NoWrites) PROVE IInv'
  <2>1. DOMAIN row = Key
    BY InvParts DEF RowOK
  <2>2. DOMAIN row' = Key /\ \A k \in Key : row'[k] = row[k]
    BY <1>2, <2>1 DEF Merge, NoWrites
  <2>3. RowStep(p)
    BY <2>2, InvParts, SameRows
  <2>4. QED BY <1>1, <2>3, EndInv, AnswersKnown
<1>3. QED BY <1>1, <1>2, LimitInv

-----------------------------------------------------------------------------
(* The inductive invariant *)

LEMMA InitInv == Init => IInv
<1> SUFFICES ASSUME Init PROVE IInv
  OBVIOUS
<1>1. /\ row = [k \in Key |-> Nil] /\ tx = [p \in Req |-> NoTx]
      /\ req = [p \in Req |-> Idle] /\ out = Silent
  BY DEF Init
<1>2. RowOK
  BY <1>1, Keys DEF RowOK
<1>3. TypeOK
  <2>1. \A p \in Req : ~tx[p].open /\ tx[p] = NoTx /\ tx[p].locks = {} /\ req[p].pc = "idle"
    BY <1>1, NoTxForm, IdleForm
  <2>2. "none" \in Answers
    BY DEF Answers
  <2>3. out \in [Req -> Answers]
    BY <1>1, <2>2 DEF Silent
  <2>4. QED BY <1>2, <2>1, <2>3 DEF TypeOK, Free, Deleting
<1>4. \A p \in Req : ReqForm(req[p]) /\ TxForm(tx[p]) /\ req[p].pc = "idle"
  BY <1>1, NoTxForm, IdleForm
<1>5. /\ tx = [p \in Req |-> [open |-> tx[p].open, locks |-> tx[p].locks,
                              writes |-> tx[p].writes]]
      /\ req = [p \in Req |-> [pc |-> req[p].pc, user |-> req[p].user, addr |-> req[p].addr,
                               rec |-> req[p].rec, res |-> req[p].res, list |-> req[p].list,
                               todo |-> req[p].todo]]
  BY <1>1, <1>4 DEF ReqForm, TxForm
<1>6. \A p \in Req : RequestInv(p)
  BY <1>4 DEF RequestInv, At, Deleting
<1>7. OwnersKnown
  BY <1>1, Keys DEF OwnersKnown, Absent
<1>8. QED BY <1>3, <1>5, <1>6, <1>7 DEF IInv

LEMMA CallInv ==
  ASSUME IInv, NEW p \in Req, Call(p)
  PROVE  IInv'
<1>1. ASSUME NEW u \in User,
             CreateUser(p, u) \/ UpdateUser(p, u) \/ RecoverUser(p, u) \/ DeleteUser(p, u)
      PROVE  IInv'
  BY <1>1, CreateUserInv, UpdateUserInv, RecoverUserInv, DeleteUserInv
<1>2. ASSUME NEW m \in Miner,
             \/ DelMiner(p, m) \/ GetUserByMiner(p, m)
             \/ \E u \in User : UpsertMiner(p, m, u)
      PROVE  IInv'
  BY <1>2, DelMinerInv, GetUserByMinerInv, UpsertMinerInv
<1>3. ASSUME NEW s \in Signer,
             \/ DelSigner(p, s) \/ GetUserBySigner(p, s)
             \/ \E u \in User : RegisterSigner(p, s, u) \/ UnregisterSigner(p, s, u)
      PROVE  IInv'
  BY <1>3, DelSignerInv, GetUserBySignerInv, RegisterSignerInv, UnregisterSignerInv
<1>4. ASSUME NEW t \in Token,
             \/ RemoveToken(p, t) \/ RecoverToken(p, t)
             \/ \E u \in User, perm \in Perm : GenerateToken(p, t, u, perm)
      PROVE  IInv'
  BY <1>4, RemoveTokenInv, RecoverTokenInv, GenerateTokenInv
<1>5. ASSUME NEW l \in Limit,
             \/ \E r \in LimitRec : PutRateLimit(p, l, r)
             \/ \E u \in User : DelRateLimit(p, l, u)
      PROVE  IInv'
  BY <1>5, PutRateLimitInv, DelRateLimitInv
<1>6. QED BY <1>1, <1>2, <1>3, <1>4, <1>5 DEF Call

LEMMA StepsInv ==
  ASSUME IInv, NEW p \in Req, Step(p)
  PROVE  IInv'
BY PutUserInv, SaveUserInv, DeleteUserMinerInv, DeleteUserSignersInv, DeleteUserSaveInv,
   DeleteUserCommitInv, UpsertMinerCommitInv, RegisterSignerCommitInv, PutTokenInv,
   MarkTokenInv, FindLimitInv, InsertLimitInv DEF Step

LEMMA StutterInv == ASSUME IInv, UNCHANGED vars PROVE IInv'
<1>1. row' = row /\ tx' = tx /\ req' = req /\ out' = out
  BY DEF vars
<1>2. TypeOK' /\ OwnersKnown'
  BY <1>1 DEF IInv, TypeOK, RowOK, OwnersKnown, Absent, Free
<1>3. \A p \in Req : RequestInv(p)'
  <2> TAKE p \in Req
  <2>1. DeletionInv(p)' <=> DeletionInv(p)
    BY <1>1 DEF DeletionInv, At, Absent
  <2>2. RequestInv(p)
    BY InvParts
  <2>3. QED BY <1>1, <2>1, <2>2 DEF RequestInv, At, Absent
<1>4. QED BY <1>1, <1>2, <1>3 DEF IInv

\* What every step of the store keeps.
LEMMA NextInv == IInv /\ [Next]_vars => IInv'
BY CallInv, StepsInv, FailInv, StutterInv DEF Next

\* From the first table on, whichever operations clients call together: locks
\* are held by open transactions alone and never by two, no stored token or
\* binding is without its user, and a pending deletion stays complete.
THEOREM Inductive == Spec => []IInv
BY InitInv, NextInv, PTL DEF Spec

\* Every row has the columns of its table.
THEOREM Typing == Spec => []TypeOK
<1>1. IInv => TypeOK
  BY DEF IInv
<1>2. QED BY <1>1, Inductive, PTL

-----------------------------------------------------------------------------
(* The effects of the actions *)

RowsStay == DOMAIN row' = Key /\ \A k \in Key : row'[k] = row[k]

PutsUser(u, v) == /\ v \in UserRec /\ ~v.deleted
                  /\ ~Absent(UserKey(u)) => v.id = row[UserKey(u)].id
                  /\ row' = Merge(row, One(UserKey(u), v))

BindsMiner(p, m, u) == /\ ~Absent(UserKey(u)) /\ Free(p, {MinerKey(m)})
                       /\ row' = Merge(row, One(MinerKey(m), [user |-> u, deleted |-> FALSE]))

MarksMiner(p, m) == Free(p, {MinerKey(m)}) /\ row' = Merge(row, Marked({MinerKey(m)}))

BindsSigner(p, s, u) == /\ ~Absent(UserKey(u)) /\ Free(p, {SignerKey(s, u)})
                        /\ row' = Merge(row, One(SignerKey(s, u), [deleted |-> FALSE]))

MarksSigner(p, s, u) == /\ Free(p, {SignerKey(s, u)})
                        /\ row' = Merge(row, Marked({SignerKey(s, u)}))

PutsToken(t, v) == /\ v \in TokenRec /\ ~Absent(UserKey(v.name))
                   /\ Absent(TokenKey(t)) => ~v.deleted
                   /\ ~Absent(TokenKey(t)) => /\ v.name = row[TokenKey(t)].name
                                              /\ v.perm = row[TokenKey(t)].perm
                   /\ row' = Merge(row, One(TokenKey(t), v))

Effect(p) ==
  \/ RowsStay
  \/ \E u \in User, v \in UserRec : PutsUser(u, v)
  \/ \E m \in Miner, u \in User : BindsMiner(p, m, u)
  \/ \E m \in Miner : MarksMiner(p, m)
  \/ \E s \in Signer, u \in User : BindsSigner(p, s, u) \/ MarksSigner(p, s, u)
  \/ \E t \in Token, v \in TokenRec : PutsToken(t, v)
  \/ \E l \in Limit, v \in LimitRec \cup {Nil} : row' = Merge(row, One(LimitKey(l), v))
  \/ \E s \in Signer : DelSigner(p, s)
  \/ DeleteUserCommit(p)

LEMMA NoEffect == ASSUME IInv, NEW p, row' = row PROVE Effect(p)
<1>1. DOMAIN row = Key
  BY InvParts DEF RowOK
<1>2. QED BY <1>1 DEF Effect, RowsStay

LEMMA PutUserEffect == ASSUME IInv, NEW p \in Req, PutUser(p) PROVE Effect(p)
<1>1. PICK u : u = req[p].user
  OBVIOUS
<1>2. PICK v : v = [id |-> p, deleted |-> FALSE]
  OBVIOUS
<1>3. u \in User /\ v \in UserRec /\ ~v.deleted
  BY <1>1, <1>2, InvParts DEF PutUser, RequestInv, UserRec
<1>4. row' = row \/ (Absent(UserKey(u)) /\ row' = Merge(row, One(UserKey(u), v)))
  BY <1>1, <1>2 DEF PutUser, Create, Read, Statement
<1>5. QED BY <1>3, <1>4, NoEffect DEF Effect, PutsUser

LEMMA SaveUserEffect == ASSUME IInv, NEW p \in Req, SaveUser(p) PROVE Effect(p)
<1>1. PICK u : u = req[p].user
  OBVIOUS
<1>2. PICK v : v = req[p].rec
  OBVIOUS
<1>3. u \in User /\ ~Absent(UserKey(u)) /\ v = [id |-> row[UserKey(u)].id, deleted |-> FALSE]
  BY <1>1, <1>2, InvParts DEF SaveUser, RequestInv
<1>4. PICK i \in Req : i = row[UserKey(u)].id
  BY <1>3, InvParts, UserRow
<1>5. v \in UserRec /\ ~v.deleted /\ v.id = i
  BY <1>3, <1>4 DEF UserRec
<1>6. row' = Merge(row, One(UserKey(u), v))
  BY <1>1, <1>2 DEF SaveUser, Statement
<1>7. QED BY <1>3, <1>4, <1>5, <1>6 DEF Effect, PutsUser

LEMMA BindEffect ==
  ASSUME IInv, NEW p \in Req, UpsertMinerCommit(p) \/ RegisterSignerCommit(p)
  PROVE  Effect(p)
<1>1. PICK a : a = req[p].addr
  OBVIOUS
<1>2. PICK u : u = req[p].user
  OBVIOUS
<1>3. CASE UpsertMinerCommit(p)
  <2>1. a \in Miner /\ u \in User /\ ~Absent(UserKey(u))
    BY <1>1, <1>2, <1>3, InvParts DEF UpsertMinerCommit, RequestInv, At
  <2>2. /\ Free(p, {MinerKey(a)})
        /\ row' = Merge(row, One(MinerKey(a), [user |-> u, deleted |-> FALSE]))
    BY <1>1, <1>2, <1>3 DEF UpsertMinerCommit, LastStatement
  <2>3. QED BY <2>1, <2>2 DEF Effect, BindsMiner
<1>4. CASE RegisterSignerCommit(p)
  <2>1. a \in Signer /\ u \in User /\ ~Absent(UserKey(u))
    BY <1>1, <1>2, <1>4, InvParts DEF RegisterSignerCommit, RequestInv, At
  <2>2. /\ Free(p, {SignerKey(a, u)})
        /\ row' = Merge(row, One(SignerKey(a, u), [deleted |-> FALSE]))
    BY <1>1, <1>2, <1>4 DEF RegisterSignerCommit, LastStatement
  <2>3. QED BY <2>1, <2>2 DEF Effect, BindsSigner
<1>5. QED BY <1>3, <1>4

LEMMA PutTokenEffect == ASSUME IInv, NEW p \in Req, PutToken(p) PROVE Effect(p)
<1>1. PICK t : t = req[p].addr
  OBVIOUS
<1>2. PICK v : v = req[p].rec
  OBVIOUS
<1>3. t \in Token /\ v \in TokenRec /\ ~v.deleted /\ ~Absent(UserKey(v.name))
  BY <1>1, <1>2, InvParts DEF PutToken, RequestInv
<1>4. row' = row \/ (Absent(TokenKey(t)) /\ row' = Merge(row, One(TokenKey(t), v)))
  BY <1>1, <1>2 DEF PutToken, Create, Read, Statement
<1>5. QED BY <1>3, <1>4, NoEffect DEF Effect, PutsToken

LEMMA MarkTokenEffect == ASSUME IInv, NEW p \in Req, MarkToken(p) PROVE Effect(p)
<1>1. PICK t \in Token, d \in BOOLEAN, v \in TokenRec :
        /\ ~Absent(TokenKey(t)) /\ row' = Merge(row, One(TokenKey(t), v))
        /\ v = [name |-> row[TokenKey(t)].name, perm |-> row[TokenKey(t)].perm, deleted |-> d]
        /\ ~Absent(UserKey(v.name))
  BY MarkTokenStep
<1>2. v.name = row[TokenKey(t)].name /\ v.perm = row[TokenKey(t)].perm
  BY <1>1
<1>3. QED BY <1>1, <1>2 DEF Effect, PutsToken

LEMMA LimitEffect ==
  ASSUME IInv, NEW p \in Req,
         \/ \E l \in Limit, v \in LimitRec : PutRateLimit(p, l, v)
         \/ \E l \in Limit, u \in User : DelRateLimit(p, l, u)
         \/ FindLimit(p) \/ InsertLimit(p)
  PROVE  Effect(p)
<1>1. ASSUME NEW l \in Limit, NEW v \in LimitRec, PutRateLimit(p, l, v) PROVE Effect(p)
  <2>1. row' = row \/ row' = Merge(row, One(LimitKey(l), v))
    BY <1>1 DEF PutRateLimit, Statement, Read
  <2>2. QED BY <2>1, NoEffect DEF Effect
<1>2. ASSUME NEW l \in Limit, NEW u \in User, DelRateLimit(p, l, u) PROVE Effect(p)
  <2>1. row' = Merge(row, One(LimitKey(l), Nil)) \/ row' = Merge(row, NoWrites)
    BY <1>2 DEF DelRateLimit, Statement
  <2>2. Nil \in LimitRec \cup {Nil}
    OBVIOUS
  <2>3. ASSUME row' = Merge(row, NoWrites) PROVE RowsStay
    <3>1. DOMAIN row = Key
      BY InvParts DEF RowOK
    <3>2. QED BY <2>3, <3>1 DEF Merge, NoWrites, RowsStay
  <2>4. QED BY <2>1, <2>2, <2>3 DEF Effect
<1>3. CASE FindLimit(p)
  BY <1>3, NoEffect DEF FindLimit, Read
<1>4. CASE InsertLimit(p)
  <2>1. PICK l : l = req[p].addr
    OBVIOUS
  <2>2. PICK v : v = req[p].rec
    OBVIOUS
  <2>3. l \in Limit /\ v \in LimitRec
    BY <1>4, <2>1, <2>2, InvParts DEF InsertLimit, RequestInv, At
  <2>4. row' = row \/ row' = Merge(row, One(LimitKey(l), v))
    BY <1>4, <2>1, <2>2 DEF InsertLimit, Create, Read, Statement
  <2>5. QED BY <2>3, <2>4, NoEffect DEF Effect
<1>5. QED BY <1>1, <1>2, <1>3, <1>4

LEMMA CallEffect ==
  ASSUME IInv, NEW p \in Req, Call(p)
  PROVE  Effect(p)
<1>1. ASSUME NEW u \in User,
             CreateUser(p, u) \/ UpdateUser(p, u) \/ RecoverUser(p, u) \/ DeleteUser(p, u)
      PROVE  Effect(p)
  BY <1>1, NoEffect DEF CreateUser, UpdateUser, RecoverUser, DeleteUser, Read, OpenTx
<1>2. ASSUME NEW m \in Miner,
             \/ DelMiner(p, m) \/ GetUserByMiner(p, m)
             \/ \E u \in User : UpsertMiner(p, m, u)
      PROVE  Effect(p)
  <2>1. CASE DelMiner(p, m)
    BY <2>1 DEF DelMiner, Statement, MarksMiner, Effect
  <2>2. CASE GetUserByMiner(p, m) \/ \E u \in User : UpsertMiner(p, m, u)
    BY <2>2, NoEffect DEF GetUserByMiner, UpsertMiner, Read, OpenTx
  <2>3. QED BY <1>2, <2>1, <2>2
<1>3. ASSUME NEW s \in Signer,
             \/ DelSigner(p, s) \/ GetUserBySigner(p, s)
             \/ \E u \in User : RegisterSigner(p, s, u) \/ UnregisterSigner(p, s, u)
      PROVE  Effect(p)
  <2>1. CASE DelSigner(p, s)
    BY <2>1 DEF Effect
  <2>2. CASE GetUserBySigner(p, s) \/ \E u \in User : RegisterSigner(p, s, u)
    BY <2>2, NoEffect DEF GetUserBySigner, RegisterSigner, Read, OpenTx
  <2>3. ASSUME NEW u \in User, UnregisterSigner(p, s, u) PROVE Effect(p)
    <3>1. MarksSigner(p, s, u)
      BY <2>3 DEF UnregisterSigner, Statement, MarksSigner
    <3>2. QED BY <3>1 DEF Effect
  <2>4. QED BY <1>3, <2>1, <2>2, <2>3
<1>4. ASSUME NEW t \in Token,
             \/ RemoveToken(p, t) \/ RecoverToken(p, t)
             \/ \E u \in User, perm \in Perm : GenerateToken(p, t, u, perm)
      PROVE  Effect(p)
  BY <1>4, NoEffect DEF RemoveToken, RecoverToken, GenerateToken, Read
<1>5. ASSUME NEW l \in Limit,
             \/ \E r \in LimitRec : PutRateLimit(p, l, r)
             \/ \E u \in User : DelRateLimit(p, l, u)
      PROVE  Effect(p)
  BY <1>5, LimitEffect
<1>6. QED BY <1>1, <1>2, <1>3, <1>4, <1>5 DEF Call

LEMMA StepsEffect ==
  ASSUME IInv, NEW p \in Req, Step(p)
  PROVE  Effect(p)
<1>1. ASSUME \/ \E m \in Miner : DeleteUserMiner(p, m)
             \/ DeleteUserSigners(p) \/ DeleteUserSave(p)
      PROVE  Effect(p)
  BY <1>1, NoEffect DEF DeleteUserMiner, DeleteUserSigners, DeleteUserSave, Locked
<1>2. DeleteUserCommit(p) => Effect(p)
  BY DEF Effect
<1>3. QED
  BY <1>1, <1>2, PutUserEffect, SaveUserEffect, BindEffect, PutTokenEffect, MarkTokenEffect,
     LimitEffect DEF Step

LEMMA NextEffect ==
  ASSUME IInv, Next
  PROVE  \E p \in Req : Effect(p)
<1>1. ASSUME NEW p \in Req, Fail(p) PROVE Effect(p)
  BY <1>1, NoEffect DEF Fail, Rollback
<1>2. QED BY <1>1, CallEffect, StepsEffect DEF Next

\* No statement takes a user, a miner or a token away, or gives a user
\* another id.
LEMMA EffectKeeps ==
  ASSUME IInv, NEW p \in Req, Effect(p)
  PROVE  RowKept
<1>1. CASE RowsStay
  BY <1>1, InvParts, SameRows DEF RowsStay, RowStep
<1>2. ASSUME NEW u \in User, NEW v \in UserRec, PutsUser(u, v) PROVE RowKept
  <2>1. RowStep(p)
    BY <1>2, InvParts, PutUserRow DEF PutsUser
  <2>2. QED BY <2>1 DEF RowStep
<1>3. ASSUME NEW m \in Miner, NEW u \in User, BindsMiner(p, m, u) PROVE RowKept
  <2>1. RowStep(p)
    BY <1>3, InvParts, PutMinerRow DEF BindsMiner
  <2>2. QED BY <2>1 DEF RowStep
<1>4. ASSUME NEW m \in Miner, MarksMiner(p, m) PROVE RowKept
  BY <1>4, InvParts, MarkMinerRow DEF MarksMiner, RowStep
<1>5. ASSUME NEW s \in Signer, NEW u \in User, BindsSigner(p, s, u) PROVE RowKept
  <2>1. RowStep(p)
    BY <1>5, InvParts, PutSignerRow DEF BindsSigner
  <2>2. QED BY <2>1 DEF RowStep
<1>6. ASSUME NEW ks \in SUBSET SignerKeys, Free(p, ks), row' = Merge(row, Marked(ks))
      PROVE  RowKept
  BY <1>6, InvParts, MarkSignerRows DEF RowStep
<1>7. ASSUME NEW s \in Signer, NEW u \in User, MarksSigner(p, s, u) PROVE RowKept
  <2>1. PICK ks \in SUBSET SignerKeys : ks = {SignerKey(s, u)}
    BY Keys
  <2>2. QED BY <1>6, <1>7, <2>1 DEF MarksSigner
<1>8. ASSUME NEW s \in Signer, DelSigner(p, s) PROVE RowKept
  <2>1. PICK ks \in SUBSET SignerKeys : ks = {SignerKey(s, u) : u \in User}
    BY Keys
  <2>2. Free(p, ks) /\ row' = Merge(row, Marked(ks))
    BY <1>8, <2>1 DEF DelSigner, Statement
  <2>3. QED BY <1>6, <2>2
<1>9. ASSUME NEW t \in Token, NEW v \in TokenRec, PutsToken(t, v) PROVE RowKept
  <2>1. RowStep(p)
    BY <1>9, InvParts, PutTokenRow DEF PutsToken
  <2>2. QED BY <2>1 DEF RowStep
<1>10. ASSUME NEW l \in Limit, NEW v \in LimitRec \cup {Nil}, row' = Merge(row, One(LimitKey(l), v))
       PROVE  RowKept
  BY <1>10, InvParts, LimitRow DEF RowStep
<1>11. CASE DeleteUserCommit(p)
  BY <1>11, CommitRows DEF RowStep
<1>12. QED BY <1>1, <1>2, <1>3, <1>4, <1>5, <1>7, <1>8, <1>9, <1>10, <1>11 DEF Effect

\* users_name_IDX: of racing creations of one name one succeeds, and the user
\* keeps the id it was created with.
THEOREM IdentityStays == Spec => IdentityKept
<1>1. ASSUME IInv, [Next]_vars
      PROVE  [\A u \in User :
                ~Absent(UserKey(u)) => /\ ~Absent(UserKey(u))'
                                       /\ row'[UserKey(u)].id = row[UserKey(u)].id]_vars
  BY <1>1, NextEffect, EffectKeeps DEF RowKept
<1>2. QED BY <1>1, Inductive, PTL DEF Spec, IdentityKept

-----------------------------------------------------------------------------
(* DeleteUser as a whole *)

\* Every action ends its request or moves it on.
Turn(p) == (\E a : Respond(p, a)) \/ (\E r : Goto(p, r))

LEMMA CallTurns ==
  ASSUME NEW p \in Req, Call(p)
  PROVE  Turn(p) /\ req[p].pc = "idle"
<1>1. ASSUME NEW u \in User,
             CreateUser(p, u) \/ UpdateUser(p, u) \/ RecoverUser(p, u) \/ DeleteUser(p, u)
      PROVE  Turn(p) /\ req[p].pc = "idle"
  BY <1>1 DEF CreateUser, UpdateUser, RecoverUser, DeleteUser, Starts, Turn
<1>2. ASSUME NEW m \in Miner,
             \/ DelMiner(p, m) \/ GetUserByMiner(p, m)
             \/ \E u \in User : UpsertMiner(p, m, u)
      PROVE  Turn(p) /\ req[p].pc = "idle"
  BY <1>2 DEF DelMiner, GetUserByMiner, UpsertMiner, Starts, Turn
<1>3. ASSUME NEW s \in Signer,
             \/ DelSigner(p, s) \/ GetUserBySigner(p, s)
             \/ \E u \in User : RegisterSigner(p, s, u) \/ UnregisterSigner(p, s, u)
      PROVE  Turn(p) /\ req[p].pc = "idle"
  BY <1>3 DEF DelSigner, GetUserBySigner, RegisterSigner, UnregisterSigner, Starts, Turn
<1>4. ASSUME NEW t \in Token,
             \/ RemoveToken(p, t) \/ RecoverToken(p, t)
             \/ \E u \in User, perm \in Perm : GenerateToken(p, t, u, perm)
      PROVE  Turn(p) /\ req[p].pc = "idle"
  BY <1>4 DEF RemoveToken, RecoverToken, GenerateToken, Starts, Turn
<1>5. ASSUME NEW l \in Limit,
             \/ \E r \in LimitRec : PutRateLimit(p, l, r)
             \/ \E u \in User : DelRateLimit(p, l, u)
      PROVE  Turn(p) /\ req[p].pc = "idle"
  BY <1>5 DEF PutRateLimit, DelRateLimit, Starts, Turn
<1>6. QED BY <1>1, <1>2, <1>3, <1>4, <1>5 DEF Call

LEMMA StepTurns ==
  ASSUME NEW p \in Req, Step(p) \/ Fail(p)
  PROVE  Turn(p)
<1>1. ASSUME PutUser(p) \/ SaveUser(p) \/ PutToken(p) \/ MarkToken(p) PROVE Turn(p)
  BY <1>1 DEF PutUser, SaveUser, PutToken, MarkToken, Create, Turn
<1>2. ASSUME \/ \E m \in Miner : DeleteUserMiner(p, m)
             \/ DeleteUserSigners(p) \/ DeleteUserSave(p) \/ DeleteUserCommit(p)
      PROVE  Turn(p)
  BY <1>2 DEF DeleteUserMiner, DeleteUserSigners, DeleteUserSave, DeleteUserCommit, Turn
<1>3. ASSUME UpsertMinerCommit(p) \/ RegisterSignerCommit(p) \/ FindLimit(p) \/ InsertLimit(p)
      PROVE  Turn(p)
  BY <1>3 DEF UpsertMinerCommit, RegisterSignerCommit, FindLimit, InsertLimit, Create, Turn
<1>4. Fail(p) => Turn(p)
  BY DEF Fail, Turn
<1>5. QED BY <1>1, <1>2, <1>3, <1>4 DEF Step

\* The turn of one request is not noticed by another.
LEMMA OtherTurn ==
  ASSUME IInv, NEW p \in Req, NEW q \in Req, q # p, Turn(q)
  PROVE  req'[p] = req[p] /\ out'[p] = "none"
<1>1. CASE \E a : Respond(q, a)
  BY <1>1, InvParts DEF Respond, Silent
<1>2. CASE \E r : Goto(q, r)
  BY <1>2, InvParts DEF Goto, Silent
<1>3. QED BY <1>1, <1>2 DEF Turn

\* Of its own steps only those of the deletion are left to it.
LEMMA OwnStep ==
  ASSUME IInv, NEW p \in Req, req[p].pc \in Deleting, Call(p) \/ Step(p) \/ Fail(p)
  PROVE  \/ row' = row /\ out'[p] # "ok"
         \/ DeleteUserCommit(p) /\ out'[p] = "ok"
<1>1. ~Call(p)
  BY CallTurns DEF Deleting
<1>2. ASSUME Fail(p) PROVE row' = row /\ out'[p] # "ok"
  BY <1>2 DEF Fail, Rollback, Respond, Silent
<1>3. ASSUME \/ \E m \in Miner : DeleteUserMiner(p, m)
             \/ DeleteUserSigners(p) \/ DeleteUserSave(p)
      PROVE  row' = row /\ out'[p] # "ok"
  <2>1. row' = row /\ \E r : Goto(p, r)
    BY <1>3 DEF DeleteUserMiner, DeleteUserSigners, DeleteUserSave, Locked
  <2>2. QED BY <2>1 DEF Goto, Silent
<1>4. ASSUME DeleteUserCommit(p) PROVE out'[p] = "ok"
  BY <1>4 DEF DeleteUserCommit, Respond, Silent
<1>5. ASSUME PutUser(p) \/ SaveUser(p) \/ PutToken(p) \/ MarkToken(p) PROVE FALSE
  BY <1>5 DEF PutUser, SaveUser, PutToken, MarkToken, At, Deleting
<1>6. ASSUME UpsertMinerCommit(p) \/ RegisterSignerCommit(p) \/ FindLimit(p) \/ InsertLimit(p)
      PROVE  FALSE
  BY <1>6 DEF UpsertMinerCommit, RegisterSignerCommit, FindLimit, InsertLimit, At, Deleting
<1>7. QED BY <1>1, <1>2, <1>3, <1>4, <1>5, <1>6 DEF Step

\* mysql.go:214: until it answers, DeleteUser changes no row; when it answers
\* ok, the user, its signers and the miners it had are gone at once, whatever
\* other requests wrote between its statements.
THEOREM Whole == Spec => DeleteIsWhole
<1>1. ASSUME IInv, Next, NEW p \in Req, NEW u \in User, req[p].pc \in Deleting, u = req[p].user
      PROVE  /\ req'[p] # req[p] /\ out'[p] # "ok" => row' = row
             /\ out'[p] = "ok" => /\ ~Live(UserKey(u))'
                                  /\ \A k \in SignersOf(u) : ~Live(k)'
                                  /\ \A m \in req[p].list : row'[MinerKey(m)].deleted
  <2>1. PICK q \in Req : Call(q) \/ Step(q) \/ Fail(q)
    BY <1>1 DEF Next
  <2>2. CASE q # p
    <3>1. Turn(q)
      BY <2>1, CallTurns, StepTurns
    <3>2. req'[p] = req[p] /\ out'[p] = "none"
      BY <1>1, <2>2, <3>1, OtherTurn
    <3>3. QED BY <3>2
  <2>3. CASE q = p
    <3>1. \/ row' = row /\ out'[p] # "ok"
          \/ DeleteUserCommit(p) /\ out'[p] = "ok"
      BY <1>1, <2>1, <2>3, OwnStep
    <3>2. ASSUME DeleteUserCommit(p)
          PROVE  /\ ~Live(UserKey(u))'
                 /\ \A k \in SignersOf(u) : ~Live(k)'
                 /\ \A m \in req[p].list : row'[MinerKey(m)].deleted
      BY <1>1, <3>2, CommitRows
    <3>3. QED BY <3>1, <3>2
  <2>4. QED BY <2>2, <2>3
<1>2. IInv /\ [Next]_vars =>
        [\A p \in Req, u \in User :
           req[p].pc \in Deleting /\ u = req[p].user =>
             /\ req'[p] # req[p] /\ out'[p] # "ok" => row' = row
             /\ out'[p] = "ok" => /\ ~Live(UserKey(u))'
                                  /\ \A k \in SignersOf(u) : ~Live(k)'
                                  /\ \A m \in req[p].list : row'[MinerKey(m)].deleted]_vars
  BY <1>1
<1>3. QED BY <1>2, Inductive, PTL DEF Spec, DeleteIsWhole

-----------------------------------------------------------------------------
(* What Registry and TokenBook see of a step *)

UsersStay   == \A u \in User : row'[UserKey(u)] = row[UserKey(u)]
MinersStay  == \A m \in Miner : row'[MinerKey(m)] = row[MinerKey(m)]
SignersStay == \A k \in SignerKeys : row'[k] = row[k]
TokensStay  == \A t \in Token : row'[TokenKey(t)] = row[TokenKey(t)]

LEMMA Views ==
  /\ UsersStay => UserState' = UserState /\ Known' = Known
  /\ MinersStay => MinerUser' = MinerUser
  /\ SignersStay => Bindings' = Bindings
  /\ TokensStay => Issued' = Issued
<1>1. UsersStay => UserState' = UserState /\ Known' = Known
  BY DEF UsersStay, UserState, Known, Live, Absent
<1>2. MinersStay => MinerUser' = MinerUser
  BY DEF MinersStay, MinerUser, Live
<1>3. ASSUME SignersStay PROVE Bindings' = Bindings
  <2>1. \A b \in Signer \X User : SignerKey(b[1], b[2]) \in SignerKeys
    BY Keys
  <2>2. \A b \in Signer \X User : Live(SignerKey(b[1], b[2]))' <=> Live(SignerKey(b[1], b[2]))
    BY <1>3, <2>1 DEF SignersStay, Live
  <2>3. QED BY <2>2 DEF Bindings
<1>4. TokensStay => Issued' = Issued
  BY DEF TokensStay, Issued, Live, Absent
<1>5. QED BY <1>1, <1>2, <1>3, <1>4

\* A write to one row is seen in its table only.
LEMMA OneTable ==
  ASSUME NEW k \in Key, \A x \in Key : x # k => row'[x] = row[x]
  PROVE  /\ (\A u : k # UserKey(u)) => UsersStay
         /\ (\A m : k # MinerKey(m)) => MinersStay
         /\ k \notin SignerKeys => SignersStay
         /\ (\A t : k # TokenKey(t)) => TokensStay
BY Keys DEF UsersStay, MinersStay, SignersStay, TokensStay

LEMMA OtherTables ==
  ASSUME NEW ks \in SUBSET SignerKeys, \A x \in Key : x \notin ks => row'[x] = row[x]
  PROVE  UsersStay /\ MinersStay /\ TokensStay
BY Keys, KeysDiffer DEF UsersStay, MinersStay, TokensStay

LEMMA IssuedPut ==
  ASSUME IInv, NEW t \in Token, NEW v \in TokenRec, PutsToken(t, v)
  PROVE  /\ UsersStay /\ MinersStay /\ SignersStay
         /\ Issued' = [Issued EXCEPT ![t] = [name |-> v.name, perm |-> v.perm,
                                             live |-> ~v.deleted]]
<1>1. /\ row'[TokenKey(t)] = v
      /\ \A x \in Key : x # TokenKey(t) => row'[x] = row[x]
  BY InvParts, PutRow, Keys DEF PutsToken, RowOK
<1>2. UsersStay /\ MinersStay /\ SignersStay
  BY <1>1, OneTable, Keys, KeysDiffer
<1>3. ASSUME NEW s \in Token \ {t} PROVE Issued'[s] = Issued[s]
  <2>1. row'[TokenKey(s)] = row[TokenKey(s)]
    BY <1>1, <1>3, Keys, KeysDiffer
  <2>2. QED BY <2>1 DEF Issued, Absent, Live
<1>4. Issued'[t] = [name |-> v.name, perm |-> v.perm, live |-> ~v.deleted]
  <2>1. row'[TokenKey(t)] # Nil
    BY <1>1, NilIsNoRow
  <2>2. Live(TokenKey(t))' = ~v.deleted
    BY <1>1, <2>1 DEF Live, TokenRec
  <2>3. Issued'[t] = [name |-> row'[TokenKey(t)].name, perm |-> row'[TokenKey(t)].perm,
                      live |-> Live(TokenKey(t))']
    BY <2>1 DEF Issued, Absent
  <2>4. QED BY <1>1, <2>2, <2>3
<1>5. DOMAIN Issued' = Token /\ DOMAIN Issued = Token /\ Issued' = [s \in Token |-> Issued'[s]]
      /\ Issued = [s \in Token |-> Issued[s]]
  BY DEF Issued
<1> HIDE DEF Issued
<1>6. QED BY <1>2, <1>3, <1>4, <1>5

LEMMA IssuedEntry ==
  ASSUME IInv, NEW t \in Token
  PROVE  /\ Absent(TokenKey(t)) <=> Issued[t] = Nil
         /\ ~Absent(TokenKey(t)) =>
              Issued[t] = [name |-> row[TokenKey(t)].name, perm |-> row[TokenKey(t)].perm,
                           live |-> Live(TokenKey(t))]
<1>1. Absent(TokenKey(t)) => Issued[t] = Nil
  BY DEF Issued
<1>2. ~Absent(TokenKey(t)) =>
        Issued[t] = [name |-> row[TokenKey(t)].name, perm |-> row[TokenKey(t)].perm,
                     live |-> Live(TokenKey(t))]
  BY DEF Issued
<1>3. ASSUME ~Absent(TokenKey(t)) PROVE Issued[t] # Nil
  <2> DEFINE x == row[TokenKey(t)]
  <2>1. PICK e : e = [name |-> x.name, perm |-> x.perm, live |-> Live(TokenKey(t))]
    OBVIOUS
  <2>2. x \in TokenRec
    BY <1>3, InvParts DEF RowOK, Absent
  <2>3. x.name \in User /\ x.perm \in Perm /\ Live(TokenKey(t)) \in BOOLEAN
    BY <2>2 DEF Live, TokenRec
  <2>4. e \in [name : User, perm : Perm, live : BOOLEAN]
    BY <2>1, <2>3
  <2>5. e # Nil
    BY <2>4, ConstantsOK
  <2>6. QED BY <1>2, <1>3, <2>1, <2>5
<1>4. QED BY <1>1, <1>2, <1>3

\* Which tables each effect leaves alone.
LEMMA UserSeen ==
  ASSUME IInv, NEW u \in User, NEW v \in UserRec, PutsUser(u, v)
  PROVE  /\ MinersStay /\ SignersStay /\ TokensStay
         /\ row'[UserKey(u)] = v /\ v # Nil /\ ~v.deleted
         /\ \A x \in User : x # u => row'[UserKey(x)] = row[UserKey(x)]
<1>1. /\ row'[UserKey(u)] = v
      /\ \A x \in Key : x # UserKey(u) => row'[x] = row[x]
  BY InvParts, PutRow, Keys DEF PutsUser, RowOK
<1>2. MinersStay /\ SignersStay /\ TokensStay
  BY <1>1, OneTable, Keys, KeysDiffer
<1>3. \A x \in User : x # u => row'[UserKey(x)] = row[UserKey(x)]
  BY <1>1, Keys, KeysDiffer
<1>4. v # Nil /\ ~v.deleted
  BY NilIsNoRow DEF PutsUser
<1>5. QED BY <1>1, <1>2, <1>3, <1>4

LEMMA MinerSeen ==
  ASSUME IInv, NEW p \in Req, NEW m \in Miner
  PROVE  /\ \A u \in User : BindsMiner(p, m, u) =>
              /\ row'[MinerKey(m)] = [user |-> u, deleted |-> FALSE]
              /\ \A x \in Key : x # MinerKey(m) => row'[x] = row[x]
         /\ MarksMiner(p, m) =>
              /\ row'[MinerKey(m)] = IF Absent(MinerKey(m)) THEN Nil ELSE Erased(row[MinerKey(m)])
              /\ \A x \in Key : x # MinerKey(m) => row'[x] = row[x]
<1>1. DOMAIN row = Key /\ MinerKey(m) \in Key
  BY InvParts, Keys DEF RowOK
<1>2. ASSUME NEW u \in User, BindsMiner(p, m, u)
      PROVE  /\ row'[MinerKey(m)] = [user |-> u, deleted |-> FALSE]
             /\ \A x \in Key : x # MinerKey(m) => row'[x] = row[x]
  BY <1>1, <1>2, PutRow DEF BindsMiner
<1>3. ASSUME MarksMiner(p, m)
      PROVE  /\ row'[MinerKey(m)] = IF Absent(MinerKey(m)) THEN Nil ELSE Erased(row[MinerKey(m)])
             /\ \A x \in Key : x # MinerKey(m) => row'[x] = row[x]
  <2>1. PICK ks : ks = {MinerKey(m)}
    OBVIOUS
  <2>2. ks \subseteq Key /\ row' = Merge(row, Marked(ks))
    BY <1>1, <1>3, <2>1 DEF MarksMiner
  <2>3. \A x \in Key : row'[x] = IF x \in ks /\ ~Absent(x) THEN Erased(row[x]) ELSE row[x]
    BY <1>1, <2>2, MarkRows
  <2>4. QED BY <1>1, <2>1, <2>3 DEF Absent
<1>4. QED BY <1>2, <1>3

LEMMA SignerSeen ==
  ASSUME IInv, NEW p \in Req, NEW s \in Signer, NEW u \in User
  PROVE  /\ BindsSigner(p, s, u) =>
              /\ row'[SignerKey(s, u)] = [deleted |-> FALSE]
              /\ \A x \in Key : x # SignerKey(s, u) => row'[x] = row[x]
         /\ MarksSigner(p, s, u) =>
              /\ row'[SignerKey(s, u)] = IF Absent(SignerKey(s, u)) THEN Nil
                                         ELSE Erased(row[SignerKey(s, u)])
              /\ \A x \in Key : x # SignerKey(s, u) => row'[x] = row[x]
<1>1. DOMAIN row = Key /\ SignerKey(s, u) \in Key
  BY InvParts, Keys DEF RowOK
<1>2. ASSUME BindsSigner(p, s, u)
      PROVE  /\ row'[SignerKey(s, u)] = [deleted |-> FALSE]
             /\ \A x \in Key : x # SignerKey(s, u) => row'[x] = row[x]
  BY <1>1, <1>2, PutRow DEF BindsSigner
<1>3. ASSUME MarksSigner(p, s, u)
      PROVE  /\ row'[SignerKey(s, u)] = IF Absent(SignerKey(s, u)) THEN Nil
                                        ELSE Erased(row[SignerKey(s, u)])
             /\ \A x \in Key : x # SignerKey(s, u) => row'[x] = row[x]
  <2>1. PICK ks : ks = {SignerKey(s, u)}
    OBVIOUS
  <2>2. ks \subseteq Key /\ row' = Merge(row, Marked(ks))
    BY <1>1, <1>3, <2>1 DEF MarksSigner
  <2>3. \A x \in Key : row'[x] = IF x \in ks /\ ~Absent(x) THEN Erased(row[x]) ELSE row[x]
    BY <1>1, <2>2, MarkRows
  <2>4. QED BY <1>1, <2>1, <2>3 DEF Absent
<1>4. QED BY <1>2, <1>3

\* What neither creates a user nor writes a token.
LEMMA NoTokenSeen ==
  ASSUME IInv, NEW p \in Req,
         \/ RowsStay
         \/ \E m \in Miner, u \in User : BindsMiner(p, m, u)
         \/ \E m \in Miner : MarksMiner(p, m)
         \/ \E s \in Signer, u \in User : BindsSigner(p, s, u) \/ MarksSigner(p, s, u)
         \/ \E l \in Limit, v \in LimitRec \cup {Nil} : row' = Merge(row, One(LimitKey(l), v))
         \/ \E s \in Signer : DelSigner(p, s)
         \/ DeleteUserCommit(p)
  PROVE  Known' = Known /\ Issued' = Issued
<1>1. ASSUME RowsStay PROVE UsersStay /\ TokensStay
  BY <1>1, Keys DEF RowsStay, UsersStay, TokensStay
<1>2. ASSUME NEW m \in Miner, \A x \in Key : x # MinerKey(m) => row'[x] = row[x]
      PROVE  UsersStay /\ TokensStay
  BY <1>2, OneTable, Keys, KeysDiffer
<1>3. ASSUME NEW s \in Signer, NEW u \in User,
             \A x \in Key : x # SignerKey(s, u) => row'[x] = row[x]
      PROVE  UsersStay /\ TokensStay
  BY <1>3, OneTable, Keys, KeysDiffer
<1>4. ASSUME NEW l \in Limit, NEW v \in LimitRec \cup {Nil}, row' = Merge(row, One(LimitKey(l), v))
      PROVE  UsersStay /\ TokensStay
  <2>1. \A x \in Key : x # LimitKey(l) => row'[x] = row[x]
    BY <1>4, InvParts, PutRow, Keys DEF RowOK
  <2>2. QED BY <2>1, OneTable, Keys, KeysDiffer
<1>5. ASSUME NEW s \in Signer, DelSigner(p, s) PROVE UsersStay /\ TokensStay
  <2>1. PICK ks \in SUBSET SignerKeys : ks = {SignerKey(s, u) : u \in User}
    BY Keys
  <2>2. ks \subseteq Key /\ DOMAIN row = Key /\ row' = Merge(row, Marked(ks))
    BY <1>5, <2>1, Keys, InvParts DEF DelSigner, Statement, RowOK
  <2>3. \A x \in Key : x \notin ks => row'[x] = row[x]
    BY <2>2, MarkRows
  <2>4. QED BY <2>3, OtherTables
<1>6. ASSUME DeleteUserCommit(p) PROVE Known' = Known /\ Issued' = Issued
  <2>1. PICK u : u = req[p].user
    OBVIOUS
  <2>2. /\ u \in User /\ ~Absent(UserKey(u)) /\ RowKept
        /\ \A x \in User : x # u => row'[UserKey(x)] = row[UserKey(x)]
        /\ TokensStay
    BY <1>6, <2>1, CommitRows DEF TokensStay, RowStep
  <2>3. \A x \in User : Absent(UserKey(x))' <=> Absent(UserKey(x))
    BY <2>2 DEF RowKept, Absent
  <2>4. QED BY <2>2, <2>3, Views DEF Known
<1>7. QED BY <1>1, <1>2, <1>3, <1>4, <1>5, <1>6, MinerSeen, SignerSeen, Views

-----------------------------------------------------------------------------
(* The store implements TokenBook *)

\* A token row is put only to issue, to remove or to recover the token.
LEMMA TokenBooked ==
  ASSUME IInv, NEW t \in Token, NEW v \in TokenRec, PutsToken(t, v)
  PROVE  [Book!BNext]_(Book!bvars)
<1>1. /\ Known' = Known
      /\ Issued' = [Issued EXCEPT ![t] = [name |-> v.name, perm |-> v.perm,
                                          live |-> ~v.deleted]]
  BY IssuedPut, Views
<1>2. PICK u : u = v.name
  OBVIOUS
<1>3. PICK perm : perm = v.perm
  OBVIOUS
<1>4. PICK d : d = v.deleted
  OBVIOUS
<1>5. u \in User /\ perm \in Perm /\ d \in BOOLEAN /\ u \in Known
  BY <1>2, <1>3, <1>4 DEF TokenRec, PutsToken, Known
<1>6. PICK e : e = [name |-> u, perm |-> perm, live |-> ~d]
  OBVIOUS
<1>7. Issued' = [Issued EXCEPT ![t] = e]
  BY <1>1, <1>2, <1>3, <1>4, <1>6
<1>8. CASE Absent(TokenKey(t))
  <2>1. Issued[t] = Nil
    BY <1>8, IssuedEntry
  <2>2. e = [name |-> u, perm |-> perm, live |-> TRUE]
    BY <1>4, <1>6, <1>8 DEF PutsToken
  <2>3. Book!Issue(t, u, perm)
    BY <1>1, <1>5, <1>7, <2>1, <2>2 DEF Book!Issue
  <2>4. QED BY <1>5, <2>3 DEF Book!BNext
<1>9. CASE ~Absent(TokenKey(t))
  <2>1. PICK l \in BOOLEAN : l = Live(TokenKey(t))
    BY DEF Live
  <2>2. Issued[t] = [name |-> u, perm |-> perm, live |-> l] /\ Issued[t] # Nil
    BY <1>2, <1>3, <1>9, <2>1, IssuedEntry DEF PutsToken
  <2>3. e = [Issued[t] EXCEPT !.live = ~d] /\ Issued[t].live = l
    BY <1>6, <2>2
  <2>4. Issued' = [Issued EXCEPT ![t].live = ~d]
    BY <1>7, <2>3
  <2>5. CASE ~d
    <3>1. Book!Recover(t)
      BY <1>1, <2>2, <2>4, <2>5 DEF Book!Recover
    <3>2. QED BY <3>1 DEF Book!BNext
  <2>6. CASE d /\ l
    <3>1. Book!Remove(t)
      BY <1>1, <2>2, <2>3, <2>4, <2>6 DEF Book!Remove
    <3>2. QED BY <3>1 DEF Book!BNext
  <2>7. CASE d /\ ~l
    <3>1. e = Issued[t]
      BY <1>6, <2>2, <2>7
    <3>2. Issued = [s \in Token |-> Issued[s]]
      BY DEF Issued
    <3>3. Issued' = Issued
      BY <1>7, <3>1, <3>2
    <3>4. QED BY <1>1, <3>3 DEF Book!bvars
  <2>8. QED BY <1>5, <2>1, <2>5, <2>6, <2>7
<1>10. QED BY <1>8, <1>9

LEMMA EffectBooked ==
  ASSUME IInv, NEW p \in Req, Effect(p)
  PROVE  [Book!BNext]_(Book!bvars)
<1>1. ASSUME NEW u \in User, NEW v \in UserRec, PutsUser(u, v)
      PROVE  Book!AddUser(u)
  <2>1. /\ TokensStay /\ row'[UserKey(u)] # Nil
        /\ \A x \in User : x # u => row'[UserKey(x)] = row[UserKey(x)]
    BY <1>1, UserSeen
  <2>2. Known' = Known \cup {u}
    BY <2>1 DEF Known, Absent
  <2>3. QED BY <2>1, <2>2, Views DEF Book!AddUser
<1>2. ASSUME NEW t \in Token, NEW v \in TokenRec, PutsToken(t, v)
      PROVE  [Book!BNext]_(Book!bvars)
  BY <1>2, TokenBooked
<1>3. ASSUME Known' = Known /\ Issued' = Issued PROVE UNCHANGED Book!bvars
  BY <1>3 DEF Book!bvars
<1>4. \/ \E u \in User, v \in UserRec : PutsUser(u, v)
      \/ \E t \in Token, v \in TokenRec : PutsToken(t, v)
      \/ Known' = Known /\ Issued' = Issued
  BY NoTokenSeen DEF Effect
<1>5. QED BY <1>1, <1>2, <1>3, <1>4 DEF Book!BNext

\* The token operations of the MySQL store are those of the Store interface,
\* whatever requests race: issued once, to a user that was created, with a
\* user and a permission that never change.
THEOREM Refines == Spec => RefinesTokenBook
<1>1. Init => Book!BInit
  BY Keys DEF Init, Book!BInit, Known, Issued, Absent
<1>2. ASSUME IInv, [Next]_vars PROVE [Book!BNext]_(Book!bvars)
  <2>1. CASE Next
    BY <1>2, <2>1, NextEffect, EffectBooked
  <2>2. CASE UNCHANGED vars
    BY <2>2 DEF vars, Book!bvars, Known, Issued, Absent, Live
  <2>3. QED BY <1>2, <2>1, <2>2
<1>3. QED BY <1>1, <1>2, Inductive, PTL DEF Spec, RefinesTokenBook, Book!BSpec

-----------------------------------------------------------------------------
(* The store implements Registry, but for DelSigner and DeleteUser *)

LEMMA UserRegistered ==
  ASSUME IInv, NEW u \in User, NEW v \in UserRec, PutsUser(u, v)
  PROVE  Registry!SaveUser(u)
<1>1. /\ MinersStay /\ SignersStay /\ row'[UserKey(u)] # Nil /\ ~row'[UserKey(u)].deleted
      /\ \A x \in User : x # u => row'[UserKey(x)] = row[UserKey(x)]
  BY UserSeen
<1>2. Live(UserKey(u))' /\ ~Absent(UserKey(u))'
  BY <1>1 DEF Live, Absent
<1>3. UserState'[u] = "live"
  BY <1>2 DEF UserState
<1>4. \A x \in User : x # u => UserState'[x] = UserState[x]
  BY <1>1 DEF UserState, Live, Absent
<1>5. /\ UserState = [x \in User |-> UserState[x]]
      /\ UserState' = [x \in User |-> UserState'[x]]
  BY DEF UserState
<1> HIDE DEF UserState
<1>6. UserState' = [UserState EXCEPT ![u] = "live"]
  BY <1>3, <1>4, <1>5
<1>7. QED BY <1>1, <1>6, Views DEF Registry!SaveUser

LEMMA MinerView ==
  ASSUME NEW m \in Miner, \A x \in Key : x # MinerKey(m) => row'[x] = row[x]
  PROVE  /\ UserState' = UserState /\ Bindings' = Bindings
         /\ MinerUser' = [MinerUser EXCEPT ![m] = MinerUser'[m]]
<1>1. UsersStay /\ SignersStay
  BY OneTable, Keys, KeysDiffer
<1>2. \A x \in Miner : x # m => row'[MinerKey(x)] = row[MinerKey(x)]
  BY Keys, KeysDiffer
<1>3. \A x \in Miner : x # m => MinerUser'[x] = MinerUser[x]
  BY <1>2 DEF MinerUser, Live
<1>4. /\ MinerUser = [x \in Miner |-> MinerUser[x]]
      /\ MinerUser' = [x \in Miner |-> MinerUser'[x]]
  BY DEF MinerUser
<1> HIDE DEF MinerUser
<1>5. MinerUser' = [MinerUser EXCEPT ![m] = MinerUser'[m]]
  BY <1>3, <1>4
<1>6. QED BY <1>1, <1>5, Views

LEMMA MinerRegistered ==
  ASSUME IInv, NEW p \in Req, NEW m \in Miner
  PROVE  /\ \A u \in User : BindsMiner(p, m, u) => Registry!BindMiner(m, u)
         /\ MarksMiner(p, m) => Registry!ReleaseMiner(m) \/ UNCHANGED Registry!rvars
<1>1. ASSUME NEW u \in User, BindsMiner(p, m, u) PROVE Registry!BindMiner(m, u)
  <2>1. /\ row'[MinerKey(m)] = [user |-> u, deleted |-> FALSE]
        /\ \A x \in Key : x # MinerKey(m) => row'[x] = row[x]
    BY <1>1, MinerSeen
  <2>2. PICK v : v = [user |-> u, deleted |-> FALSE]
    OBVIOUS
  <2>3. v \in MinerRec /\ v.user = u /\ ~v.deleted
    BY <2>2 DEF MinerRec
  <2>4. row'[MinerKey(m)] = v /\ v # Nil
    BY <2>1, <2>2, <2>3, NilIsNoRow
  <2>5. MinerUser'[m] = u
    BY <2>3, <2>4 DEF MinerUser, Live
  <2>6. /\ UserState' = UserState /\ Bindings' = Bindings
        /\ MinerUser' = [MinerUser EXCEPT ![m] = MinerUser'[m]]
    BY <2>1, MinerView
  <2>7. UserState[u] # "absent"
    BY <1>1 DEF BindsMiner, UserState
  <2>8. QED BY <2>5, <2>6, <2>7 DEF Registry!BindMiner
<1>2. ASSUME MarksMiner(p, m)
      PROVE  Registry!ReleaseMiner(m) \/ UNCHANGED Registry!rvars
  <2>1. /\ row'[MinerKey(m)] = IF Absent(MinerKey(m)) THEN Nil ELSE Erased(row[MinerKey(m)])
        /\ \A x \in Key : x # MinerKey(m) => row'[x] = row[x]
    BY <1>2, MinerSeen
  <2>2. ~Live(MinerKey(m))'
    <3>1. CASE Absent(MinerKey(m))
      BY <2>1, <3>1 DEF Live
    <3>2. CASE ~Absent(MinerKey(m))
      <4>1. row[MinerKey(m)] \in MinerRec
        BY <3>2, InvParts DEF RowOK, Absent
      <4>2. Erased(row[MinerKey(m)]).deleted
        BY <4>1, ErasedRows
      <4>3. QED BY <2>1, <3>2, <4>2 DEF Live
    <3>3. QED BY <3>1, <3>2
  <2>3. MinerUser'[m] = Nil
    BY <2>2 DEF MinerUser
  <2>4. /\ UserState' = UserState /\ Bindings' = Bindings
        /\ MinerUser' = [MinerUser EXCEPT ![m] = MinerUser'[m]]
    BY <2>1, MinerView
  <2>5. CASE MinerUser[m] = Nil
    <3>1. MinerUser = [x \in Miner |-> MinerUser[x]]
      BY DEF MinerUser
    <3> HIDE DEF MinerUser
    <3>2. MinerUser' = MinerUser
      BY <2>3, <2>4, <2>5, <3>1
    <3>3. QED BY <2>4, <3>2 DEF Registry!rvars
  <2>6. CASE MinerUser[m] # Nil
    BY <2>3, <2>4, <2>6 DEF Registry!ReleaseMiner
  <2>7. QED BY <2>5, <2>6
<1>3. QED BY <1>1, <1>2

LEMMA SignerView ==
  ASSUME NEW s \in Signer, NEW u \in User,
         \A x \in Key : x # SignerKey(s, u) => row'[x] = row[x]
  PROVE  /\ UserState' = UserState /\ MinerUser' = MinerUser
         /\ Live(SignerKey(s, u))' => Bindings' = Bindings \cup {<<s, u>>}
         /\ ~Live(SignerKey(s, u))' => Bindings' = Bindings \ {<<s, u>>}
<1>1. UsersStay /\ MinersStay
  BY OneTable, Keys, KeysDiffer
<1>2. \A b \in Signer \X User : b # <<s, u>> =>
        SignerKey(b[1], b[2]) \in Key /\ SignerKey(b[1], b[2]) # SignerKey(s, u)
  BY Keys, KeysDiffer
<1>3. \A b \in Signer \X User : b # <<s, u>> =>
        (Live(SignerKey(b[1], b[2]))' <=> Live(SignerKey(b[1], b[2])))
  BY <1>2 DEF Live
<1>4. \A b \in Signer \X User : b # <<s, u>> => (b \in Bindings' <=> b \in Bindings)
  BY <1>3 DEF Bindings
<1>5. <<s, u>> \in Bindings' <=> Live(SignerKey(s, u))'
  BY DEF Bindings
<1>6. Bindings' \subseteq Signer \X User /\ Bindings \subseteq Signer \X User
  BY DEF Bindings
<1> HIDE DEF Bindings
<1>7. QED BY <1>1, <1>4, <1>5, <1>6, Views

LEMMA SignerRegistered ==
  ASSUME IInv, NEW p \in Req, NEW s \in Signer, NEW u \in User
  PROVE  /\ BindsSigner(p, s, u) => Registry!BindSigner(s, u)
         /\ MarksSigner(p, s, u) => Registry!ReleaseSigner(s, u)
<1>1. ASSUME BindsSigner(p, s, u) PROVE Registry!BindSigner(s, u)
  <2>1. PICK v : v = [deleted |-> FALSE]
    OBVIOUS
  <2>2. v \in SignerRec /\ ~v.deleted
    BY <2>1 DEF SignerRec
  <2>3. /\ row'[SignerKey(s, u)] = v /\ v # Nil
        /\ \A x \in Key : x # SignerKey(s, u) => row'[x] = row[x]
    BY <1>1, <2>1, <2>2, SignerSeen, NilIsNoRow
  <2>4. Live(SignerKey(s, u))'
    BY <2>2, <2>3 DEF Live
  <2>5. UserState[u] # "absent"
    BY <1>1 DEF BindsSigner, UserState
  <2>6. QED BY <2>3, <2>4, <2>5, SignerView DEF Registry!BindSigner
<1>2. ASSUME MarksSigner(p, s, u) PROVE Registry!ReleaseSigner(s, u)
  <2>1. PICK k \in SignerKeys : k = SignerKey(s, u)
    BY Keys
  <2>2. /\ row'[k] = IF Absent(k) THEN Nil ELSE Erased(row[k])
        /\ \A x \in Key : x # k => row'[x] = row[x]
    BY <1>2, <2>1, SignerSeen
  <2>3. ~Live(k)'
    <3>1. CASE Absent(k)
      BY <2>2, <3>1 DEF Live
    <3>2. CASE ~Absent(k)
      <4>1. row[k] \in SignerRec
        BY <3>2, InvParts DEF RowOK, Absent
      <4>2. Erased(row[k]).deleted
        BY <4>1, ErasedRows
      <4>3. QED BY <2>2, <3>2, <4>2 DEF Live
    <3>3. QED BY <3>1, <3>2
  <2>4. ~Live(SignerKey(s, u))'
    BY <2>1, <2>3 DEF Live
  <2>5. QED BY <2>1, <2>2, <2>4, SignerView DEF Registry!ReleaseSigner
<1>3. QED BY <1>1, <1>2

\* What is neither a user's, a miner's nor a signer's is not seen.
LEMMA Unregistered ==
  ASSUME IInv, \/ RowsStay
               \/ \E t \in Token, v \in TokenRec : PutsToken(t, v)
               \/ \E l \in Limit, v \in LimitRec \cup {Nil} : row' = Merge(row, One(LimitKey(l), v))
  PROVE  UNCHANGED Registry!rvars
<1>1. ASSUME RowsStay PROVE UsersStay /\ MinersStay /\ SignersStay
  BY <1>1, Keys DEF RowsStay, UsersStay, MinersStay, SignersStay
<1>2. ASSUME NEW l \in Limit, NEW v \in LimitRec \cup {Nil}, row' = Merge(row, One(LimitKey(l), v))
      PROVE  UsersStay /\ MinersStay /\ SignersStay
  <2>1. \A x \in Key : x # LimitKey(l) => row'[x] = row[x]
    BY <1>2, InvParts, PutRow, Keys DEF RowOK
  <2>2. QED BY <2>1, OneTable, Keys, KeysDiffer
<1>3. UsersStay /\ MinersStay /\ SignersStay
  BY <1>1, <1>2, IssuedPut
<1>4. QED BY <1>3, Views DEF Registry!rvars

\* The two steps that are operations of their own.
LEMMA RetiredListed ==
  ASSUME IInv, NEW p \in Req, DeleteUserCommit(p)
  PROVE  RetireListed(req[p].user, req[p].list)
<1>1. PICK u, l : u = req[p].user /\ l = req[p].list
  OBVIOUS
<1>2. /\ RowOK' /\ u \in User /\ ~Absent(UserKey(u)) /\ ~Live(UserKey(u))'
      /\ ~Absent(UserKey(u))'
      /\ \A k \in SignersOf(u) : ~Live(k)'
      /\ \A m \in l : row'[MinerKey(m)].deleted
      /\ \A x \in User : x # u => row'[UserKey(x)] = row[UserKey(x)]
      /\ \A m \in Miner : m \notin l => row'[MinerKey(m)] = row[MinerKey(m)]
      /\ \A k \in SignerKeys : k \notin SignersOf(u) => row'[k] = row[k]
  BY <1>1, CommitRows DEF RowStep, RowKept
<1>3. UserState' = [UserState EXCEPT ![u] = "deleted"]
  <2>1. UserState'[u] = "deleted"
    BY <1>2 DEF UserState
  <2>2. \A x \in User : x # u => UserState'[x] = UserState[x]
    BY <1>2 DEF UserState, Live, Absent
  <2>3. /\ UserState = [x \in User |-> UserState[x]]
        /\ UserState' = [x \in User |-> UserState'[x]]
    BY DEF UserState
  <2> HIDE DEF UserState
  <2>4. QED BY <2>1, <2>2, <2>3
<1>4. MinerUser' = [m \in Miner |-> IF m \in l THEN Nil ELSE MinerUser[m]]
  <2>1. \A m \in Miner : m \in l => MinerUser'[m] = Nil
    BY <1>2 DEF MinerUser, Live
  <2>2. \A m \in Miner : m \notin l => MinerUser'[m] = MinerUser[m]
    BY <1>2 DEF MinerUser, Live
  <2>3. MinerUser' = [m \in Miner |-> MinerUser'[m]]
    BY DEF MinerUser
  <2> HIDE DEF MinerUser
  <2>4. QED BY <2>1, <2>2, <2>3
<1>5. Bindings' = {b \in Bindings : b[2] # u}
  <2>1. ASSUME NEW b \in Signer \X User
        PROVE  Live(SignerKey(b[1], b[2]))' <=> Live(SignerKey(b[1], b[2])) /\ b[2] # u
    <3>1. SignerKey(b[1], b[2]) \in SignerKeys
      BY Keys
    <3>2. CASE b[2] = u
      BY <1>2, <3>2, Keys
    <3>3. CASE b[2] # u
      <4>1. SignerKey(b[1], b[2]) \notin SignersOf(u)
        BY <1>2, <3>3, SignerKeyForm, KeysDiffer
      <4>2. QED BY <1>2, <3>1, <3>3, <4>1 DEF Live
    <3>4. QED BY <3>2, <3>3
  <2>2. QED BY <2>1 DEF Bindings
<1>6. QED BY <1>1, <1>3, <1>4, <1>5 DEF RetireListed

LEMMA ReleasedEverywhere ==
  ASSUME IInv, NEW p \in Req, NEW s \in Signer, DelSigner(p, s)
  PROVE  ReleaseEverywhere(s) \/ UNCHANGED Registry!rvars
<1>1. CASE row' = row
  BY <1>1 DEF Registry!rvars, UserState, MinerUser, Bindings, Live, Absent
<1>2. PICK ks \in SUBSET SignerKeys : ks = {SignerKey(s, u) : u \in User}
  BY Keys
<1>3. CASE row' = Merge(row, Marked(ks))
  <2>1. \A x \in Key : row'[x] = IF x \in ks /\ ~Absent(x) THEN Erased(row[x]) ELSE row[x]
    BY <1>2, <1>3, InvParts, Keys, MarkRows DEF RowOK
  <2>2. UsersStay /\ MinersStay
    BY <1>2, <2>1, OtherTables
  <2>3. ASSUME NEW k \in ks PROVE ~Live(k)'
    <3>1. k \in Key /\ k \in SignerKeys
      BY <1>2, Keys
    <3>2. CASE Absent(k)
      BY <2>1, <3>1, <3>2 DEF Live, Absent
    <3>3. CASE ~Absent(k)
      <4>1. row[k] \in SignerRec
        BY <3>1, <3>3, InvParts DEF RowOK, Absent
      <4>2. Erased(row[k]).deleted
        BY <4>1, ErasedRows
      <4>3. QED BY <2>1, <2>3, <3>1, <3>3, <4>2 DEF Live
    <3>4. QED BY <3>2, <3>3
  <2>4. ASSUME NEW b \in Signer \X User
        PROVE  Live(SignerKey(b[1], b[2]))' <=> Live(SignerKey(b[1], b[2])) /\ b[1] # s
    <3>1. SignerKey(b[1], b[2]) \in Key
      BY Keys
    <3>2. CASE b[1] = s
      BY <1>2, <2>3, <3>2
    <3>3. CASE b[1] # s
      <4>1. SignerKey(b[1], b[2]) \notin ks
        BY <1>2, <3>3, KeysDiffer
      <4>2. QED BY <2>1, <3>1, <3>3, <4>1 DEF Live
    <3>4. QED BY <3>2, <3>3
  <2>5. Bindings' = {b \in Bindings : b[1] # s}
    BY <2>4 DEF Bindings
  <2>6. QED BY <2>2, <2>5, Views DEF ReleaseEverywhere
<1>4. QED BY <1>1, <1>2, <1>3 DEF DelSigner, Statement, Read

\* Every step is one operation of the Store interface, or deletes what
\* DelSigner and the commit of DeleteUser delete at once, and nothing else.
THEOREM Registers == Spec => StepsAreRegistry
<1>1. Init => Registry!RInit
  BY Keys DEF Init, Registry!RInit, UserState, MinerUser, Bindings, Live, Absent
<1>2. ASSUME IInv, Next
      PROVE  \/ Registry!RNext
             \/ \E p \in Req : At(p, "DeleteUser.commit") /\ RetireListed(req[p].user, req[p].list)
             \/ \E s \in Signer : ReleaseEverywhere(s)
             \/ UNCHANGED Registry!rvars
  <2>1. PICK p \in Req : Effect(p)
    BY <1>2, NextEffect
  <2>2. ASSUME NEW u \in User, NEW v \in UserRec, PutsUser(u, v) PROVE Registry!RNext
    BY <1>2, <2>2, UserRegistered DEF Registry!RNext
  <2>3. ASSUME NEW m \in Miner, NEW u \in User, BindsMiner(p, m, u) PROVE Registry!RNext
    BY <1>2, <2>3, MinerRegistered DEF Registry!RNext
  <2>4. ASSUME NEW m \in Miner, MarksMiner(p, m)
        PROVE  Registry!RNext \/ UNCHANGED Registry!rvars
    BY <1>2, <2>4, MinerRegistered DEF Registry!RNext
  <2>5. ASSUME NEW s \in Signer, NEW u \in User, BindsSigner(p, s, u) \/ MarksSigner(p, s, u)
        PROVE  Registry!RNext
    BY <1>2, <2>5, SignerRegistered DEF Registry!RNext
  <2>6. ASSUME DeleteUserCommit(p)
        PROVE  At(p, "DeleteUser.commit") /\ RetireListed(req[p].user, req[p].list)
    BY <1>2, <2>6, RetiredListed DEF DeleteUserCommit
  <2>7. ASSUME NEW s \in Signer, DelSigner(p, s)
        PROVE  ReleaseEverywhere(s) \/ UNCHANGED Registry!rvars
    BY <1>2, <2>7, ReleasedEverywhere
  <2>8. QED BY <1>2, <2>1, <2>2, <2>3, <2>4, <2>5, <2>6, <2>7, Unregistered DEF Effect
<1>3. ASSUME UNCHANGED vars PROVE UNCHANGED Registry!rvars
  BY <1>3 DEF vars, Registry!rvars, UserState, MinerUser, Bindings, Live, Absent
<1>4. IInv /\ [Next]_vars =>
        [\/ Registry!RNext
         \/ \E p \in Req : At(p, "DeleteUser.commit") /\ RetireListed(req[p].user, req[p].list)
         \/ \E s \in Signer : ReleaseEverywhere(s)]_(Registry!rvars)
  BY <1>2, <1>3
<1>5. QED BY <1>1, <1>4, Inductive, PTL DEF Spec, StepsAreRegistry
=============================================================================
