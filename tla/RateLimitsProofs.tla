-------------------------- MODULE RateLimitsProofs --------------------------
(* Theorems about RateLimits, for any users, limits and sessions. *)
EXTENDS RateLimits, TLAPS

-----------------------------------------------------------------------------
(* Maps of limits *)

\* A map of limits: its keys are limit ids and its values are limits.
LEMMA LimitsForm ==
  \A f : f \in Limits <=> /\ f = [id \in DOMAIN f |-> f[id]]
                          /\ DOMAIN f \subseteq Id
                          /\ \A id \in DOMAIN f : f[id] \in Val
<1>1. ASSUME NEW f \in Limits
      PROVE  /\ f = [id \in DOMAIN f |-> f[id]]
             /\ DOMAIN f \subseteq Id
             /\ \A id \in DOMAIN f : f[id] \in Val
  <2>1. PICK S \in SUBSET Id : f \in [S -> Val]
    BY DEF Limits
  <2>2. QED BY <2>1
<1>2. ASSUME NEW f, f = [id \in DOMAIN f |-> f[id]], DOMAIN f \subseteq Id,
             \A id \in DOMAIN f : f[id] \in Val
      PROVE  f \in Limits
  <2>1. f \in [DOMAIN f -> Val]
    BY <1>2
  <2>2. QED BY <1>2, <2>1 DEF Limits
<1>3. QED BY <1>1, <1>2

\* Setting one limit.
LEMMA WithLimits ==
  ASSUME NEW f \in Limits, NEW id \in Id, NEW v \in Val
  PROVE  /\ With(f, id, v) \in Limits
         /\ DOMAIN With(f, id, v) = DOMAIN f \cup {id}
         /\ \A x \in DOMAIN f \ {id} : With(f, id, v)[x] = f[x]
<1>1. /\ DOMAIN With(f, id, v) = DOMAIN f \cup {id}
      /\ With(f, id, v) = [x \in DOMAIN With(f, id, v) |-> With(f, id, v)[x]]
      /\ \A x \in DOMAIN f \cup {id} :
           With(f, id, v)[x] = IF x = id THEN v ELSE f[x]
  BY DEF With
<1>2. With(f, id, v) \in Limits
  <2> DEFINE g == With(f, id, v)
  <2> HIDE DEF g
  <2>1. DOMAIN f \subseteq Id /\ \A x \in DOMAIN f : f[x] \in Val
    BY LimitsForm
  <2>2. DOMAIN g = DOMAIN f \cup {id} /\ g = [x \in DOMAIN g |-> g[x]]
    BY <1>1 DEF g
  <2>3. \A x \in DOMAIN g : g[x] \in Val
    BY <1>1, <2>1 DEF g
  <2>4. g \in Limits
    BY <2>1, <2>2, <2>3, LimitsForm
  <2>5. QED BY <2>4 DEF g
<1>3. QED BY <1>1, <1>2

LEMMA NoLimitsIsLimits == NoLimits \in Limits /\ DOMAIN NoLimits = {}
<1>1. DOMAIN NoLimits = {} /\ NoLimits = [id \in DOMAIN NoLimits |-> NoLimits[id]]
  BY DEF NoLimits
<1>2. QED BY <1>1, LimitsForm

\* A user without a key is listed with no limits.
LEMMA ListedLimits ==
  ASSUME TypeOK, NEW u \in User
  PROVE  /\ ListRateLimits(u) \in Limits
         /\ Absent(u) => DOMAIN ListRateLimits(u) = {}
         /\ ~Absent(u) => ListRateLimits(u) = db[u]
BY NoLimitsIsLimits DEF TypeOK, ListRateLimits, Absent

-----------------------------------------------------------------------------
(* The store *)

TxnsOK ==
  /\ DOMAIN txn = Txn
  /\ \A t \in Txn : txn[t] = [open |-> txn[t].open, reads |-> txn[t].reads,
       writes |-> txn[t].writes, dirty |-> txn[t].dirty, snap |-> txn[t].snap]

\* What the steps of others do to the transaction of q.
Kept(q) ==
  /\ txn'[q].reads = txn[q].reads
  /\ txn'[q].writes = txn[q].writes
  /\ txn[q].dirty \subseteq txn'[q].dirty
  /\ \A u \in txn[q].reads : db'[u] = db[u] \/ u \in txn'[q].dirty

LEMMA NotifyKeeps ==
  ASSUME TxnsOK, NEW q \in Req, NEW w, db' = Install(w),
         txn'[q] = Notify(DOMAIN w)[q], txn[q].reads \subseteq User
  PROVE  Kept(q)
<1>1. txn'[q] = [txn[q] EXCEPT !.dirty = @ \cup (DOMAIN w \cap Watched(q))]
  BY DEF Notify, Txn
<1>2. /\ txn'[q].reads = txn[q].reads
      /\ txn'[q].writes = txn[q].writes
      /\ txn'[q].dirty = txn[q].dirty \cup (DOMAIN w \cap Watched(q))
  BY <1>1 DEF TxnsOK, Txn
<1>3. \A u \in txn[q].reads : db'[u] = db[u] \/ u \in txn'[q].dirty
  BY <1>2 DEF Install, Watched, Key
<1>4. QED BY <1>2, <1>3 DEF Kept

\* What transactions learn of a commit leaves them what they are.
LEMMA NotifyOK ==
  ASSUME TxnsOK, NEW ks
  PROVE  /\ DOMAIN Notify(ks) = Txn
         /\ \A t \in Txn : Notify(ks)[t] =
              [open |-> Notify(ks)[t].open, reads |-> Notify(ks)[t].reads,
               writes |-> Notify(ks)[t].writes, dirty |-> Notify(ks)[t].dirty,
               snap |-> Notify(ks)[t].snap]
<1> DEFINE N == Notify(ks)
<1>1. DOMAIN N = Txn
  BY DEF Notify
<1>2. ASSUME NEW t \in Txn
      PROVE  N[t] = [open |-> N[t].open, reads |-> N[t].reads,
                     writes |-> N[t].writes, dirty |-> N[t].dirty, snap |-> N[t].snap]
  <2>1. N[t] = [txn[t] EXCEPT !.dirty = @ \cup (ks \cap Watched(t))]
    BY DEF Notify
  <2> HIDE DEF N
  <2>2. QED BY <2>1 DEF TxnsOK
<1>3. QED BY <1>1, <1>2

\* A session that does not move relies on the same as before, and on its map
\* only while the limits of its user stay.
LEMMA FrameInv ==
  ASSUME TypeOK, NEW q \in Req, SessionInv(q), req'[q] = req[q],
         At(q, "Delete.commit") => Kept(q),
         At(q, "Put") /\ q \notin stale' =>
           q \notin stale /\ db'[req[q].user] = db[req[q].user]
  PROVE  SessionInv(q)'
<1> DEFINE u == req[q].user
<1>1. At(q, "Put") /\ q \notin stale' =>
        ListRateLimits(u)' = ListRateLimits(u) /\ db'[u] = db[u]
  BY DEF ListRateLimits, Absent
<1>2. At(q, "Put") =>
        /\ req[q].id \in DOMAIN req[q].limits
        /\ q \notin stale' =>
             \A id \in DOMAIN ListRateLimits(u)' \ {req[q].id} :
               id \in DOMAIN req[q].limits /\ req[q].limits[id] = db'[u][id]
  BY <1>1 DEF SessionInv
<1>3. At(q, "Delete.commit") =>
        /\ txn'[q].reads = {u} /\ txn'[q].writes = One(u, Nil)
        /\ db'[u] = Nil => u \in txn'[q].dirty
  BY DEF SessionInv, Kept, Absent
<1>4. QED BY <1>2, <1>3 DEF SessionInv, At, ListRateLimits, Absent

-----------------------------------------------------------------------------
(* One session moves *)

\* What each session has at hand.
RecOK(r) ==
  /\ r.limits \in Limits
  /\ r.pc # "idle" => r.user \in User /\ r.id \in Id
  /\ r.pc = "Upsert" => r.val \in Val

LEMMA TypeParts ==
  TypeOK <=> /\ db \in [User -> Limits \cup {Nil}]
             /\ DOMAIN req = Req /\ \A p \in Req : RecOK(req[p])
             /\ stale \subseteq Req
BY DEF TypeOK, RecOK, At

LEMMA IdleOK == RecOK(Idle) /\ Idle.pc = "idle"
BY NoLimitsIsLimits DEF RecOK, Idle

\* p moves to r: the other sessions stay where they are.
Moves(p, r) == /\ RecOK(r)
               /\ req'[p] = r
               /\ DOMAIN req' = Req /\ \A q \in Req : RecOK(req'[q])
               /\ \A q \in Req \ {p} : req'[q] = req[q]

LEMMA GotoMoves ==
  ASSUME TypeOK, NEW p \in Req, NEW r, RecOK(r), Goto(p, r)
  PROVE  Moves(p, r)
BY TypeParts DEF Goto, Moves

LEMMA RespondMoves ==
  ASSUME TypeOK, NEW p \in Req, NEW a, Respond(p, a)
  PROVE  Moves(p, Idle)
BY TypeParts, IdleOK DEF Respond, Moves

\* The others rely on what they did: their transactions are kept, and a map
\* that is overtaken is known to be.
OthersKept(p) ==
  \A q \in Req \ {p} :
    /\ At(q, "Delete.commit") => Kept(q)
    /\ At(q, "Put") /\ q \notin stale' =>
         q \notin stale /\ db'[req[q].user] = db[req[q].user]

LEMMA StepInv ==
  ASSUME IInv, NEW p \in Req, NEW r, Moves(p, r), OthersKept(p),
         db' \in [User -> Limits \cup {Nil}], NeverEmpty', TxnsOK',
         stale' \subseteq Req, SessionInv(p)'
  PROVE  IInv'
<1>1. TypeOK'
  BY DEF TypeOK, Moves, RecOK, At
<1>2. ASSUME NEW q \in Req \ {p} PROVE SessionInv(q)'
  BY FrameInv DEF IInv, OthersKept, Moves
<1>3. QED BY <1>1, <1>2 DEF IInv, TxnsOK

\* A step that only reads.
LEMMA ViewInv ==
  ASSUME IInv, NEW p \in Req, NEW r, Moves(p, r), View,
         stale' = stale \/ stale' = stale \ {p}, SessionInv(p)'
  PROVE  IInv'
<1>1. OthersKept(p)
  BY DEF OthersKept, Kept, View
<1>2. db' \in [User -> Limits \cup {Nil}] /\ NeverEmpty' /\ TxnsOK' /\ stale' \subseteq Req
  BY DEF IInv, TypeOK, NeverEmpty, Absent, TxnsOK, View
<1>3. QED BY <1>1, <1>2, StepInv

\* A session that is at neither of its critical steps relies on nothing.
LEMMA RestingInv ==
  ASSUME NEW p, req'[p].pc \notin {"Put", "Delete.commit"}
  PROVE  SessionInv(p)'
BY DEF SessionInv, At

LEMMA AnswerInv ==
  ASSUME IInv, NEW p \in Req, NEW a, Respond(p, a), View,
         stale' = stale \/ stale' = stale \ {p}
  PROVE  IInv'
<1>1. Moves(p, Idle)
  BY RespondMoves DEF IInv
<1>2. SessionInv(p)'
  BY <1>1, IdleOK, RestingInv DEF Moves
<1>3. QED BY <1>1, <1>2, ViewInv

LEMMA GoInv ==
  ASSUME IInv, NEW p \in Req, NEW r, RecOK(r), r.pc \notin {"Put", "Delete.commit"},
         Goto(p, r), View, stale' = stale \/ stale' = stale \ {p}
  PROVE  IInv'
<1>1. Moves(p, r)
  BY GotoMoves DEF IInv
<1>2. SessionInv(p)'
  BY <1>1, RestingInv DEF Moves
<1>3. QED BY <1>1, <1>2, ViewInv

\* Writing the map of u, or removing it, with what that does to the others.
LEMMA WriteInv ==
  ASSUME IInv, NEW p \in Req, NEW a, NEW u \in User, NEW v \in Limits \cup {Nil},
         v # Nil => DOMAIN v # {},
         db' = Install(One(u, v)), TxnsOK',
         \A q \in Req \ {p} : txn'[q] = Notify({u})[q],
         Overtakes(p, u), Respond(p, a)
  PROVE  IInv'
<1>1. Moves(p, Idle)
  BY RespondMoves DEF IInv
<1>2. SessionInv(p)'
  BY <1>1, IdleOK, RestingInv DEF Moves
<1>3. DOMAIN One(u, v) = {u} /\ One(u, v)[u] = v
  BY DEF One
<1>4. db' = [k \in User |-> IF k = u THEN v ELSE db[k]]
  BY <1>3 DEF Install, Key
<1>5. db' \in [User -> Limits \cup {Nil}] /\ NeverEmpty'
  BY <1>4 DEF IInv, TypeOK, NeverEmpty, Absent
<1>6. stale' \subseteq Req
  BY DEF Overtakes, IInv, TypeOK
<1>7. ASSUME NEW q \in Req \ {p}, At(q, "Delete.commit") PROVE Kept(q)
  <2>1. txn[q].reads = {req[q].user} /\ req[q].user \in User
    BY <1>7 DEF IInv, SessionInv, TypeOK, At
  <2>2. TxnsOK
    BY DEF IInv, TxnsOK
  <2>3. QED BY <1>3, <2>1, <2>2, NotifyKeeps
<1>8. ASSUME NEW q \in Req \ {p}, At(q, "Put"), q \notin stale'
      PROVE  q \notin stale /\ db'[req[q].user] = db[req[q].user]
  <2>1. q \notin stale /\ req[q].user # u
    BY <1>8 DEF Overtakes
  <2>2. req[q].user \in User
    BY <1>8 DEF IInv, TypeOK, At
  <2>3. QED BY <1>4, <2>1, <2>2
<1>9. OthersKept(p)
  BY <1>7, <1>8 DEF OthersKept
<1>10. QED BY <1>1, <1>2, <1>5, <1>6, <1>9, StepInv

-----------------------------------------------------------------------------
(* The steps *)

\* PutRateLimit reads: the map it will put has the limit and all others.
LEMMA PutRateLimitOfInv ==
  ASSUME IInv, NEW p \in Req, NEW u \in User, NEW id \in Id, NEW v \in Val,
         PutRateLimitOf(p, u, id, v)
  PROVE  IInv'
<1> DEFINE f == ListRateLimits(u)
           r == [Idle EXCEPT !.pc = "Put", !.user = u, !.id = id,
                             !.limits = With(f, id, v)]
<1>1. Goto(p, r) /\ View /\ stale' = stale \ {p}
  BY DEF PutRateLimitOf, Reads
<1>2. f \in Limits /\ (Absent(u) => DOMAIN f = {}) /\ (~Absent(u) => f = db[u])
  BY ListedLimits DEF IInv
<1>3. /\ With(f, id, v) \in Limits
      /\ DOMAIN With(f, id, v) = DOMAIN f \cup {id}
      /\ \A x \in DOMAIN f \ {id} : With(f, id, v)[x] = f[x]
  BY <1>2, WithLimits
<1>4. /\ r.pc = "Put" /\ r.user = u /\ r.id = id
      /\ r.limits = With(f, id, v)
  BY DEF Idle
<1> HIDE DEF r
<1>5. RecOK(r)
  BY <1>3, <1>4 DEF RecOK
<1>6. Moves(p, r)
  BY <1>1, <1>5, GotoMoves DEF IInv
<1>7. ListRateLimits(u)' = f /\ db'[u] = db[u]
  BY <1>1 DEF View, ListRateLimits, Absent
<1>8. SessionInv(p)'
  <2>1. req'[p] = r
    BY <1>6 DEF Moves
  <2>2. \A x \in DOMAIN f \ {id} : x \in DOMAIN r.limits /\ r.limits[x] = db[u][x]
    BY <1>2, <1>3, <1>4
  <2>3. QED BY <2>1, <2>2, <1>3, <1>4, <1>7 DEF SessionInv, At
<1>9. QED BY <1>1, <1>6, <1>8, ViewInv

LEMMA PutRateLimitInv ==
  ASSUME IInv, NEW p \in Req, PutRateLimit(p)
  PROVE  IInv'
<1> DEFINE u == req[p].user
           w == One(u, req[p].limits)
<1>1. At(p, "Put") /\ Put(w) /\ Overtakes(p, u) /\ Respond(p, "ok")
  BY DEF PutRateLimit
<1>2. u \in User /\ req[p].limits \in Limits /\ DOMAIN req[p].limits # {}
  BY <1>1 DEF IInv, TypeOK, SessionInv, At
<1>3. DOMAIN w = {u}
  BY DEF One
<1>4. db' = Install(w) /\ txn' = Notify({u})
  BY <1>1, <1>3 DEF Put
<1>5. TxnsOK'
  BY <1>4, NotifyOK DEF IInv, TxnsOK
<1>6. QED BY <1>1, <1>2, <1>4, <1>5, WriteInv

\* DelRateLimit looks, in a read of its own.
LEMMA DelRateLimitOfInv ==
  ASSUME IInv, NEW p \in Req, NEW u \in User, NEW id \in Id, DelRateLimitOf(p, u, id)
  PROVE  IInv'
<1> DEFINE r == [Idle EXCEPT !.pc = "Delete", !.user = u, !.id = id]
<1>1. View /\ stale' = stale \ {p}
  BY DEF DelRateLimitOf, Reads
<1>2. \/ Respond(p, "error") \/ Respond(p, "ok") \/ Goto(p, r)
  BY DEF DelRateLimitOf
<1>3. RecOK(r) /\ r.pc = "Delete"
  BY IdleOK DEF RecOK, Idle
<1>4. QED BY <1>1, <1>2, <1>3, AnswerInv, GoInv

\* delObj reads the key: from here on its transaction knows of other commits.
LEMMA DelObjInv ==
  ASSUME IInv, NEW p \in Req, DelObj(p)
  PROVE  IInv'
<1> DEFINE u == req[p].user
           r == [req[p] EXCEPT !.pc = "Delete.commit"]
<1>1. At(p, "Delete") /\ UNCHANGED stale
  BY DEF DelObj
<1>2. CASE View /\ Respond(p, "error")
  BY <1>1, <1>2, AnswerInv
<1>3. CASE ~Absent(u) /\ DeleteKey(p, u) /\ Goto(p, r)
  <2>1. RecOK(req[p])
    BY TypeParts DEF IInv
  <2>2. u \in User
    BY <1>1, <2>1 DEF RecOK, At
  <2>3. r.pc = "Delete.commit" /\ r.user = u /\ RecOK(r)
    BY <1>1, <2>1 DEF RecOK, At
  <2>4. Moves(p, r)
    BY <1>3, <2>3, GotoMoves DEF IInv
  <2>5. /\ db' = db
        /\ txn' = [txn EXCEPT ![p] = [open |-> TRUE, reads |-> {u}, writes |-> One(u, Nil),
                     dirty |-> {}, snap |-> [k \in {} |-> db[k]]]]
    BY <1>3 DEF DeleteKey, Begin
  <2>6. TxnsOK' /\ txn'[p].reads = {u} /\ txn'[p].writes = One(u, Nil)
    BY <2>5 DEF IInv, TxnsOK, Txn
  <2>7. SessionInv(p)'
    <3>1. req'[p] = r
      BY <2>4 DEF Moves
    <3>2. QED BY <1>3, <2>3, <2>5, <2>6, <3>1 DEF SessionInv, At, Absent
  <2>8. OthersKept(p)
    BY <1>1, <2>5 DEF OthersKept, Kept, IInv, Txn
  <2>9. db' \in [User -> Limits \cup {Nil}] /\ NeverEmpty' /\ stale' \subseteq Req
    BY <1>1, <2>5 DEF IInv, TypeOK, NeverEmpty, Absent
  <2>10. QED BY <2>4, <2>6, <2>7, <2>8, <2>9, StepInv
<1>4. QED BY <1>2, <1>3 DEF DelObj

LEMMA DelObjCommitInv ==
  ASSUME IInv, NEW p \in Req, DelObjCommit(p)
  PROVE  IInv'
<1> DEFINE u == req[p].user
<1>1. At(p, "Delete.commit")
  BY DEF DelObjCommit
<1>2. /\ u \in User
      /\ txn[p].writes = One(u, Nil)
  BY <1>1 DEF IInv, TypeOK, SessionInv, At
<1>3. CASE Discard({p}) /\ Respond(p, "error") /\ UNCHANGED stale
  <2>1. Moves(p, Idle)
    BY <1>3, RespondMoves DEF IInv
  <2>2. SessionInv(p)'
    BY <2>1, IdleOK, RestingInv DEF Moves
  <2>3. db' = db /\ txn' = [t \in Txn |-> IF t = p THEN NoTxn ELSE txn[t]]
    BY <1>3 DEF Discard
  <2>4. TxnsOK'
    BY <2>3 DEF IInv, TxnsOK, NoTxn
  <2>5. OthersKept(p)
    BY <1>3, <2>3 DEF OthersKept, Kept, Txn
  <2>6. db' \in [User -> Limits \cup {Nil}] /\ NeverEmpty' /\ stale' \subseteq Req
    BY <1>3, <2>3 DEF IInv, TypeOK, NeverEmpty, Absent
  <2>7. QED BY <2>1, <2>2, <2>4, <2>5, <2>6, StepInv
<1>4. CASE Commit(p) /\ Overtakes(p, u) /\ Respond(p, "ok")
  <2>1. DOMAIN One(u, Nil) = {u}
    BY DEF One
  <2>2. db' = Install(One(u, Nil)) /\ txn' = [Notify({u}) EXCEPT ![p] = NoTxn]
    BY <1>2, <1>4, <2>1 DEF Commit
  <2>3. TxnsOK'
    <3>1. TxnsOK
      BY DEF IInv, TxnsOK
    <3>2. ASSUME NEW t \in Txn
          PROVE  txn'[t] = [open |-> txn'[t].open, reads |-> txn'[t].reads,
                   writes |-> txn'[t].writes, dirty |-> txn'[t].dirty, snap |-> txn'[t].snap]
      <4>1. CASE t = p
        BY <2>2, <3>1, <4>1, NotifyOK DEF NoTxn
      <4>2. CASE t # p
        BY <2>2, <3>1, <4>2, NotifyOK
      <4>3. QED BY <4>1, <4>2
    <3>3. QED BY <2>2, <3>1, <3>2, NotifyOK DEF TxnsOK
  <2>4. \A q \in Req \ {p} : txn'[q] = Notify({u})[q]
    <3>1. DOMAIN Notify({u}) = Req
      BY DEF Notify, Txn
    <3>2. QED BY <2>2, <3>1
  <2>5. QED BY <1>2, <1>4, <2>2, <2>3, <2>4, WriteInv
<1>5. QED BY <1>3, <1>4 DEF DelObjCommit

\* The commands look first and then call a handler.
LEMMA AddInv ==
  ASSUME IInv, NEW p \in Req, NEW u \in User, NEW id \in Id, NEW v \in Val,
         Add(p, u, id, v) \/ Update(p, u, id, v)
  PROVE  IInv'
<1> DEFINE r == [Idle EXCEPT !.pc = "Upsert", !.user = u, !.id = id, !.val = v]
<1>1. View /\ stale' = stale \ {p}
  BY DEF Add, Update, Reads
<1>2. Respond(p, "error") \/ Goto(p, r)
  BY DEF Add, Update
<1>3. RecOK(r) /\ r.pc = "Upsert"
  BY IdleOK DEF RecOK, Idle
<1>4. QED BY <1>1, <1>2, <1>3, AnswerInv, GoInv

LEMMA DelInv ==
  ASSUME IInv, NEW p \in Req, NEW u \in User, NEW id \in Id, Del(p, u, id)
  PROVE  IInv'
<1> DEFINE r == [Idle EXCEPT !.pc = "Del", !.user = u, !.id = id]
<1>1. View /\ stale' = stale \ {p}
  BY DEF Del, Reads
<1>2. Respond(p, "none") \/ Goto(p, r)
  BY DEF Del
<1>3. RecOK(r) /\ r.pc = "Del"
  BY IdleOK DEF RecOK, Idle
<1>4. QED BY <1>1, <1>2, <1>3, AnswerInv, GoInv

LEMMA UpsertInv ==
  ASSUME IInv, NEW p \in Req, Upsert(p)
  PROVE  IInv'
<1>1. req[p].user \in User /\ req[p].id \in Id /\ req[p].val \in Val
  BY DEF Upsert, At, IInv, TypeOK
<1>2. QED BY <1>1, PutRateLimitOfInv DEF Upsert

LEMMA DelCallInv ==
  ASSUME IInv, NEW p \in Req, DelCall(p)
  PROVE  IInv'
<1>1. req[p].user \in User /\ req[p].id \in Id
  BY DEF DelCall, At, IInv, TypeOK
<1>2. QED BY <1>1, DelRateLimitOfInv DEF DelCall

-----------------------------------------------------------------------------
(* The specification *)

LEMMA InitInv == Init => IInv
<1> SUFFICES ASSUME Init PROVE IInv
  OBVIOUS
<1>1. TypeOK
  BY IdleOK, TypeParts DEF Init, Key
<1>2. \A p \in Req : req[p] = Idle
  BY DEF Init
<1>3. \A p \in Req : SessionInv(p)
  BY <1>2, IdleOK DEF SessionInv, At
<1>4. QED BY <1>1, <1>3 DEF IInv, Init, NeverEmpty, Absent, Key, NoTxn

LEMMA StutterInv == ASSUME IInv, UNCHANGED vars PROVE IInv'
<1>1. \A q \in Req : SessionInv(q)'
  BY DEF IInv, vars, SessionInv, At, ListRateLimits, Absent
<1>2. QED BY <1>1 DEF IInv, vars, TypeOK, At, NeverEmpty, Absent

LEMMA NextInv == IInv /\ [Next]_vars => IInv'
<1> SUFFICES ASSUME IInv, [Next]_vars PROVE IInv'
  OBVIOUS
<1>1. ASSUME NEW p \in Req, NEW u \in User, NEW id \in Id, NEW v \in Val,
             UpsertUserRateLimit(p, u, id, v) \/ Add(p, u, id, v) \/ Update(p, u, id, v)
      PROVE  IInv'
  BY <1>1, PutRateLimitOfInv, AddInv DEF UpsertUserRateLimit
<1>2. ASSUME NEW p \in Req, NEW u \in User, NEW id \in Id,
             DelUserRateLimit(p, u, id) \/ Del(p, u, id)
      PROVE  IInv'
  BY <1>2, DelRateLimitOfInv, DelInv DEF DelUserRateLimit
<1>3. ASSUME NEW p \in Req, PutRateLimit(p) \/ Upsert(p) \/ DelCall(p) \/ DelObj(p) \/ DelObjCommit(p)
      PROVE  IInv'
  BY <1>3, PutRateLimitInv, UpsertInv, DelCallInv, DelObjInv, DelObjCommitInv
<1>4. CASE UNCHANGED vars
  BY <1>4, StutterInv
<1>5. QED BY <1>1, <1>2, <1>3, <1>4 DEF Next

\* The inductive invariant holds of every execution.
THEOREM Inductive == Spec => []IInv
BY InitInv, NextInv, PTL DEF Spec

\* A user has no key or a map of limits, whatever sessions cross.
THEOREM Typing == Spec => []TypeOK
<1>1. IInv => TypeOK
  BY DEF IInv
<1>2. QED BY <1>1, Inductive, PTL

\* No map is ever stored empty: a put always has its limit, and a deletion
\* removes the key (badger.go:341-343).
THEOREM NoEmptyMap == Spec => []NeverEmpty
<1>1. IInv => NeverEmpty
  BY DEF IInv
<1>2. QED BY <1>1, Inductive, PTL

\* A delObj that can still commit deletes a map that is there: the key was read
\* in the same transaction (badger_helper.go:52-60).
THEOREM DeletionsOfPresent == Spec => []DeletesPresent
<1>1. IInv => DeletesPresent
  BY DEF IInv, SessionInv, DeletesPresent, Conflict
<1>2. QED BY <1>1, Inductive, PTL

\* Only its own step moves a session.
LEMMA OnlyOwnSteps ==
  ASSUME TypeOK, NEW p \in Req, NEW q \in Req, req'[p] # req[p],
         (\E a : Respond(q, a)) \/ (\E r : Goto(q, r))
  PROVE  q = p
BY DEF TypeOK, Respond, Goto

\* A session leaves its put only by putting.
LEMMA OnlyPut ==
  ASSUME IInv, Next, NEW p \in Req, At(p, "Put"), ~At(p, "Put")'
  PROVE  PutRateLimit(p)
<1> DEFINE Moved(q) == (\E a : Respond(q, a)) \/ (\E r : Goto(q, r))
<1>1. req'[p] # req[p]
  BY DEF At
<1>2. ASSUME NEW q \in Req, Moved(q) PROVE q = p
  BY <1>1, <1>2, OnlyOwnSteps DEF IInv
<1>3. ASSUME NEW q \in Req, NEW u \in User, NEW id \in Id, NEW v \in Val,
             UpsertUserRateLimit(q, u, id, v) \/ Add(q, u, id, v) \/ Update(q, u, id, v)
      PROVE  FALSE
  <2>1. At(q, "idle") /\ Moved(q)
    BY <1>3 DEF UpsertUserRateLimit, PutRateLimitOf, Add, Update, Starts
  <2>2. QED BY <2>1, <1>2 DEF At
<1>4. ASSUME NEW q \in Req, NEW u \in User, NEW id \in Id,
             DelUserRateLimit(q, u, id) \/ Del(q, u, id)
      PROVE  FALSE
  <2>1. At(q, "idle") /\ Moved(q)
    BY <1>4 DEF DelUserRateLimit, DelRateLimitOf, Del, Starts
  <2>2. QED BY <2>1, <1>2 DEF At
<1>5. ASSUME NEW q \in Req, Upsert(q) \/ DelCall(q) \/ DelObj(q) \/ DelObjCommit(q)
      PROVE  FALSE
  <2>1. ~At(q, "Put") /\ Moved(q)
    BY <1>5 DEF Upsert, PutRateLimitOf, DelCall, DelRateLimitOf, DelObj, DelObjCommit, At
  <2>2. QED BY <2>1, <1>2
<1>6. ASSUME NEW q \in Req, PutRateLimit(q) PROVE q = p
  BY <1>6, <1>2 DEF PutRateLimit
<1>7. QED BY <1>3, <1>4, <1>5, <1>6 DEF Next

\* A PutRateLimit that was not overtaken between its read and its put changes
\* one limit and keeps the others.
THEOREM OthersStay == Spec => PutKeepsOthers
<1> DEFINE Keeps ==
      \A p \in Req, u \in User :
        At(p, "Put") /\ ~At(p, "Put")' /\ p \notin stale /\ u = req[p].user =>
          \A id \in DOMAIN ListRateLimits(u) \ {req[p].id} :
            id \in DOMAIN ListRateLimits(u)' /\ db'[u][id] = db[u][id]
<1>1. ASSUME IInv, Next, NEW p \in Req, NEW u \in User,
             At(p, "Put"), ~At(p, "Put")', p \notin stale, u = req[p].user,
             NEW id \in DOMAIN ListRateLimits(u) \ {req[p].id}
      PROVE  id \in DOMAIN ListRateLimits(u)' /\ db'[u][id] = db[u][id]
  <2> DEFINE f == req[p].limits
  <2>1. PutRateLimit(p)
    BY <1>1, OnlyPut
  <2>2. id \in DOMAIN f /\ f[id] = db[u][id]
    BY <1>1 DEF IInv, SessionInv
  <2>3. db'[u] = f
    BY <2>1, <1>1 DEF PutRateLimit, Put, Install, One, Key
  <2>4. f # Nil
    BY <1>1, ConstantsOK DEF IInv, TypeOK
  <2>5. QED BY <2>2, <2>3, <2>4 DEF ListRateLimits, Absent
<1>2. IInv /\ [Next]_vars => [Keeps]_vars
  BY <1>1
<1>3. Spec => [][Keeps]_vars
  BY <1>2, Inductive, PTL DEF Spec
<1>4. QED BY <1>3 DEF PutKeepsOthers
=============================================================================
