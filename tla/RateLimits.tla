----------------------------- MODULE RateLimits -----------------------------
(***************************************************************************)
(* The request rate limits of users: the three handlers over               *)
(* storage/badger.go:291-361, which keeps all limits of a user as one map  *)
(* under one key, and the commands of cli/user.go:347-486, which look      *)
(* before they call a handler.                                             *)
(*                                                                         *)
(* A session p is an HTTP request, or a CLI command and the requests it    *)
(* sends one after the other.                                              *)
(***************************************************************************)
EXTENDS Naturals, Functions

CONSTANTS User, Id,
          Val,   \* what a limit allows: ReqLimit with its service and API
          Req,   \* sessions at once
          Ops,   \* the operations sessions may start
          Nil

Key == User
Txn == Req

Limits == UNION {[S -> Val] : S \in SUBSET Id}
NoLimits == [id \in {} |-> Nil]

ASSUME ConstantsOK == Nil \notin Limits \cup User \cup Id \cup Val

VARIABLES db, txn,
          req,    \* req[p]: what session p is doing
          out,    \* out[p]: the answer the last step gave
          stale   \* sessions whose copy of a map another commit overtook

vars == <<db, txn, req, out, stale>>

INSTANCE Badger

Absent(u) == db[u] = Nil
ListRateLimits(u) == IF Absent(u) THEN NoLimits ELSE db[u]
Idle == [pc |-> "idle", user |-> Nil, id |-> Nil, val |-> Nil, limits |-> NoLimits]
Silent == [p \in Req |-> "none"]

At(p, pc) == req[p].pc = pc
Starts(p, op) == op \in Ops /\ At(p, "idle")

Respond(p, a) == /\ req' = [req EXCEPT ![p] = Idle]
                 /\ out' = [Silent EXCEPT ![p] = a]
Goto(p, r) == /\ req' = [req EXCEPT ![p] = r]
              /\ out' = Silent

\* A step of p that reads, and one that changes the limits of u.
Reads(p) == View /\ stale' = stale \ {p}
Overtakes(p, u) ==
  stale' = (stale \ {p}) \cup {q \in Req \ {p} : At(q, "Put") /\ req[q].user = u}
-----------------------------------------------------------------------------
JustThis(f, id, v) == [x \in {id} |-> v]     \* slip: as DelRateLimit reads it
NilPut(f, id, v) ==                         \* slip: the limit is left out
  [x \in DOMAIN f \cup {id} |-> IF x = id THEN Nil ELSE f[x]]
With(f, id, v) == [x \in DOMAIN f \cup {id} |-> IF x = id THEN v ELSE f[x]]

\* PutRateLimit reads the map of the user in one transaction and puts it
\* back with the limit, in another that reads nothing.
PutRateLimitOf(p, u, id, v) ==
  /\ Reads(p)
  /\ Goto(p, [Idle EXCEPT !.pc = "Put", !.user = u, !.id = id,
                 !.limits = With(ListRateLimits(u), id, v)])

UpsertUserRateLimit(p, u, id, v) ==
  Starts(p, "UpsertUserRateLimit") /\ PutRateLimitOf(p, u, id, v)

PutRateLimit(p) ==
  LET u == req[p].user IN
  /\ At(p, "Put")
  /\ Put(One(u, req[p].limits))
  /\ Overtakes(p, u)
  /\ Respond(p, "ok")

\* DelRateLimit reads only the limit it deletes, finds the map empty without
\* it, and so deletes the key of the user with delObj.
DelRateLimitOf(p, u, id) ==
  /\ Reads(p)
  /\ LET read == Restrict(ListRateLimits(u), {id} \cap DOMAIN ListRateLimits(u))
         rest == DOMAIN read \ {id}
     IN \/ Absent(u) /\ Respond(p, "error")
        \/ ~Absent(u) /\ id \notin DOMAIN read /\ Respond(p, "ok")
        \/ /\ ~Absent(u) /\ id \in DOMAIN read
           /\ rest = {}
           /\ Goto(p, [Idle EXCEPT !.pc = "Delete", !.user = u, !.id = id])

DelUserRateLimit(p, u, id) ==
  Starts(p, "DelUserRateLimit") /\ DelRateLimitOf(p, u, id)

BlindDelete(p, u) == Begin(p, {}, One(u, Nil), {})       \* slip: read elsewhere
PutEmpty(p, u) == Begin(p, {u}, One(u, NoLimits), {})    \* slip: key is kept
DeleteKey(p, u) == Begin(p, {u}, One(u, Nil), {})

DelObj(p) ==
  LET u == req[p].user IN
  /\ At(p, "Delete")
  /\ \/ Absent(u) /\ View /\ Respond(p, "error")
     \/ /\ ~Absent(u)
        /\ DeleteKey(p, u)
        /\ Goto(p, [req[p] EXCEPT !.pc = "Delete.commit"])
  /\ UNCHANGED stale

DelObjCommit(p) ==
  /\ At(p, "Delete.commit")
  /\ \/ Conflict(p) /\ Discard({p}) /\ Respond(p, "error") /\ UNCHANGED stale
     \/ Commit(p) /\ Overtakes(p, req[p].user) /\ Respond(p, "ok")
-----------------------------------------------------------------------------
(* The commands: each asks for the limits first, in a request of its own.  *)

\* Add drops the error of that request, so one that fails finds no limit.
Add(p, u, id, v) ==
  /\ Starts(p, "Add")
  /\ Reads(p)
  /\ \/ DOMAIN ListRateLimits(u) # {} /\ Respond(p, "error")
     \/ Goto(p, [Idle EXCEPT !.pc = "Upsert", !.user = u, !.id = id, !.val = v])

Update(p, u, id, v) ==
  /\ Starts(p, "Update")
  /\ Reads(p)
  /\ \/ id \notin DOMAIN ListRateLimits(u) /\ Respond(p, "error")
     \/ /\ id \in DOMAIN ListRateLimits(u)
        /\ Goto(p, [Idle EXCEPT !.pc = "Upsert", !.user = u, !.id = id, !.val = v])

Upsert(p) ==
  At(p, "Upsert") /\ PutRateLimitOf(p, req[p].user, req[p].id, req[p].val)

Del(p, u, id) ==
  /\ Starts(p, "Del")
  /\ Reads(p)
  /\ \/ id \notin DOMAIN ListRateLimits(u) /\ Respond(p, "none")
     \/ /\ id \in DOMAIN ListRateLimits(u)
        /\ Goto(p, [Idle EXCEPT !.pc = "Del", !.user = u, !.id = id])

DelCall(p) == At(p, "Del") /\ DelRateLimitOf(p, req[p].user, req[p].id)

Init ==
  /\ db = [u \in Key |-> Nil]
  /\ txn = [t \in Txn |-> NoTxn]
  /\ req = [p \in Req |-> Idle]
  /\ out = Silent
  /\ stale = {}

Next == \E p \in Req :
  \/ \E u \in User, id \in Id, v \in Val :
       UpsertUserRateLimit(p, u, id, v) \/ Add(p, u, id, v) \/ Update(p, u, id, v)
  \/ \E u \in User, id \in Id : DelUserRateLimit(p, u, id) \/ Del(p, u, id)
  \/ PutRateLimit(p) \/ Upsert(p) \/ DelCall(p) \/ DelObj(p) \/ DelObjCommit(p)

Spec == Init /\ [][Next]_vars
-----------------------------------------------------------------------------
(* Properties *)

\* A user has no key or a map of limits, and a session that puts or deletes
\* knows the user and the limit (the types of store.go:335-384).
TypeOK ==
  /\ db \in [User -> Limits \cup {Nil}]
  /\ DOMAIN req = Req
  /\ \A p \in Req :
       /\ req[p].limits \in Limits
       /\ ~At(p, "idle") => req[p].user \in User /\ req[p].id \in Id
       /\ At(p, "Upsert") => req[p].val \in Val
  /\ stale \subseteq Req

\* No map is stored empty, however puts and deletes of the same user cross:
\* a user without limits has no key (badger.go:341-343), so that DelRateLimit
\* of such a user is an error and not a silent success.
NeverEmpty ==
  \A u \in User : ~Absent(u) => DOMAIN db[u] # {}

\* What session p relies on: a map that it is about to put back is the one of
\* the database with one limit set, or p is stale; a deletion that is about to
\* commit has read a key that is still there, or that it knows to be dirty.
SessionInv(p) ==
  LET r == req[p]
      t == txn[p]
  IN /\ At(p, "Put") =>
          /\ r.id \in DOMAIN r.limits
          /\ p \notin stale =>
               \A id \in DOMAIN ListRateLimits(r.user) \ {r.id} :
                 id \in DOMAIN r.limits /\ r.limits[id] = db[r.user][id]
     /\ At(p, "Delete.commit") =>
          /\ t.reads = {r.user} /\ t.writes = One(r.user, Nil)
          /\ Absent(r.user) => r.user \in t.dirty

\* The inductive invariant: no map is empty, and each session can rely on what
\* it has read unless it, or its transaction, was overtaken.
IInv == /\ TypeOK
        /\ NeverEmpty
        /\ DOMAIN txn = Txn
        /\ \A t \in Txn : txn[t] = [open |-> txn[t].open, reads |-> txn[t].reads,
             writes |-> txn[t].writes, dirty |-> txn[t].dirty, snap |-> txn[t].snap]
        /\ \A p \in Req : SessionInv(p)

\* A PutRateLimit whose read no other commit has overtaken changes one limit
\* of the user and keeps the others.
PutKeepsOthers ==
  [][\A p \in Req, u \in User :
       At(p, "Put") /\ ~At(p, "Put")' /\ p \notin stale /\ u = req[p].user =>
         \A id \in DOMAIN ListRateLimits(u) \ {req[p].id} :
           id \in DOMAIN ListRateLimits(u)' /\ db'[u][id] = db[u][id]]_vars

\* Of several delObj of the same map one answers ok, and it deletes a map
\* that is there (badger_helper.go:52-60).
DeletesPresent ==
  \A p \in Req : At(p, "Delete.commit") /\ ~Conflict(p) => ~Absent(req[p].user)

\* "delete user request rate limit", of a user and a rate-limit-id
\* (cli/user.go:454-456): the other limits of the user stay.
DeletesOne ==
  [][\A p \in Req, u \in User :
       At(p, "Delete.commit") /\ out'[p] = "ok" /\ u = req[p].user =>
         \A id \in DOMAIN ListRateLimits(u) \ {req[p].id} :
           id \in DOMAIN ListRateLimits(u)']_vars
=============================================================================
