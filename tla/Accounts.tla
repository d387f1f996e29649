------------------------------ MODULE Accounts ------------------------------
(***************************************************************************)
(* Users, the miners bound to them (1-1) and the signers bound to them     *)
(* (n-n): the handlers of auth/jwt.go over storage/badger.go.              *)
(*                                                                         *)
(* net/http runs each request in a goroutine of its own and the handlers   *)
(* take no lock, so every point between two store transactions, and the    *)
(* time between the first read and the commit of one transaction, is open  *)
(* to the other requests.  A request is therefore a program counter with   *)
(* the locals it carries, and one action is one store transaction (or the  *)
(* begin or the commit of one that can conflict).                          *)
(***************************************************************************)
EXTENDS Naturals, Sequences

CONSTANTS User, Miner, Signer,  \* names and addresses clients may send; UpsertMiner
                                \* refuses miners without an ID address (jwt.go:525)
          BadAddr,              \* an address that cannot sign (IsSignerAddress)
          UserState,            \* states CreateUser and UpdateUser may be sent
          Batch,                \* signer lists RegisterSigners may be sent
          Req,                  \* requests in flight at once
          Ops,                  \* the operations clients may call
          Nil

Undefined == "undefined"        \* core.UserStateUndefined

Operation == {"CreateUser", "UpdateUser", "DeleteUser", "RecoverUser",
              "UpsertMiner", "DelMiner", "OwnerDelMiner", "GetUserByMiner",
              "RegisterSigners", "UnregisterSigners", "DelSigner",
              "OwnerDelSigner", "GetUserBySigner", "Crash"}

VARIABLES db,   \* the badger database
          txn,  \* its open transactions
          req,  \* req[p]: what request p is doing
          out   \* out[p]: the answer the last step gave to p's client

vars == <<db, txn, req, out>>
-----------------------------------------------------------------------------
\* Keys.  The prefixes are the code's; a signer is keyed with its user.
UserKey(u)      == <<"USER", u>>
MinerKey(m)     == <<"MINERS", m>>
SignerKey(s, u) == <<"SIGNERS", <<s, u>>>>

UserKeys   == {UserKey(u) : u \in User}
MinerKeys  == {MinerKey(m) : m \in Miner}
SignerKeys == {SignerKey(s, u) : s \in Signer, u \in User}
Key == UserKeys \cup MinerKeys \cup SignerKeys

UserRec   == [state : UserState \cup {Undefined}, deleted : BOOLEAN]
MinerRec  == [user : User, deleted : BOOLEAN]
SignerRec == [deleted : BOOLEAN]

ASSUME ConstantsOK ==
  /\ BadAddr \notin Signer
  /\ Nil \notin User \cup Miner \cup Signer
  /\ Nil \notin UserRec \cup MinerRec \cup SignerRec
  /\ Batch \subseteq Seq(Signer \cup {BadAddr})
  /\ Ops \subseteq Operation

\* Each request has an update transaction or a walk's view (main), and a
\* second update transaction while DeleteUser holds the first one open (sub).
Main(p) == <<p, "main">>
Sub(p)  == <<p, "sub">>
Txn == Req \X {"main", "sub"}

INSTANCE Badger

Absent(k) == db[k] = Nil
Live(k)   == db[k] # Nil /\ ~db[k].deleted
\* UpsertMiner and RegisterSigner look for the key of the user only.
AnyUser(u) == TRUE                                   \* slip: no look at all
UserExists(u) == ~Absent(UserKey(u))

BlankErased(r) == [deleted |-> TRUE]                 \* slip: record not decoded
NotErased(r) == r                                    \* slip: mark not set
Erased(r) == [r EXCEPT !.deleted = TRUE]

Owns(u, m) == Live(MinerKey(m)) /\ db[MinerKey(m)].user = u
EveryMiner(u) == {m \in Miner : Live(MinerKey(m))}    \* slip: no owner filter
ListMiners(u) == {m \in Miner : Owns(u, m)}
ListSigner(u) == {s \in Signer : Live(SignerKey(s, u))}
IsSignerAddress(a) == a \in Signer

BlindSoftDelete(t, k) ==                             \* slip: read elsewhere
  Begin(t, {}, One(k, Erased(db[k])), {})

\* An update transaction that reads k and marks its record deleted.
SoftDelete(t, k) == Begin(t, {k}, One(k, Erased(db[k])), {})
-----------------------------------------------------------------------------
(* Requests *)
Idle == [pc |-> "idle", user |-> Nil, addr |-> Nil, rec |-> Nil,
         res |-> "none", list |-> <<>>, todo |-> {}, found |-> {}]

Answers == {"none", "ok", "error", "true", "false"}
Silent  == [p \in Req |-> "none"]

Starts(p, op) == op \in Ops /\ req[p].pc = "idle"
At(p, pc) == req[p].pc = pc

\* p answers its client, or goes on to another step.
Respond(p, a) == /\ req' = [req EXCEPT ![p] = Idle]
                 /\ out' = [Silent EXCEPT ![p] = a]
Goto(p, r) == /\ req' = [req EXCEPT ![p] = r]
              /\ out' = Silent

\* The end of p's transaction t: an ErrConflict is answered as any error.
Finish(p, t, a) == \/ Commit(t) /\ Respond(p, a)
                   \/ Conflict(t) /\ Discard({t}) /\ Respond(p, "error")
-----------------------------------------------------------------------------
(* Users.  CreateUser, UpdateUser and RecoverUser read the record in one   *)
(* transaction and put a whole record in another that reads nothing.       *)
CreateUser(p, u, st) ==
  /\ Starts(p, "CreateUser")
  /\ View
  /\ \/ Live(UserKey(u)) /\ Respond(p, "error")
     \/ /\ ~Live(UserKey(u))
        /\ Goto(p, [Idle EXCEPT !.pc = "PutUser", !.user = u,
                                !.rec = [state |-> st, deleted |-> FALSE]])

UpdateUser(p, u, st) ==
  /\ Starts(p, "UpdateUser")
  /\ View
  /\ \/ ~Live(UserKey(u)) /\ Respond(p, "error")
     \/ /\ Live(UserKey(u))
        /\ Goto(p, [Idle EXCEPT !.pc = "PutUser", !.user = u,
                                !.rec = [db[UserKey(u)] EXCEPT
                                   !.state = IF st = Undefined THEN @ ELSE st]])

RecoverUser(p, u) ==
  /\ Starts(p, "RecoverUser")
  /\ View
  /\ \/ (Absent(UserKey(u)) \/ Live(UserKey(u))) /\ Respond(p, "error")
     \/ /\ ~Absent(UserKey(u)) /\ ~Live(UserKey(u))
        /\ Goto(p, [Idle EXCEPT !.pc = "PutUser", !.user = u,
                                !.rec = [db[UserKey(u)] EXCEPT !.deleted = FALSE]])

PutUser(p) ==
  /\ At(p, "PutUser")
  /\ Put(One(UserKey(req[p].user), req[p].rec))
  /\ Respond(p, "ok")

(* DeleteUser is one update transaction for the user and its miners, but   *)
(* it lists the miners and walks the signers in views of their own, and    *)
(* each signer is unregistered by a transaction of its own that commits    *)
(* whatever becomes of the outer one.                                      *)
DeleteUser(p, u) ==
  /\ Starts(p, "DeleteUser")
  /\ \/ ~Live(UserKey(u)) /\ View /\ Respond(p, "error")
     \/ /\ Live(UserKey(u))
        /\ Begin(Main(p), {UserKey(u)},
                 One(UserKey(u), Erased(db[UserKey(u)])),
                 MinerKeys \cup {SignerKey(s, u) : s \in Signer})
        /\ Goto(p, [Idle EXCEPT !.pc = "DeleteUser.miners", !.user = u])

DeleteUserMiners(p) ==
  LET snap   == txn[Main(p)].snap
      listed == {MinerKey(m) : m \in ListMiners(req[p].user)}
  IN /\ At(p, "DeleteUser.miners")
     /\ \/ /\ \E k \in listed : snap[k] = Nil
           /\ Discard({Main(p)})
           /\ Respond(p, "error")
        \/ /\ \A k \in listed : snap[k] # Nil
           /\ Extend(Main(p), listed, [k \in listed |-> Erased(snap[k])])
           /\ Goto(p, [req[p] EXCEPT !.pc = "DeleteUser.signers"])

DeleteUserSigners(p) ==
  /\ At(p, "DeleteUser.signers")
  /\ View
  /\ Goto(p, [req[p] EXCEPT !.pc = "DeleteUser.walk",
                            !.todo = ListSigner(req[p].user)])

\* The walk reaches s: softDelObj begins, unless another request already
\* deleted s, which is an error that aborts the whole DeleteUser.
DeleteUserWalk(p, s) ==
  LET k == SignerKey(s, req[p].user) IN
  /\ At(p, "DeleteUser.walk")
  /\ s \in req[p].todo
  /\ \/ /\ ~Live(k)
        /\ Discard({Main(p)})
        /\ Respond(p, "error")
     \/ /\ Live(k)
        /\ SoftDelete(Sub(p), k)
        /\ Goto(p, [req[p] EXCEPT !.pc = "DeleteUser.unregister", !.addr = s])

DeleteUserUnregister(p) ==
  /\ At(p, "DeleteUser.unregister")
  /\ \/ /\ Conflict(Sub(p))
        /\ Discard({Main(p), Sub(p)})
        /\ Respond(p, "error")
     \/ /\ Commit(Sub(p))
        /\ Goto(p, [req[p] EXCEPT !.pc = "DeleteUser.walk", !.addr = Nil,
                                  !.todo = @ \ {req[p].addr}])

DeleteUserCommit(p) ==
  /\ At(p, "DeleteUser.walk")
  /\ req[p].todo = {}
  /\ Finish(p, Main(p), "ok")
-----------------------------------------------------------------------------
(* Miners *)

\* Only the presence of the user's key is checked, not its deleted mark.
UpsertMiner(p, m, u) ==
  /\ Starts(p, "UpsertMiner")
  /\ \/ ~UserExists(u) /\ View /\ Respond(p, "error")
     \/ /\ UserExists(u)
        /\ Begin(Main(p), {UserKey(u), MinerKey(m)},
                 One(MinerKey(m), [user |-> u, deleted |-> FALSE]), {})
        /\ Goto(p, [Idle EXCEPT !.pc = "UpsertMiner", !.user = u, !.addr = m,
                      !.res = IF Absent(MinerKey(m)) THEN "true" ELSE "false"])

UpsertMinerCommit(p) ==
  /\ At(p, "UpsertMiner")
  /\ Finish(p, Main(p), req[p].res)

\* badgerStore.DelMiner: no key is "false", a deleted record is an error.
DelMinerBegin(p, m) ==
  \/ Absent(MinerKey(m)) /\ View /\ Respond(p, "false")
  \/ /\ ~Absent(MinerKey(m)) /\ ~Live(MinerKey(m))
     /\ View /\ Respond(p, "error")
  \/ /\ Live(MinerKey(m))
     /\ SoftDelete(Main(p), MinerKey(m))
     /\ Goto(p, [Idle EXCEPT !.pc = "DelMiner", !.addr = m, !.res = "true"])

DelMiner(p, m) == Starts(p, "DelMiner") /\ DelMinerBegin(p, m)

DelMinerCommit(p) ==
  /\ At(p, "DelMiner")
  /\ Finish(p, Main(p), "true")

\* The caller u has no admin permission: its ownership is looked up first.
OwnerDelMiner(p, m, u) ==
  /\ Starts(p, "OwnerDelMiner")
  /\ View
  /\ \/ ~Owns(u, m) /\ Respond(p, "error")
     \/ Owns(u, m) /\ Goto(p, [Idle EXCEPT !.pc = "OwnerDelMiner", !.addr = m])

OwnerDelMinerBegin(p) ==
  At(p, "OwnerDelMiner") /\ DelMinerBegin(p, req[p].addr)

\* Two views: the miner, then its user.
GetUserByMiner(p, m) ==
  /\ Starts(p, "GetUserByMiner")
  /\ View
  /\ \/ ~Live(MinerKey(m)) /\ Respond(p, "error")
     \/ /\ Live(MinerKey(m))
        /\ Goto(p, [Idle EXCEPT !.pc = "GetUserByMiner",
                                !.user = db[MinerKey(m)].user])

GetUserByMinerUser(p) ==
  /\ At(p, "GetUserByMiner")
  /\ View
  /\ \/ Live(UserKey(req[p].user)) /\ Respond(p, "ok")
     \/ ~Live(UserKey(req[p].user)) /\ Respond(p, "error")
-----------------------------------------------------------------------------
(* Signers.  A batch is one transaction per signer, in order; the first    *)
(* error ends it and what was done before stays done.                      *)
RegisterSigners(p, u, list) ==
  /\ Starts(p, "RegisterSigners")
  /\ View
  /\ Goto(p, [Idle EXCEPT !.pc = "Register", !.user = u, !.list = list])

RegisterSigner(p) ==
  LET u == req[p].user
      k == SignerKey(Head(req[p].list), u)
  IN /\ At(p, "Register")
     /\ \/ req[p].list = <<>> /\ View /\ Respond(p, "ok")
        \/ /\ req[p].list # <<>>
           /\ IsSignerAddress(Head(req[p].list)) => ~UserExists(u)
           /\ View /\ Respond(p, "error")
        \/ /\ req[p].list # <<>>
           /\ IsSignerAddress(Head(req[p].list))
           /\ UserExists(u)
           /\ Begin(Main(p), {UserKey(u), k}, One(k, [deleted |-> FALSE]), {})
           /\ Goto(p, [req[p] EXCEPT !.pc = "Register.commit"])

UnregisterSigners(p, u, list) ==
  /\ Starts(p, "UnregisterSigners")
  /\ View
  /\ Goto(p, [Idle EXCEPT !.pc = "Unregister", !.user = u, !.list = list])

\* A signer that was never bound is passed over, a deleted one is an error.
UnregisterSigner(p) ==
  LET a == Head(req[p].list)
      k == SignerKey(a, req[p].user)
  IN /\ At(p, "Unregister")
     /\ \/ req[p].list = <<>> /\ View /\ Respond(p, "ok")
        \/ /\ req[p].list # <<>>
           /\ IsSignerAddress(a) => ~Absent(k) /\ ~Live(k)
           /\ View /\ Respond(p, "error")
        \/ /\ req[p].list # <<>>
           /\ IsSignerAddress(a) /\ Absent(k)
           /\ View /\ Goto(p, [req[p] EXCEPT !.list = Tail(@)])
        \/ /\ req[p].list # <<>>
           /\ IsSignerAddress(a) /\ Live(k)
           /\ SoftDelete(Main(p), k)
           /\ Goto(p, [req[p] EXCEPT !.pc = "Unregister.commit"])

\* slip: the batch does not go on to the next signer
StuckBatchCommit(p, pc) ==
  /\ Commit(Main(p))
  /\ Goto(p, [req[p] EXCEPT !.pc = pc])

BatchCommit(p, pc) ==
  /\ \/ Conflict(Main(p)) /\ Discard({Main(p)}) /\ Respond(p, "error")
     \/ /\ Commit(Main(p))
        /\ Goto(p, [req[p] EXCEPT !.pc = pc, !.list = Tail(@)])

RegisterCommit(p)   == At(p, "Register.commit") /\ BatchCommit(p, "Register")
UnregisterCommit(p) == At(p, "Unregister.commit") /\ BatchCommit(p, "Unregister")

\* DelSigner walks the users of a signer in a view that stays open, and
\* puts each live binding back, deleted, in a transaction that reads nothing.
DelSignerBegin(p, s) ==
  LET bound == {u \in User : Live(SignerKey(s, u))} IN
  /\ Begin(Main(p), {}, NoWrites, {SignerKey(s, u) : u \in User})
  /\ Goto(p, [Idle EXCEPT !.pc = "DelSigner", !.addr = s, !.todo = bound,
                          !.res = IF bound = {} THEN "false" ELSE "true"])

DelSigner(p, s) == Starts(p, "DelSigner") /\ DelSignerBegin(p, s)

OwnerDelSigner(p, s, u) ==
  /\ Starts(p, "OwnerDelSigner")
  /\ View
  /\ \/ ~Live(SignerKey(s, u)) /\ Respond(p, "error")
     \/ /\ Live(SignerKey(s, u))
        /\ Goto(p, [Idle EXCEPT !.pc = "OwnerDelSigner", !.addr = s])

OwnerDelSignerBegin(p) ==
  At(p, "OwnerDelSigner") /\ DelSignerBegin(p, req[p].addr)

DelSignerWalk(p, u) ==
  LET k == SignerKey(req[p].addr, u) IN
  /\ At(p, "DelSigner")
  /\ u \in req[p].todo
  /\ Put(One(k, Erased(txn[Main(p)].snap[k])))
  /\ Goto(p, [req[p] EXCEPT !.todo = @ \ {u}])

DelSignerDone(p) ==
  /\ At(p, "DelSigner")
  /\ req[p].todo = {}
  /\ Discard({Main(p)})
  /\ Respond(p, req[p].res)

\* The walk meets deleted bindings too, and a user that GetUser does not
\* return ends the whole lookup with an error.
GetUserBySigner(p, s) ==
  /\ Starts(p, "GetUserBySigner")
  /\ View
  /\ Goto(p, [Idle EXCEPT !.pc = "GetUserBySigner", !.addr = s,
                          !.todo = {u \in User : ~Absent(SignerKey(s, u))}])

GetUserBySignerWalk(p, u) ==
  /\ At(p, "GetUserBySigner")
  /\ u \in req[p].todo
  /\ View
  /\ \/ ~Live(UserKey(u)) /\ Respond(p, "error")
     \/ /\ Live(UserKey(u))
        /\ Goto(p, [req[p] EXCEPT !.todo = @ \ {u}, !.found = @ \cup {u}])

GetUserBySignerDone(p) ==
  /\ At(p, "GetUserBySigner")
  /\ req[p].todo = {}
  /\ View
  /\ Respond(p, "ok")
-----------------------------------------------------------------------------
\* The process dies: open transactions and requests are gone, commits stay.
Crash ==
  /\ "Crash" \in Ops
  /\ db' = db
  /\ txn' = [t \in Txn |-> NoTxn]
  /\ req' = [p \in Req |-> Idle]
  /\ out' = Silent

Init ==
  /\ db = [k \in Key |-> Nil]
  /\ txn = [t \in Txn |-> NoTxn]
  /\ req = [p \in Req |-> Idle]
  /\ out = Silent

\* A client sends a request to a free goroutine.
Call(p) ==
  \/ \E u \in User, st \in UserState : CreateUser(p, u, st) \/ UpdateUser(p, u, st)
  \/ \E u \in User : RecoverUser(p, u) \/ DeleteUser(p, u)
  \/ \E m \in Miner, u \in User : UpsertMiner(p, m, u) \/ OwnerDelMiner(p, m, u)
  \/ \E m \in Miner : DelMiner(p, m) \/ GetUserByMiner(p, m)
  \/ \E u \in User, l \in Batch : RegisterSigners(p, u, l) \/ UnregisterSigners(p, u, l)
  \/ \E s \in Signer, u \in User : OwnerDelSigner(p, s, u)
  \/ \E s \in Signer : DelSigner(p, s) \/ GetUserBySigner(p, s)

\* A request in flight takes its next step.
Step(p) ==
  \/ PutUser(p)
  \/ DeleteUserMiners(p) \/ DeleteUserSigners(p)
  \/ \E s \in Signer : DeleteUserWalk(p, s)
  \/ DeleteUserUnregister(p) \/ DeleteUserCommit(p)
  \/ UpsertMinerCommit(p) \/ OwnerDelMinerBegin(p) \/ DelMinerCommit(p)
  \/ GetUserByMinerUser(p)
  \/ RegisterSigner(p) \/ RegisterCommit(p)
  \/ UnregisterSigner(p) \/ UnregisterCommit(p)
  \/ OwnerDelSignerBegin(p) \/ DelSignerDone(p)
  \/ \E u \in User : DelSignerWalk(p, u) \/ GetUserBySignerWalk(p, u)
  \/ GetUserBySignerDone(p)

Next == Crash \/ \E p \in Req : Call(p) \/ Step(p)

Spec == Init /\ [][Next]_vars

\* A goroutine that can run is run; clients need not call.
FairSpec == Spec /\ \A p \in Req : WF_vars(Step(p))
-----------------------------------------------------------------------------
(* Properties *)

PC == {"idle", "PutUser", "DeleteUser.miners", "DeleteUser.signers",
       "DeleteUser.walk", "DeleteUser.unregister", "UpsertMiner", "DelMiner",
       "OwnerDelMiner", "GetUserByMiner", "Register", "Register.commit",
       "Unregister", "Unregister.commit", "DelSigner", "OwnerDelSigner",
       "GetUserBySigner"}

\* Records are stored under keys of their own kind, in the database, in a
\* transaction's snapshot and among its pending writes.
Typed(f) ==
  /\ DOMAIN f \subseteq Key
  /\ \A k \in UserKeys \cap DOMAIN f : f[k] \in UserRec \cup {Nil}
  /\ \A k \in MinerKeys \cap DOMAIN f : f[k] \in MinerRec \cup {Nil}
  /\ \A k \in SignerKeys \cap DOMAIN f : f[k] \in SignerRec \cup {Nil}

\* A transaction never sets a key to Nil: nothing here removes a key.
Writable(w) == Typed(w) /\ \A k \in DOMAIN w : w[k] # Nil

TxnOK(t) ==
  /\ t = [open |-> t.open, reads |-> t.reads, writes |-> t.writes,
          dirty |-> t.dirty, snap |-> t.snap]
  /\ t.open \in BOOLEAN
  /\ t.reads \subseteq Key
  /\ t.dirty \subseteq Key
  /\ Writable(t.writes)
  /\ Typed(t.snap)

ReqRec == [pc : PC, user : User \cup {Nil}, addr : Miner \cup Signer \cup {Nil},
           rec : UserRec \cup {Nil}, res : Answers,
           list : Seq(Signer \cup {BadAddr}),
           todo : SUBSET (User \cup Signer), found : SUBSET User]

\* The locals a handler has at each of its steps.
LocalsOK(r) ==
  /\ r.pc = "PutUser" => r.user \in User /\ r.rec \in UserRec
  /\ r.pc \in {"DeleteUser.miners", "DeleteUser.signers", "DeleteUser.walk",
              "DeleteUser.unregister"} => r.user \in User /\ r.todo \subseteq Signer
  /\ r.pc = "DeleteUser.unregister" => r.addr \in Signer
  /\ r.pc = "UpsertMiner" => r.user \in User /\ r.addr \in Miner
  /\ r.pc \in {"DelMiner", "OwnerDelMiner"} => r.addr \in Miner
  /\ r.pc = "GetUserByMiner" => r.user \in User
  /\ r.pc \in {"Register", "Unregister"} => r.user \in User
  /\ r.pc \in {"Register.commit", "Unregister.commit"} =>
       r.user \in User /\ r.list # <<>> /\ Head(r.list) \in Signer
  /\ r.pc \in {"DelSigner", "GetUserBySigner"} =>
       r.addr \in Signer /\ r.todo \subseteq User
  /\ r.pc = "OwnerDelSigner" => r.addr \in Signer

\* Every record has the type of its kind and every request is at a step of
\* its handler (storage/store.go's object types).
TypeOK ==
  /\ db = [k \in Key |-> db[k]] /\ Typed(db)
  /\ txn = [t \in Txn |-> txn[t]] /\ \A t \in Txn : TxnOK(txn[t])
  /\ req \in [Req -> ReqRec] /\ \A p \in Req : LocalsOK(req[p])
  /\ out \in [Req -> Answers]

\* A binding always names a user that was created: UpsertMiner and
\* RegisterSigner refuse an unknown user, and no user key is ever removed.
BindingsNameUsers ==
  /\ \A m \in Miner : ~Absent(MinerKey(m)) => ~Absent(UserKey(db[MinerKey(m)].user))
  /\ \A s \in Signer, u \in User : ~Absent(SignerKey(s, u)) => ~Absent(UserKey(u))

\* A transaction that is about to commit without a conflict does what its
\* closure would do on the database of that moment: the miner UpsertMiner
\* reports created is not there yet, a record that is being soft deleted is
\* still live, so of two racing deletions, or creations, one answers true.
CommitIsSerial ==
  \A p \in Req :
    LET r == req[p] IN
    /\ ~Conflict(Main(p)) =>
         /\ At(p, "UpsertMiner") =>
              /\ ~Absent(UserKey(r.user))
              /\ (r.res = "true") <=> Absent(MinerKey(r.addr))
         /\ At(p, "DelMiner") => Live(MinerKey(r.addr))
         /\ At(p, "Register.commit") => ~Absent(UserKey(r.user))
         /\ At(p, "Unregister.commit") => Live(SignerKey(Head(r.list), r.user))
    /\ At(p, "DeleteUser.unregister") /\ ~Conflict(Sub(p)) =>
         Live(SignerKey(r.addr, r.user))

Deleting == {"DeleteUser.signers", "DeleteUser.walk", "DeleteUser.unregister"}

\* A DeleteUser that can still commit deletes, besides its live user, only
\* miners that are bound to that user now, although it listed them in a
\* view that is not part of its transaction (badger.go:219-245).
DeletesOwnMiners ==
  \A p \in Req :
    req[p].pc \in Deleting /\ ~Conflict(Main(p)) =>
      /\ Live(UserKey(req[p].user))
      /\ \A m \in Miner : MinerKey(m) \in DOMAIN txn[Main(p)].writes =>
           /\ Owns(req[p].user, m)
           /\ txn[Main(p)].writes[MinerKey(m)] = Erased(db[MinerKey(m)])

(* The same facts, with what each step relies on, as an invariant that every *)
(* action preserves.                                                         *)

\* The transaction read k, and what it read of k is still so or known dirty.
ReadLive(t, k)    == k \in t.reads /\ (Live(k) \/ k \in t.dirty)
ReadPresent(t, k) == k \in t.reads /\ (~Absent(k) \/ k \in t.dirty)

DeleteInv(p) ==
  LET u == req[p].user
      t == txn[Main(p)]
  IN /\ ReadLive(t, UserKey(u))
     /\ MinerKeys \subseteq DOMAIN t.snap
     /\ \A m \in Miner :
          /\ db[MinerKey(m)] = t.snap[MinerKey(m)] \/ MinerKey(m) \in t.dirty
          /\ MinerKey(m) \in DOMAIN t.writes =>
               /\ ~At(p, "DeleteUser.miners")
               /\ MinerKey(m) \in t.reads
               /\ \/ Owns(u, m) /\ t.writes[MinerKey(m)] = Erased(db[MinerKey(m)])
                  \/ MinerKey(m) \in t.dirty

RequestInv(p) ==
  LET r == req[p]
      t == txn[Main(p)]
  IN /\ r.pc \in {"DeleteUser.miners"} \cup Deleting => DeleteInv(p)
     /\ At(p, "DeleteUser.unregister") =>
          ReadLive(txn[Sub(p)], SignerKey(r.addr, r.user))
     /\ At(p, "UpsertMiner") =>
          /\ ReadPresent(t, UserKey(r.user))
          /\ MinerKey(r.addr) \in t.reads
          /\ \/ (r.res = "true") <=> Absent(MinerKey(r.addr))
             \/ MinerKey(r.addr) \in t.dirty
     /\ At(p, "DelMiner") => ReadLive(t, MinerKey(r.addr))
     /\ At(p, "Register.commit") => ReadPresent(t, UserKey(r.user))
     /\ At(p, "Unregister.commit") =>
          ReadLive(t, SignerKey(Head(r.list), r.user))
     /\ At(p, "DelSigner") =>
          \A u \in r.todo : /\ SignerKey(r.addr, u) \in DOMAIN t.snap
                            /\ t.snap[SignerKey(r.addr, u)] # Nil

\* The inductive invariant: what a request's transactions read is current
\* unless they know it is not.
IInv == TypeOK /\ \A p \in Req : RequestInv(p)

\* A binding in f is to a user that was created.
NamesUsers(f) ==
  /\ \A m \in Miner : MinerKey(m) \in DOMAIN f /\ f[MinerKey(m)] # Nil =>
       ~Absent(UserKey(f[MinerKey(m)].user))
  /\ \A s \in Signer, u \in User :
       SignerKey(s, u) \in DOMAIN f /\ f[SignerKey(s, u)] # Nil => ~Absent(UserKey(u))

DeletesOne(t, k) == DOMAIN t.writes = {k} /\ t.writes[k].deleted

\* What the deletion of u is to write, and what it has not yet to see again.
RetireInv(p) ==
  LET u == req[p].user
      t == txn[Main(p)]
  IN /\ UserKey(u) \in DOMAIN t.writes /\ DOMAIN t.writes \subseteq {UserKey(u)} \cup MinerKeys
     /\ \A k \in DOMAIN t.writes : t.writes[k].deleted
     /\ \A s \in Signer : SignerKey(s, u) \in DOMAIN t.snap
     /\ req[p].pc \in Deleting =>
          \A m \in Miner : Owns(u, m) => MinerKey(m) \in DOMAIN t.writes \cup t.dirty
     /\ req[p].pc \in {"DeleteUser.walk", "DeleteUser.unregister"} =>
          \A s \in Signer : Live(SignerKey(s, u)) => s \in req[p].todo \/ SignerKey(s, u) \in t.dirty

\* The bindings the walk of DelSigner has not deleted and must not forget.
WalkInv(p) ==
  \A u \in User :
    LET k == SignerKey(req[p].addr, u) IN
    /\ k \in DOMAIN txn[Main(p)].snap
    /\ Live(k) => u \in req[p].todo \/ k \in txn[Main(p)].dirty

\* What is still to be written by a request, and where.
WorkInv(p) ==
  LET r == req[p]
      t == txn[Main(p)]
  IN /\ At(p, "PutUser") => ~r.rec.deleted
     /\ At(p, "UpsertMiner") => t.writes = One(MinerKey(r.addr), [user |-> r.user, deleted |-> FALSE])
     /\ At(p, "DelMiner") => DeletesOne(t, MinerKey(r.addr))
     /\ At(p, "Register.commit") =>
          t.writes = One(SignerKey(Head(r.list), r.user), [deleted |-> FALSE])
     /\ At(p, "Unregister.commit") => DeletesOne(t, SignerKey(Head(r.list), r.user))
     /\ At(p, "DeleteUser.unregister") => DeletesOne(txn[Sub(p)], SignerKey(r.addr, r.user))
     /\ r.pc \in {"DeleteUser.miners"} \cup Deleting => RetireInv(p)
     /\ At(p, "DelSigner") => WalkInv(p)

\* All of it: what was read, what is bound and what is to be written.
FullInv ==
  /\ IInv
  /\ NamesUsers(db)
  /\ \A t \in Txn : NamesUsers(txn[t].writes) /\ NamesUsers(txn[t].snap)
  /\ \A p \in Req : WorkInv(p)

\* A DeleteUser that answers ok has deleted the user and every miner and
\* signer that was bound to it when it began and was not written since; a
\* signer leaves its walk only by the step that deletes the binding.
DeleteComplete ==
  [][\A p \in Req, u \in User :
       u = req[p].user =>
         /\ At(p, "DeleteUser.unregister") /\ At(p, "DeleteUser.walk")' =>
              \A s \in req[p].todo \ req'[p].todo : ~Live(SignerKey(s, u))'
         /\ At(p, "DeleteUser.walk") /\ out'[p] = "ok" =>
              /\ ~Live(UserKey(u))'
              /\ \A m \in Miner :
                   Owns(u, m)' => MinerKey(m) \in txn[Main(p)].dirty
              /\ \A s \in Signer :
                   Live(SignerKey(s, u))' => SignerKey(s, u) \in txn[Main(p)].dirty]_vars

\* "delete all signers" (store.go:88): a binding leaves the walk of DelSigner
\* only by the step that deletes it, and when DelSigner answers, a binding of
\* the signer is live only if it was written since the walk began.
DelSignerComplete ==
  [][\A p \in Req, s \in Signer :
       At(p, "DelSigner") /\ s = req[p].addr =>
         /\ At(p, "DelSigner")' =>
              \A u \in req[p].todo \ req'[p].todo : ~Live(SignerKey(s, u))'
         /\ out'[p] \in {"true", "false"} =>
              \A u \in User : Live(SignerKey(s, u)) =>
                SignerKey(s, u) \in txn[Main(p)].dirty]_vars

\* Every request is answered, or lost with the process: no handler waits
\* for another, and a walk or a batch ends.
Answered == \A p \in Req : req[p].pc # "idle" ~> req[p].pc = "idle"

\* The accounts as the Store interface shows them: live records only.
UserView   == [u \in User |-> IF Absent(UserKey(u)) THEN "absent"
                              ELSE IF Live(UserKey(u)) THEN "live" ELSE "deleted"]
MinerView  == [m \in Miner |-> IF Live(MinerKey(m)) THEN db[MinerKey(m)].user ELSE Nil]
SignerView == {b \in Signer \X User : Live(SignerKey(b[1], b[2]))}

Registry == INSTANCE Registry WITH
  None <- Nil, user <- UserView, miner <- MinerView, signer <- SignerView

\* Each step of the handlers is one operation of the Store interface, done at
\* once, or changes nothing a client can see.
RefinesRegistry == Registry!RSpec

\* What store.go:90 says of GetUserBySigner: its answer holds all users that
\* have the signer.
LookupFindsAll ==
  [][\A p \in Req :
       At(p, "GetUserBySigner") /\ out'[p] \in {"ok", "error"} =>
         \A u \in User :
           Live(UserKey(u)) /\ Live(SignerKey(req[p].addr, u)) =>
             out'[p] = "ok" /\ u \in req[p].found]_vars
=============================================================================
