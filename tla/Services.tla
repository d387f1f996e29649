------------------------------ MODULE Services ------------------------------
(***************************************************************************)
(* A service that uses the client library: its AuthMux verifies the token  *)
(* of a request (jwtclient/auth_mux.go), locally and then by a call of the *)
(* server, and its handler checks the permission of the user               *)
(* (jwtclient/utils.go) with one call of the server for each address. The  *)
(* calls go through Access with a token of the service's own.              *)
(***************************************************************************)
EXTENDS Access

CONSTANTS Local   \* the token that the service's own secret signs

VARIABLES svc,    \* the request that the service serves
          noted,  \* what held at some moment since it arrived (history)
          mux     \* the verifiers the service has, which never change

svars == <<svc, noted, mux>>
allVars == <<vars, svars>>

ASSUME MixesOK == \A m \in Mixes : m.asks \subseteq SUBSET (Miner \cup Signer)

Resting == [pc |-> "resting"]
Nothing == [live |-> FALSE, owned |-> {}]

\* What the service is asked: access to some addresses, or to a user's data.
Asks == {[user |-> None, addrs |-> A] : A \in mix.asks \ {{}}}
          \cup (IF {} \in mix.asks THEN [user : User, addrs : {{}}] ELSE {})

\* History: was the token live, which addresses did the user of the context own?
SvcLive == svc # Resting /\ IsLive(svc.cred)
SvcOwned == IF svc = Resting THEN {}
            ELSE {a \in svc.addrs : Owns(svc.ctx.name, a)}
Note == noted' = IF svc' = Resting THEN Nothing
                 ELSE [live |-> noted.live \/ SvcLive',
                       owned |-> noted.owned \cup SvcOwned']

Quiet == UNCHANGED <<vars, mux>> /\ Note
-----------------------------------------------------------------------------
(* AuthMux. *)
Arrive ==
  /\ svc = Resting
  /\ \E t \in Token \cup {Local, None}, trusted \in BOOLEAN, ask \in Asks :
       svc' = [pc |-> "arrived", cred |-> t, trusted |-> trusted, user |-> ask.user,
               addrs |-> ask.addrs, todo |-> ask.addrs, ctx |-> NoCtx, by |-> "nobody"]
  /\ Quiet

Go(pc) == svc' = [svc EXCEPT !.pc = pc]

\* A trusted URI is served with no verification and an empty context.
Trust == /\ svc.pc = "arrived" /\ svc.trusted
         /\ Go("served")
         /\ Quiet

\* No token, or one that the only verifier the service has does not know.
Unauthorised ==
  /\ svc.pc = "arrived" /\ ~svc.trusted
  /\ svc.cred = None \/ (mux = {"local"} /\ svc.cred # Local)
  /\ Go("denied")
  /\ Quiet

VerifyLocally ==
  /\ svc.pc = "arrived" /\ ~svc.trusted
  /\ "local" \in mux /\ svc.cred = Local
  /\ svc' = [svc EXCEPT !.pc = "checking", !.by = "local",
       !.ctx = [perms |-> AdaptOldStrategy("admin"), name |-> Default]]
  /\ Quiet

\* A service with no verifier: no permission, and the name that the token says,
\* whoever made it.
VerifyNothing ==
  /\ svc.pc = "arrived" /\ ~svc.trusted /\ svc.cred # None /\ mux = {}
  /\ \E n \in User \cup {None} :
       svc' = [svc EXCEPT !.pc = "checking", !.ctx = [perms |-> {}, name |-> n]]
  /\ Quiet

\* A call of the server, with the service's own token t.
Ask(c, m, a) == \E t \in Token : Request(c, m, HandlerOf[m], FALSE, t, a)

AskToVerify(c) ==
  /\ svc.pc = "arrived" /\ ~svc.trusted /\ svc.cred # None
  /\ "remote" \in mux /\ ("local" \in mux => svc.cred # Local)
  /\ Ask(c, "Verify", [user |-> None, addr |-> None, tok |-> svc.cred, perm |-> None])
  /\ Go("verifying")
  /\ UNCHANGED mux /\ Note

\* What AuthClient returns: the answer, or an error, of the server or of the
\* connection.
Answered(c) == call[c].reply = "ok" /\ Deliver(c) /\ UNCHANGED mux
Erred(c) == /\ (call[c].reply = "error" /\ Deliver(c)) \/ Lose(c)
            /\ UNCHANGED mux

ErrorIgnored(c) ==                                     \* slip: err not looked at
  /\ svc.pc = "verifying"
  /\ Answered(c) \/ Erred(c)
  /\ svc' = [svc EXCEPT !.pc = "checking", !.by = "remote",
       !.ctx = [perms |-> AdaptOldStrategy(call[c].val), name |-> NameIn(svc.cred)]]
  /\ Note

Verified(c) ==
  /\ svc.pc = "verifying"
  /\ \/ /\ Answered(c)
        /\ svc' = [svc EXCEPT !.pc = "checking", !.by = "remote",
             !.ctx = [perms |-> AdaptOldStrategy(call[c].val), name |-> NameIn(svc.cred)]]
     \/ Erred(c) /\ Go("denied")
  /\ Note
-----------------------------------------------------------------------------
(* CheckPermissionByName, CheckPermissionByMiner, CheckPermissionBySigner. *)
IsAdmin == "admin" \in svc.ctx.perms

Passed == \/ IsAdmin
          \/ svc.user # None /\ svc.ctx.name = svc.user
          \/ svc.user = None /\ svc.ctx.name # None /\ svc.todo = {}

Pass == /\ svc.pc = "checking" /\ Passed
        /\ Go("served")
        /\ Quiet

Deny == /\ svc.pc = "checking" /\ ~Passed
        /\ svc.ctx.name = None \/ svc.user # None
        /\ Go("denied")
        /\ Quiet

AskForOwner(c) ==
  /\ svc.pc = "checking" /\ ~Passed
  /\ svc.ctx.name # None /\ svc.user = None
  /\ \E a \in svc.todo :
       Ask(c, IF a \in Miner THEN "MinerExistInUser" ELSE "SignerExistInUser",
           [user |-> svc.ctx.name, addr |-> a, tok |-> None, perm |-> None])
  /\ Go("asking")
  /\ UNCHANGED mux /\ Note

FirstOnly(c) ==                                     \* slip: return in the loop
  /\ svc.pc = "asking"
  /\ \/ /\ Answered(c) /\ call[c].val = "yes"
        /\ svc' = [svc EXCEPT !.pc = "checking", !.todo = {}]
     \/ Answered(c) /\ call[c].val = "no" /\ Go("denied")
     \/ Erred(c) /\ Go("denied")
  /\ Note

SameAgain(c) ==                                     \* slip: the loop does not go on
  /\ svc.pc = "asking"
  /\ \/ Answered(c) /\ call[c].val = "yes" /\ Go("checking")
     \/ Answered(c) /\ call[c].val = "no" /\ Go("denied")
     \/ Erred(c) /\ Go("denied")
  /\ Note

OwnerTold(c) ==
  /\ svc.pc = "asking"
  /\ \/ /\ Answered(c) /\ call[c].val = "yes"
        /\ svc' = [svc EXCEPT !.pc = "checking", !.todo = @ \ {call[c].addr}]
     \/ Answered(c) /\ call[c].val = "no" /\ Go("denied")
     \/ Erred(c) /\ Go("denied")
  /\ Note

Finish == /\ svc.pc \in {"served", "denied"}
          /\ svc' = Resting
          /\ Quiet
-----------------------------------------------------------------------------
(* The system: clients that call the server, or a service between them. *)
Client(c) == mix.asks = {} /\ (Send(c) \/ Raw(c))
Hears(c) == svc = Resting /\ (Deliver(c) \/ Lose(c))

ServiceStep == \/ Trust \/ Unauthorised \/ VerifyLocally \/ VerifyNothing
               \/ Pass \/ Deny \/ Finish
               \/ \E c \in Caller : \/ AskToVerify(c) \/ Verified(c)
                                    \/ AskForOwner(c) \/ OwnerTold(c)

Init == /\ AccessInit
        /\ svc = Resting
        /\ noted = Nothing
        /\ mux \in mix.muxes

Next == \/ Arrive
        \/ ServiceStep
        \/ /\ Others \/ \E c \in Caller : ServerStep(c) \/ Client(c) \/ Hears(c)
           /\ UNCHANGED <<svc, mux>> /\ Note

\* net/http and gin run every handler to its end, the client waits for the
\* answer or an error of the connection, and the service goes on with it.
Fairness == /\ \A c \in Caller : WF_allVars(ServerStep(c) /\ UNCHANGED <<svc, mux>> /\ Note)
            /\ \A c \in Caller : WF_allVars(Hears(c) /\ UNCHANGED <<svc, mux>> /\ Note)
            /\ WF_allVars(ServiceStep)

Spec == Init /\ [][Next]_allVars
FairSpec == Spec /\ Fairness
-----------------------------------------------------------------------------
(* Properties. *)

TypeOK ==
  /\ TypeOfCall
  /\ noted \in [live : BOOLEAN, owned : SUBSET (Miner \cup Signer)]
  /\ svc = Resting \/
       /\ svc.pc \in {"arrived", "verifying", "checking", "asking", "served", "denied"}
       /\ svc.todo \subseteq svc.addrs
       /\ svc.ctx \in [perms : SUBSET OldStrategy.admin, name : User \cup {None}]
       /\ svc.pc \in {"verifying", "asking"} => \E c \in Caller : call[c] # Idle

\* A request that is not trusted reaches the handler of a service that has a
\* verifier only with the token of the service itself, or one that the server
\* held for live at some moment since the request arrived, and never with more
\* permissions than that token has (auth_mux.go:117-147).
ServedIsVouched ==
  svc # Resting /\ svc.pc \in {"checking", "asking", "served"}
    /\ ~svc.trusted /\ mux # {} =>
    \/ svc.by = "local" /\ svc.cred = Local
    \/ /\ svc.by = "remote" /\ noted.live
       /\ svc.ctx = CtxOf(svc.cred)

\* A user who is no admin is served for addresses only when each of them was its
\* own at some moment since it was verified: the addresses are asked for one
\* by one and may be rebound between two answers (utils.go:35-77).
CheckedOwns ==
  svc # Resting /\ svc.pc = "served" /\ ~svc.trusted /\ ~IsAdmin =>
    /\ svc.user # None => svc.user = svc.ctx.name
    /\ svc.addrs \subseteq noted.owned

\* The call in flight is the one that the service waits for.
Waits(c) == call[c] # Idle /\ \A d \in Caller \ {c} : call[d] = Idle

InCall == svc # Resting /\ svc.pc \in {"verifying", "asking"}

\* What a positive answer to the call of the service says was so at one moment
\* since its request arrived, and was noted.
WaitInv ==
  /\ svc.pc = "verifying" => \E c \in Caller :
       LET r == call[c]
       IN  /\ Waits(c) /\ r.handler = "Verify" /\ r.tok = svc.cred
           /\ r.reply = "ok" => noted.live /\ r.val = issued[svc.cred].perm
  /\ svc.pc = "asking" => \E c \in Caller :
       LET r == call[c]
       IN  /\ Waits(c) /\ r.handler \in {"MinerExistInUser", "SignerExistInUser"}
           /\ r.user = svc.ctx.name /\ r.addr \in svc.todo
           /\ r.reply = "ok" /\ r.val = "yes" => r.addr \in noted.owned

\* The addresses that are asked for no more were owned, and a token that was
\* live was issued.
ServiceInv ==
  /\ svc = [pc |-> svc.pc, cred |-> svc.cred, trusted |-> svc.trusted, user |-> svc.user,
            addrs |-> svc.addrs, todo |-> svc.todo, ctx |-> svc.ctx, by |-> svc.by]
  /\ svc.cred \in Token \cup {Local, None}
  /\ svc.user \in User \cup {None}
  /\ svc.addrs \subseteq Miner \cup Signer
  /\ svc.user # None => svc.addrs = {}
  /\ svc.addrs \ svc.todo \subseteq noted.owned
  /\ noted.live => svc.cred \in Token /\ issued[svc.cred] # None

\* The inductive invariant: that of the calls and that of the service, which
\* has at most one call in flight.
IInv == /\ AccessInv
        /\ TypeOK
        /\ ServedIsVouched
        /\ CheckedOwns
        /\ svc = Resting => noted = Nothing
        /\ svc # Resting => mix.asks # {} /\ ServiceInv /\ WaitInv
        /\ mix.asks # {} => InCall \/ \A c \in Caller : call[c] = Idle

\* Every request of the service is answered, whatever becomes of its calls.
ServiceEnds == (svc # Resting) ~> (svc = Resting)
=============================================================================
