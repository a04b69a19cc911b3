---------------------- MODULE MetalbondConvergenceProofs ----------------------
(***************************************************************************)
(* The proof that IInv of MetalbondConvergence is inductive under the     *)
(* Conditions, one lemma per step of the callback (Deliver, FanoutPeer),  *)
(* and the theorems that follow from it: the invariant, convergence when  *)
(* quiet, and that a callback returning nil has realized its route.       *)
(***************************************************************************)
EXTENDS MetalbondConvergence

(* A call of a pending key k's callback, in a step that changes no other  *)
(* key's callback or announcement state, keeps the invariant for every    *)
(* other key.                                                              *)
LEMMA OthersKept ==
    ASSUME Conditions, IInv, NEW k \in Keys, Pending(k), Pending(k)',
           NEW op \in {"add", "remove"}, NEW x \in Scope(k), NEW ok,
           Exec(Req(k, op, x), ok),
           peers' = peers, announced' = announced,
           handler'[k].pc = "fanout",
           \A j \in Keys \ {k} : handler'[j] = handler[j]
                                 /\ (j \in dirty' <=> j \in dirty)
    PROVE  /\ Exclusive'
           /\ Justified'
           /\ Settled'
           /\ \A j \in Keys \ {k} :
                 Running(j, "add")' => AddDone(j)' \subseteq dp'
           /\ \A j \in Keys \ {k} : Running(j, "remove")' =>
                 \A e \in dp' : <<e.tbl, e.key>> \notin RemoveDone(j)'
<1>1. /\ \A j \in Keys : Wanted(j)' = Wanted(j) /\ Scope(j)' = Scope(j)
      /\ \A j, j2 \in Keys : Collide(j, j2)' = Collide(j, j2)
  BY WantedStatic
<1>2. \A j \in Keys : Pending(j)' <=> Pending(j)
  BY SMTT(20) DEF Pending
<1>3. Exclusive'
  BY <1>1, <1>2 DEF IInv, Exclusive
<1>4. Static
  BY SMTT(20) DEF IInv
<1>5. \A j \in Keys \ {k} : Pending(j) =>
         /\ \A e \in Wanted(j) : e \in dp' <=> e \in dp
         /\ \A e \in dp' : <<e.tbl, e.key>> \in RemovedKeys(j, Scope(j)) => e \in dp
  <2>1. SUFFICES ASSUME NEW j \in Keys \ {k}, Pending(j)
                 PROVE  /\ \A e \in Wanted(j) : e \in dp' <=> e \in dp
                        /\ \A e \in dp' : <<e.tbl, e.key>> \in RemovedKeys(j, Scope(j))
                                             => e \in dp
    OBVIOUS
  <2>2. ~Collide(k, j) /\ ~Collide(j, k)
    BY <2>1 DEF IInv, Exclusive
  <2>3. QED BY <1>4, <2>1, <2>2, OtherKeyFrame DEF Conditions
<1>6. Justified'
  <2>1. SUFFICES ASSUME NEW e \in dp'
                 PROVE  \E j \in Keys : Pending(j)' /\ e \in Wanted(j)'
    BY DEF Justified
  <2>2. CASE e \in dp
    BY <1>1, <1>2, <2>2 DEF IInv, Justified
  <2>3. CASE e \notin dp
    BY <1>1, <1>4, <2>3, NewEntries, SMTT(20)
  <2>4. QED BY <2>2, <2>3
<1>7. Settled'
  <2>1. SUFFICES ASSUME NEW j \in announced', j \notin dirty',
                        handler'[j].pc = "idle"
                 PROVE  Wanted(j)' \subseteq dp'
    BY DEF Settled
  <2>2. j \in Keys \ {k} /\ j \in announced /\ j \notin dirty
        /\ handler[j].pc = "idle"
    BY <2>1 DEF IInv, TypeOK
  <2>3. Wanted(j) \subseteq dp
    BY <2>2, SMTT(20) DEF IInv, Settled
  <2>4. QED BY <1>1, <1>5, <2>2, <2>3, SMTT(20) DEF Pending
<1>8. \A j \in Keys \ {k} : AddDone(j)' = AddDone(j) /\ RemoveDone(j)' = RemoveDone(j)
                            /\ Running(j, "add")' = Running(j, "add")
                            /\ Running(j, "remove")' = Running(j, "remove")
  BY <1>1, SMTT(20) DEF AddDone, RemoveDone, Running
<1>9. \A j \in Keys \ {k} : Running(j, "add")' => AddDone(j)' \subseteq dp'
  <2>1. SUFFICES ASSUME NEW j \in Keys \ {k}, Running(j, "add")'
                 PROVE  AddDone(j)' \subseteq dp'
    BY SMTT(20)
  <2>2. Running(j, "add") /\ Pending(j) /\ AddDone(j) \subseteq dp
    BY <1>8, <2>1 DEF IInv, AddProgress, Running, Pending
  <2>3. AddDone(j) \subseteq Wanted(j)
    BY SMTT(20) DEF AddDone
  <2>4. QED BY <1>5, <1>8, <2>2, <2>3, ZenonT(30)
<1>10. \A j \in Keys \ {k} : Running(j, "remove")' =>
          \A e \in dp' : <<e.tbl, e.key>> \notin RemoveDone(j)'
  <2>1. SUFFICES ASSUME NEW j \in Keys \ {k}, Running(j, "remove")',
                        NEW e \in dp', <<e.tbl, e.key>> \in RemoveDone(j)'
                 PROVE  FALSE
    BY ZenonT(30)
  <2>2. Running(j, "remove") /\ Pending(j)
    BY <1>8, <2>1, ZenonT(30) DEF Running, Pending
  <2>3. RemoveDone(j) \subseteq RemovedKeys(j, Scope(j))
    BY ZenonT(30) DEF RemoveDone, RemovedKeys
  <2>4. e \in dp
    BY <1>5, <1>8, <2>1, <2>2, <2>3, SMTT(20)
  <2>5. QED BY <1>8, <2>1, <2>2, <2>4, SMTT(20) DEF IInv, RemoveProgress
<1>11. QED BY <1>3, <1>6, <1>7, <1>9, <1>10

(* An add request only adds entries, a remove request only deletes them.  *)
LEMMA ReqMonotone ==
    ASSUME Static, NEW k \in Keys, NEW op \in {"add", "remove"},
           NEW x \in Scope(k), NEW ok, Exec(Req(k, op, x), ok)
    PROVE  /\ op = "add" => dp \subseteq dp'
           /\ op = "remove" => dp' \subseteq dp
<1>1. Req(k, op, x).kind = "rpc" => Req(k, op, x).verb \in {"create", "delete"}
  BY ReqShape
<1>2. QED BY <1>1, ReqShape, ExecFrame

(* Deliver: the engine invokes the callback, which makes its first call.  *)
LEMMA DeliverIInv ==
    ASSUME Conditions, IInv, NEW k \in Keys, Deliver(k)
    PROVE  IInv'
<1> DEFINE dop == IF k \in announced THEN "add" ELSE "remove"
<1> DEFINE T == IF k[3].type = "STANDARD" THEN PeerSet(k[1]) ELSE {}
<1>1. /\ k[1] \in Scope(k) /\ k[1] \in VNIs
      /\ PeerSet(k[1]) \subseteq VNIs /\ k[1] \notin PeerSet(k[1])
  BY KeysAssumption, PeerSetStatic DEF Scope, ScopeWith, IInv, Static
<1>2. PICK ok \in BOOLEAN :
        /\ Exec(Req(k, dop, k[1]), ok)
        /\ handler' = [handler EXCEPT ![k] =
                         [pc |-> "fanout", op |-> dop, todo |-> T, err |-> ~ok]]
  BY ZenonT(30) DEF Deliver, Req, AddReq, RemReq
<1>14. ok \in BOOLEAN
  BY <1>2
<1>3. /\ handler'[k] = [pc |-> "fanout", op |-> dop, todo |-> T, err |-> ~ok]
      /\ \A j \in Keys \ {k} : handler'[j] = handler[j]
  BY <1>2 DEF IInv, TypeOK
<1>15. handler'[k].op = dop /\ handler'[k].err = ~ok /\ handler'[k].todo = T
  BY <1>3
<1>4. TypeOK'
  BY NextTypeOK DEF IInv, Next
<1>16. /\ k \in dirty /\ dirty' = dirty \ {k}
       /\ announced' = announced /\ peers' = peers /\ cleaner' = cleaner
  BY DEF Deliver
<1>5. Static' /\ OpCurrent' /\ TodoShape'
  <2>1. Static'
    BY <1>16 DEF IInv, Static
  <2>2. OpCurrent'
    <3>1. SUFFICES ASSUME NEW j \in Keys, handler'[j].pc = "fanout"
                   PROVE  /\ handler'[j].op = "add" => j \in announced' \/ j \in dirty'
                          /\ handler'[j].op = "remove" => j \notin announced' \/ j \in dirty'
      BY DEF OpCurrent
    <3>2. CASE j = k
      BY <1>15, <1>16, <3>2 DEF dop
    <3>3. CASE j # k
      BY <1>3, <1>16, <3>1, <3>3, SMTT(20) DEF IInv, OpCurrent
    <3>4. QED BY <3>2, <3>3
  <2>3. TodoShape'
    BY <1>1, <1>3, <1>16, SMTT(20) DEF IInv, TodoShape, PeerSet, T
  <2>4. QED BY <2>1, <2>2, <2>3
<1>17. handler'[k].pc = "fanout"
  BY <1>3
<1>6. Pending(k) /\ Pending(k)'
  <2>1. "fanout" # "idle"
    OBVIOUS
  <2>2. QED BY <1>16, <1>17, <2>1 DEF Pending
<1>7. /\ Exclusive' /\ Justified' /\ Settled'
      /\ \A j \in Keys \ {k} : Running(j, "add")' => AddDone(j)' \subseteq dp'
      /\ \A j \in Keys \ {k} : Running(j, "remove")' =>
            \A e \in dp' : <<e.tbl, e.key>> \notin RemoveDone(j)'
  <2>1. \A j \in Keys \ {k} : handler'[j] = handler[j] /\ (j \in dirty' <=> j \in dirty)
    BY <1>3, <1>16, ZenonT(30)
  <2>2. /\ dop \in {"add", "remove"} /\ handler'[k].pc = "fanout"
        /\ peers' = peers /\ announced' = announced
    BY <1>16, <1>17, ZenonT(30)
  <2>3. QED BY <1>1, <1>2, <1>6, <2>1, <2>2, OthersKept
<1>8. Wanted(k)' = Wanted(k) /\ Scope(k)' = Scope(k)
  BY WantedStatic DEF Deliver
<1>9. Running(k, "add")' => AddDone(k)' \subseteq dp'
  <2>1. SUFFICES ASSUME Running(k, "add")' PROVE AddDone(k)' \subseteq dp'
    OBVIOUS
  <2>2. dop = "add" /\ ok
    <3>1. handler'[k].op = "add" /\ ~handler'[k].err
      BY <2>1 DEF Running
    <3>2. QED BY <3>1, <1>15, <1>14, ZenonT(30)
  <2>3. AddDone(k)' \subseteq {e \in Wanted(k) : ForVni(e, k, k[1])}
    BY <1>1, <1>3, <1>8, DeliverDone DEF AddDone, Wanted
  <2>5. Exec(Req(k, "add", k[1]), TRUE)
    <3>1. Req(k, dop, k[1]) = Req(k, "add", k[1]) /\ ok = TRUE
      BY <2>2, <1>14
    <3>2. QED BY <1>2, <3>1
  <2>4. QED BY <1>1, <1>6, <2>3, <2>5, OwnAdd DEF IInv
<1>10. Running(k, "remove")' =>
          \A e \in dp' : <<e.tbl, e.key>> \notin RemoveDone(k)'
  <2>1. SUFFICES ASSUME Running(k, "remove")'
                 PROVE  \A e \in dp' : <<e.tbl, e.key>> \notin RemoveDone(k)'
    BY Zenon
  <2>2. dop = "remove" /\ ok
    <3>1. handler'[k].op = "remove" /\ ~handler'[k].err
      BY <2>1 DEF Running
    <3>2. QED BY <3>1, <1>15, <1>14
  <2>3. Scope(k) \ T = {k[1]}
    BY <1>1, DeliverDone DEF Scope, T
  <2>6. RemoveDone(k)' = RemovedKeys(k, {k[1]})
    BY <1>3, <1>8, <2>3 DEF RemoveDone
  <2>5. Exec(Req(k, "remove", k[1]), TRUE)
    <3>1. Req(k, dop, k[1]) = Req(k, "remove", k[1]) /\ ok = TRUE
      BY <2>2, <1>14
    <3>2. QED BY <1>2, <3>1
  <2>4. QED BY <1>1, <2>5, <2>6, OwnRemove, Zenon
<1>11. AddProgress' /\ RemoveProgress'
  BY <1>7, <1>9, <1>10 DEF AddProgress, RemoveProgress
<1>12. QED BY <1>4, <1>5, <1>7, <1>11 DEF IInv

(* FanoutPeer: one iteration of the peer loop.                             *)
LEMMA FanoutPeerIInv ==
    ASSUME Conditions, IInv, NEW k \in Keys, NEW p \in VNIs, FanoutPeer(k, p)
    PROVE  IInv'
<1> DEFINE fop == handler[k].op
<1> DEFINE ftodo == handler[k].todo
<1>1. /\ handler[k].pc = "fanout" /\ p \in ftodo /\ fop \in {"add", "remove"}
      /\ p \in PeerSet(k[1]) /\ p # k[1] /\ p \in Scope(k)
  <2>1. handler[k].pc = "fanout" /\ p \in ftodo /\ fop \in {"add", "remove"}
    BY DEF FanoutPeer, IInv, TypeOK, Handlers
  <2>2. p \in PeerSet(k[1]) /\ k[3].type = "STANDARD"
    BY <2>1 DEF IInv, TodoShape
  <2>3. k[1] \in VNIs /\ k[1] \notin PeerSet(k[1])
    BY KeysAssumption, PeerSetStatic DEF IInv, Static
  <2>4. QED BY <2>1, <2>2, <2>3 DEF Scope, ScopeWith
<1>2. PICK ok \in BOOLEAN :
        /\ Exec(Req(k, fop, p), ok)
        /\ handler' = [handler EXCEPT ![k].todo = @ \ {p},
                                      ![k].err = @ \/ ~ok]
  BY <1>1 DEF FanoutPeer, Req, AddReq, RemReq, PeerRequest
<1>3. /\ handler'[k] = [pc |-> "fanout", op |-> fop, todo |-> ftodo \ {p},
                        err |-> handler[k].err \/ ~ok]
      /\ \A j \in Keys \ {k} : handler'[j] = handler[j]
  BY <1>1, <1>2, ZenonT(30) DEF IInv, TypeOK, Handlers
<1>14. ok \in BOOLEAN
  BY <1>2
<1>15. /\ handler'[k].pc = "fanout" /\ handler'[k].op = fop
       /\ handler'[k].err = (handler[k].err \/ ~ok)
       /\ handler'[k].todo = ftodo \ {p}
  BY <1>3
<1>4. TypeOK'
  BY NextTypeOK DEF IInv, Next
<1>13. /\ announced' = announced /\ dirty' = dirty /\ peers' = peers
       /\ cleaner' = cleaner
  BY DEF FanoutPeer
<1>5. Static' /\ OpCurrent' /\ TodoShape'
  <2>1. Static'
    BY <1>13 DEF IInv, Static
  <2>2. OpCurrent'
    <3>1. SUFFICES ASSUME NEW j \in Keys, handler'[j].pc = "fanout"
                   PROVE  /\ handler'[j].op = "add" => j \in announced' \/ j \in dirty'
                          /\ handler'[j].op = "remove" => j \notin announced' \/ j \in dirty'
      BY SMTT(20) DEF OpCurrent
    <3>2. CASE j = k
      BY <1>1, <1>13, <1>15, <3>2, SMTT(20) DEF IInv, OpCurrent, fop
    <3>3. CASE j # k
      BY <1>3, <1>13, <3>1, <3>3, SMTT(20) DEF IInv, OpCurrent
    <3>4. QED BY <3>2, <3>3
  <2>3. TodoShape'
    BY <1>3, <1>13, SMTT(20) DEF IInv, TodoShape, PeerSet, ftodo
  <2>4. QED BY <2>1, <2>2, <2>3
<1>6. Pending(k) /\ Pending(k)'
  BY <1>1, <1>3, SMTT(20) DEF Pending
<1>7. /\ Exclusive' /\ Justified' /\ Settled'
      /\ \A j \in Keys \ {k} : Running(j, "add")' => AddDone(j)' \subseteq dp'
      /\ \A j \in Keys \ {k} : Running(j, "remove")' =>
            \A e \in dp' : <<e.tbl, e.key>> \notin RemoveDone(j)'
  <2>1. \A j \in Keys \ {k} : handler'[j] = handler[j] /\ (j \in dirty' <=> j \in dirty)
    BY <1>3, <1>13
  <2>2. Exec(Req(k, fop, p), ok)
    BY <1>2, SMTT(20)
  <2>3. handler'[k].pc = "fanout" /\ peers' = peers /\ announced' = announced
    BY <1>13, <1>15
  <2>4. QED BY <1>1, <1>6, <2>1, <2>2, <2>3, OthersKept, ZenonT(30)
<1>8. Wanted(k)' = Wanted(k) /\ Scope(k)' = Scope(k)
  BY WantedStatic DEF FanoutPeer
<1>9. Running(k, "add")' => AddDone(k)' \subseteq dp'
  <2>1. SUFFICES ASSUME Running(k, "add")' PROVE AddDone(k)' \subseteq dp'
    OBVIOUS
  <2>2. fop = "add" /\ ok /\ Running(k, "add")
    <3>1. handler'[k].op = "add" /\ ~handler'[k].err
      BY <2>1 DEF Running
    <3>2. fop = "add" /\ ok /\ ~handler[k].err
      BY <3>1, <1>14, <1>15
    <3>3. QED BY <1>1, <3>2 DEF Running, fop
  <2>8. Exec(Req(k, "add", p), ok) /\ Exec(Req(k, "add", p), TRUE)
    BY <1>2, <2>2
  <2>3. AddDone(k)' \subseteq AddDone(k) \cup {e \in Wanted(k) : ForVni(e, k, p)}
    <3>1. AddDone(k)' = {e \in Wanted(k) : e.tbl # "route" \/ e.key[1] \notin ftodo \ {p}}
      BY <1>8, <1>15 DEF AddDone
    <3>2. AddDone(k) = {e \in Wanted(k) : e.tbl # "route" \/ e.key[1] \notin ftodo}
      BY DEF AddDone, ftodo
    <3>3. QED BY <3>1, <3>2, FanoutDone
  <2>4. AddDone(k) \subseteq dp
    BY <2>2 DEF IInv, AddProgress
  <2>5. dp \subseteq dp'
    BY <1>1, <2>8, ReqMonotone, SMTT(20) DEF IInv
  <2>6. {e \in Wanted(k) : ForVni(e, k, p)} \subseteq dp'
    BY <1>1, <1>6, <2>8, OwnAdd DEF IInv
  <2>7. QED BY <2>3, <2>4, <2>5, <2>6
<1>10. Running(k, "remove")' =>
          \A e \in dp' : <<e.tbl, e.key>> \notin RemoveDone(k)'
  <2>1. SUFFICES ASSUME Running(k, "remove")', NEW e \in dp',
                        <<e.tbl, e.key>> \in RemoveDone(k)'
                 PROVE  FALSE
    BY Zenon
  <2>2. fop = "remove" /\ ok /\ Running(k, "remove")
    <3>1. handler'[k].op = "remove" /\ ~handler'[k].err
      BY <2>1 DEF Running
    <3>2. fop = "remove" /\ ok /\ ~handler[k].err
      BY <3>1, <1>14, <1>15
    <3>3. QED BY <1>1, <3>2 DEF Running, fop
  <2>7. Exec(Req(k, "remove", p), ok) /\ Exec(Req(k, "remove", p), TRUE)
    BY <1>2, <2>2
  <2>3. RemoveDone(k)' \subseteq RemoveDone(k) \cup RemovedKeys(k, {p})
    <3>1. RemoveDone(k)' = RemovedKeys(k, Scope(k) \ (ftodo \ {p}))
      BY <1>8, <1>15 DEF RemoveDone
    <3>2. RemoveDone(k) = RemovedKeys(k, Scope(k) \ ftodo)
      BY DEF RemoveDone, ftodo
    <3>3. RemovedKeys(k, Scope(k) \ (ftodo \ {p}))
            \subseteq RemovedKeys(k, Scope(k) \ ftodo) \cup RemovedKeys(k, {p})
      BY FanoutDone
    <3>4. QED BY <3>1, <3>2, <3>3, SMTT(20)
  <2>4. e \in dp
    BY <1>1, <2>1, <2>7, ReqMonotone DEF IInv
  <2>5. <<e.tbl, e.key>> \notin RemovedKeys(k, {p})
    BY <1>1, <2>1, <2>7, OwnRemove
  <2>6. QED BY <2>1, <2>2, <2>3, <2>4, <2>5 DEF IInv, RemoveProgress
<1>11. AddProgress' /\ RemoveProgress'
  BY <1>7, <1>9, <1>10 DEF AddProgress, RemoveProgress
<1>12. QED BY <1>4, <1>5, <1>7, <1>11 DEF IInv

-----------------------------------------------------------------------------
(* The theorems.                                                            *)

(* The initial state: nothing announced, nothing in the dataplane.        *)
LEMMA InitIInv == Init => IInv
<1> SUFFICES ASSUME Init PROVE IInv
  OBVIOUS
<1>1. TypeOK
  BY InitTypeOK
<1>2. \A k \in Keys : ~Pending(k) /\ ~Running(k, "add") /\ ~Running(k, "remove")
  BY DEF Init, Pending, Running, IdleHandler
<1>3. QED BY <1>1, <1>2 DEF Init, IInv, Static, OpCurrent, TodoShape, Exclusive,
                            Justified, Settled, AddProgress, RemoveProgress,
                            IdleHandler

(* A stuttering step keeps the invariant.                                  *)
LEMMA StutterIInv ==
    ASSUME IInv, UNCHANGED vars
    PROVE  IInv'
<1>1. /\ \A j \in Keys : Wanted(j)' = Wanted(j) /\ Scope(j)' = Scope(j)
      /\ \A j, j2 \in Keys : Collide(j, j2)' = Collide(j, j2)
  BY WantedStatic, SMTT(20) DEF vars
<1>2. \A j \in Keys : /\ Pending(j)' = Pending(j)
                      /\ Running(j, "add")' = Running(j, "add")
                      /\ Running(j, "remove")' = Running(j, "remove")
                      /\ AddDone(j)' = AddDone(j)
                      /\ RemoveDone(j)' = RemoveDone(j)
  BY <1>1, SMTT(20) DEF vars, Pending, Running, AddDone, RemoveDone
<1>3. TypeOK' /\ Static' /\ OpCurrent' /\ TodoShape'
  BY DEF vars, IInv, TypeOK, Static, OpCurrent, TodoShape, PeerSet
<1>4. Exclusive' /\ Justified'
  BY <1>1, <1>2, SMTT(20) DEF vars, IInv, Exclusive, Justified
<1>7. Settled'
  <2>1. SUFFICES ASSUME NEW j \in announced', j \notin dirty',
                        handler'[j].pc = "idle"
                 PROVE  Wanted(j)' \subseteq dp'
    BY DEF Settled
  <2>2. j \in Keys /\ j \in announced /\ j \notin dirty /\ handler[j].pc = "idle"
    BY <2>1 DEF vars, IInv, TypeOK
  <2>3. QED BY <1>1, <2>2 DEF vars, IInv, Settled
<1>5. AddProgress' /\ RemoveProgress'
  BY <1>2 DEF vars, IInv, AddProgress, RemoveProgress
<1>6. QED BY <1>3, <1>4, <1>5, <1>7 DEF IInv

(* Every step keeps the invariant.                                         *)
LEMMA NextIInv ==
    ASSUME Conditions
    PROVE  IInv /\ [Next]_vars => IInv'
<1> SUFFICES ASSUME IInv, [Next]_vars PROVE IInv'
  OBVIOUS
<1>1. CASE \E k \in Keys : Announce(k)
  BY <1>1, AnnounceIInv
<1>2. CASE \E k \in Keys : Withdraw(k)
  BY <1>2, WithdrawIInv
<1>3. CASE \E k \in Keys : Deliver(k)
  BY <1>3, DeliverIInv
<1>4. CASE \E k \in Keys, p \in VNIs : FanoutPeer(k, p)
  BY <1>4, FanoutPeerIInv
<1>5. CASE \E k \in Keys : Finish(k)
  BY <1>5, FinishIInv
<1>6. CASE \E v \in VNIs : CleanupList(v)
  BY <1>6, CleanupListIInv
<1>7. CASE \E v, p \in VNIs : Unpeer(v, p)
  BY <1>7, DisabledSteps
<1>8. CASE \E v \in VNIs, e \in RouteEntries : CleanupDelete(v, e)
  BY <1>8, DisabledSteps
<1>9. CASE UNCHANGED vars
  BY <1>9, StutterIInv
<1>10. QED BY <1>1, <1>2, <1>3, <1>4, <1>5, <1>6, <1>7, <1>8, <1>9 DEF Next

(* Under the conditions, the strengthening holds in every reachable state. *)
THEOREM InvariantHolds ==
    ASSUME Conditions
    PROVE  Spec => []IInv
BY InitIInv, NextIInv, PTL DEF Spec

(* Quiet states: the pending keys are the announced ones.                  *)
LEMMA IInvConverged == IInv => ConvergedWhenQuiet
<1> SUFFICES ASSUME IInv, Quiet PROVE dp = Desired
  BY DEF ConvergedWhenQuiet
<1>1. \A k \in Keys : Pending(k) <=> k \in announced
  BY DEF Quiet, Pending
<1>2. dp \subseteq Desired
  BY <1>1 DEF IInv, Justified, Desired
<1>3. Desired \subseteq dp
  BY DEF IInv, Settled, Desired, Quiet, TypeOK
<1>4. QED BY <1>2, <1>3

(* Under the conditions (a fixed, mutual peering; SerialNextHopChange;    *)
(* no removal reaching another key's entries), once every callback has    *)
(* returned without error and nothing awaits redelivery, the dataplane    *)
(* holds exactly the entries the announced routes call for (AddRoute,     *)
(* RemoveRoute and the ignore-lists of addLocalRoute / removeLocalRoute). *)
THEOREM ConvergedHolds ==
    ASSUME Conditions
    PROVE  Spec => []ConvergedWhenQuiet
BY InitIInv, NextIInv, IInvConverged, PTL DEF Spec

(* Only Finish returns a callback, and only once its peer loop is done.   *)
LEMMA ReturnsDone ==
    ASSUME Conditions, IInv, [Next]_vars, NEW k \in Keys,
           handler[k].pc = "fanout", handler'[k].pc = "idle"
    PROVE  handler[k].todo = {}
<1>1. handler \in [Keys -> Handlers]
  BY SMTT(20) DEF IInv, TypeOK
<1>2. CASE \E j \in Keys : Deliver(j)
  BY <1>1, <1>2 DEF Deliver
<1>3. CASE \E j \in Keys, p \in VNIs : FanoutPeer(j, p)
  BY <1>1, <1>3 DEF FanoutPeer
<1>4. CASE \E j \in Keys : Finish(j)
  BY <1>1, <1>4, SMTT(20) DEF Finish, IdleHandler
<1>5. CASE \/ \E j \in Keys : Announce(j) \/ Withdraw(j)
           \/ \E v \in VNIs : CleanupList(v)
           \/ UNCHANGED vars
  BY <1>5 DEF Announce, Withdraw, CleanupList, vars
<1>6. CASE \/ \E v, p \in VNIs : Unpeer(v, p)
           \/ \E v \in VNIs, e \in RouteEntries : CleanupDelete(v, e)
  BY <1>6, DisabledSteps
<1>7. QED BY <1>2, <1>3, <1>4, <1>5, <1>6 DEF Next

(* Under the same conditions, AddRoute returns nil only with every entry   *)
(* its route calls for in the dataplane, and RemoveRoute only with none of *)
(* them left, whatever peers failed and whatever other callbacks ran.     *)
THEOREM RealizedHolds ==
    ASSUME Conditions
    PROVE  Spec => SuccessMeansRealized
<1>1. IInv /\ [Next]_vars =>
        [\A k \in Keys :
            (handler[k].pc = "fanout" /\ handler'[k].pc = "idle"
                /\ ~handler[k].err)
            => IF handler[k].op = "add" THEN Wanted(k) \subseteq dp
               ELSE Wanted(k) \cap dp = {}]_vars
  <2> SUFFICES ASSUME IInv, [Next]_vars, NEW k \in Keys,
                      handler[k].pc = "fanout", handler'[k].pc = "idle",
                      ~handler[k].err
               PROVE  IF handler[k].op = "add" THEN Wanted(k) \subseteq dp
                      ELSE Wanted(k) \cap dp = {}
    OBVIOUS
  <2>1. handler[k].todo = {}
    BY ReturnsDone
  <2>2. handler[k].op \in {"add", "remove"}
    BY DEF IInv, TypeOK, Handlers
  <2>3. QED BY <2>1, <2>2, FinishedDone
<1>2. QED BY InitIInv, NextIInv, <1>1, PTL DEF Spec, SuccessMeansRealized
==============================================================================
