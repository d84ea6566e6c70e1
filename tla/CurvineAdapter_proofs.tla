------------------------ MODULE CurvineAdapter_proofs ------------------------
(***************************************************************************)
(* Theorems about CurvineAdapter for every value of its constants: any     *)
(* operations on any entities under any keys, any offers of a server and   *)
(* any kinds and number of faults.                                         *)
(***************************************************************************)
EXTENDS CurvineAdapter, TLAPS

-----------------------------------------------------------------------------
(* What the server keeps.                                                  *)

\* The requests that an operation sends.
Steps(o) ==
  {"completed", "inspect"} \cup
    CASE Action[o] = "Archive" -> {"prepare_archive", "commit_archive"}
      [] Action[o] = "Release" -> {"release"}
      [] OTHER -> {"prepare_recall", "commit_recall"}

\* The feature of the server without which it has no effect.
Uses(o) ==
  CASE Action[o] = "Archive" -> "views"
    [] Action[o] = "Release" -> "release"
    [] OTHER -> "recall"

Admitted(o) == calls[o].pc # "new"

\* Some operations have made a state what it is, by its revision.
Witnessed(state) ==
  /\ state.residency = "Offline" =>
       \E p \in Op : /\ Action[p] = "Release" /\ Target[p] = state.entity
                     /\ outcome[p] # None /\ outcome[p].revision <= state.revision
  /\ \A anchor \in state.anchors : \E p \in Op :
       /\ Action[p] = "Archive" /\ Target[p] = state.entity /\ KeyOf[p] = anchor.key
       /\ outcome[p] # None /\ outcome[p].revision <= state.revision

EntitySound(e) ==
  /\ states[e].entity = e
  /\ ValidState(states[e])
  /\ Witnessed(states[e])

\* A result is a state that the operation it belongs to makes.
OutcomeSound(o) ==
  outcome[o] # None =>
    /\ Admitted(o)
    /\ outcome[o].entity = Target[o]
    /\ outcome[o].revision <= states[Target[o]].revision
    /\ ValidState(outcome[o])
    /\ MatchesAction(o, outcome[o])
    /\ Witnessed(outcome[o])
    /\ Action[o] = "Release" =>
         /\ outcome[o].anchors = calls[o].expected.anchors
         /\ outcome[o].revision >= calls[o].expected.revision

\* A pinned entity stays online, one with a private layout stays offline.
PinSound(o) ==
  o \in pins => Action[o] = "Archive" /\ states[Target[o]].residency # "Offline"

LayoutSound(o) ==
  o \in layouts =>
    /\ Action[o] = "Recall"
    /\ states[Target[o]].residency = "Offline"
    /\ HasKey(o, states[Target[o]])
    /\ \A p \in layouts : Target[p] = Target[o] => p = o

ServerInv ==
  /\ \A e \in Entity : EntitySound(e)
  /\ \A o \in Op : OutcomeSound(o) /\ PinSound(o) /\ LayoutSound(o)

-----------------------------------------------------------------------------
(* What the calls know.                                                    *)

\* DoneIsReal of one operation.
Backed(o, state) ==
  \/ outcome[o] # None /\ state = outcome[o]
  \/ "misroute" \in suffered /\ Vouched(o, state)

\* The state that a call expects is one the entity had, and has if the
\* revision is still the same.
ExpectedSound(o) ==
  Admitted(o) =>
    /\ calls[o].expected \in State
    /\ calls[o].expected.revision <= states[Target[o]].revision
    /\ calls[o].expected.revision = states[Target[o]].revision =>
         calls[o].expected = states[Target[o]]
    /\ Action[o] = "Recall" => HasKey(o, calls[o].expected)

Effect == {"commit_archive", "release", "commit_recall"}

\* Every state in a reply is one that operations have made; as long as no reply
\* went astray, the reply is that of the call it has come to.
TrueReply(o, r) ==
  /\ r.kind \in {"entity", "completed"} /\ r.state # None => Witnessed(r.state)
  /\ "misroute" \notin suffered =>
       /\ r.kind = "completed" /\ r.state # None => r.state = outcome[o]
       /\ r.kind \in {"view", "recall"} => r.op = o /\ Prepared(o)
       /\ r.kind = "entity" /\ calls[o].pc \in Effect =>
            outcome[o] # None /\ r.state = outcome[o]

\* A call that waits for the reply of a commit holds what was prepared for it.
Holds(o) == "misroute" \in suffered \/ (Prepared(o) /\ calls[o].handle = o)

CallSound(o) ==
  /\ calls[o].pc \in Steps(o) \cup Ended \cup {"new"}
  /\ calls[o].pc = "inspect" /\ calls[o].inside => Action[o] = "Release"
  /\ calls[o].pc \in {"commit_archive", "commit_recall"} => Holds(o)
  /\ calls[o].pc = "Done" => Backed(o, calls[o].answer)
  /\ calls[o].reply # None => calls[o].pc \in Waiting /\ TrueReply(o, calls[o].reply)

\* A request that may arrive is one that its operation has sent.
RequestSound(q) ==
  q.kind \in Steps(q.op) /\ Admitted(q.op) /\ q.expected = calls[q.op].expected

CallsInv ==
  /\ \A o \in Op : ExpectedSound(o) /\ CallSound(o)
  /\ \A q \in late : RequestSound(q)
  /\ link # None => Validate(link)

-----------------------------------------------------------------------------
(* What holds as long as only the network and processes have failed.       *)

\* The entity has changed since the operation was admitted.
Overtaken(o) == states[Target[o]].revision > calls[o].expected.revision

\* The operation has no effect, and no request of it can have one any more.
Doomed(o) ==
  /\ ~Prepared(o)
  /\ Uses(o) \notin offer \/ (Action[o] # "Archive" /\ Overtaken(o))

\* The reply passes the checks of the method.
Fits(o, r) ==
  /\ calls[o].pc = "completed" =>
       /\ r.kind = "completed"
       /\ r.state # None => /\ r.state.entity = Target[o] /\ ValidState(r.state)
                            /\ MatchesAction(o, r.state)
  /\ calls[o].pc \in {"inspect"} \cup Effect =>
       /\ r.kind = "entity" /\ r.state # None
       /\ r.state.entity = Target[o] /\ ValidState(r.state)
  /\ calls[o].pc \in Effect => MatchesAction(o, r.state)
  /\ calls[o].pc = "release" =>
       /\ r.state.anchors = calls[o].expected.anchors
       /\ r.state.revision >= calls[o].expected.revision
  /\ calls[o].pc = "prepare_archive" => r.kind = "view" /\ r.op = o
  /\ calls[o].pc = "prepare_recall" => r.kind = "recall" /\ r.op = o

FairReply(o, r) ==
  /\ r.kind \notin {"version", "garbled"}
  /\ r.kind = "error" => r.code \in {"busy", "new"} \/ Doomed(o)
  /\ r.kind \notin {"lost", "error"} => Fits(o, r)
  /\ r.kind = "entity" /\ calls[o].pc = "inspect" =>
       r.state = calls[o].expected \/ Overtaken(o)

NetworkKept ==
  /\ link \in {None, offer}
  /\ \A o \in Op : Prepared(o) => Uses(o) \in offer
  /\ \A o \in Op : calls[o].pc = "Failed" => Doomed(o) \/ MayOvertake(o)
  /\ \A o \in Op : calls[o].reply # None => FairReply(o, calls[o].reply)

NetworkInv == OnlyNetwork => NetworkKept

AdapterSound == TypeOK /\ ServerInv /\ CallsInv /\ NetworkInv

\* The source is known to have no outcome of the operation.
LookedUp(o) ==
  \/ calls[o].pc = "inspect"
  \/ /\ calls[o].pc = "completed" /\ calls[o].reply # None
     /\ calls[o].reply.kind = "completed" /\ calls[o].reply.state = None

\* As long as no request was late, a Release that has looked has not happened
\* meanwhile: it is sent by nothing but the call.
LookupInv ==
  suffered \cap {"late", "misroute"} = {} =>
    /\ late = {}
    /\ \A o \in Op : Action[o] = "Release" /\ LookedUp(o) => outcome[o] = None

-----------------------------------------------------------------------------
(* A request at the server.                                                *)

LEMMA ResultTyped ==
  ASSUME ServerTypeOK, NEW q \in Request, q.kind \in Effect
  PROVE  /\ Result(q) \in State
         /\ Result(q).entity = states[Target[q.op]].entity
         /\ Result(q).revision = states[Target[q.op]].revision + 1
         /\ Result(q).residency = IF q.kind = "release" THEN "Offline" ELSE "Dual"
         /\ Result(q).anchors = IF q.kind = "commit_archive"
                                THEN states[Target[q.op]].anchors \cup {ReceiptOf(q.op)}
                                ELSE states[Target[q.op]].anchors
<1> DEFINE e == Target[q.op]
<1>1. q.op \in Op /\ e \in Entity /\ KeyOf[q.op] \in Key
  BY OpAssumption DEF Request
<1>2. states[e] \in State
  BY <1>1 DEF ServerTypeOK
<1>3. ReceiptOf(q.op) \in Receipt
  BY <1>1 DEF ReceiptOf, Receipt
<1>4. \A residency \in {"Online", "Dual", "Offline"}, anchors \in SUBSET Receipt :
        /\ Moved(e, residency, anchors) \in State
        /\ Moved(e, residency, anchors).entity = states[e].entity
        /\ Moved(e, residency, anchors).revision = states[e].revision + 1
        /\ Moved(e, residency, anchors).residency = residency
        /\ Moved(e, residency, anchors).anchors = anchors
  <2> HIDE DEF e
  <2> TAKE residency \in {"Online", "Dual", "Offline"}, anchors \in SUBSET Receipt
  <2>1. states[e].entity \in Entity /\ states[e].revision + 1 \in Nat
    BY <1>2 DEF State
  <2>2. Moved(e, residency, anchors) =
          [states[e] EXCEPT !.revision = states[e].revision + 1,
                            !.residency = residency, !.anchors = anchors]
    BY DEF Moved
  <2>3. states[e] = [entity |-> states[e].entity, revision |-> states[e].revision,
                     residency |-> states[e].residency, anchors |-> states[e].anchors]
    BY <1>2 DEF State
  <2> QED
    BY <2>1, <2>2, <2>3 DEF State
<1>5. states[e].anchors \subseteq Receipt
  BY <1>2 DEF State
<1>6. CASE q.kind = "commit_archive"
  <2>1. Result(q) = Moved(e, "Dual", states[e].anchors \cup {ReceiptOf(q.op)})
    BY <1>6 DEF Result
  <2> QED
    BY <1>3, <1>4, <1>5, <1>6, <2>1
<1>7. CASE q.kind = "release"
  <2>1. Result(q) = Moved(e, "Offline", states[e].anchors)
    BY <1>7 DEF Result
  <2> QED
    BY <1>4, <1>5, <1>7, <2>1
<1>8. CASE q.kind = "commit_recall"
  <2>1. Result(q) = Moved(e, "Dual", states[e].anchors)
    BY <1>8 DEF Result
  <2> QED
    BY <1>4, <1>5, <1>8, <2>1
<1> QED
  BY <1>6, <1>7, <1>8 DEF Effect

LEMMA ApplyTyped ==
  ASSUME ServerTypeOK, NEW q \in Request, Apply(q)
  PROVE  ServerTypeOK'
<1>1. q.op \in Op
  BY DEF Request
<1>2. CASE Granted(q) /\ Prepare(q)
  BY <1>1, <1>2 DEF Apply, Prepare, ServerTypeOK
<1>3. CASE Granted(q) /\ Commit(q)
  BY <1>1, <1>3, ResultTyped DEF Apply, Commit, ServerTypeOK, Effect
<1>4. CASE ~Granted(q)
  BY <1>4 DEF Apply, ServerTypeOK
<1> QED
  BY <1>2, <1>3, <1>4 DEF Apply

\* Time goes on: revisions rise, results and preparations stay.
Onward ==
  /\ \A e \in Entity :
       /\ states'[e].revision >= states[e].revision
       /\ states'[e].revision = states[e].revision => states'[e] = states[e]
  /\ \A o \in Op : outcome[o] # None => outcome'[o] = outcome[o]
  /\ \A o \in Op : Prepared(o) => Prepared(o)'

LEMMA ApplyOnward ==
  ASSUME ServerTypeOK, NEW q \in Request, Apply(q)
  PROVE  Onward
<1>1. q.op \in Op
  BY DEF Request
<1>2. \A e \in Entity : states[e] \in State /\ states[e].revision \in Nat
  BY DEF ServerTypeOK, State
<1>3. CASE UNCHANGED <<states, outcome>> /\ pins \subseteq pins' /\ layouts \subseteq layouts'
  BY <1>2, <1>3 DEF Onward, Prepared
<1>4. CASE Granted(q) /\ Prepare(q)
  BY <1>3, <1>4 DEF Prepare
<1>5. CASE Granted(q) /\ Commit(q)
  <2>1. outcome[q.op] = None
    BY <1>5 DEF Granted
  <2>2. Result(q) \in State /\ Result(q).revision = states[Target[q.op]].revision + 1
    BY <1>5, ResultTyped DEF Commit, Effect
  <2>3. Result(q) # None
    BY <2>2, NoStateAssumption
  <2>4. \A e \in Entity :
          /\ states'[e].revision >= states[e].revision
          /\ states'[e].revision = states[e].revision => states'[e] = states[e]
    BY <1>2, <1>5, <2>2 DEF Commit, ServerTypeOK
  <2>5. \A o \in Op : outcome'[o] = IF o = q.op THEN Result(q) ELSE outcome[o]
    BY <1>5 DEF Commit, ServerTypeOK
  <2>6. \A o \in Op : Prepared(o) => Prepared(o)'
    BY <1>5, <2>3, <2>5 DEF Commit, Prepared
  <2> QED
    BY <2>1, <2>4, <2>5, <2>6 DEF Onward
<1>6. CASE ~Granted(q)
  BY <1>3, <1>6 DEF Apply
<1> QED
  BY <1>4, <1>5, <1>6 DEF Apply

LEMMA StillOnward ==
  ASSUME ServerTypeOK, UNCHANGED <<states, outcome, pins, layouts>>
  PROVE  Onward
<1>1. \A e \in Entity : states[e].revision \in Nat
  BY DEF ServerTypeOK, State
<1> QED
  BY <1>1 DEF Onward, Prepared

\* Who has made a state what it is stays known.
LEMMA WitnessedStays ==
  ASSUME Onward, NEW state, Witnessed(state)
  PROVE  Witnessed(state)'
BY DEF Witnessed, Onward

\* Operations stay admitted with the state they expected.
AdmissionsStay ==
  \A o \in Op : Admitted(o) => Admitted(o)' /\ calls'[o].expected = calls[o].expected

LEMMA StillServer ==
  ASSUME ServerInv, AdmissionsStay, UNCHANGED <<states, outcome, pins, layouts>>
  PROVE  ServerInv'
<1>1. \A e \in Entity : EntitySound(e)'
  BY DEF ServerInv, EntitySound, Witnessed
<1>2. \A o \in Op : OutcomeSound(o)'
  BY DEF ServerInv, OutcomeSound, AdmissionsStay, Witnessed
<1>3. \A o \in Op : PinSound(o)' /\ LayoutSound(o)'
  BY DEF ServerInv, PinSound, LayoutSound
<1> QED
  BY <1>1, <1>2, <1>3 DEF ServerInv

LEMMA KindOfAction ==
  ASSUME NEW o \in Op, NEW kind \in Steps(o)
  PROVE  /\ kind \in Waiting
         /\ kind \in {"prepare_archive", "commit_archive"} => Action[o] = "Archive"
         /\ kind = "release" => Action[o] = "Release"
         /\ kind \in {"prepare_recall", "commit_recall"} => Action[o] = "Recall"
         /\ Action[o] = "Archive" =>
              kind \in {"completed", "inspect", "prepare_archive", "commit_archive"}
         /\ Action[o] = "Release" => kind \in {"completed", "inspect", "release"}
         /\ Action[o] = "Recall" =>
              kind \in {"completed", "inspect", "prepare_recall", "commit_recall"}
<1>1. Action[o] \in {"Archive", "Release", "Recall"}
  BY OpAssumption
<1> QED
  BY <1>1 DEF Steps, Waiting

\* A result of the present step is sound for the operation it belongs to.
LEMMA CommitSound ==
  ASSUME TypeOK, ServerInv, CallsInv, NEW q \in Request, RequestSound(q),
         Granted(q), Commit(q), AdmissionsStay
  PROVE  OutcomeSound(q.op)' /\ EntitySound(Target[q.op])'
<1> DEFINE o == q.op
           e == Target[q.op]
<1> PICK after : after = Result(q)
  OBVIOUS
<1>1. o \in Op /\ e \in Entity
  BY OpAssumption DEF Request
<1>2. q.kind \in Effect /\ q.kind \in Steps(o)
  BY DEF Commit, Effect, RequestSound
<1>3. /\ after \in State /\ after.entity = states[e].entity
      /\ after.revision = states[e].revision + 1
      /\ after.residency = IF q.kind = "release" THEN "Offline" ELSE "Dual"
      /\ after.anchors = IF q.kind = "commit_archive"
                         THEN states[e].anchors \cup {ReceiptOf(o)} ELSE states[e].anchors
  BY <1>2, ResultTyped DEF TypeOK
<1>4. states'[e] = after /\ outcome'[o] = after
  BY <1>1 DEF Commit, TypeOK, ServerTypeOK
<1>5. after # None
  BY <1>3, NoStateAssumption
<1>6. states[e].entity = e /\ ValidState(states[e]) /\ Witnessed(states[e])
  BY <1>1 DEF ServerInv, EntitySound
<1>7. ReceiptOf(o).entity = e /\ ReceiptOf(o).key = KeyOf[o]
  BY DEF ReceiptOf
<1>8. Admitted(o) /\ q.expected = calls[o].expected /\ calls'[o].expected = q.expected
  BY <1>1 DEF RequestSound, AdmissionsStay
<1>9. states[e].revision \in Nat /\ states[e] \in State
  BY <1>1 DEF TypeOK, ServerTypeOK, State
<1>10. /\ q.kind = "commit_archive" => Action[o] = "Archive"
       /\ q.kind = "release" => Action[o] = "Release"
       /\ q.kind = "commit_recall" => Action[o] = "Recall"
  BY <1>1, <1>2, KindOfAction
<1>11. ValidState(after)
  <2>1. q.kind # "commit_archive" => states[e].residency # "Online"
    <3>1. CASE q.kind = "release"
      BY <3>1 DEF Granted
    <3>2. CASE q.kind = "commit_recall"
      <4>1. o \in layouts
        BY <3>2 DEF Granted
      <4> QED
        BY <1>1, <4>1 DEF ServerInv, LayoutSound
    <3> QED
      BY <1>2, <3>1, <3>2 DEF Effect
  <2> QED
    BY <1>3, <1>6, <1>7, <2>1 DEF ValidState
<1>12. MatchesAction(o, after)
  <2>1. CASE q.kind = "commit_archive"
    BY <1>3, <1>7, <1>10, <2>1 DEF MatchesAction, HasKey
  <2>2. CASE q.kind = "release"
    BY <1>3, <1>10, <2>2 DEF MatchesAction
  <2>3. CASE q.kind = "commit_recall"
    <3>1. o \in layouts
      BY <2>3 DEF Granted
    <3>2. HasKey(o, states[e])
      BY <1>1, <3>1 DEF ServerInv, LayoutSound
    <3> QED
      BY <1>3, <1>10, <2>3, <3>2 DEF MatchesAction, HasKey
  <2> QED
    BY <1>2, <2>1, <2>2, <2>3 DEF Effect
<1>13. Action[o] = "Release" => after.anchors = calls'[o].expected.anchors
                                /\ after.revision >= calls'[o].expected.revision
  <2> HAVE Action[o] = "Release"
  <2>1. q.kind = "release"
    BY <1>1, <1>2, KindOfAction DEF Effect
  <2>2. states[e] = q.expected
    BY <2>1 DEF Granted
  <2> QED
    BY <1>3, <1>8, <1>9, <2>1, <2>2
<1>14. Witnessed(after)'
  <2> DEFINE known(p) == /\ Target[p] = e
                         /\ outcome'[p] # None /\ outcome'[p].revision <= after.revision
  <2>1. known(o)
    BY <1>3, <1>4, <1>5, <1>9
  <2>2. ASSUME NEW anchor \in states[e].anchors
        PROVE  \E p \in Op : Action[p] = "Archive" /\ KeyOf[p] = anchor.key /\ known(p)
    <3>1. PICK p \in Op : /\ Action[p] = "Archive" /\ Target[p] = e /\ KeyOf[p] = anchor.key
                          /\ outcome[p] # None
                          /\ outcome[p].revision <= states[e].revision
      BY <1>6 DEF Witnessed
    <3>2. outcome'[p] = outcome[p]
      BY <3>1 DEF Granted, Commit, TypeOK, ServerTypeOK
    <3>3. outcome[p].revision \in Nat
      BY <3>1 DEF TypeOK, ServerTypeOK, State
    <3> QED
      BY <1>3, <1>9, <3>1, <3>2, <3>3
  <2>3. \A anchor \in after.anchors : \E p \in Op :
          Action[p] = "Archive" /\ KeyOf[p] = anchor.key /\ known(p)
    <3>1. CASE q.kind = "commit_archive"
      BY <1>1, <1>3, <1>7, <1>10, <2>1, <2>2, <3>1
    <3>2. CASE q.kind # "commit_archive"
      BY <1>3, <2>2, <3>2
    <3> QED
      BY <3>1, <3>2
  <2>4. after.residency = "Offline" => Action[o] = "Release"
    BY <1>3, <1>10
  <2> QED
    BY <1>1, <1>3, <1>6, <2>1, <2>3, <2>4 DEF Witnessed
<1>15. OutcomeSound(o)'
  <2>1. Admitted(o)'
    BY <1>1, <1>8 DEF AdmissionsStay
  <2>2. ValidState(outcome'[o]) /\ MatchesAction(o, outcome'[o])
    BY <1>4, <1>11, <1>12
  <2>3. outcome'[o].entity = e /\ outcome'[o].revision <= states'[e].revision
    BY <1>3, <1>4, <1>6, <1>9
  <2> QED
    BY <1>4, <1>13, <1>14, <2>1, <2>2, <2>3 DEF OutcomeSound, Witnessed
<1>16. EntitySound(e)'
  BY <1>3, <1>4, <1>6, <1>11, <1>14 DEF EntitySound, Witnessed
<1> QED
  BY <1>15, <1>16

LEMMA ApplyServer ==
  ASSUME TypeOK, ServerInv, CallsInv, NEW q \in Request, RequestSound(q), Apply(q),
         AdmissionsStay
  PROVE  ServerInv'
<1> DEFINE o == q.op
           e == Target[q.op]
<1>1. o \in Op /\ e \in Entity /\ q.kind \in Steps(o)
  BY OpAssumption DEF Request, RequestSound
<1>2. CASE ~Granted(q)
  BY <1>2, StillServer DEF Apply
<1>3. CASE Granted(q) /\ Prepare(q)
  <2>1. /\ \A d \in Entity : EntitySound(d)'
        /\ \A p \in Op : OutcomeSound(p)'
    BY <1>3 DEF Prepare, ServerInv, EntitySound, OutcomeSound, Witnessed, AdmissionsStay
  <2>2. CASE q.kind = "prepare_archive"
    <3>1. Action[o] = "Archive" /\ states[e].residency # "Offline"
      BY <1>1, <1>3, <2>2, KindOfAction DEF Granted
    <3>2. pins' = pins \cup {o} /\ layouts' = layouts /\ states' = states
      BY <1>3, <2>2 DEF Prepare
    <3>3. \A p \in Op : PinSound(p)' /\ LayoutSound(p)'
      BY <3>1, <3>2 DEF ServerInv, PinSound, LayoutSound
    <3> QED
      BY <2>1, <3>3 DEF ServerInv
  <2>3. CASE q.kind = "prepare_recall"
    <3>1. /\ Action[o] = "Recall" /\ states[e] = q.expected
          /\ states[e].residency = "Offline" /\ On(e, layouts) = {}
      BY <1>1, <1>3, <2>3, KindOfAction DEF Granted
    <3>2. HasKey(o, states[e])
      BY <1>1, <3>1 DEF RequestSound, CallsInv, ExpectedSound
    <3>3. layouts' = layouts \cup {o} /\ pins' = pins /\ states' = states
      BY <1>3, <2>3 DEF Prepare
    <3>4. \A p \in layouts : Target[p] # e
      BY <3>1 DEF On
    <3>5. \A p \in Op : PinSound(p)'
      BY <3>3 DEF ServerInv, PinSound
    <3>6. \A p \in Op : LayoutSound(p)'
      BY <3>1, <3>2, <3>3, <3>4 DEF ServerInv, LayoutSound
    <3> QED
      BY <2>1, <3>5, <3>6 DEF ServerInv
  <2> QED
    BY <1>3, <2>2, <2>3 DEF Prepare
<1>4. CASE Granted(q) /\ Commit(q)
  <2>1. OutcomeSound(o)' /\ EntitySound(e)'
    BY <1>4, CommitSound
  <2>2. /\ \A d \in Entity : d # e => states'[d] = states[d]
        /\ \A p \in Op : p # o => outcome'[p] = outcome[p]
        /\ states'[e] = Result(q)
    BY <1>1, <1>4 DEF Commit, TypeOK, ServerTypeOK
  <2>3. Onward
    BY <1>4, ApplyOnward DEF TypeOK
  <2>4. \A d \in Entity : EntitySound(d)'
    <3>1. \A d \in Entity : d # e => EntitySound(d)'
      <4> TAKE d \in Entity
      <4> HAVE d # e
      <4>1. EntitySound(d) /\ states'[d] = states[d]
        BY <2>2 DEF ServerInv
      <4> PICK s : s = states[d]
        OBVIOUS
      <4>2. Witnessed(s)'
        BY <2>3, <4>1, WitnessedStays DEF EntitySound
      <4> QED
        BY <4>1, <4>2 DEF EntitySound, Witnessed
    <3> QED
      BY <2>1, <3>1
  <2>5. \A p \in Op : OutcomeSound(p)'
    <3>1. \A p \in Op : p # o => OutcomeSound(p)'
      <4> TAKE p \in Op
      <4> HAVE p # o
      <4>1. OutcomeSound(p) /\ outcome'[p] = outcome[p] /\ Target[p] \in Entity
        BY <2>2, OpAssumption DEF ServerInv
      <4>2. states'[Target[p]].revision >= states[Target[p]].revision
        BY <2>3, <4>1 DEF Onward
      <4>3. outcome[p] # None => outcome[p].revision \in Nat
                                 /\ states[Target[p]].revision \in Nat
                                 /\ states'[Target[p]].revision \in Nat
        <5>1. ServerTypeOK'
          BY <1>4, ApplyTyped DEF TypeOK
        <5> QED
          BY <4>1, <5>1 DEF TypeOK, ServerTypeOK, State
      <4> PICK s : s = outcome[p]
        OBVIOUS
      <4>4. outcome[p] # None => Witnessed(s)'
        BY <2>3, <4>1, WitnessedStays DEF OutcomeSound
      <4>5. outcome'[p] # None => Witnessed(outcome[p])'
        BY <4>1, <4>4 DEF Witnessed
      <4> QED
        BY <4>1, <4>2, <4>3, <4>5 DEF OutcomeSound, AdmissionsStay
    <3> QED
      BY <2>1, <3>1
  <2>6. pins' = pins \ {o} /\ layouts' = layouts \ {o}
    BY <1>4 DEF Commit
  <2>7. q.kind \in Effect
    BY <1>4 DEF Commit, Effect
  <2>8. Result(q).residency = IF q.kind = "release" THEN "Offline" ELSE "Dual"
    BY <2>7, ResultTyped DEF TypeOK
  <2>9. q.kind = "release" => \A p \in pins \cup layouts : Target[p] # e
    BY <1>4 DEF Granted, On, TypeOK, ServerTypeOK
  <2>10. \A p \in Op : PinSound(p)'
    BY <2>2, <2>6, <2>8, <2>9, OpAssumption DEF ServerInv, PinSound
  <2>11. \A p \in layouts' : Target[p] # e
    <3>1. CASE q.kind = "commit_archive"
      <4>1. o \in pins
        BY <1>4, <3>1 DEF Granted
      <4> QED
        BY <1>1, <2>6, <4>1 DEF ServerInv, PinSound, LayoutSound, TypeOK, ServerTypeOK
    <3>2. CASE q.kind = "release"
      BY <2>6, <2>9, <3>2
    <3>3. CASE q.kind = "commit_recall"
      <4>1. o \in layouts
        BY <1>4, <3>3 DEF Granted
      <4> QED
        BY <1>1, <2>6, <4>1 DEF ServerInv, LayoutSound
    <3> QED
      BY <2>7, <3>1, <3>2, <3>3 DEF Effect
  <2>12. \A p \in Op : LayoutSound(p)'
    BY <2>2, <2>6, <2>11, OpAssumption DEF ServerInv, LayoutSound
  <2> QED
    BY <2>4, <2>5, <2>10, <2>12 DEF ServerInv
<1> QED
  BY <1>2, <1>3, <1>4 DEF Apply

\* An entity does not go back.
LEMMA OvertakenStays ==
  ASSUME TypeOK, CallsInv, ServerTypeOK', Onward, AdmissionsStay,
         NEW o \in Op, Admitted(o), Overtaken(o)
  PROVE  Overtaken(o)'
<1>1. /\ Target[o] \in Entity
      /\ states[Target[o]].revision \in Nat /\ states'[Target[o]].revision \in Nat
      /\ calls[o].expected.revision \in Nat
  BY OpAssumption DEF TypeOK, ServerTypeOK, State, CallsInv, ExpectedSound
<1>2. calls'[o].expected = calls[o].expected
  BY DEF AdmissionsStay
<1>3. states'[Target[o]].revision >= states[Target[o]].revision
  BY <1>1 DEF Onward
<1> QED
  BY <1>1, <1>2, <1>3 DEF Overtaken

\* While the offer stays, what is prepared was offered, and what is doomed
\* stays so.
LEMMA ApplyDoomed ==
  ASSUME TypeOK, ServerInv, CallsInv, NetworkInv, OnlyNetwork,
         NEW q \in Request, RequestSound(q), Apply(q), AdmissionsStay
  PROVE  /\ \A o \in Op : Prepared(o)' => Uses(o) \in offer'
         /\ \A o \in Op : Admitted(o) /\ Doomed(o) => Doomed(o)'
<1>1. q.op \in Op /\ q.kind \in Steps(q.op)
  BY DEF Request, RequestSound
<1>2. offer' = offer /\ Onward
  BY ApplyOnward DEF Apply, TypeOK
<1>3. \A o \in Op : Prepared(o)' => Prepared(o) \/ (o = q.op /\ Granted(q))
  BY DEF Apply, Prepare, Commit, Prepared, TypeOK, ServerTypeOK
<1>4. Granted(q) => Uses(q.op) \in offer
  <2> HAVE Granted(q)
  <2>1. CASE q.kind \in {"commit_archive", "commit_recall"}
    <3>1. Prepared(q.op)
      BY <2>1 DEF Granted, Prepared
    <3> QED
      BY <1>1, <3>1 DEF NetworkInv, NetworkKept
  <2>2. CASE q.kind \in {"prepare_archive", "release", "prepare_recall"}
    BY <1>1, <2>2, KindOfAction DEF Granted, Needs, Uses
  <2> QED
    BY <2>1, <2>2 DEF Granted
<1>5. \A o \in Op : Admitted(o) /\ Doomed(o) => Doomed(o)'
  <2> TAKE o \in Op
  <2> HAVE Admitted(o) /\ Doomed(o)
  <2>1. ~(o = q.op /\ Granted(q))
    <3> SUFFICES ASSUME o = q.op, Granted(q) PROVE FALSE
      OBVIOUS
    <3>1. Action[o] # "Archive" /\ states[Target[o]].revision > calls[o].expected.revision
      BY <1>4 DEF Doomed, Overtaken
    <3>2. ~Prepared(o)
      BY DEF Doomed
    <3>3. q.kind \in {"release", "prepare_recall"}
      BY <1>1, <3>1, <3>2, KindOfAction DEF Granted, Prepared
    <3>4. states[Target[o]] = calls[o].expected
      BY <3>3 DEF Granted, RequestSound
    <3>5. states[Target[o]].revision \in Nat
      BY OpAssumption DEF TypeOK, ServerTypeOK, State
    <3> QED
      BY <3>1, <3>4, <3>5
  <2>2. ~Prepared(o)'
    BY <1>3, <2>1 DEF Doomed
  <2>3. ServerTypeOK'
    BY ApplyTyped DEF TypeOK
  <2>4. Overtaken(o) => Overtaken(o)'
    BY <1>2, <2>3, OvertakenStays
  <2> QED
    BY <1>2, <2>2, <2>4 DEF Doomed, Uses
<1> QED
  BY <1>2, <1>3, <1>4, <1>5 DEF NetworkInv, NetworkKept

-----------------------------------------------------------------------------
(* What a call knows stays true.                                           *)

LEMMA BackedStays ==
  ASSUME Onward, suffered \subseteq suffered', NEW o \in Op, NEW state, Backed(o, state)
  PROVE  Backed(o, state)'
BY DEF Backed, Vouched, Onward

LEMMA TrueReplyStays ==
  ASSUME Onward, suffered \subseteq suffered', NEW o \in Op, calls'[o].pc = calls[o].pc,
         NEW r, TrueReply(o, r)
  PROVE  TrueReply(o, r)'
<1> PICK s : s = r.state
  OBVIOUS
<1>1. Witnessed(s) => Witnessed(s)'
  BY WitnessedStays
<1>2. Witnessed(r.state) => Witnessed(r.state)'
  BY <1>1 DEF Witnessed
<1> QED
  BY <1>2 DEF TrueReply, Onward

LEMMA CallStays ==
  ASSUME Onward, suffered \subseteq suffered', NEW o \in Op, calls'[o] = calls[o],
         CallSound(o)
  PROVE  CallSound(o)'
<1>1. calls[o].pc = "Done" => Backed(o, calls[o].answer)'
  <2> PICK a : a = calls[o].answer
    OBVIOUS
  <2> QED
    BY BackedStays DEF CallSound
<1>2. calls[o].reply # None => TrueReply(o, calls[o].reply)'
  <2> PICK r : r = calls[o].reply
    OBVIOUS
  <2> QED
    BY TrueReplyStays DEF CallSound
<1>3. Holds(o) => Holds(o)'
  BY DEF Holds, Onward
<1> QED
  BY <1>1, <1>2, <1>3 DEF CallSound

LEMMA ExpectedStays ==
  ASSUME TypeOK, ServerTypeOK', Onward, AdmissionsStay,
         NEW o \in Op, Admitted(o), ExpectedSound(o)
  PROVE  ExpectedSound(o)'
<1>1. calls'[o].expected = calls[o].expected /\ Target[o] \in Entity
  BY OpAssumption DEF AdmissionsStay
<1>2. /\ states[Target[o]].revision \in Nat /\ states'[Target[o]].revision \in Nat
      /\ calls[o].expected.revision \in Nat
  BY <1>1 DEF TypeOK, ServerTypeOK, State, ExpectedSound
<1>3. /\ states'[Target[o]].revision >= states[Target[o]].revision
      /\ states'[Target[o]].revision = states[Target[o]].revision =>
           states'[Target[o]] = states[Target[o]]
  BY <1>1 DEF Onward
<1> QED
  BY <1>1, <1>2, <1>3 DEF ExpectedSound

LEMMA FairReplyStays ==
  ASSUME NEW o \in Op, calls'[o].pc = calls[o].pc, calls'[o].expected = calls[o].expected,
         Doomed(o) => Doomed(o)', Overtaken(o) => Overtaken(o)', NEW r, FairReply(o, r)
  PROVE  FairReply(o, r)'
<1>1. Fits(o, r) => Fits(o, r)'
  BY DEF Fits
<1> QED
  BY <1>1 DEF FairReply

LEMMA RequestStays ==
  ASSUME AdmissionsStay, NEW q \in Request, RequestSound(q)
  PROVE  RequestSound(q)'
BY DEF RequestSound, AdmissionsStay, Request

\* A call goes on by itself.
LEMMA CallGoesOn ==
  ASSUME AdapterSound, NEW o \in Op, Admitted(o), NEW c \in Call,
         c.pc # "new", c.expected = calls[o].expected, c.reply = None,
         calls' = [calls EXCEPT ![o] = c],
         UNCHANGED <<offer, states, outcome, pins, layouts, link, late, suffered>>,
         c.pc \in Steps(o) \cup Ended,
         c.pc = "inspect" /\ c.inside => Action[o] = "Release",
         c.pc \in {"commit_archive", "commit_recall"} =>
           "misroute" \in suffered \/ (Prepared(o) /\ c.handle = o),
         c.pc = "Done" => Backed(o, c.answer),
         OnlyNetwork /\ c.pc = "Failed" => Doomed(o) \/ MayOvertake(o)
  PROVE  AdapterSound'
<1>1. TypeOK'
  BY DEF AdapterSound, TypeOK, ServerTypeOK
<1>2. calls'[o] = c /\ \A p \in Op : p # o => calls'[p] = calls[p]
  BY DEF AdapterSound, TypeOK
<1>3. AdmissionsStay
  BY <1>2 DEF AdmissionsStay, Admitted
<1>4. ServerInv' /\ Onward
  BY <1>3, StillServer, StillOnward DEF AdapterSound, TypeOK
<1>5. CallsInv'
  <2>1. \A p \in Op : ExpectedSound(p)'
    BY <1>2 DEF AdapterSound, CallsInv, ExpectedSound, Admitted
  <2>2. CallSound(o)'
    BY <1>2 DEF CallSound, Backed, Vouched, Holds, Prepared
  <2>3. \A p \in Op : CallSound(p)'
    BY <1>2, <1>4, <2>2, CallStays DEF AdapterSound, CallsInv
  <2>4. \A q \in late' : RequestSound(q)'
    BY <1>3, RequestStays DEF AdapterSound, CallsInv, TypeOK
  <2> QED
    BY <2>1, <2>3, <2>4 DEF AdapterSound, CallsInv
<1>6. NetworkInv'
  <2> SUFFICES ASSUME OnlyNetwork'
               PROVE  NetworkKept'
    BY DEF NetworkInv
  <2>1. OnlyNetwork
    BY DEF OnlyNetwork
  <2>2. \A p \in Op : Prepared(p)' => Uses(p) \in offer'
    BY <2>1 DEF AdapterSound, NetworkInv, NetworkKept, Prepared
  <2>3. \A p \in Op : (Doomed(p) => Doomed(p)') /\ (Overtaken(p) => Overtaken(p)')
    BY <1>2 DEF Doomed, Overtaken, Prepared
  <2>4. \A p \in Op : calls'[p].pc = "Failed" => Doomed(p)' \/ MayOvertake(p)'
    BY <1>2, <2>1, <2>3 DEF AdapterSound, NetworkInv, NetworkKept, MayOvertake
  <2>5. \A p \in Op : calls'[p].reply # None => FairReply(p, calls[p].reply)'
    <3> TAKE p \in Op
    <3> HAVE calls'[p].reply # None
    <3>1. calls'[p] = calls[p]
      BY <1>2
    <3>2. FairReply(p, calls[p].reply)
      BY <2>1, <3>1 DEF AdapterSound, NetworkInv, NetworkKept
    <3> PICK r : r = calls[p].reply
      OBVIOUS
    <3> QED
      BY <2>3, <3>1, <3>2, FairReplyStays
  <2> QED
    BY <2>1, <2>2, <2>4, <2>5 DEF AdapterSound, NetworkInv, NetworkKept
<1> QED
  BY <1>1, <1>4, <1>5, <1>6 DEF AdapterSound

-----------------------------------------------------------------------------
(* Errors and replies.                                                     *)

LEMMA WaitingCall ==
  ASSUME AdapterSound, NEW o \in Op, calls[o].pc \in Waiting
  PROVE  /\ calls[o] \in Call /\ Admitted(o)
         /\ calls[o].pc \in Steps(o)
         /\ calls[o].expected \in State
         /\ calls[o].reply # None =>
              calls[o].reply \in Reply /\ TrueReply(o, calls[o].reply)
         /\ OnlyNetwork /\ calls[o].reply # None => FairReply(o, calls[o].reply)
<1>1. calls[o] \in Call
  BY DEF AdapterSound, TypeOK
<1>2. calls[o].pc \in Steps(o) /\ Admitted(o)
  BY DEF AdapterSound, CallsInv, CallSound, Waiting, Ended, Admitted
<1>3. calls[o].expected \in State
  BY <1>2 DEF AdapterSound, CallsInv, ExpectedSound
<1>4. calls[o].reply # None => calls[o].reply \in Reply /\ TrueReply(o, calls[o].reply)
  BY <1>1 DEF AdapterSound, CallsInv, CallSound, Call
<1>5. OnlyNetwork /\ calls[o].reply # None => FairReply(o, calls[o].reply)
  BY DEF AdapterSound, NetworkInv, NetworkKept
<1> QED
  BY <1>1, <1>2, <1>3, <1>4, <1>5

\* A call that fails for good is one that can have no effect.
LEMMA Raised ==
  ASSUME AdapterSound, NEW o \in Op, calls[o].pc \in Waiting, NEW error, Raise(o, error),
         UNCHANGED <<offer, states, outcome, pins, layouts, link, late, suffered>>,
         OnlyNetwork /\ ~Retried(error) => Doomed(o) \/ MayOvertake(o)
  PROVE  AdapterSound'
<1>1. calls[o] \in Call /\ Admitted(o)
  BY WaitingCall
<1>2. PICK c : c = [pc |-> IF Retried(error) THEN "completed" ELSE "Failed",
                    inside |-> FALSE, expected |-> calls[o].expected, handle |-> None,
                    reply |-> None, answer |-> None]
  OBVIOUS
<1>3. /\ c \in Call /\ c.expected = calls[o].expected /\ c.reply = None
      /\ c.pc = IF Retried(error) THEN "completed" ELSE "Failed"
  BY <1>1, <1>2 DEF Call, Waiting, Ended
<1>4. calls' = [calls EXCEPT ![o] = c]
  BY <1>2 DEF Raise, Return
<1>5. c.pc \in Steps(o) \cup Ended
  BY <1>3 DEF Steps, Ended
<1> QED
  BY <1>1, <1>3, <1>4, <1>5, CallGoesOn

LEMMA GoesTo ==
  ASSUME AdapterSound, NEW o \in Op, calls[o].pc \in Waiting,
         NEW method \in Steps(o) \ {"commit_archive", "commit_recall"}, Proceed(o, method),
         UNCHANGED <<offer, states, outcome, pins, layouts, link, late, suffered>>,
         method = "inspect" /\ calls[o].inside => Action[o] = "Release"
  PROVE  AdapterSound'
<1>1. calls[o] \in Call /\ Admitted(o)
  BY WaitingCall
<1>2. PICK c : c = [calls[o] EXCEPT !.pc = method, !.reply = None]
  OBVIOUS
<1>3. method \in Waiting
  BY KindOfAction
<1>4. /\ c \in Call /\ c.expected = calls[o].expected /\ c.reply = None
      /\ c.pc = method /\ c.inside = calls[o].inside
  BY <1>1, <1>2, <1>3 DEF Call
<1>5. calls' = [calls EXCEPT ![o] = c]
  BY <1>2 DEF Proceed
<1>6. method \notin {"new", "Done", "Failed"}
  BY <1>3 DEF Waiting
<1> QED
  BY <1>1, <1>4, <1>5, <1>6, CallGoesOn

LEMMA Entered ==
  ASSUME AdapterSound, NEW o \in Op, calls[o].pc \in Waiting, Enter(o),
         UNCHANGED <<offer, states, outcome, pins, layouts, link, late, suffered>>
  PROVE  AdapterSound'
<1>1. calls[o] \in Call /\ Admitted(o)
  BY WaitingCall
<1>2. PICK c : c = [calls[o] EXCEPT !.pc = "completed", !.inside = TRUE, !.reply = None]
  OBVIOUS
<1>3. /\ c \in Call /\ c.expected = calls[o].expected /\ c.reply = None
      /\ c.pc = "completed"
  BY <1>1, <1>2 DEF Call, Waiting
<1>4. calls' = [calls EXCEPT ![o] = c]
  BY <1>2 DEF Enter
<1>5. c.pc \in Steps(o)
  BY <1>3 DEF Steps
<1> QED
  BY <1>1, <1>3, <1>4, <1>5, CallGoesOn

\* A call that takes a view or layout for its own.
LEMMA Held ==
  ASSUME AdapterSound, NEW o \in Op, calls[o].pc \in Waiting, calls[o].reply # None,
         calls[o].reply.kind \in {"view", "recall"},
         NEW method \in Steps(o) \cap {"commit_archive", "commit_recall"}, Hold(o, method),
         UNCHANGED <<offer, states, outcome, pins, layouts, link, late, suffered>>
  PROVE  AdapterSound'
<1>1. calls[o] \in Call /\ Admitted(o)
  BY WaitingCall
<1>2. calls[o].reply \in Reply /\ TrueReply(o, calls[o].reply)
  BY WaitingCall
<1>3. calls[o].reply.op \in Op
  BY <1>2 DEF Reply
<1>4. PICK c : c = [calls[o] EXCEPT !.pc = method, !.handle = calls[o].reply.op,
                                    !.reply = None]
  OBVIOUS
<1>5. method \in Waiting
  BY KindOfAction
<1>6. /\ c \in Call /\ c.expected = calls[o].expected /\ c.reply = None
      /\ c.pc = method /\ c.handle = calls[o].reply.op
  BY <1>1, <1>3, <1>4, <1>5 DEF Call
<1>7. calls' = [calls EXCEPT ![o] = c]
  BY <1>4 DEF Hold
<1>8. "misroute" \in suffered \/ (Prepared(o) /\ c.handle = o)
  BY <1>2, <1>6 DEF TrueReply
<1>9. method \notin {"new", "inspect", "Done", "Failed"}
  OBVIOUS
<1> QED
  BY <1>1, <1>6, <1>7, <1>8, <1>9, CallGoesOn

LEMMA Answered ==
  ASSUME AdapterSound, NEW o \in Op, calls[o].pc \in Waiting,
         NEW state \in State, Answer(o, state), Backed(o, state),
         UNCHANGED <<offer, states, outcome, pins, layouts, link, late, suffered>>
  PROVE  AdapterSound'
<1>1. calls[o] \in Call /\ Admitted(o)
  BY WaitingCall
<1>2. PICK c : c = [pc |-> "Done", inside |-> FALSE, expected |-> calls[o].expected,
                    handle |-> None, reply |-> None, answer |-> state]
  OBVIOUS
<1>3. /\ c \in Call /\ c.expected = calls[o].expected /\ c.reply = None
      /\ c.pc = "Done" /\ c.answer = state
  BY <1>1, <1>2 DEF Call, Ended
<1>4. calls' = [calls EXCEPT ![o] = c]
  BY <1>2 DEF Answer, Return
<1> QED
  BY <1>1, <1>3, <1>4, CallGoesOn DEF Ended

LEMMA SupersededSound ==
  ASSUME AdapterSound, NEW o \in Op, calls[o].pc \in Waiting,
         Return(o, "Superseded", None),
         UNCHANGED <<offer, states, outcome, pins, layouts, link, late, suffered>>
  PROVE  AdapterSound'
<1>1. calls[o] \in Call /\ Admitted(o)
  BY WaitingCall
<1>2. PICK c : c = [pc |-> "Superseded", inside |-> FALSE, expected |-> calls[o].expected,
                    handle |-> None, reply |-> None, answer |-> None]
  OBVIOUS
<1>3. /\ c \in Call /\ c.expected = calls[o].expected /\ c.reply = None
      /\ c.pc = "Superseded"
  BY <1>1, <1>2 DEF Call, Ended
<1>4. calls' = [calls EXCEPT ![o] = c]
  BY <1>2 DEF Return
<1> QED
  BY <1>1, <1>3, <1>4, CallGoesOn DEF Ended

\* With a sound network, an error is retried or says that all is over.
LEMMA JudgedError ==
  ASSUME AdapterSound, NEW o \in Op, calls[o].pc \in Waiting, calls[o].reply # None,
         Raise(o, ErrorOf(calls[o].reply)), ErrorOf(calls[o].reply) # "None",
         UNCHANGED <<offer, states, outcome, pins, layouts, link, late, suffered>>
  PROVE  AdapterSound'
<1>1. PICK error : error = ErrorOf(calls[o].reply)
  OBVIOUS
<1>2. OnlyNetwork /\ ~Retried(error) => Doomed(o)
  <2> SUFFICES ASSUME OnlyNetwork, ~Retried(error) PROVE Doomed(o)
    OBVIOUS
  <2> PICK r : r = calls[o].reply
    OBVIOUS
  <2>1. FairReply(o, r)
    BY WaitingCall
  <2>2. r.kind \in {"lost", "version", "garbled", "error"}
    BY <1>1 DEF ErrorOf
  <2>3. r.kind = "error" /\ r.code \notin {"busy", "new"}
    BY <1>1, <2>1, <2>2 DEF FairReply, ErrorOf, Retried, RemoteError
  <2> QED
    BY <2>1, <2>3 DEF FairReply
<1> QED
  BY <1>1, <1>2, Raised

\* With a sound network, replies are those the methods wait for.
LEMMA JudgedWrong ==
  ASSUME AdapterSound, NEW o \in Op, calls[o].pc \in Waiting, calls[o].reply # None,
         Raise(o, "Integrity"), ErrorOf(calls[o].reply) = "None",
         ~Fits(o, calls[o].reply),
         UNCHANGED <<offer, states, outcome, pins, layouts, link, late, suffered>>
  PROVE  AdapterSound'
<1>1. ~OnlyNetwork
  <2> SUFFICES ASSUME OnlyNetwork PROVE FALSE
    OBVIOUS
  <2> PICK r : r = calls[o].reply
    OBVIOUS
  <2>1. FairReply(o, r)
    BY WaitingCall
  <2>2. r.kind # "lost" /\ r.kind # "error"
    BY DEF ErrorOf, RemoteError
  <2> QED
    BY <2>1, <2>2 DEF FairReply
<1> QED
  BY <1>1, Raised

LEMMA AnchorOf ==
  ASSUME NEW o \in Op, NEW state \in State, state.entity = Target[o], ValidState(state)
  PROVE  HasKey(o, state) <=> ReceiptOf(o) \in state.anchors
<1>1. ReceiptOf(o).key = KeyOf[o]
  BY DEF ReceiptOf
<1>2. ASSUME NEW anchor \in state.anchors, anchor.key = KeyOf[o]
      PROVE  anchor = ReceiptOf(o)
  <2>1. anchor \in Receipt /\ anchor.entity = Target[o]
    BY DEF State, ValidState
  <2> QED
    BY <1>2, <2>1 DEF Receipt, ReceiptOf
<1> QED
  BY <1>1, <1>2 DEF HasKey

-----------------------------------------------------------------------------
(* The methods: what each accepts is its effect, or a step towards it.     *)

\* What the checks make sure of: a state that fits the operation is vouched for.
LEMMA WitnessVouches ==
  ASSUME TypeOK, ServerInv, NEW o \in Op, NEW state \in State, state.entity = Target[o],
         MatchesAction(o, state), Witnessed(state)
  PROVE  Vouched(o, state)
<1>1. ASSUME NEW p \in Op, outcome[p] # None
      PROVE  /\ outcome[p].revision \in Nat /\ state.revision \in Nat
             /\ outcome[p].residency = IF Action[p] = "Release" THEN "Offline" ELSE "Dual"
  BY <1>1 DEF TypeOK, ServerTypeOK, State, ServerInv, OutcomeSound, MatchesAction
<1>2. CASE Action[o] = "Release"
  <2>1. state.residency = "Offline"
    BY <1>2 DEF MatchesAction
  <2>2. PICK p \in Op : /\ Action[p] = "Release" /\ Target[p] = state.entity
                        /\ outcome[p] # None /\ outcome[p].revision <= state.revision
    BY <2>1 DEF Witnessed
  <2> QED
    BY <1>1, <1>2, <2>1, <2>2 DEF Vouched
<1>3. CASE Action[o] # "Release"
  <2>1. state.residency = "Dual" /\ HasKey(o, state)
    BY <1>3 DEF MatchesAction
  <2>2. PICK p \in Op : /\ Action[p] = "Archive" /\ Target[p] = state.entity
                        /\ KeyOf[p] = KeyOf[o]
                        /\ outcome[p] # None /\ outcome[p].revision <= state.revision
    BY <2>1 DEF Witnessed, HasKey
  <2> QED
    BY <1>1, <1>3, <2>1, <2>2 DEF Vouched
<1> QED
  BY <1>2, <1>3

\* What a state stands for that the method of an effect accepts.
LEMMA AcceptedBacked ==
  ASSUME AdapterSound, NEW o \in Op, calls[o].pc \in Effect, calls[o].reply # None,
         Shows(o, "entity"), MatchesAction(o, calls[o].reply.state)
  PROVE  calls[o].reply.state \in State /\ Backed(o, calls[o].reply.state)
<1>1. calls[o].pc \in Waiting
  BY DEF Effect, Waiting
<1> PICK r : r = calls[o].reply
  OBVIOUS
<1>2. r \in Reply /\ TrueReply(o, r)
  BY <1>1, WaitingCall
<1>3. r.kind = "entity" /\ r.state # None /\ r.state.entity = Target[o]
  BY DEF Shows
<1>4. PICK s \in State : s = r.state
  BY <1>2, <1>3 DEF Reply
<1>5. CASE "misroute" \notin suffered
  BY <1>2, <1>3, <1>4, <1>5 DEF TrueReply, Backed
<1>6. CASE "misroute" \in suffered
  <2>1. Witnessed(s)
    BY <1>2, <1>3, <1>4 DEF TrueReply
  <2>2. Vouched(o, s)
    BY <1>3, <1>4, <2>1, WitnessVouches DEF AdapterSound
  <2> QED
    BY <1>4, <1>6, <2>2 DEF Backed
<1> QED
  BY <1>5, <1>6

LEMMA CompletedSound ==
  ASSUME AdapterSound, NEW o \in Op, Completed(o)
  PROVE  AdapterSound'
<1> PICK r : r = calls[o].reply
  OBVIOUS
<1> DEFINE absent == r.kind = "completed" /\ r.state = None
<1>1. /\ calls[o].pc = "completed" /\ calls[o].pc \in Waiting /\ r # None
      /\ UNCHANGED <<offer, states, outcome, pins, layouts, link, late, suffered>>
  BY DEF Completed, Judge, Waiting
<1>2. r \in Reply /\ TrueReply(o, r)
  BY <1>1, WaitingCall
<1>3. CASE ErrorOf(r) # "None"
  BY <1>1, <1>3, JudgedError DEF Completed, Judge
<1>4. CASE ErrorOf(r) = "None" /\ ~(absent \/ StoredOutcome(o))
  <2>1. ~Fits(o, r)
    BY <1>1, <1>4 DEF Fits, StoredOutcome, Shows
  <2>2. Raise(o, "Integrity")
    BY <1>4 DEF Completed, Judge
  <2> QED
    BY <1>1, <1>4, <2>1, <2>2, JudgedWrong
<1>5. CASE ErrorOf(r) = "None" /\ absent
  <2>1. PICK method : /\ method = IF calls[o].inside THEN FirstMethod(o) ELSE "inspect"
                      /\ Proceed(o, method)
    BY <1>5 DEF Completed, Judge
  <2>2. method \in Steps(o) \ {"commit_archive", "commit_recall"}
    BY <2>1, OpAssumption DEF FirstMethod, Steps
  <2>3. method = "inspect" /\ calls[o].inside => Action[o] = "Release"
    BY <2>1, OpAssumption DEF FirstMethod
  <2> QED
    BY <1>1, <2>1, <2>2, <2>3, GoesTo
<1>6. CASE ErrorOf(r) = "None" /\ ~absent /\ StoredOutcome(o)
  <2>1. Answer(o, r.state)
    BY <1>6 DEF Completed, Judge
  <2>2. r.kind = "completed" /\ r.state # None /\ r.state.entity = Target[o]
    BY <1>6 DEF StoredOutcome, Shows
  <2>3. PICK s \in State : s = r.state
    BY <1>2, <2>2 DEF Reply
  <2>4. Witnessed(s)
    BY <1>2, <2>2, <2>3 DEF TrueReply
  <2>5. Vouched(o, s)
    BY <1>6, <2>2, <2>3, <2>4, WitnessVouches DEF AdapterSound, StoredOutcome
  <2>6. Backed(o, s)
    BY <1>2, <2>2, <2>3, <2>5 DEF TrueReply, Backed
  <2> QED
    BY <1>1, <2>1, <2>3, <2>6, Answered
<1> QED
  BY <1>3, <1>4, <1>5, <1>6

LEMMA InspectSound ==
  ASSUME AdapterSound, NEW o \in Op, Inspect(o)
  PROVE  AdapterSound'
<1> PICK r : r = calls[o].reply
  OBVIOUS
<1>1. /\ calls[o].pc = "inspect" /\ calls[o].pc \in Waiting /\ r # None
      /\ UNCHANGED <<offer, states, outcome, pins, layouts, link, late, suffered>>
  BY DEF Inspect, Judge, Waiting
<1>2. CASE ErrorOf(r) # "None"
  BY <1>1, <1>2, JudgedError DEF Inspect, Inspected, Judge
<1>3. CASE ErrorOf(r) = "None" /\ ~Shows(o, "entity")
  <2>1. ~Fits(o, r)
    BY <1>1, <1>3 DEF Fits, Shows
  <2>2. Raise(o, "Integrity")
    BY <1>3 DEF Inspect, Inspected, Judge
  <2> QED
    BY <1>1, <1>3, <2>1, <2>2, JudgedWrong
<1>4. CASE ErrorOf(r) = "None" /\ Shows(o, "entity")
  <2>1. Enter(o) \/ Return(o, "Superseded", None)
    BY <1>4 DEF Inspect, Inspected, Judge
  <2> QED
    BY <1>1, <2>1, Entered, SupersededSound
<1> QED
  BY <1>2, <1>3, <1>4

\* A Release whose observation is stale at last has not happened and cannot any
\* more, unless a request of its own was late.
LEMMA InspectAgainSound ==
  ASSUME AdapterSound, LookupInv, NEW o \in Op, InspectAgain(o)
  PROVE  AdapterSound'
<1> PICK r : r = calls[o].reply
  OBVIOUS
<1>1. /\ calls[o].pc = "inspect" /\ calls[o].pc \in Waiting /\ r # None
      /\ UNCHANGED <<offer, states, outcome, pins, layouts, link, late, suffered>>
  BY DEF InspectAgain, Judge, Waiting
<1>2. Action[o] = "Release"
  BY <1>1 DEF InspectAgain, AdapterSound, CallsInv, CallSound
<1>3. CASE ErrorOf(r) # "None"
  BY <1>1, <1>3, JudgedError DEF InspectAgain, Inspected, Judge
<1>4. CASE ErrorOf(r) = "None" /\ ~Shows(o, "entity")
  <2>1. ~Fits(o, r)
    BY <1>1, <1>4 DEF Fits, Shows
  <2>2. Raise(o, "Integrity")
    BY <1>4 DEF InspectAgain, Inspected, Judge
  <2> QED
    BY <1>1, <1>4, <2>1, <2>2, JudgedWrong
<1>5. CASE ErrorOf(r) = "None" /\ Shows(o, "entity") /\ r.state = calls[o].expected
  <2>1. Proceed(o, "release")
    BY <1>5 DEF InspectAgain, Inspected, Judge
  <2>2. "release" \in Steps(o)
    BY <1>2 DEF Steps
  <2> QED
    BY <1>1, <2>1, <2>2, GoesTo
<1>6. CASE ErrorOf(r) = "None" /\ Shows(o, "entity") /\ r.state # calls[o].expected
  <2>1. Raise(o, "Conflict")
    BY <1>6 DEF InspectAgain, Inspected, Judge
  <2>2. OnlyNetwork => Doomed(o) \/ MayOvertake(o)
    <3> SUFFICES ASSUME OnlyNetwork, "late" \notin suffered PROVE Doomed(o)
      BY <1>2 DEF MayOvertake
    <3>1. FairReply(o, r)
      BY <1>1, WaitingCall
    <3>2. Overtaken(o)
      BY <1>1, <1>6, <3>1 DEF FairReply, Shows
    <3>3. outcome[o] = None
      BY <1>1, <1>2 DEF LookupInv, LookedUp, OnlyNetwork
    <3>4. ~Prepared(o)
      BY <1>2, <3>3 DEF Prepared, AdapterSound, ServerInv, PinSound, LayoutSound
    <3> QED
      BY <1>2, <3>2, <3>4 DEF Doomed
  <2>3. PICK error : error = "Conflict"
    OBVIOUS
  <2> QED
    BY <1>1, <2>1, <2>2, <2>3, Raised
<1> QED
  BY <1>3, <1>4, <1>5, <1>6

LEMMA PrepareArchiveSound ==
  ASSUME AdapterSound, NEW o \in Op, PrepareArchive(o)
  PROVE  AdapterSound'
<1> PICK r : r = calls[o].reply
  OBVIOUS
<1> DEFINE accepted == r.kind = "view" /\ Target[r.op] = Target[o]
<1>1. /\ calls[o].pc = "prepare_archive" /\ calls[o].pc \in Waiting /\ r # None
      /\ UNCHANGED <<offer, states, outcome, pins, layouts, link, late, suffered>>
  BY DEF PrepareArchive, Judge, Waiting
<1>2. CASE ErrorOf(r) # "None"
  BY <1>1, <1>2, JudgedError DEF PrepareArchive, Judge
<1>3. CASE ErrorOf(r) = "None" /\ ~accepted
  <2>1. ~Fits(o, r)
    BY <1>1, <1>3 DEF Fits
  <2>2. Raise(o, "Integrity")
    BY <1>3 DEF PrepareArchive, Judge
  <2> QED
    BY <1>1, <1>3, <2>1, <2>2, JudgedWrong
<1>4. CASE ErrorOf(r) = "None" /\ accepted
  <2>1. Hold(o, "commit_archive") /\ r.kind \in {"view", "recall"}
    BY <1>4 DEF PrepareArchive, Judge
  <2>2. "commit_archive" \in Steps(o)
    BY <1>1, WaitingCall, KindOfAction DEF Steps
  <2> QED
    BY <1>1, <2>1, <2>2, Held
<1> QED
  BY <1>2, <1>3, <1>4

LEMMA PrepareRecallSound ==
  ASSUME AdapterSound, NEW o \in Op, PrepareRecall(o)
  PROVE  AdapterSound'
<1> PICK r : r = calls[o].reply
  OBVIOUS
<1> DEFINE accepted == /\ r.kind = "recall"
                       /\ Target[r.op] = Target[o] /\ KeyOf[r.op] = KeyOf[o]
<1>1. /\ calls[o].pc = "prepare_recall" /\ calls[o].pc \in Waiting /\ r # None
      /\ UNCHANGED <<offer, states, outcome, pins, layouts, link, late, suffered>>
  BY DEF PrepareRecall, Judge, Waiting
<1>2. CASE ErrorOf(r) # "None"
  BY <1>1, <1>2, JudgedError DEF PrepareRecall, Judge
<1>3. CASE ErrorOf(r) = "None" /\ ~accepted
  <2>1. ~Fits(o, r)
    BY <1>1, <1>3 DEF Fits
  <2>2. Raise(o, "Integrity")
    BY <1>3 DEF PrepareRecall, Judge
  <2> QED
    BY <1>1, <1>3, <2>1, <2>2, JudgedWrong
<1>4. CASE ErrorOf(r) = "None" /\ accepted
  <2>1. Hold(o, "commit_recall") /\ r.kind \in {"view", "recall"}
    BY <1>4 DEF PrepareRecall, Judge
  <2>2. "commit_recall" \in Steps(o)
    BY <1>1, WaitingCall, KindOfAction DEF Steps
  <2> QED
    BY <1>1, <2>1, <2>2, Held
<1> QED
  BY <1>2, <1>3, <1>4

\* The three effects have the same shape: the reply is a state that shows the
\* effect, or it is an error.
LEMMA EffectSound ==
  ASSUME AdapterSound, NEW o \in Op, calls[o].pc \in Effect, calls[o].reply # None,
         UNCHANGED <<offer, states, outcome, pins, layouts, link, late, suffered>>,
         NEW accepted \in BOOLEAN,
         accepted => Shows(o, "entity") /\ MatchesAction(o, calls[o].reply.state),
         Fits(o, calls[o].reply) => accepted,
         IF ErrorOf(calls[o].reply) # "None" THEN Raise(o, ErrorOf(calls[o].reply))
         ELSE IF accepted THEN Answer(o, calls[o].reply.state) ELSE Raise(o, "Integrity")
  PROVE  AdapterSound'
<1>1. calls[o].pc \in Waiting
  BY DEF Effect, Waiting
<1>2. CASE ErrorOf(calls[o].reply) # "None"
  BY <1>1, <1>2, JudgedError
<1>3. CASE ErrorOf(calls[o].reply) = "None" /\ ~accepted
  BY <1>1, <1>3, JudgedWrong
<1>4. CASE ErrorOf(calls[o].reply) = "None" /\ accepted
  <2>1. PICK s \in State : s = calls[o].reply.state
    BY <1>4, AcceptedBacked
  <2>2. Backed(o, s) /\ Answer(o, s)
    BY <1>4, <2>1, AcceptedBacked
  <2> QED
    BY <1>1, <2>2, Answered
<1> QED
  BY <1>2, <1>3, <1>4

LEMMA CommitArchiveSound ==
  ASSUME AdapterSound, NEW o \in Op, CommitArchive(o)
  PROVE  AdapterSound'
<1>1. /\ calls[o].pc = "commit_archive" /\ calls[o].reply # None
      /\ UNCHANGED <<offer, states, outcome, pins, layouts, link, late, suffered>>
  BY DEF CommitArchive, Judge
<1>2. calls[o].reply \in Reply /\ Action[o] = "Archive"
  BY <1>1, WaitingCall, KindOfAction DEF Waiting
<1>3. AnchorAttached(o) <=>
        Shows(o, "entity") /\ MatchesAction(o, calls[o].reply.state)
  <2>1. Shows(o, "entity") => calls[o].reply.state \in State
    BY <1>2 DEF Shows, Reply
  <2> PICK s : s = calls[o].reply.state
    OBVIOUS
  <2>2. Shows(o, "entity") => (HasKey(o, s) <=> ReceiptOf(o) \in s.anchors)
    BY <2>1, AnchorOf DEF Shows
  <2> QED
    BY <1>2, <2>2 DEF AnchorAttached, MatchesAction
<1>4. Fits(o, calls[o].reply) => Shows(o, "entity") /\ MatchesAction(o, calls[o].reply.state)
  BY <1>1 DEF Fits, Shows, Effect
<1>5. PICK accepted \in BOOLEAN : accepted = AnchorAttached(o)
  BY DEF AnchorAttached, Shows
<1> QED
  BY <1>1, <1>3, <1>4, <1>5, EffectSound DEF CommitArchive, Judge, Effect

LEMMA ReleaseSound ==
  ASSUME AdapterSound, NEW o \in Op, Release(o)
  PROVE  AdapterSound'
<1>1. /\ calls[o].pc = "release" /\ calls[o].reply # None
      /\ UNCHANGED <<offer, states, outcome, pins, layouts, link, late, suffered>>
  BY DEF Release, Judge
<1>2. Action[o] = "Release"
  BY <1>1, WaitingCall, KindOfAction DEF Waiting
<1>3. ReleasedAsExpected(o) =>
        Shows(o, "entity") /\ MatchesAction(o, calls[o].reply.state)
  BY <1>2 DEF ReleasedAsExpected, MatchesAction
<1>4. Fits(o, calls[o].reply) => ReleasedAsExpected(o)
  BY <1>1, <1>2 DEF Fits, Shows, Effect, ReleasedAsExpected, MatchesAction
<1>5. PICK accepted \in BOOLEAN : accepted = ReleasedAsExpected(o)
  BY DEF ReleasedAsExpected, Shows
<1> QED
  BY <1>1, <1>3, <1>4, <1>5, EffectSound DEF Release, Judge, Effect

LEMMA CommitRecallSound ==
  ASSUME AdapterSound, NEW o \in Op, CommitRecall(o)
  PROVE  AdapterSound'
<1> DEFINE attached == /\ Shows(o, "entity")
                       /\ calls[o].reply.state.residency = "Dual"
                       /\ HasKey(o, calls[o].reply.state)
<1>1. /\ calls[o].pc = "commit_recall" /\ calls[o].reply # None
      /\ UNCHANGED <<offer, states, outcome, pins, layouts, link, late, suffered>>
  BY DEF CommitRecall, Judge
<1>2. Action[o] = "Recall"
  BY <1>1, WaitingCall, KindOfAction DEF Waiting
<1>3. attached <=> Shows(o, "entity") /\ MatchesAction(o, calls[o].reply.state)
  BY <1>2 DEF MatchesAction
<1>4. Fits(o, calls[o].reply) => attached
  BY <1>1, <1>2 DEF Fits, Shows, Effect, MatchesAction
<1>5. PICK accepted \in BOOLEAN : accepted = attached
  OBVIOUS
<1> QED
  BY <1>1, <1>3, <1>4, <1>5, EffectSound DEF CommitRecall, Judge, Effect

LEMMA UnsupportedSound ==
  ASSUME AdapterSound, NEW o \in Op, Unsupported(o)
  PROVE  AdapterSound'
<1>1. /\ link # None /\ calls[o].pc \in Waiting
      /\ ~(Required(calls[o].pc) \subseteq link)
      /\ Raise(o, "Unsupported")
      /\ UNCHANGED <<offer, states, outcome, pins, layouts, link, late, suffered>>
  BY DEF Unsupported
<1>2. OnlyNetwork => Doomed(o) \/ MayOvertake(o)
  <2> HAVE OnlyNetwork
  <2>1. link = offer /\ Validate(offer)
    BY <1>1 DEF AdapterSound, NetworkInv, NetworkKept, CallsInv
  <2>2. calls[o].pc \in Steps(o)
    BY <1>1, WaitingCall
  <2>3. Uses(o) \in offer => Required(calls[o].pc) \subseteq offer
    <3> HAVE Uses(o) \in offer
    <3>1. "records" \in offer
      BY <2>1 DEF Validate
    <3> QED
      BY <2>2, <3>1, KindOfAction, OpAssumption DEF Required, Uses, Waiting
  <2>4. Uses(o) \notin offer
    BY <1>1, <2>1, <2>3
  <2> QED
    BY <2>4 DEF Doomed, AdapterSound, NetworkInv, NetworkKept
<1> QED
  BY <1>1, <1>2, Raised

-----------------------------------------------------------------------------
(* Around the adapter.                                                     *)

\* What a step of the server keeps.
ServerKeeps ==
  /\ ServerTypeOK' /\ ServerInv' /\ Onward /\ offer' = offer
  /\ \A o \in Op : Admitted(o) /\ Overtaken(o) => Overtaken(o)'
  /\ OnlyNetwork =>
       /\ \A o \in Op : Prepared(o)' => Uses(o) \in offer'
       /\ \A o \in Op : Admitted(o) /\ Doomed(o) => Doomed(o)'

LEMMA ApplyKeeps ==
  ASSUME AdapterSound, NEW q \in Request, RequestSound(q), Apply(q), AdmissionsStay
  PROVE  ServerKeeps
<1>1. ServerTypeOK' /\ Onward
  BY ApplyTyped, ApplyOnward DEF AdapterSound, TypeOK
<1>2. ServerInv' /\ offer' = offer
  BY ApplyServer DEF AdapterSound, Apply
<1>3. \A o \in Op : Admitted(o) /\ Overtaken(o) => Overtaken(o)'
  BY <1>1, OvertakenStays DEF AdapterSound
<1> QED
  BY <1>1, <1>2, <1>3, ApplyDoomed DEF ServerKeeps, AdapterSound

LEMMA StillKeeps ==
  ASSUME AdapterSound, AdmissionsStay, UNCHANGED <<offer, states, outcome, pins, layouts>>
  PROVE  ServerKeeps
<1>1. ServerTypeOK' /\ Onward
  BY StillOnward DEF AdapterSound, TypeOK, ServerTypeOK
<1>2. ServerInv'
  BY StillServer DEF AdapterSound
<1>3. \A o \in Op : /\ Prepared(o)' <=> Prepared(o)
                    /\ Admitted(o) /\ Overtaken(o) => Overtaken(o)'
                    /\ Admitted(o) /\ Doomed(o) => Doomed(o)'
  BY DEF Prepared, Doomed, Overtaken, AdmissionsStay
<1> QED
  BY <1>1, <1>2, <1>3 DEF ServerKeeps, AdapterSound, NetworkInv, NetworkKept

\* The invariant, when the server has made a step and some calls have changed.
LEMMA CallsKeep ==
  ASSUME AdapterSound, ServerKeeps, AdmissionsStay, TypeOK',
         \A p \in Op : \/ calls'[p] = calls[p]
                       \/ /\ Admitted(p) /\ CallSound(p)'
                          /\ OnlyNetwork' =>
                               /\ calls'[p].pc # "Failed"
                               /\ calls'[p].reply # None => FairReply(p, calls[p].reply)',
         \A q \in late' : q \in late \/ RequestSound(q)',
         link' # None => Validate(link'), suffered \subseteq suffered',
         OnlyNetwork' => link' \in {None, offer}
  PROVE  AdapterSound'
<1>1. \A p \in Op : ExpectedSound(p)'
  <2> TAKE p \in Op
  <2>1. CASE Admitted(p)
    BY <2>1, ExpectedStays DEF AdapterSound, CallsInv, ServerKeeps
  <2>2. CASE ~Admitted(p)
    BY <2>2 DEF ExpectedSound, Admitted
  <2> QED
    BY <2>1, <2>2
<1>2. \A p \in Op : CallSound(p)'
  BY CallStays DEF AdapterSound, CallsInv, ServerKeeps
<1>3. \A q \in late' : RequestSound(q)'
  BY RequestStays DEF AdapterSound, CallsInv, TypeOK
<1>4. NetworkInv'
  <2> SUFFICES ASSUME OnlyNetwork' PROVE NetworkKept'
    BY DEF NetworkInv
  <2>1. OnlyNetwork /\ NetworkKept
    BY DEF AdapterSound, NetworkInv, OnlyNetwork
  <2>2. \A p \in Op : /\ Admitted(p) /\ Doomed(p) => Doomed(p)'
                      /\ Admitted(p) /\ Overtaken(p) => Overtaken(p)'
    BY <2>1 DEF ServerKeeps
  <2>3. \A p \in Op : calls'[p].pc = "Failed" => Doomed(p)' \/ MayOvertake(p)'
    BY <2>1, <2>2 DEF NetworkKept, Admitted, MayOvertake
  <2>4. \A p \in Op : calls'[p].reply # None => FairReply(p, calls[p].reply)'
    <3> TAKE p \in Op
    <3> HAVE calls'[p].reply # None
    <3> SUFFICES ASSUME calls'[p] = calls[p] PROVE FairReply(p, calls[p].reply)'
      OBVIOUS
    <3>1. Admitted(p)
      BY DEF AdapterSound, CallsInv, CallSound, Admitted, Waiting
    <3>2. FairReply(p, calls[p].reply)
      BY <2>1 DEF NetworkKept
    <3> PICK r : r = calls[p].reply
      OBVIOUS
    <3> QED
      BY <2>2, <3>1, <3>2, FairReplyStays
  <2>5. link' \in {None, offer'} /\ \A p \in Op : Prepared(p)' => Uses(p) \in offer'
    BY <2>1 DEF ServerKeeps
  <2> QED
    BY <2>3, <2>4, <2>5 DEF NetworkKept
<1> QED
  BY <1>1, <1>2, <1>3, <1>4 DEF AdapterSound, CallsInv, ServerKeeps

LEMMA ConnectSound ==
  ASSUME AdapterSound, Connect
  PROVE  AdapterSound'
<1>1. AdmissionsStay /\ TypeOK'
  BY OfferAssumption DEF Connect, AdmissionsStay, Admitted, AdapterSound, TypeOK, ServerTypeOK
<1>2. ServerKeeps
  BY <1>1, StillKeeps DEF Connect
<1> QED
  BY <1>1, <1>2, CallsKeep DEF Connect, OnlyNetwork

LEMMA ArriveSound ==
  ASSUME AdapterSound, NEW q \in late, Arrive(q)
  PROVE  AdapterSound'
<1>1. q \in Request /\ RequestSound(q)
  BY DEF AdapterSound, TypeOK, CallsInv
<1>2. AdmissionsStay
  BY DEF Arrive, AdmissionsStay, Admitted
<1>3. ServerKeeps
  BY <1>1, <1>2, ApplyKeeps DEF Arrive
<1>4. TypeOK'
  BY <1>3 DEF ServerKeeps, Arrive, AdapterSound, TypeOK
<1> QED
  BY <1>2, <1>3, <1>4, CallsKeep DEF Arrive, OnlyNetwork, AdapterSound, CallsInv,
     NetworkInv, NetworkKept

LEMMA CrashSound ==
  ASSUME AdapterSound, Crash
  PROVE  AdapterSound'
<1>1. \A p \in Op : \/ calls'[p] = calls[p]
                    \/ /\ calls[p].pc \in Waiting
                       /\ calls'[p] = [calls[p] EXCEPT !.pc = "completed", !.inside = FALSE,
                                                       !.handle = None, !.reply = None]
  BY DEF Crash
<1>2. \A p \in Op : calls[p].pc \in Waiting =>
        LET c == [calls[p] EXCEPT !.pc = "completed", !.inside = FALSE,
                                  !.handle = None, !.reply = None]
        IN c \in Call /\ c.expected = calls[p].expected /\ c.pc = "completed" /\ c.reply = None
  BY DEF AdapterSound, TypeOK, Call, Waiting
<1>3. AdmissionsStay
  BY <1>1, <1>2 DEF AdmissionsStay, Admitted
<1>4. ServerKeeps
  BY <1>3, StillKeeps DEF Crash
<1>5. TypeOK'
  <2>1. calls' \in [Op -> Call]
    <3>1. \A p \in Op : calls'[p] \in Call
      BY <1>1, <1>2 DEF AdapterSound, TypeOK
    <3> QED
      BY <3>1 DEF Crash
  <2> QED
    BY <2>1 DEF Crash, Fault, AdapterSound, TypeOK, ServerTypeOK
<1>6. \A p \in Op : calls'[p] # calls[p] =>
        /\ Admitted(p) /\ CallSound(p)'
        /\ calls'[p].pc # "Failed" /\ calls'[p].reply = None
  BY <1>1, <1>2 DEF Admitted, Waiting, CallSound, Steps
<1>7. suffered \subseteq suffered'
  BY DEF Crash, Fault
<1> QED
  BY <1>3, <1>4, <1>5, <1>6, <1>7, CallsKeep DEF Crash

LEMMA AdmitSound ==
  ASSUME AdapterSound, NEW o \in Op, Admit(o)
  PROVE  AdapterSound'
<1> DEFINE e == Target[o]
<1>1. /\ e \in Entity /\ states[e] \in State /\ states[e].revision \in Nat
      /\ calls[o] \in Call
  BY OpAssumption DEF AdapterSound, TypeOK, ServerTypeOK, State
<1>2. ~Admitted(o) /\ calls[o].reply = None
  BY DEF Admit, Admitted, AdapterSound, CallsInv, CallSound, Waiting
<1>3. PICK c : c = [calls[o] EXCEPT !.pc = "completed", !.expected = states[e]]
  OBVIOUS
<1>4. /\ c \in Call /\ c.pc = "completed" /\ c.expected = states[e] /\ c.reply = None
  BY <1>1, <1>2, <1>3 DEF Call, Waiting
<1>5. calls' = [calls EXCEPT ![o] = c]
  BY <1>3 DEF Admit
<1>6. calls'[o] = c /\ \A p \in Op : p # o => calls'[p] = calls[p]
  BY <1>5 DEF AdapterSound, TypeOK
<1>7. AdmissionsStay
  BY <1>2, <1>6 DEF AdmissionsStay, Admitted
<1>8. ServerKeeps
  BY <1>7, StillKeeps DEF Admit
<1>9. TypeOK'
  <2>1. UNCHANGED <<link, late, suffered>>
    BY DEF Admit
  <2>2. calls' \in [Op -> Call]
    BY <1>4, <1>5 DEF AdapterSound, TypeOK
  <2> QED
    BY <1>8, <2>1, <2>2 DEF ServerKeeps, AdapterSound, TypeOK
<1>10. CallsInv'
  <2>1. ExpectedSound(o)'
    BY <1>1, <1>4, <1>6 DEF Admit, Admissible, ExpectedSound
  <2>2. CallSound(o)'
    BY <1>4, <1>6 DEF CallSound, Steps
  <2>3. \A p \in Op : p # o => ExpectedSound(p)'
    BY <1>6 DEF Admit, AdapterSound, CallsInv, ExpectedSound, Admitted
  <2>4. \A p \in Op : p # o => CallSound(p)'
    BY <1>6, <1>8, CallStays DEF Admit, AdapterSound, CallsInv, ServerKeeps
  <2>5. \A q \in late' : RequestSound(q)'
    BY <1>7, RequestStays DEF Admit, AdapterSound, CallsInv, TypeOK
  <2> QED
    BY <2>1, <2>2, <2>3, <2>4, <2>5 DEF Admit, AdapterSound, CallsInv
<1>11. NetworkInv'
  <2> SUFFICES ASSUME OnlyNetwork' PROVE NetworkKept'
    BY DEF NetworkInv
  <2>1. OnlyNetwork /\ NetworkKept
    BY DEF Admit, OnlyNetwork, AdapterSound, NetworkInv
  <2>2. \A p \in Op : p # o => /\ Doomed(p) => Doomed(p)'
                               /\ Overtaken(p) => Overtaken(p)'
    BY <1>6 DEF Admit, Doomed, Overtaken, Prepared
  <2>3. \A p \in Op : calls'[p].reply # None => FairReply(p, calls[p].reply)'
    <3> TAKE p \in Op
    <3> HAVE calls'[p].reply # None
    <3>1. p # o
      BY <1>4, <1>6
    <3>2. FairReply(p, calls[p].reply) /\ calls'[p] = calls[p]
      BY <1>6, <2>1, <3>1 DEF NetworkKept
    <3> PICK r : r = calls[p].reply
      OBVIOUS
    <3> QED
      BY <2>2, <3>1, <3>2, FairReplyStays
  <2>4. \A p \in Op : calls'[p].pc = "Failed" => Doomed(p)' \/ MayOvertake(p)'
    BY <1>4, <1>6, <2>1, <2>2 DEF Admit, NetworkKept, MayOvertake
  <2>5. link' \in {None, offer'} /\ \A p \in Op : Prepared(p)' => Uses(p) \in offer'
    BY <2>1 DEF Admit, NetworkKept, Prepared
  <2> QED
    BY <2>3, <2>4, <2>5 DEF NetworkKept
<1> QED
  BY <1>8, <1>9, <1>10, <1>11 DEF AdapterSound, ServerKeeps

\* Another server may offer anything; nothing is then said of definite errors.
LEMMA ReofferSound ==
  ASSUME AdapterSound, Reoffer
  PROVE  AdapterSound'
<1>1. TypeOK' /\ AdmissionsStay
  BY DEF Reoffer, Fault, AdapterSound, TypeOK, ServerTypeOK, AdmissionsStay, Admitted
<1>2. ServerInv' /\ Onward
  BY <1>1, StillServer, StillOnward DEF Reoffer, AdapterSound, TypeOK
<1>3. CallsInv'
  <2>1. \A p \in Op : ExpectedSound(p)'
    BY DEF Reoffer, AdapterSound, CallsInv, ExpectedSound, Admitted
  <2>2. \A p \in Op : CallSound(p)'
    BY <1>2, CallStays DEF Reoffer, Fault, AdapterSound, CallsInv
  <2>3. \A q \in late' : RequestSound(q)'
    BY <1>1, RequestStays DEF Reoffer, AdapterSound, CallsInv, TypeOK
  <2> QED
    BY <2>1, <2>2, <2>3 DEF Reoffer, AdapterSound, CallsInv
<1>4. NetworkInv'
  BY DEF NetworkInv, OnlyNetwork, Reoffer, Fault
<1> QED
  BY <1>1, <1>2, <1>3, <1>4 DEF AdapterSound

-----------------------------------------------------------------------------
(* An exchange.                                                            *)

LEMMA Delivered ==
  ASSUME AdapterSound, ServerKeeps, AdmissionsStay,
         NEW o \in Op, calls[o].pc \in Waiting, NEW r \in Reply, Deliver(o, r),
         link' = link, late' \subseteq late \cup {Sent(o)},
         suffered \subseteq suffered', suffered' \subseteq Faults,
         TrueReply(o, r)', OnlyNetwork' => FairReply(o, r)'
  PROVE  AdapterSound'
<1>1. calls[o] \in Call /\ Admitted(o) /\ calls[o].pc \in Steps(o)
      /\ calls[o].expected \in State
  BY WaitingCall
<1>2. /\ calls'[o] = [calls[o] EXCEPT !.reply = r]
      /\ \A p \in Op : p # o => calls'[p] = calls[p]
  BY DEF Deliver, AdapterSound, TypeOK
<1>3. /\ calls'[o] \in Call /\ calls'[o].pc = calls[o].pc /\ calls'[o].reply = r
      /\ calls'[o].expected = calls[o].expected /\ calls'[o].answer = calls[o].answer
      /\ calls'[o].inside = calls[o].inside /\ calls'[o].handle = calls[o].handle
  BY <1>1, <1>2 DEF Call
<1>4. /\ Sent(o) \in Request /\ Sent(o).op = o /\ Sent(o).kind = calls[o].pc
      /\ Sent(o).expected = calls[o].expected
  BY <1>1 DEF Sent, Request, Waiting, Call
<1>5. TypeOK'
  <2>1. calls' \in [Op -> Call]
    BY <1>2, <1>3 DEF Deliver, AdapterSound, TypeOK
  <2> QED
    BY <1>4, <2>1 DEF ServerKeeps, AdapterSound, TypeOK
<1>6. CallSound(o)'
  <2>1. Prepared(o) => Prepared(o)'
    BY DEF ServerKeeps, Onward
  <2>2. calls[o].pc \notin Ended
    BY DEF Waiting, Ended
  <2> QED
    BY <1>3, <2>1, <2>2 DEF AdapterSound, CallsInv, CallSound, Holds, Ended
<1>7. OnlyNetwork' => (calls'[o].pc # "Failed" /\ FairReply(o, calls[o].reply)')
  BY <1>3 DEF Waiting
<1>8. \A q \in late' : q \in late \/ RequestSound(q)'
  BY <1>1, <1>3, <1>4 DEF RequestSound, Admitted
<1>9. OnlyNetwork' => link' \in {None, offer}
  BY DEF OnlyNetwork, AdapterSound, NetworkInv, NetworkKept
<1>10. link' # None => Validate(link')
  BY DEF AdapterSound, CallsInv
<1> QED
  BY <1>1, <1>2, <1>5, <1>6, <1>7, <1>8, <1>9, <1>10, CallsKeep

\* Errors are no false replies, and a lost reply or an unknown code is fair.
LEMMA ErrorTrue ==
  ASSUME NEW o \in Op, NEW r, r.kind \in {"lost", "garbled", "version", "error"}
  PROVE  /\ TrueReply(o, r)'
         /\ r.kind = "lost" => FairReply(o, r)'
         /\ r.kind = "error" /\ r.code = "new" => FairReply(o, r)'
BY DEF TrueReply, FairReply

\* The replies of the server, one by one.
LEMMA ReplyCases ==
  ASSUME AdapterSound, NEW q \in Request, NEW r, r = ReplyTo(q)
  PROVE  \/ r = ErrorReply("unsupported") /\ ~(Needs(q.kind) \subseteq offer)
         \/ q.kind = "completed" /\ r = CompletedReply(outcome[q.op])
         \/ q.kind = "inspect" /\ r = EntityReply(states[Target[q.op]])
         \/ /\ q.kind = "prepare_archive" /\ r = [kind |-> "view", op |-> q.op]
            /\ Granted(q) \/ Prepared(q.op)
         \/ /\ q.kind = "prepare_recall" /\ r = [kind |-> "recall", op |-> q.op]
            /\ Granted(q) \/ Prepared(q.op)
         \/ q.kind \in Effect /\ Granted(q) /\ r = EntityReply(Result(q))
         \/ /\ q.kind \in Effect /\ ~Granted(q) /\ outcome[q.op] # None
            /\ r = EntityReply(outcome[q.op])
         \/ /\ r = ErrorReply(Refusal(q))
            /\ Needs(q.kind) \subseteq offer /\ ~Granted(q) /\ outcome[q.op] = None
            /\ q.kind \in {"prepare_archive", "prepare_recall"} => ~Prepared(q.op)
            /\ q.kind \in {"prepare_archive", "prepare_recall"} \cup Effect
<1>1. q.kind \in {"completed", "inspect", "prepare_archive", "prepare_recall"} \cup Effect
  BY DEF Request, Effect
<1>2. Granted(q) => outcome[q.op] = None
  BY DEF Granted
<1>3. CASE ~(Needs(q.kind) \subseteq offer)
  BY <1>3 DEF ReplyTo
<1>4. CASE Needs(q.kind) \subseteq offer /\ q.kind \in {"completed", "inspect"}
  BY <1>4 DEF ReplyTo
<1>5. CASE Needs(q.kind) \subseteq offer /\ q.kind \in {"prepare_archive", "prepare_recall"}
  BY <1>5 DEF ReplyTo, Prepared
<1>6. CASE Needs(q.kind) \subseteq offer /\ q.kind \in Effect
  <2>1. q.kind \in {"commit_archive", "release", "commit_recall"}
        /\ q.kind \notin {"completed", "inspect", "prepare_archive", "prepare_recall"}
    BY <1>6 DEF Effect
  <2>2. CASE Granted(q)
    BY <1>2, <1>6, <2>1, <2>2 DEF ReplyTo
  <2>3. CASE ~Granted(q) /\ outcome[q.op] # None
    BY <1>6, <2>1, <2>3 DEF ReplyTo
  <2>4. CASE ~Granted(q) /\ outcome[q.op] = None
    BY <1>6, <2>1, <2>4 DEF ReplyTo
  <2> QED
    BY <2>2, <2>3, <2>4
<1> QED
  BY <1>1, <1>3, <1>4, <1>5, <1>6

LEMMA SentRequest ==
  ASSUME AdapterSound, NEW o \in Op, calls[o].pc \in Waiting
  PROVE  /\ Sent(o) \in Request /\ RequestSound(Sent(o))
         /\ Sent(o).op = o /\ Sent(o).kind = calls[o].pc
         /\ Sent(o).expected = calls[o].expected
BY WaitingCall DEF Sent, Request, RequestSound, Waiting, Call

LEMMA DeliverStays ==
  ASSUME AdapterSound, NEW o \in Op, NEW r, Deliver(o, r)
  PROVE  /\ AdmissionsStay
         /\ calls'[o].pc = calls[o].pc /\ calls'[o].expected = calls[o].expected
<1>1. /\ \A p \in Op : p # o => calls'[p] = calls[p]
      /\ calls'[o] = [calls[o] EXCEPT !.reply = r]
  BY DEF Deliver, AdapterSound, TypeOK
<1>2. calls[o] \in Call
  BY DEF AdapterSound, TypeOK
<1>3. calls'[o].pc = calls[o].pc /\ calls'[o].expected = calls[o].expected
  BY <1>1, <1>2 DEF Call
<1> QED
  BY <1>1, <1>3 DEF AdmissionsStay, Admitted

\* An answer is true, of the server that has given it.
LEMMA AnswerTrue ==
  ASSUME AdapterSound, ServerKeeps, NEW o \in Op, calls[o].pc \in Waiting,
         calls'[o].pc = calls[o].pc, Apply(Sent(o)), NEW r, r = ReplyTo(Sent(o))
  PROVE  r \in Reply /\ TrueReply(o, r)'
<1>1. PICK q \in Request : q = Sent(o)
  BY SentRequest
<1>2. q.op = o /\ q.kind = calls[o].pc /\ RequestSound(q)
  BY <1>1, SentRequest
<1>3. Onward
  BY DEF ServerKeeps
<1>4. Target[o] \in Entity /\ states[Target[o]] \in State /\ outcome[o] \in State \cup {None}
  BY OpAssumption DEF AdapterSound, TypeOK, ServerTypeOK
<1>5. CASE r \in {ErrorReply("unsupported"), ErrorReply(Refusal(q))}
  <2>1. r.kind = "error" /\ r \in Reply
    BY <1>5 DEF ErrorReply, Refusal, Reply, Codes
  <2> QED
    BY <2>1, ErrorTrue
<1>6. \A w : w \in {outcome[o], states[Target[o]]} /\ w # None => Witnessed(w)'
  <2> SUFFICES ASSUME NEW w, w \in {outcome[o], states[Target[o]]}, w # None
               PROVE  Witnessed(w)'
    OBVIOUS
  <2>1. Witnessed(w)
    BY <1>4 DEF AdapterSound, ServerInv, OutcomeSound, EntitySound
  <2> QED
    BY <1>3, <2>1, WitnessedStays
<1>7. CASE \/ q.kind = "completed" /\ r = CompletedReply(outcome[o])
           \/ q.kind = "inspect" /\ r = EntityReply(states[Target[o]])
  <2>1. PICK w : w = IF q.kind = "completed" THEN outcome[o] ELSE states[Target[o]]
    OBVIOUS
  <2>2. /\ r.state = w /\ r \in Reply
        /\ r.kind = IF q.kind = "completed" THEN "completed" ELSE "entity"
    BY <1>4, <1>7, <2>1 DEF CompletedReply, EntityReply, Reply
  <2>3. w # None => Witnessed(w)'
    BY <1>6, <2>1
  <2>4. r.state # None => Witnessed(r.state)'
    BY <2>2, <2>3 DEF Witnessed
  <2>5. calls'[o].pc \notin Effect
    BY <1>2, <1>7 DEF Effect
  <2>6. r.kind = "completed" /\ r.state # None => r.state = outcome'[o]
    BY <1>3, <1>7, <2>1, <2>2 DEF Onward
  <2> QED
    BY <2>2, <2>4, <2>5, <2>6 DEF TrueReply
<1>8. CASE /\ q.kind \in {"prepare_archive", "prepare_recall"}
           /\ r.kind \in {"view", "recall"} /\ r.op = o /\ r \in Reply
           /\ Granted(q) \/ Prepared(o)
  <2>1. Prepared(o)'
    <3>1. CASE Granted(q)
      BY <1>1, <1>2, <1>8, <3>1 DEF Apply, Prepare, Commit, Prepared
    <3>2. CASE Prepared(o)
      BY <1>3, <3>2 DEF Onward
    <3> QED
      BY <1>8, <3>1, <3>2
  <2> QED
    BY <1>8, <2>1 DEF TrueReply
<1>9. CASE q.kind \in Effect /\ outcome'[o] # None /\ r = EntityReply(outcome'[o])
  <2>1. outcome'[o] \in State
    BY <1>9 DEF ServerKeeps, ServerTypeOK
  <2>2. r.kind = "entity" /\ r.state = outcome'[o] /\ r \in Reply
    BY <1>9, <2>1 DEF EntityReply, Reply
  <2>3. Witnessed(r.state)'
    BY <1>9, <2>2 DEF ServerKeeps, ServerInv, OutcomeSound, Witnessed
  <2> QED
    BY <1>9, <2>2, <2>3 DEF TrueReply
<1>10. /\ Granted(q) /\ q.kind \in Effect => outcome'[o] = Result(q) /\ Result(q) # None
       /\ outcome[o] # None => outcome'[o] = outcome[o]
  <2>1. Granted(q) /\ q.kind \in Effect => Result(q) # None
    BY ResultTyped, NoStateAssumption DEF AdapterSound, TypeOK
  <2> QED
    BY <1>1, <1>2, <1>3, <2>1
       DEF Apply, Prepare, Commit, Effect, Onward, AdapterSound, TypeOK, ServerTypeOK
<1>11. /\ r = [kind |-> "view", op |-> o] => r.kind = "view" /\ r.op = o /\ r \in Reply
       /\ r = [kind |-> "recall", op |-> o] => r.kind = "recall" /\ r.op = o /\ r \in Reply
  BY DEF Reply
<1> QED
  BY <1>1, <1>2, <1>5, <1>6, <1>7, <1>8, <1>9, <1>10, <1>11, ReplyCases

\* With a sound network, the answer is what the method waits for, or says that
\* the effect cannot be.
LEMMA AnswerFair ==
  ASSUME AdapterSound, ServerKeeps, OnlyNetwork, NEW o \in Op, calls[o].pc \in Waiting,
         link # None, Required(calls[o].pc) \subseteq link,
         calls'[o].pc = calls[o].pc, calls'[o].expected = calls[o].expected,
         Apply(Sent(o)), NEW r, r = ReplyTo(Sent(o))
  PROVE  FairReply(o, r)'
<1>1. PICK q \in Request : q = Sent(o)
  BY SentRequest
<1>2. /\ q.op = o /\ q.kind = calls[o].pc /\ q.expected = calls[o].expected
      /\ q.kind \in Steps(o) /\ Admitted(o) /\ calls[o].expected \in State
  BY <1>1, SentRequest, WaitingCall
<1>3. Needs(q.kind) \subseteq offer
  <2>1. Required(q.kind) \subseteq offer
    BY <1>2 DEF AdapterSound, NetworkInv, NetworkKept
  <2> QED
    BY <1>2, <2>1 DEF Needs, Required
<1>4. Target[o] \in Entity /\ states[Target[o]] \in State /\ outcome[o] \in State \cup {None}
  BY OpAssumption DEF AdapterSound, TypeOK, ServerTypeOK
<1>5. OutcomeSound(o) /\ EntitySound(Target[o]) /\ ExpectedSound(o)
  BY <1>4 DEF AdapterSound, ServerInv, CallsInv
<1>6. Fits(o, r) => Fits(o, r)'
  BY DEF Fits
<1>7. CASE q.kind = "completed" /\ r = CompletedReply(outcome[o])
  <2>1. r.kind = "completed" /\ r.state = outcome[o]
    BY <1>7 DEF CompletedReply
  <2>2. Fits(o, r)
    BY <1>2, <1>5, <1>7, <2>1 DEF Fits, OutcomeSound, Effect
  <2> QED
    BY <1>6, <2>1, <2>2 DEF FairReply
<1>8. CASE q.kind = "inspect" /\ r = EntityReply(states[Target[o]])
  <2>1. r.kind = "entity" /\ r.state = states[Target[o]] /\ r.state # None
    BY <1>4, <1>8, NoStateAssumption DEF EntityReply
  <2>2. Fits(o, r)
    BY <1>2, <1>5, <1>8, <2>1 DEF Fits, EntitySound, Effect
  <2>3. states[Target[o]] = calls[o].expected \/ Overtaken(o)
    BY <1>2, <1>4, <1>5 DEF ExpectedSound, Overtaken, State
  <2>4. Overtaken(o) => Overtaken(o)'
    BY <1>2 DEF ServerKeeps
  <2> QED
    BY <1>6, <2>1, <2>2, <2>3, <2>4 DEF FairReply
<1>9. CASE \/ q.kind = "prepare_archive" /\ r = [kind |-> "view", op |-> o]
           \/ q.kind = "prepare_recall" /\ r = [kind |-> "recall", op |-> o]
  <2>1. Fits(o, r) /\ r.kind \in {"view", "recall"}
    BY <1>2, <1>9 DEF Fits, Effect
  <2> QED
    BY <1>6, <2>1 DEF FairReply
<1>10. CASE q.kind \in Effect /\ outcome'[o] # None /\ r = EntityReply(outcome'[o])
  <2>1. r.kind = "entity" /\ r.state = outcome'[o] /\ r.state # None
    BY <1>10 DEF EntityReply
  <2>2. OutcomeSound(o)'
    BY DEF ServerKeeps, ServerInv
  <2>3. /\ r.state.entity = Target[o] /\ ValidState(r.state) /\ MatchesAction(o, r.state)
        /\ Action[o] = "Release" => /\ r.state.anchors = calls[o].expected.anchors
                                    /\ r.state.revision >= calls[o].expected.revision
    BY <1>10, <2>1, <2>2 DEF OutcomeSound
  <2>4. Fits(o, r)
    BY <1>2, <1>10, <2>1, <2>3, KindOfAction DEF Fits, Effect
  <2>5. calls'[o].pc # "inspect"
    BY <1>2, <1>10 DEF Effect
  <2> QED
    BY <1>6, <2>1, <2>4, <2>5 DEF FairReply
<1>11. CASE q.kind \in Effect /\ Granted(q) /\ r = EntityReply(Result(q))
  <2>1. Result(q) \in State
    BY <1>11, ResultTyped DEF AdapterSound, TypeOK
  <2>2. outcome'[o] = Result(q) /\ Result(q) # None
    BY <1>1, <1>2, <1>11, <2>1, NoStateAssumption
       DEF Apply, Prepare, Commit, Effect, AdapterSound, TypeOK, ServerTypeOK
  <2> QED
    BY <1>10, <1>11, <2>2
<1>12. CASE q.kind \in Effect /\ outcome[o] # None /\ r = EntityReply(outcome[o])
  <2>1. outcome'[o] = outcome[o]
    BY <1>12 DEF ServerKeeps, Onward
  <2> QED
    BY <1>10, <1>12, <2>1
<1>13. CASE /\ r = ErrorReply(Refusal(q)) /\ ~Granted(q) /\ outcome[o] = None
            /\ q.kind \in {"prepare_archive", "prepare_recall"} => ~Prepared(o)
            /\ q.kind \in {"prepare_archive", "prepare_recall"} \cup Effect
  <2>1. r.kind = "error" /\ r.code = Refusal(q)
    BY <1>13 DEF ErrorReply
  <2>2. q.kind \notin {"commit_archive", "commit_recall"}
    <3> SUFFICES ASSUME q.kind \in {"commit_archive", "commit_recall"} PROVE FALSE
      OBVIOUS
    <3>1. Prepared(o) /\ q.handle = o
      BY <1>1, <1>2 DEF AdapterSound, CallsInv, CallSound, Holds, OnlyNetwork, Sent
    <3>2. o \in pins \cup layouts
      BY <1>13, <3>1 DEF Prepared
    <3>3. IF q.kind = "commit_archive" THEN o \in pins ELSE o \in layouts
      BY <1>2, <3>2, KindOfAction DEF AdapterSound, ServerInv, PinSound, LayoutSound
    <3> QED
      BY <1>2, <1>3, <1>13, <3>1, <3>3 DEF Granted
  <2>3. r.code # "busy" => Doomed(o)
    <3> HAVE r.code # "busy"
    <3>1. q.kind \in {"release", "prepare_recall"} /\ states[Target[o]] # calls[o].expected
      BY <1>2, <2>1, <2>2 DEF Refusal
    <3>2. Action[o] # "Archive"
      BY <1>2, <3>1, KindOfAction
    <3>3. Overtaken(o)
      BY <1>2, <1>4, <1>5, <3>1 DEF ExpectedSound, Overtaken, State
    <3>4. ~Prepared(o)
      <4>1. CASE q.kind = "prepare_recall"
        BY <1>13, <4>1
      <4>2. CASE q.kind = "release"
        BY <1>2, <1>13, <4>2, KindOfAction
           DEF Prepared, AdapterSound, ServerInv, PinSound, LayoutSound
      <4> QED
        BY <3>1, <4>1, <4>2
    <3> QED
      BY <3>2, <3>3, <3>4 DEF Doomed
  <2>4. Doomed(o) => Doomed(o)'
    BY <1>2 DEF ServerKeeps
  <2> QED
    BY <2>1, <2>3, <2>4 DEF FairReply
<1> QED
  BY <1>1, <1>2, <1>3, <1>7, <1>8, <1>9, <1>11, <1>12, <1>13, ReplyCases

\* What comes in place of a reply shows a state that some entity has had.
LEMMA MisroutedTrue ==
  ASSUME AdapterSound, ServerKeeps, "misroute" \in suffered', NEW o \in Op,
         NEW r \in Misrouted
  PROVE  r \in Reply /\ TrueReply(o, r)'
<1>1. ASSUME NEW w \in Recorded
      PROVE  w \in State /\ Witnessed(w)'
  <2>1. CASE \E e \in Entity : w = Imported(e)
    BY <2>1 DEF Imported, State, Witnessed
  <2>2. CASE \E p \in Op : w = outcome[p] /\ outcome[p] # None
    <3>1. w \in State /\ Witnessed(w)
      BY <2>2 DEF AdapterSound, TypeOK, ServerTypeOK, ServerInv, OutcomeSound
    <3> QED
      BY <3>1, WitnessedStays DEF ServerKeeps
  <2> QED
    BY <2>1, <2>2 DEF Recorded
<1>2. CASE \E w \in Recorded : r = EntityReply(w) \/ r = CompletedReply(w)
  <2>1. PICK w \in Recorded : r = EntityReply(w) \/ r = CompletedReply(w)
    BY <1>2
  <2>2. r.kind \in {"entity", "completed"} /\ r.state = w /\ r \in Reply
    BY <1>1, <2>1 DEF EntityReply, CompletedReply, Reply
  <2>3. Witnessed(r.state)'
    BY <1>1, <2>2 DEF Witnessed
  <2> QED
    BY <2>2, <2>3 DEF TrueReply
<1>3. CASE r = CompletedReply(None)
  <2>1. r.kind = "completed" /\ r.state = None /\ r \in Reply
    BY <1>3 DEF CompletedReply, Reply
  <2> QED
    BY <2>1 DEF TrueReply
<1>4. CASE \E p \in Op : r \in {[kind |-> "view", op |-> p], [kind |-> "recall", op |-> p]}
  <2>1. r.kind \in {"view", "recall"} /\ r \in Reply
    BY <1>4 DEF Reply
  <2> QED
    BY <2>1 DEF TrueReply
<1> QED
  BY <1>2, <1>3, <1>4 DEF Misrouted

LEMMA ExchangeSound ==
  ASSUME AdapterSound, NEW o \in Op, Exchange(o)
  PROVE  AdapterSound'
<1>1. /\ link # None /\ calls[o].pc \in Waiting
      /\ Required(calls[o].pc) \subseteq link /\ link' = link
  BY DEF Exchange
<1>2. /\ suffered \subseteq suffered' /\ suffered' \subseteq Faults
      /\ late' \subseteq late \cup {Sent(o)}
  BY DEF Exchange, Fault, AdapterSound, TypeOK
<1>3. OnlyNetwork' => OnlyNetwork
  BY <1>2 DEF OnlyNetwork
\* The fault that makes a reply another than the server's.
<1> DEFINE Odd(r) ==
      \/ r = [kind |-> "lost"] \/ r = ErrorReply("new")
      \/ r \in {[kind |-> "garbled"], [kind |-> "version"]} /\ ~OnlyNetwork'
      \/ (\E code \in Codes \ {"new"} : r = ErrorReply(code)) /\ ~OnlyNetwork'
<1>4. ASSUME NEW r, Deliver(o, r), Odd(r),
             Apply(Sent(o)) \/ UNCHANGED <<offer, states, outcome, pins, layouts>>
      PROVE  AdapterSound'
  <2>1. AdmissionsStay
    BY <1>4, DeliverStays
  <2>2. PICK q \in Request : q = Sent(o) /\ RequestSound(q)
    BY <1>1, SentRequest
  <2>3. ServerKeeps
    BY <1>4, <2>1, <2>2, ApplyKeeps, StillKeeps
  <2>4. r \in Reply /\ r.kind \in {"lost", "garbled", "version", "error"}
    BY <1>4 DEF ErrorReply, Reply, Codes
  <2>5. OnlyNetwork' => r.kind = "lost" \/ (r.kind = "error" /\ r.code = "new")
    BY <1>4 DEF ErrorReply
  <2>6. TrueReply(o, r)' /\ (OnlyNetwork' => FairReply(o, r)')
    BY <2>4, <2>5, ErrorTrue
  <2> QED
    BY <1>1, <1>2, <1>4, <2>1, <2>3, <2>4, <2>6, Delivered
<1>5. ASSUME Apply(Sent(o)), Deliver(o, ReplyTo(Sent(o))), UNCHANGED suffered
      PROVE  AdapterSound'
  <2>1. PICK r : r = ReplyTo(Sent(o))
    OBVIOUS
  <2>2. /\ Deliver(o, r) /\ AdmissionsStay
        /\ calls'[o].pc = calls[o].pc /\ calls'[o].expected = calls[o].expected
    BY <1>5, <2>1, DeliverStays
  <2>3. PICK q \in Request : q = Sent(o) /\ RequestSound(q)
    BY <1>1, SentRequest
  <2>4. ServerKeeps
    BY <1>5, <2>2, <2>3, ApplyKeeps
  <2>5. r \in Reply /\ TrueReply(o, r)'
    BY <1>1, <1>5, <2>1, <2>2, <2>4, AnswerTrue
  <2>6. OnlyNetwork' => FairReply(o, r)'
    BY <1>1, <1>3, <1>5, <2>1, <2>2, <2>4, AnswerFair
  <2> QED
    BY <1>1, <1>2, <2>2, <2>4, <2>5, <2>6, Delivered
<1>6. ASSUME Apply(Sent(o)), Fault("misroute"), NEW r \in Misrouted, Deliver(o, r)
      PROVE  AdapterSound'
  <2>1. PICK s : s = r
    OBVIOUS
  <2>2. Deliver(o, s) /\ AdmissionsStay /\ calls'[o].pc = calls[o].pc
    BY <1>6, <2>1, DeliverStays
  <2>3. PICK q \in Request : q = Sent(o) /\ RequestSound(q)
    BY <1>1, SentRequest
  <2>4. ServerKeeps
    BY <1>6, <2>2, <2>3, ApplyKeeps
  <2>5. "misroute" \in suffered'
    BY <1>6 DEF Fault
  <2>6. s \in Reply /\ TrueReply(o, s)'
    BY <1>6, <2>1, <2>4, <2>5, MisroutedTrue
  <2>7. ~OnlyNetwork'
    BY <1>6 DEF Fault, OnlyNetwork
  <2> QED
    BY <1>1, <1>2, <2>2, <2>4, <2>6, <2>7, Delivered
<1>7. ASSUME NEW kind \in {"garbled", "version", "refuse"}, Fault(kind)
      PROVE  ~OnlyNetwork'
  BY <1>7 DEF Fault, OnlyNetwork
<1>8. CASE /\ Apply(Sent(o))
           /\ \/ Deliver(o, ReplyTo(Sent(o))) /\ UNCHANGED suffered
              \/ \E kind \in {"lost", "garbled", "version"} :
                   Fault(kind) /\ Deliver(o, [kind |-> kind])
              \/ Fault("code") /\ Deliver(o, ErrorReply("new"))
              \/ Fault("misroute") /\ \E reply \in Misrouted : Deliver(o, reply)
  <2>1. CASE Deliver(o, ReplyTo(Sent(o))) /\ UNCHANGED suffered
    BY <1>5, <1>8, <2>1
  <2>2. CASE \E kind \in {"lost", "garbled", "version"} :
               Fault(kind) /\ Deliver(o, [kind |-> kind])
    <3>1. PICK kind \in {"lost", "garbled", "version"} :
                 Fault(kind) /\ Deliver(o, [kind |-> kind])
      BY <2>2
    <3>2. Odd([kind |-> kind])
      BY <1>7, <3>1
    <3> QED
      BY <1>4, <1>8, <3>1, <3>2
  <2>3. CASE Deliver(o, ErrorReply("new"))
    BY <1>4, <1>8, <2>3
  <2>4. CASE Fault("misroute") /\ \E reply \in Misrouted : Deliver(o, reply)
    BY <1>6, <1>8, <2>4
  <2> QED
    BY <1>8, <2>1, <2>2, <2>3, <2>4
<1>9. CASE /\ \/ Fault("lost") /\ Deliver(o, [kind |-> "lost"])
              \/ Fault("code") /\ Deliver(o, ErrorReply("new"))
              \/ Fault("refuse") /\ \E code \in Codes \ {"new"} : Deliver(o, ErrorReply(code))
              \/ Fault("late") /\ Deliver(o, [kind |-> "lost"])
           /\ UNCHANGED <<offer, states, outcome, pins, layouts>>
  <2>1. CASE Deliver(o, [kind |-> "lost"])
    BY <1>4, <1>9, <2>1
  <2>2. CASE Deliver(o, ErrorReply("new"))
    BY <1>4, <1>9, <2>2
  <2>3. CASE Fault("refuse") /\ \E code \in Codes \ {"new"} : Deliver(o, ErrorReply(code))
    <3>1. PICK code \in Codes \ {"new"} : Deliver(o, ErrorReply(code))
      BY <2>3
    <3>2. Odd(ErrorReply(code))
      BY <1>7, <2>3
    <3> QED
      BY <1>4, <1>9, <3>1, <3>2
  <2> QED
    BY <1>9, <2>1, <2>2, <2>3
<1> QED
  BY <1>8, <1>9 DEF Exchange

-----------------------------------------------------------------------------
(* The theorems.                                                           *)

LEMMA InitSound == Init => AdapterSound
<1> SUFFICES ASSUME Init PROVE AdapterSound
  OBVIOUS
<1>1. \A o \in Op : calls[o] = [pc |-> "new", inside |-> FALSE, expected |-> None,
                             handle |-> None, reply |-> None, answer |-> None]
  BY DEF Init
<1>2. TypeOK
  <2>1. \A e \in Entity : Imported(e) \in State
    BY DEF Imported, State
  <2>2. ServerTypeOK
    BY <2>1 DEF Init, ServerInit, ServerTypeOK
  <2> QED
    BY <2>2 DEF Init, TypeOK, Call
<1>3. ServerInv
  BY DEF Init, ServerInit, ServerInv, EntitySound, OutcomeSound, PinSound, LayoutSound,
     ValidState, Imported, Witnessed
<1>4. CallsInv
  BY <1>1 DEF Init, CallsInv, ExpectedSound, CallSound, Admitted
<1>5. NetworkInv
  BY <1>1 DEF Init, ServerInit, NetworkInv, NetworkKept, Prepared
<1> QED
  BY <1>2, <1>3, <1>4, <1>5 DEF AdapterSound

LEMMA NextSound == AdapterSound /\ LookupInv /\ [Next]_vars => AdapterSound'
<1> SUFFICES ASSUME AdapterSound, LookupInv, [Next]_vars PROVE AdapterSound'
  OBVIOUS
<1>1. CASE \E o \in Op : Admit(o)
  BY <1>1, AdmitSound
<1>2. CASE \E o \in Op : Exchange(o)
  BY <1>2, ExchangeSound
<1>3. CASE \E o \in Op : Unsupported(o)
  BY <1>3, UnsupportedSound
<1>4. CASE \E o \in Op : Receive(o)
  BY <1>4, CompletedSound, InspectSound, InspectAgainSound, PrepareArchiveSound,
     CommitArchiveSound, ReleaseSound, PrepareRecallSound, CommitRecallSound DEF Receive
<1>5. CASE \E q \in late : Arrive(q)
  BY <1>5, ArriveSound
<1>6. CASE Connect \/ Reoffer \/ Crash
  BY <1>6, ConnectSound, ReofferSound, CrashSound
<1>7. CASE UNCHANGED vars
  <2>1. AdmissionsStay /\ TypeOK'
    BY <1>7 DEF vars, AdmissionsStay, Admitted, AdapterSound, TypeOK, ServerTypeOK
  <2>2. ServerKeeps
    BY <1>7, <2>1, StillKeeps DEF vars
  <2> QED
    BY <1>7, <2>1, <2>2, CallsKeep DEF vars, OnlyNetwork, AdapterSound, CallsInv,
       NetworkInv, NetworkKept
<1> QED
  BY <1>1, <1>2, <1>3, <1>4, <1>5, <1>6, <1>7 DEF Next, CallStep

\* Between a lookup and what follows it, only a late request can make a Release
\* happen.
LEMMA LookupNext == AdapterSound /\ LookupInv /\ [Next]_vars => LookupInv'
<1> SUFFICES ASSUME AdapterSound, LookupInv, [Next]_vars,
                    suffered' \cap {"late", "misroute"} = {}
             PROVE  /\ late' = {}
                    /\ \A o \in Op : Action[o] = "Release" /\ LookedUp(o)' => outcome'[o] = None
  BY DEF LookupInv
<1>1. suffered \subseteq suffered'
  BY DEF Next, CallStep, Receive, Admit, Exchange, Fault, Unsupported, Arrive, Connect,
     Reoffer, Crash, Completed, Inspect, InspectAgain, PrepareArchive, CommitArchive,
     Release, PrepareRecall, CommitRecall, Judge, vars
<1>2. /\ late = {}
      /\ \A o \in Op : Action[o] = "Release" /\ LookedUp(o) => outcome[o] = None
  BY <1>1 DEF LookupInv
<1>3. ASSUME NEW o \in Op, Exchange(o)
      PROVE  /\ late' = {}
             /\ \A p \in Op : Action[p] = "Release" /\ LookedUp(p)' => outcome'[p] = None
  <2>1. late' = {} /\ calls[o].pc \in Waiting
    BY <1>2, <1>3 DEF Exchange, Fault
  <2>2. PICK q \in Request : q = Sent(o) /\ q.op = o /\ q.kind = calls[o].pc
    BY <2>1, SentRequest
  <2>3. Apply(q) \/ UNCHANGED <<offer, states, outcome, pins, layouts>>
    BY <1>3, <2>2 DEF Exchange
  <2>4. \A p \in Op : outcome'[p] # outcome[p] => p = o /\ calls[o].pc \in Effect
    BY <2>2, <2>3 DEF Apply, Prepare, Commit, Effect, AdapterSound, TypeOK, ServerTypeOK
  <2>5. PICK r : Deliver(o, r) /\ (r.kind = "completed" => r = ReplyTo(q))
    <3>1. \A kind \in {"lost", "garbled", "version"} : [kind |-> kind].kind # "completed"
      OBVIOUS
    <3>2. \A code : ErrorReply(code).kind # "completed"
      BY DEF ErrorReply
    <3> QED
      BY <1>3, <2>2, <3>1, <3>2 DEF Exchange, Fault
  <2>6. /\ \A p \in Op : p # o => calls'[p] = calls[p]
        /\ calls'[o] = [calls[o] EXCEPT !.reply = r]
    BY <2>5 DEF Deliver, AdapterSound, TypeOK
  <2>7. calls'[o].pc = calls[o].pc /\ calls'[o].reply = r
    BY <2>6 DEF AdapterSound, TypeOK, Call
  <2>8. ASSUME NEW p \in Op, Action[p] = "Release", LookedUp(p)'
        PROVE  outcome'[p] = None
    <3>1. CASE p # o
      BY <1>2, <2>4, <2>6, <2>8, <3>1 DEF LookedUp
    <3>2. CASE p = o /\ calls[o].pc = "inspect"
      BY <1>2, <2>4, <2>8, <3>2 DEF LookedUp, Effect
    <3>3. CASE p = o /\ calls[o].pc = "completed" /\ r.kind = "completed" /\ r.state = None
      <4>1. r = ReplyTo(q)
        BY <2>5, <3>3
      <4>2. r \in {CompletedReply(outcome[o]), ErrorReply("unsupported")}
        BY <2>2, <3>3, <4>1 DEF ReplyTo
      <4>3. outcome[o] = None
        BY <3>3, <4>2 DEF CompletedReply, ErrorReply
      <4> QED
        BY <2>4, <3>3, <4>3 DEF Effect
    <3> QED
      BY <2>7, <2>8, <3>1, <3>2, <3>3 DEF LookedUp
  <2> QED
    BY <2>1, <2>8
<1>4. ASSUME NEW o \in Op, Receive(o) \/ Unsupported(o)
      PROVE  /\ late' = {}
             /\ \A p \in Op : Action[p] = "Release" /\ LookedUp(p)' => outcome'[p] = None
  <2>1. late' = late /\ outcome' = outcome /\ calls[o].pc \in Waiting
    BY <1>4 DEF Receive, Unsupported, Completed, Inspect, InspectAgain, PrepareArchive,
       CommitArchive, Release, PrepareRecall, CommitRecall, Judge, Waiting
  <2>2. \/ \E pc \in {"completed"} \cup Ended : \E answer : Return(o, pc, answer)
        \/ Enter(o)
        \/ \E method \in {"commit_archive", "commit_recall"} : Hold(o, method)
        \/ Proceed(o, "release")
        \/ \E method : Proceed(o, method) /\ LookedUp(o)
    <3>1. \A error : Raise(o, error) =>
            \E pc \in {"completed"} \cup Ended : \E answer : Return(o, pc, answer)
      BY DEF Raise, Ended
    <3>2. \A state : Answer(o, state) =>
            \E pc \in {"completed"} \cup Ended : \E answer : Return(o, pc, answer)
      BY DEF Answer, Ended
    <3>3. "Superseded" \in Ended
      BY DEF Ended
    <3>4. CASE Completed(o)
      BY <3>1, <3>2, <3>4 DEF Completed, Judge, LookedUp
    <3>5. CASE Inspect(o) \/ InspectAgain(o)
      BY <3>1, <3>3, <3>5 DEF Inspect, InspectAgain, Judge
    <3>6. CASE \/ PrepareArchive(o) \/ CommitArchive(o) \/ Release(o)
               \/ PrepareRecall(o) \/ CommitRecall(o)
      BY <3>1, <3>2, <3>6 DEF PrepareArchive, CommitArchive, Release, PrepareRecall,
         CommitRecall, Judge
    <3>7. CASE Unsupported(o)
      BY <3>1, <3>7 DEF Unsupported
    <3> QED
      BY <1>4, <3>4, <3>5, <3>6, <3>7 DEF Receive
  <2>3. /\ \A p \in Op : p # o => calls'[p] = calls[p]
        /\ calls[o] \in Call
    BY <2>2 DEF Return, Enter, Hold, Proceed, AdapterSound, TypeOK
  <2>4. LookedUp(o) \/ (calls'[o].reply = None /\ calls'[o].pc # "inspect")
    <3>1. CASE \E pc \in {"completed"} \cup Ended : \E answer : Return(o, pc, answer)
      BY <3>1 DEF Return, Ended, AdapterSound, TypeOK
    <3>2. CASE Enter(o) \/ \E method \in {"commit_archive", "commit_recall"} : Hold(o, method)
      BY <2>3, <3>2 DEF Enter, Hold, AdapterSound, TypeOK, Call
    <3>3. CASE Proceed(o, "release")
      BY <2>3, <3>3 DEF Proceed, AdapterSound, TypeOK, Call
    <3> QED
      BY <2>2, <3>1, <3>2, <3>3
  <2>5. ASSUME NEW p \in Op, Action[p] = "Release", LookedUp(p)'
        PROVE  outcome'[p] = None
    BY <1>2, <2>1, <2>3, <2>4, <2>5 DEF LookedUp
  <2> QED
    BY <1>2, <2>1, <2>5
<1>5. ASSUME NEW o \in Op, Admit(o)
      PROVE  /\ late' = {}
             /\ \A p \in Op : Action[p] = "Release" /\ LookedUp(p)' => outcome'[p] = None
  <2>1. calls[o] \in Call /\ calls[o].reply = None
    BY <1>5 DEF Admit, AdapterSound, TypeOK, CallsInv, CallSound, Waiting
  <2>2. /\ calls'[o].pc = "completed" /\ calls'[o].reply = None
        /\ \A p \in Op : p # o => calls'[p] = calls[p]
    BY <1>5, <2>1 DEF Admit, AdapterSound, TypeOK, Call
  <2> QED
    BY <1>2, <1>5, <2>2 DEF Admit, LookedUp
<1>6. CASE Crash
  <2>1. \A p \in Op : calls'[p] = calls[p] \/ (calls'[p].pc = "completed" /\ calls'[p].reply = None)
    BY <1>6 DEF Crash, AdapterSound, TypeOK, Call
  <2>2. late' = {} /\ outcome' = outcome
    BY <1>2, <1>6 DEF Crash
  <2>3. \A p \in Op : LookedUp(p)' => LookedUp(p)
    BY <2>1 DEF LookedUp
  <2> QED
    BY <1>2, <2>2, <2>3
<1>7. CASE Connect \/ Reoffer \/ UNCHANGED vars
  BY <1>2, <1>7 DEF Connect, Reoffer, vars, LookedUp
<1>8. CASE \E q \in late : Arrive(q)
  BY <1>2, <1>8
<1> QED
  BY <1>3, <1>4, <1>5, <1>6, <1>7, <1>8 DEF Next, CallStep

\* The inductive invariant of the adapter, under any number of faults: whatever
\* the server, the network and the processes do, a reply shows a state that some
\* operations have made, and as long as none went astray it is the one to the
\* request; as long as only the network and processes fail, what is given up for
\* an error is over, but for a Release with a late request.
THEOREM AdapterIsSound == Spec => [](AdapterSound /\ LookupInv)
<1>1. Init => LookupInv
  BY DEF Init, ServerInit, LookupInv
<1> QED
  BY <1>1, InitSound, NextSound, LookupNext, PTL DEF Spec

\* An operation that is told it succeeded is told its own result, though replies
\* are lost, late, garbled or of another version and servers are replaced; where
\* a reply of any earlier moment or any other operation may have come instead,
\* the state it is told is one its entity was brought to by a Release, or by an
\* Archive under its key (the checks of lib.rs).
THEOREM SuccessIsReal == Spec => []AdapterInv
<1>1. AdapterSound => AdapterInv
  BY DEF AdapterSound, CallsInv, CallSound, Backed, AdapterInv, DoneIsReal
<1> QED
  BY <1>1, AdapterIsSound, PTL

\* As long as only the network and processes fail, an operation given up for an
\* error has no effect, then or later, but for a Release with a late request,
\* whose second lookup of the entity is a definite Conflict (engine lib.rs:155).
THEOREM DefiniteErrorsAreFinal == Spec => []DefiniteErrorIsFinal
<1>1. AdapterSound => DefiniteErrorIsFinal
  <2> SUFFICES ASSUME AdapterSound, OnlyNetwork, NEW o \in Op, calls[o].pc = "Failed",
                      ~MayOvertake(o)
               PROVE  outcome[o] = None
    BY DEF DefiniteErrorIsFinal
  <2>1. Doomed(o)
    BY DEF AdapterSound, NetworkInv, NetworkKept
  <2> QED
    BY <2>1 DEF Doomed, Prepared
<1> QED
  BY <1>1, AdapterIsSound, PTL
=============================================================================
