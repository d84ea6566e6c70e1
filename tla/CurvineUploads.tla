---------------------------- MODULE CurvineUploads ----------------------------
(***************************************************************************)
(* import_file and CurvineDataMover::upload of crates/hsm-curvine/src/     *)
(* managed_io.rs: attempts of create-only imports, several of the same     *)
(* operation at once, over control and worker calls that are lost, late or *)
(* unreadable.  The server and its worker are external: a target holds a   *)
(* prefix that repeated writes must agree with, and is sealed when it is   *)
(* published (crates/hsm-curvine/README.md).                               *)
(***************************************************************************)
EXTENDS Naturals, Sequences, SequencesExt

CONSTANTS
  Op,        \* imports
  Path,
  PathOf,    \* Op -> Path
  Proc,      \* attempts that run at the same time
  OpOf,      \* Proc -> Op
  Inputs,    \* Op -> the contents its source may have
  Faults,    \* the kinds of fault an instance may suffer
  Budget,    \* bound: how many of them
  None

VARIABLES
  targets,     \* the private allocation of each import
  published,   \* what each path names
  attempts,
  late,        \* writes whose sender has stopped waiting
  budget       \* faults still to come

vars == <<targets, published, attempts, late, budget>>

Contents == UNION {Inputs[o] : o \in Op}
Cell == UNION {Range(c) : c \in Contents}

\* Wrong variant: the digest is left out.
LengthOnly(content) == Len(content)

\* The length and digest of a content.
Fingerprint(content) == content

Prints == {Fingerprint(c) : c \in Contents}

\* A target exists on its worker from the first write.
Target == [print : Prints, exists : BOOLEAN, cells : Seq(Cell)]
Published == [op : Op, cells : Contents]
Pieces == {<<>>} \cup {<<x>> : x \in Cell}
Write == [op : Op, offset : Nat, bytes : Pieces]

Running == {"completed", "prepare", "write", "verify", "commit"}
Errors == {"Ok", "Unknown", "Conflict", "Integrity", "Fenced", "Invalid", "Dead"}

\* applied: whether the commit of this attempt took effect.
Attempt == [pc : Running \cup {"end"}, spool : Contents, offset : Nat,
            result : Errors \cup {None}, applied : BOOLEAN]

ASSUME UploadAssumption ==
  /\ PathOf \in [Op -> Path] /\ OpOf \in [Proc -> Op]
  /\ DOMAIN Inputs = Op
  /\ Contents \subseteq Seq(Cell)
  /\ Budget \in Nat
  /\ None \notin Target \cup Published \cup Attempt

TypeOK ==
  /\ targets \in [Op -> Target \cup {None}]
  /\ published \in [Path -> Published \cup {None}]
  /\ attempts \in [Proc -> Attempt \cup {None}]
  /\ late \subseteq Write
  /\ budget \in 0..Budget

Init ==
  /\ targets = [o \in Op |-> None]
  /\ published = [x \in Path |-> None]
  /\ attempts = [p \in Proc |-> None]
  /\ late = {}
  /\ budget = Budget

Fault(kind) == kind \in Faults /\ budget > 0 /\ budget' = budget - 1

-----------------------------------------------------------------------------
(* The server.                                                             *)

At(o) == published[PathOf[o]]
IsPublished(o) == At(o) # None /\ At(o).op = o

\* A repeated piece must be what is there.
Agrees(w) ==
  LET held == targets[w.op].cells
  IN w.bytes # <<>> /\ w.offset < Len(held) => held[w.offset + 1] = Head(w.bytes)

Refused(w) ==
  IF targets[w.op] = None \/ At(w.op) # None THEN "Fenced"
  ELSE IF w.offset > Len(targets[w.op].cells) THEN "Invalid"
  ELSE IF ~Agrees(w) THEN "Conflict"
  ELSE None

Take(w) ==
  targets' = IF Refused(w) # None THEN targets
             ELSE [targets EXCEPT ![w.op].exists = TRUE,
                     ![w.op].cells = IF w.offset = Len(@) THEN @ \o w.bytes ELSE @]

-----------------------------------------------------------------------------
(* Attempts.                                                               *)

Is(p, pc) == attempts[p] # None /\ attempts[p].pc = pc

Go(p, pc) == attempts' = [attempts EXCEPT ![p].pc = pc]

Return(p, result) ==
  attempts' = [attempts EXCEPT ![p].pc = "end", ![p].result = result]

\* The source is copied into a private spool, which speaks for this attempt.
Start(p) ==
  /\ attempts[p] = None \/ Is(p, "end")
  /\ \E content \in Inputs[OpOf[p]] :
       attempts' = [attempts EXCEPT ![p] =
         [pc |-> "completed", spool |-> content, offset |-> 0,
          result |-> None, applied |-> FALSE]]
  /\ UNCHANGED <<targets, published, late, budget>>

\* Wrong variant: what cannot be decoded is an Integrity error, as in exchange.
GarbledIsIntegrity(kind) == IF kind = "garbled" THEN "Integrity" ELSE "Unknown"

\* native_call: a reply that did not come or cannot be read leaves it open
\* whether the request took effect.
Unheard(kind) == "Unknown"

\* A call that reaches the server, whose reply may not come back, or one that
\* does not reach it.
Call(p, effect, reply) ==
  \/ effect /\ reply /\ UNCHANGED budget
  \/ effect /\ \E kind \in {"lost", "garbled"} : Fault(kind) /\ Return(p, Unheard(kind))

Dropped(p) ==
  /\ attempts[p] # None /\ attempts[p].pc \in Running
  /\ Fault("drop")
  /\ Return(p, "Unknown")
  /\ UNCHANGED <<targets, published, late>>

\* An operation that is published answers with its result, to the same content.
CompletedImport(p) ==
  LET o == OpOf[p]
      print == Fingerprint(attempts[p].spool)
  IN /\ Is(p, "completed")
     /\ Call(p, TRUE,
          IF targets[o] # None /\ targets[o].print # print THEN Return(p, "Conflict")
          ELSE IF IsPublished(o) THEN Return(p, "Ok")
          ELSE Go(p, "prepare"))
     /\ UNCHANGED <<targets, published, late>>

PrepareImport(p) ==
  LET o == OpOf[p]
      print == Fingerprint(attempts[p].spool)
      refused == At(o) # None \/ (targets[o] # None /\ targets[o].print # print)
  IN /\ Is(p, "prepare")
     /\ Call(p, targets' = IF targets[o] = None /\ ~refused
                             THEN [targets EXCEPT ![o] =
                                     [print |-> print, exists |-> FALSE, cells |-> <<>>]]
                             ELSE targets,
             IF refused THEN Return(p, "Conflict") ELSE Go(p, "write"))
     /\ UNCHANGED <<published, late>>

\* Wrong variant: nothing is sent of an empty payload.
PiecesOnly(p) == attempts[p].offset < Len(attempts[p].spool)

\* "Empty payloads still need a concrete allocation file for verification."
Sends(p) == attempts[p].offset < Len(attempts[p].spool) \/ attempts[p].offset = 0

\* The next chunk of the spool.
Chunk(p) ==
  LET a == attempts[p]
  IN [op |-> OpOf[p], offset |-> a.offset,
      bytes |-> IF a.spool = <<>> THEN <<>> ELSE <<a.spool[a.offset + 1]>>]

Acknowledged(p) == attempts' = [attempts EXCEPT ![p].offset = @ + 1]

WriteChunk(p) ==
  /\ Is(p, "write") /\ Sends(p)
  /\ \/ /\ Call(p, Take(Chunk(p)),
                IF Refused(Chunk(p)) # None THEN Return(p, Refused(Chunk(p)))
                ELSE Acknowledged(p))
        /\ UNCHANGED late
     \/ /\ Fault("late")
        /\ late' = late \cup {Chunk(p)}
        /\ Return(p, "Unknown")
        /\ UNCHANGED targets
  /\ UNCHANGED published

\* The end of the spool.
AllSent(p) ==
  /\ Is(p, "write") /\ ~Sends(p)
  /\ Go(p, "verify")
  /\ UNCHANGED <<targets, published, late, budget>>

\* The worker reads the target; the mover compares that with the spool.
Verify(p) ==
  LET o == OpOf[p]
  IN /\ Is(p, "verify")
     /\ Call(p, TRUE,
          IF At(o) # None THEN Return(p, "Fenced")
          ELSE IF ~targets[o].exists
                 \/ Fingerprint(targets[o].cells) # Fingerprint(attempts[p].spool)
               THEN Return(p, "Integrity")
          ELSE Go(p, "commit"))
     /\ UNCHANGED <<targets, published, late>>

\* The target is sealed as the evidence says, and published once.
CommitImport(p) ==
  LET o == OpOf[p]
      t == targets[o]
      commits == At(o) = None /\ t.exists /\ Fingerprint(t.cells) = t.print
  IN /\ Is(p, "commit")
     /\ \/ /\ published' = IF commits
                             THEN [published EXCEPT ![PathOf[o]] = [op |-> o, cells |-> t.cells]]
                             ELSE published
           /\ LET a == [attempts[p] EXCEPT !.pc = "end", !.applied = commits]
                  reply == IF commits \/ IsPublished(o) THEN "Ok"
                           ELSE IF At(o) # None THEN "Conflict" ELSE "Integrity"
              IN \/ attempts' = [attempts EXCEPT ![p] = [a EXCEPT !.result = reply]]
                    /\ UNCHANGED budget
                 \/ \E kind \in {"lost", "garbled"} :
                      /\ Fault(kind)
                      /\ attempts' = [attempts EXCEPT ![p] = [a EXCEPT !.result = Unheard(kind)]]
     /\ UNCHANGED <<targets, late>>

\* The process of an attempt dies.
Die(p) ==
  /\ attempts[p] # None /\ attempts[p].pc \in Running
  /\ Fault("crash")
  /\ Return(p, "Dead")
  /\ UNCHANGED <<targets, published, late>>

\* A late write reaches its target.
Arrive(w) ==
  /\ w \in late
  /\ late' = late \ {w}
  /\ Take(w)
  /\ UNCHANGED <<published, attempts, budget>>

\* The worker restarts and has lost the end of a target that is not sealed.
Forget(o) ==
  /\ targets[o] # None /\ targets[o].cells # <<>> /\ At(o) = None
  /\ Fault("forget")
  /\ targets' = [targets EXCEPT ![o].cells = Front(@)]
  /\ UNCHANGED <<published, attempts, late>>

Step(p) ==
  \/ CompletedImport(p) \/ PrepareImport(p)
  \/ WriteChunk(p) \/ AllSent(p) \/ Verify(p)
  \/ CommitImport(p)

Next ==
  \/ \E p \in Proc : Start(p) \/ Step(p) \/ Dropped(p) \/ Die(p)
  \/ \E w \in late : Arrive(w)
  \/ \E o \in Op : Forget(o)

Spec == Init /\ [][Next]_vars

\* The command is repeated with the content that was prepared.
Again(p) ==
  /\ Start(p)
  /\ targets[OpOf[p]] # None
  /\ Fingerprint(attempts'[p].spool) = targets[OpOf[p]].print

\* The runtime polls an attempt, and among the attempts a user starts there is
\* always another one with the content that was prepared.
FairSpec == Spec /\ \A p \in Proc : WF_vars(Step(p)) /\ SF_vars(Again(p))

-----------------------------------------------------------------------------
(* Properties.                                                             *)

\* An import that says it succeeded has published the content it was given,
\* not that of an earlier attempt or of another import of the path.
OkPublishedThis ==
  \A p \in Proc : Is(p, "end") /\ attempts[p].result = "Ok" =>
    At(OpOf[p]) = [op |-> OpOf[p], cells |-> attempts[p].spool]

\* Attempts, with what they send late or twice, only ever extend what the
\* others wrote: no attempt finds a private target that it cannot complete.
TargetsAgree ==
  \A p \in Proc : (Is(p, "write") \/ Is(p, "verify")) /\ ~IsPublished(OpOf[p]) =>
    IsPrefix(targets[OpOf[p]].cells, attempts[p].spool)

\* The type invariant, and what the attempts of an import rely on together.
UploadsInv == TypeOK /\ TargetsAgree

\* An import that has happened is not reported as one that cannot have.
AppliedIsNotRefused ==
  \A p \in Proc : Is(p, "end") /\ attempts[p].applied =>
    attempts[p].result \in {"Ok", "Unknown"}

\* An import that was prepared and is repeated with the same content ends,
\* whatever other attempts of it bring: the path comes to name a file.
RepeatedImportEnds ==
  \A o \in Op : targets[o] # None ~> At(o) # None
=============================================================================
