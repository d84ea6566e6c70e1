------------------------ MODULE CurvineUploads_proofs ------------------------
(***************************************************************************)
(* Attempts of an import share its target: each writes, late or twice,     *)
(* only pieces of the one content the target was prepared for, so that     *)
(* what is sealed is that content, for any number of imports, attempts and *)
(* faults and contents of any length.                                      *)
(***************************************************************************)
EXTENDS CurvineUploads, SequenceTheorems, TLAPS

\* The cells are a beginning of the content.
Begins(cells, content) ==
  /\ Len(cells) <= Len(content)
  /\ \A i \in 1..Len(cells) : cells[i] = content[i]

\* A write that carries nothing, or the piece of the content at its offset.
PieceOf(w, content) ==
  \/ w.bytes = <<>>
  \/ w.offset < Len(content) /\ w.bytes = <<content[w.offset + 1]>>

TargetsKept == \A o \in Op : targets[o] # None => Begins(targets[o].cells, targets[o].print)

\* What a path names was the whole target of one of its imports.
PublishedKept ==
  \A x \in Path : published[x] # None =>
    LET o == published[x].op
    IN PathOf[o] = x /\ targets[o] # None /\ published[x].cells = targets[o].print

LateKept == \A w \in late : targets[w.op] # None /\ PieceOf(w, targets[w.op].print)

\* What attempt p relies on, or has said.
AttemptKept(p) ==
  LET a == attempts[p]
      o == OpOf[p]
  IN /\ a.pc \in Running => ~a.applied
     /\ a.pc \in {"write", "verify", "commit"} => targets[o] # None /\ targets[o].print = a.spool
     /\ a.pc = "end" /\ a.result = "Ok" => At(o) = [op |-> o, cells |-> a.spool]
     /\ a.pc = "end" /\ a.applied => a.result \in {"Ok", "Unknown"}

(***************************************************************************)
(* The inductive invariant.  A target holds a beginning of the content it  *)
(* was prepared for, and every attempt that got past prepare_import, and   *)
(* every write still on its way, is of that content.                       *)
(***************************************************************************)
ImportsInv ==
  /\ TypeOK
  /\ TargetsKept
  /\ PublishedKept
  /\ LateKept
  /\ \A p \in Proc : attempts[p] # None => AttemptKept(p)

-----------------------------------------------------------------------------
(* Types.                                                                  *)

LEMMA PrintsAre == Prints = Contents
BY DEF Prints, Fingerprint

LEMMA TargetType ==
  ASSUME TypeOK, NEW o \in Op, targets[o] # None
  PROVE  /\ targets[o] \in Target /\ targets[o].print \in Contents
         /\ targets[o].print \in Seq(Cell) /\ targets[o].cells \in Seq(Cell)
<1>1. targets[o] \in Target
  BY DEF TypeOK
<1> QED
  BY <1>1, PrintsAre, UploadAssumption DEF Target

LEMMA AttemptType ==
  ASSUME TypeOK, NEW p \in Proc, attempts[p] # None
  PROVE  /\ attempts[p] \in Attempt /\ OpOf[p] \in Op /\ PathOf[OpOf[p]] \in Path
         /\ attempts[p].spool \in Contents /\ attempts[p].spool \in Seq(Cell)
         /\ attempts[p].offset \in Nat
<1>1. attempts[p] \in Attempt
  BY DEF TypeOK
<1> QED
  BY <1>1, UploadAssumption DEF Attempt

LEMMA FaultTyped ==
  ASSUME TypeOK, NEW kind, Fault(kind) PROVE budget' \in 0..Budget
BY UploadAssumption DEF TypeOK, Fault

-----------------------------------------------------------------------------
(* What a step may do to the target, to the paths and to an attempt.       *)

\* A target that was prepared stays prepared for the same content.
TargetsMove ==
  /\ targets' \in [Op -> Target \cup {None}]
  /\ \A o \in Op : targets[o] # None => targets'[o] # None /\ targets'[o].print = targets[o].print
  /\ TargetsKept'

\* A path that names a file keeps it.
PublishedMoves ==
  /\ published' \in [Path -> Published \cup {None}]
  /\ \A x \in Path : published[x] # None => published'[x] = published[x]
  /\ PublishedKept'

LateMoves == late' \subseteq Write /\ LateKept'

\* One attempt goes on.
Moves(p) ==
  /\ attempts' \in [Proc -> Attempt \cup {None}]
  /\ \A q \in Proc : q # p => attempts'[q] = attempts[q]
  /\ AttemptKept(p)'

LEMMA AttemptStays ==
  ASSUME ImportsInv, TargetsMove, PublishedMoves, NEW p \in Proc,
         attempts'[p] = attempts[p], attempts[p] # None
  PROVE  AttemptKept(p)'
<1>1. AttemptKept(p) /\ OpOf[p] \in Op /\ PathOf[OpOf[p]] \in Path
  BY AttemptType DEF ImportsInv
<1>2. At(OpOf[p]) # None => At(OpOf[p])' = At(OpOf[p])
  BY <1>1 DEF At, PublishedMoves
<1>3. At(OpOf[p]) = [op |-> OpOf[p], cells |-> attempts[p].spool] => At(OpOf[p]) # None
  <2> SUFFICES ASSUME At(OpOf[p]) = [op |-> OpOf[p], cells |-> attempts[p].spool]
               PROVE  At(OpOf[p]) # None
    OBVIOUS
  <2>1. At(OpOf[p]) \in Published
    BY <1>1, AttemptType DEF ImportsInv, Published
  <2> QED
    BY <2>1, UploadAssumption
<1> QED
  BY <1>1, <1>2, <1>3 DEF AttemptKept, TargetsMove

LEMMA StepKeeps ==
  ASSUME ImportsInv, TargetsMove, PublishedMoves, LateMoves, budget' \in 0..Budget,
         UNCHANGED attempts \/ \E p \in Proc : Moves(p)
  PROVE  ImportsInv'
<1>1. TypeOK'
  BY DEF ImportsInv, TypeOK, TargetsMove, PublishedMoves, LateMoves, Moves
<1>2. ASSUME NEW q \in Proc, attempts'[q] # None PROVE AttemptKept(q)'
  <2>1. CASE UNCHANGED attempts
    BY <1>2, <2>1, AttemptStays
  <2>2. ASSUME NEW p \in Proc, Moves(p) PROVE AttemptKept(q)'
    BY <1>2, <2>2, AttemptStays DEF Moves
  <2> QED
    BY <2>1, <2>2
<1> QED
  BY <1>1, <1>2 DEF ImportsInv, TargetsMove, PublishedMoves, LateMoves

LEMMA TargetsStay ==
  ASSUME ImportsInv, UNCHANGED targets
  PROVE  TargetsMove
BY DEF ImportsInv, TypeOK, TargetsMove, TargetsKept

LEMMA PublishedStay ==
  ASSUME ImportsInv, TargetsMove, UNCHANGED published
  PROVE  PublishedMoves
<1>1. \A x \in Path : published[x] # None => published[x].op \in Op
  BY DEF ImportsInv, TypeOK, Published
<1> QED
  BY <1>1 DEF ImportsInv, TypeOK, PublishedMoves, PublishedKept, TargetsMove

\* A write once sent agrees with its target for good.
LEMMA LateStays ==
  ASSUME ImportsInv, TargetsMove, late' \subseteq late
  PROVE  LateMoves
<1>1. \A w \in late : w \in Write /\ w.op \in Op
  BY DEF ImportsInv, TypeOK, Write
<1> QED
  BY <1>1 DEF ImportsInv, LateMoves, LateKept, TypeOK, TargetsMove

\* An attempt that takes another record.
LEMMA BecomesMoves ==
  ASSUME ImportsInv, NEW p \in Proc, NEW a \in Attempt, attempts' = [attempts EXCEPT ![p] = a],
         a.pc \in Running => ~a.applied,
         a.pc \in {"write", "verify", "commit"} =>
           targets'[OpOf[p]] # None /\ targets'[OpOf[p]].print = a.spool,
         a.pc = "end" /\ a.result = "Ok" => At(OpOf[p])' = [op |-> OpOf[p], cells |-> a.spool],
         a.pc = "end" /\ a.applied => a.result \in {"Ok", "Unknown"}
  PROVE  Moves(p)
<1>1. /\ attempts' \in [Proc -> Attempt \cup {None}] /\ attempts'[p] = a
      /\ \A q \in Proc : q # p => attempts'[q] = attempts[q]
  BY DEF ImportsInv, TypeOK
<1> QED
  BY <1>1 DEF Moves, AttemptKept

LEMMA GoMoves ==
  ASSUME ImportsInv, NEW p \in Proc, attempts[p] # None, attempts[p].pc \in Running,
         NEW pc \in Running, Go(p, pc),
         pc \in {"write", "verify", "commit"} =>
           targets'[OpOf[p]] # None /\ targets'[OpOf[p]].print = attempts[p].spool
  PROVE  Moves(p)
<1> DEFINE a == [attempts[p] EXCEPT !.pc = pc]
<1>1. attempts[p] \in Attempt /\ ~attempts[p].applied
  BY AttemptType DEF ImportsInv, AttemptKept
<1>2. /\ a \in Attempt /\ a.pc = pc /\ a.spool = attempts[p].spool /\ ~a.applied
  BY <1>1 DEF Attempt
<1>3. attempts' = [attempts EXCEPT ![p] = a] /\ pc # "end"
  BY DEF Go, Running
<1> HIDE DEF a
<1> QED
  BY <1>2, <1>3, BecomesMoves

LEMMA ReturnMoves ==
  ASSUME ImportsInv, NEW p \in Proc, attempts[p] # None, attempts[p].pc \in Running,
         NEW result \in Errors, Return(p, result),
         result = "Ok" => At(OpOf[p])' = [op |-> OpOf[p], cells |-> attempts[p].spool]
  PROVE  Moves(p)
<1> DEFINE a == [attempts[p] EXCEPT !.pc = "end", !.result = result]
<1>1. attempts[p] \in Attempt /\ ~attempts[p].applied
  BY AttemptType DEF ImportsInv, AttemptKept
<1>2. /\ a \in Attempt /\ a.pc = "end" /\ a.result = result
      /\ a.spool = attempts[p].spool /\ ~a.applied
  BY <1>1 DEF Attempt
<1>3. attempts' = [attempts EXCEPT ![p] = a] /\ a.pc \notin Running
  BY <1>2 DEF Return, Running
<1> HIDE DEF a
<1> QED
  BY <1>2, <1>3, BecomesMoves

\* The reply of a call that is lost, or unreadable.
LEMMA UnheardMoves ==
  ASSUME ImportsInv, NEW p \in Proc, attempts[p] # None, attempts[p].pc \in Running,
         \E kind \in {"lost", "garbled"} : Fault(kind) /\ Return(p, Unheard(kind))
  PROVE  Moves(p) /\ budget' \in 0..Budget
<1>1. "Unknown" \in Errors
  BY DEF Errors
<1>2. Return(p, "Unknown") /\ budget' \in 0..Budget
  BY FaultTyped DEF Unheard, ImportsInv
<1> QED
  BY <1>1, <1>2, ReturnMoves

\* A step at which neither target nor path changes.
LEMMA QuietKeeps ==
  ASSUME ImportsInv, UNCHANGED <<targets, published, late>>, budget' \in 0..Budget,
         UNCHANGED attempts \/ \E p \in Proc : Moves(p)
  PROVE  ImportsInv'
<1>1. TargetsMove
  BY TargetsStay
<1> QED
  BY <1>1, PublishedStay, LateStays, StepKeeps

-----------------------------------------------------------------------------
(* The actions.                                                            *)

LEMMA StartKeeps ==
  ASSUME ImportsInv, NEW p \in Proc, Start(p)
  PROVE  ImportsInv'
<1>1. PICK content \in Inputs[OpOf[p]] :
        attempts' = [attempts EXCEPT ![p] =
          [pc |-> "completed", spool |-> content, offset |-> 0,
           result |-> None, applied |-> FALSE]]
  BY DEF Start
<1> DEFINE a == [pc |-> "completed", spool |-> content, offset |-> 0,
                 result |-> None, applied |-> FALSE]
<1>2. content \in Contents
  BY <1>1, UploadAssumption DEF Contents
<1>3. a \in Attempt /\ a.pc = "completed" /\ ~a.applied /\ attempts' = [attempts EXCEPT ![p] = a]
  BY <1>1, <1>2 DEF Attempt, Running
<1> HIDE DEF a
<1>4. Moves(p)
  BY <1>3, BecomesMoves
<1>5. UNCHANGED <<targets, published, late>> /\ budget' \in 0..Budget
  BY DEF Start, ImportsInv, TypeOK
<1> QED
  BY <1>4, <1>5, QuietKeeps

LEMMA EndsKeep ==
  ASSUME ImportsInv, NEW p \in Proc, Dropped(p) \/ Die(p)
  PROVE  ImportsInv'
<1>1. /\ attempts[p] # None /\ attempts[p].pc \in Running
      /\ UNCHANGED <<targets, published, late>> /\ budget' \in 0..Budget
      /\ Return(p, "Unknown") \/ Return(p, "Dead")
  BY FaultTyped DEF Dropped, Die, ImportsInv
<1>2. Moves(p)
  BY <1>1, ReturnMoves DEF Errors
<1> QED
  BY <1>1, <1>2, QuietKeeps

\* A published import that was prepared for this content has this content.
LEMMA PublishedIs ==
  ASSUME ImportsInv, NEW p \in Proc, attempts[p] # None, IsPublished(OpOf[p]),
         targets[OpOf[p]] # None => targets[OpOf[p]].print = attempts[p].spool
  PROVE  At(OpOf[p]) = [op |-> OpOf[p], cells |-> attempts[p].spool]
<1>1. PathOf[OpOf[p]] \in Path
  BY AttemptType DEF ImportsInv
<1>2. At(OpOf[p]) \in Published /\ At(OpOf[p]).op = OpOf[p]
  BY <1>1 DEF IsPublished, At, ImportsInv, TypeOK
<1>3. At(OpOf[p]).cells = attempts[p].spool
  BY <1>1, <1>2 DEF IsPublished, At, ImportsInv, PublishedKept
<1> QED
  BY <1>2, <1>3 DEF Published

LEMMA CompletedImportKeeps ==
  ASSUME ImportsInv, NEW p \in Proc, CompletedImport(p)
  PROVE  ImportsInv'
<1> DEFINE o == OpOf[p]
<1>1. /\ attempts[p] # None /\ attempts[p].pc \in Running
      /\ UNCHANGED <<targets, published, late>>
  BY DEF CompletedImport, Is, Running
<1>2. CASE \E kind \in {"lost", "garbled"} : Fault(kind) /\ Return(p, Unheard(kind))
  BY <1>1, <1>2, UnheardMoves, QuietKeeps
<1>3. CASE /\ UNCHANGED budget
           /\ IF targets[o] # None /\ targets[o].print # attempts[p].spool
                THEN Return(p, "Conflict")
              ELSE IF IsPublished(o) THEN Return(p, "Ok")
              ELSE Go(p, "prepare")
  <2>1. Moves(p)
    <3>1. CASE Return(p, "Conflict")
      BY <1>1, <3>1, ReturnMoves DEF Errors
    <3>2. CASE /\ Return(p, "Ok") /\ IsPublished(o)
               /\ targets[o] # None => targets[o].print = attempts[p].spool
      <4>1. At(o)' = [op |-> o, cells |-> attempts[p].spool]
        BY <1>1, <3>2, PublishedIs DEF At
      <4> QED
        BY <1>1, <3>2, <4>1, ReturnMoves DEF Errors
    <3>3. CASE Go(p, "prepare")
      BY <1>1, <3>3, GoMoves DEF Running
    <3> QED
      BY <1>3, <3>1, <3>2, <3>3
  <2> QED
    BY <1>1, <1>3, <2>1, QuietKeeps DEF ImportsInv, TypeOK
<1> QED
  BY <1>2, <1>3 DEF CompletedImport, Call, Fingerprint

\* prepare_import: an empty target for the content of this attempt.
LEMMA PrepareImportKeeps ==
  ASSUME ImportsInv, NEW p \in Proc, PrepareImport(p)
  PROVE  ImportsInv'
<1> DEFINE o == OpOf[p]
           print == attempts[p].spool
           refused == At(o) # None \/ (targets[o] # None /\ targets[o].print # print)
           empty == [print |-> print, exists |-> FALSE, cells |-> <<>>]
<1>1. /\ attempts[p] # None /\ attempts[p].pc \in Running
      /\ UNCHANGED published /\ UNCHANGED late
      /\ targets' = IF targets[o] = None /\ ~refused THEN [targets EXCEPT ![o] = empty]
                    ELSE targets
  BY DEF PrepareImport, Is, Running, Call, Fingerprint
<1>2. /\ o \in Op /\ print \in Contents /\ print \in Seq(Cell)
      /\ empty \in Target /\ empty # None /\ empty.print = print
      /\ Begins(empty.cells, empty.print)
  <2>1. o \in Op /\ print \in Contents /\ print \in Seq(Cell)
    BY <1>1, AttemptType DEF ImportsInv
  <2>2. empty \in Target /\ empty.print = print /\ empty.cells = <<>>
    BY <2>1, PrintsAre DEF Target
  <2> HIDE DEF empty
  <2> QED
    BY <2>1, <2>2, UploadAssumption DEF Begins
<1> HIDE DEF empty
<1>3. TargetsMove
  <2>1. CASE targets' = targets
    BY <2>1, TargetsStay
  <2>2. CASE targets[o] = None /\ targets' = [targets EXCEPT ![o] = empty]
    BY <1>2, <2>2 DEF ImportsInv, TypeOK, TargetsKept, TargetsMove
  <2> QED
    BY <1>1, <2>1, <2>2
<1>4. ~refused => targets'[o] # None /\ targets'[o].print = print
  BY <1>1, <1>2 DEF ImportsInv, TypeOK
<1>5. Moves(p) /\ budget' \in 0..Budget
  <2>1. CASE \E kind \in {"lost", "garbled"} : Fault(kind) /\ Return(p, Unheard(kind))
    BY <1>1, <2>1, UnheardMoves
  <2>2. CASE UNCHANGED budget /\ IF refused THEN Return(p, "Conflict") ELSE Go(p, "write")
    <3>1. CASE refused
      BY <1>1, <2>2, <3>1, ReturnMoves DEF Errors, ImportsInv, TypeOK
    <3>2. CASE ~refused
      BY <1>1, <1>4, <2>2, <3>2, GoMoves DEF Running, ImportsInv, TypeOK
    <3> QED
      BY <3>1, <3>2
  <2> QED
    BY <2>1, <2>2 DEF PrepareImport, Call, Fingerprint
<1> QED
  BY <1>1, <1>3, <1>5, PublishedStay, LateStays, StepKeeps

\* The next piece of the content.
LEMMA ExtendBegins ==
  ASSUME NEW cells \in Seq(Cell), NEW content \in Seq(Cell), Begins(cells, content),
         Len(cells) < Len(content)
  PROVE  LET more == Append(cells, content[Len(cells) + 1])
         IN more \in Seq(Cell) /\ Begins(more, content)
<1> DEFINE n == Len(cells)
           more == Append(cells, content[n + 1])
<1>1. n \in Nat /\ content[n + 1] \in Cell
  BY ElementOfSeq
<1>2. /\ more \in Seq(Cell) /\ Len(more) = n + 1 /\ more[n + 1] = content[n + 1]
      /\ \A i \in 1..n : more[i] = cells[i]
  BY <1>1
<1> HIDE DEF more
<1>3. Begins(more, content)
  BY <1>1, <1>2 DEF Begins
<1> QED
  BY <1>2, <1>3 DEF more

\* A piece of the content that was prepared, at whatever offset and however
\* often it comes, leaves a beginning of that content.
LEMMA TakeMoves ==
  ASSUME ImportsInv, NEW w \in Write, targets[w.op] # None, PieceOf(w, targets[w.op].print),
         Take(w)
  PROVE  TargetsMove
<1> DEFINE o == w.op
           t == targets[o]
           more == IF w.offset = Len(t.cells) THEN t.cells \o w.bytes ELSE t.cells
           next == [t EXCEPT !.exists = TRUE, !.cells = more]
<1>1. /\ o \in Op /\ w.offset \in Nat /\ w.bytes \in Pieces
      /\ t \in Target /\ t.print \in Seq(Cell) /\ t.cells \in Seq(Cell)
      /\ Begins(t.cells, t.print)
  BY TargetType DEF ImportsInv, TargetsKept, Write
<1>2. more \in Seq(Cell) /\ Begins(more, t.print)
  <2>1. CASE w.offset = Len(t.cells) /\ w.bytes # <<>>
    <3>1. Len(t.cells) < Len(t.print) /\ w.bytes = <<t.print[Len(t.cells) + 1]>>
      BY <2>1 DEF PieceOf
    <3>2. more = Append(t.cells, t.print[Len(t.cells) + 1])
      BY <1>1, <2>1, <3>1
    <3> QED
      BY <1>1, <3>1, <3>2, ExtendBegins
  <2>2. CASE w.offset = Len(t.cells) /\ w.bytes = <<>>
    <3>1. more = t.cells
      BY <1>1, <2>2, ConcatEmptySeq
    <3> QED
      BY <1>1, <3>1
  <2>3. CASE w.offset # Len(t.cells)
    BY <1>1, <2>3
  <2> QED
    BY <2>1, <2>2, <2>3
<1>3. targets' = targets \/ targets' = [targets EXCEPT ![o] = next]
  BY <1>1 DEF Take, ImportsInv, TypeOK
<1> HIDE DEF more
<1>4. next \in Target /\ next.print = t.print /\ next.cells = more
  BY <1>1, <1>2 DEF Target
<1>5. next # None
  BY <1>4, UploadAssumption
<1> HIDE DEF next
<1>6. CASE targets' = targets
  BY <1>6, TargetsStay
<1>7. CASE targets' = [targets EXCEPT ![o] = next]
  BY <1>1, <1>2, <1>4, <1>5, <1>7 DEF ImportsInv, TypeOK, TargetsKept, TargetsMove
<1> QED
  BY <1>3, <1>6, <1>7

\* What an attempt sends is a piece of what its target was prepared for.
LEMMA ChunkIs ==
  ASSUME ImportsInv, NEW p \in Proc, Is(p, "write"), Sends(p)
  PROVE  /\ Chunk(p) \in Write /\ Chunk(p).op = OpOf[p]
         /\ targets[OpOf[p]] # None /\ PieceOf(Chunk(p), targets[OpOf[p]].print)
<1> DEFINE a == attempts[p]
           bytes == IF a.spool = <<>> THEN <<>> ELSE <<a.spool[a.offset + 1]>>
<1>1. /\ OpOf[p] \in Op /\ a.spool \in Seq(Cell) /\ a.offset \in Nat
      /\ targets[OpOf[p]] # None /\ targets[OpOf[p]].print = a.spool
  BY AttemptType DEF ImportsInv, AttemptKept, Is
<1>2. Chunk(p).op = OpOf[p] /\ Chunk(p).offset = a.offset /\ Chunk(p).bytes = bytes
  BY DEF Chunk
<1>3. CASE a.spool = <<>>
  <2>1. bytes = <<>> /\ bytes \in Pieces
    BY <1>3 DEF Pieces
  <2> QED
    BY <1>1, <1>2, <2>1 DEF PieceOf, Write, Chunk
<1>4. CASE a.spool # <<>>
  <2>1. a.offset < Len(a.spool)
    BY <1>1, <1>4, EmptySeq DEF Sends
  <2>2. a.spool[a.offset + 1] \in Cell
    BY <1>1, <2>1, ElementOfSeq
  <2>3. bytes = <<a.spool[a.offset + 1]>> /\ bytes \in Pieces
    BY <1>4, <2>2 DEF Pieces
  <2> QED
    BY <1>1, <1>2, <2>1, <2>3 DEF PieceOf, Write, Chunk
<1> QED
  BY <1>3, <1>4

LEMMA WriteChunkKeeps ==
  ASSUME ImportsInv, NEW p \in Proc, WriteChunk(p)
  PROVE  ImportsInv'
<1> DEFINE w == Chunk(p)
<1>1. /\ attempts[p] # None /\ attempts[p].pc = "write" /\ attempts[p].pc \in Running
      /\ Is(p, "write") /\ Sends(p) /\ UNCHANGED published
  BY DEF WriteChunk, Is, Running
<1>2. /\ w \in Write /\ w.op = OpOf[p]
      /\ targets[OpOf[p]] # None /\ PieceOf(w, targets[OpOf[p]].print)
  BY <1>1, ChunkIs
<1>3. Refused(w) # None => Refused(w) \in Errors /\ Refused(w) # "Ok"
  BY DEF Refused, Errors
<1> HIDE DEF w
<1>4. CASE /\ Call(p, Take(w), IF Refused(w) # None THEN Return(p, Refused(w)) ELSE Acknowledged(p))
           /\ UNCHANGED late
  <2>1. Take(w)
    BY <1>4 DEF Call
  <2>2. TargetsMove
    BY <1>2, <2>1, TakeMoves
  <2>3. Moves(p) /\ budget' \in 0..Budget
    <3>1. CASE \E kind \in {"lost", "garbled"} : Fault(kind) /\ Return(p, Unheard(kind))
      BY <1>1, <3>1, UnheardMoves
    <3>2. CASE Refused(w) # None /\ Return(p, Refused(w)) /\ UNCHANGED budget
      BY <1>1, <1>3, <3>2, ReturnMoves DEF ImportsInv, TypeOK
    <3>3. CASE Acknowledged(p) /\ UNCHANGED budget
      <4> DEFINE a == [attempts[p] EXCEPT !.offset = attempts[p].offset + 1]
      <4>1. attempts' = [attempts EXCEPT ![p] = a]
        BY <3>3 DEF Acknowledged
      <4>2. /\ attempts[p] \in Attempt /\ ~attempts[p].applied
            /\ attempts[p].spool = targets[OpOf[p]].print /\ OpOf[p] \in Op
        BY <1>1, AttemptType DEF ImportsInv, AttemptKept
      <4>3. /\ a \in Attempt /\ a.pc = "write" /\ a.spool = attempts[p].spool /\ ~a.applied
        BY <1>1, <4>2 DEF Attempt
      <4> HIDE DEF a
      <4>4. targets'[OpOf[p]] # None /\ targets'[OpOf[p]].print = a.spool
        BY <1>2, <2>2, <4>2, <4>3 DEF TargetsMove
      <4> QED
        BY <3>3, <4>1, <4>3, <4>4, BecomesMoves DEF ImportsInv, TypeOK
    <3> QED
      BY <1>4, <3>1, <3>2, <3>3 DEF Call
  <2> QED
    BY <1>1, <1>4, <2>2, <2>3, PublishedStay, LateStays, StepKeeps
<1>5. CASE /\ Fault("late") /\ late' = late \cup {w}
           /\ Return(p, "Unknown") /\ UNCHANGED targets
  <2>1. TargetsMove /\ budget' \in 0..Budget /\ Moves(p)
    BY <1>1, <1>5, TargetsStay, FaultTyped, ReturnMoves DEF ImportsInv, Errors
  <2>2. LateMoves
    BY <1>2, <1>5 DEF ImportsInv, TypeOK, LateMoves, LateKept
  <2> QED
    BY <1>1, <2>1, <2>2, PublishedStay, StepKeeps
<1> QED
  BY <1>4, <1>5 DEF WriteChunk, w

LEMMA AllSentKeeps ==
  ASSUME ImportsInv, NEW p \in Proc, AllSent(p)
  PROVE  ImportsInv'
<1>1. /\ attempts[p] # None /\ attempts[p].pc = "write" /\ attempts[p].pc \in Running
      /\ "verify" \in Running /\ Go(p, "verify")
      /\ UNCHANGED <<targets, published, late>> /\ budget' \in 0..Budget
  BY DEF AllSent, Is, Running, ImportsInv, TypeOK
<1>2. targets[OpOf[p]] # None /\ targets[OpOf[p]].print = attempts[p].spool
  BY <1>1 DEF ImportsInv, AttemptKept
<1> QED
  BY <1>1, <1>2, GoMoves, QuietKeeps

LEMMA VerifyKeeps ==
  ASSUME ImportsInv, NEW p \in Proc, Verify(p)
  PROVE  ImportsInv'
<1>1. /\ attempts[p] # None /\ attempts[p].pc = "verify" /\ attempts[p].pc \in Running
      /\ "commit" \in Running /\ UNCHANGED <<targets, published, late>>
  BY DEF Verify, Is, Running
<1>2. targets[OpOf[p]] # None /\ targets[OpOf[p]].print = attempts[p].spool
  BY <1>1 DEF ImportsInv, AttemptKept
<1>3. CASE \E kind \in {"lost", "garbled"} : Fault(kind) /\ Return(p, Unheard(kind))
  BY <1>1, <1>3, UnheardMoves, QuietKeeps
<1>4. CASE /\ UNCHANGED budget
           /\ Return(p, "Fenced") \/ Return(p, "Integrity") \/ Go(p, "commit")
  <2>1. Moves(p)
    BY <1>1, <1>2, <1>4, ReturnMoves, GoMoves DEF Errors
  <2> QED
    BY <1>1, <1>4, <2>1, QuietKeeps DEF ImportsInv, TypeOK
<1> QED
  BY <1>3, <1>4 DEF Verify, Call

\* commit_import: what is sealed is the whole content that was prepared.
LEMMA CommitImportKeeps ==
  ASSUME ImportsInv, NEW p \in Proc, CommitImport(p)
  PROVE  ImportsInv'
<1> DEFINE o == OpOf[p]
           t == targets[o]
           commits == At(o) = None /\ t.exists /\ Fingerprint(t.cells) = t.print
           file == [op |-> o, cells |-> t.cells]
           reply == IF commits \/ IsPublished(o) THEN "Ok"
                    ELSE IF At(o) # None THEN "Conflict" ELSE "Integrity"
           a(result) == [attempts[p] EXCEPT !.pc = "end", !.applied = commits, !.result = result]
<1>1. /\ attempts[p] # None /\ attempts[p].pc = "commit" /\ attempts[p].pc \in Running
      /\ UNCHANGED targets /\ UNCHANGED late
      /\ published' = IF commits THEN [published EXCEPT ![PathOf[o]] = file] ELSE published
      /\ \/ attempts' = [attempts EXCEPT ![p] = a(reply)] /\ UNCHANGED budget
         \/ \E kind \in {"lost", "garbled"} :
              Fault(kind) /\ attempts' = [attempts EXCEPT ![p] = a("Unknown")]
  BY DEF CommitImport, Is, Running, Unheard
<1>2. /\ o \in Op /\ PathOf[o] \in Path /\ attempts[p] \in Attempt
      /\ t # None /\ t.print = attempts[p].spool /\ t.print \in Contents
      /\ published \in [Path -> Published \cup {None}]
  BY <1>1, AttemptType, TargetType DEF ImportsInv, AttemptKept, TypeOK
<1>3. commits => file \in Published /\ file # None /\ file.op = o /\ file.cells = t.print
  BY <1>2, UploadAssumption DEF Published, Fingerprint
<1>4. commits \in BOOLEAN /\ reply \in Errors
  BY DEF Errors
<1>5. TargetsMove /\ LateMoves /\ budget' \in 0..Budget
  BY <1>1, TargetsStay, LateStays, FaultTyped DEF ImportsInv, TypeOK
<1>6. reply = "Ok" => At(o)' = [op |-> o, cells |-> attempts[p].spool]
  <2>1. CASE commits
    BY <1>1, <1>2, <1>3, <2>1 DEF At
  <2>2. CASE ~commits /\ IsPublished(o)
    <3>1. At(o) = [op |-> o, cells |-> attempts[p].spool]
      BY <1>1, <1>2, <2>2, PublishedIs
    <3> QED
      BY <1>1, <2>2, <3>1 DEF At
  <2> QED
    BY <2>1, <2>2
<1>7. PublishedMoves
  <2>1. CASE ~commits
    BY <1>1, <1>5, <2>1, PublishedStay
  <2>2. CASE commits
    <3>1. published' = [published EXCEPT ![PathOf[o]] = file] /\ published[PathOf[o]] = None
      BY <1>1, <2>2 DEF At
    <3> HIDE DEF file, commits
    <3>2. \A x \in Path : x # PathOf[o] => published'[x] = published[x]
      BY <1>2, <3>1
    <3>3. published'[PathOf[o]] = file /\ published' \in [Path -> Published \cup {None}]
      BY <1>2, <1>3, <2>2, <3>1
    <3>4. PublishedKept'
      <4> SUFFICES ASSUME NEW x \in Path, published'[x] # None
                   PROVE  /\ PathOf[published'[x].op] = x /\ targets[published'[x].op] # None
                          /\ published'[x].cells = targets[published'[x].op].print
        BY <1>1 DEF PublishedKept
      <4>1. CASE x = PathOf[o]
        BY <1>2, <1>3, <2>2, <3>3, <4>1
      <4>2. CASE x # PathOf[o]
        BY <3>2, <4>2 DEF ImportsInv, PublishedKept
      <4> QED
        BY <4>1, <4>2
    <3> QED
      BY <3>1, <3>2, <3>3, <3>4 DEF PublishedMoves
  <2> QED
    BY <2>1, <2>2
<1>8. ASSUME NEW result \in {reply, "Unknown"}, attempts' = [attempts EXCEPT ![p] = a(result)]
      PROVE  Moves(p)
  <2>1. result \in Errors /\ (commits => result \in {"Ok", "Unknown"})
    BY <1>4 DEF Errors
  <2>2. result = "Ok" => At(o)' = [op |-> o, cells |-> attempts[p].spool]
    BY <1>6
  <2>3. /\ a(result) \in Attempt /\ a(result).pc = "end" /\ a(result).applied = commits
        /\ a(result).result = result /\ a(result).spool = attempts[p].spool
    BY <1>2, <1>4, <2>1 DEF Attempt
  <2>4. "end" \notin Running
    BY DEF Running
  <2> HIDE DEF a, commits, reply
  <2> QED
    BY <1>8, <2>1, <2>2, <2>3, <2>4, BecomesMoves
<1>9. Moves(p)
  BY <1>1, <1>8
<1> QED
  BY <1>5, <1>7, <1>9, StepKeeps

LEMMA ArriveKeeps ==
  ASSUME ImportsInv, NEW w \in late, Arrive(w)
  PROVE  ImportsInv'
<1>1. /\ w \in Write /\ targets[w.op] # None /\ PieceOf(w, targets[w.op].print)
      /\ Take(w) /\ late' \subseteq late
      /\ UNCHANGED published /\ UNCHANGED attempts /\ budget' \in 0..Budget
  BY DEF Arrive, ImportsInv, TypeOK, LateKept
<1>2. TargetsMove
  BY <1>1, TakeMoves
<1> QED
  BY <1>1, <1>2, PublishedStay, LateStays, StepKeeps

\* The worker forgets the end of what it holds, which leaves a beginning.
LEMMA ForgetKeeps ==
  ASSUME ImportsInv, NEW o \in Op, Forget(o)
  PROVE  ImportsInv'
<1> DEFINE t == targets[o]
           front == SubSeq(t.cells, 1, Len(t.cells) - 1)
           next == [t EXCEPT !.cells = front]
<1>1. /\ t # None /\ t.cells # <<>> /\ targets' = [targets EXCEPT ![o] = next]
      /\ UNCHANGED published /\ UNCHANGED attempts /\ late' \subseteq late
      /\ budget' \in 0..Budget
  BY FaultTyped DEF Forget, Front, ImportsInv
<1>2. /\ t \in Target /\ t.print \in Seq(Cell) /\ t.cells \in Seq(Cell)
      /\ Begins(t.cells, t.print)
  BY <1>1, TargetType DEF ImportsInv, TargetsKept
<1>3. Len(t.cells) \in Nat \ {0}
  BY <1>1, <1>2, EmptySeq
<1>4. \A i \in 1..(Len(t.cells) - 1) : t.cells[i] \in Cell
  BY <1>2, <1>3, ElementOfSeq
<1>5. /\ front \in Seq(Cell) /\ Len(front) = Len(t.cells) - 1
      /\ \A i \in 1..(Len(t.cells) - 1) : front[i] = t.cells[i]
  BY <1>3, <1>4, SubSeqProperties
<1> HIDE DEF front
<1>6. Begins(front, t.print)
  BY <1>2, <1>3, <1>5 DEF Begins
<1>7. next \in Target /\ next.print = t.print /\ next.cells = front
  BY <1>2, <1>5 DEF Target
<1>8. next # None
  BY <1>7, UploadAssumption
<1> HIDE DEF next
<1>9. TargetsMove
  BY <1>1, <1>6, <1>7, <1>8 DEF ImportsInv, TypeOK, TargetsKept, TargetsMove
<1> QED
  BY <1>1, <1>9, PublishedStay, LateStays, StepKeeps

-----------------------------------------------------------------------------

LEMMA ImportsStart == Init => ImportsInv
<1> SUFFICES ASSUME Init PROVE ImportsInv
  OBVIOUS
<1>1. TypeOK
  BY UploadAssumption DEF Init, TypeOK
<1> QED
  BY <1>1 DEF Init, ImportsInv, TargetsKept, PublishedKept, LateKept

LEMMA NextKeeps == ImportsInv /\ [Next]_vars => ImportsInv'
<1> SUFFICES ASSUME ImportsInv, [Next]_vars PROVE ImportsInv'
  OBVIOUS
<1>1. ASSUME NEW p \in Proc, Start(p) \/ Dropped(p) \/ Die(p) PROVE ImportsInv'
  BY <1>1, StartKeeps, EndsKeep
<1>2. ASSUME NEW p \in Proc, Step(p) PROVE ImportsInv'
  BY <1>2, CompletedImportKeeps, PrepareImportKeeps, WriteChunkKeeps, AllSentKeeps,
     VerifyKeeps, CommitImportKeeps DEF Step
<1>3. ASSUME NEW w \in late, Arrive(w) PROVE ImportsInv'
  BY <1>3, ArriveKeeps
<1>4. ASSUME NEW o \in Op, Forget(o) PROVE ImportsInv'
  BY <1>4, ForgetKeeps
<1>5. CASE UNCHANGED vars
  BY <1>5, QuietKeeps DEF vars, ImportsInv, TypeOK
<1> QED
  BY <1>1, <1>2, <1>3, <1>4, <1>5 DEF Next

LEMMA ImportsSafe == Spec => []ImportsInv
BY ImportsStart, NextKeeps, PTL DEF Spec

\* The cells of a target are a beginning of what each attempt was given.
LEMMA AttemptsAgree == ImportsInv => TargetsAgree
<1> SUFFICES ASSUME ImportsInv, NEW p \in Proc, Is(p, "write") \/ Is(p, "verify")
             PROVE  IsPrefix(targets[OpOf[p]].cells, attempts[p].spool)
  BY DEF TargetsAgree
<1> DEFINE cells == targets[OpOf[p]].cells
           content == attempts[p].spool
<1>1. /\ OpOf[p] \in Op /\ content \in Seq(Cell)
      /\ targets[OpOf[p]] # None /\ targets[OpOf[p]].print = content
  BY AttemptType DEF ImportsInv, AttemptKept, Is
<1>2. cells \in Seq(Cell) /\ Begins(cells, content)
  BY <1>1, TargetType DEF ImportsInv, TargetsKept
<1> HIDE DEF cells, content
<1>3. Len(cells) \in Nat /\ Len(content) \in Nat /\ Len(cells) <= Len(content)
  BY <1>1, <1>2 DEF Begins
<1>4. /\ \A i \in 1..Len(cells) : cells[i] \in Cell
      /\ \A i \in 1..Len(cells) : content[i] \in Cell
  BY <1>1, <1>2, <1>3, ElementOfSeq
<1>5. SubSeq(cells, 1, Len(cells)) = SubSeq(content, 1, Len(cells))
  <2>1. /\ SubSeq(content, 1, Len(cells)) \in Seq(Cell)
        /\ Len(SubSeq(content, 1, Len(cells))) = Len(cells)
        /\ \A i \in 1..Len(cells) : SubSeq(content, 1, Len(cells))[i] = content[i]
    BY <1>3, <1>4, SubSeqProperties
  <2>2. SubSeq(cells, 1, Len(cells)) = cells
    BY <1>2, SubSeqFull
  <2>3. cells = SubSeq(content, 1, Len(cells))
    BY <1>2, <2>1, SeqEqual DEF Begins
  <2> QED
    BY <2>2, <2>3
<1> QED
  BY <1>3, <1>5 DEF IsPrefix, cells, content

(***************************************************************************)
(* Attempts of an import never spoil each other's target: write_target     *)
(* repeats and late writes of CurvineDataMover::upload leave a beginning   *)
(* of what every attempt past prepare_import is sending.                   *)
(***************************************************************************)
THEOREM UploadsSafe == Spec => []UploadsInv
<1>1. ImportsInv => UploadsInv
  BY AttemptsAgree DEF ImportsInv, UploadsInv
<1> QED
  BY <1>1, ImportsSafe, PTL

(***************************************************************************)
(* An attempt of import_file that returns Ok has published the content of  *)
(* its own spool, by its own commit or by that of another attempt.         *)
(***************************************************************************)
THEOREM OkIsPublished == Spec => []OkPublishedThis
<1>1. ImportsInv => OkPublishedThis
  BY DEF ImportsInv, AttemptKept, OkPublishedThis, Is
<1> QED
  BY <1>1, ImportsSafe, PTL

(***************************************************************************)
(* Of an attempt whose commit_import took effect the caller hears Ok, or   *)
(* Unknown, which tells it to ask again.                                   *)
(***************************************************************************)
THEOREM AppliedIsHeard == Spec => []AppliedIsNotRefused
<1>1. ImportsInv => AppliedIsNotRefused
  BY DEF ImportsInv, AttemptKept, AppliedIsNotRefused, Is
<1> QED
  BY <1>1, ImportsSafe, PTL

(***************************************************************************)
(* Imports are create-only: no attempt, late write or fault makes a path   *)
(* that names a file name another, or another content.                     *)
(***************************************************************************)
THEOREM PathsAreKept ==
  Spec => [][\A x \in Path : published[x] # None => published'[x] = published[x]]_vars
<1>1. ASSUME ImportsInv, Next, NEW x \in Path, published[x] # None
      PROVE  published'[x] = published[x]
  <2>1. CASE UNCHANGED published
    BY <2>1
  <2>2. ASSUME NEW p \in Proc, CommitImport(p) PROVE published'[x] = published[x]
    <3>1. published' = published \/ (At(OpOf[p]) = None /\
            \E file : published' = [published EXCEPT ![PathOf[OpOf[p]]] = file])
      BY <2>2 DEF CommitImport
    <3> QED
      BY <1>1, <3>1 DEF At, ImportsInv, TypeOK
  <2> QED
    BY <1>1, <2>1, <2>2
       DEF Next, Step, Start, Dropped, Die, CompletedImport, PrepareImport, WriteChunk, AllSent,
           Verify, Arrive, Forget
<1>2. ImportsInv /\ [Next]_vars =>
        [\A x \in Path : published[x] # None => published'[x] = published[x]]_vars
  BY <1>1
<1> QED
  BY <1>2, ImportsSafe, PTL DEF Spec
=============================================================================
