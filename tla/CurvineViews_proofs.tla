------------------------- MODULE CurvineViews_proofs -------------------------
(***************************************************************************)
(* A read that succeeded has written the version it resolved, whole, and   *)
(* nobody's file is replaced, for any number of readers, outputs and       *)
(* versions and files of any length.                                       *)
(***************************************************************************)
EXTENDS CurvineViews, SequenceTheorems, TLAPS

\* The contents of versions are sequences of their chunks.
LEMMA ContentType ==
  ASSUME NEW v \in Version
  PROVE  /\ Content(v) \in Seq(Chunk) /\ Len(Content(v)) = Lengths[v]
         /\ DOMAIN Content(v) = 1..Lengths[v]
         /\ \A i \in 1..Lengths[v] : Content(v)[i] \in Chunk
<1>1. Lengths[v] \in Nat /\ v \in Chunk
  BY ViewAssumption DEF Version, Chunk
<1> QED
  BY <1>1 DEF Content

\* Nothing has been opened or made.
LEMMA ReadsStart == Init => ViewsInv
<1> SUFFICES ASSUME Init PROVE ViewsInv
  OBVIOUS
<1>1. 1 \in Version
  BY ViewAssumption DEF Version
<1>2. <<>> \in Seq(Chunk)
  OBVIOUS
<1>3. readers \in [Proc -> Reader]
  BY <1>1, <1>2 DEF Init, Reader, Phase
<1>4. TypeOK
  BY <1>1, <1>3, ViewAssumption DEF Init, TypeOK
<1>5. \A p \in Proc : readers[p].pc = "exists"
  BY DEF Init
<1> QED
  BY <1>4, <1>5 DEF ViewsInv, ReadIsExact, Is

(***************************************************************************)
(* A step of reader p that leaves the outputs alone and neither begins to  *)
(* write nor succeeds.                                                     *)
(***************************************************************************)
Advances(p) ==
  /\ outputs' = outputs
  /\ readers' \in [Proc -> Reader]
  /\ \A q \in Proc \ {p} : readers'[q] = readers[q]
  /\ readers'[p].pc # "write"
  /\ readers'[p].pc = "create" => readers'[p].spool = Content(readers'[p].data)
  /\ readers'[p].pc = "end" => readers'[p].result # "Ok"

\* The server's variables after any step keep their types.
ServerTyped ==
  /\ version' \in Version /\ placed' \in BOOLEAN /\ freed' \subseteq Version
  /\ views' \in [Op -> Version \cup {None}]
  /\ closed' \subseteq Op
  /\ budget' \in 0..Budget

LEMMA AdvanceKeeps ==
  ASSUME ViewsInv, NEW p \in Proc, Advances(p), ServerTyped PROVE ViewsInv'
<1>1. TypeOK'
  BY DEF ViewsInv, TypeOK, Advances, ServerTyped
<1>2. ASSUME NEW q \in Proc
      PROVE  /\ readers'[q].pc \in {"create", "write"} =>
                  readers'[q].spool = Content(readers'[q].data)
             /\ Is(q, "write")' => Writing(q)'
  <2>1. CASE q = p
    BY <2>1 DEF Advances, Is
  <2>2. CASE q # p
    <3>1. readers'[q] = readers[q] /\ outputs' = outputs
      BY <2>2 DEF Advances
    <3> QED
      BY <3>1 DEF ViewsInv, Is, Writing
  <2> QED
    BY <2>1, <2>2
<1>3. ReadIsExact'
  <2> SUFFICES ASSUME NEW q \in Proc, readers'[q].pc = "end", readers'[q].result = "Ok"
               PROVE  outputs'[OutputOf[q]] = [by |-> q, data |-> Content(readers'[q].data)]
    BY DEF ReadIsExact, Is
  <2>1. q # p /\ readers'[q] = readers[q] /\ outputs' = outputs
    BY DEF Advances
  <2> QED
    BY <2>1 DEF ViewsInv, ReadIsExact, Is
<1> QED
  BY <1>1, <1>2, <1>3 DEF ViewsInv

LEMMA GoAdvances ==
  ASSUME TypeOK, NEW p \in Proc, UNCHANGED outputs,
         NEW pc \in Phase, Go(p, pc), pc # "write",
         pc = "create" => readers[p].spool = Content(readers[p].data)
  PROVE  Advances(p)
<1>1. readers[p] \in Reader
  BY DEF TypeOK
<1>2. readers'[p] = [readers[p] EXCEPT !.pc = pc]
  BY DEF Go, TypeOK
<1>3. /\ readers'[p] \in Reader /\ readers'[p].pc = pc
      /\ readers'[p].spool = readers[p].spool /\ readers'[p].data = readers[p].data
  BY <1>1, <1>2 DEF Reader
<1>4. pc # "end"
  BY DEF Phase
<1> QED
  BY <1>3, <1>4 DEF Advances, Go, TypeOK

LEMMA ReturnAdvances ==
  ASSUME TypeOK, NEW p \in Proc, UNCHANGED outputs,
         NEW result \in Errors \cup {None}, result # "Ok", Return(p, result)
  PROVE  Advances(p)
<1>1. readers[p] \in Reader
  BY DEF TypeOK
<1>2. readers'[p] = [readers[p] EXCEPT !.pc = "end", !.result = result]
  BY DEF Return, TypeOK
<1>3. readers'[p] \in Reader /\ readers'[p].pc = "end" /\ readers'[p].result = result
  BY <1>1, <1>2 DEF Reader
<1> QED
  BY <1>3 DEF Advances, Return, TypeOK

LEMMA CopiedAdvances ==
  ASSUME TypeOK, NEW p \in Proc, UNCHANGED outputs,
         NEW error \in Errors, Copied(p, error)
  PROVE  Advances(p)
<1>1. readers[p] \in Reader
  BY DEF TypeOK
<1>2. readers'[p] = [readers[p] EXCEPT !.pc = "close", !.copied = error]
  BY DEF Copied, TypeOK
<1>3. readers'[p] \in Reader /\ readers'[p].pc = "close"
  BY <1>1, <1>2 DEF Reader, Phase
<1> QED
  BY <1>3 DEF Advances, Copied, TypeOK

-----------------------------------------------------------------------------

\* A fault is counted.
LEMMA FaultTyped ==
  ASSUME TypeOK, NEW kind, Fault(kind) PROVE budget' \in 0..Budget
BY ViewAssumption DEF TypeOK, Fault

LEMMA BeforeOpen ==
  ASSUME ViewsInv, NEW p \in Proc, OutputExists(p) \/ Resolve(p) PROVE ViewsInv'
<1> USE DEF ViewsInv
<1>1. CASE OutputExists(p)
  <2>1. Advances(p)
    <3>1. CASE outputs[OutputOf[p]] # None
      BY <1>1, <3>1, ReturnAdvances DEF OutputExists, Errors
    <3>2. CASE outputs[OutputOf[p]] = None
      BY <1>1, <3>2, GoAdvances DEF OutputExists, Phase
    <3> QED
      BY <3>1, <3>2
  <2>2. ServerTyped
    BY <1>1 DEF OutputExists, TypeOK, ServerTyped, server
  <2> QED
    BY <2>1, <2>2, AdvanceKeeps
<1>2. CASE Resolve(p)
  <2>1. Advances(p)
    <3>1. CASE readers' = [readers EXCEPT ![p].pc = "open", ![p].data = version]
      <4>1. readers[p] \in Reader /\ version \in Version
        BY DEF TypeOK
      <4>2. readers'[p] = [readers[p] EXCEPT !.pc = "open", !.data = version]
        BY <3>1 DEF TypeOK
      <4>3. readers'[p] \in Reader /\ readers'[p].pc = "open"
        BY <4>1, <4>2 DEF Reader, Phase
      <4> QED
        BY <1>2, <3>1, <4>3 DEF Advances, Resolve, TypeOK
    <3>2. CASE Return(p, "Unknown")
      BY <1>2, <3>2, ReturnAdvances DEF Resolve, Errors
    <3> QED
      BY <1>2, <3>1, <3>2 DEF Resolve
  <2>2. ServerTyped
    BY <1>2, FaultTyped DEF Resolve, TypeOK, ServerTyped, server
  <2> QED
    BY <2>1, <2>2, AdvanceKeeps
<1> QED
  BY <1>1, <1>2

LEMMA Opens ==
  ASSUME ViewsInv, NEW p \in Proc, OpenView(p) PROVE ViewsInv'
<1> USE DEF ViewsInv
<1> DEFINE o == OpOf[p]
           error == CASE o \in closed -> "Fenced"
                      [] views[o] # None ->
                           IF views[o] = readers[p].data THEN "Ok" ELSE "Conflict"
                      [] readers[p].data # version -> "Conflict"
                      [] OTHER -> IF placed THEN "Ok" ELSE "Busy"
<1>1. error \in Errors
  BY DEF Errors
<1>2. readers[p].data \in Version
  BY DEF TypeOK, Reader
<1>3. /\ views' = (IF error = "Ok" THEN [views EXCEPT ![o] = readers[p].data] ELSE views)
           \/ views' = views
      /\ \/ error # "Ok" /\ Return(p, error)
         \/ Go(p, "locate") \/ Go(p, "read")
         \/ Return(p, "Unknown")
      /\ UNCHANGED budget \/ Fault("lost") \/ Fault("drop")
      /\ UNCHANGED <<version, placed, freed, closed, outputs>>
  BY DEF OpenView
<1> HIDE DEF error
<1>4. Advances(p)
  BY <1>1, <1>3, GoAdvances, ReturnAdvances DEF Errors, Phase
<1>5. views' \in [Op -> Version \cup {None}]
  BY <1>2, <1>3 DEF TypeOK
<1>6. budget' \in 0..Budget
  BY <1>3, FaultTyped DEF TypeOK
<1>7. ServerTyped
  BY <1>3, <1>5, <1>6 DEF ServerTyped, TypeOK
<1> QED
  BY <1>4, <1>7, AdvanceKeeps

LEMMA Locates ==
  ASSUME ViewsInv, NEW p \in Proc, Locate(p) PROVE ViewsInv'
<1>1. Advances(p)
  <2>1. UNCHANGED outputs /\ (Copied(p, "Fenced") \/ Go(p, "read") \/ Copied(p, "Unknown"))
    BY DEF Locate
  <2> QED
    BY <2>1, GoAdvances, CopiedAdvances DEF ViewsInv, Errors, Phase
<1>2. ServerTyped
  BY DEF Locate, ViewsInv, TypeOK, ServerTyped, server
<1> QED
  BY <1>1, <1>2, AdvanceKeeps

\* What is at a position is nothing, or a chunk.
LEMMA ChunkRead ==
  ASSUME TypeOK, NEW p \in Proc, NEW i \in Nat \ {0}, NEW bytes \in At(p, i)
  PROVE  bytes = <<>> \/ \E c \in Chunk : bytes = <<c>>
<1> DEFINE content == Content(readers[p].data)
           held == IF i \in DOMAIN content THEN <<content[i]>> ELSE <<>>
<1>1. readers[p].data \in Version
  BY DEF TypeOK, Reader
<1>2. \A n \in DOMAIN content : content[n] \in Chunk
  BY <1>1, ContentType
<1> HIDE DEF content
<1>3. held = <<>> \/ \E c \in Chunk : held = <<c>>
  BY <1>2
<1>4. <<0>> = <<>> \/ \E c \in Chunk : <<0>> = <<c>>
  BY DEF Chunk
<1>5. bytes \in {held, <<0>>}
  BY DEF At, content
<1> HIDE DEF held
<1> QED
  BY <1>3, <1>4, <1>5

LEMMA Reads ==
  ASSUME ViewsInv, NEW p \in Proc, ReadChunk(p) PROVE ViewsInv'
<1> USE DEF ViewsInv
<1> DEFINE i == Len(readers[p].spool) + 1
<1>1. readers[p] \in Reader /\ readers[p].spool \in Seq(Chunk) /\ i \in Nat \ {0}
  BY DEF TypeOK, Reader
<1>2. UNCHANGED outputs /\ Is(p, "read")
  BY DEF ReadChunk
<1> DEFINE Appends(bytes) == readers' = [readers EXCEPT ![p].spool = @ \o bytes]
<1>3. \/ \E bytes \in At(p, i) : bytes # <<>> /\ Appends(bytes)
      \/ Copied(p, "Ok") \/ Copied(p, "Integrity") \/ Copied(p, "Fenced") \/ Copied(p, "Unknown")
  BY DEF ReadChunk
<1>4. ASSUME \E bytes \in At(p, i) : bytes # <<>> /\ Appends(bytes)
      PROVE  Advances(p)
  <2>1. PICK bytes \in At(p, i) : bytes # <<>> /\ Appends(bytes)
    BY <1>4
  <2>2. PICK c \in Chunk : bytes = <<c>>
    BY <1>1, <2>1, ChunkRead
  <2>3. readers[p].spool \o bytes \in Seq(Chunk)
    BY <1>1, <2>2
  <2>4. readers'[p] = [readers[p] EXCEPT !.spool = @ \o bytes]
    BY <2>1 DEF TypeOK
  <2>5. readers'[p] \in Reader /\ readers'[p].pc = "read"
    BY <1>1, <1>2, <2>3, <2>4 DEF Reader, Is
  <2> QED
    BY <1>2, <2>1, <2>5 DEF Advances, TypeOK
<1> HIDE DEF Appends
<1>5. Advances(p)
  BY <1>2, <1>3, <1>4, CopiedAdvances DEF Errors
<1>6. ServerTyped
  BY DEF ReadChunk, TypeOK, ServerTyped, server
<1> QED
  BY <1>5, <1>6, AdvanceKeeps

\* The only way to an output is a spool that was found exact.
LEMMA Closes ==
  ASSUME ViewsInv, NEW p \in Proc, CloseView(p) PROVE ViewsInv'
<1> USE DEF ViewsInv
<1>1. /\ UNCHANGED <<version, placed, freed, outputs>>
      /\ \/ UNCHANGED views
         \/ views' = [views EXCEPT ![OpOf[p]] = None]
      /\ closed' = closed \/ closed' = closed \cup {OpOf[p]}
      /\ UNCHANGED budget \/ Fault("lost") \/ Fault("drop")
      /\ Judged(p) \/ Return(p, "Unknown")
  BY DEF CloseView
<1>2. readers[p].copied \in Errors \cup {None}
  BY DEF TypeOK, Reader
<1>3. \/ readers[p].copied # "Ok" /\ Return(p, readers[p].copied)
      \/ Return(p, "Integrity") \/ Return(p, "Unknown")
      \/ Exact(p) /\ Go(p, "create")
  BY <1>1 DEF Judged
<1>4. Advances(p)
  BY <1>1, <1>2, <1>3, GoAdvances, ReturnAdvances DEF Errors, Phase, Exact
<1>5. ServerTyped
  BY SMTT(20), <1>1, FaultTyped, ViewAssumption DEF TypeOK, ServerTyped
<1> QED
  BY <1>4, <1>5, AdvanceKeeps

-----------------------------------------------------------------------------

\* A file that is made where none was disturbs no reader that is writing.
LEMMA FilesMade ==
  ASSUME ViewsInv, NEW x \in Output, NEW f \in File, outputs[x] = None,
         outputs' = [outputs EXCEPT ![x] = f]
  PROVE  /\ outputs' \in [Output -> File \cup {None}]
         /\ \A p \in Proc : Is(p, "write") => outputs'[OutputOf[p]] = outputs[OutputOf[p]]
         /\ \A p \in Proc : outputs[OutputOf[p]] # None
              => outputs'[OutputOf[p]] = outputs[OutputOf[p]]
<1>1. \A p \in Proc : Is(p, "write") => outputs[OutputOf[p]] # None
  BY DEF ViewsInv, Writing
<1>2. \A p \in Proc : OutputOf[p] \in Output
  BY ViewAssumption
<1> QED
  BY <1>1, <1>2 DEF ViewsInv, TypeOK

LEMMA Creates ==
  ASSUME ViewsInv, NEW p \in Proc, Create(p) PROVE ViewsInv'
<1> USE DEF ViewsInv
<1>0. UNCHANGED <<server, budget>> /\ Is(p, "create") /\ OutputOf[p] \in Output
  BY ViewAssumption DEF Create
<1>s. ServerTyped
  BY <1>0 DEF TypeOK, ServerTyped, server
<1>1. CASE outputs[OutputOf[p]] # None
  <2>1. Return(p, "Conflict") /\ UNCHANGED outputs
    BY <1>1 DEF Create, CreateNew
  <2>2. Advances(p)
    BY <2>1, ReturnAdvances DEF Errors
  <2> QED
    BY <1>s, <2>2, AdvanceKeeps
<1>2. CASE outputs[OutputOf[p]] = None
  <2> DEFINE f == [by |-> p, data |-> <<>>]
  <2>1. outputs' = [outputs EXCEPT ![OutputOf[p]] = f] /\ Go(p, "write")
    BY <1>2 DEF Create, CreateNew
  <2>2. f \in File /\ f.by = p /\ f.data = <<>>
    BY DEF File
  <2> HIDE DEF f
  <2>3. readers[p] \in Reader
    BY DEF TypeOK
  <2>4. readers'[p] = [readers[p] EXCEPT !.pc = "write"]
    BY <2>1 DEF Go, TypeOK
  <2>5. /\ readers'[p] \in Reader /\ readers'[p].pc = "write"
        /\ readers'[p].spool = readers[p].spool /\ readers'[p].data = readers[p].data
    BY <2>3, <2>4 DEF Reader, Phase
  <2>6. readers' \in [Proc -> Reader] /\ \A q \in Proc \ {p} : readers'[q] = readers[q]
    BY <2>1, <2>5 DEF Go, TypeOK
  <2>7. /\ outputs' \in [Output -> File \cup {None}]
        /\ \A q \in Proc : Is(q, "write") => outputs'[OutputOf[q]] = outputs[OutputOf[q]]
        /\ \A q \in Proc : outputs[OutputOf[q]] # None
              => outputs'[OutputOf[q]] = outputs[OutputOf[q]]
    BY <1>0, <1>2, <2>1, <2>2, FilesMade
  <2>8. TypeOK'
    BY <1>s, <2>6, <2>7 DEF TypeOK, ServerTyped
  <2>9. outputs'[OutputOf[p]] = f /\ f # None
    BY <1>0, <2>1, <2>2, NoneAssumption DEF TypeOK
  <2>10. ASSUME NEW q \in Proc
         PROVE  /\ readers'[q].pc \in {"create", "write"} =>
                     readers'[q].spool = Content(readers'[q].data)
                /\ Is(q, "write")' => Writing(q)'
    <3>1. CASE q = p
      <4>1. readers'[p].spool = Content(readers'[p].data)
        BY <1>0, <2>5 DEF Is
      <4>2. readers'[p].spool \in Seq(Chunk)
        BY <2>5 DEF Reader
      <4>3. Writing(p)'
        BY <2>2, <2>9, <4>2 DEF Writing
      <4> QED
        BY <3>1, <4>1, <4>3
    <3>2. CASE q # p
      BY <2>6, <2>7, <3>2 DEF Is, Writing
    <3> QED
      BY <3>1, <3>2
  <2>11. ReadIsExact'
    <3> SUFFICES ASSUME NEW q \in Proc, readers'[q].pc = "end", readers'[q].result = "Ok"
                 PROVE  outputs'[OutputOf[q]] = [by |-> q, data |-> Content(readers'[q].data)]
      BY DEF ReadIsExact, Is
    <3>1. q # p /\ readers'[q] = readers[q]
      BY <2>5, <2>6
    <3>2. outputs[OutputOf[q]] = [by |-> q, data |-> Content(readers[q].data)]
      BY <3>1 DEF ReadIsExact, Is
    <3>3. outputs[OutputOf[q]] # None
      <4>1. Content(readers[q].data) \in Seq(Chunk)
        BY ContentType DEF TypeOK, Reader
      <4>2. outputs[OutputOf[q]] \in File
        BY <3>2, <4>1 DEF File
      <4> QED
        BY <4>2, NoneAssumption
    <3> QED
      BY <2>7, <3>1, <3>2, <3>3
  <2> QED
    BY <2>8, <2>10, <2>11
<1> QED
  BY <1>1, <1>2

\* The output of a reader that is writing is a file that nobody else writes or
\* has written.
LEMMA OwnOutput ==
  ASSUME ViewsInv, NEW p \in Proc, Is(p, "write")
  PROVE  /\ outputs[OutputOf[p]] \in File /\ outputs[OutputOf[p]].by = p
         /\ \A q \in Proc \ {p} :
              Is(q, "write") \/ (Is(q, "end") /\ readers[q].result = "Ok")
                => OutputOf[q] # OutputOf[p]
<1>1. /\ outputs[OutputOf[p]] # None /\ outputs[OutputOf[p]].by = p
      /\ OutputOf[p] \in Output
  BY ViewAssumption DEF ViewsInv, Writing
<1>2. outputs[OutputOf[p]] \in File
  BY <1>1 DEF ViewsInv, TypeOK
<1>3. ASSUME NEW q \in Proc \ {p}, Is(q, "write")
      PROVE  OutputOf[q] # OutputOf[p]
  BY <1>1, <1>3 DEF ViewsInv, Writing
<1>4. ASSUME NEW q \in Proc \ {p}, Is(q, "end") /\ readers[q].result = "Ok"
      PROVE  OutputOf[q] # OutputOf[p]
  <2>1. outputs[OutputOf[q]] = [by |-> q, data |-> Content(readers[q].data)]
    BY <1>4 DEF ViewsInv, ReadIsExact
  <2>2. outputs[OutputOf[q]].by = q
    BY <2>1
  <2> QED
    BY <1>1, <2>2
<1> QED
  BY <1>1, <1>2, <1>3, <1>4

\* What has been written of the spool when nothing is left of it.
LEMMA WholeIsWritten ==
  ASSUME ViewsInv, NEW p \in Proc, Is(p, "write"),
         Len(outputs[OutputOf[p]].data) + 1 > Len(readers[p].spool)
  PROVE  outputs[OutputOf[p]] = [by |-> p, data |-> Content(readers[p].data)]
<1> DEFINE file == outputs[OutputOf[p]]
           spool == readers[p].spool
<1>1. file \in File /\ file.by = p
  BY OwnOutput
<1>2. file.data \in Seq(Chunk) /\ spool \in Seq(Chunk)
  BY <1>1 DEF File, ViewsInv, TypeOK, Reader
<1>3. Len(file.data) <= Len(spool) /\ \A i \in 1..Len(file.data) : file.data[i] = spool[i]
  BY DEF ViewsInv, Writing
<1>4. spool = Content(readers[p].data)
  BY DEF ViewsInv, Is
<1> HIDE DEF file, spool
<1>5. Len(file.data) = Len(spool)
  BY <1>2, <1>3 DEF file, spool
<1>6. file.data = spool
  BY <1>2, <1>3, <1>5, SeqEqual
<1>7. file = [by |-> p, data |-> spool]
  BY <1>1, <1>6 DEF File
<1> QED
  BY <1>4, <1>7 DEF file

LEMMA WriteEnds ==
  ASSUME ViewsInv, NEW p \in Proc, WriteOutput(p),
         Len(outputs[OutputOf[p]].data) + 1 > Len(readers[p].spool)
  PROVE  ViewsInv'
<1> USE DEF ViewsInv
<1>1. Is(p, "write") /\ Return(p, "Ok") /\ UNCHANGED <<server, outputs, budget>>
  BY DEF WriteOutput
<1>2. outputs[OutputOf[p]] = [by |-> p, data |-> Content(readers[p].data)]
  BY <1>1, WholeIsWritten
<1>3. readers'[p] = [readers[p] EXCEPT !.pc = "end", !.result = "Ok"] /\ readers[p] \in Reader
  BY <1>1 DEF Return, TypeOK
<1>4. /\ readers'[p] \in Reader /\ readers'[p].pc = "end" /\ readers'[p].data = readers[p].data
  BY <1>3 DEF Reader, Errors
<1>5. readers' \in [Proc -> Reader] /\ \A q \in Proc \ {p} : readers'[q] = readers[q]
  BY <1>1, <1>4 DEF Return, TypeOK
<1>6. TypeOK'
  BY <1>1, <1>5 DEF TypeOK, server
<1>7. ASSUME NEW q \in Proc
      PROVE  /\ readers'[q].pc \in {"create", "write"} =>
                  readers'[q].spool = Content(readers'[q].data)
             /\ Is(q, "write")' => Writing(q)'
  <2>1. CASE q = p
    BY <1>4, <2>1 DEF Is
  <2>2. CASE q # p
    BY <1>1, <1>5, <2>2 DEF Is, Writing
  <2> QED
    BY <2>1, <2>2
<1>8. ReadIsExact'
  <2> SUFFICES ASSUME NEW q \in Proc, readers'[q].pc = "end", readers'[q].result = "Ok"
               PROVE  outputs'[OutputOf[q]] = [by |-> q, data |-> Content(readers'[q].data)]
    BY DEF ReadIsExact, Is
  <2>1. CASE q = p
    BY <1>1, <1>2, <1>4, <2>1
  <2>2. CASE q # p
    BY <1>1, <1>5, <2>2 DEF ReadIsExact, Is
  <2> QED
    BY <2>1, <2>2
<1> QED
  BY <1>6, <1>7, <1>8

\* A prefix of t stays one when the next element of t is put behind it.
LEMMA PrefixGrows ==
  ASSUME NEW S, NEW s \in Seq(S), NEW t \in Seq(S),
         Len(s) + 1 <= Len(t), \A n \in 1..Len(s) : s[n] = t[n],
         NEW more, more = Append(s, t[Len(s) + 1])
  PROVE  Len(more) <= Len(t) /\ \A n \in 1..Len(more) : more[n] = t[n]
<1>1. Len(s) \in Nat /\ Len(t) \in Nat
  OBVIOUS
<1>2. t[Len(s) + 1] \in S
  BY <1>1
<1>3. /\ Len(more) = Len(s) + 1
      /\ \A n \in 1..Len(s) : more[n] = s[n]
      /\ more[Len(s) + 1] = t[Len(s) + 1]
  BY <1>2, AppendProperties
<1>4. ASSUME NEW n \in 1..Len(s) + 1 PROVE more[n] = t[n]
  <2>1. CASE n = Len(s) + 1
    BY <1>3, <2>1
  <2>2. CASE n # Len(s) + 1
    <3>1. n \in 1..Len(s)
      BY <1>1, <1>4, <2>2
    <3> QED
      BY <1>3, <3>1
  <2> QED
    BY <2>1, <2>2
<1> QED
  BY <1>1, <1>3, <1>4

LEMMA WriteGoesOn ==
  ASSUME ViewsInv, NEW p \in Proc, WriteOutput(p),
         ~(Len(outputs[OutputOf[p]].data) + 1 > Len(readers[p].spool))
  PROVE  ViewsInv'
<1> USE DEF ViewsInv
<1> DEFINE x == OutputOf[p]
           data == outputs[x].data
           spool == readers[p].spool
           i == Len(data) + 1
           more == Append(data, spool[i])
<1>1. /\ Is(p, "write") /\ UNCHANGED <<readers, server, budget>>
      /\ outputs' = [outputs EXCEPT ![x].data = more]
      /\ x \in Output
  BY ViewAssumption DEF WriteOutput
<1>2. outputs[x] \in File /\ outputs[x].by = p
  BY <1>1, OwnOutput
<1>3. data \in Seq(Chunk) /\ spool \in Seq(Chunk)
  BY <1>2 DEF File, TypeOK, Reader
<1>4. i \in 1..Len(spool)
  BY <1>3
<1>5. more \in Seq(Chunk)
  <2>1. spool[i] \in Chunk
    BY <1>3, <1>4
  <2> DEFINE elt == spool[i]
  <2> HIDE DEF elt, data
  <2>2. Append(data, elt) \in Seq(Chunk)
    BY <1>3, <2>1, AppendProperties DEF elt
  <2> QED
    BY <2>2 DEF elt
<1>6. Len(data) \in Nat /\ \A n \in 1..Len(data) : data[n] = spool[n]
  BY <1>1, <1>3 DEF Writing
<1>7. /\ Len(more) <= Len(spool)
      /\ \A n \in 1..Len(more) : more[n] = spool[n]
  <2>1. Len(data) + 1 <= Len(spool)
    BY <1>3, <1>4
  <2>2. \A n \in 1..Len(data) : data[n] = spool[n]
    BY <1>6
  <2> DEFINE grown == more
  <2>3. grown = Append(data, spool[Len(data) + 1])
    OBVIOUS
  <2> HIDE DEF grown, data, spool
  <2>4. Len(grown) <= Len(spool) /\ \A n \in 1..Len(grown) : grown[n] = spool[n]
    BY <1>3, <2>1, <2>2, <2>3, PrefixGrows
  <2> QED
    BY <2>4 DEF grown
<1> HIDE DEF more, data, spool, i
<1>8. outputs'[x] = [outputs[x] EXCEPT !.data = more]
  BY <1>1 DEF TypeOK
<1>9. outputs'[x] \in File /\ outputs'[x].by = p /\ outputs'[x].data = more
  BY <1>2, <1>5, <1>8 DEF File
<1>10. /\ outputs' \in [Output -> File \cup {None}]
       /\ \A y \in Output \ {x} : outputs'[y] = outputs[y]
  BY <1>1, <1>9 DEF TypeOK
<1>11. TypeOK'
  BY <1>1, <1>10 DEF TypeOK, server
<1>12. Writing(p)'
  BY <1>1, <1>7, <1>9, NoneAssumption DEF Writing, spool
<1>13. ASSUME NEW q \in Proc \ {p},
              Is(q, "write") \/ (Is(q, "end") /\ readers[q].result = "Ok")
       PROVE  outputs'[OutputOf[q]] = outputs[OutputOf[q]]
  BY <1>1, <1>10, <1>13, OwnOutput, ViewAssumption
<1>14. ASSUME NEW q \in Proc PROVE Is(q, "write")' => Writing(q)'
  <2>1. CASE q = p
    BY <1>12, <2>1
  <2>2. CASE q # p
    BY <1>1, <1>13, <2>2 DEF Is, Writing
  <2> QED
    BY <2>1, <2>2
<1>15. ReadIsExact'
  <2> SUFFICES ASSUME NEW q \in Proc, readers[q].pc = "end", readers[q].result = "Ok"
               PROVE  outputs'[OutputOf[q]] = [by |-> q, data |-> Content(readers[q].data)]
    BY <1>1 DEF ReadIsExact, Is
  <2>1. q # p
    BY <1>1 DEF Is
  <2> QED
    BY <1>13, <2>1 DEF ReadIsExact, Is
<1> QED
  BY <1>1, <1>11, <1>14, <1>15

LEMMA Writes ==
  ASSUME ViewsInv, NEW p \in Proc, WriteOutput(p) PROVE ViewsInv'
BY WriteEnds, WriteGoesOn

LEMMA Dies ==
  ASSUME ViewsInv, NEW p \in Proc, Die(p) PROVE ViewsInv'
<1>1. TypeOK
  BY DEF ViewsInv
<1>2. Return(p, "Dead") /\ UNCHANGED <<server, outputs>> /\ Fault("crash")
  BY DEF Die
<1>3. Advances(p)
  BY <1>1, <1>2, ReturnAdvances DEF Errors
<1>4. ServerTyped
  BY <1>1, <1>2, FaultTyped DEF ServerTyped, TypeOK, server
<1> QED
  BY <1>3, <1>4, AdvanceKeeps

\* Releases, recalls, writes of users and early closes touch no reader.
LEMMA ServerSteps ==
  ASSUME ViewsInv, UNCHANGED <<readers, outputs, budget>>, ServerTyped PROVE ViewsInv'
<1>1. TypeOK'
  BY DEF ViewsInv, TypeOK, ServerTyped
<1> QED
  BY <1>1 DEF ViewsInv, ReadIsExact, Is, Writing

LEMMA OthersStep ==
  ASSUME ViewsInv, Release \/ Recall \/ Modify \/ \E o \in Op : OperatorCloses(o)
  PROVE  ViewsInv'
<1> USE DEF ViewsInv, ServerTyped
<1>1. CASE Release
  BY <1>1, ServerSteps DEF Release, TypeOK
<1>2. CASE Recall
  BY <1>2, ServerSteps DEF Recall, TypeOK
<1>3. CASE Modify
  BY <1>3, ServerSteps DEF Modify, TypeOK
<1>4. CASE \E o \in Op : OperatorCloses(o)
  BY <1>4, ServerSteps DEF OperatorCloses, TypeOK
<1> QED
  BY <1>1, <1>2, <1>3, <1>4

LEMMA UsersMake ==
  ASSUME ViewsInv, NEW x \in Output, UserMakes(x) PROVE ViewsInv'
<1> DEFINE f == [by |-> "user", data |-> <<0>>]
<1>1. f \in File
  BY DEF File, Chunk
<1>2. /\ outputs[x] = None /\ outputs' = [outputs EXCEPT ![x] = f]
      /\ UNCHANGED <<version, placed, freed, views, closed, readers>>
      /\ Fault("user")
  BY DEF UserMakes
<1> HIDE DEF f
<1>3. /\ outputs' \in [Output -> File \cup {None}]
      /\ \A p \in Proc : Is(p, "write") => outputs'[OutputOf[p]] = outputs[OutputOf[p]]
      /\ \A p \in Proc : outputs[OutputOf[p]] # None
            => outputs'[OutputOf[p]] = outputs[OutputOf[p]]
  BY <1>1, <1>2, FilesMade
<1>4. TypeOK'
  BY <1>2, <1>3, FaultTyped DEF TypeOK, ViewsInv
<1>5. ASSUME NEW q \in Proc, Is(q, "end"), readers[q].result = "Ok"
      PROVE  outputs'[OutputOf[q]] = [by |-> q, data |-> Content(readers[q].data)]
  <2>1. outputs[OutputOf[q]] = [by |-> q, data |-> Content(readers[q].data)]
    BY <1>5 DEF ViewsInv, ReadIsExact
  <2>2. Content(readers[q].data) \in Seq(Chunk)
    BY ContentType DEF ViewsInv, TypeOK, Reader
  <2>3. outputs[OutputOf[q]] # None
    BY <2>1, <2>2, NoneAssumption DEF File
  <2> QED
    BY <1>3, <2>1, <2>3
<1>6. ReadIsExact'
  BY <1>2, <1>5 DEF ReadIsExact, Is
<1> QED
  BY <1>2, <1>3, <1>4, <1>6 DEF ViewsInv, Is, Writing

LEMMA ReadsGoOn == ViewsInv /\ [Next]_vars => ViewsInv'
<1> SUFFICES ASSUME ViewsInv, [Next]_vars PROVE ViewsInv'
  OBVIOUS
<1>1. CASE \E p \in Proc : Step(p) \/ Die(p)
  BY <1>1, BeforeOpen, Opens, Locates, Reads, Closes, Creates, Writes, Dies DEF Step
<1>2. CASE Release \/ Recall \/ Modify \/ \E o \in Op : OperatorCloses(o)
  BY <1>2, OthersStep
<1>3. CASE \E x \in Output : UserMakes(x)
  BY <1>3, UsersMake
<1>4. CASE UNCHANGED vars
  BY <1>4 DEF vars, ViewsInv, TypeOK, ReadIsExact, Is, Writing
<1> QED
  BY <1>1, <1>2, <1>3, <1>4 DEF Next

(***************************************************************************)
(* The output of a read that succeeded is the version that was resolved,   *)
(* whole, however many readers, outputs, versions and closings there are.  *)
(***************************************************************************)
THEOREM ReadsAreExact == Spec => []ReadIsExact
<1>1. ViewsInv => ReadIsExact
  BY DEF ViewsInv
<1> QED
  BY <1>1, ReadsStart, ReadsGoOn, PTL DEF Spec

\* A file that somebody has made at an output stays the file of its maker.
KeepsFiles ==
  \A x \in Output : outputs[x] # None => outputs'[x] # None /\ outputs'[x].by = outputs[x].by

LEMMA WritingKeeps ==
  ASSUME ViewsInv, NEW p \in Proc, WriteOutput(p) PROVE KeepsFiles
<1> DEFINE y == OutputOf[p]
           f == outputs'[y]
<1>1. CASE UNCHANGED outputs
  BY <1>1 DEF KeepsFiles
<1>2. CASE ~UNCHANGED outputs
  <2> DEFINE data == Append(outputs[y].data, readers[p].spool[Len(outputs[y].data) + 1])
  <2>1. Is(p, "write") /\ outputs' = [outputs EXCEPT ![y].data = data]
    BY <1>2 DEF WriteOutput
  <2> HIDE DEF data
  <2>2. y \in Output /\ outputs[y] \in File /\ outputs[y].by = p
    BY <2>1, ViewAssumption, OwnOutput
  <2>3. outputs' = [outputs EXCEPT ![y] = [outputs[y] EXCEPT !.data = data]]
    BY <2>1
  <2>4. ViewsInv'
    BY Writes
  <2>5. outputs'[y] = [outputs[y] EXCEPT !.data = data]
    BY <2>2, <2>3 DEF ViewsInv, TypeOK
  <2>6. outputs'[y].by = outputs[y].by
    BY <2>2, <2>5 DEF File
  <2>7. outputs'[y] # None
    BY <2>1, <2>2, <2>4, <1>2 DEF WriteOutput, ViewsInv, Writing, Is
  <2>8. ASSUME NEW x \in Output, x # y PROVE outputs'[x] = outputs[x]
    BY <2>3, <2>8 DEF ViewsInv, TypeOK
  <2> QED
    BY <2>6, <2>7, <2>8 DEF KeepsFiles
<1> QED
  BY <1>1, <1>2

LEMMA NewFilesKeep ==
  ASSUME TypeOK, NEW x \in Output, outputs[x] = None,
         NEW f, outputs' = [outputs EXCEPT ![x] = f]
  PROVE  KeepsFiles
<1>1. ASSUME NEW y \in Output, outputs[y] # None PROVE outputs'[y] = outputs[y]
  BY <1>1 DEF TypeOK
<1> QED
  BY <1>1 DEF KeepsFiles

LEMMA StepsKeepFiles == ViewsInv /\ [Next]_vars => KeepsFiles
<1> SUFFICES ASSUME ViewsInv, [Next]_vars PROVE KeepsFiles
  OBVIOUS
<1>1. TypeOK
  BY DEF ViewsInv
<1>2. CASE UNCHANGED outputs
  BY <1>2 DEF KeepsFiles
<1>3. ASSUME NEW p \in Proc, Create(p) PROVE KeepsFiles
  <2>1. OutputOf[p] \in Output
    BY ViewAssumption
  <2> QED
    BY <1>1, <1>2, <1>3, <2>1, NewFilesKeep DEF Create, CreateNew
<1>4. ASSUME NEW x \in Output, UserMakes(x) PROVE KeepsFiles
  BY <1>1, <1>4, NewFilesKeep DEF UserMakes
<1>5. ASSUME NEW p \in Proc, Step(p) \/ Die(p) PROVE KeepsFiles
  <2>1. CASE OutputExists(p) \/ Resolve(p) \/ OpenView(p) \/ Locate(p) \/ ReadChunk(p)
             \/ CloseView(p) \/ Die(p)
    BY <1>2, <2>1
       DEF OutputExists, Resolve, OpenView, Locate, ReadChunk, CloseView, Die
  <2> QED
    BY <1>3, <1>5, <2>1, WritingKeeps DEF Step
<1>6. CASE Release \/ Recall \/ Modify \/ \E o \in Op : OperatorCloses(o)
  BY <1>2, <1>6 DEF Release, Recall, Modify, OperatorCloses
<1> QED
  BY <1>2, <1>4, <1>5, <1>6 DEF Next, vars

(***************************************************************************)
(* No read ever takes away or replaces a file that it finds at its output, *)
(* whoever made it and whenever: create_new decides who owns an output.    *)
(***************************************************************************)
THEOREM FilesAreKept == Spec => OutputsAreKept
<1>1. ViewsInv /\ [Next]_vars => [KeepsFiles]_vars
  BY StepsKeepFiles
<1>2. Spec => [][KeepsFiles]_vars
  BY <1>1, ReadsStart, ReadsGoOn, PTL DEF Spec
<1> QED
  BY <1>2 DEF OutputsAreKept, KeepsFiles

-----------------------------------------------------------------------------
(* Pins.                                                                   *)

Holding == {"locate", "read", "close"}

Held(o) == \E p \in Proc : OpOf[p] = o /\ readers[p].pc \in Holding

\* A step of reader p, which goes on holding what it held.
LEMMA HolderMoves ==
  ASSUME TypeOK, NEW o \in Op, Held(o), NEW p \in Proc,
         \A q \in Proc \ {p} : readers'[q] = readers[q],
         OpOf[p] = o /\ readers[p].pc \in Holding => readers'[p].pc \in Holding
  PROVE  Held(o)'
<1>1. PICK q \in Proc : OpOf[q] = o /\ readers[q].pc \in Holding
  BY DEF Held
<1> QED
  BY <1>1 DEF Held

\* Where a reader is after it moved.
LEMMA ReaderMoves ==
  ASSUME TypeOK, NEW p \in Proc, NEW x
  PROVE  /\ Go(p, x) => readers'[p].pc = x
         /\ Copied(p, x) => readers'[p].pc \in Holding
         /\ readers' = [readers EXCEPT ![p].spool = x] => readers'[p].pc = readers[p].pc
         /\ (\/ Go(p, x) \/ Copied(p, x) \/ Return(p, x)
             \/ readers' = [readers EXCEPT ![p].spool = x])
            => \A q \in Proc \ {p} : readers'[q] = readers[q]
<1>1. readers \in [Proc -> Reader] /\ readers[p] \in Reader
  BY DEF TypeOK
<1>2. Go(p, x) => readers'[p].pc = x
  BY <1>1 DEF Go, Reader
<1>3. Copied(p, x) => readers'[p].pc \in Holding
  BY <1>1 DEF Copied, Reader, Holding
<1>4. readers' = [readers EXCEPT ![p].spool = x] => readers'[p].pc = readers[p].pc
  BY <1>1 DEF Reader
<1>5. (\/ Go(p, x) \/ Copied(p, x) \/ Return(p, x)
       \/ readers' = [readers EXCEPT ![p].spool = x])
      => \A q \in Proc \ {p} : readers'[q] = readers[q]
  BY <1>1 DEF Go, Copied, Return
<1> QED
  BY <1>2, <1>3, <1>4, <1>5

\* A read that opens a view holds it, and whoever stops holding one closes it.
LEMMA ReaderHolds ==
  ASSUME TypeOK, NEW p \in Proc, Step(p), \A kind : ~Fault(kind),
         NEW o \in Op, views'[o] # None, views[o] # None => Held(o)
  PROVE  Held(o)'
<1>1. /\ readers[p] \in Reader /\ OpOf[p] \in Op
      /\ readers \in [Proc -> Reader] /\ views \in [Op -> Version \cup {None}]
  BY ViewAssumption DEF TypeOK
<1>2. ASSUME views' = views, \A q \in Proc \ {p} : readers'[q] = readers[q],
             readers[p].pc \notin Holding \/ readers'[p].pc \in Holding
      PROVE  Held(o)'
  BY <1>2, HolderMoves
<1>3. CASE OutputExists(p) \/ Create(p) \/ WriteOutput(p) \/ Resolve(p)
  <2>1. views' = views /\ readers[p].pc \notin Holding
    BY <1>3 DEF OutputExists, Create, WriteOutput, Resolve, server, Is, Holding
  <2>2. \/ UNCHANGED readers \/ \E x : Go(p, x) \/ Return(p, x)
        \/ readers' = [readers EXCEPT ![p].pc = "open", ![p].data = version]
    BY <1>3 DEF OutputExists, Create, CreateNew, WriteOutput, Resolve
  <2>3. \A q \in Proc \ {p} : readers'[q] = readers[q]
    BY <1>1, <2>2, ReaderMoves
  <2> QED
    BY <1>2, <2>1, <2>3
<1>4. CASE Locate(p)
  <2>1. Copied(p, "Fenced") \/ Go(p, "read") \/ Copied(p, "Unknown")
    BY <1>4 DEF Locate
  <2>2. readers'[p].pc \in Holding /\ \A q \in Proc \ {p} : readers'[q] = readers[q]
    BY <2>1, ReaderMoves DEF Holding
  <2> QED
    BY <1>2, <1>4, <2>2 DEF Locate, server
<1>5. CASE ReadChunk(p)
  <2>1. \/ \E error : Copied(p, error)
        \/ \E spool : readers' = [readers EXCEPT ![p].spool = spool]
    BY <1>5 DEF ReadChunk
  <2>2. readers[p].pc \in Holding
    BY <1>5 DEF ReadChunk, Is, Holding
  <2>3. readers'[p].pc \in Holding /\ \A q \in Proc \ {p} : readers'[q] = readers[q]
    BY <2>1, <2>2, ReaderMoves
  <2> QED
    BY <1>2, <1>5, <2>3 DEF ReadChunk, server
<1>6. CASE CloseView(p)
  <2>1. /\ views' = [views EXCEPT ![OpOf[p]] = None]
        /\ Judged(p)
    BY <1>6 DEF CloseView
  <2>2. o # OpOf[p] /\ views'[o] = views[o]
    BY <1>1, <2>1
  <2>3. \A q \in Proc \ {p} : readers'[q] = readers[q]
    BY <1>1, <2>1 DEF Judged, Return, Go
  <2> QED
    BY <2>2, <2>3, HolderMoves
<1>7. CASE OpenView(p)
  <2>1. readers[p].pc \notin Holding
    BY <1>7 DEF OpenView, Is, Holding
  <2>2. \/ views' = views /\ \E error : Return(p, error)
        \/ /\ \E pinned : views' = [views EXCEPT ![OpOf[p]] = pinned]
           /\ Go(p, "locate") \/ Go(p, "read")
    BY <1>7 DEF OpenView
  <2>3. \A q \in Proc \ {p} : readers'[q] = readers[q]
    BY <2>2, ReaderMoves
  <2>4. CASE views' = views
    BY <1>2, <2>1, <2>3, <2>4
  <2>5. CASE /\ \E pinned : views' = [views EXCEPT ![OpOf[p]] = pinned]
             /\ Go(p, "locate") \/ Go(p, "read")
    <3>1. readers'[p].pc \in Holding
      BY <2>5, ReaderMoves DEF Holding
    <3>2. CASE o = OpOf[p]
      BY <3>1, <3>2 DEF Held
    <3>3. CASE o # OpOf[p]
      <4>1. views'[o] = views[o]
        BY <1>1, <2>5, <3>3
      <4> QED
        BY <2>1, <2>3, <4>1, HolderMoves
    <3> QED
      BY <3>2, <3>3
  <2> QED
    BY <2>2, <2>4, <2>5
<1> QED
  BY <1>3, <1>4, <1>5, <1>6, <1>7 DEF Step

LEMMA PinsAre ==
  PinsFollowReads <=> (budget = Budget => \A o \in Op : views[o] # None => Held(o))
BY DEF PinsFollowReads, Pinned, Held, Holding

LEMMA PinsKeep == TypeOK /\ PinsFollowReads /\ [Next]_vars => PinsFollowReads'
<1> SUFFICES ASSUME TypeOK, PinsFollowReads, [Next]_vars, budget' = Budget,
                    NEW o \in Op, views'[o] # None
             PROVE  Held(o)'
  BY DEF PinsFollowReads, Pinned, Held, Holding
<1>1. \A kind : ~Fault(kind)
  BY ViewAssumption DEF Fault, TypeOK
<1>2. budget = Budget
  <2>1. ASSUME NEW p \in Proc, Step(p) PROVE budget' = budget
    BY <1>1, <2>1
       DEF Step, OutputExists, Resolve, OpenView, Locate, ReadChunk, CloseView, Create, WriteOutput
  <2> QED
    BY <1>1, <2>1 DEF Next, vars, Die, Release, Recall, Modify, OperatorCloses, UserMakes
<1>3. views[o] # None => Held(o)
  BY <1>2, PinsAre
<1>4. ASSUME NEW p \in Proc, Step(p) PROVE Held(o)'
  BY <1>1, <1>3, <1>4, ReaderHolds
<1>5. ASSUME readers' = readers, views'[o] = views[o] PROVE Held(o)'
  BY <1>3, <1>5 DEF Held
<1>6. CASE Release \/ Recall \/ Modify \/ UNCHANGED vars
  BY <1>5, <1>6 DEF Release, Recall, Modify, vars
<1>7. ASSUME NEW c \in Op, OperatorCloses(c) PROVE Held(o)'
  <2>1. o # c /\ views'[o] = views[o] /\ readers' = readers
    BY <1>7 DEF OperatorCloses, TypeOK
  <2> QED
    BY <1>5, <2>1
<1> QED
  BY <1>1, <1>4, <1>6, <1>7 DEF Next, Die, UserMakes

(***************************************************************************)
(* No read that fails leaves its pin on the file: read_to_local closes the *)
(* view before it looks at the error of the copy, so that without a crash  *)
(* or a lost answer every pin is that of a read that is going on.          *)
(***************************************************************************)
THEOREM PinsFollow == Spec => []PinsFollowReads
<1>1. Init => PinsFollowReads
  BY DEF Init, PinsFollowReads, Pinned
<1>2. ViewsInv => TypeOK
  BY DEF ViewsInv
<1> QED
  BY <1>1, <1>2, PinsKeep, ReadsStart, ReadsGoOn, PTL DEF Spec
=============================================================================
