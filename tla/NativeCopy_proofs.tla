-------------------------- MODULE NativeCopy_proofs --------------------------
(***************************************************************************)
(* A copy that the metadata let pass is one version of the file, for files *)
(* of any length and any number of changes.                                *)
(***************************************************************************)
EXTENDS NativeCopy, TLAPS

\* The first file is whole, and nothing has been read of it.
LEMMA CopyStarts == Init => CopyInv
<1> SUFFICES ASSUME Init PROVE CopyInv
  OBVIOUS
<1> USE CopyBoundAssumption DEF Init
<1>1. PICK n \in 0..MaxLen :
        file = [id |-> 0, data |-> [i \in 1..n |-> 0], mtime |-> 0, complete |-> TRUE]
  OBVIOUS
<1>2. 0 \in Chunk
  BY DEF Chunk
<1>3. file.data \in Seq(Chunk) /\ Len(file.data) = n
  BY <1>1, <1>2
<1>4. file \in File
  BY <1>1, <1>2, <1>3 DEF File
<1>5. Status(file) \in [id : Chunk, len : Nat, mtime : Chunk]
  BY <1>1, <1>2, <1>3 DEF Status
<1>6. TypeOK
  BY <1>2, <1>3, <1>4, <1>5 DEF TypeOK
<1> QED
  BY <1>1, <1>2, <1>6 DEF CopyInv, CopyIsOneVersion, Status

\* Every change of the file makes its modification time another one than the
\* copy has seen.
LEMMA ChangeIsSeen ==
  ASSUME CopyInv, NEW f \in File, Len(f.data) <= MaxLen, f.mtime = Later, Become(f)
  PROVE  CopyInv'
<1> USE DEF CopyInv, Become
<1>1. changes \in Nat /\ changes' = changes + 1 /\ changes' \in Chunk
  BY CopyBoundAssumption DEF TypeOK, Chunk, Later
<1>2. TypeOK'
  BY <1>1 DEF TypeOK, File
<1>3. ~StillInitial'
  BY <1>1 DEF TypeOK, StillInitial, Later, Chunk
<1>4. /\ (file.mtime = changes /\ initial.mtime <= changes)'
      /\ (file.data \in past)'
  BY <1>1 DEF TypeOK, Later, Chunk
<1>5. CopyIsOneVersion'
  BY DEF CopyIsOneVersion
<1> QED
  BY <1>2, <1>3, <1>4, <1>5

LEMMA UsersKeep == ASSUME CopyInv, User PROVE CopyInv'
<1>0. /\ file \in File /\ changes \in Nat /\ Len(file.data) <= MaxLen
      /\ file.data \in Seq(Chunk) /\ file.id \in Chunk /\ file.complete \in BOOLEAN
      /\ file.mtime \in Chunk
  BY CopyBoundAssumption DEF CopyInv, TypeOK, File, Chunk
<1>1. changes < MaxChanges => Later \in Chunk
  BY <1>0, CopyBoundAssumption DEF Later, Chunk
<1> DEFINE Fits(d) == d \in Seq(Chunk) /\ Len(d) <= MaxLen
<1>a. ASSUME NEW d, NEW c \in BOOLEAN, Fits(d), Become(Written(d, c))
      PROVE  CopyInv'
  <2>1. Written(d, c) = [id |-> file.id, data |-> d, mtime |-> Later, complete |-> c]
    BY DEF Written
  <2>2. Later \in Chunk
    BY <1>1, <1>a DEF Become
  <2>3. Written(d, c) \in File /\ Written(d, c).data = d /\ Written(d, c).mtime = Later
    BY <1>0, <1>a, <2>1, <2>2 DEF File
  <2> QED
    BY <1>a, <2>3, ChangeIsSeen
<1>2. CASE Overwrite
  <2>1. PICK i \in DOMAIN file.data : Become(Written([file.data EXCEPT ![i] = Later], FALSE))
    BY <1>2 DEF Overwrite
  <2>2. Later \in Chunk
    BY <1>1, <2>1 DEF Become
  <2>3. Fits([file.data EXCEPT ![i] = Later])
    BY <1>0, <2>2
  <2> QED
    BY <1>a, <2>1, <2>3
<1>3. CASE Append1
  <2>1. Become(Written(Append(file.data, Later), FALSE)) /\ Len(file.data) < MaxLen
    BY <1>3 DEF Append1
  <2>2. Later \in Chunk
    BY <1>1, <2>1 DEF Become
  <2>3. Fits(Append(file.data, Later))
    BY <1>0, <2>1, <2>2, CopyBoundAssumption
  <2> QED
    BY <1>a, <2>1, <2>3
<1>4. CASE Truncate
  <2> DEFINE short == SubSeq(file.data, 1, Len(file.data) - 1)
  <2>1. Become(Written(short, file.complete)) /\ file.data # <<>>
    BY <1>4 DEF Truncate
  <2>2. Fits(short)
    <3>1. Len(file.data) \in Nat \ {0}
      BY <1>0, <2>1
    <3> QED
      BY <1>0, <3>1, CopyBoundAssumption
  <2> QED
    BY <1>0, <1>a, <2>1, <2>2
<1>5. CASE Replace
  <2>1. PICK n \in 0..MaxLen :
          Become([id |-> Later, data |-> [i \in 1..n |-> Later], mtime |-> Later,
                  complete |-> TRUE])
    BY <1>5 DEF Replace
  <2> DEFINE f == [id |-> Later, data |-> [i \in 1..n |-> Later], mtime |-> Later,
                   complete |-> TRUE]
  <2>2. changes < MaxChanges
    BY <2>1 DEF Become
  <2>3. f.data \in Seq(Chunk) /\ Len(f.data) = n
    BY <1>1, <2>2
  <2>4. f \in File /\ f.mtime = Later /\ Len(f.data) <= MaxLen
    BY <1>1, <2>2, <2>3, CopyBoundAssumption DEF File
  <2> HIDE DEF f
  <2> QED
    BY <2>1, <2>4, ChangeIsSeen DEF f
<1>6. CASE Complete
  <2>1. file' = [file EXCEPT !.complete = TRUE]
    BY <1>6 DEF Complete
  <2>2. /\ file'.data = file.data /\ file'.mtime = file.mtime
        /\ file'.id = file.id /\ file' \in File
    BY <1>0, <2>1 DEF File
  <2> QED
    BY <1>6, <2>2 DEF Complete, CopyInv, TypeOK, StillInitial, ReadSoFar, Status, CopyIsOneVersion
<1> QED
  BY <1>2, <1>3, <1>4, <1>5, <1>6 DEF User

\* The steps of the copy; the file stays as it is.
LEMMA CopyKeeps == ASSUME CopyInv, Copy PROVE CopyInv'
<1>0. /\ TypeOK /\ file \in File /\ fd \in File /\ spool \in Seq(Chunk)
      /\ file.data \in Seq(Chunk) /\ fd.data \in Seq(Chunk)
      /\ file.mtime = changes
  BY DEF CopyInv, TypeOK, File
<1>1. Status(file) \in [id : Chunk, len : Nat, mtime : Chunk] /\ Status(file).mtime = file.mtime
  BY <1>0 DEF Status, File
<1>2. CASE GetStatus
  <2>1. changes \in Nat
    BY <1>0, CopyBoundAssumption DEF TypeOK, Chunk
  <2> QED
    BY <1>0, <1>1, <1>2, <2>1
    DEF CopyInv, TypeOK, GetStatus, Return, StillInitial, ReadSoFar, Status, CopyIsOneVersion
<1>3. CASE Open
  BY <1>0, <1>3
  DEF CopyInv, TypeOK, Open, Return, StillInitial, ReadSoFar, Status, CopyIsOneVersion
<1>4. CASE Read
  <2> DEFINE at == Len(spool) + 1
  <2>1. Opened \in File /\ Opened.data \in Seq(Chunk) /\ Opened.id = fd.id
    BY <1>0 DEF Opened, File
  <2>2. at \in Nat /\ at > 0 /\ Len(Opened.data) \in Nat
    BY <1>0, <2>1
  <2>3. CASE at > Len(Opened.data)
    BY <1>0, <1>4, <2>1, <2>3
    DEF CopyInv, TypeOK, Read, StillInitial, ReadSoFar, Status, CopyIsOneVersion, Opened
  <2>4. CASE at <= Len(Opened.data)
    <3>1. spool' = Append(spool, Opened.data[at]) /\ fd' = Opened /\ pc = "read"
          /\ UNCHANGED <<file, past, changes, initial>>
      BY <1>4, <2>2, <2>4 DEF Read
    <3>2. Opened.data[at] \in Chunk
      BY <2>1, <2>2, <2>4
    <3>3. /\ spool' \in Seq(Chunk) /\ Len(spool') = at
          /\ \A i \in 1..Len(spool) : spool'[i] = spool[i]
          /\ spool'[at] = Opened.data[at]
      BY <1>0, <3>1, <3>2
    <3>4. (pc' = "read" /\ result' = result) \/ (pc' = "end" /\ result' = "Conflict")
      BY <1>4, <2>2, <2>4, <3>1 DEF Read, Return
    <3>5. TypeOK'
      BY <1>0, <2>1, <3>1, <3>3, <3>4 DEF TypeOK
    <3>6. ASSUME StillInitial' PROVE ReadSoFar'
      <4>1. ReadSoFar /\ Opened = file
        BY <3>1, <3>6 DEF CopyInv, StillInitial, ReadSoFar, Opened
      <4>2. at <= Len(file.data)
        BY <2>4, <4>1
      <4>3. ASSUME NEW i \in 1..at PROVE spool'[i] = file.data[i]
        <5>1. CASE i = at
          BY <3>3, <4>1, <5>1
        <5>2. CASE i # at
          <6>1. i \in 1..Len(spool)
            BY <1>0, <5>2
          <6> QED
            BY <3>3, <4>1, <6>1 DEF ReadSoFar
        <5> QED
          BY <5>1, <5>2
      <4> QED
        BY <3>1, <3>3, <4>1, <4>2, <4>3 DEF ReadSoFar
    <3>7. CopyIsOneVersion'
      <4>1. CASE result' = "Conflict"
        BY <4>1 DEF CopyIsOneVersion
      <4>2. CASE result' = result /\ pc' = "read"
        <5>1. result' = "none"
          BY <3>1, <4>2 DEF CopyInv
        <5> QED
          BY <5>1 DEF CopyIsOneVersion
      <4> QED
        BY <3>4, <4>1, <4>2
    <3> QED
      BY <3>1, <3>4, <3>5, <3>6, <3>7 DEF CopyInv, StillInitial, Status
  <2> QED
    BY <2>2, <2>3, <2>4
<1>5. CASE Close
  BY <1>0, <1>5
  DEF CopyInv, TypeOK, Close, StillInitial, ReadSoFar, Status, CopyIsOneVersion
<1>6. CASE Check
  <2>1. CASE Len(spool) = initial.len /\ Unmodified(Status(file))
    <3>1. StillInitial /\ initial.len = Len(file.data)
      BY <1>0, <1>1, <2>1 DEF Unmodified, StillInitial, Status
    <3>2. ReadSoFar
      BY <1>6, <3>1 DEF CopyInv, Check
    <3>3. spool = file.data
      BY <1>0, <2>1, <3>1, <3>2 DEF ReadSoFar
    <3> QED
      BY <1>0, <1>6, <2>1, <3>3
      DEF CopyInv, TypeOK, Check, Return, StillInitial, ReadSoFar, Status, CopyIsOneVersion
  <2>2. CASE ~(Len(spool) = initial.len /\ Unmodified(Status(file)))
    BY <1>0, <1>6, <2>2
    DEF CopyInv, TypeOK, Check, Return, StillInitial, ReadSoFar, Status, CopyIsOneVersion
  <2> QED
    BY <2>1, <2>2
<1>7. CASE Unanswered
  BY <1>0, <1>7
  DEF CopyInv, TypeOK, Unanswered, Return, StillInitial, ReadSoFar, Status, CopyIsOneVersion
<1> QED
  BY <1>2, <1>3, <1>4, <1>5, <1>6, <1>7 DEF Copy

LEMMA CopyStutters == ASSUME CopyInv, UNCHANGED vars PROVE CopyInv'
BY DEF CopyInv, TypeOK, vars, StillInitial, ReadSoFar, Status, CopyIsOneVersion

\* copy_current_file_to_local returns one version of the file, never a mixture,
\* however long the file is and however often it changes meanwhile.
THEOREM CopiesAreOneVersion == Spec => []CopyIsOneVersion
<1>1. CopyInv /\ [Next]_vars => CopyInv'
  BY UsersKeep, CopyKeeps, CopyStutters DEF Next
<1>2. CopyInv => CopyIsOneVersion
  BY DEF CopyInv
<1> QED
  BY <1>1, <1>2, CopyStarts, PTL DEF Spec
=============================================================================
