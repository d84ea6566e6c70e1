------------------------------ MODULE NativeCopy ------------------------------
(***************************************************************************)
(* CurvineIo::copy_current_file_to_local of crates/hsm-curvine/src/        *)
(* native.rs: a copy of an ordinary file that nothing protects, while      *)
(* users overwrite, append to, truncate and replace it.  All that speaks   *)
(* for the copy is what the metadata say before and after.                 *)
(***************************************************************************)
EXTENDS Naturals, Sequences

CONSTANTS
  MaxLen,      \* bound: chunks of a file
  MaxChanges   \* bound: changes by users

ASSUME CopyBoundAssumption == MaxLen \in Nat \ {0} /\ MaxChanges \in Nat

VARIABLES
  file,      \* what the path names now
  past,      \* every content the path ever had
  changes,   \* how many changes there were
  pc,        \* the await the copy is at
  initial,   \* the first get_status
  fd,        \* the file that was opened
  spool,     \* the chunks read so far
  result     \* what the call returned

vars == <<file, past, changes, pc, initial, fd, spool, result>>

\* A chunk is the number of the change that wrote it; a change takes a new
\* modification time.  A complete file is not being written.
Chunk == 0..MaxChanges
File == [id : Chunk, data : Seq(Chunk), mtime : Chunk, complete : BOOLEAN]
Status(f) == [id |-> f.id, len |-> Len(f.data), mtime |-> f.mtime]

TypeOK ==
  /\ file \in File /\ Len(file.data) <= MaxLen
  /\ past \subseteq Seq(Chunk)
  /\ changes \in Chunk
  /\ pc \in {"status", "open", "read", "close", "check", "end"}
  /\ initial \in [id : Chunk, len : Nat, mtime : Chunk]
  /\ fd \in File
  /\ spool \in Seq(Chunk)
  /\ result \in {"none", "Ok", "Invalid", "Conflict", "Unknown"}

\* A file that was written once.
Init ==
  /\ file \in {[id |-> 0, data |-> [i \in 1..n |-> 0], mtime |-> 0, complete |-> TRUE] :
                 n \in 0..MaxLen}
  /\ past = {file.data}
  /\ changes = 0
  /\ pc = "status"
  /\ initial = Status(file)
  /\ fd = file
  /\ spool = <<>>
  /\ result = "none"

-----------------------------------------------------------------------------
(* Users.                                                                  *)

Later == changes + 1

Become(f) ==
  /\ changes < MaxChanges
  /\ changes' = Later
  /\ file' = f
  /\ past' = past \cup {f.data}
  /\ UNCHANGED <<pc, initial, fd, spool, result>>

\* The same file with other data.
Written(data, complete) ==
  [id |-> file.id, data |-> data, mtime |-> Later, complete |-> complete]

Overwrite ==
  \E i \in DOMAIN file.data : Become(Written([file.data EXCEPT ![i] = Later], FALSE))

Append1 ==
  /\ Len(file.data) < MaxLen
  /\ Become(Written(Append(file.data, Later), FALSE))

Truncate ==
  /\ file.data # <<>>
  /\ Become(Written(SubSeq(file.data, 1, Len(file.data) - 1), file.complete))

\* Another file under the path, of any length and already complete.
Replace ==
  \E n \in 0..MaxLen :
    Become([id |-> Later, data |-> [i \in 1..n |-> Later], mtime |-> Later, complete |-> TRUE])

\* A writer closes the file.
Complete ==
  /\ ~file.complete
  /\ file' = [file EXCEPT !.complete = TRUE]
  /\ UNCHANGED <<past, changes, pc, initial, fd, spool, result>>

User == Overwrite \/ Append1 \/ Truncate \/ Replace \/ Complete

-----------------------------------------------------------------------------
(* The copy.                                                               *)

Return(error) == pc' = "end" /\ result' = error

\* An open file is read where it is; one that was replaced as it last was.
Opened == IF fd.id = file.id THEN file ELSE fd

\* Metadata or I/O of the native client fail.
Unanswered ==
  /\ pc \in {"status", "open", "read", "close", "check"}
  /\ Return("Unknown")
  /\ UNCHANGED <<file, past, changes, initial, fd, spool>>

GetStatus ==
  /\ pc = "status"
  /\ initial' = Status(file)
  /\ IF file.complete THEN pc' = "open" /\ UNCHANGED result ELSE Return("Invalid")
  /\ UNCHANGED <<file, past, changes, fd, spool>>

Open ==
  /\ pc = "open"
  /\ fd' = file
  /\ IF file.id # initial.id \/ Len(file.data) # initial.len THEN Return("Conflict")
     ELSE pc' = "read" /\ UNCHANGED result
  /\ UNCHANGED <<file, past, changes, initial, spool>>

\* A chunk at a time, to the end of the file as it is then.
Read ==
  /\ pc = "read"
  /\ fd' = Opened
  /\ LET at == Len(spool) + 1
     IN IF at > Len(Opened.data)
          THEN pc' = "close" /\ UNCHANGED <<spool, result>>
          ELSE /\ spool' = Append(spool, Opened.data[at])
               /\ IF at > initial.len THEN Return("Conflict") ELSE UNCHANGED <<pc, result>>
  /\ UNCHANGED <<file, past, changes, initial>>

Close ==
  /\ pc = "close"
  /\ pc' = "check"
  /\ UNCHANGED <<file, past, changes, initial, fd, spool, result>>

\* Wrong variant: the modification time is not compared.
UnchangedLength(current) == <<current.id, current.len>> = <<initial.id, initial.len>>

\* The file is what it was before it was opened, and was read to its end.
Unmodified(current) == current = initial

\* The second get_status; the private spool then goes to the destination with
\* its evidence checked.
Check ==
  /\ pc = "check"
  /\ IF Len(spool) = initial.len /\ Unmodified(Status(file))
       THEN Return("Ok") ELSE Return("Conflict")
  /\ UNCHANGED <<file, past, changes, initial, fd, spool>>

Copy == GetStatus \/ Open \/ Read \/ Close \/ Check \/ Unanswered

Next == User \/ Copy

Spec == Init /\ [][Next]_vars

-----------------------------------------------------------------------------
(* Properties.                                                             *)

\* A copy that is returned is one version of the file, not a mixture of two,
\* provided that every change takes a new modification time.
CopyIsOneVersion == result = "Ok" => spool \in past

\* What the checks rest on, as an inductive invariant: while the modification
\* time is that of the first get_status, nothing has changed, so what has been
\* read is the beginning of the file.
StillInitial == file.mtime = initial.mtime

ReadSoFar ==
  /\ fd.id = file.id
  /\ Len(spool) <= Len(file.data)
  /\ \A i \in 1..Len(spool) : spool[i] = file.data[i]

CopyInv ==
  /\ TypeOK
  /\ file.mtime = changes /\ initial.mtime <= changes
  /\ file.data \in past
  /\ pc \in {"status", "open"} => spool = <<>>
  /\ pc # "end" => result = "none"
  /\ pc \in {"open", "read", "close", "check"} /\ StillInitial => Status(file) = initial
  /\ pc \in {"read", "close", "check"} /\ StillInitial => ReadSoFar
  /\ CopyIsOneVersion
=============================================================================
