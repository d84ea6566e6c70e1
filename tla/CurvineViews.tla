----------------------------- MODULE CurvineViews -----------------------------
(***************************************************************************)
(* read_to_local and CurvineDataMover::download of crates/hsm-curvine/src/ *)
(* managed_io.rs, and read_file of its program: reads of a managed file    *)
(* under a pin, which another reader with the same operation or an         *)
(* operator may close early, and the output they make.  The server, its    *)
(* workers and the users of the file are external.                         *)
(***************************************************************************)
EXTENDS Naturals, Sequences

CONSTANTS
  Op,        \* read operations
  Native,    \* those whose view is of blocks, not of a worker endpoint
  Proc,      \* processes that read
  OpOf,      \* Proc -> Op
  Output,
  OutputOf,  \* Proc -> Output
  Lengths,   \* the length of each version of the file
  Faults,    \* the kinds of fault an instance may suffer
  Budget,    \* bound: how many of them
  None

ASSUME ViewAssumption ==
  /\ Native \subseteq Op
  /\ OpOf \in [Proc -> Op] /\ OutputOf \in [Proc -> Output]
  /\ Lengths \in Seq(Nat) /\ Lengths # <<>>
  /\ Budget \in Nat

VARIABLES
  version,   \* the current version of the file
  placed,    \* whether the file is online
  freed,     \* versions whose blocks were given back
  views,     \* the version each operation has pinned, or None
  closed,    \* operations whose view was closed
  readers,
  outputs,   \* the files at the outputs
  budget     \* faults still to come

vars == <<version, placed, freed, views, closed, readers, outputs, budget>>

\* The content of a version; other versions and other files hold other chunks.
Version == DOMAIN Lengths
Content(v) == [i \in 1..Lengths[v] |-> v]
Chunk == Version \cup {0}

Phase == {"exists", "resolve", "open", "locate", "read", "close", "create", "write"}
Errors == {"Ok", "Unknown", "Conflict", "Integrity", "Fenced", "Busy", "Dead"}

\* A reader: the data key it resolved, its spool, and how the copy ended.
Reader == [pc : Phase \cup {"end"}, data : Version, spool : Seq(Chunk),
           copied : Errors \cup {None}, result : Errors \cup {None}]

File == [by : Proc \cup {"user"}, data : Seq(Chunk)]

ASSUME NoneAssumption == None \notin File

TypeOK ==
  /\ version \in Version /\ placed \in BOOLEAN /\ freed \subseteq Version
  /\ views \in [Op -> Version \cup {None}]
  /\ closed \subseteq Op
  /\ readers \in [Proc -> Reader]
  /\ outputs \in [Output -> File \cup {None}]
  /\ budget \in 0..Budget

Init ==
  /\ version = 1 /\ placed = TRUE /\ freed = {}
  /\ views = [o \in Op |-> None]
  /\ closed = {}
  /\ readers = [p \in Proc |-> [pc |-> "exists", data |-> 1, spool |-> <<>>,
                                copied |-> None, result |-> None]]
  /\ outputs = [x \in Output |-> None]
  /\ budget = Budget

server == <<version, placed, freed, views, closed>>

Fault(kind) == kind \in Faults /\ budget > 0 /\ budget' = budget - 1

Pinned == {o \in Op : views[o] # None}

-----------------------------------------------------------------------------
(* What others do.                                                         *)

\* A release frees the blocks of a file that nothing pins.
Release ==
  /\ placed /\ Pinned = {}
  /\ placed' = FALSE
  /\ freed' = freed \cup {version}
  /\ UNCHANGED <<version, views, closed, readers, outputs, budget>>

\* A recall, into other blocks.
Recall ==
  /\ ~placed
  /\ placed' = TRUE
  /\ UNCHANGED <<version, freed, views, closed, readers, outputs, budget>>

\* A user writes a file that nothing pins.
Modify ==
  /\ placed /\ Pinned = {} /\ version + 1 \in Version
  /\ version' = version + 1
  /\ freed' = freed \cup {version}
  /\ UNCHANGED <<placed, views, closed, readers, outputs, budget>>

\* hsm-curvine close-view: pending_view, then close_view.
OperatorCloses(o) ==
  /\ views[o] # None
  /\ views' = [views EXCEPT ![o] = None]
  /\ closed' = closed \cup {o}
  /\ UNCHANGED <<version, placed, freed, readers, outputs, budget>>

\* Somebody makes a file where an output is to be.
UserMakes(x) ==
  /\ outputs[x] = None
  /\ Fault("user")
  /\ outputs' = [outputs EXCEPT ![x] = [by |-> "user", data |-> <<0>>]]
  /\ UNCHANGED <<version, placed, freed, views, closed, readers>>

-----------------------------------------------------------------------------
(* A read.                                                                 *)

Is(p, pc) == readers[p].pc = pc

Go(p, pc) == readers' = [readers EXCEPT ![p].pc = pc]

Return(p, result) == readers' = [readers EXCEPT ![p].pc = "end", ![p].result = result]

\* Wrong variant: the error of a copy is returned at once.
RaiseCopied(p, error) ==
  readers' = [readers EXCEPT ![p].pc = IF error = "Ok" THEN "close" ELSE "end",
                             ![p].copied = error,
                             ![p].result = IF error = "Ok" THEN None ELSE error]

\* The copy has ended; the view is closed before its error is looked at.
Copied(p, error) ==
  readers' = [readers EXCEPT ![p].pc = "close", ![p].copied = error]

OutputExists(p) ==
  /\ Is(p, "exists")
  /\ IF outputs[OutputOf[p]] # None THEN Return(p, "Conflict") ELSE Go(p, "resolve")
  /\ UNCHANGED <<server, outputs, budget>>

Resolve(p) ==
  /\ Is(p, "resolve")
  /\ \/ /\ readers' = [readers EXCEPT ![p].pc = "open", ![p].data = version]
        /\ UNCHANGED budget
     \/ Fault("drop") /\ Return(p, "Unknown")
  /\ UNCHANGED <<server, outputs>>

\* open_view pins the version that was resolved, once for an operation.
OpenView(p) ==
  LET o == OpOf[p]
      error == CASE o \in closed -> "Fenced"
                 [] views[o] # None -> IF views[o] = readers[p].data THEN "Ok" ELSE "Conflict"
                 [] readers[p].data # version -> "Conflict"
                 [] OTHER -> IF placed THEN "Ok" ELSE "Busy"
  IN /\ Is(p, "open")
     /\ \/ /\ views' = IF error = "Ok" THEN [views EXCEPT ![o] = readers[p].data] ELSE views
           /\ \/ /\ IF error # "Ok" THEN Return(p, error)
                    ELSE Go(p, IF o \in Native THEN "locate" ELSE "read")
                 /\ UNCHANGED budget
              \/ Fault("lost") /\ Return(p, "Unknown")
        \/ Fault("drop") /\ Return(p, "Unknown") /\ UNCHANGED views
     /\ UNCHANGED <<version, placed, freed, closed, outputs>>

\* view_blocks resolves the reference that a view of blocks is.  It may fail, as
\* any read of a chunk may.
Locate(p) ==
  /\ Is(p, "locate")
  /\ \/ IF views[OpOf[p]] = None THEN Copied(p, "Fenced") ELSE Go(p, "read")
     \/ Copied(p, "Unknown")
  /\ UNCHANGED <<server, outputs, budget>>

\* What is at a position of the view: its content, while it is pinned or has not
\* been freed; after that a worker fences its endpoint, and blocks are read as
\* they are, of whatever is in them.
Kept(p) == views[OpOf[p]] # None \/ readers[p].data \notin freed

At(p, i) ==
  LET content == Content(readers[p].data)
      held == IF i \in DOMAIN content THEN <<content[i]>> ELSE <<>>
  IN IF OpOf[p] \in Native
       THEN IF Kept(p) THEN {held}
            ELSE {held} \cup (IF i \in DOMAIN content THEN {<<0>>} ELSE {})
       ELSE IF views[OpOf[p]] # None THEN {held} ELSE {}

\* A chunk is appended to the spool; the end of the view ends the copy, when the
\* local transfer has found the spool as it was written.
ReadChunk(p) ==
  /\ Is(p, "read")
  /\ LET i == Len(readers[p].spool) + 1
     IN \/ \E bytes \in At(p, i) :
             IF bytes = <<>> THEN Copied(p, "Ok")
             ELSE readers' = [readers EXCEPT ![p].spool = @ \o bytes]
        \/ OpOf[p] \in Native /\ ~Kept(p) /\ Copied(p, "Integrity")
        \/ At(p, i) = {} /\ Copied(p, "Fenced")
        \/ Copied(p, "Unknown")
  /\ UNCHANGED <<server, outputs, budget>>

\* Wrong variant: the copy is taken at its word.
Trusts(p) == TRUE

\* The evidence of the copy is that of the pinned content.
Exact(p) == readers[p].spool = Content(readers[p].data)

Judged(p) ==
  CASE readers[p].copied # "Ok" -> Return(p, readers[p].copied)
    [] ~Exact(p) -> Return(p, "Integrity")
    [] OTHER -> Go(p, "create")

CloseView(p) ==
  /\ Is(p, "close")
  /\ \/ /\ views' = [views EXCEPT ![OpOf[p]] = None]
        /\ closed' = closed \cup {OpOf[p]}
        /\ \/ Judged(p) /\ UNCHANGED budget
           \/ Fault("lost") /\ Return(p, "Unknown")
     \/ Fault("drop") /\ Return(p, "Unknown") /\ UNCHANGED <<views, closed>>
  /\ UNCHANGED <<version, placed, freed, outputs>>

\* Wrong variant: an output that exists is truncated.
Truncate(p) ==
  /\ outputs' = [outputs EXCEPT ![OutputOf[p]] = [by |-> p, data |-> <<>>]]
  /\ Go(p, "write")

\* "create_new prevents races and never overwrites a caller's file."
CreateNew(p) ==
  IF outputs[OutputOf[p]] # None THEN Return(p, "Conflict") /\ UNCHANGED outputs
  ELSE /\ outputs' = [outputs EXCEPT ![OutputOf[p]] = [by |-> p, data |-> <<>>]]
       /\ Go(p, "write")

Create(p) ==
  /\ Is(p, "create")
  /\ CreateNew(p)
  /\ UNCHANGED <<server, budget>>

\* io::copy and sync_all.
WriteOutput(p) ==
  LET written == outputs[OutputOf[p]].data
      i == Len(written) + 1
  IN /\ Is(p, "write")
     /\ IF i > Len(readers[p].spool) THEN Return(p, "Ok") /\ UNCHANGED outputs
        ELSE /\ outputs' = [outputs EXCEPT ![OutputOf[p]].data = Append(@, readers[p].spool[i])]
             /\ UNCHANGED readers
     /\ UNCHANGED <<server, budget>>

Die(p) ==
  /\ readers[p].pc # "end"
  /\ Fault("crash")
  /\ Return(p, "Dead")
  /\ UNCHANGED <<server, outputs>>

Step(p) ==
  \/ OutputExists(p) \/ Resolve(p) \/ OpenView(p)
  \/ Locate(p) \/ ReadChunk(p) \/ CloseView(p)
  \/ Create(p) \/ WriteOutput(p)

Next ==
  \/ \E p \in Proc : Step(p) \/ Die(p)
  \/ Release \/ Recall \/ Modify
  \/ \E o \in Op : OperatorCloses(o)
  \/ \E x \in Output : UserMakes(x)

Spec == Init /\ [][Next]_vars

-----------------------------------------------------------------------------
(* Properties.                                                             *)

\* The output of a read that succeeded is the version that was resolved, whole,
\* though the view was closed under the reader and its blocks used again, and
\* though others write to the same output.
ReadIsExact ==
  \A p \in Proc : Is(p, "end") /\ readers[p].result = "Ok" =>
    outputs[OutputOf[p]] = [by |-> p, data |-> Content(readers[p].data)]

\* What a reader that found its spool exact relies on until it returns: the
\* output is its own, and holds what it has written of the spool.
Writing(p) ==
  LET file == outputs[OutputOf[p]]
  IN /\ file # None /\ file.by = p
     /\ Len(file.data) <= Len(readers[p].spool)
     /\ \A i \in 1..Len(file.data) : file.data[i] = readers[p].spool[i]

ViewsInv ==
  /\ TypeOK
  /\ \A p \in Proc :
       /\ readers[p].pc \in {"create", "write"} => readers[p].spool = Content(readers[p].data)
       /\ Is(p, "write") => Writing(p)
  /\ ReadIsExact

\* A file at an output stays the file of whoever made it.
OutputsAreKept ==
  [][\A x \in Output : outputs[x] # None => outputs'[x] # None /\ outputs'[x].by = outputs[x].by]_vars

\* A read that fails leaves no pin behind, which would hold up Release and users
\* for ever: as long as no process died and no answer of open_view or close_view
\* was lost, a pin is that of a read that is going on.
PinsFollowReads ==
  budget = Budget =>
    \A o \in Pinned : \E p \in Proc :
      OpOf[p] = o /\ readers[p].pc \in {"locate", "read", "close"}
=============================================================================
