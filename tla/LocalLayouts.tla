---------------------------- MODULE LocalLayouts ----------------------------
(***************************************************************************)
(* The payload directories of the local reference adapters (crates/        *)
(* hsm-local/src/util.rs): one directory per layout, named by a fresh      *)
(* UUID, holding `data', the marker `sealed.json' and `.transfer.lock'.    *)
(* Both LocalStorage (layouts/) and LocalArchive (attempts/) keep them.    *)
(*                                                                         *)
(* A digest with a length identifies the bytes (BLAKE3 is taken to be      *)
(* collision free), so bytes, digest and length are one value of Content.  *)
(***************************************************************************)
EXTENDS Integers

CONSTANTS
  Content,   \* the payloads the instance tells apart
  NoData,    \* the directory has no `data' file
  MaxId      \* bound: how many UUIDs an instance may draw

ASSUME LayoutAssumption ==
  /\ NoData \notin Content
  /\ MaxId \in Nat \ {0}

\* UUIDs are drawn in the order 1, 2, ...: they are never reused.
Id == 1 .. MaxId

(***************************************************************************)
(* seal = "marked": sealed.json has been renamed into place, but the       *)
(* directory sync that makes the name survive a power loss has not         *)
(* succeeded.  session is the holder of the advisory transfer lock.        *)
(***************************************************************************)
Layout == [there: BOOLEAN,
           data: Content \cup {NoData},
           seal: {"open", "marked", "sealed"},
           session: {"free", "reading", "writing"}]

Removed == [there |-> FALSE, data |-> NoData, seal |-> "open", session |-> "free"]

\* new_layout: an empty directory whose name is synced in its parent.
NewLayout == [there |-> TRUE, data |-> NoData, seal |-> "open", session |-> "free"]

\* A directory written, synced, read back and sealed by its creator.
SealedLayout(c) == [there |-> TRUE, data |-> c, seal |-> "sealed", session |-> "free"]

\* Wrong variant: a writer holds no lock.
LockedByReader(dirs, l) == dirs[l].session = "reading"

\* transfer_lock fails with Busy on a layout some session holds.
Locked(dirs, l) == dirs[l].session # "free"

\* `sealed.json' exists: the mover refuses to write such a destination.
Fenced(dirs, l) == dirs[l].seal # "open"

\* Wrong variant: the directory sync after the rename is left out.
SealRenamed(dirs, l) ==
  [dirs EXCEPT ![l].seal = IF @ = "sealed" THEN "sealed" ELSE "marked"]

\* write_json of sealed.json that returns Ok: renamed and synced.
Seal(dirs, l) == [dirs EXCEPT ![l].seal = "sealed"]

\* write_json of sealed.json whose directory sync fails after the rename.
\* The directory was synced before, which has settled an earlier mark.
SealUnsynced(dirs, l) ==
  [dirs EXCEPT ![l].seal = IF @ = "open" THEN "marked" ELSE "sealed"]

Remove(dirs, D) == [l \in Id |-> IF l \in D THEN Removed ELSE dirs[l]]

\* Advisory locks end with the process that holds them.
Unlocked(dirs) == [l \in Id |-> [dirs[l] EXCEPT !.session = "free"]]

\* Layouts that hold something no directory sync has made durable.
Volatile(dirs) == {l \in Id : dirs[l].there /\ dirs[l].seal # "sealed"}

(***************************************************************************)
(* What a power loss leaves.  Bytes are synced before sealed.json is       *)
(* written, so an unsynced seal may disappear but its bytes do not; the    *)
(* bytes of an open layout may.  What survives is durable from then on.    *)
(***************************************************************************)
AfterPowerLoss(dirs, lost) ==
  [l \in Id |->
     [there |-> dirs[l].there,
      data |-> IF l \in lost /\ dirs[l].seal = "open" THEN NoData ELSE dirs[l].data,
      seal |-> IF l \in lost THEN "open"
               ELSE IF dirs[l].seal = "marked" THEN "sealed" ELSE dirs[l].seal,
      session |-> "free"]]
=============================================================================
