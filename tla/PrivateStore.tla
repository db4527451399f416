---------------------------- MODULE PrivateStore ----------------------------
(***************************************************************************)
(* The owned directory tree of one ingestion source and the primitives of  *)
(* src/nearmiss/ingestion.py that write it: content-addressed artifacts    *)
(* under raw/ and normalized/, the immutable receipts under receipts/, and *)
(* the single mutable file normalized/current.json.                        *)
(*                                                                         *)
(* A file is a directory entry.  _install_immutable writes a synced        *)
(* temporary file, hard-links it to its destination, syncs the directory   *)
(* and unlinks the temporary file; a process that stops in the middle      *)
(* leaves the entry linked but not synced (`volatile') or still carrying   *)
(* the second link of the temporary file (`doubled').  The unlink comes    *)
(* after the sync, so a power loss may undo it (`unlinked').               *)
(***************************************************************************)
EXTENDS Naturals, FiniteSets

CONSTANTS
    Raws,         \* raw payloads a fetch can return
    Norms,        \* normalized payloads
    Normalize,    \* the deterministic normalizer, Raws -> Norms
    AttemptIds,   \* names an attempt can have
    None,         \* no file, no marker, no digest
    Faults,       \* the kinds of failure the environment may inject
    MaxFaults     \* bound on injected failures

\* exception: a call to the file system raises; interrupt: KeyboardInterrupt or
\* SystemExit; kill: the process is gone; read: the marker or an artifact cannot
\* be read; power: the machine stops; unlink: with any of the first two, the
\* unlink of a temporary file may be what fails, and the file stays.
FaultKinds == {"exception", "interrupt", "kill", "read", "power", "unlink"}

ASSUME StoreAssumption ==
    /\ Normalize \in [Raws -> Norms]
    /\ None \notin Raws \cup Norms \cup AttemptIds
    /\ Faults \subseteq FaultKinds
    /\ MaxFaults \in Nat

VARIABLES
    disk,      \* [Files -> content or None], what a reader sees
    volatile,  \* entries whose directory was not synced since they appeared
    doubled,   \* entries that still carry a second hard link
    unlinked,  \* entries whose second link is removed, but not durably
    current,   \* content of normalized/current.json as a reader sees it
    durable,   \* the content current.json has after a power loss
    faults     \* number of failures injected so far

storeVars == <<disk, volatile, doubled, unlinked, current, durable, faults>>

(***************************************************************************)
(* Receipts.  `run' stands for the start timestamp of the run that wrote   *)
(* the receipt and `done' for the completion timestamp, which the success  *)
(* receipt takes from the clock under the lock.                            *)
(***************************************************************************)
SuccessReceipts ==
    [kind : {"success"}, id : AttemptIds, run : Nat, done : Nat,
     raw : Raws, norm : Norms, prev : Norms \cup {None}, activated : {TRUE}]

FailureReceipts ==
    [kind : {"failure"}, id : AttemptIds, run : Nat, done : {0},
     raw : Raws \cup {None}, norm : Norms \cup {None},
     prev : Norms \cup {None}, activated : BOOLEAN]

Receipts == SuccessReceipts \cup FailureReceipts

RawFile(x)     == <<"raw", x>>
NormFile(y)    == <<"normalized", y>>
ReceiptFile(i) == <<"receipt", i>>         \* receipts/<id>.json
\* Mutant: the failure of a failed rollback under the attempt's success name.
FailureFileShared(i) == <<"receipt", i>>

FailureFile(i) == <<"failure", i>>         \* receipts/<id>.failure.json

Files == {RawFile(x) : x \in Raws} \cup {NormFile(y) : y \in Norms}
         \cup {ReceiptFile(i) : i \in AttemptIds}
         \cup {FailureFile(i) : i \in AttemptIds}

Directory(f) == IF f[1] = "failure" THEN "receipt" ELSE f[1]
Siblings(f)  == {g \in Files : Directory(g) = Directory(f)}

\* _read_regular refuses an entry with a link count other than one.
Holds(f, content) == disk[f] = content /\ f \notin doubled

\* Both artifacts of a success receipt are there, readable, with its bytes.
Resolves(m) == Holds(RawFile(m.raw), m.raw) /\ Holds(NormFile(m.norm), m.norm)

Archived(m) == Holds(ReceiptFile(m.id), m)

-----------------------------------------------------------------------------
(***************************************************************************)
(* Failures.  Strike(e) injects one; Calm says that none happened.         *)
(***************************************************************************)
Strike(e) == e \in Faults /\ faults < MaxFaults /\ faults' = faults + 1
Calm      == UNCHANGED faults

\* The exceptions that unwind a run, and the kill that does not unwind at all.
Stops == {"exception", "interrupt", "kill"}

(***************************************************************************)
(* _install_immutable.  A new entry is linked and its directory synced,    *)
(* which also makes its siblings durable; the temporary name goes after    *)
(* that sync.  An existing entry is compared and left alone: that branch   *)
(* does not sync.                                                          *)
(***************************************************************************)
Installable(f, content) == disk[f] = None \/ Holds(f, content)

\* Mutant: the directory of a new entry is not synced.
InstallUnsynced(f, content) ==
    /\ Installable(f, content)
    /\ disk' = [disk EXCEPT ![f] = content]
    /\ volatile' = IF disk[f] = None THEN volatile \cup {f} ELSE volatile
    /\ unlinked' = IF disk[f] = None THEN unlinked \cup {f} ELSE unlinked
    /\ UNCHANGED <<doubled, current, durable>>

Install(f, content) ==
    /\ Installable(f, content)
    /\ disk' = [disk EXCEPT ![f] = content]
    /\ volatile' = IF disk[f] = None THEN volatile \ Siblings(f) ELSE volatile
    /\ unlinked' = IF disk[f] = None THEN (unlinked \ Siblings(f)) \cup {f}
                   ELSE unlinked
    /\ UNCHANGED <<doubled, current, durable>>

KeepsTemporary(e) == e = "kill" \/ "unlink" \in Faults

\* The call raises e: a collision, a failure before the link, or one after it.
Collides(f, content, e) ==
    /\ ~Installable(f, content)
    /\ e = "exception"
    /\ Calm
    /\ UNCHANGED <<disk, volatile, doubled, unlinked, current, durable>>

FailsUnlinked(e) ==
    /\ Strike(e)
    /\ UNCHANGED <<disk, volatile, doubled, unlinked, current, durable>>

\* Mutant: an entry that is already there is linked again.
FailsRelinked(f, content, e) ==
    /\ Strike(e)
    /\ disk' = [disk EXCEPT ![f] = content]
    /\ volatile' = volatile \cup {f}
    /\ doubled' \in {doubled} \cup (IF KeepsTemporary(e) THEN {doubled \cup {f}}
                                   ELSE {})
    /\ unlinked' = unlinked \cup {f}
    /\ UNCHANGED <<current, durable>>

FailsLinked(f, content, e) ==
    /\ disk[f] = None
    /\ Strike(e)
    /\ disk' = [disk EXCEPT ![f] = content]
    /\ volatile' = volatile \cup {f}
    /\ doubled' \in {doubled} \cup (IF KeepsTemporary(e) THEN {doubled \cup {f}}
                                   ELSE {})
    /\ unlinked' = unlinked \cup {f}
    /\ UNCHANGED <<current, durable>>

InstallRaises(f, content, e) ==
    \/ Collides(f, content, e)
    \/ FailsUnlinked(e)
    \/ FailsLinked(f, content, e)

(***************************************************************************)
(* _atomic_replace of current.json, and the unlink of it that restores the *)
(* absence of a marker: the rename is atomic, the sync may not happen.     *)
(* current.json lies in normalized/, so its sync covers those artifacts.   *)
(***************************************************************************)
MarkerSiblings == {NormFile(y) : y \in Norms}

ReplaceMarker(m) ==
    /\ current' = m
    /\ durable' = m
    /\ volatile' = volatile \ MarkerSiblings
    /\ unlinked' = unlinked \ MarkerSiblings
    /\ UNCHANGED <<disk, doubled>>

ReplaceMarkerRaises(m, e) ==
    /\ Strike(e)
    /\ current' \in {current, m}
    /\ UNCHANGED <<disk, volatile, doubled, unlinked, durable>>

\* A power loss keeps synced entries and any subset of the others, and may
\* bring back a second link whose removal was not synced.
LosePower ==
    /\ Strike("power")
    /\ \E lost \in SUBSET volatile :
          /\ disk' = [f \in Files |-> IF f \in lost THEN None ELSE disk[f]]
          /\ doubled' \in SUBSET ((doubled \cup unlinked) \ lost)
          /\ doubled \ volatile \subseteq doubled'
    /\ current' \in {current, durable}
    /\ durable' = current'
    /\ volatile' = {}
    /\ unlinked' = {}

StoreInit ==
    /\ disk = [f \in Files |-> None]
    /\ volatile = {}
    /\ doubled = {}
    /\ unlinked = {}
    /\ current = None
    /\ durable = None
    /\ faults = 0

StoreTypeOK ==
    /\ disk \in [Files -> Raws \cup Norms \cup Receipts \cup {None}]
    /\ volatile \subseteq Files
    /\ doubled \subseteq Files
    /\ unlinked \subseteq Files
    /\ current \in SuccessReceipts \cup {None}
    /\ durable \in SuccessReceipts \cup {None}
    /\ faults \in 0 .. MaxFaults
=============================================================================
