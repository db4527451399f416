---------------------------- MODULE ActiveDataset ----------------------------
(***************************************************************************)
(* What an ingestion source promises to its readers, without the lock, the *)
(* files and the processes (docs/adr/0007, docs/INGESTION.md): there is at *)
(* most one active generation; a new one takes its place only after the    *)
(* active one is in the immutable archive; and until the attempt that      *)
(* activated it has settled, that attempt may put the generation before it *)
(* back.                                                                   *)
(***************************************************************************)
CONSTANTS
    Generations,   \* the success markers
    None,          \* no active generation
    Settled        \* the active generation cannot be withdrawn any more

VARIABLES
    active,     \* the active generation or None
    fallback,   \* what a withdrawal restores, or Settled
    archive     \* the archived generations

vars == <<active, fallback, archive>>

Init == active = None /\ fallback = Settled /\ archive = {}

Activate ==
    /\ fallback = Settled
    /\ active # None => active \in archive
    /\ active' \in Generations \ (archive \cup {active})
    /\ fallback' \in {active, Settled}
    /\ UNCHANGED archive

Archive ==
    /\ active # None
    /\ archive' = archive \cup {active}
    /\ fallback' \in {fallback, Settled}
    /\ UNCHANGED active

Settle ==
    /\ fallback' = Settled
    /\ UNCHANGED <<active, archive>>

Withdraw ==
    /\ fallback # Settled
    /\ active' = fallback
    /\ fallback' = Settled
    /\ UNCHANGED archive

Next == Activate \/ Archive \/ Settle \/ Withdraw

Spec == Init /\ [][Next]_vars
=============================================================================
