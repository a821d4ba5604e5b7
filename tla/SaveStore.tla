------------------------------ MODULE SaveStore ------------------------------
(***************************************************************************)
(* What a durable save database promises, with no slots, files or crashes: *)
(* one durable snapshot, and at most one newer snapshot whose fate is      *)
(* still open.  The newer one is the result of exactly one batch applied   *)
(* to the durable one; it becomes durable as a whole or disappears as a    *)
(* whole, and nothing else ever changes the durable snapshot.              *)
(***************************************************************************)
CONSTANTS
    Genesis,          \* the snapshot of a new database
    Follows(_, _)     \* Follows(s, t): some valid batch leads from s to t

VARIABLES
    store,            \* the snapshot every recovery is certain to reach
    latest            \* the snapshot a reopening process sees now

storeVars == <<store, latest>>

Init == store = Genesis /\ latest = Genesis

\* A commit replaces the inactive slot: its outcome is open.
Publish ==
    /\ latest = store
    /\ Follows(store, latest')
    /\ UNCHANGED store

\* The open commit reaches the disk.
Harden ==
    /\ latest # store
    /\ store' = latest
    /\ UNCHANGED latest

\* A power loss takes the open commit back.
Revert ==
    /\ latest # store
    /\ latest' = store
    /\ UNCHANGED store

Next == Publish \/ Harden \/ Revert

Spec == Init /\ [][Next]_storeVars

=============================================================================
