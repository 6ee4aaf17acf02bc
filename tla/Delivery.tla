----------------------------- MODULE Delivery -----------------------------
(***************************************************************************)
(* What a sync job promises, with no downloads, attempts or retries: its   *)
(* files arrive at the destinations one after the other, and it is done    *)
(* when all that are wanted there have arrived or a destination has        *)
(* answered for them; those may arrive later, or never.  A job that was    *)
(* given up may be taken up again, as its file may not have been removed.  *)
(***************************************************************************)
CONSTANT Cells  \* what the job could deliver: one file at one destination

VARIABLES wantedCells, delivered, accepted, verdict

vars == <<wantedCells, delivered, accepted, verdict>>

Init ==
  /\ wantedCells \subseteq Cells
  /\ delivered = {}
  /\ accepted = {}
  /\ verdict = "open"

(* A destination answers for a file that is not there.                     *)
Accept(cells) ==
  /\ verdict # "done"
  /\ cells \cap delivered = {}
  /\ accepted' = accepted \cup cells
  /\ UNCHANGED <<wantedCells, delivered, verdict>>

Deliver(arriving) ==
  /\ verdict # "done" \/ arriving \subseteq accepted
  /\ arriving \cap delivered = {}
  /\ delivered' = delivered \cup arriving
  /\ accepted' = accepted \ arriving
  /\ UNCHANGED <<wantedCells, verdict>>

Complete ==
  /\ wantedCells \subseteq delivered \cup accepted
  /\ verdict' = "done"
  /\ UNCHANGED <<wantedCells, delivered, accepted>>

GiveUp ==
  /\ verdict # "done"
  /\ verdict' = "givenUp"
  /\ UNCHANGED <<wantedCells, delivered, accepted>>

Next ==
  \/ \E cells \in SUBSET Cells : Accept(cells) \/ Deliver(cells)
  \/ Complete
  \/ GiveUp

Spec == Init /\ [][Next]_vars
=============================================================================
