------------------------------ MODULE Handover ------------------------------
(***************************************************************************)
(* What a two-step role transfer promises, with no storage layout and no   *)
(* entry points: a role has a holder, an offer names the only party that   *)
(* may take the role over, and the offer is good through a fixed ledger.   *)
(* TipJarGovernance implements this module twice, once for the admin and   *)
(* once for the fee collector.                                             *)
(***************************************************************************)
EXTENDS Integers

CONSTANTS Party,     \* who may hold the role
          Nobody,    \* no holder, no offer
          Window     \* how many ledgers an offer stays good

VARIABLES now,       \* the current ledger
          holder,    \* the party that has the role, or Nobody
          offer      \* Nobody, or [to |-> party, until |-> last good ledger]

vars == <<now, holder, offer>>

Init ==
  /\ now \in Nat
  /\ holder \in Party \cup {Nobody}
  /\ offer = Nobody

Pass ==
  /\ now' = now + 1
  /\ UNCHANGED <<holder, offer>>

\* The first holder is installed without an offer.
Install(p) ==
  /\ holder = Nobody
  /\ offer = Nobody
  /\ holder' = p
  /\ UNCHANGED <<now, offer>>

Offer(p) ==
  /\ offer = Nobody
  /\ offer' = [to |-> p, until |-> now + Window]
  /\ UNCHANGED <<now, holder>>

Take ==
  /\ offer # Nobody
  /\ now <= offer.until
  /\ holder' = offer.to
  /\ offer' = Nobody
  /\ UNCHANGED now

Retract ==
  /\ offer # Nobody
  /\ offer' = Nobody
  /\ UNCHANGED <<now, holder>>

Next ==
  \/ Pass
  \/ Take
  \/ Retract
  \/ \E p \in Party : Install(p) \/ Offer(p)

Spec == Init /\ [][Next]_vars
=============================================================================
