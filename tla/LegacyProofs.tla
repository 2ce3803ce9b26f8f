---------------------------- MODULE LegacyProofs ----------------------------
(***************************************************************************)
(* Commitments and proofs of the legacy tip jar: rounds in which values    *)
(* are committed and later revealed, proofs with nullifiers that the admin *)
(* declares verified, and validity proofs of tips with their aggregates.   *)
(* Nothing is verified cryptographically: a hash is the tuple of what is   *)
(* hashed, so that equal hashes mean equal inputs.                         *)
(***************************************************************************)
EXTENDS LegacyLedger, SequencesExt

CONSTANTS
  Phases,         \* <<commit, reveal>> durations of rounds
  Values,         \* values that are committed
  Salts,          \* their salts
  Nullifiers      \* nullifiers of proofs

VARIABLES
  secrets,        \* DataKey::CommitRevealRound, with its commitments and reveals
  circuits,       \* DataKey::ZkCircuit
  zkProofs,       \* DataKey::ZkProof
  nullifiers,     \* DataKey::ZkNullifier
  privateTips,    \* DataKey::ZkPrivateTip
  tipProofs,      \* ValidityProofKey::Proof
  proofNonce,     \* ValidityProofKey::Nonce
  aggregates      \* ValidityProofKey::Aggregate

zkVars == <<circuits, zkProofs, nullifiers, privateTips>>
validityVars == <<tipProofs, proofNonce, aggregates>>
proofVars == <<secrets, zkVars, validityVars>>

Commitment == [hash : Values \X Salts, at : Int, revealed : BOOLEAN]
Reveal == [value : Values, at : Int]

ASSUME ProofsAssumption ==
  /\ \A d \in Phases : d[1] \in Nat /\ d[2] \in Nat
  /\ None \notin Commitment /\ None \notin Reveal

ProofsInit ==
  /\ secrets = <<>>
  /\ circuits = <<>>
  /\ zkProofs = <<>>
  /\ nullifiers = {}
  /\ privateTips = <<>>
  /\ tipProofs = <<>>
  /\ proofNonce = PerParty(0)
  /\ aggregates = <<>>

-----------------------------------------------------------------------------
compute_commitment(v, salt) == <<v, salt>>

create_round(p, kind, d, least) ==
  [creator |-> p, kind |-> kind, status |-> "Committing", start |-> now, commit_end |-> now + d[1],
   reveal_end |-> now + d[1] + d[2], min_bid |-> least, commits |-> PerParty(None),
   reveals |-> PerParty(None), commit_count |-> 0, reveal_count |-> 0,
   winner |-> None, winning |-> 0]
create_commit_reveal_round(p, kind, d, least) ==
  /\ require_not_paused
  /\ secrets' = Append(secrets, create_round(p, kind, d, least))

Entered(f, p, x) == [f EXCEPT ![p] = x]

commit(r, p, h) ==
  [r EXCEPT !.commits = Entered(@, p, [hash |-> h, at |-> now, revealed |-> FALSE]),
            !.commit_count = @ + 1]
commit_to_round(p, i, h) ==
  /\ require_not_paused
  /\ secrets[i].status = "Committing"
  /\ secrets[i].start <= now /\ now < secrets[i].commit_end
  /\ secrets[i].commits[p] = None
  /\ secrets' = [secrets EXCEPT ![i] = commit(@, p, h)]

Phase(r, status) == [r EXCEPT !.status = status]
start_reveal_phase(i) ==
  /\ require_not_paused
  /\ secrets[i].status = "Committing"
  /\ now >= secrets[i].commit_end
  /\ secrets' = [secrets EXCEPT ![i] = Phase(@, "Revealing")]

Opened(k) == [k EXCEPT !.revealed = TRUE]
reveal(r, p, v) ==
  [r EXCEPT !.commits = Entered(@, p, Opened(r.commits[p])),
            !.reveals = Entered(@, p, [value |-> v, at |-> now]), !.reveal_count = @ + 1]
reveal_commitment(p, i, v, salt) ==
  LET r == secrets[i]
  IN  /\ require_not_paused
      /\ r.status = "Revealing"
      /\ now < r.reveal_end
      /\ r.commits[p] # None /\ ~r.commits[p].revealed
      /\ compute_commitment(v, salt) = r.commits[p].hash
      /\ secrets' = [secrets EXCEPT ![i] = reveal(r, p, v)]

\* An auction ends with its smallest bid and no winner, whatever was revealed.
finalize_round(r) ==
  [r EXCEPT !.status = "Finalized", !.winning = IF r.kind = "TipAuction" THEN r.min_bid ELSE @]
finalize_commit_reveal_round(i) ==
  /\ require_not_paused
  /\ secrets[i].status = "Revealing"
  /\ now >= secrets[i].reveal_end
  /\ secrets' = [secrets EXCEPT ![i] = finalize_round(@)]

cancel_round(r) == Phase(r, "Cancelled")
cancel_commit_reveal_round(p, i) ==
  /\ require_not_paused
  /\ p \in {secrets[i].creator, Admin}
  /\ secrets[i].status \in {"Committing", "Revealing"}
  /\ secrets' = [secrets EXCEPT ![i] = cancel_round(@)]

RevealNext ==
  \/ \E p \in Party, kind \in {"TipAuction", "Vote"}, d \in Phases :
       create_commit_reveal_round(p, kind, d, 1)
  \/ \E i \in DOMAIN secrets :
       \/ \E p \in Party, v \in Values, salt \in Salts :
            commit_to_round(p, i, compute_commitment(v, salt)) \/ reveal_commitment(p, i, v, salt)
       \/ start_reveal_phase(i) \/ finalize_commit_reveal_round(i)
       \/ \E p \in Party : cancel_commit_reveal_round(p, i)

-----------------------------------------------------------------------------
register_circuit(p) == [owner |-> p, active |-> TRUE]
register_zk_circuit(p) ==
  /\ require_not_paused
  /\ circuits' = Append(circuits, register_circuit(p))
  /\ UNCHANGED <<zkProofs, nullifiers, privateTips>>

deactivate_circuit(i) == circuits' = [circuits EXCEPT ![i].active = FALSE]
deactivate_zk_circuit(p, i) ==
  /\ require_not_paused
  /\ circuits[i].owner = p
  /\ deactivate_circuit(i)
  /\ UNCHANGED <<zkProofs, nullifiers, privateTips>>

submit_proof(p, i, n) ==
  /\ zkProofs' = Append(zkProofs, [prover |-> p, circuit |-> i, nullifier |-> n, status |-> "Pending"])
  /\ nullifiers' = nullifiers \cup {n}
submit_zk_proof(p, i, n) ==
  /\ require_not_paused
  /\ circuits[i].active
  /\ n \notin nullifiers
  /\ submit_proof(p, i, n)
  /\ UNCHANGED <<circuits, privateTips>>

\* The admin says whether the proof is valid.
verify_proof(i, valid) ==
  zkProofs' = [zkProofs EXCEPT ![i].status = IF valid THEN "Verified" ELSE "Invalid"]
verify_zk_proof(i, valid) ==
  /\ require_not_paused
  /\ zkProofs[i].status = "Pending"
  /\ verify_proof(i, valid)
  /\ UNCHANGED <<circuits, nullifiers, privateTips>>

revoke_proof(i) == zkProofs' = [zkProofs EXCEPT ![i].status = "Revoked"]
revoke_zk_proof(i) ==
  /\ require_not_paused
  /\ revoke_proof(i)
  /\ UNCHANGED <<circuits, nullifiers, privateTips>>

\* Any number of tips may be made of one proof, by anyone who knows its nullifier.
create_private_tip(p, i, n) ==
  privateTips' = Append(privateTips, [creator |-> p, proof |-> i, nullifier |-> n, claims |-> 0])
create_zk_private_tip(p, i, n) ==
  /\ require_not_paused
  /\ zkProofs[i].status = "Verified"
  /\ zkProofs[i].nullifier = n
  /\ create_private_tip(p, i, n)
  /\ UNCHANGED <<circuits, zkProofs, nullifiers>>

claim_private_tip(i) == privateTips' = [privateTips EXCEPT ![i].claims = @ + 1]
claim_zk_private_tip(p, i) ==
  /\ require_not_paused
  /\ privateTips[i].creator = p
  /\ privateTips[i].claims = 0
  /\ claim_private_tip(i)
  /\ UNCHANGED <<circuits, zkProofs, nullifiers>>

ZkNext ==
  \E p \in Party :
    \/ register_zk_circuit(p)
    \/ \E i \in DOMAIN circuits :
         deactivate_zk_circuit(p, i) \/ \E n \in Nullifiers : submit_zk_proof(p, i, n)
    \/ \E i \in DOMAIN zkProofs :
         \/ \E valid \in BOOLEAN : verify_zk_proof(i, valid)
         \/ revoke_zk_proof(i)
         \/ \E n \in Nullifiers : create_zk_private_tip(p, i, n)
    \/ \E i \in DOMAIN privateTips : claim_zk_private_tip(p, i)

-----------------------------------------------------------------------------
build_commitment(p, c, t, x, nonce) == <<p, c, t, x, nonce>>

bump_nonce(p) == proofNonce' = [proofNonce EXCEPT ![p] = @ + 1]

vp_generate(p, c, t, x) ==
  /\ tipProofs' = Append(tipProofs,
       [sender |-> p, creator |-> c, token |-> t, amount |-> x, nonce |-> proofNonce[p],
        commitment |-> build_commitment(p, c, t, x, proofNonce[p]), validity |-> "Pending"])
  /\ bump_nonce(p)
  /\ UNCHANGED aggregates

\* The commitment is computed again from the fields it was made of.
Verified(k) ==
  [k EXCEPT !.validity =
     IF k.commitment = build_commitment(k.sender, k.creator, k.token, k.amount, k.nonce)
     THEN "Valid" ELSE "Invalid"]
vp_verify(i) ==
  /\ tipProofs[i].validity = "Pending"
  /\ tipProofs' = [tipProofs EXCEPT ![i] = Verified(@)]
  /\ UNCHANGED <<proofNonce, aggregates>>

\* A proof that is listed twice, or is no longer pending, stops the whole batch.
vp_batch_verify(ids) ==
  /\ Len(ids) = Cardinality(ToSet(ids))
  /\ \A i \in ToSet(ids) : tipProofs[i].validity = "Pending"
  /\ tipProofs' = [i \in DOMAIN tipProofs |->
                     IF i \in ToSet(ids) THEN Verified(tipProofs[i]) ELSE tipProofs[i]]
  /\ UNCHANGED <<proofNonce, aggregates>>

ValidIn(ids) == Cardinality({k \in DOMAIN ids : tipProofs[ids[k]].validity = "Valid"})

vp_aggregate(ids) ==
  /\ ids # <<>>
  /\ aggregates' = Append(aggregates,
       [ids |-> ids, root |-> [i \in DOMAIN ids |-> tipProofs[ids[i]].commitment],
        count |-> ValidIn(ids), validity |-> IF ValidIn(ids) = Len(ids) THEN "Valid" ELSE "Invalid",
        revoked |-> {i \in ToSet(ids) : tipProofs[i].validity = "Revoked"}])
  /\ UNCHANGED <<tipProofs, proofNonce>>

\* By anyone who signs as the admin of the call.
vp_revoke(i) ==
  /\ tipProofs' = [tipProofs EXCEPT ![i].validity = "Revoked"]
  /\ UNCHANGED <<proofNonce, aggregates>>

ValidityNext ==
  LET Ids == DOMAIN tipProofs
      Lists == {<<i>> : i \in Ids} \cup (Ids \X Ids)
  IN  \/ \E p, c \in Party, t \in Token, x \in Amounts : vp_generate(p, c, t, x)
      \/ \E i \in Ids : vp_verify(i) \/ vp_revoke(i)
      \/ \E ids \in Lists : vp_batch_verify(ids) \/ vp_aggregate(ids)

-----------------------------------------------------------------------------
\* Nobody sees a value before all commitments are in: a reveal comes after the last
\* moment to commit, within its own phase, and shows what was committed then.
With(f) == {p \in Party : f[p] # None}
RevealedInTime(r) ==
  /\ \A p \in With(r.reveals) :
       /\ p \in With(r.commits)
       /\ r.commits[p].hash[1] = r.reveals[p].value
       /\ \A q \in With(r.commits) : r.commits[q].at < r.reveals[p].at
       /\ r.reveals[p].at < r.reveal_end
  /\ r.commit_count = Cardinality(With(r.commits))
  /\ r.reveal_count = Cardinality(With(r.reveals))
PhasesApart == \A i \in DOMAIN secrets : RevealedInTime(secrets[i])

\* A nullifier is used by one proof, even if that one fails or is revoked, and a
\* private tip rests on a proof that had been verified.
NullifierOnce ==
  /\ \A i, j \in DOMAIN zkProofs : zkProofs[i].nullifier = zkProofs[j].nullifier => i = j
  /\ \A i \in DOMAIN privateTips :
       LET k == privateTips[i]
       IN  /\ zkProofs[k.proof].status \in {"Verified", "Revoked"}
           /\ zkProofs[k.proof].nullifier = k.nullifier
           /\ k.claims <= 1

\* A valid aggregate had only proofs that were verified and not revoked by then, and
\* no two proofs share a commitment, so its root names them.
AggregatesSound ==
  /\ \A i, j \in DOMAIN tipProofs : tipProofs[i].commitment = tipProofs[j].commitment => i = j
  /\ \A a \in ToSet(aggregates) : a.validity = "Valid" =>
       a.revoked = {} /\ \A i \in ToSet(a.ids) : tipProofs[i].validity \in {"Valid", "Revoked"}

-----------------------------------------------------------------------------
\* What the variables range over, and the facts that every call keeps.
RevealRound ==
  [creator : Party, kind : {"TipAuction", "Vote"},
   status : {"Committing", "Revealing", "Finalized", "Cancelled"}, start : Int, commit_end : Int,
   reveal_end : Int, min_bid : Int, commits : [Party -> Commitment \cup {None}],
   reveals : [Party -> Reveal \cup {None}], commit_count : Nat, reveal_count : Nat,
   winner : {None}, winning : Int]
\* Commitments are of before the end of their phase, reveals of after it.
RoundPhased(r) ==
  /\ r.status = "Revealing" => r.commit_end <= now
  /\ \A p \in With(r.commits) : r.commits[p].at < r.commit_end
  /\ \A p \in With(r.reveals) :
       /\ p \in With(r.commits) /\ r.commits[p].revealed
       /\ r.commits[p].hash[1] = r.reveals[p].value
       /\ r.commit_end <= r.reveals[p].at /\ r.reveals[p].at < r.reveal_end
  /\ r.commit_count = Cardinality(With(r.commits))
  /\ r.reveal_count = Cardinality(With(r.reveals))
RevealInv == secrets \in Seq(RevealRound) /\ \A i \in DOMAIN secrets : RoundPhased(secrets[i])

Circuit == [owner : Party, active : BOOLEAN]
ZkProof ==
  [prover : Party, circuit : Nat, nullifier : Nullifiers,
   status : {"Pending", "Verified", "Invalid", "Revoked"}]
PrivateTipOf == [creator : Party, proof : Nat, nullifier : Nullifiers, claims : Nat]
ZkInv ==
  /\ circuits \in Seq(Circuit) /\ zkProofs \in Seq(ZkProof) /\ privateTips \in Seq(PrivateTipOf)
  /\ \A i \in DOMAIN zkProofs : zkProofs[i].nullifier \in nullifiers
  /\ \A i \in DOMAIN privateTips : privateTips[i].proof \in DOMAIN zkProofs
  /\ NullifierOnce

TipProof ==
  [sender : Party, creator : Party, token : Token, amount : Nat, nonce : Nat,
   commitment : Party \X Party \X Token \X Nat \X Nat,
   validity : {"Pending", "Valid", "Invalid", "Revoked"}]
Aggregate ==
  [ids : Seq(Nat), root : Seq(Party \X Party \X Token \X Nat \X Nat), count : Nat,
   validity : {"Valid", "Invalid"}, revoked : SUBSET Nat]
\* A commitment is made of the fields beside it, with a nonce that its sender used once.
ValidityInv ==
  /\ tipProofs \in Seq(TipProof) /\ proofNonce \in [Party -> Nat] /\ aggregates \in Seq(Aggregate)
  /\ \A i \in DOMAIN tipProofs :
       LET k == tipProofs[i]
       IN  /\ k.commitment = build_commitment(k.sender, k.creator, k.token, k.amount, k.nonce)
           /\ k.nonce < proofNonce[k.sender]
  /\ \A i, j \in DOMAIN tipProofs :
       tipProofs[i].sender = tipProofs[j].sender /\ tipProofs[i].nonce = tipProofs[j].nonce => i = j
  /\ \A a \in ToSet(aggregates) : ToSet(a.ids) \subseteq DOMAIN tipProofs
  /\ AggregatesSound
=============================================================================
