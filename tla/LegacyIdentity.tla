--------------------------- MODULE LegacyIdentity ---------------------------
(***************************************************************************)
(* Identities of the legacy tip jar: decentralised identifiers and their   *)
(* claims, credentials, reputation tokens that decay, NFTs composed into   *)
(* one another, recovery of an account by its guardians, roles, disputes.  *)
(***************************************************************************)
EXTENDS LegacyLedger, SequencesExt

CONSTANTS
  Lifetimes,        \* expiry of a credential, from its issue; None: never
  HalfLife,         \* HALF_LIFE_SECS
  ScoreUnit,        \* SCORE_PER_UNIT
  Mints,            \* amounts the admin mints for: rep_mint takes any, negative ones too
  HistorySize,      \* HISTORY_SIZE
  Weights,          \* weights of guardians
  ApprovalPercent,  \* approval_threshold
  TimelockDelay,    \* timelock_delay
  RevocationDelay,  \* guardian_revocation_delay
  MaxRequest,       \* bound: the largest number of a recovery request
  Roles             \* Role

VARIABLES
  dids,             \* DidKey::Record, Claim
  credentials,      \* VcKey::Record
  repTokens,        \* RepTokenKey::Token, History
  nfts,             \* NftKey::Record, Children
  recovery,         \* DataKey::RecoveryGuardians, RecoveryCounter, RecoveryRequest, RecoveryApproval
  roles,            \* RoleKey::User, Members
  disputes          \* DisputeKey::Record, EvidenceCtr

identityVars == <<dids, credentials, repTokens, nfts, recovery, roles, disputes>>

ASSUME IdentityAssumption ==
  /\ \A life \in Lifetimes : life = None \/ life \in Nat
  /\ Weights \subseteq Nat
  /\ ApprovalPercent \in Nat /\ TimelockDelay \in Nat /\ RevocationDelay \in Nat
  /\ MaxRequest \in Nat
  /\ HalfLife \in Nat \ {0} /\ ScoreUnit \in Nat \ {0} /\ Mints \subseteq Int /\ HistorySize \in Nat \ {0, 1}

IdentityInit ==
  /\ dids = [records |-> <<>>, claims |-> <<>>]
  /\ credentials = <<>>
  /\ repTokens = PerParty([score |-> 0, updated |-> None, minted |-> 0, decayed |-> 0, log |-> <<>>,
                           forgiven |-> 0])
  /\ nfts = <<>>
  /\ recovery = [guardians |-> PerParty(<<>>), counter |-> 0,
                 requests |-> [i \in 1 .. MaxRequest |-> None], approvals |-> {}]
  /\ roles = [user |-> PerParty(None), members |-> [r \in Roles |-> {}]]
  /\ disputes = <<>>

-----------------------------------------------------------------------------
register_did(p) == dids' = [dids EXCEPT !.records = Append(@, [owner |-> p, updated |-> now])]
did_register(p) == require_not_paused /\ register_did(p)

update_did(p, i) == dids.records[i].owner = p /\ dids' = [dids EXCEPT !.records[i].updated = now]
did_update(p, i) == require_not_paused /\ update_did(p, i)

add_claim(i) == dids' = [dids EXCEPT !.claims = Append(@, [did |-> i, verified |-> FALSE])]
did_add_claim(p, i) == require_not_paused /\ dids.records[i].owner = p /\ add_claim(i)

verify_claim(k) == dids' = [dids EXCEPT !.claims[k].verified = TRUE]
did_verify_claim(k) == verify_claim(k)

issue_credential(p, q, life) ==
  credentials' = Append(credentials, [issuer |-> p, subject |-> q, status |-> "Active",
                                      expires |-> IF life = None THEN None ELSE now + life])
vc_issue(p, q, life) == require_not_paused /\ issue_credential(p, q, life)

verify_credential(k) ==
  /\ k.status = "Active"
  /\ k.expires = None \/ now <= k.expires

revoke_credential(p, i) ==
  /\ credentials[i].issuer = p
  /\ credentials[i].status = "Active"
  /\ credentials' = [credentials EXCEPT ![i].status = "Revoked"]
vc_revoke(p, i) == require_not_paused /\ revoke_credential(p, i)

DidNext ==
  /\ \/ /\ \E p \in Party : \/ did_register(p)
                            \/ \E i \in DOMAIN dids.records : did_update(p, i) \/ did_add_claim(p, i)
        /\ UNCHANGED credentials
     \/ /\ \E k \in DOMAIN dids.claims : did_verify_claim(k)
        /\ UNCHANGED credentials
     \/ /\ \E p \in Party : \/ \E q \in Party, life \in Lifetimes : vc_issue(p, q, life)
                            \/ \E i \in DOMAIN credentials : vc_revoke(p, i)
        /\ UNCHANGED dids
  /\ UNCHANGED <<repTokens, nfts, recovery, roles, disputes>>

-----------------------------------------------------------------------------
\* A score halves with every half-life, and falls in proportion in between; one
\* below zero is back at zero.
apply_decay(score, elapsed) ==
  LET s == score \div 2 ^ (elapsed \div HalfLife)
  IN  IF score <= 0 THEN 0 ELSE s - (s * (elapsed % HalfLife)) \div (2 * HalfLife)

push_history(log, e) == Append(IF Len(log) >= HistorySize THEN Tail(log) ELSE log, e)

Elapsed(k) == IF k.updated = None THEN 0 ELSE now - k.updated

\* What a decay moved the score by, counted as decayed whichever way it went; forgiven,
\* as history, is the part that went up.
Applied(k, kept) ==
  [k EXCEPT !.score = kept, !.updated = now, !.decayed = @ + Larger(kept - k.score, k.score - kept),
            !.forgiven = @ + Larger(0, kept - k.score)]

Minted(k, x) ==
  LET gain == Quotient(x, ScoreUnit)
      kept == apply_decay(k.score, Elapsed(k))
      log == push_history(k.log, [delta |-> gain, after |-> kept + gain])
  IN  [Applied(k, kept) EXCEPT
         !.score = kept + gain, !.minted = @ + gain,
         !.log = IF kept = k.score THEN log
                 ELSE push_history(log, [delta |-> kept - k.score, after |-> kept])]
rep_mint(caller, p, x) ==
  require_not_paused /\ caller = Admin /\ repTokens' = [repTokens EXCEPT ![p] = Minted(@, x)]

Decayed(k) ==
  LET kept == apply_decay(k.score, Elapsed(k))
  IN  [Applied(k, kept) EXCEPT !.log = push_history(@, [delta |-> kept - k.score, after |-> kept])]
rep_decay(p) == Elapsed(repTokens[p]) > 0 /\ repTokens' = [repTokens EXCEPT ![p] = Decayed(@)]

RepTokenNext ==
  /\ \E p \in Party : rep_decay(p) \/ \E caller \in Party, x \in Mints : rep_mint(caller, p, x)
  /\ UNCHANGED <<dids, credentials, nfts, recovery, roles, disputes>>

-----------------------------------------------------------------------------
\* The children of an NFT are a list whose order nothing looks at: a bag, the number
\* of times each NFT is listed.
Copies(bag, j) == IF j \in DOMAIN bag THEN bag[j] ELSE 0
Pushed(bag, j) == [k \in DOMAIN bag \cup {j} |-> Copies(bag, k) + IF k = j THEN 1 ELSE 0]
nft_mint(p) ==
  /\ require_not_paused
  /\ nfts' = Append(nfts, [owner |-> p, parent |-> None, children |-> <<>>])

compose(i, j) == nfts' = [nfts EXCEPT ![j].parent = i, ![i].children = Pushed(@, j)]
\* Two may be each other's parent.
nft_compose(p, i, j) ==
  /\ require_not_paused
  /\ i # j
  /\ nfts[i].owner = p /\ nfts[j].owner = p
  /\ nfts[j].parent = None
  /\ compose(i, j)

decompose(j) ==
  LET i == nfts[j].parent
  IN  nfts' = [nfts EXCEPT ![j].parent = None, ![i].children = Restrict(@, DOMAIN @ \ {j})]
nft_decompose(p, j) ==
  /\ require_not_paused
  /\ nfts[j].owner = p
  /\ nfts[j].parent # None
  /\ decompose(j)

NftNext ==
  /\ \E p \in Party :
       \/ nft_mint(p)
       \/ \E j \in DOMAIN nfts : nft_decompose(p, j) \/ \E i \in DOMAIN nfts : nft_compose(p, i, j)
  /\ UNCHANGED <<dids, credentials, repTokens, recovery, roles, disputes>>

-----------------------------------------------------------------------------
\* By anyone, for anyone; the one counter of all requests starts again.
init_recovery(c) ==
  recovery' = [recovery EXCEPT !.guardians[c] = <<>>, !.counter = 0]

Serving(g, p) == g.who = p /\ g.until = 0
add_guardian(c, p, w) ==
  /\ \A g \in ToSet(recovery.guardians[c]) : ~Serving(g, p)
  /\ recovery' = [recovery EXCEPT !.guardians[c] = Append(@, [who |-> p, weight |-> w, until |-> 0])]

revoke_guardian(c, p) ==
  recovery' = [recovery EXCEPT !.guardians[c] = [k \in DOMAIN @ |->
                 IF Serving(@[k], p) THEN [@[k] EXCEPT !.until = now + RevocationDelay] ELSE @[k]]]

get_active_guardians(c) ==
  {k \in DOMAIN recovery.guardians[c] :
     recovery.guardians[c][k].until = 0 \/ recovery.guardians[c][k].until > now}
get_total_guardian_weight(c) ==
  SumFunction([k \in get_active_guardians(c) |-> recovery.guardians[c][k].weight])

\* voters and needed are history: who approved this request, and the weight that
\* was asked for when it was locked.
create_recovery_request(c, to) ==
  LET i == recovery.counter + 1
  IN  /\ get_active_guardians(c) # {}
      /\ i <= MaxRequest
      /\ recovery' = [recovery EXCEPT !.counter = i,
           !.requests[i] = [creator |-> c, new_owner |-> to, status |-> "Voting", count |-> 0,
                            timelock_end |-> 0, executed_at |-> 0, locked_at |-> 0,
                            voters |-> {}, needed |-> 0]]

\* Mutant: a guardian may approve again.
AlreadyApproved_never(i, p) == FALSE

\* A number that is used again still has the approvals of its earlier request.
AlreadyApproved(i, p) == <<i, p>> \in recovery.approvals

\* The weights decide how much is needed; each approval counts for one.
approve_recovery(i, p) ==
  LET r == recovery.requests[i]
      needed == (get_total_guardian_weight(r.creator) * ApprovalPercent) \div 100
      voted == [r EXCEPT !.count = @ + 1, !.voters = @ \cup {p}]
  IN  /\ r # None
      /\ r.status = "Voting"
      /\ \E k \in get_active_guardians(r.creator) : recovery.guardians[r.creator][k].who = p
      /\ ~AlreadyApproved(i, p)
      /\ recovery' = [recovery EXCEPT !.approvals = @ \cup {<<i, p>>},
           !.requests[i] = IF voted.count < needed THEN voted
                           ELSE [voted EXCEPT !.status = "Locked", !.needed = needed, !.locked_at = now,
                                              !.timelock_end = now + TimelockDelay]]

execute_recovery(i) ==
  LET r == recovery.requests[i]
  IN  /\ r # None
      /\ r.status = "Locked"
      /\ now >= r.timelock_end
      /\ recovery' = [recovery EXCEPT !.requests[i].status = "Executed", !.requests[i].executed_at = now]

RecoveryNext ==
  /\ \/ \E c \in Party : \/ init_recovery(c)
                         \/ \E p \in Party : \/ revoke_guardian(c, p) \/ create_recovery_request(c, p)
                                             \/ \E w \in Weights : add_guardian(c, p, w)
     \/ \E i \in 1 .. MaxRequest : execute_recovery(i) \/ \E p \in Party : approve_recovery(i, p)
  /\ UNCHANGED <<dids, credentials, repTokens, nfts, roles, disputes>>

-----------------------------------------------------------------------------
\* A new role replaces the old one; the old role's list keeps its member.
grant_role(p, r) == roles' = [roles EXCEPT !.user[p] = r, !.members[r] = @ \cup {p}]
revoke_role(p) ==
  /\ roles.user[p] # None
  /\ roles' = [roles EXCEPT !.user[p] = None, !.members[roles.user[p]] = @ \ {p}]

create_dispute(p) ==
  /\ require_not_paused
  /\ disputes' = Append(disputes, [initiator |-> p, status |-> "Open", arbitrator |-> None, evidence |-> 0, by |-> None])
\* Whatever became of the dispute so far.
assign_arbitrator(i, p) ==
  disputes' = [disputes EXCEPT ![i] = [@ EXCEPT !.arbitrator = p, !.status = "UnderReview"]]
submit_evidence(i) ==
  /\ require_not_paused
  /\ disputes[i].status \in {"Open", "UnderReview"}
  /\ disputes' = [disputes EXCEPT ![i].evidence = @ + 1]
resolve_dispute(i, p, approved) ==
  /\ require_not_paused
  /\ disputes[i].arbitrator = p
  /\ disputes' = [disputes EXCEPT ![i] = [@ EXCEPT !.status = IF approved THEN "Resolved" ELSE "Rejected", !.by = p]]

DisputeNext ==
  /\ \/ /\ \E p \in Party : revoke_role(p) \/ \E r \in Roles : grant_role(p, r)
        /\ UNCHANGED disputes
     \/ /\ \/ \E p \in Party : create_dispute(p)
           \/ \E i \in DOMAIN disputes :
                \/ submit_evidence(i)
                \/ \E p \in Party : \/ assign_arbitrator(i, p)
                                    \/ \E approved \in BOOLEAN : resolve_dispute(i, p, approved)
        /\ UNCHANGED roles
  /\ UNCHANGED <<dids, credentials, repTokens, nfts, recovery>>

-----------------------------------------------------------------------------
\* A credential that no longer verifies, revoked or expired, never does again.
CredentialsOneWay ==
  [][\A i \in DOMAIN credentials :
       ~verify_credential(credentials[i]) => ~verify_credential(credentials[i])']_<<credentials, now>>

\* The entry of a score is the last of its log or, where a mint found a decay, the one
\* before.
ScoreLogged(score, log) ==
  /\ Len(log) <= HistorySize
  /\ IF log = <<>> THEN score = 0
     ELSE \E i \in Larger(1, Len(log) - 1) .. Len(log) :
            log[i].after = score /\ Smaller(0, log[i].delta) <= score
\* Whatever decays and mints, of negative amounts too, alternate: a score is what was
\* minted less what decayed, where a score found below zero counts as decayed though it
\* rose; it is below zero only from the last mint, by at most that mint; and one of the
\* last two entries of the bounded log is the one that led to it.
ScoresAddUp ==
  \A p \in Party :
    LET k == repTokens[p]
    IN  /\ k.score = k.minted - k.decayed + 2 * k.forgiven
        /\ ScoreLogged(k.score, k.log)

\* A parent lists exactly the NFTs that name it as their parent, each once, and
\* both belong to one owner.
ChildrenAgree ==
  \A i, j \in DOMAIN nfts :
    /\ nfts[j].parent = i => nfts[i].owner = nfts[j].owner
    /\ Copies(nfts[i].children, j) = IF nfts[j].parent = i THEN 1 ELSE 0

\* A recovery is executed only when as many guardians as were needed approved this
\* very request, each counted once, and the whole delay after that has passed,
\* whatever was revoked, added or numbered anew in between.
RecoveredOnApproval ==
  \A i \in 1 .. MaxRequest : recovery.requests[i] # None =>
    LET r == recovery.requests[i]
    IN  /\ r.count = Cardinality(r.voters)
        /\ r.status \in {"Locked", "Executed"} => r.count >= r.needed /\ r.voters # {}
        /\ r.status = "Executed" => r.executed_at >= r.locked_at + TimelockDelay

\* Whoever has a role is in that role's list, and a resolved dispute was resolved by
\* the arbitrator it still names.
RolesListed ==
  /\ \A p \in Party : roles.user[p] # None => p \in roles.members[roles.user[p]]
  /\ \A d \in ToSet(disputes) : d.status \in {"Resolved", "Rejected"} => d.by = d.arbitrator

-----------------------------------------------------------------------------
\* What the variables range over.
Credential ==
  [issuer : Party, subject : Party, status : {"Active", "Revoked"}, expires : Int \cup {None}]
CredentialsInv == credentials \in Seq(Credential)

ScoreChange == [delta : Int, after : Int]
RepToken ==
  [score : Int, updated : Nat \cup {None}, minted : Int, decayed : Int, forgiven : Nat,
   log : Seq(ScoreChange)]
ScoresInv ==
  /\ repTokens \in [Party -> RepToken]
  /\ \A p \in Party :
       /\ repTokens[p].updated # None => repTokens[p].updated <= now
       /\ repTokens[p].score = repTokens[p].minted - repTokens[p].decayed + 2 * repTokens[p].forgiven
       /\ ScoreLogged(repTokens[p].score, repTokens[p].log)

ComposableNft(n, kids) ==
  [owner : Party, parent : (1 .. n) \cup {None}, children : [kids -> Nat \ {0}]]
NftSound(s, n) ==
  /\ DOMAIN s.children \subseteq 1 .. n
  /\ s \in ComposableNft(n, DOMAIN s.children)
NftsInv ==
  /\ nfts \in Seq(Range(nfts))
  /\ \A i \in DOMAIN nfts : NftSound(nfts[i], Len(nfts)) /\ nfts[i].parent # i
  /\ ChildrenAgree

Guardian == [who : Party, weight : Nat, until : Nat]
RecoveryRequest ==
  [creator : Party, new_owner : Party, status : {"Voting", "Locked", "Executed"}, count : Nat,
   timelock_end : Nat, executed_at : Nat, locked_at : Nat, voters : SUBSET Party, needed : Int]
Recovery ==
  [guardians : [Party -> Seq(Guardian)], counter : Nat,
   requests : [1 .. MaxRequest -> RecoveryRequest \cup {None}],
   approvals : SUBSET ((1 .. MaxRequest) \X Party)]
\* A request counts its own voters, all of whom are marked as having approved its
\* number, and its lock ends the whole delay after it began.
RequestSound(r, i, approvals) ==
  /\ r \in RecoveryRequest
  /\ r.count = Cardinality(r.voters)
  /\ \A p \in r.voters : <<i, p>> \in approvals
  /\ r.status \in {"Locked", "Executed"} => r.count >= r.needed /\ r.voters # {}
  /\ r.status = "Locked" => r.timelock_end = r.locked_at + TimelockDelay
  /\ r.status = "Executed" => r.executed_at >= r.locked_at + TimelockDelay
RecoveryInv ==
  /\ recovery \in Recovery
  /\ \A i \in 1 .. MaxRequest :
       recovery.requests[i] # None => RequestSound(recovery.requests[i], i, recovery.approvals)
=============================================================================
