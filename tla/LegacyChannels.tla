--------------------------- MODULE LegacyChannels ---------------------------
(***************************************************************************)
(* Channels of the legacy tip jar: payment channels, whose two parties     *)
(* move a balance between them, tip channels, in which a tipper's total    *)
(* only grows, and requests that a relayer submits for a sender.           *)
(***************************************************************************)
EXTENDS LegacyLedger, SequencesExt

CONSTANTS
  Nonces,         \* nonces of channel states and of requests
  DisputeWindows, \* dispute windows of channels
  MetaWindow,     \* the one of a channel that a request opens: 3600
  Validity        \* times until which requests are valid

VARIABLES
  channels,       \* DataKey::PaymentChannel; share is balance_a
  tipChannels,    \* DataKey::TipChannel, with TipChannelEntry; share is tipped_amount
  meta            \* DataKey::MetaTxRelayer, MetaTxNonce, MetaTxNullifier, MetaTxRecord

channelVars == <<channels, tipChannels, meta>>

ChannelId == [a : Party, b : Party, token : Token]
ChannelStatus == {"Open", "Disputed", "Closed", "Settled"}
Channel ==
  [deposit : Int, share : Int, nonce : Int, status : ChannelStatus, since : Int, window : Int,
   disputer : Party \cup {None}]
TipChannel ==
  [deposit : Int, share : Int, nonce : Int, status : ChannelStatus, since : Int, window : Int,
   disputer : Party \cup {None}, entries : Seq(Int)]

ASSUME ChannelsAssumption ==
  /\ Nonces \subseteq Nat /\ DisputeWindows \subseteq Nat /\ MetaWindow \in Nat
  /\ Validity \subseteq Int
  /\ None \notin Channel /\ None \notin TipChannel

ChannelsInit ==
  /\ channels = [k \in ChannelId |-> None]
  /\ tipChannels = [k \in ChannelId |-> None]
  /\ meta = [relayers |-> {}, nonce |-> PerParty(0), consumed |-> {}, records |-> <<>>]

\* payment_channel::open
open(x, y, w) ==
  [deposit |-> x + y, share |-> x, nonce |-> 0, status |-> "Open", since |-> 0, window |-> w,
   disputer |-> None]
balance_b(c) == c.deposit - c.share

open_channel(k, x, y, w) ==
  /\ require_not_paused
  /\ w # 0
  /\ Whitelisted(k.token)
  /\ channels[k] = None
  /\ wallet' = Transfer(Transfer(wallet, k.token, k.a, Jar, x), k.token, k.b, Jar, y)
  /\ \A p \in {k.a, k.b} : wallet'[k.token][p] >= 0
  /\ channels' = [channels EXCEPT ![k] = open(x, y, w)]
  /\ UNCHANGED <<books, tipChannels, meta>>

IsOpen(c) == c # None /\ c.status = "Open"

update_state(c, x, nonce) == [c EXCEPT !.share = x, !.nonce = nonce]
update_channel_state(k, x, nonce) ==
  LET c == channels[k]
  IN  /\ require_not_paused
      /\ IsOpen(c)
      /\ nonce > c.nonce
      /\ x \in 0 .. c.deposit
      /\ channels' = [channels EXCEPT ![k] = update_state(c, x, nonce)]
      /\ UNCHANGED <<wallet, books, tipChannels, meta>>

\* The two parties of a channel share its deposit.
PayParties(k, c, first, second) ==
  /\ wallet[k.token][Jar] >= c.deposit
  /\ wallet' = Transfer(Transfer(wallet, k.token, Jar, k.a, first), k.token, Jar, k.b, second)

WithStatus(c, status) == [c EXCEPT !.status = status]

cooperative_close(k) ==
  /\ require_not_paused
  /\ IsOpen(channels[k])
  /\ channels' = [channels EXCEPT ![k] = WithStatus(@, "Closed")]
  /\ PayParties(k, channels[k], channels[k].share, balance_b(channels[k]))
  /\ UNCHANGED <<books, tipChannels, meta>>

\* Mutant: an answer to a dispute may repeat the claim's nonce or precede it.
Contest_stale(c, x, nonce) ==
  /\ x \in 0 .. c.deposit
  /\ c.status = "Open" \/ (c.status = "Disputed" /\ now < c.since + c.window)

\* A claim that opens a dispute or, while the window lasts, answers it.  It is not
\* compared with what the parties signed, only its nonce is.
Contest(c, x, nonce) ==
  /\ x \in 0 .. c.deposit
  /\ \/ c.status = "Open" /\ nonce >= c.nonce
     \/ c.status = "Disputed" /\ now < c.since + c.window /\ nonce > c.nonce
Contested(c, p, x, nonce) ==
  [c EXCEPT !.status = "Disputed", !.share = x, !.nonce = nonce,
            !.since = IF c.status = "Open" THEN now ELSE @,
            !.disputer = IF c.status = "Open" THEN p ELSE @]
Lapsed(c) == c.status = "Disputed" /\ now >= c.since + c.window

dispute_close(p, k, x, nonce) ==
  LET c == channels[k]
  IN  /\ require_not_paused
      /\ c # None
      /\ p \in {k.a, k.b}
      /\ \/ /\ Contest(c, x, nonce)
            /\ channels' = [channels EXCEPT ![k] = Contested(c, p, x, nonce)]
            /\ UNCHANGED wallet
         \/ /\ Lapsed(c)
            /\ channels' = [channels EXCEPT ![k] = WithStatus(c, "Closed")]
            /\ PayParties(k, c, c.share, balance_b(c))
      /\ UNCHANGED <<books, tipChannels, meta>>

-----------------------------------------------------------------------------
\* state_channel::open, by the tipper or for it.
NewTips(x, w) ==
  [deposit |-> x, share |-> 0, nonce |-> 0, status |-> "Open", since |-> 0, window |-> w,
   disputer |-> None, entries |-> <<>>]
open_tips(k, x, w) ==
  /\ tipChannels[k] = None
  /\ Pay(k.token, k.a, Jar, x)
  /\ tipChannels' = [tipChannels EXCEPT ![k] = NewTips(x, w)]

open_tip_channel(k, x, w) ==
  /\ require_not_paused
  /\ w # 0
  /\ Whitelisted(k.token)
  /\ open_tips(k, x, w)
  /\ UNCHANGED <<books, channels, meta>>

record_tip(c, x, nonce) ==
  [c EXCEPT !.share = x, !.nonce = nonce, !.entries = Append(@, x - c.share)]

record_channel_tip(k, x, nonce) ==
  LET c == tipChannels[k]
  IN  /\ require_not_paused
      /\ IsOpen(c)
      /\ nonce > c.nonce
      /\ x \in c.share .. c.deposit
      /\ tipChannels' = [tipChannels EXCEPT ![k] = record_tip(c, x, nonce)]
      /\ UNCHANGED <<wallet, books, channels, meta>>

settle(k) ==
  LET c == tipChannels[k]
  IN  /\ tipChannels' = [tipChannels EXCEPT ![k] = WithStatus(c, "Settled")]
      /\ PayParties(k, c, c.deposit - c.share, c.share)
settle_tip_channel(k) ==
  /\ require_not_paused
  /\ IsOpen(tipChannels[k])
  /\ settle(k)
  /\ UNCHANGED <<books, channels, meta>>

dispute(p, k, x, nonce) ==
  LET c == tipChannels[k]
  IN  \/ /\ Contest(c, x, nonce)
         /\ tipChannels' = [tipChannels EXCEPT ![k] = Contested(c, p, x, nonce)]
         /\ UNCHANGED wallet
      \/ Lapsed(c) /\ settle(k)
dispute_tip_channel(p, k, x, nonce) ==
  LET c == tipChannels[k]
  IN  /\ require_not_paused
      /\ c # None
      /\ p \in {k.a, k.b}
      /\ x \in 0 .. c.deposit
      /\ dispute(p, k, x, nonce)
      /\ UNCHANGED <<books, channels, meta>>

-----------------------------------------------------------------------------
register_meta_relayer(r) ==
  /\ r \notin meta.relayers
  /\ meta' = [meta EXCEPT !.relayers = @ \cup {r}]
  /\ UNCHANGED <<wallet, books, channels, tipChannels>>
remove_meta_relayer(r) ==
  /\ r \in meta.relayers
  /\ meta' = [meta EXCEPT !.relayers = @ \ {r}]
  /\ UNCHANGED <<wallet, books, channels, tipChannels>>

\* Neither the action nor the message is part of what the sender signs.
canonical_hash(q) == <<q.key, q.amount, q.nonce, q.valid_until>>

verify(r, q) ==
  /\ r \in meta.relayers
  /\ q.valid_until >= now
  /\ q.nonce = meta.nonce[q.key.a]
  /\ canonical_hash(q) \notin meta.consumed

Raised(nonces, p) == [nonces EXCEPT ![p] = @ + 1]
finalize(r, q) ==
  meta' = [meta EXCEPT !.consumed = @ \cup {canonical_hash(q)}, !.nonce = Raised(@, q.key.a),
                       !.records = Append(@, [from |-> q.key.a, relayer |-> r, nonce |-> q.nonce])]

\* An amount that reaches a creator without fee and repayment.
Credited(b, c, t, x) == [b EXCEPT !.balance[c][t] = @ + x, !.total[c][t] = @ + x]

execute_meta_tip(r, q, action) ==
  LET k == q.key
  IN  /\ require_not_paused
      /\ Whitelisted(k.token)
      /\ verify(r, q)
      /\ \/ /\ action = "Tip"
            /\ Pay(k.token, k.a, Jar, q.amount)
            /\ books' = Credited(books, k.b, k.token, q.amount)
            /\ UNCHANGED tipChannels
         \/ action = "OpenChannel" /\ open_tips(k, q.amount, MetaWindow) /\ UNCHANGED books
      /\ finalize(r, q)
      /\ UNCHANGED channels

PaymentChannelNext ==
  \E k \in ChannelId :
    \/ \E x, y \in Amounts, w \in DisputeWindows : open_channel(k, x, y, w)
    \/ cooperative_close(k)
    \/ \E x \in Amounts \cup {0}, n \in Nonces :
         \/ update_channel_state(k, x, n)
         \/ \E p \in Party : dispute_close(p, k, x, n)
TipChannelNext ==
  \E k \in ChannelId :
    \/ \E x \in Amounts, w \in DisputeWindows : open_tip_channel(k, x, w)
    \/ settle_tip_channel(k)
    \/ \E x \in Amounts \cup {0}, n \in Nonces :
         \/ record_channel_tip(k, x, n)
         \/ \E p \in Party : dispute_tip_channel(p, k, x, n)
MetaNext ==
  \/ \E r \in Party : register_meta_relayer(r) \/ remove_meta_relayer(r)
  \/ \E r \in Party, k \in ChannelId, x \in Amounts, n \in Nonces, v \in Validity,
        action \in {"Tip", "OpenChannel"} :
       execute_meta_tip(r, [key |-> k, amount |-> x, nonce |-> n, valid_until |-> v], action)

-----------------------------------------------------------------------------
\* What the jar holds of a token for channels that are not yet paid out.
HeldIn(c) == IF c = None THEN 0 ELSE IF c.status \in {"Closed", "Settled"} THEN 0 ELSE c.deposit
EscrowOf(cs, t) == SumFunction([k \in ChannelId |-> IF k.token = t THEN HeldIn(cs[k]) ELSE 0])
ChannelEscrow(t) == EscrowOf(channels, t) + EscrowOf(tipChannels, t)

\* A channel only moves on: a dispute is never withdrawn, a nonce never falls, the
\* claim that is paid had the window to be answered, and a channel that was paid out
\* is never touched again, not even to open a new one between the two.
MovesOn(c, d) ==
  c # None =>
    /\ d # None
    /\ c.status \in {"Closed", "Settled"} => d = c
    /\ c.status = "Disputed" => d.status # "Open"
    /\ d.nonce >= c.nonce
    /\ c.share # d.share /\ c.status = "Disputed" => d.nonce > c.nonce
    /\ c.status = "Disputed" /\ d.status # "Disputed" => Lapsed(c)
ChannelsOneWay ==
  [][\A k \in ChannelId : MovesOn(channels[k], channels'[k]) /\ MovesOn(tipChannels[k], tipChannels'[k])]_channelVars

\* Until somebody disputes, the tips listed for a channel are the total its tipper
\* has agreed to, and the total stays within the deposit.
TipEntriesAddUp ==
  \A k \in ChannelId : IsOpen(tipChannels[k]) =>
    LET c == tipChannels[k]
    IN  /\ c.share = SumFunction(c.entries)
        /\ \A i \in DOMAIN c.entries : c.entries[i] >= 0
        /\ c.share <= c.deposit

\* A sender's requests run in the order of their nonces, each once, whichever
\* relayers submit them and however often.
RequestsOf(records, p, n) == {i \in 1 .. n : records[i].from = p}
MetaOnce ==
  /\ \A p \in Party : meta.nonce[p] = Cardinality(RequestsOf(meta.records, p, Len(meta.records)))
  /\ \A i \in DOMAIN meta.records :
       meta.records[i].nonce = Cardinality(RequestsOf(meta.records, meta.records[i].from, i - 1))

-----------------------------------------------------------------------------
\* The legacy tip jar's rollup: a sequencer submits batches of tips, any
\* one may challenge a batch while its challenge period lasts, and after
\* that any one may finalize it, which credits the creator.  A state root
\* is a model value; naming another root is all a fraud proof needs.

CONSTANTS
  ChallengePeriod,  \* rollup::CHALLENGE_PERIOD
  Roots,            \* state roots
  BatchAmounts,     \* totals a sequencer submits: any number, negative ones too
  MaxBatch          \* bound: the largest batch identifier

VARIABLES
  rollup,           \* sequencer, counters
  batches,          \* DataKey::RollupBatch
  submissions       \* history: every batch ever submitted, and what became of it

rollupVars == <<rollup, batches, submissions>>

Batch ==
  [id : Nat, root : Roots, creator : Party, token : Token, amount : Int, submitted_at : Int,
   status : {"Pending", "Finalized", "Challenged"}]

ASSUME RollupAssumption ==
  ChallengePeriod \in Nat /\ MaxBatch \in Nat /\ None \notin Batch /\ BatchAmounts \subseteq Int

RollupInit ==
  /\ rollup = [enabled |-> FALSE, sequencer |-> None, counter |-> 0, pending |-> 0,
               finalized |-> 0, challenged |-> 0]
  /\ batches = [i \in 1 .. MaxBatch |-> None]
  /\ submissions = <<>>

\* The counters start again, the stored batches stay: their numbers are used anew.
init_rollup(s) ==
  /\ rollup' = [enabled |-> TRUE, sequencer |-> s, counter |-> 0, pending |-> 0,
                finalized |-> 0, challenged |-> 0]
  /\ UNCHANGED <<batches, submissions, books>>

NewBatch(root, c, t, x) ==
  [id |-> Len(submissions) + 1, root |-> root, creator |-> c, token |-> t, amount |-> x,
   submitted_at |-> now, status |-> "Pending"]
Fresh(b) == [batch |-> b, credited |-> 0, at |-> 0, challenged |-> FALSE]
submit_batch(root, c, t, x) ==
  LET i == rollup.counter + 1
      b == NewBatch(root, c, t, x)
  IN  /\ batches' = [batches EXCEPT ![i] = b]
      /\ rollup' = [rollup EXCEPT !.counter = i, !.pending = @ + 1]
      /\ submissions' = Append(submissions, Fresh(b))
submit_rollup_batch(s, root, c, t, x) ==
  /\ rollup.enabled
  /\ s = rollup.sequencer
  /\ rollup.counter < MaxBatch
  /\ submit_batch(root, c, t, x)
  /\ UNCHANGED books

CountDownPending(r) == [r EXCEPT !.pending = Larger(@ - 1, 0)]
CreditedAt(s, t) == [s EXCEPT !.credited = @ + 1, !.at = t]
Contradicted(s) == [s EXCEPT !.challenged = TRUE]

\* Mutant: a batch may be finalized whatever its status.
finalize_batch_again(i) ==
  LET b == batches[i]
  IN  /\ now >= b.submitted_at + ChallengePeriod
      /\ books' = Credited(books, b.creator, b.token, b.amount)
      /\ batches' = [batches EXCEPT ![i] = WithStatus(b, "Finalized")]
      /\ rollup' = [CountDownPending(rollup) EXCEPT !.finalized = @ + 1]
      /\ submissions' = [submissions EXCEPT ![b.id] = CreditedAt(@, now)]

\* No tokens come with the credit.
finalize_batch(i) ==
  LET b == batches[i]
  IN  /\ b.status = "Pending"
      /\ now >= b.submitted_at + ChallengePeriod
      /\ books' = Credited(books, b.creator, b.token, b.amount)
      /\ batches' = [batches EXCEPT ![i] = WithStatus(b, "Finalized")]
      /\ rollup' = [CountDownPending(rollup) EXCEPT !.finalized = @ + 1]
      /\ submissions' = [submissions EXCEPT ![b.id] = CreditedAt(@, now)]
finalize_rollup_batch(i) == batches[i] # None /\ finalize_batch(i)

\* A claim of the same root is answered with false and changes nothing.
submit_fraud_proof(i, root) ==
  LET b == batches[i]
  IN  /\ b # None
      /\ b.status = "Pending"
      /\ now < b.submitted_at + ChallengePeriod
      /\ root # b.root
      /\ batches' = [batches EXCEPT ![i] = WithStatus(b, "Challenged")]
      /\ rollup' = [CountDownPending(rollup) EXCEPT !.challenged = @ + 1]
      /\ submissions' = [submissions EXCEPT ![b.id] = Contradicted(@)]
      /\ UNCHANGED books

RollupNext ==
  \/ \E s \in Party : init_rollup(s)
  \/ \E s, c \in Party, root \in Roots, t \in Token, x \in BatchAmounts :
       submit_rollup_batch(s, root, c, t, x)
  \/ \E i \in 1 .. MaxBatch : finalize_rollup_batch(i) \/ \E root \in Roots : submit_fraud_proof(i, root)

-----------------------------------------------------------------------------
\* Whatever numbers are used again: a submitted batch is credited at most once, not
\* before its challenge period is over and never after a challenge; the creators'
\* totals are exactly these credits; and the pending counter, which init_rollup and
\* saturation may leave too small, never counts a batch that is no longer pending.
CreditOf(s, c, t) ==
  IF s.batch.creator = c /\ s.batch.token = t THEN s.batch.amount * s.credited ELSE 0
PendingUpTo(n) == {i \in 1 .. n : batches[i] # None /\ batches[i].status = "Pending"}
SubmissionSound(s) ==
  /\ s.credited <= 1
  /\ s.credited = 1 => ~s.challenged /\ s.at >= s.batch.submitted_at + ChallengePeriod
RollupCreditsOnce ==
  /\ \A k \in DOMAIN submissions : SubmissionSound(submissions[k])
  /\ \A c \in Party, t \in Token :
       books.total[c][t] = SumFunction([k \in DOMAIN submissions |-> CreditOf(submissions[k], c, t)])
  /\ rollup.pending <= Cardinality(PendingUpTo(MaxBatch))

-----------------------------------------------------------------------------
\* What the variables range over, and the facts that every call keeps.
Meta ==
  [relayers : SUBSET Party, nonce : [Party -> Nat],
   consumed : SUBSET (ChannelId \X Nat \X Nat \X Int),
   records : Seq([from : Party, relayer : Party, nonce : Nat])]
MetaInv == meta \in Meta /\ MetaOnce
ChannelsInv ==
  /\ channels \in [ChannelId -> Channel \cup {None}]
  /\ tipChannels \in [ChannelId -> TipChannel \cup {None}]
  /\ TipEntriesAddUp

Rollup ==
  [enabled : BOOLEAN, sequencer : Party \cup {None}, counter : 0 .. MaxBatch, pending : Nat,
   finalized : Int, challenged : Int]
Submission == [batch : Batch, credited : Nat, at : Int, challenged : BOOLEAN]
\* A stored batch is one that was submitted, and a pending one has had no effect yet.
BatchKnown(b) ==
  /\ b.id \in DOMAIN submissions
  /\ submissions[b.id].batch = WithStatus(b, "Pending")
  /\ b.status = "Pending" => submissions[b.id].credited = 0 /\ ~submissions[b.id].challenged
RollupInv ==
  /\ rollup \in Rollup
  /\ batches \in [1 .. MaxBatch -> Batch \cup {None}]
  /\ submissions \in Seq(Submission)
  /\ \A i \in 1 .. MaxBatch : batches[i] # None => BatchKnown(batches[i])
  /\ \A i, j \in 1 .. MaxBatch : batches[i] # None /\ batches[j] # None /\ batches[i].id = batches[j].id => i = j
  /\ \A k \in DOMAIN submissions : SubmissionSound(submissions[k])
  /\ rollup.pending <= Cardinality(PendingUpTo(rollup.counter))
=============================================================================
