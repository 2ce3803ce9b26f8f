---------------------------- MODULE LegacyShards ----------------------------
(***************************************************************************)
(* The legacy tip jar's scaling records: tips counted by shard, calls that *)
(* are routed to other contracts (recorded, never made), and Verkle trees  *)
(* of tip balances with their proofs.  A hash is the tuple of what is      *)
(* hashed: a leaf is a triple, an inner node has BranchingFactor (2)       *)
(* children, the hash of nothing is the empty tuple.                       *)
(***************************************************************************)
EXTENDS LegacyLedger, SequencesExt

CONSTANTS
  AddressHash,        \* the number that assign_shard takes from an address' digest
  ShardCounts,        \* shard counts to initialise with
  DefaultShardCount,  \* DEFAULT_SHARD_COUNT
  MaxShardCount,      \* MAX_SHARD_COUNT
  Threshold,          \* REBALANCE_THRESHOLD_BPS, in units of Bps
  BranchingFactor,    \* BRANCHING_FACTOR
  MaxLeaves,          \* MAX_LEAVES
  LeafKeys            \* digests of a creator and a token

VARIABLES
  sharding,           \* ShardKey::Config, State, Assignment, Transfer
  routed,             \* CrossCallKey::Call, Batch, CallerCalls
  trees,              \* VerkleKey::Tree, Leaf
  treeProofs          \* VerkleKey::Proof

ASSUME ShardsAssumption ==
  /\ MaxShardCount \in Nat
  /\ ShardCounts \subseteq 1 .. MaxShardCount /\ DefaultShardCount \in 1 .. MaxShardCount
  /\ AddressHash \in [Party -> Nat]
  /\ Threshold \in Nat /\ Threshold >= Bps

shardVars == <<sharding, routed, trees, treeProofs>>

NewShard == [status |-> "Active", tips |-> 0, volume |-> 0]
AllShards == 0 .. MaxShardCount - 1

ShardsInit ==
  /\ sharding = [count |-> DefaultShardCount, auto |-> TRUE, state |-> [i \in AllShards |-> NewShard],
                 assigned |-> PerParty(None), transfers |-> <<>>]
  /\ routed = [calls |-> <<>>, batches |-> <<>>]
  /\ trees = <<>>
  /\ treeProofs = <<>>

\* By anyone.  Assignments that were made for another count of shards stay.
init_sharding(n, auto) ==
  sharding' = [sharding EXCEPT !.count = n, !.auto = auto,
                 !.state = [i \in AllShards |-> IF i < n THEN NewShard ELSE @[i]]]

assign_shard(p) == AddressHash[p] % sharding.count
get_assignment(p) == IF sharding.assigned[p] # None THEN sharding.assigned[p] ELSE assign_shard(p)

\* A shard drains while it is above the threshold and accepts again at the average.
maybe_rebalance(h) ==
  LET used == 0 .. h.count - 1
      total == SumFunction([i \in used |-> h.state[i].tips])
      avg == total \div h.count
      Status(s) == IF s.tips > (avg * Threshold) \div Bps THEN "Draining"
                   ELSE IF s.tips <= avg THEN "Active" ELSE s.status
  IN  IF total = 0 THEN h
      ELSE [h EXCEPT !.state = [i \in AllShards |->
              IF i \in used THEN [@[i] EXCEPT !.status = Status(h.state[i])] ELSE @[i]]]

Counted(s, x) == [s EXCEPT !.tips = @ + 1, !.volume = @ + x]

record_tip_in_shard(p, x) ==
  LET i == get_assignment(p)
      h == [sharding EXCEPT !.assigned[p] = i, !.state[i] = Counted(@, x)]
  IN  /\ sharding.state[i].status = "Active"
      /\ sharding' = IF sharding.auto THEN maybe_rebalance(h) ELSE h

\* The shard a transfer comes from keeps its counts.
cross_shard_transfer(from, to, x) ==
  /\ from < sharding.count /\ to < sharding.count /\ from # to
  /\ sharding' = [sharding EXCEPT !.transfers = Append(@, [from |-> from, to |-> to, amount |-> x, finalized |-> FALSE])]

finalize_transfer(k) ==
  /\ ~sharding.transfers[k].finalized
  /\ sharding' = [sharding EXCEPT !.transfers[k].finalized = TRUE,
                                  !.state[sharding.transfers[k].to] = Counted(@, sharding.transfers[k].amount)]

shard_rebalance == sharding' = maybe_rebalance(sharding)

ShardingNext ==
  /\ \/ \E n \in ShardCounts, auto \in BOOLEAN : init_sharding(n, auto)
     \/ \E p \in Party, x \in Amounts : record_tip_in_shard(p, x)
     \/ \E from, to \in AllShards, x \in Amounts : cross_shard_transfer(from, to, x)
     \/ \E k \in DOMAIN sharding.transfers : finalize_transfer(k)
     \/ shard_rebalance
  /\ UNCHANGED <<routed, trees, treeProofs>>

-----------------------------------------------------------------------------
\* A call is a success when it has arguments.
execute_call(args) == IF args THEN "Success" ELSE "Failed"

route_call(p, args) ==
  routed' = [routed EXCEPT !.calls = Append(@, [caller |-> p, status |-> execute_call(args)])]

BatchStatus(list) == IF \A k \in DOMAIN list : list[k] THEN "Success" ELSE "Failed"

route_batch(p, list) ==
  LET new == [k \in DOMAIN list |-> [caller |-> p, status |-> execute_call(list[k])]]
  IN  /\ list # <<>>
      /\ routed' = [calls |-> routed.calls \o new,
                    batches |-> Append(routed.batches,
                      [caller |-> p, ids |-> [k \in DOMAIN list |-> Len(routed.calls) + k],
                       status |-> BatchStatus(list)])]

RoutingNext ==
  /\ \E p \in Party :
       \/ \E args \in BOOLEAN : route_call(p, args)
       \/ \E n \in 1 .. 2 : \E list \in [1 .. n -> BOOLEAN] : route_batch(p, list)
  /\ UNCHANGED <<sharding, trees, treeProofs>>

-----------------------------------------------------------------------------
ZeroHash == <<>>
leaf_hash(key, value) == <<key, value, None>>
node_commitment(children) == children

\* Groups of BranchingFactor hashes, the last one padded.
NextLevel(level) ==
  [g \in 1 .. (Len(level) + BranchingFactor - 1) \div BranchingFactor |->
     node_commitment([j \in 1 .. BranchingFactor |->
       LET i == (g - 1) * BranchingFactor + j IN IF i <= Len(level) THEN level[i] ELSE ZeroHash])]

Height(n) == CHOOSE d \in 0 .. n : /\ BranchingFactor ^ d >= n
                                   /\ \A e \in 0 .. d - 1 : BranchingFactor ^ e < n
LevelsOf(leaves) ==
  LET level[d \in 0 .. Height(Len(leaves))] ==
        IF d = 0 THEN [i \in DOMAIN leaves |-> leaf_hash(leaves[i].key, leaves[i].value)]
        ELSE NextLevel(level[d - 1])
  IN  level

compute_root(leaves) ==
  IF leaves = <<>> THEN ZeroHash ELSE LevelsOf(leaves)[Height(Len(leaves))][1]

create_tree(p) ==
  /\ trees' = Append(trees, [owner |-> p, root |-> ZeroHash, leaves |-> <<>>, active |-> TRUE])
  /\ UNCHANGED treeProofs

\* A key keeps its place; by anyone.
update_leaf(i, key, value) ==
  LET old == trees[i].leaves
      leaves == IF \E k \in DOMAIN old : old[k].key = key
                THEN [k \in DOMAIN old |-> IF old[k].key = key THEN [key |-> key, value |-> value] ELSE old[k]]
                ELSE Append(old, [key |-> key, value |-> value])
  IN  /\ trees[i].active
      /\ Len(leaves) <= MaxLeaves
      /\ trees' = [trees EXCEPT ![i].leaves = leaves, ![i].root = compute_root(leaves)]
      /\ UNCHANGED treeProofs

\* For each level below the root, the hashes beside the one on the way up.
build_proof_path(leaves, index) ==
  LET level == LevelsOf(leaves)
  IN  [d \in 1 .. Height(Len(leaves)) |->
         LET at == index \div BranchingFactor ^ (d - 1)
             start == (at \div BranchingFactor) * BranchingFactor
             Sibling(s) == IF s < Len(level[d - 1]) THEN level[d - 1][s + 1] ELSE ZeroHash
         IN  [k \in 1 .. BranchingFactor - 1 |->
                Sibling(IF start + k - 1 < at THEN start + k - 1 ELSE start + k)]]

generate_proof(i, index) ==
  LET leaf == trees[i].leaves[index + 1]
  IN  /\ trees[i].active
      /\ treeProofs' = Append(treeProofs,
           [tree |-> i, index |-> index, leaf |-> leaf_hash(leaf.key, leaf.value), root |-> trees[i].root,
            path |-> build_proof_path(trees[i].leaves, index), verified |-> FALSE])
      /\ UNCHANGED trees

recompute_root_from_path(leaf, index, path) ==
  LET up[d \in 0 .. Len(path)] ==
        LET at == (index \div BranchingFactor ^ (d - 1)) % BranchingFactor
        IN  IF d = 0 THEN leaf
            ELSE node_commitment(InsertAt(path[d], at + 1, up[d - 1]))
  IN  up[Len(path)]

Holds(k) == recompute_root_from_path(k.leaf, k.index, k.path) = trees[k.tree].root

\* Against the root as it is now.
verify_tree_proof(k) ==
  /\ treeProofs' = [treeProofs EXCEPT ![k].verified = Holds(treeProofs[k])]
  /\ UNCHANGED trees

deactivate_tree(p, i) ==
  /\ trees[i].owner = p
  /\ trees' = [trees EXCEPT ![i].active = FALSE]
  /\ UNCHANGED treeProofs

VerkleNext ==
  /\ \/ \E p \in Party : create_tree(p)
     \/ \E i \in DOMAIN trees :
          \/ \E key \in LeafKeys, value \in 1 .. 2 : update_leaf(i, key, value)
          \/ \E index \in 0 .. Len(trees[i].leaves) - 1 : generate_proof(i, index)
          \/ \E p \in Party : deactivate_tree(p, i)
     \/ \E k \in DOMAIN treeProofs : verify_tree_proof(k)
  /\ UNCHANGED <<sharding, routed>>

-----------------------------------------------------------------------------
\* Rebalancing never leaves every shard draining, so some address can still tip;
\* and what was assigned under a larger count stays within the stored shards.
SomeShardAccepts ==
  /\ \E i \in 0 .. sharding.count - 1 : sharding.state[i].status = "Active"
  /\ \A p \in Party : sharding.assigned[p] # None => sharding.assigned[p] \in AllShards

\* A batch is a success exactly when all of its calls are, each of its caller.
BatchesAgree ==
  \A b \in ToSet(routed.batches) :
    /\ \A k \in ToSet(b.ids) : routed.calls[k].caller = b.caller
    /\ b.status = "Success" <=> \A k \in ToSet(b.ids) : routed.calls[k].status = "Success"

\* A proof that holds shows what the leaf is now, however often the tree grew or
\* changed since; and a proof holds as long as the root is the one it was made for.
TreeProofsSound ==
  \A k \in ToSet(treeProofs) :
    LET leaf == trees[k.tree].leaves[k.index + 1]
    IN  /\ Holds(k) => k.leaf = leaf_hash(leaf.key, leaf.value)
        /\ k.root = trees[k.tree].root => Holds(k)

-----------------------------------------------------------------------------
\* What the variables range over; a batch names calls that were routed.
ShardState == [status : {"Active", "Draining"}, tips : Nat, volume : Nat]
ShardTransfer == [from : AllShards, to : AllShards, amount : Nat, finalized : BOOLEAN]
Sharding ==
  [count : 1 .. MaxShardCount, auto : BOOLEAN, state : [AllShards -> ShardState],
   assigned : [Party -> AllShards \cup {None}], transfers : Seq(ShardTransfer)]
ShardingInv == sharding \in Sharding /\ SomeShardAccepts
=============================================================================
