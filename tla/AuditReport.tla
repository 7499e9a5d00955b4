---------------------------- MODULE AuditReport ----------------------------
(***************************************************************************)
(* The audit report of a sealed batch: the Merkle root, recomputed from the *)
(* rows as they are now and held against the one that was sealed, and the   *)
(* chain of custody with its reconciliation.                               *)
(*                                                                         *)
(* A hash is what was hashed: two are equal when their inputs are, and the   *)
(* prefixes 0 and 1 are part of the input.  A row keeps the hash of the      *)
(* payload it was signed with in a column of its own, unique, next to those *)
(* the report lists, the weight for one; nothing here hashes those again.    *)
(* Rows may be changed behind the program's back: the report is there to    *)
(* show it, where it can.                                                  *)
(***************************************************************************)
EXTENDS Integers, Sequences, SequencesExt, FiniteSetsExt

CONSTANTS
    Payloads,   \* payload hashes
    Weights,    \* what a weigh-in may weigh
    MaxLeaves,  \* bound: weigh-ins in a batch
    MaxKg,      \* bound: weights
    LastDay,    \* bound: days on which material changes hands, one transfer each
    None

VARIABLES
    sealed,      \* the batch's rows as they were when it was sealed, in order
    rows,        \* its rows now, by capturedAt
    transfers    \* custody_transfers, by transferredAt

vars == <<sealed, rows, transfers>>

-----------------------------------------------------------------------------
(* merkle.ts                                                               *)

HashLeaf(data) == <<0, data>>

\* Slip: "a common shortcut", the pair is sorted.
HashInternalSorted(left, right) == <<1, {left, right}>>

HashInternal(left, right) == <<1, <<left, right>>>>

\* One level up: a lone trailing node is promoted.
Parents(level) ==
    [i \in 1..((Len(level) + 1) \div 2) |->
        IF 2 * i > Len(level) THEN level[2 * i - 1] ELSE HashInternal(level[2 * i - 1], level[2 * i])]

\* One round of its loop: a level is put on top as long as the last has no root.
Grown(levels, leaf) == IF Len(Last(levels)) = 1 THEN levels ELSE Append(levels, Parents(Last(levels)))

\* levels: the leaves first, the root last; no tree has more levels than leaves.
BuildMerkleTree(leaves) == FoldLeft(Grown, <<leaves>>, leaves)

MerkleRoot(leaves) == Last(BuildMerkleTree(leaves))[1]

\* At each level, the node that stands above the leaf at position i.
Above(i, levels) ==
    LET at[l \in DOMAIN levels] == IF l = 1 THEN i ELSE (at[l - 1] + 1) \div 2 IN at

Sibling(k) == IF k % 2 = 0 THEN k - 1 ELSE k + 1

\* The sibling at each level below the root, where there is one.
MerkleProof(leaves, i) ==
    LET levels == BuildMerkleTree(leaves)
        at == Above(i, levels)
        Step(l) == LET s == Sibling(at[l]) IN
            IF s \in DOMAIN levels[l]
              THEN << [hash |-> levels[l][s], side |-> IF s < at[l] THEN "left" ELSE "right"] >>
              ELSE << >>
    IN FlattenSeq([l \in 1..(Len(levels) - 1) |-> Step(l)])

Combine(acc, step) ==
    IF step.side = "left" THEN HashInternal(step.hash, acc) ELSE HashInternal(acc, step.hash)

VerifyMerkleProof(leaf, proof, root) == FoldLeft(Combine, leaf, proof) = root

-----------------------------------------------------------------------------
(* ReportsService                                                          *)

Row == [payloadHash: Payloads, weightKg: Weights]

Hashes(list) == [i \in DOMAIN list |-> list[i].payloadHash]

LeavesOf(payloads) == [i \in DOMAIN payloads |-> HashLeaf(payloads[i])]

HashLists == UNION {{s \in [1..n -> Payloads] : IsInjective(s)} : n \in 0..MaxLeaves}

Lists == UNION {{s \in [1..n -> Row] : IsInjective(Hashes(s))} : n \in 0..MaxLeaves}

\* What the constants have to be: no payload hash is two nodes long, and none is a pair of
\* nodes of a tree.
AuditAssumption ==
    /\ MaxLeaves \in Nat /\ MaxKg \in Nat /\ LastDay \in Nat /\ Weights \subseteq Nat
    /\ \A s \in HashLists \ {<< >>} :
          LET levels == BuildMerkleTree(LeavesOf(s)) IN
          \A l \in DOMAIN levels : \A x, y \in Range(levels[l]) : <<x, y>> \notin Payloads

SealedRoot == MerkleRoot(LeavesOf(Hashes(sealed)))

\* leaves and recomputedRoot: over the column payloadHash as it stands.
Leaves == LeavesOf(Hashes(rows))

RootMatchesSealedValue == rows # << >> /\ MerkleRoot(Leaves) = SealedRoot

AllProofsValid ==
    rows # << >> /\ \A i \in DOMAIN rows :
        VerifyMerkleProof(Leaves[i], MerkleProof(Leaves, i), MerkleRoot(Leaves))

\* verifyEvent() of the row at i.
ProofValid(i) == VerifyMerkleProof(Leaves[i], MerkleProof(Leaves, i), SealedRoot)

CollectedKg == SumFunction([i \in DOMAIN rows |-> rows[i].weightKg])

Transfer == [in: 0..MaxKg, out: 0..MaxKg, reason: BOOLEAN]

Made == {t \in 1..LastDay : transfers[t] # None}

Variance(t) == transfers[t].in - transfers[t].out

GapKg == CollectedKg - transfers[Max(Made)].out

Explained == \A t \in Made : Variance(t) = 0 \/ transfers[t].reason

-----------------------------------------------------------------------------
TypeOK ==
    /\ sealed \in Lists \ {<< >>} /\ rows \in Lists
    /\ transfers \in [1..LastDay -> Transfer \cup {None}]

\* Any batch that was sealed, before anything became of it.
Init ==
    /\ sealed \in Lists \ {<< >>} /\ rows = sealed
    /\ transfers = [t \in 1..LastDay |-> None]

\* Somebody with the database at hand changes columns of rows, or adds, drops or reorders rows.
Rewrite ==
    /\ rows' \in Lists \ {rows}
    /\ UNCHANGED <<sealed, transfers>>

\* Slip: a variance needs no reason.
AllowedUnexplained(in, out, reason) == out <= in

\* "Material does not appear in transit", and a variance "must carry a stated reason".
Allowed(in, out, reason) == out <= in /\ (in # out => reason)

\* CustodyService.create(): whatever the batch's status, and whatever was handed on before.
CreateTransfer(t, in, out, reason) ==
    /\ transfers[t] = None
    /\ Allowed(in, out, reason)
    /\ transfers' = [transfers EXCEPT ![t] = [in |-> in, out |-> out, reason |-> reason]]
    /\ UNCHANGED <<sealed, rows>>

Custody ==
    \E t \in 1..LastDay, in, out \in 0..MaxKg, reason \in BOOLEAN : CreateTransfer(t, in, out, reason)

Next == Rewrite \/ Custody

Spec == Init /\ [][Next]_vars

-----------------------------------------------------------------------------
\* The report's two ticks stand for the payload hashes that were sealed, all of them, in
\* their order, and so does every proof of verifyEvent().  They stand for nothing else of a
\* row: what it says next to its hash may be anything.
TicksAreHonest ==
    /\ ((RootMatchesSealedValue /\ AllProofsValid) <=> Hashes(rows) = Hashes(sealed))
    /\ \A i \in DOMAIN rows : ProofValid(i) <=> Hashes(rows) = Hashes(sealed)

\* Not so: with both ticks the rows listed are those that were sealed, weights and all.  The
\* report hashes payloadHash as it is stored, so that a weight edited later keeps both.
ListedIsSealed == (RootMatchesSealedValue /\ AllProofsValid) => rows = sealed

\* The two nodes below level l above the leaf at i, as the data of a leaf.
PairUnder(i, l, levels) ==
    << levels[l - 1][2 * Above(i, levels)[l] - 1], levels[l - 1][2 * Above(i, levels)[l]] >>

\* No path of the tree proves another weigh-in than the one it starts at, and none that
\* is cut short "proves" the pair of nodes it then starts at.
OnlyWeighInsProve ==
    \A i \in DOMAIN sealed :
        LET leaves == LeavesOf(Hashes(sealed))
            proof == MerkleProof(leaves, i)
            levels == BuildMerkleTree(leaves) IN
        /\ \A p \in Payloads :
               VerifyMerkleProof(HashLeaf(p), proof, SealedRoot) <=> p = sealed[i].payloadHash
        /\ \A l \in 2..Len(levels), k \in 0..Len(proof) :
               2 * Above(i, levels)[l] <= Len(levels[l - 1]) =>
                   ~ VerifyMerkleProof(HashLeaf(PairUnder(i, l, levels)), SubSeq(proof, k + 1, Len(proof)),
                                       SealedRoot)

EvidenceIsBound == TicksAreHonest /\ OnlyWeighInsProve

\* Each party took in what the one before gave out, and the first all there was.
LegsJoin ==
    \A t \in Made :
        transfers[t].in = IF \E s \in Made : s < t
                            THEN transfers[Max({s \in Made : s < t})].out ELSE CollectedKg

\* Where they join, what is missing in the end was declared missing, with a reason: the
\* report's "explained" is about each transfer, and looks at no gap between two.
JoinedGapIsExplained ==
    (Made # {} /\ LegsJoin) =>
        /\ GapKg = SumFunction([t \in Made |-> Variance(t)])
        /\ (GapKg # 0 => Explained /\ \E t \in Made : transfers[t].reason)

=============================================================================
