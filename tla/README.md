# Verification of p4est

p4est keeps a *forest of octrees* distributed over MPI processes: a list of
trees, each a list of leaves (quadrants, or octants in 3D) in Morton order, cut
into one consecutive range per process. `src/` is the C library for two
dimensions, its three-dimensional twin `p8est` (the same sources compiled with
`P4_TO_P8`), the hybrid `p6est`, and `p4est3`, a rewrite that keeps the forest
in memory shared by the processes of a node.

This directory holds TLA+ models of its core algorithms, the TLC runs that check
them on small instances, and proofs (TLAPS) for all values of the constants.

Contents: [1 Inventory](#1-inventory) · [2 Modules](#2-modules-and-the-code) ·
[3 Runs](#3-runs-what-they-show-and-their-bounds) · [4 Fairness](#4-fairness) ·
[5 Proofs](#5-proofs) · [6 Findings](#6-where-code-and-documentation-disagree) ·
[7 Abstractions](#7-abstractions-and-assumptions) · [8 Not modelled](#8-what-is-not-modelled) ·
[9 Plan](#9-plan)

## 1 Inventory

State of a forest (`p4est_t`): per process the array of its trees, each with
`quadrants`, `quadrants_offset`, `quadrants_per_level`, `maxlevel`; the range
`first_local_tree .. last_local_tree`; and, replicated on every process,
`global_first_quadrant`, `global_first_position` (the partition) and `revision`.

| component | state and operations | interacts by | what is hard | what makes it correct |
|---|---|---|---|---|
| quadrant algebra `p4est_bits.c` | none; comparison, Morton numbers, ancestors, families, descendants | called by everything | bit tricks on signed coordinates, negative outside the root | agrees with the tree of child numbers; one total order |
| refinement `p4est_refine_ext` | array, list of pending quadrants, counters; scan, split, store, read ahead | callbacks | writes in place into the array it still reads | no unread entry is overwritten; exactly the leaves asked for |
| coarsening `p4est_coarsen_ext` | array with a sliding hole, window; merge, decline, orphan | callbacks | window on both sides of a hole, merges that chain | only true families merge, all accepted ones do, every leaf is shown |
| tree balance `p4est_complete_or_balance`, `p4est_balance.c` | array, hash table and lists per level | called per tree and per border leaf | reduced to first siblings, seeds computed from distances | the coarsest balanced leaves |
| weighted partition `p4est_partition_ext` | cuts, two ends per process | messages to neighbours of a cut | who sends to whom is inferred on both sides | the ranges are those of one process that knows all weights |
| partition for coarsening | requested cuts, parents at cuts | messages, allgather | windows by binary search, families over several processes | families stay together, nobody waits in vain |
| shipping `p4est_partition_given` | arrays, user data, plan | point to point messages, allgather | in-place moves, empty processes, inferred plans | each quadrant arrives once, in its tree, with its data |
| searches `p4est_search.c` | range and guess; descent with callbacks | called by the above, by programs | unsigned positions, equal entries, empty processes | right entry, right owners, no quadrant twice |
| balance exchange `p4est_balance_ext` | peers, requests | two rounds of count and load messages, allgather | `Waitsome` order, answers while receiving | all is merged that is meant, nothing left in the net |
| ghost layer `p4est_ghost.c` | tables derived from the forest | messages sized on both sides | neighbourhoods across trees, symmetric inference | exactly what touches; nobody waits in vain |
| iterator `p4est_iterate.c` | index arrays, split memory | callbacks | hanging faces and corners, several trees around a corner | every volume, face and corner once with all around it |
| communication helpers | messages | point to point, collectives | sizes inferred on both sides, empty processes | data follows its quadrants |
| wrapper `p4est_wrap.c` | flags, layers, mesh, partition window | calls the above in a protocol | flags outlive several calls | flags and lists describe the forest as it is |
| connectivity | face and corner tables, built, joined, permuted | read by everything | orientations and reversed faces | tables are symmetric, transforms invert each other |
| p4est3 partition | shared windows `goffset`, `gftree`, private copies | shared memory, barriers, split barriers | shared entries read and written without order | all processes cut at the same places |
| p4est3 quadrants | none; a word of interleaved bits, a register of lanes | virtual table | truncated shifts, borrowed bits | the same quadrants as p4est's |
| lnodes, mesh, build, io, points; geometry, vtk, plex, dune; p6est; the rest of p4est3 | - | - | - | see section 8 |

`PROJECT.json` lists all components with their status, and the hazards with the
line where each bites and the properties that would catch it going wrong.

## 2 Modules and the code

| module | models | correspondence |
|---|---|---|
| `Quadrants` | the algebra used by other modules | A quadrant is the sequence of child numbers from the root; its length is the level. |
| `QuadrantBits`, `QuadrantPairs` | `p4est_bits.c` | Coordinates as signed words, exclusive ors, shifts; one operator per function. `QuadrantPairs` picks two quadrants and compares the answers with `Quadrants`. |
| `RefineLoop`, `RefineAbs` | the loop over one tree of `p4est_refine_ext`; what it promises | `current`, `restpos`, `incount`, `movecount` as in the code; `ScanKeep/Found/End` is the first pass, `SplitHead`, `StoreHead`, `ListEnd` the second. `NoQuadrant` is an array slot grown and not written. Abstractly: split or keep the first pending quadrant. |
| `CoarsenLoop`, `CoarsenAbs` | the loop over one tree of `p4est_coarsen_ext`; what it promises | `window`, `start`, `length` as in the code; `Orphan`, `Decline`, `Coarsen`, `Finish`. Abstractly: one accepted family gives way to its parent. |
| `TreeBalance` | `p4est_complete_or_balance`, its kernel, `p4est_balance_border` | `Reduce`, the walk over the levels with hash table and lists, completion, the replacement of the leaves with its callbacks. |
| `BalanceSeeds` | `p4est_balance_seeds` and its kernels for face, corner and edge | distances of a leaf and a quadrant that demands something of it. |
| `PartitionWeighted` | the cuts in `p4est_partition_ext` | scan of weight sums, post receives, sends to the process below and above each owned cut, self messages, counts. |
| `PartitionSearch` | `p4est_find_partition`, `p4est_next_nonempty_process`, `sc_array_split` | operators on sorted arrays, with their theorems |
| `PartitionCoarsening` | `p4est_partition_for_coarsening`, `p4est_partition_correction` | `SendParents`, `ReceiveParents`, `Gather`; the windows are the code's two searches and their corrections at both ends. |
| `PartitionGiven` | `p4est_partition_given`, end of `p4est_partition_ext` | `Post` (plan, receives, sends), `Fill` (in-place move and copy), `Enter`/`Gather` (boundaries). A quadrant is its global number. |
| `Search` | `p4est_find_lower_bound`, `_higher_bound`, `_quadrant_cumulative` | one action per branch of the loops. |
| `TopDownSearch` | `p4est_search_local`, `_reorder`, `_partition` (gfx, gfp), `_all` | The recursion is a stack of calls to be made; callbacks and points as in the code. |
| `BalanceExchange` | the messages of `p4est_balance_ext` | `Schedule`, `SendFirst`, completions `FirstCount/FirstLoad/SecondCount/SecondLoad`, `Self`, `Merge`, `CountQuadrants`, `Finish`. |
| `Connectivity`, `Connectivities`, `ConnectivityUse` | `p4est_connectivity.c` | tables and their completion from vertices; the built-in ones; joining, reducing, permuting. |
| `TreeTransforms` | face and corner transforms of `p4est_bits.c` and `p4est_connectivity.c` | as in the code, axes counted from 0 |
| `Neighbors`, `Ghost` | owner searches, `p4est_ghost_new`, exchange of ghost data, `p4est_is_balanced` | per process: what it sends to whom, counted and sent, received in any order. |
| `Iterate` | `p4est_iterate_ext` in two dimensions | a stack of search areas stands for the nested loops; the split memory (`tier_rings`) is kept. |
| `Transfer`, `CountPertree`, `ParallelEnv` | `p4est_transfer_*`, `p4est_comm_count_pertree`, `p4est_comm_parallel_env_reduce_ext` | one action per call of a process; the reduction, collective throughout, is a single one. |
| `Wrap` | `p4est_wrap.c` | mark, adapt, partition, complete and the parameter setters, collectively for all processes; a pass of callbacks over the quadrants of a process is a recursive function |
| `P3Partition` | `p4est3_partition` on one node | `EvenCuts`, or `EnterGather`, `WriteCuts`, `CopyCut` (one shared entry at a time); `CorrectFamilies`; `PublishCut`, `PublishTree`, `TakeQuadrants`; `Complete`, `Leave`. |
| `P3Quadrants` | `p4est3_quadrant_mort2d.c`, `_yx.c` | word and lanes with their widths; every function against the quadrant functions |
| `MC...` | instances for TLC | inputs and bounds. `MCTree`, `MCCalls`, `MCLocal`, `MCParallel` hold several components: a behaviour is one call (its `job`), the variables of the others stay idle. |
| `QuadrantsProofs`, `...Proofs` | theorems | see section 5; `Search`, `PartitionSearch` and `PartitionCoarsening` hold their own |

`RefineLoop` and `CoarsenLoop` use `Quadrants` and instantiate their abstract
specifications with refinement mappings; `PartitionGiven`, `PartitionCoarsening` and
`P3Partition` share `PartitionSearch`; `Ghost` and `Iterate` share `Neighbors`, which
sits on `Connectivity` and `TreeTransforms`. The operations of `p4est_partition_ext` are
three components that hand over a partition: `PartitionWeighted` computes it,
`PartitionCoarsening` corrects it, `PartitionGiven` ships along it. Each takes *every*
partition as input, so the composition needs no further interleaving:
collective calls separate them. `Wrap` composes refinement, coarsening,
balance and partition as one call each.

## 3 Runs, what they show, and their bounds

Passing runs:

| run | job | shows | bounds and why they suffice |
|---|---|---|---|
| `tree` | refine | `UnreadIntact`, `LoopEndAssertions`, `ResultCorrect` (order, leaves, counters, highest level), `ImplementsAbs`, `RefineReturns` | 2 children, 3 levels, parts and whole trees up to 8 leaves, every callback, 2 entries read per batch: chains of splits, batches shorter and longer than the hole. |
| | balance | `BalancedLeast` (against the least fixed point of the demands), `TreeFollows` (array, counters, callbacks) | 2D five levels, 3D four levels, trees and parts of them at a coprime stride, all kinds of neighbours |
| | seeds | `SeedsSuffice` | 2D all pairs up to five levels apart; 3D two to four levels apart, sampled |
| | represent | `WordsAgree` | 2D four levels, 3D three: the widths of all words are scaled with the deepest level, so that sign bits and the end of a word occur |
| | iterate | `IterationRight` | forests of up to six trees and 20 leaves, three levels deep, any part of them for the process in the middle of three; with and without ghosts and remote sides |
| `calls` | correct | `WindowsExact`, `CallsEnd` (families together, counts valid) | 3 processes, adjacent families of two trees, a family inside a family, a family over all processes; every present and every requested partition |
| | weigh | `CallsEnd` (ranges of one process that knows all weights) | 3 processes, up to 2 quadrants each with weights 0 to 2, not all of them full |
| | search | `RangeHolds`, `CallsEnd` | arrays up to 5 entries with repetitions, every target and every start guess |
| | connect | `BuiltRight`, `CornersExact`, `TransformsAgree` | the built-in connectivities of two dimensions, bricks, joined, reduced and permuted ones, points one level below the roots |
| `local` | coarsen | `ConsecutiveIdsAreFamily`, `ResultCorrect` (the accepted families and no others are merged; order, counters), `EveryQuadrantShown`, `ImplementsAbs`, `LocalEnds` | 4 children, 2 levels, every part of every tree, every callback, both modes: merges that chain to the root across holes, orphans on both sides |
| | pair | `PairRelated`, `PairCompared`, `PairBuilt` | 3 dimensions, 3 levels, pairs in the block of 27 roots, the first in the tree or below it on one axis |
| | wrap | `WrapCurrent`, `NewlyRight`, `WindowKept`, `AdaptsAsMarked` | 2 processes, 2 trees, two adaptations, two marks at a time, one of them between an adaptation and its partition; a delay of 0 and of 1, with and without checksums |
| | search | `SearchSound`, `LocalEnds` | 3 processes, 2 trees of up to five leaves in every partition, one refusal of a callback, points |
| `parallel` | ghost | `LayersRight`, `ParallelEnds` | 3 processes, two-tree forests over faces and corners in both directions, stars and periodic trees, full and face layers |
| | balance | `NothingLeft`, `ParallelEnds` | 3 processes, every set of pairs that ask, three sets of answers, candidates that turn out not to be needed, a process that asks itself |
| | partition | `RangesAgree`, `ParallelEnds` | 3 processes, 4 to 7 quadrants on 1 or 3 trees, every source partition; families and nested families, or weights 0, 1, 3 |
| | transfer, pertree, reduce | `TransferRight`, `PertreeRight`, `ReducedRight`, `ParallelEnds` | 3 quadrants from any partition to any other on 3 processes; 5 quadrants in 3 trees on 4; 2 or 4 quadrants on 4, every group |
| `partition_given` | - | `SendsMatchReceives`, `EveryReceiveServed`, `PartsCorrect`, `EndsAgreed` | 3 processes, 3 trees, 4 quadrants, every pair of partitions, every interleaving. A process can keep a middle part of a tree and receive on both sides of it. |

The other runs (`partition_coarsening_reads`, `p3_partition_race`, `connectivity_drop`,
`ghost_reversed`, `ghost_bowtie`, `seeds_edge`, `p3_parent`) are the findings of section 6.

An `MC` module EXTENDS one component, whose properties it names directly, and
INSTANCEs the others. Every property of a passing run is paired in
`PROJECT.json` with a plausible bug ("mutant") of a modelled definition under
which TLC finds it violated.

Deadlock is checked in `tree`, where what has returned may stutter. The other
runs end by stopping; that they stop nowhere earlier is what `CallsEnd`,
`LocalEnds`, `ParallelEnds` and `EndsAgreed` say.

## 4 Fairness

Calls of one process (`RefineLoop`, `CoarsenLoop`, `Search`, `TopDownSearch`) are
straight-line code: `WF_vars(Next)` says that the process runs on. In
`PartitionWeighted`, `PartitionCoarsening`, `Ghost`, `P3Partition` and the helpers the same
condition only says that *some* process that can go on does; it is weaker than
what an operating system gives and suffices because no behaviour of them is
infinite. `PartitionGiven` and `BalanceExchange` state weak fairness for each process:
a process that is not blocked in an MPI call goes on. MPI delivers messages
reliably; a blocking call is an action enabled when the messages, the
collective's participants or the barrier are there. There is no fairness for
calls that a program makes when it likes to (`connect`, `wrap`), and no strong
fairness anywhere. In `tree` only refinement has a liveness property; for the
other jobs deadlock checking shows that a call that has begun can go on.

## 5 Proofs

| theorem | says |
|---|---|
| `RefineProofs!TypeCorrect` | no list element is ever an unwritten slot, and the other types |
| `RefineProofs!NoOverwrite` | `Spec => []UnreadIntact` |
| `RefineProofs!LoopEnd` | the two assertions behind the loop |
| `RefineProofs!Refinement` | `RefineLoop` implements `RefineAbs` |
| `RefineProofs!ResultRight` | `Spec => []ResultCorrect`: for a linear input the array ends as exactly the leaves asked for, in order, with right counters |
| `CoarsenProofs!WindowsAreFamilies` | `Spec => []ConsecutiveIdsAreFamily`, across the hole and after any number of merges |
| `CoarsenProofs!Coarsening` | `CoarsenLoop` implements `CoarsenAbs` |
| `CoarsenProofs!StaysTree` | the leaves are always linear and complete |
| `CoarsenProofs!NoFamilyMissed` | in the end no accepted family is left (without recursion: none of old leaves) |
| `CoarsenProofs!ResultRight` | `Spec => []ResultCorrect`: the array ends as exactly the input with every accepted family merged, in order, with right counters |
| `CoarsenProofs!NobodySkipped` | `Spec => []EveryQuadrantShown` |
| `CoarsenProofs!WrapStays` | `Spec => []WrapCurrent` for `Wrap`: every quadrant has its flag, never fewer refinement marks are counted than there are, and just as many between an adaptation and its partition; ghost layer and mesh are those of the forest as it is |
| `Search!RangeStays`, `Search!SearchesAreRight` | the guess stays in the range, no position wraps around; the answers of all three searches |
| `PartitionGivenProofs!PlansMatch` | `Spec => []SendsMatchReceives` |
| `PartitionGivenProofs!NobodyWaitsInVain`, `NobodyIsStuck` | `Spec => []EveryReceiveServed`; some process can always go on until all have returned |
| `PartitionGivenProofs!PartsShipped` | `Spec => []PartsCorrect`: every process ends with exactly its range, each quadrant in its tree and in order |
| `PartitionGivenProofs!BoundariesFound`, `ShippedCounted` | `Spec => []BoundariesAgree`, `Spec => []ShippedCorrect` (the two halves of `EndsAgreed` but for its `<>`) |
| `PartitionCoarsening!WindowsFound` | `Spec => []WindowsExact` |
| `PartitionCoarsening!NobodyIsStuck` | some process can always go on until all have returned |
| `ParallelProofs!MergesComplete`, `NothingIsLeft` | a process merges only when all has arrived; in the end no message and no half-done request is left |
| `ParallelProofs!NobodyIsStuck` | in the exchange, some process can always go on until all have ended |
| `ParallelProofs!TreesCounted`, `CountingGoesOn` | `Spec => []PertreeRight` for `CountPertree`: all get the number of quadrants in front of every tree; some process can always go on until all are done |
| `PartitionGivenProofs!DataArrives`, `TransferGoesOn` | `Spec => []TransferRight` for `Transfer`: data arrives where its quadrants are, whatever overtakes what; some process can always go on until all are done |
| `ParallelProofs!GroupReduced` | `Spec => []ReducedRight` for `ParallelEnv`: those that stay agree on a partition in which each has the quadrants that it had |
| `ParallelProofs!CutsAgree` | `Spec => []RangesAgree` for `P3Partition`: the shared cuts, which ascend, are those by which everybody has cut; no quadrant is lost or on two processes |
| `ParallelProofs!TreesListed`, `CuttingGoesOn` | `Spec => []RecordsRight` for `P3Partition`: a process lists the trees of its quadrants, each record in its place; some process can always go on until all are done |

They hold for any branching factor above 1, depth, input, callback and batch size,
and for any number of processes and trees, any forest, partitions and pattern of
requests. The assumptions are the `ASSUME`s of the modules, which TLC evaluates in
the runs: `CHILDREN > 1`, nonempty inputs of quadrants, positive batches, partitions
that are partitions. Two hypotheses are stated in the theorems themselves:
`RefineProofs!ResultRight` asks for linear input arrays (`p4est_is_valid` before the call), and the
windows of `PartitionCoarsening` for a `WordBefore` that is not negative (see section 6).
`PartitionGiven` assumes that the trees of a forest ascend, `CountPertree` also that none is
without quadrants (`ForestsAssumption` of each), `Transfer` that both partitions are of the same
quadrants (`PartitionsAssumption`), `ParallelEnv` that a group put at the beginning has no
quadrants (`GroupsAssumption`), `Wrap` nothing but ranges of numbers (`WrapAssumption`), and
`CutsAgree` asks for `SoundRequests`: there are quadrants, weights do not fall, process 0 has some, and they do
not come with families. Without the third the cut 0 is found by a later process, and
without the fourth the statement is false, as the run `p3_partition_race` shows. It also asks for
`SoundFamilies`: what looks like the children of one quadrant are at most `CHILDREN` quadrants side by side, which two
adjacent trees refined alike break (see section 6). `TreesListed`
also asks for `SoundTrees`: the trees ascend from 0 on and none is without quadrants.

**Quadrants.** `QuadrantsProofs` has the facts about sequences of child numbers that the
loops rest on. Two quadrants are *parted* when neither contains the other and the
first comes first; this is transitive (`PartedTransitive`), so an array whose neighbours
are parted is parted throughout (`LinearParted`), and such an array is *the* Morton
order of its elements (`PartedIsMortonOrder`): every element has as many predecessors as
its position says. Replacing a quadrant by its children keeps this (`SplitKeepsParted`).
`AdjacentParts` describes quadrants without a gap between them by the level on which they
part; neighbours with consecutive child numbers are then siblings, a family's
parent fits in its place, and `GaplessTree` gives the code's two predicates.

**In-place refinement.** `UnreadIntact` is not inductive. The inductive invariant adds
`RoomInv`: the list is longer than the hole between `current` and `restpos` by
`r * (CHILDREN - 1)` for `r` splits, hence by at least `CHILDREN - 1` after the
first; so the list cannot run empty in front of unread input, and a write at
`restpos` is preceded by a read. `ScanInv` and `FirstInv` describe the scan and
the first list element, for which the count does not hold yet. The refinement
proof maps list and unread input to one sequence of pending quadrants
(`TodoForm`) and shows that each action splits or keeps its head or leaves it.
The result is then proved about the abstract steps: what is finished followed by what
is pending is parted (`WorkInv`), and what it will *become* does not change, since a
split entry's result is the union of its children's (`SplitBecomes`) and a kept one
becomes itself (`KeptBecomes`). `CountInv` ties the counters to what is finished.

**Coarsening.** The invariant speaks about the array with the hole taken out
(`Closed`): it is gapless, and array positions relate to its positions by the
hole's length. From there a window of consecutive child numbers is a family.
`Settled` says of a position that no accepted family begins there (in a call without
recursion: none of old leaves); `Swept` says that all positions in front of the window are
settled, which is what stepping back by the parent's child number restores.
`Showing` splits the input in what was shown and what is still to come.
For the result, `LeavesKnown` says that every leaf is input or a parent that must be formed,
and that every input quadrant lies in a leaf; a merge keeps both (`FamilyForms`,
`MergeKnown`), and `MergeCounts` keeps the counters. That nothing else is left follows at
the end: below a parent that must be formed take a deepest leaf; its neighbours in the gapless
array are its siblings (`NextChild`, `PreviousChild`), so its family stands there and is
accepted, and no window would be settled (`NoneBelowFormed`).

**Adaptations.** The wrapper concludes from a number of quadrants that did not change that the forest
did not, and keeps its ghost layer. That is right since each of the two passes can change the number one way
only: `RefinedIs` and `CoarsenedIs` say, by induction over the quadrants of a process, that a pass that ends
with as many as it began with has left all in place, and `SameTotals` that equal totals are equal numbers
on every process, where none can have fewer (or more) than before. Likewise a partition whose cuts are
where the processes begin deals out the same forest (`DealtSame`). The passes, the rounds
of the balance and the joined sequences are recursive functions (`RefinesExist`, `CoarsensExist`,
`RoundsExist`, `FlatIs`). The invariant `WrapInv` is `WrapCurrent` with the types of what it speaks about. Marks may come at any time. An adaptation begins
the count anew, so it is exact until the partition (`CountsAll`); the partition drops the flags of what was marked
since, but not the count, and from there on only the bound from below is kept (`FlagsFit`).

**Plans.** `SendsMatchReceives` relates a binary search on the new partition with one on
the old. `WindowEnds` states what `p4est_find_partition` guarantees of its
ends; with the order of the cuts, `CommonIsIntersection` shows that the loop over
the window counts exactly the intersection of the two ranges, and outside of
the window it is empty. The inductive invariant says that plans are those counts
(`Planned`) and that a message is in transit from everyone who has posted to
everyone who still waits for it (`InTransit`); `Delivery` then enables a step. The windows
of the partition for coarsening are treated in the same way; there the loop's end must be
extended past processes without quadrants, and the begin is corrected by hand.

**Parts.** What lands where is a matter of sums: a message has one count per tree, and its
quadrants are copied behind those of the trees and processes in front. To the prover a recursive
sum is a `CHOOSE`; that the function exists, with its two equations, is proved by
induction over the length (`SumsExist`, `SumSteps`), and then sums of differences
telescope (`Telescope`). Since trees ascend, the quadrants of a tree are a range
(`TreesBegin`, `PartIsSlice`), so what one process sends another of a tree is the
intersection of three ranges (`Share`); the message and the receiver's table both say so
(`MessageSays`, `ArrivingIsShare`), what lies in front of it telescopes (`BeforeIs`,
`TreesBefore`), and the kept part, moved in place, and the received ones, copied, fill
the new array without gap or overlap (`MovedIs`, `CopiedIs`, `FilledIs`; user data: `UserDataIs`).
The invariant `PartsInv` says this of every process that has filled its arrays.
The gathered positions of processes without quadrants are those of the next one that has some
(`PositionIs`), and the number of shipped quadrants is counted from the kept ones
(`MovedSteps`, `ShippedIs`).

**Cuts.** Without weights every process of a `P3Partition` works out all cuts by itself. `CutsInv`
says that they are the same ones (`NewOffsets`, a function of the source only) and, with
`CorrectedCuts`, that the correction leaves the first and the last cut alone and that the others
still ascend: families are intervals that do not overlap (`FamilySeen`, from `SoundFamilies`), and all cuts
inside of one are moved to the ends of it that belong to the same process, the lowest that has most of the family, wherever the
two searches for that process start (`KeeperFound`, `OneKeeper`); so no two cuts pass each other (`CorrectedAscend`). With weights
a process's copy is, as far as it has copied, what is in the shared window. That stays true while others
publish, because without families what a process publishes is already there
(`PublishCutKeeps`); the cut 0 is found by process 0, at the first quadrant (`BordersFound`).
The quadrants copied from the processes of the window found by binary search are runs of
consecutive numbers; `RunsFlatten` joins them, again by induction over their number, so
copied or in place a process takes what lies between its own two cuts (`CopiesJoin`).

**Trees counted.** In `CountPertree` tree `t` begins at one quadrant, `TreeBegin(t)`, and a process
*owns* it if it is the first to start there, or starts in front of it and the next one behind it. The loop that hands out trees finds exactly the owner (`OwnerIs`), and owners
ascend (`OwnersAscend`), so the next counting process counts the next tree
(`NextCounts`). Hence who expects a count and who tells one are a bijection
(`TellsWhoExpects`, `ExpectsWhoTells`), and what a process adds up by itself and what it is told
are together the tree (`OwnIs`, from the size of an intersection of ranges, `LocalIs`). The invariant
(`PertreeInv`) says which messages are on their way and what has been counted; the
cumulated sizes telescope to where trees begin (`SizesAddUp`).

**Transfers.** Both ends of a `Transfer` work out by themselves who sends what to whom. All that a transfer
carries is one sequence (`Item`), in which a recursive sum says what lies in front of each
quadrant (`InFront`); the data of a range is a part of it (`DataIs`), and what sender and
receiver compute is the same intersection of two ranges of quadrants (`DestinationsAre`, `SourcesAre`).
These areas cover what a process gets, without overlap (`AreasCover`). For the variable data the
receiver has to know the sizes: it does, since it has waited for them (`SizesKnown`). The
invariant (`TransferInv`) says that what has arrived is everything but the awaited areas,
and that from one process to another there are exactly the messages sent and not yet taken, in the order of the
transfers (`WireOf`). Sizes and variable data have the same tag, but a process that
awaits variable data has taken the sizes already, hence the first message with the tag is the one meant
(`TakesFirst`). A process that has come least far never waits in vain, because its senders
have begun the transfer it waits for (`TransferGoesOn`).

**Reduced communicators.** The members of the new communicator are a list in which those with
quadrants ascend (`InOrderLists`, `BehindOk`, `SubGroupOk`), whatever group stands in front of them or behind.
Nobody between two of them has quadrants, hence the recursive sum of the members' quadrants is, at each place, where
the next member with quadrants begins (`BeginsAt`, `FirstsBegin`), and so are the positions
(`GlobalPartitionIs`, `PlacesComputed`). The invariant `EnvInv` says that members have what
describes their communicator, that others have nothing, and that before the reduction all are
members; since a forest has quadrants somebody stays, so there is no second reduction (`NotReduced`).

**Exchange.** For `BalanceExchange` the invariant describes each ordered pair of processes as
a channel that is in one of finitely many stages (`Channels`: not asked, asked, loaded,
answered, done), together with who is addressed (`Addressed`) and what totals imply.

**Searches.** The range keeps the answer, which gives both theorems at once. As a
consequence the second `return -1` of `p4est_find_higher_bound` is never taken.

Induction over numbers is done with sets (`NatSetInduction`), since the library's
induction theorems take an operator as a parameter. A function that is recursive over
numbers is a `CHOOSE` whose existence needs such an induction; for the sums of
`PartitionGiven`, `CountPertree`, `Transfer` and `ParallelEnv`, the flattened sequences of `P3Partition` and the passes
of `Wrap` this is done.

Only model-checked, and why:

* all liveness (`ENABLED` and fairness are out of the prover's reach), of `EndsAgreed` its `<>`;
* the results in `CallsEnd`: they speak of folds over sets and sequences of the community
  modules, for each of which existence and uniqueness would have to be proved first;
* `NewlyRight`, `WindowKept`, `AdaptsAsMarked` of `Wrap`: they compare quadrants before and after and need a
  linear forest, which every pass would have to be shown to keep;
* `LayersRight`, `IterationRight`, `BalancedLeast`, `TreeFollows`, `SeedsSuffice`: their modules use
  recursive operators, which the prover's backend does not read;
* `PairRelated`, `PairCompared`, `PairBuilt`, `WordsAgree`: bits as sets and powers of two;
* `BuiltRight`, `CornersExact`, `TransformsAgree`: finite tables, which TLC exhausts;
* `SearchSound`: the descent is a stack of calls, and its invariant needs the arithmetic of the
  spans of quadrants (powers of the number of children) at every depth;
* of `P3Partition` the first trees and families (the rest of `TreesCorrect`,
  `FamiliesTogether`), which `ParallelEnds` checks.

## 6 Where code and documentation disagree

Each of these is a run that expects a violation; `PROJECT.json` quotes both sides.

* `partition_coarsening_reads`: `p4est_partition_for_coarsening` decrements the start
  of its receive loop also when it is 0, and reads one entry in front of
  `global_first_quadrant`.
* `p3_partition_race`: `p4est3_partition` with weights and families writes a process's
  corrected cut into the shared array while others still copy the uncorrected
  ones from it. TLC ends with a family of four quadrants on no process.
* `connectivity_drop`: `p4est_connectivity_new_drop` joins two pairs of faces with the
  orientation opposite to that of their vertices.
* `ghost_bowtie`: a process that owns a whole tree takes a quadrant at a corner that
  touches another tree only there for one whose neighbourhood it owns.
* `ghost_reversed`: `p4est_is_balanced` of an unbalanced forest can wait for ever when
  the face between two trees runs in opposite directions.
* `seeds_edge`: for edge balance in three dimensions `p4est_balance_seeds` misses seeds
  four levels apart. Whether the parallel balance as a whole misses them depends on the
  partition; only the contract of the function is checked.
* `p3_parent`: `is_parent` of the lane representation tests bits for inclusion
  where equality is meant.

Also seen while modelling, without a run of their own:

* `p4est_quadrant_is_next` (`p4est_bits.c:1044`) compares at the coarser of the two levels, so
  it accepts a successor that leaves a hole below that level, and
  `p4est_tree_is_complete` with it; the header says "with no holes". `GaplessTree` proves the
  direction that holds.
* `p4est_find_partition` returns the number of entries when `my_end` is beyond the last one; the
  header (`p4est_search.h:71`) says the last index. All callers clip it.
* `p4est_partition_for_coarsening` returns the sum of the absolute corrections, the
  header calls it the number of moved quadrants.
* `p4est_find_quadrant_cumulative`: a given guess `*which_tree` is only asserted to be a tree of the
  connectivity; outside of the local trees the loop's assertion fails. Here
  the guess is a local tree.
* `p4est_search_reorder`: the header lets the callback shorten the array of trees, but the loop
  over the roots reads an entry for every local tree. Here the callback permutes.
* `p4est_balance.c`: `if (blevel == plevel - 1) return;` can never hold (`plevel + 1` is
  meant); it only costs time.
* `p4est_balance_subtree` with a balance type: an incomplete tree that is coarser than the window's
  border quadrants is not balanced, and quadrants outside of the window trip an
  assertion, against `p4est_algorithms.h:240`. Here inputs are complete in their window.
* `p4est_wrap.c`: marks set between `p4est_wrap_adapt` and `p4est_wrap_partition` lose their flags but
  stay counted. If the partition leaves the process fewer quadrants than that count, the next adaptation fails the
  assertion at lines 696-697, although nothing is marked wrongly; the header says of `p4est_wrap_complete`
  (`p4est_wrap.h:425`): "After this call, we are ready for another mark-refine-partition cycle." Otherwise only
  more temporary flags are allocated than needed. `Wrap` has these marks and the count; `WrapCurrent` says what
  remains true of them.
* The word's `nearest_common_ancestor` (`p4est3_quadrant_mort2d.c:599-603`) clears the coordinates of the first quadrant below the
  ancestor but not its level, and joins the bits of the ancestor's level to it: of two different quadrants of level 1 the
  result has level 1 instead of 0, of level 2 with an ancestor of level 1 it has level 3. The header
  (`p4est3_quadrant_vtable.h:568`) promises "a common nearest ancestor of two quadrants". It is called by the
  search for regions (`p4est3_internal_mpi.c:388`, `:448`) in a setup mode that no test uses. `P3Quadrants`
  joins the bits as the code does. `WordsAgree` says that the coordinates are right, and the level exactly where
  the bits of the first quadrant's level are among those of the ancestor's.
* Without a ghost layer the iterator shows a corner that hangs on a remote quadrant; the
  header says that hanging corners are not shown. `IterationRight` is relative to
  the quadrants that are known.
* `p4est_communication.c` near line 285 has an assertion with `=` for `==`.
* In `p4est3_partition`: quadrants of process 0 that weigh nothing are lost, because the cut 0 is
  found by a later process; with all weights zero no cut is written; the
  assertion at line 415 forbids a cut inside of the last quadrant's weight, though the
  result is right; families are recognised without their tree, so that two adjacent trees
  refined once are not kept together, and with a refined, an unrefined and a refined tree and six processes the
  corrected cuts descend (0, 0, 3, 4, 6, 5, 9: process 4 gets a negative number of quadrants, and
  quadrant 5 is on two processes). `MCP3Partition` avoids these inputs; `P3Partition`
  reproduces all of them but the assertion.
* In the quadrants of `p4est3`, outside of their preconditions or at the limits: the word's `compare` of
  a quadrant and its ancestor in the same corner never is negative; its `is_ancestor` keeps
  32 bits of an exclusive or; building it from coordinates shifts in 32 bits; the
  common ancestor of a deepest quadrant with itself is its parent; the lanes' `predecessor` across
  a family lacks a shift, their `last_descendant` in two dimensions writes into the third
  lane; both face neighbours between trees use length 0 at the deepest level.

## 7 Abstractions and assumptions

* `QuadrantBits` uses integers with two's complement written out by sets of bits; words of
  `MAXLEVEL + 2` bits.
* Weighted cuts are computed with `long double` in the code; exact integers here, which is the
  same below 2^64.
* `WordBefore` in `PartitionCoarsening` is the word in front of an array, which the code
  reads in the case of the finding; the other properties hold when it is not negative.
* `PartitionCoarsening` assumes `CHILDREN >= 4`: a tree root is sent as its own parent
  with `local_num = 1`, which two children could not tell from a family.
* In `PartitionGiven` a quadrant is its global number. What is packed, moved and
  counted per tree is modelled; what a quadrant contains is not.
* `BalanceExchange` chooses who asks whom and how much is answered (`Patterns`). `Waitsome`
  completes one request per step; the loop treats the completed ones one by one anyway.
  An answer replaces the received quadrants by what is left of them; an entry of `merged`
  stands for that.
* `P3Partition`: one node holds all processes (the code's own TODO); `relatives` is a
  table of what the scan around each quadrant of the immutable source finds;
  `behind` is the quadrant read by a cut behind the last one. The window
  starts with the cuts of an older forest, since windows are reused.
  First positions (`gfpos`) and translation between quadrant types are left out.
* `P3Quadrants` scales the 30 levels of a lane to 4 or 3, the word has one level less, as
  in the code; the second quadrant of a pair lies at sampled places in three dimensions.
* `Wrap` knows trees in a line with two children per quadrant, the neighbours being those
  in Morton order; user integers saturate; a partition may choose any cuts; a checksum is the
  equality of leaves. Bounds `MaxAdapts`, `MaxMarks`, `MaxLateMarks` (marks between an adaptation
  and its partition).
* `TopDownSearch`: two children, two levels; a point is the place where it lies. Bound `MaxRefused`:
  how often callbacks may stop the search.
* `Ghost`, `Neighbors`, `Iterate`: two dimensions. Forests given to the iterator are face-balanced; its index
  arrays are windows on a stack, its split memory a queue. `p4est_range_boundaries` is asked
  where its precondition holds (`Smallest` excludes the rest).
* `ParallelEnv`: a group that is added at the beginning has no quadrants, as otherwise the order
  of the partition would break.
* Callbacks are arbitrary sets of quadrants and do not change the forest; `init`, `replace`
  and user data are left out of `RefineLoop` and `CoarsenLoop`.

## 8 What is not modelled

Geometry and export are static maps and output, without protocol state. lnodes and
mesh are tables filled by the iterator and the ghost layer. The edges of three dimensions are
modelled in `TreeBalance` and `BalanceSeeds` only; ghost layer, iterator and connectivity are
two-dimensional. File I/O is mostly collective calls of libsc and MPI. `p4est_points` does its
work in a parallel sort of libsc. `p4est_build`, the creation and copying of
forests, `p4est_linearize_tree` and the validity checks are not modelled yet, nor is the rest of
`p4est3` (forest setup, refinement, search) and `p6est`, which reuses partition and transfer
for columns. `PROJECT.json` gives the reason for each component.

## 9 Plan

What a continuation would take up, most important first:

1. `FamiliesTogether` of `P3Partition`.
2. A `Forest` specification (one sequence of leaves, one partition) implemented by
   `PartitionGiven`.
3. `Linearize`, `CompleteRegion`, `IsValid` as pure algorithms; `p4est_build`; the shared windows
   of `p4est3`.
