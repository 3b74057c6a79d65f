# Tiger-Mixer: a TLA+ verification project

Tiger-Mixer is a coin-mixing payment system. Off chain, Alice, Bob and a
tumbler run a puzzle-based payment protocol, and a committee holds shares of the
secrets that an auditor may need. On chain, a set of Solidity contracts escrows
deposits, collects fees, keeps the committee members' stakes and reputations, and
rotates the committee with a verifiable random function (VRF). Beside it stand two
Python programs: a simulation of how suspicious users are detected and voted on by
a committee, and a server that plays users with a language model, with a client that
drives it. This project models all four and checks them with TLC. Every safety property that
TLC checks, of the contracts (stakes, reward pool, escrow, Merkle tree, reputations, selection, rotation
and manager), the payment, the sharing and audit of secrets, the detection simulation, its
users, and the agent server with its clients, is also proved with TLAPS, for any number of
users, sessions, threads, receivers, epochs and rounds.

Paths are shortened below: contracts and scripts are under
`src/Config/truffleProject/truffletest/`, the C programs under
`src/Tiger-Mixer/Tiger-Mixer-master/ecdsa/src/`, the simulation under
`src/Effection/Code/`, the agent server and its client under `src/Agent/`.

## Inventory

| Component | State it keeps | Operations | Talks to | What makes it correct |
|---|---|---|---|---|
| RewardPool.sol | epochs (reward, transactions and rewards per member), totalPoolBalance, three authorised addresses | receive, recordTransaction, endEpoch, distributeRewardsToMembers, claimReward, setters | called by the escrows, StakingManager and CommitteeRotation | exactly backed; no epoch overspent; paid once |
| StakingManager.sol | stake and slashed amount of every member, total | stake, unstake, slash, setters, receive | sends slashed ether to RewardPool | total = sum of active stakes, backed by ether |
| FixedMixerEscrow.sol | escrows, used commitments | openEscrow, setDataHash, confirm, refund, setRewardPool | Merkle tree (inherited), RewardPool, A2LECDSAVerifier | a deposit leaves once, to the right side; solvent |
| MerkleTreeWithHistory.sol | filled subtrees, ring of roots, next index | _insert, isKnownRoot, getLastRoot | MiMC hasher | last root is the tree's root; recent roots known |
| ReputationManager.sol | scores and last reputation of every account | updateReputation, calculateReputation | read by CommitteeRotation | bounded; moves slowly |
| CommitteeRotation.sol | committee, candidate pool, current VRF output and its flags, history | submitVRFRandomWithProof, verifyVRFProof, addCandidate, removeCandidate, rotateCommittee, setters | ReputationManager, RewardPool, VRF.sol | fair draw; one draw per submission; spaced; epoch settled |
| CommitteeManager.sol | copy of the committee, pause flag | initialize, updateCommittee, rotateCommittee, candidates, pause, resume | CommitteeRotation | the copy is a real committee of known age |
| SignatureEscrow.sol, MixerEscrow.sol | older escrows | | RewardPool | not modelled yet / no longer used |
| A2LECDSAVerifier.sol, VRF.sol | none | curve arithmetic | | out of reach: verdicts are inputs of the models |
| scripts/*.js | addresses, committee_members.txt | rotation service, escrow and reputation scripts | contracts | rotation eventually happens; planned |
| alice.c, bob.c, tumbler.c | one session per Alice and Bob, one global session in the tumbler, nullifier file | message handlers of registration, promise and payment | each other over ZeroMQ, the escrow through truffle scripts | secrets stay with their session; deposits released by their owner; nobody blocks; payments end |
| secret_share*.c, auditor.c, dkg_*.c | commitment file per id, one file of shares per receiver, what an audit has collected | dealing, storing, audit requests, verification, reconstruction | tumbler, receivers, auditor over ZeroMQ | only what was dealt is reconstructed; THRESHOLD receivers suffice; a deal ends |
| simulation/, models/committee.py, monitors/, agents/ | users, committee, votes, reputations, weights, statistics | the minute loop: audit, detection, vote on thread pools, sanctions, election | models' answers | every member votes once per case; rulings follow votes; totals true; weights drawable; no deadlock |
| models/user.py, agents/llm_strategy_agent.py | task, plan, payments twice, running statistics | tick, Decide of three kinds of user, plan validation, observe_ban | detection | statistics match the history; task conserved; plans funded and aware of bans |
| Agent/main.py, User.py | users, one lock per user, published histories | /register, /getAccountTransactions, /intercepted, /arrested, /failedTransactions | language model | locks held exactly inside their blocks; stages not overrun; everyone learns |
| Agent/test.py | one client per id | register, ask, time out, pay, report | the server | payments accounted for; every client answered |
| go-ethereum, relic, pari, bicycl, VRF libraries, data sets, notebooks, `.history/` | | | | vendored, generated or data, not modelled |

What is hard about it. On chain, transactions of many accounts interleave freely (any
account may submit an output, verify it, rotate, change candidates, refund);
confirm races refund after the deadline; the rotation ends and distributes an
epoch that the pool's owner may also end and distribute by hand; failing
distributions are swallowed; solidity 0.6 subtractions wrap silently, so each of
them is correct only by a global invariant; copies of the committee go stale. In the
payment, one tumbler with one global session serves several Alices and Bobs, commands
on the chain fail at any point and most failures are only printed. In the Python
programs, thread pools nest, votes arrive in any order, model calls fail or return junk
after many seconds, clients give up while their request still runs, and lists are
related by position only.
`PROJECT.json` lists these hazards at their lines with the properties aimed at them.

## Modules

A transaction is all-or-nothing, so each external function is one action: its
requires are guards, its writes primed variables, and calls to other contracts are
part of it. Ether is counted in a small unit; addresses are model values. Events,
getters and gas are left out. Contract references (`rewardPool`, `committeeRotation`)
are only ever set to the contracts the migrations deploy. Ether is always sent after
the state is written, so re-entered calls see the written state and are interleaved
as transactions of their own.

- `Accounts`: balances, transfers, block time (external: the EVM).
- `RewardPool`: the storage is one record and every function an operator on it, because
  other contracts make two calls in one transaction (receive then recordTransaction,
  endEpoch then distributeRewardsToMembers). `CanX` collects the requires of X, `XTx`
  is the transaction. `claimed` is a history of payments.
- `StakingManager` extends `RewardPool`: `Slash` pays into the pool through `Receive`, or
  keeps the ether while no pool is set (history `surplus`).
- `MerkleTreeWithHistory`: `_insert` as a recursive function over the levels; MiMC is the
  constant operator `HashLeftRight`. `leaves` is a history; `TreeRoot` is the reference
  definition.
- `FixedMixerEscrow` extends both: openEscrow inserts the commitment, confirm pays the
  fee and records the transaction in the pool. A signature exists when a party has
  made it (`Sign`, external).
- `EscrowPromise`: the abstract specification of an escrow. `FixedMixerEscrow` maps to it
  by the last event of each id, the ids past their deadline and its balance.
- `ReputationManager`: the recurrence 0.95 r + 0.6 c + 0.4 p with the code's rounding.
- `CommitteeSelection`: top-K selection sort, weights, roulette without replacement.
  A VRF output is the tuple of the words read from it. `SelectionRounds` runs it one
  seat at a time.
- `CommitteeRotation` extends `RewardPool`, `ReputationManager` and `CommitteeSelection`:
  the VRF life cycle, the candidate pool, and rotateCommittee as one transaction across
  the three contracts. History variables: `submissions`, and `drawnWith`, the number of the submission and the
  output that each rotation used.
- `CommitteeManager` extends `CommitteeRotation`: every function of the manager next to
  direct calls that go past it.
- `PuzzlePayment`: the handlers of alice.c, bob.c and tumbler.c, one action per message
  handled, over a set `net` of messages in flight. The arithmetic of puzzles, ciphertexts and
  signatures is kept, modulo a small prime: a puzzle is the exponent of its curve point and
  the plaintext of its ciphertext. Truffle commands and proof scripts may fail wherever they
  are called. The tumbler's state is one record shared by all sessions, as in the program. In the
  handlers of payment_init and bob_confirm_done it deals shares before it answers or exits: `dealing` holds the message
  it does that for, nothing else is handled meanwhile, and the call returns (`TumblerDealt`) only when the
  receivers run (`reachable`). An escrow is known by its pool and id, since every pool is a contract of its own.
- `ShareAudit`: secret_share.c on the tumbler's side, secret_share_receiver.c and
  `fetch_shares_by_msgid` of auditor.c. A polynomial is named by its deal and block; shares of one
  polynomial at different points give the block back, anything else gives `Garbage`. The
  commitment of an id is truncated and then written, a receiver appends a line per block and may
  lose any of them, requests outlive the dealer's 30-second timeout, receivers crash with their
  requests and restart with their files, and the tumbler may die inside a deal. The auditor asks
  the receivers one after the other, loads the commitment anew for each share, and reconstructs
  each block from the first THRESHOLD shares it got. A receiver gives out at most `MaxShares` lines (1000 in the
  code). `Buffer` is the code's result: as long as the secret, with the last block that arrived at its end.
- `DetectionPipeline`: the simulation's minute loop as phases; `StartVote`, `CastVote` and
  `CloseVote` interleave as the two nested thread pools allow. An auditor that had too few users to train its
  forest ends the program at the first audit (`UntrainedAudit`). Reputations are integers in
  units of 1/Scale and weights fractions, so that the code's divisions are exact.
- `UserPlan`: one simulated user of any kind. `account` holds both payment lists and the
  running statistics. Amounts are integers and every float subtraction may be off by a `Drift`.
  `Pays` is one round of the loop in each kind's Decide, `Spend` the loop; sorted(), the statistics
  and the two loops of the plan check are recursive functions over the list they walk.
- `AgentServer`: the Flask handlers, cut where another thread can come in (locks, model
  calls, the read and the write of money_transferred). The lists that the model answers with hold any minutes, written as
  integers, floats or text: User.py looks at none of them before it charges. `AgentDriver` extends it by the clients
  of test.py with their timeouts (`GiveUp`, after which the server's thread is an orphan that
  still charges the batch), their reports, and failure reports from outside.
- `DataInduction` (induction, loops, sums, powers), `Contracts_proofs` (what each function of the pool does
  to the books, the stakes, the tree and the escrow), `CommitteeManager_proofs` (selection, reputations, the
  pool inside the rotation, rotation and manager), `PuzzlePayment_proofs`, `ShareAudit_proofs`,
  `DetectionPipeline_proofs`, `UserPlan_proofs`, `AgentDriver_proofs`: theorems.
- `MC*`: the instances that TLC checks.

Operators marked "Mutant of X" are wrong variants of X; no specification uses them.
Replacing X by its mutant must make TLC refute the property named in `PROJECT.json`.

## Runs

| Run | Instance | What it shows |
|---|---|---|
| pool_epochs | 2 members (one the owner), 2 ether each, 2 epochs, 2 transactions, 1 rotation | PoolInv (types, exact backing, no epoch overspent, all claims payable), PaidOncePerEpoch, RotationSettlesEpoch, with the owner and the rotation both closing and distributing epochs |
| staking | 2 members, stake of 2 units, 4 each | TotalIsSumOfStakes, StakesBacked |
| merkle_tree | height 3, ring of 3, all leaf sequences | MerkleInv (the last root is the tree's), KnownRootsAreTheRecentOnes |
| escrow | 2 ids, 2 accounts, deadlines within 2 blocks | EscrowSolvent, DepositsMatchTree, EscrowTermsFixed, KeepsPromise (refinement) |
| selection | up to 5 candidates, top 4, 3 seats, words 0..15 | TopKIsTheBest, WheelIsFair (weights follow scores, the roulette is exact) |
| committee | 2 candidates, 2 seats, 2 rotations, 3 submissions, 2 blocks, manager and direct calls, reputations updated while below 100 | RotationInv (distinct candidates and members, spaced rotations), EachSubmissionDrawsOnce, HistoryIsTrue, ManagerInv (the copy was a committee), StaleCopyIsDatable, ReputationMovesSlowly |
| detection | 2 normal users, 1 attacker, 3 candidates (1 illegal) for 2 seats, 3 minutes, audit each minute, election every other | DetectionInv (types, drawable weights), EveryMemberVotedOnEveryCase, SanctionTotalsAreTrue, RulingsFollowTheVotes, no deadlock |
| user_plan | each kind of user, task 50 in amounts 10 and 30, plans of 2 minutes, 3 CSV histories | UserInv (types, both payment lists agree), StatMatchesHistory, TaskIsConserved, PlansAreSound (funded, aware of bans) |
| agent | 3 users (1 by rule), 3 server threads, from three start states, 3 requests from each, 1 timeout, good, float, text and [0] lists | AgentInv (locks held exactly inside their blocks), InterceptionsReachEveryone, StageIsNotOverrun, PaymentsAreAccounted, ClientsAreAnswered (liveness) |
| puzzle_payment | 2 sessions with equal or different ids and pools, modulo 3, beta and tau from 1, 2, escrow opening on or off, receivers that stop and start during a deal | PaymentInv (nobody waits in vain, rejections only when disturbed), AliceExtractsGamma, ReleasedByItsOwner, PaymentFinishes (liveness) |
| share_audit | 3 receivers, 2 shares needed, 2 blocks, at most 3 lines per answer; one deal with 3 faults, or two deals with 1, under one id or two | ReconstructionIsADeal, AuditSucceedsWhenItCan, DealsEnd (liveness) |
| puzzle_extraction | 1 session, modulo 5 | refuted: Bob does not end with the alpha of the promise |

Why the bounds are enough. Two members with two transactions and two ether give shares that
do not divide evenly; two epochs let one epoch's claims meet the other's ether. A stake of two units
is slashed in one or in two steps. A tree of height 3 has left and right nodes on every
level and fills up, and its ring of 3 wraps twice. Two deadlines inside the time bound let
confirm and refund meet before, at and after them; a denomination of 5 gives a fee of 1.
Reputations are bounded and slow for every value by proof. The committee run
takes them through their first updates only, from 0 and from a first score, far below the bound, so it checks
the size of a step and leaves the bound to the proof. The words 0..15 cover every residue of every total weight (at most 16). In the
committee run two outputs seat the two candidates in either order, so committees differ
between rotations, and three submissions for two rotations include every overwriting of an
output; draws that leave candidates out are the selection run's. The detection run lets
the votes of two audits meet in one election, with more referred users than workers are
needed to interleave and a member replaced between terms. Two interceptions at the same lock take eight requests
(three registrations, three plans, two reports), too many from an empty server, so the agent run begins in three states: the
empty server; one user caught, one at work and one about to register; and two users caught while the third asks for
its next plan. The last two are what DriverSpec reaches after users have registered and paid once. From them
a timeout puts an orphaned request beside its own retry, two interceptions run their loops at once, each wanting the lock
of the other's user and of a third who plans, and a user registers in the middle of a loop. The proofs start from the
empty server and cover all safety properties without bounds. Two sessions are the smallest case in which the tumbler's global session is overwritten;
modulo 3 there are still two nonzero residues, one the inverse of neither the sum nor the
difference it is confused with, and the two are what beta and tau are drawn from (the refutation draws
them from all five residues). In the share_audit run one lost line, one
lost answer and one late receiver can meet in one deal, and two deals under one id let an audit
read the old commitment for some shares and the new one for others; an audit leaves nothing behind
that others see, so one audit at any time stands for many. Runs on a chain, and programs whose bounds are
reached, may stop, so only the detection run, whose end is an explicit action, checks deadlock.

Symmetry is used in the detection run only (interchangeable normal users and honest
candidates), which checks invariants and deadlock only.

Fairness. On chain there is none: accounts are not obliged to send transactions. `DriverSpec`
assumes weak fairness for each server thread and each client: both are threads of
interpreters that schedule every runnable thread, and a model call ends because the client library
has a timeout. A lock that is never released, or two handlers that wait for each
other, still starve a client under it. Nothing obliges a client to time out or anybody to report.
`ShareSpec` assumes weak fairness for the tumbler's thread, whose timer expires, and for each receiver
that stays up with a request. Nothing restarts a receiver, so `DealsEnd` says what the code
can promise: deals end if no receiver stays down for ever. It needs that premise because
zmq_ctx_destroy waits without limit for unsent messages (ZMQ_LINGER is never set, secret_share.c:520).
`PaymentSpec` assumes weak fairness for each Alice, each Bob and the tumbler: they
poll or block on their sockets and handle a message once it is there; commands may fail but
return. Sending shares is not such a command: it returns once the receivers run, so `TumblerDealt` is
strongly fair (a receiver that comes back every time gets its share, and ZeroMQ reconnects by itself), and
`PaymentFinishes` has the premise of `DealsEnd`, that the receivers do not stay down: []<>reachable.

## Findings

`puzzle_extraction` contradicts a line of the repository, quoted in `PROJECT.json`: puzzles are
randomised additively while Alice and Bob take the randomness off by division, so the
number Bob extracts is not the promised alpha.

Divergences met while modelling, without a run of their own; the models follow the code
in each case:

- rotateCommittee does not look at currentVRFVerified (the require is commented out,
  CommitteeRotation.sol:282), while the committee documentation lists a verified output as a condition.
- The documentation of the rotation script says that a random number is used once ("随机数只能使用一次",
  the file beginning with update_and_rotate in docs/, line 473). submitVRFRandomWithProof clears the flag for any value
  (CommitteeRotation.sol:113): after a rotation the same output can be submitted, and drawn with, again.
  `EachSubmissionDrawsOnce` is therefore about submissions.
- Repeated full scores take a reputation to 1981 (ReputationManager.sol:99); the documentation says 0-200
  (ecdsa/docs/committee_rotation_and_reputation_logic.md:183), which three updates pass.
- CommitteeManager.getCurrentCommittee returns a copy that direct rotations leave behind.
- update_rep compares decisions and votes by position (models/committee.py:27); the lists are
  filled in the order futures complete, and only one of them is cleared after a term.
- The first layer's recall is divided by the attackers alive after the bans of the same audit
  (simulation/statistics.py:30), so it can exceed 1.
- is_teammate tests for a type "Legit" that no user has (models/committee.py:118).
- Decide compares the task exactly after float subtractions (models/user.py:451), the plan was
  checked with a tolerance: the last payment of a plan can be skipped. `PlanIsFunded` and
  `TaskIsConserved` are therefore stated up to the rounding.
- The survival time shown to voters leaves out the loaded history (models/committee.py:100).
- /failedTransactions finds records by a float division (Agent/main.py:83), lowers
  money_transferred even if none was found, and does so without the user's lock, so the update can be lost.
- Two clocks describe one stage after a replanning (Agent/User.py:172 and :193).
- The introduction with the experience is composed once, before there is any (Agent/User.py:53).
- The tumbler's openEscrow command lacks the commitment that the script requires, its failure
  is ignored and the promise is signed over a placeholder hash (tumbler.c:667, :725).
- A receiver without a file answers FILE_NOT_FOUND (secret_share_receiver.c:694), which the auditor does
  not know (auditor.c:332): it takes the bytes for a number of blocks, fails to allocate, and writes the
  next shares through a null pointer.
- No shares at all are reported as "all members judged the user legitimate" (auditor.c:541), also when
  every receiver answered NOT_FOUND.
- A message id that is dealt twice (a placeholder hash) can never be audited again: lines of both
  deals are found and those of the first do not fit the second's commitment.
- When every answer lacks the last blocks, success is returned all the same (secret_share.c:808), with the
  length of the whole secret: the last block that arrived takes up the rest of the buffer and is written at its end, behind
  zeros (secret_share.c:889-914). `ReconstructionIsADeal` says exactly that.
- A list is charged before its items are looked at (Agent/User.py:278). One of text raises at :286 or :292 and [0] is
  turned into "-1" (:298); the client takes both for no payment (test.py:167). Floats end the client's thread (int() of "2.0").
  `PaymentsAreAccounted` counts them as `dropped`.
- With A2L_SKIP_OPEN_ESCROW the tumbler signs a promise over the hash "0x0" (tumbler.c:1725), which Bob
  refuses (bob.c:1117).
- An auditor without a forest returns [False] for each user (monitors/crypto_monitor.py:201), and reading the type of
  False ends the simulation (detection_layers.py:52).
- The result of fflush is ignored (secret_share_receiver.c:218): an ACK may be sent for a lost line.
- In monitor mode only the first audit's r0 + beta + tau is kept (auditor.c:1112), so every later audit
  computes a wrong second message id.
- A payment whose completed signature is rejected is answered all the same (tumbler.c:2160).

## Proofs

Every invariant, action property and refinement that the passing runs check is also a theorem, for every
value of the constants that the named assumptions allow. Three liveness properties are the
exception. The inductive invariants of the last five modules below were checked by TLC on the instances of
their runs before they were proved.

`DataInduction`. The library's induction theorems take a predicate as a parameter, which the
provers cannot instantiate. Stated with a set instead ("a set of numbers that contains 0 and
the successor of each of its elements is Nat", "a set of subsets of S that contains the empty
set and is closed under adding an element contains every finite subset of S") they can be cited by name.
From them follow the existence of recursively defined functions (`LoopRuns`: the states of a loop exist;
`LoopStays`: what a round keeps, the loop keeps), the laws of `SumFunction` (a fold in an unspecified order:
monotonic, one term more, one term changed, terms renamed), and powers of two.

`Contracts_proofs`, the stakes. Any finite set of users, any positive stake, any funds. The inductive
invariant is the type invariant (amounts and totals stay natural numbers: no subtraction wraps),
the total, the balance as total plus surplus, and that active stakes are not empty. A stake is
seen as a set of coins (owner, rank), so the sum over users is the cardinality of a set: `stake`
adds a block of coins, `unstake` removes one, `slash` removes the coins of highest rank. The
type invariant alone is not inductive: that `totalStakePool - amount` stays natural needs the sum.

`Contracts_proofs`, the pool, and the third part of `CommitteeManager_proofs`. `PoolBooks` says of each epoch that
the members' transactions add up to its total, that open rewards and claims do not exceed its reward,
that nothing is promised before the distribution and nothing is left of what was claimed, and
of all epochs that what they have left is the recorded balance. Each function of the contract
keeps it (one lemma each); distributing rounds every share down, so the shares add up to at most
the reward. `RotateInv` puts two of them together for the transaction in which a rotation ends
and distributes an epoch. `PoolInv`, `PaidOncePerEpoch` and `RotationSettlesEpoch` follow.

`Contracts_proofs`, the tree. Any height, ring size, hash and leaves. The code keeps one node per
height; the inductive invariant (`SiblingsRemembered`) says that it is the root of the complete subtree
left of the next leaf's path, wherever that path is a right child, and `RingOfRoots` that the
ring holds the roots of the last insertions. Climbing from the new leaf (induction on the height)
rebuilds exactly the nodes above it, the others are unchanged because no leaf below them is new.
That a root evicted from the ring is not accepted needs a hash without collisions: it is a hypothesis of
`KnownRootsAlways`, satisfied by the symbolic hash of the run.

`Contracts_proofs`, the escrow. Any finite set of escrows and any accounts, deadlines and denomination. The
inductive invariant adds `EscrowShape` to the types and to `EscrowSolvent`: a record is written as a
whole, an unsettled escrow holds exactly one denomination, and a settled one has an outcome.
Without it nothing says that a refund returns what openEscrow took. Every step is shown to be one
of five kinds (`StepKinds`): an opening, a confirm, a refund of an escrow that exists, a refund
of an id that does not (the code does not reject it, and it moves nothing), or a step that
leaves deposits alone. Each kind maps to an action of `EscrowPromise` or to a stutter
(`EscrowRefinement`), and to an insertion or a stutter of the tree (`EscrowImplementsTree`), so the tree's
theorems hold inside the contract. `DepositsMatchTree` then counts openings, commitments and leaves.

`CommitteeManager_proofs`, the selection. Any pool, scores, weights, seats and words. By induction on the passes, the
first k places of the partial selection sort hold a best choice of k candidates and the array stays a
permutation. A wheel is sound when its weights are positive for the unpicked, zero for the
picked, and add up to totalWeight; every spin keeps that, and the values that draw candidate i are
the interval between two partial sums, of length weights[i]. `CommitteeSelected` (distinct members, all from
the pool) is what the rotation uses.

`CommitteeManager_proofs`, the rest. Reputations: the bound of 1981 on `calculateReputation`, the least fixed point of the rounded recurrence under full
scores, is not inductive, because the function reads the stored `previousReputation`; the invariant bounds the stored value,
and the two rounded terms of the recurrence are bounded by lemmas of their own. Rotation: the invariant adds
to the properties that the last rotation is not in the future and that the output the next
rotation would use is the one recorded for the current round (`CurrentOutputIsRecorded`), without which
an overwritten submission could make the history wrong. That no submission draws twice is proved from the numbers
of the submissions in `drawnWith`, which increase. Manager: the committees of the past include
the first and the current one, and the last update is not in the future. Assumption: the initial committee has
different members, as the migration passes them.

`DetectionPipeline_proofs`. Any users, candidates, committee, pool sizes and schedule. The invariant has
nine named parts that say which votes are in the lists at every point between `StartVote`, `CastVote` and `CloseVote`:
a member's list has a vote on a user exactly when it has been collected, the running counts are
those votes, a user is ruled on once and after its last vote, sanctions follow rulings, and the totals lag by the
rulings not yet settled. Weights stay drawable because a reputation is at most halved in each term; as the
model counts reputations in units of 1/Scale where the code uses floats, Scale must be at least 2 to
the number of elections (`DetectionAssumption`).

`PuzzlePayment_proofs`. Any sessions, ids, pools and presignatures, any prime Q. First the arithmetic: every
nonzero number has an inverse modulo a prime (the least positive combination of x and Q divides
both), and completing a presignature and extracting from it gives the secret back. The invariant then says what each
message under way implies about the states of its session (`MessageOK`), that a session has one
message under way and at most Alice's answer to Bob beside it, that an escrow belongs to the Alice
who opened it, and that the tumbler's global session is that of an Alice who came alone
(`TumblerKnows`). While the tumbler deals, the message it deals for is still under way and has been accepted
(`DealsFit`), so its answer, sent later, finds the client that waits. Steps of one session leave the others' parts alone (`SessionStep`); each handler then has a
lemma of its own.

`ShareAudit_proofs`. Any receivers, threshold, blocks, deals and message ids. The two properties are about an
audit that is over, so `ShareIInv` follows what it is made from: a message is stored at most once, hence a
file has no line twice (`FilesFit`); what the auditor has collected was stored, under the id, by the
receivers asked so far (`SharesFit`); the shares verified so far are of one deal, and if the
commitment has been rewritten since, it is to a deal of which the auditor has nothing
(`VerificationFits`), so that the next share is refused rather than mixed in; and the deal that some receivers held
when the audit began is still what their files, their answers and the commitment say (`ReadyFits`, for ids with a
single deal: with more, the limit on the lines of an answer could cut a deal off).
`NullFits` ties the auditor's failed allocation to an answer FILE_NOT_FOUND.

`UserPlan_proofs`. Any amounts, task, plan length, set of rounding errors, tolerance and CSV histories. Three
algorithms are proved against reference definitions first. sorted() gives an ascending
permutation, and a payment that is not earlier than any stored one goes to its end (`ByTimeLater`); walking a
list with _update_stat_with_tx gives its count, sum, ends, gaps and counts per amount
(`FeaturesAreRight`), which do not depend on the order of the list (`PermutedTotals`) where the recomputation does not
sort; _validate_and_fix_plan returns allowed amounts whose total is within the tolerance, because what it
calls used is the total of what it kept (`FixedPlanIs`). `UserIInv` adds two facts to the four properties.
No stored payment is dated in the future: without it a new payment could belong into the middle and the
incremental intervals would be wrong. And a plan has no gap from now on: without it a minute
that has no plan could lie before planned ones, the new plan would be laid over the rest of the old, and neither the
check's total nor the bans known would be those of the whole. A payment takes from the task what it
takes from the plan, but for one rounding error (`PaidIsGood`), also when it is skipped.

`AgentDriver_proofs`. Any ids, server threads, requests and timeouts. The server's part says for each thread what it relies on
at the point where it stands (`ThreadOK`): which locks it holds, that the user it
looked up before waiting for a lock is the one it asked for, that the stage it is about to extend is still short, that the
users its interception has passed know of it. A step of one thread keeps what the others rely on because of
its frame (`Frame`): a registered user keeps its id, rank and experience, and its stage is touched by the
holder of its lock only; `OthersKeep` is proved once, and each step is then shown to have the frame. The driver's part says which
thread works for which client, or for nobody after a timeout (`ClientOK`, `OwnedOK`), that an id is
registered once (`IdsAreUnique`: a client that times out while registering goes on without registering again), and that the
account of a client balances (`AccountOK`). Nothing is assumed about the minutes in a list, nor about the form of its
items, except that a list mixing text and numbers counts as no list (sort() raises before the charge). Money is read and written in two steps; that no update is lost in
between follows from the user's lock.

Only model-checked are the liveness properties `ClientsAreAnswered`, `PaymentFinishes` and `DealsEnd`, which rest on
fairness and are out of the prover's reach; and `puzzle_extraction`, a refutation, for which one instance is enough.

## Not modelled

- Curve, class-group and proof arithmetic (A2LECDSAVerifier.sol, VRF.sol, relic, bicycl, the
  proof scripts): verdicts are inputs of the models.
- SignatureEscrow.sol (deployed and scripted, not used by alice, bob and tumbler) and MixerEscrow.sol.
- In the audit: what is done with a recovered secret (parse_tumbler_share, the message id of the
  second share, the consistency checks on it), the DKG key shares, the watching of the transaction list.
- The DKG and the one-shot rotation scripts.
- In the payment: the layered_proof_share handler, whose senders are never called; malformed
  messages; the auditor's ciphertexts, which follow the same arithmetic.
- In the agent server: /judge (a model call on text), /add_baduser_sequence (it calls a
  constructor that does not exist), and the mode use_plan = False that the configuration does not select.
- Prompts, plots, CSV and log formats, evaluation lists, benchmarks.
- Most lines of the repository are data-analysis notebooks of the EllipticPlusPlus data set,
  editor snapshots (`.history/`), vendored libraries and go-ethereum: they hold no logic of this
  system, so the modelled share of all lines stays small although most of the system's own control is modelled.

## Plan

1. `KeyGeneration`: the DKG phases; the auditor's pairing of the two shares of a payment.
2. Composition of all contracts on one chain (`MixerChain`): conservation of ether,
   availability of confirm for all escrow instances although the pool knows only one;
   `SignatureEscrow` next to it.
3. `RotationService`: update_and_rotate_new.js and auto_committee_rotation.js with their
   stale reads of the candidate pool and committee and the gap between submission and
   rotation; liveness of rotation under the scripts' retries.
