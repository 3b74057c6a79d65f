---------------------------- MODULE PuzzlePayment ----------------------------
(***************************************************************************)
(* The payment protocol of alice.c, bob.c and tumbler.c.  Every session is *)
(* one Alice paying one Bob through the tumbler, a single-threaded ZeroMQ  *)
(* server whose handlers share one global state.                           *)
(*                                                                         *)
(* Exponents and CL plaintexts are numbers modulo the prime Q: a puzzle is *)
(* the exponent g of its curve point and the plaintext ctx of its          *)
(* ciphertext.  A presignature s on a puzzle with exponent y becomes a     *)
(* signature s / y; the contract accepts that and its negative (low-s).    *)
(* The auditor's ciphertexts follow the same arithmetic and are left out.  *)
(*                                                                         *)
(* Left out: malformed messages, and random choices that make              *)
(* adaptor_ecdsa_sign loop for ever (a puzzle with exponent 0).            *)
(***************************************************************************)
EXTENDS Naturals, FiniteSets

CONSTANTS
    Session,
    NoSession,               \* an empty string, address or hash
    Pools,                   \* pool labels
    Starts,                  \* escrow ids and labels that the Alices are started with
    Q,                       \* the order of the group
    Shifts,                  \* the values that beta and tau are drawn from
    Presignatures,           \* the values of s that adaptor_ecdsa_sign draws
    ChainOutcomes,           \* may a truffle command succeed, or fail?
    ProofOutcomes            \* may a proof script succeed, or fail?

ASSUME PuzzleAssumption ==
    /\ IsFiniteSet(Session) /\ NoSession \notin Session
    /\ Starts \subseteq [id : [Session -> Session], pool : [Session -> Pools]]
    /\ Q \in Nat \ {0, 1}
    /\ \A p, r \in 1 .. Q - 1 : p * r # Q
    /\ Shifts \subseteq 0 .. Q - 1 /\ Presignatures \subseteq 1 .. Q - 1
    /\ ChainOutcomes \subseteq BOOLEAN /\ ProofOutcomes \subseteq BOOLEAN

VARIABLES
    alice,                   \* [Session -> alice_state_t and her place in main]
    bob,                     \* [Session -> bob_state_t and his place in main]
    tumbler,                 \* tumbler_state_t and whether the loop still runs
    net,                     \* the messages sent whose handlers have not ended
    dealing,                 \* those the tumbler is sending shares for
    reachable,               \* do the receivers of these shares all run?
    nullifiers,              \* nullifier_hashes.txt
    escrows,                 \* the escrows opened by the Alices, by pool and id
    funded,                  \* the escrow ids the tumbler opened for a Bob
    verified                 \* history: did cp_ecdsa_ver accept this payment?

vars == <<alice, bob, tumbler, net, dealing, reachable, nullifiers, escrows, funded, verified>>

Zq == 0 .. Q - 1
NoPuzzle == [g |-> 0, ctx |-> 0]
NoEscrow == [opener |-> NoSession, dataHash |-> NoSession, released |-> FALSE]

\* Escrow ids come from rand() seeded with the second a process starts in, so
\* two Alices may draw the same one.  A2L_SKIP_OPEN_ESCROW may be set.
PaymentInit ==
    /\ \E start \in Starts :
          alice = [s \in Session |->
                     [stage |-> "start", id |-> start.id[s], pool |-> start.pool[s],
                      hash |-> NoSession, tau |-> 0, puzzle |-> NoPuzzle, presig |-> 0, gamma |-> 0]]
    /\ bob = [s \in Session |->
                [stage |-> "start", id |-> 0, puzzle |-> NoPuzzle, presig |-> 0,
                 beta |-> 0, alpha |-> 0, sig |-> 0]]
    /\ \E skip \in BOOLEAN :
          tumbler = [up |-> TRUE, skip |-> skip, aliceId |-> NoSession,
                     aliceHash |-> NoSession, bobId |-> 0, pool |-> NoSession]
    /\ net = {} /\ dealing = {} /\ reachable = TRUE
    /\ nullifiers = {}
    /\ escrows = [e \in Pools \X Session |-> NoEscrow]
    /\ funded = {}
    /\ verified = [s \in Session |-> "unpaid"]

-----------------------------------------------------------------------------
(* The arithmetic.                                                         *)

\* bn_gcd_ext of relic: the inverse modulo Q, and 0 for 0.
InverseModQ(x) == IF x = 0 THEN 0 ELSE CHOOSE y \in Zq : (x * y) % Q = 1

\* A "presignature" s and a secret w make the signature s / w.
Complete(s, w) == (s * InverseModQ(w)) % Q

\* g^x and Enc(x) become g^(x+r) and Enc(x+r).
Randomize(puzzle, r) == [g |-> (puzzle.g + r) % Q, ctx |-> (puzzle.ctx + r) % Q]

\* zk_puzzle_relation_verify: point and ciphertext were shifted alike.
Related(puzzle, randomized) ==
    (randomized.g + puzzle.ctx) % Q = (randomized.ctx + puzzle.g) % Q

\* cp_ecdsa_ver, and recovery on the chain up to the sign of s.
IsSignature(sig, presig, y) ==
    sig # 0 /\ sig \in {Complete(presig, y), Q - Complete(presig, y)}

-----------------------------------------------------------------------------
(* The chain, as the scripts see it.                                       *)

\* openEscrow_fixed.js throws without a commitment; the pool's contract reverts
\* for an id that exists.
OpensEscrow(outcome, commitment, isNew) == outcome /\ commitment # NoSession /\ isNew

\* Mutant of Confirms: the contract does not look at the signatures.
ConfirmsAnything(e, hash, signer, sig, presig, y) ==
    e \in DOMAIN escrows /\ escrows[e].dataHash # NoSession /\ ~escrows[e].released

\* confirm of an escrow of Alice's: the tumbler signs (id, hash), the
\* presignature was made by signer over her own escrow and hash.
Confirms(e, hash, signer, sig, presig, y) ==
    /\ e \in DOMAIN escrows /\ hash # NoSession
    /\ escrows[e].dataHash # NoSession
    /\ ~escrows[e].released
    /\ escrows[e].dataHash = hash
    /\ <<alice[signer].id, alice[signer].hash>> = <<e[2], escrows[e].dataHash>>
    /\ IsSignature(sig, presig, y)

-----------------------------------------------------------------------------
(* Alice.                                                                  *)

Send(m) == net' = net \cup {m}
Reply(m, answers) == net' = (net \ {m}) \cup answers

\* registration: the escrow is opened first.  A failure is only logged; the
\* registration goes out with whatever hash there is.
AliceRegistration(s) ==
    LET e == <<alice[s].pool, alice[s].id>>
    IN  /\ alice[s].stage = "start"
        /\ \E opens, writes \in ChainOutcomes :
             LET opened == OpensEscrow(opens, s, escrows[e].opener = NoSession)
                 hash == IF opened THEN s ELSE NoSession
             IN  /\ escrows' = IF opened
                               THEN [escrows EXCEPT
                                       ![e].opener = s,
                                       ![e].dataHash = IF writes THEN s ELSE NoSession]
                               ELSE escrows
                 /\ alice' = [alice EXCEPT ![s].stage = "registering", ![s].hash = hash]
                 /\ Send([type |-> "registration", s |-> s, id |-> alice[s].id, hash |-> hash])
        /\ UNCHANGED <<bob, tumbler, dealing, reachable, nullifiers, funded, verified>>

\* registration_done_handler, then token_share to Bob.
AliceRegistrationDone(s) ==
    LET m == [type |-> "registration_done", s |-> s]
    IN  /\ m \in net
        /\ \E proof \in ProofOutcomes :
             IF alice[s].hash # NoSession /\ proof
             THEN /\ alice' = [alice EXCEPT ![s].stage = "token_shared"]
                  /\ Reply(m, {[type |-> "token_share", s |-> s, pool |-> alice[s].pool]})
             ELSE /\ alice' = [alice EXCEPT ![s].stage = "failed"]
                  /\ Reply(m, {})
        /\ UNCHANGED <<bob, tumbler, dealing, reachable, nullifiers, escrows, funded, verified>>

\* puzzle_share_handler answers Bob; payment_init randomises the puzzle again,
\* presigns on it and asks the tumbler.
AlicePaymentInit(s) ==
    \E m \in net :
        /\ m.type = "puzzle_share" /\ m.s = s
        /\ alice[s].stage = "token_shared"
        /\ IF Related(m.original, m.puzzle)
           THEN \E tau \in Shifts, presig \in Presignatures :
                  LET puzzle == Randomize(m.puzzle, tau)
                  IN  /\ puzzle.g # 0
                      /\ alice' = [alice EXCEPT ![s].stage = "paying", ![s].tau = tau,
                                                ![s].puzzle = puzzle, ![s].presig = presig]
                      /\ Reply(m, {[type |-> "puzzle_share_done", s |-> s],
                                   [type |-> "payment_init", s |-> s, presig |-> presig,
                                    original |-> m.puzzle, puzzle |-> puzzle]})
           ELSE /\ alice' = [alice EXCEPT ![s].stage = "failed"]
                /\ Reply(m, {})
        /\ UNCHANGED <<bob, tumbler, dealing, reachable, nullifiers, escrows, funded, verified>>

\* The exponent is extracted from the finished signature.
ExtractGamma(presig, sig) == (InverseModQ(sig) * presig) % Q

\* "Derandomize the extracted secret": tau was added, and is divided out.
Derandomize(gamma, tau) == (gamma * InverseModQ(tau)) % Q

\* payment_done_handler (whose test of g^gamma only prints), then
\* puzzle_solution_share to Bob.
AlicePaymentDone(s) ==
    \E m \in net :
        /\ m.type = "payment_done" /\ m.s = s
        /\ LET gamma == ExtractGamma(alice[s].presig, m.sig)
           IN  /\ alice' = [alice EXCEPT ![s].stage = "done", ![s].gamma = gamma]
               /\ Reply(m, {[type |-> "puzzle_solution_share", s |-> s,
                             alphaHat |-> Derandomize(gamma, alice[s].tau)]})
        /\ UNCHANGED <<bob, tumbler, dealing, reachable, nullifiers, escrows, funded, verified>>

AliceNext(s) ==
    \/ AliceRegistration(s)
    \/ AliceRegistrationDone(s)
    \/ AlicePaymentInit(s)
    \/ AlicePaymentDone(s)

-----------------------------------------------------------------------------
(* Bob.                                                                    *)

\* token_share_handler generates the withdrawal proof; then promise_init.
BobPromiseInit(s) ==
    \E m \in net :
        /\ m.type = "token_share" /\ m.s = s
        /\ \E proof \in ProofOutcomes :
             IF proof
             THEN /\ bob' = [bob EXCEPT ![s].stage = "promising"]
                  /\ Reply(m, {[type |-> "promise_init", s |-> s, pool |-> m.pool]})
             ELSE /\ bob' = [bob EXCEPT ![s].stage = "failed"]
                  /\ Reply(m, {})
        /\ UNCHANGED <<alice, tumbler, dealing, reachable, nullifiers, escrows, funded, verified>>

\* promise_done_handler: the queries of the chain are run and their answers
\* ignored, the hash must have its 64 digits, and the presignature is checked;
\* then puzzle_share.
BobPuzzleShare(s) ==
    \E m \in net :
        /\ m.type = "promise_done" /\ m.s = s
        /\ IF m.hashed
           THEN \E beta \in Shifts :
                  /\ bob' = [bob EXCEPT ![s].stage = "puzzle_shared", ![s].id = m.id,
                                        ![s].puzzle = m.puzzle, ![s].presig = m.presig,
                                        ![s].beta = beta]
                  /\ Reply(m, {[type |-> "puzzle_share", s |-> s, original |-> m.puzzle,
                                puzzle |-> Randomize(m.puzzle, beta)]})
           ELSE /\ bob' = [bob EXCEPT ![s].stage = "failed"]
                /\ Reply(m, {})
        /\ UNCHANGED <<alice, tumbler, dealing, reachable, nullifiers, escrows, funded, verified>>

\* puzzle_share_done_handler: Bob binds his port and waits for the solution.
BobPuzzleShareDone(s) ==
    LET m == [type |-> "puzzle_share_done", s |-> s]
    IN  /\ m \in net
        /\ bob' = [bob EXCEPT ![s].stage = "waiting"]
        /\ Reply(m, {})
        /\ UNCHANGED <<alice, tumbler, dealing, reachable, nullifiers, escrows, funded, verified>>

\* "Extract the secret alpha": beta was added, and is divided out.
ExtractAlpha(alphaHat, beta) == (alphaHat * InverseModQ(beta)) % Q

\* puzzle_solution_share_handler.  Whatever becomes of the confirm command
\* (it is piped into cat), a hash is recorded and the tumbler is told.
BobSolution(s) ==
    \E m \in net :
        /\ m.type = "puzzle_solution_share" /\ m.s = s
        /\ bob[s].stage = "waiting"
        /\ LET alpha == ExtractAlpha(m.alphaHat, bob[s].beta)
           IN  bob' = [bob EXCEPT ![s].stage = "done", ![s].alpha = alpha,
                                  ![s].sig = Complete(bob[s].presig, alpha)]
        /\ Reply(m, {[type |-> "bob_confirm_done", s |-> s]})
        /\ UNCHANGED <<alice, tumbler, dealing, reachable, nullifiers, escrows, funded, verified>>

BobNext(s) ==
    \/ BobPromiseInit(s)
    \/ BobPuzzleShare(s)
    \/ BobPuzzleShareDone(s)
    \/ BobSolution(s)

-----------------------------------------------------------------------------
(* The tumbler.                                                            *)

\* registration_handler: the one session is overwritten, and the next Bob is
\* given a new escrow id.
TumblerRegistration ==
    \E m \in net :
        /\ m.type = "registration"
        /\ tumbler' = [tumbler EXCEPT !.aliceId = m.id, !.aliceHash = m.hash,
                                      !.bobId = @ + 1]
        /\ Reply(m, {[type |-> "registration_done", s |-> m.s]})
        /\ UNCHANGED <<alice, bob, dealing, nullifiers, escrows, funded, verified>>

\* The pool label of the first Bob stays; a nullifier is spent once.
MayPromise(m) == tumbler.pool \in {NoSession, m.pool} /\ m.s \notin nullifiers

\* Mutant of Aborted: the error is logged and the loop goes on.
GoesOn == tumbler

\* An error in a handler ends the main loop, with no answer sent.
Aborted == [tumbler EXCEPT !.up = FALSE]

\* promise_init_handler.  Any error leaves the main loop: the process ends
\* without an answer.  The escrow is opened by a command that names no
\* commitment, its result is ignored, and the promise is signed; if it is not to
\* be opened the hash is "0x0" and signed as well.
TumblerPromise ==
    \E m \in net, proof \in ProofOutcomes, opens \in ChainOutcomes :
        /\ m.type = "promise_init"
        /\ IF MayPromise(m) /\ proof
           THEN \E alpha \in 1 .. Q - 1, presig \in Presignatures :
                  /\ tumbler' = [tumbler EXCEPT !.pool = m.pool]
                  /\ nullifiers' = nullifiers \cup {m.s}
                  /\ funded' = IF /\ ~tumbler.skip
                                  /\ OpensEscrow(opens, NoSession, tumbler.bobId \notin funded)
                               THEN funded \cup {tumbler.bobId}
                               ELSE funded
                  /\ Reply(m, {[type |-> "promise_done", s |-> m.s, id |-> tumbler.bobId,
                                hashed |-> ~tumbler.skip,
                                puzzle |-> [g |-> alpha, ctx |-> alpha],
                                presig |-> presig]})
           ELSE /\ tumbler' = Aborted
                /\ Reply(m, {})
                /\ UNCHANGED <<nullifiers, funded>>
        /\ UNCHANGED <<alice, bob, dealing, escrows, verified>>

\* Mutant of Decrypt: the secret is read off the first puzzle.
DecryptOriginal(m) == m.original.ctx

\* cl_dec of the randomised ciphertext of the message.
Decrypt(m) == m.puzzle.ctx

\* Alice's presignature, completed with the decrypted secret.
PaymentSignature(m) == Complete(m.presig, Decrypt(m))

\* The last part of a handler that deals: payment_done is sent, or the flag to
\* leave the loop is set (without shares the handler of bob_confirm_done sets no
\* flag and sends no answer, and the next receive fails: the loop ends as well).
Finish(m) ==
    IF m.type = "payment_init"
    THEN /\ Reply(m, {[type |-> "payment_done", s |-> m.s, sig |-> PaymentSignature(m)]})
         /\ UNCHANGED tumbler
    ELSE /\ Reply(m, {})
         /\ tumbler' = [tumbler EXCEPT !.up = FALSE]

\* The shares are made and the tumbler begins to send them, or they are not made
\* and the handler goes on without.
Deal(m) ==
    \/ dealing' = {m} /\ UNCHANGED <<net, tumbler>>
    \/ UNCHANGED dealing /\ Finish(m)

\* payment_init_handler.  The verdict on the signature is printed; only the
\* relation proof can stop the payment.  A failed release is logged, and the
\* completed signature goes back to Alice all the same, after the shares.
TumblerPayment ==
    \E m \in net, confirms \in ChainOutcomes :
        /\ m.type = "payment_init"
        /\ IF Related(m.original, m.puzzle)
           THEN LET sig == PaymentSignature(m)
                    e == <<tumbler.pool, tumbler.aliceId>>
                    signed == <<alice[m.s].id, alice[m.s].hash>>
                IN  /\ verified' = [verified EXCEPT ![m.s] =
                          IF /\ signed = <<tumbler.aliceId, tumbler.aliceHash>>
                             /\ IsSignature(sig, m.presig, m.puzzle.g)
                          THEN "accepted" ELSE "rejected"]
                    /\ escrows' = IF /\ confirms
                                     /\ Confirms(e, tumbler.aliceHash, m.s, sig,
                                                 m.presig, m.puzzle.g)
                                  THEN [escrows EXCEPT ![e].released = TRUE]
                                  ELSE escrows
                    /\ Deal(m)
           ELSE /\ tumbler' = Aborted
                /\ Reply(m, {})
                /\ UNCHANGED <<dealing, escrows, verified>>
        /\ UNCHANGED <<alice, bob, nullifiers, funded>>

\* bob_confirm_done_handler: the tumbler sends its shares and leaves the loop.
TumblerExit ==
    \E m \in net :
        /\ m.type = "bob_confirm_done"
        /\ Deal(m)
        /\ UNCHANGED <<alice, bob, nullifiers, escrows, funded, verified>>

\* One message at a time.
TumblerNext ==
    /\ tumbler.up /\ dealing = {}
    /\ \/ TumblerRegistration
       \/ TumblerPromise
       \/ TumblerPayment
       \/ TumblerExit
    /\ UNCHANGED reachable

\* Mutant of TumblerDealt: the answer is forgotten.
TumblerDealtOnly ==
    \E m \in dealing :
        /\ reachable
        /\ dealing' = {}
        /\ net' = net \ {m}
        /\ UNCHANGED <<alice, bob, tumbler, reachable, nullifiers, escrows, funded, verified>>

\* send_shares_to_receivers returns.  Its zmq_ctx_destroy waits without limit
\* until the shares have left, which takes receivers that run.
TumblerDealt ==
    \E m \in dealing :
        /\ reachable
        /\ dealing' = {}
        /\ Finish(m)
        /\ UNCHANGED <<alice, bob, reachable, nullifiers, escrows, funded, verified>>

\* The receivers are processes of their own, and stop and start at any time;
\* it matters to a deal only.
ReceiversChange ==
    /\ dealing # {}
    /\ reachable' = ~reachable
    /\ UNCHANGED <<alice, bob, tumbler, net, dealing, nullifiers, escrows, funded, verified>>

-----------------------------------------------------------------------------

PaymentNext ==
    \/ \E s \in Session : AliceNext(s) \/ BobNext(s)
    \/ TumblerNext \/ TumblerDealt
    \/ ReceiversChange

\* Alice and Bob poll their sockets and the tumbler blocks on its own: a
\* message that has arrived is handled.  A deal ends unless a receiver stays
\* down (DealsEnd of ShareAudit).
PaymentSpec ==
    /\ PaymentInit
    /\ [][PaymentNext]_vars
    /\ \A s \in Session : WF_vars(AliceNext(s)) /\ WF_vars(BobNext(s))
    /\ WF_vars(TumblerNext) /\ SF_vars(TumblerDealt)

-----------------------------------------------------------------------------
(* Properties.                                                             *)

Puzzle == [g : Zq, ctx : Zq]

\* Alice's, Bob's and the tumbler's variables keep the form of their structs.
PaymentTypeOK ==
    /\ alice \in [Session ->
         [stage : {"start", "registering", "token_shared", "paying", "done", "failed"},
          id : Session, pool : Pools, hash : Session \cup {NoSession},
          tau : Zq, puzzle : Puzzle, presig : Zq, gamma : Zq]]
    /\ bob \in [Session ->
         [stage : {"start", "promising", "puzzle_shared", "waiting", "done", "failed"},
          id : Nat, puzzle : Puzzle, presig : Zq, beta : Zq, alpha : Zq, sig : Zq]]
    /\ tumbler \in [up : BOOLEAN, skip : BOOLEAN, aliceId : Session \cup {NoSession},
                    aliceHash : Session \cup {NoSession}, bobId : Nat,
                    pool : Pools \cup {NoSession}]
    /\ reachable \in BOOLEAN
    /\ nullifiers \subseteq Session
    /\ escrows \in [Pools \X Session -> [opener : Session \cup {NoSession},
                                         dataHash : Session \cup {NoSession},
                                         released : BOOLEAN]]
    /\ funded \subseteq Nat
    /\ verified \in [Session -> {"unpaid", "accepted", "rejected"}]

\* What Alice extracts from the tumbler's answer is the exponent of her own
\* puzzle: the alpha promised to her Bob, plus beta, plus tau, although the
\* tumbler's global state has meanwhile served other sessions (the check of
\* payment_done_handler that is "skipped due to upstream stubs").
AliceExtractsGamma ==
    \A s \in Session :
        alice[s].stage = "done" =>
            alice[s].gamma = (bob[s].puzzle.g + bob[s].beta + alice[s].tau) % Q

\* The tumbler is paid out of an escrow only with the signature of the Alice
\* who opened it, made for her own payment: a session overwritten by another
\* registration never releases the other Alice's deposit
\* (release_escrow_for_alice with the stored id).
ReleasedByItsOwner ==
    \A pool \in Pools, id \in Session :
        LET e == escrows[<<pool, id>>]
        IN  e.released =>
                /\ e.opener # NoSession
                /\ verified[e.opener] = "accepted"
                /\ alice[e.opener].id = id /\ alice[e.opener].pool = pool

\* cp_ecdsa_ver of payment_init_handler refuses a payment only after another
\* Alice has registered: a session left alone is paid for.
RejectedOnlyWhenDisturbed ==
    \A s \in Session :
        verified[s] = "rejected" =>
            \E t \in Session \ {s} : alice[t].stage # "start"

\* While the tumbler runs nobody waits for it in vain: a client blocked on its
\* REQ socket has its request under way, the tumbler still deals for it, or the
\* answer is under way.  Clients have no timeout, so the handlers' errors must
\* end the process.
NobodyWaitsInVain ==
    tumbler.up =>
        \A s \in Session :
            LET UnderWay(types) == \E m \in net : m.s = s /\ m.type \in types
            IN  /\ alice[s].stage = "registering" =>
                      UnderWay({"registration", "registration_done"})
                /\ alice[s].stage = "paying" => UnderWay({"payment_init", "payment_done"})
                /\ bob[s].stage = "promising" => UnderWay({"promise_init", "promise_done"})

\* The three parties' states are sound: typed, no client blocked on a running
\* tumbler, and no payment refused to a session that was left alone.
PaymentInv == PaymentTypeOK /\ NobodyWaitsInVain /\ RejectedOnlyWhenDisturbed

\* As long as no receiver of the shares stays down for ever, a payment comes to
\* an end once Alice's deposit is on the chain, whether or not the later truffle
\* commands succeed and whoever else pays: Bob finishes and the tumbler leaves
\* its loop, or one of the three has reported an error.  (The first Bob to finish
\* ends the tumbler for all sessions.)
PaymentFinishes ==
    []<>reachable =>
        \A s \in Session :
            alice[s].hash # NoSession ~>
                ~tumbler.up \/ "failed" \in {alice[s].stage, bob[s].stage}

\* "Extract the secret alpha.": Bob ends with the alpha of the tumbler's promise
\* (puzzle_solution_share_handler).
BobExtractsAlpha ==
    \A s \in Session : bob[s].stage = "done" => bob[s].alpha = bob[s].puzzle.g
=============================================================================
