----------------------------- MODULE ShareAudit -----------------------------
(***************************************************************************)
(* The audit trail of a payment.  The tumbler cuts a secret into blocks,   *)
(* shares every block among SECRET_SHARES receivers, stores a commitment   *)
(* to the polynomials and sends each receiver its shares (secret_share.c). *)
(* A receiver appends one line per block to its file                       *)
(* (secret_share_receiver.c).  The auditor later asks the receivers for    *)
(* the shares of a message id and puts the secret together again           *)
(* (auditor.c, fetch_shares_by_msgid).                                     *)
(*                                                                         *)
(* A polynomial is named by the deal and the block it belongs to: shares   *)
(* of one polynomial at different points give the block, anything else     *)
(* gives Garbage, and a commitment fits the shares of its own deal.        *)
(***************************************************************************)
EXTENDS Integers, FiniteSets, Sequences, Functions, FiniteSetsExt

CONSTANTS
    SECRET_SHARES,           \* receivers, 3 in the code
    THRESHOLD,               \* shares needed for a block, 2 in the code
    NumBlocks,               \* blocks of a secret
    MaxShares,               \* shares a receiver gives out, 1000 in the code
    MsgId,                   \* message ids
    Judged,                  \* those that are asked for with tag 0
    MsgOfs,                  \* the ways in which deals get their message ids
    NoDeal, Garbage,
    MaxFaults                \* crashes, lost lines, failed saves and slow receivers
                             \* together, by the number of deals

ASSUME ShareAuditAssumption ==
    /\ SECRET_SHARES \in Nat /\ THRESHOLD \in 2 .. SECRET_SHARES
    /\ NumBlocks \in Nat \ {0}
    /\ MaxShares \in Nat /\ NumBlocks <= MaxShares
    /\ Judged \subseteq MsgId
    /\ \A m \in MsgOfs : m \in Seq(MsgId) /\ m # <<>>
    /\ NoDeal \notin Nat \ {0}
    /\ \A m \in MsgOfs : Len(m) \in DOMAIN MaxFaults /\ MaxFaults[Len(m)] \in Nat

Receiver == 1 .. SECRET_SHARES
Block == 1 .. NumBlocks

VARIABLES
    msgOf,                   \* the message id of each deal, in dealing order
    commitments,             \* vss_commitments/: the deal committed to, per id
    files,                   \* receiver_N.json: <<>> or lines; NoFile if missing
    up,                      \* the receivers that run
    inbox,                   \* requests under way to a receiver
    tumbler,
    auditor,
    faults

vars == <<msgOf, commitments, files, up, inbox, tumbler, auditor, faults>>

NoFile == <<[x |-> 0, deal |-> NoDeal, block |-> 0]>>
Zeros == [deal |-> 0, block |-> 0]
Idle == [pc |-> "idle", deal |-> 0, to |-> 1]

NewAudit(m, ready) ==
    [pc |-> "ask", msgid |-> m, from |-> 1, shares |-> <<>>, null |-> FALSE, next |-> 1,
     replies |-> [r \in Receiver |-> "none"], ready |-> ready,
     verdict |-> "pending", secret |-> <<>>]

\* What the audit collected is dropped; it leaves nothing behind that another
\* audit could see, so the model lets one audit run, at any time.
Ends(a, verdict) ==
    [NewAudit(a.msgid, a.ready) EXCEPT !.pc = "done", !.verdict = verdict, !.replies = a.replies]

ShareInit ==
    /\ msgOf \in MsgOfs
    /\ commitments = [m \in MsgId |-> NoDeal]
    /\ \E f \in {NoFile, <<>>} : files = [r \in Receiver |-> f]
    /\ up = Receiver
    /\ inbox = {}
    /\ tumbler = Idle
    /\ auditor = [NewAudit(msgOf[1], {}) EXCEPT !.pc = "idle"]
    /\ faults = 0

Fault(n) == faults + n <= MaxFaults[Len(msgOf)] /\ faults' = faults + n

-----------------------------------------------------------------------------
(* The tumbler.                                                            *)

\* save_vss_commitment_to_file truncates the file of the message id before it
\* writes; if it cannot open it the failure is logged and the shares are sent.
OpenCommitment ==
    /\ tumbler.pc = "idle" /\ tumbler.deal < Len(msgOf)
    /\ \/ /\ commitments' = [commitments EXCEPT ![msgOf[tumbler.deal + 1]] = NoDeal]
          /\ tumbler' = [pc |-> "write", deal |-> tumbler.deal + 1, to |-> 1]
          /\ UNCHANGED faults
       \/ /\ Fault(1)
          /\ tumbler' = [pc |-> "send", deal |-> tumbler.deal + 1, to |-> 1]
          /\ UNCHANGED commitments
    /\ UNCHANGED <<msgOf, files, up, inbox, auditor>>

\* What is lost when the buffer is flushed goes unnoticed.
WriteCommitment ==
    /\ tumbler.pc = "write"
    /\ \/ /\ commitments' = [commitments EXCEPT ![msgOf[tumbler.deal]] = tumbler.deal]
          /\ UNCHANGED faults
       \/ Fault(1) /\ UNCHANGED commitments
    /\ tumbler' = [tumbler EXCEPT !.pc = "send"]
    /\ UNCHANGED <<msgOf, files, up, inbox, auditor>>

\* All the blocks of one receiver in one message.
SendShares ==
    /\ tumbler.pc = "send"
    /\ inbox' = inbox \cup {[to |-> tumbler.to, deal |-> tumbler.deal]}
    /\ tumbler' = [tumbler EXCEPT !.pc = "wait"]
    /\ UNCHANGED <<msgOf, commitments, files, up, auditor, faults>>

\* ACK, SAVE_ERROR and no answer at all have the same effect: the next receiver.
NextReceiver ==
    IF tumbler.to < SECRET_SHARES
    THEN [tumbler EXCEPT !.pc = "send", !.to = @ + 1]
    ELSE [tumbler EXCEPT !.pc = "linger"]

\* Mutant of GiveUp: the socket has no receive timeout.
GiveUpNever == FALSE /\ UNCHANGED vars

\* ZMQ_RCVTIMEO, 30 seconds: the receiver is down, has lost the message or is
\* merely slow, and the message stays under way.
GiveUp ==
    /\ tumbler.pc = "wait"
    /\ IF tumbler.to \in up /\ [to |-> tumbler.to, deal |-> tumbler.deal] \in inbox
       THEN Fault(1) ELSE UNCHANGED faults
    /\ tumbler' = NextReceiver
    /\ UNCHANGED <<msgOf, commitments, files, up, inbox, auditor>>

\* zmq_ctx_destroy waits, without limit, until every message has left for its
\* receiver, which takes a receiver that runs.
DestroyContext ==
    /\ tumbler.pc = "linger"
    /\ \A q \in inbox : q.to \in up
    /\ tumbler' = [tumbler EXCEPT !.pc = "idle"]
    /\ UNCHANGED <<msgOf, commitments, files, up, inbox, auditor, faults>>

\* The process ends in the middle of a deal; what has not left is lost.
TumblerDies ==
    /\ tumbler.pc # "idle"
    /\ Fault(1)
    /\ inbox' = {q \in inbox : q.to \in up}
    /\ tumbler' = [tumbler EXCEPT !.pc = "idle"]
    /\ UNCHANGED <<msgOf, commitments, files, up, auditor>>

TumblerNext ==
    OpenCommitment \/ WriteCommitment \/ SendShares \/ GiveUp \/ DestroyContext

-----------------------------------------------------------------------------
(* The receivers, each a single thread on a REP socket.                    *)

\* The elements of s that are in S, in the order of s.
Keep(s, S) ==
    LET kept[n \in 0 .. Len(s)] ==
            IF n = 0 THEN <<>>
            ELSE IF s[n] \in S THEN Append(kept[n - 1], s[n]) ELSE kept[n - 1]
    IN  kept[Len(s)]

Line(r, d, b) == [x |-> r, deal |-> d, block |-> b]

Lines(r, d, blocks) ==
    Keep([b \in Block |-> Line(r, d, b)], {Line(r, d, b) : b \in blocks})

\* receiver_thread appends a line per block.  A line that fopen, fprintf or the
\* unchecked fflush loses does not stop the others.
StoreShares(r) ==
    \E q \in inbox, saved \in SUBSET Block :
        /\ r \in up
        /\ q.to = r
        /\ Fault(NumBlocks - Cardinality(saved))
        /\ files' = [files EXCEPT ![r] =
                IF saved = {} THEN @
                ELSE (IF @ = NoFile THEN <<>> ELSE @) \o Lines(r, q.deal, saved)]
        /\ inbox' = inbox \ {q}
        /\ tumbler' = IF tumbler.pc = "wait" /\ tumbler.to = r /\ tumbler.deal = q.deal
                      THEN NextReceiver ELSE tumbler
        /\ UNCHANGED <<msgOf, commitments, up, auditor>>

\* Requests that had reached the process are lost with it; an auditor whose
\* request is lost waits for ever, since its socket has no receive timeout.
ReceiverCrashes(r) ==
    /\ r \in up
    /\ Fault(1)
    /\ up' = up \ {r}
    /\ \E lost \in SUBSET {q \in inbox : q.to = r} : inbox' = inbox \ lost
    /\ \/ UNCHANGED auditor
       \/ /\ auditor.pc = "ask" /\ auditor.from = r
          /\ auditor' = Ends(auditor, "waits")
    /\ UNCHANGED <<msgOf, commitments, files, tumbler>>

ReceiverRestarts(r) ==
    /\ r \notin up
    /\ up' = up \cup {r}
    /\ UNCHANGED <<msgOf, commitments, files, inbox, tumbler, auditor, faults>>

-----------------------------------------------------------------------------
(* The auditor.                                                            *)

\* The lines of a message id, in the order of the file.
Matching(r, m) == Keep(files[r], {l \in Range(files[r]) : msgOf[l.deal] = m})

\* Mutant of Found: only the first line that matches, as load_share_from_json does.
FoundFirst(r, m) == SubSeq(Matching(r, m), 1, IF Matching(r, m) = <<>> THEN 0 ELSE 1)

\* load_all_shares_from_json stops at max_shares.
Found(r, m) ==
    IF Len(Matching(r, m)) <= MaxShares THEN Matching(r, m)
    ELSE SubSeq(Matching(r, m), 1, MaxShares)

\* Receivers that hold every block of the last deal made under m.
Ready(m) ==
    {r \in Receiver :
        /\ files[r] # NoFile
        /\ \E d \in DOMAIN msgOf :
            /\ commitments[m] = d
            /\ \A b \in Block : Line(r, d, b) \in Range(files[r])}

BeginAudit(m) ==
    /\ auditor.pc = "idle"
    /\ auditor' = NewAudit(m, Ready(m))
    /\ UNCHANGED <<msgOf, commitments, files, up, inbox, tumbler, faults>>

\* handle_audit_request: the judge is asked first (tag 0 only) and may fail.
Reply(r, m, innocent) ==
    IF innocent THEN "innocent"
    ELSE IF files[r] = NoFile THEN "no_file"
    ELSE IF Found(r, m) = <<>> THEN "not_found" ELSE "shares"

\* After the last answer: at least THRESHOLD lines (of any block), none, or few.
Collected(a) ==
    IF a.from < SECRET_SHARES THEN [a EXCEPT !.pc = "ask", !.from = @ + 1]
    ELSE IF Len(a.shares) >= THRESHOLD THEN [a EXCEPT !.pc = "verify"]
    ELSE Ends(a, IF a.shares = <<>> THEN "legitimate" ELSE "failed")

\* "FILE_NOT_FOUND" is not among the answers the auditor knows: its bytes are
\* taken for a number of blocks, the array cannot grow to it and is NULL from
\* then on, while count and capacity say that there is room.  The next shares
\* are written through NULL.
Collect(reply, found) ==
    LET a == [auditor EXCEPT !.replies[auditor.from] = reply]
    IN  CASE reply = "no_file" -> Collected([a EXCEPT !.null = TRUE])
          [] reply = "shares" /\ a.null -> Ends(a, "crashed")
          [] reply = "shares" /\ ~a.null -> Collected([a EXCEPT !.shares = @ \o found])
          [] OTHER -> Collected(a)

\* One round of the auditor's loop: request and answer.
AnswerAudit(r) ==
    \E innocent \in BOOLEAN :
        /\ auditor.pc = "ask" /\ auditor.from = r
        /\ r \in up
        /\ innocent => auditor.msgid \in Judged
        /\ LET reply == Reply(r, auditor.msgid, innocent)
           IN  auditor' = Collect(reply, IF reply = "shares" THEN Found(r, auditor.msgid) ELSE <<>>)
        /\ UNCHANGED <<msgOf, commitments, files, up, inbox, tumbler, faults>>

\* Mutant of Verified: no share is checked.
VerifiedUnseen(share, committed) == TRUE

\* verify_share_with_commitment, the Feldman check.
Verified(share, committed) == share.deal = committed

\* Lagrange interpolation at 0; coefficients leave out points that are equal.
Interpolate(points) ==
    IF /\ \A i, j \in DOMAIN points : i # j => points[i].x # points[j].x
       /\ \A i \in DOMAIN points : points[i].deal = points[1].deal
    THEN [deal |-> points[1].deal, block |-> points[1].block]
    ELSE Garbage

OfBlock(shares, b) == Keep(shares, {s \in Range(shares) : s.block = b})

\* The result is as long as the whole secret.  The last block that arrived
\* takes up the rest of it, cleared first, and is written at the far end.
Buffer(blocks) ==
    LET last == Len(blocks)
    IN  [p \in Block |-> IF p < last THEN blocks[p]
                         ELSE IF p = NumBlocks THEN blocks[last] ELSE Zeros]

\* reconstruct_secret_from_shares: as many blocks as the largest index that
\* arrived, each from the first THRESHOLD shares of it.
Reconstruct(a) ==
    LET blocks == 1 .. Max({s.block : s \in Range(a.shares)})
    IN  IF \E b \in blocks : Len(OfBlock(a.shares, b)) < THRESHOLD
        THEN Ends(a, "failed")
        ELSE [Ends(a, "secret") EXCEPT !.secret =
                Buffer([b \in blocks |->
                            Interpolate(SubSeq(OfBlock(a.shares, b), 1, THRESHOLD))])]

\* verify_share_with_stored_commitment loads the commitment for every share.
VerifyShare ==
    LET committed == commitments[auditor.msgid]
    IN  /\ auditor.pc = "verify"
        /\ auditor' =
            CASE committed = NoDeal -> Ends(auditor, "failed")
              [] committed # NoDeal /\ auditor.null -> Ends(auditor, "crashed")
              [] OTHER ->
                   IF ~Verified(auditor.shares[auditor.next], committed)
                   THEN Ends(auditor, "failed")
                   ELSE IF auditor.next < Len(auditor.shares)
                   THEN [auditor EXCEPT !.next = @ + 1]
                   ELSE Reconstruct(auditor)
        /\ UNCHANGED <<msgOf, commitments, files, up, inbox, tumbler, faults>>

-----------------------------------------------------------------------------

ShareNext ==
    \/ TumblerNext \/ TumblerDies
    \/ \E r \in Receiver :
        StoreShares(r) \/ AnswerAudit(r) \/ ReceiverCrashes(r) \/ ReceiverRestarts(r)
    \/ \E m \in MsgId : BeginAudit(m)
    \/ VerifyShare

\* The tumbler's thread runs and its timer expires, and a receiver that stays up
\* gets to its requests; nothing restarts a receiver.
ShareSpec ==
    /\ ShareInit /\ [][ShareNext]_vars
    /\ WF_vars(TumblerNext)
    /\ \A r \in Receiver : WF_vars(StoreShares(r))

-----------------------------------------------------------------------------
(* Properties.                                                             *)

BlockOf(d, b) == [deal |-> d, block |-> b]
Whole(d) == [b \in Block |-> BlockOf(d, b)]

\* The auditor never puts together what the tumbler did not deal: whatever was
\* lost, stored late or dealt again under the same message id meanwhile, all that
\* it reconstructs is of one deal of that id (fetch_shares_by_msgid verifies
\* shares one by one against a file that may change in between).  Every block is
\* in its place but the last that arrived: it stands at the end of the secret,
\* behind zeros for the blocks that nobody sent, so that a secret without such
\* a gap is the one that was dealt.
ReconstructionIsADeal ==
    auditor.verdict = "secret" =>
        \E d \in DOMAIN msgOf, last \in Block :
            /\ msgOf[d] = auditor.msgid
            /\ DOMAIN auditor.secret = Block
            /\ auditor.secret[NumBlocks] = BlockOf(d, last)
            /\ \A b \in 1 .. last - 1 : auditor.secret[b] = BlockOf(d, b)
            /\ \A b \in last .. NumBlocks - 1 : auditor.secret[b] = Zeros

\* THRESHOLD receivers are enough: when so many held all shares of the only
\* deal of the id before the audit began and gave them out, and every receiver
\* has its file and answers, the audit ends with the whole secret, whatever the others
\* have lost or are storing.
AuditSucceedsWhenItCan ==
    LET m == auditor.msgid
        willing == {r \in auditor.ready : auditor.replies[r] = "shares"}
        started == {d \in 1 .. tumbler.deal : msgOf[d] = m}
    IN  /\ auditor.pc = "done" /\ auditor.verdict # "waits"
        /\ Cardinality(willing) >= THRESHOLD
        /\ \A r \in Receiver : auditor.replies[r] # "no_file"
        /\ Cardinality(started) = 1
        => auditor.verdict = "secret" /\ auditor.secret \in {Whole(d) : d \in started}

\* As long as no receiver stays down for ever the tumbler gets through every
\* deal, although receivers crash with its requests, and answer audits first:
\* the payment that waits for the deal goes on.
DealsEnd ==
    (\A r \in Receiver : []<>(r \in up)) => (tumbler.pc # "idle" ~> tumbler.pc = "idle")
=============================================================================
