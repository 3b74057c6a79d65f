------------------------- MODULE ShareAudit_proofs -------------------------
(***************************************************************************)
(* Proofs about ShareAudit, for every number of receivers, threshold,      *)
(* number of blocks, and every sequence of deals and their message ids:    *)
(* what the auditor reconstructs was dealt, and an audit succeeds whenever *)
(* enough receivers hold and give out the only deal of the id.             *)
(*                                                                         *)
(* The invariant follows a message from the tumbler to a file (it is       *)
(* stored at most once, so a file has no line twice), a line from a file   *)
(* into the auditor's array (nothing in the array was not stored), and the *)
(* commitment during the verification (a file that is rewritten commits to *)
(* a deal of which nothing has been collected).                            *)
(***************************************************************************)
EXTENDS ShareAudit, DataInduction, SequenceTheorems

-----------------------------------------------------------------------------
(* The inductive invariant.                                                *)

Share == [x : Receiver, deal : Nat \ {0}, block : Block]

Answer == {"none", "innocent", "no_file", "not_found", "shares"}
Verdict == {"pending", "legitimate", "failed", "crashed", "waits", "secret"}

AuditRecord ==
    [pc : {"idle", "ask", "verify", "done"}, msgid : MsgId, from : Receiver,
     shares : Seq(Share), null : BOOLEAN, next : Nat \ {0},
     replies : [Receiver -> Answer], ready : SUBSET Receiver,
     verdict : Verdict, secret : Seq([deal : Nat, block : Nat])]

TumblerRecord ==
    [pc : {"idle", "write", "send", "wait", "linger"}, deal : Nat, to : Receiver]

\* The lines receiver r has.
Stored(r) == IF files[r] = NoFile THEN {} ELSE Range(files[r])

\* The message of deal d for r has yet to be sent.
Unsent(r, d) ==
    \/ d > tumbler.deal
    \/ /\ d = tumbler.deal
       /\ \/ tumbler.pc = "write"
          \/ tumbler.pc = "send" /\ r >= tumbler.to
          \/ tumbler.pc = "wait" /\ r > tumbler.to

ShareTypeOK ==
    /\ msgOf \in MsgOfs
    /\ tumbler \in TumblerRecord
    /\ tumbler.deal <= Len(msgOf)
    /\ tumbler.pc # "idle" => tumbler.deal # 0
    /\ up \in SUBSET Receiver
    /\ inbox \in SUBSET [to : Receiver, deal : Nat \ {0}]
    /\ files \in [Receiver -> Seq(Share) \cup {NoFile}]
    /\ auditor \in AuditRecord

\* A commitment is to a deal of its id that was begun.
CommitmentsFit ==
    /\ commitments \in [MsgId -> Nat \cup {NoDeal}]
    /\ \A m \in MsgId : commitments[m] # NoDeal =>
        /\ commitments[m] \in Nat \ {0}
        /\ commitments[m] <= tumbler.deal
        /\ msgOf[commitments[m]] = m

\* A file has its receiver's lines, each once, and the lines of a deal only
\* after the message that brought them.
FilesFit ==
    /\ \A r \in Receiver : files[r] # NoFile => IsInjective(files[r])
    /\ \A r \in Receiver : \A l \in Stored(r) : l.x = r /\ l.deal <= tumbler.deal
    /\ \A q \in inbox : q.deal <= tumbler.deal /\ ~Unsent(q.to, q.deal)
    /\ \A q \in inbox : \A l \in Stored(q.to) : l.deal # q.deal
    /\ \A r \in Receiver : \A l \in Stored(r) : ~Unsent(r, l.deal)

\* What the auditor has collected was stored under the id, once, and by the
\* receivers it has asked so far.
SharesFit ==
    /\ IsInjective(auditor.shares)
    /\ \A l \in Range(auditor.shares) :
        /\ l \in Stored(l.x)
        /\ msgOf[l.deal] = auditor.msgid
        /\ auditor.pc = "verify" \/ l.x < auditor.from

\* The verified shares are of one deal, and the commitment, if it has changed
\* since, is to a deal of which the auditor has nothing.
VerificationFits ==
    /\ auditor.pc = "ask" => auditor.next = 1
    /\ auditor.pc = "verify" =>
        /\ auditor.next <= Len(auditor.shares)
        /\ \A i \in 1 .. (auditor.next - 1) : auditor.shares[i].deal = auditor.shares[1].deal
        /\ auditor.next > 1 =>
            \A i \in DOMAIN auditor.shares :
                auditor.shares[i].deal = commitments[auditor.msgid] =>
                    auditor.shares[1].deal = commitments[auditor.msgid]

\* The array is NULL only after an answer that the auditor does not know.
NullFits ==
    auditor.null =>
        \E r \in Receiver :
            /\ auditor.replies[r] = "no_file"
            /\ auditor.pc = "ask" => r < auditor.from

Started(m) == {d \in 1 .. tumbler.deal : msgOf[d] = m}

\* The deal that was complete at some receivers when the audit began, and what
\* it comes to while the audit is under way.
ReadyFits ==
    auditor.ready # {} =>
        \E d \in Started(auditor.msgid) :
            /\ \A r \in auditor.ready : \A b \in Block : Line(r, d, b) \in Stored(r)
            /\ auditor.pc \in {"ask", "verify"} =>
                /\ Started(auditor.msgid) = {d} => commitments[auditor.msgid] = d
                /\ ~auditor.null /\ Started(auditor.msgid) = {d} =>
                    \A r \in auditor.ready : auditor.replies[r] = "shares" =>
                        \A b \in Block : Line(r, d, b) \in Range(auditor.shares)

SecretFits ==
    /\ auditor.verdict = "secret" => auditor.pc = "done"
    /\ ReconstructionIsADeal

ShareIInv ==
    /\ ShareTypeOK
    /\ CommitmentsFit
    /\ FilesFit
    /\ SharesFit
    /\ VerificationFits
    /\ NullFits
    /\ ReadyFits
    /\ SecretFits
    /\ AuditSucceedsWhenItCan
-----------------------------------------------------------------------------
(* Keep: what a filtered sequence contains.                                *)

KeepStep(s, S, g, n) ==
    IF n = 0 THEN <<>>
    ELSE IF s[n] \in S THEN Append(g[n - 1], s[n]) ELSE g[n - 1]

\* The recursion of Keep has a solution on any initial segment.
LEMMA KeepSolution ==
    ASSUME NEW s, NEW S, NEW m \in Nat
    PROVE  \E g : g = [n \in 0 .. m |-> KeepStep(s, S, g, n)]
<1> DEFINE D == {k \in Nat : \E g : g = [n \in 0 .. k |-> KeepStep(s, S, g, n)]}
<1>1. 0 \in D
  <2> DEFINE g == [n \in 0 .. 0 |-> <<>>]
  <2>1. g = [n \in 0 .. 0 |-> KeepStep(s, S, g, n)]
    BY DEF KeepStep
  <2> HIDE DEF g
  <2> QED
    BY <2>1
<1>2. ASSUME NEW k \in Nat, k \in D PROVE k + 1 \in D
  <2>1. PICK g : g = [n \in 0 .. k |-> KeepStep(s, S, g, n)]
    BY <1>2
  <2> DEFINE h == [n \in 0 .. (k + 1) |-> IF n = k + 1 THEN KeepStep(s, S, g, k + 1) ELSE g[n]]
  <2>2. \A n \in 0 .. k : h[n] = g[n]
    OBVIOUS
  <2>3. ASSUME NEW n \in 0 .. (k + 1) PROVE h[n] = KeepStep(s, S, h, n)
    <3>1. CASE n = 0
      <4>1. h[0] = g[0] /\ g[0] = KeepStep(s, S, g, 0)
        BY <2>1, <2>2
      <4> QED
        BY <4>1, <3>1 DEF KeepStep
    <3>2. CASE n # 0
      <4>1. n - 1 \in 0 .. k
        BY <3>2
      <4>2. h[n - 1] = g[n - 1]
        BY <4>1, <2>2
      <4>3. h[n] = KeepStep(s, S, g, n)
        BY <2>1
      <4> HIDE DEF h
      <4> QED
        BY <4>2, <4>3 DEF KeepStep
    <3> QED
      BY <3>1, <3>2
  <2>4. h = [n \in 0 .. (k + 1) |-> h[n]]
    OBVIOUS
  <2> HIDE DEF h
  <2>5. h = [n \in 0 .. (k + 1) |-> KeepStep(s, S, h, n)]
    BY <2>3, <2>4
  <2> QED
    BY <2>5
<1> HIDE DEF D
<1>3. D = Nat
  <2>1. D \in SUBSET Nat
    BY DEF D
  <2> QED
    BY <1>1, <1>2, <2>1, SetInduction
<1> QED
  BY <1>3 DEF D

\* What has been kept of the first n elements.
KeptOf(k, s, S, A, n) ==
    /\ k \in Seq(A)
    /\ \A i \in 1 .. Len(k) : k[i] \in S /\ \E j \in 1 .. n : k[i] = s[j]
    /\ \A j \in 1 .. n : s[j] \in S => \E i \in 1 .. Len(k) : k[i] = s[j]
    /\ IsInjective(s) => \A i, j \in 1 .. Len(k) : k[i] = k[j] => i = j

\* One more element.
LEMMA KeepOne ==
    ASSUME NEW A, NEW s \in Seq(A), NEW S, NEW k, NEW n \in Nat, n + 1 <= Len(s),
           KeptOf(k, s, S, A, n)
    PROVE  KeptOf(IF s[n + 1] \in S THEN Append(k, s[n + 1]) ELSE k, s, S, A, n + 1)
<1> DEFINE e == s[n + 1]
<1>1. e \in A /\ n + 1 \in DOMAIN s /\ DOMAIN s = 1 .. Len(s) /\ Len(s) \in Nat
  BY ElementOfSeq, LenProperties
<1>2. \A j \in 1 .. (n + 1) : j = n + 1 \/ j \in 1 .. n
  OBVIOUS
<1>3. k \in Seq(A) /\ Len(k) \in Nat
  BY LenProperties DEF KeptOf
<1>4. CASE e \in S
  <2> DEFINE a == Append(k, e)
  <2>1. /\ a \in Seq(A) /\ Len(a) = Len(k) + 1
        /\ \A i \in 1 .. Len(k) : a[i] = k[i]
        /\ a[Len(k) + 1] = e
    BY <1>1, <1>3, AppendProperties
  <2>2. \A i \in 1 .. Len(a) : i = Len(k) + 1 \/ i \in 1 .. Len(k)
    BY <2>1, <1>3
  <2> HIDE DEF a
  <2>3. ASSUME NEW i \in 1 .. Len(a) PROVE a[i] \in S /\ \E j \in 1 .. (n + 1) : a[i] = s[j]
    <3>1. CASE i = Len(k) + 1
      BY <3>1, <2>1, <1>4
    <3>2. CASE i \in 1 .. Len(k)
      BY <3>2, <2>1 DEF KeptOf
    <3> QED
      BY <3>1, <3>2, <2>2
  <2>4. ASSUME NEW j \in 1 .. (n + 1), s[j] \in S PROVE \E i \in 1 .. Len(a) : a[i] = s[j]
    <3>1. CASE j = n + 1
      <4>1. Len(k) + 1 \in 1 .. Len(a)
        BY <2>1, <1>3
      <4> QED
        BY <3>1, <2>1, <4>1
    <3>2. CASE j \in 1 .. n
      <4>1. PICK i \in 1 .. Len(k) : k[i] = s[j]
        BY <3>2, <2>4 DEF KeptOf
      <4>2. i \in 1 .. Len(a)
        BY <2>1, <1>3
      <4> QED
        BY <4>1, <4>2, <2>1
    <3> QED
      BY <3>1, <3>2, <1>2
  <2>5. ASSUME IsInjective(s), NEW i \in 1 .. Len(a), NEW j \in 1 .. Len(a), a[i] = a[j]
        PROVE  i = j
    <3>1. ASSUME NEW p \in 1 .. Len(k) PROVE k[p] # e
      <4>1. PICK q \in 1 .. n : k[p] = s[q]
        BY DEF KeptOf
      <4>2. q \in DOMAIN s /\ q # n + 1
        BY <1>1
      <4> QED
        BY <4>1, <4>2, <1>1, <2>5 DEF IsInjective
    <3>2. CASE i \in 1 .. Len(k) /\ j \in 1 .. Len(k)
      BY <3>2, <2>5, <2>1 DEF KeptOf
    <3>3. CASE i = Len(k) + 1 /\ j \in 1 .. Len(k)
      BY <3>3, <2>5, <2>1, <3>1
    <3>4. CASE j = Len(k) + 1 /\ i \in 1 .. Len(k)
      BY <3>4, <2>5, <2>1, <3>1
    <3> QED
      BY <3>2, <3>3, <3>4, <2>2
  <2>6. KeptOf(a, s, S, A, n + 1)
    BY <2>1, <2>3, <2>4, <2>5 DEF KeptOf
  <2> QED
    BY <2>6, <1>4 DEF a
<1>5. CASE e \notin S
  <2>1. KeptOf(k, s, S, A, n + 1)
    BY <1>5, <1>2 DEF KeptOf
  <2> QED
    BY <2>1, <1>5
<1> QED
  BY <1>4, <1>5

\* Keep(s, S) has the elements of s that are in S, and has none of them twice
\* if s has not.
LEMMA KeepProperties ==
    ASSUME NEW A, NEW s \in Seq(A), NEW S
    PROVE  /\ Keep(s, S) \in Seq(A)
           /\ Range(Keep(s, S)) = Range(s) \cap S
           /\ IsInjective(s) => IsInjective(Keep(s, S))
<1> DEFINE Iter(g) == g = [n \in 0 .. Len(s) |-> KeepStep(s, S, g, n)]
           it == CHOOSE g : Iter(g)
<1>0. Len(s) \in Nat /\ DOMAIN s = 1 .. Len(s)
  BY LenProperties
<1>1. \E g : Iter(g)
  BY <1>0, KeepSolution
<1>2. Iter(it)
  BY <1>1
<1>3. Keep(s, S) = it[Len(s)]
  BY Zenon DEF Keep, KeepStep
<1> HIDE DEF it
<1>4. \A n \in 0 .. Len(s) : it[n] = KeepStep(s, S, it, n)
  BY <1>2
<1> DEFINE D == {n \in Nat : n <= Len(s) => KeptOf(it[n], s, S, A, n)}
<1>5. 0 \in D
  <2>1. it[0] = <<>>
    BY <1>4, <1>0 DEF KeepStep
  <2>2. <<>> \in Seq(A) /\ Len(<<>>) = 0
    BY EmptySeq
  <2>3. 1 .. 0 = {}
    OBVIOUS
  <2>4. KeptOf(it[0], s, S, A, 0)
    BY <2>1, <2>2, <2>3 DEF KeptOf
  <2> QED
    BY <2>4
<1>6. ASSUME NEW n \in Nat, n \in D PROVE n + 1 \in D
  <2> SUFFICES ASSUME n + 1 <= Len(s) PROVE KeptOf(it[n + 1], s, S, A, n + 1)
    OBVIOUS
  <2>1. KeptOf(it[n], s, S, A, n)
    BY <1>6, <1>0
  <2>2. it[n + 1] = KeepStep(s, S, it, n + 1)
    BY <1>4, <1>0
  <2>3. n + 1 # 0 /\ (n + 1) - 1 = n
    OBVIOUS
  <2>4. it[n + 1] = IF s[n + 1] \in S THEN Append(it[n], s[n + 1]) ELSE it[n]
    BY <2>2, <2>3 DEF KeepStep
  <2> QED
    BY <2>1, <2>4, KeepOne
<1>7. D = Nat
  <2>1. D \in SUBSET Nat
    OBVIOUS
  <2> HIDE DEF D
  <2> QED
    BY <1>5, <1>6, <2>1, SetInduction
<1> DEFINE k == Keep(s, S)
<1>8. KeptOf(k, s, S, A, Len(s))
  BY <1>0, <1>3, <1>7
<1> HIDE DEF k, D
<1>9. k \in Seq(A) /\ DOMAIN k = 1 .. Len(k)
  BY <1>8, LenProperties DEF KeptOf
<1>10. Range(k) = Range(s) \cap S
  <2>1. ASSUME NEW e \in Range(k) PROVE e \in Range(s) /\ e \in S
    <3>1. PICK i \in 1 .. Len(k) : e = k[i]
      BY <1>9 DEF Range
    <3> QED
      BY <3>1, <1>8, <1>0 DEF KeptOf, Range
  <2>2. ASSUME NEW e \in Range(s), e \in S PROVE e \in Range(k)
    <3>1. PICK j \in 1 .. Len(s) : e = s[j]
      BY <1>0 DEF Range
    <3>2. PICK i \in 1 .. Len(k) : k[i] = s[j]
      BY <3>1, <2>2, <1>8 DEF KeptOf
    <3> QED
      BY <3>1, <3>2, <1>9 DEF Range
  <2> QED
    BY <2>1, <2>2
<1>11. IsInjective(s) => IsInjective(k)
  BY <1>8, <1>9 DEF KeptOf, IsInjective
<1> QED
  BY <1>9, <1>10, <1>11 DEF k
\* Appending elements that are new keeps a sequence free of repetitions.
LEMMA ConcatInjective ==
    ASSUME NEW A, NEW s \in Seq(A), NEW t \in Seq(A), IsInjective(s), IsInjective(t),
           Range(s) \cap Range(t) = {}
    PROVE  /\ s \o t \in Seq(A)
           /\ Range(s \o t) = Range(s) \cup Range(t)
           /\ IsInjective(s \o t)
<1> DEFINE c == s \o t
<1>1. /\ c \in Seq(A) /\ Len(c) = Len(s) + Len(t) /\ DOMAIN c = 1 .. Len(c)
      /\ DOMAIN s = 1 .. Len(s) /\ DOMAIN t = 1 .. Len(t) /\ Len(s) \in Nat /\ Len(t) \in Nat
  BY ConcatProperties, LenProperties
<1>2. \A i \in 1 .. Len(c) : c[i] = IF i <= Len(s) THEN s[i] ELSE t[i - Len(s)]
  BY ConcatProperties, <1>1
<1>3. \A i \in 1 .. Len(c) : \/ i \in 1 .. Len(s) /\ c[i] = s[i]
                             \/ i - Len(s) \in 1 .. Len(t) /\ c[i] = t[i - Len(s)] /\ i > Len(s)
  BY <1>1, <1>2
<1> HIDE DEF c
<1>4. ASSUME NEW i \in 1 .. Len(c), NEW j \in 1 .. Len(c), c[i] = c[j] PROVE i = j
  <2>1. CASE i \in 1 .. Len(s) /\ j \in 1 .. Len(s)
    <3>1. c[i] = s[i] /\ c[j] = s[j]
      BY <2>1, <1>3
    <3> QED
      BY <3>1, <2>1, <1>4, <1>1 DEF IsInjective
  <2>2. CASE i \notin 1 .. Len(s) /\ j \notin 1 .. Len(s)
    <3>1. /\ i - Len(s) \in 1 .. Len(t) /\ c[i] = t[i - Len(s)]
          /\ j - Len(s) \in 1 .. Len(t) /\ c[j] = t[j - Len(s)]
      BY <2>2, <1>3
    <3>2. i - Len(s) = j - Len(s)
      BY <3>1, <1>4, <1>1 DEF IsInjective
    <3> QED
      BY <3>2, <1>1
  <2>3. ASSUME NEW p \in 1 .. Len(s), NEW q \in 1 .. Len(t) PROVE s[p] # t[q]
    BY <1>1 DEF Range
  <2>4. CASE i \in 1 .. Len(s) /\ j \notin 1 .. Len(s)
    <3>1. c[i] = s[i] /\ j - Len(s) \in 1 .. Len(t) /\ c[j] = t[j - Len(s)]
      BY <2>4, <1>3
    <3> QED
      BY <3>1, <2>3, <2>4, <1>4
  <2>5. CASE i \notin 1 .. Len(s) /\ j \in 1 .. Len(s)
    <3>1. c[j] = s[j] /\ i - Len(s) \in 1 .. Len(t) /\ c[i] = t[i - Len(s)]
      BY <2>5, <1>3
    <3> QED
      BY <3>1, <2>3, <2>5, <1>4
  <2> QED
    BY <2>1, <2>2, <2>4, <2>5
<1>5. Range(c) = Range(s) \cup Range(t)
  BY RangeConcatenation DEF c
<1> QED
  BY <1>1, <1>4, <1>5 DEF c, IsInjective

\* A sequence in which every member of W has an element of its own is at least
\* as long as W is large.
LEMMA OneEach ==
    ASSUME NEW s \in Seq(Share), NEW W \in SUBSET Receiver,
           \A r \in W : \E l \in Range(s) : l.x = r
    PROVE  IsFiniteSet(W) /\ Cardinality(W) <= Len(s)
<1>1. DOMAIN s = 1 .. Len(s) /\ Len(s) \in Nat
  BY LenProperties
<1> DEFINE f == [r \in W |-> CHOOSE i \in 1 .. Len(s) : s[i].x = r]
<1>3. ASSUME NEW r \in W PROVE f[r] \in 1 .. Len(s) /\ s[f[r]].x = r
  <2>1. \E i \in 1 .. Len(s) : s[i].x = r
    BY <1>1 DEF Range
  <2> QED
    BY <2>1
<1> HIDE DEF f
<1>4. f \in Injection(W, 1 .. Len(s))
  <2>1. f \in [W -> 1 .. Len(s)]
    BY <1>3 DEF f
  <2> QED
    BY <2>1, <1>3 DEF Injection, IsInjective
<1>5. IsFiniteSet(1 .. Len(s)) /\ Cardinality(1 .. Len(s)) = Len(s)
  BY FS_Interval, <1>1, SMTT(30)
<1> QED
  BY <1>4, <1>5, FS_Injection
-----------------------------------------------------------------------------
(* The operators of the model.                                             *)

\* What the assumption says of the numbers of shares and blocks.
LEMMA ConstantFacts ==
    /\ SECRET_SHARES \in Nat \ {0} /\ THRESHOLD \in Nat /\ 2 <= THRESHOLD
    /\ NumBlocks \in Nat \ {0} /\ MaxShares \in Nat /\ 1 <= MaxShares /\ NumBlocks <= MaxShares
    /\ 1 \in Receiver /\ SECRET_SHARES \in Receiver /\ Receiver \subseteq Nat \ {0}
    /\ Block \subseteq Nat \ {0} /\ NumBlocks \in Block
BY ShareAuditAssumption DEF Receiver, Block

\* The dummy line of a missing file is no share.
LEMMA NoFileIsNoFile ==
    NoFile \notin Seq(Share)
<1> SUFFICES ASSUME NoFile \in Seq(Share) PROVE FALSE
  OBVIOUS
<1>1. Len(NoFile) = 1 /\ NoFile[1].x = 0
  BY DEF NoFile
<1>2. NoFile[1] \in Share
  <2> HIDE DEF NoFile
  <2>1. 1 \in 1 .. Len(NoFile)
    BY <1>1
  <2> QED
    BY <2>1, ElementOfSeq
<1> QED
  BY <1>1, <1>2, ConstantFacts DEF Share

\* A stored line has the share it was written from.
LEMMA LineFields ==
    ASSUME NEW r \in Receiver, NEW d \in Nat \ {0}, NEW b \in Block
    PROVE  /\ Line(r, d, b) \in Share
           /\ Line(r, d, b).x = r /\ Line(r, d, b).deal = d /\ Line(r, d, b).block = b
BY DEF Line, Share

\* A share is the line of its three fields.
LEMMA ShareIsLine ==
    ASSUME NEW l \in Share
    PROVE  /\ l = Line(l.x, l.deal, l.block)
           /\ l.x \in Receiver /\ l.deal \in Nat \ {0} /\ l.block \in Block
BY DEF Line, Share

\* The lines a receiver stores are those of the blocks, each once.
LEMMA LinesStored ==
    ASSUME NEW r \in Receiver, NEW d \in Nat \ {0}, NEW blocks \in SUBSET Block
    PROVE  /\ Lines(r, d, blocks) \in Seq(Share)
           /\ Range(Lines(r, d, blocks)) = {Line(r, d, b) : b \in blocks}
           /\ IsInjective(Lines(r, d, blocks))
<1> DEFINE all == [b \in Block |-> Line(r, d, b)]
           S == {Line(r, d, b) : b \in blocks}
<1>1. all \in Seq(Share)
  <2>1. \A b \in 1 .. NumBlocks : Line(r, d, b) \in Share
    BY LineFields DEF Block
  <2> QED
    BY <2>1, IsASeq, ConstantFacts DEF Block
<1>2. IsInjective(all)
  <2>1. \A b \in Block : all[b].block = b
    BY LineFields
  <2>2. DOMAIN all = Block
    OBVIOUS
  <2> HIDE DEF all
  <2> QED
    BY <2>1, <2>2 DEF IsInjective
<1>3. Range(all) = {Line(r, d, b) : b \in Block}
  BY DEF Range
<1>4. Range(all) \cap S = S
  BY <1>3
<1> HIDE DEF all, S
<1>5. /\ Keep(all, S) \in Seq(Share)
      /\ Range(Keep(all, S)) = S
      /\ IsInjective(Keep(all, S))
  BY <1>1, <1>2, <1>4, KeepProperties
<1> QED
  BY <1>5 DEF Lines, all, S

\* Verdicts other than a secret.
LEMMA EndsFields ==
    ASSUME NEW a \in AuditRecord, NEW v \in Verdict
    PROVE  /\ Ends(a, v) \in AuditRecord
           /\ Ends(a, v).pc = "done" /\ Ends(a, v).verdict = v
           /\ Ends(a, v).msgid = a.msgid /\ Ends(a, v).ready = a.ready
           /\ Ends(a, v).replies = a.replies /\ Ends(a, v).shares = <<>>
           /\ Ends(a, v).null = FALSE /\ Ends(a, v).secret = <<>> /\ Ends(a, v).from = 1
<1>0. PICK one : one = 1 /\ one \in Receiver /\ one \in Nat \ {0}
  BY ConstantFacts
<1>1. PICK none : none = <<>> /\ none \in Seq(Share) /\ none \in Seq([deal : Nat \ {0}, block : Block])
  BY EmptySeq
<1> DEFINE rep == [r \in Receiver |-> "none"]
<1>2. rep \in [Receiver -> Answer]
  BY DEF Answer
<1> HIDE DEF rep
<1> DEFINE no == FALSE
<1> HIDE DEF no
<1>3. /\ a.msgid \in MsgId /\ a.ready \in SUBSET Receiver /\ a.replies \in [Receiver -> Answer]
  BY DEF AuditRecord
<1>4. Ends(a, v) =
    [pc |-> "done", msgid |-> a.msgid, from |-> one, shares |-> none, null |-> no,
     next |-> one, replies |-> a.replies, ready |-> a.ready, verdict |-> v, secret |-> none]
  <2>1. NewAudit(a.msgid, a.ready) =
      [pc |-> "ask", msgid |-> a.msgid, from |-> one, shares |-> none, null |-> no,
       next |-> one, replies |-> rep, ready |-> a.ready, verdict |-> "pending", secret |-> none]
    BY <1>0, <1>1 DEF NewAudit, rep, no
  <2> DEFINE msg == a.msgid
             R == a.ready
             rp == a.replies
  <2> HIDE DEF msg, R, rp
  <2>2. NewAudit(msg, R) =
      [pc |-> "ask", msgid |-> msg, from |-> one, shares |-> none, null |-> no,
       next |-> one, replies |-> rep, ready |-> R, verdict |-> "pending", secret |-> none]
    BY <2>1 DEF msg, R
  <2>3. [NewAudit(msg, R) EXCEPT !.pc = "done", !.verdict = v, !.replies = rp] =
      [pc |-> "done", msgid |-> msg, from |-> one, shares |-> none, null |-> no,
       next |-> one, replies |-> rp, ready |-> R, verdict |-> v, secret |-> none]
    <3> DEFINE n1 == [NewAudit(msg, R) EXCEPT !.pc = "done"]
               n2 == [n1 EXCEPT !.verdict = v]
               n3 == [n2 EXCEPT !.replies = rp]
    <3>1. [NewAudit(msg, R) EXCEPT !.pc = "done", !.verdict = v, !.replies = rp] = n3
      OBVIOUS
    <3>2. n1 =
        [pc |-> "done", msgid |-> msg, from |-> one, shares |-> none, null |-> no,
         next |-> one, replies |-> rep, ready |-> R, verdict |-> "pending", secret |-> none]
      BY <2>2
    <3> HIDE DEF n1
    <3>3. n2 =
        [pc |-> "done", msgid |-> msg, from |-> one, shares |-> none, null |-> no,
         next |-> one, replies |-> rep, ready |-> R, verdict |-> v, secret |-> none]
      BY <3>2
    <3> HIDE DEF n2
    <3> QED
      BY <3>1, <3>3
  <2>4. Ends(a, v) = [NewAudit(msg, R) EXCEPT !.pc = "done", !.verdict = v, !.replies = rp]
    BY DEF Ends, msg, R, rp
  <2> QED
    BY <2>3, <2>4 DEF msg, R, rp
<1> QED
  BY <1>0, <1>1, <1>3, <1>4 DEF AuditRecord, no

\* The beginning of an audit.
LEMMA NewAuditFields ==
    ASSUME NEW m \in MsgId, NEW R \in SUBSET Receiver
    PROVE  /\ NewAudit(m, R) \in AuditRecord
           /\ NewAudit(m, R).pc = "ask" /\ NewAudit(m, R).verdict = "pending"
           /\ NewAudit(m, R).msgid = m /\ NewAudit(m, R).ready = R
           /\ NewAudit(m, R).shares = <<>> /\ NewAudit(m, R).null = FALSE
           /\ NewAudit(m, R).from = 1 /\ NewAudit(m, R).next = 1
<1>0. PICK one : one = 1 /\ one \in Receiver /\ one \in Nat \ {0}
  BY ConstantFacts
<1>1. PICK none : none = <<>> /\ none \in Seq(Share) /\ none \in Seq([deal : Nat \ {0}, block : Block])
  BY EmptySeq
<1> DEFINE rep == [r \in Receiver |-> "none"]
<1>2. rep \in [Receiver -> Answer]
  BY DEF Answer
<1> HIDE DEF rep
<1>3. NewAudit(m, R) =
    [pc |-> "ask", msgid |-> m, from |-> one, shares |-> none, null |-> FALSE,
     next |-> one, replies |-> rep, ready |-> R, verdict |-> "pending", secret |-> none]
  BY <1>0, <1>1 DEF NewAudit, rep
<1>4. NewAudit(m, R) \in AuditRecord
  BY <1>0, <1>1, <1>2, <1>3 DEF AuditRecord, Verdict
<1> QED
  BY <1>0, <1>1, <1>3, <1>4

\* A receiver gives out lines of the id, none of them twice, and leaves out none
\* when there are lines of only one deal.
LEMMA FoundShares ==
    ASSUME NEW r \in Receiver, NEW m, files[r] \in Seq(Share), IsInjective(files[r])
    PROVE  LET S == {l \in Range(files[r]) : msgOf[l.deal] = m}
           IN  /\ Found(r, m) \in Seq(Share) /\ Range(Found(r, m)) \subseteq S
               /\ IsInjective(Found(r, m))
               /\ \A d : (\A l \in S : l.x = r /\ l.deal = d) => Range(Found(r, m)) = S
<1> DEFINE S == {l \in Range(files[r]) : msgOf[l.deal] = m}
           k == Matching(r, m)
           p == SubSeq(k, 1, MaxShares)
<1>1. k \in Seq(Share) /\ Range(k) = S /\ IsInjective(k)
  <2>1. Range(files[r]) \cap S = S /\ k = Keep(files[r], S)
    BY DEF Matching
  <2> HIDE DEF S, k
  <2> QED
    BY <2>1, KeepProperties, ZenonT(60)
<1>2. Found(r, m) = IF Len(k) <= MaxShares THEN k ELSE p
  BY DEF Found
<1> HIDE DEF k, S
<1>3. Len(k) \in Nat /\ DOMAIN k = 1 .. Len(k) /\ MaxShares \in Nat /\ 1 <= MaxShares
  BY <1>1, LenProperties, ConstantFacts
<1>4. CASE Len(k) <= MaxShares
  BY <1>1, <1>2, <1>4 DEF S
<1>5. CASE ~(Len(k) <= MaxShares)
  <2>1. \A i \in 1 .. MaxShares : i \in 1 .. Len(k) /\ k[i] \in Share
    BY <1>1, <1>3, <1>5, ElementOfSeq
  <2>2. 1 <= MaxShares /\ MaxShares \in Int /\ MaxShares - 1 + 1 = MaxShares
    BY <1>3
  <2>3. p \in Seq(Share) /\ Len(p) = MaxShares /\ \A i \in 1 .. MaxShares : p[i] = k[i]
    <3>1. /\ p \in Seq(Share) /\ Len(p) = MaxShares
          /\ \A i \in 1 .. MaxShares - 1 + 1 : p[i] = k[1 + i - 1]
      BY <2>1, <2>2, SubSeqProperties
    <3> QED
      BY <2>2, <3>1
  <2> HIDE DEF p
  <2>4. DOMAIN p = 1 .. MaxShares
    BY <2>3, LenProperties
  <2>5. Range(p) \subseteq S
    BY <1>1, <1>3, <2>1, <2>3, <2>4 DEF Range
  <2>6. IsInjective(p)
    BY <1>1, <1>3, <2>1, <2>3, <2>4 DEF IsInjective
  <2>7. ASSUME NEW d, \A l \in S : l.x = r /\ l.deal = d
        PROVE  FALSE
    <3> DEFINE f == [i \in 1 .. Len(k) |-> k[i].block]
    <3>1. ASSUME NEW i \in 1 .. Len(k)
          PROVE  k[i] = Line(r, d, k[i].block) /\ k[i].block \in Block
      <4>1. k[i] \in S /\ k[i] \in Share
        BY <1>1, <1>3, ElementOfSeq DEF Range
      <4> QED
        BY <2>7, <4>1, ShareIsLine
    <3>2. f \in Injection(1 .. Len(k), Block)
      <4>1. f \in [1 .. Len(k) -> Block]
        BY <3>1
      <4>2. ASSUME NEW i \in 1 .. Len(k), NEW j \in 1 .. Len(k), f[i] = f[j]
            PROVE  i = j
        <5>1. k[i] = k[j]
          BY <3>1, <4>2
        <5> QED
          BY <1>1, <1>3, <5>1 DEF IsInjective
      <4> HIDE DEF f
      <4> QED
        BY <4>1, <4>2 DEF Injection, IsInjective
    <3>3. IsFiniteSet(Block) /\ Cardinality(Block) = NumBlocks
      BY FS_Interval, ConstantFacts, SMTT(30) DEF Block
    <3>4. Cardinality(1 .. Len(k)) = Len(k)
      BY FS_Interval, <1>3, SMTT(30)
    <3>5. Cardinality(1 .. Len(k)) <= Cardinality(Block)
      BY <3>2, <3>3, FS_Injection
    <3> QED
      BY <1>3, <1>5, <3>3, <3>4, <3>5, ConstantFacts
  <2> QED
    BY <1>2, <1>5, <2>3, <2>5, <2>6, <2>7 DEF S
<1> QED
  BY <1>4, <1>5

\* Shares of one deal and one block at different points give the block.
LEMMA Interpolated ==
    ASSUME NEW s \in Seq(Share), IsInjective(s), NEW D, \A l \in Range(s) : l.deal = D,
           NEW b, Len(OfBlock(s, b)) >= THRESHOLD
    PROVE  Interpolate(SubSeq(OfBlock(s, b), 1, THRESHOLD)) = [deal |-> D, block |-> b]
<1> DEFINE S == {l \in Range(s) : l.block = b}
           k == Keep(s, S)
           p == SubSeq(k, 1, THRESHOLD)
<1>1. k \in Seq(Share) /\ Range(k) = Range(s) \cap S /\ IsInjective(k)
  BY KeepProperties
<1>2. Len(k) \in Nat /\ DOMAIN k = 1 .. Len(k)
  BY <1>1, LenProperties
<1>3. Len(k) >= THRESHOLD
  BY DEF OfBlock
<1>4. \A i \in 1 .. Len(k) : k[i] \in Share /\ k[i].deal = D /\ k[i].block = b
  <2>1. \A i \in 1 .. Len(k) : k[i] \in Range(k)
    BY <1>2 DEF Range
  <2> QED
    BY <2>1, <1>1, ElementOfSeq
<1> HIDE DEF k
<1>5. /\ p \in Seq(Share) /\ Len(p) = THRESHOLD
      /\ \A i \in 1 .. THRESHOLD : p[i] = k[i]
  <2>1. \A i \in 1 .. THRESHOLD : k[i] \in Share
    BY <1>2, <1>3, <1>4, ConstantFacts
  <2>2. 1 <= THRESHOLD /\ THRESHOLD \in Int /\ THRESHOLD - 1 + 1 = THRESHOLD
    BY ConstantFacts
  <2>3. /\ p \in Seq(Share) /\ Len(p) = THRESHOLD
        /\ \A i \in 1 .. THRESHOLD - 1 + 1 : p[i] = k[1 + i - 1]
    BY <2>1, <2>2, SubSeqProperties
  <2> QED
    BY <2>2, <2>3
<1> HIDE DEF p
<1>6. DOMAIN p = 1 .. THRESHOLD
  BY <1>5, LenProperties
<1>7. \A i \in 1 .. THRESHOLD : i \in 1 .. Len(k)
  BY <1>2, <1>3, ConstantFacts
<1>8. \A i \in DOMAIN p : p[i].deal = D /\ p[i].block = b /\ p[i] \in Share
  BY <1>4, <1>5, <1>6, <1>7
<1>9. 1 \in DOMAIN p
  BY <1>6, ConstantFacts
<1>10. ASSUME NEW i \in DOMAIN p, NEW j \in DOMAIN p, i # j PROVE p[i].x # p[j].x
  <2> SUFFICES ASSUME p[i].x = p[j].x PROVE FALSE
    OBVIOUS
  <2>1. p[i] = p[j]
    <3>1. p[i] = Line(p[i].x, p[i].deal, p[i].block) /\ p[j] = Line(p[j].x, p[j].deal, p[j].block)
      BY <1>8, ShareIsLine
    <3> QED
      BY <3>1, <1>8
  <2>2. k[i] = k[j] /\ i \in DOMAIN k /\ j \in DOMAIN k
    BY <2>1, <1>5, <1>6, <1>7, <1>2
  <2> QED
    BY <2>2, <1>1, <1>10 DEF IsInjective
<1>11. p[1].deal = D /\ p[1].block = b
  BY <1>8, <1>9
<1>12. Interpolate(p) = [deal |-> D, block |-> b]
  BY <1>8, <1>10, <1>11 DEF Interpolate
<1> QED
  BY <1>12 DEF p, k, OfBlock

\* The secret put together from the first n blocks of deal D.
Leading(D, n) == Buffer([b \in 1 .. n |-> BlockOf(D, b)])

\* Where those blocks stand in it.
LEMMA LeadingBlocks ==
    ASSUME NEW D \in Nat, NEW n \in Block
    PROVE  /\ Leading(D, n) \in Seq([deal : Nat, block : Nat])
           /\ Len(Leading(D, n)) = NumBlocks
           /\ DOMAIN Leading(D, n) = Block
           /\ Leading(D, n)[NumBlocks] = BlockOf(D, n)
           /\ \A b \in 1 .. n - 1 : Leading(D, n)[b] = BlockOf(D, b)
           /\ \A b \in n .. NumBlocks - 1 : Leading(D, n)[b] = Zeros
           /\ n = NumBlocks => Leading(D, n) = Whole(D)
<1> DEFINE bs == [b \in 1 .. n |-> BlockOf(D, b)]
           c == Leading(D, n)
<1>0. n \in Nat /\ 1 <= n /\ n <= NumBlocks /\ NumBlocks \in Nat
  BY ConstantFacts DEF Block
<1>1. bs \in Seq([deal : Nat, block : Nat]) /\ Len(bs) = n
  <2>1. \A b \in 1 .. n : BlockOf(D, b) \in [deal : Nat, block : Nat]
    BY <1>0 DEF BlockOf
  <2>2. bs \in Seq([deal : Nat, block : Nat])
    BY <1>0, <2>1, IsASeq
  <2>3. DOMAIN bs = 1 .. n
    OBVIOUS
  <2> HIDE DEF bs
  <2> QED
    BY <1>0, <2>2, <2>3, LenProperties
<1>2. \A b \in 1 .. n : bs[b] = BlockOf(D, b)
  OBVIOUS
<1> HIDE DEF bs
<1>3. c = [p \in Block |-> IF p < n THEN bs[p] ELSE IF p = NumBlocks THEN bs[n] ELSE Zeros]
  <2>1. c = Buffer(bs)
    BY DEF Leading, bs
  <2> HIDE DEF c
  <2> QED
    BY <1>1, <2>1 DEF Buffer
<1> HIDE DEF c
<1>4. DOMAIN c = 1 .. NumBlocks /\ DOMAIN c = Block
  BY <1>3 DEF Block
<1>5. c[NumBlocks] = BlockOf(D, n)
  BY <1>0, <1>2, <1>3, ConstantFacts
<1>6. \A b \in 1 .. n - 1 : c[b] = BlockOf(D, b)
  BY <1>0, <1>2, <1>3 DEF Block
<1>7. \A b \in n .. NumBlocks - 1 : c[b] = Zeros
  BY <1>0, <1>3 DEF Block
<1>8. c \in Seq([deal : Nat, block : Nat]) /\ Len(c) = NumBlocks
  <2>1. \A b \in 1 .. NumBlocks : c[b] \in [deal : Nat, block : Nat]
    <3> TAKE b \in 1 .. NumBlocks
    <3>1. b \in 1 .. n - 1 \/ b \in n .. NumBlocks - 1 \/ b = NumBlocks
      BY <1>0
    <3>2. CASE b \in 1 .. n - 1
      <4>1. c[b] = BlockOf(D, b) /\ b \in Nat
        BY <1>6, <3>2
      <4> QED
        BY <4>1 DEF BlockOf
    <3>3. CASE b \in n .. NumBlocks - 1
      BY <1>7, <3>3 DEF Zeros
    <3>4. CASE b = NumBlocks
      BY <1>0, <1>5, <3>4 DEF BlockOf
    <3> QED
      BY <3>1, <3>2, <3>3, <3>4
  <2>2. c = [b \in 1 .. NumBlocks |-> c[b]]
    BY <1>3, <1>4
  <2>3. c \in Seq([deal : Nat, block : Nat])
    <3>1. c \in [1 .. NumBlocks -> [deal : Nat, block : Nat]]
      BY <2>1, <2>2
    <3> QED
      BY <1>0, <3>1, SeqDef
  <2> QED
    BY <1>0, <1>4, <2>3, LenProperties
<1>9. ASSUME n = NumBlocks
      PROVE  c = Whole(D)
  <2>1. \A b \in Block : c[b] = BlockOf(D, b)
    <3> TAKE b \in Block
    <3>1. b \in 1 .. n - 1 \/ b = NumBlocks
      BY <1>0, <1>9 DEF Block
    <3> QED
      BY <1>5, <1>6, <1>9, <3>1
  <2>2. c = [b \in Block |-> c[b]]
    BY <1>3
  <2> QED
    BY <2>1, <2>2 DEF Whole
<1> QED
  BY <1>4, <1>5, <1>6, <1>7, <1>8, <1>9 DEF c

\* Verified shares of one deal give the blocks of that deal up to the last that
\* arrived, placed as Buffer places them, unless a block has too few.
LEMMA Reconstructed ==
    ASSUME NEW a \in AuditRecord, IsInjective(a.shares), a.shares # <<>>, NEW D,
           \A l \in Range(a.shares) : l.deal = D
    PROVE  \E n \in Block :
            /\ \A l \in Range(a.shares) : l.block <= n
            /\ \/ /\ Reconstruct(a) = Ends(a, "failed")
                  /\ \E b \in 1 .. n : Len(OfBlock(a.shares, b)) < THRESHOLD
               \/ Reconstruct(a) = [Ends(a, "secret") EXCEPT !.secret = Leading(D, n)]
<1> DEFINE s == a.shares
           B == {l.block : l \in Range(s)}
           n == Max(B)
<1>1. s \in Seq(Share) /\ s # <<>>
  BY DEF AuditRecord
<1>2. Range(s) \subseteq Share /\ Range(s) # {}
  <2>1. Range(s) \in SUBSET Share
    BY <1>1, RangeOfSeq
  <2>2. 1 \in DOMAIN s
    BY <1>1, LenProperties, EmptySeq
  <2> QED
    BY <2>1, <2>2 DEF Range
<1>3. B \in SUBSET (0 .. NumBlocks) /\ B # {} /\ B \subseteq Block
  <2>1. \A l \in Range(s) : l.block \in Block
    BY <1>2, ShareIsLine
  <2> QED
    BY <2>1, <1>2 DEF Block
<1> HIDE DEF s
<1>4. n \in B /\ \A y \in B : n >= y
  <2> HIDE DEF B
  <2>1. PICK x \in B : \A y \in B : y <= x
    BY <1>3, GreatestNat, ConstantFacts
  <2>2. \E x1 \in B : \A y \in B : x1 >= y
    BY <2>1, <1>3, ConstantFacts
  <2> QED
    BY <2>2 DEF Max
<1>5. n \in Block /\ \A l \in Range(s) : l.block <= n
  BY <1>3, <1>4, ConstantFacts
<1>6. Reconstruct(a) =
        IF \E b \in 1 .. n : Len(OfBlock(s, b)) < THRESHOLD
        THEN Ends(a, "failed")
        ELSE [Ends(a, "secret") EXCEPT !.secret =
                Buffer([b \in 1 .. n |-> Interpolate(SubSeq(OfBlock(s, b), 1, THRESHOLD))])]
  BY DEF Reconstruct, s
<1>7. CASE \E b \in 1 .. n : Len(OfBlock(s, b)) < THRESHOLD
  BY <1>5, <1>6, <1>7 DEF s
<1>8. CASE ~ \E b \in 1 .. n : Len(OfBlock(s, b)) < THRESHOLD
  <2>1. ASSUME NEW b \in 1 .. n
        PROVE  Interpolate(SubSeq(OfBlock(s, b), 1, THRESHOLD)) = [deal |-> D, block |-> b]
    <3>1. Len(OfBlock(s, b)) \in Nat
      BY <1>1, KeepProperties, LenProperties DEF OfBlock
    <3>2. Len(OfBlock(s, b)) >= THRESHOLD
      <4> DEFINE c == Len(OfBlock(s, b))
      <4>1. c \in Nat /\ ~(c < THRESHOLD)
        BY <3>1, <1>8
      <4> HIDE DEF c
      <4>2. c >= THRESHOLD
        BY <4>1, ConstantFacts
      <4> QED
        BY <4>2 DEF c
    <3> QED
      BY <3>2, <1>1, Interpolated DEF s
  <2> HIDE DEF n
  <2>2. [b \in 1 .. n |-> Interpolate(SubSeq(OfBlock(s, b), 1, THRESHOLD))] =
        [b \in 1 .. n |-> BlockOf(D, b)]
    BY <2>1 DEF BlockOf
  <2>3. Reconstruct(a) = [Ends(a, "secret") EXCEPT !.secret = Leading(D, n)]
    BY <1>6, <1>8, <2>2 DEF Leading
  <2> QED
    BY <2>3, <1>5 DEF s
<1> QED
  BY <1>7, <1>8
-----------------------------------------------------------------------------
(* Steps that are not the auditor's.                                       *)

\* The ready receivers that gave out their shares.
Willing(a) == {r \in a.ready : a.replies[r] = "shares"}

\* The premise of AuditSucceedsWhenItCan, of an audit a.
Entitled(a) ==
    /\ Cardinality(Willing(a)) >= THRESHOLD
    /\ \A r \in Receiver : a.replies[r] # "no_file"
    /\ Cardinality(Started(a.msgid)) = 1

\* AuditSucceedsWhenItCan in terms of what the auditor was entitled to.
LEMMA SuccessRestated ==
    AuditSucceedsWhenItCan <=>
        (auditor.pc = "done" /\ auditor.verdict # "waits" /\ Entitled(auditor)
            => auditor.verdict = "secret"
               /\ auditor.secret \in {Whole(d) : d \in Started(auditor.msgid)})
BY DEF AuditSucceedsWhenItCan, Entitled, Willing, Started

\* One deal of an id.
LEMMA OneStarted ==
    ASSUME tumbler.deal \in Nat, NEW m
    PROVE  /\ IsFiniteSet(Started(m))
           /\ Cardinality(Started(m)) = 1 <=> \E d \in Started(m) : Started(m) = {d}
<1>1. IsFiniteSet(1 .. tumbler.deal) /\ Started(m) \subseteq 1 .. tumbler.deal
  BY FS_Interval, SMTT(30) DEF Started
<1>2. IsFiniteSet(Started(m))
  BY <1>1, FS_Subset
<1>3. Cardinality(Started(m)) = 1 <=> \E d : Started(m) = {d}
  BY <1>2, FS_Singleton
<1> QED
  BY <1>2, <1>3

\* An audit that enough receivers gave shares to had somebody ready.
LEMMA EntitledIsReady ==
    ASSUME NEW a \in AuditRecord, Entitled(a)
    PROVE  a.ready # {} /\ Willing(a) # {}
<1>1. Willing(a) # {}
  BY FS_EmptySet, ConstantFacts DEF Entitled
<1> QED
  BY <1>1 DEF Willing

\* What the tumbler and the receivers do keeps the invariant of the audit, as
\* long as files grow and a commitment changes to a deal without a line.
LEMMA QuietAudit ==
    ASSUME ShareIInv, ShareTypeOK', auditor' = auditor, msgOf' = msgOf,
           tumbler.deal <= tumbler'.deal,
           \A r \in Receiver : Stored(r) \subseteq Stored(r)',
           \A m \in MsgId : commitments'[m] # commitments[m] =>
               \A r \in Receiver : \A l \in Stored(r) : l.deal # commitments'[m],
           \A m \in MsgId : \A d \in Started(m) :
               Started(m)' = {d} /\ commitments[m] = d => commitments'[m] = d
    PROVE  /\ SharesFit' /\ VerificationFits' /\ NullFits'
           /\ ReadyFits' /\ SecretFits' /\ AuditSucceedsWhenItCan'
<1>0. /\ auditor \in AuditRecord /\ auditor.msgid \in MsgId /\ auditor.shares \in Seq(Share)
      /\ auditor.ready \in SUBSET Receiver /\ tumbler.deal \in Nat /\ tumbler'.deal \in Nat
  BY DEF ShareIInv, ShareTypeOK, AuditRecord, TumblerRecord
<1>1. \A l \in Range(auditor.shares) : l \in Share /\ l.x \in Receiver
  <2>1. Range(auditor.shares) \in SUBSET Share
    BY <1>0, RangeOfSeq
  <2> QED
    BY <2>1, ShareIsLine
<1>2. Started(auditor.msgid) \subseteq Started(auditor.msgid)'
  BY <1>0 DEF Started
<1>3. SharesFit'
  BY <1>1 DEF ShareIInv, SharesFit
<1>4. VerificationFits'
  <2> SUFFICES ASSUME auditor.pc = "verify", auditor.next > 1, NEW i \in DOMAIN auditor.shares,
                      auditor.shares[i].deal = commitments'[auditor.msgid]
               PROVE  auditor.shares[1].deal = commitments'[auditor.msgid]
    BY DEF ShareIInv, VerificationFits
  <2>1. auditor.shares[i] \in Range(auditor.shares)
    BY DEF Range
  <2>2. auditor.shares[i] \in Stored(auditor.shares[i].x) /\ auditor.shares[i].x \in Receiver
    BY <2>1, <1>1 DEF ShareIInv, SharesFit
  <2>3. commitments'[auditor.msgid] = commitments[auditor.msgid]
    BY <2>2, <1>0
  <2> QED
    BY <2>3 DEF ShareIInv, VerificationFits
<1>5. NullFits'
  BY DEF ShareIInv, NullFits
<1>6. ReadyFits'
  <2> SUFFICES ASSUME auditor.ready # {}
               PROVE  ReadyFits'
    BY DEF ReadyFits
  <2>1. PICK d \in Started(auditor.msgid) :
            /\ \A r \in auditor.ready : \A b \in Block : Line(r, d, b) \in Stored(r)
            /\ auditor.pc \in {"ask", "verify"} =>
                /\ Started(auditor.msgid) = {d} => commitments[auditor.msgid] = d
                /\ ~auditor.null /\ Started(auditor.msgid) = {d} =>
                    \A r \in auditor.ready : auditor.replies[r] = "shares" =>
                        \A b \in Block : Line(r, d, b) \in Range(auditor.shares)
    BY DEF ShareIInv, ReadyFits
  <2>2. d \in Started(auditor.msgid)'
    BY <1>2
  <2>3. \A r \in auditor.ready : \A b \in Block : Line(r, d, b) \in Stored(r)'
    BY <2>1, <1>0
  <2>4. ASSUME auditor.pc \in {"ask", "verify"}, Started(auditor.msgid)' = {d}
        PROVE  commitments'[auditor.msgid] = d
    <3>1. Started(auditor.msgid) = {d}
      BY <2>4, <1>2
    <3> QED
      BY <3>1, <2>1, <2>4, <1>0
  <2>5. Started(auditor.msgid)' = {d} => Started(auditor.msgid) = {d}
    BY <1>2
  <2> QED
    BY <2>1, <2>2, <2>3, <2>4, <2>5 DEF ReadyFits
<1>7. SecretFits'
  BY DEF ShareIInv, SecretFits, ReconstructionIsADeal
<1>8. AuditSucceedsWhenItCan'
  <2>1. ASSUME auditor.pc = "done", auditor.verdict # "waits", Entitled(auditor)'
        PROVE  /\ auditor.verdict = "secret"
               /\ auditor.secret \in {Whole(d) : d \in Started(auditor.msgid)'}
    <3>1. Willing(auditor) # {} /\ auditor.ready # {}
      <4>1. Cardinality(Willing(auditor)) >= THRESHOLD
        BY <2>1 DEF Entitled, Willing
      <4>2. Willing(auditor) # {}
        <5> SUFFICES ASSUME Willing(auditor) = {} PROVE FALSE
          OBVIOUS
        <5>1. Cardinality(Willing(auditor)) = 0
          BY FS_EmptySet
        <5> HIDE DEF Willing
        <5> QED
          BY <4>1, <5>1, ConstantFacts
      <4> QED
        BY <4>2 DEF Willing
    <3>2. PICK d \in Started(auditor.msgid) : TRUE
      BY <3>1 DEF ShareIInv, ReadyFits
    <3>3. PICK e : Started(auditor.msgid)' = {e}
      <4>1. Cardinality(Started(auditor.msgid)') = 1
        BY <2>1 DEF Entitled
      <4>2. IsFiniteSet(Started(auditor.msgid)')
        <5>1. IsFiniteSet(1 .. tumbler'.deal)
          BY FS_Interval, <1>0
        <5>2. Started(auditor.msgid)' \subseteq 1 .. tumbler'.deal
          BY DEF Started
        <5> QED
          BY <5>1, <5>2, FS_Subset
      <4> QED
        BY <4>1, <4>2, FS_Singleton
    <3>4. Started(auditor.msgid) = {e}
      BY <3>2, <3>3, <1>2
    <3>5. Cardinality(Started(auditor.msgid)) = 1
      BY <3>4, FS_Singleton
    <3>6. Entitled(auditor)
      BY <3>5, <2>1 DEF Entitled, Willing
    <3>7. auditor.verdict = "secret" /\ auditor.secret \in {Whole(f) : f \in Started(auditor.msgid)}
      BY <3>6, <2>1, SuccessRestated DEF ShareIInv
    <3> QED
      BY <3>7, <3>3, <3>4
  <2> QED
    BY <2>1 DEF AuditSucceedsWhenItCan, Entitled, Willing, Started
<1> QED
  BY <1>3, <1>4, <1>5, <1>6, <1>7, <1>8
\* Messages disappear or stay, nothing is stored, and what has yet to be sent
\* had yet to be sent.
LEMMA QuietFiles ==
    ASSUME FilesFit, ShareTypeOK, ShareTypeOK', files' = files, inbox' \subseteq inbox,
           tumbler.deal <= tumbler'.deal,
           \A r \in Receiver : \A d \in Nat : Unsent(r, d)' => Unsent(r, d)
    PROVE  FilesFit' /\ \A r \in Receiver : Stored(r)' = Stored(r)
<1>1. \A r \in Receiver : Stored(r)' = Stored(r)
  BY DEF Stored, NoFile
<1>2. \A r \in Receiver : \A l \in Stored(r) : l.deal \in Nat
  <2> TAKE r \in Receiver
  <2>1. CASE files[r] = NoFile
    BY <2>1 DEF Stored
  <2>2. CASE files[r] # NoFile
    <3>1. files[r] \in Seq(Share)
      BY <2>2 DEF ShareTypeOK
    <3>2. Range(files[r]) \in SUBSET Share
      BY <3>1, RangeOfSeq
    <3> QED
      BY <3>2, <2>2, ShareIsLine DEF Stored
  <2> QED
    BY <2>1, <2>2
<1>3. \A q \in inbox : q.to \in Receiver /\ q.deal \in Nat
  BY DEF ShareTypeOK
<1>4. tumbler.deal \in Nat /\ tumbler'.deal \in Nat
  BY DEF ShareTypeOK, TumblerRecord
<1>5. \A r \in Receiver : files'[r] # NoFile => IsInjective(files'[r])
  BY DEF FilesFit
<1>6. \A r \in Receiver : \A l \in Stored(r)' : l.x = r /\ l.deal <= tumbler'.deal
  BY <1>1, <1>2, <1>4 DEF FilesFit
<1>7. \A q \in inbox' : q.deal <= tumbler'.deal /\ ~Unsent(q.to, q.deal)'
  BY <1>3, <1>4 DEF FilesFit
<1>8. \A q \in inbox' : \A l \in Stored(q.to)' : l.deal # q.deal
  BY <1>1, <1>3 DEF FilesFit
<1>9. \A r \in Receiver : \A l \in Stored(r)' : ~Unsent(r, l.deal)'
  BY <1>1, <1>2 DEF FilesFit
<1>10. NoFile' = NoFile
  BY DEF NoFile
<1> QED
  BY <1>1, <1>5, <1>6, <1>7, <1>8, <1>9, <1>10 DEF FilesFit

\* Steps that keep the deal, the commitments, the files and the audit.
LEMMA SameDeal ==
    ASSUME ShareIInv, tumbler' \in TumblerRecord, tumbler'.deal = tumbler.deal,
           UNCHANGED <<msgOf, commitments, files, auditor>>, up' \in SUBSET Receiver,
           tumbler'.pc # "idle" => tumbler.deal # 0, inbox' \subseteq inbox,
           \A r \in Receiver : \A d \in Nat : Unsent(r, d)' => Unsent(r, d)
    PROVE  ShareIInv'
<1>0. ShareTypeOK'
  <2>1. inbox' \in SUBSET [to : Receiver, deal : Nat \ {0}]
    BY DEF ShareIInv, ShareTypeOK
  <2> QED
    BY <2>1 DEF ShareIInv, ShareTypeOK, NoFile
<1>1. tumbler.deal \in Nat /\ tumbler.deal <= tumbler'.deal
  BY DEF ShareIInv, ShareTypeOK, TumblerRecord
<1>2. FilesFit' /\ \A r \in Receiver : Stored(r)' = Stored(r)
  BY <1>0, <1>1, QuietFiles DEF ShareIInv
<1>3. CommitmentsFit'
  BY DEF ShareIInv, CommitmentsFit
<1>4. /\ SharesFit' /\ VerificationFits' /\ NullFits'
      /\ ReadyFits' /\ SecretFits' /\ AuditSucceedsWhenItCan'
  <2>1. \A m \in MsgId : Started(m)' = Started(m)
    BY DEF Started
  <2> QED
    BY <1>0, <1>1, <1>2, <2>1, QuietAudit
<1> QED
  BY <1>0, <1>2, <1>3, <1>4 DEF ShareIInv

\* A step to the next receiver, or past the last.
LEMMA NextReceiverFields ==
    ASSUME ShareTypeOK
    PROVE  /\ NextReceiver \in TumblerRecord
           /\ NextReceiver.deal = tumbler.deal
           /\ \/ NextReceiver.pc = "send" /\ NextReceiver.to = tumbler.to + 1
              \/ NextReceiver.pc = "linger"
<1>1. /\ tumbler \in TumblerRecord /\ tumbler.to \in Receiver
      /\ tumbler.to \in Nat \ {0} /\ tumbler.deal \in Nat
  BY ConstantFacts DEF ShareTypeOK, TumblerRecord
<1>2. CASE tumbler.to < SECRET_SHARES
  <2> DEFINE n == tumbler.to + 1
             u == [tumbler EXCEPT !.pc = "send"]
             w == [u EXCEPT !.to = n]
  <2>1. n \in Receiver
    BY <1>1, <1>2, ConstantFacts DEF Receiver
  <2>2. NextReceiver = w
    BY <1>1, <1>2 DEF NextReceiver, TumblerRecord
  <2> HIDE DEF n
  <2>3. u \in TumblerRecord /\ u.pc = "send" /\ u.deal = tumbler.deal
    BY <1>1 DEF TumblerRecord
  <2> HIDE DEF u
  <2>4. w \in TumblerRecord /\ w.pc = "send" /\ w.deal = tumbler.deal /\ w.to = n
    BY <2>1, <2>3 DEF TumblerRecord
  <2> QED
    BY <2>2, <2>4 DEF n
<1>3. CASE ~(tumbler.to < SECRET_SHARES)
  <2>1. NextReceiver = [tumbler EXCEPT !.pc = "linger"]
    BY <1>3 DEF NextReceiver
  <2> QED
    BY <2>1, <1>1 DEF TumblerRecord
<1> QED
  BY <1>2, <1>3

\* The tumbler starts the next deal.
LEMMA OpenCommitmentStep ==
    ASSUME ShareIInv, OpenCommitment
    PROVE  ShareIInv'
<1> DEFINE d == tumbler.deal + 1
<1>1. /\ tumbler \in TumblerRecord /\ tumbler.deal \in Nat /\ d \in Nat \ {0}
      /\ msgOf \in Seq(MsgId) /\ msgOf \in MsgOfs /\ d <= Len(msgOf) /\ Len(msgOf) \in Nat
  <2>1. msgOf \in Seq(MsgId) /\ msgOf \in MsgOfs
    BY ShareAuditAssumption DEF ShareIInv, ShareTypeOK
  <2>2. Len(msgOf) \in Nat
    BY <2>1, LenProperties
  <2> QED
    BY <2>1, <2>2 DEF ShareIInv, ShareTypeOK, TumblerRecord, OpenCommitment
<1>2. msgOf[d] \in MsgId
  BY <1>1, ElementOfSeq
<1> DEFINE m0 == msgOf[d]
<1>3. /\ tumbler' \in TumblerRecord /\ tumbler'.deal = d /\ tumbler'.pc \in {"write", "send"}
      /\ tumbler'.to = 1
  <2> HIDE DEF d
  <2>1. PICK one \in Receiver : one = 1
    BY ConstantFacts
  <2>2. tumbler' = [pc |-> "write", deal |-> d, to |-> one]
        \/ tumbler' = [pc |-> "send", deal |-> d, to |-> one]
    BY <2>1 DEF OpenCommitment, d
  <2> QED
    BY <2>1, <2>2, <1>1 DEF TumblerRecord
<1>4. /\ UNCHANGED <<msgOf, files, up, inbox, auditor>> /\ tumbler.pc = "idle"
      /\ commitments' = commitments \/ commitments' = [commitments EXCEPT ![m0] = NoDeal]
  BY DEF OpenCommitment
<1>5. commitments \in [MsgId -> Nat \cup {NoDeal}]
  BY DEF ShareIInv, CommitmentsFit
<1> HIDE DEF m0
<1>6. /\ commitments' \in [MsgId -> Nat \cup {NoDeal}]
      /\ \A m \in MsgId : commitments'[m] = commitments[m] \/ (m = m0 /\ commitments'[m] = NoDeal)
  BY <1>4, <1>5
<1> HIDE DEF d
<1>7. tumbler.deal <= d /\ tumbler.deal < d
  BY <1>1 DEF d
<1>8. ShareTypeOK'
  BY <1>1, <1>3, <1>4 DEF ShareIInv, ShareTypeOK, NoFile
<1>9. CommitmentsFit'
  BY <1>1, <1>3, <1>4, <1>6, <1>7 DEF ShareIInv, CommitmentsFit
<1>10. FilesFit' /\ \A r \in Receiver : Stored(r)' = Stored(r)
  <2>1. \A r \in Receiver : \A e \in Nat : Unsent(r, e)' => Unsent(r, e)
    BY <1>1, <1>3, <1>7 DEF Unsent
  <2>2. inbox' \subseteq inbox /\ tumbler.deal <= tumbler'.deal
    BY <1>3, <1>4, <1>7
  <2> QED
    BY <1>4, <1>8, <2>1, <2>2, QuietFiles DEF ShareIInv
<1>11. ASSUME NEW m \in MsgId, commitments'[m] # commitments[m],
              NEW r \in Receiver, NEW l \in Stored(r)
       PROVE  l.deal # commitments'[m]
  <2>1. commitments'[m] = NoDeal
    BY <1>6, <1>11
  <2>2. l.deal \in Nat \ {0}
    <3>1. files[r] # NoFile /\ l \in Range(files[r])
      BY DEF Stored
    <3>2. files[r] \in Seq(Share)
      BY <3>1 DEF ShareIInv, ShareTypeOK
    <3>3. l \in Share
      BY <3>1, <3>2, RangeOfSeq
    <3> QED
      BY <3>3, ShareIsLine
  <2> QED
    BY <2>1, <2>2, ShareAuditAssumption
<1>12. ASSUME NEW m \in MsgId, NEW e \in Started(m), Started(m)' = {e}, commitments[m] = e
       PROVE  commitments'[m] = e
  <2>1. CASE m = m0
    <3>1. d \in Started(m)'
      BY <2>1, <1>1, <1>3, <1>4 DEF Started, m0
    <3>2. e <= tumbler.deal /\ e \in Nat
      BY <1>1 DEF Started
    <3> QED
      BY <3>1, <3>2, <1>7, <1>12, <1>1
  <2>2. CASE m # m0
    BY <2>2, <1>6, <1>12
  <2> QED
    BY <2>1, <2>2
<1>13. /\ SharesFit' /\ VerificationFits' /\ NullFits'
       /\ ReadyFits' /\ SecretFits' /\ AuditSucceedsWhenItCan'
  BY <1>3, <1>4, <1>7, <1>8, <1>10, <1>11, <1>12, QuietAudit
<1> QED
  BY <1>8, <1>9, <1>10, <1>13 DEF ShareIInv
\* The tumbler publishes the commitment of its deal.
LEMMA WriteCommitmentStep ==
    ASSUME ShareIInv, WriteCommitment
    PROVE  ShareIInv'
<1> DEFINE d == tumbler.deal
           m0 == msgOf[d]
<1>1. /\ tumbler \in TumblerRecord /\ d \in Nat \ {0} /\ tumbler.to \in Receiver
      /\ msgOf \in Seq(MsgId) /\ msgOf \in MsgOfs /\ d <= Len(msgOf) /\ tumbler.pc = "write"
  BY ShareAuditAssumption DEF ShareIInv, ShareTypeOK, TumblerRecord, WriteCommitment
<1>2. m0 \in MsgId
  BY <1>1, ElementOfSeq
<1>3. /\ tumbler' \in TumblerRecord /\ tumbler'.deal = d /\ tumbler'.pc = "send"
      /\ tumbler'.to = tumbler.to
  BY <1>1 DEF TumblerRecord, WriteCommitment
<1>4. /\ UNCHANGED <<msgOf, files, up, inbox, auditor>>
      /\ commitments' = commitments \/ commitments' = [commitments EXCEPT ![m0] = d]
  BY DEF WriteCommitment
<1>5. commitments \in [MsgId -> Nat \cup {NoDeal}]
  BY DEF ShareIInv, CommitmentsFit
<1> HIDE DEF m0
<1>6. /\ commitments' \in [MsgId -> Nat \cup {NoDeal}]
      /\ \A m \in MsgId : commitments'[m] = commitments[m] \/ (m = m0 /\ commitments'[m] = d)
  BY <1>4, <1>5, <1>1
<1>8. ShareTypeOK'
  BY <1>1, <1>3, <1>4 DEF ShareIInv, ShareTypeOK, NoFile
<1>9. CommitmentsFit'
  <2>1. msgOf[d] = m0
    BY DEF m0
  <2> QED
    BY <2>1, <1>1, <1>3, <1>4, <1>6 DEF ShareIInv, CommitmentsFit
<1>10. FilesFit' /\ \A r \in Receiver : Stored(r)' = Stored(r)
  <2>1. \A r \in Receiver : \A e \in Nat : Unsent(r, e)' => Unsent(r, e)
    BY <1>1, <1>3 DEF Unsent
  <2>2. inbox' \subseteq inbox /\ tumbler.deal <= tumbler'.deal
    BY <1>1, <1>3, <1>4
  <2> QED
    BY <1>4, <1>8, <2>1, <2>2, QuietFiles DEF ShareIInv
<1>11. ASSUME NEW m \in MsgId, commitments'[m] # commitments[m],
              NEW r \in Receiver, NEW l \in Stored(r)
       PROVE  l.deal # commitments'[m]
  <2>1. commitments'[m] = d
    BY <1>6, <1>11
  <2>2. Unsent(r, d)
    BY <1>1 DEF Unsent
  <2>3. ~Unsent(r, l.deal)
    BY DEF ShareIInv, FilesFit
  <2> QED
    BY <2>1, <2>2, <2>3
<1>12. ASSUME NEW m \in MsgId, NEW e \in Started(m), Started(m)' = {e}, commitments[m] = e
       PROVE  commitments'[m] = e
  <2>1. CASE m = m0
    <3>1. d \in Started(m)'
      BY <2>1, <1>1, <1>3, <1>4 DEF Started, m0
    <3> QED
      BY <3>1, <1>6, <1>12
  <2>2. CASE m # m0
    BY <2>2, <1>6, <1>12
  <2> QED
    BY <2>1, <2>2
<1>13. /\ SharesFit' /\ VerificationFits' /\ NullFits'
       /\ ReadyFits' /\ SecretFits' /\ AuditSucceedsWhenItCan'
  <2>1. tumbler.deal <= tumbler'.deal
    BY <1>1, <1>3
  <2> QED
    BY <2>1, <1>4, <1>8, <1>10, <1>11, <1>12, QuietAudit
<1> QED
  BY <1>8, <1>9, <1>10, <1>13 DEF ShareIInv

\* The tumbler deals the shares of every block.
LEMMA SendSharesStep ==
    ASSUME ShareIInv, SendShares
    PROVE  ShareIInv'
<1> DEFINE q0 == [to |-> tumbler.to, deal |-> tumbler.deal]
<1>1. /\ tumbler \in TumblerRecord /\ tumbler.deal \in Nat \ {0} /\ tumbler.to \in Receiver
      /\ tumbler.pc = "send" /\ tumbler.to \in Nat
  BY ConstantFacts DEF ShareIInv, ShareTypeOK, TumblerRecord, SendShares
<1>2. /\ tumbler' \in TumblerRecord /\ tumbler'.deal = tumbler.deal /\ tumbler'.pc = "wait"
      /\ tumbler'.to = tumbler.to
  BY <1>1 DEF TumblerRecord, SendShares
<1>3. /\ UNCHANGED <<msgOf, commitments, files, up, auditor>> /\ inbox' = inbox \cup {q0}
  BY DEF SendShares
<1>4. q0 \in [to : Receiver, deal : Nat \ {0}] /\ q0.to = tumbler.to /\ q0.deal = tumbler.deal
  BY <1>1
<1> HIDE DEF q0
<1>5. inbox \subseteq [to : Receiver, deal : Nat \ {0}]
  BY DEF ShareIInv, ShareTypeOK
<1>6. ShareTypeOK'
  BY <1>1, <1>2, <1>3, <1>4, <1>5 DEF ShareIInv, ShareTypeOK, NoFile
<1>7. \A r \in Receiver : Stored(r)' = Stored(r)
  BY <1>3 DEF Stored, NoFile
<1>8. \A r \in Receiver : \A d \in Nat : Unsent(r, d)' => Unsent(r, d)
  BY <1>1, <1>2, ConstantFacts DEF Unsent
<1>9. Unsent(tumbler.to, tumbler.deal) /\ ~Unsent(tumbler.to, tumbler.deal)'
  BY <1>1, <1>2 DEF Unsent
<1>10. FilesFit'
  <2>1. \A r \in Receiver : files'[r] # NoFile' => IsInjective(files'[r])
    BY <1>3 DEF ShareIInv, FilesFit, NoFile
  <2>2. \A r \in Receiver : \A l \in Stored(r)' : l.x = r /\ l.deal <= tumbler'.deal
    BY <1>2, <1>7 DEF ShareIInv, FilesFit
  <2>3. ASSUME NEW q \in inbox'
        PROVE  /\ q.deal <= tumbler'.deal /\ ~Unsent(q.to, q.deal)'
               /\ \A l \in Stored(q.to)' : l.deal # q.deal
    <3>1. CASE q \in inbox
      <4>1. q.to \in Receiver /\ q.deal \in Nat
        BY <1>5, <3>1
      <4> QED
        BY <4>1, <3>1, <1>2, <1>7, <1>8 DEF ShareIInv, FilesFit
    <3>2. CASE q = q0
      <4>1. q.to = tumbler.to /\ q.deal = tumbler.deal
        BY <3>2, <1>4
      <4>2. q.deal <= tumbler'.deal /\ ~Unsent(q.to, q.deal)'
        BY <4>1, <1>1, <1>2, <1>9
      <4>3. \A l \in Stored(tumbler.to) : ~Unsent(tumbler.to, l.deal)
        BY <1>1 DEF ShareIInv, FilesFit
      <4>4. \A l \in Stored(tumbler.to) : l.deal # tumbler.deal
        BY <4>3, <1>9
      <4> QED
        BY <4>1, <4>2, <4>4, <1>7, <1>1
    <3> QED
      BY <3>1, <3>2, <1>3
  <2>4. ASSUME NEW r \in Receiver, NEW l \in Stored(r)'
        PROVE  ~Unsent(r, l.deal)'
    <3>1. l \in Stored(r) /\ ~Unsent(r, l.deal)
      BY <1>7 DEF ShareIInv, FilesFit
    <3>2. l.deal \in Nat
      <4>1. files[r] # NoFile /\ l \in Range(files[r])
        BY <3>1 DEF Stored
      <4>2. files[r] \in Seq(Share)
        BY <4>1 DEF ShareIInv, ShareTypeOK
      <4>3. l \in Share
        BY <4>1, <4>2, RangeOfSeq
      <4> QED
        BY <4>3, ShareIsLine
    <3> QED
      BY <3>1, <3>2, <1>8
  <2> QED
    BY <2>1, <2>2, <2>3, <2>4 DEF FilesFit
<1>11. CommitmentsFit'
  BY <1>2, <1>3 DEF ShareIInv, CommitmentsFit
<1>12. /\ SharesFit' /\ VerificationFits' /\ NullFits'
       /\ ReadyFits' /\ SecretFits' /\ AuditSucceedsWhenItCan'
  <2>1. \A m \in MsgId : Started(m)' = Started(m)
    BY <1>2, <1>3 DEF Started
  <2>2. tumbler.deal <= tumbler'.deal
    BY <1>1, <1>2
  <2> QED
    BY <1>3, <1>6, <1>7, <2>1, <2>2, QuietAudit
<1> QED
  BY <1>6, <1>10, <1>11, <1>12 DEF ShareIInv

\* The other steps of the tumbler.
LEMMA TumblerStep ==
    ASSUME ShareIInv, GiveUp \/ DestroyContext \/ TumblerDies
    PROVE  ShareIInv'
<1>1. /\ tumbler \in TumblerRecord /\ tumbler.deal \in Nat /\ tumbler.to \in Nat
      /\ ShareTypeOK
  BY ConstantFacts DEF ShareIInv, ShareTypeOK, TumblerRecord
<1>2. CASE GiveUp
  <2>1. /\ UNCHANGED <<msgOf, commitments, files, up, inbox, auditor>>
        /\ tumbler.pc = "wait" /\ tumbler' = NextReceiver
    BY <1>2 DEF GiveUp
  <2>2. /\ tumbler' \in TumblerRecord /\ tumbler'.deal = tumbler.deal /\ tumbler.deal # 0
        /\ \/ tumbler'.pc = "send" /\ tumbler'.to = tumbler.to + 1
           \/ tumbler'.pc = "linger"
    BY <2>1, <1>1, NextReceiverFields DEF ShareTypeOK
  <2>3. \A r \in Receiver : \A d \in Nat : Unsent(r, d)' => Unsent(r, d)
    BY <1>1, <2>1, <2>2, ConstantFacts DEF Unsent
  <2>4. up' \in SUBSET Receiver /\ inbox' \subseteq inbox
    BY <1>1, <2>1 DEF ShareTypeOK
  <2> QED
    BY <2>1, <2>2, <2>3, <2>4, SameDeal
<1>3. CASE DestroyContext \/ TumblerDies
  <2>1. /\ UNCHANGED <<msgOf, commitments, files, up, auditor>> /\ inbox' \subseteq inbox
        /\ tumbler.pc # "idle" /\ tumbler' = [tumbler EXCEPT !.pc = "idle"]
    BY <1>3 DEF DestroyContext, TumblerDies
  <2>2. /\ tumbler' \in TumblerRecord /\ tumbler'.deal = tumbler.deal /\ tumbler.deal # 0
        /\ tumbler'.pc = "idle"
    BY <2>1, <1>1 DEF TumblerRecord, ShareTypeOK
  <2>3. \A r \in Receiver : \A d \in Nat : Unsent(r, d)' => Unsent(r, d)
    BY <1>1, <2>2 DEF Unsent
  <2>4. up' \in SUBSET Receiver
    BY <1>1, <2>1 DEF ShareTypeOK
  <2> QED
    BY <2>1, <2>2, <2>3, <2>4, SameDeal
<1> QED
  BY <1>2, <1>3
-----------------------------------------------------------------------------
(* Steps of the receivers.                                                 *)

\* What is stored is a share.
LEMMA StoredShares ==
    ASSUME ShareTypeOK, NEW r \in Receiver
    PROVE  Stored(r) \subseteq Share
<1>1. CASE files[r] = NoFile
  BY <1>1 DEF Stored
<1>2. CASE files[r] # NoFile
  <2>1. files[r] \in Seq(Share)
    BY <1>2 DEF ShareTypeOK
  <2>2. Range(files[r]) \in SUBSET Share
    BY <2>1, RangeOfSeq
  <2> QED
    BY <2>2, <1>2 DEF Stored
<1> QED
  BY <1>1, <1>2

\* A file grows by the lines of one message, of which it has none.
LEMMA FileGrows ==
    ASSUME ShareTypeOK, NEW r \in Receiver, NEW d \in Nat \ {0}, NEW saved \in SUBSET Block,
           files[r] # NoFile => IsInjective(files[r]),
           \A l \in Stored(r) : l.deal # d,
           files' = [files EXCEPT ![r] =
                IF saved = {} THEN @
                ELSE (IF @ = NoFile THEN <<>> ELSE @) \o Lines(r, d, saved)]
    PROVE  /\ files' \in [Receiver -> Seq(Share) \cup {NoFile}]
           /\ \A p \in Receiver : p # r => Stored(p)' = Stored(p) /\ files'[p] = files[p]
           /\ Stored(r)' = Stored(r) \cup {Line(r, d, b) : b \in saved}
           /\ files'[r] # NoFile => IsInjective(files'[r])
<1>0. files \in [Receiver -> Seq(Share) \cup {NoFile}] /\ NoFile' = NoFile
  BY DEF ShareTypeOK, NoFile
<1> DEFINE base == IF files[r] = NoFile THEN <<>> ELSE files[r]
           more == Lines(r, d, saved)
           new == IF saved = {} THEN files[r] ELSE base \o more
<1>1. base \in Seq(Share) /\ IsInjective(base) /\ Range(base) = Stored(r)
  <2>1. CASE files[r] = NoFile
    <3>1. <<>> \in Seq(Share) /\ DOMAIN <<>> = {}
      BY EmptySeq
    <3> QED
      BY <2>1, <3>1 DEF IsInjective, Range, Stored
  <2>2. CASE files[r] # NoFile
    BY <2>2, <1>0 DEF Stored
  <2> QED
    BY <2>1, <2>2
<1>2. /\ more \in Seq(Share) /\ IsInjective(more)
      /\ Range(more) = {Line(r, d, b) : b \in saved}
  BY LinesStored
<1> HIDE DEF base, more
<1>3. Range(base) \cap Range(more) = {}
  <2>1. \A b \in saved : Line(r, d, b).deal = d
    BY LineFields
  <2> QED
    BY <2>1, <1>1, <1>2
<1>4. /\ base \o more \in Seq(Share) /\ IsInjective(base \o more)
      /\ Range(base \o more) = Stored(r) \cup {Line(r, d, b) : b \in saved}
  BY <1>1, <1>2, <1>3, ConcatInjective
<1>5. files' = [files EXCEPT ![r] = new]
  BY DEF base, more
<1>6. new \in Seq(Share) \cup {NoFile}
  BY <1>0, <1>4
<1> HIDE DEF new
<1>7. files'[r] = new /\ \A p \in Receiver : p # r => files'[p] = files[p]
  BY <1>0, <1>5
<1>8. files' \in [Receiver -> Seq(Share) \cup {NoFile}]
  BY <1>0, <1>5, <1>6
<1>9. \A p \in Receiver : p # r => Stored(p)' = Stored(p)
  BY <1>0, <1>7 DEF Stored
<1>10. CASE saved = {}
  <2>1. new = files[r]
    BY <1>10 DEF new
  <2>2. Stored(r)' = Stored(r)
    BY <2>1, <1>7, <1>0 DEF Stored
  <2>3. {Line(r, d, b) : b \in saved} = {}
    BY <1>10
  <2> QED
    BY <1>7, <1>8, <1>9, <2>1, <2>2, <2>3
<1>11. CASE saved # {}
  <2>1. new = base \o more
    BY <1>11 DEF new
  <2>2. files'[r] # NoFile
    BY <2>1, <1>4, <1>7, NoFileIsNoFile
  <2>3. Stored(r)' = Range(files'[r])
    BY <2>2, <1>0 DEF Stored
  <2> QED
    BY <1>4, <1>7, <1>8, <1>9, <2>1, <2>3
<1> QED
  BY <1>10, <1>11

\* A receiver writes what it got to its file, or part of it.
LEMMA StoreSharesStep ==
    ASSUME ShareIInv, NEW r \in Receiver, StoreShares(r)
    PROVE  ShareIInv'
<1>1. PICK q \in inbox, saved \in SUBSET Block :
        /\ q.to = r
        /\ files' = [files EXCEPT ![r] =
                IF saved = {} THEN @
                ELSE (IF @ = NoFile THEN <<>> ELSE @) \o Lines(r, q.deal, saved)]
        /\ inbox' = inbox \ {q}
        /\ tumbler' = IF tumbler.pc = "wait" /\ tumbler.to = r /\ tumbler.deal = q.deal
                      THEN NextReceiver ELSE tumbler
        /\ UNCHANGED <<msgOf, commitments, up, auditor>>
  BY DEF StoreShares
<1>2. /\ ShareTypeOK /\ inbox \subseteq [to : Receiver, deal : Nat \ {0}]
      /\ tumbler \in TumblerRecord /\ tumbler.deal \in Nat /\ tumbler.to \in Nat
  BY ConstantFacts DEF ShareIInv, ShareTypeOK, TumblerRecord
<1> DEFINE d == q.deal
<1>3. /\ d \in Nat \ {0} /\ d <= tumbler.deal /\ ~Unsent(r, d)
      /\ \A l \in Stored(r) : l.deal # d
  BY <1>1, <1>2 DEF ShareIInv, FilesFit
<1>4. files[r] # NoFile => IsInjective(files[r])
  BY DEF ShareIInv, FilesFit
<1> HIDE DEF d
<1>5. /\ files' \in [Receiver -> Seq(Share) \cup {NoFile}]
      /\ \A p \in Receiver : p # r => Stored(p)' = Stored(p) /\ files'[p] = files[p]
      /\ Stored(r)' = Stored(r) \cup {Line(r, d, b) : b \in saved}
      /\ files'[r] # NoFile => IsInjective(files'[r])
  <2>1. files' = [files EXCEPT ![r] =
                IF saved = {} THEN @
                ELSE (IF @ = NoFile THEN <<>> ELSE @) \o Lines(r, d, saved)]
    BY <1>1 DEF d
  <2> QED
    BY <2>1, <1>2, <1>3, <1>4, FileGrows
<1>6. /\ tumbler' \in TumblerRecord /\ tumbler'.deal = tumbler.deal
      /\ tumbler'.pc # "idle" => tumbler.deal # 0
      /\ \A p \in Receiver : \A e \in Nat : Unsent(p, e)' => Unsent(p, e)
  <2>1. CASE tumbler' = tumbler
    <3>1. \A p \in Receiver : \A e \in Nat : Unsent(p, e)' <=> Unsent(p, e)
      BY <2>1 DEF Unsent
    <3> QED
      BY <2>1, <1>2, <3>1 DEF ShareTypeOK
  <2>2. CASE tumbler.pc = "wait" /\ tumbler' = NextReceiver
    <3>1. /\ tumbler' \in TumblerRecord /\ tumbler'.deal = tumbler.deal /\ tumbler.deal # 0
          /\ \/ tumbler'.pc = "send" /\ tumbler'.to = tumbler.to + 1
             \/ tumbler'.pc = "linger"
      BY <2>2, <1>2, NextReceiverFields DEF ShareTypeOK
    <3>2. \A p \in Receiver : \A e \in Nat : Unsent(p, e)' => Unsent(p, e)
      BY <1>2, <2>2, <3>1, ConstantFacts DEF Unsent
    <3> QED
      BY <3>1, <3>2
  <2> QED
    BY <1>1, <2>1, <2>2
<1>7. ShareTypeOK'
  <2>1. inbox' \in SUBSET [to : Receiver, deal : Nat \ {0}]
    BY <1>1, <1>2
  <2>2. NoFile' = NoFile
    BY DEF NoFile
  <2> QED
    BY <2>1, <2>2, <1>1, <1>2, <1>5, <1>6 DEF ShareTypeOK
<1>8. \A p \in Receiver : Stored(p) \subseteq Stored(p)'
  BY <1>5
<1>9. ASSUME NEW p \in Receiver, NEW l \in Stored(p)'
      PROVE  \/ l \in Stored(p) /\ l.deal \in Nat
             \/ p = r /\ l.x = r /\ l.deal = d
  <2>1. CASE l \in Stored(p)
    BY <2>1, <1>2, StoredShares, ShareIsLine
  <2>2. CASE l \notin Stored(p)
    <3>1. p = r /\ \E b \in saved : l = Line(r, d, b)
      BY <2>2, <1>5
    <3> QED
      BY <3>1, LineFields, <1>3
  <2> QED
    BY <2>1, <2>2
<1>10. FilesFit'
  <2>1. \A p \in Receiver : files'[p] # NoFile' => IsInjective(files'[p])
    BY <1>5 DEF ShareIInv, FilesFit, NoFile
  <2>2. \A p \in Receiver : \A l \in Stored(p)' : l.x = p /\ l.deal <= tumbler'.deal
    BY <1>9, <1>3, <1>6 DEF ShareIInv, FilesFit
  <2>3. ASSUME NEW p \in inbox'
        PROVE  /\ p.deal <= tumbler'.deal /\ ~Unsent(p.to, p.deal)'
               /\ \A l \in Stored(p.to)' : l.deal # p.deal
    <3>1. p \in inbox /\ p # q /\ p.to \in Receiver /\ p.deal \in Nat
      BY <1>1, <1>2
    <3>2. /\ p.deal <= tumbler.deal /\ ~Unsent(p.to, p.deal)
          /\ \A l \in Stored(p.to) : l.deal # p.deal
      BY <3>1 DEF ShareIInv, FilesFit
    <3>3. p.to # r \/ p.deal # d
      <4>1. p = [to |-> p.to, deal |-> p.deal] /\ q = [to |-> q.to, deal |-> q.deal]
        BY <3>1, <1>2
      <4> QED
        BY <4>1, <3>1, <1>1 DEF d
    <3>4. \A l \in Stored(p.to)' : l.deal # p.deal
      BY <3>1, <3>2, <3>3, <1>9
    <3> QED
      BY <3>1, <3>2, <3>4, <1>6
  <2>4. ASSUME NEW p \in Receiver, NEW l \in Stored(p)'
        PROVE  ~Unsent(p, l.deal)'
    <3>1. ~Unsent(p, l.deal) /\ l.deal \in Nat
      BY <1>9, <1>3 DEF ShareIInv, FilesFit
    <3> QED
      BY <3>1, <1>6
  <2> QED
    BY <2>1, <2>2, <2>3, <2>4 DEF FilesFit
<1>11. CommitmentsFit'
  BY <1>1, <1>6 DEF ShareIInv, CommitmentsFit
<1>12. /\ SharesFit' /\ VerificationFits' /\ NullFits'
       /\ ReadyFits' /\ SecretFits' /\ AuditSucceedsWhenItCan'
  <2>1. \A m \in MsgId : Started(m)' = Started(m)
    BY <1>1, <1>6 DEF Started
  <2>2. tumbler.deal <= tumbler'.deal
    BY <1>2, <1>6
  <2> QED
    BY <1>1, <1>7, <1>8, <2>1, <2>2, QuietAudit
<1> QED
  BY <1>7, <1>10, <1>11, <1>12 DEF ShareIInv
-----------------------------------------------------------------------------
(* Steps of the auditor.                                                   *)

\* They leave the rest of the invariant as it is.
LEMMA QuietRest ==
    ASSUME ShareIInv, UNCHANGED <<msgOf, commitments, files, tumbler>>,
           up' \in SUBSET Receiver, inbox' \subseteq inbox, auditor' \in AuditRecord
    PROVE  /\ ShareTypeOK' /\ CommitmentsFit' /\ FilesFit'
           /\ \A r \in Receiver : Stored(r)' = Stored(r)
           /\ \A m \in MsgId : Started(m)' = Started(m)
<1>1. inbox' \in SUBSET [to : Receiver, deal : Nat \ {0}]
  BY DEF ShareIInv, ShareTypeOK
<1>2. ShareTypeOK'
  BY <1>1 DEF ShareIInv, ShareTypeOK, NoFile
<1>3. CommitmentsFit'
  BY DEF ShareIInv, CommitmentsFit
<1>4. tumbler.deal \in Nat /\ tumbler.deal <= tumbler'.deal
  BY DEF ShareIInv, ShareTypeOK, TumblerRecord
<1>5. \A r \in Receiver : \A d \in Nat : Unsent(r, d)' => Unsent(r, d)
  BY DEF Unsent
<1>6. FilesFit' /\ \A r \in Receiver : Stored(r)' = Stored(r)
  BY <1>2, <1>4, <1>5, QuietFiles DEF ShareIInv
<1>7. \A m \in MsgId : Started(m)' = Started(m)
  BY DEF Started
<1> QED
  BY <1>2, <1>3, <1>6, <1>7

\* An audit that ends without a secret was not entitled to one, or waits.
LEMMA AuditEnds ==
    ASSUME ShareIInv, UNCHANGED <<msgOf, commitments, files, tumbler>>,
           up' \in SUBSET Receiver, inbox' \subseteq inbox,
           NEW a \in AuditRecord, a.msgid = auditor.msgid, a.ready = auditor.ready,
           NEW v \in Verdict, v # "secret", auditor' = Ends(a, v),
           v # "waits" => ~Entitled(a)
    PROVE  ShareIInv'
<1>1. /\ auditor' \in AuditRecord /\ auditor'.pc = "done" /\ auditor'.verdict = v
      /\ auditor'.msgid = a.msgid /\ auditor'.ready = a.ready
      /\ auditor'.replies = a.replies /\ auditor'.shares = <<>>
      /\ auditor'.null = FALSE
  BY EndsFields
<1>2. /\ ShareTypeOK' /\ CommitmentsFit' /\ FilesFit'
      /\ \A r \in Receiver : Stored(r)' = Stored(r)
      /\ \A m \in MsgId : Started(m)' = Started(m)
  BY <1>1, QuietRest
<1>3. SharesFit'
  <2>1. Range(auditor'.shares) = {} /\ IsInjective(auditor'.shares)
    <3>1. DOMAIN <<>> = {}
      BY EmptySeq
    <3> QED
      BY <3>1, <1>1 DEF Range, IsInjective
  <2> QED
    BY <2>1 DEF SharesFit
<1>4. VerificationFits' /\ NullFits'
  BY <1>1 DEF VerificationFits, NullFits
<1>5. a.msgid \in MsgId /\ a.ready \in SUBSET Receiver
  BY DEF AuditRecord
<1>6. ReadyFits'
  <2> SUFFICES ASSUME auditor.ready # {} PROVE ReadyFits'
    BY <1>1 DEF ReadyFits
  <2>1. PICK d \in Started(auditor.msgid) :
            \A r \in auditor.ready : \A b \in Block : Line(r, d, b) \in Stored(r)
    BY DEF ShareIInv, ReadyFits
  <2>2. d \in Started(auditor.msgid)'
    <3>1. Started(a.msgid)' = Started(auditor.msgid)
      BY <1>2, <1>5
    <3>2. Started(auditor.msgid)' = Started(a.msgid)'
      BY <1>1 DEF Started
    <3> QED
      BY <3>1, <3>2
  <2>3. \A r \in auditor'.ready : \A b \in Block : Line(r, d, b) \in Stored(r)'
    BY <2>1, <1>1, <1>2, <1>5
  <2> QED
    BY <2>2, <2>3, <1>1 DEF ReadyFits
<1>7. SecretFits'
  BY <1>1 DEF SecretFits, ReconstructionIsADeal
<1>8. AuditSucceedsWhenItCan'
  <2>1. Entitled(auditor)' => Entitled(a)
    <3>1. Started(auditor.msgid)' = Started(a.msgid)
      BY <1>1, <1>2, <1>5 DEF Started
    <3> QED
      BY <3>1, <1>1 DEF Entitled, Willing
  <2>2. auditor'.verdict # "waits" => ~Entitled(auditor)'
    BY <2>1, <1>1
  <2> QED
    BY <2>2 DEF AuditSucceedsWhenItCan, Entitled, Willing, Started
<1> QED
  BY <1>2, <1>3, <1>4, <1>6, <1>7, <1>8 DEF ShareIInv
\* Crashes and restarts.
LEMMA ReceiverStep ==
    ASSUME ShareIInv, NEW r \in Receiver, ReceiverCrashes(r) \/ ReceiverRestarts(r)
    PROVE  ShareIInv'
<1>1. /\ UNCHANGED <<msgOf, commitments, files, tumbler>>
      /\ up' \in SUBSET Receiver /\ inbox' \subseteq inbox
      /\ auditor' = auditor \/ auditor' = Ends(auditor, "waits")
  BY DEF ShareIInv, ShareTypeOK, ReceiverCrashes, ReceiverRestarts
<1>2. CASE auditor' = auditor
  <2>1. /\ tumbler' \in TumblerRecord /\ tumbler'.deal = tumbler.deal
        /\ tumbler'.pc # "idle" => tumbler.deal # 0
    BY <1>1 DEF ShareIInv, ShareTypeOK
  <2>2. \A p \in Receiver : \A d \in Nat : Unsent(p, d)' => Unsent(p, d)
    BY <1>1 DEF Unsent
  <2> QED
    BY <1>1, <1>2, <2>1, <2>2, SameDeal
<1>3. CASE auditor' = Ends(auditor, "waits")
  <2>1. auditor \in AuditRecord
    BY DEF ShareIInv, ShareTypeOK
  <2>2. "waits" \in Verdict /\ "waits" # "secret"
    BY DEF Verdict
  <2> QED
    BY <1>1, <1>3, <2>1, <2>2, AuditEnds
<1> QED
  BY <1>1, <1>2, <1>3

\* An audit begins: nothing is collected yet, so nothing can be wrong.
LEMMA BeginAuditStep ==
    ASSUME ShareIInv, NEW m \in MsgId, BeginAudit(m)
    PROVE  ShareIInv'
<1> DEFINE R == Ready(m)
<1>1. /\ UNCHANGED <<msgOf, commitments, files, up, inbox, tumbler>>
      /\ auditor' = NewAudit(m, R) /\ R \in SUBSET Receiver
  BY DEF BeginAudit, Ready
<1>2. /\ auditor' \in AuditRecord
      /\ auditor'.pc = "ask" /\ auditor'.verdict = "pending"
      /\ auditor'.msgid = m /\ auditor'.ready = R
      /\ auditor'.shares = <<>> /\ auditor'.null = FALSE
      /\ auditor'.next = 1
  <2> HIDE DEF R
  <2> QED
    BY <1>1, NewAuditFields, ZenonT(60)
<1>3. up' \in SUBSET Receiver /\ inbox' \subseteq inbox
  BY <1>1 DEF ShareIInv, ShareTypeOK
<1>4. /\ ShareTypeOK' /\ CommitmentsFit' /\ FilesFit'
      /\ \A r \in Receiver : Stored(r)' = Stored(r)
      /\ \A i \in MsgId : Started(i)' = Started(i)
  BY <1>1, <1>2, <1>3, QuietRest
<1>5. SharesFit'
  <2>1. Range(auditor'.shares) = {} /\ IsInjective(auditor'.shares)
    <3>1. DOMAIN <<>> = {}
      BY EmptySeq
    <3> QED
      BY <3>1, <1>2 DEF Range, IsInjective
  <2> QED
    BY <2>1 DEF SharesFit
<1>6. VerificationFits' /\ NullFits'
  BY <1>2 DEF VerificationFits, NullFits
<1>7. ReadyFits'
  <2> SUFFICES ASSUME R # {} PROVE ReadyFits'
    BY <1>2 DEF ReadyFits
  <2>1. PICK r0 \in R : TRUE
    OBVIOUS
  <2>2. PICK d \in DOMAIN msgOf : commitments[m] = d
    BY <2>1 DEF Ready
  <2>3. d \in Nat \ {0}
    BY LenProperties, ShareAuditAssumption DEF ShareIInv, ShareTypeOK
  <2>4. d <= tumbler.deal /\ msgOf[d] = m
    BY <2>2, <2>3, ShareAuditAssumption DEF ShareIInv, CommitmentsFit
  <2>5. d \in Started(m)
    BY <2>3, <2>4 DEF Started, ShareIInv, ShareTypeOK, TumblerRecord
  <2>6. \A r \in R : r \in Receiver /\ \A b \in Block : Line(r, d, b) \in Stored(r)
    BY <2>2 DEF Ready, Stored
  <2>7. \A r \in R : \A b \in Block : Line(r, d, b) \in Stored(r)'
    BY <2>6, <1>4
  <2>8. Started(auditor.msgid)' = Started(m)
    BY <1>2, <1>4 DEF Started
  <2>9. \A r \in R : auditor'.replies[r] # "shares"
    BY <2>6, <1>1 DEF NewAudit
  <2>10. commitments'[m] = d
    BY <2>2, <1>1
  <2> HIDE DEF R
  <2> QED
    BY <2>5, <2>7, <2>8, <2>9, <2>10, <1>2 DEF ReadyFits
<1>8. SecretFits'
  BY <1>2 DEF SecretFits, ReconstructionIsADeal
<1>9. AuditSucceedsWhenItCan'
  BY <1>2 DEF AuditSucceedsWhenItCan
<1> QED
  BY <1>4, <1>5, <1>6, <1>7, <1>8, <1>9 DEF ShareIInv

\* The audit b after the answer of receiver b.from has been dealt with.
AnswerFits(b) ==
    /\ b \in AuditRecord /\ b.from = auditor.from
    /\ b.msgid = auditor.msgid /\ b.ready = auditor.ready
    /\ b.verdict # "secret" /\ b.next = 1
    /\ IsInjective(b.shares)
    /\ \A l \in Range(b.shares) :
        /\ l \in Stored(l.x)
        /\ msgOf[l.deal] = b.msgid
        /\ l.x <= b.from
    /\ b.null => \E r \in Receiver : b.replies[r] = "no_file" /\ r <= b.from
    /\ b.ready # {} =>
        \E d \in Started(b.msgid) :
            /\ \A r \in b.ready : \A k \in Block : Line(r, d, k) \in Stored(r)
            /\ Started(b.msgid) = {d} => commitments[b.msgid] = d
            /\ ~b.null /\ Started(b.msgid) = {d} =>
                \A r \in b.ready : b.replies[r] = "shares" =>
                    \A k \in Block : Line(r, d, k) \in Range(b.shares)

\* The audit goes on with such an audit, in another place.
LEMMA AuditGoesOn ==
    ASSUME ShareIInv, UNCHANGED <<msgOf, commitments, files, up, inbox, tumbler>>,
           NEW b, AnswerFits(b), auditor' \in AuditRecord,
           auditor'.msgid = b.msgid, auditor'.ready = b.ready, auditor'.verdict = b.verdict,
           auditor'.shares = b.shares, auditor'.null = b.null, auditor'.replies = b.replies,
           auditor'.next = b.next,
           \/ auditor'.pc = "ask" /\ auditor'.from = b.from + 1
           \/ auditor'.pc = "verify" /\ b.shares # <<>>
    PROVE  ShareIInv'
<1>0. /\ b \in AuditRecord /\ b.from \in Receiver /\ b.msgid \in MsgId /\ b.shares \in Seq(Share)
      /\ b.ready \in SUBSET Receiver /\ b.from \in Nat
  BY ConstantFacts DEF AnswerFits, AuditRecord
<1>1. up' \in SUBSET Receiver /\ inbox' \subseteq inbox
  BY DEF ShareIInv, ShareTypeOK
<1>2. /\ ShareTypeOK' /\ CommitmentsFit' /\ FilesFit'
      /\ \A r \in Receiver : Stored(r)' = Stored(r)
      /\ \A i \in MsgId : Started(i)' = Started(i)
  BY <1>1, QuietRest
<1>3. \A l \in Range(b.shares) : l.x \in Receiver /\ l.x \in Nat
  <2>1. Range(b.shares) \in SUBSET Share
    BY <1>0, RangeOfSeq
  <2> QED
    BY <2>1, ShareIsLine, ConstantFacts
<1>4. SharesFit'
  <2>1. ASSUME NEW l \in Range(b.shares)
        PROVE  /\ l \in Stored(l.x)' /\ msgOf'[l.deal] = b.msgid
               /\ auditor'.pc = "verify" \/ l.x < auditor'.from
    <3>1. l \in Stored(l.x) /\ msgOf[l.deal] = b.msgid /\ l.x <= b.from
      BY DEF AnswerFits
    <3>2. l.x < b.from + 1
      BY <3>1, <1>3, <1>0
    <3> QED
      BY <3>1, <3>2, <1>2, <1>3
  <2> QED
    BY <2>1 DEF SharesFit, AnswerFits
<1>5. VerificationFits'
  <2>1. auditor'.next = 1
    BY DEF AnswerFits
  <2>2. auditor'.pc = "verify" => 1 <= Len(b.shares)
    BY <1>0, LenProperties, EmptySeq
  <2>3. 1 .. (1 - 1) = {}
    OBVIOUS
  <2> QED
    BY <2>1, <2>2, <2>3 DEF VerificationFits
<1>6. NullFits'
  <2> SUFFICES ASSUME b.null PROVE NullFits'
    BY DEF NullFits
  <2>1. PICK r \in Receiver : b.replies[r] = "no_file" /\ r <= b.from
    BY DEF AnswerFits
  <2>2. r < b.from + 1
    BY <2>1, <1>0, ConstantFacts
  <2> QED
    BY <2>1, <2>2 DEF NullFits
<1>7. ReadyFits'
  <2> SUFFICES ASSUME b.ready # {} PROVE ReadyFits'
    BY DEF ReadyFits
  <2>1. PICK d \in Started(b.msgid) :
            /\ \A r \in b.ready : \A k \in Block : Line(r, d, k) \in Stored(r)
            /\ Started(b.msgid) = {d} => commitments[b.msgid] = d
            /\ ~b.null /\ Started(b.msgid) = {d} =>
                \A r \in b.ready : b.replies[r] = "shares" =>
                    \A k \in Block : Line(r, d, k) \in Range(b.shares)
    BY DEF AnswerFits
  <2>2. Started(auditor.msgid)' = Started(b.msgid)
    BY <1>0, <1>2 DEF Started
  <2>3. \A r \in b.ready : \A k \in Block : Line(r, d, k) \in Stored(r)'
    BY <2>1, <1>0, <1>2
  <2> QED
    BY <2>1, <2>2, <2>3 DEF ReadyFits
<1>8. SecretFits' /\ AuditSucceedsWhenItCan'
  BY DEF SecretFits, ReconstructionIsADeal, AnswerFits, AuditSucceedsWhenItCan
<1> QED
  BY <1>2, <1>4, <1>5, <1>6, <1>7, <1>8 DEF ShareIInv
\* Enough receivers gave enough shares.
LEMMA EnoughShares ==
    ASSUME NEW b, AnswerFits(b), Entitled(b), tumbler.deal \in Nat
    PROVE  THRESHOLD <= Len(b.shares)
<1>0. /\ b \in AuditRecord /\ b.shares \in Seq(Share) /\ b.ready \in SUBSET Receiver
      /\ b.msgid \in MsgId
  BY DEF AnswerFits, AuditRecord
<1>1. ~b.null
  BY DEF AnswerFits, Entitled
<1>2. PICK d \in Started(b.msgid) :
        \A r \in Willing(b) : \A k \in Block : Line(r, d, k) \in Range(b.shares)
  <2>1. b.ready # {}
    BY <1>0, EntitledIsReady
  <2>2. PICK d \in Started(b.msgid) :
            Started(b.msgid) = {d} =>
                \A r \in b.ready : b.replies[r] = "shares" =>
                    \A k \in Block : Line(r, d, k) \in Range(b.shares)
    BY <1>1, <2>1 DEF AnswerFits
  <2>3. Started(b.msgid) = {d}
    BY <2>2, OneStarted DEF Entitled
  <2> QED
    BY <2>2, <2>3 DEF Willing
<1>3. d \in Nat \ {0}
  BY DEF Started
<1>4. Willing(b) \in SUBSET Receiver
  BY <1>0 DEF Willing
<1>5. \A r \in Willing(b) : \E l \in Range(b.shares) : l.x = r
  <2> TAKE r \in Willing(b)
  <2>1. r \in Receiver /\ NumBlocks \in Block
    BY <1>4, ConstantFacts
  <2>2. Line(r, d, NumBlocks) \in Range(b.shares)
    BY <1>2, <2>1
  <2>3. Line(r, d, NumBlocks).x = r
    BY <1>3, <2>1, LineFields
  <2> QED
    BY <2>2, <2>3
<1>6. IsFiniteSet(Willing(b)) /\ Cardinality(Willing(b)) <= Len(b.shares)
  BY <1>0, <1>4, <1>5, OneEach
<1>7. Cardinality(Willing(b)) \in Nat /\ Len(b.shares) \in Nat /\ Cardinality(Willing(b)) >= THRESHOLD
  BY <1>0, <1>6, FS_CardinalityType, LenProperties DEF Entitled
<1> QED
  BY <1>6, <1>7, ConstantFacts

\* The auditor asks the next receiver, verifies, or gives up with too little.
LEMMA CollectedStep ==
    ASSUME ShareIInv, UNCHANGED <<msgOf, commitments, files, up, inbox, tumbler>>,
           NEW b, AnswerFits(b), b.pc = "ask", auditor' = Collected(b)
    PROVE  ShareIInv'
<1>0. /\ b \in AuditRecord /\ b.from \in Receiver /\ b.from \in Nat /\ b.shares \in Seq(Share)
      /\ Len(b.shares) \in Nat /\ b.msgid = auditor.msgid /\ b.ready = auditor.ready
  BY ConstantFacts, LenProperties DEF AnswerFits, AuditRecord
<1>1. CASE b.from < SECRET_SHARES
  <2> DEFINE n == b.from + 1
             u == [b EXCEPT !.pc = "ask"]
             w == [u EXCEPT !.from = n]
  <2>1. n \in Receiver
    BY <1>0, <1>1, ConstantFacts DEF Receiver
  <2>2. auditor' = w
    BY <1>0, <1>1 DEF Collected, AuditRecord
  <2> HIDE DEF n
  <2>3. /\ u \in AuditRecord /\ u.pc = "ask" /\ u.msgid = b.msgid /\ u.ready = b.ready
        /\ u.verdict = b.verdict /\ u.shares = b.shares /\ u.null = b.null
        /\ u.replies = b.replies /\ u.next = b.next
    BY <1>0 DEF AuditRecord
  <2> HIDE DEF u
  <2>4. /\ w \in AuditRecord /\ w.pc = "ask" /\ w.msgid = b.msgid /\ w.ready = b.ready
        /\ w.verdict = b.verdict /\ w.shares = b.shares /\ w.null = b.null
        /\ w.replies = b.replies /\ w.next = b.next /\ w.from = n
    BY <2>1, <2>3 DEF AuditRecord
  <2> HIDE DEF w
  <2>5. /\ auditor' \in AuditRecord /\ auditor'.pc = "ask" /\ auditor'.msgid = b.msgid
        /\ auditor'.ready = b.ready
        /\ auditor'.verdict = b.verdict /\ auditor'.shares = b.shares /\ auditor'.null = b.null
        /\ auditor'.replies = b.replies /\ auditor'.next = b.next /\ auditor'.from = b.from + 1
    BY <2>2, <2>4 DEF n
  <2> QED
    BY <2>5, AuditGoesOn
<1>2. CASE ~(b.from < SECRET_SHARES) /\ Len(b.shares) >= THRESHOLD
  <2>1. auditor' = [b EXCEPT !.pc = "verify"]
    BY <1>2 DEF Collected
  <2>2. /\ auditor' \in AuditRecord /\ auditor'.pc = "verify" /\ auditor'.msgid = b.msgid
        /\ auditor'.ready = b.ready
        /\ auditor'.verdict = b.verdict /\ auditor'.shares = b.shares /\ auditor'.null = b.null
        /\ auditor'.replies = b.replies /\ auditor'.next = b.next
    BY <1>0, <2>1 DEF AuditRecord
  <2>3. b.shares # <<>>
    BY <1>2, <1>0, EmptySeq, ConstantFacts
  <2> QED
    BY <2>2, <2>3, AuditGoesOn
<1>3. CASE ~(b.from < SECRET_SHARES) /\ ~(Len(b.shares) >= THRESHOLD)
  <2> DEFINE v == IF b.shares = <<>> THEN "legitimate" ELSE "failed"
  <2>1. auditor' = Ends(b, v)
    BY <1>3 DEF Collected
  <2>2. v \in Verdict /\ v # "secret"
    BY DEF Verdict
  <2>3. ~Entitled(b)
    <3>1. tumbler.deal \in Nat
      BY DEF ShareIInv, ShareTypeOK, TumblerRecord
    <3> QED
      BY <1>0, <1>3, <3>1, EnoughShares, ConstantFacts
  <2>4. up' \in SUBSET Receiver /\ inbox' \subseteq inbox
    BY DEF ShareIInv, ShareTypeOK
  <2> HIDE DEF v
  <2> QED
    BY <1>0, <2>1, <2>2, <2>3, <2>4, AuditEnds
<1> QED
  BY <1>1, <1>2, <1>3
\* Any answer but shares, of which only a missing file changes the array.
LEMMA OtherAnswer ==
    ASSUME ShareIInv, auditor.pc = "ask", NEW a \in AuditRecord,
           a.from = auditor.from, a.msgid = auditor.msgid, a.ready = auditor.ready,
           a.verdict = auditor.verdict, a.next = auditor.next, a.shares = auditor.shares,
           \A p \in Receiver : p # auditor.from => a.replies[p] = auditor.replies[p],
           a.replies[auditor.from] # "shares",
           a.null = auditor.null \/ (a.null /\ a.replies[auditor.from] = "no_file")
    PROVE  AnswerFits(a)
<1>0. /\ auditor.from \in Receiver /\ auditor.from \in Nat /\ auditor.ready \in SUBSET Receiver
      /\ auditor.shares \in Seq(Share)
  BY ConstantFacts DEF ShareIInv, ShareTypeOK, AuditRecord
<1>1. a.verdict # "secret" /\ a.next = 1 /\ IsInjective(a.shares)
  BY DEF ShareIInv, SecretFits, VerificationFits, SharesFit
<1>2. \A l \in Range(a.shares) :
        l \in Stored(l.x) /\ msgOf[l.deal] = a.msgid /\ l.x <= a.from
  <2>1. Range(auditor.shares) \in SUBSET Share
    BY <1>0, RangeOfSeq
  <2>2. \A l \in Range(auditor.shares) : l.x \in Nat
    BY <2>1, ShareIsLine, ConstantFacts
  <2> QED
    BY <2>2, <1>0 DEF ShareIInv, SharesFit
<1>3. ASSUME a.null
      PROVE  \E r \in Receiver : a.replies[r] = "no_file" /\ r <= a.from
  <2>1. CASE a.replies[auditor.from] = "no_file"
    BY <2>1, <1>0
  <2>2. CASE auditor.null
    <3>1. PICK r \in Receiver : auditor.replies[r] = "no_file" /\ r < auditor.from
      BY <2>2 DEF ShareIInv, NullFits
    <3>2. r # auditor.from /\ r <= auditor.from
      BY <3>1, <1>0, ConstantFacts
    <3> QED
      BY <3>1, <3>2
  <2> QED
    BY <1>3, <2>1, <2>2
<1>4. ASSUME a.ready # {}
      PROVE  \E d \in Started(a.msgid) :
                /\ \A r \in a.ready : \A k \in Block : Line(r, d, k) \in Stored(r)
                /\ Started(a.msgid) = {d} => commitments[a.msgid] = d
                /\ ~a.null /\ Started(a.msgid) = {d} =>
                    \A r \in a.ready : a.replies[r] = "shares" =>
                        \A k \in Block : Line(r, d, k) \in Range(a.shares)
  <2>1. PICK d \in Started(auditor.msgid) :
            /\ \A r \in auditor.ready : \A b \in Block : Line(r, d, b) \in Stored(r)
            /\ Started(auditor.msgid) = {d} => commitments[auditor.msgid] = d
            /\ ~auditor.null /\ Started(auditor.msgid) = {d} =>
                \A r \in auditor.ready : auditor.replies[r] = "shares" =>
                    \A b \in Block : Line(r, d, b) \in Range(auditor.shares)
    BY <1>4 DEF ShareIInv, ReadyFits
  <2>2. ASSUME ~a.null, Started(a.msgid) = {d}, NEW r \in a.ready, a.replies[r] = "shares",
               NEW k \in Block
        PROVE  Line(r, d, k) \in Range(a.shares)
    <3>1. ~auditor.null
      BY <2>2
    <3>2. r # auditor.from /\ r \in Receiver
      BY <2>2, <1>0
    <3>3. auditor.replies[r] = "shares" /\ r \in auditor.ready
      BY <2>2, <3>2
    <3> QED
      BY <3>1, <3>3, <2>1, <2>2
  <2> QED
    BY <2>1, <2>2
<1> QED
  BY <1>0, <1>1, <1>2, <1>3, <1>4 DEF AnswerFits
\* The lines of the id are added to what the receivers before have sent.
LEMMA SharesAnswer ==
    ASSUME ShareIInv, auditor.pc = "ask", ~auditor.null, files[auditor.from] # NoFile,
           NEW a \in AuditRecord,
           a.from = auditor.from, a.msgid = auditor.msgid, a.ready = auditor.ready,
           a.verdict = auditor.verdict, a.next = auditor.next, a.null = auditor.null,
           \A p \in Receiver : p # auditor.from => a.replies[p] = auditor.replies[p],
           a.shares = auditor.shares \o Found(auditor.from, auditor.msgid)
    PROVE  AnswerFits(a)
<1> DEFINE r0 == auditor.from
           m == auditor.msgid
           S == {l \in Range(files[r0]) : msgOf[l.deal] = m}
           found == Found(r0, m)
<1>0. /\ r0 \in Receiver /\ r0 \in Nat /\ auditor.ready \in SUBSET Receiver
      /\ auditor.shares \in Seq(Share) /\ files[r0] \in Seq(Share) /\ tumbler.deal \in Nat
  BY ConstantFacts DEF ShareIInv, ShareTypeOK, AuditRecord, TumblerRecord
<1>1. Stored(r0) = Range(files[r0]) /\ IsInjective(files[r0])
  BY <1>0 DEF Stored, ShareIInv, FilesFit
<1>2. /\ found \in Seq(Share) /\ Range(found) \subseteq S /\ IsInjective(found)
      /\ \A d : (\A l \in S : l.x = r0 /\ l.deal = d) => Range(found) = S
  BY <1>0, <1>1, FoundShares, Zenon
<1>3. a.shares = auditor.shares \o found
  OBVIOUS
<1> HIDE DEF found
<1>4. Range(auditor.shares) \in SUBSET Share
  BY <1>0, RangeOfSeq
<1>5. \A l \in Range(auditor.shares) :
        l \in Stored(l.x) /\ msgOf[l.deal] = m /\ l.x < r0 /\ l.x \in Nat
  BY <1>4, ShareIsLine, ConstantFacts DEF ShareIInv, SharesFit
<1>6. \A l \in S : l \in Stored(r0) /\ l.x = r0 /\ msgOf[l.deal] = m
  BY <1>0, <1>1 DEF ShareIInv, FilesFit
<1>7. Range(auditor.shares) \cap Range(found) = {}
  <2>1. ASSUME NEW l \in Range(auditor.shares), l \in S PROVE FALSE
    <3>1. l.x = r0 /\ l.x < r0
      BY <2>1, <1>5, <1>6
    <3> QED
      BY <3>1, <1>0
  <2> QED
    BY <2>1, <1>2
<1>8. IsInjective(auditor.shares)
  BY DEF ShareIInv, SharesFit
<1>9. IsInjective(a.shares) /\ Range(a.shares) = Range(auditor.shares) \cup Range(found)
  BY <1>0, <1>2, <1>3, <1>7, <1>8, ConcatInjective
<1>10. \A l \in Range(a.shares) :
        l \in Stored(l.x) /\ msgOf[l.deal] = a.msgid /\ l.x <= a.from
  <2> TAKE l \in Range(a.shares)
  <2>1. CASE l \in Range(auditor.shares)
    BY <2>1, <1>5, <1>0
  <2>2. CASE l \in S
    BY <2>2, <1>6, <1>0
  <2> QED
    BY <2>1, <2>2, <1>2, <1>9
<1>11. ASSUME a.ready # {}
      PROVE  \E d \in Started(a.msgid) :
                /\ \A r \in a.ready : \A k \in Block : Line(r, d, k) \in Stored(r)
                /\ Started(a.msgid) = {d} => commitments[a.msgid] = d
                /\ ~a.null /\ Started(a.msgid) = {d} =>
                    \A r \in a.ready : a.replies[r] = "shares" =>
                        \A k \in Block : Line(r, d, k) \in Range(a.shares)
  <2>1. PICK d \in Started(auditor.msgid) :
            /\ \A r \in auditor.ready : \A b \in Block : Line(r, d, b) \in Stored(r)
            /\ Started(auditor.msgid) = {d} => commitments[auditor.msgid] = d
            /\ ~auditor.null /\ Started(auditor.msgid) = {d} =>
                \A r \in auditor.ready : auditor.replies[r] = "shares" =>
                    \A b \in Block : Line(r, d, b) \in Range(auditor.shares)
    BY <1>11 DEF ShareIInv, ReadyFits
  <2>2. ASSUME Started(a.msgid) = {d}, NEW r \in a.ready, a.replies[r] = "shares", NEW k \in Block
        PROVE  Line(r, d, k) \in Range(a.shares)
    <3>1. r \in Receiver /\ r \in auditor.ready
      BY <1>0
    <3>2. CASE r = r0
      <4>1. Line(r, d, k) \in Range(files[r0])
        BY <3>1, <3>2, <2>1, <1>1
      <4>2. Line(r, d, k).deal = d /\ msgOf[d] = m
        BY <3>1, LineFields DEF Started
      <4>3. Line(r, d, k) \in S
        BY <4>1, <4>2
      <4>4. ASSUME NEW l \in S PROVE l.x = r0 /\ l.deal = d
        <5>1. l \in Share /\ l.deal \in Nat \ {0} /\ l.deal <= tumbler.deal
          <6>1. Range(files[r0]) \in SUBSET Share
            BY <1>0, RangeOfSeq
          <6> QED
            BY <6>1, <1>0, <1>6, ShareIsLine DEF ShareIInv, FilesFit
        <5>2. l.deal \in Started(m)
          BY <5>1, <1>0, <1>6 DEF Started
        <5> QED
          BY <5>2, <2>2, <1>6
      <4>5. Range(found) = S
        BY <4>4, <1>2
      <4> QED
        BY <4>3, <4>5, <1>9
    <3>3. CASE r # r0
      BY <3>1, <3>3, <2>1, <2>2, <1>9
    <3> QED
      BY <3>2, <3>3
  <2> QED
    BY <2>1, <2>2
<1>12. a.verdict # "secret" /\ a.next = 1 /\ ~a.null
  BY DEF ShareIInv, SecretFits, VerificationFits
<1> QED
  BY <1>9, <1>10, <1>11, <1>12 DEF AnswerFits
\* A receiver answers, with the lines it found under the message's id or a refusal.
LEMMA AnswerAuditStep ==
    ASSUME ShareIInv, NEW r \in Receiver, AnswerAudit(r)
    PROVE  ShareIInv'
<1>1. PICK innocent \in BOOLEAN :
        /\ auditor.pc = "ask" /\ auditor.from = r
        /\ auditor' = Collect(Reply(r, auditor.msgid, innocent),
                              IF Reply(r, auditor.msgid, innocent) = "shares"
                              THEN Found(r, auditor.msgid) ELSE <<>>)
        /\ UNCHANGED <<msgOf, commitments, files, up, inbox, tumbler>>
  BY DEF AnswerAudit
<1> DEFINE reply == Reply(r, auditor.msgid, innocent)
           rep == [auditor.replies EXCEPT ![r] = reply]
           a == [auditor EXCEPT !.replies = rep]
           c == [a EXCEPT !.null = TRUE]
           found == Found(r, auditor.msgid)
           t == a.shares \o found
           e == [a EXCEPT !.shares = t]
<1>2. reply \in {"innocent", "no_file", "not_found", "shares"} /\ reply \in Answer
      /\ (reply = "shares" => files[r] # NoFile)
  BY DEF Reply, Answer
<1>3. auditor \in AuditRecord /\ auditor.replies \in [Receiver -> Answer]
  BY DEF ShareIInv, ShareTypeOK, AuditRecord
<1> HIDE DEF reply
<1>4. /\ rep \in [Receiver -> Answer] /\ rep[r] = reply
      /\ \A p \in Receiver : p # r => rep[p] = auditor.replies[p]
  BY <1>2, <1>3
<1>5. [auditor EXCEPT !.replies[auditor.from] = reply] = a
  BY <1>1, <1>3 DEF AuditRecord
<1> HIDE DEF rep
<1>6. /\ a \in AuditRecord /\ a.from = r /\ a.msgid = auditor.msgid /\ a.ready = auditor.ready
      /\ a.verdict = auditor.verdict /\ a.next = auditor.next /\ a.shares = auditor.shares
      /\ a.null = auditor.null /\ a.replies = rep /\ a.pc = "ask"
  BY <1>1, <1>3, <1>4 DEF AuditRecord
<1>7. auditor' =
        CASE reply = "no_file" -> Collected([a EXCEPT !.null = TRUE])
          [] reply = "shares" /\ a.null -> Ends(a, "crashed")
          [] reply = "shares" /\ ~a.null ->
               Collected([a EXCEPT !.shares = @ \o IF reply = "shares" THEN found ELSE <<>>])
          [] OTHER -> Collected(a)
  <2> HIDE DEF a, found
  <2> QED
    BY <1>1, <1>5 DEF Collect, reply, found
<1> HIDE DEF a
<1>8. CASE reply \in {"innocent", "not_found"}
  <2>1. auditor' = Collected(a)
    BY <1>7, <1>8
  <2>2. AnswerFits(a)
    BY <1>1, <1>4, <1>6, <1>8, OtherAnswer
  <2> QED
    BY <1>1, <1>6, <2>1, <2>2, CollectedStep
<1>9. CASE reply = "no_file"
  <2>1. auditor' = Collected(c)
    BY <1>7, <1>9
  <2>2. /\ c \in AuditRecord /\ c.from = r /\ c.msgid = auditor.msgid /\ c.ready = auditor.ready
        /\ c.verdict = auditor.verdict /\ c.next = auditor.next /\ c.shares = auditor.shares
        /\ c.null = TRUE /\ c.replies = rep /\ c.pc = "ask"
    BY <1>6 DEF AuditRecord
  <2> HIDE DEF c
  <2>3. AnswerFits(c)
    BY <1>1, <1>4, <1>9, <2>2, OtherAnswer
  <2> QED
    BY <1>1, <2>1, <2>2, <2>3, CollectedStep
<1>10. CASE reply = "shares" /\ a.null
  <2>1. auditor' = Ends(a, "crashed")
    BY <1>7, <1>10
  <2>2. "crashed" \in Verdict /\ "crashed" # "secret"
    BY DEF Verdict
  <2>3. ~Entitled(a)
    <3>1. PICK p \in Receiver : auditor.replies[p] = "no_file" /\ p < r
      BY <1>1, <1>6, <1>10 DEF ShareIInv, NullFits
    <3>2. p # r
      BY <3>1, ConstantFacts
    <3>3. a.replies[p] = "no_file"
      BY <3>1, <3>2, <1>4, <1>6
    <3> QED
      BY <3>3 DEF Entitled
  <2>4. up' \in SUBSET Receiver /\ inbox' \subseteq inbox
    BY <1>1 DEF ShareIInv, ShareTypeOK
  <2> QED
    BY <1>1, <1>6, <2>1, <2>2, <2>3, <2>4, AuditEnds
<1>11. CASE reply = "shares" /\ ~a.null
  <2>1. auditor' = Collected(e)
    BY <1>7, <1>11
  <2>2. t \in Seq(Share)
    <3>1. files[r] \in Seq(Share) /\ a.shares \in Seq(Share)
      BY <1>2, <1>6, <1>11 DEF ShareIInv, ShareTypeOK, AuditRecord
    <3>2. found \in Seq(Share)
      <4>1. IsInjective(files[r])
        BY <1>2, <1>11 DEF ShareIInv, FilesFit
      <4> QED
        BY <3>1, <4>1, FoundShares, Zenon
    <3> HIDE DEF found
    <3> QED
      BY <3>1, <3>2, ConcatProperties
  <2> HIDE DEF t
  <2>3. /\ e \in AuditRecord /\ e.from = r /\ e.msgid = auditor.msgid /\ e.ready = auditor.ready
        /\ e.verdict = auditor.verdict /\ e.next = auditor.next /\ e.shares = t
        /\ e.null = auditor.null /\ e.replies = rep /\ e.pc = "ask"
    BY <1>6, <2>2 DEF AuditRecord
  <2> HIDE DEF e
  <2>4. t = auditor.shares \o Found(auditor.from, auditor.msgid)
    BY <1>1, <1>6 DEF t
  <2>5. AnswerFits(e)
    <3>1. files[auditor.from] # NoFile /\ ~auditor.null
      BY <1>1, <1>2, <1>6, <1>11
    <3>2. \A p \in Receiver : p # auditor.from => e.replies[p] = auditor.replies[p]
      BY <1>1, <1>4, <2>3
    <3>3. e.shares = auditor.shares \o Found(auditor.from, auditor.msgid)
      BY <2>3, <2>4
    <3> QED
      BY <1>1, <2>3, <3>1, <3>2, <3>3, SharesAnswer
  <2> QED
    BY <1>1, <2>1, <2>3, <2>5, CollectedStep
<1> QED
  BY <1>2, <1>8, <1>9, <1>10, <1>11
\* An audit under way that is entitled to the secret: the only deal is
\* committed to, everything collected is of it, and the array is there.
LEMMA EntitledVerifies ==
    ASSUME ShareIInv, auditor.pc = "verify", Entitled(auditor)
    PROVE  \E d \in Nat \ {0} :
            /\ commitments[auditor.msgid] = d
            /\ ~auditor.null
            /\ \A l \in Range(auditor.shares) : l.deal = d
            /\ \A r \in Willing(auditor) : \A b \in Block : Line(r, d, b) \in Range(auditor.shares)
<1>0. /\ auditor \in AuditRecord /\ auditor.shares \in Seq(Share) /\ tumbler.deal \in Nat
      /\ ShareTypeOK
  BY DEF ShareIInv, ShareTypeOK, AuditRecord, TumblerRecord
<1>1. ~auditor.null
  BY DEF ShareIInv, NullFits, Entitled
<1>2. auditor.ready # {}
  BY <1>0, EntitledIsReady
<1>3. PICK d \in Started(auditor.msgid) :
        Started(auditor.msgid) = {d} =>
            /\ commitments[auditor.msgid] = d
            /\ \A r \in auditor.ready : auditor.replies[r] = "shares" =>
                    \A b \in Block : Line(r, d, b) \in Range(auditor.shares)
  BY <1>1, <1>2 DEF ShareIInv, ReadyFits
<1>4. Started(auditor.msgid) = {d}
  BY <1>0, <1>3, OneStarted DEF Entitled
<1>5. d \in Nat \ {0}
  BY DEF Started
<1>6. ASSUME NEW l \in Range(auditor.shares) PROVE l.deal = d
  <2>1. Range(auditor.shares) \in SUBSET Share
    BY <1>0, RangeOfSeq
  <2>2. l.x \in Receiver /\ l.deal \in Nat \ {0}
    BY <2>1, ShareIsLine
  <2>3. l \in Stored(l.x) /\ msgOf[l.deal] = auditor.msgid
    BY DEF ShareIInv, SharesFit
  <2>4. l.deal <= tumbler.deal
    BY <2>2, <2>3 DEF ShareIInv, FilesFit
  <2>5. l.deal \in Started(auditor.msgid)
    BY <2>2, <2>3, <2>4, <1>0 DEF Started
  <2> QED
    BY <2>5, <1>4
<1>7. \A r \in Willing(auditor) : \A b \in Block : Line(r, d, b) \in Range(auditor.shares)
  BY <1>3, <1>4 DEF Willing
<1> QED
  BY <1>1, <1>3, <1>4, <1>5, <1>6, <1>7

\* A block of which every willing receiver has a share has enough of them.
LEMMA EnoughOfABlock ==
    ASSUME NEW a \in AuditRecord, Entitled(a), NEW d \in Nat \ {0},
           \A r \in Willing(a) : \A b \in Block : Line(r, d, b) \in Range(a.shares),
           NEW b \in Block
    PROVE  ~(Len(OfBlock(a.shares, b)) < THRESHOLD)
<1>0. a.shares \in Seq(Share) /\ a.ready \in SUBSET Receiver
  BY DEF AuditRecord
<1> DEFINE S == {s \in Range(a.shares) : s.block = b}
           k == Keep(a.shares, S)
<1>1. k \in Seq(Share) /\ Range(k) = S
  <2>1. Range(a.shares) \cap S = S
    OBVIOUS
  <2> HIDE DEF S
  <2> QED
    BY <2>1, <1>0, KeepProperties
<1>2. Willing(a) \in SUBSET Receiver
  BY <1>0 DEF Willing
<1>3. \A r \in Willing(a) : \E l \in Range(k) : l.x = r
  <2> TAKE r \in Willing(a)
  <2>1. r \in Receiver
    BY <1>2
  <2>2. Line(r, d, b).block = b /\ Line(r, d, b).x = r
    BY <2>1, LineFields
  <2>3. Line(r, d, b) \in S
    BY <2>2
  <2> HIDE DEF S
  <2> QED
    BY <2>2, <2>3, <1>1
<1> HIDE DEF k
<1>4. IsFiniteSet(Willing(a)) /\ Cardinality(Willing(a)) <= Len(k)
  BY <1>1, <1>2, <1>3, OneEach
<1>5. Cardinality(Willing(a)) \in Nat /\ Len(k) \in Nat /\ Cardinality(Willing(a)) >= THRESHOLD
  BY <1>1, <1>4, FS_CardinalityType, LenProperties DEF Entitled
<1>6. ~(Len(k) < THRESHOLD)
  BY <1>4, <1>5, ConstantFacts
<1> QED
  BY <1>6 DEF k, OfBlock

\* The last share has been verified: the secret is put together.
LEMMA ReconstructStep ==
    ASSUME ShareIInv, UNCHANGED <<msgOf, commitments, files, up, inbox, tumbler>>,
           auditor.pc = "verify", auditor.next = Len(auditor.shares),
           auditor.shares[auditor.next].deal = commitments[auditor.msgid],
           commitments[auditor.msgid] # NoDeal, auditor' = Reconstruct(auditor)
    PROVE  ShareIInv'
<1> DEFINE D == commitments[auditor.msgid]
           s == auditor.shares
<1>0. /\ auditor \in AuditRecord /\ s \in Seq(Share) /\ auditor.msgid \in MsgId
      /\ DOMAIN s = 1 .. Len(s) /\ Len(s) \in Nat /\ auditor.next \in Nat \ {0}
      /\ up' \in SUBSET Receiver /\ inbox' \subseteq inbox
  BY LenProperties DEF ShareIInv, ShareTypeOK, AuditRecord
<1>1. D \in Nat \ {0} /\ D <= tumbler.deal /\ msgOf[D] = auditor.msgid
  BY <1>0 DEF ShareIInv, CommitmentsFit
<1>2. \A l \in Range(s) : l.deal = D
  <2>1. ASSUME NEW i \in 1 .. Len(s) PROVE s[i].deal = D
    <3>1. CASE i = auditor.next
      BY <3>1
    <3>2. CASE i # auditor.next
      <4>1. i \in 1 .. (auditor.next - 1) /\ auditor.next > 1 /\ auditor.next \in DOMAIN s
        BY <3>2, <1>0
      <4>2. s[1].deal = D
        BY <4>1 DEF ShareIInv, VerificationFits
      <4>3. s[i].deal = s[1].deal
        BY <4>1 DEF ShareIInv, VerificationFits
      <4> QED
        BY <4>2, <4>3
    <3> QED
      BY <3>1, <3>2
  <2> QED
    BY <2>1, <1>0 DEF Range
<1>3. IsInjective(auditor.shares) /\ auditor.shares # <<>>
  BY <1>0, EmptySeq DEF ShareIInv, SharesFit
<1> HIDE DEF D, s
<1>4. PICK n \in Block :
        /\ \A l \in Range(auditor.shares) : l.block <= n
        /\ \/ /\ auditor' = Ends(auditor, "failed")
              /\ \E b \in 1 .. n : Len(OfBlock(auditor.shares, b)) < THRESHOLD
           \/ auditor' = [Ends(auditor, "secret") EXCEPT !.secret = Leading(D, n)]
  BY <1>0, <1>2, <1>3, Reconstructed, ZenonT(60) DEF s
<1>5. n \in Nat \ {0} /\ n <= NumBlocks /\ 1 .. n \subseteq Block
  BY ConstantFacts DEF Block
<1>6. ASSUME Entitled(auditor)
      PROVE  n = NumBlocks /\ \A b \in 1 .. n : ~(Len(OfBlock(auditor.shares, b)) < THRESHOLD)
  <2>1. PICK d \in Nat \ {0} :
            /\ \A r \in Willing(auditor) : \A b \in Block : Line(r, d, b) \in Range(auditor.shares)
    BY <1>6, EntitledVerifies
  <2>2. \A b \in Block : ~(Len(OfBlock(auditor.shares, b)) < THRESHOLD)
    BY <2>1, <1>0, <1>6, EnoughOfABlock
  <2>3. PICK r \in Willing(auditor) : TRUE
    BY <1>0, <1>6, EntitledIsReady
  <2>4. r \in Receiver /\ NumBlocks \in Block
    BY <1>0, ConstantFacts DEF Willing, AuditRecord
  <2>5. Line(r, d, NumBlocks) \in Range(auditor.shares)
    BY <2>1, <2>4
  <2>6. Line(r, d, NumBlocks).block = NumBlocks
    BY <2>4, LineFields
  <2>7. NumBlocks <= n
    BY <2>5, <2>6, <1>4
  <2> QED
    BY <2>2, <2>7, <1>5, ConstantFacts
<1>7. CASE auditor' = Ends(auditor, "failed")
           /\ \E b \in 1 .. n : Len(OfBlock(auditor.shares, b)) < THRESHOLD
  <2>1. "failed" \in Verdict /\ "failed" # "secret"
    BY DEF Verdict
  <2>2. ~Entitled(auditor)
    BY <1>6, <1>7
  <2> QED
    BY <1>0, <1>7, <2>1, <2>2, AuditEnds
<1>8. CASE auditor' = [Ends(auditor, "secret") EXCEPT !.secret = Leading(D, n)]
  <2> DEFINE sec == Leading(D, n)
             f == Ends(auditor, "secret")
  <2>1. /\ sec \in Seq([deal : Nat, block : Nat]) /\ DOMAIN sec = Block
        /\ sec[NumBlocks] = BlockOf(D, n)
        /\ \A b \in 1 .. n - 1 : sec[b] = BlockOf(D, b)
        /\ \A b \in n .. NumBlocks - 1 : sec[b] = Zeros
    BY <1>1, LeadingBlocks
  <2>2. n = NumBlocks => sec = Whole(D)
    BY <1>1, LeadingBlocks
  <2> HIDE DEF sec
  <2>3. /\ f \in AuditRecord
        /\ f.pc = "done" /\ f.verdict = "secret"
        /\ f.msgid = auditor.msgid /\ f.ready = auditor.ready
        /\ f.replies = auditor.replies /\ f.shares = <<>>
        /\ f.null = FALSE
    <3>1. "secret" \in Verdict
      BY DEF Verdict
    <3> QED
      BY <3>1, <1>0, EndsFields
  <2>4. auditor' = [f EXCEPT !.secret = sec]
    BY <1>8 DEF sec
  <2> HIDE DEF f
  <2>5. /\ auditor' \in AuditRecord
        /\ auditor'.pc = "done" /\ auditor'.verdict = "secret"
        /\ auditor'.msgid = auditor.msgid /\ auditor'.ready = auditor.ready
        /\ auditor'.replies = auditor.replies /\ auditor'.shares = <<>>
        /\ auditor'.null = FALSE /\ auditor'.secret = sec
    BY <2>1, <2>3, <2>4 DEF AuditRecord
  <2>6. /\ ShareTypeOK' /\ CommitmentsFit' /\ FilesFit'
        /\ \A r \in Receiver : Stored(r)' = Stored(r)
        /\ \A m \in MsgId : Started(m)' = Started(m)
    BY <1>0, <2>5, QuietRest
  <2>7. SharesFit'
    <3>1. Range(auditor'.shares) = {} /\ IsInjective(auditor'.shares)
      <4>1. DOMAIN <<>> = {}
        BY EmptySeq
      <4> QED
        BY <4>1, <2>5 DEF Range, IsInjective
    <3> QED
      BY <3>1 DEF SharesFit
  <2>8. VerificationFits' /\ NullFits'
    BY <2>5 DEF VerificationFits, NullFits
  <2>9. Started(auditor.msgid)' = Started(auditor.msgid)
    BY <1>0, <2>5, <2>6 DEF Started
  <2>10. ReadyFits'
    <3> SUFFICES ASSUME auditor.ready # {} PROVE ReadyFits'
      BY <2>5 DEF ReadyFits
    <3>1. PICK d \in Started(auditor.msgid) :
              \A r \in auditor.ready : \A b \in Block : Line(r, d, b) \in Stored(r)
      BY DEF ShareIInv, ReadyFits
    <3>2. auditor.ready \in SUBSET Receiver
      BY <1>0 DEF AuditRecord
    <3>3. \A r \in auditor'.ready : \A b \in Block : Line(r, d, b) \in Stored(r)'
      BY <3>1, <3>2, <2>5, <2>6
    <3> QED
      BY <3>1, <3>3, <2>5, <2>9 DEF ReadyFits
  <2>11. SecretFits'
    <3>1. D \in DOMAIN msgOf'
      <4>1. msgOf \in Seq(MsgId) /\ tumbler.deal <= Len(msgOf) /\ tumbler.deal \in Nat
        BY ShareAuditAssumption DEF ShareIInv, ShareTypeOK, TumblerRecord
      <4> QED
        BY <4>1, <1>1, LenProperties
    <3>2. msgOf'[D] = auditor'.msgid
      BY <1>1, <2>5
    <3> QED
      BY <3>1, <3>2, <2>1, <2>5 DEF SecretFits, ReconstructionIsADeal
  <2>12. AuditSucceedsWhenItCan'
    <3>1. Entitled(auditor)' => Entitled(auditor)
      BY <2>5, <2>9 DEF Entitled, Willing
    <3>2. D \in Started(auditor.msgid)'
      BY <1>1, <2>9 DEF Started, ShareIInv, ShareTypeOK, TumblerRecord
    <3>3. Entitled(auditor)' => auditor'.secret \in {Whole(d) : d \in Started(auditor.msgid)'}
      BY <3>1, <3>2, <1>6, <2>2, <2>5
    <3> QED
      BY <3>3, <2>5 DEF AuditSucceedsWhenItCan, Entitled, Willing, Started
  <2> QED
    BY <2>6, <2>7, <2>8, <2>10, <2>11, <2>12 DEF ShareIInv
<1> QED
  BY <1>4, <1>7, <1>8
\* The auditor checks a share and, after the last one, reconstructs.
LEMMA VerifyShareStep ==
    ASSUME ShareIInv, VerifyShare
    PROVE  ShareIInv'
<1> DEFINE D == commitments[auditor.msgid]
           n == auditor.next + 1
           ok == Verified(auditor.shares[auditor.next], D)
<1>1. /\ UNCHANGED <<msgOf, commitments, files, up, inbox, tumbler>>
      /\ auditor.pc = "verify"
      /\ auditor' =
            CASE D = NoDeal -> Ends(auditor, "failed")
              [] D # NoDeal /\ auditor.null -> Ends(auditor, "crashed")
              [] OTHER ->
                   IF ~ok
                   THEN Ends(auditor, "failed")
                   ELSE IF auditor.next < Len(auditor.shares)
                   THEN [auditor EXCEPT !.next = @ + 1]
                   ELSE Reconstruct(auditor)
  BY DEF VerifyShare
<1>0. /\ auditor \in AuditRecord /\ auditor.shares \in Seq(Share) /\ auditor.msgid \in MsgId
      /\ DOMAIN auditor.shares = 1 .. Len(auditor.shares) /\ Len(auditor.shares) \in Nat
      /\ auditor.next \in Nat \ {0} /\ auditor.next <= Len(auditor.shares)
      /\ up' \in SUBSET Receiver /\ inbox' \subseteq inbox
  BY <1>1, LenProperties DEF ShareIInv, ShareTypeOK, AuditRecord, VerificationFits
<1>2. auditor.shares[auditor.next] \in Range(auditor.shares) /\ auditor.next \in DOMAIN auditor.shares
  BY <1>0 DEF Range
<1>3. {"failed", "crashed"} \subseteq Verdict /\ "failed" # "secret" /\ "crashed" # "secret"
  BY DEF Verdict
<1>4. ASSUME Entitled(auditor)
      PROVE  D # NoDeal /\ ~auditor.null /\ ok
  <2>1. PICK d \in Nat \ {0} :
            D = d /\ ~auditor.null /\ \A l \in Range(auditor.shares) : l.deal = d
    BY <1>1, <1>4, EntitledVerifies
  <2> QED
    BY <2>1, <1>2, ShareAuditAssumption DEF Verified
<1>5. ok => auditor.shares[auditor.next].deal = D
  BY DEF Verified
<1> HIDE DEF D, ok
<1>6. CASE D = NoDeal
  <2>1. auditor' = Ends(auditor, "failed") /\ ~Entitled(auditor)
    BY <1>1, <1>4, <1>6
  <2> QED
    BY <1>0, <1>1, <1>3, <2>1, AuditEnds
<1>7. CASE D # NoDeal /\ auditor.null
  <2>1. auditor' = Ends(auditor, "crashed") /\ ~Entitled(auditor)
    BY <1>1, <1>4, <1>7
  <2> QED
    BY <1>0, <1>1, <1>3, <2>1, AuditEnds
<1>8. CASE D # NoDeal /\ ~auditor.null /\ ~ok
  <2>1. auditor' = Ends(auditor, "failed") /\ ~Entitled(auditor)
    BY <1>1, <1>4, <1>8
  <2> QED
    BY <1>0, <1>1, <1>3, <2>1, AuditEnds
<1>9. CASE D # NoDeal /\ ~auditor.null /\ ok /\ ~(auditor.next < Len(auditor.shares))
  <2>1. auditor' = Reconstruct(auditor) /\ auditor.next = Len(auditor.shares)
    BY <1>0, <1>1, <1>9
  <2> QED
    BY <1>1, <1>5, <1>9, <2>1, ReconstructStep DEF D
<1>10. CASE D # NoDeal /\ ~auditor.null /\ ok /\ auditor.next < Len(auditor.shares)
  <2>1. auditor' = [auditor EXCEPT !.next = n]
    BY <1>0, <1>1, <1>10 DEF AuditRecord
  <2>2. n \in Nat \ {0} /\ n <= Len(auditor.shares) /\ n > 1 /\ n - 1 = auditor.next
    BY <1>0, <1>10
  <2> HIDE DEF n
  <2>3. /\ auditor' \in AuditRecord /\ auditor'.pc = "verify" /\ auditor'.next = n
        /\ auditor'.msgid = auditor.msgid /\ auditor'.ready = auditor.ready
        /\ auditor'.replies = auditor.replies /\ auditor'.shares = auditor.shares
        /\ auditor'.null = auditor.null /\ auditor'.verdict = auditor.verdict
        /\ auditor'.from = auditor.from
    BY <1>0, <1>1, <2>1, <2>2 DEF AuditRecord
  <2>4. /\ ShareTypeOK' /\ CommitmentsFit' /\ FilesFit'
        /\ \A r \in Receiver : Stored(r)' = Stored(r)
        /\ \A m \in MsgId : Started(m)' = Started(m)
    BY <1>0, <1>1, <2>3, QuietRest
  <2>5. SharesFit'
    <3>1. \A l \in Range(auditor.shares) : l.x \in Receiver
      <4>1. Range(auditor.shares) \in SUBSET Share
        BY <1>0, RangeOfSeq
      <4> QED
        BY <4>1, ShareIsLine
    <3> QED
      BY <3>1, <1>1, <2>3, <2>4 DEF ShareIInv, SharesFit
  <2>6. VerificationFits'
    <3>1. auditor.shares[1].deal = D /\ auditor.shares[auditor.next].deal = D
      <4>1. auditor.shares[auditor.next].deal = D
        BY <1>5, <1>10
      <4>2. CASE auditor.next = 1
        BY <4>1, <4>2
      <4>3. CASE auditor.next # 1
        <5>1. auditor.next > 1
          BY <4>3, <1>0
        <5> QED
          BY <4>1, <5>1, <1>1, <1>2 DEF ShareIInv, VerificationFits, D
      <4> QED
        BY <4>1, <4>2, <4>3
    <3>2. \A i \in 1 .. (n - 1) : auditor.shares[i].deal = auditor.shares[1].deal
      <4> TAKE i \in 1 .. (n - 1)
      <4>1. i = auditor.next \/ i \in 1 .. (auditor.next - 1)
        BY <2>2, <1>0
      <4> QED
        BY <4>1, <3>1, <1>1 DEF ShareIInv, VerificationFits
    <3>3. commitments'[auditor'.msgid] = D
      BY <1>1, <2>3 DEF D
    <3> QED
      BY <3>1, <3>2, <3>3, <2>2, <2>3 DEF VerificationFits
  <2>7. NullFits'
    BY <1>10, <2>3 DEF NullFits
  <2>8. ReadyFits'
    <3> SUFFICES ASSUME auditor.ready # {} PROVE ReadyFits'
      BY <2>3 DEF ReadyFits
    <3>1. PICK d \in Started(auditor.msgid) :
            /\ \A r \in auditor.ready : \A b \in Block : Line(r, d, b) \in Stored(r)
            /\ Started(auditor.msgid) = {d} => commitments[auditor.msgid] = d
            /\ ~auditor.null /\ Started(auditor.msgid) = {d} =>
                \A r \in auditor.ready : auditor.replies[r] = "shares" =>
                    \A b \in Block : Line(r, d, b) \in Range(auditor.shares)
      BY <1>1 DEF ShareIInv, ReadyFits
    <3>2. Started(auditor.msgid)' = Started(auditor.msgid)
      BY <1>0, <2>3, <2>4 DEF Started
    <3>3. auditor.ready \in SUBSET Receiver
      BY <1>0 DEF AuditRecord
    <3>4. \A r \in auditor'.ready : \A b \in Block : Line(r, d, b) \in Stored(r)'
      BY <3>1, <3>3, <2>3, <2>4
    <3> QED
      BY <3>1, <3>2, <3>4, <1>1, <2>3 DEF ReadyFits
  <2>9. SecretFits' /\ AuditSucceedsWhenItCan'
    <3>1. auditor.verdict # "secret"
      BY <1>1 DEF ShareIInv, SecretFits
    <3> QED
      BY <3>1, <2>3 DEF SecretFits, ReconstructionIsADeal, AuditSucceedsWhenItCan
  <2> QED
    BY <2>4, <2>5, <2>6, <2>7, <2>8, <2>9 DEF ShareIInv
<1> QED
  BY <1>6, <1>7, <1>8, <1>9, <1>10

-----------------------------------------------------------------------------
(* The theorems.                                                           *)

\* The invariant holds before the first deal.
LEMMA InitShare ==
    ASSUME ShareInit
    PROVE  ShareIInv
<1> DEFINE a == NewAudit(msgOf[1], {})
<1>0. msgOf \in MsgOfs /\ msgOf \in Seq(MsgId) /\ msgOf[1] \in MsgId /\ Len(msgOf) \in Nat
  <2>1. msgOf \in MsgOfs /\ msgOf \in Seq(MsgId) /\ msgOf # <<>>
    BY ShareAuditAssumption DEF ShareInit
  <2>2. Len(msgOf) \in Nat /\ Len(msgOf) # 0
    BY <2>1, LenProperties, EmptySeq
  <2>3. 1 \in 1 .. Len(msgOf)
    BY <2>2
  <2> QED
    BY <2>1, <2>2, <2>3, ElementOfSeq
<1>1. /\ a \in AuditRecord /\ a.verdict = "pending" /\ a.ready = {}
      /\ a.shares = <<>> /\ a.null = FALSE
  <2>1. PICK R \in SUBSET Receiver, m \in MsgId : R = {} /\ m = msgOf[1]
    BY <1>0
  <2>2. a = NewAudit(m, R)
    BY <2>1
  <2> HIDE DEF a
  <2>3. /\ a \in AuditRecord /\ a.verdict = "pending" /\ a.ready = R
        /\ a.shares = <<>> /\ a.null = FALSE
    BY <2>2, NewAuditFields, ZenonT(60)
  <2> QED
    BY <2>1, <2>3
<1>2. auditor = [a EXCEPT !.pc = "idle"]
  BY DEF ShareInit
<1> HIDE DEF a
<1>3. /\ auditor \in AuditRecord /\ auditor.pc = "idle" /\ auditor.verdict = "pending"
      /\ auditor.ready = {} /\ auditor.shares = <<>> /\ auditor.null = FALSE
  BY <1>1, <1>2 DEF AuditRecord
<1>4. tumbler \in TumblerRecord /\ tumbler.deal = 0 /\ tumbler.pc = "idle"
  <2>1. PICK one \in Receiver, zero \in Nat : one = 1 /\ zero = 0
    BY ConstantFacts
  <2>2. tumbler = [pc |-> "idle", deal |-> zero, to |-> one]
    BY <2>1 DEF ShareInit, Idle
  <2> QED
    BY <2>1, <2>2 DEF TumblerRecord
<1>5. PICK f \in {NoFile, <<>>} : files = [r \in Receiver |-> f]
  BY DEF ShareInit
<1>6. DOMAIN <<>> = {} /\ <<>> \in Seq(Share)
  BY EmptySeq
<1>7. f \in Seq(Share) \cup {NoFile}
  BY <1>6
<1>8. \A r \in Receiver : files[r] = f
  BY <1>5
<1>9. f # NoFile => f = <<>>
  OBVIOUS
<1>10. files \in [Receiver -> Seq(Share) \cup {NoFile}]
  <2> HIDE DEF NoFile
  <2> QED
    BY <1>5, <1>7
<1>11. \A r \in Receiver : Stored(r) = {}
  BY <1>6, <1>8, <1>9 DEF Stored, Range
<1>12. up = Receiver /\ inbox = {}
  BY DEF ShareInit
<1>13. ShareTypeOK
  BY <1>0, <1>3, <1>4, <1>10, <1>12 DEF ShareTypeOK
<1>14. CommitmentsFit
  BY DEF ShareInit, CommitmentsFit
<1>15. FilesFit
  <2>1. IsInjective(<<>>)
    BY <1>6 DEF IsInjective
  <2> QED
    BY <2>1, <1>8, <1>9, <1>11, <1>12 DEF FilesFit
<1>16. SharesFit
  <2>1. Range(auditor.shares) = {} /\ IsInjective(auditor.shares)
    BY <1>3, <1>6 DEF Range, IsInjective
  <2> QED
    BY <2>1 DEF SharesFit
<1>17. VerificationFits /\ NullFits /\ ReadyFits /\ SecretFits /\ AuditSucceedsWhenItCan
  BY <1>3 DEF VerificationFits, NullFits, ReadyFits, SecretFits, ReconstructionIsADeal,
              AuditSucceedsWhenItCan
<1> QED
  BY <1>13, <1>14, <1>15, <1>16, <1>17 DEF ShareIInv

\* A step that leaves deals, files and audit alone keeps the invariant.
LEMMA StutterShare ==
    ASSUME ShareIInv, UNCHANGED vars
    PROVE  ShareIInv'
<1>1. /\ UNCHANGED <<msgOf, commitments, files, auditor, tumbler>>
      /\ up' \in SUBSET Receiver /\ inbox' \subseteq inbox
      /\ tumbler' \in TumblerRecord /\ tumbler'.deal = tumbler.deal
      /\ tumbler'.pc # "idle" => tumbler.deal # 0
  BY DEF vars, ShareIInv, ShareTypeOK
<1>2. \A p \in Receiver : \A d \in Nat : Unsent(p, d)' => Unsent(p, d)
  BY <1>1 DEF Unsent
<1> QED
  BY <1>1, <1>2, SameDeal

\* The invariant is inductive: the tumbler deals, receivers store, crash and
\* restart, and the auditor collects and verifies in any order.
THEOREM ShareInvariant == ShareSpec => []ShareIInv
<1>1. ShareInit => ShareIInv
  BY InitShare
<1>2. ShareIInv /\ [ShareNext]_vars => ShareIInv'
  <2> SUFFICES ASSUME ShareIInv, [ShareNext]_vars PROVE ShareIInv'
    OBVIOUS
  <2>1. CASE OpenCommitment
    BY <2>1, OpenCommitmentStep
  <2>2. CASE WriteCommitment
    BY <2>2, WriteCommitmentStep
  <2>3. CASE SendShares
    BY <2>3, SendSharesStep
  <2>4. CASE GiveUp \/ DestroyContext \/ TumblerDies
    BY <2>4, TumblerStep
  <2>5. ASSUME NEW r \in Receiver, StoreShares(r) PROVE ShareIInv'
    BY <2>5, StoreSharesStep
  <2>6. ASSUME NEW r \in Receiver, AnswerAudit(r) PROVE ShareIInv'
    BY <2>6, AnswerAuditStep
  <2>7. ASSUME NEW r \in Receiver, ReceiverCrashes(r) \/ ReceiverRestarts(r) PROVE ShareIInv'
    BY <2>7, ReceiverStep
  <2>8. ASSUME NEW m \in MsgId, BeginAudit(m) PROVE ShareIInv'
    BY <2>8, BeginAuditStep
  <2>9. CASE VerifyShare
    BY <2>9, VerifyShareStep
  <2>10. CASE UNCHANGED vars
    BY <2>10, StutterShare
  <2> QED
    BY <2>1, <2>2, <2>3, <2>4, <2>5, <2>6, <2>7, <2>8, <2>9, <2>10 DEF ShareNext, TumblerNext
<1>3. ShareSpec => ShareInit /\ [][ShareNext]_vars
  BY PTL DEF ShareSpec
<1> QED
  BY <1>1, <1>2, <1>3, PTL

\* All blocks of a reconstructed secret are of one deal of its message id, each
\* in its place but the last that arrived, which stands at the end behind zeros:
\* fetch_shares_by_msgid never mixes deals, although it loads the commitment anew
\* for every share and save_vss_commitment_to_file rewrites it.
THEOREM NothingElseIsReconstructed == ShareSpec => []ReconstructionIsADeal
<1>1. ShareIInv => ReconstructionIsADeal
  BY DEF ShareIInv, SecretFits
<1> QED
  BY <1>1, ShareInvariant, PTL

\* An audit for which THRESHOLD receivers held and gave out the only deal of
\* the id ends with the whole secret, whatever the other receivers have lost.
THEOREM ThresholdIsEnough == ShareSpec => []AuditSucceedsWhenItCan
<1>1. ShareIInv => AuditSucceedsWhenItCan
  BY DEF ShareIInv
<1> QED
  BY <1>1, ShareInvariant, PTL
=============================================================================
