-------------------------------- MODULE Feed --------------------------------
(***************************************************************************)
(* The marketplace feed (examples/marketplace/feed) and the run ledger it  *)
(* keeps (packages/agent-runtime/src/ledger).  A poll fetches the session's*)
(* messages, folds them into rounds and writes each round to disk, a record*)
(* and the messages it was folded from; with the coral server down it folds*)
(* what is on disk.  Polls overlap while they fetch, writing is never      *)
(* interrupted but by a crash.  A round's record is what sellers are rated *)
(* by (ledger/reputation.ts).                                              *)
(***************************************************************************)
EXTENDS Integers, Sequences, FiniteSets

CONSTANTS Sellers, Prices,
          Polls,        \* requests of /api/feed that may be under way at once
          MaxRound, MaxMessages, MaxBids, MaxCrashes, \* bounds
          None,         \* not there (yet)
          Torn          \* a file that was being written when the feed crashed

ASSUME FeedAssumption ==
    /\ MaxRound \in Nat /\ MaxMessages \in Nat
    /\ None # Torn /\ None \notin Nat /\ Torn \notin Nat
    /\ None \notin Sellers /\ None \notin {"pass", "fail"}

VARIABLES transcript,   \* the session's messages, in order
          fetched,      \* fetched[p]: the number of messages poll p was answered
          record,       \* record[n]: run.json of round n, and
          lines,        \* lines[n]: its transcript.jsonl, each given by the number of
                        \* messages it was written from (or None, Torn)
          crashes,
          persisted     \* history: what the last poll that was written had fetched

vars == <<transcript, fetched, record, lines, crashes, persisted>>

Rounds == 1..MaxRound
-----------------------------------------------------------------------------
(* foldRounds. *)

NewRound == [want |-> FALSE, bids |-> <<>>, award |-> None, escrow |-> FALSE,
             deposit |-> FALSE, delivered |-> FALSE, verdict |-> None,
             release |-> FALSE, status |-> "bidding"]

RoundRecords ==
    [want : BOOLEAN, bids : Seq([by : Sellers, price : Prices]), award : Sellers \cup {None},
     escrow : BOOLEAN, deposit : BOOLEAN, delivered : BOOLEAN,
     verdict : {"pass", "fail", None}, release : BOOLEAN,
     status : {"bidding", "awarded", "deposited", "delivered", "settled"}]

ASSUME NoRoundAssumption == None \notin RoundRecords

\* What the buyer says of a release on the arbiter rail, and on the direct one.
Releases == {"ARBITER_RELEASED", "RELEASED"}

\* A round that was settled stays settled, whatever is said of it later.
Unsettled(r, status) == IF r.status = "settled" THEN r.status ELSE status

\* Mutant: the message of the arbiter rail is not known.
ToldDirect(r, m) ==
    IF m.verb = "RELEASED" THEN [r EXCEPT !.release = TRUE, !.status = "settled"]
    ELSE IF m.verb = "DELIVERED" THEN [r EXCEPT !.delivered = TRUE, !.status = "delivered"]
    ELSE IF m.verb = "DEPOSITED" THEN [r EXCEPT !.deposit = TRUE, !.status = "deposited"]
    ELSE IF m.verb = "AWARD" THEN [r EXCEPT !.award = m.to, !.status = "awarded"]
    ELSE r

\* What one message makes of its round; of a seller the first bid is kept.
Told(r, m) ==
    CASE m.verb = "WANT" -> [r EXCEPT !.want = TRUE]
      [] m.verb = "BID" ->
           IF \E i \in DOMAIN r.bids : r.bids[i].by = m.by THEN r
           ELSE [r EXCEPT !.bids = Append(@, [by |-> m.by, price |-> m.price])]
      [] m.verb = "AWARD" ->
           [r EXCEPT !.award = m.to,
                     !.status = IF @ = "bidding" THEN "awarded" ELSE @]
      [] m.verb = "ESCROW_REQUIRED" -> [r EXCEPT !.escrow = TRUE]
      [] m.verb = "DEPOSITED" ->
           [r EXCEPT !.deposit = TRUE, !.status = Unsettled(r, "deposited")]
      [] m.verb = "DELIVERED" ->
           [r EXCEPT !.delivered = TRUE, !.status = Unsettled(r, "delivered")]
      [] m.verb = "VERIFIED" -> [r EXCEPT !.verdict = m.verdict]
      [] m.verb \in Releases -> [r EXCEPT !.release = TRUE, !.status = "settled"]

\* The rounds the messages speak of; None is a round that is not among them.
Fold(messages) ==
    LET rounds[i \in 0..Len(messages)] ==
          IF i = 0 THEN [n \in Rounds |-> None]
          ELSE LET m == messages[i]
               IN  [rounds[i - 1] EXCEPT ![m.round] = Told(IF @ = None THEN NewRound ELSE @, m)]
    IN  rounds[Len(messages)]

\* The sellers that sat the round out, once its bidding has closed.
Declined(r) == IF r.status = "bidding" THEN {}
               ELSE Sellers \ {r.bids[i].by : i \in DOMAIN r.bids}
-----------------------------------------------------------------------------
(* The ledger. *)

\* toRunRecord: a deposit is noted with the escrow's terms, and as a transaction.
RunRecord(r) ==
    [status |-> r.status, bids |-> r.bids, declined |-> Declined(r), award |-> r.award,
     escrow |-> r.escrow, delivery |-> r.delivered, verdict |-> r.verdict,
     txs |-> (IF r.deposit THEN {"deposit"} ELSE {}) \cup (IF r.release THEN {"release"} ELSE {})]

\* Mutant: verdicts are left out of a round's messages.
WithoutVerdicts(messages, n) ==
    SelectSeq(messages, LAMBDA m : m.round = n /\ m.verb # "VERIFIED")

\* The messages of a round, in order.
RoundTranscript(messages, n) ==
    LET kept[i \in 0..Len(messages)] ==
          IF i = 0 THEN <<>>
          ELSE IF messages[i].round = n THEN Append(kept[i - 1], messages[i]) ELSE kept[i - 1]
    IN  kept[Len(messages)]

\* What the files of a round hold.
RecordOf(n) == RunRecord(Fold(SubSeq(transcript, 1, record[n]))[n])
LinesOf(n) == RoundTranscript(SubSeq(transcript, 1, lines[n]), n)

OnDisk == {n \in Rounds : record[n] # None}

\* Reading one torn file fails the reading of them all.
Readable == \A n \in OnDisk : record[n] # Torn /\ lines[n] # Torn

\* replaySession: the messages on disk, round after round, folded again.
Replay ==
    LET messages[n \in 0..MaxRound] ==
          IF n = 0 THEN <<>>
          ELSE messages[n - 1] \o (IF n \notin OnDisk \/ lines[n] = None THEN <<>> ELSE LinesOf(n))
    IN  Fold(messages[MaxRound])

\* reputation: what the ledger says of the rounds a seller won.
Won(s) == {n \in OnDisk : RecordOf(n).award = s}

Awarded(s) == Cardinality(Won(s))
Delivered(s) == Cardinality({n \in Won(s) : RecordOf(n).delivery})
SettledRounds(s) == Cardinality({n \in Won(s) : "release" \in RecordOf(n).txs})

\* Mutant: a round without a verdict counts as failed.
NotPassed(s) == Cardinality({n \in Won(s) : RecordOf(n).verdict # "pass"})

Failed(s) == Cardinality({n \in Won(s) : RecordOf(n).verdict = "fail"})

\* Math.round(100 * (0.6 settled/awarded + 0.3 delivered/awarded + 0.1 clean)), with
\* clean = 1 - failed/max(1, delivered).
Score(s) ==
    LET a == Awarded(s)
        d == IF Delivered(s) = 0 THEN 1 ELSE Delivered(s)
        num == (60 * SettledRounds(s) + 30 * Delivered(s)) * d + 10 * (d - Failed(s)) * a
    IN  (2 * num + a * d) \div (2 * a * d)
-----------------------------------------------------------------------------
(* The session: who may say what next.  The buyer speaks of its present round, the
   sellers and the verifier may be late. *)

Said(n, v) == \E i \in DOMAIN transcript : transcript[i].round = n /\ transcript[i].verb = v
Present == Cardinality({n \in Rounds : Said(n, "WANT")})

Say(m) == transcript' = Append(transcript, m)

BuyerSays ==
    \/ Present < MaxRound /\ Say([verb |-> "WANT", round |-> Present + 1])
    \/ LET n == Present IN
         /\ n > 0
         /\ \/ /\ ~Said(n, "AWARD")
               /\ \E i \in DOMAIN transcript :
                     /\ transcript[i].verb = "BID" /\ transcript[i].round = n
                     /\ Say([verb |-> "AWARD", round |-> n, to |-> transcript[i].by])
            \/ /\ Said(n, "ESCROW_REQUIRED") /\ ~Said(n, "DEPOSITED")
               /\ Say([verb |-> "DEPOSITED", round |-> n])
            \/ /\ \A v \in Releases : ~Said(n, v)
               /\ \E i \in DOMAIN transcript :
                     transcript[i] = [verb |-> "VERIFIED", round |-> n, verdict |-> "pass"]
               /\ \E v \in Releases : Say([verb |-> v, round |-> n])

\* A seller may bid again, for a WANT it is shown again (MaxBids times in all).
OthersSay ==
    \E n \in 1..Present :
       \/ \E s \in Sellers, p \in Prices :
             /\ Cardinality({i \in DOMAIN transcript :
                               /\ transcript[i].verb = "BID"
                               /\ transcript[i].round = n /\ transcript[i].by = s}) < MaxBids
             /\ Say([verb |-> "BID", round |-> n, by |-> s, price |-> p])
       \/ /\ Said(n, "AWARD") /\ ~Said(n, "ESCROW_REQUIRED")
          /\ Say([verb |-> "ESCROW_REQUIRED", round |-> n])
       \/ /\ Said(n, "DEPOSITED") /\ ~Said(n, "DELIVERED")
          /\ Say([verb |-> "DELIVERED", round |-> n])
       \/ /\ Said(n, "DELIVERED") /\ ~Said(n, "VERIFIED")
          /\ \E v \in {"pass", "fail"} :
                Say([verb |-> "VERIFIED", round |-> n, verdict |-> v])

SessionGoesOn == /\ Len(transcript) < MaxMessages
                 /\ BuyerSays \/ OthersSay
                 /\ UNCHANGED <<fetched, record, lines, crashes, persisted>>
-----------------------------------------------------------------------------
(* The feed. *)

Init ==
    /\ transcript = <<>>
    /\ fetched = [p \in Polls |-> None]
    /\ record = [n \in Rounds |-> None] /\ lines = [n \in Rounds |-> None]
    /\ crashes = 0 /\ persisted = None

\* The coral server answers a poll with the messages there are by then.
Fetch(p) ==
    /\ fetched[p] = None
    /\ fetched' = [fetched EXCEPT ![p] = Len(transcript)]
    /\ UNCHANGED <<transcript, record, lines, crashes, persisted>>

\* The last of the first k messages that is about round n; None if there is none.
LastOf(n, k) ==
    LET ms == {i \in 1..k : transcript[i].round = n}
    IN  IF ms = {} THEN None ELSE CHOOSE i \in ms : \A j \in ms : j <= i

\* The rounds of the first k messages are written, one file after the other: of each
\* the record, then the lines.  Of the files f are done; the next one, of round
\* f \div 2 + 1, is left as r or l.
WriteRuns(k, f, r, l) ==
    LET File(n, place, old, broken) ==
          IF LastOf(n, k) = None THEN old
          ELSE IF place < f THEN LastOf(n, k) ELSE IF place = f THEN broken ELSE old
    IN  /\ record' = [n \in Rounds |-> File(n, 2 * n - 2, record[n], r)]
        /\ lines' = [n \in Rounds |-> File(n, 2 * n - 1, lines[n], l)]

\* Mutant: a run that is on disk is not written again.
PersistOnce(p) ==
    /\ fetched[p] # None
    /\ IF OnDisk # {} THEN UNCHANGED <<record, lines>>
       ELSE WriteRuns(fetched[p], 2 * MaxRound, None, None)
    /\ fetched' = [fetched EXCEPT ![p] = None]
    /\ persisted' = fetched[p]
    /\ UNCHANGED <<transcript, crashes>>

\* The answer is handled: folded, shown, and every round of it written.
Persist(p) ==
    /\ fetched[p] # None
    /\ WriteRuns(fetched[p], 2 * MaxRound, None, None)
    /\ fetched' = [fetched EXCEPT ![p] = None]
    /\ persisted' = fetched[p]
    /\ UNCHANGED <<transcript, crashes>>

\* The feed crashes, maybe while it writes, and is started again.  The file it was
\* at is as it was, or empty, or holds half a line: without JSON, in each case, if
\* it was a record that was touched.
Crash ==
    /\ crashes < MaxCrashes /\ crashes' = crashes + 1
    /\ fetched' = [p \in Polls |-> None]
    /\ \/ UNCHANGED <<record, lines, persisted>>
       \/ \E p \in Polls, f \in 0..(2 * MaxRound - 1) :
             LET n == f \div 2 + 1 IN
             /\ fetched[p] # None
             /\ \/ f = 2 * n - 2 /\ \E r \in {record[n], Torn} :
                                       WriteRuns(fetched[p], f, r, None)
                \/ f = 2 * n - 1 /\ \E l \in {lines[n], 0, Torn} :
                                       WriteRuns(fetched[p], f, None, l)
             /\ persisted' = None
    /\ UNCHANGED transcript

Next == SessionGoesOn \/ Crash \/ \E p \in Polls : Fetch(p) \/ Persist(p)

\* The dashboard keeps polling, and some poll or other is answered.
Spec == Init /\ [][Next]_vars /\ WF_vars(\E p \in Polls : Fetch(p) \/ Persist(p))
-----------------------------------------------------------------------------
TypeOK ==
    /\ \A p \in Polls : fetched[p] \in 0..Len(transcript) \cup {None}
    /\ \A n \in Rounds : {record[n], lines[n]} \subseteq 0..Len(transcript) \cup {None, Torn}
    /\ persisted \in 0..Len(transcript) \cup {None}

\* The stages of a round, the furthest first.
Stages == <<[verbs |-> Releases, status |-> "settled"],
            [verbs |-> {"DELIVERED"}, status |-> "delivered"],
            [verbs |-> {"DEPOSITED"}, status |-> "deposited"],
            [verbs |-> {"AWARD"}, status |-> "awarded"],
            [verbs |-> {"WANT"}, status |-> "bidding"]>>

Reached(n) == {i \in 1..5 : \E v \in Stages[i].verbs : Said(n, v)}

\* The status a round is shown with is the furthest stage it has reached, however
\* late bids, deliveries and verdicts of it come, and rounds do not mix.
StatusIsFurthestStage ==
    \A n \in 1..Present :
        \E i \in Reached(n) : /\ \A j \in Reached(n) : i <= j
                              /\ Fold(transcript)[n].status = Stages[i].status

\* persist.ts:6-7, "a finished market round renders identically with coral-server
\* down": what was last written and not torn since reads back as what was shown, and
\* the record, by which sellers are rated, says what the replay shows.
ReplaysAsShown ==
    persisted # None =>
       LET shown == Fold(SubSeq(transcript, 1, persisted)) IN
       \A n \in Rounds : shown[n] # None =>
          /\ RecordOf(n) = RunRecord(shown[n])
          /\ Readable => Replay[n] = shown[n]

\* A rating is a number from 0 to 100, and 100 only for a seller that delivered and
\* was paid for every round it won (of 120 and more, all but one in 120: 99.5 is
\* rounded up), whatever moment a crash or a poll left on disk.
RatingSound ==
    Readable => \A s \in Sellers : Won(s) # {} =>
        /\ Score(s) \in 0..100
        /\ SettledRounds(s) <= Delivered(s) /\ Delivered(s) <= Awarded(s)
        /\ Score(s) = 100 => 120 * (Awarded(s) - SettledRounds(s)) <= Awarded(s)

\* Whatever overlapping polls and crashes left behind, the ledger catches up with the
\* session in the end: every file of it is whole and written from all that was said.
LedgerCatchesUp ==
    <>[](\A n \in Rounds : {record[n], lines[n]} = {LastOf(n, Len(transcript))})
=============================================================================
