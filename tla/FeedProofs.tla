----------------------------- MODULE FeedProofs -----------------------------
(***************************************************************************)
(* What the marketplace feed shows of a session and what its ledger rates, *)
(* for any sellers, prices, polls, crashes and numbers of rounds.          *)
(***************************************************************************)
EXTENDS Feed, FiniteSetTheorems, SequenceTheorems, WellFoundedInduction, TLAPS

\* A set of numbers that holds 0, and the next of each it holds, holds them all: of those
\* it lacks one would be the least.
LEMMA NatSet ==
    ASSUME NEW G, 0 \in G, \A k \in Nat : k \in G => k + 1 \in G
    PROVE  \A k \in Nat : k \in G
<1> DEFINE Bad == {k \in Nat : k \notin G}
<1> SUFFICES ASSUME Bad # {} PROVE FALSE
  OBVIOUS
<1>1. Bad \subseteq Nat
  OBVIOUS
<1>2. PICK k \in Bad : \A l \in Bad : ~(<<l, k>> \in OpToRel(<, Nat))
  <2> HIDE DEF Bad
  <2> QED BY <1>1, NatLessThanWellFounded, WFMin
<1>3. k \in Nat /\ k \notin G /\ k # 0
  BY <1>2
<1>4. k - 1 \in Nat /\ k - 1 < k
  BY <1>3
<1>5. k - 1 \in Bad
  <2>1. k - 1 \in G => k \in G
    BY <1>3, <1>4
  <2> QED BY <1>3, <1>4, <2>1
<1> HIDE DEF Bad
<1> QED BY <1>2, <1>3, <1>4, <1>5 DEF OpToRel

\* The same for sequences: a set that holds the empty one, and each that is one longer
\* than one it holds, holds them all.
LEMMA SeqSet ==
    ASSUME NEW M, NEW G, <<>> \in G,
           \A ms \in Seq(M), m \in M : ms \in G => Append(ms, m) \in G
    PROVE  \A ms \in Seq(M) : ms \in G
<1> DEFINE H == {k \in Nat : \A ms \in Seq(M) : Len(ms) = k => ms \in G}
<1>1. 0 \in H
  BY EmptySeq
<1>2. ASSUME NEW k \in Nat, k \in H PROVE k + 1 \in H
  <2> SUFFICES ASSUME NEW ms \in Seq(M), Len(ms) = k + 1 PROVE ms \in G
    OBVIOUS
  <2> DEFINE front == SubSeq(ms, 1, k)
  <2>1. /\ front \in Seq(M) /\ Len(front) = k
        /\ ms[k + 1] \in M /\ ms = Append(front, ms[k + 1])
    <3>1. front \in Seq(M) /\ Len(front) = k /\ \A i \in 1..k : front[i] = ms[i]
      OBVIOUS
    <3>2. ms[k + 1] \in M
      BY ElementOfSeq
    <3> HIDE DEF front
    <3>3. Append(front, ms[k + 1]) \in Seq(M) /\ Len(Append(front, ms[k + 1])) = k + 1
      BY <3>1, <3>2
    <3>4. \A i \in 1..(k + 1) : Append(front, ms[k + 1])[i] = ms[i]
      BY <3>1, <3>2
    <3> QED BY <3>1, <3>2, <3>3, <3>4, SeqEqual
  <2>2. front \in G
    BY <1>2, <2>1
  <2> HIDE DEF front
  <2> QED BY <2>1, <2>2
<1> HIDE DEF H
<1>3. \A k \in Nat : k \in H
  BY <1>1, <1>2, NatSet
<1>4. \A ms \in Seq(M) : Len(ms) \in Nat
  OBVIOUS
<1> QED BY <1>3, <1>4 DEF H
-----------------------------------------------------------------------------
(* Folding messages. *)

\* What one message makes of the rounds.
Heard(rounds, m) == [rounds EXCEPT ![m.round] = Told(IF @ = None THEN NewRound ELSE @, m)]

NoRounds == [n \in Rounds |-> None]

\* One turn of the recursion behind Fold.
FoldTurn(ms, f) == [i \in 0..Len(ms) |-> IF i = 0 THEN NoRounds ELSE Heard(f[i - 1], ms[i])]

\* The recursion has a solution: it has one up to any number of messages.
LEMMA FoldFixed == ASSUME NEW ms, Len(ms) \in Nat PROVE \E f : f = FoldTurn(ms, f)
<1> DEFINE Body(f, i) == IF i = 0 THEN NoRounds ELSE Heard(f[i - 1], ms[i])
           Solved(k) == \E f : f = [i \in 0..k |-> Body(f, i)]
           G == {k \in Nat : Solved(k)}
<1>1. 0 \in G
  <2> DEFINE f == [i \in 0..0 |-> NoRounds]
  <2>1. f = [i \in 0..0 |-> Body(f, i)]
    OBVIOUS
  <2> QED BY <2>1
<1>2. ASSUME NEW k \in Nat, k \in G PROVE k + 1 \in G
  <2>1. PICK f : f = [i \in 0..k |-> Body(f, i)]
    BY <1>2
  <2> DEFINE g == [i \in 0..(k + 1) |-> Body(f, i)]
  <2>2. ASSUME NEW i \in 0..(k + 1) PROVE g[i] = Body(g, i)
    <3>1. CASE i = 0
      BY <3>1
    <3>2. CASE i # 0
      <4>1. i - 1 \in 0..k /\ i - 1 \in 0..(k + 1)
        BY <3>2
      <4>2. f[i - 1] = Body(f, i - 1) /\ g[i - 1] = Body(f, i - 1)
        <5> HIDE DEF Body
        <5> QED BY <2>1, <4>1
      <4>3. g[i] = Body(f, i)
        OBVIOUS
      <4> HIDE DEF g
      <4> QED BY <3>2, <4>2, <4>3
    <3> QED BY <3>1, <3>2
  <2>3. g = [i \in 0..(k + 1) |-> Body(g, i)]
    <3>1. g = [i \in 0..(k + 1) |-> g[i]]
      OBVIOUS
    <3> HIDE DEF g, Body
    <3> QED BY <2>2, <3>1
  <2>4. Solved(k + 1)
    BY <2>3
  <2> HIDE DEF Solved
  <2> QED BY <2>4
<1>3. Len(ms) \in G
  <2> HIDE DEF G
  <2> QED BY <1>1, <1>2, NatSet
<1>4. PICK f : f = [i \in 0..Len(ms) |-> Body(f, i)]
  BY <1>3
<1> QED BY <1>4 DEF FoldTurn

LEMMA FoldTurns ==
    ASSUME NEW ms, Len(ms) \in Nat
    PROVE  \E f : f = FoldTurn(ms, f) /\ Fold(ms) = f[Len(ms)]
<1> DEFINE rounds[i \in 0..Len(ms)] ==
             IF i = 0 THEN [n \in Rounds |-> None]
             ELSE LET m == ms[i]
                  IN  [rounds[i - 1] EXCEPT ![m.round] = Told(IF @ = None THEN NewRound ELSE @, m)]
<1>1. Fold(ms) = rounds[Len(ms)]
  BY DEF Fold
<1>2. \E f : f = [i \in 0..Len(ms) |->
             IF i = 0 THEN [n \in Rounds |-> None]
             ELSE LET m == ms[i]
                  IN  [f[i - 1] EXCEPT ![m.round] = Told(IF @ = None THEN NewRound ELSE @, m)]]
  BY FoldFixed DEF FoldTurn, Heard, NoRounds
<1>3. rounds = [i \in 0..Len(ms) |->
             IF i = 0 THEN [n \in Rounds |-> None]
             ELSE LET m == ms[i]
                  IN  [rounds[i - 1] EXCEPT ![m.round] = Told(IF @ = None THEN NewRound ELSE @, m)]]
  BY <1>2
<1>4. rounds = FoldTurn(ms, rounds)
  BY <1>3 DEF FoldTurn, Heard, NoRounds
<1> HIDE DEF rounds
<1> QED BY <1>1, <1>4

\* Nothing was said.
LEMMA FoldNothing == Fold(<<>>) = NoRounds
<1>1. PICK f : f = FoldTurn(<<>>, f) /\ Fold(<<>>) = f[Len(<<>>)]
  BY FoldTurns
<1> QED BY <1>1 DEF FoldTurn

\* One more message.
LEMMA FoldMore ==
    ASSUME NEW M, NEW ms \in Seq(M), NEW m \in M
    PROVE  Fold(Append(ms, m)) = Heard(Fold(ms), m)
<1> DEFINE ns == Append(ms, m)
           k == Len(ms)
<1>1. /\ k \in Nat /\ Len(ns) = k + 1 /\ ns[k + 1] = m
      /\ \A i \in 1..k : ns[i] = ms[i]
  BY AppendProperties, LenProperties
<1> HIDE DEF ns, k
<1>2. PICK f : f = FoldTurn(ms, f) /\ Fold(ms) = f[k]
  BY <1>1, FoldTurns DEF k
<1>3. PICK g : g = FoldTurn(ns, g) /\ Fold(ns) = g[k + 1]
  BY <1>1, FoldTurns
<1>4. \A i \in 0..k : f[i] = IF i = 0 THEN NoRounds ELSE Heard(f[i - 1], ms[i])
  BY <1>2 DEF FoldTurn, k
<1>5. \A i \in 0..(k + 1) : g[i] = IF i = 0 THEN NoRounds ELSE Heard(g[i - 1], ns[i])
  BY <1>1, <1>3 DEF FoldTurn
<1> DEFINE G == {i \in Nat : i <= k => f[i] = g[i]}
<1>6. 0 \in G
  BY <1>1, <1>4, <1>5
<1>7. ASSUME NEW i \in Nat, i \in G PROVE i + 1 \in G
  <2> SUFFICES ASSUME i + 1 <= k PROVE f[i + 1] = g[i + 1]
    OBVIOUS
  <2>1. /\ i + 1 \in 0..k /\ i + 1 \in 0..(k + 1) /\ i + 1 # 0 /\ (i + 1) - 1 = i
        /\ ns[i + 1] = ms[i + 1] /\ f[i] = g[i]
    BY <1>1, <1>7
  <2>2. f[i + 1] = Heard(f[i], ms[i + 1])
    BY <1>4, <2>1
  <2>3. g[i + 1] = Heard(g[i], ns[i + 1])
    BY <1>5, <2>1
  <2> QED BY <2>1, <2>2, <2>3
<1>8. k \in G
  <2> HIDE DEF G
  <2> QED BY <1>1, <1>6, <1>7, NatSet
<1>9. g[k + 1] = Heard(g[k], m)
  <2>1. k + 1 \in 0..(k + 1) /\ k + 1 # 0 /\ (k + 1) - 1 = k
    BY <1>1
  <2> QED BY <1>1, <1>5, <2>1
<1> QED BY <1>1, <1>2, <1>3, <1>8, <1>9 DEF ns
-----------------------------------------------------------------------------
(* Messages and what they make of a round. *)

Plain == {"ESCROW_REQUIRED", "DEPOSITED", "DELIVERED"} \cup Releases

Wants == [verb : {"WANT"}, round : Rounds]
BidMsgs == [verb : {"BID"}, round : Rounds, by : Sellers, price : Prices]
Awards == [verb : {"AWARD"}, round : Rounds, to : Sellers]
Plains == [verb : Plain, round : Rounds]
Verdicts == [verb : {"VERIFIED"}, round : Rounds, verdict : {"pass", "fail"}]

Messages == Wants \cup BidMsgs \cup Awards \cup Plains \cup Verdicts

RoundMaps == [Rounds -> RoundRecords \cup {None}]

LEMMA NewRoundIs == NewRound \in RoundRecords
<1>1. <<>> \in Seq([by : Sellers, price : Prices])
  BY EmptySeq
<1> QED BY <1>1 DEF NewRound, RoundRecords

\* The fields of a round that a message changes, verb by verb.
LEMMA ToldIs ==
    ASSUME NEW r \in RoundRecords, NEW m \in Messages
    PROVE  LET t == Told(r, m) IN
           /\ t \in RoundRecords
           /\ t.award = IF m.verb = "AWARD" THEN m.to ELSE r.award
           /\ t.want = IF m.verb = "WANT" THEN TRUE ELSE r.want
           /\ t.escrow = IF m.verb = "ESCROW_REQUIRED" THEN TRUE ELSE r.escrow
           /\ t.deposit = IF m.verb = "DEPOSITED" THEN TRUE ELSE r.deposit
           /\ t.delivered = IF m.verb = "DELIVERED" THEN TRUE ELSE r.delivered
           /\ t.verdict = IF m.verb = "VERIFIED" THEN m.verdict ELSE r.verdict
           /\ t.release = IF m.verb \in Releases THEN TRUE ELSE r.release
           /\ t.status = CASE m.verb = "AWARD" /\ r.status = "bidding" -> "awarded"
                           [] m.verb = "DEPOSITED" -> Unsettled(r, "deposited")
                           [] m.verb = "DELIVERED" -> Unsettled(r, "delivered")
                           [] m.verb \in Releases -> "settled"
                           [] OTHER -> r.status
<1>1. CASE m \in Wants
  BY <1>1 DEF Wants, Told, RoundRecords, Releases
<1>2. CASE m \in BidMsgs
  <2>1. Append(r.bids, [by |-> m.by, price |-> m.price]) \in Seq([by : Sellers, price : Prices])
    BY <1>2, AppendProperties DEF BidMsgs, RoundRecords
  <2> QED BY <1>2, <2>1 DEF BidMsgs, Told, RoundRecords, Releases
<1>3. CASE m \in Awards
  BY <1>3 DEF Awards, Told, RoundRecords, Releases
<1>4. CASE m \in Plains
  BY <1>4 DEF Plains, Plain, Told, RoundRecords, Releases, Unsettled
<1>5. CASE m \in Verdicts
  BY <1>5 DEF Verdicts, Told, RoundRecords, Releases
<1> QED BY <1>1, <1>2, <1>3, <1>4, <1>5 DEF Messages

LEMMA MessageRound == \A m \in Messages : m.round \in Rounds
BY DEF Messages, Wants, BidMsgs, Awards, Plains, Verdicts

\* A message changes its round, and no other.
LEMMA HeardIs ==
    ASSUME NEW rounds \in RoundMaps, NEW m \in Messages
    PROVE  LET r == IF rounds[m.round] = None THEN NewRound ELSE rounds[m.round]
           IN  /\ r \in RoundRecords
               /\ Heard(rounds, m) \in RoundMaps
               /\ Heard(rounds, m)[m.round] = Told(r, m)
               /\ Told(r, m) \in RoundRecords /\ Told(r, m) # None
               /\ \A n \in Rounds : n # m.round => Heard(rounds, m)[n] = rounds[n]
<1> DEFINE r == IF rounds[m.round] = None THEN NewRound ELSE rounds[m.round]
<1>1. m.round \in Rounds
  BY MessageRound
<1>2. r \in RoundRecords
  BY <1>1, NewRoundIs DEF RoundMaps
<1>3. Told(r, m) \in RoundRecords
  BY <1>2, ToldIs
<1>4. Told(r, m) # None
  BY <1>3, NoRoundAssumption
<1>5. /\ Heard(rounds, m) \in RoundMaps
      /\ Heard(rounds, m)[m.round] = Told(r, m)
      /\ \A n \in Rounds : n # m.round => Heard(rounds, m)[n] = rounds[n]
  BY <1>1, <1>3 DEF Heard, RoundMaps
<1> QED BY <1>2, <1>3, <1>4, <1>5

\* Every sequence of messages is folded into rounds.
LEMMA FoldType == \A ms \in Seq(Messages) : Fold(ms) \in RoundMaps
<1> DEFINE G == {ms \in Seq(Messages) : Fold(ms) \in RoundMaps}
<1>1. <<>> \in G
  BY EmptySeq, FoldNothing DEF NoRounds, RoundMaps
<1>2. ASSUME NEW ms \in Seq(Messages), NEW m \in Messages, ms \in G
      PROVE  Append(ms, m) \in G
  <2>1. Append(ms, m) \in Seq(Messages)
    BY AppendProperties
  <2>2. Fold(Append(ms, m)) = Heard(Fold(ms), m)
    BY FoldMore
  <2>3. Heard(Fold(ms), m) \in RoundMaps
    BY <1>2, HeardIs
  <2> QED BY <2>1, <2>2, <2>3
<1> HIDE DEF G
<1>3. \A ms \in Seq(Messages) : ms \in G
  BY <1>1, <1>2, SeqSet
<1> QED BY <1>3 DEF G
-----------------------------------------------------------------------------
(* The session. *)

\* A round has come to each of its stages by the one before, and shows the last of them.
Story(r) ==
    /\ r \in RoundRecords /\ r.want
    /\ r.escrow => r.award # None
    /\ r.deposit => r.escrow
    /\ r.delivered => r.deposit
    /\ r.verdict # None => r.delivered
    /\ r.release => r.delivered
    /\ r.status = IF r.release THEN "settled"
                  ELSE IF r.delivered THEN "delivered"
                  ELSE IF r.deposit THEN "deposited"
                  ELSE IF r.award # None THEN "awarded" ELSE "bidding"

Stories(rounds) ==
    /\ rounds \in RoundMaps
    /\ \A n \in Rounds : rounds[n] # None => Story(rounds[n])

\* What the session may say next, as the rounds are: each step of a round follows the one
\* before it, and all but the bids are said once.
Allowed(rounds, m) ==
    LET r == rounds[m.round] IN
    IF m.verb = "WANT" THEN r = None
    ELSE /\ r # None
         /\ m.verb = "AWARD" => r.award = None
         /\ m.verb = "ESCROW_REQUIRED" => r.award # None
         /\ m.verb = "DEPOSITED" => r.escrow /\ ~r.deposit
         /\ m.verb = "DELIVERED" => r.deposit /\ ~r.delivered
         /\ m.verb = "VERIFIED" => r.delivered
         /\ m.verb \in Releases => r.delivered

\* The rounds say what was said.
Linked ==
    \A n \in Rounds :
       LET r == Fold(transcript)[n] IN
       /\ Said(n, "WANT") <=> r # None
       /\ r = None => \A i \in DOMAIN transcript : transcript[i].round # n
       /\ r # None =>
             /\ Said(n, "AWARD") <=> r.award # None
             /\ Said(n, "ESCROW_REQUIRED") <=> r.escrow
             /\ Said(n, "DEPOSITED") <=> r.deposit
             /\ Said(n, "DELIVERED") <=> r.delivered
             /\ Said(n, "VERIFIED") <=> r.verdict # None
             /\ (\E v \in Releases : Said(n, v)) <=> r.release

\* Rounds are opened one after the other.
OpenedTo(p) == \A n \in Rounds : Said(n, "WANT") <=> n <= p
InTurn == \E p \in 0..MaxRound : OpenedTo(p)

LEMMA PresentIs ==
    ASSUME NEW p \in 0..MaxRound, OpenedTo(p)
    PROVE  Present = p
<1>1. {n \in Rounds : Said(n, "WANT")} = 1..p
  BY FeedAssumption DEF OpenedTo, Rounds
<1>2. Cardinality(1..p) = p
  BY FS_Interval
<1> QED BY <1>1, <1>2 DEF Present

LEMMA StoryGoesOn ==
    ASSUME NEW rounds, Stories(rounds), NEW m \in Messages, Allowed(rounds, m)
    PROVE  Stories(Heard(rounds, m))
<1>1. m.round \in Rounds
  BY DEF Messages, Wants, BidMsgs, Awards, Plains, Verdicts
<1>2. PICK r : r = IF rounds[m.round] = None THEN NewRound ELSE rounds[m.round]
  OBVIOUS
<1>3. r \in RoundRecords
  BY <1>1, <1>2, NewRoundIs DEF Stories, RoundMaps
<1>4. PICK t : t = Told(r, m)
  OBVIOUS
<1>5. /\ Heard(rounds, m) \in [Rounds -> RoundRecords \cup {None}]
      /\ \A n \in Rounds : Heard(rounds, m)[n] = IF n = m.round THEN t ELSE rounds[n]
  <2>1. t \in RoundRecords
    BY <1>3, <1>4, ToldIs
  <2> QED BY <1>1, <1>2, <1>4, <2>1 DEF Heard, Stories, RoundMaps
<1>6. Story(t)
  <2>1. CASE m.verb = "WANT"
    <3>1. r = NewRound
      BY <1>2, <2>1 DEF Allowed
    <3> QED BY <1>3, <1>4, <2>1, <3>1, ToldIs DEF Story, NewRound, Releases
  <2>2. CASE m.verb # "WANT"
    <3>1. r = rounds[m.round] /\ Story(r)
      BY <1>1, <1>2, <2>2 DEF Allowed, Stories
    <3>2. /\ m.verb \in {"BID", "AWARD", "ESCROW_REQUIRED", "DEPOSITED", "DELIVERED", "VERIFIED"}
                \cup Releases
          /\ m.verb = "AWARD" => m.to \in Sellers
          /\ m.verb = "VERIFIED" => m.verdict \in {"pass", "fail"}
      BY <2>2 DEF Messages, Wants, BidMsgs, Awards, Plains, Plain, Verdicts, Releases
    <3>3. /\ t \in RoundRecords
          /\ t.award = IF m.verb = "AWARD" THEN m.to ELSE r.award
          /\ t.want = r.want
          /\ t.escrow = IF m.verb = "ESCROW_REQUIRED" THEN TRUE ELSE r.escrow
          /\ t.deposit = IF m.verb = "DEPOSITED" THEN TRUE ELSE r.deposit
          /\ t.delivered = IF m.verb = "DELIVERED" THEN TRUE ELSE r.delivered
          /\ t.verdict = IF m.verb = "VERIFIED" THEN m.verdict ELSE r.verdict
          /\ t.release = IF m.verb \in Releases THEN TRUE ELSE r.release
      BY <1>3, <1>4, <2>2, ToldIs
    <3>4. t.status = CASE m.verb = "AWARD" /\ r.status = "bidding" -> "awarded"
                       [] m.verb = "DEPOSITED" -> Unsettled(r, "deposited")
                       [] m.verb = "DELIVERED" -> Unsettled(r, "delivered")
                       [] m.verb \in Releases -> "settled"
                       [] OTHER -> r.status
      BY <1>3, <1>4, ToldIs
    <3>5. /\ m.verb = "AWARD" => r.award = None
          /\ m.verb = "ESCROW_REQUIRED" => r.award # None
          /\ m.verb = "DEPOSITED" => r.escrow /\ ~r.deposit
          /\ m.verb = "DELIVERED" => r.deposit /\ ~r.delivered
          /\ m.verb = "VERIFIED" => r.delivered
          /\ m.verb \in Releases => r.delivered
      BY <2>2, <3>1 DEF Allowed
    <3>6. None \notin Sellers /\ None \notin {"pass", "fail"}
      BY FeedAssumption
    <3>7. CASE m.verb \in {"BID", "ESCROW_REQUIRED", "VERIFIED"}
      BY <3>1, <3>3, <3>4, <3>5, <3>6, <3>7 DEF Story, Releases
    <3>8. CASE m.verb = "AWARD"
      BY <3>1, <3>2, <3>3, <3>4, <3>5, <3>6, <3>8 DEF Story, Releases
    <3>9. CASE m.verb \in {"DEPOSITED", "DELIVERED"}
      BY <3>1, <3>3, <3>4, <3>5, <3>9 DEF Story, Unsettled, Releases
    <3>10. CASE m.verb \in Releases
      BY <3>1, <3>3, <3>4, <3>5, <3>10 DEF Story, Releases
    <3> QED BY <3>2, <3>7, <3>8, <3>9, <3>10
  <2> QED BY <2>1, <2>2
<1> QED BY <1>5, <1>6 DEF Stories, RoundMaps

\* A message more is said.
LEMMA SaidMore ==
    ASSUME transcript \in Seq(Messages), NEW m \in Messages, Say(m)
    PROVE  /\ transcript' \in Seq(Messages)
           /\ Len(transcript') = Len(transcript) + 1
           /\ \A i \in DOMAIN transcript : transcript'[i] = transcript[i]
           /\ \A n, v : Said(n, v)' <=> Said(n, v) \/ (m.round = n /\ m.verb = v)
<1> DEFINE k == Len(transcript)
<1>1. /\ transcript' \in Seq(Messages) /\ Len(transcript') = k + 1
      /\ k \in Nat /\ DOMAIN transcript = 1..k /\ DOMAIN transcript' = 1..(k + 1)
      /\ \A i \in 1..k : transcript'[i] = transcript[i]
      /\ transcript'[k + 1] = m
  BY AppendProperties, LenProperties DEF Say
<1> HIDE DEF k
<1>2. ASSUME NEW n, NEW v
      PROVE  Said(n, v)' <=> Said(n, v) \/ (m.round = n /\ m.verb = v)
  <2>1. \A i \in 1..(k + 1) : i \in 1..k \/ i = k + 1
    BY <1>1
  <2>2. k + 1 \in 1..(k + 1) /\ 1..k \subseteq 1..(k + 1)
    BY <1>1
  <2> QED BY <1>1, <2>1, <2>2 DEF Said
<1> QED BY <1>1, <1>2 DEF k

\* What the session's rules let somebody say is allowed, as the rounds are.
LEMMA SaysAllowed ==
    ASSUME transcript \in Seq(Messages), Linked, Stories(Fold(transcript)),
           NEW p \in 0..MaxRound, OpenedTo(p), SessionGoesOn
    PROVE  \E m \in Messages :
              /\ Say(m) /\ Allowed(Fold(transcript), m)
              /\ m.verb = "WANT" => m.round = p + 1
<1> DEFINE rounds == Fold(transcript)
<1>1. Present = p /\ p \in Nat /\ MaxRound \in Nat
  BY PresentIs, FeedAssumption
<1>2. \A n \in 1..p : n \in Rounds /\ Said(n, "WANT")
  BY <1>1 DEF OpenedTo, Rounds
<1>3. \A n \in Rounds : Story(rounds[n]) \/ rounds[n] = None
  BY DEF Stories
<1>4. \A n \in 1..p : rounds[n] # None /\ Story(rounds[n])
  BY <1>2, <1>3 DEF Linked
<1>5. \A n \in 1..p : /\ Said(n, "AWARD") <=> rounds[n].award # None
                      /\ Said(n, "ESCROW_REQUIRED") <=> rounds[n].escrow
                      /\ Said(n, "DEPOSITED") <=> rounds[n].deposit
                      /\ Said(n, "DELIVERED") <=> rounds[n].delivered
                      /\ Said(n, "VERIFIED") <=> rounds[n].verdict # None
  BY <1>2, <1>4 DEF Linked
<1>6. \A n \in Rounds : ~(n <= p) => rounds[n] = None
  BY DEF OpenedTo, Linked
<1> HIDE DEF rounds
<1>7. CASE BuyerSays
  <2>1. CASE Present < MaxRound /\ Say([verb |-> "WANT", round |-> Present + 1])
    <3> DEFINE m == [verb |-> "WANT", round |-> p + 1]
    <3>1. p + 1 \in Rounds /\ ~(p + 1 <= p)
      BY <1>1, <2>1 DEF Rounds
    <3>2. m \in Messages
      BY <3>1 DEF Messages, Wants
    <3>3. Allowed(rounds, m)
      BY <1>6, <3>1 DEF Allowed
    <3> QED BY <1>1, <2>1, <3>2, <3>3 DEF rounds
  <2> DEFINE n == Present
  <2>2. ASSUME n > 0, ~Said(n, "AWARD"), NEW i \in DOMAIN transcript,
               transcript[i].verb = "BID",
               Say([verb |-> "AWARD", round |-> n, to |-> transcript[i].by])
        PROVE  \E m \in Messages : Say(m) /\ Allowed(rounds, m) /\ m.verb # "WANT"
    <3> DEFINE m == [verb |-> "AWARD", round |-> n, to |-> transcript[i].by]
    <3>1. transcript[i] \in Messages
      BY ElementOfSeq
    <3>2. transcript[i].by \in Sellers
      BY <2>2, <3>1 DEF Messages, Wants, BidMsgs, Awards, Plains, Plain, Verdicts, Releases
    <3>3. n \in 1..p
      BY <1>1, <2>2
    <3>4. m \in Messages
      BY <1>2, <3>2, <3>3 DEF Messages, Awards
    <3>5. Allowed(rounds, m)
      BY <1>4, <1>5, <2>2, <3>3 DEF Allowed, Releases
    <3> QED BY <2>2, <3>4, <3>5
  <2>3. ASSUME n > 0, Said(n, "ESCROW_REQUIRED"), ~Said(n, "DEPOSITED"),
               Say([verb |-> "DEPOSITED", round |-> n])
        PROVE  \E m \in Messages : Say(m) /\ Allowed(rounds, m) /\ m.verb # "WANT"
    <3> DEFINE m == [verb |-> "DEPOSITED", round |-> n]
    <3>1. n \in 1..p
      BY <1>1, <2>3
    <3>2. m \in Messages
      BY <1>2, <3>1 DEF Messages, Plains, Plain
    <3>3. Allowed(rounds, m)
      BY <1>4, <1>5, <2>3, <3>1 DEF Allowed, Releases
    <3> QED BY <2>3, <3>2, <3>3
  <2>4. ASSUME n > 0, NEW i \in DOMAIN transcript,
               transcript[i] = [verb |-> "VERIFIED", round |-> n, verdict |-> "pass"],
               NEW v \in Releases, Say([verb |-> v, round |-> n])
        PROVE  \E m \in Messages : Say(m) /\ Allowed(rounds, m) /\ m.verb # "WANT"
    <3> DEFINE m == [verb |-> v, round |-> n]
    <3>1. n \in 1..p
      BY <1>1, <2>4
    <3>2. m \in Messages
      BY <1>2, <3>1 DEF Messages, Plains, Plain
    <3>3. Said(n, "VERIFIED")
      BY <2>4 DEF Said
    <3>4. rounds[n] # None /\ rounds[n].delivered
      BY <1>4, <1>5, <3>1, <3>3 DEF Story
    <3>5. Allowed(rounds, m)
      BY <3>4 DEF Allowed, Releases
    <3> QED BY <3>2, <3>5, <2>4 DEF Releases
  <2> QED BY <1>7, <2>1, <2>2, <2>3, <2>4 DEF BuyerSays, rounds
<1>8. CASE OthersSay
  <2> SUFFICES \E m \in Messages : Say(m) /\ Allowed(rounds, m) /\ m.verb # "WANT"
    BY DEF rounds
  <2>1. PICK n \in 1..p :
          \/ \E s \in Sellers, c \in Prices :
                Say([verb |-> "BID", round |-> n, by |-> s, price |-> c])
          \/ Said(n, "AWARD") /\ Say([verb |-> "ESCROW_REQUIRED", round |-> n])
          \/ /\ Said(n, "DEPOSITED") /\ ~Said(n, "DELIVERED")
             /\ Say([verb |-> "DELIVERED", round |-> n])
          \/ /\ Said(n, "DELIVERED")
             /\ \E v \in {"pass", "fail"} :
                   Say([verb |-> "VERIFIED", round |-> n, verdict |-> v])
    BY <1>1, <1>8 DEF OthersSay
  <2>2. n \in Rounds /\ rounds[n] # None
    BY <1>2, <1>4
  <2>3. ASSUME NEW s \in Sellers, NEW c \in Prices,
               Say([verb |-> "BID", round |-> n, by |-> s, price |-> c])
        PROVE  \E m \in Messages : Say(m) /\ Allowed(rounds, m) /\ m.verb # "WANT"
    <3> DEFINE m == [verb |-> "BID", round |-> n, by |-> s, price |-> c]
    <3>1. m \in Messages /\ Allowed(rounds, m)
      BY <2>2 DEF Messages, BidMsgs, Allowed, Releases
    <3> QED BY <2>3, <3>1
  <2>4. CASE Said(n, "AWARD") /\ Say([verb |-> "ESCROW_REQUIRED", round |-> n])
    <3> DEFINE m == [verb |-> "ESCROW_REQUIRED", round |-> n]
    <3>1. m \in Messages /\ Allowed(rounds, m)
      BY <1>5, <2>2, <2>4 DEF Messages, Plains, Plain, Allowed, Releases
    <3> QED BY <2>4, <3>1
  <2>5. CASE /\ Said(n, "DEPOSITED") /\ ~Said(n, "DELIVERED")
             /\ Say([verb |-> "DELIVERED", round |-> n])
    <3> DEFINE m == [verb |-> "DELIVERED", round |-> n]
    <3>1. m \in Messages /\ Allowed(rounds, m)
      BY <1>5, <2>2, <2>5 DEF Messages, Plains, Plain, Allowed, Releases
    <3> QED BY <2>5, <3>1
  <2>6. ASSUME Said(n, "DELIVERED"), NEW v \in {"pass", "fail"},
               Say([verb |-> "VERIFIED", round |-> n, verdict |-> v])
        PROVE  \E m \in Messages : Say(m) /\ Allowed(rounds, m) /\ m.verb # "WANT"
    <3> DEFINE m == [verb |-> "VERIFIED", round |-> n, verdict |-> v]
    <3>1. m \in Messages /\ Allowed(rounds, m)
      BY <1>5, <2>2, <2>6 DEF Messages, Verdicts, Allowed, Releases
    <3> QED BY <2>6, <3>1
  <2> QED BY <2>1, <2>3, <2>4, <2>5, <2>6
<1> QED BY <1>7, <1>8 DEF SessionGoesOn

LEMMA FoldSays ==
    ASSUME transcript \in Seq(Messages), NEW m \in Messages, Say(m)
    PROVE  Fold(transcript)' = Heard(Fold(transcript), m)
<1>1. Fold(Append(transcript, m)) = Heard(Fold(transcript), m)
  BY FoldMore
<1>2. Fold(transcript)' = Fold(transcript')
  OBVIOUS
<1> QED BY <1>1, <1>2 DEF Say

LEMMA LinkedGoesOn ==
    ASSUME transcript \in Seq(Messages), Linked, Stories(Fold(transcript)),
           NEW m \in Messages, Say(m), Allowed(Fold(transcript), m)
    PROVE  Linked'
<1> DEFINE rounds == Fold(transcript)
           told == Fold(transcript')
           k == m.round
           r == IF rounds[k] = None THEN NewRound ELSE rounds[k]
           t == told[k]
<1>1. k \in Rounds
  BY MessageRound
<1>2. /\ r \in RoundRecords /\ t = Told(r, m) /\ t # None
      /\ \A n \in Rounds : n # k => told[n] = rounds[n]
  BY FoldSays, HeardIs DEF Stories
<1>3. \A n, v : Said(n, v)' <=> Said(n, v) \/ (k = n /\ m.verb = v)
  BY SaidMore
<1>4. ASSUME NEW n \in Rounds, n # k
      PROVE  rounds[n] = None => \A i \in DOMAIN transcript' : transcript'[i].round # n
  <2>1. rounds[n] = None => \A i \in DOMAIN transcript : transcript[i].round # n
    BY DEF Linked
  <2>2. \A i \in DOMAIN transcript' : \/ i \in DOMAIN transcript /\ transcript'[i] = transcript[i]
                                  \/ transcript'[i] = m
    BY AppendProperties, LenProperties DEF Say
  <2> HIDE DEF rounds
  <2> QED BY <1>4, <2>1, <2>2
<1>5. /\ t.award = IF m.verb = "AWARD" THEN m.to ELSE r.award
      /\ t.escrow = IF m.verb = "ESCROW_REQUIRED" THEN TRUE ELSE r.escrow
      /\ t.deposit = IF m.verb = "DEPOSITED" THEN TRUE ELSE r.deposit
      /\ t.delivered = IF m.verb = "DELIVERED" THEN TRUE ELSE r.delivered
      /\ t.verdict = IF m.verb = "VERIFIED" THEN m.verdict ELSE r.verdict
      /\ t.release = IF m.verb \in Releases THEN TRUE ELSE r.release
  <2>1. t = Told(r, m) /\ r \in RoundRecords
    BY <1>2
  <2> HIDE DEF r, t, rounds, told, k
  <2> QED BY <2>1, ToldIs
<1>6. /\ m.verb = "AWARD" => m.to # None
      /\ m.verb = "VERIFIED" => m.verdict # None
  BY FeedAssumption DEF Messages, Wants, BidMsgs, Awards, Plains, Plain, Verdicts, Releases
<1>7. /\ Said(k, "WANT")'
      /\ Said(k, "AWARD")' <=> t.award # None
      /\ Said(k, "ESCROW_REQUIRED")' <=> t.escrow
      /\ Said(k, "DEPOSITED")' <=> t.deposit
      /\ Said(k, "DELIVERED")' <=> t.delivered
      /\ Said(k, "VERIFIED")' <=> t.verdict # None
      /\ (\E v \in Releases : Said(k, v)') <=> t.release
  <2>1. CASE m.verb = "WANT"
    <3>1. rounds[k] = None
      BY <2>1 DEF Allowed
    <3>2. \A v : ~Said(k, v)
      BY <1>1, <3>1 DEF Linked, Said
    <3>3. r = NewRound
      BY <3>1
    <3> HIDE DEF r, t, rounds, told
    <3> QED BY <1>3, <1>5, <2>1, <3>2, <3>3 DEF NewRound, Releases
  <2>2. CASE m.verb # "WANT"
    <3>1. rounds[k] # None /\ r = rounds[k]
      BY <2>2 DEF Allowed
    <3>2. /\ Said(k, "WANT")
          /\ Said(k, "AWARD") <=> r.award # None
          /\ Said(k, "ESCROW_REQUIRED") <=> r.escrow
          /\ Said(k, "DEPOSITED") <=> r.deposit
          /\ Said(k, "DELIVERED") <=> r.delivered
          /\ Said(k, "VERIFIED") <=> r.verdict # None
          /\ (\E v \in Releases : Said(k, v)) <=> r.release
      BY <1>1, <3>1 DEF Linked
    <3> HIDE DEF r, t, rounds, told
    <3> QED BY <1>3, <1>5, <1>6, <2>2, <3>2 DEF Releases
  <2> QED BY <2>1, <2>2
<1>8. ASSUME NEW n \in Rounds, n # k
      PROVE  /\ Said(n, "WANT")' <=> told[n] # None
             /\ told[n] # None =>
                  /\ Said(n, "AWARD")' <=> told[n].award # None
                  /\ Said(n, "ESCROW_REQUIRED")' <=> told[n].escrow
                  /\ Said(n, "DEPOSITED")' <=> told[n].deposit
                  /\ Said(n, "DELIVERED")' <=> told[n].delivered
                  /\ Said(n, "VERIFIED")' <=> told[n].verdict # None
                  /\ (\E v \in Releases : Said(n, v)') <=> told[n].release
  <2>1. told[n] = rounds[n] /\ \A v : Said(n, v)' <=> Said(n, v)
    BY <1>2, <1>3, <1>8
  <2> HIDE DEF told
  <2> QED BY <2>1 DEF Linked
<1>9. \A n \in Rounds : n # k => told[n] = rounds[n]
  BY <1>2
<1> HIDE DEF rounds, t, r
<1> QED BY <1>2, <1>4, <1>7, <1>8, <1>9 DEF Linked, t

\* Rounds are still opened one after the other.
LEMMA InTurnGoesOn ==
    ASSUME transcript \in Seq(Messages), NEW p \in 0..MaxRound, OpenedTo(p),
           NEW m \in Messages, Say(m), m.verb = "WANT" => m.round = p + 1
    PROVE  InTurn'
<1>1. \A n, v : Said(n, v)' <=> Said(n, v) \/ (m.round = n /\ m.verb = v)
  BY SaidMore
<1>2. m.round \in Rounds /\ p \in Nat /\ MaxRound \in Nat
  BY MessageRound, FeedAssumption
<1>3. CASE m.verb = "WANT"
  <2>1. p + 1 \in 0..MaxRound
    BY <1>2, <1>3 DEF Rounds
  <2>2. \A n \in Rounds : Said(n, "WANT")' <=> n <= p + 1
    BY <1>1, <1>2, <1>3 DEF OpenedTo, Rounds
  <2>3. OpenedTo(p + 1)'
    BY <2>2 DEF OpenedTo
  <2> QED BY <2>1, <2>3 DEF InTurn
<1>4. CASE m.verb # "WANT"
  <2>1. OpenedTo(p)'
    BY <1>1, <1>4 DEF OpenedTo
  <2> QED BY <2>1 DEF InTurn
<1> QED BY <1>3, <1>4
-----------------------------------------------------------------------------
(* What is on disk. *)

\* The rounds, as they were when k messages had been said.
RoundsAt(k) == Fold(SubSeq(transcript, 1, k))

\* At every moment of the session its rounds have told their stories, and those there are
\* are those that were spoken of.
Prefixes == \A k \in 0..Len(transcript) : Stories(RoundsAt(k))

\* A file was written at a message of its round.
WrittenAt(n, k) == k \in 1..Len(transcript) /\ transcript[k].round = n

Disk ==
    /\ fetched \in [Polls -> 0..Len(transcript) \cup {None}]
    /\ persisted \in 0..Len(transcript) \cup {None}
    /\ record \in [Rounds -> 0..Len(transcript) \cup {None, Torn}]
    /\ lines \in [Rounds -> 0..Len(transcript) \cup {None, Torn}]
    /\ \A n \in Rounds : record[n] \in {None, Torn} \/ WrittenAt(n, record[n])

\* What was written last is there.
Kept ==
    persisted # None =>
       \A n \in Rounds : LastOf(n, persisted) # None =>
          record[n] = LastOf(n, persisted) /\ lines[n] = LastOf(n, persisted)

IInv == /\ transcript \in Seq(Messages) /\ Linked /\ InTurn
        /\ Prefixes /\ Disk /\ Kept

\* The last message about a round is there if there is one.
LEMMA LastOfIs ==
    ASSUME NEW n, NEW k \in Nat
    PROVE  LET last == LastOf(n, k) IN
           IF \A i \in 1..k : transcript[i].round # n THEN last = None
           ELSE /\ last \in 1..k /\ transcript[last].round = n /\ last # None
                /\ \A i \in (last + 1)..k : transcript[i].round # n
<1> DEFINE ms == {i \in 1..k : transcript[i].round = n}
           far == {k - i : i \in ms}
<1>1. CASE ms = {}
  <2>1. \A i \in 1..k : transcript[i].round # n
    BY <1>1
  <2>2. LastOf(n, k) = None
    BY <1>1 DEF LastOf
  <2> QED BY <2>1, <2>2
<1>2. CASE ms # {}
  <2>1. far \subseteq Nat /\ far # {}
    BY <1>2
  <2>2. PICK x \in far : \A y \in far : ~(<<y, x>> \in OpToRel(<, Nat))
    <3> HIDE DEF far
    <3> QED BY <2>1, NatLessThanWellFounded, WFMin
  <2>3. PICK i \in ms : x = k - i
    BY <2>2
  <2>4. \A j \in ms : j <= i
    <3> SUFFICES ASSUME NEW j \in ms PROVE j <= i
      OBVIOUS
    <3>1. k - j \in far
      OBVIOUS
    <3>2. k - j \in Nat /\ k - i \in Nat
      OBVIOUS
    <3>3. ~(<<k - j, k - i>> \in OpToRel(<, Nat))
      BY <2>2, <2>3, <3>1
    <3>4. ~(k - j < k - i)
      <4> DEFINE a == k - j
                 b == k - i
      <4>1. a \in Nat /\ b \in Nat /\ ~(<<a, b>> \in OpToRel(<, Nat))
        BY <3>2, <3>3
      <4> HIDE DEF a, b
      <4>2. ~(a < b)
        BY <4>1 DEF OpToRel
      <4> QED BY <4>2 DEF a, b
    <3> QED BY <3>2, <3>4
  <2>5. LastOf(n, k) = CHOOSE l \in ms : \A j \in ms : j <= l
    BY <1>2 DEF LastOf
  <2>6. LastOf(n, k) \in ms /\ \A j \in ms : j <= LastOf(n, k)
    <3> HIDE DEF ms
    <3> QED BY <2>3, <2>4, <2>5
  <2>7. LastOf(n, k) \in 1..k /\ transcript[LastOf(n, k)].round = n
    BY <2>6
  <2>8. LastOf(n, k) # None
    BY <2>7, FeedAssumption
  <2>9. \A i2 \in (LastOf(n, k) + 1)..k : transcript[i2].round # n
    BY <2>6, <2>7
  <2>10. ~(\A i2 \in 1..k : transcript[i2].round # n)
    BY <2>7
  <2> QED BY <2>7, <2>8, <2>9, <2>10
<1> QED BY <1>1, <1>2

\* What is said later does not change which message was the last.
Newest(ms) == IF ms = {} THEN None ELSE CHOOSE i \in ms : \A j \in ms : j <= i

LEMMA LastOfStays ==
    ASSUME NEW n, NEW k, \A i \in 1..k : transcript'[i] = transcript[i]
    PROVE  LastOf(n, k)' = LastOf(n, k)
<1>1. {i \in 1..k : transcript'[i].round = n} = {i \in 1..k : transcript[i].round = n}
  OBVIOUS
<1>2. LastOf(n, k) = Newest({i \in 1..k : transcript[i].round = n})
  BY DEF LastOf, Newest
<1>3. LastOf(n, k)' = Newest({i \in 1..k : transcript'[i].round = n})
  BY DEF LastOf, Newest
<1> QED BY <1>1, <1>2, <1>3

\* A message more changes nothing of the moments before it.
LEMMA PastStays ==
    ASSUME transcript \in Seq(Messages), NEW m \in Messages, Say(m),
           NEW k \in 0..Len(transcript)
    PROVE  RoundsAt(k)' = RoundsAt(k)
<1>1. /\ Len(transcript) \in Nat /\ Len(transcript') = Len(transcript) + 1
      /\ transcript' \in Seq(Messages)
      /\ \A i \in 1..Len(transcript) : transcript'[i] = transcript[i]
  BY SaidMore
<1>2. /\ SubSeq(transcript, 1, k) \in Seq(Messages) /\ Len(SubSeq(transcript, 1, k)) = k
      /\ \A i \in 1..k : SubSeq(transcript, 1, k)[i] = transcript[i]
  BY <1>1
<1>3. /\ SubSeq(transcript', 1, k) \in Seq(Messages) /\ Len(SubSeq(transcript', 1, k)) = k
      /\ \A i \in 1..k : SubSeq(transcript', 1, k)[i] = transcript'[i]
  BY <1>1
<1>4. \A i \in 1..k : transcript'[i] = transcript[i]
  BY <1>1
<1>5. SubSeq(transcript', 1, k) = SubSeq(transcript, 1, k)
  BY <1>2, <1>3, <1>4, SeqEqual
<1> QED BY <1>5 DEF RoundsAt

LEMMA NowIs == ASSUME transcript \in Seq(Messages) PROVE RoundsAt(Len(transcript)) = Fold(transcript)
<1>1. SubSeq(transcript, 1, Len(transcript)) = transcript
  OBVIOUS
<1> QED BY <1>1 DEF RoundsAt

\* From one moment to a later one the rounds that are not spoken of stay as they are.
LEMMA NextIs ==
    ASSUME transcript \in Seq(Messages), NEW k \in Nat, k + 1 <= Len(transcript)
    PROVE  /\ transcript[k + 1] \in Messages /\ RoundsAt(k) \in RoundMaps
           /\ RoundsAt(k + 1) = Heard(RoundsAt(k), transcript[k + 1])
<1> DEFINE ms == SubSeq(transcript, 1, k)
           m == transcript[k + 1]
<1>1. /\ ms \in Seq(Messages) /\ Len(ms) = k /\ \A i \in 1..k : ms[i] = transcript[i]
      /\ SubSeq(transcript, 1, k + 1) \in Seq(Messages)
      /\ Len(SubSeq(transcript, 1, k + 1)) = k + 1
      /\ \A i \in 1..(k + 1) : SubSeq(transcript, 1, k + 1)[i] = transcript[i]
  OBVIOUS
<1>2. m \in Messages
  BY ElementOfSeq
<1> HIDE DEF ms, m
<1>3. /\ Append(ms, m) \in Seq(Messages) /\ Len(Append(ms, m)) = k + 1
      /\ \A i \in 1..k : Append(ms, m)[i] = ms[i]
      /\ Append(ms, m)[k + 1] = m
  BY <1>1, <1>2, AppendProperties
<1>4. \A i \in 1..(k + 1) : Append(ms, m)[i] = transcript[i]
  BY <1>1, <1>3 DEF m
<1>5. SubSeq(transcript, 1, k + 1) = Append(ms, m)
  BY <1>1, <1>3, <1>4, SeqEqual
<1>6. Fold(Append(ms, m)) = Heard(Fold(ms), m)
  BY <1>1, <1>2, FoldMore
<1>7. Fold(ms) \in RoundMaps
  BY <1>1, FoldType
<1> QED BY <1>2, <1>5, <1>6, <1>7 DEF RoundsAt, ms, m

LEMMA UnspokenStays ==
    ASSUME transcript \in Seq(Messages), NEW n \in Rounds, NEW j \in 0..Len(transcript),
           NEW k \in j..Len(transcript), \A i \in (j + 1)..k : transcript[i].round # n
    PROVE  RoundsAt(k)[n] = RoundsAt(j)[n]
<1> DEFINE G == {d \in Nat : j + d <= k => RoundsAt(j + d)[n] = RoundsAt(j)[n]}
<1>1. 0 \in G
  OBVIOUS
<1>2. ASSUME NEW d \in Nat, d \in G PROVE d + 1 \in G
  <2> SUFFICES ASSUME j + (d + 1) <= k PROVE RoundsAt(j + (d + 1))[n] = RoundsAt(j)[n]
    OBVIOUS
  <2> DEFINE l == j + d
  <2>1. /\ l \in Nat /\ l + 1 <= Len(transcript) /\ j + (d + 1) = l + 1
        /\ l + 1 \in (j + 1)..k /\ l <= k
    OBVIOUS
  <2>2. RoundsAt(l)[n] = RoundsAt(j)[n]
    BY <1>2, <2>1
  <2> HIDE DEF l, G
  <2>3. /\ transcript[l + 1] \in Messages /\ RoundsAt(l) \in RoundMaps
        /\ RoundsAt(l + 1) = Heard(RoundsAt(l), transcript[l + 1])
    BY <2>1, NextIs
  <2>4. n # transcript[l + 1].round
    BY <2>1
  <2>5. Heard(RoundsAt(l), transcript[l + 1])[n] = RoundsAt(l)[n]
    BY <2>3, <2>4, HeardIs
  <2> QED BY <2>1, <2>2, <2>3, <2>5
<1> HIDE DEF G
<1>3. k - j \in G
  BY <1>1, <1>2, NatSet
<1> QED BY <1>3 DEF G

\* A round that is spoken of is there.
LEMMA SpokenIsThere ==
    ASSUME transcript \in Seq(Messages), NEW k \in 1..Len(transcript)
    PROVE  RoundsAt(k)[transcript[k].round] # None
<1>1. k - 1 \in Nat /\ (k - 1) + 1 = k /\ k <= Len(transcript)
  OBVIOUS
<1>2. /\ transcript[k] \in Messages /\ RoundsAt(k - 1) \in RoundMaps
      /\ RoundsAt(k) = Heard(RoundsAt(k - 1), transcript[k])
  BY <1>1, NextIs
<1> QED BY <1>2, HeardIs
-----------------------------------------------------------------------------
LEMMA InitIInv == Init => IInv
<1> SUFFICES ASSUME Init PROVE IInv
  OBVIOUS
<1>1. transcript = <<>> /\ transcript \in Seq(Messages) /\ Len(transcript) = 0
  BY EmptySeq DEF Init
<1>2. Fold(transcript) = NoRounds
  BY <1>1, FoldNothing
<1>3. NoRounds \in RoundMaps /\ \A n \in Rounds : NoRounds[n] = None
  BY DEF NoRounds, RoundMaps
<1>4. Stories(NoRounds)
  BY <1>3 DEF Stories
<1>5. \A n, v : ~Said(n, v)
  BY <1>1 DEF Said
<1>6. Linked
  BY <1>1, <1>2, <1>3, <1>5 DEF Linked
<1>7. InTurn
  <2>1. OpenedTo(0) /\ 0 \in 0..MaxRound
    BY <1>5, FeedAssumption DEF OpenedTo, Rounds
  <2> QED BY <2>1 DEF InTurn
<1>8. Prefixes
  <2>1. RoundsAt(0) = NoRounds
    BY <1>1, <1>2, NowIs
  <2>2. \A k \in 0..Len(transcript) : k = 0
    BY <1>1
  <2> QED BY <1>4, <2>1, <2>2 DEF Prefixes
<1>9. Disk /\ Kept
  BY <1>1 DEF Init, Disk, Kept
<1> QED BY <1>1, <1>6, <1>7, <1>8, <1>9 DEF IInv

\* The session goes on: what was said stays, and so does what was made of it.
LEMMA SessionKeeps == ASSUME IInv, SessionGoesOn PROVE IInv'
<1>1. transcript \in Seq(Messages) /\ Len(transcript) \in Nat
  BY LenProperties DEF IInv
<1>2. Stories(Fold(transcript)) /\ Linked
  <2>1. Len(transcript) \in 0..Len(transcript)
    BY <1>1
  <2> QED BY <1>1, <2>1, NowIs DEF IInv, Prefixes
<1>3. PICK p \in 0..MaxRound : OpenedTo(p)
  BY DEF IInv, InTurn
<1>4. PICK m \in Messages : /\ Say(m) /\ Allowed(Fold(transcript), m)
                            /\ m.verb = "WANT" => m.round = p + 1
  BY <1>1, <1>2, <1>3, SaysAllowed
<1>5. /\ transcript' \in Seq(Messages)
      /\ Len(transcript') = Len(transcript) + 1
      /\ DOMAIN transcript = 1..Len(transcript) /\ DOMAIN transcript' = 1..Len(transcript')
      /\ \A i \in 1..Len(transcript) : transcript'[i] = transcript[i]
  BY <1>1, <1>4, SaidMore, LenProperties
<1>6. Linked'
  BY <1>1, <1>2, <1>4, LinkedGoesOn
<1>7. InTurn'
  BY <1>1, <1>3, <1>4, InTurnGoesOn
<1>8. Prefixes'
  <2>1. \A k \in 0..Len(transcript) : Stories(RoundsAt(k)')
    BY <1>1, <1>4, PastStays DEF IInv, Prefixes
  <2>2. ASSUME NEW k, k = Len(transcript') PROVE RoundsAt(k)' = Fold(transcript)'
    <3>1. SubSeq(transcript', 1, Len(transcript')) = transcript'
      BY <1>5
    <3>2. SubSeq(transcript', 1, k) = transcript'
      BY <2>2, <3>1
    <3> QED BY <3>2 DEF RoundsAt
  <2>3. Stories(Fold(transcript)')
    BY <1>1, <1>2, <1>4, FoldSays, StoryGoesOn
  <2>4. \A k \in 0..Len(transcript') : k \in 0..Len(transcript) \/ k = Len(transcript')
    BY <1>1, <1>5
  <2>5. \A k \in 0..Len(transcript') : Stories(RoundsAt(k)')
    BY <2>1, <2>2, <2>3, <2>4
  <2> QED BY <2>5 DEF Prefixes, Stories, Story
<1>9. UNCHANGED <<fetched, record, lines, persisted>>
  BY DEF SessionGoesOn
<1>10. Disk'
  <2>1. 0..Len(transcript) \subseteq 0..Len(transcript')
    BY <1>1, <1>5
  <2>2. \A n \in Rounds : WrittenAt(n, record[n]) => WrittenAt(n, record[n])'
    BY <1>1, <1>5, <1>9 DEF WrittenAt
  <2>3. \A n \in Rounds : (record[n] \in {None, Torn} \/ WrittenAt(n, record[n]))'
    BY <1>9, <2>2 DEF IInv, Disk
  <2>4. /\ fetched' \in [Polls -> 0..Len(transcript') \cup {None}]
        /\ persisted' \in 0..Len(transcript') \cup {None}
        /\ record' \in [Rounds -> 0..Len(transcript') \cup {None, Torn}]
        /\ lines' \in [Rounds -> 0..Len(transcript') \cup {None, Torn}]
    BY <1>9, <2>1 DEF IInv, Disk
  <2> QED BY <2>3, <2>4 DEF Disk, WrittenAt
<1>11. Kept'
  <2>1. ASSUME NEW n, NEW k \in 0..Len(transcript) PROVE LastOf(n, k)' = LastOf(n, k)
    <3>1. \A i \in 1..k : transcript'[i] = transcript[i]
      BY <1>1, <1>5
    <3> QED BY <3>1, LastOfStays
  <2> QED BY <1>9, <2>1 DEF IInv, Disk, Kept
<1> QED BY <1>5, <1>6, <1>7, <1>8, <1>10, <1>11 DEF IInv

\* The parts that only the session changes.
LEMMA SessionRests ==
    ASSUME IInv, UNCHANGED transcript
    PROVE  (transcript \in Seq(Messages) /\ Linked /\ InTurn /\ Prefixes)'
BY DEF IInv, Linked, Said, InTurn, OpenedTo, Prefixes, RoundsAt, Stories, Story

LEMMA FetchKeeps == ASSUME IInv, NEW p \in Polls, Fetch(p) PROVE IInv'
<1>1. (transcript \in Seq(Messages) /\ Linked /\ InTurn /\ Prefixes)'
  BY SessionRests DEF Fetch
<1>2. Len(transcript) \in 0..Len(transcript)
  BY LenProperties DEF IInv
<1>3. Disk'
  BY <1>2 DEF IInv, Disk, Fetch, WrittenAt
<1>4. Kept'
  <2>1. \A n, k : LastOf(n, k)' = LastOf(n, k)
    BY LastOfStays DEF Fetch
  <2> QED BY <2>1 DEF IInv, Kept, Fetch
<1> QED BY <1>1, <1>3, <1>4 DEF IInv

\* Writing leaves a file as it is, or makes it whole; the file it stops at is left as r
\* or l.
LEMMA WriteIs ==
    ASSUME NEW k \in Nat, NEW f, NEW r, NEW l, WriteRuns(k, f, r, l)
    PROVE  /\ record' = [n \in Rounds |-> record'[n]]
           /\ lines' = [n \in Rounds |-> lines'[n]]
           /\ \A n \in Rounds :
                /\ \/ record'[n] = record[n]
                   \/ LastOf(n, k) # None /\ record'[n] = LastOf(n, k)
                   \/ 2 * n - 2 = f /\ record'[n] = r
                /\ \/ lines'[n] = lines[n]
                   \/ LastOf(n, k) # None /\ lines'[n] = LastOf(n, k)
                   \/ 2 * n - 1 = f /\ lines'[n] = l
                /\ LastOf(n, k) # None =>
                     /\ 2 * n - 2 < f => record'[n] = LastOf(n, k)
                     /\ 2 * n - 1 < f => lines'[n] = LastOf(n, k)
BY DEF WriteRuns

LEMMA WriteKeeps ==
    ASSUME IInv, UNCHANGED transcript, NEW k \in 0..Len(transcript), NEW f, NEW r, NEW l,
           WriteRuns(k, f, r, l),
           \A n \in Rounds : 2 * n - 2 = f => r \in {record[n], Torn},
           \A n \in Rounds : 2 * n - 1 = f => l \in {lines[n], 0, Torn}
    PROVE  /\ record' \in [Rounds -> 0..Len(transcript) \cup {None, Torn}]
           /\ lines' \in [Rounds -> 0..Len(transcript) \cup {None, Torn}]
           /\ \A n \in Rounds : (record[n] \in {None, Torn} \/ WrittenAt(n, record[n]))'
<1>1. k \in Nat /\ Len(transcript) \in Nat /\ 0 \in 0..Len(transcript)
  BY LenProperties DEF IInv
<1>2. \A n \in Rounds : LastOf(n, k) # None =>
         LastOf(n, k) \in 0..Len(transcript) /\ WrittenAt(n, LastOf(n, k))
  BY <1>1, LastOfIs DEF WrittenAt
<1>3. \A n \in Rounds :
        /\ \/ record'[n] \in {record[n], Torn}
           \/ LastOf(n, k) # None /\ record'[n] = LastOf(n, k)
        /\ \/ lines'[n] \in {lines[n], 0, Torn}
           \/ LastOf(n, k) # None /\ lines'[n] = LastOf(n, k)
  BY <1>1, WriteIs
<1>4. \A n \in Rounds : /\ record[n] \in 0..Len(transcript) \cup {None, Torn}
                        /\ lines[n] \in 0..Len(transcript) \cup {None, Torn}
                        /\ record[n] \in {None, Torn} \/ WrittenAt(n, record[n])
  BY DEF IInv, Disk
<1>5. \A n \in Rounds : /\ record'[n] \in 0..Len(transcript) \cup {None, Torn}
                        /\ lines'[n] \in 0..Len(transcript) \cup {None, Torn}
                        /\ record'[n] \in {None, Torn} \/ WrittenAt(n, record'[n])
  BY <1>1, <1>2, <1>3, <1>4
<1>6. \A n, j : WrittenAt(n, j)' <=> WrittenAt(n, j)
  BY DEF WrittenAt
<1>7. /\ record' = [n \in Rounds |-> record'[n]]
      /\ lines' = [n \in Rounds |-> lines'[n]]
  BY <1>1, WriteIs
<1> QED BY <1>5, <1>6, <1>7

LEMMA PersistKeeps == ASSUME IInv, NEW p \in Polls, Persist(p) PROVE IInv'
<1>1. (transcript \in Seq(Messages) /\ Linked /\ InTurn /\ Prefixes)'
  BY SessionRests DEF Persist
<1>0. PICK k \in 0..Len(transcript) : k = fetched[p]
  BY DEF IInv, Disk, Persist
<1>2. k \in Nat /\ UNCHANGED transcript
  BY LenProperties DEF IInv, Persist
<1>3. WriteRuns(k, 2 * MaxRound, None, None)
  BY <1>0 DEF Persist
<1>4. \A n \in Rounds : /\ 2 * n - 2 < 2 * MaxRound /\ 2 * n - 1 < 2 * MaxRound
                        /\ 2 * n - 2 # 2 * MaxRound /\ 2 * n - 1 # 2 * MaxRound
  BY FeedAssumption DEF Rounds
<1>5. /\ fetched' \in [Polls -> 0..Len(transcript) \cup {None}]
      /\ persisted' = k
  BY <1>0 DEF Persist, IInv, Disk
<1>6. /\ record' \in [Rounds -> 0..Len(transcript) \cup {None, Torn}]
      /\ lines' \in [Rounds -> 0..Len(transcript) \cup {None, Torn}]
      /\ \A n \in Rounds : (record[n] \in {None, Torn} \/ WrittenAt(n, record[n]))'
  BY <1>2, <1>3, <1>4, WriteKeeps
<1>7. Disk'
  BY <1>2, <1>5, <1>6 DEF Disk
<1>8. Kept'
  <2>1. \A n \in Rounds : LastOf(n, k) # None =>
           record'[n] = LastOf(n, k) /\ lines'[n] = LastOf(n, k)
    BY <1>2, <1>3, <1>4, WriteIs
  <2>2. \A n, j : LastOf(n, j)' = LastOf(n, j)
    BY <1>2, LastOfStays
  <2> QED BY <1>5, <2>1, <2>2 DEF Kept
<1> QED BY <1>1, <1>7, <1>8 DEF IInv

LEMMA CrashKeeps == ASSUME IInv, Crash PROVE IInv'
<1>1. (transcript \in Seq(Messages) /\ Linked /\ InTurn /\ Prefixes)'
  BY SessionRests DEF Crash
<1>2. UNCHANGED transcript /\ fetched' = [p \in Polls |-> None]
  BY DEF Crash
<1>3. fetched' \in [Polls -> 0..Len(transcript) \cup {None}]
  BY <1>2
<1>4. CASE UNCHANGED <<record, lines, persisted>>
  <2>1. Disk'
    BY <1>2, <1>3, <1>4 DEF IInv, Disk, WrittenAt
  <2>2. Kept'
    <3>1. \A n, k : LastOf(n, k)' = LastOf(n, k)
      BY <1>2, LastOfStays
    <3> QED BY <1>4, <3>1 DEF IInv, Kept
  <2> QED BY <1>1, <2>1, <2>2 DEF IInv
<1>5. ASSUME NEW p \in Polls, NEW f \in 0..(2 * MaxRound - 1), NEW n, n = f \div 2 + 1,
             fetched[p] # None, persisted' = None,
             \/ f = 2 * n - 2 /\ \E r \in {record[n], Torn} : WriteRuns(fetched[p], f, r, None)
             \/ f = 2 * n - 1 /\ \E l \in {lines[n], 0, Torn} : WriteRuns(fetched[p], f, None, l)
      PROVE  IInv'
  <2>1. fetched[p] \in 0..Len(transcript)
    BY <1>5 DEF IInv, Disk
  <2>2. PICK r, l : /\ WriteRuns(fetched[p], f, r, l)
                    /\ \/ f = 2 * n - 2 /\ r \in {record[n], Torn}
                       \/ f = 2 * n - 1 /\ l \in {lines[n], 0, Torn}
    BY <1>5
  <2>3. n \in Int
    BY <1>5, FeedAssumption
  <2>4. /\ \A i \in Rounds : 2 * i - 2 = f => r \in {record[i], Torn}
        /\ \A i \in Rounds : 2 * i - 1 = f => l \in {lines[i], 0, Torn}
    <3>1. \A i \in Rounds : /\ i \in Int
                            /\ 2 * i - 2 = 2 * n - 2 => i = n
                            /\ 2 * i - 1 = 2 * n - 1 => i = n
                            /\ 2 * i - 2 # 2 * n - 1 /\ 2 * i - 1 # 2 * n - 2
      BY <2>3, FeedAssumption DEF Rounds
    <3> QED BY <2>2, <3>1
  <2>5. /\ record' \in [Rounds -> 0..Len(transcript) \cup {None, Torn}]
        /\ lines' \in [Rounds -> 0..Len(transcript) \cup {None, Torn}]
        /\ \A i \in Rounds : (record[i] \in {None, Torn} \/ WrittenAt(i, record[i]))'
    BY <1>2, <2>1, <2>2, <2>4, WriteKeeps
  <2>6. Disk'
    BY <1>2, <1>3, <1>5, <2>5 DEF Disk
  <2>7. Kept'
    BY <1>5 DEF Kept
  <2> QED BY <1>1, <2>6, <2>7 DEF IInv
<1>7. \/ UNCHANGED <<record, lines, persisted>>
      \/ \E p \in Polls, f \in 0..(2 * MaxRound - 1) : \E n :
           /\ n = f \div 2 + 1 /\ fetched[p] # None /\ persisted' = None
           /\ \/ f = 2 * n - 2 /\ \E r \in {record[n], Torn} :
                                     WriteRuns(fetched[p], f, r, None)
              \/ f = 2 * n - 1 /\ \E l \in {lines[n], 0, Torn} :
                                     WriteRuns(fetched[p], f, None, l)
  BY DEF Crash
<1> QED BY <1>4, <1>5, <1>7

LEMMA Inductive == Spec => []IInv
<1>1. ASSUME IInv, [Next]_vars PROVE IInv'
  <2>1. CASE UNCHANGED vars
    <3>1. (transcript \in Seq(Messages) /\ Linked /\ InTurn /\ Prefixes)'
      BY <1>1, <2>1, SessionRests DEF vars
    <3>2. Disk'
      BY <1>1, <2>1 DEF vars, IInv, Disk, WrittenAt
    <3>3. Kept'
      <4>1. \A n, k : LastOf(n, k)' = LastOf(n, k)
        BY <2>1, LastOfStays DEF vars
      <4> QED BY <1>1, <2>1, <4>1 DEF vars, IInv, Kept
    <3> QED BY <3>1, <3>2, <3>3 DEF IInv
  <2> QED BY <1>1, <2>1, SessionKeeps, CrashKeeps, FetchKeeps, PersistKeeps DEF Next
<1> QED BY InitIInv, <1>1, PTL DEF Spec
-----------------------------------------------------------------------------
(* Ratings. *)

OrOne(b) == IF b = 0 THEN 1 ELSE b

ScoreFrom(a, b, d, e, f) ==
    (2 * ((60 * e + 30 * b) * d + 10 * (d - f) * a) + a * d) \div (2 * a * d)

\* The arithmetic of a score: of a rounds won d were delivered, f of these failed, and e
\* were settled.
LEMMA ScoreBounds ==
    ASSUME NEW a \in Nat, NEW b \in Nat, NEW d \in Nat, NEW e \in Nat, NEW f \in Nat,
           a > 0, e <= b, b <= a, f <= b, d = OrOne(b)
    PROVE  /\ ScoreFrom(a, b, d, e, f) \in 0..100
           /\ ScoreFrom(a, b, d, e, f) = 100 => 120 * (a - e) <= a
<1>1. PICK x \in Nat : x = a * d
  OBVIOUS
<1>2. d > 0 /\ d \in Nat /\ x > 0 /\ f <= d
  <2>1. d > 0 /\ f <= d
    BY DEF OrOne
  <2> QED BY <1>1, <2>1
<1>3. PICK y \in Nat : y = e * d
  OBVIOUS
<1>4. PICK z \in Nat : z = b * d
  OBVIOUS
<1>5. PICK w \in Nat : w = (d - f) * a
  BY <1>2
<1>6. y <= z /\ z <= x /\ w <= x
  <2>1. y <= z
    BY <1>2, <1>3, <1>4
  <2>2. z <= x
    BY <1>1, <1>2, <1>4
  <2>3. x - w = f * a
    BY <1>1, <1>5
  <2>4. f * a >= 0
    OBVIOUS
  <2> QED BY <2>1, <2>2, <2>3, <2>4
<1> DEFINE num == (60 * e + 30 * b) * d + 10 * (d - f) * a
           over == 2 * num + a * d
           under == 2 * a * d
           score == over \div under
<1>7. over = 120 * y + 60 * z + 20 * w + x
  BY <1>1, <1>3, <1>4, <1>5
<1>8. under = 2 * x
  BY <1>1
<1>9. PICK N \in Nat, K \in Nat : N = over /\ K = under /\ K > 0
  BY <1>2, <1>7, <1>8
<1>10. /\ N \div K \in Int
       /\ K * (N \div K) <= N /\ N < K * (N \div K) + K
  BY <1>9
<1>11. PICK q \in Int : q = score /\ K * q <= N /\ N < K * q + K
  BY <1>9, <1>10
<1> HIDE DEF num, over, under, score
<1>12. N = 120 * y + 60 * z + 20 * w + x /\ K = 2 * x
  BY <1>7, <1>8, <1>9
<1>13. N <= 201 * x
  BY <1>6, <1>12
<1>14. q \in 0..100
  <2>1. CASE q >= 101
    <3>1. K * q >= K * 101
      BY <1>9, <2>1
    <3> QED BY <1>2, <1>11, <1>12, <1>13, <3>1
  <2>2. CASE q <= -1
    <3>1. K * q <= K * (-1)
      BY <1>9, <2>2
    <3> QED BY <1>9, <1>11, <3>1
  <2> QED BY <2>1, <2>2
<1>15. ASSUME q = 100 PROVE 120 * (a - e) <= a
  <2>1. 200 * x <= N
    BY <1>11, <1>12, <1>15
  <2>2. 119 * x <= 120 * y
    BY <1>6, <1>12, <2>1
  <2>3. SUFFICES ASSUME 119 * a > 120 * e PROVE FALSE
    OBVIOUS
  <2>4. 119 * a - 120 * e \in Nat /\ 119 * a - 120 * e > 0
    BY <2>3
  <2>5. (119 * a - 120 * e) * d > 0
    BY <1>2, <2>4
  <2>6. (119 * a - 120 * e) * d = 119 * x - 120 * y
    BY <1>1, <1>3
  <2> QED BY <2>2, <2>5, <2>6
<1> QED BY <1>11, <1>14, <1>15 DEF score, over, under, num, ScoreFrom

\* What is on disk of a round was folded at a moment of the session.
LEMMA RecordIs ==
    ASSUME IInv, Readable, NEW n \in OnDisk
    PROVE  \E r : Story(r) /\ RecordOf(n) = RunRecord(r)
<1>1. WrittenAt(n, record[n]) /\ n \in Rounds
  BY DEF IInv, Disk, Readable, OnDisk
<1>2. /\ record[n] \in 1..Len(transcript) /\ record[n] \in 0..Len(transcript)
      /\ transcript[record[n]].round = n
  BY <1>1, LenProperties DEF WrittenAt, IInv
<1>3. RoundsAt(record[n])[n] # None
  BY <1>2, SpokenIsThere DEF IInv
<1>4. Story(RoundsAt(record[n])[n])
  BY <1>1, <1>2, <1>3 DEF IInv, Prefixes, Stories
<1> QED BY <1>4 DEF RecordOf, RoundsAt

LEMMA WonCounts ==
    ASSUME IInv, Readable, NEW s, Won(s) # {}
    PROVE  /\ Awarded(s) \in Nat /\ Delivered(s) \in Nat /\ SettledRounds(s) \in Nat
           /\ Failed(s) \in Nat /\ Awarded(s) > 0
           /\ SettledRounds(s) <= Delivered(s) /\ Delivered(s) <= Awarded(s)
           /\ Failed(s) <= Delivered(s)
<1> DEFINE D == {n \in Won(s) : RecordOf(n).delivery}
           S == {n \in Won(s) : "release" \in RecordOf(n).txs}
           F == {n \in Won(s) : RecordOf(n).verdict = "fail"}
<1>1. IsFiniteSet(Won(s))
  <2>1. IsFiniteSet(Rounds)
    BY FeedAssumption, FS_Interval DEF Rounds
  <2>2. Won(s) \subseteq Rounds
    BY DEF Won, OnDisk
  <2> QED BY <2>1, <2>2, FS_Subset
<1>2. ASSUME NEW n \in Won(s)
      PROVE  /\ "release" \in RecordOf(n).txs => RecordOf(n).delivery
             /\ RecordOf(n).verdict = "fail" => RecordOf(n).delivery
  <2>1. n \in OnDisk
    BY DEF Won
  <2>2. PICK r : Story(r) /\ RecordOf(n) = RunRecord(r)
    BY <2>1, RecordIs
  <2>3. /\ "release" \in RecordOf(n).txs <=> r.release
        /\ RecordOf(n).delivery = r.delivered /\ RecordOf(n).verdict = r.verdict
    BY <2>2 DEF RunRecord, Story, RoundRecords
  <2>4. "fail" # None
    BY FeedAssumption
  <2> QED BY <2>2, <2>3, <2>4 DEF Story
<1>3. S \subseteq D /\ F \subseteq D /\ D \subseteq Won(s)
  BY <1>2
<1> HIDE DEF S, F, D
<1>4. IsFiniteSet(D) /\ IsFiniteSet(S) /\ IsFiniteSet(F)
  BY <1>1, <1>3, FS_Subset
<1>5. /\ Cardinality(Won(s)) \in Nat /\ Cardinality(D) \in Nat
      /\ Cardinality(S) \in Nat /\ Cardinality(F) \in Nat
  BY <1>1, <1>4, FS_CardinalityType
<1>6. /\ Cardinality(S) <= Cardinality(D) /\ Cardinality(F) <= Cardinality(D)
      /\ Cardinality(D) <= Cardinality(Won(s))
  BY <1>1, <1>3, <1>4, FS_Subset
<1>7. Cardinality(Won(s)) # 0
  BY <1>1, FS_EmptySet
<1> QED BY <1>5, <1>6, <1>7 DEF Awarded, Delivered, SettledRounds, Failed, S, D, F

\* ledger/reputation.ts: a rating stays from 0 to 100, and a seller with 100 was paid for
\* all it won (but one round in 120), whatever polls and crashes left on disk.
THEOREM RatedFairly == Spec => []RatingSound
<1>1. ASSUME IInv PROVE RatingSound
  <2> SUFFICES ASSUME Readable, NEW s \in Sellers, Won(s) # {}
               PROVE  /\ Score(s) \in 0..100
                      /\ SettledRounds(s) <= Delivered(s) /\ Delivered(s) <= Awarded(s)
                      /\ Score(s) = 100 => 120 * (Awarded(s) - SettledRounds(s)) <= Awarded(s)
    BY DEF RatingSound
  <2>1. /\ Awarded(s) \in Nat /\ Delivered(s) \in Nat /\ SettledRounds(s) \in Nat
        /\ Failed(s) \in Nat /\ Awarded(s) > 0
        /\ SettledRounds(s) <= Delivered(s) /\ Delivered(s) <= Awarded(s)
        /\ Failed(s) <= Delivered(s)
    BY <1>1, WonCounts
  <2>2. PICK a \in Nat, b \in Nat, e \in Nat, f \in Nat :
          /\ a = Awarded(s) /\ b = Delivered(s) /\ e = SettledRounds(s) /\ f = Failed(s)
          /\ a > 0 /\ e <= b /\ b <= a /\ f <= b
    BY <2>1
  <2>3. PICK d \in Nat : d = OrOne(b)
    BY <2>2 DEF OrOne
  <2>4. /\ ScoreFrom(a, b, d, e, f) \in 0..100
        /\ ScoreFrom(a, b, d, e, f) = 100 => 120 * (a - e) <= a
    <3>1. a > 0 /\ e <= b /\ b <= a /\ f <= b
      BY <2>2
    <3> QED BY <2>3, <3>1, ScoreBounds
  <2>5. Score(s) = ScoreFrom(a, b, d, e, f)
    BY <2>2, <2>3 DEF Score, ScoreFrom, OrOne
  <2> QED BY <2>1, <2>2, <2>4, <2>5
<1> QED BY Inductive, <1>1, PTL
-----------------------------------------------------------------------------
\* The feed never writes, nor believes to have fetched, more than was said.
THEOREM FeedTypeCorrect == Spec => []TypeOK
<1>1. IInv => TypeOK
  BY DEF IInv, Disk, TypeOK
<1> QED BY Inductive, <1>1, PTL

\* fold.ts: a round is shown at the furthest stage it has reached, however late what is
\* said of it comes.
THEOREM ShownAtFurthestStage == Spec => []StatusIsFurthestStage
<1>1. ASSUME IInv PROVE StatusIsFurthestStage
  <2> SUFFICES ASSUME NEW n \in 1..Present
               PROVE  \E i \in Reached(n) :
                         /\ \A j \in Reached(n) : i <= j
                         /\ Fold(transcript)[n].status = Stages[i].status
    BY DEF StatusIsFurthestStage
  <2>1. PICK p \in 0..MaxRound : OpenedTo(p)
    BY <1>1 DEF IInv, InTurn
  <2>2. n \in 1..p /\ n \in Rounds /\ Said(n, "WANT")
    BY <2>1, PresentIs, FeedAssumption DEF OpenedTo, Rounds
  <2>3. PICK r : r = Fold(transcript)[n]
    OBVIOUS
  <2>4. /\ Said(n, "AWARD") <=> r.award # None
        /\ Said(n, "DEPOSITED") <=> r.deposit
        /\ Said(n, "DELIVERED") <=> r.delivered
        /\ (\E v \in Releases : Said(n, v)) <=> r.release
        /\ r # None
    BY <1>1, <2>2, <2>3 DEF IInv, Linked
  <2>5. Story(r)
    <3>1. Len(transcript) \in 0..Len(transcript)
      BY <1>1, LenProperties DEF IInv
    <3>2. Stories(Fold(transcript))
      BY <1>1, <3>1, NowIs DEF IInv, Prefixes
    <3> QED BY <2>2, <2>3, <2>4, <3>2 DEF Stories
  <2>6. \A i \in 1..5 : i \in Reached(n) <=> \E v \in Stages[i].verbs : Said(n, v)
    BY DEF Reached
  <2>7. Reached(n) \subseteq 1..5
    BY DEF Reached
  <2>8. /\ 1 \in Reached(n) <=> r.release
        /\ 2 \in Reached(n) <=> r.delivered
        /\ 3 \in Reached(n) <=> r.deposit
        /\ 4 \in Reached(n) <=> r.award # None
        /\ 5 \in Reached(n)
    BY <2>2, <2>4, <2>6 DEF Stages
  <2>9. /\ Stages[1].status = "settled" /\ Stages[2].status = "delivered"
        /\ Stages[3].status = "deposited" /\ Stages[4].status = "awarded"
        /\ Stages[5].status = "bidding"
    BY DEF Stages
  <2>10. CASE r.release
    <3>1. \A j \in Reached(n) : 1 <= j
      BY <2>7
    <3> QED BY <2>3, <2>5, <2>8, <2>9, <2>10, <3>1 DEF Story
  <2>11. CASE ~r.release /\ r.delivered
    <3>1. \A j \in Reached(n) : 2 <= j
      BY <2>7, <2>8, <2>11
    <3> QED BY <2>3, <2>5, <2>8, <2>9, <2>11, <3>1 DEF Story
  <2>12. CASE ~r.release /\ ~r.delivered /\ r.deposit
    <3>1. \A j \in Reached(n) : 3 <= j
      BY <2>7, <2>8, <2>12
    <3> QED BY <2>3, <2>5, <2>8, <2>9, <2>12, <3>1 DEF Story
  <2>13. CASE ~r.release /\ ~r.delivered /\ ~r.deposit /\ r.award # None
    <3>1. \A j \in Reached(n) : 4 <= j
      BY <2>7, <2>8, <2>13
    <3> QED BY <2>3, <2>5, <2>8, <2>9, <2>13, <3>1 DEF Story
  <2>14. CASE ~r.release /\ ~r.delivered /\ ~r.deposit /\ r.award = None
    <3>1. \A j \in Reached(n) : 5 <= j
      BY <2>7, <2>8, <2>14
    <3> QED BY <2>3, <2>5, <2>8, <2>9, <2>14, <3>1 DEF Story
  <2> QED BY <2>10, <2>11, <2>12, <2>13, <2>14
<1> QED BY Inductive, <1>1, PTL
-----------------------------------------------------------------------------
(* Reading the disk back. *)

\* A recursion over the numbers up to k has a solution.
Turns(V, k) == [V \X (1..k) -> V]
Solves(f, V, base, k, Turn) ==
    /\ f \in [0..k -> V] /\ f[0] = base
    /\ \A i \in 1..k : f[i] = Turn[<<f[i - 1], i>>]

LEMMA Recursion ==
    ASSUME NEW V, NEW base \in V, NEW k \in Nat, NEW Turn \in Turns(V, k)
    PROVE  \E f : Solves(f, V, base, k, Turn)
<1> DEFINE Solved(j) == \E f \in [0..j -> V] :
                          f[0] = base /\ \A i \in 1..j : f[i] = Turn[<<f[i - 1], i>>]
           G == {j \in Nat : j <= k => Solved(j)}
<1>1. 0 \in G
  <2> DEFINE f == [i \in 0..0 |-> base]
  <2>1. f \in [0..0 -> V] /\ f[0] = base /\ \A i \in 1..0 : f[i] = Turn[<<f[i - 1], i>>]
    OBVIOUS
  <2> HIDE DEF f
  <2> QED BY <2>1
<1>2. ASSUME NEW j \in Nat, j \in G PROVE j + 1 \in G
  <2> SUFFICES ASSUME j + 1 <= k PROVE Solved(j + 1)
    OBVIOUS
  <2>1. PICK f \in [0..j -> V] : f[0] = base /\ \A i \in 1..j : f[i] = Turn[<<f[i - 1], i>>]
    BY <1>2
  <2>2. PICK v \in V : v = Turn[<<f[j], j + 1>>]
    BY DEF Turns
  <2> DEFINE g == [i \in 0..(j + 1) |-> IF i = j + 1 THEN v ELSE f[i]]
  <2>3. g \in [0..(j + 1) -> V] /\ g[0] = base
    BY <2>1
  <2>4. /\ g[j + 1] = v /\ \A i \in 0..j : g[i] = f[i]
    OBVIOUS
  <2> HIDE DEF g
  <2>5. ASSUME NEW i \in 1..(j + 1) PROVE g[i] = Turn[<<g[i - 1], i>>]
    <3>1. i - 1 \in 0..j /\ g[i - 1] = f[i - 1]
      BY <2>4
    <3>2. CASE i = j + 1
      BY <2>2, <2>4, <3>1, <3>2
    <3>3. CASE i \in 1..j
      BY <2>1, <2>4, <3>1, <3>3
    <3> QED BY <3>2, <3>3
  <2> QED BY <2>3, <2>5
<1>3. k \in G
  <2> HIDE DEF G
  <2> QED BY <1>1, <1>2, NatSet
<1> QED BY <1>3 DEF Solves

\* One step of picking out the messages of a round.
Keep(ms, n, kept, i) == IF ms[i].round = n THEN Append(kept, ms[i]) ELSE kept

LEMMA KeptTurns ==
    ASSUME NEW ms \in Seq(Messages), NEW n
    PROVE  \E f \in [0..Len(ms) -> Seq(Messages)] :
              /\ f[0] = <<>>
              /\ \A i \in 1..Len(ms) : f[i] = Keep(ms, n, f[i - 1], i)
              /\ RoundTranscript(ms, n) = f[Len(ms)]
<1> DEFINE V == Seq(Messages)
           k == Len(ms)
           Turn == [x \in V \X (1..k) |-> Keep(ms, n, x[1], x[2])]
<1>1. k \in Nat /\ <<>> \in V /\ \A i \in 1..k : ms[i] \in Messages
  BY ElementOfSeq, EmptySeq, LenProperties
<1>2. ASSUME NEW s \in V, NEW i \in 1..k PROVE Keep(ms, n, s, i) \in V
  BY <1>1, AppendProperties DEF Keep
<1>3. Turn \in Turns(V, k)
  BY <1>2 DEF Turns
<1>4. PICK f \in [0..k -> V] : f[0] = <<>> /\ \A i \in 1..k : f[i] = Turn[<<f[i - 1], i>>]
  <2>1. PICK e \in V : e = <<>>
    BY <1>1
  <2>2. k \in Nat
    BY <1>1
  <2> HIDE DEF V, k, Turn
  <2>3. \E f : Solves(f, V, e, k, Turn)
    BY <1>3, <2>2, Recursion, Zenon
  <2> QED BY <2>1, <2>3 DEF Solves
<1>5. \A i \in 1..k : f[i] = Keep(ms, n, f[i - 1], i)
  <2> SUFFICES ASSUME NEW i \in 1..k PROVE f[i] = Keep(ms, n, f[i - 1], i)
    OBVIOUS
  <2>1. i - 1 \in 0..k
    BY <1>1
  <2>2. <<f[i - 1], i>> \in V \X (1..k)
    BY <2>1
  <2>3. Turn[<<f[i - 1], i>>] = Keep(ms, n, f[i - 1], i)
    <3> HIDE DEF V, k
    <3> QED BY <2>2
  <2> QED BY <1>4, <2>3
<1> DEFINE Rec(g) == [i \in 0..Len(ms) |->
                        IF i = 0 THEN <<>>
                        ELSE IF ms[i].round = n THEN Append(g[i - 1], ms[i]) ELSE g[i - 1]]
           kept[i \in 0..Len(ms)] ==
             IF i = 0 THEN <<>>
             ELSE IF ms[i].round = n THEN Append(kept[i - 1], ms[i]) ELSE kept[i - 1]
<1>6. ASSUME NEW i \in 0..k PROVE f[i] = IF i = 0 THEN <<>> ELSE Keep(ms, n, f[i - 1], i)
  <2>1. i = 0 \/ i \in 1..k
    BY <1>1
  <2> QED BY <1>4, <1>5, <2>1
<1>7. f = Rec(f)
  <2>1. f = [i \in 0..k |-> f[i]]
    OBVIOUS
  <2> QED BY <1>6, <2>1 DEF Keep
<1>8. \E g : g = [i \in 0..Len(ms) |->
                    IF i = 0 THEN <<>>
                    ELSE IF ms[i].round = n THEN Append(g[i - 1], ms[i]) ELSE g[i - 1]]
  BY <1>7
<1>9. kept = [i \in 0..Len(ms) |->
                IF i = 0 THEN <<>>
                ELSE IF ms[i].round = n THEN Append(kept[i - 1], ms[i]) ELSE kept[i - 1]]
  BY <1>8
<1>10. RoundTranscript(ms, n) = kept[k]
  BY DEF RoundTranscript
<1> HIDE DEF kept
<1> DEFINE G == {i \in Nat : i <= k => kept[i] = f[i]}
<1>11. 0 \in G
  BY <1>1, <1>4, <1>9
<1>12. ASSUME NEW i \in Nat, i \in G PROVE i + 1 \in G
  <2> SUFFICES ASSUME i + 1 <= k PROVE kept[i + 1] = f[i + 1]
    OBVIOUS
  <2>1. /\ i + 1 \in 0..k /\ i + 1 \in 1..k /\ i + 1 # 0 /\ (i + 1) - 1 = i
        /\ kept[i] = f[i]
    BY <1>1, <1>12
  <2>2. kept[i + 1] = Keep(ms, n, kept[i], i + 1)
    <3> HIDE DEF G
    <3> QED BY <1>9, <2>1 DEF Keep
  <2>3. f[i + 1] = Keep(ms, n, f[i], i + 1)
    BY <1>5, <2>1
  <2> QED BY <2>1, <2>2, <2>3
<1>13. k \in G
  <2> HIDE DEF G
  <2> QED BY <1>1, <1>11, <1>12, NatSet
<1>14. RoundTranscript(ms, n) = f[k]
  BY <1>1, <1>10, <1>13
<1> QED BY <1>4, <1>5, <1>14

LEMMA KeptNothing == \A n : RoundTranscript(<<>>, n) = <<>>
<1> SUFFICES ASSUME NEW n PROVE RoundTranscript(<<>>, n) = <<>>
  OBVIOUS
<1>1. <<>> \in Seq(Messages) /\ Len(<<>>) = 0
  BY EmptySeq
<1>2. PICK f \in [0..Len(<<>>) -> Seq(Messages)] :
        f[0] = <<>> /\ RoundTranscript(<<>>, n) = f[Len(<<>>)]
  BY <1>1, KeptTurns
<1> QED BY <1>1, <1>2

LEMMA KeptMore ==
    ASSUME NEW ms \in Seq(Messages), NEW m \in Messages, NEW n
    PROVE  /\ RoundTranscript(ms, n) \in Seq(Messages)
           /\ RoundTranscript(Append(ms, m), n) =
                 IF m.round = n THEN Append(RoundTranscript(ms, n), m)
                 ELSE RoundTranscript(ms, n)
<1> DEFINE ns == Append(ms, m)
           k == Len(ms)
<1>1. /\ ns \in Seq(Messages) /\ k \in Nat /\ Len(ns) = k + 1 /\ ns[k + 1] = m
      /\ \A i \in 1..k : ns[i] = ms[i]
  BY AppendProperties, LenProperties
<1>2. PICK f \in [0..k -> Seq(Messages)] :
        /\ f[0] = <<>> /\ \A i \in 1..k : f[i] = Keep(ms, n, f[i - 1], i)
        /\ RoundTranscript(ms, n) = f[k]
  BY KeptTurns
<1> HIDE DEF ns, k
<1>3. PICK g \in [0..Len(ns) -> Seq(Messages)] :
        /\ g[0] = <<>> /\ \A i \in 1..Len(ns) : g[i] = Keep(ns, n, g[i - 1], i)
        /\ RoundTranscript(ns, n) = g[Len(ns)]
  BY <1>1, KeptTurns
<1> DEFINE G == {i \in Nat : i <= k => f[i] = g[i]}
<1>4. 0 \in G
  BY <1>2, <1>3
<1>5. ASSUME NEW i \in Nat, i \in G PROVE i + 1 \in G
  <2> SUFFICES ASSUME i + 1 <= k PROVE f[i + 1] = g[i + 1]
    OBVIOUS
  <2>1. /\ i + 1 \in 1..k /\ i + 1 \in 1..Len(ns) /\ (i + 1) - 1 = i
        /\ ns[i + 1] = ms[i + 1] /\ f[i] = g[i]
    <3>1. /\ i + 1 \in 1..k /\ i + 1 \in 1..Len(ns) /\ (i + 1) - 1 = i
          /\ ns[i + 1] = ms[i + 1] /\ i <= k
      BY <1>1
    <3>2. f[i] = g[i]
      BY <1>5, <3>1
    <3> QED BY <3>1, <3>2
  <2>2. f[i + 1] = Keep(ms, n, f[i], i + 1)
    BY <1>2, <2>1
  <2>3. g[i + 1] = Keep(ns, n, g[i], i + 1)
    BY <1>3, <2>1
  <2> QED BY <2>1, <2>2, <2>3 DEF Keep
<1>6. k \in G
  <2> HIDE DEF G
  <2> QED BY <1>1, <1>4, <1>5, NatSet
<1>7. g[k + 1] = Keep(ns, n, g[k], k + 1)
  <2>1. k + 1 \in 1..Len(ns) /\ (k + 1) - 1 = k
    BY <1>1
  <2> QED BY <1>3, <2>1
<1>8. RoundTranscript(ms, n) \in Seq(Messages)
  BY <1>1, <1>2
<1>9. RoundTranscript(ns, n) = IF m.round = n THEN Append(f[k], m) ELSE f[k]
  BY <1>1, <1>3, <1>6, <1>7 DEF Keep
<1> QED BY <1>2, <1>8, <1>9 DEF ns

\* All that sequences of messages say of a round.
Silent(ms, n) == \A i \in 1..Len(ms) : ms[i].round # n
OnlyOf(ms, n) == \A i \in 1..Len(ms) : ms[i].round = n

LEMMA AppendSays ==
    ASSUME NEW ms \in Seq(Messages), NEW m \in Messages, NEW n
    PROVE  /\ Append(ms, m) \in Seq(Messages)
           /\ Silent(Append(ms, m), n) <=> Silent(ms, n) /\ m.round # n
           /\ OnlyOf(ms, n) /\ m.round = n => OnlyOf(Append(ms, m), n)
<1> DEFINE ns == Append(ms, m)
           k == Len(ms)
<1>1. /\ ns \in Seq(Messages) /\ k \in Nat /\ Len(ns) = k + 1 /\ ns[k + 1] = m
      /\ \A i \in 1..k : ns[i] = ms[i]
  BY AppendProperties, LenProperties
<1> HIDE DEF ns, k
<1>2. \A i \in 1..Len(ns) : i \in 1..k \/ i = k + 1
  BY <1>1
<1>3. 1..k \subseteq 1..Len(ns) /\ k + 1 \in 1..Len(ns)
  BY <1>1
<1>4. Silent(ns, n) <=> Silent(ms, n) /\ m.round # n
  BY <1>1, <1>2, <1>3 DEF Silent, k
<1>5. OnlyOf(ms, n) /\ m.round = n => OnlyOf(ns, n)
  BY <1>1, <1>2 DEF OnlyOf, k
<1> QED BY <1>1, <1>4, <1>5 DEF ns

\* A round's messages, folded, make the round that all the messages make.
LEMMA FoldKept ==
    ASSUME NEW n \in Rounds
    PROVE  \A ms \in Seq(Messages) :
              /\ RoundTranscript(ms, n) \in Seq(Messages)
              /\ OnlyOf(RoundTranscript(ms, n), n)
              /\ Fold(RoundTranscript(ms, n))[n] = Fold(ms)[n]
<1> DEFINE Fine(ms) == /\ RoundTranscript(ms, n) \in Seq(Messages)
                       /\ OnlyOf(RoundTranscript(ms, n), n)
                       /\ Fold(RoundTranscript(ms, n))[n] = Fold(ms)[n]
           G == {ms \in Seq(Messages) : Fine(ms)}
<1>1. <<>> \in G
  <2>1. <<>> \in Seq(Messages) /\ RoundTranscript(<<>>, n) = <<>>
    BY EmptySeq, KeptNothing
  <2>2. OnlyOf(<<>>, n)
    BY DEF OnlyOf
  <2> QED BY <2>1, <2>2
<1>2. ASSUME NEW ms \in Seq(Messages), NEW m \in Messages, ms \in G
      PROVE  Append(ms, m) \in G
  <2>1. Append(ms, m) \in Seq(Messages)
    BY AppendSays
  <2>2. PICK kept \in Seq(Messages) : kept = RoundTranscript(ms, n)
    BY KeptMore
  <2>3. OnlyOf(kept, n) /\ Fold(kept)[n] = Fold(ms)[n]
    BY <1>2, <2>2
  <2>4. Fold(Append(ms, m)) = Heard(Fold(ms), m) /\ Fold(Append(kept, m)) = Heard(Fold(kept), m)
    BY FoldMore
  <2>5. Fold(ms) \in RoundMaps /\ Fold(kept) \in RoundMaps
    BY FoldType
  <2>6. CASE m.round = n
    <3>1. RoundTranscript(Append(ms, m), n) = Append(kept, m)
      BY <2>2, <2>6, KeptMore
    <3>2. Append(kept, m) \in Seq(Messages) /\ OnlyOf(Append(kept, m), n)
      BY <2>3, <2>6, AppendSays
    <3>3. /\ Heard(Fold(ms), m)[n] = Told(IF Fold(ms)[n] = None THEN NewRound ELSE Fold(ms)[n], m)
          /\ Heard(Fold(kept), m)[n] =
               Told(IF Fold(kept)[n] = None THEN NewRound ELSE Fold(kept)[n], m)
      BY <2>5, <2>6, HeardIs
    <3> QED BY <2>1, <2>3, <2>4, <3>1, <3>2, <3>3
  <2>7. CASE m.round # n
    <3>1. RoundTranscript(Append(ms, m), n) = kept
      BY <2>2, <2>7, KeptMore
    <3>2. Heard(Fold(ms), m)[n] = Fold(ms)[n]
      BY <2>5, <2>7, HeardIs
    <3> QED BY <2>1, <2>3, <2>4, <3>1, <3>2
  <2> QED BY <2>6, <2>7
<1>3. \A ms \in Seq(Messages) : ms \in G
  <2> HIDE DEF G
  <2> QED BY <1>1, <1>2, SeqSet
<1> QED BY <1>3

\* Messages said after others change nothing of a round they are silent about, and all of
\* one that the others were silent about.
LEMMA FoldConcat ==
    ASSUME NEW as \in Seq(Messages), NEW n \in Rounds
    PROVE  \A bs \in Seq(Messages) :
              /\ as \o bs \in Seq(Messages)
              /\ Silent(as, n) => (Silent(as \o bs, n) <=> Silent(bs, n))
              /\ Silent(bs, n) => Fold(as \o bs)[n] = Fold(as)[n]
              /\ Fold(as)[n] = None => Fold(as \o bs)[n] = Fold(bs)[n]
<1> DEFINE Fine(bs) == /\ as \o bs \in Seq(Messages)
                       /\ Silent(as, n) => (Silent(as \o bs, n) <=> Silent(bs, n))
                       /\ Silent(bs, n) => Fold(as \o bs)[n] = Fold(as)[n]
                       /\ Fold(as)[n] = None => Fold(as \o bs)[n] = Fold(bs)[n]
           G == {bs \in Seq(Messages) : Fine(bs)}
<1>1. <<>> \in G
  <2>1. <<>> \in Seq(Messages) /\ as \o <<>> = as
    BY EmptySeq, ConcatEmptySeq
  <2>2. Silent(<<>>, n)
    BY DEF Silent
  <2>3. Fold(<<>>)[n] = None
    BY FoldNothing DEF NoRounds
  <2> QED BY <2>1, <2>2, <2>3
<1>2. ASSUME NEW bs \in Seq(Messages), NEW m \in Messages, bs \in G
      PROVE  Append(bs, m) \in G
  <2>1. as \o bs \in Seq(Messages) /\ Append(bs, m) \in Seq(Messages)
    BY <1>2, AppendSays
  <2>2. PICK cs \in Seq(Messages) : cs = as \o bs
    BY <2>1
  <2>3. as \o Append(bs, m) = Append(cs, m)
    <3>1. /\ Len(as) \in Nat /\ Len(bs) \in Nat /\ Len(cs) = Len(as) + Len(bs)
          /\ \A i \in 1..Len(cs) : cs[i] = IF i <= Len(as) THEN as[i] ELSE bs[i - Len(as)]
      <4>1. /\ Len(as \o bs) = Len(as) + Len(bs)
            /\ \A i \in 1..(Len(as) + Len(bs)) : (as \o bs)[i] =
                  IF i <= Len(as) THEN as[i] ELSE bs[i - Len(as)]
        BY ConcatProperties
      <4>2. Len(as) \in Nat /\ Len(bs) \in Nat
        BY LenProperties
      <4>3. Len(cs) = Len(as) + Len(bs)
        BY <2>2, <4>1
      <4>4. \A i \in 1..Len(cs) : cs[i] = IF i <= Len(as) THEN as[i] ELSE bs[i - Len(as)]
        BY <2>2, <4>1, <4>3
      <4> QED BY <4>2, <4>3, <4>4
    <3>2. /\ Len(Append(bs, m)) = Len(bs) + 1 /\ Append(bs, m)[Len(bs) + 1] = m
          /\ \A i \in 1..Len(bs) : Append(bs, m)[i] = bs[i]
          /\ Len(Append(cs, m)) = Len(cs) + 1 /\ Append(cs, m)[Len(cs) + 1] = m
          /\ \A i \in 1..Len(cs) : Append(cs, m)[i] = cs[i]
          /\ Append(cs, m) \in Seq(Messages)
      BY AppendProperties
    <3>3. /\ as \o Append(bs, m) \in Seq(Messages)
          /\ Len(as \o Append(bs, m)) = Len(as) + Len(Append(bs, m))
          /\ \A i \in 1..(Len(as) + Len(Append(bs, m))) :
                (as \o Append(bs, m))[i] =
                   IF i <= Len(as) THEN as[i] ELSE Append(bs, m)[i - Len(as)]
      BY <2>1, ConcatProperties
    <3>4. PICK a \in Nat, b \in Nat : a = Len(as) /\ b = Len(bs) /\ Len(cs) = a + b
      BY <3>1
    <3>5. PICK ds \in Seq(Messages) : ds = Append(bs, m)
      BY <2>1
    <3>6. PICK es \in Seq(Messages) : es = Append(cs, m)
      BY <3>2
    <3>7. PICK fs \in Seq(Messages) : fs = as \o ds
      BY <3>3, <3>5
    <3>8. /\ Len(ds) = b + 1 /\ ds[b + 1] = m /\ \A i \in 1..b : ds[i] = bs[i]
      BY <3>2, <3>4, <3>5
    <3>11. /\ Len(es) = a + b + 1 /\ es[a + b + 1] = m /\ \A i \in 1..(a + b) : es[i] = cs[i]
      BY <3>2, <3>4, <3>6
    <3>12. /\ Len(fs) = a + (b + 1)
           /\ \A i \in 1..(a + (b + 1)) : fs[i] = IF i <= a THEN as[i] ELSE ds[i - a]
      <4>1. /\ Len(as \o ds) = Len(as) + Len(ds)
            /\ \A i \in 1..(Len(as) + Len(ds)) :
                  (as \o ds)[i] = IF i <= Len(as) THEN as[i] ELSE ds[i - Len(as)]
        BY ConcatProperties
      <4> QED BY <3>4, <3>7, <3>8, <4>1
    <3>13. \A i \in 1..(a + b) : cs[i] = IF i <= a THEN as[i] ELSE bs[i - a]
      BY <3>1, <3>4
    <3>9. ASSUME NEW i \in 1..(a + b + 1) PROVE fs[i] = es[i]
      <4>1. CASE i = a + b + 1
        <5>1. i - a = b + 1 /\ ~(i <= a) /\ i \in 1..(a + (b + 1))
          BY <4>1
        <5> QED BY <3>8, <3>11, <3>12, <4>1, <5>1
      <4>2. CASE i <= a
        <5>1. i \in 1..(a + b) /\ i \in 1..(a + (b + 1))
          BY <4>2
        <5> QED BY <3>11, <3>12, <3>13, <4>2, <5>1
      <4>3. CASE i \in 1..(a + b) /\ i > a
        <5>1. i - a \in 1..b /\ ~(i <= a) /\ i \in 1..(a + (b + 1))
          BY <4>3
        <5> QED BY <3>8, <3>11, <3>12, <3>13, <4>3, <5>1
      <4> QED BY <4>1, <4>2, <4>3
    <3>10. fs = es
      <4>1. Len(fs) = a + b + 1 /\ Len(es) = a + b + 1
        BY <3>11, <3>12
      <4> QED BY <3>9, <4>1, SeqEqual
    <3> QED BY <3>5, <3>6, <3>7, <3>10
  <2>4. /\ Silent(as, n) => (Silent(cs, n) <=> Silent(bs, n))
        /\ Silent(bs, n) => Fold(cs)[n] = Fold(as)[n]
        /\ Fold(as)[n] = None => Fold(cs)[n] = Fold(bs)[n]
    BY <1>2, <2>2
  <2>5. /\ Fold(Append(cs, m)) = Heard(Fold(cs), m) /\ Fold(Append(bs, m)) = Heard(Fold(bs), m)
        /\ Fold(cs) \in RoundMaps /\ Fold(bs) \in RoundMaps
    BY FoldMore, FoldType
  <2>6. /\ Append(cs, m) \in Seq(Messages)
        /\ Silent(Append(cs, m), n) <=> Silent(cs, n) /\ m.round # n
        /\ Silent(Append(bs, m), n) <=> Silent(bs, n) /\ m.round # n
    BY AppendSays
  <2>7. m.round # n => Heard(Fold(cs), m)[n] = Fold(cs)[n] /\ Heard(Fold(bs), m)[n] = Fold(bs)[n]
    BY <2>5, HeardIs
  <2>8. m.round = n =>
          /\ Heard(Fold(cs), m)[n] = Told(IF Fold(cs)[n] = None THEN NewRound ELSE Fold(cs)[n], m)
          /\ Heard(Fold(bs), m)[n] = Told(IF Fold(bs)[n] = None THEN NewRound ELSE Fold(bs)[n], m)
    BY <2>5, HeardIs
  <2>9. Fold(as)[n] = None => Heard(Fold(cs), m)[n] = Heard(Fold(bs), m)[n]
    BY <2>4, <2>7, <2>8
  <2> QED BY <2>1, <2>3, <2>4, <2>5, <2>6, <2>7, <2>9
<1>3. \A bs \in Seq(Messages) : bs \in G
  <2> HIDE DEF G
  <2> QED BY <1>1, <1>2, SeqSet
<1> QED BY <1>3

\* What the files of a round give when the disk is read back.
Part(n) == IF n \notin OnDisk \/ lines[n] = None THEN <<>> ELSE LinesOf(n)

LEMMA PartIs ==
    ASSUME IInv, Readable, NEW n \in Rounds
    PROVE  Part(n) \in Seq(Messages) /\ OnlyOf(Part(n), n)
<1>1. CASE n \notin OnDisk \/ lines[n] = None
  <2>1. <<>> \in Seq(Messages) /\ OnlyOf(<<>>, n)
    BY EmptySeq DEF OnlyOf
  <2> QED BY <1>1, <2>1 DEF Part
<1>2. CASE n \in OnDisk /\ lines[n] # None
  <2>1. lines[n] \in 0..Len(transcript)
    BY <1>2 DEF IInv, Disk, Readable
  <2>2. SubSeq(transcript, 1, lines[n]) \in Seq(Messages)
    BY <2>1 DEF IInv
  <2>3. LinesOf(n) \in Seq(Messages) /\ OnlyOf(LinesOf(n), n)
    BY <2>2, FoldKept DEF LinesOf
  <2> QED BY <1>2, <2>3 DEF Part
<1> QED BY <1>1, <1>2

LEMMA ReplayTurns ==
    ASSUME IInv, Readable
    PROVE  \E f \in [0..MaxRound -> Seq(Messages)] :
              /\ f[0] = <<>> /\ \A i \in 1..MaxRound : f[i] = f[i - 1] \o Part(i)
              /\ Replay = Fold(f[MaxRound])
<1> DEFINE V == Seq(Messages)
           Turn == [x \in V \X (1..MaxRound) |-> x[1] \o Part(x[2])]
<1>1. MaxRound \in Nat /\ \A i \in 1..MaxRound : Part(i) \in V
  BY PartIs, FeedAssumption DEF Rounds
<1>2. ASSUME NEW s \in V, NEW i \in 1..MaxRound PROVE s \o Part(i) \in V
  BY <1>1, ConcatProperties
<1>3. Turn \in Turns(V, MaxRound)
  BY <1>2 DEF Turns
<1>4. PICK e \in V : e = <<>>
  BY EmptySeq
<1>5. PICK f : Solves(f, V, e, MaxRound, Turn)
  <2>1. MaxRound \in Nat
    BY <1>1
  <2> HIDE DEF V, Turn
  <2> QED BY <1>3, <2>1, Recursion, Zenon
<1>6. f \in [0..MaxRound -> V] /\ f[0] = <<>>
  BY <1>4, <1>5 DEF Solves
<1>7. ASSUME NEW i \in 1..MaxRound PROVE f[i] = f[i - 1] \o Part(i)
  <2>1. <<f[i - 1], i>> \in V \X (1..MaxRound)
    <3>1. i - 1 \in 0..MaxRound
      BY <1>1
    <3> QED BY <1>6, <3>1
  <2>2. Turn[<<f[i - 1], i>>] = f[i - 1] \o Part(i)
    <3> HIDE DEF V
    <3> QED BY <2>1
  <2>3. f[i] = Turn[<<f[i - 1], i>>]
    <3> HIDE DEF V, Turn
    <3> QED BY <1>5 DEF Solves
  <2> QED BY <2>2, <2>3
<1> DEFINE messages[n \in 0..MaxRound] ==
             IF n = 0 THEN <<>>
             ELSE messages[n - 1] \o (IF n \notin OnDisk \/ lines[n] = None THEN <<>> ELSE LinesOf(n))
           Rec(g) == [n \in 0..MaxRound |-> IF n = 0 THEN <<>> ELSE g[n - 1] \o Part(n)]
<1>8. f = Rec(f)
  <2>1. f = [n \in 0..MaxRound |-> f[n]]
    BY <1>6
  <2>2. ASSUME NEW n \in 0..MaxRound
        PROVE  f[n] = IF n = 0 THEN <<>> ELSE f[n - 1] \o Part(n)
    <3>1. n = 0 \/ n \in 1..MaxRound
      BY <1>1
    <3> QED BY <1>6, <1>7, <3>1
  <2> QED BY <2>1, <2>2
<1>9. \E g : g = [n \in 0..MaxRound |->
                    IF n = 0 THEN <<>>
                    ELSE g[n - 1] \o (IF n \notin OnDisk \/ lines[n] = None THEN <<>> ELSE LinesOf(n))]
  BY <1>8 DEF Part
<1>10. messages = [n \in 0..MaxRound |->
                    IF n = 0 THEN <<>>
                    ELSE messages[n - 1] \o
                            (IF n \notin OnDisk \/ lines[n] = None THEN <<>> ELSE LinesOf(n))]
  BY <1>9
<1>11. messages = Rec(messages)
  BY <1>10 DEF Part
<1>12. Replay = Fold(messages[MaxRound])
  BY DEF Replay
<1> HIDE DEF messages
<1> DEFINE G == {i \in Nat : i <= MaxRound => messages[i] = f[i]}
<1>13. 0 \in G
  BY <1>1, <1>6, <1>11
<1>14. ASSUME NEW i \in Nat, i \in G PROVE i + 1 \in G
  <2> SUFFICES ASSUME i + 1 <= MaxRound PROVE messages[i + 1] = f[i + 1]
    OBVIOUS
  <2>1. /\ i + 1 \in 0..MaxRound /\ i + 1 \in 1..MaxRound /\ i + 1 # 0 /\ (i + 1) - 1 = i
        /\ i <= MaxRound
    BY <1>1
  <2>2. messages[i] = f[i]
    BY <1>14, <2>1
  <2>3. messages[i + 1] = messages[i] \o Part(i + 1)
    <3> HIDE DEF G
    <3> QED BY <1>11, <2>1
  <2>4. f[i + 1] = f[i] \o Part(i + 1)
    BY <1>7, <2>1
  <2> QED BY <2>2, <2>3, <2>4
<1>15. MaxRound \in G
  <2> HIDE DEF G
  <2> QED BY <1>1, <1>13, <1>14, NatSet
<1>16. Replay = Fold(f[MaxRound])
  BY <1>1, <1>12, <1>15
<1> QED BY <1>6, <1>7, <1>16

\* Each round is read back from its own files.
LEMMA ReplayIs ==
    ASSUME IInv, Readable, NEW n \in Rounds
    PROVE  Replay[n] = Fold(Part(n))[n]
<1>1. PICK f \in [0..MaxRound -> Seq(Messages)] :
        /\ f[0] = <<>> /\ \A i \in 1..MaxRound : f[i] = f[i - 1] \o Part(i)
        /\ Replay = Fold(f[MaxRound])
  BY ReplayTurns
<1>2. /\ MaxRound \in Nat /\ n \in Nat /\ n <= MaxRound /\ 0 < n
      /\ \A i \in 1..MaxRound : i \in Rounds
  BY FeedAssumption DEF Rounds
<1> DEFINE G == {i \in Nat : i <= MaxRound =>
                   Fold(f[i])[n] = IF i < n THEN None ELSE Fold(Part(n))[n]}
<1>3. 0 \in G
  <2>1. Fold(f[0])[n] = None
    BY <1>1, FoldNothing DEF NoRounds
  <2> QED BY <1>2, <2>1
<1>4. ASSUME NEW i \in Nat, i \in G PROVE i + 1 \in G
  <2> SUFFICES ASSUME i + 1 <= MaxRound
               PROVE  Fold(f[i + 1])[n] = IF i + 1 < n THEN None ELSE Fold(Part(n))[n]
    OBVIOUS
  <2>1. /\ i + 1 \in 1..MaxRound /\ i \in 0..MaxRound /\ (i + 1) - 1 = i /\ i <= MaxRound
        /\ i + 1 \in Rounds
    BY <1>2
  <2>2. Fold(f[i])[n] = IF i < n THEN None ELSE Fold(Part(n))[n]
    BY <1>4, <2>1
  <2> HIDE DEF G
  <2>3. PICK as \in Seq(Messages), bs \in Seq(Messages) : as = f[i] /\ bs = Part(i + 1)
    BY <1>1, <2>1, PartIs
  <2>4. f[i + 1] = as \o bs
    BY <1>1, <2>1, <2>3
  <2>5. /\ Silent(bs, n) => Fold(as \o bs)[n] = Fold(as)[n]
        /\ Fold(as)[n] = None => Fold(as \o bs)[n] = Fold(bs)[n]
    BY FoldConcat
  <2>6. CASE n # i + 1
    <3>1. Silent(bs, n)
      BY <2>1, <2>3, <2>6, PartIs DEF OnlyOf, Silent
    <3>2. i < n <=> i + 1 < n
      BY <1>2, <2>6
    <3> QED BY <2>2, <2>3, <2>4, <2>5, <3>1, <3>2
  <2>7. CASE n = i + 1
    <3>1. i < n /\ ~(i + 1 < n)
      BY <1>2, <2>7
    <3> QED BY <2>2, <2>3, <2>4, <2>5, <2>7, <3>1
  <2> QED BY <2>6, <2>7
<1>5. MaxRound \in G
  <2> HIDE DEF G
  <2> QED BY <1>2, <1>3, <1>4, NatSet
<1> QED BY <1>1, <1>2, <1>5

\* persist.ts:6-7: with the coral server down a session renders as it did, whatever
\* overlapping polls wrote in the meantime, and the ledger rates what is shown.
THEOREM ReplaysTheSame == Spec => []ReplaysAsShown
<1>1. ASSUME IInv PROVE ReplaysAsShown
  <2> SUFFICES ASSUME persisted # None, NEW n \in Rounds,
                      RoundsAt(persisted)[n] # None
               PROVE  /\ RecordOf(n) = RunRecord(RoundsAt(persisted)[n])
                      /\ Readable => Replay[n] = RoundsAt(persisted)[n]
    BY DEF ReplaysAsShown, RoundsAt
  <2>1. /\ persisted \in 0..Len(transcript) /\ persisted \in Nat /\ Len(transcript) \in Nat
        /\ transcript \in Seq(Messages)
    BY <1>1, LenProperties DEF IInv, Disk
  <2>2. RoundsAt(0)[n] = None
    <3>1. SubSeq(transcript, 1, 0) = <<>>
      BY <2>1
    <3> QED BY <3>1, FoldNothing DEF RoundsAt, NoRounds
  <2>3. ~(\A i \in 1..persisted : transcript[i].round # n)
    <3> SUFFICES ASSUME \A i \in 1..persisted : transcript[i].round # n PROVE FALSE
      OBVIOUS
    <3>1. 0 \in 0..Len(transcript) /\ persisted \in 0..Len(transcript)
          /\ \A i \in (0 + 1)..persisted : transcript[i].round # n
      BY <2>1
    <3>2. RoundsAt(persisted)[n] = RoundsAt(0)[n]
      BY <2>1, <3>1, UnspokenStays
    <3> QED BY <2>2, <3>2
  <2>4. PICK last : last = LastOf(n, persisted)
    OBVIOUS
  <2>5. /\ last \in 1..persisted /\ transcript[last].round = n /\ last # None
        /\ \A i \in (last + 1)..persisted : transcript[i].round # n
    BY <2>1, <2>3, <2>4, LastOfIs
  <2>6. RoundsAt(persisted)[n] = RoundsAt(last)[n]
    <3>1. last \in 0..Len(transcript) /\ persisted \in last..Len(transcript)
      BY <2>1, <2>5
    <3> QED BY <2>1, <2>5, <3>1, UnspokenStays
  <2>7. record[n] = last /\ lines[n] = last
    BY <1>1, <2>4, <2>5 DEF IInv, Kept
  <2>8. RecordOf(n) = RunRecord(RoundsAt(last)[n])
    BY <2>7 DEF RecordOf, RoundsAt
  <2>9. ASSUME Readable PROVE Replay[n] = RoundsAt(last)[n]
    <3>1. Replay[n] = Fold(Part(n))[n]
      BY <1>1, <2>9, ReplayIs
    <3>2. Part(n) = RoundTranscript(SubSeq(transcript, 1, last), n)
      BY <2>5, <2>7 DEF Part, OnDisk, LinesOf
    <3>3. SubSeq(transcript, 1, last) \in Seq(Messages)
      BY <2>1, <2>5
    <3>4. Fold(RoundTranscript(SubSeq(transcript, 1, last), n))[n]
            = Fold(SubSeq(transcript, 1, last))[n]
      BY <3>3, FoldKept
    <3> QED BY <3>1, <3>2, <3>4 DEF RoundsAt
  <2> QED BY <2>6, <2>8, <2>9
<1> QED BY Inductive, <1>1, PTL
=============================================================================
