---------------------------- MODULE MarketProofs ----------------------------
(***************************************************************************)
(* The deposits and payments of the marketplace, for any sellers, wallets, *)
(* floors, prices and modes, any number of rounds and sessions, and        *)
(* mentions that are lost, repeated, or late; and the deposits of one      *)
(* session under the policy, for any caps, interval and amounts.           *)
(***************************************************************************)
EXTENDS Market, PolicySession, SequenceTheorems, TLAPS

\* The unread mentions of an agent, in no order.
Letters(box, a) == {box[a][i] : i \in DOMAIN box[a]}

Payloads == [ref : Refs, kind : {"good", "bad"}]
Modes == {"direct", "arbiter"}

Wants == [verb : {"WANT"}, round : Rounds, budget : {Wire(Budget)}]
Bids == [verb : {"BID"}, round : Rounds, price : Nat, by : Sellers]
Awards == [verb : {"AWARD"}, round : Rounds, to : Sellers]
Asks == [verb : {"ESCROW_REQUIRED"}, round : Rounds, ref : Refs, seller : Accounts,
         amount : Nat, settlement : Modes]
Deposits == [verb : {"DEPOSITED"}, round : Rounds, ref : Refs, settlement : Modes]
Verifies == [verb : {"VERIFY"}, round : Rounds, payload : Payloads]
Verdicts == [verb : {"VERIFIED"}, round : Rounds, verdict : {"pass", "fail"}]
Deliveries == [verb : {"DELIVERED"}, round : Rounds, payload : Payloads]
Releases == [verb : {"RELEASED"}, round : Rounds]

ToBuyer == Bids \cup Asks \cup Deliveries \cup Verdicts \cup {Error}
ToSeller == Wants \cup Awards \cup Deposits \cup Releases
Messages == ToBuyer \cup ToSeller \cup Verifies

Offers == [by : Sellers, price : Nat]

\* The states of a round with a winner, with terms, and with a deposit that was seen.
Awarding == {"terms", "deposit", "delivery", "verdict", "release"}
Settling == {"deposit", "delivery", "verdict", "release"}
Seen == {"delivery", "verdict", "release"}

\* What the chain, the sellers and the verifier hold, whatever they hear.
WorldTypes ==
    /\ order \in [Accounts -> [Refs -> [seller : Accounts, amount : Nat, deadline : Nat]
                                          \cup {None}]]
    /\ now = 0
    /\ session \in 1..MaxSession /\ repeats \in 0..MaxRepeats
    /\ quoted \in [Sellers -> [Rounds -> Prices \cup {None}]]
    /\ awarded \in [Sellers -> SUBSET Refs]
    /\ served \in [Refs -> Nat] /\ attested \subseteq Refs

BuyerTypes ==
    /\ pc \in {"idle", "bidding"} \cup Awarding
    /\ round \in 0..MaxRound /\ (pc # "idle" => round \in Rounds)
    /\ bids \in Seq(Offers)
    /\ pc \in Awarding => winner \in Offers

MailTypes ==
    /\ mail \in [Agents -> Seq(Messages)]
    /\ Letters(mail, Buyer) \subseteq ToBuyer
    /\ Letters(mail, Verifier) \subseteq Verifies
    /\ \A s \in Sellers : Letters(mail, s) \subseteq ToSeller

\* What the buyer acts on belongs together: the terms are those of the seller it
\* awarded, in this round, at the price the seller bound them to; they passed the
\* policy; a payload it checks is of a delivery; what it releases was attested.
Bargain ==
    /\ pc \in Settling =>
          /\ terms \in Asks /\ terms.ref.round = round
          /\ terms.seller = Wallet[winner.by]
          /\ terms.amount = Wire(terms.ref.price)
    /\ pc = "deposit" => terms.amount <= winner.price /\ terms.amount <= Budget
    /\ pc \in {"verdict", "release"} => served[terms.ref] > 0
    /\ pc = "release" /\ HasVerifier => terms.ref \in attested

\* A message that follows the deposit of the current round (n is its round) finds the
\* buyer past that deposit.
AfterDeposit(n) == n = round => pc \in Seen \cup {"idle"}

\* The order of such a message is that of the terms.
OfTerms(n, ref) == n = round /\ pc \in Seen => ref = terms.ref

\* What the buyer may still hear: of rounds that were, and of this round only what
\* the seller and the verifier of its bargain say.
BuyerMayHear(m) ==
    /\ m.round <= round
    /\ m.verb = "ESCROW_REQUIRED" =>
          /\ m.ref.round = m.round /\ m.amount = Wire(m.ref.price)
          /\ m.round = round => pc # "bidding"
          /\ m.round = round /\ pc \in Awarding => m.seller = Wallet[winner.by]
    /\ m.verb = "DELIVERED" =>
          /\ AfterDeposit(m.round) /\ OfTerms(m.round, m.payload.ref)
          /\ m.payload.ref.round = m.round /\ served[m.payload.ref] > 0
    /\ m.verb = "VERIFIED" =>
          /\ AfterDeposit(m.round)
          /\ m.round = round /\ pc \in Seen /\ m.verdict = "pass" => terms.ref \in attested

VerifierMayHear(m) ==
    m.round <= round /\ AfterDeposit(m.round) /\ OfTerms(m.round, m.payload.ref)

SellerMayHear(m) ==
    /\ m.round <= round
    /\ m.verb = "DEPOSITED" =>
          m.ref.round = m.round /\ AfterDeposit(m.round) /\ OfTerms(m.round, m.ref)

Hearing ==
    /\ \A m \in Letters(mail, Buyer) : BuyerMayHear(m)
    /\ \A m \in Letters(mail, Verifier) : VerifierMayHear(m)
    /\ \A s \in Sellers : \A m \in Letters(mail, s) : SellerMayHear(m)

\* Seller s has to do with the settlement of round n: it is to hear of its award or of
\* its deposit, or awaits that deposit.
Touched(s, n) ==
    \/ \E m \in Letters(mail, s) : m.verb \in {"AWARD", "DEPOSITED"} /\ m.round = n
    \/ \E r \in awarded[s] : r.round = n

\* A round is settled with one seller, its winner.
OneSeller ==
    \A s \in Sellers, n \in Rounds : Touched(s, n) =>
       /\ n <= round
       /\ n = round => pc # "bidding" /\ (pc \in Awarding => s = winner.by)
       /\ \A t \in Sellers : Touched(t, n) => t = s

\* Mentions of a seller are in the order they were sent: it hears of a deposit after
\* the award.
AwardFirst(q) ==
    \A i, j \in DOMAIN q : i < j /\ q[i].verb = "DEPOSITED" /\ q[j].verb = "AWARD"
                              => q[i].round # q[j].round

InOrder == \A s \in Sellers : AwardFirst(mail[s])

\* Seller s serves the deposit of message m, or may come to: it awaits it, or has the
\* award of that round still to hear.
MayServe(s, m) ==
    \/ m.ref \in awarded[s]
    \/ \E a \in Letters(mail, s) : a.verb = "AWARD" /\ a.round = m.round

\* A deposit that may be served was not served yet, and none was served twice.
ServedOnce ==
    /\ \A s \in Sellers : \A m \in Letters(mail, s) :
          m.verb = "DEPOSITED" /\ MayServe(s, m) => served[m.ref] = 0
    /\ DeliveredOncePerDeposit

Types == WorldTypes /\ BuyerTypes /\ MailTypes

IInv == /\ Types /\ Bargain /\ Hearing /\ OneSeller
        /\ InOrder /\ ServedOnce
-----------------------------------------------------------------------------
(* Mailboxes. *)

LEMMA LettersIn ==
    ASSUME NEW S, NEW box \in [Agents -> Seq(S)], NEW a \in Agents
    PROVE  Letters(box, a) \subseteq S
<1> SUFFICES ASSUME NEW i \in DOMAIN box[a] PROVE box[a][i] \in S
  BY DEF Letters
<1> QED BY LenProperties, ElementOfSeq

\* A mention that is sent is the last of those it is sent to.
LEMMA PostLetters ==
    ASSUME NEW S, NEW box \in [Agents -> Seq(S)], NEW to, NEW m \in S
    PROVE  /\ Post(box, to, m) \in [Agents -> Seq(S)]
           /\ \A a \in Agents : Letters(Post(box, to, m), a)
                = IF a \in to THEN Letters(box, a) \cup {m} ELSE Letters(box, a)
<1> DEFINE new == Post(box, to, m)
<1>1. DOMAIN box = Agents
  OBVIOUS
<1>2. \A a \in Agents : new[a] = IF a \in to THEN Append(box[a], m) ELSE box[a]
  BY <1>1 DEF Post
<1>3. new \in [Agents -> Seq(S)]
  BY <1>1, AppendProperties DEF Post
<1>4. ASSUME NEW a \in Agents, a \in to PROVE Letters(new, a) = Letters(box, a) \cup {m}
  <2>1. /\ DOMAIN box[a] = 1..Len(box[a]) /\ Len(box[a]) \in Nat
        /\ DOMAIN Append(box[a], m) = 1..(Len(box[a]) + 1)
        /\ \A i \in 1..Len(box[a]) : Append(box[a], m)[i] = box[a][i]
        /\ Append(box[a], m)[Len(box[a]) + 1] = m
    <3>1. box[a] \in Seq(S) /\ Append(box[a], m) \in Seq(S)
      BY AppendProperties
    <3> QED BY <3>1, LenProperties, AppendProperties
  <2>2. DOMAIN Append(box[a], m) = DOMAIN box[a] \cup {Len(box[a]) + 1}
    BY <2>1
  <2>3. new[a] = Append(box[a], m)
    BY <1>2, <1>4
  <2>4. \A i \in DOMAIN box[a] : new[a][i] = box[a][i]
    BY <2>1, <2>3
  <2>5. new[a][Len(box[a]) + 1] = m
    BY <2>1, <2>3
  <2> HIDE DEF new
  <2> QED BY <2>2, <2>3, <2>4, <2>5 DEF Letters
<1>5. ASSUME NEW a \in Agents, a \notin to PROVE Letters(new, a) = Letters(box, a)
  BY <1>2, <1>5 DEF Letters
<1> QED BY <1>3, <1>4, <1>5

\* What is left of a mailbox after a wait.
LEMMA UnreadLetters ==
    ASSUME NEW S, mail \in [Agents -> Seq(S)], NEW a \in Agents, NEW k \in Batches(a)
    PROVE  /\ Unread(a, k) \in [Agents -> Seq(S)]
           /\ \A b \in Agents \ {a} : Unread(a, k)[b] = mail[b]
           /\ Len(mail[a]) \in Nat /\ k \in 0..Len(mail[a])
           /\ DOMAIN Unread(a, k)[a] = 1..(Len(mail[a]) - k)
           /\ \A i \in 1..(Len(mail[a]) - k) : Unread(a, k)[a][i] = mail[a][i + k]
<1> DEFINE q == mail[a]
           rest == SubSeq(q, k + 1, Len(q))
<1>1. q \in Seq(S) /\ Len(q) \in Nat /\ k \in Nat /\ k <= Len(q)
  BY MarketAssumption, LenProperties DEF Batches
<1>2. \A i \in (k + 1)..Len(q) : q[i] \in S
  BY <1>1, ElementOfSeq
<1>3. /\ rest \in Seq(S) /\ Len(rest) = Len(q) - k
      /\ \A i \in 1..(Len(q) - k) : rest[i] = q[i + k]
  <2>1. k + 1 \in Int /\ Len(q) \in Int
    BY <1>1
  <2>2. /\ rest \in Seq(S)
        /\ Len(rest) = IF k + 1 <= Len(q) THEN Len(q) - (k + 1) + 1 ELSE 0
        /\ \A i \in 1..(Len(q) - (k + 1) + 1) : rest[i] = q[(k + 1) + i - 1]
    <3> HIDE DEF q
    <3> QED BY <1>2, <2>1, SubSeqProperties
  <2>3. Len(q) - (k + 1) + 1 = Len(q) - k
    BY <1>1
  <2>4. \A i \in 1..(Len(q) - k) : (k + 1) + i - 1 = i + k
    BY <1>1
  <2>5. ASSUME NEW i \in 1..(Len(q) - k) PROVE rest[i] = q[i + k]
    BY <2>2, <2>3, <2>4
  <2>6. Len(rest) = Len(q) - k
    <3> HIDE DEF q, rest
    <3> QED BY <1>1, <2>2
  <2> HIDE DEF q, rest
  <2> QED BY <2>2, <2>5, <2>6
<1>4. Unread(a, k) = [mail EXCEPT ![a] = rest]
  BY DEF Unread
<1>5. DOMAIN rest = 1..(Len(q) - k)
  BY <1>3, LenProperties
<1>6. k \in 0..Len(q)
  BY <1>1
<1>7. /\ Unread(a, k) \in [Agents -> Seq(S)]
      /\ Unread(a, k)[a] = rest
      /\ \A b \in Agents \ {a} : Unread(a, k)[b] = mail[b]
  <2> HIDE DEF rest
  <2> QED BY <1>3, <1>4
<1> HIDE DEF rest
<1> QED BY <1>1, <1>3, <1>5, <1>6, <1>7

\* A mailbox from which mentions were taken, and those of the others.
Rest(box) ==
    /\ box \in [Agents -> Seq(Messages)]
    /\ \A a \in Agents : Letters(box, a) \subseteq Letters(mail, a)
    /\ \A s \in Sellers : AwardFirst(box[s])

\* A wait takes mentions away and leaves the others in their order.
LEMMA WaitLeavesRest ==
    ASSUME MailTypes, InOrder, NEW a \in Agents, NEW k \in Batches(a), mail[a] # <<>>
    PROVE  Rest(Unread(a, k)) /\ Head(mail[a]) \in Letters(mail, a)
<1> DEFINE box == Unread(a, k)
<1>1. mail \in [Agents -> Seq(Messages)]
  BY DEF MailTypes
<1>2. /\ box \in [Agents -> Seq(Messages)]
      /\ \A b \in Agents \ {a} : box[b] = mail[b]
      /\ Len(mail[a]) \in Nat /\ k \in 0..Len(mail[a])
      /\ DOMAIN box[a] = 1..(Len(mail[a]) - k)
      /\ \A i \in 1..(Len(mail[a]) - k) : box[a][i] = mail[a][i + k]
  BY <1>1, UnreadLetters
<1>3. DOMAIN mail[a] = 1..Len(mail[a])
  BY <1>1, LenProperties
<1> HIDE DEF box
<1>4. ASSUME NEW i \in DOMAIN box[a]
      PROVE  /\ i \in Nat /\ k \in Nat
             /\ i + k \in DOMAIN mail[a] /\ box[a][i] = mail[a][i + k]
  BY <1>2, <1>3
<1>5. ASSUME NEW b \in Agents PROVE Letters(box, b) \subseteq Letters(mail, b)
  <2>1. CASE b = a
    BY <2>1, <1>4 DEF Letters
  <2>2. CASE b # a
    BY <2>2, <1>2 DEF Letters
  <2> QED BY <2>1, <2>2
<1>6. ASSUME NEW s \in Sellers PROVE AwardFirst(box[s])
  <2>1. AwardFirst(mail[s])
    BY DEF InOrder
  <2>2. CASE s = a
    <3> SUFFICES ASSUME NEW i \in DOMAIN box[a], NEW j \in DOMAIN box[a], i < j,
                        box[a][i].verb = "DEPOSITED", box[a][j].verb = "AWARD"
                 PROVE  box[a][i].round # box[a][j].round
      BY <2>2 DEF AwardFirst
    <3>1. i + k < j + k
      BY <1>4
    <3> QED BY <2>1, <2>2, <3>1, <1>4 DEF AwardFirst
  <2>3. CASE s # a
    BY <2>1, <2>3, <1>2 DEF Agents
  <2> QED BY <2>2, <2>3
<1>7. Head(mail[a]) \in Letters(mail, a)
  <2>1. mail[a] \in Seq(Messages) /\ Len(mail[a]) \in Nat \ {0}
    BY <1>1, EmptySeq
  <2>2. Head(mail[a]) = mail[a][1] /\ 1 \in DOMAIN mail[a]
    BY <1>3, <2>1
  <2> QED BY <2>2 DEF Letters
<1> QED BY <1>2, <1>5, <1>6, <1>7 DEF box, Rest

\* Whatever is not sent is heard no more than before.
LEMMA NothingSent ==
    ASSUME MailTypes, NEW box, Rest(box), mail' = box
    PROVE  /\ MailTypes' /\ InOrder'
           /\ \A a \in Agents : Letters(mail', a) \subseteq Letters(mail, a)
<1>1. {Buyer, Verifier} \cup Sellers = Agents
  BY DEF Agents
<1> QED BY <1>1 DEF Rest, MailTypes, InOrder

\* A mention goes to agents that handle its kind; an award to none that was told of a
\* deposit of the same round.
Addressed(to, m) ==
    /\ m \in Messages /\ to \subseteq Agents
    /\ Buyer \in to => m \in ToBuyer
    /\ Verifier \in to => m \in Verifies
    /\ \A s \in Sellers : s \in to => m \in ToSeller
    /\ m.verb = "AWARD" => \A s \in Sellers : \A d \in Letters(mail, s) :
                              d.verb = "DEPOSITED" => d.round # m.round

LEMMA Sent ==
    ASSUME MailTypes, NEW box, Rest(box), NEW to, NEW m, Addressed(to, m),
           mail' = Post(box, to, m)
    PROVE  /\ MailTypes' /\ InOrder'
           /\ \A a \in Agents : Letters(mail', a)
                \subseteq (IF a \in to THEN Letters(mail, a) \cup {m} ELSE Letters(mail, a))
<1>1. {Buyer, Verifier} \cup Sellers = Agents
  BY DEF Agents
<1>2. box \in [Agents -> Seq(Messages)] /\ m \in Messages
  BY DEF Rest, Addressed
<1>3. /\ mail' \in [Agents -> Seq(Messages)]
      /\ \A a \in Agents : Letters(mail', a)
           = IF a \in to THEN Letters(box, a) \cup {m} ELSE Letters(box, a)
  BY <1>2, PostLetters
<1>4. \A a \in Agents : Letters(mail', a)
        \subseteq (IF a \in to THEN Letters(mail, a) \cup {m} ELSE Letters(mail, a))
  BY <1>3 DEF Rest
<1>5. MailTypes'
  <2>1. Letters(mail', Buyer) \subseteq ToBuyer
    BY <1>1, <1>4 DEF MailTypes, Addressed
  <2>2. Letters(mail', Verifier) \subseteq Verifies
    BY <1>1, <1>4 DEF MailTypes, Addressed
  <2>3. \A s \in Sellers : Letters(mail', s) \subseteq ToSeller
    BY <1>1, <1>4 DEF MailTypes, Addressed
  <2> QED BY <1>3, <2>1, <2>2, <2>3 DEF MailTypes
<1>6. ASSUME NEW s \in Sellers PROVE AwardFirst(mail'[s])
  <2>1. s \in Agents /\ AwardFirst(box[s]) /\ box[s] \in Seq(Messages)
    BY <1>1, <1>2 DEF Rest
  <2>2. CASE s \notin to
    <3>1. mail'[s] = box[s]
      BY <1>2, <2>1, <2>2 DEF Post
    <3> QED BY <2>1, <3>1
  <2>3. CASE s \in to
    <3>1. mail'[s] = Append(box[s], m)
      BY <1>2, <2>1, <2>3 DEF Post
    <3> DEFINE q == box[s]
    <3>2. /\ Len(q) \in Nat /\ DOMAIN q = 1..Len(q)
          /\ \A i \in 1..Len(q) : Append(q, m)[i] = q[i]
          /\ Append(q, m)[Len(q) + 1] = m
          /\ DOMAIN Append(q, m) = 1..(Len(q) + 1)
      <4>1. Append(q, m) \in Seq(Messages)
        BY <1>2, <2>1, AppendProperties
      <4> QED BY <1>2, <2>1, <4>1, LenProperties, AppendProperties
    <3> SUFFICES ASSUME NEW i \in DOMAIN Append(q, m), NEW j \in DOMAIN Append(q, m), i < j,
                        Append(q, m)[i].verb = "DEPOSITED", Append(q, m)[j].verb = "AWARD"
                 PROVE  Append(q, m)[i].round # Append(q, m)[j].round
      BY <3>1 DEF AwardFirst
    <3>3. i \in DOMAIN q /\ Append(q, m)[i] = q[i]
      BY <3>2
    <3>4. q[i] \in Letters(mail, s)
      BY <2>1, <3>3 DEF Letters, Rest
    <3>5. CASE j = Len(q) + 1
      BY <3>2, <3>3, <3>4, <3>5 DEF Addressed
    <3>6. CASE j # Len(q) + 1
      <4>1. j \in DOMAIN q /\ Append(q, m)[j] = q[j]
        BY <3>2, <3>6
      <4> QED BY <2>1, <3>3, <4>1 DEF AwardFirst
    <3> QED BY <3>5, <3>6
  <2> QED BY <2>2, <2>3
<1> QED BY <1>4, <1>5, <1>6 DEF InOrder
-----------------------------------------------------------------------------
(* Prices, references and messages. *)

LEMMA WireNat == ASSUME NEW p \in Nat PROVE Wire(p) \in Nat
BY DEF Wire, Sol

\* A price that is misread is read as a whole SOL at least.
LEMMA WireAbove == ASSUME NEW p \in Nat, Wire(p) < Sol PROVE Wire(p) = p
BY DEF Wire, Sol

LEMMA QuotesNat ==
    ASSUME NEW s \in Sellers, NEW b \in Nat
    PROVE  Quotes(s, b) \subseteq Nat
<1> SUFFICES ASSUME NEW p \in Proposals \cup {Floor[s]}
             PROVE  (IF p < Floor[s] THEN Floor[s] ELSE IF p > b THEN b ELSE p) \in Nat
  BY DEF Quotes
<1>1. p \in Nat /\ Floor[s] \in Nat
  BY MarketAssumption
<1> QED BY <1>1

LEMMA PricesNat ==
    /\ Wire(Budget) \in Nat /\ Prices \subseteq Nat
    /\ \A s \in Sellers : Quotes(s, Wire(Budget)) \subseteq Prices
<1>1. Wire(Budget) \in Nat
  BY MarketAssumption, WireNat
<1> QED BY <1>1, QuotesNat DEF Prices

LEMMA ReferenceIn ==
    ASSUME NEW n \in Rounds, NEW s \in Sellers, NEW p \in Prices
    PROVE  /\ Reference(n, Wallet[s], p) \in Refs
           /\ Reference(n, Wallet[s], p).round = n
           /\ Reference(n, Wallet[s], p).price = p
BY DEF Refs, Reference

LEMMA RefParts ==
    ASSUME NEW r \in Refs
    PROVE  r.round \in Rounds /\ r.price \in Prices /\ r.price \in Nat
<1>1. PICK n \in Rounds, s \in Sellers, p \in Prices : r = Reference(n, Wallet[s], p)
  BY DEF Refs
<1> QED BY <1>1, PricesNat DEF Reference

LEMMA WalletAccount == ASSUME NEW s \in Sellers PROVE Wallet[s] \in Accounts
BY DEF Accounts

LEMMA RoundNat == Rounds \subseteq Nat
BY MarketAssumption DEF Rounds

\* What the messages to the buyer, to a seller and to the verifier are made of.
LEMMA BuyerKinds ==
    ASSUME NEW m \in ToBuyer
    PROVE  /\ m.verb \in {"BID", "ESCROW_REQUIRED", "DELIVERED", "VERIFIED", "ERROR"}
           /\ m.round \in Nat
           /\ m.verb = "BID" => m.by \in Sellers /\ m.price \in Nat
           /\ m.verb = "ESCROW_REQUIRED" => m \in Asks /\ m.ref \in Refs
           /\ m.verb = "DELIVERED" => m \in Deliveries /\ m.payload \in Payloads /\ m.payload.ref \in Refs
           /\ m.verb = "VERIFIED" => m.verdict \in {"pass", "fail"}
           /\ m.verb # "ERROR" => m.round \in Rounds
<1>1. CASE m \in Bids
  BY <1>1, RoundNat DEF Bids
<1>2. CASE m \in Asks
  BY <1>2, RoundNat DEF Asks
<1>3. CASE m \in Deliveries
  BY <1>3, RoundNat DEF Deliveries, Payloads
<1>4. CASE m \in Verdicts
  BY <1>4, RoundNat DEF Verdicts
<1>5. CASE m = Error
  BY <1>5 DEF Error
<1> QED BY <1>1, <1>2, <1>3, <1>4, <1>5 DEF ToBuyer

LEMMA SellerKinds ==
    ASSUME NEW m \in ToSeller
    PROVE  /\ m.verb \in {"WANT", "AWARD", "DEPOSITED", "RELEASED"}
           /\ m.round \in Rounds
           /\ m.verb = "WANT" => m.budget = Wire(Budget)
           /\ m.verb = "DEPOSITED" => m.ref \in Refs
<1>1. CASE m \in Wants
  BY <1>1 DEF Wants
<1>2. CASE m \in Awards
  BY <1>2 DEF Awards
<1>3. CASE m \in Deposits
  BY <1>3 DEF Deposits
<1>4. CASE m \in Releases
  BY <1>4 DEF Releases
<1> QED BY <1>1, <1>2, <1>3, <1>4 DEF ToSeller

LEMMA VerifierKinds ==
    ASSUME NEW m \in Verifies
    PROVE  /\ m.verb = "VERIFY" /\ m.round \in Rounds /\ m.payload \in Payloads
           /\ m.payload.ref \in Refs /\ m.payload.kind \in {"good", "bad"}
BY DEF Verifies, Payloads
-----------------------------------------------------------------------------
(* What a step leaves as it was. *)

\* What may be heard of the mentions that are unread now.
StillMayHear ==
    /\ \A m \in Letters(mail, Buyer) : BuyerMayHear(m)'
    /\ \A m \in Letters(mail, Verifier) : VerifierMayHear(m)'
    /\ \A s \in Sellers : \A m \in Letters(mail, s) : SellerMayHear(m)'

\* The buyer goes on with its round, or ends it, and nothing else happens.
GoesOn ==
    /\ round' = round /\ UNCHANGED <<awarded, served, attested>>
    /\ pc' = "bidding" => pc = "bidding"
    /\ pc' \in Awarding => pc \in Awarding /\ winner' = winner
    /\ pc' \in Seen => pc \in Seen /\ terms' = terms
    /\ pc \in Seen \cup {"idle"} => pc' \in Seen \cup {"idle"}

LEMMA GoesOnHears == ASSUME Hearing, GoesOn PROVE StillMayHear
<1>1. ASSUME NEW n, AfterDeposit(n) PROVE AfterDeposit(n)'
  BY <1>1 DEF AfterDeposit, GoesOn
<1>2. ASSUME NEW n, NEW ref, OfTerms(n, ref) PROVE OfTerms(n, ref)'
  BY <1>2 DEF OfTerms, GoesOn
<1>3. ASSUME NEW m \in Letters(mail, Buyer) PROVE BuyerMayHear(m)'
  BY <1>1, <1>2 DEF Hearing, BuyerMayHear, GoesOn
<1>4. ASSUME NEW m \in Letters(mail, Verifier) PROVE VerifierMayHear(m)'
  BY <1>1, <1>2 DEF Hearing, VerifierMayHear, GoesOn
<1>5. ASSUME NEW s \in Sellers, NEW m \in Letters(mail, s) PROVE SellerMayHear(m)'
  BY <1>1, <1>2 DEF Hearing, SellerMayHear, GoesOn
<1> QED BY <1>3, <1>4, <1>5 DEF StillMayHear

\* The buyer stays where it is; deliveries and attestations are added.
WorldGoesOn ==
    /\ UNCHANGED <<pc, round, winner, terms>>
    /\ \A r \in Refs : served[r] > 0 => served'[r] > 0
    /\ attested \subseteq attested'

LEMMA WorldGoesOnHears == ASSUME MailTypes, Hearing, WorldGoesOn PROVE StillMayHear
<1>1. \A n : AfterDeposit(n) => AfterDeposit(n)'
  BY DEF AfterDeposit, WorldGoesOn
<1>2. \A n, ref : OfTerms(n, ref) => OfTerms(n, ref)'
  BY DEF OfTerms, WorldGoesOn
<1>3. ASSUME NEW m \in Letters(mail, Buyer) PROVE BuyerMayHear(m)'
  <2>1. m.verb = "DELIVERED" => m.payload.ref \in Refs
    BY BuyerKinds DEF MailTypes
  <2> QED BY <1>1, <1>2, <2>1 DEF Hearing, BuyerMayHear, WorldGoesOn
<1>4. ASSUME NEW m \in Letters(mail, Verifier) PROVE VerifierMayHear(m)'
  BY <1>1, <1>2 DEF Hearing, VerifierMayHear, WorldGoesOn
<1>5. ASSUME NEW s \in Sellers, NEW m \in Letters(mail, s) PROVE SellerMayHear(m)'
  BY <1>1, <1>2 DEF Hearing, SellerMayHear, WorldGoesOn
<1> QED BY <1>3, <1>4, <1>5 DEF StillMayHear

\* No seller is told of an award or a deposit.
Quiet ==
    \A s \in Sellers : \A m \in Letters(mail', s) :
       m.verb \in {"AWARD", "DEPOSITED"} => m \in Letters(mail, s)

LEMMA QuietTouches ==
    ASSUME Quiet, awarded' = awarded
    PROVE  /\ \A s \in Sellers : \A n : Touched(s, n)' => Touched(s, n)
           /\ \A s \in Sellers : \A m : MayServe(s, m)' => MayServe(s, m)
BY DEF Quiet, Touched, MayServe

LEMMA QuietOneSeller ==
    ASSUME OneSeller, GoesOn, Quiet PROVE OneSeller'
<1>1. \A s \in Sellers : \A n : Touched(s, n)' => Touched(s, n)
  BY QuietTouches DEF GoesOn
<1> QED BY <1>1 DEF OneSeller, GoesOn

LEMMA QuietServedOnce ==
    ASSUME ServedOnce, Quiet, UNCHANGED <<awarded, served>> PROVE ServedOnce'
<1>1. \A s \in Sellers : \A m : MayServe(s, m)' => MayServe(s, m)
  BY QuietTouches
<1> QED BY <1>1 DEF ServedOnce, DeliveredOncePerDeposit, Quiet
-----------------------------------------------------------------------------
(* The buyer's steps. *)

LEMMA InitIInv == Init => IInv
<1> SUFFICES ASSUME Init PROVE IInv
  OBVIOUS
<1> USE DEF Init
<1>1. \A a \in Agents : mail[a] = <<>> /\ Letters(mail, a) = {}
  BY DEF Letters
<1>2. Buyer \in Agents /\ Verifier \in Agents /\ Sellers \subseteq Agents
  BY DEF Agents
<1>3. Types
  <2>1. WorldTypes
    BY MarketAssumption DEF WorldTypes, Rail!Init
  <2>2. BuyerTypes
    BY MarketAssumption, EmptySeq DEF BuyerTypes, Awarding
  <2>3. MailTypes
    <3>1. mail \in [Agents -> Seq(Messages)]
      BY EmptySeq
    <3> QED BY <1>1, <1>2, <3>1 DEF MailTypes
  <2> QED BY <2>1, <2>2, <2>3 DEF Types
<1>4. Bargain
  BY DEF Bargain, Settling
<1>5. Hearing
  BY <1>1, <1>2 DEF Hearing
<1>6. OneSeller
  BY <1>1, <1>2 DEF OneSeller, Touched
<1>7. InOrder
  BY <1>1, <1>2 DEF InOrder, AwardFirst
<1>8. ServedOnce
  BY <1>1, <1>2 DEF ServedOnce, DeliveredOncePerDeposit
<1> QED BY <1>3, <1>4, <1>5, <1>6, <1>7, <1>8 DEF IInv

\* The agents whose mail is looked at are agents.
LEMMA AgentNames == Buyer \in Agents /\ Verifier \in Agents /\ Sellers \subseteq Agents
BY DEF Agents

\* A round that ends sends nothing but the news of a release.
LEMMA EndRoundKeeps ==
    ASSUME IInv, EndRound, MailTypes', InOrder', WorldTypes',
           UNCHANGED <<awarded, served, attested>>, Quiet,
           Letters(mail', Buyer) \subseteq Letters(mail, Buyer),
           Letters(mail', Verifier) \subseteq Letters(mail, Verifier),
           \A s \in Sellers : \A m \in Letters(mail', s) :
              m \in Letters(mail, s) \/ (m.verb = "RELEASED" /\ m.round = round)
    PROVE  IInv'
<1> USE DEF IInv, Types
<1>1. pc' = "idle" /\ round' = round /\ bids' = <<>>
  BY DEF EndRound, NoLocals
<1>2. GoesOn
  BY <1>1 DEF GoesOn, Awarding, Seen
<1>3. BuyerTypes'
  BY <1>1, EmptySeq DEF BuyerTypes, Awarding
<1>4. Bargain'
  BY <1>1 DEF Bargain, Settling
<1>5. StillMayHear
  BY <1>2, GoesOnHears
<1>6. round' <= round'
  BY <1>1, MarketAssumption DEF BuyerTypes
<1>7. Hearing'
  BY <1>1, <1>5, <1>6 DEF Hearing, StillMayHear, SellerMayHear
<1> QED BY <1>2, <1>3, <1>4, <1>7, QuietOneSeller, QuietServedOnce

LEMMA SendWantKeeps == ASSUME IInv, SendWant PROVE IInv'
<1> USE DEF IInv, Types
<1> DEFINE w == Want(round + 1, Budget)
<1>1. /\ pc = "idle" /\ pc' = "bidding" /\ round' = round + 1 /\ bids' = <<>>
      /\ round \in Nat /\ round' \in Rounds
      /\ mail' = Post(mail, Sellers, w)
      /\ UNCHANGED <<awarded, served, attested>>
  BY MarketAssumption
     DEF SendWant, NoLocals, BuyerTypes, WorldTypes, LastRound, Rounds, sellerVars, history
<1>2. w \in Wants /\ w.verb = "WANT" /\ w.round = round + 1
  BY <1>1 DEF Want, Wants
<1>3. Rest(mail)
  BY DEF Rest, MailTypes, InOrder
<1>4. Addressed(Sellers, w)
  BY <1>2, AgentNames, MarketAssumption DEF Addressed, Messages, ToSeller
<1> HIDE DEF w
<1>5. /\ MailTypes' /\ InOrder'
      /\ \A a \in Agents : Letters(mail', a)
           \subseteq (IF a \in Sellers THEN Letters(mail, a) \cup {w} ELSE Letters(mail, a))
  BY <1>1, <1>3, <1>4, Sent
<1>6. /\ Letters(mail', Buyer) \subseteq Letters(mail, Buyer)
      /\ Letters(mail', Verifier) \subseteq Letters(mail, Verifier)
      /\ \A s \in Sellers : Letters(mail', s) \subseteq Letters(mail, s) \cup {w}
  BY <1>5, AgentNames, MarketAssumption
<1>7. Quiet
  BY <1>2, <1>6 DEF Quiet
<1>8. WorldTypes'
  BY DEF SendWant, WorldTypes, rail, sellerVars, history
<1>9. BuyerTypes'
  BY <1>1, MarketAssumption, EmptySeq DEF BuyerTypes, Awarding, Rounds
<1>10. Bargain'
  BY <1>1 DEF Bargain, Settling
<1>11. \A n \in Nat : n <= round => n <= round' /\ n # round'
  BY <1>1
<1>12. Hearing'
  <2>1. ASSUME NEW m \in Letters(mail', Buyer) PROVE BuyerMayHear(m)'
    <3>1. m \in Letters(mail, Buyer) /\ m.round \in Nat
      BY <1>6, <2>1, BuyerKinds DEF MailTypes
    <3>2. m.round <= round' /\ m.round # round'
      BY <1>11, <3>1 DEF Hearing, BuyerMayHear
    <3> QED BY <1>1, <3>1, <3>2 DEF Hearing, BuyerMayHear, AfterDeposit, OfTerms
  <2>2. ASSUME NEW m \in Letters(mail', Verifier) PROVE VerifierMayHear(m)'
    <3>1. m \in Letters(mail, Verifier) /\ m.round \in Nat
      BY <1>6, <2>2, VerifierKinds, RoundNat DEF MailTypes
    <3>2. m.round <= round' /\ m.round # round'
      BY <1>11, <3>1 DEF Hearing, VerifierMayHear
    <3> QED BY <3>2 DEF VerifierMayHear, AfterDeposit, OfTerms
  <2>3. ASSUME NEW s \in Sellers, NEW m \in Letters(mail', s) PROVE SellerMayHear(m)'
    <3>1. CASE m = w
      BY <1>1, <1>2, <3>1 DEF SellerMayHear
    <3>2. CASE m # w
      <4>1. m \in Letters(mail, s) /\ m.round \in Nat
        BY <1>6, <2>3, <3>2, SellerKinds, RoundNat DEF MailTypes
      <4>2. m.round <= round' /\ m.round # round'
        BY <1>11, <4>1 DEF Hearing, SellerMayHear
      <4> QED BY <4>1, <4>2 DEF Hearing, SellerMayHear, AfterDeposit, OfTerms
    <3> QED BY <3>1, <3>2
  <2> QED BY <2>1, <2>2, <2>3 DEF Hearing
<1>13. OneSeller'
  <2> SUFFICES ASSUME NEW s \in Sellers, NEW n \in Rounds, Touched(s, n)'
               PROVE  /\ n <= round' /\ n # round'
                      /\ \A t \in Sellers : Touched(t, n)' => t = s
    BY DEF OneSeller
  <2>1. \A t \in Sellers : Touched(t, n)' => Touched(t, n)
    BY <1>1, <1>7, QuietTouches
  <2> QED BY <1>11, <2>1, RoundNat DEF OneSeller
<1>14. ServedOnce'
  BY <1>1, <1>7, QuietServedOnce
<1> QED BY <1>5, <1>8, <1>9, <1>10, <1>12, <1>13, <1>14

\* The steps of the buyer that handle a mention, of which only the payload's is told on.
LEMMA BuyerSays ==
    ASSUME IInv, NEW box, Rest(box), UNCHANGED <<awarded, served, attested>>,
           GoesOn,
           \/ mail' = box
           \/ \E v \in Verifies : /\ mail' = Post(box, {Verifier}, v)
                                  /\ VerifierMayHear(v)'
    PROVE  /\ MailTypes' /\ InOrder' /\ Hearing' /\ OneSeller' /\ ServedOnce'
<1> USE DEF IInv, Types
<1>1. StillMayHear
  BY GoesOnHears
<1>2. CASE mail' = box
  <2>1. /\ MailTypes' /\ InOrder'
        /\ \A a \in Agents : Letters(mail', a) \subseteq Letters(mail, a)
    BY <1>2, NothingSent
  <2>2. Quiet
    BY <2>1, AgentNames DEF Quiet
  <2>3. Hearing'
    BY <1>1, <2>1, AgentNames DEF Hearing, StillMayHear
  <2> QED BY <2>1, <2>2, <2>3, QuietOneSeller, QuietServedOnce
<1>3. ASSUME NEW v \in Verifies, mail' = Post(box, {Verifier}, v), VerifierMayHear(v)'
      PROVE  /\ MailTypes' /\ InOrder' /\ Hearing' /\ OneSeller' /\ ServedOnce'
  <2>1. v.verb # "AWARD"
    BY VerifierKinds
  <2>2. Addressed({Verifier}, v)
    BY <2>1, AgentNames, MarketAssumption DEF Addressed, Messages
  <2>3. /\ MailTypes' /\ InOrder'
        /\ \A a \in Agents : Letters(mail', a)
             \subseteq (IF a \in {Verifier} THEN Letters(mail, a) \cup {v} ELSE Letters(mail, a))
    BY <1>3, <2>2, Sent
  <2>4. /\ Letters(mail', Buyer) \subseteq Letters(mail, Buyer)
        /\ Letters(mail', Verifier) \subseteq Letters(mail, Verifier) \cup {v}
        /\ \A s \in Sellers : Letters(mail', s) \subseteq Letters(mail, s)
    BY <2>3, AgentNames, MarketAssumption
  <2>5. Quiet
    BY <2>4 DEF Quiet
  <2>6. Hearing'
    BY <1>1, <1>3, <2>4 DEF Hearing, StillMayHear
  <2> QED BY <2>3, <2>5, <2>6, QuietOneSeller, QuietServedOnce
<1> QED BY <1>2, <1>3

\* What a policy that allows a deposit has checked, of the amount.
LEMMA Allowed ==
    ASSUME NEW m, m.amount \in Nat, winner \in Offers,
           MayDeposit([amount |-> m.amount, awarded |-> winner.price,
                       service |-> "txline", payout |-> m.seller, spent |-> Unset,
                       lastDepositAt |-> Unset, now |-> now], policy)
    PROVE  m.amount <= winner.price /\ m.amount <= Budget
<1>1. winner.price # Unset
  BY MarketAssumption DEF Offers
<1>2. m.amount <= winner.price
  BY <1>1 DEF MayDeposit, WithinAward, Given
<1>3. policy.maxPerRound = Budget /\ Budget # Unset
  BY MarketAssumption DEF policy, PolicyFromEnv, OrElse, EnvNumber, Given
<1>4. m.amount <= Budget
  BY <1>3 DEF MayDeposit, WithinRoundCap, Given
<1> QED BY <1>2, <1>4

LEMMA ReceiveKeeps ==
    ASSUME IInv, Waits, NEW m \in Letters(mail, Buyer), NEW box, Rest(box), WorldTypes',
           UNCHANGED <<awarded, served, attested>>,
           \/ Ignore(m, box) \/ ReceiveBid(m, box) \/ ReceiveTerms(m, box)
           \/ ReceiveDelivery(m, box) \/ ReceiveVerdict(m, box)
    PROVE  IInv'
<1> USE DEF IInv, Types
<1>1. m \in ToBuyer /\ BuyerMayHear(m)
  BY DEF MailTypes, Hearing
<1>2. round \in Nat /\ round <= round
  BY MarketAssumption DEF BuyerTypes
<1>3. CASE Ignore(m, box)
  <2>1. mail' = box /\ UNCHANGED <<pc, round, bids, winner, terms>>
    BY <1>3 DEF Ignore, buyerVars, locals
  <2>2. BuyerTypes' /\ Bargain'
    BY <2>1 DEF BuyerTypes, Bargain
  <2>3. GoesOn
    BY <2>1 DEF GoesOn
  <2> QED BY <2>1, <2>2, <2>3, BuyerSays
<1>4. CASE ReceiveBid(m, box)
  <2>1. /\ mail' = box /\ UNCHANGED <<pc, round, winner, terms>>
        /\ pc = "bidding" /\ m.verb = "BID"
        /\ bids' = Append(bids, [by |-> m.by, price |-> m.price])
    BY <1>4 DEF ReceiveBid, Expects, Awaited
  <2>2. [by |-> m.by, price |-> m.price] \in Offers
    BY <1>1, <2>1, BuyerKinds DEF Offers
  <2>3. bids' \in Seq(Offers)
    BY <2>1, <2>2, AppendProperties DEF BuyerTypes
  <2>4. BuyerTypes' /\ Bargain'
    BY <2>1, <2>3 DEF BuyerTypes, Bargain, Settling, Awarding
  <2>5. GoesOn
    BY <2>1 DEF GoesOn
  <2> QED BY <2>1, <2>4, <2>5, BuyerSays
<1>5. CASE ReceiveTerms(m, box)
  <2>1. pc = "terms" /\ mail' = box /\ m.verb = "ESCROW_REQUIRED" /\ m.round = round
    BY <1>5 DEF ReceiveTerms, Expects, Awaited
  <2>2. CASE pc' = "deposit"
    <3>1. /\ MayDeposit([amount |-> m.amount, awarded |-> winner.price,
                         service |-> "txline", payout |-> m.seller, spent |-> Unset,
                         lastDepositAt |-> Unset, now |-> now], policy)
          /\ terms' = m /\ UNCHANGED <<round, bids, winner>>
      BY <1>5, <2>2 DEF ReceiveTerms, EndRound
    <3>2. m \in Asks /\ m.amount \in Nat
      BY <1>1, <2>1, BuyerKinds DEF Asks
    <3>3. winner \in Offers
      BY <2>1 DEF BuyerTypes, Awarding
    <3>4. m.amount <= winner.price /\ m.amount <= Budget
      BY <3>1, <3>2, <3>3, Allowed
    <3>5. m.ref.round = m.round /\ m.amount = Wire(m.ref.price) /\ m.seller = Wallet[winner.by]
      BY <1>1, <2>1 DEF BuyerMayHear, Awarding
    <3>6. BuyerTypes'
      BY <2>1, <2>2, <3>1 DEF BuyerTypes, Awarding
    <3>7. Bargain'
      BY <2>1, <2>2, <3>1, <3>2, <3>4, <3>5 DEF Bargain, Settling
    <3>8. GoesOn
      BY <2>1, <2>2, <3>1 DEF GoesOn, Awarding, Seen
    <3> QED BY <2>1, <3>6, <3>7, <3>8, BuyerSays
  <2>3. CASE pc' # "deposit"
    <3>1. EndRound
      BY <1>5, <2>3 DEF ReceiveTerms
    <3>2. pc' = "idle" /\ round' = round /\ bids' = <<>>
      BY <3>1 DEF EndRound, NoLocals
    <3>3. BuyerTypes' /\ Bargain'
      BY <3>2, EmptySeq DEF BuyerTypes, Bargain, Awarding, Settling
    <3>4. GoesOn
      BY <3>2 DEF GoesOn, Awarding, Seen
    <3> QED BY <2>1, <3>3, <3>4, BuyerSays
  <2> QED BY <2>2, <2>3
<1>6. CASE ReceiveDelivery(m, box)
  <2>1. /\ pc = "delivery" /\ m.verb = "DELIVERED" /\ m.round = round
        /\ UNCHANGED <<round, bids, winner, terms>>
        /\ \/ HasVerifier /\ pc' = "verdict" /\ mail' = Post(box, {Verifier}, Verify(round, m.payload))
           \/ ~HasVerifier /\ pc' = "release" /\ mail' = box
    BY <1>6 DEF ReceiveDelivery, Expects, Awaited
  <2>2. /\ m.payload \in Payloads /\ m.payload.ref = terms.ref
        /\ m.payload.ref.round = round /\ served[terms.ref] > 0
    BY <1>1, <2>1, BuyerKinds DEF BuyerMayHear, OfTerms, Seen
  <2>3. BuyerTypes'
    BY <2>1 DEF BuyerTypes, Awarding
  <2>4. Bargain'
    BY <2>1, <2>2 DEF Bargain, Settling
  <2>5. GoesOn
    BY <2>1 DEF GoesOn, Awarding, Seen
  <2>6. round \in Rounds
    BY <2>1 DEF BuyerTypes
  <2>7. /\ Verify(round, m.payload) \in Verifies
        /\ Verify(round, m.payload).round = round
        /\ Verify(round, m.payload).payload = m.payload
    BY <2>2, <2>6 DEF Verify, Verifies
  <2>8. VerifierMayHear(Verify(round, m.payload))'
    <3>1. pc' \in Seen
      BY <2>1 DEF Seen
    <3> QED BY <1>2, <2>1, <2>2, <2>7, <3>1 DEF VerifierMayHear, AfterDeposit, OfTerms
  <2>9. \/ mail' = box
        \/ \E v \in Verifies : mail' = Post(box, {Verifier}, v) /\ VerifierMayHear(v)'
    BY <2>1, <2>7, <2>8
  <2> QED BY <2>3, <2>4, <2>5, <2>9, BuyerSays
<1>7. CASE ReceiveVerdict(m, box)
  <2>1. pc = "verdict" /\ mail' = box /\ m.verb = "VERIFIED" /\ m.round = round
    BY <1>7 DEF ReceiveVerdict, Expects, Awaited
  <2>2. CASE MayRelease(m.verdict, policy)
    <3>1. pc' = "release" /\ UNCHANGED <<round, bids, winner, terms>>
      BY <1>7, <2>2 DEF ReceiveVerdict, locals
    <3>2. HasVerifier => terms.ref \in attested
      <4>1. policy.requireVerifier = HasVerifier
        BY DEF policy, PolicyFromEnv
      <4>2. HasVerifier => m.verdict = "pass"
        BY <2>2, <4>1 DEF MayRelease
      <4> QED BY <1>1, <2>1, <4>2 DEF BuyerMayHear, Seen
    <3>3. BuyerTypes'
      BY <2>1, <3>1 DEF BuyerTypes, Awarding
    <3>4. Bargain'
      BY <2>1, <3>1, <3>2 DEF Bargain, Settling
    <3>5. GoesOn
      BY <2>1, <3>1 DEF GoesOn, Awarding, Seen
    <3> QED BY <2>1, <3>3, <3>4, <3>5, BuyerSays
  <2>3. CASE ~MayRelease(m.verdict, policy)
    <3>1. EndRound
      BY <1>7, <2>3 DEF ReceiveVerdict
    <3>2. pc' = "idle" /\ round' = round /\ bids' = <<>>
      BY <3>1 DEF EndRound, NoLocals
    <3>3. BuyerTypes' /\ Bargain'
      BY <3>2, EmptySeq DEF BuyerTypes, Bargain, Awarding, Settling
    <3>4. GoesOn
      BY <3>2 DEF GoesOn, Awarding, Seen
    <3> QED BY <2>1, <3>3, <3>4, BuyerSays
  <2> QED BY <2>2, <2>3
<1> QED BY <1>3, <1>4, <1>5, <1>6, <1>7

\* Repeated answers stay within their bound.
LEMMA WaitRepeats ==
    ASSUME NEW a, NEW k, Wait(a, k), repeats \in 0..MaxRepeats
    PROVE  repeats' \in 0..MaxRepeats
BY MarketAssumption DEF Wait

LEMMA BuyerReceivesKeeps == ASSUME IInv, BuyerReceives PROVE IInv'
<1>1. PICK k \in Batches(Buyer) :
        /\ Wait(Buyer, k)
        /\ LET m == Head(mail[Buyer])
               box == Unread(Buyer, k)
           IN \/ Ignore(m, box) \/ ReceiveBid(m, box) \/ ReceiveTerms(m, box)
              \/ ReceiveDelivery(m, box) \/ ReceiveVerdict(m, box)
  BY DEF BuyerReceives
<1>2. mail[Buyer] # <<>>
  BY <1>1 DEF Wait
<1>3. Rest(Unread(Buyer, k)) /\ Head(mail[Buyer]) \in Letters(mail, Buyer)
  BY <1>2, AgentNames, WaitLeavesRest DEF IInv, Types
<1>4. Waits /\ UNCHANGED <<order, now, quoted, awarded, session, served, attested>>
  BY DEF BuyerReceives, rail, sellerVars, history
<1>5. WorldTypes'
  BY <1>1, <1>4, WaitRepeats DEF IInv, Types, WorldTypes
<1> QED BY <1>1, <1>3, <1>4, <1>5, ReceiveKeeps

\* A round given up, or whose transaction throws.
LEMMA GiveUpKeeps == ASSUME IInv, GiveUp \/ Throw PROVE IInv'
<1>1. EndRound /\ UNCHANGED <<order, now, quoted, awarded, mail, repeats, session, served, attested>>
  BY DEF GiveUp, Throw, rail, sellerVars, history
<1>2. WorldTypes' /\ MailTypes' /\ InOrder'
  BY <1>1 DEF IInv, Types, WorldTypes, MailTypes, InOrder
<1>3. Quiet
  BY <1>1 DEF Quiet
<1> QED BY <1>1, <1>2, <1>3, EndRoundKeeps

LEMMA CloseBidsKeeps == ASSUME IInv, CloseBids PROVE IInv'
<1> USE DEF IInv, Types
<1>1. /\ pc = "bidding"
      /\ UNCHANGED <<order, now, quoted, awarded, repeats, session, served, attested>>
  BY DEF CloseBids, rail, sellerVars, history
<1>2. WorldTypes'
  BY <1>1 DEF WorldTypes
<1>3. CASE bids = <<>>
  <2>1. EndRound /\ UNCHANGED mail
    BY <1>3 DEF CloseBids
  <2>2. MailTypes' /\ InOrder' /\ Quiet
    BY <2>1 DEF MailTypes, InOrder, Quiet
  <2> QED BY <1>1, <1>2, <2>1, <2>2, EndRoundKeeps
<1>4. CASE bids # <<>>
  <2>1. PICK b \in SelectBids(bids) :
          /\ winner' = b /\ pc' = "terms" /\ bids' = <<>>
          /\ mail' = Post(mail, {b.by}, Award(round, b.by))
          /\ round' = round
    BY <1>4 DEF CloseBids
  <2>2. b \in Offers /\ b.by \in Sellers
    <3>1. PICK i \in DOMAIN bids : b = bids[i]
      BY DEF SelectBids
    <3>2. bids \in Seq(Offers)
      BY DEF BuyerTypes
    <3>3. i \in 1..Len(bids)
      BY <3>2, LenProperties
    <3>4. b \in Offers
      BY <3>1, <3>2, <3>3, ElementOfSeq
    <3> QED BY <3>4 DEF Offers
  <2> DEFINE w == Award(round, b.by)
  <2>3. w \in Awards /\ w.verb = "AWARD" /\ w.round = round /\ round \in Rounds /\ round \in Nat
    BY <1>1, <2>2, RoundNat DEF Award, Awards, BuyerTypes
  <2>4. ASSUME NEW s \in Sellers, NEW d \in Letters(mail, s), d.verb = "DEPOSITED"
        PROVE  d.round # round
    BY <1>1, <2>4 DEF Hearing, SellerMayHear, AfterDeposit, Seen
  <2>5. Rest(mail)
    BY DEF Rest, MailTypes, InOrder
  <2>6. Addressed({b.by}, w)
    BY <2>2, <2>3, <2>4, AgentNames, MarketAssumption DEF Addressed, Messages, ToSeller
  <2>7. mail' = Post(mail, {b.by}, w)
    BY <2>1
  <2> HIDE DEF w
  <2>8. /\ MailTypes' /\ InOrder'
        /\ \A a \in Agents : Letters(mail', a)
             \subseteq (IF a \in {b.by} THEN Letters(mail, a) \cup {w} ELSE Letters(mail, a))
    BY <2>5, <2>6, <2>7, Sent
  <2>9. /\ Letters(mail', Buyer) \subseteq Letters(mail, Buyer)
        /\ Letters(mail', Verifier) \subseteq Letters(mail, Verifier)
        /\ \A s \in Sellers : \A m \in Letters(mail', s) :
              m \in Letters(mail, s) \/ (m = w /\ s = b.by)
    BY <2>2, <2>8, AgentNames, MarketAssumption
  <2>10. BuyerTypes'
    BY <1>1, <2>1, <2>2, EmptySeq DEF BuyerTypes, Awarding
  <2>11. Bargain'
    BY <2>1 DEF Bargain, Settling
  <2>12. Hearing'
    <3>1. \A n : ~(pc' \in Seen) /\ (AfterDeposit(n) => n # round)
      BY <1>1, <2>1 DEF AfterDeposit, Seen
    <3>2. \A n, ref : n # round => AfterDeposit(n)'
      BY <2>1 DEF AfterDeposit
    <3>3. \A n, ref : OfTerms(n, ref)'
      BY <3>1 DEF OfTerms
    <3>4. ASSUME NEW m \in Letters(mail', Buyer) PROVE BuyerMayHear(m)'
      <4>1. BuyerMayHear(m)
        BY <2>9, <3>4 DEF Hearing
      <4> QED BY <1>1, <2>1, <3>1, <3>2, <3>3, <4>1 DEF BuyerMayHear
    <3>5. ASSUME NEW m \in Letters(mail', Verifier) PROVE VerifierMayHear(m)'
      <4>1. VerifierMayHear(m)
        BY <2>9, <3>5 DEF Hearing
      <4> QED BY <2>1, <3>1, <3>2, <3>3, <4>1 DEF VerifierMayHear
    <3>6. ASSUME NEW s \in Sellers, NEW m \in Letters(mail', s) PROVE SellerMayHear(m)'
      <4>1. CASE m = w
        BY <2>1, <2>3, <4>1 DEF SellerMayHear
      <4>2. CASE m # w
        <5>1. SellerMayHear(m)
          BY <2>9, <3>6, <4>2 DEF Hearing
        <5> QED BY <2>1, <3>1, <3>2, <3>3, <5>1 DEF SellerMayHear
      <4> QED BY <4>1, <4>2
    <3> QED BY <3>4, <3>5, <3>6 DEF Hearing
  <2>13. \A s \in Sellers, n \in Rounds : Touched(s, n)' => Touched(s, n) \/ (s = b.by /\ n = round)
    BY <1>1, <2>3, <2>9 DEF Touched
  <2>14. OneSeller'
    BY <1>1, <2>1, <2>3, <2>13 DEF OneSeller, Awarding
  <2>15. ServedOnce'
    <3> SUFFICES ASSUME NEW s \in Sellers, NEW d \in Letters(mail', s), d.verb = "DEPOSITED",
                        MayServe(s, d)'
                 PROVE  served'[d.ref] = 0
      BY <1>1 DEF ServedOnce, DeliveredOncePerDeposit
    <3>1. d \in Letters(mail, s) /\ d.round # round
      BY <2>3, <2>4, <2>9
    <3>2. MayServe(s, d)
      BY <1>1, <2>3, <2>9, <3>1 DEF MayServe
    <3> QED BY <1>1, <3>1, <3>2 DEF ServedOnce
  <2> QED BY <1>2, <2>8, <2>10, <2>11, <2>12, <2>14, <2>15
<1> QED BY <1>3, <1>4

\* The account that owns the buyer's orders.
LEMMA OwnerAccount == \A mode : Owner(mode) \in Accounts
BY DEF Owner, Accounts

LEMMA DepositKeeps == ASSUME IInv, Deposit PROVE IInv'
<1> USE DEF IInv, Types
<1> DEFINE o == Owner(terms.settlement)
           t == [seller |-> terms.seller, amount |-> terms.amount, deadline |-> now + 1]
<1>1. /\ pc = "deposit" /\ round' = round
      /\ order' = [order EXCEPT ![o][terms.ref] = t] /\ now' = now
      /\ served' = [served EXCEPT ![terms.ref] = 0]
      /\ UNCHANGED <<quoted, awarded, repeats, session, attested>>
  BY DEF Deposit, Rail!LockWith, EndRound, sellerVars
<1>2. /\ terms \in Asks /\ terms.ref \in Refs /\ terms.ref.round = round
      /\ terms.seller \in Accounts /\ terms.amount \in Nat
      /\ terms.settlement \in Modes
      /\ winner \in Offers /\ winner.by \in Sellers
      /\ round \in Rounds /\ round \in Nat
  BY <1>1, RoundNat DEF Bargain, Settling, BuyerTypes, Awarding, Asks, Offers
<1>3. o \in Accounts
  BY OwnerAccount
<1>4. WorldTypes'
  <2>1. t \in [seller : Accounts, amount : Nat, deadline : Nat]
    BY <1>2 DEF WorldTypes
  <2> HIDE DEF o, t
  <2>2. order' \in [Accounts -> [Refs -> [seller : Accounts, amount : Nat, deadline : Nat]
                                          \cup {None}]]
    BY <1>1, <1>2, <1>3, <2>1 DEF WorldTypes
  <2>3. served' \in [Refs -> Nat]
    BY <1>1, <1>2 DEF WorldTypes
  <2> QED BY <1>1, <2>2, <2>3 DEF WorldTypes
<1> HIDE DEF o, t
<1> DEFINE w == Deposited(round, terms.ref, terms.settlement)
<1>5. /\ w \in Deposits /\ w.verb = "DEPOSITED" /\ w.round = round /\ w.ref = terms.ref
  BY <1>2 DEF Deposited, Deposits
<1>6. \/ /\ pc' = "delivery" /\ UNCHANGED <<bids, winner, terms>>
         /\ mail' = Post(mail, {winner.by}, w)
      \/ EndRound /\ UNCHANGED mail
  BY DEF Deposit, locals
<1> HIDE DEF w
<1>7. Rest(mail)
  BY DEF Rest, MailTypes, InOrder
<1>8. Addressed({winner.by}, w)
  BY <1>2, <1>5, AgentNames, MarketAssumption DEF Addressed, Messages, ToSeller
<1>9. /\ MailTypes' /\ InOrder'
      /\ Letters(mail', Buyer) \subseteq Letters(mail, Buyer)
      /\ Letters(mail', Verifier) \subseteq Letters(mail, Verifier)
      /\ \A s \in Sellers : \A m \in Letters(mail', s) :
            m \in Letters(mail, s) \/ (m = w /\ s = winner.by /\ pc' = "delivery" /\ terms' = terms)
  <2>1. CASE mail' = mail
    BY <2>1 DEF MailTypes, InOrder
  <2>2. CASE mail' # mail
    <3>1. /\ pc' = "delivery" /\ terms' = terms
          /\ mail' = Post(mail, {winner.by}, w)
      BY <1>6, <2>2
    <3>2. /\ MailTypes' /\ InOrder'
          /\ \A a \in Agents : Letters(mail', a) \subseteq
               (IF a \in {winner.by} THEN Letters(mail, a) \cup {w} ELSE Letters(mail, a))
      BY <1>7, <1>8, <3>1, Sent
    <3> QED BY <1>2, <3>1, <3>2, AgentNames, MarketAssumption
  <2> QED BY <2>1, <2>2
<1>10. /\ pc' \in {"delivery", "idle"} /\ (pc' = "delivery" => UNCHANGED <<bids, winner, terms>>)
       /\ (pc' = "idle" => bids' = <<>>)
  BY <1>6 DEF EndRound, NoLocals
<1>11. BuyerTypes'
  BY <1>1, <1>10, EmptySeq DEF BuyerTypes, Awarding
<1>12. Bargain'
  BY <1>1, <1>10 DEF Bargain, Settling
<1>13. Hearing'
  <2>1. \A n : AfterDeposit(n) => n # round
    BY <1>1 DEF AfterDeposit, Seen
  <2>2. \A n : AfterDeposit(n)'
    BY <1>10 DEF AfterDeposit, Seen
  <2>3. \A n, ref : n # round => OfTerms(n, ref)'
    BY <1>1 DEF OfTerms
  <2>4. ASSUME NEW m \in Letters(mail', Buyer) PROVE BuyerMayHear(m)'
    <3>1. m \in ToBuyer /\ BuyerMayHear(m)
      BY <1>9, <2>4 DEF Hearing, MailTypes
    <3>2. m.verb = "DELIVERED" => m.payload.ref \in Refs /\ m.payload.ref # terms.ref
      BY <1>2, <2>1, <3>1, BuyerKinds DEF BuyerMayHear
    <3>3. m.verb = "DELIVERED" => served'[m.payload.ref] > 0
      BY <1>1, <3>1, <3>2 DEF BuyerMayHear, WorldTypes
    <3>4. pc' \in Awarding => pc \in Awarding /\ winner' = winner
      BY <1>1, <1>10 DEF Awarding
    <3>5. pc' # "bidding"
      BY <1>10
    <3> QED BY <1>1, <2>1, <2>2, <2>3, <3>1, <3>3, <3>4, <3>5 DEF BuyerMayHear
  <2>5. ASSUME NEW m \in Letters(mail', Verifier) PROVE VerifierMayHear(m)'
    <3>1. VerifierMayHear(m)
      BY <1>9, <2>5 DEF Hearing
    <3> QED BY <1>1, <2>1, <2>2, <2>3, <3>1 DEF VerifierMayHear
  <2>6. ASSUME NEW s \in Sellers, NEW m \in Letters(mail', s) PROVE SellerMayHear(m)'
    <3>1. CASE m \in Letters(mail, s)
      BY <1>1, <2>1, <2>2, <2>3, <3>1 DEF Hearing, SellerMayHear
    <3>2. CASE m \notin Letters(mail, s)
      <4>1. m = w /\ terms' = terms
        BY <1>9, <2>6, <3>2
      <4> QED BY <1>1, <1>2, <1>5, <2>2, <4>1 DEF SellerMayHear, OfTerms
    <3> QED BY <3>1, <3>2
  <2> QED BY <2>4, <2>5, <2>6 DEF Hearing
<1>14. \A s \in Sellers, n \in Rounds :
          Touched(s, n)' => Touched(s, n) \/ (s = winner.by /\ n = round)
  BY <1>1, <1>5, <1>9 DEF Touched
<1>15. OneSeller'
  <2>1. \A s \in Sellers : Touched(s, round) => s = winner.by
    BY <1>1, <1>2 DEF OneSeller, Awarding
  <2> QED BY <1>1, <1>2, <1>10, <1>14, <2>1 DEF OneSeller, Awarding
<1>16. ServedOnce'
  <2>1. ASSUME NEW s \in Sellers, NEW d \in Letters(mail', s), d.verb = "DEPOSITED", MayServe(s, d)'
        PROVE  served'[d.ref] = 0
    <3>1. CASE d.ref = terms.ref
      BY <1>1, <1>2, <3>1 DEF WorldTypes
    <3>2. CASE d.ref # terms.ref
      <4>1. d \in Letters(mail, s)
        BY <1>5, <1>9, <2>1, <3>2
      <4>2. MayServe(s, d)
        BY <1>1, <1>5, <1>9, <2>1 DEF MayServe
      <4>3. d.ref \in Refs
        BY <2>1, <4>1, SellerKinds DEF MailTypes
      <4> QED BY <1>1, <2>1, <3>2, <4>1, <4>2, <4>3 DEF ServedOnce, WorldTypes
    <3> QED BY <3>1, <3>2
  <2>2. DeliveredOncePerDeposit'
    BY <1>1 DEF ServedOnce, DeliveredOncePerDeposit, WorldTypes
  <2> QED BY <2>1, <2>2 DEF ServedOnce
<1> QED BY <1>4, <1>9, <1>11, <1>12, <1>13, <1>15, <1>16

LEMMA ReleaseKeeps == ASSUME IInv, Release PROVE IInv'
<1> USE DEF IInv, Types
<1> DEFINE o == Owner(terms.settlement)
           w == Released(round)
<1>1. /\ pc = "release" /\ EndRound
      /\ order' = [order EXCEPT ![o][terms.ref] = None] /\ now' = now
      /\ UNCHANGED <<quoted, awarded, repeats, session, served, attested>>
      /\ mail' = Post(mail, {winner.by}, w) \/ mail' = mail
  BY DEF Release, Rail!Pay, sellerVars, history
<1>2. /\ terms.ref \in Refs /\ winner.by \in Sellers /\ round \in Rounds
  BY <1>1 DEF Bargain, Settling, BuyerTypes, Awarding, Asks, Offers
<1>3. WorldTypes'
  BY <1>1, <1>2, OwnerAccount DEF WorldTypes
<1>4. w \in Releases /\ w.verb = "RELEASED" /\ w.round = round
  BY <1>2 DEF Released, Releases
<1> HIDE DEF o, w
<1>5. Rest(mail)
  BY DEF Rest, MailTypes, InOrder
<1>6. Addressed({winner.by}, w)
  BY <1>2, <1>4, AgentNames, MarketAssumption DEF Addressed, Messages, ToSeller
<1>7. /\ MailTypes' /\ InOrder'
      /\ Letters(mail', Buyer) \subseteq Letters(mail, Buyer)
      /\ Letters(mail', Verifier) \subseteq Letters(mail, Verifier)
      /\ \A s \in Sellers : Letters(mail', s) \subseteq Letters(mail, s) \cup {w}
  <2>1. CASE mail' = mail
    BY <2>1 DEF MailTypes, InOrder
  <2>2. CASE mail' = Post(mail, {winner.by}, w)
    <3>1. /\ MailTypes' /\ InOrder'
          /\ \A a \in Agents : Letters(mail', a) \subseteq
               (IF a \in {winner.by} THEN Letters(mail, a) \cup {w} ELSE Letters(mail, a))
      BY <1>5, <1>6, <2>2, Sent
    <3> QED BY <1>2, <3>1, AgentNames, MarketAssumption
  <2> QED BY <1>1, <2>1, <2>2
<1>8. /\ Quiet
      /\ \A s \in Sellers : \A m \in Letters(mail', s) :
            m \in Letters(mail, s) \/ (m.verb = "RELEASED" /\ m.round = round)
  BY <1>4, <1>7 DEF Quiet
<1> QED BY <1>1, <1>3, <1>7, <1>8, EndRoundKeeps
-----------------------------------------------------------------------------
(* The sellers' and the verifier's steps. *)

\* A seller or the verifier answers the buyer, or says nothing.
LEMMA BuyerIsTold ==
    ASSUME IInv, NEW box, Rest(box), WorldGoesOn,
           \/ mail' = box
           \/ \E w \in ToBuyer : /\ mail' = Post(box, {Buyer}, w) /\ w.verb # "AWARD"
                                 /\ BuyerMayHear(w)'
    PROVE  /\ MailTypes' /\ InOrder' /\ Hearing' /\ Quiet
<1> USE DEF IInv, Types
<1>1. StillMayHear
  BY WorldGoesOnHears
<1>2. CASE mail' = box
  <2>1. /\ MailTypes' /\ InOrder'
        /\ \A a \in Agents : Letters(mail', a) \subseteq Letters(mail, a)
    BY <1>2, NothingSent
  <2>2. Quiet
    BY <2>1, AgentNames DEF Quiet
  <2>3. Hearing'
    BY <1>1, <2>1, AgentNames DEF Hearing, StillMayHear
  <2> QED BY <2>1, <2>2, <2>3
<1>3. ASSUME NEW w \in ToBuyer, mail' = Post(box, {Buyer}, w), w.verb # "AWARD",
             BuyerMayHear(w)'
      PROVE  /\ MailTypes' /\ InOrder' /\ Hearing' /\ Quiet
  <2>1. Addressed({Buyer}, w)
    BY <1>3, AgentNames, MarketAssumption DEF Addressed, Messages
  <2>2. /\ MailTypes' /\ InOrder'
        /\ \A a \in Agents : Letters(mail', a)
             \subseteq (IF a \in {Buyer} THEN Letters(mail, a) \cup {w} ELSE Letters(mail, a))
    BY <1>3, <2>1, Sent
  <2>3. /\ Letters(mail', Buyer) \subseteq Letters(mail, Buyer) \cup {w}
        /\ Letters(mail', Verifier) \subseteq Letters(mail, Verifier)
        /\ \A s \in Sellers : Letters(mail', s) \subseteq Letters(mail, s)
    BY <2>2, AgentNames, MarketAssumption
  <2>4. Quiet
    BY <2>3 DEF Quiet
  <2>5. Hearing'
    BY <1>1, <1>3, <2>3 DEF Hearing, StillMayHear
  <2> QED BY <2>2, <2>4, <2>5
<1> QED BY <1>2, <1>3

\* The buyer's side of the invariant, when the buyer does not move.
LEMMA BuyerStays ==
    ASSUME IInv, WorldGoesOn, UNCHANGED bids PROVE BuyerTypes' /\ Bargain'
<1> USE DEF IInv, Types
<1>1. BuyerTypes'
  BY DEF BuyerTypes, WorldGoesOn
<1>2. Bargain'
  <2>1. pc \in Settling => terms.ref \in Refs
    BY DEF Bargain, Asks
  <2> QED BY <2>1 DEF Bargain, WorldGoesOn, Settling
<1> QED BY <1>1, <1>2

\* What a seller quotes, or no longer quotes, for a round.
LEMMA QuoteTypes ==
    ASSUME NEW T, NEW f \in [Sellers -> [Rounds -> T]], NEW s \in Sellers, NEW n \in Rounds
    PROVE  /\ f[s][n] \in T
           /\ \A x \in T : [f EXCEPT ![s][n] = x] \in [Sellers -> [Rounds -> T]]
<1>1. f[s] \in [Rounds -> T]
  OBVIOUS
<1>2. f[s][n] \in T
  BY <1>1
<1>3. \A x \in T : [f[s] EXCEPT ![n] = x] \in [Rounds -> T]
  BY <1>1
<1>4. \A g \in [Rounds -> T] : [f EXCEPT ![s] = g] \in [Sellers -> [Rounds -> T]]
  OBVIOUS
<1> QED BY <1>2, <1>3, <1>4

LEMMA OnWantKeeps ==
    ASSUME IInv, NEW s \in Sellers, NEW m \in Letters(mail, s), NEW box, Rest(box),
           OnWant(s, m, box), UNCHANGED <<buyerVars, session>>, repeats' \in 0..MaxRepeats
    PROVE  IInv'
<1> USE DEF IInv, Types
<1>1. /\ m \in ToSeller /\ m.verb = "WANT" /\ SellerMayHear(m)
      /\ UNCHANGED <<order, now, awarded, served, attested, pc, round, bids, winner, terms, session>>
  BY DEF OnWant, MailTypes, Hearing, rail, history, buyerVars, locals
<1>2. m.round \in Rounds /\ m.budget = Wire(Budget) /\ m.round <= round
  BY <1>1, SellerKinds DEF SellerMayHear
<1>3. WorldGoesOn
  BY <1>1 DEF WorldGoesOn
<1>4. \/ mail' = box /\ quoted' = quoted
      \/ \E p \in Prices : /\ quoted' = [quoted EXCEPT ![s][m.round] = p]
                           /\ mail' = Post(box, {Buyer}, Bid(m.round, p, s))
  BY <1>2, PricesNat DEF OnWant
<1>5. WorldTypes'
  <2>1. quoted' \in [Sellers -> [Rounds -> Prices \cup {None}]]
    <3>1. CASE quoted' = quoted
      BY <3>1 DEF WorldTypes
    <3>2. ASSUME NEW p \in Prices, quoted' = [quoted EXCEPT ![s][m.round] = p]
          PROVE  quoted' \in [Sellers -> [Rounds -> Prices \cup {None}]]
      BY <1>2, <3>2, QuoteTypes DEF WorldTypes
    <3> QED BY <1>4, <3>1, <3>2
  <2> QED BY <1>1, <2>1 DEF WorldTypes
<1>6. \/ mail' = box
      \/ \E w \in ToBuyer : /\ mail' = Post(box, {Buyer}, w) /\ w.verb # "AWARD"
                            /\ BuyerMayHear(w)'
  <2>1. ASSUME NEW p \in Prices
        PROVE  /\ Bid(m.round, p, s) \in ToBuyer /\ Bid(m.round, p, s).verb = "BID"
               /\ Bid(m.round, p, s).round = m.round
    <3>1. Wire(p) \in Nat
      BY PricesNat, WireNat
    <3> QED BY <1>2, <3>1 DEF Bid, Bids, ToBuyer
  <2>2. ASSUME NEW p \in Prices PROVE BuyerMayHear(Bid(m.round, p, s))'
    BY <1>1, <1>2, <2>1 DEF BuyerMayHear
  <2> QED BY <1>4, <2>1, <2>2
<1>7. MailTypes' /\ InOrder' /\ Hearing' /\ Quiet
  BY <1>3, <1>6, BuyerIsTold
<1>8. GoesOn
  BY <1>1 DEF GoesOn
<1> QED BY <1>1, <1>3, <1>5, <1>7, <1>8, BuyerStays, QuietOneSeller, QuietServedOnce

LEMMA OnReleasedKeeps ==
    ASSUME IInv, NEW m, NEW box, Rest(box), OnReleased(m, box),
           UNCHANGED <<buyerVars, session>>, repeats' \in 0..MaxRepeats
    PROVE  IInv'
<1> USE DEF IInv, Types
<1>1. /\ mail' = box
      /\ UNCHANGED <<order, now, quoted, awarded, served, attested, pc, round, bids, winner, terms, session>>
  BY DEF OnReleased, rail, sellerVars, history, buyerVars, locals
<1>2. WorldGoesOn /\ GoesOn
  BY <1>1 DEF WorldGoesOn, GoesOn
<1>3. WorldTypes'
  BY <1>1 DEF WorldTypes
<1>4. MailTypes' /\ InOrder' /\ Hearing' /\ Quiet
  BY <1>1, <1>2, BuyerIsTold
<1> QED BY <1>1, <1>2, <1>3, <1>4, BuyerStays, QuietOneSeller, QuietServedOnce

LEMMA OnAwardKeeps ==
    ASSUME IInv, NEW s \in Sellers, NEW m \in Letters(mail, s), NEW box, Rest(box),
           OnAward(s, m, box), UNCHANGED <<buyerVars, session>>, repeats' \in 0..MaxRepeats
    PROVE  IInv'
<1> USE DEF IInv, Types
<1>1. /\ m \in ToSeller /\ m.verb = "AWARD" /\ SellerMayHear(m)
      /\ UNCHANGED <<order, now, served, attested, pc, round, bids, winner, terms, session>>
  BY DEF OnAward, MailTypes, Hearing, rail, history, buyerVars, locals
<1>2. m.round \in Rounds /\ m.round <= round
  BY <1>1, SellerKinds DEF SellerMayHear
<1>3. WorldGoesOn
  BY <1>1 DEF WorldGoesOn
<1>4. CASE m.to = s /\ quoted[s][m.round] # None
  <2>1. PICK p : p = quoted[s][m.round]
    OBVIOUS
  <2>2. PICK r : r = Order(s, m.round)
    OBVIOUS
  <2>3. PICK w : w = EscrowRequired(m.round, r, Wallet[s], p, Settles[s])
    OBVIOUS
  <2>4. /\ awarded' = [awarded EXCEPT ![s] = @ \cup {r}]
        /\ quoted' = [quoted EXCEPT ![s][m.round] = None]
        /\ mail' = Post(box, {Buyer}, w)
    BY <1>4, <2>1, <2>2, <2>3 DEF OnAward
  <2>5. p \in Prices /\ p \in Nat
    <3>1. p \in Prices \cup {None}
      BY <1>2, <2>1, QuoteTypes DEF WorldTypes
    <3> QED BY <1>4, <2>1, <3>1, PricesNat
  <2>6. r \in Refs /\ r.round = m.round /\ r.price = p
    BY <1>2, <2>5, <2>1, <2>2, ReferenceIn DEF Order
  <2>7. WorldTypes'
    <3>1. awarded' \in [Sellers -> SUBSET Refs]
      BY <2>4, <2>6 DEF WorldTypes
    <3>2. quoted' \in [Sellers -> [Rounds -> Prices \cup {None}]]
      BY <1>2, <2>4, QuoteTypes DEF WorldTypes
    <3> QED BY <1>1, <3>1, <3>2 DEF WorldTypes
  <2>8. /\ w \in Asks /\ w.verb = "ESCROW_REQUIRED" /\ w.round = m.round /\ w.ref = r
        /\ w.seller = Wallet[s] /\ w.amount = Wire(p)
    <3>1. Wire(p) \in Nat /\ Wallet[s] \in Accounts /\ Settles[s] \in Modes
      BY <2>5, WireNat, WalletAccount, MarketAssumption DEF Modes
    <3> QED BY <1>2, <2>6, <2>3, <3>1 DEF EscrowRequired, Asks
  <2>9. w \in ToBuyer
    BY <2>8 DEF ToBuyer
  <2>10. Touched(s, m.round)
    BY <1>1 DEF Touched
  <2>11. BuyerMayHear(w)'
    <3>1. m.round = round => pc # "bidding" /\ (pc \in Awarding => s = winner.by)
      BY <1>2, <2>10 DEF OneSeller
    <3>2. /\ m.round <= round' /\ r.round = m.round /\ Wire(p) = Wire(r.price)
          /\ m.round = round' => pc' # "bidding" /\ (pc' \in Awarding => s = winner'.by)
      BY <1>1, <1>2, <2>6, <3>1
    <3>3. BuyerMayHear(w)' = BuyerMayHear(w)
      BY <1>1 DEF BuyerMayHear, AfterDeposit, OfTerms
    <3> QED BY <1>1, <2>8, <3>2, <3>3 DEF BuyerMayHear
  <2>12. MailTypes' /\ InOrder' /\ Hearing' /\ Quiet
    <3>1. w.verb # "AWARD"
      BY <2>8
    <3>2. \E v \in ToBuyer : /\ mail' = Post(box, {Buyer}, v) /\ v.verb # "AWARD"
                             /\ BuyerMayHear(v)'
      BY <2>4, <2>9, <2>11, <3>1
    <3> QED BY <1>3, <3>2, BuyerIsTold
  <2>13. \A t \in Sellers : \A q \in awarded'[t] : q \in awarded[t] \/ (t = s /\ q = r)
    BY <2>4 DEF WorldTypes
  <2>14. OneSeller'
    <3>1. \A t \in Sellers, n \in Rounds : Touched(t, n)' => Touched(t, n)
      BY <2>6, <2>10, <2>12, <2>13 DEF Touched, Quiet
    <3> QED BY <1>1, <3>1 DEF OneSeller
  <2>15. ServedOnce'
    <3>1. ASSUME NEW t \in Sellers, NEW d \in Letters(mail', t), d.verb = "DEPOSITED",
                 MayServe(t, d)'
          PROVE  served'[d.ref] = 0
      <4>1. d \in Letters(mail, t) /\ d.ref.round = d.round
        BY <2>12, <3>1 DEF Quiet, Hearing, SellerMayHear
      <4>2. MayServe(t, d)
        BY <1>1, <2>6, <2>12, <2>13, <3>1, <4>1 DEF MayServe, Quiet
      <4> QED BY <1>1, <3>1, <4>1, <4>2 DEF ServedOnce
    <3> QED BY <1>1, <3>1 DEF ServedOnce, DeliveredOncePerDeposit
  <2> QED BY <1>1, <1>3, <2>7, <2>12, <2>14, <2>15, BuyerStays
<1>5. CASE ~(m.to = s /\ quoted[s][m.round] # None)
  <2>1. mail' = box /\ UNCHANGED <<quoted, awarded>>
    BY <1>5 DEF OnAward, sellerVars
  <2>2. MailTypes' /\ InOrder' /\ Hearing' /\ Quiet
    BY <1>3, <2>1, BuyerIsTold
  <2>3. WorldTypes' /\ GoesOn
    BY <1>1, <2>1 DEF WorldTypes, GoesOn
  <2> QED BY <1>1, <1>3, <2>1, <2>2, <2>3, BuyerStays, QuietOneSeller, QuietServedOnce
<1> QED BY <1>4, <1>5

\* The mention that is handled was the first: what is unread of a round whose deposit
\* is being handled is no award.
LEMMA NoAwardAfter ==
    ASSUME MailTypes, InOrder, NEW s \in Sellers, mail[s] # <<>>,
           Head(mail[s]).verb = "DEPOSITED", NEW a \in Letters(mail, s), a.verb = "AWARD"
    PROVE  a.round # Head(mail[s]).round
<1>1. mail[s] \in Seq(Messages) /\ AwardFirst(mail[s])
  BY AgentNames DEF MailTypes, InOrder
<1>2. Len(mail[s]) \in Nat \ {0} /\ DOMAIN mail[s] = 1..Len(mail[s]) /\ Head(mail[s]) = mail[s][1]
  BY <1>1, EmptySeq, LenProperties
<1>3. PICK j \in DOMAIN mail[s] : a = mail[s][j]
  BY DEF Letters
<1>4. 1 \in DOMAIN mail[s] /\ 1 < j
  BY <1>2, <1>3
<1> QED BY <1>1, <1>2, <1>3, <1>4 DEF AwardFirst

LEMMA OnDepositedKeeps ==
    ASSUME IInv, NEW s \in Sellers, mail[s] # <<>>, NEW m, m = Head(mail[s]),
           m \in Letters(mail, s), NEW box, Rest(box), OnDeposited(s, m, box),
           UNCHANGED <<buyerVars, session>>, repeats' \in 0..MaxRepeats
    PROVE  IInv'
<1> USE DEF IInv, Types
<1>1. /\ m \in ToSeller /\ m.verb = "DEPOSITED" /\ SellerMayHear(m)
      /\ UNCHANGED <<order, now, quoted, attested, pc, round, bids, winner, terms, session>>
  BY DEF OnDeposited, MailTypes, Hearing, rail, buyerVars, locals
<1>2. m.round \in Rounds /\ m.round <= round /\ m.ref \in Refs /\ m.ref.round = m.round
  BY <1>1, SellerKinds DEF SellerMayHear
<1>3. \/ /\ m.ref \in awarded[s]
         /\ awarded' = [awarded EXCEPT ![s] = @ \ {m.ref}]
         /\ served' = [served EXCEPT ![m.ref] = @ + 1]
      \/ /\ served' = served
         /\ \/ awarded' = [awarded EXCEPT ![s] = @ \ {m.ref}]
            \/ awarded' = awarded
  BY DEF OnDeposited, ForgetOrder
<1>4. /\ awarded' \in [Sellers -> SUBSET Refs]
      /\ \A t \in Sellers : awarded'[t] \subseteq awarded[t]
  BY <1>3 DEF WorldTypes
<1>5. WorldTypes' /\ (\A r \in Refs : served'[r] >= served[r] /\ served[r] \in Nat)
  <2>1. served' \in [Refs -> Nat] /\ (\A r \in Refs : served'[r] >= served[r] /\ served[r] \in Nat)
    <3>1. CASE served' = served
      BY <3>1 DEF WorldTypes
    <3>2. CASE served' = [served EXCEPT ![m.ref] = @ + 1]
      <4>1. served[m.ref] + 1 \in Nat
        BY <1>2 DEF WorldTypes
      <4>2. served' \in [Refs -> Nat]
        BY <3>2, <4>1 DEF WorldTypes
      <4>3. \A r \in Refs : served'[r] = IF r = m.ref THEN served[r] + 1 ELSE served[r]
        BY <3>2 DEF WorldTypes
      <4>4. \A r \in Refs : served[r] \in Nat
        BY DEF WorldTypes
      <4> QED BY <4>2, <4>3, <4>4
    <3> QED BY <1>3, <3>1, <3>2
  <2> QED BY <1>1, <1>4, <2>1 DEF WorldTypes
<1>6. WorldGoesOn
  BY <1>1, <1>5 DEF WorldGoesOn, WorldTypes
<1>7. \E w \in ToBuyer : /\ mail' = Post(box, {Buyer}, w) /\ w.verb # "AWARD"
                         /\ BuyerMayHear(w)'
  <2>1. Error \in ToBuyer /\ Error.verb # "AWARD" /\ BuyerMayHear(Error)'
    <3>1. 0 <= round'
      BY <1>1, MarketAssumption DEF BuyerTypes
    <3> QED BY <3>1 DEF Error, ToBuyer, BuyerMayHear
  <2>2. ASSUME NEW kind \in {"good", "bad"}, served' = [served EXCEPT ![m.ref] = @ + 1],
               mail' = Post(box, {Buyer}, Delivered(m.round, [ref |-> m.ref, kind |-> kind]))
        PROVE  \E w \in ToBuyer : /\ mail' = Post(box, {Buyer}, w) /\ w.verb # "AWARD"
                                  /\ BuyerMayHear(w)'
    <3>1. PICK w : w = Delivered(m.round, [ref |-> m.ref, kind |-> kind])
      OBVIOUS
    <3>2. w \in Deliveries /\ w.verb = "DELIVERED" /\ w.round = m.round /\ w.payload.ref = m.ref
      BY <1>2, <3>1 DEF Delivered, Deliveries, Payloads
    <3>3. served'[m.ref] > 0
      BY <1>2, <2>2 DEF WorldTypes
    <3>4. AfterDeposit(m.round)' /\ OfTerms(m.round, m.ref)'
      BY <1>1 DEF SellerMayHear, AfterDeposit, OfTerms
    <3>5. m.round <= round'
      BY <1>1, <1>2
    <3>6. BuyerMayHear(w)'
      BY <1>2, <3>2, <3>3, <3>4, <3>5 DEF BuyerMayHear
    <3> QED BY <2>2, <3>1, <3>2, <3>6 DEF ToBuyer
  <2>3. \/ mail' = Post(box, {Buyer}, Error)
        \/ \E kind \in {"good", "bad"} :
              /\ mail' = Post(box, {Buyer}, Delivered(m.round, [ref |-> m.ref, kind |-> kind]))
              /\ served' = [served EXCEPT ![m.ref] = @ + 1]
    BY DEF OnDeposited
  <2> QED BY <2>1, <2>2, <2>3
<1>8. MailTypes' /\ InOrder' /\ Hearing' /\ Quiet
  BY <1>6, <1>7, BuyerIsTold
<1>9. OneSeller'
  <2>1. \A t \in Sellers, n \in Rounds : Touched(t, n)' => Touched(t, n)
    BY <1>4, <1>8 DEF Touched, Quiet
  <2> QED BY <1>1, <2>1 DEF OneSeller
<1>10. ServedOnce'
  <2>1. ASSUME NEW t \in Sellers, NEW d \in Letters(mail', t), d.verb = "DEPOSITED", MayServe(t, d)'
        PROVE  served'[d.ref] = 0
    <3>1. d \in Letters(mail, t) /\ MayServe(t, d)
      BY <1>4, <1>8, <2>1 DEF MayServe, Quiet
    <3>2. served[d.ref] = 0 /\ d.ref \in Refs /\ d.ref.round = d.round
      BY <2>1, <3>1, SellerKinds DEF ServedOnce, MailTypes, Hearing, SellerMayHear
    <3>3. CASE d.ref # m.ref \/ served' = served
      BY <1>2, <1>3, <3>2, <3>3 DEF WorldTypes
    <3>4. CASE d.ref = m.ref /\ awarded' = [awarded EXCEPT ![s] = @ \ {m.ref}]
      <4>1. d.round = m.round
        BY <1>2, <3>2, <3>4
      <4>2. t = s
        <5>1. Touched(t, m.round) /\ Touched(s, m.round)
          BY <1>1, <2>1, <3>1, <4>1 DEF Touched
        <5> QED BY <1>2, <5>1 DEF OneSeller
      <4>3. d.ref \notin awarded'[s]
        BY <3>4 DEF WorldTypes
      <4>4. PICK a \in Letters(mail', s) : a.verb = "AWARD" /\ a.round = m.round
        BY <2>1, <4>1, <4>2, <4>3 DEF MayServe
      <4>5. a \in Letters(mail, s)
        BY <1>8, <4>4 DEF Quiet
      <4> QED BY <1>1, <4>4, <4>5, NoAwardAfter
    <3> QED BY <1>3, <3>3, <3>4
  <2>2. DeliveredOncePerDeposit'
    <3>1. CASE served' = served
      BY <3>1 DEF ServedOnce, DeliveredOncePerDeposit
    <3>2. CASE served' # served
      <4>1. served[m.ref] = 0
        BY <1>1, <1>3, <3>2 DEF ServedOnce, MayServe
      <4>2. served' = [served EXCEPT ![m.ref] = 1]
        BY <1>3, <3>2, <4>1 DEF WorldTypes
      <4> QED BY <4>2 DEF ServedOnce, DeliveredOncePerDeposit, WorldTypes
    <3> QED BY <3>1, <3>2
  <2> QED BY <2>1, <2>2 DEF ServedOnce
<1> QED BY <1>1, <1>5, <1>6, <1>8, <1>9, <1>10, BuyerStays

LEMMA SellerStepKeeps == ASSUME IInv, NEW s \in Sellers, SellerStep(s) PROVE IInv'
<1>1. PICK k \in Batches(s) :
        /\ Wait(s, k)
        /\ LET m == Head(mail[s])
               box == Unread(s, k)
           IN OnWant(s, m, box) \/ OnAward(s, m, box) \/ OnDeposited(s, m, box)
              \/ OnReleased(m, box)
  BY DEF SellerStep
<1>2. mail[s] # <<>>
  BY <1>1 DEF Wait
<1>3. Rest(Unread(s, k)) /\ Head(mail[s]) \in Letters(mail, s)
  BY <1>2, AgentNames, WaitLeavesRest DEF IInv, Types
<1>4. UNCHANGED <<buyerVars, session>>
  BY DEF SellerStep
<1>5. repeats' \in 0..MaxRepeats
  BY <1>1, WaitRepeats DEF IInv, Types, WorldTypes
<1> QED BY <1>1, <1>2, <1>3, <1>4, <1>5,
           OnWantKeeps, OnAwardKeeps, OnDepositedKeeps, OnReleasedKeeps

LEMMA VerifierStepKeeps == ASSUME IInv, VerifierStep PROVE IInv'
<1> USE DEF IInv, Types
<1>1. PICK k \in Batches(Verifier) :
        /\ Wait(Verifier, k)
        /\ \E verdict \in IF Head(mail[Verifier]).payload.kind = "good" THEN {"pass", "fail"} ELSE {"fail"} :
             /\ mail' = Post(Unread(Verifier, k), {Buyer},
                             Verified(Head(mail[Verifier]).round, verdict))
             /\ attested' = attested \cup
                  (IF verdict = "pass" THEN {Head(mail[Verifier]).payload.ref} ELSE {})
  BY DEF VerifierStep
<1>2. mail[Verifier] # <<>>
  BY <1>1 DEF Wait
<1>3. Rest(Unread(Verifier, k)) /\ Head(mail[Verifier]) \in Letters(mail, Verifier)
  BY <1>2, AgentNames, WaitLeavesRest
<1>4. PICK m : m = Head(mail[Verifier])
  OBVIOUS
<1>5. PICK verdict \in {"pass", "fail"} :
        /\ mail' = Post(Unread(Verifier, k), {Buyer}, Verified(m.round, verdict))
        /\ attested' = attested \cup (IF verdict = "pass" THEN {m.payload.ref} ELSE {})
  BY <1>1, <1>4
<1>6. /\ m \in Verifies /\ VerifierMayHear(m)
      /\ m.round \in Rounds /\ m.round <= round /\ m.payload.ref \in Refs
  BY <1>3, <1>4, VerifierKinds DEF MailTypes, Hearing, VerifierMayHear
<1>7. UNCHANGED <<order, now, quoted, awarded, pc, round, bids, winner, terms, session, served>>
  BY DEF VerifierStep, rail, buyerVars, locals, sellerVars
<1>8. repeats' \in 0..MaxRepeats
  BY <1>1, WaitRepeats DEF WorldTypes
<1>9. WorldTypes'
  BY <1>5, <1>6, <1>7, <1>8 DEF WorldTypes
<1>10. WorldGoesOn
  BY <1>5, <1>7 DEF WorldGoesOn
<1>11. PICK w : w = Verified(m.round, verdict)
  OBVIOUS
<1>12. /\ w \in Verdicts /\ w.verb = "VERIFIED" /\ w.round = m.round /\ w.verdict = verdict
  BY <1>6, <1>11 DEF Verified, Verdicts
<1>13. BuyerMayHear(w)'
  <2>1. AfterDeposit(m.round)' /\ m.round <= round'
    BY <1>6, <1>7 DEF VerifierMayHear, AfterDeposit
  <2>2. m.round = round' /\ pc' \in Seen /\ verdict = "pass" => terms'.ref \in attested'
    BY <1>5, <1>6, <1>7 DEF VerifierMayHear, OfTerms
  <2> QED BY <1>12, <2>1, <2>2 DEF BuyerMayHear
<1>14. MailTypes' /\ InOrder' /\ Hearing' /\ Quiet
  <2>1. \E v \in ToBuyer : /\ mail' = Post(Unread(Verifier, k), {Buyer}, v)
                           /\ v.verb # "AWARD" /\ BuyerMayHear(v)'
    BY <1>5, <1>11, <1>12, <1>13 DEF ToBuyer
  <2> QED BY <1>3, <1>10, <2>1, BuyerIsTold
<1>15. OneSeller' /\ ServedOnce'
  <2>1. /\ \A s \in Sellers, n \in Rounds : Touched(s, n)' => Touched(s, n)
    BY <1>7, <1>14, QuietTouches
  <2>2. OneSeller'
    BY <1>7, <2>1 DEF OneSeller
  <2> QED BY <1>7, <1>14, <2>2, QuietServedOnce
<1> QED BY <1>7, <1>9, <1>10, <1>14, <1>15, BuyerStays

\* What a new session forgets, nobody may hear of; what was served, the chain's orders
\* and the history keep.
LEMMA NewSessionKeeps == ASSUME IInv, NewSession PROVE IInv'
<1> USE DEF IInv, Types
<1>1. /\ pc' = "idle" /\ round' = 0 /\ bids' = <<>>
      /\ quoted' = [s \in Sellers |-> [n \in Rounds |-> None]]
      /\ awarded' = [s \in Sellers |-> {}]
      /\ mail' = [a \in Agents |-> <<>>] /\ attested' = {}
      /\ session' = session + 1 /\ session < MaxSession
      /\ UNCHANGED <<order, now, repeats, served>>
  BY DEF NewSession, NoLocals, rail
<1>2. \A a \in Agents : mail'[a] = <<>> /\ Letters(mail', a) = {}
  BY <1>1 DEF Letters
<1>3. WorldTypes'
  <2>1. session' \in 1..MaxSession
    BY <1>1, MarketAssumption DEF WorldTypes
  <2> QED BY <1>1, <2>1 DEF WorldTypes
<1>4. BuyerTypes'
  BY <1>1, MarketAssumption, EmptySeq DEF BuyerTypes, Awarding
<1>5. MailTypes'
  <2>1. mail' \in [Agents -> Seq(Messages)]
    BY <1>1, EmptySeq
  <2> QED BY <1>2, <2>1, AgentNames DEF MailTypes
<1>6. Bargain'
  BY <1>1 DEF Bargain, Settling
<1>7. Hearing' /\ InOrder'
  BY <1>2, AgentNames DEF Hearing, InOrder, AwardFirst
<1>8. OneSeller' /\ ServedOnce'
  BY <1>1, <1>2, AgentNames DEF OneSeller, Touched, ServedOnce, DeliveredOncePerDeposit
<1> QED BY <1>3, <1>4, <1>5, <1>6, <1>7, <1>8

LEMMA NextIInv == IInv /\ [Next]_vars => IInv'
<1> SUFFICES ASSUME IInv, [Next]_vars PROVE IInv'
  OBVIOUS
<1>1. CASE BuyerStep
  BY <1>1, SendWantKeeps, BuyerReceivesKeeps, CloseBidsKeeps, GiveUpKeeps, DepositKeeps,
     ReleaseKeeps DEF BuyerStep
<1>2. CASE VerifierStep
  BY <1>2, VerifierStepKeeps
<1>3. CASE NewSession
  BY <1>3, NewSessionKeeps
<1>4. ASSUME NEW s \in Sellers, SellerStep(s) PROVE IInv'
  BY <1>4, SellerStepKeeps
<1>5. CASE UNCHANGED vars
  <2>1. UNCHANGED <<order, now, pc, round, bids, winner, terms, quoted, awarded, mail, repeats,
                    session, served, attested>>
    BY <1>5 DEF vars, rail, buyerVars, locals, sellerVars, history
  <2>2. WorldGoesOn /\ GoesOn /\ Quiet
    BY <2>1 DEF WorldGoesOn, GoesOn, Quiet
  <2>3. WorldTypes' /\ MailTypes' /\ InOrder'
    BY <2>1 DEF IInv, Types, WorldTypes, MailTypes, InOrder
  <2>4. Hearing'
    BY <2>1, <2>2, WorldGoesOnHears DEF IInv, Types, Hearing, StillMayHear
  <2> QED BY <2>1, <2>2, <2>3, <2>4, BuyerStays, QuietOneSeller, QuietServedOnce DEF IInv, Types
<1> QED BY <1>1, <1>2, <1>3, <1>4, <1>5 DEF Next

LEMMA Inductive == Spec => []IInv
BY InitIInv, NextIInv, PTL DEF Spec
-----------------------------------------------------------------------------
(* What a step does to the chain. *)

\* An order is locked by a deposit of the buyer, under the terms it accepted, and by
\* nothing else.
LEMMA LocksByDeposit ==
    ASSUME IInv, [Next]_vars, NEW o \in Accounts, NEW r \in Refs, Locks(o, r)
    PROVE  /\ pc = "deposit" /\ r = terms.ref
           /\ order'[o][r].seller = terms.seller /\ order'[o][r].amount = terms.amount
<1> USE DEF IInv, Types
<1>1. order[o][r] = None /\ order'[o][r] # None
  BY DEF Locks, Locked
<1>2. CASE Deposit
  <2> DEFINE own == Owner(terms.settlement)
  <2>1. PICK t : t = [seller |-> terms.seller, amount |-> terms.amount, deadline |-> now + 1]
    OBVIOUS
  <2>2. pc = "deposit" /\ order' = [order EXCEPT ![own][terms.ref] = t]
    BY <1>2, <2>1 DEF Deposit, Rail!LockWith
  <2>3. own \in Accounts /\ terms.ref \in Refs
    BY <2>2, OwnerAccount DEF Bargain, Settling, Asks
  <2> HIDE DEF own
  <2>4. order'[o][r] = IF o = own /\ r = terms.ref THEN t ELSE order[o][r]
    BY <2>2, <2>3 DEF WorldTypes
  <2> QED BY <1>1, <2>1, <2>2, <2>4
<1>3. CASE Release
  <2>1. order' = [order EXCEPT ![Owner(terms.settlement)][terms.ref] = None]
    BY <1>3 DEF Release, Rail!Pay
  <2> QED BY <1>1, <2>1 DEF WorldTypes
<1>4. CASE ~(Deposit \/ Release)
  <2>1. order' = order
    BY <1>4 DEF Next, BuyerStep, SendWant, BuyerReceives, CloseBids, GiveUp, Throw, VerifierStep,
                NewSession, SellerStep, OnWant, OnAward, OnDeposited, OnReleased, rail, vars
  <2> QED BY <1>1, <2>1
<1> QED BY <1>2, <1>3, <1>4

\* An order is freed by a release of the buyer, and by nothing else.
LEMMA FreesByRelease ==
    ASSUME IInv, [Next]_vars, NEW o \in Accounts, NEW r \in Refs, Frees(o, r)
    PROVE  pc = "release" /\ r = terms.ref
<1> USE DEF IInv, Types
<1>1. order[o][r] # None /\ order'[o][r] = None
  BY DEF Frees, Locked
<1>2. CASE Release
  <2>1. pc = "release" /\ order' = [order EXCEPT ![Owner(terms.settlement)][terms.ref] = None]
    BY <1>2 DEF Release, Rail!Pay
  <2> QED BY <1>1, <2>1 DEF WorldTypes
<1>3. CASE Deposit
  <2> DEFINE own == Owner(terms.settlement)
  <2>1. PICK t : t = [seller |-> terms.seller, amount |-> terms.amount, deadline |-> now + 1]
    OBVIOUS
  <2>2. order[own][terms.ref] = None /\ order' = [order EXCEPT ![own][terms.ref] = t]
    BY <1>3, <2>1 DEF Deposit, Rail!LockWith
  <2> HIDE DEF own
  <2>3. o # own \/ r # terms.ref
    BY <1>1, <2>2
  <2>4. order'[o][r] = order[o][r]
    BY <2>2, <2>3 DEF WorldTypes
  <2> QED BY <1>1, <2>4
<1>4. CASE ~(Deposit \/ Release)
  <2>1. order' = order
    BY <1>4 DEF Next, BuyerStep, SendWant, BuyerReceives, CloseBids, GiveUp, Throw, VerifierStep,
                NewSession, SellerStep, OnWant, OnAward, OnDeposited, OnReleased, rail, vars
  <2> QED BY <1>1, <2>1
<1> QED BY <1>2, <1>3, <1>4
-----------------------------------------------------------------------------
\* buyer-agent and seller-agent: the buyer's place in its round, what the sellers quoted and
\* await, and what the verifier passed keep their types.
THEOREM MarketTypeCorrect == Spec => []TypeOK
<1>1. IInv => TypeOK
  BY MarketAssumption DEF IInv, Types, WorldTypes, BuyerTypes, Awarding, TypeOK
<1> QED BY Inductive, <1>1, PTL

\* seller-agent index.ts, awarded.delete before the work: however often a mention is repeated
\* and a session restarted, a deposit is delivered for once at the most.
THEOREM DeliveredOnce == Spec => []DeliveredOncePerDeposit
<1>1. IInv => DeliveredOncePerDeposit
  BY DEF IInv, ServedOnce
<1> QED BY Inductive, <1>1, PTL

\* buyer-agent index.ts:50-51: a seller is paid only for an order it delivered, and with a
\* verifier only for one whose own delivery passed.
THEOREM PaidVerified == Spec => PaidOnlyVerified
<1> DEFINE A == \A o \in Accounts, r \in Refs : Frees(o, r) =>
                  /\ served[r] > 0
                  /\ HasVerifier => r \in attested
<1>1. IInv /\ [Next]_vars => [A]_vars
  <2> SUFFICES ASSUME IInv, [Next]_vars, NEW o \in Accounts, NEW r \in Refs, Frees(o, r)
               PROVE  served[r] > 0 /\ (HasVerifier => r \in attested)
    OBVIOUS
  <2>1. pc = "release" /\ r = terms.ref
    BY FreesByRelease
  <2> QED BY <2>1 DEF IInv, Bargain
<1> QED BY Inductive, <1>1, PTL DEF Spec, PaidOnlyVerified

\* buyer-agent index.ts with policy.ts: a deposit pays the seller the round was awarded to, no
\* more than it bid and asked, within the budget.  A price that is misread is read as a whole
\* SOL at least (protocol.ts, Wire), which a budget below one SOL refuses; a larger budget
\* needs prices that are read as they were written, or a deposit exceeds what the order is
\* bound to.
THEOREM LockedAwarded ==
    ASSUME Budget < Sol \/ \A p \in Prices : Wire(p) = p
    PROVE  Spec => LockedAsAwarded
<1> DEFINE A == \A o \in Accounts, r \in Refs : Locks(o, r) =>
                  LET t == order'[o][r] IN
                    /\ t.seller = Wallet[winner.by]
                    /\ t.amount <= winner.price /\ t.amount <= Budget
                    /\ t.amount <= r.price /\ r.round = round
<1>1. IInv /\ [Next]_vars => [A]_vars
  <2> SUFFICES ASSUME IInv, [Next]_vars, NEW o \in Accounts, NEW r \in Refs, Locks(o, r)
               PROVE  /\ order'[o][r].seller = Wallet[winner.by]
                      /\ order'[o][r].amount <= winner.price /\ order'[o][r].amount <= Budget
                      /\ order'[o][r].amount <= r.price /\ r.round = round
    OBVIOUS
  <2>1. /\ pc = "deposit" /\ r = terms.ref
        /\ order'[o][r].seller = terms.seller /\ order'[o][r].amount = terms.amount
    BY LocksByDeposit
  <2>2. /\ terms.seller = Wallet[winner.by] /\ terms.amount <= winner.price
        /\ terms.amount <= Budget /\ terms.ref.round = round /\ terms.amount = Wire(r.price)
    BY <2>1 DEF IInv, Bargain, Settling
  <2>3. r.price \in Prices /\ r.price \in Nat /\ Wire(r.price) \in Nat
    BY RefParts, WireNat
  <2>4. Wire(r.price) < Sol \/ Wire(r.price) = r.price
    BY <2>2, <2>3, MarketAssumption DEF Sol
  <2>5. Wire(r.price) = r.price
    BY <2>3, <2>4, WireAbove
  <2> QED BY <2>1, <2>2, <2>3, <2>5
<1> QED BY Inductive, <1>1, PTL DEF Spec, LockedAsAwarded
-----------------------------------------------------------------------------
(* A session under the policy. *)

\* The buyer's books match the chain, but for the deposit that has landed and is
\* not confirmed yet and for those that never will be: that is what makes the caps
\* it checks the caps it keeps.
Booked ==
    /\ spentSol <= SessionCap
    /\ stage \in {"sending", "landed"} => spentSol + amount <= SessionCap
    /\ locked = spentSol + unseen + (IF stage = "landed" THEN amount ELSE 0)
    /\ stage = "landed" => landedAt # Unset /\ landedAt <= clock
    /\ lastSeen # Unset => lastDepositAt # Unset /\ lastSeen <= lastDepositAt
    /\ lastDepositAt # Unset => lastDepositAt <= clock
    /\ stage = "sending" /\ lastSeen # Unset => clock - lastSeen >= MinInterval

SessionIInv == SessionTypeOK /\ Booked

LEMMA SessionInitIInv == SessionInit => SessionIInv
<1> QED BY CapsAssumption DEF SessionInit, SessionIInv, SessionTypeOK, Booked

LEMMA SessionNextIInv == SessionIInv /\ [SessionNext]_sessionVars => SessionIInv'
<1> SUFFICES ASSUME SessionIInv, [SessionNext]_sessionVars PROVE SessionIInv'
  OBVIOUS
<1> USE CapsAssumption, UnsetAssumption DEF SessionIInv, SessionTypeOK, Booked, books, record
<1>1. ASSUME NEW a \in Amounts, Ask(a) PROVE SessionIInv'
  <2>1. a \in Nat
    OBVIOUS
  <2>2. spentSol + a <= SessionCap
    BY <1>1, <2>1 DEF Ask, MayDeposit, WithinSessionCap, sessionPolicy, Given, OrElse
  <2>3. lastDepositAt # Unset => clock - lastDepositAt >= MinInterval
    BY <1>1 DEF Ask, MayDeposit, NotTooSoon, sessionPolicy, Given
  <2> QED BY <1>1, <2>1, <2>2, <2>3 DEF Ask
<1>2. CASE Land
  BY <1>2 DEF Land
<1>3. CASE Confirm
  BY <1>3 DEF Confirm
<1>4. CASE RpcThrows
  <2>1. stage \in {"sending", "landed"} /\ amount \in Amounts /\ adrift[amount] \in Nat
    BY <1>4 DEF RpcThrows
  <2>2. CASE stage = "landed" /\ unseen' = unseen + amount /\ UNCHANGED adrift
    BY <1>4, <2>1, <2>2 DEF RpcThrows
  <2>3. CASE stage = "sending" /\ adrift' = [adrift EXCEPT ![amount] = @ + 1] /\ UNCHANGED unseen
    BY <1>4, <2>1, <2>3 DEF RpcThrows
  <2> QED BY <1>4, <2>2, <2>3 DEF RpcThrows
<1>5. ASSUME NEW a \in Amounts, LandLate(a) PROVE SessionIInv'
  <2>1. a \in Nat /\ adrift[a] \in Nat /\ adrift[a] - 1 \in Nat
    BY <1>5 DEF LandLate
  <2> QED BY <1>5, <2>1 DEF LandLate
<1>6. CASE Tick
  BY <1>6 DEF Tick
<1>7. CASE UNCHANGED sessionVars
  BY <1>7 DEF sessionVars
<1> QED BY <1>1, <1>2, <1>3, <1>4, <1>5, <1>6, <1>7 DEF SessionNext

\* The session cap holds on the chain but for what landed unseen
\* (policy.ts:70-72 with buyer-agent index.ts:173-197).
THEOREM SessionCapKept == SessionSpec => []SessionCapHeld
<1>1. SessionIInv => SessionCapHeld
  BY CapsAssumption DEF SessionIInv, SessionTypeOK, Booked, SessionCapHeld
<1>2. SessionIInv /\ [SessionNext]_sessionVars => SessionIInv'
  BY SessionNextIInv
<1> QED BY <1>1, <1>2, SessionInitIInv, PTL DEF SessionSpec

\* A deposit lands the interval after the last one that was seen confirmed, unless its
\* rpc() had thrown by then (policy.ts:82-87 with buyer-agent index.ts:173-197).
THEOREM SpacingKept == SessionSpec => DepositsSpaced
<1>1. SessionIInv /\ [SessionNext]_sessionVars
        => [locked' # locked /\ lastSeen # Unset
              => clock - lastSeen >= MinInterval \/ unseen' > unseen]_sessionVars
  <2> SUFFICES ASSUME SessionIInv, SessionNext, locked' # locked, lastSeen # Unset
               PROVE  clock - lastSeen >= MinInterval \/ unseen' > unseen
    OBVIOUS
  <2>1. Land \/ \E a \in Amounts : LandLate(a)
    BY DEF SessionNext, Ask, Confirm, RpcThrows, Tick, books, record
  <2>2. CASE Land
    BY <2>2 DEF Land, SessionIInv, Booked
  <2>3. ASSUME NEW a \in Amounts, LandLate(a) PROVE unseen' > unseen
    <3>1. a \in Nat /\ a # 0 /\ locked \in Nat /\ unseen \in Nat
      BY <2>3, CapsAssumption DEF LandLate, SessionIInv, SessionTypeOK
    <3> QED BY <2>3, <3>1 DEF LandLate
  <2> QED BY <2>1, <2>2, <2>3
<1>2. SessionIInv /\ [SessionNext]_sessionVars => SessionIInv'
  BY SessionNextIInv
<1> QED BY <1>1, <1>2, SessionInitIInv, PTL DEF SessionSpec, DepositsSpaced
=============================================================================
