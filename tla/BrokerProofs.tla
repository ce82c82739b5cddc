---------------------------- MODULE BrokerProofs ----------------------------
(***************************************************************************)
(* The broker's books, for any sellers, prices, markup and cap, and any    *)
(* customers and sellers that speak when and as often as they like.        *)
(***************************************************************************)
EXTENDS Broker, FiniteSetTheorems, SequenceTheorems, WellFoundedInduction, TLAPS

Deliveries == [to : Customers, data : Threads, sig : Nat, charge : Urls, cost : Nat]

\* TypeOK in two parts: the broker's own variables, and what the world adds to.
LocalTypes ==
    /\ pc \in {"idle", "quote", "pay", "supply", "proof"}
    /\ cycle \in Nat /\ requester \in Seq(Customers) /\ Len(requester) = cycle
    /\ pc # "idle" => cycle > 0
    /\ asked \in 0..Len(Sellers)
    /\ pc = "quote" => asked > 0
    /\ quotes \in Seq(Quotes)
    /\ pc \in {"pay", "supply", "proof"} => best \in Quotes
    /\ pc = "proof" => data \in Threads /\ charge \in Urls
    /\ served \in Seq(Deliveries)

WorldTypes == /\ transfers \in Seq(Urls)
              /\ open \subseteq Said
              /\ mail \in [{Self} -> Seq(Mentions)]

\* What the broker holds is of the present request.
Present ==
    /\ pc = "idle" => quotes = <<>>
    /\ pc # "idle" => ask = requester[cycle]
    /\ \A i \in DOMAIN quotes : quotes[i].thread[2] = cycle
    /\ pc \in {"pay", "supply", "proof"} => best.thread[2] = cycle
    /\ pc = "proof" => data[2] = cycle /\ charge.reference = <<Self, cycle>>

\* The request a delivery answered.
RequestOf(i) == served[i].data[2]

\* A request is served once, and not before its cycle ends.
Booked ==
    /\ \A i \in DOMAIN served :
          /\ RequestOf(i) \in 1..cycle /\ (pc # "idle" => RequestOf(i) < cycle)
          /\ served[i].charge.reference = <<Self, RequestOf(i)>>
          /\ served[i].to = requester[RequestOf(i)]
    /\ \A i, j \in DOMAIN served : RequestOf(i) = RequestOf(j) => i = j

\* A delivery stands on a transfer that verified, and still does.
Paid == \A i \in DOMAIN served : Verifies(served[i].sig, served[i].charge)

Bought(ts) == {i \in DOMAIN ts : ts[i].to # Self}

\* Until the present request's purchase, there is one for each earlier request at most.
Purchases ==
    /\ Cardinality(Bought(transfers)) <= IF pc \in {"quote", "pay"} THEN cycle - 1 ELSE cycle
    /\ \A i \in Bought(transfers) : transfers[i].amount <= MaxSol

Local == LocalTypes /\ Present /\ Booked

IInv == Local /\ WorldTypes /\ Paid /\ Purchases

LEMMA TypesSplit == TypeOK <=> LocalTypes /\ WorldTypes
BY DEF TypeOK, LocalTypes, WorldTypes, Deliveries
-----------------------------------------------------------------------------
(* The helpers. *)

\* Numbers of a set have a least one.
LEMMA LeastNat ==
    ASSUME NEW T \in SUBSET Nat, T # {}
    PROVE  \E x \in T : \A y \in T : x <= y
<1>1. PICK x \in T : \A y \in T : ~(<<y, x>> \in OpToRel(<, Nat))
  BY NatLessThanWellFounded, WFMin
<1>2. \A y \in T : ~(y < x)
  BY <1>1 DEF OpToRel
<1> QED BY <1>2

\* pickCheapest is given a quote and returns one: the cheapest, of those the first.
LEMMA PickCheapestType ==
    ASSUME NEW qs \in Seq(Quotes), qs # <<>>
    PROVE  \E i \in DOMAIN qs : PickCheapest(qs) = qs[i]
<1> DEFINE IsFirst(i) == \A j \in DOMAIN qs : /\ qs[i].amount <= qs[j].amount
                                              /\ j < i => qs[i].amount < qs[j].amount
           amounts == {qs[i].amount : i \in DOMAIN qs}
<1>1. DOMAIN qs \subseteq Nat /\ DOMAIN qs # {}
  <2>1. DOMAIN qs = 1..Len(qs) /\ Len(qs) \in Nat \ {0}
    BY LenProperties, EmptySeq
  <2>2. 1 \in DOMAIN qs
    BY <2>1
  <2> QED BY <2>1, <2>2
<1>2. \A i \in DOMAIN qs : qs[i].amount \in Nat
  <2> SUFFICES ASSUME NEW i \in DOMAIN qs PROVE qs[i].amount \in Nat
    OBVIOUS
  <2>1. i \in 1..Len(qs)
    BY LenProperties
  <2>2. qs[i] \in Quotes
    BY <2>1, ElementOfSeq
  <2> QED BY <2>2 DEF Quotes
<1>3. PICK v \in amounts : \A w \in amounts : v <= w
  <2>1. amounts \in SUBSET Nat /\ amounts # {}
    BY <1>1, <1>2
  <2> HIDE DEF amounts
  <2> QED BY <2>1, LeastNat
<1> DEFINE least == {i \in DOMAIN qs : qs[i].amount = v}
<1>4. PICK i \in least : \A j \in least : i <= j
  <2>1. least \in SUBSET Nat /\ least # {}
    BY <1>1, <1>3
  <2> HIDE DEF least
  <2> QED BY <2>1, LeastNat
<1>5. IsFirst(i)
  <2> SUFFICES ASSUME NEW j \in DOMAIN qs
               PROVE  qs[i].amount <= qs[j].amount /\ (j < i => qs[i].amount < qs[j].amount)
    OBVIOUS
  <2>1. qs[i].amount = v /\ v <= qs[j].amount
    BY <1>3, <1>4
  <2>2. v \in Nat /\ qs[j].amount \in Nat /\ i \in Nat /\ j \in Nat
    BY <1>1, <1>2, <2>1
  <2>3. j < i => qs[j].amount # v
    BY <1>4, <2>2
  <2> QED BY <2>1, <2>2, <2>3
<1>6. i \in DOMAIN qs /\ IsFirst(i)
  BY <1>4, <1>5
<1>7. (CHOOSE k \in DOMAIN qs : IsFirst(k)) \in DOMAIN qs
  <2> HIDE DEF IsFirst
  <2> QED BY <1>6
<1> QED BY <1>7 DEF PickCheapest

LEMMA AppendedTo ==
    ASSUME NEW S, NEW s \in Seq(S), NEW x \in S
    PROVE  /\ Append(s, x) \in Seq(S)
           /\ Len(Append(s, x)) = Len(s) + 1 /\ Len(s) \in Nat
           /\ DOMAIN Append(s, x) = (DOMAIN s) \cup {Len(s) + 1}
           /\ DOMAIN s = 1..Len(s)
           /\ \A i \in DOMAIN s : Append(s, x)[i] = s[i]
           /\ Append(s, x)[Len(s) + 1] = x
<1>1. Len(s) \in Nat /\ DOMAIN s = 1..Len(s)
  OBVIOUS
<1>2. /\ Append(s, x) \in Seq(S)
      /\ Len(Append(s, x)) = Len(s) + 1
      /\ \A i \in 1..Len(s) : Append(s, x)[i] = s[i]
      /\ Append(s, x)[Len(s) + 1] = x
  BY AppendProperties
<1>3. DOMAIN Append(s, x) = 1..(Len(s) + 1)
  BY <1>2
<1> QED BY <1>1, <1>2, <1>3

LEMMA ThreadType == ASSUME NEW i \in 1..Len(Sellers), NEW n \in Nat PROVE Thread(i, n) \in Threads
BY BrokerAssumption, ElementOfSeq DEF Thread, Threads

\* A mention is what its verb says.
LEMMA MentionKinds ==
    ASSUME NEW m \in Mentions
    PROVE  /\ m.verb = "request" => m.thread \in Customers
           /\ m.verb = "paid" => m.thread \in Customers /\ m.sig \in Nat
           /\ m.verb = "quote" => m.thread \in Threads /\ m.amount \in Nat /\ m.url \in Urls
           /\ m.verb = "delivered" => m.data \in Threads /\ m.data = m.thread
BY DEF Mentions
-----------------------------------------------------------------------------
(* The broker's own variables. *)

EndedWell == pc' = "idle" /\ quotes' = <<>> /\ asked' = 0

\* The end of a cycle that delivered nothing.
LEMMA EndCycleKeeps ==
    ASSUME Local, EndCycle, UNCHANGED <<cycle, requester, served>>
    PROVE  Local'
<1>1. /\ pc' = "idle" /\ quotes' = <<>> /\ asked' = 0
      /\ quotes' \in Seq(Quotes) /\ DOMAIN quotes' = {}
  BY EmptySeq DEF EndCycle, NoLocals
<1>2. Len(Sellers) \in Nat
  BY BrokerAssumption
<1>3. LocalTypes'
  BY <1>1, <1>2 DEF Local, LocalTypes
<1>4. Present'
  BY <1>1 DEF Present
<1>5. Booked'
  BY <1>1 DEF Local, Booked, RequestOf
<1> QED BY <1>3, <1>4, <1>5 DEF Local

LEMMA TakeRequestKeeps ==
    ASSUME Local, NEW m \in Mentions, TakeRequest(m) PROVE Local'
<1>1. CASE m.verb # "request"
  BY <1>1 DEF TakeRequest, locals, Local, LocalTypes, Present, Booked, RequestOf
<1>2. CASE m.verb = "request"
  <2>1. /\ cycle' = cycle + 1 /\ ask' = m.thread /\ m.thread \in Customers
        /\ requester' = Append(requester, m.thread)
        /\ pc = "idle" /\ pc' = "quote" /\ asked' = 1
        /\ UNCHANGED <<quotes, best, data, charge, served>>
    BY <1>2, MentionKinds DEF TakeRequest
  <2>2. /\ requester' \in Seq(Customers) /\ Len(requester') = cycle'
        /\ cycle' \in Nat /\ cycle' > 0 /\ cycle = Len(requester)
        /\ \A i \in 1..cycle : requester'[i] = requester[i]
        /\ requester'[cycle'] = m.thread
    BY <2>1, AppendedTo DEF Local, LocalTypes
  <2>3. 1 \in 0..Len(Sellers)
    BY BrokerAssumption, EmptySeq
  <2>4. LocalTypes'
    BY <2>1, <2>2, <2>3 DEF Local, LocalTypes
  <2>5. quotes' = <<>> /\ DOMAIN quotes' = {}
    BY <2>1 DEF Local, Present
  <2>6. Present'
    BY <2>1, <2>2, <2>5 DEF Present
  <2>7. Booked'
    <3>1. \A i \in DOMAIN served : RequestOf(i)' = RequestOf(i) /\ RequestOf(i) \in 1..cycle
      BY <2>1 DEF Local, Booked, RequestOf
    <3>2. \A i \in DOMAIN served : RequestOf(i) \in 1..cycle' /\ RequestOf(i) < cycle'
      BY <2>1, <3>1 DEF Local, LocalTypes
    <3> QED BY <2>1, <2>2, <3>1, <3>2 DEF Local, Booked, RequestOf
  <2> QED BY <2>4, <2>6, <2>7 DEF Local
<1> QED BY <1>1, <1>2

\* The answer, or none, of the seller that was asked.
LEMMA QuotedKeeps ==
    ASSUME Local, pc = "quote", NEW qs \in Seq(Quotes),
           \A i \in DOMAIN qs : qs[i].thread[2] = cycle,
           Quoted(qs)
    PROVE  Local'
<1>1. UNCHANGED <<cycle, requester, served>>
  BY DEF Quoted, history
<1>2. CASE asked < Len(Sellers)
  <2>1. /\ quotes' = qs /\ asked' = asked + 1
        /\ UNCHANGED <<pc, ask, best, data, charge>>
    BY <1>2 DEF Quoted
  <2>2. asked + 1 \in 0..Len(Sellers) /\ asked + 1 > 0
    BY <1>2, BrokerAssumption DEF Local, LocalTypes
  <2> QED BY <1>1, <2>1, <2>2 DEF Local, LocalTypes, Present, Booked, RequestOf
<1>3. CASE ~(asked < Len(Sellers)) /\ qs = <<>>
  <2>1. EndCycle
    BY <1>3 DEF Quoted
  <2> QED BY <1>1, <2>1, EndCycleKeeps
<1>4. CASE ~(asked < Len(Sellers)) /\ qs # <<>>
  <2>1. /\ quotes' = qs /\ best' = PickCheapest(qs) /\ pc' = "pay"
        /\ UNCHANGED <<ask, asked, data, charge>>
    BY <1>4 DEF Quoted
  <2>2. PICK i \in DOMAIN qs : best' = qs[i]
    BY <1>4, <2>1, PickCheapestType
  <2>3. best' \in Quotes /\ best'.thread[2] = cycle
    BY <2>2, LenProperties, ElementOfSeq
  <2> QED BY <1>1, <2>1, <2>3 DEF Local, LocalTypes, Present, Booked, RequestOf
<1> QED BY <1>2, <1>3, <1>4

LEMMA NoQuoteKeeps == ASSUME Local, NoQuote PROVE Local'
BY QuotedKeeps DEF NoQuote, Local, LocalTypes, Present

LEMMA TakeQuoteKeeps == ASSUME Local, NEW m \in Mentions, TakeQuote(m) PROVE Local'
<1>1. pc = "quote" /\ m.thread = Thread(asked, cycle)
  BY DEF TakeQuote, InThread
<1>2. asked \in 1..Len(Sellers) /\ cycle \in Nat
  BY <1>1, BrokerAssumption DEF Local, LocalTypes
<1>3. Thread(asked, cycle)[2] = cycle
  BY DEF Thread
<1>4. CASE m.verb = "quote" /\ m.amount > 0
  <2> DEFINE q == [seller |-> Sellers[asked], thread |-> m.thread,
                   amount |-> m.amount, url |-> m.url]
  <2>1. q \in Quotes /\ q.thread = m.thread
    BY <1>2, <1>4, MentionKinds, BrokerAssumption, ElementOfSeq DEF Quotes
  <2>2. Quoted(Append(quotes, q))
    BY <1>4 DEF TakeQuote
  <2> HIDE DEF q
  <2>3. /\ Append(quotes, q) \in Seq(Quotes)
        /\ \A i \in DOMAIN Append(quotes, q) : Append(quotes, q)[i].thread[2] = cycle
    BY <1>1, <1>3, <2>1, AppendedTo DEF Local, LocalTypes, Present
  <2> QED BY <1>1, <2>2, <2>3, QuotedKeeps
<1>5. CASE ~(m.verb = "quote" /\ m.amount > 0)
  <2>1. Quoted(quotes)
    BY <1>5 DEF TakeQuote
  <2> QED BY <1>1, <2>1, QuotedKeeps DEF Local, LocalTypes, Present
<1> QED BY <1>4, <1>5

LEMMA PayUpstreamKeeps == ASSUME Local, PayUpstream PROVE Local'
<1>1. UNCHANGED <<cycle, requester, served>>
  BY DEF PayUpstream, history
<1>2. CASE pc' = "supply" /\ UNCHANGED locals
  BY <1>1, <1>2 DEF PayUpstream, locals, Local, LocalTypes, Present, Booked, RequestOf
<1>3. CASE EndCycle
  BY <1>1, <1>3, EndCycleKeeps
<1> QED BY <1>2, <1>3 DEF PayUpstream

LEMMA TakeSupplyKeeps ==
    ASSUME Local, NEW m \in Mentions, TakeSupply(m) PROVE Local'
<1>1. UNCHANGED <<cycle, requester, served>> /\ pc = "supply" /\ m.thread = best.thread
  BY DEF TakeSupply, history, InThread
<1>2. CASE m.verb # "delivered"
  <2>1. EndCycle
    BY <1>2 DEF TakeSupply
  <2> QED BY <1>1, <2>1, EndCycleKeeps
<1>3. CASE m.verb = "delivered"
  <2>1. /\ data' = m.data /\ pc' = "proof"
        /\ charge' = PaymentUrl(Self, Resale(best.amount), <<Self, cycle>>)
        /\ UNCHANGED <<ask, asked, quotes, best>>
    BY <1>3 DEF TakeSupply
  <2>2. m.data \in Threads /\ m.data = best.thread
    BY <1>1, <1>3, MentionKinds
  <2>3. best.amount \in Nat /\ Resale(best.amount) \in Nat
    <3>1. best.amount \in Nat /\ Markup \in Nat
      BY <1>1, BrokerAssumption DEF Local, LocalTypes, Quotes
    <3>2. best.amount * Markup \in Nat
      BY <3>1
    <3> QED BY <3>1, <3>2 DEF Resale
  <2>4. charge' \in Urls /\ charge'.reference = <<Self, cycle>>
    <3>1. cycle \in Nat
      BY DEF Local, LocalTypes
    <3> QED BY <2>1, <2>3, <3>1 DEF PaymentUrl, Urls, Parties
  <2> QED BY <1>1, <2>1, <2>2, <2>4 DEF Local, LocalTypes, Present, Booked, RequestOf
<1> QED BY <1>2, <1>3

\* What is delivered, and on which proof.
Delivery(m) == [to |-> m.thread, data |-> data, sig |-> m.sig, charge |-> charge,
                cost |-> best.url.amount]

LEMMA DeliveryType ==
    ASSUME Local, NEW m \in Mentions, pc = "proof", m.thread = ask, m.verb = "paid"
    PROVE  /\ Delivery(m) \in Deliveries
           /\ Delivery(m).data[2] = cycle
           /\ Delivery(m).charge.reference = <<Self, cycle>>
           /\ Delivery(m).to = requester[cycle]
<1>1. m.thread \in Customers /\ m.sig \in Nat
  BY MentionKinds
<1>2. best.url.amount \in Nat /\ data \in Threads /\ charge \in Urls
  BY DEF Local, LocalTypes, Quotes, Urls
<1> QED BY <1>1, <1>2 DEF Delivery, Deliveries, Local, Present

LEMMA TakeProofKeeps ==
    ASSUME Local, NEW m \in Mentions, TakeProof(m) PROVE Local'
<1>1. pc = "proof" /\ m.thread = ask /\ EndCycle /\ UNCHANGED <<cycle, requester>>
  BY DEF TakeProof, InThread
<1>2. CASE UNCHANGED served
  BY <1>1, <1>2, EndCycleKeeps
<1>3. CASE m.verb = "paid" /\ served' = Append(served, Delivery(m))
  <2> DEFINE d == Delivery(m)
  <2>1. /\ d \in Deliveries /\ d.data[2] = cycle
        /\ d.charge.reference = <<Self, cycle>> /\ d.to = requester[cycle]
    BY <1>1, <1>3, DeliveryType
  <2>2. served' = Append(served, d)
    BY <1>3
  <2> HIDE DEF d
  <2>3. /\ served' \in Seq(Deliveries)
        /\ DOMAIN served' = (DOMAIN served) \cup {Len(served) + 1}
        /\ \A i \in DOMAIN served : served'[i] = served[i]
        /\ served'[Len(served) + 1] = d
    BY <2>1, <2>2, AppendedTo DEF Local, LocalTypes
  <2>4. /\ pc' = "idle" /\ quotes' = <<>> /\ asked' = 0
        /\ quotes' \in Seq(Quotes) /\ DOMAIN quotes' = {}
    BY <1>1, EmptySeq DEF EndCycle, NoLocals
  <2>5. Len(Sellers) \in Nat
    BY BrokerAssumption
  <2>6. LocalTypes'
    BY <1>1, <2>3, <2>4, <2>5 DEF Local, LocalTypes
  <2>7. Present'
    BY <2>4 DEF Present
  <2>8. \A i \in DOMAIN served : RequestOf(i) < cycle /\ served'[i].data[2] = RequestOf(i)
    BY <1>1, <2>3 DEF Local, Booked, RequestOf
  <2>9. cycle \in 1..cycle /\ \A i \in DOMAIN served : RequestOf(i) # cycle
    BY <1>1, <2>8 DEF Local, LocalTypes, Booked
  <2>10. Booked'
    <3>1. ASSUME NEW i \in DOMAIN served'
          PROVE  /\ served'[i].data[2] \in 1..cycle
                 /\ served'[i].charge.reference = <<Self, served'[i].data[2]>>
                 /\ served'[i].to = requester[served'[i].data[2]]
      <4>1. CASE i \in DOMAIN served
        BY <2>3, <4>1 DEF Local, Booked, RequestOf
      <4>2. CASE i = Len(served) + 1
        BY <2>1, <2>3, <2>9, <4>2
      <4> QED BY <2>3, <4>1, <4>2
    <3>2. ASSUME NEW i \in DOMAIN served', NEW j \in DOMAIN served',
                 served'[i].data[2] = served'[j].data[2]
          PROVE  i = j
      <4>1. CASE i \in DOMAIN served /\ j \in DOMAIN served
        BY <2>3, <3>2, <4>1 DEF Local, Booked, RequestOf
      <4>2. CASE i = Len(served) + 1 \/ j = Len(served) + 1
        BY <2>1, <2>3, <2>8, <2>9, <3>2, <4>2
      <4> QED BY <2>3, <4>1, <4>2
    <3> QED BY <1>1, <2>4, <3>1, <3>2 DEF Booked, RequestOf
  <2> QED BY <2>6, <2>7, <2>10 DEF Local
<1> QED BY <1>2, <1>3 DEF TakeProof, Delivery

LEMMA LocalUnchanged ==
    ASSUME Local, UNCHANGED <<pc, cycle, locals, requester, served>> PROVE Local'
BY DEF locals, Local, LocalTypes, Present, Booked, RequestOf
-----------------------------------------------------------------------------
(* The world. *)

\* A wait returns a mention, and leaves what it did not read.
LEMMA WaitTypes ==
    ASSUME NEW S, mail \in [{Self} -> Seq(S)],
           NEW k \in Batches(Self), Wait(Self, k), mail' = Unread(Self, k)
    PROVE  Head(mail[Self]) \in S /\ mail' \in [{Self} -> Seq(S)]
<1> DEFINE box == mail[Self]
<1>1. box \in Seq(S) /\ box # <<>>
  BY DEF Wait
<1>2. k \in Nat /\ Len(box) \in Nat /\ \A i \in (k + 1)..Len(box) : box[i] \in S
  <2>1. k \in Nat /\ Len(box) \in Nat
    BY <1>1, BrokerAssumption DEF Batches
  <2> QED BY <1>1, <2>1, ElementOfSeq
<1>3. SubSeq(box, k + 1, Len(box)) \in Seq(S)
  BY <1>2, SubSeqProperties
<1>4. Head(box) \in S
  BY <1>1, HeadTailProperties
<1> QED BY <1>3, <1>4 DEF Unread

LEMMA SaysTypes ==
    ASSUME NEW S, mail \in [{Self} -> Seq(S)], NEW m \in S, Says(m)
    PROVE  mail' \in [{Self} -> Seq(S)]
<1>1. mail' = [a \in {Self} |-> Append(mail[a], m)]
  BY DEF Says, Post
<1>2. Append(mail[Self], m) \in Seq(S)
  BY AppendedTo
<1> QED BY <1>1, <1>2

\* What the broker says has its type.
LEMMA AskSellerType ==
    ASSUME NEW i \in 1..Len(Sellers), NEW n \in Nat, open \subseteq Said, AskSeller(i, n)
    PROVE  open' \subseteq Said
BY ThreadType DEF AskSeller, Said

LEMMA QuotedSays ==
    ASSUME Local, open \subseteq Said, NEW qs, Quoted(qs), pc = "quote"
    PROVE  open' \subseteq Said /\ UNCHANGED transfers
<1>1. CASE asked < Len(Sellers)
  <2>1. asked + 1 \in 1..Len(Sellers) /\ cycle \in Nat
    BY <1>1, BrokerAssumption DEF Local, LocalTypes
  <2> QED BY <1>1, <2>1, AskSellerType DEF Quoted
<1>2. CASE ~(asked < Len(Sellers))
  BY <1>2 DEF Quoted
<1> QED BY <1>1, <1>2

LEMMA BrokerSays ==
    ASSUME Local, WorldTypes, BrokerStep
    PROVE  open' \subseteq Said /\ transfers' \in Seq(Urls) /\ mail' \in [{Self} -> Seq(Mentions)]
<1>1. CASE NoQuote
  BY <1>1, QuotedSays DEF NoQuote, WorldTypes
<1>2. CASE PayUpstream
  <2>1. best \in Quotes
    BY <1>2 DEF PayUpstream, Local, LocalTypes
  <2>2. best.url \in Urls /\ best.thread \in Threads
    BY <2>1 DEF Quotes
  <2>3. transfers' \in Seq(Urls) /\ Len(transfers) + 1 \in Nat
    BY <1>2, <2>2, AppendedTo DEF PayUpstream, Transfer, WorldTypes
  <2>4. [verb |-> "paid", thread |-> best.thread, sig |-> Len(transfers) + 1, url |-> best.url]
            \in Said
    BY <2>2, <2>3 DEF Said
  <2> QED BY <1>2, <2>3, <2>4 DEF PayUpstream, WorldTypes
<1>3. CASE UpstreamFails \/ NoProof
  BY <1>3 DEF UpstreamFails, NoProof, world, WorldTypes
<1>4. CASE BrokerReceives
  <2>1. PICK k \in Batches(Self) :
            /\ Wait(Self, k) /\ mail' = Unread(Self, k)
            /\ LET m == Head(mail[Self])
               IN TakeRequest(m) \/ TakeQuote(m) \/ TakeSupply(m) \/ TakeProof(m) \/ Forget(m)
    BY <1>4 DEF BrokerReceives
  <2> DEFINE m == Head(mail[Self])
  <2>2. m \in Mentions /\ mail' \in [{Self} -> Seq(Mentions)]
    BY <2>1, WaitTypes DEF WorldTypes
  <2> HIDE DEF m
  <2>3. CASE TakeRequest(m)
    <3>1. 1 \in 1..Len(Sellers) /\ cycle + 1 \in Nat
      BY BrokerAssumption, EmptySeq DEF Local, LocalTypes
    <3> QED BY <2>2, <2>3, <3>1, AskSellerType DEF TakeRequest, WorldTypes
  <2>4. CASE TakeQuote(m)
    BY <2>2, <2>4, QuotedSays DEF TakeQuote, WorldTypes
  <2>5. CASE TakeSupply(m)
    <3>1. UNCHANGED transfers
      BY <2>5 DEF TakeSupply
    <3>2. CASE m.verb # "delivered"
      BY <2>2, <2>5, <3>1, <3>2 DEF TakeSupply, WorldTypes
    <3>3. CASE m.verb = "delivered"
      <4>1. Local'
        BY <2>2, <2>5, TakeSupplyKeeps
      <4>2. /\ pc' = "proof" /\ pc = "supply"
            /\ charge' = PaymentUrl(Self, Resale(best.amount), <<Self, cycle>>)
            /\ open' = open \cup {[verb |-> "charge", thread |-> ask, url |-> charge']}
        BY <2>5, <3>3 DEF TakeSupply
      <4>3. charge' \in Urls /\ charge'.to = Self
        BY <4>1, <4>2 DEF Local, LocalTypes, PaymentUrl
      <4>4. ask \in Customers
        <5>1. cycle \in 1..Len(requester) /\ ask = requester[cycle]
          BY <4>2 DEF Local, LocalTypes, Present
        <5> QED BY <5>1, ElementOfSeq DEF Local, LocalTypes
      <4>5. [verb |-> "charge", thread |-> ask, url |-> charge'] \in Said
        BY <4>3, <4>4 DEF Said
      <4> QED BY <2>2, <3>1, <4>2, <4>5 DEF WorldTypes
    <3> QED BY <3>2, <3>3
  <2>6. CASE TakeProof(m) \/ Forget(m)
    BY <2>2, <2>6 DEF TakeProof, Forget, world, WorldTypes
  <2> QED BY <2>1, <2>3, <2>4, <2>5, <2>6 DEF m
<1> QED BY <1>1, <1>2, <1>3, <1>4 DEF BrokerStep

\* Whatever others do, only a customer transfers, and to the broker.
LEMMA OthersSay ==
    ASSUME WorldTypes, OthersStep
    PROVE  /\ WorldTypes'
           /\ \/ UNCHANGED transfers
              \/ \E url \in Urls : url.to = Self /\ transfers' = Append(transfers, url)
<1>1. ASSUME NEW c \in Customers, CustomerAsks(c) PROVE WorldTypes' /\ UNCHANGED transfers
  <2>1. [verb |-> "request", thread |-> c] \in Mentions
    BY DEF Mentions
  <2> QED BY <1>1, <2>1, SaysTypes DEF CustomerAsks, CustomerSays, WorldTypes
<1>2. ASSUME NEW c \in Customers, CustomerClaims(c) PROVE WorldTypes' /\ UNCHANGED transfers
  <2>1. PICK sig \in DOMAIN transfers : CustomerSays([verb |-> "paid", thread |-> c, sig |-> sig])
    BY <1>2 DEF CustomerClaims
  <2>2. sig \in Nat
    BY <2>1, LenProperties DEF WorldTypes
  <2>3. [verb |-> "paid", thread |-> c, sig |-> sig] \in Mentions
    BY <2>2 DEF Mentions
  <2> QED BY <1>2, <2>1, <2>3, SaysTypes DEF CustomerClaims, CustomerSays, WorldTypes
<1>3. ASSUME NEW m \in open, CustomerPays(m)
      PROVE  /\ WorldTypes'
             /\ m.url \in Urls /\ m.url.to = Self /\ transfers' = Append(transfers, m.url)
  <2>1. m \in Said /\ m.verb = "charge"
    BY <1>3 DEF WorldTypes, CustomerPays
  <2>2. m.thread \in Customers /\ m.url \in Urls /\ m.url.to = Self
    BY <2>1 DEF Said
  <2>3. transfers' = Append(transfers, m.url) /\ open' \subseteq Said
    BY <1>3 DEF CustomerPays, Transfer, WorldTypes
  <2>4. transfers' \in Seq(Urls) /\ Len(transfers) + 1 \in Nat
    BY <2>2, <2>3, AppendedTo DEF WorldTypes
  <2>5. [verb |-> "paid", thread |-> m.thread, sig |-> Len(transfers) + 1] \in Mentions
    BY <2>2, <2>4 DEF Mentions
  <2>6. mail' \in [{Self} -> Seq(Mentions)]
    BY <1>3, <2>5, SaysTypes DEF CustomerPays, WorldTypes
  <2> QED BY <2>2, <2>3, <2>4, <2>6 DEF WorldTypes
<1>4. ASSUME NEW m \in open, SellerQuotes(m) PROVE WorldTypes' /\ UNCHANGED transfers
  <2>1. m.thread \in Threads
    BY <1>4 DEF WorldTypes, SellerQuotes, Said
  <2>2. m.thread[1] \in DOMAIN Price
    BY <2>1 DEF Threads
  <2>3. Price[m.thread[1]] \in Nat /\ Wire(Price[m.thread[1]]) \in Nat
    BY <2>2, BrokerAssumption DEF Wire, Sol
  <2>4. PaymentUrl(m.thread[1], Price[m.thread[1]], m.thread) \in Urls
    BY <2>1, <2>2, <2>3 DEF PaymentUrl, Urls, Parties, Threads
  <2>5. [verb |-> "quote", thread |-> m.thread, amount |-> Wire(Price[m.thread[1]]),
         url |-> PaymentUrl(m.thread[1], Price[m.thread[1]], m.thread)] \in Mentions
    BY <2>1, <2>3, <2>4 DEF Mentions
  <2> QED BY <1>4, <2>5, SaysTypes DEF SellerQuotes, WorldTypes
<1>5. ASSUME NEW m \in open, SellerDelivers(m) PROVE WorldTypes' /\ UNCHANGED transfers
  <2>1. m.thread \in Threads
    BY <1>5 DEF WorldTypes, SellerDelivers, Said
  <2>2. /\ [verb |-> "delivered", thread |-> m.thread, data |-> m.thread] \in Mentions
        /\ [verb |-> "refused", thread |-> m.thread] \in Mentions
    BY <2>1 DEF Mentions
  <2>3. mail' \in [{Self} -> Seq(Mentions)]
    BY <1>5, <2>2, SaysTypes DEF SellerDelivers, WorldTypes
  <2> QED BY <1>5, <2>3 DEF SellerDelivers, WorldTypes
<1> QED BY <1>1, <1>2, <1>3, <1>4, <1>5 DEF OthersStep
-----------------------------------------------------------------------------
(* Payments. *)

\* A transfer that verified goes on to verify: the chain only grows.
LEMMA VerifiesOn ==
    ASSUME transfers \in Seq(Urls),
           \/ UNCHANGED transfers
           \/ \E u \in Urls : transfers' = Append(transfers, u),
           NEW sig, NEW url, Verifies(sig, url)
    PROVE  Verifies(sig, url)'
BY AppendedTo DEF Verifies

\* Only PayUpstream, and customers, transfer.
LEMMA BrokerTransfers ==
    ASSUME BrokerStep, ~PayUpstream PROVE UNCHANGED transfers
BY DEF BrokerStep, BrokerReceives, TakeRequest, TakeQuote, Quoted, TakeSupply, TakeProof, Forget,
       NoQuote, UpstreamFails, NoProof

\* Only a proof that verifies is answered with a delivery.
LEMMA BrokerServes ==
    ASSUME BrokerStep
    PROVE  \/ UNCHANGED served
           \/ /\ UNCHANGED transfers
              /\ \E m : /\ pc = "proof" /\ m.thread = ask /\ m.verb = "paid"
                        /\ Verifies(m.sig, charge)
                        /\ m = Head(mail[Self])
                        /\ served' = Append(served, Delivery(m))
BY DEF BrokerStep, BrokerReceives, TakeRequest, TakeQuote, Quoted, TakeSupply, TakeProof, Forget,
       NoQuote, UpstreamFails, NoProof, PayUpstream, history, InThread, Delivery

LEMMA PaidKept == ASSUME IInv, Next PROVE Paid'
<1>1. transfers \in Seq(Urls)
  BY DEF IInv, WorldTypes
<1>2. \/ UNCHANGED transfers
      \/ \E u \in Urls : transfers' = Append(transfers, u)
  <2>1. CASE OthersStep
    BY <2>1, OthersSay DEF IInv
  <2>2. CASE BrokerStep /\ ~PayUpstream
    BY <2>2, BrokerTransfers
  <2>3. CASE PayUpstream
    <3>1. best.url \in Urls
      BY <2>3 DEF PayUpstream, IInv, Local, LocalTypes, Quotes
    <3> QED BY <2>3, <3>1 DEF PayUpstream, Transfer
  <2> QED BY <2>1, <2>2, <2>3 DEF Next
<1>3. CASE UNCHANGED served
  BY <1>1, <1>2, <1>3, VerifiesOn DEF IInv, Paid
<1>4. CASE BrokerStep /\ ~UNCHANGED served
  <2>1. PICK m : /\ pc = "proof" /\ m.thread = ask /\ m.verb = "paid"
                 /\ Verifies(m.sig, charge) /\ m = Head(mail[Self])
                 /\ served' = Append(served, Delivery(m))
    BY <1>4, BrokerServes
  <2>2. UNCHANGED transfers
    BY <1>4, BrokerServes
  <2>3. m \in Mentions
    <3>1. mail[Self] \in Seq(Mentions) /\ mail[Self] # <<>>
      BY <1>4, BrokerServes DEF IInv, WorldTypes, BrokerStep, BrokerReceives, Wait, NoQuote,
             Quoted, PayUpstream, UpstreamFails, NoProof, history
    <3> QED BY <2>1, <3>1, HeadTailProperties
  <2>4. Delivery(m) \in Deliveries
    BY <2>1, <2>3, DeliveryType DEF IInv
  <2>5. /\ DOMAIN served' = (DOMAIN served) \cup {Len(served) + 1}
        /\ \A i \in DOMAIN served : served'[i] = served[i]
        /\ served'[Len(served) + 1] = Delivery(m)
    BY <2>1, <2>4, AppendedTo DEF IInv, Local, LocalTypes
  <2>6. Verifies(Delivery(m).sig, Delivery(m).charge)
    BY <2>1 DEF Delivery
  <2> QED BY <2>2, <2>5, <2>6 DEF IInv, Paid, Verifies
<1>5. CASE OthersStep
  BY <1>3, <1>5 DEF OthersStep, history
<1> QED BY <1>3, <1>4, <1>5 DEF Next

LEMMA BoughtFinite ==
    ASSUME NEW ts \in Seq(Urls)
    PROVE  IsFiniteSet(Bought(ts)) /\ Cardinality(Bought(ts)) \in Nat
<1>1. Bought(ts) \in SUBSET (1..Len(ts)) /\ Len(ts) \in Nat
  BY DEF Bought
<1>2. IsFiniteSet(1..Len(ts))
  BY <1>1, FS_Interval
<1> QED BY <1>1, <1>2, FS_Subset, FS_CardinalityType

\* A transfer to the broker is no purchase, any other is one more.
LEMMA BoughtAppended ==
    ASSUME NEW ts \in Seq(Urls), NEW u \in Urls
    PROVE  /\ u.to = Self => Bought(Append(ts, u)) = Bought(ts)
           /\ Cardinality(Bought(Append(ts, u))) <= Cardinality(Bought(ts)) + 1
           /\ \A i \in Bought(Append(ts, u)) :
                 \/ i \in Bought(ts) /\ Append(ts, u)[i] = ts[i]
                 \/ Append(ts, u)[i] = u
<1> DEFINE longer == Append(ts, u)
<1>1. ASSUME u.to = Self PROVE Bought(longer) = Bought(ts)
  BY <1>1, AppendedTo DEF Bought
<1>2. Cardinality(Bought(longer)) <= Cardinality(Bought(ts)) + 1
  <2>1. Cardinality(Bought(ts)) \in Nat
    BY BoughtFinite
  <2>2. CASE u.to = Self
    <3>1. Cardinality(Bought(longer)) = Cardinality(Bought(ts))
      BY <1>1, <2>2
    <3> QED BY <2>1, <3>1
  <2>3. CASE u.to # Self
    <3>1. Bought(longer) = Bought(ts) \cup {Len(ts) + 1}
      BY <2>3, AppendedTo DEF Bought
    <3>2. Len(ts) + 1 \notin Bought(ts)
      BY AppendedTo DEF Bought
    <3>3. Cardinality(Bought(longer)) = Cardinality(Bought(ts)) + 1
      BY <3>1, <3>2, BoughtFinite, FS_AddElement
    <3> QED BY <2>1, <3>3
  <2> QED BY <2>2, <2>3
<1>3. \A i \in Bought(longer) : \/ i \in Bought(ts) /\ longer[i] = ts[i]
                                \/ longer[i] = u
  BY AppendedTo DEF Bought
<1> QED BY <1>1, <1>2, <1>3

\* The broker goes from a request's purchase to its end, never back.
LEMMA PurchasesKept == ASSUME IInv, Next PROVE Purchases'
<1>1. transfers \in Seq(Urls) /\ Cardinality(Bought(transfers)) \in Nat /\ cycle \in Nat
  BY BoughtFinite DEF IInv, WorldTypes, Local, LocalTypes
<1>2. CASE PayUpstream
  <2>1. best.url \in Urls /\ best.url.amount <= MaxSol /\ pc = "pay"
    BY <1>2 DEF PayUpstream, IInv, Local, LocalTypes, Quotes
  <2>2. transfers' = Append(transfers, best.url) /\ cycle' = cycle /\ pc' \notin {"quote", "pay"}
    BY <1>2 DEF PayUpstream, Transfer, EndCycle
  <2>3. /\ Cardinality(Bought(transfers')) <= Cardinality(Bought(transfers)) + 1
        /\ \A i \in Bought(transfers') : \/ i \in Bought(transfers) /\ transfers'[i] = transfers[i]
                                         \/ transfers'[i] = best.url
    BY <1>1, <2>1, <2>2, BoughtAppended
  <2>4. transfers' \in Seq(Urls) /\ Cardinality(Bought(transfers')) \in Nat
    BY <1>1, <2>1, <2>2, AppendedTo, BoughtFinite
  <2>5. Cardinality(Bought(transfers)) <= cycle - 1
    BY <2>1 DEF IInv, Purchases
  <2>6. Cardinality(Bought(transfers')) <= cycle'
    BY <1>1, <2>2, <2>3, <2>4, <2>5
  <2> QED BY <2>1, <2>2, <2>3, <2>6 DEF IInv, Purchases
<1>3. CASE BrokerStep /\ ~PayUpstream
  <2>1. UNCHANGED transfers
    BY <1>3, BrokerTransfers
  <2>2. \/ cycle' = cycle + 1 /\ pc = "idle"
        \/ cycle' = cycle /\ (pc' \in {"quote", "pay"} => pc \in {"quote", "pay"})
    BY <1>3 DEF BrokerStep, BrokerReceives, TakeRequest, TakeQuote, Quoted, TakeSupply, TakeProof,
           Forget, NoQuote, UpstreamFails, NoProof, EndCycle
  <2> QED BY <1>1, <2>1, <2>2 DEF IInv, Purchases
<1>4. CASE OthersStep
  <2>1. UNCHANGED <<pc, cycle>>
    BY <1>4 DEF OthersStep
  <2>2. \/ UNCHANGED transfers
        \/ \E u \in Urls : u.to = Self /\ transfers' = Append(transfers, u)
    BY <1>4, OthersSay DEF IInv
  <2>3. CASE UNCHANGED transfers
    BY <2>1, <2>3 DEF IInv, Purchases
  <2>4. CASE \E u \in Urls : u.to = Self /\ transfers' = Append(transfers, u)
    <3>1. PICK u \in Urls : u.to = Self /\ transfers' = Append(transfers, u)
      BY <2>4
    <3>2. /\ Bought(transfers') = Bought(transfers)
          /\ \A i \in Bought(transfers) : transfers'[i] = transfers[i]
      BY <1>1, <3>1, BoughtAppended, AppendedTo DEF Bought
    <3> QED BY <2>1, <3>2 DEF IInv, Purchases
  <2> QED BY <2>2, <2>3, <2>4
<1> QED BY <1>2, <1>3, <1>4 DEF Next
-----------------------------------------------------------------------------
LEMMA LocalKept == ASSUME IInv, Next PROVE Local'
<1>1. CASE BrokerReceives
  <2>1. PICK k \in Batches(Self) :
            /\ Wait(Self, k) /\ mail' = Unread(Self, k)
            /\ LET m == Head(mail[Self])
               IN TakeRequest(m) \/ TakeQuote(m) \/ TakeSupply(m) \/ TakeProof(m) \/ Forget(m)
    BY <1>1 DEF BrokerReceives
  <2> DEFINE m == Head(mail[Self])
  <2>2. m \in Mentions
    BY <2>1, WaitTypes DEF IInv, WorldTypes
  <2> HIDE DEF m
  <2>3. CASE Forget(m)
    BY <2>3, LocalUnchanged DEF Forget, history, IInv
  <2> QED BY <2>1, <2>2, <2>3, TakeRequestKeeps, TakeQuoteKeeps, TakeSupplyKeeps, TakeProofKeeps
          DEF m, IInv
<1>2. CASE UpstreamFails \/ NoProof
  BY <1>2, EndCycleKeeps DEF UpstreamFails, NoProof, history, IInv
<1>3. CASE OthersStep
  BY <1>3, LocalUnchanged DEF OthersStep, history, IInv
<1> QED BY <1>1, <1>2, <1>3, NoQuoteKeeps, PayUpstreamKeeps DEF Next, BrokerStep, IInv

LEMMA InitIInv == Init => IInv
<1> SUFFICES ASSUME Init PROVE IInv
  OBVIOUS
<1>1. \A S : <<>> \in Seq(S)
  BY EmptySeq
<1>2. DOMAIN <<>> = {} /\ Len(<<>>) = 0
  OBVIOUS
<1>3. Len(Sellers) \in Nat
  BY BrokerAssumption
<1>4. LocalTypes
  BY <1>1, <1>2, <1>3 DEF Init, LocalTypes
<1>5. WorldTypes
  <2>1. transfers \in Seq(Urls) /\ open \subseteq Said
    BY <1>1 DEF Init
  <2>2. <<>> \in Seq(Mentions)
    BY <1>1
  <2> QED BY <2>1, <2>2 DEF Init, WorldTypes
<1>6. Present /\ Booked /\ Paid
  BY <1>2 DEF Init, Present, Booked, Paid
<1>7. Purchases
  <2>1. Bought(transfers) = {}
    BY <1>2 DEF Init, Bought
  <2>2. Cardinality(Bought(transfers)) = 0
    BY <2>1, FS_EmptySet
  <2>3. cycle = 0 /\ pc = "idle"
    BY DEF Init
  <2> QED BY <2>1, <2>2, <2>3 DEF Purchases
<1> QED BY <1>4, <1>5, <1>6, <1>7 DEF IInv, Local

LEMMA Kept == IInv /\ [Next]_vars => IInv'
<1>1. ASSUME IInv, Next PROVE IInv'
  <2>1. WorldTypes'
    BY <1>1, BrokerSays, OthersSay DEF Next, IInv, WorldTypes
  <2> QED BY <1>1, <2>1, LocalKept, PaidKept, PurchasesKept DEF IInv
<1>2. ASSUME IInv, UNCHANGED vars PROVE IInv'
  <2>1. Local'
    BY <1>2, LocalUnchanged DEF vars, history, IInv
  <2> QED BY <1>2, <2>1 DEF vars, world, history, IInv, WorldTypes, Paid, Verifies, Purchases, Bought
<1> QED BY <1>1, <1>2

LEMMA Inductive == Spec => []IInv
BY InitIInv, Kept, PTL DEF Spec
-----------------------------------------------------------------------------
\* The broker's request, its mail, what it said and the chain keep their types.
THEOREM BrokerTypeCorrect == Spec => []TypeOK
<1>1. IInv => TypeOK
  BY TypesSplit DEF IInv, Local
<1> QED BY Inductive, <1>1, PTL

\* broker index.ts:83-88 and payment.ts:30-47: no customer is served twice on one transfer,
\* nor on one that does not pay the price it was charged, whatever it claims.
THEOREM ServedOnce == Spec => []ServedOncePaid
<1>1. IInv => ServedOncePaid
  <2> SUFFICES ASSUME IInv, NEW i \in DOMAIN served, NEW j \in DOMAIN served,
                      served[i].sig = served[j].sig
               PROVE  i = j
    BY DEF IInv, Paid, ServedOncePaid
  <2>1. served[i].charge.reference = served[j].charge.reference
    BY DEF IInv, Paid, Verifies
  <2>2. <<Self, RequestOf(i)>> = <<Self, RequestOf(j)>>
    BY <2>1 DEF IInv, Local, Booked
  <2>3. RequestOf(i) = RequestOf(j)
    BY <2>2
  <2> QED BY <2>3 DEF IInv, Local, Booked
<1> QED BY Inductive, <1>1, PTL

\* broker index.ts:67 and 83, the waits in one thread: the data a customer is given was
\* bought for its request, and is given once.
THEOREM DataOfItsRequest == Spec => []RightData
<1>1. IInv => RightData
  BY DEF IInv, Local, Booked, RequestOf, RightData
<1> QED BY Inductive, <1>1, PTL

\* broker index.ts:64: whatever fails after it, a request is bought for once at the most,
\* and within BROKER_MAX_SOL.
THEOREM BoughtOnce == Spec => []OnePurchasePerRequest
<1>1. IInv => OnePurchasePerRequest
  <2> SUFFICES ASSUME IInv PROVE OnePurchasePerRequest
    OBVIOUS
  <2>1. Cardinality(Bought(transfers)) \in Nat /\ cycle \in Nat
    BY BoughtFinite DEF IInv, WorldTypes, Local, LocalTypes
  <2> QED BY <2>1 DEF IInv, Purchases, Bought, OnePurchasePerRequest
<1> QED BY Inductive, <1>1, PTL
-----------------------------------------------------------------------------
(* The spread. *)

\* What a seller asks and what it is to be paid are one price, read on the wire and as
\* it was.
AsRead(q) == q.amount = Wire(q.url.amount)

QuotesAsRead == {m \in Mentions : m.verb = "quote" => AsRead(m)}

\* A charge is the resale of what was read of the price that is paid upstream.
Spread ==
    /\ mail \in [{Self} -> Seq(QuotesAsRead)]
    /\ \A i \in DOMAIN quotes : AsRead(quotes[i])
    /\ pc \in {"pay", "supply", "proof"} => AsRead(best)
    /\ pc = "proof" => charge.amount = Resale(best.amount)
    /\ \A i \in DOMAIN served : served[i].charge.amount = Resale(Wire(served[i].cost))

\* The markup outweighs the rounding, from 25 units on.
LEMMA ResaleCovers ==
    ASSUME Markup >= 12, NEW cost \in Nat, cost >= 25
    PROVE  Resale(Wire(cost)) >= cost
<1>1. Wire(cost) = cost
  BY DEF Wire
<1>2. Markup \in Nat
  BY BrokerAssumption
<1>3. PICK p \in Nat : p = cost * Markup
  BY <1>2
<1>4. p >= cost * 12
  <2>1. PICK d \in Nat : Markup = 12 + d
    <3>1. Markup - 12 \in Nat /\ Markup = 12 + (Markup - 12)
      BY <1>2
    <3> QED BY <3>1
  <2>2. cost * d \in Nat
    BY <2>1
  <2>3. cost * Markup = cost * 12 + cost * d
    BY <2>1
  <2> QED BY <1>3, <2>2, <2>3
<1>5. PICK q \in Int : q = (p + 50) \div 100 /\ 100 * q <= p + 50 /\ p + 50 < 100 * q + 100
  BY <1>3
<1>6. 10 * q >= cost
  BY <1>4, <1>5
<1> QED BY <1>1, <1>3, <1>5, <1>6 DEF Resale

LEMMA SpreadAfterEnd ==
    ASSUME Spread, EndCycle, UNCHANGED <<mail, served>> PROVE Spread'
BY DEF Spread, EndCycle, NoLocals

LEMMA QuotedSpread ==
    ASSUME Spread, mail' \in [{Self} -> Seq(QuotesAsRead)], NEW qs \in Seq(Quotes),
           \A i \in DOMAIN qs : AsRead(qs[i]), Quoted(qs), pc = "quote"
    PROVE  Spread'
<1>1. UNCHANGED served
  BY DEF Quoted, history
<1>2. CASE asked < Len(Sellers)
  BY <1>1, <1>2 DEF Quoted, Spread
<1>3. CASE ~(asked < Len(Sellers)) /\ qs = <<>>
  BY <1>1, <1>3 DEF Quoted, Spread, EndCycle, NoLocals
<1>4. CASE ~(asked < Len(Sellers)) /\ qs # <<>>
  <2>1. quotes' = qs /\ best' = PickCheapest(qs) /\ pc' = "pay"
    BY <1>4 DEF Quoted
  <2>2. PICK i \in DOMAIN qs : best' = qs[i]
    BY <1>4, <2>1, PickCheapestType
  <2>3. AsRead(best')
    BY <2>2
  <2> QED BY <1>1, <2>1, <2>3 DEF Spread, AsRead
<1> QED BY <1>2, <1>3, <1>4

LEMMA TakeQuoteSpread ==
    ASSUME Local, Spread, mail' \in [{Self} -> Seq(QuotesAsRead)],
           NEW m \in QuotesAsRead, TakeQuote(m)
    PROVE  Spread'
<1>1. pc = "quote" /\ m \in Mentions
  BY DEF TakeQuote, QuotesAsRead
<1>2. CASE m.verb = "quote" /\ m.amount > 0
  <2> DEFINE q == [seller |-> Sellers[asked], thread |-> m.thread,
                   amount |-> m.amount, url |-> m.url]
  <2>1. asked \in 1..Len(Sellers)
    BY <1>1, BrokerAssumption DEF Local, LocalTypes
  <2>2. q \in Quotes
    BY <1>1, <1>2, <2>1, MentionKinds, BrokerAssumption, ElementOfSeq DEF Quotes
  <2>3. AsRead(q)
    BY <1>2 DEF QuotesAsRead, AsRead
  <2>4. Quoted(Append(quotes, q))
    BY <1>2 DEF TakeQuote
  <2> HIDE DEF q
  <2>5. /\ Append(quotes, q) \in Seq(Quotes)
        /\ \A i \in DOMAIN Append(quotes, q) : AsRead(Append(quotes, q)[i])
    BY <2>2, <2>3, AppendedTo DEF Local, LocalTypes, Spread
  <2> QED BY <1>1, <2>4, <2>5, QuotedSpread
<1>3. CASE ~(m.verb = "quote" /\ m.amount > 0)
  <2>1. Quoted(quotes)
    BY <1>3 DEF TakeQuote
  <2> QED BY <1>1, <2>1, QuotedSpread DEF Local, LocalTypes, Spread
<1> QED BY <1>2, <1>3

\* A proof that is answered with the data is answered with the charge of that data.
LEMMA TakeProofSpread ==
    ASSUME Local, Spread, mail' \in [{Self} -> Seq(QuotesAsRead)],
           NEW m \in Mentions, TakeProof(m)
    PROVE  Spread'
<1>1. pc = "proof" /\ m.thread = ask /\ EndCycle
  BY DEF TakeProof, InThread
<1>2. CASE UNCHANGED served
  BY <1>1, <1>2 DEF Spread, EndCycle, NoLocals
<1>3. CASE m.verb = "paid" /\ served' = Append(served, Delivery(m))
  <2>1. Delivery(m) \in Deliveries
    BY <1>1, <1>3, DeliveryType
  <2>2. /\ DOMAIN served' = (DOMAIN served) \cup {Len(served) + 1}
        /\ \A i \in DOMAIN served : served'[i] = served[i]
        /\ served'[Len(served) + 1] = Delivery(m)
    BY <1>3, <2>1, AppendedTo DEF Local, LocalTypes
  <2>3. Delivery(m).charge.amount = Resale(Wire(Delivery(m).cost))
    BY <1>1 DEF Delivery, Spread, AsRead
  <2>4. \A i \in DOMAIN served' : served'[i].charge.amount = Resale(Wire(served'[i].cost))
    BY <2>2, <2>3 DEF Spread
  <2>5. pc' = "idle" /\ quotes' = <<>>
    BY <1>1 DEF EndCycle, NoLocals
  <2> QED BY <2>4, <2>5 DEF Spread
<1> QED BY <1>2, <1>3 DEF TakeProof, Delivery

LEMMA BrokerSpread == ASSUME IInv, Spread, BrokerStep PROVE Spread'
<1>1. Local
  BY DEF IInv
<1>2. CASE BrokerReceives
  <2>1. PICK k \in Batches(Self) :
            /\ Wait(Self, k) /\ mail' = Unread(Self, k)
            /\ LET m == Head(mail[Self])
               IN TakeRequest(m) \/ TakeQuote(m) \/ TakeSupply(m) \/ TakeProof(m) \/ Forget(m)
    BY <1>2 DEF BrokerReceives
  <2> DEFINE m == Head(mail[Self])
  <2>2. m \in QuotesAsRead /\ mail' \in [{Self} -> Seq(QuotesAsRead)]
    BY <2>1, WaitTypes DEF Spread
  <2> HIDE DEF m
  <2>3. m \in Mentions
    BY <2>2 DEF QuotesAsRead
  <2>4. CASE TakeRequest(m)
    BY <2>2, <2>4 DEF TakeRequest, Spread, locals
  <2>5. CASE TakeSupply(m)
    <3>1. UNCHANGED served /\ pc = "supply"
      BY <2>5 DEF TakeSupply, history
    <3>2. CASE m.verb = "delivered"
      <4>1. /\ pc' = "proof" /\ UNCHANGED <<quotes, best>>
            /\ charge' = PaymentUrl(Self, Resale(best.amount), <<Self, cycle>>)
        BY <2>5, <3>2 DEF TakeSupply
      <4>2. charge'.amount = Resale(best'.amount)
        BY <4>1 DEF PaymentUrl
      <4> QED BY <2>2, <3>1, <4>1, <4>2 DEF Spread, AsRead
    <3>3. CASE m.verb # "delivered"
      BY <2>2, <2>5, <3>1, <3>3 DEF TakeSupply, Spread, EndCycle, NoLocals
    <3> QED BY <3>2, <3>3
  <2>6. CASE Forget(m)
    BY <2>2, <2>6 DEF Forget, Spread, locals, history, AsRead
  <2> QED BY <1>1, <2>1, <2>2, <2>3, <2>4, <2>5, <2>6, TakeQuoteSpread, TakeProofSpread DEF m
<1>3. CASE NoQuote
  BY <1>1, <1>3, QuotedSpread DEF NoQuote, Local, LocalTypes, Spread
<1>4. CASE PayUpstream
  BY <1>4 DEF PayUpstream, Spread, EndCycle, NoLocals, locals, history, AsRead
<1>5. CASE UpstreamFails \/ NoProof
  BY <1>5, SpreadAfterEnd DEF UpstreamFails, NoProof, history
<1> QED BY <1>2, <1>3, <1>4, <1>5 DEF BrokerStep

LEMMA OthersSpread == ASSUME IInv, Spread, OthersStep PROVE Spread'
<1>1. UNCHANGED <<pc, quotes, best, charge, served>>
  BY DEF OthersStep, locals, history
<1>2. mail' \in [{Self} -> Seq(QuotesAsRead)]
  <2>1. mail' \in [{Self} -> Seq(Mentions)] /\ open \subseteq Said /\ transfers \in Seq(Urls)
    BY OthersSay DEF IInv, WorldTypes
  <2>2. PICK m : Says(m) /\ (m.verb = "quote" => AsRead(m))
    <3> DEFINE Spoken == \E w : Says(w) /\ (w.verb = "quote" => AsRead(w))
    <3>1. ASSUME NEW c \in Customers, CustomerAsks(c) PROVE Spoken
      BY <3>1 DEF CustomerAsks, CustomerSays
    <3>2. ASSUME NEW c \in Customers, CustomerClaims(c) PROVE Spoken
      <4>1. PICK sig : Says([verb |-> "paid", thread |-> c, sig |-> sig])
        BY <3>2 DEF CustomerClaims, CustomerSays
      <4> QED BY <4>1
    <3>3. ASSUME NEW w \in open, CustomerPays(w) PROVE Spoken
      BY <3>3 DEF CustomerPays
    <3>4. ASSUME NEW w \in open, SellerQuotes(w) PROVE Spoken
      <4>1. PICK q : /\ q = [verb |-> "quote", thread |-> w.thread,
                             amount |-> Wire(Price[w.thread[1]]),
                             url |-> PaymentUrl(w.thread[1], Price[w.thread[1]], w.thread)]
                     /\ Says(q)
        BY <3>4 DEF SellerQuotes
      <4>2. AsRead(q)
        BY <4>1 DEF AsRead, PaymentUrl
      <4> QED BY <4>1, <4>2
    <3>5. ASSUME NEW w \in open, SellerDelivers(w) PROVE Spoken
      <4>1. \/ Says([verb |-> "delivered", thread |-> w.thread, data |-> w.thread])
            \/ Says([verb |-> "refused", thread |-> w.thread])
        BY <3>5 DEF SellerDelivers
      <4> QED BY <4>1
    <3> HIDE DEF Spoken
    <3>6. Spoken
      BY <3>1, <3>2, <3>3, <3>4, <3>5 DEF OthersStep
    <3> QED BY <3>6 DEF Spoken
  <2>3. m \in Mentions
    <3>1. mail[Self] \in Seq(Mentions) /\ mail'[Self] = Append(mail[Self], m)
      BY <2>2 DEF Says, Post, IInv, WorldTypes
    <3>2. mail'[Self] \in Seq(Mentions) /\ mail'[Self][Len(mail[Self]) + 1] = m
      BY <2>1, <3>1, AppendProperties
    <3>3. Len(mail'[Self]) = Len(mail[Self]) + 1 /\ Len(mail[Self]) \in Nat
      BY <3>1, AppendProperties
    <3> QED BY <3>2, <3>3, ElementOfSeq
  <2>4. m \in QuotesAsRead
    BY <2>2, <2>3 DEF QuotesAsRead
  <2> QED BY <2>2, <2>4, SaysTypes DEF Spread
<1> QED BY <1>1, <1>2 DEF Spread, AsRead

LEMMA SpreadInductive == Spec => []Spread
<1>1. Init => Spread
  BY EmptySeq DEF Init, Spread
<1>2. IInv /\ Spread /\ [Next]_vars => Spread'
  <2>1. ASSUME Spread, UNCHANGED vars PROVE Spread'
    BY <2>1 DEF vars, locals, history, Spread, AsRead
  <2> QED BY <2>1, BrokerSpread, OthersSpread DEF Next
<1> QED BY Inductive, <1>1, <1>2, PTL DEF Spec

\* broker index.ts:9 and 77, "the broker keeps the spread": with the default markup of 1.2 or
\* more, a customer that is served has paid what the data cost at least, for costs above the
\* rounding of the price to six decimals.
THEOREM SpreadIsKept == ASSUME Markup >= 12 PROVE Spec => []SpreadKept
<1>1. IInv /\ Spread => SpreadKept
  <2> SUFFICES ASSUME IInv, Spread, NEW i \in DOMAIN served, ~(served[i].cost < 25)
               PROVE  transfers[served[i].sig].amount >= served[i].cost
    BY DEF SpreadKept
  <2>1. /\ served[i].sig \in DOMAIN transfers
        /\ transfers[served[i].sig].amount >= served[i].charge.amount
    BY DEF IInv, Paid, Verifies
  <2>2. served[i] \in Deliveries
    <3>1. served \in Seq(Deliveries)
      BY DEF IInv, Local, LocalTypes
    <3> QED BY <3>1, LenProperties, ElementOfSeq
  <2>3. served[i].cost \in Nat /\ served[i].charge.amount \in Nat
    BY <2>2 DEF Deliveries, Urls
  <2>4. served[i].charge.amount >= served[i].cost
    BY <2>3, ResaleCovers DEF Spread
  <2>5. transfers[served[i].sig].amount \in Nat
    <3>1. transfers \in Seq(Urls)
      BY DEF IInv, WorldTypes
    <3>2. transfers[served[i].sig] \in Urls
      BY <2>1, <3>1, LenProperties, ElementOfSeq
    <3> QED BY <3>2 DEF Urls
  <2> QED BY <2>1, <2>3, <2>4, <2>5
<1> QED BY Inductive, SpreadInductive, <1>1, PTL
=============================================================================
