------------------------------- MODULE Broker -------------------------------
(***************************************************************************)
(* The broker (coral-agents/broker): it answers a customer's request by    *)
(* asking every seller for a quote, buys from the cheapest, and resells at *)
(* a markup.  Both payments are Solana Pay transfers, bound to an order by *)
(* a reference that is generated for it.  It handles one request at a time *)
(* and waits in one thread after the other; a wait reads, and loses, what  *)
(* arrives in other threads.                                               *)
(*                                                                         *)
(* Customers and sellers are not part of the broker: a customer asks, pays *)
(* and claims when it likes, a seller quotes and delivers as seller-agent's*)
(* payment helpers would have it, or is silent.  Prices are in units of    *)
(* 0.0000001 SOL.                                                          *)
(***************************************************************************)
EXTENDS Integers, Sequences, FiniteSets, Mail, Protocol

CONSTANTS
    Self,          \* the broker's mailbox
    Customers,
    Sellers,       \* SWARM_SELLERS, a sequence
    Price,         \* Price[s]: PRICE_SOL of seller s
    Markup,        \* MARKUP, in tenths
    MaxSol,        \* BROKER_MAX_SOL
    MaxSays,       \* bound on what customers ask and claim
    MaxUnread,     \* bound on the broker's mailbox
    None           \* no request, no quote, no charge

ASSUME BrokerAssumption ==
    /\ Sellers \in Seq(DOMAIN Price) /\ Sellers # <<>>
    /\ \A s \in DOMAIN Price : Price[s] \in Nat
    /\ Markup \in Nat /\ MaxSol \in Nat /\ MaxBatch \in Nat

VARIABLES
    pc,            \* what the broker waits for
    ask,           \* the customer's thread
    cycle,         \* requests taken: names the threads of a request
    asked,         \* sellers asked so far
    quotes, best, data, charge,   \* the request's locals
    transfers,     \* the chain: the transfers that landed, by signature
    open,          \* what the broker said and nobody has reacted to yet
    says,          \* what customers asked and claimed
    requester,     \* history: requester[n] is who asked for request n
    served         \* history: what was delivered, on which proof

locals == <<ask, asked, quotes, best, data, charge>>
world == <<open, says>>
history == <<requester, served>>
vars == <<pc, cycle, locals, transfers, world, mail, repeats, history>>

\* createThread: a new thread for every seller and request.
Thread(i, n) == <<Sellers[i], n>>

NoLocals == /\ ask' = None /\ asked' = 0 /\ quotes' = <<>>
            /\ best' = None /\ data' = None /\ charge' = None

\* The cycle is over, whatever ended it.
EndCycle == pc' = "idle" /\ NoLocals

Init == /\ pc = "idle" /\ cycle = 0
        /\ ask = None /\ asked = 0 /\ quotes = <<>>
        /\ best = None /\ data = None /\ charge = None
        /\ transfers = <<>> /\ open = {} /\ says = 0
        /\ mail = [a \in {Self} |-> <<>>] /\ repeats = 0
        /\ requester = <<>> /\ served = <<>>
-----------------------------------------------------------------------------
(* Payments. *)

\* generatePaymentUrl: a transfer request with a fresh, single-use reference.  A key
\* is named by what it is generated for, which happens once: a thread's quote, or the
\* charge for a request.
PaymentUrl(to, amount, key) == [to |-> to, amount |-> amount, reference |-> key]

\* payFromUrl and a wallet's transfer: it lands and carries the reference.
Transfer(url) == transfers' = Append(transfers, url)

\* Mutant: the reference is not looked at.
VerifiesAmount(sig, url) ==
    sig \in DOMAIN transfers /\ transfers[sig].to = url.to /\ transfers[sig].amount >= url.amount

\* verifyPayment (validateTransfer): a transfer to this recipient, of this amount at
\* least, that carries this reference.
Verifies(sig, url) ==
    /\ sig \in DOMAIN transfers
    /\ transfers[sig].to = url.to
    /\ transfers[sig].amount >= url.amount
    /\ transfers[sig].reference = url.reference
-----------------------------------------------------------------------------
(* The broker. *)

\* Mutant: a wait takes the mention of any thread.
AnyThread(m, thread) == TRUE

\* waitForMentionInThread: mentions in other threads are read and forgotten.
InThread(m, thread) == m.thread = thread

\* Asking seller i, for request n: a new thread, and the request in it.
AskSeller(i, n) == open' = open \cup {[verb |-> "request", thread |-> Thread(i, n)]}

TakeRequest(m) ==
    /\ pc = "idle"
    /\ IF m.verb = "request"
       THEN /\ cycle' = cycle + 1 /\ ask' = m.thread
            /\ requester' = Append(requester, m.thread)
            /\ pc' = "quote" /\ asked' = 1 /\ AskSeller(1, cycle + 1)
            /\ UNCHANGED <<quotes, best, data, charge>>
       ELSE UNCHANGED <<pc, cycle, locals, open, requester>>
    /\ UNCHANGED <<transfers, says, served>>

\* pickCheapest: the first of the cheapest quotes.
PickCheapest(qs) ==
    qs[CHOOSE i \in DOMAIN qs : \A j \in DOMAIN qs :
          /\ qs[i].amount <= qs[j].amount
          /\ j < i => qs[i].amount < qs[j].amount]

\* The next seller is asked; after the last one the cheapest quote is bought, or the
\* customer is told that there is none.
Quoted(qs) ==
    /\ IF asked < Len(Sellers)
       THEN /\ quotes' = qs /\ asked' = asked + 1
            /\ AskSeller(asked + 1, cycle)
            /\ UNCHANGED <<pc, ask, best, data, charge>>
       ELSE IF qs = <<>> THEN EndCycle /\ UNCHANGED open
       ELSE /\ quotes' = qs /\ best' = PickCheapest(qs) /\ pc' = "pay"
            /\ UNCHANGED <<ask, asked, data, charge, open>>
    /\ cycle' = cycle
    /\ UNCHANGED <<transfers, says, history>>

\* parsePaymentRequired: the amount is read from the text, the transfer is the URL's.
TakeQuote(m) ==
    /\ pc = "quote" /\ InThread(m, Thread(asked, cycle))
    /\ Quoted(IF m.verb = "quote" /\ m.amount > 0
              THEN Append(quotes, [seller |-> Sellers[asked], thread |-> m.thread,
                                   amount |-> m.amount, url |-> m.url])
              ELSE quotes)

\* No answer in time, or a call of the server throws.
NoQuote == pc = "quote" /\ Quoted(quotes) /\ UNCHANGED <<mail, repeats>>

\* Mutant: a transfer that is not seen confirmed is tried again.
PayUpstreamAgain ==
    /\ pc = "pay" /\ best.url.amount > 0 /\ best.url.amount <= MaxSol
    /\ Transfer(best.url)
    /\ \/ /\ pc' = "supply" /\ UNCHANGED locals
          /\ open' = open \cup {[verb |-> "paid", thread |-> best.thread,
                                 sig |-> Len(transfers) + 1, url |-> best.url]}
       \/ UNCHANGED <<pc, locals, open>>
    /\ Len(transfers) < 5
    /\ UNCHANGED <<cycle, says, mail, repeats, history>>

\* payFromUrl: what the URL asks for, up to the cap.  When the transfer is seen
\* confirmed the seller is told; when it throws all the same, the customer is.
PayUpstream ==
    /\ pc = "pay" /\ best.url.amount > 0 /\ best.url.amount <= MaxSol
    /\ Transfer(best.url)
    /\ \/ /\ pc' = "supply" /\ UNCHANGED locals
          /\ open' = open \cup {[verb |-> "paid", thread |-> best.thread,
                                 sig |-> Len(transfers) + 1, url |-> best.url]}
       \/ EndCycle /\ UNCHANGED open
    /\ UNCHANGED <<cycle, says, mail, repeats, history>>

\* UPSTREAM_FAILED: a transfer that is over the cap or not sent, no delivery in time.
UpstreamFails ==
    /\ pc \in {"pay", "supply"}
    /\ EndCycle
    /\ UNCHANGED <<cycle, transfers, world, mail, repeats, history>>

\* Mutant: the price is rounded to four decimals.
ResaleFourDecimals(amount) == 1000 * ((amount * Markup + 5000) \div 10000)

\* +(amount * MARKUP).toFixed(6): to the nearest 0.000001 SOL.
Resale(amount) == 10 * ((amount * Markup + 50) \div 100)

\* The data is bought: charge the customer for it.  Any other answer in the thread
\* is taken for a failure.
TakeSupply(m) ==
    /\ pc = "supply" /\ InThread(m, best.thread)
    /\ IF m.verb = "delivered"
       THEN LET url == PaymentUrl(Self, Resale(best.amount), <<Self, cycle>>) IN
            /\ data' = m.data /\ charge' = url
            /\ open' = open \cup {[verb |-> "charge", thread |-> ask, url |-> url]}
            /\ pc' = "proof"
            /\ UNCHANGED <<ask, asked, quotes, best>>
       ELSE EndCycle /\ UNCHANGED open
    /\ UNCHANGED <<cycle, transfers, says, history>>

\* The first mention of the customer's thread is taken for its proof; a payment that
\* verifies is answered with the data.  An RPC error verifies nothing.
TakeProof(m) ==
    /\ pc = "proof" /\ InThread(m, ask)
    /\ \/ /\ m.verb = "paid" /\ Verifies(m.sig, charge)
          /\ served' = Append(served, [to |-> m.thread, data |-> data, sig |-> m.sig,
                                       charge |-> charge, cost |-> best.url.amount])
       \/ UNCHANGED served
    /\ EndCycle
    /\ UNCHANGED <<cycle, transfers, world, requester>>

\* A mention the broker does not wait for.
Forget(m) ==
    /\ \/ pc = "quote" /\ ~InThread(m, Thread(asked, cycle))
       \/ pc = "supply" /\ ~InThread(m, best.thread)
       \/ pc = "proof" /\ ~InThread(m, ask)
    /\ UNCHANGED <<pc, cycle, locals, transfers, world, history>>

BrokerReceives ==
    \E k \in Batches(Self) :
        /\ Wait(Self, k)
        /\ mail' = Unread(Self, k)
        /\ LET m == Head(mail[Self])
           IN TakeRequest(m) \/ TakeQuote(m) \/ TakeSupply(m) \/ TakeProof(m) \/ Forget(m)

\* Mutant: the wait for the proof has no limit.
NoProofNeverEnds == FALSE /\ UNCHANGED vars

\* No proof in time, or a call of the server throws: the cycle is over.
NoProof ==
    /\ pc = "proof"
    /\ EndCycle
    /\ UNCHANGED <<cycle, transfers, world, mail, repeats, history>>

BrokerStep == BrokerReceives \/ NoQuote \/ PayUpstream \/ UpstreamFails \/ NoProof
-----------------------------------------------------------------------------
(* Customers and sellers.  They react to what the broker said once, or never. *)

Says(m) == Len(mail[Self]) < MaxUnread /\ mail' = Post(mail, {Self}, m)

CustomerSays(m) == /\ says < MaxSays /\ says' = says + 1
                   /\ Says(m)

CustomerAsks(c) ==
    /\ CustomerSays([verb |-> "request", thread |-> c])
    /\ UNCHANGED <<transfers, open>>

\* A customer pays what it was charged, while the broker waits for it or later.
CustomerPays(m) ==
    /\ m \in open /\ m.verb = "charge"
    /\ Transfer(m.url)
    /\ open' = open \ {m}
    /\ Says([verb |-> "paid", thread |-> m.thread, sig |-> Len(transfers) + 1])
    /\ UNCHANGED says

\* A customer that claims a transfer of earlier, its own or another's.
CustomerClaims(c) ==
    /\ \E sig \in DOMAIN transfers : CustomerSays([verb |-> "paid", thread |-> c, sig |-> sig])
    /\ UNCHANGED <<transfers, open>>

\* A seller quotes its price, which the wire may misread.
SellerQuotes(m) ==
    /\ m \in open /\ m.verb = "request"
    /\ LET s == m.thread[1] IN
         Says([verb |-> "quote", thread |-> m.thread, amount |-> Wire(Price[s]),
               url |-> PaymentUrl(s, Price[s], m.thread)])
    /\ open' = open \ {m}
    /\ UNCHANGED <<transfers, says>>

\* A seller delivers what it finds paid, and says so if it does not.
SellerDelivers(m) ==
    /\ m \in open /\ m.verb = "paid"
    /\ IF Verifies(m.sig, m.url)
       THEN Says([verb |-> "delivered", thread |-> m.thread, data |-> m.thread])
       ELSE Says([verb |-> "refused", thread |-> m.thread])
    /\ open' = open \ {m}
    /\ UNCHANGED <<transfers, says>>

OthersStep ==
    /\ \/ \E c \in Customers : CustomerAsks(c) \/ CustomerClaims(c)
       \/ \E m \in open : CustomerPays(m) \/ SellerQuotes(m) \/ SellerDelivers(m)
    /\ UNCHANGED <<pc, cycle, locals, repeats, history>>

Next == BrokerStep \/ OthersStep

\* Every wait of the broker is bounded and every call returns or throws.
Spec == Init /\ [][Next]_vars /\ WF_vars(BrokerStep)
-----------------------------------------------------------------------------
Parties == {Self} \cup DOMAIN Price
Threads == (DOMAIN Price) \X Nat
Urls == [to : Parties, amount : Nat, reference : Parties \X Nat]
Quotes == [seller : DOMAIN Price, thread : Threads, amount : Nat, url : Urls]

\* What the broker is told, and what it said.
Mentions ==
    [verb : {"request"}, thread : Customers]
    \cup [verb : {"paid"}, thread : Customers, sig : Nat]
    \cup [verb : {"quote"}, thread : Threads, amount : Nat, url : Urls]
    \cup {m \in [verb : {"delivered"}, thread : Threads, data : Threads] : m.data = m.thread}
    \cup [verb : {"refused"}, thread : Threads]

Said == [verb : {"request"}, thread : Threads]
        \cup [verb : {"paid"}, thread : Threads, sig : Nat, url : Urls]
        \cup {m \in [verb : {"charge"}, thread : Customers, url : Urls] : m.url.to = Self}

TypeOK ==
    /\ pc \in {"idle", "quote", "pay", "supply", "proof"}
    /\ cycle \in Nat /\ requester \in Seq(Customers) /\ Len(requester) = cycle
    /\ pc # "idle" => cycle > 0
    /\ asked \in 0..Len(Sellers)
    /\ pc = "quote" => asked > 0
    /\ quotes \in Seq(Quotes)
    /\ pc \in {"pay", "supply", "proof"} => best \in Quotes
    /\ pc = "proof" => data \in Threads /\ charge \in Urls
    /\ transfers \in Seq(Urls)
    /\ open \subseteq Said
    /\ mail \in [{Self} -> Seq(Mentions)]
    /\ served \in Seq([to : Customers, data : Threads, sig : Nat, charge : Urls, cost : Nat])

\* What is delivered was paid for: every delivery stands on a transfer of its own,
\* of the price charged for it, whatever a customer claims and however late.
ServedOncePaid ==
    /\ \A i \in DOMAIN served : Verifies(served[i].sig, served[i].charge)
    /\ \A i, j \in DOMAIN served : served[i].sig = served[j].sig => i = j

\* A customer gets the data bought for its own, present request, never what a seller
\* delivered late for another one.
RightData ==
    /\ \A i \in DOMAIN served : requester[served[i].data[2]] = served[i].to
    /\ \A i, j \in DOMAIN served : served[i].data = served[j].data => i = j

\* index.ts:9, "the broker keeps the spread": a customer that is served has paid what
\* the data cost at least, but for costs so small (below 0.0000025 SOL) that rounding
\* the price to six decimals takes the markup away.
SpreadKept ==
    \A i \in DOMAIN served :
        transfers[served[i].sig].amount >= served[i].cost \/ served[i].cost < 25

\* index.ts:9, the broker buys before it is paid: what that exposes is one purchase
\* for a request, within the cap, whichever step fails or is answered late.
OnePurchasePerRequest ==
    LET bought == {i \in DOMAIN transfers : transfers[i].to # Self}
    IN  /\ Cardinality(bought) <= cycle
        /\ \A i \in bought : transfers[i].amount <= MaxSol

\* Whoever is silent, the broker comes back to the next request.
CycleEnds == []<>(pc = "idle")
=============================================================================
