-------------------------------- MODULE Proxy --------------------------------
(***************************************************************************)
(* The TxODDS proxy (examples/txodds/server/proxy.ts): a web server that   *)
(* plays buyer, seller and arbiter in one request.  A settle request tries *)
(* the arbiter rail and falls back to the direct one; whatever comes out is*)
(* written as a run of the ledger, from which the next request's policy    *)
(* counts what was spent.  Requests interleave wherever one awaits a call; *)
(* a step is what runs between two awaits.                                 *)
(***************************************************************************)
EXTENDS Integers, Sequences, FiniteSets, Policy

CONSTANTS
    Requests, Amount,      \* Amount[q]: what request q asks to settle
    HasArbiterKey,         \* is ARBITER_KEYPAIR_B58 given?
    SessionCap, MinInterval, \* POLICY_MAX_SOL_PER_SESSION, POLICY_MIN_..., or Unset
    BuyerWallet, Seller, Vaults,
    Funds,                 \* what the buyer's wallet holds at first
    MaxTime,               \* bound on the clock
    WalletAmounts,         \* what wallets pay, and pay-verify is asked for
    MaxTransfers,          \* bound on the transfers of wallets
    MaxVerified,           \* bound on pay-verify requests
    None

\* boundReference: the read and a nonce, which is Date.now(): two requests of the
\* same millisecond may be given the same reference.
Refs == 0..MaxTime

ASSUME ProxyAssumption ==
    /\ Amount \in [Requests -> Nat \ {0}]
    /\ WalletAmounts \subseteq Nat \ {0}
    /\ MaxTime \in Nat
    /\ None \notin Requests \cup Refs
    /\ Unset # "pass"

VARIABLES
    order, worth, now,     \* the rail; now is also Date.now()
    pc,                    \* pc[q]: what request q awaits
    mode, round, ref, good,\* its locals: the rail, the round, the reference, the read
    arbiterError,          \* arbiterError[q]: did the arbiter rail fail it?
    runs,                  \* the ledger: runs[n] is the record of round n
    opened, paid,          \* history: deposits of a request, payments of a reference
    transfers,             \* what wallets paid on the chain, and under which reference
    verified               \* history: pay-verify requests that were recorded

rail == <<order, worth, now>>
requests == <<pc, mode, round, ref, good, arbiterError>>
wallets == <<transfers, verified>>
vars == <<rail, requests, runs, opened, paid, wallets>>

Accounts == {BuyerWallet, Seller, Vaults}

Rail == INSTANCE Settlement WITH
          Amounts <- {Amount[q] : q \in Requests}, Free <- None,
          InitialLamports <- [a \in Accounts |-> IF a = BuyerWallet THEN Funds ELSE 0]

Owner(m) == IF m = "arbiter" THEN Vaults ELSE BuyerWallet

Init ==
    /\ Rail!Init
    /\ pc = [q \in Requests |-> "new"] /\ mode = [q \in Requests |-> None]
    /\ round = [q \in Requests |-> 0] /\ ref = [q \in Requests |-> None]
    /\ good = [q \in Requests |-> FALSE] /\ arbiterError = [q \in Requests |-> FALSE]
    /\ runs = <<>>
    /\ opened = [q \in Requests |-> 0] /\ paid = [r \in Refs |-> 0]
    /\ transfers = {} /\ verified = 0
-----------------------------------------------------------------------------
(* What the policy is told, read from the ledger. *)

Settled(run) == run.status = "settled"

settledSpend ==
    LET spend[n \in 0..Len(runs)] ==
          IF n = 0 THEN 0 ELSE spend[n - 1] + (IF Settled(runs[n]) THEN runs[n].amount ELSE 0)
    IN  spend[Len(runs)]

\* The latest updatedAt of a run with a deposit, which grading moves as well.
lastDepositAt ==
    LET times == {runs[n].updatedAt : n \in {m \in DOMAIN runs : runs[m].amount > 0}}
    IN  IF times = {} THEN Unset ELSE CHOOSE t \in times : \A u \in times : u <= t

policy(q) ==
    PolicyFromEnv([maxPerRound |-> Unset, maxPerSession |-> SessionCap, services |-> {},
                   minInterval |-> MinInterval, verifier |-> TRUE],
                  Amount[q], "txline", Seller)

\* Mutant: the read is judged when the money is to be released.
ReleasableLater(q) == TRUE

\* A read without a call on its market would not be released, and is not paid for.
Releasable(q) == MayRelease(IF good[q] THEN "pass" ELSE Unset, policy(q))

Depositable(q) ==
    MayDeposit([amount |-> Amount[q], awarded |-> Amount[q], service |-> "txline",
                payout |-> Seller, spent |-> settledSpend,
                lastDepositAt |-> lastDepositAt, now |-> now], policy(q))
-----------------------------------------------------------------------------
(* A settle request. *)

\* Mutant: the round that was the next one when the request came.
RoundOfRequest(q) == IF q = None THEN Len(runs) + 1 ELSE round[q]

\* persistWebRun asks again which round is the next, and writes it at once.
NextRound(q) == Len(runs) + 1

\* A run is written over the one that has its round, if there is one.
Persist(n, run) ==
    runs' = IF n \in DOMAIN runs THEN [runs EXCEPT ![n] = run] ELSE Append(runs, run)

\* A failed settlement has no reference, so that its run names no escrow.
Record(q, status, r) ==
    [by |-> q, status |-> status, ref |-> r, updatedAt |-> now,
     amount |-> IF status = "settled" THEN Amount[q] ELSE 0]

Answer(q, status, r) ==
    /\ pc' = [pc EXCEPT ![q] = "answered"]
    /\ Persist(NextRound(q), Record(q, status, r))
    /\ UNCHANGED <<mode, arbiterError>>

\* Mutant: the arbiter rail is tried again.
FailRetries(q) ==
    IF mode[q] = "arbiter"
    THEN /\ arbiterError' = [arbiterError EXCEPT ![q] = TRUE]
         /\ pc' = [pc EXCEPT ![q] = "binding"]
         /\ UNCHANGED <<mode, runs>>
    ELSE Answer(q, "failed", None)

\* Mutant: a direct settlement that fails is recorded like one that does not.
FailAsSettled(q) ==
    IF mode[q] = "arbiter"
    THEN /\ mode' = [mode EXCEPT ![q] = "direct"]
         /\ arbiterError' = [arbiterError EXCEPT ![q] = TRUE]
         /\ pc' = [pc EXCEPT ![q] = "binding"]
         /\ UNCHANGED runs
    ELSE Answer(q, "settled", ref[q])

\* Something throws: the arbiter rail gives way to the direct one, which starts
\* from the beginning; the direct one gives up.
Fail(q) ==
    IF mode[q] = "arbiter"
    THEN /\ mode' = [mode EXCEPT ![q] = "direct"]
         /\ arbiterError' = [arbiterError EXCEPT ![q] = TRUE]
         /\ pc' = [pc EXCEPT ![q] = "binding"]
         /\ UNCHANGED runs
    ELSE Answer(q, "failed", None)

\* The read is there, good or not, or it cannot be had: then nothing is recorded.
Start(q) ==
    /\ pc[q] = "new"
    /\ \/ /\ pc' = [pc EXCEPT ![q] = "binding"]
          /\ mode' = [mode EXCEPT ![q] = IF HasArbiterKey THEN "arbiter" ELSE "direct"]
          /\ round' = [round EXCEPT ![q] = Len(runs) + 1]
          /\ \E b \in BOOLEAN : good' = [good EXCEPT ![q] = b]
       \/ pc' = [pc EXCEPT ![q] = "rejected"] /\ UNCHANGED <<mode, round, good>>
    /\ UNCHANGED <<rail, ref, arbiterError, runs, opened, paid, wallets>>

\* The reference is bound and the policy asked, or a call before the deposit throws.
Bind(q) ==
    /\ pc[q] = "binding"
    /\ ref' = [ref EXCEPT ![q] = now]
    /\ \/ /\ Depositable(q) /\ Releasable(q)
          /\ pc' = [pc EXCEPT ![q] = "opening"]
          /\ UNCHANGED <<mode, arbiterError, runs>>
       \/ Fail(q)
    /\ UNCHANGED <<rail, round, good, opened, paid, wallets>>

\* open or deposit lands, and is seen confirmed or throws all the same.
Open(q) ==
    /\ pc[q] = "opening"
    /\ Rail!LockWith(BuyerWallet, IF mode[q] = "arbiter" THEN Amount[q] ELSE 0,
                     Owner(mode[q]), ref[q],
                     [seller |-> Seller, amount |-> Amount[q], deadline |-> now + 1])
    /\ opened' = [opened EXCEPT ![q] = @ + 1]
    /\ \/ pc' = [pc EXCEPT ![q] = "releasing"] /\ UNCHANGED <<mode, arbiterError, runs>>
       \/ Fail(q)
    /\ UNCHANGED <<round, ref, good, paid, wallets>>

\* arbitrateRelease or release lands, after the policy was asked again.
Release(q) ==
    /\ pc[q] = "releasing"
    /\ MayRelease(IF good[q] THEN "pass" ELSE Unset, policy(q))
    /\ Rail!Pay(Owner(mode[q]), ref[q])
    /\ paid' = [paid EXCEPT ![ref[q]] = @ + 1]
    /\ Answer(q, "settled", ref[q]) \/ Fail(q)
    /\ UNCHANGED <<round, ref, good, opened, wallets>>

\* The transaction does not land: the account exists, the RPC fails, funds are short.
Throw(q) ==
    /\ pc[q] \in {"opening", "releasing"}
    /\ Fail(q)
    /\ UNCHANGED <<rail, round, ref, good, opened, paid, wallets>>

Step(q) == Start(q) \/ Bind(q) \/ Open(q) \/ Release(q) \/ Throw(q)
-----------------------------------------------------------------------------
(* The other requests that write runs. *)

\* pay-intent binds a reference as a settlement does, and a wallet pays under it, sooner or
\* later or not at all: a transfer that is none of the rail.
WalletPays ==
    /\ Cardinality(transfers) < MaxTransfers
    /\ \E r \in 0..now, a \in WalletAmounts :
          transfers' = transfers \cup {[ref |-> r, amount |-> a]}
    /\ UNCHANGED <<rail, requests, runs, opened, paid, verified>>

\* Mutant: the transfer is not looked up.
WalletSays(r, a) == TRUE

\* verifyPayment: a transfer under this reference, of this amount or more.
Transferred(r, a) == \E t \in transfers : t.ref = r /\ a <= t.amount

\* pay-verify: a transfer that is found on the chain is recorded as a settled run, under
\* the reference and for the amount the request names, each time it is asked for.
PayVerify ==
    /\ verified < MaxVerified
    /\ verified' = verified + 1
    /\ \E r \in Refs, a \in WalletAmounts :
          /\ Transferred(r, a)
          /\ Persist(NextRound(None),
                     [by |-> None, status |-> "settled", ref |-> r, amount |-> a,
                      updatedAt |-> now])
    /\ UNCHANGED <<rail, requests, opened, paid, transfers>>

\* grade-runs rewrites a settled run with its outcome, once its score is there.
Grade ==
    /\ \E n \in DOMAIN runs :
          Settled(runs[n]) /\ runs' = [runs EXCEPT ![n].updatedAt = now]
    /\ UNCHANGED <<rail, requests, opened, paid, wallets>>

\* The server stops: requests that wait are gone, the ledger and the chain stay.
Crash ==
    /\ \E q \in Requests : pc[q] \in {"binding", "opening", "releasing"}
    /\ pc' = [q \in Requests |-> IF pc[q] \in {"binding", "opening", "releasing"}
                                 THEN "lost" ELSE pc[q]]
    /\ UNCHANGED <<rail, mode, round, ref, good, arbiterError, runs, opened, paid, wallets>>

Tick == /\ now < MaxTime
        /\ Rail!Tick
        /\ UNCHANGED <<requests, runs, opened, paid, wallets>>

Next == WalletPays \/ PayVerify \/ Grade \/ Crash \/ Tick \/ \E q \in Requests : Step(q)

\* Every call that is awaited returns or throws.
Spec == Init /\ [][Next]_vars /\ \A q \in Requests : WF_vars(Step(q))
-----------------------------------------------------------------------------
Runs == [by : Requests \cup {None}, status : {"settled", "failed"}, ref : Refs \cup {None},
         updatedAt : Refs, amount : Nat]

TypeOK ==
    /\ now \in 0..MaxTime
    /\ pc \in [Requests -> {"new", "rejected", "binding", "opening", "releasing",
                            "answered", "lost"}]
    /\ mode \in [Requests -> {"arbiter", "direct", None}]
    /\ ref \in [Requests -> Refs \cup {None}]
    /\ good \in [Requests -> BOOLEAN] /\ arbiterError \in [Requests -> BOOLEAN]
    /\ runs \in Seq(Runs)
    /\ opened \in [Requests -> Nat] /\ paid \in [Refs -> Nat]
    /\ transfers \in SUBSET [ref : Refs, amount : Nat]

\* proxy.ts:378-379, the reference makes the order correspond to the read that was
\* bought: the runs that settle requests call settled name a release each, each run its own
\* one, also when requests of one millisecond share a reference, with each other or with a
\* wallet.  A run that pay-verify wrote names a transfer that pays for it; two of them may
\* name the same one.
SettledMeansPaid ==
    /\ \A r \in Refs :
          Cardinality({n \in DOMAIN runs : runs[n].by # None /\ runs[n].ref = r}) <= paid[r]
    /\ \A n \in DOMAIN runs : Settled(runs[n]) =>
          IF runs[n].by # None THEN runs[n].ref \in Refs
          ELSE \E t \in transfers : t.ref = runs[n].ref /\ runs[n].amount <= t.amount

\* However requests overlap, each one that is answered has its run in the ledger: no
\* run takes the round of another.
EveryAnswerRecorded ==
    \A q \in Requests : pc[q] = "answered" => \E n \in DOMAIN runs : runs[n].by = q

\* Money is locked only for a read that may be released: a read that fails the check
\* must not leave a deposit behind that nobody will release or refund.
LockedOnlyReleasable ==
    [][\A q \in Requests : opened'[q] # opened[q] => good[q]]_vars

\* A request deposits once, and a second time only when the arbiter rail failed it,
\* which its answer tells (arbiterError): a fallback costs one deposit at the most.
OneDepositPerRail ==
    \A q \in Requests : opened[q] <= IF arbiterError[q] THEN 2 ELSE 1

\* Every request is answered or rejected, whatever fails, unless the server stops.
EveryRequestEnds ==
    \A q \in Requests : <>(pc[q] \in {"answered", "rejected", "lost"})
=============================================================================
