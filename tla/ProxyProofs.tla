----------------------------- MODULE ProxyProofs -----------------------------
(***************************************************************************)
(* The proxy's ledger and its deposits, for any number of requests that    *)
(* overlap, any amounts and limits, and a crash at any moment.             *)
(***************************************************************************)
EXTENDS Proxy, FiniteSetTheorems, SequenceTheorems, TLAPS

\* The deposits a request has made, by where it stands: none before it begins, at most
\* one for each rail that failed it before it opens again.
DepositsCounted ==
    \A q \in Requests :
        /\ pc[q] \in {"new", "rejected"} => opened[q] = 0 /\ ~arbiterError[q]
        /\ pc[q] \in {"binding", "opening"} => opened[q] <= IF arbiterError[q] THEN 1 ELSE 0
        /\ mode[q] = "arbiter" => ~arbiterError[q]

\* A request opens only with a read that may be released.
OpeningIsGood == \A q \in Requests : pc[q] = "opening" => good[q]

\* A request that releases, or opens, has its reference.
Bound == \A q \in Requests : pc[q] \in {"opening", "releasing"} => ref[q] \in Refs

Ledger == SettledMeansPaid /\ EveryAnswerRecorded

Deposits == DepositsCounted /\ OneDepositPerRail /\ OpeningIsGood /\ Bound

IInv == TypeOK /\ Ledger /\ Deposits
-----------------------------------------------------------------------------
(* The ledger. *)

\* The runs of settle requests that name reference r.
Naming(rs, r) == {n \in DOMAIN rs : rs[n].by # None /\ rs[n].ref = r}
Names(run, r) == run.by # None /\ run.ref = r

\* A settled run has its payment: of a wallet, or under a reference of a settlement.
Proper(run, ts) ==
    Settled(run) => IF run.by # None THEN run.ref \in Refs
                    ELSE \E t \in ts : t.ref = run.ref /\ run.amount <= t.amount

LEMMA PaidIs ==
    SettledMeansPaid <=> /\ \A r \in Refs : Cardinality(Naming(runs, r)) <= paid[r]
                         /\ \A n \in DOMAIN runs : Proper(runs[n], transfers)
BY DEF SettledMeansPaid, Naming, Proper

\* The payments of the runs of a ledger that comes after a step.
LEMMA PaidAfter ==
    ASSUME \A r \in Refs : Cardinality(Naming(runs', r)) <= paid'[r],
           \A n \in DOMAIN runs' : Proper(runs'[n], transfers')
    PROVE  SettledMeansPaid'
BY DEF SettledMeansPaid, Naming, Proper, Settled

\* What wallets paid stays.
LEMMA ProperStays ==
    ASSUME NEW run, NEW ts, Proper(run, ts), NEW us, ts \subseteq us PROVE Proper(run, us)
BY DEF Proper

\* persistWebRun: asked at once, the next round is free, and a run is added.
LEMMA PersistAppends ==
    ASSUME runs \in Seq(Runs), NEW q, NEW run, Persist(NextRound(q), run)
    PROVE  runs' = Append(runs, run)
<1>1. DOMAIN runs = 1..Len(runs) /\ Len(runs) \in Nat
  OBVIOUS
<1>2. NextRound(q) \notin DOMAIN runs
  BY <1>1 DEF NextRound
<1> QED BY <1>2 DEF Persist

LEMMA Appended ==
    ASSUME NEW rs \in Seq(Runs), NEW run \in Runs
    PROVE  /\ Append(rs, run) \in Seq(Runs)
           /\ DOMAIN Append(rs, run) = (DOMAIN rs) \cup {Len(rs) + 1}
           /\ Len(rs) + 1 \notin DOMAIN rs
           /\ \A n \in DOMAIN rs : Append(rs, run)[n] = rs[n]
           /\ Append(rs, run)[Len(rs) + 1] = run
<1>1. Len(rs) \in Nat /\ DOMAIN rs = 1..Len(rs)
  OBVIOUS
<1>2. /\ Append(rs, run) \in Seq(Runs)
      /\ Len(Append(rs, run)) = Len(rs) + 1
      /\ \A n \in 1..Len(rs) : Append(rs, run)[n] = rs[n]
      /\ Append(rs, run)[Len(rs) + 1] = run
  BY AppendProperties
<1>3. DOMAIN Append(rs, run) = 1..(Len(rs) + 1)
  BY <1>2
<1> QED BY <1>1, <1>2, <1>3

\* A run that is added names at most one more payment.
LEMMA NamingAppended ==
    ASSUME NEW rs \in Seq(Runs), NEW run \in Runs, NEW r \in Refs
    PROVE  /\ Cardinality(Naming(rs, r)) \in Nat
           /\ Cardinality(Naming(Append(rs, run), r))
                 = Cardinality(Naming(rs, r)) + (IF Names(run, r) THEN 1 ELSE 0)
<1>1. IsFiniteSet(Naming(rs, r))
  <2>1. Naming(rs, r) \in SUBSET (1..Len(rs)) /\ Len(rs) \in Nat
    BY DEF Naming
  <2>2. IsFiniteSet(1..Len(rs))
    BY <2>1, FS_Interval
  <2> QED BY <2>1, <2>2, FS_Subset
<1>2. CASE Names(run, r)
  <2>1. Naming(Append(rs, run), r) = Naming(rs, r) \cup {Len(rs) + 1}
    BY <1>2, Appended DEF Naming, Names
  <2>2. Len(rs) + 1 \notin Naming(rs, r)
    BY Appended DEF Naming
  <2> QED BY <1>1, <1>2, <2>1, <2>2, FS_AddElement, FS_CardinalityType
<1>3. CASE ~Names(run, r)
  <2>1. Naming(Append(rs, run), r) = Naming(rs, r)
    BY <1>3, Appended DEF Naming, Names
  <2> QED BY <1>1, <1>3, <2>1, FS_CardinalityType
<1> QED BY <1>2, <1>3

\* Recorded(q): request q has its run.
Recorded(q) == \E n \in DOMAIN runs : runs[n].by = q

\* A run is added: the ledger stays right when the payment it names was counted, and
\* when those that are answered now are those that were and the one it is of.
LEMMA RunAdded ==
    ASSUME TypeOK, Ledger, NEW run \in Runs, runs' = Append(runs, run),
           paid' \in [Refs -> Nat],
           \A r \in Refs : paid'[r] >= paid[r] + (IF Names(run, r) THEN 1 ELSE 0),
           transfers \subseteq transfers', Proper(run, transfers'),
           \A q \in Requests : pc'[q] = "answered" => pc[q] = "answered" \/ run.by = q
    PROVE  Ledger' /\ runs' \in Seq(Runs)
<1>1. runs \in Seq(Runs) /\ paid \in [Refs -> Nat]
  BY DEF TypeOK
<1>2. ASSUME NEW r \in Refs PROVE Cardinality(Naming(runs', r)) <= paid'[r]
  <2>1. Cardinality(Naming(runs, r)) <= paid[r]
    BY PaidIs DEF Ledger
  <2>2. /\ Cardinality(Naming(runs, r)) \in Nat
        /\ Cardinality(Naming(runs', r))
              = Cardinality(Naming(runs, r)) + (IF Names(run, r) THEN 1 ELSE 0)
    BY <1>1, NamingAppended
  <2>3. paid'[r] >= paid[r] + (IF Names(run, r) THEN 1 ELSE 0) /\ paid'[r] \in Nat /\ paid[r] \in Nat
    BY <1>1
  <2> QED BY <2>1, <2>2, <2>3
<1>3. ASSUME NEW n \in DOMAIN runs' PROVE Proper(runs'[n], transfers')
  <2>1. CASE n \in DOMAIN runs
    <3>1. Proper(runs[n], transfers) /\ runs'[n] = runs[n]
      BY <1>1, <2>1, PaidIs, Appended DEF Ledger
    <3> QED BY <3>1, ProperStays
  <2>2. CASE runs'[n] = run
    BY <2>2
  <2> QED BY <1>1, <2>1, <2>2, Appended
<1>4. EveryAnswerRecorded'
  <2> SUFFICES ASSUME NEW q \in Requests, pc'[q] = "answered"
               PROVE  \E n \in DOMAIN runs' : runs'[n].by = q
    BY DEF EveryAnswerRecorded
  <2>1. CASE pc[q] = "answered"
    BY <1>1, <2>1, Appended DEF Ledger, EveryAnswerRecorded
  <2>2. CASE run.by = q
    BY <1>1, <2>2, Appended
  <2> QED BY <2>1, <2>2
<1> QED BY <1>1, <1>2, <1>3, <1>4, PaidAfter, Appended DEF Ledger

\* A failed settlement's run names no payment.
LEMMA RecordType ==
    ASSUME TypeOK, NEW q \in Requests, NEW status \in {"settled", "failed"},
           NEW r \in Refs \cup {None}
    PROVE  /\ Record(q, status, r) \in Runs
           /\ Record(q, status, r).by = q /\ Record(q, status, r).ref = r
<1>1. now \in Refs
  BY DEF TypeOK, Refs
<1>2. Amount[q] \in Nat
  BY ProxyAssumption
<1> QED BY <1>1, <1>2 DEF Record, Runs
-----------------------------------------------------------------------------
(* What a step of a request does to the ledger and to the request. *)

USE DEF wallets

\* The request gives up, with its answer.
GivesUp(q) == /\ pc' = [pc EXCEPT ![q] = "answered"]
              /\ runs' = Append(runs, Record(q, "failed", None))
              /\ UNCHANGED <<mode, arbiterError>>

\* The arbiter rail gives way to the direct one.
FallsBack(q) == /\ mode[q] = "arbiter"
                /\ mode' = [mode EXCEPT ![q] = "direct"]
                /\ arbiterError' = [arbiterError EXCEPT ![q] = TRUE]
                /\ pc' = [pc EXCEPT ![q] = "binding"]
                /\ UNCHANGED runs

LEMMA FailCases ==
    ASSUME TypeOK, NEW q \in Requests, Fail(q) PROVE FallsBack(q) \/ GivesUp(q)
<1>1. CASE mode[q] = "arbiter"
  BY <1>1 DEF Fail, FallsBack
<1>2. CASE mode[q] # "arbiter"
  <2>1. Answer(q, "failed", None)
    BY <1>2 DEF Fail
  <2> QED BY <2>1, PersistAppends DEF Answer, GivesUp, TypeOK
<1> QED BY <1>1, <1>2

\* A fall back or an answer that gives up keeps the ledger, whatever lands with it.
LEMMA FailKeepsLedger ==
    ASSUME TypeOK, Ledger, NEW q \in Requests, Fail(q),
           paid' \in [Refs -> Nat], \A r \in Refs : paid'[r] >= paid[r],
           UNCHANGED transfers
    PROVE  Ledger' /\ runs' \in Seq(Runs)
<1>1. CASE FallsBack(q)
  <2>1. SettledMeansPaid'
    <3> SUFFICES ASSUME NEW r \in Refs PROVE Cardinality(Naming(runs, r)) <= paid'[r]
      BY <1>1, PaidIs, PaidAfter DEF FallsBack, Ledger
    <3>1. Cardinality(Naming(runs, r)) <= paid[r]
      BY PaidIs DEF Ledger
    <3>2. Cardinality(Naming(runs, r)) \in Nat
      <4>1. Naming(runs, r) \in SUBSET (1..Len(runs)) /\ Len(runs) \in Nat
        BY DEF Naming, TypeOK
      <4>2. IsFiniteSet(1..Len(runs))
        BY <4>1, FS_Interval
      <4> QED BY <4>1, <4>2, FS_Subset, FS_CardinalityType
    <3>3. paid[r] \in Nat /\ paid'[r] \in Nat /\ paid'[r] >= paid[r]
      BY DEF TypeOK
    <3> QED BY <3>1, <3>2, <3>3
  <2>2. EveryAnswerRecorded'
    BY <1>1 DEF FallsBack, Ledger, EveryAnswerRecorded, TypeOK
  <2> QED BY <1>1, <2>1, <2>2 DEF FallsBack, Ledger, TypeOK
<1>2. CASE GivesUp(q)
  <2> DEFINE run == Record(q, "failed", None)
  <2>1. run \in Runs /\ run.by = q /\ run.ref = None
    BY RecordType
  <2>2. \A r \in Refs : paid'[r] >= paid[r] + (IF Names(run, r) THEN 1 ELSE 0)
    <3> SUFFICES ASSUME NEW r \in Refs PROVE paid'[r] >= paid[r] + 0 /\ ~Names(run, r)
      OBVIOUS
    <3> QED BY <2>1, ProxyAssumption DEF TypeOK, Names
  <2>3. \A p \in Requests : pc'[p] = "answered" => pc[p] = "answered" \/ run.by = p
    BY <1>2, <2>1 DEF GivesUp, TypeOK
  <2>4. runs' = Append(runs, run)
    BY <1>2 DEF GivesUp
  <2>5. Proper(run, transfers')
    BY DEF Proper, Settled, Record
  <2> HIDE DEF run
  <2> QED BY <2>1, <2>2, <2>3, <2>4, <2>5, RunAdded
<1> QED BY <1>1, <1>2, FailCases
-----------------------------------------------------------------------------
(* Types. *)

LEMMA FailTypes ==
    ASSUME TypeOK, NEW q \in Requests, Fail(q)
    PROVE  /\ (pc \in [Requests -> {"new", "rejected", "binding", "opening", "releasing",
                                    "answered", "lost"}])'
           /\ (mode \in [Requests -> {"arbiter", "direct", None}])'
           /\ (arbiterError \in [Requests -> BOOLEAN])'
BY FailCases DEF FallsBack, GivesUp, TypeOK

LEMMA LedgerStands ==
    ASSUME Ledger, UNCHANGED <<runs, paid, transfers>>,
           \A q \in Requests : pc'[q] = "answered" => pc[q] = "answered"
    PROVE  Ledger'
BY DEF Ledger, SettledMeansPaid, EveryAnswerRecorded

LEMMA StartKeeps ==
    ASSUME IInv, NEW q \in Requests, Start(q) PROVE TypeOK' /\ Ledger'
<1>1. TypeOK'
  <2>1. UNCHANGED <<now, ref, arbiterError, runs, opened, paid, transfers>>
    BY DEF Start, rail
  <2>2. mode' \in [Requests -> {"arbiter", "direct", None}]
    BY DEF IInv, TypeOK, Start
  <2>3. good' \in [Requests -> BOOLEAN]
    <3>1. good \in [Requests -> BOOLEAN]
      BY DEF IInv, TypeOK
    <3>2. good' = good \/ \E b \in BOOLEAN : good' = [good EXCEPT ![q] = b]
      BY DEF Start
    <3> QED BY <3>1, <3>2
  <2>4. pc' \in [Requests -> {"new", "rejected", "binding", "opening", "releasing",
                              "answered", "lost"}]
    BY DEF IInv, TypeOK, Start
  <2> QED BY <2>1, <2>2, <2>3, <2>4 DEF IInv, TypeOK
<1>2. \A p \in Requests : pc'[p] = "answered" => pc[p] = "answered"
  BY DEF IInv, TypeOK, Start
<1> QED BY <1>1, <1>2, LedgerStands DEF Start, IInv

LEMMA BindKeeps ==
    ASSUME IInv, NEW q \in Requests, Bind(q) PROVE TypeOK' /\ Ledger'
<1>1. /\ ref' \in [Requests -> Refs \cup {None}]
      /\ UNCHANGED <<now, good, opened, paid, transfers>>
  BY DEF IInv, TypeOK, Bind, rail, Refs
<1>2. CASE Fail(q)
  <2>1. paid' \in [Refs -> Nat] /\ \A r \in Refs : paid'[r] >= paid[r]
    BY <1>1 DEF IInv, TypeOK
  <2>2. Ledger' /\ runs' \in Seq(Runs)
    BY <1>1, <1>2, <2>1, FailKeepsLedger DEF IInv
  <2> QED BY <1>1, <1>2, <2>2, FailTypes DEF IInv, TypeOK
<1>3. CASE pc' = [pc EXCEPT ![q] = "opening"] /\ UNCHANGED <<mode, arbiterError, runs>>
  <2>1. TypeOK'
    BY <1>1, <1>3 DEF IInv, TypeOK
  <2>2. \A p \in Requests : pc'[p] = "answered" => pc[p] = "answered"
    BY <1>3 DEF IInv, TypeOK
  <2> QED BY <1>1, <1>3, <2>1, <2>2, LedgerStands DEF IInv
<1> QED BY <1>2, <1>3 DEF Bind

LEMMA OpenKeeps ==
    ASSUME IInv, NEW q \in Requests, Open(q) PROVE TypeOK' /\ Ledger'
<1>1. /\ opened' \in [Requests -> Nat]
      /\ UNCHANGED <<now, ref, good, paid, transfers>>
  BY DEF IInv, TypeOK, Open, Rail!LockWith
<1>2. CASE Fail(q)
  <2>1. paid' \in [Refs -> Nat] /\ \A r \in Refs : paid'[r] >= paid[r]
    BY <1>1 DEF IInv, TypeOK
  <2>2. Ledger' /\ runs' \in Seq(Runs)
    BY <1>1, <1>2, <2>1, FailKeepsLedger DEF IInv
  <2> QED BY <1>1, <1>2, <2>2, FailTypes DEF IInv, TypeOK
<1>3. CASE pc' = [pc EXCEPT ![q] = "releasing"] /\ UNCHANGED <<mode, arbiterError, runs>>
  <2>1. TypeOK'
    BY <1>1, <1>3 DEF IInv, TypeOK
  <2>2. \A p \in Requests : pc'[p] = "answered" => pc[p] = "answered"
    BY <1>3 DEF IInv, TypeOK
  <2> QED BY <1>1, <1>3, <2>1, <2>2, LedgerStands DEF IInv
<1> QED BY <1>2, <1>3 DEF Open

LEMMA ReleaseKeeps ==
    ASSUME IInv, NEW q \in Requests, Release(q) PROVE TypeOK' /\ Ledger'
<1>1. ref[q] \in Refs
  BY DEF Release, IInv, Deposits, Bound
<1>2. /\ paid' \in [Refs -> Nat]
      /\ paid'[ref[q]] = paid[ref[q]] + 1
      /\ \A r \in Refs : paid'[r] >= paid[r]
      /\ UNCHANGED <<now, ref, good, opened, transfers>>
  BY <1>1 DEF IInv, TypeOK, Release, Rail!Pay
<1>3. CASE Fail(q)
  <2>1. Ledger' /\ runs' \in Seq(Runs)
    BY <1>2, <1>3, FailKeepsLedger DEF IInv
  <2> QED BY <1>2, <1>3, <2>1, FailTypes DEF IInv, TypeOK
<1>4. CASE Answer(q, "settled", ref[q])
  <2> DEFINE run == Record(q, "settled", ref[q])
  <2>1. run \in Runs /\ run.by = q /\ run.ref = ref[q]
    BY <1>1, RecordType DEF IInv
  <2>2. runs' = Append(runs, run)
    BY <1>4, PersistAppends DEF Answer, IInv, TypeOK
  <2>3. /\ pc' = [pc EXCEPT ![q] = "answered"]
        /\ UNCHANGED <<mode, arbiterError>>
    BY <1>4 DEF Answer
  <2> HIDE DEF run
  <2>4. \A r \in Refs : paid'[r] >= paid[r] + (IF Names(run, r) THEN 1 ELSE 0)
    BY <1>2, <2>1 DEF IInv, TypeOK, Names
  <2>5. \A p \in Requests : pc'[p] = "answered" => pc[p] = "answered" \/ run.by = p
    BY <2>1, <2>3 DEF IInv, TypeOK
  <2>6. Proper(run, transfers')
    <3>1. run.by # None
      BY <2>1, ProxyAssumption
    <3> QED BY <1>1, <2>1, <3>1 DEF Proper
  <2>7. Ledger' /\ runs' \in Seq(Runs)
    BY <1>2, <2>1, <2>2, <2>4, <2>5, <2>6, RunAdded DEF IInv
  <2> QED BY <1>2, <2>3, <2>7 DEF IInv, TypeOK
<1> QED BY <1>3, <1>4 DEF Release

LEMMA ThrowKeeps ==
    ASSUME IInv, NEW q \in Requests, Throw(q) PROVE TypeOK' /\ Ledger'
<1>1. UNCHANGED <<now, ref, good, opened, paid, transfers>> /\ Fail(q)
  BY DEF Throw, rail
<1>2. paid' \in [Refs -> Nat] /\ \A r \in Refs : paid'[r] >= paid[r]
  BY <1>1 DEF IInv, TypeOK
<1>3. Ledger' /\ runs' \in Seq(Runs)
  BY <1>1, <1>2, FailKeepsLedger DEF IInv
<1> QED BY <1>1, <1>3, FailTypes DEF IInv, TypeOK

\* pay-verify adds a run that names a transfer, and is of no settle request.
LEMMA PayVerifyKeeps == ASSUME IInv, PayVerify PROVE TypeOK' /\ Ledger'
<1>1. PICK r \in Refs, a \in WalletAmounts :
          /\ Transferred(r, a)
          /\ Persist(NextRound(None),
                     [by |-> None, status |-> "settled", ref |-> r, amount |-> a,
                      updatedAt |-> now])
  BY DEF PayVerify
<1> DEFINE run == [by |-> None, status |-> "settled", ref |-> r, amount |-> a,
                   updatedAt |-> now]
<1>2. run \in Runs /\ run.by = None /\ run.ref = r /\ run.amount = a
  BY ProxyAssumption DEF Runs, IInv, TypeOK, Refs
<1>3. runs' = Append(runs, run)
  BY <1>1, PersistAppends DEF IInv, TypeOK
<1>4. UNCHANGED <<now, pc, mode, ref, good, arbiterError, opened, paid, transfers>>
  BY DEF PayVerify, rail, requests
<1> HIDE DEF run
<1>5. \A p \in Refs : paid'[p] >= paid[p] + (IF Names(run, p) THEN 1 ELSE 0)
  <2> SUFFICES ASSUME NEW p \in Refs PROVE paid'[p] >= paid[p] + 0 /\ ~Names(run, p)
    OBVIOUS
  <2> QED BY <1>2, <1>4 DEF IInv, TypeOK, Names
<1>6. paid' \in [Refs -> Nat]
  BY <1>4 DEF IInv, TypeOK
<1>7. Proper(run, transfers')
  BY <1>1, <1>2, <1>4 DEF Proper, Transferred
<1>8. Ledger' /\ runs' \in Seq(Runs)
  BY <1>2, <1>3, <1>4, <1>5, <1>6, <1>7, RunAdded DEF IInv
<1> QED BY <1>4, <1>8 DEF IInv, TypeOK

\* A wallet pays: there is one transfer more to be named.
LEMMA WalletPaysKeeps == ASSUME IInv, WalletPays PROVE TypeOK' /\ Ledger'
<1>1. PICK r \in 0..now, a \in WalletAmounts :
          transfers' = transfers \cup {[ref |-> r, amount |-> a]}
  BY DEF WalletPays
<1>2. UNCHANGED <<now, pc, mode, ref, good, arbiterError, runs, opened, paid>>
  BY DEF WalletPays, rail, requests
<1>3. TypeOK'
  <2>1. r \in Refs /\ a \in Nat
    BY ProxyAssumption DEF IInv, TypeOK, Refs
  <2>2. transfers' \in SUBSET [ref : Refs, amount : Nat]
    BY <1>1, <2>1 DEF IInv, TypeOK
  <2> QED BY <1>2, <2>2 DEF IInv, TypeOK
<1>4. SettledMeansPaid'
  <2>1. ASSUME NEW n \in DOMAIN runs PROVE Proper(runs[n], transfers')
    BY <1>1, PaidIs, ProperStays DEF IInv, Ledger
  <2>2. \A p \in Refs : Cardinality(Naming(runs, p)) <= paid[p]
    BY PaidIs DEF IInv, Ledger
  <2> QED BY <1>2, <2>1, <2>2, PaidAfter
<1>5. EveryAnswerRecorded'
  BY <1>2 DEF IInv, Ledger, EveryAnswerRecorded
<1> QED BY <1>3, <1>4, <1>5 DEF Ledger

\* grade-runs leaves what a run names as it is.
LEMMA GradeKeeps == ASSUME IInv, Grade PROVE TypeOK' /\ Ledger'
<1>1. PICK n \in DOMAIN runs : runs' = [runs EXCEPT ![n].updatedAt = now]
  BY DEF Grade
<1>2. UNCHANGED <<now, pc, mode, ref, good, arbiterError, opened, paid, transfers>>
  BY DEF Grade, rail, requests
<1>3. runs \in Seq(Runs) /\ now \in Refs
  BY DEF IInv, TypeOK, Refs
<1>4. runs[n] \in Runs
  BY <1>3, ElementOfSeq
<1>5. [runs[n] EXCEPT !.updatedAt = now] \in Runs
  BY <1>3, <1>4 DEF Runs
<1>6. runs' = [runs EXCEPT ![n] = [runs[n] EXCEPT !.updatedAt = now]]
  BY <1>1
<1>7. runs' \in Seq(Runs) /\ DOMAIN runs' = DOMAIN runs
  BY <1>3, <1>5, <1>6, ExceptSeq
<1>8. \A k \in DOMAIN runs : /\ runs'[k].ref = runs[k].ref /\ runs'[k].by = runs[k].by
                              /\ runs'[k].status = runs[k].status
                              /\ runs'[k].amount = runs[k].amount
  <2> SUFFICES ASSUME NEW k \in DOMAIN runs
               PROVE  /\ runs'[k].ref = runs[k].ref /\ runs'[k].by = runs[k].by
                      /\ runs'[k].status = runs[k].status
                      /\ runs'[k].amount = runs[k].amount
    OBVIOUS
  <2>1. CASE k = n
    BY <1>3, <1>4, <1>6, <2>1 DEF Runs
  <2>2. CASE k # n
    BY <1>3, <1>6, <2>2
  <2> QED BY <2>1, <2>2
<1>9. \A r \in Refs : Naming(runs', r) = Naming(runs, r)
  BY <1>7, <1>8 DEF Naming
<1>10. SettledMeansPaid'
  <2>1. ASSUME NEW k \in DOMAIN runs' PROVE Proper(runs'[k], transfers')
    <3>1. k \in DOMAIN runs /\ Proper(runs[k], transfers)
      BY <1>7, PaidIs DEF IInv, Ledger
    <3> QED BY <1>2, <1>8, <3>1 DEF Proper, Settled
  <2>2. \A r \in Refs : Cardinality(Naming(runs, r)) <= paid[r]
    BY PaidIs DEF IInv, Ledger
  <2> QED BY <1>2, <1>9, <2>1, <2>2, PaidAfter
<1>11. EveryAnswerRecorded'
  BY <1>2, <1>7, <1>8 DEF IInv, Ledger, EveryAnswerRecorded
<1> QED BY <1>2, <1>7, <1>10, <1>11 DEF IInv, TypeOK, Ledger

LEMMA OthersKeep ==
    ASSUME IInv, Crash \/ Tick \/ UNCHANGED vars PROVE TypeOK' /\ Ledger'
<1>1. CASE Crash
  <2>1. TypeOK'
    BY <1>1 DEF Crash, IInv, TypeOK, rail
  <2>2. \A p \in Requests : pc'[p] = "answered" => pc[p] = "answered"
    BY <1>1 DEF Crash, IInv, TypeOK
  <2> QED BY <1>1, <2>1, <2>2, LedgerStands DEF Crash, IInv
<1>2. CASE Tick
  <2>1. TypeOK'
    BY <1>2, ProxyAssumption DEF Tick, Rail!Tick, IInv, TypeOK, requests
  <2> QED BY <1>2, <2>1, LedgerStands DEF Tick, requests, IInv
<1>3. CASE UNCHANGED vars
  <2>1. TypeOK'
    BY <1>3 DEF vars, rail, requests, IInv, TypeOK
  <2> QED BY <1>3, <2>1, LedgerStands DEF vars, requests, IInv
<1> QED BY <1>1, <1>2, <1>3
-----------------------------------------------------------------------------
(* Deposits. *)

\* A step of request q leaves what is counted of the others alone.
LEMMA OnlyItsOwn ==
    ASSUME IInv, NEW q \in Requests, Step(q), NEW p \in Requests, p # q
    PROVE  /\ pc'[p] = pc[p] /\ mode'[p] = mode[p] /\ ref'[p] = ref[p] /\ good'[p] = good[p]
           /\ arbiterError'[p] = arbiterError[p] /\ opened'[p] = opened[p]
<1>1. Fail(q) => pc'[p] = pc[p] /\ mode'[p] = mode[p] /\ arbiterError'[p] = arbiterError[p]
  BY FailCases DEF FallsBack, GivesUp, IInv, TypeOK
<1>2. CASE Start(q)
  BY <1>2 DEF Start, IInv, TypeOK
<1>3. CASE Bind(q)
  BY <1>1, <1>3 DEF Bind, IInv, TypeOK
<1>4. CASE Open(q)
  BY <1>1, <1>4 DEF Open, IInv, TypeOK
<1>5. CASE Release(q)
  BY <1>1, <1>5 DEF Release, Answer, IInv, TypeOK
<1>6. CASE Throw(q)
  BY <1>1, <1>6 DEF Throw, IInv, TypeOK
<1> QED BY <1>2, <1>3, <1>4, <1>5, <1>6 DEF Step

\* What is counted of one request.
Counted(q) ==
    /\ pc[q] \in {"new", "rejected"} => opened[q] = 0 /\ ~arbiterError[q]
    /\ pc[q] \in {"binding", "opening"} => opened[q] <= IF arbiterError[q] THEN 1 ELSE 0
    /\ mode[q] = "arbiter" => ~arbiterError[q]
    /\ opened[q] <= IF arbiterError[q] THEN 2 ELSE 1
    /\ pc[q] = "opening" => good[q]
    /\ pc[q] \in {"opening", "releasing"} => ref[q] \in Refs

LEMMA DepositsOfEach == Deposits <=> \A q \in Requests : Counted(q)
BY DEF Deposits, DepositsCounted, OneDepositPerRail, OpeningIsGood, Bound, Counted

\* guard.release of a read without a verdict is refused, as a verifier is required.
LEMMA ReleasableIsGood ==
    ASSUME TypeOK, NEW q \in Requests, Releasable(q) PROVE good[q]
BY ProxyAssumption DEF TypeOK, Releasable, MayRelease, policy, PolicyFromEnv

LEMMA FailCounts ==
    ASSUME IInv, NEW q \in Requests, Fail(q), NEW d \in Nat, opened'[q] = d,
           d <= IF arbiterError[q] THEN 2 ELSE 1
    PROVE  Counted(q)'
<1>1. CASE FallsBack(q)
  <2>1. ~arbiterError[q]
    BY <1>1 DEF FallsBack, IInv, Deposits, DepositsCounted
  <2>2. pc'[q] = "binding" /\ mode'[q] = "direct" /\ arbiterError'[q] = TRUE
    BY <1>1 DEF FallsBack, IInv, TypeOK
  <2> QED BY <2>1, <2>2 DEF Counted
<1>2. CASE GivesUp(q)
  <2>1. pc'[q] = "answered" /\ mode'[q] = mode[q] /\ arbiterError'[q] = arbiterError[q]
    BY <1>2 DEF GivesUp, IInv, TypeOK
  <2> QED BY <2>1 DEF Counted, IInv, Deposits, DepositsCounted
<1> QED BY <1>1, <1>2, FailCases DEF IInv

LEMMA StepCounts == ASSUME IInv, NEW q \in Requests, Step(q) PROVE Counted(q)'
<1>1. opened[q] \in Nat /\ Counted(q)
  BY DepositsOfEach DEF IInv, TypeOK
<1>2. CASE Start(q)
  <2>1. /\ pc'[q] \in {"binding", "rejected"}
        /\ opened'[q] = opened[q] /\ arbiterError'[q] = arbiterError[q] /\ pc[q] = "new"
    BY <1>2 DEF Start, IInv, TypeOK
  <2> QED BY <1>1, <2>1 DEF Counted
<1>3. CASE Bind(q)
  <2>1. /\ pc[q] = "binding" /\ opened'[q] = opened[q] /\ good'[q] = good[q]
        /\ ref'[q] \in Refs
    BY <1>3 DEF Bind, IInv, TypeOK, Refs
  <2>2. CASE Fail(q)
    BY <1>1, <2>1, <2>2, FailCounts DEF Counted
  <2>3. CASE /\ Releasable(q) /\ pc' = [pc EXCEPT ![q] = "opening"]
             /\ UNCHANGED <<mode, arbiterError, runs>>
    <3>1. good[q] /\ pc'[q] = "opening"
      BY <2>3, ReleasableIsGood DEF IInv, TypeOK
    <3> QED BY <1>1, <2>1, <2>3, <3>1 DEF Counted
  <2> QED BY <1>3, <2>2, <2>3 DEF Bind
<1>4. CASE Open(q)
  <2>1. /\ pc[q] = "opening" /\ opened'[q] = opened[q] + 1
        /\ ref'[q] = ref[q]
    BY <1>4 DEF Open, IInv, TypeOK
  <2>2. opened[q] + 1 \in Nat /\ opened[q] + 1 <= IF arbiterError[q] THEN 2 ELSE 1
    BY <1>1, <2>1 DEF Counted
  <2>3. CASE Fail(q)
    BY <2>1, <2>2, <2>3, FailCounts
  <2>4. CASE pc' = [pc EXCEPT ![q] = "releasing"] /\ UNCHANGED <<mode, arbiterError, runs>>
    <3>1. pc'[q] = "releasing"
      BY <2>4 DEF IInv, TypeOK
    <3> QED BY <1>1, <2>1, <2>2, <2>4, <3>1 DEF Counted
  <2> QED BY <1>4, <2>3, <2>4 DEF Open
<1>5. CASE Release(q)
  <2>1. opened'[q] = opened[q]
    BY <1>5 DEF Release
  <2>2. CASE Fail(q)
    BY <1>1, <2>1, <2>2, FailCounts DEF Counted
  <2>3. CASE Answer(q, "settled", ref[q])
    <3>1. /\ pc'[q] = "answered" /\ mode'[q] = mode[q]
          /\ arbiterError'[q] = arbiterError[q]
      BY <2>3 DEF Answer, IInv, TypeOK
    <3> QED BY <1>1, <2>1, <3>1 DEF Counted
  <2> QED BY <1>5, <2>2, <2>3 DEF Release
<1>6. CASE Throw(q)
  <2>1. opened'[q] = opened[q] /\ Fail(q)
    BY <1>6 DEF Throw
  <2> QED BY <1>1, <2>1, FailCounts DEF Counted
<1> QED BY <1>2, <1>3, <1>4, <1>5, <1>6 DEF Step

LEMMA DepositsKept == ASSUME IInv, [Next]_vars PROVE Deposits'
<1>1. ASSUME NEW q \in Requests, Step(q) PROVE Deposits'
  <2>1. \A p \in Requests : Counted(p)
    BY DepositsOfEach DEF IInv
  <2>2. ASSUME NEW p \in Requests PROVE Counted(p)'
    <3>1. CASE p = q
      BY <1>1, <3>1, StepCounts
    <3>2. CASE p # q
      BY <1>1, <2>1, <3>2, OnlyItsOwn DEF Counted
    <3> QED BY <3>1, <3>2
  <2> QED BY <2>2
          DEF Deposits, DepositsCounted, OneDepositPerRail, OpeningIsGood, Bound, Counted
<1>2. CASE WalletPays \/ PayVerify \/ Grade \/ Tick \/ UNCHANGED vars
  <2>1. UNCHANGED <<pc, mode, ref, good, arbiterError, opened>>
    BY <1>2 DEF WalletPays, PayVerify, Grade, Tick, vars, requests
  <2> QED BY <2>1 DEF IInv, Deposits, DepositsCounted, OneDepositPerRail, OpeningIsGood, Bound
<1>3. CASE Crash
  <2>1. /\ \A q \in Requests : pc'[q] = pc[q] \/ pc'[q] = "lost"
        /\ UNCHANGED <<mode, ref, good, arbiterError, opened>>
    BY <1>3 DEF Crash, IInv, TypeOK
  <2> QED BY <2>1 DEF IInv, Deposits, DepositsCounted, OneDepositPerRail, OpeningIsGood, Bound
<1> QED BY <1>1, <1>2, <1>3 DEF Next
-----------------------------------------------------------------------------
LEMMA InitIInv == Init => IInv
<1> SUFFICES ASSUME Init PROVE IInv
  OBVIOUS
<1>1. now = 0
  BY DEF Init, Rail!Init
<1>2. runs \in Seq(Runs) /\ runs = <<>> /\ DOMAIN runs = {}
  BY EmptySeq DEF Init
<1>3. TypeOK
  BY <1>1, <1>2, ProxyAssumption DEF Init, TypeOK
<1>4. SettledMeansPaid
  <2>1. ASSUME NEW r \in Refs PROVE Cardinality(Naming(runs, r)) <= paid[r]
    <3>1. Naming(runs, r) = {}
      BY <1>2 DEF Naming
    <3>2. paid[r] = 0
      BY DEF Init
    <3>3. Cardinality({}) = 0
      BY FS_EmptySet
    <3> QED BY <3>1, <3>2, <3>3
  <2> QED BY <1>2, <2>1, PaidIs
<1>5. EveryAnswerRecorded /\ Deposits
  BY DEF Init, EveryAnswerRecorded, Deposits, DepositsCounted, OneDepositPerRail,
         OpeningIsGood, Bound
<1> QED BY <1>3, <1>4, <1>5 DEF IInv, Ledger

LEMMA Kept == IInv /\ [Next]_vars => IInv'
BY StartKeeps, BindKeeps, OpenKeeps, ReleaseKeeps, ThrowKeeps, WalletPaysKeeps, PayVerifyKeeps,
   GradeKeeps, OthersKeep, DepositsKept DEF Next, Step, IInv

LEMMA Inductive == Spec => []IInv
BY InitIInv, Kept, PTL DEF Spec
-----------------------------------------------------------------------------
\* Requests, their references and the runs of the ledger keep their types.
THEOREM ProxyTypeCorrect == Spec => []TypeOK
<1>1. IInv => TypeOK
  BY DEF IInv
<1> QED BY Inductive, <1>1, PTL

\* proxy.ts:378-379: however many requests share a millisecond and with it a reference,
\* a reference is named by no more runs of settle requests than releases were made of it,
\* and a run of pay-verify (proxy.ts:533-545) names a transfer that a wallet made.
THEOREM RunsArePaid == Spec => []SettledMeansPaid
<1>1. IInv => SettledMeansPaid
  BY DEF IInv, Ledger
<1> QED BY Inductive, <1>1, PTL

\* proxy.ts:261, the round asked again when the run is written: no run takes the round
\* of another, and every answer leaves its run.
THEOREM AnswersRecorded == Spec => []EveryAnswerRecorded
<1>1. IInv => EveryAnswerRecorded
  BY DEF IInv, Ledger
<1> QED BY Inductive, <1>1, PTL

\* The fallback of a settle request costs one deposit more at the most, wherever the
\* arbiter rail fails it.
THEOREM DepositsBounded == Spec => []OneDepositPerRail
<1>1. IInv => OneDepositPerRail
  BY DEF IInv, Deposits
<1> QED BY Inductive, <1>1, PTL

\* The policy is asked for the release before money is locked.
THEOREM LocksReleasable == Spec => LockedOnlyReleasable
<1> DEFINE A == \A q \in Requests : opened'[q] # opened[q] => good[q]
<1>1. ASSUME IInv, Next, NEW q \in Requests, opened'[q] # opened[q] PROVE good[q]
  <2>1. PICK p \in Requests : Step(p)
    BY <1>1 DEF Next, WalletPays, PayVerify, Grade, Crash, Tick
  <2>2. p = q
    BY <1>1, <2>1, OnlyItsOwn
  <2>3. Open(q)
    BY <1>1, <2>1, <2>2 DEF Step, Start, Bind, Release, Throw
  <2> QED BY <1>1, <2>3 DEF Open, IInv, Deposits, OpeningIsGood
<1>2. IInv /\ [Next]_vars => [A]_vars
  BY <1>1
<1> QED BY Inductive, <1>2, PTL DEF Spec, LockedOnlyReleasable
=============================================================================
