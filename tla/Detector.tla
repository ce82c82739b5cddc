------------------------------ MODULE Detector ------------------------------
(***************************************************************************)
(* How the exploit detector (coral-agents/exploit-detector) watches the    *)
(* program: a poll lists the latest transactions, newest first, fetches    *)
(* each one it has not seen, and raises the alarm at the first that looks  *)
(* like an exploit.  While an emergency is handled nothing is polled.      *)
(***************************************************************************)
EXTENDS Integers, Sequences

CONSTANTS Transactions, \* those the chain may see, as the logs show them
          Limit,     \* transactions a poll lists: 10 in the code
          MaxTx,     \* bound on the chain's length
          MaxFailures, \* bound on the RPC's failures
          Simulates  \* SIMULATE_EXPLOIT: raise one alarm without a transaction

ASSUME DetectorAssumption ==
    /\ Transactions \subseteq [success : BOOLEAN, overflow : BOOLEAN,
                               withdraw : BOOLEAN, checked : BOOLEAN]
    /\ Limit \in Nat \ {0} /\ MaxTx \in Nat
    /\ MaxFailures \in Nat /\ Simulates \in BOOLEAN

VARIABLES chain,     \* the program's transactions, a sequence
          watch,     \* "resting", "polling" or in an "emergency"
          sigs,      \* what is left of the list, as positions in the chain
          seenSigs,
          simulated, \* simulatedAt != null
          failures,  \* RPC calls that failed so far
          raised,    \* history: what the alarm was raised for, in order
          missed     \* history: transactions whose fetch failed

watchVars == <<chain, watch, sigs, seenSigs, simulated, failures, raised, missed>>

\* classifyTransaction: a failed transaction is never an exploit; one that
\* succeeded is if it logs an overflow or withdraws with no balance check.
Classify(tx) ==
    IF ~tx.success THEN "unknown"
    ELSE IF tx.overflow \/ (tx.withdraw /\ ~tx.checked) THEN "exploit_attempt"
    ELSE "normal"

IsExploit(i) == Classify(chain[i]) = "exploit_attempt"

WatchInit ==
    /\ chain = <<>> /\ watch = "resting" /\ sigs = <<>>
    /\ seenSigs = {} /\ simulated = FALSE /\ failures = 0
    /\ raised = <<>> /\ missed = {}

Land == /\ Len(chain) < MaxTx
        /\ \E tx \in Transactions : chain' = Append(chain, tx)
        /\ UNCHANGED <<watch, sigs, seenSigs, simulated, failures, raised, missed>>

\* Mutant: the newest transaction is left out.
LatestButNewest == LET n == Len(chain)
                   IN  [k \in 1..(IF n <= Limit THEN n - 1 ELSE Limit) |-> n - k]

\* getSignaturesForAddress with a limit: the latest ones, newest first.
Latest == LET n == Len(chain)
          IN  [k \in 1..(IF n < Limit THEN n ELSE Limit) |-> n + 1 - k]

\* An RPC call fails.
Fails == failures < MaxFailures /\ failures' = failures + 1

\* The list is fetched; when that fails the poll has nothing to look at.
Poll == /\ watch = "resting"
        /\ watch' = "polling"
        /\ (sigs' = Latest /\ UNCHANGED failures) \/ (sigs' = <<>> /\ Fails)
        /\ UNCHANGED <<chain, seenSigs, simulated, raised, missed>>

\* Nothing was detected: simulate an exploit, once, or rest until the next poll.
Rest == /\ watch = "polling" /\ sigs = <<>>
        /\ watch' = IF Simulates /\ ~simulated THEN "emergency" ELSE "resting"
        /\ simulated' = Simulates
        /\ UNCHANGED <<chain, sigs, seenSigs, failures, raised, missed>>

\* Mutant: only a transaction that raises the alarm is noted.
NoteNothing(i) == UNCHANGED seenSigs

\* A signature is noted before the transaction is fetched.
Note(i) == seenSigs' = seenSigs \cup {i}

\* The head of the list: skip it when seen; else note it, fetch it, classify it.
Examine ==
    /\ watch = "polling" /\ sigs # <<>>
    /\ LET i == Head(sigs) IN
         \/ /\ i \in seenSigs
            /\ sigs' = Tail(sigs) /\ UNCHANGED <<watch, seenSigs, failures, raised, missed>>
         \/ /\ i \notin seenSigs /\ Note(i)
            /\ \/ /\ IsExploit(i)        \* return: the rest stays unseen
                  /\ watch' = "emergency" /\ sigs' = <<>> /\ raised' = Append(raised, i)
                  /\ UNCHANGED <<failures, missed>>
               \/ /\ ~IsExploit(i)
                  /\ sigs' = Tail(sigs) /\ UNCHANGED <<watch, failures, raised, missed>>
               \/ /\ Fails               \* it is not found: continue; it throws: return
                  /\ sigs' \in {Tail(sigs), <<>>} /\ missed' = missed \cup {i}
                  /\ UNCHANGED <<watch, raised>>
    /\ UNCHANGED <<chain, simulated>>

\* The emergency round ends, well or not: inEmergency is reset on every path.
EndEmergency == /\ watch = "emergency"
                /\ watch' = "resting"
                /\ UNCHANGED <<chain, sigs, seenSigs, simulated, failures, raised, missed>>

WatchNext == Land \/ Poll \/ Rest \/ Examine \/ EndEmergency

\* The loop goes on; the fairness is the agent's own, the chain owes nothing.
WatchSpec == WatchInit /\ [][WatchNext]_watchVars
                       /\ WF_watchVars(Poll \/ Rest \/ Examine \/ EndEmergency)
-----------------------------------------------------------------------------
WatchTypeOK ==
    /\ chain \in Seq(Transactions)
    /\ watch \in {"resting", "polling", "emergency"}
    /\ sigs \in Seq(DOMAIN chain) /\ raised \in Seq(DOMAIN chain)
    /\ seenSigs \subseteq DOMAIN chain /\ missed \subseteq DOMAIN chain
    /\ simulated \in BOOLEAN /\ failures \in 0..MaxFailures

\* One alarm for one exploit: no emergency, and no deposit, is started twice for
\* the same transaction, nor for one that is not an exploit.
OneAlarmEach ==
    /\ \A i, j \in DOMAIN raised : raised[i] = raised[j] => i = j
    /\ \A i \in DOMAIN raised : IsExploit(raised[i])

\* exploit-detector index.ts:15, "For each new transaction, fetch logs and classify
\* the transaction": an exploit raises the alarm in the end, also when a poll returned
\* at another one before it, unless its fetch failed or a poll's length of later
\* transactions came in the meantime: those the detector never takes up again.
EveryExploitRaised ==
    \A i \in 1..MaxTx :
        (i \in DOMAIN chain /\ IsExploit(i))
            ~> \/ \E k \in DOMAIN raised : raised[k] = i
               \/ i \in missed
               \/ i <= Len(chain) - Limit
=============================================================================
