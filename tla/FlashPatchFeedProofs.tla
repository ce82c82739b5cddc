------------------------ MODULE FlashPatchFeedProofs ------------------------
(***************************************************************************)
(* What the FlashPatch feed shows of a session, for any agents,            *)
(* emergencies and polls, however answers and messages overlap.            *)
(***************************************************************************)
EXTENDS FlashPatchFeed, SequenceTheorems, WellFoundedInduction, TLAPS

\* The messages agents send.
Alert == "EXPLOIT_DETECTED"
Plain == {Alert, "AWARD", "DEPOSITED", "PATCH_DEPLOYED", "ARBITER_RELEASED"}
Message == [verb : Plain, round : Nat]
           \cup [verb : {"BID"}, round : Nat, by : Agents]
           \cup [verb : {"VERIFIED"}, round : Nat, verdict : {"pass", "fail"}]
           \cup [verb : {"THRESHOLD_STATUS"}, round : Nat, received : Nat]

\* A thread is opened by the alert of its emergency, its only one, and holds messages of
\* this emergency alone.
Opened(n) ==
    /\ Len(threads[n]) >= 1
    /\ \A i \in 1..Len(threads[n]) :
          threads[n][i].round = n /\ (threads[n][i].verb = Alert <=> i = 1)

\* An answer brings the threads up to some emergency, each up to some message.
Brought(k) ==
    /\ k \in Seq(Nat) /\ Len(k) <= Len(threads)
    /\ \A n \in 1..Len(k) : 1 <= k[n] /\ k[n] <= Len(threads[n])

IInv == /\ threads \in Seq(Seq(Message))
        /\ \A n \in 1..Len(threads) : Opened(n)
        /\ \A k \in answers : Brought(k)
        /\ Brought(shown)
-----------------------------------------------------------------------------
LEMMA InitIInv == Init => IInv
<1> SUFFICES ASSUME Init PROVE IInv
  OBVIOUS
<1>1. threads \in Seq(Seq(Message)) /\ shown \in Seq(Nat)
  BY EmptySeq DEF Init
<1>2. Len(threads) = 0 /\ Len(shown) = 0 /\ answers = {}
  BY DEF Init
<1> QED BY <1>1, <1>2 DEF IInv, Brought

\* A message in the thread of its emergency.
LEMMA SayKeeps ==
    ASSUME IInv, NEW n \in 1..Len(threads), NEW m \in Message,
           m.round = n, m.verb # Alert, Say(m), UNCHANGED <<answers, shown>>
    PROVE  IInv'
<1>1. threads[n] \in Seq(Message) /\ Len(threads[n]) \in Nat /\ Len(threads) \in Nat
  BY ElementOfSeq, LenProperties DEF IInv
<1>2. threads' = [threads EXCEPT ![n] = Append(@, m)]
  BY DEF Say
<1>3. Append(threads[n], m) \in Seq(Message)
  BY <1>1, AppendProperties
<1>4. /\ threads' \in Seq(Seq(Message)) /\ Len(threads') = Len(threads)
      /\ threads'[n] = Append(threads[n], m)
      /\ \A p \in 1..Len(threads) : p # n => threads'[p] = threads[p]
  BY <1>1, <1>2, <1>3, ExceptSeq DEF IInv
<1>5. /\ Len(threads'[n]) = Len(threads[n]) + 1
      /\ threads'[n][Len(threads[n]) + 1] = m
      /\ \A i \in 1..Len(threads[n]) : threads'[n][i] = threads[n][i]
  BY <1>1, <1>4, AppendProperties
<1>6. \A p \in 1..Len(threads') : Opened(p)'
  <2> SUFFICES ASSUME NEW p \in 1..Len(threads') PROVE Opened(p)'
    OBVIOUS
  <2>1. Opened(p)
    BY <1>4 DEF IInv
  <2>2. CASE p = n
    <3>1. \A i \in 1..Len(threads'[n]) : i \in 1..Len(threads[n]) \/ i = Len(threads[n]) + 1
      BY <1>1, <1>5
    <3> QED BY <2>1, <2>2, <1>1, <1>5, <3>1 DEF Opened
  <2>3. CASE p # n
    BY <2>1, <2>3, <1>4 DEF Opened
  <2> QED BY <2>2, <2>3
<1>7. ASSUME NEW k, Brought(k) PROVE Brought(k)'
  <2>1. ASSUME NEW p \in 1..Len(k) PROVE k[p] <= Len(threads'[p])
    <3>1. p \in 1..Len(threads) /\ k[p] \in Nat /\ k[p] <= Len(threads[p])
      BY <1>7, <1>1, ElementOfSeq DEF Brought
    <3>2. Len(threads'[p]) = IF p = n THEN Len(threads[p]) + 1 ELSE Len(threads[p])
      BY <1>4, <1>5, <3>1
    <3>3. Len(threads[p]) \in Nat
      BY <3>1, ElementOfSeq, LenProperties DEF IInv
    <3> QED BY <3>1, <3>2, <3>3
  <2> QED BY <1>4, <1>7, <2>1 DEF Brought
<1> QED BY <1>4, <1>6, <1>7 DEF IInv

\* An alert opens the next thread.
LEMMA AlertKeeps ==
    ASSUME IInv, UNCHANGED <<answers, shown>>,
           threads' = Append(threads, <<[verb |-> Alert, round |-> Present + 1]>>)
    PROVE  IInv'
<1> DEFINE m == [verb |-> Alert, round |-> Present + 1]
<1>1. Len(threads) \in Nat
  BY LenProperties DEF IInv
<1>2. m \in Message /\ <<m>> \in Seq(Message) /\ Len(<<m>>) = 1 /\ <<m>>[1] = m
  BY <1>1 DEF Message, Plain, Present
<1>3. /\ threads' \in Seq(Seq(Message)) /\ Len(threads') = Len(threads) + 1
      /\ threads'[Len(threads) + 1] = <<m>>
      /\ \A p \in 1..Len(threads) : threads'[p] = threads[p]
  <2> HIDE DEF m
  <2>1. threads' = Append(threads, <<m>>)
    BY DEF m
  <2> QED BY <1>2, <2>1, AppendProperties DEF IInv
<1>4. \A p \in 1..Len(threads') : Opened(p)'
  <2> SUFFICES ASSUME NEW p \in 1..Len(threads') PROVE Opened(p)'
    OBVIOUS
  <2>1. CASE p = Len(threads) + 1
    BY <1>1, <1>2, <1>3, <2>1 DEF Opened, Present
  <2>2. CASE p \in 1..Len(threads)
    BY <1>3, <2>2 DEF Opened, IInv
  <2> QED BY <1>1, <1>3, <2>1, <2>2
<1>5. ASSUME NEW k, Brought(k) PROVE Brought(k)'
  <2>1. ASSUME NEW p \in 1..Len(k) PROVE p \in 1..Len(threads)
    BY <1>5, <1>1 DEF Brought
  <2>2. Len(k) \in Nat
    BY <1>5, LenProperties DEF Brought
  <2> QED BY <1>1, <1>3, <1>5, <2>1, <2>2 DEF Brought
<1> QED BY <1>3, <1>4, <1>5 DEF IInv

\* All that there is, is an answer.
LEMMA MessagesBrought == ASSUME IInv PROVE Brought(Messages)
<1>1. Len(threads) \in Nat /\ DOMAIN threads = 1..Len(threads)
  BY LenProperties DEF IInv
<1>2. \A n \in 1..Len(threads) : Len(threads[n]) \in Nat
  BY ElementOfSeq, LenProperties DEF IInv
<1>3. Messages \in Seq(Nat) /\ Len(Messages) = Len(threads)
  BY <1>1, <1>2, IsASeq, LenProperties DEF Messages
<1>4. \A n \in 1..Len(threads) : Messages[n] = Len(threads[n])
  BY <1>1 DEF Messages
<1> QED BY <1>1, <1>2, <1>3, <1>4 DEF Brought, IInv, Opened

LEMMA NextIInv == ASSUME IInv, [Next]_vars PROVE IInv'
<1>1. CASE SessionGoesOn
  <2>1. UNCHANGED <<answers, shown>>
    BY <1>1 DEF SessionGoesOn
  <2>2. Present = Len(threads) /\ Len(threads) \in Nat
    BY LenProperties DEF Present, IInv
  <2>3. CASE DetectorSays
    <3>1. CASE threads' = Append(threads, <<[verb |-> "EXPLOIT_DETECTED", round |-> Present + 1]>>)
      BY <2>1, <3>1, AlertKeeps DEF Alert
    <3>2. ASSUME NEW v \in {"AWARD", "DEPOSITED", "ARBITER_RELEASED"}, Present > 0,
                 Say([verb |-> v, round |-> Present])
          PROVE  IInv'
      <4>1. [verb |-> v, round |-> Present] \in Message /\ v # Alert
        BY <2>2 DEF Message, Plain, Alert
      <4> QED BY <2>1, <2>2, <3>2, <4>1, SayKeeps
    <3> QED BY <2>3, <3>1, <3>2 DEF DetectorSays
  <2>4. CASE AgentsSay
    <3>1. PICK n \in 1..Present :
            \/ \E a \in Agents : Say([verb |-> "BID", round |-> n, by |-> a])
            \/ \E v \in {"pass", "fail"} : Say([verb |-> "VERIFIED", round |-> n, verdict |-> v])
            \/ Say([verb |-> "THRESHOLD_STATUS", round |-> n, received |-> Threshold])
            \/ Say([verb |-> "PATCH_DEPLOYED", round |-> n])
      BY <2>4 DEF AgentsSay
    <3>2. n \in Nat /\ n \in 1..Len(threads)
      BY <2>2
    <3>3. ASSUME NEW a \in Agents, Say([verb |-> "BID", round |-> n, by |-> a]) PROVE IInv'
      <4>1. [verb |-> "BID", round |-> n, by |-> a] \in Message
        BY <3>2 DEF Message
      <4> QED BY <2>1, <3>2, <3>3, <4>1, SayKeeps DEF Alert
    <3>4. ASSUME NEW v \in {"pass", "fail"},
                 Say([verb |-> "VERIFIED", round |-> n, verdict |-> v])
          PROVE  IInv'
      <4>1. [verb |-> "VERIFIED", round |-> n, verdict |-> v] \in Message
        BY <3>2 DEF Message
      <4> QED BY <2>1, <3>2, <3>4, <4>1, SayKeeps DEF Alert
    <3>5. CASE Say([verb |-> "THRESHOLD_STATUS", round |-> n, received |-> Threshold])
      <4>1. [verb |-> "THRESHOLD_STATUS", round |-> n, received |-> Threshold] \in Message
        BY <3>2, FlashPatchFeedAssumption DEF Message
      <4> QED BY <2>1, <3>2, <3>5, <4>1, SayKeeps DEF Alert
    <3>6. CASE Say([verb |-> "PATCH_DEPLOYED", round |-> n])
      <4>1. [verb |-> "PATCH_DEPLOYED", round |-> n] \in Message
        BY <3>2 DEF Message, Plain
      <4> QED BY <2>1, <3>2, <3>6, <4>1, SayKeeps DEF Alert
    <3> QED BY <3>1, <3>3, <3>4, <3>5, <3>6
  <2> QED BY <1>1, <2>3, <2>4 DEF SessionGoesOn
<1>2. ASSUME UNCHANGED threads PROVE \A k : Brought(k) => Brought(k)'
  BY <1>2 DEF Brought
<1>3. CASE Restart
  <2>1. Brought(<<>>)
    <3>1. <<>> \in Seq(Nat) /\ Len(<<>>) = 0 /\ Len(threads) \in Nat
      BY EmptySeq, LenProperties DEF IInv
    <3> QED BY <3>1 DEF Brought
  <2> QED BY <1>2, <1>3, <2>1 DEF Restart, IInv, Opened
<1>4. CASE Fetch
  BY <1>2, <1>4, MessagesBrought DEF Fetch, IInv, Opened
<1>5. ASSUME NEW k \in answers, Handle(k) \/ Fails(k) PROVE IInv'
  <2>1. Brought(shown)'
    BY <1>2, <1>5 DEF Handle, Fails, IInv
  <2> QED BY <1>2, <1>5, <2>1 DEF Handle, Fails, IInv, Opened
<1>6. CASE UNCHANGED vars
  BY <1>2, <1>6 DEF vars, IInv, Opened
<1> QED BY <1>1, <1>3, <1>4, <1>5, <1>6 DEF Next

LEMMA Inductive == Spec => []IInv
<1>1. IInv /\ [Next]_vars => IInv'
  BY NextIInv
<1> QED BY InitIInv, <1>1, PTL DEF Spec
-----------------------------------------------------------------------------
(* The messages of an answer. *)

\* A set of numbers that holds 0, and the next of each it holds, holds them all: of those
\* it lacks one would be the least.
LEMMA NatSet ==
    ASSUME NEW G, 0 \in G, \A k \in Nat : k \in G => k + 1 \in G
    PROVE  \A k \in Nat : k \in G
<1> DEFINE Bad == {k \in Nat : k \notin G}
<1> SUFFICES ASSUME Bad # {} PROVE FALSE
  OBVIOUS
<1>1. Bad \subseteq Nat
  OBVIOUS
<1>2. PICK k \in Bad : \A l \in Bad : ~(<<l, k>> \in OpToRel(<, Nat))
  <2> HIDE DEF Bad
  <2> QED BY <1>1, NatLessThanWellFounded, WFMin
<1>3. k \in Nat /\ k \notin G /\ k # 0
  BY <1>2
<1>4. k - 1 \in Nat /\ k - 1 < k
  BY <1>3
<1>5. k - 1 \in Bad
  <2>1. k - 1 \in G => k \in G
    BY <1>3, <1>4
  <2> QED BY <1>3, <1>4, <2>1
<1> HIDE DEF Bad
<1> QED BY <1>2, <1>3, <1>4, <1>5 DEF OpToRel

\* The recursion behind a function on the numbers up to k, whose turn is given as a
\* function, has a solution: it has one up to any number.
Turns(V, k) == [V \X (1..k) -> V]
Solves(f, V, base, k, Turn) ==
    /\ f \in [0..k -> V]
    /\ f = [i \in 0..k |-> IF i = 0 THEN base ELSE Turn[<<f[i - 1], i>>]]

LEMMA Recursion ==
    ASSUME NEW V, NEW base \in V, NEW k \in Nat, NEW Turn \in Turns(V, k)
    PROVE  \E f : Solves(f, V, base, k, Turn)
<1> DEFINE Solved(j) == \E f \in [0..j -> V] :
                          f[0] = base /\ \A i \in 1..j : f[i] = Turn[<<f[i - 1], i>>]
           G == {j \in Nat : j <= k => Solved(j)}
<1>1. 0 \in G
  <2> DEFINE f == [i \in 0..0 |-> base]
  <2>1. f \in [0..0 -> V] /\ f[0] = base /\ \A i \in 1..0 : f[i] = Turn[<<f[i - 1], i>>]
    OBVIOUS
  <2> HIDE DEF f
  <2> QED BY <2>1
<1>2. ASSUME NEW j \in Nat, j \in G PROVE j + 1 \in G
  <2> SUFFICES ASSUME j + 1 <= k PROVE Solved(j + 1)
    OBVIOUS
  <2>1. PICK f \in [0..j -> V] : f[0] = base /\ \A i \in 1..j : f[i] = Turn[<<f[i - 1], i>>]
    BY <1>2
  <2>2. PICK v \in V : v = Turn[<<f[j], j + 1>>]
    BY DEF Turns
  <2> DEFINE g == [i \in 0..(j + 1) |-> IF i = j + 1 THEN v ELSE f[i]]
  <2>3. g \in [0..(j + 1) -> V] /\ g[0] = base
    BY <2>1
  <2>4. /\ g[j + 1] = v /\ \A i \in 0..j : g[i] = f[i]
    OBVIOUS
  <2> HIDE DEF g
  <2>5. ASSUME NEW i \in 1..(j + 1) PROVE g[i] = Turn[<<g[i - 1], i>>]
    <3>1. i - 1 \in 0..j /\ g[i - 1] = f[i - 1]
      BY <2>4
    <3>2. CASE i = j + 1
      BY <2>2, <2>4, <3>1, <3>2
    <3>3. CASE i \in 1..j
      BY <2>1, <2>4, <3>1, <3>3
    <3> QED BY <3>2, <3>3
  <2> QED BY <2>3, <2>5
<1>3. PICK f \in [0..k -> V] : f[0] = base /\ \A i \in 1..k : f[i] = Turn[<<f[i - 1], i>>]
  <2> HIDE DEF G
  <2>1. k \in G
    BY <1>1, <1>2, NatSet
  <2> QED BY <2>1 DEF G
<1>4. \A i \in 0..k : i = 0 \/ i \in 1..k
  OBVIOUS
<1>5. f = [i \in 0..k |-> f[i]]
  OBVIOUS
<1>6. \A i \in 0..k : f[i] = IF i = 0 THEN base ELSE Turn[<<f[i - 1], i>>]
  BY <1>3, <1>4
<1> QED BY <1>5, <1>6 DEF Solves

\* What an answer brings of thread n.
Part(k, n) == SubSeq(threads[n], 1, k[n])

LEMMA PartIs ==
    ASSUME IInv, NEW k, Brought(k), NEW n \in 1..Len(k)
    PROVE  /\ Part(k, n) \in Seq(Message) /\ Len(Part(k, n)) = k[n]
           /\ k[n] \in Nat /\ 1 <= k[n]
           /\ \A i \in 1..k[n] : /\ Part(k, n)[i] = threads[n][i] /\ Part(k, n)[i].round = n
                                 /\ Part(k, n)[i].verb = Alert <=> i = 1
<1>1. Len(k) \in Nat /\ Len(threads) \in Nat /\ n \in 1..Len(threads)
  BY LenProperties DEF Brought, IInv
<1>2. threads[n] \in Seq(Message) /\ k[n] \in Nat /\ Opened(n)
  BY <1>1, ElementOfSeq DEF Brought, IInv
<1>3. 1 <= k[n] /\ k[n] <= Len(threads[n]) /\ Len(threads[n]) \in Nat
  BY <1>2, LenProperties DEF Brought
<1>4. /\ Part(k, n) \in Seq(Message) /\ Len(Part(k, n)) = k[n]
      /\ \A i \in 1..k[n] : Part(k, n)[i] = threads[n][i]
  BY <1>2, <1>3 DEF Part
<1>5. \A i \in 1..k[n] : i \in 1..Len(threads[n])
  BY <1>2, <1>3
<1> QED BY <1>2, <1>3, <1>4, <1>5 DEF Opened

\* The messages are put together thread after thread.
LEMMA ThreadTurns ==
    ASSUME IInv, NEW k, Brought(k)
    PROVE  \E f : /\ f[0] = <<>> /\ \A n \in 1..Len(k) : f[n] = f[n - 1] \o Part(k, n)
                  /\ ByThread(k) = f[Len(k)]
<1> DEFINE V == Seq(Message)
           last == Len(k)
           Turn == [x \in V \X (1..last) |-> x[1] \o Part(k, x[2])]
           upto[n \in 0..Len(k)] ==
             IF n = 0 THEN <<>> ELSE upto[n - 1] \o SubSeq(threads[n], 1, k[n])
<1>1. last \in Nat
  BY LenProperties DEF Brought
<1>2. ASSUME NEW s \in V, NEW n \in 1..last PROVE s \o Part(k, n) \in V
  BY PartIs, ConcatProperties
<1>3. Turn \in Turns(V, last)
  BY <1>2 DEF Turns
<1>4. PICK e \in V : e = <<>>
  BY EmptySeq
<1>5. PICK f : Solves(f, V, e, last, Turn)
  <2> HIDE DEF V, Turn, last
  <2> QED BY <1>1, <1>3, Recursion, Zenon
<1>6. f = [n \in 0..last |-> IF n = 0 THEN <<>> ELSE f[n - 1] \o SubSeq(threads[n], 1, k[n])]
  <2>1. ASSUME NEW n \in 0..last, n # 0
        PROVE  Turn[<<f[n - 1], n>>] = f[n - 1] \o SubSeq(threads[n], 1, k[n])
    <3>1. n \in 1..last /\ n - 1 \in 0..last
      BY <1>1, <2>1
    <3>2. <<f[n - 1], n>> \in V \X (1..last)
      BY <1>5, <3>1 DEF Solves
    <3> HIDE DEF V, last
    <3> QED BY <3>2 DEF Part
  <2> HIDE DEF V, Turn, last
  <2> QED BY <1>4, <1>5, <2>1 DEF Solves
<1>7. upto = [n \in 0..last |-> IF n = 0 THEN <<>>
                                ELSE upto[n - 1] \o SubSeq(threads[n], 1, k[n])]
  <2>1. \E g : g = [n \in 0..Len(k) |-> IF n = 0 THEN <<>>
                                        ELSE g[n - 1] \o SubSeq(threads[n], 1, k[n])]
    BY <1>6
  <2> QED BY <2>1
<1>8. ByThread(k) = upto[Len(k)]
  BY DEF ByThread
<1> HIDE DEF upto, V, Turn
<1>9. \A n \in 0..last : n = 0 \/ n \in 1..last
  BY <1>1
<1>10. 0 \in 0..last /\ \A n \in 1..last : n \in 0..last /\ n # 0
  BY <1>1
<1>11. upto[0] = <<>> /\ \A n \in 1..last : upto[n] = upto[n - 1] \o Part(k, n)
  <2> HIDE DEF last
  <2> QED BY <1>7, <1>10 DEF Part
<1> QED BY <1>8, <1>11

\* Round after round: an alert is the first of its round, and what follows it is of its
\* round, too.
Ordered(ms) ==
    \A i \in 1..Len(ms) :
       IF ms[i].verb = Alert THEN \A j \in 1..(i - 1) : ms[j].round < ms[i].round
       ELSE i > 1 /\ ms[i].round = ms[i - 1].round

\* What an answer amounts to: messages round after round, the last thread's at the end.
LEMMA ByThreadIs ==
    ASSUME IInv, NEW k, Brought(k)
    PROVE  /\ ByThread(k) \in Seq(Message) /\ Ordered(ByThread(k))
           /\ Len(k) = 0 => ByThread(k) = <<>>
           /\ Len(k) > 0 =>
                \E o \in Nat :
                   /\ Len(ByThread(k)) = o + k[Len(k)]
                   /\ \A i \in 1..o : ByThread(k)[i].round < Len(k)
                   /\ \A j \in 1..k[Len(k)] : ByThread(k)[o + j] = threads[Len(k)][j]
<1>1. PICK f : /\ f[0] = <<>> /\ \A n \in 1..Len(k) : f[n] = f[n - 1] \o Part(k, n)
               /\ ByThread(k) = f[Len(k)]
  BY ThreadTurns
<1>2. Len(k) \in Nat
  BY LenProperties DEF Brought
<1> DEFINE Upto(n) == /\ f[n] \in Seq(Message) /\ Ordered(f[n])
                      /\ \A i \in 1..Len(f[n]) : f[n][i].round \in Nat /\ f[n][i].round <= n
           Joined(n) == LET o == Len(f[n - 1]) IN
                          /\ o \in Nat /\ Len(f[n]) = o + k[n]
                          /\ \A i \in 1..o : f[n][i] = f[n - 1][i]
                          /\ \A j \in 1..k[n] : f[n][o + j] = Part(k, n)[j]
<1>3. ASSUME NEW n \in 1..Len(k), Upto(n - 1) PROVE Upto(n) /\ Joined(n)
  <2> DEFINE o == Len(f[n - 1])
             p == Part(k, n)
  <2>1. /\ p \in Seq(Message) /\ Len(p) = k[n] /\ k[n] \in Nat /\ 1 <= k[n]
        /\ \A i \in 1..k[n] : p[i].round = n /\ (p[i].verb = Alert <=> i = 1)
    BY PartIs
  <2>2. o \in Nat /\ f[n - 1] \in Seq(Message) /\ f[n] = f[n - 1] \o p /\ n \in Nat /\ 0 < n
    BY <1>1, <1>2, <1>3, LenProperties
  <2>3. /\ f[n] \in Seq(Message) /\ Len(f[n]) = o + k[n]
        /\ \A i \in 1..o : f[n][i] = f[n - 1][i]
        /\ \A j \in 1..k[n] : f[n][o + j] = p[j]
    <3> HIDE DEF p
    <3>1. /\ f[n] \in Seq(Message) /\ Len(f[n]) = o + k[n]
          /\ \A i \in 1..Len(f[n - 1]) + Len(p) :
                f[n][i] = IF i <= Len(f[n - 1]) THEN f[n - 1][i] ELSE p[i - Len(f[n - 1])]
      <4>1. PICK s \in Seq(Message) : s = f[n - 1]
        BY <2>2
      <4>2. /\ s \o p \in Seq(Message) /\ Len(s \o p) = Len(s) + Len(p)
            /\ \A i \in 1..Len(s) + Len(p) :
                  (s \o p)[i] = IF i <= Len(s) THEN s[i] ELSE p[i - Len(s)]
        <5> HIDE DEF o, Upto, Joined
        <5> QED BY <2>1, ConcatProperties, Zenon
      <4>3. f[n] = s \o p /\ o = Len(s)
        BY <2>2, <4>1
      <4> HIDE DEF Upto, Joined
      <4> QED BY <2>1, <4>1, <4>2, <4>3
    <3> HIDE DEF o
    <3>2. \A i \in 1..o : i \in 1..(o + k[n]) /\ i <= o
      BY <2>1, <2>2
    <3>3. \A j \in 1..k[n] : o + j \in 1..(o + k[n]) /\ ~(o + j <= o) /\ (o + j) - o = j
      BY <2>1, <2>2
    <3> QED BY <2>1, <3>1, <3>2, <3>3 DEF o
  <2> HIDE DEF o, p
  <2>4. \A i \in 1..Len(f[n]) : i \in 1..o \/ \E j \in 1..k[n] : i = o + j
    <3> SUFFICES ASSUME NEW i \in 1..Len(f[n]), i \notin 1..o
                 PROVE  \E j \in 1..k[n] : i = o + j
      OBVIOUS
    <3>1. i - o \in 1..k[n] /\ i = o + (i - o)
      BY <2>1, <2>2, <2>3
    <3> QED BY <3>1
  <2>5. \A i \in 1..o : f[n][i].round \in Nat /\ f[n][i].round <= n - 1
    BY <1>3, <2>3 DEF o
  <2>6. \A j \in 1..k[n] : f[n][o + j].round = n
    BY <2>1, <2>3
  <2>7. ASSUME NEW i \in 1..Len(f[n])
        PROVE  f[n][i].round \in Nat /\ f[n][i].round <= n
    <3>1. CASE i \in 1..o
      <4>1. f[n][i].round \in Nat /\ f[n][i].round <= n - 1
        BY <2>5, <3>1
      <4> QED BY <2>2, <4>1
    <3>2. CASE f[n][i].round = n
      BY <2>2, <3>2
    <3> QED BY <2>4, <2>6, <3>1, <3>2
  <2>8. ASSUME NEW i \in 1..Len(f[n])
        PROVE  IF f[n][i].verb = Alert THEN \A j \in 1..(i - 1) : f[n][j].round < f[n][i].round
               ELSE i > 1 /\ f[n][i].round = f[n][i - 1].round
    <3>1. CASE i \in 1..o
      <4>1. f[n][i] = f[n - 1][i] /\ \A j \in 1..(i - 1) : f[n][j] = f[n - 1][j]
        <5>1. \A j \in 1..(i - 1) : j \in 1..o
          BY <2>2, <3>1
        <5> QED BY <2>3, <3>1, <5>1
      <4>2. i > 1 => f[n][i - 1] = f[n - 1][i - 1]
        BY <4>1
      <4> QED BY <1>3, <3>1, <4>1, <4>2 DEF Ordered, o
    <3>2. ASSUME NEW j \in 1..k[n], i = o + j
          PROVE  IF f[n][i].verb = Alert
                 THEN \A q \in 1..(i - 1) : f[n][q].round < f[n][i].round
                 ELSE i > 1 /\ f[n][i].round = f[n][i - 1].round
      <4>1. f[n][i].round = n /\ (f[n][i].verb = Alert <=> j = 1)
        BY <2>1, <2>3, <3>2
      <4>2. CASE j = 1
        <5>1. \A q \in 1..(i - 1) : q \in 1..o
          BY <2>2, <3>2, <4>2
        <5>2. ASSUME NEW q \in 1..(i - 1) PROVE f[n][q].round < n
          <6>1. f[n][q].round \in Nat /\ f[n][q].round <= n - 1
            BY <2>5, <5>1
          <6> QED BY <2>2, <6>1
        <5> QED BY <4>1, <4>2, <5>2
      <4>3. CASE j # 1
        <5>1. j - 1 \in 1..k[n] /\ i - 1 = o + (j - 1) /\ i > 1
          BY <2>1, <2>2, <3>2, <4>3
        <5>2. f[n][i - 1].round = n
          BY <2>6, <5>1
        <5> QED BY <4>1, <4>3, <5>1, <5>2
      <4> QED BY <4>2, <4>3
    <3> QED BY <2>4, <3>1, <3>2
  <2>9. Ordered(f[n])
    BY <2>8 DEF Ordered
  <2> QED BY <2>2, <2>3, <2>7, <2>9 DEF o, p
<1> DEFINE G == {n \in Nat : n <= Len(k) => Upto(n)}
<1>4. \A n \in Nat : n \in G
  <2>1. Upto(0)
    <3>1. f[0] \in Seq(Message) /\ Len(f[0]) = 0
      BY <1>1, EmptySeq
    <3> QED BY <3>1 DEF Ordered
  <2>2. ASSUME NEW n \in Nat, n \in G PROVE n + 1 \in G
    <3> SUFFICES ASSUME n + 1 <= Len(k) PROVE Upto(n + 1)
      OBVIOUS
    <3>1. n + 1 \in 1..Len(k) /\ (n + 1) - 1 = n /\ Upto(n)
      BY <1>2, <2>2
    <3> HIDE DEF Upto, G, Joined
    <3> QED BY <1>3, <3>1
  <2>3. 0 \in G
    BY <2>1
  <2> HIDE DEF G
  <2> QED BY <2>2, <2>3, NatSet
<1>5. Upto(Len(k))
  BY <1>2, <1>4
<1>6. ASSUME Len(k) > 0
      PROVE  \E o \in Nat :
                /\ Len(ByThread(k)) = o + k[Len(k)]
                /\ \A i \in 1..o : ByThread(k)[i].round < Len(k)
                /\ \A j \in 1..k[Len(k)] : ByThread(k)[o + j] = threads[Len(k)][j]
  <2> DEFINE n == Len(k)
             o == Len(f[n - 1])
  <2>1. n \in 1..Len(k) /\ n - 1 \in Nat /\ n - 1 <= Len(k) /\ n - 1 < n
    BY <1>2, <1>6
  <2>2. Upto(n - 1)
    <3> HIDE DEF Upto, n
    <3> QED BY <1>4, <2>1
  <2>3. Joined(n)
    <3> HIDE DEF Upto, Joined, n
    <3> QED BY <1>3, <2>1, <2>2
  <2>4. \A j \in 1..k[n] : Part(k, n)[j] = threads[n][j]
    BY <2>1, PartIs
  <2>5. ASSUME NEW i \in 1..o PROVE f[n][i].round < n
    <3>1. f[n][i] = f[n - 1][i] /\ f[n - 1][i].round \in Nat /\ f[n - 1][i].round <= n - 1
      BY <2>2, <2>3
    <3> QED BY <1>2, <3>1
  <2>6. o \in Nat /\ Len(f[n]) = o + k[n] /\ \A j \in 1..k[n] : f[n][o + j] = threads[n][j]
    BY <2>3, <2>4
  <2> HIDE DEF o
  <2> QED BY <1>1, <2>5, <2>6
<1> QED BY <1>1, <1>5, <1>6
-----------------------------------------------------------------------------
(* Building the state. *)

Phases == {"IDLE", Alert, "PATCHING", "VERIFIED", "DEPLOYED", "RELEASED"}
Numbers == Nat \cup {None}
Views == [phase : Phases, round : Numbers, bids : [Agents -> Numbers], winner : Numbers,
          deposit : Numbers, count : Nat, counted : Numbers, deployedPatch : Numbers,
          release : Numbers, elapsed : Numbers]

\* The phase after a message.
NextPhase(phase, verb) ==
    CASE verb = Alert -> verb
      [] verb = "BID" -> Patching(phase)
      [] verb = "VERIFIED" -> IF phase = "PATCHING" THEN "VERIFIED" ELSE phase
      [] verb = "PATCH_DEPLOYED" -> "DEPLOYED"
      [] verb = "ARBITER_RELEASED" -> "RELEASED"
      [] OTHER -> phase

\* What a message makes of a state, field by field.
Becomes(s, m, t) ==
    /\ t \in Views
    /\ t.phase = NextPhase(s.phase, m.verb)
    /\ t.round = IF m.verb = Alert THEN m.round ELSE s.round
    /\ t.winner = IF m.verb = "AWARD" THEN m.round ELSE s.winner
    /\ t.deposit = IF m.verb = "DEPOSITED" THEN m.round ELSE s.deposit
    /\ t.counted = IF m.verb \in {"VERIFIED", "THRESHOLD_STATUS"} THEN m.round ELSE s.counted
    /\ t.deployedPatch = IF m.verb = "PATCH_DEPLOYED" THEN m.round ELSE s.deployedPatch
    /\ t.release = IF m.verb = "ARBITER_RELEASED" THEN m.round ELSE s.release
    /\ t.elapsed = IF m.verb = "PATCH_DEPLOYED" THEN m.round
                    ELSE IF m.verb = "ARBITER_RELEASED" /\ s.elapsed = None THEN s.round
                    ELSE s.elapsed

LEMMA ToldIs ==
    ASSUME NEW s \in Views, NEW m \in Message, NEW t, t = Told(s, m)
    PROVE  Becomes(s, m, t)
<1> USE DEF Becomes, Views, Numbers, Phases, Alert, NextPhase
<1>1. m.round \in Nat
  BY DEF Message
<1>2. CASE m.verb = "EXPLOIT_DETECTED"
  <2>1. t = [s EXCEPT !.round = m.round, !.phase = m.verb]
    BY <1>2 DEF Told
  <2> QED BY <1>1, <1>2, <2>1
<1>3. CASE m.verb = "BID"
  <2>1. m.by \in Agents
    BY <1>3 DEF Message, Plain
  <2>2. t = [s EXCEPT !.bids = [s.bids EXCEPT ![m.by] = m.round], !.phase = Patching(s.phase)]
    BY <1>3 DEF Told
  <2>3. [s.bids EXCEPT ![m.by] = m.round] \in [Agents -> Nat \cup {None}]
    BY <1>1, <2>1
  <2> DEFINE p == Patching(s.phase)
             b == [s.bids EXCEPT ![m.by] = m.round]
  <2>4. p \in Phases
    BY DEF Patching
  <2>5. t = [s EXCEPT !.bids = b, !.phase = p] /\ b \in [Agents -> Nat \cup {None}]
    BY <2>2, <2>3
  <2>6. p = NextPhase(s.phase, m.verb)
    BY <1>3
  <2> HIDE DEF p, b, NextPhase
  <2>7. t \in Views
    BY <2>4, <2>5
  <2>8. t.phase = p
    BY <2>5
  <2>9. /\ t.round = s.round /\ t.winner = s.winner /\ t.deposit = s.deposit
        /\ t.counted = s.counted /\ t.deployedPatch = s.deployedPatch
        /\ t.release = s.release /\ t.elapsed = s.elapsed
    BY <2>5
  <2> QED BY <1>3, <2>6, <2>7, <2>8, <2>9
<1>4. CASE m.verb = "AWARD"
  <2>1. t = [s EXCEPT !.winner = m.round]
    BY <1>4 DEF Told
  <2> QED BY <1>1, <1>4, <2>1
<1>5. CASE m.verb = "DEPOSITED"
  <2>1. t = [s EXCEPT !.deposit = m.round]
    BY <1>5 DEF Told
  <2> QED BY <1>1, <1>5, <2>1
<1>6. CASE m.verb = "VERIFIED"
  <2>1. t = [s EXCEPT !.count = 0, !.counted = m.round,
                      !.phase = IF s.phase = "PATCHING" THEN "VERIFIED" ELSE s.phase]
    <3>1. t = Verdict(s, m)
      BY <1>6 DEF Told
    <3> QED BY <3>1 DEF Verdict
  <2> DEFINE p == IF s.phase = "PATCHING" THEN "VERIFIED" ELSE s.phase
  <2>2. p \in Phases /\ p = NextPhase(s.phase, m.verb)
    BY <1>6
  <2>3. t = [s EXCEPT !.count = 0, !.counted = m.round, !.phase = p]
    BY <2>1
  <2> HIDE DEF p, NextPhase
  <2>4. t \in Views
    <3>1. PICK none \in Nat : none = 0
      OBVIOUS
    <3>2. t = [s EXCEPT !.count = none, !.counted = m.round, !.phase = p]
      BY <2>3, <3>1
    <3> QED BY <1>1, <2>2, <3>2
  <2>5. t.phase = p /\ t.counted = m.round
    BY <2>3
  <2>6. /\ t.round = s.round /\ t.winner = s.winner /\ t.deposit = s.deposit
        /\ t.deployedPatch = s.deployedPatch /\ t.release = s.release
        /\ t.elapsed = s.elapsed
    BY <2>3
  <2> QED BY <1>6, <2>2, <2>4, <2>5, <2>6
<1>7. CASE m.verb = "THRESHOLD_STATUS"
  <2>1. m.received \in Nat
    BY <1>7 DEF Message, Plain
  <2>2. t = [s EXCEPT !.count = m.received, !.counted = m.round]
    BY <1>7 DEF Told
  <2> QED BY <1>1, <1>7, <2>1, <2>2
<1>8. CASE m.verb = "PATCH_DEPLOYED"
  <2>1. t = Deployed(s, m)
    BY <1>8 DEF Told
  <2> QED BY <1>1, <1>8, <2>1 DEF Deployed
<1>9. CASE m.verb = "ARBITER_RELEASED"
  <2>1. t = [s EXCEPT !.release = m.round, !.phase = "RELEASED",
                      !.elapsed = IF s.elapsed = None THEN s.round ELSE s.elapsed]
    BY <1>9 DEF Told
  <2> QED BY <1>1, <1>9, <2>1
<1> QED BY <1>2, <1>3, <1>4, <1>5, <1>6, <1>7, <1>8, <1>9 DEF Message, Plain

LEMMA EmptyStateIs == EmptyState \in Views
<1>1. PICK none \in Nat : none = 0
  OBVIOUS
<1>2. EmptyState = [phase |-> "IDLE", round |-> None, bids |-> [a \in Agents |-> None],
                    winner |-> None, deposit |-> None, count |-> none, counted |-> None,
                    deployedPatch |-> None, release |-> None, elapsed |-> None]
  BY <1>1 DEF EmptyState
<1> QED BY <1>2 DEF Views, Numbers, Phases

\* The state is built message after message.
Built(ms, f) == /\ f \in [0..Len(ms) -> Views] /\ f[0] = EmptyState
                /\ \A i \in 1..Len(ms) : f[i] = Told(f[i - 1], ms[i])

LEMMA BuildTurns ==
    ASSUME NEW k, Texts(k) \in Seq(Message)
    PROVE  \E f : Built(Texts(k), f) /\ BuildState(k) = f[Len(Texts(k))]
<1> DEFINE ms == Texts(k)
           last == Len(ms)
           Turn == [x \in Views \X (1..last) |-> Told(x[1], ms[x[2]])]
<1>1. last \in Nat /\ \A i \in 1..last : ms[i] \in Message
  BY ElementOfSeq, LenProperties
<1>2. Turn \in Turns(Views, last)
  <2> SUFFICES ASSUME NEW s \in Views, NEW i \in 1..last PROVE Told(s, ms[i]) \in Views
    BY DEF Turns
  <2> QED BY <1>1, ToldIs DEF Becomes
<1>3. PICK f : Solves(f, Views, EmptyState, last, Turn)
  <2> HIDE DEF Turn, last
  <2> QED BY <1>1, <1>2, EmptyStateIs, Recursion, Zenon
<1>4. f = [i \in 0..last |-> IF i = 0 THEN EmptyState ELSE Told(f[i - 1], ms[i])]
  <2>1. ASSUME NEW i \in 0..last, i # 0 PROVE Turn[<<f[i - 1], i>>] = Told(f[i - 1], ms[i])
    <3>1. i \in 1..last /\ i - 1 \in 0..last
      BY <1>1, <2>1
    <3>2. <<f[i - 1], i>> \in Views \X (1..last)
      BY <1>3, <3>1 DEF Solves
    <3> HIDE DEF last, ms
    <3> QED BY <3>2
  <2> HIDE DEF Turn, last, ms
  <2> QED BY <1>3, <2>1 DEF Solves
<1> DEFINE state[i \in 0..Len(ms)] ==
             IF i = 0 THEN EmptyState ELSE Told(state[i - 1], ms[i])
<1>5. state = [i \in 0..last |-> IF i = 0 THEN EmptyState ELSE Told(state[i - 1], ms[i])]
  <2>1. \E g : g = [i \in 0..Len(ms) |-> IF i = 0 THEN EmptyState ELSE Told(g[i - 1], ms[i])]
    BY <1>4
  <2> QED BY <2>1
<1>6. BuildState(k) = state[Len(ms)]
  BY DEF BuildState
<1> HIDE DEF state, Turn, ms
<1>7. 0 \in 0..last /\ \A i \in 1..last : i \in 0..last /\ i # 0
  BY <1>1
<1>8. state[0] = EmptyState /\ \A i \in 1..last : state[i] = Told(state[i - 1], ms[i])
  <2> HIDE DEF last
  <2> QED BY <1>5, <1>7
<1> DEFINE G == {i \in Nat : i <= last => state[i] \in Views}
<1>9. \A i \in Nat : i \in G
  <2>1. 0 \in G
    BY <1>8, EmptyStateIs
  <2>2. ASSUME NEW i \in Nat, i \in G PROVE i + 1 \in G
    <3> SUFFICES ASSUME i + 1 <= last PROVE state[i + 1] \in Views
      OBVIOUS
    <3>1. i + 1 \in 1..last /\ (i + 1) - 1 = i /\ state[i] \in Views
      BY <1>1, <2>2
    <3>2. state[i + 1] = Told(state[i], ms[i + 1]) /\ ms[i + 1] \in Message
      BY <1>1, <1>8, <3>1
    <3> QED BY <3>1, <3>2, ToldIs DEF Becomes
  <2> HIDE DEF G
  <2> QED BY <2>1, <2>2, NatSet
<1>10. state \in [0..last -> Views]
  <2>1. \A i \in 0..last : state[i] \in Views
    BY <1>1, <1>9
  <2>2. state = [i \in 0..last |-> state[i]]
    BY <1>5
  <2> QED BY <2>1, <2>2
<1> QED BY <1>6, <1>8, <1>10 DEF Built, ms

\* What was said of an emergency when its message i came.
Heard(ms, i, v) == \E j \in 1..i : ms[j].verb = v /\ ms[j].round = ms[i].round

\* The state after message i is of that message's emergency.
Faithful(ms, i, s) ==
    LET n == ms[i].round
    IN  /\ s.round = n /\ s.phase # "IDLE"
        /\ s.phase = "PATCHING" => Heard(ms, i, "BID")
        /\ s.phase = "VERIFIED" => Heard(ms, i, "VERIFIED")
        /\ s.phase = "DEPLOYED" => Heard(ms, i, "PATCH_DEPLOYED")
        /\ s.phase = "RELEASED" => Heard(ms, i, "ARBITER_RELEASED")
        /\ Heard(ms, i, "AWARD") => s.winner = n
        /\ Heard(ms, i, "DEPOSITED") => s.deposit = n
        /\ Heard(ms, i, "VERIFIED") => s.counted = n
        /\ Heard(ms, i, "PATCH_DEPLOYED") => s.deployedPatch = n /\ s.elapsed = n
        /\ Heard(ms, i, "ARBITER_RELEASED") => s.release = n

LEMMA FaithfulTurn ==
    ASSUME NEW ms \in Seq(Message), Ordered(ms), NEW f, Built(ms, f), NEW i \in 1..Len(ms),
           i > 1 => Faithful(ms, i - 1, f[i - 1])
    PROVE  Faithful(ms, i, f[i])
<1> DEFINE m == ms[i]
           s == f[i - 1]
           t == f[i]
<1>1. m \in Message /\ Len(ms) \in Nat
  BY ElementOfSeq, LenProperties
<1>2. s \in Views /\ t = Told(s, m)
  <2>1. i - 1 \in 0..Len(ms)
    BY <1>1
  <2> QED BY <2>1 DEF Built
<1>3. Becomes(s, m, t)
  <2>1. m \in Message /\ s \in Views /\ t = Told(s, m)
    BY <1>1, <1>2
  <2> HIDE DEF m, s, t
  <2> QED BY <2>1, ToldIs
<1>4. m.round \in Nat
  BY <1>1 DEF Message
<1>5. CASE m.verb = Alert
  <2>1. \A j \in 1..(i - 1) : ms[j].round < m.round
    BY <1>5 DEF Ordered
  <2>2. ASSUME NEW v, v # Alert PROVE ~Heard(ms, i, v)
    <3> SUFFICES ASSUME NEW j \in 1..i, ms[j].verb = v, ms[j].round = m.round PROVE FALSE
      BY DEF Heard
    <3>1. j # i
      BY <1>5, <2>2
    <3>2. j \in 1..(i - 1)
      BY <3>1
    <3> QED BY <1>4, <2>1, <3>2
  <2>3. t.phase = Alert /\ t.round = m.round
    <3> HIDE DEF m, s, t
    <3> QED BY <1>3, <1>5 DEF Becomes, NextPhase, Alert
  <2>4. \A v \in {"AWARD", "BID", "DEPOSITED", "VERIFIED", "PATCH_DEPLOYED", "ARBITER_RELEASED"} :
           ~Heard(ms, i, v)
    BY <2>2 DEF Alert
  <2> HIDE DEF t
  <2> QED BY <2>3, <2>4 DEF Faithful, Alert, t
<1>6. CASE m.verb # Alert
  <2>1. i > 1 /\ i - 1 \in 1..Len(ms) /\ m.round = ms[i - 1].round
    BY <1>1, <1>6 DEF Ordered
  <2>2. ASSUME NEW v PROVE Heard(ms, i, v) <=> Heard(ms, i - 1, v) \/ m.verb = v
    <3>1. \A j \in 1..i : j \in 1..(i - 1) \/ j = i
      OBVIOUS
    <3>2. i \in 1..i /\ \A j \in 1..(i - 1) : j \in 1..i
      OBVIOUS
    <3> QED BY <2>1, <3>1, <3>2 DEF Heard
  <2>3. Faithful(ms, i - 1, s)
    BY <2>1
  <2>4. s.round = m.round /\ t.round = m.round /\ m.round # None
    BY <1>3, <1>4, <1>6, <2>1, <2>3, FlashPatchFeedAssumption DEF Faithful, Becomes
  <2>5. s.phase \in Phases /\ s.phase # "IDLE"
    BY <1>2, <2>3 DEF Faithful, Views
  <2> DEFINE old(v) == Heard(ms, i - 1, v)
             new(v) == Heard(ms, i, v)
  <2>6. /\ s.phase = "PATCHING" => old("BID")
        /\ s.phase = "VERIFIED" => old("VERIFIED")
        /\ s.phase = "DEPLOYED" => old("PATCH_DEPLOYED")
        /\ s.phase = "RELEASED" => old("ARBITER_RELEASED")
        /\ old("AWARD") => s.winner = m.round
        /\ old("DEPOSITED") => s.deposit = m.round
        /\ old("VERIFIED") => s.counted = m.round
        /\ old("PATCH_DEPLOYED") => s.deployedPatch = m.round /\ s.elapsed = m.round
        /\ old("ARBITER_RELEASED") => s.release = m.round
    BY <2>1, <2>3 DEF Faithful
  <2>7. \A v : new(v) <=> old(v) \/ m.verb = v
    BY <2>2
  <2> HIDE DEF old, new, s, t, m
  <2>8. /\ t.phase # "IDLE"
        /\ t.phase = "PATCHING" => new("BID")
        /\ t.phase = "VERIFIED" => new("VERIFIED")
        /\ t.phase = "DEPLOYED" => new("PATCH_DEPLOYED")
        /\ t.phase = "RELEASED" => new("ARBITER_RELEASED")
    BY <1>3, <1>6, <2>5, <2>6, <2>7 DEF Becomes, NextPhase, Patching, Alert
  <2>9. /\ new("AWARD") => t.winner = m.round
        /\ new("DEPOSITED") => t.deposit = m.round
        /\ new("VERIFIED") => t.counted = m.round
        /\ new("PATCH_DEPLOYED") => t.deployedPatch = m.round
        /\ new("ARBITER_RELEASED") => t.release = m.round
    BY <1>3, <2>6, <2>7 DEF Becomes
  <2>10. new("PATCH_DEPLOYED") => t.elapsed = m.round
    BY <1>3, <2>4, <2>6, <2>7 DEF Becomes
  <2> QED BY <2>4, <2>8, <2>9, <2>10 DEF Faithful, new, m, t
<1> QED BY <1>5, <1>6

LEMMA FaithfulAll ==
    ASSUME NEW ms \in Seq(Message), Ordered(ms), NEW f, Built(ms, f), NEW i \in 1..Len(ms)
    PROVE  Faithful(ms, i, f[i])
<1>1. Len(ms) \in Nat
  BY LenProperties
<1> DEFINE G == {j \in Nat : 1 <= j /\ j <= Len(ms) => Faithful(ms, j, f[j])}
<1>2. 0 \in G
  OBVIOUS
<1>3. ASSUME NEW j \in Nat, j \in G PROVE j + 1 \in G
  <2> SUFFICES ASSUME j + 1 <= Len(ms) PROVE Faithful(ms, j + 1, f[j + 1])
    OBVIOUS
  <2>1. j + 1 \in 1..Len(ms) /\ (j + 1) - 1 = j
    BY <1>1
  <2>2. j + 1 > 1 => Faithful(ms, j, f[j])
    BY <1>1, <1>3
  <2> QED BY <2>1, <2>2, FaithfulTurn
<1> HIDE DEF G
<1>4. i \in G
  BY <1>1, <1>2, <1>3, NatSet
<1> QED BY <1>1, <1>4 DEF G
-----------------------------------------------------------------------------
(* What is shown. *)

\* The state an answer is built to, whatever answer: of its last thread.
\* Of messages whose text goes by another name nothing is shown.
LEMMA StateUnread == ASSUME ~Readable, NEW k PROVE BuildState(k) = EmptyState
<1>1. Texts(k) = <<>> /\ Texts(k) \in Seq(Message) /\ Len(Texts(k)) = 0
  BY EmptySeq DEF Texts
<1>2. PICK f : Built(Texts(k), f) /\ BuildState(k) = f[Len(Texts(k))]
  BY <1>1, BuildTurns
<1> QED BY <1>1, <1>2 DEF Built

LEMMA StateIs ==
    ASSUME IInv, Readable, NEW k, Brought(k)
    PROVE  /\ BuildState(k) \in Views
           /\ Len(k) = 0 => BuildState(k) = EmptyState
           /\ Len(k) > 0 =>
                LET n == Len(k)
                    s == BuildState(k)
                    told(v) == \E i \in 1..k[n] : threads[n][i].verb = v
                IN  /\ s.round = n /\ n \in Nat
                    /\ s.phase = "PATCHING" => told("BID")
                    /\ s.phase = "VERIFIED" => told("VERIFIED")
                    /\ s.phase = "DEPLOYED" => told("PATCH_DEPLOYED")
                    /\ s.phase = "RELEASED" => told("ARBITER_RELEASED")
                    /\ told("AWARD") => s.winner = n
                    /\ told("DEPOSITED") => s.deposit = n
                    /\ told("VERIFIED") => s.counted = n
                    /\ told("PATCH_DEPLOYED") => s.deployedPatch = n /\ s.elapsed = n
                    /\ told("ARBITER_RELEASED") => s.release = n
<1> DEFINE ms == ByThread(k)
           n == Len(k)
           told(v) == \E i \in 1..k[n] : threads[n][i].verb = v
<1>1. ms \in Seq(Message) /\ Ordered(ms) /\ Len(ms) \in Nat /\ n \in Nat
  BY ByThreadIs, LenProperties DEF Brought
<1>2. PICK f : Built(ms, f) /\ BuildState(k) = f[Len(ms)]
  BY <1>1, BuildTurns DEF Texts
<1>3. BuildState(k) \in Views
  BY <1>1, <1>2 DEF Built
<1>4. ASSUME n = 0 PROVE BuildState(k) = EmptyState
  <2>1. ms = <<>>
    BY <1>4, ByThreadIs
  <2>2. Len(ms) = 0
    BY <2>1
  <2> QED BY <1>2, <2>2 DEF Built
<1>5. ASSUME n > 0
      PROVE  LET s == BuildState(k)
             IN  /\ s.round = n
                 /\ s.phase = "PATCHING" => told("BID")
                 /\ s.phase = "VERIFIED" => told("VERIFIED")
                 /\ s.phase = "DEPLOYED" => told("PATCH_DEPLOYED")
                 /\ s.phase = "RELEASED" => told("ARBITER_RELEASED")
                 /\ told("AWARD") => s.winner = n
                 /\ told("DEPOSITED") => s.deposit = n
                 /\ told("VERIFIED") => s.counted = n
                 /\ told("PATCH_DEPLOYED") => s.deployedPatch = n /\ s.elapsed = n
                 /\ told("ARBITER_RELEASED") => s.release = n
  <2>1. PICK o \in Nat : /\ Len(ms) = o + k[n]
                         /\ \A i \in 1..o : ms[i].round < n
                         /\ \A j \in 1..k[n] : ms[o + j] = threads[n][j]
    BY <1>5, ByThreadIs
  <2>2. /\ k[n] \in Nat /\ 1 <= k[n]
        /\ \A i \in 1..k[n] : threads[n][i].round = n
    <3>1. n \in 1..Len(k)
      BY <1>1, <1>5
    <3> QED BY <3>1, PartIs
  <2> DEFINE last == Len(ms)
  <2>3. last \in 1..last /\ ms[last].round = n
    <3>1. k[n] \in 1..k[n] /\ last = o + k[n] /\ last >= 1
      BY <2>1, <2>2
    <3>2. last \in 1..last /\ ms[last] = threads[n][k[n]]
      <4> HIDE DEF ms
      <4> QED BY <2>1, <2>2, <3>1
    <3> QED BY <2>2, <3>1, <3>2
  <2>4. Faithful(ms, last, BuildState(k))
    <3> HIDE DEF ms, last
    <3>1. Faithful(ms, last, f[last])
      BY <1>1, <1>2, <2>3, FaithfulAll DEF last
    <3> QED BY <1>2, <3>1 DEF last
  <2>5. ASSUME NEW v PROVE Heard(ms, last, v) <=> told(v)
    <3>1. ASSUME NEW j \in 1..last, ms[j].verb = v, ms[j].round = n PROVE told(v)
      <4>1. j \notin 1..o
        <5> SUFFICES ASSUME j \in 1..o PROVE FALSE
          OBVIOUS
        <5>1. ms[j].round < n
          BY <2>1
        <5> QED BY <1>1, <3>1, <5>1
      <4>2. j - o \in 1..k[n] /\ j = o + (j - o)
        BY <2>1, <2>2, <4>1
      <4>3. ms[j] = threads[n][j - o]
        BY <2>1, <4>2
      <4> QED BY <3>1, <4>2, <4>3
    <3>2. ASSUME NEW i \in 1..k[n], threads[n][i].verb = v PROVE Heard(ms, last, v)
      <4>1. o + i \in 1..last
        BY <2>1, <2>2
      <4>2. ms[o + i] = threads[n][i] /\ threads[n][i].round = n
        BY <2>1, <2>2
      <4> QED BY <2>3, <3>2, <4>1, <4>2 DEF Heard
    <3> QED BY <2>3, <3>1, <3>2 DEF Heard
  <2> HIDE DEF told, ms, last
  <2> QED BY <2>3, <2>4, <2>5 DEF Faithful
<1> QED BY <1>1, <1>3, <1>4, <1>5

\* An emergency's phase is of its thread alone, and a longer part of it is further on.
Forward(p, q) == \/ Rank(p) <= Rank(q)
                 \/ p = "RELEASED" /\ q = "DEPLOYED"

LEMMA RankIs ==
    /\ Rank("IDLE") = 1 /\ Rank(Alert) = 2 /\ Rank("PATCHING") = 3
    /\ Rank("VERIFIED") = 4 /\ Rank("DEPLOYED") = 5 /\ Rank("RELEASED") = 6
<1> DEFINE order == <<"IDLE", "EXPLOIT_DETECTED", "PATCHING", "VERIFIED", "DEPLOYED", "RELEASED">>
<1>1. /\ order[1] = "IDLE" /\ order[2] = "EXPLOIT_DETECTED" /\ order[3] = "PATCHING"
      /\ order[4] = "VERIFIED" /\ order[5] = "DEPLOYED" /\ order[6] = "RELEASED"
  OBVIOUS
<1>2. \A i \in 1..6 : i = 1 \/ i = 2 \/ i = 3 \/ i = 4 \/ i = 5 \/ i = 6
  OBVIOUS
<1>3. ASSUME NEW j \in 1..6 PROVE Rank(order[j]) = j
  <2>1. \A i \in 1..6 : order[j] = order[i] => i = j
    <3> HIDE DEF order
    <3> QED BY <1>1, <1>2
  <2>2. Rank(order[j]) = CHOOSE i \in 1..6 : order[j] = order[i]
    BY DEF Rank
  <2> HIDE DEF order
  <2> QED BY <2>1, <2>2
<1> HIDE DEF order
<1> QED BY <1>1, <1>3 DEF Alert

LEMMA ForwardIs ==
    /\ \A p \in Phases : Forward(p, p)
    /\ \A v : v # Alert =>
          \A p \in Phases \ {"IDLE"} : Forward(p, NextPhase(p, v))
    /\ \A p \in Phases, q \in Phases, r \in Phases :
          Forward(p, q) /\ Forward(q, r) => Forward(p, r)
<1>0. \A p \in Phases : /\ Rank(p) \in Nat /\ Rank(p) <= 6
                        /\ p = "RELEASED" <=> Rank(p) = 6
                        /\ p = "DEPLOYED" <=> Rank(p) = 5
  BY RankIs DEF Phases, Alert
<1>1. \A p \in Phases : Forward(p, p)
  BY <1>0 DEF Forward
<1>2. ASSUME NEW p \in Phases, NEW v, v # Alert, p # "IDLE"
      PROVE  Forward(p, NextPhase(p, v))
  <2>1. \/ NextPhase(p, v) = p
        \/ p = Alert /\ NextPhase(p, v) = "PATCHING"
        \/ p = "PATCHING" /\ NextPhase(p, v) = "VERIFIED"
        \/ NextPhase(p, v) = "DEPLOYED" \/ NextPhase(p, v) = "RELEASED"
    BY <1>2 DEF NextPhase, Patching, Alert
  <2> QED BY <1>0, <1>1, <1>2, <2>1, RankIs DEF Forward
<1>3. ASSUME NEW p \in Phases, NEW q \in Phases, NEW r \in Phases, Forward(p, q), Forward(q, r)
      PROVE  Forward(p, r)
  <2>1. /\ Rank(p) \in Nat /\ Rank(q) \in Nat /\ Rank(r) \in Nat
        /\ Rank(p) <= 6 /\ Rank(r) <= 6
        /\ p = "RELEASED" <=> Rank(p) = 6
        /\ q = "RELEASED" <=> Rank(q) = 6
        /\ q = "DEPLOYED" <=> Rank(q) = 5
        /\ r = "DEPLOYED" <=> Rank(r) = 5
    BY <1>0
  <2> QED BY <1>3, <2>1 DEF Forward
<1> QED BY <1>1, <1>2, <1>3

LEMMA PhaseTurn ==
    ASSUME NEW ms \in Seq(Message), NEW f, Built(ms, f), NEW i \in 1..Len(ms)
    PROVE  f[i].phase = NextPhase(f[i - 1].phase, ms[i].verb) /\ f[i].phase \in Phases
<1>1. ms[i] \in Message /\ Len(ms) \in Nat
  BY ElementOfSeq, LenProperties
<1>2. i \in 0..Len(ms) /\ i - 1 \in 0..Len(ms)
  BY <1>1
<1>3. f[i] \in Views /\ f[i - 1] \in Views /\ f[i] = Told(f[i - 1], ms[i])
  BY <1>2 DEF Built
<1>4. Becomes(f[i - 1], ms[i], f[i])
  BY <1>1, <1>3, ToldIs
<1> QED BY <1>3, <1>4 DEF Becomes, Views

\* Two answers that bring the same thread last, one of them more of it than the other.
LEMMA PhaseForward ==
    ASSUME IInv, Readable, NEW k, Brought(k), NEW l, Brought(l),
           Len(k) = Len(l), Len(k) > 0, k[Len(k)] <= l[Len(k)]
    PROVE  Forward(BuildState(k).phase, BuildState(l).phase)
<1> DEFINE n == Len(k)
           ms == ByThread(k)
           ns == ByThread(l)
<1>1. n \in Nat /\ n \in 1..Len(k) /\ n \in 1..Len(l)
  BY LenProperties DEF Brought
<1>2. /\ k[n] \in Nat /\ 1 <= k[n] /\ l[n] \in Nat /\ k[n] <= l[n]
      /\ \A i \in 1..l[n] : threads[n][i].verb = Alert <=> i = 1
  <2>1. /\ l[n] \in Nat
        /\ \A i \in 1..l[n] : Part(l, n)[i] = threads[n][i] /\ (Part(l, n)[i].verb = Alert <=> i = 1)
    BY <1>1, PartIs
  <2>2. k[n] \in Nat /\ 1 <= k[n]
    BY <1>1, PartIs
  <2> QED BY <2>1, <2>2
<1>3. ms \in Seq(Message) /\ ns \in Seq(Message)
  BY ByThreadIs
<1>4. PICK o \in Nat : Len(ms) = o + k[n] /\ \A j \in 1..k[n] : ms[o + j] = threads[n][j]
  BY ByThreadIs
<1>5. PICK q \in Nat : Len(ns) = q + l[n] /\ \A j \in 1..l[n] : ns[q + j] = threads[n][j]
  BY ByThreadIs
<1>6. PICK f : Built(ms, f) /\ BuildState(k) = f[Len(ms)]
  BY <1>3, BuildTurns DEF Texts
<1>7. PICK g : Built(ns, g) /\ BuildState(l) = g[Len(ns)]
  BY <1>3, BuildTurns DEF Texts
<1> DEFINE F(j) == f[o + j].phase
           H(j) == g[q + j].phase
           v(j) == threads[n][j].verb
<1>8. ASSUME NEW j \in 1..k[n] PROVE F(j) = NextPhase(F(j - 1), v(j))
  <2>1. o + j \in 1..Len(ms) /\ (o + j) - 1 = o + (j - 1) /\ ms[o + j] = threads[n][j]
    BY <1>2, <1>4
  <2> HIDE DEF ms
  <2> QED BY <1>3, <1>6, <2>1, PhaseTurn
<1>9. ASSUME NEW j \in 1..l[n] PROVE H(j) = NextPhase(H(j - 1), v(j)) /\ H(j) \in Phases
  <2>1. q + j \in 1..Len(ns) /\ (q + j) - 1 = q + (j - 1) /\ ns[q + j] = threads[n][j]
    BY <1>2, <1>5
  <2> HIDE DEF ns
  <2> QED BY <1>3, <1>7, <2>1, PhaseTurn
<1>10. BuildState(k).phase = F(k[n]) /\ BuildState(l).phase = H(l[n])
  BY <1>4, <1>5, <1>6, <1>7
<1> HIDE DEF F, H, v
<1>11. v(1) = Alert /\ \A j \in 1..l[n] : j # 1 => v(j) # Alert
  BY <1>2 DEF v
<1>12. \A p : NextPhase(p, Alert) = Alert
  BY DEF NextPhase, Alert
<1>13. ASSUME NEW p \in Phases, NEW w, w # Alert, p # "IDLE" PROVE NextPhase(p, w) # "IDLE"
  BY <1>13 DEF NextPhase, Patching, Alert
<1> DEFINE G == {j \in Nat : /\ 1 <= j /\ j <= l[n] => H(j) # "IDLE"
                             /\ 1 <= j /\ j <= k[n] => F(j) = H(j)
                             /\ k[n] <= j /\ j <= l[n] => Forward(H(k[n]), H(j))}
<1>14. 0 \in G
  BY <1>2
<1>15. ASSUME NEW j \in Nat, j \in G PROVE j + 1 \in G
  <2>1. (j + 1) - 1 = j /\ j + 1 \in Nat
    OBVIOUS
  <2>2. CASE j = 0
    <3>1. 1 \in 1..k[n] /\ 1 \in 1..l[n]
      BY <1>2
    <3>2. F(1) = Alert /\ H(1) = Alert
      BY <1>8, <1>9, <1>11, <1>12, <3>1
    <3>3. k[n] <= 1 => k[n] = 1
      BY <1>2
    <3>4. Forward(Alert, Alert) /\ Alert # "IDLE"
      BY ForwardIs DEF Phases, Alert
    <3> QED BY <2>2, <3>2, <3>3, <3>4
  <2>3. CASE 1 <= j /\ j + 1 <= l[n]
    <3>1. j + 1 \in 1..l[n] /\ j \in 1..l[n] /\ j + 1 # 1
      BY <1>2, <2>3
    <3>2. /\ H(j + 1) = NextPhase(H(j), v(j + 1)) /\ v(j + 1) # Alert
          /\ H(j) \in Phases /\ H(j + 1) \in Phases /\ H(j) # "IDLE"
      BY <1>9, <1>11, <1>15, <2>1, <2>3, <3>1
    <3>3. H(j + 1) # "IDLE" /\ Forward(H(j), H(j + 1))
      BY <1>13, <3>2, ForwardIs
    <3>4. j + 1 <= k[n] => F(j + 1) = H(j + 1)
      <4> SUFFICES ASSUME j + 1 <= k[n] PROVE F(j + 1) = H(j + 1)
        OBVIOUS
      <4>1. j + 1 \in 1..k[n] /\ F(j) = H(j)
        BY <1>2, <1>15, <2>3
      <4> QED BY <1>8, <2>1, <3>2, <4>1
    <3>5. k[n] <= j + 1 => Forward(H(k[n]), H(j + 1))
      <4>1. CASE k[n] = j + 1
        BY <3>2, <4>1, ForwardIs
      <4>2. CASE k[n] <= j
        <5>1. Forward(H(k[n]), H(j))
          BY <1>2, <1>15, <2>3, <4>2
        <5>2. H(k[n]) \in Phases
          BY <1>2, <1>9
        <5> QED BY <3>2, <3>3, <5>1, <5>2, ForwardIs
      <4> QED BY <1>2, <4>1, <4>2
    <3> QED BY <2>1, <3>3, <3>4, <3>5
  <2>4. CASE j + 1 > l[n]
    <3>1. ~(j + 1 <= l[n]) /\ ~(j + 1 <= k[n])
      BY <1>2, <2>4
    <3> QED BY <2>1, <3>1
  <2> QED BY <1>2, <2>2, <2>3, <2>4
<1> HIDE DEF G
<1>16. k[n] \in G /\ l[n] \in G
  BY <1>2, <1>14, <1>15, NatSet
<1>17. F(k[n]) = H(k[n]) /\ Forward(H(k[n]), H(l[n]))
  BY <1>2, <1>16 DEF G
<1> QED BY <1>10, <1>17
-----------------------------------------------------------------------------
\* server.ts buildState: the one state is of the last emergency the session had come to, if
\* the texts are readable.  Its phase is one this emergency reached itself, and what it has
\* said is shown of it.  If they are not, the state is the empty one, whatever was said.
THEOREM OfTheLastEmergency == Spec => []ShowsLastEmergency
<1>1. ASSUME IInv PROVE ShowsLastEmergency
  <2> DEFINE n == Len(shown)
             s == State
             told(v) == \E i \in 1..shown[n] : threads[n][i].verb = v
  <2>1. Brought(shown) /\ n \in Nat
    BY <1>1, LenProperties DEF IInv, Brought
  <2>2. CASE n = 0
    <3>1. shown = <<>>
      BY <2>1, <2>2, EmptySeq DEF Brought
    <3>2. s = EmptyState
      BY <1>1, <2>1, <2>2, StateIs, StateUnread DEF State
    <3>3. s.round = None /\ s.phase = "IDLE"
      BY <3>2 DEF EmptyState
    <3> HIDE DEF s
    <3> QED BY <3>1, <3>2, <3>3 DEF ShowsLastEmergency, s
  <2>3. CASE n > 0 /\ Readable
    <3>0. shown # <<>>
      BY <2>3
    <3>1. /\ s.round = n
          /\ s.phase = "PATCHING" => told("BID")
          /\ s.phase = "VERIFIED" => told("VERIFIED")
          /\ s.phase = "DEPLOYED" => told("PATCH_DEPLOYED")
          /\ s.phase = "RELEASED" => told("ARBITER_RELEASED")
          /\ told("AWARD") => s.winner = n
          /\ told("DEPOSITED") => s.deposit = n
          /\ told("VERIFIED") => s.counted = n
          /\ told("PATCH_DEPLOYED") => s.deployedPatch = n /\ s.elapsed = n
          /\ told("ARBITER_RELEASED") => s.release = n
      BY <1>1, <2>1, <2>3, StateIs DEF State
    <3>2. n # None
      BY <2>1, FlashPatchFeedAssumption
    <3>3. \A v : told(v) <=> Shown(n, v)
      BY DEF Shown
    <3> HIDE DEF s, told, n
    <3>4. ShowsLastEmergency <=>
            /\ s.round = IF Readable /\ shown # <<>> THEN n ELSE None
            /\ s.round = None => s = EmptyState
            /\ s.phase = "PATCHING" => s.round # None /\ Shown(s.round, "BID")
            /\ s.phase = "VERIFIED" => s.round # None /\ Shown(s.round, "VERIFIED")
            /\ s.phase = "DEPLOYED" => s.round # None /\ Shown(s.round, "PATCH_DEPLOYED")
            /\ s.phase = "RELEASED" => s.round # None /\ Shown(s.round, "ARBITER_RELEASED")
            /\ s.round # None /\ Shown(s.round, "AWARD") => s.winner = s.round
            /\ s.round # None /\ Shown(s.round, "DEPOSITED") => s.deposit = s.round
            /\ s.round # None /\ Shown(s.round, "VERIFIED") => s.counted = s.round
            /\ s.round # None /\ Shown(s.round, "PATCH_DEPLOYED")
                 => s.deployedPatch = s.round /\ s.elapsed = s.round
            /\ s.round # None /\ Shown(s.round, "ARBITER_RELEASED") => s.release = s.round
      BY DEF ShowsLastEmergency, s, n
    <3> QED BY <2>3, <3>0, <3>1, <3>2, <3>3, <3>4
  <2>4. CASE ~Readable
    <3>1. s = EmptyState
      BY <2>4, StateUnread DEF State
    <3>2. s.round = None /\ s.phase = "IDLE"
      BY <3>1 DEF EmptyState
    <3> HIDE DEF s
    <3> QED BY <2>4, <3>1, <3>2 DEF ShowsLastEmergency, s
  <2> QED BY <2>1, <2>2, <2>3, <2>4
<1> QED BY Inductive, <1>1, PTL

\* server.ts poll and buildState: as messages come in, an emergency is shown to go
\* forward, but for a deployment that is reported after the release.
THEOREM EmergenciesGoForward == Spec => GoesForward
<1> DEFINE More == \A n \in DOMAIN shown : n \in DOMAIN shown' /\ shown[n] <= shown'[n]
           Goes == LET old == State
                       new == BuildState(shown')
                   IN  old.round = new.round =>
                          \/ Rank(old.phase) <= Rank(new.phase)
                          \/ old.phase = "RELEASED" /\ new.phase = "DEPLOYED"
<1>0. ASSUME ~Readable PROVE Goes
  <2>1. State = EmptyState /\ BuildState(shown') = EmptyState
    BY <1>0, StateUnread DEF State
  <2>2. Rank(State.phase) <= Rank(BuildState(shown').phase)
    BY <2>1, RankIs DEF EmptyState
  <2> QED BY <2>2
<1>1. ASSUME IInv, [Next]_vars, More, Readable PROVE Goes
  <2>1. Brought(shown) /\ shown \in Seq(Nat) /\ Len(shown) \in Nat /\ DOMAIN shown = 1..Len(shown)
    BY <1>1, LenProperties DEF IInv, Brought
  <2>2. State \in Views /\ State.phase \in Phases
    BY <1>1, <2>1, StateIs DEF State, Views
  <2>3. CASE shown' = shown
    <3>1. Forward(State.phase, BuildState(shown').phase)
      BY <2>2, <2>3, ForwardIs DEF State
    <3> QED BY <3>1 DEF Forward
  <2>4. CASE \E k \in answers : Handle(k) /\ k # <<>>
    <3>1. PICK k \in answers : shown' = k /\ k # <<>>
      BY <2>4 DEF Handle
    <3>2. Brought(k) /\ k \in Seq(Nat) /\ Len(k) \in Nat /\ DOMAIN k = 1..Len(k) /\ Len(k) > 0
      <4>1. Brought(k)
        BY <1>1 DEF IInv
      <4>2. k \in Seq(Nat) /\ Len(k) \in Nat /\ DOMAIN k = 1..Len(k)
        BY <4>1, LenProperties DEF Brought
      <4>3. Len(k) # 0
        BY <3>1, <4>2, EmptySeq
      <4> QED BY <4>1, <4>2, <4>3
    <3>3. BuildState(k).round = Len(k)
      BY <1>1, <3>2, StateIs
    <3> SUFFICES ASSUME State.round = BuildState(k).round
                 PROVE  Forward(State.phase, BuildState(k).phase)
      BY <3>1 DEF Forward
    <3>4. Len(shown) > 0
      <4> SUFFICES ASSUME Len(shown) = 0 PROVE FALSE
        BY <2>1
      <4>1. State = EmptyState
        BY <1>1, <2>1, StateIs DEF State
      <4>2. State.round = None
        BY <4>1 DEF EmptyState
      <4> QED BY <3>2, <3>3, <4>2, FlashPatchFeedAssumption
    <3>5. Len(shown) = Len(k)
      <4>1. State.round = Len(shown)
        BY <1>1, <2>1, <3>4, StateIs DEF State
      <4> QED BY <3>3, <4>1
    <3>6. shown[Len(shown)] <= k[Len(shown)]
      BY <1>1, <2>1, <3>1, <3>4
    <3> QED BY <1>1, <2>1, <3>2, <3>4, <3>5, <3>6, PhaseForward DEF State
  <2>5. CASE Restart
    <3>1. shown' = <<>>
      BY <2>5 DEF Restart
    <3>2. Len(shown) = 0
      <4> SUFFICES ASSUME Len(shown) # 0 PROVE FALSE
        OBVIOUS
      <4>1. 1 \in DOMAIN shown /\ 1 \notin DOMAIN <<>>
        BY <2>1
      <4> QED BY <1>1, <3>1, <4>1
    <3>3. shown = <<>>
      BY <2>1, <3>2, EmptySeq
    <3> QED BY <2>3, <3>1, <3>3
  <2>6. \/ shown' = shown \/ Restart
        \/ \E k \in answers : Handle(k) /\ k # <<>>
    BY <1>1 DEF Next, SessionGoesOn, Fetch, Handle, Fails, vars
  <2> QED BY <2>3, <2>4, <2>5, <2>6
<1>2. IInv /\ [Next]_vars => [More => Goes]_vars
  BY <1>0, <1>1
<1>3. Spec => [][More => Goes]_vars
  <2> HIDE DEF More, Goes
  <2>1. Spec => []IInv
    BY Inductive
  <2> QED BY <1>2, <2>1, PTL DEF Spec
<1> QED BY <1>3 DEF GoesForward
=============================================================================
