------------------------------ MODULE DeskProofs ------------------------------
(***************************************************************************)
(* Theorems about the parts of Desk for every value of their constants.    *)
(* ClaimGuards: each grant beyond the first is paid for by an outage.      *)
(* Entries: the counts of positions and the amounts at risk hold across    *)
(* every way into one.                                                     *)
(* Sizing: what is worse is never paid more for.                           *)
(* CopyTracker: no swap of a followed wallet is copied twice.              *)
(* Desk: each behaviour of the desk is one of each of its parts.           *)
(***************************************************************************)
EXTENDS Desk, FiniteSetTheorems, SequenceTheorems, WellFoundedInduction, TLAPS

-----------------------------------------------------------------------------
(* Claims of intents: any callers, size of the memory and failures.        *)

GuardsTyped ==
    /\ setup \in [redis : BOOLEAN, db : BOOLEAN, live : BOOLEAN]
    /\ chain = <<>> \/ \E healthy \in BOOLEAN : chain = Chain(healthy)
    /\ stored \in [Guards -> SUBSET Intent]
    /\ asking \in [Caller -> [intent : Intent \cup {"none"}, at : Nat]]
    /\ grants \in [Intent -> Nat] /\ outages \in [Intent -> Nat]
    /\ first \in Guards \cup {"none"} /\ (chain # <<>> => first = Head(chain))
    /\ overrun \in BOOLEAN

\* A claim waits for a guard of the chain, and only while the process is up.
AsksChain ==
    \A c \in Caller : asking[c] # Idle =>
       asking[c].intent \in Intent /\ asking[c].at \in 1 .. Len(chain)

\* The memory holds only what its process was asked for, so it is not overrun before
\* the claims are.
MemoryFits ==
    /\ asked \subseteq Intent /\ IsFiniteSet(asked)
    /\ chain = <<>> => asked = {}
    /\ stored["memory"] \subseteq asked
    /\ \A c \in Caller : asking[c] # Idle => asking[c].intent \in asked
    /\ first = "memory" /\ ~overrun => Cardinality(asked) <= MaxMemory

\* The callers whose claim of the intent has left the first guard.
PassedOn(i) == {c \in Caller : asking[c].intent = i /\ asking[c].at > 1}

\* The grant the first guard still has to give.
Due(i) == IF first \in Guards /\ i \in stored[first] THEN 0 ELSE 1

\* The outages pay for the grants there were, for those that claims on their way past
\* the first guard may still get, and for the one the first guard would give.
Paid == \A i \in Intent : grants[i] + Cardinality(PassedOn(i)) + Due(i) <= 1 + outages[i]

GuardsInv == GuardsTyped /\ AsksChain /\ MemoryFits /\ (overrun \/ Paid)

-----------------------------------------------------------------------------
\* Every chain is a sequence of guards that ends with the memory.
LEMMA ChainShape ==
    ASSUME NEW healthy \in BOOLEAN, setup \in [redis : BOOLEAN, db : BOOLEAN, live : BOOLEAN]
    PROVE  /\ Chain(healthy) \in Seq(Guards) /\ Chain(healthy) # <<>>
           /\ Chain(healthy)[Len(Chain(healthy))] = "memory"
<1> DEFINE R == IF setup.redis /\ healthy THEN <<"redis">> ELSE <<>>
           P == IF setup.db THEN <<"pg">> ELSE <<>>
           M == <<"memory">>
<1>1. R \in Seq(Guards) /\ P \in Seq(Guards)
  <2>1. <<>> \in Seq(Guards) /\ <<"redis">> \in Seq(Guards) /\ <<"pg">> \in Seq(Guards)
    BY DEF Guards
  <2>2. QED
    BY <2>1
<1>2. M \in Seq(Guards) /\ Len(M) = 1 /\ M[1] = "memory"
  BY DEF Guards
<1> HIDE DEF R, P, M
<1>3. R \o P \in Seq(Guards)
  BY <1>1, ConcatProperties
<1>4. Len(R \o P) \in Nat
  BY <1>3, LenProperties
<1>5. /\ (R \o P) \o M \in Seq(Guards) /\ Len((R \o P) \o M) = Len(R \o P) + 1
      /\ ((R \o P) \o M)[Len(R \o P) + 1] = "memory"
  <2>1. /\ (R \o P) \o M \in Seq(Guards) /\ Len((R \o P) \o M) = Len(R \o P) + 1
        /\ \A n \in 1 .. Len(R \o P) + 1 :
              ((R \o P) \o M)[n] = IF n <= Len(R \o P) THEN (R \o P)[n] ELSE M[n - Len(R \o P)]
    <3>1. /\ (R \o P) \o M \in Seq(Guards) /\ Len((R \o P) \o M) = Len(R \o P) + Len(M)
          /\ \A n \in 1 .. Len(R \o P) + Len(M) :
                ((R \o P) \o M)[n] = IF n <= Len(R \o P) THEN (R \o P)[n] ELSE M[n - Len(R \o P)]
      <4> HIDE DEF Guards
      <4>1. M \in Seq(Guards)
        BY <1>2
      <4>2. QED
        BY <1>3, <4>1, ConcatProperties, Zenon
    <3>2. QED
      BY <1>2, <3>1, Zenon
  <2>2. /\ Len(R \o P) + 1 \in 1 .. Len(R \o P) + 1
        /\ ~ (Len(R \o P) + 1 <= Len(R \o P))
        /\ (Len(R \o P) + 1) - Len(R \o P) = 1
    BY <1>4
  <2>3. ((R \o P) \o M)[Len(R \o P) + 1] = M[(Len(R \o P) + 1) - Len(R \o P)]
    BY <2>1, <2>2, Zenon
  <2>4. QED
    BY <1>2, <2>1, <2>2, <2>3
<1>6. Chain(healthy) = (R \o P) \o M
  BY DEF Chain, R, P, M
<1>7. (R \o P) \o M # <<>> /\ ((R \o P) \o M)[Len((R \o P) \o M)] = "memory"
  BY <1>4, <1>5, EmptySeq
<1>8. QED
  BY <1>5, <1>6, <1>7

\* The chain of a typed state that is up.
LEMMA ChainUp ==
    ASSUME GuardsTyped, chain # <<>>
    PROVE  /\ chain \in Seq(Guards) /\ Len(chain) \in Nat \ {0}
           /\ chain[Len(chain)] = "memory"
           /\ Head(chain) = chain[1] /\ Head(chain) \in Guards
           /\ \A n \in 1 .. Len(chain) : chain[n] \in Guards
<1>1. chain \in Seq(Guards) /\ chain[Len(chain)] = "memory"
  BY ChainShape DEF GuardsTyped
<1>2. Len(chain) \in Nat \ {0}
  BY <1>1, EmptySeq, LenProperties
<1>3. QED
  BY <1>1, <1>2, HeadTailProperties, ElementOfSeq

\* Callers are finitely many, so those of one intent can be counted.
LEMMA PassedOnCounts ==
    ASSUME NEW i
    PROVE  IsFiniteSet(PassedOn(i)) /\ Cardinality(PassedOn(i)) \in Nat
<1>1. PassedOn(i) \subseteq Caller
  BY DEF PassedOn
<1>2. IsFiniteSet(PassedOn(i))
  BY <1>1, ClaimGuardsAssumption, FS_Subset
<1> QED
  BY <1>2, FS_CardinalityType

\* What an outage does to the count of an intent.
LEMMA OutageCounts ==
    ASSUME GuardsTyped, NEW hit, Outage(hit)
    PROVE  /\ outages' \in [Intent -> Nat]
           /\ \A i \in Intent : outages'[i] = outages[i] + (IF i \in hit THEN 1 ELSE 0)
BY DEF Outage, GuardsTyped

\* With the callers past the first guard, the record of the first guard and the grants
\* no worse than an outage makes up for, the intents stay paid for.
LEMMA PaidStays ==
    ASSUME GuardsInv, ~overrun, grants' = grants, outages' \in [Intent -> Nat],
           \A i \in Intent :
              Cardinality(PassedOn(i))' + Due(i)' - outages'[i]
                 <= Cardinality(PassedOn(i)) + Due(i) - outages[i],
           \A i \in Intent : Cardinality(PassedOn(i))' \in Nat
    PROVE  Paid'
<1> SUFFICES ASSUME NEW i \in Intent
             PROVE  grants'[i] + Cardinality(PassedOn(i))' + Due(i)' <= 1 + outages'[i]
  BY DEF Paid
<1> DEFINE p == Cardinality(PassedOn(i))
           q == Cardinality(PassedOn(i))'
           d == Due(i)
           e == Due(i)'
<1>1. p \in Nat /\ q \in Nat /\ d \in Nat /\ e \in Nat
  BY PassedOnCounts DEF Due
<1>2. grants[i] \in Nat /\ outages[i] \in Nat /\ outages'[i] \in Nat
  BY DEF GuardsInv, GuardsTyped
<1>3. grants[i] + p + d <= 1 + outages[i]
  BY DEF GuardsInv, Paid
<1>4. q + e - outages'[i] <= p + d - outages[i]
  OBVIOUS
<1> HIDE DEF p, q, d, e
<1>5. grants[i] + q + e <= 1 + outages'[i]
  BY <1>1, <1>2, <1>3, <1>4
<1> QED
  BY <1>5 DEF q, e

-----------------------------------------------------------------------------
(* Each action keeps the invariant.                                        *)

LEMMA GuardsInvStarts == GuardsInit => GuardsInv
<1> SUFFICES ASSUME GuardsInit PROVE GuardsInv
  OBVIOUS
<1>1. GuardsTyped /\ AsksChain
  BY DEF GuardsInit, GuardsTyped, AsksChain, Idle
<1>2. MemoryFits
  BY FS_EmptySet DEF GuardsInit, MemoryFits, Guards
<1>3. Paid
  <2> SUFFICES ASSUME NEW i \in Intent
               PROVE  grants[i] + Cardinality(PassedOn(i)) + Due(i) <= 1 + outages[i]
    BY DEF Paid
  <2>1. PassedOn(i) = {}
    BY DEF GuardsInit, PassedOn, Idle
  <2>2. grants[i] = 0 /\ outages[i] = 0 /\ Due(i) = 1
    BY DEF GuardsInit, Due, Guards
  <2> QED
    BY <2>1, <2>2, FS_EmptySet
<1> QED
  BY <1>1, <1>2, <1>3 DEF GuardsInv

LEMMA ClaimKept ==
    ASSUME GuardsInv, NEW c \in Caller, NEW i \in Intent, Claim(c, i)
    PROVE  GuardsInv'
<1> USE DEF GuardsInv
<1>1. chain # <<>> /\ Len(chain) \in Nat \ {0}
  BY ChainUp DEF Claim
<1>2. GuardsTyped'
  BY DEF Claim, GuardsTyped, Chain
<1>3. AsksChain'
  BY <1>1 DEF Claim, AsksChain, GuardsTyped, Idle
<1>4. MemoryFits'
  <2>1. asked' \subseteq Intent /\ IsFiniteSet(asked') /\ asked \subseteq asked' /\ i \in asked'
    BY FS_AddElement DEF Claim, MemoryFits
  <2>2. \A d \in Caller : asking'[d] # Idle => asking'[d].intent \in asked'
    BY <2>1 DEF Claim, MemoryFits, GuardsTyped
  <2>3. first' = "memory" /\ ~overrun' => Cardinality(asked') <= MaxMemory
    <3>1. Cardinality(asked') \in Nat /\ MaxMemory \in Nat
      BY <2>1, FS_CardinalityType, ClaimGuardsAssumption
    <3>2. first' = first /\ overrun' = (overrun \/ (first = "memory" /\ Cardinality(asked') > MaxMemory))
      BY DEF Claim
    <3>3. first' = "memory" /\ ~overrun' => ~ (Cardinality(asked') > MaxMemory)
      BY <3>2, Zenon
    <3> QED
      BY <3>1, <3>3
  <2> QED
    BY <1>1, <2>1, <2>2, <2>3 DEF Claim, MemoryFits
<1>5. overrun' \/ Paid'
  <2> SUFFICES ASSUME ~overrun' PROVE Paid'
    OBVIOUS
  <2>1. ~overrun /\ UNCHANGED <<grants, outages, first, stored>>
    BY DEF Claim
  <2>2. \A j \in Intent : PassedOn(j)' = PassedOn(j)
    BY DEF Claim, PassedOn, GuardsTyped, Idle
  <2> QED
    BY <2>1, <2>2 DEF Paid, Due
<1> QED
  BY <1>2, <1>3, <1>4, <1>5

\* The first guard grants what it does not hold, and then holds it; a claim that was
\* passed on is answered, whatever it gets.
LEMMA AnswerKept ==
    ASSUME GuardsInv, NEW c \in Caller, Answer(c)
    PROVE  GuardsInv'
<1> DEFINE i == asking[c].intent
           guard == chain[asking[c].at]
           known == stored[guard] \cup {i}
<1> USE DEF GuardsInv
<1>1. i \in Intent /\ asking[c].at \in 1 .. Len(chain) /\ asking[c] # Idle
  BY DEF Answer, AsksChain
<1>2. chain # <<>>
  BY <1>1, EmptySeq
<1>3. guard \in Guards /\ first = chain[1] /\ first \in Guards
  BY <1>1, <1>2, ChainUp DEF GuardsTyped
<1>4. UNCHANGED <<setup, chain, first, outages, asked, overrun>>
  BY DEF Answer, events
<1>5. asking' = [asking EXCEPT ![c] = Idle]
  BY DEF Answer
<1>6. /\ stored' \in [Guards -> SUBSET Intent]
      /\ stored'[guard] \in {known, {}} /\ (guard # "memory" => stored'[guard] = known)
      /\ \A g \in Guards \ {guard} : stored'[g] = stored[g]
  <2>1. stored' = [stored EXCEPT ![guard] = Remembered(guard, i)]
    BY DEF Answer
  <2>2. Remembered(guard, i) \in {known, {}} /\ (guard # "memory" => Remembered(guard, i) = known)
    BY DEF Remembered
  <2>3. known \subseteq Intent
    BY <1>1, <1>3 DEF GuardsTyped
  <2> QED
    BY <1>3, <2>1, <2>2, <2>3 DEF GuardsTyped
<1>7. grants' = IF First(guard, i) THEN [grants EXCEPT ![i] = @ + 1] ELSE grants
  BY DEF Answer
<1>8. GuardsTyped'
  <2>1. grants' \in [Intent -> Nat]
    BY <1>1, <1>7 DEF GuardsTyped
  <2> QED
    BY <1>4, <1>5, <1>6, <2>1 DEF GuardsTyped, Idle, Chain
<1>9. AsksChain'
  BY <1>4, <1>5 DEF AsksChain, GuardsTyped
<1>10. MemoryFits'
  <2>1. stored'["memory"] \subseteq asked
    BY <1>1, <1>6 DEF MemoryFits, Guards
  <2>2. \A d \in Caller : asking'[d] # Idle => asking'[d].intent \in asked
    BY <1>5 DEF MemoryFits, GuardsTyped
  <2> QED
    BY <1>4, <2>1, <2>2 DEF MemoryFits
<1>11. ASSUME ~overrun, guard = first
       PROVE  stored'[first] = known
  <2>1. CASE first = "memory"
    <3>1. known \subseteq asked
      BY <1>1, <1>11, <2>1 DEF MemoryFits
    <3>2. Cardinality(known) <= Cardinality(asked) /\ Cardinality(known) \in Nat /\ Cardinality(asked) \in Nat
      BY <3>1, FS_Subset, FS_CardinalityType DEF MemoryFits
    <3>3. Cardinality(asked) <= MaxMemory /\ MaxMemory \in Nat
      BY <1>11, <2>1, ClaimGuardsAssumption DEF MemoryFits
    <3>4. ~ (Cardinality(known) > MaxMemory)
      BY <3>2, <3>3
    <3>5. Remembered(guard, i) = known
      BY <3>4 DEF Remembered
    <3> QED
      BY <1>3, <1>11, <3>5 DEF Answer, GuardsTyped
  <2>2. CASE first # "memory"
    BY <1>6, <1>11, <2>2
  <2> QED
    BY <2>1, <2>2
<1>12. ASSUME ~overrun
       PROVE  Paid'
  <2> SUFFICES ASSUME NEW j \in Intent
               PROVE  grants'[j] + Cardinality(PassedOn(j))' + Due(j)' <= 1 + outages'[j]
    BY DEF Paid
  <2> DEFINE p == Cardinality(PassedOn(j))
             q == Cardinality(PassedOn(j)')
             d == Due(j)
             e == Due(j)'
  <2>1. p \in Nat /\ d \in {0, 1} /\ e \in {0, 1} /\ grants[j] \in Nat /\ outages[j] \in Nat
    BY PassedOnCounts DEF Due, GuardsTyped
  <2>2. grants[j] + p + d <= 1 + outages[j] /\ outages'[j] = outages[j]
    BY <1>4, <1>12 DEF Paid
  <2>3. e <= d
    <3>1. stored[first] \subseteq stored'[first]
      BY <1>3, <1>6, <1>11, <1>12
    <3> QED
      BY <1>4, <3>1 DEF Due
  <2>4. PassedOn(j)' = PassedOn(j) \ {c}
    BY <1>5 DEF PassedOn, GuardsTyped, Idle
  <2>5. q = IF c \in PassedOn(j) THEN p - 1 ELSE p
    BY <2>4, PassedOnCounts, FS_RemoveElement
  <2>6. CASE j # i
    <3>1. c \notin PassedOn(j) /\ grants'[j] = grants[j]
      BY <1>1, <1>7, <2>6 DEF PassedOn, GuardsTyped
    <3> HIDE DEF p, q, d, e
    <3>2. grants'[j] + q + e <= 1 + outages'[j]
      BY <2>1, <2>2, <2>3, <2>5, <3>1
    <3> QED
      BY <3>2 DEF q, e
  <2>7. CASE j = i /\ asking[c].at > 1
    <3>1. c \in PassedOn(j) /\ grants'[j] \in {grants[j], grants[j] + 1}
      BY <1>1, <1>7, <2>7 DEF PassedOn, GuardsTyped
    <3> HIDE DEF p, q, d, e
    <3>2. grants'[j] + q + e <= 1 + outages'[j]
      BY <2>1, <2>2, <2>3, <2>5, <3>1
    <3> QED
      BY <3>2 DEF q, e
  <2>8. CASE j = i /\ ~ (asking[c].at > 1)
    <3>1. guard = first
      BY <1>1, <1>3, <2>8
    <3>2. c \notin PassedOn(j) /\ e = 0
      BY <1>3, <1>4, <1>11, <1>12, <2>8, <3>1 DEF PassedOn, Due
    <3>3. grants'[j] + 0 <= grants[j] + d
      BY <1>1, <1>3, <1>7, <2>1, <2>8, <3>1 DEF First, Due, GuardsTyped
    <3>4. grants'[j] \in Nat
      BY <1>8 DEF GuardsTyped
    <3> HIDE DEF p, q, d, e
    <3>5. grants'[j] + q + e <= 1 + outages'[j]
      BY <2>1, <2>2, <2>5, <3>2, <3>3, <3>4
    <3> QED
      BY <3>5 DEF q, e
  <2> QED
    BY <2>6, <2>7, <2>8
<1> QED
  BY <1>4, <1>8, <1>9, <1>10, <1>12

\* A failed claim is handed on: the memory, which ends every chain, never fails.  Its
\* outage pays for what the next guard may grant.
LEMMA ClaimFailsKept ==
    ASSUME GuardsInv, NEW c \in Caller, NEW recorded \in BOOLEAN, ClaimFails(c, recorded)
    PROVE  GuardsInv'
<1> DEFINE guard == chain[asking[c].at]
           i == asking[c].intent
<1> USE DEF GuardsInv
<1>1. i \in Intent /\ asking[c].at \in 1 .. Len(chain) /\ asking[c] # Idle
  BY DEF ClaimFails, AsksChain
<1>2. chain # <<>>
  BY <1>1, EmptySeq
<1>3. Len(chain) \in Nat /\ chain[Len(chain)] = "memory" /\ guard \in Guards
  BY <1>1, <1>2, ChainUp
<1>4. asking[c].at + 1 \in 1 .. Len(chain)
  BY <1>1, <1>3 DEF ClaimFails
<1>5. /\ asking' \in [Caller -> [intent : Intent \cup {"none"}, at : Nat]]
      /\ \A d \in Caller \ {c} : asking'[d] = asking[d]
      /\ asking'[c].intent = i /\ asking'[c].at = asking[c].at + 1
  <2>1. asking[c] \in [intent : Intent \cup {"none"}, at : Nat]
    BY DEF GuardsTyped
  <2>2. asking' = [asking EXCEPT ![c] = [asking[c] EXCEPT !.at = @ + 1]]
    BY DEF ClaimFails
  <2>3. [asking[c] EXCEPT !.at = @ + 1] \in [intent : Intent \cup {"none"}, at : Nat]
    BY <2>1
  <2>4. QED
    BY <2>1, <2>2, <2>3 DEF GuardsTyped
<1>6. /\ stored' \in [Guards -> SUBSET Intent] /\ \A g \in Guards : stored[g] \subseteq stored'[g]
      /\ stored'["memory"] = stored["memory"]
  <2>1. CASE recorded
    <3>1. stored' = [stored EXCEPT ![guard] = @ \cup {i}] /\ guard # "memory"
      BY <2>1 DEF ClaimFails
    <3>2. QED
      BY <1>1, <1>3, <3>1 DEF GuardsTyped, Guards
  <2>2. CASE ~ recorded
    BY <2>2 DEF ClaimFails, GuardsTyped
  <2>3. QED
    BY <2>1, <2>2
<1>7. UNCHANGED <<setup, chain, grants, first, asked, overrun>> /\ Outage({i})
  BY DEF ClaimFails
<1>8. outages' \in [Intent -> Nat] /\ \A j \in Intent : outages'[j] = outages[j] + (IF j \in {i} THEN 1 ELSE 0)
  BY <1>7, OutageCounts
<1>9. GuardsTyped'
  BY <1>5, <1>6, <1>7, <1>8 DEF GuardsTyped, Chain
<1>10. AsksChain'
  BY <1>1, <1>4, <1>5, <1>7 DEF AsksChain, GuardsTyped
<1>11. MemoryFits'
  <2>1. \A d \in Caller : asking'[d] # Idle => asking'[d].intent \in asked
    BY <1>1, <1>5 DEF MemoryFits
  <2> QED
    BY <1>6, <1>7, <2>1 DEF MemoryFits
<1>12. ASSUME ~overrun
       PROVE  Paid'
  <2>1. ASSUME NEW j \in Intent
        PROVE  /\ Cardinality(PassedOn(j))' \in Nat
               /\ Cardinality(PassedOn(j))' + Due(j)' - outages'[j]
                     <= Cardinality(PassedOn(j)) + Due(j) - outages[j]
    <3> DEFINE p == Cardinality(PassedOn(j))
               q == Cardinality(PassedOn(j)')
               d == Due(j)
               e == Due(j)'
    <3>1. p \in Nat /\ d \in Nat /\ e \in Nat /\ outages[j] \in Nat
      BY PassedOnCounts DEF Due, GuardsTyped
    <3>2. e <= d
      BY <1>6, <1>7 DEF Due
    <3>3. CASE j = i
      <4>1. PassedOn(j)' = PassedOn(j) \cup {c}
        <5>1. asking'[c].at > 1
          BY <1>1, <1>5
        <5> QED
          BY <1>5, <3>3, <5>1 DEF PassedOn
      <4>2. q \in Nat /\ q <= p + 1
        <5>1. IsFiniteSet(PassedOn(j))
          BY PassedOnCounts
        <5>2. q = IF c \in PassedOn(j) THEN p ELSE p + 1
          BY <4>1, <5>1, FS_AddElement
        <5> QED
          BY <3>1, <5>2
      <4>3. outages'[j] = outages[j] + 1
        BY <1>8, <3>3
      <4> HIDE DEF p, q, d, e
      <4>4. q + e - outages'[j] <= p + d - outages[j]
        BY <3>1, <3>2, <4>2, <4>3
      <4> QED
        BY <4>2, <4>4 DEF p, q, d, e
    <3>4. CASE j # i
      <4>1. PassedOn(j)' = PassedOn(j)
        BY <1>5, <3>4 DEF PassedOn
      <4>2. outages'[j] = outages[j]
        BY <1>8, <3>1, <3>4
      <4>3. q = p
        BY <4>1
      <4> HIDE DEF p, q, d, e
      <4>4. q + e - outages'[j] <= p + d - outages[j] /\ q \in Nat
        BY <3>1, <3>2, <4>2, <4>3
      <4> QED
        BY <4>4 DEF p, q, d, e
    <3> QED
      BY <3>3, <3>4
  <2> QED
    BY <1>7, <1>8, <1>12, <2>1, PaidStays
<1> QED
  BY <1>7, <1>9, <1>10, <1>11, <1>12

\* Redis may grant again what it forgot: one grant, for one outage.
LEMMA ExpireKept ==
    ASSUME GuardsInv, NEW i \in Intent, Expire(i)
    PROVE  GuardsInv'
<1> USE DEF GuardsInv
<1>1. /\ stored' \in [Guards -> SUBSET Intent] /\ stored'["memory"] = stored["memory"]
      /\ \A g \in Guards : stored[g] \ {i} \subseteq stored'[g]
  BY DEF Expire, GuardsTyped, Guards
<1>2. UNCHANGED <<setup, chain, asking, grants, first, asked, overrun>> /\ Outage({i})
  BY DEF Expire
<1>3. outages' \in [Intent -> Nat] /\ \A j \in Intent : outages'[j] = outages[j] + (IF j \in {i} THEN 1 ELSE 0)
  BY <1>2, OutageCounts
<1>4. GuardsTyped' /\ AsksChain'
  BY <1>1, <1>2, <1>3 DEF GuardsTyped, AsksChain, Chain
<1>5. MemoryFits'
  BY <1>1, <1>2 DEF MemoryFits
<1>6. ASSUME ~overrun
      PROVE  Paid'
  <2>1. ASSUME NEW j \in Intent
        PROVE  /\ Cardinality(PassedOn(j))' \in Nat
               /\ Cardinality(PassedOn(j))' + Due(j)' - outages'[j]
                     <= Cardinality(PassedOn(j)) + Due(j) - outages[j]
    <3>1. Cardinality(PassedOn(j)) \in Nat /\ Cardinality(PassedOn(j))' = Cardinality(PassedOn(j))
      BY <1>2, PassedOnCounts DEF PassedOn
    <3>2. Due(j) \in Nat /\ Due(j)' \in Nat /\ Due(j)' <= Due(j) + (IF j \in {i} THEN 1 ELSE 0)
      BY <1>1, <1>2 DEF Due
    <3>3. outages[j] \in Nat /\ outages'[j] = outages[j] + (IF j \in {i} THEN 1 ELSE 0)
      BY <1>3 DEF GuardsTyped
    <3> QED
      BY <3>1, <3>2, <3>3
  <2> QED
    BY <1>2, <1>3, <1>6, <2>1, PaidStays
<1> QED
  BY <1>2, <1>4, <1>5, <1>6

\* The claims that were on their way are lost with the process, and its memory.
LEMMA CrashKept ==
    ASSUME GuardsInv, GuardsCrash
    PROVE  GuardsInv'
<1> USE DEF GuardsInv
<1> DEFINE hit == IF first = "memory" THEN Intent ELSE {}
<1>1. /\ UNCHANGED <<setup, grants, first, overrun>> /\ chain' = <<>> /\ asked' = {}
      /\ asking' = [c \in Caller |-> Idle] /\ Outage(hit)
  BY DEF GuardsCrash
<1>2. /\ stored' \in [Guards -> SUBSET Intent] /\ stored'["memory"] = {}
      /\ \A g \in Guards \ {"memory"} : stored'[g] = stored[g]
  BY DEF GuardsCrash, GuardsTyped, Guards
<1>3. /\ outages' \in [Intent -> Nat]
      /\ \A j \in Intent : outages'[j] = outages[j] + (IF j \in hit THEN 1 ELSE 0)
  BY <1>1, OutageCounts
<1>4. GuardsTyped' /\ AsksChain'
  BY <1>1, <1>2, <1>3 DEF GuardsTyped, AsksChain, Idle
<1>5. MemoryFits'
  BY <1>1, <1>2, FS_EmptySet, ClaimGuardsAssumption DEF MemoryFits
<1>6. ASSUME ~overrun
      PROVE  Paid'
  <2>1. ASSUME NEW j \in Intent
        PROVE  /\ Cardinality(PassedOn(j))' \in Nat
               /\ Cardinality(PassedOn(j))' + Due(j)' - outages'[j]
                     <= Cardinality(PassedOn(j)) + Due(j) - outages[j]
    <3>1. PassedOn(j)' = {}
      BY <1>1 DEF PassedOn, Idle
    <3>2. Cardinality(PassedOn(j)) \in Nat /\ Cardinality(PassedOn(j))' = 0
      BY <3>1, PassedOnCounts, FS_EmptySet
    <3>3. Due(j) \in Nat /\ Due(j)' \in Nat /\ Due(j)' <= Due(j) + (IF j \in hit THEN 1 ELSE 0)
      BY <1>1, <1>2 DEF Due
    <3>4. outages[j] \in Nat /\ outages'[j] = outages[j] + (IF j \in hit THEN 1 ELSE 0)
      BY <1>3 DEF GuardsTyped
    <3> HIDE DEF hit
    <3> QED
      BY <3>2, <3>3, <3>4
  <2> QED
    BY <1>1, <1>3, <1>6, <2>1, PaidStays
<1> QED
  BY <1>1, <1>4, <1>5, <1>6

\* A process that comes up on the store it had finds it as it was.
LEMMA BootKept ==
    ASSUME GuardsInv, NEW healthy \in BOOLEAN, BootGuards(healthy)
    PROVE  GuardsInv'
<1> USE DEF GuardsInv
<1> DEFINE hit == IF first \in {"none", first'} THEN {} ELSE Intent
<1>1. /\ UNCHANGED <<setup, stored, asking, grants, asked, overrun>>
      /\ chain' = Chain(healthy) /\ chain = <<>> /\ first' = Head(chain') /\ Outage(hit)
  BY DEF BootGuards
<1>2. /\ outages' \in [Intent -> Nat]
      /\ \A j \in Intent : outages'[j] = outages[j] + (IF j \in hit THEN 1 ELSE 0)
  BY <1>1, OutageCounts
<1>3. first' \in Guards
  <2>1. chain' \in Seq(Guards) /\ chain' # <<>>
    BY <1>1, ChainShape DEF GuardsTyped
  <2> QED
    BY <1>1, <2>1, HeadTailProperties
<1>4. GuardsTyped'
  BY <1>1, <1>2, <1>3 DEF GuardsTyped, Chain
<1>5. \A c \in Caller : asking[c] = Idle
  BY <1>1, EmptySeq DEF AsksChain
<1>6. AsksChain'
  BY <1>1, <1>5 DEF AsksChain
<1>7. MemoryFits'
  BY <1>1, <1>5, FS_EmptySet, ClaimGuardsAssumption DEF MemoryFits
<1>8. ASSUME ~overrun
      PROVE  Paid'
  <2>1. ASSUME NEW j \in Intent
        PROVE  /\ Cardinality(PassedOn(j))' \in Nat
               /\ Cardinality(PassedOn(j))' + Due(j)' - outages'[j]
                     <= Cardinality(PassedOn(j)) + Due(j) - outages[j]
    <3>1. Cardinality(PassedOn(j)) \in Nat /\ Cardinality(PassedOn(j))' = Cardinality(PassedOn(j))
      BY <1>1, PassedOnCounts DEF PassedOn
    <3>2. Due(j) \in Nat /\ Due(j)' \in Nat /\ Due(j)' <= Due(j) + (IF j \in hit THEN 1 ELSE 0)
      BY <1>1, <1>3 DEF Due, Guards
    <3>3. outages[j] \in Nat /\ outages'[j] = outages[j] + (IF j \in hit THEN 1 ELSE 0)
      BY <1>2 DEF GuardsTyped
    <3> HIDE DEF hit
    <3> QED
      BY <3>1, <3>2, <3>3
  <2> QED
    BY <1>1, <1>2, <1>8, <2>1, PaidStays
<1> QED
  BY <1>1, <1>4, <1>6, <1>7, <1>8

LEMMA GuardsInvKept ==
    ASSUME GuardsInv, [GuardsNext]_claimVars
    PROVE  GuardsInv'
<1>1. CASE UNCHANGED claimVars
  BY <1>1 DEF claimVars, events, GuardsInv, GuardsTyped, AsksChain, MemoryFits, Paid, PassedOn, Due, Chain
<1>2. ASSUME NEW c \in Caller, NEW i \in Intent, Claim(c, i)
      PROVE  GuardsInv'
  BY <1>2, ClaimKept
<1>3. ASSUME NEW c \in Caller, Answer(c)
      PROVE  GuardsInv'
  BY <1>3, AnswerKept
<1>4. ASSUME NEW c \in Caller, NEW recorded \in BOOLEAN, ClaimFails(c, recorded)
      PROVE  GuardsInv'
  BY <1>4, ClaimFailsKept
<1>5. ASSUME NEW i \in Intent, Expire(i)
      PROVE  GuardsInv'
  BY <1>5, ExpireKept
<1>6. CASE GuardsCrash
  BY <1>6, CrashKept
<1>7. ASSUME NEW healthy \in BOOLEAN, BootGuards(healthy)
      PROVE  GuardsInv'
  BY <1>7, BootKept
<1>8. QED
  BY <1>1, <1>2, <1>3, <1>4, <1>5, <1>6, <1>7 DEF GuardsNext

(***************************************************************************)
(* However claims interleave, stores fail, lose replies or forget, and     *)
(* processes restart, an intent is granted once, and once more for each    *)
(* outage at most (idempotency.ts).                                        *)
(***************************************************************************)
THEOREM GrantsAlwaysPaid == GuardsSpec => []GrantsPaid
<1>1. GuardsInv => GrantsPaid
  <2> SUFFICES ASSUME GuardsInv, ~overrun, NEW i \in Intent
               PROVE  grants[i] <= 1 + outages[i]
    BY DEF GrantsPaid
  <2>1. Cardinality(PassedOn(i)) \in Nat /\ Due(i) \in Nat
    BY PassedOnCounts DEF Due
  <2>2. grants[i] + Cardinality(PassedOn(i)) + Due(i) <= 1 + outages[i]
    BY DEF GuardsInv, Paid
  <2>3. grants[i] \in Nat /\ outages[i] \in Nat
    BY DEF GuardsInv, GuardsTyped
  <2> QED
    BY <2>1, <2>2, <2>3
<1>2. QED
  BY <1>1, GuardsInvStarts, GuardsInvKept, PTL DEF GuardsSpec

-----------------------------------------------------------------------------
(* Induction over finite sets.                                             *)

LEMMA NatSetInduction ==
    ASSUME NEW T, 0 \in T, \A n \in Nat : n \in T => n + 1 \in T
    PROVE  Nat \subseteq T
<1> DEFINE Bad == Nat \ T
<1>1. SUFFICES ASSUME Bad # {} PROVE FALSE
  OBVIOUS
<1>2. Bad \subseteq Nat
  OBVIOUS
<1>3. PICK n \in Bad : \A m \in Bad : ~ (<<m, n>> \in OpToRel(<, Nat))
  <2> HIDE DEF Bad
  <2> QED BY <1>1, <1>2, NatLessThanWellFounded, WFMin
<1>4. \A m \in Nat : m < n => m \in T
  <2>1. \A m \in Bad : <<m, n>> \in OpToRel(<, Nat) <=> m < n
    BY <1>2 DEF OpToRel
  <2> QED BY <1>3, <2>1
<1>5. n \in Nat /\ n # 0
  OBVIOUS
<1>6. n - 1 \in Nat /\ n - 1 < n /\ n = (n - 1) + 1
  BY <1>5
<1> QED
  BY <1>4, <1>6

LEMMA SubsetInduction ==
    ASSUME NEW S, IsFiniteSet(S), NEW T, {} \in T,
           \A s \in SUBSET S : s # {} /\ (\A x \in s : s \ {x} \in T) => s \in T
    PROVE  S \in T
<1> DEFINE Sizes == {n \in Nat : \A s \in SUBSET S : Cardinality(s) <= n => s \in T}
<1>1. \A s \in SUBSET S : IsFiniteSet(s) /\ Cardinality(s) \in Nat
  BY FS_Subset, FS_CardinalityType
<1>2. 0 \in Sizes
  <2>1. \A s \in SUBSET S : Cardinality(s) <= 0 => s = {}
    BY <1>1, FS_EmptySet
  <2> QED
    BY <2>1
<1>3. ASSUME NEW n \in Nat, n \in Sizes PROVE n + 1 \in Sizes
  <2>1. ASSUME NEW s \in SUBSET S, Cardinality(s) <= n + 1 PROVE s \in T
    <3>1. ASSUME NEW x \in s PROVE s \ {x} \in T
      <4>1. Cardinality(s \ {x}) = Cardinality(s) - 1
        BY <1>1, FS_RemoveElement
      <4> QED
        BY <1>1, <1>3, <2>1, <4>1
    <3> QED
      BY <3>1
  <2> QED
    BY <2>1
<1>4. Cardinality(S) \in Sizes
  <2> HIDE DEF Sizes
  <2>1. Nat \subseteq Sizes
    BY <1>2, <1>3, NatSetInduction
  <2> QED
    BY <1>1, <2>1
<1> QED
  BY <1>1, <1>4


\* What a recursion over the subsets of S computes, given as functions: the element
\* each subset is entered at and the step it contributes.
Unfolds(g, S, base, ch, st) ==
    \A s \in SUBSET S : g[s] = IF s = {} THEN base ELSE st[<<ch[s], g[s \ {ch[s]}]>>]

LEMMA RecursionExists ==
    ASSUME NEW S, IsFiniteSet(S), NEW V, NEW base \in V, NEW st \in [S \X V -> V],
           NEW ch, \A s \in SUBSET S : s # {} => ch[s] \in s
    PROVE  \E g \in [SUBSET S -> V] : Unfolds(g, S, base, ch, st)
<1> DEFINE Eq(g, s) == g[s] = IF s = {} THEN base ELSE st[<<ch[s], g[s \ {ch[s]}]>>]
           Upto(n) == \E g \in [SUBSET S -> V] : \A s \in SUBSET S : Cardinality(s) <= n => Eq(g, s)
           Done == {n \in Nat : Upto(n)}
<1>1. \A s \in SUBSET S : IsFiniteSet(s) /\ Cardinality(s) \in Nat /\ (Cardinality(s) = 0 <=> s = {})
  BY FS_Subset, FS_CardinalityType, FS_EmptySet
<1>2. 0 \in Done
  <2> DEFINE g0 == [s \in SUBSET S |-> base]
  <2>1. g0 \in [SUBSET S -> V]
    OBVIOUS
  <2>2. \A s \in SUBSET S : Cardinality(s) <= 0 => Eq(g0, s)
    BY <1>1
  <2> HIDE DEF g0, Eq
  <2> QED
    BY <2>1, <2>2
<1>3. ASSUME NEW n \in Nat, n \in Done PROVE n + 1 \in Done
  <2>1. PICK g \in [SUBSET S -> V] : \A s \in SUBSET S : Cardinality(s) <= n => Eq(g, s)
    BY <1>3
  <2> DEFINE h == [s \in SUBSET S |-> IF Cardinality(s) <= n THEN g[s] ELSE st[<<ch[s], g[s \ {ch[s]}]>>]]
  <2>2. \A s \in SUBSET S : s # {} => ch[s] \in S /\ s \ {ch[s]} \in SUBSET S /\ Cardinality(s \ {ch[s]}) = Cardinality(s) - 1
    BY <1>1, FS_RemoveElement
  <2>3. ASSUME NEW s \in SUBSET S PROVE h[s] \in V
    <3>1. Cardinality(s) > n => s # {}
      BY <1>1
    <3> QED
      BY <2>2, <3>1, <1>1
  <2>4. ASSUME NEW s \in SUBSET S, Cardinality(s) <= n + 1 PROVE Eq(h, s)
    <3>1. CASE s = {}
      <4>1. Cardinality(s) <= n
        BY <1>1, <3>1
      <4> QED
        BY <2>1, <3>1, <4>1
    <3>2. CASE s # {}
      <4>1. h[s \ {ch[s]}] = g[s \ {ch[s]}]
        BY <1>1, <2>2, <2>4, <3>2
      <4>2. CASE Cardinality(s) <= n
        <5>1. h[s] = g[s] /\ Eq(g, s)
          BY <2>1, <4>2
        <5> QED
          BY <3>2, <4>1, <5>1
      <4>3. CASE ~ (Cardinality(s) <= n)
        BY <3>2, <4>1, <4>3
      <4> QED
        BY <4>2, <4>3
    <3> QED
      BY <3>1, <3>2
  <2>5. h \in [SUBSET S -> V]
    BY <2>3
  <2> HIDE DEF h, Eq
  <2>6. Upto(n + 1)
    BY <2>4, <2>5
  <2> QED
    BY <2>6
<1>4. Upto(Cardinality(S))
  <2> HIDE DEF Upto
  <2>1. Nat \subseteq Done
    <3> HIDE DEF Done
    <3> QED
      BY <1>2, <1>3, NatSetInduction
  <2> QED
    BY <1>1, <2>1
<1>5. PICK g \in [SUBSET S -> V] : \A s \in SUBSET S : Cardinality(s) <= Cardinality(S) => Eq(g, s)
  BY <1>4
<1>6. \A s \in SUBSET S : Cardinality(s) <= Cardinality(S)
  BY FS_Subset
<1> QED
  BY <1>5, <1>6 DEF Unfolds


-----------------------------------------------------------------------------
(***************************************************************************)
(* Sums over a finite set, whose elements MapThenSumSet adds up in an      *)
(* order of its own.                                                       *)
(***************************************************************************)

AnyOf(s) == CHOOSE x \in s : TRUE
Total(w, S) == MapThenSumSet(LAMBDA p : w[p], S)

\* g adds up what w gives the elements of every subset of S.
AddsUp(g, w, S) ==
    g = [s \in SUBSET S |-> IF s = {} THEN 0 ELSE w[AnyOf(s)] + g[s \ {AnyOf(s)}]]

LEMMA AddsUpExists ==
    ASSUME NEW S, IsFiniteSet(S), NEW w, \A x \in S : w[x] \in Nat
    PROVE  \E g : AddsUp(g, w, S)
<1> DEFINE st == [z \in S \X Nat |-> w[z[1]] + z[2]]
           ch == [s \in SUBSET S |-> AnyOf(s)]
<1>1. st \in [S \X Nat -> Nat] /\ 0 \in Nat
  OBVIOUS
<1>2. \A s \in SUBSET S : s # {} => ch[s] \in s /\ ch[s] = AnyOf(s)
  BY DEF AnyOf
<1>3. PICK g \in [SUBSET S -> Nat] : Unfolds(g, S, 0, ch, st)
  <2> HIDE DEF st, ch
  <2> QED BY <1>1, <1>2, RecursionExists
<1>4. ASSUME NEW s \in SUBSET S, s # {} PROVE g[s] = w[AnyOf(s)] + g[s \ {AnyOf(s)}]
  <2>1. g[s] = st[<<ch[s], g[s \ {ch[s]}]>>]
    BY <1>3, <1>4 DEF Unfolds
  <2>2. ch[s] = AnyOf(s) /\ AnyOf(s) \in S /\ g[s \ {AnyOf(s)}] \in Nat
    BY <1>2, <1>4, <1>3
  <2> QED
    BY <2>1, <2>2
<1>5. g[{}] = 0
  BY <1>3 DEF Unfolds
<1>6. \A s \in SUBSET S : g[s] = IF s = {} THEN 0 ELSE w[AnyOf(s)] + g[s \ {AnyOf(s)}]
  BY <1>4, <1>5
<1>7. AddsUp(g, w, S)
  BY <1>3, <1>6 DEF AddsUp
<1> QED
  BY <1>7

LEMMA AddsUpNat ==
    ASSUME NEW S, IsFiniteSet(S), NEW w, \A x \in S : w[x] \in Nat, NEW g, AddsUp(g, w, S),
           NEW s \in SUBSET S
    PROVE  g[s] \in Nat
<1> DEFINE T == {t \in SUBSET S : g[t] \in Nat}
<1>1. {} \in T
  BY DEF AddsUp
<1>2. ASSUME NEW t \in SUBSET s, t # {}, \A x \in t : t \ {x} \in T PROVE t \in T
  <2>1. AnyOf(t) \in t
    BY <1>2 DEF AnyOf
  <2>2. g[t] = w[AnyOf(t)] + g[t \ {AnyOf(t)}]
    BY <1>2 DEF AddsUp
  <2>3. w[AnyOf(t)] \in Nat /\ g[t \ {AnyOf(t)}] \in Nat
    BY <1>2, <2>1
  <2> QED
    BY <2>2, <2>3
<1>3. IsFiniteSet(s)
  BY FS_Subset
<1> HIDE DEF T
<1>4. s \in T
  BY <1>1, <1>2, <1>3, SubsetInduction
<1> QED
  BY <1>4 DEF T

LEMMA AddsUpUnique ==
    ASSUME NEW S, IsFiniteSet(S), NEW w, NEW v, NEW R \in SUBSET S, \A x \in R : w[x] = v[x],
           NEW g, AddsUp(g, w, S), NEW h, AddsUp(h, v, R)
    PROVE  g[R] = h[R]
<1> DEFINE T == {t \in SUBSET R : g[t] = h[t]}
<1>1. {} \in T
  BY DEF AddsUp
<1>2. ASSUME NEW t \in SUBSET R, t # {}, \A x \in t : t \ {x} \in T PROVE t \in T
  <2>1. AnyOf(t) \in t
    BY <1>2 DEF AnyOf
  <2>2. g[t] = w[AnyOf(t)] + g[t \ {AnyOf(t)}] /\ h[t] = v[AnyOf(t)] + h[t \ {AnyOf(t)}]
    BY <1>2 DEF AddsUp
  <2> QED
    BY <1>2, <2>1, <2>2
<1>3. IsFiniteSet(R)
  BY FS_Subset
<1> HIDE DEF T
<1>4. R \in T
  BY <1>1, <1>2, <1>3, SubsetInduction
<1> QED
  BY <1>4 DEF T

LEMMA TotalAddsUp ==
    ASSUME NEW S, IsFiniteSet(S), NEW w, \A x \in S : w[x] \in Nat
    PROVE  \E g : AddsUp(g, w, S) /\ Total(w, S) = g[S]
<1>1. PICK h : AddsUp(h, w, S)
  BY AddsUpExists
<1> QED
  BY <1>1 DEF AddsUp, AnyOf, Total, MapThenSumSet, MapThenFoldSet

LEMMA TotalFrom ==
    ASSUME NEW S, IsFiniteSet(S), NEW w, \A x \in S : w[x] \in Nat, NEW g, AddsUp(g, w, S),
           NEW R \in SUBSET S
    PROVE  Total(w, R) = g[R]
<1>1. IsFiniteSet(R)
  BY FS_Subset
<1>2. PICK h : AddsUp(h, w, R) /\ Total(w, R) = h[R]
  BY <1>1, TotalAddsUp
<1> QED
  BY <1>2, AddsUpUnique

\* The sum of a finite set, and that of one element less.
LEMMA TotalUnfolds ==
    ASSUME NEW S, IsFiniteSet(S), NEW w, \A x \in S : w[x] \in Nat
    PROVE  /\ Total(w, S) \in Nat
           /\ Total(w, {}) = 0
           /\ \A y \in S : Total(w, S) = w[y] + Total(w, S \ {y})
<1>1. PICK g : AddsUp(g, w, S)
  BY AddsUpExists
<1>2. \A s \in SUBSET S : g[s] \in Nat /\ Total(w, s) = g[s]
  BY <1>1, AddsUpNat, TotalFrom
<1>3. \A s \in SUBSET S : s # {} => g[s] = w[AnyOf(s)] + g[s \ {AnyOf(s)}] /\ AnyOf(s) \in s
  BY <1>1 DEF AddsUp, AnyOf
<1>4. g[{}] = 0
  BY <1>1 DEF AddsUp
<1> DEFINE T == {t \in SUBSET S : \A y \in t : g[t] = w[y] + g[t \ {y}]}
<1>5. {} \in T
  OBVIOUS
<1>6. ASSUME NEW t \in SUBSET S, t # {}, \A x \in t : t \ {x} \in T PROVE t \in T
  <2>1. PICK x \in t : g[t] = w[x] + g[t \ {x}]
    BY <1>3, <1>6
  <2>2. ASSUME NEW y \in t PROVE g[t] = w[y] + g[t \ {y}]
    <3>1. CASE y = x
      BY <2>1, <3>1
    <3>2. CASE y # x
      <4>1. g[t \ {x}] = w[y] + g[(t \ {x}) \ {y}]
        BY <1>6, <2>1, <3>2
      <4>2. g[t \ {y}] = w[x] + g[(t \ {y}) \ {x}]
        BY <1>6, <2>1, <3>2
      <4>3. (t \ {x}) \ {y} = (t \ {y}) \ {x} /\ (t \ {x}) \ {y} \in SUBSET S
        OBVIOUS
      <4>4. PICK z : z = g[(t \ {x}) \ {y}] /\ z \in Nat
        BY <1>2, <4>3
      <4>5. PICK wx \in Nat, wy \in Nat : wx = w[x] /\ wy = w[y]
        BY <1>6
      <4>6. g[t \ {x}] = wy + z /\ g[t \ {y}] = wx + z
        BY <4>1, <4>2, <4>3, <4>4, <4>5
      <4>7. g[t] = wx + (wy + z) /\ w[y] + g[t \ {y}] = wy + (wx + z)
        BY <2>1, <4>5, <4>6
      <4> QED
        BY <4>4, <4>5, <4>7
    <3> QED
      BY <3>1, <3>2
  <2> QED
    BY <2>2
<1>7. S \in T
  <2> HIDE DEF T
  <2> QED
    BY <1>5, <1>6, SubsetInduction
<1> QED
  BY <1>2, <1>4, <1>7

\* What positions cost, and what they are worth, are such sums.
LEMMA UsdIsTotal ==
    ASSUME NEW S, IsFiniteSet(S), NEW w, \A p \in S : w[p] = p.usd /\ p.usd \in Nat
    PROVE  UsdOf(S) = Total(w, S)
<1> DEFINE Value(p) == p.usd
           Adds(g) == g = [s \in SUBSET S |-> IF s = {} THEN 0 ELSE
                               Value(CHOOSE x \in s : TRUE) + g[s \ {CHOOSE x \in s : TRUE}]]
<1>1. ASSUME NEW g PROVE AddsUp(g, w, S) <=> Adds(g)
  <2>1. \A s \in SUBSET S : s # {} => w[CHOOSE x \in s : TRUE] = Value(CHOOSE x \in s : TRUE)
    OBVIOUS
  <2> HIDE DEF Value
  <2>2. ASSUME NEW s \in SUBSET S
    PROVE  (IF s = {} THEN 0 ELSE w[CHOOSE x \in s : TRUE] + g[s \ {CHOOSE x \in s : TRUE}])
           = (IF s = {} THEN 0 ELSE Value(CHOOSE x \in s : TRUE) + g[s \ {CHOOSE x \in s : TRUE}])
    <3>1. CASE s = {}
      BY <3>1
    <3>2. CASE s # {}
      BY <2>1, <3>2
    <3> QED
      BY <3>1, <3>2
  <2>3. [s \in SUBSET S |-> IF s = {} THEN 0 ELSE w[CHOOSE x \in s : TRUE] + g[s \ {CHOOSE x \in s : TRUE}]]
        = [s \in SUBSET S |-> IF s = {} THEN 0 ELSE Value(CHOOSE x \in s : TRUE) + g[s \ {CHOOSE x \in s : TRUE}]]
    BY <2>2, Zenon
  <2> QED
    BY <2>3, Zenon DEF AddsUp, AnyOf
<1>2. UsdOf(S) = (CHOOSE g : Adds(g))[S]
  BY Zenon DEF UsdOf, MapThenSumSet, MapThenFoldSet
<1>3. PICK g : Adds(g) /\ UsdOf(S) = g[S]
  <2>1. \A p \in S : w[p] \in Nat
    OBVIOUS
  <2> HIDE DEF Adds
  <2> QED
    BY <1>1, <1>2, <2>1, AddsUpExists
<1>4. AddsUp(g, w, S)
  <2> HIDE DEF Adds
  <2> QED
    BY <1>1, <1>3
<1> QED
  BY <1>3, <1>4, TotalFrom

LEMMA ValuedIsTotal ==
    ASSUME NEW S, IsFiniteSet(S), NEW w,
           \A p \in S : w[p] = (p.units * price[p.token]) \div 100 /\ w[p] \in Nat
    PROVE  Valued(S) = Total(w, S)
<1> DEFINE Value(p) == (p.units * price[p.token]) \div 100
           Adds(g) == g = [s \in SUBSET S |-> IF s = {} THEN 0 ELSE
                               Value(CHOOSE x \in s : TRUE) + g[s \ {CHOOSE x \in s : TRUE}]]
<1>1. \A g : AddsUp(g, w, S) <=> Adds(g)
  <2>1. \A s \in SUBSET S : s # {} => w[CHOOSE x \in s : TRUE] = Value(CHOOSE x \in s : TRUE)
    OBVIOUS
  <2> HIDE DEF Value
  <2>2. ASSUME NEW g PROVE AddsUp(g, w, S) <=> Adds(g)
    <3>1. ASSUME NEW s \in SUBSET S
      PROVE  (IF s = {} THEN 0 ELSE w[CHOOSE x \in s : TRUE] + g[s \ {CHOOSE x \in s : TRUE}])
             = (IF s = {} THEN 0 ELSE Value(CHOOSE x \in s : TRUE) + g[s \ {CHOOSE x \in s : TRUE}])
      <4>1. CASE s = {}
        BY <4>1
      <4>2. CASE s # {}
        BY <2>1, <4>2
      <4> QED
        BY <4>1, <4>2
    <3>2. [s \in SUBSET S |-> IF s = {} THEN 0 ELSE w[CHOOSE x \in s : TRUE] + g[s \ {CHOOSE x \in s : TRUE}]]
          = [s \in SUBSET S |-> IF s = {} THEN 0 ELSE Value(CHOOSE x \in s : TRUE) + g[s \ {CHOOSE x \in s : TRUE}]]
      BY <3>1, Zenon
    <3> QED
      BY <3>2, Zenon DEF AddsUp, AnyOf
  <2> QED
    BY <2>2, Zenon
<1>2. Valued(S) = (CHOOSE g : Adds(g))[S]
  BY Zenon DEF Valued, MapThenSumSet, MapThenFoldSet
<1>3. PICK g : Adds(g) /\ Valued(S) = g[S]
  <2> HIDE DEF Adds
  <2> QED
    BY <1>1, <1>2, AddsUpExists
<1>4. AddsUp(g, w, S)
  <2> HIDE DEF Adds
  <2> QED
    BY <1>1, <1>3
<1> QED
  BY <1>3, <1>4, TotalFrom

\* The cost of some positions, and of one more or less.
LEMMA UsdSums ==
    ASSUME NEW S, IsFiniteSet(S), \A p \in S : p.usd \in Nat
    PROVE  /\ UsdOf(S) \in Nat
           /\ UsdOf({}) = 0
           /\ \A p \in S : UsdOf(S) = p.usd + UsdOf(S \ {p})
<1> DEFINE w == [p \in S |-> p.usd]
<1>1. \A p \in S : w[p] = p.usd
  OBVIOUS
<1> HIDE DEF w
<1>2. \A R \in SUBSET S : UsdOf(R) = Total(w, R)
  BY <1>1, UsdIsTotal, FS_Subset
<1> QED
  BY <1>1, <1>2, TotalUnfolds

LEMMA UsdAdds ==
    ASSUME NEW S, IsFiniteSet(S), \A p \in S : p.usd \in Nat, NEW x, x.usd \in Nat
    PROVE  UsdOf(S \cup {x}) \in Nat /\ UsdOf(S \cup {x}) <= UsdOf(S) + x.usd
<1>1. IsFiniteSet(S \cup {x}) /\ \A p \in S \cup {x} : p.usd \in Nat
  BY FS_AddElement
<1>2. UsdOf(S) \in Nat /\ UsdOf(S \cup {x}) \in Nat
  BY <1>1, UsdSums
<1>3. CASE x \in S
  <2>1. S \cup {x} = S
    BY <1>3
  <2> QED
    BY <1>2, <2>1
<1>4. CASE x \notin S
  <2>1. UsdOf(S \cup {x}) = x.usd + UsdOf((S \cup {x}) \ {x})
    BY <1>1, UsdSums
  <2>2. (S \cup {x}) \ {x} = S
    BY <1>4
  <2>3. UsdOf(S \cup {x}) = x.usd + UsdOf(S)
    BY <2>1, <2>2
  <2> QED
    BY <1>2, <2>3
<1> QED
  BY <1>3, <1>4

LEMMA ValuedNat ==
    ASSUME NEW S, IsFiniteSet(S), \A p \in S : p.units \in Nat /\ price[p.token] \in Nat
    PROVE  Valued(S) \in Nat
<1> DEFINE w == [p \in S |-> (p.units * price[p.token]) \div 100]
<1>1. \A p \in S : w[p] = (p.units * price[p.token]) \div 100 /\ w[p] \in Nat
  <2>1. \A a, b \in Nat : (a * b) \div 100 \in Nat
    OBVIOUS
  <2> QED
    BY <2>1
<1> HIDE DEF w
<1> QED
  BY <1>1, ValuedIsTotal, TotalUnfolds

-----------------------------------------------------------------------------
(* The size of an order.                                                   *)

LEMMA MaxOfTwo ==
    ASSUME NEW a \in Int, NEW b \in Int
    PROVE  Max({a, b}) \in {a, b} /\ Max({a, b}) >= a /\ Max({a, b}) >= b
<1>1. \E x \in {a, b} : \A y \in {a, b} : x >= y
  OBVIOUS
<1> QED
  BY <1>1 DEF Max

LEMMA MinOfTwo ==
    ASSUME NEW a \in Int, NEW b \in Int
    PROVE  Min({a, b}) \in {a, b} /\ Min({a, b}) <= a /\ Min({a, b}) <= b
<1>1. \E x \in {a, b} : \A y \in {a, b} : x <= y
  OBVIOUS
<1> QED
  BY <1>1 DEF Min

LEMMA MinOfFour ==
    ASSUME NEW a \in Nat, NEW b \in Nat, NEW c \in Nat, NEW d \in Nat
    PROVE  /\ Min({a, b, c, d}) \in Nat
           /\ Min({a, b, c, d}) <= c /\ Min({a, b, c, d}) <= d
<1>1. \E x \in {a, b, c, d} : \A y \in {a, b, c, d} : x <= y
  OBVIOUS
<1> QED
  BY <1>1 DEF Min

LEMMA ClampBetween ==
    ASSUME NEW value \in Int, NEW low \in Nat, NEW high \in Nat
    PROVE  Clamp(value, low, high) \in Nat
<1>1. PICK m \in Int : m = Min({high, value})
  BY MinOfTwo
<1>2. Max({low, m}) \in {low, m} /\ Max({low, m}) >= low
  BY MaxOfTwo
<1> QED
  BY <1>1, <1>2 DEF Clamp

LEMMA MaxIn ==
    ASSUME NEW s \in SUBSET Int, IsFiniteSet(s), s # {}
    PROVE  Max(s) \in s /\ \A y \in s : Max(s) >= y
<1> DEFINE Bounded == {t \in SUBSET s : t # {} => \E x \in t : \A y \in t : x >= y}
<1>1. {} \in Bounded
  OBVIOUS
<1>2. ASSUME NEW t \in SUBSET s, t # {}, \A x \in t : t \ {x} \in Bounded PROVE t \in Bounded
  <2>1. PICK x \in t : TRUE
    BY <1>2
  <2>2. CASE t \ {x} = {}
    BY <2>2, <2>1
  <2>3. CASE t \ {x} # {}
    <3>1. PICK z \in t \ {x} : \A y \in t \ {x} : z >= y
      BY <1>2, <2>1, <2>3
    <3>2. x >= z \/ z >= x
      BY <2>1
    <3> QED
      BY <2>1, <3>1, <3>2
  <2> QED
    BY <2>2, <2>3
<1> HIDE DEF Bounded
<1>3. s \in Bounded
  BY <1>1, <1>2, SubsetInduction
<1>4. \E x \in s : \A y \in s : x >= y
  BY <1>3 DEF Bounded
<1> QED
  BY <1>4 DEF Max

\* The fold over the seven multipliers is the value of a function on their positions.
LEMMA FractionFolds ==
    ASSUME NEW m, \A i \in 1..7 : m[i] \in Nat, DOMAIN m = 1..7, NEW base \in Nat
    PROVE  \E g : /\ g = [s \in SUBSET (1..7) |-> IF s = {} THEN base ELSE (g[s \ {Max(s)}] * m[Max(s)]) \div 100]
                  /\ FoldLeft(LAMBDA risk, multiplier : (risk * multiplier) \div 100, base, m) = g[1..7]
<1> DEFINE S == 1..7
           st == [z \in S \X Nat |-> (z[2] * m[z[1]]) \div 100]
           ch == [s \in SUBSET S |-> Max(s)]
           Folds(g) == g = [s \in SUBSET S |-> IF s = {} THEN base ELSE (g[s \ {Max(s)}] * m[Max(s)]) \div 100]
<1>1. IsFiniteSet(S)
  BY 1 \in Int, 7 \in Int, FS_Interval, Zenon
<1>2. \A a, b \in Nat : (a * b) \div 100 \in Nat
  OBVIOUS
<1>3. \A s \in SUBSET S : s # {} => Max(s) \in S /\ Max(s) \in s
  <2>1. ASSUME NEW s \in SUBSET S, s # {} PROVE Max(s) \in s
    <3>1. IsFiniteSet(s)
      BY <1>1, <2>1, FS_Subset
    <3>2. s \in SUBSET Int
      BY <2>1
    <3> QED
      BY <2>1, <3>1, <3>2, MaxIn
  <2> QED
    BY <2>1
<1>4. st \in [S \X Nat -> Nat]
  BY <1>2
<1>5. PICK h \in [SUBSET S -> Nat] : Unfolds(h, S, base, ch, st)
  <2>1. \A s \in SUBSET S : s # {} => ch[s] \in s
    BY <1>3
  <2> HIDE DEF S, st, ch
  <2> QED
    BY <1>1, <1>4, <2>1, RecursionExists
<1>6. Folds(h)
  <2>1. h[{}] = base
    BY <1>5 DEF Unfolds
  <2>2. ASSUME NEW s \in SUBSET S, s # {} PROVE h[s] = (h[s \ {Max(s)}] * m[Max(s)]) \div 100
    <3>1. h[s] = st[<<ch[s], h[s \ {ch[s]}]>>]
      BY <1>5, <2>2 DEF Unfolds
    <3>2. ch[s] = Max(s) /\ Max(s) \in S /\ h[s \ {Max(s)}] \in Nat
      BY <1>3, <1>5, <2>2
    <3> HIDE DEF S
    <3> QED
      BY <3>1, <3>2
  <2> HIDE DEF S
  <2> QED
    BY <1>5, <2>1, <2>2
<1>7. FoldLeft(LAMBDA risk, multiplier : (risk * multiplier) \div 100, base, m) = (CHOOSE g : Folds(g))[DOMAIN m]
  BY Zenon DEF FoldLeft, MapThenFoldSet
<1>8. PICK g : Folds(g) /\ FoldLeft(LAMBDA risk, multiplier : (risk * multiplier) \div 100, base, m) = g[S]
  <2> HIDE DEF Folds
  <2> QED
    BY <1>6, <1>7
<1> QED
  BY <1>8

LEMMA FractionNat ==
    ASSUME NEW m, \A i \in 1..7 : m[i] \in Nat, DOMAIN m = 1..7, NEW base \in Nat
    PROVE  FoldLeft(LAMBDA risk, multiplier : (risk * multiplier) \div 100, base, m) \in Nat
<1> DEFINE S == 1..7
           Folds(g) == g = [s \in SUBSET S |-> IF s = {} THEN base ELSE (g[s \ {Max(s)}] * m[Max(s)]) \div 100]
<1>1. IsFiniteSet(S)
  BY 1 \in Int, 7 \in Int, FS_Interval, Zenon
<1>2. \A a, b \in Nat : (a * b) \div 100 \in Nat
  OBVIOUS
<1>3. ASSUME NEW s \in SUBSET S, s # {} PROVE Max(s) \in S /\ Max(s) \in s
  <2>1. IsFiniteSet(s)
    BY <1>1, FS_Subset
  <2>2. s \in SUBSET Int
    OBVIOUS
  <2> QED
    BY <1>3, <2>1, <2>2, MaxIn
<1>4. PICK g : Folds(g) /\ FoldLeft(LAMBDA risk, multiplier : (risk * multiplier) \div 100, base, m) = g[S]
  BY FractionFolds
<1>5. g[S] \in Nat
  <2> DEFINE T == {t \in SUBSET S : g[t] \in Nat}
  <2>1. {} \in T
    BY <1>4
  <2>2. ASSUME NEW t \in SUBSET S, t # {}, \A x \in t : t \ {x} \in T PROVE t \in T
    <3>1. g[t] = (g[t \ {Max(t)}] * m[Max(t)]) \div 100
      BY <1>4, <2>2
    <3>2. g[t \ {Max(t)}] \in Nat /\ m[Max(t)] \in Nat
      BY <1>3, <2>2
    <3> HIDE DEF S
    <3> QED
      BY <1>2, <2>2, <3>1, <3>2
  <2> HIDE DEF T, S
  <2>3. S \in T
    BY <1>1, <2>1, <2>2, SubsetInduction
  <2> QED
    BY <2>3 DEF T
<1> QED
  BY <1>4, <1>5

LEMMA DivNat ==
    ASSUME NEW a \in Nat, NEW d \in Nat \ {0}
    PROVE  a \div d \in Nat /\ (a >= d => a \div d > 0)
OBVIOUS

LEMMA ShareBetween ==
    ASSUME NEW a \in Nat, NEW h \in Nat, NEW u \in Nat \ {0}, h <= u
    PROVE  (a * h) \div u \in 0..a
<1>1. a * h <= a * u /\ a * h \in Nat /\ a * u \in Nat
  OBVIOUS
<1>2. PICK x \in Nat : x = a * h
  BY <1>1
<1>3. x \div u \in Nat /\ u * (x \div u) <= x
  OBVIOUS
<1>4. PICK q \in Nat : q = x \div u
  BY <1>3
<1>5. u * q <= u * a
  BY <1>1, <1>2, <1>3, <1>4
<1>6. q <= a
  BY <1>5
<1> QED
  BY <1>2, <1>4, <1>6

-----------------------------------------------------------------------------
(***************************************************************************)
(* The positions of some strategies in some tokens, and how many they are. *)
(***************************************************************************)
Class(positions, tokens, strategies) ==
    {p \in positions : p.token \in tokens /\ p.strategy \in strategies}

Within(positions, tokens, strategies, n) == Cardinality(Class(positions, tokens, strategies)) <= n

Positioned(p) ==
    /\ p = [id |-> p.id, token |-> p.token, strategy |-> p.strategy,
            usd |-> p.usd, units |-> p.units, tp1 |-> p.tp1]
    /\ p.token \in Token
    /\ p.strategy \in Core \cup CopyProfiles \cup {AiStrategy}

HeldTyped == IsFiniteSet(held) /\ \A p \in held : Positioned(p)

\* SlotsHold said of classes.
Capped(positions) ==
    /\ Cardinality(positions) <= MaxConcurrent
    /\ Within(positions, Token, {AiStrategy}, MaxAiOpen)
    /\ Within(positions, Token, CopyProfiles, MaxCopies)
    /\ \A t \in Token :
          /\ Within(positions, {t}, CopyProfiles, MaxSlots)
          /\ \A s \in Core \cup {AiStrategy} : Within(positions, {t}, {s}, 1)

EntriesInv == HeldTyped /\ Capped(held)

LEMMA OneMore ==
    ASSUME NEW S, IsFiniteSet(S), NEW x
    PROVE  /\ IsFiniteSet(S \cup {x}) /\ Cardinality(S \cup {x}) \in Nat
           /\ Cardinality(S \cup {x}) <= Cardinality(S) + 1
<1>1. Cardinality(S) \in Nat
  BY FS_CardinalityType
<1>2. IsFiniteSet(S \cup {x}) /\ Cardinality(S \cup {x}) = IF x \in S THEN Cardinality(S) ELSE Cardinality(S) + 1
  BY FS_AddElement
<1>3. QED
  BY <1>1, <1>2

LEMMA OneLess ==
    ASSUME NEW S, IsFiniteSet(S), NEW x \in S
    PROVE  /\ IsFiniteSet(S \ {x}) /\ Cardinality(S \ {x}) \in Nat
           /\ Cardinality(S \ {x}) = Cardinality(S) - 1
<1>1. Cardinality(S) \in Nat
  BY FS_CardinalityType
<1>2. IsFiniteSet(S \ {x}) /\ Cardinality(S \ {x}) = IF x \in S THEN Cardinality(S) - 1 ELSE Cardinality(S)
  BY FS_RemoveElement
<1>3. Cardinality(S \ {x}) \in Nat
  BY <1>2, FS_CardinalityType
<1>4. QED
  BY <1>1, <1>2, <1>3

LEMMA ClassFinite ==
    ASSUME NEW positions, IsFiniteSet(positions), NEW tokens, NEW strategies
    PROVE  /\ IsFiniteSet(Class(positions, tokens, strategies))
           /\ Cardinality(Class(positions, tokens, strategies)) \in Nat
<1>1. Class(positions, tokens, strategies) \in SUBSET positions
  BY DEF Class
<1>2. QED
  BY <1>1, FS_Subset, FS_CardinalityType

\* One more position, where there is room for it.
LEMMA ClassGrows ==
    ASSUME NEW positions, IsFiniteSet(positions), NEW x, NEW tokens, NEW strategies, NEW n \in Nat,
           Within(positions, tokens, strategies, n),
           x.token \in tokens /\ x.strategy \in strategies =>
              Cardinality(Class(positions, tokens, strategies)) < n
    PROVE  Within(positions \cup {x}, tokens, strategies, n)
<1> DEFINE c == Class(positions, tokens, strategies)
           d == Class(positions \cup {x}, tokens, strategies)
<1>1. IsFiniteSet(c) /\ Cardinality(c) \in Nat
  BY ClassFinite
<1>2. CASE x.token \in tokens /\ x.strategy \in strategies
  <2>1. d = c \cup {x}
    BY <1>2 DEF Class
  <2> HIDE DEF c
  <2>2. Cardinality(c \cup {x}) <= Cardinality(c) + 1
    BY <1>1, OneMore
  <2>3. Cardinality(c \cup {x}) \in Nat
    BY <1>1, OneMore
  <2>4. QED
    BY <1>1, <1>2, <2>1, <2>2, <2>3 DEF c, Within
<1>3. CASE ~ (x.token \in tokens /\ x.strategy \in strategies)
  <2>1. d = c
    BY <1>3 DEF Class
  <2>2. QED
    BY <2>1 DEF Within
<1>4. QED
  BY <1>2, <1>3

\* Fewer positions, or one replaced by what is left of it.
LEMMA ClassShrinks ==
    ASSUME NEW positions, IsFiniteSet(positions), NEW p \in positions, NEW tokens, NEW strategies,
           NEW n \in Nat, Within(positions, tokens, strategies, n)
    PROVE  /\ Within(positions \ {p}, tokens, strategies, n)
           /\ \A r : r.token = p.token /\ r.strategy = p.strategy =>
                     Within((positions \ {p}) \cup {r}, tokens, strategies, n)
<1> DEFINE c == Class(positions, tokens, strategies)
           d == Class(positions \ {p}, tokens, strategies)
<1>1. IsFiniteSet(c) /\ Cardinality(c) \in Nat /\ IsFiniteSet(positions \ {p})
  BY ClassFinite, FS_RemoveElement
<1>2. d = c \ {p}
  BY DEF Class
<1>3. /\ IsFiniteSet(d) /\ Cardinality(d) \in Nat
      /\ Cardinality(d) = IF p \in c THEN Cardinality(c) - 1 ELSE Cardinality(c)
  BY <1>1, <1>2, FS_RemoveElement, ClassFinite
<1>4. Within(positions \ {p}, tokens, strategies, n)
  BY <1>1, <1>3 DEF Within
<1>5. ASSUME NEW r, r.token = p.token, r.strategy = p.strategy
      PROVE  Within((positions \ {p}) \cup {r}, tokens, strategies, n)
  <2>1. p \in c <=> r.token \in tokens /\ r.strategy \in strategies
    BY <1>5 DEF Class
  <2>2. r.token \in tokens /\ r.strategy \in strategies => Cardinality(d) < n
    BY <1>1, <1>3, <2>1 DEF Within
  <2>3. QED
    BY <1>1, <1>4, <2>2, ClassGrows
<1>6. QED
  BY <1>4, <1>5

\* What is left of a position of which a part was sold.
LEMMA PartLeft ==
    ASSUME NEW p, Positioned(p), NEW tp1Left, NEW unitsLeft, NEW usdLeft
    PROVE  [p EXCEPT !.tp1 = tp1Left, !.units = unitsLeft, !.usd = usdLeft] =
           [id |-> p.id, token |-> p.token, strategy |-> p.strategy, usd |-> usdLeft, units |-> unitsLeft, tp1 |-> tp1Left]
<1>1. PICK i, t, s, usd, units, tp1 :
         p = [id |-> i, token |-> t, strategy |-> s, usd |-> usd, units |-> units, tp1 |-> tp1]
  BY Zenon DEF Positioned
<1>2. [p EXCEPT !.tp1 = tp1Left, !.units = unitsLeft, !.usd = usdLeft] =
      [[[p EXCEPT !.tp1 = tp1Left] EXCEPT !.units = unitsLeft] EXCEPT !.usd = usdLeft]
  BY Zenon
<1>3. [p EXCEPT !.tp1 = tp1Left] =
      [id |-> i, token |-> t, strategy |-> s, usd |-> usd, units |-> units, tp1 |-> tp1Left]
  BY ONLY <1>1
<1>4. [[id |-> i, token |-> t, strategy |-> s, usd |-> usd, units |-> units, tp1 |-> tp1Left]
          EXCEPT !.units = unitsLeft] =
      [id |-> i, token |-> t, strategy |-> s, usd |-> usd, units |-> unitsLeft, tp1 |-> tp1Left]
  OBVIOUS
<1>5. [[id |-> i, token |-> t, strategy |-> s, usd |-> usd, units |-> unitsLeft, tp1 |-> tp1Left]
          EXCEPT !.usd = usdLeft] =
      [id |-> i, token |-> t, strategy |-> s, usd |-> usdLeft, units |-> unitsLeft, tp1 |-> tp1Left]
  OBVIOUS
<1>6. p.id = i /\ p.token = t /\ p.strategy = s
  BY ONLY <1>1
<1> QED
  BY ONLY <1>2, <1>3, <1>4, <1>5, <1>6

-----------------------------------------------------------------------------
(* Requests, fills and the caps.                                           *)

LEMMA LimitsNat ==
    /\ BaseRisk \in Nat /\ MinRisk \in Nat /\ MaxRisk \in Nat /\ MaxPositionUsd \in Nat
    /\ MaxTokenUsd \in Nat /\ MaxTotalUsd \in Nat /\ MaxSlippageBps \in Nat
    /\ MinLiquidityUsd \in Nat /\ MaxDrawdownPct \in Nat /\ DustUsd \in Nat
BY RiskAssumption DEF RiskLimits

LEMMA MultipliersNat ==
    ASSUME NEW r, ValidRequest(r)
    PROVE  /\ DOMAIN Multipliers(r) = 1..7
           /\ \A i \in 1..7 : Multipliers(r)[i] \in Nat
<1>1. /\ r.confidence \in 0..100 /\ r.performance \in Nat /\ r.regime \in Regimes
      /\ r.liquidity \in Nat /\ r.drawdown \in Nat
  BY DEF ValidRequest, Amounts
<1>2. 50 + r.confidence \div 2 \in Nat
  BY <1>1
<1>3. Clamp(r.performance, 50, 150) \in Nat
  <2>1. r.performance \in Int /\ 50 \in Nat /\ 150 \in Nat
    BY <1>1
  <2> QED
    BY <2>1, ClampBetween, Zenon
<1>4. RegimeMultiplier(r.regime) \in Nat
  BY <1>1 DEF RegimeMultiplier, Regimes
<1>5. LiquidityMultiplier(r.liquidity) \in Nat
  <2>1. MinLiquidityUsd \in Nat \ {0}
    BY LimitsNat, RiskOrder
  <2>2. PICK x \in Int : x = 4 * (r.liquidity - MinLiquidityUsd)
    BY <1>1, <2>1
  <2>3. 60 + x \div MinLiquidityUsd \in Int
    BY <2>1
  <2> QED
    BY <2>2, <2>3, ClampBetween DEF LiquidityMultiplier
<1>6. DrawdownMultiplier(r.drawdown) \in Nat
  <2>1. MaxDrawdownPct \in Nat \ {0}
    BY LimitsNat, RiskOrder
  <2>2. PICK x \in Int : x = 80 * r.drawdown
    BY <1>1
  <2>3. 100 - x \div MaxDrawdownPct \in Int
    BY <2>1
  <2> QED
    BY <2>2, <2>3, ClampBetween DEF DrawdownMultiplier
<1>7. PICK a \in Nat, b \in Nat, c \in Nat, d \in Nat, e \in Nat, f \in Nat, g \in Nat :
         Multipliers(r) = <<a, b, c, d, e, f, g>>
  BY <1>2, <1>3, <1>4, <1>5, <1>6 DEF Multipliers
<1> QED
  BY <1>7

\* An approved order is no larger than what was asked for and what is there to pay it,
\* and what was asked for fits under the caps.
LEMMA SizeFits ==
    ASSUME NEW r, RiskSize(r) # 0, r.available \in Nat
    PROVE  /\ RiskSize(r) \in Nat /\ r.size \in Nat /\ r.liquidity \in Nat
           /\ RiskSize(r) <= r.size /\ RiskSize(r) <= r.available
           /\ r.tokenExposure \in Nat /\ r.tokenExposure + r.size <= MaxTokenUsd
           /\ r.allocated \in Nat /\ r.allocated + r.size <= MaxTotalUsd
<1>1. ValidRequest(r) /\ Rejections(r) = {} /\ RiskSize(r) = Sized(r)
  BY DEF RiskSize, Approved
<1>2. r.size \in Nat /\ r.total \in Nat /\ r.liquidity \in Nat /\ r.tokenExposure \in Nat /\ r.allocated \in Nat
  BY <1>1 DEF ValidRequest, Amounts
<1>3. /\ "TOKEN_EXPOSURE_EXCEEDED" \in DOMAIN Gates(r)
      /\ Gates(r)["TOKEN_EXPOSURE_EXCEEDED"] = (Charged(r.tokenExposure, r) > MaxTokenUsd)
      /\ "TOTAL_EXPOSURE_EXCEEDED" \in DOMAIN Gates(r)
      /\ Gates(r)["TOTAL_EXPOSURE_EXCEEDED"] = (Charged(r.allocated, r) > MaxTotalUsd)
  BY Zenon DEF Gates
<1>4. ~ (Charged(r.tokenExposure, r) > MaxTokenUsd) /\ ~ (Charged(r.allocated, r) > MaxTotalUsd)
  BY <1>1, <1>3 DEF Rejections
<1>5. r.tokenExposure + r.size <= MaxTokenUsd /\ r.allocated + r.size <= MaxTotalUsd
  BY <1>2, <1>4, LimitsNat DEF Charged
<1>6. RiskFraction(r) \in Nat
  <2>1. FoldLeft(LAMBDA risk, multiplier : (risk * multiplier) \div 100, BaseRisk, Multipliers(r)) \in Nat
    BY <1>1, MultipliersNat, FractionNat, LimitsNat
  <2>2. PICK v \in Int : RiskFraction(r) = Clamp(v, MinRisk, MaxRisk)
    <3>1. \A v \in Nat : v \in Int
      OBVIOUS
    <3> QED
      BY <2>1, <3>1, Zenon DEF RiskFraction
  <2> QED
    BY <2>2, ClampBetween, LimitsNat
<1>7. (r.total * RiskFraction(r)) \div 1000000 \in Nat
  <2>1. \A a, b \in Nat : (a * b) \div 1000000 \in Nat
    BY SMT
  <2> QED
    BY <1>2, <1>6, <2>1, SMT
<1>8. (r.available * 95) \div 100 \in Nat /\ (r.available * 95) \div 100 <= r.available
  OBVIOUS
<1>9. Sized(r) \in Nat /\ Sized(r) <= (r.available * 95) \div 100 /\ Sized(r) <= r.size
  <2>1. PICK a \in Nat, b \in Nat : a = (r.total * RiskFraction(r)) \div 1000000 /\ b = MaxPositionUsd
    BY <1>7, LimitsNat, SMT
  <2>2. PICK c \in Nat, d \in Nat : c = (r.available * 95) \div 100 /\ d = r.size
    BY <1>2, <1>8, SMT
  <2>3. Sized(r) = Min({a, b, c, d})
    BY <2>1, <2>2, SMT DEF Sized
  <2>4. Min({a, b, c, d}) \in Nat /\ Min({a, b, c, d}) <= c /\ Min({a, b, c, d}) <= d
    BY MinOfFour, Zenon
  <2> QED
    BY <2>2, <2>3, <2>4, SMT
<1> QED
  BY <1>1, <1>2, <1>5, <1>8, <1>9

LEMMA MinIn ==
    ASSUME NEW S, S # {}, S \subseteq Nat
    PROVE  Min(S) \in S
<1>1. PICK n \in S : \A m \in S : ~ (<<m, n>> \in OpToRel(<, Nat))
  BY NatLessThanWellFounded, WFMin, Zenon
<1>2. ASSUME NEW m \in S PROVE n <= m
  <2>1. m \in Nat /\ n \in Nat
    OBVIOUS
  <2>2. <<m, n>> \in OpToRel(<, Nat) <=> m < n
    BY <2>1 DEF OpToRel
  <2>3. ~ (m < n)
    BY <1>1, <2>2
  <2> QED
    BY <2>1, <2>3
<1> QED
  BY <1>1, <1>2 DEF Min

\* A PAPER fill has a price.
LEMMA FillPriced ==
    ASSUME NEW p \in Nat \ {0}, NEW usd \in Nat, NEW liquidity \in Nat
    PROVE  PaperBuyPrice(p, AppliedSlippage(PaperSlippageBps(usd, liquidity), MaxSlippageBps)) \in Nat \ {0}
<1>1. PICK slip \in Nat : slip <= 9999 /\ slip = AppliedSlippage(PaperSlippageBps(usd, liquidity), MaxSlippageBps)
  <2>1. PICK half \in Nat : half = MaxSlippageBps \div 2 /\ half <= 9999
    BY LimitsNat, EntriesAssumption, SMT
  <2>2. PICK e : e = PaperSlippageBps(usd, liquidity)
    OBVIOUS
  <2>3. ASSUME e \in 0 .. 9999 PROVE \E slip \in Nat : slip <= 9999 /\ slip = AppliedSlippage(e, MaxSlippageBps)
    <3>1. AppliedSlippage(e, MaxSlippageBps) = e
      BY <2>3 DEF AppliedSlippage
    <3>2. e \in Nat /\ e <= 9999
      BY <2>3, SMT
    <3> QED
      BY <3>1, <3>2
  <2>4. ASSUME ~(e \in 0 .. 9999) PROVE \E slip \in Nat : slip <= 9999 /\ slip = AppliedSlippage(e, MaxSlippageBps)
    <3>1. AppliedSlippage(e, MaxSlippageBps) = half
      BY <2>1, <2>4 DEF AppliedSlippage
    <3> QED
      BY <2>1, <3>1
  <2>5. \E slip \in Nat : slip <= 9999 /\ slip = AppliedSlippage(e, MaxSlippageBps)
    BY <2>3, <2>4
  <2> QED
    BY <2>2, <2>5
<1>2. PICK d \in Nat \ {0} : d = 10000 - slip /\ d <= 10000
  BY <1>1, SMT
<1>3. PICK x \in Nat : x = p * 10000 /\ x >= d
  BY <1>2, SMT
<1>4. PaperBuyPrice(p, slip) = x \div d
  BY <1>2, <1>3, SMT DEF PaperBuyPrice
<1> QED
  BY <1>1, <1>2, <1>3, <1>4, DivNat, SMT

-----------------------------------------------------------------------------
(***************************************************************************)
(* The account: what is spent, what it was spent on, and the caps.         *)
(***************************************************************************)
Priced(p) == p.usd \in Nat /\ p.units \in Nat

AccountInv ==
    /\ cash \in Nat /\ price \in [Token -> Nat \ {0}]
    /\ \A p \in held : Priced(p)
    /\ CapsHold

LEMMA UsdReplaced ==
    ASSUME NEW S, IsFiniteSet(S), \A p \in S : p.usd \in Nat, NEW p \in S
    PROVE  /\ UsdOf(S \ {p}) <= UsdOf(S)
           /\ \A r : r.usd \in Nat /\ r.usd <= p.usd => UsdOf((S \ {p}) \cup {r}) <= UsdOf(S)
<1>1. IsFiniteSet(S \ {p}) /\ \A x \in S \ {p} : x.usd \in Nat
  BY FS_RemoveElement
<1>2. UsdOf(S) \in Nat /\ UsdOf(S \ {p}) \in Nat /\ UsdOf(S) = p.usd + UsdOf(S \ {p}) /\ p.usd \in Nat
  BY <1>1, UsdSums
<1>3. UsdOf(S \ {p}) <= UsdOf(S)
  BY <1>2
<1>4. ASSUME NEW r, r.usd \in Nat, r.usd <= p.usd PROVE UsdOf((S \ {p}) \cup {r}) <= UsdOf(S)
  <2>1. UsdOf((S \ {p}) \cup {r}) \in Nat /\ UsdOf((S \ {p}) \cup {r}) <= UsdOf(S \ {p}) + r.usd
    BY <1>1, <1>4, UsdAdds
  <2> QED
    BY <1>2, <1>4, <2>1
<1> QED
  BY ONLY <1>3, <1>4

LEMMA InFinite ==
    ASSUME HeldTyped, AccountInv, NEW t
    PROVE  /\ IsFiniteSet(held) /\ \A p \in held : p.usd \in Nat
           /\ IsFiniteSet(In(t)) /\ \A p \in In(t) : p.usd \in Nat
<1>1. In(t) \in SUBSET held
  BY DEF In
<1> QED
  BY <1>1, FS_Subset DEF HeldTyped, AccountInv, Priced

\* What an entry adds is paid for and fits under the caps.
LEMMA EntryPays ==
    ASSUME HeldTyped, AccountInv, NEW token \in Token, NEW strategy, NEW confidence, NEW look,
           ExecuteEntry(token, strategy, confidence, look)
    PROVE  \/ held' = held /\ cash' = cash
           \/ \E x : /\ held' = held \cup {x} /\ x.token = token /\ Priced(x)
                     /\ x.usd <= cash /\ cash' = cash - x.usd
                     /\ UsdOf(held) + x.usd <= MaxTotalUsd
                     /\ UsdOf(In(token)) + x.usd <= MaxTokenUsd
<1> DEFINE r == EntryRequest(token, strategy, confidence, look)
           usd == RiskSize(r)
           fill == PaperBuyPrice(price[token], AppliedSlippage(PaperSlippageBps(usd, look.liquidity), MaxSlippageBps))
           x == [id |-> opened, token |-> token, strategy |-> strategy,
                 usd |-> usd, units |-> (100 * usd) \div fill, tp1 |-> TRUE]
<1>1. CASE usd = 0
  BY <1>1 DEF ExecuteEntry
<1>2. CASE usd # 0
  <2>1. /\ r.available = cash /\ r.liquidity = look.liquidity
        /\ r.allocated = UsdOf(held) /\ r.tokenExposure = UsdOf(In(token))
    BY SMT DEF EntryRequest
  <2>2. held' = held \cup {x} /\ cash' = cash - usd
    BY <1>2 DEF ExecuteEntry
  <2>3. cash \in Nat /\ price[token] \in Nat \ {0}
    BY DEF AccountInv
  <2> HIDE DEF r
  <2>4. /\ RiskSize(r) \in Nat /\ r.size \in Nat /\ r.liquidity \in Nat
        /\ RiskSize(r) <= r.size /\ RiskSize(r) <= r.available
        /\ r.tokenExposure \in Nat /\ r.tokenExposure + r.size <= MaxTokenUsd
        /\ r.allocated \in Nat /\ r.allocated + r.size <= MaxTotalUsd
    BY <1>2, <2>1, <2>3, SizeFits
  <2>5. fill \in Nat \ {0}
    BY <2>1, <2>3, <2>4, FillPriced
  <2>6. PICK n \in Nat : n = usd
    BY <2>4
  <2>7. /\ n <= cash
        /\ UsdOf(held) + n <= MaxTotalUsd /\ UsdOf(In(token)) + n <= MaxTokenUsd
    BY <2>1, <2>3, <2>4, <2>6, LimitsNat
  <2> HIDE DEF usd, fill
  <2>8. (100 * n) \div fill \in Nat
    BY <2>5, DivNat
  <2>9. x.token = token /\ x.usd = n /\ x.units \in Nat
    BY <2>6, <2>8
  <2> HIDE DEF x
  <2> QED
    BY <2>2, <2>6, <2>7, <2>9 DEF Priced
<1> QED
  BY <1>1, <1>2

LEMMA EntryFunded ==
    ASSUME HeldTyped, AccountInv, NEW token \in Token, NEW strategy, NEW confidence, NEW look,
           ExecuteEntry(token, strategy, confidence, look), UNCHANGED price
    PROVE  AccountInv'
<1>1. CASE held' = held /\ cash' = cash
  BY <1>1 DEF AccountInv, CapsHold, In
<1>2. ASSUME NEW x, held' = held \cup {x}, x.token = token, Priced(x), x.usd <= cash, cash' = cash - x.usd,
             UsdOf(held) + x.usd <= MaxTotalUsd, UsdOf(In(token)) + x.usd <= MaxTokenUsd
      PROVE  AccountInv'
  <2>1. x.usd \in Nat /\ cash \in Nat
    BY <1>2 DEF Priced, AccountInv
  <2>2. cash' \in Nat
    BY <1>2, <2>1
  <2>3. \A p \in held' : Priced(p)
    BY <1>2 DEF AccountInv, Priced
  <2>5. UsdOf(held') <= MaxTotalUsd
    <3>1. UsdOf(held') \in Nat /\ UsdOf(held') <= UsdOf(held) + x.usd /\ UsdOf(held) \in Nat
      BY <1>2, <2>1, InFinite, UsdAdds, UsdSums
    <3> QED
      BY <1>2, <2>1, <3>1, LimitsNat
  <2>6. ASSUME NEW t \in Token PROVE UsdOf(In(t)') <= MaxTokenUsd
    <3>1. CASE t = token
      <4>1. In(t)' = In(t) \cup {x}
        BY <1>2, <3>1 DEF In
      <4>2. /\ UsdOf(In(t) \cup {x}) \in Nat /\ UsdOf(In(t)) \in Nat
            /\ UsdOf(In(t) \cup {x}) <= UsdOf(In(t)) + x.usd
        BY <2>1, InFinite, UsdAdds, UsdSums
      <4> QED
        BY <1>2, <2>1, <3>1, <4>1, <4>2, LimitsNat
    <3>2. CASE t # token
      <4>1. In(t)' = In(t)
        BY <1>2, <3>2 DEF In
      <4> QED
        BY <4>1 DEF AccountInv, CapsHold
    <3> QED
      BY <3>1, <3>2
  <2> QED
    BY <2>2, <2>3, <2>5, <2>6 DEF AccountInv, CapsHold
<1> QED
  BY <1>1, <1>2, EntryPays

LEMMA SaleFunded ==
    ASSUME HeldTyped, AccountInv, NEW p \in held, UNCHANGED price, cash' \in Nat,
           \/ held' = held \ {p}
           \/ \E r : Priced(r) /\ r.token = p.token /\ r.usd <= p.usd /\ held' = (held \ {p}) \cup {r}
    PROVE  AccountInv'
<1>1. \A q \in held' : Priced(q)
  BY DEF AccountInv
<1>2. UsdOf(held') <= UsdOf(held)
  BY InFinite, UsdReplaced DEF Priced
<1>3. ASSUME NEW t \in Token PROVE UsdOf(In(t)') <= UsdOf(In(t))
  <2>1. CASE p.token = t
    <3>1. p \in In(t)
      BY <2>1 DEF In
    <3>2. \/ In(t)' = In(t) \ {p}
          \/ \E r : Priced(r) /\ r.usd <= p.usd /\ In(t)' = (In(t) \ {p}) \cup {r}
      <4>1. CASE held' = held \ {p}
        BY <2>1, <4>1 DEF In
      <4>2. ASSUME NEW r, r.token = p.token, held' = (held \ {p}) \cup {r}
            PROVE  In(t)' = (In(t) \ {p}) \cup {r}
        BY <2>1, <4>2 DEF In
      <4> QED
        BY <4>1, <4>2
    <3> QED
      BY <3>1, <3>2, InFinite, UsdReplaced DEF Priced
  <2>2. CASE p.token # t
    <3>1. In(t)' = In(t)
      BY <2>2 DEF In
    <3>2. UsdOf(In(t)) \in Nat
      BY InFinite, UsdSums
    <3> QED
      BY <3>1, <3>2
  <2> QED
    BY <2>1, <2>2
<1>4. IsFiniteSet(held')
  <2>1. IsFiniteSet(held \ {p})
    BY InFinite, FS_RemoveElement
  <2>2. \A r : IsFiniteSet((held \ {p}) \cup {r})
    BY <2>1, FS_AddElement
  <2> QED
    BY <2>1, <2>2
<1>5. UsdOf(held) <= MaxTotalUsd /\ UsdOf(held) \in Nat /\ UsdOf(held') \in Nat
  <2>1. \A q \in held' : q.usd \in Nat
    BY <1>1 DEF Priced
  <2> QED
    BY <1>4, <2>1, InFinite, UsdSums DEF AccountInv, CapsHold
<1>6. ASSUME NEW t \in Token PROVE UsdOf(In(t)') <= MaxTokenUsd
  <2>1. UsdOf(In(t)) <= MaxTokenUsd /\ UsdOf(In(t)) \in Nat
    BY InFinite, UsdSums DEF AccountInv, CapsHold
  <2>2. UsdOf(In(t)') \in Nat
    <3>1. In(t)' \in SUBSET held'
      BY DEF In
    <3>2. IsFiniteSet(In(t)')
      BY <1>4, <3>1, FS_Subset
    <3>3. \A q \in In(t)' : q.usd \in Nat
      BY <1>1, <3>1 DEF Priced
    <3> QED
      BY <3>2, <3>3, UsdSums
  <2> QED
    BY <1>3, <2>1, <2>2, LimitsNat
<1> QED
  BY <1>1, <1>2, <1>5, <1>6, LimitsNat DEF AccountInv, CapsHold

LEMMA HalfExitFunded ==
    ASSUME HeldTyped, AccountInv, NEW p \in held, HalfExit(p)
    PROVE  AccountInv'
<1>1. Positioned(p) /\ Priced(p) /\ cash \in Nat /\ price[p.token] \in Nat
  BY DEF HeldTyped, AccountInv, Positioned
<1>2. PICK units \in Nat, usd \in Nat : units = p.units /\ usd = p.usd /\ units > 1
  BY <1>1 DEF Priced, HalfExit
<1>3. PICK half \in Nat : half = units \div 2 /\ half <= units
  BY <1>2
<1>4. PICK share \in 0..usd : share = (usd * half) \div units
  BY <1>2, <1>3, ShareBetween
<1> DEFINE rest == [p EXCEPT !.tp1 = FALSE, !.units = units - half, !.usd = usd - share]
           sold == [p EXCEPT !.units = half]
<1>5. held' = (held \ {p}) \cup {rest} /\ cash' = cash + Valued({sold}) /\ UNCHANGED price
  BY <1>2, <1>3, <1>4 DEF HalfExit
<1>6. rest.usd = usd - share /\ rest.units = units - half /\ rest.token = p.token
  BY <1>1, PartLeft
<1>7. Priced(rest) /\ rest.usd <= p.usd
  <2> HIDE DEF rest
  <2> QED
    BY <1>2, <1>3, <1>4, <1>6 DEF Priced
<1>8. sold.units = half /\ sold.token = p.token
  BY <1>1 DEF Positioned
<1>9. Valued({sold}) \in Nat
  <2> HIDE DEF sold
  <2>1. IsFiniteSet({sold})
    BY FS_Singleton
  <2> QED
    BY <1>1, <1>8, <2>1, ValuedNat
<1> HIDE DEF rest, sold
<1>10. cash' \in Nat
  BY <1>1, <1>5, <1>9
<1> QED
  BY <1>5, <1>6, <1>7, <1>10, SaleFunded

-----------------------------------------------------------------------------
(* How many positions there are of a kind.                                 *)

LEMMA CapsNat ==
    /\ {MaxAiOpen, MaxCopies, MaxSlots} \subseteq Nat
    /\ AiStrategy \notin CopyProfiles /\ Core \cap (CopyProfiles \cup {AiStrategy}) = {}
BY EntriesAssumption

USE CapsNat, RiskAssumption

(***************************************************************************)
(* The properties of the model in these terms.                             *)
(***************************************************************************)
LEMMA OfIsClass ==
    ASSUME HeldTyped, NEW strategies
    PROVE  /\ Of(strategies) = Class(held, Token, strategies)
           /\ \A t \in Token : In(t) \cap Of(strategies) = Class(held, {t}, strategies)
BY DEF HeldTyped, Positioned, Of, In, Class

LEMMA SlotsAreCapped ==
    ASSUME EntriesInv
    PROVE  SlotsHold
<1>1. HeldTyped /\ Capped(held)
  BY DEF EntriesInv
<1>2. Cardinality(Of({AiStrategy})) <= MaxAiOpen /\ Cardinality(Of(CopyProfiles)) <= MaxCopies
  BY <1>1, OfIsClass DEF Capped, Within
<1>3. ASSUME NEW t \in Token
      PROVE  /\ Cardinality(In(t) \cap Of(CopyProfiles)) <= MaxSlots
             /\ \A s \in Core \cup {AiStrategy} : Cardinality(In(t) \cap Of({s})) <= 1
  BY <1>1, OfIsClass DEF Capped, Within
<1>4. QED
  BY <1>1, <1>2, <1>3 DEF Capped, SlotsHold

\* A request that is not refused finds fewer positions than MaxConcurrent.
LEMMA SizedLeavesRoom ==
    ASSUME NEW r, RiskSize(r) # 0
    PROVE  ~ (r.positions >= MaxConcurrent)
<1>1. Rejections(r) = {}
  BY DEF RiskSize, Approved
<1>2. "MAX_POSITIONS" \in DOMAIN Gates(r) /\ Gates(r)["MAX_POSITIONS"] = (r.positions >= MaxConcurrent)
  BY Zenon DEF Gates
<1>3. QED
  BY <1>1, <1>2 DEF Rejections

LEMMA EntryAdds ==
    ASSUME HeldTyped, NEW token \in Token, NEW strategy \in Core \cup CopyProfiles \cup {AiStrategy},
           NEW confidence, NEW look, ExecuteEntry(token, strategy, confidence, look)
    PROVE  \/ held' = held
           \/ /\ Cardinality(held) < MaxConcurrent
              /\ \E x : Positioned(x) /\ x.token = token /\ x.strategy = strategy /\ held' = held \cup {x}
<1> DEFINE r == EntryRequest(token, strategy, confidence, look)
<1>1. CASE RiskSize(r) = 0
  BY <1>1 DEF ExecuteEntry
<1>2. CASE RiskSize(r) # 0
  <2>1. ~ (r.positions >= MaxConcurrent)
    BY <1>2, SizedLeavesRoom
  <2>2. r.positions = Cardinality(held)
    BY DEF EntryRequest
  <2>3. Cardinality(held) \in Nat /\ MaxConcurrent \in Nat
    BY FS_CardinalityType DEF HeldTyped, RiskLimits
  <2>4. Cardinality(held) < MaxConcurrent
    BY <2>1, <2>2, <2>3
  <2>5. PICK usd, units : held' = held \cup {[id |-> opened, token |-> token, strategy |-> strategy,
                                              usd |-> usd, units |-> units, tp1 |-> TRUE]}
    BY <1>2 DEF ExecuteEntry
  <2>6. Positioned([id |-> opened, token |-> token, strategy |-> strategy,
                    usd |-> usd, units |-> units, tp1 |-> TRUE])
    BY DEF Positioned
  <2>7. QED
    BY <2>4, <2>5, <2>6
<1>3. QED
  BY <1>1, <1>2

\* What the entry of a position must have asked for.
LEMMA EntrySuffices ==
    ASSUME EntriesInv, NEW token \in Token, NEW strategy \in Core \cup CopyProfiles \cup {AiStrategy},
           NEW confidence, NEW look, ExecuteEntry(token, strategy, confidence, look),
           strategy = AiStrategy => Cardinality(Of({AiStrategy})) < MaxAiOpen,
           strategy \in CopyProfiles => CopyAllowed(token, strategy),
           strategy \in Core \cup {AiStrategy} => In(token) \cap Of({strategy}) = {}
    PROVE  EntriesInv'
<1>1. HeldTyped /\ Capped(held) /\ IsFiniteSet(held)
  BY DEF EntriesInv, HeldTyped
<1>2. CASE held' = held
  BY <1>1, <1>2 DEF EntriesInv, HeldTyped
<1>3. ASSUME NEW x, Positioned(x), x.token = token, x.strategy = strategy,
             held' = held \cup {x}, Cardinality(held) < MaxConcurrent
      PROVE  EntriesInv'
  <2>1. HeldTyped'
    BY <1>1, <1>3, FS_AddElement DEF HeldTyped
  <2>2. Cardinality(held') <= MaxConcurrent
    <3>1. Cardinality(held) \in Nat /\ Cardinality(held') \in Nat
      BY <1>1, <2>1, FS_CardinalityType DEF HeldTyped
    <3>2. Cardinality(held') <= Cardinality(held) + 1
      BY <1>1, <1>3, OneMore
    <3>3. MaxConcurrent \in Nat
      BY DEF RiskLimits
    <3>4. QED
      BY <1>3, <3>1, <3>2, <3>3
  <2>3. Within(held', Token, {AiStrategy}, MaxAiOpen)
    <3>1. x.strategy \in {AiStrategy} => Cardinality(Class(held, Token, {AiStrategy})) < MaxAiOpen
      BY <1>1, <1>3, OfIsClass
    <3>2. QED
      BY <1>1, <1>3, <3>1, ClassGrows DEF Capped
  <2>4. Within(held', Token, CopyProfiles, MaxCopies)
    <3>1. x.strategy \in CopyProfiles => Cardinality(Class(held, Token, CopyProfiles)) < MaxCopies
      BY <1>1, <1>3, OfIsClass DEF CopyAllowed
    <3>2. QED
      BY <1>1, <1>3, <3>1, ClassGrows DEF Capped
  <2>5. ASSUME NEW t \in Token
        PROVE  Within(held', {t}, CopyProfiles, MaxSlots)
    <3>1. x.token \in {t} /\ x.strategy \in CopyProfiles => Cardinality(Class(held, {t}, CopyProfiles)) < MaxSlots
      BY <1>1, <1>3, OfIsClass DEF CopyAllowed
    <3>2. QED
      BY <1>1, <1>3, <3>1, ClassGrows DEF Capped
  <2>6. ASSUME NEW t \in Token, NEW s \in Core \cup {AiStrategy}
        PROVE  Within(held', {t}, {s}, 1)
    <3>1. x.token \in {t} /\ x.strategy \in {s} => Cardinality(Class(held, {t}, {s})) < 1
      <4>1. x.token \in {t} /\ x.strategy \in {s} => Class(held, {t}, {s}) = {}
        BY <1>1, <1>3, OfIsClass
      <4>2. Cardinality({}) < 1
        BY FS_EmptySet
      <4>3. QED
        BY <4>1, <4>2
    <3>2. QED
      BY <1>1, <1>3, <3>1, ClassGrows DEF Capped
  <2>7. QED
    BY <2>1, <2>2, <2>3, <2>4, <2>5, <2>6 DEF EntriesInv, Capped
<1>4. QED
  BY <1>1, <1>2, <1>3, EntryAdds

LEMMA SaleSuffices ==
    ASSUME EntriesInv, NEW p \in held,
           \/ held' = held \ {p}
           \/ \E r : Positioned(r) /\ r.token = p.token /\ r.strategy = p.strategy /\ held' = (held \ {p}) \cup {r}
    PROVE  EntriesInv'
<1>1. HeldTyped /\ Capped(held) /\ IsFiniteSet(held) /\ Cardinality(held) \in Nat
  BY FS_CardinalityType DEF EntriesInv, HeldTyped
<1>2. /\ IsFiniteSet(held \ {p}) /\ Cardinality(held \ {p}) \in Nat
      /\ Cardinality(held \ {p}) = Cardinality(held) - 1
  BY <1>1, OneLess
<1>3. HeldTyped'
  <2>1. IsFiniteSet(held')
    <3>1. \A r : IsFiniteSet((held \ {p}) \cup {r})
      BY <1>2, OneMore
    <3>2. QED
      BY <1>2, <3>1
  <2>2. \A q \in held' : Positioned(q)
    BY <1>1 DEF HeldTyped
  <2>3. QED
    BY <2>1, <2>2 DEF HeldTyped
<1>4. Cardinality(held') <= Cardinality(held)
  <2>1. CASE held' = held \ {p}
    BY <1>1, <1>2, <2>1
  <2>2. ASSUME NEW r, held' = (held \ {p}) \cup {r}
        PROVE  Cardinality(held') <= Cardinality(held)
    <3>1. Cardinality(held') <= Cardinality(held \ {p}) + 1 /\ Cardinality(held') \in Nat
      BY <1>2, <2>2, OneMore
    <3>2. QED
      BY <1>1, <1>2, <3>1
  <2>3. QED
    BY <2>1, <2>2
<1>5. Cardinality(held') <= MaxConcurrent
  <2>1. Cardinality(held') \in Nat /\ MaxConcurrent \in Nat
    BY <1>3, FS_CardinalityType DEF HeldTyped, RiskLimits
  <2>2. QED
    BY <1>1, <1>4, <2>1 DEF Capped
<1>6. ASSUME NEW tokens, NEW strategies, NEW n \in Nat, Within(held, tokens, strategies, n)
      PROVE  Within(held', tokens, strategies, n)
  <2>1. /\ Within(held \ {p}, tokens, strategies, n)
        /\ \A r : r.token = p.token /\ r.strategy = p.strategy =>
                  Within((held \ {p}) \cup {r}, tokens, strategies, n)
    BY <1>1, <1>6, ClassShrinks
  <2>2. QED
    BY <2>1
<1>7. Capped(held')
  BY <1>1, <1>5, <1>6 DEF Capped
<1>8. QED
  BY <1>3, <1>7 DEF EntriesInv

\* Every step keeps the positions typed and their counts within the caps.
LEMMA EntriesInvHolds == EntriesSpec => []EntriesInv
<1>1. EntriesInit => EntriesInv
  <2> SUFFICES ASSUME EntriesInit PROVE EntriesInv
    OBVIOUS
  <2>1. held = {}
    BY DEF EntriesInit
  <2>2. HeldTyped
    BY <2>1, FS_EmptySet DEF HeldTyped
  <2>3. \A tokens, strategies : Class(held, tokens, strategies) = {}
    BY <2>1 DEF Class
  <2>4. Capped(held)
    <3>1. MaxConcurrent \in Nat
      BY DEF RiskLimits
    <3>2. QED
      BY <2>1, <2>3, <3>1, FS_EmptySet DEF Capped, Within
  <2>5. QED
    BY <2>2, <2>4 DEF EntriesInv
<1>2. EntriesInv /\ [EntriesNext]_entriesVars => EntriesInv'
  <2> SUFFICES ASSUME EntriesInv, [EntriesNext]_entriesVars
               PROVE  EntriesInv'
    OBVIOUS
  <2>1. ASSUME NEW token \in Token, NEW look \in Looks, NEW strategy \in Core, EnsembleEntry(token, strategy, look)
        PROVE  EntriesInv'
    BY <2>1, EntrySuffices DEF EnsembleEntry
  <2>2. ASSUME NEW token \in Token, NEW look \in Looks, NEW profile \in CopyProfiles, CopiedEntry(token, profile, look)
        PROVE  EntriesInv'
    BY <2>2, EntrySuffices DEF CopiedEntry
  <2>3. ASSUME NEW token \in Token, NEW look \in Looks, NEW profile \in CopyProfiles \cup {AiStrategy},
               NEW status \in Statuses, NEW jev \in JevScores, AiEntry(token, profile, status, look, jev)
        PROVE  EntriesInv'
    BY <2>3, EntrySuffices DEF AiEntry, AiAllowed
  <2>4. ASSUME NEW p \in held, HalfExit(p)
        PROVE  EntriesInv'
    <3>1. Positioned(p)
      BY DEF EntriesInv, HeldTyped
    <3>2. PICK tp1Left, unitsLeft, usdLeft :
             held' = (held \ {p}) \cup {[p EXCEPT !.tp1 = tp1Left, !.units = unitsLeft, !.usd = usdLeft]}
      BY <2>4, Zenon DEF HalfExit
    <3>3. [p EXCEPT !.tp1 = tp1Left, !.units = unitsLeft, !.usd = usdLeft] =
          [id |-> p.id, token |-> p.token, strategy |-> p.strategy, usd |-> usdLeft, units |-> unitsLeft, tp1 |-> tp1Left]
      BY <3>1, PartLeft
    <3>4. Positioned([id |-> p.id, token |-> p.token, strategy |-> p.strategy,
                      usd |-> usdLeft, units |-> unitsLeft, tp1 |-> tp1Left])
      BY <3>1 DEF Positioned
    <3>5. QED
      BY <3>2, <3>3, <3>4, SaleSuffices
  <2>5. ASSUME NEW p \in held, NEW catastrophic \in BOOLEAN, Exit(p, catastrophic)
        PROVE  EntriesInv'
    BY <2>5, SaleSuffices DEF Exit
  <2>6. ASSUME \/ \E token \in Token : CooldownOver(token)
               \/ \E token \in Token, usd \in Prices : PriceMoves(token, usd)
               \/ UNCHANGED entriesVars
        PROVE  EntriesInv'
    <3>1. held' = held
      BY <2>6 DEF CooldownOver, PriceMoves, entriesVars, account
    <3>2. QED
      BY <3>1 DEF EntriesInv, HeldTyped
  <2>7. QED
    BY <2>1, <2>2, <2>3, <2>4, <2>5, <2>6 DEF EntriesNext
<1>3. QED
  BY <1>1, <1>2, PTL DEF EntriesSpec

(***************************************************************************)
(* However the ensemble, the copies and the AI with or without a profile   *)
(* enter, and whatever is sold in between: the positions in all, of the    *)
(* AI, of all copy-trade profiles together, of these in one token, and of  *)
(* one strategy in one token stay within their caps.                       *)
(***************************************************************************)
THEOREM SlotsNeverExceeded == EntriesSpec => []SlotsHold
<1>1. EntriesInv => SlotsHold
  BY SlotsAreCapped
<1>2. QED
  BY <1>1, EntriesInvHolds, PTL

(***************************************************************************)
(* However the three ways in, partial and full sales and moves of the      *)
(* prices follow each other: the account is never overspent and no more    *)
(* than the caps is at risk in a token or in all.                          *)
(***************************************************************************)
THEOREM CapsNeverExceeded == EntriesSpec => []CapsHold
<1>1. EntriesInit => AccountInv
  <2> SUFFICES ASSUME EntriesInit PROVE AccountInv
    OBVIOUS
  <2>1. held = {} /\ cash \in Nat
    BY EntriesAssumption DEF EntriesInit
  <2>2. price \in [Token -> Nat \ {0}]
    <3>1. PICK n \in Nat \ {0} : n = Min(Prices)
      <4>1. Prices # {} /\ Prices \subseteq Nat /\ Prices \subseteq Nat \ {0}
        BY EntriesAssumption
      <4>2. Min(Prices) \in Prices
        BY <4>1, MinIn
      <4> QED
        BY <4>1, <4>2
    <3>2. 100 * n \in Nat \ {0} /\ price = [t \in Token |-> 100 * n]
      BY <3>1 DEF EntriesInit
    <3> QED
      BY <3>2
  <2>3. UsdOf({}) = 0
    BY FS_EmptySet, UsdSums
  <2>4. \A t : In(t) = {}
    BY <2>1 DEF In
  <2> QED
    BY <2>1, <2>2, <2>3, <2>4, LimitsNat DEF AccountInv, CapsHold
<1>2. HeldTyped /\ AccountInv /\ [EntriesNext]_entriesVars => AccountInv'
  <2> SUFFICES ASSUME HeldTyped, AccountInv, [EntriesNext]_entriesVars PROVE AccountInv'
    OBVIOUS
  <2>1. ASSUME NEW token \in Token, NEW look \in Looks, NEW strategy \in Core, EnsembleEntry(token, strategy, look)
        PROVE  AccountInv'
    BY <2>1, EntryFunded DEF EnsembleEntry
  <2>2. ASSUME NEW token \in Token, NEW look \in Looks, NEW profile \in CopyProfiles, CopiedEntry(token, profile, look)
        PROVE  AccountInv'
    BY <2>2, EntryFunded DEF CopiedEntry
  <2>3. ASSUME NEW token \in Token, NEW look \in Looks, NEW profile \in CopyProfiles \cup {AiStrategy},
               NEW status \in Statuses, NEW jev \in JevScores, AiEntry(token, profile, status, look, jev)
        PROVE  AccountInv'
    BY <2>3, EntryFunded DEF AiEntry
  <2>4. ASSUME NEW p \in held, NEW catastrophic \in BOOLEAN, Exit(p, catastrophic)
        PROVE  AccountInv'
    <3>1. Valued({p}) \in Nat
      <4>1. p.units \in Nat /\ price[p.token] \in Nat
        BY DEF HeldTyped, Positioned, AccountInv, Priced
      <4> QED
        BY <4>1, FS_Singleton, ValuedNat
    <3>2. cash' \in Nat
      BY <2>4, <3>1 DEF Exit, AccountInv
    <3> QED
      BY <2>4, <3>2, SaleFunded DEF Exit
  <2>5. ASSUME NEW p \in held, HalfExit(p) PROVE AccountInv'
    BY <2>5, HalfExitFunded
  <2>6. ASSUME NEW token \in Token, NEW usd \in Prices, PriceMoves(token, usd) PROVE AccountInv'
    <3>1. price' \in [Token -> Nat \ {0}]
      <4>1. 100 * usd \in Nat \ {0}
        BY EntriesAssumption
      <4> QED
        BY <2>6, <4>1 DEF PriceMoves, AccountInv
    <3> QED
      BY <2>6, <3>1 DEF PriceMoves, AccountInv, CapsHold, In
  <2>7. ASSUME (\E token \in Token : CooldownOver(token)) \/ UNCHANGED entriesVars PROVE AccountInv'
    BY <2>7 DEF CooldownOver, entriesVars, account, AccountInv, CapsHold, In
  <2> QED
    BY <2>1, <2>2, <2>3, <2>4, <2>5, <2>6, <2>7 DEF EntriesNext
<1>3. EntriesInv => HeldTyped
  BY DEF EntriesInv
<1>4. AccountInv => CapsHold
  BY DEF AccountInv
<1> QED
  BY <1>1, <1>2, <1>3, <1>4, EntriesInvHolds, PTL DEF EntriesSpec

-----------------------------------------------------------------------------
(***************************************************************************)
(* The chain from an observation to the size of an order is monotone:      *)
(* products rounded down at every factor, shares of a bound, clamps.       *)
(***************************************************************************)
LEMMA ProductFalls ==
    ASSUME NEW a \in Nat, NEW b \in Nat, NEW c \in Nat, NEW d \in Nat, a <= b, c <= d
    PROVE  (a * c) \div 100 \in Nat /\ (b * d) \div 100 \in Nat /\ (a * c) \div 100 <= (b * d) \div 100
<1>1. a * c <= b * c /\ b * c <= b * d /\ a * c \in Nat /\ b * c \in Nat /\ b * d \in Nat
  OBVIOUS
<1>2. PICK x \in Nat, y \in Nat : x = a * c /\ y = b * d
  BY <1>1
<1>3. x <= y
  BY <1>1, <1>2
<1>4. x \div 100 \in Nat /\ y \div 100 \in Nat /\ x \div 100 <= y \div 100
  BY <1>3
<1> QED
  BY <1>2, <1>4

\* Smaller multipliers make a smaller product, however it is rounded on the way.
LEMMA FractionFalls ==
    ASSUME NEW m, \A i \in 1..7 : m[i] \in Nat, DOMAIN m = 1..7,
           NEW k, \A i \in 1..7 : k[i] \in Nat /\ k[i] <= m[i], DOMAIN k = 1..7, NEW base \in Nat
    PROVE  FoldLeft(LAMBDA risk, multiplier : (risk * multiplier) \div 100, base, k) <=
           FoldLeft(LAMBDA risk, multiplier : (risk * multiplier) \div 100, base, m)
<1> DEFINE S == 1..7
           Falls(g, w) == g = [s \in SUBSET S |-> IF s = {} THEN base ELSE (g[s \ {Max(s)}] * w[Max(s)]) \div 100]
<1>1. PICK g : Falls(g, m) /\ FoldLeft(LAMBDA risk, multiplier : (risk * multiplier) \div 100, base, m) = g[S]
  BY FractionFolds
<1>2. PICK h : Falls(h, k) /\ FoldLeft(LAMBDA risk, multiplier : (risk * multiplier) \div 100, base, k) = h[S]
  <2>1. \A i \in 1..7 : k[i] \in Nat
    OBVIOUS
  <2> QED
    BY <2>1, FractionFolds
<1>3. IsFiniteSet(S)
  BY 1 \in Int, 7 \in Int, FS_Interval, Zenon
<1> DEFINE T == {t \in SUBSET S : h[t] \in Nat /\ g[t] \in Nat /\ h[t] <= g[t]}
<1>4. {} \in T
  <2>1. g[{}] = base
    BY <1>1
  <2>2. h[{}] = base
    BY <1>2
  <2> QED
    BY <2>1, <2>2
<1>5. ASSUME NEW t \in SUBSET S, t # {}, \A x \in t : t \ {x} \in T PROVE t \in T
  <2>1. PICK top \in t : top = Max(t)
    <3>1. IsFiniteSet(t)
      BY <1>3, FS_Subset
    <3>2. t \in SUBSET Int
      OBVIOUS
    <3> QED
      BY <1>5, <3>1, <3>2, MaxIn
  <2>2. g[t] = (g[t \ {top}] * m[top]) \div 100 /\ h[t] = (h[t \ {top}] * k[top]) \div 100
    BY <1>1, <1>2, <1>5, <2>1
  <2>3. h[t \ {top}] \in Nat /\ g[t \ {top}] \in Nat /\ h[t \ {top}] <= g[t \ {top}]
    BY <1>5, <2>1
  <2>4. k[top] \in Nat /\ m[top] \in Nat /\ k[top] <= m[top]
    BY <2>1
  <2>5. h[t] \in Nat /\ g[t] \in Nat /\ h[t] <= g[t]
    <3>1. PICK a \in Nat, b \in Nat : a = h[t \ {top}] /\ b = g[t \ {top}] /\ a <= b
      BY <2>3
    <3>2. PICK c \in Nat, d \in Nat : c = k[top] /\ d = m[top] /\ c <= d
      BY <2>4
    <3>3. h[t] = (a * c) \div 100 /\ g[t] = (b * d) \div 100
      BY <2>2, <3>1, <3>2, Zenon
    <3>4. (a * c) \div 100 \in Nat /\ (b * d) \div 100 \in Nat /\ (a * c) \div 100 <= (b * d) \div 100
      <4>1. a <= b /\ c <= d
        BY <3>1, <3>2
      <4> HIDE DEF T, S
      <4> QED
        BY <4>1, ProductFalls, Zenon
    <3> QED
      BY <3>3, <3>4, Zenon
  <2> QED
    BY <2>5
<1>6. S \in T
  <2> HIDE DEF T, S
  <2> QED
    BY <1>3, <1>4, <1>5, SubsetInduction
<1>7. h[S] <= g[S]
  BY <1>6
<1> QED
  BY <1>1, <1>2, <1>7, Zenon

LEMMA DivMonotone ==
    ASSUME NEW a \in Nat, NEW b \in Nat, a <= b, NEW n \in Nat \ {0}
    PROVE  a \div n \in Nat /\ b \div n \in Nat /\ a \div n <= b \div n
<1>1. PICK x \in Nat, y \in Nat : x = a \div n /\ y = b \div n /\ n * x <= a /\ b < n * y + n
  <2>1. \A c \in Nat : c \div n \in Nat /\ n * (c \div n) <= c /\ c < n * (c \div n) + n
    OBVIOUS
  <2> QED
    BY <2>1
<1>2. ~ (y + 1 <= x)
  <2> SUFFICES ASSUME y + 1 <= x PROVE FALSE
    OBVIOUS
  <2>1. n * (y + 1) <= n * x /\ n * (y + 1) = n * y + n /\ n * x \in Nat /\ n * y \in Nat
    OBVIOUS
  <2> QED
    BY <1>1, <2>1
<1> QED
  BY <1>1, <1>2

LEMMA ClampFalls ==
    ASSUME NEW v \in Int, NEW w \in Int, v <= w, NEW low \in Nat, NEW high \in Nat
    PROVE  Clamp(v, low, high) <= Clamp(w, low, high)
<1>1. low \in Int /\ high \in Int
  OBVIOUS
<1>2. PICK m \in Int : m = Min({high, v}) /\ m <= high /\ m <= v
  <2>1. Min({high, v}) \in {high, v} /\ Min({high, v}) <= high /\ Min({high, v}) <= v
    BY <1>1, MinOfTwo, Zenon
  <2> QED
    BY <1>1, <2>1
<1>3. PICK k \in Int : k = Min({high, w}) /\ k \in {high, w}
  <2>1. Min({high, w}) \in {high, w}
    BY <1>1, MinOfTwo, Zenon
  <2> QED
    BY <1>1, <2>1
<1>4. Max({low, m}) \in {low, m}
  BY <1>1, MaxOfTwo, Zenon
<1>5. Max({low, k}) \in {low, k} /\ Max({low, k}) >= low /\ Max({low, k}) >= k
  BY <1>1, MaxOfTwo, Zenon
<1> QED
  <2>1. Clamp(v, low, high) = Max({low, m}) /\ Clamp(w, low, high) = Max({low, k})
    BY <1>2, <1>3, Zenon DEF Clamp
  <2>2. PICK x, y : x = Max({low, m}) /\ y = Max({low, k})
    OBVIOUS
  <2> QED
    BY <1>1, <1>2, <1>3, <1>4, <1>5, <2>1, <2>2

LEMMA LeastFalls ==
    ASSUME NEW a \in Int, NEW b \in Int, NEW c \in Int, NEW d \in Int, 
           NEW x \in Int, NEW y \in Int, NEW e \in Int, x <= a, y <= c, e <= d
    PROVE  /\ Min({x, b, y, e}) \in Int /\ Min({a, b, c, d}) \in Int
           /\ Min({x, b, y, e}) <= Min({a, b, c, d})
<1>1. (\E l \in {a, b, c, d} : \A z \in {a, b, c, d} : l <= z) /\ \E l \in {x, b, y, e} : \A z \in {x, b, y, e} : l <= z
  OBVIOUS
<1>2. Min({a, b, c, d}) \in {a, b, c, d}
  BY <1>1 DEF Min
<1>3. \A z \in {x, b, y, e} : Min({x, b, y, e}) <= z
  BY <1>1 DEF Min
<1>4. Min({x, b, y, e}) \in {x, b, y, e}
  BY <1>1 DEF Min
<1> QED
  BY <1>2, <1>3, <1>4

\* Request q is nowhere better than r: no more is asked for or there to pay it, no input
\* of a multiplier is higher, and where r is damped for its safety q is.
Worse(q, r) ==
    /\ q.size <= r.size /\ q.total <= r.total /\ q.available <= r.available
    /\ q.confidence <= r.confidence /\ q.performance <= r.performance
    /\ RegimeMultiplier(q.regime) <= RegimeMultiplier(r.regime)
    /\ q.liquidity <= r.liquidity /\ r.drawdown <= q.drawdown
    /\ r.security.status = "WARNING" => q.security.status = "WARNING"
    /\ SecurityDataMissing(r.security) => SecurityDataMissing(q.security)

LEMMA MultipliersFall ==
    ASSUME NEW q, NEW r, ValidRequest(q), ValidRequest(r), Worse(q, r), MinLiquidityUsd <= q.liquidity
    PROVE  \A i \in 1..7 : Multipliers(q)[i] <= Multipliers(r)[i]
<1>1. /\ q.confidence \in Nat /\ q.performance \in Nat /\ q.liquidity \in Nat /\ q.drawdown \in Nat
      /\ r.confidence \in Nat /\ r.performance \in Nat /\ r.liquidity \in Nat /\ r.drawdown \in Nat
      /\ q.regime \in Regimes /\ r.regime \in Regimes
  BY DEF ValidRequest, Amounts
<1>2. 50 + q.confidence \div 2 <= 50 + r.confidence \div 2
  <2>1. \A a, b \in Nat : a <= b => 50 + a \div 2 <= 50 + b \div 2
    OBVIOUS
  <2> QED
    BY <1>1, <2>1 DEF Worse
<1>3. Clamp(q.performance, 50, 150) <= Clamp(r.performance, 50, 150)
  <2>1. PICK v \in Int, w \in Int : v = q.performance /\ w = r.performance /\ v <= w
    BY <1>1 DEF Worse
  <2>2. 50 \in Nat /\ 150 \in Nat
    OBVIOUS
  <2>3. Clamp(v, 50, 150) <= Clamp(w, 50, 150)
    BY <2>1, <2>2, ClampFalls, Zenon
  <2> QED
    BY <2>1, <2>3, Zenon
<1>4. LiquidityMultiplier(q.liquidity) <= LiquidityMultiplier(r.liquidity)
  <2>1. MinLiquidityUsd \in Nat \ {0}
    BY LimitsNat, RiskOrder
  <2>2. PICK a \in Nat, b \in Nat : /\ a = 4 * (q.liquidity - MinLiquidityUsd)
                                    /\ b = 4 * (r.liquidity - MinLiquidityUsd) /\ a <= b
    <3>1. q.liquidity <= r.liquidity
      BY DEF Worse
    <3> QED
      BY <1>1, <2>1, <3>1
  <2>3. a \div MinLiquidityUsd \in Nat /\ b \div MinLiquidityUsd \in Nat /\ a \div MinLiquidityUsd <= b \div MinLiquidityUsd
    BY <2>1, <2>2, DivMonotone, Zenon
  <2>4. PICK v \in Int, w \in Int : v = 60 + a \div MinLiquidityUsd /\ w = 60 + b \div MinLiquidityUsd /\ v <= w
    BY <2>3
  <2>5. 60 \in Nat /\ 100 \in Nat
    OBVIOUS
  <2>6. LiquidityMultiplier(q.liquidity) = Clamp(v, 60, 100) /\ LiquidityMultiplier(r.liquidity) = Clamp(w, 60, 100)
    BY <2>2, <2>4, Zenon DEF LiquidityMultiplier
  <2>7. Clamp(v, 60, 100) <= Clamp(w, 60, 100)
    BY <2>4, <2>5, ClampFalls
  <2> QED
    BY <2>6, <2>7, Zenon
<1>5. DrawdownMultiplier(q.drawdown) <= DrawdownMultiplier(r.drawdown)
  <2>1. MaxDrawdownPct \in Nat \ {0}
    BY LimitsNat, RiskOrder
  <2>2. PICK a \in Nat, b \in Nat : a = 80 * q.drawdown /\ b = 80 * r.drawdown /\ b <= a
    <3>1. r.drawdown <= q.drawdown
      BY DEF Worse
    <3> QED
      BY <1>1, <3>1
  <2>3. a \div MaxDrawdownPct \in Nat /\ b \div MaxDrawdownPct \in Nat /\ b \div MaxDrawdownPct <= a \div MaxDrawdownPct
    BY <2>1, <2>2, DivMonotone, Zenon
  <2>4. PICK v \in Int, w \in Int : v = 100 - a \div MaxDrawdownPct /\ w = 100 - b \div MaxDrawdownPct /\ v <= w
    BY <2>3
  <2>5. 20 \in Nat /\ 100 \in Nat
    OBVIOUS
  <2>6. DrawdownMultiplier(q.drawdown) = Clamp(v, 20, 100) /\ DrawdownMultiplier(r.drawdown) = Clamp(w, 20, 100)
    BY <2>2, <2>4, Zenon DEF DrawdownMultiplier
  <2>7. Clamp(v, 20, 100) <= Clamp(w, 20, 100)
    BY <2>4, <2>5, ClampFalls
  <2> QED
    BY <2>6, <2>7, Zenon
<1>6. RegimeMultiplier(q.regime) <= RegimeMultiplier(r.regime)
  BY DEF Worse
<1>7. PICK x6, x7, y6, y7 :
         /\ x6 = (IF q.security.status = "WARNING" THEN 60 ELSE 100) /\ x7 = (IF SecurityDataMissing(q.security) THEN 50 ELSE 100)
         /\ y6 = (IF r.security.status = "WARNING" THEN 60 ELSE 100) /\ y7 = (IF SecurityDataMissing(r.security) THEN 50 ELSE 100)
  OBVIOUS
<1>8. x6 <= y6 /\ x7 <= y7
  BY <1>7 DEF Worse
<1>9. PICK x1, x2, x3, x4, x5 : /\ Multipliers(q) = <<x1, x2, x3, x4, x5, x6, x7>>
                                /\ x1 = 50 + q.confidence \div 2 /\ x2 = Clamp(q.performance, 50, 150)
                                /\ x3 = RegimeMultiplier(q.regime) /\ x4 = LiquidityMultiplier(q.liquidity)
                                /\ x5 = DrawdownMultiplier(q.drawdown)
  <2>1. Multipliers(q) = <<50 + q.confidence \div 2, Clamp(q.performance, 50, 150), RegimeMultiplier(q.regime),
                          LiquidityMultiplier(q.liquidity), DrawdownMultiplier(q.drawdown), x6, x7>>
    BY <1>7, ZenonT(60) DEF Multipliers
  <2> QED
    BY <2>1, Zenon
<1>10. PICK y1, y2, y3, y4, y5 : /\ Multipliers(r) = <<y1, y2, y3, y4, y5, y6, y7>>
                                 /\ y1 = 50 + r.confidence \div 2 /\ y2 = Clamp(r.performance, 50, 150)
                                 /\ y3 = RegimeMultiplier(r.regime) /\ y4 = LiquidityMultiplier(r.liquidity)
                                 /\ y5 = DrawdownMultiplier(r.drawdown)
  <2>1. Multipliers(r) = <<50 + r.confidence \div 2, Clamp(r.performance, 50, 150), RegimeMultiplier(r.regime),
                          LiquidityMultiplier(r.liquidity), DrawdownMultiplier(r.drawdown), y6, y7>>
    BY <1>7, ZenonT(60) DEF Multipliers
  <2> QED
    BY <2>1, Zenon
<1>11. x1 <= y1 /\ x2 <= y2 /\ x3 <= y3 /\ x4 <= y4 /\ x5 <= y5
  BY <1>2, <1>3, <1>4, <1>5, <1>6, <1>9, <1>10, Zenon
<1>12. PICK m, k : m = Multipliers(q) /\ k = Multipliers(r)
  OBVIOUS
<1>13. m = <<x1, x2, x3, x4, x5, x6, x7>> /\ k = <<y1, y2, y3, y4, y5, y6, y7>>
  BY <1>9, <1>10, <1>12, Zenon
<1>14. \A i \in 1..7 : m[i] <= k[i]
  BY <1>8, <1>11, <1>13
<1> QED
  BY <1>12, <1>14, Zenon

\* The fold over the multipliers and the fraction it is clamped to.
LEMMA FractionsFall ==
    ASSUME NEW q, NEW r, ValidRequest(q), ValidRequest(r), Worse(q, r), MinLiquidityUsd <= q.liquidity
    PROVE  RiskFraction(q) \in Nat /\ RiskFraction(r) \in Nat /\ RiskFraction(q) <= RiskFraction(r)
<1>1. PICK m, k : m = Multipliers(q) /\ k = Multipliers(r)
  OBVIOUS
<1>2. /\ DOMAIN m = 1..7 /\ \A i \in 1..7 : m[i] \in Nat
      /\ DOMAIN k = 1..7 /\ \A i \in 1..7 : k[i] \in Nat
  BY <1>1, MultipliersNat, Zenon
<1>3. \A i \in 1..7 : m[i] \in Nat /\ m[i] <= k[i]
  BY <1>1, <1>2, MultipliersFall, Zenon
<1>4. BaseRisk \in Nat /\ MinRisk \in Nat /\ MaxRisk \in Nat
  BY LimitsNat
<1>5. PICK v, w : /\ v = FoldLeft(LAMBDA risk, multiplier : (risk * multiplier) \div 100, BaseRisk, m)
                  /\ w = FoldLeft(LAMBDA risk, multiplier : (risk * multiplier) \div 100, BaseRisk, k)
  OBVIOUS
<1>6. v \in Nat /\ w \in Nat
  BY <1>2, <1>4, <1>5, FractionNat, Zenon
<1>7. v <= w
  BY <1>2, <1>3, <1>4, <1>5, FractionFalls, Zenon
<1>8. RiskFraction(q) = Clamp(v, MinRisk, MaxRisk) /\ RiskFraction(r) = Clamp(w, MinRisk, MaxRisk)
  BY <1>1, <1>5, Zenon DEF RiskFraction
<1>9. v \in Int /\ w \in Int
  BY <1>6
<1>10. Clamp(v, MinRisk, MaxRisk) \in Nat /\ Clamp(w, MinRisk, MaxRisk) \in Nat
  BY <1>4, <1>9, ClampBetween, Zenon
<1>11. Clamp(v, MinRisk, MaxRisk) <= Clamp(w, MinRisk, MaxRisk)
  BY <1>4, <1>7, <1>9, ClampFalls, Zenon
<1> QED
  BY <1>8, <1>10, <1>11, Zenon

LEMMA CapitalFalls ==
    ASSUME NEW a \in Nat, NEW b \in Nat, NEW c \in Nat, NEW d \in Nat, a <= b, c <= d
    PROVE  /\ (a * c) \div 1000000 \in Nat /\ (b * d) \div 1000000 \in Nat
           /\ (a * c) \div 1000000 <= (b * d) \div 1000000
<1>1. a * c <= b * c /\ b * c <= b * d /\ a * c \in Nat /\ b * c \in Nat /\ b * d \in Nat
  OBVIOUS
<1>2. PICK x \in Nat, y \in Nat : x = a * c /\ y = b * d
  BY <1>1
<1>3. x <= y
  BY <1>1, <1>2
<1>4. x \div 1000000 \in Nat /\ y \div 1000000 \in Nat /\ x \div 1000000 <= y \div 1000000
  BY <1>3, SMT
<1> QED
  BY <1>2, <1>4, SMT

LEMMA SizedFalls ==
    ASSUME NEW q, NEW r, ValidRequest(q), ValidRequest(r), Worse(q, r), MinLiquidityUsd <= q.liquidity,
           q.available \in Int, r.available \in Int
    PROVE  Sized(q) \in Int /\ Sized(r) \in Int /\ Sized(q) <= Sized(r)
<1>1. q.total \in Nat /\ r.total \in Nat /\ q.size \in Nat /\ r.size \in Nat
  BY DEF ValidRequest, Amounts
<1>2. q.total <= r.total /\ q.size <= r.size /\ q.available <= r.available
  BY DEF Worse
<1>3. PICK f \in Nat, g \in Nat : f = RiskFraction(q) /\ g = RiskFraction(r) /\ f <= g
  BY FractionsFall
<1>4. PICK x \in Nat, a \in Nat : x = (q.total * f) \div 1000000 /\ a = (r.total * g) \div 1000000 /\ x <= a
  <2>1. PICK s \in Nat, t \in Nat : s = q.total /\ t = r.total /\ s <= t
    BY <1>1, <1>2
  <2>2. /\ (s * f) \div 1000000 \in Nat /\ (t * g) \div 1000000 \in Nat
        /\ (s * f) \div 1000000 <= (t * g) \div 1000000
    BY <1>3, <2>1, CapitalFalls, SMT
  <2> QED
    BY <2>1, <2>2, SMT
<1>5. PICK y \in Int, c \in Int : y = (q.available * 95) \div 100 /\ c = (r.available * 95) \div 100 /\ y <= c
  BY <1>2, SMT
<1>6. PICK b \in Int : b = MaxPositionUsd
  BY LimitsNat
<1>7. PICK d \in Int, e \in Int : d = r.size /\ e = q.size /\ e <= d
  BY <1>1, <1>2
<1>8. Sized(q) = Min({x, b, y, e}) /\ Sized(r) = Min({a, b, c, d})
  BY <1>3, <1>4, <1>5, <1>6, <1>7, SMT DEF Sized
<1>9. /\ Min({x, b, y, e}) \in Int /\ Min({a, b, c, d}) \in Int
      /\ Min({x, b, y, e}) <= Min({a, b, c, d})
  <2>1. x \in Int /\ a \in Int /\ x <= a
    BY <1>4, SMT
  <2>2. y <= c /\ e <= d
    BY <1>5, <1>7, SMT
  <2> QED
    BY <2>1, <2>2, LeastFalls, Zenon
<1> QED
  BY <1>8, <1>9, Zenon

LEMMA ApprovedLiquid ==
    ASSUME NEW r, Approved(r)
    PROVE  ValidRequest(r) /\ MinLiquidityUsd <= r.liquidity /\ RiskSize(r) = Sized(r)
<1>1. ValidRequest(r) /\ Rejections(r) = {} /\ RiskSize(r) = Sized(r)
  BY Zenon DEF Approved, RiskSize
<1>2. "LIQUIDITY_BELOW_MINIMUM" \in DOMAIN Gates(r) /\ Gates(r)["LIQUIDITY_BELOW_MINIMUM"] = (r.liquidity < MinLiquidityUsd)
  BY Zenon DEF Gates
<1>3. ~ (r.liquidity < MinLiquidityUsd)
  BY <1>1, <1>2, Zenon DEF Rejections
<1>4. r.liquidity \in Nat
  BY <1>1 DEF ValidRequest, Amounts
<1> QED
  BY <1>1, <1>3, <1>4, LimitsNat

LEMMA WorseSelf ==
    ASSUME NEW r, ValidRequest(r), r.available \in Int
    PROVE  Worse(r, r)
<1>1. /\ r.size \in Nat /\ r.total \in Nat /\ r.confidence \in Nat /\ r.performance \in Nat
      /\ r.liquidity \in Nat /\ r.drawdown \in Nat /\ r.regime \in Regimes
  BY DEF ValidRequest, Amounts
<1>2. RegimeMultiplier(r.regime) \in Nat
  BY <1>1 DEF RegimeMultiplier, Regimes
<1> QED
  BY <1>1, <1>2 DEF Worse

(***************************************************************************)
(* The risk engine never pays for what is worse: a request that is nowhere *)
(* better than one it approves gets no larger a size, rounding included.   *)
(***************************************************************************)
THEOREM WorseIsNotLarger ==
    ASSUME NEW q, NEW r, Worse(q, r), q.available \in Int, r.available \in Int, RiskSize(r) > 0
    PROVE  RiskSize(r) \in Int /\ RiskSize(q) <= RiskSize(r)
<1>1. Approved(r)
  <2>1. ~ (0 > 0)
    OBVIOUS
  <2> QED
    BY <2>1, Zenon DEF RiskSize
<1>2. ValidRequest(r) /\ RiskSize(r) = Sized(r) /\ Sized(r) \in Int
  BY <1>1, ApprovedLiquid, WorseSelf, SizedFalls, Zenon
<1>3. CASE ~Approved(q)
  <2>1. RiskSize(q) = 0
    BY <1>3, Zenon DEF RiskSize
  <2> QED
    BY <1>2, <2>1
<1>4. CASE Approved(q)
  BY <1>2, <1>4, ApprovedLiquid, SizedFalls, Zenon
<1> QED
  BY <1>3, <1>4

-----------------------------------------------------------------------------
(* What a situation that gets worse does to an order.                      *)

\* A deeper drawdown leaves the regime as it is or makes it the one sized lowest.
LEMMA RegimeFalls ==
    ASSUME NEW prices, NEW winning, NEW d \in Nat, NEW e \in Nat, d <= e
    PROVE  /\ RegimeMultiplier(ClassifyRegime(prices, d, 0, winning)) \in Nat
           /\ RegimeMultiplier(ClassifyRegime(prices, e, 0, winning)) <= RegimeMultiplier(ClassifyRegime(prices, d, 0, winning))
<1> DEFINE At(x) == ClassifyRegime(prices, x, 0, winning)
<1>1. \A x : At(x) \in Regimes
  BY SMT DEF ClassifyRegime, Regimes
<1>2. \A regime \in Regimes : RegimeMultiplier(regime) \in Nat /\ RegimeMultiplier(regime) >= 40
  BY DEF RegimeMultiplier, Regimes
<1>3. RegimeMultiplier("RISK_OFF") = 40
  BY DEF RegimeMultiplier
<1>4. At(e) = At(d) \/ At(e) = "RISK_OFF"
  <2>1. CASE e >= MaxDrawdownPct \/ 0 >= MaxDailyLossUsd
    BY <2>1, SMT DEF ClassifyRegime
  <2>2. CASE ~ (e >= MaxDrawdownPct \/ 0 >= MaxDailyLossUsd)
    <3>1. ~ (d >= MaxDrawdownPct \/ 0 >= MaxDailyLossUsd)
      BY <2>2, LimitsNat
    <3> QED
      BY <2>2, <3>1, SMT DEF ClassifyRegime
  <2> QED
    BY <2>1, <2>2
<1> HIDE DEF At
<1>5. RegimeMultiplier(At(d)) \in Nat /\ RegimeMultiplier(At(e)) <= RegimeMultiplier(At(d))
  BY <1>1, <1>2, <1>3, <1>4
<1> QED
  BY <1>5 DEF At

Situation(candidate, prices, drawdown, record, allocated) ==
    [candidate |-> candidate, prices |-> prices, drawdown |-> drawdown, record |-> record, allocated |-> allocated]

SizingInv ==
    /\ \E candidate, prices, record : \E drawdown \in Nat, allocated \in {0, EquityUsd \div 3} :
          sit = Situation(candidate, prices, drawdown, record, allocated)
    /\ orders = Orders(sit)

\* The same candidate and record in a market, an account or a capital that is no better.
LEMMA OrdersFall ==
    ASSUME NEW candidate, NEW record, NEW prices, NEW turned, NEW d \in Nat, NEW e \in Nat, d <= e,
           NEW a \in Nat, NEW b \in Nat, a <= b,
           NEW x, x = Situation(candidate, prices, d, record, a),
           NEW y, y = Situation(candidate, turned, e, record, b),
           RegimeMultiplier(RegimeOf(y)) <= RegimeMultiplier(RegimeOf(x)),
           NEW s \in Ensemble, Orders(x)[s] > 0
    PROVE  Orders(y)[s] <= Orders(x)[s]
<1> DEFINE r == Request(x, s)
           q == Request(y, s)
<1>1. /\ Orders(x)[s] = (IF s \in EnterDecisions(x.candidate, RegimeOf(x)) THEN RiskSize(r) ELSE 0)
      /\ Orders(y)[s] = (IF s \in EnterDecisions(y.candidate, RegimeOf(y)) THEN RiskSize(q) ELSE 0)
  BY Zenon DEF Orders
<1>2. ~ (0 > 0)
  OBVIOUS
<1>3. Orders(x)[s] = RiskSize(r) /\ RiskSize(r) > 0
  BY <1>1, <1>2, Zenon
<1>4. ValidRequest(r)
  BY <1>2, <1>3, Zenon DEF RiskSize, Approved
<1>5. /\ x.candidate = candidate /\ x.record = record /\ x.drawdown = d /\ x.allocated = a
      /\ y.candidate = candidate /\ y.record = record /\ y.drawdown = e /\ y.allocated = b
  BY DEF Situation
<1>6. /\ r.size = q.size /\ r.total = q.total /\ r.liquidity = q.liquidity /\ r.security = q.security
      /\ r.confidence = q.confidence /\ r.performance = q.performance
      /\ r.drawdown = d /\ q.drawdown = e /\ r.available = EquityUsd - a /\ q.available = EquityUsd - b
      /\ r.regime = RegimeOf(x) /\ q.regime = RegimeOf(y)
  BY <1>5, SMT DEF Request
<1>7. r.size \in Nat /\ r.total \in Nat /\ r.liquidity \in Nat /\ r.confidence \in Nat /\ r.performance \in Nat
  BY <1>4 DEF ValidRequest, Amounts
<1>8. EquityUsd \in Nat
  BY SizingAssumption
<1> HIDE DEF r, q
<1>9. Worse(q, r)
  BY <1>6, <1>7, <1>8 DEF Worse
<1>10. r.available \in Int /\ q.available \in Int
  BY <1>6, <1>8
<1>11. RiskSize(r) \in Int /\ RiskSize(q) <= RiskSize(r)
  BY <1>3, <1>9, <1>10, WorseIsNotLarger
<1> QED
  BY <1>1, <1>3, <1>11

\* What a step makes of the situation.
LEMMA SituationStep ==
    ASSUME SizingInv, NEW candidate, NEW prices, NEW record, NEW drawdown \in Nat, NEW allocated \in {0, EquityUsd \div 3},
           sit = Situation(candidate, prices, drawdown, record, allocated)
    PROVE  /\ SecurityWorsens \/ PoolShrinks =>
                 \E c : Becomes(Situation(c, prices, drawdown, record, allocated))
           /\ MarketTurns =>
                 \E p : LET y == Situation(candidate, p, drawdown, record, allocated) IN
                        Becomes(y) /\ RegimeMultiplier(RegimeOf(y)) < RegimeMultiplier(RegimeOf(sit))
           /\ AccountFalls =>
                 \E d \in Nat : drawdown < d /\ Becomes(Situation(candidate, prices, d, record, allocated))
           /\ CapitalUsed =>
                 allocated = 0 /\ Becomes(Situation(candidate, prices, drawdown, record, EquityUsd \div 3))
<1>1. /\ sit.candidate = candidate /\ sit.prices = prices /\ sit.drawdown = drawdown /\ sit.record = record
      /\ sit.allocated = allocated
  BY DEF Situation
<1>2. \A c : [sit EXCEPT !.candidate = c] = Situation(c, prices, drawdown, record, allocated)
  BY DEF Situation
<1>3. ASSUME SecurityWorsens PROVE \E c : Becomes(Situation(c, prices, drawdown, record, allocated))
  <2>1. PICK security : Becomes([sit EXCEPT !.candidate.security = security])
    BY <1>3, Zenon DEF SecurityWorsens
  <2>2. [sit EXCEPT !.candidate.security = security] =
           Situation([candidate EXCEPT !.security = security], prices, drawdown, record, allocated)
    BY <1>1 DEF Situation
  <2> QED
    BY <2>1, <2>2, Zenon
<1>4. ASSUME PoolShrinks PROVE \E c : Becomes(Situation(c, prices, drawdown, record, allocated))
  <2>1. PICK usd, slip : Becomes([sit EXCEPT !.candidate.liquidity.usd = usd, !.candidate.liquidity.slip = slip])
    BY <1>4, Zenon DEF PoolShrinks
  <2>2. PICK c : c = [candidate EXCEPT !.liquidity.usd = usd]
    OBVIOUS
  <2>3. PICK x : x = [sit EXCEPT !.candidate.liquidity.usd = usd]
    OBVIOUS
  <2>4. x = Situation(c, prices, drawdown, record, allocated)
    BY <1>1, <2>2, <2>3 DEF Situation
  <2>5. [x EXCEPT !.candidate.liquidity.slip = slip] =
           Situation([c EXCEPT !.liquidity.slip = slip], prices, drawdown, record, allocated)
    BY <2>4 DEF Situation
  <2>6. [sit EXCEPT !.candidate.liquidity.usd = usd, !.candidate.liquidity.slip = slip] =
           [x EXCEPT !.candidate.liquidity.slip = slip]
    BY <2>3
  <2>7. Becomes(Situation([c EXCEPT !.liquidity.slip = slip], prices, drawdown, record, allocated))
    BY <2>1, <2>5, <2>6
  <2> QED
    BY <2>7
<1>5. ASSUME MarketTurns
      PROVE  \E p : LET y == Situation(candidate, p, drawdown, record, allocated) IN
                    Becomes(y) /\ RegimeMultiplier(RegimeOf(y)) < RegimeMultiplier(RegimeOf(sit))
  <2>1. PICK usd, gap : LET turned == [sit EXCEPT !.prices = AddSample(@, usd, gap)] IN
                        Becomes(turned) /\ RegimeMultiplier(RegimeOf(turned)) < RegimeMultiplier(RegimeOf(sit))
    BY <1>5, Zenon DEF MarketTurns
  <2>2. [sit EXCEPT !.prices = AddSample(@, usd, gap)] =
           Situation(candidate, AddSample(prices, usd, gap), drawdown, record, allocated)
    BY <1>1 DEF Situation
  <2> QED
    BY <2>1, <2>2, Zenon
<1>6. ASSUME AccountFalls
      PROVE  \E d \in Nat : drawdown < d /\ Becomes(Situation(candidate, prices, d, record, allocated))
  <2>1. PICK d \in Drawdowns : d > sit.drawdown /\ Becomes([sit EXCEPT !.drawdown = d])
    BY <1>6, Zenon DEF AccountFalls
  <2>2. [sit EXCEPT !.drawdown = d] = Situation(candidate, prices, d, record, allocated)
    BY <1>1 DEF Situation
  <2>3. d \in Nat /\ drawdown < d
    BY <1>1, <2>1, SizingAssumption
  <2> QED
    BY <2>1, <2>2, <2>3, Zenon
<1>7. ASSUME CapitalUsed
      PROVE  allocated = 0 /\ Becomes(Situation(candidate, prices, drawdown, record, EquityUsd \div 3))
  <2>1. sit.allocated = 0 /\ Becomes([sit EXCEPT !.allocated = EquityUsd \div 3])
    BY <1>7, Zenon DEF CapitalUsed
  <2>2. [sit EXCEPT !.allocated = EquityUsd \div 3] = Situation(candidate, prices, drawdown, record, EquityUsd \div 3)
    BY <1>1 DEF Situation
  <2> QED
    BY <1>1, <2>1, <2>2, Zenon
<1> QED
  BY <1>3, <1>4, <1>5, <1>6, <1>7, Zenon

LEMMA SizingInvStarts ==
    ASSUME SizingInit
    PROVE  SizingInv
<1>1. PICK candidate \in Candidates, prices \in Series, drawdown \in {0}, record \in Records, allocated \in {0} :
         sit = Situation(candidate, prices, drawdown, record, allocated)
  BY DEF SizingInit, Situation
<1> QED
  BY <1>1 DEF SizingInit, SizingInv

\* Orders are those of the situation, before and after.
LEMMA SizingInvKept ==
    ASSUME SizingInv, [SizingNext]_sizingVars
    PROVE  SizingInv'
<1>1. PICK candidate, prices, record :
         \E drawdown \in Nat, allocated \in {0, EquityUsd \div 3} :
            sit = Situation(candidate, prices, drawdown, record, allocated)
  BY DEF SizingInv
<1>2. PICK drawdown \in Nat, allocated \in {0, EquityUsd \div 3} :
         sit = Situation(candidate, prices, drawdown, record, allocated)
  BY <1>1
<1>3. ASSUME NEW c, NEW p, NEW d \in Nat, NEW a \in {0, EquityUsd \div 3}, Becomes(Situation(c, p, d, record, a))
      PROVE  SizingInv'
  BY <1>3, Zenon DEF SizingInv, Becomes
<1>4. CASE SecurityWorsens \/ PoolShrinks
  <2>1. PICK c : Becomes(Situation(c, prices, drawdown, record, allocated))
    BY <1>2, <1>4, SituationStep, Zenon
  <2> QED
    BY <1>3, <2>1
<1>5. CASE MarketTurns
  <2>1. PICK p : Becomes(Situation(candidate, p, drawdown, record, allocated))
    BY <1>2, <1>5, SituationStep, Zenon
  <2> QED
    BY <1>3, <2>1
<1>6. CASE AccountFalls
  <2>1. PICK d \in Nat : Becomes(Situation(candidate, prices, d, record, allocated))
    BY <1>2, <1>6, SituationStep, Zenon
  <2> QED
    BY <1>3, <2>1
<1>7. CASE CapitalUsed
  <2>1. PICK a \in {0, EquityUsd \div 3} : a = EquityUsd \div 3
    OBVIOUS
  <2>2. Becomes(Situation(candidate, prices, drawdown, record, a))
    BY <1>2, <1>7, <2>1, SituationStep, Zenon
  <2> QED
    BY <1>3, <2>2
<1>8. CASE UNCHANGED sizingVars
  BY <1>8, Zenon DEF SizingInv, sizingVars
<1> QED
  BY <1>4, <1>5, <1>6, <1>7, <1>8 DEF SizingNext

LEMMA SizingStepFalls ==
    ASSUME SizingInv, MarketTurns \/ AccountFalls \/ CapitalUsed, NEW s \in Ensemble, orders[s] > 0
    PROVE  orders'[s] <= orders[s]
<1>1. PICK candidate, prices, record :
         \E drawdown \in Nat, allocated \in {0, EquityUsd \div 3} :
            sit = Situation(candidate, prices, drawdown, record, allocated)
  BY DEF SizingInv
<1>2. PICK drawdown \in Nat, allocated \in {0, EquityUsd \div 3} :
         sit = Situation(candidate, prices, drawdown, record, allocated)
  BY <1>1
<1>3. orders = Orders(sit) /\ EquityUsd \div 3 \in Nat /\ allocated \in Nat
  BY SizingAssumption DEF SizingInv
<1>4. ASSUME NEW p, NEW d \in Nat, NEW a \in Nat, drawdown <= d, allocated <= a,
             NEW y, y = Situation(candidate, p, d, record, a), Becomes(y),
             RegimeMultiplier(RegimeOf(y)) <= RegimeMultiplier(RegimeOf(sit))
      PROVE  orders'[s] <= orders[s]
  <2>1. Orders(sit)[s] > 0
    BY <1>3
  <2>2. Orders(y)[s] <= Orders(sit)[s]
    BY <1>2, <1>3, <1>4, <2>1, OrdersFall, Zenon
  <2> QED
    BY <1>3, <1>4, <2>2, Zenon DEF Becomes
<1>5. CASE MarketTurns
  <2>1. PICK p : LET y == Situation(candidate, p, drawdown, record, allocated) IN
                 Becomes(y) /\ RegimeMultiplier(RegimeOf(y)) < RegimeMultiplier(RegimeOf(sit))
    BY <1>2, <1>5, SituationStep, Zenon
  <2>2. PICK y : y = Situation(candidate, p, drawdown, record, allocated)
    OBVIOUS
  <2>3. RegimeMultiplier(RegimeOf(y)) \in Nat /\ RegimeMultiplier(RegimeOf(sit)) \in Nat
    BY <1>2, <2>2, RegimeFalls DEF RegimeOf, Situation
  <2>4. RegimeMultiplier(RegimeOf(y)) <= RegimeMultiplier(RegimeOf(sit)) /\ drawdown <= drawdown /\ allocated <= allocated
    BY <1>3, <2>1, <2>2, <2>3
  <2> QED
    BY <1>3, <1>4, <2>1, <2>2, <2>4, Zenon
<1>6. CASE AccountFalls
  <2>1. PICK d \in Nat : drawdown < d /\ Becomes(Situation(candidate, prices, d, record, allocated))
    BY <1>2, <1>6, SituationStep, Zenon
  <2>2. PICK y : y = Situation(candidate, prices, d, record, allocated)
    OBVIOUS
  <2>3. drawdown <= d /\ allocated <= allocated
    BY <1>3, <2>1
  <2>4. RegimeMultiplier(RegimeOf(y)) <= RegimeMultiplier(RegimeOf(sit))
    BY <1>2, <2>2, <2>3, RegimeFalls DEF RegimeOf, Situation
  <2> QED
    BY <1>3, <1>4, <2>1, <2>2, <2>3, <2>4, Zenon
<1>7. CASE CapitalUsed
  <2>1. allocated = 0 /\ Becomes(Situation(candidate, prices, drawdown, record, EquityUsd \div 3))
    BY <1>2, <1>7, SituationStep, Zenon
  <2> DEFINE a == EquityUsd \div 3
  <2>2. PICK y : y = Situation(candidate, prices, drawdown, record, a)
    OBVIOUS
  <2>3. drawdown <= drawdown /\ allocated <= a
    BY <1>3, <2>1, <2>2
  <2>4. RegimeMultiplier(RegimeOf(y)) <= RegimeMultiplier(RegimeOf(sit))
    BY <1>2, <2>2, <2>3, RegimeFalls DEF RegimeOf, Situation
  <2>5. a \in Nat /\ drawdown \in Nat /\ Becomes(y)
    BY <1>3, <2>1, <2>2
  <2> HIDE DEF a
  <2> QED
    BY <1>4, <2>2, <2>3, <2>4, <2>5, Zenon
<1> QED
  BY <1>5, <1>6, <1>7

\* What MarketAndAccountNeverRaise says, of any behaviour.
NeverRaised ==
    [][MarketTurns \/ AccountFalls \/ CapitalUsed =>
          \A s \in Ensemble : orders[s] > 0 => orders'[s] <= orders[s]]_sizingVars

(***************************************************************************)
(* The market turning, the account falling and capital being used never    *)
(* raise the order of a strategy, whatever the candidate, the limits, the  *)
(* prices and the record: the half of SizeNeverGrows that does not depend  *)
(* on what the scores make of the token.                                   *)
(***************************************************************************)
THEOREM MarketAndAccountNeverRaise == SizingSpec => NeverRaised
<1>1. SizingInit => SizingInv
  BY SizingInvStarts
<1>2. SizingInv /\ [SizingNext]_sizingVars => SizingInv'
  BY SizingInvKept
<1>3. SizingInv => [MarketTurns \/ AccountFalls \/ CapitalUsed =>
                        \A s \in Ensemble : orders[s] > 0 => orders'[s] <= orders[s]]_sizingVars
  BY SizingStepFalls
<1> QED
  BY <1>1, <1>2, <1>3, PTL DEF SizingSpec, NeverRaised

-----------------------------------------------------------------------------
(* The followed wallets: a swap is copied at most once.                   *)

CopyIds == {s.id : s \in Swaps}

CopyTyped ==
    /\ copyTime \in Nat /\ shown \subseteq Swaps /\ began \subseteq Swaps
    /\ \E wallets \in SUBSET Wallet : cursors \in [wallets -> Nat]
    /\ seenOrder \in Seq(CopyIds) /\ signals \in Seq(Swaps)
    /\ handed \in [Swaps -> Nat]

\* Handed on, in hand, or history when a baseline was taken.
Dealt(swap) == handed[swap] > 0 \/ swap \in began \/ swap \in ToSet(signals)

\* It is behind the cursor, or so far back that the indexer answers without it.
Passed(swap) ==
    Baselined(swap.wallet) => swap.lt <= cursors[swap.wallet] \/ After(swap) >= PageSize

InHand(swap) == swap.buy /\ Baselined(swap.wallet) /\ handed[swap] = 0 /\ swap \notin began

CopyInv ==
    /\ CopyTyped
    /\ \A swap \in shown : Made(swap)
    /\ \A swap \in Swaps : Dealt(swap) => swap \in shown /\ Passed(swap)
    /\ \A swap \in ToSet(signals) : InHand(swap)
    /\ \A i, j \in DOMAIN signals : i # j => signals[i] # signals[j]
    /\ \A swap \in Swaps : handed[swap] <= 1 /\ (handed[swap] > 0 => swap.buy)

LEMMA LtsFinite ==
    ASSUME NEW of \in SUBSET Swaps
    PROVE  IsFiniteSet({swap.lt : swap \in of})
<1> DEFINE lts == {swap.lt : swap \in of}
           f == [swap \in of |-> swap.lt]
<1>1. IsFiniteSet(of)
  BY CopyAssumption, FS_Subset
<1>2. f \in Surjection(of, lts)
  BY DEF Surjection
<1> HIDE DEF f
<1>3. IsFiniteSet(lts)
  <2> HIDE DEF lts
  <2> QED
    BY <1>1, <1>2, FS_Surjection
<1> QED
  BY <1>3

\* The elements of a finite set of swaps: their newest lt.
LEMMA NewestBounds ==
    ASSUME NEW of \in SUBSET Swaps, NEW floor \in Nat
    PROVE  /\ NewestLt(of, floor) \in Nat /\ NewestLt(of, floor) >= floor
           /\ \A swap \in of : swap.lt <= NewestLt(of, floor)
<1> DEFINE lts == {swap.lt : swap \in of}
           all == {floor} \cup lts
<1>1. \A swap \in Swaps : swap.lt \in Nat
  BY CopyAssumption
<1>3. IsFiniteSet(lts)
  BY LtsFinite
<1>4. IsFiniteSet(all)
  <2> HIDE DEF lts
  <2> QED
    BY <1>3, FS_Singleton, FS_Union
<1>5. all \in SUBSET Int /\ all # {} /\ all \subseteq Nat
  BY <1>1
<1>6. Max(all) \in all /\ \A y \in all : Max(all) >= y
  <2> HIDE DEF all
  <2> QED
    BY <1>4, <1>5, MaxIn
<1> QED
  BY <1>5, <1>6 DEF NewestLt

\* What is far back stays far back.
LEMMA AfterGrows ==
    ASSUME NEW swap \in Swaps, copyTime \in Nat, copyTime' \in Nat, copyTime <= copyTime'
    PROVE  After(swap) \in Nat /\ After(swap)' \in Nat /\ After(swap) <= After(swap)'
<1> DEFINE later  == {s \in Swaps : Made(s) /\ s.wallet = swap.wallet /\ Later(s, swap)}
           laterN == {s \in Swaps : Made(s)' /\ s.wallet = swap.wallet /\ Later(s, swap)}
           lts == {s.lt : s \in later}
           ltsN == {s.lt : s \in laterN}
<1>1. later \subseteq laterN
  <2>1. ASSUME NEW s \in Swaps, Made(s) PROVE Made(s)'
    <3>1. s.lt \in Nat
      BY CopyAssumption
    <3> QED
      BY <2>1, <3>1 DEF Made
  <2> QED
    BY <2>1
<1>2. lts \subseteq ltsN
  <2> HIDE DEF later, laterN
  <2> QED
    BY <1>1
<1>3. IsFiniteSet(lts) /\ IsFiniteSet(ltsN)
  <2>1. later \in SUBSET Swaps /\ laterN \in SUBSET Swaps
    OBVIOUS
  <2> HIDE DEF later, laterN
  <2> QED
    BY <2>1, LtsFinite
<1>4. After(swap) = Cardinality(lts) /\ After(swap)' = Cardinality(ltsN)
  BY DEF After
<1>5. Cardinality(lts) \in Nat /\ Cardinality(ltsN) \in Nat /\ Cardinality(lts) <= Cardinality(ltsN)
  <2> HIDE DEF lts, ltsN
  <2> QED
    BY <1>2, <1>3, FS_Subset, FS_CardinalityType
<1> QED
  BY <1>4, <1>5

-----------------------------------------------------------------------------
(* The fold over a page.                                                   *)

Distinct(seq) == \A i, j \in DOMAIN seq : i # j => seq[i] # seq[j]

Found == [order : Seq(CopyIds), signals : Seq(Swaps)]

LEMMA TakeTyped ==
    ASSUME NEW found \in Found, NEW swap \in Swaps, NEW cursor \in Nat
    PROVE  Take(found, swap, cursor) \in Found
<1>1. swap.id \in CopyIds
  BY DEF CopyIds
<1>2. found.order \in Seq(CopyIds) /\ found.signals \in Seq(Swaps)
  BY DEF Found
<1>3. Append(found.order, swap.id) \in Seq(CopyIds) /\ Append(found.order, swap.id) # <<>>
      /\ Append(found.signals, swap) \in Seq(Swaps)
  BY <1>1, <1>2
<1>4. WithKey(found.order, swap.id) \in Seq(CopyIds)
  BY <1>3 DEF WithKey
<1> QED
  BY <1>2, <1>3, <1>4 DEF Take, Found

\* One step keeps what is in hand and adds at most the swap.
LEMMA TakeAdds ==
    ASSUME NEW found \in Found, NEW swap \in Swaps, NEW cursor \in Nat, Distinct(found.signals),
           swap \notin ToSet(found.signals) \/ swap.lt <= cursor
    PROVE  LET next == Take(found, swap, cursor).signals IN
           /\ Distinct(next)
           /\ \A s \in ToSet(next) : s \in ToSet(found.signals) \/ (s = swap /\ s.buy /\ s.lt > cursor)
<1> DEFINE next == Take(found, swap, cursor).signals
<1> SUFFICES /\ Distinct(next)
             /\ \A s \in ToSet(next) : s \in ToSet(found.signals) \/ (s = swap /\ s.buy /\ s.lt > cursor)
  OBVIOUS
<1>1. CASE next = found.signals
  BY <1>1
<1>2. CASE next = Append(found.signals, swap) /\ swap.buy /\ ~ (swap.lt <= cursor)
  <2>1. found.signals \in Seq(Swaps) /\ swap.lt \in Nat
    BY CopyAssumption DEF Found
  <2>2. /\ Len(next) = Len(found.signals) + 1 /\ Len(found.signals) \in Nat
        /\ DOMAIN next = 1..Len(next) /\ DOMAIN found.signals = 1..Len(found.signals)
        /\ next[Len(next)] = swap
        /\ \A i \in DOMAIN found.signals : next[i] = found.signals[i]
    BY <1>2, <2>1
  <2>3. \A i \in DOMAIN next : i = Len(next) \/ i \in DOMAIN found.signals
    BY <2>2
  <2>4. \A i \in DOMAIN found.signals : found.signals[i] # swap
    BY <1>2 DEF ToSet
  <2> HIDE DEF next
  <2>5. Distinct(next)
    <3>1. ASSUME NEW i \in DOMAIN next, NEW j \in DOMAIN next, i # j PROVE next[i] # next[j]
      BY <2>2, <2>3, <2>4, <3>1 DEF Distinct
    <3> QED
      BY <3>1 DEF Distinct
  <2>6. ASSUME NEW s \in ToSet(next) PROVE s \in ToSet(found.signals) \/ s = swap
    BY <2>2, <2>3, <2>6 DEF ToSet
  <2>7. swap.lt > cursor
    BY <1>2, <2>1
  <2> QED
    BY <1>2, <2>5, <2>6, <2>7 DEF next
<1>3. next = found.signals \/ (next = Append(found.signals, swap) /\ swap.buy /\ ~ (swap.lt <= cursor))
  <2>1. CASE swap.lt <= cursor \/ swap.id \in ToSet(found.order)
    BY <2>1 DEF Take
  <2>2. CASE ~ (swap.lt <= cursor \/ swap.id \in ToSet(found.order))
    <3>1. Take(found, swap, cursor) =
            [order |-> WithKey(found.order, swap.id),
             signals |-> IF Fresh(swap) THEN Append(found.signals, swap) ELSE found.signals]
      BY <2>2 DEF Take
    <3>2. next = IF Fresh(swap) THEN Append(found.signals, swap) ELSE found.signals
      BY <3>1
    <3> HIDE DEF next
    <3> QED
      BY <2>2, <3>2, Zenon DEF Fresh
  <2> QED
    BY <2>1, <2>2
<1> QED
  BY <1>1, <1>2, <1>3

\* What is found on a page: no swap twice, and of the page only what is past the cursor.
LEMMA TakenFacts ==
    ASSUME NEW of \in SUBSET Swaps, NEW page \in SetToSeqs(of), NEW cursor \in Nat,
           seenOrder \in Seq(CopyIds), signals \in Seq(Swaps), Distinct(signals),
           \A swap \in of : swap.lt > cursor => swap \notin ToSet(signals)
    PROVE  /\ Taken(page, cursor) \in Found
           /\ Distinct(Taken(page, cursor).signals)
           /\ \A s \in ToSet(Taken(page, cursor).signals) :
                 s \in ToSet(signals) \/ (s \in of /\ s.buy /\ s.lt > cursor)
<1> DEFINE n == Cardinality(of)
           S == 1..n
           base == [order |-> seenOrder, signals |-> signals]
           st == [z \in S \X Found |-> Take(z[2], page[z[1]], cursor)]
           ch == [s \in SUBSET S |-> Max(s)]
           Folds(g) == g = [s \in SUBSET S |-> IF s = {} THEN base ELSE Take(g[s \ {Max(s)}], page[Max(s)], cursor)]
<1>1. n \in Nat /\ IsFiniteSet(S) /\ S \subseteq Int
  <2>1. n \in Nat
    BY CopyAssumption, FS_Subset, FS_CardinalityType
  <2> HIDE DEF n
  <2> QED
    BY <2>1, FS_Interval
<1>2. page \in [S -> of] /\ DOMAIN page = S /\ \A i, j \in S : i # j => page[i] # page[j]
  BY DEF SetToSeqs
<1>3. \A i \in S : page[i] \in of /\ page[i] \in Swaps
  BY <1>2
<1>4. base \in Found
  BY DEF Found
<1> HIDE DEF n
<1>5. \A s \in SUBSET S : s # {} => Max(s) \in S /\ Max(s) \in s
  <2>1. ASSUME NEW s \in SUBSET S, s # {} PROVE Max(s) \in s
    <3>1. IsFiniteSet(s) /\ s \in SUBSET Int
      BY <1>1, FS_Subset
    <3> QED
      BY <2>1, <3>1, MaxIn
  <2> QED
    BY <2>1
<1> HIDE DEF S
<1>6. st \in [S \X Found -> Found]
  <2>1. ASSUME NEW z \in S \X Found PROVE Take(z[2], page[z[1]], cursor) \in Found
    <3>1. z[1] \in S /\ z[2] \in Found
      OBVIOUS
    <3>2. page[z[1]] \in Swaps
      BY <1>3, <3>1
    <3> QED
      BY <3>1, <3>2, TakeTyped
  <2> QED
    BY <2>1
<1>7. PICK h \in [SUBSET S -> Found] : Unfolds(h, S, base, ch, st)
  <2>1. \A s \in SUBSET S : s # {} => ch[s] \in s
    BY <1>5
  <2> HIDE DEF st, ch, base
  <2> QED
    BY <1>1, <1>4, <1>6, <2>1, RecursionExists
<1>8. Folds(h)
  <2>1. h[{}] = base
    BY <1>7 DEF Unfolds
  <2>2. ASSUME NEW s \in SUBSET S, s # {} PROVE h[s] = Take(h[s \ {Max(s)}], page[Max(s)], cursor)
    <3>1. h[s] = st[<<ch[s], h[s \ {ch[s]}]>>]
      BY <1>7, <2>2 DEF Unfolds
    <3>2. ch[s] = Max(s) /\ Max(s) \in S /\ h[s \ {Max(s)}] \in Found
      BY <1>5, <1>7, <2>2
    <3>3. st[<<Max(s), h[s \ {Max(s)}]>>] = Take(h[s \ {Max(s)}], page[Max(s)], cursor)
      BY <3>2
    <3> HIDE DEF st, ch
    <3> QED
      BY <3>1, <3>2, <3>3
  <2> HIDE DEF base
  <2> QED
    BY <1>7, <2>1, <2>2
<1>9. Taken(page, cursor) = (CHOOSE g : Folds(g))[DOMAIN page]
  <2>1. DOMAIN page = S
    BY <1>2
  <2> QED
    BY <2>1, Zenon DEF Taken, FoldLeft, MapThenFoldSet
<1>10. PICK g : Folds(g) /\ Taken(page, cursor) = g[S]
  <2> HIDE DEF Folds
  <2> QED
    BY <1>2, <1>8, <1>9
<1> DEFINE Right(found, t) ==
               /\ found \in Found /\ Distinct(found.signals)
               /\ \A s \in ToSet(found.signals) :
                     s \in ToSet(signals) \/ (s.buy /\ s.lt > cursor /\ \E i \in t : s = page[i])
           T == {t \in SUBSET S : Right(g[t], t)}
<1>11. {} \in T
  <2>1. g[{}] = base
    BY <1>10
  <2> QED
    BY <1>4, <2>1
<1>12. ASSUME NEW t \in SUBSET S, t # {}, \A x \in t : t \ {x} \in T PROVE t \in T
  <2>1. PICK m \in t : m = Max(t)
    BY <1>5, <1>12
  <2>2. PICK found : found = g[t \ {m}] /\ Right(found, t \ {m})
    <3> HIDE DEF Right
    <3> QED
      BY <1>12
  <2>3. g[t] = Take(found, page[m], cursor)
    BY <1>10, <1>12, <2>1, <2>2
  <2>4. page[m] \in of /\ page[m] \in Swaps
    BY <1>3
  <2>5. page[m] \notin ToSet(found.signals) \/ page[m].lt <= cursor
    <3>1. ~ \E i \in t \ {m} : page[m] = page[i]
      BY <1>2
    <3>2. page[m].lt > cursor \/ page[m].lt <= cursor
      BY <2>4, CopyAssumption
    <3> QED
      BY <2>2, <2>4, <3>1, <3>2
  <2>6. PICK next : next = Take(found, page[m], cursor)
    OBVIOUS
  <2>7. next \in Found
    BY <2>2, <2>4, <2>6, TakeTyped
  <2>8. /\ Distinct(next.signals)
        /\ \A s \in ToSet(next.signals) : s \in ToSet(found.signals) \/ (s = page[m] /\ s.buy /\ s.lt > cursor)
    BY <2>2, <2>4, <2>5, <2>6, TakeAdds
  <2>9. Right(next, t)
    BY <2>2, <2>7, <2>8
  <2> HIDE DEF Right
  <2> QED
    BY <2>3, <2>6, <2>9
<1>13. S \in T
  <2> HIDE DEF T, Right, Folds
  <2>1. IsFiniteSet(S)
    BY <1>1
  <2>2. \A t \in SUBSET S : t # {} /\ (\A x \in t : t \ {x} \in T) => t \in T
    BY <1>12
  <2> QED
    BY <1>11, <2>1, <2>2, SubsetInduction, Zenon
<1>14. Right(g[S], S)
  BY <1>13
<1>15. \A s : (\E i \in S : s = page[i]) => s \in of
  BY <1>3
<1> HIDE DEF Folds, T
<1> QED
  BY <1>10, <1>14, <1>15

-----------------------------------------------------------------------------
(* The steps.                                                              *)

\* A step that leaves what was dealt with, and moves neither clock nor cursors.
LEMMA DealtKept ==
    ASSUME CopyInv, shown \subseteq shown', copyTime \in Nat, copyTime' \in Nat, copyTime <= copyTime',
           cursors' = cursors, signals' = signals, handed' = handed, began' = began, seenOrder' = seenOrder,
           shown' \subseteq Swaps, \A swap \in shown' : Made(swap)'
    PROVE  CopyInv'
<1>1. CopyTyped'
  BY DEF CopyInv, CopyTyped
<1>2. ASSUME NEW swap \in Swaps, Dealt(swap)' PROVE swap \in shown' /\ Passed(swap)'
  <2>1. Dealt(swap) /\ swap \in shown /\ Passed(swap)
    BY <1>2 DEF CopyInv, Dealt
  <2>2. After(swap) <= After(swap)' /\ After(swap) \in Nat /\ After(swap)' \in Nat
    BY AfterGrows
  <2>3. PageSize \in Nat
    BY CopyAssumption
  <2> QED
    BY <2>1, <2>2, <2>3 DEF Passed, Baselined
<1> QED
  BY <1>1, <1>2 DEF CopyInv, InHand, Baselined

LEMMA PollFailsKept ==
    ASSUME CopyInv, NEW wallet \in Wallet, PollFails(wallet)
    PROVE  CopyInv'
BY DealtKept DEF PollFails, CopyInv, CopyTyped, Made

LEMMA ShowsKept ==
    ASSUME CopyInv, NEW swap \in Swaps, Shows(swap)
    PROVE  CopyInv'
<1>1. \A s \in shown' : s \in shown \/ (s \in Swaps /\ s.lt = swap.lt)
  BY DEF Shows
<1>2. \A s \in shown' : Made(s)'
  BY <1>1 DEF Shows, CopyInv, Made
<1> QED
  BY <1>2, DealtKept DEF Shows, CopyInv, CopyTyped

LEMMA CopyTickKept ==
    ASSUME CopyInv, CopyTick
    PROVE  CopyInv'
<1>1. copyTime \in Nat /\ copyTime' = copyTime + 1
  BY DEF CopyTick, CopyInv, CopyTyped
<1>2. ASSUME NEW s \in shown' PROVE Made(s)'
  <2>1. s \in Swaps /\ Made(s) /\ s.lt \in Nat
    BY <1>2, CopyAssumption DEF CopyTick, CopyInv, CopyTyped
  <2> QED
    BY <1>1, <2>1 DEF Made
<1> QED
  BY <1>1, <1>2, DealtKept DEF CopyTick, CopyInv, CopyTyped

LEMMA EntriesStopKept ==
    ASSUME CopyInv, EntriesStop
    PROVE  CopyInv'
BY DealtKept DEF EntriesStop, CopyInv, CopyTyped, Made

\* What an element of a sequence without repetitions counts.
LEMMA CountOnce ==
    ASSUME NEW seq \in Seq(Swaps), Distinct(seq), NEW swap
    PROVE  LET count == Cardinality({i \in DOMAIN seq : seq[i] = swap}) IN
           /\ count \in 0..1
           /\ count > 0 <=> swap \in ToSet(seq)
<1> DEFINE at == {i \in DOMAIN seq : seq[i] = swap}
<1>1. CASE swap \in ToSet(seq)
  <2>1. PICK i \in DOMAIN seq : seq[i] = swap
    BY <1>1 DEF ToSet
  <2>2. at = {i}
    BY <2>1 DEF Distinct
  <2>3. Cardinality(at) = 1
    <3> HIDE DEF at
    <3> QED
      BY <2>2, FS_Singleton
  <2> QED
    BY <1>1, <2>3
<1>2. CASE swap \notin ToSet(seq)
  <2>1. at = {}
    BY <1>2 DEF ToSet
  <2>2. Cardinality(at) = 0
    <3> HIDE DEF at
    <3> QED
      BY <2>1, FS_EmptySet
  <2> QED
    BY <1>2, <2>2
<1> QED
  BY <1>1, <1>2

LEMMA EmptyHand == DOMAIN <<>> = {} /\ ToSet(<<>>) = {}
BY DEF ToSet

LEMMA CopyRestartKept ==
    ASSUME CopyInv, CopyRestart
    PROVE  CopyInv'
<1>1. cursors' \in [{} -> Nat] /\ seenOrder' = <<>> /\ signals' = <<>> /\ DOMAIN cursors' = {}
  BY DEF CopyRestart
<1>2. CopyTyped'
  <2>1. \E wallets \in SUBSET Wallet : cursors' \in [wallets -> Nat]
    BY <1>1
  <2>2. <<>> \in Seq(CopyIds) /\ <<>> \in Seq(Swaps)
    OBVIOUS
  <2> QED
    BY <1>1, <2>1, <2>2 DEF CopyRestart, CopyInv, CopyTyped
<1>3. \A w : ~Baselined(w)'
  BY <1>1 DEF Baselined
<1>4. ToSet(signals') = {} /\ DOMAIN signals' = {}
  BY <1>1, EmptyHand
<1>5. \A swap \in shown' : Made(swap)'
  BY DEF CopyRestart, CopyInv, Made
<1>6. \A swap \in Swaps : Dealt(swap)' => swap \in shown' /\ Passed(swap)'
  BY <1>3, <1>4 DEF Dealt, Passed, CopyRestart, CopyInv
<1> QED
  BY <1>2, <1>4, <1>5, <1>6 DEF CopyRestart, CopyInv

LEMMA CopyCycleKept ==
    ASSUME CopyInv, CopyCycle
    PROVE  CopyInv'
<1> DEFINE count(swap) == Cardinality({i \in DOMAIN signals : signals[i] = swap})
<1>1. signals \in Seq(Swaps) /\ Distinct(signals) /\ handed \in [Swaps -> Nat]
  BY DEF CopyInv, CopyTyped, Distinct
<1>2. \A swap : count(swap) \in 0..1 /\ (count(swap) > 0 <=> swap \in ToSet(signals))
  BY <1>1, CountOnce
<1> HIDE DEF count
<1>3. ASSUME NEW swap \in Swaps
      PROVE  /\ handed'[swap] \in 0..1
             /\ handed'[swap] > 0 => handed[swap] > 0 \/ swap \in ToSet(signals)
             /\ handed'[swap] > 0 => swap.buy
  <2>1. handed[swap] \in 0..1 /\ (handed[swap] > 0 => swap.buy)
    BY <1>1 DEF CopyInv
  <2>2. swap \in ToSet(signals) => swap.buy /\ handed[swap] = 0
    BY DEF CopyInv, InHand
  <2>3. handed'[swap] = handed[swap] \/ handed'[swap] = handed[swap] + count(swap)
    BY DEF CopyCycle, count
  <2> QED
    BY <1>2, <2>1, <2>2, <2>3
<1>4. handed' \in [Swaps -> Nat]
  <2>1. \A swap \in Swaps : handed[swap] + count(swap) \in Nat
    BY <1>1, <1>2
  <2>2. handed' = handed \/ handed' = [swap \in Swaps |-> handed[swap] + count(swap)]
    BY DEF CopyCycle, count
  <2> QED
    BY <1>1, <2>1, <2>2
<1>5. ToSet(signals') = {} /\ DOMAIN signals' = {} /\ signals' \in Seq(Swaps)
  BY EmptyHand DEF CopyCycle
<1>6. CopyTyped'
  BY <1>4, <1>5 DEF CopyCycle, CopyInv, CopyTyped
<1>7. ASSUME NEW swap \in Swaps, Dealt(swap)' PROVE swap \in shown' /\ Passed(swap)'
  <2>1. Dealt(swap)
    BY <1>3, <1>5, <1>7 DEF Dealt, CopyCycle
  <2>2. swap \in shown /\ Passed(swap)
    BY <2>1 DEF CopyInv
  <2> QED
    BY <2>2 DEF CopyCycle, Passed, Baselined, After, Made
<1>8. \A swap \in shown' : Made(swap)'
  BY DEF CopyCycle, CopyInv, Made
<1> QED
  BY <1>3, <1>5, <1>6, <1>7, <1>8 DEF CopyInv

\* The clock and what the indexer shows stay: so does how far back a swap is.
LEMMA AfterStays ==
    ASSUME copyTime' = copyTime
    PROVE  \A swap : After(swap)' = After(swap) /\ (Made(swap)' <=> Made(swap))
BY DEF After, Made

\* A page holds what is shown and not too far back.
LEMMA OnPage ==
    ASSUME CopyInv, NEW wallet
    PROVE  /\ PageOf(wallet) \in SUBSET Swaps /\ PageOf(wallet) \subseteq shown
           /\ \A swap \in shown : swap.wallet = wallet => swap \in PageOf(wallet) \/ After(swap) >= PageSize
           /\ \A swap \in PageOf(wallet) : swap.wallet = wallet /\ ~ (After(swap) >= PageSize)
<1>1. \A swap \in shown : swap \in Swaps /\ Made(swap)
  BY DEF CopyInv, CopyTyped
<1>2. PageSize \in Nat
  BY CopyAssumption
<1>3. \A swap \in Swaps : After(swap) \in Nat
  <2>1. ASSUME NEW swap \in Swaps PROVE After(swap) \in Nat
    <3> DEFINE later == {s \in Swaps : Made(s) /\ s.wallet = swap.wallet /\ Later(s, swap)}
    <3>1. later \in SUBSET Swaps
      OBVIOUS
    <3>2. After(swap) = Cardinality({s.lt : s \in later})
      BY DEF After
    <3> HIDE DEF later
    <3>3. IsFiniteSet({s.lt : s \in later})
      BY <3>1, LtsFinite
    <3> QED
      BY <3>2, <3>3, FS_CardinalityType
  <2> QED
    BY <2>1
<1> QED
  BY <1>1, <1>2, <1>3 DEF PageOf

\* The first answer of a wallet: what it shows is history.
LEMMA BaselineKept ==
    ASSUME CopyInv, NEW wallet \in Wallet, Polled(wallet), ~Baselined(wallet)
    PROVE  CopyInv'
<1> DEFINE page == PageOf(wallet)
<1>1. PICK wallets \in SUBSET Wallet : cursors \in [wallets -> Nat]
  BY DEF CopyInv, CopyTyped
<1>2. DOMAIN cursors = wallets /\ wallet \notin wallets
  BY <1>1 DEF Baselined
<1>3. PICK newest \in Nat : newest = NewestLt(page, 0) /\ \A swap \in page : swap.lt <= newest
  BY NewestBounds, OnPage
<1>4. /\ cursors' = [w \in DOMAIN cursors \cup {wallet} |-> IF w = wallet THEN newest ELSE cursors[w]]
      /\ began' = began \cup page
      /\ UNCHANGED <<copyTime, shown, handed, seenOrder, signals>>
  BY <1>3 DEF Polled
<1>5. /\ cursors' \in [wallets \cup {wallet} -> Nat] /\ cursors'[wallet] = newest
      /\ \A w \in wallets : cursors'[w] = cursors[w]
  BY <1>1, <1>2, <1>4
<1>6. \A w : Baselined(w)' <=> Baselined(w) \/ w = wallet
  BY <1>2, <1>5 DEF Baselined
<1>7. CopyTyped'
  <2>1. \E all \in SUBSET Wallet : cursors' \in [all -> Nat]
    BY <1>5
  <2>2. began' \subseteq Swaps
    BY <1>4, OnPage DEF CopyInv, CopyTyped
  <2> QED
    BY <1>4, <2>1, <2>2 DEF CopyInv, CopyTyped
<1>8. ASSUME NEW swap \in Swaps, Dealt(swap)' PROVE swap \in shown' /\ Passed(swap)'
  <2>1. swap \in shown
    <3>1. CASE swap \in page
      BY <3>1, OnPage
    <3>2. CASE swap \notin page
      <4>1. Dealt(swap)
        BY <1>4, <1>8, <3>2 DEF Dealt
      <4> QED
        BY <4>1 DEF CopyInv
    <3> QED
      BY <3>1, <3>2
  <2>2. CASE swap.wallet = wallet
    <3>1. swap \in page \/ After(swap) >= PageSize
      BY <2>1, <2>2, OnPage
    <3>2. After(swap)' = After(swap)
      BY <1>4, AfterStays
    <3> QED
      BY <1>3, <1>4, <1>5, <2>1, <2>2, <3>1, <3>2 DEF Passed
  <2>3. CASE swap.wallet # wallet
    <3>1. swap \notin page
      BY <2>3, OnPage
    <3>2. Dealt(swap)
      BY <1>4, <1>8, <3>1 DEF Dealt
    <3>3. Passed(swap)
      BY <3>2 DEF CopyInv
    <3>4. After(swap)' = After(swap)
      BY <1>4, AfterStays
    <3>5. Baselined(swap.wallet)' => Baselined(swap.wallet) /\ cursors'[swap.wallet] = cursors[swap.wallet]
      BY <1>2, <1>5, <1>6, <2>3 DEF Baselined
    <3> QED
      BY <1>4, <2>1, <3>3, <3>4, <3>5 DEF Passed
  <2> QED
    BY <2>2, <2>3
<1>9. ASSUME NEW swap \in ToSet(signals') PROVE InHand(swap)'
  <2>1. InHand(swap)
    BY <1>4, <1>9 DEF CopyInv
  <2>2. swap \notin page
    <3>1. swap.wallet # wallet
      BY <2>1 DEF InHand
    <3> QED
      BY <3>1, OnPage
  <2> QED
    BY <1>4, <1>6, <2>1, <2>2 DEF InHand
<1>10. \A swap \in shown' : Made(swap)'
  BY <1>4, AfterStays DEF CopyInv
<1> QED
  BY <1>4, <1>7, <1>8, <1>9, <1>10 DEF CopyInv

\* A later answer: what is past the cursor and a fresh BUY is taken in hand, once.
LEMMA TakingKept ==
    ASSUME CopyInv, NEW wallet \in Wallet, Polled(wallet), Baselined(wallet)
    PROVE  CopyInv'
<1> DEFINE of == PageOf(wallet)
<1>1. PICK wallets \in SUBSET Wallet : cursors \in [wallets -> Nat]
  BY DEF CopyInv, CopyTyped
<1>2. DOMAIN cursors = wallets /\ wallet \in wallets
  BY <1>1 DEF Baselined
<1>3. PICK cursor \in Nat : cursor = cursors[wallet]
  BY <1>1, <1>2
<1>4. PICK newest \in Nat : /\ newest = NewestLt(of, cursor) /\ newest >= cursor
                            /\ \A swap \in of : swap.lt <= newest
  BY NewestBounds, OnPage
<1>5. PICK page \in SetToSeqs(of) :
         /\ cursors' = [cursors EXCEPT ![wallet] = newest]
         /\ seenOrder' = Taken(page, cursor).order /\ signals' = Taken(page, cursor).signals
  BY <1>3, <1>4 DEF Polled, WalletSwaps
<1>6. UNCHANGED <<copyTime, shown, handed, began>>
  BY DEF Polled
<1>7. cursors' \in [wallets -> Nat] /\ cursors'[wallet] = newest /\ \A w \in wallets : w # wallet => cursors'[w] = cursors[w]
  BY <1>1, <1>2, <1>5
<1>8. \A w : Baselined(w)' <=> Baselined(w)
  BY <1>2, <1>7 DEF Baselined
\* Nothing on the page that was dealt with is past the cursor.
<1>9. ASSUME NEW swap \in of, swap.lt > cursor PROVE ~Dealt(swap)
  <2>1. swap \in Swaps /\ swap.wallet = wallet /\ ~ (After(swap) >= PageSize) /\ swap.lt \in Nat
    BY OnPage, CopyAssumption
  <2>2. ~ (swap.lt <= cursor)
    BY <1>9, <2>1
  <2> QED
    BY <1>3, <2>1, <2>2 DEF CopyInv, Passed
<1>10. /\ Taken(page, cursor) \in Found /\ Distinct(signals')
       /\ \A s \in ToSet(signals') : s \in ToSet(signals) \/ (s \in of /\ s.buy /\ s.lt > cursor)
  <2>1. seenOrder \in Seq(CopyIds) /\ signals \in Seq(Swaps) /\ Distinct(signals)
    BY DEF CopyInv, CopyTyped, Distinct
  <2>2. \A swap \in of : swap.lt > cursor => swap \notin ToSet(signals)
    BY <1>9 DEF Dealt
  <2>3. of \in SUBSET Swaps
    BY OnPage
  <2> HIDE DEF of
  <2> QED
    BY <1>5, <2>1, <2>2, <2>3, TakenFacts
<1>11. CopyTyped'
  <2>1. seenOrder' \in Seq(CopyIds) /\ signals' \in Seq(Swaps)
    BY <1>5, <1>10 DEF Found
  <2> QED
    BY <1>6, <1>7, <2>1 DEF CopyInv, CopyTyped
<1>12. ASSUME NEW swap \in Swaps, Dealt(swap)' PROVE swap \in shown' /\ Passed(swap)'
  <2>1. After(swap)' = After(swap)
    BY <1>6, AfterStays
  <2>2. CASE Dealt(swap)
    <3>1. swap \in shown /\ Passed(swap)
      BY <2>2 DEF CopyInv
    <3>2. CASE swap.wallet = wallet
      <4>1. swap.lt <= cursor \/ After(swap) >= PageSize
        BY <1>3, <3>1, <3>2 DEF Passed
      <4>2. swap.lt \in Nat
        BY CopyAssumption
      <4>3. swap.lt <= newest \/ After(swap) >= PageSize
        BY <1>4, <4>1, <4>2
      <4> QED
        BY <1>6, <1>7, <2>1, <3>1, <3>2, <4>3 DEF Passed
    <3>3. CASE swap.wallet # wallet
      <4>1. Baselined(swap.wallet)' => Baselined(swap.wallet) /\ cursors'[swap.wallet] = cursors[swap.wallet]
        BY <1>2, <1>7, <1>8, <3>3 DEF Baselined
      <4> QED
        BY <1>6, <2>1, <3>1, <4>1 DEF Passed
    <3> QED
      BY <3>2, <3>3
  <2>3. CASE ~Dealt(swap)
    <3>1. swap \in of
      BY <1>6, <1>10, <1>12, <2>3 DEF Dealt
    <3>2. swap \in shown /\ swap.wallet = wallet /\ swap.lt <= newest
      BY <1>4, <3>1, OnPage
    <3> QED
      BY <1>6, <1>7, <3>2 DEF Passed
  <2> QED
    BY <2>2, <2>3
<1>13. ASSUME NEW swap \in ToSet(signals') PROVE InHand(swap)'
  <2>1. CASE swap \in ToSet(signals)
    <3>1. InHand(swap)
      BY <2>1 DEF CopyInv
    <3> QED
      BY <1>6, <1>8, <3>1 DEF InHand
  <2>2. CASE swap \in of /\ swap.buy /\ swap.lt > cursor
    <3>1. swap \in Swaps /\ swap.wallet = wallet /\ ~Dealt(swap)
      BY <1>9, <2>2, OnPage
    <3>2. handed[swap] = 0
      BY <3>1 DEF Dealt, CopyInv, CopyTyped
    <3> QED
      BY <1>6, <1>8, <2>2, <3>1, <3>2 DEF InHand, Dealt
  <2> QED
    BY <1>10, <2>1, <2>2
<1>14. \A swap \in shown' : Made(swap)'
  BY <1>6, AfterStays DEF CopyInv
<1> QED
  BY <1>6, <1>10, <1>11, <1>12, <1>13, <1>14 DEF CopyInv, Distinct

LEMMA CopyInvHolds == CopySpec => []CopyInv
<1>1. CopyInit => CopyInv
  <2> SUFFICES ASSUME CopyInit PROVE CopyInv
    OBVIOUS
  <2>1. cursors \in [{} -> Nat] /\ <<>> \in Seq(CopyIds) /\ <<>> \in Seq(Swaps)
    BY DEF CopyInit
  <2>2. \E wallets \in SUBSET Wallet : cursors \in [wallets -> Nat]
    BY <2>1
  <2>3. CopyTyped
    BY <2>1, <2>2 DEF CopyInit, CopyTyped
  <2> QED
    BY <2>3, EmptyHand DEF CopyInit, CopyInv, Dealt
<1>2. CopyInv /\ [CopyNext]_copyVars => CopyInv'
  <2> SUFFICES ASSUME CopyInv, [CopyNext]_copyVars PROVE CopyInv'
    OBVIOUS
  <2>1. ASSUME NEW wallet \in Wallet, Polled(wallet) PROVE CopyInv'
    BY <2>1, BaselineKept, TakingKept
  <2>2. ASSUME NEW wallet \in Wallet, PollFails(wallet) PROVE CopyInv'
    BY <2>2, PollFailsKept
  <2>3. ASSUME NEW swap \in Swaps, Shows(swap) PROVE CopyInv'
    BY <2>3, ShowsKept
  <2>4. CASE CopyCycle
    BY <2>4, CopyCycleKept
  <2>5. CASE CopyTick
    BY <2>5, CopyTickKept
  <2>6. CASE EntriesStop
    BY <2>6, EntriesStopKept
  <2>7. CASE CopyRestart
    BY <2>7, CopyRestartKept
  <2>8. CASE UNCHANGED copyVars
    BY <2>8, DealtKept DEF copyVars, CopyInv, CopyTyped, Made
  <2> QED
    BY <2>1, <2>2, <2>3, <2>4, <2>5, <2>6, <2>7, <2>8 DEF CopyNext
<1> QED
  BY <1>1, <1>2, PTL DEF CopySpec

(***************************************************************************)
(* However the answers of the indexer, its delays, the restarts and the    *)
(* copy cycles follow each other, and however soon the ring of keys        *)
(* forgets: a swap is handed on at most once, only a BUY is, and what was  *)
(* history at a baseline is never in hand again.                           *)
(***************************************************************************)
THEOREM CopiedAtMostOnce == CopySpec => []EmittedOnce
<1>1. CopyInv => EmittedOnce
  <2> SUFFICES ASSUME CopyInv PROVE EmittedOnce
    OBVIOUS
  <2> DEFINE count(swap) == Cardinality({i \in DOMAIN signals : signals[i] = swap})
  <2>1. signals \in Seq(Swaps) /\ Distinct(signals)
    BY DEF CopyInv, CopyTyped, Distinct
  <2>2. \A swap : count(swap) \in 0..1 /\ (count(swap) > 0 <=> swap \in ToSet(signals))
    BY <2>1, CountOnce
  <2> HIDE DEF count
  <2>3. ASSUME NEW swap \in Swaps
        PROVE  handed[swap] + count(swap) <= 1 /\ (swap.buy \/ handed[swap] = 0)
    <3>1. handed[swap] \in 0..1 /\ (handed[swap] > 0 => swap.buy)
      BY DEF CopyInv, CopyTyped
    <3>2. swap \in ToSet(signals) => handed[swap] = 0
      BY DEF CopyInv, InHand
    <3> QED
      BY <2>2, <3>1, <3>2
  <2>4. \A swap \in began : swap \notin ToSet(signals)
    BY DEF CopyInv, InHand
  <2> QED
    BY <2>3, <2>4 DEF EmittedOnce, count
<1> QED
  BY <1>1, CopyInvHolds, PTL

-----------------------------------------------------------------------------
(***************************************************************************)
(* Side by side the parts behave as each does alone: what is proved of     *)
(* them here and in AiDeskProofs holds of the desk that is model-checked.  *)
(***************************************************************************)
THEOREM DeskBehavesAsItsParts == DeskSpec => EntriesSpec /\ AiSpec /\ GuardsSpec /\ CopySpec
<1>1. DeskInit => EntriesInit /\ AiInit /\ GuardsInit /\ CopyInit
  BY DEF DeskInit
<1>2. [DeskNext]_deskVars => /\ [EntriesNext]_entriesVars /\ [AiNext]_aiVars
                             /\ [GuardsNext]_claimVars /\ [CopyNext]_copyVars
  BY DEF DeskNext, deskVars, SizingStep, EntriesStep, AiStep, ClaimsStep, CopyStep
<1> QED
  BY <1>1, <1>2, PTL DEF DeskSpec, EntriesSpec, AiSpec, GuardsSpec, CopySpec

\* The desk that sizes starts as Sizing does; any other leaves the situation alone.
LEMMA DeskNeverRaises == DeskSpec => NeverRaised
<1> DEFINE SizesWell == part = "sizing" => SizingInv
<1>1. DeskInit => SizesWell
  <2> SUFFICES ASSUME DeskInit, part = "sizing" PROVE SizingInv
    OBVIOUS
  <2> QED
    BY SizingInvStarts DEF DeskInit
<1>2. SizesWell /\ [DeskNext]_deskVars => SizesWell'
  <2> SUFFICES ASSUME SizesWell, [DeskNext]_deskVars, part' = "sizing" PROVE SizingInv'
    OBVIOUS
  <2>1. part = "sizing" /\ [SizingNext]_sizingVars
    BY DEF DeskNext, deskVars, SizingStep, EntriesStep, AiStep, ClaimsStep, CopyStep
  <2> QED
    BY <2>1, SizingInvKept
<1>3. SizesWell /\ [DeskNext]_deskVars =>
         [MarketTurns \/ AccountFalls \/ CapitalUsed =>
             \A s \in Ensemble : orders[s] > 0 => orders'[s] <= orders[s]]_sizingVars
  <2> SUFFICES ASSUME SizesWell, [DeskNext]_deskVars, MarketTurns \/ AccountFalls \/ CapitalUsed,
                      ~ UNCHANGED sizingVars, NEW s \in Ensemble, orders[s] > 0
               PROVE  orders'[s] <= orders[s]
    OBVIOUS
  <2>1. part = "sizing"
    BY DEF DeskNext, deskVars, SizingStep, EntriesStep, AiStep, ClaimsStep, CopyStep
  <2> QED
    BY <2>1, SizingStepFalls
<1> QED
  BY <1>1, <1>2, <1>3, PTL DEF DeskSpec, NeverRaised

(***************************************************************************)
(* Of the desk: the account, the caps and the slots hold, no swap is       *)
(* copied twice, no intent is granted more often than outages pay for, and *)
(* no market, account or capital that is worse raises an order.            *)
(***************************************************************************)
COROLLARY DeskIsSafe ==
    DeskSpec => [](CapsHold /\ SlotsHold /\ EmittedOnce /\ GrantsPaid) /\ NeverRaised
BY DeskBehavesAsItsParts, DeskNeverRaises, CapsNeverExceeded, SlotsNeverExceeded, CopiedAtMostOnce,
   GrantsAlwaysPaid, PTL
=============================================================================
