----------------------------- MODULE ClaimGuards ------------------------------
(***************************************************************************)
(* The chain of idempotency guards in front of the execution router: Redis *)
(* where REDIS_URL is set, then executed_intents in the database, then the *)
(* memory of the process.  A guard that fails hands the claim to the next  *)
(* one; a claim may fail after it was stored.  Callers claim concurrently, *)
(* the process crashes and boots, Redis forgets claims that are too old.   *)
(*                                                                         *)
(* A guard's test and its record of the claim are one atomic operation of  *)
(* the store (SET NX, INSERT .. ON CONFLICT, a Set).  Intents are claimed  *)
(* again by retries, which the router does not make today: the guard is    *)
(* what a caller that did would rely on.                                   *)
(***************************************************************************)
EXTENDS Integers, FiniteSets, Sequences

CONSTANTS Intent, Caller,
          MaxMemory,     \* max of InMemoryIdempotencyGuard
          MaxGrants,     \* bound: grants of one intent
          MaxFailures    \* bound: crashes, expiries and failed claims

ASSUME ClaimGuardsAssumption == {MaxMemory, MaxGrants, MaxFailures} \subseteq Nat /\ IsFiniteSet(Caller)

VARIABLES
    setup,     \* [redis, db, live]: REDIS_URL, a database, TRADING_MODE=LIVE
    chain,     \* the guards in their order; empty while the process is down
    stored,    \* what each guard knows to be claimed
    asking,    \* for each caller, its claim: [intent, at], at the guard it waits for; 0 when none
    grants,    \* history: how often a claim of the intent was granted
    first,     \* history: the first guard of the last boot
    outages,   \* history: what befell the stores the claims of each intent rest on
    asked,     \* history: the intents claimed in the life of the process
    overrun,   \* history: a process on its memory alone was asked for more than MaxMemory
    failures

\* What happened around the guards; no guard reads it, and no answer of one changes it.
events    == <<first, outages, asked, overrun>>
claimVars == <<setup, chain, stored, asking, grants, events, failures>>

Guards == {"redis", "pg", "memory"}
Idle   == [intent |-> "none", at |-> 0]
Chain(redisHealthy) ==
    (IF setup.redis /\ redisHealthy THEN <<"redis">> ELSE <<>>) \o (IF setup.db THEN <<"pg">> ELSE <<>>) \o <<"memory">>

\* One more outage for these intents.
Outage(hit) == outages' = [i \in Intent |-> outages[i] + IF i \in hit THEN 1 ELSE 0]

(***************************************************************************)
(* The three guards.  Only the memory forgets on its own: everything, when *)
(* it holds more than MaxMemory.                                           *)
(***************************************************************************)
First(guard, i) == i \notin stored[guard]

\* Mutant of Remembered: the memory is emptied when it is full, one intent early.
RememberedShort(guard, i) ==
    LET known == stored[guard] \cup {i} IN
    IF guard = "memory" /\ Cardinality(known) >= MaxMemory THEN {} ELSE known

Remembered(guard, i) ==
    LET known == stored[guard] \cup {i} IN
    IF guard = "memory" /\ Cardinality(known) > MaxMemory THEN {} ELSE known

(***************************************************************************)
(* FallbackIdempotencyGuard and assertNotDuplicate, seen by one caller.    *)
(***************************************************************************)
Claim(c, i) ==
    /\ chain # <<>> /\ asking[c] = Idle /\ grants[i] < MaxGrants
    /\ asking' = [asking EXCEPT ![c] = [intent |-> i, at |-> 1]]
    /\ asked' = asked \cup {i}
    /\ overrun' = (overrun \/ (first = "memory" /\ Cardinality(asked') > MaxMemory))
    /\ UNCHANGED <<setup, chain, stored, grants, first, outages, failures>>

\* The guard answers: it has recorded the claim, and grants it if it was the first.
Answer(c) ==
    LET i     == asking[c].intent
        guard == chain[asking[c].at]
    IN  /\ asking[c] # Idle
        /\ grants[i] < MaxGrants
        /\ stored' = [stored EXCEPT ![guard] = Remembered(guard, i)]
        /\ grants' = IF First(guard, i) THEN [grants EXCEPT ![i] = @ + 1] ELSE grants
        /\ asking' = [asking EXCEPT ![c] = Idle]
        /\ UNCHANGED <<setup, chain, events, failures>>

\* The claim fails, before or after the store recorded it: the next guard is asked.
ClaimFails(c, recorded) ==
    LET guard == chain[asking[c].at] IN
    /\ asking[c] # Idle /\ guard # "memory" /\ failures < MaxFailures
    /\ stored' = IF recorded THEN [stored EXCEPT ![guard] = @ \cup {asking[c].intent}] ELSE stored
    /\ asking' = [asking EXCEPT ![c].at = @ + 1]
    /\ Outage({asking[c].intent})
    /\ failures' = failures + 1
    /\ UNCHANGED <<setup, chain, grants, first, asked, overrun>>

\* PX ttlMs: nothing else recorded the claim.
Expire(i) ==
    /\ i \in stored["redis"] /\ failures < MaxFailures
    /\ stored' = [stored EXCEPT !["redis"] = @ \ {i}]
    /\ Outage({i})
    /\ failures' = failures + 1
    /\ UNCHANGED <<setup, chain, asking, grants, first, asked, overrun>>

\* With the process goes its memory, an outage where there was nothing else.
GuardsCrash ==
    /\ chain # <<>> /\ failures < MaxFailures
    /\ chain' = <<>>
    /\ stored' = [stored EXCEPT !["memory"] = {}]
    /\ asking' = [c \in Caller |-> Idle]
    /\ Outage(IF first = "memory" THEN Intent ELSE {})
    /\ asked' = {}
    /\ failures' = failures + 1
    /\ UNCHANGED <<setup, grants, first, overrun>>

\* LIVE refuses to start without a healthy Redis; the other modes go on with the rest.
\* It is an outage when the store that comes first is not the one that came first before.
BootGuards(redisHealthy) ==
    /\ chain = <<>>
    /\ setup.live => setup.redis /\ redisHealthy
    /\ chain' = Chain(redisHealthy)
    /\ first' = Head(chain')
    /\ Outage(IF first \in {"none", first'} THEN {} ELSE Intent)
    /\ UNCHANGED <<setup, stored, asking, grants, asked, overrun, failures>>

GuardsInit ==
    /\ setup \in [redis : BOOLEAN, db : BOOLEAN, live : BOOLEAN]
    /\ chain = <<>> /\ stored = [g \in Guards |-> {}]
    /\ asking = [c \in Caller |-> Idle]
    /\ grants = [i \in Intent |-> 0] /\ failures = 0
    /\ first = "none" /\ outages = [i \in Intent |-> 0] /\ asked = {} /\ overrun = FALSE

GuardsNext ==
    \/ \E c \in Caller : \/ \E i \in Intent : Claim(c, i)
                         \/ Answer(c)
                         \/ \E recorded \in BOOLEAN : ClaimFails(c, recorded)
    \/ \E i \in Intent : Expire(i)
    \/ GuardsCrash
    \/ \E healthy \in BOOLEAN : BootGuards(healthy)

GuardsSpec == GuardsInit /\ [][GuardsNext]_claimVars

(***************************************************************************)
(* What is left of "at most once" (idempotency.ts:2) when stores fail:     *)
(* each grant of an intent beyond the first is paid for by an outage of    *)
(* its own, be it a claim of this intent that a store did not answer, its  *)
(* expiry, the loss of a memory that stood alone, or a start on another    *)
(* store.  Without one, callers, crashes and restarts in any order and any *)
(* number get a single grant.  A memory that stands alone promises this    *)
(* only while it is asked for no more than it holds.                       *)
(***************************************************************************)
GrantsPaid == overrun \/ \A i \in Intent : grants[i] <= 1 + outages[i]
=============================================================================
