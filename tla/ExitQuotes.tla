------------------------------ MODULE ExitQuotes ------------------------------
(***************************************************************************)
(* What an exit is decided on: ExitObservations of one position, asked by  *)
(* the monitor of the decision cycle and by an EXIT of the AI.  The price  *)
(* is waited for, up to a deadline, and shared by those who wait; depth    *)
(* and security are refreshed beside it, one request at a time, latched    *)
(* until the provider really answers, and used when current.               *)
(*                                                                         *)
(* A snapshot is what a provider knows at some time, and its answer may    *)
(* come at any later one, or never; so may an answer for another token.    *)
(* The two optional kinds are treated alike and modelled by one, "depth".  *)
(***************************************************************************)
EXTENDS Integers

CONSTANTS Watcher,       \* who observes: the monitor and the AI
          PriceTtl,      \* config.dataFreshness.priceMs, the deadline of the price too
          DepthTtl,      \* config.dataFreshness.liquidityMs
          RetryAfter,    \* 10_000, after a failure
          MaxQuoteTime   \* bound: the clock

ASSUME ExitQuotesAssumption ==
    /\ {PriceTtl, DepthTtl, RetryAfter} \subseteq Nat \ {0} /\ MaxQuoteTime \in Nat

VARIABLES
    quoteTime,
    disposed,
    waiting,      \* for each watcher, when its deadline is, or 0: it does not wait
    arrived,      \* for each watcher that waits, the price it was answered, or NoSnapshot
    out,          \* the kinds a request is out for
    depth,        \* the cached snapshot, or NoSnapshot: [at, ok]
    nextRefresh,
    decided       \* history: what the last decision rested on: [price, depth], each None or [age, ok]

quoteVars == <<quoteTime, disposed, waiting, arrived, out, depth, nextRefresh, decided>>

NoSnapshot == [at |-> -1, ok |-> FALSE]
None       == [age |-> 0, ok |-> TRUE]
Smaller(s, t) == IF s < t THEN s ELSE t

Current(snapshot, ttl) == snapshot.ok /\ snapshot.at <= quoteTime /\ quoteTime - snapshot.at <= ttl

(***************************************************************************)
(* observe and refresh: a request that is out is joined or left alone.     *)
(***************************************************************************)
Refreshable == IF nextRefresh > quoteTime THEN {} ELSE {"depth"}

Observe(w) ==
    /\ ~disposed /\ waiting[w] = 0 /\ quoteTime + PriceTtl <= MaxQuoteTime
    /\ out' = out \cup {"price"} \cup Refreshable
    /\ waiting' = [waiting EXCEPT ![w] = quoteTime + PriceTtl]
    /\ arrived' = [arrived EXCEPT ![w] = NoSnapshot]
    /\ UNCHANGED <<quoteTime, disposed, depth, nextRefresh, decided>>

\* Who waits and was not answered waits for the request that is out.
Joined(w) == waiting[w] # 0 /\ arrived[w] = NoSnapshot

\* The provider's snapshot may be one it kept, and is ok unless it is of another token.
PriceAnswers(snapshot) ==
    /\ "price" \in out /\ out' = out \ {"price"}
    /\ arrived' = [w \in Watcher |-> IF Joined(w) THEN snapshot ELSE arrived[w]]
    /\ UNCHANGED <<quoteTime, disposed, waiting, depth, nextRefresh, decided>>

\* A request that fails fails those who wait for it.
PriceFails ==
    /\ "price" \in out /\ out' = out \ {"price"}
    /\ waiting' = [w \in Watcher |-> IF Joined(w) THEN 0 ELSE waiting[w]]
    /\ UNCHANGED <<quoteTime, disposed, arrived, depth, nextRefresh, decided>>

DepthAnswers(snapshot) ==
    /\ "depth" \in out /\ out' = out \ {"depth"}
    /\ IF disposed THEN UNCHANGED <<depth, nextRefresh>>
       ELSE depth' = snapshot /\ nextRefresh' = quoteTime + DepthTtl
    /\ UNCHANGED <<quoteTime, disposed, waiting, arrived, decided>>

DepthFails ==
    /\ "depth" \in out /\ out' = out \ {"depth"}
    /\ nextRefresh' = IF disposed THEN nextRefresh ELSE quoteTime + Smaller(DepthTtl, RetryAfter)
    /\ UNCHANGED <<quoteTime, disposed, waiting, arrived, depth, decided>>

Judged(snapshot) == [age |-> quoteTime - snapshot.at, ok |-> snapshot.ok]

Decision(price) ==
    [price |-> Judged(price), depth |-> IF Current(depth, DepthTtl) THEN Judged(depth) ELSE None]

WasAnswered(w) == waiting[w] # 0 /\ arrived[w] # NoSnapshot

\* Mutant of Decide: a price that came before the deadline is not asked its age.
DecideUnasked(w) ==
    /\ WasAnswered(w)
    /\ decided' = IF disposed THEN decided ELSE Decision(arrived[w])
    /\ waiting' = [waiting EXCEPT ![w] = 0] /\ arrived' = [arrived EXCEPT ![w] = NoSnapshot]
    /\ UNCHANGED <<quoteTime, disposed, out, depth, nextRefresh>>

\* The watcher goes on with the price, if it is still one to decide on.
Decide(w) ==
    /\ WasAnswered(w)
    /\ decided' = IF disposed \/ ~Current(arrived[w], PriceTtl) THEN decided ELSE Decision(arrived[w])
    /\ waiting' = [waiting EXCEPT ![w] = 0] /\ arrived' = [arrived EXCEPT ![w] = NoSnapshot]
    /\ UNCHANGED <<quoteTime, disposed, out, depth, nextRefresh>>

\* Mutant of DeadlinePasses: the timer does not race a request that is out.
DeadlineAwaits(w) ==
    /\ waiting[w] # 0 /\ quoteTime >= waiting[w] /\ "price" \notin out
    /\ waiting' = [waiting EXCEPT ![w] = 0] /\ arrived' = [arrived EXCEPT ![w] = NoSnapshot]
    /\ UNCHANGED <<quoteTime, disposed, out, depth, nextRefresh, decided>>

\* withinDeadline: the watcher gives up, the request stays out.
DeadlinePasses(w) ==
    /\ waiting[w] # 0 /\ quoteTime >= waiting[w]
    /\ waiting' = [waiting EXCEPT ![w] = 0] /\ arrived' = [arrived EXCEPT ![w] = NoSnapshot]
    /\ UNCHANGED <<quoteTime, disposed, out, depth, nextRefresh, decided>>

Dispose ==
    /\ ~disposed /\ disposed' = TRUE
    /\ UNCHANGED <<quoteTime, waiting, arrived, out, depth, nextRefresh, decided>>

QuoteTick ==
    /\ quoteTime < MaxQuoteTime /\ quoteTime' = quoteTime + 1
    /\ UNCHANGED <<disposed, waiting, arrived, out, depth, nextRefresh, decided>>

QuotesInit ==
    /\ quoteTime = 0 /\ disposed = FALSE
    /\ waiting = [w \in Watcher |-> 0] /\ arrived = [w \in Watcher |-> NoSnapshot]
    /\ out = {} /\ depth = NoSnapshot /\ nextRefresh = 0
    /\ decided = [price |-> None, depth |-> None]

\* One may be dated ahead of the clock; how old one of another token is does not matter.
Snapshots == [at : 0 .. quoteTime + 1, ok : {TRUE}] \cup {[at |-> 0, ok |-> FALSE]}

QuotesNext ==
    \/ \E w \in Watcher : Observe(w) \/ Decide(w) \/ DeadlinePasses(w)
    \/ \E snapshot \in Snapshots : PriceAnswers(snapshot) \/ DepthAnswers(snapshot)
    \/ PriceFails \/ DepthFails \/ Dispose \/ QuoteTick

QuotesSpec == QuotesInit /\ [][QuotesNext]_quoteVars

(***************************************************************************)
(* An exit is decided on a price of the token no older than PriceTtl when  *)
(* it is decided, whoever asked for it, whenever it came and whatever the  *)
(* provider kept; and on a depth only if that too is current by then, not  *)
(* when it was stored.                                                     *)
(***************************************************************************)
FreshDecision ==
    /\ decided.price.ok /\ decided.price.age \in 0 .. PriceTtl
    /\ decided.depth.ok /\ decided.depth.age \in 0 .. DepthTtl

(***************************************************************************)
(* Whoever observes goes on, with a price or without, though no provider   *)
(* ever answers: a request that hangs holds no exit hostage.  Assumed of   *)
(* the runtime: time passes and timers fire.                               *)
(***************************************************************************)
ObserveEnds == \A w \in Watcher : waiting[w] # 0 ~> waiting[w] = 0
=============================================================================
