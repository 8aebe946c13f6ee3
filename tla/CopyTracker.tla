----------------------------- MODULE CopyTracker ------------------------------
(***************************************************************************)
(* Following the wallets of COPYTRADE_WALLETS: the swaps the indexer shows *)
(* of each wallet, the cursor and the ring of keys that keep a swap from   *)
(* being taken twice, and the copy cycle that hands fresh BUYs on to be    *)
(* entered.  All of it is in memory: a restart takes a new baseline.       *)
(*                                                                         *)
(* A swap is [id, wallet, lt, buy]: its key is its id, its logical time is *)
(* when its event was made, which the swaps of one event share.  The       *)
(* indexer shows an event as in progress before it is done, in any order;  *)
(* what is done stays done.  Abstracted: amounts, proxies and malformed    *)
(* actions of an event, the ring of recent activity the AI reads, and what *)
(* becomes of a copy (Entries).                                            *)
(***************************************************************************)
EXTENDS Integers, FiniteSets, SequencesExt

CONSTANTS Wallet,
          Swaps,        \* the swaps that may be made
          PageSize,     \* events the indexer answers with, the newest
          SeenRing,     \* keys that are remembered
          MaxSignalAge, \* config.copytrade.maxSignalAgeSec
          MaxCopyTime,  \* bound: the clock
          MaxRestarts   \* bound: restarts

ASSUME CopyAssumption ==
    /\ {PageSize, SeenRing} \subseteq Nat \ {0}
    /\ {MaxSignalAge, MaxCopyTime, MaxRestarts} \subseteq Nat
    /\ IsFiniteSet(Swaps)
    /\ \A swap \in Swaps : swap.wallet \in Wallet /\ swap.lt \in Nat \ {0}

VARIABLES
    copyTime,
    entriesStopped, \* emergency.isStopNewEntries()
    shown,      \* events the indexer shows as done
    polled,     \* wallets the poll in progress is through with; it runs while it is not all of them
    cursors,    \* wallet -> highest lt processed, for the baselined wallets only
    seenOrder,  \* keys, oldest first
    signals,    \* BUYs the poll in progress found
    handed,     \* history: for each swap, how often the copy cycle handed it on
    began,      \* history: done when the wallet's baseline was taken by this process or an earlier one
    restarts

copyVars == <<copyTime, entriesStopped, shown, polled, cursors, seenOrder, signals, handed, began, restarts>>

Made(swap)   == swap.lt <= copyTime
Later(x, y)  == x.lt > y.lt
NewestLt(of, floor) == Max({floor} \cup {swap.lt : swap \in of})

\* How many events of its wallet were made after it.
After(swap) == Cardinality({s.lt : s \in {s \in Swaps : Made(s) /\ s.wallet = swap.wallet /\ Later(s, swap)}})

\* getWalletSwaps: of the newest events those of the wallet that are done; newest first,
\* the swaps of one event, which share its lt, in any order.
PageOf(wallet) == {swap \in shown : Made(swap) /\ swap.wallet = wallet /\ After(swap) < PageSize}
WalletSwaps(wallet) ==
    {page \in SetToSeqs(PageOf(wallet)) : \A i, j \in DOMAIN page : i < j => ~Later(page[j], page[i])}

\* markSeen
WithKey(order, id) ==
    LET longer == Append(order, id) IN
    IF Len(longer) > SeenRing THEN Tail(longer) ELSE longer

Baselined(wallet) == wallet \in DOMAIN cursors
Fresh(swap) == swap.buy /\ copyTime - swap.lt <= MaxSignalAge

\* One swap of the page: past the cursor and not seen, it is a signal if it is a fresh BUY.
Take(found, swap, cursor) ==
    IF swap.lt <= cursor \/ swap.id \in ToSet(found.order) THEN found
    ELSE [order |-> WithKey(found.order, swap.id),
          signals |-> IF Fresh(swap) THEN Append(found.signals, swap) ELSE found.signals]

Taken(page, cursor) ==
    FoldLeft(LAMBDA found, swap : Take(found, swap, cursor), [order |-> seenOrder, signals |-> signals], page)

(***************************************************************************)
(* poll, one wallet after the other.                                       *)
(***************************************************************************)
\* Mutant of Polled: the cursor is the last swap of the page, not the newest.
PolledLast(wallet) ==
    /\ wallet \notin polled /\ polled' = polled \cup {wallet}
    /\ IF ~Baselined(wallet)
       THEN /\ cursors' = [w \in DOMAIN cursors \cup {wallet} |->
                              IF w = wallet THEN NewestLt(PageOf(wallet), 0) ELSE cursors[w]]
            /\ began' = began \cup PageOf(wallet)
            /\ UNCHANGED <<seenOrder, signals>>
       ELSE \E page \in WalletSwaps(wallet) :
            LET found == Taken(page, cursors[wallet]) IN
            /\ cursors' = [cursors EXCEPT ![wallet] = IF page = <<>> THEN @ ELSE Last(page).lt]
            /\ seenOrder' = found.order /\ signals' = found.signals
            /\ UNCHANGED began
    /\ UNCHANGED <<copyTime, entriesStopped, shown, handed, restarts>>

\* The first answer is a baseline only, even an empty one.
Polled(wallet) ==
    /\ wallet \notin polled /\ polled' = polled \cup {wallet}
    /\ IF ~Baselined(wallet)
       THEN /\ cursors' = [w \in DOMAIN cursors \cup {wallet} |->
                              IF w = wallet THEN NewestLt(PageOf(wallet), 0) ELSE cursors[w]]
            /\ began' = began \cup PageOf(wallet)
            /\ UNCHANGED <<seenOrder, signals>>
       ELSE \E page \in WalletSwaps(wallet) :
            LET found == Taken(page, cursors[wallet]) IN
            /\ cursors' = [cursors EXCEPT ![wallet] = NewestLt(PageOf(wallet), @)]
            /\ seenOrder' = found.order /\ signals' = found.signals
            /\ UNCHANGED began
    /\ UNCHANGED <<copyTime, entriesStopped, shown, handed, restarts>>

PollFails(wallet) ==
    /\ wallet \notin polled /\ polled' = polled \cup {wallet}
    /\ UNCHANGED <<copyTime, entriesStopped, shown, cursors, seenOrder, signals, handed, began, restarts>>

\* runCopyCycle: the poll always ran; what it found is dropped while entries are stopped.
CopyCycle ==
    /\ polled = Wallet /\ polled' = {}
    /\ signals' = <<>>
    /\ handed' = IF entriesStopped THEN handed
                 ELSE [swap \in Swaps |-> handed[swap] + Cardinality({i \in DOMAIN signals : signals[i] = swap})]
    /\ UNCHANGED <<copyTime, entriesStopped, shown, cursors, seenOrder, began, restarts>>

(***************************************************************************)
(* The indexer, the clock, an operator and the process.                    *)
(***************************************************************************)
Shows(swap) ==
    /\ Made(swap) /\ swap \notin shown
    /\ shown' = shown \cup {s \in Swaps : s.wallet = swap.wallet /\ s.lt = swap.lt}
    /\ UNCHANGED <<copyTime, entriesStopped, polled, cursors, seenOrder, signals, handed, began, restarts>>

CopyTick ==
    /\ copyTime < MaxCopyTime /\ copyTime' = copyTime + 1
    /\ UNCHANGED <<entriesStopped, shown, polled, cursors, seenOrder, signals, handed, began, restarts>>

EntriesStop ==
    /\ ~entriesStopped /\ entriesStopped' = TRUE
    /\ UNCHANGED <<copyTime, shown, polled, cursors, seenOrder, signals, handed, began, restarts>>

CopyRestart ==
    /\ restarts < MaxRestarts /\ restarts' = restarts + 1
    /\ polled' = {} /\ cursors' = <<>> /\ seenOrder' = <<>> /\ signals' = <<>>
    /\ entriesStopped' = FALSE
    /\ UNCHANGED <<copyTime, shown, handed, began>>

CopyInit ==
    /\ copyTime = 0 /\ entriesStopped = FALSE /\ shown = {}
    /\ polled = {} /\ cursors = <<>> /\ seenOrder = <<>> /\ signals = <<>>
    /\ handed = [swap \in Swaps |-> 0] /\ began = {} /\ restarts = 0

CopyNext ==
    \/ \E wallet \in Wallet : Polled(wallet) \/ PollFails(wallet)
    \/ \E swap \in Swaps : Shows(swap)
    \/ CopyCycle \/ CopyTick \/ EntriesStop \/ CopyRestart

CopySpec == CopyInit /\ [][CopyNext]_copyVars

(***************************************************************************)
(* A swap of a followed wallet is copied at most once, over all polls and  *)
(* restarts, whatever the order the indexer shows events in and however    *)
(* soon the ring forgets them; what was history when a process took its    *)
(* baseline is never in hand again, whatever later processes remember.     *)
(***************************************************************************)
EmittedOnce ==
    /\ \A swap \in Swaps :
          /\ handed[swap] + Cardinality({i \in DOMAIN signals : signals[i] = swap}) <= 1
          /\ swap.buy \/ handed[swap] = 0
    /\ \A swap \in began : swap \notin ToSet(signals)
=============================================================================
