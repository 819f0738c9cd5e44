----------------------------- MODULE BlockFetch -----------------------------
(***************************************************************************)
(* One goroutine of handleFetch obtaining one block: from the cache, from  *)
(* the store, or from the providers the DHT names, which it first races    *)
(* against each other and then asks one after another (internal/node/      *)
(* api.go: handleFetch's goroutine, fetchBlockFromNetwork,                 *)
(* fetchBlockMultipath; internal/protocol/blocktransfer.go: FetchBlock).   *)
(*                                                                         *)
(* serves says what a provider does with a request: it sends the block     *)
(* ("good"), says it has none ("missing"), sends bytes of another CID      *)
(* ("corrupt"), cannot be reached ("down"), or takes the stream and never  *)
(* answers ("hung").  It may change at any time.                           *)
(*                                                                         *)
(* The order in which the path manager and the Bloom filters put the       *)
(* providers is any order here.                                            *)
(***************************************************************************)
EXTENDS Integers, SequencesExt

CONSTANTS
    Self, Others,        \* this node and its peers
    PathManagers,        \* whether a.node.PathManager is there: subset of BOOLEAN
    Service,             \* the behaviours of providers in this instance
    MayCancel,           \* whether the client may go away
    MaxChanges           \* bound on the changes of behaviour

ASSUME FetchAssumption ==
    /\ Self \notin Others /\ IsFiniteSet(Others)
    /\ PathManagers \subseteq BOOLEAN /\ MayCancel \in BOOLEAN /\ MaxChanges \in Nat
    /\ Service \subseteq {"good", "missing", "corrupt", "down", "hung"}

VARIABLES
    hasPathManager,      \* set when the node starts
    inCache, inStore,    \* where this node has the block
    serves, changes,     \* the providers
    alwaysGood,          \* auxiliary: the peers that served well all along
    cancelled,           \* the request's context
    pc, providers,
    racer,               \* the goroutines of fetchBlockMultipath
    channel,             \* their result channel, of capacity Len(providers)
    received,            \* results received from it
    raceOver,            \* the race's context is cancelled
    turn, call,          \* the serial fallback: whose turn, and its FetchBlock
    result

env == <<hasPathManager, serves, changes, alwaysGood, cancelled>>
race == <<racer, channel, received, raceOver>>
serial == <<turn, call>>
vars == <<inCache, inStore, env, pc, providers, race, serial, result>>

Init ==
    /\ hasPathManager \in PathManagers
    /\ inCache \in BOOLEAN /\ inStore \in BOOLEAN
    /\ serves \in [Others -> Service] /\ changes = 0
    /\ alwaysGood = {p \in Others : serves[p] = "good"}
    /\ cancelled = FALSE
    /\ pc = "cache" /\ providers = << >>
    /\ racer = [p \in Others |-> "none"] /\ channel = << >>
    /\ received = 0 /\ raceOver = FALSE
    /\ turn = 0 /\ call = "none"
    /\ result = "pending"

Finish(r) == pc' = "done" /\ result' = r

-----------------------------------------------------------------------------
(* The environment. *)

Change(p, b) ==
    /\ changes < MaxChanges /\ b # serves[p]
    /\ changes' = changes + 1
    /\ serves' = [serves EXCEPT ![p] = b]
    /\ alwaysGood' = alwaysGood \ {p}
    /\ UNCHANGED <<hasPathManager, inCache, inStore, cancelled, pc, providers, race, serial, result>>

\* The client closes its connection: r.Context() is cancelled.
ClientGone ==
    /\ MayCancel /\ ~cancelled
    /\ cancelled' = TRUE
    /\ UNCHANGED <<hasPathManager, inCache, inStore, serves, changes, alwaysGood, pc, providers,
                   race, serial, result>>

-----------------------------------------------------------------------------
(* Local lookups and the search for providers. *)

TryCache ==
    /\ pc = "cache"
    /\ IF inCache THEN Finish("cache") ELSE pc' = "store" /\ UNCHANGED result
    /\ UNCHANGED <<inCache, inStore, env, providers, race, serial>>

TryStore ==
    /\ pc = "store"
    /\ IF inStore THEN Finish("store") ELSE pc' = "find" /\ UNCHANGED result
    /\ UNCHANGED <<inCache, inStore, env, providers, race, serial>>

\* With two providers or more and a path manager they are raced.
Start(found) ==
    /\ providers' = found
    /\ IF Len(found) >= 2 /\ hasPathManager
       THEN /\ pc' = "race"
            /\ racer' = [p \in Others |-> IF p \in ToSet(found) THEN "opening" ELSE "none"]
            /\ UNCHANGED serial
       ELSE /\ pc' = "serial"
            /\ turn' = 1 /\ call' = "opening"
            /\ UNCHANGED racer
    /\ UNCHANGED result

\* ContentRouter.FindProviders: any peers, this node perhaps among them.
DHTAnswers == SUBSET (Others \cup {Self})

\* This node is left out, and what is left is sorted.
FindProviders ==
    /\ pc = "find"
    /\ \E named \in DHTAnswers :
           LET filtered == named \ {Self}
           IN  IF filtered = {}
               THEN Finish("error") /\ UNCHANGED <<providers, racer, serial>>
               ELSE \E sorted \in SetToSeqs(filtered) : Start(sorted)
    /\ UNCHANGED <<inCache, inStore, env, channel, received, raceOver>>

-----------------------------------------------------------------------------
(* fetchBlockMultipath. *)

\* Mutant of Send: the channel has no buffer, so that a result is taken over
\* only while the race still receives.
SendUnbuffered(p, r) ==
    /\ pc = "race" /\ channel = << >>
    /\ channel' = Append(channel, r)
    /\ racer' = [racer EXCEPT ![p] = "ended"]

\* A goroutine sends its result to the channel, whose capacity is the number
\* of goroutines, and ends.
Send(p, r) ==
    /\ Len(channel) < Len(providers)
    /\ channel' = Append(channel, r)
    /\ racer' = [racer EXCEPT ![p] = "ended"]

\* Mutant of RacerOpens: a goroutine that cannot open its stream just returns.
RacerOpensOrVanishes(p) ==
    /\ racer[p] = "opening"
    /\ racer' = [racer EXCEPT ![p] =
                    IF serves[p] = "down" \/ cancelled \/ raceOver THEN "ended" ELSE "open"]
    /\ UNCHANGED <<inCache, inStore, env, pc, providers, channel, received, raceOver,
                   serial, result>>

\* Opening the stream fails once the race or the request is cancelled.
RacerOpens(p) ==
    /\ racer[p] = "opening"
    /\ IF serves[p] = "down" \/ cancelled \/ raceOver
       THEN Send(p, "error")
       ELSE racer' = [racer EXCEPT ![p] = "open"] /\ UNCHANGED channel
    /\ UNCHANGED <<inCache, inStore, env, pc, providers, received, raceOver, serial, result>>

\* What FetchBlock makes of an answer: only bytes of the right CID are a block.
Answer(p) == IF serves[p] = "good" THEN "block" ELSE "error"

RacerReads(p) ==
    /\ racer[p] = "open" /\ serves[p] # "hung"
    /\ Send(p, Answer(p))
    /\ UNCHANGED <<inCache, inStore, env, pc, providers, received, raceOver, serial, result>>

\* Mutant of Receive: one error more than there are providers is awaited.
ReceiveOneMore ==
    /\ pc = "race" /\ channel # << >>
    /\ channel' = Tail(channel)
    /\ received' = received + 1
    /\ IF Head(channel) = "block" THEN pc' = "put" /\ raceOver' = TRUE
                                  ELSE UNCHANGED <<pc, raceOver>>
    /\ UNCHANGED <<inCache, inStore, env, providers, racer, serial, result>>

\* Mutant of Receive: the outcome is decided when every result is there.
ReceiveAll ==
    /\ pc = "race" /\ Len(channel) = Len(providers)
    /\ channel' = << >> /\ received' = Len(channel) /\ raceOver' = TRUE
    /\ IF "block" \in ToSet(channel)
       THEN pc' = "put" /\ UNCHANGED serial
       ELSE pc' = "serial" /\ turn' = 1 /\ call' = "opening"
    /\ UNCHANGED <<inCache, inStore, env, providers, racer, result>>

\* The first block wins; after as many errors as providers the serial
\* fallback begins.  Either way the race's context is cancelled.
Receive ==
    /\ pc = "race" /\ channel # << >>
    /\ channel' = Tail(channel)
    /\ received' = received + 1
    /\ \/ /\ Head(channel) = "block"
          /\ pc' = "put" /\ raceOver' = TRUE
          /\ UNCHANGED serial
       \/ /\ Head(channel) = "error" /\ received + 1 < Len(providers)
          /\ UNCHANGED <<pc, raceOver, serial>>
       \/ /\ Head(channel) = "error" /\ received + 1 = Len(providers)
          /\ pc' = "serial" /\ raceOver' = TRUE
          /\ turn' = 1 /\ call' = "opening"
    /\ UNCHANGED <<inCache, inStore, env, providers, racer, result>>

-----------------------------------------------------------------------------
(* The serial fallback. *)

\* Mutant of NextProvider: the last provider is not asked.
NextProviderOneShort ==
    IF turn + 1 < Len(providers)
    THEN turn' = turn + 1 /\ call' = "opening" /\ UNCHANGED <<pc, result>>
    ELSE Finish("error") /\ call' = "none" /\ UNCHANGED turn

NextProvider ==
    IF turn < Len(providers)
    THEN turn' = turn + 1 /\ call' = "opening" /\ UNCHANGED <<pc, result>>
    ELSE Finish("error") /\ call' = "none" /\ UNCHANGED turn

SerialOpens ==
    /\ pc = "serial" /\ call = "opening"
    /\ IF serves[providers[turn]] = "down" \/ cancelled
       THEN NextProvider
       ELSE call' = "open" /\ UNCHANGED <<turn, pc, result>>
    /\ UNCHANGED <<inCache, inStore, env, providers, race>>

SerialReads ==
    /\ pc = "serial" /\ call = "open" /\ serves[providers[turn]] # "hung"
    /\ IF Answer(providers[turn]) = "block"
       THEN pc' = "put" /\ call' = "none" /\ UNCHANGED <<turn, result>>
       ELSE NextProvider
    /\ UNCHANGED <<inCache, inStore, env, providers, race>>

\* "Cache locally for next time": into the store, whose error is ignored.
StoreBlock ==
    /\ pc = "put"
    /\ inStore' \in {TRUE, inStore}
    /\ Finish("network")
    /\ UNCHANGED <<inCache, env, providers, race, serial>>

-----------------------------------------------------------------------------

FetchStep ==
    TryCache \/ TryStore \/ FindProviders \/ Receive \/ SerialOpens \/ SerialReads \/ StoreBlock

RacerStep(p) == RacerOpens(p) \/ RacerReads(p)

Next ==
    \/ FetchStep
    \/ \E p \in Others : RacerStep(p)
    \/ \E p \in Others, b \in Service : Change(p, b)
    \/ ClientGone

Spec == Init /\ [][Next]_vars

\* Every goroutine is scheduled, and a peer that does not hang answers.
FairSpec == Spec /\ WF_vars(FetchStep) /\ \A p \in Others : WF_vars(RacerStep(p))

-----------------------------------------------------------------------------
(* Correctness. *)

\* The values of the variables.
TypeOK ==
    /\ hasPathManager \in PathManagers
    /\ inCache \in BOOLEAN /\ inStore \in BOOLEAN /\ cancelled \in BOOLEAN
    /\ serves \in [Others -> Service] /\ alwaysGood \in SUBSET Others
    /\ pc \in {"cache", "store", "find", "race", "serial", "put", "done"}
    /\ providers \in Seq(Others) /\ turn \in 0 .. Len(providers)
    /\ racer \in [Others -> {"none", "opening", "open", "ended"}]
    /\ channel \in Seq({"block", "error"}) /\ received \in 0 .. Len(providers)
    /\ raceOver \in BOOLEAN /\ call \in {"none", "opening", "open"}
    /\ result \in {"pending", "cache", "store", "network", "error"}

\* A fetch gives up only for a reason: the client went away, or each provider
\* failed it at some time.  One provider that serves the block throughout is
\* enough, whatever the others do and in whatever order results arrive.
GoodProviderSuffices ==
    result = "error" => cancelled \/ ToSet(providers) \cap alwaysGood = {}

\* The race accounts for every goroutine once: while it runs, those that have
\* not ended, the results in the channel and the results received add up to
\* the providers; so Receive never waits for a result nobody will send.
RaceAccounted ==
    pc = "race" =>
        received + Len(channel) + Cardinality({p \in Others : racer[p] \in {"opening", "open"}})
        = Len(providers)

NobodyHangsForGood == \A p \in Others : []<>(serves[p] # "hung")

\* When no provider hangs for good, the fetch comes to an end: every result
\* that Receive waits for is sent, and the fallback reaches its last provider.
FetchEndsUnlessHung == NobodyHangsForGood => <>(pc = "done")

\* No goroutine of a race is left behind, whoever won it, unless its provider
\* hangs for good: the channel has room for the results nobody will read.
RacersEnd ==
    \A p \in Others :
        []<>(serves[p] # "hung") => ((racer[p] # "none") ~> (racer[p] = "ended"))

\* A race hides providers that hang: with one provider that serves the block
\* throughout, the fetch ends.
RaceHidesHungProviders ==
    [](pc = "race" /\ alwaysGood \cap ToSet(providers) # {} /\ ~cancelled
       => <>(pc = "done" \/ cancelled \/ alwaysGood \cap ToSet(providers) = {}))

=============================================================================
