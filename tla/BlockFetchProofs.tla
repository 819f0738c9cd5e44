-------------------------- MODULE BlockFetchProofs --------------------------
(***************************************************************************)
(* Fetching a block, for every number of providers and every way in which  *)
(* they behave.                                                            *)
(*                                                                         *)
(* GoodProviderSuffices needs to know why the providers before the current *)
(* one were given up (Tried); RaceAccounted, that only providers race, and *)
(* each of them once (RacersAreProviders).  The account is kept for longer *)
(* than the race lasts: the goroutines of providers that lost go on, and   *)
(* that the channel always has room for their results follows from it.     *)
(***************************************************************************)
EXTENDS BlockFetch, FiniteSetTheorems, TLAPS

Live == {p \in Others : racer[p] \in {"opening", "open"}}

\* A peer that served well all along does so now.
GoodServes == \A p \in alwaysGood : serves[p] = "good"

\* Before the search for providers nothing is there; the result comes last.
Stages ==
    /\ pc \in {"cache", "store", "find"} =>
           providers = << >> /\ received = 0 /\ channel = << >> /\ \A p \in Others : racer[p] = "none"
    /\ pc # "done" => result = "pending"
    /\ pc = "serial" => turn >= 1

\* The providers before the one whose turn it is failed.
Tried == pc = "serial" => cancelled \/ \A i \in 1 .. turn - 1 : providers[i] \notin alwaysGood

RacersAreProviders == \A p \in Others : racer[p] # "none" => p \in ToSet(providers)

\* Goroutines, results on their way and results received add up to the
\* providers, during the race and after it.
Account ==
    (pc = "race" \/ \E p \in Others : racer[p] # "none") =>
        received + Len(channel) + Cardinality(Live) = Len(providers)

\* The inductive invariant.
Inv ==
    /\ TypeOK /\ GoodServes /\ Stages /\ Tried /\ RacersAreProviders /\ Account
    /\ GoodProviderSuffices

-----------------------------------------------------------------------------
(* Lists of providers, and the goroutines that race. *)

\* What the search leaves is a list of its providers without repetitions.
LEMMA ListProperties ==
    ASSUME NEW S \in SUBSET Others, NEW found \in SetToSeqs(S)
    PROVE  /\ found \in Seq(Others) /\ Len(found) = Cardinality(S) /\ ToSet(found) = S
           /\ IsFiniteSet(S) /\ Cardinality(S) \in Nat
<1> DEFINE n == Cardinality(S)
<1>1. IsFiniteSet(S) /\ n \in Nat
  BY FS_Subset, FS_CardinalityType, FetchAssumption
<1>2. found \in [1 .. n -> S] /\ \A i, j \in 1 .. n : i # j => found[i] # found[j]
  BY DEF SetToSeqs
<1>3. found \in Seq(Others) /\ Len(found) = n
  BY <1>1, <1>2
<1>4. found \in Injection(1 .. n, S)
  BY <1>2 DEF Injection, IsInjective
<1>5. IsFiniteSet(1 .. n) /\ Cardinality(1 .. n) = n
  BY <1>1, FS_Interval
<1>6. found \in Surjection(1 .. n, S)
  BY <1>1, <1>4, <1>5, FS_Injection
<1>7. ToSet(found) = S
  BY <1>2, <1>3, <1>6 DEF ToSet, Surjection
<1> QED BY <1>1, <1>3, <1>7

\* There are finitely many goroutines.
LEMMA LiveFinite == IsFiniteSet(Live) /\ Cardinality(Live) \in Nat
<1>1. Live \in SUBSET Others
  BY DEF Live
<1> QED BY <1>1, FS_Subset, FS_CardinalityType, FetchAssumption

\* A goroutine that sends its result goes from the goroutines to the results.
LEMMA SendAccount ==
    ASSUME Inv, NEW p \in Others, racer[p] \in {"opening", "open"}, NEW r \in {"block", "error"},
           Send(p, r), UNCHANGED <<pc, providers, received>>
    PROVE  /\ racer' \in [Others -> {"none", "opening", "open", "ended"}]
           /\ channel' \in Seq({"block", "error"})
           /\ RacersAreProviders' /\ Account'
<1>1. /\ racer' = [racer EXCEPT ![p] = "ended"] /\ channel' = Append(channel, r)
      /\ racer \in [Others -> {"none", "opening", "open", "ended"}]
      /\ channel \in Seq({"block", "error"}) /\ received \in Nat
  BY DEF Send, Inv, TypeOK
<1>2. racer' \in [Others -> {"none", "opening", "open", "ended"}]
  BY <1>1
<1>3. channel' \in Seq({"block", "error"}) /\ Len(channel') = Len(channel) + 1
  BY <1>1
<1>4. RacersAreProviders'
  BY <1>1 DEF Inv, RacersAreProviders
<1>5. Live' = Live \ {p} /\ p \in Live
  BY <1>1 DEF Live
<1>6. Cardinality(Live') = Cardinality(Live) - 1
  BY <1>5, LiveFinite, FS_RemoveElement
<1>7. racer[p] # "none"
  OBVIOUS
<1>8. received + Len(channel) + Cardinality(Live) = Len(providers)
  BY <1>7 DEF Inv, Account
<1>9. Len(channel) \in Nat
  BY <1>1
<1>10. received' + Len(channel') + Cardinality(Live') = Len(providers')
  BY <1>1, <1>3, <1>6, <1>8, <1>9, LiveFinite
<1> QED BY <1>2, <1>3, <1>4, <1>10 DEF Account

-----------------------------------------------------------------------------
(* The environment. *)

\* A provider that changes its ways is no longer one that served well all along.
LEMMA ChangeInv ==
    ASSUME Inv, NEW p \in Others, NEW b \in Service, Change(p, b)
    PROVE  Inv'
<1>1. /\ serves' = [serves EXCEPT ![p] = b] /\ alwaysGood' = alwaysGood \ {p}
      /\ UNCHANGED <<hasPathManager, inCache, inStore, cancelled, pc, providers, racer, channel,
                     received, raceOver, turn, call, result>>
  BY DEF Change, race, serial
<1>2. TypeOK'
  BY <1>1 DEF Inv, TypeOK
<1>3. GoodServes'
  BY <1>1 DEF Inv, TypeOK, GoodServes
<1>4. Stages' /\ RacersAreProviders'
  BY <1>1 DEF Inv, Stages, RacersAreProviders
<1>5. Tried' /\ GoodProviderSuffices'
  BY <1>1 DEF Inv, Tried, GoodProviderSuffices
<1>6. Account'
  BY <1>1 DEF Inv, Account, Live
<1> QED BY <1>2, <1>3, <1>4, <1>5, <1>6 DEF Inv

\* The client goes away, at any time.
LEMMA ClientGoneInv ==
    ASSUME Inv, ClientGone
    PROVE  Inv'
<1>1. /\ cancelled' = TRUE
      /\ UNCHANGED <<hasPathManager, inCache, inStore, serves, alwaysGood, pc, providers, racer,
                     channel, received, raceOver, turn, call, result>>
  BY DEF ClientGone, race, serial
<1>2. TypeOK'
  BY <1>1 DEF Inv, TypeOK
<1>3. GoodServes' /\ Stages' /\ RacersAreProviders' /\ Tried' /\ GoodProviderSuffices'
  BY <1>1 DEF Inv, GoodServes, Stages, RacersAreProviders, Tried, GoodProviderSuffices
<1>4. Account'
  BY <1>1 DEF Inv, Account, Live
<1> QED BY <1>2, <1>3, <1>4 DEF Inv

-----------------------------------------------------------------------------
(* Local lookups and the search. *)

\* Neither lookup nor the end of a fetch touches the race.
LEMMA LookupInv ==
    ASSUME Inv, TryCache \/ TryStore \/ StoreBlock
    PROVE  Inv'
<1>1. UNCHANGED <<hasPathManager, serves, alwaysGood, cancelled, providers, racer, channel,
                  received, raceOver, turn, call, inCache>>
  BY DEF TryCache, TryStore, StoreBlock, env, race, serial
<1>2. /\ pc \in {"cache", "store", "put"} /\ inStore' \in BOOLEAN
      /\ \/ pc' = "done" /\ result' \in {"cache", "store", "network"}
         \/ pc # "put" /\ pc' \in {"store", "find"} /\ result' = result
  BY DEF TryCache, TryStore, StoreBlock, Finish, Inv, TypeOK
<1>3. TypeOK'
  BY <1>1, <1>2 DEF Inv, TypeOK
<1>4. GoodServes' /\ Stages' /\ RacersAreProviders' /\ Tried' /\ GoodProviderSuffices'
  BY <1>1, <1>2 DEF Inv, GoodServes, Stages, RacersAreProviders, Tried, GoodProviderSuffices
<1>5. Account'
  BY <1>1, <1>2 DEF Inv, Account, Live
<1> QED BY <1>3, <1>4, <1>5 DEF Inv

\* Providers are found, and raced or asked one after another.
LEMMA FindProvidersInv ==
    ASSUME Inv, FindProviders
    PROVE  Inv'
<1>1. /\ pc = "find" /\ providers = << >> /\ received = 0 /\ channel = << >>
      /\ \A p \in Others : racer[p] = "none"
      /\ UNCHANGED <<hasPathManager, inCache, inStore, serves, alwaysGood, cancelled, channel,
                     received, raceOver>>
  BY DEF FindProviders, DHTAnswers, env, Inv, Stages
<1>2. PICK named \in SUBSET (Others \cup {Self}) :
        IF named \ {Self} = {}
        THEN Finish("error") /\ UNCHANGED <<providers, racer, serial>>
        ELSE \E sorted \in SetToSeqs(named \ {Self}) : Start(sorted)
  BY DEF FindProviders, DHTAnswers
<1>3. CASE named \ {Self} = {}
  <2>1. pc' = "done" /\ result' = "error" /\ UNCHANGED <<providers, racer, turn, call>>
    BY <1>2, <1>3 DEF Finish, serial
  <2>2. TypeOK'
    BY <1>1, <2>1 DEF Inv, TypeOK
  <2>3. GoodServes' /\ Stages' /\ RacersAreProviders' /\ Tried'
    BY <1>1, <2>1 DEF Inv, GoodServes, Stages, RacersAreProviders, Tried
  <2>4. GoodProviderSuffices'
    BY <1>1, <2>1 DEF GoodProviderSuffices, ToSet
  <2>5. Account'
    BY <1>1, <2>1 DEF Account
  <2> QED BY <2>2, <2>3, <2>4, <2>5 DEF Inv
<1>4. CASE named \ {Self} # {}
  <2> DEFINE S == named \ {Self}
  <2>1. S \in SUBSET Others
    OBVIOUS
  <2>2. PICK found \in SetToSeqs(S) : Start(found)
    BY <1>2, <1>4
  <2>3. /\ found \in Seq(Others) /\ Len(found) = Cardinality(S) /\ ToSet(found) = S
        /\ IsFiniteSet(S) /\ Cardinality(S) \in Nat
    BY <2>1, <2>2, ListProperties
  <2>4. Len(found) >= 1
    BY <1>4, <2>3, FS_EmptySet
  <2>5. providers' = found /\ result' = result /\ result = "pending"
    BY <1>1, <2>2 DEF Start, Inv, Stages
  <2> HIDE DEF S
  <2>6. CASE Len(found) >= 2 /\ hasPathManager
    <3>1. /\ pc' = "race" /\ UNCHANGED <<turn, call>>
          /\ racer' = [p \in Others |-> IF p \in ToSet(found) THEN "opening" ELSE "none"]
      BY <2>2, <2>6 DEF Start, serial
    <3>2. TypeOK'
      BY <1>1, <2>3, <2>5, <3>1 DEF Inv, TypeOK
    <3>3. GoodServes' /\ Stages' /\ RacersAreProviders' /\ Tried' /\ GoodProviderSuffices'
      BY <1>1, <2>5, <3>1
      DEF Inv, GoodServes, Stages, RacersAreProviders, Tried, GoodProviderSuffices
    <3>4. Live' = S
      BY <2>1, <2>3, <3>1 DEF Live
    <3>5. Account'
      BY <1>1, <2>3, <2>5, <3>4 DEF Account
    <3> QED BY <3>2, <3>3, <3>5 DEF Inv
  <2>7. CASE ~(Len(found) >= 2 /\ hasPathManager)
    <3>1. pc' = "serial" /\ turn' = 1 /\ call' = "opening" /\ racer' = racer
      BY <2>2, <2>7 DEF Start
    <3>2. TypeOK'
      BY <1>1, <2>3, <2>4, <2>5, <3>1 DEF Inv, TypeOK
    <3>3. GoodServes' /\ Stages' /\ RacersAreProviders' /\ Tried' /\ GoodProviderSuffices'
      BY <1>1, <2>5, <3>1
      DEF Inv, GoodServes, Stages, RacersAreProviders, Tried, GoodProviderSuffices
    <3>4. Account'
      BY <1>1, <3>1 DEF Account
    <3> QED BY <3>2, <3>3, <3>4 DEF Inv
  <2> QED BY <2>6, <2>7
<1> QED BY <1>3, <1>4

-----------------------------------------------------------------------------
(* The race. *)

\* A goroutine sends a result: during the race, or after it.
LEMMA SendInv ==
    ASSUME Inv, NEW p \in Others, racer[p] \in {"opening", "open"}, NEW r \in {"block", "error"},
           Send(p, r), UNCHANGED <<inCache, inStore, env, pc, providers, received, raceOver, serial, result>>
    PROVE  Inv'
<1>1. /\ racer' \in [Others -> {"none", "opening", "open", "ended"}]
      /\ channel' \in Seq({"block", "error"})
      /\ RacersAreProviders' /\ Account'
  BY SendAccount
<1>2. UNCHANGED <<inCache, inStore, hasPathManager, serves, alwaysGood, cancelled, pc, providers,
                  received, raceOver, turn, call, result>>
  BY DEF env, serial
<1>3. pc \notin {"cache", "store", "find"}
  BY DEF Inv, Stages
<1>4. TypeOK'
  BY <1>1, <1>2 DEF Inv, TypeOK
<1>5. GoodServes' /\ Stages' /\ Tried' /\ GoodProviderSuffices'
  BY <1>2, <1>3 DEF Inv, GoodServes, Stages, Tried, GoodProviderSuffices
<1> QED BY <1>1, <1>4, <1>5 DEF Inv

\* A goroutine opens its stream, or reads the answer.
LEMMA RacerInv ==
    ASSUME Inv, NEW p \in Others, RacerStep(p)
    PROVE  Inv'
<1>1. CASE RacerOpens(p) /\ (serves[p] = "down" \/ cancelled \/ raceOver)
  BY <1>1, SendInv DEF RacerOpens
<1>2. CASE RacerReads(p)
  BY <1>2, SendInv DEF RacerReads, Answer
<1>3. CASE RacerOpens(p) /\ ~(serves[p] = "down" \/ cancelled \/ raceOver)
  <2>1. /\ racer[p] = "opening" /\ racer' = [racer EXCEPT ![p] = "open"]
        /\ UNCHANGED <<inCache, inStore, hasPathManager, serves, alwaysGood, cancelled, pc,
                       providers, channel, received, raceOver, turn, call, result>>
    BY <1>3 DEF RacerOpens, env, serial
  <2>2. TypeOK'
    BY <2>1 DEF Inv, TypeOK
  <2>3. GoodServes' /\ Stages' /\ Tried' /\ GoodProviderSuffices'
    BY <2>1 DEF Inv, GoodServes, Stages, Tried, GoodProviderSuffices
  <2>4. RacersAreProviders'
    BY <2>1 DEF Inv, TypeOK, RacersAreProviders
  <2>5. Live' = Live
    BY <2>1 DEF Inv, TypeOK, Live
  <2>6. Account'
    BY <2>1, <2>5 DEF Inv, Account
  <2> QED BY <2>2, <2>3, <2>4, <2>6 DEF Inv
<1> QED BY <1>1, <1>2, <1>3 DEF RacerStep

\* The race takes a result from the channel.
LEMMA ReceiveInv ==
    ASSUME Inv, Receive
    PROVE  Inv'
<1>1. /\ pc = "race" /\ channel # << >> /\ channel' = Tail(channel) /\ received' = received + 1
      /\ channel \in Seq({"block", "error"}) /\ received \in Nat /\ Len(providers) \in Nat
      /\ UNCHANGED <<inCache, inStore, hasPathManager, serves, alwaysGood, cancelled, providers,
                     racer, result>>
  BY DEF Receive, Inv, TypeOK, env
<1>2. \/ pc' = "put" /\ raceOver' = TRUE /\ UNCHANGED <<turn, call>>
      \/ UNCHANGED <<pc, raceOver, turn, call>>
      \/ /\ pc' = "serial" /\ raceOver' = TRUE /\ turn' = 1 /\ call' = "opening"
         /\ received + 1 = Len(providers)
  BY DEF Receive, serial
<1>3. /\ channel' \in Seq({"block", "error"})
      /\ Len(channel) \in Nat /\ Len(channel) > 0 /\ Len(channel') = Len(channel) - 1
  BY <1>1
<1>4. received + Len(channel) + Cardinality(Live) = Len(providers) /\ Cardinality(Live) \in Nat
  BY <1>1, LiveFinite DEF Inv, Account
<1>5. received' \in 0 .. Len(providers) /\ (pc' = "serial" => turn' \in 0 .. Len(providers))
  BY <1>1, <1>2, <1>3, <1>4
<1>6. TypeOK'
  BY <1>1, <1>2, <1>3, <1>5 DEF Inv, TypeOK
<1>7. GoodServes' /\ Stages' /\ RacersAreProviders' /\ Tried' /\ GoodProviderSuffices'
  BY <1>1, <1>2 DEF Inv, GoodServes, Stages, RacersAreProviders, Tried, GoodProviderSuffices
<1>8. Live' = Live
  BY <1>1 DEF Live
<1>9. Account'
  BY <1>1, <1>3, <1>4, <1>8 DEF Account
<1> QED BY <1>6, <1>7, <1>9 DEF Inv

-----------------------------------------------------------------------------
(* The serial fallback. *)

\* The fallback leaves a provider that failed.
LEMMA NextProviderInv ==
    ASSUME Inv, pc = "serial", NextProvider, cancelled \/ providers[turn] \notin alwaysGood,
           UNCHANGED <<inCache, inStore, env, providers, race>>
    PROVE  Inv'
<1>1. UNCHANGED <<inCache, inStore, hasPathManager, serves, alwaysGood, cancelled, providers,
                  racer, channel, received, raceOver>>
  BY DEF env, race
<1>2. turn \in 1 .. Len(providers) /\ Len(providers) \in Nat /\ providers \in Seq(Others)
  BY DEF Inv, TypeOK, Stages
<1>3. cancelled \/ \A i \in 1 .. turn : providers[i] \notin alwaysGood
  BY <1>2 DEF Inv, Tried
<1>4. GoodServes' /\ RacersAreProviders'
  BY <1>1 DEF Inv, GoodServes, RacersAreProviders
<1>5. CASE turn < Len(providers)
  <2>1. turn' = turn + 1 /\ call' = "opening" /\ UNCHANGED <<pc, result>>
    BY <1>5 DEF NextProvider
  <2>2. TypeOK'
    BY <1>1, <1>2, <1>5, <2>1 DEF Inv, TypeOK
  <2>3. Stages' /\ Tried' /\ GoodProviderSuffices'
    BY <1>1, <1>2, <1>3, <2>1 DEF Inv, Stages, Tried, GoodProviderSuffices
  <2>4. Account'
    BY <1>1, <2>1 DEF Inv, Account, Live
  <2> QED BY <1>4, <2>2, <2>3, <2>4 DEF Inv
<1>6. CASE ~(turn < Len(providers))
  <2>1. pc' = "done" /\ result' = "error" /\ call' = "none" /\ UNCHANGED turn
    BY <1>6 DEF NextProvider, Finish
  <2>2. TypeOK'
    BY <1>1, <2>1 DEF Inv, TypeOK
  <2>3. Stages' /\ Tried'
    BY <2>1 DEF Stages, Tried
  <2>4. turn = Len(providers)
    BY <1>2, <1>6
  <2>5. cancelled \/ ToSet(providers) \cap alwaysGood = {}
    BY <1>2, <1>3, <2>4 DEF ToSet
  <2>6. GoodProviderSuffices'
    BY <1>1, <2>5 DEF GoodProviderSuffices
  <2>7. Account'
    BY <1>1, <2>1 DEF Inv, Account, Live
  <2> QED BY <1>4, <2>2, <2>3, <2>6, <2>7 DEF Inv
<1> QED BY <1>5, <1>6

\* The fallback stays with a provider, or has its block.
LEMMA StayInv ==
    ASSUME Inv, pc = "serial", pc' \in {"serial", "put"}, call' \in {"none", "open"},
           UNCHANGED <<inCache, inStore, env, providers, race, turn, result>>
    PROVE  Inv'
<1>1. UNCHANGED <<inCache, inStore, hasPathManager, serves, alwaysGood, cancelled, providers,
                  racer, channel, received, raceOver, turn, result>>
  BY DEF env, race
<1>2. TypeOK'
  BY <1>1 DEF Inv, TypeOK
<1>3. GoodServes' /\ Stages' /\ RacersAreProviders' /\ Tried' /\ GoodProviderSuffices'
  BY <1>1 DEF Inv, GoodServes, Stages, RacersAreProviders, Tried, GoodProviderSuffices
<1>4. Account'
  BY <1>1 DEF Inv, Account, Live
<1> QED BY <1>2, <1>3, <1>4 DEF Inv

\* A stream to the provider whose turn it is.
LEMMA SerialOpensInv ==
    ASSUME Inv, SerialOpens
    PROVE  Inv'
<1>1. pc = "serial" /\ UNCHANGED <<inCache, inStore, env, providers, race>>
  BY DEF SerialOpens
<1>2. CASE serves[providers[turn]] = "down" \/ cancelled
  <2>1. cancelled \/ providers[turn] \notin alwaysGood
    BY <1>2 DEF Inv, GoodServes
  <2>2. NextProvider
    BY <1>2 DEF SerialOpens
  <2> QED BY <1>1, <2>1, <2>2, NextProviderInv
<1>3. CASE ~(serves[providers[turn]] = "down" \/ cancelled)
  <2>1. call' = "open" /\ UNCHANGED <<turn, pc, result>>
    BY <1>3 DEF SerialOpens
  <2> QED BY <1>1, <2>1, StayInv
<1> QED BY <1>2, <1>3

\* Its answer.
LEMMA SerialReadsInv ==
    ASSUME Inv, SerialReads
    PROVE  Inv'
<1>1. pc = "serial" /\ UNCHANGED <<inCache, inStore, env, providers, race>>
  BY DEF SerialReads
<1>2. CASE Answer(providers[turn]) = "block"
  <2>1. pc' = "put" /\ call' = "none" /\ UNCHANGED <<turn, result>>
    BY <1>2 DEF SerialReads
  <2> QED BY <1>1, <2>1, StayInv
<1>3. CASE Answer(providers[turn]) # "block"
  <2>1. providers[turn] \notin alwaysGood
    BY <1>3 DEF Inv, GoodServes, Answer
  <2>2. NextProvider
    BY <1>3 DEF SerialReads
  <2> QED BY <1>1, <2>1, <2>2, NextProviderInv
<1> QED BY <1>2, <1>3

-----------------------------------------------------------------------------
\* The invariant holds of every fetch, with any number of providers.
THEOREM Invariance == Spec => []Inv
<1>1. Init => Inv
  <2> SUFFICES ASSUME Init PROVE Inv
    OBVIOUS
  <2>1. TypeOK
    <3>1. providers \in Seq(Others) /\ channel \in Seq({"block", "error"}) /\ Len(providers) = 0
      BY DEF Init
    <3>2. turn \in 0 .. Len(providers) /\ received \in 0 .. Len(providers)
      BY <3>1 DEF Init
    <3> QED BY <3>1, <3>2, Zenon DEF Init, TypeOK
  <2>2. GoodServes /\ Stages /\ Tried /\ RacersAreProviders /\ GoodProviderSuffices
    BY DEF Init, GoodServes, Stages, Tried, RacersAreProviders, GoodProviderSuffices
  <2>3. Account
    BY DEF Init, Account
  <2> QED BY <2>1, <2>2, <2>3 DEF Inv
<1>2. Inv /\ [Next]_vars => Inv'
  <2> SUFFICES ASSUME Inv, [Next]_vars PROVE Inv'
    OBVIOUS
  <2>1. CASE UNCHANGED vars
    <3>1. UNCHANGED <<inCache, inStore, hasPathManager, serves, alwaysGood, cancelled, pc,
                      providers, racer, channel, received, raceOver, turn, call, result>>
      BY <2>1 DEF vars, env, race, serial
    <3> QED
      BY <3>1 DEF Inv, TypeOK, GoodServes, Stages, Tried, RacersAreProviders, Account, Live,
                  GoodProviderSuffices
  <2>2. CASE FetchStep
    BY <2>2, LookupInv, FindProvidersInv, ReceiveInv, SerialOpensInv, SerialReadsInv
    DEF FetchStep
  <2>3. CASE \E p \in Others : RacerStep(p)
    BY <2>3, RacerInv
  <2>4. CASE \E p \in Others, b \in Service : Change(p, b)
    BY <2>4, ChangeInv
  <2>5. CASE ClientGone
    BY <2>5, ClientGoneInv
  <2> QED BY <2>1, <2>2, <2>3, <2>4, <2>5 DEF Next
<1> QED BY <1>1, <1>2, PTL DEF Spec

\* The variables keep their types.
THEOREM TypeCorrect == Spec => []TypeOK
  BY Invariance, PTL DEF Inv

\* One provider that serves the block throughout is enough: fetchBlockFromNetwork
\* does not fail, however many others lack it, corrupt it or cannot be reached,
\* in whatever order the race and the fallback come to them.
THEOREM OneGoodProviderSuffices == Spec => []GoodProviderSuffices
  BY Invariance, PTL DEF Inv

\* fetchBlockMultipath receives exactly one result per provider.
THEOREM EveryRacerCounts == Spec => []RaceAccounted
<1>1. Inv => RaceAccounted
  BY DEF Inv, Account, Live, RaceAccounted
<1> QED BY <1>1, Invariance, PTL

\* A goroutine that has not ended finds room for its result in the channel, as
\* well when the race has returned and nobody receives any more: none of them
\* is left blocked for good in its send.
ChannelHasRoom ==
    \A p \in Others : racer[p] \in {"opening", "open"} => Len(channel) < Len(providers)

\* The capacity that fetchBlockMultipath gives its channel is enough.
THEOREM SendNeverBlocks == Spec => []ChannelHasRoom
<1>1. Inv => ChannelHasRoom
  <2> SUFFICES ASSUME Inv, NEW p \in Others, racer[p] \in {"opening", "open"}
               PROVE  Len(channel) < Len(providers)
    BY DEF ChannelHasRoom
  <2>1. received + Len(channel) + Cardinality(Live) = Len(providers)
    BY DEF Inv, Account
  <2>2. Cardinality(Live) \in Nat /\ Cardinality(Live) # 0
    <3>1. p \in Live
      BY DEF Live
    <3> QED BY <3>1, LiveFinite, FS_EmptySet
  <2>3. received \in Nat /\ Len(channel) \in Nat
    BY DEF Inv, TypeOK
  <2> QED BY <2>1, <2>2, <2>3
<1> QED BY <1>1, Invariance, PTL

=============================================================================
