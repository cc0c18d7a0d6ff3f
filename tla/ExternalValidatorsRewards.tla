---------------------- MODULE ExternalValidatorsRewards ---------------------
(***************************************************************************)
(* pallet-external-validators-rewards and the rewards adapter of the       *)
(* runtimes: authorship becomes points at the end of a session, points     *)
(* become one message per era, and a message the bridge refuses waits in   *)
(* the unsent queue until it is sent or its points are pruned              *)
(* (operator/pallets/external-validators-rewards/src/lib.rs,               *)
(* operator/runtime/common/src/rewards_adapter.rs and inflation.rs).       *)
(***************************************************************************)
EXTENDS UnsentRing, SessionPerformance, SequencesExt

CONSTANTS
    Validator,         \* the session validators
    Whitelisted,       \* WhitelistedValidatorsActiveEra
    BaseInflation,     \* T::EraInflationProvider
    HistoryDepth,
    MaxEra,            \* bound on the era index
    MaxEraBlocks       \* bound on the blocks of an era

RewardsAssumption ==
    /\ IsFiniteSet(Validator) /\ Whitelisted \subseteq Validator
    /\ {BaseInflation, HistoryDepth, MaxEra, MaxEraBlocks} \subseteq Nat

VARIABLES
    ActiveEra,                \* external: the era machine
    BlocksAuthoredInSession,
    BlocksProducedInEra,      \* era -> blocks
    RewardPointsForEra,       \* era -> validator -> points
    queue,                    \* UnsentRewardEra, UnsentRewardHead, UnsentRewardTail
    RewardsAccount,           \* balance of the rewards account
    promised,                 \* history: era -> what its message was built from
    sent,                     \* history: eras whose message left, in order
    expired,                  \* history: eras dropped with UnsentEraExpired
    refused                   \* history: eras dropped with UnsentQueueFull

vars == <<ActiveEra, BlocksAuthoredInSession, BlocksProducedInEra, RewardPointsForEra,
          queue, RewardsAccount, promised, sent, expired, refused>>

NoBlocks == [v \in Validator |-> 0]
NoPoints == [v \in Validator |-> 0]
EmptyMap == [x \in {} |-> x]

\* StorageMap::get with ValueQuery
Lookup(map, key, default) == IF key \in DOMAIN map THEN map[key] ELSE default

Init ==
    /\ ActiveEra = 0
    /\ BlocksAuthoredInSession = NoBlocks
    /\ BlocksProducedInEra = EmptyMap
    /\ RewardPointsForEra = EmptyMap
    /\ queue = EmptyQueue
    /\ RewardsAccount = 0
    /\ promised = EmptyMap
    /\ sent = <<>>
    /\ expired = {}
    /\ refused = {}

-----------------------------------------------------------------------------
(***************************************************************************)
(* send_rewards_message: build, validate, deliver.  Building moves the     *)
(* dust of the split to the treasury before the later steps can fail.      *)
(*   "sent"    delivered                                                   *)
(*   "skipped" build gave up before the dust was handled                   *)
(*   "failed"  encoding, validation or delivery failed afterwards          *)
(***************************************************************************)
SendOutcomes(points, inflation) ==
    IF \A v \in DOMAIN points : OperatorRewards(points, inflation)[v] = 0
    THEN {"skipped"} ELSE {"sent", "skipped", "failed"}

\* handle_remainder: a transfer to the treasury whose failure is only logged.
\* The existential deposit is zero.
handle_remainder(balance, dust) == IF balance >= dust THEN balance - dust ELSE balance

AfterSend(balance, outcome, points, inflation) ==
    IF outcome = "skipped" THEN balance
    ELSE handle_remainder(balance, Remainder(points, inflation))

-----------------------------------------------------------------------------
note_author(v) ==
    /\ Lookup(BlocksProducedInEra, ActiveEra, 0) < MaxEraBlocks
    /\ BlocksAuthoredInSession' = [BlocksAuthoredInSession EXCEPT ![v] = @ + 1]
    /\ BlocksProducedInEra' =
           Insert(BlocksProducedInEra, ActiveEra, Lookup(BlocksProducedInEra, ActiveEra, 0) + 1)
    /\ UNCHANGED <<ActiveEra, RewardPointsForEra, queue, RewardsAccount, promised,
                   sent, expired, refused>>

\* reward_by_ids for the active era, with the points of the session that ends.
AwardedPoints ==
    LET points == SessionPoints(BlocksAuthoredInSession, Validator, Whitelisted)
        old    == Lookup(RewardPointsForEra, ActiveEra, NoPoints)
        new    == [v \in Validator |-> old[v] + Lookup(points, v, 0)]
    IN  IF \A v \in DOMAIN points : points[v] = 0 THEN RewardPointsForEra
        ELSE Insert(RewardPointsForEra, ActiveEra, new)

\* A session has at least one block.
SessionHasBlocks == SumFunction(BlocksAuthoredInSession) > 0

\* SessionPerformanceManager::end_session when the era goes on.
end_session ==
    /\ SessionHasBlocks
    /\ RewardPointsForEra' = AwardedPoints
    /\ BlocksAuthoredInSession' = NoBlocks
    /\ UNCHANGED <<ActiveEra, BlocksProducedInEra, queue, RewardsAccount, promised,
                   sent, expired, refused>>

-----------------------------------------------------------------------------
(***************************************************************************)
(* The end of an era: points for its last session, on_era_end, then        *)
(* on_era_start of the next era.                                           *)
(***************************************************************************)

\* Faulty variant: the era whose points go is compared with <.
PruneQueue_Strict(q, limit) ==
    IF \E i \in DOMAIN q.slots : q.slots[i].era < limit
    THEN unsent_queue_remove_slot(q, CHOOSE i \in DOMAIN q.slots : q.slots[i].era < limit)
    ELSE q

\* The scan of on_era_start: an expired entry is removed and the slot looked
\* at again, any other is stepped over.
PruneQueue(q, limit) ==
    LET step(s) ==
            IF s.slot = s.queue.tail THEN s
            ELSE IF s.slot \in DOMAIN s.queue.slots /\ s.queue.slots[s.slot].era <= limit
                 THEN [s EXCEPT !.queue = unsent_queue_remove_slot(s.queue, s.slot)]
                 ELSE [s EXCEPT !.slot = After(s.slot)]
        scan[n \in 0..Capacity] ==
            IF n = 0 THEN [queue |-> q, slot |-> q.head] ELSE step(scan[n - 1])
    IN  scan[Capacity].queue

ErasIn(q) == {q.slots[i].era : i \in DOMAIN q.slots}

on_era_start(era, points, blocks, q) ==
    LET old == era - HistoryDepth
    IN  /\ RewardPointsForEra' = (IF old < 0 THEN points ELSE Delete(points, old))
        /\ BlocksProducedInEra' = (IF old < 0 THEN blocks ELSE Delete(blocks, old))
        /\ queue' = (IF old < 0 THEN q ELSE PruneQueue(q, old))
        /\ expired' = expired \cup (ErasIn(q) \ ErasIn(queue'))

\* The inflation of the era that ends.
ScaledInflation ==
    calculate_scaled_inflation(Lookup(BlocksProducedInEra, ActiveEra, 0), BaseInflation)

\* on_era_end without a message: no points, nothing to mint, or minting failed.
\* mint_inflation mints the rewards first, and leaves them where they are when
\* the treasury's mint fails.
end_era_unpaid ==
    LET points  == AwardedPoints
        mints   == SumFunction(Lookup(points, ActiveEra, NoPoints)) > 0 /\ ScaledInflation > 0
        partial == IF mints THEN {0, RewardsShare(ScaledInflation)} ELSE {0}
    IN  /\ ActiveEra < MaxEra
        /\ SessionHasBlocks
        /\ ActiveEra' = ActiveEra + 1
        /\ BlocksAuthoredInSession' = NoBlocks
        /\ \E amount \in partial : RewardsAccount' = RewardsAccount + amount
        /\ on_era_start(ActiveEra + 1, points, BlocksProducedInEra, queue)
        /\ UNCHANGED <<promised, sent, refused>>

end_era_paid(outcome) ==
    LET points == AwardedPoints
        own    == Lookup(points, ActiveEra, NoPoints)
        amount == RewardsShare(ScaledInflation)
        entry  == [era |-> ActiveEra, inflation |-> amount]
        minted == RewardsAccount + amount
        full   == unsent_queue_full(queue)
    IN  /\ ActiveEra < MaxEra
        /\ SessionHasBlocks
        /\ SumFunction(own) > 0
        /\ ScaledInflation > 0
        /\ outcome \in SendOutcomes(own, amount)
        /\ ActiveEra' = ActiveEra + 1
        /\ BlocksAuthoredInSession' = NoBlocks
        /\ promised' = Insert(promised, ActiveEra, [points |-> own, inflation |-> amount])
        /\ RewardsAccount' = AfterSend(minted, outcome, own, amount)
        /\ sent' = IF outcome = "sent" THEN Append(sent, ActiveEra) ELSE sent
        /\ refused' = IF outcome # "sent" /\ full THEN refused \cup {ActiveEra} ELSE refused
        /\ on_era_start(ActiveEra + 1, points, BlocksProducedInEra,
                        IF outcome = "sent" \/ full THEN queue
                        ELSE unsent_queue_push(queue, entry))

-----------------------------------------------------------------------------
(***************************************************************************)
(* The unsent queue.                                                       *)
(***************************************************************************)
PointsOf(era) == Lookup(RewardPointsForEra, era, NoPoints)

\* process_unsent_reward_eras: an entry without points has expired.
process_unsent_reward_eras(outcome) ==
    LET entry  == queue.slots[queue.head]
        points == PointsOf(entry.era)
        gone   == SumFunction(points) = 0
    IN  /\ ~unsent_queue_is_empty(queue)
        /\ outcome \in (IF gone THEN {"skipped"} ELSE SendOutcomes(points, entry.inflation))
        /\ queue' = IF gone \/ outcome = "sent" THEN DropHead(queue) ELSE MoveHeadToBack(queue)
        /\ RewardsAccount' = IF gone THEN RewardsAccount
                             ELSE AfterSend(RewardsAccount, outcome, points, entry.inflation)
        /\ sent' = IF outcome = "sent" THEN Append(sent, entry.era) ELSE sent
        /\ expired' = IF gone THEN expired \cup {entry.era} ELSE expired
        /\ UNCHANGED <<ActiveEra, BlocksAuthoredInSession, BlocksProducedInEra,
                       RewardPointsForEra, promised, refused>>

\* Governance retry: an extrinsic, so a failed send is rolled back.
retry_unsent_reward_era(era) ==
    LET matches == {i \in LiveSlots(queue) \cap DOMAIN queue.slots : queue.slots[i].era = era}
        first   == CHOOSE i \in matches :
                       \A j \in matches : Distance(i, queue.head) <= Distance(j, queue.head)
        amount  == queue.slots[first].inflation
    IN  /\ matches # {}
        /\ SumFunction(PointsOf(era)) > 0
        /\ "sent" \in SendOutcomes(PointsOf(era), amount)
        /\ queue' = unsent_queue_remove_slot(queue, first)
        /\ RewardsAccount' = AfterSend(RewardsAccount, "sent", PointsOf(era), amount)
        /\ sent' = Append(sent, era)
        /\ UNCHANGED <<ActiveEra, BlocksAuthoredInSession, BlocksProducedInEra,
                       RewardPointsForEra, promised, expired, refused>>

Next ==
    \/ \E v \in Validator : note_author(v)
    \/ end_session
    \/ end_era_unpaid
    \/ \E outcome \in {"sent", "skipped", "failed"} :
           \/ end_era_paid(outcome)
           \/ process_unsent_reward_eras(outcome)
    \/ \E era \in 0..ActiveEra : retry_unsent_reward_era(era)

Spec == Init /\ [][Next]_vars

-----------------------------------------------------------------------------
(***************************************************************************)
(* Properties.                                                             *)
(***************************************************************************)
\* What an era owes survives in the queue: as long as the message of an era
\* waits for a retry, its points and its inflation are exactly those of the end
\* of the era.  In particular the "reward points have been pruned" arm of
\* process_unsent_reward_eras is never taken, because on_era_start removes the
\* queue entry together with the points.
QueuedAsPromised ==
    \A i \in DOMAIN queue.slots :
        LET entry == queue.slots[i]
        IN  /\ entry.era \in DOMAIN promised \cap DOMAIN RewardPointsForEra
            /\ RewardPointsForEra[entry.era] = promised[entry.era].points
            /\ entry.inflation = promised[entry.era].inflation

Queued(era) == {i \in DOMAIN queue.slots : queue.slots[i].era = era}

\* Every era for which rewards were minted is accounted for exactly once, across
\* on_era_end, block retries, governance retries and pruning: its message was
\* sent once, or it waits in one slot, or it was refused by the full queue, or it
\* was given up, which may happen only when the era is HistoryDepth eras old.
EraAccounting ==
    /\ IsInjective(sent)
    /\ \A e \in DOMAIN promised :
           LET places == {p \in {"sent", "queued", "expired", "refused"} :
                              \/ p = "sent" /\ Contains(sent, e)
                              \/ p = "queued" /\ Cardinality(Queued(e)) = 1
                              \/ p = "expired" /\ e \in expired /\ e + HistoryDepth <= ActiveEra
                              \/ p = "refused" /\ e \in refused}
           IN  Cardinality(places) = 1

\* "If BlockAuthoringWeight + LivenessWeight > 100%, values are proportionally scaled
\* down to ensure the sum does not exceed 100%": whatever weights governance sets,
\* award_session_performance_points gives out no more than the base points of the
\* blocks of the session (at least one block per validator).
PointsWithinPool ==
    SumFunction(SessionPoints(BlocksAuthoredInSession, Validator, Whitelisted))
        <= BasePointsPerBlock * Greatest(SumFunction(BlocksAuthoredInSession),
                                         Cardinality(Validator))

Distributed(era) ==
    SumFunction(OperatorRewards(promised[era].points, promised[era].inflation))

\* The rewards account covers every amount that was, or still will be, announced
\* to EigenLayer: "This ensures the message to EigenLayer matches the actual
\* minted rewards" (on_era_end).
RewardsBacked ==
    LET owed == {e \in DOMAIN promised : Contains(sent, e) \/ Queued(e) # {}}
    IN  RewardsAccount >= SumFunction([e \in owed |-> Distributed(e)])

=============================================================================
