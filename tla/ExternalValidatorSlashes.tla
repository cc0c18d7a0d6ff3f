---------------------- MODULE ExternalValidatorSlashes ----------------------
(***************************************************************************)
(* pallet-external-validator-slashes: offences reported by the consensus   *)
(* pallets become slash records, wait for the era they are scheduled for,  *)
(* are cut into batches when that era starts and leave through the unsent  *)
(* queue (operator/pallets/external-validator-slashes/src/lib.rs).         *)
(*                                                                         *)
(* A slash is its id; "recorded" keeps, per id, what the record says and,  *)
(* as history, where it came from.  Sessions and eras advance as the era   *)
(* machine of pallet-external-validators lets them.                        *)
(***************************************************************************)
EXTENDS UnsentRing, SequencesExt

CONSTANTS
    Validator,
    Kind,                            \* OffenceKind
    Modes,                           \* the SlashingModeOption values root uses
    Whitelists,                      \* the values WhitelistedValidators takes
    InjectedFractions,               \* the fractions root injects
    BondingDuration,
    SlashDeferDuration,
    HistoryDepth,                    \* of pallet-external-validators
    QueuedSlashesProcessedPerBlock,
    MaxSession,                      \* bound on the session index
    MaxSlashes,                      \* bound on the number of slash records
    MaxReports,                      \* bound on the number of offence reports
    MaxInjected                      \* bound on the number of slashes root injects

ASSUME SlashesAssumption ==
    /\ Modes \subseteq {"Enabled", "LogOnly", "Disabled"}
    /\ Whitelists \subseteq SUBSET Validator
    /\ InjectedFractions \subseteq Nat \ {0}
    /\ BondingDuration \in Nat
    /\ SlashDeferDuration \in Nat
    /\ HistoryDepth \in Nat
    /\ QueuedSlashesProcessedPerBlock \in Nat
    /\ MaxSession \in Nat
    /\ MaxSlashes \in Nat
    /\ MaxReports \in Nat
    /\ MaxInjected \in Nat

VARIABLES
    CurrentIndex,         \* external: the session index
    ActiveEra,            \* external: the active era
    EraStart,             \* external: first session of every era so far
    Invulnerables,        \* external: WhitelistedValidators
    Reports,              \* external: pallet-offences, offenders per kind and time slot
    ValidatorSlashInEra,  \* <<era, validator>> -> highest fraction
    BondedEras,           \* sequence of [era, start]
    Slashes,              \* era -> sequence of slash ids
    queue,                \* UnsentSlashBatch, UnsentSlashHead, UnsentSlashTail
    SlashingMode,
    PendingOffenceKind,   \* <<session, validator>> -> kind
    recorded,             \* slash records by id; NextSlashId is Len(recorded)
    sent,                 \* history: ids handed to the outbound queue, in order
    cancelled,            \* history: ids removed by cancel_deferred_slash
    refused               \* history: ids the full queue did not take

clockVars  == <<CurrentIndex, ActiveEra, EraStart>>
offenceVars == <<Reports, PendingOffenceKind>>
recordVars == <<ValidatorSlashInEra, Slashes, recorded>>
vars == <<clockVars, Invulnerables, offenceVars, recordVars, BondedEras,
          queue, SlashingMode, sent, cancelled, refused>>

EmptyMap == [x \in {} |-> x]

SlashesOf(era) == IF era \in DOMAIN Slashes THEN Slashes[era] ELSE <<>>

\* Ids in the batches that wait in the queue.
Queued == UNION {ToSet(queue.slots[i].ids) : i \in DOMAIN queue.slots}

\* Offences in the same time slot weigh more the more offenders there are
\* (external: Offence::slash_fraction).
SlashFraction(offenders) == offenders

Init ==
    /\ CurrentIndex = 0
    /\ ActiveEra = 0
    /\ EraStart = [e \in {0} |-> 0]
    /\ Invulnerables \in Whitelists
    /\ Reports = EmptyMap
    /\ ValidatorSlashInEra = EmptyMap
    /\ BondedEras = <<[era |-> 0, start |-> 0]>>
    /\ Slashes = EmptyMap
    /\ queue = EmptyQueue
    /\ SlashingMode \in Modes
    /\ PendingOffenceKind = EmptyMap
    /\ recorded = <<>>
    /\ sent = <<>>
    /\ cancelled = {}
    /\ refused = {}

-----------------------------------------------------------------------------
(***************************************************************************)
(* Slash records.  A "book" is the part of the state they touch.           *)
(***************************************************************************)
Book == [inEra |-> ValidatorSlashInEra, slashes |-> Slashes, recorded |-> recorded,
         pending |-> PendingOffenceKind]

PriorSlash(book, era, v) ==
    IF <<era, v>> \in DOMAIN book.inEra THEN book.inEra[<<era, v>>] ELSE 0

\* Faulty variant: an equal fraction slashes again.
compute_slash_AtLeast(book, slash, scheduled) ==
    IF slash.fraction < PriorSlash(book, slash.era, slash.validator) THEN book
    ELSE [book EXCEPT
            !.inEra    = Insert(book.inEra, <<slash.era, slash.validator>>, slash.fraction),
            !.slashes  = Insert(book.slashes, scheduled,
                                Append(IF scheduled \in DOMAIN book.slashes
                                       THEN book.slashes[scheduled] ELSE <<>>,
                                       Len(book.recorded) + 1)),
            !.recorded = Append(book.recorded, slash)]

\* compute_slash and the push that follows it: only a fraction above the
\* highest one of that era makes a record.
compute_slash(book, slash, scheduled) ==
    IF slash.fraction <= PriorSlash(book, slash.era, slash.validator) THEN book
    ELSE [book EXCEPT
            !.inEra    = Insert(book.inEra, <<slash.era, slash.validator>>, slash.fraction),
            !.slashes  = Insert(book.slashes, scheduled,
                                Append(IF scheduled \in DOMAIN book.slashes
                                       THEN book.slashes[scheduled] ELSE <<>>,
                                       Len(book.recorded) + 1)),
            !.recorded = Append(book.recorded, slash)]

\* Faulty variant: the era of the report, not of the offence.
SlashEra_Active(session) == IF session \in Nat THEN {ActiveEra} ELSE {}

\* slash_era of on_offence: the active era, or the last bonded era that had
\* started by the session of the offence.
SlashEra(session) ==
    IF session >= EraStart[ActiveEra] THEN {ActiveEra}
    ELSE LET k == SelectLastInSeq(BondedEras, LAMBDA b : b.start <= session)
         IN  IF k = 0 THEN {} ELSE {BondedEras[k].era}

\* Faulty variant: counted from the offence, as force_inject_slash does.
ScheduledEra_OfOffence(slash_era) == slash_era + SlashDeferDuration + 1

ScheduledEra(slash_era) ==
    IF SlashDeferDuration = 0 THEN ActiveEra + 1 ELSE slash_era + SlashDeferDuration + 1

\* The loop over the concurrent offenders of one time slot.
SlashOffenders(book, kind, session, era, offenders) ==
    LET fraction == SlashFraction(Len(offenders))
        step(b, v) ==
            IF <<session, v>> \notin DOMAIN b.pending THEN b
            ELSE LET taken == [b EXCEPT !.pending = Delete(b.pending, <<session, v>>)]
                 IN  IF v \in Invulnerables \/ SlashingMode = "LogOnly" THEN taken
                     ELSE compute_slash(taken,
                              [validator |-> v, era |-> era, fraction |-> fraction,
                               kind |-> b.pending[<<session, v>>],
                               source |-> "offence", session |-> session, report |-> kind],
                              ScheduledEra(era))
    IN  FoldLeft(step, book, offenders)

on_offence(book, kind, session, offenders) ==
    IF SlashingMode = "Disabled" \/ SlashEra(session) = {} THEN book
    ELSE SlashOffenders(book, kind, session, CHOOSE e \in SlashEra(session) : TRUE, offenders)

-----------------------------------------------------------------------------
(***************************************************************************)
(* EquivocationReportWrapper::report_offence around pallet-offences.       *)
(***************************************************************************)
Offenders(kind, session) ==
    IF <<kind, session>> \in DOMAIN Reports THEN Reports[<<kind, session>>] ELSE <<>>

\* A new offender: pallet-offences calls on_offence with every offender it
\* knows for that time slot.
report_offence(kind, session, v) ==
    LET offenders == Append(Offenders(kind, session), v)
        tagged == [Book EXCEPT !.pending = Insert(PendingOffenceKind, <<session, v>>, kind)]
        after  == on_offence(tagged, kind, session, offenders)
    IN  /\ session >= BondedEras[1].start
        /\ ~Contains(Offenders(kind, session), v)
        /\ Len(recorded) < MaxSlashes
        /\ SumFunction([r \in DOMAIN Reports |-> Len(Reports[r])]) < MaxReports
        /\ Reports' = Insert(Reports, <<kind, session>>, offenders)
        /\ ValidatorSlashInEra' = after.inEra
        /\ Slashes' = after.slashes
        /\ recorded' = after.recorded
        /\ PendingOffenceKind' = after.pending
        /\ UNCHANGED <<clockVars, Invulnerables, BondedEras, queue, SlashingMode,
                       sent, cancelled, refused>>

\* A known offender: DuplicateReport, and the wrapper removes its tag again.
report_duplicate(kind, session, v) ==
    /\ session >= BondedEras[1].start
    /\ Contains(Offenders(kind, session), v)
    /\ PendingOffenceKind' = Delete(PendingOffenceKind, <<session, v>>)
    /\ UNCHANGED <<clockVars, Invulnerables, Reports, recordVars, BondedEras, queue,
                   SlashingMode, sent, cancelled, refused>>

-----------------------------------------------------------------------------
(***************************************************************************)
(* Root extrinsics.                                                        *)
(***************************************************************************)
\* The start session of the era must still be known; while the next era is
\* already planned the code knows one era less than this guard allows.
force_inject_slash(era, v, fraction, kind) ==
    LET slash == [validator |-> v, era |-> era, fraction |-> fraction, kind |-> kind,
                  source |-> "root", session |-> CurrentIndex, report |-> kind]
        after == compute_slash(Book, slash, era + SlashDeferDuration + 1)
    IN  /\ era <= ActiveEra
        /\ era + HistoryDepth >= ActiveEra
        /\ fraction > PriorSlash(Book, era, v)
        /\ Len(recorded) < MaxSlashes
        /\ Cardinality({i \in DOMAIN recorded : recorded[i].source = "root"}) < MaxInjected
        /\ ValidatorSlashInEra' = after.inEra
        /\ Slashes' = after.slashes
        /\ recorded' = after.recorded
        /\ UNCHANGED <<clockVars, Invulnerables, offenceVars, BondedEras, queue,
                       SlashingMode, sent, cancelled, refused>>

\* The indices are sorted, unique and in range: a non-empty set of positions.
cancel_deferred_slash(era, indices) ==
    /\ era > ActiveEra
    /\ era <= ActiveEra + SlashDeferDuration + 1
    /\ indices # {}
    /\ indices \subseteq DOMAIN SlashesOf(era)
    /\ LET kept == SelectSeq(SlashesOf(era),
                             LAMBDA id : \A i \in indices : SlashesOf(era)[i] # id)
       IN  Slashes' = Insert(Slashes, era, kept)
    /\ cancelled' = cancelled \cup {SlashesOf(era)[i] : i \in indices}
    /\ UNCHANGED <<clockVars, Invulnerables, offenceVars, ValidatorSlashInEra, recorded,
                   BondedEras, queue, SlashingMode, sent, refused>>

set_slashing_mode(mode) ==
    /\ SlashingMode' = mode
    /\ UNCHANGED <<clockVars, Invulnerables, offenceVars, recordVars, BondedEras, queue,
                   sent, cancelled, refused>>

\* The first entry of that era in scan order, sent and removed.
retry_unsent_slash_era(era) ==
    LET matches == {i \in LiveSlots(queue) \cap DOMAIN queue.slots : queue.slots[i].era = era}
        first   == CHOOSE i \in matches :
                       \A j \in matches : Distance(i, queue.head) <= Distance(j, queue.head)
    IN  /\ matches # {}
        /\ queue' = unsent_queue_remove_slot(queue, first)
        /\ sent' = sent \o queue.slots[first].ids
        /\ UNCHANGED <<clockVars, Invulnerables, offenceVars, recordVars, BondedEras,
                       SlashingMode, cancelled, refused>>

-----------------------------------------------------------------------------
(***************************************************************************)
(* Hooks.                                                                  *)
(***************************************************************************)

\* on_initialize: the outbound queue takes the head batch, or refuses it.
process_sent ==
    /\ ~unsent_queue_is_empty(queue)
    /\ queue' = DropHead(queue)
    /\ sent' = sent \o queue.slots[queue.head].ids
    /\ UNCHANGED <<clockVars, Invulnerables, offenceVars, recordVars, BondedEras,
                   SlashingMode, cancelled, refused>>

process_failed ==
    /\ ~unsent_queue_is_empty(queue)
    /\ queue' = MoveHeadToBack(queue)
    /\ UNCHANGED <<clockVars, Invulnerables, offenceVars, recordVars, BondedEras,
                   SlashingMode, sent, cancelled, refused>>

\* slice::chunks
Chunks(s, n) ==
    [k \in 1..((Len(s) + n - 1) \div n) |->
        SubSeq(s, (k - 1) * n + 1, IF k * n <= Len(s) THEN k * n ELSE Len(s))]

\* A full queue refuses this batch and, as it stays full, all later ones.
add_era_slashes_to_queue(q, era, ids) ==
    LET n == IF QueuedSlashesProcessedPerBlock = 0 THEN 1 ELSE QueuedSlashesProcessedPerBlock
        enqueue(r, batch) == IF unsent_queue_full(r) THEN r
                             ELSE unsent_queue_push(r, [era |-> era, ids |-> batch])
    IN  FoldLeft(enqueue, q, Chunks(ids, n))

\* Eras dropped from BondedEras when era starts.
Pruned(era) ==
    {BondedEras[i].era : i \in {j \in DOMAIN BondedEras :
                                   /\ era > BondingDuration
                                   /\ BondedEras[j].era < era - BondingDuration}}

on_era_start(era, session_start) ==
    LET ids == SlashesOf(era)
        batches == {queue'.slots[i].ids : i \in DOMAIN queue'.slots}
    IN  /\ BondedEras' = SelectSeq(Append(BondedEras, [era |-> era, start |-> session_start]),
                                   LAMBDA b : b.era \notin Pruned(era))
        /\ ValidatorSlashInEra' =
               [k \in {p \in DOMAIN ValidatorSlashInEra : p[1] \notin Pruned(era)} |->
                   ValidatorSlashInEra[k]]
        /\ Slashes' = [e \in DOMAIN Slashes \ Pruned(era) |-> Slashes[e]]
        /\ queue' = add_era_slashes_to_queue(queue, era, ids)
        /\ refused' = refused \cup {id \in ToSet(ids) : \A b \in batches : ~Contains(b, id)}

-----------------------------------------------------------------------------
(***************************************************************************)
(* The era machine and the whitelist (external to this pallet).            *)
(***************************************************************************)
NextSession ==
    /\ CurrentIndex < MaxSession
    /\ CurrentIndex' = CurrentIndex + 1
    /\ UNCHANGED <<ActiveEra, EraStart, Invulnerables, offenceVars, recordVars, BondedEras,
                   queue, SlashingMode, sent, cancelled, refused>>

NextEra ==
    /\ CurrentIndex < MaxSession
    /\ CurrentIndex' = CurrentIndex + 1
    /\ ActiveEra' = ActiveEra + 1
    /\ EraStart' = Insert(EraStart, ActiveEra + 1, CurrentIndex + 1)
    /\ on_era_start(ActiveEra + 1, CurrentIndex + 1)
    /\ UNCHANGED <<Invulnerables, offenceVars, recorded, SlashingMode, sent, cancelled>>

ChangeWhitelist(S) ==
    /\ Invulnerables' = S
    /\ UNCHANGED <<clockVars, offenceVars, recordVars, BondedEras, queue, SlashingMode,
                   sent, cancelled, refused>>

Next ==
    \/ \E kind \in Kind, session \in 0..CurrentIndex, v \in Validator :
           \/ report_offence(kind, session, v)
           \/ report_duplicate(kind, session, v)
    \/ \E era \in 0..ActiveEra, v \in Validator, kind \in Kind,
          fraction \in InjectedFractions : force_inject_slash(era, v, fraction, kind)
    \/ \E era \in DOMAIN Slashes :
           \E indices \in SUBSET DOMAIN Slashes[era] : cancel_deferred_slash(era, indices)
    \/ \E mode \in Modes : set_slashing_mode(mode)
    \/ \E era \in 0..ActiveEra : retry_unsent_slash_era(era)
    \/ process_sent
    \/ process_failed
    \/ NextSession
    \/ NextEra
    \/ \E S \in Whitelists : ChangeWhitelist(S)

Spec == Init /\ [][Next]_vars

-----------------------------------------------------------------------------
(***************************************************************************)
(* Properties.                                                             *)
(***************************************************************************)
\* A slash made from an offence report counts against the era in whose
\* sessions the offence happened, however late the report arrives and whatever
\* pruning did to BondedEras in between.
SlashedInOffenceEra ==
    \A i \in DOMAIN recorded :
        LET r == recorded[i]
        IN  r.source = "offence" =>
                /\ EraStart[r.era] <= r.session
                /\ r.era + 1 \in DOMAIN EraStart => r.session < EraStart[r.era + 1]

\* "We slash based on the max in era": a later offence adds a slash for the same
\* validator and era only with a higher fraction, across pruning, cancelling
\* and slashes injected by root.
RisingSlashFractions ==
    \A i, j \in DOMAIN recorded :
        (/\ i < j
         /\ recorded[j].source = "offence"
         /\ recorded[i].validator = recorded[j].validator
         /\ recorded[i].era = recorded[j].era) => recorded[i].fraction < recorded[j].fraction

\* Every slash has one fate.  It leaves the chain at most once, and never when
\* it was cancelled, refused by the full queue or is still queued.
SentAtMostOnce ==
    /\ IsInjective(sent)
    /\ ToSet(sent) \cap (cancelled \cup refused \cup Queued) = {}
    /\ Queued \cap (cancelled \cup refused) = {}
    /\ cancelled \cap refused = {}
    /\ \A i, j \in DOMAIN queue.slots :
           i # j => ToSet(queue.slots[i].ids) \cap ToSet(queue.slots[j].ids) = {}

\* No slash falls through: with no deferral, one made from an offence report is
\* still scheduled for the next era, or was cancelled, queued, sent, or
\* reported as refused.
OffenceSlashNotStranded ==
    \A i \in DOMAIN recorded :
        recorded[i].source = "offence" =>
            \/ i \in cancelled \cup Queued \cup ToSet(sent) \cup refused
            \/ Contains(SlashesOf(ActiveEra + 1), i)

\* "Entries are cleaned up via take() in on_offence on success, or explicit
\* remove() in the wrapper on error", "to prevent leaking into unrelated future
\* offences": the kind told to EigenLayer is the kind of the report that caused the
\* slash, whatever reports of the same validator and session came before it.
SlashKindAsReported ==
    \A i \in DOMAIN recorded : recorded[i].kind = recorded[i].report

\* The comment of force_inject_slash: "if defer duration is 0, we immediately
\* apply and confirm".  A slash injected by root reaches the queue no later than
\* the start of the next era, unless it is cancelled or the queue is full.
InjectedSlashApplied ==
    \A i \in DOMAIN recorded :
        recorded[i].source = "root" =>
            \/ i \in cancelled \cup Queued \cup ToSet(sent) \cup refused
            \/ Contains(SlashesOf(ActiveEra + 1), i)

=============================================================================
