------------------------------ MODULE StoreParts ------------------------------
(***************************************************************************)
(* The record keepers, side by side: the paper ledger, the evidence lab,   *)
(* the searches over settings, the connection of an audit store, the       *)
(* import of an older journal, the opening of an older file, the chain of  *)
(* virtual checkpoints, the ledger of quote batches with its reader, and   *)
(* the point in time store of earnings.  They share no state.  A behaviour *)
(* picks one part and runs it; the others stay where they begin.           *)
(***************************************************************************)
EXTENDS PaperTrading

CONSTANTS
    Lab, Fingerprint, Bundle, Grid, Certified,              \* EvidenceLab
    Thread, Alert, MaxDepth,                                \* AuditTransactions
    Row,                                                    \* StoreUpgrade
    Opener, NewColumns, Batch,                              \* StoreSchema
    Writer, Run, MaxSeq, MaxDamage,                         \* ShadowChain
    Shortlist, LabSize, CompareSize, Base,                  \* StrategySelection
    Stream, Arrival, BarTicks, DayTicks, MarketTicks, MaxBatches,   \* RuntimeTrace
    Client, Worker, Budget, BudgetDay, CacheAge, Lag, LastTime  \* EarningsStore

VARIABLES
    part,                                                   \* the part that runs
    trials, holdouts, promotions, lab, evaluations,         \* EvidenceLab
    db, work, owner, stack, callbacks, due, shown, lost,    \* AuditTransactions
    legacy, target, copy, lock, opened, recorded,           \* StoreUpgrade
    file, opener, written, dropped,                         \* StoreSchema
    rows, holds, appended, damage, answer,                  \* ShadowChain
    study, reads,                                           \* StrategySelection
    ticks, batches, batched, load,                          \* RuntimeTrace
    time, renewed, requests, responses, checks, refresh     \* EarningsStore

labVars == <<trials, holdouts, promotions, lab, evaluations>>
auditVars == <<db, work, owner, stack, callbacks, due, shown, lost>>
upgradeVars == <<legacy, target, copy, lock, opened, recorded>>
schemaVars == <<file, opener, written, dropped>>
chainVars == <<rows, holds, appended, damage, answer>>
searchVars == <<study, reads>>
traceVars == <<ticks, batches, batched, load>>
earningsVars == <<time, renewed, requests, responses, checks, refresh>>
recordsVars ==
    <<part, vars, labVars, auditVars, upgradeVars, schemaVars, chainVars, searchVars, traceVars,
      earningsVars>>

Parts == {"paper", "lab", "audit", "upgrade", "schema", "chain", "search", "trace", "earnings"}

Evidence == INSTANCE EvidenceLab

Audit == INSTANCE AuditTransactions WITH Nobody <- None

Upgrade == INSTANCE StoreUpgrade WITH ledger <- opened

Schema == INSTANCE StoreSchema WITH Columns <- NewColumns

Chain == INSTANCE ShadowChain

Search == INSTANCE StrategySelection

Trace == INSTANCE RuntimeTrace WITH clock <- ticks, ledger <- batches, count <- batched

Earnings == INSTANCE EarningsStore WITH Day <- BudgetDay, MaxTime <- LastTime, at <- refresh

ASSUME StoreAssumption ==
    /\ Evidence!BundleAssumption
    /\ Audit!NobodyAssumption
    /\ Schema!ColumnsAssumption
    /\ Chain!ChainAssumption
    /\ Search!SelectionAssumption
    /\ Trace!TraceAssumption
    /\ Earnings!EarningsAssumption

-----------------------------------------------------------------------------
(* A part that does not run has one way to begin. *)
StoresInit ==
    /\ Evidence!Init /\ Audit!Init
    /\ Upgrade!Init /\ (part # "upgrade" => legacy = None)
    /\ Schema!Init /\ (part # "schema" => written = {} /\ file.version = 2 /\ ~file.duplicate)
    /\ Chain!Init /\ Search!Init /\ Trace!Init

RecordsInit == part \in Parts /\ Init /\ StoresInit /\ Earnings!Init

PaperNext ==
    /\ part = "paper" /\ Next
    /\ UNCHANGED <<part, labVars, auditVars, upgradeVars, schemaVars,
                   chainVars, searchVars, traceVars, earningsVars>>
LabNext ==
    /\ part = "lab" /\ Evidence!Next
    /\ UNCHANGED <<part, vars, auditVars, upgradeVars, schemaVars,
                   chainVars, searchVars, traceVars, earningsVars>>
AuditNext ==
    /\ part = "audit" /\ Audit!Next
    /\ UNCHANGED <<part, vars, labVars, upgradeVars, schemaVars,
                   chainVars, searchVars, traceVars, earningsVars>>
UpgradeNext ==
    /\ part = "upgrade" /\ Upgrade!Next
    /\ UNCHANGED <<part, vars, labVars, auditVars, schemaVars,
                   chainVars, searchVars, traceVars, earningsVars>>
SchemaNext ==
    /\ part = "schema" /\ Schema!Next
    /\ UNCHANGED <<part, vars, labVars, auditVars, upgradeVars,
                   chainVars, searchVars, traceVars, earningsVars>>
ChainNext ==
    /\ part = "chain" /\ Chain!Next
    /\ UNCHANGED <<part, vars, labVars, auditVars, upgradeVars,
                   schemaVars, searchVars, traceVars, earningsVars>>
SearchNext ==
    /\ part = "search" /\ Search!Next
    /\ UNCHANGED <<part, vars, labVars, auditVars, upgradeVars,
                   schemaVars, chainVars, traceVars, earningsVars>>
TraceNext ==
    /\ part = "trace" /\ Trace!Next
    /\ UNCHANGED <<part, vars, labVars, auditVars, upgradeVars,
                   schemaVars, chainVars, searchVars, earningsVars>>
EarningsNext ==
    /\ part = "earnings" /\ Earnings!Next
    /\ UNCHANGED <<part, vars, labVars, auditVars, upgradeVars,
                   schemaVars, chainVars, searchVars, traceVars>>

RecordsNext ==
    \/ PaperNext \/ LabNext \/ AuditNext \/ UpgradeNext \/ SchemaNext \/ ChainNext
    \/ SearchNext \/ TraceNext \/ EarningsNext

RecordsSpec == RecordsInit /\ [][RecordsNext]_recordsVars

-----------------------------------------------------------------------------
(* Paper trading: a fill follows its signal in the order of its quotes and
   within one run, the saved session and its fills agree after failed saves,
   stops and crashes, and the two markets share one set of limits
   (research/paper/ledger.py:164, strategy/paper.py:105). *)
PaperKeepsItsRules ==
    /\ [](FillsFollowSignals /\ JournalComplete)
    /\ [][part = "paper" => EntersWithinLimits]_vars

(* Sealed data is read once, in the order of time, for the candidate frozen
   before, and evidence for live review rests on such a reading; what a
   search over settings chooses from lies entirely before what the choice is
   tested on (persistence/research_holdouts.py:42,
   persistence/research_evidence.py:25, research/evidence_search.py:176,
   research/strategy_selection.py:106). *)
SealedEvidence ==
    /\ part = "lab" => Evidence!SealedOnce /\ Evidence!SealedLater /\ Evidence!EvidenceEarned
    /\ part = "search" => Search!SelectionKept

(* What a store holds is whole: alerts follow the commit of their receipts,
   older files are taken over whole or not at all, a chain of checkpoints is
   read as it was recorded or not at all, and recorded quotes are read into
   bars without a look ahead, a gap or a mixture of streams
   (persistence/receipts.py:10, persistence/upgrade.py:55,
   persistence/schema.py:358, persistence/shadow.py:37,
   research/runtime_trace.py:263). *)
StoresStayWhole ==
    /\ [](part = "audit" => Audit!AlertsFollowCommits)
    /\ [](part = "schema" => Schema!StoreOpens)
    /\ [](part = "chain" => Chain!ChainKept)
    /\ [](part = "trace" => Trace!TraceKept)
    /\ Upgrade!OneJournal

(* Earnings cost the provider no more requests than the day's budget, and
   the events the engine is handed were known point in time
   (data/earnings_feed.py:147, data/earnings_feed.py:383). *)
EarningsInTime == (part = "earnings" => Earnings!ProviderBudget) /\ Earnings!PointInTime

=============================================================================
