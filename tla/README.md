# A formal model of zanzipy

zanzipy is a Python authorization library in the style of Zanzibar: relation
tuples (`doc:1#viewer@user:u`) are stored per tenant at numbered revisions, a
schema says which tuples make which relations and permissions, and three
engines answer *check*, *lookup* and *expand* at one revision. This directory
holds TLA+ models of the parts of it where order, failure, caching or recursion
make the outcome hard to see, the TLC configurations that check them, and
proofs for the TLA+ proof system. Paths below are relative to
`src/src/zanzipy/`.

## 1. The system

| component | state it keeps | operations | what makes it correct |
|---|---|---|---|
| Mutation batches (`storage/revision.py`, `repos/abstract/relations.py`) | none | touch, delete, validation of a batch | a batch that writes and deletes one tuple is refused before anything happens |
| SQLAlchemy repository (`repos/concrete/sqlalchemy`) | tables `relation_tuples` (visibility windows) and `revisions` | write, head_revision, get, read, read_reverse, by_object, by_subject, watch | one dense revision per effective batch, immutable snapshots, tokens never behind the call, termination of writers |
| SQLite repository (`repos/concrete/sqlite`) | the same tables, one connection and its transaction | the same | the same, also when a write is interrupted |
| In-memory repository (`repos/concrete/memory`) | per tenant: head, active tuples, snapshots, change log | the same | the four dictionaries agree, a watch that is suspended misses nothing |
| Tuple filters (`models/filter.py`) | none | match; which cache bucket answers a filter | a bucket filled for one filter may be returned to another |
| Tuple cache and decorator (`cache/concrete/_lru.py`, `lru.py`, `decorators/cached_relations.py`) | LRU entries with expiry, keyed by tenant and revision | get, set, evict; read through | an entry is forever the bucket of its revision; a failing cache costs time only |
| Redis tuple cache (`cache/concrete/redis.py`) | entries with a TTL on a server that outlives the process | GET, SET, DEL of what cannot be decoded | the same, whatever the server drops or others overwrite |
| Compiled-rule caches (`cache/abstract/rules.py`, `schema/compiled.py`) | compiled rules by namespace and name | get, set, invalidate | no rule of an older schema gets into a compiled model |
| Schema and registry (`schema/*`) | the registered namespaces | register(_many), update(_many), compile | the registry as a whole stays valid; what is compiled is a snapshot |
| Check engine (`engine/checker.py`, `rewrite_dispatch.py`) | none; per call a path and a depth | check | the answer is what the schema grants, cycles or not; the limit fails closed |
| Lookup engine (`engine/lookup.py`) | none; per call depths of reached nodes | lookup | lists exactly what check allows |
| Expansion engine (`engine/expander.py`, `expanded_subjects.py`) | none | expand | names exactly whom check allows, or fewer when it must cut off |
| Authorization engine (`engine/authorization.py`) | the compiled model, the repository, a depth limit | composes the three | all three see one model |
| Client (`client.py`) | tenant, registry, repository, engine | write, delete, check, ... with a consistency policy | every read of a call is at one revision that its policy allows; tuples are validated against the live registry |
| Value objects (`models/*`) | none | parsing, validation | sequential and stateless: their tests reach all of it |
| DSL (`dsl/builder.py`) | pending namespaces | building definitions | the rules built are those the operands name |
| Mixins and engine facade (`integration/mixins.py`, `engine_integration.py`) | a ContextVar binding | configure, reset, delegate | a call with several reads pins one token |
| Flask extension (`integration/flask/*`) | the apps it was given, the default engine, reset tokens on contexts | init_app, push and pop of contexts | the binding in force is that of the innermost context, and none is left behind |

How they interact. An application calls the client (directly, through
`engine_integration.py`, or through the mixins). A write is validated against
the registry and handed to the repository, which answers with a revision. A
check reads the head (or takes the revision of a token), builds a `ReadContext`
and asks the authorization engine, whose engines read tuples from the
repository at that one revision, usually through the cache decorator. There are
no background threads, no messages and no callbacks inside the library: what
is concurrent is concurrent because several threads or processes call it, and
they share the database, the cache and, in one process, the registry.

What is hard here:

* **writers that race** in an SQL database: look-up, allocation of a revision,
  claim, changes and commit are separate statements, and the whole is retried;
* **tokens** that are read after the fact, in another transaction;
* **watch** and **reads** made of two statements, or suspended between two
  elements, while writers commit;
* **faults**: an `OperationalError`, a lost answer to COMMIT, an exception that
  is no `Exception`, a batch that raises half way, a failing cache;
* **caching** with a fill in two steps, buckets shared between filters, a server
  that outlives the process and rules that outlive their schema;
* **bindings** per thread that are taken back out of order, or by another thread;
* **recursion** under cycles, a depth limit and exclusions, in three engines
  that walk in three directions and must agree;
* **schemas** that change under stored tuples and compiled models.

`PROJECT.json` lists the single hazards under `hazards`, each at its line with
the properties that would catch it.

## 2. The modules

```
Mutations ─┬─ RelationRows ─ SqlReads ─┬─ SqlRelations ─ SqlRelationsProofs
           │                           ├─ SqliteRelations ─ SqliteRelationsProofs
           │                           └─ SqlReadsProofs   (both proof modules extend it)
           └─ MemoryRelations ─ MemoryRelationsProofs
                 (SqlReads and MemoryRelations: Store == INSTANCE RevisionedStore WITH ...)

LruStore ─ RedisStore ─┬─ CachedRelations ─ CachedRelationsProofs   (over what RevisionedStore promises)
          TupleFilters ┘

SubjectValues ─┬─ CompiledModel ─┬─ CheckEngine ─┬─ Client ─ ClientExpansions ─┬─ AuthorizationEngine
               │                 │               ├─ ExpansionEngine ─┘         │
               │                 │               └─ LookupEngine ──────────────┘
               │                 └─ SchemaDsl   (the schemas of MCAuthorization and MCLookup)
               └─ ExpandedSubjects   (in ExpansionEngine)
                 (ClientProofs extends ClientExpansions;
                  LookupProofs extends AuthorizationEngine and ClientProofs)

EngineBinding ─ FlaskBinding ─ FlaskBindingProofs
```

`RevisionedStore` is the abstract specification of a repository: per tenant a
head, an immutable snapshot for every revision, and the changes of each. Its
one action commits the next revision with changes that are real: what is written
was absent, what is deleted was there. There may be none of them: an SQL UPDATE that
matches no row leaves a revision without changes. The
three repositories implement it (`ImplementsStore`), by the mapping that reads
head, snapshots and changes out of their tables or dictionaries; an action of
theirs is a commit or a stutter. `CachedRelations` is built on top of what it
promises, instead of on one backend.

### Correspondence

* **Mutations, RelationRows.** A batch is a sequence of `[tuple, op]`; a tuple is
  an opaque value. `op = "bogus"` is an operation that is neither WRITE nor
  DELETE, which the repositories refuse only when they reach it. A row is one
  visibility window `[tenant, tuple, created, deleted]`; `Null` (0) is SQL NULL,
  as revisions start at 1. `VisibleAt` is the WHERE clause of a snapshot read.
* **SqlReads.** `rows` and `revisions` are the committed tables. A reader is a call
  of the client: `StartCall` chooses a consistency policy (`full`, `fresh` and
  `exact` for `FullyConsistent`, `AtLeastAsFresh` and `AtExactRevision`) and, for the
  last two, a token, which may be one of another tenant (`ForeignToken`).
  `Resolve` reads the head and pins one revision, and then every read is two
  steps: the check that the revision is not in the future, and the SELECT.
  `ReadsPerCall = 2` reads stand for the many of an evaluation, and for the
  several checks that `get_permissions` makes at one token. `RefuseCall` is
  the refusal, of a token of another tenant, or of a revision still to come, at the
  head or at a read. A watch is the call and two
  SELECTs. Each step sees what is committed when it runs. `floor` and `start`,
  the heads when a call and a watch began, are history.
* **SqlRelations.** A call of `write` is a process. `pc` names the statement it is
  at: `lookup` (`_active_tuple`), `allocate` and `claim` (the two statements of
  `_ensure_write_revision`), `apply` (INSERT or UPDATE), then COMMIT, or `head`
  for a batch that changed nothing. What an open session has done is in
  `revision`, `inserted`, `ended`; `Rollback` forgets it. Uniqueness is the
  database's: `Waits`/`ClaimConflict` for the primary key of `revisions`,
  `InsertConflict` for the partial unique index on active rows. `CloseRow` does
  not look at the row count, as the code does not. `TransientError`,
  `CommitLost` and `Abort` are the faults. `floor` is a history variable.
* **SqliteRelations.** One connection per process; `BEGIN IMMEDIATE` takes the
  file's write lock before anything is read. `Interrupt` is a
  `BaseException` outside `except Exception`, or a COMMIT that raises in the
  `else` branch: the transaction stays open, and `Close` is what ends it.
* **MemoryRelations.** The class is documented as not thread-safe, so a call is
  one step; `watch` is a lazy generator, so it is suspended at each element
  (`ResumeWatch`). `EnsureTenant`, `WriteNothing` and `WriteUnknown` are the
  ways a write ends without a revision.
* **LruStore, RedisStore, TupleFilters, CachedRelations.** An LRU store is the
  sequence of its entries, least recent first; get and set are one step each
  (they hold the lock). A Redis server is a set of entries that expire, one
  command a step. `kind` is the cache that is configured. A read of a bucket is the
  cache lookup, the read of the backend, the fill and the return, with other
  threads' steps, commits and the clock in between. `GetFails` and `FillFails`
  are a cache that raises; `DeleteCorrupt` is the DEL that follows a payload
  `decode` refuses; `ServerEvicts` and `Overwritten` are what a server and its
  other users do; `Restart` loses the in-process cache, and an in-memory
  backend with it. Keys are tuples where the code joins strings with `:`, which is
  exact as long as tenant ids hold no `:`. A Redis cache over an in-memory
  repository is not among the setups: its keys would outlive their revisions.
* **CompiledModel.** A schema maps a namespace to its names, each with a rewrite
  rule and its allowed subjects. `ValidSchema` is the registry's whole
  validation: rewrites refer to names that exist, userset subjects and arrows
  are defined on every possible target. `Defines`, `AllowsStored` and
  `AllowsArrow` are the questions engines ask of a compiled model. Rules come from a
  set `Rule` in which none is nested in itself (`RuleAssumption`): they are frozen
  dataclasses, built from parts that exist already. `RulesOf`, what is nested in a
  rule, is the least set closed under `Parts` instead of a recursion.
* **CheckEngine.** A `Call` is a call of `_evaluate_rule`: the rule, the key it
  rewrites, and `ask` with the subject, limit, depth and the visited keys of the
  path. `EvaluateRule` is one call, given the answers of the calls it makes, and
  `Answers` the recursive function over all calls. `Some`, `Every` and `ButNot` are
  the three-valued union, intersection and exclusion. Short circuits are left out:
  they decide no answer.
* **LookupEngine.** What is looked up is a ref (a relation of a namespace); what the
  walk goes over are nodes (subjects that tuples can have). The static half is a
  function of the compiled model: `Leaves` (the computed and arrow rules nested in a
  rule, and how deep), `DependenciesOf` a ref, and two worklists, `Reachable` and
  `Crossed`, each as the rounds of `Spread`. From these follow `UsesComplexUserset`
  and `NeedsFilter`, which decides whether what is found is checked one by one.
  `LookupDirect` is the backward walk from the subject and its wildcard: `Met` gives
  the nodes met level by level, each with its least depth, which is what the code's
  worklist settles on in whatever order it is worked; `Confirmed` is the check by
  which a node of a relation that is not its own tuples is let in. `LookupRule` is
  one call of the fallback by rewrites, given the results of the calls it makes, and
  `Resources` the recursive function over all calls. `LookupArrow` starts each target
  with a fresh stack, as the code does, so that only the depth limit ends it.
* **ExpandedSubjects, ExpansionEngine.** Values `[finite, wildcards]` with
  exceptions per wildcard, normalized after every operation. The code raises
  `_ExpansionIncomplete` from a cut-off branch inside a subtraction; the model
  carries a `complete` flag and lets the exclusion ask. Members are put in the
  place of their userset only under intersection and exclusion. As in `CheckEngine`
  a single operator is one call, given the results of the calls it makes, and
  `Expansions` is the recursive function over all calls: those that evaluate a rule
  (`RuleCall`) and those that `_materialize` a userset (`MemberCall`). The code
  raises for a relation that is not defined; no edge leads to one (`EdgesDefined`).
* **Client.** The state machine around the engines: `Register`,
  `Update` (all-or-nothing validation of the resulting registry), `NewEngine`
  (compile a snapshot), `Write` and `Delete` with the client's validation
  against the *live* registry. Tuples of an earlier schema stay stored. When an
  engine is built, the rule cache may hold any subset of the rules of any schema
  (`RuleCaches`): it is keyed by namespace and name alone, is shared and
  outlives engines; `CachedRewrite` is what the compiler takes from it. `Grants` is
  what a schema means: one step from a rule at a key (a node) to those it rests
  on, given what is known to hold and what may hold. `Stages` repeats that step
  from nothing known, and `CheckExact` compares a check at the depth limit with
  what is settled after as many steps. A node that rests on itself is never
  settled, nor is an exclusion with such a base, whatever it takes away: the
  engine does not ask for the subtrahend before the base has answered.
* **ClientExpansions, AuthorizationEngine.** The client with its expansions, then with
  lookups too, and what the three engines must have in common. They answer to the
  checks: `ExpandMatchesCheck` and `LookupMatchesCheck` compare their results with
  what a check allows.
* **SchemaDsl.** The definitions that `NamespaceBuilder` makes of operands and
  subjects, as operators; the schemas of the runs are written with them.
* **EngineBinding.** `_engine_ctx` of `engine_integration.py`: every thread has its own value,
  and a reset token gives back the value it replaced, in that thread only.
* **FlaskBinding.** One `Zanzibar` object. `InitApp` is the whole of `init_app`:
  state, keys, default (only while there is one app), reset of the former
  default's token, handlers. `InitAppRaises` is the same call where
  `ContextVar.reset` raises, because the default was bound by another thread: the
  app then has its state and not its handlers. `PushContext` and `PopContext`
  are the handlers; contexts are popped last in, first out, by the thread that
  pushed them, as Flask does. A context of an app without handlers binds nothing, and
  mixins in it see the default. Disconnecting the handlers of an app that is
  initialised again is part of replacing them. An engine has a number, so that the
  engines of one app are told apart.

Every definition that stands for code is listed in `PROJECT.json` with its lines.
Definitions named "Mutant" in a comment are plausible slips in that code; no
specification uses them. Each property of a passing run is broken by at least
one of them.

## 3. The runs

| run | configuration | what it asks |
|---|---|---|
| `sql_writes` | MCSqlWrites | three racing calls of `write` in a tenant: dense revisions, exclusive claims, disjoint windows, one revision per commit, fresh tokens, every mutation held at some revision of the call; and every call returns or raises |
| `sql_reads` | MCSqlReads | two writers, a call of the client and a watch in two tenants: snapshots are immutable, the reads of a call are at one revision its policy allows, a watch covers what was committed before it began, the whole implements `RevisionedStore` |
| `sqlite` | MCSqliteRelations | two connections and a client, with an interruption: what writes promise, immutable snapshots, one revision per call, refinement |
| `memory` | MCMemoryRelations | the dictionaries agree, a write holds at its token, a watch replays to the state at its end, refinement |
| `cached` | MCCachedRelations | reads through either cache are exact at their revision, entries stay coherent, none is served expired, a fill survives its own eviction |
| `authorization` | MCAuthorization | check is exact at the default limit and forgets at smaller ones; schemas stay valid, and an engine serves the registry's rules, whatever the rule cache holds; a write never revokes where nothing is excluded |
| `lookup` | MCLookup | lookups and expansions agree with checks at every limit |
| `flask` | MCFlaskBinding | mixins resolve the app of their context, and nothing is left bound outside of contexts, if apps are initialised outside of contexts |
| `sql_noop_token`, `sql_torn_watch`, `sqlite_open_transaction`, `flask_nested_init` | the findings of section 6 | each finds the behaviour it is named for |

### Bounds, and why they are enough

* **Writers**: three calls in one tenant in `sql_writes`. Two
  are needed for each race; the third lets a waiter find its revision taken
  *after* the holder committed and another claimed, and uses up an attempt.
  No symmetry is used there, as it checks liveness. In `sql_reads` two writers
  and two tenants show that tenants share nothing; calls, and tenants, are
  interchangeable.
* **Batches** of `sql_writes`: two touches (in the order opposite to another call's
  delete-and-touch), a replacement, a refused second mutation, a conflicting
  batch. Two tuples: more only repeat a row of the index.
* **MaxFaults = 1** in `sql_writes`: a fault at any one statement of any call, its
  retry included; faults are independent, a second one spends another of the three
  attempts. The third attempt is reached by conflicts and one fault together.
* **Client calls**: every policy, with every token of either tenant from 0 to one past
  its head, so each policy meets a token that is old, current, still to come, and of
  another tenant; two reads
  are what it takes for a commit to fall between them.
* **SQLite**: MaxWrites = 3, so that an interrupted write, a refused one on the
  same connection and one after it is closed fit in a behaviour.
* **Memory**: MaxRevisions = 3: a watch that starts before the first change and is
  resumed between any two others.
* **Cache**: MaxEntries = 1 makes every second fill evict; MaxHead = 1 gives two
  revisions of each tenant; MaxClock = 1 with Ttl = 1 has an entry expire exactly
  at a tick. Contents are two overlapping sets of tuples, so a bucket of the
  wrong revision, relation or subject form is a different set. Two threads and two
  tenants, symmetric.
* **Flask**: two threads, three apps, three calls of `init_app` (three apps, or one
  twice, in one thread or in both), three contexts in a thread: a third app tells
  "the only app", "the second" and "any later one" apart, and a third context is
  the first whose pop restores a binding that was itself restored. `InitDepth = 0`
  keeps `init_app` out of contexts, `InitDepth = 1` in `flask_nested_init` lets it in.
* **Schemas and tuples**: five definitions in `authorization` (membership, an
  inherited permission with an exclusion, an exclusion that depends on itself
  through parents, an intersection without exclusion, one the registry must
  refuse) and five in `lookup` (groups by tuples only, groups that are a union
  less somebody, groups that are an intersection, docs that inherit, docs that
  oppose their parent). The ten, or nine, tuples of the pool close a circle of
  groups and a circle of documents. Every subset of the pool that clients can
  store is reached under every schema it can be stored under.
* **Depth**: MaxDepth = 25 is the code's default, which no check of four objects
  reaches, and which alone ends a lookup of arrow targets around a circle of
  parents. In every state of the run all that can be settled is settled in fewer
  steps, so that `CheckExact` speaks of every answer. `Shallower = {1, 3, 4}` are limits that cut off at each kind of edge,
  before and after a rewrite.

A run says `CHECK_DEADLOCK FALSE` where the system may stop: every call has
been made, every write bound is reached.

### Fairness

Only `sql_writes` checks liveness (`WriteTerminates`). `FairSpec` has weak
fairness of `Step(c)` for every call: a thread inside `write` is scheduled, and
the database answers its statements. Weak fairness is enough because a
statement that waits for another session is enabled, and stays so, once that
session ends. (In a tenant no two sessions wait for each other: whoever inserts rows
has claimed a revision first, and the claim is exclusive, so the unique index of
active rows never has to make a second session wait.) Nothing is assumed of faults, of the start of calls, or of readers.
The other modules have no step that anything waits for: a read, an `init_app` or
a check is a finite number of steps of its own thread.

## 4. What is proved

For every value of the constants, with the assumptions named in the modules
(batches are sequences of mutations, bounds are natural numbers, `Forever` is no
time, `None` no engine, a payload that does not decode, `Corrupt`, no set of
tuples, no rule is nested in itself, no relation is named by the mark of a direct
subject, and what a client is given are schemas of finitely many namespaces and
names, and tuples over the names there are):

* `SqlReadsProofs` — what the two SQL repositories share: whoever writes the tables,
  if every change of them is a `Commits` — the next revision of one tenant, rows
  inserted and closed at that revision, nothing else — then windows stay disjoint
  and within the head (`TablesInv`), what a revision shows never changes, a commit
  is a step of `RevisionedStore`, the reads of a call stay at a revision its policy
  allows, and its token is of its tenant (`ReadInv`), and the SELECTs of a watch cover what was committed before it
  began (`WatchInv`). The two modules that follow owe it one thing each: that
  their writers commit in this way and in no other.
* `SqlRelationsProofs` — **TypeInvariant**, **DenseRevisions** and
  **WritersSerialised**. Density and exclusivity need each other, and neither is
  inductive. The inductive invariant `ClaimInv` adds that a candidate which a session
  is about to insert is at most one past the head (`CandidateBound`: the head may
  have grown since it was read, never shrunk), so a candidate that is not yet
  committed and not held by another session is exactly the next revision, and what an
  open session's `inserted` and `ended` may hold (`SessionInv`): nothing but
  tuples of its batch, none inserted that is active, none ended that is not. The
  exclusive claim keeps others from committing to the tenant meanwhile, which is
  what makes a COMMIT a `Commits`. From there **DisjointWindows**,
  **SnapshotReads**, **OneSnapshotPerCall**, **WatchesCover** and
  **SqlImplementsStore** follow by the shared argument; **FreshTokens**, that
  `floor <= token <= head` for calls that commit and calls that do nothing, by
  `TokenInv`.
  For the callers of `write`: **CommitsKeepApart**, no two calls share a revision, and a
  revision holds exactly what its call did (`RecordInv`), and **MutationsHeld**, every
  mutation of a call that returned held at some revision between the head when it
  was called and its token (`HeldInv`, which follows a skipped mutation from the
  look-up that skipped it).
* `SqliteRelationsProofs` — **SqliteTypes**, **SqliteWindows**,
  **SqliteSnapshotReads**, **SqliteOneSnapshotPerCall**, **SqliteWatchesCover**,
  **SqliteImplementsStore** by the same argument, **SqliteWritersSerialised**: at most
  one connection is in a transaction, also after an interruption has left one
  open; and **SqliteWritesHold**: a write that committed holds as a whole at its
  token, one that changed nothing held at a revision it saw. `ConnInv` says of
  every connection that what it has staged is what a COMMIT would apply to the
  tables as they are (`Staged`, interrupted or not), that the mutations it has
  dealt with hold in what its transaction sees (`Working`), and that a batch which
  changed nothing held when it looked (`Waiting`). `TypeOK` alone says nothing of
  an open transaction; `WriteHolds` alone speaks of it only once it is over.
* `MemoryRelationsProofs` — **DictionariesTyped**, **LiveTuplesAreHead**,
  **TokenPinsWrite** and **MemoryImplementsStore**, from
  `MemoryInv == TypeOK /\ LiveIsHead /\ ChangesWithin /\ ResultHolds`: the change log
  never runs ahead of the head, and the last result stays true until the next.
  **WatchesReplay**: a watch that has ended yielded changes that lead from the
  snapshot it started after to the snapshot it ended at. `ReplayInv` joins
  `ChangesTellSnapshots` — the log of a tenant is sorted by revision, each change in
  it is real when it is replayed, and the changes up to a revision lead to its
  snapshot — with `WatchInv`: a suspended generator has yielded precisely the
  stretch of the log between its `after` and where it stands. Replaying is defined
  in closed form (`Replay`: the last change of a tuple decides), so no induction over
  the list is needed; that a log may be cut anywhere, and one stretch replayed
  after the other, is `ReplayStretch`.
* `CachedRelationsProofs` — **ReadsThroughCache**, **EntriesCoherent**,
  **HitsAreLive** and **FillsStick**, for any capacity, TTL, threads and tenants.
  `CacheInv == Histories /\ Stores /\ Calls`: every entry of either store is filed
  under a snapshot that exists and is the bucket of its key, unless it does not
  decode, and every call under way carries what its place in the code promises.
  The lemma it rests on is `BucketAnswers`: a filter answered from its bucket gives
  what the filter gives. **StoresBounded**: whichever store is in use holds at most
  one entry for a key and never more than its capacity, though a set first inserts
  and then evicts (`SizeInv`, which also keeps the store that is not configured
  empty).
* `ClientProofs` — for any namespaces, names, ids, definitions, tuples and rules, of any
  size and nesting. **SchemasStayValid** needs the shapes of registry and model
  beside it (`Typed`): whatever a rule cache holds, a new engine gets exactly the
  registry's rules (`CompiledIsRegistry`), which is also **EnginesServeRegistry**: a
  stale rule does not get into a model that it would leave valid, either. **NoEdgeDangles** follows from the validity of
  the model alone, whatever is stored. The theorems about checks rest on an order
  of calls: a call made is deeper, and beyond the limit it is of a part of the
  caller's rule (`Below`), so any set of calls has one that makes none of the others
  (`Deepest`). With it the recursion is shown to have a solution, which is what
  `Answers` is (`Evaluated`: attempts on sets closed under `Below` agree, and every
  call is in one). Then, each time by the deepest call that would refute it:
  **LimitFailsClosed**, where calls at the same place under a smaller limit answer
  the same or `Unknown` (`TwinsAnswer`, as all three connectives are monotone in what
  is known); **ChecksAreSound**, a check allows only what the schema grants, and
  denies only what it cannot: `Must` and `May` are the least solution of `Grants`
  (`LeastIsClosed`), so neither a cycle nor the limit ever invents an answer, under any
  nesting of exclusions; **CheckIsExact**, the converse (below); and **WritesOnlyGrant**, by `AllowedBecause`: a call of a
  rule without exclusions that is allowed has calls below it that are, for reasons
  that stay when tuples are added.

  For **CheckIsExact** the stages must first be shown to be what their recursive
  definition says (`RunExists`, `StagesFollow`: every finite run of stages exists and
  any two agree; `Least` takes the place of induction) and to lose nothing from one
  to the next (`StagesRise`). A node settled at stage i is settled by nodes of earlier
  stages (`NextStage`, `FirstDecided`). A call is `Able` to go i levels when the limit
  leaves it that many and none of the keys being evaluated is settled before stage
  i: so the nodes that settle it are none of those keys, cycle detection does not
  cut them off, and their calls are `Able` for the earlier stage (`PartsAble`,
  `KeysAble`). Hence `AnswersAreRight`, by the least stage that would refute it. That
  nothing is answered when nothing is left to settle is `AnswersAreSound` for
  the stage itself. Validity of the compiled model is needed, or a key could be
  answered `Unknown` for want of a definition (`RestsOnDefined`).
  The second half of the module is about expansions. First the algebra behind expand,
  which computes the sets it stands for: **EitherMeansOr**, **BothMeansAnd**, **WithoutMeansNot** on concrete
  subjects, with any wildcards and exceptions on both sides; **AlwaysNormal**, the
  condition the difference needs; **RenderedMeansSame**, that turning a value into
  a `SubjectSet` and back loses no concrete subject. Then the engine itself:
  **ExpansionsAreExact**, for any schema, tuples, nesting of usersets and depth limit.

  The calls of an expansion end as those of a check do, but not in the same order: a
  member call is made for what another call *returned*, and goes two levels deeper.
  `Steps` bounds how much deeper a call can go, `Innermost` finds in any set of
  calls one that makes none of the others, and as a call depends on the results of
  those it makes alone (`OneCallLocal`), from it follows `ExpansionsEvaluated`: every
  call has the result that `_evaluate_rule` or `_materialize` makes of the results
  below it, and that result is a finite set of known subjects (`Shaped`). The
  stored tuples are finitely many (`FiniteTuples`, an invariant of `Spec`: a client
  writes one at a time), so unions and intersections over children, targets and
  members are folds over finite sets, which with the algebra mean "some" and
  "every".

  What a result says of a subject is `Tells`: it names nobody of whom the schema
  does not grant it (`must`), and if it is complete it names everybody of whom it
  could (`may`). `OneCallTells` carries this through one call of each kind, the
  subtraction included, where the completeness of the subtracted side is what makes
  "names nobody else" safe; `ExpansionsTell` through all, by the innermost call that
  would refute it. It needs a `must` and a `may` that one more step changes nothing of
  (`Fixed`), that is, a stage where nothing moves any more, and `CheckIsExact` says
  that this stage is what the checks answer. Where the limit is too low for that,
  an expansion may well name somebody a check is cut off from: a userset kept as it
  stands costs the expansion nothing and the check a level.
* `LookupProofs` — **LookupsAreExact**: a lookup lists the objects that a check allows,
  and no other, for any schema, tuples, nesting of exclusions and depth limit. It
  needs the shapes of the state (`Typed`) and a valid compiled model, no more.

  The recursions come first. `Recursion` says that a function which calls itself only
  along a well-founded order exists and is unique; with it `Leaves`, the rounds of a
  worklist and the levels of a walk are what their definitions say, and a worklist of
  finitely many refs closes (`SpreadCloses`). The calls of a lookup end for the reason
  those of a check do (`LookupsEvaluated`).

  Lookups and checks are then held against each other call by call: a check call
  `Mirrors` a lookup call if it evaluates the same rule, for the same subject, at the
  same depth, on an object of the ref, and has visited at least what the lookup has
  there. `LookupsAgree` says that what a mirrored check
  allows is found, and what it denies is not. The two need each other, because an
  exclusion turns one into the other; a mirrored check that answers `Unknown` binds
  neither. The walk has a half of its own for each:

  * it misses nothing (`WalkMisses`, `WalkCompletes`): what a check allows by a userset
    arrives at that userset, from its `Leaves`, within the depth the check took
    (`OffersArrive`), since no step of the walk costs more than the calls it stands for;
  * it invents nothing (`MetHeld`, `DirectHolds`): of what it finds no check at this
    place is denied, since every node met is one that the schema grants the subject
    (`Must`, from the theorem that checks are sound).

  So where `NeedsFilter` says so, what is found contains what checks allow, and the
  filter by checks leaves exactly that. Where it does not, nothing the lookup crosses
  has an exclusion or a userset that is more than its own tuples (`Simple`), and no
  check is made: `LookupsTrusted` gives a check call that allows, but one that has
  visited nothing, and the real check has visited its own key. `BareEnters` closes
  the gap: in rules without exclusions a proof that comes back to its own key
  contains, from its deepest return on, one that does not (`AllowedAlongside`).
* `FlaskBindingProofs` — **TypeCorrect**; and **CurrentAppResolved** and
  **NothingLeftBound** under `InitDepth = 0`. `Inv == TypeOK /\ Unwinding /\ DefaultInv`:
  popping the contexts of a thread from any height restores, one after the other,
  engines of the apps below, down to the default or nothing. It is false at
  `InitDepth = 1`, which is the finding `flask_nested_init`.

## 5. What is only model-checked

* Liveness (`WriteTerminates`), which the prover does not handle. Every other property
  of a passing run has a theorem.

## 6. Where the code and its words differ

* `sql_noop_token` (`WriteVisibleAtToken`). A mutation that is already satisfied is
  skipped before the transaction has claimed a revision, and a batch that changed
  nothing takes the head as its token in a new session. Another writer may undo
  the skipped mutation in between: the token then pins a snapshot without the
  write. What does hold is `MutationsHeldDuringCall`.
* `sql_torn_watch` (`WatchWhole`). `watch` reads created rows, then deleted rows. A
  revision committed between the two is delivered as its deletes alone; a
  consumer that resumes after it never sees its writes. What does hold is
  `WatchCovers`: everything committed before the watch began is delivered whole.
* `sqlite_open_transaction` (`HeadIsCommitted`). A `KeyboardInterrupt` (or a COMMIT
  that fails) leaves the connection inside its transaction; `head_revision` on it
  then answers a revision that was never committed. This run alone looks through
  such a connection: `ReadIsSnapshot`, `CallReadsOneSnapshot` and `ImplementsStore`
  are about the committed tables, which is what every other connection reads.

* `flask_nested_init` (`MixinsResolveCurrentApp`). When a second app is initialised
  while a context of the first is pushed, `init_app` resets the default binding to
  what it was before the first app, which also unbinds the engine of the
  context: mixins in it raise from then on. `integration/flask/__init__.py:116` says
  the engine is rebound for each app context "so mixins resolve the correct app".

Not a run, and worth knowing: where an exclusion subtracts something that is
truncated, `expand` names nobody though `check` may allow (documents d and e are
each other's parent, `view = viewer - parent->view`, d has no viewer: check
allows everybody on e, expand answers the empty set). It fails closed.
`ExpandMatchesCheck` therefore asks for equality only of complete expansions, and
speaks of subjects whose checks the default limit is enough for (in every state of
the run `lookup` it is, for every subject).
Going through a userset also costs two levels of depth when expand puts its
members in its place and one in check.

## 7. The plan

Done: the repositories and their contract, calls of the client under every
consistency policy, both tuple caches, schema and rule caches, the three engines
and the registry around them, the bindings of the mixins and of Flask, the proofs
of section 4.

Left, in this order:

1. **Watch consumers**: a consumer that resumes from the token of the last change
   it saw, over the SQL and memory repositories. `sql_torn_watch` says what it
   would miss.
2. **The engines over a store that moves**: an engine whose reads are the calls of
   `SqlReads`, instead of one set of tuples. By `OneSnapshotPerCall` every evaluation
   sees one snapshot, so this would show no behaviour that the runs do not.

## 8. What is not modelled, and why

* Strings: parsing, formatting and validation of identifiers, `to_dict` and
  `from_dict`, descriptions, the debug trace, `diff_namespaces`, the order of answers.
  Sequential, stateless, and no property tells them apart.
* The bytes of the cache codecs: a payload decodes or does not.
* Eviction and expiry inside the compiled-rule caches: that of the tuple caches, and
  a rule cache with arbitrary contents covers it.
* A registry that two threads change at once (`schema/registry.py:55`): the last one to
  put its copy in place wins, and nothing says that it should not.
* The pending list of `SchemaBuilder` and its shared default registry: one thread
  builds a schema while a program starts.
* The decorators and the Flask proxy: they look up the binding and delegate.
* Several `Zanzibar` objects on one app, and asyncio tasks, which copy the binding of
  the task that creates them.
* Schema creation, `ping`, and isolation levels above READ COMMITTED, which allow
  fewer behaviours than those checked.
* The examples: they show how the library is used.
