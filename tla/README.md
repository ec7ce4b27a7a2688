# A TLA+ verification of vgi-symbols

`vgi-symbols` symbolicates stack frames in SQL. A row carries the build-id of a
module and a module-relative address; the worker finds the debug file of that
module in the registered sources, parses it once, keeps it in a bounded cache,
and answers with the inline chain, function, file and line. This directory
models that program in TLA+, checks it with TLC on small instances, and proves
parts of it with TLAPS. `PROJECT.json` maps every definition to the lines it
models.

## 1. Inventory

All paths are under `src/crates/`; `core` is `symbols-core/src`, `worker` is
`symbols-worker/src`.

| Component | Source | State | Operations |
| --- | --- | --- | --- |
| module cache | `core/cache/mod.rs` | LRU of parsed modules, alias map, manifest entries, negative set, byte counter, parse counter | resolve, insert (with its eviction loop), record_miss, evict, status, to_manifest, rehydrate |
| manifest | `core/cache/manifest.rs` | entries, sources and origins, serialised | to_bytes, from_bytes |
| source registry | `core/source/mod.rs`, `local.rs` | ordered sources, id counter, token index, set of walked sources | add, drop_source, ensure_indexed, locate, restore; index_dir, index_glob, expand_braces |
| state machine | `core/state.rs` | registry + cache + limits | resolve / function_name through ensure_resident, add_source, drop_source, cache_evict, export_manifest, import_manifest |
| identity | `core/id.rs` (and `module/pdb.rs`) | none | debug-id, raw build-id, aliases, canonical_token |
| frame resolution | `core/module/*.rs`, `frame.rs` | a parsed module | parse, probe_identity, info; resolve, function_name |
| demangling | `core/demangle.rs`, `worker/scalar/demangle.rs` | none | demangle |
| errors | `core/errors.rs` | none | the kinds an operation fails with |
| worker | `worker/state.rs`, `scalar/*`, `table/*`, `util.rs` | one global mutex around the state machine | scalar functions per batch of rows, table functions |
| registration | `worker/main.rs`, `catalog.rs`, `meta.rs`, `schema.rs` | none | declarations |

**Interactions.** A scalar function takes the global mutex for a whole batch and
looks up each row. A lookup asks the cache; on a cold token that is not a known
miss it asks the registry, which walks the sources it has not walked yet,
indexes their files, and reads the file indexed for the token; the state
machine parses it, inserts it into the cache (which evicts others), and looks
up again. Table functions take the mutex for one operation and emit their
result later. The manifest carries entries and sources from one process to the
next; the worker itself never exports or imports it, only the library's API and
tests do.

**Hard behaviours.** Files that share identifiers (PE image and PDB, PDBs of one
GUID and two ages) and evict each other; the negative cache against sources and
files that come later; a disk that changes between walk and read; a byte
counter kept beside the LRU; panics of parser libraries under the mutex; a
process that dies between two exports; the identity of a PDB, derived by one
function for the probe that indexes a file and by another for the parse that
caches it; caps that end a
walk of files or of compilation units in the middle; and the boundaries of the
inline walk and of the address range. The `hazards` of `PROJECT.json` list them
by line.

## 2. Modules

| Module | Models | Extends |
| --- | --- | --- |
| `Ids` | what the rest of the system assumes of identity: tokens, debug-ids, aliases | |
| `Identity` | how id.rs and pdb.rs derive those from the headers of a file (`DerivationMeetsIds` closes the gap) | |
| `SymbolCache` | the cache under an arbitrary client | `Ids` |
| `SourceRegistry` | the registry and its index over a changing disk | `Ids` |
| `SymbolsState` | both, composed by ensure_resident / resolve | `SymbolCache`, `SourceRegistry` |
| `Library` | what the state machine promises, without cache, index and lock | `Ids` |
| `FrameResolve` | one resolve and one function_name call on a parsed module, for one cell of the address column | |
| `ModuleParse` | parse, probe_identity and info of one debug file, part by part | |
| `SourceWalk` | the walk of one source: a directory tree or a brace pattern | |
| `Worker` | concurrent SQL calls behind the mutex | `SymbolsState` |
| `SequenceLemmas` | facts about sequences, sums, sorted orders, least and greatest elements, for the proofs | |
| `SymbolCacheProofs` | theorems about `SymbolCache` | `SymbolCache`, `SequenceLemmas` |
| `SourceRegistryProofs` | theorems about `SourceRegistry` | `SourceRegistry`, `SequenceLemmas` |
| `SymbolsStateProofs` | theorems about `SymbolsState`, and that it implements `Library` | `SymbolsState` and the two above |
| `WorkerProofs` | theorems about `Worker` | `Worker`, `SymbolsStateProofs` |
| `ModuleProofs` | theorems about a parsed module | `FrameResolve`, `ModuleParse`, `SequenceLemmas` |
| `IdentityProofs` | theorems about `Identity` | `Identity`, `SequenceLemmas` |
| `SourceWalkProofs` | theorems about `SourceWalk` | `SourceWalk`, `SequenceLemmas` |
| `MC*` | the instances for TLC | their module |

Definitions are named after the functions they model. A definition whose
comment begins with "Mutant of" is a deliberately wrong variant, not part of
the model: `PROJECT.json` names, for every checked property, the mutant that
must violate it.

**State and actions.** `SymbolCache` has the fields of the struct as variables
(`resident`, `aliases`, `entries`, `negative`, `resident_bytes`,
`parse_count`), the last exported `manifest`, and `evicting`, the program
counter of insert's loop. `SourceRegistry` has `sources`, `next_id`, `index`,
`indexed`, and the `disk`. In `SymbolsState` a lookup is a sequence of steps
(`call.pc`): the lock keeps other calls out, while the disk may change, a
parser may panic and the process may end between two steps. The result of the
last lookup is kept in `answer`, as the image it was answered from, not_found
or an error. `Worker` adds the mutex, its poison flag and each client's call:
its arguments (some of which are refused before the lock is taken), the row a
batch has come to, and the values so far. `demangle` takes no lock; `sources`
and `cache_status` take a snapshot under it and filter that later.

`ModuleParse` has an operation (`op`, a probe or a parse, in either order), the
parts of the file it has still to read (`todo`), what the readers answered to
each part (`read`), the walk of the compilation units with its cap (`seen`,
`stats`), and the `outcome` of both operations. The steps of the probe and of
the parse of a PDB, and the identity each derives (`pdb_identity`,
`PdbModule_identity`), are separate definitions, as `module/pdb.rs` has them in
separate functions. `SourceWalk` has the pattern under expansion (`rest`,
`group`, `depth`, `words`), the directories still to be listed (`stack`), the
entries of the current one (`listing`), and what was `visited` and `found`.
`Identity` derives the keys of a file and of a frame and looks the one up under
the other.

**Sorts of behaviours.** An instance may check several modules: its
specification then has several sorts of behaviours, each of which runs one
module and leaves the variables of the others at rest. `MCSymbolCache` runs the
cache under an arbitrary client, or the state machine over fixed sources and a
fixed disk (`FrozenNext`); `MCSymbolsState` the state machine, or the registry
alone; their variable `part` says which. `MCFrameResolve` runs one of
`FrameResolve`, `ModuleParse`, `Identity` and `SourceWalk`, which are sequential
and share no variable.

**Refinement.** `SymbolsState` refines `Library` (`ImplementsLibrary`). The
mapping takes `held` to the images of the resident modules, `missing` to the
negative set, `reach` to the files some walk of a searchable source can meet,
`known` to the files recorded as origins in the entries, and `saved_reach`,
`saved` and `saved_known` to the same of the last exported manifest. What it
says is not visible in any invariant of the cache or the registry alone: a
module enters memory only from a file that is, at that moment, under a live
source or on record as an origin, with the content it has at that moment, and
never by an index that outlived its source; nothing is reported missing while
the module of that debug-id is resident; an error is reported only when such a
file cannot be parsed, and leaves nothing behind; evictions lose modules and no
origin, and a restart brings back what was exported. The library may read a
module again from its origin. The code never does: that is no matter of this
refinement, which is about what a module may come from, but of the run
`state_read_again`.

**Abstractions.** An image (the content of a debug file) is a model value with
a debug-id, a set of aliases and a size. Identifiers are model values with a
canonical form; `Identity` shows from small headers that the derivation gives
the properties `Ids` assumes. A walk of a source is a choice among the orders
in which a directory may list its files (`SourceWalk` has how they are found,
with the glob library as a table of what a word matches). Frames in
`FrameResolve` are names; the reader is an arbitrary iterator that may fail or
panic at each item. `Worker` and `SymbolsState` keep of a resolved row the
module it was answered from: what is made of the module is `FrameResolve`'s
subject.

## 3. Runs

Passing runs, one line for each sort of behaviours:

| Run | Instance | What it shows |
| --- | --- | --- |
| `cache` | four modules: a PE image and its PDB (one debug-id), a PDB of another age (common bare UUID), an ELF file as large as the byte budget; cap 2 | budgets hold on the real sizes, the counter never undercounts, the index stays closed and sound, entries are never lost, the module just inserted survives, a module that is evicted keeps its row count, eviction ends |
| `cache` (fixed sources) | the state machine with no source, one, or a disabled and an enabled one, over two files; all contents of the files, one image that does not parse | a lookup answers from the sources whatever was cached, evicted, missed or saved before (`AnsweredFromSources`); a lookup by debug-id does not parse a resident module again |
| `state` | two PDBs with a common bare UUID taking turns in one file, one source, every operation, a disk change, panics, restarts | no answer from a module the token does not name; resident modules can be found; every lookup returns; every step is one the abstract library allows |
| `state` (registry) | a directory walked in either order and a glob over one of its files, three sources, truncation at one file, one disk change | unique ids through restore, nothing served from a dropped, disabled or remote source, walks in order, first source wins |
| `frame` | all small symbol tables, all iterators of up to three items, address cells of both widths and signs, `u64::MAX` = 3 and `u32::MAX` = 1 | shape of the chain, nearest symbol, agreement of the two implementations of the innermost name, termination |
| `frame` (parses) | every answer of the readers to every part of a file, up to three units under a cap of two, two ages of a PDB | the probe and the parse of a file agree on architecture, debug-id, raw build-id and error; the statistics lie between those of the intact units and of all units walked; every parse ends in a module or an error kind |
| `frame` (identifiers) | all pairs of small headers of ELF, Mach-O, PE, PDB; a digit with an upper-case form and one without | a frame finds its file, different builds stay apart, keys are canonical |
| `frame` (walks) | a tree of two directories with a link, any of them unreadable; all patterns of up to five characters whose words overlap in a file; three files, a cap of two | a walk finds exactly the debug files of the tree, or of the meaning of the pattern, and stops at its cap |
| `worker` | two clients, every scalar and table function, refused calls, a five-row batch with null and unreadable rows over two modules in a cache of one | the lock is held by one batch, rows aligned, batches isolated from other calls, every call ends |

What three of these properties say, and what they do not:

- `AnsweredFromSources` does not say that the cache never changes an answer. A
  token two files share (a bare UUID) is an alias of the one parsed last, which
  earlier lookups and evictions decide; the answer is then a module that some
  source serves under the debug-id of a file answering to the token. Where the
  files for a token have one debug-id, the answer is of that debug-id.
- `ParseOnce` is about lookups by debug-id. A lookup by a shared alias may parse
  a file whose debug-id is resident.
- `CallsServed` and `CallsReturn` say that calls end and that a poisoned lock is
  taken again. A panic that is not caught (the probe of a file,
  `module/mod.rs:156`) ends its call, and with it every row of its batch; rows
  are isolated from each other's errors and misses, not from such a panic.

Runs that find a disagreement between the code and one of its comments or docs:

| Run | Says | Does |
| --- | --- | --- |
| `cache_needless_eviction` | modules are evicted until the budgets are satisfied (`cache/mod.rs:247`) | bytes of a module dropped at the module cap stay in the counter, so modules are evicted within budget |
| `state_late_source` | not_found until a matching source is added (`symbolicate.rs:56`) | a recorded miss stays one after add_source |
| `frame_midwalk_error` | a corrupt inline tree is marked as an error (`dwarf.rs:190`) | the frames so far are returned as ok |
| `identity_raw` | a frame's raw build-id is its debug file's (`id.rs:4`) | a PE image's raw GUID is in stored order, its PDB's in network order |
| `cache_rows` | `rows_resolved` is cumulative (`cache/mod.rs:61`, `table/cache.rs:72`) | an insert starts the count of its module at 0 again (`cache/mod.rs:225`), and the module the LRU drops at the cap loses its live count (`:231`) |
| `state_read_again` | an evicted module is read again from the origin in its entry (`cache/mod.rs:8`, `manifest.rs:18`, `state.rs:183`) | a lookup asks the negative set and the sources only (`state.rs:90-93`): an older miss of a shared UUID, or a dropped source, makes it not_found |
| `frame_physical` | the last frame is the physical one, and it alone is not inline (`frame.rs:44`, `module/mod.rs:94`) | a chain cut at `max_inline_depth` ends in an inline frame marked as the physical one (`dwarf.rs:207`, `pdb.rs:130`) |
| `worker_evict` | `debug_id =>` evicts one module (`table/cache.rs:199`) | the named argument is read by position, everything is evicted |

Smaller divergences seen while modelling, in the model and without a run of
their own: 8- and 16-bit address columns are read as null (`util.rs:43-48`)
where `util.rs:37` says "any integer width"; a lookup by an alias two files
share may parse a file whose debug-id is resident, and the file parsed last
answers, which need not be the first match (`source/mod.rs:3`); a compilation
unit that does not decode is passed over where `dwarf.rs:273` says "any decode
error stops the walk", and files named by two units are counted twice where
`dwarf.rs:272` says "distinct" (`StatsOfUnits` holds of either reading: its
bounds are what the comment promises and what the code adds up); a PDB is always
said to have a line table (`ModuleParse.PdbInfo`); the probe of a file does not
run under `catch_unwind` as its parse does (`module/mod.rs:156` against `:78`),
so a panic in it unwinds out of the walk that indexes the file.

`RowsKept` is what does hold of the row counts: only an insert lowers one, of
the module parsed anew or of the one the LRU drops, so that no eviction by the
byte budget, no evict call and no export loses any.

**Bounds.** `MaxParses`, `MaxRows`, `MaxSources`, `MaxDiskChanges` and
`MaxCalls` cap counters that only grow; each is large enough for the case at
hand to happen more than once (a module evicted and parsed again, a source
added after a miss, a file replaced after its walk, a call after a panic).
`MaxUnitCount`, `MaxSymbols`, `MaxWalk` and `MaxPattern` bound the inputs; each
exceeds the cap the code puts on it, or has room for a nested and an unclosed
group. Five characters do not reach a product of two groups of two plain
alternatives; that one is the theorem's (`SourcesAreFound`). In the run `state`
the state machine has one file and one source (`OneFile`, `OneSource`), enough
for two modules to take turns and for a source to come late or go early; the
registry's own behaviours have two files, two locations and three sources, of
which remote ones share a locator (`OneRemote`), since nothing reads it.
Four images cover every overlap two files can have (debug-id, bare UUID, none);
a cap of one or two modules makes inserts evict. A mutant of the code
must break every property under the same bounds.

**Deadlock.** Checked where the model can always move; switched off where the
counters end (`MaxParses`, `MaxCalls`), which is where a bounded model stops.

**Fairness.** The thread that holds the mutex goes on: weak fairness of the
steps of a lookup (`LookupStep`), of the eviction loop, and of `Serve`. A parse
and a resolution run to their end in one thread, hence weak fairness of their
next-state relations. Callers, the disk, panics and restarts have none. Each
client makes finitely many calls, so the unfair mutex of the standard library
is enough for `CallsServed`.

## 4. Proofs

Everything here holds for every value of the constants that satisfies the
named assumptions: any set of images, identity assignment, budgets, disk,
number of sources and order of a walk.

**Cache** (`SymbolCacheProofs`). `CacheInv` is inductive (`CacheInvariant`);
from it `CacheTypesAreKept`, `ResidentsAreIndexed`, `IndexIsClosed`,
`AliasesAreSound`, `EntriesAreMonotone` and `InsertedModuleSurvives`. A closed
index needs `ResidentIndexed` (an eviction folds its count into an entry that
must exist), that needs unique debug-ids in the LRU (a replaced module is the
only one under its debug-id), and the module cap needs that put makes room; so
they are proved together, with the types. There is a lemma for each list
operation of the LRU and one for each operation of the cache.

The budgets are a second invariant, `BudgetInv`: the counter covers the sum of
the resident modules, and outside the eviction loop it is within the budget or
one module is left. The sum is a fold over a set, in an order that is chosen;
`SequenceLemmas` shows that the order does not matter (`SumsAgree`,
`SumsAnyFirst`), and from that what adding and removing one module does to the
sum. The counter is an upper
bound and not the sum, because the module an insert drops at the cap is never
given back; the proof is by cases on whether an insert replaces, drops or adds.
From it `CounterCoversResidents` and `BudgetsHold`. `CountsAreKept` (the action
property `RowsKept`) follows a module's count from the LRU to its entry: a
count falls in an insert only, for the module parsed anew or the one the LRU
drops by itself.

**Registry** (`SourceRegistryProofs`). `RegInv` is inductive
(`RegistryInvariant`); from it `RegistryTypesAreKept`, `SourceIdsAreUnique`,
`OnlyLiveSourcesServe`, `SourcesAreWalkedInOrder` and `FirstMatchServes`.
First-match-wins is not inductive alone: when a source is walked whose token is
already indexed, one needs the live source the entry came from
(`IndexFromLiveSources`) and that it is not a later one (`WalkedInOrder`),
which needs that a new source's id was never walked (`UniqueSourceIds`). The
greatest id of a restored list exists by a least-counterexample argument
(`MaxProps`), which takes the place of induction.

**State machine** (`SymbolsStateProofs`). `StateInv` joins both, with
`ResidentFindable`, `NoMisattribution` and `CallGuards`: what the program
counter of a lookup knows of the cache (the eviction loop runs only inside an
insert; a token being located is not resident). `ResidentFindable` needs the
guard, because a recorded miss would otherwise hide a resident module, and
`DebugIdAssumption`, because an insert must not claim another module's
debug-id. `FramesAreAttributed` then follows from sound aliases;
`ModulesAreParsedOnce` from findability and an index that is true on an
unchanged disk. `StateRunsTheCache` says that the composed machine is one of
the clients `SymbolCache` allows, so that the budgets carry over
(`BudgetsHoldInState`).

`LookupsAnswerFromSources` is about the behaviours in which sources and disk are
fixed, and has an inductive invariant of its own, `FrozenInv`. It says of each
place an answer can come from that it is true of the disk: an indexed file has
its token and is one the sources serve, and a walked source has left none of its
tokens out (`IndexExact`); a recorded miss has no file (`MissesTrue`, also in
the saved manifest, which a restart reads back), a resident module or an alias
stems from a file the sources serve (`CacheServed`), and the module an insert
has under way is the one it will answer with (`InsertedFirst`). The property
speaks of the debug-id of a file that answers to the token, and not of that
file, because a restart or an eviction may leave another file of the debug-id in
the cache. The theorem starts from `FrozenStart`, which asks that every walk of
a source met the same files (`SameWalks`): a location that `MAX_INDEX_FILES`
cuts short may list other files at the next walk, and then what a lookup finds
depends on when it was walked.

The assumptions are those of `Ids` (canonical_token is idempotent, a debug-id
is one of its file's aliases, no debug-id is another module's alias), typed
constants, and `None` outside the sets it must differ from. TLC evaluates them
on every instance.

**Library** (`SymbolsStateProofs`). `StateImplementsLibrary` is a step
simulation: one lemma for each operation says which action of `Library` it is,
or that it leaves the mapped variables alone. Beside `StateInv` it needs
`MissesKnown`, that a miss in an entry is in the negative set, or an export
could save a token as missing that is not. That a loaded module comes from
within reach follows from `IndexFromLiveSources`: a dropped source takes its
files out of the index. That evictions, misses and dropped sources forget no
origin is followed through the entries (`RowsOrigins`, `RecordMissOrigins`): a
row count is written into an entry without touching its origin, and a miss only
where there is no entry. An insert puts the file it read on record, and no
other (`InsertOrigins`).

**Worker** (`WorkerProofs`). Each step of a client is a step of `SymbolsState`
or leaves it alone (`WorkerStep`), so `StateInv` holds under the worker, and
`WorkerRunsTheState` says that no interleaving of clients makes the state do
anything `SymbolsState` does not: what is proved of it carries over.
`PanicsCostNothing` states three of those facts, which hold with the poisoned
lock recovered in the middle of a walk; `WorkerImplementsLibrary` and
`BudgetsHoldInWorker` two more. `WorkerInv` adds `GoodCall` (a batch under way
has a value for each row in front of the current one, from a module that row
names), and `Owner` (the lock is held by the call inside it, and the lookup
under way is about that call's current row). The second is needed for the
first: an answer pushed into a batch must be that of its own row. From it
`LockIsExclusive` and `BatchesAreAligned`.

`BatchesAreIsolated` says what the lock is for: from the first row of a batch
to its last nobody else changes the sources, the cache or the index. It does
not say that equal rows of a batch get equal answers, because they need not: a
module of a dropped source answers as long as it is resident, and in a batch
over two modules and a cache of one the second row evicts it, so that the third
row, with the identifier of the first, is not found.

**Frames** (`ModuleProofs`). `FrameInv` says that what was collected is the
beginning of what the reader yields, and that a result is an error, no line
where nothing covers the address, or what was collected. From it, for walks of
any length and any depth cap, `ResultsAreChains`, `NothingIsInvented`,
`FastPathIsInnermost` and, with the symbol found, `FrameTypes`.
`NearestIsFound` is the symbol table: sorted by address, of symbols at one
address the first of the file kept, and searched for the last entry not above
the address (`OrderExists` shows that the sorted table exists, `OrderProps`
what its neighbours are). The answer is the nearest symbol, however the file
orders them.

**Parse** (`ModuleProofs`). `ParseInv` says where an operation is by what the
readers answered: a running one has passed the parts in front of the current
one (`At`), a failed one passed those in front of the part that stopped it
(`FailedAt`), and the counts of the units are those of the units walked so far
(`Walked`). `ProbesAgree` follows from comparing two such accounts of the same
answers: the parts of a probe are the first parts of a parse, which for a PDB
are written down twice (`PdbProbeSteps`, `PdbParseSteps`) and shown to agree
part by part, as are the identities made of them. `StatsAreOfUnits` adds up the
counts with the sum lemmas of the cache, and bounds the union of the units'
files by their sum.

**Walk** (`SourceWalkProofs`). Nothing in `index_dir` remembers which
directories it has seen. `WalkInv` therefore does not speak of them: it says
that everything pending, or found, is reached from the root, and that what is
still wanted is reached from what is pending. Reached means contained in every
set that is closed under listing a readable directory, so that no path and no
recursion is needed (`OneMore` is the step).

A glob source is another argument (`GlobInv`). While `expand_braces` runs, each
word continued by each text that the rest of the pattern means is what the whole
pattern means; the rest counts from the brace of an open group (`Left`). A step
of the loop moves a character or a group from the rest to the words, and joining
texts is associative (`JoinsTwice`): what remains is that the parts between
commas are the alternatives (`Splits`, by the places of the commas in order) and
that `Continue` joins row by row (`Continued`). `Meaning` is a recursion over
patterns; that it has a solution is shown by the shortest pattern on which it
would have none (`MeaningExists`), without an induction theorem. After the
expansion, what the pattern means and is not found yet is matched by the words
and the listing that are left. As in `WalkFindsAll`, this is for groups that are
closed and not nested; for any other pattern only the cap is claimed.
`SourcesAreFound` joins both: `WalkFindsAll`, for every tree, every set of
unreadable directories, every pattern, every glob library and every cap.

**Identity** (`IdentityProofs`). The derivation goes over any number of hex
digits. `canonical_token` is a loop over the characters of a spelling; it is
shown to have one outcome (`ScanExists`, `TokenIs`), which is then computed for
the spellings the formats produce. From it `FramesFindTheirFiles`,
`DebugIdsAreApart` and `KeysAreCanonical`. `DerivationMeetsIds` joins the two
levels: what `Ids` assumes of tokens, debug-ids and aliases, and with it every
theorem about registry, cache, state and worker, holds of the derivation in
`id.rs`, with its limit: an age of two digits can make a debug-id as long as a
build-id note (see `DebugIdsApart`), so the theorem is about ages of one digit.

Model-checked only:

- liveness (`EvictionEnds`, `CallsReturn`, `CallsServed`, `ResolveEnds`,
  `ParseEnds`), which is beyond the prover;
- the properties the violation runs refute.

## 5. Not modelled

- The name a string demangles to: a library call that falls back to its input.
`Worker` has the call, its refusals and its rows. - Error wording; `ModuleParse`
has the kinds. - Arrow schemas and buffers, documentation tags, the catalog and
the   registration of functions: declarations without state or control flow. -
Time stamps and the display columns of the cache (format, arch, name). - The
JSON encoding of the manifest: `from_bytes` gives back what was written,   or an
empty manifest. - The readers of object files, DWARF and PDB, and the glob
library: each is   arbitrary (a reader may refuse or panic at any part) or a
table. - A file that is there and cannot be read at one moment
(`source/mod.rs:177`) is not told apart from a file that is absent; see the
hazard of that line.

## 6. Plan

Done: the modules of section 2, the refinement of the abstract library, and the
proofs of section 4.

1. `Worker` shown to implement a sequence of atomic calls, with the moment the
   lock is taken as the point of each.
2. A parse as a sequence of the steps of `ModuleParse` inside `SymbolsState`,
   where it is now one step that succeeds, fails or panics.
