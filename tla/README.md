# TLA+ models of ATenBound

This directory holds TLA+ models of the Go code in `src/`. The models cover three component packages and the layer that joins them:

- **`internal/hypermind`**: a scope registry, plus a peer network with a discovery hash table (DHT).
- **`internal/atenspace`**: a hypergraph of atoms, links, tensors and domain boundaries.
- **`tensorlogic`**: a registry of variables and equations. The package source is `src/unnamed/part_001`.
- **`internal/integration`**: the `UnifiedFramework`, which drives the three components above.

The project also has TLC configurations that model-check small instances, and TLAPS proofs for the scope registry, the peer network, the space and the integration layer. `PROJECT.json` lists:

- the components;
- the runs;
- the mutants that show each property can fail;
- the source lines behind every definition;
- the findings and the hazards;
- the theorems.

## 1. Inventory

### Components and their state

| Component | Go state | Lock | Module |
|---|---|---|---|
| Scope registry | `MultiScopeArchitecture.scopes` (ID → `*DistributedScope`: State, CreatedAt, UpdatedAt) | `m.mu` (RWMutex) | `ScopeRegistry` |
| Peer network | `peerNetwork.activePeers` (ID → `*Peer`: ScopeIDs, LastSeen), `dht.entries` (scope → []peerID) | `peerNetwork.mu`, and inside it `dht.mu` | `PeerNetwork` |
| ATenSpace | `Space.atoms` (ID → `*Atom`), `links`, `tensorStore`, `boundaries` | `s.mu` (RWMutex) | `ATenSpace` |
| TensorLogic | `Framework.Variables` (name → `*Variable`), `Equations` | **none** | `TensorLogic` |
| Unified framework | the three components above, with no state or lock of its own | **none** | `Integration` |

### Operations

- **Registry:**
  - `RegisterScope` rejects a nil scope or an empty ID. Otherwise it reads `time.Now()` twice, into CreatedAt and UpdatedAt. It replaces a nil State with an empty map and upserts the scope.
  - `GetScope` reads a scope.
  - `PropagateState` answers "not found" for an unknown scope. Otherwise it merges the delta into State, stamps UpdatedAt and calls the no-op `propagateToPeers`.
- **Peer network:**
  - `ConnectPeer` rejects a nil peer or an empty ID. Otherwise it stamps LastSeen, upserts the peer, and runs `dht.add(scope, id)` once for every entry of ScopeIDs. The add appends and never deduplicates.
  - `DiscoverPeers` returns `dht.lookup`, filtered by the active peers.
  - `GetActivePeers` returns the active peers.
- **ATenSpace:**
  - `AddAtom` upserts a fresh struct.
  - `AddLink` checks both ends under the lock.
  - `AttachTensor` sets the atom's TensorID and stores the tensor. It does not check the tensor's ID.
  - `DefineBoundary` appends the boundary, even when one with the same ID exists.
  - `GetAtom`, `GetTensor`, `GetLinksForAtom` and `QueryByBoundary` only read. `QueryByBoundary` uses the first boundary with a matching ID.
- **TensorLogic:**
  - `RegisterVariable` and `DefineEquation` change state.
  - `Evaluate` only reads.
  - `Project` and `Join` build a new value from their arguments and touch no state.
- **Integration:** each of these calls runs the component calls one after another, with no lock of its own.
  - `CreateBoundaryScope` calls `RegisterVariable`, then `RegisterScope`, then `AddAtom`, then `AttachTensor`.
  - `PropagateState` calls Hypermind `PropagateState`, then `GetAtom`, then writes `atom.Attributes[k] = v` with no lock.
  - `DefineDomainBoundary` calls `DefineBoundary`.
  - `QueryScope` makes three separate reads (`Evaluate`, `GetScope`, `GetAtom`), each under its component's lock, and fills a field of `ScopeInfo` for each read that succeeds.
  - `IntegrateWithBoundary` makes three calls that return nil and change nothing.

### Interactions and hard behaviours

Each component runs an operation entirely under its own lock, so one component call is an atomic step. The exception is TensorLogic, which has no lock.

The integration layer holds no lock across its calls. The calls of concurrent goroutines therefore interleave between component calls. Two of its writes, to `Framework.Variables` and to `atom.Attributes`, happen outside every lock.

`GetAtom` hands out the stored pointer. A concurrent `AddAtom` of the same ID replaces the struct, so a later write through the old pointer lands on a struct that is no longer in the space.

The hazards are listed in `PROJECT.json`. In short:

- the partial failure of `PropagateState`;
- the stale atom pointer;
- the unlocked map writes;
- the two clock reads;
- DHT entries that are never deduplicated and never removed;
- tensors with an empty ID;
- boundaries shadowed by an earlier one with the same ID;
- the non-atomic `QueryScope`.

## 2. Modules and how they map to the code

- **`HypermindBase`** holds the constants and variables shared by the registry and the peer network:
  - scope IDs, and the sentinels `EmptyID`, `NilRef` and `Absent`;
  - `clock`, the last reading of `time.Now()`. A reading (`Now`, `NowAfter`) never goes back, may repeat, and is capped at `MaxClock`;
  - `ret`, the error kind of the last call.
- **`ScopeStore`** is the abstract specification of what the registry promises its callers. It has one variable, `store` (ID → State map or `Absent`). `Register(id, st)` installs one of the `InitialStates` whether or not the scope exists. `Update(id, delta)` merges a delta key by key into an existing scope. The timestamps and the error results are abstracted away, so failing calls are stutters. `ScopeRegistry!StoreView` maps the registry onto it.
- **`ScopeRegistry`** has the variable `scopes` (ID → record or `Absent`). Its actions are `RegisterScopeRejected`, `RegisterScope`, `PropagateStateNotFound` and `PropagateState`, and `GetScope` is the operator `Lookup`. A rejection is a step that sets `ret` and changes nothing else.
- **`PeerNetwork`** has the variables `peers` and `dht`. Its actions are `ConnectPeerRejected` and `ConnectPeer`; the DHT appends are in `AddAll`. `DiscoverPeers` is the operator `SelectSeq` over the entry, and `DiscoverSet` is the set of peers it returns.
- **`ATenSpace`** has the variables `atoms` (ID → pointer), `heap` (pointer → Atom struct), `links`, `tensorStore` and `boundaries`. Its actions are `AddAtom`, `AddLink`, `AttachTensor` and `DefineBoundary`; the reads are operators. A rejected call returns an error and changes nothing, so it is a stutter.
- **`TensorLogic`** has the variables `variables` and `nEquations`. It is used through `Integration`, with `MaxEquations = 0`, because the integration layer never defines an equation.
- **`Integration`** EXTENDS `ScopeRegistry` and INSTANCEs `TensorLogic` and `ATenSpace`. Its state:
  - One scope ID names the variable, the scope, the atom and the tensor. The tensor ID `id + "_tensor"` is injective in `id`.
  - Each goroutine `t` has `pc[t]` and `arg[t]`. `arg[t]` holds the scope, the delta and the atom pointer that `GetAtom` returned.
  - `PendingAtoms` is the set of goroutines that will still allocate an atom. It bounds `heap` in advance.

  Each component call is one step:
  - `StartCreate`, `CreateVariable`, `CreateScope`, `CreateAtom`, `CreateTensor`;
  - `StartPropagate`, `PropagateHypermind`, `PropagateGetAtom`, `PropagateWrite`;
  - `StartQuery`, `QueryVariable`, `QueryHypermind`, `QueryAtom`;
  - `DefineDomainBoundary`.

  `QueryRead` is the shared body of the three query reads. Each adds its part to `arg[t].found` when the component call succeeds. `arg[t].seen` is a ghost that no code reads. It records `Holding(s)`, the parts that held the scope when the query started, so that a property can relate the answer to the state at call time.

  The unlocked writes are separate steps. While a goroutine sits in front of one, another goroutine can reach the same write.

The models leave out data the code stores but never reads: ParentID, Type, the Peers snapshot, Address, tensor data, link type and strength, and names. They also leave out the wording of errors. Only the kind is kept, and "not found" is reported with the InvalidParameter kind, as the code does.

## 3. Runs

| Run | Checks | Instance | Result |
|---|---|---|---|
| `reg_stamps` | `RegTypeOK`, `UpdatedNotBeforeCreated` | 2 scopes, 2 keys, 2 values, `MaxClock = 3` | passes, 2672 states |
| `reg_stamps_equal` | `RegisterStampsEqual` | same | **violated** |
| `net_discovery` | `NetTypeOK`, `DiscoverComplete` | 2 peers, 2 scopes plus "", lists of up to 2, DHT entries of up to 2 | passes, 28010 states |
| `net_dups` | `DiscoverNoDuplicates` | same | **violated** |
| `space_links` | `SpaceTypeOK`, `LinksJoinAtoms` | 2 atoms, 2 tensors, 3 structs, 2 links, 2 boundaries | passes, 787388 states |
| `reg_strict` | `PropagateStrictlyIncreases` | same as `reg_stamps` | **violated** |
| `int_concurrent` | `IntTypeOK`, `CreatedScopeComplete`, `QueryAfterCreateComplete`, `StoreRefinement` | 2 goroutines, 1 scope, 1 key, 2 values, 3 structs | passes, 2528040 states |
| `int_partial` | `QueryAllOrNothing` | same as `int_concurrent` | **violated** |
| `int_sequential` | `ScopeAtomAgree` | 1 goroutine | passes |
| `int_agree` | `ScopeAtomAgree` | 2 goroutines | **violated** |
| `int_race` | `NoUnlockedConcurrentWrite` | 2 goroutines | **violated** |
| `int_attr_race` | `NoUnlockedAttributesWrite` | 2 goroutines | **violated** |

The properties that hold:

- **`UpdatedNotBeforeCreated`**: UpdatedAt is never earlier than CreatedAt, through every sequence of re-registrations and merges.
- **`DiscoverComplete`**: a connected peer is discovered under every scope its latest connect declared. This holds even when reconnects with other scope lists leave stale entries behind.
- **`LinksJoinAtoms`**: every link joins two atoms present in the space, whatever the order of adds.
- **`CreatedScopeComplete`**: once all calls have returned, the scope, the variable and the atom sets are equal, and every atom has a retrievable tensor. This holds under any interleaving of two goroutines on the same scope.
- **`ScopeAtomAgree`**: with one goroutine, the scope's State and its atom's Attributes agree.
- **`QueryAfterCreateComplete`**: a `QueryScope` of a scope that was already in all three frameworks when the query started returns all three parts, whatever creations and propagations of the same scope interleave with its reads. No call ever removes a part.
- **`StoreRefinement`**: the registry, as the framework drives it, implements `ScopeStore` with `InitialStates = {EmptyMap}`. The `INSTANCE ... WITH store <- StoreView` is checked as a temporal property. Every interleaved step registers an empty State, merges a delta into an existing scope's State, or leaves every State alone. The instance lives in `Integration` and not in `ScopeRegistry` because, at the registry's own level, `RegisterScope` takes any caller State. A merge bug would then still look like a register. `CreateBoundaryScope` is the only caller of `RegisterScope` and always passes a nil State, which is what makes the check sharp.

The bounds are small, but each property is exercised:

- **Clock:** three ticks let a registration straddle a tick and let a later merge move UpdatedAt.
- **DHT:** lists of two let a peer declare a scope twice, and reconnects leave stale entries.
- **Space:** three structs let an atom be re-added after a link or a tensor points at it.
- **Integration:** two goroutines on one scope are the interleaving the findings need. Three structs let both goroutines run `CreateBoundaryScope` with a `PropagateState` between them.

Every property has a mutant in `PROJECT.json`: a plausible bug in the mapped definition that TLC then catches.

**Fairness.** No run assumes fairness, and no liveness property is checked. Every call the framework makes is a loop-free chain of at most four steps. Each step waits only for a component lock whose holder releases it within one step. That a started call returns therefore holds by the shape of the code, and a liveness property would say nothing about it.

The safety runs check deadlock. TLC stops at the model's bounds, but the bounded actions keep at least one disjunct enabled.

## 4. Findings

1. **The two timestamps can differ** (`reg_stamps_equal`). `RegisterScope` reads `time.Now()` twice, at hypermind.go:124-125. Spec §8 says the two stamps are equal.
2. **Discovery can return a peer twice** (`net_dups`). A peer that declared a scope twice is returned twice. Spec §3 allows this ("no deduplication"), but §8 says the result is exactly the set of peers.
3. **`PropagateState` can leave a scope and its atom disagreeing** (`int_agree`, a code bug). The sequence is:
   1. A `PropagateState` commits the delta to the scope.
   2. It then fails at `GetAtom`, because a concurrent `CreateBoundaryScope` has registered the scope but not yet added the atom. Or it writes through a pointer to an atom that `AddAtom` is about to replace.
   3. The scope keeps the delta and the stored atom never gets it.
4. **Two goroutines can write a map with no lock** (`int_race`). Two `CreateBoundaryScope` calls write `Framework.Variables` at the same time (part_001:101). Spec §5 says no shared map is written without its owner's lock.
   `int_attr_race` checks only the `atom.Attributes` half of that property. Here TLC cannot stop first on the `Variables` race, so it shows the second race on its own. One goroutine completes `CreateBoundaryScope`. Then two `PropagateState` calls on that scope both get the same `*Atom` from `GetAtom` and reach the unlocked loop over `atom.Attributes` together (integration.go:210-212). No creation needs to be in flight.

5. **`UpdatedAt` need not strictly increase** (`reg_strict`). `PropagateState` restamps UpdatedAt with `time.Now()` (hypermind.go:165), which can return the previous stamp. Spec §8 says updatedAt strictly increases.
6. **`QueryScope` can return part of a scope** (`int_partial`, a spec gap). The three reads take three locks one after the other. A query that overlaps `CreateBoundaryScope` of the same scope can therefore return the variable without the scope or the atom, and with a nil error. The tests and FRAMEWORK_INTEGRATION.md only show all three parts or none, and the spec does not say what a concurrent query returns.

There is also a divergence that is not run. For a missing scope, `GetScope` and `PropagateState` return the InvalidParameter kind, where spec §7 says NotFound.

## 5. Proofs

`tlapm` checks six proof modules. Each proves its theorems for every value of the constants, under the named assumptions of the modules it extends: `BaseAssumption`, `ScopeAssumption`, `AbsentAssumption`, `PeerAssumption`, `SpaceAssumption` and `IntegrationAssumption`. `AbsentAssumption` says `Absent` is neither a scope record nor a State map, as a nil pointer is neither.

**`ScopeRegistryProofs`** proves two theorems:

- **`RegTypeCorrect`**: `RegSpec => []RegTypeOK`. It rests on:
  - `TypeStep`, which has one step per action;
  - `MergeType`, which shows a merge yields a State map;
  - `NowInTimes`, which shows a clock reading stays in `Times` and never goes back.
- **`RegStampsOrdered`**: `RegSpec => []UpdatedNotBeforeCreated`.

`UpdatedNotBeforeCreated` is not inductive by itself. `PropagateState` sets UpdatedAt to a fresh reading, which is at least the clock, and nothing yet relates the clock to CreatedAt. The proof therefore strengthens it to `RegInv`, which adds `RegTypeOK` and `StampsBounded` (no stored stamp is later than the clock). `InvStep` shows every step keeps `RegInv`, splitting on the scope that was written.

**`PeerNetworkProofs`** proves two theorems:

- **`NetTypeCorrect`**: `NetSpec => []NetTypeOK`.
- **`DiscoveryComplete`**: `NetSpec => []DiscoverComplete`.

The strengthening is `NetInv = NetTypeOK /\ DiscoverComplete`. The type is what makes `DiscoverSet` well defined. The argument, in `DiscoverStep`:
- `AddAllEntry` shows that a connect leaves the old prefix of every DHT entry alone and appends the peer once per occurrence of the scope in its list (`OccurrencesCount`).
- So a peer found before the step is found after it.
- The connecting peer is found at the first appended position.

**`ATenSpaceProofs`** proves two theorems:

- **`SpaceTypeCorrect`**: `SpaceSpec => []SpaceTypeOK`.
- **`LinksAlwaysJoinAtoms`**: `SpaceSpec => []LinksJoinAtoms`.

The argument runs as follows:
- `AddLink` checks both ends through `GetAtom` (`FoundAtom`).
- `PresentGrows` shows no step takes an atom out of the space, since only `AddAtom` writes `atoms`, and it always stores a pointer.

**`IntegrationProofs`** proves two theorems:

- **`IntStampsOrdered`**: `IntSpec => []UpdatedNotBeforeCreated`, under any interleaving of goroutines.
- **`IntRefinesStore`**: `IntSpec => StoreRefinement`, the refinement `int_concurrent` checks.

Both rest on `RegistryStep`: every framework step is a `RegNext` step or leaves the registry alone. `CreateScope` is a `RegisterScope` of `EmptyMap`, `PropagateHypermind` is a `PropagateState`, and `OtherStepKeepsRegistry` covers the rest.

The invariant is `IntRegInv = RegInv /\ CallArgsOK`. `CallArgsOK` says each goroutine's argument record carries a scope ID (or "") and a delta. It is needed because the registry's actions are only steps of `RegNext` for such arguments. `ArgsStep` proves `CallArgsOK` is preserved.

The refinement step, `StoreStep`, maps the registry actions as follows:
- `RegisterScope` maps to `Register` (`RegisterRefines`).
- `PropagateState` maps to `Update` (`PropagateRefines`).
- Every other step is a stutter of `StoreView`.

**`IntegrationInvProofs`** proves three theorems, for any number of goroutines in any interleaving:

- **`IntTypeCorrect`**: `IntSpec => []IntTypeOK`. It rests on `IntTypeStep`, which has one step per action. The type lemmas of the instanced space (`AddAtomType`, `AttachTensorType`, `DefineBoundaryType`, `WriteType`) are proved directly on the `AS!` definitions, and the registry part comes from `RegistryStep` and `TypeStep`.
- **`CreatedScopeCompleteHolds`**: `IntSpec => []CreatedScopeComplete`.
- **`QueryComplete`**: `IntSpec => []QueryAfterCreateComplete`.

Neither property is inductive. Both speak of the states where calls have returned, and what makes them true then is what the goroutines still inside a call will do. The inductive invariant is `IntInv = IntTypeOK /\ AtomsDistinct /\ CreateInv /\ QueryInv`, which TLC also checks as an invariant on the `int_concurrent` constants. Its conjuncts:

- **`CreateInv`**: `CreateBoundaryScope` adds a scope's parts in the order variable, scope, atom, tensor. A goroutine at a step has added the parts before it (`CreateOK`). A scope that has one part and not the next has a goroutine on it at the step that adds that part (`CreatingAt`). With every goroutine idle, no part can be missing.
- **`AtomsDistinct`**: no two IDs share an Atom struct, because `AddAtom` stores a pointer past the end of the heap. It is needed because `AttachTensor` of one scope must not change another scope's tensor (`CreateTensorStep`).
- **`QueryInv`**: a query that saw all three parts at its start still sees them, and has found exactly the parts it has read so far (`ReadSoFar`). It rests on `Grows`: no step removes a variable, a registered scope or an atom. For the registry this uses `AbsentAssumption`, since a merged scope record is still a record.

`CreateStep` and `QueryStep` have one step per action. The steps of `PropagateState`, `QueryScope` and `DefineDomainBoundary` go through the frame lemmas `CreateFrame` and `SeenEmptyStep`. `WriteKeepsTensor` shows the unlocked attribute write never changes a tensor ID, even through a stale pointer.

**`IntegrationSeqProofs`** proves **`SequentialScopeAtomAgree`**: with a single goroutine (`Threads = {t0}`), `IntSpec => []ScopeAtomAgree`. The run `int_agree` shows the property fails with two goroutines, so the theorem states it for the setting that `int_sequential` checks and the repository's tests use.

The inductive invariant `SeqInv` adds `SeqAgree` to the type and `AtomsDistinct`. `SeqAgree` says that every registered scope with an atom agrees with it, except the scope of the goroutine's call while that call is between its two writes (`SplitPCs`). It also says how that scope differs:
- after `RegisterScope`, the State is the empty map the fresh atom will also have;
- after the registry's merge, the State is the atom's attributes merged with the delta;
- after `GetAtom`, the goroutine's pointer is the atom's pointer.

TLC checked `SeqInv` on one goroutine, two scopes and two values (3,215,860 states). There is one lemma per step that starts or ends a split, and the frame lemma `AgreeFrame` covers the rest.

Only TLC checks the violated runs. No liveness property is stated (see §3), so nothing is left to TLC for want of a prover of ENABLED or fairness.

## 6. Not modelled

- **`IntegrateWithBoundary`**: its three component calls return nil and change nothing, so it is a stutter. `NewUnifiedFramework` is the initial state.
- **Readers that hold the pointers `GetScope` and `GetAtom` return, outside the framework:** `QueryScope` only stores them in `ScopeInfo`, and the unlocked reads of their maps happen in the tests and the examples.
- **The documentation and the tests.** They are the source of several properties, not components.

## 7. Plan for the next sittings

1. Add a `Hypermind` façade module that composes `ScopeRegistry` and `PeerNetwork` under one `MultiScopeArchitecture`, with the end-to-end scenario of spec §8 as a run.
2. Add reader goroutines over the pointers in `ScopeInfo`, and a race property for the unlocked reads.
3. Model the readers of `Framework.Variables` (`Evaluate` in a query) as separate steps, so that the unlocked read racing `RegisterVariable` is an interleaving of its own and not only the property `NoUnlockedConcurrentWrite`.
