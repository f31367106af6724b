# cloudlab-k8s in TLA+

The repository deploys a Kubernetes test bed whose network addresses are bound to
identities. The program in it is the **metadata proxy** (`proxy/`, Go): it keeps which
instance (VM, container) owns which range of ports of an IP, authenticates the speakers of
requests by their address or uuid, and forwards statements about them to a SAFE server.
Everything else is scripts, images and configuration around it. This directory models the
state the proxy keeps and what its callers may rely on.

## 1. Inventory

| Part | State | Operations | Hard behaviour | What makes it correct |
|---|---|---|---|---|
| Port index, `proxy/pmap.go` | per IP an interval tree of port ranges; `PidMap`, pid to record | create, delete, innermost lookup, record by pid | ranges nest, cross and end before they start; range and record are removed independently | the innermost range is found, and its pid has the record of that range |
| Instance cache, `proxy/cache.go` | per worker a `Pmap` under a mutex | `PutInstance`, `DelInstance`, `GetInstanceFromNetMap`, `GetInstanceFromID` | many caches over one store; reload on a miss only; two Riak reads in one lookup; Riak fails after the cache changed; restart | no panic; what is registered at a free place stays; exact where one worker writes; 404 only when the search finds nothing or is cut |
| Riak connection, `proxy/riak.go` | objects by bucket (IP) and key (ports), and a search index | connect and see to the search index; store, delete, search by IP, search by pid | the start-up ends between two commands; the search index lags; a search returns a page; an error does not say whether a write happened | used by the cache, modelled with it; a program that serves can search |
| Handlers, `proxy/newapi.go`, `server.go`, `types.go` | a request (principal, target) between steps; the caches | create and delete instances, configurations, memberships, endorsements, checks, `/authenticate` | authorise, call SAFE, then write the cache: anything may happen in between; 15 s timeout with unknown effect; statuses ignored; a cache's lock held across Riak calls | what is registered was accepted and given out by the provider; who speaks to SAFE was created by a confirmed call; every request ends |
| Pods, `proxy/pod.go` | a map from address to pod | post, authenticate | no lock around the map; two look-ups in one answer; the map dies with the program | the pod answered was the most specific one at some moment of the request |
| Content store, `proxy/internal/pkg/kvstore/store.go` | path to list of items; item to paths; `changed`; one file | `Put`, `PutValues`, `Del`, `GetKey`, ...; the watcher's `Save`; `Restore` | a slice of the index is read without the lock; the flag is cleared before the file is written; truncate, write, crash; restart | the index is the inverse of the data; no update is lost between flag and file; what is stored stays |
| Content store server, `kvstore/server.go` | the store | `/upload_image`, `/get_content`, `/get_index` | answers are encoded outside the lock; an upload that does not parse is stored | an answer names the paths of an item |
| Shield, `shield/` (Python) | none | upload to HDFS under a prefix | file name rule | not modelled |
| Scripts, images, `configs/`, `templates/`, `examples/` | the machines | provisioning | - | not modelled |

How they interact: `main` (server.go) makes one Riak connection, `Nworker` caches over it
and one content store. A request picks its cache by the hash of its credentials
(`getCache`). The handlers call the cache before (authentication, authorisation) and after
(registration, deletion) one HTTP call to SAFE. The caches share nothing but Riak. The
watcher goroutine of the content store shares the store with the HTTP goroutines.

## 2. Modules

| Module | Models | Uses |
|---|---|---|
| `PortIndex` | ranges, ids and the order of the tree, containment, the innermost range in closed form | |
| `IndexSearch` | the loop of `GetIndex` over the entries of one tree | `PortIndex` |
| `Pmap` | the two maps of a cache and their operations, as operators on a record | `PortIndex` |
| `InstanceCache` | the caches of all workers over Riak and its search index | `Pmap` |
| `InstanceRegistry` | abstract: one registry without a cache | `Pmap` |
| `SoleCache` | the refinement of `InstanceRegistry` by one worker's cache | `InstanceCache` |
| `KvStore` | the content store under its lock, and the unlocked readers of its index | |
| `KvFiles` | the watcher, the file, crashes and restarts | |
| `LineFormat` | what a list becomes in the file | |
| `MetadataProxy` | every handler of the proxy but those of pods, and SAFE | `InstanceCache` |
| `ConfigChunks` | the posting of configurations in chunks | |
| `StartUp` | the start of the program up to serving, and its end | |
| `PodTable` | the pods of a program that starts and ends | `StartUp` |
| `MC*` | the instances that are checked | |
| `*Proofs` | theorems and proofs | |

### PortIndex, IndexSearch
`Indexable`, `Covers`, `ComputeID`, `Before` and `Inside` are the arithmetic of `Index`,
`ComputeID` and `CreatePrincipalPP`. `IndexSearch` takes the loop of `GetIndex` entry by
entry (`rest`, `found`) in the order in which the interval tree returns overlapping entries.
`Init` is the query with the early return when nothing overlaps. The interval tree is a
library; what is used of it is that it returns the overlapping entries in its order.

### Pmap, InstanceCache
One action per operation and outcome. A cache holds its mutex from the first line of an
operation to the last, Riak calls included, and nothing else can see a cache meanwhile; so an
operation that calls Riak once is one step, taken at the moment Riak acts. `GetInstanceFromID`
on a miss calls Riak twice and is two steps, `SearchUUID` and `ReloadUUID`; `pending` is the
locked cache between them, and other workers move. `reply` is the answer of the last step; an
answer `"panic"` stands for the dereference of a nil record in `GetInstanceFromNetMap`. `riak`
is the store, `solr` what searches see: equal without `SearchLag`, otherwise synchronised object
by object (`IndexSync`). A failing write may or may not have taken effect. A search by IP
returns all that matches or a page of it (`Page`); which documents make the page is open.
`writer` and `claim` are history variables: who wrote a place last, and who registered there
last, if Riak and its index had that registration or nothing there at the time. `Restart` loses
the caches and the locks, never Riak.

Abstracted: parent pid, type and CIDR travel with the pid; the key `lport:rport` is the
range (the code formats and parses it back unchanged); documents that lack a field are not
stored by this program; logging and timing are left out.

### MetadataProxy
A request is a slot in `req`: `phase` is how far its goroutine is ("auth", "find" a target by
uuid, "call" to SAFE, "post" hook), `call` what it asked. The handlers differ in `op`: those
with a target (create, createVM, delete, deleteVM, lazyDelete) authorise it and tell the cache
afterwards; the others name an instance they are about (`check`, `member`, `config`) or none
(`forward`, `forwardAny`, `selfConfig`), and reply what SAFE says; a configuration makes one
call or two, which stand for several (`Posts`). A check that is about the provider looks nothing
up (`Unresolved`). `ask` is `/authenticate`, which has no call; a `legacy` creation and a body
that is `garbled` end before theirs, in a refusal or in a panic that Go's server confines to the
request. `Strict` is `authPrincipal`. Its lookups are the actions of `InstanceCache`, conjoined
with what the handler makes of the answer; "reload" and "findReload" are a request inside
`reloadUUID`, holding the lock of its cache. `Authenticate` is `newAuth`, `Proceed` the hooks
before the call with `authzControl` (`MayControl`), `Post` the hook after it, which ignores the
status of the cache. `safe` is what SAFE has a statement of; a call ends in `SafeAccepts`,
`SafeRefuses` or `Timeout`, and a call that timed out stays `adrift`, to be carried out or
dropped later (`SafeLate`). `ProxyRestart` loses the requests and the caches. `granted`,
`contested` and `vouched` are history.

A deletion by place has the address in the argument that elsewhere is the uuid; the model
has a pid `address` for it, which no instance has. The CIDR and type of an instance are a
function of its pid (`Cidr`), with the discipline that a pid with a CIDR is created by
`createVMInstance` only. Addresses parse. Whether the speaker of a configuration is the parent
of its instance is left open (`MayPass`, `MayFail`), since parents are not kept, and so is
whether the CIDR that comes with a VM parses; the values that are posted are the subject of
`ConfigChunks`.

### ConfigChunks
The loop of `createSelfConfig`, which `createInstanceConfig` repeats: `current` and
`remain` are its variables, `posted` the calls SAFE has carried out, as intervals of the
numbered values. A failing call may have taken effect.

### StartUp, PodTable
`StartUp` is `main` with `Connect` and `checkIndex`: `stage` is the command of Riak that is
under way, `netmap` and `associated` what Riak has. A failed fetch counts as a missing index
(`FetchMisses` is always possible), any other failure is `os.Exit`; `Stop` is that or a kill,
and the command under way may have had its effect. Retries inside the Riak client are part of
a command.

`PodTable` adds the pods: `pods` is the Go map, `job` the requests. A write takes two steps,
`PostArrive` and `PostDone`; an access between them is a data race, whose outcomes are the end
of the program (`ProcessStop`, possible anyway), any pod or none or a torn one for a read, and
for two writes the loss of either and a map that is `damaged`. `truths` and `posts` are history:
what would have been right since the request came, and how many posts were completed since.
A body of `/postPod` that does not parse changes nothing and is left out.

### InstanceRegistry, SoleCache
`InstanceRegistry` says what a lookup, by address or by uuid, means without a cache: one table
from place to pid. `SoleCache` maps the table to `riak`, and so says that the cache cannot be
told from the store. That is true of callers who keep to an order (`Orderly`, `OrderlySpec`): a
registration finds its place free or as it wants it, a deletion finds its own instance or
nothing. Others leave records in `PidMap` that Riak does not have.

### KvStore
A writer (`Put`, `PutValues`, `Del`) takes the lock (`Lock`), removes index entries one
occurrence at a time (`RemoveOneIndex`), assigns the list (`Assign`), appends index entries one
at a time (`AppendOneIndex`) and unlocks. `Put` of a single value is `PutValues` of a list of
one; `Upload` is the handler of `/upload_image`, which stores what it could parse also when it
answers 400, as little as an empty list. A slice of the index is an array (`cells`) and a
length; removal shifts in place and leaves the last cell, `append` writes into the array while
there is room and moves to one of twice the size otherwise. A request holds the slice that
`GetKey` handed out (`request`): `seen` collects, per cell, every string the cell has held
since, as long as the index still uses that array (`shared`), and `moved` that a removal has
shifted it. `Answers` are the answers the handler may send: in each cell any of these strings,
or, if there was more than one, a torn string - the outcomes the Go memory model leaves to a
racing read of a two-word value. `ever` and `untouched` are history.

### KvFiles, LineFormat
`Put` and `Del` are one step here, because `Save` takes the same lock. The watcher takes a
snapshot and clears the flag (`Snapshot`), truncates the file (`Open`) and writes it
(`Write`); `OpenFails` and `WriteFails` are the errors that it ignores. `file` is what
Restore would read, and `stored`, which is history, the paths that a completed write put there
and that the file has had since, or a write in progress is about to put back. `Crash` may come at
any point and leaves the file as it is; `Start` is `NewStore`, preceded by
`RestartStore` when `RestoreFirst`. `main` does not call `RestartStore`; the tests of the
package do, so `RestoreFirst` is a constant and both programs are checked. `LineFormat!Reread`
is the conversion: items are joined with `;` unescaped and split again, and an empty list
comes back as a list of one empty string. Left out: a line cut in its middle by a broken
write, paths that contain separators, and line breaks in items.

## 3. Runs

| Run | Instance | Shows |
|---|---|---|
| `index_search` | every set of ranges within four ports, every port, every end | the loop finds the innermost range, for nested and crossing ranges, and computes `Innermost` |
| `cache` | 2 workers, a wide range used by two instances in turn, a narrow one inside; searches return one document of the IP; Riak fails, restarts | `SoleWriterExact`, `RegistrationStays`, and the invariant `ExactInv` of the proofs |
| `cache_lag` | 2 workers, an IP with three ranges, one inverted, and a second IP; search index lagging, two documents of an IP returned | stale answers, but `NeverPanics`, `AnswersAddress`, `NoFalseNotFound`, `RegistrationStays`, `BringsUpPage` |
| `cache_moving` | a uuid registered at two addresses | `NeverPanics` violated: see findings |
| `sole_cache` | 1 worker, orderly callers, no failure, lag or restart; ranges that nest and cross, an inverted one, 6 instances, 2 IPs | `ImplementsRegistry`, and why: `CacheIsStore` |
| `kv_index` | 2 paths, 2 items, lists with repetition, and the empty list, one reader; arrays of 1, 2 and 4 cells | `IndexIsInverse`, `AnswersOnceHeld`, `UntouchedUnlessMoved`, and the invariant `IInv` of the proofs |
| `kv_files` | 2 paths, 4 lists, failing writes, crashes; `RestoreFirst` | `SavedWhenClean`, `StoredStays`, and under fairness `PutsReachDisk` |
| `kv_restart` | the same without `RestoreFirst`, as `main` starts | `StoredStays` violated: see findings |
| `requests` | 1 worker, 2 requests at a time out of 7 calls: a VM with a CIDR, an instance in it, a request for too many ports, deletions by place, by uuid and by both; SAFE late, Riak failing and lagging, restarts | `RootedInIaaS`, `StoredIsStated`, and the invariant `ProxyInv` of the proofs |
| `answers` | 1 worker, 2 requests at a time out of a call for each path of the other handlers: the configuration of an instance and of the speaker, membership, a check of an instance and of the provider, `/authenticate`, a garbled body, and two creations; Riak failing, SAFE refusing or silent, restarts | `SpeakersWereStated`, and under fairness `EveryRequestAnswered` |
| `process` | 2 requests at a time about 2 addresses of an IP, 2 pods; any number of starts and ends | `SearchableOrAbandoned`, `RightAtSomeMoment`, and the invariant `PodInv` of the proofs |
| `config_chunks` | every length up to 43 values, every failure | `InOrderOnce`, `RouteFits`, `OkMeansAll` |

Bounds. Two workers are enough for one to be stale about the other; the workers interact only
through the store. A lookup looks at one IP, so one IP with a range inside a range and a range
with two successive owners has the interesting cases; the second IP of `cache_lag` and
`sole_cache` is there to be confused with. Pages are smaller than the IP in `cache` and
`cache_lag`, so that every search may be cut; in `cache_lag` the IP has as many documents as fit
in a page, or fewer, or one more. It has no failures and restarts, which `cache` has: a worker
that joins late is as empty as one that was restarted. Its view leaves out `writer`, of which no
property of it speaks, and the two instances of the wide range are alike. In `kv_index` a list
that repeats an item fills an array of four cells from both paths, so that arrays grow twice and
cells are reused. In `kv_files` two paths let a write stop between two lines. In `requests` two
requests are enough for every pair of steps to meet. Its one worker is stale by the search
index's lag and by failed writes; a second worker, which the cache runs have, would multiply the
states beyond what is checked in minutes. Its view leaves out `reply`, `writer` and `claim`,
whose old values no action of it reads and of which its invariants have the types only.
`answers` has neither a view nor symmetry, which liveness forbids, and therefore fewer ranges,
all of one IP, and no lag of the search index, which only delays what a lookup sees. Of handlers
that take the same path (`forward` and `selfConfig`, `forwardAny` and `check`, `legacy` and
`ask`) it has one. In `process` two requests are enough for every race of two accesses, and
slots are used again: an `/authPod` may live through any number of posts. With 43 values the
loop of `config_chunks` runs up to four times, and its end is met at every remainder. No run
needs a bound on the length of behaviours: all state spaces are finite as they are.

Fairness is assumed in two modules. In `KvFiles` the watcher is a goroutine that wakes by a
timer as long as the program runs, so `Snapshot`, a write that was begun, and its completion
are weakly fair; nothing is assumed of the success of writes, and `PutsReachDisk` says what
follows if they stop failing. In `MetadataProxy` (`FairProxySpec`) a goroutine that waits for
nobody goes on (weak fairness of `AuthIaaS` and `AuthUnnamed`); a request that needs its cache
gets it if the cache is free again and again (strong fairness of `UsesCache`), because a Go
mutex hands itself to a goroutine that has waited for a millisecond, and the owner's calls to
Riak end; and a call to SAFE ends at the latest by the client's fifteen seconds (weak fairness
of `Timeout`, server.go:204). Nothing is assumed of callers, of SAFE, of restarts, of the
search index or of what Riak answers. `EveryRequestAnswered` then says that no request starves
behind the lock and that no handler stops short of a reply or waits for SAFE for ever. That a
call of Riak ends is assumed by its being one step: the Riak client has timeouts of its own.
The other modules have safety properties only.

## 4. The callers' discipline

`OneHome` says that a uuid is registered at one address and deleted under that address.
Nothing in the proxy enforces it. It is a fact about the constants of a run or theorem, not
a guard. Runs `cache`, `cache_lag`, `sole_cache`, `requests` and `answers` satisfy it,
`cache_moving` does not. `Orderly`, of `SoleCache` only, is a condition on steps and part of the
specification `OrderlySpec`.

What the caches promise without more discipline is `RegistrationStays`: a registration at a free
place stays in the index of its worker. A registration that replaces another has no such promise:
a reload that still finds the former one in the search index puts it back (cache.go:63-69), so
that "won't affect read of the same instance" (cache.go:169-171) is true of new instances.

## 5. Findings

1. `cache_moving` - a delete that names a uuid with another address leaves a range whose
   record is gone; the next lookup of that address dereferences nil (cache.go:137-140,
   against "result should never be null!").
2. `kv_restart` - the program starts from an empty store marked for writing, and overwrites
   the file it should start from.

Seen while modelling, without a run of its own. A reload returns at most Riak's default page of
ten documents (riak.go:327), against "bring up the entire VM" (cache.go:95): of an IP with more
instances a part is loaded, and a lookup of an address beyond it is answered by 404
(`BringsUpPage` and `NoFalseNotFound` name the page). After a restart a range that is registered
first hides the narrower ones stored inside it, until something loads the IP. When another pid
takes over a range, or a delete comes after its place was reused, a record is left in `PidMap`
by which the old uuid is still found (pmap.go:101, 195-199). The watcher truncates the file
before it writes it (store.go:323), so that a crash between the two, or after a write that
failed, loses what was stored: `StoredStays` names it as the one loss besides deletions. A
configuration that fails in the middle is answered by the status of the failed chunk; that the
chunks before it stay posted is only logged (newapi.go:391-393). `GetKey` hands out the index's
own slice: once a removal shifts the array, an answer may repeat one path and miss another that
nobody touched, which is why `UntouchedUnlessMoved` needs its condition. A start-up that ends
between creating the search index and associating it leaves Riak with an index that every later
start takes for complete (riak.go:117-125), so that searches, and with them all reloads, go on
failing: `SearchableOrAbandoned` needs `abandoned`. When a pod is posted for an address and then
another for its IP between the two look-ups of one `/authPod`, it answers the pod of the IP,
which never stood for that address. An upload that is answered 400 is stored as far as it parsed
(kvstore/server.go:69). `RestartStore` is called by a test only, and `GracefulShutdown` by
nobody. `Del` does not mark the store as changed, so a deletion is not saved by itself;
`newAuth` uses the request before it checks that it parsed (newapi.go:64); the legacy creation
handler keeps two values and then indexes the third (newapi.go:241-245, 172); a deletion by
place through `lazyDeleteInstance` leaves the record of the instance, whose uuid still
authenticates (newapi.go:210, pmap.go:199); `createInstanceKvConfig` overwrites the third value
of the list it then posts once more (newapi.go:494); a configuration of an odd number of values
may end in a call to `postInstanceConfig0`, which no route has.

## 6. Proofs

All proofs are for every value of the constants under the named assumptions of the modules.

- `IndexSearchProofs`. `LoopInvariant`: what was visited comes before what is left, and
  `found` is innermost of what was visited; from it `FindsInnermost` and `FindsClosedForm`.
  The invariant is needed because the loop compares with one entry only: that a later entry
  which is not inside must end later (`LaterEntry`) makes one comparison enough.
  `IdsAreDistinct`: sixteen-bit ranges never share an id, although the end carries.
- `InstanceCacheProofs`. `IInv` is inductive under `OneHome`: every indexed range is
  registered to a pid whose record is that range (`Agrees`), because every pid is stored,
  indexed and cached at home (`AtHome`). `LookupNeverPanics` and `LookupAnswersAddress`
  follow, with lag, failures and restarts. `ExactInv` adds, without lag, that a cache has
  in its index what it wrote last with success (`ConfirmedWritesCached`) and that what nobody
  wrote is empty; it gives `SoleWriterIsExact`. `RegistrationsStay` has an invariant of its own
  and no hypothesis: at a claimed place Riak and its index have the claimed pid or nothing
  (`ClaimHolds`), so that a reload finds nothing else to put there. `NotFoundIsTrue` and
  `ReloadBringsUpPage` are about single steps: what a search may cut, and that the entries a
  reload puts do not displace each other.
  `OnlyRegistered` needs no discipline of callers: a place is paired with a pid in a cache, in
  Riak or in its index only if that pair was registered (`Stocked`). It holds because a
  reload writes ranges with the pids of the documents it read, and a record with the place of
  one of them.
- `SoleCacheProofs`. `SoleCacheImplementsRegistry`: step by step, every action of the cache
  is a step of the registry or a stutter, from the invariant `CacheIsStore`
  (`SoleCacheIsStore`). It is about one worker over a Riak that neither fails nor lags, and is
  not restarted (`SoleAssumption`), for callers who keep to `OneHome` and `Orderly`.
- `MetadataProxyProofs`. `ProxyInv` has four parts, each with a theorem that uses the first.
  `RequestInv` (`RequestsWellFormed`): how far a request is and what it knows agree, what it
  acts on is what its call named or what is registered for the uuid it named, and of the
  requests of a worker one at most waits for a reload, of the pid it asked for; without the
  last the answer of a reload could be taken for an answer to somebody else. `RootedInv`
  gives `PortsComeFromIaaS`: all that is stored, indexed, cached, stated or adrift is
  `Trusted`, and so is the speaker of every request, which is what lets one step of
  `authzControl` extend a chain of creations of any length. Neither needs `OneHome`.
  `VouchedInv` gives `SpeakersAreVouched`: whatever a lookup may answer was vouched for, and
  matches what was asked. `StatedInv` gives the second half of `StoreFollowsSafe`: two requests are
  between their call and their write at one place only where it is contested; the first half,
  that SAFE once confirmed all that Riak has, is part of `VouchedInv` and knows no contest.
  `CachesAgreeInProxy`
  is `IInv` of `InstanceCache` for the composed system, and `HandlersNeverPanic` its
  consequence. These four assume `OneHome`, for deletions by uuid would otherwise take a
  record whose range stays. The assumptions on the constants say what the callers' discipline
  is (`CallsAssumption`) and that the names that stand for no instance are none.
- `KvStoreProofs`. `IInv` says at every step of a writer what the index lacks or has too much
  of (`IndexFollows`): while the first loop runs, an item still indexes the writer's path as
  often as the rest of the old list has it, and in the second as often as the new list without
  its rest. Hence every removal finds its entry (`RemovalsFound`) and `InverseOfData`
  follows, from lemmas that count the occurrences of a path in a shifted, an extended and a
  copied array. Of a request it says (`Reading`) that each cell has shown only paths that held
  the item; while the index still uses the array, also that its cells, its entries and what
  the writer has still to append there did (`Shares`); and until an entry is shifted, that its
  cells are as they were fetched (`Steady`), since appends go behind them.
  `NothingMadeUp` and `AppendsHideNothing` follow, for any number of readers and arrays of any
  size.
- `ConfigChunksProofs`. `LoopInv`: cursor and remainder agree with the length and with what
  SAFE has reached, the cursor is odd, and something is always left for the last call, so
  that no list of pairs ends in a call of none. `ValuesInOrder`, `RoutesFit` and
  `OkMeansEverything` follow for every length.
- `PodTableProofs`. `TruthsInv`: the pod an address stands for is among the truths of every
  request, and after the first look-up failed so is the pod of the IP until a second post is
  done - because until a first one is done the address is still empty. Only look-ups that met
  no race use it. `IndexInv`: an index without its association means that the program is
  about to associate it or that a start-up was cut short. `AnswersRight` and
  `ServesSearchable` follow for any number of requests, addresses and starts.
- `KvFilesProofs`. `IInv` joins `SavedWhenClean` with `BufferIsFresh` (a clear flag
  during a write means the buffer has what is in memory), `FileIsStable` (reading back a file
  changes nothing, so that a restored store is clean) and `StoredIsHeld` (where what was
  stored is: on disk, or in the buffer while the file is cut short, and in memory too if the
  program restores). `CleanStoreIsSaved` follows. `StoredIsLostOnlyBy` is about any program, the
  one that `main` starts too: what was stored is lost by a deletion, by an end of the process
  that cuts a write, or because the program did not restore it; for a program that restores,
  `RestoredStoreKeeps` concludes `StoredStays`.
  `ReadBack` is any conversion that is idempotent, which TLC checks of `Reread` on the
  lists of the run.

Every invariant that a run checks is also stated by a theorem. Some theorems have hypotheses:
`OneHome` where it is named, no search lag for `CachesExact` and `SoleWriterIsExact`, a finite set
of places for `NotFoundIsTrue` and `ReloadBringsUpPage`, `RestoreFirst` for `RestoredStoreKeeps`;
runs with those constants have states that meet them.

Only model-checked: `PutsReachDisk` and `EveryRequestAnswered`, which are liveness under
fairness, and `Reread`, a recursion over a list, of which the proofs assume that reading twice
changes nothing more (`FilesAssumption`, which TLC evaluates for the lists of the run).

## 7. Plan

1. An abstract content store, whose writes and fetches of the index are atomic, and `KvStore`
   as a refinement of it; `KvFiles` takes it for granted where `Put` and `Del` are one step.
2. Every step of `MetadataProxy` as a step of `InstanceCache` under weaker callers, so that
   `ExactInv` carries over to the composed system as `IInv` does.
3. `NotFoundIsTrue`, `ReloadBringsUpPage` and `RegistrationsStay` for the handlers.

## 8. Not modelled

- The parents of instances: `createInstanceConfig` compares them, and the model leaves the
  verdict open; the second list that `createInstanceKvConfig` posts, of which no text says
  what it should carry.
- What nothing in the program calls: `Unload`, `SetPrincipalGroupPort`, `CreatePrincipal`,
  `GetNetIDMap`, `DelNetAllocation`, `Shutdown`, `safeutils.go`, and the pod functions of
  the cache and of Riak, which are empty.
- `/get_content`, `Get`, `GetValues` and `Keys`, which change nothing and hand out lists that
  are never changed in place.
- `shield/`, a stateless upload.
- The scripts and images (their state is the machines they set up), the HTTP and JSON layers,
  the parsing of addresses and bodies, Riak's own replication.
