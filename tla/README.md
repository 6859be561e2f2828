# GoodiesDB: specifications, model checking and proofs

TLA+ specifications of GoodiesDB, a Redis-compatible in-memory store in Go. Every definition is
translated from the source under `src/`; `PROJECT.json` maps each one to the lines it stands for.

## 1. Inventory of the system

### 1.1 Components

| Component | State it keeps | Operations | Talks to |
|---|---|---|---|
| Store (`internal/core/store`) | `data`: 16 maps key -> value with type and deadline; `mu` | GET SET SETNX DEL EXISTS EXPIRE TTL INCR DECR, list and hash methods, RENAME, SCAN, KEYS, FLUSHDB, FLUSHALL, `GetSnapshot` | sends AOF commands on `aofChan` while it holds `mu` |
| Command layer (`internal/core/command`) | none | one type per command: validates arguments, calls store or broker, formats the reply | Store, broker, callbacks into the server |
| Server (`internal/core/server`) | connections, authentication, database of each connection, `Server.mu`, `shutdownChan`, `aofChan` | Start, `recoverStore`, accept loop, `handleConn`, `invokeCommand`, `startRDB`, Shutdown | all |
| Pub/sub broker (`pubsub.go`) | `channels`, `patterns`, `connChans` under `mu` | Subscribe, Unsubscribe, PSubscribe, PUnsubscribe, UnsubscribeAll, Publish | handlers call it; write goroutines drain its channels |
| AOF (`internal/persistence/aof`) | `appendonly.aof` | `AOFWriter`, `RebuildStoreFromAOF`, `dispatchAOF` | receives from `aofChan`; replays through the store's methods |
| RDB (`internal/persistence/rdb`) | `dump.rdb` | `SaveSnapshot`, `LoadSnapshot` | reads the store by `GetSnapshot` |
| RESP2 codec (`internal/protocol/resp2`) | none | parse, encode | handlers, AOF |
| INFO/CLIENT/HELLO/CONFIG, configuration, logging | none of their own | replies, text | - |

Goroutines: one handler per connection, one write goroutine per delivery channel, the AOF writer,
the RDB ticker, the accept loop, and `main`, which runs `Shutdown` when a signal arrives.

### 1.2 What is hard, and what makes each part correct

* **Store.** A method is one critical section, except SETNX (two) and GET, which reads the value after
  its own, and deletes an expired key without the lock.
  Each method must (a) append to the AOF exactly what it did, including the refused, partial and
  normalised cases, (b) not bring back a value whose deadline has passed, (c) leave no empty hash,
  (d) reply with what the readers then show, (e) work as a lock when used as one (SET NX).
* **AOF and life cycle.** Back-pressure: `appendAOF` blocks on a bounded channel inside the store's
  critical section. Crashes, signals during recovery, the order of records, replay through methods
  that log again, a channel closed under its senders. Required: recovery rebuilds a state that
  existed and has everything that was flushed; nobody waits for ever.
* **RDB.** Two savers, a copy that shares its values with the store, a file truncated before it is
  rewritten. Required: a snapshot that decodes is one moment of the store, and saved data survives.
* **Pub/sub.** Mode, subscription maps, delivery channel and write goroutine live in three places
  and change in several critical sections. Required: they agree whenever a connection is between
  commands, a publisher never sends on a closed channel and never waits for a slow subscriber, and
  no goroutine leaks.
* **Sessions.** A command passes several critical sections of two mutexes and may wait for the log
  channel in the last one; GET deletes without a lock. Required: a command runs on the database its
  client selected, nobody waits for ever, and a deletion takes nothing that is live.
* **Memory.** Values are pointers, lists are windows of shared arrays, and replies are encoded after
  the lock is released. Required: no key ever sees another key's writes, and a reply shows what the
  store held.
* **SCAN.** The cursor indexes an order that is another one at every call, over keys that come and
  go. Required: a page as large as the database is exact, pages do not overlap in the order, and an
  iteration ends.
* **Codec.** Required: what is written is read back to its last byte, whatever follows; a record
  torn by a crash or a failing write costs nothing that was complete before it.

The hazards, each at its line and with the properties that watch it, are in `PROJECT.json`.

## 2. Modules

| Module | Models | Extends |
|---|---|---|
| `StoreOps` | every mutating store method, and the readers the properties need, as a pure operator; `dispatchAOF` | - |
| `Store` | clients calling those methods on one store, with a clock | `StoreOps` |
| `Keyspace` | abstract: keys that are independent strings and sequences | `StoreOps` |
| `Heap` | the same keys as pointers, slices and backing arrays, with replies under way; implements `Keyspace` | `StoreOps` |
| `Persistence` | process life cycle: recovery, blocked methods, AOFWriter, savers, Shutdown, crash | `StoreOps` |
| `Resp2` | the codec, on sequences of bytes | - |
| `AofFile` | the AOF byte by byte, with torn records and failing writes | `Resp2` |
| `Session` | connections and their handlers between `Server.mu`, `Store.mu` and `aofChan` | - |
| `PubSub` | broker, handlers, write goroutines | - |
| `Broadcast` | abstract: publications reach the members of a moment, in order | - |
| `PubSubRefinement` | `PubSub` implements `Broadcast` | `PubSub` |
| `Scan` | SCAN, KEYS, TYPE, STRLEN, GETRANGE | - |
| `StoreOpsProofs` | what each method keeps, logs and replies | `StoreOps` |
| `StoreProofs`, `PersistenceProofs`, `HeapProofs` | theorems and proofs | `Store`, `Persistence`, `Heap`; `StoreOpsProofs` |
| `PubSubProofs`, `SessionProofs`, `ScanProofs`, `AofFileProofs` | theorems and proofs | `PubSubRefinement`, `Session`, `Scan`, `AofFile` |
| `MC...` | constants for TLC; one `.cfg` per run | the module they instantiate |

### 2.1 StoreOps

A single-key method takes the entry under the key, the time and its arguments, and returns a
`Result`: the entry it leaves, the AOF commands it appends in order, and the reply. A method over a
whole database returns an `Outcome`. One result is one critical section of `Store.mu`.
Data are abstracted to what the methods distinguish: a string is a canonical numeral (an integer),
a word, or a non-canonical numeral such as `+1` that `Atoi` reads and `Itoa` never prints. Integers
wrap at `MinInt` and `MaxInt`, as Go's `int` does. Deadlines are in clock units, `Second` of them
to a second, so that PX's rounding is visible. `dispatchAOF` calls the same operators as clients
do, because the code calls the same methods.

### 2.2 Store

State: `data`, the clock `now`, and `setting`, what a client between the two halves of SETNX is
about to write. One action per mutating method, plus `Tick`. Two history variables observe:
`follower` executes each appended AOF command at the moment it is appended, `grants` counts the
clients that were told they created a key since it was last absent.

### 2.3 Persistence

State: the memory of a process (store, holder of `Store.mu` with the records it still has to send,
`aofChan`, the AOF writer, the progress of replay, of the two savers and of Shutdown) and the two
files. A client call is `Begin`, one `Send` per record, `Commit`; the holder keeps the lock all the
while, so that a full channel stops every other call. `Boot`, `LoadSnapshot`, `ReplayCommand`,
`FinishReplay`, `Serve` are `Start`; `ShutdownStop`, `ShutdownClose`, the save and `Exit` are
`Shutdown`, which may begin in any phase. `Crash` may happen at any point.
The histories `hist` and `durable` say which states clients have led to, and up to which of them
the AOF holds everything.

### 2.4 PubSub

State: subscriptions, the number of each connection's current delivery channel, the state and
content of every channel ever made for it, its write goroutine with the message in its hand, the
mode, and where each handler is in its command. A command runs step by step: one action per
critical section of the broker, per confirmation written, per `SetMode`. A publisher delivers one
message at a time and holds the read lock meanwhile.

`Broadcast` has none of this: members of topics, a line of waiting messages per connection, the
deliveries a publisher owes. `PubSubRefinement` maps a connection's line to its channel, with the
message its write goroutine holds in front, and what a publisher owes to the rest of its loop.

### 2.5 Session

State: where each handler is in its command, the connection's database, who holds `Server.mu` and
`Store.mu` across a step, the data, how full `aofChan` is, the listener. `handleConn`,
`getCurrentDb`, the lookup in `invokeCommand` and the command's own critical sections are separate
actions. SELECT keeps `Server.mu` while it waits for `Store.mu`; a writer keeps `Store.mu` while it
waits for the channel; GET's second look at the deadline and its `Store.Delete` take no lock, so that
the Go runtime may also find a concurrent map access there and end the process (`fatal`). CLIENT,
HELLO, INFO and AUTH are `OnConn`. History: what each client last selected, what the records sent
so far rebuild, and from which databases a lazy delete took a live value.

### 2.6 Resp2 and AofFile

`Encode` and `Parse` are the encoder and the parser of `protocol/resp2`, on sequences of bytes: a
parser fails, or returns a value and the bytes it leaves. A value has a prefix, its bytes or its
number, and its items. What is recursive is a recursive function: `Encoder` of the depth of a value
(`Values[d]` are those nested at most d deep, `MaxDepth` bounds what is written), `Items` of the
input, which is shorter each time. `ReadNumber` does what `Fscanf("%d\r\n")` does: spaces are skipped,
and the end of the input may stand for the newline. A panic of the code (a line without its CR, a length
below -1) is a failure here. `AofFile` keeps the file as bytes. `AOFWriter`
appends one encoded record; `Crash(n)` and `WriteFails(n)` leave n bytes of it, the latter with a
running process that has no writer any more. `Start` parses the file, sends what it replays to
the channel and opens the file at its end, behind whatever is torn. History: the commands whose
records are complete, up to the first torn one.

### 2.7 Heap and Keyspace

State: `ref` (the map: key to pointer), `val` (the Values), `arr` (the backing arrays), and for each
handler the reply it still has to encode: a pointer (GET) or a slice (LRANGE, LPOP and RPOP with
a count). GET replies with a list, too, as a text: `DoGet` takes the pointer, `AsList` is `ToString` taking the
slice the Value has by then, without the lock, and the elements are formatted one by one, like those
of the other replies (`EncodeElement`). `append` writes into the array when it has room, over what an earlier, longer slice
showed; otherwise it allocates, with or without spare room. Encoding is one action per element, since
pushes and pops of other handlers come in between. A location is named by a root, a key or a
handler, that reaches it, or `New` while a step allocates it. A step builds its heap with the names
before it; `Becomes` notes what pending replies of GET are owed (`Seeing`: what the key shows, as long as
it holds the Value), drops what no root
reaches and names the rest again (`Collected`), so that heaps of the same shape are one state. `Entries` reads the
keys through pointers and slices; under this mapping `Heap` implements `Keyspace`, whose keys are
plain values that the operators of `StoreOps` change.

### 2.8 Scan

One database with changing keys, and the iteration of one client. `Store.Scan` builds the list of live
keys in the order of the map, cuts a page at the cursor and filters it. As that order is any order, a
page is any set of live keys of the page's size, of which those that match come in any order
(`Pages`); a cursor behind the end of the list gives the cursor 0 and no keys (`Past`).

### 2.9 Reading the modules

An operator whose comment begins with "mutant" is a plausible wrong version of the definition that
follows it. No specification uses it. `PROJECT.json` says which property fails when it takes the
place of the original, so that each property is known to depend on the code it speaks of.

## 3. Runs

### 3.1 Runs that pass

| Run | Properties | What it shows |
|---|---|---|
| `store_log` | `TypeOK InSync NoEmptyHash RepliesMatchReads` | All methods but EXPIRE, two databases, two clients: executing the AOF commands as they are appended gives the store; every reply agrees with the readers. |
| `store_expiry` | `InSync AtMostOneGrant RepliesMatchReads ExpiredStaysGone` | Two keys, EXPIRE, EX, PX and the clock, without HDEL and SETNX: the same; SET NX grants a key once per life; an expired key returns only by being replaced, or by EXPIRE. |
| `persistence_aof` | `TypeOK RecoversFlushed OperationsFinish RecoveryFinishes` | AOF only, more calls than places in the channel: after one crash or shutdown anywhere, recovery reaches a state clients led to, no older than what the file holds; a call blocked on the full channel gets through; recovery of a file that fits in the channel ends. |
| `persistence_rdb` | `SnapshotIsAState` | RDB only, values replaced rather than changed: both savers, also at once, leave one moment of the store or a file that does not decode. |
| `pubsub_broker` | `TypeOK ChannelIffSubscribed ModeMatches TargetsStaySubscribed PublishCountsOnce PublishEnds WritersEnd ImplementsBroadcast` | Subscriptions, channels, modes and goroutines agree; publishers deliver to live, subscribed connections only and count none of them twice; a publication reaches the subscribers of one moment in order, or is dropped for a full buffer; PUBLISH ends though nobody reads; every write goroutine ends after its connection. |
| `session_locks` | `TypeOK RunsOnSelected LogAgreesUnlessLost CommandsFinish StopFinishes` | Two connections, two databases, a channel of one place: a command runs on the database its client selected; while nobody writes, the log rebuilds what clients see, but for live values a lazy delete took; no command, disconnect or shutdown is stuck. |
| `aof_torn` | `RecoversComplete PrefixSurvives FramesAreExact` | Crashes and failing writes at any byte: recovery replays exactly the complete records while the torn one is the last, and what was complete before it stays in front for ever; every value is read back exactly. |
| `heap_replies` | `TypeOK KeysNeverShare RepliesExactUnlessCut GetReadsItsKey ImplementsKeyspace` | Keys never share memory and behave as independent values; replies under way show what the list held, and GET the string or list of its key, unless elements were cut off at the right end or RENAME moved the Value. |
| `scan_pages` | `OnePageIsExact PagesTile RangeIsExact IterationEnds` | A page of the whole database is exact; pages of an undisturbed iteration hold as many keys as there are; an iteration ends whatever happens to the keys; GETRANGE is exact for all indexes around the string. |

### 3.2 Runs that show a disagreement

Each checks one statement a doc, a comment or a test makes and finds a behaviour of the code
against it. `PROJECT.json` quotes the statement.

| Run | What the code does |
|---|---|
| `persistence_twice` | Replay appends what it replays to the file it reads: the second restart counts twice. |
| `persistence_noaof` | With AOF off nobody reads `aofChan`: once it is full, a write blocks for good under `Store.mu`. |
| `session_lazy` | GET's lazy delete takes a live value: it sees its value expire, another client SETs the key, and the delete goes by the key. |

The models follow the code in these points too, and the passing runs or the theorems leave them out
by a condition that is named where it is used:

* SETNX checks and writes under two locks, so that two clients are told they created the key
  (`store.go:186`); `AtMostOneGrant` is about SET NX where nobody uses SETNX.
* Recovery fills `aofChan` before its reader is started: an AOF with more records than the channel
  has places stops `Start` for ever (`server.go:70`); `RecoveryFinishes` is about files that fit.
* Shutdown closes `aofChan` while handlers run, and the next append panics (`server.go:121`): the
  action `Panic`. What was flushed is still recovered.
* The snapshot shares its values with the store: INCR of two keys while it is encoded makes it a state
  that never was (`store.go:52`); `persistence_rdb` replaces values only.
* Messages still in a closed channel are pushed after UNSUBSCRIBE was confirmed (`server.go:325`).
* A bulk string torn by a crash takes its missing bytes from the records appended behind it
  (`parsers.go:45`, whose terminator is not checked): these are lost, or what is left of them may be
  replayed as a command nobody sent. `RecoversComplete` is about a torn record at the end of the file.
* RPOP with a count replies with a slice of the list's array, and a push that comes before the reply is
  encoded overwrites it; so does LTRIM with a pending LRANGE (`store.go:415`).
  `RepliesExactUnlessCut` leaves these replies out, among them every reply of RPOP with a count.
* GET reads its Value after the lock is released; if RENAME moved the Value meanwhile, it sees what
  INCR or a push does to the new key (`commands.go:109`); `GetReadsItsKey` leaves this out.
* GET formats a list from its array without the lock (`get.go:41`): when it has read the a of [a b c] and
  other clients call RPOP, RPOP and RPUSH x, it replies [a x c], a value the key never had. `GetReadsItsKey`
  leaves out the replies that elements were cut from at the right end, as `RepliesExactUnlessCut` does.
* GET of a hash formats the map without the lock while HSET and HDEL write to it (`get.go:41`,
  `types.go:176`): a data race, of which the Go runtime may make any mixture, or end the process. `Heap`
  has no hashes (5).
* KEYS and TYPE show expired keys (`store.go:587`).
* SCAN repeats keys and misses others when the map order changes between two calls
  (`store.go:620`); `PagesTile` counts them.
* A nil array is encoded as an empty one (`encoders.go:43`).
* A read error other than EOF, such as a reset connection, makes `handleConn` try again for ever
  (`server.go:166`); the connection is then never removed, and no property is about it.
* RENAME k k deletes k (`store.go:543`); `RepliesMatchReads` asks for two names.
* INCR of the largest integer wraps around (`store.go:226`).
* INCR and the pushes work on a value whose deadline has passed, so that what they write is lost
  (`store.go:215`, `:288`); `RepliesMatchReads` leaves pushes on such lists out.
* TTL of a key that has expired is 0 or less, and -2 two seconds after its deadline, when the key is
  still there and EXPIRE replies 1 (`store.go:258`); `RepliesMatchReads` compares TTL and EXPIRE for keys
  that have not expired.
* HDEL removes an expired key and logs nothing (`hash.go:95`), and a PX deadline is logged rounded
  down to seconds (`commands.go:54`); `LogsExactly` excludes both.
* A call returns while its record is still in the channel (`commands.go:31`): `RecoversFlushed`
  promises what is in the file, not what was replied to.
* Replay counts EXPIRE from the time of the restart (`aof_internal.go:69`), and SET EX is two
  records which a crash may separate (`commands.go:51`); the AOF run sets no deadlines.
* With both files the snapshot wins, and newer AOF records are ignored (`server_utils.go:133`).
* `dump.rdb` is truncated first, so that a crash then leaves no snapshot (`rdb.go:22`), and a signal
  during recovery saves the empty store over it (`server.go:126`).
* Subscribing again starts a second write goroutine while the first one drains (`server.go:325`),
  and a second SUBSCRIBE writes its confirmation while a write goroutine writes (`server.go:306`).
* A connection that two patterns match is counted twice by PUBLISH (`pubsub.go:160`).

### 3.3 Bounds, and why they are enough

* `MinInt = -2, MaxInt = 1` (store) puts the wrap-around two steps from zero; nothing in the
  methods compares integers with anything else. The other runs use -4 .. 4.
* Methods work on one key, RENAME on two, FLUSHDB on one database, FLUSHALL on all: one key in two
  databases, and two keys in one, are the cases. Two fields are needed for a hash that shrinks
  without vanishing. `MaxLen` 2 or 3 leaves room for a pop of two, and for windows that cut from
  both sides, cut all, or lie outside the list.
* `Second = 2` makes one PX of a whole second and one that is not; `MaxNow` 3 or 4 lets a deadline
  pass and another one be set and pass. `MaxNow` is 0 in `store_log`, and 1 in `persistence_rdb` and
  `persistence_aof`, whose calls set no deadlines: time only has to pass.
* `ChanCap` 1 to 3 for the 100 of `NewServer`: the behaviours differ in whether the channel is
  full. In the runs about back-pressure the calls outnumber the places. The RDB runs, where AOF is
  off, give it room (9) or few calls.
* `MaxBoots = 2` is one crash or shutdown and the recovery from it, 3 the recovery after that.
  `persistence_aof` stops at 2 and uses no deadlines, because more is false (3.2).
* `MaxSaves = 2` gives the ticker a second save, next to the one of Shutdown.
* Two connections suffice for a publisher with a subscriber, each in both roles. `BufSize = 1` for
  64: full, or not. `MaxGen = 2` is a channel that drains beside its successor; a connection that
  has used both makes no third one, and such a step is simply not taken. `MaxCmds`, `MaxMsgs` bound
  the commands.
* Session: one key in each of two databases, since a method is about one key; one place in the
  channel makes the second record of SET EX wait. `MaxCmds = 3` is a GET, a SET that expires and
  a SET that replaces, and `MaxNow = 2` lets a deadline pass between two of them.
* AofFile: a record of one short word, and one with an argument that looks like a record, is long
  enough to swallow the start of one and has a length of two digits, so that it can be torn between
  them. Three commands and two faults are a torn record, records behind it, and a second torn record
  or restart. `MaxRecord` (100) exceeds every record's length. The replies are values of each type,
  an array of them and an array in an array (`MaxDepth = 2`).
* Heap: two keys, since sharing needs two, and one reply under way, while any other handler pushes, pops
  and trims: replies only read, and the theorems are about any number of them. A pop with a count, which would
  be a second reply, is two without one to the list. Two pushes and lists of up to three elements reach an
  array that is longer than its list, one that several slices share, and its overwriting under a reply: [0 1]
  becomes [0] by RPOP and, in the same array, [0 0] by RPUSH. The room that a push finds in
  place is what a pop or trim left; spare room of an earlier push (`MaxSpare`) would take a third one,
  and is covered by the theorems.
* Scan: three keys and pages of one, two or all of them give iterations of one, two and three pages;
  `MaxChanges = 4` fills the database and changes it once more. Counts are assumed to be such that
  cursor + count fits in an int.
* Deadlock is checked in the store, heap and scan runs. Session and AofFile stop when clients have
  hung up or the faults and commands are used up. Persistence and PubSub stop when the bounds are used up
  (a process that is down and may not boot again, connections that are all gone), so that it is
  off there; `OperationsFinish`, `RecoveryFinishes`, `PublishEnds`, `WritersEnd`, `CommandsFinish` and
  `StopFinishes` say what must not get stuck.

### 3.4 Fairness

* Persistence: weak fairness of recovery, of the holder of `Store.mu` (`Locked`) and of the AOF
  writer. These are goroutines with nothing but each other to wait for, and the Go scheduler runs
  them. Nothing is assumed of clients, the clock, signals, the savers or crashes.
* PubSub: weak fairness of each handler that is inside a command: `sync.RWMutex` is fair to
  writers, and confirmations are small. A write goroutine may hang in `conn.Write` as long as its
  client does not read, so that fairness is assumed of it only once its connection is closed, when
  a write returns at once with an error.
* Session: weak fairness of each handler inside `handleConn`, of the AOF writer and of Shutdown once
  the signal came. With bounded commands every lock is in the end free for good, so that weak
  fairness suffices; without the bound it would have to be strong, and Go's mutexes, which hand
  themselves to a waiter that starves, give that. Nothing is assumed of clients (`Parse`, `Hangup`), of
  signals or of the clock.
* Scan: the client goes on with an iteration it began.

## 4. Proofs

TLC's instances are small; the theorems hold for every value of the constants that meets the named
assumptions of the modules (`...Assumption`). No bound is used but as an arbitrary natural. In short:
every invariant and action property the passing runs check, and both refinements, are theorems, some
under a named premise. What is left to TLC alone is liveness.

`StoreOpsProofs` has, method by method, the lemmas the store's theorems share: the result is well
typed, executing the log gives the entry, and which fields of the entry it keeps.

### 4.1 Store

| Theorem | Statement |
|---|---|
| `Typing` | `Spec => []TypeOK`: stored integers stay within Go's `int`, values keep their shape. |
| `HashesNeverEmpty` | `Spec => []NoEmptyHash`. |
| `FollowerInSync` | `LogsExactly => (Spec => []InSync)`: the AOF loses nothing if PX deadlines are whole seconds and HDEL is not used together with deadlines. |
| `SetNXLocks` | `"SETNX" \notin Ops => (Spec => []AtMostOneGrant)`: SET NX is a lock as long as nobody uses SETNX. |
| `ExpiredNeverReturns` | `Spec => ExpiredStaysGone`: an expired key becomes visible only by a new value or deadline. |
| `RepliesAreTrue` | `IsFiniteSet(Field) => (Spec => []RepliesMatchReads)`: replies agree with the readers. |

The premises of `FollowerInSync` and `SetNXLocks` are exactly what section 3.2 says goes wrong (PX, HDEL,
SETNX): the theorems say that nothing else does. That of `RepliesAreTrue` lets fields be counted; a Go
map has finitely many.

The arguments:

* *Typing.* One lemma per method says that its result is well typed (the entry, and each logged
  command); one case per action.
* *No empty hash.* Not inductive alone, since RENAME moves any entry and replay is not constrained:
  the strengthening `AllFull` says it of every entry, well-typed ones being given.
* *In sync.* For each method, a lemma shows that executing its log from the entry before gives the
  entry after: the clamped counts of the pops, the normalised window of LTRIM, DEL for an emptied
  one, EXPIRE after SET for EX. With `NoExpiry` the strengthening `AllLasting` (no entry has a
  deadline) removes HDEL's silent deletion.
* *Lock.* `AtMostOneGrant` needs that a key which is not live has no grants; then a grant, which
  requires a key that is not live, makes the count one. `NobodySetsNX` says that `setting` stays
  idle when SETNX is not used.
* *Expired keys.* For each method that works on a stale value, a lemma says that it keeps the deadline,
  so that the key stays expired. A missing key could come to life with the deadline of an earlier value:
  the strengthening `AllBare` says that a missing entry has no deadline.
* *Replies.* A statement about the operators for every well-typed entry, so that `TypeOK` is all it
  needs of a state: counts of fields by the cardinality of differences, popped and remaining elements
  by concatenation. Its proof showed that the property was stated too strongly: TTL and EXPIRE disagree
  about a key that expired two seconds ago (3.2), later than the bounds of the runs let the clock go.

### 4.2 Pub/sub

`PubSubProofs` proves, for any set of connections, finitely many topics (`FiniteAssumption`: a
server holds finitely many names), any argument lists over them and any bounds:

| Theorem | Statement |
|---|---|
| `Typing` | `Spec => []TypeOK`: among others, a confirmation never counts less than zero subscriptions, a buffer holds no more than `BufSize`. |
| `ChannelsFollowSubscriptions` | `Spec => []ChannelIffSubscribed`. |
| `TargetsSubscribed` | `Spec => []TargetsStaySubscribed`. |
| `ModeMatchesChannel` | `Spec => []ModeMatches`. |
| `PublishCountsEachOnce` | `Spec => []PublishCountsOnce`. |
| `BrokerImplementsBroadcast` | `Spec => ImplementsBroadcast`. |

The arguments:

* *Base.* `TypeOK` needs `ArgsLeft` (a command that names topics has one left, so that `Head` is a
  topic) and `OnlyPublishers` (other handlers have nothing to deliver). Their conjunction is `Base`.
* *Channels.* Inductive together with `Base`. Only three methods change subscriptions or channels
  (`BrokerKept`); each changes those of its own connection and agrees with the count of its topics.
* *Targets.* A change of the subscriptions needs the write lock, which meets no publisher
  (`NoPublisherAfter`); a publisher starts with what the subscriptions say, and its deliveries
  only get fewer (`TodoShrinks`).
* *Modes.* `ModeMatches` says nothing in the middle of a command. `ModeInStep` does, command by
  command: while SUBSCRIBE goes on, subscriber mode has a running write goroutine; before each
  broker call of UNSUBSCRIBE everything is in line; once its confirmation is due, a count of zero
  means the channel is gone. A finishing write goroutine is never the current one, since its
  channel is closed and the current one is open.
* *Counting.* `Counting`: what PUBLISH has counted and what it will count of its remaining deliveries is no
  more than the connections its channel reaches. The premise that no two patterns match a connection
  is in the property itself, and the subscriptions must be finitely many (`SubsFinite`).
* *Refinement.* One lemma per action: broker calls change the members of topics, a delivery puts a message at
  the end of a line or drops it for a full buffer, a write goroutine takes it from the front, all
  other steps are stutters. Besides the invariants above the mapping needs `UnusedEmpty` (a channel
  that was never made holds nothing), since a new subscription begins with an empty line.

### 4.3 Sessions

`SessionProofs` proves, for any connections, databases, values, set of commands over them and any
bounds (`SessionAssumption`):

| Theorem | Statement |
|---|---|
| `Typing` | `Spec => []TypeOK`: among others, the AOF channel never holds more than its capacity. |
| `LockOrder` | `Spec => []LocksInOrder`: `Server.mu` is held across a step exactly by a handler in the middle of SELECT, `Store.mu` exactly by one that is sending its records. |
| `SelectionIsolated` | `Spec => []RunsOnSelected`. |
| `LogAgrees` | `Spec => []LogAgreesUnlessLost`. |

The arguments:

* *Base.* `TypeOK` with `Progress`: the place of a handler determines the kind of its command
  (`InCommand`), and what a writer has yet to send is an end of what its method logs (`ToSend`).
* *Lock order.* SELECT waits for `Store.mu` with `Server.mu` in its hand; `LocksInOrder` says that
  whoever it waits for is sending, which needs the channel and no other lock. That the channel is
  drained is fairness, so that the absence of a blockade itself (`CommandsFinish`,
  `StopFinishes`) stays with TLC.
* *Selection.* A command fetches its database once, in `GetCurrentDb`. `OwnSelection` (the table of
  the server says what the client was told, and a served connection is in it) makes that the
  selected one; only SELECT of the same connection changes it, and then the command is over.
* *Log.* While a writer is sending, data and log disagree on its database, so the invariant has two
  parts: databases nobody writes to agree already, and the writer's will (`WillAgree`, by what is
  yet to be sent). A value logged without a deadline also has none in the store; the lazy
  deletion of GET can therefore take it only while it is live, which is what `lost` counts.

### 4.4 Persistence

`PersistenceProofs` proves, for any calls, capacity of the channel, clock and bounds, with crashes, panics
and signals at any point:

| Theorem | Statement |
|---|---|
| `Typing` | `Spec => []TypeOK`: among others, the channel never holds more than its capacity. |
| `SnapshotsAreStates` | `~UseAOF /\ Replacing => (Spec => []SnapshotIsAState)` |
| `FirstRestartRecovers` | `OneRestart => (Spec => []RecoversFlushed)` |

The premises are the conditions of the runs `persistence_rdb` and `persistence_aof`: calls that replace
values (`Replacing`); one restart, no RDB file and no deadlines (`OneRestart`). Section 3.2 says what
goes wrong without them: values shared with the snapshot, the second restart, EXPIRE counted from
the restart, the snapshot that wins over newer records.

The arguments:

* *Typing.* `Types` gives every record in the file, the channel, the writer's hand and the holder's list the
  type of a command that replay executes.
* *Snapshots.* `Copies`: whatever can get into `dump.rdb` (the data, what the holder will commit, the
  copies of both savers, the file) is a state of the history, which only grows.
* *Recovery.* The file, the writer's hand, the channel and the holder's list are one line of records
  (`Line`), and `Tells(Line, hist)` says that executing them one after the other leads, record by
  record, to the states their operations led to. Appending, sending, receiving and flushing only move records along the line; a
  crash cuts it. `Recoverable` says this phase by phase: nothing has happened before the first
  process serves (`Young`); then the line tells everything (`Serving`); once the process is gone the
  file tells the beginning (`Fallen`); the second one is where the records replayed so far lead
  (`Rebuilding`). Without deadlines executing a record does not depend on the clock (`AllLasting`).

### 4.5 Heap

`HeapProofs` proves, for any number of keys and of handlers with replies under way, any arguments,
lengths and spare capacities:

| Theorem | Statement |
|---|---|
| `HeapTyping` | `Spec => []TypeOK`: no slice leaves its array, no pointer dangles. |
| `KeysStayApart` | `Spec => []KeysNeverShare`. |
| `UncutRepliesAreExact` | `Spec => []RepliesExactUnlessCut`. |
| `GetIsCurrent` | `Spec => []GetReadsItsKey`. |
| `HeapImplementsKeyspace` | `Spec => ImplementsKeyspace`. |

The arguments:

* *The invariant* is `Tidy` (`AlwaysTidy`): keys hold well-formed values (`KeyOK`) and do not share them
  (`Apart`); a pending GET points to a whole string or list, which no other key writes to, neither in the
  Value nor in its array (`GetOK`, `Alone`), and is owed what it points to (`Paid`); a pending slice
  shows what it owes, and unless it was cut, a list in its array does not end before it (`ListOK`), which
  is why an append, which writes behind the end, misses it; nothing is left at `New`.
* *GET of a list* becomes a pending slice (`AsListTidy`): it takes the window of a Value it is owed, and by
  `Alone` a list in that array is the Value's own, so that it does not end before the window.
* *Collection.* The step before the unreachable goes needs `Intact` only. That renaming locations keeps all of
  it, and what each key shows, is proved once (the section on names), for any heap a step builds.
* *Refinement.* For each method a lemma says what the keys hold after it, read through pointers and slices
  (`Puts`, `Moves`, `Stays`), in terms of what they held and the operator of `StoreOps`: a window
  that moves or narrows is a subsequence, an append in place or into a new array a concatenation. No other
  key's value changes. Hence each step is a step of `Keyspace` or a stutter.

### 4.6 Scan

`ScanProofs` proves, for every finite set of keys, all texts, patterns and counts:

| Theorem | Statement |
|---|---|
| `WholePageExact` | `Spec => []OnePageIsExact`. |
| `IterationTiles` | `Spec => []PagesTile`. |
| `RangesExact` | `Spec => []RangeIsExact`. |

The arguments: `Returned` adds to the first two properties that the cursor of an undisturbed iteration is less
than the number of live keys, so that the next page begins inside the list; a page of n keys holds n, as
an enumeration of a set lists each element once (`Enumeration`). `RangesExact` needs the types only
(`Texted`): the length of a clamped range is that of the interval of indexes it stands for.

### 4.7 The AOF as bytes

`AofFileProofs` proves, for any commands of any bytes, any replies of any depth, and any number of crashes,
failing writes and restarts:

| Theorem | Statement |
|---|---|
| `AofLayout` | `Spec => []IInv`: the file is the whole records and then nothing, the beginning of one record, or bytes that were appended behind such a beginning. |
| `AofRecoversComplete` | `Spec => []RecoversComplete`. |
| `AofPrefixSurvives` | `Spec => []PrefixSurvives`. |
| `AofFramesAreExact` | `Spec => []FramesAreExact`. |

The arguments:

* *Induction.* The library's induction theorems take an operator as a parameter, which the provers cannot
  instantiate. `StrongInduction` takes a set instead: of the numbers that it lacks one would be the least
  (`LeastElement`, from the well-foundedness of the order), and that one cannot be missing.
* *The recursive functions exist.* TLA+ gives a recursive function its defining equation only if some function
  satisfies it. For `Decimal`, `NumberOf`, `Values` and `Encoder` the functions up to n are built one after the other and
  agree (`DecimalUnfolds`, `ValuesUnfold`, `EncoderUnfolds`). `Items` and `Replayed` are defined by the parser
  itself: that the recursion goes down is the fact that `Parse` takes at least one byte (`ParseAnswer`), and an
  answer never leaves more than it was given (`Tame`), which has to be known of the shorter inputs to say
  what the longer ones give (`ItemsUnfold`, `ReplayUnfolds`).
* *Round trip.* Numbers are read back digit by digit (`NumberReadBack`), strings by their length, which is why
  their bytes do not matter (`BulkBack`), arrays item by item (`ItemsBack`), and nesting by induction over the depth
  (`EncodersBack`). `RoundTrip` is the result, with any bytes behind the value.
* *Torn records.* No proper beginning of a record parses (`RecordTorn`). The delicate case is a number
  that the end of the file cuts off: `Fscanf` accepts what is left of it (`TornNumber`). Nothing follows it, so that
  `ReadFull`, which wants two bytes more than the length, fails; and a count that is cut is still at least 1, since
  it has no leading zero (`DigitsTorn`), so that the first item is missed.
* *The file.* `Layout` is inductive with the types: a whole record at the end of whole records
  makes one more of them, a torn one is the last, and what comes behind it changes nothing that was in front
  (`InsideKept`). Recovery reads whole records one by one (`RecordsReplayed`), and then a torn one, of which nothing
  is replayed. Whatever the bytes behind a torn record make of themselves, they are commands (`RebuildType`),
  so that the channel holds nothing else.

### 4.8 Only model-checked

* The liveness properties (`OperationsFinish`, `RecoveryFinishes`, `PublishEnds`, `WritersEnd`,
  `CommandsFinish`, `StopFinishes`, `IterationEnds`): fairness and ENABLED are beyond the prover.

## 5. Abstractions

* A method of `Persistence` changes the store at the end of its critical section. The code of INCR
  and of the pushes changes the value before `appendAOF`; only the encoder of a snapshot could see
  the difference, since it alone reads values without the lock, and `AfterCommit` lets it see either.
* `Flush` of `Persistence` writes a whole record; `AofFile` has the torn ones. `AofFile` in turn has no
  store: what a command does when it is replayed is the matter of `Persistence`, and `Start` sends the records
  of all commands it replays, where the code sends those that the methods log.
* No background task removes expired keys in the code; expiry is lazy, and so it is here.
* Durations are exact; the overflow of a huge EX or EXPIRE into a negative duration is left out.
* A successful listen is assumed in `Serve`; `WaitForReady` is left out.
* The wait for `Server.mu` in `SetMode` is part of `SetSubscriber` and `SetNormal`: in the
  pub/sub model nothing holds it across steps. In `Session`, in turn, the broker's mutex is not
  held by anybody: no handler holds another lock while it waits for it, but `SetMode`, whose
  `GetConnChan` waits for publishers only, which never block.
* `Session` has SET with and without EX, and DEL, for all methods that write, one key per database,
  and no EXPIRE. AUTH changes a field that nothing reads, since no registered command requires
  authentication; QUIT replies and leaves the connection open, like any command without effect.
* `Heap` has no deadlines and no hashes. HGETALL and HGET copy under the lock, but GET of a hash formats the
  map without it while HSET and HDEL change it (3.2): what comes of this is up to the Go runtime, and not
  modelled. Elements of lists are strings,
  as everything the commands push is. A method is one step, and an element is read at once: the word
  that a racing write changes is seen before or after.
* `Resp2` leaves out numbers that overflow 64 bits (`Fscanf` reports them; lengths and counts that are written do
  not) and white space that is not ASCII. `Values` has no nil array, since no reply is one, and no line with
  a newline inside: the reply to an unknown command quotes its name, and with a newline in the
  name it is not read back as one line.
* In `Scan` a pattern is the set of keys it matches.

## 6. Not modelled, and the plan

Not modelled: the replies of CONFIG, PING and ECHO, and the text of INFO, CLIENT and HELLO, which are fixed or
format a field no other step reads; configuration, logging and `internal/utils`; the command registry;
the RESP3 types, which nothing uses; gob's encoding of a snapshot.

Next: `Session` with the subscriptions of `PubSub`: a disconnect while a publisher delivers.
