# The auction server in TLA+

A verification project for the C++ auction server: TLA+ modules of its
components, TLC configurations that check them on small instances, and proofs
that TLAPS checks for every value of the constants. The reference is the code
under `src/`; every module names the lines it models in `PROJECT.json` ("map").

## 1. The system

| Component | State | Operations | Talks to |
| --- | --- | --- | --- |
| `AuctionHouse` (listings) | `auction_items_`, `next_auction_id_`, `mutex_` | constructor, `registerItem`, `purchaseItem`, `cancelListing`, `processExpiredItems` | `DatabaseManager`, under `mutex_` |
| `AuctionHouse` (search) | four indices from type, seller, price and keyword to ids | `searchItems`, `updateIndices`, `removeFromIndices`, `indexItemKeywords` | search cache, `getUserInfo` |
| `DatabaseManager` (documents) | MongoDB collections `auctions`, `users` | `saveAuctionItem`, `updateAuctionItem`, `deleteAuctionItem`, `loadAllAuctionItems`, `updateUserBalance`, `getUserInfo` | MongoDB, synchronously |
| `DatabaseManager` (search cache) | Redis: `search:<hash>`, 300 s | `cacheSearchResults`, `getCachedSearch` | Redis |
| `DatabaseManager` (item cache) | Redis: `item:<id>`, 300 s; `redis_available_` | `getAuctionItem`, the `del` in `updateAuctionItem` and `deleteAuctionItem` | Redis, MongoDB; no lock of its own; only tests call `getAuctionItem`, nothing calls `deleteAuctionItem` |
| `DatabaseManager` (lists) | none | `getPopularItems`, `getItemsByCategory` | MongoDB; nothing calls them yet |
| `Transaction` | `committed_` | `commit`, `rollback` | nothing: both change no database state |
| `ClientSession` | socket, read buffer, login, reply queue, `is_writing_` | read chain, `process_message` and its handlers, `send`, write chain | `AuctionHouse`; all sessions share `Protocol::current_message_size_` |
| `AuctionServer`, `main` | `io_context`, acceptor, worker threads, `running_` | `start`, `stop`, accept chain, `run_worker` | would create sessions; `handle_new_connection` is a stub |
| `Protocol` | the global `current_message_size_` | byte order helpers | |
| tests | | unit tests against a mock, a load generator | |

What is hard here:

* **Concurrency.** Worker threads enter the auction house at any time; a
  purchase is four separate database calls that only `mutex_` keeps together.
  The read and write chains of a session run on different threads.
* **Partial failure.** A database call can fail without effect, take effect and
  still report an error, or throw. `Transaction` undoes nothing, so each failing
  path leaves what it did. In `updateAuctionItem` a Redis exception escapes
  after the document was written.
* **Crash and restart.** Memory is rebuilt from `auctions`; whatever memory knew
  and the collection does not is forgotten, the ended state of a listing whose
  write failed included.
* **Stale data.** Search answers are cached for 300 s and never invalidated,
  under a hash that does not tell every two searches apart.
  Single listings are cached too, and a reader may file what it read before a
  writer removed the key.
* **Life cycle.** `stop()` joins workers that may be anywhere; the accept chain
  runs through a handler that can throw; nothing restarts a stopped
  `io_context`.
* **Numbers.** Prices are `uint32_t` in memory, `int32_t` in the database and in
  the balance arithmetic; page arithmetic is 32 bits wide.

* **Not yet connected.** `handle_new_connection` creates no session, and the
  program itself never calls `getAuctionItem`: sessions and the item cache are
  modelled as the code that is there defines them, with callers that use them as
  their interface allows.

What makes the components correct: one buyer per listing, a reported sale is
durable, no goods without payment, unique ids, sound indices, exact searches,
cached answers of bounded age, cached listings stale only for known reasons and
never for good, messages read whole, every message answered once and in order,
"success" told only of what is recorded, locks released, sessions released,
workers joined, clients accepted. `PROJECT.json` ("hazards")
lists where each of these could go wrong, and which property would show it.

## 2. Modules

| Module | Content |
| --- | --- |
| `Marketplace` | abstract specification: a listing is offered once, ends once, and its one buyer is told at most once |
| `AuctionHouse` | listings, purchases, money, failures, crash and restart; implements `Marketplace` |
| `AuctionHouseInvariant` | the inductive invariants `ProcessInv`, `StoreInv`, `MoneyInv`, `BooksInv` |
| `MCAuctionHouse` | small instance for TLC |
| `AuctionHouseProofs`, `AuctionHouseStoreProofs`, `AuctionHouseMoneyProofs` | proofs: within a process; of the collection and that it implements `Marketplace`; of payments |
| `AuctionSearch`, `MCAuctionSearch`, `AuctionSearchProofs` | indices, search, search cache, listing by category and popularity; small instance; proofs |
| `ItemCache`, `MCItemCache`, `ItemCacheProofs` | the cache of single listings; small instance; proofs |
| `ClientSession`, `MCClientSession`, `ClientSessionProofs` | message framing, login check, reply queue; small instance; proofs |
| `AuctionService`, `MCAuctionService`, `AuctionServiceProofs` | sessions that trade on a `Marketplace`: the composition; small instance; proofs |
| `AuctionServer`, `AuctionServerProofs` | `main`, start and stop, worker threads, accept chain; proofs |

### AuctionHouse

`auction_items_`, `next_auction_id_` and `mutex_` are the fields of the class;
`indexed` is the set of ids in the type and price indices (they are always
updated together); `auctions` is the collection in insertion order, because
`update_one` takes the first match and the constructor keeps the last;
`balance` is the field of `users`. `call[t]` is the program counter and the
locals of thread `t` inside the class. `sales`, `credited`, `charged` are
history: what callers were told, and which payments were made.

`purchaseItem` is one action per database call (`BeginPurchase`, `CheckBuyer`,
`CreditSeller`, `DebitBuyer`, `RecordSale`, `FinishPurchase`) so that a crash or
a failure can fall between any two of them. `processExpiredItems` visits one
listing per step. `registerItem` and `cancelListing` make one database write
each while they hold the lock, so one step stands for the whole call: a crash
inside them leaves what a crash after them with a lost or unacknowledged write
leaves. A call refused before its first side effect is a stuttering step.

A database call has an outcome: `ok`, `lost` (no effect, error), `unacked`
(effect, error), `thrown` (effect, then a Redis exception). `Faults` says which
calls may fail in a run. `MaxInt32` is the largest `int32_t`; the model scales
it down to 3, so that overflow, sign change and the unsigned comparison of
`purchaseItem` happen with single-digit prices. Signed overflow is undefined in
C++; the model wraps, as the builds do.

### AuctionSearch

Everything here holds `mutex_`, so each operation is one step. A name is
reduced to the keywords it is filed under (`Words`) and the keywords it contains
(`Substrings`). Redis and the collection survive `Restart`, the indices are
rebuilt without the keyword index, as the constructor does. A registration may
fail and leave a document that only the next constructor sees; an ending may
fail and leave the indices as they were. `RunPastTheEnd` is
the search with `max_price` below `min_price` whose loop starts behind its end
(undefined: the model ends the process).

Results are ordered as `sortResults` does: `SortKey` is the price, the
`registration_time` or the place of the name among strings (`Rank`), each
ascending or descending; any other `sort_by` leaves the order of ids. Equal keys
may come in any order, since `std::sort` is not stable.

`SearchCriteria::hash` mixes the characters of a string one by one into the same
word as the numbers before and after it, so that nothing tells where a string
ends. `hash` is therefore the sequence of everything that is mixed in
(`Characters`, with `Chars` giving the characters of a string): searches whose
fields read the same when written one after the other share an entry, as a
search by "name" without a seller does with an unsorted search for a seller
called "name". Only accidental collisions, where different sequences are mixed
into the same word, are left out. `AnswersMatchTheQuery` says what the cache then
promises: a computed answer matches its search, a cached one matches some search
that reads the same. That is less than the caller asked for: after the search by
"name" the one for the seller "name" is answered with the listings of others,
a state run `search` reaches.

`getItemsByCategory` and `getPopularItems` are operators on the collection.
`CategoriesAgree` says when a category listed from the collection is what memory
has on sale, and what can make the two differ.

### ItemCache

Each call to Redis or MongoDB is one step, because `DatabaseManager` has no
lock: `LookUp`, `FindOne`, `Fill` are `getAuctionItem`; `Write`, `Del` are
`updateAuctionItem` and `deleteAuctionItem`. Updates exclude each other
(`Updating`), since `AuctionHouse` makes them with `mutex_` held; reads and
deletes do not. Of a listing's contents only ACTIVE or ended matters. A failing
call may have no effect, or have its effect and report an error; a Redis
exception in the `del` escapes. `redis_available_` is found out once per
process, so a process may live without the cache while keys of its predecessor
are still there. `missed` is history: which of five causes may have left a key
behind (a late fill; a write or a `del` that failed; a crash between the two; a
process without Redis).

### ClientSession

A stream is a sequence of units, unit 0 of a message being its header. The read
chain is `HeaderArrives`, `handle_read_header`, `BodyArrives`, `process_message`;
a read that cannot complete is `ReadFails`. The header lands in the global
`current_message_size_`, whichever session's header it is. When a piece of a
body is taken for a header it may mean any length. The write chain is `write`,
`WriteCompletes`, `handle_write`; `writes` are the outstanding `async_write`
calls, so that a second one would show. A write that the socket takes at once
has the right length in front; one that completes later has an undefined one,
because `length` was a local variable. The source file holds the whole class
twice (lines 1-401 and 402-822); the map names the first copy, and the second
for what only it defines. Messages that are not whole do not parse.

### AuctionService

Composes the sessions with the record of the auction house. A trading handler
is two steps: the call (`CallHouse`), which changes the record as `Marketplace`
allows, and the reply (`Answer`), which is `process_message` of `ClientSession`.
In between other sessions trade (`Elsewhere`) and the client may hang up. A call
that took effect may still report an error, one that reports success took
effect; that is what `AuctionHouse` was shown to guarantee (`ReceiptIsDurable`).
Which listing and which trade a message asks for is chosen when it is processed,
which leaves the scripts short. `handle_login` gives every session the user id
1001, so all sessions are one user, who cannot buy its own listings.
`TradesFollowMarketplace` maps the record and the replies received onto
`Marketplace`: seen from the clients, the service is one. The map names the
second copy of the class, the one with the handlers.

### AuctionServer

`owner` is where `main` stands: it constructs the server, starts it, waits,
stops and destroys it; a second `start` is legal though `main` makes none.
`Spawn` starts one worker per step and may fail, then the destructor's `stop`
runs. The `io_context` is `stopped`, the outstanding accepts and their results:
`run()` executes handlers until `stop()` or until no work is left, and nothing
calls `restart()`. A worker in the accept handler is at "client" (before
`remote_endpoint()`, which may throw) or at "rearm" or "error" (before the next
`async_accept`, which is made in both cases). `thread_count` may be 0, as
`hardware_concurrency` may say.

## 3. Runs

| Run | Expect | Shows |
| --- | --- | --- |
| `faults` | pass | two threads, three accounts, every call may fail, one crash: `TypeOK`, `StoreInv`, `OneSale`, `ReceiptIsDurable`, `MemoryNotBehindStore`, `UniqueAuctionIds`, `BooksBalance`, `SoldPriceInRange`, `EndedStaysEnded`, `LockReleased`, `ImplementsMarketplace` |
| `reload` | pass | also a partial load, a user without account: `ProcessInv`, `SoldIsPaid`, `NoMoneyDestroyed`, `IndicesLeadToListings` |
| `rollback` | violation | the payment to the seller takes effect unacknowledged; the purchase fails and rolls back, and the seller keeps the money |
| `partial_load` | violation | after a partial load a new listing gets the id of a sold one and is sold under it |
| `search` | pass | every index choice finds what the filter finds; limits of the keyword index; categories agree with memory; answers fit the question, or one that reads the same, and are less than `TTL` old |
| `search_page` | violation | the cache answers page 3 with page 1 |
| `item_cache` | pass | a cached listing is out of date only for a named cause (`StaleHasCause`), and not for good (`FreshAgain`) |
| `session` | pass | a session that trades while others do: framing, order, one reply per message, login, release; "success" agrees with the record; the service is a `Marketplace` |
| `session_mixed` | violation | two sessions read each other's length |
| `session_length` | violation | a delayed reply goes out with an undefined length |
| `server` | pass | accept chains are accounted for, `stop` returns and leaves no worker, nothing is served after it, clients are taken |
| `server_accept` | violation | a client that is gone too early ends the accept chain of a running server |

The findings in `PROJECT.json` quote the comment or test each violation
contradicts. Two more defects of the search are part of the model, and reached by
run `search`, without a run that fails on them: the cache may answer a search
with the result for another seller or order (`Characters`), and a search with
`max_price` below `min_price` and a listing priced in between runs past the end
of `price_index_` (AuctionHouse.cpp:121) and never answers, with `mutex_` held
(`RunPastTheEnd`). The properties of search say nothing of an answer that does
not come.

**Bounds.** Two listings suffice for the interference of one with another
(a wrong document, a whole index bucket, a reused id); the failed rollback and
the partial load need one, and the latter one crash. Two threads are all that can
meet at one lock; a third repeats them. Two failures allow a failure after a
failure (an unacknowledged insert, then a failed update); one crash at any step
gives every half-finished state, and a restart runs the same constructor again.
Time needs one tick more than what expires. With balances 2 and 3 and
`MaxInt32 = 3`, price 1 is an ordinary sale, or overflows the balance of a seller
who has 3 (any user may sell), 0 is a free listing, and 7 a price beyond
`int32_t` (all three in `faults`).

For search, two listings out of a catalogue of two offers (the word of one is a
part of the other's name; type, seller and price differ) reach every index and
every choice between them; eight probe searches combine a keyword with a type or
a seller and look at two ranges of prices. Of the three searches that are asked
two read the same to the hash, and order by name or not at all; the third differs
from the first in its prices, whose range is the wrong way round. Orders by time and price are
covered by the proof, which does not depend on the key. One failure and one
restart suffice to hide a listing from its seller's index or to lose the keyword
index. `TTL = 2` with two ticks lets an entry be made, used and dropped.

Sessions use lengths 0 to 3 around `MAX_MESSAGE_SIZE = 2` and scripts
of up to three messages. The item cache has two threads on two listings, one
failure and one crash: each cause of a stale key needs one writer, at most one
reader and one failure. `session` has one session in full, because what the
others do to a session is only what `Elsewhere` does to the record
(`session_mixed` shows the one way two sessions disturb each other otherwise),
one listing of its user and one of another. The server has up to three threads,
so that one may end while two go on, three clients, one failing accept and two
starts. The bounds `MaxId`, `MaxTime`, `MaxFaults`, `MaxCrashes`, `MaxRestarts`,
`MaxThreads`, `MaxClients`, `MaxErrors`, `MaxStarts` are constants and appear in
guards only.

Deadlock is checked except in `AuctionSearch`, where every bound may be used up,
in `ClientSession` and `AuctionService`, where clients may stop sending, and in
`AuctionServer`, which ends when `main` does; in `AuctionHouse` an expiry sweep
is always possible, in `ItemCache` a look-up.

**Fairness.** `AuctionHouse!FairSpec`: a thread inside a method is scheduled
again and its synchronous database call returns (`WF(Inside(t))`); nobody has to
call, crash or restart. `ItemCache!FairSpec`: the same for its calls, and Redis
drops an expired key (`WF(Expire(l))`, the 300 s of `setex`).
`AuctionService!ServiceSpec`: `WF(Serve(s))` per session: what arrived is read,
workers run completion handlers, the auction house returns, and a client takes
its replies or is found dead. That the auction house returns is what
`LockReleased` shows of its trades; a search whose `max_price` is below its
`min_price` need not return (`RunPastTheEnd`), and `EveryMessageAnswered` says
nothing about a server that was sent one. There is no idle timeout in the code, so a silent
client keeps its session for ever; no property says otherwise.
`AuctionServer!FairSpec`: `start` and `join` proceed, workers are scheduled, and
the kernel hands over a client that waits; nobody has to connect or press Enter.

## 4. Proofs

`AuctionHouseProofs` proves `Spec => []ProcessInv` for any threads, users,
prices, failures and crashes. `ProcessInv` is the invariant run `reload` checks:
types; who is inside holds `mutex_` (`LockInv`); listings are filed under their
id; and `CallsSound`, what a half-finished call relies on between its database
calls (the listing is still active; once the seller was paid, the price is a
positive `int32_t`; both were paid before the sale is recorded). The safety
properties are not inductive alone: that a SOLD document was paid for follows
only from what `CallsSound` says of the thread that writes it, and this survives
the other threads only because of `LockInv`. From it follow `TypeCorrect`,
`NoSaleWithoutPayment`, `SoldPrices` and `IndicesSound`.

`AuctionHouseStoreProofs` proves `StoreInv` inductive relative to `ProcessInv`
under the assumption that loads are complete (`"load" \notin Faults`): ids in
the collection are below `next_auction_id_` while the process runs, hence
unique; memory equals the document or ended the listing that the document still
offers; a thread about to report a sale is the first to do so and its document
says SOLD to its buyer. From it follow `AtMostOneSale`, `ReceiptsDurable`,
`AuctionIdsUnique`, `MemoryLeads` and, as an action property, `EndedIsFinal`.
Run `partial_load` shows that the assumption is needed.

The same module proves `ImplementsMarketplace` (`HouseImplementsMarketplace`)
under the same assumption, from both invariants: since ids are unique, the
record of a listing is its document; each step that writes a document or reports
a sale is one step of `Marketplace` (one lemma per action: `MarketRecordSale` to
`MarketStep`), every other step and every restart is a stutter.

`AuctionHouseMoneyProofs` proves what is said of payments.

* `MoneyIsKept`: `MoneyInv` says that the accounts hold at least what they
  started with *and*, for a thread between the payment of the seller and the
  charge of the buyer, at least that plus the price. Only the lock makes this
  inductive: `LockInv` leaves at most one such thread. The sum over the accounts
  is a fold, of which the provers know nothing; the module proves what is needed
  of it (changing one account changes the sum by the difference) without
  induction over data, from a minimal counterexample: if the statement failed of
  some finite set, it would fail of a smallest one, and that one minus its
  picked element gives the contradiction. The balances wrap as the code's do;
  `ConstantsOK` asks only that the accounts are finitely many.
* `BooksAlwaysBalance`: `BooksInv` says, as long as nothing failed, that
  payments, charges and reported sales of a listing differ exactly by what a
  half-finished purchase has done so far (`Booked`), that the collection is the
  image of memory (`Mirrored`), and that a buyer who was checked can still pay
  until it is charged (`Solvent`), so that no purchase fails after the seller
  was paid. Without these parts about half-finished calls nothing follows for
  the moments in which nobody is inside.

`AuctionSearchProofs` proves `SearchInv` inductive, for any catalogue, searches,
clock, failures and restarts. It says that every listing on sale is filed in each
index under its own key (`Indexed`: by type and price always, by keyword until a
restart), that the index of sellers hides at most as many listings as calls
failed (`FewHidden`), that without failures the keyword index holds nothing else
(`KeywordsExact`), that what memory has on sale the collection has too, and that
without failures both are the same (`Agreed`), that a cached result matches some
search that reads like its key, in the order that search asks for, and was on
sale when it was filed (`CacheTrue`), and that the last answer matches its own
search if it was computed and one that reads the same if it was cached
(`AnswerTrue`). Since `registration_time`, name and price of a listing never
change, an answer once in order stays in order; this is why `Agreed` compares the
times of memory and collection, too: a restart replaces the one by the other.
The lemmas about an index (`Bucket`, `Insert`,
`Erase`) are stated for any map from keys to sets, so that each of the four
indices uses them; those about answers are about sequences sorted by any
key, their pages and the existence of an order by id. From `SearchInv` follow `SearchTypeCorrect`,
`SearchesMissNothing`, `ListingsFoundByTheirWords`, `KeywordsFallBack`,
`AnswersFitTheirQuery`, `CategoriesAlwaysAgree` and, as an action property,
`AnswersAreFresh`: a cached entry expires `TTL` after it was filed, and its
listings were on sale then, so that none of them ended longer ago.

`ItemCacheProofs`: `StaleHasCause` is inductive together with `TypeOK`. The
argument follows the key: it becomes stale by a write, which leaves its thread
before the `del` or a cause behind, or by a fill that no longer agrees, which is
a cause itself; it loses its causes only when it is removed or set to what the
collection says. From it follow `TypeCorrect` and `StaleKeysExplained`.

`AuctionServerProofs`: `ServerInv` is `TypeOK`, `AcceptChains` (outstanding
accepts, waiting results and busy handlers, plus handlers that threw, are the
starts), that workers exist only between `start` and the end of `stop`, and that
a context once stopped stays stopped. `AcceptChains` counts the busy handlers,
so the proof rests on lemmas about how a step changes a cardinality, and needs
`WorkersOnlyInService` for what `Join` and `Destroy` throw away. From it follow
`TypeCorrect`, `ChainsAccounted`, `WorkersJoined`, `StoppedIsFinal`.

`ClientSessionProofs`: `SessionInv` holds for any number of sessions and any
scripts, also while sessions read each other's lengths. `OrderInv` relates
queue, outstanding write and replies received of a session to the number of
messages processed: the queue holds the replies to the last ones, in order; the
client has a prefix of all; an open session that writes nothing has nothing to
write. `OneWriteAtATime` and `RepliesInOrder` each need all of it. From it follow
`TypeCorrect`, `WritesSerialised`, `RepliesMatchRequests`, and with `LoginInv`
(who is authenticated logged in) `LoginsFirst`.

`MessagesArriveWhole` is about the stream of a client. `WholeInv` says that what
is on the wire, followed by the unit the client sends next, is a stretch of the
client's messages (`Runs`), that it begins with the unit the read chain takes
next (`NextUnit`), and that length, need and message are those of the current
message. It holds under `LengthsUndisturbed`: there is one session, or all
messages have the same length. This is not a convenience of the proof: the
length is a global, and `session_mixed` shows two sessions and two lengths for
which `MessagesWhole` is false. The one step that needs the assumption is a
header that arrives while another session has read a length and not used it
(`LengthKept`).

`AuctionServiceProofs` shows that the sessions of `AuctionService` are sessions
of `ClientSession` (`ServiceKeepsSessions`), so that these theorems hold of the
composition (`ServiceRepliesInOrder`, `ServiceMessagesArriveWhole`). `TradeInv`
ties the two parts together: every outcome is an outcome the record bears out
and no step of the record can take back, each reply that is queued, written or
received says what the outcome of its message says, and of all handlers at most
one was told that it bought a given listing. From it follow `SuccessesRecorded`
and `ServiceIsMarketplace`: the record with the replies received implements
`Marketplace`.

Assumptions on the constants are `ConstantsOK`, `CacheConstantsOK`,
`SessionConstantsOK`, `ServiceConstantsOK`, `ServerConstantsOK` and
`SearchConstantsOK`, which TLC evaluates in the runs of their modules.

They are as weak as the code allows: accounts are finitely many, a cached
result lives at least one tick, and the prices and pages of a search are
unsigned, and names have places in the order of strings.

Every property of a passing run is proved, except liveness: `LockReleased`,
`FreshAgain`, `EveryMessageAnswered`, `SessionReleased`, `StopReturns` and
`ClientsAreTaken` are only model-checked, because fairness and ENABLED are out
of the prover's reach. Two assumptions beyond those on the constants remain,
and a run shows that each is needed: what follows from `StoreInv` holds when
loads are complete (`partial_load`), and `MessagesWhole` holds under
`LengthsUndisturbed` (`session_mixed`).

## 5. Plan

Done: all modules of section 2, their runs, and the proofs of section 4. What
remains lies beside the properties of the runs:

1. `AuctionHouse` with partial loads: what is left of `StoreInv` when
   `"load" \in Faults`, beyond `ProcessInv` and `MoneyInv`, which hold anyway.
2. The safety halves of liveness, that is, the invariants by which a waiting
   thread always finds somebody who can move: for `join` in `AuctionServer`, for
   `mutex_` in `AuctionHouse`, for the write chain in `ClientSession`.
3. The page arithmetic of the search on its own, where `(page - 1) *
   items_per_page` wraps: `search_page` fails for the cached page before a page
   number is large enough.
4. The reply to a search with `max_price` below `min_price`, composed with the
   sessions that wait for it.

## 6. Not modelled

Byte-order helpers (pure); logging; the CMake files; the tests and the load
generator, which are clients. MongoDB, Redis and Boost.Asio are modelled by what
the code
sees of them. Item fields other than type, name and price do not influence any
behaviour; `handle_register_item` leaves type, rarity and level uninitialised,
so that a listing's type may be any value: `AuctionSearch` lets sellers offer
any type of its catalogue. Accidental collisions of `SearchCriteria::hash` (see
`AuctionSearch`) and data
races on the socket object (undefined inside the library) are left out.
`write_queue_` has no bound in the code that a property could keep. Of a cached
single listing only whether it has ended is modelled, not the attributes that
`getAuctionItem` reads from Redis.

Two behaviours are known and stated by the properties that pass, as limits: a
cached search answer may show a listing that has ended, for up to 300 s
(`AnswersAtMostTTLOld`); and once some listing is filed under a keyword, listings
that contain it only inside a word are no longer found by it (`OwnWordsFound`,
`KeywordFallback`).
