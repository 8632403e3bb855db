# TLA+ models of geerpc, geecache, tinybalancer and the toy bitcoin

These are TLA+ models of the geerpc RPC framework in `src/src/projects/geerpc`, checked with TLC.
They cover the client (`client/client.go`), the server's connection loop (`server/server.go`),
the gob codec (`codec/gob.go`) and service dispatch (`service/service.go`), composed over one TCP
connection.
Discovery and the load-balanced XClient are modelled on top of them.
The connection setup is modelled separately: dialing with the connect timeout, the Option handshake, and the HTTP CONNECT tunnel.
The registry with heartbeat, which `registry_test.go` uses but the repository does not contain, is modelled from spec section 4.7 and composed with Discovery.
Two more concurrent projects of the repository are modelled in their own modules:
- geecache (`src/src/projects/geecache`): the LRU cache, the consistent-hash ring, singleflight and the peer protocol;
- tinybalancer (`src/src/projects/tinybalancer`): the six balancers `Build` supports, the proxy's request path and the health checks;
- the toy bitcoin (`src/src/bitcoin`): the `createBlockChain`, `send` and `newWallet` commands over the chain and the wallet file, with the UTXO search that decides what a send spends.

The rest of the repository (gee, geeorm, the tutorials) is listed as not modelled in `PROJECT.json`.

## 1. The system

### Parts and how they interact

| Part | Source | State | Operations |
|---|---|---|---|
| Codec | `codec/codec.go`, `codec/gob.go` | conn, bufio writer, gob encoder/decoder | `ReadHeader`, `ReadBody`, `Write` (closes the conn on error), `Close` |
| Server | `server/server.go` | service map (`sync.Map`); per connection: `sending` mutex, `WaitGroup` | `Accept`, `ServeConn` (Option handshake), `serveCodec`, `readRequest`, `handleRequest`, `sendResponse`, `ServeHTTP` |
| Service | `service/service.go` | receiver, methods with their call counts | `NewService`, `registerMethods`, `Call` |
| Client | `client/client.go` | `seq`, `pending` map, `sending` mutex, `mu`, `closing`, `shutdown`; per Call: `Done` channel | `Go`, `Call`/`CallTimeout`, `send`, `registerCall`, `removeCall`, `receive`, `terminateCalls`, `Close`, `Dial`, `DialTimeout`, `DialHTTP`, `XDial` |
| Discovery | `xclient/discovery.go` | `servers`, round-robin `index`, RWMutex | `Refresh`, `Update`, `Get(mode)`, `GetAll` |
| XClient | `xclient/xclient.go` | cache `clients` of address to `*Client`, mutex | `dial`, `call`, `Call`, `Broadcast`, `Close` |
| Registry | not in the repository; modelled from spec section 4.7 | servers with their last heartbeat | `Heartbeat`, the registry's GET/POST, `GeeRegistryDiscovery.Refresh` (used by `registry_test.go`) |

A call goes through these steps:
1. The caller runs `Client.CallTimeout`. `Go` calls `send`, which takes `sending` and registers the Call under the next `seq`.
2. `send` writes one gob frame (header and Args) and releases the lock.
3. The server's `serveCodec` loop reads the frame (`readRequest`).
4. The loop hands the request to a `handleRequest` goroutine. That goroutine starts a second one, which calls the method and writes the response under the server's `sending` mutex.
5. The two goroutines synchronise on the unbuffered channels `called` and `sent`. The handler races `called` against the handle timeout.
6. The client's `receive` goroutine reads the response header and removes the Call from `pending`. It then decodes the body into the Call's Reply and sends the Call on its `Done` channel.
7. The caller's `select` takes `Done` or its context's `Done`.

Setting up a connection (`Dial`, `DialHTTP`, `XDial`) goes through these steps:
1. `DialTimeout` connects. It then runs the connect function (`NewClient` or `NewHTTPClient`) in a goroutine, and waits on the unbuffered `ch` for its result, or for the connect timer when one is set.
2. `NewHTTPClient` first writes `CONNECT`. The server's `ServeHTTP` hijacks the connection and writes a status line, and the client checks it before it goes on to `NewClient`.
3. `NewClient` checks the codec type and writes the Option as JSON. The server's `ServeConn` decodes it with a `json.Decoder`, looks the codec up, and enters `serveCodec`.
4. The deferred func of `DialTimeout` closes the connection when it returns an error.

Failures spread in these ways:
- A failed `Write` closes the connection, on either side.
- A read error ends the receive loop, which then runs `terminateCalls`.
- A read error also ends `serveCodec`, which waits for its handlers (`wg.Wait`) and closes the codec.
- `XClient` sits above `Client`. It is meant to ask `Discovery` for an address (the code does not), caches one `Client` per address, and for `Broadcast` runs one call per server, cancelling the others on the first error.

### Hard behaviours
- **Interleavings:** many callers share one `Client`. The receive loop, a failed write and `terminateCalls` can each complete the same Call. The server runs one handler goroutine and one method goroutine per request.
- **Timeouts racing answers:** the ctx deadline races the response on the client. The handle timeout races the method on the server.
- **Connection loss:** a network reset or a peer close can happen between any two steps. A response can be lost or arrive after its caller gave up.
- **Unbuffered handoffs:** `called` and `sent` on the server. A blocked sender leaks a goroutine.
- **Shared mutable reply:** `ReadBody(call.Reply)` writes caller memory from the receive goroutine.

### Correctness properties, per component
- **Client**
  - Each Call completes exactly once.
  - A result is the answer to that call's own request.
  - Every call returns under fair scheduling.
  - Nothing is written to the reply after the call returned.
- **Server**
  - Each request is answered at most once.
  - An unknown method is answered with an error and serving continues.
  - The codec is closed only after all dispatches finished.
  - The server closes after the client left.
- **Codec:** frames never interleave. Both ends write whole frames under a mutex, so the model's unit of transfer is a frame.
- **Discovery:** `Get` never indexes outside the list, also across `Update`. Round robin is balanced within one.
- **XClient**
  - `dial` returns the cached or new client, never nil with a nil error.
  - An empty address goes through Discovery.
- **Handshake**
  - `DialTimeout` closes the connection exactly when it returns an error.
  - Dial returns, also without a connect timeout.
  - Requests written after the Option reach the serve loop.
  - `DialHTTP` to geerpc's own `ServeHTTP` succeeds.
  - No peer and no Accept error can crash the server.
  - A failed `Broadcast` still fills the reply from a healthy server.
  - No created client escapes the cache unclosed.

## 2. Modules

| Module | Models | Composes |
|---|---|---|
| `GobCodec` | outcome of `GobCodec.Write` (ok / lost to a closed peer / fail and close) and of `ReadHeader`/`ReadBody` (frame / fail / block) | pure operators |
| `RPCClient` | `client.go`: `Go`, `send`, `registerCall`, `removeCall`, `CallTimeout`'s select, `receive`, `terminateCalls`, `Close` | `GobCodec` |
| `RPCServer` | `server.go` `serveCodec` and below, with `Service.Call` | `GobCodec` |
| `CallFuture` | abstract: what a Call promises its caller, a one-shot result slot filled once and taken or given up on (the spec's future) | none |
| `GeeRPC` | one connection: the client, the server, and a network that may reset | `INSTANCE RPCClient`, `INSTANCE RPCServer` |
| `Service` | `service.go` `NewService`, `registerMethods`, `isExportedOrBuiltinType`; `server.go` `Register`, `findService`, as operators over the service map | pure operators |
| `MCGeeRPC` | TLC instance: callers `c1`, `c2`; the test's `Foo` registered by pointer; methods `Foo.Sum`, `Foo.Fail`, and the unregistered `Foo.Helper` | `GeeRPC`, `INSTANCE Service` |
| `Discovery` | `discovery.go` `MultiServerDiscovery`: `Update`, `Get` (random, round robin), `GetAll` | none |
| `Registry` | spec section 4.7 (package absent): the registry's POST and GET with TTL expiry, one heartbeat loop per server, server crash and restart, and time as a `Tick` | none |
| `RegistryDiscovery` | spec sections 4.6 and 4.7: `GeeRegistryDiscovery`, a `MultiServerDiscovery` whose `Refresh` GETs the registry once its list is older than the timeout | `INSTANCE Discovery`, `INSTANCE Registry` |
| `MCRegistryDiscovery` | TLC instance: servers `a1`, `a2`, hand-made lists of up to 2 entries, TTL 2, period 1, POST delay 1 | `RegistryDiscovery` |
| `XClient` | `xclient.go`: `dial` with its cache, `Call`, `Broadcast`, `Close`, over an abstract `Client` | `INSTANCE Discovery` |
| `MCXClient` | TLC instance: addresses `a1` (up), `a2` (down), callers `c1`, `c2` | `XClient` |
| `Handshake` | `client.go` `DialTimeout`, `NewClient`, `NewHTTPClient`, `XDial`; `server.go` `Accept`, `ServeHTTP`, `ServeConn`, with the serve loop reduced to reading requests | none |
| `MCHandshake` | TLC instance: tcp and http mode, gob and json codec types, with and without a connect timeout | `Handshake` |
| `LRU` | geecache `lru/lru.go`: `Get`, `RemoveOldest`, `Add` with its eviction loop, as operators on a cache value | pure operators |
| `ConsistentHash` | geecache `consistenthash/consistenthash.go`: the ring `Add` builds and `Get`'s lookup, plus the reference successor | pure operators |
| `GeeCache` | geecache `geecache.go`, `cache.go`, `singleflight/singleflight.go`, `http.go`: Gets on every node of a cluster | `INSTANCE LRU`, `INSTANCE ConsistentHash` |
| `MCGeeCache` | TLC instance: nodes `n1`, `n2`, keys `k1`, `k2`, values `v1`, `v2`, hash tables with a collision and a wrap | `GeeCache` |
| `TinyBalancer` | tinybalancer `proxy/proxy.go` `ServeHTTP`, `proxy/health_check.go`, `balancer/*.go` | none |
| `MCTinyBalancer` | TLC instance: hosts `h1`, `h2`, request goroutines `r1`, `r2` | `TinyBalancer` |
| `BlockChain` | bitcoin `blockchain/blockchain.go`, `transaction.go`, `iterator.go`, `wallet.go`, `wallets.go`, `main.go`: `createBlockChain`, `send` and `newWallet` | pure operators for the UTXO search |
| `MCBlockChain` | TLC instance: key pairs `a1`, `a2`, a mistyped address `bad`, amounts 10 and 30 (in units of 0.5 BTC), up to 3 blocks | `BlockChain` |

### How state and actions correspond to the code

**Connection**
- `toServer` and `toClient` are the two directions of the TCP stream, each a FIFO of whole frames.
- `cliClosed` and `srvClosed` record that an end closed its conn: `Client.Close`, `cc.Close`, or the close inside `GobCodec.Write` after an error.
- `broken` is a network reset, after which both ends' reads and writes fail.

**RPCClient**

Client state:
- `seq`, `pending`, `closing`, `shutdown` and `sending` are the `Client` fields.
- `calls[c]` is caller `c`'s `Call`: its seq, method, Args kind, Error and Reply. A call's Args is the caller's own identity, so a reply body tells whose request it answers.
- `doneBuf[c]` is the content of the capacity-1 `Done` channel. `doneSent[c]` counts the sends into it.
- `cpc[c]` is the caller goroutine's position: idle, write, select, returned.
- `ret[c]` is what `CallTimeout` returned.
- `recv` is the receive goroutine's position, the frame it is reading and the Call it looked up.

Actions:
- `Send` is `Go` plus `send` up to the write, including the closing/shutdown early return with `ErrShutdown`.
- `WriteRequest` is the write and its error path: `removeCall`, `call.Error`, `done`.
- `ReturnDone` and `ReturnCtx` are the two cases of `CallTimeout`'s select.
- `CtxExpire` is the deadline of the caller's context.
- `RecvHeader` and `RecvBody` are one turn of `receive`'s loop.
- `TerminateCalls` is `terminateCalls` after the loop.
- `Close` is `Client.Close`.

**RPCServer**

Server state:
- `spc` is `serveCodec`'s position: read, wait (for `wg.Wait`), closed, or crashed (the process died).
- `hpc[k]` and `gpc[k]` are the positions of the handler goroutine and the method goroutine of the k-th request.
- `desync` says a header was read whose body is still on the stream.
- `responses` is a history of every `sendResponse` call and the request it answers.

Actions:
- `ReadRequest` is one pass of the loop: `readRequest`, then the error response with `continue`, or `go handleRequest`.
- `MethodCall`, `CalledHandoff`, `Respond`, `SentHandoff` and `HandleTimeoutFires` are the steps of the two goroutines of `handleRequest`.
- `ServerClose` is `wg.Wait` followed by `cc.Close`.

**Service**
- Reflection is abstracted to what registration reads: a receiver is a type and whether it is registered by pointer; a type has a name, whether it is exported, and its methods with their in and out counts, whether the out is `error`, and whether their Arg and Reply types are exported or builtin.
- `MethodSet` is `s.Typ.Method(i)`: a value type has only its value-receiver methods. `RegisterMethods` is the shape filter; `NewService` flags an unexported name, which is `log.Fatalf`. `Register` is `LoadOrStore` with its duplicate error. `RegisterAll` folds the program's registrations.
- A `"Service.Method"` string is the sequence of its `.`-separated segments, so `FindService`'s split at the last `.` is `Front` and `Last`.
- `Registered`, the set `RPCServer` dispatches on, is written out in `MCGeeRPC`. An `ASSUME` checks it equals the names `FindService` resolves in the map that `RegisterAll` builds from `server.Register(&foo)`, so `Foo.Helper`, which has no reply argument, is unresolved.

**Discovery**
- `servers` and `index` are the struct fields.
- `got` is what the last `Get` returned. `rrCount[i]` counts round-robin Gets of position `i` since the list was last set. It is a history variable for the balance property.
- Every method holds the lock for its whole body, so each is one action.
- The random index `Intn(math.MaxInt32 - 1)` is abstracted to `0..InitIndexBound`. With `InitIndexBound = 1`, every residue modulo the list lengths 1 and 2 occurs.

**Registry and RegistryDiscovery** (from the spec; marked `spec_modelled` in the map)
- `seen[a]` is the registry map's entry for `a`, kept as its age since the last POST and capped at `TTL + 1`, where a larger age changes nothing. `AliveServers` is the GET handler: ages up to and including the TTL.
- Each server's `Heartbeat` goroutine is `hbWait[a]` (time to its next tick) and `ping[a]` (the age of its POST in flight). `SendHeartbeat` is the ticker firing, `PutServer` the POST handler under the registry's mutex.
- `Crash` ends a server process and its heartbeat loop; a POST already sent still arrives. `Restart` is a new process calling `Heartbeat` again. `joined[a]` is a history variable: a POST of the running process has been recorded. `downFor[a]` is another: the time since `a` crashed, capped at `DropBound`.
- `Tick` is one unit of time. It waits for a heartbeat that is due and for a POST that has been in flight `MaxDelay`: the ticker fires on time and a POST arrives within `MaxDelay`.
- `dAge` is the time since the discovery's `lastUpdate`. `RefreshGet` is `Refresh` finding `lastUpdate + timeout` in the past and GETting; `answer` is the answer on its way. `RefreshApply` splits it into the list (in any order, as the registry's map iteration is unordered), sets `lastUpdate`, keeps the index; `RefreshFail` is a failed GET, which keeps the old list. `Refresh` holds the discovery's lock across the GET, so `Owner` lets `Get` and `Update` run only when no answer is pending.

**XClient**
- A slot is a goroutine running `xc.Call` once: a caller of `XClient.Call`, or the i-th branch of `Broadcast`.
- `clients` is the cache. `cstate[id]` abstracts each `Client` to live, dead (its receive loop set `shutdown`) or closed.
- `held[s]` is the pointer `dial` returned. It is `None` for nil.
- `Dial` is the whole of `dial` under `xc.mu`, including `XDial`.
- `CallTimeout` is the call on the returned client: a panic on nil, `ErrShutdown` on an unavailable client, else the server's answer. A cancelled Broadcast ctx races that answer.
- `BroadcastStart`, `BranchCall`, `BranchRecord` and `BroadcastReturn` follow `Broadcast`'s GetAll, fan-out, mutex-guarded record, and `wg.Wait`.
- `ClientDies` models a connection failing. `Close` is `XClient.Close`. `Update` is the owner updating the discovery.
- The process crashing (`crashed`) stops every action.

**Handshake**
- One connection. The peer is a geerpc client (`peer = "geerpc"`) in the mode `XDial` picked, or a raw peer that writes an Option of its own.
- `dpc` is `DialTimeout`'s position and `dres` what it returned. `gpc` is the position of the goroutine running the connect function, and `gres` that function's result.
- `timed` is `opt.ConnectTimeout # 0`. `ConnectTimeout` is the `time.After` case of the select.
- `HandOver` is the send on `ch` meeting the receive in the select, followed by the deferred close. After a timeout, nothing receives, so the goroutine stays at `"send"`.
- `toServer` and `toClient` are the two directions of the stream. An item is the CONNECT request, an Option, a request frame, or a status line.
- The status line is a sequence of words. `ServeHTTP` writes `"HTTP/1.0" \o "200"` as one word, which is what the missing space does. `StatusOK` is `http.ReadResponse`'s version parse plus `NewHTTPClient`'s comparison with `Connected`.
- `ServeConn` removes the Option and any number of the frames behind it: those are what the `json.Decoder` read into its buffer.
- `spc = "crashed"` is a panic: `ServeConn` on the nil conn after an Accept error, or `f(conn)` with `f` nil for an unknown codec type.
- `WriteRequest` and `ServeRequest` stand for `send` and the serve loop's read, enough to see whether a request arrives.

**LRU** (`lru/lru.go`)
- A cache value is a record. `ll` is the list, front first. `ent[k]` is the value in k's entry, or `None`. `nBytes` is `c.nBytes`. `hung` says `Add` never returned.
- `Get` moves a hit to the front. `RemoveOldest` drops the back entry and its map key and gives back their lengths.
- `Put` is the first half of `Add`. On an update it moves the entry and adjusts `nBytes` by the difference of the lengths, but leaves `ent[k]` alone, as the code never assigns `kv.value`.
- `Evict` is the loop `for c.maxBytes != 0 && c.maxBytes < c.nBytes`. On an empty list `RemoveOldest` does nothing, so the loop would run forever, and `Evict` sets `hung` instead.
- A key's and a value's size are the constants `KeyLen` and `ValLen`.

**ConsistentHash** (`consistenthash/consistenthash.go`)
- The hash function is a table: `VHash[i, node]` for `strconv.Itoa(i) + node`, `KHash[key]` for a key.
- `RingKeys` is `m.keys` after `Add`, sorted, duplicates kept. `HashMap` gives a point to the node `Add` wrote last for it.
- `Get` is `sort.Search` for the first point `>=` the hash, wrapping to the first point. `Reference` is the nearest point clockwise, defined as a minimum over the set of points.

**GeeCache** (`geecache.go`, `cache.go`, `singleflight/singleflight.go`, `http.go`)
- `cache[n]` is node n's `mainCache`, an LRU value. A node whose `hung` is set holds `cache.mu` forever, so no Get runs there again.
- `flight[n][k]` is the request whose call sits in node n's `loader.m[k]`.
- `rq[i]` is a goroutine running `Group.Get`, started by a client (`ClientGet`) or by a peer's `ServeHTTP` (a child of a request in `peer`).
- Its position `pc` goes through `get` (the `mainCache.get`), `do` (`singleflight.Do` under `g.mu`), `pick` (`PickPeer`), `peer` (waiting for the child's answer) or `local` (`getLocally` with `populateCache`), then `done` (`wg.Done`), `del` (`delete(g.m, key)`) and `ret`. A waiter is in `wait` until its leader's `wg` is done.
- `wg` records the leader's `wg.Done()`. `res` is what the request returns.
- `cache[n]` is node n's `mainCache.lru`. It is `None` until the first `cache.add` creates it with `cacheBytes` (`CacheAdd`). `cache.get` on a nil lru is a miss (`CacheLookup`). `Hung(n)` means an add holds `cache.mu` forever.
- `ServeHTTP` is the response the child's `Group.Get` result becomes: 500 with the error or 200 with the value. The 400 and 404 answers never occur, because the path is built by `httpGetter` for an existing group. `HTTPGet` is `httpGetter.Get`'s status check and decode. A 200 from the peer is returned without being cached. A failed `http.Get` (`Pick`'s `PeerCanFail` branch) or a 500 falls back to `getLocally`.
- Request slots are handed out lowest first.

**TinyBalancer** (`proxy/proxy.go`, `proxy/health_check.go`, `balancer/*.go`)
- `algo` is the algorithm `NewHTTPProxy` Builds the balancer for, chosen in the initial state from `Algorithms`. `"bounded"` has no factory, so no proxy runs with it.
- `members` is P2C's `r.hosts` (the loadMap has the same keys), or the hosts in LeastLoad's heap. `load[h]` is the load of h's current entry.
- `Remove` drops the entry. `Add` of an absent host creates a new entry with load 0, so a host removed and added back starts from 0.
- `Balance`, `Inc` and `Done` take the balancer's lock separately, and they are three actions of a request goroutine `rq[r]`.
- P2C picks its two hosts by the checksum tables `Crc` and `CrcSalt` modulo the number of hosts, or at random for an empty key. LeastLoad's heap gives a least-loaded host. Each balancer's `Balance` is an operator (`P2CBalance`, `LLBalance`, `RRBalance`, `RandomBalance`, `IPHashBalance`, `ConsistentBalance`), and `Picks` selects by `algo`.
- `AddHost` is `TemplateBalancer.Add`, and `LoadAdd` is the P2C and LeastLoad `Add`, which also creates a load entry. Consistent's `Add` and `Remove` go to its hash ring, which likewise ignores a host it already has. The ring (`github.com/lafikl/consistent`) is not in the repository, so `ConsistentBalance` may return any member.
- `rrI` is `RoundRobin.i` modulo `IdxPeriod`, a multiple of every possible length. The pick `r.i % len` is therefore exact, and `RRNext` is the `r.i++`. `rrWin` is a history variable: the latest round-robin picks, at most `len(r.hosts)` of them, since the members last changed.
- `IncPanics` is `TemplateBalancer.Inc` under the other four balancers. It panics before `Done` is deferred. The recover writes a 502, then panics again on `err.(error)`, and net/http drops the connection. The request ends without reaching the host, and no load is counted.
- `load` is an unsigned integer of `LoadBits` bits, for uint64. With `LoadBits = 2` the wrapped value `2^64-1` becomes 3, more than the two requests can explain.
- `hc[h]` is h's health-check goroutine. `Probe1` is the first `IsBackendAlive` and its branch, and `Probe2` the second and its branch. Only this goroutine touches `alive[h]` and h's membership, so `SetAlive` and the balancer call form one step.
- `backend[h]` is what `IsBackendAlive` would answer. `Flip` changes it, at most `MaxFlips` times.
- Not modelled: the fib-heap's own key, which `DecreaseKeyValue` may refuse to move up. The library is not in the repository, so `Balance` picks by `load`.

**BlockChain** (`blockchain/*.go`, `main.go`)
- `chain` is the list of blocks from genesis to `c.tail`, each a sequence of transactions. It is `<<>>` before `createBlockChain`. One CLI command runs to its end before the next starts, so `CreateBlockChain`, `Send` and `NewWallet` are each one step.
- `wallets` is the set of addresses in `wallet.dat`, empty at first. `NewWallet` is the `newWallet` command: `NewWallets` loads or creates the file, and `AddWallet` adds a fresh key pair and saves the file. `NewTransaction` returns nil when the payer has no wallet.
- `IsValidAddress` stands for the base58 decode and checksum comparison; `BadAddrs` are typed addresses whose checksum does not match. `send` rejects them; `createBlockChain` does not validate its miner.
- A transaction is a record of id, inputs and outputs; signatures are left out, because `Verify` fails whatever they hold (below). `NewId` stands for `SetTxID`: equal contents get equal ids, which keeps the coinbase collision of `transaction.go:81`.
- `HashPubKey` and `Sha256` are symbolic digests of different kinds, so they never compare equal, as a 20-byte and a 32-byte slice never do.
- `Scan` is the loop of `FindUTXOTransaction`, newest first (`Newest`, the Iterator), with its per-output append and the `spentOutputs` filter. `Candidates`, `Need` and `Balance` are `FindUTXOs`, `FindNeedUTXOs` and `GetBalance`.
- `InputOrders` gives every order of the ids, since NewTransaction ranges over a Go map. `NewTransaction` ends with `FindPrevTransaction` (`transaction.go:179`), which the model records as `panics`.
- `FindTransactionByTXid` scans blocks 2..Len(chain) only: the iterator hands back the genesis block together with its "end" error, and the loop breaks before scanning it. `FindPrevTransaction` is true when every input's transaction is found; otherwise the code calls `log.Panic`.
- `Verify` checks a `TrimmedCopy`, whose inputs carry nil signature and public key, so `ecdsa.Verify` is false for any transaction with inputs; only a coinbase or an input-less transaction passes.
- `AddBlockOutcome` is `AddBlock`'s loop: the first transaction whose previous transaction is missing panics, the first that fails `Verify` makes it return without a block. The coinbase's empty input id is looked up too, so every `AddBlock` after genesis panics.
- `lastSend` is a history variable: whether the last `send` was funded (valid addresses, a wallet, enough balance) and how it ended (`block`, `panic`, `invalid` or `nil`).
- Not modelled: proof of work, the Merkle root, bolt storage, base58 and ECDSA; none decides which outputs a send spends (see section 5).

## 3. Runs

The `rpc_*` runs use `MCGeeRPC` with two callers, so at most two requests per connection.
Their parameters are:
- **Deadlines:** `DeadlineCallers` are the callers whose context has a deadline.
- **Methods:** the method and Args kinds the callers may choose.
- **Close:** whether the owner may call `Close`.
- **Handle timeout:** whether it is set.
- **Reset:** whether the network may reset.

| Run | cfg | Expect | Checks |
|---|---|---|---|
| `rpc_safety` | `MCGeeRPC.cfg` | pass | `TypeOK`, `DoneAtMostOnce`, `ReturnMatchesResponse`, `AtMostOneResponse` with everything enabled: one caller with a deadline, `Foo.Sum`, the failing `Foo.Fail` and the unregistered `Foo.Helper` (whose dispatch crashes the server), good and undecodable Args, handle timeout, Close, reset (about 1.1M distinct states, under two minutes) |
| | | | `CallFutureRefined` in the same run: the client implements `CallFuture` under the mapping `st` from `cpc`, `slot` from the first `call.done()` with the Call's Error and Reply, `got` from `ret` |
| `rpc_liveness` | `MCGeeRPC_live.cfg` | pass | `AllCallsReturn`, `ServerEventuallyCloses` with one method and good Args, but deadline, timeout, Close and reset enabled |
| `rpc_late_reply` | `MCGeeRPC_late.cfg` | violation | `NoReplyWriteAfterReturn`: a caller's ctx expires between `removeCall` and `ReadBody(call.Reply)`. `CallTimeout` returns, then the receive loop writes its reply. |
| `rpc_handler_leak` | `MCGeeRPC_leak.cfg` | violation | `ClosedAfterDispatches`: after a handle timeout, `wg.Done` runs while the method goroutine still runs, so the codec is closed under it. That goroutine then blocks forever on `called`. |
| `registry_discovery` | `MCRegistryDiscovery.cfg` | pass | `RoundRobinBalanced`, `LiveServerListed`, `DeadServerDropped`, `RunningServerDiscovered`: a discovery refreshed from the registry, with the owner's Updates and Gets, heartbeats, a server crash and restart, and failed GETs (about 380k distinct states, about three minutes, most of it the liveness check) |
| `xclient_cache` | `MCXClient.cfg` | pass | `TypeOK`, `NoClientLeak`, `BroadcastResult` with callers, a Broadcast, dying connections, Update and Close |
| `handshake` | `MCHandshake.cfg` | pass | `DialReturns` in tcp and http mode, gob and json codec types, with and without a connect timeout, failing dials, Accept errors and a raw peer |
| `handshake_swallow` | `MCHandshake_swallow.cfg` | violation | `NoRequestSwallowed`: the client writes a request right behind the Option, and the server's `json.Decoder` reads it into its buffer (`server.go:96`). The serve loop never sees it. |
| `geecache` | `MCGeeCache.cfg` | pass | `OneLoadPerKey`, `CachesConsistent`, `PeerIsSuccessor`, `GetReturns` with two client Gets on a two-node cluster, peer fetches that may fail, a Getter that may fail, and a 2-byte cache that evicts (about 5.8k distinct states, under a minute) |
| `geecache_lru_hang` | `MCGeeCache_hang.cfg` | violation | `AddReturns`: a key is loaded as an empty value, forgotten by singleflight, and loaded again as a 3-byte value. `Add`'s update path counts the new length but keeps the old value, the eviction then gives back too little, and the loop spins on an empty list (`lru.go:65`, `lru.go:73`). |
| `tinybalancer` | `MCTinyBalancer.cfg` | pass | `LoadNotOvercounted`, `RoundRobinCoversMembers`, `HealthConverges` for every supported algorithm, with two request goroutines, two hosts, both key kinds, and three backend changes (about 71k distinct states, under 20 s) |
| `blockchain_send_panics` | `MCBlockChain.cfg` | violation | `SendAddsBlock`: the chain is created for a miner, `newWallet` gives it a wallet, and it sends an amount it can pay. `FindPrevTransaction` looks up the input's transaction with `FindTransactionByTXid`, which stops at the genesis block's iterator error before scanning it (`blockchain.go:229`), so the lookup fails and `log.Panic` ends the process (`:252`). No funded send ever adds a block. |

What the passing runs show:
- **`DoneAtMostOnce`:** the receive loop, a failed write and `terminateCalls` never complete the same Call twice. Each first removes it from `pending` or finds it there under `mu`. Breaking `removeCall` in `receive` gives a double completion.
- **`ReturnMatchesResponse`:** a successful return carries the server's answer to the caller's own seq, and the reply holds the caller's own Args echoed back. A `registerCall` that does not advance `seq` makes two callers share a seq and breaks it.
- **`AtMostOneResponse`:** the `continue` after a body decode error and the handler's select keep a request to one response.
- **`CallFutureRefined`:** once a Call is completed, its Error and Reply never change, and the caller returns either them or its ctx error. This is the single-writer guarantee of the spec's future. A `terminateCalls` that stamps its error on Calls already completed breaks it, though it completes nothing twice.
- **`AllCallsReturn`:** a caller without a deadline returns even when the connection is closed or reset, because `terminateCalls` completes what is pending.
- **`ServerEventuallyCloses`:** holds because the handler returns on timeout, and a handler that waited for the method would not close.
- **`RoundRobinBalanced`:** round-robin Gets on an unchanged list visit its positions in turn, also when an `Update` left the kept index anywhere. A Get that does not advance the index breaks it.
- **`LiveServerListed`:** a running server whose heartbeat has reached the registry is in every GET answer. It holds exactly when the period plus the POST delay is at most the TTL, and only because the GET keeps an entry whose age equals the TTL: a GET with `<` breaks it, and so does a period of 2 with TTL 2.
- **`DeadServerDropped`:** a crashed server is out of every GET answer once `MaxDelay + TTL + 1` ticks have passed since the crash. A POST sent just before the crash can still land and renew the entry, so the bound is the POST's delay plus the TTL; TLC finds the same statement one tick earlier violated. A GET that ignores the TTL breaks it.
- **`RunningServerDiscovered`:** every running server eventually appears in the discovery's list, however GETs fail, Updates overwrite the list and the other server crashes. A `Refresh` with its timeout test turned around never refreshes a stale list and breaks it.
- **`NoClientLeak`:** `dial` closes an unavailable client before it drops it from the cache.
- **`BroadcastResult`:** once `Broadcast` returns, its `e` is nil exactly when every branch answered, and then a reply was copied. A failing branch cancels the shared ctx and healthy branches may then fail with the ctx error, but `wg.Wait` keeps the return behind every branch's record. A `wg.Add` inside the goroutine, which lets `wg.Wait` return before a branch has begun, breaks it.
- **`OneLoadPerKey`:** a Get that missed the cache while the leader was finishing either waits on the leader's call or, once the call is deleted, becomes a leader itself; it never runs `fn` beside another one. A `Do` that skips the `g.m` lookup breaks it.
- **`CachesConsistent`:** the list and the map of every node's LRU hold the same keys, through hits, Adds and evictions. A `RemoveOldest` that forgets `delete(c.cache, kv.key)` breaks it.
- **`PeerIsSuccessor`:** every peer fetch goes to the owner that the fetching node's ring gives. `sort.Search` with `>=` and the wrap `idx % len(m.keys)` pick the clockwise successor, also for a key that hashes exactly onto a point or past the last one. A search with `>` breaks it.
- **`GetReturns`:** every Get, a client's or one a peer's `ServeHTTP` started, returns: the waiters are released by the leader's `wg.Done`, which runs whatever `fn` returned. A `Do` whose `fn` error path returned before `wg.Done` would leave its waiters blocked.
- **`LoadNotOvercounted`:** P2C's `Done` only decrements a positive load, so a Done that lands on a re-added entry cannot push it above the requests on the host. The same `Done` without the guard breaks it. That mutant is exactly LeastLoad's `Done` (`least_load.go:93`), so TLC shows the least-load balancer's uint64 underflow: a request Incs `h2`, the health check removes and re-adds `h2`, and the request's Done wraps the fresh entry's load to 2^LoadBits-1. The property is stated for P2C only. Under least-load the run would show that underflow, and the run's slot is the passing one.
- **`RoundRobinCoversMembers`:** while the members stay the same, any `len(r.hosts)` consecutive round-robin picks return every member once. This holds however the request goroutines interleave, and after a Remove or Add has left `r.i` at an arbitrary offset. A `Balance` that does not advance `r.i` picks the same host twice.
- **`HealthConverges`:** once the backends stop changing, each health check's two probes bring the alive mark and the membership to the backend's state. An else-if that tested `h.ReadAlive(host)` instead of its negation never re-adds a host.
- **`DialReturns`:** without a connect timeout, `DialTimeout` relies on the connect function finishing. It does, because `ServeHTTP` answers CONNECT (with a line the client rejects) and a dead server makes reads fail. A `ServeHTTP` that wrote no status line would hang `DialHTTP`.

Some hazards the models reach are not stated as properties of any run:
- With a connect timeout, the goroutine of a discarded connect attempt blocks forever on `ch` (`client.go:134`). The spec accepts dropping the attempt.
- An Accept error, or a raw peer's unknown codec type, panics the server (`server.go:79`, `server.go:112`).
- `XClient.Call("")` never asks Discovery and fails in `XDial` (`xclient.go:66`).
- `readRequest` drops `findService`'s error, the nil service panics and the server dies (`server.go:155`). `rpc_safety` includes it, and the client's properties hold through it. Registering a value instead of a pointer drops the pointer-receiver methods (`service.go:73`), which leads to the same crash. `dial` shadows `c` and returns nil for a new client, so `CallTimeout` panics (`xclient.go:56`). `ServeHTTP` writes the status line with no space after `HTTP/1.0`, so `DialHTTP` always fails (`server.go:302`). Each of these fails on the first call that reaches it, so a unit test finds it; the models still reach them (`GeeRPC`'s `crashed`, `XClient`'s `crashed`, `Handshake`'s `statusErr`).
- A failed `Broadcast` branch cancels the ctx before a healthy branch copies its reply, and the reply stays zero (`xclient.go:97`); the spec's error section allows it, and `BroadcastResult` checks that an error is then returned.
- In geecache, nodes whose `HTTPPool.Set` got different lists can forward a key to each other; the first node's singleflight then waits on its own call, and `http.Get` has no timeout (`http.go:111`). `GeeCache` takes a ring per node, but the runs give every node the same list.
- geecache's `httpGetter.Get` escapes a key with `url.QueryEscape`, which turns a space into `+`, and `ServeHTTP` reads the path-decoded URL, where `+` stays (`http.go:126`). A key with a space is fetched from its peer as another key. Keys are model values in `GeeCache`, so this conversion is outside it.
- In the blockchain, `FindUTXOTransaction` lists a transaction once per output and never counts a miner's own inputs as spent (`blockchain.go:197`, `:204`), which would let a send spend an output twice. No send gets that far: the genesis-scan panic comes first.
- In tinybalancer, the round-robin, random, ip-hash and consistent-hash balancers inherit `TemplateBalancer.Inc`, which panics on every request (`balancer.go:77`). `IncPanics` models that path in the `tinybalancer` run.

### Bounds and why they are enough
Two callers on one connection is the smallest setup in which:
- calls interleave on `sending`,
- seq numbers can be confused,
- a response for one caller arrives while the other is pending,
- `terminateCalls` completes one call while another is in its select.

Each request's handler can be in any of its positions when the loop ends. One of the two callers has a deadline, so both the deadline and the no-deadline paths are explored in the same run.
Both methods (success and failure) and both Args kinds are enumerated in the safety run.
The liveness run drops the method and Args variation, which does not affect termination, to stay within minutes.

For `Handshake`, one connection is enough: each connection has its own decoder, goroutine and channel. Two or three requests behind the Option let the read-ahead swallow none, some or all of them. The codec types are the registered gob and the unregistered json, which `NewClient` refuses. A raw peer also sends json, which the server does not refuse.

For `GeeCache`, two client Gets on two nodes and four request slots are enough for:
- two Gets of one key on one node racing in singleflight, one of them arriving after the leader finished;
- a Get forwarded to the key's owner, answered or failing and falling back;
- an eviction in a 2-byte cache.

The hash tables put `k1` exactly on a point and `k2` past the last one, and make two nodes collide on one point. The hang run needs only a key loaded twice with two sizes.

For `TinyBalancer`, two hosts and two request goroutines are enough to remove and re-add a host under a request, and to give P2C two different hosts to compare. Three backend changes take a host down and up again, and leave a third change for the probes to race. Requests serve one request after another, so the model has no request counter. A load is bounded by the requests in flight, except when it wraps.

For `RegistryDiscovery`, two servers let one crash while the other keeps heartbeating, and lists of up to two entries let `Update` shrink the list under the round-robin index. TTL 2 with period 1 and POST delay 1 is the boundary case `Interval + MaxDelay = TTL`, where an entry reaches age TTL just before its next POST lands; the same run with period 2 violates `LiveServerListed`. One crash is enough for a dead server to linger in the registry and for a restarted one to rejoin. A three-entry list with an initial index up to 5 takes well over ten minutes.

For `BlockChain`, two wallets, two amounts (one the miner can pay, one it cannot) and up to three blocks reach funded and unfunded sends, sends to the other wallet and to a bad address; the chain never grows past genesis, so a larger bound adds nothing. The panic needs three steps: create, newWallet, send. One `--data` value, different from the genesis data, keeps coinbase ids distinct.

### Fairness
Every goroutine step is weakly fair: Go's scheduler eventually runs a runnable goroutine.
- This covers the caller steps, both halves of `receive`, `terminateCalls`, `serveCodec`'s read and close, and the handler and method goroutines.
- An armed ctx deadline or handle timeout eventually fires.
- `Close` and the network reset get no fairness: nothing makes them happen.

The handshake model has the same fairness for `DialTimeout`, its goroutine, the connect timer (when set) and the server's steps. The owner's `Close` and the raw peer get none. Its deadlock check is off: one connection's life ends.

In `GeeCache`, every request goroutine's step is weakly fair. Client Gets get no fairness. The deadlock check is off, because the cluster stops once the client Gets are served.

In `TinyBalancer`, the request goroutines and the health checks are weakly fair: a handler runs on, and the ticker fires every interval. Backend changes get no fairness. `HealthConverges` depends on `MaxFlips`: the backends stop changing, which is what "once the backends settle" means. The model never stops, because requests and ticks go on, so the deadlock check stays on.

In the geerpc models, the deadlock check is off. The program's normal end state has every caller returned and the server blocked reading an idle connection, or closed. `AllCallsReturn` is the property that rules out a real wait-forever.

In `RegistryDiscovery`, `Tick` is weakly fair (time passes), and so are each server's `SendHeartbeat` and `PutServer` (its heartbeat goroutine and the registry's handler run) and `RefreshGet` (a caller keeps using the discovery, and each use calls `Refresh`). `RefreshApply` is strongly fair: a failed GET may come again, but a registry asked again and again eventually answers; with weak fairness alone, a GET that always fails keeps every server undiscovered. `Crash`, `Restart`, the owner's Updates and `RefreshFail` get none. The model never stops, because time passes, so the deadlock check stays on.

`BlockChain` is checked for safety only and has no fairness: a user may never type another command.

## 4. Plan for later modules

`Discovery`, `XClient`, `CallFuture`, the client's refinement of `CallFuture`, `Handshake`, and `Registry` with `RegistryDiscovery` are done.
What remains, in order of importance:

1. **Connecting the handshake to the call path.** `GeeRPC` would start from a connection that `Handshake` set up, so that a swallowed request leaves its caller waiting. This would turn the read-ahead into a liveness violation of `AllCallsReturn`.
2. **geecache rings that disagree:** a run with per-node peer lists, checking `GetReturns`, to show the forwarding loop.
3. **The blockchain with the genesis scan and `Verify` fixed:** only then can a second block exist, and a no-double-spend property say something about `FindUTXOTransaction`'s `spentOutputs` filter (`blockchain.go:197`, `:204`).
4. **geeorm sessions and transactions**, and **gee's router trie** as pure operators checked against a reference.

## 5. Not modelled, and why
- **Data abstraction:** byte-level gob encoding, reflection on argument types, and method call counts. Only the outcome matters to the properties: decoded or not, error or not.
- **Reflective argument handling:** `NewArgv`, `NewReplyv` and `numCalls` are data; a request's Args are good or undecodable.
- **Debug page:** `server/debug.go` renders HTML and has no protocol.
- **Multiple connections per server:** each `ServeConn` has its own codec, mutex and WaitGroup. The only shared state is the read-only service map, so one connection shows every interaction, except that the crash of the process ends all connections.
- **Registry's HTTP surface:** the `X-Geerpc-Servers` header joining and splitting of the list, and the default period derived from the TTL. The model takes the list as a set and the period as a constant, and the run sets it at the TTL boundary.
- **`Get`/`GetAll` calling `Refresh` inline** in `GeeRegistryDiscovery`: `Refresh` is its own action under the same lock, made to happen by fairness, which admits every order the inline call has.
- **geeorm:** the package does not build as it stands (`Session` has no `Model`, `RefTable`, `Begin`, `Commit` or `Rollback`, and its imports mix two module paths), so there is no program behaviour to translate. Its interesting hazard, `Insert` and `Find` calling the `BeforeInsert`/`BeforeQuery` hook before `s.Model(value)` sets the table, would be a one-step stale-state model.
- **gee, the tutorials and katas:** sequential code with no shared state, better served by unit tests.
- **bitcoin's proof of work and Merkle root:** `pow.Run` is a nonce search over sha256, and `MakeMerkelRoot` a pure function of the transaction ids. Every block holds one or two transactions, so the root is the id itself or one pair hash; the loop's empty-list case, which would never end, is unreachable. Neither decides what a send spends, and the Merkle scheme (odd leftovers hashed with the root at the end) would need a run of its own.
- **tinybalancer's `net.go`:** `GetIP` and `GetHost` parse headers and URLs. The model takes the client key from `Keys`.
