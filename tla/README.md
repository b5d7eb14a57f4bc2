# A TLA+ model of moulars

moulars is an asynchronous server for *Myst Online: Uru Live* shards, written in
Rust on tokio. This directory holds TLA+ modules that model its core, the TLC
configurations that check them on small instances, and TLAPS proofs about them
for every instance. `PROJECT.json` is the machine-readable index: it maps every
definition to the lines it models and lists the runs, the hazards and the
theorems.

Run a check with `tlc -config X.cfg M`, a proof with `tlapm M.tla`.

## 1. The system

All connections arrive at one **lobby** socket. After a 31-byte header each goes
to the auth server, the file server or the gate keeper, where a task of its own
serves it until it ends. All shared game state is in the **vault**, a graph of
nodes, owned by one task that answers one message at a time.

| component | state | operations | interacts with |
|---|---|---|---|
| lobby (`lobby.rs`) | the listener, a shutdown channel | accept, read header, dispatch, shut down | hands sockets to the three servers; shares shutdown with the API |
| gate keeper (`gate_keeper/`) | none beyond the stream | ping, file server and auth server address | clients |
| auth server (`auth_srv/server.rs`) | per connection: `account_id`, `player_id`, the challenge, a broadcast receiver | register, login, set player, create player, vault requests, file lists and downloads, disconnect | calls the vault, forwards its broadcasts to the client |
| helpers (`auth_srv/vault_helpers.rs`) | local ids | `create_player_nodes`, `find_age_instance`, `create_age_nodes`: up to about fifty vault calls in a row | the vault |
| vault task (`vault/server.rs`) | the backend | one arm of `process_vault_message` per message | mpsc queue of 20 messages, a oneshot per reply, a broadcast channel of 100 messages |
| in-memory backend (`vault/db_memory.rs`) | accounts, players, game servers, nodes, references, two counters | the `DbInterface` methods | only the vault task |
| SQL backends | | `todo!()` | |
| file server (`file_srv/server.rs`) | per connection: a reader id | build id, manifests, chunked downloads | reads the files and manifests on disk |
| manifests and data cache (`file_srv/`) | the data root with its `.mfs_cache` files; per run a cache of settled entries | `mfs_tool update`: compile, encrypt, hash, compress, write manifests | the file server, through the files |
| SDL (`sdl/`) | descriptors; states with their variables | parse, default states, set, read, write, upgrade | the helpers |
| web API (`api.rs`) | none | `/online`, `/client_keys`, `/shutdown` | the vault, the lobby's shutdown channel |
| encryption (`net_crypt.rs`) | two cipher states per stream | key exchange, read, write | every server |
| Plasma streams (`plasma/`) | none | codecs | messages, SDL, files |

**What is hard.** The vault task is sequential, so a single vault call is atomic.
Everything made of several calls is not: signing in reads the online flag in one
call and writes it in another; an age is looked up in one call and created in
two dozen others; a player is created by some fifty calls of a worker whose
client may be gone by then. A worker's task can panic (several client messages
reach `todo!()`), and the vault lives on with what it had written. Handlers end
early at any failing call and clean nothing up. Broadcasts and client messages
race in one `select!`. Downloads read files that `mfs_tool` may be writing, and
`mfs_tool` truncates what it writes and may be killed at any write. SDL blobs
have no framing: every count, index and flag decides what the next bytes mean.
The vault stores any node and any reference a client sends. `PROJECT.json` lists these hazards with their lines, and
for each the properties that would notice it going wrong, or why none does yet.

**What makes each part correct.** Vault task: names are unique, limits hold,
tables agree, ids are never reused, refusals change nothing, changes are
announced. Workers: a player has one session; the session has a right to it; it
is offline after the session; a half-created player is visible to nobody; what a
request begins is completed. Vault graph: what the server puts there is sound
whatever clients add to it, its references lead to nodes and never in a circle. Channels: no lost reply, no deadlock, a client that keeps up misses no
change. Files: a download delivers the announced bytes of one
version; a run leaves manifests that describe the disk, and an unencrypted
secure file only with a warning. Codecs: reading gives back what was written, and nothing shifts.

## 2. Modules

| module | models | state and actions |
|---|---|---|
| `VaultNode` | `vault_node.rs`, `vnode_access.rs`, and the two functions on nodes of `db_memory.rs` | no state: nodes with their mask of set fields, the constructors, `node_match`, `update_node`, and the blob a node is sent as |
| `VaultDb` | the vault task over the in-memory backend | one variable per field of `Backend`, one action per message that changes something, an operator per read; `reply` and `sent` are the answer and the broadcasts of the last message |
| `SignIn` | abstract: what signing in and off amounts to | who is online, who has which player, who has seen what offline |
| `AuthSession` | the workers of the auth server with the helpers | the vault as sets of nodes, references and game servers, one record of locals per worker |
| `VaultChannel` | the channels around the vault task and the `select!` loop of a worker | the request queue with its line of waiting senders, the oneshots, the broadcast ring with a cursor per worker, the client's message in parts |
| `CryptStream` | `net_crypt.rs` reading under tokio's `BufReader` | bytes in the socket, in the buffer and in the `ReadBuf` of a `read_exact` |
| `Lobby` | the accept loop, the hand-over to the servers, the web API and shutdown | the listener's backlog, where the loop is, a queue per server, a task per connection, the API task and its requests |
| `FileTransfer` | a worker of the file server, or the file requests of one of the auth server | the files with version and size, the client's requests, the open download, the replies |
| `DataCache` | `mfs_tool update` over a data root | the files, their `.gz`, the manifests on disk and in memory, the cache of a run |
| `SdlState` | `sdl/state.rs` and `state_variable.rs` | a state of nested variables, made, received, set, upgraded, saved and loaded |
| `VaultDbProofs`, `SignInProofs`, `AuthSessionProofs`, `VaultChannelProofs`, `CryptStreamProofs`, `LobbyProofs`, `FileTransferProofs`, `DataCacheProofs` | the proofs | each about the module it is named after |
| `MCVaultDb`, `MCAuthSession`, `MCVaultChannel`, `MCCryptStream`, `MCLobby`, `MCFileTransfer`, `MCDataCache`, `MCSdlState` | instances for TLC | |

### VaultNode and VaultDb

`process_vault_message` runs to its end without an `.await`, so a message is one
action. `CreatePlayerRejected` and `CreatePlayer` are the two outcomes of one
arm; `UpdateNodeNotFound` and `UpdateNode` of another. `init_vault` is `Init`.
`HashMap::insert` is `insert`, which overwrites as the code does before
`create_node` notices a duplicate. A lookup that returns the first hit of a walk
over a `HashMap` is the *set* of hits, of which the code takes any.

A node keeps six of its thirty-one fields, one of every kind the model's callers
set, and the mask that says which are set; `node_match` and `update_node` treat
all fields alike. The blob of a node (`stream_write`, `stream_read`) is the mask
and then a cell per set field, in the order of the `f_write` and `f_read` lines of
the two functions; a cell is read as the kind it was written as, or not at all. UUIDs and names are model values; `Fold` is the case folding
of `UniCase`, any function. New account and age UUIDs are assumed to be new
(they are random).

The callers are the ones under `src/`: player and account ids are those of
players and accounts, updates are the two that sign a player in and out
(`VaultNodeSave` is `todo!()`, so there are no others), and references are
arbitrary. `VaultNodeCreate` stores whatever `from_blob` reads from a client:
`ClientNode` is any set of nodes, and `client_nodes` remembers which ids came
from there. With it a client makes a second system node or All Players folder,
a Player node of any account, or an online PlayerInfo node without location; the
instance has all four. The properties say what is left: `LookupsHitOwnNodes`
that a lookup of the system node or the All Players folder has the server's own
node among its hits and otherwise only clients' nodes, `PlayersMatchNodes` that
the players table agrees with all Player nodes that no client made up.

`MaxNodeIndex`, `MaxRefs` and `MaxGameServers` bound the counters, in the guards.

### SignIn

`SeeOffline` is the vault call of `do_set_player` that reads the flag, `GoOnline`
the one that writes it, `GoOffline` the last call of `handle_disconnect`,
`Vanish` a panic. The specification admits the race between the first two and
remembers in `raced` the players it has happened to, so that its properties say
exactly what the check in the code is good for.

### AuthSession

A handler gives way to other tasks only at an `.await`; those that matter are the
calls to the vault, which are answered one at a time. So an action is one vault
call and the local code up to the next. `pc` names the call a worker is at. The
helpers of `vault_helpers.rs` are sequences of calls (`create_player_nodes`,
`create_age_nodes`), of which `HelperCall` makes the next. A node is named by the
player or age it was made for and by the variable of the helper that holds its
id; that ids are fresh is `VaultDb`'s business.

`HangUp` happens between messages: a worker in a handler does not look at its
stream, it only fails to send the reply, which ends the loop in the same way.
`Panic` is a message whose arm is `todo!()`, or
the `peer_addr().unwrap()` after the loop on a connection that was reset. `HelperFails` is the SDL state that
cannot be built, as an error or as a panic; which states those are is fixed by the
SDL files, `bad_sdl`. A request to set no player is answered and changes nothing,
so it is not an action.

`VaultNodeAdd` refers from any id to any other, as `ref_node` checks nothing:
`ClientRef` is any set of references, to nodes that do not exist and around
cycles too. What clients refer to is kept apart from what the helpers refer to
(`client_refs`, `refs`), so that `NoDanglingRefs`, `RefsDescend` and
`PublishedComplete` can speak of what the server does; `SignOffFindsInfo` and the
check of `do_set_player` see both, as the lookups of the code do. A client
that closes a cycle and fetches its tree hangs the vault task for good, and all
workers with it; the model has no such fetch, so its liveness properties speak of
servers to which that has not happened.

The module implements `SignIn`: `holding` is `player_id` and `seen` the target of
a worker that is about to write the flag.

### VaultChannel

`AuthSession` takes a vault call to be one step; `VaultChannel` is what such a
call is made of, without its contents. A request is sent (`SendNow`), or waits in
line for a permit of the full queue (`SendQueued`, `SendGranted`), is received
(`VaultRecv`), broadcasts what it changed (`CheckBcast`) and is answered
(`CheckSend`, `ReplyReceived`). The steps of the vault task are apart because
other tasks run in parallel with it.

The loop of a worker is at `select`: the broadcast receiver is polled first
(`Lagged`, `RecvBcast`, `NoBcast`) and the read of the client's message next
(`ReadPart`, `ReadMessage`), and a broadcast can come between the two polls. The
read keeps its parts in a future that `select!` drops when a broadcast is ready
(`DropRead`); `torn` remembers that it had any. What is parsed after that is not
a message of the client: 0 in `handled`.

tokio's channels are modelled by what they do: the line for permits is first
come first served, a permit goes from the receiver to the first in line, a
receiver that was overtaken goes on at the oldest broadcast that is left. (tokio
rounds the size of the ring up to a power of two, 128 here.) `Backends` are the
values of the configuration's `db_type`; anything but `None` panics the vault task.

### CryptStream

RC4 adds a key stream to bytes, so the model keeps for every byte the set of key
positions that are in it. `poll_read` is `CryptTcpStream::poll_read`; the three
`Poll` actions are the branches of tokio's `BufReader`, which goes past its buffer
for a read of at least its capacity, and `read_exact`, which polls one `ReadBuf`
until it is full.

### Lobby

The main task is `AcceptLoop`: `Accept` or `AcceptFails` (a connection that was
reset while it waited), `HeaderRead` or `HeaderRejected`, `Add`,
one connection at a time; `Shutdown` is the other branch of the `select!` around
all of it. The three servers are alike up to the worker (`StartWorker`,
`InitClient`, `WorkerEnds`); what a worker of the auth server does is in the other
modules. The key exchange is its outcomes: served, refused, or a panic of the
worker's task. When the main task ends, by `Shutdown` or by the `todo!()` of a game
connection (`GamePanics`), the process ends and no action is possible.
`admitted` and `started` are histories, for `HandedOverInOrder`.

### FileTransfer

A worker answers one request before it reads the next: `Take`, then one action
per kind of request and outcome. A download is `DownloadOpen`, any number of
`ReadChunk`, and `ReadEnd`; each read returns between one byte and a buffer. A
file is a version and a size, and a chunk is which version was read, from where
and how far. Whoever writes a file truncates it first (`Truncate`) and fills it
later (`Write`), under an open download too; `calm` remembers that it did not.
The two servers share the module and differ in what they open
(`open_server_file` with `ignore_file`; `open_secure_file` with the whitelist of
`check_file_request`), in the fields of a chunk, and in what a list is. `MaxTotal` stands for the
largest `u32`, past which `Offset` wraps. The file server's build id check is
`Refuse`. Workers share nothing but files they do not write, so one is enough.

### DataCache

`cache_clients` in the order of the code: the Python `.pak`, the encryption of
secure files in place, then a stage per age, the SecurePreloader, and a stage per
client type. A stage loads its manifests, updates their entries
(`update_cache_file`), adds the files none of them lists (`create_cache_file`)
and writes the manifests with an updated entry. Every `File::create` is a step
of its own, after which the file is `Torn` until the next; `Crash` is possible
at each. Encryption visits each secure file once: it leaves an encrypted one
alone, rewrites any other, and goes on with a warning when the file cannot be
read or created (`EncryptFails`), which leaves it in the clear, or not be written
(`RewriteFails`), which leaves it empty; `CompressFails` is the error that
`update_cache_file` only warns about. `warned` remembers the warnings, with the
content they were about. The content of a file is one value, which stands for its bytes, size and
hash; `Cipher` is encryption, and the identity on what is encrypted. `Torn` is
a file with none of its content left, which counts as unencrypted. Between runs the administrator changes
files (`Edit`). The layout is a constant; that a manifest belongs to one stage
(`OnceAssumption`) and that a file pages refer to is for one manifest of a stage
(`ReferAssumption`) is what is assumed of it. Ages are in one order in all runs; in
the code a `HashSet` gives each run its own.

### SdlState

A blob is a sequence of cells, one per field whatever its width, and reading
takes what it finds at its position. `write` and `ReadState` are the two sides,
with the flags, the hint, the counts, the indices that are left out when all
elements are written, and nested states. `Init` is a state of defaults or one
that was read from a client's blob, `Set`, `Upgrade` and `Reload` are what the
code does with it, and `UpgradePanics` where it does not get through: at a
`Point3`, and, in a build with debug assertions, where a default variable becomes
one of varying length. `cell` and `element` are the conversions of an element: a
string is cut to 31 bytes and read with `from_utf8_lossy` (`Cut` and `Lossy`; cut
in the middle of a character, it ends in U+FFFD, which is longer), a Boolean is
any byte but 0. `AgeTimeOfDay` has no stored value. All other simple types come
back as they were written and are `Int`. `TooMany` stands for the limit of 10000
elements, which the reader does not reach and the writer does. Versions and
descriptors are the constant `Db`, which is what the parser makes of the SDL files.
`taken` remembers which variables have values that an upgrade took over.

## 3. Runs

| run | configuration | what it shows | states |
|---|---|---|---|
| `vault` | two accounts, three names, two of which differ in case only, one player per account, three new nodes, a reference and a game server, nodes and references being any that clients make up | `TypeOK`, `NamesUnique`, `AtMostMaxPlayers`, `PlayersMatchNodes`, `NoDuplicateIds`, `LookupsHitOwnNodes`, `BlobsKeepNodes`, `ChangesAnnounced` | 921 000 |
| `sessions` | two sessions, two accounts, a player and one to be created, with a Relto that can or cannot be built, a reference a client makes before the helper does | `RefinesSignIn`, `SignsInOwnPlayer`, `SignOffFindsInfo`, `NoDanglingRefs`, `RefsDescend`, `PublishedComplete`, `DisconnectSignsOff`, `CreationCompletes` | 146 000 |
| `ages` | two sessions asking for one age, which can or cannot be built, and a client's reference that closes a cycle | `AgesConsistent`, `RepliedAgeCompletes` | 4 500 |
| `channels` | two workers, of which the client of one never reads, two calls, a queue and a ring for one message, a backend that starts or panics | `HeardInOrder`, `MissedOnlyByLag`, `OwnChangeFirst`, `FramingKept`, `CallsReturn`, `GetsPast` | 310 000 |
| `lobby` | two connections, one of a client that may stay silent, an API request, queues for one socket | `HandedOverInOrder`, `HeldUpOnlyBySilence`, `ShutdownEnds` | 266 000 |
| `crypt_short` | a buffer of three bytes, reads of one to three | `Decrypted`, `ReadsReturn` | 700 |
| `downloads` | either server, two requests, a file of two chunks, a manifest and a file that is not given away, one of which is written anew | `ChunksInOrder`, `UndisturbedComplete`, `AnsweredInOrder`, `Served` | 204 000 |
| `cache` | an age, the SecurePreloader and a client type with two manifests, five files, three runs, two edits, two failures | `UpToDate`, `StaleOnlyBehindFresh`, `UnlistedOnlyBehindOthers`, `FlawedOnlyAfterWarning` | 1 596 000 |
| `sdl` | a descriptor with three versions over a nested one, every form of each variable, strings that are cut, a limit of three elements | `RoundTrip`, `UpgradeKeeps`, `SaveLosesOnlyUpgraded` | 63 000 |
| `crypt_long` | as `crypt_short` with reads of four | violated: `Decrypted` | |
| `cache_stale` | as `cache` | violated: `RunBringsUpToDate` | |
| `online_ghost` | two sessions, two accounts with a player each | violated: `OnlinePlayersAreHeld` | |

**Bounds.** Every race in this code is between two parties (two readers of one
flag, two creators of one age, two requests for one name), so two sessions show
it. Two accounts and a limit of one player are enough for the limit to be met
and for names to clash between accounts. The limit of the code is 5; it is a
constant here, and the theorem covers 5. Queues and ring are at their limits with
one place as they are with 5, 20 and 100: what matters is that they can be full,
have somebody waiting, and go round. A message of two parts is enough to be cut
in the middle, a buffer of three bytes to be smaller than, equal to and larger
than a read. With a queue for one socket, two connections fill it. In `channels` the client
that reads sends two messages and the other one: the second is what a torn read
runs into. In `cache`, three runs and two edits are
what a stale entry takes: one run to list a file, an edit and a run that is cut
short, and a run that should have repaired it; two failures let one run leave a file in the
clear and the next fail at its `.gz`. In `sdl` a limit of three elements is below,
at and above the lengths of the variables. The sizes of `downloads` are
nothing, part of a chunk, a chunk and a part, and more than `MaxTotal`.

`MCVaultDb` stops at the bound of the node counter, the clients of `VaultChannel`,
`CryptStream` and `FileTransfer` stop after a bounded number of messages, the
runs of `DataCache` are bounded, a rejected blob or a panic of `SdlState` is the end of it,
and the process of `Lobby` ends, so these do not ask for the absence of deadlock;
`MCAuthSession` does.

**Fairness.** `AuthSession` assumes weak fairness of `Worker(s)`, the steps a
worker makes by itself: tokio polls a woken task, and the vault task answers every
message and never waits for a worker. Nothing is assumed of clients: they need
not log in, answer, or hang up. `CreationCompletes` and
`RepliedAgeCompletes` suppose SDL files that are in order; without, creations do
not complete, by design of the code. `VaultChannel`
assumes the same of the vault task and of the workers, and that output is sent for
clients in `Reading` only: the others may keep a worker in `send_message` for
ever, which must not hold up anybody else. The line for permits is in order, so
weak fairness is enough. `CryptStream` assumes that a read is polled when bytes
have come. `Lobby` assumes that the main task and the servers are polled, `select!`
looks at its two branches in random order, so neither starves, that a reset
connection in the backlog is reported by some `accept`, and that a client
not in `Silent` sends its header or goes away. `FileTransfer` assumes that the
worker goes on: its file reads return and so do its writes, as its client reads.
Nothing is assumed of who writes the files.

**Violations.** In `crypt_long`, a read larger than the `BufReader` that takes two
polls has its first bytes decrypted twice, and the connection is out of step from
then on: `poll_read` applies the key stream to all that is filled. Payloads of
that size are within the limits the messages set. The other two are
disagreements between the code and its own documentation. In `cache_stale` a run
that was cut short between two manifests leaves the second stale, and no later
run repairs it: the entry of the first, right by now and not updated, goes into the cache,
the second gets a clone of it, and is not written as nothing in it is marked.
`StaleOnlyBehindFresh` and `UnlistedOnlyBehindOthers` say that this is the only
way. In `online_ghost` a session that signs in as a second player leaves the
first one online for good, and a panic does the same: `/online` lists a player
nobody plays and nobody can sign in as.

## 4. Proofs

Every theorem holds for every value of the constants, under the assumptions of
the modules (`ASSUME`, evaluated by TLC in each run). The pattern is the same
throughout: an inductive invariant, one step per action, the property from it.
What follows is what each invariant has to add to the property, and why.

`VaultDbProofs` proves all safety properties of `VaultDb`, for any accounts, names,
folding and bounds. Seven of them come from one invariant, `IInv`; they are
not inductive one by one. Only fresh ids (`FreshIds`: every id in use is below the
counter) make a create an insertion of a *new* node, without which it could
overwrite a Player node and break `PlayersMatchNodes`; and that an update cannot
turn a node into a second All Players folder needs the types. Nothing is
assumed of clients' nodes but that their fields have types; that none of them takes
the place of a node of the server is `FreshIds` again. `OnlineIsLocated`
strengthens `OnlineHaveLocation` from the nodes a lookup returns to all nodes.
`NextIInv` has a step per message; `CreateNodeFacts` and `LookupsKept` are the
lemmas the creating messages share. `BlobsKeepNodes` is proved in two halves:
`MaskInv`, that a field outside the mask has its default, is kept by every message
(`ConstructorMasks`, `UpdateMasks`), and `BlobRoundTrip`, that of such a node
`stream_read` finds every cell where `stream_write` put it, for all masks. The assumptions are those of the modules: the
nil UUID is not an account, the empty name not a name, folding maps names to
names, the limit is positive.

`SignInProofs` proves `SingleHolder` and `HeldIsOnline` for any sessions and
players, with no assumption. The
strengthening is about the window of the race: of two sessions that have seen one
player offline the player is in `raced`, and so it is when one has seen offline
what another has.

`AuthSessionProofs` proves all safety properties of `AuthSession`, for any
sessions, accounts, players and ages and any SDL files. It has two halves.
The first is about what the helpers are, lists of vault calls:
`AgeCallsGrounded` and `PlayerCallsGrounded` show that each call finds the nodes it needs, in the
vault the helper starts from or among those it has created by then (`Grounded`),
and that the call that lists a player is the last. These are lemmas about
concatenations of the parts a helper is written in (`GroundedConcat`,
`CreateEachCalls`, `RefEachCalls`). The second is about workers that make such calls in turn.
`VaultInv` says that the calls a worker has made have been performed
(`CallsPerformed`), that every reference the helpers made has its nodes (`RefsGrounded`) and goes down in rank, that what
is listed is whole, and that a worker with a player has its info node. From it come
`NoDanglingRefs`, `RefsDescend`, `PublishedComplete` and `SignOffFindsInfo`; nothing is ever
deleted, so other workers cannot disturb it. `OwnTarget` carries the check of
`do_set_player` over its vault calls and gives `SignsInOwnPlayer`. `AgeInv`
is about the window between `find_age_instance` and the first call of
`create_age_nodes`: outside `raced_ages` at most one worker is in it or past it
(`OneCreator`, `CreatorsOwn`), the AgeInfo node comes after its Age node
(`InfoAfterAge`), and a worker between two lookups holds the Age node it found
(`FoundAge`). `ImplementsSignIn` is the refinement of `SignIn`: under the
mapping, every step is one of `SignIn` or a stutter, and the steps that are not stutters are the
two calls of `do_set_player`, the last of `handle_disconnect` and the panic. With it
the theorems of `SignInProofs` hold of the workers (`SessionsExcludeEachOther`).

`VaultChannelProofs` proves the safety properties of `VaultChannel` for
any workers, queue, ring, messages and backend. For `OwnChangeFirst`, `OneMessage` says that a worker has at
most one message with the vault and awaits its reply meanwhile, so that nothing
of its own is broadcast while it is in its loop; and its broadcasts are among
those posted, so that an empty receiver has seen them. For `HeardInOrder`, a broadcast
that was taken and not yet written is in hand only while the worker writes or
leaves (`ItemInv`), and a worker that leaves never returns to its loop, so the
next broadcast never replaces one in hand. For `FramingKept`, `Framed` counts: as long as
no read was torn, what was taken out of the stream is the messages handled and the
parts in hand.

`CryptStreamProofs` proves `Decrypted` for any capacity under the assumption
`ReadsFit`, that no read is larger than the buffer; `crypt_long` shows that the
assumption is needed. `IInv` says where the key stream stands: all that was read,
filled or buffered has been through it once, what is in the socket has not.

`LobbyProofs` proves `HandedOverInOrder` for any connections and any size of the
queues. That a connection has one server only rests on its header: what a server
was given has that server's header (`ByHeader`), and a header does not change.

`FileTransferProofs` proves the safety properties of `FileTransfer` for either
server, any files (finitely many), requests and chunk size. `Ordered` says that
transaction numbers grow from what was answered over what is in hand to what is
still to be read, so that replies and requests correspond by number; `Reading` that the
chunks sent for the open download reach to `pos`, and, if nobody wrote the
file, are all of the version that was opened. A download that ends then has
delivered what it announced.

`DataCacheProofs` proves the four properties of `DataCache`, for any data root, any
stages, edits and faults, and any number of runs. `OnceAssumption` says that a
manifest belongs to one stage: ages have different names, and none is named like
one of the fixed manifests. For `FlawedOnlyAfterWarning` (`WarnedInv`), every
entry, in a manifest on disk or in memory or in the cache, is `Excused`: its hash is that
of an encrypted file or has its warning, and so has a download of other content. The
stages begin when every secure file was visited, so that those still in the
clear have their warning (`Unwarned` is empty), no file changes during a run but
by the tool, and the hashes a run does not take from the disk it takes from earlier manifests.
For `StaleOnlyBehindFresh` and `UnlistedOnlyBehindOthers`, `RunInv` follows one run from its beginning to its end, for whatever
it finds on disk: manifests of stages to come are as the run found them
(`Untouched`), those in memory are worked through in turn (`InTurn`), an entry that has been settled
is the one in the cache (`Settled`), which is right about the file and, unless it is
marked as updated, comes from a manifest that was right when the run began (`Cached`,
`Witness`), and a manifest that is done has what `Result` says. Neither
property is inductive: they speak of the end of a run, and what makes them true is
how each entry came into the cache, of which there is no trace at the end but the
manifests themselves.

`UpToDate` speaks of a whole history of runs, so it needs an invariant that goes on from
one run to the next, `UpInv`. Between whole runs (`Rested`) all manifests that have an
entry for a file have the same one (`Agree`), the download of each hashed entry is on disk
(`AllGood`), and, unless the administrator has changed files since, the manifests
describe the disk. During a run (`Running`) what is not settled yet is as the last
whole run left it (`Intact`), an entry that is settled was judged by the file as it is now
(`Judged`), and a manifest that was written or needed no writing is what it will be at the end
(`Final`). That manifests agree is what lets one entry settle a file for all of
them. It holds under `ReferAssumption`: a file that an age refers to without
looking for it is for at most one manifest of each stage. An age has one
manifest, and of those of a client type the sound, `.csv` and `.sub` files go to
the full one alone; a page whose sound buffer names a file of some other kind is
outside it. The assumption is needed. Without it, a path that is absent when one
manifest of the stage first lists it, then a directory, then a file, is left out
of another one by three whole runs.

`TornForGood` is about what a crash can leave behind for good. A crash
between the `File::create` and the writes of `write_cache` leaves a manifest that `from_cache`
fails on; every later run ends there before it writes anything in that stage, so the
manifest stays torn until somebody deletes it. `TornInv` adds where the run is:
it is never inside the stage of a torn manifest, and behind it only if it was skipped.

`OnlineHaveLocation` and `RejectionLeavesNoTrace` of `VaultDb`, the two of
`SignIn`, and `TornForGood` are proved and have no run.

**Only model-checked.** Liveness, in all modules: it needs fairness and ENABLED, which
are beyond the prover. `HeldUpOnlyBySilence` and `ShutdownEnds` of `Lobby` are of this kind. `SdlState`:
states nest, and are written and read by RECURSIVE operators; what those compute
for every state takes an induction over data that the provers cannot do.

## 5. Not modelled

The parts with status `not_modelled` in `PROJECT.json`, with the reasons there.
Within the modelled parts: `AuthSession` takes vault calls to be single steps and
`VaultChannel` takes them to be without contents, the recursion of
`fetch_refs` is replaced by the property it needs (`RefsDescend`), which clients can
void, node fields are a sample, and account flags, tokens and hashes are left out of
login. The nodes that clients make up are in `VaultDb` and not in `AuthSession`, where a lookup
finds the server's own node: `LookupsHitOwnNodes` says when it does. The web API's `/online` asks the vault once per node; `VaultDb` has the first
of these calls.

The API gives open connections ten seconds after `/shutdown`, but the main task returns
at once and ends the process: `Lobby!Shutdown` does not wait for the API either.

Of the files: which files an age or a page refers to, how a manifest entry is
encoded, the order of the ages, the flags of sound files, and the streams of `file_crypt.rs`. Of SDL: the
parser, and the states whose blobs the code gets wrong. `write_simple` announces
a timestamp and does not write it, and `is_default` panics for a `Point3`; `Sound`
leaves such states out of `RoundTrip`, since what the reader makes of the missing
bytes depends on widths the model does not have. Messages are
one field after the other in a fixed order; they are left to the compiler and the
tests.

## 6. Plan

1. The two-call `/online` query and `fetch_refs` as a walk over `AuthSession`'s
   graph; login with its two hash schemes.
2. The encrypted streams, whose blocks and buffers have edges of their own, against a reference.
