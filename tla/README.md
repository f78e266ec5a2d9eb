# IronPeer in TLA+

Specifications, model-checking runs and proofs for IronPeer, a BitTorrent client
in Rust (`src/src/*.rs`, about 2500 lines). One main thread owns the pieces, the
peers and the files, and drives all of them from `tick()`; short-lived threads
make connections and hand them over a channel. There is no lock and no shared
mutable state, so what makes the program hard is not data races but the order of
*events*: messages of several peers, broken connections, failed writes and
crashes between the phases of a tick.

## Inventory

| Component | Source | State | Operations | What makes it correct |
|---|---|---|---|---|
| Piece manager | `download/manager.rs` 6-161 | status of each piece, counter, queue of `PieceState`s with block flags and counter | `start_downloading`, `mark_complete`, `reset_piece`, `get_next_needed_piece`, `get_bitfield` | counters never drift, the queue is the Downloading pieces, no flag outlives an attempt |
| Download manager | `download/manager.rs` 163-539 | list of `ActivePeer`s (choke and interest flags, pieces they have, inflight requests), upload slots | `add_peer`, `verify_existing_pieces`, `tick` (read, choke, interest, request, remove, broadcast) | complete means right on disk; limits hold; peers are told what we have; a piece somebody has completes; only failed peers are dropped |
| File storage | `storage/files.rs` | the files | `write_block`, `read_piece`, `verify_piece`, `read_block` | files act as one array of bytes |
| Wire codec | `protocol/codec.rs`, `protocol/messages.rs` | bytes read and not yet decoded | `encode`, `read_message`, `decode_message` | messages come out whole and in order |
| Peer connection | `peer/connection.rs` | socket and decoder | `connect`, `send_message`, `read_message` | a send is whole or the connection is lost |
| Handshake | `peer/handshake.rs` | none | `perform`, `connect_and_handshake` | only peers of this torrent get through |
| Main loop, threads | `main.rs` | channel of connections, index of the next peer, `announced_completed` | take connections, spawn attempts, tick, announce | one connection for each address; completion sent to each HTTP tracker, once |
| UDP tracker | `tracker/udp.rs` | one socket | `announce` (connect, then announce) | an answer belongs to its request; what fits the buffer is read, and no half of a peer |
| HTTP tracker | `tracker/announce.rs`, `tracker/http.rs` | none | `announce` | a reply that is cut off is no list of peers; an announce ends |
| Peer lists | `structs/peer.rs`, `structs/tracker.rs` | none | `from_compact_bytes`, `parse_peers` | no peer lost or misread |
| Metainfo | `protodef/meta_info.rs`, `structs/torrent_info.rs` | none | `to_torrent_info` | layout agrees with the .torrent file |

Interaction: `main` asks the trackers one after the other, spawns threads that
connect and shake hands, takes the connections they send over a channel, and
calls `add_peer`, then `tick`; `tick` calls `read_message` and `send_message` of each
peer, `write_block`, `verify_piece` and `read_block` of the storage, and the piece
manager's operations.

Hard behaviour, with its lines, is listed under `hazards` in `PROJECT.json`:
duplicate, late, short and overlong blocks, resets while requests are outstanding, peers that fail
twice in one tick, counters that must follow peers that leave, partial writes,
crashes, messages cut anywhere, files that end inside a piece, late answers of
trackers that share a socket, connections to one address from several threads,
trackers that stop in the middle of a reply.

## Modules

| Module | Models | 
|---|---|
| `PieceManager` | The piece manager by itself: one operator per operation, `PMNext` for what a caller may do in any order. |
| `DownloadManager` | `EXTENDS PieceManager`; peers, `tick` and the world around it. |
| `MetaInfo` | The layout that `to_torrent_info` computes. |
| `Storage` | `EXTENDS MetaInfo`; `storage/files.rs` byte by byte. |
| `FlatStore` | What `Storage` promises: one array, writes in parts, prefix on failure. |
| `MessageDecoder` | The codec on a non-blocking socket. |
| `MessageChannel` | What `MessageDecoder` promises: a FIFO of messages. |
| `HttpTracker` | An announce over HTTP, and how lists of peers are parsed, as operators. |
| `UdpTracker` | `EXTENDS HttpTracker`; an announce over UDP and the network. |
| `Client` | `EXTENDS UdpTracker, MetaInfo`; `main`, its threads, the listener and the channel. |
| `MC*` | Values of constants for the runs. |
| `*_proofs` | Theorems and proofs about the module of that name; `Pipeline_proofs` has those about the requests of the download manager and its list of failed peers. |
| `NatFacts`, `SequenceFacts` | Lemmas the proofs share: induction over the numbers, recursive functions, quotients; sequences that are cut, joined and flattened. |

Definitions named `Name_Something` and marked *Mutant* are broken variants of
`Name`. No specification uses them; each is a plausible slip that one of the
properties must notice.

### PieceManager

A block is `<<piece, position>>`. The `PieceState` of a queued piece is spread
over `downloaded`, `requested` (sets of blocks) and `downloaded_count`; the queue
holds piece indices. `mark_complete` and `reset_piece` include the `retain` that
drops the `PieceState`. `BlockReceived` is the part of the `Piece` handler that
follows the write, with the verdict of `verify_piece` as argument. `PieceState::new`
appears as `NumBlocks`; that the blocks it cuts tile the piece is checked in
`Storage`. Block flags of a new `PieceState` are empty because the ones of an
earlier attempt were dropped with it (`FlagsOnlyInQueue`).

### DownloadManager

`tick` is a sequence of steps, one per phase of the loop body and peer, with `pc`
the phase and `cursor` the loop variable (from 1):

    idle --TickBegin--> read -> choke -> interest -> request -> (next peer: read) ...
         -> remove (RemoveDead, once per entry of peers_to_remove) -> BroadcastHave -> idle

In the code nothing of our own runs between two phases, but the network and the
remote peers do, and a crash may come anywhere; that is what the split is for.
Each handler of a message is one action with every call it makes: `PieceArrives`
is the bookkeeping, the write, the flags, the verification and the list of
completed pieces. Fields of `ActivePeer` are functions of the address; those of
an address without an `ActivePeer` are the values `ActivePeer::new` gives.

Abstractions: a block on disk is `none`, `part` (its first bytes, or those of an
overrun), `good` or `bad`; the data of a Piece message (`BlockData`) are good, bad,
more than was asked for (`long`) or less (`part`), since the codec takes a block of
any length (`codec.rs:195`) and the handler compares it with nothing. The torrent is
one file here (`Storage` has several), so that a piece cannot be read exactly when
the file ends inside it (`EndsInside`): its last block is not whole and nothing was
written after it. Data that are too long run into one block, not several. Indices and
offsets outside the torrent are left to `Storage`; messages that change nothing are
`ReadNothing`; a peer's messages are limited to those it may sensibly send, plus the
faults.
A Request that is served changes no state of ours and is `ReadNothing` too.

Faults (constant `Faults`, at most `MaxFaults` in a behaviour): close, break
(reset), garbage (undecodable bytes), congest (a full socket), choke, stray (a
block nobody asked for), corrupt, long (more data than asked for),
short (less, even none), write (disk error, perhaps after a part), crash. A run names
those its question is about. A socket that is full refuses a message whole; a partial write is not modelled.
After an orderly close reads answer `Ok(None)` and writes are still taken; after a
reset the first operation reports it, later reads answer `Ok(0)` and writes fail.

`owed` counts how often each block is owed by a peer on the other side of its
open connection; a request into a connection that is closed or reset is owed by
nobody. It belongs to the model and is what `SlotsExact` and `NormalModeAsksOnce`
compare the program's own bookkeeping with.

### MetaInfo, Storage and FlatStore

A `.torrent` file is a record of numbers; `to_torrent_info` computes the layout of
pieces and files that the function of that name computes, and `Storage` takes it
from there. Offsets of files are not wrapped: a torrent of 2^64 bytes has no disk.
The length of a piece is computed in two places and so it is here: by the piece
manager, which cuts it into blocks (`last_piece_length`, `length_to_download`), and
by the files, which read it (`get_piece_length`); `BlocksTile` compares them.

Bytes are numbers so that each right byte is unlike all others. `write_block` is
one step per round of the loop over the files; `WriteFails` stops it after any
number of bytes, which is also what a crash leaves. `read_piece` is a recursive
function over the files (`Failed` is the return from inside its loop). Reading changes
nothing and happens between writes, so reads are checked as state predicates when no write is running.

### HttpTracker and UdpTracker

What an HTTP server sends is one record: the lines it sent before it stopped, how
much of the body, the length it declared, whether it closed the connection, and
the response in the body. `announce_http` maps it to what the code makes of it:
peers, `Err`, `Waits` (no byte comes and no timeout is set) or `Spins` (the loop
over the headers at the end of the stream). The peers are bytes
`<<address, k>>` in compact form, so that a cut in the wrong place shows. The
code has two loops that cut them, one that always steps by 6
(`from_compact_bytes`) and one that may step by 18 (`parse_peers`, a round of
which is `parse_round`).

A body that stops before the response does is no list; what follows the response in a
longer body is not looked at, which is how `serde_bencode::from_bytes` reads.

Over UDP an announce is two requests, each with a new transaction id. `answers`
are the datagrams on their way; each may be lost, late, read twice or read by the
announce of another tracker, since one socket serves all of them and nobody looks
at the sender. Random transaction ids are taken to be unused ones, and the
connection id a tracker issues is the tracker itself. A read ends with a datagram
or with the timeout of 5 seconds. The answer to an announce is read into a buffer
(`AnnounceBuffer`, 2048 bytes in the code) and cut off there (`Kept`), the peers with
it. When the announces are over the socket is not used again; its variables are reset there (`UdpDropped`) to keep states few.

### Client

`pc` is the phase of the main thread:

    announce -> start -> take -> spawn -> tick -> check -> (completed ->) take ...

with `returned` (no peers), `blocked` and `spinning` (an HTTP tracker hangs), and
`panicked` (out of a tick, `manager.rs:525`) as ends. `url` is the loop variable of the loops
over the trackers. `thread[i]` is the thread of the entry `all_peers[i]`, of which one peer may have several: connecting, handshaking, done. Threads of
the listener are `listener_thread`. `channel` holds the addresses of connections
on their way to the main thread. Connecting and shaking hands succeed or fail as
the network likes; a handshake of another protocol or torrent is refused.
A tick is what `main` sees of one: it may drop peers, may complete the
download, and may panic if there are peers. The two modules meet in `peers` (addresses with an `ActivePeer`) and
in `already_connected`; `add_peer` and `tick` themselves are in `DownloadManager`.

### MessageDecoder and MessageChannel

A byte is `<<message, position>>`; a prefix means the length of its message. A
read may return any part of what is in the socket, or `WouldBlock`, which lets the
network delay every byte. Send, close (perhaps inside a message) and reset may
come between any two reads of one call. After `Err` the decoder is done.

## Runs

| Run | Properties | Bounds |
|---|---|---|
| `dm_network` | `PMTypeOK`, `CompleteCountExact`, `QueueIsDownloading`, `BlockCountExact`, `FlagsOnlyInQueue`, `DMTypeOK`, `CompleteIsVerified`, `UploadSlots`, `SlotsExact`, `LimboIsCut`, `AdvertisedExactly`, `NeverUncompleted` | 2 peers, pieces of 2 and 1 blocks, 2 inflight, 1 slot; no files or those of an earlier run, one piece right and one wrong; 1 of break/close/garbage/short/write/crash |
| `dm_remote` | `PipelineBounded`, `NeverOveradvertised`, `NoPanic`, `NormalModeAsksOnce` | 2 peers, 2 pieces of 1 block, 1 inflight, 1 slot; 2 of choke/stray/congest |
| `dm_live` | `ObtainableCompletes`, refinement `PMSpec` | 2 peers, one of them silent, 2 pieces of 1 block, 1 of corrupt/long |
| `st_writes` | `StorageTypeOK`, `BlocksTile`, `VerifyFollowsBytes`, `ServesStoredBytes`, refinement `FlatSpec` | 4 torrents (a piece over three files with an empty one, a full last piece after an empty file, a file that ends with its piece, one short piece), blocks of 2 bytes, calls of 0 to 3 bytes at any offset |
| `md_stream` | `DecoderTypeOK`, `NoByteLost`, `FailsForCause`, refinement `ChannelSpec`, `EverythingArrives` | 3 messages of 5 kinds (4 to 15 bytes, one malformed), reads of up to 6 bytes |
| `client` | `ClientTypeOK`, `OneConnectionPerAddress`, `OnlyThisTorrent`, `AnswersMatch`, `CompletedOnce`, `PeersFromTheirTracker`, `EntryTriedOnce`, `AnnouncesFinish`, `AllTried`, `CompletionReachesHttp` | 4 trackers: 2 over UDP that name the same peer, one whose URL does not parse, 1 over HTTP with 540 ways to reply; an announce buffer of 35 bytes (two peers and a half; one tracker lists three); 3 addresses, one of another torrent, 2 that also connect to us; target of 1 peer, 3 are enough, batches of 2 |

What they show: `dm_network` and `dm_remote`, that the bookkeeping of pieces,
pipelines and upload slots, the files and what peers were told agree under the
faults of the table, and that a piece gets stuck only when its last block was cut;
`dm_live`, that a piece somebody will send us completes in spite of wrong data, and
that resets and completions are the piece manager's own; `st_writes`, that files of
any layout act as one array and that what is asked for is what is verified;
`md_stream`, that the decoder is a FIFO of messages; `client`, that main gets its
peers from the tracker it asked, tries each entry of its list once and all of them,
keeps one connection of an address, and sends the completed event to every HTTP
tracker, once, in every order of threads and datagrams.

Why the bounds are enough: two peers are what it takes for one to answer late,
to fail in front of the other, or to hold a block the other is asked for; two
pieces give a last piece with its own length, an order of rarity and both endgame
and normal mode; two blocks separate a full piece from one that is not; a limit of
1 or 2 is reached and refused. Faults are spent at any moment, so one of them
covers every place it can strike. Peers are interchangeable in the runs with
symmetry (no liveness is checked under symmetry). In `client` two UDP trackers are what it takes for an answer to
arrive at the other's announce; a target of 1 makes the initial batch 2, and
lists of 3 and more entries leave a later batch that is whole and one that is not;
a peer that two trackers name and that connects to us as well reaches the channel
three times. With an announce buffer of 35 bytes a list of three peers is cut inside
the third, as 2048 bytes cut a list inside its 339th. Six-byte reads cut prefixes and
payloads and run over into the next message, as 1024-byte reads do. The decoder
stops after `Err` and its sender after `MaxSent` messages, so its run does not
check deadlock; all others do.

Fairness. `tick` is called in a loop without condition: weak fairness of
`TickStep`, which includes its steps that do nothing. `ObtainableCompletes` also
assumes of the peers in `Responsive`, and of no other, that they are connected,
send their bitfield, unchoke and answer whenever they can again and again (strong
fairness, because each is read at only one phase of the tick): an assumption on
the remote side. `EverythingArrives` assumes that the decoder is called and that
bytes that were sent are found by a read in the end. In `Client` only the main
thread is fair (`WF(MainStep)`): its reads of datagrams time out, it never waits
for the channel, and the one call that may last for ever, a read from an HTTP
tracker, is a step to `blocked` or `spinning`, which the liveness properties
name as an exception (`Hung`), as they name a panic (`Halted`). So they say that
nothing else stops main; they do not notice that these do. Nothing is assumed of threads, which may never end, nor of
the network.

### Where code and comments disagree

Each of these runs checks one property a comment of the code states, and TLC
finds a behaviour of the code that breaks it.

| Run | Property | In short |
|---|---|---|
| `dm_slot_leak` | `SlotsFollowUploads` | `unchoked_peers` is not decremented when a peer is removed (`manager.rs:523`) |
| `dm_double_removal` | `RemovesOnlyFailed` | two errors in one tick list a peer twice; a healthy one is removed, or the program panics (`manager.rs:422`, `440`) |
| `dm_late_bad_block` | `CompleteIsVerified` | a late block overwrites a complete piece (`manager.rs:329`) |
| `dm_orphan_block` | `ObtainableCompletes` | the requests of a removed peer stay marked (`manager.rs:525`) |
| `dm_closed_peer` | `LostPeerIsDropped` | a closed connection reads as "no message yet" (`codec.rs:100`) |
| `http_hang` | `HeadersEnd` | the headers of a reply that is cut off are read for ever (`http.rs:83`) |

The passing runs name faults under which the same properties do hold: for
instance `CompleteIsVerified` under write errors and crashes; `NormalModeAsksOnce`
without resets; `AdvertisedExactly` without full sockets, whose errors are ignored.
`NoPanic` is checked in `dm_remote`, where no read fails: two errors of one
peer in one tick, which need a failing read, are `dm_double_removal`.

More limits of the code show in the model and have no run of their own. Some of them
contradict the words next to the code:

- `main.rs:286` says "Announce completion to all trackers" and `main.rs:295-296`, of
  UDP trackers, "we're just gonna announce as usual". UDP trackers are told nothing, and
  an announce to an HTTP tracker that fails is not repeated, while
  `announced_completed` is set all the same. `CompletionReachesHttp` and `CompletedOnce`
  are about what is sent, and to the HTTP trackers only.
- `main.rs:118` prints the length of `all_peers` as "Total unique peers found". Nothing
  removes duplicates (`main.rs:92`, `107`): a peer that two trackers name has two
  entries, and two threads connect to it, in `client` as in the code. `EntryTriedOnce` is
  about entries; that one connection of the two is kept is `OneConnectionPerAddress`.

Of the others no line says that they should be different:

- A block that is shorter than what was asked for (`codec.rs:195`), even empty, is flagged
  as downloaded, as is one whose write fails (`manager.rs:329`). If the file then ends
  inside the piece, `verify_piece` is an error, and the piece stays Downloading with
  nothing left to ask for (`manager.rs:372`). `LimboIsCut` says that it happens to a
  piece only if its last block is not right on disk.
- An answer longer than its request overwrites the start of the next block
  (`files.rs:74`), whose piece may be complete: with `Faults = {"long"}`,
  `CompleteIsVerified` fails with one peer.
- A reset forgets the requests that are outstanding for its blocks (`manager.rs:141`):
  with `Faults = {"corrupt"}`, `NormalModeAsksOnce` fails.
- Blocks nobody asked for count down `inflight_requests` (`manager.rs:324`): with
  `Faults = {"stray"}` a peer may owe more than the limit. `PipelineBounded` bounds the
  counter.
- The answer to a UDP announce is read into 2048 bytes (`udp.rs:124`): the peers after
  the 338th are dropped, and nothing says so. `PeersFromTheirTracker` says which.
- A read of a piece after the last one succeeds with zeros (`files.rs:100`): no file
  matches, and `read_piece` says so.

## Proofs

`PieceManager_proofs` proves `PieceManagerCorrect`: `PMSpec => []PMInv` for every
number of pieces and blocks, from `LayoutAssumption`. `PMInv` is the inductive
invariant. None of its parts is inductive alone: that a completion raises the
counter by one needs the status not to be Complete, which follows from the queue
(`QueueIsDownloading`); that the queue keeps no duplicate needs the same
equivalence when a piece is appended; that a new `PieceState` starts with a count
of zero needs `FlagsOnlyInQueue` and `BlockCountExact`. The proof has one lemma
per operation, on top of facts about `RemoveAt` and about the blocks of a piece.
The corollaries state the parts that
`dm_network` checks (`PieceTypesHold`, `CompleteCountStaysExact`, `QueueStaysExact`,
`BlockCountStaysExact`, `FlagsStayInQueue`); they hold of the download manager too,
because it implements `PMSpec`.

`DownloadManager_proofs` proves, from `ManagerAssumption` and `LayoutAssumption`:

- `ManagerTypeCorrect`: types, that the loop variable is in range exactly while
  the loop runs, and that there is one `ActivePeer` per connected address
  (`TickScoped`, needed for the types of `peers` and `cursor`);
- `ImplementsPieceManager`: `Spec => PMSpec`, by `PieceSteps`, which says which
  operation of the piece manager each step performs;
- `ManagerKeepsPieces`: hence `PMInv` in every state of the download manager;
- `CompleteStaysVerified` and `CompletionIsLasting`: `CompleteIsVerified` and
  `NeverUncompleted`, if no peer sends wrong or overlong data (`RightData`), under
  every other fault, short answers among them, and any number of them. The assumption is needed:
  `dm_late_bad_block` breaks the property without the first half of it, and overlong
  answers (`files.rs:74`) without the second.

- `NeverTellsTooMuch`: `NeverOveradvertised`. Inductive with `ToldInv`, which adds
  that the pieces a tick has completed and not yet announced are complete;
- `UploadSlotsHold`: `UploadSlots`. The counter bounds the number of peers
  that are unchoked, so it is enough that a step that unchokes one raises it and that
  none lowers it; `SlotsInv` adds that there are finitely many.

`Pipeline_proofs` goes on with the requests, for any peers, pieces, blocks and
limits. `RequestSteps` sorts the steps by what they do to requests: a block
arrives, one is asked for, a peer is dropped, forgets what it owes, or everything
starts again; each invariant is then proved once per kind. Most of it is true
only while some faults do not happen. Each theorem names them in one condition on
`Faults` and allows every other fault, any number of times (`MaxFaults` is any
number):

| Theorem | Property | Condition | Without it |
|---|---|---|---|
| `FullPiecesSettle` | `NoLimbo` | `WholeBlocks`: no short answer, no failed write | the last block of a piece is flagged although it was not stored whole, and a piece whose read then fails is settled by nobody (`manager.rs:372`) |
| `PipelineStaysBounded` | `PipelineBounded` | `NothingSpoilt`: no corrupt, overlong or short data, no failed write | a reset forgets requests that peers remember and asks them again (`manager.rs:141`) |
| `NormalModeAsksOnlyOnce` | `NormalModeAsksOnce` | `NothingSpoilt` | the same |
| `SlotsStayExact` | `SlotsExact` | `AnswersAsAsked`: no peer chokes us or sends what it was not asked | a choke drops what is owed and the counter stays (`manager.rs:294`) |
| `AdvertisesExactly` | `AdvertisedExactly` | `SocketsTake`: no full socket | the error of a Have is ignored (`manager.rs:536`) |
| `NeverPanics` | `NoPanic` | `ConnectionsLast`: no reset, no undecodable bytes | `dm_double_removal` |

`InflightStaysLimited`, that no counter passes the limit, and `LimboOnlyWhenCut`
(`LimboIsCut`) need no condition: the second is what remains of `NoLimbo` under every
fault, and the one a run checks. The inductive invariants:

- `NoLimbo` with `OnDisk`: what is downloaded is whole on disk, so that the read of a
  full piece succeeds and `verify_piece` has a verdict;
- `LimboIsCut` itself, with `PMInv`: a block of a limbo piece that is written again is
  looked at again by the handler, and no other write makes its last block right;
- `PipelineInv`: `GoodOnDisk` (hence no piece is ever reset), `AsksFlagged` (what a
  peer was asked is still flagged unless its piece is complete), `OwedOnce` and
  `CountedOnce`. `AsksFlagged` is what makes a request in normal mode one that nobody
  else was asked, and keeps a block from being asked of one peer twice;
- `SlotsExactInv`: the property and what a new connection starts with. The requests
  owed by a peer are a finite set of numbered requests (`OwedRequests`), so that the
  counter is a cardinality and a step adds or removes one element;
- `Announced`: at any moment, complete pieces were told or are on the list this tick
  will broadcast; together with `ToldInv` it is `AdvertisedExactly` between ticks;
- `ListInv`: the list of peers to remove is sorted and in bounds, and a peer that
  we unchoked and could not tell of our interest is on it already or comes on it now.
  The last part is why a refused Interested does not put a peer there twice.

`Storage_proofs` proves, from `StorageAssumption` (a positive size of blocks,
torrents with positive piece lengths), for any torrents and any calls:

- `StorageInvariant`: `StorageInv`, the inductive invariant. `FilesFit` bounds the
  files, `InPlace` says that a byte of a file is the torrent's at that place, a zero
  or junk, and `DataInPlace` that what is left of a call belongs at the offset it has
  come to. `InPlace` needs `DataInPlace` for the next write, and `DataInPlace` needs that
  files lie one after the other (`FileStartSum`, `LayoutFacts`);
- `StorageTypeCorrect`, and `StorageImplementsFlatStore`: `Spec => FlatSpec`, step by
  step: `write_block` begins a write of the array, a round over a file writes a part of
  it or nothing, and the ends are its ends;
- if the torrent has one hash for each piece (`HashesMatch`): `VerifySeesTheBytes`,
  `BlocksComeFromTheirPlace` and `EveryByteInOneBlock`, which are `VerifyFollowsBytes`,
  `ServesStoredBytes` and `BlocksTile`. The condition is one the code does not check:
  `to_torrent_info` takes the number of pieces from the hashes and never compares it with
  the files. What `read_piece` returns is proved by induction over the files; that the
  two rules for the length of a piece agree is `LengthsAgree`.

`MessageDecoder_proofs` proves, from the assumptions on message sizes, for any
messages and any size of reads:

- `DecoderInvariant`: `DecoderInv`. Its core is `BytesInv`: the bytes in hand and in the
  socket are a prefix of the encoding of the messages not yet returned, and all of it
  while the connection is open. A step that decodes needs that the prefix in hand is
  that of the message due, and one that starts needs that none is left over;
- `DecoderTypeCorrect`, `DecoderKeepsBytes` (`NoByteLost`), `DecoderFailsForCause`
  (`FailsForCause`), and `DecoderImplementsChannel`: `Spec => ChannelSpec`, in which a
  message that is returned is the next one that was sent, since its bytes are the first
  of what is left.

`Client_proofs` proves, from `ClientAssumption` (constants have their types, and
the trackers' URLs are those of `Tracker`), `BufferAssumption` (the buffer holds a
header) and `ListsAssumption` (what the parsers
make of replies are sequences of addresses), for any trackers, peers and budgets:

- `AnswersAlwaysMatch`: what is returned are the peers of the part of the answer the
  buffer held. `UdpInv` adds that no datagram has a transaction id that
  was not used yet, and that those with the current one come from the tracker
  that is asked; without it a late answer could match;
- `OneConnectionAlways` and `OnlyThisTorrentAlways`, from `ConnectionInv`, which
  says the same of the channel as of the list;
- `CompletedOnceAlways`. `CompletionInv` adds which trackers were told while the
  loop over them is under way: the HTTP ones before `url` and no other;
- `NoEntryTriedAgain` (`EntryTriedOnce`) and `ClientTypeCorrect`, from `ThreadInv`: threads
  were started for exactly the first `peer_index` entries, and the list of peers does
  not grow once the first was started. Both use `UdpInv`, for the types of what an
  announce returns;
- `PeersComeFromTheirTracker` (`PeersFromTheirTracker`), if the trackers send what they
  list (`TrackersSendTheirLists`): in compact form with less than six bytes more, or as
  dictionaries of which those whose ip parses are the list (`NamedBy`). It needs
  `UdpInv`, `AskedInv` (while a UDP announce runs, main is at its tracker), and that the
  loops give a list back: `CutBySixes`, `CutKept` (what the buffer cut off is read as the
  front of the list, and a peer cut apart as none), `ParseCompact`, `ParseDictionaries`. With six
  bytes more a peer would be read that no tracker listed. TLC evaluates the condition
  to true for the trackers of `client`.

Induction. The library states induction for operators, which the provers here
cannot instantiate. `NatFacts` states it for sets (`SetInduction`), from the library's
theorem on well-founded relations, and derives that recursive functions exist and are
unique (`Recursion`, `RecursionUnique`); `SequenceFacts` has what `FlattenSeq` does. With
these the folds and recursive functions of `Storage`, `MetaInfo`, `MessageDecoder` and
`HttpTracker` are reasoned about for inputs of any length.

Every invariant, action property and refinement that a passing run checks is
stated by a theorem. Only model-checked are the liveness properties
(`ObtainableCompletes`, `EverythingArrives`, `AnnouncesFinish`, `AllTried`,
`CompletionReachesHttp`), which are out of the prover's reach. Under the faults a
condition excludes nothing is proved: there the runs show what goes wrong, or
nothing is claimed.

## Not modelled

- Logging and the command line: output only.
- Bencode, the info hash and the text of URLs, requests and TLS: parsing without
  state; what main does when they fail is in `Client` (`BadUrls`, `Err`).
- `announce_to_trackers`, `get_piece_info` and `contains_piece`, which nothing calls, and
  the ranges of pieces of the files, which nothing else reads. (A debug build panics
  when it computes the range of an empty file at the start of the torrent.)
- A write that the socket takes in part: sockets refuse a message whole here.
- The peer id of a handshake, which nothing looks at, the values of message
  fields, and collisions of hashes or transaction ids.
- IPv6 peers in compact form: `parse_peers` has a branch for them, but six bytes
  always make an IPv4 peer, so that the branch is never taken.
- The end of the process by a failing bind or an unreadable file at the start.

## Plan

Done: all the modules above, their runs and their proofs.

Next, in this order:

1. `Wire`: the outgoing stream under partial writes, composed with
   `MessageDecoder` on the other side.
2. Uploads: the contents a peer is served, related to `piece_status`, and peers
   that choke us and so lose what they were asked.
3. Proofs: what the two modules above promise; what survives of the pipeline when
   pieces are reset (a bound on how often a block is asked again).
