# igo in TLA+

igo is a MySQL proxy: clients speak the MySQL protocol to it, and it passes their
commands on to one MySQL server over a pool of connections. This directory holds TLA+
models of its parts, TLC runs that check them, and TLAPS proofs about them.

Run everything here: `tlc -config MCPool.cfg MCPool.tla`, `tlapm PoolProofs.tla`, and so
on. `PROJECT.json` lists components, runs, the source lines every definition models, the
hazards of the code, and the theorems.

## The system

| component (source under `src/`) | state | operations | what must hold |
|---|---|---|---|
| connection pool `server/mysql_db.go` | channel `freeConn`, channel `openCh`, counter `numOpen`, mutex `mu`, the retry ticker | `Open`, `opener`/`newConn`, `getConn`/`maybeOpenNew`, `putConn` | a connection has one owner; `numOpen` counts; calls return |
| client session `server/client.go`, `server/packets.go` | `c.sequence`, `c.buf`, `c.die`, `c.stmt`, `c.dbname` | `Handshake`, `Accept`/`dispatch`, the handlers, `writeResultPackets` | every command is answered or the session ends; packet numbers agree |
| server loop `server/server.go` | listening socket, the counter | `Run`, `handleClient`, `signal` | every slot comes back; nobody waits for a slot |
| counters `server/count.go` | `ChanCount.ch`, `IntCount.cur` | `Incr`, `Decr`, `Size` | at most the maximum is granted |
| read buffer `server/buffer.go` | `buf`, `idx`, `length` | `fill`, `readNext`, `takeBuffer` | the byte stream, in order |
| MySQL connection `server/mysql_conn.go`, `mysql_tx.go`, `packets.go` | `netConn`, `sequence`, buffer | `Exec`, `Query`, `Prepare`, `Close`, handshake | a reply belongs to its command |
| logger `log/log.go`, `init.go` | channel of messages, the map of adapters | `SetLogger`, `DelLogger`, `writerMsg`, `startLogger`, `Close` | every adapter gets its messages; logging returns |
| log file `log/file.go` | the file, its counters, two mutexes | `WriteMsg`, `docheck`, `DoRotate`, `deleteOldLog` | bounded files, archives kept, no message lost |
| other log writers `log/nsq.go`, `conn.go`, `console.go` | channel of nsq and its batch; a connection | `WriteMsg`, `publish`, `connect` | each message in one post, in order |
| codecs and tables `server/utils.go`, `mysql/*.go`, the framing in `server/packets.go` | none | length-encoded integers and strings, payloads in several packets, escaping, dates and times; scrambles, error and collation tables | decode inverts encode |
| configuration `config/*.go`, `cmd/igo/main.go`, `utils/utils.go` | none after start | `ParseConfig`, `main`, `PrintPanicStack` | |

How they interact. `Run` accepts connections and starts one `handleClient` goroutine for
each, if the counter has a slot. The goroutine runs a session: it reads a command, borrows a
MySQL connection from the pool, passes the command on, writes the reply to the client,
and gives the connection back; a prepared statement keeps its connection. The pool
shares `mu`, `numOpen` and two channels with the `opener` goroutine that dials new
connections. The log is called from everywhere.

What is hard here: `numOpen` is updated under two different regimes (`opener` without
the mutex, `putConn` with it); `getConn` holds the mutex while it sends on a bounded
channel whose reader sends on another bounded channel; the session depends on c.sequence
being 0 at the right moments and has several ways out, each of which must release its slot
once; packets are slices of a buffer that is reused. The hazards are listed, each at its
line, in `PROJECT.json`.

## The modules

| module | models | composed with |
|---|---|---|
| `ConnLedger` | abstract: who owns a MySQL connection, and which changes of owner are legal | implemented by `Pool` |
| `Pool` | `server/mysql_db.go`, and the handlers of `client.go` as its callers | |
| `Session` | `server/client.go`, `server/packets.go` (one client and its goroutine) | |
| `Counter` | abstract: the interface `Counter` of `server/count.go` | implemented by `Server` |
| `Server` | `server/server.go`, `ChanCount` | |
| `ByteStream` | abstract: a reader of a byte stream | implemented by `ReadBuffer` |
| `ReadBuffer` | `server/buffer.go`, used as `Query` uses it | |
| `MysqlConn` | `server/mysql_conn.go`, `server/mysql_tx.go`, their packets, and a MySQL server | |
| `FileLog` | `log/file.go` | |
| `Logger` | `log/log.go` | extends `FileLog` |
| `NsqLog` | `log/nsq.go` | |
| `LogFanout` | `log/log.go` with several adapters, `log/init.go`, `log/conn.go`, `log/console.go` | extends and implements `NsqLog` |
| `LenEnc`, `Framing`, `Escape`, `TimeText` | the pure functions of `mysql/utils.go`, and writePacket and readPacket of `server/packets.go` for payloads of any length | |
| `Codecs` | calls of these functions, one at a time, with the loops of readPacket and of the escaping as steps | extends the four |
| `PoolProofs`, `ServerProofs`, `SessionProofs`, `ReadBufferProofs`, `MysqlConnProofs`, `FileLogProofs`, `LogFanoutProofs`, `CodecsProofs` | proofs | |
| `MC*` | constants for TLC | |

Definitions whose comment begins with `fault:` are not part of any specification. They are
plausible mistakes (a forgotten guard, an early return) that show that a property can fail:
`PROJECT.json` pairs each of them, under `mutants`, with the definition it would replace.

### Pool

`freeConn` is the Go channel as a sequence, `openCh` the number of tokens in the other
channel, `mu` the holder of `m.mu`. The opener goroutine is `OpenerRecv`, `NewConnFails`,
`NewConnLoad`, `NewConnStore`, `OpenerSend`; a client goroutine is `Begin`, `GetLock` (Lock,
and the computation of maybeOpenNew), `MaybeOpenNew` (one send to `openCh`), `GetConn`,
`GetTick`, `GetNil` (the cases of the select), `QueryDone`, `PrepareDone`, `StmtClose`, and
`PutConn`, `PutLoad`, `PutStore`. `m.numOpen++` in the opener and `m.numOpen--` in putConn
are a load and a store each, since no lock covers both. The history variable `overlaps` counts
the loads that happen inside the other side's window; with `MaxOverlap = 0` the updates are
atomic. `expired` is a choice, `newConn` one outcome.

### Session

One goroutine of handleClient, from `Greet` to `Close`, with one action per handler and one
step per written packet; and a legal client, which waits for replies, pipelines only behind a
command that has no reply, and may leave at any time. What the pool and MySQL do for a command
is its outcome: a number of packets or an error, or none (the actions of `Outcome` have no fairness).

A write that fails (`NotDelivered`) may have sent nothing, or a part of its packet, and the loop of
writeResultPackets writes the next packet behind it. A client that has got a part of a packet reads
payload as headers: it has lost track (`torn`), may take anything for the end of a reply and for a
statement's id (`Misread`, `Guessed`), and nothing is claimed of the numbers it sees from there on. A
client that lacks a whole packet does not see it by the numbers, as the next packet has the number of the
lost one: it may miss it, or take the reply for complete. What the session itself keeps, `c.sequence` at 0 before a
command and one close of `c.die`, holds in either case.

### Server

`stage[c]` is the place of a TCP connection on its way through `Run` and `handleClient`; `slots`
is the length of ChanCount's channel. `Signal` is os.Exit. The session is a step that may never
come, whether its client has hung up or not. `SlotsComeBack` takes for its premise that it comes
(`SessionOver`); `SessionEnds` of module Session shows when it does: when the command that the session
is at has an outcome.

### ReadBuffer

`mem` holds the arrays, as Go's slices go on pointing into the old one after `fill` has moved
its bytes and made a longer one. Bytes of the input are numbered, so that order, loss and repetition can be seen.

### MysqlConn

The handshake of newConn first: MySQL's greeting, the authentication packet, its answer. After
it the connection is in the pool, and in Pool's terms newConn has succeeded. A packet is two
units, header and body, because readPacket may return between the two. Handlers
use the connection one after the other; MySQL answers in order, and may close the connection
at any moment. `dirty` records that a handler left a part of a reply behind. A body that is read
as a header never has the number that is expected, and is longer than four bytes.

### FileLog and Logger

A file is its number of lines and the day of the last one. WriteMsg is the check under
`startLock`, the steps of DoRotate (close, rename, open again, each of which may fail), and
Println under the mutex `mw`. A Println on the open file may fail (`WriteFails`: a full disk, an I/O
error), and nobody hears of it, as log.Logger drops the error; the message is lost. A message is one
line: one with line breaks, which docheck counts as one and `lines()` of a restart as several, is not
modelled. `Logger` adds `writerMsg` with and without `Async`, the goroutine
of `startLogger`, and `Close`, which takes messages from the same channel as startLogger.
The shipped program uses neither the file nor Async: this is the library as it is offered.

### NsqLog and LogFanout

`NsqLog` is the channel of the nsq writer and its goroutine: `OnTick` fixes the number of messages
of a batch, `Collect` receives them one by one, `PostOK`, `PostFails` and `ReadBody` are the outcomes
of http.Post. `LogFanout` puts it beside a console and a connection. A goroutine that logs (or
the one of startLogger, with Async) has in `todo` the adapters it has still to call, in any order:
the code loops over a map. `link` is the writer's connection, which another goroutine may make
nil, or close, at any moment; `lg` says whether `c.lg` has been set, which connect does in a step of its
own, and a goroutine that finds either nil panics. A print to the connection may never end. `owed` are
the pairs of message and adapter not yet written.
`log/init.go` sets the console only. nsq is registered, and set where a program calls SetLogger; the
registration of the connection writer is commented out (log/init.go:9), so that a program that wants
it registers `NewConn` itself.

### The codecs

A byte is a number below `Base`; a file of text is a sequence of named characters; a formatted time
is a record of the numbers that stand in it. The reader of an escaped literal is MySQL's and is
written from its documentation; the other readers are the repository's own. `Codecs` has one action
for the call of each function, with its arguments as the state, so that a run goes through all arguments
of all functions. writePacket's refusal of payloads longer than `maxPacketAllowed` is left out: both
sides set that to `MaxPacketSize`, so the lengths above it, which show what the loop does with them,
are those of MySQL's replies. The functions that loop over an input of any length take a step for each turn:
`ReadPacket` one for each packet, `Escape` one for each character. An integer has eight bytes at most,
and a time three pairs of digits: these are written out, as the code writes them out.

## The runs

| run | question | bounds |
|---|---|---|
| `pool` | one owner per connection; `numOpen` against what is open and on order; refinement of `ConnLedger`; getConn and putConn return | 2 clients, maxOpen 1, maxIdle 3 (Open sends more tokens than fit), 1 retry, at most one overlapping update |
| `pool_lost_update_hangs` | the same with one lost update: violated | maxOpen 1, one overlap |
| `session` | packet numbers, one close of `die`, the statement kept, clients answered and sessions ended as long as commands have outcomes | numbers modulo 3, replies of up to 4 packets, 2 commands on their way, 2 statements, one at a time |
| `session_wrong_statement` | what a test expects of prepared statements: violated | 2 statements |
| `server` | slots conserved, refinement of `Counter`, everyone dealt with, slots come back from sessions that are over | 3 connections, 2 slots |
| `read_buffer` | unread bytes in order; refinement of `ByteStream` | arrays of 3 bytes, reads of up to 5, 9 bytes |
| `read_buffer_reply` | the comment at buffer.go:95: violated by Query | reads of up to 3, 6 bytes |
| `mysql_conn` | the handshake; replies forwarded whole, readers and replies end together, leftovers only make errors | numbers modulo 4, 2 columns and 2 rows, 4 uses |
| `mysql_conn_rows_error` | the comment at mysql_conn.go:150: violated | 1 column, 1 row, 1 use |
| `logger` | limits, archives, messages; Close | 1 line, 1 archive a day, 2 days, 3 messages, channel of 2, 2 goroutines |
| `log_writers` | every adapter gets its messages; batches; logging returns; everything is posted | 2 goroutines and startLogger, 3 messages of 2 levels, 2 of 3 adapters, channels of 1 and 2 |
| `codecs` | what is written is read back | bytes below 8, packets of 3 bytes, 4 packet numbers, payloads of up to 15 bytes, texts of up to 3 of 10 characters, about 4,000 dates and times |

Why these bounds are enough to be of interest. Two clients are enough for each pair of steps of
getConn and putConn to interleave, and the opener makes a third party; with one connection and
three tokens both channels fill up while somebody waits. The identities of connections are reused
when nothing refers to them, so they are never used up. Replies are longer than the cycle of packet
numbers, so that the wrap-around happens. The buffer is shorter than the longest read, so that it
grows, and longer than the shortest, so that it moves. With one line per file every message but the
first rotates, and one rotation uses up the numbers of a day. Three connections and two slots make
somebody be refused while others hold on. Both log channels are full with the messages there are, and
a batch is announced while others log. The numbers of `codecs` lie on both sides of each change of
width, NULL and the markers; the payloads are all lengths around five packets, under numbers that
have wrapped around.

`CHECK_DEADLOCK FALSE` stands where behaviours end: a session is over, a process has exited, the
bounded input is used up, or a getConn waits for a connection that no client gives back.

### Fairness

* Goroutines are scheduled: weak fairness of the steps in which they wait for nobody. A write to a client
  is one of them: it has a deadline.
* `sync.Mutex` hands itself to the longest waiter after a millisecond (starvation mode), and
  channel waiters are served in order: strong fairness of `GetLock`, of putConn, of `Writing`, of
  `CloseReceive`, and of `Send` and `WriteNsq`.
* The accept queue of the kernel is first come, first served: strong fairness of `AcceptTCP`.
* MySQL answers the commands it gets (module `MysqlConn`), or closes the connection.
* A dial of the connection writer ends: net.Dial has the system's timeout. The console takes what is
  printed.
* The nsq writer's ticks come: time.Tick.

The other assumptions are not fairness but stand before the property they are needed for, because the
code does nothing to make them true:

| premise | of | what the code lacks |
|---|---|---|
| `DialsEnd` | `CallsReturn` | net.Dial times out, but the handshake with MySQL is read without a deadline (`newConn` leaves `ReadTimeout` 0), and the opener's hanging stops the getConn that holds the mutex |
| `CommandsEnd` | `Answered`, `SessionEnds` | a handler waits in getConn, which may never return (`CallsAlwaysReturn`), and reads from MySQL without a deadline (`StopsAtError`); it does not look at its client meanwhile |
| `SessionOver` | `SlotsComeBack` | the same, seen from the server: the session of a client that has hung up returns |
| `Answers` | `LoggingReturns`, `AllPublished` | http.Post has no timeout, and one unanswered post stops all goroutines that log |
| `Accepts` | `LoggingReturns` | Println writes to the connection without a deadline (conn.go:51): a log server that stops reading stops who logs |
| `LoggingStops` | `CloseReturns` | Close does not stop the goroutines that log, and its loop (log.go:301-313) ends when it once finds the channel empty |

In `MCLogger` the bound on the messages makes `LoggingStops` true of every behaviour; the premise is
there to say that the bound does it. The others are false of some behaviours of their runs.

A client that leaves (`GoAway`, `HangUp`) is one whose leaving the server hears of. The read deadline and
SetKeepAlive are commented out (server.go:92-93), so that of a client that is cut off without a word
the server hears by the keepalive of the Go runtime, if its version sets one, and otherwise never.

Nothing is assumed of the retry ticker, of how long a handler keeps a connection, of clients, nor of
failures happening or not.

### What the violated runs show

Four statements of the repository's tests and comments are not true of the code: see `findings`
in `PROJECT.json`. In short: a lost update of `numOpen` stops the pool for good; a
client's older statement runs the newer one; packets of a collected reply are overwritten in the
read buffer; and an ERR packet among rows is taken for a row.

The first and the last of these are what `CommandsEnd` and `SessionOver` exclude: a session whose handler
meets one of them never ends, and keeps its slot, whatever its client does.

Some properties stop where the code does. `Answered` excepts a packet that could not be written, and a
failed execute, whose error handlestmtExec overwrites (client.go:330): the client waits for ever.
`RepliesNumbered`, `ReplyFindsBufferFree` and `StatementKept` end where the client has got a part of a
packet, or has taken a reply with a packet missing for another: the session goes on writing behind it
(packets.go:148-151). `LostOnlyAfterFailure` excepts a message whose own write fails.
`HandlerReturns` excepts rows that end with an error; `CloseReturns` excepts a Close that waits for a
message which startLogger has taken; `ReachesAll` excepts what the connection writer itself loses;
`PayloadReadsBack` excepts payloads of a multiple of `MaxPacketSize`. The following divergences
were met while modelling, and no run is spent on them:

* More than `maxConnNum` connections can be open: maybeOpenNew (mysql_db.go:137) does not
  subtract what is on order. `Overshoot` gives the bound that does hold. Nor is `maxIdleConn` a
  limit: a connection that has not expired is put back whatever `maxIdle` says.
* getConn returns nil at once when the channel is empty (mysql_db.go:160), so the ten tries
  are only used up by ticks.
* `Incr` "will block" (count.go:13, count.go:19) does not block; it returns false. IntCount lets in
  one more than its maximum, but is not used.
* A field list always fails, as its first packet is no column count, and leaves its definitions
  on the connection. `useDB` sends "use db", whose first byte is taken for the command, so that
  MySQL answers with an error.
* When DoRotate has renamed the file and cannot open a new one, later rotations return nil for the
  missing file: nothing is written until a restart. A file opened on the same day of an earlier
  month is not rotated, as only `Day()` is compared (file.go:120).
* A write that fails on the open log file loses its message without a trace: WriteMsg returns nil
  (file.go:137).
* `Close` can wait forever when startLogger takes the last message, and may destroy the file
  before startLogger has written what it took (log.go:299-313).
* The connection writer reconnects when there is no connection (conn.go:36), but a connection that has
  broken is still there: Println's error is not looked at, and nothing more arrives. With two goroutines,
  one can find `innerWriter` set and `lg` still nil (conn.go:82-83) and panic. Nothing registers the
  adapter, so that the SetLogger("conn") of log/conn_test.go returns an error nobody looks at. The
  nsq writer takes any HTTP status for success.
* A payload of a multiple of 16 MB - 1 bytes is written with the empty packet that the protocol
  asks for, and refused by both readPackets; the one of Client then returns no data and no error.
* A length-encoded string whose length is near 2^63 makes the end of the slice negative, which panics.
* A negative TIME of more than a day with one decimal is cut before its fraction.
* `writeError` (client.go:209) sends its own error number for an error that is not its own kind, whatever
  number MySQL gave.

## The proofs

TLAPS proves for every value of the constants that meets the module's `ASSUME`. The assumptions
say that sets of goroutines and connections are finite, limits positive, and the "nothing" values
not among the real ones.

| theorem | says |
|---|---|
| `PoolProofs`: `TypeCorrect`, `ConnectionsExclusive`, `PoolKeepsLedger` | types; one owner per connection; `Pool` implements `ConnLedger` |
| `PoolProofs`: `NumOpenSound`, `OvershootBounded`, `NoMutualBlocking` | numOpen, the bound on connections, no circular wait without a lost update |
| `PoolProofs`: `PoolNeverStuck`, `LocksGoOn` | without a lost update somebody can always go on; the mutex is not held for ever |
| `ServerProofs`: `SlotsConserved`, `ClientsLimited`, `CounterKept` | slots, the limit of clients, `Server` implements `Counter` |
| `ServerProofs`: `DecrGoesOn`, `RefusalsJustified` | Decr never waits; a connection is refused only when all slots are held |
| `SessionProofs`: `DieOnce`, `CommandsAccepted`, `NumbersFit`, `BufferFree`, `StatementHeld` | `c.die`; packet numbers of commands and replies; the shared buffer; the statement |
| `SessionProofs`: `NobodyStuck`, `SessionsGoOn` | client and session wait for each other only in the named gaps; no session goes on without its client |
| `ReadBufferProofs`: `BufferTyped`, `UnreadKept`, `BufferIsStream` | types; unread bytes stay in order; `ReadBuffer` implements `ByteStream` |
| `MysqlConnProofs`: `ConnTypes`, `WholeReplies`, `PooledQuiet`, `NumbersInStep` | types; a reply belongs to its command, is forwarded whole, and nothing of it is left; packet numbers |
| `MysqlConnProofs`: `LeftoverStays`, `LeftByFieldLists` | a leftover is never repaired, and only field lists leave one |
| `MysqlConnProofs`: `NoHandlerStuck`, `HandlersGoOn` | the readers and MySQL never wait for each other; no reading loop goes round for ever |
| `FileLogProofs`: `FileTyped`, `FileBounded`, `ArchivesSafe`, `MessagesKept`, `LoggerUsesFile`, `LoggerTyped`, `CloseDrains` | types; lines, archives, messages but for failing writes; `Logger` implements `FileLog`; Close waits for the channel |
| `FileLogProofs`: `NoWriteStuck`, `WritesAreShort` | the two mutexes never wait for each other; a WriteMsg has five steps at most |
| `LogFanoutProofs`: `NsqInvariance`, `FanoutUsesNsq`, `FanoutConserves`, `FanoutAnnounces`, `FanoutReachesAll` | the nsq writer alone; `LogFanout` implements it; its messages and batches; the other adapters |
| `LogFanoutProofs`: `NoLogStuck`, `LogsAreShort` | only a post that is not answered, or a print that is not taken, stops who logs; a logging call has six steps at most |
| `CodecsProofs`: `CallsInvariant`, `LenEncAlwaysReadsBack`, `PayloadsAlwaysReadBack`, `LiteralsAlwaysReadBack`, `TimesAlwaysDenoted` | where the loops are; what is written is read back, for every byte size, packet size, number, payload, text, time and date |

**Owners.** `Exclusive` is not inductive: that a handler's connection is in no other place depends
on who is where. `OwnInv` adds `LockInv` (the mutex has a holder exactly while a goroutine is in
getConn or between putConn's load and store) and `PlaceInv` (a goroutine has a connection exactly at
the points of the code where it should). A new connection is one that nothing refers to, which is
what allocation means.

**Counting.** `CountInv` ties numbers to places. `Live`, the number of open connections, is a sum of
a length and cardinalities, so each step has a lemma saying by how much it changes. Then: before
`Open` has sent its tokens nobody is served; `numOpen` is at least `Live` minus the lost updates
(balance); a loaded value is at most the lost updates away from the variable (drift); and what is
on order fits into twice `MaxOpen` plus one (order). `NoCircularWait` follows from the numbers: were
both channels full, with the opener waiting, `numOpen` would be more than `MaxOpen`, and nobody
would have anything to send.

**Slots.** `SlotsHeld` is inductive with the types: the accept loop takes a slot for the connection
it works on, and only a goroutine past its session gives one back.

**Sessions.** The five properties need one another. `SessionInv` says what is on its way at each stage: before
the OK only the login, under number 1 (`LoginInv`); after it commands under number 0 (`NumberInv`), of which
only the last can be one with a reply, and while that one is handled or answered nothing is on its way and
both sides agree on the next number (`LastInv`). From there no read finds the wrong number, and no reply a
busy buffer. `StmtInv` says that while a client knows a statement nothing that changes `c.stmt` is on its way.
The part about the last command ends where the client has lost track (`torn`): it may then send while
it should wait. That every command carries number 0, and finds `c.sequence` at 0, does not.

**The buffer.** `UnreadInOrder` is inductive with `Window`, which says that the unread bytes and the
last slice lie inside their arrays. Lemmas say what `fill` makes of the array: the same unread bytes
at the beginning after moving and growing (`GrownIs`), followed by new ones (`FilledIs`), in the last
array (`NewMem`). A slice that starts at the first unread byte is then what the stream has next
(`Returned`); the steps of the refinement come out of the same case distinction (`BufStep`).

**The file.** `FileInv` has the types, one holder per mutex (`LockInv`), where the file is during a
rotation (`RotateInv`: while a goroutine rotates, the archive it will rename to does not exist), and
`Counted`. `Counted` is the interesting one: the lines of the file plus the goroutines that are about
to print are bounded both by `cur` plus the number of writers minus one, and by `Maxlines` plus that
number. A write that fails adds no line, so it only makes the sum smaller. Two bounds are needed because
a restart sets `cur` to the lines there are, and a message that was counted before a rotation may be
printed after it. `LoggerUsesFile` carries the three results over
to synchronous and asynchronous logging and to Close. `CloseDrains` needs `DrainInv`: a Close that is
past its loop has seen an empty channel after the last send it waits for.

**The log writers.** The invariant of `NsqLog` is `Conserved` and `BatchAsAnnounced` with the types:
only publish receives, so what was announced is still there. It is proved of `NsqLog` alone, and carried
over to `LogFanout` by the refinement. `ReachesAll` needs to know who has which message: a pair in
`owed` belongs to a message that is in the queue, or in the hands of one goroutine with the adapter
in its `todo`, or that failed.

**MySQL connections.** `ConnInv` says what the bytes between MySQL and the proxy are: the units not yet
read are exactly the rest of the reply to the command in hand, cut off where MySQL has closed (`Ahead`).
A reader's place in the code is tied to the place in that reply (`Reader`): the columns, the first EOF,
the rows, the second EOF. So the reader that sees the last packet stops there, the number it expects is the number of
the next unit, and what it has collected is the beginning of the reply. The numbers are taken modulo any
`SeqWrap`, for which lemmas say how the remainder of a successor follows from the remainder. A leftover is the other case of the
same invariant: its first unit is one that no reader accepts, because its number is not the one a new
command begins with or because it is a body; no handler takes it away, so each one fails on it.

**The codecs.** Two of the four, `LenEncReadsBack` and `TimesDenoted`, are proved by going through the cases of the code. A byte is the
remainder of a division by `Base`, and eight divisions give the number back (`BytesAreTheNumber`), so that the
width decides, and no first byte of a wider number is a value, NULL or another marker (`Markers`). The end
of a string is computed as an int, and `Int64Is` says what becomes of a sum that does not fit: it is
negative, below the start, and panics. The digits of the microseconds are six variables with a sum, and
the cut at each length is arithmetic (`FractionDenotes`). The two loops have an invariant instead of an
induction: after i full packets the reader has the first i * `MaxPacketSize` bytes and expects the
number of the next one (`FullPacket`), and the last packet is the remainder (`LastPacket`); after i
characters MySQL's lexer has the first i of the text and is inside the literal
(`CharacterReadsBack`), and at most 2 * i characters are in the buffer. In `CallsInv` TLC found
no error on the bounds of `codecs`. The assumptions are the ranges of the types: numbers below
2^64 (`Uint64`), slices whose length is an int, MySQL's ranges of dates and times, and an even `Base`
above 6, so that there are first bytes left for values and a highest bit to be the sign.

**Going on.** Liveness itself is out of the prover's reach, since fairness is about ENABLED. What a
liveness property needs besides fairness is proved in two halves. First, nobody waits in a circle: an
invariant says that whoever is under way can take a step or waits for somebody who can. It writes the
guards out (`CallReady`, `Ready`, `WriteReady`, `LogReady`), one disjunct for each action; TLC, on the
bounds of the runs, found each to hold exactly in the states where its action is enabled. Second, every step lowers a measure: a
number, or a tuple of numbers in the lexicographic order, in which there is no endless descent, and
nobody else raises it. So a call that does not end is one whose goroutine is not scheduled, or that waits for
what the theorem names: a dial without an answer, a command without an outcome, a post without an
answer, a print that the log server does not take, or a gap that a failed execute or a failed write has
left. The pairs belong to the properties of the runs as follows:
`PoolNeverStuck` and `LocksGoOn` to `CallsReturn`, `NobodyStuck` to `Answered`, `SessionsGoOn` to
`SessionEnds`, `NoHandlerStuck` and `HandlersGoOn` to `HandlerReturns`, `NoWriteStuck` and `WritesAreShort` to
`WriteReturns`, `NoLogStuck` and `LogsAreShort` to `LoggingReturns`. What remains between a pair and its
property is fairness, and for `CallsReturn` also that somebody else does not take the mutex every
time, which is the strong fairness of `GetLock`.

Only checked by TLC: every liveness property, for the reason above. Every invariant, and every action
property that a passing run checks, is a theorem.

## Not modelled

* Scrambling of passwords (a hash), the formatting of numbers, and `skipLengthEncodedString`, which
  nothing in the program depends on; the tables of errors, names, states and collations, which are data.
* The bytes of packets, other than their framing: Session and MysqlConn know packets by kind and number.
* `mysqlTx` and `IntCount`, which nothing uses; LOCAL INFILE.
* `Flush`, `SetLevel` and the call depth of the log, and adapters that change while somebody logs:
  `bl.lock` does not cover writing, and that is a data race without a defined outcome.
* Configuration, flags, ZooKeeper: read once at the start. `PrintPanicStack` only recovers, which
  is what `Server` and `LogFanout` assume of it.

## Plan

Done, in this order: Pool with its ledger and proofs; Session; Server with its counter and proofs;
ReadBuffer with its stream and proofs; MysqlConn; FileLog and Logger with proofs; NsqLog and LogFanout
with proofs; the codecs; the proofs of Session; those of MysqlConn; the proofs that nobody is stuck; those of
the codecs. Next:

1. A composition of Session with MysqlConn, in place of the free outcome of a command.
