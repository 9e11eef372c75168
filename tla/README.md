# A TLA+ model of the SOCKSv5 proxy

`socks5d` is a SOCKSv5 proxy in C: one thread with a `pselect()` loop, a state
machine per connection, and a detached thread for each name it resolves. This
directory models the parts where order matters: the byte copy between two
sockets, the life of a connection with everything it shares with the others,
the loop itself, the bytes of the handshake and of the POP3 dissector, and the
monitor with its client program. TLC checks the models on small instances; TLAPS proves the
main invariants for every value of the constants.

Source paths below are relative to the repository, e.g. `src/server/socks5nio.c`.
`PROJECT.json` has the line-by-line correspondence ("map").

## 1. Inventory

| Part | State | Operations | Interacts with |
|---|---|---|---|
| Buffer (`server/buffer.c`) | `read` and `write` pointers into a fixed block | `*_ptr`, `*_adv`, `can_*`, compaction when it empties | every reader and writer of bytes |
| Selector (`server/selector.c`) | items by descriptor, `master_*`/`slave_*` sets, `max_fd`, job queue with its mutex | register, unregister, set interest, `selector_select`, `selector_notify_block` | calls the handlers; is called back by them and by the resolver threads |
| State machine engine (`server/stm.c`) | the current state of a connection | first arrival, jump with departure/arrival hooks, `abort()` on an event without a handler | between the selector and socks5nio |
| Proxy connections (`server/socks5nio.c`) | `struct socks5`: two descriptors, two buffers, a union of per-state data, reference count; the pool; statistics; users; `is_auth_on` | a handler per state, accept, connect and retry, resolve, copy, `socksv5_done` | everything |
| COPY (same file) | two `struct copy` with the directions each end has open | `copy_r`, `copy_w`, interests | both peers |
| Parsers (`hello.c`, `auth.c`, `request.c`) | an automaton per message | consume a byte, marshal a reply | read by the handlers of the READ states |
| Users (`socks5nio.c`) | `users[]`, `registered_users`, `is_auth_on` | register, unregister, list, look up | changed by the monitor, read by every handshake |
| Dissector (`disector.c`) | an automaton over POP3 traffic, `is_disector_on` | consume what is copied | COPY, log |
| Monitor (`monitor.c`, `monitornio.c`) | admins, connections with their own pool, static variables of the parser | users, admins, statistics, dissector switch | changes users and switches of the proxy |
| Monitor client (`client.c`, `client/`) | one buffer for all replies | options to requests, send, receive until closed, print | the monitor, a connection per request |
| Main (`src/server.c`) | `done` | set-up, loop, SIGTERM, teardown | owns selector and pools |
| Args, netutils, logger | none | option parsing, formatting | - |

What is hard here:

* **Ordering inside one round.** `pselect()` reports descriptors by number;
  handlers called earlier in the round close descriptors and reuse the numbers.
* **Two items, one struct.** Client and origin share a reference-counted struct
  on all paths: failed connects, retries, errors, teardown.
* **Threads without locks.** A resolver writes into the struct, and names its
  connection by descriptor number when it is done.
* **Lost wake-ups.** The only way from a thread to the loop is a queue and a signal.
* **Half-closed streams and full buffers** in COPY.
* **Shared switches** (`is_auth_on`, `is_disector_on`, the users) that change
  during a handshake or a copy.
* **Messages in pieces.** Every parser is resumed by the next `recv()`; what it
  keeps meanwhile must be its own, and the monitor's is not.

The hazards are listed one by one, with their lines and the properties for them,
in `PROJECT.json`.

What makes each part correct: for COPY, that bytes are conserved, that it never
disarms itself and that streams end for a reason; for connections, that
references, descriptors, lists and counters are exact on every path, that no
event arrives without a handler, that connections leave each other alone and
every request is answered; for the selector, that what it hands to `pselect()`
is exact, that a round serves all it reports, and that no answer or wake-up is
lost; for the teardown, that everything is freed; for the handshake, that
messages are parsed as sent and that nobody passes without a user while
authentication is on; for the dissector, that it logs what was accepted; for
the monitor, that each request takes effect once, as sent and by an
administrator, and that the client reports what happened.

## 2. Modules

| Module | What it is |
|---|---|
| `Buffer` | `buffer.c` as operators on offsets |
| `Copy` | the pair of `struct copy`: `copy_init`, `copy_compute_interests`, `copy_r`, `copy_w` as operators |
| `Tunnel` | abstract: two bounded one-way channels |
| `Relay` | one connection in COPY with both peers; refines `Tunnel` |
| `Socks5` | all connections, the heap and pool, resolver threads, users, statistics, teardown; uses `Copy` |
| `MCSocks5` | symmetry for TLC |
| `Selector` | the loop, the items and sets, jobs, mutex, signals |
| `Users` | the table of users as operators |
| `Parsers` | the three automata of the handshake as operators |
| `Handshake`, `MCHandshake` | one connection up to the reply to its request, byte by byte; uses `Parsers`, `Users`, `Buffer` |
| `Dissector`, `MCDissector` | `disector.c` between a POP3 client and server |
| `Registry` | abstract: what the monitor promises its clients |
| `Monitor`, `MCMonitor` | the monitor and its client program; uses `Users`; refines `Registry` |
| `CopyProofs`, `RelayProofs` | theorems about the copy |
| `Socks5Proofs` | theorems about connections: memory and descriptors; states, interests, resolvers |
| `SelectorProofs`, `HandshakeProofs`, `DissectorProofs` | theorems about the loop, the handshake and the dissector |
| `RegistryProofs`, `MonitorProofs` | theorems about the promise of the monitor, and that the monitor keeps it |

### Buffer, Copy, Relay

A buffer is a pair of offsets; its contents are not modelled, because every
property of the copy is about how many bytes went where (the stream is in order
as the pointers only advance). `Copy` has the state as one record, `buf[e]`
being what was read from end `e` and `duplex[e]` the directions `e` has open.
`Relay` adds the kernel's side: bytes available, FIN and RST, and what `recv()`
and `send()` may then return, 0 for a read without room included.

| Relay | code |
|---|---|
| `Init` | `request_write` on entering COPY: both interests set to OP_READ, buffers as the handshake left them: `read_buffer` may hold bytes sent behind the request, up to its limit (`EarlyBuffers`) |
| `CopyR`, `CopyW` | `copy_r`, `copy_w` with the final interests and the DONE test (`Finish`) |
| `PeerSend`, `PeerClose`, `PeerReset` | the environment |

`stuffed` is history: that the early bytes had filled `read_buffer` when COPY
started, which `CloseHasCause` has as its one exception.

### Socks5

A connection is a record `conn[s]` per struct; `heap` holds what is allocated,
pooled and referenced; `data` and `interest` are the selector's items; `threads`
and `jobs` the resolvers. Every handler that changes any of this is an action,
from the event to the last call it makes, with `socksv5_done` when it ends in
ERROR or DONE. A handler that read or sent part of a message changes none of it
and is no action, except for the first event of a connection (`HelloPartial`),
which runs `hello_read_init`. Parsers are reduced to their verdict, the peer's
choice. `open` is separate from `data`, so that a descriptor could leak or be
watched after its close. Descriptors are given out as the kernel does, the
lowest free one, so numbers are reused at once.

`Faults` selects the failures that break a documented behaviour (a further
connect that fails at once, `pthread_create()`, no memory for a job); other
failures (accept, register, first connect, resolution, send and recv) always
may happen.

Teardown: `sigterm_handler` leaves the loop, `selector_destroy` unregisters item
by item in order, `socksv5_pool_destroy` frees the pool. Threads go on meanwhile.

### Selector

`sel` is the struct; register, unregister and set_interest are functions on it,
with the recomputation of the sets and of `max_fd` they end with. The main
thread is a program counter: loop test, `pselect()` (ready, timeout, EINTR),
`handle_iteration` (one step for each handler called, in order of descriptor,
read before write, up to the maximum taken at its start), then the jobs with the
mutex held. A handler is reduced to the calls it makes (`Accept`, `Converse`,
`Resolve`, `Connect`, `Connected`, `ConnectAgain`, `Copy`, `Done`), restricted to
what a connection in that situation does. `owed` and `fresh` are history
variables: events reported and not yet served, and origins registered since
`pselect()` returned.

SIGALRM is blocked outside `pselect()` (`selector_init`), so `Signal` only makes
it pending. SIGTERM is not blocked; before `pselect()` it sets `done` and
interrupts nothing.

### Parsers, Users, Handshake

Parsers are records fed a byte at a time, with the letters as numbers; `Consume`
is the loop that stops at the last byte of the message. `Handshake` has one
client, which waits for each reply or sends everything at once (`eager`), the
real `read_buffer` (where bytes of the next message stay), and the changes
others make meanwhile: the monitor adds and deletes users, the first event of
another connection turns authentication off. `client_uname` is the index of the
entry it points into, so that an unregister moves another name under it.

| Handshake | code |
|---|---|
| `hello_read`, `auth_read`, `request_read` | the handlers with `*_process`; `ReadFails` is `recv()` returning 0 or -1, a full buffer included |
| `hello_write`, `auth_write`, `request_write` | the handlers, with partial sends; `WriteFails` |
| `OtherHello`, `AddUser`, `DeleteUser` | `hello_read_init` elsewhere, and the monitor |
| `ClientSends`, `ClientSendsAll`, `ClientCloses` | the environment |

Between `request_process` and `request_write` lies what `Socks5` models; here it
is a choice of status. `served`, `authenticated`, `removed` and `logged` are
history variables.

### Dissector

`copy_w_origin` and `copy_w_client` are `copy_w` on the two descriptors, which
feed what they sent to the automaton if `Watches` says so. The environment is a
POP3 client and a server that may refuse any line, or a server of another
protocol with the same commands. `gap` remembers whether bytes went unseen
while the switch was off, and whether credentials were half collected then.
`Followed` says how far the parser can be relied on: as long as the switch was
never off in the middle of credentials, and, if it was off between them or a
letter of the greeting was counted, nothing but the command spells USER.

### Monitor, Registry

A client program makes its requests one after the other, a connection for each
(`ClientAsks`, `ClientRecv`, `ClientReports`, as in `client.c`); requests are
what `parse_args` makes of options, or wrong ones of other programs. The server
has `monitor_read` with the parser and, at the last byte, `monitor_process` or
the error reply; `monitor_write`; accept and its failures; the teardown. The
statics of `monitor.c` are two variables beside the parsers. Bytes of the reply
are in `wb`, then in `line`, then in `buf`, where each `recv()` writes from the
start. `truth` is what the server did, `report` what the client printed.

`Registry` says what a client may count on: its request is carried out at most
once, in one step, as it was sent, by the right of its token at that moment.
The data of a request under which another connection changed a static are
exempt (`mixed`); that such a thing happens is the run `monitor_static`.

## 3. Runs

| Run | Bounds | Shows |
|---|---|---|
| `relay` | buffer 3, 4 bytes each way, early bytes up to the limit of the buffer, counter mod 4 | conservation, statistics, no stall, agreement of the ends, closes with a cause (the exception below named), refinement of `Tunnel`; queued bytes go out and the end of a stream propagates |
| `socks5` | buffer 3, 3 descriptors, 2 structs, 2 addresses, no users, no faults | documented interests, but for a copy that starts with early bytes; one reply per message; every request is answered |
| `socks5_faults` | 4 descriptors, 2 structs, pool of 1, 2 addresses, 1 user, all faults | references, descriptors, handlers, resolver targets, address lists, counter, logged user, teardown, isolation |
| `selector` | 3 descriptors (1 listening), 2 threads | exact sets and maximum, a round serves all it reported, wake-ups, one answer per waiting client; answers arrive, SIGTERM ends the loop |
| `handshake` | 2 accounts, 4 hellos, 4 auths, 5 requests, buffer of 9, 2 changes | messages parsed as sent, no request without a user, a polite client is not dropped, the log names the right user, messages are answered |
| `dissector` | 4 lines, 3 greetings, 2 toggles | what is logged was accepted, and what was accepted is logged |
| `monitor` | 2 clients with one request each out of 14 and 11, cuts after bytes 5, 8 and 9, replies in pieces of 3 | refinement of `Registry`, true reports, structs accounted for, requests served |

Why the bounds are enough: a buffer of 3 has every relation between the two
pointers and the limit (empty, partly read, full at the limit with a gap before
it), and 4 bytes wrap it and the counter. Two connections with four descriptors
can both be complete, or one can take the number the other has just given up;
with two structs and a pool of one, structs go through pool, `malloc` and
`free`. Two addresses give one retry. In `socks5` the buffer of 3 lets COPY start
with no early bytes, with some and with as many as fit; it has no users, since
what is asked there of the AUTH states is proved for every number of users and
the rest does not depend on them. `socks5_faults` has a user; it and `socks5_retry`
have a buffer of one byte, too small for early bytes, which do not matter to what
they ask. The counters are modulo 2, so that they wrap. In `selector`
the two descriptors besides the listening one are a client and its origin, or
two clients of which one may close in a round and leave its number to the next;
its five invariants are also proved for every number of descriptors.

In `handshake` addresses have 1 and 2 bytes instead of 4 and 16, which changes
no branch; the buffer of 9 holds the longest message and is filled by a client
that sends all at once. Two changes allow a user to be deleted and authentication
to be turned off in one handshake. In `dissector` the name is a letter of USER,
and every cut of both streams is tried; no name spells USER, so that the runs
with the switch turned are among those `Followed` admits (names that do are left
to the proof). In `monitor` tokens have one byte and DLEN
counts in fours (`Radix`), so that both of its bytes matter; a cut after byte 5
is in the middle of DLEN, after bytes 8 and 9 between name and password of the
two users, which is where the statics are exposed. Two users, two
administrators and a pool of one are each filled.

`handshake`, `dissector` and both runs of the monitor say CHECK_DEADLOCK FALSE:
their clients stop when they have sent what they had. Deadlock is checked in
all others. Symmetry over the structs is used where no
liveness is checked.

### Disagreements with the repository's own statements

Each of these runs violates one property that states what a comment says.

| Run | Comment | What happens |
|---|---|---|
| `relay_loss` | `socks5nio.c:165`, DONE when nothing is left to copy | `copy_r` closes the other socket's write side as soon as it reads an end of stream; bytes queued for it are dropped |
| `relay_early` | `socks5nio.c:161`, OP_READ if there is room in the read buffer | `request_write` asks for OP_READ although early bytes fill `read_buffer`; `recv()` with a size of 0 returns 0, and `copy_r` closes the client's direction, dropping them |
| `socks5_retry` | `socks5nio.c:134-138`, interests and exit of REQUEST_CONNECTING | the result of a further `request_connect` is ignored; the client's socket is then taken for the origin |
| `selector_stale` | `socks5nio.c:960`, the connection is established or has failed | a number reported for a closed connection is reused in the same round; `request_connecting` sees no error on a socket still connecting and reports success |
| `monitor_static` | `monitor.h:55`, the data of ADD PROXY USER are the user and the password | two requests arriving in pieces share `username_len_with_null`; a user is stored with a password nobody sent |

`selector_stale` needs five descriptors: a connection closed by the event of its
lower descriptor, and two connects from descriptors between its two numbers.

Also seen, without a run of their own:

* Connections: early bytes that leave room in `read_buffer` stay there until
  either peer sends or closes, as `request_write` sets OP_READ alone on the origin
  (`socks5nio.c:1029`, against the comment at 162), so a client that waits for the
  answer to them waits for ever; a client whose resolver thread does not start
  (`socks5nio.c:803`), or for whose answer there is no memory (`selector.c:517`),
  stays in REQUEST_RESOLV (with "thread" or "notify" in `Faults`, `RequestAnswered`
  fails); after SIGTERM structs and selector are freed under running
  resolver threads, which are detached (`server.c:259`, against the comment at
  121); `pool_size` is not decremented by `socks5_new`,
  nor by `connection_new`; a name whose first connect fails at once leaks its
  address list if the struct is then pooled.
* Handshake: a field of length 0 takes a byte all the same; a client that was
  told to authenticate is dropped if authentication is turned off before its
  credentials; nothing turns it on again; after an unregister the log may name
  another user; a client that sends its messages together may be left waiting.
* Dissector: the blank after USER and PASS is logged as part of the argument;
  pipelined credentials are logged on the reply to USER; switching off and on
  in the middle joins pieces of different credentials; a greeting cut after a
  letter U may hide the first USER; when the start of a line was missed, a name
  in which USER is spelled (superuser, say) is taken for the command.
* Monitor: a delete with an empty name leaves server and client waiting for
  each other; a reply in two pieces overwrites itself in the client; a request
  the server never answered is reported from an uninitialised buffer; a GET
  whose DLEN and DATA come late may be reset; a root token of the wrong length
  leaves no administrator, as `main()` ignores the result (`server.c:215`).

These are exceptions written into the properties, named in their comments.

## 4. Fairness

* `Relay`: `CopyR` and `CopyW` are weakly fair. `selector_select` serves every
  event it reports in the same round (`ServedInRound`), and for `CopyW` the
  peer is assumed to go on reading. Peers owe nothing.
* `Socks5`: resolver steps (`getaddrinfo()` and `connect()` give up in the end),
  the visit to a queued job (`JobServed`), the answer of a connect, and the
  sending of a reply, whose client reads it or breaks. A client owes no message.
* `Selector`: the main thread moves on, as `pselect()` waits ten seconds at
  most; the arrival of events is not fair. `Enqueue` is strongly fair, because
  the main thread takes and releases the mutex in every round.
* `Handshake`: bytes that arrived are read and bytes queued are sent. How many
  at a time is free, so fairness is stated on what all reads (all writes) have
  in common and subscripted with the count they advance: `WF_recvd(BytesRead)`,
  `WF_told(BytesWritten)`. The client owes nothing: `MessageAnswered` is about
  messages already sent.
* `Monitor`: accepts, reads (`WF_taken`, in the same way) and writes of the
  server, and a living client's `recv()` and report. Clients may be killed and
  the server may stop at any time.
* `Dissector` has safety only.

## 5. Proofs

All theorems hold for every value of the constants allowed by the assumptions
in the modules:

* bounds are natural numbers and sizes positive, descriptors natural numbers,
  `NoStruct` is not a struct;
* `HandshakeAssumption`: messages consist of bytes, the address of a request has
  the length of its type and the port two bytes (that is what a request is; one
  that ends in the middle is a client that closes), and the accounts have
  different names, as `socksv5_register_user` sees to;
* `RequestsAssumption`: names, passwords and tokens of the monitor's clients are
  C strings, tokens have TOKEN_SIZE characters (`parse_args` refuses others),
  and the dissector switch is one byte, 0 or 1;
* `DissectorAssumption`: a greeting is a line of at least three bytes; names and
  passwords have no line end and at most 253 bytes, which with the blank and the
  CR fit in the arrays of `struct disector`;
* `StartAssumption`: `main()` starts with root and with a table that
  `socksv5_register_user` filled, whose names are bytes; `MonitorAssumption`:
  the statistics are numbers.

Hypotheses of single theorems are named with them below. Only where a
cardinality is counted is a set assumed finite.

* **Relay.** `RelayInv` is `TypeOK`, `GoodCopy(copy)`, `Conservation`, `EndsAgree`, `NoStall` and
  `Armed`: interests are a subset of what is open, and writing is wanted only
  with bytes queued. `Armed` is what makes it inductive: without it a handler
  might run for a closed direction, or send from an empty buffer. Then
  `Spec => []RelayInv` gives `RelayTypes`, `RelayConserves`, `RelayNeverStalls`
  and `RelayEndsAgree`. `RelayBytesCounted` is inductive relative to it.
  `RelayCloseHasCause` adds `Roomy` (reading is wanted
  only with room, but for the interest `request_write` leaves when early bytes
  have filled `read_buffer` and none of them was sent yet), for every amount of
  early bytes. `RelayImplementsTunnel` and `RelayClosedForGood` use the same
  invariant step by step. `CopyProofs` has what the operators of `Buffer` and
  `Copy` return and preserve.
* **Socks5.** `Socks5Inv` is `Core`, the types of the rest and `AllFreed`.
  `Core` has the types, `HeapOK` (references count items; items point to structs
  in use) and, while the server runs, that open descriptors are the registered
  ones and `ConnOK` for each connection. `ConnOK` says that both descriptors are
  registered for the struct, that there is no origin before REQUEST_CONNECTING,
  and pins down the strange states after a failed retry: if the client's own
  number has become the origin's, the connection is in REQUEST_WRITE with no
  interest, so that `socksv5_done` never drops the same item twice. One lemma per
  action; `CoreStep` and its variants show that a step for one connection leaves
  `ConnOK` of the others. Theorems: `Socks5Types`, `Socks5RefCounts`,
  `Socks5Descriptors`, `Socks5AllFreed`, with every fault possible.

* **Socks5, the lives of connections.** `LifeInv` adds to `Socks5Inv`, for each
  struct in use: `WatchOK`, which interests its two items have in each state,
  with the states after a failed retry, and a copy that starts with early bytes,
  set apart (`CopyMoves`: the first event of such a copy ends that state); `ListOK`, in which states it
  owns an address list and where it stands in it; `ReplyOK`, how much is in the
  write buffer; `UserOK`, when `client_uname` is set; and that threads and jobs
  belong to connections in REQUEST_RESOLV, one each. They need each other: that
  no handler but `request_resolv_done` runs for a connection that waits for a
  name follows from its empty interests, which is why its thread finds the
  struct and the number it was given. Theorems: `Socks5HandlersReady`,
  `Socks5ResolverTargets`, `Socks5AddressList`, `Socks5LoggedUser`,
  `Socks5Isolation` (an action property), with every fault possible;
  `Socks5CurrentExact` for finitely many structs; `Socks5OneReply` and
  `Socks5Interests` without the fault `retry`, with which they are false
  (run `socks5_retry`).
* **Selector.** `SelectorInv` has `ItemsOK` (sets and maximum are exact, the
  items of a connection point to its client, a client whose origin connects is
  not watched), `RoundOK` (what is owed in a round is still ahead of
  `handle_iteration` and due: no handler makes another item lose an event it
  still wants), `WakeUpPending`, and `AnswersOK` (a client waits if and only if
  it is in exactly one of the threads and the queue; while jobs are served, the
  queue is the part taken off it). Theorems: `SelectorTypes`, `SelectorMaster`,
  `SelectorServes`, `SelectorWakesUp`, `SelectorAnswers`.
* **Handshake.** `HandshakeInv` has what is known of the bytes and of the parser
  in each state, that no request was served before its state, `AccessOK` (while
  the switch is on nobody is past AUTH without a name, and the status about to
  be sent says so) and `EntryOK`/`LogOK` (the entry `client_uname` points to is
  the one that authenticated, unless a user before it was removed). Theorems:
  `HandshakeNeedsUser`, `HandshakeLogsUser`, for any messages and cuts.
* **Handshake, the bytes.** `FrameInv` (`HandshakeFrames`) adds where the server
  stands in the stream: `Laid` says at which byte each message begins, `PlaceOK`
  that what was taken ends with the last message parsed, or lies inside the next
  one and the parser then holds what its bytes up to there say (`HelloIs`,
  `AuthIs`, `RequestIs`), and `FramesOK` is the result, for each message served
  while the client and the server were in step. A lemma per automaton moves it on by a byte (`HelloFed`,
  `AuthFed`, `RequestFed`), and an induction over the loop of `*_consume` by a
  read, which may leave bytes of the next message in `read_buffer`.
  `HandshakeParsesAsSent` follows. It excludes a message after a field of length 0:
  the parser takes a byte for it all the same, and loses the frame.
* **Handshake, the turns.** `PoliteInv` (`HandshakeTakesTurns`) is about a client
  that waits for each reply and does what it says: `InTurn`, it is at most one
  message ahead, of the kind the state reads, with `read_buffer` empty between
  messages; `ToldOK`, what it was told so far, split between what has arrived and
  what is in the write buffer, is what leads it to that message; `MethodOK`, it is told
  that no name is needed only if authentication is off, which nothing turns on
  again. Then `HandshakeDropsNobodyPolite`. The attempt to prove it corrected
  `PoliteNotDropped`: it used to excuse a drop by the last message only, but an
  earlier one with an empty field can be taken for a message that ends early,
  and what is left of it drops the client at the next, which is well formed.
* **Registry.** `RegistrySound`: `NamesUnique`, `TablesFit` and `RootStays` are
  inductive together (uniqueness is needed for the sizes: a name that is not
  there is an entry that is not there). `RegistryAuthorised` follows step by
  step. These are theorems about the promise, for any clients and bounds.
* **Monitor.** `MonitorImplementsRegistry`: the monitor keeps that promise, for
  any clients, any requests and any cuts. The invariant is `MonitorInv`:
  `ConnOK` (who waits, what is open), `ParsersOK` and `TablesOK`. `ParsersOK`
  says for every connection that is read that its parser holds exactly what the
  first `taken` bytes of its request say (`ParserIs`: the token so far, one byte
  of DLEN in the static array, the name, the static length of the name and the
  part of the secret behind it), where everything that went through a static is
  known only for connections that are not `mixed`. One lemma per state of the
  parser shows that a byte moves it on (`FeedVersion` to `FeedAdd`), and
  `ConsumeKeeps` that the loop of `monitor_consume` does so for any number of
  bytes. A read by another connection keeps `ParserIs` because a static it
  changes is one that is not needed again, or puts the connection in `mixed`.
  Then a finished parser has the name and the secret that were sent, and the
  table functions are shown to add one new entry, to remove the one entry of a
  name, or to do nothing. `MonitorStructs` has its own account (`StructsOK`),
  for finitely many clients.
* **Monitor, the replies.** `ReportInv` (`MonitorReplies`) adds the way of a
  reply to `MonitorInv`: what the client has in `buf`, what is on the line and what
  `monitor_write` has left are, put together, one reply, and `process_response`
  reads in it what was done (`Reports`), whatever `buf` held behind it. That stops
  being true at the second `recv()`, which writes over the first, hence
  `pieces` in `ReportTrue`. `AnswerTrue` has the heart of it: the status follows from
  what the table function returned (`UsersChange`, `AdminsChange`: a table
  changed if and only if it said so), and the data are read back as they were
  written (`Marshalled`, `ReplyReported`: two bytes of length, numbers in their
  number of bytes, names with a 0 between them). The client reads the reply by the
  request it sent, so `ParserIs` now also says that the server's parser has the
  method and the target that were sent. `MonitorReportsTruth` follows.
* **Dissector.** `DissectorInv` (`DissectorInvariant`) is `TrafficInv` and, as long
  as `Followed`, `SeenInv`. `TrafficInv` is about the two peers: the bytes of the
  lines lie one after the other in `up` (`Laid`, with `Ends` for where each one
  ends), nobody is further ahead than it may be (`TurnOK`), only the last two
  lines can have been accepted, and the replies have no letter that starts USER.
  `SeenInv` says where the bytes sent so far put the parser. `ParserOK`: they end
  after byte j of line k (`Place`), and for each state `ParserAt` says what the
  arrays hold and how much of a keyword was matched. If nothing went unseen
  (`Exact`), `AtUser` says that the parser keeps the frame of the lines: it is
  never inside a PASS, and j letters into a USER it has matched j. Otherwise it
  may start in the middle of a line, and what was spelled there is the
  invariant. `GreetingOK` and `ResponseOK` do the same for the greeting and
  for the reply: while the client waits, what is left to send is that reply
  (`Awaited`), of which `dp.i` letters were seen, and it is OK if and only if
  the credentials were accepted, which is where the decision taken one letter
  early is shown to be right. `LogOK` relates the log to that. A lemma per
  state moves `ParserAt` on by a byte (`MovedUser` to `MovedPasswordCopy`, whose
  carried letter U is needed when a line other than PASS follows a USER), and
  `ConsumeKeeps` takes it over the loop of `disector_consume`. Then
  `LogsOnlyAccepted` and `LogsAllAccepted`, for any greetings, names and
  passwords, any number of lines and turns of the switch, and any cuts.

  The proof attempt found that what `LoggedWereAccepted` used to say, for every
  gap between credentials, is false for names in which USER is spelled; the
  instance of the run had none. `Followed` is the condition that was missing.

Six recursive functions are reasoned about for any number of steps:
`Consume`, `monitor_consume`, `NameList`, `disector_consume`, the sums of
`EndOf`, and the closing of all connections in `ServerStops`. The induction is first-order: the numbers of steps after which
the statement fails are a set of naturals, and if it is not empty it has a
smallest element, which the step lemma excludes; the same argument shows that
the function exists. Every inductive invariant was checked by TLC on the
instance of its run before it was proved.

Only model-checked: all liveness (fairness and ENABLED are beyond the prover).

## 6. Not modelled

The growth of the selector's item array (1024 items are allocated at the start,
the most `select()` allows), the EBADF path of `selector_select` (`MasterExact`
and `DescriptorsAccounted` exclude it), the failure of `fcntl()` and
`getsockopt()` on an open socket; names, passwords and arguments longer than the
arrays that hold them; `errno_to_socks`, which only chooses between failure
statuses; the options of the server, addresses, the wording of messages and the
log, which keep no state. In `Selector` a further attempt to connect does not
fail at once; in `Socks5` it does (fault `retry`). The handshake's bytes and the life of its connection
are in two modules (`Handshake`, `Socks5`), each abstracting what the other has.

## 7. Plan

1. **Done**: Buffer, Copy, Relay with Tunnel; Socks5; Selector; Users, Parsers,
   Handshake; Dissector; Monitor with Registry.
2. **Done**: proofs of every safety property of `Relay`, `Socks5`, `Selector`,
   `Handshake`, `Dissector` and `Monitor`, with the refinement of `Registry`.
3. That a connection in COPY of `Socks5` takes the steps of `Relay`.
