# A specification of httpdns

`httpdns` is a small HTTP server (`src/server`, C, one thread per connection)
that serves and stores files and answers DNS queries, and a command line client
for it (`src/client`, C++).  This directory specifies both in TLA+: TLC checks
the modules on small instances, TLAPS proves every safety property of the passing runs
for all values of the constants.  The code is the reference; comments and documents are quoted only
where the code disagrees with them.

## 1. The system

| Component | Source | State | Operations | Interacts with |
|---|---|---|---|---|
| Listener thread | `server/httpserver.c` 475-584, `httpdnsd.c`, `thread.c` | listening socket, `caught_signal`, retry counter | install handlers, listen, register, accept, spawn, deregister, close, return | signals (handler runs in any thread), clients (backlog), workers (never joined), the central server |
| Worker thread | `server/httpserver.c` 45-460 | connection, local file or directory, DNS socket, bytes still to move | read the request, GET, PUT, POST, refusals, close | its client, files, a DNS server; other workers only through files, descriptor numbers and signals |
| File transfer | `httpserver_reply_put`, `httpserver_reply_get_file` | file contents and offsets, `content_length`, `bytes_remaining` (both `size_t`) | write the payload that came with the header, copy loops | other workers that have the same file open: no lock |
| Descriptors | `socket_close`, the `close` calls of `httpserver.c` | the kernel's table, the `int`s in the program | open, accept, close, retry | every thread of the process |
| Registration | `httpserver_register`, `_deregister`, `http_put_buf` | retry counter, `response[]` | connect, send, read the answer, retry | the central server |
| Strings | `server/string.c` | an array of fields | split, append, copy, delete | request parsing, logging |
| Client GET | `client/httpgetput.hh` 32-123, `filedescriptor.cc` | `header_in`, `content_len` (`size_t`), buffers | read the header, copy the payload, copy the rest | the server, one local file |
| Client PUT | `client/httpgetput.hh` 126-163 | a buffer, the local file's size | send header and body; the reply is not read | the server, one local file |
| Client POST | `client/httpgetput.hh` 165-200 | a buffer | send header and query, read and print the reply | the server |
| Socket and descriptor wrappers | `server/socket.c`, `client/*socket.hh`, `filedescriptor.cc`, `util.h` | an address list, byte counts | resolve, connect, listen, read, write | the kernel |
| URLs | `server/url.c`, `client/url.cc` | none | parse | command line |
| Start | `server/httpdnsd.c` | parent, session, standard streams | parse options, fork twice, reopen the streams, run the listener | the shell, init; the log goes to whatever number 2 is |
| DNS | `server/dns.h` (`dns.c` is not in the repository) | none | send a query, receive an answer | a DNS server |

**What is hard here.**  A signal sets a flag that is looked at in one place, and
runs in whichever thread the kernel picks.  SIGPIPE is given the same handler, so
clients can run it.  Workers are detached and share files and descriptor numbers.
Sizes are unsigned and reduced by what was read.  Error paths differ by handler.
Attempts to register use a connection each, and the answers may be late.  None of
this has a test: the repository has no test suite.

**What makes each part correct.**

- Listener: a caught signal ends the process, unless the thread is where it cannot see it
  or waits for the central server; no more than one client is accepted after it; every way
  out closes the listening socket.
- Worker: one final reply, which tells what happened; each handler closes what it
  opened; it ends unless its client, a DNS server or a file that shrinks keeps it.
- File transfer: 201 Created means the body is in the file; a GET sends the file.
- Descriptors: a number in a variable is that of what its owner opened; what is open is
  in its owner's variable, but for two paths on which the code loses it.
- Registration: what is logged is what the central server said; a deregistered
  server stays deregistered; both loops end unless the central server stays silent.
- Strings: the fields are the source cut at its delimiters, and nothing else.
- Client GET: success means the declared body is in the file.
- Client PUT: what the server confirms is the local file, and its client succeeds; a
  refusal has a reason.
- Client POST: a query is answered, unless its two writes met the server's one read badly.
- Wrappers: no socket is left open but the one returned; no byte is moved twice or skipped.
- Start: a daemon has no terminal; the log never lands in a client's connection.
- URLs: a field is the part it is named for, whatever the other parts hold.

## 2. The modules

```
Service  <--implements--  Listener  <--each attempt is one step--  Registration
Exchange <--implements--  RequestWorker
                             ^ its client spelled out: Query (POST)
                          FileTransfer  (the bytes of RequestWorker's copy loops)
                             ^ its Lead is PayloadIsLead of StringSplit
                             ^ its client spelled out: Upload (PUT)
                          Descriptors   (the numbers RequestWorker keeps)
                          ClientGet
StringSplit, Url, Startup, Addresses, Retries   (each by itself, in MCFunctions)
```

`MC<module>` instantiates a module for TLC (MCFunctions the five at the bottom, one per
`study`; MCFileTransfer keeps one of three workers silent at a time); `<module>Proofs` holds its
theorems, RequestWorkerProofs also those of Query, and FunctionsProofs those of the five at the bottom.
Names of definitions follow the functions and variables of the code; the exact
lines of every definition are in `PROJECT.json` under `map`.

**Service** is what `httpserver_run` promises its caller: starting, serving,
stopping, stopped; stops only after the handler ran; one late client at most.

**Listener** is the thread that runs `httpserver_run`, up to `main`'s return.  `pc` is
the place in the function.  `EnterAccept` splits the stretch between the test of
the flag and the kernel's `accept()`, for that is where a signal gets lost.  A
connection is idle, queued, held, a worker's, and closed; dropped when
`thread_create_detached` failed, and then open with nobody to close it; cut when the
process exited under its worker.  `Register` and `Deregister` wait for the central server.
`Signal` delivers SIGINT or SIGTERM to the listener or to a worker;
`WorkerSigpipe` and a failed attempt to register run the same handler.

**Registration** opens up the step `RegistrationAttempt`: connecting, two writes, one
read, against a central server that carries out requests at any time.  `heard` is
what an earlier call left of `response[]` on the stack, which `sscanf` takes for the
answer when the read fails: undefined behaviour, of which both outcomes are kept.  The
answer is read when there is one; the connection may end first, a signal may interrupt
the read, or nothing may come at all, for `socket_read` has no timeout.
`View` maps its states to Listener's, and `LoopsOfListener` says its steps are steps
(or stutters) of that module.

**Exchange** is what a worker promises a client: at most one 100 Continue, and then
only on demand, at most one final reply, nothing after closing.

**RequestWorker** is `httpserver_worker_thread` with every handler.  An action is one
blocking call or the stretch up to the next.  The text of a request is one of eight
classes, which the code tells apart before it does anything else.  Bodies and files
are counted in chunks of one read.  `replies` is what reached a connection not yet
reset; `peer` tells how a write will find the other side, `lost` that one has failed.  The
answer to a query is several writes, between which a reset may come.  `CloseFile`,
`CloseDns` and `CloseClient` are the closes of the handlers and of the worker, each at its
place.  `spin` is the copy loop at the end of a file that another worker has made shorter.

**FileTransfer** counts the bytes: one file, any number of PUTs and GETs, offsets,
partial writes, `size_t` arithmetic modulo `SizeMod`.  A byte is who wrote it and its
place in his body, so that a file can be compared with a body.  `ReadFails` is a read of a
body that was interrupted or reset, `broken` that it has happened; `stalled` is a GET whose
client has left no room for the next write.

**StringSplit** is the loop of `string_split`, and the field its callers take for the
payload.  With Url it is the one module that spells out bytes, since delimiters that straddle
and bytes that end a C string are what it is about.  `begins` is a history variable: where in the
source each field begins, which the code only has in its pointer.

**Descriptors** is the kernel's table of open files against the numbers the workers
keep; `close(2)` may be interrupted before or after it has freed its number.  `SpawnFails`
and `ListDirectory` are the two paths that lose a number, and `refused` the numbers lost.

**ClientGet** is the GET of the client: header blocks, the payload in the first block,
the copy loop with its shrinking buffer, and a server that sends in any pieces,
stops, closes, resets or keeps the connection.  Without a Content-Length (`NoLength`) the
client reads on to the end of file, and fails.

**Upload** EXTENDS FileTransfer: the server's steps are that module's, and its abstract
client is replaced by the code of the client's PUT.  The local file may be changed by
others, or be a pipe that cannot tell its size; a connection holds `Window` unread bytes;
writing to one the server has closed loses the bytes or kills the client, and writing to a
full one waits.  `MayWait` are the calls on a pipe or terminal that need not return, and
`BreakOff` is a connection that breaks, with or without the server's knowledge.  `cpc` is the
place in `http_copy` and its end, whose exit status does not depend on the reply.

**Query** EXTENDS RequestWorker in the same way with the client's POST.  The point is that
the client writes header and query with a call each, and the worker reads once.  A
connection the worker closes with unread bytes is reset, and a reply may be lost with it.

**Startup** is `main` and `daemonize`: one process is followed through its forks, and the
table of descriptor numbers through the reopening of the streams and into the sockets
and files the server opens with the numbers that are left.

**Addresses** is the three loops over the addresses of a host, the server's two and the
client's one.  **Retries** is the five loops around `read`, `write` and `send`, with the
places of the bytes the kernel has taken.

**Url** has `url_get_field` and `Url::Parse` as operators on sequences of delimiters,
letters and other characters ("1"), which `isalpha` tells apart; `sscanf` is modelled by how far it gets.  The one
variable is the parts the URL was put together from.

## 3. The runs

| Run | Question | What it shows |
|---|---|---|
| `listener` | Three clients, two descriptors, two signals, three attempts | `ListenerInv`, of which no more than one late client, one held connection and the listening socket's state are parts; it implements Service; `SignalEndsService`: a caught signal ends the process unless the listener sits in `accept()` with nobody queued; `QueuedIsAccepted`: a queued client is accepted or refused unless descriptors have run out; both unless the central server keeps the listener waiting for ever |
| `listener_sigpipe` (violation) | No SIGINT or SIGTERM at all | A client connects, is accepted and resets its connection under its worker's writes: the server that was serving stops.  SIGPIPE is handled, not ignored |
| `worker` | Every request, failure, turn of the client and signal | Replies are true; silence is explained, and a GET is never silent of its own accord; a promised file or answer is sent whole; each handler closes what it opened; it implements Exchange; it ends unless its client or (after an interrupted `select`) a DNS server keeps it, or its file has shrunk |
| `transfer` | A PUT of up to four bytes against a GET, or two PUTs of one file | A confirmed PUT has written as much as was declared; one that had the file to itself left its body there; an untouched GET is exact, and ends unless its client stops reading; a PUT ends unless its client idles |
| `transfer_field` (violation) | A body of lines that comes with its header | The complete body is answered 400 though no read failed: what follows its first CRLF was dropped and is waited for |
| `upload` | The client's PUT against the server's | What is confirmed is the local file; a confirmed client succeeds; a refusal taken for a success has one of four reasons; both ends end, however full the connection, unless a pipe or terminal keeps the client, or the server is not told that the connection broke |
| `query` | The client's POST against a worker | A query is refused, kills its client or loses it the reply only if the worker read between the two writes; the client ends unless a signal made the worker wait for a DNS answer |
| `descriptors` | Three workers, three numbers | Numbers are their owners' until a `close` freed its number and failed; nothing is lost but a directory `fdopendir` refused and a connection without a thread |
| `registration` | Three attempts each, two signals | Claims are true or rest on a leftover answer; a ghost listing needs an abandoned registration; each attempt is a step of Listener; both loops end unless the central server stays silent on a request |
| `client_get` | Blocks of four bytes, headers to six, bodies to six | Success means the declared body is stored, but for one case of padding; what was not cut short is stored, but for responses without a Content-Length and short ones, whose `content_len` wraps round |
| `functions` | Strings, URLs, start, addresses, retries | Each field, with a delimiter behind it, is the source from where it begins to where the next does, and the payload is `Lead`; both URL parsers find the parts again but for three cases; the log stays out of connections unless `/dev/null` could not be opened, and a daemon is detached; address loops leave open what they return, or the socket whose connection made the client throw; what was moved is a prefix of the buffer, and an interrupted log line is whole but for one byte per signal |
| `addresses` (violation) | A host whose first address refuses | The client gives up without trying the second |

Every property of a passing run is broken by at least one mutant of a mapped
definition, kept next to it ("Mutant of ..."): a dropped guard, an early return, a
missing reset, a counter off by one.

**Bounds.**  Three attempts are the code's own number; two signals let one arrive while
the first is still being acted upon.  Three clients are one served, one late, one that must
not be admitted; two descriptors are fewer than clients, so that `accept` fails for
want of one.  In `transfer`, a body of four bytes in reads of two has payload
before, at and behind a CRLF, and more than one pass of each loop; two PUTs have bodies of
two.  `SizeMod` is a power of two above every sum, so that wrapping round is told from a
small number.  `upload` has files of up to four bytes in blocks of two through a connection
that holds two, so that it fills up, and a file may grow, shrink or end inside a block;
the fifth byte of `MaxBody` is what a size of -1 promises.  `query` needs one chunk: a
query is one piece.  `descriptors` has three workers and half of the six numbers they
could use, so that each is reused, by another worker too, and `accept` runs out of them.
`client_get` has headers of less than, exactly and more than a block, and bodies that end in
the first, second and third block.  `functions` has strings with room for a
blank line, a payload and a CRLF in it; URLs with every part present or not, holding every
delimiter that does not end it, users that begin with a letter or a digit; three
addresses, so that the first, a middle and the last may fail; four bytes and three signals between any of their pieces; two numbers behind the
standard streams.  `worker` has three chunks: loops of none, one and several passes.

**Fairness.**  Weak fairness of the thread under study, because a runnable POSIX thread
is scheduled; in `upload` and `query` of both ends, which are the two programs of this
repository; and of nothing else.  Clients, DNS servers, the central server, other workers,
signals and whoever changes a file may do nothing for ever, so the liveness properties name
the states in which a thread waits for them:

- `WaitsForEver` (Listener), `AwaitsCentral` (Registration): `http_put_buf` reads its answer
  without a timeout (`http.c:58`), so a central server that accepts a request and is silent
  keeps the listener in its registration loop.  An attempt is fair only in Registration, and
  there only as far as it does not wait; leaving the accept loop is not, for it may be blind.
- `BlindSpot` (Listener): in `accept()`, or bound to be, with nobody queued.
- `AwaitsClient` (RequestWorker): a client that neither sends, reads nor leaves;
  `AwaitsAnswer` (also Query): a DNS answer waited for after an interrupted `select`.
- `Waiting` (ClientGet): a server that sends nothing and keeps the connection open.
- `Spins` (RequestWorker): a copy loop whose file has shrunk runs, but gets nowhere.
- `Blocked` (FileTransfer): the client of a GET has left no room and reads no more.
- `MayWait`, `Unheard` (Upload): a pipe or terminal that neither yields nor takes anything, a
  broken connection the server has not been told of.

A call that blocks has no step that fairness could take instead: a write to a full
connection fails only if the connection breaks (`BreakOff`), which is not fair.

Deadlock checking is off where the process or thread ends; `descriptors` has it on.

## 4. The proofs

| Theorem | Says | Argument |
|---|---|---|
| `ListenerInvariant`, `ListenerTypeOK`, `AtMostOneLateAccept`, `ListenSocketIsClosed` | The invariants of the listener, for any clients, attempts, descriptors and signals | `ListenerInv` is inductive. `OneLateAccept` alone is not: `LateIsLast` adds that after a late client the listener cannot be at `enter` or `accept` again, `ControlFollows` that a shut socket means a caught signal |
| `ListenerImplementsService` | Listener refines Service | Initial states map to initial states; under `ListenerInv` each action maps to one step of Service or a stutter |
| `WorkerTypeOK` | The types of a worker's variables, for bodies of any length | One step per action; no strengthening is needed |
| `SayInvariant`, `WorkerImplementsExchange` | RequestWorker refines Exchange, for bodies of any length | `SayInv`: until a handler tries its final reply at most 100 Continue has been said, so the reply it tries is the only one |
| `CountersAgree`, `CreatedMeansComplete` | The `size_t` counter of each of any number of PUTs is what is missing; 201 means it is all there | `CountersInv` with the types of the counters (`PutInv`) is inductive; lemmas about `Minus` do the modular arithmetic, also past zero |
| `TransferTypeOK` | The file stays a sequence of bytes a `size_t` can count, whatever is written at whatever offsets | With `PutInv`, for what a PUT writes ends within its body (`WrittenType`, `WrittenLength`) |
| `OnlyRefusedAreLost`, `IdleHoldsNothing` | No descriptor is open that no variable holds, but those of refused directories and of connections without a thread; a worker holds what its place says | `HeldInv` (types, both statements) is inductive; needs no assumption about `close(2)` |
| `NumbersStayOwn` | Numbers are their owners' as long as no `close` freed its number and failed | With `HeldInv`: what `close` frees is the closer's, so no other variable refers to it |
| `RegistrationTypeOK`, `ReportedIsTrue`, `GhostsAreAbandoned` | What the loops report, and who stays listed, for any attempts and signals | `RegistrationInv` adds that answers come in the order of the requests (`AnswersFollow`) and that a loop waits for its last request only (`RequestsFollow`) |
| `AttemptsAreListeners` | Each attempt is a step of Listener | Under `RegistrationInv`, `View` maps a failed or successful attempt to `RegistrationAttempt`, everything between to a stutter |
| `ClientTypeOK`, `SuccessIsExact`, `CutsAreNoticed`, `FailuresHaveReasons` | The GET of the client, for buffers, headers and bodies of any size | `ClientInv`: behind the header the count is right, or has wrapped round and is more than any server sends, or nothing will follow; a read that falls short means the body was cut short |
| `UntouchedGetIsFaithful` | A GET no PUT touches sends the file as it was, for any sizes and any number of GETs and PUTs | `GetInv`: while nobody touched the file it is what was promised, what was sent is its beginning, and the counter what is missing |
| `SolePutLeavesItsBody` | A confirmed PUT with the file to itself left its body there byte for byte | `SoleInv`: nobody else writes; the file is the beginning of the body up to `kept`, unless a byte was dropped. With `PutInv`, for 201 needs `kept` to be all |
| `DescriptorsAreGivenBack` | Every way out of a handler leads past its own close: when the worker closes the connection nothing else is open | `PlaceInv`, which says for each place of the worker which request, file and fault it may have, and `GivenBackInv` |
| `PromisedFileIsSent` | What a 200 has promised is sent whole, unless the connection was reset or the disk failed | `PlaceInv` and `SentInv` |
| `SilenceHasReasons` | No reply only for the reasons `SilenceIsExplained` names | `SilenceInv` needs the reason as soon as the reply is tried, and once the header of a file should be out |
| `RepliesTellTheTruth` | A status is what happened to the file or the query | `ReplyInv` adds what may have been said while a file is copied; with `PlaceInv` and `SayInv` |
| `QueriesAreServed` | A query that comes with its header is served as it was sent | `AnyClientInv` (what holds of a worker whoever its client is) carries over to Query; `UnbrokenInv` says that a query which joined its header is alone in the connection until it is read, and that the client leaves last |
| `UploadTypeInvariant`, `ConfirmedFileIsStored`, `ConfirmedClientSucceeds`, `RefusalsAreExplained` | The client's PUT and the server's, for files, blocks and connections of any size | `UploadInv` is `PutInv`, `FileTypeOK` and `SoleInv` of FileTransfer, whose lemmas do the server's steps, with `ClientInv` (what the client has declared, read and sent at each place) and `ServedInv` (what was not kept came behind a CRLF; a refused client had closed, or a read of its body failed) |
| `DaemonsAreDetached`, `LogStaysApart` | The start of the server, for any number of descriptors | `StartupInv`: what each place of `main` tells of parent, leader and table (`DaemonInv`); number 2 is the stream `stderr`'s until a `freopen` fails (`LogInv`) |
| `OneSocketIsLeft` | The address loops leave open what they return, for any number of addresses, and a constructor that throws the one socket whose connection failed | `AddressInv`: between two addresses no socket is open |
| `BeginningIsMoved`, `LinesAreWhole` | The read and write loops, for buffers of any length and any number of signals | `PrefixInv`: what is out is the first `written` bytes; `LineInv`: each signal takes the counters of `VERBOSE` one byte back, and the bytes out reach up to where they stand |
| `SplitsExactly` | `string_split` returns its source cut at the delimiters, for any bytes and any length | `SplitInv` says where each field begins and ends; that no delimiter is left in one comes from the end being the first place a delimiter is at, a least number |
| `PayloadsAreLeads` | The payload found is what lies behind the first blank line, up to the next CRLF | From `SplitInv`: a delimiter that lies in the source and behind no zero byte ends a field (`DelimitersEndFields`), and a blank line is two of them with nothing between (`BlankLineIsTwo`) |
| `FieldsAreTheParts`, `ParsersDoAgree` | The parsers of URLs find the parts again, whatever their lengths, but for three cases | `PartsAreSlices`: each part is the URL between two places that the lengths of the parts give (`HostAt`, `PortAt`, ...); `ScansOfComposed`: each scan ends at one of them, since a `CHOOSE` of the first place is that place (`ReachIs`) |

All of them rest on the named assumptions of the modules only.  Most say that constants
are natural numbers: `ListenerAssumption`, `WorkerAssumption`, `DescriptorsAssumption`,
`RegistrationAssumption`, `AddressesAssumption`, `RetriesAssumption`.  The others:

- `TransferAssumption`, `ClientAssumption`: `SizeMod` is larger than any length declared
  (and, in ClientGet, by more than a block; its wrapping round below zero is modelled).
- `UploadAssumption`: one client, and no GET of the file it stores.
- `StartupAssumption`: there are descriptor numbers behind the standard streams.
- `SplitAssumption`: the delimiter has no zero byte and does not overlap itself, as CRLF, the
  one the code uses, does not.
- `UrlAssumption`: words hold no delimiter, a path begins with a slash, and no part holds the
  delimiter that ends it (a slash ends an authority, a `?` or `#` a path, a `#` a query).

Only model-checked: the liveness properties (`SignalEndsService`, `QueuedIsAccepted`, and
those whose names end in `Ends`), because they need fairness and ENABLED, which
the prover does not handle.  What holds of a sequence of any length is proved without
induction: from an invariant that says how one field, or one byte, follows another, and
from `LeastNatural`, that a set of natural numbers has a least one, which rests on the
library's theorem that `<` on them is well founded.

## 5. Assumptions, and what is not modelled

- `malloc` is modelled where the code looks at its result.  That of `ThreadData` and
  of small strings, which it does not look at, succeeds.
- Signals before the handlers are installed end the process and are left out.
- The five seconds between attempts, the two of `select` and log output are time and
  text; only that they end is modelled.
- A write of a reply of a few hundred bytes does not block: it fits the socket buffer.
- POST bodies are well formed, apart from a missing payload or name (a `Name` without
  its `=` would dereference a null pointer), and the field `Content-Length:` of a PUT has a
  value (without one `httpserver.c:290` would).
- The header of a client's request arrives in one piece, and so does a query; the answer to
  one fits the client's buffer of 512 bytes.
- The header fields the client looks for are not in the stale bytes of its buffer.
- The standard streams are open when `httpdnsd` is started.
- `string_new`, `_append`, `_copy` and `_delete` are straight calls of malloc, memcpy and
  free and are left out: Strings is modelled in part.
- `dns_send_query`, `dns_receive_reply` and the DNS server are external: `dns.c` is not in
  the repository, so DNS is modelled in part, from how `httpserver.c` uses it.
- The C library and the kernel are external: `sscanf`, `freopen`, `getaddrinfo`,
  `close(2)` are modelled by what the code can observe of them.
- The store to `response[-1]` when the central server's answer cannot be read
  (`http.c:59`) and the range behind the end of `header_in` (`httpgetput.hh:94`) are
  undefined; the memory around them is not modelled.
- The client's `main` only counts its arguments.

## 6. Where code and comments differ

Three differences are runs (`listener_sigpipe`, `transfer_field`, `addresses`).  Others
were met while modelling; the models follow the code:

- `httpserver.h:5` says "Exit on a signal."; a signal between the test of the flag and
  `accept()`, or in a worker, is acted upon when somebody connects next.  `BlindSpot`.
- `content_len` is reduced by bytes that were never read when a response does not fill the
  client's buffer, and wraps round (`httpgetput.hh` 96-98).  `WholeIsStored` names it.
- The client's PUT exits with 0 whatever the server replied, and with a local file that
  cannot tell its size it declares a length of -1.  `RefusalIsExplained` names both.
- The client's POST writes header and query separately while the worker reads once: a
  query may be answered 400, or its reply lost to a reset.  `CutOff` in Query.
- `TcpClientSocket` leaves `m_fd` at 0, standard input, when no socket can be made, and
  throws past a socket whose connection failed, and leaves it open.  `NothingLeaks` names both.
- `FileDescriptor`'s destructor means to repeat an interrupted `close` (`filedescriptor.cc:16`,
  "Repeat if interrupted by a signal"); its `continue` in a `do ... while (false)` ends the loop.
- `url.h:29-30` says `URL_HOSTPORT` is host and port; `url_get_field` returns the host only.
- A client URL without a port gets the port "", where `url.cc:26` says "www".
- `-v` in a daemon logs to `/dev/null`.

- `httpserver_run` returns 0 when it could not bind (577-583); `httpserver.h:7-8` says -1.
- `httpserver_handle_connection` leaks the descriptor when no thread can be created
  (467-469); the comment at 461 says it assumes ownership.  Connections of state `dropped`,
  `SpawnFails` in Descriptors.
- A directory `fdopendir` refuses is leaked, for `local_file` is set to -1 all the same
  (175-176).  `ListDirectory` in Descriptors, `leaked` in RequestWorker; `LostIsRefused` and
  `AllGivenBack` name it.
- `socket_close` calls `close` again after EINTR; `socket.h:12-13` means to avoid closing
  twice.  `freed` in Descriptors.
- `socket_read` does not retry on EINTR; `socket.h:45` says it does.  `Interrupt` in
  RequestWorker; `ReadFails` in FileTransfer answers 400 to a body that is on its way, and
  `RefusalIsExplained` names it.
- `url_get_field` finds no user that begins with a digit or `_` (`url.c:33`).  `FieldsAreParts`.
- `socket_connect` goes over a list of addresses, but connects to the first of them each
  time, and stops at the first refusal.
- The loop of `VERBOSE` (`util.h` 45-54) adds the -1 of an interrupted write to its counters.
  `LineIsWhole` says what comes of it.
- A GET of a file that shrinks under it spins at the end of file.  `GetEnds` and `Spins`.
- A request of two lines or fewer, such as a GET without any header field, is a bad request.
- The server has no timeout for reading, though its manual says requests time out; nor for
  the central server's answer, so a silent one keeps the listener from serving or stopping.

## 7. Plan

Done: the core (Service, Listener, Exchange, RequestWorker, FileTransfer), Descriptors,
Registration, StringSplit, ClientGet, the compositions Upload and Query, Startup, Addresses,
Retries, Url, and the proofs of section 4, which state every safety invariant and both
refinements the runs check.  Left:

1. Refinement across modules: the counted loops of RequestWorker against the bytes of
   FileTransfer, and the numbers of Descriptors against RequestWorker's variables, which
   are related by comments only.
2. The safety halves of the liveness properties: that a loop which has not ended has
   something left to do, and that each pass of it does some of that.
3. `string_append` and the reply texts, should a property ever depend on them.
