# Verification of the refuge server

TLA+ models, TLC checks and TLAPS proofs for *H.P.CPP (Hope. Programming. CPP)*: a
server that keeps the supplies and alerts of a refuge in RocksDB, serves them over
HTTP, filters images for TCP clients, and is told of alerts and of the final
emergency through a System V message queue.

The models are written from the code under `src/`; paths below are relative to that
tree. `PROJECT.json` names, for every definition of a module, the lines it stands for.

## 1. The system

| Component | Code | State | Operations | Meets others through |
|---|---|---|---|---|
| Database and wrapper | `lib/rocksDbWrapper` | three keys: `alerts`, `supplies`, `emergency`; RocksDB's LOCK | open (constructor), `get`, `put`, close (destructor) | every user opens it for itself; a second open throws |
| Supplies data handler | `lib/libsta/src/supplies_data_handler.cpp` | none | `set_supply`, `get_supplies`, `delete_supplies` | runs in HTTP workers |
| HTTP server | `src/server/server.cpp` 455-581 | a pool of workers | `/supplies`, `/alert`, `/database`, `/deletesupplies`, `/initdb`, `/setsupplies` | database; semaphore (only `/setsupplies`) |
| Semaphore | `include/server.hpp` 24-25 | one permit | acquire, release | `/setsupplies` and the two kinds of listener |
| Message queue | `lib/libsta/src/msg_handler.c` | messages of two types, in the kernel's queue of a key; survives the process | create, send (blocks when full), receive by type, remove | alert and emergency modules, listeners, `end_conn()` |
| Alert module, alert listener | `alert_module.c`, `server.cpp` 268-326 | the sensor read next | read a sensor, send; receive, count | queue, semaphore, database |
| Emergency module and listeners | `emergency_module.c`, `server.cpp` 328-390 | none | one message after ten minutes; a listener per accepted connection records it and ends the server | queue, semaphore, database, `end_conn()` |
| End of the process | `server.cpp` 423-454, 635-649 | | `end_conn()`, signals, `exit` of a sender, kill, restart | everything |
| TCP server | `server.cpp` 14-78, `lib/cppSocket` | a socket per address family, the system's queue of connections | start, `bind`, accept, failure of any of them | starts the sessions; the last process's connections |
| TCP sessions | `server.cpp` 80-266, 392-421, `client/client.cpp` | a stream each way, a thread per connection | get and set supplies, send an image, get a result image | internal HTTP requests, file transfer, `end_conn()` |
| File transfer | `file_comunication_handler.cpp` | the file being received | `send_vector`, `receive_vector`, (de)compression | the sessions' streams |
| Image directory | `write_file`, `compressFile`, `saveImage`, `loadImage` | the files of `img_svr/`, which outlive the process | save, load, save five results, measure and read one | all sessions, without a lock |
| Socket library | `lib/cppSocket` | | `sendto`, `receiveFrom` | the sessions' streams |
| Canny edge filter | `lib/cannyEdgeFilter` | matrices, accumulators shared by the threads of a loop | the four filter stages | called by a session; its results are files |
| File helpers, logging, build | `lib_handler.c`, `CMakeLists.txt`, `script/` | | | |

**What is hard here.** Many threads share one database that only one of
them may have open, and only some of them take the semaphore first. A read-modify-write
spans several calls. An exception leaves a handler between `acquire()` and `release()`.
The queue survives a killed process; the database may be killed in the middle of its
seeding. Senders block on a queue that `end_conn()` removes under them. A TCP stream has
no message boundaries, and the sessions' code assumes it has. Sessions read and write files
of the same names without a lock. The loops of the filter share variables between their
threads. A process that ends badly keeps the next one from binding its sockets. Any client thread may end
the whole server. The hazards are listed line by line in `PROJECT.json`.

**What makes the parts correct.**
- Database: wrappers are closed on every path; no update is lost; what is stored is
  always the result of whole operations.
- Semaphore: it excludes, and it is not lost.
- Queue: an orderly end leaves nothing behind; a message reaches one listener; an alert
  that was sent is counted.
- Emergency: it ends the server.
- Sessions: replies stay in step with requests; files arrive as they were sent; who
  leaves frees the thread; who waits is served; the server does not end without cause.
- Image directory: what is broken has met another writer or the end of a process, and the
  next writer alone mends it; a filter works on its own client's image.
- Filter: an overlap of two threads spoils no pixel but theirs; the walk stays in the image;
  the result of the linking does not depend on the threads; the filter returns.
- TCP server: after any failure, both sockets listen in the end.

## 2. Modules

```
RefugeData        what the keys hold and what the code computes from it
  ├─ RefugeStore        abstract specification: a store that changes by whole operations
  └─ RocksDbWrapper     the database and the lock of whoever has it open
MessageQueue      the System V queue
RefugeServer      = RocksDbWrapper + MessageQueue + threads, semaphore, process, restarts
RefugeServerProperties   invariants, action properties, refinements, liveness
RefugeServerDbProofs, RefugeServerProofs, RefugeServerServiceProofs
HttpService       abstract specification: the HTTP server as its callers see it

Connections       the two address families, their sockets, ends of the process and restarts
ConnectionsProofs
ClientSession     sessions: client menu, server thread, streams, file transfer
ClientSessionProperties, ClientSessionProofs
ImageDirectory    the files all sessions share
ImageDirectoryProperties, ImageDirectoryProofs

ParallelLoop      an OpenMP loop: team, blocks, barrier
  ├─ EdgeConvolution    the loops that add up: kernel, blur, gradients
  └─ EdgeTracking       suppression, thresholds, the linking walk
EdgeDetection     = EdgeConvolution + EdgeTracking, one phase after the other
EdgeDetectionProperties, EdgeDetectionProofs

SumLemmas         what a sum over a finite set is, for the proofs that count alerts and weights

MCRefugeServer, MCConnections, MCClientSession, MCImageDirectory, MCEdgeDetection
                  values of the constants for TLC
```

`HttpService` is where two of these meet. `RefugeServer` implements it with its workers for
callers and "the permit is not lost" for its `permit` (`ImplementsHttp`); the sessions
of `ClientSession`, whose only sight of the HTTP server are `http` and `permit`, take
it for no other (`UsesHttp`). So what `Served`, `Collides` and `NoResult` assume of the server is
what the server does.

### RefugeServer

`pc[t]` is where thread `t` is. The threads are the HTTP `Workers`, the
`AlertListener`, one of `Listeners` per accepted connection (`Connect`), and `Main`, on
which signal handlers run. `Main` also stands for a session's thread that calls
`end_conn()` on an exception: either way it is one more thread in `end_conn()`.

| Action | Code |
|---|---|
| `Serve` | a request arrives at an idle worker; a body that is no JSON or empty is refused before it touches state and is no step |
| `Acquire`, `Release` | `semaphore.acquire()` / `release()` |
| `OpenDb`, `OpenDbThrows`, `CloseDb` | the wrapper's constructor, the exception it throws while another thread has the database open, its destructor |
| `ReadForUpdate`, `WriteBack`, `UpdateThrows` | read-modify-write of `set_supply()`, `alert_listener()` and `run_emergency_listener()`; the exceptions of their parsing |
| `ShowSection`, `CollectSection`, `ClearSupplies`, `SeedSection`, `..Throws` | the other requests, one `get()` or `put()` per step |
| `Receive`, `Sense`, `RaiseAlert`, `RaiseEmergency` | the queue's users |
| `Signal`, `RemoveQueueAtEnd`, `Exit`, `SenderExits`, `Crash`, `Restart` | `end_conn()` in its steps, `exit(EXIT_FAILURE)` of a sender whose queue is gone or has the identifier 0, a kill or uncaught exception, the next process |

What an exception costs is in `Abandon`: in a worker nobody catches it but the HTTP
library, which answers 500, so a `/setsupplies` skips its `release()`; a listener
catches it and goes on to its `release()`. The locals of an ended process are gone
(`Forget`), the database and the queue are not.

Modelling decisions:
- RocksDB's LOCK file belongs to one open handle at a time, in one process too; a `put()`
  that returned is there after a kill.
- `create_message_queue()` deletes and recreates its key file, and `ftok()` makes the key of
  that file's inode number, a new one or one that a key file has had before. So queues belong to
  the kernel, one for each of the `Keys` that `ftok()` may return; a process is given any key
  and finds the queue an earlier one left under it, or makes one. The queues of the other keys
  stay as they are, for whichever process comes upon their key.
- `msgget()` returns some identifier. All that matters of it is whether it is 0 (`zeroId`),
  the first identifier of an IPC namespace, which at most one queue has and which
  `send_alert_msqueue()` takes for an error.
- `killed` is history: the runs that were killed or died of an uncaught exception.
- The timestamp of the emergency message is written by `strftime()` into 20 bytes that do
  not hold its 24, which leaves the buffer undefined: the message parses, or not.
- Amounts and counters are unbounded integers; `std::stoi` on what does not fit throws and
  is a body that is `Nothing`.
- The macros of `alert_module.h` are constants. As shipped (32, 39, threshold 38) no alert
  is ever raised, which is the theorem `ThresholdOutOfReach`; the runs check a build with a
  threshold of 37 so that alerts happen.

### ClientSession

Each client has a position in its menu (`clientPc`), each session a position in
`handle_client()` (`serverPc`), and between them are two sequences of *units*: a message
(one `sendto()`), a size word, a piece of a file. A receiver takes any number of units
from the front, as `recv()` and `read()` do; the server dispatches on what it has in
hand only if that is exactly one message. An exception ends a session, or the process by
`std::terminate` (`Abort`), or the process by `end_conn()` (`EndConn`), as its catch blocks
have it. Of the HTTP server a session sees `http` (it listens a second after the first TCP
port does) and `permit` (a `/setsupplies` without it outlasts the internal client's
timeout, and the empty result is dereferenced). `Collides` is where RefugeServer's
`OpenDbThrows` of a `/setsupplies` meets a `/supplies`.

The client's menu is `mode`: option 1 sets `flag_opt1` and leads to a loop (`"asks"`)
that only a signal ends (`Interrupt`), unless an invalid option before has set `flag`, which
keeps the client in the menu; a user without rights is in that loop for good (`"user"`).
Input that is no number leaves `std::cin` failed and the question repeated for ever
(`InputFails`).

An image is saved, loaded again by its name and filtered while other sessions may do the same, in
files of the same name. `ImageDirectory` has that file by file; here it is that `FilterThrows` is
possible, with a good image too, once another session has saved or filtered meanwhile (`met`), that
an image which is none may pass for one, and that `SendImage` may answer with an error while
a result is being rewritten. Which results there are when the server starts is open (`results`).

A client's `write()` of a file ends early when the client is ended in it, or when a signal interrupts it
whose handler returns: all but `SIGTSTP` (`client.cpp` 416-429). The client then goes on (`SendData`
with fewer than all pieces, `cutShort`), and what it sends next is the rest of the file to the
server. The server's own `write()`s are not cut short: their threads are not the main
thread, which the kernel prefers for a signal to the process and which never writes to a session.

The histories `ending`, `cutShort`, `swallowed` and `met` say why a session went wrong, so that the
properties can say that everything else is sound. A client that ends because it cannot parse a
reply (`"misread"`) or use a download (`"unusable"`) is told from one that its user has ended (`"left"`).

Assumptions: a message or a size word is received whole; a list of supplies is below
`MAX_MESSAGE_LENGTH`; data that was received before a reset is read before the reset is
seen; `SIGPIPE` is ignored, as the HTTP library arranges. Clients are those of `client.cpp`. The commands no
such client sends (`end_conn`, an unknown one) have no step. The server's end by signal
or emergency is RefugeServer's and left out, so whatever ends it here is the sessions'.

### ImageDirectory

A file is `Absent`, `Whole(i)` of image `i`, `Cut(i)` from its opening until its closing and
after the end of the process in between, or `Mixed` when two sessions had it open at once and
each wrote on from where it was. `FilterCommand` is command 3 from `decompressFile()` on: save the
image, `imread()` it again by its name, write the results in the order of the filter.
`DownloadCommand` is `compressFile()` of a result: its size is taken first, the content
read later. `LoadFails` is the exception of `cannyEdgeDetection()`, whose catch block calls
`end_conn()` under all other sessions. `clash`, `met` and `damaged` are history: they say when
two sessions met in a file, so that the properties can say that everything else is sound.
`imread()` of a file that is not whole gives no image, or image 0: one nobody sent.

### EdgeDetection

`ParallelLoop` has the team of a loop, the static schedule that gives each thread a block of
its iterations and the barrier at its end. A nested `parallel for` runs in the thread that
meets it, as OpenMP has nested parallelism off by default, so its reduction adds to the shared
variables once and at the end. That of `blur_accum` alone is an atomic addition (`Reduce`), a
compare-and-swap. That of `gx` and `gy` takes the runtime's lock (`Lock`), under which each of the
two is loaded (`LoadSum`), added to and stored (`AddSum`): the lock keeps other reductions out
but not other threads' plain resets, and a reset between load and store is lost. The reads and resets of `gx`, `gy` and `blur_accum` around
it are steps of their own, as is each half of `kaccum += ...`. Iterations that touch nothing
but their own pixel (borders, thresholds, suppression) commute and are one step.

The arithmetic is data: `Weights`, `BlurSums` and `Gradients` are constants, chosen for TLC so that
every subset of them has a sum of its own. What the sums of the gradients make of an image is left open:
`Suppress` starts from any of `Images`, with the directions in eighths of a turn. From there on
the code is followed to the number: the normalization that stretches the directions, the
sectors of the angles, the conversion to a byte, the thresholds, and `checkContours()`
with its recursion as a stack of calls and its two nested loops as the pixels in `sides`.
`strongEdges` is a matrix of floats accessed as bools; its rows still hold a byte of its own for each pixel.

### Connections

For each address family: a socket, bound and listening, connections the system has made
and `accept()` has not returned, open sessions, and whether the system still holds connections
of an earlier process, which makes `bind()` fail as the library does not set `SO_REUSEADDR`. Whatever
`bind()` and `connect()` throw leaves the thread and ends the process (`EndProcess`). The second
family starts a second after the first, which `MayStart` takes for long enough: it is what
makes `ComesBack` true, as without it a process may open sessions of one family each time
before the other fails.

## 3. Runs

Run with `tlc -config <cfg> <module>`; every run explores its whole state space.

| Run | Instance | What it shows |
|---|---|---|
| `server_safety` | two workers, all requests that write plus `/supplies` and `/database`, one emergency listener, two kinds of supply, fresh or seeded database, a queue of one message | `PermitExcludes`, `CopyIsCurrent`, `ReportConsistent`, `LeakedOnlyByFailedSet`, `FailureNeedsCause`, and that the server implements `RefugeStore` and `HttpService` |
| `server_restarts` | one worker with complete `/setsupplies`, two listeners, three processes one after the other, two keys, a queue of one message | what a crash between any two steps leaves: `OrderlyEndLeavesNoQueue`, `EmergencyHandledOnce`, `StaleOnlyAfterKill`; the proofs' inductive invariants (`ProofInvariant`); `ImplementsStore` over crash and restart |
| `server_guarded` | only complete `/setsupplies`, two sensors, three alerts | when all users ask for the permit: `AlertsConserved`, `EmergencyEndsServer` |
| `server_liveness` | `/alert` and incomplete bodies too | `EmergencyEndsUnlessLeaked` |
| `server_leak` | violation | a failing `/setsupplies` loses the permit and the emergency ends nothing |
| `session_pair` | two clients, one upload each, files in one piece | `EndNeedsCause`, `AbortNeedsCause`, `UsesHttp`, `ServedUnlessSwallowed` |
| `session_streams` | one client, three uploads, one of a file that cannot be filtered, files in three pieces | `RepliesInStep`, `FilesIntact`, `LeavingFreesThread`, `ServedUnlessSwallowed`; the inductive invariant of the proofs (`Inductive`) |
| `session_readable` | violation | message and size word received as one: the server aborts |
| `image_directory` | two sessions, three images, two results, an image with the name of a result, two processes | `BrokenNeedsCause`, `OwnImageUnlessMet`, `FilterRepairs`, `DownloadsWhole`; `Inductive` |
| `edge_detection` | one or two threads; nine cells, three pixels per convolution; images of 4 by 4 with magnitudes below, between and above the thresholds and above a byte | `QuietIsClean`, `AloneIsExact`, `NormalizationDefined`, `CallsInBounds`, `LinkingIsThreshold`, `StrongestSurvives`, `FilterEnds`; `ProofInvariant` |
| `edge_weak` | violation | a weak pixel without a strong neighbour is kept |
| `connections` | two families, two faults, two sessions and two waiting connections each | `ComesBack`; `Inductive` |

**Bounds.** `MaxAlerts` (alerts in one process), `MaxRuns` (processes), `QueueCap`
(messages the queue holds), `MaxUploads` and `Chunks` (images per client and pieces per
image). Two workers are the least with which a request meets another; the semaphore,
the lock and the queue treat a third like the second. A queue of one message is full as
soon as the other module has sent, so both modules block in the runs that use it. Three
processes and two keys are the least with which a queue a killed process leaves passes by an
orderly one to the next; `sentIn` tells whose a message is. Two uploads are needed for a file to
be followed by another one and by a command, a third for one to follow a file cut short; two pieces for
a file to be cut, three for it to be cut in two places. The shapes of the streams are those of each
session by itself, so one session has them all; two meet at the database, the permit and the
directory, for which an upload each in one piece is enough. What a crash of `/initdb` leaves, a database with
some of its keys, is in the proofs and in no run. Three images are two
that meet and one that comes after; the first and the last result are the ends of the sequence
that two filters may interleave. Two threads are the least that share a variable, three
pixels give one of them a second iteration; an image of 4 by 4 has four inner pixels with all
kinds of borders, and the walk, which goes up and left only, crosses all of it. `MaxFaults` bounds
how often the process is ended by something else, after which it must come back.
Symmetry is used for workers, listeners, keys or sessions in safety runs only.

**Fairness.** Weak fairness of every thread: the operating system schedules them all.
Nothing is owed by clients, users, signals, crashes or whoever restarts the server, and
nothing is strongly fair. As `std::counting_semaphore` keeps no order among those who
wait, the emergency's listener is promised the permit only if others do not take it for
ever: `OthersLeaveIt` is the premise of the two emergency properties. In the sessions,
the server's and the client's own steps are weakly fair and the user's choices are not.
In the filter some thread of the team goes on while one can (`WF_vars(Next)`), which is less than
the fairness of each: all of them must reach the end. In Connections the operator starts the server
again and the system lets connections go in the end; clients owe nothing.

**Deadlock** is not checked: a process that ended is not always started again, clients
leave, and a lost permit is a blocked state the properties name.

## 4. Proofs

Eight modules: `tlapm` on each of `SumLemmas`, `RefugeServerDbProofs`, `RefugeServerProofs`,
`RefugeServerServiceProofs`, `ImageDirectoryProofs`, `ConnectionsProofs`, `ClientSessionProofs`
and `EdgeDetectionProofs`. Every theorem holds for all values of the constants that
satisfy the assumptions their modules name (`DataAssumption`, `QueueAssumption`, `ServerAssumption`,
`TeamAssumption`, ...): any number of workers, clients, sessions and threads, any capacity
of the queue, any kernel and any image. Each component has an inductive invariant, which a run checks
before it is proved; the properties follow from it. Every invariant and every action property the
passing runs check is the statement of a theorem.

**SumLemmas.** `CountedAlerts` and the weight of a kernel are sums over a set, and the library's
induction theorems cannot be used on them, as they take an operator for a parameter. The lemmas go by
smallest counterexamples: the subsets of a finite set are well-founded under inclusion, so of
those for which a claim is false one has no proper subset for which it is (`SmallestSubset`).
Hence the recursion inside the library's fold has a value at each finite set (`SumsExist`), any
element may be taken out of a sum first (`SumRemove`), and a sum of naturals grows with its set
(`SumMonotone`).

**RefugeServer.** `Inductive` conjoins the types with
- `PermitExcludes` and `PermitAccounted` (a thread between acquire and release means no
  permit is left): the second is what makes `Acquire` keep the first;
- `WrapperScoped`: the lock's holder is exactly the thread inside the code that opened
  it. From it follows that nobody else can `put()` while a copy is out, which makes
- `CopyIsCurrent` inductive although readers and `/initdb` never take the semaphore;
- `RequestShape` and `MessageShape`: what kind of request a worker can serve at each point.

`Invariance` proves it with one lemma per action (`RefugeServerDbProofs` for those that
use the database). From it follow `TypeCorrect`, `SemaphoreExcludes`,
`WrappersAreScoped`, `CopiesAreCurrent`, `GuardedNeverCollide`, and
`LostOnlyByFailedSet`; `ImplementsTheStore` shows step by step that each `put()` is an
operation of `RefugeStore` on the current store, using `CopyIsCurrent`, and everything
else a stutter. `QueueShape` (a process without its queue has a thread about to exit; nothing is in a
removed queue or in one whose identifier is 0, under whatever key) is a second inductive
invariant, for `OrderlyEnd` and `FailureHasCause`: a sender gives up where the queue is gone, and
then an `end_conn()` is under way, or where the identifier is 0, and then there was never
anything in the queue. `LeftByKilled` is a third: whatever lies in a queue of any key was sent in this
run or in one that was killed, as every other end of a process leaves its queue empty.
`StaleAfterKill` is one step from it, for any number of processes and keys.

`RefugeServerServiceProofs` goes on from there.
- `ReportsAreConsistent`: what a `/database` has collected is of the current store, as whoever
  could change it would need the database open, which the report has (`WrapperScoped`).
- `EmergenciesHandledOnce`: `EmergencyShape` says that the emergencies in the queues of all keys and in the
  listeners' hands come from different runs, and that a run that has not sent its own is later
  than all of them. Messages are told apart by who sent them, so this is what keeps
  them apart across restarts on an inherited queue.
- `ImplementsTheService`: `RequestProgress` says that what a `/setsupplies` writes has been
  parsed and that a request is at its first section until it has the database open. With it every step is an
  answer, a failure that costs the permit, or a stutter of `HttpService`. That is safety: what is
  not answered without a permit, and how one is lost. That calls are answered is no part of it.
- `AlertsAreConserved`: the alerts counted, in a listener's hands and in the queue are those that
  were sent, in the first process on a seeded database. `GuardedKinds`, its hypothesis, is what `server_guarded`
  sets: no request but `/setsupplies`, all bodies complete. Then no listener meets
  anyone at the database (`GuardedMeetNobody`), every location keeps a counter, and a
  `WriteBack` of the listener adds one to one location's (`SumIncrement`). Without it
  alerts are lost, which is one of the findings.

**ImageDirectory.** `Undisturbed(s)` is what a session that no other has met can rely on at each
point: nobody else writes what it is about, what it measured is still there, the results it has
closed are its own. It makes the history variables carry the properties: `FiltersLoadTheirOwn`,
`FiltersRepair` and `DownloadsAreWhole` are one step from it. `BrokenNeedsCause` is inductive as it stands.

**ClientSession.** Three shapes per session. `StreamShape`: what the server has of a stream,
taken together with what is still on its way, is made of whole frames (command, size word, pieces), however `recv()` and
`read()` cut it. `RequestShape`: a request is the last unit of its stream, and the position of the
server agrees with what it has read. `ReplyShape`: as long as the client is there, the reply it waits
for, or the request that asks for it, is all that is on its way. None of the three holds of a client that
went on after a `write()` cut short, so `SessionShape` asks nothing of such a session but that it
has sent a file, and the properties make an exception of it; the others share no stream with it. `FilesArriveIntact` follows from the first,
`RepliesStayInStep` from the last; `ServerEndsWithCause` and `ServerAbortsWithCause` say that a
process that ends has one of the listed causes. For the first the causes are a client that is gone,
a file that is no image or was cut short, and another session that saved or filtered meanwhile, which
`met` keeps until the thread's own filter is done; the second takes `RequestShape`: without an
upload every message is read alone. `UsesTheService` maps each step to a call of `HttpService` or a
stutter. Together with `ImplementsTheService` it is a proof that the sessions' view of the HTTP
server is what the server does.

**Connections.** `TypeCorrect` is the agreement of each family's socket with its counters: what is
waiting or open belongs to a family that listens. `InductiveHolds` adds the order of the families
(`OpenedInOrder`). `FailuresRunOut` is the safety part of `ComesBack`: a `bind()` that throws
closes sessions of families before its own only, so connections are left anew to those before one that
has some already, and the last of the families that hold the server up is never a
new one. That this comes to an end is liveness and stays with TLC.

**EdgeDetection.** The lemmas on the static schedule come first, over `\div` and `%`: the blocks of
a team follow each other (`BlockOrder`), cover the loop (`BlockCover`) and stay in it (`BlockEnd`). The
parts of the invariant rest on them.
- `ConvolutionShape`: a shared sum that is not 0 has a thread that will set it back
  (`SumsAreReset`), which gives `SumsAreClean`. The thread that holds the lock of a reduction is one of them,
  and will be for both variables, so the reset it loses is made up for by its own; there is one such thread at most
  (`LockShape`). So a thread that finds nobody inside begins with sums of
  0, and as long as it meets nobody, from the lock to its last reset, they are those of its own
  pixel as far as it has added them (`AloneShape`, `UnderLock`), which gives `ExactUnlessOverlapped`. That no other thread stores the same pixel is `BlocksDiffer`; that
  one thread alone is always exact takes the step `HeldIsExact` again. `kaccum` is positive (`KernelShape`), as every write of it adds a positive
  cell to a value that was 0 or more, and the first thread's block is never empty.
- `WeightShape`: `kaccum`, and what a thread has read of it, is at most the weight of the cells that
  are done, and exactly that in a team of one. A write adds a cell that was not done (`BlocksDiffer`), to
  something that was at most the rest. At the end of the loop these are cells of the kernel, so
  `NormalizationIsDefined`.
- `TrackingShape`: `CallsShape` has the calls of a walk start at the pixel of the iteration and go on
  from weak pixels only; weak pixels are inner pixels, since the suppression leaves 0 on the border
  and the low threshold is positive, so the pixel up and left of one is in
  the image. `WalkShape` has each call one pixel up and left of the one before, which
  is done with all its sides; so a walk is no longer than the image has rows, or columns,
  and the stack of the recursion no deeper: `WalkStaysInside`. An iteration that has ended leaves its pixel weak or cleared
  (`Linked`), no other walk undoes that, and with `BlockCover` and `PixelAtOnto` all
  pixels are linked at the barrier: `LinkingIsLowThreshold`. For `StrongestKept` the prover is shown that every stretched direction falls
  in a sector (`AngleShape`), so a pixel is compared with two pixels of the image
  (`NeighborsInGrid`) and the strongest is a local maximum whichever they are.

`FilterRunsOut` is the safety part of `FilterEnds`. What is left to do is counted by loops, the iterations of
each thread and a bound on the steps of the one it is in (`StepsLeft`: the loads, additions, reads and resets of a pixel;
four steps for each row a walk can still go up, and one for each call that is open). These are natural numbers (`WorkIsBounded`), and
every step ends a loop, or takes from those of one thread and leaves the others' as
they are (`WorkAlwaysFalls`). So the filter takes finitely many steps, whatever the order of the threads and wherever walks
cross. That it does not stop before the end is `FilterEnds`, which TLC checks.

**Only model-checked** is liveness (`EmergencyEndsServer`, `EmergencyEndsUnlessLeaked`,
`LeavingFreesThread`, `ServedUnlessSwallowed`, `FilterEnds`, `ComesBack`): its proofs need `ENABLED`.
`WorkIsBounded`, `WorkAlwaysFalls` and `LeftOnlyByLater` are proved and in no run: the runs check
what they are steps towards, `FilterEnds` and `ComesBack`.

## 5. Findings

Listed with quotations of the documents in `PROJECT.json`. Runs show three of them: the permit lost
by a failing `/setsupplies` (`server_leak`), the server aborting on two messages received
as one (`session_readable`), weak pixels kept without a strong neighbour (`edge_weak`). The models
have the others as behaviours that the passing properties make exception of:
alerts dropped uncounted (`Abandon` by the listener); sections reported under absent keys
(`CollectSection`); the queue inherited from a killed process (`CreateQueue`); the command
swallowed after an upload (`swallowed`); the file that a signal cut short (`cutShort`); the identifier 0 taken for an
error (`SendFails`, of which `FailureNeedsCause` makes its exception); pixels spoilt by threads that overlap (`inexact`); angles taken from
normalized directions (`Angle`); magnitudes that wrap (`Byte`).

## 6. Not modelled

- The floating point of the Canny filter: kernel, sums and angles are data or integers.
- Logging and file helpers, build and scripts: no state another part reads.
- `delete_()` and `getAllKeys()` of the wrapper, the UDP sockets, the automatic choice of a
  port, `get_image()`, `SatelliteImageWrapper`: no caller.
- I/O errors of RocksDB, a full disk, `std::bad_alloc`.
- Answers longer than `MAX_MESSAGE_LENGTH` (10000 bytes), of which the client would show the
  rest as its next answer; the commands no client sends.
- The compressed copies in `img_svr/`, which nobody reads, and the client's own directory, which
  one client uses alone.

## 7. Plan

Models: answers longer than `MAX_MESSAGE_LENGTH`, which a client would show in pieces.
