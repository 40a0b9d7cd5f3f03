# Face_perception: TLA+ models, checks and proofs

The repository is an attendance system. A device at the door recognises a
person and sends name and number to a small HTTP server; the first request of
a person is the arrival, every later one the departure, and the server keeps
the working time. This directory models the C++ under `src/` that carries
this logic. Line numbers without a file name are those of
`src/server/server_http.h`.

## The system

| Component | Source | State | Operations | Hard behaviour |
|---|---|---|---|---|
| Process | `server_http.cpp`, `get_sock` 661-697, `Accept` 608-657, `exec_get*` 257-277, 354-373, `send_header` 230-256 | descriptor table, a detached thread per connection | listen, accept, start a thread, answer with a file or a CGI program, close | exhaustion, reuse of descriptor numbers, error paths that go on |
| Attendance book | `send_vector` 539-605 and its helpers | `vector<user_node> v`, `size`, one global mutex, localtime's static `struct tm` | look up, sign in, sign out, print | scan and update without the mutex, iterators into a vector that reallocates |
| Working time | `calculat_work_time` 113-132 | four counters of a record | add a span, carry | boundaries, repeated departures, a clock set back |
| CGI execution | `exec_cgi` 391-529 | the socket and two pipes a request, a child process | pipe, fork, redirect, relay body and output, wait, close | inherited sockets and pipe ends, full pipes, silent clients, SIGPIPE, zombies |
| Request reading | `get_line` 198-228, loops 264-268, 381-390, 411-417 | a line buffer, one byte of look-ahead | read a line, skip the head | terminators, lines as long as the buffer, end of stream |
| Request parsing | `get_path_method_query` 307-353, `get_comm` 279-305, `get_string` 55-79, `Content-Length` 413-416 | none | split a line, split a query, read a number | empty parts, more blanks or fewer than expected |
| epoll server | `server/server.h`, `server.cpp` | epoll set, `static int connfd`, a detached thread per event | wait, accept, start a thread, read a request, send a file, close | edge triggering, the shared `connfd`, lines that arrive in pieces |
| Terminal clients | `client/` | one socket | connect, send lines, quit | reconnects the same socket after "quit" |
| CGI programs | `cgi_bin/` | `show_data`, an array of rows | print a page | environment variables never set, input never read |
| Mysql class | `mysql/mysql.h` | a connection, a result | insert, show_table | more columns than a row has strings; the server's calls are commented out |

How they interact: `main` accepts and gives the socket to a thread. The thread
reads the request line (request reading), parses it, and either sends a file
or calls `exec_post`, which first books the visit (attendance book, which calls
the working time) and then runs the CGI program (CGI execution). All threads
share the book, its mutex, the static `struct tm` and the descriptor table; a
child process shares whatever sockets and pipe ends were open when it was
forked. The CGI program `data_base_show` prints a table through the Mysql class.
The epoll server is a second, independent server for the terminal clients; it
sends files only.

What makes each part correct, in one line each: the book holds one record per
person with its first and last visit; no second of working time is lost; every CGI
request is relayed whole, its child reaped and its client hung up on; `get_line`
returns every byte of a head once; a thread uses and closes its own descriptors
and leaves none open; the visit that is booked is the one the request spells; the
page shows the table; the epoll server accepts every connection and answers each
on its own. Not all of that is true of the code; the sections below say what is,
and under which conditions.

## Modules

| Module | Contents |
|---|---|
| `Attendance` | the book under concurrent requests |
| `AttendanceBook` | what the book promises to a person whose requests meet no other |
| `AttendanceProofs`, `BookProofs` | theorems about `Attendance`: its invariants, and what ends it and what it implements |
| `WorkTime`, `WorkTimeProofs` | the carry loop, and its theorems |
| `CgiRelay`, `CgiRelayProofs` | sockets, pipes and processes of a CGI request, and its theorems |
| `HttpServer`, `HttpServerProofs` | accept, threads and the descriptor table, and its theorems |
| `RequestReader`, `RequestReaderProofs` | `get_line` and the loops over the head, and its theorems |
| `QueryParse` | the string functions, as operators |
| `MysqlTable` | the Mysql class and the page made of its table |
| `PageRequest`, `PageRequestProofs` | one request as text, from its line to its page; composes the two above, and its theorems |
| `EpollServer`, `EpollServerProofs` | the second server and the terminal clients, and its theorems |
| `MC*` | instances for TLC |

A definition whose name is that of another with an underscore and a mistake,
such as `FindEnd_BeforeLast`, is not part of a specification. It is the
definition after it with one plausible mistake, and putting it in the place of
that definition makes TLC report the property listed with it in `PROJECT.json`.
Names such as `get_comm`, `inter_link` or `local_time` are those of the source.

### Attendance

A thread is one request. `pc` names the statement it is at. A critical section is
a `Lock` step and a body that unlocks; every access to shared state outside the
mutex is a step of its own, and that is most of them: the whole scan of `find_id`
(`TakeBegin`, `FindMatch`, `Advance`, `FindEnd`), the two evaluations of `v.end()`
(`ReturnEnd`, `Test`), and the branch for an existing record (`Mktime`,
`StoreEnd`, `StoreLeave`, `AddSpan`, `StoreWork`). The lock sections that touch
nothing shared (`get_string`, `get_total_string`, `int_to_string`, the empty one
at 584-589) are one action, `PrivateSection`; the `assert` in front of the one in
`get_string`, which ends the process when the query is empty, is
`GetStringAborts`.

A `vector` iterator is a block and a position. A block is named by its
capacity, since each reallocation has a new one, and an iterator dangles when
its block is not the current one. A `push_back` without room is not one step
for the threads that scan without the mutex: `StampArrival` begins it,
`PushBack` ends it, and in between (`Moving`) the old elements have been emptied
or freed while `v.begin()` and `v.end()` are still the old ones. A record that
an iterator cannot reach any more, because its storage is being moved or was
freed, is `Gone`: its strings compare in any way, so a scan can pass its own
person's record and come to the old end (`FindEnd`), writes to it are lost, or
following it ends the process (`UseAfterFree`). The vector's three pointers
change together; a scan that reads a new begin with an old end is not modelled.
`leave_time` is a `std::string` assigned without the mutex: when another thread
touches the same one, the two accesses happen in either order or the process
ends (`LeaveTimeRace`). A string that is half one value and half the other is
not modelled.

Strings are abstract: a person is a (name, id) pair, a time string the instant
it denotes. The clock is a counter bounded by `MaxClock`; `Tick` moves it at
any moment. `mktime` normalises `*T` in place, so `StoreEnd` also writes `tm`.
`worked` is the credited time in seconds; `WorkTime` has its four fields. Two
threads inside the carry loop of one record could mix its iterations; no
property checked with concurrency looks at `worked`.

History variables: `counted` (requests whose `find_id` found nothing), `met`
(who else was in flight while a request was), `moved` (requests in flight while
another's `push_back` reallocated) and `blind` (those whose scan ended during
that). `MaxInFlight` bounds TLC's instances only; no theorem has a hypothesis on
it.

`AttendanceBook` is the book as a person sees it whose requests are `Quiet`, in
flight beside no other request of anybody: the first visit is the arrival, a
later one replaces the departure before it, and the span is the time between
the two. For people whose requests have met others it promises nothing
(`Unknown`); `Interfere` lets go of them. It says nothing of the total that
`calculat_work_time` accumulates, which is not the time difference
(`AttendanceTotal`).

### WorkTime

One record, `MaxCalls` departures, any of `Differences` at each. An action is
one iteration of the loop, so the nesting of the tests in the source (the hour
is tested every minute) is in the model.

### CgiRelay

`open[p]` is the set of descriptors that process `p` has open, one being a pair of
a request and an end: its client's socket or one of the four pipe ends. `Fork`
copies the server's whole set to the child: that is where one request's child gets
another request's ends and sockets, and only `ProgramExits` takes them away from
it. Before it come `Accept` (or `AcceptFails`: `accept` or `pthread_create`
returns an error, so does `main`, and the process ends), the head with the visit
to the book (`ReadHead`, `BookAborts`), and the four `send` calls of the header
lines (`SendHeaders`, `HeadersRefused`). Blocking is a guard: `write` needs room
and a reader, `read` needs a byte or no writer, `recv` and the `send` of output
need a client that responds (`Responds`). A client may leave (`Disconnect`) or, in
the head, in the body or while it is answered, fall silent (`Stall`), which is
both sending no more and reading no more: the code has no timeout. `Waits` names
the threads that wait for such a client, or for room in a pipe whose program does
not read. A write without a reader, or a `send` to a client that has gone, is
SIGPIPE, which the server does not handle (`BodyRefused`, `HeadersRefused`,
`OutputRefused`); a thread whose `fork` fails calls `exit(1)` (`ForkFails`). A
program writes up to `MaxOutput` bytes, may read its input and need not, and
exits. The trace lines after `dup2` go down the pipe (`ChildLogs`). The request is
over when `Accept` of the source has closed the socket.

### HttpServer

`GetSock` takes the listener's number, or fails and `main` returns.
`table` says what each descriptor number stands for and `fd[c]` what the
locals of a thread say. Allocation takes the lowest free number. `Closing` lists
the `close` calls of a thread in order; a close acts on the number in the
local, whatever the table has there by then. The error paths are those of the
code: `fclose(NULL)` ends the process (`OpenStreamFails`: no descriptor is left,
or `stat` accepted what `fopen` does not, a directory without `index.html` or a
file without read permission), a failed `pipe()` is logged and
`exec_cgi` goes on with `{0,0}` or with numbers it has closed, a failed
`accept`, for want of a descriptor or for its connection's sake, or a failed
`pthread_create` returns from `main`.

### RequestReader

A request is the lengths of its head's lines, their terminator, the length of its
body, and whether the client closes afterwards. A step is one `recv`. Of a byte
only what `get_line` tests is kept. `top` is the highest index of the buffer that
was written to. The end of the stream is `RecvNothing`: `recv` returns 0, `ch`
keeps its value, and in the middle of a line the loop spins.

### QueryParse, MysqlTable, PageRequest

`QueryParse` is the loops of the string functions as operators on texts. A word
whose letters no loop looks at (`GET`, `/show`) is one character, and so are the
blank (`sp`) and the line feed (`nl`). A loop that looks for a character is `First`,
one that skips some is `Past`. What the code
does with positions is kept: the length that `get_comm` returns leaves out the
blanks it skipped, `get_string` tests the character it leaves and, for the end
of the text, the one after it, and the number of `Content-Length` is read from
the second character behind the colon. The table itself is external; its rows
are copied one at a time into `out`, the strings of `show_data` one behind the
other, so that a row with more columns than `ROW` runs into the next one.
Writing behind an array ends the program or is lost.

`PageRequest` puts them together: parse the line, and either send a file (or end
the server, when `stat` finds what `fopen` does not open: `SendFileAborts`) or
book the visit, read the head, and run the program that the path names. `show`
ends at line 52 of `show.cpp` always: `exec_cgi` puts `REQUEST_METHOD:GET`, with
a colon, into the environment, and `show` asks for `REQUEST_STRING`. What the
booking does is `Attendance`'s, how the bytes arrive is `RequestReader`'s, and how
they are relayed is `CgiRelay`'s matter.

### EpollServer

A connection is named by its client, `table` says what each descriptor number
stands for, and `inbox[c]` holds the bytes that have arrived. `ready` is the
kernel's ready list: `Edge` puts a descriptor there once, however much has
happened to it since. `EpollWait` moves it to `batch`, the events that
`epoll_et` works through: one `accept` for an event of the listener, a thread for
any other, which is given `connfd` and not the descriptor of the event. `of`
and `for` in a thread's locals remember whose connection the number was and
whose event it is. A thread's steps are single `recv`s; as sockets do not block,
`recv` without a byte leaves `ch` as it was, which ends a line that has not
begun and turns on the spot in one that has. A request is answered with a file
or not at all: the CGI branch is commented out (212).

`mishaps` collects what has happened that a property must except: connections
that arrived `together`, events that were `dropped`, a `full` descriptor table,
`connfd` given away `twice`, a thread that works for a `stranger`.

## Fairness

* `Attendance`, `CgiRelay`: weak fairness of each thread's (and child's) own
  steps. The kernel schedules every runnable thread. `Attendance`
  needs no strong fairness for the mutex in the checked instances: a request
  locks it a bounded number of times, so the others run out. No query has to be
  empty: `GetStringAborts` is not among the steps that fairness forces (`Proceed`).
* No fairness of arrivals, of clients leaving, of failures, or of a program
  reading its input: no code makes them happen. A program that can write or
  exit does so. A client that has not fallen silent goes on sending and reading,
  which is what weak fairness of the thread's `recv` and `send` steps says; it may
  fall silent at any of them. Whoever is held up for good, by a thread that
  `Waits` or by what its program has inherited, is excepted by name in the
  properties of `CgiRelay` (`HeldUp`).
* `EpollServer`: weak fairness of the loop, of each thread, and of the second
  `connect` of a client that has quit, which fails at once.
* `HttpServer` and `PageRequest` have no fairness and only safety properties.
* `RequestReader`: `get_line` goes on while bytes, or the end of the stream,
  are there. A silent client is a state where it may stay for ever.
* `WorkTime`: a call that has begun runs on; nothing in it waits.

## Runs

| Run | Bounds | What it shows |
|---|---|---|
| `AttendanceConcurrent` | 2 requests, 4 people of whom 0 to 3 have signed in before, clock to 1 | types; two records of a person need two of that person's requests in flight together or a scan that ends in a reallocation; a match stays a match; `size` covers the records; only owners, or who met them, update; the process ends for one of three reasons; the refinement to `AttendanceBook`; every request ends unless the process dies |
| `AttendanceDuplicate` | 2 requests | two records of one person (finding) |
| `AttendanceStamp` | 2 requests, clock to 1 | a sign-in stamped with another request's time (finding) |
| `AttendanceTotal` | 3 requests one at a time | a second departure is credited twice (finding) |
| `WorkTime` | 3 departures, 12 differences around every carry, three of them negative | quotients and remainders; nothing lost or given back; every call returns |
| `HttpScarce` | 3 clients of any kinds, 11 descriptors | numbers are the thread's own; only `send_header` leaks; with enough room only a path that cannot be opened ends the process by `fclose(NULL)` |
| `CgiTwo` | a POST with a body of up to 2 bytes and a GET whose client may leave, either client may fall silent; pipes of 1, output of up to 2 | end of file means the program has ended; nothing stays open; programs keep their reader; the server ends for the reasons named; both are answered, hung up on and reaped unless a thread that waits for good holds them up |
| `CgiZombie` | the same, and no client leaves | a child that is never reaped although no client is silent (finding) |
| `ReaderAny` | three terminators, up to 3 lines of 0 to 7 bytes, buffer of 4 | pieces, end of the head, body left intact; short lines fit; complete requests are served |
| `EpollTwo` | 2 clients, one with a request (in one piece, or in two) and one with a terminal line (or nothing), 2 threads, 8 descriptors | a thread's numbers stay its own until `connfd` is given away twice; a stranger's connection is one accepted later; who is accepted; a whole request is answered |
| `PageText` | the 364 queries of up to 5 characters out of 3, up to 2 blanks before and between the words, 3 methods, 8 paths (of which a file and an index cannot be opened), numbers of up to 2 digits; tables of 3 to 5 columns and up to 3 rows, room for 2 rows of 4 | a GET books the visit its query spells; the length read is the one declared; each row shown is its own |
| `PostBooking` | the same | a POST books the empty name (finding) |

Why the bounds are enough for what they show. Two requests suffice for each race
on a record; the earlier records make a scan longer than one step and let a
push_back reallocate under it (one or two records) or not (three). The safety
properties of that run are proved for any number of requests. A pipe that fills
makes writers wait, and one of capacity 1 fills at once; what matters for
inherited ends is who forks between whose `accept`, `pipe` and `close`, and two
requests have every order of these. A body of twice the pipe leaves a byte that
the program has to read. Eleven descriptors are enough for one CGI request after a
leaked page (4 + 1 + 5 and one to spare) and not for two at a time. Lines up to
twice the buffer contain every case of a length modulo the buffer. Two epoll
clients have every order of two accepts, two events and two threads; eight
descriptors are two connections and a file, or a full table. Five characters are
the shortest query with all its parts and one to spare; the loops look at one
character and the next. A table one column narrower than a row, as wide, and one
wider, with one row more than there is room for, has every way in which rows meet
in the array.

Symmetry is used for invariants only, never in a run with a liveness property.

## What the runs say about the code

Holds: a person none of whose requests is in flight beside another has the book
of `AttendanceBook`, whatever the server does for others at other times (except
for what is meant by total time, below). With any concurrency a person's records
are duplicated only by that person's own overlapping requests or by a scan that
comes to the end while another request's `push_back` is moving the storage, and
no record is ever removed. A request ends the process by an empty query, by
another's reallocation under it, or by two requests at one `leave_time`, and not
otherwise. CGI relaying does not deadlock through inherited ends alone: it takes
a client that keeps silent or a body that does not fit its pipe and is not
read, and those hold up their own thread and whoever's ends their program has
inherited. Descriptors are handled cleanly until a `pipe()` fails; afterwards
`exec_cgi` closes numbers it does not own, and `OwnDescriptors` says nothing.
A GET that gets to a program books the visit its query spells, however many
blanks are about. `get_line` writes one byte behind its buffer at most, and not
even that for lines shorter than the buffer. Rows of
a table that is too wide are written over each other's first cell in the
right order, so the finished page is still right. The epoll server answers a
whole request unless its client leaves or one of the mishaps occurs, and with
the static `connfd` one occurs as soon as there are two events after one
accept, be it two clients at a time or one that sends twice.

Does not hold (each a violation run and a finding with the comment it
contradicts): no duplicate insertion (93); `start_time` is the sign-in (19);
total time is the time difference (573); no zombies (526); a POST's name and card
number are kept (532, 546).

The zombie of `CgiZombie` takes two requests and no silent client. A POST's
program is forked while the server still has the write end of a GET's output
open, and inherits it. The POST's thread fills the program's input and waits in
`write` (516) before it has read any output; the program has filled its output
and waits too. The GET's program has ended, but its thread never reads end of
file (520), since the POST's program still holds that write end, and never
reaches `waitpid` (527).

## What is proved

Proofs are checked by TLAPS for every value of the constants, from the named
assumptions of each module: `NoThread \notin Threads` and natural bounds in
`Attendance`; integer differences in `WorkTime`; in `CgiRelay` that posts and
impatient clients are requests, the server is not, and the bounds are natural
numbers; in `MysqlTable` that the array has at least one row and one column, and
that a table is a number of columns and a sequence of at most `MaxRows` rows; in
`PageRequest` that the words of a request are not blank and hold no end of a text,
that the part before the `?` has no other one, and that each text of `Decimal` is
one that `atoi`, which is external, reads as its number; in `HttpServer` and
`EpollServer` that the clients are finitely many, that the name for nobody (the
listening socket) is not one of them, and that the descriptor table holds at least
what is open before the first `accept`; in `EpollServer` that what a client sends
is a sequence of segments of bytes; in `RequestReader` that the buffer has room
for one byte and its end, and that a line has a terminator. No theorem assumes
anything about how many requests are in flight.

* `AttendanceProofs`. `Shape` is the type invariant with what a step needs to stay
  in it: `Len(v) <= cap`, iterators stay within their block, and a thread's
  iterator is on a record where the code dereferences it. `TypeOK` alone is not
  inductive, since a write through an iterator outside the vector would not be
  typed. `Scans` says what a scan has established: every record it has passed is
  not the person's, or was pushed by a request of the person that it met, unless
  the storage was moving when it ended (`blind`); and a match is the person's own.
  `Shape /\ Scans` is inductive, and gives `DuplicatesNeedRace`,
  `FoundRecordIsOwn` and `OnlyOwnerUpdates`. The lemmas `StepFrame`, `OthersScan`
  and `OwnScan` split a step into what it does to the other threads' scans and to
  its own. `SizeCoversRecords` needs the requests that have been counted and have
  not compared their iterator yet (`Pending`), since those push later: `Covered`
  is inductive with `Shape` and `Scans`. That `Pending` is finite is part of
  `Covered`, so no assumption on the number of requests is needed.
* `WorkTimeProofs`. `Conserved` is inductive given the types. `MatchesDivision`
  needs it together with the ranges and `SecInRangeAlways`, which also shows that
  seconds are never negative when no difference is.
* `CgiRelayProofs`. `IInv` is `TypeOK`, `Progress` and `EndsHeld`. `Progress` says
  where a request's thread and its child are relative to each other, with
  `EofMeansFinished` as one of its parts; `EndsHeld` ties each process's
  descriptors to that: which ends a child must hold until it exits, and which the
  server has after which step. `EofMeansFinished` alone is not inductive, since
  the end of file needs every holder of the write end gone, and that the request's
  own child is one of them until it exits is `EndsHeld`. The lemmas follow what a
  step does to the descriptors: `ServerStepIInv` for those that open or close some
  of the server's, `ChildStep` and `EndStep` for a child's, `QuietStep` for the
  rest. From `IInv` follow `OutputHasReader`, `NoEndLeaks` and `DiesForAReason`.
* `BookProofs`. `Movers` says that only a request under which another's
  `push_back` has moved the storage holds an iterator into freed storage: with
  `Shape` and `Scans` it is inductive, and gives `DiesForAReason`. `Timely` says
  what being alone gives to a request that has met no other: it pushes where its
  scan found nothing and writes where it matched, the static `struct tm` still
  holds its time wherever the code formats or stores it, and that time is the
  latest of all. From it follow `QuietAreSound`, one record a person and a
  `start_time` that is the arrival, for people whose requests met no other, and
  the refinement: for such a person `PushBack` and `StoreEnd` are the visits of
  `AttendanceBook`, an arriving request that ends somebody's being alone is
  `Interfere`, and every other step is a stutter. `Entry` takes a departure's
  `leave_time` from the thread that is about to store it, so that the two stores
  of a departure are one visit.
* `HttpServerProofs`. `Reaches` and `Reached` are `OwnDescriptors` and
  `OnlyPagesLeak` variable by variable: while no `pipe()` has failed, a number in
  a local that is open is the thread's own, and a thread's descriptor is in the
  local that it will close. `Listener` holds after a `pipe()` has failed, too: the
  descriptor of the listener is above 2 and in no local that anybody still closes.
  `RoomSuffices` needs a count that survives all later steps: `FullTable`, true
  when a call has failed for want of a descriptor, says that four, five for each
  of the most requests ever in flight, and the pages that nobody can close any
  more (`Kept`, which only grows) fill the table. `Kept` and not `Leaked`, since a
  thread that a failed `pipe()` has left with stale numbers may close somebody's
  page. `FcloseForAReason` keeps why `fclose(NULL)` has ended the process.
* `EpollServerProofs`. `Numbers`: as long as `connfd` was not given away twice,
  threads have sockets and files of their own (`OwnSocks`, `OwnFiles`), no two the
  same (`SocksApart`, `FilesApart`), and `connfd`, until it is handed on, is the
  connection accepted last and nobody's (`ConnfdFresh`). So an `accept` gets a
  number no thread works on. `Strangers` follows the order of `accepted`: a thread
  is given the connection accepted last, and its event's is earlier (`Events`).
* `RequestReaderProofs`. `Fits`: no more than the room left in the buffer comes
  before the next terminator, since any `BufSize - 1` bytes still unread have one
  among them. `Where` says where in its request the server is: in line `k` with
  `r` bytes of it unread (`At`), behind the head, or done. In the head the texts
  returned, the pieces of the line that is being read and those of the later lines
  are together all the pieces; with short lines the number of lines returned is `k
  - 1`. `HeadLast` says that only the last line is empty. Together they give
  `LinesArePieces`, `HeadEndsAtBlank` and `BodyIntact`. The lemmas `FlattenFirst`
  and `FlattenFrom` take `FlattenSeq`, which is defined from the end, apart from
  the front; `NumbersOneByOne` is induction stated of a set, from the least number
  missing in it, which is what they are proved with.
* `PageRequestProofs`. `IInv` adds to `RowsShown` what the array holds before the
  first row (`Untouched`) and between two rows (`Copied`): each copied row has its
  own first columns, and the columns the table lacks are empty. `RowsShown` alone
  says nothing before the page is printed. The lemmas `RowBehind` and `CellsApart`
  say that a row copied later has none of the shown strings of an earlier one, so
  that what overlaps is always overwritten. `Shape` bounds the two counters by
  what they count. `Parsed` says what the text of the request has been made of at
  each place of its thread: from the booking on, `visitor` is what `get_string`
  finds in the query that the line was parsed to. The rest are lemmas about the
  operators of `QueryParse`, on texts of any length: `FirstStops`, `PastStops` and
  `AfterEqualsStops` say where each loop ends (the `CHOOSE` of its definition has
  a value, by the least number there is), `FirstWord` what `get_comm` finds behind
  blanks, `SpelledIsRead` what `get_string` makes of a query that spells a name,
  `MethodAgain` that behind more than one leading blank the method is read as the
  url, so that no program is reached by a GET, `AtoiBehindBlanks` that blanks do
  not matter to a number; `LineParsed` and `HeadRead` put them together for a
  whole line, from which `VisitMatchesPage` and `LengthRead` follow.

Some definitions are written for the prover where another form is as close to
the source: `Close` of `EpollServer` cuts the closed descriptor out of the ready
list by its position, `Visit` of `AttendanceBook` builds the new record field by
field, the parts of a `Line` are put together from the last one on, and
`ValueOf` counts digits with a recursive function.

Only model-checked: liveness (`AllServed`, `Returns`, `HungUp`, `ZombiesReaped`,
`Served`, `AllAccepted`, `WholeAnswered`), which is out of the prover's reach.
Every invariant and every action property of a passing run is proved, and so is the
refinement.

## Not modelled, and why

* `mysql/mysql_lib`, the vendored headers of the MySQL client library: nine tenths
  of the lines under `src/` and none of this program's logic. The first-party code
  is about 1700 lines, so the share of all lines that the models cover is bound to
  stay small.
* `epoll_lt` (never called) and the branch of `epoll_et` without `DEBUG` (which
  `server.h:33` defines); `show.cpp` behind line 52 with `recv_str`, which is
  never reached; `mysql.cpp`, a test program that does not compile; `test.cpp`,
  build scripts, pages and binaries.
* Within the modelled parts: the bytes of files and headers, the text of the
  environment, a file that changes between `stat` and `fopen`, header lines that
  do not fit the buffer of a new socket (they are a few dozen bytes), strings that
  are half one value and half another under a data race, a scan that reads one of
  the vector's pointers before and one after a reallocation, words longer than
  their buffers, what is read from memory behind an array, and what the clients'
  user types.

## Plan

1. Done: `Attendance` with its abstract book and the window of a reallocation,
   `WorkTime`, `CgiRelay` from `accept` to the close with silent clients,
   `RequestReader`, `HttpServer`, `QueryParse` with `MysqlTable` and `PageRequest`,
   `EpollServer`.
2. Done: theorems about each of them, and the refinement `ImplementsBook` for
   people whose requests meet no other, with any number of requests in flight.
3. Done: the text of a request in `PageRequest`, from its characters to whom
   it books and what length is read.
4. Left: a vector whose three pointers change one at a time, and the threads of
   `CgiRelay` with `pipe()` failing, which `HttpServer` has without the pipes' bytes.
