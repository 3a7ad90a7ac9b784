# A TLA+ model of callfwd

`callfwd` answers, over HTTP and SIP, which routing number (RN) a phone number
(PN) is ported to. It serves from databases held in memory, which are replaced
while requests run; commands to replace them come from `callfwdctl` over a Unix
datagram socket owned by systemd. This directory holds TLA+ modules that model
the program, TLC runs that check them on small instances, and TLAPS proofs for
every size of instance. Paths below are relative to the repository.

## The system

| component | state | operations | interacts with |
|---|---|---|---|
| Global mapping pointers (`callfwd/Control.cpp:38-103`) | twelve atomic `Data*`, hazard pointers, the retired list of folly's hazard-pointer domain | `isAvailable`, `getUS`, `getCA`, ..., `Builder::commit`, `hazptr_cleanup` | every request reads, every reload writes |
| Phone mapping (`callfwd/PhoneMapping.cpp`) | hash table PN -> RN, PN column threaded by RN, RN index, cursor | `addRow`, `fromCSV`, `build`, `getRN(s)`, `inverseRNs`, `visitRows`, `advance` | handlers, `verify`, `dump` |
| Control socket (`callfwd/Control.cpp:646-890`) | descriptors of the last datagram, one detached thread per command, log sinks | `awaitMessage`, `dispatch` | `callfwdctl`, mappings, ACL |
| `callfwdctl` | the "current" symbolic links | one subcommand per command; `_make_request`, `_wait_response` | control socket |
| systemd units (`conf/`) | the listening socket, timers | restart on failure, minutely ACL and daily database reload | `callfwdctl`, the daemon |
| Other mappings: DNC, DNO, toll-free, LERG, Youmail, Geo, FTC, 404, 606 | one table each | the same Builder interface, a lookup | `/target` handler |
| ACL (`callfwd/ACL.cpp`) | rules per address: expiry, token bucket | `fromCSV`, `commit`, `isCallAllowed` | SIP handler |
| HTTP handlers (`callfwd/ApiHandler.cpp`) | per request: phones, body so far | `/target`, `/reverse` | mappings, access log |
| SIP handler (`callfwd/SipHandler.cpp`) | per socket and thread: buffer, parsed message, reply | `onDataAvailable` | ACL, mappings, access log |
| SIP parser (`lib/osips_parser`, from OpenSIPS) | `sip_msg`, the list of headers, read pointer and automaton states | `parse_msg`, `get_hdr_field`, `parse_via`, `parse_to`, `parse_uri`, `compare_uris` | called by the SIP handler for each datagram, in its receive buffer |
| Access log (`callfwd/AccessLog.cpp`) | global writer, formatters | rotation on SIGHUP, one line per response | handlers |
| Daemon (`callfwd/CallFwd.cpp`) | HTTP server, SIP server, control thread | start, serve, stop on a signal | all of the above |
| STIR service (`stir/`), a process of its own | keys, per connection: request, body, answer | signing and verification of PASSporTs | none of the above |

What is hard here is concurrency on the globals (requests in all I/O threads,
reloads in detached threads, reclamation of memory that somebody may be
reading), descriptor numbers shared by concurrent commands, failures of a
command half way, crashes with commands queued, log rotation under load, and
hand-written automata that take text apart byte by byte in a buffer that still
holds older text. `PROJECT.json` lists these hazards line by line with the
properties that cover them.

What makes each part correct:

* globals: no use after free, one snapshot per mapping object, one owner per
  object, loaded stays loaded, replaced databases are freed;
* engine: a cursor hands out exactly the rows asked for, in order, and ends;
* control plane: a command works on its own files, its answer is true, it comes,
  nothing leaks, and a reload leaves its current link naming what is in service;
* verify and dump: they speak of one mapping, the one they started with;
* handlers: one answer per request, with the status it deserves, taken from
  databases and rules that were in force while it was handled;
* ACL: expired and unlisted peers are refused, budgets hold across handlers;
* DNO and LERG: lookups by leading digits agree with the file in service;
* the other tables: a number finds its own record and no other, however query and
  file spell it, and a file with a broken row never gets into service;
* SIP parser: it stays inside the datagram, every line is one header, the parts
  of URI, Via and To are found again, and parsing ends;
* access log: one line per request, and no line is lost by a rotation or a stop;
* STIR: a call passes only if the service has signed a token for it in time, and
  then it does; the process survives what clients post.

## Modules

**`SnapshotStore`** is the abstract promise of the globals: a store of file
contents from which a reader takes an immutable snapshot in one step.

**`MappingStore`** is the code that keeps this promise. An action is one atomic
access: `IsAvailable` (the test before a handler is made), `LoadPtr`,
`SetHazard`, `Validate` (the three accesses of `get_protected`), `Use`
(`getRNs`, a cursor step), `Destroy`; and for a reload `StartLoad`, `FailLoad`,
`Exchange` (`Builder::commit`), `Retire`, `Steal`, `Scan`, `Reclaim`
(`folly::hazptr_cleanup`). `Avail[g]` is the set of globals `isAvailable()`
tests: both US and CA for the phone mappings, the mapping itself for others.
Addresses are reused, so the ABA case is met: an object is freed and a new one
built at the same address between the two loads of `get_protected`. folly is not
in the repository; its part (`SetHazard`, `Validate`, `Scan`, `Reclaim`) is
external, modelled from how the code uses it. The model is sequentially
consistent, as folly's asymmetric fences make the slot writes and the scan.

**`PhoneMapping`** is the engine. Rows come one at a time (`AddRow`), a row can
be refused (`RefuseRow`: duplicate key, too many rows) or be malformed
(`BadRow`), `Build` sorts and threads the columns, and a cursor is opened
(`inverseRNs`, `visitRows`) and read to the end (`advance`), as `sendBody` and
`dumpMappingFile` do. `MAXROWS` is both row limit and end mark, as in the code;
the 34-bit width of `PhoneList::phone` is `PhoneMod`.

**`Control`** is the control plane: clients, the datagram queue, the descriptor
table of the daemon, `argfd_` and the threads' copies of it, log sinks, the
globals (named by the client whose file they hold), and the current links.
`callfwdctl` moves a link only if it was called with `--update` and found a
candidate (`link` of a request; each DNO command may have one of its own), after the
answer S, in three steps: `TestLink` (`os.path.exists`, which follows the link),
`Unlink` and `Symlink`. A file that a link names may be removed meanwhile
(`RemoveFile`): the link is then still there, `exists` says no, and `symlink` raises.
Reloads that overlap may also take the link from each other.
Descriptor numbers are given lowest first, as the kernel does. The loaders
differ in what their parsers throw and what they catch; `Loader` keeps exactly
that. `Log` is a log line of any thread, which every sink writes to its
descriptor number. A `verify` or `dump` of a mapping never loaded dereferences
null (`Crash`); systemd restarts the daemon and its socket keeps the queue.
It assumes datagrams that carry descriptors (as all of `callfwdctl`'s do) and a
descriptor table with room for them: what the code does with the stale `argfd_` when
none came (`Control.cpp:748-756`) is outside the model.

**`VerifyDump`** looks inside `verifyMappingFile` and `dumpMappingFile`, row by
row, with reloads in between. A file has well-formed, short (one column; the
code then reads past the end of the row) and unparsable lines, and its last line
may lack the newline: then `peek()` throws, except when the line completes a
chunk of `Chunk` (10000) lines.

**`SipHandler`** is `SipHandler.cpp` with `ACL.cpp`: a handler per event loop
takes a datagram (`Receive`, `Drop`), tests the mappings and the method
(`Dispatch`), fetches the ACL (`GetAcl`), asks it (`isCallAllowed`), looks the
number up in the US and then in the CA mapping, answers and logs (`Finish`).
Reloads and the clock (`Tick`) come between any two steps. A committed ACL keeps
its buckets while a handler refers to it. `fromCSV` keeps the reuse of one `Rule`
for all rows: its expiry is emptied by the move, its bucket is not.
`folly::TokenBucket` is external: it earns the rate per second up to the burst,
and its `reset` keeps the level it had, up to the new burst. A rate is a `double` of
calls per second; tokens are counted in fractions of a call, `Unit` of which pay for
one, so that rates such as 1.5 and the burst of at least one whole call
(`ACL.cpp:77`) are met. Rates of zero, below zero and NaN are left out: folly's bucket
asks for a positive rate. All numbers called are one to the mappings, which are known
by what they answer.

**`ApiHandler`** is one HTTP request: the factories (`Make`), `TargetHandler`,
`ReverseHandler` and proxygen's direct response up to the query, a body that
comes in pieces of any size (`onBody`, `onEOM`), the availability flags sampled
one by one and the mappings asked one by one (`Sample`, `Lookup`), or the two
mapping objects of `/reverse` and its buffered rows (`GetMapping`, `OpenCursor`,
`sendRow`), and the end in `requestComplete` or `onError` through the filter of
the access log. A batch lookup and an open cursor read one database; that is
`SingleSnapshot` and `CursorComplete` of the modules above. The rows of one routing
number come in the order of the file (`Place`). The nine optional
mappings have the same control and are the sequence `Optional`; only `lerg` is
searched by another key. A mapping whose flag was false when it was sampled is
not asked, even if it has been loaded since. Output formats are left out.

A handler that the access log wraps is never deleted when its request completes
(`Completed`): the filter does not forward `requestComplete`.

**`TableRows`** is how DNC, toll-free, Youmail, Geo, FTC, 404 and 606 read a line:
which lines are passed over, how many columns are asked for, which one is the
key, what is cut off from it, and which columns are read on even if the row has
not got them. **`CsvMapping`** is the life of all mappings but the phone mapping:
concurrent commands read files line by line into Builders of their own and
commit them, with their metadata; DNO has rows of four granularities and LERG
rows of two, and both cut a number by division. `fromString` is
`PhoneNumber::fromString`, by which callers write numbers. Numbers have one digit
of a small base for each group of the code's digits, letters and punctuation one
character each. Files end with a newline (what happens if they do not is in
`VerifyDump`). A DNC line with characters but without digits is number 0; one of
nothing but commas, or empty, leaves the number uninitialised (`DncMapping.cpp:157-161`),
so a line carries the `junk` that the variable may hold. The index LERG's `build()`
sorts is never read and is left out.

**`SipScanner`**, **`SipVia`**, **`SipTo`**, **`SipNames`**, **`SipUri`** and
**`SipMessage`** are the part of the SIP parser that a datagram goes through.
`SipScanner` is the receive buffer: the datagram, what an older and longer one
left behind it, and then NULs; a byte is a one-character string. Each automaton
of the code is an action per byte with one table per `case` of its switch, and
keeps the code's state names and quirks (the states `ALIAS1` to `ALIAS4` of
`parse_via.c` have the numbers of final states, and are those states).
`SipNames` is the four-bytes-at-a-time name comparison of `parse_hname2.c`, and
`SipMessage` the first line, the header loop, CSeq, Content-Length, methods and
the hooks of `sip_msg`. No datagram holds a NUL byte, and a Content-Length of
more than nine digits may or may not be refused. Functions of these files
that nothing calls (`parse_fline.c:87-1141`, cloning of headers) are left out.

**`SipContact`** is the rest of the library that takes addresses apart:
`contact_iterator` over the Contact headers of a parsed message, `parse_contacts`
(name, URI, parameters) and the parameters of `parse_param.c`. **`UriCompare`** is
`compare_uris` with the escaping of user names. Both are library code that is built
into the program and that the daemon never calls.

**`Passport`** and **`StirApi`** are the STIR service. `Passport` is what
`makePassport` signs and every check of `verifyPassport` in its order, on
identities whose parts stand for what decoding makes of them; a signature is the
key and the text it was made from. A document that is posted for verification is
`Possible`: it has the service's signature only on what the service has signed,
and its values are of JSON's types. An `origid` is whether its text up to a NUL is
a UUID, which is all that `uuid_parse` sees (`StirApiTypes.cpp:141`), and a rest behind
it, which `makePassport` formats into the payload without escaping
(`Passport.cpp:52-54`); the rest stands for what it makes the payload decode to.
`StirApi` is the request from its head to its
answer: the limit on the body, which is sampled from Content-Length in 32 bits,
the validation of both documents, the clock, key files that may be missing, and
exceptions that leave a `noexcept` callback and end the process. A JSON array
taken out of a document is the sequence of its elements in order. Of folly, which is
not in the repository, the model takes that `parseJson` throws `ConversionError`, which
is no `parse_error`, for an integer beyond int64; that `operator[]` of a `dynamic` that
is not const adds a null for a missing key of an object and throws for anything but
an object.

**`AccessLog`** is the daemon from start to stop and its log: the main thread
starts the control socket, binds, opens the log, serves, handles SIGHUP (open,
exchange, flush and retire) and on SIGTERM joins the workers and closes the log;
workers protect the writer with a hazard pointer and hand it a line; the writer's
own thread puts lines into the file it has open; logrotate moves files away. The
writer (`folly::AsyncFileWriter`) is external.

**`MCMappingStore`**, **`MCControl`**, **`MCSipHandler`**, **`MCApiHandler`**,
**`MCCsvMapping`**, **`MCSipMessage`** and **`MCStirApi`** give constants their
values and symmetry sets for TLC. `MCSipMessage` puts well-formed messages
together from parts, so that the parser's result can be compared with them, and
composes `SipMessage`, `SipContact` and `UriCompare`.

**`MappingStore_proofs`**, **`PhoneMapping_proofs`**, **`Control_proofs`**,
**`VerifyDump_proofs`**, **`SipHandler_proofs`**, **`ApiHandler_proofs`**,
**`CsvMapping_proofs`** and **`StirApi_proofs`** hold the theorems about the module
they are named after.

Operators whose name has a suffix and whose comment begins with "Mutant" are
deliberate errors that no specification uses; each is used to see that a
property notices it.

## Runs

| run | instance | checks |
|---|---|---|
| `store` | 1 mapping, 1 reader, 2 loaders, 3 addresses, 2 files | `TypeOK`, `NoUseAfterFree`, `SingleSnapshot`, `SingleOwner`, `AvailabilityIsStable`, `ImplementsStore` (refinement), `RetiredIsReclaimed` |
| `phone_mapping` | files of up to 4 rows of 5 phones and 2 RNs, batch of 2 | `CursorComplete`, `CursorCloses` |
| `control` | 2 commands of 16 kinds, 2 links, files removed, crashes and restarts | `OwnDescriptors`, `AnswerIsTrue`, `LinkFollowsService`, `OnlyUnanswerableLeaks`, `EveryRequestAnswered`, `QueueSurvivesCrash` |
| `verify_dump` | mappings of up to 2 rows, files of up to 3 lines | `MatchIsNeverRefused`, `AcceptedIsClose`, `DumpIsSnapshot` |
| `sip_handler` | 2 handlers, 1 peer, 2 loads of 2 ACL files, a rate of 1.5 calls a second, 2 versions of the US mapping, 2 datagrams, 1 second | `VerdictInForce`, `BudgetHolds`, `RouteInForce` |
| `api_handler` | one request of every kind, US, CA and one optional mapping of 2 versions each, bodies up to one unit over the limit | `StatusIsRight`, `LinesAreTrue`, `ReverseIsExact`, `WholeRequestAnswered` |
| `csv_mapping` | 2 threads, 2 loads of files of up to 2 lines of each of the ten kinds | `DnoIsExact`, `LergIsMostSpecific`, `TablesAreExact`, `NoBrokenFile` |
| `sip_parser` | 1287 datagrams: requests with well-formed URIs, Via bodies (alone and in pairs), To bodies and contacts, blanks and line folds of several kinds, and odd and cut-off ones; 122 URIs in pairs | `ReadsOnlyTheDatagram`, `EveryLineIsAHeader`, `ReplyHeadersAreFirst`, `UriIsExact`, `ViasAreExact`, `AddressesAreExact`, `MatchesBothWays`, `ParsingEnds` |
| `stir` | 2 connections, 2 requests out of good documents and copies with one thing wrong, 3 clock values, validity of 1 | `PassedIffSigned`, `RequestsEnd` |
| `access_log` | 2 HTTP requests and a SIP request, 2 rotations | `LinesReachTheFile` |
| `control_dump` | reload, status, dump | `DumpIsClean`: **violated** |
| `sip_log` | 1 handler, 2 datagrams | `OneLinePerRequest`: **violated** |

To repeat one: `tlc -config store.cfg MCMappingStore`; the module of each
run is in `PROJECT.json`.

Bounds. Two loaders race on a pointer, a reader meets both, and three addresses
are one in service, one replaced and one being built, with reuse forced; the
proofs remove these bounds. Four rows over a batch of two make a cursor refill
twice, end on and off a batch boundary, and meet the row limit; the query bounds
lie below, on, between and above the RNs. Two commands of any kind give every
pair, and a descriptor number closed by one and given to the other; a third
command is needed for the finding, and for a reload that runs by itself after two
that overlapped, over the link they left: that case is the proof's. Two rows and a difference limit of two
suffice for a file to differ in fewer rows than the limit, to reach it, and to
have more lines than the mapping. Two datagrams are enough for two handlers to
compete for the one call a bucket can pay for and for a handler to be used again; two
versions of a mapping, for a reload to fall before, between and after any two
lookups. A query longer than the limit, one of exactly the limit and one with a
parameter to ignore are among the requests; prefixes have one digit, all digits
and too many. Two lines hold a LERG block beside its exchange and a repeated key,
and a second load replaces what the first put in service, or fails to. The
datagrams reach every state and table of the automata, with the interesting
bytes next to each other and the end of the datagram after each part. Two
requests let a token be signed and then verified, also after it expired, with one
thing changed. Two rotations let a request hold a writer that was
replaced twice.

In `SipHandler` and `CsvMapping` the step `Exhausted`, in `ApiHandler` and
`SipMessage` `Done`, and in `StirApi` and `AccessLog` `Over` are the end of a
bounded run, so that anything stuck earlier is a deadlock. Only `phone_mapping`
turns deadlock checking off: a load that failed is over. The runs that end in
"violated" are the findings:

* `dispatch` closes the passed descriptors before its log sink is gone, so a log
  line can go into the file of a concurrent dump (`Control.cpp:847`, `README.md:45`);
* the log formatter of a SIP handler is never emptied, so each answer writes all
  earlier lines of that handler again (`AccessLog.cpp:43`, `README.md:60`).

The models also show where the documents promise more than the code does.
`verify` answers success when fewer than 100 rows differ and the counts agree,
which is what `AcceptedIsClose` states (`Control.cpp:589`, `README.md:44`).
Reloading the ACL, which a timer does every minute, starts new budgets
(`ACL.cpp:88`, `README.md:144`); `BudgetHolds` is about one ACL. OPTIONS is
answered 503 until both mappings are loaded (`SipHandler.cpp:75`,
`README.md:137`). An HTTP request that ends in `onError` is not logged
(`AccessLog.cpp:79`, `README.md:60`).

Seen while modelling, kept in the models as the code has it, and not the subject
of a run:

* control plane: `callfwdctl verify` raises `TypeError` because it lacks
  `row_size` (`callfwdctl:273`, `README.md:42-44`); a pipe from tar that dies early
  looks like the end of the file (`Control.cpp:158`); `argfd_` keeps the
  descriptors of the last datagram that had any (`Control.cpp:748`);
* mappings and ACL: a number beyond 34 bits is stored truncated
  (`PhoneMapping.cpp:26`); a Geo row of 19 columns and an FTC row of 5 are read past
  their end (`GeoMapping.cpp:161`), which is the exception in `NoBrokenFile`; an ACL
  row without a rate takes the bucket of the row before it (`ACL.cpp:63`);
* handlers: the SIP factory changes one vector from every worker without a lock
  (`SipHandler.cpp:198-206`); the message parsed is not freed
  (`SipHandler.cpp:101`), nor a body that is too long (`ApiHandler.cpp:424`), nor
  the handler of a logged request (`AccessLog.cpp:79`); the JSON answer of a number
  without a carrier record has two colons (`"ocn":: null`);
* parser: `Via\t:` is a header of type OTHER; a message of a single line is
  accepted, which the comment at `parse_fline.c:1289` calls invalid; the Via
  parameters a, al, ali and alia are typed as hidden, ttl, branch and maddr
  (`parse_via.c:102-105`); a comma in a quoted Via parameter value ends the Via; a
  line without a colon swallows the next; `sip:h;x;` records its last parameter
  twice, and a URI that ends inside "maddr" is refused; a display name folded
  behind its second word keeps the line end; Feature-Caps and Replaces with a blank
  before the colon are refused; `compare_uris` ignores the case of the user when
  it is given the text of both URIs and not when it is given parsed ones; a contact
  with a name and no angle brackets is read beyond its header, since its start is
  moved before its length is computed (`contact.c:151-152`); a backslash in a
  contact's URI in quotes is in force until a quote, bracket or backslash follows, and an
  escaped quote ends a quoted parameter value (`parse_param.c`);
* STIR: the first parameter behind `info` of an identity is split off with its
  semicolon and never taken for `ppt`, so a token with another `ppt` there passes
  (`Passport.cpp:160`), although the comment at `Passport.cpp:162` says that it is
  refused; parameters are not signed, and `PassedIffSigned` does not speak of them;
  `Passport.cpp:135` has `&&` where either failure should refuse; signing sorts
  the destinations, verification does not; a Content-Length beyond 32 bits counts as 0
  (`StirApiHandler.cpp:51`); the text behind a NUL in an `origid` is neither validated
  nor escaped; a token whose caller or destination is no object, or with an
  integer beyond int64, ends the process, also an `iat` of 2^63 or more that the
  service has signed itself, and so does a body with such an integer, which is reported
  with the name of a parameter before there is one (`StirApiTypes.cpp:121`). A caller
  without a number is answered 438.

`LinkFollowsService` speaks of a reload that no other one of the same mapping or link
interferes with while it runs. It may start from whatever overlapping reloads, refused
ones and crashes have left behind, and repairs it, unless the link names a file that is
gone. Overlapping reloads themselves may commit in one order and move the link in the
other; nothing in the repository says otherwise. A daemon that crashed is empty until
it is told to load.

## Fairness

* `MappingStore`: threads run, a request lets its mapping object go (handlers and
  commands are finite), reloads keep being started (the timers in `conf/`) and do
  not all fail: strong fairness of `Exchange`, since a load can fail each time.
  Nothing obliges requests to arrive.
* `PhoneMapping`: the thread that opened a cursor goes on advancing it; both
  callers are plain loops.
* `Control`: the control thread and the dispatch threads run, and systemd
  restarts the daemon (`Restart=on-failure`). Clients may never send.
* `SipMessage`: the parser runs to its end on the thread that called it.
* `StirApi`: the event loop of a connection runs the callback that is due; clients
  may stop sending.
* `AccessLog`: workers that protect a writer hand it their line, and the writer's
  thread goes on writing. The main thread, signals and clients need do nothing.
* `ApiHandler`: an event loop runs a handler until it returns. Clients may stop
  sending, and a connection may break or not.

## Proofs

The runs check small instances; the theorems hold for every value of the
constants that satisfies the assumptions named in the modules. Nothing is
assumed but those: what a constant is (a number, a set of rows), that stand-ins
for "nothing" are no values, that ten-digit numbers fit 34 bits
(`WidthAssumption`), that the descriptor table has room for all requests, that a
bucket without a limit is larger than the number of datagrams, that the longest
spelling of a number is short enough to be read (`MaxText`, 30 characters in the
code), that white space and punctuation are no other characters, and in
`ApiAssumption` that a prefix of n digits is a number below `Base^n` and that the US
and CA databases are finite.

Each proof has the same shape. The property is not inductive; the module's `IInv`
is, and implies it. There is one lemma per action, `Invariance` combines them, and
the other theorems follow. TLC has checked each `IInv` on the instance of its run
(in `PhoneMapping` on files of three rows).

| module | theorem | property |
|---|---|---|
| `MappingStore_proofs` | `TypeCorrect`, `ReadersAreSafe`, `SnapshotsAreSingle`, `OwnersAreSingle`, `AvailabilityStable`, `Refinement` | `TypeOK`, `NoUseAfterFree`, `SingleSnapshot`, `SingleOwner`, `AvailabilityIsStable`, `ImplementsStore` |
| `PhoneMapping_proofs` | `CursorsAreComplete` | `CursorComplete` |
| `Control_proofs` | `CommandsOwnTheirDescriptors`, `AnswersAreTrue`, `LinksFollowService`, `AnsweredLeakNothing` | `OwnDescriptors`, `AnswerIsTrue`, `LinkFollowsService`, `OnlyUnanswerableLeaks` |
| `VerifyDump_proofs` | `MatchesAreAccepted`, `AcceptedFilesAreClose`, `DumpsAreSnapshots` | `MatchIsNeverRefused`, `AcceptedIsClose`, `DumpIsSnapshot` |
| `SipHandler_proofs` | `VerdictsAreInForce`, `BudgetsHold`, `RoutesAreInForce` | `VerdictInForce`, `BudgetHolds`, `RouteInForce` |
| `ApiHandler_proofs` | `StatusesAreRight`, `LinesComeFromService`, `ReversesAreExact` | `StatusIsRight`, `LinesAreTrue`, `ReverseIsExact` |
| `CsvMapping_proofs` | `DnoExactness`, `LergSpecificity`, `TableExactness`, `NoBrokenFiles` | `DnoIsExact`, `LergIsMostSpecific`, `TablesAreExact`, `NoBrokenFile` |
| `StirApi_proofs` | `PassedCallsWereSigned` | `PassedIffSigned` |

**`MappingStore`.** `NoUseAfterFree` needs to know why a protected object is not
deleted, and that depends on how far each cleanup has got. `IInv` says

* `Published`, `LoaderOwns`, `LoadersApart`: the state of a heap cell tells who
  owns it, and owners are different (a global, a Builder, a veteran, the retired
  list, one cleanup);
* `ReaderSlots`: a reader's slot holds what its program counter says;
* `Protected`: what a reader uses is in its slot and is not free or private, and
  a cleanup that has taken the object and has already scanned this reader has
  seen it. This is the heart: a reader that validates after the scan would find
  the global changed, because the object was unlinked before it was retired and
  retired before it was taken;
* `Filled`: an owned object holds a file; `Answered`: what a reader has
  read so far is what its object holds.

**`PhoneMapping`.** `CursorComplete` compares what was read with the rows asked
for and says nothing of how the cursor finds its way. `IInv` says

* `Columns`: table and phone column list the same rows, each once; `Unbuilt`:
  before `build()` nothing is threaded;
* `Threaded`: there is one order of all rows, by routing number and then by place
  in the file, that `next` follows, and the index holds the place in it where each
  routing number begins. `build()` is only known to leave neighbours in order, so
  this rests on two arguments about numbers: neighbours in order make every pair
  in order, hence all positions different, and n different numbers below n are all
  of them (pigeonhole); and the first entries of the runs have a rank each, without
  gaps;
* `Progress`: an open cursor walks that order (or the file's, for `visitRows`);
  the rows asked for are one segment of the walk, found by the two binary
  searches; what has been read is the beginning of the segment, and the batch in
  the cursor holds the next row. A refill that stops at the end mark, at the batch
  size or at both leaves the cursor in this state again.

**`Control`.** A command finds its descriptors by number, and numbers are reused. `IInv`
says that an open descriptor was passed by the client it belongs to and has been
received (`OpenFds`), that a thread's numbers are open, different and its
client's (`ThreadFds`), that a datagram is queued once (`QueueOnce`), and that
clients and threads keep step (`Phases`). For the answers it says at each place
of the thread whether the file has been installed (`Installs`).

The links need to know what a reload by itself may rely on. `alone` is the set of
reloads that no conflicting one (of the same mapping or link) has overlapped, and
`Alone` says of each of them (`Solo`)

* that none it conflicts with has anything left to do, in the daemon or in
  `callfwdctl`, so that nobody else commits to its mapping or touches its link;
* that once it has committed (`Committed`) the mapping serves its file, or was lost in
  a crash;
* where its link stands at each of its steps (`LinkKnown`): still there when it is to be
  unlinked, not there or naming a file that is gone when it is to be made, naming
  its own file when it has been made.

Each step of another client either does not conflict, and then keeps all of this, or
takes the reload out of `alone`.

**`VerifyDump`.** `Dumped` and `Counted`: the file of a dump is the beginning of the
mapping taken, and `verify` has counted at least the wrong rows among those it has
seen, and nothing if there are none to count. The three properties are action
properties, about the step that answers.
`MatchIsNeverRefused` needs a file to have as many rows as a mapping it matches,
which is a bijection between their keys.

**`SipHandler`.** For each handler `IInv` says that what was fetched so far was in
force after its datagram came (`AclInForce`, `Verdict`, `Route`; `Forward` says
that versions only grow). `BudgetHolds` limits calls and says nothing of
tokens; the inductive form, `Paid`, is that the tokens paid to a bucket for calls and
those it has left never exceed its burst and what it earned since the ACL was
committed. A new bucket has at most its burst, whatever row it took it from, which
is a lemma about `fromCSV`.

**`ApiHandler`.** `StatusInv`: what has come of a body and what has not are the query
(`Collected`), only a query within limits is looked up (`Query`), and an answer is
sent only where no other callback sends one (`Once`). `LinesInv`: a flag that was
true stays true of its mapping (`Flags`), every column filled so far is what one
database in service since the request came answers, and carrier records are asked
for after routing numbers (`Looked`).

`ReverseInv` is about /reverse, which walks every range in the US and then in the CA
mapping and sends rows in pieces while mappings are replaced:

* `Getting`: each mapping got was loaded, and in service since the request came;
* `Walking`: what was sent, the record that is filled and what the cursor still has are,
  in this order, the rows of the walks begun; the walks that are not begun are the
  others. A flush moves rows from the second to the first, and opening the cursor
  appends the rows of one more walk;
* `TrueRows`: an answer has the rows of all walks.

That a walk is right rests on lemmas about the model's operators: `Power` multiplies
(`PowerProduct`), so the numbers of a `PrefixRange` are just those that start with the
prefix (`RangeIsPrefix`); `PrefixesOf` keeps the prefixes that fit, in order; a
concatenation of lists grows by one list at a time; and a finite set of rows has a sorted
listing (`SortedExists`), which `RowsWith` chooses.

**`CsvMapping`.** The properties compare what a query finds with the file whose
metadata is in service, so `IInv` relates dictionaries to files line by line:

* `Loading`: the Builder of a loading thread holds exactly the rows among the lines it
  has read, each under its key, and none of these lines was broken or repeated a key;
* `DnoServed`, `LergServed`, `TablesServed`: what is in service holds the rows of one
  whole file in the same way. A commit makes the one out of the other, a failed load
  throws its Builder away, and a crash leaves neither.

The rest is about what keys and texts mean. A number below `Base^4` has four digits, and
dividing by a weight cuts off the last ones (`Cuts`), so that equal keys of the DNO and
LERG dictionaries are equal leading digits. A line that is the record of a number is read
as a row with the key the number is looked up with (`RecordKey`), also where the country
code is erased or the exchange is the key; if it is read as the record of two numbers,
both have this key. Every spelling of a number is trimmed and copied without punctuation
into its digits, and no misspelling is taken for a number; `Unpunctuated` is a recursive
function, and what it copies is shown letter by letter.

**`StirApi`.** `IInv` says that all the service has signed came from documents that
its validation accepts, and that a verdict is that of `verifyPassport` on a
possible document. That `verifyPassport` passes only tokens that the service made, for
the call they speak of and in time, and passes those of plain requests, is proved by
going through its checks: with the service's signature on a payload the service made,
its claims are what `Speaks` says, and each later check is decided.

Model-checked only, and why:

* liveness (`RetiredIsReclaimed`, `CursorCloses`, `EveryRequestAnswered`,
  `QueueSurvivesCrash`, `WholeRequestAnswered`, `ParsingEnds`, `RequestsEnd`,
  `LinesReachTheFile`) is out of the prover's reach;
* the properties of the parser compare automata with messages put together from
  parts, byte by byte, which is an induction over data.

No module uses a RECURSIVE operator.

## Plan

Next, in this order:

1. Proofs: the safety half of `LinesReachTheFile` (a writer in use is not reclaimed) for
   any number of requests.
2. Composition: `SipHandler` and `ApiHandler` over `SnapshotStore` instead of
   versions, so that the refinement carries their properties down to pointers.

## Not modelled

* The rest of `lib/osips_parser`: SDP, multi-part bodies, the bodies of other
  headers, digests, cloning, hashing, statistics, memory and locking shims. It
  is linked, or not even compiled, and no function of the program calls it.
* proxygen, and folly beyond the hazard-pointer protocol, the token bucket and the
  file writer as the code uses them (`AsyncFileWriter` may discard lines when its
  buffer is full, which `LinesReachTheFile` does not speak of); cryptography and JSON.
* The choice of the newest update file and the tar pipes of `callfwdctl`; option
  values; answer texts and formats.
* Build files, packaging and test data: they have no behaviour at run time.
