# libRest in TLA+

libRest is a small C++ library for REST calls over libcurl. This directory
holds its specifications, the TLC runs that check them on small instances and
the proofs, checked by TLAPS, that some of the properties hold for every
instance. Source paths below are relative to `source/src/`.

## 1. The system

| part | source | state | operations |
|---|---|---|---|
| facade | RestAPIFacade.cpp/.h | the function-local static `shared_ptr` and its copies, the PIMPL | `GetInstance`, `CreateDeviceData`, `UpdateDeviceData`, `RemoveDeviceData`, `GetDeviceData`, `PostPollingData`, `SetCertificateAttributes`, destructor |
| request queue | CurlHttpWrapper.cpp 107-190 | `mHttpDataQueue`, `mHttpQueueMutex`, `cvHttpDataQueue`, `mActive` | `Start`, `Shutdown`, `PostData`, `UpdateDeviceData`, `RemoveDeviceData` |
| worker thread | 483-545 | its place in the loop, the payload it holds | first wait, loop test, fetch, `Post`/`Put`, second wait |
| shared easy handle | 192-378, 642-727 | `mCurl`'s options, `strHttpStatus`, `mPollingMutex`, the header list of each call | `Post`, `Put`, `PostPollingData`, `WriteCallback` |
| certificates | 547-640 | `cert`, the TLS options of `mCurl` | `SetCertificateAttributes`, `UpdateTLSInfo` |
| synchronous GET | 380-471 | `strHttpGetData`, one private easy handle per call | `GetData`, `GetWriteCallback` |
| construction, destruction | 14-105 | the members' lifetimes, libcurl's global state | constructor, `InitCurl`, destructor |
| security headers | 743-802 | the list under construction, libcurl's pointer to it | `addSecurityHeaders`, `FreeHeader` |
| Base64, SHA-256 | Base64.cpp, sha256.cpp | SHA-256 keeps a block buffer and two lengths | encode, decode; init, update, final |
| JSON reading | jsoncpp.cpp (vendored; not compiled) | `nodes_`, `errors_`, `features_` | `Reader::parse` |

How the parts interact. Client threads call the facade through a `shared_ptr`.
`CreateDeviceData` and `UpdateDeviceData` only push a payload under
`mHttpQueueMutex` and notify; the one worker thread pops payloads and performs
them on `mCurl`. `PostPollingData` performs a POST on the *same* `mCurl` on the
caller's own thread, under `mPollingMutex`, which the worker never takes.
`SetCertificateAttributes` sets options of the same `mCurl` with no lock.
`GetDeviceData` makes an easy handle of its own and shares only the response
buffer. libcurl calls back into `WriteCallback` and `GetWriteCallback` on the
thread that performs. When the last `shared_ptr` goes, the facade's destructor
calls `Shutdown`, and the wrapper's destructor joins the worker.

What is hard about it:

- *Waking and stopping the worker.* Two waits on one condition variable, an
  atomic flag read with and without the mutex, a destructor that joins.
- *One easy handle, three kinds of user*, of which only one kind locks.
  libcurl copies some option values and keeps the caller's pointer for others,
  so what a call leaves behind matters to the next.
- *Failure half way.* Every `setopt` can fail; a catch block then frees what was
  allocated and leaves the options as they are. Results are dropped at the facade.
- *Shared buffers* for the responses.
- *Allocations that fail.* `curl_slist_append` answers NULL and the code assigns it
  to the list it was building.
- *Recursion with a stack of its own.* The JSON reader recurses, and beside the calls
  keeps `nodes_`, which an exception leaves as it is.
- *Lifetimes.* The worker starts in the middle of the member initialisation, and
  `curl_global_cleanup` runs before the handle's own clean-up.

What makes each part correct:

- queue and worker: a request that was pushed is attempted exactly once and in
  order, or is still queued; no wakeup is lost; after `Shutdown` the worker stops
  within one transfer; members are destroyed after their last user;
- easy handle: a transfer uses nothing that a call before it left on the handle, a
  certificate in force is used whole, polling calls do not mix, and every path gives
  the mutex back;
- GET: a caller gets nothing of a GET that was over before its own, its own response
  and no more if nobody overlaps it, and its handle is closed, once;
- construction: nobody gets a facade that is not complete and started; libcurl is released after
  everybody's last use;
- headers: what goes out is a list that is allocated and this request's, and what was
  allocated is freed, but for a list that a failed append loses;
- codecs: decoding inverts encoding; the buffered hash sees the same blocks
  however the message is cut;
- JSON: what is accepted is a document, what is refused is not, and `nodes_` follows
  the recursion.

## 2. Modules

| module | models | kind |
|---|---|---|
| `RequestChannel` | what a caller of the queueing calls may rely on | abstract specification |
| `HttpWorker` | facade life, queue, worker | detailed, implements `RequestChannel` |
| `HandleCalls` | who is inside which call on the shared handle | abstract specification |
| `EasyHandle` | `Post`/`Put`, `PostPollingData`, certificates on `mCurl` | detailed, implements `HandleCalls` |
| `RestClient` | facade, queue, worker and handle together, release of libcurl | composition; implements `HttpWorker` and `HandleCalls` |
| `SecurityHeaders` | the header list node by node | detailed |
| `GetData` | synchronous GET | detailed |
| `Construction` | `GetInstance`, the member initialisers, the worker's start | detailed |
| `Sha256Stream` | buffering and padding of class `SHA256` | algorithm as a state machine |
| `Base64` | `base64_encode`, `base64_decode` | algorithm as a state machine |
| `JsonReader` | `Json::Reader::parse` over tokens | algorithm as a state machine |
| `XProofs`, for X all the detailed modules (`Sha256Stream`'s are in `SecurityHeadersProofs`) | | theorems |
| `MCX` | the sets of threads, bytes and flags used by TLC | model checking |

How they fit. `HandleCalls` is the seam: `EasyHandle` opens each of its calls up into
options and callbacks and is shown to implement it, and `RestClient` uses it to give
the worker's one step `Perform` a beginning and an end. `SecurityHeaders` looks inside
the list that is the one option `headers` in EasyHandle. `GetData` has a handle of its
own; in RestClient a GET is only a call that holds a `shared_ptr` for a while.

`HttpWorker` begins where `Construction` ends: with a complete wrapper whose worker
has not passed its first wait. That the code gets there is `LateReadyBeforeWork`,
for a worker whose first steps come after its mutex, flag and condition variable are
constructed; for one that is faster it does not hold (section 5).

An operator that no specification refers to (`FetchNoPop`, `PollWithoutLock`,
`KeepsNodes`, ...) is a deliberately wrong version of the one after it. Put in that
one's place it must break a property; that is how each property was seen to depend on
the code it is about. PROJECT.json pairs them.

### HttpWorker

State and code:

| variable | code |
|---|---|
| `mActive`, `mHttpDataQueue` | the members |
| `wpc`, `pl` | place in `HandleHttpRequest`; its local `pl` |
| `signalled` | the worker, blocked in `wait`, has been notified or woke spuriously |
| `life` | stage of the singleton: not built, built (thread running) but before `Start`, running, `~CurlHttpWrapper` before and after `join`, destroyed |
| `refs` | owners of the `shared_ptr` |
| `calls` | calls made, all of which returned SUCCESS |
| `accepted`, `attempted`, `atShutdown` | history |

Each critical section of `mHttpQueueMutex` is one action, and a wait is split
into the evaluation that blocks (`ReadyWait`, `IdleWait`) and the wakeup that
evaluates again (`ReadyWake`, `IdleWake`): evaluation and blocking are atomic to
anyone who holds the mutex, and everyone who changes the predicate does. The
loop test reads `mActive` outside the mutex, so `LoopTest` is an action of its
own. `Post` and `Put` are one action, `Perform`: EasyHandle opens it up.
A push may throw (`PushThrows`); the call returns SUCCESS all the same.
`RemoveDeviceData` returns SUCCESS and does nothing else (a TODO at cpp:165, while
CurlHttpWrapper.h:116 speaks of a "POST/PUT/DELTE Queue").
`Release` is any owner letting go; `Static` is the function-local static, which
lets go at process exit. A client that makes the last release *is* the thread
that runs the destructor.

Properties: `EachRequestOnceInOrder` (every accepted request is in exactly one of
*attempted*, *in the worker's hands*, *queued*, in order),
`NoLostWakeup`, `AtMostOneAfterShutdown`, `MembersOutliveUsers`; liveness
`PushedIsAttempted` and `DestructorReturns`; and `ImplementsChannel`, the
refinement of `RequestChannel` with its liveness.

`DestructorReturns` has a premise, that the worker is past its first wait, since
without it the property fails: see the finding `ReadySignalReceived`.

### EasyHandle

Every `curl_easy_setopt` is an action (`SetOption`, `SetOptionFails`), in the
code's order; `curl_easy_perform` is a beginning, any number of `WriteCallback`s
and an end. An option's value is abstracted to the *call* it came from. The
options `errbuf`, `headers` and `fields` are pointers libcurl follows until the
transfer ends, the others are copied: `OwnTransfer` therefore looks at the copy
taken at the beginning (`sent`) and at the handle during the transfer.
`UpdateTLSInfo` reads the member `cert`, not its argument, at each option
(`Value`). `lock_guard` on `mPollingMutex` is `LockPolling` and the `Unlock`
of `Return`. In `Certificate` the one field `strKeyType` feeds both
CURLOPT_SSLCERTTYPE and CURLOPT_SSLKEYTYPE (cpp:576, 597); the model keeps the two
options apart, their common source is not a state.

Copies outside the `try` blocks may throw: that of the certificate (cpp:549), after a
part of it, and those of the URL and the content in `PostPollingData` (649-650), with
the mutex held. The call then leaves by the stage `"throw"`. A copy that throws in the
worker (201, 295) ends the process, as no frame of the thread catches it, and is left out.

Calls overlap as the code lets them: it serialises pollers among themselves and nobody
else. An application cannot do better, since the worker performs at a time of its own
and tells nobody when it is done. What the code can still promise is relative to the
calls a call *met*, and three history variables say which those are: `met[u]` are the
calls that were on the handle at some moment of `u`'s, its own included; `settled` is
the certificate update in force, if it returned SUCCESS, no other overlapped it and none
was begun since; `before[u]` is `settled` when `u` came to the handle.

- `OwnTransfer`: the six options of a request are the transfer's own or of a call it met,
  at its beginning, and for the pointers during it. Nothing an earlier call left, half
  set or freed, is used.
- `StatusIsOwn`: likewise for the status that is logged.
- `PollersDoNotMix`: of other *polling* calls there is nothing, however the worker and
  the setters interfere: this is what `mPollingMutex` is for.
- `WholeCertificate`: a call that comes when an update is in force uses that certificate
  in all seven options, but for those an update that overlaps it sets. What a
  failed update left half set is used no more once a later one is in force.

A setopt is atomic here, and so is an access to `strHttpStatus`, `cert` or
`strHttpGetData`; two that really run at the same time are undefined behaviour, and
nothing is claimed about what they do. Every interleaving of whole calls to libcurl is in
the model. A pointer is abstracted to the call that set it: if that call met the transfer
and returned before its end, what it points to is dead, and `OwnTransfer` does not say so
(section 5). The violation `OwnUrlReceivesPost` needs none of this: in its counterexample
the libcurl calls merely alternate.

`ImplementsCalls` maps a thread's stage to outside, waiting or inside. Its fairness
half says that every call returns, so that no path, failed or not, keeps the mutex.

### RestClient

Two instances over one state: `Q` is HttpWorker, `H` is HandleCalls with the worker
thread as its worker and every client as poller and setter. An action is one of
theirs, or one of each: `SendReturns` is `H!Return` and `Q!Perform` together. New here
are `getting` (clients inside `GetDeviceData`), `direct` (the bound on calls that are
not queued) and `curl`, libcurl's life: `GlobalCleanup` is the end of the destructor's
body (cpp:69), `DestroyMembers` the deleter of `mCurl` after it.

A client calls through a `shared_ptr` and so lets go only between calls (`Free`); that
is C++'s rule for the object it calls on, and the reason why the destructor meets no
poller. It does meet the worker, and must wait for it: `CleanupIsAfterLastUse`.
`OnePollAtATime` says both that the mutex is held by exactly the poller that is inside
and, by leaving the worker out of it, that the worker does not wait for pollers.

That `curl_global_cleanup` comes before `curl_easy_cleanup` of `mCurl` is against
libcurl's rule that it is the last call. The states `"released"` and `"closed"` record
that order; what libcurl then does is libcurl's affair and no property speaks of it.

### SecurityHeaders

One thread's requests in sequence. A node is the request and append that allocated it
and what its text is. The two `try` blocks are `Encode` and `Hash`; an exception leaves
the strings after it empty. `headers = curl_slist_append(headers, ...)` is
`AppendHeader`: on failure libcurl returns NULL and leaves the list alone, and the
assignment forgets the list (cpp:779-794); the next append begins a new one.
`HTTPHEADER` is libcurl's pointer; freeing the list does not reset it.

`SuffixIsSent`: of a request's headers those after the last failed append go out, so
the content type is the last to be lost. `SentListIsLive` holds although the handle
keeps a dangling pointer between calls, because every call sets the option (to NULL,
if need be) before it performs. `OnlyFailedAppendsLeak` says exactly what is lost. The
catch block of the appends is not modelled: nothing in it throws. A header with an
empty text is a node like others, and libcurl's treatment of it is left out: the
member `key` is "", so "public_key: " is a header without content, which libcurl does
not send.

### GetData

The handle is private, so setting its options is one step that works or fails.
A piece of the response is abstracted to the call it answers. The callback
appends to the member, not to the caller's string; the string is assigned at the
end, after a failure too. The lambda `cleanCurl` gets a copy of the pointer:
`closed` counts clean-ups per call and a second one may end the process (`dead`).
`status` is what the wrapper returns; the facade drops it. String operations are
atomic; two that really overlap are undefined and outside the model.

`alone` and `met` are history variables: the threads whose latest GET no other
overlapped, and for each GET under way itself and those that overlapped it. A GET that
starts while another runs takes both out of `alone`. `LoneResponse`: a caller nobody
overlapped gets its own response, all that arrived and no more, whatever GETs before it
left in the buffer. `ResponseIsMet`: with overlap, in any chain of GETs, the caller's
string has pieces of the GETs it met only, never of one that was over before.

### Construction

`made` counts the members constructed, in the order of CurlHttpWrapper.h 77-120;
C++ initialises them in that order, whatever the initialiser list says. The fifth,
`mHttpThread`, starts the worker: its mutex, flag and condition variable follow.
The worker reaches its wait at any moment after that; the history variable `early`
records that the members it waits with did not exist yet. The code does not prevent
it. A worker that is not early is the schedule the code counts on, and the one a
machine mostly gives.

What the worker does with members that are raw memory is undefined behaviour, and
modelled as a choice: the raw flag reads as TRUE (`mActive' \in BOOLEAN` when the
object is allocated) and the worker passes, or as FALSE and it blocks, or the mutex
or condition variable is constructed under it and it is never woken (`"deaf"`).
`LateReadyBeforeWork` and `SignalArrives` therefore speak of a worker that is not
`early`.

The function-local static is `initialiser` (its guard) and `built`. An exception
from a member initialiser (`InitCurl` after `curl_global_init`, `std::thread`, the
queue's allocation) or from the body's log line destroys the members made so far, skips
the destructor's body, and leaves the guard free for the next caller; `failures` counts
them up to `MaxFailures`. Two things may end the process instead (`terminated`): a
`std::thread` that is destroyed while joinable calls `std::terminate`, so any exception
once the worker exists does; and the handler (cpp 53-57) logs through `mLogger`, which is
destroyed by then, so any other one may. `CallersServed` has that case. `Start` is taken
not to throw; if it did, the wrapper's destructor would join a worker nobody stops. `inits` counts
`curl_global_init`: once per construction tried, so more than the "exactly once"
of curl.h:2114 after a failure. libcurl counts initialisations itself, and nothing
in the program goes wrong by it.

### Sha256Stream

A cell of `m_block` holds byte *k* of the message, a zero, the mark 0x80, a byte of
the length field or whatever was in memory; `hashed` is the sequence of cells
`transform` was given, in place of the chaining value it computes from them. The
block size (64) and the number of values of an `unsigned int` (2^32) are constants,
so that a small instance has the block boundaries and the wrap of the length.
`Padded` is the padding of FIPS 180-2, written from its definition and not from
`final`: the message, one mark, zeros, and a length field of 64 bits. The library's
one call is `init`, one `update`, `final`; the class allows any number of updates,
and so does the model. The field written by `final` has 32 bits (sha256.cpp:143), so
`HashOfPadded` is a property of messages whose bit length fits the word: the run's
word holds 512 values and its messages 320 bits. With 2^29 bytes or more the
library's hash is not SHA-256's; it is only ever given a short token. `Reset` is `init`
on an object that was used before: the buffer keeps its old cells, and `HashOfPadded`
says that none is hashed.

### Base64

A pass of a loop is a step; `group` is `char_array_3` or `char_array_4` with `i` its
length, `Sextets` and `Octets` are the shifts and masks as quotients and remainders, and
the `% 256` of `Octets` is the width of `unsigned char`. `Find` is `base64_chars.find`
cut to an `unsigned char`: the '\0's that fill up the decoder's last group become 255.
A letter is its index; `Foreign` stands for any character outside the alphabet. A run
encodes a message and decodes the result, or decodes a text nobody has encoded.

`Encoding` and `Decoding` are RFC 4648 written from its bits: a text is a string of
bits, read again in characters of another width. They share nothing with `Sextets` and
`Octets`.

### JsonReader

The recursion of `readValue`, `readObject` and `readArray` is the stack `frames`; `stage`
is the place in the innermost one, `nodes` is `nodes_.size()`. A token stands for every
text `readToken` makes it of; `badString` and `badNumber` are those whose decoding fails.
The document is chosen as it is read and may end at any token; documents without NUL
bytes are assumed (`readToken` takes a NUL for the end). That holds of `parse` with two
pointers or a stream. The overload for a `std::string` (jsoncpp.cpp 321-328) copies
`capacity()` bytes, so the NUL that ends the string and what happens to lie behind it are
part of `document_`: a document that breaks off is then followed by an end and further
tokens, read by the recovery only. Those runs are not in the model. `Leave` is `current_--` for a
placeholder, and the look at the next character in `readArray`.

An exception (the stack limit, or `asCString` on a numeric name, which is what
`allowNumericKeys_` comes to: 702, 3090) leaves `nodes_` as it is, and the next `parse`
on the same Reader must not see it: two parses per Reader are in the run.

`Grammar` is JSON's grammar by length, for parses that met no comment and flags that do
not extend the language. It has the one liberty the Reader takes: after a member with
an empty name a comma may stand before "}" (692 tests `name.empty()` for "no member
yet"). `AcceptsDocuments` and `RefusesNoDocument` compare both ways, the second at the
first wrong token, so that an error is neither missed nor early.

## 3. Runs

| run | instance | states | shows |
|---|---|---|---|
| `http_worker` | 2 clients x 2 calls, fair | 84 k | type invariant, four safety properties, both liveness properties and the refinement of `RequestChannel` |
| `ready_signal` | 2 clients x 1 call, fair | | **violated**: `Start`, `Shutdown`, then the worker looks: it waits for ever |
| `easy_handle` | worker, 2 pollers, setter; one update that worked or threw, then 2 calls that overlap, fair | 0.35 M | what a call uses of the shared handle, its status and its certificate comes from no call that was over before, pollers do not mix, and the mutex is always given back |
| `own_url` | worker and poller, overlapping | | **violated**: a POST goes to the other call's URL |
| `rest_client` | 2 clients, 1 queueing call each, 2 direct calls, fair | 34 k | the parts together: the worker sends its payload, libcurl is released last, and the composition implements both parts with their fairness |
| `get_data` | 2 threads x 2 GETs, 2 pieces, overlapping | 0.9 M | every handle is closed; a GET that was not overlapped has its own response, any other nothing older than itself |
| `get_closed_once` | 2 threads x 1 GET | | **violated**: a failed GET cleans up twice |
| `construction` | 3 threads, 2 failures, fair | 5.4 k | nobody gets an unstarted facade or waits for ever; a worker that is not early waits for `Start` and gets its signal |
| `security_headers` | 2 requests, failures anywhere | 0.3 M | which headers go out, no freed list is followed, what leaks |
| `sha256_stream` | blocks of 12, messages up to 40, updates up to 27 | 7 k | no byte lost, the padding is that of FIPS 180-2 |
| `base64` | 5 bytes, 4 letters, '=' and a foreign one, length up to 5 | 95 k | encoding is RFC 4648's, decoding inverts it, any text is decoded to the whole bytes before its first foreign character |
| `json_reader` | 7 tokens, limit 2, 2 parses, 3 sets of flags, fair | 0.7 M | acceptance both ways, errors counted once, `nodes_` follows the recursion, every parse returns |

The type invariants are checked in `http_worker`, `sha256_stream` and
`security_headers`; those of the other modules are theorems.

Bounds, and why they are enough. `MaxCalls` bounds the calls of one thread. Two
clients with two calls give every order of two pushes by one client and between
two, a queue of up to four, a push at each point of the worker's lap, and a
shutdown with a backlog of up to four. For the easy handle the
first of three calls is taken from the initial states (`AfterFirstCall`: what a
successful update leaves on the handle, or what a polling call that threw at once does) and two
more overlap, or follow one another, in every way: a call that fails at any option and
one that comes after it, two pollers, a poller or an update beside the worker's transfer,
each with a certificate in force or without. All three calls in every order were searched
once with at most two of them overlapping (8.9 million states, nothing found): the run
keeps to what fits its time, and the theorems have no bound; for GET two calls per thread likewise, and two pieces are the
least that another call can come between. The composition needs one request in the
worker's hands, one queued behind it, and two direct calls: a poll that waits for a
poll, or a poll and a certificate update beside the worker's transfer. Two requests let
a second one meet the list pointer the first one left, and the ten appends of the two
may fail in any combination. Three callers are one
that constructs, one that waits at the guard while it throws, and one that comes
later; two failures are one at each of two initialisers that throw, or one twice. Blocks of
12 bytes leave two places (`m_len` of 10 and 11, beyond those that fit
with mark and length) where padding takes a second block; 40 bytes are three blocks
and a rest, and one update of 27 fills a block, has one or two whole ones and leaves
a rest. Five bytes are a whole group of three and each leftover, and five characters one
group of four and a leftover; the bytes have all bits, none, and different ones at each
of the places where `Sextets` cuts (the theorem `DecodeInvertsEncode` has no such
choice). Seven tokens and a stack limit of 2 give an object in an object and one level
too many, an object of two members or with a spare comma, and an error with tokens left
to recover over at each level; the three sets of flags are those the library offers and
the two it does not combine. Nothing in the code counts or compares beyond that. The
safety theorems below hold for every bound.
Deadlock is not checked (`CHECK_DEADLOCK FALSE`): when the calls are used up, or
the facade is destroyed, these systems stop. That nobody is stuck before is what
the liveness properties say.

Fairness. `FairSpec` of HttpWorker is weakly fair to the worker, to `Start`, and
to the destructor's steps: threads the operating system runs, none of which waits
for a lock that is contended for ever, because the critical sections are finite
and the clients' calls are bounded. Clients owe nothing: they need not call
nor release. Spurious wakeups are allowed and never relied upon. That `Perform` is
in the worker's fairness is a premise about the network: no CURLOPT_TIMEOUT is set,
and a peer that never answers keeps the worker, and with it the join. In EasyHandle
fairness is per thread, for taking a free mutex, setting an option and ending a
transfer; `std::mutex` promises no order, so weak fairness on `LockPolling` excludes
starvation only because the calls are bounded. In Construction the thread that
constructs, the callers at the guard and the worker are scheduled; nobody has to call
`GetInstance`, and construction may throw at most `MaxFailures` times. RestClient assumes
what its parts do: of the worker thread, of `Start` and the destructor's steps, of each
client's taking the mutex and returning from a call. `ImplementsWorker` and
`ImplementsCalls` include the parts' fairness, so no premise of theirs is lost in the
composition. In JsonReader `parse` runs to its end once called; `ParseReturns` then
shows the recovery loops end, since the stream's end is read for ever.

## 4. Proofs

The safety properties of the passing runs are theorems: for any sets of threads and any
bounds, under the named ASSUMEs of the modules (the thread sets are disjoint, bounds are
natural numbers, `None` is not a thread, a call or a token). One has a hypothesis besides,
`ShortMessages` of `PaddedIsHashed`, which the run's constants meet.

- `HttpWorkerProofs`. The inductive invariant `IInv` is the type invariant, the
  accounting equation `accepted = attempted \o InFlight \o mHttpDataQueue` and
  what it needs: where the worker stands for each stage of `life`, that `mActive`
  is true exactly while running, that an unnotified sleeper has nothing to do, and
  how many more transfers the worker's place still allows once shutting down.
  The equation alone is not inductive: `Perform` and `Fetch` need to know that the
  payload in hand is a POST or PUT and that nobody else destroys the queue.
  `ChannelSafety` proves that every step maps to a step of `RequestChannel` or a
  stutter; the liveness half of the refinement is model-checked.
  Two variants are the well-founded halves of the liveness properties. `ToDo` is at most
  eight after `Shutdown` and every step from then on, of any thread, lessens it
  (`DestructorTakesFewSteps`), if the worker had got past its first wait; and it is never
  asleep unnotified there (`NobodyWaitsAtTheEnd`). `Backlog`, five steps for each queued
  request and the rest of the lap in hand, falls with each step of the worker while there
  is a request, and nothing but a push raises it (`WorkerMakesProgress`).
- `EasyHandleProofs`. No hypothesis about who overlaps whom. The one fact about the history
  is `Acquainted`: of two calls on the handle each is in the other's `met`. What a call
  writes is then in the `met` of everyone who can read it before writing over it, and
  `SetSoFar` says how much of the handle a call has written over itself; from the two come
  `TransfersAreOwn` and `StatusesAreOwn`. With `OnePolling`, that a polling call meets no
  other, which rests on the mutex (`PollersExclude`), they give `PollingsAreApart`. For the
  certificate, `UpdatedSoFar` follows an update that has met no other, `InForce` says that
  the one that is settled has reached all seven options and the member, and `OldOrMet` what
  a call may find on the handle: the update in force when it came, and those it met.
  `HandleCallsSafety` is the refinement of `HandleCalls`, and `CallsTakeFewSteps` says that
  a call has at most thirteen steps (`StepsLeft`) besides the pieces of the response, and
  no other thread adds to them. So a holder of the mutex lets it go if its thread runs and
  its transfer ends.
- `RestClientProofs`. `WorkerSafety`: every step of the system is one of HttpWorker's or
  a stutter. Through an instance of `HttpWorkerProofs` its inductive invariant holds here
  without being proved again (`Lifted`). The system's own invariant `SInv` adds that
  a client inside a call holds a reference (`CallersHold`), where libcurl's life and the
  facade's stand to each other (`CurlLife`), and that only pollers wait. Together they
  give `ReleasedLast`: the destructor runs when nobody holds a reference, so no client
  is inside, and past the join the worker has exited. `HandleSafety` is the refinement
  of `HandleCalls`; it needs HttpWorker's invariant, that a payload in hand is a POST or
  a PUT. `SystemIsAChannel` and `QueuePromisesKept` carry HttpWorker's theorems over: the
  whole system implements `RequestChannel`, and the queue's promises hold in it with
  polls, certificate updates and GETs in between.
- `GetDataProofs`. `CloseCount` says how often a handle has been closed at each
  stage of its call, for `HandlesAreClosed` and the type invariant (at most twice).
  `LoneAtWork` and `BufferIsOwn` carry `LoneResponsesAreOwn`: while a GET is alone
  nobody else is inside GetData, and the buffer holds the pieces it has received.
  `MeetEachOther` and `BufferIsMet` carry `ResponsesAreMet`: GETs under way have met one
  another, so each may append to the buffer without leaving another with a stranger's
  piece, and a GET that begins empties it.
- `ConstructionProofs`. The invariant ties the guard to the one thread that is
  building, `made` to what of the flag and the worker exists, and `started` to a
  complete wrapper whose flag is up. Counting `curl_global_init` needs the
  strengthening that calls are failures, plus one while a construction is past
  `mCurl` or over. `LateWorkerIsReady` rests on `FlagIsStart`: from its own
  initialiser on, the flag is true only once `Start` has run; and on the process having
  ended whenever members are destroyed that a running worker has met.
- `SecurityHeadersProofs`, for the header list. The invariant `HInv` says where a request
  begins with no list of its own (`Beginning`), that the list under construction is of
  nodes that are allocated and this request's (`OwnList`) and holds exactly what was
  appended since the last failure (`SinceFailure`), that at the transfer libcurl has that
  list (`Attached`), and that a node that is allocated is on the list or was lost by a
  failed append (`ListedOrLost`). The properties are readings of these at a stage;
  `SentListIsLive` is not inductive without `OwnList`, since libcurl's pointer is left
  dangling between calls. `AppendWorks` and `AppendFails` are the two outcomes of the
  assignment.
- `SecurityHeadersProofs`, for the hash that the headers carry. While the message grows,
  what was transformed is `Message(0, total - m_len)` and the buffer's first cells are its
  last `m_len` bytes. `Division` and `Products` carry the block arithmetic with a block
  size that is a constant of any value, `MessageConcat` and `CellsAreMessage` the
  sequences. The ASSUME `MaxTotal + 2 * BLOCK < WORD` keeps `m_tot_len` from wrapping.
  `PaddedIsHashed` has the hypothesis `ShortMessages`, that the bit length fits the word
  too, and needs one fact more: until `final` the transformed bytes are a whole number
  of blocks (`WholeBlocks`). `PaddedSize` then shows that the one or two blocks of
  `final` are what FIPS 180-2's length asks for, and `FinalStep` compares cell by cell.
- `Base64Proofs`. A state is tied to the number of groups passed: after q groups of three
  the result is their letters (`EncodesSoFar`), a finished encoding is whole groups and a
  leftover of r (`Encodes`), and after p letters the decoder has their bytes
  (`DecodesSoFar`). `FirstByte` to `ThirdByte` are the arithmetic of one group. The
  type theorem is also that the two arrays are never overrun. For `EncodesRFC` and
  `DecodesLetters` the reference's bits are met half way: `ValueOfBits` gives the value
  of a string of six or eight bits, `BitsOfBytes` and `BitsOfLetters` say which bit of a
  text is which bit of which character, and `LettersOfBytes` and `ByteOfLetters` compare
  the regrouped bits with `Sextets` and `Octets` place by place. `Value` is a recursive
  function; that it has the values its equation demands is shown by exhibiting them, which
  takes no induction, as a character has at most eight bits.
- `JsonReaderProofs`. `Machine` says which stages have calls under way, `Depth` how many
  nodes belong to each stage, `Errs` when an error has been recorded. `Depth` is
  inductive only with `Machine`, since a return looks at the frame below. The rest is
  about the language, for documents of any length:
  - `GrammarRows`: `Grammar` satisfies its defining equation. The library's induction
    theorems cannot be instantiated, so `Induction` is stated over a set instead of a
    predicate, from the least element of a well-founded order; `TableExists` builds the
    table of the rows below a length with it.
  - `AcceptedAreDocuments` rests on `Story`. While nothing that is not plain JSON was
    met, the tokens read are divided among the calls under way (`Open`): each call has
    read the beginning of an object or an array up to its child, and the innermost one
    what its stage says (`Here`), in terms of the grammar's own sets. A value that is
    complete is joined to its caller's text (`ValueDone`), one closing bracket at a time.
    `Counted` keeps every text inside the grammar's bound. It is also what an exception
    or an error leaves: there `Story` claims nothing.
  - `RefusedAreNoDocuments` rests on a machine without the program's bookkeeping (`Move`):
    its state is the stage and the calls, and an error is a state it does not leave.
    `DocumentsRead` shows, row by row of the grammar, that each document is read through
    to the end; `Track` that the program follows the machine up to its first error, with
    the one token it may have looked ahead at; and `NoWayThrough` that a text that stops
    the machine is not the beginning of one that does not, because its states are
    determined by its tokens (`RunsAgree`).
  - `EveryParseEnds`: `Work` counts three for each token not used up, one for each call
    under way and a rank for the stage, and every step of a parse lessens it, so a parse of
    n tokens takes at most 3n + 3 steps. It is the well-founded half of `ParseReturns`;
    what is left to fairness is that some step of a parse that is not over is taken.

Only model-checked: everything under fairness (`PushedIsAttempted`,
`DestructorReturns`, `SignalArrives`, `CallersServed`, `ParseReturns`, and the liveness
halves of `ImplementsChannel`, `ImplementsWorker` and `ImplementsCalls`), which TLAPS
cannot prove, and the violations. Every invariant of a passing run is a theorem.

## 5. Disagreements between the code and what it says

Checked by runs that find them:

- `ReadySignalReceived` (cpp:491): the first wait tests `mActive` only, so a signal
  followed by `Shutdown` before the worker looks is never received, and the
  destructor's `join` never returns. A short-lived program can do this.
- `OwnUrlReceivesPost` (cpp:215): the worker takes no lock around the shared easy handle,
  so its URL can be replaced by a poller's before it performs.
- `ClosedOnce` (cpp:468): `cleanCurl` nulls its own copy of the pointer, and a failed GET
  is cleaned up twice.

Met while modelling, without a run of its own:

- A bit length of 32 bits (sha256.cpp:143) wraps at 2^29 bytes. "FIPS 180-2
  SHA-224/256/384/512 implementation" (sha256.cpp:6, sha256.h:6) has a 64-bit length, and
  for such an input the hash is not that of FIPS 180-2. The library hashes one short token
  only; the padding compared with in `HashOfPadded` has the 64 bits, and its premise
  (`ShortMessages`) is where the two part.

Met while modelling, with no text in the repository that says otherwise, or in code that
is not compiled:

- Pointers of a call that returned (cpp:573, 225, 245): libcurl keeps a pointer to the
  error buffer, the header list and the body of whichever call set them last. A call that
  sets them and returns while another's transfer runs leaves that transfer with dangling
  ones. `OwnTransfer` only says whose they are.
- One response buffer for all GETs (cpp:405): with overlap a caller gets another's pieces.
- The worker may run before its mutex, flag and condition variable exist (cpp:15), and
  pass its wait for a signal nobody gave.
- A failed append (cpp:779) sends a request without its first headers; when all are lost
  libcurl chooses the content type, that of a form.
- jsoncpp: `{"":v,}` is accepted (692). After a member a comment stands for the comma, and
  the token after the comment is dropped (727-731): `{"a":1 /**/ 5 "b":2}` is accepted.
  `[/**/]` and a comment before ":" are refused. In strict mode, "Comments are
  forbidden." (json.h:400), comments inside objects are skipped all the same. What
  follows the value is not looked at.

## 6. Plan

Done, in this order: `RequestChannel` and `HttpWorker` (the core: what happens to a
request), `EasyHandle`, `GetData`, `Construction`, `Sha256Stream`, each with its proofs;
then `HandleCalls` and `RestClient`, `Base64`, `JsonReader` with theirs,
`SecurityHeaders`, the proof of `HashOfPadded`, the proofs for `SecurityHeaders`, the
references of `Base64` and the grammar of `JsonReader`, and the variants of `JsonReader`,
`HttpWorker` and `EasyHandle`.

Left:

1. `DestructorTakesFewSteps` for the composed system of `RestClient`, whose destructor
   also ends libcurl's global state, and variants for `GetData` and `Construction`.
2. Number and string decoding of jsoncpp, and its second reader `OurReader`, were the
   library ever to compile them.

## 7. Not modelled

- main.cpp, a demonstration, and JsonParser, which fills one `Json::Value` with constants
  and otherwise returns 0: commented out of CMakeLists.txt.
- jsoncpp but for `Reader`: `Value`, `Path`, the writers and `OurReader` are vendored
  data structures and formatting that nothing compiled here uses; of `Reader`, number and
  string decoding, collected comments, offsets and messages.
- `include/` and `lib/` are vendored libcurl, OpenSSL and log4cplus: declarations without
  code, and binaries. They are most of the repository's lines: libRest's own sources are
  some 2,200 of 66,000, jsoncpp.cpp 5,300. The models cover the share of those that
  takes decisions.
- Logging, the wording of headers, the SHA-256 compression function.
- The unused classes of CommonDefs.h (plain getters and setters), and `PutData` and
  `DeleteData` (cpp:473-481), which return SUCCESS and are called by nobody.
- HTTP responses: a transfer that libcurl completes is SUCCESS whatever the response
  code, which is only logged.
