# A TLA+ model of the kiosk client library and its demo

The repository holds `libotikiosk`, the C library through which an application
drives a payment kiosk ("EMV Core") over two sockets, and `otiKioskDemo`, an
application that uses it and shows results to websocket clients. This directory
models both. Paths below are relative to
`src/Emv-Core-client-armv8a-poky-linux-0.9-58/Emv-Core-client/`.

There are no tests and no documentation beyond the comments of
`libotikiosk/libotikiosk.h`; the code and those comments are the reference.

## The system

| Part | State | Operations | Talks to |
|---|---|---|---|
| API and exchange, `libotikiosk/src/libotikiosk.c` 182-261, 446-628 | `_expected_id`, `sema_resp_ready`, `sema_resp_done`, `current_resp_len`, the work buffer | ten API functions, each one `send_receive` | the commands thread through the semaphores, the kiosk through the commands socket |
| Commands thread, 78-180 and 327-364 | `_commands_socket_options`, `pmt_resp` | reconnect, receive, hand a response over, acknowledge and report a TransactionComplete | the application's callback |
| Reader thread, 78-180 and 276-325 | `_reader_socket_options` | reconnect, receive, report a display change | the application's callback |
| Initialisation, 263-274 and 366-440 | socket options, the two callbacks | `Init`, `Register_*` | starts both threads |
| Parsers, `libotikiosk/src/kiosk_commands.c` | none | `check_response_ok`, `parse_get_status`, `parse_cancel_resp`, `parse_transaction_complete`, ... | mjson |
| mjson, `libotikiosk/src/mjson.c` (third party, linked in) | nesting stack, path cursor, fixed buffers | tokenizer, path lookup, unescape, print | - |
| Logging, `libotikiosk/src/ot_log.cpp` | map of levels | set level, write | syslog |
| Demo main loop, `demo/otiKioskDemo.c` 212-372 | `cur_state`, `new_state`, the expiration, `last_status` | one iteration a second: status, entry into a state, websocket service, payment, expiration | the API |
| Demo callbacks, 83-103 | `last_payment_response`, `new_state` | store a completion, end ST_TRANS | run on the library's threads |
| Demo websocket server, 98-188 | `_wsi`, `_payment_status`, `_send_message_flag`, `_json_message` | client connects, leaves, is writable | `lws_service`, on the main thread |
| cJSON tree, `demo/cJSON.c` 56-276, 1892-2831 (vendored) | items in lists, names and strings they own or share | create, add, refer to, detach, insert, replace, duplicate, delete | the websocket part |
| cJSON text, `demo/cJSON.c` 289-1854, 2833-3153 | print buffer, parse buffer | print (buffered, preallocated), parse, minify, compare | the websocket part |
| JSON patches, `demo/cJSON_Utils.c` (vendored) | the documents given to it, which it sorts | pointers; generate and apply patches and merge patches | no Makefile builds it, nothing calls it |

What is hard in it:

- **Two threads share one buffer.** The commands thread reads into the work
  buffer, posts `sema_resp_ready` and waits 100ms on `sema_resp_done`; the
  application waits 500ms, copies and posts back. Either wait may expire at any
  point of the other thread's work, and tokens and the expected id outlive a call.
- **The protocol has no framing.** A socket read is taken for one message.
- **Answers and notices share a socket** and are told apart by the id alone.
- **Connections.** `sockfd` is replaced under a mutex and read without one, and
  a descriptor number that is closed is given out again, perhaps to the other socket.
- **The demo's callback** runs on the library's thread and shares `new_state` and
  `last_payment_response` with the main loop, unprotected.
- **One flag, one buffer and one slot** for the results that websocket clients are told.
- **Fixed sizes**: mjson's stack of brackets, cJSON's print buffer, whose callers each
  work out by themselves how many bytes they are about to write, the memory of a
  parsed string.
- **Shared items**: references, constant names and strings, told apart by flag bits,
  in lists whose ends are special; and any allocation may fail.
- **Failures of a call whose effect took place**: the kiosk has started, confirmed
  or voided, and the caller was told `COMM_ERROR`.

What makes each part correct:

- exchange: a response is handed over whole, once, and only to a call of its
  method; calls return; reception resumes; an acknowledged notice is reported; a notice is
  lost in known ways only;
- parsers: an answer that says yes makes the call return OK;
- connections: no descriptor leaks, is closed twice or belongs to the other
  socket; sends return where the servers read; connections come back;
- mjson: what a text has at a path is found there; what is not JSON is refused;
- cJSON: lists stay whole, each item has one owner, each string is freed once; a text
  says what its document says, stays in its buffer, and half a text is refused;
- patches: applied to the old document they give the new one;
- demo: each approved pre-authorization is confirmed or voided once; no state is
  a trap; a payment is only started for a client that is there.

## Modules

`KioskCommands` (no state). The catalogue `Api`: for each function, the id in its
template, the id in its check, its parser, and whether it allocates. The parsers,
over a record of what they tell apart in a message. A misplaced parenthesis in
`parse_cancel_resp` passes a null pointer to `strcmp`; the outcome is `CRASH`.

`KioskExchange`. One action for each step between two accesses to shared state.

| Code | Actions |
|---|---|
| `send_receive` | `Call`, `ClearReady`, `SendCommand`, `TakeReady` or `WaitTimeout`, `CheckLength`, `TakeLength`, `CopyStart`, `CopyEnd`, `PostDone`, `ResetAndParse` |
| `build_command` without memory | `CallNoMemory` |
| `send_to_kiosk` | `SendOk`, `SendFails` |
| `_receive_raw` and the loops around it | `PollTimeout`, `Receive`, `Disconnect`, `Connect` |
| `kiosk_msg_received` | `Dispatch`, `ClearDone`, `PostReady`, `TakeDone` or `AwaitTimeout`, `SendAck`, `Callback` |
| registration | `Register` |
| the kiosk (external) | `KioskAnswers`, `KioskTakesAck`, `KioskNotifies`, `KioskDrops` |

`apc` and `rpc` are where the two threads are. A message is `len` fragments; a
read returns any number of them. `memcpy` is a start and an end: if the buffer
differs between the two the copy is `torn`, and a torn copy parses as anything.
`calls`, `missed`, `notices`, `due`, `acked`, `delivered` are history.
Three constants choose the environment: `Prompt` (a response posted while the
application is waiting for it is handled within 100ms), `Framed` (a read is a
message) and `CallbackFirst` (the callback is registered before `Init`). Timeouts
may expire whenever the semaphore is at zero; with `Prompt` the 100ms do not
expire while the application is at work on the response.

`KioskConnection`. Both loops at the grain of one access to `sockfd`, the mutex or
the kernel's table (`file`), and `send_to_kiosk` for the application and for the
ACK. With `NumbersReused` a number just closed can be given out while a thread
still holds it. `strays` records reads and writes that reached the other
socket's connection. Here messages are only counted; `KioskExchange` says what
is in them, and in turn has one step for `Disconnect` and one for `Connect`.
Both sockets are blocking and have no timeout of their own: a `Write` to a server that
is connected and does not read may never return, and a connect (`ConnectOk`,
`ConnectFails`), which is made with the mutex held, may never come to an end. Neither
is fair (`MayBlock`, `OwnStep`).

`KioskDemo`. `pc` walks one iteration of the loop; the comparison of `new_state`
with `cur_state` and the assignment after it are two reads, as the data race
allows. The callback copies the response field by field. `timer` stands for
`time_state_expiration`. The library is what `KioskExchange` shows of it: a
call may fail although its effect took place, its late answer may serve the next
such call, a notice may be lost; each of these is a counted fault. How long the kiosk
stays down is not counted: `WaitForKiosk` may find it down for ever, and main then
never leaves that loop (line 272).

When the state `ST_MESSAGE` is entered, `send_json_message` fills the one buffer and
asks for the one stored socket to be called when writable (`writable`); `Writeable`
sends if the flag is set, whoever the socket belongs to. `ended` counts the payments
that ended, and is what `json_message` stands for: the message says which one.
`told` and `since` are history.

`KioskApi` is the abstract contract of the library: a call is asked, perhaps
performed by the kiosk, and succeeds only for a performed command of its own kind
that made no other call succeed; events are announced and reported once, in order.
No message, buffer, semaphore or thread appears in it. `KioskCalls` extends
`KioskExchange` with the three history variables of that contract and the mapping;
`KeepsPromise` is the refinement.

`MJson`. One action hands the tokenizer the next token of a text that is made up as
it is read (any token at any time, so texts that are no JSON too); `mjson` keeps
`expecting` and the stack `nesting`; `mjson_get_cb` moves the cursors of all looked-up
paths side by side. Positions in the text are kept only as "the place of the value
at the path" or another. The history (`around`, `allowed`, `there`) says what JSON
allows and what the text really has at each path.

`JsonTree` is a forest of items, each in one list or owned by the client.
`CJsonLists` has an item with its pointers (`next`, `prev`, `child`), the flags for
references and constant names, and the functions that change one list, pointer by
pointer, with nothing recursive but a function; `IsList(it, list, s)` says that the
members of `list` are those of the sequence `s` and can be walked both ways.
`CJsonTree` is the rest: deleting and duplicating, which recurse, and for each string
who owns it; `ListsIntact` is `IsList` of every container. An action is one call of the API
for each number of allocations that may succeed (`Tried`); the functions are
operators from memory to memory, in the order of the code's assignments.
`Refines` maps each list to its sequence of members.

The text of a document is a sequence of bytes; every access checks that it is inside
its buffer and records it in `inside`. `CJsonPrint` (no state): print with its `ensure`
and its byte counts, `CJsonParse` (no state): parse. Both are without recursion:
`printed(inner, v, p)` is one call of `print_value`, which uses `inner` for the calls
it makes for the members, and `parsed(inner, b)` is one of `parse_value`; a loop is a
function of the rounds it has made. `CJsonText` (no state) closes the recursion, and
has minify and compare. `CJsonUtils` (no state): every function of
`cJSON_Utils.c`. `JsonDocuments` composes them: one program edits its document and
sends the other what changed, as patches, as a merge patch, as a move, or whole;
a text may be minified or cut on the way; the other one parses and applies it to a copy.

| Code | In |
|---|---|
| `cJSON_Create*`, `*Reference`, `AddItem*`, `Add*ToObject`, `Detach*`, `Delete*`, `InsertItemInArray`, `Replace*`, `Duplicate`, `cJSON_Delete` | actions of `CJsonTree` |
| `cJSON_PrintBuffered`, `cJSON_PrintPreallocated`, `cJSON_ParseWithLength`, `cJSON_Minify` | `SendPatches`, `SendWhole`, `Receive`, `Minified` of `JsonDocuments` |
| `GeneratePatches`, `GenerateMergePatch`, `AddPatchToArray`, `ApplyPatches`, `MergePatch` | `SendPatches`, `SendMerge`, `SendMove`, `Receive` |
| `FindPointerFromObjectTo`, `GetPointer`, `cJSON_Compare` | `PointersLeadBack`, `InStep` |

The `MC...` modules define the small sets that
the `.cfg` files name. Definitions whose comment begins with "Mutant:" are
deliberate mistakes, each a variant of the definition after it; no specification
uses them. They show that the properties can fail.

Theorems, see below: `KioskExchangeProofs`, `KioskCallsProofs`, `KioskConnectionProofs`,
`KioskDemoProofs`, `MJsonProofs`, `CJsonListProofs`, `CJsonPrintProofs`, `CJsonParseProofs`.

## Runs

| Run | Checks | Shows |
|---|---|---|
| `exchange_prompt` | `TypeOK` `HandoffIntact` `HandoffInv` `CopyFits` `AnswerIsOurs` `KeepsPromise` | with `Prompt`, three calls, one notice, one lost connection, split and coalesced messages, a message longer than the caller's buffer; and that this implements `KioskApi` |
| `exchange_live` | `CallReturns` `ReceptionResumes` `NoticeLostOnly` | two calls without `Prompt`, under fairness, with the callback registered late or not, and a notice that has the id of a command |
| `exchange_framed` | `YesIsOk` `NoticeKept` `AckedIsReported` `NoticeReported` | eight methods, yes and no answers, notices with ids of their own |
| `connection_fds` | `TypeOK` `NoLeak` `SockfdIsOpen` `ClosesOwn` | two descriptor numbers, reused, two senders |
| `connection_live` | `SendReturns` `Reconnects` | three numbers, not reused, under fairness |
| `demo` | `TypeOK` `ClientPresent` `SettlesApproved` `ApprovedSettled` `TransLeaves` `ReturnsToIdle` `ToldIsNews` | two clients, two transactions, one fault |
| `json_lookup` | `TypeOK` `RefusesOnlyNonJson` `FindsWhatIsThere` `AbsentIsNotFound` | every token sequence over two names, three brackets deep, two members a list, five paths at once |
| `cjson_tree` | `TypeOK` `ListsIntact` `OwnedOnce` `StringsBalanced` `Refines` | four places for items, three strings, one reference, any allocation of a call failing |
| `json_documents` | `InStep` `StaysInside` `FiveMoreIsEnough` `PointersLeadBack` `CutIsRefused` | thirteen documents, two edits, buffers that are too small, just fit or can grow |

Three runs are expected to find a violation; the findings are in `PROJECT.json`:

| Run | Disagreement |
|---|---|
| `notice_coalesced` | two messages in one read: the second, a TransactionComplete, is never reported |
| `yes_not_ok` | `PayTransaction` sends id 7 and checks for 6; and any answer to `CancelTransaction` but "Ok" ends the process (seen with that method alone) |
| `event_astray` | the commands thread reads a message of the reader's connection and drops it |

**Bounds.** `RespCap` 2 and `BufCap` 3 fragments against messages of 1 to 3: one
fits both, one fits only the work buffer, and reads may take part of a message or
more than one. Three calls are the fewest with a late answer, a token it leaves
behind, and a call that could be served wrongly by either. A notice is 2
fragments, so it can be split and can follow an answer. Two descriptors are the
fewest for which a number passes from one socket to the other. Two transactions
and one fault let one transaction's completion meet the next one's start; two
clients let one leave while the other stays.
The counters `MaxCalls`, `MaxNotices`, `MaxDrops`, `MaxSends`, `MaxEvents`,
`MaxFaults`, `MaxTrans` and `MaxConnects` bound the environment only.

`MJSON_MAX_DEPTH` is 20 in the code and 3 here: the stack is full and one bracket
more comes, and a path of two steps can be found, missed and left. Two members
(`MaxItems`) have a first, a next and a sibling. The five paths
are: the whole text, a key, a key in a key, an index in a key, a key in an index.
In `cjson_tree` four places are the fewest for a list of three,
whose middle member is neither end, or for a list, a member and a reference to it;
three strings are the fewest for an item with a name and a text and a copy of its text
whose name finds no memory, and for renaming a named string item; `Budgets` let the first, the second or no allocation fail. Places are symmetric: which
free one an item gets makes no difference, because a free item is pointed to by none.
The documents differ in the order, number, depth and type of what their lists hold,
with names that need escapes in a pointer and strings that need them in a text;
spare lengths of -4, 0, 1, 2 and 6 bytes are around the text's own length, with its
terminator and the five bytes that `cJSON_PrintPreallocated` asks for.
`NESTING_LIMIT` is 1000 in the code and 5 here; `NUMBER_MAX` is 63, as there.

Deadlock is checked but in `yes_not_ok`, where the process may end, in
`json_lookup`, where a text ends, and in `json_documents`, where the edits do.

**Fairness.** Each thread, weakly, in the steps that wait for nobody: an operating
system schedules it, and its waits on poll and on semaphores are timed. In
`KioskConnection` a sender that waits for the mutex gets it (strong fairness of
`WLock`), because a loop that fails to connect sleeps a second with the mutex free.
A write to a connected server and a connect are not fair: nothing in the code ends
them. In `KioskDemo` time passes and the kiosk ends each transaction (it was given a
timeout); main's wait for the kiosk is not fair. Nothing is assumed of calls, clients
or notices. What the environment must do is a premise of the property that needs it,
not of the specification:

| Property | Premise |
|---|---|
| `SendReturns` | `ServersRead` (a write to a connected server returns), `ConnectsEnd` (each connect comes to an end) |
| `Reconnects` | `ServersAccept` (in the end a connect succeeds) |
| `ReturnsToIdle` | `KioskComesBack` (main, waiting for the kiosk, finds it up in the end) |

With any one of them taken out TLC finds the property violated. `KioskExchange` is
above this: a send there is one step of its thread, so `CallReturns`, `ReceptionResumes`
and `NoticeReported` say that no thread waits for ever for the *other*, for an answer or
at a semaphore, where its sends come to an end as `SendReturns` says they do.

## Assumptions that matter, and what happens without them

- `Prompt`. Without it `HandoffIntact`, `CopyFits` and `AnswerIsOurs` fail: the
  commands thread, which gives up after 100ms (line 339), reads into the buffer
  being copied, although the comment at line 41 says that reception resumes when
  the response has been handled. Under load 100ms can pass.
- Servers read what they are sent. No `SO_SNDTIMEO` is set, so a kiosk that is connected
  and stops reading keeps `write` (line 190) for ever once the buffers are full, and with
  it the API call, or the commands thread at its ACK. `SendReturns` assumes `ServersRead`.
- Each connect ends. `connect` (lines 119, 148) is made with the mutex held, so a sender
  whose write has failed waits at line 192 as long as the connect takes (`ConnectsEnd`).
- The kiosk answers again. A kiosk that stays down keeps main in the loop of lines 272-276,
  where nothing expires: a message stays up. `ReturnsToIdle` assumes `KioskComesBack`.
- `Framed`, in `NoticeKept` and `NoticeReported` (`exchange_framed`). A stream socket does
  not frame: without it `NoticeKept` fails (`notice_coalesced`). `NoticeLostOnly` does not
  assume it, nor the next two, and says that these and the loss of the connection are all
  the ways in which a notice is lost.
- Notices have ids of their own. If not, a TransactionComplete whose id is that
  of the pending command is handed over as its answer (line 332).
- `CallbackFirst`. The demo registers after `Init` (lines 252, 265): then
  `AckedIsReported` fails, a notice is acknowledged and reported to nobody.
- `NumbersReused = FALSE` in `connection_live`. With reuse, a read on a number that
  became a connected socket without data blocks until the server sends.
- No fault, in `SettlesApproved`, `ApprovedSettled` and `TransLeaves`. One lost
  answer of PreAuthorize, one failed GetStatus before the completion is looked at
  (line 275 overwrites `new_state`), one lost notice or one failed
  Confirm leaves a reservation unsettled, and a lost notice leaves the demo in ST_TRANS.
- One application thread at a time in the API, and none from the callback.
- There is no promise that `ST_INIT` is left: a call that fails on entry to it leaves
  `new_state` equal to `cur_state`, so that it is not entered again (line 279).
- A client of cJSON does not change a list to which it holds a reference, nor delete
  what a reference shows (`Lists`, `MayDelete`); it gives an item that it owns to one list.
- No string ends with a backslash when a text is minified: `minify_string` (line 2874)
  takes the closing quote for an escaped one.
- Documents that are patched: no name in them has `~` or `/` (`PlainNames`:
  `decode_pointer_inplace` decodes these wrongly, line 372) or differs from another in
  case only (nested merge patches and detached members are matched without case, lines
  1455 and 466); no null where a merge patch is made (`NoNull`: in one, null removes).
  Patches are made from copies, since generating them sorts both documents and leaves
  the first member's `prev` stale (line 595), and applied to copies, since a patch that
  fails leaves the ones before it applied (line 1055).
- Where a merge patch is generated, `strcmp` walks the members in the order they are
  sorted in (`WalkedInOrder`). `cJSONUtils_GenerateMergePatch` sorts both objects without
  case (`cJSON_Utils.c` 1406-1407) and walks them with `strcmp` (1423): from
  {"b":2,"C":[]} to {"C":[],"d":1} it takes C for one that is new, then for one that is
  gone, and its patch {"C":[],"b":null,"C":null,"d":1} gives {"d":1}. With the guard
  taken out of `SendMerge` TLC finds `InStep` violated by this pair, which is among the
  documents of the run. The case-sensitive generator does the same to nested objects,
  which it sorts without case as well.
- `AbsentIsNotFound` is about paths of one key or index. A longer path whose first key has
  a scalar value can be found in a later sibling (`mjson.c` 389).

`AnswerIsOurs` says whose answer a call returns: its own, or that
of an earlier call of the same method that timed out, because `_expected_id` is
only reset on success (line 254). That an answer makes one call succeed and not a second
is `KeepsPromise` (`used` of `KioskApi`). Of `PayTransaction` it is not true: it checks for
6, the id of `PreAuthorize` (line 574), so after a `PreAuthorize` that timed out it takes
the late answer for its own and returns OK for a payment nobody started. With `Methods`
{`PreAuthorize`, `PayTransaction`} TLC shows this; the runs leave `PayTransaction` to
`yes_not_ok`, and the theorems exclude it by name.

`sigint_handler` sets a flag that stops `lws_service` only; the loop is
`while(true)`. The model has the handler and no step that leaves the loop.

## Proofs

`tlapm` checks every step; TLC has checked the same properties on the instances
above. The assumptions are `ConstantsAssumption` of each module (types of the
constants; `LimitsAssumption` of `CJsonParse`) and the hypotheses named here; the
instances of the runs satisfy them.

`KioskExchangeProofs`
- `TypeCorrect`: `Spec => []TypeOK`. One lemma for the types of each group of
  steps, and lemmas on what the operators on messages return.
- `HandoffInductive`: `Prompt => (Spec => []HandoffInv)`. `HandoffIntact` is not
  inductive: that no done token is left while the response is copied rests
  on the commands thread having cleared it (line 335) before it posted, and on the
  ready token being the one of this response, which rests on the clear before the
  send (line 236). `TokensTakeTurns` says so for each position of the threads;
  `LengthIsOfBuffer` says that buffer and length then agree.
- `HandoffCorrect`, `CopyStaysInside`: `HandoffIntact` and `CopyFits` follow.
- `WireInductive`: whatever travels, or is in the work buffer, is a fragment of a
  message that was sent (`Genuine`), answers numbered up to the present call. A read
  that takes part of a message, or two, gives `Garbage` or one that was sent.
- `AcksAreReported`: with `CallbackFirst`, an acknowledged notice is reported. No
  assumption on time, framing or the connection: `SendAck` and `Callback` are both of
  the message in the buffer, and only the commands thread writes it (`AckInv`).
- `NoticesAreLostOnly`: `Spec => NoticeLostOnly`, without any hypothesis. A notice that
  leaves the wire, the commands thread's hand and the callback's list (`Kept`) does so in one
  of the four ways of `LostBy`. Each group of steps has a lemma; the one with substance is
  `WholeReadKeeps`: a read that is one whole message leaves every other notice on the
  wire, and puts its own into the commands thread's hand, because a message that is due
  parses as a TransactionComplete (`WireInv`). From there only an expected id, or the
  callback's absence, keeps it from the application.
- `NoticesInOrder`: without any hypothesis, only what was announced is reported,
  each notice once and in order.

`KioskExchangeProofs`, of the answers, under `Prompt`
- `CopyInductive`: from the first fragment copied to the post, the copy is the buffer; what
  is parsed of it was sent by the kiosk, or is `Garbage`.
- `OrderInductive`: answers come in the order of the calls; the one in the copy is older
  than the one in the buffer, and that one older than those on the wire. What is outstanding
  (`Outstanding`: a command or an answer not yet taken) belongs to the call under way or is
  `missed`. This is what makes an answer be returned at most once, as `KeepsPromise` says.
- `AnswersAreOurs`: `method # "PayTransaction" => AnswerIsOurs`, always.
- `YesIsReturned`: `YesIsOk` for all but `PayTransaction` and `CancelTransaction`, the two
  functions of the findings.

`KioskCallsProofs`
- `PromiseKept`: `CSpec => KeepsPromise`, the refinement of `KioskApi`, step by step. Three
  hypotheses. `Prompt`. No `PayTransaction`, which breaks the contract as said above.
  `OneOrTheOther`: an answer has an error or a result and not both, as JSON-RPC says;
  `parse_resp_result` does not look at the error, so that an answer with both would be a
  success that the kiosk did not perform. `CallsInv` ties the history to what travels: an
  answer on its way is to the command asked under its number, its result says what the
  kiosk did, and a command not yet taken by the kiosk is not performed.

`MJsonProofs`, for texts of any length and any depth of the stack
- `ReadingInductive`: the stack holds the brackets of the open containers, and while the text
  is JSON, what `mjson()` expects is what JSON allows (`Follows`).
- `OnlyNonJsonIsRefused`, `TypeCorrect` follow, the latter with `CursorsInductive`: a
  cursor stays on its path, so that the element it compares with exists.

`MJsonProofs`, of lookups, for paths of any length
- `SearchInductive`: `SearchInv` says where the cursor of each lookup stands. The text has not
  come to the path, and the cursor is where it would come next (`Before`); it is inside the
  container at the path (`Inside`); it has found the value, or the text has gone past the place
  without one, and then the text is past the path (`Behind`) and never comes to it again. That
  rests on no name being given twice in an object (`NameInv`), as the model's JSON has it.
- `WhatIsThereIsFound`, `AbsentStaysUnfound` follow. `ConstantsAssumption` says that names are
  not tokens and that an element of a path is a key or an index, not both.

`CJsonListProofs`, for lists of any length, of any container in a memory of any size
- `ItemAtIndex`: the walk of `get_array_item`. Its loop is a recursive function; the
  induction is by the smallest step at which it could differ (`Smallest`, from the
  well-foundedness of `<`), as no theorem with an operator for a parameter can be used.
- `AddAppends`, `DetachRemoves`, `InsertInserts`, `ReplaceReplaces`: if `IsList` holds of a
  sequence before, it holds after of the sequence with the item appended, removed,
  inserted or replaced (`Append`, `RemoveAt`, `InsertAt`, `ReplaceAt`). Each says
  which items' links it changed (`OnlyLinks`); `OthersStay`: a list without them stays.
  The item put in is in no list and its `next` is NULL, as `cJSON_New_Item`, detaching
  and `put_in_its_place` leave it; `add_item_to_array` relies on that, since it does not set
  `next` of an item behind another.
  The proofs first say pointer by pointer what the assignments leave (`DetachIs`,
  `SplicedIs`, `AwayIs`), then go through the positions: the first, the last, the one
  before, the one after, and the others (`Linked` is `IsList` position by position).

`CJsonPrintProofs`, for documents of any height, in buffers of any size, growing or not
- `PrinterThere`, `OnePrinter`: exactly one function satisfies the equation of `print_value`
  (`Prints`), so that a theorem about every such function is about the code's recursion.
  The induction is over the height of a document (`Height`), by a smallest counterexample;
  that the documents have heights is the hypothesis `Documents`, which TLC checks of those
  of `json_documents` (`DocsAreDocuments`).
- `PrintsBehind`: the inductive statement. A call leaves what is in the buffer
  before it and appends a text that depends on the document, the format and the depth
  alone; what it asks `ensure` for covers what it writes. It is proved of two buffers at
  once, from which `OneText` follows: the text is the same in whatever buffer.
- `StaysInside`: every byte is written inside the memory there is, for `cJSON_Print`,
  `cJSON_PrintBuffered` and `cJSON_PrintPreallocated`.
- `TwoMoreIsEnough`: no count that is asked for, at any place, exceeds the text by more
  than two bytes; hence `FiveMoreIsEnough`, what `cJSON.h` says of preallocated buffers.

`CJsonParseProofs`, for texts of any length, JSON or not
- `ParserThere`, `OneParser`: as for printing, the induction being over how much deeper
  `parse_value` may go (`NESTING_LIMIT` minus the depth).
- `ParsesInside`: from any offset of a text (`ToRead`), `parse_value` leaves a buffer that
  is `Further`: all accesses inside, the offset in the text or at its end, and, when it
  succeeds, behind where it was, with the depth as it was. Going forward is what
  ends the loops, whatever the text says. A loop of the model has as many rounds as it can
  need: one more than there are commas left for members (`RoundsGo`), and as many as there
  are bytes up to a quote that no backslash is before for a string (`StringEndIs`); the two
  lemmas prove that no more are needed.
- The hard part is `RoomThere`: `parse_string` allocates one byte for each byte between the
  quotes less one for each backslash it skips, and writes what the escapes stand for. That fits
  because an escape of two bytes becomes one, one of six becomes at most three, one of
  twelve, which is two skipped backslashes, becomes four.
- `TextsInside`: `cJSON_ParseWithLengthOpts` of a text of at least a byte, with or without
  a terminator asked for, stays inside; the value ends in the text, and the reported place of
  an error is a byte of it.

`KioskConnectionProofs`
- `TypeCorrect`.
- `FdsInductive`: `Spec => []FdInv`, for any number of descriptors, reused or not.
  `FdInv` is the three invariants of `connection_fds` with what makes them inductive.
  `HoldsMutex` (who is between lock and unlock holds the mutex) gives that at most
  one thread replaces a `sockfd`; `NothingOpen` gives that a new descriptor is
  created only where there is none.
- `DescriptorsKept`, `SockfdsAreOpen`, `EachClosesItsOwn` follow.

`KioskDemoProofs`
- `TypeCorrect`, `ClientIsPresent`: proved together, since a message makes the
  remembered client writable, and only who is there may be.
- `OnlyNewsIsTold`: `Spec => ToldIsNews`, for any number of clients, from `NewsInv`: a
  pending message is of a later end than any told, and a client is only writable for a
  message of an end after it came.
- `SettlesOnlyApproved`: `Spec => []SettlesApproved`, for any number of transactions,
  from `SettleInv`. While nothing fails, a transaction that is not over is with the
  kiosk, on its way or in the callback, and at one of these only (`AtOnePlace`); what
  is said of it is so (`Truthful`); main waits for it in ST_TRANS without having set
  `new_state` (`MainWaits`); and from the callback's last step until main has settled,
  nothing can start (`MainSettles`), so that the status main tests and the reference it
  uses are of one response.

Only model-checked:
- `NoticeKept`, which holds only where no notice can be lost in the four ways;
- every liveness property (`CallReturns`, `ReceptionResumes`, `NoticeReported`, `SendReturns`,
  `Reconnects`, `ApprovedSettled`, `TransLeaves`, `ReturnsToIdle`): liveness under fairness and
  ENABLED are outside the prover's reach;
- cJSON's trees as wholes (`CJsonTree` with `OwnedOnce`, `StringsBalanced`, `Refines`, and
  `ListsIntact` in every reachable memory: the theorems above are of one call and the lists it
  changes): delete and duplicate are recursive over the tree, and the prover takes no
  module with RECURSIVE operators.
- `InStep`, `PointersLeadBack`, `CutIsRefused` of `JsonDocuments`: that patches, pointers and
  texts say what they should. Generating, applying and comparing are recursive over two documents,
  and that parsing gives back what was printed relates two recursions, one over the
  document and one over its text.
- `StaysInside` and `FiveMoreIsEnough` of `JsonDocuments` as invariants of its states, since the
  module has RECURSIVE operators; the theorems above are of the functions they call, and
  leave out minify.

## Not modelled

- `ot_log.cpp`: the map of levels is written by one function that nothing calls; the
  rest is formatting and syslog.
- Socket paths and failures of `Init`: they run once, before there are threads.
- The text of commands (`build_command`) and log lines; the printing, base64 and RPC
  halves of mjson, of which the library uses formatting only.
- The handler of reader events: it has no state and sends nothing; that events get to
  it is `KioskConnection`'s subject.
- In cJSON: the conversion of doubles (numbers are integers here), allocation failures of
  the text functions (those of the tree functions are modelled), `cJSON_InitHooks`,
  `cJSON_SetValuestring`, `CJSON_CIRCULAR_LIMIT`.
- SIGPIPE: the demo's websocket library ignores it; an application without that
  library would be ended by a write to a dropped connection.

## Plan

1. Done: `KioskCommands`, `KioskExchange`, `KioskConnection`, `KioskDemo`, with the
   proofs above.
2. Done: `KioskApi` and `KioskCalls`; the websocket result; `MJson`; `JsonTree` and
   `CJsonTree`; `CJsonText`, `CJsonUtils` and `JsonDocuments`.
3. Done: the proofs of `KioskDemo`; of `KioskExchange` (answers, notices, the refinement of
   `KioskApi`) and of `MJson`.
4. Done: `CJsonLists`, and that each function on a list keeps a list of any length whole.
5. Done: `CJsonPrint` and `CJsonParse` apart from the recursion, and that documents and texts
   of any size are printed and parsed inside their memory.
6. Left: that parsing gives back what was printed, first for strings (`Escaped`, `Unescaped`);
   what copying adds to a list (`LinkNext`, `Filled`).
