# A TLA+ development of CppPhoenixChannels

CppPhoenixChannels is a C++ client for Phoenix channels: one `phoenix::socket`
keeps a websocket open and multiplexes `phoenix::channel`s over it; a
`phoenix::push` is one request on a channel and the hooks that wait for its
reply. This directory holds TLA+ models of that code, the TLC runs that check
them on small instances and TLAPS proofs of what holds for all instances.

## 1. Inventory

| component | code | state | operations | talks to |
|---|---|---|---|---|
| ref counter | `socket.cpp:183-186` | `m_ref` (uint32_t) | `getRef` | every channel, push and heartbeat draws refs |
| registry | `socket.cpp:147-180` | `m_toppicToChannels`, `m_toppicToChannelsMutex` | `getChannel`, `removeChannel`, `rejoinAllChannels` | application threads and I/O thread share it |
| dispatch | `socket.cpp:188-204` | none of its own | `on_message`, the catch block around `run()` | calls `processMessage` of every channel of the topic under the registry mutex |
| channel | `channel.cpp` | `m_joinRef`, `m_topicToCallback`, `m_idToPush`, `m_ioService` | `join`, `push`, `processMessage`, `on`, `off`, `offId`, `setTimeout` | getRef and send of the socket; owns its pushes |
| push | `push.cpp` | hooks, timer, ref | `receive`, `start`, `processResponse` | sends through channel and socket |
| message format | `channel_message.cpp` | none | `to_json`, `from_json` | used by push, heartbeat and on_message |
| connection life cycle | `socket.cpp:4-73,114-123` | `m_state`, `m_con`, `m_hdl`, `m_stop` | open, close and fail handlers, `connect`, the run loop, the destructor | websocketpp |
| heartbeat | `socket.cpp:76-101` | none | a thread that sends every 30 s and closes the connection when that fails | getRef, send, `m_hdl` |
| JSON | `json.hpp`, third-party | of a lexer, a parser, a serializer, a binary reader | `parse`, `dump`; besides: pointers, patches, binary formats | on_message, from_json and invokeCallbacks |
| waiting | `socket.cpp:125-135` | `m_cv`, `m_cvMutex` | `waitForConnection`, `waitForConnectionOrFail` | notified by the three handlers |
| TLS set-up | `socket.cpp:206-224` | none | `on_tls_init` | OpenSSL |

Three kinds of threads run this code: the application's threads, the I/O thread
(`m_future`, which runs every websocketpp handler, one at a time) and the
heartbeat thread. `json.hpp` is the third-party JSON library, `examples/phoenix.mjs` is the
JavaScript client of the Phoenix framework and serves as the description of the
protocol, `examples/main.cpp` shows the order of calls the API is made for.
websocketpp is a submodule and not part of the sources; what the models say of it is
read off from how the code uses it and marked external in `PROJECT.json`.

What is hard here, and what would make each component correct:

* **pushes and replies.** `channel::push` draws a ref, stores the push in a second
  critical section and hands out a reference into the table; `receive` and
  `start` use that reference, while the I/O thread may take the push out and
  destroy it. Correct: hooks run at most once, for a reply to this push, and no
  caller is left with a dead reference.
* **refs.** They key the table, are drawn by several threads and wrap. Correct: no
  waiting push is displaced, and a reply finds its own push.
* **registry.** Application threads create and destroy channels while the I/O thread
  iterates over them and runs callbacks. Correct: a visited channel is alive, the
  mutex is always released.
* **reconnection.** Rejoins race with application joins and pushes; exceptions cut
  handlers short. Correct: OPENED is published only after the rejoins, opening ends
  in OPENED or in a lost connection, joins come before pushes and only once.
* **timeouts.** Correct: a push started with a timeout does not wait for ever.
* **connection life cycle.** Three parties close connections, two reconnect. Correct:
  one connection at a time, never none for ever, the destructor terminates.
* **waiting.** `notify_one` wakes one waiter of several. Correct: no announcement falls
  between a waiter's check and its sleep, and waiters get their turn.
* **frames.** A frame is parsed, its payload is written as text again (`dump`) and
  that text parsed a second time for the status. Correct: fields, strings, numbers
  and values come out as they were sent, no legal frame is refused, and `dump` neither
  throws for what `parse` let through nor overruns its buffers.
* **the rest of the JSON library.** `patch`, `diff`, `flatten` and `merge_patch` compute on
  pointers and indices that each step may shift; four binary formats are written and
  read by separate ladders of widths and types; floats are written by Grisu2, whose
  rounding errors must cancel. Correct: what was written is read again as the same
  value, what ends early is refused, a diff leads to its target. The lexer reads ahead and takes
  back, from bytes or wide strings; a parser callback may drop any element while it is built.
  Correct: tokens and positions are those of the text, only what was dropped is missing.

`PROJECT.json` lists these hazards at their lines.

## 2. Modules

`PhoenixChannel.tla` — ref counter, registry, dispatch, channel and push, over one
connection at a time.

| code | model |
|---|---|
| `m_ref`, `getRef` | `m_ref`, `NextRef` (modulo `RefMod`) |
| `m_toppicToChannels` | `registry`, a set of channels; `Topic[c]` is the key, so two channels may have one topic, as in the multimap |
| registry mutex | held in the phases `Locked` of the I/O thread; `RegistryFree` guards `GetChannel` and `RemoveChannel` |
| `channel::push` | `DrawRef` (first critical section) and `Emplace` (second one, or the exception) |
| `push::receive` calls | `Receive`, one step for the chain, which only touches the caller's push |
| `push::start` | `Send` and, for a nonzero duration, `Arm` |
| `on`, `off`, `offId` | `On`, `Off`, `OffId` |
| open handler | `OpenHandler`, `RejoinAll`, `RejoinChannel` per channel, `RejoinDone` where `rejoinAllChannels` returns and gives the registry mutex back, `PublishOpened` where `m_state` is set under `m_cvMutex` |
| `on_message` | `OnMessage`, then per channel `ProcessMessage`, `InvokeCallback` per callback, `TakePush`, `ProcessResponse`; `EndDispatch` |
| exceptions | `IoLeave("caught")`, then `Catch` |
| close handler | `CloseHandler` |
| server, network | `Reply` (any number of times, for any push sent), `Publish`, `Garble`, `Lose` |

A step is what a thread does while it holds a mutex or between two of them. A
push is an identity with a record (channel, ref, hooks, number of messages that
answered it); `to` in a message is the push the server replies to, which the
client cannot see and the properties use. Frames, payloads, topics and
callbacks are names. `sent` holds the pushes whose frames were written on
the present connection and `inbox` the server's messages on it, both lost with it.

Calls that callbacks make (`push`, `on`, `off`) are interleavings of an
application thread with the I/O thread and need no actions of their own;
callbacks that call `getChannel` or `removeChannel` would lock the registry
mutex twice and are not modelled. That a thread does not use a channel
another thread has removed, or a push it has withdrawn with `offId`, is a duty of the
caller and a guard of `RemoveChannel` and `OffId`. A heartbeat draws a ref that
is used nowhere else, like a push whose `emplace` throws, and has no action.

`Arm` writes the timer into the push. If the push has been destroyed this is a write to a
dead object; the model lets it have no effect, and the run
`channel_timed_start` shows that it can happen.

`PushLifecycle.tla` — what a caller is promised, without refs, tables, threads
and connections: unborn, pending, then answered once by a reply to this push, or
lost. `PhoenixChannel` implements it (`ImplementsLifecycle`, with the mapping
`Stage` and `RepliesUnderWay`).

`PhoenixSocket.tla` — the life cycle of the socket over several websocketpp
connections.

| code | model |
|---|---|
| websocketpp connections | `con[c]`: closed, connecting, open or closing; `deaf`: an exception went through its handler, so no read is pending |
| `connect` | `Connect`: a connection that does not exist yet, `m_hdl` names it |
| open handler | `Opens`, `Rejoin` or `RejoinThrows`, `Opened` |
| fail handler | `Fails`, `Failed` |
| close handler | `Ends`, `Closed` |
| `on_message` | `OnMessage`, which may close `m_hdl` (the "error" hook of a rejoin), throw, or both |
| the loop around `run()` | `Loop`, `RunReturns`, `Catch`, `CatchEnds` |
| heartbeat thread | `HbSend`, `HbClose`, `HbCallback` |
| destructor | `Destroy`, `Stop`, `WaitIo`, `WaitHeartbeat` |
| peer, network | `PeerCloses`, `Ends`, `Fails` |

The I/O thread runs one handler at a time; its steps are split where the heartbeat
thread or the destructor can come between (`m_state`, `m_stop`, `close()`). The
initial state is the end of the constructor. Two choices are constants: whether a
rejoin may find its ref in use (`RefInUse`), whether `m_onErrorCallback` may throw
(`Throws`). A heartbeat may fall due at any time; `hbFailed` remembers that one has failed.

`Link.tla` — the one connection the channels rely on: it opens, can no longer be
sent on, goes down, and `m_state` is OPENED only while it is up. `PhoenixSocket`
implements it over all its connections, and what `PhoenixChannel` does to its
single connection is allowed by it (`ImplementsLink` in both), so that the two
models meet in it.

`ConnectionWait.tla` — `waitForConnection` and `waitForConnectionOrFail`.

| code | model |
|---|---|
| `m_cvMutex` | `owner` |
| a call, the lock, the predicate, blocking | `Call`, `Lock`, `Check`, `Sleep`; `accepts[w]` is the predicate of the call |
| a handler | `Begin`, `Announce` (lock and assignment), `Notify`, `Unlock` |
| condition variable | `Asleep`, `CanWake`, `Wake` (spurious); blocking and releasing the mutex are one step |

Which states are announced in which order is `PhoenixSocket`'s matter; here any are.

`JsonString.tla` — one string on its way through `parse`, `dump` and the second
`parse`, byte by byte. `scan` and `ahead` are `scan_string` (the bytes it still
wants are a triple of range and number), `dump` is `dump_escaped` with `decode`'s
`state` and `codepoint`, the number of `bytes` in `string_buffer`, and what the second
`scan_string` still wants (`again`). The three run in step: each byte the first scan stores is
fed to `dump_escaped`, and what that writes to the second scan.

| code | model |
|---|---|
| `scan_string` | `Raw`, `ShortEscape`, `UnicodeEscape`, `Quote`, `Refuse` |
| `next_byte_in_range` and the cases of first bytes | `Next1`, `Follow`, `Unescaped` |
| code points to bytes | `Pair`, `Store` |
| `decode`'s table | `Type`, `State`, `Mask`, `CodePoint` |
| `dump_escaped` | `Feed`, `Escaped`, `Written`, `Flush` |

`JsonNumber.tla` — `scan_number` label by label (`Label`, `NumberType`), the conversion by
`strtoull` and `strtoll` (`Converted`, `Fits`) and `dump_integer` with
`count_digits` (`Write`). `SignBit` is 2^63 in the code. `std::abs` of the least integer
is undefined; the builds leave it as it is, and so does `AbsValue`.

`JsonParser.tla` — `sax_parse_internal` and `json_sax_dom_parser`, a step per token.
`pc` is the place in the function, `states` its stack; `dom` is the other class: a heap of
nodes, `ref_stack` (`refs`) and `object_element` (`element`), which point into it.
`Aligned` says what the asserts and the two `@invariant`s of `handle_value` rest on. A string or
number at the start of a text goes through the two modules above; further on it is one token.

`JsonDump.tla` — the serializer's `dump`: the text of each value of a heap (`Dump`), made by
`Spelled` and, for a container from each element on, by `Rest`, once `Listed` has put the members
of each object in the order of `std::map` (`KeyOrder`). A tree (`IsTree`) is a value of any size and
depth as it stands in a text: members in any order, keys once or more than once. `Spelled` also
writes what the server sends.

`JsonGrammar.tla` — what was built, read as a value (`ValueAt`, `Root`). What JSON is, the properties
take from a grammar written down apart from the code (`Grammar`: the texts of each length that are
values, lists or members, each with what it denotes) and, for a tree, from `Meaning`.

`ChannelMessage.tla` — a frame from the socket to the hooks: parsed by `JsonParser`,
decoded (`Decode`, `from_json`), its payload parsed again, and `InvokeCallbacks`. The
payload of the message is the token sequence that `dump` wrote. `Frames` are trees, any
ones for the proofs; for TLC `MCMessage` lays out objects that have each field present,
null, of a wrong type or missing (`Laid`), with their members in the order of the map and in the
reverse order after a payload and a ref that are overruled. `Messages` go through `to_json` first.

`JsonValue.tla`, `JsonPointer.tla`, `JsonPatch.tla` — values as tagged tuples, with an exception
as a result of its own (`Threw`); access by pointer (`CheckedChild`, `Child`, `Assigned` for
`get_checked`, `get_unchecked` and `get_and_create`, `array_index`, `split`); and on them, a step
per operation or entry, `patch` (`PatchAdd` ... `PatchTest`), `diff`, `flatten` with `Unflatten`,
and `merge_patch` (`MergeStart`, `MergeNext`). Strings and keys are byte sequences, numbers
have `Width` bits.

`JsonBinaryWriter.tla`, `JsonBinaryReader.tla`, `JsonBinary.tla` — CBOR, MessagePack, UBJSON and
BSON: the bytes that the writer makes of a value, what the reader makes of bytes (a value, an
exception, or `Discarded`), and the life of such bytes: written, then delivered, cut,
continued or changed, read, and what was read after a change written once more. A
`Foreign` writer may send what the formats allow and this writer never writes.

| code | model |
|---|---|
| `write_cbor`, `write_msgpack`, `write_ubjson`, `write_bson` | `to_bytes` and one operator per kind of value |
| `calc_bson_..._size` | operators of the same names |
| `get`, `unexpect_eof` | `At`, `Bad`: a result carries what was read and the position |
| `parse_cbor_internal` and the others | `CborValue`, `MsgpackValue`, `UbjsonValue`, `BsonElement` and what they call |
| `sax_parse`, `from_cbor` ... | `sax_parse`, `from_bytes` |

`JsonFloat.tla` — `dump_float`, a step per digit: `diyfp`, the boundaries, the table of cached
powers (computed to be the nearest, as the code's table is), the two loops of
`grisu2_digit_gen` (`IntegralDigit`, `FractionDigit`), `Round`, `Format`. The widths of the
significands and of the table are constants, because TLC has 32 bits.

`JsonText.tla` — a text on its way to the parser, a step per `get`: the adapters of buffers, UTF-16
and UTF-32 (`get_character`, `fill_buffer`), `get` and `unget` with the position, `skip_bom`,
`scan` (`Switch`), `scan_literal`, and of `scan_string` and `scan_number` what ends a token. `items`
is what the text was made of, `taken` the tokens found.

`JsonCallback.tla` — `json_sax_dom_callback_parser`, a step per event of the parser: `sdp` has the three
stacks and `object_element`, which point into a heap of nodes (0 is the null pointer). The
callback is asked where the code asks it and answers anything.

`MCChannel.tla`, `MCSocket.tla` and `MCMessage.tla` extend `PhoenixChannel`, `PhoenixSocket` and `ChannelMessage` and give
the constants that a cfg cannot write; `MCPatch.tla`, `MCBinary.tla`, `MCFloat.tla`, `MCText.tla` and
`MCCallback.tla` hold the sets for `JsonPatch`, `JsonBinary`, `JsonFloat`, `JsonText` and
`JsonCallback`; `ConnectionWait` needs none. `MCJson.tla` puts the six parts of the JSON library
side by side in one run: it extends `MCMessage` and instantiates the other five with their sets,
and `part` says which of them a behaviour calls. The modules named `...Proofs` hold the theorems.

Some definitions have a variant before them, named in the comment as mutant: the same
definition with a plausible mistake, under which TLC finds the property violated that
guards against it.

## 3. Runs

| run | question | result |
|---|---|---|
| `channel_calls` | two threads push on one channel through replies of all kinds, repeated replies, exceptions, reconnects, `offId`, `removeChannel`: can a caller's push be destroyed under it, a push be answered twice or by another's reply? | no; `PushLifecycle` is implemented |
| `channel_shared` | two channels on one topic, `join_ref` written or not: do replies find their push, are visited channels alive, are all channels rejoined when `rejoinAllChannels` returns, and all but those created since when OPENED is published? | yes |
| `channel_live` | the counter has 1 value, so every push and rejoin meets the refs in use; replies, an event, callbacks that return or throw; fair I/O thread: is a waiting push displaced, do waits and openings end, is the registry mutex always released, is OPENED published as `Link` allows, is `IndInv` an invariant? | no; yes |
| `channel_stale_join` | is a message for another join dropped? | no: `from_json` tests `ref` instead of `join_ref` |
| `channel_two_joins` | is a topic joined once per connection? | no: rejoin and the caller's join |
| `channel_early_push` | does a rejoin precede the channel's pushes? | no: `start()` overtakes it after a reconnect |
| `channel_timed_start` | as `channel_calls`, with timeouts | `start()` may use a destroyed push |
| `channel_timeout` | do timeouts end waits? | no: nothing runs the timers' `io_service` |
| `socket_live` | connections open, fail and end, handlers, heartbeats and callbacks fail, the socket is destroyed; fair threads: until a heartbeat fails, is there one connection, and is it a `Link`? Does the socket reconnect, are deaf connections given up, openings announced, does the destructor return? | yes |
| `socket_two` | is at most one connection open, also when heartbeats fail? | no: the catch block and the close handler both connect |
| `wait` | three waiters of both functions, any announcements: is a wakeup lost between check and sleep, does a lone waiter return, do waiters for the same outcome all return? | no; yes |
| `json` | any short text, and any frame with each field of any kind: does what was sent come through `parse`, `from_json`, `dump` and the second `parse`, and is only what is no JSON refused? Does a diff lead to its target, do patches, `flatten` and `merge_patch` do what they say? Is what was written in a binary format, or by Grisu2, read again as the same, and what ends early or goes on refused with the documented error? Are the tokens of a text found, at their positions? Is just what a callback drops missing? | yes, but for the differences listed below |

The five runs from `channel_stale_join` to `channel_timeout`, and `socket_two`, end in a
counterexample to what the comments, the examples or the code itself say, see
`findings` in `PROJECT.json`.

Other differences are part of the properties that hold: these say what the code does, so that each
difference has its exact extent, and the comment of the property quotes what it departs from.

* `OpenedAfterRejoin`: the order in the open handler (`socket.cpp:15-21`) suggests that OPENED means that every
  channel has been rejoined. `rejoinAllChannels` gives the registry mutex back (162) before `m_cvMutex` is
  taken (18), and a channel that `getChannel` makes in between has no rejoin. The property holds of
  all channels when `rejoinAllChannels` returns, and of those created earlier when OPENED is published.
* `DecodedAsSent`: `channel_message.cpp:13` tests `ref` for null instead of `join_ref`. A `join_ref` is lost where `ref`
  is null (`channel_stale_join`); and a `join_ref` of null beside a ref makes `get_to` throw, which the catch
  block answers by closing the connection. `phoenix.mjs:571`, `654` and `1055` know messages whose
  `join_ref` is null. `ServerForm` has these frames, `NullJoinRef` names them: none of them gets
  through, all others do. `HooksGetStatus` is about the others.
* `PatchedAsSaid`: an add whose path goes through `-` appends a null and goes on behind it
  (`json.hpp:8894`), so that `at` of the same path throws: `Place` resolves the path as the code does. A remove below
  a value that is no container removes nothing and reports nothing (20340), where 20198 has an exception.
* `EndIsSeen`: what is cut short gives `parse_error.110` (19604, 19711, 19802) or, without `allow_exceptions`, a
  discarded value, but for two cases: a BSON string without its last byte is discarded although
  exceptions are allowed (3714), and UBJSON that ends behind `#` gives 113 (5022).
* `FilteredAsSaid`: "as if the discarded value was never read" (13865), and no discarded value after parsing
  (15079). `end_object` removes the first discarded member of the object around it only (3116), and nothing from an
  array. `Remaining` says which discarded values stay in the result; where there are none, and no key
  comes twice, the result is as if they were never read.

**Bounds.** `PushId` bounds the pushes of a run; three are two concurrent pushes and a
later one, or two rejoins and a push, or rejoins on two connections.
`SparePush` keeps back one push for each channel an open handler has to
rejoin, so the bound cannot stop that handler. `MaxInbox` is 1, which leaves
reordering to the server's choice of what to send, and 2 in `channel_live`.
`MaxRef` stops the counter before it wraps; where it is as large as `RefMod` it
stops nothing. Only `channel_live` has events and callbacks, on one channel: they
meet pushes in `processMessage` alone.
`Con` holds three connections: the two it takes for every conflict between the catch
block, the close handler and the heartbeat, and a spare. `SpareCon` lets no handler that
may end in a `connect()` begin without a spare; more live connections at once are
cut off, which only matters where heartbeats fail.
In `wait` three threads are enough for two that may be woken in place of a third.
In `json` the bytes and code units of strings are both ends of every range the code
distinguishes, which is all it can tell apart; the buffer of 20 bytes, 512
in the code, is written out after one or a few characters, with every number of bytes
left over.
`MaxTokens` 11 lets an object have two members with one key of which the earlier is an
empty container (`{"a":[],"a":null}` and its end), and containers nest five deep. The frames have each
of the five fields in its kinds, in both orders, with and without an earlier payload and ref, which
is what `from_json` and `std::map` tell apart.
Integers have 14 bits (`SignBit` is 8192) and 5 characters: 16383 and -8192 are the ends of the range,
and 10000 is where `count_digits` starts its second round.
Patches have two operations, so that one works on what the other has left, numbers for them
four bits, in which -1 and 15 are equal to `operator==`. Paths have up to two tokens, some
three, with an index or `-` inside. The numbers of `JsonBinary` have their
64 bits, as bytes, on both sides of every width; lengths are on both sides of 15, 23, 31, 127 and
255; where another writer takes eight bytes for a length of 1, a changed first byte makes it one of 2^63 and
more. Of up to `MaxChange` bytes each is changed, of more only the first `MaxHead`, if another writer sent them; what is longer than
`MaxCut` is cut within these, and before its last byte. `JsonFloat` has every positive binary16 and some negative ones,
with a diyfp of 14 bits: 11 and 3, the least the `static_assert` of `grisu2` allows, where the
rounding errors are the largest. The texts of `JsonText` have up to three of 17 items — tokens, space,
a byte order mark, mistakes of each kind, NUL — which puts each before and after each other, and
characters at the ends of the ranges the adapters tell apart. The trees of `JsonCallback` nest
each container in each, with keys in and out of order and one twice, and every event is answered both ways.
`MCJson` checks `WidthAssumption`, `BinaryAssumption`, `FloatAssumption` and `TextAssumption`, and, as
it extends their modules, `DumpAssumption` and `MessageAssumption`.
Threads and pushes are interchangeable, channels too when they have one topic:
the safety runs use this symmetry, the runs with liveness none.

**Fairness.** `WF_vars(Io)`: the I/O thread runs handlers as long as there is
something to handle. `WF_vars(Call(t))`: a thread that has begun a call is
scheduled. Neither blocks for ever in these actions, as the mutexes
they take are either held for one step or, for the registry mutex, not
taken by them. The application need not call, the network not
connect and the server not answer. In `PhoenixSocket` the I/O thread's own steps, the
heartbeat thread and the destructor are weakly fair: they are threads and the mutexes
they take are held for one step. For each connection `SF_vars(Opens \/ Fails)` and
`SF_vars(closing /\ Ends)`: websocketpp has a timeout for the handshake and
for the close, and the `io_service` serves what is due in order; fairness is
strong because another handler may run in between. Nothing is assumed of an
open connection: it may stay open without a message for ever. `GivenUp` exempts a socket that
is being destroyed and one whose I/O thread a throwing `m_onErrorCallback` has ended.
In `ConnectionWait` the steps of the handler and of each waiter are strongly fair: a
thread that wants `m_cvMutex` gets it if it is free again and again. The mutex is held for
moments, and the close and fail handlers sleep for a second after releasing it. No
connection need open or fail (`Begin` has no fairness): `SameWaitersReturn`
assumes announcements without end. Waiters of both functions at once have no such
guarantee, the one woken for FAILED may be one that waits for OPENED.

## 4. Proofs

`PhoenixChannelProofs` proves, for all values of the constants,

* `TypeCorrect`: `Spec => []TypeOK`,
* `AnsweredOnce`: `Spec => []AnsweredAtMostOnce`, with no assumption on the counter,
* `VisitsLive`: `Spec => []VisitedChannelsLive`,
* `NeverReplaced`: `Spec => PendingNeverReplaced`,
* `LinkImplemented`: `Spec => ImplementsLink`.

The assumptions are `ChannelAssumption` (types of the constants) and
`NoneAssumption` (`None` is no record). The inductive invariant is `IndInv`:
types need `CallsOK` and `IoOK` (what each phase of a thread has at hand).
`AnsweredAtMostOnce` is not inductive: it needs that whatever can still be
answered has not been, that is the entries of the table (`TableOK`), the push the
I/O thread has taken (`TakenOK`) and the pushes drawn and not stored
(`DrawnOK`), and that these are disjoint. `TableOK` also says that an entry's
push carries the channel and ref it is stored under, which makes the entry the
only one of its push. `VisitedChannelsLive` needs `LoopsLocked`: outside the
critical section there is nothing to visit. `LinkImplemented` needs `HandlersHaveLink`: a handler keeps
its connection from going down until it has ended. `TypeStep`, `PushStep`,
`VisitStep` and `LinkStep` show that each action keeps its part, and `channel_live` checks
`IndInv`, of which `TypeOK` is a conjunct, with TLC.

From `IndInv` the second half of the module goes on. It proves

* `ReplyReaches`: `Spec => []ReplyReachesItsPush`, if `MaxRef < RefMod`,
* `CallersSafe`: `Spec => []NoDanglingPush`, if `MaxRef < RefMod` and
  `Timeouts \subseteq {FALSE}`,
* `RejoinedFirst`: `Spec => OpenedAfterRejoin`, if `MaxRef < RefMod`,
* `LifecycleImplemented`: `Spec => ImplementsLifecycle`, if `MaxRef < RefMod`,
* `OutcomeFinal`: an answered push and a lost one stay what they are, if `MaxRef < RefMod`.

`MaxRef < RefMod` says that fewer than 2^32 refs have been drawn, and without it the
statements are false: a push that waits for 2^32 refs shares its ref with a new one.
`Timeouts \subseteq {FALSE}` says that no duration but zero goes to `start()`; with others
the push may be destroyed before `start()` arms its timer (run `channel_timed_start`). The invariant `ReplyInv` says that
refs are drawn in order and belong to one push each (`RefsOK`), that each reply under way
names a push that was sent on this connection, and its ref (`MessagesOK`), and that no
two threads work on one push (`CallersApart`). `CallersSafe` adds that a caller
that is not through with its push finds it in the table, not yet sent, so that no reply can
reach it (`CallersOK`); `RejoinedFirst`, that the loop of the open handler has sent a
rejoin for every channel it has visited, that it has all of them behind it when it ends, and that until OPENED is
published every channel of the registry has its rejoin or was created since (`RejoinedOK`); a
rejoin is known by its ref, which is why the counter must not have wrapped. For the refinement each
action has a lemma that says which push it takes to which stage: `LifecycleStep` puts them together.
Before it was proved, TLC checked each of these invariants with the constants of `channel_calls`.

`PhoenixSocketProofs` proves, for any number of connections,

* `TypeCorrect`: `Spec => []TypeOK`,
* `OneConnection`: `Spec => []SingleConnection`,
* `LinkImplemented`: `Spec => ImplementsLink`,

the last two about the time until a heartbeat has failed (`hbFailed`): afterwards both
would be false, see `socket_two`.

The inductive invariant says that only the connection made last is live
(`OnlyLast`), what each phase of the I/O thread knows of it (`PhaseOK`), and that
OPENED belongs to a connection that has not ended (`OpenedIsUp`). Its core is the
catch block: a `close()` that failed leaves either a connection that has ended, or
one that is closing, and then `m_state` is OPENED because only
`on_message`, which runs after the open handler, can have closed it. This is what a
heartbeat breaks. `socket_live` checks it with TLC.

`ConnectionWaitProofs` proves `NoLostWakeup`: `Spec => []WakeupKept` for any number of
threads. The invariant adds mutual exclusion (`MutexOK`) and that a thread about to sleep
has found the present `m_state` wanting (`CheckIsCurrent`), since the handlers change it
under the mutex: `Invariance`.

`JsonLexerProofs` proves, for every set of bytes and code units and every buffer of at
least 13 bytes,

* `NeverThrows`: `ScanSpec => []RelayNeverThrows`,
* `SameCharacter`: `ScanSpec => []CodePointKept`,
* `Readable`: `ScanSpec => []ReadableAgain`,
* `BufferNeverOverrun`: `ScanSpec => []BufferFits`.

`ScanInv` says that `scan_string` expects one of eight things and that `decode` is in the
state that waits for the same bytes (`Waits`), and the second scan too. It needs
lower bounds on the code point put together so far (`Least`): without them a
character of several bytes might end as one that is written as an escape, in the
middle of which the second scan would stand. `Room` is what is left in the buffer after
each byte. The lemmas go by the length of the stored character; `PairRange` is
the arithmetic of surrogates.

It also proves `NumbersAreKept`: `NumberSpec => []NumbersKept`, for any `Digit`,
`SignBit` and `MaxChars`, that is for numbers of any length. `Shape` says what has been read at each
label, in terms of the grammar; `ReadStep` that the grammar goes on from there just as `Label`
does; `OneLabel`, by induction on the length, that no text has two labels. It
follows that a number ends, or an error is due, exactly where the grammar says (`NumberRead`,
`Completed`, `NotCompleted`). `NumberInv` adds the type of the value. `Rewritten` is about
`dump_integer`: a row of digits without leading zeros is written as it was read and is as long as
`count_digits` says, by induction over the digits, two at a time for `Write` and four at
a time for `count_digits`. These functions are recursive: `Recursion` shows that a
recursion to smaller numbers has a solution, so that `CountDigits`, `WriteType` and `Values` may
use their equations. The library's theorems for this take operators as parameters, which the
provers cannot instantiate; `Induction`, `StrongInduction` and `Recursion` speak of sets and functions
instead, and follow from the well-foundedness of `<`.

`JsonTextProofs` proves `NothingBehind`: `Spec => []ReadsInside`, for texts of any characters and any
length in UTF-8, UTF-16 and UTF-32, under `TextAssumption`, which says no more than what the constants
are (and that the texts have no backslash). `fill_buffer` moves `current_wchar` by two behind a
surrogate that ends the string, so that its test for the end no longer holds; what keeps it from
reading on is that a surrogate is refused by every loop of the lexer, or ends a number, is taken back by
`unget` and refused by the next `scan`. This is the invariant `TextInv`: `Overshot` only with a surrogate
at hand (`OnlySurrogate`), and then an error or `next_unget`; `WantsLetters` is needed for
`scan_literal`, which compares with what is left of its literal. It also has the counters of the position
in `Nat`: `unget` takes none of them below zero. `FillStep` and `CharacterStep` are about the adapters,
`SwitchRefuses` and `LabelRefuses` about the loops, `FlattenType` about the community modules' `FlattenSeq`.
TLC checked `TextInv` on the texts of `json`, with lone surrogates alone and behind a number.

`JsonParserProofs` proves `ParserAligned`: `ParserSpec => []Aligned`, for texts of any length and
depth, parsed one after the other, over any set of strings. `Aligned` is the part of
`ParsesJson` (below) that speaks of the parser's own state, and not inductive. `ParserInv` adds what is
known at each place in `sax_parse_internal` (`InPlace`): which container is open where it has not
yet been put on `states`, and that `object_element` is an element of that object from the key to
the value. It also adds that `ref_stack` goes to newer and newer values; so its last entry
occurs in it once, and a vector that grows there moves nothing that
`ref_stack` still points to. `HandleValueKeeps`, `StartKeeps`, `KeyKeeps` and `EndKeeps`
say that each function of `json_sax_dom_parser` keeps the tree and the path; `Grown` and
`Overwritten` are the two ways in which a tree changes. A key that occurs twice is the case
`Overwritten`: the value is put over the old one, whose parts, if it was a container, remain in
the model's heap with nothing that leads to them. The lemmas `Good...` do the places, `TokenKeeps`
puts them together. TLC checked `ParserInv` first, with the constants of `json`.

`JsonGrammarProofs` proves `JsonCorrectness`: `ParserSpec => []ParsesJson`, for texts of any length
and depth over any strings, parsed one after the other: what is accepted is JSON and has the value the
text denotes, no token is refused with which a text of JSON goes on, and `dump` writes a text of
the same value. `DumpAssumption` says that `KeyOrder` has every string and that the lexer
tells a string from the other tokens.

The grammar is recursive over lengths and the parser has neither lengths nor recursion, so the
invariant (`KeepsUp`, `StepInvariance`) compares them by what is to come. `Denotes(W, q, V)` says that
the text `q` is JSON for `V` with the end of the input; `Agrees(W, pc, dom, r, V)` says, for each
place in `sax_parse_internal`, that the tokens `r` take the parser from there to the value `V`; and
`GoesOn` that the two agree: whatever `r` is, the text read so far and `r` denote `V` exactly if the
parser agrees to `r` and `V`. Both `Sound` and `Complete` follow from it (`IsSound`, `IsComplete`).

* `ValueRule` and `BodyRule` take the lengths out of the grammar, and arrays and objects together: a
  body is one item (`Led` by its key, in an object) or an item, a comma and a body. `Overruled` lets the
  later of two members with one key count, as `Join` does from the front: joining is associative.
* `Reads`, `Continues`, `Finishes` and `Opens` are the same rules for what is to come, one token at a time.
* `Chain` is `ref_stack` seen from above: `Finishes` for each open container, from the innermost to the
  root, then the end of the input. `Around` fills each container with the value that grows in it.
* `ValueIs` and `LocalStep` relate the heap to values: a step of `json_sax_dom_parser` changes one node,
  and every container that is open further out is what it was around it. A key that occurs twice
  fits in here: the element is overwritten in the node as `Join` overrules it in the value.
* `LeafStep`, `OpenStep`, `CommaStep`, `EndStep` say what one token does, `ValueAgrees` ... `EndAgrees` go through the places,
  and `GoesOnStep` puts them together.

`dump` (`DumpMeans`): `TreeMeans` shows, by induction from the last part of a tree to the first, that
the text of every tree is JSON for its `Meaning`; `ListedMeans` that `Listed`, which puts a heap's
members in the order of the map, makes it a tree with the value of the heap. `ValueAt`, `Spelled`, `Meaning`,
`Rest` and `Ordered` are recursive functions; `ValueRecursion` and the other lemmas of that name show that they
satisfy their equations.

`ChannelMessageProofs` proves, for frames and payloads of any size and depth, with their members in
any order and keys that may occur twice,

* `FieldsDecoded`: `Spec => []DecodedAsSent`,
* `StatusReaches`: `Spec => []HooksGetStatus`.

`MessageAssumption` says that what a server sends is a tree, any one, and that the five field names are
strings. The invariant (`MessageInvariance`) is that of the grammar once more, with the tokens still to
come given: `Expects` says that they take the parser to the value of the frame that was sent and
later to that of its payload. `TextStarts` is where a parse begins, `GivenStep` a token of it.
Since `Dump` of the payload's node is JSON for the payload's value (`DumpMeans`), the second
parse begins like the first. `MembersAlike`, `FromJson` and `FormComplies` compare what
`from_json` takes from the heap with the members of the value that was sent. This invariant
and `KeepsUp` speak of all sequences of tokens, which TLC cannot enumerate; TLC checks `ParsesJson`,
`DecodedAsSent` and `HooksGetStatus`, which follow from them.

Only model-checked:

* all liveness (`ReplyEndsWait`, `Reconnects` and the others that need fairness), which is out of the
  prover's reach;
* `DiffGivesTarget`, `PatchedAsSaid`, `FlattenRestored`, `MergedAsSaid`, `BinaryRoundTrip`, `EndIsSeen` and
  `FilteredAsSaid`: they compare values or texts that `RECURSIVE` operators compute, which the prover does not
  take;
* `FloatRoundTrip` and `DigitsBest`: why the errors of Grisu2 cancel is an argument about products of powers of
  two and ten, nonlinear arithmetic that the SMT solver does not decide;
* `TextAsWritten`: it compares the lexer with a list of items for which only the configuration says that their
  characters are a token of their type. Its part `ReadsInside` is proved. Of the tokenizer, `JsonString`,
  `JsonNumber` and `JsonParser` have the parts that are proved.

## 5. Plan

Done: `PhoenixChannel` with `PushLifecycle`, `PhoenixSocket` with `Link`,
`ConnectionWait`, `JsonString`, `JsonNumber`, `JsonParser`, `JsonDump`, `JsonGrammar`, `ChannelMessage`,
`JsonPatch`, `JsonBinary`, `JsonFloat`, `JsonText`, `JsonCallback`, and the theorems of section 4.
Left: `FilteredAsSaid` without `RECURSIVE` and a proof of it in the manner of `JsonGrammarProofs`; of
`TextAsWritten`, its parts `TokensAsWritten` and `PositionTrue`.

## 6. Not modelled

TLS set-up, logging, the build; the JavaScript client, which is not part of the program.

Of the JSON library, a third-party header of 20842 lines that is by far the largest file, the
program uses `parse`, `dump` and the access to members. Left out are files and streams as
input, what a parse does after an error when exceptions are off, pretty printing, `ensure_ascii` and the lenient error
handlers of `dump`, the `snprintf` path of `dump_float` for types that are no IEEE 754, iterators,
and the conversions and members that are templates over C++ types and keep no
state of their own. Half of the header is documentation.

Where else the comments of `json.hpp` say something that its code does not do, no run is spent on it,
because the program does not come there:

* `operation_add` asserts that a parent "cannot be primitive" (20313), which an add below
  a number refutes.
* `flatten` and `unflatten` are inverse except for empty containers (20144); but a key `"0"` comes
  back as an index of an array (8783). `FlattenRestored` leaves that key out.
* A CBOR integer below the least int64 wraps to a positive one (3971). Without exceptions `get_string` does not stop at
  the end of the input: a length that no memory holds ends in `std::bad_alloc` (`NoMemory`), not
  in a discarded value.
* The loop of `grisu2_digit_gen` does not keep `pow10 <= p1` (11607) when a digit is 0; and the digits
  are the shortest in the narrowed interval (`DigitsBest`), not the shortest that are read
  back as the same value (11707): 4.49173 is written as 4.4917299999999996.
* With a callback, a dropped member whose key occurred before takes the earlier value with it (3094). `unget` of a
  line feed takes back the line, not the column (6785):
  `PositionTrue` says nothing of the column there.

Callbacks that call `getChannel` or `removeChannel`: they lock the registry mutex their own
thread holds, which no model is needed to see, and nothing says that they may.

A torn read of `m_hdl`, which `connect()` writes without
synchronisation, has no value a model could give it: readers see the old or the
new handle. `PhoenixSocket` has the states in which the heartbeat calls
`m_onErrorCallback` after the destructor has destroyed it, but no doc or comment says what the
destructor promises, so no property is about them. In `channel::push` the
reference returned is read from an iterator after the lock is released; another
thread's `emplace` may rehash the table, which leaves its nodes in place.
