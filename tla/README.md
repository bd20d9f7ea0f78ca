# Verification of gstreamer-media-server

TLA+ modules, TLC runs and TLAPS proofs kept beside the IVR media server of
this repository: a process that plays lists of wave files into RTP sessions on
behalf of clients that speak "surfapi" (length-prefixed JSON over TCP), and
reports DTMF digits back to them.

## 1. The system

### 1.1 Parts

| part | code | state | operations |
|---|---|---|---|
| sender core | `ms_gstreamer_core.hpp` 24-45, 77-242, 315-371 | `filelist`, `current_file_index`, the pipeline with its elements, state and bus | `ClearPlayList`, `AppandPlayList`, `PlayFile`, `Remove`, `GstClear`, `bus_callback` (EOS, ERROR) |
| tool routing | `ms_hmp_server.hpp` 124-232, `ms_hmp_parser.hpp`, `ms_hmp_manager.hpp` | `HmpManager::tool_req_list`, `GstreamerCore::CoreList` | `set_config` (three forms), `command`, `remove` |
| connection | `ms_hmp_server.hpp` 42-123, 233-256 | socket, `buffer`, `need`, pending writes | handshake, length, data, answer, `proc_error` |
| listener | `ms_tcp_listener.hpp` | the one outstanding accept | `listen`, `handle_new_connection` |
| receiver core | `ms_gstreamer_core.hpp` 46-75, 243-313, 372-412 | rtpbin's pads, rtpdtmfdepay's sink | `pad_added`, `request_pt_map`, DTMF events |
| RTP numbering | `ms_gstreamer_core.hpp` 111-116, 169-174, 232-237, 359-366 | `timestamp-offset`, `seqnum-offset` | every switch of source |
| process | `ms_main.cpp`, `ms_manager.hpp` | two threads, logger | start-up |
| DTMF demonstration | `ms_demo.cpp` and its copies `ms_demo copy.cpp`, `demo/send_video/send_video.cpp` | `sending_dtmf`, `main_loop`, its pipeline | `signal_handler`, `bus_call`, `main` |
| other demonstrations | the Python files of `demo/`, `test1.cpp` | their own | stand-alone programs |

### 1.2 How they interact

Two threads do all the work (`ms_main.cpp` 15-25).

* The **asio thread** runs `tcpio.run()`: it accepts connections, reads requests
  and runs `HmpServer::proc`, one handler at a time for all connections.  An
  exception that leaves a handler leaves `run()` and ends the process.
* The **main thread** of GLib runs `bus_callback` for every pipeline, one message
  at a time.

A pipeline's own streaming threads post EOS and ERROR messages on its bus and,
in a receiver, call `pad_added`.

`bus_callback` and the commands share `filelist`, `current_file_index`, the
pointer `pipeline` and the elements behind it.  **There is no lock anywhere.**
GStreamer calls are atomic by themselves, a sequence of them is not.

### 1.3 What is hard

* A message waits on the bus while commands change what it is about.  READY does
  not flush the bus, only NULL does, so that the EOS of a file outlives a
  `play_list_clear` and is taken for the end of the next list.
* A command and the handling of an EOS may interleave statement by statement.
* Cores, routes and pipelines have different lifetimes: a core is never taken out
  of `CoreList`, a route is copied by value, a pipeline is a raw pointer.
* Every error ends the process: `g_error`, `g_assert`, uncaught exceptions.
* Each switch of source restarts the payloader, and the numbers on the packets go on
  only because the code reads them from it and hands them back as offsets.
* A set_config for a live tool replaces the pipeline pointer and leaves the pipeline.
* `ms_demo.cpp` does its work in a signal handler, on any thread and at any statement.
* A write that cannot be finished at once goes on from buffers that are gone, and
  mixes with others on the same socket; a socket outlives its client in the core.

All hazards, each with its line and the properties that watch it, are in
`PROJECT.json`.

## 2. Modules

| module | what it is |
|---|---|
| `Announcer` | what a sender promises to whoever listens, without pipeline or bus |
| `Playlist` | the sender, one handler a step; implements `Announcer` |
| `PlaylistProofs` | its invariants and action properties, and that it implements `Announcer`, proved |
| `GstreamerCore` | the same sender, one statement of one of two threads a step |
| `GstreamerCoreSerial` | `GstreamerCore` without overlaps, and the refinement mapping to `Playlist` |
| `RtpNumbering` | `Playlist` with the payloader's numbers |
| `Takeover` | `RtpNumbering` with the pipelines a set_config for a live sender leaves behind |
| `ToolRouting` | the tables that lead a request to a pipeline |
| `ToolRoutingProofs` | its invariants, proved |
| `TakeoverProofs` | what `RtpNumbering` and `Takeover` promise, proved |
| `GstreamerCoreProofs` | the invariants of `GstreamerCore`, proved for every interleaving |
| `GstreamerCoreSerialProofs` | that `GstreamerCoreSerial` implements `Playlist`, and so keeps what it promises, proved |
| `RtpReceiverProofs`, `DtmfSenderProofs` | the invariants of the two modules, proved |
| `Connection` | clients, the asio thread's reads and writes, DTMF events on the same sockets |
| `ConnectionProofs` | its invariants, proved |
| `RtpReceiver` | the receiver's pipelines through several set_configs, and what they share with the senders |
| `DtmfSender` | `ms_demo.cpp`: main, its bus and the handler of SIGINT on every thread |
| `MC...` | constants for TLC |

### 2.1 Playlist

`source` says what feeds `audioconvert`: `"test"` is audiotestsrc: a tone until
the first file (wave=0, `ms_hmp_parser.hpp` 165), silence after one (wave=4,
`ms_gstreamer_core.hpp` 103 and 225), both "silence" here, since no property tells them apart;
`"file"` the chain filesrc, wavparse, alawdec, `"none"` no pipeline.  `location`
is the property of filesrc, `state` the state last asked of the pipeline, `ended`
whether the file has posted the message that ends its run, `bus` what is posted
and not yet handled.  A message is an EOS or an ERROR; its field `stale` is a
history variable: it turns TRUE when the pipeline leaves the run the message is
about.  The code has no such field, which is the point of the properties.

| action | code |
|---|---|
| `ClearPlayList` | `GstreamerCore::ClearPlayList` |
| `AppandPlayList(list)` | `GstreamerCore::AppandPlayList`; a name without `/home/sta/` makes `replace` throw |
| `PlayFile` | `GstreamerCore::PlayFile`, with its empty else branch |
| `Remove`, `Configure` | `GstreamerCore::Remove`; `MakeRtpSender` for a core that exists |
| `BusEos` | the EOS branch of `bus_callback`: `GstClear` at the end of the list, else `Advance` |
| `BusError` | the ERROR branch |
| `EndOfRun` | external: the file ends (EOS) or filesrc cannot open it (ERROR only) |

A file that opens but is no wave file posts an ERROR and then an EOS; the ERROR is
only printed, so that it behaves as any other file.

`Announcer` is the abstract specification: a list, how many of its files have had their
turn (`at`), what is `heard`.  `Listener` in `Playlist` is the refinement mapping (`at` is
`current_file_index + 1`, `heard` is the location of filesrc while there is one), and
`PlaysLists` says that every step of `Playlist` is one of `Announcer` or a stutter.  A
file heard twice, out of order, from the middle of a list or after its end would
break it; a file passed over in silence is allowed, since stale EOS messages do that.
The refinements form a chain: `GstreamerCoreSerial` implements `Playlist` implements
`Announcer`.

### 2.2 GstreamerCore

`pc.asio` and `pc.main` are the statement each thread is at.  A step is one
statement that reads or writes shared state: `current_file_index += 1` is a load
and a store, `filelist[...].c_str()` and the `g_object_set` it is for are two
steps, exchanging the source is READY, look for audiotestsrc, take the old source
out (`source = "gap"`), put the new one in, PLAYING.  `Drop`, `PlayDrop`, `Relink` and `PlayLink`
each merge the several calls that take a source out or put one in; where the other thread
meets such a group half done is not told apart from its start or its end.

`fault` collects what went wrong: `bounds` (`filelist[]` out of bounds), `dangling`
(a name freed while the other thread holds its `c_str()`), `link` (the `g_error` of a
failed link), `freed` (a freed pipeline is used), `disposed` (a pipeline that is not
in NULL is freed).  `overlap` collects the commands that ran while an EOS was being
handled.  Undefined behaviour is a choice: an out-of-bounds read crashes or yields
`Garbage`, a freed name is still readable or not.  What follows the handlers in which
the first fault happened is not explored: nothing can be said of it.

### 2.3 GstreamerCoreSerial

Restricts `GstreamerCore` to behaviours without overlap and maps them to
`Playlist`: a handler happens at its last statement; until then `Playlist` sees the
state from before it (`shot`).  `ImplementsPlaylist` is `Playlist`'s `Spec` under that
mapping.

### 2.4 ToolRouting

`tool_req_list[n]` is the tool id inside the stored request, `NoTool` for null.
`core[n]` is what `CoreList[n]` points to: nothing, a core with the pipeline of a
sender or of a receiver, or one whose pipeline has been freed.  One step is one
request; requests of all connections are serialised by the asio thread, so that
clients interleave by whole requests.  `careless` collects what clients did that they
should not: `taken` (a set_config with an id in use, as tool or as backend), `again`
(a second remove), `orphan` (removing a sender other tools send by).

### 2.5 Connection

`phase[c]` is the read an HmpServer waits for; `inbox` and `kernel` are the two
directions of the TCP connection.  A write that `boost::asio::async_write` could not
finish at once waits in `queue` (asio's reactor, for room) or in `posted` (its
continuation is ready to run); a chunk sent from there is `late`: it is taken from
`rsp`, `len_rsp` or `rsp_len`, locals of a function that has returned, so that the client
may read anything.  `sock` is `GstreamerCore::sock`, set by the first set_config and
never again.

| action | code |
|---|---|
| `Accept`, `AcceptFails` | `TcpListener::handle_new_connection` |
| `ReadHandshake` | `async_read_handshake`, `read_handshake_done` |
| `Serve`, `ServeMalformed` | `async_read_length`, `async_read_data`, `proc`; length and data are one step, nothing shared happens between them |
| `ProcError` | the error branches of the reads, `proc_error` |
| `WriteFails` | the handlers of hello and answer, which throw |
| `DtmfEvent` | the ELEMENT branch of `bus_callback`, whose handler ignores errors |
| `Reactor`, `Continue` | external: boost::asio |
| `Connect`, `ClientSend`, `ClientRead`, `HangUp`, `Reset` | external: a client and its TCP |

A client "hangs up" by closing; one that only shuts down its sending side is not
distinguished.  After RST `shutdown` throws and `proc_error` skips `close`; the
operations of the socket fail all the same, so that the model has one outcome.

### 2.6 RtpReceiver

A generation is the pair of pipelines one set_config makes.  `core->pipeline` of both
cores is always the newest generation's; older ones are what a set_config has left
running.  `socket[g]` is the generation whose udpsink opened the socket receiver
`g` listens to.  `pads[g]` are the pads rtpbin has added, one per source and payload
(rtpbin does not take them away, `autoremove` being off), `linked[g]` the source whose pad
feeds `rtpdtmfdepay`, `digits[g]` the ELEMENT messages that wait on the bus.

### 2.7 RtpNumbering

Extends `Playlist` by `seqnum` and `timestamp` of rtppay, its property `seqnum_offset`, and
`fresh`: no packet has left since rtppay last left READY, so that the counters still
are the offsets.  `sent` remembers the last packet, `cause` what happened since.

| action | code |
|---|---|
| `Swap` | lines 111-116, 169-174, 232-237: silence and a file change places, the counters are handed back as they are |
| `FollowOn` | lines 359-366: the next file, `+ 160` and `+ 1` |
| `HandOver` | what both do: the timestamp is a `guint32` and wraps; `new_seq + 1` is an `int`, and at 65536 the property refuses it and keeps the offset it had |
| `Send`, `Restarted`, `SetSeqnumOffset` | external: the payloader starts from its offsets and adds one packet; -1 is a random number; the property takes -1 to 65535 |

The code hands over the number of the last packet where it should hand over the next
one's, except from file to file; where no packet has left the `+ 1` skips a number.
`wrap` is in `cause` from a `seqnum` of the last value on; the two widths are constants.

### 2.8 Takeover

Extends `RtpNumbering` by `stray`, the EOS messages of replaced pipelines that are on their
buses or will be: nobody restarts such a pipeline, so that it owes its waiting messages
and one more if it was sending a file.  `StrayEos` is `bus_callback` for one of them: it
works on `core->pipeline`, which is the newest, and hands on that one's numbers.  After a remove that is a freed pipeline
(`StrayEosFreed`).  What `RtpNumbering` promises is checked here, with and without
stray messages.  `Owed` leaves out what a replaced pipeline does to the network; a
set_config whose port is taken, so that the new udpsink would not start, is not modelled.

### 2.9 DtmfSender

`at` is the statement of `main` to come; `pc[t]` the statement of the handler on thread
`t`, which may be the main one (which then stands still) or one of the pipeline's
(which does not).  `sending_dtmf` is a plain variable: `Toggle` may invert what the test
read or what is there now, `Send` may send what the handler wrote or what is there now.

An iteration of GLib's loop has four parts, external code modelled by what it locks: in
`again` (the test of `is_running`, prepare, query) and `check` main holds the mutex of the
main context, in `poll` and `dispatch` it does not.  The mutex is not recursive and
`g_main_loop_quit` takes it: `Quit` waits in a handler on another thread until main lets go
of it, and for ever in one on main itself.  A `g_main_loop_quit` of `bus_call` that is interrupted
with the mutex in hand is `again`.

Three locks can stop a handler (`Deadlock`): the state lock of the pipeline, held in `stop`,
which is recursive, so that a handler on main passes and one on another thread waits for
main, which waits for that thread (`state`); a lock of an element or of its queue that the
interrupted thread holds (`inside`, chosen freely where a thread runs GStreamer's code) and
`gst_element_send_event` takes (`element`); and the context's mutex (`context`).  What the other
threads do after that, or after a freed pipeline or loop has been used, is not followed.

`slips` collects when a handler ran that the program is not made for: before the flag is
reset (`unset`), before the loop runs (`early`), after it has been left (`late`), beside another
(`overlap`), on a thread that held a lock (`locked`).

## 3. Runs

| run | distinct states | question |
|---|---|---|
| `playlist` | 1 666 | what one sender promises when handlers run one at a time |
| `core` | 374 816 | which overlap of the two threads each failure needs |
| `core_serial` | 47 160 | does the statement-level sender implement `Playlist` when nothing overlaps |
| `core_link` | stops at the violation | can the `g_error` for a failed link be reached |
| `routing` | 31 684 | where do the entries of the routing table lead |
| `routing_codec` | stops at the violation | does every documented codec make a sender |
| `connection` | about 2 400 000 | who can end the server by a write, mangle a message, leave a dangling socket |
| `connection_live` | about 18 000 | are requests answered |
| `receiver` | 304 972 | who can make `pad_added` abort or meet a freed pipeline |
| `receiver_link` | stops at the violation | can the `g_assert` of `pad_added` fail |
| `takeover` | 1 245 792 | which changes of source repeat or skip a packet's number, and what the pipelines a set_config leaves behind do to the new one |
| `dtmf_sender` | 211 120 | does the digit follow its flag, and does the program end |

### 3.1 What they show

* **`playlist`.** List, index and filesrc agree (`IndexWithinList`, `NowPlaying`).  The pipeline is left in READY, or a file is cut short, only by
  an EOS of a run that was already over (`StallNeedsStaleEos`, `CutShortOnlyByStaleEos`):
  both do happen, since READY does not flush the bus.  The listener hears each list in
  order and once, and silence after it (`PlaysLists`).  A file that opens ends (`FileEnds`); one that does
  not stops the list for good, since the ERROR is only printed.
* **`core`.**  `filelist[...]` goes out of bounds only if a clear or a play overlaps the
  handling of an EOS; either is enough.  A failed link needs a clear, a play or a
  remove; each alone is enough.  Lifetimes break only under the command that ends
  them.  Only a play leaves list and filesrc in silent disagreement.  The
  empty else branch of `PlayFile` is dead under every interleaving.
* **`core_serial`.**  Every handler's statements add up to one step of `Playlist`, so
  that what is proved of `Playlist` holds of the code as long as no command
  overlaps an EOS.
* **`routing`.**  A routed command always finds a core; it reaches a freed pipeline
  or a receiver only after one of three mistakes of clients.
* **`connection`.**  Each request has one answer.  A write ends the server only
  because some client closed before it had read its answers.  A client that waits for its answers and
  gets no events never reads a mangled message.  An event is written to
  a destroyed socket only after the client of the first set_config has closed.
  That all three disjuncts of `FreedSocketNeedsHangUp` and both sets of
  `WaitingClientsReadWhole` are needed has been checked by leaving each out.
* **`receiver`.**  The assertion fails only with telephone events of two sources in one
  pipeline, or after a set_config for a tool that was still configured.  The receivers
  of clients that make no mistake hear; removing the sender before its receiver
  (`orphan`) is such a mistake, since it closes their common socket.
* **`takeover`.**  From file to file the receiver sees no seam (`FilesFollowOn`).  The
  number of a packet is used again only where silence and a file change places, each of
  which costs the receiver a packet, or at the wrap; one is left out only
  for a file that sent nothing, or at the wrap (`FlawsHaveCauses`).  Short of the wrap the
  two numbers tell the same story (`NumbersInStep`).
  Stray messages pass files of the new pipeline over, move on to the next before its time,
  or end the list; they repeat none, and start none once the list has ended
  (`PlaysListsBetween`).  What leaves the new pipeline in READY, or takes a file from it that has
  not ended, in favour of the next or of silence, is one of them or a stale EOS
  (`SilentOnlyByOldEos`); of the commands, clear, remove and set_config take a file away, and
  none leaves the pipeline in READY.  That stray and stale messages both do it has been
  checked by leaving each out.
* **`dtmf_sender`.**  Without slips the digit follows the flag and every second interrupt
  ends the loop.  A freed pipeline or loop, or main and handler waiting for each other, needs
  an interrupt after the loop has been left; a handler that waits for a lock of its own thread,
  an interrupt that met the thread with one.  The loop's mutex never catches the interrupt
  that starts the digit, and the one it catches has stopped it (`FaultsHaveCauses`).  A
  loop asked to quit ends the program, these cases aside (`QuitEnds`).

### 3.2 Findings

* `core_link`: a `play_list_clear` or `play` that overlaps the end of a list aborts the
  server at `ms_gstreamer_core.hpp` 229.
* `routing_codec`: the list of possible codecs (`ms_hmp_parser.hpp` 147-156) has eight names
  for which set_config aborts the server.
* `receiver_link`: a second SSRC that sends telephone events aborts the server
  at `ms_gstreamer_core.hpp` 279.

### 3.3 Bounds

| bound | value | why it is enough |
|---|---|---|
| `MaxList` | 3 | a first, a middle and a last file; two names are needed for a disagreement of index and filesrc |
| `MaxBus` | 3, in `core`, `receiver` and `takeover` 2 | a stale message before a current one; `core` was also run with 3 and lists of 4, with the same results |
| `File` | one that opens, one more or one that cannot be opened, one with the wrong prefix | every outcome of a name |
| `Tool` | 4 | a sender, its receiver, a tool that shares it, one more to take an id from; interchangeable, hence the symmetry |
| `Conn` | 2 | the client that made the core and another that takes it over or suffers |
| `MaxSent` | 3 and 2 | handshake, set_config, remove; handshake, set_config |
| `Capacity` | 2 | an answer fits, a second one does not; the real buffers are larger and only make the waiting rarer |
| `MaxWrites` | 1 with two clients, 2 with one | how many writes may wait when an event is added; answers are not bounded by it |
| `MaxConfig` | 3 | two generations left running behind the newest |
| `Ssrc` | 2 | a second source is the first that fails |
| `SeqMod`, `StampMod`, `Frame` | 3, 6, 5 | stand for 2^16, 2^32, 160; both wrap within a few packets, and of the 18 pairs of numbers 6 are in step |
| `MaxOld` | 1 | up to three stray messages; a second replaced pipeline was run with shorter lists, with the same results |
| `Streaming` | 2 | two handlers beside main |
| `MaxInterrupts` | 3 | on, off, and one that comes late or in between |

The runs of `GstreamerCore` end where the handlers in which the first fault
happened have returned: after undefined behaviour there is nothing to say.
Deadlock is checked in the runs whose specification has a step for a process that
has ended (`Terminated`, `Over`).  `Connection` and `RtpReceiver` may really stop:
clients owe nothing, and a process that has ended does nothing.

### 3.4 Fairness

* `Playlist`: weak fairness of `BusCallback`, since the GLib main loop runs as long as the
  process and dispatches every message, and of `EndOfRun`, since files are finite.
  Commands have none.
* `Connection`: weak fairness of the asio thread's handlers, since `tcpio.run()` returns only
  by an exception and serves ready handlers in order; and of `ClientRead`, which makes
  `AnswersArrive` a statement about clients that go on reading.  Clients need not
  send, need not stay, and events have no fairness.
* `DtmfSender`: weak fairness of main's statements and of a handler that has begun, since
  threads are scheduled.  The poll of the loop is fair only once the loop has been asked to
  quit, since `g_main_loop_quit` wakes it; otherwise it may wait for ever.  Interrupts and bus
  messages have none, and there are finitely many interrupts.

## 4. Proofs

The proof modules are checked by TLAPS for all values of the constants
allowed by the modules' assumptions: any set of names, any lengths of
list, request and bus, any widths of the RTP numbers, any number of replaced pipelines, any set of tools, any finite set of
RTP sources, any number of set_configs, of streaming threads and of interrupts, any set of clients
and any room of two chunks or more in the kernel.

**`PlaylistProofs`.**  The parts of the inductive invariant lean on each other: `PlayFile` keeps
list and filesrc in agreement because `SilenceBeforePlay` excludes its empty else branch,
and `Advance` stays inside the list because the test for its end, an equality, is exact as
long as `IndexWithinList` holds.  The invariant is

    IInv == TypeOK /\ IndexWithinList /\ NowPlaying /\ SilenceBeforePlay /\ FreshMeansEnded

where `FreshMeansEnded` says that a message not marked stale is about the file now being sent,
which has ended; the action properties about stale EOS messages rest on it.
One lemma per action shows that it preserves `IInv`; `IndexSafe`, `AgreementSafe` and
`ElseBranchDead` follow from it, and so do the action properties (`StallSafe`,
`CutShortSafe`, `SilentSafe`), which are proved from `IInv` and one step.
`FilesGoOn` adds that the pipeline plays whenever it sends a file, and that the EOS of one that is over is
still on its bus, unstale, whatever READY and dropped ERRORs have made of the rest.
`ListenerServed` is the refinement of `Announcer`: one lemma per handler shows that the step
is one of `Announcer` or leaves its variables alone, with `NowPlaying` to identify the file heard
and `IndexWithinList` to keep `at` within the list.

**`TakeoverProofs`.**  Its first half is about `RtpNumbering`.  All the handlers do to the numbers is one
of five steps (`NumberStep`).  The inductive invariant `NInv` says that the counters are those of the
last packet until rtppay is restarted, and how far they are `Ahead` of it afterwards, by what `cause`
records: equal after a swap, one packet and one frame after the next file, more only with
an empty file, anything after a wrap.  The timestamps need arithmetic of remainders
(`DivisionUnique`, `RemainderPlus`).  `NumbersServed` states it for a sender alone.  The second half
adds the replaced pipelines: what the EOS branch of `bus_callback` does, with whatever is left on the
bus (`EosBranch`), keeps the invariants of `PlaylistProofs` and `NInv` and is a step of `Announcer`; a
stray message is handled by the same branch.  `TInv` adds how many stray messages there can be.

**`ToolRoutingProofs`.**  The inductive invariant adds to the five invariants of the module that no
entry of a careful history leads to a freed pipeline (`NoEntryFreed`).

**`GstreamerCoreProofs`.**  What one thread has tested does not hold for long when the other runs on,
and the invariant `GInv` says for each statement for how long it does.  The history variable
`overlap` is what makes it inductive: a command and a handler that are both under way are in it
(`Recorded`), so that a statement of one that relies on a test finds the other idle or the
overlap recorded.  `Bounded` follows the index from the test for the end of the list to the
unchecked read, `Linked` the element that feeds audioconvert from unlinking to linking,
`Removed` the pipeline main works on, `Agreed` what filesrc plays through the skip; `Rewound`
needs no history at all, which is why the empty else branch of `PlayFile` is dead in every
interleaving.  One lemma per statement shows that it keeps `GInv`.

**`GstreamerCoreSerialProofs`.**  `SerialImplements` is the refinement of `Playlist`, for lists, buses and
requests of any size.  Without overlaps there is no fault (`NoFault`, from `GInv`).  `SoFar` says,
handler by handler, what has become of `shot` at each statement: what is still as the
handler found it (`ListKept`, `ChainKept`, `Running`) and what READY and the exchange of the source
have made of it (`Halted`, `Silenced`).  One lemma per statement shows that it keeps `SoFar` and is
either unseen by `Playlist` or, as the last of its handler, the action of `Playlist` that stands for
the handler.  What comes or is dropped on the bus meanwhile is put on, or taken from, both
buses; that READY marks messages and a dispatch takes them off in either order
(`OutdatedQueue`) is what makes the two meet again.  `Promised` is `PlaylistProofs` under the same
mapping; its theorems, cited there, give `SerialServed`, the whole chain from the code's statements
to `Announcer`, and `SerialStale`, the properties about EOS messages that come late or get lost.

**`RtpReceiverProofs`.**  `RInv` adds what the mistakes of clients leave intact: only the newest
pipelines play (`OnlyNewestPlays`), a receiver plays beside its sender (`SenderOutlives`) on the
socket of its own generation (`OwnSocket`), and what rtpdtmfdepay is connected to is a pad of
telephone events (`LinkedDials`).  That a second pad of telephone events makes two sources
rests on the finiteness of `Ssrc`: SSRCs are numbers of 32 bits.

**`DtmfSenderProofs`.**  `DInv` follows the one handler there is while none overlap (`Alone`) through
its statements: what it has read of the flag is the flag, and its branch says what that is
(`FlagKnown`); how many interrupts there have been says on which branch it is (`Branch`).  That the
loop's mutex does not catch the first handler rests on `First`, which holds beside any history: the
first interrupt has no second to overlap with.

**`ConnectionProofs`.**  `OneAnswerPerRequest` is an equation between what a client is due and what
is on its way in four queues, and is not inductive by itself: a client may leave, or read
garbage, and the handlers run on.  The invariant `IInv` has four parts for each client.

* `Paid` is the equation for a client that has read only answers and events: what it is due is the
  requests not yet read plus the answers under way, counted by the last chunk of each, in the
  kernel, in asio's queue and in the continuations.  For one that has read garbage it is an
  inequality; a client that left with none due has none under way, which is why only `hasty` ones
  make a write fail.
* `Ordered` keeps the handshake before every request, so that what `ReadHandshake` takes
  off is never a request and what `Serve` answers is never a handshake.
* `Calm` lists the four things the kernel can hold for a client that sends one request at a
  time and gets no events, and says that nothing waits: `SentAtOnce` shows that an empty kernel takes
  a whole answer, which is why such a client never meets a late chunk.
* A client that has read a message that is none was `pipelining` or `called`.

`Hearing` relates the core to the connections: while the receiver is there its socket is the one of a
client that configured it, and that client is still here unless one of the three cases of
`FreedSocketNeedsHangUp` has occurred; the property itself only speaks of the event that finds
the socket gone.  Each queue is counted by a cardinality (`CountAppend`, `CountTail`), so that a
write that moves from one queue to another, in one piece or in two, leaves the sum alone
(`TransferWorks`, `SubmitWorks`).  `Heard`, what a closing socket leaves of a queue, is recursive;
that it keeps the type and the answers is proved by an induction over a set of numbers
(`SetInduction`), since the library's induction theorems need an operator as parameter.

`NobodyWaits` says of a client that waits for an answer that its connection, or it by reading on,
always has a next step: a request is unread and there is a handler to read it, or a chunk is in
the kernel, or the kernel is empty and has room for what waits in the queue.  It rests on `Paid` and on
`Absent`: a client that has not connected has had no part in anything, the events included.

## 5. Model-checked only

`FileEnds`, `AnswersArrive` and `QuitEnds`: liveness under fairness and `ENABLED` are out of the prover's
reach.  Of the first two the half that is safety is proved: as long as the goal has not been reached, what
leads there is at hand (`FileGoesOn`, `NobodyWaitsInVain`, defined beside their proofs; TLC agreed
with both on the constants of `playlist` and `connection`).

Every invariant and every action property of the passing runs is proved; the refinements are too.

## 6. Not modelled

* A set_config for a live sender while a command or an EOS is being handled statement by
  statement: `Takeover` is a model of whole handlers, `GstreamerCore` configures only after a
  remove.
* `tool_id` of 10000 and more (`at` throws, `operator[]` does not), and a backend id equal to
  the tool's own: one step each, with nothing to explore after it.
* `demo/send_audio/send_ivr.py`: one timer and one file at a time, a few dozen states; the
  other Python demonstrations build one pipeline and run it; `test1.cpp` copies objects.
* What in `ms_demo.cpp` depends on locks of the C library and of GLib's allocator and type
  tables (`printf`, `g_print` and `gst_structure_new` in a signal handler): an interrupt of a thread
  inside one of them may hang at any statement, the program then has no further promise, and
  `QuitEnds` is about interrupts that do not.  The context's mutex, the state lock and the
  elements' locks are modelled.  Its messages, one of which names volume 20 where 25 is sent.
* The logger, start-up of the acceptor, the build: no state shared with the rest.
* A composition of `ToolRouting` with a `Playlist` per sender: the tables lead to pipelines and
  never look into them, so that it would say what the two modules say already.

## 7. Plan

Done: `Playlist`, `Announcer` and their proofs, `GstreamerCore`, `GstreamerCoreSerial`, `ToolRouting`
and its proofs, `Connection`, `RtpReceiver`, `RtpNumbering`, `Takeover`, `DtmfSender`,
the proofs of `GstreamerCore`, `RtpReceiver`, `DtmfSender` and `Connection`, that of the refinement
`ImplementsPlaylist` and, with it, of the chain down to `Announcer`, and the safe halves of
`FileEnds` and `AnswersArrive`.

Left: an abstract specification of a request and its answer that `Connection` implements for
the clients that wait, in the manner of `Announcer`; and what sections 5 and 6 give a reason for.
