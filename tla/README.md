# CyXV-D3D: specifications, model checking and proofs

This directory models the parts of CyXV-D3D that are hard to test: the lock-free
frame path of the injected XV extension, its start-up inside a foreign X server,
its configuration, the image layouts it tells clients, the Phoenix streaming pipeline
and the two renderers on TCP port 9999, and the package installer `apt-cyg`. Paths below are relative to the repository's root;
`dispatch.c`, `init.c` stand for `src/cyxv_dispatch.c`, `src/cyxv_init.c`.

Run a model with `tlc -config MCFrameRing.cfg MCFrameRing.tla`, the proofs with
`tlapm FrameRingProofs.tla` (and likewise the other seven `*Proofs.tla`). `PROJECT.json` lists every run, the source lines of
every definition (`map`), the hazards of the code and the property aimed at each,
and a mutant for each property: a plausible bug that the property finds.

## 1. Inventory

| part | state it keeps | operations | talks to |
|---|---|---|---|
| frame ring (`dispatch.c` 112-177) | 16 slots, `head`, `tail` (uint32_t), `g_sem` | `ring_enqueue`, `ring_dequeue` | X server thread writes, render thread reads |
| frame path (`dispatch.c` 304-339, 561-636) | malloc'd pixel buffers | `h_PutImage`, `h_ShmPutImage`, `render_thread` | the ring; Xlib |
| shared-memory cache (`dispatch.c` 66-106, 198-214) | 32 entries XID/shmid/address | `shmseg_to_shmid`, `shm_attach` | server's resource table, kernel |
| image formats and conversion (`dispatch.c` 216-302, 344-444, 544-559) | none | `image_attrs`, `h_QueryImageAttributes`, three converters, `render_frame` | client, Xlib |
| XV requests and replies (`dispatch.c` 446-690) | none but the client's sequence number | `cyxv_dispatch`, `h_*` | client |
| start-up (`init.c`) | hook site and saved bytes, what is wired, the server's table | `cyxv_ctor`, `init_extensions_hook`, `init_thread`, `do_init` | the server's main thread, Loader Lock |
| configuration (`cyxv_config.c`) | `CyxvConfig` | `cyxv_config_load` | files, environment; start-up reads it |
| apt-cyg | `installed.db`, manifests, installed files, `_installing`, current directory | install, reinstall, upgrade, remove, update, queries | mirror, tar |
| Phoenix capture (`dxgi_capture.cpp`) | a frame, a pipe | acquire, write | streamer |
| Phoenix streamer (`phoenix_streamer.py`) | pipes to and from ffmpeg, `buf`, a socket | `read_dxgi_frame`, `main`, `nal_sender` | capture, ffmpeg, receiver |
| Phoenix receiver (`phoenix_receiver.c`) | a packet, the decoder, a shared-memory image | bind, accept, receive, decode, resize, draw | streamer, X server |
| ghost renderer (`src/libcyxv.c`) | `engine_started`, a pixel buffer | `FakeXvDispatch`, `phoenix_server`, `handle_client` | senders on port 9999, X server |

Which behaviours are hard:

* two threads on the ring, with no lock, across index wrap and interrupted waits;
* ownership of a pixel buffer crossing threads, on drop paths and without a renderer;
* a cache that is read long after the request, while clients reuse XIDs;
* code that runs before `main`, under a lock it does not know of, patching the
  function it will later call;
* pipes smaller than what goes through them, reads that return what is there, the
  end of any one of four processes;
* two programs with different protocols on one port, each serving one sender at a
  time, and a shared image rewritten, and a window resized, while the X server may still
  be at the picture before;
* a recursive installer that exits or is killed anywhere and works on files
  another run left.

What makes each part correct: the ring is a bounded FIFO queue that never blocks
its producer; each buffer has one holder and is freed once; a frame is shown from
its client's segment; the layout the client is told, the bytes copied and the
bytes read agree; the extension appears after the built-ins and completely wired;
frames and NAL units arrive whole and in order and nobody waits for ever; the
window shows the last picture decoded though it changes size, and segments do not pile up; the installation database tells the truth about the files.

## 2. Modules

```
FrameQueue      abstract: bounded FIFO that drops the newest when full
   ^ refinement (ImplementsQueue: TLC; RingImplementsQueue: proved)
FrameRing  <---- FrameRingProofs <--.
   ^ INSTANCE                       | INSTANCE, for the ring's theorems
FramePath  <---- FramePathProofs ---'       ShmCache (on FrameQueue) <---- ShmCacheProofs

Config             CapturePipe    PhoenixStream            Wire
   ^ EXTENDS              ^ INSTANCE  ^                 ^          ^ EXTENDS
Startup                   Phoenix ----+         GhostServer    PhoenixReceiver
   ^                         ^                          ^          ^ EXTENDS
StartupProofs          PhoenixProofs                    Renderers -+ <---- RenderersProofs

XvReplies <---- XvProofs ----> XvImages     AptInstall <---- AptInstallProofs
```

Each `MCx` module gives constants to `x` for TLC. Operators whose name begins
with `Mut` are mutants; no specification uses them.

**FrameRing.** A step is at most one access to shared memory. `dpc` and `rpc` are
the two program counters; a copy of a `FrameMeta`, many words long, is "in
progress" while a counter is at `write` or `copy`, so a data race is a state. The
indices are computed modulo `IndexMod`, which stands for 2^32. Each index has one
writer and is published with release and loaded with acquire, so interleaving
covers what the memory orders allow. `Interrupted` is `sem_wait` returning EINTR,
whose result the code ignores.

**FrameQueue** is what the comments promise the server: an offered frame is
accepted or, only if the queue is full, dropped. The mapping: `queue` is what lies
between the indices, `offer` the dispatch thread's `m` until the head is published,
`taken` the render thread's `m` once the tail has passed it.

**FramePath** puts `malloc` and `free` on the ring's steps. `renderer` is false
when `XOpenDisplay` failed: the extension is then registered without its consumer.

**ShmCache** has frames wait in a `FrameQueue`, which the ring implements, and
clients that attach, detach and rebind XIDs in between. A mapping is named by its
shmid. `resolved` is a history variable.

**Config** is the loader: a file is the sequence of its lines, cut at `=`; `Apply`
is `apply_kv`, `ParseFile` a fold of it, `Load` the order of the files. Below it
stands what the files say without reading them in order (`LastHolds`), which
`ConfigIsLayered` compares with the loader's result.

**Startup** runs the server's main thread, as `tests/xwin_stub.c` plays it,
beside the thread that runs `do_init`. A sleep may end at any time. After `HookSpawns`
main is `hooked`: the new thread, which does not sleep, may be anywhere in `do_init`
before main is at `serve`. `XOpenDisplay` is answered by a server that serves; before
that it waits if the server listens while it starts (`listens`), and fails if not. `env` is the
choice of platform, configuration files, exported symbols, of that, and whether `/proc` and
`mprotect` do what the code needs; everything else (`Hookable`, `Found`, `Usable`,
the extension's name) follows from it and from `cfg`, which `LoadConfig` fills.

**XvImages** is a pure-algorithm model run as a machine: the client asks for a
layout, fills its buffer by the reply and the advertised format alone
(`ClientSample`), and the converters' loops record which byte each component of a
pixel is read from, and where it is written. The reference is the client's layout; the
code's the index arithmetic, with its integers: sizes in the reply are modulo `DimMod`
(2^16), the products modulo `IntMod` (2^32), as `int` and then cast. `Put` names any size
and comes with any amount of data, as the handlers check neither. The properties say
for which puts they hold: `SamplesAreRight` for the size the reply named, `ReadsInside` for
even sizes with enough data, both only if no product wraps (`Fits`).

**XvReplies** is one client's connection. `Dispatch` is the server counting a
request and `cyxv_dispatch` handling it to its end; what the handler writes is the
header's announced length and the writes after it, in bytes. The client reads as
libxcb does, from the length and the number alone: `ReadHeader` finds the request
by its number among those it sent, which wrap, and takes all before it for handled.
`missed` and `mixedUp` are history variables. Requests that `Silent` names, and all
of them without `WriteToClient`, get nothing.

**AptInstall** is one run of the script after another; `stack` is the recursion of
`_do-install`, each record its local variables. Downloads, extraction and PE check
succeed or fail by choice, and the process may die anywhere. Where it dies between the two
moves of the table, the table is lost, and the one begun anew has no header line
(`headed`): `apt-upgrade` skips the first line, and so the first record (`Overlooked`, in the
order of names, `Rank`).

**CapturePipe** carries *units*: a width, a height (each a write of its own in the
code) and rows. A read takes at most what it asks for and what is there.

**PhoenixStream** has `main`, ffmpeg, `nal_sender` and the receiver on four bounded
links. A NAL unit is `NalLen` pieces, the first two its start code, so that a read may cut
that as well; `NextStart` finds whole start codes only.

**Phoenix** composes the two: `main` reads the pipe only between two writes to
ffmpeg (`GetFrame` is `Deliver` of the one and `Capture` of the other), and its end
ends the capture, ffmpeg and the connection. Not so if it ends in `start_dxgi_capture`, for
want of a header or by Ctrl-C (`Quit`, `GivesUp`): ffmpeg and the thread are not there yet
(`Started`), and the capture is left running. Its `FramesArrive` goes from the
capture to the receiver.

**Wire** is port 9999 as the operating system gives it: one listener, a backlog,
streams, ends that are noticed when what was sent is read. A header is one unit of a
stream, each piece of what follows it another; a short read inside `recv_all` cannot
be told from a slow sender, so `recv_all` is one step, or the end of the stream.

**GhostServer** is `libcyxv.c`: `Ignite` is `FakeXvDispatch`, `Bind` to `Accept`
is `phoenix_server`, the rest `handle_client` with its reused buffer. A picture may go
undrawn (`NotDrawn`: no image), or into an XID that is no drawable's, whose error ends the process,
the X server with it (`XErrorExits`). **PhoenixReceiver**
is `main` of `phoenix_receiver.c`; the decoder takes a packet and may give its picture
at once, later or never (`held`). The X server beside it takes requests from a queue:
`memory` is what a segment holds *now*, so a request shown late shows later rows. A
segment is destroyed when the receiver removes it and the server has not attached it
(`Serves`). The window has a size: what does not fit is cut off, what is drawn before the
window is mapped is lost, and a change of size loses what it shows. A window manager, if there
is one (`managed`), maps and resizes in the server's stead and later (`todo`, `ManagerActs`), and
another window may cover this one (`Covered`); as the receiver asks for no event of these,
`disturbed` notes that the window lost a picture in a way the program cannot know of.
**Renderers** puts both on one port with senders of both protocols; those of the first send
without end.

## 3. Runs

Passing runs, all with the smallest instance in which the interesting cases occur.

| run | bounds | what it shows |
|---|---|---|
| `frame_ring` | 2 slots, indices mod 4, 2 frames | no overrun, no slot race, no unset or stale entry, no lost wake-up, spurious wake-ups bounded by 2, refinement of `FrameQueue` with its liveness |
| `frame_path` | the same ring, 5 buffers | one holder per buffer, allocated = held (so the heap is bounded), buffers freed when there is a renderer |
| `shm_cache` | 3 XIDs, 2 segments, cache 2, 3 mappings, queue 1 | a steadily bound XID is shown from its segment |
| `startup` | 2 built-ins, table of 3, 3 files out of 4, 3 sets of exports, a server that listens early or late | the configuration is the files' last word, the hook path loses no registration, everything wired before visible, the server starts, the extension comes up |
| `xv` (`MCXv`: XvReplies and XvImages, which share no variable) | 2 requests of each kind and the focus on their way, numbers mod 4; sizes 0..7 x 0..7 asked for and put, all five formats, integers mod 192, 20 or 100 bytes of data | announced lengths are the lengths written, and each request gets its own reply in order; YV12, I420, YUY2 and NV12 read the bytes the client wrote, if it puts what the reply named; even sizes with enough data are read inside; planes apart |
| `apt_install` | 3 packages with a cycle, 2 versions of one, 1 target per command, a lost table | records are true, recursion ends, downloads find setup.ini, requirements complete |
| `phoenix` | frame of 2 rows, pipe of 2 units, 4 frames; 3 pieces a unit, 2 of them its start code, links of 1/4/1 | frames assembled right, packets are whole units in order, the writer goes on, frames arrive from end to end, the program ends with the capture |
| `renderers` | 2 ghost senders without end, numbering 0, 1, 0...; a streamer of 2 packets; sizes 0, 1, 2 and too large, a window that begins at 1, 5 X requests | pictures drawn whole, the last picture decoded is shown through a change of size, segments released, who waits is served once the one before him ends, who is wrong here is sent away |

Why the bounds suffice. The ring: positions of two slots, all residues of both
indices, full and empty ring, and a wrap that is not a multiple of the ring's
size alone all occur; the proofs then cover every size. FramePath has one buffer
more than the ring and the two threads can hold. ShmCache has one XID
more than the cache has entries, and XIDs are symmetric (nothing tells them apart,
`LowBits` is constant). Startup: two built-ins let the extension come before,
between and after them; of the four files, one turns the hook on, one garbles it, one
sets every other key and one is empty or missing, and each may be the variable's, the
user's or the system's. Images: up to 6x4 the products fit, so odd and even sizes, a
single row and column and two and more chroma rows occur without a wrap; beyond, the integers
wrap, and the largest size is rounded up to what the reply cannot hold; 20 bytes are too little
for most sizes, 100 enough for those that fit. XvReplies: requests in flight interact through the
stream's position and the number's wrap only, so pairs of every kind of request, at
every residue of the number, and the reply of the focus after them are enough; the
names have their real lengths. AptInstall: three packages give a cycle, a shared
and an essential package. A command names one target (an upgrade without targets
takes them all): after a target that was handled without `--nodeps`, the next one
starts in the state a new command would start in, the marks of `fresh` aside. Phoenix: the pipe
is smaller than a frame and holds a header, stdout holds a unit and half a start code, so that
reads cut frames, units and start codes anywhere, and four frames fill every link (167 755 states). Renderers: two ghost senders are
one to be served and one to wait; as they need not end, neither sends a last picture, and
two numbers tell a picture from the one before, which may be smaller, larger or cut off in the
same buffer. Two packets let the size change once after the first picture, and five
requests let the X server be a whole change of size behind, so that a segment is removed before it
is attached; the window of size 1 grows, stays, or shrinks again (329 406 states). `stream_deadlock` has six frames, which fill every link and leave one to write.

`CHECK_DEADLOCK FALSE` stands where the system really stops: start-up ends,
or hangs in the Loader Lock; a client without replies waits; pipelines and connections end with one of
their processes, or have no more frames. The ring, the frame path, the cache and AptInstall are checked for deadlock.

Runs that find a property violated: what a comment says, and the code does not do.

| run | property | disagreement |
|---|---|---|
| `config_first_match` | `FirstMatchWins` | the header says of the configuration files "first match wins"; the system's file takes back what the user's said |
| `shm_stale` | `ShownFromItsShmid` | the cache compares XIDs only; a rebound XID is shown from the old segment |
| `apt_rollback` | `RollbackIsClean` | a failed reinstall deletes files of the installed version, whose record stays |
| `stream_deadlock` | `NoReadWriteDeadlock` | when the receiver goes, main blocks in a write for ever |

Further behaviours of the code that the models contain and that contradict one of
its comments or messages; no property asks for them:

* with the cache full, each frame of a further XID maps the segment once more, for
  good ("cached after first attach", `dispatch.c:322`): `Remember`;
* `sleep(2)` does not order AddExtension after the built-ins ("Wait for ...",
  `init.c:315`): `ThreadStarts`;
* UYVY goes through the YUY2 converter (`dispatch.c:399`): `Pass`;
* the destination size is echoed by QueryBestSize ("any size is fine",
  `dispatch.c:523`) and not used when drawing: `Drawn`;
* a dependency that cannot be downloaded ends the command ("continuing",
  `apt-cyg:886`): `DownloadFails`;
* an upgrade marks dependencies as asked for (`apt-cyg:777-778`): `UpgradeTarget`;
* with `--nodeps` a second target is looked up in the first one's directory: `MoveIn`;
* started by the hook, `do_init` may open the display before the server answers, and
  "rendering disabled" (`init.c:286`) stays so: `OpenDisplayFails`;
* a put of an odd size, or with less data than the size needs, is converted all the same
  (`dispatch.c:236`, 248, 259, 616): `Put`; a size whose products wrap gets a layout that fits
  nothing, and the largest is answered as 0: `Attrs`, `h_QueryImageAttributes`;
* after a lost table `upgrade` overlooks a package ("No targets = upgrade everything currently
  installed", `apt-cyg:918`): `Overlooked`;
* an XID that is no drawable's ends XWin.exe ("runs for the lifetime of XWin",
  `libcyxv.c:104`): `XErrorExits`;
* the receiver says "Listening on 9999" without looking at what `bind` returned;
  beside a ghost server `listen` takes another port and `accept` waits where nobody
  connects: `ReceiverBindFails`;
* when `bind` or `XOpenDisplay` fails, the ghost server never starts again: `BindFails`;
* a ghost sender that streams on, or is silent and open, keeps all others waiting
  (the comment at `libcyxv.c:141-142` says so): `WaitersAreServed` excepts it (`Occupied`);
* a picture put before a window manager maps or resizes the window, or covered by another
  window, is not put again: `ScreenIsCurrent` excepts it (`disturbed`);
* the receiver accepts one sender; a second waits until it ends: `ReceiverAccepts`;
* the size of the capture is read once: after a change of mode the headers still give the
  old one, so "resolution changed" (`phoenix_streamer.py:109`) never comes of a mode change,
  only of a cut header: `Header`, `SizeChanged`;
* a header read in half, the width without the height, shifts every later frame
  ("Read one BGR24 frame", `phoenix_streamer.py:93`): `Deliver`;
* a half-read first header ends the streamer ("did not send a frame header",
  `phoenix_streamer.py:88`): `ReadFirst`;
* a frame is returned only when the next one's header arrives
  ("~2ms", `dxgi_capture.cpp:6`): `Deliver`;
* the last NAL unit is lost when the streamer ends ("Flush the last NAL unit",
  `phoenix_streamer.py:159`): `Exit`.

The passing properties are stated so that these defects do not hide others:
`SteadyXidShown`, `AlignedFramesAreWhole` and `RecordsAreTrue` except exactly the
case concerned (an XID rebound, a header read in half, a rollback of the very
package), and hold otherwise; so do `ReadsInside`, `WaitersAreServed` and `ScreenIsCurrent`.

### Fairness

Only what the scheduler owes: a thread or process that can take its next step
takes it in the end (`WF` of the disjunction of its steps). Clients need not send
requests, signals need not arrive, the screen need not change, processes need not
die, downloads need not succeed. In FrameRing the wait is fair because a post
enables it for good: the render thread is the only one that takes. In
PhoenixStream by itself, as `stream_deadlock` runs it, frames do come; in Phoenix they
come when the capture has them. `Interrupted`, `EncoderDies`, `ReceiverGone` and
`CaptureEnds` have no fairness. In Renderers the programs and the X server are fair and
the senders, the window manager and other windows are not: a sender may be silent for
ever, or send for ever. In AptInstall only safety is checked.

## 4. Proofs

Every invariant that a passing run checks is also proved, for all values of the constants.
Each proof module extends one specification (XvProofs two, which is why the names of
`XvImages` that would clash begin with `Image`) and has one lemma per action, or per part
of the invariant an action disturbs; the inductive invariants were checked by TLC on the
runs' instances before they were proved. The assumptions on the constants are the
`ASSUME`s of the specification; TLC evaluates them in every run. `TypeCorrect` (and
`ImagesTypeCorrect`) proves the type invariant in each module; the other theorems are:

| theorem | says |
|---|---|
| `FrameRingProofs`: `RingIsBounded`, `EntriesAreFilled`, `SlotsDoNotRace` | the lock-free ring is never overrun, never shows an unset slot, has no data race |
| `WakeupsAreKept`, `WakeupsStayBounded` | no lost wake-up; at most two spurious ones |
| `RingImplementsQueue` | the safety part of the refinement of `FrameQueue` |
| `FramePathProofs`: `EveryBufferHasOneHolder` | no leak, no double free, no use after free |
| `MemoryIsBounded` | at most `RingSize` + 2 pixel buffers are allocated at a time |
| `PathImplementsQueue` | with its buffers, the frame path still implements `FrameQueue` (safety) |
| `ShmCacheProofs`: `SteadyXidIsShown` | an XID that was never rebound shows its own segment |
| `StartupProofs`: `LayersHold` | the loader's result is the last word of the files, of any length |
| `WiringPrecedesClients`, `RegistrationsSurvive` | wired before visible; the hook path loses no extension |
| `AptInstallProofs`: `RecursionIsBounded`, `DownloadsAreAtHome` | one call per package; downloads find setup.ini at any depth |
| `NothingIsMissing`, `RecordsHold` | requirements are complete; records are true |
| `PhoenixProofs`: `FramesAreWhole`, `UnitsAreWhole` | frames and NAL units survive every way of cutting the pipes |
| `RenderersProofs`: `GhostPicturesAreWhole` | a picture is its sender's, whole |
| `CurrentPictureIsShown`, `SegmentsAreReleased` | the last picture decoded is shown, in a window of its size, unless others took the window; segments do not pile up |
| `XvProofs`: `RepliesAreTheirOwn` | the client stays in step and gets its own replies, in order |
| `ConvertersFollowTheLayout` | for a put of the size replied, if its products fit the integers: each pixel comes from the bytes the client stored its samples in |
| `ConvertersStayInside` | for a put of an even size that fits, with enough data: no byte outside the image is read or written |
| `LayoutsAreApart` | for a size that fits: the advertised layout gives no byte to two different samples |

**The ring.** For every set of frames and all constants with `RingAssumption`:
`RingSize > 0`, `RingSize < IndexMod`, `RingSize` divides `IndexMod`, `NoFrame` is no
frame. The code's 16 and 2^32 satisfy it (`RING_SIZE` "must be power of 2").
Divisibility is what makes `i & RING_MASK` continue across the wrap. The inductive
invariant is `IInv == TypeOK /\ RingBounded /\ EntriesFilled`. `RingBounded` alone is
not inductive: that there is room when the slot is written follows from the test
before it *and* from the other thread only making more room, hence its conjuncts for
`write`/`publish` and `copy`/`advance`. `EntriesFilled` at `publish` carries the written
slot to the step that makes it an entry. The lemmas below it are arithmetic:
`DistanceValue` (wrapping subtraction as a case distinction), `CloseSlotsDiffer` (indices
less than a ring apart have different slots), `HeadSlotFree`, `SlotOfSuccTail` (moving
the tail shifts the entries). `NoSlotRace` follows from `IInv` and `CloseSlotsDiffer`; the two
theorems on wake-ups are inductive relative to `IInv`: each step changes entries and
wake-ups together. In the refinement `PublishHead` is `Accept`, `Drop` is `Drop`,
`AdvanceTail` is `Take`, `Rendered` is `Shown`, `Offer` is `Offer`, and every other step
stutters.

**The frame path** takes the ring's `IInv` and its step lemmas from `FrameRingProofs` by
`INSTANCE`, with buffers for frames: `RingSteps` says that each of its steps is a step
of the ring or leaves it alone. What is added is that the heap holds buffers only and
that `BuffersAreHeld`: the ring alone tells where a frame is, the heap alone what is allocated,
and neither is inductive without the other. `MemoryIsBounded` is a consequence: the holders are
the entries of the ring and the two threads' `m`, and a surjection from the places in use
bounds the entries. (TLC finds states with exactly `RingSize` + 2.) `PathImplementsQueue` composes
`RingSteps` with the ring's own refinement.

**The cache.** `SteadyXidShown` speaks of what is drawn; inductive is `Provenance`:
whatever stands for an XID anywhere (offered, waiting, taken, cached, drawn) was once
resolved from that XID. With one value ever resolved, it is that one. `First` needs a
least index, which comes from well-founded induction on the numbers.

**Start-up.** `ConfigIsLayered` is the one property about a fold of unbounded length. It
is proved by induction over the lines, for which `NatSetInduction` states induction
for a *set* of numbers in place of a formula (the library's theorem takes a
formula as its parameter, which the provers cannot instantiate), from the well-foundedness of `<`. `WiredInOrder` tells, for
each place `do_init` can be at, what is wired by then; `HInv` that on the hook path no
two threads store to the table at once (`OneAfterTheOther`) and that the count is the number
of those who did (`Counted`).

**apt-cyg.** `TInv` has the shape of the recursion: the packages of the open calls are distinct
and are those of `_installing`, all calls but the innermost are in their loop over dependencies, and a
command, its calls and the replacement table agree. On it rest, each with an invariant of its own, `Cwd`
(where a download finds itself), `Closure` (every requirement of what is recorded is
recorded, or was entered by a call that is still open, which is how a cycle is closed), and
`Truth` (an unfinished install keeps its files, and the replacement table is true as well as the table it replaces).
`headed` changes with a kill only and is in none of them: no theorem is about what `upgrade` overlooks.
`RecordsHold` has the hypothesis `FilesApart`, that no two packages own one file, because `apt-cyg` does not look: removing one
of two that share a file takes it from the other. The instance of `apt_install` meets it.

**Phoenix.** The invariant says that each unit in the pipe is followed by the next one
(`Chained`). What stands *i* places behind the head would then need an induction along the
chain; instead the invariant also relates any two units by their distance
(`Behind`: as far apart in the pipe as in the source, or with a header between them
that takes room of its own), which every write extends and every read keeps. The stream of NAL pieces behind
ffmpeg (`Flow`: what is in `buf`, in stdout and pending before it) is done alike (`Apart`); what `buf`
holds without a whole start code in it is, when ffmpeg has died, the beginning of one unit, or that unit and the first half
of the next one's start code (`TwoNals`).
`AlignedFramesAreWhole` excepts runs in which a header was read in half, as the code does not
notice it.

**The renderers.** `ConnInv`: one listener, one client each, `conn` and `backlog` agree. `FlowInv`: what a program has
taken of a connection, what is in the stream and what the sender still has to send are,
joined, cut into messages at a set of places (`CutsAt`): a header, then its pieces.
Reading moves a boundary between the parts, not the text; a program that hangs up is
the one exception. `ScreenInv` is about the receiver and the X server's queue: rows in a segment
are of the last picture or earlier (`SegmentRows`) but never earlier than the request that shows them (`RequestedRows`),
a segment is attached before it is shown and the old one detached before the new
one is attached (`DetachedFirst`, `AttachedFirst`), the last request is of the last picture (`LastShown`).
`WindowInv` is what makes that picture fit: each picture in the queue is behind a resize to its size with no
other in between, or has the size the window has or will have once its manager has done what it was asked (`Fitted`, `Destined`),
and what is shown is no longer than the window (`RowsFit`).
The assumptions: a connection holds the largest picture the server accepts (a `recv_all` is
one step in the model, so its bytes must fit), and the X server's queue three requests.

**The replies.** `NumInv`: the requests on their way have consecutive numbers counted back from
the client's next one, and the server's count is the number of the last it handled; more numbers than the window
holds (`SeqMod > Window + 1`; 65536 and the focus request that libxcb slips in) make them
distinct through any wrap. `WireInv`: each header on the stream answers exactly one
handled request (`Whole`), its data follows it, the headers are in the order of the requests
(`InOrder`), no request that gets a reply is without one (`Answered`), and what the client
needs is what is left of a reply it has begun (`Reading`). That a length is the sum
of the writes after it is `PieceFacts`, a case for each kind of reply.

**The images.** The assumptions are that `DimMod` and `IntMod` are even and positive. Sizes are any
numbers below `DimMod`, 0 among them; where `Fits` is supposed, `NoWrap` and `FitsAttrs` show
that no product is changed by its width, and the rest is arithmetic without bounds.
`Place` gives a sample's byte in closed form, from the format, the component and the
number of the pixel (luma) or of its pair (chroma, packed formats). Three groups of lemmas
say that the client's formula and the converter's index are both `Place`, that `Place` is
inside the image, and that it differs for different samples. They rest on arithmetic that
the provers need spelt out: `OnePlace` (`r * w + c` with `c < w` determines `r` and `c`),
`InsideRows` (it is below `w * h`), `Halves` and `Areas` (even sizes have whole halves, so a
chroma plane is a quarter of the luma plane), `EvenUp` (what the reply names is even, or 0 for the largest). The planes of YV12 and I420 are three
intervals; in NV12 the two chroma components differ in parity; in a packed format they
have other places in their group of four. The inductive invariant `ImageInv` adds to the
layout's shape that, of an even size that fits (`Fine`), the loops have written exactly
`Row * w + Col` pixels, each made from its own place: the loops keep only counters, so what they wrote before has to be part
of it. UYVY is excepted from `SamplesAreRight` as the property says, since `render_frame`
converts it as YUY2; it is not excepted from the others.

Only model-checked, and why:

* liveness and fairness (`~>`, the `WF` of `ImplementsQueue`): they need `ENABLED`, out of the
  provers' reach;
* the four properties found violated: there is nothing to prove.

Induction over data by the library's theorems and anything about RECURSIVE operators are out of
reach as well; no module here has a RECURSIVE operator, and where an induction was
needed it is stated for a set.

## 5. What is abstracted, what is left out

* Logging; in particular the lock of the `FILE` both threads log through, which is held
  for one `fprintf` and under which nothing else is locked.
* Pixel values: XvImages tracks which byte, not what value. `yuv_pixel` is arithmetic on
  three bytes with no state, which a table-driven unit test covers.
* The kernel's byte granularity of pipes: units of the code's own writes.
* `apt-cyg`'s postinstall and preremove scripts: they run after or outside the state modelled.
* `resolve-provides`: `Requires` has provided names resolved.
* Lines of a configuration file longer than its 256-byte buffer: `fgets` returns them in
  pieces and each is parsed as a line (the tail of a long comment, too), which is a file
  with other lines.
* A client of the other byte order: `cyxv_dispatch_swapped` swaps nothing, so it is read
  and answered wrongly from its first request on.
* `find-workspace` and `get-setup` of apt-cyg: `setup.ini` changes as a whole between two
  commands (`Update`), though a corrupt download leaves none (`apt-cyg:214`). The queries
  change nothing.
* The offset of a shared image into its segment, which no handler checks: a segment is modelled as
  the data behind the offset (`Put`'s amount).
* A window manager that gives the receiver's window a size it did not ask for; one that does
  loses part of every picture.
* Ctrl-C in the few lines between `start_encoder` and the `try` (`phoenix_streamer.py:191-199`),
  which would leave ffmpeg running as well: it is taken for one inside the `try`.
* What libavcodec decodes, and Xlib's error handling other than its end of the program.
* The receiver's last segment, which nothing removes when the program ends.
* How `/proc/self/maps` is parsed: a base is known or not.
* Libraries: Xlib, libavcodec, Direct3D, ffmpeg, tar, wget: their visible outcomes only.
* `fake_xv_init.c` and `docs/`: no state.

## 6. Plan

Order of writing: the ring and its abstraction first (the system's core), then what
is built on it (FramePath, ShmCache), then Startup with its configuration, then the
independent programs and their composition. All modules of section 2
and their proofs are done. What could still be modelled:

1. `AptInstall`, with `get-setup` (failing downloads, a corrupt archive), and with two
   versions that differ both ways, for the manifest replaced before extraction.
2. `XvReplies`, with a client of the other byte order.
