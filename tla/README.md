# Verification of libvideorender

`libvideorender` gives a media player one interface (`render_plugin.h`) to four
ways of showing decoded frames: directly on a drm plane (`drm/`), through
Amlogic's video tunnel driver (`videotunnel/`), as a wayland client of weston
(`weston/`) and as a client of the westeros video server (`westeros/`).  The
plugins share a small layer of threads, queues, mutexes and polls (`tools/`).
This directory holds TLA+ models of that code, the TLC configurations that check
them and proofs checked by TLAPS.  There are no tests in the repository: what
the code should do is taken from its comments and from the interface's.

## 1. Inventory

### The player's contract

A player hands a `RenderBuffer` to `displayFrame` and gets callbacks:
*displayed* or *dropped* says what became of the frame, *release* gives the
buffer back.  Until the release the plugin may read the buffer, so the player
must not decode into it; after it the plugin must not touch it.  The player makes
one call at a time, in the order listed in `render_plugin.h:55-72`; callbacks
come from the plugin's threads, some with a plugin mutex held.

### Components

| component | state | operations | what makes it correct |
|---|---|---|---|
| drm: `DrmDisplay`, `DrmFramePost`, `DrmFrameRecycle` | two queues, two threads, pause and immediate flags, fence threshold, drm handle, black frame, freeze, hide | open, display, flush, pause, resume, set, close; post thread (vblank, expiry, post); recycle thread (fence, release) | every buffer in one place; released once, after its report; the one scanned out is kept; close returns; the player is fed |
| videotunnel: `VideoTunnelImpl` | the map of queued buffers, frame count, underflow and first-frame flags, a thread, a poll | connect, display, flush, disconnect; thread (dequeue, fence wait, release) | the same ownership; underflow only when empty, but for frames of the last moment; close returns whatever fences do |
| plugin keys: `*Plugin::setValue/getValue` | one field per key, partly passed on | set, get, and what openWindow takes over | a value set is the value in effect |
| weston, frames: `WaylandPlugin`, the frame part of `WaylandDisplay`, `WaylandBuffer` | queue, buffer cache, committed buffers, readiness flags, a post and a dispatch thread | prepare, display, commit, release and frame events, flush, close | a buffer is committed once and released once |
| weston, picture: the rest of `WaylandDisplay` | two slots for outputs, which is current, window, frame size, render and video rectangle | registry events, output hotplug, configure, set window, frame size and output | the current output exists; the picture follows it and the window |
| weston, making of wl_buffers: `WaylandDmaBuffer` | `mWlBuffer`, params, a condition | construct, wait, created and failed events, delete | an answer finds its object; the wait ends |
| weston, formats: `wayland_videoformat` | constant tables | look up | not modelled |
| westeros, frames: `WstClientPlugin`, the thread of `WstClientSocket` | render-buffers and displayed-frames maps, ready count | open, display, flush, pause, resume, close; release and status events | every buffer sent comes back once; a report is true; pause holds |
| westeros, stream: `WstClientSocket` | the bytes in the socket and in `mbody` | read, handle a message | a message is not split or merged, none is lost |
| westeros, picture: `WstClientWayland` | window, transform, zoom, pathway, video rectangle | set window, frame, transform, pathway and zoom events, `getVideoBounds` | video, server and compositor agree with window and transform |
| westeros, resource manager: `wst_essos` | resource id, granted or not | request, grant, revoke | not modelled |
| `Tls::Thread` | running, exit pending | run, requestExit, requestExitAndWait, join | after the wait nothing of the thread runs |
| `Tls::Poll` | descriptor table, flushing, waiting and pending counts, control socket | add, remove, wait, setFlushing | no lost wake-up, no stale one |
| `Tls::Queue` | a list, capacity, open for data | push, pop (waiting or not), peek, flush, setAllowedNewData | order, capacity, nobody waits for ever |
| `Tls::Mutex`, `Condition` | pthread wrappers | | modelled by what pthread promises |
| `Logger`, `Times`, `Utils`, `*_lib_wrap` | log level, dlopen handles | load, unload | not modelled: formatting, clock reads, symbol lookup |

How they interact: the player calls a plugin; the plugin's object calls into its
threads' queues under their mutexes; threads call back into the plugin, which
calls the player.  The drm plugin's two threads are coupled by
`handlePostedFrameEntity`; `Thread::requestExitAndWait` orders their ends.  The
videotunnel thread and the weston and westeros dispatch threads block in
`Poll::wait` and are woken by `setFlushing`.  In both wayland plugins the player's
thread and the dispatch thread write the same rectangles, and no lock is held by
both.

### What is hard

* **Ownership across threads.** An entity moves post queue → recycle queue →
  recycle thread → player while flush and close may run; `drm_framepost.cpp:233`
  uses it after it was handed on.
* **Order between call and event.** videotunnel and westeros send a buffer before
  they record it; the answer may come first.
* **State that survives a session.** counters, flushing flags, exit flags.
* **Values set before the object they are meant for exists.** key handling.
* **Joins.** Every closeWindow waits for a thread that itself may be waiting for
  a fence, a vblank, a queue or a poll.
* **Geometry from two threads.**  The picture depends on outputs, configure events or
  transforms, which the compositor sends, and on the window and frame size, which
  the player sets, in any order; what came last must decide.
* **Waits for an answer.** a wl_buffer is made by the compositor while the player waits.
* **Partial failure.** thread creation, import of a buffer, post, connect: most
  return values are ignored.

`PROJECT.json` lists every hazard with its line and the properties that cover it.

## 2. Modules

| module | models | state ↔ code | actions ↔ code |
|---|---|---|---|
| `RenderContract` | the player's side of `render_plugin.h` | `window`; `holder[b]`, who may write to `b`; `fate[b]`, what was reported of its submission | the edges a step may move a buffer along: accept, refuse, display, drop, discard, release |
| `DrmPipeline` | `DrmDisplay`, `DrmFramePost`, `DrmFrameRecycle` | the two `mQueue`s, `mPaused`, `mImmediatelyOutput`, `mWaitVideoFence`, the two threads' places, the plane | one per critical section or blocking call of each thread, one per call of the player; `stop` is `CloseWindow`, `JoinPost`, `JoinRecycle` |
| `VideoTunnel` | `VideoTunnelImpl` with its plugin | `mQueuedRenderBufferMap`, `mQueueFrameCnt`, `mUnderFlowDetect`, the flushing of the poll, the thread; the driver's queue outside | `displayFrame` is `QueueFrame` and `InsertFrame`; `disconnect` is `CloseWindow` (sets `mRequestStop`), `AskRunning`, `JoinThread`, `Disconnect`; the thread looks at the count (`FindsNone`, `FindsSome`), announces (`Underflow`) and goes on with `Dequeue`, `WaitFence`, `Lookup`, `Release` |
| `TlsThread` | `Tls::Thread` | `mRunning`, `mExitPending`, pthreads, callers | sections under `mLock` |
| `TlsPoll` | `Tls::Poll` | `mFds`, `mFlushing`, `mWaiting`, `mControlPending`, the bytes in the control pipe | every atomic load, store and add of `wait` and `setFlushing` is a step |
| `TlsQueue` | `Tls::Queue` | the list, `mAllowedNewData`, callers in a condition wait | sections under `mMutex` |
| `DrmKeys` | `DrmPlugin::setValue`, `getValue` and what `DrmDisplay::start` and `stop` carry over | the stored values, those in effect, and whether the objects they go to exist | one per key, `OpenWindow`, `OpenFails`, `CloseWindow` |
| `WstKeys` | `WstClientPlugin::setValue`, the messages to the video server, what `openDisplay`, `openWindow`, `displayFrame` and `closeWindow` tell it | the fields of the plugin and the frame size in `WstClientWayland`; `server`, what was told on this connection | one per key, `OpenDisplay`, `OpenWindow`, `DisplayFrame`, `CloseWindow` |
| `VideoGeometry` | `resizeVideoSurface`, `videoCenterRect` of weston; `updateVideoPosition`, `getVideoBounds`, `setTextureCrop` of westeros | none: operators | the result of a computation on doubles is the set of the values that may come out |
| `WstClient` | `WstClientPlugin`, its socket thread | `mRenderBuffersMap`, `mDisplayedFrameMap`, `mReadyDisplayFrameCnt`, messages on the way; the server outside | player calls split where `mRenderLock` is taken, one action per message, the callbacks after the lock a step of their own |
| `WestonFrames` | `WaylandPlugin`, the frame part of `WaylandDisplay`, `WaylandBuffer` | `mQueue`, `mCommittedBufferMap`, `mRedrawingPending` (of the display and of each buffer), `mUsedByCompositor`, `mRenderBuffer`; weston outside | the post thread up to the commit in the steps `PostStart`, `PostPop` or `PostPeek`, `PostTake` and `PostShow`, `Construct`, `Commit`; `bufferRelease` in three, and a second event for the same release (`BufferReleaseAgain`); an output that comes or goes in two |
| `WestonOutputs` | outputs, window and picture of `WaylandDisplay` | `mOutput`, `mCurrentDisplayOutput`, `mSelectOutputIndex`, `mUpdateRenderRectangle`, `mXdgSurfaceConfigured`, `mFullScreen`, `mRenderRect`, `mWindowRect`, `mVideoRect`; the outputs, their modes and the queue of events outside | one per event handler, but two for an output that comes (`GlobalAdded`, `CurrentChosen`) or goes (`GlobalRemoved`, `CurrentReplaced`); one per setter, `resizeVideoSurface` in three steps of either thread; uses the operators of `VideoGeometry` |
| `WestonDma` | `WaylandDmaBuffer::constructWlBuffer` and its callbacks | `mWlBuffer`, the params, who is in a callback, the result of `waitRelative` | sections under `mMutex`; `Dispatch` is the callback before its lock, `Store` after it |
| `WstStream` | `processMessagesVideoClientConnection` and the loop that calls it | the bytes in the socket, `m` and `len` | `Read` is `recvmsg`, `HandleMessage` one case of the switch, `EndRead` leaving the loop |
| `LossyChannel` | nothing: what the client may count on of the stream | messages waiting, the last one handled, whether some are being lost | |
| `WstOutput` | `WstClientWayland`'s rectangles | `mWindowX..`, `mWindowSet`, `mWindowChange`, `mTransX..`, `mVideoX..`, `mZoomMode`, `mForceAspectRatio`, `mPixelAspectRatioChanged` | setters, `setWindowSize` in four steps (`SetWindowSize`, the request, `Decide`); a request to the compositor in two (`ReadWindow`, `SendGeometry`); `updateVideoPosition` in two (`Compute`, `Write`), `getVideoBounds` in up to five, `vpcVideoPathChange`, `vpcVideoXformChange`, `outputHandleMode` |

`DrmPipeline` and `WstClient` each instantiate `RenderContract` with their
`holder` and `fate` histories and are shown to implement it; `WstStream` is shown to
implement `LossyChannel`.  The tools are
models of their own; the plugins use what these establish (a wait returns when
the body is over, a flushed poll returns, push and pop are atomic).  Modules
named `MC...` give the constants their values; `..._proofs` hold the theorems.  Where
two components share no state, a MC module may check both in one run: a variable
says which one a behaviour is about, and the others' variables stay as they are
(`MCPluginKeys`: the two key modules; `MCTlsCalls`: thread, poll and queue;
`MCWestonFrames`: frames and the making of a wl_buffer; `MCWstClient`: frames and the
stream; `MCWestonDisplay`: outputs, `WstOutput` and the arithmetic).
`MCVideoGeometry` answers requests in one step and holds the reference definitions.

Modelling choices that hold everywhere:

* A step is a section under one mutex, or a blocking call, or code between two of
  these that touches state another thread reads.  Where the code reads a variable
  without its mutex (`drm_framerecycle.cpp:109`, `wayland_plugin.cpp:291`) the
  read and what follows from it are different steps.  So are a read of a variable and
  the message or request made of it (`videotunnel_impl.cpp:252`,
  `wstclient_wayland.cpp:254`), and two stores another thread may read in between
  (`wayland_display.cpp:576, 583`).  Section 7 lists where steps are merged all the same.
* A `RenderBuffer`, the entity made for it and its wl_buffer share one name; the
  player makes one call at a time and hands in only buffers it has
  (`render_plugin.h`).
* Time is abstracted to what the code compares: a drm frame is due after 0 to
  `MaxDelay` vblanks, a weston frame when `PostPeek` happens.
* `holder` and `fate` are histories of the callbacks, not variables of the
  program.  Definitions whose comment starts with "Mutant" are variants of the
  definition after them with a plausible mistake; no specification uses them, and
  a checked property fails when the mistake is put in.
* Spurious wake-ups of a condition are not modelled: every wait of the code
  re-tests its condition in a loop.

## 3. Runs

`tlc -config <cfg> <module>`; bounds are those of the cfg.

| run | question | result and bounds |
|---|---|---|
| `drm_frames` | do the two drm threads, flush, pause and close keep every frame in one place and give each back once? | holds: 3 buffers, delays of 0 or 1 vblank, each thread's creation failing or not.  Three is the least pool with which the recycle thread, which keeps two, ever releases one. |
| `vt_sessions` | the same for the video tunnel, over reopenings, with buffers returned before they are recorded | holds: 3 buffers, `mQueueFrameCnt` up to 4 (one more than the pool: the count a former session leaves), all four faults |
| `vt_fence_skipped` | "send uvm fd to driver after getted fence" (`videotunnel_impl.cpp:275`) | **violated**: after one closeWindow the poll flushes for ever |
| `tls_calls` | is a wake-up of a poll ever lost; does a wait for a thread outlast its body and end; do the queue's signals reach who needs them, is the list sorted? | holds: 2 waiters, 2 flushers, one descriptor, up to 2 pending wake-ups; 3 callers of one thread object, 3 pthreads, creation failing or not; 3 threads, 3 places, keys 1 and 2 with duplicates |
| `poll_stale_wakeup` | "this will happen in the _wait() thread" (`Poll.cpp:203`) | **violated**: nobody reads the byte |
| `plugin_keys` | is what the player set last in effect, over reopenings and whatever the order of calls? | holds: drm with 2 rectangles, built with `SUPPORT_DRM_FREEZEN`; westeros with 2 crops, one over the edge of a frame and one below it, 2 frame sizes, 2 rates, one with a zero denominator |
| `wst_frames` | does the westeros plugin keep the contract, does each report tell what the server did, does the stream lose messages only when it overflows? | holds: 3 buffers with distinct display times, refused sends, no overtaking; a read of 5 units, 7 units in the socket, messages of 2, 3 and 4 |
| `wst_pause_lost` | "send pause cmd immediatialy if no frame displays" (`wstclient_plugin.cpp:300`) | **violated** after a flush |
| `weston_frames` | the same questions for weston, with and without `set_pts`, outputs coming and going; do answers about a wl_buffer find their object? | holds: 2 buffers with distinct pts, 1 pending frame callback each, one of the two released by two events, any of the other unused wl_buffers deleted when a new one is made; 3 wl_buffers made one after the other |
| `weston_wait` | "try wait for 1000 ms" (`wayland_dma.cpp:142`) | **violated**: neither a time-out nor an early failure ends the wait |
| `picture` | is a frame shown where, and in the shape, it should be, whatever the order of the events and calls that decide it? | holds, with the exceptions its properties name: weston with 2 outputs plugged in and out, the first of which changes between two modes, one of them that of the second, 2 events of the compositor's own at a time, one window and one frame size; westeros with one window, one frame size, 3 transforms, one zoom mode; arithmetic: 10 frame sizes, 3 pixel aspect ratios, every zoom mode, 6 windows of weston, 2 of westeros, 2 transformations |
| `wst_window_early` | "if window size is updated, update video position" (`wstclient_wayland.cpp:632`) | **violated**: a window set before the first transform is placed with a denominator of 0 |

Why the bounds are enough: for the safety properties of `DrmPipeline`, `VideoTunnel`,
`TlsThread`, `TlsPoll`, `WestonFrames` and `DrmKeys`, and for the contract of
`wst_frames`, the theorems of section 5 hold for every value of the constants, so
the bounds serve liveness and the mutants.  `Ownership`, `RedrawIsAwaited`,
`RectInEffect`, `KeepInEffect`, `OneBody`, `NobodyForgotten`, `CountIsExact`, `LoopsEnd`,
`DroppedGoesBack` and the `HeldOnce` of three modules are proved and in no run any
more.  For the rest:

* Answers that overtake the recording of their frame, and shared display times, are
  outside `wst_frames` because the reports then need not be true; that the contract
  and `LoopsEnd` hold with them is what the theorems add.
* `weston_frames` was also explored with 2 pending frame callbacks each and both buffers
  released twice: 10.7 million states, to the end, without an error.
* The queue's properties speak of two sleepers at most and one element or place,
  which three threads and three places cover; four threads were checked before the
  three tools shared a run.
* A call of `WstKeys` depends on one crop, one frame size and one rate at a time, so
  two of each show every change from one to another.
* The stream: a read of 5 units takes two short messages and a piece of a third, or
  a long one and a piece; 7 units are more than one read takes, so that a read can
  end inside a message, the next begin inside one, and end inside another or not.
  The code's numbers are 64 units and whatever the socket holds.
* The outputs: two for two slots, so that one goes while another stays or comes, a new
  one takes the slot of an old one, and may have the size the old one had.  With a
  third, which may find no slot, the run was explored too (14.7 million states, to
  the end).  Two events of the compositor's own come on top of what its answers
  queue, so a mode may change while the plugging of its output is still to be handled.
* The sizes of the arithmetic take every branch: wider than, as wide as and less wide
  than the window, 16:9 exactly, to a thousandth and not, above full HD, uneven.
  Three things are left out of its properties because the code does not do them, see
  section 4: a window that hangs over the display, a video moved by the compositor
  on the graphics path, a frame without a size on westeros.

Some properties name when they do not hold.  What they name is a history: a
variable that no step of the code reads and that is set exactly when something
happened after which the code does not do what the property says.  Section 4 tells
of each:

| module | history | set when | property |
|---|---|---|---|
| `VideoTunnel` | `late` | a frame was recorded between the look at the count and the message | `UnderflowWasEmpty` |
| | `twice` | a buffer was queued again while the driver, or the thread, had it from before a flush | `ReleasedWhenDue` |
| | `orphan`, `lost` | the driver will not return a buffer; there will be no thread | `FramesComeBack` |
| `WestonFrames` | `rushed` | an output came or went while a frame was still to be drawn | `FramesPaced` |
| | `repeated` | the second event of a release met its buffer in use again | `HeldOnce`, `DroppedGoesBack` |
| | `fate` "overtaken" | a buffer was submitted again in the middle of its release | `ClosedGivesBack` |
| `WstKeys` | `withdrawn` | closeWindow took the immediate output back | `ServerUpToDate` |
| `DrmKeys` | `crashed` | a NULL handle was dereferenced; nothing happens afterwards | `KeepInEffect` |
| `WestonOutputs` | `missed`, `unseen`, `overlapped` | a mode came when none was waited for; the render rectangle was set before the video's could follow; two resizes at once | `RenderFollows`, `VideoFollows` |
| `WstOutput` | `stale`, `spoiled`, `overtaken` | two calls at once, or a change of the pathway, worked the rectangle out; `outputHandleMode` wrote over a window; a window was sent after a newer one | `SettlesRight` |

Three runs turn the deadlock check off: `tls_calls`, because consumers of an empty queue
nobody pushes to wait for ever, as they should; `plugin_keys`, because the program
ends where it dereferences a NULL handle; and `weston_wait`, where the number
of wl_buffers is bounded.

### Fairness

Assumed is only that threads run: weak fairness of each step of a thread, and of
the rest of a call once it was made (`JoinPost`, `AskRunning`, `JoinThread`, `Disconnect`, ...).  Nothing is
assumed of the player: it may stop calling at any point.  Beyond that:

* `drm_frames`: strong fairness of `PostVBlank`, because `drmWaitVBlank` may fail
  and is then retried (`drm_framepost.cpp:150`); a fence signals once the plane
  shows another buffer.
* `vt_sessions`: closeWindow returns without any assumption on the driver.  That
  frames come back is stated under `FairCompositor`, an antecedent of the property:
  the driver returns every buffer, fences signal.
* `tls_calls`: a time-out of a poll is not fair, the wait may be `wait(-1)`.  A body
  that is asked to exit may be called again as often as
  `threadLoop` returns true, but it does return.
* `wst_frames`: the server deals with each frame it has unless it is paused; the socket thread
  reads and handles what there is (`Moves` of `LossyChannel`).
* `weston_wait`: both threads go on, a condition's wait ends in its second, and the
  compositor answers each request.
* `weston_frames`: strong fairness of `PostPeek` (a frame looked at again and again
  falls due), weak of the rest of an event handler once begun, strong of frame callbacks
  and of the dispatch thread's look at the exit request: there is an output, and there
  are no other events to handle, again and again.  That an output is
  plugged in or that weston releases a buffer is not assumed.

## 4. What the runs found

Five disagreements between a comment and the code, each with a run:

* **Video tunnel fences are skipped after the first session.**  `disconnect` makes
  the poll flush (`videotunnel_impl.cpp:108`), nothing undoes it, so later
  `waitFence` calls return at once and buffers are released before their fence.
* **The wake byte of a poll is never read.**  `Poll::wait` returns without reading
  it and `releaseWakeup` has no caller, so after a flush is called off `poll(2)`
  returns at once for ever.  No caller in the plugins calls a flush off, so none meets it yet.
* **westeros: pause after flush is not sent.**  `flush` empties
  `mDisplayedFrameMap` and leaves `mReadyDisplayFrameCnt`; `pause` waits its 20
  rounds and then finds the count above zero.
* **weston: the wait for a wl_buffer has no end.**  `ERROR_TIMED_OUT` is `INT_MIN + 5`
  (`ErrorCode.h:39`), `waitRelative` returns `-ETIMEDOUT`, so the test of
  `wayland_dma.cpp:143` never succeeds and the loop goes on while no answer comes.
  A failure answered before the player takes the lock leaves `mWlBuffer` as it was,
  is not seen, and no second answer comes.
* **westeros: a window set early divides by zero.**  `getVideoBounds` places the video
  with the scale of the compositor's transform (`wstclient_wayland.cpp:635`, the division at 929)
  and does not test its denominators, 0 from the constructor (378-379) until the first
  one, as `setWindowSize` does (576).

Facts met while modelling that contradict no comment and have no run:

* drm: `PLUGIN_KEY_VIDEO_PIP` falls through to the immediate output key when set
  (`drm_plugin.cpp:191`) and to the hide key when read (154); hide set
  before openWindow is never applied.  Built with `SUPPORT_DRM_FREEZEN`,
  `setKeepLastFrame` before openWindow dereferences the NULL `mDrmHandle`
  (`drm_display.cpp:326`): it is an argument of a log call, and these are evaluated at
  every log level (`Logger.h:75`) (`crashed` of `DrmKeys`).
* videotunnel: openWindow succeeds when the driver could not be opened
  (`videotunnel_plugin.cpp:92`); flush and disconnect report frames dropped that were reported
  displayed; frames outstanding at a close stay in `mQueueFrameCnt`, so underflow
  is not announced in later sessions.  The thread looks at the count without `mMutex`
  (`videotunnel_impl.cpp:252`), so it may announce underflow with a frame just recorded
  (`late`).  A thread that ends between `mRequestStop = true` (104) and `isRunning()` (106),
  or that could not be made, leaves `mStarted` set: later sessions have no thread and no
  frame comes back (`lost`).  A buffer submitted again after a flush, while the thread waits
  for the fence of its former submission, is released when that one ends, the driver still having
  it (`twice`).  The tunnel id and pip keys change
  `mInstanceId` at once (`videotunnel_impl.cpp:199`), so when they are set while
  connected, frames go to, and `disconnect` is made of, an instance that was not
  connected (159, 118). The model has the one instance chosen before `openDisplay`.
* weston: pip reaches the surface only when the display is opened
  (`wayland_display.cpp:742`); `setPip` (914) has no effect on a session that runs.
* `Poll::wait` tests `mWaiting` with a value loaded before the add (`Poll.cpp:155`),
  so two threads may poll at once; `removeFd` drops the last descriptor, whichever
  was meant (110), which is right for its one caller.
* `Thread::run` called between the end of a body and the moment a woken waiter has
  the lock withdraws the waiter's exit request.
* `Queue::flush` wakes no producer; nothing in the plugins waits to push.
* westeros: a status that overtakes the recording of its frame is lost, and the
  frame is later reported dropped although it was shown.
* westeros, keys: crop and frame rate are told once, on whichever connection, and not
  again after a reopening; `closeWindow` forgets that the player asked for immediate output
  (`wstclient_plugin.cpp:368`), so the next session has none (`withdrawn`), and when the
  player takes it back the server is not told; a crop cut on one side before it was
  found unusable stays cut (`Corrected`).
* westeros, geometry: of a window that hangs over the right edge `setTextureCrop`
  shows too little, since it takes the window's width for the display's
  (`wstclient_wayland.cpp:817, 857`), and a video that begins inside the window and
  leaves it gets a negative crop (806).  Of a frame size never set
  `getVideoBounds` makes an int of a NaN.
* westeros, picture over time (`stale` and `spoiled` of `WstOutput`): a change of the pathway
  while a window waits for the next frame uses up `mWindowChange` and then puts
  the old rectangle back (635, 998); until then `displayFrame` may read the window in
  its place.  Two calls under way at once, or a window set while `outputHandleMode` is
  between its test of `mWindowSet` and its write, leave what the slower one worked
  out.  A geometry request is sent after the window was read: of two threads that do both
  (254, 573, 778, 900), the one that read before `setWindowSize` wrote (562) may send last, and the
  compositor keeps the former window (`overtaken`).  `setVideoPath` does not look at its
  parameter and cuts a texture on the return
  to the hardware path too.  `mWindowSet` is never reset; `mPixelAspectRatioChanged`,
  `mTransX` and `mOutputWidth` are not set by the constructor.  The server of a new
  session is not told of the rectangle before it changes; frames carry their own.
* westeros, stream (`WstStream`): once more than the 256 bytes of one read have waited
  together, the message cut at the end of the read is lost, and so is all of the next
  read, which begins with its rest, and so on until a read ends with a message.
  When the server is gone `recvmsg` returns 0, the thread takes it for no
  message and polls again at once; nobody is told.
* weston, geometry: a window larger than the render rectangle on one side only is
  not reduced (`wayland_display.cpp:1170`), and a window taken back (0x0) takes effect
  with the next resize only (1144).
* westeros, essos: the granted notification holds `mLock`, and its callback opens the
  display, which locks it again (`wst_essos.cpp:17, 138`).
* weston, outputs: the third output at a time gets no slot, is not logged ("Not enough
  free output", `wayland_display.cpp:511`, is in a loop with an `i` of its own), and
  is not taken up when a slot falls free.  A mode is looked at only while
  `mUpdateRenderRectangle` is set (`wayland_display.cpp:926`).  An output bound into a slot has
  the former one's rectangle until its mode comes, and a configure event in between uses
  the flag up with it; and an output that changes its mode later changes nothing: only a
  configure event does, which a compositor sends to a window in full screen at most
  (`missed`).  No output is current between the loss of one and the choice of the
  next (576, 583), nor, after there was none, between the binding (515) and the
  choice (537): the post thread drops what it looks at in that time.  A first configure event with the size
  of the output, before the surface is configured, sets the render rectangle and
  never the video's (`unseen`).  Two resizes at once leave the subsurface where one of
  them put it and scaled as the other has it (`overlapped`).  Setting the window
  back to nothing resizes nothing, and a window set before the frame size never ends the full
  screen.  `PLUGIN_KEY_IMMEDIATELY_OUTPUT` is put into a local variable that hides the
  one passed on (`wayland_plugin.cpp:235`).
* weston, pace: an output that comes resets `mRedrawingPending` as the last step of its
  handler (547), long after it was bound (515), and while there is no output the flag is not looked
  at; so a frame may be sent before the one before it is drawn (`rushed`).
* weston, change of resolution: preparing the first frame of a new size deletes every
  WaylandBuffer of another size that weston is not using (`wayland_display.cpp:1521`), those of
  frames in the queue too: the post thread does not find them and drops these
  frames.  It also deletes those that the post thread has found and not yet attached, that
  the dispatch thread is releasing, or that a frame callback is owed for, each of which is used
  afterwards; the map is used by both threads without a lock.
* weston, wl_buffers: a frame shown with no dma width has its size set before the key of the
  cache is worked out, so the wl_buffer made by `prepareFrame` is not found.
* weston: `bufferRelease` resets `mRenderBuffer` after the callback
  (`wayland_buffer.cpp:77`); a buffer the player submits again inside that window
  loses it and is never reported or released again (`overtaken` in the model).
  "sometimes this callback be called twice" (73): a second event for a release, when the
  buffer was submitted again in between, gives it back while weston has it or will
  be sent it (`repeated`).  The post thread looks at the time of the frame it peeked at
  (`wayland_plugin.cpp:305`) after a flush may have given it back, and then takes what is at
  the head (310), which may be another, not yet due.  Nobody asks whether the thread could be created (111):
  if not, frames stay in the queue until closeDisplay.
  `mCommittedBufferMap` is keyed by pts: a frame with the pts of one still
  committed is not recorded and never released (with a constant `Pts` that gives
  both buffers one value, `DroppedGoesBack` and `ClosedGivesBack` fail).  `flush` reports
  committed buffers without an `mRenderBuffer` as null
  pointers.  A plugin object whose display was closed cannot be opened again:
  the poll keeps flushing and the outputs keep their old `wlOutput`.

## 5. Proofs

`tlapm <module>_proofs.tla`.  All are for every value of the constants, under the
assumptions the modules name, which TLC evaluates on every run:

* a null value is not a buffer (`NoBufferAssumption`, `UntoldAssumption`); pools and threads
  that are counted are finite (`BuffersAssumption`, `ThreadsAssumption`, `QueueAssumption`);
  bounds and tries are natural numbers;
* windows are rectangles of integers, outputs have sides above zero, crops and frame sizes are of
  natural numbers (`SizeAssumption`, `OutputAssumption`, `CropsAssumption`, `FramesAssumption`):
  the code takes them as `int`s, and of a frame a size below zero as one not set
  (`wstclient_plugin.cpp:686`), which 0 stands for;
* the unit of the crops of `VideoGeometry`, and the size of a read, are natural numbers
  (`CropAssumption`, `ReadAssumption`).

Four theorems have a hypothesis besides, a constant formula that some uses of the library
meet and some do not; section 4 says what happens without it:

| hypothesis | says | needed for |
|---|---|---|
| `DistinctPts` of `WestonFrames_proofs` | no two frames have the same pts | `mCommittedBufferMap` is keyed by pts |
| `DistinctTimes` of `WstClient_proofs` | no two frames have the same display time | a status names its frame by the time; with two of one time the first in the map is reported |
| `NoOvertaking` of `WstClient_proofs` | the server answers no frame before `displayFrame` has recorded it | a status that overtakes is lost, so the frame is reported dropped later, and the ready count stays |
| `WindowsHaveWidth` of `WestonDisplay_proofs` | the player sets no window of width 0 | such a window is stored and resizes nothing (`wayland_display.cpp:1144`) |

Each invariant below is inductive: it holds of the initial states and every action
keeps it, with one step of the proof per action.  TLC checked the new ones on the bounds of the runs before
they were proved.

| module | proved | the invariant, and why it is needed |
|---|---|---|
| `DrmPipeline_proofs` | `TypeOK`, `Ownership`, `ReportedEntityIsAlive`, `ScreenBufferHeld`, refinement of `RenderContract` | `ThreadInv`: the newest frame of the recycle queue is the posted one, and the recycle thread pops only with two queued.  It carries the argument that the entity reported after its hand-over is alive.  `FateInv`: queued is unreported, recycled is displayed.  Lemmas on push, pop and taking a prefix of a queue without duplicates. |
| `VideoTunnel_proofs` | `TypeOK`, `HeldOnce`, `ReleasedWhenDue`, `UnderflowWasEmpty` | the map is never larger than `mQueueFrameCnt` (`CountInv`), which may be ahead of it; what is recorded was reported (`ReportInv`); what the thread has and the driver too was queued again (`TwiceInv`); once the thread has seen no frame, those there are were recorded since (`LateInv`) |
| `TlsCalls_proofs`, poll | `TypeOK`, `CountIsExact`, `NoLostWakeup` | the byte is in the pipe exactly while wake-ups are pending (`ByteInv`), and these are no more than the callers of `setFlushing` still allow (`RoomInv`); cardinalities of the sets of threads at a place |
| `TlsCalls_proofs`, thread | `TypeOK`, `OneBody`, `NobodyForgotten`, `WaitMeansOver` | the three invariants together: `mRunning` says whether there is a body, so the waiter's test is right |
| `TlsCalls_proofs`, queue | `TypeOK` with the capacity, `InOrder`, `ConsumerWakes`, `ClosingWakes` | the four are inductive together.  `Position`, where an element is put in, is the least place with a larger element; that there is a least one comes from the well-foundedness of the numbers (`LeastNumber`).  `InsertProperties` says what the list is after.  For `ConsumerWakes` the consumers on their way are counted: a push adds one element and, if anybody sleeps, one consumer; a pop takes one of each |
| `PluginKeys_proofs`, drm | `TypeOK`, `MuteEndsWithSession`, `RectInEffect`, `KeepInEffect` | what was asked for is what is stored (`DrmStoredInv`).  `KeepInEffect` also says where the program ends: in the build that freezes, without a window, and nowhere else |
| `PluginKeys_proofs`, westeros | `TypeOK`, `ServerUpToDate`, `CropNotHeldBack`, `SentCropFits` | between openDisplay and openWindow the server knows nothing but the rate in force (`ServerInv`); what the player said is what is stored, but for an immediate output taken back (`SaidInv`).  `CorrectedFits`: what is left of a usable crop lies in the frame |
| `WstClient_proofs`, frames | `TypeOK`, `HeldOnce`, `LoopsEnd`, refinement of `RenderContract` | `FateInv`: to display is unreported, the rest of what is recorded was reported or is just being |
| `WstClient_proofs`, reports | `DisplayedWasShown` (`DistinctTimes`); `DroppedWasNotShown`, `PauseAfterLastFrame` (with `NoOvertaking`) | a buffer is with the server once: in its queue, on the screen or in one message that gives it back, and recorded as long (`AwayInv`); a status on its way is of a frame that was shown and is still on the screen, or whose release comes behind it (`StatusInv`).  So the frame under the time of a status is the one it was sent for.  In order: what the server holds and has not shown is still to display, and what is to display and was shown has its one status on its way (`OrderInv`); the ready count is not below the number of frames whose status is owed (`CountInv`), so at zero there is none |
| `WstClient_proofs`, stream | `MessagesAreWhole`, `LossesAreOverruns` | the units read and those in the socket are pieces that fit together, the last unit ending a message (`ReadInv`).  A message that begins and is long enough is then all there (at most four units, followed one by one); one that is cut has its rest in the socket, and only a read that was full leaves any |
| `WestonFrames_proofs`, frames | `TypeOK`, `HeldOnce`, `RedrawIsAwaited`, `FramesPaced`, `DroppedGoesBack`, `ClosedGivesBack`, all assuming `DistinctPts` | what is being released for the first time is committed and weston does not have it, and no other committed buffer is unused but those overtaken, so that cleaning the cache releases nothing (`PlaceInv`); what the plugin has is queued, at hand, committed or overtaken (`LostInv`); from the first tests to the commit nothing is still to be drawn, unless an output came or went (`PaceInv`) |
| `WestonFrames_proofs`, wl_buffers | `AnswersLand` | the params live while the player is in `constructWlBuffer`, and a callback is one of the object it is making (`ParamsInv`), whose `mWlBuffer` says how far the answer has come (`AskedInv`); of any object but the one being made, the wl_buffer that was created is kept or destroyed (`KeptInv`) |
| `WestonDisplay_proofs`, outputs | `TypeOK`, `CurrentIsPlugged`, `RenderFollows`, `VideoFollows` (`WindowsHaveWidth`) | of every output in a slot, the state is known or in the queue, or it is gone and its removal is (`QueueInv`, `ToldOf`); an output just bound is that which will be current, or will be told of (`AddedInv`); an update still to be made has the event in the queue that will make it (`UpdateInv`): so nothing is left undone when the queue is empty.  `RenderInv` is `RenderFollows` without the quiet.  `VideoInv`: the picture fits, or one thread alone is on the way to placing one that does |
| `WestonDisplay_proofs`, westeros | `SettlesRight` | a thread at a step of `updateVideoPosition` has what the present window and transform ask for, or `stale` says it was overtaken (`PositionInv`, `StaleInv`); what is being sent to the compositor is the window, or `overtaken` says it was, and once every request is sent the compositor knows it (`SendInv`, `MineInv`); without a window of the player's it is the display (`WindowInv`) |
| `VideoGeometry_proofs` | `WestonShowsWhole`, `ZoomKeepsShape`, `TextureShowsOverlap` | a truncated quotient is off by less than one (nonlinear lemmas for the solver, each with its own variables), so a side is off by one pixel and a shape by one pixel's worth; a texture by the crop's unit and one pixel |

A module that checks several components in one run says of its specification that every
behaviour is one of each component (`CallsAreBehaviours`, `KeysAreBehaviours`,
`PartsAreBehaviours`, `PlacesAreBehaviours`, `PartsAreRequests`), and with that the
theorems of the components hold of what TLC runs.  Every invariant of the passing runs, and every
action property and refinement of them without fairness, is stated by a theorem.

`TypeOK` is proved and not listed in the runs, but for that of `WstOutput`,
`WestonDma` and `WstStream`, whose inductive invariants type the variables instead
(`WstTypes`, `DmaTypeOK`, `ReadInv`).

Only model-checked:

* All liveness (`CloseReturns`, `PlayerIsFed`, `FramesAreReported`, `FramesComeBack`,
  `ExitReturns`, `FlushEndsWait`, `FramesReported`, `QueueDrains`): it needs fairness and
  ENABLED, which the prover does not handle.
* `ReadsMessages`, that `WstStream` implements `LossyChannel`.  The channel's
  messages are counted by a selection (`SelectSeq`) and a fold over the units, and what these
  give for a sequence of any length needs an induction over the sequence.
  The two theorems on the stream state what of it can be said
  without counting: messages are whole, and what is thrown away was cut by a full read.
  That they come in order and that none is lost in the middle is TLC's.
* The five disagreements of section 4.

## 6. Plan

Done: the frame paths of all four plugins, the tools, the keys of drm and
westeros, the geometry and its composition with the outputs of weston and the two
threads of westeros, the byte stream, the making of wl_buffers; theorems for every safety
property of the runs but the safety half of `ReadsMessages`.  Next:

1. Theorems: that `VideoTunnel` and `WestonFrames` implement weaker contracts than
   `RenderContract` (both report more than once); the safety half of
   `ReadsMessages`, with the heads of the messages counted by their places.
2. `createFrameEntity` and the plane mute of drm, with their error paths; the keys of
   videotunnel and weston; underflow and first-frame messages.

## 7. Not modelled, and why

* Logging, clock reads, symbol lookup (`*_lib_wrap`), protocol descriptions, build files:
  no state that a property could be about.  The table of video formats of weston is
  constant, and looked up only.
* The essos resource manager: compiled in with `ENABLE_WST_ESSOS` only, and when essos
  grants and revokes, and from which thread, is not in the repository.
* Drawing itself, drm and wayland requests: external, modelled by what the callers
  rely on (a fence, a vblank, a release event, a frame callback, an answer).
* `wl_shell` and `fullscreen_shell` in place of `xdg_wm_base`, seats and input, the shm
  buffer behind the video, opacity, z-order and visibility: they set a value and pass it on.
* How a message to the video server is put together (`wstclient_socket.cpp`, `send...`): its
  bytes are given by the protocol; what is sent, and when, is in `WstClient` and `WstKeys`.
* `Tls::Mutex` and `Condition` are one-line wrappers; what pthread promises is
  built into the steps, and `waitRelative`'s result is in `WestonDma`.
* A failing openDisplay of weston, and its other keys: with item 2 of the plan.
* What weston's plugin does with a WaylandBuffer it has deleted: undefined, so `Unused` of
  `WestonFrames` leaves out the deletions that lead there (section 4).  The key of the cache
  is taken to tell buffers apart; it is made of numbers put together without a separator.
* Unsynchronised plain reads (`mPaused`, `mWaitVideoFence`) are read as one of the
  values written; tearing of a machine word does not happen on the targets.  A
  rectangle of four words is read and written whole as well, which is a simplification:
  `WstOutput` and `WestonOutputs` only show what whole rectangles can do.
* Steps that are one in the models and several in the code, no property depending on it:
  `vtQueueBuffer` and the reset of `mUnderFlowDetect` after it (`QueueFrame`); the two reads
  of `PostStart`, of the output and then of the redrawing flag: what resets the flag after the
  first read does so while there is an output, and `PostStart` is that moment; the release of
  the buffer on the screen (`drm_display.cpp:126`) and the end of the drm handle (146)
  (`JoinRecycle`); the flush message of westeros (`wstclient_plugin.cpp:269`) and the section
  after it (272-284); the geometry and the mode of an output, which come together; the store of
  an empty slot into `mCurrentDisplayOutput` and its correction at `wayland_display.cpp:530`,
  which only the player's own thread can see.
* weston's immediate output (`wayland_plugin.cpp:296`) is a frame that is due at once.  A release
  event is handled when it is sent.
* The creation of the socket thread of westeros (`wstclient_socket.cpp:101`) always succeeds in
  the model; without it no message is ever read.  `Tls::Thread`'s guard against a thread
  that waits for itself (177, 196) has no caller that does.
* The crop of a texture is in `VideoGeometry`, not in `WstOutput`, which follows the window the
  compositor is told.
